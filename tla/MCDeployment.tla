------------------------------- MODULE MCDeployment -------------------------------
EXTENDS Deployment, TLC

\* Operators are interchangeable.
Symmetric == Permutations(Operators)
===================================================================================
