SPECIFICATION Spec
CONSTANTS
  Operators = {alice, bob}
  MaxRuns = 2
SYMMETRY Symmetric
INVARIANTS Wired FileNamesDeployed KeptUnlessOverlapped
\* every operator may be done, or MaxRuns reached
CHECK_DEADLOCK FALSE
