SPECIFICATION Spec
CONSTANTS
  Operators = {"alice", "bob"}
  Shifts <- AnyShift
  FirstNonces = {380}
  Delay = 2
  GracePeriod = 1
  Margin = 1
  MaxTime = 5
INVARIANTS NoneLost TakeEffectInOrder SettingsKept OneFeed  OwnImplementation Announced QueueableInTime
\* every operator may be done
CHECK_DEADLOCK FALSE
