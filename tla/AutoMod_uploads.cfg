SPECIFICATION MCSpec
CONSTANTS
  File = {f1, f2}
  First = f1
  Second = f2
  Free = Free
  Policies <- ThePolicies
  FirstPolicy <- Watch
  MaxHeld = 1
  MaxReviews = 2
  MaxChanges = 1
  MaxCrashes = 1
CHECK_DEADLOCK FALSE
INVARIANT FilesHold
PROPERTIES ReviewWins Decided
