CONSTANTS
  Callers = {c1, c2}
  MaxChanges = 2
SPECIFICATION FairSpec
INVARIANT FreshAnswers
PROPERTIES
  SwitchFollows
  CallersReturn
CHECK_DEADLOCK FALSE
