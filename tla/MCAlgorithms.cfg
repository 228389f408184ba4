CONSTANTS
  Size = 132
  Padding = 12
  Day = 12
  MaxMembers = 6
  MaxOnes = 2
SPECIFICATION Evaluation
INVARIANTS
  LayoutRight
  FirstImages
  IdsReadBack
  HoursRight
CHECK_DEADLOCK FALSE
