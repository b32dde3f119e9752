\* Functions of any instructions, with calls of functions that use ZMM.
SPECIFICATION Spec
CONSTANTS
  Flows <- MCFlows
  MaxCalls = 2
INVARIANTS
  TypeOK
  NextHonoursViews
  CurrentUnlessCrossed
