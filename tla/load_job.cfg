SPECIFICATION Spec
CONSTANTS
  Cases <- MCCases
  Limits <- MCLimits
  MaxRuns = 3
  None = None
  Text <- MCText
  Str <- MCStr
  Below <- MCBelow
  Less <- MCLess
INVARIANT AllRowsLanded
INVARIANT OneRowPerTear
INVARIANT RowsLandOnce
 
CHECK_DEADLOCK FALSE
