SPECIFICATION RenderSpec
CONSTANTS
  Total = 3
  LineLengths <- MCLineLengths
  MarkerLengths <- MCMarkerLengths
  Budgets <- MCBudgets
CHECK_DEADLOCK FALSE
INVARIANTS
  WithinBudget
  PriorityRespected
