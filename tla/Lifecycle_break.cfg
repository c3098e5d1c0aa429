SPECIFICATION Spec
CONSTANTS
  Widths = {6, 8}
  MaxCalls = 4
  Overlap = TRUE
  Nobody = Nobody
CHECK_DEADLOCK FALSE
PROPERTY AbortIsSafe
