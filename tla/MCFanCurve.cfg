CONSTANTS
  N = 3
  Stock <- MCStock
  MinPwm = 30
  Scripts = {s1}
  Curves <- MCCurves
  Failures = FALSE
  None = none
SPECIFICATION Spec
INVARIANT TypeOK
INVARIANT CurveRuns
INVARIANT StockReadRestores
INVARIANT PrintsStock
