CONSTANTS
  OC_VF_NPTS = 3
  StockCurve <- MCStockCurve
  VMIN = 400
  VMAX = 1200
  Knobs <- MCKnobs
  KnobRange <- MCKnobRange
  StockKnob <- MCStockKnob
  Unset = unset
  Callers = {p1, p2}
  Lists <- MCLists
  KnobChoices <- MCKnobChoices
  MaxCalls = 3
SPECIFICATION Spec
PROPERTY UnlistedKept
CHECK_DEADLOCK FALSE
