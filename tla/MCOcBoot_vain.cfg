CONSTANTS
  OC_VF_NPTS = 2
  NPTS = 2
  StockCurve <- MCStockCurve
  VMIN = 400
  VMAX = 1200
  Knobs <- MCKnobs
  StockKnob <- MCStockKnob
  Users = {u1}
  Svc = svc
  Custom = custom
  Unset = unset
  NoFile = nofile
  Offsets <- MCOneOffset
  Curves <- MCCurves
  KnobChoices <- MCKnobChoices
  Reads <- MCReadsOk
  EarlyUsers = FALSE
  LateSysfs = FALSE
  MaxTries = 2
  MaxBoots = 2
  MaxCommands = 2
SPECIFICATION Spec
PROPERTY OffsetIsFromStock
CHECK_DEADLOCK FALSE
