CONSTANTS
  OC_VF_NPTS = 2
  NPTS = 2
  StockCurve <- MCStockCurve
  VMIN = 400
  VMAX = 1200
  Knobs <- MCKnobs
  StockKnob <- MCStockKnob
  Users = {u1}
  Svc = svc
  Custom = custom
  Unset = unset
  NoFile = nofile
  Offsets <- MCOneOffset
  Curves <- MCCurves
  KnobChoices <- MCKnobChoices
  Reads <- MCReadsAll
  EarlyUsers = TRUE
  LateSysfs = TRUE
  MaxTries = 2
  MaxBoots = 3
  MaxCommands = 2
SPECIFICATION FairSpec
INVARIANT TypeOK
INVARIANT PersistedWasTaken
PROPERTY NoBootLoop
PROPERTY ComesBack
PROPERTY MarkerCleared
CHECK_DEADLOCK FALSE
