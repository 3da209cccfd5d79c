CONSTANTS
  b70 = b70
  dflt = dflt
  Cards = {1, 2}
  Key <- MCKey
  Keys = {b70, dflt}
  Default = dflt
  Order <- MCOrder
  Lockable = {"mem", "volt"}
  Locked = {2}
  Low <- MCLow
  High <- MCHigh
  SliderDefault <- MCSliderDefault
  CliValues = {2}
  CliCurves <- MCCliCurves
  Presets <- MCPresets
  StockKnob <- MCStockKnob
  StockVf <- MCStockVf
  MaxAnchors = 3
  Below = 1
  Above = 1
  Unset = unset
  Absent = absent
  Nothing = nothing
  FirstFile <- MCFirstFile
  MaxEdits = 2
  MaxSaves = 2
SPECIFICATION FairSpec
INVARIANT TypeOK
INVARIANT CurvesSound
PROPERTY LockedUnsaved
PROPERTY DragMovesUpOnly
PROPERTY AppliedIsShown
PROPERTY SettingsInForce
CHECK_DEADLOCK FALSE
