CONSTANTS
  a = a
  b = b
  dflt = dflt
  Cards = {1, 2}
  Key <- MCKey
  Keys = {a, b, dflt}
  Default = dflt
  TempMax = 2
  ParseMax = 3
  SpeedMax = 1
  PairCount = 3
  DefaultCurve <- MCDefaultCurve
  StockTable <- MCStockTable
  FlatTemps <- MCFlatTemps
  FirstFile <- MCFirstFile
  Absent = absent
  Nothing = nothing
  MaxEdits = 2
  MaxSaves = 1
SPECIFICATION FairSpec
INVARIANT TypeOK
INVARIANT TableSound
INVARIANT ShownIsSaved
PROPERTY AppliedComesBack
PROPERTY DrawnIsRun
CHECK_DEADLOCK FALSE
