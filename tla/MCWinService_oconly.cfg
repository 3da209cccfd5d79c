CONSTANTS
  a = a
  b = b
  dflt = dflt
  unset = unset
  quiet = quiet
  loud = loud
  minus50 = minus50
  custom = custom
  Cards = {1}
  Key <- MCOneKey
  Keys = {a,dflt}
  Default = dflt
  Fans = {quiet,loud}
  Offsets = {minus50}
  VfCurves = {custom}
  Unset = unset
  None = none
  Stock = stock
  Absent = absent
  CLIs = {cli}
  GUIs = {gui}
  FirstFile <- MCOcOnly
  LateCards = FALSE
  MaxCommands = 0
  MaxResets = 1
SPECIFICATION FairSpec
PROPERTY ProfilesRestored
CHECK_DEADLOCK FALSE
