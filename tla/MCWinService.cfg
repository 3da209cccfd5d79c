CONSTANTS
  a = a
  b = b
  dflt = dflt
  unset = unset
  quiet = quiet
  loud = loud
  minus50 = minus50
  custom = custom
  Cards = {1,2}
  Key <- MCKey
  Keys = {a,b,dflt}
  Default = dflt
  Fans = {quiet,loud}
  Offsets = {minus50}
  VfCurves = {custom}
  Unset = unset
  None = none
  Stock = stock
  Absent = absent
  CLIs = {cli}
  GUIs = {gui}
  FirstFile <- MCFirstFile
  LateCards = FALSE
  MaxCommands = 1
  MaxResets = 2
SPECIFICATION FairSpec
INVARIANT TypeOK
INVARIANT NudgeNotLost
INVARIANT OwnProfileOnly
PROPERTY FanProfilesRestored
CHECK_DEADLOCK FALSE
