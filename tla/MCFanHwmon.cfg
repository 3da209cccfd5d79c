CONSTANTS
  N = 2
  Stock <- MCStock
  MinPwm = 30
  Procs = {p1, p2}
  Free = Free
  TempInputs <- MCTempsOne
  PwmInputs <- MCPwms
SPECIFICATION Spec
SYMMETRY MCSymmetry
INVARIANT TypeOK
INVARIANT ModeMatchesFirmware
INVARIANT SpeedFloor
INVARIANT TablePresent
PROPERTY FirmwareFollowsCache
PROPERTY KeepsPromise
