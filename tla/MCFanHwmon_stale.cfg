CONSTANTS
  N = 2
  Stock <- MCStock
  MinPwm = 30
  Procs = {p1, p2}
  Free = Free
  TempInputs <- MCTempsOne
  PwmInputs <- MCPwms
SPECIFICATION Spec
PROPERTY StoresOnlyInManual
