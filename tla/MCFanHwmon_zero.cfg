CONSTANTS
  N = 2
  Stock <- MCStock
  MinPwm = 30
  Procs = {p1}
  Free = Free
  TempInputs <- MCTempsZero
  PwmInputs <- MCPwms
SPECIFICATION Spec
PROPERTY TempStoreKeepsSpeed
