CONSTANTS
  Window = 2  LoginMax = 3  RegisterMax = 2  SuccessMax = 1  Block = 1
  AdminWindow = 3  AdminMax = 2  AdminBlock = 2
  Captchas = {k1, k2}  MaxStored = 1
  MaxCalls = 3  MaxTime = 4
SPECIFICATION Spec
SYMMETRY Exchangeable
INVARIANT CaptchasHold
PROPERTIES NoHastyBlock BlockRuns RegistrationsBounded
CHECK_DEADLOCK FALSE
