SPECIFICATION SafetySpec
CONSTANTS
  None = None
  Interval = interval
  Requests = {r1, r2}
  Tokens = {t1, t2, t3, t4}
  Uses = {"data", "password", "logout", "logoutNow", "stay", "reload"}
  MaxRetries = 0
  MaxLogins = 2
  MaxExpiries = 0
  ServerFails = TRUE
SYMMETRY Alike
INVARIANTS TypeOK PromisesArePending OneRefreshPerSignIn
CHECK_DEADLOCK FALSE
