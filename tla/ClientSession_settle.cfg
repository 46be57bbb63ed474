SPECIFICATION Spec
CONSTANTS
  None = None
  Interval = interval
  Requests = {r1, r2}
  Tokens = {t1, t2, t3}
  Uses = {"data", "logout"}
  MaxRetries = 1
  MaxLogins = 1
  MaxExpiries = 1
  ServerFails = TRUE
PROPERTIES  SignedOutViewCloses
CHECK_DEADLOCK FALSE
