SPECIFICATION Spec
CONSTANTS
  None = None
  Interval = interval
  Requests = {r1}
  Tokens = {t1, t2}
  Uses = {"password"}
  MaxRetries = 0
  MaxLogins = 1
  MaxExpiries = 0
  ServerFails = FALSE
PROPERTY RequestsSettle
CHECK_DEADLOCK FALSE
