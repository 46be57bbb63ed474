SPECIFICATION LinksSpec
CONSTANTS
    Banks = {b1, b2}
    NoBank = NoBank
    MaxClicks = 2
    MaxRetries = 1
    NoTimer = NoTimer
    MaxLogins = 2
CHECK_DEADLOCK FALSE
INVARIANTS BanksSettle FlagsMeanChains OneRetryTimer StoredUnderItsBank
PROPERTIES LaunchAnswered RetriesEnd
