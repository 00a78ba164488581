SPECIFICATION Spec
CONSTANTS
    d1 = d1
    Devices = {d1}
    AllowUnsecuredRejoins = FALSE
    AllowUnencryptedUpdates = FALSE
    MaxIssued = 3
    MaxRequests = 3
    MaxResets = 2
    MaxRestarts = 2
    MaxAir = 3
INVARIANTS  JoinerCanRead NetworkKeyGuarded
