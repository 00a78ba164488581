\* One request, resets and unanswered commands while a child's frames come and go.
SPECIFICATION FairSpec
CONSTANTS
    h1 = h1  h2 = h2  short1 = short1  extended1 = extended1
    Channels = {11, 15}  Configured = 11
    Short = {short1}  Extended = {}
    Handlers = {h1}
    Requests = {"setChannel", "scan", "energy"}
    Pipelined = FALSE
    ResetQueue = 1
    MaxRequests = 1
    MaxChanges = 2
    MaxResets = 1
    MaxFaults = 2
INVARIANTS ChannelAgrees 
PROPERTY Reprogrammed
CHECK_DEADLOCK FALSE
