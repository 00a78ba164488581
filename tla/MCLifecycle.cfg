\* The clients may stop asking, and a panic ends the process.
CHECK_DEADLOCK FALSE
SPECIFICATION FairSpec
CONSTANTS
    q1 = q1
    q2 = q2
    Handlers = {q1, q2}
    Kinds = {"configure", "start", "shutdown", "capture"}
    MaxStacks = 3
    MaxRequests = 6
    MaxUnruly = 3
INVARIANTS OneStackOnAir StartedIsRunning ServerSurvives OneTeardownPerStack
PROPERTIES EveryRequestAnswered
