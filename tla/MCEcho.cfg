SPECIFICATION ReceptionSpec
CONSTANTS
    p = p
    q = q
    mine = mine
    theirs = theirs
    data = data
    Routers = {p, q}
    Own = {mine}
    Others = {theirs}
    Messages = {data}
    Window = 2
    Lifetime = 1
    Copies = 1
    Interval = 1
    Quorum = 1
    Rejection = 2
    MaxAge = 2
    Period = 1
    Late = 1
    MaxEvents = 4
INVARIANTS OwnBroadcastsStop
SYMMETRY Symmetry
