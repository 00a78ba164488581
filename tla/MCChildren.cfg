SPECIFICATION Spec
CONSTANTS
    us = us
    r = r
    a = a
    b = b
    own = own
    n = n
    m = m
    none = none
    Us = us
    End = {a, b}
    Routers = {r}
    Own = own
    Addresses = {n, m}
    Announceable = {n, m}
    NoAddr = none
    MaxChildren = 2
    Timeouts = {1}
    DefaultTimeout = 2
    RestoredTimeout = 2
    Window = 2
    Jitter = 2
    Never = 3
    PerFrame = 1
    MaxEvents = 4
    MaxFrames = 1
    MaxTasklets = 1
INVARIANTS SingleOwner EvictedOnTime ConflictsReported 
SYMMETRY Symmetry
