SPECIFICATION MFairSpec
CONSTANTS
    None = None
    n1 = n1
    Handlers = {g1}
    Loops = {l1}
    Procs <- MCProcs
    Names = {n1}
    Hosts = {s1}
    Objs = {o1}
    Clients = {c1, c2}
    AutoName <- MCAutoName
    Ops <- Requests
    InitialBackoff = 1
    MaxBackoff = 3
INVARIANTS MTypeOK WatchInv
PROPERTIES Recovers CancelledLoopsEnd CallsReturn
