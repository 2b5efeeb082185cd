SPECIFICATION Spec
CONSTANTS
    None = None
    Monitor = m
    Handlers = {h1, h2}
    Fwds = {f1, f2}
    FType <- Mixed
    Loops = {l1, l2, l3, l4}
    Conns = {x1}
    MaxDials = 2
    Ops = {"add", "close", "monitor", "redial", "kill"}
SYMMETRY Symmetry
INVARIANTS TypeOK ClosedIsQuiet ListedIsServed ActiveIsListed RestartReachesAll NoDeadlock
