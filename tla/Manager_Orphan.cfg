SPECIFICATION Spec
CONSTANTS
    None = None
    n1 = n1
    Procs = {p1, p2}
    Names = {n1}
    Hosts = {h1}
    Objs = {o1, o2}
    Clients = {c1, c2, c3}
    AutoName <- MCAutoName
    Ops <- EveryOp
SYMMETRY Symmetry
INVARIANT LiveIsRegistered
