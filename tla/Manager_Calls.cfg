SPECIFICATION Spec
CONSTANTS
    None = None
    n1 = n1
    Procs = {p1, p2}
    Names = {n1}
    Hosts = {h1, h2}
    Objs = {o1, o2}
    Clients = {c1, c2, c3}
    AutoName <- MCAutoName
    Ops <- EveryOp
SYMMETRY Symmetry
INVARIANTS TypeOK IInv OneOwner KilledStaysDead ConnectedHasClient InFlightHasDialer
PROPERTIES OwnershipKept DefaultGoesStaleByUse
