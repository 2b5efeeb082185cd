SPECIFICATION Spec
CONSTANTS
    None = None
    Daemons = {d1, d2}
    CLIs = {c1, c2}
    Names = {n1}
    Commands = {"start", "stop"}
    Faults = {}
SYMMETRY Symmetry
INVARIANTS TypeOK NoHandlerAfterDrain ExitsAfterShutdown
