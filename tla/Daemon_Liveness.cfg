SPECIFICATION EndingSpec
CONSTANTS
    None = None
    Daemons = {d1}
    CLIs = {c1}
    Names = {n1}
    Commands = {"start", "stop", "connect", "kill", "run"}
    Faults = {"signal", "crash"}
INVARIANTS ExitsAfterShutdown
PROPERTIES StopTerminates CommandsEnd
