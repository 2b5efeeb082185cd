SPECIFICATION Spec
CONSTANTS
    None = None
    n1 = n1
    any = any
    killer = killer
    CLIs = {any, killer, c1, c2}
    Hosts = {h1, h2}
    Names = {n1}
    AutoName <- MCAutoName
    Incidents <- AllIncidents
    Codes <- MCCodes
    Commands <- MCCommands
SYMMETRY Symmetry
CONSTRAINT PairOrRace
INVARIANTS TypeOK  ExitCodeTrue RunsAreLogged
CHECK_DEADLOCK FALSE
