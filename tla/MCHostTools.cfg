SPECIFICATION HostSpec

CONSTANTS
    Machines <- MCMachines
    Guest = {"g1", "g2"}
    Tables <- MCTables
    Confs <- MCConfs
    Together = FALSE

INVARIANTS
    InstallerKeeps
    InstallerTellsTrue
    NoFalseAlarm
    NoFaultIsHidden
    RowsAreServed
    CallsMeetTheirGuest
PROPERTIES
    RunningGuestIsLeftAlone
    ConvertedForGood
    AdviceConverges

CHECK_DEADLOCK FALSE
