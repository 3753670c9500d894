SPECIFICATION HostSpec

CONSTANTS
    Machines <- KitMachines
    Guest = {"g1", "g2"}
    Tables <- MCTables
    Confs <- MCConfs
    Together = TRUE

INVARIANTS
    TheirDiskIsKept

CHECK_DEADLOCK FALSE
