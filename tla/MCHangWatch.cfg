SPECIFICATION Spec

CONSTANTS
    s1 = s1
    s2 = s2
    emulator = emulator
    browser = browser
    f1 = f1
    f2 = f2
    Session <- MCSession
    App     <- MCApp
    Emulator = emulator
    Frame   <- MCFrame
    Supply  <- MCSupply
    MaxPolls    = 3
    SilentTicks = 2

INVARIANTS
    WatchInv
    KillIsWarranted
    HostIsGivenBack
PROPERTIES
    HungIsStopped

CHECK_DEADLOCK FALSE
