SPECIFICATION FairSpec
CONSTANTS
    home = home
    tool = tool
    NoAddr = NoAddr
    NoLine = NoLine
    NoConn = NoConn
    Addr <- MCAddr
    App <- MCApp
    MaxApps = 1
    Fits = 1
    MaxLines = 2
    Machines <- MCMachines
INVARIANTS SettingsKept NamedAndRunning
PROPERTIES FollowsNet
