SPECIFICATION Spec
CONSTANTS
    s1 = s1
    s2 = s2
    s3 = s3
    here = here
    there = there
    All = All
    Session <- MCSessions
    Host <- MCHosts
    HostOf <- MCHostOf
    Remote <- MCRemote
    Watched <- MCWatched
    Addressees <- MCAddressees
    Earlier <- MCEarlier
    PerSecond = 3
    MaxStamp = 4
INVARIANTS ChannelInv CrossingNotice
PROPERTIES OnlyReplacedAreLost NoNag
CHECK_DEADLOCK FALSE
