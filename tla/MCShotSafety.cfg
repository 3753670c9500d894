SPECIFICATION Spec
CONSTANTS
    tall = tall
    short = short
    padded = padded
    NoFrame = NoFrame
    NoMsg = NoMsg
    NoRegion = NoRegion
    NoPicture = NoPicture
    Mode <- MCModes
    Rows <- MCRows
    Slack <- MCSlack
    MaxRow = 2
    MaxGen = 3
INVARIANTS DeltaInv
PROPERTIES ShowsTheScreen
