\* The helpers, one at a time.
CONSTANTS
    Requests = {"r1", "r2"}
    Duration = 2
    MaxSleeps = 1
    MaxRounds = 3
    Typists = {"t1", "t2"}
    Keys = {"ctrl", "a"}
    Scripts <- MCScripts
    Points = {"origin", "p1", "p2"}
    Origin = "origin"
    Buttons = {"left", "right"}
    Elements = {"link", "menu"}
    Center <- MCCenter
    MaxHeld = 2
    Borrowers = {"w1", "w2", "w3"}
    Limit = 2
    MaxElems = 4
    Size = 4
    NoOffset = NoOffset
    Offsets = {NoOffset, 1}
    Spaces = {0, 1, 2, 5}
    Letters = {1, 2, 3, 4}
    Words <- MCWords
    Sizes = {0, 125, 126, 65535, 65536, 2147483647}
    Byte = 77
    MaxMessages = 3
SPECIFICATION MCSpec
INVARIANTS
    KeysReleased
    ButtonsAgree
    PoolSound
    StreamComplete
    LCSCorrect
    FrameRoundTrip
PROPERTIES
    IdleForDuration
    IdleReturns
    RetryEnds
\* Most of them come to an end.
CHECK_DEADLOCK FALSE
