SPECIFICATION WFairSpec
CONSTANTS
    m1 = m1
    m2 = m2
    main = main
    reducer = reducer
    a = "a"
    one = "1"
    splmsg = "splmsg"
    pid <- Pids
    Letter = {"a", "1", "dot", "splmsg"}
    Punct = {"dot"}
    Separator = {" "}
    White = {" ", "tab"}
    Texts <- Files
    Sender = {m1, m2, main}
    Receiver = {reducer}
    Closer = {main}
    Message <- AllStrings
    MsgSize <- Sizes
    Special <- Sentinels
    Size = 6
    MaxCloses = 1
    Spurious = TRUE
    NoMsg = NoMsg
    NoThread = NoThread
CHECK_DEADLOCK FALSE
INVARIANTS
    PiecesKeepWords
    NoWordLost
    CountsCorrect
    DestroyedUnused
PROPERTIES
    Termination
