SPECIFICATION Spec
CONSTANTS
    s1 = s1
    s2 = s2
    s3 = s3
    r1 = r1
    r2 = r2
    c1 = c1
    small = small
    big = big
    huge = huge
    splmsg = splmsg
    Sender = {s1, s2}
    Receiver = {r1, r2}
    Closer = {c1}
    Message = {big, splmsg}
    MsgSize <- MixedSizes
    Special = {splmsg}
    Size = 7
    MaxCloses = 2
    Spurious = TRUE
    NoMsg = NoMsg
    NoThread = NoThread
SYMMETRY Symmetry
INVARIANTS
    TypeInvariant
    NoLostMessage
    SleepingSenderHasHope
    NoSleeperAfterClose
PROPERTIES
    ImplementsChannel
