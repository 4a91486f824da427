SPECIFICATION FairSpec
CONSTANTS
    s1 = s1
    s2 = s2
    s3 = s3
    r1 = r1
    r2 = r2
    c1 = c1
    small = small
    big = big
    splmsg = splmsg
    Sender = {s1, s2}
    Receiver = {r1, r2}
    Closer = {c1}
    huge = huge
    Message = {small, huge}
    MsgSize <- WithOversized
    Special = {}
    Size = 5
    MaxCloses = 1
    Spurious = TRUE
    NoMsg = NoMsg
    NoThread = NoThread
PROPERTIES
    ClosedCallsReturn
    BacklogDrains
