SPECIFICATION Spec
CONSTANTS
    s1 = s1
    s2 = s2
    s3 = s3
    r1 = r1
    r2 = r2
    c1 = c1
    small = small
    big = big
    huge = huge
    splmsg = splmsg
    Sender = {s1, s2, s3}
    Receiver = {r1}
    Closer = {c1}
    Message = {small, big}
    MsgSize <- MixedSizes
    Special = {}
    Size = 7
    MaxCloses = 2
    Spurious = FALSE
    NoMsg = NoMsg
    NoThread = NoThread
SYMMETRY Symmetry
INVARIANTS
    NoStrandedSender
