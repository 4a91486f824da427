SPECIFICATION TFairSpec
CONSTANTS
    s1 = s1
    s2 = s2
    s3 = s3
    r1 = r1
    r2 = r2
    r3 = r3
    main = main
    PSU = PSU
    CMPSC = CMPSC
    MoNdAy = MoNdAy
    Msg = Msg
    splmsg = splmsg
    send_pid <- SendPids
    rec_pid <- RecPids
    Sender = {s1, s2, s3, main}
    Receiver = {r1, r2, r3, main}
    Closer = {main}
    Message = {PSU, CMPSC, MoNdAy, Msg, splmsg}
    MsgSize <- StringSizes
    Special = {splmsg}
    Size = 25
    MaxCloses = 2
    Spurious = TRUE
    NoMsg = NoMsg
    NoThread = NoThread
INVARIANTS
    NoTestFails
    FreedUnused
    NoStrandedSender
PROPERTIES
    TestsEnd
