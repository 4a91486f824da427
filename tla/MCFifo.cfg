SPECIFICATION Spec
CONSTANTS
    Size = 8
    IntSize = 2
    a = a
    b = b
    c = c
    NoMsg = NoMsg
    Message = {a, b, c}
    DataSize <- MCDataSize
    Garbage <- MCGarbage
    MaxIndex = 3
INVARIANTS
    TypeInvariant
    Accounting
    NoTruncatedWrite
    NoShortRemove
    WholeMessage
PROPERTIES
    ImplementsMsgQueue
