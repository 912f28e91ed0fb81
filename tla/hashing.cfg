SPECIFICATION Spec
CONSTANTS
    Worker = {w1, w2}
    File = {f}
    Byte <- Bytes
    Zero = "x"
    Content <- Messages
    BLOCKSIZE = 2
    Failed = Failed
    MaxChange = 1
INVARIANTS
    TypeOK
    DigestTrue
PROPERTY
    CallsEnd
