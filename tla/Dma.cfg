CONSTANTS
    Channel <- TwoChannels
    Byte = {0, 1}
    Page = {0, 1}
    IoOps <- Ops
SPECIFICATION Spec
INVARIANTS TypeOK TransfersExact RightAddress
