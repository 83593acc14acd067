CONSTANTS
    d1 = d1
    d2 = d2
    Records <- MCRecords
    Port = Port
    Channel = Channel
    NativeTransfer = NativeTransfer
    MaxSeq = 4
SPECIFICATION Spec
SYMMETRY MCSymmetry
CHECK_DEADLOCK FALSE
INVARIANTS
    TypeOK
    CallbackForEveryTransfer
