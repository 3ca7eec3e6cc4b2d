\* Every byte, every interleaving, and either endpoint giving up anywhere.
SPECIFICATION Spec
CONSTANT
    BITS = 8
INVARIANTS
    TypeOK
    BitsArriveInOrder
    SentMeansReceived
    NoFalseAck
PROPERTIES
    ImplementsChannel
    LinesComeBack
    ByteCompletes
CHECK_DEADLOCK FALSE
