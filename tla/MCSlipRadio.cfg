SPECIFICATION Spec
CONSTANTS
    MaxCommands = 3
    MaxJunk = 1
    MaxRadio = 2
    RxPool = 2
    TxPool = 1
    Channels = {11, 12}
    DefaultChannel = 11
    NULL = NULL
INVARIANTS
    TypeOK
    PoolsConserved
    HostOrder
    RepliesHonest
    ChannelObeyed
PROPERTIES
    QueuesDrain
CHECK_DEADLOCK FALSE
