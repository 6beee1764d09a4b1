CONSTANTS
    Hostnames <- MCHostnames
    Addresses <- MCAddresses
    Groups <- MCGroups
    BodySizes <- MCBodySizes
    ChunkSizes <- MCChunkSizes
    MaxMessageSize <- MCMaxMessageSize
    PortRoles = {"normal"}
    MaxGroups = 4
    MaxTxn = 2
SPECIFICATION Spec
INVARIANTS
    TypeOK
    NothingAfter421
    ResponsesInOrder
    QueueOnlyInPipelining
    StoredRecipientsSameTxn
    NoDeliveryWithDataError
