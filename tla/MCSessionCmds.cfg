CONSTANTS
    Hostnames <- MCHostnames
    Addresses <- MCAddresses
    Groups <- MCGroupsCmds
    BodySizes <- MCBodySizes
    ChunkSizes <- MCChunkSizes
    MaxMessageSize <- MCMaxMessageSize
    PortRoles = {"normal", "implicitTLS", "dropDelay"}
    MaxGroups = 3
    MaxTxn = 2
SPECIFICATION Spec
INVARIANTS
    ResponsesInOrder
    QueueOnlyInPipelining
    StoredRecipientsSameTxn
