CONSTANTS
    Hostnames <- MCHostnames
    Addresses <- MCAddresses
    Groups <- MCGroups
    BodySizes <- MCBodySizes
    ChunkSizes <- MCChunkSizes
    MaxMessageSize <- MCMaxMessageSize
    PortRoles = {"normal"}
    MaxGroups = 3
    MaxTxn = 2
SPECIFICATION Spec
INVARIANTS
    DataStateOnlyWhileReading
