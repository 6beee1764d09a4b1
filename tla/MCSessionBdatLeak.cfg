CONSTANTS
    Hostnames <- MCHostnames
    Addresses <- MCAddresses
    Groups <- MCGroupsBdat
    BodySizes <- MCBodySizes
    ChunkSizes <- MCChunkSizes
    MaxMessageSize <- MCMaxMessageSize
    PortRoles = {"normal"}
    MaxGroups = 4
    MaxTxn = 2
SPECIFICATION Spec
INVARIANTS
    BdatIsolation
