CONSTANTS
    Hostnames <- MCHostnames
    Addresses <- MCAddresses
    Groups <- MCGroupsBdat
    BodySizes <- MCBodySizes
    ChunkSizes <- MCChunkSizes
    MaxMessageSize <- MCMaxMessageSize
    PortRoles = {"normal"}
    MaxGroups = 3
    MaxTxn = 2
SPECIFICATION Spec
INVARIANTS
    ChunkBytesNeverParsed
