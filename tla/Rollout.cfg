CONSTANTS
    A = A
    B = B
    Keys = {A, B}
    NoKey = NoKey
    IPs <- MCIPs
    Services <- MCNames
    Names <- MCNames
    Refs <- MCRefs
    KeyRef <- MCKeyRef
    Stores <- MCStores
    Rotations <- MCRotations
    Secrets = {"k1", "k2"}
    PeersFiles <- MCPeersFiles
    Valid <- MCValid
    Invalid <- MCInvalid
    Missing = Missing
    MaxEdits = 2
    MaxRotations = 1
SPECIFICATION RolloutSpec
INVARIANTS
    SeenIsLoaded
    LoaderHolds
    DeviceFollows
    NoResidentSecret
PROPERTIES
    CachedIsStable
    EditReachesDevice
CHECK_DEADLOCK FALSE
