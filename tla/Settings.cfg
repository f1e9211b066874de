SPECIFICATION MCSpec
CONSTANTS
    Home = Home
    Unset = Unset
    Garbled = Garbled
    Ssid = {Home, Unset, Garbled}
    Wellformed = {Home, Unset}
    DefaultSsid = Unset
    MaxRevision = 3
    AnyRevision = AnyRevision
    Missing = Missing
    Nobody = Nobody
    MaxBusy = 2
    Legacy <- MCLegacy
    UsbPatches <- MCUsbPatches
    WebPatches <- MCWebPatches
    Plain = {1}
    FrameMax = 2
    QueueDepth = 1
    ChunkMax = 2
    Requests <- MCRequests
INVARIANTS
    TypeOK
    IntactRequestsArrive
PROPERTIES
    ConfigValid
    RevisionIdentifies
    GuardedKeepsOthers
    AloneKeepsOthers
    RecordingFieldsFixed
    LockIsFreed
