CONSTANTS
    Pet = Pet
    Profile = Profile
    EventTypes <- MCTypes
    BufferCapacity = 2
    Capacities <- MCCapacities
    MaxCapacity = 2
    MaxSubscriptions = 2
    MaxPublished = 4
SPECIFICATION Spec
INVARIANTS
    TypeOK
    NothingLostSilently
    GapsAreInPlace
CHECK_DEADLOCK FALSE
