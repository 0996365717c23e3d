SPECIFICATION Spec
CONSTANTS
    NumSlots = 3
    MinerIds = {1, 2, 3, 4}
    Sessions = {1, 2}
    MaxJobs = 2
INVARIANTS
    TypeOK
    MinersMatchSlots
    SlotExclusive
    EveryoneHasJob
    PrevJobSameSession
    FreeSlotFound
PROPERTIES
    LeaseSpec
CHECK_DEADLOCK FALSE
