\* Two upstreams of two slots, and a miner more than the first can hold.
SPECIFICATION Spec
CONSTANTS
    NumSlots = 2
    MinerIds = {1, 2, 3}
    MaxUps = 2
    MaxLogins = 2
    Sessions = {1, 2}
    MaxJobs = 2
    MaxReqs = 0
    MaxReloads = 1
INVARIANTS
    TypeOK
    MinersPlaced
    NobodyWaitsOnActive
    SharesMatchSession
CHECK_DEADLOCK FALSE
