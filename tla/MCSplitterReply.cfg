SPECIFICATION Spec
CONSTANTS
    NumSlots = 1
    MinerIds = {1, 2}
    MaxUps = 2
    MaxLogins = 2
    Sessions = {1, 2}
    MaxJobs = 2
    MaxReqs = 1
    MaxReloads = 0
INVARIANTS
    SubmitGetsReply
CHECK_DEADLOCK FALSE
