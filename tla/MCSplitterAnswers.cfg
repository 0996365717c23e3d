SPECIFICATION Spec
CONSTANTS
    NumSlots = 1
    MinerIds = {1, 2}
    MaxUps = 2
    MaxLogins = 2
    Sessions = {1, 2}
    MaxJobs = 2
    MaxReqs = 2
    MaxReloads = 1
INVARIANTS
    AnsweredOnceToSender
    AnswersAttributed
PROPERTIES
    StoragesRefined
CHECK_DEADLOCK FALSE
