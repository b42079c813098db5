CONSTANTS
    Runs = {r1, r2}
    Targets <- AllTargets
    Requests <- AllRequests
    NoRun = NoRun
    NoGrant = NoGrant
    NoProgram = NoProgram
    One = 4
    Second = 1
    Registries <- AllRegistries
    FirstRegistries <- NewRegistries
    RegistryEdits <- Edits
    Templates <- AllTemplates
    ArtifactEdits <- Rewrites
    WorkerIds = {"arm", "lift"}
    MaxPrograms = 2
    MaxRestarts = 1
SPECIFICATION AdmissionSpec
INVARIANTS
    OwnersMatchGrants
    StaleIffChanged
    RunningProgramFits
    RunsKeepApart
PROPERTIES
    ImplementsExclusiveLeases
    LoadIsExact
CHECK_DEADLOCK FALSE
