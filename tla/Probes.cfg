\* Two runs, the first with any of the probes, between edits of the settings.
SPECIFICATION Spec
CONSTANTS
    None = None
    Junk = Junk
    Phases = {"dns", "unknown"}
    MaxRounds = 2
    Defaults <- TheDefaults
    LIMITS <- TheLimits
    Updates <- TheUpdates
    Runs = {1, 2}
    Seconds = {1, 2}
    Paths <- ThePaths
    Sizes <- TheSizes
    Losses = 1
    RunTargets <- FewJobs
    ToolTargets <- ManyJobs
    MaxTrials = 2
    Sites <- OneSite
    Samples = {1, 2}
    Durations = {0, 60}
INVARIANTS
    TypeOK
    SettingsReachProbe
    SessionsListed
    CountersAddUp
    MtuIsLargest
CHECK_DEADLOCK FALSE
