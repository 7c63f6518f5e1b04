CONSTANTS
    Session = {s1}
    None = None
    UserConfig <- MCUserConfig
    MaxRuns = 3
    MaxEdits = 1
    MaxSent = 2
    LastSecond = 1
SPECIFICATION Spec
CHECK_DEADLOCK FALSE
INVARIANTS
    NamedScriptsExist
    InstalledMeansInstalled
    SetOnce
    CheckpointsKept
