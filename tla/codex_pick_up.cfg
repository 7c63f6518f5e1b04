CONSTANTS
    Session = {s1, s2}
    None = None
    UserConfig <- MCUserConfig
    MaxRuns = 1
    MaxEdits = 0
    MaxSent = 2
    LastSecond = 1
SPECIFICATION Spec
SYMMETRY HooksSymmetry
CHECK_DEADLOCK FALSE
INVARIANT SessionsPickUp
