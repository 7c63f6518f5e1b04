SPECIFICATION Spec
CONSTANTS
  Drivers = {"r523", "r530"}
  Discipline <- MCDiscipline
  Files = {"a", "b"}
  MaxEdits = 0
  MaxCommits = 0
  MaxRuns = 2
  MaxArms = 1
CHECK_DEADLOCK FALSE
INVARIANT RecoveryRestores
