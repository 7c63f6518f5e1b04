SPECIFICATION Spec
CONSTANTS
  Drivers <- Scripts
  Discipline <- MCDiscipline
  Files = {"a", "b"}
  MaxEdits = 1
  MaxCommits = 1
  MaxRuns = 2
  MaxArms = 2
CHECK_DEADLOCK FALSE
INVARIANTS TypeOK NoResidueAtRest BaselineIsPristine OnlyExposedEditsLost VerdictIsAttributable PassIsEarned
