SPECIFICATION Spec
SYMMETRY Symmetry
CONSTANTS
  Rounds = 3
  MaxTrouble = 3
  Numbers = {n1, n2, n3, n4}
  MaxSlow = 2
  Chunks = 2
  Records = {r1, r2}
  MaxRuns = 2
  MaxHits = 1
  MaxDeaths = 1
  MaxBoots = 2
INVARIANTS ToolsTypeOK AnswerIsOwn PassedMeansNewRuns RowsAreTrue SoakIsHonest PassedMeansBooted RigPassIsTrue
