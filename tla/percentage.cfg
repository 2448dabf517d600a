SPECIFICATION Spec
CONSTANTS
  Lines <- MCLines
  Files <- MCFiles
INVARIANTS
  TypeOK
  ScoreIsTheShare
  FullScore
CHECK_DEADLOCK FALSE
