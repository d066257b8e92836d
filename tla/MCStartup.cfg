SPECIFICATION StartSpec
CONSTANTS
  Files <- MCFiles
  Envs <- MCEnvs
  Given <- MCGiven
  MaxEdits = 2
  Empty = Empty
INVARIANTS
  ConfigAsAsked
  IntegrationsWired
  ReportsTruthful
  StopCloses
PROPERTIES
  ReloadReaches
CHECK_DEADLOCK FALSE
