SPECIFICATION HttpSpec
CONSTANTS
  q1 = q1
  q2 = q2
  q3 = q3
  poller = poller
  Reqs <- MCReqs
  Users <- MCUsers
  Txs <- MCReqs
  Calls <- MCReqs
  Load <- MCLoad
  Enabled <- MCEnabled
  AllowOrigins <- MCAllowOrigins
  Origins <- MCOrigins
  Levels <- MCLevels
  Works = {"memory", "redis", "cache", "store", "query", "script"}
  Burst = 1
  Rate = 1
  Window = 1
  MaxClock = 3
  MaxErrors = 1
  Ttl = 2
  MaxWrites = 2
  MaxFailures = 1
  MaxConns = 2
  MaxRefused = 1
  MaxDeaths = 1
  MaxStrays = 1
  NoCall = NoCall
  Invalid = Invalid
  Stray = Stray
  Noise = Noise
  Nothing = Nothing
  Missing = Missing
INVARIANTS
  LimitsHold
  AllOrNothing
  AnswersAudited
  PlaceholdersMatch
  OutputsMatched
PROPERTIES
  StaleEnds
  DisconnectReturns
CHECK_DEADLOCK FALSE
