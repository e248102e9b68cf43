SPECIFICATION UnitsSpec
CONSTANTS
  pick = pick
  why = why
  e1 = e1
  e2 = e2
  Asks = {pick, why}
  Recommending = {pick}
  Reasoned = {why}
  Required = {pick, why}
  PartialAllowed = {pick}
  Target <- MCTarget
  Entities = {acme, bolt}
  EvidenceIds = {e1, e2}
  Web = {e1}
  Primary = {e1}
  PrimaryRequired = FALSE
  Source <- MCSource
  MaxClaims = 1
  MaxUnits <- MCTarget
  Nobody = nobody
  MaxWaves = 2
SYMMETRY Symmetry
CHECK_DEADLOCK FALSE
INVARIANTS AnswerIsHonest
PROPERTIES AnswersGrow
