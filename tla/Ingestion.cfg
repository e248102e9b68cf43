SPECIFICATION IngestSpec
CONSTANTS
  Tasks = {t1, t2, t3}
  EvidenceIds = {e1, e2}
  Authoritative = {e1}
  Statements = {v1, v2}
  MaxWaves = 3
  MaxSignal = 2
SYMMETRY Symmetry
CHECK_DEADLOCK FALSE
INVARIANTS
  LedgerIsWhole
PROPERTIES
  LedgerGrows
