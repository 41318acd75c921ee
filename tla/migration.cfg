SPECIFICATION Spec
CONSTANTS
  Issuances = {i1, i2}
  Asyncs = {a1, a2}
  Ids = {c1, c2, c3, c4}
  Starts = {"none", "all"}
  MaxMigrations = 2
  None = None
SYMMETRY Symmetry
INVARIANTS TypeOK  NoRecordWithoutRow LinksKept
CHECK_DEADLOCK FALSE
