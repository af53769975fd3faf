SPECIFICATION Spec
CONSTANTS
  CA = {c1, c2}
  Cli = {p1, p2}
  Commands = {"create", "rotate", "revoke", "start"}
  Env = {"concurrent", "dbfail"}
  c1 = c1
  c2 = c2
  p1 = p1
  p2 = p2
SYMMETRY Symmetry
INVARIANTS
  SavedIsPublished
  ActiveIsRecorded
  ActiveHasKey
PROPERTIES
  ImplementsLedger
  RevocationIsFinal
