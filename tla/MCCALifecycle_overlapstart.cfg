SPECIFICATION Spec
CONSTANTS
  CA = {c1}
  Cli = {p1, p2}
  Commands = {"create", "revoke", "start"}
  Env = {"overlap", "dbfail"}
  c1 = c1
  p1 = p1
  p2 = p2
SYMMETRY Symmetry
INVARIANTS
  ActiveHasKey
PROPERTIES
  RevocationIsFinal
