SPECIFICATION Spec
CONSTANTS
  CA = {c1, c2}
  Call = {r1, r2, r3}
  Ops = {"unseal", "seal", "status", "sign"}
  Env = {"rotate", "restart"}
  c1 = c1
  c2 = c2
  r1 = r1
  r2 = r2
  r3 = r3
SYMMETRY Symmetry
INVARIANTS
  TypeOK
  PathMatchesSigner
  SealedSignFails
PROPERTIES
  ImplementsSlot
