SPECIFICATION Spec
CONSTANTS
  CA = {c1}
  Call = {r1, r2}
  Ops = {"unseal", "status"}
  Env = {}
  c1 = c1
  r1 = r1
  r2 = r2
INVARIANTS
  StatusIsConsistent
