SPECIFICATION Spec
CONSTANTS
  CA = {c1, c2}
  Call = {r1, r2}
  Ops = {"unseal", "sign"}
  Env = {"rotate", "expire"}
  c1 = c1
  c2 = c2
  r1 = r1
  r2 = r2
INVARIANTS
  ExpiredNeverSigns
