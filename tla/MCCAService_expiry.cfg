SPECIFICATION FairSpec
CONSTANTS
  CA = {c1}
  Call = {r1, r2, r3}
  Ops = {"unseal", "sign"}
  Env = {"expire", "restart"}
  c1 = c1
  r1 = r1
  r2 = r2
  r3 = r3
INVARIANTS
  ExpiredNeverSigns
PROPERTIES
  CallsEnd
