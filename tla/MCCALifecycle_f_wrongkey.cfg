SPECIFICATION Spec
CONSTANTS
  CA = {c1, c2}
  Cli = {p1}
  Commands = {"create", "start"}
  Env = {"dbfail", "wipe"}
  c1 = c1
  c2 = c2
  p1 = p1
INVARIANTS
  RunningHasKey
