SPECIFICATION Spec
CONSTANTS
  CA = {c1}
  Cli = {p1}
  Commands = {"create", "start"}
  Env = {}
  c1 = c1
  p1 = p1
INVARIANTS
  StartedHasCA
