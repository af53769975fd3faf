SPECIFICATION Spec
CONSTANTS
  CA = {c1, c2, c3}
  Cli = {p1, p2}
  Commands = {"create", "rotate"}
  Env = {"overlap"}
  c1 = c1
  c2 = c2
  c3 = c3
  p1 = p1
  p2 = p2
CHECK_DEADLOCK FALSE
PROPERTIES
  ValidCAStays
