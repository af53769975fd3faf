SPECIFICATION Spec
CONSTANTS
  CA = {c1}
  Cli = {p1}
  Commands = {"create", "start"}
  Env = {"overlap"}
  c1 = c1
  p1 = p1
INVARIANTS
  SaveIsCommitted
