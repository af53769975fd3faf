SPECIFICATION Spec
CONSTANTS
  CA = {c1}
  Cli = {p1}
  Commands = {"create", "revoke"}
  Env = {"torn"}
  c1 = c1
  p1 = p1
PROPERTIES
  RevokeKeepsRecord
