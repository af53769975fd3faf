SPECIFICATION Spec
CONSTANTS
  Server = {s1}
  Branch = {main, master}
  DefaultBranch = master
  Commit = {c1, c2, c3, c4}
  GlobalIdentity = TRUE
  Env = {"reconfigure"}
  MaxKills = 0
  s1 = s1
  c1 = c1
  c2 = c2
  c3 = c3
  c4 = c4
  main = main
  master = master
CHECK_DEADLOCK FALSE
PROPERTIES
  WritesReachBranch
