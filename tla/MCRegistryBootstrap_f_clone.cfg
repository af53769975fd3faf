SPECIFICATION Spec
CONSTANTS
  Server = {s1, s2}
  Branch = {main, master}
  DefaultBranch = master
  Commit = {c1, c2}
  GlobalIdentity = TRUE
  Env = {"share"}
  MaxKills = 0
  s1 = s1
  s2 = s2
  c1 = c1
  c2 = c2
  main = main
  master = master
INVARIANTS
  StartsReadable
