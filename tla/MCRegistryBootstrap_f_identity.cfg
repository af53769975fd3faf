SPECIFICATION Spec
CONSTANTS
  Server = {s1}
  Branch = {main, master}
  DefaultBranch = master
  Commit = {c1, c2}
  GlobalIdentity = FALSE
  Env = {}
  MaxKills = 0
  s1 = s1
  c1 = c1
  c2 = c2
  main = main
  master = master
INVARIANTS
  UpCanCommit
