SPECIFICATION FairSpec
CONSTANTS
  Server = {s1}
  Branch = {main, master}
  DefaultBranch = master
  Commit = {c1, c2}
  GlobalIdentity = TRUE
  Env = {"torn", "overlap"}
  MaxKills = 1
  s1 = s1
  c1 = c1
  c2 = c2
  main = main
  master = master
PROPERTIES
  Recovers
