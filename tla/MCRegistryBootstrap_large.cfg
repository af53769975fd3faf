SPECIFICATION FairSpec
CONSTANTS
  Server = {s1, s2}
  Branch = {main, master}
  DefaultBranch = master
  Commit = {c1, c2, c3, c4}
  GlobalIdentity = TRUE
  Env = {"overlap", "reconfigure"}
  MaxKills = 2
  s1 = s1
  s2 = s2
  c1 = c1
  c2 = c2
  c3 = c3
  c4 = c4
  main = main
  master = master
INVARIANTS
  TypeOK
  UpIsReadable
  SavedStaysOnBranch
PROPERTIES
  Recovers
