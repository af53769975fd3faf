SPECIFICATION FairSpec
CONSTANTS
  CA = {c1, c2}
  Cli = {p1}
  Commands = {"create", "rotate", "revoke", "start"}
  Env = {"wipe"}
  c1 = c1
  c2 = c2
  p1 = p1
INVARIANTS
  TypeOK
  KeyFileHoldsOwnKey
  CacheMatchesRegistry
  RunningHasKey
PROPERTIES
  ImplementsLedger
  StartRestoresKey
