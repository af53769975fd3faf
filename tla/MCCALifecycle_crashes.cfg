SPECIFICATION Spec
CONSTANTS
  CA = {c1, c2, c3, c4}
  Cli = {p1}
  Commands = {"create", "rotate", "start"}
  Env = {"torn", "wipe"}
  c1 = c1
  c2 = c2
  c3 = c3
  c4 = c4
  p1 = p1
SYMMETRY Symmetry
INVARIANTS
  SavedIsPublished
  ActiveIsRecorded
  KeyFileHoldsOwnKey
  CacheMatchesRegistry
PROPERTIES
  ValidCAStays
