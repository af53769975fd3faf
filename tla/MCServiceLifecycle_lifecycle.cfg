SPECIFICATION FairSpec
CONSTANTS
  Process = {s1, s2}
  Service = {web, metrics}
  Enabled = {web, metrics}
  None = None
  Latest = 2
  MaxKills = 2
  s1 = s1
  s2 = s2
  web = web
  metrics = metrics
INVARIANTS
  TypeOK
  SchemaIsVersioned
  DoneHasSchema
  AloneIsReachable
  AloneStarts
PROPERTIES
  ShutdownEnds
  RetrySucceeds
