SPECIFICATION FairSpec
CONSTANTS
  Process = {s1, s2}
  Service = {web, metrics}
  Enabled = {web, metrics}
  None = None
  Latest = 1
  MaxKills = 0
  s1 = s1
  s2 = s2
  web = web
  metrics = metrics
PROPERTIES
  StaysReachable
