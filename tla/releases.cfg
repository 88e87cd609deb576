\* A desktop that polls two instances while both are redeployed.
SPECIFICATION Spec
CONSTANTS
  None = None
  NaN = NaN
  Instances = {i1, i2}
  Configs <- MCConfigs
  FirstVersions <- MCFirst
  Platforms <- MCPlatforms
  Channels = {None, "beta", "nightly"}
  MB = 2
  MaxTime = 2
  MaxRedeploys = 2
INVARIANTS
  OfferIsNewer
PROPERTIES
  NotModifiedIsCurrent
  UpdatesEnd
