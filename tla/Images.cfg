SPECIFICATION FairSpec
CONSTANTS
  Hosts = {"index", "docker.io", "registry"}
  IndexNames = {"index", "docker.io"}
  IndexDockerIO = "index"
  Programs = {"helper", "default"}
  Configs <- MCConfigs
  MaxAttempts = 3
INVARIANTS
  TypeOK
  NoRetryAfterPermanent
  AllClosed
  NoSilentAnonymous
PROPERTY CallEnds
CHECK_DEADLOCK FALSE
