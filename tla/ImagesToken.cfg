SPECIFICATION Spec
CONSTANTS
  Hosts = {"index", "docker.io", "registry"}
  IndexNames = {"index", "docker.io"}
  IndexDockerIO = "index"
  Programs = {"helper", "default"}
  Configs <- MCConfigs
  MaxAttempts = 3
INVARIANT TokenAsToken
CHECK_DEADLOCK FALSE
