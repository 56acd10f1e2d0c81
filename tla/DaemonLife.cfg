SPECIFICATION Spec
CONSTANTS
  c1 = c1
  c2 = c2
  k1 = k1
  k2 = k2
  k3 = k3
  v1 = v1
  v2 = v2
  Unset = Unset
  Clients = {c1, c2}
  Keys = {k1, k2, k3}
  Values = {v1, v2}
  Flags <- MCFlags
  Defaults <- MCDefaults
  UserEnv <- MCUserEnv
  MaxDaemons = 2
  MaxFaults = 1
  MaxCalls = 3
CHECK_DEADLOCK FALSE
INVARIANTS NotWedged LostOnlyWithDaemon StopReleases StopNotStuck OnePolicy
SYMMETRY Symmetry
