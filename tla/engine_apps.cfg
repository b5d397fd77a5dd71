SPECIFICATION FairSpec
CONSTANTS
  s1 = s1
  s2 = s2
  f1 = f1
  f2 = f2
  Scans = {s1, s2}
  Fetches = {}
  Generation = {0, 1, 2, 3}
  AppRefreshIntervalTicks = 2
  SharedStaleTicks = 1
  MemoryWindowSamples = 1
  MaxReopenTimers = 1
  SharedMacConfigured = FALSE
  StoredSettings <- AppsSettings
  Clickable = {"ShowAppUsage"}
  Failures = {"memory", "scan"}
INVARIANTS OneScanInFlight HiddenAppsStayHidden
PROPERTIES AppsLeaveLoading AppListIsAsked
