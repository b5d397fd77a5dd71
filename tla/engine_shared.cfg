SPECIFICATION FairSpec
CONSTANTS
  s1 = s1
  s2 = s2
  f1 = f1
  f2 = f2
  Scans = {}
  Fetches = {f1, f2}
  Generation = {0, 1, 2, 3}
  AppRefreshIntervalTicks = 1
  SharedStaleTicks = 1
  MemoryWindowSamples = 1
  MaxReopenTimers = 1
  SharedMacConfigured = TRUE
  StoredSettings <- SharedSettings
  Clickable = {"ShowSharedMac", "ShareOverTailscale"}
  Failures = {"memory", "fetch", "share"}
INVARIANTS OneFetchInFlight AwaitedAnswerHasDrain OpenDropdownMatchesSettings
PROPERTIES SharedMacIsAsked OpensOnFreshReading
