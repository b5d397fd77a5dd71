SPECIFICATION FairSpec
CONSTANTS
  s1 = s1
  s2 = s2
  f1 = f1
  f2 = f2
  Scans = {}
  Fetches = {}
  Generation = {0, 1, 2, 3}
  AppRefreshIntervalTicks = 1
  SharedStaleTicks = 1
  MemoryWindowSamples = 1
  MaxReopenTimers = 2
  SharedMacConfigured = FALSE
  StoredSettings <- CpuSettings
  Clickable = {"AutoRefresh", "ShowCpu", "ShowGpu", "LaunchAtLogin"}
  Failures = {"memory", "cpu", "gpu"}
INVARIANTS LoadingCpuIsWarmedUp TimerFollowsAutoRefresh OpenDropdownIsCurrent
PROPERTIES CpuLeavesLoading ModuleTurnedOnIsShown
