SPECIFICATION HistorySpec
CONSTANTS
  dropdown = dropdown
  Dropdown = dropdown
  Samplers = {dropdown}
  Macs <- SmallMacs
  Swap = {1}
  Levels = {40}
  SWAP_REFRESH_INTERVAL_TICKS = 2
  MAP_CELLS = 5
  Failures = {"statistics", "swap"}
  MEMORY_WINDOW_SAMPLES = 3
  RISING_BYTES = 1
  RISING_FAST_BYTES = 2
  REFRESH_TICK = 2
  TOLERANCE = 1
INVARIANTS EveryPageOnce CellsFollowShares SwapIsRecent CaptionSpansItsSamples
  MarkMatchesHistory
