SPECIFICATION RowsSpec
CONSTANTS
  A = A
  B = B
  C = C
  Apps = {A, B, C}
  DisplayName <- Names
  Footprint = {1, 2, 3}
  MEANINGFUL_APP_DELTA_BYTES = 2
  APP_DELTA_BASELINE_MAX_AGE = 1
  APP_USAGE_ROW_LIMIT = 1
  ScanLimit = 2
  MaxTime = 3
INVARIANTS NoGrowerIsCrowdedOut
PROPERTIES GrowthSpansTwoReadingsInARow
