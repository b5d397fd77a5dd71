SPECIFICATION Spec
CONSTANTS
  MaxProcessors = 2
  Width = 3
  Moves <- TwoProcessors
  Failures = {"read"}
INVARIANTS SpansNoGap
PROPERTIES MeasuresWhatElapsed
