SPECIFICATION Spec
CONSTANTS
  f1 = f1
  Fetches = {f1}
  IO_TIMEOUT = 4
  REQUEST_DEADLINE = 2
  FETCH_TIMEOUT = 8
  MAX_REQUEST_BYTES = 12
  Readings <- SomeReadings
  Foreign <- OtherAnswers
  MaxQueue = 4
INVARIANTS ReadsWholeAnswersOnly ExchangesAreBounded PromptFetchIsAnswered
