SPECIFICATION FairSpec
CONSTANTS
  c1 = c1
  c2 = c2
  c3 = c3
  Clients = {c1, c2, c3}
  MaxBacklog = 3
  Failures = {"port", "spawn", "sampler", "memory", "answer"}
INVARIANTS DroppedServerIsGone SettingIsInForce ServesFreshReading
PROPERTIES NoWaitOnDeadConnection StopEnds CheckmarkCatchesUp
