SPECIFICATION Spec
CONSTANTS
  c1 = c1
  c2 = c2
  c3 = c3
  Clients = {c1}
  MaxBacklog = 1
  Failures = {"port"}
INVARIANTS CheckmarkFollowsSetting
