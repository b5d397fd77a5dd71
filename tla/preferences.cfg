SPECIFICATION Spec
CONSTANTS
  Processes = {1, 2}
  Items = {"ShowCpu", "ShowGpu"}
  Default <- Defaults
  Failures = {"login"}
INVARIANTS ShownSettingsSurvive LoginItemFollowsService
