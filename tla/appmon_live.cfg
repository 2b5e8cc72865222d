SPECIFICATION AMFairSpec
CONSTANTS
  a = a
  b = b
  Apps = {a}
  HS_MAX_MONITORED_APPS = 2
  HS_MAX_MONITORED_EVENTS = 1
  HS_MAX_MSG_ACT_TYPES = 1
  AMTables <- MCLiveAMTables
  MATables <- MCMATables
  MaxCycleCount = 2
  MaxCooldown = 2
  MaxExecution = 1
  TBLMayFail = TRUE
  AppFaults = {"restart", "wrap", "GetAppInfo"}
PROPERTIES SilentAppActedOn
