SPECIFICATION AMSpec
CONSTANTS
  a = a
  b = b
  Apps = {a, b}
  HS_MAX_MONITORED_APPS = 2
  HS_MAX_MONITORED_EVENTS = 1
  HS_MAX_MSG_ACT_TYPES = 1
  AMTables <- MCAMTables
  MATables <- MCMATables
  MaxCycleCount = 2
  MaxCooldown = 2
  MaxExecution = 2
  TBLMayFail = TRUE
  AppFaults = {}
INVARIANTS AMTypeOK EnablesMatch ActsOnce ChecksLoadedTable SilenceDetected CooldownExact
PROPERTIES ActsOnlyOnSilence MessagesSpaced
