SPECIFICATION FairSpec
CONSTANTS
  UINT16_MAX = 1
  HS_MAX_RESTART_ACTIONS = 1
  MaxResetsArgs = {0}
  HS_WATCHDOG_TIMEOUT_VALUE = 4
  HS_WAKEUP_TIMEOUT = 2
  HS_RESET_TASK_DELAY = 1
  Faults <- RunFaults
  NoBlock = NoBlock
PROPERTIES WatchdogSparesHealthyHS AttemptIsFinal AttemptEndsInReset
