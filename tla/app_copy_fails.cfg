SPECIFICATION Spec
CONSTANTS
  UINT16_MAX = 3
  HS_MAX_RESTART_ACTIONS = 1
  MaxResetsArgs = {0, 2}
  HS_WATCHDOG_TIMEOUT_VALUE = 1
  HS_WAKEUP_TIMEOUT = 0
  HS_RESET_TASK_DELAY = 0
  Faults <- CopyFaults
  NoBlock = NoBlock
INVARIANT ResetsLimited
