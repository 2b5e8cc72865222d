SPECIFICATION CmdSpec
CONSTANTS
  UINT32_MAX = 2147483647
  UINT16_MAX = 65535
  HS_MAX_MONITORED_APPS = 1
  HS_MAX_MONITORED_EVENTS = 1
  HS_MAX_MSG_ACT_TYPES = 1
  HS_MAX_EXEC_CNT_SLOTS = 2
  HS_MAX_MSG_ACT_SIZE = 16
  CFE_MISSION_SB_MAX_SB_MSG_SIZE = 32768
  HS_POST_PROCESSING_DELAY = 0
  HS_WAKEUP_TIMEOUT = 1200
  HS_RESET_TASK_DELAY = 50
  HS_STARTUP_SYNC_TIMEOUT = 65000
  HS_CPU_ALIVE_PERIOD = 2
  HS_MAX_RESTART_ACTIONS = 3
  HS_CMD_PIPE_DEPTH = 12
  HS_EVENT_PIPE_DEPTH = 32
  HS_WAKEUP_PIPE_DEPTH = 1
  HS_APPMON_DEFAULT_STATE = 1
  HS_EVENTMON_DEFAULT_STATE = 1
  HS_ALIVENESS_DEFAULT_STATE = 1
  HS_CPUHOG_DEFAULT_STATE = 1
  HS_CPU_UTILIZATION_CYCLES_PER_INTERVAL = 2
  HS_CPU_UTILIZATION_MAX = 3
  HS_UTIL_PER_INTERVAL_HOGGING = 2
  HS_UTIL_HOGGING_TIMEOUT = 2
  HS_UTIL_PEAK_NUM_INTERVAL = 4
  HS_UTIL_AVERAGE_NUM_INTERVAL = 3
  UINT8_MAX = 2
  MaxActivity = 0
  MaxWord = 1
  XCTables <- MCXCTables
  EMTables <- MCEMTables
  FaultyTables = {"XCT", "EMT"}
  LostTables = {"XCT", "AMT"}
  HS_INVALID_EXECOUNT = HS_INVALID_EXECOUNT
  NoPacket = NoPacket
INVARIANTS CmdTypeOK EveryCommandCounted CountsOfLoadedTable UnknownTypesAreTruncated OutageReported
PROPERTY OnlyExecutedCommandsAct
