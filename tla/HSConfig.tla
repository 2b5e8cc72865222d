------------------------------- MODULE HSConfig -------------------------------
(***************************************************************************)
(* The configuration of HS, and the checks of hs_verify.h that a build has *)
(* to pass.  The sizes of the monitors' tables come from HSTables.         *)
(***************************************************************************)
EXTENDS HSTables

CONSTANTS
  UINT32_MAX,    \* 4294967295, or the largest number TLC can hold
  UINT16_MAX,    \* 65535
  HS_MAX_EXEC_CNT_SLOTS, HS_MAX_MSG_ACT_SIZE, CFE_MISSION_SB_MAX_SB_MSG_SIZE,
  HS_POST_PROCESSING_DELAY, HS_WAKEUP_TIMEOUT, HS_RESET_TASK_DELAY, HS_STARTUP_SYNC_TIMEOUT,
  HS_CPU_ALIVE_PERIOD, HS_MAX_RESTART_ACTIONS,
  HS_CMD_PIPE_DEPTH, HS_EVENT_PIPE_DEPTH, HS_WAKEUP_PIPE_DEPTH,
  HS_APPMON_DEFAULT_STATE, HS_EVENTMON_DEFAULT_STATE,
  HS_ALIVENESS_DEFAULT_STATE, HS_CPUHOG_DEFAULT_STATE,
  HS_CPU_UTILIZATION_CYCLES_PER_INTERVAL, HS_CPU_UTILIZATION_MAX,
  HS_UTIL_PER_INTERVAL_HOGGING, HS_UTIL_HOGGING_TIMEOUT,
  HS_UTIL_PEAK_NUM_INTERVAL, HS_UTIL_AVERAGE_NUM_INTERVAL

XCTIndex == 0 .. HS_MAX_EXEC_CNT_SLOTS - 1

SizesVerified ==
  /\ HS_MAX_EXEC_CNT_SLOTS \in 1 .. UINT32_MAX
  /\ HS_MAX_MSG_ACT_TYPES \in 1 .. UINT16_MAX - HS_AMT_ACT_LAST_NONMSG - 1
  /\ HS_MAX_MSG_ACT_SIZE \in 7 .. CFE_MISSION_SB_MAX_SB_MSG_SIZE
  /\ HS_MAX_MONITORED_APPS \in 1 .. UINT32_MAX
  /\ HS_MAX_MONITORED_EVENTS \in 1 .. UINT32_MAX

(* The wakeup timeout may also be CFE_SB_PEND_FOREVER, -1.                 *)
TimesVerified ==
  /\ HS_POST_PROCESSING_DELAY \in 0 .. UINT32_MAX
  /\ HS_WAKEUP_TIMEOUT \in -1 .. UINT32_MAX \div 2
  /\ HS_CPU_ALIVE_PERIOD \in 1 .. UINT32_MAX
  /\ HS_MAX_RESTART_ACTIONS \in 0 .. UINT16_MAX

PipesVerified ==
  /\ HS_CMD_PIPE_DEPTH >= 1
  /\ HS_EVENT_PIPE_DEPTH >= 1
  /\ HS_WAKEUP_PIPE_DEPTH >= 1

DelaysVerified ==
  /\ HS_RESET_TASK_DELAY \in 0 .. UINT32_MAX
  /\ HS_STARTUP_SYNC_TIMEOUT \in 0 .. UINT32_MAX

StatesVerified ==
  {HS_APPMON_DEFAULT_STATE, HS_EVENTMON_DEFAULT_STATE,
   HS_ALIVENESS_DEFAULT_STATE, HS_CPUHOG_DEFAULT_STATE} \subseteq HS_STATES

UtilizationVerified ==
  /\ HS_CPU_UTILIZATION_MAX \in 1 .. UINT32_MAX
  /\ HS_UTIL_PER_INTERVAL_HOGGING \in 1 .. HS_CPU_UTILIZATION_MAX
  /\ HS_UTIL_HOGGING_TIMEOUT \in 1 .. UINT32_MAX
  /\ HS_UTIL_PEAK_NUM_INTERVAL \in 1 .. UINT32_MAX
  /\ HS_UTIL_AVERAGE_NUM_INTERVAL \in 1 .. HS_UTIL_PEAK_NUM_INTERVAL

ASSUME WidthAssumption == UINT16_MAX \in Nat /\ UINT32_MAX \in Nat

ASSUME ConfigVerified ==
  /\ SizesVerified /\ TimesVerified /\ PipesVerified
  /\ DelaysVerified /\ StatesVerified /\ UtilizationVerified
=============================================================================
