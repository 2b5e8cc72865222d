-------------------------------- MODULE HSUtil --------------------------------
(***************************************************************************)
(* CPU utilization, hogging and aliveness: what HS_ProcessMain does every  *)
(* cycle besides the monitors and the pipes.  A cycle reads the system     *)
(* monitor device once per interval, keeps the readings in a ring buffer,  *)
(* and counts the intervals in which the CPU was hogged.  The commands     *)
(* that enable and disable both come between cycles; HSCmd counts them.    *)
(*                                                                         *)
(* Definitions named Bad... are what the one after each of them would be   *)
(* with a bug; the properties must tell the two apart.                     *)
(***************************************************************************)
EXTENDS HSConfig, Functions

CONSTANTS
  Samples,        \* what the device may say: the upper 16 of 24 bits count
  NoSample,       \* ... and that it cannot be read
  UNKNOWN,        \* 0xFFFFFFFF, reported when the utilization is not known
  MaxHoggingTime  \* bound: CurrentCPUHoggingTime is not counted beyond it

(* hs_verify.h leaves both to the mission: an interval of 0 cycles wraps   *)
(* the cycle counter, a larger maximum overflows the scaling of a sample.  *)
ASSUME IntervalAssumption == HS_CPU_UTILIZATION_CYCLES_PER_INTERVAL \in Nat \ {0}
ASSUME ScaleAssumption ==
  /\ Samples \subseteq Nat
  /\ \A s \in Samples : (s \div 256) * HS_CPU_UTILIZATION_MAX <= UINT32_MAX
  /\ NoSample \notin Nat /\ UNKNOWN \notin Nat
  /\ MaxHoggingTime \in Nat /\ MaxHoggingTime > HS_UTIL_HOGGING_TIMEOUT

Slots == 0 .. HS_UTIL_PEAK_NUM_INTERVAL - 1
Levels == 0 .. HS_CPU_UTILIZATION_MAX
NOT_READ == -1

VARIABLES
  SysMonPspModuleId,        \* 0 when no device was found
  CurrentCPUUtilIndex, UtilizationTracker, UtilCpuAvg, UtilCpuPeak,
  CurrentCPUHogState, CurrentCPUHoggingTime, UtilizationCycleCounter,
  CurrentAlivenessState, AlivenessCounter,
  latest,       \* history: what the latest intervals measured, newest first
  known,        \* history: the latest reading did not fail
  hogs,         \* history: did the latest known readings hog, newest first
  reported,     \* history: the latest reading sent the hogging event
  noticed,      \* history: it was sent since a reading that did not hog
  hoggedCycles  \* history: cycles that hogged without a break

window   == <<CurrentCPUUtilIndex, UtilizationTracker, UtilCpuAvg, UtilCpuPeak, latest>>
hogging  == <<CurrentCPUHoggingTime, known, hogs, reported, noticed>>
alive    == <<CurrentAlivenessState, AlivenessCounter>>
utilVars == <<SysMonPspModuleId, window, hogging, alive, CurrentCPUHogState,
              UtilizationCycleCounter, hoggedCycles>>

AllCycles == HS_UTIL_HOGGING_TIMEOUT * HS_CPU_UTILIZATION_CYCLES_PER_INTERVAL
NoHogs == [k \in 0 .. HS_UTIL_HOGGING_TIMEOUT |-> FALSE]
Window == 1 .. HS_UTIL_PEAK_NUM_INTERVAL

(* The memory of HS after HS_AppInit; HS_SysMonInit finds a device or not. *)
(* One that cannot be started, or whose subsystem or channel is not found, *)
(* is used all the same: reading it may then fail.                         *)
HS_SysMonInit == {0, 1}

UtilInit ==
  /\ SysMonPspModuleId \in HS_SysMonInit
  /\ CurrentCPUUtilIndex = 0
  /\ UtilizationTracker = [i \in Slots |-> 0]
  /\ UtilCpuAvg = 0 /\ UtilCpuPeak = 0
  /\ CurrentCPUHogState = HS_CPUHOG_DEFAULT_STATE
  /\ CurrentCPUHoggingTime = 0
  /\ UtilizationCycleCounter = 0
  /\ CurrentAlivenessState = HS_ALIVENESS_DEFAULT_STATE
  /\ AlivenessCounter = 0
  /\ latest = [i \in Window |-> 0]
  /\ known = FALSE /\ hogs = NoHogs /\ reported = FALSE /\ noticed = FALSE /\ hoggedCycles = 0

RestartHS ==
  /\ SysMonPspModuleId' \in HS_SysMonInit
  /\ CurrentCPUUtilIndex' = 0
  /\ UtilizationTracker' = [i \in Slots |-> 0]
  /\ UtilCpuAvg' = 0 /\ UtilCpuPeak' = 0
  /\ CurrentCPUHogState' = HS_CPUHOG_DEFAULT_STATE
  /\ CurrentCPUHoggingTime' = 0
  /\ UtilizationCycleCounter' = 0
  /\ CurrentAlivenessState' = HS_ALIVENESS_DEFAULT_STATE
  /\ AlivenessCounter' = 0
  /\ latest' = [i \in Window |-> 0]
  /\ known' = FALSE /\ hogs' = NoHogs /\ reported' = FALSE /\ noticed' = FALSE /\ hoggedCycles' = 0

(***************************************************************************)
(* A reading, scaled to the maximum; without a device there is none.       *)
(***************************************************************************)
HS_SysMonGetCpuUtilization(sample) ==
  IF SysMonPspModuleId = 0 \/ sample = NoSample THEN NOT_READ
  ELSE ((sample \div 256) * HS_CPU_UTILIZATION_MAX) \div 65535

Clamped(util) == Min({util, HS_CPU_UTILIZATION_MAX})

Hogs(util) == Clamped(util) >= HS_UTIL_PER_INTERVAL_HOGGING /\ CurrentCPUHogState = HS_STATE_ENABLED

(***************************************************************************)
(* HS_MonitorUtilization.  Slot is the index before it moves on.           *)
(***************************************************************************)
BadNextIndex(i) == IF i + 1 > HS_UTIL_PEAK_NUM_INTERVAL THEN 0 ELSE i + 1   \* one slot too far

NextIndex(i) == IF i + 1 >= HS_UTIL_PEAK_NUM_INTERVAL THEN 0 ELSE i + 1

BadAveraged(slot) ==   \* one slot too many when the window wraps
  IF slot >= HS_UTIL_AVERAGE_NUM_INTERVAL
  THEN slot - HS_UTIL_AVERAGE_NUM_INTERVAL + 1 .. slot
  ELSE {i \in Slots : \/ i <= slot
                      \/ i >= HS_UTIL_PEAK_NUM_INTERVAL - (HS_UTIL_AVERAGE_NUM_INTERVAL - slot)}

Averaged(slot) ==
  IF slot >= HS_UTIL_AVERAGE_NUM_INTERVAL
  THEN slot - HS_UTIL_AVERAGE_NUM_INTERVAL + 1 .. slot
  ELSE {i \in Slots : \/ i <= slot
                      \/ i > HS_UTIL_PEAK_NUM_INTERVAL - (HS_UTIL_AVERAGE_NUM_INTERVAL - slot)}

Remember(level) == latest' = [i \in Window |-> IF i = 1 THEN level ELSE latest[i - 1]]

UtilizationNotKnown ==
  /\ UtilCpuAvg' = UNKNOWN /\ UtilCpuPeak' = UNKNOWN
  /\ Remember(UNKNOWN) /\ known' = FALSE /\ reported' = FALSE
  /\ UNCHANGED <<UtilizationTracker, CurrentCPUHoggingTime, hogs, noticed>>

UtilizationKnown(util) ==
  /\ Remember(Clamped(util)) /\ known' = TRUE
  /\ UtilizationTracker' = [UtilizationTracker EXCEPT ![CurrentCPUUtilIndex] = Clamped(util)]
  /\ UtilCpuAvg' = SumFunctionOnSet(UtilizationTracker', Averaged(CurrentCPUUtilIndex))
                     \div HS_UTIL_AVERAGE_NUM_INTERVAL
  /\ UtilCpuPeak' = Max(Range(UtilizationTracker'))

BadCountHogging(util) ==   \* the event is sent again in every interval
  /\ CurrentCPUHoggingTime' = IF Hogs(util) THEN Min({CurrentCPUHoggingTime + 1, MaxHoggingTime}) ELSE 0
  /\ reported' = (Hogs(util) /\ CurrentCPUHoggingTime' >= HS_UTIL_HOGGING_TIMEOUT)
  /\ noticed' = (Hogs(util) /\ (noticed \/ reported'))
  /\ hogs' = [k \in DOMAIN hogs |-> IF k = 0 THEN Hogs(util) ELSE hogs[k - 1]]

CountHogging(util) ==
  /\ CurrentCPUHoggingTime' = IF Hogs(util) THEN Min({CurrentCPUHoggingTime + 1, MaxHoggingTime}) ELSE 0
  /\ reported' = (Hogs(util) /\ CurrentCPUHoggingTime' = HS_UTIL_HOGGING_TIMEOUT)
  /\ noticed' = (Hogs(util) /\ (noticed \/ reported'))
  /\ hogs' = [k \in DOMAIN hogs |-> IF k = 0 THEN Hogs(util) ELSE hogs[k - 1]]

HS_MonitorUtilization(util) ==
  /\ CurrentCPUUtilIndex' = NextIndex(CurrentCPUUtilIndex)
  /\ \/ util < 0 /\ UtilizationNotKnown
     \/ util >= 0 /\ UtilizationKnown(util) /\ CountHogging(util)

(***************************************************************************)
(* These steps of a cycle.  The sample is what the device would say in     *)
(* this cycle, whether HS asks or not.                                     *)
(***************************************************************************)
BadSampling(util) ==   \* the counter is not decremented in the cycle that sets it
  IF UtilizationCycleCounter = 0
  THEN /\ HS_MonitorUtilization(util)
       /\ UtilizationCycleCounter' = HS_CPU_UTILIZATION_CYCLES_PER_INTERVAL
  ELSE /\ UtilizationCycleCounter' = UtilizationCycleCounter - 1
       /\ UNCHANGED <<window, hogging>>

Sampling(util) ==
  IF UtilizationCycleCounter = 0
  THEN /\ HS_MonitorUtilization(util)
       /\ UtilizationCycleCounter' = HS_CPU_UTILIZATION_CYCLES_PER_INTERVAL - 1
  ELSE /\ UtilizationCycleCounter' = UtilizationCycleCounter - 1
       /\ UNCHANGED <<window, hogging>>

OutputAliveness ==
  \/ /\ CurrentAlivenessState = HS_STATE_ENABLED
     /\ AlivenessCounter' = IF AlivenessCounter + 1 >= HS_CPU_ALIVE_PERIOD THEN 0 ELSE AlivenessCounter + 1
  \/ CurrentAlivenessState # HS_STATE_ENABLED /\ UNCHANGED AlivenessCounter

HS_ProcessMain(sample) ==
  LET util == HS_SysMonGetCpuUtilization(sample)
  IN  /\ Sampling(util)
      /\ OutputAliveness
      /\ hoggedCycles' = IF util >= 0 /\ Hogs(util) THEN Min({hoggedCycles + 1, AllCycles}) ELSE 0
      /\ UNCHANGED <<SysMonPspModuleId, CurrentCPUHogState, CurrentAlivenessState>>

(* Commands, between two cycles.                                           *)
SetCpuHogState(state) ==
  /\ CurrentCPUHogState' = state
  /\ UNCHANGED <<SysMonPspModuleId, window, hogging, alive, UtilizationCycleCounter, hoggedCycles>>

HS_EnableCpuHogCmd  == SetCpuHogState(HS_STATE_ENABLED)
HS_DisableCpuHogCmd == SetCpuHogState(HS_STATE_DISABLED)

SetAlivenessState(state) ==
  /\ CurrentAlivenessState' = state
  /\ UNCHANGED <<SysMonPspModuleId, window, hogging, AlivenessCounter, CurrentCPUHogState,
                 UtilizationCycleCounter, hoggedCycles>>

HS_EnableAlivenessCmd  == SetAlivenessState(HS_STATE_ENABLED)
HS_DisableAlivenessCmd == SetAlivenessState(HS_STATE_DISABLED)

UtilNext ==
  \/ \E sample \in Samples \cup {NoSample} : HS_ProcessMain(sample)
  \/ HS_EnableCpuHogCmd \/ HS_DisableCpuHogCmd
  \/ HS_EnableAlivenessCmd \/ HS_DisableAlivenessCmd
  \/ RestartHS

UtilSpec == UtilInit /\ [][UtilNext]_utilVars
-----------------------------------------------------------------------------
(* Types: in particular the index stays inside the buffer, no cycle counter *)
(* goes below zero, and no reading is above the maximum.                   *)
UtilTypeOK ==
  /\ SysMonPspModuleId \in HS_SysMonInit
  /\ CurrentCPUUtilIndex \in Slots
  /\ UtilizationTracker \in [Slots -> Levels]
  /\ UtilCpuAvg \in Levels \cup {UNKNOWN}
  /\ UtilCpuPeak \in Levels \cup {UNKNOWN}
  /\ CurrentCPUHogState \in HS_STATES
  /\ CurrentCPUHoggingTime \in 0 .. MaxHoggingTime
  /\ UtilizationCycleCounter \in 0 .. HS_CPU_UTILIZATION_CYCLES_PER_INTERVAL - 1
  /\ CurrentAlivenessState \in HS_STATES
  /\ AlivenessCounter \in 0 .. HS_CPU_ALIVE_PERIOD - 1
  /\ latest \in [Window -> Levels \cup {UNKNOWN}]
  /\ known \in BOOLEAN
  /\ hogs \in [0 .. HS_UTIL_HOGGING_TIMEOUT -> BOOLEAN]
  /\ reported \in BOOLEAN /\ noticed \in BOOLEAN
  /\ hoggedCycles \in 0 .. AllCycles

(* The hogging event is sent just when the reading completes a run of      *)
(* HS_UTIL_HOGGING_TIMEOUT hogging ones: not in the middle of a run, and   *)
(* not again while it lasts.  Readings that fail neither count nor break   *)
(* a run; one taken while hogging is disabled breaks it.                   *)
HogReported ==
  reported <=> /\ known
               /\ \A k \in 0 .. HS_UTIL_HOGGING_TIMEOUT - 1 : hogs[k]
               /\ ~hogs[HS_UTIL_HOGGING_TIMEOUT]

(* A CPU that hogs for HS_UTIL_HOGGING_TIMEOUT intervals' worth of cycles  *)
(* without a break, measurable and with hogging enabled, is noticed within *)
(* them, however the cycles and the intervals fall.                        *)
HoggingNoticed == hoggedCycles = AllCycles => noticed

(* What is reported is the average and the peak of the latest intervals,   *)
(* whatever the index: every one that was measured counts as what it was,  *)
(* until as many later ones were, and none that is older than those.  What *)
(* one that could not be measured counts as is left open: the slot it      *)
(* skips still holds the oldest measurement, see ReadingsShiftWindow.      *)
W == INSTANCE UtilWindow WITH
       Peak     <- HS_UTIL_PEAK_NUM_INTERVAL,
       Average  <- HS_UTIL_AVERAGE_NUM_INTERVAL,
       Levels   <- Levels,
       NotKnown <- UNKNOWN,
       window   <- latest,
       reported <- [avg |-> UtilCpuAvg, peak |-> UtilCpuPeak]

ImplementsWindow == W!WindowSpec
=============================================================================
