------------------------------- MODULE HSAppMon -------------------------------
(***************************************************************************)
(* The Application Monitor: HS_MonitorApplications with the commands and   *)
(* the table updates that arm it.  Entry by entry it compares the          *)
(* execution counter of an application with the one it saw last; other     *)
(* tasks, the applications among them, run between any two steps of HS.    *)
(*                                                                         *)
(* What the actions do outside HS is left to the module HSApp (resets) and *)
(* to the applications' own steps (restarts); sending messages is that of  *)
(* HSMsgActs.                                                              *)
(*                                                                         *)
(* Definitions named Bad... are what the one after each of them would be   *)
(* with a bug; the properties must tell the two apart.                     *)
(***************************************************************************)
EXTENDS HSMsgActs

CONSTANTS
  Apps,          \* the names of applications
  AMTables,      \* the images of the Application Monitor Table that may be loaded
  MaxCycleCount, \* no image has a longer timeout (65535 in the code)
  MaxExecution,  \* largest execution counter (uint32 in the code)
  AppFaults      \* what else may happen to applications and their counters

AMTEntries == [AppName : Apps, NullTerm : {0, 1}, CycleCount : 0 .. MaxCycleCount,
               ActionType : Nat]

ASSUME AMTAssumption ==
  /\ MaxCycleCount \in Nat /\ MaxExecution \in Nat
  /\ AMTables \subseteq [AMTIndex -> AMTEntries]
  /\ \A image \in AMTables : HS_ValidateAMTable(image) = "CFE_SUCCESS"
  /\ AppFaults \subseteq {"restart", "wrap", "GetAppInfo"}

VARIABLES
  amPC,                   \* where HS is in its cycle
  TableIndex,             \* the entry HS_MonitorApplications is at
  AMTable,                \* what HS_AppData.AMTablePtr points to
  AMTReady,               \* Table Services holds a loaded table
  AppMonLoaded,           \* HS_AppData.AppMonLoaded
  CurrentAppMonState,     \* HS_AppData.CurrentAppMonState
  AppMonCheckInCountdown, \* HS_AppData.AppMonCheckInCountdown
  AppMonLastExeCount,     \* HS_AppData.AppMonLastExeCount
  AppMonEnables,          \* the bits set in HS_AppData.AppMonEnables
  ExecutionCounter,       \* of each application; NotRunning if it is not there
  ran,                    \* history: entries whose application ran since their last check
  silent,                 \* history: checks in a row that found the application had not run
  failures                \* history: actions an entry has taken since it was armed

monVars == <<AppMonCheckInCountdown, AppMonLastExeCount, AppMonEnables>>
histVars == <<ran, silent, failures>>
tblVars == <<AMTable, AMTReady, AppMonLoaded, CurrentAppMonState>>
amVars == <<amPC, TableIndex, tblVars, monVars, ExecutionCounter, histVars, matVars>>

NotRunning == MaxExecution + 1   \* in place of a counter: no such application

EmptyAMT == [e \in AMTIndex |-> [AppName |-> CHOOSE app \in Apps : TRUE, NullTerm |-> 0,
                                CycleCount |-> 0, ActionType |-> HS_AMT_ACT_NOACT]]

AMTMay(fault) == fault \in AppFaults

(***************************************************************************)
(* HS_AppMonStatusRefresh: arm every entry in use with a timeout.          *)
(***************************************************************************)
InUse(entry) == entry.CycleCount # 0 /\ entry.ActionType # HS_AMT_ACT_NOACT

BadStatusRefresh(table) ==   \* the enable bits are not cleared first
  /\ AppMonLastExeCount' = [e \in AMTIndex |-> 0]
  /\ AppMonCheckInCountdown' = [e \in AMTIndex |-> IF InUse(table[e]) THEN table[e].CycleCount ELSE 0]
  /\ AppMonEnables' = AppMonEnables \cup {e \in AMTIndex : InUse(table[e])}
  /\ ran' = {}
  /\ silent' = [e \in AMTIndex |-> 0]
  /\ failures' = [e \in AMTIndex |-> 0]

HS_AppMonStatusRefresh(table) ==
  /\ AppMonLastExeCount' = [e \in AMTIndex |-> 0]
  /\ AppMonCheckInCountdown' = [e \in AMTIndex |-> IF InUse(table[e]) THEN table[e].CycleCount ELSE 0]
  /\ AppMonEnables' = {e \in AMTIndex : InUse(table[e])}
  /\ ran' = {}
  /\ silent' = [e \in AMTIndex |-> 0]
  /\ failures' = [e \in AMTIndex |-> 0]

(***************************************************************************)
(* Start: after the memset of HS_AppInit, and HS_TblInit.                  *)
(***************************************************************************)
AMInit ==
  /\ MATInit
  /\ amPC = "start" /\ TableIndex = 0
  /\ AMTable = EmptyAMT /\ AMTReady = FALSE
  /\ AppMonLoaded = HS_STATE_DISABLED /\ CurrentAppMonState = HS_STATE_DISABLED
  /\ AppMonCheckInCountdown = [e \in AMTIndex |-> 0]
  /\ AppMonLastExeCount = [e \in AMTIndex |-> 0]
  /\ AppMonEnables = {}
  /\ ExecutionCounter \in [Apps -> {0, NotRunning}]
  /\ ran = {} /\ silent = [e \in AMTIndex |-> 0] /\ failures = [e \in AMTIndex |-> 0]

(* HS_AcquirePointers for this table.  An update re-arms the entries; a    *)
(* table without an address disables the monitor.                          *)
AMTUpdated ==
  \E image \in AMTables :
    /\ AMTable' = image
    /\ AMTReady' = TRUE
    /\ AppMonLoaded' = HS_STATE_ENABLED
    /\ HS_AppMonStatusRefresh(image)

AMTAcquired ==
  /\ AMTReady
  /\ AppMonLoaded' = HS_STATE_ENABLED
  /\ UNCHANGED <<AMTable, AMTReady, monVars, histVars>>

AMTNotAcquired ==
  /\ AMTReady => TBLMayFail
  /\ AppMonLoaded' = HS_STATE_DISABLED
  /\ UNCHANGED <<AMTable, AMTReady, monVars, histVars>>

(* HS_AppInit and HS_TblInit: the monitor is enabled by default, and is    *)
(* disabled if its table cannot be loaded from its file.                   *)
HS_TblInit ==
  /\ amPC = "start"
  /\ MATUpdated \/ MATNotAcquired
  /\ \/ AMTUpdated /\ CurrentAppMonState' = HS_STATE_ENABLED
     \/ AMTNotAcquired /\ CurrentAppMonState' = HS_STATE_DISABLED
  /\ amPC' = "cycle"
  /\ UNCHANGED <<TableIndex, ExecutionCounter>>

(***************************************************************************)
(* One cycle of HS_ProcessMain                                             *)
(***************************************************************************)
(* HS_AcquirePointers, and the cooldowns.                                  *)
BadStartCycle ==   \* a failed table does not disable the monitor
  /\ amPC = "cycle"
  /\ MATStartCycle
  /\ AMTUpdated \/ AMTAcquired \/ AMTNotAcquired
  /\ UNCHANGED <<CurrentAppMonState, ExecutionCounter>>
  /\ TableIndex' = 0
  /\ amPC' = IF CurrentAppMonState = HS_STATE_ENABLED THEN "monitor" ELSE "commands"

StartCycle ==
  /\ amPC = "cycle"
  /\ MATStartCycle
  /\ \/ AMTUpdated \/ AMTAcquired
     \/ AMTNotAcquired
  /\ CurrentAppMonState' = IF AppMonLoaded' = HS_STATE_DISABLED
                           THEN HS_STATE_DISABLED ELSE CurrentAppMonState
  /\ TableIndex' = 0
  /\ amPC' = IF CurrentAppMonState' = HS_STATE_ENABLED THEN "monitor" ELSE "commands"
  /\ UNCHANGED ExecutionCounter

BadArmed(e) ==   \* an entry that has acted stays armed
  AMTable[e].ActionType # HS_AMT_ACT_NOACT

Armed(e) == AMTable[e].ActionType # HS_AMT_ACT_NOACT /\ AppMonCheckInCountdown[e] # 0

NextEntry ==
  /\ TableIndex' = (TableIndex + 1) % HS_MAX_MONITORED_APPS
  /\ amPC' = IF TableIndex' = 0 THEN "commands" ELSE "monitor"
  /\ UNCHANGED <<tblVars, ExecutionCounter>>

At(e) == amPC = "monitor" /\ TableIndex = e

SkipEntry(e) ==
  /\ At(e) /\ ~Armed(e)
  /\ NextEntry
  /\ UNCHANGED <<monVars, histVars, matVars>>

(* What the checks of e have found, for the history.                       *)
Observed(e) ==
  /\ ran' = ran \ {e}
  /\ silent' = [silent EXCEPT ![e] = IF e \in ran THEN 0
                                     ELSE IF silent[e] > MaxCycleCount THEN silent[e]
                                     ELSE silent[e] + 1]

Counter(e) == ExecutionCounter[AMTable[e].AppName]
CounterMoved(e) == Counter(e) # NotRunning /\ Counter(e) # AppMonLastExeCount[e]

BadCheckedInCount(e) ==   \* the countdown is not started again
  /\ At(e) /\ Armed(e) /\ CounterMoved(e)
  /\ AppMonLastExeCount' = [AppMonLastExeCount EXCEPT ![e] = Counter(e)]
  /\ Observed(e)
  /\ NextEntry
  /\ UNCHANGED <<AppMonCheckInCountdown, AppMonEnables, failures, matVars>>

BadCheckedInLast(e) ==   \* the counter is not remembered
  /\ At(e) /\ Armed(e) /\ CounterMoved(e)
  /\ AppMonCheckInCountdown' = [AppMonCheckInCountdown EXCEPT ![e] = AMTable[e].CycleCount]
  /\ Observed(e)
  /\ NextEntry
  /\ UNCHANGED <<AppMonLastExeCount, AppMonEnables, failures, matVars>>

CheckedIn(e) ==
  /\ At(e) /\ Armed(e) /\ CounterMoved(e)
  /\ AppMonCheckInCountdown' = [AppMonCheckInCountdown EXCEPT ![e] = AMTable[e].CycleCount]
  /\ AppMonLastExeCount' = [AppMonLastExeCount EXCEPT ![e] = Counter(e)]
  /\ Observed(e)
  /\ NextEntry
  /\ UNCHANGED <<AppMonEnables, failures, matVars>>

BadMissed(e) ==   \* the countdown does not go down
  /\ At(e) /\ Armed(e)
  /\ CounterMoved(e) => AMTMay("GetAppInfo")
  /\ Observed(e)
  /\ UNCHANGED <<AppMonCheckInCountdown, AppMonLastExeCount>>

Missed(e) ==
  /\ At(e) /\ Armed(e)
  /\ CounterMoved(e) => AMTMay("GetAppInfo")
  /\ AppMonCheckInCountdown' = [AppMonCheckInCountdown EXCEPT ![e] = @ - 1]
  /\ Observed(e)
  /\ UNCHANGED AppMonLastExeCount

StillWaiting(e) ==
  /\ Missed(e)
  /\ AppMonCheckInCountdown[e] # 1
  /\ NextEntry
  /\ UNCHANGED <<AppMonEnables, failures, matVars>>

BadExpire(e) ==   \* the countdown starts again
  /\ At(e) /\ Armed(e)
  /\ CounterMoved(e) => AMTMay("GetAppInfo")
  /\ AppMonCheckInCountdown[e] = 1
  /\ AppMonCheckInCountdown' = [AppMonCheckInCountdown EXCEPT ![e] = AMTable[e].CycleCount]
  /\ Observed(e)
  /\ failures' = [failures EXCEPT ![e] = IF @ > 1 THEN @ ELSE @ + 1]
  /\ NextEntry
  /\ UNCHANGED <<AppMonEnables, AppMonLastExeCount>>

(* The count reaches zero: the entry is disabled and its action taken.     *)
Expire(e) ==
  /\ Missed(e)
  /\ AppMonCheckInCountdown[e] = 1
  /\ AppMonEnables' = AppMonEnables \ {e}
  /\ failures' = [failures EXCEPT ![e] = IF @ > 1 THEN @ ELSE @ + 1]
  /\ NextEntry

(* A reset that takes place is the action RestartHS, which follows; one    *)
(* that does not, a restart of the application or an event change nothing  *)
(* here.                                                                   *)
ExpireNoMessage(e) ==
  /\ AMTable[e].ActionType <= HS_AMT_ACT_LAST_NONMSG
  /\ Expire(e)
  /\ UNCHANGED matVars

ExpireMessage(e) ==
  /\ AMTable[e].ActionType > HS_AMT_ACT_LAST_NONMSG
  /\ Expire(e)
  /\ DoMsgAct(AMTMsgActsIndex(AMTable[e].ActionType))

HS_MonitorApplications ==
  \E e \in AMTIndex :
    SkipEntry(e) \/ CheckedIn(e) \/ StillWaiting(e) \/ ExpireNoMessage(e) \/ ExpireMessage(e)

(* The Event Monitor, which runs next, may ask for messages too.           *)
EventMonMessage ==
  /\ amPC = "commands"
  /\ \E m \in MATIndex : SendMsgAct(m)
  /\ UNCHANGED <<amPC, TableIndex, tblVars, monVars, ExecutionCounter, histVars>>

HS_EnableAppMonCmd ==
  /\ amPC = "commands"
  /\ HS_AppMonStatusRefresh(AMTable)
  /\ CurrentAppMonState' = HS_STATE_ENABLED
  /\ UNCHANGED <<amPC, TableIndex, AMTable, AMTReady, AppMonLoaded, ExecutionCounter, matVars>>

HS_DisableAppMonCmd ==
  /\ amPC = "commands"
  /\ CurrentAppMonState' = HS_STATE_DISABLED
  /\ UNCHANGED <<amPC, TableIndex, AMTable, AMTReady, AppMonLoaded, monVars,
                 ExecutionCounter, histVars, matVars>>

EndCycle ==
  /\ amPC = "commands"
  /\ amPC' = "cycle"
  /\ UNCHANGED <<TableIndex, tblVars, monVars, ExecutionCounter, histVars, matVars>>

(***************************************************************************)
(* The rest of the system, between any two steps of HS                     *)
(***************************************************************************)
EntriesOf(app) == {e \in AMTIndex : AMTable[e].AppName = app}

SetCounter(app, value) ==
  /\ ExecutionCounter' = [ExecutionCounter EXCEPT ![app] = value]
  /\ UNCHANGED <<amPC, TableIndex, tblVars, monVars, silent, failures, matVars>>

AppRuns(app) ==
  /\ ExecutionCounter[app] < MaxExecution
  /\ SetCounter(app, ExecutionCounter[app] + 1)
  /\ ran' = ran \cup EntriesOf(app)

CounterWraps(app) ==
  /\ AMTMay("wrap")
  /\ ExecutionCounter[app] = MaxExecution
  /\ SetCounter(app, 0)
  /\ ran' = ran \cup EntriesOf(app)

(* An application ends, for good unless it may restart: then its counter   *)
(* starts again from 0.  An application that is not there counts as one    *)
(* that did not run.                                                       *)
AppEnds(app) ==
  /\ ExecutionCounter[app] # NotRunning
  /\ SetCounter(app, NotRunning)
  /\ ran' = ran \ EntriesOf(app)

AppRestarts(app) ==
  /\ AMTMay("restart")
  /\ ExecutionCounter[app] = NotRunning
  /\ SetCounter(app, 0)
  /\ UNCHANGED ran

(* The processor is reset, and with it every counter, or HS is restarted.  *)
RestartHS ==
  /\ MATRestart
  /\ amPC' = "start" /\ TableIndex' = 0
  /\ AMTable' = EmptyAMT /\ AMTReady' = FALSE
  /\ AppMonLoaded' = HS_STATE_DISABLED /\ CurrentAppMonState' = HS_STATE_DISABLED
  /\ AppMonCheckInCountdown' = [e \in AMTIndex |-> 0]
  /\ AppMonLastExeCount' = [e \in AMTIndex |-> 0]
  /\ AppMonEnables' = {}
  /\ ran' = {} /\ silent' = [e \in AMTIndex |-> 0] /\ failures' = [e \in AMTIndex |-> 0]
  /\ ExecutionCounter' \in {ExecutionCounter, [app \in Apps |-> 0]}

HSStep == HS_TblInit \/ StartCycle \/ HS_MonitorApplications \/ EndCycle

AMNext ==
  \/ HSStep
  \/ EventMonMessage \/ HS_EnableAppMonCmd \/ HS_DisableAppMonCmd
  \/ \E app \in Apps : AppRuns(app) \/ CounterWraps(app) \/ AppEnds(app) \/ AppRestarts(app)
  \/ RestartHS

AMSpec == AMInit /\ [][AMNext]_amVars

(* HS is woken for every cycle and runs it to its end.                     *)
AMFairSpec == AMSpec /\ WF_amVars(HSStep)

(***************************************************************************)
(* Properties                                                              *)
(***************************************************************************)
AMTypeOK ==
  /\ MATTypeOK
  /\ amPC \in {"start", "cycle", "monitor", "commands"}
  /\ TableIndex \in AMTIndex
  /\ AMTable \in AMTables \cup {EmptyAMT}
  /\ AMTReady \in BOOLEAN
  /\ AppMonLoaded \in HS_STATES /\ CurrentAppMonState \in HS_STATES
  /\ AppMonCheckInCountdown \in [AMTIndex -> 0 .. MaxCycleCount]
  /\ AppMonLastExeCount \in [AMTIndex -> 0 .. MaxExecution]
  /\ AppMonEnables \subseteq AMTIndex
  /\ ExecutionCounter \in [Apps -> 0 .. NotRunning]
  /\ ran \subseteq AMTIndex
  /\ silent \in [AMTIndex -> 0 .. MaxCycleCount + 1]
  /\ failures \in [AMTIndex -> 0 .. 2]

(* The enable bits that telemetry reports are those of the entries that    *)
(* can still act, and no entry waits longer than its table says: updates,  *)
(* commands and expiry keep the bits, the countdowns and the table in step.*)
EnablesMatch ==
  \A e \in AMTIndex :
    /\ e \in AppMonEnables <=> AppMonCheckInCountdown[e] # 0
    /\ e \in AppMonEnables => InUse(AMTable[e])
    /\ AppMonCheckInCountdown[e] <= AMTable[e].CycleCount

(* Once it has acted, an entry does not act again until the monitor is     *)
(* enabled by command or a table is loaded.                                *)
ActsOnce == \A e \in AMTIndex : failures[e] <= 1

(* HS checks applications only in a cycle whose table was read: a monitor  *)
(* enabled without a table is disabled again before it checks anything.    *)
ChecksLoadedTable == amPC = "monitor" => AMTReady /\ AppMonLoaded = HS_STATE_ENABLED

(* No action is taken for an application that has run within the last      *)
(* CycleCount cycles.                                                      *)
ActsOnlyOnSilence ==
  [][\A e \in AMTIndex :
       ExpireNoMessage(e) \/ ExpireMessage(e) => silent'[e] >= AMTable[e].CycleCount]_amVars

(* An application that does not run is acted on in time: one check more    *)
(* than the table says, as the first check of an entry compares with 0.    *)
SilenceDetected ==
  \A e \in AppMonEnables :
    silent[e] <= AMTable[e].CycleCount - AppMonCheckInCountdown[e] + 1

(* HS does not wait for ever for a silent application: again and again,    *)
(* each entry is found disabled, or its application was found to run, or   *)
(* the entry was armed anew, or the monitor is disabled.                   *)
SilentAppActedOn ==
  \A e \in AMTIndex :
    []<>(e \notin AppMonEnables \/ silent[e] = 0 \/ CurrentAppMonState = HS_STATE_DISABLED)
=============================================================================
