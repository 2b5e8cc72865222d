-------------------------------- MODULE HSCmd --------------------------------
(***************************************************************************)
(* Commands and housekeeping: the command pipe, either dispatcher, every   *)
(* command handler, HS_SendHkCmd with its execution counters, and the      *)
(* loading and acquiring of the four tables whose flags housekeeping       *)
(* shows.  The monitors are seen through the counts and states they        *)
(* change; what they do is in HSAppMon, HSEventMon, HSUtil and HSApp.      *)
(*                                                                         *)
(* Definitions named Bad... are what the one after each of them would be   *)
(* with a bug; the properties must tell the two apart.                     *)
(***************************************************************************)
EXTENDS HSDefaultTables, FiniteSets

CONSTANTS
  UINT8_MAX,            \* 255: the command counters wrap beyond it
  MaxActivity,          \* bound of the two counts of what the monitors did
  MaxWord,              \* bound of the words of the CDS
  XCTables, EMTables,   \* images that may be uploaded, whatever they hold
  FaultyTables,         \* tables whose file may not load, until one is uploaded
  LostTables,           \* tables CFE_TBL_GetAddress may fail for although loaded
  HS_INVALID_EXECOUNT,  \* 0xFFFFFFFF, which is no counter
  NoPacket              \* no housekeeping packet is sent in this step

Tables == {"AMT", "EMT", "MAT", "XCT"}
Parts  == {"AppMon", "EventMon", "Aliveness", "CPUHog"}

ASSUME CmdAssumption ==
  /\ UINT8_MAX \in Nat /\ MaxActivity \in Nat /\ MaxWord \in Nat
  /\ \A image \in XCTables : DOMAIN image = XCTIndex /\ \A i \in XCTIndex : image[i].ResourceType \in Nat
  /\ \A image \in EMTables : DOMAIN image = EMTIndex
  /\ FaultyTables \subseteq Tables /\ LostTables \subseteq Tables

(* A table that is lost leaves a null pointer, which housekeeping would    *)
(* follow for the Event Monitor Table (hs_cmds.c, line 85).                *)
ASSUME EventTableIsKept == "EMT" \notin LostTables

HS_NOOP_CC                   == 0
HS_RESET_CC                  == 1
HS_ENABLE_APP_MON_CC         == 2
HS_DISABLE_APP_MON_CC        == 3
HS_ENABLE_EVENT_MON_CC       == 4
HS_DISABLE_EVENT_MON_CC      == 5
HS_ENABLE_ALIVENESS_CC       == 6
HS_DISABLE_ALIVENESS_CC      == 7
HS_RESET_RESETS_PERFORMED_CC == 8
HS_SET_MAX_RESETS_CC         == 9
HS_ENABLE_CPU_HOG_CC         == 10
HS_DISABLE_CPU_HOG_CC        == 11

(* Messages of the command pipe: any code, one of them unknown, and the    *)
(* length that its structure has or another.                               *)
Messages ==
  [mid : {"HS_CMD_MID"}, cc : 0 .. HS_DISABLE_CPU_HOG_CC + 1, length : {"right", "wrong"}] \cup
  [mid : {"HS_SEND_HK_MID", "unknown"}, cc : {HS_NOOP_CC}, length : {"right", "wrong"}]

VARIABLES
  pc,                    \* "start", "cycle", "commands" or "exited"
  CmdCount, CmdErrCount, EventsMonitoredCount, MsgActExec,
  Current,               \* Current...State of the four parts
  CDSData,               \* ResetsPerformed and MaxResets
  CDSState,
  loaded,                \* AppMonLoaded, EventMonLoaded, MsgActsState, ExeCountState
  ready,                 \* the tables Table Services holds a loaded image of
  XCTable, EMTable,      \* what XCTablePtr and EMTablePtr point to
  hk,                    \* the packet this step sends
  handled,               \* history: commands since the counters were cleared
  lost,                  \* history: the tables HS could not get last time it asked ...
  told                   \* history: ... and those of which an error event said so

counts   == <<CmdCount, CmdErrCount>>
activity == <<EventsMonitoredCount, MsgActExec>>
tables   == <<loaded, ready, XCTable, EMTable, lost, told>>
cmdVars  == <<pc, counts, activity, Current, CDSData, CDSState, tables, hk, handled>>

EmptyXCT == [i \in XCTIndex |-> [ResourceName |-> "", NullTerm |-> 0,
                                 ResourceType |-> HS_XCT_TYPE_NOTYPE]]
EmptyEMT == [i \in EMTIndex |-> [AppName |-> "", NullTerm |-> 0, EventID |-> 0,
                                 ActionType |-> HS_EMT_ACT_NOACT]]

DefaultStates == [p \in Parts |->
  CASE p = "AppMon"    -> HS_APPMON_DEFAULT_STATE
    [] p = "EventMon"  -> HS_EVENTMON_DEFAULT_STATE
    [] p = "Aliveness" -> HS_ALIVENESS_DEFAULT_STATE
    [] p = "CPUHog"    -> HS_CPUHOG_DEFAULT_STATE]

Words == 0 .. MaxWord

LoadedBut(failed) == [t \in Tables |-> IF t \in failed THEN HS_STATE_DISABLED ELSE HS_STATE_ENABLED]

CmdInit ==
  /\ pc = "start"
  /\ CmdCount = 0 /\ CmdErrCount = 0 /\ EventsMonitoredCount = 0 /\ MsgActExec = 0
  /\ Current = DefaultStates
  /\ CDSData = [ResetsPerformed |-> 0, MaxResets |-> 0]
  /\ CDSState = HS_STATE_ENABLED
  /\ loaded = LoadedBut({})
  /\ ready = {} /\ XCTable = EmptyXCT /\ EMTable = EmptyEMT
  /\ hk = NoPacket
  /\ handled = 0 /\ lost = {} /\ told = {}

RestartHS ==
  /\ pc # "start" /\ pc' = "start"
  /\ CmdCount' = 0 /\ CmdErrCount' = 0 /\ EventsMonitoredCount' = 0 /\ MsgActExec' = 0
  /\ Current' = DefaultStates
  /\ CDSData' = [ResetsPerformed |-> 0, MaxResets |-> 0]
  /\ CDSState' = HS_STATE_ENABLED
  /\ loaded' = LoadedBut({})
  /\ ready' = {} /\ XCTable' = EmptyXCT /\ EMTable' = EmptyEMT
  /\ hk' = NoPacket
  /\ handled' = 0 /\ lost' = {} /\ told' = {}

(***************************************************************************)
(* HS_AcquirePointers: what it makes of the states and flags when it gets  *)
(* no address of the tables in failed.  Monitored tables are reported when *)
(* they were loaded or their monitor is enabled, the other two when they   *)
(* were loaded.                                                            *)
(***************************************************************************)
MonitorOf == [t \in {"AMT", "EMT"} |-> IF t = "AMT" THEN "AppMon" ELSE "EventMon"]

Reported(failed, state, flag) ==
  {t \in failed : \/ flag[t] = HS_STATE_ENABLED
                  \/ t \in DOMAIN MonitorOf /\ state[MonitorOf[t]] = HS_STATE_ENABLED}

BadFlags(failed, state, flag) ==   \* a table that is back does not count as loaded
  [t \in Tables |-> IF t \in Reported(failed, state, flag) THEN HS_STATE_DISABLED ELSE flag[t]]

Flags(failed, state, flag) ==
  [t \in Tables |-> IF t \in Reported(failed, state, flag) THEN HS_STATE_DISABLED
                    ELSE IF t \in failed THEN flag[t] ELSE HS_STATE_ENABLED]

Disabled(missing, state) ==
  [p \in Parts |-> IF \E t \in missing \cap DOMAIN MonitorOf : MonitorOf[t] = p
                   THEN HS_STATE_DISABLED ELSE state[p]]

AcquirePointers(failed, state, flag, toldBefore) ==
  /\ Current' = Disabled(Reported(failed, state, flag), state)
  /\ loaded' = Flags(failed, state, flag)
  /\ lost' = failed
  /\ told' = (toldBefore \cap failed) \cup Reported(failed, state, flag)

(***************************************************************************)
(* HS_AppInit, after event services are registered, with HS_TblInit: each  *)
(* table whose file does not load is reported and marked, and disables its *)
(* monitor; then HS_AcquirePointers runs once.                             *)
(***************************************************************************)
HS_TblInit(failed, gone) ==
  /\ AcquirePointers(failed \cup gone, Disabled(failed, DefaultStates), LoadedBut(failed), failed)
  /\ ready' = Tables \ failed
  /\ XCTable' = IF "XCT" \in failed THEN EmptyXCT ELSE HS_ExeCount_Tbl
  /\ EMTable' = IF "EMT" \in failed THEN EmptyEMT ELSE HS_EventMon_Tbl

HS_AppInit ==
  /\ pc = "start" /\ pc' = "cycle"
  /\ CDSState' \in HS_STATES
  /\ CDSData' \in [ResetsPerformed : Words, MaxResets : Words]
  /\ \E failed \in SUBSET FaultyTables, gone \in SUBSET LostTables : HS_TblInit(failed, gone)
  /\ hk' = NoPacket
  /\ UNCHANGED <<counts, activity, handled>>

(***************************************************************************)
(* A cycle up to its commands: Table Services may have taken over uploaded *)
(* images that passed validation, HS acquires the tables, and the monitors *)
(* do what they do, a failed processor reset included.                     *)
(***************************************************************************)
ValidXCTables == {image \in XCTables : HS_ValidateXCTable(image) = "CFE_SUCCESS"}
ValidEMTables == {image \in EMTables : HS_ValidateEMTable(image) = "CFE_SUCCESS"}

(* What the pointer may point to: a new image, or what it did before if    *)
(* the table is not just now loaded for the first time.                    *)
Acquired(table, image, images) ==
  {new \in images : table \in ready'} \cup {old \in {image} : table \notin ready' \ ready}

UpTo(n, bound) == {n, Min({n + 1, bound})}

MonitorsAct ==
  /\ EventsMonitoredCount' \in IF Current'["EventMon"] = HS_STATE_ENABLED
                               THEN UpTo(EventsMonitoredCount, MaxActivity) ELSE {EventsMonitoredCount}
  /\ MsgActExec' \in IF loaded'["MAT"] = HS_STATE_ENABLED
                     THEN UpTo(MsgActExec, MaxActivity) ELSE {MsgActExec}
  /\ CDSData' \in {CDSData, [CDSData EXCEPT !.ResetsPerformed =
                               IF @ < CDSData.MaxResets THEN @ + 1 ELSE @]}

StartCycle ==
  /\ pc = "cycle" /\ pc' = "commands"
  /\ \E uploaded \in SUBSET (Tables \ ready) : ready' = ready \cup uploaded
  /\ XCTable' \in Acquired("XCT", XCTable, ValidXCTables)
  /\ EMTable' \in Acquired("EMT", EMTable, ValidEMTables)
  /\ \E gone \in SUBSET LostTables :
       AcquirePointers((Tables \ ready') \cup gone, Current, loaded, told)
  /\ MonitorsAct
  /\ hk' = NoPacket
  /\ UNCHANGED <<counts, CDSState, handled>>

(***************************************************************************)
(* The command handlers.  Those of the monitors do what HSAppMon,          *)
(* HSEventMon, HSUtil and HSApp say of them besides.                       *)
(***************************************************************************)
BadCount(n) == n + 1   \* of more than 8 bits

Count(n) == (n + 1) % (UINT8_MAX + 1)

Accept == CmdCount' = Count(CmdCount) /\ UNCHANGED CmdErrCount
Reject == CmdErrCount' = Count(CmdErrCount) /\ UNCHANGED CmdCount

HS_NoopCmd == Accept /\ UNCHANGED <<activity, Current, CDSData>>

HS_ResetCounters == CmdCount' = 0 /\ CmdErrCount' = 0 /\ EventsMonitoredCount' = 0 /\ MsgActExec' = 0
HS_ResetCmd == HS_ResetCounters /\ UNCHANGED <<Current, CDSData>>

SetState(part, state) ==
  /\ Accept
  /\ Current' = [Current EXCEPT ![part] = state]
  /\ UNCHANGED <<activity, CDSData>>

(* A call that subscribes or unsubscribes fails.                           *)
BadSubscriptionFails(state) ==   \* the state is set before the calls
  /\ Current["EventMon"] # state
  /\ Reject
  /\ Current' = [Current EXCEPT !["EventMon"] = state]
  /\ UNCHANGED <<activity, CDSData>>

SubscriptionFails(state) ==
  /\ Current["EventMon"] # state
  /\ Reject
  /\ UNCHANGED <<activity, Current, CDSData>>

HS_EnableAppMonCmd     == SetState("AppMon", HS_STATE_ENABLED)
HS_DisableAppMonCmd    == SetState("AppMon", HS_STATE_DISABLED)
HS_EnableEventMonCmd   == SetState("EventMon", HS_STATE_ENABLED) \/ SubscriptionFails(HS_STATE_ENABLED)
HS_DisableEventMonCmd  == SetState("EventMon", HS_STATE_DISABLED) \/ SubscriptionFails(HS_STATE_DISABLED)
HS_EnableAlivenessCmd  == SetState("Aliveness", HS_STATE_ENABLED)
HS_DisableAlivenessCmd == SetState("Aliveness", HS_STATE_DISABLED)
HS_EnableCpuHogCmd     == SetState("CPUHog", HS_STATE_ENABLED)
HS_DisableCpuHogCmd    == SetState("CPUHog", HS_STATE_DISABLED)

HS_ResetResetsPerformedCmd ==
  /\ Accept
  /\ CDSData' = [CDSData EXCEPT !.ResetsPerformed = 0]
  /\ UNCHANGED <<activity, Current>>

HS_SetMaxResetsCmd ==
  /\ Accept
  /\ \E w \in Words : CDSData' = [CDSData EXCEPT !.MaxResets = w]
  /\ UNCHANGED <<activity, Current>>

HS_CMD(cc) ==
  \/ cc = HS_NOOP_CC /\ HS_NoopCmd
  \/ cc = HS_RESET_CC /\ HS_ResetCmd
  \/ cc = HS_ENABLE_APP_MON_CC /\ HS_EnableAppMonCmd
  \/ cc = HS_DISABLE_APP_MON_CC /\ HS_DisableAppMonCmd
  \/ cc = HS_ENABLE_EVENT_MON_CC /\ HS_EnableEventMonCmd
  \/ cc = HS_DISABLE_EVENT_MON_CC /\ HS_DisableEventMonCmd
  \/ cc = HS_ENABLE_ALIVENESS_CC /\ HS_EnableAlivenessCmd
  \/ cc = HS_DISABLE_ALIVENESS_CC /\ HS_DisableAlivenessCmd
  \/ cc = HS_RESET_RESETS_PERFORMED_CC /\ HS_ResetResetsPerformedCmd
  \/ cc = HS_SET_MAX_RESETS_CC /\ HS_SetMaxResetsCmd
  \/ cc = HS_ENABLE_CPU_HOG_CC /\ HS_EnableCpuHogCmd
  \/ cc = HS_DISABLE_CPU_HOG_CC /\ HS_DisableCpuHogCmd

(***************************************************************************)
(* Housekeeping.  CFE ES answers for the applications and the counters in  *)
(* running; an execution count is shown as the resource it is of.          *)
(***************************************************************************)
StatusFlags ==
  {flag \in {"HS_LOADED_XCT", "HS_LOADED_MAT", "HS_LOADED_AMT", "HS_LOADED_EMT", "HS_CDS_IN_USE"} :
     \/ flag = "HS_LOADED_XCT" /\ loaded["XCT"] = HS_STATE_ENABLED
     \/ flag = "HS_LOADED_MAT" /\ loaded["MAT"] = HS_STATE_ENABLED
     \/ flag = "HS_LOADED_AMT" /\ loaded["AMT"] = HS_STATE_ENABLED
     \/ flag = "HS_LOADED_EMT" /\ loaded["EMT"] = HS_STATE_ENABLED
     \/ flag = "HS_CDS_IN_USE" /\ CDSState = HS_STATE_ENABLED}

InvalidEventMonCount(running) ==
  Cardinality({e \in EMTIndex : /\ EMTable[e].ActionType # HS_EMT_ACT_NOACT
                                /\ EMTable[e].AppName \notin running})

XCTypes == {HS_XCT_TYPE_APP_MAIN, HS_XCT_TYPE_APP_CHILD, HS_XCT_TYPE_DEVICE, HS_XCT_TYPE_ISR}

BadExeCounts(running) ==   \* whether the table is loaded is not looked at
  [i \in XCTIndex |-> IF XCTable[i].ResourceType \in XCTypes /\ XCTable[i].ResourceName \in running
                      THEN XCTable[i].ResourceName ELSE HS_INVALID_EXECOUNT]

ExeCounts(running) ==
  [i \in XCTIndex |-> IF /\ loaded["XCT"] = HS_STATE_ENABLED
                         /\ XCTable[i].ResourceType \in XCTypes
                         /\ XCTable[i].ResourceName \in running
                      THEN XCTable[i].ResourceName ELSE HS_INVALID_EXECOUNT]

Names == {XCTable[i].ResourceName : i \in XCTIndex} \cup {EMTable[e].AppName : e \in EMTIndex}

HS_SendHkCmd ==
  /\ \E running \in SUBSET Names :
       hk' = [CmdCount |-> CmdCount, CmdErrCount |-> CmdErrCount, Current |-> Current,
              CDSData |-> CDSData, EventsMonitoredCount |-> EventsMonitoredCount,
              MsgActExec |-> MsgActExec, InvalidEventMonCount |-> InvalidEventMonCount(running),
              StatusFlags |-> StatusFlags, ExeCounts |-> ExeCounts(running)]
  /\ UNCHANGED <<counts, activity, Current, CDSData>>

(***************************************************************************)
(* Dispatch.  A build has HS_AppPipe or, with EDS, HS_TaskPipe: the status *)
(* of the generated dispatcher says what is wrong with a message.          *)
(***************************************************************************)
Ignore == hk' = NoPacket /\ UNCHANGED <<counts, activity, Current, CDSData>>
Refuse == hk' = NoPacket /\ Reject /\ UNCHANGED <<activity, Current, CDSData>>

HS_VerifyMsgLength(msg) == msg.length = "right"

(* A housekeeping request of the wrong length is not counted.              *)
BadWrongLength(msg) == Refuse   \* it is

WrongLength(msg) ==
  \/ msg.mid = "HS_SEND_HK_MID" /\ Ignore
  \/ msg.mid # "HS_SEND_HK_MID" /\ Refuse

Dispatched(msg) ==
  \/ msg.mid = "HS_SEND_HK_MID" /\ HS_SendHkCmd
  \/ msg.mid = "HS_CMD_MID" /\ HS_CMD(msg.cc) /\ hk' = NoPacket

UnknownCode(msg) == msg.mid = "HS_CMD_MID" /\ msg.cc > HS_DISABLE_CPU_HOG_CC

HS_AppPipe(msg) ==
  \/ msg.mid = "unknown" /\ Refuse
  \/ UnknownCode(msg) /\ Refuse
  \/ /\ msg.mid # "unknown" /\ ~UnknownCode(msg)
     /\ \/ HS_VerifyMsgLength(msg) /\ Dispatched(msg)
        \/ ~HS_VerifyMsgLength(msg) /\ WrongLength(msg)

EdsStatus(msg) ==
  IF msg.mid = "unknown" THEN "CFE_STATUS_UNKNOWN_MSG_ID"
  ELSE IF UnknownCode(msg) THEN "CFE_STATUS_BAD_COMMAND_CODE"
  ELSE IF msg.length = "wrong" THEN "CFE_STATUS_WRONG_MSG_LENGTH"
  ELSE "CFE_SUCCESS"

HS_TaskPipe(msg) ==
  LET Status == EdsStatus(msg)
  IN  \/ Status = "CFE_SUCCESS" /\ Dispatched(msg)
      \/ Status = "CFE_STATUS_UNKNOWN_MSG_ID" /\ Refuse
      \/ Status = "CFE_STATUS_WRONG_MSG_LENGTH" /\ WrongLength(msg)
      \/ Status = "CFE_STATUS_BAD_COMMAND_CODE" /\ Refuse

IsReset(msg) == msg.mid = "HS_CMD_MID" /\ msg.cc = HS_RESET_CC /\ msg.length = "right"

Receive(msg) ==
  /\ pc = "commands"
  /\ HS_AppPipe(msg) \/ HS_TaskPipe(msg)
  /\ handled' = CASE msg.mid = "HS_SEND_HK_MID" -> handled
                  [] IsReset(msg) -> 0
                  [] OTHER -> Count(handled)
  /\ UNCHANGED <<pc, CDSState, tables>>

(* The pipe is empty, and the cycle ends; or it cannot be read, and HS     *)
(* ends, to be restarted.                                                  *)
EndOfCommands(next) ==
  /\ pc = "commands" /\ pc' = next
  /\ hk' = NoPacket
  /\ UNCHANGED <<counts, activity, Current, CDSData, CDSState, tables, handled>>

NoMessage == EndOfCommands("cycle")
ReceiveFails == EndOfCommands("exited")

CmdNext ==
  \/ HS_AppInit \/ StartCycle
  \/ \E msg \in Messages : Receive(msg)
  \/ NoMessage \/ ReceiveFails \/ RestartHS

CmdSpec == CmdInit /\ [][CmdNext]_cmdVars
-----------------------------------------------------------------------------
Packets ==
  [CmdCount : 0 .. UINT8_MAX, CmdErrCount : 0 .. UINT8_MAX, Current : [Parts -> HS_STATES],
   CDSData : [ResetsPerformed : Words, MaxResets : Words],
   EventsMonitoredCount : 0 .. MaxActivity, MsgActExec : 0 .. MaxActivity,
   InvalidEventMonCount : 0 .. HS_MAX_MONITORED_EVENTS,
   StatusFlags : SUBSET {"HS_LOADED_XCT", "HS_LOADED_MAT", "HS_LOADED_AMT", "HS_LOADED_EMT",
                         "HS_CDS_IN_USE"},
   ExeCounts : [XCTIndex -> {HS_INVALID_EXECOUNT} \cup Names]]

(* Types: in particular the 8-bit counters wrap.                           *)
CmdTypeOK ==
  /\ pc \in {"start", "cycle", "commands", "exited"}
  /\ CmdCount \in 0 .. UINT8_MAX /\ CmdErrCount \in 0 .. UINT8_MAX
  /\ EventsMonitoredCount \in 0 .. MaxActivity /\ MsgActExec \in 0 .. MaxActivity
  /\ Current \in [Parts -> HS_STATES]
  /\ CDSData \in [ResetsPerformed : Words, MaxResets : Words]
  /\ CDSState \in HS_STATES
  /\ loaded \in [Tables -> HS_STATES] /\ ready \subseteq Tables
  /\ XCTable \in {EmptyXCT, HS_ExeCount_Tbl} \cup XCTables
  /\ EMTable \in {EmptyEMT, HS_EventMon_Tbl} \cup EMTables
  /\ hk \in Packets \cup {NoPacket}
  /\ handled \in 0 .. UINT8_MAX
  /\ lost \subseteq Tables /\ told \subseteq lost

(* Every command is counted once, as executed or as refused, whichever     *)
(* dispatcher or handler finds it wrong, and no housekeeping request is:   *)
(* the two counters, which wrap, add up to the commands handled since they *)
(* were cleared.                                                           *)
EveryCommandCounted == (CmdCount + CmdErrCount) % (UINT8_MAX + 1) = handled

(* What housekeeping shows of states and limits never changes behind the   *)
(* counters: among the commands of a cycle, only one counted as executed   *)
(* changes them, never one that was refused or failed.                     *)
OnlyExecutedCommandsAct ==
  [][pc = "commands" /\ pc' = "commands" /\ <<Current, CDSData>>' # <<Current, CDSData>>
       => CmdCount' = Count(CmdCount) /\ CmdErrCount' = CmdErrCount]_cmdVars

(* A packet shows an execution count only while its table is loaded: not   *)
(* before it ever was, and not from an image HS can no longer get.  Every  *)
(* count shown is of the resource named in its own slot.                   *)
CountsOfLoadedTable ==
  hk # NoPacket =>
    \A i \in XCTIndex : hk.ExeCounts[i] # HS_INVALID_EXECOUNT =>
      /\ "HS_LOADED_XCT" \in hk.StatusFlags /\ "XCT" \notin lost
      /\ hk.ExeCounts[i] = XCTable[i].ResourceName

(* Validation lets through only resource types that housekeeping knows,    *)
(* but for those of which it sees no more than the lower 16 bits: such an  *)
(* entry passes by what these say, and its count is never shown.           *)
UnknownTypesAreTruncated ==
  \A i \in XCTIndex :
    LET type == XCTable[i].ResourceType
    IN  type \notin XCTypes \cup {HS_XCT_TYPE_NOTYPE} =>
          /\ type >= 65536 /\ type % 65536 \in XCTypes \cup {HS_XCT_TYPE_NOTYPE}
          /\ hk # NoPacket => hk.ExeCounts[i] = HS_INVALID_EXECOUNT

(* No table goes missing in silence.  The flags that keep HS from          *)
(* reporting the same outage in every cycle are set again when the table   *)
(* is back, so that the next outage is reported too.                       *)
OutageReported == lost \subseteq told
=============================================================================
