------------------------------ MODULE HSEventMon ------------------------------
(***************************************************************************)
(* The Event Monitor: the subscriptions to event messages, the event pipe, *)
(* the loop of HS_ProcessCommands that empties it once a cycle, and        *)
(* HS_MonitorEvent, which compares an event with every entry of the Event  *)
(* Monitor Table.  Other tasks send events between any two steps of HS,    *)
(* and the actions of the monitor send events of HS's own into that pipe.  *)
(*                                                                         *)
(* Event Services sends every event in the format, long or short, in force *)
(* then; HS must subscribe to both.  A reset by the monitor ends the       *)
(* processor's run here; how it is counted is in the module HSApp.         *)
(* HS_AppInit is taken to succeed here, and any failing startup to end HS. *)
(*                                                                         *)
(* Definitions named Bad... are what the one after each of them would be   *)
(* with a bug; the properties must tell the two apart.                     *)
(***************************************************************************)
EXTENDS HSMsgActs, Sequences

CONSTANTS
  HS,                  \* the name of HS itself
  Events,              \* events that other tasks, or HS at other places, send
  EMTables,            \* the images of the Event Monitor Table that may be loaded
  HS_EVENT_PIPE_DEPTH,
  EventLoad,           \* bound: events sent from one wakeup of HS to the next
  MaxResetsLeft,       \* bound: resets the ground may allow at a time
  EMFaults,            \* the calls that may fail
  NoEvent

HS_RESET_LIMIT_ERR_EID            == 37
HS_EVENTMON_MSGACTS_ERR_EID       == 44
HS_EVENTMON_PROC_ERR_EID          == 45
HS_EVENTMON_RESTART_ERR_EID       == 46
HS_EVENTMON_NOT_RESTARTED_ERR_EID == 47
HS_EVENTMON_DELETE_ERR_EID        == 48
HS_EVENTMON_NOT_DELETED_ERR_EID   == 49

OwnEvents == {[app |-> HS, id |-> i] : i \in {37} \cup 44 .. 49}
AnyEvent == Events \cup OwnEvents

(* An event in the pipe carries its age: the wakeups of HS since it was    *)
(* sent, as far as 2 (a history; the code stores no age).                  *)
Messages == {[app |-> v.app, id |-> v.id, age |-> n] : v \in AnyEvent, n \in 0 .. 2}

ASSUME EMTAssumption ==
  /\ HS_EVENT_PIPE_DEPTH \in Nat \ {0} /\ EventLoad \in Nat /\ MaxResetsLeft \in Nat
  /\ \A image \in EMTables : /\ DOMAIN image = EMTIndex
                             /\ HS_ValidateEMTable(image) = "CFE_SUCCESS"
  /\ EMFaults \subseteq {"Subscribe", "Unsubscribe", "Receive", "ResetCFE"}
  /\ NoEvent \notin Messages

VARIABLES
  emPC,                 \* where HS is
  CurrentEventMonState, \* HS_AppData.CurrentEventMonState
  EventMonLoaded,       \* HS_AppData.EventMonLoaded
  EMTable,              \* what HS_AppData.EMTablePtr points to
  EMTReady,             \* Table Services holds a loaded table
  subscriptions,        \* the formats the event pipe is subscribed to
  EventFormat,          \* the format of Event Services
  EventPipe,
  BufPtr,               \* the event HS_MonitorEvent is at, or NoEvent ...
  EntryIndex,           \* ... and the entry it is compared with
  resetsLeft,           \* resets allowed and not yet performed (kept in the CDS)
  sent,                 \* events sent by others since HS last woke up
  drained               \* history: HS emptied the pipe when it last ran, and
                        \* has been enabled ever since

emtVars == <<EMTable, EMTReady, EventMonLoaded>>
pipeVars == <<subscriptions, EventFormat, EventPipe, sent>>
loopVars == <<BufPtr, EntryIndex>>
emVars == <<emPC, CurrentEventMonState, emtVars, pipeVars, loopVars, resetsLeft, drained, matVars>>

Formats == {"long", "short"}
EMMay(fault) == fault \in EMFaults

EmptyEMT == [e \in EMTIndex |-> [AppName |-> HS, NullTerm |-> 0, EventID |-> 0,
                                 ActionType |-> HS_EMT_ACT_NOACT]]

BadPut(pipe, messages) ==   \* a pipe without a limit
  pipe \o messages

(* The Software Bus drops what a full pipe cannot take.                    *)
Put(pipe, messages) ==
  LET all == pipe \o messages
  IN  SubSeq(all, 1, IF Len(all) < HS_EVENT_PIPE_DEPTH THEN Len(all) ELSE HS_EVENT_PIPE_DEPTH)

(* HS sends events of its own: they reach its own pipe.                    *)
SendOwn(ids) ==
  EventPipe' = IF EventFormat \in subscriptions
               THEN Put(EventPipe, [i \in DOMAIN ids |-> [app |-> HS, id |-> ids[i], age |-> 0]])
               ELSE EventPipe

(***************************************************************************)
(* Start: HS_AppInit with HS_TblInit, and HS_AppMain up to its loop        *)
(***************************************************************************)
EMInit ==
  /\ MATInit
  /\ emPC = "start"
  /\ CurrentEventMonState = HS_STATE_DISABLED /\ EventMonLoaded = HS_STATE_DISABLED
  /\ EMTable = EmptyEMT /\ EMTReady = FALSE
  /\ subscriptions = {} /\ EventFormat \in Formats
  /\ EventPipe = <<>> /\ sent = 0
  /\ BufPtr = NoEvent /\ EntryIndex = 0
  /\ resetsLeft \in 0 .. MaxResetsLeft
  /\ drained = TRUE

(* HS loses its memory and its pipe.                                       *)
Gone ==
  /\ MATRestart
  /\ emPC' = "start"
  /\ CurrentEventMonState' = HS_STATE_DISABLED /\ EventMonLoaded' = HS_STATE_DISABLED
  /\ EMTable' = EmptyEMT /\ EMTReady' = FALSE
  /\ subscriptions' = {}
  /\ EventPipe' = <<>> /\ sent' = 0
  /\ BufPtr' = NoEvent /\ EntryIndex' = 0
  /\ drained' = TRUE

(* HS exits after a failed call; ES may start it again.                    *)
ExitApp == Gone /\ UNCHANGED <<EventFormat, resetsLeft>>

(* HS_AcquirePointers for this table.                                      *)
EMTUpdated ==
  /\ \E image \in EMTables : EMTable' = image
  /\ EMTReady' = TRUE
  /\ EventMonLoaded' = HS_STATE_ENABLED
  /\ UNCHANGED <<CurrentEventMonState, subscriptions>>

EMTAcquired ==
  /\ EMTReady
  /\ EventMonLoaded' = HS_STATE_ENABLED
  /\ UNCHANGED <<EMTable, EMTReady, CurrentEventMonState, subscriptions>>

BadNotAcquired ==   \* the monitor stays enabled
  /\ EMTReady => TBLMayFail
  /\ EventMonLoaded' = HS_STATE_DISABLED
  /\ UNCHANGED <<EMTable, EMTReady, CurrentEventMonState, subscriptions>>

(* Without an address an enabled monitor unsubscribes from both formats,   *)
(* whether or not either call fails, and is disabled.                      *)
EMTNotAcquired ==
  /\ EMTReady => TBLMayFail
  /\ EventMonLoaded' = HS_STATE_DISABLED
  /\ CurrentEventMonState' = HS_STATE_DISABLED
  /\ subscriptions' \in IF CurrentEventMonState = HS_STATE_DISABLED THEN {subscriptions}
                        ELSE IF EMMay("Unsubscribe") THEN SUBSET subscriptions ELSE {{}}
  /\ UNCHANGED <<EMTable, EMTReady>>

(* The monitor is enabled by default, and disabled if its table cannot be  *)
(* loaded from its file.                                                   *)
HS_TblInit ==
  /\ emPC = "start"
  /\ MATUpdated \/ MATNotAcquired
  /\ EventMonLoaded' \in HS_STATES
  /\ \/ /\ \E image \in EMTables : EMTable' = image
        /\ EMTReady' = TRUE
        /\ EventMonLoaded' = HS_STATE_ENABLED
     \/ EventMonLoaded' = HS_STATE_DISABLED /\ UNCHANGED <<EMTable, EMTReady>>
  /\ CurrentEventMonState' = EventMonLoaded'
  /\ emPC' = "startup"
  /\ UNCHANGED <<pipeVars, loopVars, resetsLeft, drained>>

Startup ==
  /\ emPC = "startup"
  /\ subscriptions' = IF CurrentEventMonState = HS_STATE_ENABLED THEN Formats ELSE {}
  /\ emPC' = "cycle"
  /\ UNCHANGED <<CurrentEventMonState, emtVars, EventFormat, EventPipe, sent, loopVars,
                 resetsLeft, drained, matVars>>

StartupFails ==
  /\ emPC = "startup" /\ CurrentEventMonState = HS_STATE_ENABLED
  /\ EMMay("Subscribe")
  /\ ExitApp

(***************************************************************************)
(* One cycle                                                               *)
(***************************************************************************)
(* HS wakes up: HS_AcquirePointers, and the cooldowns.                     *)
StartCycle ==
  /\ emPC = "cycle"
  /\ MATStartCycle
  /\ EMTUpdated \/ EMTAcquired \/ EMTNotAcquired
  /\ EventPipe' = [i \in DOMAIN EventPipe |-> [EventPipe[i] EXCEPT !.age = IF @ = 2 THEN 2 ELSE @ + 1]]
  /\ sent' = 0
  /\ drained' = (drained /\ CurrentEventMonState' = HS_STATE_ENABLED)
  /\ emPC' = "appmon"
  /\ UNCHANGED <<EventFormat, loopVars, resetsLeft>>

(* The Application Monitor, which runs first, may send messages.           *)
AppMonMessage ==
  /\ emPC = "appmon"
  /\ \E m \in MATIndex : SendMsgAct(m)
  /\ UNCHANGED <<emPC, CurrentEventMonState, emtVars, pipeVars, loopVars, resetsLeft, drained>>

(* HS_ProcessCommands.                                                     *)
StartEvents ==
  /\ emPC = "appmon"
  /\ emPC' = IF CurrentEventMonState = HS_STATE_ENABLED THEN "events" ELSE "commands"
  /\ UNCHANGED <<CurrentEventMonState, emtVars, pipeVars, loopVars, resetsLeft, drained, matVars>>

Receive ==
  /\ emPC = "events" /\ BufPtr = NoEvent
  /\ EventPipe # <<>>
  /\ BufPtr' = Head(EventPipe)
  /\ EventPipe' = Tail(EventPipe)
  /\ UNCHANGED <<emPC, CurrentEventMonState, emtVars, subscriptions, EventFormat, sent,
                 EntryIndex, resetsLeft, drained, matVars>>

BadNoMessage ==   \* HS stops before the pipe is empty
  /\ emPC = "events" /\ BufPtr = NoEvent
  /\ emPC' = "commands"
  /\ drained' = TRUE
  /\ UNCHANGED <<CurrentEventMonState, emtVars, pipeVars, loopVars, resetsLeft, matVars>>

NoMessage ==
  /\ emPC = "events" /\ BufPtr = NoEvent
  /\ EventPipe = <<>>
  /\ emPC' = "commands"
  /\ drained' = TRUE
  /\ UNCHANGED <<CurrentEventMonState, emtVars, pipeVars, loopVars, resetsLeft, matVars>>

ReceiveFails ==
  /\ \/ emPC = "events" /\ BufPtr = NoEvent
     \/ emPC \in {"commands", "cycle"}
  /\ EMMay("Receive")
  /\ ExitApp

(***************************************************************************)
(* HS_MonitorEvent, one entry of the table at a time                       *)
(***************************************************************************)
Comparing(e) == emPC = "events" /\ BufPtr # NoEvent /\ EntryIndex = e

(* Whether an entry of the table is for an event.                          *)
Concerns(entry, event) ==
  /\ entry.ActionType # HS_EMT_ACT_NOACT
  /\ entry.EventID = event.id
  /\ entry.AppName = event.app

BadMatches(e) ==   \* any event of the application
  /\ EMTable[e].ActionType # HS_EMT_ACT_NOACT
  /\ EMTable[e].AppName = BufPtr.app

Matches(e) == Concerns(EMTable[e], BufPtr)

MatchWith(e, action) == Comparing(e) /\ Matches(e) /\ EMTable[e].ActionType = action

NextEntry ==
  /\ EntryIndex' = (EntryIndex + 1) % HS_MAX_MONITORED_EVENTS
  /\ BufPtr' = IF EntryIndex' = 0 THEN NoEvent ELSE BufPtr
  /\ UNCHANGED <<emPC, CurrentEventMonState, emtVars, subscriptions, EventFormat, sent, drained>>

SkipEntry(e) ==
  /\ Comparing(e) /\ ~Matches(e)
  /\ NextEntry
  /\ UNCHANGED <<EventPipe, resetsLeft, matVars>>

(* A reset is counted, also if CFE_ES_ResetCFE then fails and returns.     *)
EventProcReset(e) ==
  /\ MatchWith(e, HS_EMT_ACT_PROC_RESET)
  /\ resetsLeft > 0
  /\ resetsLeft' = resetsLeft - 1
  /\ Gone
  /\ UNCHANGED EventFormat

EventProcResetFails(e) ==
  /\ MatchWith(e, HS_EMT_ACT_PROC_RESET)
  /\ resetsLeft > 0 /\ EMMay("ResetCFE")
  /\ resetsLeft' = resetsLeft - 1
  /\ SendOwn(<<HS_EVENTMON_PROC_ERR_EID>>)
  /\ NextEntry
  /\ UNCHANGED matVars

ResetLimitReached(e) ==
  /\ MatchWith(e, HS_EMT_ACT_PROC_RESET)
  /\ resetsLeft = 0
  /\ SendOwn(<<HS_EVENTMON_PROC_ERR_EID, HS_RESET_LIMIT_ERR_EID>>)
  /\ NextEntry
  /\ UNCHANGED <<resetsLeft, matVars>>

(* The application is restarted, is not there, or fails to be restarted.   *)
EventAppRestart(e) ==
  /\ MatchWith(e, HS_EMT_ACT_APP_RESTART)
  /\ \E ids \in {<<HS_EVENTMON_RESTART_ERR_EID>>, <<HS_EVENTMON_NOT_RESTARTED_ERR_EID>>,
                 <<HS_EVENTMON_RESTART_ERR_EID, HS_EVENTMON_NOT_RESTARTED_ERR_EID>>} : SendOwn(ids)
  /\ NextEntry
  /\ UNCHANGED <<resetsLeft, matVars>>

EventAppDelete(e) ==
  /\ MatchWith(e, HS_EMT_ACT_APP_DELETE)
  /\ \E ids \in {<<HS_EVENTMON_DELETE_ERR_EID>>, <<HS_EVENTMON_NOT_DELETED_ERR_EID>>,
                 <<HS_EVENTMON_DELETE_ERR_EID, HS_EVENTMON_NOT_DELETED_ERR_EID>>} : SendOwn(ids)
  /\ NextEntry
  /\ UNCHANGED <<resetsLeft, matVars>>

EventMessage(e) ==
  LET m == EMTMsgActsIndex(EMTable[e].ActionType)
  IN  /\ Comparing(e) /\ Matches(e)
      /\ EMTable[e].ActionType > HS_EMT_ACT_LAST_NONMSG
      /\ DoMsgAct(m)
      /\ SendOwn(IF CanSend(m) /\ MATable[m].EnableState # HS_MAT_STATE_NOEVENT
                 THEN <<HS_EVENTMON_MSGACTS_ERR_EID>> ELSE <<>>)
      /\ NextEntry
      /\ UNCHANGED resetsLeft

HS_MonitorEvent ==
  \E e \in EMTIndex :
    \/ SkipEntry(e) \/ EventProcReset(e) \/ EventProcResetFails(e) \/ ResetLimitReached(e)
    \/ EventAppRestart(e) \/ EventAppDelete(e) \/ EventMessage(e)

(***************************************************************************)
(* Ground commands                                                         *)
(***************************************************************************)
CmdUnchanged == UNCHANGED <<emPC, emtVars, EventFormat, EventPipe, sent, loopVars, matVars>>

BadEnableEventMonCmd ==   \* it does not subscribe to short events
  /\ emPC = "commands"
  /\ CurrentEventMonState' = HS_STATE_ENABLED
  /\ subscriptions' = IF CurrentEventMonState = HS_STATE_DISABLED
                      THEN subscriptions \cup {"long"} ELSE subscriptions
  /\ CmdUnchanged /\ UNCHANGED <<resetsLeft, drained>>

(* HS_EnableEventMonCmd subscribes to long events, then to short ones, and *)
(* enables the monitor if both calls succeed.                              *)
HS_EnableEventMonCmd ==
  /\ emPC = "commands"
  /\ CurrentEventMonState' = HS_STATE_ENABLED
  /\ subscriptions' = IF CurrentEventMonState = HS_STATE_DISABLED THEN Formats ELSE subscriptions
  /\ CmdUnchanged /\ UNCHANGED <<resetsLeft, drained>>

EnableFails ==
  /\ emPC = "commands" /\ CurrentEventMonState = HS_STATE_DISABLED
  /\ EMMay("Subscribe")
  /\ subscriptions' \in {subscriptions, subscriptions \cup {"long"}}
  /\ CmdUnchanged /\ UNCHANGED <<CurrentEventMonState, resetsLeft, drained>>

HS_DisableEventMonCmd ==
  /\ emPC = "commands"
  /\ CurrentEventMonState' = HS_STATE_DISABLED
  /\ subscriptions' = IF CurrentEventMonState = HS_STATE_ENABLED THEN {} ELSE subscriptions
  /\ drained' = FALSE
  /\ CmdUnchanged /\ UNCHANGED resetsLeft

(* ... and likewise to disable it: a failure leaves the monitor enabled.   *)
DisableFails ==
  /\ emPC = "commands" /\ CurrentEventMonState = HS_STATE_ENABLED
  /\ EMMay("Unsubscribe")
  /\ subscriptions' \in {subscriptions, subscriptions \ {"long"}}
  /\ CmdUnchanged /\ UNCHANGED <<CurrentEventMonState, resetsLeft, drained>>

(* HS_ResetResetsPerformedCmd and HS_SetMaxResetsCmd.                      *)
ResetsCmd ==
  /\ emPC = "commands"
  /\ resetsLeft' \in 0 .. MaxResetsLeft
  /\ CmdUnchanged /\ UNCHANGED <<CurrentEventMonState, subscriptions, drained>>

EndCycle ==
  /\ emPC = "commands"
  /\ emPC' = "cycle"
  /\ UNCHANGED <<CurrentEventMonState, emtVars, pipeVars, loopVars, resetsLeft, drained, matVars>>

(***************************************************************************)
(* The rest of the system, between any two steps of HS                     *)
(***************************************************************************)
(* An event is sent.  One that the pipe is not subscribed to is lost.      *)
SendEvent ==
  /\ sent < EventLoad /\ sent' = sent + 1
  /\ EventFormat \in subscriptions
  /\ \E v \in Events : EventPipe' = Put(EventPipe, <<[app |-> v.app, id |-> v.id, age |-> 0]>>)
  /\ UNCHANGED <<emPC, CurrentEventMonState, emtVars, subscriptions, EventFormat, loopVars,
                 resetsLeft, drained, matVars>>

(* The ground selects the other format of Event Services.                  *)
ChangeFormat ==
  /\ EventFormat' \in Formats \ {EventFormat}
  /\ UNCHANGED <<emPC, CurrentEventMonState, emtVars, subscriptions, EventPipe, sent, loopVars,
                 resetsLeft, drained, matVars>>

(* The processor is reset, or ES restarts HS.                              *)
RestartHS == ExitApp

HSStep ==
  \/ HS_TblInit \/ Startup \/ StartupFails
  \/ StartCycle \/ StartEvents \/ Receive \/ NoMessage \/ ReceiveFails
  \/ HS_MonitorEvent \/ EndCycle

EMNext ==
  \/ HSStep
  \/ AppMonMessage
  \/ HS_EnableEventMonCmd \/ EnableFails \/ HS_DisableEventMonCmd \/ DisableFails \/ ResetsCmd
  \/ SendEvent \/ ChangeFormat \/ RestartHS

EMSpec == EMInit /\ [][EMNext]_emVars

(* HS is woken for every cycle and runs it to its end.                     *)
EMFairSpec == EMSpec /\ WF_emVars(HSStep)

(***************************************************************************)
(* Properties                                                              *)
(***************************************************************************)
EMTypeOK ==
  /\ MATTypeOK
  /\ emPC \in {"start", "startup", "cycle", "appmon", "events", "commands"}
  /\ CurrentEventMonState \in HS_STATES /\ EventMonLoaded \in HS_STATES
  /\ EMTable \in EMTables \cup {EmptyEMT} /\ EMTReady \in BOOLEAN
  /\ subscriptions \subseteq Formats /\ EventFormat \in Formats
  /\ EventPipe \in Seq(Messages) /\ Len(EventPipe) <= HS_EVENT_PIPE_DEPTH
  /\ BufPtr \in Messages \cup {NoEvent}
  /\ EntryIndex \in EMTIndex
  /\ resetsLeft \in 0 .. MaxResetsLeft
  /\ sent \in 0 .. EventLoad
  /\ drained \in BOOLEAN

Monitoring == emPC \notin {"start", "startup"} /\ CurrentEventMonState = HS_STATE_ENABLED

(* An enabled monitor receives the events of both formats.                 *)
EnabledMonitorHears == Monitoring => Formats \subseteq subscriptions

(* Whichever calls fail when startup, commands and table failures enable   *)
(* or disable the monitor, and in whatever order these come, an enabled    *)
(* monitor is subscribed to short events.  Whether that is all it needs is *)
(* up to the format events are sent in, see EnabledMonitorHears.           *)
EnabledMonitorHearsShort == Monitoring => "short" \in subscriptions

(* Events are only compared with a table that was read this cycle:         *)
(* commands come after events, so that the monitor is not enabled without  *)
(* its table being checked.                                                *)
MonitorsLoadedTable ==
  emPC = "events" => EMTReady /\ EventMonLoaded = HS_STATE_ENABLED

(* While the monitor stays enabled, no event waits longer than to the next *)
(* cycle, however many arrive while the pipe is being emptied.             *)
FreshWhileEnabled ==
  (drained /\ emPC = "events") =>
    /\ \A i \in DOMAIN EventPipe : EventPipe[i].age <= 1
    /\ BufPtr # NoEvent => BufPtr.age <= 1

(* Every event checked was sent since the cycle before.                    *)
OnlyPreviousCycleEvents == (emPC = "events" /\ BufPtr # NoEvent) => BufPtr.age <= 1

(* Emptying the pipe ends, although the actions taken put events of HS's   *)
(* own into it: HS goes on to its commands and the watchdog.  (A table     *)
(* that makes HS act on the events of its own actions may prevent it.)     *)
DrainEnds == []<>(emPC \in {"start", "commands"})
=============================================================================
