--------------------------- MODULE HSEventMonProofs ---------------------------
(***************************************************************************)
(* The Event Monitor, for every table, every pipe depth, every load of     *)
(* events and any failing calls.                                           *)
(***************************************************************************)
EXTENDS HSEventMon, HSMsgActsProofs, SequenceTheorems

(***************************************************************************)
(* The message actions in the Event Monitor are those of HSMsgActs         *)
(***************************************************************************)
LEMMA SendsAsSpecified ==
  ASSUME NEW m, DoMsgAct(m)
  PROVE  [MATNext]_matVars
  BY DEF DoMsgAct, SendMsgAct, CanSend, MATNext

LEMMA GoneRestarts == Gone => MATNext
  BY DEF Gone, MATNext

LEMMA MATStep == [EMNext]_emVars => [MATNext]_matVars
<1> SUFFICES ASSUME [EMNext]_emVars PROVE [MATNext]_matVars
  OBVIOUS
<1>1. CASE HS_TblInit \/ StartCycle
  BY <1>1 DEF HS_TblInit, StartCycle, MATStartCycle, MATNext
<1>2. CASE Startup \/ StartEvents \/ Receive \/ NoMessage \/ EndCycle
  BY <1>2 DEF Startup, StartEvents, Receive, NoMessage, EndCycle
<1>3. CASE StartupFails \/ ReceiveFails \/ RestartHS
  BY <1>3, GoneRestarts DEF StartupFails, ReceiveFails, RestartHS, ExitApp
<1>4. CASE HS_MonitorEvent
  <2>1. PICK e \in EMTIndex :
          \/ SkipEntry(e) \/ EventProcReset(e) \/ EventProcResetFails(e) \/ ResetLimitReached(e)
          \/ EventAppRestart(e) \/ EventAppDelete(e) \/ EventMessage(e)
    BY <1>4 DEF HS_MonitorEvent
  <2>2. CASE EventMessage(e)
    BY <2>2, SendsAsSpecified DEF EventMessage
  <2>3. CASE EventProcReset(e)
    BY <2>3, GoneRestarts DEF EventProcReset
  <2>4. CASE SkipEntry(e) \/ EventProcResetFails(e) \/ ResetLimitReached(e)
             \/ EventAppRestart(e) \/ EventAppDelete(e)
    BY <2>4 DEF SkipEntry, EventProcResetFails, ResetLimitReached, EventAppRestart, EventAppDelete
  <2> QED
    BY <2>1, <2>2, <2>3, <2>4
<1>5. CASE AppMonMessage
  BY <1>5 DEF AppMonMessage, MATNext
<1>6. CASE \/ HS_EnableEventMonCmd \/ EnableFails \/ HS_DisableEventMonCmd \/ DisableFails
           \/ ResetsCmd \/ SendEvent \/ ChangeFormat
  BY <1>6 DEF HS_EnableEventMonCmd, EnableFails, HS_DisableEventMonCmd, DisableFails, ResetsCmd,
              CmdUnchanged, SendEvent, ChangeFormat
<1>7. CASE UNCHANGED emVars
  BY <1>7 DEF emVars
<1> QED
  BY <1>1, <1>2, <1>3, <1>4, <1>5, <1>6, <1>7 DEF EMNext, HSStep

(* Every behaviour of the Event Monitor is one of the message actions:     *)
(* what is proved of those holds here.                                     *)
THEOREM EventMonSendsAsSpecified == EMSpec => MATSpec
<1>1. EMInit => MATInit
  BY DEF EMInit
<1> QED
  BY <1>1, MATStep, PTL DEF EMSpec, MATSpec

(***************************************************************************)
(* Where HS is, the states and the subscriptions                           *)
(***************************************************************************)
StateTypes ==
  /\ emPC \in {"start", "startup", "cycle", "appmon", "events", "commands"}
  /\ CurrentEventMonState \in HS_STATES /\ EventMonLoaded \in HS_STATES
  /\ EMTable \in EMTables \cup {EmptyEMT} /\ EMTReady \in BOOLEAN
  /\ subscriptions \subseteq Formats /\ EventFormat \in Formats
  /\ EntryIndex \in EMTIndex
  /\ resetsLeft \in 0 .. MaxResetsLeft
  /\ sent \in 0 .. EventLoad
  /\ drained \in BOOLEAN

(* Once the table of a cycle was checked, and until commands come, the     *)
(* monitor is enabled only with a table; events are taken only while it is *)
(* enabled.  Until the subscriptions are made the pipe hears nothing.      *)
StateInv ==
  /\ StateTypes
  /\ EnabledMonitorHearsShort
  /\ emPC \in {"appmon", "events"} /\ CurrentEventMonState = HS_STATE_ENABLED
       => EMTReady /\ EventMonLoaded = HS_STATE_ENABLED
  /\ emPC = "events" => CurrentEventMonState = HS_STATE_ENABLED
  /\ emPC \in {"start", "startup"} => subscriptions = {}

LEMMA Sizes ==
  /\ HS_MAX_MONITORED_EVENTS \in Nat \ {0} /\ 0 \in EMTIndex
  /\ HS_EVENT_PIPE_DEPTH \in Nat \ {0} /\ EventLoad \in Nat /\ MaxResetsLeft \in Nat
  BY TableSizes, EMTAssumption DEF EMTIndex

LEMMA StateInit == EMInit => StateInv
<1> SUFFICES ASSUME EMInit PROVE StateInv
  OBVIOUS
<1>1. EMTReady \in BOOLEAN /\ drained \in BOOLEAN
  BY DEF EMInit
<1>2. /\ CurrentEventMonState \in HS_STATES /\ EventMonLoaded \in HS_STATES
      /\ EMTable \in EMTables \cup {EmptyEMT}
      /\ subscriptions \subseteq Formats
  BY DEF EMInit, HS_STATES
<1>3. EntryIndex \in EMTIndex /\ sent \in 0 .. EventLoad /\ resetsLeft \in 0 .. MaxResetsLeft
  BY Sizes DEF EMInit
<1>4. emPC = "start" /\ subscriptions = {} /\ EventFormat \in Formats
  BY DEF EMInit
<1> QED
  BY <1>1, <1>2, <1>3, <1>4 DEF StateInv, StateTypes, EnabledMonitorHearsShort, Monitoring

LEMMA GoneState ==
  ASSUME Gone, EventFormat' \in Formats, resetsLeft' \in 0 .. MaxResetsLeft
  PROVE  StateInv'
<1>1. EMTReady' \in BOOLEAN /\ drained' \in BOOLEAN
  BY DEF Gone
<1>2. /\ CurrentEventMonState' \in HS_STATES /\ EventMonLoaded' \in HS_STATES
      /\ EMTable' \in EMTables \cup {EmptyEMT}
      /\ subscriptions' \subseteq Formats
  BY DEF Gone, HS_STATES
<1>3. EntryIndex' \in EMTIndex /\ sent' \in 0 .. EventLoad
  BY Sizes DEF Gone
<1>4. emPC' = "start" /\ subscriptions' = {}
  BY DEF Gone
<1> QED
  BY <1>1, <1>2, <1>3, <1>4 DEF StateInv, StateTypes, EnabledMonitorHearsShort, Monitoring

LEMMA NextEntryState ==
  ASSUME StateInv, NextEntry, resetsLeft' \in 0 .. MaxResetsLeft
  PROVE  StateInv'
<1>1. EntryIndex' \in EMTIndex
  BY Sizes DEF NextEntry, StateInv, StateTypes, EMTIndex
<1>2. UNCHANGED <<emPC, CurrentEventMonState, EMTable, EMTReady, EventMonLoaded, subscriptions,
                  EventFormat, sent, drained>>
  BY DEF NextEntry, emtVars
<1> QED
  BY <1>1, <1>2 DEF StateInv, StateTypes, EnabledMonitorHearsShort, Monitoring

LEMMA StateStep == StateInv /\ [EMNext]_emVars => StateInv'
<1> SUFFICES ASSUME StateInv, [EMNext]_emVars PROVE StateInv'
  OBVIOUS
<1> USE DEF StateInv, StateTypes, EnabledMonitorHearsShort, Monitoring
<1>1. CASE HS_TblInit
  BY <1>1 DEF HS_TblInit, HS_STATES, pipeVars, loopVars
<1>2. CASE Startup
  BY <1>2 DEF Startup, Formats, emtVars, loopVars
<1>3. CASE StartupFails \/ ReceiveFails \/ RestartHS
  BY <1>3, GoneState DEF StartupFails, ReceiveFails, RestartHS, ExitApp
<1>4. CASE StartCycle
  <2>1. /\ EMTable' \in EMTables \cup {EmptyEMT} /\ EMTReady' \in BOOLEAN
        /\ EventMonLoaded' \in HS_STATES /\ CurrentEventMonState' \in HS_STATES
        /\ subscriptions' \subseteq Formats
        /\ CurrentEventMonState' = HS_STATE_ENABLED =>
             /\ EMTReady' /\ EventMonLoaded' = HS_STATE_ENABLED
             /\ CurrentEventMonState = HS_STATE_ENABLED /\ subscriptions' = subscriptions
    <3>1. CASE EMTUpdated
      BY <3>1 DEF EMTUpdated, HS_STATES
    <3>2. CASE EMTAcquired
      BY <3>2 DEF EMTAcquired, HS_STATES
    <3>3. CASE EMTNotAcquired
      BY <3>3 DEF EMTNotAcquired, HS_STATES, HS_STATE_ENABLED, HS_STATE_DISABLED
    <3> QED
      BY <1>4, <3>1, <3>2, <3>3 DEF StartCycle
  <2>2. emPC = "cycle" /\ emPC' = "appmon" /\ sent' = 0 /\ UNCHANGED <<EventFormat, EntryIndex, resetsLeft>>
    BY <1>4 DEF StartCycle, loopVars
  <2>3. drained' \in BOOLEAN
    BY <1>4 DEF StartCycle
  <2> QED
    BY <2>1, <2>2, <2>3, Sizes
<1>5. CASE AppMonMessage
  BY <1>5 DEF AppMonMessage, emtVars, pipeVars, loopVars
<1>6. CASE StartEvents
  BY <1>6 DEF StartEvents, emtVars, pipeVars, loopVars
<1>7. CASE Receive
  BY <1>7 DEF Receive, emtVars
<1>8. CASE NoMessage \/ EndCycle
  BY <1>8 DEF NoMessage, EndCycle, emtVars, pipeVars, loopVars
<1>9. CASE HS_MonitorEvent
  <2>1. PICK e \in EMTIndex :
          \/ SkipEntry(e) \/ EventProcReset(e) \/ EventProcResetFails(e) \/ ResetLimitReached(e)
          \/ EventAppRestart(e) \/ EventAppDelete(e) \/ EventMessage(e)
    BY <1>9 DEF HS_MonitorEvent
  <2>2. resetsLeft' \in 0 .. MaxResetsLeft
    BY <2>1, Sizes DEF SkipEntry, EventProcReset, EventProcResetFails, ResetLimitReached,
                       EventAppRestart, EventAppDelete, EventMessage
  <2>3. CASE EventProcReset(e)
    BY <2>2, <2>3, GoneState DEF EventProcReset
  <2>4. CASE ~EventProcReset(e)
    BY <2>1, <2>2, <2>4, NextEntryState
       DEF SkipEntry, EventProcResetFails, ResetLimitReached, EventAppRestart, EventAppDelete, EventMessage
  <2> QED
    BY <2>3, <2>4
<1>10. CASE HS_EnableEventMonCmd \/ EnableFails
  BY <1>10 DEF HS_EnableEventMonCmd, EnableFails, CmdUnchanged, emtVars, loopVars, Formats, HS_STATES,
               HS_STATE_ENABLED, HS_STATE_DISABLED
<1>11. CASE HS_DisableEventMonCmd \/ DisableFails
  <2>1. /\ emPC = "commands" /\ emPC' = "commands"
        /\ UNCHANGED <<EMTable, EMTReady, EventMonLoaded, EventFormat, EntryIndex, resetsLeft, sent>>
    BY <1>11 DEF HS_DisableEventMonCmd, DisableFails, CmdUnchanged, emtVars, loopVars
  <2>2. CASE HS_DisableEventMonCmd
    <3>1. drained' \in BOOLEAN
      BY <2>2 DEF HS_DisableEventMonCmd
    <3>2. CurrentEventMonState' = HS_STATE_DISABLED /\ subscriptions' \subseteq Formats
      BY <2>2 DEF HS_DisableEventMonCmd
    <3> QED
      BY <2>1, <3>1, <3>2 DEF HS_STATES, HS_STATE_ENABLED, HS_STATE_DISABLED
  <2>3. CASE DisableFails
    BY <2>1, <2>3 DEF DisableFails
  <2> QED
    BY <1>11, <2>2, <2>3
<1>12. CASE ResetsCmd
  BY <1>12 DEF ResetsCmd, CmdUnchanged, emtVars, loopVars
<1>13. CASE SendEvent
  BY <1>13, Sizes DEF SendEvent, emtVars, loopVars
<1>14. CASE ChangeFormat
  BY <1>14 DEF ChangeFormat, emtVars, loopVars
<1>15. CASE UNCHANGED emVars
  BY <1>15 DEF emVars, emtVars, pipeVars, loopVars
<1> QED
  BY <1>1, <1>2, <1>3, <1>4, <1>5, <1>6, <1>7, <1>8, <1>9, <1>10, <1>11, <1>12, <1>13, <1>14, <1>15
     DEF EMNext, HSStep

LEMMA StateAlways == EMSpec => []StateInv
  BY StateInit, StateStep, PTL DEF EMSpec

(* Whichever calls fail, an enabled monitor is subscribed to short events. *)
THEOREM EnabledMonitorHearsShortEvents == EMSpec => []EnabledMonitorHearsShort
<1>1. StateInv => EnabledMonitorHearsShort
  BY DEF StateInv
<1> QED
  BY <1>1, StateAlways, PTL

(* Events are compared with a table that was read in this cycle.           *)
THEOREM EventsMeetLoadedTable == EMSpec => []MonitorsLoadedTable
<1>1. StateInv => MonitorsLoadedTable
  BY DEF StateInv, MonitorsLoadedTable
<1> QED
  BY <1>1, StateAlways, PTL

(***************************************************************************)
(* With calls to unsubscribe that succeed, an enabled monitor hears both   *)
(* formats; finding 5 shows that the hypothesis is needed.                 *)
(***************************************************************************)
LEMMA HearStep ==
  ASSUME "Unsubscribe" \notin EMFaults, StateInv, EnabledMonitorHears, [EMNext]_emVars
  PROVE  EnabledMonitorHears'
<1> USE DEF EnabledMonitorHears, Monitoring
<1>1. CASE HS_TblInit \/ Startup \/ StartupFails \/ ReceiveFails \/ RestartHS
  BY <1>1 DEF HS_TblInit, Startup, StartupFails, ReceiveFails, RestartHS, ExitApp, Gone
<1>2. CASE StartCycle
  BY <1>2 DEF StartCycle, EMTUpdated, EMTAcquired, EMTNotAcquired, HS_STATE_ENABLED, HS_STATE_DISABLED
<1>3. CASE AppMonMessage \/ StartEvents \/ Receive \/ NoMessage \/ EndCycle
  BY <1>3 DEF AppMonMessage, StartEvents, Receive, NoMessage, EndCycle, pipeVars,
              StateInv, StateTypes
<1>4. CASE HS_MonitorEvent
  BY <1>4 DEF HS_MonitorEvent, SkipEntry, EventProcReset, EventProcResetFails, ResetLimitReached,
              EventAppRestart, EventAppDelete, EventMessage, NextEntry, Gone
<1>5. CASE HS_EnableEventMonCmd \/ EnableFails
  BY <1>5 DEF HS_EnableEventMonCmd, EnableFails, CmdUnchanged, StateInv, StateTypes, HS_STATES,
              HS_STATE_ENABLED, HS_STATE_DISABLED
<1>6. CASE HS_DisableEventMonCmd \/ DisableFails
  BY <1>6 DEF HS_DisableEventMonCmd, DisableFails, EMMay, HS_STATE_ENABLED, HS_STATE_DISABLED
<1>7. CASE ResetsCmd \/ SendEvent \/ ChangeFormat
  BY <1>7 DEF ResetsCmd, CmdUnchanged, SendEvent, ChangeFormat
<1>8. CASE UNCHANGED emVars
  BY <1>8 DEF emVars, pipeVars
<1> QED
  BY <1>1, <1>2, <1>3, <1>4, <1>5, <1>6, <1>7, <1>8 DEF EMNext, HSStep

(* An enabled monitor hears the events of both formats.                    *)
THEOREM HearsUnlessUnsubscribeFails ==
  ASSUME "Unsubscribe" \notin EMFaults
  PROVE  EMSpec => []EnabledMonitorHears
<1>1. EMInit => EnabledMonitorHears
  BY DEF EMInit, EnabledMonitorHears, Monitoring
<1>2. StateInv /\ EnabledMonitorHears /\ [EMNext]_emVars => EnabledMonitorHears'
  BY HearStep
<1> QED
  BY <1>1, <1>2, StateAlways, PTL DEF EMSpec

(***************************************************************************)
(* What is in the pipe                                                     *)
(***************************************************************************)
PipeTypes ==
  /\ EventPipe \in Seq(Messages) /\ Len(EventPipe) <= HS_EVENT_PIPE_DEPTH
  /\ BufPtr \in Messages \cup {NoEvent}

NoOlder(pipe, bound) == \A i \in 1 .. Len(pipe) : pipe[i].age <= bound

LEMMA MessageTypes ==
  ASSUME NEW message \in Messages
  PROVE  /\ message.age \in 0 .. 2
         /\ \A n \in 0 .. 2 : /\ [message EXCEPT !.age = n] \in Messages
                              /\ [message EXCEPT !.age = n].age = n
<1>1. PICK v \in AnyEvent, k \in 0 .. 2 : message = [app |-> v.app, id |-> v.id, age |-> k]
  BY DEF Messages
<1>2. ASSUME NEW n \in 0 .. 2
      PROVE  /\ [message EXCEPT !.age = n] \in Messages
             /\ [message EXCEPT !.age = n].age = n
  <2>1. [message EXCEPT !.age = n] = [app |-> v.app, id |-> v.id, age |-> n]
    BY <1>1
  <2> QED
    BY <2>1 DEF Messages
<1> QED
  BY <1>1, <1>2

(* A pipe takes as much as it has room for, in order.                      *)
LEMMA PutTypes ==
  ASSUME NEW pipe \in Seq(Messages), NEW messages \in Seq(Messages),
         NEW bound \in Nat, NoOlder(pipe, bound), \A i \in 1 .. Len(messages) : messages[i].age = 0
  PROVE  /\ Put(pipe, messages) \in Seq(Messages)
         /\ Len(Put(pipe, messages)) <= HS_EVENT_PIPE_DEPTH
         /\ NoOlder(Put(pipe, messages), bound)
<1> DEFINE all == pipe \o messages
           n == IF Len(all) < HS_EVENT_PIPE_DEPTH THEN Len(all) ELSE HS_EVENT_PIPE_DEPTH
<1>1. /\ all \in Seq(Messages) /\ Len(all) = Len(pipe) + Len(messages) /\ Len(all) \in Nat
      /\ \A i \in 1 .. Len(all) : all[i] = IF i <= Len(pipe) THEN pipe[i] ELSE messages[i - Len(pipe)]
  BY ConcatProperties, LenProperties
<1>2. n \in Nat /\ n <= Len(all) /\ n <= HS_EVENT_PIPE_DEPTH
  BY <1>1, Sizes
<1>3. \A i \in 1 .. n : all[i] \in Messages /\ all[i].age <= bound
  <2> SUFFICES ASSUME NEW i \in 1 .. n PROVE all[i] \in Messages /\ all[i].age <= bound
    OBVIOUS
  <2>1. i \in 1 .. Len(all)
    BY <1>1, <1>2
  <2>2. all[i] \in Messages
    BY <1>1, <2>1, ElementOfSeq
  <2>3. CASE i <= Len(pipe)
    <3>1. i \in 1 .. Len(pipe) /\ all[i] = pipe[i]
      BY <1>1, <2>1, <2>3, LenProperties
    <3> QED
      BY <2>2, <3>1 DEF NoOlder
  <2>4. CASE ~(i <= Len(pipe))
    <3>1. i - Len(pipe) \in 1 .. Len(messages) /\ all[i] = messages[i - Len(pipe)]
      BY <1>1, <2>1, <2>4, LenProperties
    <3> QED
      BY <2>2, <3>1
  <2> QED
    BY <2>3, <2>4
<1>4. /\ SubSeq(all, 1, n) \in Seq(Messages) /\ Len(SubSeq(all, 1, n)) = n
      /\ \A i \in 1 .. n : SubSeq(all, 1, n)[i] = all[i]
  <2>1. \A i \in 1 .. n : all[i] \in Messages
    BY <1>3
  <2> HIDE DEF all, n
  <2>2. 1 \in Int /\ n \in Int
    BY <1>2
  <2>3. /\ SubSeq(all, 1, n) \in Seq(Messages)
        /\ Len(SubSeq(all, 1, n)) = IF 1 <= n THEN n - 1 + 1 ELSE 0
        /\ \A i \in 1 .. n - 1 + 1 : SubSeq(all, 1, n)[i] = all[1 + i - 1]
    BY <2>1, <2>2, SubSeqProperties
  <2> QED
    BY <1>2, <2>3
<1>5. Put(pipe, messages) = SubSeq(all, 1, n)
  BY DEF Put
<1> HIDE DEF all, n
<1> QED
  BY <1>2, <1>3, <1>4, <1>5 DEF NoOlder

(* The events of HS's own are new.                                         *)
LEMMA OwnTypes ==
  ASSUME NEW ids \in Seq({37} \cup 44 .. 49), SendOwn(ids),
         PipeTypes, NEW bound \in Nat, NoOlder(EventPipe, bound)
  PROVE  /\ EventPipe' \in Seq(Messages) /\ Len(EventPipe') <= HS_EVENT_PIPE_DEPTH
         /\ NoOlder(EventPipe', bound)
<1> DEFINE own == [i \in DOMAIN ids |-> [app |-> HS, id |-> ids[i], age |-> 0]]
<1>1. Len(ids) \in Nat /\ DOMAIN ids = 1 .. Len(ids) /\ \A i \in 1 .. Len(ids) : ids[i] \in {37} \cup 44 .. 49
  BY LenProperties, ElementOfSeq
<1>2. \A i \in 1 .. Len(ids) : own[i] \in Messages /\ own[i].age = 0
  <2> SUFFICES ASSUME NEW i \in 1 .. Len(ids) PROVE own[i] \in Messages /\ own[i].age = 0
    OBVIOUS
  <2> DEFINE v == [app |-> HS, id |-> ids[i]]
  <2>1. v \in AnyEvent
    BY <1>1 DEF AnyEvent, OwnEvents
  <2>2. own[i] = [app |-> v.app, id |-> v.id, age |-> 0]
    BY <1>1
  <2> QED
    BY <2>1, <2>2 DEF Messages
<1>3. own \in [1 .. Len(ids) -> Messages]
  BY <1>1, <1>2
<1>4. own \in Seq(Messages)
  BY <1>1, <1>3, SeqDef
<1>5. Len(own) = Len(ids)
  BY <1>1, <1>4, LenProperties
<1>6. EventPipe' = EventPipe \/ EventPipe' = Put(EventPipe, own)
  BY DEF SendOwn
<1> HIDE DEF own
<1> QED
  BY <1>2, <1>4, <1>5, <1>6, PutTypes DEF PipeTypes

(* One more cycle.                                                         *)
LEMMA AgeTypes ==
  ASSUME NEW pipe \in Seq(Messages), NEW bound \in 0 .. 1
  PROVE  LET aged == [i \in DOMAIN pipe |-> [pipe[i] EXCEPT !.age = IF @ = 2 THEN 2 ELSE @ + 1]]
         IN  /\ aged \in Seq(Messages) /\ Len(aged) = Len(pipe) /\ NoOlder(aged, 2)
             /\ NoOlder(pipe, bound) => NoOlder(aged, bound + 1)
<1> DEFINE aged == [i \in DOMAIN pipe |-> [pipe[i] EXCEPT !.age = IF @ = 2 THEN 2 ELSE @ + 1]]
<1>1. Len(pipe) \in Nat /\ DOMAIN pipe = 1 .. Len(pipe) /\ \A i \in 1 .. Len(pipe) : pipe[i] \in Messages
  BY LenProperties, ElementOfSeq
<1>2. \A i \in 1 .. Len(pipe) : /\ aged[i] \in Messages
                                /\ aged[i].age = IF pipe[i].age = 2 THEN 2 ELSE pipe[i].age + 1
  <2> SUFFICES ASSUME NEW i \in 1 .. Len(pipe)
               PROVE  /\ aged[i] \in Messages
                      /\ aged[i].age = IF pipe[i].age = 2 THEN 2 ELSE pipe[i].age + 1
    OBVIOUS
  <2> DEFINE n == IF pipe[i].age = 2 THEN 2 ELSE pipe[i].age + 1
  <2>1. pipe[i] \in Messages /\ pipe[i].age \in 0 .. 2
    BY <1>1, MessageTypes
  <2>2. n \in 0 .. 2
    BY <2>1
  <2>3. aged[i] = [pipe[i] EXCEPT !.age = n]
    BY <1>1
  <2>4. \A k \in 0 .. 2 : /\ [pipe[i] EXCEPT !.age = k] \in Messages
                          /\ [pipe[i] EXCEPT !.age = k].age = k
    BY <2>1, MessageTypes
  <2>5. [pipe[i] EXCEPT !.age = n] \in Messages /\ [pipe[i] EXCEPT !.age = n].age = n
    <3> HIDE DEF n
    <3> QED
      BY <2>2, <2>4
  <2> QED
    BY <2>3, <2>5
<1>3. aged \in [1 .. Len(pipe) -> Messages]
  BY <1>1, <1>2
<1>4. aged \in Seq(Messages) /\ Len(aged) = Len(pipe)
  <2>1. aged \in Seq(Messages)
    BY <1>1, <1>3, SeqDef
  <2>2. DOMAIN aged = 1 .. Len(pipe)
    BY <1>1
  <2> QED
    BY <1>1, <2>1, <2>2, LenProperties
<1>5. \A i \in 1 .. Len(pipe) : pipe[i].age \in 0 .. 2
  BY <1>1, MessageTypes
<1> HIDE DEF aged
<1>6. NoOlder(aged, 2)
  BY <1>2, <1>4, <1>5 DEF NoOlder
<1>7. NoOlder(pipe, bound) => NoOlder(aged, bound + 1)
  BY <1>2, <1>4, <1>5 DEF NoOlder
<1>8. /\ aged \in Seq(Messages) /\ Len(aged) = Len(pipe) /\ NoOlder(aged, 2)
      /\ NoOlder(pipe, bound) => NoOlder(aged, bound + 1)
  BY <1>4, <1>6, <1>7
<1> QED
  BY <1>8 DEF aged

(* How old an event in the pipe may be: without a gap in the monitor's     *)
(* work, only until the next cycle.                                        *)
Oldest == IF ~drained THEN 2 ELSE IF emPC \in {"appmon", "events"} THEN 1 ELSE 0

FreshInv ==
  /\ PipeTypes
  /\ NoOlder(EventPipe, Oldest)
  /\ drained /\ BufPtr # NoEvent => BufPtr.age <= 1
  /\ drained /\ emPC = "appmon" => CurrentEventMonState = HS_STATE_ENABLED

LEMMA NothingInPipe ==
  /\ <<>> \in Seq(Messages) /\ Len(<<>>) <= HS_EVENT_PIPE_DEPTH
  /\ \A bound : NoOlder(<<>>, bound)
<1>1. <<>> \in Seq(Messages) /\ Len(<<>>) = 0
  BY EmptySeq
<1> QED
  BY <1>1, Sizes DEF NoOlder

LEMMA FreshInit == EMInit => FreshInv
  BY NothingInPipe DEF EMInit, FreshInv, PipeTypes

LEMMA GoneFresh == Gone => FreshInv'
  BY NothingInPipe DEF Gone, FreshInv, PipeTypes

(* Steps that leave the pipe alone, and let no event become too old.       *)
LEMMA UntouchedFresh ==
  ASSUME FreshInv, UNCHANGED <<EventPipe, BufPtr>>, Oldest <= Oldest', drained' => drained,
         drained' /\ emPC' = "appmon" => CurrentEventMonState' = HS_STATE_ENABLED
  PROVE  FreshInv'
<1>1. \A i \in 1 .. Len(EventPipe) : EventPipe[i].age \in 0 .. 2
  BY LenProperties, ElementOfSeq, MessageTypes DEF FreshInv, PipeTypes
<1>2. Oldest \in 0 .. 2 /\ Oldest' \in 0 .. 2
  BY DEF Oldest
<1>3. NoOlder(EventPipe, Oldest')
  BY <1>1, <1>2 DEF FreshInv, NoOlder
<1> HIDE DEF Oldest
<1> QED
  BY <1>3 DEF FreshInv, PipeTypes, NoOlder

(* Entry by entry of the table.                                            *)
LEMMA MonitorEventFresh == FreshInv /\ StateInv /\ HS_MonitorEvent => FreshInv'
<1> SUFFICES ASSUME FreshInv, StateInv, HS_MonitorEvent PROVE FreshInv'
  OBVIOUS
<1>1. PICK e \in EMTIndex :
        \/ SkipEntry(e) \/ EventProcReset(e) \/ EventProcResetFails(e) \/ ResetLimitReached(e)
        \/ EventAppRestart(e) \/ EventAppDelete(e) \/ EventMessage(e)
  BY DEF HS_MonitorEvent
<1>2. CASE EventProcReset(e)
  BY <1>2, GoneFresh DEF EventProcReset
<1>3. CASE ~EventProcReset(e)
  <2>1. NextEntry /\ emPC = "events"
    BY <1>1, <1>3 DEF SkipEntry, EventProcResetFails, ResetLimitReached, EventAppRestart,
                      EventAppDelete, EventMessage, MatchWith, Comparing
  <2>2. EventPipe' = EventPipe \/ \E ids \in Seq({37} \cup 44 .. 49) : SendOwn(ids)
    <3>1. /\ <<HS_EVENTMON_PROC_ERR_EID>> \in Seq({37} \cup 44 .. 49)
          /\ <<HS_EVENTMON_PROC_ERR_EID, HS_RESET_LIMIT_ERR_EID>> \in Seq({37} \cup 44 .. 49)
          /\ <<HS_EVENTMON_RESTART_ERR_EID>> \in Seq({37} \cup 44 .. 49)
          /\ <<HS_EVENTMON_NOT_RESTARTED_ERR_EID>> \in Seq({37} \cup 44 .. 49)
          /\ <<HS_EVENTMON_RESTART_ERR_EID, HS_EVENTMON_NOT_RESTARTED_ERR_EID>> \in Seq({37} \cup 44 .. 49)
          /\ <<HS_EVENTMON_DELETE_ERR_EID>> \in Seq({37} \cup 44 .. 49)
          /\ <<HS_EVENTMON_NOT_DELETED_ERR_EID>> \in Seq({37} \cup 44 .. 49)
          /\ <<HS_EVENTMON_DELETE_ERR_EID, HS_EVENTMON_NOT_DELETED_ERR_EID>> \in Seq({37} \cup 44 .. 49)
          /\ <<HS_EVENTMON_MSGACTS_ERR_EID>> \in Seq({37} \cup 44 .. 49)
          /\ <<>> \in Seq({37} \cup 44 .. 49)
      BY DEF HS_RESET_LIMIT_ERR_EID, HS_EVENTMON_MSGACTS_ERR_EID, HS_EVENTMON_PROC_ERR_EID,
             HS_EVENTMON_RESTART_ERR_EID, HS_EVENTMON_NOT_RESTARTED_ERR_EID,
             HS_EVENTMON_DELETE_ERR_EID, HS_EVENTMON_NOT_DELETED_ERR_EID
    <3>2. CASE SkipEntry(e)
      BY <3>2 DEF SkipEntry
    <3>3. CASE EventProcResetFails(e) \/ ResetLimitReached(e)
      BY <3>1, <3>3 DEF EventProcResetFails, ResetLimitReached
    <3>4. CASE EventAppRestart(e) \/ EventAppDelete(e)
      BY <3>1, <3>4 DEF EventAppRestart, EventAppDelete
    <3>5. CASE EventMessage(e)
      BY <3>1, <3>5 DEF EventMessage
    <3> QED
      BY <1>1, <1>3, <3>2, <3>3, <3>4, <3>5
  <2>3. Oldest \in Nat /\ Oldest' = Oldest /\ drained' = drained /\ emPC' = "events"
    BY <2>1 DEF Oldest, NextEntry
  <2>4. /\ EventPipe' \in Seq(Messages) /\ Len(EventPipe') <= HS_EVENT_PIPE_DEPTH
        /\ NoOlder(EventPipe', Oldest)
    <3> HIDE DEF Oldest
    <3>1. CASE EventPipe' = EventPipe
      BY <3>1 DEF FreshInv, PipeTypes
    <3>2. CASE \E ids \in Seq({37} \cup 44 .. 49) : SendOwn(ids)
      BY <2>3, <3>2, OwnTypes DEF FreshInv
    <3> QED
      BY <2>2, <3>1, <3>2
  <2>5. BufPtr' \in {BufPtr, NoEvent}
    BY <2>1 DEF NextEntry
  <2> QED
    BY <2>3, <2>4, <2>5 DEF FreshInv, PipeTypes
<1> QED
  BY <1>2, <1>3

LEMMA FreshStep == FreshInv /\ StateInv /\ [EMNext]_emVars => FreshInv'
<1> SUFFICES ASSUME FreshInv, StateInv, [EMNext]_emVars PROVE FreshInv'
  OBVIOUS
<1>1. CASE HS_TblInit \/ Startup
  <2>1. /\ UNCHANGED <<EventPipe, BufPtr, drained>>
        /\ emPC \in {"start", "startup"} /\ emPC' \in {"startup", "cycle"}
    BY <1>1 DEF HS_TblInit, Startup, pipeVars, loopVars
  <2>2. Oldest' = Oldest /\ Oldest \in Nat
    BY <2>1 DEF Oldest
  <2> QED
    BY <2>1, <2>2, UntouchedFresh
<1>2. CASE StartupFails \/ ReceiveFails \/ RestartHS
  BY <1>2, GoneFresh DEF StartupFails, ReceiveFails, RestartHS, ExitApp
<1>3. CASE StartCycle
  <2>1. /\ emPC = "cycle" /\ emPC' = "appmon" /\ BufPtr' = BufPtr
        /\ EventPipe' = [i \in DOMAIN EventPipe |->
                           [EventPipe[i] EXCEPT !.age = IF @ = 2 THEN 2 ELSE @ + 1]]
        /\ drained' = (drained /\ CurrentEventMonState' = HS_STATE_ENABLED)
    BY <1>3 DEF StartCycle, loopVars
  <2>2. /\ EventPipe' \in Seq(Messages) /\ Len(EventPipe') = Len(EventPipe)
        /\ NoOlder(EventPipe', 2)
        /\ NoOlder(EventPipe, 0) => NoOlder(EventPipe', 1)
    <3>1. EventPipe \in Seq(Messages) /\ 0 \in 0 .. 1 /\ 0 + 1 = 1
      BY DEF FreshInv, PipeTypes
    <3> QED
      BY <2>1, <3>1, AgeTypes
  <2>3. drained' => Oldest = 0 /\ Oldest' = 1
    BY <2>1 DEF Oldest
  <2>4. ~drained' => Oldest' = 2
    BY DEF Oldest
  <2>5. NoOlder(EventPipe', Oldest')
    <3> HIDE DEF Oldest
    <3> QED
      BY <2>2, <2>3, <2>4 DEF FreshInv
  <2> HIDE DEF Oldest
  <2> QED
    BY <2>1, <2>2, <2>5 DEF FreshInv, PipeTypes
<1>4. CASE AppMonMessage \/ StartEvents
  <2>1. UNCHANGED <<EventPipe, BufPtr, drained, CurrentEventMonState>>
    BY <1>4 DEF AppMonMessage, StartEvents, pipeVars, loopVars
  <2>2. CASE drained
    <3>1. emPC = "appmon" /\ emPC' \in {"appmon", "events"}
      BY <1>4, <2>2 DEF AppMonMessage, StartEvents, FreshInv
    <3>2. Oldest' = Oldest /\ Oldest \in Nat
      BY <2>1, <3>1 DEF Oldest
    <3> QED
      BY <2>1, <2>2, <3>1, <3>2, UntouchedFresh DEF FreshInv
  <2>3. CASE ~drained
    <3>1. Oldest' = Oldest /\ Oldest \in Nat
      BY <2>1, <2>3 DEF Oldest
    <3> QED
      BY <2>1, <2>3, <3>1, UntouchedFresh
  <2> QED
    BY <2>2, <2>3
<1>5. CASE Receive
  <2>1. /\ emPC = "events" /\ emPC' = "events" /\ drained' = drained /\ EventPipe # <<>>
        /\ BufPtr' = Head(EventPipe) /\ EventPipe' = Tail(EventPipe)
    BY <1>5 DEF Receive
  <2>2. Oldest' = Oldest /\ Oldest \in Nat /\ (drained => Oldest = 1)
    BY <2>1 DEF Oldest
  <2> HIDE DEF Oldest
  <2>3. /\ EventPipe \in Seq(Messages) /\ Len(EventPipe) \in Nat /\ Len(EventPipe) >= 1
        /\ Len(EventPipe) <= HS_EVENT_PIPE_DEPTH /\ NoOlder(EventPipe, Oldest)
    <3>1. EventPipe \in Seq(Messages) /\ Len(EventPipe) <= HS_EVENT_PIPE_DEPTH /\ NoOlder(EventPipe, Oldest)
      BY DEF FreshInv, PipeTypes
    <3> QED
      BY <2>1, <3>1, EmptySeq
  <2>4. /\ Head(EventPipe) \in Messages /\ Tail(EventPipe) \in Seq(Messages)
        /\ Len(Tail(EventPipe)) = Len(EventPipe) - 1
        /\ \A i \in 1 .. Len(Tail(EventPipe)) : Tail(EventPipe)[i] = EventPipe[i + 1]
    BY <2>1, <2>3, HeadTailProperties
  <2>5. Head(EventPipe) = EventPipe[1]
    BY <2>3
  <2>6. drained => Head(EventPipe).age <= 1
    BY <2>2, <2>3, <2>5 DEF NoOlder
  <2>7. NoOlder(Tail(EventPipe), Oldest)
    BY <2>2, <2>3, <2>4 DEF NoOlder
  <2>8. Len(Tail(EventPipe)) <= HS_EVENT_PIPE_DEPTH
    BY <2>3, <2>4, Sizes
  <2> QED
    BY <2>1, <2>2, <2>4, <2>6, <2>7, <2>8 DEF FreshInv, PipeTypes
<1>6. CASE NoMessage
  <2>1. EventPipe' = <<>> /\ BufPtr' = NoEvent /\ emPC' = "commands"
    BY <1>6 DEF NoMessage, pipeVars, loopVars
  <2> QED
    BY <2>1, NothingInPipe DEF FreshInv, PipeTypes
<1>7. CASE HS_MonitorEvent
  BY <1>7, MonitorEventFresh
<1>8. CASE \/ HS_EnableEventMonCmd \/ EnableFails \/ DisableFails \/ ResetsCmd \/ EndCycle
  <2>1. /\ UNCHANGED <<EventPipe, BufPtr, drained>>
        /\ emPC = "commands" /\ emPC' \in {"commands", "cycle"}
    BY <1>8 DEF HS_EnableEventMonCmd, EnableFails, DisableFails, ResetsCmd, EndCycle, CmdUnchanged,
                pipeVars, loopVars
  <2>2. Oldest' = Oldest /\ Oldest \in Nat
    BY <2>1 DEF Oldest
  <2> QED
    BY <2>1, <2>2, UntouchedFresh
<1>9. CASE HS_DisableEventMonCmd
  <2>1. /\ UNCHANGED <<EventPipe, BufPtr>> /\ drained' = FALSE
    BY <1>9 DEF HS_DisableEventMonCmd, CmdUnchanged, loopVars
  <2>2. Oldest <= Oldest'
    BY <2>1 DEF Oldest
  <2> QED
    BY <2>1, <2>2, UntouchedFresh
<1>10. CASE SendEvent
  <2>1. PICK v \in Events : EventPipe' = Put(EventPipe, <<[app |-> v.app, id |-> v.id, age |-> 0]>>)
    BY <1>10 DEF SendEvent
  <2>2. UNCHANGED <<emPC, BufPtr, drained, CurrentEventMonState>>
    BY <1>10 DEF SendEvent, loopVars
  <2> DEFINE message == [app |-> v.app, id |-> v.id, age |-> 0]
  <2>3. message \in Messages /\ message.age = 0
    BY DEF Messages, AnyEvent
  <2> HIDE DEF message
  <2>4. <<message>> \in Seq(Messages) /\ \A i \in 1 .. Len(<<message>>) : <<message>>[i].age = 0
    BY <2>3
  <2>5. EventPipe' = Put(EventPipe, <<message>>)
    BY <2>1 DEF message
  <2>6. Oldest \in Nat /\ Oldest' = Oldest
    BY <2>2 DEF Oldest
  <2>7. /\ EventPipe' \in Seq(Messages) /\ Len(EventPipe') <= HS_EVENT_PIPE_DEPTH
        /\ NoOlder(EventPipe', Oldest)
    <3> HIDE DEF Oldest
    <3> QED
      BY <2>4, <2>5, <2>6, PutTypes DEF FreshInv, PipeTypes
  <2> QED
    BY <2>2, <2>6, <2>7 DEF FreshInv, PipeTypes
<1>11. CASE ChangeFormat \/ UNCHANGED emVars
  <2>1. UNCHANGED <<emPC, EventPipe, BufPtr, drained, CurrentEventMonState>>
    BY <1>11 DEF ChangeFormat, loopVars, emVars, pipeVars
  <2>2. Oldest' = Oldest /\ Oldest \in Nat
    BY <2>1 DEF Oldest
  <2> QED
    BY <2>1, <2>2, UntouchedFresh DEF FreshInv
<1> QED
  BY <1>1, <1>2, <1>3, <1>4, <1>5, <1>6, <1>7, <1>8, <1>9, <1>10, <1>11 DEF EMNext, HSStep

LEMMA FreshAlways == EMSpec => []FreshInv
  BY FreshInit, FreshStep, StateAlways, PTL DEF EMSpec

(* While the monitor stays enabled, no event waits longer than to the next *)
(* cycle, whatever the depth of the pipe and the load.                     *)
THEOREM EventsAreFresh == EMSpec => []FreshWhileEnabled
<1>1. FreshInv => FreshWhileEnabled
  <2> SUFFICES ASSUME FreshInv, drained, emPC = "events"
               PROVE  /\ \A i \in DOMAIN EventPipe : EventPipe[i].age <= 1
                      /\ BufPtr # NoEvent => BufPtr.age <= 1
    BY DEF FreshWhileEnabled
  <2>1. Oldest = 1
    BY DEF Oldest
  <2> QED
    BY <2>1, LenProperties DEF FreshInv, PipeTypes, NoOlder
<1> QED
  BY <1>1, FreshAlways, PTL

(* Types: in particular the pipe never holds more than its depth.          *)
THEOREM EventMonTypeCorrect == EMSpec => []EMTypeOK
<1>1. MATInv /\ StateInv /\ FreshInv => EMTypeOK
  BY DEF MATInv, StateInv, StateTypes, FreshInv, PipeTypes, EMTypeOK
<1>2. EMSpec => []MATInv
  BY EventMonSendsAsSpecified, MATInvariant, PTL
<1> QED
  BY <1>1, <1>2, StateAlways, FreshAlways, PTL
=============================================================================
