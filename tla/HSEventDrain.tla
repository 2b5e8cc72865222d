----------------------------- MODULE HSEventDrain -----------------------------
(***************************************************************************)
(* How long the loop of HS_ProcessCommands takes to empty the event pipe.  *)
(* The actions of HS_MonitorEvent send events of HS's own into the pipe    *)
(* that is being emptied, so that the work left is not the length of the   *)
(* pipe: an event may bring others, and these others again.  The loop ends *)
(* when the table in use does not make HS act, in one step or several, on  *)
(* the event of an action with an action that sends that event again.      *)
(***************************************************************************)
EXTENDS HSEventMon

CONSTANT EventRank   \* a rank of each event, for each table: no part of HS

(* No chain of events that bring each other without a circle is longer:    *)
(* the actions of HS send seven, and only the first may be another one.    *)
HighestRank == 7

ASSUME RankAssumption ==
  /\ \A event \in Events : event = [app |-> event.app, id |-> event.id]
  /\ EventRank \in [EMTables \cup {EmptyEMT} -> [AnyEvent -> 0 .. HighestRank]]

Cost(cost, message) == cost[[app |-> message.app, id |-> message.id]]

(* The events HS may send when it takes an action.                         *)
Brings(action) ==
  {[app |-> HS, id |-> i] : i \in
     CASE action = HS_EMT_ACT_PROC_RESET  -> {HS_EVENTMON_PROC_ERR_EID, HS_RESET_LIMIT_ERR_EID}
       [] action = HS_EMT_ACT_APP_RESTART -> {HS_EVENTMON_RESTART_ERR_EID, HS_EVENTMON_NOT_RESTARTED_ERR_EID}
       [] action = HS_EMT_ACT_APP_DELETE  -> {HS_EVENTMON_DELETE_ERR_EID, HS_EVENTMON_NOT_DELETED_ERR_EID}
       [] action > HS_EMT_ACT_LAST_NONMSG -> {HS_EVENTMON_MSGACTS_ERR_EID}
       [] OTHER -> {}}

(* The tables do not feed themselves: whatever an action sends ranks below *)
(* every event it is taken on.                                             *)
RanksDescend ==
  \A image \in EMTables \cup {EmptyEMT}, event \in AnyEvent, e \in EMTIndex :
    Concerns(image[e], event) =>
      \A other \in Brings(image[e].ActionType) : EventRank[image][other] < EventRank[image][event]

(* An event is then as much work as comparing it with all entries when     *)
(* each brings two events of the rank below, and more.                     *)
CostFactor == 2 * HS_MAX_MONITORED_EVENTS + 2

CostOfRank[rank \in 0 .. HighestRank] ==
  IF rank = 0 THEN CostFactor ELSE CostFactor * CostOfRank[rank - 1]

EventCost ==
  [image \in EMTables \cup {EmptyEMT} |-> [event \in AnyEvent |-> CostOfRank[EventRank[image][event]]]]

(* The work of comparing an event with one entry, what it brings included. *)
EntryWork(cost, entry, event) ==
  1 + IF Concerns(entry, event) THEN SumFunctionOnSet(cost, Brings(entry.ActionType)) ELSE 0

(* ... and with the entries of a table from a given one on.                *)
TableWork(cost, image, event, first) ==
  SumFunctionOnSet([e \in EMTIndex |-> EntryWork(cost, image[e], event)], {e \in EMTIndex : e >= first})

(* The work left with the table in use: the event HS is at, and those in   *)
(* the pipe.                                                               *)
CostNow == EventCost[EMTable]

PipeWork(cost, pipe) == SumFunctionOnSet([i \in DOMAIN pipe |-> Cost(cost, pipe[i])], DOMAIN pipe)

Work == PipeWork(CostNow, EventPipe) +
          IF BufPtr = NoEvent THEN 0 ELSE TableWork(CostNow, EMTable, BufPtr, EntryIndex)

(* Whatever the actions put into the pipe, every step of the loop leaves   *)
(* less work, and an event that another task sends adds its own cost and   *)
(* no more: the loop ends after so many steps.                             *)
DrainShortens ==
  [][(emPC = "events" /\ emPC' = "events") =>
       IF HSStep THEN Work' < Work
       ELSE Work' <= Work \/ \E event \in Events : SendEvent /\ Work' <= Work + Cost(CostNow, event)]_emVars
=============================================================================
