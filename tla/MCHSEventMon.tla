---------------------------- MODULE MCHSEventMon ----------------------------
(* HSEventMon for TLC: events of one application and of HS, a pipe of two  *)
(* messages, tables of two entries, one message action.                    *)
EXTENDS HSEventDrain

CONSTANT a

MCEvents == {[app |-> a, id |-> 1], [app |-> a, id |-> 2]}

Entry(app, nul, id, action) ==
  [AppName |-> app, NullTerm |-> nul, EventID |-> id, ActionType |-> action]

(* Two actions on one event, in table order; a reset and a message on the  *)
(* event HS sends when the reset limit is reached; an entry not in use; a  *)
(* reset on the event that a message brings, which with the second table   *)
(* would make a circle but does not by itself; and a table that validation *)
(* rejects.                                                                *)
Images == { <<Entry(a, 0, 1, HS_EMT_ACT_APP_RESTART), Entry(a, 0, 1, 4)>>,
            <<Entry(a, 0, 2, HS_EMT_ACT_PROC_RESET), Entry(HS, 0, HS_RESET_LIMIT_ERR_EID, 4)>>,
            <<Entry(a, 0, 1, HS_EMT_ACT_APP_DELETE), Entry(a, 1, 0, 9)>>,
            <<Entry(HS, 0, HS_EVENTMON_MSGACTS_ERR_EID, HS_EMT_ACT_PROC_RESET), Entry(a, 0, 2, 4)>>,
            <<Entry(a, 0, 1, 9), Entry(a, 1, 1, 4)>> }

MCEMTables == {image \in {[e \in EMTIndex |-> i[e + 1]] : i \in Images} :
                 HS_ValidateEMTable(image) = "CFE_SUCCESS"}

MCMATables == {[m \in MATIndex |-> [EnableState |-> HS_MAT_STATE_ENABLED, Cooldown |-> 0,
                                    ValidId |-> TRUE, TooLong |-> FALSE]]}

(* The events of the application bring others that the table may react to, *)
(* and these others that it does not react to.                             *)
MCEventRank ==
  [image \in EMTables \cup {EmptyEMT} |->
     [v \in AnyEvent |-> IF v.app = a THEN 2
                         ELSE IF \E e \in EMTIndex : Concerns(image[e], v) THEN 1 ELSE 0]]

ASSUME RanksAreDescending == RanksDescend
=============================================================================
