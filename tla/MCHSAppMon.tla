----------------------------- MODULE MCHSAppMon -----------------------------
(* HSAppMon and HSMsgActs for TLC: two applications, tables of two entries, *)
(* one message.                                                             *)
EXTENDS HSAppMon

CONSTANTS a, b

(* The pattern of the user's guide, restart an application and then reset   *)
(* the processor; two entries that share a message; a table with an entry   *)
(* not in use, and one that validation rejects.                             *)
Entry(app, nul, count, action) ==
  [AppName |-> app, NullTerm |-> nul, CycleCount |-> count, ActionType |-> action]

Images == { <<Entry(a, 0, 1, HS_AMT_ACT_APP_RESTART), Entry(a, 0, 2, HS_AMT_ACT_PROC_RESET)>>,
            <<Entry(a, 0, 2, 4), Entry(b, 0, 1, 4)>>,
            <<Entry(b, 1, 0, 9), Entry(a, 0, 1, HS_AMT_ACT_EVENT)>>,
            <<Entry(b, 1, 1, 4), Entry(a, 0, 1, 9)>> }

MCAMTables == {image \in {[e \in AMTIndex |-> i[e + 1]] : i \in Images} :
                 HS_ValidateAMTable(image) = "CFE_SUCCESS"}

(* Those of the tables that watch one application.                          *)
MCLiveAMTables == {image \in MCAMTables : \A e \in AMTIndex : image[e].AppName \in Apps}

MCMATables == {image \in [MATIndex -> [EnableState : {0, 2, 3}, Cooldown : {2},
                                       ValidId : {TRUE}, TooLong : {FALSE}]] :
                 HS_ValidateMATable(image) = "CFE_SUCCESS"}
=============================================================================
