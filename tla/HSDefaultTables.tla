--------------------------- MODULE HSDefaultTables ---------------------------
(***************************************************************************)
(* The tables that come with HS and are loaded when it starts.  A mission  *)
(* with fewer entries keeps the first ones; entries added at the end that  *)
(* the files do not list are zeros.                                        *)
(***************************************************************************)
EXTENDS HSConfig

FirstNames == [i \in 0 .. 4 |-> CASE i = 0 -> "CFE_ES" [] i = 1 -> "CFE_EVS" [] i = 2 -> "CFE_TIME"
                                  [] i = 3 -> "CFE_TBL" [] OTHER -> "CFE_SB"]

NameOf(i) == IF i \in DOMAIN FirstNames THEN FirstNames[i] ELSE ""

HS_AppMon_Tbl == [i \in AMTIndex |->
  [AppName |-> NameOf(i), NullTerm |-> 0, CycleCount |-> IF i < 32 THEN 10 ELSE 0,
   ActionType |-> HS_AMT_ACT_NOACT]]

HS_EventMon_Tbl == [i \in EMTIndex |->
  [AppName |-> NameOf(i), NullTerm |-> 0, EventID |-> IF i < 16 THEN 10 ELSE 0,
   ActionType |-> HS_EMT_ACT_NOACT]]

HS_ExeCount_Tbl == [i \in XCTIndex |->
  [ResourceName |-> NameOf(i), NullTerm |-> 0,
   ResourceType |-> IF i \in DOMAIN FirstNames THEN HS_XCT_TYPE_APP_MAIN ELSE HS_XCT_TYPE_NOTYPE]]

(* Two no-op commands that are sent at most every ten cycles, and more of  *)
(* the first that are not in use.                                          *)
HS_MsgActs_Tbl == [i \in MATIndex |->
  [EnableState |-> IF i < 2 THEN HS_MAT_STATE_ENABLED ELSE HS_MAT_STATE_DISABLED,
   Cooldown |-> IF i < 8 THEN 10 ELSE 0, ValidId |-> i < 8, TooLong |-> FALSE]]

DefaultTablesPass ==
  /\ HS_ValidateAMTable(HS_AppMon_Tbl) = "CFE_SUCCESS"
  /\ HS_ValidateEMTable(HS_EventMon_Tbl) = "CFE_SUCCESS"
  /\ HS_ValidateMATable(HS_MsgActs_Tbl) = "CFE_SUCCESS"
  /\ HS_ValidateXCTable(HS_ExeCount_Tbl) = "CFE_SUCCESS"
=============================================================================
