------------------------------- MODULE HSTables -------------------------------
(***************************************************************************)
(* The tables of HS: action types, table entries, and the validation that  *)
(* Table Services calls before a table is activated.  An image is a table  *)
(* of entries of any content; the monitors only ever see images that pass. *)
(***************************************************************************)
EXTENDS Integers, FiniteSetsExt

CONSTANTS
  HS_MAX_MONITORED_APPS,     \* entries of the Application Monitor Table
  HS_MAX_MONITORED_EVENTS,   \* entries of the Event Monitor Table
  HS_MAX_MSG_ACT_TYPES       \* entries of the Message Actions Table

ASSUME TableSizes ==
  /\ HS_MAX_MONITORED_APPS \in Nat \ {0}
  /\ HS_MAX_MONITORED_EVENTS \in Nat \ {0}
  /\ HS_MAX_MSG_ACT_TYPES \in Nat \ {0}

AMTIndex == 0 .. HS_MAX_MONITORED_APPS - 1
EMTIndex == 0 .. HS_MAX_MONITORED_EVENTS - 1
MATIndex == 0 .. HS_MAX_MSG_ACT_TYPES - 1

HS_STATE_DISABLED == 0
HS_STATE_ENABLED  == 1
HS_STATES == {HS_STATE_DISABLED, HS_STATE_ENABLED}

HS_AMT_ACT_NOACT       == 0
HS_AMT_ACT_PROC_RESET  == 1
HS_AMT_ACT_APP_RESTART == 2
HS_AMT_ACT_EVENT       == 3
HS_AMT_ACT_LAST_NONMSG == 3

HS_EMT_ACT_NOACT       == 0
HS_EMT_ACT_PROC_RESET  == 1
HS_EMT_ACT_APP_RESTART == 2
HS_EMT_ACT_APP_DELETE  == 3
HS_EMT_ACT_LAST_NONMSG == 3

HS_MAT_STATE_DISABLED == 0
HS_MAT_STATE_ENABLED  == 1
HS_MAT_STATE_NOEVENT  == 2

HS_XCT_TYPE_NOTYPE    == 0
HS_XCT_TYPE_APP_MAIN  == 1
HS_XCT_TYPE_APP_CHILD == 2
HS_XCT_TYPE_DEVICE    == 3
HS_XCT_TYPE_ISR       == 4

(* The index into the Message Actions Table of an action type.             *)
AMTMsgActsIndex(ActionType) == ActionType - HS_AMT_ACT_LAST_NONMSG - 1
EMTMsgActsIndex(ActionType) == ActionType - HS_EMT_ACT_LAST_NONMSG - 1

HS_AMTActionIsValid(ActionType) == ActionType <= HS_AMT_ACT_LAST_NONMSG + HS_MAX_MSG_ACT_TYPES
HS_EMTActionIsValid(ActionType) == ActionType <= HS_EMT_ACT_LAST_NONMSG + HS_MAX_MSG_ACT_TYPES

(***************************************************************************)
(* Validation: "unused", "good", or the error of an entry; a table is      *)
(* accepted when no entry is in error, and otherwise reports the first.    *)
(***************************************************************************)
AMTEntryResult(entry) ==
  IF entry.CycleCount = 0 \/ entry.ActionType = HS_AMT_ACT_NOACT THEN "unused"
  ELSE IF entry.NullTerm # 0 THEN "ERR_NUL"
  ELSE IF ~HS_AMTActionIsValid(entry.ActionType) THEN "ERR_ACT"
  ELSE "good"

EMTEntryResult(entry) ==
  IF entry.EventID = 0 \/ entry.ActionType = HS_EMT_ACT_NOACT THEN "unused"
  ELSE IF entry.NullTerm # 0 THEN "ERR_NUL"
  ELSE IF ~HS_EMTActionIsValid(entry.ActionType) THEN "ERR_ACT"
  ELSE "good"

(* The message of an entry is its size and whether its ID is valid; only   *)
(* whether the size is within the Software Bus maximum matters.            *)
MATEntryResult(entry) ==
  IF entry.EnableState = HS_MAT_STATE_DISABLED THEN "unused"
  ELSE IF entry.EnableState \notin {HS_MAT_STATE_ENABLED, HS_MAT_STATE_NOEVENT} THEN "ERR_ENA"
  ELSE IF ~entry.ValidId THEN "ERR_ID"
  ELSE IF entry.TooLong THEN "ERR_LEN"
  ELSE "good"

(* The 32 bits of the table's ResourceType are looked at as 16.            *)
XCTEntryResult(entry) ==
  LET ResourceType == entry.ResourceType % 65536
  IN  IF ResourceType = HS_XCT_TYPE_NOTYPE THEN "unused"
      ELSE IF entry.NullTerm # 0 THEN "ERR_NUL"
      ELSE IF ResourceType \notin {HS_XCT_TYPE_APP_MAIN, HS_XCT_TYPE_APP_CHILD,
                                   HS_XCT_TYPE_DEVICE, HS_XCT_TYPE_ISR} THEN "ERR_TYPE"
      ELSE "good"

TableResult(result) ==
  LET bad == {i \in DOMAIN result : result[i] \notin {"good", "unused"}}
  IN  IF bad = {} THEN "CFE_SUCCESS" ELSE result[Min(bad)]

HS_ValidateAMTable(image) == TableResult([i \in DOMAIN image |-> AMTEntryResult(image[i])])
HS_ValidateEMTable(image) == TableResult([i \in DOMAIN image |-> EMTEntryResult(image[i])])
HS_ValidateMATable(image) == TableResult([i \in DOMAIN image |-> MATEntryResult(image[i])])
BadValidateXCTable(image) == "CFE_SUCCESS"   \* errors are counted, but not returned
HS_ValidateXCTable(image) == TableResult([i \in DOMAIN image |-> XCTEntryResult(image[i])])
=============================================================================
