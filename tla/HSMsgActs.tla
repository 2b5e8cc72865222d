------------------------------ MODULE HSMsgActs ------------------------------
(***************************************************************************)
(* Message actions: the messages the two monitors can send, each at most   *)
(* once in the number of cycles its Cooldown says.  A cycle begins with    *)
(* HS_AcquirePointers, which takes over a new Message Actions Table, and   *)
(* the decrement of the cooldowns in HS_ProcessMain; then the monitors ask *)
(* for messages, in any number and order.                                  *)
(*                                                                         *)
(* Definitions named Bad... are what the one after each of them would be   *)
(* with a bug; the properties must tell the two apart.                     *)
(***************************************************************************)
EXTENDS HSTables

CONSTANTS
  MATables,     \* the images of the Message Actions Table that may be loaded
  MaxCooldown,  \* no image has a longer cooldown (65535 in the code)
  TBLMayFail    \* CFE_TBL_GetAddress may fail although a table is loaded

MATEntries == [EnableState : HS_MAT_STATE_DISABLED .. HS_MAT_STATE_NOEVENT,
               Cooldown : 0 .. MaxCooldown, ValidId : BOOLEAN, TooLong : BOOLEAN]

ASSUME MATAssumption ==
  /\ MaxCooldown \in Nat
  /\ MATables \subseteq [MATIndex -> MATEntries]
  /\ \A image \in MATables : HS_ValidateMATable(image) = "CFE_SUCCESS"
  /\ TBLMayFail \in BOOLEAN

VARIABLES
  MATable,         \* what HS_AppData.MATablePtr points to
  MATReady,        \* Table Services holds a loaded table
  MsgActsState,    \* HS_AppData.MsgActsState
  MsgActCooldown,  \* HS_AppData.MsgActCooldown
  cycles,          \* history: cycles since a message was last sent ...
  spacing          \* history: ... and those that must pass before it may be again

matVars == <<MATable, MATReady, MsgActsState, MsgActCooldown, cycles, spacing>>

EmptyMAT == [m \in MATIndex |-> [EnableState |-> HS_MAT_STATE_DISABLED, Cooldown |-> 0,
                                 ValidId |-> FALSE, TooLong |-> FALSE]]
NoCooldowns == [m \in MATIndex |-> 0]

(* The memory of HS after the memset of HS_AppInit, no table loaded.       *)
MATInit ==
  /\ MATable = EmptyMAT
  /\ MATReady = FALSE
  /\ MsgActsState = HS_STATE_DISABLED
  /\ MsgActCooldown = NoCooldowns
  /\ cycles = NoCooldowns
  /\ spacing = NoCooldowns

(* HS starts again.                                                        *)
MATRestart ==
  /\ MATable' = EmptyMAT
  /\ MATReady' = FALSE
  /\ MsgActsState' = HS_STATE_DISABLED
  /\ MsgActCooldown' = NoCooldowns
  /\ cycles' = NoCooldowns
  /\ spacing' = NoCooldowns

Decrement(cooldowns) == [m \in MATIndex |-> IF cooldowns[m] = 0 THEN 0 ELSE cooldowns[m] - 1]

OneMoreCycle == [m \in MATIndex |-> IF cycles[m] >= MaxCooldown THEN cycles[m] ELSE cycles[m] + 1]

(* HS_AcquirePointers, for this table, and the decrement that follows it   *)
(* in HS_ProcessMain: a table of CFE_TBL_INFO_UPDATED clears the cooldowns *)
(* (HS_MsgActsStatusRefresh), one that has no address disables messages.   *)
BadMATUpdated ==   \* the old cooldowns stay
  /\ \E image \in MATables : MATable' = image
  /\ MATReady' = TRUE
  /\ MsgActsState' = HS_STATE_ENABLED
  /\ MsgActCooldown' = Decrement(MsgActCooldown)
  /\ spacing' = NoCooldowns
  /\ cycles' = OneMoreCycle

MATUpdated ==
  /\ \E image \in MATables : MATable' = image
  /\ MATReady' = TRUE
  /\ MsgActsState' = HS_STATE_ENABLED
  /\ MsgActCooldown' = Decrement(NoCooldowns)
  /\ spacing' = NoCooldowns
  /\ cycles' = OneMoreCycle

MATAcquired ==
  /\ MATReady
  /\ MsgActsState' = HS_STATE_ENABLED
  /\ MsgActCooldown' = Decrement(MsgActCooldown)
  /\ cycles' = OneMoreCycle
  /\ UNCHANGED <<MATable, MATReady, spacing>>

MATNotAcquired ==
  /\ MATReady => TBLMayFail
  /\ MsgActsState' = HS_STATE_DISABLED
  /\ MsgActCooldown' = Decrement(MsgActCooldown)
  /\ cycles' = OneMoreCycle
  /\ UNCHANGED <<MATable, MATReady, spacing>>

MATStartCycle == MATUpdated \/ MATAcquired \/ MATNotAcquired

(* A monitor takes the action of sending message m.                        *)
BadCanSend(m) ==   \* the cooldown is not looked at
  /\ MsgActsState = HS_STATE_ENABLED
  /\ m \in MATIndex
  /\ MATable[m].EnableState # HS_MAT_STATE_DISABLED

CanSend(m) ==
  /\ MsgActsState = HS_STATE_ENABLED
  /\ m \in MATIndex
  /\ MsgActCooldown[m] = 0
  /\ MATable[m].EnableState # HS_MAT_STATE_DISABLED

SendMsgAct(m) ==
  /\ CanSend(m)
  /\ MsgActCooldown' = [MsgActCooldown EXCEPT ![m] = MATable[m].Cooldown]
  /\ cycles' = [cycles EXCEPT ![m] = 0]
  /\ spacing' = [spacing EXCEPT ![m] = MATable[m].Cooldown]
  /\ UNCHANGED <<MATable, MATReady, MsgActsState>>

DoMsgAct(m) ==
  \/ SendMsgAct(m)
  \/ ~CanSend(m) /\ UNCHANGED matVars

MATNext == MATRestart \/ MATStartCycle \/ \E m \in MATIndex : SendMsgAct(m)

MATSpec == MATInit /\ [][MATNext]_matVars

(***************************************************************************)
(* Properties                                                              *)
(***************************************************************************)
MATTypeOK ==
  /\ MATable \in MATables \cup {EmptyMAT}
  /\ MATReady \in BOOLEAN
  /\ MsgActsState \in HS_STATES
  /\ MsgActCooldown \in [MATIndex -> 0 .. MaxCooldown]
  /\ cycles \in [MATIndex -> 0 .. MaxCooldown]
  /\ spacing \in [MATIndex -> 0 .. MaxCooldown]

(* Cooldowns are exact: a message is off cooldown just when the cycles its *)
(* Cooldown said have begun since it was last sent (with a Cooldown of 4,  *)
(* not in the next three cycles, but in the fourth), also across cycles in *)
(* which the table could not be read.  Loading a table starts anew.        *)
CooldownExact ==
  \A m \in MATIndex : MsgActCooldown[m] = 0 <=> cycles[m] >= spacing[m]

(* Whichever monitors ask, in whatever order, a message is never sent      *)
(* before the spacing it was last sent with has passed.                    *)
MessagesSpaced ==
  [][\A m \in MATIndex : SendMsgAct(m) => cycles[m] >= spacing[m]]_matVars
=============================================================================
