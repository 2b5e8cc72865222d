----------------------------- MODULE HSCmdProofs -----------------------------
(***************************************************************************)
(* What a table that passes validation holds, that the default tables do,  *)
(* and the properties of commands and housekeeping, for every size of the  *)
(* counters and the tables, whatever is uploaded or lost.                  *)
(***************************************************************************)
EXTENDS HSCmd, FiniteSetTheorems, WellFoundedInduction, TLAPS

(***************************************************************************)
(* Validation.                                                             *)
(***************************************************************************)
LEMMA MinIsMember ==
  ASSUME NEW S \in SUBSET Nat, S # {}
  PROVE  Min(S) \in S
<1>1. PICK x \in S : \A y \in S : ~ (<<y, x>> \in OpToRel(<, Nat))
  BY WFMin, NatLessThanWellFounded
<1>2. \A y \in S : <<y, x>> \in OpToRel(<, Nat) <=> y < x
  BY DEF OpToRel
<1>3. \A y \in S : ~(y < x)
  BY <1>1, <1>2, Zenon
<1>4. \A y \in S : x <= y
  BY <1>3
<1> QED
  BY <1>4 DEF Min

(* A table is accepted just when each of its entries is.                   *)
LEMMA AcceptedEntries ==
  ASSUME NEW I \in SUBSET Nat, NEW result, DOMAIN result = I,
         \A i \in I : result[i] # "CFE_SUCCESS"
  PROVE  TableResult(result) = "CFE_SUCCESS" <=> \A i \in I : result[i] \in {"good", "unused"}
<1> DEFINE bad == {i \in DOMAIN result : result[i] \notin {"good", "unused"}}
<1>1. TableResult(result) = IF bad = {} THEN "CFE_SUCCESS" ELSE result[Min(bad)]
  BY DEF TableResult
<1>2. bad # {} => Min(bad) \in I
  BY MinIsMember
<1> QED
  BY <1>1, <1>2

LEMMA IndicesAreNaturals ==
  AMTIndex \subseteq Nat /\ EMTIndex \subseteq Nat /\ MATIndex \subseteq Nat /\ XCTIndex \subseteq Nat
BY DEF AMTIndex, EMTIndex, MATIndex, XCTIndex

LEMMA AcceptedXCTable ==
  ASSUME NEW image, DOMAIN image = XCTIndex
  PROVE  HS_ValidateXCTable(image) = "CFE_SUCCESS"
           <=> \A i \in XCTIndex : XCTEntryResult(image[i]) \in {"good", "unused"}
<1> DEFINE result == [i \in DOMAIN image |-> XCTEntryResult(image[i])]
<1>1. \A entry : XCTEntryResult(entry) # "CFE_SUCCESS"
  BY DEF XCTEntryResult
<1>2. DOMAIN result = XCTIndex /\ \A i \in XCTIndex : result[i] = XCTEntryResult(image[i])
  OBVIOUS
<1>3. HS_ValidateXCTable(image) = TableResult(result)
  BY DEF HS_ValidateXCTable
<1> HIDE DEF result
<1>4. \A i \in XCTIndex : result[i] # "CFE_SUCCESS"
  BY <1>1, <1>2
<1>5. TableResult(result) = "CFE_SUCCESS" <=> \A i \in XCTIndex : result[i] \in {"good", "unused"}
  BY <1>2, <1>4, IndicesAreNaturals, AcceptedEntries
<1> QED
  BY <1>2, <1>3, <1>5

(* The tables that come with HS pass the validation they are loaded with,  *)
(* whatever sizes the mission gives them.                                  *)
THEOREM DefaultTablesAreValid == DefaultTablesPass
<1>1. \A result, I : DOMAIN result = I /\ (\A i \in I : result[i] \in {"good", "unused"})
        => TableResult(result) = "CFE_SUCCESS"
  BY DEF TableResult
<1>2. HS_ValidateAMTable(HS_AppMon_Tbl) = "CFE_SUCCESS"
  <2>1. \A i \in AMTIndex : AMTEntryResult(HS_AppMon_Tbl[i]) = "unused"
    BY DEF AMTEntryResult, HS_AppMon_Tbl
  <2>2. DOMAIN HS_AppMon_Tbl = AMTIndex
    BY DEF HS_AppMon_Tbl
  <2> QED
    BY <1>1, <2>1, <2>2 DEF HS_ValidateAMTable
<1>3. HS_ValidateEMTable(HS_EventMon_Tbl) = "CFE_SUCCESS"
  <2>1. \A i \in EMTIndex : EMTEntryResult(HS_EventMon_Tbl[i]) = "unused"
    BY DEF EMTEntryResult, HS_EventMon_Tbl
  <2>2. DOMAIN HS_EventMon_Tbl = EMTIndex
    BY DEF HS_EventMon_Tbl
  <2> QED
    BY <1>1, <2>1, <2>2 DEF HS_ValidateEMTable
<1>4. HS_ValidateMATable(HS_MsgActs_Tbl) = "CFE_SUCCESS"
  <2>1. ASSUME NEW i \in MATIndex
        PROVE  MATEntryResult(HS_MsgActs_Tbl[i]) \in {"good", "unused"}
    <3>1. i \in Nat
      BY IndicesAreNaturals
    <3>2. CASE i < 2
      <4>1. HS_MsgActs_Tbl[i].EnableState = HS_MAT_STATE_ENABLED
        BY <3>2 DEF HS_MsgActs_Tbl
      <4>2. i < 8
        BY <3>1, <3>2
      <4>3. HS_MsgActs_Tbl[i].ValidId /\ ~HS_MsgActs_Tbl[i].TooLong
        BY <4>2, Zenon DEF HS_MsgActs_Tbl
      <4> QED
        BY <4>1, <4>3, Zenon DEF MATEntryResult, HS_MAT_STATE_ENABLED, HS_MAT_STATE_DISABLED
    <3>3. CASE ~(i < 2)
      BY <3>1, <3>3 DEF MATEntryResult, HS_MsgActs_Tbl
    <3> QED
      BY <3>2, <3>3
  <2>2. DOMAIN HS_MsgActs_Tbl = MATIndex
    BY DEF HS_MsgActs_Tbl
  <2> QED
    BY <1>1, <2>1, <2>2 DEF HS_ValidateMATable
<1>5. HS_ValidateXCTable(HS_ExeCount_Tbl) = "CFE_SUCCESS"
  <2>1. \A i \in XCTIndex : XCTEntryResult(HS_ExeCount_Tbl[i]) \in {"good", "unused"}
    BY DEF XCTEntryResult, HS_ExeCount_Tbl, HS_XCT_TYPE_NOTYPE, HS_XCT_TYPE_APP_MAIN
  <2>2. DOMAIN HS_ExeCount_Tbl = XCTIndex
    BY DEF HS_ExeCount_Tbl
  <2> QED
    BY <2>1, <2>2, AcceptedXCTable
<1> QED
  BY <1>2, <1>3, <1>4, <1>5 DEF DefaultTablesPass
-----------------------------------------------------------------------------
(***************************************************************************)
(* What a message does.                                                    *)
(***************************************************************************)
LEMMA CommandEffect ==
  ASSUME NEW cc, HS_CMD(cc)
  PROVE  \/ cc = HS_RESET_CC /\ HS_ResetCmd
         \/ cc # HS_RESET_CC /\ Accept
         \/ cc # HS_RESET_CC /\ Reject /\ UNCHANGED <<Current, CDSData>>
<1> USE DEF HS_NOOP_CC, HS_RESET_CC, HS_ENABLE_APP_MON_CC, HS_DISABLE_APP_MON_CC,
            HS_ENABLE_EVENT_MON_CC, HS_DISABLE_EVENT_MON_CC, HS_ENABLE_ALIVENESS_CC,
            HS_DISABLE_ALIVENESS_CC, HS_RESET_RESETS_PERFORMED_CC, HS_SET_MAX_RESETS_CC,
            HS_ENABLE_CPU_HOG_CC, HS_DISABLE_CPU_HOG_CC
<1>1. CASE cc = HS_RESET_CC /\ HS_ResetCmd
  BY <1>1
<1>2. CASE cc = HS_NOOP_CC /\ HS_NoopCmd
  BY <1>2 DEF HS_NoopCmd
<1>3. CASE \/ cc = HS_ENABLE_APP_MON_CC /\ HS_EnableAppMonCmd
           \/ cc = HS_DISABLE_APP_MON_CC /\ HS_DisableAppMonCmd
           \/ cc = HS_ENABLE_ALIVENESS_CC /\ HS_EnableAlivenessCmd
           \/ cc = HS_DISABLE_ALIVENESS_CC /\ HS_DisableAlivenessCmd
           \/ cc = HS_ENABLE_CPU_HOG_CC /\ HS_EnableCpuHogCmd
           \/ cc = HS_DISABLE_CPU_HOG_CC /\ HS_DisableCpuHogCmd
  BY <1>3 DEF HS_EnableAppMonCmd, HS_DisableAppMonCmd, HS_EnableAlivenessCmd, HS_DisableAlivenessCmd,
              HS_EnableCpuHogCmd, HS_DisableCpuHogCmd, SetState
<1>4. CASE \/ cc = HS_ENABLE_EVENT_MON_CC /\ HS_EnableEventMonCmd
           \/ cc = HS_DISABLE_EVENT_MON_CC /\ HS_DisableEventMonCmd
  BY <1>4 DEF HS_EnableEventMonCmd, HS_DisableEventMonCmd, SetState, SubscriptionFails
<1>5. CASE \/ cc = HS_RESET_RESETS_PERFORMED_CC /\ HS_ResetResetsPerformedCmd
           \/ cc = HS_SET_MAX_RESETS_CC /\ HS_SetMaxResetsCmd
  BY <1>5 DEF HS_ResetResetsPerformedCmd, HS_SetMaxResetsCmd
<1> QED
  BY <1>1, <1>2, <1>3, <1>4, <1>5 DEF HS_CMD

(* Both dispatchers refuse, ignore or execute a message.                   *)
LEMMA MessageEffect ==
  ASSUME NEW msg \in Messages, Receive(msg)
  PROVE  \/ msg.mid = "HS_SEND_HK_MID" /\ (Ignore \/ HS_SendHkCmd)
         \/ msg.mid # "HS_SEND_HK_MID" /\ ~IsReset(msg) /\ Refuse
         \/ msg.mid = "HS_CMD_MID" /\ msg.length = "right" /\ HS_CMD(msg.cc) /\ hk' = NoPacket
<1>1. msg.mid \in {"HS_CMD_MID", "HS_SEND_HK_MID", "unknown"} /\ msg.length \in {"right", "wrong"}
  BY DEF Messages
<1>2. UnknownCode(msg) => msg.mid = "HS_CMD_MID" /\ ~IsReset(msg)
  BY DEF UnknownCode, IsReset, HS_DISABLE_CPU_HOG_CC, HS_RESET_CC
<1>3. CASE HS_AppPipe(msg)
  <2>1. CASE (msg.mid = "unknown" \/ UnknownCode(msg)) /\ Refuse
    BY <1>2, <2>1 DEF IsReset
  <2>2. CASE msg.mid # "unknown" /\ HS_VerifyMsgLength(msg) /\ Dispatched(msg)
    BY <2>2 DEF HS_VerifyMsgLength, Dispatched
  <2>3. CASE ~HS_VerifyMsgLength(msg) /\ WrongLength(msg)
    BY <2>3 DEF HS_VerifyMsgLength, WrongLength, IsReset
  <2> QED
    BY <1>3, <2>1, <2>2, <2>3 DEF HS_AppPipe
<1>4. CASE HS_TaskPipe(msg)
  <2>1. EdsStatus(msg) \in {"CFE_STATUS_UNKNOWN_MSG_ID", "CFE_STATUS_BAD_COMMAND_CODE"}
          => msg.mid # "HS_SEND_HK_MID" /\ ~IsReset(msg)
    BY <1>2 DEF EdsStatus, IsReset
  <2>2. EdsStatus(msg) = "CFE_STATUS_WRONG_MSG_LENGTH" => msg.length = "wrong"
    BY DEF EdsStatus
  <2>3. EdsStatus(msg) = "CFE_SUCCESS" => msg.length = "right"
    BY <1>1 DEF EdsStatus
  <2>4. CASE EdsStatus(msg) = "CFE_SUCCESS" /\ Dispatched(msg)
    BY <2>3, <2>4 DEF Dispatched
  <2>5. CASE EdsStatus(msg) = "CFE_STATUS_WRONG_MSG_LENGTH" /\ WrongLength(msg)
    BY <2>2, <2>5 DEF WrongLength, IsReset
  <2>6. CASE EdsStatus(msg) \in {"CFE_STATUS_UNKNOWN_MSG_ID", "CFE_STATUS_BAD_COMMAND_CODE"} /\ Refuse
    BY <2>1, <2>6
  <2> QED
    BY <1>4, <2>4, <2>5, <2>6 DEF HS_TaskPipe
<1> QED
  BY <1>3, <1>4 DEF Receive

(***************************************************************************)
(* Counting.                                                               *)
(***************************************************************************)
W == UINT8_MAX + 1

LEMMA Wrapped ==
  ASSUME NEW n \in 0 .. 2 * W - 1
  PROVE  n % W = IF n < W THEN n ELSE n - W
<1>1. W \in Nat /\ W > 0
  BY CmdAssumption DEF W
<1> HIDE DEF W
<1>2. n % W \in 0 .. W - 1 /\ n = W * (n \div W) + (n % W) /\ n \div W \in Int
  BY <1>1
<1>3. n \div W >= 2 => W * (n \div W) >= 2 * W
  BY <1>1, <1>2
<1>4. n \div W <= -1 => W * (n \div W) <= -W
  BY <1>1, <1>2
<1>5. n \div W \in {0, 1}
  BY <1>1, <1>2, <1>3, <1>4
<1> QED
  BY <1>1, <1>2, <1>5

LEMMA Counted ==
  ASSUME NEW n \in 0 .. UINT8_MAX
  PROVE  Count(n) \in 0 .. UINT8_MAX /\ Count(n) = IF n < UINT8_MAX THEN n + 1 ELSE 0
<1>1. UINT8_MAX \in Nat
  BY CmdAssumption
<1>2. Count(n) = IF n + 1 < W THEN n + 1 ELSE n + 1 - W
  BY <1>1, Wrapped DEF Count, W
<1> QED
  BY <1>1, <1>2 DEF W

CountInv ==
  /\ CmdCount \in 0 .. UINT8_MAX /\ CmdErrCount \in 0 .. UINT8_MAX /\ handled \in 0 .. UINT8_MAX
  /\ EveryCommandCounted

(* One command more, on either counter.                                    *)
LEMMA OneMore ==
  ASSUME NEW a \in 0 .. UINT8_MAX, NEW b \in 0 .. UINT8_MAX, NEW h \in 0 .. UINT8_MAX,
         (a + b) % W = h
  PROVE  (Count(a) + b) % W = Count(h)
<1>1. UINT8_MAX \in Nat
  BY CmdAssumption
<1>2. Count(a) \in 0 .. UINT8_MAX /\ Count(a) = IF a < UINT8_MAX THEN a + 1 ELSE 0
  BY Counted
<1>3. Count(h) = IF h < UINT8_MAX THEN h + 1 ELSE 0
  BY Counted
<1>4. h = IF a + b < W THEN a + b ELSE a + b - W
  BY <1>1, Wrapped DEF W
<1>5. Count(a) + b \in 0 .. 2 * W - 1
  BY <1>1, <1>2 DEF W
<1>6. (Count(a) + b) % W = IF Count(a) + b < W THEN Count(a) + b ELSE Count(a) + b - W
  <2>1. PICK c \in 0 .. 2 * W - 1 : c = Count(a) + b
    BY <1>5
  <2>2. c % W = IF c < W THEN c ELSE c - W
    BY Wrapped
  <2> QED
    BY <1>1, <1>2, <2>1, <2>2 DEF W
<1> QED
  BY <1>1, <1>2, <1>3, <1>4, <1>6 DEF W

LEMMA NothingCounted == CmdInit => CountInv
<1>1. UINT8_MAX \in Nat
  BY CmdAssumption
<1>2. 0 % W = 0
  BY <1>1, Wrapped DEF W
<1> QED
  BY <1>1, <1>2 DEF CmdInit, CountInv, EveryCommandCounted, W

(* Each command is counted once; the reset command clears what it counts.  *)
LEMMA CountStep == CountInv /\ [CmdNext]_cmdVars => CountInv'
<1> SUFFICES ASSUME CountInv, [CmdNext]_cmdVars PROVE CountInv'
  OBVIOUS
<1>0. UINT8_MAX \in Nat /\ (0 + 0) % (UINT8_MAX + 1) = 0
  <2>1. UINT8_MAX \in Nat
    BY CmdAssumption
  <2>2. 0 % W = 0
    BY <2>1, Wrapped DEF W
  <2> QED
    BY <2>1, <2>2 DEF W
<1>1. CASE UNCHANGED <<CmdCount, CmdErrCount, handled>>
  BY <1>1 DEF CountInv, EveryCommandCounted
<1>2. CASE CmdCount' = 0 /\ CmdErrCount' = 0 /\ handled' = 0
  BY <1>0, <1>2 DEF CountInv, EveryCommandCounted
<1>3. ASSUME NEW msg \in Messages, Receive(msg)
      PROVE  CountInv'
  <2>1. handled' = CASE msg.mid = "HS_SEND_HK_MID" -> handled
                     [] IsReset(msg) -> 0
                     [] OTHER -> Count(handled)
    BY <1>3 DEF Receive
  <2>2. CASE msg.mid = "HS_SEND_HK_MID" /\ (Ignore \/ HS_SendHkCmd)
    BY <1>1, <2>1, <2>2 DEF Ignore, HS_SendHkCmd, counts, IsReset
  <2>3. CASE msg.mid = "HS_CMD_MID" /\ IsReset(msg) /\ HS_ResetCmd
    BY <1>2, <2>1, <2>3 DEF HS_ResetCmd, HS_ResetCounters
  <2>4. CASE msg.mid # "HS_SEND_HK_MID" /\ ~IsReset(msg) /\ Accept
    <3>1. handled' = Count(handled) /\ CmdCount' = Count(CmdCount) /\ CmdErrCount' = CmdErrCount
      BY <2>1, <2>4 DEF Accept
    <3>2. (Count(CmdCount) + CmdErrCount) % W = Count(handled)
      BY OneMore DEF CountInv, EveryCommandCounted, W
    <3>3. Count(CmdCount) \in 0 .. UINT8_MAX /\ Count(handled) \in 0 .. UINT8_MAX
      BY Counted DEF CountInv
    <3> QED
      BY <3>1, <3>2, <3>3 DEF CountInv, EveryCommandCounted, W
  <2>5. CASE msg.mid # "HS_SEND_HK_MID" /\ ~IsReset(msg) /\ Reject
    <3>1. handled' = Count(handled) /\ CmdErrCount' = Count(CmdErrCount) /\ CmdCount' = CmdCount
      BY <2>1, <2>5 DEF Reject
    <3>2. (CmdErrCount + CmdCount) % W = handled
      BY <1>0 DEF CountInv, EveryCommandCounted, W
    <3>3. (Count(CmdErrCount) + CmdCount) % W = Count(handled)
      BY <3>2, OneMore DEF CountInv
    <3>4. Count(CmdErrCount) \in 0 .. UINT8_MAX /\ Count(handled) \in 0 .. UINT8_MAX
      BY Counted DEF CountInv
    <3> QED
      BY <1>0, <3>1, <3>3, <3>4 DEF CountInv, EveryCommandCounted, W
  <2>6. CASE msg.mid = "HS_CMD_MID" /\ msg.length = "right" /\ HS_CMD(msg.cc)
    BY <2>3, <2>4, <2>5, <2>6, CommandEffect DEF IsReset
  <2> QED
    BY <1>3, <2>2, <2>5, <2>6, MessageEffect DEF Refuse
<1> QED
  BY <1>1, <1>2, <1>3 DEF CmdNext, cmdVars, counts, HS_AppInit, StartCycle, NoMessage, ReceiveFails,
                         EndOfCommands, RestartHS

(* Every command is counted once, by either dispatcher, for any width of   *)
(* the counters.                                                           *)
THEOREM CommandsAreCounted == CmdSpec => []EveryCommandCounted
<1>1. CmdInit => CountInv
  BY NothingCounted
<1>2. CountInv => EveryCommandCounted
  BY DEF CountInv
<1> QED
  BY <1>1, <1>2, CountStep, PTL DEF CmdSpec

(* States and limits change only by a command that is counted as executed. *)
THEOREM RefusedCommandsChangeNothing == CmdSpec => OnlyExecutedCommandsAct
<1>1. ASSUME [CmdNext]_cmdVars, pc = "commands", pc' = "commands",
             <<Current, CDSData>>' # <<Current, CDSData>>
      PROVE  CmdCount' = Count(CmdCount) /\ CmdErrCount' = CmdErrCount
  <2>1. PICK msg \in Messages : Receive(msg)
    BY <1>1 DEF CmdNext, cmdVars, HS_AppInit, StartCycle, NoMessage, ReceiveFails, EndOfCommands,
                RestartHS
  <2>2. CASE Ignore \/ HS_SendHkCmd \/ Refuse \/ HS_ResetCmd \/ UNCHANGED <<Current, CDSData>>
    BY <1>1, <2>2 DEF Ignore, HS_SendHkCmd, Refuse, HS_ResetCmd
  <2>3. CASE HS_CMD(msg.cc)
    BY <2>2, <2>3, CommandEffect DEF Accept
  <2> QED
    BY <2>1, <2>2, <2>3, MessageEffect
<1>2. [CmdNext]_cmdVars =>
        [pc = "commands" /\ pc' = "commands" /\ <<Current, CDSData>>' # <<Current, CDSData>>
           => CmdCount' = Count(CmdCount) /\ CmdErrCount' = CmdErrCount]_cmdVars
  BY <1>1
<1> QED
  BY <1>2, PTL DEF CmdSpec, OnlyExecutedCommandsAct
-----------------------------------------------------------------------------
(***************************************************************************)
(* Tables that come and go.  A flag is down just while its table is lost,  *)
(* and it went down with an event.                                         *)
(***************************************************************************)
LoadedInv ==
  /\ loaded \in [Tables -> HS_STATES]
  /\ lost \subseteq Tables
  /\ \A t \in Tables : loaded[t] = HS_STATE_DISABLED <=> t \in lost
  /\ OutageReported

LEMMA AcquireLoads ==
  ASSUME NEW failed \in SUBSET Tables, NEW state, NEW flag \in [Tables -> HS_STATES],
         NEW before, \A t \in Tables : flag[t] = HS_STATE_DISABLED => t \in before,
         AcquirePointers(failed, state, flag, before)
  PROVE  LoadedInv'
<1> USE DEF HS_STATES, HS_STATE_DISABLED, HS_STATE_ENABLED
<1> DEFINE reports == Reported(failed, state, flag)
<1>1. reports \subseteq failed /\ \A t \in failed \ reports : flag[t] # HS_STATE_ENABLED
  BY DEF Reported
<1>2. loaded' = [t \in Tables |-> IF t \in reports THEN HS_STATE_DISABLED
                                 ELSE IF t \in failed THEN flag[t] ELSE HS_STATE_ENABLED]
  BY DEF AcquirePointers, Flags
<1>3. lost' = failed /\ told' = (before \cap failed) \cup reports
  BY DEF AcquirePointers
<1> HIDE DEF reports
<1>4. \A t \in failed \ reports : flag[t] = HS_STATE_DISABLED
  BY <1>1
<1>5. loaded' \in [Tables -> HS_STATES]
  BY <1>2
<1>6. \A t \in Tables : loaded'[t] = HS_STATE_DISABLED <=> t \in failed
  BY <1>1, <1>2, <1>4
<1>7. failed \subseteq told'
  BY <1>1, <1>3, <1>4
<1> QED
  BY <1>3, <1>5, <1>6, <1>7 DEF LoadedInv, OutageReported

LEMMA StartLoads == CmdInit => LoadedInv
BY DEF CmdInit, LoadedInv, OutageReported, LoadedBut, HS_STATES, HS_STATE_DISABLED, HS_STATE_ENABLED

LEMMA LoadedStep == LoadedInv /\ [CmdNext]_cmdVars => LoadedInv'
<1> SUFFICES ASSUME LoadedInv, [CmdNext]_cmdVars PROVE LoadedInv'
  OBVIOUS
<1>1. CASE HS_AppInit
  <2>1. PICK failed \in SUBSET FaultyTables, gone \in SUBSET LostTables : HS_TblInit(failed, gone)
    BY <1>1 DEF HS_AppInit
  <2>2. failed \cup gone \in SUBSET Tables
    BY CmdAssumption
  <2>3. /\ LoadedBut(failed) \in [Tables -> HS_STATES]
        /\ \A t \in Tables : LoadedBut(failed)[t] = HS_STATE_DISABLED => t \in failed
    BY DEF LoadedBut, HS_STATES, HS_STATE_DISABLED, HS_STATE_ENABLED
  <2>4. AcquirePointers(failed \cup gone, Disabled(failed, DefaultStates), LoadedBut(failed), failed)
    BY <2>1 DEF HS_TblInit
  <2> QED
    BY <2>2, <2>3, <2>4, AcquireLoads
<1>2. CASE StartCycle
  <2>1. PICK gone \in SUBSET LostTables : AcquirePointers((Tables \ ready') \cup gone, Current, loaded, told)
    BY <1>2 DEF StartCycle
  <2>2. (Tables \ ready') \cup gone \in SUBSET Tables
    BY CmdAssumption
  <2>3. \A t \in Tables : loaded[t] = HS_STATE_DISABLED => t \in told
    BY DEF LoadedInv, OutageReported
  <2> QED
    BY <2>1, <2>2, <2>3, AcquireLoads DEF LoadedInv
<1>3. CASE RestartHS
  BY <1>3 DEF RestartHS, LoadedInv, OutageReported, LoadedBut, HS_STATES, HS_STATE_DISABLED,
              HS_STATE_ENABLED
<1>4. CASE UNCHANGED tables
  BY <1>4 DEF tables, LoadedInv, OutageReported
<1> QED
  BY <1>1, <1>2, <1>3, <1>4 DEF CmdNext, cmdVars, Receive, NoMessage, ReceiveFails, EndOfCommands

(* No table is lost in silence, whichever tables come and go and however   *)
(* often.                                                                  *)
THEOREM OutagesAreReported == CmdSpec => []OutageReported
<1>1. LoadedInv => OutageReported
  BY DEF LoadedInv
<1> QED
  BY <1>1, StartLoads, LoadedStep, PTL DEF CmdSpec

(* A step that sends a packet is a request for one, and changes no table.  *)
LEMMA PacketStep ==
  ASSUME [CmdNext]_cmdVars, hk' # NoPacket
  PROVE  (HS_SendHkCmd /\ UNCHANGED tables) \/ UNCHANGED <<hk, tables>>
<1>1. CASE UNCHANGED cmdVars
  BY <1>1 DEF cmdVars
<1>2. CASE CmdNext
  <2>1. PICK msg \in Messages : Receive(msg)
    BY <1>2 DEF CmdNext, HS_AppInit, StartCycle, NoMessage, ReceiveFails, EndOfCommands, RestartHS
  <2> QED
    BY <2>1, MessageEffect DEF Receive, Ignore, Refuse
<1> QED
  BY <1>1, <1>2

(* The counts in a packet are of the resources of a table that is loaded.  *)
THEOREM CountsAreOfLoadedTable == CmdSpec => []CountsOfLoadedTable
<1>1. CmdInit => LoadedInv /\ CountsOfLoadedTable
  BY StartLoads DEF CmdInit, CountsOfLoadedTable
<1>2. ASSUME LoadedInv, CountsOfLoadedTable, [CmdNext]_cmdVars
      PROVE  CountsOfLoadedTable'
  <2>1. CASE hk' = NoPacket
    BY <2>1 DEF CountsOfLoadedTable
  <2>2. CASE UNCHANGED <<hk, tables>>
    BY <1>2, <2>2 DEF CountsOfLoadedTable, tables
  <2>3. CASE HS_SendHkCmd /\ UNCHANGED tables
    <3>1. PICK running : hk'.ExeCounts = ExeCounts(running) /\ hk'.StatusFlags = StatusFlags
      BY <2>3 DEF HS_SendHkCmd
    <3>2. ASSUME NEW i \in XCTIndex, ExeCounts(running)[i] # HS_INVALID_EXECOUNT
          PROVE  loaded["XCT"] = HS_STATE_ENABLED /\ ExeCounts(running)[i] = XCTable[i].ResourceName
      BY <3>2 DEF ExeCounts
    <3>3. loaded["XCT"] = HS_STATE_ENABLED => "HS_LOADED_XCT" \in StatusFlags /\ "XCT" \notin lost
      BY <1>2 DEF StatusFlags, LoadedInv, Tables, HS_STATE_ENABLED, HS_STATE_DISABLED
    <3> QED
      BY <2>3, <3>1, <3>2, <3>3 DEF CountsOfLoadedTable, tables
  <2> QED
    BY <1>2, <2>1, <2>2, <2>3, PacketStep
<1> QED
  BY <1>1, <1>2, LoadedStep, PTL DEF CmdSpec
-----------------------------------------------------------------------------
(***************************************************************************)
(* Whatever is uploaded, the table has only entries that pass validation.  *)
(***************************************************************************)
Accepted(image) ==
  \A i \in XCTIndex : /\ image[i].ResourceType \in Nat
                      /\ XCTEntryResult(image[i]) \in {"good", "unused"}

LEMMA AcceptedImages ==
  /\ Accepted(EmptyXCT) /\ Accepted(HS_ExeCount_Tbl)
  /\ \A image \in ValidXCTables : Accepted(image)
<1>1. Accepted(EmptyXCT) /\ Accepted(HS_ExeCount_Tbl)
  <2>1. ASSUME NEW i \in XCTIndex
        PROVE  /\ EmptyXCT[i].ResourceType = 0 /\ HS_ExeCount_Tbl[i].ResourceType \in {0, 1}
               /\ EmptyXCT[i].NullTerm = 0 /\ HS_ExeCount_Tbl[i].NullTerm = 0
    BY <2>1 DEF EmptyXCT, HS_ExeCount_Tbl, HS_XCT_TYPE_NOTYPE, HS_XCT_TYPE_APP_MAIN
  <2>2. \A entry : entry.ResourceType \in {0, 1} /\ entry.NullTerm = 0
          => XCTEntryResult(entry) \in {"good", "unused"}
    BY DEF XCTEntryResult, HS_XCT_TYPE_NOTYPE, HS_XCT_TYPE_APP_MAIN
  <2> QED
    BY <2>1, <2>2 DEF Accepted
<1>2. ASSUME NEW image \in ValidXCTables
      PROVE  Accepted(image)
  <2>1. image \in XCTables /\ HS_ValidateXCTable(image) = "CFE_SUCCESS"
    BY <1>2 DEF ValidXCTables
  <2>2. DOMAIN image = XCTIndex /\ \A i \in XCTIndex : image[i].ResourceType \in Nat
    BY <2>1, CmdAssumption
  <2> QED
    BY <2>1, <2>2, AcceptedXCTable DEF Accepted
<1> QED
  BY <1>1, <1>2

LEMMA AcceptedStep == Accepted(XCTable) /\ [CmdNext]_cmdVars => Accepted(XCTable)'
<1> SUFFICES ASSUME Accepted(XCTable), [CmdNext]_cmdVars PROVE Accepted(XCTable')
  BY DEF Accepted
<1>1. CASE XCTable' = EmptyXCT \/ XCTable' = HS_ExeCount_Tbl \/ XCTable' = XCTable
  BY <1>1, AcceptedImages
<1>2. CASE XCTable' \in Acquired("XCT", XCTable, ValidXCTables)
  BY <1>2, AcceptedImages DEF Acquired
<1> QED
  BY <1>1, <1>2 DEF CmdNext, cmdVars, tables, HS_AppInit, HS_TblInit, StartCycle, Receive, NoMessage,
                    ReceiveFails, EndOfCommands, RestartHS

LEMMA TypeOfAccepted ==
  ASSUME NEW image, Accepted(image), NEW i \in XCTIndex,
         image[i].ResourceType \notin XCTypes \cup {HS_XCT_TYPE_NOTYPE}
  PROVE  /\ image[i].ResourceType >= 65536
         /\ image[i].ResourceType % 65536 \in XCTypes \cup {HS_XCT_TYPE_NOTYPE}
<1> DEFINE type == image[i].ResourceType
<1>1. type \in Nat /\ XCTEntryResult(image[i]) \in {"good", "unused"}
  BY DEF Accepted
<1>2. type % 65536 \in XCTypes \cup {HS_XCT_TYPE_NOTYPE}
  BY <1>1 DEF XCTEntryResult, XCTypes
<1> HIDE DEF type
<1>3. type < 65536 => type % 65536 = type
  BY <1>1
<1> QED
  BY <1>1, <1>2, <1>3 DEF type

(* Only types that are truncated to known ones get past validation, and    *)
(* housekeeping never shows a count for them.                              *)
THEOREM OnlyTruncatedTypesPass == CmdSpec => []UnknownTypesAreTruncated
<1> DEFINE Shown == hk # NoPacket =>
             \A i \in XCTIndex : XCTable[i].ResourceType \notin XCTypes
                                 => hk.ExeCounts[i] = HS_INVALID_EXECOUNT
           Inv == Accepted(XCTable) /\ Shown
<1>1. CmdInit => Inv
  BY AcceptedImages DEF CmdInit
<1>2. ASSUME Inv, [CmdNext]_cmdVars
      PROVE  Inv'
  <2>1. Accepted(XCTable)'
    BY <1>2, AcceptedStep
  <2>2. CASE hk' = NoPacket
    BY <2>1, <2>2
  <2>3. CASE UNCHANGED <<hk, tables>>
    BY <1>2, <2>1, <2>3 DEF tables
  <2>4. CASE HS_SendHkCmd /\ UNCHANGED tables
    <3>1. PICK running : hk'.ExeCounts = ExeCounts(running)
      BY <2>4 DEF HS_SendHkCmd
    <3>2. \A i \in XCTIndex : XCTable[i].ResourceType \notin XCTypes
            => ExeCounts(running)[i] = HS_INVALID_EXECOUNT
      BY DEF ExeCounts
    <3> QED
      BY <2>1, <2>4, <3>1, <3>2 DEF tables
  <2> QED
    BY <1>2, <2>2, <2>3, <2>4, PacketStep
<1>3. Inv => UnknownTypesAreTruncated
  BY TypeOfAccepted DEF UnknownTypesAreTruncated
<1> QED
  BY <1>1, <1>2, <1>3, PTL DEF CmdSpec
-----------------------------------------------------------------------------
(***************************************************************************)
(* Types.                                                                  *)
(***************************************************************************)
StateTypes ==
  /\ Current \in [Parts -> HS_STATES]
  /\ CDSData \in [ResetsPerformed : Words, MaxResets : Words]
  /\ CDSState \in HS_STATES

ActivityTypes == EventsMonitoredCount \in 0 .. MaxActivity /\ MsgActExec \in 0 .. MaxActivity

TableTypes ==
  /\ ready \subseteq Tables
  /\ XCTable \in {EmptyXCT, HS_ExeCount_Tbl} \cup XCTables
  /\ EMTable \in {EmptyEMT, HS_EventMon_Tbl} \cup EMTables
  /\ told \subseteq lost

PacketType == hk \in Packets \cup {NoPacket}

PlaceType == pc \in {"start", "cycle", "commands", "exited"}

TypeInv == PlaceType /\ CountInv /\ LoadedInv /\ StateTypes /\ ActivityTypes /\ TableTypes /\ PacketType

LEMMA DefaultStatesType == DefaultStates \in [Parts -> HS_STATES]
BY ConfigVerified DEF DefaultStates, Parts, StatesVerified

LEMMA StateStep == StateTypes /\ [CmdNext]_cmdVars => StateTypes'
<1> SUFFICES ASSUME StateTypes, [CmdNext]_cmdVars PROVE StateTypes'
  OBVIOUS
<1> USE DEF StateTypes
<1>1. 0 \in Words /\ HS_STATE_ENABLED \in HS_STATES /\ HS_STATE_DISABLED \in HS_STATES
  BY CmdAssumption DEF Words, HS_STATES
<1>2. ASSUME NEW missing, NEW state \in [Parts -> HS_STATES]
      PROVE  Disabled(missing, state) \in [Parts -> HS_STATES]
  BY <1>1 DEF Disabled
<1>3. CASE HS_AppInit
  <2>1. \E failed, gone : HS_TblInit(failed, gone)
    BY <1>3 DEF HS_AppInit
  <2>2. Current' \in [Parts -> HS_STATES]
    BY <1>2, <2>1, DefaultStatesType DEF HS_TblInit, AcquirePointers
  <2> QED
    BY <1>3, <2>2 DEF HS_AppInit
<1>4. CASE StartCycle
  <2>1. Current' \in [Parts -> HS_STATES]
    BY <1>2, <1>4 DEF StartCycle, AcquirePointers
  <2>2. CDSData' \in [ResetsPerformed : Words, MaxResets : Words]
    BY <1>4, CmdAssumption DEF StartCycle, MonitorsAct, Words
  <2> QED
    BY <1>4, <2>1, <2>2 DEF StartCycle
<1>5. CASE RestartHS
  BY <1>1, <1>5, DefaultStatesType DEF RestartHS
<1>6. ASSUME NEW msg \in Messages, Receive(msg)
      PROVE  StateTypes'
  <2>1. CASE Ignore \/ HS_SendHkCmd \/ Refuse
    BY <1>6, <2>1 DEF Ignore, HS_SendHkCmd, Refuse, Receive
  <2>2. CASE HS_CMD(msg.cc)
    <3>1. ASSUME NEW part, NEW state \in HS_STATES, SetState(part, state)
          PROVE  Current' \in [Parts -> HS_STATES] /\ CDSData' = CDSData
      BY <3>1 DEF SetState
    <3>2. ASSUME NEW state, SubscriptionFails(state)
          PROVE  UNCHANGED <<Current, CDSData>>
      BY <3>2 DEF SubscriptionFails
    <3>3. CASE HS_NoopCmd \/ HS_ResetCmd
      BY <1>6, <3>3 DEF HS_NoopCmd, HS_ResetCmd, Receive
    <3>4. CASE \/ HS_EnableAppMonCmd \/ HS_DisableAppMonCmd \/ HS_EnableEventMonCmd \/ HS_DisableEventMonCmd
               \/ HS_EnableAlivenessCmd \/ HS_DisableAlivenessCmd \/ HS_EnableCpuHogCmd \/ HS_DisableCpuHogCmd
      BY <1>1, <1>6, <3>1, <3>2, <3>4
         DEF HS_EnableAppMonCmd, HS_DisableAppMonCmd, HS_EnableEventMonCmd, HS_DisableEventMonCmd,
             HS_EnableAlivenessCmd, HS_DisableAlivenessCmd, HS_EnableCpuHogCmd, HS_DisableCpuHogCmd, Receive
    <3>5. CASE HS_ResetResetsPerformedCmd \/ HS_SetMaxResetsCmd
      BY <1>1, <1>6, <3>5 DEF HS_ResetResetsPerformedCmd, HS_SetMaxResetsCmd, Receive
    <3> QED
      BY <2>2, <3>3, <3>4, <3>5 DEF HS_CMD
  <2> QED
    BY <1>6, <2>1, <2>2, MessageEffect
<1>7. CASE UNCHANGED <<Current, CDSData, CDSState>>
  BY <1>7
<1> QED
  BY <1>3, <1>4, <1>5, <1>6, <1>7 DEF CmdNext, cmdVars, NoMessage, ReceiveFails, EndOfCommands

LEMMA ActivityStep == ActivityTypes /\ [CmdNext]_cmdVars => ActivityTypes'
<1> SUFFICES ASSUME ActivityTypes, [CmdNext]_cmdVars PROVE ActivityTypes'
  OBVIOUS
<1> USE CmdAssumption DEF ActivityTypes
<1>1. ASSUME NEW n \in 0 .. MaxActivity
      PROVE  UpTo(n, MaxActivity) \subseteq 0 .. MaxActivity
  <2>1. {n + 1, MaxActivity} \in SUBSET Nat /\ {n + 1, MaxActivity} # {}
    OBVIOUS
  <2>2. Min({n + 1, MaxActivity}) \in {n + 1, MaxActivity}
    BY <2>1, MinIsMember
  <2>3. Min({n + 1, MaxActivity}) <= MaxActivity
    <3>1. \E x \in {n + 1, MaxActivity} : \A y \in {n + 1, MaxActivity} : x <= y
      OBVIOUS
    <3> QED
      BY <2>1, <3>1 DEF Min
  <2> QED
    BY <2>2, <2>3 DEF UpTo
<1>2. CASE StartCycle
  BY <1>1, <1>2 DEF StartCycle, MonitorsAct
<1>3. CASE UNCHANGED activity
  BY <1>3 DEF activity
<1>4. CASE EventsMonitoredCount' = 0 /\ MsgActExec' = 0
  BY <1>4
<1>5. ASSUME NEW msg \in Messages, Receive(msg)
      PROVE  ActivityTypes'
  <2>1. CASE Ignore \/ HS_SendHkCmd \/ Refuse
    BY <1>3, <2>1 DEF Ignore, HS_SendHkCmd, Refuse
  <2>2. CASE HS_CMD(msg.cc)
    BY <1>3, <1>4, <2>2
       DEF HS_CMD, HS_NoopCmd, HS_ResetCmd, HS_ResetCounters, SetState, SubscriptionFails,
           HS_EnableAppMonCmd, HS_DisableAppMonCmd, HS_EnableEventMonCmd, HS_DisableEventMonCmd,
           HS_EnableAlivenessCmd, HS_DisableAlivenessCmd, HS_EnableCpuHogCmd, HS_DisableCpuHogCmd,
           HS_ResetResetsPerformedCmd, HS_SetMaxResetsCmd
  <2> QED
    BY <1>5, <2>1, <2>2, MessageEffect
<1> QED
  BY <1>2, <1>3, <1>4, <1>5 DEF CmdNext, cmdVars, HS_AppInit, NoMessage, ReceiveFails, EndOfCommands,
                                RestartHS

LEMMA TableStep == TableTypes /\ [CmdNext]_cmdVars => TableTypes'
<1> SUFFICES ASSUME TableTypes, [CmdNext]_cmdVars PROVE TableTypes'
  OBVIOUS
<1> USE DEF TableTypes
<1>1. ASSUME NEW failed, NEW state, NEW flag, NEW before, AcquirePointers(failed, state, flag, before)
      PROVE  told' \subseteq lost'
  BY <1>1 DEF AcquirePointers, Reported
<1>2. CASE HS_AppInit
  BY <1>1, <1>2 DEF HS_AppInit, HS_TblInit
<1>3. CASE StartCycle
  <2>1. told' \subseteq lost'
    BY <1>1, <1>3 DEF StartCycle
  <2>2. ready' \subseteq Tables
    BY <1>3 DEF StartCycle
  <2>3. XCTable' \in {XCTable} \cup XCTables /\ EMTable' \in {EMTable} \cup EMTables
    BY <1>3 DEF StartCycle, Acquired, ValidXCTables, ValidEMTables
  <2> QED
    BY <2>1, <2>2, <2>3
<1>4. CASE RestartHS
  BY <1>4 DEF RestartHS
<1>5. CASE UNCHANGED tables
  BY <1>5 DEF tables
<1> QED
  BY <1>2, <1>3, <1>4, <1>5 DEF CmdNext, cmdVars, Receive, NoMessage, ReceiveFails, EndOfCommands

LEMMA InvalidEventMonCountType ==
  ASSUME NEW running
  PROVE  InvalidEventMonCount(running) \in 0 .. HS_MAX_MONITORED_EVENTS
<1> DEFINE absent == {e \in EMTIndex : /\ EMTable[e].ActionType # HS_EMT_ACT_NOACT
                                      /\ EMTable[e].AppName \notin running}
<1>1. HS_MAX_MONITORED_EVENTS \in Nat \ {0}
  BY TableSizes
<1>2. IsFiniteSet(EMTIndex) /\ Cardinality(EMTIndex) = HS_MAX_MONITORED_EVENTS
  BY <1>1, FS_Interval DEF EMTIndex
<1>3. absent \in SUBSET EMTIndex
  OBVIOUS
<1>4. IsFiniteSet(absent) /\ Cardinality(absent) <= HS_MAX_MONITORED_EVENTS
  BY <1>2, <1>3, FS_Subset
<1>5. Cardinality(absent) \in Nat
  BY <1>4, FS_CardinalityType
<1> QED
  BY <1>1, <1>4, <1>5 DEF InvalidEventMonCount

LEMMA PacketTypes == TypeInv /\ [CmdNext]_cmdVars => PacketType'
<1> SUFFICES ASSUME TypeInv, [CmdNext]_cmdVars PROVE PacketType'
  OBVIOUS
<1>1. CASE hk' = NoPacket
  BY <1>1 DEF PacketType
<1>2. CASE UNCHANGED <<hk, tables>>
  BY <1>2 DEF TypeInv, PacketType, Packets, Names, tables
<1>3. CASE HS_SendHkCmd /\ UNCHANGED tables
  <2>1. PICK running :
          hk' = [CmdCount |-> CmdCount, CmdErrCount |-> CmdErrCount, Current |-> Current,
                 CDSData |-> CDSData, EventsMonitoredCount |-> EventsMonitoredCount,
                 MsgActExec |-> MsgActExec, InvalidEventMonCount |-> InvalidEventMonCount(running),
                 StatusFlags |-> StatusFlags, ExeCounts |-> ExeCounts(running)]
    BY <1>3 DEF HS_SendHkCmd
  <2>2. ExeCounts(running) \in [XCTIndex -> {HS_INVALID_EXECOUNT} \cup Names]
    BY DEF ExeCounts, Names
  <2>3. StatusFlags \in SUBSET {"HS_LOADED_XCT", "HS_LOADED_MAT", "HS_LOADED_AMT", "HS_LOADED_EMT",
                               "HS_CDS_IN_USE"}
    BY DEF StatusFlags
  <2>4. Names' = Names
    BY <1>3 DEF Names, tables
  <2>5. InvalidEventMonCount(running) \in 0 .. HS_MAX_MONITORED_EVENTS
    BY InvalidEventMonCountType
  <2>6. /\ CmdCount \in 0 .. UINT8_MAX /\ CmdErrCount \in 0 .. UINT8_MAX
        /\ EventsMonitoredCount \in 0 .. MaxActivity /\ MsgActExec \in 0 .. MaxActivity
        /\ Current \in [Parts -> HS_STATES] /\ CDSData \in [ResetsPerformed : Words, MaxResets : Words]
    BY DEF TypeInv, CountInv, ActivityTypes, StateTypes
  <2> QED
    BY <2>1, <2>2, <2>3, <2>4, <2>5, <2>6 DEF PacketType, Packets
<1> QED
  BY <1>1, <1>2, <1>3, PacketStep

(* Every variable keeps its type, and the counters their eight bits.       *)
THEOREM CmdTypeCorrect == CmdSpec => []CmdTypeOK
<1>1. CmdInit => TypeInv
  <2> SUFFICES ASSUME CmdInit PROVE TypeInv
    OBVIOUS
  <2>1. LoadedInv
    BY StartLoads
  <2>2. CountInv
    BY NothingCounted
  <2>3. StateTypes /\ ActivityTypes
    BY DefaultStatesType, CmdAssumption DEF CmdInit, StateTypes, ActivityTypes, Words, HS_STATES
  <2>4. TableTypes /\ PacketType /\ PlaceType
    BY DEF CmdInit, TableTypes, PacketType, PlaceType
  <2> QED
    BY <2>1, <2>2, <2>3, <2>4 DEF TypeInv
<1>2. TypeInv /\ [CmdNext]_cmdVars => TypeInv'
  <2> SUFFICES ASSUME TypeInv, [CmdNext]_cmdVars PROVE TypeInv'
    OBVIOUS
  <2>1. PlaceType'
    BY DEF TypeInv, PlaceType, CmdNext, cmdVars, HS_AppInit, StartCycle, Receive, NoMessage, ReceiveFails,
           EndOfCommands, RestartHS
  <2> QED
    BY <2>1, CountStep, LoadedStep, StateStep, ActivityStep, TableStep, PacketTypes DEF TypeInv
<1>3. TypeInv => CmdTypeOK
  BY DEF TypeInv, PlaceType, CountInv, LoadedInv, StateTypes, ActivityTypes, TableTypes, PacketType, CmdTypeOK
<1> QED
  BY <1>1, <1>2, <1>3, PTL DEF CmdSpec
=============================================================================
