--------------------------- MODULE HSMsgActsProofs ---------------------------
(***************************************************************************)
(* Cooldowns are exact and messages are spaced, for every table and every  *)
(* longest cooldown.                                                       *)
(***************************************************************************)
EXTENDS HSMsgActs, TLAPS

(* The countdown of each message, as a function of the history: what is    *)
(* left of the spacing it was last sent with.                              *)
MATInv ==
  /\ MATTypeOK
  /\ \A m \in MATIndex :
       MsgActCooldown[m] = IF spacing[m] > cycles[m] THEN spacing[m] - cycles[m] ELSE 0

(* An entry of any table HS may hold has a cooldown within the bound.      *)
LEMMA CooldownBound ==
  ASSUME NEW table \in MATables \cup {EmptyMAT}, NEW m \in MATIndex
  PROVE  table[m].Cooldown \in 0 .. MaxCooldown
  BY MATAssumption DEF MATEntries, EmptyMAT

LEMMA MaxCooldownNat == MaxCooldown \in Nat
  BY MATAssumption

LEMMA NoCooldownsType ==
  /\ NoCooldowns \in [MATIndex -> 0 .. MaxCooldown]
  /\ \A m \in MATIndex : NoCooldowns[m] = 0
  BY MaxCooldownNat DEF NoCooldowns

LEMMA MATInitInv == MATInit => MATInv
<1> SUFFICES ASSUME MATInit PROVE MATInv
  OBVIOUS
<1>1. MATReady \in BOOLEAN /\ MsgActsState \in HS_STATES
  BY DEF MATInit, HS_STATES
<1>2. \A m \in MATIndex : MsgActCooldown[m] = 0 /\ spacing[m] = 0 /\ cycles[m] = 0
  BY NoCooldownsType DEF MATInit
<1> QED
  BY <1>1, <1>2, NoCooldownsType DEF MATInit, MATInv, MATTypeOK

LEMMA RestartInv == MATRestart => MATInv'
<1> SUFFICES ASSUME MATRestart PROVE MATInv'
  OBVIOUS
<1>1. MATReady' \in BOOLEAN /\ MsgActsState' \in HS_STATES
  BY DEF MATRestart, HS_STATES
<1>2. \A m \in MATIndex : MsgActCooldown'[m] = 0 /\ spacing'[m] = 0 /\ cycles'[m] = 0
  BY NoCooldownsType DEF MATRestart
<1> QED
  BY <1>1, <1>2, NoCooldownsType DEF MATRestart, MATInv, MATTypeOK

(* The three ways a cycle may begin differ in what they do to the table    *)
(* only; all take one from the cooldowns.                                  *)
LEMMA StartCycleInv == MATInv /\ MATStartCycle => MATInv'
<1> SUFFICES ASSUME MATInv, MATStartCycle PROVE MATInv'
  OBVIOUS
<1> USE MaxCooldownNat
<1>1. /\ MATable' \in MATables \cup {EmptyMAT}
      /\ MATReady' \in BOOLEAN
      /\ MsgActsState' \in HS_STATES
  BY DEF MATInv, MATTypeOK, MATStartCycle, MATUpdated, MATAcquired, MATNotAcquired, HS_STATES
<1>2. cycles' = OneMoreCycle
  BY DEF MATStartCycle, MATUpdated, MATAcquired, MATNotAcquired
<1>3. cycles' \in [MATIndex -> 0 .. MaxCooldown]
  BY <1>2 DEF OneMoreCycle, MATInv, MATTypeOK
<1>4. \/ spacing' = NoCooldowns /\ MsgActCooldown' = Decrement(NoCooldowns)
      \/ spacing' = spacing /\ MsgActCooldown' = Decrement(MsgActCooldown)
  BY DEF MATStartCycle, MATUpdated, MATAcquired, MATNotAcquired
<1>5. CASE spacing' = NoCooldowns /\ MsgActCooldown' = Decrement(NoCooldowns)
  <2>1. spacing' = [m \in MATIndex |-> 0] /\ MsgActCooldown' = [m \in MATIndex |-> 0]
    BY <1>5 DEF NoCooldowns, Decrement
  <2> QED
    BY <1>1, <1>3, <2>1 DEF MATInv, MATTypeOK
<1>6. CASE spacing' = spacing /\ MsgActCooldown' = Decrement(MsgActCooldown)
  <2>1. MsgActCooldown' \in [MATIndex -> 0 .. MaxCooldown]
    BY <1>6 DEF Decrement, MATInv, MATTypeOK
  <2>2. ASSUME NEW m \in MATIndex
        PROVE  MsgActCooldown'[m] = IF spacing'[m] > cycles'[m] THEN spacing'[m] - cycles'[m] ELSE 0
    <3>1. /\ cycles[m] \in 0 .. MaxCooldown /\ spacing[m] \in 0 .. MaxCooldown
          /\ MsgActCooldown[m] = IF spacing[m] > cycles[m] THEN spacing[m] - cycles[m] ELSE 0
      BY DEF MATInv, MATTypeOK
    <3>2. cycles'[m] = IF cycles[m] >= MaxCooldown THEN cycles[m] ELSE cycles[m] + 1
      BY <1>2 DEF OneMoreCycle
    <3>3. MsgActCooldown'[m] = IF MsgActCooldown[m] = 0 THEN 0 ELSE MsgActCooldown[m] - 1
      BY <1>6 DEF Decrement
    <3> QED
      BY <1>6, <3>1, <3>2, <3>3
  <2> QED
    BY <1>1, <1>3, <1>6, <2>1, <2>2 DEF MATInv, MATTypeOK
<1> QED
  BY <1>4, <1>5, <1>6

LEMMA SendInv == ASSUME MATInv, NEW m \in MATIndex, SendMsgAct(m) PROVE MATInv'
<1> USE MaxCooldownNat
<1>1. MATable[m].Cooldown \in 0 .. MaxCooldown
  BY CooldownBound DEF MATInv, MATTypeOK
<1>2. MATTypeOK'
  BY <1>1 DEF MATInv, MATTypeOK, SendMsgAct
<1>3. ASSUME NEW n \in MATIndex
      PROVE  MsgActCooldown'[n] = IF spacing'[n] > cycles'[n] THEN spacing'[n] - cycles'[n] ELSE 0
  BY <1>1 DEF MATInv, MATTypeOK, SendMsgAct
<1> QED
  BY <1>2, <1>3 DEF MATInv

LEMMA MATNextInv == MATInv /\ [MATNext]_matVars => MATInv'
<1> SUFFICES ASSUME MATInv, [MATNext]_matVars PROVE MATInv'
  OBVIOUS
<1>1. CASE MATRestart
  BY <1>1, RestartInv
<1>2. CASE MATStartCycle
  BY <1>2, StartCycleInv
<1>3. CASE \E m \in MATIndex : SendMsgAct(m)
  BY <1>3, SendInv
<1>4. CASE UNCHANGED matVars
  BY <1>4 DEF matVars, MATInv, MATTypeOK
<1> QED
  BY <1>1, <1>2, <1>3, <1>4 DEF MATNext

(* The invariant holds in every behaviour of the message actions.          *)
THEOREM MATInvariant == MATSpec => []MATInv
  BY MATInitInv, MATNextInv, PTL DEF MATSpec

(* A message is off cooldown just when the cycles its Cooldown asks for    *)
(* have begun since it was last sent.                                      *)
THEOREM CooldownsAreExact == MATSpec => []CooldownExact
<1>1. MATInv => CooldownExact
  BY MaxCooldownNat DEF MATInv, MATTypeOK, CooldownExact
<1> QED
  BY <1>1, MATInvariant, PTL

(* Whoever asks, a message is not sent before its spacing has passed.      *)
THEOREM MessagesAreSpaced == MATSpec => MessagesSpaced
<1>1. MATInv /\ [MATNext]_matVars
      => [\A m \in MATIndex : SendMsgAct(m) => cycles[m] >= spacing[m]]_matVars
  BY MaxCooldownNat DEF MATInv, MATTypeOK, SendMsgAct, CanSend
<1> QED
  BY <1>1, MATInvariant, PTL DEF MATSpec, MessagesSpaced
=============================================================================
