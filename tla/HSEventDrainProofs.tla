--------------------------- MODULE HSEventDrainProofs ---------------------------
(***************************************************************************)
(* The loop that empties the event pipe does less and less, for all tables *)
(* that do not make HS act on events of its own actions in a circle, every *)
(* pipe depth, every load of events and any failing calls.                 *)
(***************************************************************************)
EXTENDS HSEventMonProofs, HSEventDrain, SumProofs

(***************************************************************************)
(* The work left in the loop that empties the pipe                         *)
(***************************************************************************)
LEMMA Costs ==
  ASSUME NEW cost \in [AnyEvent -> Nat]
  PROVE  /\ \A v \in AnyEvent : v = [app |-> v.app, id |-> v.id] /\ cost[v] \in Nat
         /\ \A m \in Messages : [app |-> m.app, id |-> m.id] \in AnyEvent /\ Cost(cost, m) \in Nat
<1>1. \A v \in AnyEvent : v = [app |-> v.app, id |-> v.id]
  BY RankAssumption DEF AnyEvent, OwnEvents
<1>2. \A v \in AnyEvent : cost[v] \in Nat
  OBVIOUS
<1>3. ASSUME NEW m \in Messages PROVE [app |-> m.app, id |-> m.id] \in AnyEvent
  <2>1. PICK v \in AnyEvent, k \in 0 .. 2 : m = [app |-> v.app, id |-> v.id, age |-> k]
    BY DEF Messages
  <2>2. [app |-> m.app, id |-> m.id] = [app |-> v.app, id |-> v.id]
    BY <2>1
  <2> QED
    BY <1>1, <2>2
<1> QED
  BY <1>1, <1>2, <1>3 DEF Cost

(* A rank costs the factor times the rank below: more ranks, more cost.    *)
LEMMA CostsOfRanks ==
  /\ CostFactor \in Nat
  /\ CostOfRank[0] = CostFactor
  /\ \A r \in 1 .. HighestRank : CostOfRank[r] = CostFactor * CostOfRank[r - 1]
<1> DEFINE B == CostFactor
           Costed(g) == g = [r \in 0 .. 7 |-> IF r = 0 THEN B ELSE B * g[r - 1]]
           c1 == B * B
           c2 == B * c1
           c3 == B * c2
           c4 == B * c3
           c5 == B * c4
           c6 == B * c5
           c7 == B * c6
           witness == [r \in 0 .. 7 |-> CASE r = 0 -> B [] r = 1 -> c1 [] r = 2 -> c2 [] r = 3 -> c3
                                        [] r = 4 -> c4 [] r = 5 -> c5 [] r = 6 -> c6 [] r = 7 -> c7]
<1>1. B \in Nat
  BY Sizes DEF CostFactor
<1>2. CostOfRank = CHOOSE g : Costed(g)
  BY DEF CostOfRank, HighestRank
<1>3. Costed(witness)
  <2>1. \A r \in 0 .. 7 : r = 0 \/ r = 1 \/ r = 2 \/ r = 3 \/ r = 4 \/ r = 5 \/ r = 6 \/ r = 7
    OBVIOUS
  <2> HIDE DEF B
  <2>2. /\ witness[0] = B /\ witness[1] = c1 /\ witness[2] = c2 /\ witness[3] = c3
        /\ witness[4] = c4 /\ witness[5] = c5 /\ witness[6] = c6 /\ witness[7] = c7
    OBVIOUS
  <2>3. \A r \in 0 .. 7 : witness[r] = IF r = 0 THEN B ELSE B * witness[r - 1]
    BY <2>1, <2>2
  <2>4. witness = [r \in 0 .. 7 |-> witness[r]]
    OBVIOUS
  <2> HIDE DEF witness
  <2> QED
    BY <2>3, <2>4
<1> HIDE DEF witness
<1>4. Costed(CostOfRank)
  BY <1>2, <1>3
<1>5. CostOfRank[0] = B
  BY <1>4
<1>6. ASSUME NEW r \in 1 .. HighestRank PROVE CostOfRank[r] = B * CostOfRank[r - 1]
  <2>1. r \in 0 .. 7 /\ r # 0
    BY DEF HighestRank
  <2> HIDE DEF B
  <2> QED
    BY <1>4, <2>1
<1> QED
  BY <1>1, <1>5, <1>6

LEMMA ProductGrows ==
  ASSUME NEW b \in Nat, b > 0, NEW c \in Nat
  PROVE  b * c \in Nat /\ c <= b * c
<1>1. b * c = c + (b - 1) * c /\ b - 1 \in Nat
  OBVIOUS
<1>2. (b - 1) * c \in Nat
  BY <1>1
<1> QED
  BY <1>1, <1>2

LEMMA CostOfRankType == \A r \in 0 .. HighestRank : CostOfRank[r] \in Nat /\ CostFactor <= CostOfRank[r]
<1> DEFINE C == {r \in 0 .. HighestRank : ~(CostOfRank[r] \in Nat /\ CostFactor <= CostOfRank[r])}
<1> SUFFICES ASSUME C # {} PROVE FALSE
  OBVIOUS
<1>1. CostFactor \in Nat /\ CostFactor > 0
  BY Sizes DEF CostFactor
<1>2. PICK r \in C : \A k \in C : r <= k
  <2>1. C \in SUBSET Nat
    OBVIOUS
  <2> HIDE DEF C
  <2> QED
    BY <2>1, LeastNumber
<1>3. r # 0 /\ r \in 1 .. HighestRank /\ r - 1 \in 0 .. HighestRank /\ ~(r <= r - 1)
  BY <1>1, CostsOfRanks DEF HighestRank
<1>4. CostOfRank[r - 1] \in Nat /\ CostFactor <= CostOfRank[r - 1]
  BY <1>2, <1>3
<1>5. CostOfRank[r] = CostFactor * CostOfRank[r - 1]
  BY <1>3, CostsOfRanks
<1>6. CostOfRank[r] \in Nat /\ CostOfRank[r - 1] <= CostOfRank[r]
  <2> HIDE DEF CostFactor
  <2> QED
    BY <1>1, <1>4, <1>5, ProductGrows
<1> QED
  BY <1>1, <1>4, <1>6

(* Of two ranks, the higher costs the factor times the lower, and more.    *)
LEMMA RankAbove ==
  ASSUME NEW low \in 0 .. HighestRank, NEW high \in 0 .. HighestRank, low < high
  PROVE  high \in 1 .. HighestRank /\ CostOfRank[low] <= CostOfRank[high - 1]
<1> DEFINE C == {r \in low .. HighestRank : ~(CostOfRank[low] <= CostOfRank[r])}
<1>1. C = {}
  <2> SUFFICES ASSUME C # {} PROVE FALSE
    OBVIOUS
  <2>1. PICK r \in C : \A k \in C : r <= k
    <3>1. C \in SUBSET Nat
      OBVIOUS
    <3> HIDE DEF C
    <3> QED
      BY <3>1, LeastNumber
  <2>2. r # low /\ r \in 1 .. HighestRank /\ r - 1 \in low .. HighestRank /\ ~(r <= r - 1)
    BY CostOfRankType DEF HighestRank
  <2>3. CostOfRank[low] <= CostOfRank[r - 1]
    BY <2>1, <2>2
  <2>4. CostFactor \in Nat /\ CostFactor > 0 /\ CostOfRank[r] = CostFactor * CostOfRank[r - 1]
    BY <2>2, CostsOfRanks, Sizes DEF CostFactor
  <2>5. CostOfRank[low] \in Nat /\ CostOfRank[r - 1] \in Nat /\ CostOfRank[r] \in Nat
    BY <2>2, CostOfRankType
  <2>6. CostOfRank[r - 1] <= CostOfRank[r]
    <3> HIDE DEF CostFactor
    <3> QED
      BY <2>4, <2>5, ProductGrows
  <2> QED
    BY <2>3, <2>5, <2>6
<1> QED
  BY <1>1 DEF HighestRank

LEMMA EventCostType == EventCost \in [EMTables \cup {EmptyEMT} -> [AnyEvent -> Nat]]
  BY RankAssumption, CostOfRankType DEF EventCost

LEMMA CostNowType == ASSUME StateInv PROVE CostNow \in [AnyEvent -> Nat]
  BY EventCostType DEF CostNow, StateInv, StateTypes

(* A pipe is as much work as its parts.                                    *)
LEMMA PipeCosts ==
  ASSUME NEW cost \in [AnyEvent -> Nat], NEW pipe \in Seq(Messages)
  PROVE  /\ Len(pipe) \in Nat /\ DOMAIN pipe = 1 .. Len(pipe) /\ IsFiniteSet(1 .. Len(pipe))
         /\ \A i \in 1 .. Len(pipe) : pipe[i] \in Messages /\ Cost(cost, pipe[i]) \in Nat
         /\ PipeWork(cost, pipe) = SumFunctionOnSet([i \in 1 .. Len(pipe) |-> Cost(cost, pipe[i])], 1 .. Len(pipe))
         /\ PipeWork(cost, pipe) \in Nat
<1>1. Len(pipe) \in Nat /\ DOMAIN pipe = 1 .. Len(pipe) /\ IsFiniteSet(1 .. Len(pipe))
  BY LenProperties, FS_Interval
<1>2. \A i \in 1 .. Len(pipe) : pipe[i] \in Messages /\ Cost(cost, pipe[i]) \in Nat
  BY ElementOfSeq, Costs
<1>3. PipeWork(cost, pipe) = SumFunctionOnSet([i \in 1 .. Len(pipe) |-> Cost(cost, pipe[i])], 1 .. Len(pipe))
  BY <1>1 DEF PipeWork
<1> DEFINE f == [i \in 1 .. Len(pipe) |-> Cost(cost, pipe[i])]
<1>4. \A i \in 1 .. Len(pipe) : f[i] \in Nat
  BY <1>2
<1>5. SumFunctionOnSet(f, 1 .. Len(pipe)) \in Nat
  <2> HIDE DEF f
  <2> QED
    BY <1>1, <1>4, SumNat
<1> QED
  BY <1>1, <1>2, <1>3, <1>5

LEMMA PipeWorkConcat ==
  ASSUME NEW cost \in [AnyEvent -> Nat], NEW p \in Seq(Messages), NEW q \in Seq(Messages)
  PROVE  PipeWork(cost, p \o q) = PipeWork(cost, p) + PipeWork(cost, q)
<1> DEFINE m == Len(p)
           n == Len(q)
           f == [i \in 1 .. m |-> Cost(cost, p[i])]
           g == [i \in 1 .. n |-> Cost(cost, q[i])]
           h == [i \in 1 .. m + n |-> Cost(cost, (p \o q)[i])]
           name == [i \in 1 .. n |-> m + i]
<1>1. /\ m \in Nat /\ n \in Nat
      /\ PipeWork(cost, p) = SumFunctionOnSet(f, 1 .. m) /\ PipeWork(cost, q) = SumFunctionOnSet(g, 1 .. n)
      /\ \A i \in 1 .. m : f[i] \in Nat
      /\ \A i \in 1 .. n : g[i] \in Nat
  BY PipeCosts
<1>2. /\ PipeWork(cost, p \o q) = SumFunctionOnSet(h, 1 .. m + n)
      /\ \A i \in 1 .. m + n : h[i] \in Nat
  <2>1. p \o q \in Seq(Messages) /\ Len(p \o q) = m + n
    BY ConcatProperties
  <2> QED
    BY <2>1, PipeCosts
<1>3. /\ IsFiniteSet(1 .. m) /\ IsFiniteSet(1 .. n) /\ IsFiniteSet(1 .. m + n) /\ IsFiniteSet(m + 1 .. m + n)
      /\ 1 .. m + n = (1 .. m) \cup (m + 1 .. m + n) /\ (1 .. m) \cap (m + 1 .. m + n) = {}
  <2> HIDE DEF m, n
  <2>1. 1 \in Int /\ m \in Int /\ n \in Int /\ m + n \in Int /\ m + 1 \in Int
    BY <1>1
  <2>2. IsFiniteSet(1 .. m) /\ IsFiniteSet(1 .. n) /\ IsFiniteSet(1 .. m + n) /\ IsFiniteSet(m + 1 .. m + n)
    BY <2>1, FS_Interval, Zenon
  <2>3. 1 .. m + n = (1 .. m) \cup (m + 1 .. m + n) /\ (1 .. m) \cap (m + 1 .. m + n) = {}
    BY <1>1
  <2> QED
    BY <2>2, <2>3
<1>4. /\ \A i \in 1 .. m : h[i] = f[i]
      /\ \A i \in 1 .. n : h[m + i] = g[i]
  <2>1. \A i \in 1 .. m + n : (p \o q)[i] = IF i <= m THEN p[i] ELSE q[i - m]
    BY ConcatProperties
  <2>2. \A i \in 1 .. n : m + i \in 1 .. m + n /\ ~(m + i <= m) /\ (m + i) - m = i
    BY <1>1
  <2>3. \A i \in 1 .. m : i \in 1 .. m + n /\ i <= m
    BY <1>1
  <2> HIDE DEF m, n
  <2> QED
    BY <2>1, <2>2, <2>3
<1>5. /\ name \in [1 .. n -> m + 1 .. m + n] /\ {name[i] : i \in 1 .. n} = m + 1 .. m + n
      /\ \A i, j \in 1 .. n : name[i] = name[j] => i = j
      /\ \A i \in 1 .. n : name[i] = m + i
  <2> HIDE DEF m, n
  <2>1. \A i \in 1 .. n : m + i \in m + 1 .. m + n
    BY <1>1
  <2>2. \A j \in m + 1 .. m + n : j - m \in 1 .. n /\ m + (j - m) = j
    BY <1>1
  <2>3. \A i, j \in 1 .. n : m + i = m + j => i = j
    BY <1>1
  <2> QED
    BY <2>1, <2>2, <2>3
<1> HIDE DEF m, n, f, g, h, name
<1>6. SumFunctionOnSet(f, 1 .. m) = SumFunctionOnSet(h, 1 .. m)
  BY <1>1, <1>3, <1>4, SumCongruent
<1>7. SumFunctionOnSet(g, 1 .. n) = SumFunctionOnSet(h, m + 1 .. m + n)
  <2>1. \A i \in 1 .. n : g[i] \in Int /\ h[name[i]] = g[i]
    BY <1>1, <1>4, <1>5
  <2> DEFINE S == 1 .. n
             R == m + 1 .. m + n
  <2>2. /\ IsFiniteSet(S) /\ IsFiniteSet(R) /\ name \in [S -> R]
        /\ \A i, j \in S : name[i] = name[j] => i = j
        /\ \A i \in S : g[i] \in Int /\ h[name[i]] = g[i]
    BY <1>3, <1>5, <2>1
  <2>3. SumFunctionOnSet(g, S) = SumFunctionOnSet(h, {name[i] : i \in S})
    <3> HIDE DEF S, R
    <3> QED
      BY <2>2, SumRenamed
  <2> QED
    BY <1>5, <2>3
<1>8. SumFunctionOnSet(h, (1 .. m) \cup (m + 1 .. m + n)) =
        SumFunctionOnSet(h, 1 .. m) + SumFunctionOnSet(h, m + 1 .. m + n)
  <2>1. \A i \in (1 .. m) \cup (m + 1 .. m + n) : h[i] \in Int
    BY <1>2, <1>3
  <2> QED
    BY <1>3, <2>1, SumOfParts
<1> QED
  BY <1>1, <1>2, <1>3, <1>6, <1>7, <1>8, Zenon

LEMMA PipeWorkOne == ASSUME NEW cost \in [AnyEvent -> Nat], NEW m \in Messages PROVE PipeWork(cost, <<m>>) = Cost(cost, m) /\ <<m>> \in Seq(Messages)
<1> DEFINE f == [i \in 1 .. 1 |-> Cost(cost, <<m>>[i])]
<1>1. <<m>> \in Seq(Messages) /\ Len(<<m>>) = 1 /\ <<m>>[1] = m
  OBVIOUS
<1>2. PipeWork(cost, <<m>>) = SumFunctionOnSet(f, 1 .. 1)
  BY <1>1, PipeCosts
<1>3. IsFiniteSet(1 .. 1) /\ 1 \in 1 .. 1 /\ (1 .. 1) \ {1} = {}
  <2>1. 1 .. 1 = {1}
    OBVIOUS
  <2> QED
    BY <2>1, FS_Singleton
<1>4. f[1] = Cost(cost, m) /\ f[1] \in Nat /\ \A i \in 1 .. 1 : f[i] \in Int
  <2>1. f[1] = Cost(cost, <<m>>[1]) /\ \A i \in 1 .. 1 : i = 1
    OBVIOUS
  <2>2. Cost(cost, m) \in Nat
    BY Costs
  <2> HIDE DEF f
  <2> QED
    BY <1>1, <2>1, <2>2
<1> HIDE DEF f
<1>5. SumFunctionOnSet(f, 1 .. 1) = f[1] + SumFunctionOnSet(f, {})
  BY <1>3, <1>4, SumWithout
<1> QED
  BY <1>1, <1>2, <1>4, <1>5, SumOfNothing

(* Messages that the pipe cannot take are no work.                         *)
LEMMA PutWork ==
  ASSUME NEW cost \in [AnyEvent -> Nat], NEW pipe \in Seq(Messages), NEW messages \in Seq(Messages)
  PROVE  PipeWork(cost, Put(pipe, messages)) <= PipeWork(cost, pipe) + PipeWork(cost, messages)
<1> DEFINE all == pipe \o messages
           n == IF Len(all) < HS_EVENT_PIPE_DEPTH THEN Len(all) ELSE HS_EVENT_PIPE_DEPTH
<1>1. all \in Seq(Messages) /\ PipeWork(cost, all) = PipeWork(cost, pipe) + PipeWork(cost, messages)
  BY ConcatProperties, PipeWorkConcat
<1>2. Len(all) \in Nat /\ n \in 0 .. Len(all) /\ Put(pipe, messages) = SubSeq(all, 1, n)
  <2>1. Len(all) \in Nat
    BY <1>1, LenProperties
  <2> HIDE DEF all
  <2>2. n \in 0 .. Len(all)
    BY <2>1, Sizes
  <2> QED
    BY <2>1, <2>2 DEF Put, all
<1> HIDE DEF all, n
<1>3. SubSeq(all, 1, n) \in Seq(Messages) /\ SubSeq(all, n + 1, Len(all)) \in Seq(Messages)
  <2>1. \A i \in 1 .. Len(all) : all[i] \in Messages
    BY <1>1, ElementOfSeq
  <2>2. /\ 1 \in Int /\ n \in Int /\ n + 1 \in Int /\ Len(all) \in Int
        /\ \A i \in 1 .. n : all[i] \in Messages
        /\ \A i \in n + 1 .. Len(all) : all[i] \in Messages
    BY <1>2, <2>1
  <2> QED
    BY <2>2, SubSeqProperties
<1>4. SubSeq(all, 1, n) \o SubSeq(all, n + 1, Len(all)) = all
  <2>1. 1 \in 1 .. Len(all) + 1 /\ n \in 1 - 1 .. Len(all) /\ Len(all) \in n .. Len(all)
    BY <1>2
  <2>2. SubSeq(all, 1, n) \o SubSeq(all, n + 1, Len(all)) = SubSeq(all, 1, Len(all))
    BY <1>1, <2>1, ConcatAdjacentSubSeq
  <2> QED
    BY <1>1, <2>2, SubSeqFull
<1>5. PipeWork(cost, all) = PipeWork(cost, SubSeq(all, 1, n)) + PipeWork(cost, SubSeq(all, n + 1, Len(all)))
  BY <1>3, <1>4, PipeWorkConcat
<1>6. PipeWork(cost, SubSeq(all, 1, n)) \in Nat /\ PipeWork(cost, SubSeq(all, n + 1, Len(all))) \in Nat
  BY <1>3, PipeCosts
<1>7. PipeWork(cost, SubSeq(all, 1, n)) <= PipeWork(cost, all)
  BY <1>5, <1>6
<1> QED
  BY <1>1, <1>2, <1>7

LEMMA ReceiveWork ==
  ASSUME NEW cost \in [AnyEvent -> Nat], NEW pipe \in Seq(Messages), pipe # <<>>
  PROVE  /\ Head(pipe) \in Messages /\ Tail(pipe) \in Seq(Messages)
         /\ PipeWork(cost, pipe) = Cost(cost, Head(pipe)) + PipeWork(cost, Tail(pipe))
<1>1. Head(pipe) \in Messages /\ Tail(pipe) \in Seq(Messages)
  BY HeadTailProperties
<1>2. <<Head(pipe)>> \o Tail(pipe) = pipe
  OBVIOUS
<1> QED
  BY <1>1, <1>2, PipeWorkOne, PipeWorkConcat

(***************************************************************************)
(* What an action brings                                                   *)
(***************************************************************************)
LEMMA BringsTypes ==
  ASSUME NEW cost \in [AnyEvent -> Nat], NEW action
  PROVE  /\ Brings(action) \subseteq OwnEvents /\ IsFiniteSet(Brings(action))
         /\ \A v \in Brings(action) : cost[v] \in Nat
         /\ SumFunctionOnSet(cost, Brings(action)) \in Nat
<1>1. Brings(action) \subseteq OwnEvents
  BY DEF Brings, OwnEvents, HS_RESET_LIMIT_ERR_EID, HS_EVENTMON_MSGACTS_ERR_EID, HS_EVENTMON_PROC_ERR_EID,
         HS_EVENTMON_RESTART_ERR_EID, HS_EVENTMON_NOT_RESTARTED_ERR_EID,
         HS_EVENTMON_DELETE_ERR_EID, HS_EVENTMON_NOT_DELETED_ERR_EID
<1>2. IsFiniteSet(OwnEvents)
  <2>1. IsFiniteSet({37} \cup 44 .. 49)
    <3>1. 44 \in Int /\ 49 \in Int
      OBVIOUS
    <3>2. IsFiniteSet(44 .. 49) /\ IsFiniteSet({37})
      BY <3>1, FS_Interval, FS_Singleton, Zenon
    <3> QED
      BY <3>2, FS_Union
  <2> DEFINE own == [i \in {37} \cup 44 .. 49 |-> [app |-> HS, id |-> i]]
  <2>2. own \in Surjection({37} \cup 44 .. 49, OwnEvents)
    BY DEF OwnEvents, Surjection
  <2> QED
    BY <2>1, <2>2, FS_Surjection, Zenon
<1>3. IsFiniteSet(Brings(action))
  BY <1>1, <1>2, FS_Subset
<1>4. \A v \in Brings(action) : cost[v] \in Nat
  BY <1>1, Costs DEF AnyEvent
<1> QED
  BY <1>1, <1>3, <1>4, SumNat

(* One message of HS's own, or two different ones, that the action of an   *)
(* entry brings.                                                           *)
LEMMA OwnWork ==
  ASSUME PipeTypes, CostNow \in [AnyEvent -> Nat], NEW action, NEW ids \in Seq({37} \cup 44 .. 49), SendOwn(ids),
         \A i \in 1 .. Len(ids) : [app |-> HS, id |-> ids[i]] \in Brings(action),
         \A i, j \in 1 .. Len(ids) : ids[i] = ids[j] => i = j
  PROVE  PipeWork(CostNow, EventPipe') <= PipeWork(CostNow, EventPipe) + SumFunctionOnSet(CostNow, Brings(action))
<1> DEFINE S == 1 .. Len(ids)
           own == [i \in DOMAIN ids |-> [app |-> HS, id |-> ids[i], age |-> 0]]
           f == [i \in S |-> Cost(CostNow, own[i])]
           name == [i \in S |-> [app |-> HS, id |-> ids[i]]]
<1>1. Len(ids) \in Nat /\ DOMAIN ids = S /\ IsFiniteSet(S) /\ \A i \in S : ids[i] \in {37} \cup 44 .. 49
  <2>1. Len(ids) \in Nat /\ DOMAIN ids = S /\ \A i \in S : ids[i] \in {37} \cup 44 .. 49
    BY LenProperties, ElementOfSeq
  <2> QED
    BY <2>1, FS_Interval
<1>2. own \in Seq(Messages) /\ Len(own) = Len(ids)
  <2>1. \A i \in S : own[i] \in Messages
    <3> SUFFICES ASSUME NEW i \in S PROVE own[i] \in Messages
      OBVIOUS
    <3> DEFINE v == [app |-> HS, id |-> ids[i]]
    <3>1. v \in AnyEvent /\ 0 \in 0 .. 2
      BY <1>1 DEF AnyEvent, OwnEvents
    <3>2. own[i] = [app |-> v.app, id |-> v.id, age |-> 0]
      BY <1>1
    <3> QED
      BY <3>1, <3>2 DEF Messages
  <2>2. own \in [1 .. Len(ids) -> Messages]
    BY <1>1, <2>1
  <2>3. own \in Seq(Messages)
    BY <1>1, <2>2, SeqDef
  <2> QED
    BY <1>1, <2>3, LenProperties
<1>3. \A i \in S : f[i] = CostNow[name[i]]
  BY <1>1 DEF Cost
<1>4. /\ name \in [S -> Brings(action)]
      /\ \A i, j \in S : name[i] = name[j] => i = j
      /\ {name[i] : i \in S} \in SUBSET Brings(action)
  OBVIOUS
<1>5. \A i \in S : f[i] \in Nat
  <2>1. \A v \in Brings(action) : CostNow[v] \in Nat
    BY BringsTypes
  <2>2. \A i \in S : name[i] \in Brings(action)
    BY <1>4
  <2> HIDE DEF S, f, name
  <2> QED
    BY <1>3, <2>1, <2>2
<1>6. PipeWork(CostNow, own) = SumFunctionOnSet(f, S)
  <2> HIDE DEF own
  <2> QED
    BY <1>2, PipeCosts
<1>7. EventPipe' = EventPipe \/ EventPipe' = Put(EventPipe, own)
  BY DEF SendOwn
<1> HIDE DEF S, own, f, name
<1>8. SumFunctionOnSet(f, S) = SumFunctionOnSet(CostNow, {name[i] : i \in S})
  <2>1. \A i \in S : f[i] \in Int /\ CostNow[name[i]] = f[i]
    BY <1>3, <1>5
  <2>2. IsFiniteSet(Brings(action))
    BY BringsTypes
  <2> QED
    BY <1>1, <1>4, <2>1, <2>2, SumRenamed
<1>9. SumFunctionOnSet(CostNow, {name[i] : i \in S}) <= SumFunctionOnSet(CostNow, Brings(action))
  BY <1>4, BringsTypes, SumMonotone
<1>10. EventPipe \in Seq(Messages) /\ PipeWork(CostNow, EventPipe) \in Nat
  BY PipeCosts DEF PipeTypes
<1>11. PipeWork(CostNow, own) \in Nat
  BY <1>2, PipeCosts
<1>12. SumFunctionOnSet(CostNow, Brings(action)) \in Nat
  BY BringsTypes
<1>13. CASE EventPipe' = EventPipe
  BY <1>10, <1>12, <1>13
<1>14. CASE EventPipe' = Put(EventPipe, own)
  <2>1. PipeWork(CostNow, EventPipe') <= PipeWork(CostNow, EventPipe) + PipeWork(CostNow, own)
    BY <1>2, <1>10, <1>14, PutWork
  <2>2. EventPipe' \in Seq(Messages)
    <3>1. \A i \in 1 .. Len(own) : own[i].age = 0
      BY <1>1, <1>2 DEF own, S
    <3>2. \A i \in 1 .. Len(EventPipe) : EventPipe[i].age \in 0 .. 2
      BY <1>10, ElementOfSeq, MessageTypes
    <3>3. NoOlder(EventPipe, 2)
      BY <3>2 DEF NoOlder
    <3> QED
      BY <1>2, <1>10, <1>14, <3>1, <3>3, PutTypes
  <2>3. PipeWork(CostNow, EventPipe') \in Nat
    BY <2>2, PipeCosts
  <2> QED
    BY <1>6, <1>8, <1>9, <1>10, <1>11, <1>12, <2>1, <2>3
<1> QED
  BY <1>7, <1>13, <1>14

(***************************************************************************)
(* Comparing an event with the entries                                     *)
(***************************************************************************)
LEMMA EntryWorkType == ASSUME NEW cost \in [AnyEvent -> Nat], NEW entry, NEW event PROVE EntryWork(cost, entry, event) \in Nat \ {0}
  BY BringsTypes DEF EntryWork

LEMMA TableWorkFrom ==
  ASSUME NEW cost \in [AnyEvent -> Nat], NEW image, NEW event
  PROVE  /\ \A e \in EMTIndex :
              TableWork(cost, image, event, e) = EntryWork(cost, image[e], event) + TableWork(cost, image, event, e + 1)
         /\ TableWork(cost, image, event, HS_MAX_MONITORED_EVENTS) = 0
         /\ \A e \in 0 .. HS_MAX_MONITORED_EVENTS : TableWork(cost, image, event, e) \in Nat
<1> DEFINE f == [e \in EMTIndex |-> EntryWork(cost, image[e], event)]
           from(e) == {i \in EMTIndex : i >= e}
<1>1. IsFiniteSet(EMTIndex) /\ \A i \in EMTIndex : f[i] \in Nat /\ i \in Int
  <2>1. IsFiniteSet(EMTIndex)
    BY Sizes, FS_Interval DEF EMTIndex
  <2>2. \A i \in EMTIndex : f[i] \in Nat
    BY EntryWorkType
  <2> QED
    BY <2>1, <2>2 DEF EMTIndex
<1>2. \A e : from(e) \in SUBSET EMTIndex /\ IsFiniteSet(from(e))
  BY <1>1, FS_Subset
<1>3. \A e : TableWork(cost, image, event, e) = SumFunctionOnSet(f, from(e))
  BY DEF TableWork
<1>4. ASSUME NEW e \in EMTIndex
      PROVE  SumFunctionOnSet(f, from(e)) = f[e] + SumFunctionOnSet(f, from(e + 1))
  <2>1. e \in from(e) /\ from(e) \ {e} = from(e + 1)
    BY DEF EMTIndex
  <2> HIDE DEF f, from
  <2>2. \A i \in from(e) : f[i] \in Int
    BY <1>1, <1>2
  <2>3. SumFunctionOnSet(f, from(e)) = f[e] + SumFunctionOnSet(f, from(e) \ {e})
    BY <1>2, <2>1, <2>2, SumWithout
  <2> QED
    BY <2>1, <2>3
<1>5. from(HS_MAX_MONITORED_EVENTS) = {}
  BY Sizes DEF EMTIndex
<1>6. \A e : SumFunctionOnSet(f, from(e)) \in Nat
  <2> HIDE DEF f, from
  <2> SUFFICES ASSUME NEW e PROVE SumFunctionOnSet(f, from(e)) \in Nat
    OBVIOUS
  <2>1. \A i \in from(e) : f[i] \in Nat
    BY <1>1, <1>2
  <2> QED
    BY <1>2, <2>1, SumNat
<1>7. \A e \in EMTIndex : f[e] = EntryWork(cost, image[e], event)
  OBVIOUS
<1> HIDE DEF f, from
<1> QED
  BY <1>3, <1>4, <1>5, <1>6, <1>7, SumOfNothing

(* Comparing with one entry is work done; a match adds what it brings.     *)
LEMMA NextEntryWork ==
  ASSUME StateInv, PipeTypes, emPC = "events", BufPtr # NoEvent, NextEntry, EventPipe' \in Seq(Messages),
         PipeWork(CostNow, EventPipe') <
           PipeWork(CostNow, EventPipe) + EntryWork(CostNow, EMTable[EntryIndex], BufPtr)
  PROVE  Work' < Work
<1>0. CostNow \in [AnyEvent -> Nat]
  BY CostNowType
<1> DEFINE later == TableWork(CostNow, EMTable, BufPtr, EntryIndex + 1)
<1>1. /\ EntryIndex \in EMTIndex /\ EntryIndex + 1 \in 1 .. HS_MAX_MONITORED_EVENTS
      /\ EntryIndex' = (EntryIndex + 1) % HS_MAX_MONITORED_EVENTS /\ EMTable' = EMTable
      /\ BufPtr' = IF EntryIndex' = 0 THEN NoEvent ELSE BufPtr
      /\ CostNow' = CostNow
  BY Sizes DEF NextEntry, StateInv, StateTypes, EMTIndex, emtVars, CostNow
<1>2. /\ TableWork(CostNow, EMTable, BufPtr, EntryIndex) = EntryWork(CostNow, EMTable[EntryIndex], BufPtr) + later
      /\ TableWork(CostNow, EMTable, BufPtr, HS_MAX_MONITORED_EVENTS) = 0
      /\ TableWork(CostNow, EMTable, BufPtr, EntryIndex) \in Nat
      /\ later \in Nat
  <2>1. EntryIndex \in 0 .. HS_MAX_MONITORED_EVENTS /\ EntryIndex + 1 \in 0 .. HS_MAX_MONITORED_EVENTS
    BY <1>1, Sizes DEF EMTIndex
  <2> QED
    BY <1>0, <1>1, <2>1, TableWorkFrom
<1>3. PipeWork(CostNow, EventPipe) \in Nat /\ PipeWork(CostNow, EventPipe') \in Nat
  BY <1>0, PipeCosts DEF PipeTypes
<1>4. EntryWork(CostNow, EMTable[EntryIndex], BufPtr) \in Nat
  BY <1>0, EntryWorkType
<1>5. Work = PipeWork(CostNow, EventPipe) + TableWork(CostNow, EMTable, BufPtr, EntryIndex)
  BY DEF Work
<1>6. Work' = PipeWork(CostNow, EventPipe') + later
  <2>1. CASE EntryIndex + 1 = HS_MAX_MONITORED_EVENTS
    <3>1. EntryIndex' = 0
      BY <1>1, <2>1, Sizes
    <3>2. BufPtr' = NoEvent /\ later = 0
      BY <1>1, <1>2, <2>1, <3>1
    <3>3. Work' = PipeWork(CostNow, EventPipe') + 0
      BY <1>1, <3>2 DEF Work
    <3> QED
      BY <3>2, <3>3
  <2>2. CASE EntryIndex + 1 # HS_MAX_MONITORED_EVENTS
    <3>1. EntryIndex' = EntryIndex + 1 /\ EntryIndex' # 0
      <4>1. EntryIndex + 1 \in 1 .. HS_MAX_MONITORED_EVENTS - 1
        BY <1>1, <2>2, Sizes
      <4> QED
        BY <1>1, <4>1, Sizes
    <3>2. BufPtr' = BufPtr
      BY <1>1, <3>1
    <3> QED
      BY <1>1, <3>1, <3>2 DEF Work
  <2> QED
    BY <2>1, <2>2
<1> HIDE DEF later
<1> QED
  BY <1>2, <1>3, <1>4, <1>5, <1>6

LEMMA EntryMatched ==
  ASSUME Concerns(EMTable[EntryIndex], BufPtr)
  PROVE  EntryWork(CostNow, EMTable[EntryIndex], BufPtr) =
           1 + SumFunctionOnSet(CostNow, Brings(EMTable[EntryIndex].ActionType))
  BY DEF EntryWork

(* An action that sends nothing, one event, or two.                        *)
Sends(action, ids) ==
  /\ ids \in Seq({37} \cup 44 .. 49)
  /\ \A i \in 1 .. Len(ids) : [app |-> HS, id |-> ids[i]] \in Brings(action)
  /\ \A i, j \in 1 .. Len(ids) : ids[i] = ids[j] => i = j

LEMMA ActionsSend ==
  /\ Sends(HS_EMT_ACT_PROC_RESET, <<HS_EVENTMON_PROC_ERR_EID>>)
  /\ Sends(HS_EMT_ACT_PROC_RESET, <<HS_EVENTMON_PROC_ERR_EID, HS_RESET_LIMIT_ERR_EID>>)
  /\ Sends(HS_EMT_ACT_APP_RESTART, <<HS_EVENTMON_RESTART_ERR_EID>>)
  /\ Sends(HS_EMT_ACT_APP_RESTART, <<HS_EVENTMON_NOT_RESTARTED_ERR_EID>>)
  /\ Sends(HS_EMT_ACT_APP_RESTART, <<HS_EVENTMON_RESTART_ERR_EID, HS_EVENTMON_NOT_RESTARTED_ERR_EID>>)
  /\ Sends(HS_EMT_ACT_APP_DELETE, <<HS_EVENTMON_DELETE_ERR_EID>>)
  /\ Sends(HS_EMT_ACT_APP_DELETE, <<HS_EVENTMON_NOT_DELETED_ERR_EID>>)
  /\ Sends(HS_EMT_ACT_APP_DELETE, <<HS_EVENTMON_DELETE_ERR_EID, HS_EVENTMON_NOT_DELETED_ERR_EID>>)
  /\ \A action : action > HS_EMT_ACT_LAST_NONMSG =>
       Sends(action, <<>>) /\ Sends(action, <<HS_EVENTMON_MSGACTS_ERR_EID>>)
<1> USE DEF HS_RESET_LIMIT_ERR_EID, HS_EVENTMON_MSGACTS_ERR_EID, HS_EVENTMON_PROC_ERR_EID,
            HS_EVENTMON_RESTART_ERR_EID, HS_EVENTMON_NOT_RESTARTED_ERR_EID,
            HS_EVENTMON_DELETE_ERR_EID, HS_EVENTMON_NOT_DELETED_ERR_EID,
            HS_EMT_ACT_PROC_RESET, HS_EMT_ACT_APP_RESTART, HS_EMT_ACT_APP_DELETE, HS_EMT_ACT_LAST_NONMSG
<1> DEFINE own(i) == [app |-> HS, id |-> i]
           Ids == {37} \cup 44 .. 49
<1>1. ASSUME NEW action, NEW x \in Ids, own(x) \in Brings(action) PROVE Sends(action, <<x>>)
  <2>1. <<x>> \in Seq(Ids) /\ Len(<<x>>) = 1 /\ <<x>>[1] = x
    OBVIOUS
  <2>2. \A i \in 1 .. 1 : i = 1
    OBVIOUS
  <2> HIDE DEF Ids
  <2> QED
    BY <1>1, <2>1, <2>2 DEF Sends, Ids
<1>2. ASSUME NEW action, NEW x \in Ids, NEW y \in Ids, x # y, own(x) \in Brings(action), own(y) \in Brings(action)
      PROVE  Sends(action, <<x, y>>)
  <2>1. <<x, y>> \in Seq(Ids) /\ Len(<<x, y>>) = 2 /\ <<x, y>>[1] = x /\ <<x, y>>[2] = y
    OBVIOUS
  <2>2. \A i \in 1 .. 2 : i = 1 \/ i = 2
    OBVIOUS
  <2> QED
    BY <1>2, <2>1, <2>2 DEF Sends
<1>3. /\ Brings(1) = {own(45), own(37)}
      /\ Brings(2) = {own(46), own(47)}
      /\ Brings(3) = {own(48), own(49)}
  BY DEF Brings
<1>4. ASSUME NEW action, action > 3 PROVE Brings(action) = {own(44)}
  BY <1>4 DEF Brings
<1>5. /\ Sends(1, <<45>>) /\ Sends(1, <<45, 37>>)
      /\ Sends(2, <<46>>) /\ Sends(2, <<47>>) /\ Sends(2, <<46, 47>>)
      /\ Sends(3, <<48>>) /\ Sends(3, <<49>>) /\ Sends(3, <<48, 49>>)
  <2>1. 37 \in Ids /\ 45 \in Ids /\ 46 \in Ids /\ 47 \in Ids /\ 48 \in Ids /\ 49 \in Ids
    OBVIOUS
  <2>2. /\ own(45) \in Brings(1) /\ own(37) \in Brings(1)
        /\ own(46) \in Brings(2) /\ own(47) \in Brings(2)
        /\ own(48) \in Brings(3) /\ own(49) \in Brings(3)
    BY <1>3
  <2> HIDE DEF own, Ids
  <2> QED
    BY <1>1, <1>2, <2>1, <2>2
<1>6. ASSUME NEW action, action > 3 PROVE Sends(action, <<>>) /\ Sends(action, <<44>>)
  <2>1. 44 \in Ids /\ own(44) \in Brings(action)
    BY <1>4, <1>6
  <2>2. Sends(action, <<44>>)
    <3> HIDE DEF own, Ids
    <3> QED
      BY <1>1, <2>1
  <2>3. Sends(action, <<>>)
    BY DEF Sends
  <2> QED
    BY <2>2, <2>3
<1> QED
  BY <1>5, <1>6

(* Each way through HS_MonitorEvent but a reset leaves less work.          *)
LEMMA MonitorEventWork ==
  ASSUME StateInv, PipeTypes, PipeTypes', HS_MonitorEvent, emPC' = "events"
  PROVE  Work' < Work
<1>0. CostNow \in [AnyEvent -> Nat]
  BY CostNowType
<1>1. PICK e \in EMTIndex :
        \/ SkipEntry(e) \/ EventProcReset(e) \/ EventProcResetFails(e) \/ ResetLimitReached(e)
        \/ EventAppRestart(e) \/ EventAppDelete(e) \/ EventMessage(e)
  BY DEF HS_MonitorEvent
<1>2. ~EventProcReset(e)
  BY DEF EventProcReset, Gone
<1>3. NextEntry /\ emPC = "events" /\ BufPtr # NoEvent /\ EntryIndex = e
  BY <1>1, <1>2 DEF SkipEntry, EventProcResetFails, ResetLimitReached, EventAppRestart,
                    EventAppDelete, EventMessage, MatchWith, Comparing
<1>4. EventPipe \in Seq(Messages) /\ EventPipe' \in Seq(Messages)
  BY DEF PipeTypes
<1>5. PipeWork(CostNow, EventPipe) \in Nat /\ PipeWork(CostNow, EventPipe') \in Nat
  BY <1>0, <1>4, PipeCosts
<1>6. CASE SkipEntry(e)
  <2>1. EventPipe' = EventPipe
    BY <1>6 DEF SkipEntry
  <2>2. EntryWork(CostNow, EMTable[EntryIndex], BufPtr) \in Nat \ {0}
    BY <1>0, EntryWorkType
  <2>3. PipeWork(CostNow, EventPipe') < PipeWork(CostNow, EventPipe) + EntryWork(CostNow, EMTable[EntryIndex], BufPtr)
    BY <1>5, <2>1, <2>2
  <2> QED
    BY <1>3, <1>4, <2>3, NextEntryWork
<1>7. CASE ~SkipEntry(e)
  <2> DEFINE action == EMTable[EntryIndex].ActionType
  <2>1. Concerns(EMTable[EntryIndex], BufPtr)
    BY <1>1, <1>2, <1>3, <1>7
       DEF EventProcResetFails, ResetLimitReached, EventAppRestart, EventAppDelete, EventMessage,
           MatchWith, Matches
  <2>2. \E ids : Sends(action, ids) /\ SendOwn(ids)
    <3>1. CASE EventProcResetFails(e) \/ ResetLimitReached(e)
      BY <1>3, <3>1, ActionsSend DEF EventProcResetFails, ResetLimitReached, MatchWith
    <3>2. CASE EventAppRestart(e)
      BY <1>3, <3>2, ActionsSend DEF EventAppRestart, MatchWith
    <3>3. CASE EventAppDelete(e)
      BY <1>3, <3>3, ActionsSend DEF EventAppDelete, MatchWith
    <3>4. CASE EventMessage(e)
      <4>1. action > HS_EMT_ACT_LAST_NONMSG
        BY <1>3, <3>4 DEF EventMessage
      <4>2. SendOwn(<<HS_EVENTMON_MSGACTS_ERR_EID>>) \/ SendOwn(<<>>)
        BY <3>4 DEF EventMessage
      <4> HIDE DEF action
      <4> QED
        BY <4>1, <4>2, ActionsSend
    <3> QED
      BY <1>1, <1>2, <1>7, <3>1, <3>2, <3>3, <3>4
  <2>3. PICK ids : Sends(action, ids) /\ SendOwn(ids)
    BY <2>2
  <2>4. PipeWork(CostNow, EventPipe') <= PipeWork(CostNow, EventPipe) + SumFunctionOnSet(CostNow, Brings(action))
    <3> HIDE DEF action
    <3> QED
      BY <1>0, <2>3, OwnWork DEF Sends
  <2>5. EntryWork(CostNow, EMTable[EntryIndex], BufPtr) = 1 + SumFunctionOnSet(CostNow, Brings(action))
    BY <2>1, EntryMatched
  <2>6. SumFunctionOnSet(CostNow, Brings(action)) \in Nat
    BY <1>0, BringsTypes
  <2>7. PipeWork(CostNow, EventPipe') < PipeWork(CostNow, EventPipe) + EntryWork(CostNow, EMTable[EntryIndex], BufPtr)
    <3> HIDE DEF action
    <3> QED
      BY <1>5, <2>4, <2>5, <2>6
  <2> QED
    BY <1>3, <1>4, <2>7, NextEntryWork
<1> QED
  BY <1>6, <1>7

(* While HS is at no event, the next one will be compared with all entries. *)
LoopInv == BufPtr = NoEvent => EntryIndex = 0

LEMMA LoopStep == LoopInv /\ [EMNext]_emVars => LoopInv'
<1> SUFFICES ASSUME LoopInv, [EMNext]_emVars PROVE LoopInv'
  OBVIOUS
<1>1. CASE StartupFails \/ ReceiveFails \/ RestartHS
  BY <1>1 DEF StartupFails, ReceiveFails, RestartHS, ExitApp, Gone, LoopInv
<1>2. CASE HS_MonitorEvent
  BY <1>2 DEF HS_MonitorEvent, SkipEntry, EventProcReset, EventProcResetFails, ResetLimitReached,
              EventAppRestart, EventAppDelete, EventMessage, MatchWith, Comparing, NextEntry, Gone, LoopInv
<1>3. CASE Receive
  BY <1>3 DEF Receive, LoopInv
<1>4. CASE \/ HS_TblInit \/ Startup \/ StartCycle \/ StartEvents \/ NoMessage \/ EndCycle \/ AppMonMessage
           \/ HS_EnableEventMonCmd \/ EnableFails \/ HS_DisableEventMonCmd \/ DisableFails \/ ResetsCmd
           \/ SendEvent \/ ChangeFormat \/ UNCHANGED emVars
  <2>1. UNCHANGED loopVars
    BY <1>4 DEF HS_TblInit, Startup, StartCycle, StartEvents, NoMessage, EndCycle, AppMonMessage,
                HS_EnableEventMonCmd, EnableFails, HS_DisableEventMonCmd, DisableFails, ResetsCmd,
                CmdUnchanged, SendEvent, ChangeFormat, emVars
  <2> QED
    BY <2>1 DEF loopVars, LoopInv
<1> QED
  BY <1>1, <1>2, <1>3, <1>4 DEF EMNext, HSStep

(* What an action on an event of some rank brings: two events, of lower    *)
(* ranks.                                                                  *)
LEMMA FewBrought == \A action : Cardinality(Brings(action)) \in 0 .. 2
<1> SUFFICES ASSUME NEW action PROVE Cardinality(Brings(action)) \in 0 .. 2
  OBVIOUS
<1> DEFINE own(i) == [app |-> HS, id |-> i]
<1>1. PICK x, y : Brings(action) \in {{}, {x}, {x, y}}
  <2>1. \/ Brings(action) = {own(45), own(37)}
        \/ Brings(action) = {own(46), own(47)}
        \/ Brings(action) = {own(48), own(49)}
        \/ Brings(action) = {own(44)}
        \/ Brings(action) = {}
    BY DEF Brings, HS_RESET_LIMIT_ERR_EID, HS_EVENTMON_MSGACTS_ERR_EID, HS_EVENTMON_PROC_ERR_EID,
           HS_EVENTMON_RESTART_ERR_EID, HS_EVENTMON_NOT_RESTARTED_ERR_EID,
           HS_EVENTMON_DELETE_ERR_EID, HS_EVENTMON_NOT_DELETED_ERR_EID
  <2> HIDE DEF own
  <2> QED
    BY <2>1
<1>2. IsFiniteSet({}) /\ Cardinality({}) = 0
  BY FS_EmptySet
<1>3. IsFiniteSet({x}) /\ Cardinality({x}) = 1
  BY FS_Singleton
<1>4. Cardinality({x} \cup {y}) \in 1 .. 2
  BY <1>3, FS_AddElement
<1>5. {x} \cup {y} = {x, y}
  OBVIOUS
<1> QED
  BY <1>1, <1>2, <1>3, <1>4, <1>5

LEMMA EntryBound ==
  ASSUME RanksDescend, NEW image \in EMTables \cup {EmptyEMT}, NEW event \in AnyEvent, NEW e \in EMTIndex,
         NEW m \in Nat,
         \A low \in 0 .. HighestRank : low < EventRank[image][event] => CostOfRank[low] <= m
  PROVE  EntryWork(EventCost[image], image[e], event) \in 0 .. 1 + 2 * m
<1> DEFINE cost == EventCost[image]
           S == Brings(image[e].ActionType)
<1>1. cost \in [AnyEvent -> Nat]
  BY EventCostType
<1>2. IsFiniteSet(S) /\ S \subseteq AnyEvent /\ \A other \in S : cost[other] \in Nat
  BY <1>1, BringsTypes DEF AnyEvent
<1>3. CASE Concerns(image[e], event)
  <2>1. \A other \in S : cost[other] \in 0 .. m
    <3> SUFFICES ASSUME NEW other \in S PROVE cost[other] <= m
      BY <1>2
    <3>1. EventRank[image][other] < EventRank[image][event]
      BY <1>3 DEF RanksDescend
    <3>2. EventRank[image][other] \in 0 .. HighestRank /\ other \in AnyEvent
      BY <1>2, RankAssumption
    <3>3. cost[other] = CostOfRank[EventRank[image][other]]
      BY <3>2 DEF EventCost
    <3> QED
      BY <3>1, <3>2, <3>3
  <2>2. SumFunctionOnSet(cost, S) \in 0 .. Cardinality(S) * m
    <3> HIDE DEF S, cost
    <3> QED
      BY <1>2, <2>1, SumBounded
  <2>3. Cardinality(S) * m <= 2 * m
    <3>1. Cardinality(S) = 0 \/ Cardinality(S) = 1 \/ Cardinality(S) = 2
      BY FewBrought
    <3> HIDE DEF S
    <3> QED
      BY <3>1
  <2>4. EntryWork(cost, image[e], event) = 1 + SumFunctionOnSet(cost, S)
    BY <1>3 DEF EntryWork
  <2> HIDE DEF S, cost
  <2>5. Cardinality(S) * m \in Int
    BY <2>3, FewBrought DEF S
  <2> QED
    BY <2>2, <2>3, <2>4, <2>5 DEF cost
<1>4. CASE ~Concerns(image[e], event)
  BY <1>4 DEF EntryWork
<1> QED
  BY <1>3, <1>4

(* With tables that do not feed themselves an event costs more than to     *)
(* compare it with all entries.                                            *)
LEMMA CostsCover ==
  ASSUME RanksDescend, NEW image \in EMTables \cup {EmptyEMT}, NEW event \in AnyEvent
  PROVE  EventCost[image][event] > TableWork(EventCost[image], image, event, 0)
<1> DEFINE n == HS_MAX_MONITORED_EVENTS
           rank == EventRank[image][event]
           f == [e \in EMTIndex |-> EntryWork(EventCost[image], image[e], event)]
<1>1. n \in Nat /\ n > 0 /\ CostFactor = 2 * n + 2
  BY Sizes DEF CostFactor
<1>2. rank \in 0 .. HighestRank /\ EventCost[image][event] = CostOfRank[rank]
  BY RankAssumption DEF EventCost
<1>3. IsFiniteSet(EMTIndex) /\ Cardinality(EMTIndex) = n /\ {e \in EMTIndex : e >= 0} = EMTIndex
  <2>1. IsFiniteSet(0 .. n - 1) /\ Cardinality(0 .. n - 1) = n
    BY <1>1, FS_Interval
  <2> QED
    BY <2>1 DEF EMTIndex
<1>4. TableWork(EventCost[image], image, event, 0) = SumFunctionOnSet(f, EMTIndex)
  BY <1>3 DEF TableWork
<1>5. ASSUME NEW m \in Nat, \A low \in 0 .. HighestRank : low < rank => CostOfRank[low] <= m
      PROVE  SumFunctionOnSet(f, EMTIndex) \in 0 .. n * (1 + 2 * m)
  <2>1. \A e \in EMTIndex : f[e] \in 0 .. 1 + 2 * m
    BY <1>5, EntryBound
  <2>2. 1 + 2 * m \in Nat
    BY <1>5
  <2> HIDE DEF f, n, rank
  <2> QED
    BY <1>3, <2>1, <2>2, SumBounded
<1>6. CASE rank = 0
  <2>1. SumFunctionOnSet(f, EMTIndex) \in 0 .. n * (1 + 2 * 0)
    <3>1. \A low \in 0 .. HighestRank : low < rank => CostOfRank[low] <= 0
      BY <1>6
    <3> HIDE DEF rank, f, n
    <3> QED
      BY <1>5, <3>1
  <2>2. n * (1 + 2 * 0) = n /\ CostOfRank[rank] = 2 * n + 2
    BY <1>1, <1>6, CostsOfRanks
  <2> HIDE DEF f, n, rank
  <2> QED
    BY <1>1, <1>2, <1>4, <2>1, <2>2
<1>7. CASE rank # 0
  <2> DEFINE c == CostOfRank[rank - 1]
  <2>1. rank \in 1 .. HighestRank /\ rank - 1 \in 0 .. HighestRank
    BY <1>2, <1>7 DEF HighestRank
  <2>2. CostOfRank[rank] = CostFactor * c /\ c \in Nat /\ CostFactor <= c
    BY <2>1, CostsOfRanks, CostOfRankType
  <2>3. \A low \in 0 .. HighestRank : low < rank => CostOfRank[low] <= c
    BY <1>2, RankAbove
  <2>4. SumFunctionOnSet(f, EMTIndex) \in 0 .. n * (1 + 2 * c)
    <3> HIDE DEF rank, f, n, c
    <3> QED
      BY <1>5, <2>2, <2>3
  <2> HIDE DEF f, n, rank, c
  <2>5. n * (1 + 2 * c) = n + 2 * (n * c) /\ (2 * n + 2) * c = 2 * (n * c) + 2 * c /\ n * c \in Nat
    BY <1>1, <2>2
  <2>6. n < 2 * c
    BY <1>1, <2>2
  <2>7. SumFunctionOnSet(f, EMTIndex) <= n + 2 * (n * c) /\ SumFunctionOnSet(f, EMTIndex) \in Int
    BY <2>4, <2>5
  <2>8. CostOfRank[rank] = 2 * (n * c) + 2 * c
    BY <1>1, <2>2, <2>5
  <2>9. n + 2 * (n * c) < 2 * (n * c) + 2 * c
    BY <1>1, <2>2, <2>5, <2>6
  <2> QED
    BY <1>1, <1>2, <1>4, <2>2, <2>5, <2>7, <2>8, <2>9
<1> QED
  BY <1>6, <1>7

(* What is in the pipe costs more than comparing it.                       *)
LEMMA EventCovered ==
  ASSUME RanksDescend, StateInv, NEW m \in Messages
  PROVE  TableWork(CostNow, EMTable, m, 0) < Cost(CostNow, m)
<1> DEFINE v == [app |-> m.app, id |-> m.id]
<1>0. CostNow \in [AnyEvent -> Nat]
  BY CostNowType
<1>1. v \in AnyEvent /\ Cost(CostNow, m) = CostNow[v]
  BY <1>0, Costs DEF Cost
<1>2. EMTable \in EMTables \cup {EmptyEMT}
  BY DEF StateInv, StateTypes
<1>3. CostNow[v] > TableWork(CostNow, EMTable, v, 0)
  <2> HIDE DEF v
  <2> QED
    BY <1>1, <1>2, CostsCover DEF CostNow
<1>4. \A entry : EntryWork(CostNow, entry, v) = EntryWork(CostNow, entry, m)
  BY DEF EntryWork, Concerns
<1>5. TableWork(CostNow, EMTable, v, 0) = TableWork(CostNow, EMTable, m, 0)
  <2> HIDE DEF v
  <2> QED
    BY <1>4 DEF TableWork
<1>6. TableWork(CostNow, EMTable, m, 0) \in Nat /\ Cost(CostNow, m) \in Nat
  <2>1. 0 \in 0 .. HS_MAX_MONITORED_EVENTS
    BY Sizes
  <2> QED
    BY <1>0, <2>1, Costs, TableWorkFrom
<1> QED
  BY <1>1, <1>3, <1>5, <1>6

LEMMA ReceivedWork ==
  ASSUME RanksDescend, StateInv, PipeTypes, LoopInv, Receive
  PROVE  Work' < Work
<1>1. /\ EventPipe # <<>> /\ BufPtr = NoEvent /\ EntryIndex = 0
      /\ BufPtr' = Head(EventPipe) /\ EventPipe' = Tail(EventPipe)
      /\ UNCHANGED <<EMTable, EntryIndex, CostNow>>
  BY DEF Receive, LoopInv, emtVars, CostNow
<1>0. CostNow \in [AnyEvent -> Nat]
  BY CostNowType
<1>2. /\ Head(EventPipe) \in Messages /\ Tail(EventPipe) \in Seq(Messages)
      /\ PipeWork(CostNow, EventPipe) = Cost(CostNow, Head(EventPipe)) + PipeWork(CostNow, Tail(EventPipe))
  BY <1>0, <1>1, ReceiveWork DEF PipeTypes
<1>3. Head(EventPipe) # NoEvent
  BY <1>2, EMTAssumption
<1>4. Work = PipeWork(CostNow, EventPipe) + 0
  BY <1>1 DEF Work
<1>5. Work' = PipeWork(CostNow, Tail(EventPipe)) + TableWork(CostNow, EMTable, Head(EventPipe), 0)
  BY <1>1, <1>3 DEF Work
<1>6. TableWork(CostNow, EMTable, Head(EventPipe), 0) < Cost(CostNow, Head(EventPipe))
  BY <1>2, EventCovered
<1>7. /\ PipeWork(CostNow, Tail(EventPipe)) \in Nat /\ Cost(CostNow, Head(EventPipe)) \in Nat
      /\ TableWork(CostNow, EMTable, Head(EventPipe), 0) \in Nat
  <2>1. 0 \in 0 .. HS_MAX_MONITORED_EVENTS
    BY Sizes
  <2> QED
    BY <1>0, <1>2, <2>1, PipeCosts, Costs, TableWorkFrom
<1> QED
  BY <1>2, <1>4, <1>5, <1>6, <1>7

LEMMA SentWork ==
  ASSUME StateInv, PipeTypes, PipeTypes', SendEvent
  PROVE  \E event \in Events : Work' <= Work + Cost(CostNow, event)
<1>1. PICK v \in Events : EventPipe' = Put(EventPipe, <<[app |-> v.app, id |-> v.id, age |-> 0]>>)
  BY DEF SendEvent
<1>2. UNCHANGED <<BufPtr, EMTable, EntryIndex, CostNow>>
  BY DEF SendEvent, loopVars, emtVars, CostNow
<1>0. CostNow \in [AnyEvent -> Nat]
  BY CostNowType
<1> DEFINE m == [app |-> v.app, id |-> v.id, age |-> 0]
           rest == IF BufPtr = NoEvent THEN 0 ELSE TableWork(CostNow, EMTable, BufPtr, EntryIndex)
<1>3. m \in Messages /\ Cost(CostNow, m) = Cost(CostNow, v)
  BY DEF Messages, AnyEvent, Cost
<1>4. EventPipe' = Put(EventPipe, <<m>>)
  BY <1>1
<1>5. Work = PipeWork(CostNow, EventPipe) + rest /\ Work' = PipeWork(CostNow, EventPipe') + rest
  BY <1>2 DEF Work
<1>6. rest \in Nat
  <2>1. EntryIndex \in 0 .. HS_MAX_MONITORED_EVENTS
    BY Sizes DEF StateInv, StateTypes, EMTIndex
  <2> QED
    BY <1>0, <2>1, TableWorkFrom
<1> HIDE DEF m, rest
<1>7. PipeWork(CostNow, EventPipe') <= PipeWork(CostNow, EventPipe) + Cost(CostNow, m)
  BY <1>0, <1>3, <1>4, PutWork, PipeWorkOne DEF PipeTypes
<1>8. PipeWork(CostNow, EventPipe) \in Nat /\ PipeWork(CostNow, EventPipe') \in Nat /\ Cost(CostNow, m) \in Nat
  BY <1>0, <1>3, PipeCosts, Costs DEF PipeTypes
<1>9. Work' <= Work + Cost(CostNow, m)
  BY <1>5, <1>6, <1>7, <1>8
<1> QED
  BY <1>3, <1>9

LEMMA WorkIsNat == ASSUME StateInv, PipeTypes PROVE Work \in Nat
<1>1. PipeWork(CostNow, EventPipe) \in Nat
  BY CostNowType, PipeCosts DEF PipeTypes
<1>2. EntryIndex \in 0 .. HS_MAX_MONITORED_EVENTS
  BY Sizes DEF StateInv, StateTypes, EMTIndex
<1>3. TableWork(CostNow, EMTable, BufPtr, EntryIndex) \in Nat
  BY <1>2, CostNowType, TableWorkFrom
<1> QED
  BY <1>1, <1>3 DEF Work

LEMMA DrainStep ==
  ASSUME RanksDescend, StateInv, FreshInv, FreshInv', LoopInv, [EMNext]_emVars,
         emPC = "events", emPC' = "events"
  PROVE  IF HSStep THEN Work' < Work
         ELSE Work' <= Work \/ \E event \in Events : SendEvent /\ Work' <= Work + Cost(CostNow, event)
<1>1. PipeTypes /\ PipeTypes'
  BY DEF FreshInv
<1>2. CASE HSStep
  <2>1. Receive \/ HS_MonitorEvent
    BY <1>2 DEF HSStep, HS_TblInit, Startup, StartupFails, StartCycle, StartEvents, NoMessage,
                ReceiveFails, EndCycle, ExitApp, Gone
  <2> QED
    BY <1>1, <1>2, <2>1, ReceivedWork, MonitorEventWork
<1>3. CASE ~HSStep
  <2>1. SendEvent \/ ChangeFormat \/ UNCHANGED emVars
    BY <1>3 DEF EMNext, AppMonMessage, HS_EnableEventMonCmd, EnableFails, HS_DisableEventMonCmd,
                DisableFails, ResetsCmd, RestartHS, ExitApp, Gone
  <2>2. CASE SendEvent
    BY <1>1, <1>3, <2>2, SentWork
  <2>3. CASE ChangeFormat \/ UNCHANGED emVars
    <3>1. UNCHANGED <<EventPipe, BufPtr, EntryIndex, EMTable>>
      BY <2>3 DEF ChangeFormat, loopVars, emtVars, pipeVars, emVars
    <3>2. Work' = Work /\ Work \in Nat
      BY <1>1, <3>1, WorkIsNat DEF Work, CostNow
    <3> QED
      BY <1>3, <3>2
  <2> QED
    BY <2>1, <2>2, <2>3
<1> QED
  BY <1>2, <1>3

(* For all tables that do not feed themselves, the loop that empties the   *)
(* pipe has a bound: each step of HS in it does some of the work left,     *)
(* whatever the actions taken put into the pipe, and only other tasks add  *)
(* to it, each event its own cost.                                         *)
THEOREM DrainsInBoundedWork ==
  ASSUME RanksDescend
  PROVE  EMSpec => DrainShortens /\ [](Work \in Nat)
<1>1. EMInit => LoopInv
  BY DEF EMInit, LoopInv
<1>2. LoopInv /\ [EMNext]_emVars => LoopInv'
  BY LoopStep
<1>3. StateInv /\ FreshInv /\ FreshInv' /\ LoopInv /\ [EMNext]_emVars =>
        [(emPC = "events" /\ emPC' = "events") =>
           IF HSStep THEN Work' < Work
           ELSE Work' <= Work \/ \E event \in Events : SendEvent /\ Work' <= Work + Cost(CostNow, event)]_emVars
  BY DrainStep
<1>4. StateInv /\ FreshInv => Work \in Nat
  BY WorkIsNat DEF FreshInv
<1> QED
  BY <1>1, <1>2, <1>3, <1>4, StateAlways, FreshAlways, PTL DEF EMSpec, DrainShortens
=============================================================================
