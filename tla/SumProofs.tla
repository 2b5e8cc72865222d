------------------------------ MODULE SumProofs -----------------------------
(***************************************************************************)
(* Sums of a function over a finite set, which SumFunctionOnSet of the     *)
(* community modules adds up by choosing one element after the other: that *)
(* the recursion has a solution, and that the order does not matter.       *)
(*                                                                         *)
(* The induction over sets and numbers is by the least counterexample.     *)
(***************************************************************************)
EXTENDS Integers, FiniteSets, FiniteSetsExt, Functions, FiniteSetTheorems, WellFoundedInduction, TLAPS

LEMMA LeastNumber ==
  ASSUME NEW S \in SUBSET Nat, S # {}
  PROVE  \E x \in S : \A y \in S : x <= y
<1>1. PICK x \in S : \A y \in S : ~ (<<y, x>> \in OpToRel(<, Nat))
  BY WFMin, NatLessThanWellFounded
<1>2. \A y \in S : <<y, x>> \in OpToRel(<, Nat) <=> y < x
  BY DEF OpToRel
<1>3. \A y \in S : ~(y < x)
  BY <1>1, <1>2, Zenon
<1> QED
  BY <1>3

LEMMA LeastSubset ==
  ASSUME NEW S, IsFiniteSet(S), NEW C \in SUBSET SUBSET S, C # {}
  PROVE  \E t \in C : \A u \in SUBSET t : u # t => u \notin C
<1>1. IsWellFoundedOn(StrictSubsetOrdering(S), SUBSET S)
  BY FS_StrictSubsetOrderingWellFounded, FS_FiniteSubsetsOfFinite
<1>2. PICK t \in C : \A u \in C : ~ (<<u, t>> \in StrictSubsetOrdering(S))
  BY <1>1, WFMin
<1>3. ASSUME NEW u \in SUBSET t, u # t PROVE u \notin C
  <2>1. <<u, t>> \in StrictSubsetOrdering(S)
    BY <1>3 DEF StrictSubsetOrdering
  <2> QED
    BY <1>2, <2>1
<1> QED
  BY <1>3

(***************************************************************************)
(* The recursion.                                                          *)
(***************************************************************************)
Choice(s) == CHOOSE x \in s : TRUE

AddUp(f, g, s) == IF s = {} THEN 0 ELSE f[Choice(s)] + g[s \ {Choice(s)}]

AddsUp(f, g, sets) == g = [s \in sets |-> AddUp(f, g, s)]

LEMMA ChoiceIsMember == ASSUME NEW s, s # {} PROVE Choice(s) \in s
  BY DEF Choice

LEMMA SumIsChosen ==
  ASSUME NEW f, NEW S
  PROVE  SumFunctionOnSet(f, S) = (CHOOSE g : AddsUp(f, g, SUBSET S))[S]
  BY DEF SumFunctionOnSet, FoldFunctionOnSet, MapThenFoldSet, AddsUp, AddUp, Choice

Smaller(S, n) == {s \in SUBSET S : Cardinality(s) <= n}

LEMMA AddsUpStep ==
  ASSUME NEW f, NEW S, IsFiniteSet(S), NEW n \in Nat, n > 0, NEW g, AddsUp(f, g, Smaller(S, n - 1))
  PROVE  \E h : AddsUp(f, h, Smaller(S, n))
<1> DEFINE h == [s \in Smaller(S, n) |-> AddUp(f, g, s)]
<1>1. ASSUME NEW s \in Smaller(S, n) PROVE AddUp(f, g, s) = AddUp(f, h, s)
  <2>1. CASE s = {}
    BY <2>1 DEF AddUp
  <2>2. CASE s # {}
    <3> DEFINE u == s \ {Choice(s)}
    <3>1. IsFiniteSet(s) /\ Cardinality(s) <= n /\ s \in SUBSET S
      BY FS_Subset DEF Smaller
    <3>2. Cardinality(u) = Cardinality(s) - 1 /\ Cardinality(s) \in Nat /\ u \in SUBSET S
      BY <2>2, <3>1, ChoiceIsMember, FS_RemoveElement, FS_CardinalityType
    <3>3. u \in Smaller(S, n - 1) /\ u \in Smaller(S, n)
      BY <3>1, <3>2 DEF Smaller
    <3>4. g[u] = AddUp(f, g, u)
      BY <3>3 DEF AddsUp
    <3>5. h[u] = AddUp(f, g, u)
      BY <3>3
    <3> QED
      BY <3>4, <3>5 DEF AddUp
  <2> QED
    BY <2>1, <2>2
<1>2. AddsUp(f, h, Smaller(S, n))
  BY <1>1 DEF AddsUp
<1> QED
  BY <1>2

LEMMA SumIsDefined ==
  ASSUME NEW f, NEW S, IsFiniteSet(S)
  PROVE  AddsUp(f, CHOOSE g : AddsUp(f, g, SUBSET S), SUBSET S)
<1> DEFINE C == {n \in Nat : ~ \E g : AddsUp(f, g, Smaller(S, n))}
<1>1. ASSUME C # {} PROVE FALSE
  <2>1. PICK n \in C : \A m \in C : n <= m
    BY <1>1, LeastNumber
  <2>2. CASE n = 0
    <3>1. \A s \in Smaller(S, 0) : s = {}
      <4> SUFFICES ASSUME NEW s \in Smaller(S, 0) PROVE s = {}
        OBVIOUS
      <4>1. IsFiniteSet(s) /\ Cardinality(s) \in Nat /\ Cardinality(s) <= 0
        BY FS_Subset, FS_CardinalityType DEF Smaller
      <4> QED
        BY <4>1, FS_EmptySet
    <3>2. AddsUp(f, [s \in Smaller(S, 0) |-> 0], Smaller(S, 0))
      BY <3>1 DEF AddsUp, AddUp
    <3> QED
      BY <2>1, <2>2, <3>2
  <2>3. CASE n # 0
    <3>1. n - 1 \in Nat /\ n > 0 /\ n - 1 \notin C
      BY <2>1, <2>3
    <3>2. PICK g : AddsUp(f, g, Smaller(S, n - 1))
      BY <3>1
    <3> QED
      BY <2>1, <3>1, <3>2, AddsUpStep
  <2> QED
    BY <2>2, <2>3
<1>2. Cardinality(S) \in Nat
  BY FS_CardinalityType
<1>3. PICK g : AddsUp(f, g, Smaller(S, Cardinality(S)))
  BY <1>1, <1>2
<1>4. Smaller(S, Cardinality(S)) = SUBSET S
  BY FS_Subset DEF Smaller
<1> QED
  BY <1>3, <1>4

(* What is added up for a set does not depend on the sets around it.       *)
LEMMA SumIsUnique ==
  ASSUME NEW f, NEW S, IsFiniteSet(S), NEW s \in SUBSET S,
         NEW g, AddsUp(f, g, SUBSET S), NEW h, AddsUp(f, h, SUBSET s)
  PROVE  h[s] = g[s]
<1> DEFINE C == {u \in SUBSET s : h[u] # g[u]}
<1> SUFFICES ASSUME C # {} PROVE FALSE
  OBVIOUS
<1>1. IsFiniteSet(s)
  BY FS_Subset
<1>2. PICK t \in C : \A u \in SUBSET t : u # t => u \notin C
  <2>1. C \in SUBSET SUBSET s
    OBVIOUS
  <2> HIDE DEF C
  <2> QED
    BY <1>1, <2>1, LeastSubset
<1>3. h[t] = AddUp(f, h, t) /\ g[t] = AddUp(f, g, t)
  BY DEF AddsUp
<1>4. t # {}
  BY <1>3 DEF AddUp
<1>5. t \ {Choice(t)} \in SUBSET t /\ t \ {Choice(t)} # t
  BY <1>4, ChoiceIsMember
<1>6. h[t \ {Choice(t)}] = g[t \ {Choice(t)}]
  BY <1>2, <1>5
<1> QED
  BY <1>3, <1>6 DEF AddUp

LEMMA SumOfNothing == ASSUME NEW f PROVE SumFunctionOnSet(f, {}) = 0
<1>1. AddsUp(f, CHOOSE g : AddsUp(f, g, SUBSET {}), SUBSET {})
  BY FS_EmptySet, SumIsDefined
<1> QED
  BY <1>1, SumIsChosen DEF AddsUp, AddUp

LEMMA SumOfChoice ==
  ASSUME NEW f, NEW S, IsFiniteSet(S), S # {}
  PROVE  SumFunctionOnSet(f, S) = f[Choice(S)] + SumFunctionOnSet(f, S \ {Choice(S)})
<1> DEFINE s == S \ {Choice(S)}
           g == CHOOSE g : AddsUp(f, g, SUBSET S)
           h == CHOOSE h : AddsUp(f, h, SUBSET s)
<1>1. IsFiniteSet(s) /\ s \in SUBSET S
  BY FS_Subset
<1>2. AddsUp(f, g, SUBSET S) /\ AddsUp(f, h, SUBSET s)
  BY <1>1, SumIsDefined
<1>3. SumFunctionOnSet(f, S) = g[S] /\ SumFunctionOnSet(f, s) = h[s]
  BY SumIsChosen
<1> HIDE DEF g, h
<1>4. h[s] = g[s]
  BY <1>1, <1>2, SumIsUnique
<1>5. g[S] = f[Choice(S)] + g[s]
  BY <1>2 DEF AddsUp, AddUp
<1> QED
  BY <1>3, <1>4, <1>5

(***************************************************************************)
(* Sums of integers.                                                       *)
(***************************************************************************)
LEMMA SumType ==
  ASSUME NEW f, NEW S, IsFiniteSet(S), \A i \in S : f[i] \in Int
  PROVE  SumFunctionOnSet(f, S) \in Int
<1> DEFINE C == {t \in SUBSET S : ~(SumFunctionOnSet(f, t) \in Int)}
<1> SUFFICES ASSUME C # {} PROVE FALSE
  OBVIOUS
<1>1. PICK t \in C : \A u \in SUBSET t : u # t => u \notin C
  <2>1. C \in SUBSET SUBSET S
    OBVIOUS
  <2> HIDE DEF C
  <2> QED
    BY <2>1, LeastSubset
<1>2. t # {} /\ IsFiniteSet(t)
  <2>1. t # {}
    BY SumOfNothing
  <2> QED
    BY <2>1, FS_Subset
<1>3. t \ {Choice(t)} \in SUBSET t /\ t \ {Choice(t)} # t /\ Choice(t) \in S
  BY <1>2, ChoiceIsMember
<1>4. SumFunctionOnSet(f, t \ {Choice(t)}) \in Int
  BY <1>1, <1>3
<1>5. SumFunctionOnSet(f, t) = f[Choice(t)] + SumFunctionOnSet(f, t \ {Choice(t)})
  BY <1>2, SumOfChoice
<1> QED
  BY <1>3, <1>4, <1>5

(* Any element can be taken out first.                                     *)
LEMMA SumWithout ==
  ASSUME NEW f, NEW S, IsFiniteSet(S), \A i \in S : f[i] \in Int, NEW x \in S
  PROVE  SumFunctionOnSet(f, S) = f[x] + SumFunctionOnSet(f, S \ {x})
<1> DEFINE C == {t \in SUBSET S : \E y \in t :
                   SumFunctionOnSet(f, t) # f[y] + SumFunctionOnSet(f, t \ {y})}
<1> SUFFICES ASSUME C # {} PROVE FALSE
  OBVIOUS
<1>1. PICK t \in C : \A u \in SUBSET t : u # t => u \notin C
  <2>1. C \in SUBSET SUBSET S
    OBVIOUS
  <2> HIDE DEF C
  <2> QED
    BY <2>1, LeastSubset
<1>2. PICK y \in t : SumFunctionOnSet(f, t) # f[y] + SumFunctionOnSet(f, t \ {y})
  OBVIOUS
<1> DEFINE c == Choice(t)
<1>3. IsFiniteSet(t) /\ t # {} /\ c \in t /\ t \in SUBSET S
  BY <1>2, FS_Subset, ChoiceIsMember
<1>4. SumFunctionOnSet(f, t) = f[c] + SumFunctionOnSet(f, t \ {c})
  BY <1>3, SumOfChoice
<1>5. c # y
  BY <1>2, <1>4
<1>6. SumFunctionOnSet(f, t \ {c}) = f[y] + SumFunctionOnSet(f, (t \ {c}) \ {y})
  <2>1. t \ {c} \in SUBSET t /\ t \ {c} # t /\ y \in t \ {c}
    BY <1>3, <1>5
  <2> QED
    BY <1>1, <1>3, <2>1
<1>7. SumFunctionOnSet(f, t \ {y}) = f[c] + SumFunctionOnSet(f, (t \ {y}) \ {c})
  <2>1. t \ {y} \in SUBSET t /\ t \ {y} # t /\ c \in t \ {y}
    BY <1>3, <1>5
  <2> QED
    BY <1>1, <1>3, <2>1
<1>8. (t \ {y}) \ {c} = (t \ {c}) \ {y}
  OBVIOUS
<1>9. f[c] \in Int /\ f[y] \in Int /\ SumFunctionOnSet(f, (t \ {c}) \ {y}) \in Int
  <2>1. IsFiniteSet((t \ {c}) \ {y}) /\ \A i \in (t \ {c}) \ {y} : f[i] \in Int
    BY <1>3, FS_Subset
  <2> QED
    BY <1>3, <2>1, SumType
<1> DEFINE rest == SumFunctionOnSet(f, (t \ {c}) \ {y})
<1>10. f[c] + (f[y] + rest) = f[y] + (f[c] + rest)
  <2> HIDE DEF c, rest
  <2> QED
    BY <1>9 DEF rest
<1> QED
  BY <1>2, <1>4, <1>6, <1>7, <1>8, <1>10

(* The same numbers under other names.                                     *)
LEMMA SumRenamed ==
  ASSUME NEW f, NEW g, NEW S, IsFiniteSet(S), NEW R, IsFiniteSet(R), NEW name \in [S -> R],
         \A i, j \in S : name[i] = name[j] => i = j,
         \A i \in S : f[i] \in Int /\ g[name[i]] = f[i]
  PROVE  SumFunctionOnSet(f, S) = SumFunctionOnSet(g, {name[i] : i \in S})
<1> DEFINE names(t) == {name[i] : i \in t}
           C == {t \in SUBSET S : SumFunctionOnSet(f, t) # SumFunctionOnSet(g, names(t))}
<1> SUFFICES ASSUME C # {} PROVE FALSE
  OBVIOUS
<1>1. PICK t \in C : \A u \in SUBSET t : u # t => u \notin C
  <2>1. C \in SUBSET SUBSET S
    OBVIOUS
  <2> HIDE DEF C
  <2> QED
    BY <2>1, LeastSubset
<1>2. t # {}
  <2>1. names({}) = {}
    OBVIOUS
  <2> HIDE DEF names
  <2> QED
    BY <2>1, SumOfNothing
<1> DEFINE c == Choice(t)
<1>3. IsFiniteSet(t) /\ c \in t /\ t \in SUBSET S
  BY <1>2, FS_Subset, ChoiceIsMember
<1>4. SumFunctionOnSet(f, t) = f[c] + SumFunctionOnSet(f, t \ {c})
  BY <1>2, <1>3, SumOfChoice
<1>5. SumFunctionOnSet(f, t \ {c}) = SumFunctionOnSet(g, names(t \ {c}))
  <2>1. t \ {c} \in SUBSET t /\ t \ {c} # t
    BY <1>3
  <2> QED
    BY <1>1, <1>3, <2>1
<1>6. names(t) \ {name[c]} = names(t \ {c}) /\ name[c] \in names(t)
  BY <1>3
<1>7. SumFunctionOnSet(g, names(t)) = g[name[c]] + SumFunctionOnSet(g, names(t) \ {name[c]})
  <2>1. names(t) \in SUBSET R /\ \A i \in names(t) : g[i] \in Int
    BY <1>3
  <2>2. IsFiniteSet(names(t))
    BY <2>1, FS_Subset
  <2> HIDE DEF names
  <2> QED
    BY <1>6, <2>1, <2>2, SumWithout
<1>8. g[name[c]] = f[c]
  BY <1>3
<1>9. SumFunctionOnSet(f, t) # SumFunctionOnSet(g, names(t))
  OBVIOUS
<1> HIDE DEF names, c
<1> QED
  BY <1>4, <1>5, <1>6, <1>7, <1>8, <1>9

(* Numbers that agree have the same sum.                                   *)
LEMMA SumCongruent ==
  ASSUME NEW f, NEW g, NEW S, IsFiniteSet(S), \A i \in S : f[i] \in Int /\ g[i] = f[i]
  PROVE  SumFunctionOnSet(f, S) = SumFunctionOnSet(g, S)
<1> DEFINE name == [i \in S |-> i]
<1>1. name \in [S -> S] /\ {name[i] : i \in S} = S
  OBVIOUS
<1>2. \A i, j \in S : name[i] = name[j] => i = j
  OBVIOUS
<1>3. \A i \in S : f[i] \in Int /\ g[name[i]] = f[i]
  OBVIOUS
<1> HIDE DEF name
<1>4. SumFunctionOnSet(f, S) = SumFunctionOnSet(g, {name[i] : i \in S})
  BY <1>1, <1>2, <1>3, SumRenamed
<1> QED
  BY <1>1, <1>4

LEMMA SumNat ==
  ASSUME NEW f, NEW S, IsFiniteSet(S), \A i \in S : f[i] \in Nat
  PROVE  SumFunctionOnSet(f, S) \in Nat
<1> DEFINE C == {t \in SUBSET S : SumFunctionOnSet(f, t) \notin Nat}
<1> SUFFICES ASSUME C # {} PROVE FALSE
  OBVIOUS
<1>1. PICK t \in C : \A u \in SUBSET t : u # t => u \notin C
  <2>1. C \in SUBSET SUBSET S
    OBVIOUS
  <2> HIDE DEF C
  <2> QED
    BY <2>1, LeastSubset
<1>2. t # {} /\ IsFiniteSet(t)
  <2>1. t # {}
    BY SumOfNothing
  <2> QED
    BY <2>1, FS_Subset
<1>3. t \ {Choice(t)} \in SUBSET t /\ t \ {Choice(t)} # t /\ Choice(t) \in S
  BY <1>2, ChoiceIsMember
<1>4. SumFunctionOnSet(f, t \ {Choice(t)}) \in Nat
  BY <1>1, <1>3
<1>5. SumFunctionOnSet(f, t) = f[Choice(t)] + SumFunctionOnSet(f, t \ {Choice(t)})
  BY <1>2, SumOfChoice
<1> QED
  BY <1>3, <1>4, <1>5

(* A sum is that of two parts.                                             *)
LEMMA SumOfParts ==
  ASSUME NEW f, NEW S, IsFiniteSet(S), NEW T, IsFiniteSet(T), S \cap T = {},
         \A i \in S \cup T : f[i] \in Int
  PROVE  SumFunctionOnSet(f, S \cup T) = SumFunctionOnSet(f, S) + SumFunctionOnSet(f, T)
<1> DEFINE C == {t \in SUBSET S : SumFunctionOnSet(f, t \cup T) #
                                    SumFunctionOnSet(f, t) + SumFunctionOnSet(f, T)}
<1> SUFFICES ASSUME C # {} PROVE FALSE
  OBVIOUS
<1>1. PICK t \in C : \A u \in SUBSET t : u # t => u \notin C
  <2>1. C \in SUBSET SUBSET S
    OBVIOUS
  <2> HIDE DEF C
  <2> QED
    BY <2>1, LeastSubset
<1>2. SumFunctionOnSet(f, T) \in Int
  BY SumType
<1>3. t # {}
  <2>1. {} \cup T = T
    OBVIOUS
  <2>2. SumFunctionOnSet(f, {} \cup T) = SumFunctionOnSet(f, {}) + SumFunctionOnSet(f, T)
    BY <1>2, <2>1, SumOfNothing
  <2> QED
    BY <2>2
<1> DEFINE c == Choice(t)
           u == t \ {c}
<1>4. c \in t /\ u \in SUBSET t /\ u # t /\ u \in SUBSET S /\ IsFiniteSet(t) /\ IsFiniteSet(u)
  BY <1>3, ChoiceIsMember, FS_Subset
<1>5. SumFunctionOnSet(f, u \cup T) = SumFunctionOnSet(f, u) + SumFunctionOnSet(f, T)
  BY <1>1, <1>4
<1>6. SumFunctionOnSet(f, t) = f[c] + SumFunctionOnSet(f, u)
  BY <1>3, <1>4, SumOfChoice
<1>7. SumFunctionOnSet(f, t \cup T) = f[c] + SumFunctionOnSet(f, u \cup T)
  <2>1. IsFiniteSet(t \cup T)
    BY <1>4, FS_Union
  <2>2. c \in t \cup T /\ (t \cup T) \ {c} = u \cup T /\ \A i \in t \cup T : f[i] \in Int
    BY <1>4
  <2>3. SumFunctionOnSet(f, t \cup T) = f[c] + SumFunctionOnSet(f, (t \cup T) \ {c})
    <3> HIDE DEF c, u
    <3> QED
      BY <2>1, <2>2, SumWithout
  <2> QED
    BY <2>2, <2>3
<1>8. f[c] \in Int /\ SumFunctionOnSet(f, u) \in Int
  BY <1>4, SumType
<1>9. SumFunctionOnSet(f, t \cup T) # SumFunctionOnSet(f, t) + SumFunctionOnSet(f, T)
  OBVIOUS
<1> HIDE DEF c, u
<1> QED
  BY <1>2, <1>5, <1>6, <1>7, <1>8, <1>9

(* Fewer natural numbers have no larger sum.                               *)
LEMMA SumMonotone ==
  ASSUME NEW f, NEW S, IsFiniteSet(S), NEW T \in SUBSET S, \A i \in S : f[i] \in Nat
  PROVE  SumFunctionOnSet(f, T) <= SumFunctionOnSet(f, S)
<1>1. IsFiniteSet(T) /\ IsFiniteSet(S \ T)
  BY FS_Subset
<1>2. T \cup (S \ T) = S /\ T \cap (S \ T) = {}
  OBVIOUS
<1>3. SumFunctionOnSet(f, T \cup (S \ T)) = SumFunctionOnSet(f, T) + SumFunctionOnSet(f, S \ T)
  BY <1>1, <1>2, SumOfParts
<1>4. SumFunctionOnSet(f, T) \in Nat /\ SumFunctionOnSet(f, S \ T) \in Nat
  BY <1>1, SumNat
<1>5. SumFunctionOnSet(f, S) = SumFunctionOnSet(f, T) + SumFunctionOnSet(f, S \ T)
  BY <1>2, <1>3, Zenon
<1> QED
  BY <1>4, <1>5

(* A sum of as many numbers as n, none of which exceeds m, is within n * m. *)
LEMMA SumBounded ==
  ASSUME NEW f, NEW S, IsFiniteSet(S), NEW m \in Nat, \A i \in S : f[i] \in 0 .. m
  PROVE  SumFunctionOnSet(f, S) \in 0 .. Cardinality(S) * m
<1> DEFINE C == {t \in SUBSET S : SumFunctionOnSet(f, t) \notin 0 .. Cardinality(t) * m}
<1> SUFFICES ASSUME C # {} PROVE FALSE
  OBVIOUS
<1>1. PICK t \in C : \A u \in SUBSET t : u # t => u \notin C
  <2>1. C \in SUBSET SUBSET S
    OBVIOUS
  <2> HIDE DEF C
  <2> QED
    BY <2>1, LeastSubset
<1>2. t # {}
  <2>1. Cardinality({}) = 0 /\ SumFunctionOnSet(f, {}) = 0 /\ 0 * m = 0
    BY SumOfNothing, FS_EmptySet
  <2>2. SumFunctionOnSet(f, {}) \in 0 .. Cardinality({}) * m
    BY <2>1
  <2>3. SumFunctionOnSet(f, t) \notin 0 .. Cardinality(t) * m
    OBVIOUS
  <2> QED
    BY <2>2, <2>3
<1> DEFINE u == t \ {Choice(t)}
<1>3. IsFiniteSet(t) /\ Choice(t) \in S /\ u \in SUBSET t /\ u # t /\ u \in SUBSET S
  BY <1>2, FS_Subset, ChoiceIsMember
<1>4. SumFunctionOnSet(f, t) = f[Choice(t)] + SumFunctionOnSet(f, u)
  BY <1>2, <1>3, SumOfChoice
<1>5. SumFunctionOnSet(f, u) \in 0 .. Cardinality(u) * m
  BY <1>1, <1>3
<1>6. Cardinality(u) \in Nat /\ Cardinality(t) = Cardinality(u) + 1
  <2>1. Choice(t) \in t
    BY <1>2, ChoiceIsMember
  <2>2. Cardinality(u) = Cardinality(t) - 1
    BY <1>3, <2>1, FS_RemoveElement
  <2>3. IsFiniteSet(u)
    BY <1>3, FS_Subset
  <2>4. Cardinality(u) \in Nat /\ Cardinality(t) \in Nat
    BY <1>3, <2>3, FS_CardinalityType
  <2> QED
    BY <2>2, <2>4
<1>7. (Cardinality(u) + 1) * m = Cardinality(u) * m + m
  BY <1>6
<1>8. f[Choice(t)] \in 0 .. m
  BY <1>3
<1>9. SumFunctionOnSet(f, t) \notin 0 .. Cardinality(t) * m
  OBVIOUS
<1>10. Cardinality(u) * m \in Nat
  BY <1>6
<1> HIDE DEF u
<1> QED
  BY <1>4, <1>5, <1>6, <1>7, <1>8, <1>9, <1>10
=============================================================================
