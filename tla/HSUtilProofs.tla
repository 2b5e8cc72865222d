---------------------------- MODULE HSUtilProofs ----------------------------
(***************************************************************************)
(* Hogging is reported just when it should be, and noticed in time, for    *)
(* every timeout, interval and threshold; and the ring buffer implements   *)
(* the abstract window, for every size of it and of the average.           *)
(***************************************************************************)
EXTENDS HSUtil, SumProofs

T == HS_UTIL_HOGGING_TIMEOUT
N == HS_CPU_UTILIZATION_CYCLES_PER_INTERVAL

LEMMA Bounds ==
  /\ T \in Nat /\ T > 0
  /\ N \in Nat /\ N > 0
  /\ MaxHoggingTime \in Nat /\ MaxHoggingTime > T
  /\ AllCycles \in Nat /\ AllCycles = T * N
<1>1. T \in Nat /\ T > 0
  BY ConfigVerified, WidthAssumption DEF UtilizationVerified, T
<1>2. N \in Nat /\ N > 0
  BY IntervalAssumption DEF N
<1>3. MaxHoggingTime \in Nat /\ MaxHoggingTime > T
  BY ScaleAssumption DEF T
<1>4. AllCycles = T * N
  BY DEF AllCycles, T, N
<1> QED
  BY <1>1, <1>2, <1>3, <1>4

LEMMA MinOfPair ==
  ASSUME NEW a \in Int, NEW b \in Int
  PROVE  Min({a, b}) = IF a <= b THEN a ELSE b
<1> DEFINE m == IF a <= b THEN a ELSE b
<1>1. m \in {a, b} /\ \A y \in {a, b} : m <= y
  OBVIOUS
<1>2. \A x \in {a, b} : (\A y \in {a, b} : x <= y) => x = m
  OBVIOUS
<1> QED
  BY <1>1, <1>2 DEF Min

(* What the number of hogging intervals counts: the length of the run of   *)
(* hogging readings that ends with the latest, and, as every interval has  *)
(* one reading, no fewer intervals than the hogging cycles fill.           *)
HogInv ==
  /\ CurrentCPUHoggingTime \in 0 .. MaxHoggingTime
  /\ UtilizationCycleCounter \in 0 .. N - 1
  /\ known \in BOOLEAN /\ reported \in BOOLEAN /\ noticed \in BOOLEAN
  /\ hogs \in [0 .. T -> BOOLEAN]
  /\ hoggedCycles \in 0 .. AllCycles
  /\ noticed <=> CurrentCPUHoggingTime >= T
  /\ hoggedCycles <= CurrentCPUHoggingTime * N + (N - 1 - UtilizationCycleCounter)
  /\ \A k \in 0 .. T : (\A j \in 0 .. k : hogs[j]) <=> CurrentCPUHoggingTime > k
  /\ HogReported

(* The memory of HS after HS_AppInit, primed or not.                       *)
LEMMA NoHogsInv ==
  /\ NoHogs \in [0 .. T -> BOOLEAN]
  /\ \A k \in 0 .. T : ~(\A j \in 0 .. k : NoHogs[j])
<1>1. NoHogs \in [0 .. T -> BOOLEAN] /\ \A j \in 0 .. T : NoHogs[j] = FALSE
  BY DEF NoHogs, T
<1>2. \A k \in 0 .. T : 0 \in 0 .. k /\ 0 \in 0 .. T
  BY Bounds
<1> QED
  BY <1>1, <1>2

LEMMA HogInit == UtilInit => HogInv
<1> SUFFICES ASSUME UtilInit PROVE HogInv
  OBVIOUS
<1>1. CurrentCPUHoggingTime = 0 /\ UtilizationCycleCounter = 0 /\ hoggedCycles = 0
  BY DEF UtilInit
<1>2. known = FALSE /\ reported = FALSE /\ noticed = FALSE /\ hogs = NoHogs
  BY DEF UtilInit
<1>3. 0 * N = 0
  BY Bounds
<1>4. \A k \in 0 .. T : (\A j \in 0 .. k : hogs[j]) <=> CurrentCPUHoggingTime > k
  <2>1. \A k \in 0 .. T : ~(CurrentCPUHoggingTime > k)
    BY <1>1, Bounds
  <2> QED
    BY <1>2, <2>1, NoHogsInv
<1>5. HogReported
  BY <1>2 DEF HogReported
<1>6. noticed <=> CurrentCPUHoggingTime >= T
  BY <1>1, <1>2, Bounds
<1>7. /\ CurrentCPUHoggingTime \in 0 .. MaxHoggingTime /\ hoggedCycles \in 0 .. AllCycles
      /\ UtilizationCycleCounter \in 0 .. N - 1
      /\ hoggedCycles <= CurrentCPUHoggingTime * N + (N - 1 - UtilizationCycleCounter)
  <2>1. 0 \in 0 .. MaxHoggingTime /\ 0 \in 0 .. AllCycles /\ 0 \in 0 .. N - 1 /\ 0 <= N - 1 - 0
    BY Bounds
  <2> QED
    BY <1>1, <1>3, <2>1, Bounds
<1>8. known \in BOOLEAN /\ reported \in BOOLEAN /\ noticed \in BOOLEAN /\ hogs \in [0 .. T -> BOOLEAN]
  BY <1>2, NoHogsInv
<1> QED
  BY <1>4, <1>5, <1>6, <1>7, <1>8 DEF HogInv

LEMMA HogRestart == RestartHS => HogInv'
<1> SUFFICES ASSUME RestartHS PROVE HogInv'
  OBVIOUS
<1>1. CurrentCPUHoggingTime' = 0 /\ UtilizationCycleCounter' = 0 /\ hoggedCycles' = 0
  BY DEF RestartHS
<1>2. known' = FALSE /\ reported' = FALSE /\ noticed' = FALSE /\ hogs' = NoHogs
  BY DEF RestartHS
<1>3. 0 * N = 0
  BY Bounds
<1>4. \A k \in 0 .. T : (\A j \in 0 .. k : hogs'[j]) <=> CurrentCPUHoggingTime' > k
  <2>1. \A k \in 0 .. T : ~(CurrentCPUHoggingTime' > k)
    BY <1>1, Bounds
  <2> QED
    BY <1>2, <2>1, NoHogsInv
<1>5. HogReported'
  BY <1>2 DEF HogReported
<1>6. noticed' <=> CurrentCPUHoggingTime' >= T
  BY <1>1, <1>2, Bounds
<1>7. /\ CurrentCPUHoggingTime' \in 0 .. MaxHoggingTime /\ hoggedCycles' \in 0 .. AllCycles
      /\ UtilizationCycleCounter' \in 0 .. N - 1
      /\ hoggedCycles' <= CurrentCPUHoggingTime' * N + (N - 1 - UtilizationCycleCounter')
  <2>1. 0 \in 0 .. MaxHoggingTime /\ 0 \in 0 .. AllCycles /\ 0 \in 0 .. N - 1 /\ 0 <= N - 1 - 0
    BY Bounds
  <2> QED
    BY <1>1, <1>3, <2>1, Bounds
<1>8. known' \in BOOLEAN /\ reported' \in BOOLEAN /\ noticed' \in BOOLEAN /\ hogs' \in [0 .. T -> BOOLEAN]
  BY <1>2, NoHogsInv
<1> QED
  BY <1>4, <1>5, <1>6, <1>7, <1>8 DEF HogInv

(***************************************************************************)
(* A reading: the run of hogging readings, and the event.                  *)
(***************************************************************************)
RunExact == \A k \in 0 .. T : (\A j \in 0 .. k : hogs[j]) <=> CurrentCPUHoggingTime > k

LEMMA CountHoggingRun ==
  ASSUME HogInv, NEW util, CountHogging(util), known' = TRUE
  PROVE  /\ CurrentCPUHoggingTime' \in 0 .. MaxHoggingTime
         /\ reported' \in BOOLEAN /\ noticed' \in BOOLEAN
         /\ hogs' \in [0 .. T -> BOOLEAN]
         /\ noticed' <=> CurrentCPUHoggingTime' >= T
         /\ RunExact'
         /\ HogReported'
         /\ Hogs(util) => CurrentCPUHoggingTime' = MaxHoggingTime
                          \/ CurrentCPUHoggingTime' = CurrentCPUHoggingTime + 1
         /\ ~Hogs(util) => CurrentCPUHoggingTime' = 0
<1> DEFINE time == CurrentCPUHoggingTime
           h == Hogs(util)
<1>1. time \in 0 .. MaxHoggingTime /\ time \in Int /\ MaxHoggingTime \in Int
  BY Bounds DEF HogInv
<1>2. h \in BOOLEAN
  BY DEF Hogs
<1>3. ~h => time' = 0
  BY DEF CountHogging
<1>4. h => time' = IF time + 1 <= MaxHoggingTime THEN time + 1 ELSE MaxHoggingTime
  <2>1. Min({time + 1, MaxHoggingTime}) = IF time + 1 <= MaxHoggingTime THEN time + 1 ELSE MaxHoggingTime
    BY <1>1, MinOfPair
  <2> QED
    BY <2>1 DEF CountHogging
<1>5. time' \in 0 .. MaxHoggingTime
  BY <1>1, <1>2, <1>3, <1>4, Bounds
<1>6. hogs' = [k \in 0 .. T |-> IF k = 0 THEN h ELSE hogs[k - 1]]
  BY DEF CountHogging, HogInv
<1>7. hogs' \in [0 .. T -> BOOLEAN]
  <2>1. \A k \in 0 .. T : k # 0 => k - 1 \in 0 .. T
    BY Bounds
  <2>2. \A k \in 0 .. T : k # 0 => hogs[k - 1] \in BOOLEAN
    BY <2>1 DEF HogInv
  <2> QED
    BY <1>2, <1>6, <2>2
<1>8. RunExact'
  <2> SUFFICES ASSUME NEW k \in 0 .. T
               PROVE  (\A j \in 0 .. k : hogs'[j]) <=> time' > k
    BY Bounds DEF RunExact
  <2>1. 0 \in 0 .. T /\ 0 \in 0 .. k /\ k \in Nat
    BY Bounds
  <2>2. hogs'[0] = h
    BY <1>6, <2>1
  <2>3. CASE ~h
    <3>1. ~(\A j \in 0 .. k : hogs'[j])
      BY <2>1, <2>2, <2>3
    <3>2. ~(time' > k)
      BY <1>3, <2>1, <2>3
    <3> QED
      BY <3>1, <3>2
  <2>4. CASE h /\ k = 0
    <3>1. \A j \in 0 .. k : j = 0
      BY <2>4
    <3>2. \A j \in 0 .. k : hogs'[j]
      BY <2>2, <2>4, <3>1
    <3>3. time' > k
      BY <1>1, <1>4, <2>4, Bounds
    <3> QED
      BY <3>2, <3>3
  <2>5. CASE h /\ k # 0
    <3>1. k - 1 \in 0 .. T
      BY <2>1, <2>5, Bounds
    <3>2. (\A j \in 0 .. k - 1 : hogs[j]) <=> time > k - 1
      BY <3>1 DEF HogInv
    <3>3. time > k - 1 <=> time' > k
      BY <1>1, <1>4, <2>1, <2>5, Bounds
    <3>4. \A j \in 0 .. k : j # 0 => j \in 0 .. T /\ j - 1 \in 0 .. k - 1
      BY <2>1, Bounds
    <3>5. \A j \in 0 .. k : j # 0 => hogs'[j] = hogs[j - 1]
      BY <1>6, <3>4
    <3>6. \A j \in 0 .. k - 1 : j + 1 \in 0 .. k /\ j + 1 # 0 /\ (j + 1) - 1 = j
      BY <2>1
    <3>7. ASSUME \A j \in 0 .. k - 1 : hogs[j] PROVE \A j \in 0 .. k : hogs'[j]
      BY <2>2, <2>5, <3>4, <3>5, <3>7
    <3>8. ASSUME \A j \in 0 .. k : hogs'[j] PROVE \A j \in 0 .. k - 1 : hogs[j]
      BY <3>5, <3>6, <3>8
    <3> QED
      BY <3>2, <3>3, <3>7, <3>8
  <2> QED
    BY <1>2, <2>3, <2>4, <2>5
<1>9. reported' \in BOOLEAN /\ noticed' \in BOOLEAN
  BY DEF CountHogging
<1>10. noticed' <=> time' >= T
  <2>1. noticed' <=> h /\ (noticed \/ time' = T)
    BY DEF CountHogging, T
  <2>2. CASE ~h
    BY <1>3, <2>1, <2>2, Bounds
  <2>3. CASE h
    <3>1. noticed <=> time >= T
      BY DEF HogInv
    <3>2. time' >= T <=> time >= T \/ time' = T
      BY <1>1, <1>4, <2>3, Bounds
    <3> QED
      BY <2>1, <2>3, <3>1, <3>2
  <2> QED
    BY <2>2, <2>3
<1>11. HogReported'
  <2>1. reported' <=> h /\ time' = T
    BY DEF CountHogging, T
  <2>2. T - 1 \in 0 .. T /\ T \in 0 .. T
    BY Bounds
  <2>3. (\A j \in 0 .. T - 1 : hogs'[j]) <=> time' > T - 1
    BY <1>8, <2>2 DEF RunExact
  <2>4. (\A j \in 0 .. T : hogs'[j]) <=> time' > T
    BY <1>8, <2>2 DEF RunExact
  <2>5. \A j \in 0 .. T : j = T \/ j \in 0 .. T - 1
    BY Bounds
  <2>6. time' > T - 1 <=> time' = T \/ time' > T
    BY <1>5, Bounds
  <2>7. ~(time' = T /\ time' > T)
    BY <1>5, Bounds
  <2>8. \A j \in 0 .. T - 1 : j \in 0 .. T
    BY Bounds
  <2>9. (\A j \in 0 .. T - 1 : hogs'[j]) /\ hogs'[T] <=> (\A j \in 0 .. T : hogs'[j])
    BY <2>2, <2>5, <2>8
  <2>10. (\A j \in 0 .. T - 1 : hogs'[j]) /\ ~hogs'[T] <=> time' = T
    BY <2>3, <2>4, <2>6, <2>7, <2>9
  <2>11. time' = T => h
    BY <1>3, Bounds
  <2>12. reported' <=> time' = T
    BY <1>2, <2>1, <2>11
  <2> QED
    BY <2>10, <2>12 DEF HogReported, T
<1> QED
  BY <1>3, <1>4, <1>5, <1>7, <1>8, <1>9, <1>10, <1>11

(***************************************************************************)
(* A cycle.                                                                *)
(***************************************************************************)
LEMMA OneMoreTimes == ASSUME NEW a \in Int, NEW n \in Int PROVE (a + 1) * n = a * n + n
  OBVIOUS

LEMMA TimesGrows ==
  ASSUME NEW a \in Nat, NEW b \in Nat, NEW n \in Nat, a <= b
  PROVE  a * n <= b * n /\ a * n \in Nat /\ b * n \in Nat
<1>1. PICK d \in Nat : b = a + d
  <2>1. b - a \in Nat /\ b = a + (b - a)
    OBVIOUS
  <2> QED
    BY <2>1
<1>2. b * n = a * n + d * n
  BY <1>1
<1>3. a * n \in Nat /\ d * n \in Nat
  BY <1>1
<1> QED
  BY <1>2, <1>3

LEMMA UtilIsInt ==
  ASSUME NEW sample \in Samples \cup {NoSample}
  PROVE  HS_SysMonGetCpuUtilization(sample) \in Int
<1>1. HS_CPU_UTILIZATION_MAX \in Nat
  BY ConfigVerified, WidthAssumption DEF UtilizationVerified
<1>2. CASE sample \in Nat
  <2>1. sample \div 256 \in Nat
    BY <1>2
  <2>2. (sample \div 256) * HS_CPU_UTILIZATION_MAX \in Nat
    BY <1>1, <2>1
  <2>3. ((sample \div 256) * HS_CPU_UTILIZATION_MAX) \div 65535 \in Int
    BY <2>2
  <2> QED
    BY <2>3 DEF HS_SysMonGetCpuUtilization, NOT_READ
<1>3. CASE sample = NoSample
  BY <1>3 DEF HS_SysMonGetCpuUtilization, NOT_READ
<1> QED
  BY <1>2, <1>3, ScaleAssumption

LEMMA HogCycle ==
  ASSUME HogInv, NEW sample \in Samples \cup {NoSample}, HS_ProcessMain(sample)
  PROVE  HogInv'
<1> DEFINE util == HS_SysMonGetCpuUtilization(sample)
           h == util >= 0 /\ Hogs(util)
           time == CurrentCPUHoggingTime
           c == UtilizationCycleCounter
<1>1. util \in Int
  BY UtilIsInt
<1>2. time \in Nat /\ time <= MaxHoggingTime /\ c \in 0 .. N - 1 /\ hoggedCycles \in 0 .. AllCycles
  BY Bounds DEF HogInv
<1>3. time * N \in Nat /\ T * N <= MaxHoggingTime * N /\ MaxHoggingTime * N \in Nat
  BY <1>2, Bounds, TimesGrows
<1>4. hoggedCycles <= time * N + (N - 1 - c)
  BY DEF HogInv
<1>5. /\ h => hoggedCycles' = IF hoggedCycles + 1 <= AllCycles THEN hoggedCycles + 1 ELSE AllCycles
      /\ ~h => hoggedCycles' = 0
  <2>1. Min({hoggedCycles + 1, AllCycles})
          = IF hoggedCycles + 1 <= AllCycles THEN hoggedCycles + 1 ELSE AllCycles
    BY <1>2, Bounds, MinOfPair
  <2> QED
    BY <2>1 DEF HS_ProcessMain
<1>6. hoggedCycles' \in 0 .. AllCycles /\ hoggedCycles' <= hoggedCycles + 1
  BY <1>2, <1>5, Bounds
<1>7. Sampling(util)
  BY DEF HS_ProcessMain
<1>8. CASE c # 0
  <2>1. c' = c - 1 /\ UNCHANGED <<window, hogging>>
    BY <1>7, <1>8 DEF Sampling
  <2>2. UNCHANGED <<CurrentCPUHoggingTime, known, hogs, reported, noticed>>
    BY <2>1 DEF hogging
  <2>3. c' \in 0 .. N - 1
    BY <1>2, <1>8, <2>1, Bounds
  <2>4. hoggedCycles' <= time' * N + (N - 1 - c')
    BY <1>2, <1>3, <1>4, <1>6, <2>1, <2>2, Bounds
  <2>5. HogReported'
    BY <2>2 DEF HogInv, HogReported
  <2> QED
    BY <1>6, <2>2, <2>3, <2>4, <2>5 DEF HogInv
<1>9. CASE c = 0 /\ ~(util >= 0)
  <2>1. c' = N - 1 /\ UtilizationNotKnown
    BY <1>1, <1>7, <1>9 DEF Sampling, HS_MonitorUtilization, N
  <2>2. known' = FALSE /\ reported' = FALSE /\ UNCHANGED <<CurrentCPUHoggingTime, hogs, noticed>>
    BY <2>1 DEF UtilizationNotKnown
  <2>3. hoggedCycles' = 0
    BY <1>5, <1>9
  <2>4. c' \in 0 .. N - 1
    BY <2>1, Bounds
  <2>5. hoggedCycles' <= time' * N + (N - 1 - c')
    BY <1>3, <2>1, <2>2, <2>3, Bounds
  <2>6. HogReported'
    BY <2>2 DEF HogReported
  <2> QED
    BY <1>6, <2>2, <2>4, <2>5, <2>6 DEF HogInv
<1>10. CASE c = 0 /\ util >= 0
  <2>1. c' = N - 1 /\ known' = TRUE /\ CountHogging(util)
    BY <1>1, <1>7, <1>10 DEF Sampling, HS_MonitorUtilization, UtilizationKnown, N
  <2>2. c' \in 0 .. N - 1
    BY <2>1, Bounds
  <2>3. hoggedCycles' <= time' * N + (N - 1 - c')
    <3>1. CASE ~h
      <4>1. time' = 0 /\ hoggedCycles' = 0
        BY <1>5, <1>10, <2>1, <3>1, CountHoggingRun
      <4>2. 0 * N = 0
        BY Bounds
      <4> QED
        BY <2>1, <4>1, <4>2, Bounds
    <3>2. CASE h /\ time' = MaxHoggingTime
      BY <1>3, <1>6, <2>1, <3>2, Bounds
    <3>3. CASE h /\ time' = time + 1
      <4>1. time' * N = time * N + N
        BY <1>2, <3>3, Bounds, OneMoreTimes
      <4> QED
        BY <1>2, <1>3, <1>4, <1>6, <1>10, <2>1, <4>1, Bounds
    <3> QED
      BY <2>1, <3>1, <3>2, <3>3, CountHoggingRun
  <2> QED
    BY <1>6, <2>1, <2>2, <2>3, CountHoggingRun DEF HogInv, RunExact
<1> QED
  BY <1>8, <1>9, <1>10

LEMMA HogNext == HogInv /\ [UtilNext]_utilVars => HogInv'
<1> SUFFICES ASSUME HogInv, [UtilNext]_utilVars PROVE HogInv'
  OBVIOUS
<1>1. ASSUME NEW sample \in Samples \cup {NoSample}, HS_ProcessMain(sample) PROVE HogInv'
  BY <1>1, HogCycle
<1>2. ASSUME UNCHANGED <<hogging, UtilizationCycleCounter, hoggedCycles>> PROVE HogInv'
  <2>1. UNCHANGED <<CurrentCPUHoggingTime, known, hogs, reported, noticed,
                    UtilizationCycleCounter, hoggedCycles>>
    BY <1>2 DEF hogging
  <2>2. HogReported'
    BY <2>1 DEF HogInv, HogReported
  <2> QED
    BY <2>1, <2>2 DEF HogInv
<1>3. CASE HS_EnableCpuHogCmd \/ HS_DisableCpuHogCmd
  BY <1>2, <1>3 DEF HS_EnableCpuHogCmd, HS_DisableCpuHogCmd, SetCpuHogState
<1>4. CASE HS_EnableAlivenessCmd \/ HS_DisableAlivenessCmd
  BY <1>2, <1>4 DEF HS_EnableAlivenessCmd, HS_DisableAlivenessCmd, SetAlivenessState
<1>5. CASE RestartHS
  BY <1>5, HogRestart
<1>6. CASE UNCHANGED utilVars
  BY <1>2, <1>6 DEF utilVars
<1> QED
  BY <1>1, <1>3, <1>4, <1>5, <1>6 DEF UtilNext

LEMMA HogAlways == UtilSpec => []HogInv
  BY HogInit, HogNext, PTL DEF UtilSpec

(* The event is sent just when a reading completes a run of hogging ones   *)
(* of the timeout's length, for every configuration and every device.      *)
THEOREM HoggingIsReported == UtilSpec => []HogReported
<1>1. HogInv => HogReported
  BY DEF HogInv
<1> QED
  BY <1>1, HogAlways, PTL

(* A CPU that hogs through all the cycles of the timeout was noticed.      *)
THEOREM HoggingIsNoticed == UtilSpec => []HoggingNoticed
<1>1. HogInv => HoggingNoticed
  <2> SUFFICES ASSUME HogInv, hoggedCycles = AllCycles, ~(CurrentCPUHoggingTime >= T)
               PROVE  FALSE
    BY DEF HogInv, HoggingNoticed
  <2> DEFINE time == CurrentCPUHoggingTime
  <2>1. time \in Nat /\ time + 1 <= T /\ UtilizationCycleCounter \in 0 .. N - 1
    BY Bounds DEF HogInv
  <2>2. (time + 1) * N <= T * N /\ (time + 1) * N = time * N + N /\ time * N \in Nat
    <3>1. time + 1 \in Nat /\ time <= time + 1
      BY <2>1
    <3> QED
      BY <2>1, <3>1, Bounds, TimesGrows, OneMoreTimes
  <2>3. T * N <= time * N + (N - 1 - UtilizationCycleCounter)
    BY Bounds DEF HogInv
  <2>4. T * N \in Nat
    BY Bounds
  <2> QED
    BY <2>1, <2>2, <2>3, <2>4, Bounds
<1> QED
  BY <1>1, HogAlways, PTL

(***************************************************************************)
(* The ring buffer is a window of the latest intervals, for every size:    *)
(* which slots are the newest, and what a reading makes of them.           *)
(***************************************************************************)
P == HS_UTIL_PEAK_NUM_INTERVAL
A == HS_UTIL_AVERAGE_NUM_INTERVAL

Newest(i) == UtilizationTracker[(CurrentCPUUtilIndex - i) % P]

LEMMA Sizes == P \in Nat /\ P > 0 /\ A \in 1 .. P /\ Slots = 0 .. P - 1
  BY ConfigVerified, WidthAssumption DEF UtilizationVerified, P, A, Slots

LEMMA WrappedBack ==
  ASSUME NEW n \in -P .. P - 1
  PROVE  n % P = IF n < 0 THEN n + P ELSE n
<1>1. P \in Nat /\ P > 0
  BY Sizes
<1> HIDE DEF P
<1>2. n % P \in 0 .. P - 1 /\ n = P * (n \div P) + (n % P) /\ n \div P \in Int
  BY <1>1
<1>3. n \div P >= 1 => P * (n \div P) >= P
  BY <1>1, <1>2
<1>4. n \div P <= -2 => P * (n \div P) <= -2 * P
  BY <1>1, <1>2
<1>5. n \div P \in {-1, 0}
  BY <1>1, <1>2, <1>3, <1>4
<1> QED
  BY <1>1, <1>2, <1>5

(* The i-th newest slot, before the index moves on from slot and after.    *)
LEMMA NewestSlots ==
  ASSUME NEW slot \in Slots, NEW i \in 1 .. P
  PROVE  /\ (slot - i) % P = IF i <= slot THEN slot - i ELSE slot - i + P
         /\ (NextIndex(slot) - i) % P = IF i <= slot + 1 THEN slot + 1 - i ELSE slot + 1 - i + P
<1>1. P \in Nat /\ slot \in 0 .. P - 1
  BY Sizes
<1>2. NextIndex(slot) = IF slot = P - 1 THEN 0 ELSE slot + 1
  BY <1>1 DEF NextIndex, P
<1> HIDE DEF P
<1>3. (slot - i) % P = IF slot - i < 0 THEN slot - i + P ELSE slot - i
  <2>1. slot - i \in -P .. P - 1
    BY <1>1
  <2> QED
    BY <2>1, WrappedBack
<1>4. (NextIndex(slot) - i) % P = IF NextIndex(slot) - i < 0 THEN NextIndex(slot) - i + P ELSE NextIndex(slot) - i
  <2>1. NextIndex(slot) - i \in -P .. P - 1
    BY <1>1, <1>2
  <2> QED
    BY <2>1, WrappedBack
<1> QED
  BY <1>1, <1>2, <1>3, <1>4

(* The two loops of HS_MonitorUtilization, before and after the end of the *)
(* buffer, add up the newest slots, as many as the average is of.          *)
THEOREM AveragedSlotsAreNewest ==
  ASSUME NEW slot \in Slots
  PROVE  Averaged(slot) = {(NextIndex(slot) - i) % P : i \in 1 .. A}
<1>1. P \in Nat /\ A \in 1 .. P /\ slot \in 0 .. P - 1 /\ Slots = 0 .. P - 1
  BY Sizes
<1>2. Averaged(slot) = IF slot >= A THEN slot - A + 1 .. slot
                       ELSE {j \in Slots : j <= slot \/ j > P - (A - slot)}
  BY DEF Averaged, P, A
<1> HIDE DEF P, A
<1>3. \A i \in 1 .. A : (NextIndex(slot) - i) % P = IF i <= slot + 1 THEN slot + 1 - i ELSE slot + 1 - i + P
  <2>1. \A i \in 1 .. A : i \in 1 .. P
    BY <1>1
  <2> QED
    BY <2>1, NewestSlots
<1>4. ASSUME NEW j \in Averaged(slot) PROVE \E i \in 1 .. A : j = (NextIndex(slot) - i) % P
  <2>1. j \in 0 .. P - 1
    BY <1>1, <1>2
  <2>2. CASE j <= slot
    <3>1. slot + 1 - j \in 1 .. A /\ slot + 1 - j <= slot + 1
      BY <1>1, <1>2, <2>1, <2>2
    <3>2. (NextIndex(slot) - (slot + 1 - j)) % P = slot + 1 - (slot + 1 - j)
      BY <1>3, <3>1
    <3>3. slot + 1 - (slot + 1 - j) = j
      BY <1>1, <2>1
    <3> QED
      BY <3>1, <3>2, <3>3
  <2>3. CASE j > slot
    <3>1. slot + 1 + P - j \in 1 .. A /\ ~(slot + 1 + P - j <= slot + 1)
      BY <1>1, <1>2, <2>1, <2>3
    <3>2. (NextIndex(slot) - (slot + 1 + P - j)) % P = slot + 1 - (slot + 1 + P - j) + P
      BY <1>3, <3>1
    <3>3. slot + 1 - (slot + 1 + P - j) + P = j
      BY <1>1, <2>1
    <3> QED
      BY <3>1, <3>2, <3>3
  <2> QED
    BY <1>1, <2>1, <2>2, <2>3
<1>5. ASSUME NEW i \in 1 .. A PROVE (NextIndex(slot) - i) % P \in Averaged(slot)
  <2>1. CASE i <= slot + 1
    BY <1>1, <1>2, <1>3, <2>1
  <2>2. CASE ~(i <= slot + 1)
    BY <1>1, <1>2, <1>3, <2>2
  <2> QED
    BY <2>1, <2>2
<1> QED
  BY <1>4, <1>5

BufferInv ==
  /\ CurrentCPUUtilIndex \in Slots
  /\ UtilizationTracker \in [Slots -> Levels]

LEMMA ClampedLevel == ASSUME NEW util \in Nat PROVE Clamped(util) \in Levels
<1>1. HS_CPU_UTILIZATION_MAX \in Nat
  BY ConfigVerified, WidthAssumption DEF UtilizationVerified
<1> QED
  BY <1>1, MinOfPair DEF Clamped, Levels

LEMMA MonitorBuffer ==
  ASSUME BufferInv, NEW util \in Int, HS_MonitorUtilization(util)
  PROVE  /\ BufferInv'
         /\ CurrentCPUUtilIndex' = NextIndex(CurrentCPUUtilIndex)
         /\ UtilizationTracker' = [UtilizationTracker EXCEPT ![CurrentCPUUtilIndex] =
                                     IF util < 0 THEN @ ELSE Clamped(util)]
<1>1. CurrentCPUUtilIndex' = NextIndex(CurrentCPUUtilIndex)
  BY DEF HS_MonitorUtilization
<1>2. CurrentCPUUtilIndex' \in Slots
  BY <1>1, Sizes DEF NextIndex, BufferInv, P
<1>3. CASE util < 0
  <2>1. UtilizationTracker' = UtilizationTracker
    BY <1>3 DEF HS_MonitorUtilization, UtilizationNotKnown
  <2> QED
    BY <1>1, <1>2, <1>3, <2>1 DEF BufferInv
<1>4. CASE util >= 0
  <2>1. UtilizationTracker' = [UtilizationTracker EXCEPT ![CurrentCPUUtilIndex] = Clamped(util)]
    BY <1>4 DEF HS_MonitorUtilization, UtilizationKnown
  <2>2. Clamped(util) \in Levels
    BY <1>4, ClampedLevel
  <2>3. ~(util < 0)
    BY <1>4
  <2>4. BufferInv'
    BY <1>2, <2>1, <2>2 DEF BufferInv
  <2> QED
    BY <1>1, <2>1, <2>3, <2>4
<1> QED
  BY <1>3, <1>4

LEMMA BufferStep == BufferInv /\ [UtilNext]_utilVars => BufferInv'
<1> SUFFICES ASSUME BufferInv, [UtilNext]_utilVars PROVE BufferInv'
  OBVIOUS
<1>1. ASSUME NEW sample \in Samples \cup {NoSample}, HS_ProcessMain(sample) PROVE BufferInv'
  <2>1. HS_SysMonGetCpuUtilization(sample) \in Int
    BY <1>1, UtilIsInt
  <2>2. \/ HS_MonitorUtilization(HS_SysMonGetCpuUtilization(sample))
        \/ UNCHANGED <<CurrentCPUUtilIndex, UtilizationTracker>>
    BY <1>1 DEF HS_ProcessMain, Sampling, window
  <2> QED
    BY <2>1, <2>2, MonitorBuffer DEF BufferInv
<1>2. CASE RestartHS
  <2>1. 0 \in Slots /\ 0 \in Levels
    BY Sizes, ConfigVerified, WidthAssumption DEF UtilizationVerified, Levels
  <2> QED
    BY <1>2, <2>1 DEF RestartHS, BufferInv
<1>3. CASE \/ HS_EnableCpuHogCmd \/ HS_DisableCpuHogCmd \/ HS_EnableAlivenessCmd
           \/ HS_DisableAlivenessCmd \/ UNCHANGED utilVars
  BY <1>3 DEF HS_EnableCpuHogCmd, HS_DisableCpuHogCmd, HS_EnableAlivenessCmd, HS_DisableAlivenessCmd,
              SetCpuHogState, SetAlivenessState, utilVars, window, BufferInv
<1> QED
  BY <1>1, <1>2, <1>3 DEF UtilNext

(* The index stays inside the buffer and no reading is above the maximum.  *)
THEOREM BufferIsKept == UtilSpec => []BufferInv
<1>1. UtilInit => BufferInv
  <2>1. 0 \in Slots /\ 0 \in Levels
    BY Sizes, ConfigVerified, WidthAssumption DEF UtilizationVerified, Levels
  <2> QED
    BY <2>1 DEF UtilInit, BufferInv
<1> QED
  BY <1>1, BufferStep, PTL DEF UtilSpec

(* A reading shifts the buffer by one interval: the newest slot holds what *)
(* was read or, if nothing could be read, the oldest measurement, which    *)
(* then counts once more, in the average too.                              *)
WindowShifts(util) ==
  \A i \in 1 .. P :
    Newest(i)' = IF i > 1 THEN Newest(i - 1) ELSE IF util < 0 THEN Newest(P) ELSE Clamped(util)

LEMMA MonitorShifts ==
  ASSUME BufferInv, NEW util \in Int, HS_MonitorUtilization(util)
  PROVE  WindowShifts(util)
<1> SUFFICES ASSUME NEW i \in 1 .. P
             PROVE  Newest(i)' = IF i > 1 THEN Newest(i - 1)
                                 ELSE IF util < 0 THEN Newest(P) ELSE Clamped(util)
  BY DEF WindowShifts
<1> DEFINE slot == CurrentCPUUtilIndex
           new == (NextIndex(slot) - i) % P
<1>1. slot \in Slots /\ P \in Nat /\ P > 0 /\ Slots = 0 .. P - 1
  BY Sizes DEF BufferInv
<1>2. Newest(i)' = UtilizationTracker'[new]
  BY MonitorBuffer DEF Newest, P
<1>3. new = IF i <= slot + 1 THEN slot + 1 - i ELSE slot + 1 - i + P
  BY <1>1, NewestSlots
<1> HIDE DEF P, new
<1>4. new \in Slots /\ (new = slot <=> i = 1)
  BY <1>1, <1>3
<1>5. UtilizationTracker'[new] = IF new = slot /\ util >= 0 THEN Clamped(util) ELSE UtilizationTracker[new]
  BY <1>4, MonitorBuffer DEF BufferInv
<1>6. CASE i > 1
  <2>1. i - 1 \in 1 .. P
    BY <1>1, <1>6
  <2>2. (slot - (i - 1)) % P = IF i - 1 <= slot THEN slot - (i - 1) ELSE slot - (i - 1) + P
    BY <1>1, <2>1, NewestSlots
  <2>3. (slot - (i - 1)) % P = new
    BY <1>1, <1>3, <2>1, <2>2
  <2>4. Newest(i - 1) = UtilizationTracker[new]
    BY <2>3 DEF Newest, P
  <2> QED
    BY <1>2, <1>4, <1>5, <1>6, <2>4
<1>7. CASE i = 1
  <2>1. P \in 1 .. P
    BY <1>1
  <2>2. (slot - P) % P = IF P <= slot THEN slot - P ELSE slot - P + P
    BY <1>1, <2>1, NewestSlots
  <2>4. (slot - P) % P = slot
    BY <1>1, <2>2
  <2>3. Newest(P) = UtilizationTracker[slot]
    BY <2>4 DEF Newest, P
  <2> QED
    BY <1>2, <1>4, <1>5, <1>7, <2>3
<1> QED
  BY <1>6, <1>7

(* So does every reading, for every size of the buffer.                    *)
THEOREM ReadingsShiftWindow ==
  UtilSpec => [][\A util \in Int : HS_MonitorUtilization(util) => WindowShifts(util)]_utilVars
<1>1. ASSUME BufferInv, NEW util \in Int, HS_MonitorUtilization(util) PROVE WindowShifts(util)
  BY <1>1, MonitorShifts
<1>2. BufferInv /\ [UtilNext]_utilVars
        => [\A util \in Int : HS_MonitorUtilization(util) => WindowShifts(util)]_utilVars
  BY <1>1
<1> QED
  BY <1>2, BufferIsKept, PTL DEF UtilSpec

(***************************************************************************)
(* What is computed from the buffer is what is computed from the window.   *)
(***************************************************************************)
AsWindow(tracker, slot) == [i \in 1 .. P |-> tracker[(NextIndex(slot) - i) % P]]

LEMMA EverySlotIsInWindow ==
  ASSUME NEW slot \in Slots
  PROVE  /\ \A i \in 1 .. P : (NextIndex(slot) - i) % P \in Slots
         /\ \A i, j \in 1 .. P : (NextIndex(slot) - i) % P = (NextIndex(slot) - j) % P => i = j
         /\ \A s \in Slots : \E i \in 1 .. P : s = (NextIndex(slot) - i) % P
<1>1. P \in Nat /\ slot \in 0 .. P - 1 /\ Slots = 0 .. P - 1
  BY Sizes
<1>2. \A i \in 1 .. P : (NextIndex(slot) - i) % P = IF i <= slot + 1 THEN slot + 1 - i ELSE slot + 1 - i + P
  BY NewestSlots
<1> HIDE DEF P
<1>3. ASSUME NEW s \in Slots PROVE \E i \in 1 .. P : s = (NextIndex(slot) - i) % P
  <2> DEFINE i == IF s <= slot THEN slot + 1 - s ELSE slot + 1 - s + P
  <2>1. i \in 1 .. P /\ s = IF i <= slot + 1 THEN slot + 1 - i ELSE slot + 1 - i + P
    BY <1>1
  <2>2. s = (NextIndex(slot) - i) % P
    BY <1>2, <2>1
  <2> QED
    BY <2>1, <2>2
<1>4. ASSUME NEW i \in 1 .. P, NEW j \in 1 .. P, (NextIndex(slot) - i) % P = (NextIndex(slot) - j) % P
      PROVE  i = j
  <2>1. (IF i <= slot + 1 THEN slot + 1 - i ELSE slot + 1 - i + P)
          = IF j <= slot + 1 THEN slot + 1 - j ELSE slot + 1 - j + P
    BY <1>2, <1>4
  <2> QED
    BY <1>1, <2>1
<1>5. ASSUME NEW i \in 1 .. P PROVE (NextIndex(slot) - i) % P \in Slots
  BY <1>1, <1>2
<1> QED
  BY <1>3, <1>4, <1>5

LEMMA SumOfWindow ==
  ASSUME NEW slot \in Slots, NEW tracker \in [Slots -> Levels]
  PROVE  SumFunctionOnSet(tracker, Averaged(slot)) = SumFunctionOnSet(AsWindow(tracker, slot), 1 .. A)
<1> DEFINE name == [i \in 1 .. A |-> (NextIndex(slot) - i) % P]
           win  == AsWindow(tracker, slot)
<1>1. A \in 1 .. P /\ P \in Nat /\ Slots = 0 .. P - 1
  BY Sizes
<1>2. IsFiniteSet(1 .. A) /\ IsFiniteSet(Slots)
  BY <1>1, FS_Interval
<1>3. \A i \in 1 .. A : i \in 1 .. P
  BY <1>1
<1>4. name \in [1 .. A -> Slots] /\ \A i, j \in 1 .. A : name[i] = name[j] => i = j
  BY <1>3, EverySlotIsInWindow
<1>5. \A i \in 1 .. A : win[i] \in Int /\ tracker[name[i]] = win[i]
  <2>1. \A l \in Levels : l \in Int
    BY DEF Levels
  <2> QED
    BY <1>3, <1>4, <2>1 DEF AsWindow
<1>6. {name[i] : i \in 1 .. A} = Averaged(slot)
  BY AveragedSlotsAreNewest
<1> HIDE DEF name, win
<1>7. SumFunctionOnSet(win, 1 .. A) = SumFunctionOnSet(tracker, {name[i] : i \in 1 .. A})
  <2> DEFINE S == 1 .. A
             R == Slots
  <2>1. IsFiniteSet(S) /\ IsFiniteSet(R) /\ name \in [S -> R]
    BY <1>2, <1>4
  <2>2. \A i, j \in S : name[i] = name[j] => i = j
    BY <1>4
  <2>3. \A i \in S : win[i] \in Int /\ tracker[name[i]] = win[i]
    BY <1>5
  <2> HIDE DEF S, R
  <2>4. SumFunctionOnSet(win, S) = SumFunctionOnSet(tracker, {name[i] : i \in S})
    BY <2>1, <2>2, <2>3, SumRenamed
  <2> QED
    BY <2>4 DEF S
<1> QED
  BY <1>6, <1>7 DEF win

LEMMA Quotient ==
  ASSUME NEW a \in Nat, a > 0, NEW m \in Nat, NEW x \in 0 .. a * m
  PROVE  x \div a \in 0 .. m
<1>1. x \in Nat /\ x <= a * m /\ a * m \in Nat
  OBVIOUS
<1>2. x \div a \in Int /\ x % a \in 0 .. a - 1 /\ x = a * (x \div a) + (x % a)
  BY <1>1
<1> DEFINE q == x \div a
           rest == x % a
<1>3. q \in Int /\ rest \in 0 .. a - 1 /\ x = a * q + rest
  BY <1>2
<1> HIDE DEF q, rest
<1>4. q >= 0
  <2> SUFFICES ASSUME q < 0 PROVE FALSE
    BY <1>3
  <2>1. -1 - q \in Nat
    BY <1>3
  <2>2. a * (-1 - q) = -a - a * q /\ a * (-1 - q) \in Nat /\ a * q \in Int
    BY <1>3, <2>1
  <2> QED
    BY <1>1, <1>3, <2>2
<1>5. q <= m
  <2> SUFFICES ASSUME q > m PROVE FALSE
    BY <1>3
  <2>1. q - m - 1 \in Nat
    BY <1>3
  <2>2. a * (q - m - 1) = a * q - a * m - a /\ a * (q - m - 1) \in Nat /\ a * q \in Int
    BY <1>3, <2>1
  <2> QED
    BY <1>1, <1>3, <2>2
<1> QED
  BY <1>3, <1>4, <1>5 DEF q

(* An average of readings is within the range of readings.                 *)
THEOREM AverageIsLevel ==
  ASSUME NEW slot \in Slots, NEW tracker \in [Slots -> Levels]
  PROVE  SumFunctionOnSet(tracker, Averaged(slot)) \div A \in Levels
<1> DEFINE win == AsWindow(tracker, slot)
           m   == HS_CPU_UTILIZATION_MAX
<1>1. m \in Nat /\ Levels = 0 .. m
  BY ConfigVerified, WidthAssumption DEF UtilizationVerified, Levels
<1>2. A \in 1 .. P /\ P \in Nat
  BY Sizes
<1>3. \A i \in 1 .. A : win[i] \in 0 .. m
  <2>1. \A i \in 1 .. A : i \in 1 .. P
    BY <1>2
  <2> QED
    BY <1>1, <2>1, EverySlotIsInWindow DEF AsWindow
<1>4. IsFiniteSet(1 .. A) /\ Cardinality(1 .. A) = A
  BY <1>2, FS_Interval
<1> HIDE DEF win, m
<1>5. SumFunctionOnSet(win, 1 .. A) \in 0 .. A * m
  BY <1>1, <1>3, <1>4, SumBounded
<1>6. SumFunctionOnSet(win, 1 .. A) \div A \in 0 .. m
  BY <1>1, <1>2, <1>5, Quotient
<1> QED
  BY <1>1, <1>6, SumOfWindow DEF win

LEMMA MaxIsMember ==
  ASSUME NEW S \in SUBSET Levels, S # {}
  PROVE  Max(S) \in S
<1> DEFINE m == HS_CPU_UTILIZATION_MAX
           C == {n \in Nat : n <= m /\ m - n \in S}
<1>1. m \in Nat /\ \A s \in S : s \in 0 .. m
  BY ConfigVerified, WidthAssumption DEF UtilizationVerified, Levels
<1> HIDE DEF m
<1>2. \A s \in S : m - s \in C
  <2> SUFFICES ASSUME NEW s \in S PROVE m - s \in C
    OBVIOUS
  <2>1. m - s \in Nat /\ m - s <= m /\ m - (m - s) = s
    BY <1>1
  <2> QED
    BY <2>1
<1>3. PICK n \in C : \A k \in C : n <= k
  <2>1. C # {} /\ C \in SUBSET Nat
    BY <1>2
  <2> HIDE DEF C
  <2> QED
    BY <2>1, LeastNumber
<1>4. \A s \in S : m - n >= s
  BY <1>1, <1>2, <1>3
<1> QED
  BY <1>3, <1>4 DEF Max

LEMMA PeakOfWindow ==
  ASSUME NEW slot \in Slots, NEW tracker \in [Slots -> Levels]
  PROVE  /\ Range(tracker) = {AsWindow(tracker, slot)[i] : i \in 1 .. P}
         /\ Max(Range(tracker)) \in Levels
<1>1. Range(tracker) = {AsWindow(tracker, slot)[i] : i \in 1 .. P}
  BY EverySlotIsInWindow DEF Range, AsWindow
<1>2. Range(tracker) \in SUBSET Levels /\ Range(tracker) # {}
  BY DEF Range
<1> QED
  BY <1>1, <1>2, MaxIsMember

(***************************************************************************)
(* What the latest intervals measured is what the slots hold, but for the  *)
(* intervals that could not be measured.                                   *)
(***************************************************************************)
LatestInv ==
  /\ latest \in [1 .. P -> Levels \cup {UNKNOWN}]
  /\ \A i \in 1 .. P : latest[i] \in {Newest(i), UNKNOWN}

LEMMA MonitorRemembers ==
  ASSUME NEW util \in Int, HS_MonitorUtilization(util)
  PROVE  latest' = [i \in 1 .. P |-> IF i = 1 THEN IF util < 0 THEN UNKNOWN ELSE Clamped(util)
                                     ELSE latest[i - 1]]
<1>1. CASE util < 0
  BY <1>1 DEF HS_MonitorUtilization, UtilizationNotKnown, Remember, Window, P
<1>2. CASE util >= 0
  <2>1. ~(util < 0)
    BY <1>2
  <2> QED
    BY <1>2, <2>1 DEF HS_MonitorUtilization, UtilizationKnown, Remember, Window, P
<1> QED
  BY <1>1, <1>2

LEMMA MonitorLatest ==
  ASSUME BufferInv, LatestInv, NEW util \in Int, HS_MonitorUtilization(util)
  PROVE  LatestInv'
<1>1. WindowShifts(util)
  BY MonitorShifts
<1>2. P \in Nat /\ P > 0
  BY Sizes
<1>3. ~(util < 0) => Clamped(util) \in Levels
  BY ClampedLevel
<1>4. ASSUME NEW i \in 1 .. P
      PROVE  latest'[i] \in {Newest(i)', UNKNOWN} /\ latest'[i] \in Levels \cup {UNKNOWN}
  <2>1. latest'[i] = IF i = 1 THEN IF util < 0 THEN UNKNOWN ELSE Clamped(util) ELSE latest[i - 1]
    BY MonitorRemembers
  <2>2. CASE i = 1
    BY <1>1, <1>3, <2>1, <2>2 DEF WindowShifts
  <2>3. CASE i # 1
    <3>1. i > 1 /\ i - 1 \in 1 .. P
      BY <1>2, <2>3
    <3>2. Newest(i)' = Newest(i - 1)
      BY <1>1, <3>1 DEF WindowShifts
    <3> QED
      BY <2>1, <2>3, <3>1, <3>2 DEF LatestInv
  <2> QED
    BY <2>2, <2>3
<1>5. latest' \in [1 .. P -> Levels \cup {UNKNOWN}]
  BY <1>4, MonitorRemembers
<1> QED
  BY <1>4, <1>5 DEF LatestInv

(* A buffer of zeros has measured zeros.                                   *)
LEMMA EmptyWindow ==
  ASSUME NEW i \in 1 .. P
  PROVE  0 \in Levels /\ (0 - i) % P \in Slots
<1>1. 0 \in Slots /\ P \in Nat /\ Slots = 0 .. P - 1
  BY Sizes
<1>2. (0 - i) % P = IF i <= 0 THEN 0 - i ELSE 0 - i + P
  BY <1>1, NewestSlots
<1>3. HS_CPU_UTILIZATION_MAX \in Nat
  BY ConfigVerified, WidthAssumption DEF UtilizationVerified
<1> QED
  BY <1>1, <1>2, <1>3 DEF Levels

LEMMA LatestInit == UtilInit => LatestInv
<1> SUFFICES ASSUME UtilInit PROVE LatestInv
  OBVIOUS
<1>1. /\ latest = [i \in 1 .. P |-> 0] /\ CurrentCPUUtilIndex = 0
      /\ UtilizationTracker = [i \in Slots |-> 0]
  BY DEF UtilInit, Window, P
<1> QED
  BY <1>1, EmptyWindow DEF LatestInv, Newest

LEMMA LatestRestart == RestartHS => LatestInv'
<1> SUFFICES ASSUME RestartHS PROVE LatestInv'
  OBVIOUS
<1>1. /\ latest' = [i \in 1 .. P |-> 0] /\ CurrentCPUUtilIndex' = 0
      /\ UtilizationTracker' = [i \in Slots |-> 0]
  BY DEF RestartHS, Window, P
<1> QED
  BY <1>1, EmptyWindow DEF LatestInv, Newest

LEMMA LatestStep == BufferInv /\ LatestInv /\ [UtilNext]_utilVars => LatestInv'
<1> SUFFICES ASSUME BufferInv, LatestInv, [UtilNext]_utilVars PROVE LatestInv'
  OBVIOUS
<1>1. ASSUME UNCHANGED window PROVE LatestInv'
  BY <1>1 DEF window, LatestInv, Newest
<1>2. ASSUME NEW sample \in Samples \cup {NoSample}, HS_ProcessMain(sample) PROVE LatestInv'
  <2>1. HS_SysMonGetCpuUtilization(sample) \in Int
    BY <1>2, UtilIsInt
  <2>2. HS_MonitorUtilization(HS_SysMonGetCpuUtilization(sample)) \/ UNCHANGED window
    BY <1>2 DEF HS_ProcessMain, Sampling
  <2> QED
    BY <1>1, <2>1, <2>2, MonitorLatest
<1>3. CASE RestartHS
  BY <1>3, LatestRestart
<1>4. CASE \/ HS_EnableCpuHogCmd \/ HS_DisableCpuHogCmd \/ HS_EnableAlivenessCmd
           \/ HS_DisableAlivenessCmd \/ UNCHANGED utilVars
  <2>1. UNCHANGED window
    BY <1>4 DEF HS_EnableCpuHogCmd, HS_DisableCpuHogCmd, HS_EnableAlivenessCmd, HS_DisableAlivenessCmd,
                SetCpuHogState, SetAlivenessState, utilVars
  <2> QED
    BY <1>1, <2>1
<1> QED
  BY <1>2, <1>3, <1>4 DEF UtilNext

LEMMA LatestAlways == UtilSpec => []LatestInv
  BY LatestInit, LatestStep, BufferIsKept, PTL DEF UtilSpec

(***************************************************************************)
(* Types.  What is left beside the buffer and the hogging.                 *)
(***************************************************************************)
RestTypes ==
  /\ SysMonPspModuleId \in HS_SysMonInit
  /\ UtilCpuAvg \in Levels \cup {UNKNOWN}
  /\ UtilCpuPeak \in Levels \cup {UNKNOWN}
  /\ CurrentCPUHogState \in HS_STATES
  /\ CurrentAlivenessState \in HS_STATES
  /\ AlivenessCounter \in 0 .. HS_CPU_ALIVE_PERIOD - 1

LEMMA MemoryTypes ==
  /\ HS_CPUHOG_DEFAULT_STATE \in HS_STATES /\ HS_ALIVENESS_DEFAULT_STATE \in HS_STATES
  /\ HS_CPU_ALIVE_PERIOD \in Nat /\ HS_CPU_ALIVE_PERIOD > 0 /\ 0 \in 0 .. HS_CPU_ALIVE_PERIOD - 1
  /\ 0 \in Levels
<1>1. HS_CPU_ALIVE_PERIOD \in Nat /\ HS_CPU_ALIVE_PERIOD > 0
  BY ConfigVerified, WidthAssumption DEF TimesVerified
<1>2. HS_CPU_UTILIZATION_MAX \in Nat
  BY ConfigVerified, WidthAssumption DEF UtilizationVerified
<1> QED
  BY <1>1, <1>2, ConfigVerified DEF StatesVerified, Levels

LEMMA ReportedLevels ==
  ASSUME BufferInv, NEW util \in Int, HS_MonitorUtilization(util)
  PROVE  UtilCpuAvg' \in Levels \cup {UNKNOWN} /\ UtilCpuPeak' \in Levels \cup {UNKNOWN}
<1>1. CASE util < 0
  BY <1>1 DEF HS_MonitorUtilization, UtilizationNotKnown
<1>2. CASE util >= 0
  <2>1. CurrentCPUUtilIndex \in Slots /\ UtilizationTracker' \in [Slots -> Levels]
    BY MonitorBuffer DEF BufferInv
  <2>2. /\ UtilCpuAvg' = SumFunctionOnSet(UtilizationTracker', Averaged(CurrentCPUUtilIndex)) \div A
        /\ UtilCpuPeak' = Max(Range(UtilizationTracker'))
    BY <1>2 DEF HS_MonitorUtilization, UtilizationKnown, A
  <2> QED
    BY <2>1, <2>2, AverageIsLevel, PeakOfWindow
<1> QED
  BY <1>1, <1>2

LEMMA RestStep == BufferInv /\ RestTypes /\ [UtilNext]_utilVars => RestTypes'
<1> SUFFICES ASSUME BufferInv, RestTypes, [UtilNext]_utilVars PROVE RestTypes'
  OBVIOUS
<1>1. ASSUME NEW sample \in Samples \cup {NoSample}, HS_ProcessMain(sample) PROVE RestTypes'
  <2>1. HS_SysMonGetCpuUtilization(sample) \in Int
    BY <1>1, UtilIsInt
  <2>2. UtilCpuAvg' \in Levels \cup {UNKNOWN} /\ UtilCpuPeak' \in Levels \cup {UNKNOWN}
    <3>1. \/ HS_MonitorUtilization(HS_SysMonGetCpuUtilization(sample))
          \/ UNCHANGED <<UtilCpuAvg, UtilCpuPeak>>
      BY <1>1 DEF HS_ProcessMain, Sampling, window
    <3> QED
      BY <2>1, <3>1, ReportedLevels DEF RestTypes
  <2>3. AlivenessCounter' \in 0 .. HS_CPU_ALIVE_PERIOD - 1
    <3>1. \/ AlivenessCounter' = IF AlivenessCounter + 1 >= HS_CPU_ALIVE_PERIOD THEN 0
                                 ELSE AlivenessCounter + 1
          \/ UNCHANGED AlivenessCounter
      BY <1>1 DEF HS_ProcessMain, OutputAliveness
    <3> QED
      BY <3>1, MemoryTypes DEF RestTypes
  <2> QED
    BY <1>1, <2>2, <2>3 DEF HS_ProcessMain, RestTypes
<1>2. CASE RestartHS
  BY <1>2, MemoryTypes DEF RestartHS, RestTypes
<1>3. CASE HS_EnableCpuHogCmd \/ HS_DisableCpuHogCmd
  BY <1>3 DEF HS_EnableCpuHogCmd, HS_DisableCpuHogCmd, SetCpuHogState, window, alive, RestTypes, HS_STATES
<1>4. CASE HS_EnableAlivenessCmd \/ HS_DisableAlivenessCmd
  BY <1>4 DEF HS_EnableAlivenessCmd, HS_DisableAlivenessCmd, SetAlivenessState, window, RestTypes, HS_STATES
<1>5. CASE UNCHANGED utilVars
  BY <1>5 DEF utilVars, window, alive, RestTypes
<1> QED
  BY <1>1, <1>2, <1>3, <1>4, <1>5 DEF UtilNext

(* Every value stays within its type: the average too, whatever is read.   *)
THEOREM UtilTypeCorrect == UtilSpec => []UtilTypeOK
<1>1. UtilInit => RestTypes
  BY MemoryTypes DEF UtilInit, RestTypes
<1>2. HogInv /\ BufferInv /\ LatestInv /\ RestTypes => UtilTypeOK
  BY DEF HogInv, BufferInv, LatestInv, RestTypes, UtilTypeOK, Window, T, N, P
<1> QED
  BY <1>1, <1>2, RestStep, BufferIsKept, LatestAlways, HogAlways, PTL DEF UtilSpec

(***************************************************************************)
(* The refinement.                                                         *)
(***************************************************************************)
AbstractReported == [avg |-> UtilCpuAvg, peak |-> UtilCpuPeak]

LEMMA RefinesInit == UtilInit => W!WindowInit
  BY DEF UtilInit, Window, W!WindowInit

(* The window adds up and compares as the buffer does.                     *)
LEMMA SameSum == ASSUME NEW f, NEW S PROVE W!SumFunctionOnSet(f, S) = SumFunctionOnSet(f, S)
  BY DEF W!SumFunctionOnSet, W!FoldFunctionOnSet, W!MapThenFoldSet,
         SumFunctionOnSet, FoldFunctionOnSet, MapThenFoldSet

LEMMA SameMax == ASSUME NEW S PROVE W!Max(S) = Max(S)
  BY DEF W!Max, Max

(* The intervals that could not be measured count as what their slots hold. *)
LEMMA BufferIsCounted ==
  ASSUME BufferInv, LatestInv, NEW util \in Int, HS_MonitorUtilization(util)
  PROVE  LET counted == AsWindow(UtilizationTracker', CurrentCPUUtilIndex)
         IN  counted \in [1 .. P -> Levels] /\ W!CountsAs(latest', counted)
<1> DEFINE counted == AsWindow(UtilizationTracker', CurrentCPUUtilIndex)
<1>1. CurrentCPUUtilIndex \in Slots /\ UtilizationTracker' \in [Slots -> Levels]
  BY MonitorBuffer DEF BufferInv
<1>2. counted \in [1 .. P -> Levels]
  BY <1>1, EverySlotIsInWindow DEF AsWindow
<1>3. \A i \in 1 .. P : counted[i] = Newest(i)'
  BY MonitorBuffer DEF AsWindow, Newest, P
<1>4. \A i \in 1 .. P : latest'[i] \in {Newest(i)', UNKNOWN}
  BY MonitorLatest DEF LatestInv
<1> HIDE DEF counted
<1>5. W!CountsAs(latest', counted)
  BY <1>3, <1>4 DEF W!CountsAs, P
<1> QED
  BY <1>2, <1>5 DEF counted

(* A reading is an interval of the window.                                 *)
LEMMA RefinesReading ==
  ASSUME BufferInv, LatestInv, NEW util \in Int, HS_MonitorUtilization(util)
  PROVE  W!WindowNext
<1>1. latest' = [i \in 1 .. P |-> IF i = 1 THEN IF util < 0 THEN UNKNOWN ELSE Clamped(util)
                                  ELSE latest[i - 1]]
  BY MonitorRemembers
<1>2. CASE util < 0
  <2>1. latest' = W!Shift(UNKNOWN)
    BY <1>1, <1>2 DEF W!Shift, P
  <2>2. UtilCpuAvg' = UNKNOWN /\ UtilCpuPeak' = UNKNOWN
    BY <1>2 DEF HS_MonitorUtilization, UtilizationNotKnown
  <2> QED
    BY <2>1, <2>2 DEF W!NotMeasured, W!WindowNext
<1>3. CASE util >= 0
  <2> DEFINE level == Clamped(util)
             slot  == CurrentCPUUtilIndex
             tracker == UtilizationTracker'
             counted == AsWindow(tracker, slot)
  <2>1. level \in Levels /\ slot \in Slots /\ tracker \in [Slots -> Levels]
    BY <1>3, ClampedLevel, MonitorBuffer DEF BufferInv
  <2>2. latest' = W!Shift(level)
    BY <1>1, <1>3 DEF W!Shift, P
  <2>3. counted \in [1 .. P -> Levels] /\ W!CountsAs(latest', counted)
    BY BufferIsCounted
  <2>4. /\ UtilCpuAvg' = SumFunctionOnSet(tracker, Averaged(slot)) \div A
        /\ UtilCpuPeak' = Max(Range(tracker))
    BY <1>3 DEF HS_MonitorUtilization, UtilizationKnown, A
  <2>5. /\ UtilCpuAvg' = SumFunctionOnSet(counted, 1 .. A) \div A
        /\ UtilCpuPeak' = Max({counted[i] : i \in 1 .. P})
    BY <2>1, <2>4, SumOfWindow, PeakOfWindow
  <2>6. AbstractReported' = W!Report(counted)
    <3> HIDE DEF counted
    <3> QED
      BY <2>5, SameSum, SameMax DEF W!Report, AbstractReported, A, P
  <2>7. W!Measured(level)
    <3> HIDE DEF counted, level
    <3> QED
      BY <2>2, <2>3, <2>6 DEF W!Measured, AbstractReported, P
  <2> QED
    BY <2>1, <2>7 DEF W!WindowNext
<1> QED
  BY <1>2, <1>3

LEMMA RefinesNext ==
  BufferInv /\ LatestInv /\ [UtilNext]_utilVars => [W!WindowNext]_<<latest, AbstractReported>>
<1> SUFFICES ASSUME BufferInv, LatestInv, [UtilNext]_utilVars
             PROVE  W!WindowNext \/ UNCHANGED <<latest, AbstractReported>>
  OBVIOUS
<1>1. ASSUME UNCHANGED window PROVE UNCHANGED <<latest, AbstractReported>>
  BY <1>1 DEF window, AbstractReported
<1>2. ASSUME NEW sample \in Samples \cup {NoSample}, HS_ProcessMain(sample)
      PROVE  W!WindowNext \/ UNCHANGED window
  <2>1. HS_SysMonGetCpuUtilization(sample) \in Int
    BY <1>2, UtilIsInt
  <2>2. HS_MonitorUtilization(HS_SysMonGetCpuUtilization(sample)) \/ UNCHANGED window
    BY <1>2 DEF HS_ProcessMain, Sampling
  <2> QED
    BY <2>1, <2>2, RefinesReading
<1>3. CASE RestartHS
  <2>1. latest' = [i \in 1 .. P |-> 0] /\ UtilCpuAvg' = 0 /\ UtilCpuPeak' = 0
    BY <1>3 DEF RestartHS, Window, P
  <2> QED
    BY <2>1 DEF W!WindowNext, W!WindowRestart, P
<1>4. CASE \/ HS_EnableCpuHogCmd \/ HS_DisableCpuHogCmd \/ HS_EnableAlivenessCmd
           \/ HS_DisableAlivenessCmd \/ UNCHANGED utilVars
  <2>1. UNCHANGED window
    BY <1>4 DEF HS_EnableCpuHogCmd, HS_DisableCpuHogCmd, HS_EnableAlivenessCmd, HS_DisableAlivenessCmd,
                SetCpuHogState, SetAlivenessState, utilVars
  <2> QED
    BY <1>1, <2>1
<1> QED
  BY <1>1, <1>2, <1>3, <1>4 DEF UtilNext

(* Averages and peaks are those of the window of the latest intervals, for *)
(* every size of the buffer and the average and whatever the device says:  *)
(* an interval that could not be measured spoils no more than the windows  *)
(* it is in.                                                               *)
THEOREM WindowIsImplemented == UtilSpec => ImplementsWindow
<1>1. BufferInv /\ LatestInv /\ [UtilNext]_utilVars => [W!WindowNext]_<<latest, AbstractReported>>
  BY RefinesNext
<1> QED
  BY RefinesInit, <1>1, BufferIsKept, LatestAlways, PTL
     DEF UtilSpec, ImplementsWindow, W!WindowSpec, AbstractReported
=============================================================================
