---------------------------- MODULE HSAppMonProofs ----------------------------
(***************************************************************************)
(* The Application Monitor, for every table, timeout and set of            *)
(* applications.                                                           *)
(***************************************************************************)
EXTENDS HSAppMon, HSMsgActsProofs

LEMMA Bounds ==
  /\ MaxCycleCount \in Nat /\ MaxExecution \in Nat
  /\ HS_MAX_MONITORED_APPS \in Nat \ {0}
  /\ AMTables \subseteq [AMTIndex -> AMTEntries]
  BY AMTAssumption, TableSizes

(* Entries of any table HS may hold.                                       *)
LEMMA EntryTypes ==
  ASSUME NEW table \in AMTables \cup {EmptyAMT}, NEW e \in AMTIndex
  PROVE  /\ table[e].CycleCount \in 0 .. MaxCycleCount
         /\ InUse(table[e]) => table[e].AppName \in Apps
<1>1. CASE table \in AMTables
  BY <1>1, Bounds DEF AMTEntries
<1>2. CASE table = EmptyAMT
  BY <1>2, Bounds DEF EmptyAMT, InUse
<1> QED
  BY <1>1, <1>2

(***************************************************************************)
(* The message actions in the Application Monitor are those of HSMsgActs   *)
(***************************************************************************)
LEMMA SendsAsSpecified ==
  ASSUME NEW m, DoMsgAct(m)
  PROVE  [MATNext]_matVars
  BY DEF DoMsgAct, SendMsgAct, CanSend, MATNext

LEMMA MATStep == [AMNext]_amVars => [MATNext]_matVars
<1> SUFFICES ASSUME [AMNext]_amVars PROVE [MATNext]_matVars
  OBVIOUS
<1>1. CASE HS_TblInit \/ StartCycle
  BY <1>1 DEF HS_TblInit, StartCycle, MATStartCycle, MATNext
<1>2. CASE HS_MonitorApplications
  <2>1. PICK e \in AMTIndex :
          SkipEntry(e) \/ CheckedIn(e) \/ StillWaiting(e) \/ ExpireNoMessage(e) \/ ExpireMessage(e)
    BY <1>2 DEF HS_MonitorApplications
  <2>2. CASE ExpireMessage(e)
    BY <2>2, SendsAsSpecified DEF ExpireMessage
  <2>3. CASE ~ExpireMessage(e)
    BY <2>1, <2>3 DEF SkipEntry, CheckedIn, StillWaiting, ExpireNoMessage
  <2> QED
    BY <2>2, <2>3
<1>3. CASE EventMonMessage
  BY <1>3 DEF EventMonMessage, MATNext
<1>4. CASE HS_EnableAppMonCmd \/ HS_DisableAppMonCmd \/ EndCycle
  BY <1>4 DEF HS_EnableAppMonCmd, HS_DisableAppMonCmd, EndCycle
<1>5. CASE \E app \in Apps : AppRuns(app) \/ CounterWraps(app) \/ AppEnds(app) \/ AppRestarts(app)
  BY <1>5 DEF AppRuns, CounterWraps, AppEnds, AppRestarts, SetCounter
<1>6. CASE RestartHS
  BY <1>6 DEF RestartHS, MATNext
<1>7. CASE UNCHANGED amVars
  BY <1>7 DEF amVars
<1> QED
  BY <1>1, <1>2, <1>3, <1>4, <1>5, <1>6, <1>7 DEF AMNext, HSStep

(* Every behaviour of the Application Monitor is one of the message        *)
(* actions: what is proved of those holds here.                            *)
THEOREM AppMonSendsAsSpecified == AMSpec => MATSpec
<1>1. AMInit => MATInit
  BY DEF AMInit
<1> QED
  BY <1>1, MATStep, PTL DEF AMSpec, MATSpec

(* With the Application Monitor too, cooldowns are exact.                  *)
THEOREM AppMonCooldowns == AMSpec => []CooldownExact
  BY AppMonSendsAsSpecified, CooldownsAreExact, PTL

(***************************************************************************)
(* The kinds of steps                                                      *)
(***************************************************************************)
Rearms(table) == AMTable' = table /\ HS_AppMonStatusRefresh(table)
Rests == UNCHANGED <<AMTable, monVars, histVars, ExecutionCounter>>
Expires(e) == ExpireNoMessage(e) \/ ExpireMessage(e)
AppSteps(app) == AppRuns(app) \/ CounterWraps(app) \/ AppEnds(app) \/ AppRestarts(app)

LEMMA RestartRearms == RestartHS => Rearms(EmptyAMT)
  BY DEF RestartHS, Rearms, HS_AppMonStatusRefresh, EmptyAMT, InUse

LEMMA StepKinds ==
  ASSUME [AMNext]_amVars, AMTable \in AMTables \cup {EmptyAMT}
  PROVE  \/ \E table \in AMTables \cup {EmptyAMT} :
              Rearms(table) /\ (UNCHANGED ExecutionCounter \/ RestartHS)
         \/ Rests
         \/ \E e \in AMTIndex : CheckedIn(e) \/ StillWaiting(e) \/ Expires(e)
         \/ \E app \in Apps : AppSteps(app)
<1>1. CASE HS_TblInit \/ StartCycle
  BY <1>1 DEF HS_TblInit, StartCycle, AMTUpdated, AMTAcquired, AMTNotAcquired, Rearms, Rests
<1>2. CASE HS_MonitorApplications
  BY <1>2 DEF HS_MonitorApplications, SkipEntry, NextEntry, tblVars, Rests, Expires
<1>3. CASE EventMonMessage \/ HS_DisableAppMonCmd \/ EndCycle
  BY <1>3 DEF EventMonMessage, HS_DisableAppMonCmd, EndCycle, tblVars, Rests
<1>4. CASE HS_EnableAppMonCmd
  BY <1>4 DEF HS_EnableAppMonCmd, Rearms
<1>5. CASE \E app \in Apps : AppRuns(app) \/ CounterWraps(app) \/ AppEnds(app) \/ AppRestarts(app)
  BY <1>5 DEF AppSteps
<1>6. CASE RestartHS
  BY <1>6, RestartRearms
<1>7. CASE UNCHANGED amVars
  BY <1>7 DEF amVars, tblVars, Rests
<1> QED
  BY <1>1, <1>2, <1>3, <1>4, <1>5, <1>6, <1>7 DEF AMNext, HSStep

(***************************************************************************)
(* The inductive invariant: types, and for each entry that its enable bit, *)
(* its countdown, its table entry and its history agree                    *)
(***************************************************************************)
PlaceTypes ==
  /\ amPC \in {"start", "cycle", "monitor", "commands"}
  /\ TableIndex \in AMTIndex
  /\ AMTReady \in BOOLEAN
  /\ AppMonLoaded \in HS_STATES /\ CurrentAppMonState \in HS_STATES

MonTypes ==
  /\ AMTable \in AMTables \cup {EmptyAMT}
  /\ AppMonCheckInCountdown \in [AMTIndex -> 0 .. MaxCycleCount]
  /\ AppMonLastExeCount \in [AMTIndex -> 0 .. MaxExecution]
  /\ AppMonEnables \subseteq AMTIndex
  /\ ExecutionCounter \in [Apps -> 0 .. NotRunning]
  /\ ran \subseteq AMTIndex
  /\ silent \in [AMTIndex -> 0 .. MaxCycleCount + 1]
  /\ failures \in [AMTIndex -> 0 .. 2]

EntryInv(e) ==
  /\ e \in AppMonEnables <=> AppMonCheckInCountdown[e] # 0
  /\ e \in AppMonEnables => InUse(AMTable[e]) /\ failures[e] = 0
  /\ AppMonCheckInCountdown[e] <= AMTable[e].CycleCount
  /\ failures[e] <= 1

MonInv == MonTypes /\ \A e \in AMTIndex : EntryInv(e)

(* An entry that is armed is in use, so it names an application.           *)
LEMMA ArmedIsEnabled ==
  ASSUME MonInv, NEW e \in AMTIndex, Armed(e)
  PROVE  /\ e \in AppMonEnables
         /\ AMTable[e].AppName \in Apps
         /\ Counter(e) \in 0 .. NotRunning
         /\ AMTable[e].CycleCount \in 0 .. MaxCycleCount
         /\ AppMonCheckInCountdown[e] \in 1 .. AMTable[e].CycleCount
         /\ silent[e] \in 0 .. MaxCycleCount + 1
<1>1. EntryInv(e) /\ AppMonCheckInCountdown[e] # 0
  BY DEF MonInv, Armed
<1>2. e \in AppMonEnables /\ InUse(AMTable[e])
  BY <1>1 DEF EntryInv
<1>3. AMTable[e].CycleCount \in 0 .. MaxCycleCount /\ AMTable[e].AppName \in Apps
  BY <1>2, EntryTypes DEF MonInv, MonTypes
<1>4. Counter(e) \in 0 .. NotRunning
  BY <1>3 DEF MonInv, MonTypes, Counter
<1>5. AppMonCheckInCountdown[e] \in 0 .. MaxCycleCount /\ silent[e] \in 0 .. MaxCycleCount + 1
  BY DEF MonInv, MonTypes
<1>6. AppMonCheckInCountdown[e] \in 1 .. AMTable[e].CycleCount
  BY <1>1, <1>3, <1>5, Bounds DEF EntryInv
<1> QED
  BY <1>2, <1>3, <1>4, <1>5, <1>6

LEMMA MonInit == AMInit => MonInv /\ PlaceTypes
<1> SUFFICES ASSUME AMInit PROVE MonInv /\ PlaceTypes
  OBVIOUS
<1> USE Bounds DEF AMInit
<1>1. PlaceTypes
  <2>1. AMTReady \in BOOLEAN
    OBVIOUS
  <2>2. TableIndex \in AMTIndex /\ amPC \in {"start", "cycle", "monitor", "commands"}
    BY DEF AMTIndex
  <2>3. AppMonLoaded \in HS_STATES /\ CurrentAppMonState \in HS_STATES
    BY DEF HS_STATES
  <2> QED
    BY <2>1, <2>2, <2>3 DEF PlaceTypes
<1>2. MonTypes
  BY DEF MonTypes, NotRunning
<1>3. ASSUME NEW e \in AMTIndex PROVE EntryInv(e)
  BY DEF EntryInv, EmptyAMT
<1> QED
  BY <1>1, <1>2, <1>3 DEF MonInv

(* Arming every entry makes all of them agree again, whatever was before.  *)
LEMMA RearmInv ==
  ASSUME NEW table \in AMTables \cup {EmptyAMT}, Rearms(table),
         ExecutionCounter' \in [Apps -> 0 .. NotRunning]
  PROVE  MonInv'
<1> USE Bounds DEF Rearms, HS_AppMonStatusRefresh
<1>1. \A e \in AMTIndex : table[e].CycleCount \in 0 .. MaxCycleCount
  BY EntryTypes
<1>2. AppMonCheckInCountdown' \in [AMTIndex -> 0 .. MaxCycleCount]
  BY <1>1
<1>3. MonTypes'
  BY <1>2 DEF MonTypes
<1>4. ASSUME NEW e \in AMTIndex PROVE EntryInv(e)'
  BY <1>1 DEF EntryInv, InUse
<1> QED
  BY <1>3, <1>4 DEF MonInv

(* What the checks of one entry, and the steps of applications, leave.     *)
LEMMA ObservedTypes ==
  ASSUME MonInv, NEW e \in AMTIndex, Observed(e)
  PROVE  /\ ran' \subseteq AMTIndex
         /\ silent' \in [AMTIndex -> 0 .. MaxCycleCount + 1]
  BY Bounds DEF MonInv, MonTypes, Observed

LEMMA CheckedInInv ==
  ASSUME MonInv, NEW e \in AMTIndex, CheckedIn(e)
  PROVE  MonInv'
<1> USE Bounds DEF CheckedIn
<1>1. /\ AMTable[e].CycleCount \in 0 .. MaxCycleCount
      /\ e \in AppMonEnables /\ Counter(e) \in 0 .. NotRunning
      /\ AppMonCheckInCountdown[e] \in 1 .. AMTable[e].CycleCount
  BY ArmedIsEnabled
<1>2. Counter(e) \in 0 .. MaxExecution
  BY <1>1 DEF CounterMoved, NotRunning
<1>3. UNCHANGED <<AMTable, ExecutionCounter>>
  BY DEF NextEntry, tblVars
<1>4. MonTypes'
  BY <1>1, <1>2, <1>3, ObservedTypes DEF MonInv, MonTypes
<1>5. ASSUME NEW d \in AMTIndex PROVE EntryInv(d)'
  BY <1>1, <1>3 DEF MonInv, MonTypes, EntryInv
<1> QED
  BY <1>4, <1>5 DEF MonInv

LEMMA StillWaitingInv ==
  ASSUME MonInv, NEW e \in AMTIndex, StillWaiting(e)
  PROVE  MonInv'
<1> USE Bounds DEF StillWaiting, Missed
<1>1. /\ e \in AppMonEnables
      /\ AMTable[e].CycleCount \in 0 .. MaxCycleCount
      /\ AppMonCheckInCountdown[e] \in 1 .. AMTable[e].CycleCount
  BY ArmedIsEnabled
<1>2. AppMonCheckInCountdown[e] - 1 \in 1 .. MaxCycleCount
  BY <1>1
<1>3. UNCHANGED <<AMTable, ExecutionCounter>>
  BY DEF NextEntry, tblVars
<1>4. MonTypes'
  BY <1>2, <1>3, ObservedTypes DEF MonInv, MonTypes
<1>5. ASSUME NEW d \in AMTIndex PROVE EntryInv(d)'
  BY <1>1, <1>3 DEF MonInv, MonTypes, EntryInv
<1> QED
  BY <1>4, <1>5 DEF MonInv

LEMMA ExpiresInv ==
  ASSUME MonInv, NEW e \in AMTIndex, Expires(e)
  PROVE  MonInv'
<1>1. Expire(e)
  BY DEF Expires, ExpireNoMessage, ExpireMessage
<1> USE Bounds DEF Expire, Missed
<1>2. /\ e \in AppMonEnables
      /\ AMTable[e].CycleCount \in 0 .. MaxCycleCount
  BY <1>1, ArmedIsEnabled
<1>3. failures[e] = 0
  BY <1>2 DEF MonInv, EntryInv
<1>4. UNCHANGED <<AMTable, ExecutionCounter>>
  BY <1>1 DEF NextEntry, tblVars
<1>5. MonTypes'
  BY <1>1, <1>3, <1>4, ObservedTypes DEF MonInv, MonTypes
<1>6. ASSUME NEW d \in AMTIndex PROVE EntryInv(d)'
  BY <1>1, <1>2, <1>3, <1>4 DEF MonInv, MonTypes, EntryInv
<1> QED
  BY <1>5, <1>6 DEF MonInv

LEMMA AppStepInv ==
  ASSUME MonInv, NEW app \in Apps, AppSteps(app)
  PROVE  MonInv'
<1> USE Bounds
<1>1. UNCHANGED <<AMTable, monVars, silent, failures>>
  BY DEF AppSteps, AppRuns, CounterWraps, AppEnds, AppRestarts, SetCounter, tblVars
<1>2. ExecutionCounter' \in [Apps -> 0 .. NotRunning] /\ ran' \subseteq AMTIndex
  BY DEF MonInv, MonTypes, AppSteps, AppRuns, CounterWraps, AppEnds, AppRestarts,
         SetCounter, EntriesOf, NotRunning
<1> QED
  BY <1>1, <1>2 DEF MonInv, MonTypes, EntryInv, monVars

LEMMA MonNext == MonInv /\ [AMNext]_amVars => MonInv'
<1> SUFFICES ASSUME MonInv, [AMNext]_amVars PROVE MonInv'
  OBVIOUS
<1>1. CASE \E table \in AMTables \cup {EmptyAMT} :
              Rearms(table) /\ (UNCHANGED ExecutionCounter \/ RestartHS)
  <2>1. ExecutionCounter' \in [Apps -> 0 .. NotRunning]
    BY <1>1, Bounds DEF MonInv, MonTypes, RestartHS, NotRunning
  <2> QED
    BY <1>1, <2>1, RearmInv
<1>2. CASE Rests
  BY <1>2 DEF Rests, monVars, histVars, MonInv, MonTypes, EntryInv
<1>3. CASE \E e \in AMTIndex : CheckedIn(e) \/ StillWaiting(e) \/ Expires(e)
  BY <1>3, CheckedInInv, StillWaitingInv, ExpiresInv
<1>4. CASE \E app \in Apps : AppSteps(app)
  BY <1>4, AppStepInv
<1> QED
  BY <1>1, <1>2, <1>3, <1>4, StepKinds DEF MonInv, MonTypes

(***************************************************************************)
(* Where HS is, and what it knows of its table                             *)
(***************************************************************************)
LEMMA NextIndex ==
  ASSUME TableIndex \in AMTIndex, NextEntry
  PROVE  TableIndex' \in AMTIndex
<1>1. TableIndex + 1 \in 0 .. HS_MAX_MONITORED_APPS
  BY Bounds DEF AMTIndex
<1>2. \A n \in Nat \ {0} : \A i \in Int : i % n \in 0 .. n - 1
  OBVIOUS
<1> QED
  BY <1>1, <1>2, Bounds DEF NextEntry, AMTIndex

LEMMA PlaceNext == PlaceTypes /\ [AMNext]_amVars => PlaceTypes'
<1> SUFFICES ASSUME PlaceTypes, [AMNext]_amVars PROVE PlaceTypes'
  OBVIOUS
<1> USE DEF PlaceTypes
<1>1. 0 \in AMTIndex /\ HS_STATE_DISABLED \in HS_STATES /\ HS_STATE_ENABLED \in HS_STATES
  BY Bounds DEF AMTIndex, HS_STATES
<1>2. AMTReady' \in BOOLEAN
  BY DEF AMNext, HSStep, HS_TblInit, StartCycle, AMTUpdated, AMTAcquired, AMTNotAcquired,
         HS_MonitorApplications, SkipEntry, CheckedIn, StillWaiting, ExpireNoMessage,
         ExpireMessage, Expire, NextEntry, tblVars, EventMonMessage, HS_EnableAppMonCmd,
         HS_DisableAppMonCmd, EndCycle, AppRuns, CounterWraps, AppEnds, AppRestarts,
         SetCounter, RestartHS, amVars
<1>3. CASE HS_TblInit \/ StartCycle
  BY <1>1, <1>2, <1>3 DEF HS_TblInit, StartCycle, AMTUpdated, AMTAcquired, AMTNotAcquired
<1>4. CASE HS_MonitorApplications
  <2>1. NextEntry
    BY <1>4 DEF HS_MonitorApplications, SkipEntry, CheckedIn, StillWaiting, ExpireNoMessage,
                ExpireMessage, Expire
  <2> QED
    BY <1>2, <2>1, NextIndex DEF NextEntry, tblVars
<1>5. CASE EventMonMessage \/ HS_EnableAppMonCmd \/ HS_DisableAppMonCmd \/ EndCycle
  BY <1>1, <1>2, <1>5 DEF EventMonMessage, HS_EnableAppMonCmd, HS_DisableAppMonCmd, EndCycle, tblVars
<1>6. CASE \E app \in Apps : AppRuns(app) \/ CounterWraps(app) \/ AppEnds(app) \/ AppRestarts(app)
  BY <1>2, <1>6 DEF AppRuns, CounterWraps, AppEnds, AppRestarts, SetCounter, tblVars
<1>7. CASE RestartHS
  BY <1>1, <1>2, <1>7 DEF RestartHS
<1>8. CASE UNCHANGED amVars
  BY <1>2, <1>8 DEF amVars, tblVars
<1> QED
  BY <1>3, <1>4, <1>5, <1>6, <1>7, <1>8 DEF AMNext, HSStep

LEMMA LoadedNext == PlaceTypes /\ ChecksLoadedTable /\ [AMNext]_amVars => ChecksLoadedTable'
<1> SUFFICES ASSUME PlaceTypes, ChecksLoadedTable, [AMNext]_amVars PROVE ChecksLoadedTable'
  OBVIOUS
<1> USE DEF ChecksLoadedTable
<1>1. CASE HS_TblInit \/ EndCycle \/ RestartHS
  BY <1>1 DEF HS_TblInit, EndCycle, RestartHS
<1>2. CASE StartCycle
  <2>1. CASE AppMonLoaded' = HS_STATE_ENABLED /\ AMTReady'
    BY <2>1
  <2>2. CASE AppMonLoaded' = HS_STATE_DISABLED
    BY <1>2, <2>2 DEF StartCycle, HS_STATE_DISABLED, HS_STATE_ENABLED
  <2> QED
    BY <1>2, <2>1, <2>2 DEF StartCycle, AMTUpdated, AMTAcquired, AMTNotAcquired
<1>3. CASE HS_MonitorApplications
  <2>1. NextEntry /\ amPC = "monitor"
    BY <1>3 DEF HS_MonitorApplications, SkipEntry, CheckedIn, StillWaiting, ExpireNoMessage,
                ExpireMessage, Expire, Missed, At
  <2> QED
    BY <2>1 DEF NextEntry, tblVars
<1>4. CASE EventMonMessage \/ HS_EnableAppMonCmd \/ HS_DisableAppMonCmd
  BY <1>4 DEF EventMonMessage, HS_EnableAppMonCmd, HS_DisableAppMonCmd
<1>5. CASE \E app \in Apps : AppRuns(app) \/ CounterWraps(app) \/ AppEnds(app) \/ AppRestarts(app)
  BY <1>5 DEF AppRuns, CounterWraps, AppEnds, AppRestarts, SetCounter, tblVars
<1>6. CASE UNCHANGED amVars
  BY <1>6 DEF amVars, tblVars
<1> QED
  BY <1>1, <1>2, <1>3, <1>4, <1>5, <1>6 DEF AMNext, HSStep

(***************************************************************************)
(* The theorems that need no assumption about applications                 *)
(***************************************************************************)
AMInv == MATInv /\ MonInv /\ PlaceTypes /\ ChecksLoadedTable

(* The inductive invariant holds in every behaviour, with any restarts of  *)
(* applications, wraps of counters and failed calls.                       *)
THEOREM AMInvariant == AMSpec => []AMInv
<1>1. AMInit => AMInv
  <2> SUFFICES ASSUME AMInit PROVE AMInv
    OBVIOUS
  <2>1. MATInv
    BY MATInitInv DEF AMInit
  <2>2. ChecksLoadedTable
    BY DEF AMInit, ChecksLoadedTable
  <2> QED
    BY <2>1, <2>2, MonInit DEF AMInv
<1>2. AMInv /\ [AMNext]_amVars => AMInv'
  BY MATStep, MATNextInv, MonNext, PlaceNext, LoadedNext DEF AMInv
<1> QED
  BY <1>1, <1>2, PTL DEF AMSpec

(* Every variable has its type.                                            *)
THEOREM AppMonTypeCorrect == AMSpec => []AMTypeOK
<1>1. AMInv => AMTypeOK
  BY DEF AMInv, MATInv, MonInv, MonTypes, PlaceTypes, AMTypeOK
<1> QED
  BY <1>1, AMInvariant, PTL

(* The enable bits, the countdowns and the table stay in step.             *)
THEOREM EnableBitsMatch == AMSpec => []EnablesMatch
<1>1. AMInv => EnablesMatch
  BY DEF AMInv, MonInv, EntryInv, EnablesMatch
<1> QED
  BY <1>1, AMInvariant, PTL

(* An entry acts at most once until it is armed again.                     *)
THEOREM EntriesActOnce == AMSpec => []ActsOnce
<1>1. AMInv => ActsOnce
  BY DEF AMInv, MonInv, EntryInv, ActsOnce
<1> QED
  BY <1>1, AMInvariant, PTL

(* Nothing is checked in a cycle whose table was not read.                 *)
THEOREM OnlyLoadedTablesChecked == AMSpec => []ChecksLoadedTable
  BY AMInvariant, PTL DEF AMInv

(***************************************************************************)
(* Silence is detected in time, where applications do not restart behind   *)
(* the back of HS: an entry whose counter differs from the one remembered, *)
(* without the application having run, has only just been armed            *)
(***************************************************************************)
LateInv(e) ==
  e \in AppMonEnables =>
    /\ silent[e] <= AMTable[e].CycleCount - AppMonCheckInCountdown[e] + 1
    /\ CounterMoved(e) /\ e \notin ran => silent[e] = 0

(* No action is too early, where moreover counters do not wrap: a counter  *)
(* never falls below the one remembered, and exceeds it once the           *)
(* application has run.                                                    *)
EarlyInv(e) ==
  e \in AppMonEnables =>
    /\ AMTable[e].CycleCount - AppMonCheckInCountdown[e] <= silent[e]
    /\ AppMonLastExeCount[e] <= Counter(e)
    /\ e \in ran => Counter(e) # NotRunning /\ AppMonLastExeCount[e] < Counter(e)

(* Arming the entries anew establishes both.                               *)
LEMMA RearmTimely ==
  ASSUME NEW table \in AMTables \cup {EmptyAMT}, Rearms(table), MonInv',
         NEW e \in AMTIndex
  PROVE  LateInv(e)' /\ EarlyInv(e)'
<1> USE Bounds DEF Rearms, HS_AppMonStatusRefresh
<1>1. CASE e \in AppMonEnables'
  <2>1. InUse(table[e]) /\ table[e].CycleCount \in 0 .. MaxCycleCount /\ table[e].AppName \in Apps
    BY <1>1, EntryTypes
  <2>2. Counter(e)' \in 0 .. NotRunning
    BY <2>1 DEF MonInv, MonTypes, Counter
  <2>3. AppMonCheckInCountdown'[e] = table[e].CycleCount /\ silent'[e] = 0 /\ AppMonLastExeCount'[e] = 0
    BY <2>1
  <2> QED
    BY <2>1, <2>2, <2>3 DEF LateInv, EarlyInv
<1>2. CASE e \notin AppMonEnables'
  BY <1>2 DEF LateInv, EarlyInv
<1> QED
  BY <1>1, <1>2

(* What a check of entry e leaves of the other entries.                    *)
Checks(e) == CheckedIn(e) \/ StillWaiting(e) \/ Expires(e)

LEMMA OtherEntries ==
  ASSUME MonInv, NEW e \in AMTIndex, Checks(e), NEW d \in AMTIndex, d # e
  PROVE  /\ d \in AppMonEnables' <=> d \in AppMonEnables
         /\ d \in ran' <=> d \in ran
         /\ silent'[d] = silent[d]
         /\ AppMonCheckInCountdown'[d] = AppMonCheckInCountdown[d]
         /\ AppMonLastExeCount'[d] = AppMonLastExeCount[d]
         /\ UNCHANGED <<AMTable, ExecutionCounter>>
         /\ Counter(d)' = Counter(d) /\ (CounterMoved(d)' <=> CounterMoved(d))
<1>1. Observed(e) /\ NextEntry
  BY DEF Checks, CheckedIn, StillWaiting, Expires, ExpireNoMessage, ExpireMessage, Expire, Missed
<1>2. /\ UNCHANGED <<AMTable, ExecutionCounter>>
      /\ silent'[d] = silent[d]
      /\ d \in ran' <=> d \in ran
  BY <1>1 DEF Observed, NextEntry, tblVars, MonInv, MonTypes
<1>3. /\ d \in AppMonEnables' <=> d \in AppMonEnables
      /\ AppMonCheckInCountdown'[d] = AppMonCheckInCountdown[d]
      /\ AppMonLastExeCount'[d] = AppMonLastExeCount[d]
  BY DEF Checks, CheckedIn, StillWaiting, Expires, ExpireNoMessage, ExpireMessage, Expire,
         Missed, MonInv, MonTypes
<1> QED
  BY <1>2, <1>3 DEF Counter, CounterMoved

(* What a check of an entry leaves of that entry.                          *)
LEMMA ThisEntry ==
  ASSUME MonInv, NEW e \in AMTIndex, Checks(e)
  PROVE  /\ Armed(e)
         /\ e \notin ran'
         /\ silent'[e] = IF e \in ran THEN 0 ELSE IF silent[e] > MaxCycleCount THEN silent[e] ELSE silent[e] + 1
         /\ UNCHANGED AMTable /\ Counter(e)' = Counter(e)
         /\ \/ /\ CheckedIn(e)
               /\ AppMonCheckInCountdown'[e] = AMTable[e].CycleCount
               /\ AppMonLastExeCount'[e] = Counter(e)
            \/ /\ Missed(e)
               /\ AppMonCheckInCountdown'[e] = AppMonCheckInCountdown[e] - 1
               /\ AppMonLastExeCount'[e] = AppMonLastExeCount[e]
<1>1. Observed(e) /\ NextEntry
  BY DEF Checks, CheckedIn, StillWaiting, Expires, ExpireNoMessage, ExpireMessage, Expire, Missed
<1>2. UNCHANGED <<AMTable, ExecutionCounter>> /\ Counter(e)' = Counter(e)
  BY <1>1 DEF NextEntry, tblVars, Counter
<1>3. /\ e \notin ran'
      /\ silent'[e] = IF e \in ran THEN 0 ELSE IF silent[e] > MaxCycleCount THEN silent[e] ELSE silent[e] + 1
  BY <1>1 DEF Observed, MonInv, MonTypes
<1>4. CASE CheckedIn(e)
  BY <1>2, <1>3, <1>4 DEF CheckedIn, MonInv, MonTypes
<1>5. CASE StillWaiting(e) \/ Expires(e)
  BY <1>2, <1>3, <1>5 DEF StillWaiting, Expires, ExpireNoMessage, ExpireMessage, Expire, Missed,
                          MonInv, MonTypes
<1> QED
  BY <1>4, <1>5 DEF Checks

LEMMA ChecksLate ==
  ASSUME "GetAppInfo" \notin AppFaults, MonInv, NEW e \in AMTIndex, Checks(e),
         NEW d \in AMTIndex, LateInv(d)
  PROVE  LateInv(d)'
<1>1. CASE d # e
  BY <1>1, OtherEntries DEF LateInv
<1>2. CASE d = e
  <2> USE Bounds DEF NotRunning
  <2>1. /\ e \in AppMonEnables
        /\ Counter(e) \in 0 .. NotRunning
        /\ AMTable[e].CycleCount \in 0 .. MaxCycleCount
        /\ AppMonCheckInCountdown[e] \in 1 .. AMTable[e].CycleCount
        /\ silent[e] \in 0 .. MaxCycleCount + 1
    BY ThisEntry, ArmedIsEnabled
  <2>2. /\ silent[e] <= AMTable[e].CycleCount - AppMonCheckInCountdown[e] + 1
        /\ CounterMoved(e) /\ e \notin ran => silent[e] = 0
    BY <1>2, <2>1 DEF LateInv
  <2>3. CASE CheckedIn(e) /\ AppMonCheckInCountdown'[e] = AMTable[e].CycleCount
                         /\ AppMonLastExeCount'[e] = Counter(e)
    <3>1. CounterMoved(e)
      BY <2>3 DEF CheckedIn
    <3>2. silent'[e] <= 1
      BY <2>1, <2>2, <3>1, ThisEntry
    <3>3. ~CounterMoved(e)'
      BY <2>3, ThisEntry DEF CounterMoved
    <3> QED
      BY <1>2, <2>1, <2>3, <3>2, <3>3, ThisEntry DEF LateInv
  <2>4. CASE Missed(e) /\ AppMonCheckInCountdown'[e] = AppMonCheckInCountdown[e] - 1
                      /\ AppMonLastExeCount'[e] = AppMonLastExeCount[e]
    <3>1. ~CounterMoved(e)
      BY <2>4 DEF Missed, AMTMay
    <3>2. ~CounterMoved(e)'
      BY <2>4, <3>1, ThisEntry DEF CounterMoved
    <3>3. silent'[e] <= silent[e] + 1
      BY <2>1, ThisEntry
    <3>4. silent'[e] \in Int
      BY <2>1, ThisEntry
    <3> QED
      BY <1>2, <2>1, <2>2, <2>4, <3>2, <3>3, <3>4, ThisEntry DEF LateInv
  <2> QED
    BY <2>3, <2>4, ThisEntry
<1> QED
  BY <1>1, <1>2

LEMMA ChecksEarly ==
  ASSUME "GetAppInfo" \notin AppFaults, MonInv, NEW e \in AMTIndex, Checks(e),
         NEW d \in AMTIndex, EarlyInv(d)
  PROVE  EarlyInv(d)' /\ (d = e /\ Expires(e) => silent'[e] >= AMTable[e].CycleCount)
<1>1. CASE d # e
  BY <1>1, OtherEntries DEF EarlyInv
<1>2. CASE d = e
  <2> USE Bounds DEF NotRunning
  <2>1. /\ e \in AppMonEnables
        /\ Counter(e) \in 0 .. NotRunning
        /\ AMTable[e].CycleCount \in 0 .. MaxCycleCount
        /\ AppMonCheckInCountdown[e] \in 1 .. AMTable[e].CycleCount
        /\ silent[e] \in 0 .. MaxCycleCount + 1
    BY ThisEntry, ArmedIsEnabled
  <2>2. /\ AMTable[e].CycleCount - AppMonCheckInCountdown[e] <= silent[e]
        /\ AppMonLastExeCount[e] <= Counter(e)
        /\ e \in ran => Counter(e) # NotRunning /\ AppMonLastExeCount[e] < Counter(e)
    BY <1>2, <2>1 DEF EarlyInv
  <2>3. silent'[e] \in 0 .. MaxCycleCount + 1
    BY <2>1, ThisEntry
  <2>4. CASE CheckedIn(e) /\ AppMonCheckInCountdown'[e] = AMTable[e].CycleCount
                         /\ AppMonLastExeCount'[e] = Counter(e)
    <3>1. EarlyInv(e)'
      BY <2>1, <2>3, <2>4, ThisEntry DEF EarlyInv
    <3>2. ~Expires(e)
      <4>1. AppMonCheckInCountdown'[e] # AppMonCheckInCountdown[e] - 1
        BY <2>1, <2>4
      <4> QED
        BY <4>1 DEF Expires, ExpireNoMessage, ExpireMessage, Expire, Missed, MonInv, MonTypes
    <3> QED
      BY <1>2, <3>1, <3>2
  <2>5. CASE Missed(e) /\ AppMonCheckInCountdown'[e] = AppMonCheckInCountdown[e] - 1
                      /\ AppMonLastExeCount'[e] = AppMonLastExeCount[e]
    <3>1. ~CounterMoved(e)
      BY <2>5 DEF Missed, AMTMay
    <3>2. e \notin ran
      BY <2>1, <2>2, <3>1 DEF CounterMoved, MonInv, MonTypes
    <3>3. AMTable[e].CycleCount - AppMonCheckInCountdown'[e] <= silent'[e]
      BY <2>1, <2>2, <2>5, <3>2, ThisEntry
    <3>4. Expires(e) => silent'[e] >= AMTable[e].CycleCount
      <4>1. Expires(e) => AppMonCheckInCountdown[e] = 1
        BY DEF Expires, ExpireNoMessage, ExpireMessage, Expire
      <4> QED
        BY <2>1, <2>3, <2>5, <3>3, <4>1
    <3> QED
      BY <1>2, <2>2, <2>5, <3>3, <3>4, ThisEntry DEF EarlyInv
  <2> QED
    BY <2>4, <2>5, ThisEntry
<1> QED
  BY <1>1, <1>2

LEMMA AppStepKeeps ==
  ASSUME NEW app \in Apps, AppSteps(app)
  PROVE  UNCHANGED <<AMTable, monVars, silent>>
  BY DEF AppSteps, AppRuns, CounterWraps, AppEnds, AppRestarts, SetCounter, tblVars

(* What the steps of an application leave of an armed entry.               *)
LEMMA AppStepEntry ==
  ASSUME "restart" \notin AppFaults, MonInv, NEW app \in Apps, AppSteps(app),
         NEW e \in AppMonEnables
  PROVE  /\ UNCHANGED <<AMTable, monVars, silent>>
         /\ AMTable[e].AppName # app => Counter(e)' = Counter(e) /\ (e \in ran' <=> e \in ran)
         /\ AMTable[e].AppName = app =>
              \/ Counter(e) < MaxExecution /\ Counter(e)' = Counter(e) + 1 /\ e \in ran'
              \/ "wrap" \in AppFaults /\ Counter(e)' = 0 /\ e \in ran'
              \/ Counter(e)' = NotRunning /\ e \notin ran'
<1>1. UNCHANGED <<AMTable, monVars, silent>>
  BY AppStepKeeps
<1>2. CASE AMTable[e].AppName # app
  <2>1. e \in AMTIndex /\ AMTable[e].AppName \in Apps
    BY EntryTypes DEF MonInv, MonTypes, EntryInv
  <2>2. Counter(e)' = Counter(e)
    BY <1>1, <1>2, <2>1 DEF AppSteps, AppRuns, CounterWraps, AppEnds, AppRestarts, SetCounter,
                            Counter, MonInv, MonTypes
  <2>3. e \in ran' <=> e \in ran
    BY <1>2, <2>1 DEF AppSteps, AppRuns, CounterWraps, AppEnds, AppRestarts, SetCounter, EntriesOf
  <2> QED
    BY <1>1, <1>2, <2>2, <2>3
<1>3. CASE AMTable[e].AppName = app
  <2> USE DEF MonInv, MonTypes
  <2>1. CASE AppRuns(app)
    BY <1>1, <1>3, <2>1 DEF AppRuns, SetCounter, EntriesOf, Counter
  <2>2. CASE CounterWraps(app)
    BY <1>1, <1>3, <2>2 DEF CounterWraps, SetCounter, EntriesOf, Counter, AMTMay
  <2>3. CASE AppEnds(app)
    BY <1>1, <1>3, <2>3 DEF AppEnds, SetCounter, EntriesOf, Counter
  <2> QED
    BY <2>1, <2>2, <2>3 DEF AppSteps, AppRestarts, AMTMay
<1> QED
  BY <1>1, <1>2, <1>3

LEMMA AppStepLate ==
  ASSUME "restart" \notin AppFaults, MonInv, NEW app \in Apps, AppSteps(app),
         NEW e \in AMTIndex, LateInv(e)
  PROVE  LateInv(e)'
<1>1. CASE e \in AppMonEnables
  BY <1>1, AppStepEntry, Bounds DEF LateInv, CounterMoved, monVars
<1>2. CASE e \notin AppMonEnables
  BY <1>2, AppStepKeeps DEF LateInv, monVars
<1> QED
  BY <1>1, <1>2

LEMMA AppStepEarly ==
  ASSUME AppFaults = {}, MonInv, NEW app \in Apps, AppSteps(app),
         NEW e \in AMTIndex, EarlyInv(e)
  PROVE  EarlyInv(e)'
<1>1. CASE e \in AppMonEnables
  <2>1. Counter(e) \in 0 .. NotRunning /\ AppMonLastExeCount[e] \in 0 .. MaxExecution
    <3>1. InUse(AMTable[e])
      BY <1>1 DEF MonInv, EntryInv
    <3> QED
      BY <3>1, EntryTypes DEF MonInv, MonTypes, Counter
  <2> QED
    BY <1>1, <2>1, AppStepEntry, Bounds DEF EarlyInv, monVars, NotRunning
<1>2. CASE e \notin AppMonEnables
  BY <1>2, AppStepKeeps DEF EarlyInv, monVars
<1> QED
  BY <1>1, <1>2

LEMMA RestKeeps ==
  ASSUME Rests, NEW e \in AMTIndex
  PROVE  (LateInv(e) => LateInv(e)') /\ (EarlyInv(e) => EarlyInv(e)')
  BY DEF Rests, monVars, histVars, LateInv, EarlyInv, Counter, CounterMoved

(* An application that does not run is acted on in time: where            *)
(* applications are not restarted and their counters can be read, no check *)
(* after the CycleCount + 1 first finds the entry still waiting.           *)
THEOREM SilenceIsDetected ==
  ASSUME "restart" \notin AppFaults, "GetAppInfo" \notin AppFaults
  PROVE  AMSpec => []SilenceDetected
<1> DEFINE AllLate == \A e \in AMTIndex : LateInv(e)
<1>1. AMInit => AllLate
  BY DEF AMInit, LateInv
<1>2. AMInv /\ AMInv' /\ AllLate /\ [AMNext]_amVars => AllLate'
  <2> SUFFICES ASSUME AMInv, AMInv', AllLate, [AMNext]_amVars, NEW e \in AMTIndex
               PROVE  LateInv(e)'
    OBVIOUS
  <2>1. MonInv /\ MonInv' /\ AMTable \in AMTables \cup {EmptyAMT}
    BY DEF AMInv, MonInv, MonTypes
  <2> QED
    BY <2>1, StepKinds, RearmTimely, RestKeeps, ChecksLate, AppStepLate DEF Checks
<1>3. AMInv /\ AllLate => SilenceDetected
  BY DEF AMInv, MonInv, MonTypes, LateInv, SilenceDetected
<1> QED
  BY <1>1, <1>2, <1>3, AMInvariant, PTL DEF AMSpec

(* No action is taken for an application that has run within the last      *)
(* CycleCount cycles, where applications are not restarted, counters do    *)
(* not wrap and can be read.                                               *)
THEOREM ActionsOnlyOnSilence ==
  ASSUME AppFaults = {}
  PROVE  AMSpec => ActsOnlyOnSilence
<1> DEFINE AllEarly == \A e \in AMTIndex : EarlyInv(e)
<1>1. AMInit => AllEarly
  BY DEF AMInit, EarlyInv
<1>2. AMInv /\ AMInv' /\ AllEarly /\ [AMNext]_amVars => AllEarly'
  <2> SUFFICES ASSUME AMInv, AMInv', AllEarly, [AMNext]_amVars, NEW e \in AMTIndex
               PROVE  EarlyInv(e)'
    OBVIOUS
  <2>1. MonInv /\ MonInv' /\ AMTable \in AMTables \cup {EmptyAMT}
    BY DEF AMInv, MonInv, MonTypes
  <2> QED
    BY <2>1, StepKinds, RearmTimely, RestKeeps, ChecksEarly, AppStepEarly DEF Checks
<1>3. AMInv /\ AllEarly /\ [AMNext]_amVars
      => [\A e \in AMTIndex :
            ExpireNoMessage(e) \/ ExpireMessage(e) => silent'[e] >= AMTable[e].CycleCount]_amVars
  BY ChecksEarly DEF AMInv, Checks, Expires
<1> QED
  BY <1>1, <1>2, <1>3, AMInvariant, PTL DEF AMSpec, ActsOnlyOnSilence
=============================================================================
