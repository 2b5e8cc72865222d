----------------------------- MODULE HSAppProofs -----------------------------
(***************************************************************************)
(* The count of processor resets, for every width of a word, every limit   *)
(* and every combination of faults but those a theorem excludes; and the   *)
(* watchdog, for every timeout and delay that TimeAssumption allows.       *)
(***************************************************************************)
EXTENDS HSApp, TLAPS

Blocks == CDSImages \cup {NoBlock}

(* HS writes to the CDS only when ES holds a block for it.                 *)
TypeInv == TypeOK /\ (CDSState = ENABLED_ => cds # NoBlock)

(***************************************************************************)
(* Words, and the images made of them                                      *)
(***************************************************************************)
LEMMA WordFacts ==
  /\ 0 \in Word
  /\ HS_MAX_RESTART_ACTIONS \in Word
  /\ \A max \in MaxResetsArgs : max \in Word
  /\ \A w \in Word : Not(w) \in Word /\ Not(Not(w)) = w
  /\ \A v, w \in Word : Not(v) = Not(w) => v = w
  BY WordAssumption, LimitAssumption DEF Word, Not

LEMMA ImageFacts ==
  ASSUME NEW performed \in Word, NEW max \in Word
  PROVE  /\ Image(performed, max) \in CDSImages
         /\ Image(performed, max).ResetsPerformed = performed
         /\ Image(performed, max).MaxResets = max
         /\ Intact(Image(performed, max))
<1>1. Not(performed) \in Word /\ Not(max) \in Word
  BY WordFacts
<1>2. Not(Not(performed)) = performed /\ Not(Not(max)) = max
  BY WordFacts
<1>3. Image(performed, max) \in CDSImages
  BY <1>1 DEF Image, CDSImages
<1>4. Image(performed, max) # NoBlock
  BY <1>3, NoBlockAssumption
<1> QED
  BY <1>2, <1>3, <1>4 DEF Image, Intact

LEMMA ZeroImageType == ZeroImage \in CDSImages
  BY WordFacts DEF ZeroImage, CDSImages

(* What HS_SetCDSData may be writing is made of words.                     *)
LEMMA PendingType ==
  ASSUME TypeInv, NEW new \in PendingWrites
  PROVE  new \in CDSImages
<1>1. CDSData.ResetsPerformed \in Word /\ CDSData.MaxResets \in Word
  BY DEF TypeInv, TypeOK, CDSImages
<1>2. CASE new = Image(0, HS_MAX_RESTART_ACTIONS)
  BY <1>2, WordFacts, ImageFacts
<1>3. CASE new = ChargedImage /\ \E m \in Monitor : CanReset(m)
  <2>1. CDSData.ResetsPerformed + 1 \in Word
    BY <1>1, <1>3, WordAssumption DEF CanReset, Word
  <2> QED
    BY <1>1, <1>3, <2>1, ImageFacts DEF ChargedImage
<1>4. CASE new = Image(0, CDSData.MaxResets)
  BY <1>1, <1>4, WordFacts, ImageFacts
<1>5. CASE \E max \in MaxResetsArgs : new = Image(CDSData.ResetsPerformed, max)
  BY <1>1, <1>5, WordFacts, ImageFacts
<1> QED
  BY <1>2, <1>3, <1>4, <1>5 DEF PendingWrites

LEMMA TornFacts ==
  ASSUME NEW old \in CDSImages, NEW new \in CDSImages, NEW words \in 1 .. 3
  PROVE  /\ Torn(old, new, words) \in CDSImages
         /\ Torn(old, new, words).ResetsPerformed = new.ResetsPerformed
  BY DEF Torn, CDSImages

(***************************************************************************)
(* Types                                                                   *)
(***************************************************************************)
LEMMA InitType == Init => TypeInv
<1> SUFFICES ASSUME Init PROVE TypeInv
  OBVIOUS
<1>1. watchdog \in 0 .. HS_WATCHDOG_TIMEOUT_VALUE /\ timer \in Nat /\ resets \in 0 .. UINT16_MAX + 1
  BY TimeAssumption, WordAssumption DEF Init
<1>2. subscribed \in BOOLEAN /\ synced \in BOOLEAN
  BY DEF Init
<1>3. CDSState = DISABLED /\ ServiceWatchdogFlag \in States /\ CurrentAppMonState \in States
      /\ CurrentEventMonState \in States
  BY DEF Init, States
<1> QED
  BY <1>1, <1>2, <1>3, ZeroImageType
  DEF Init, TypeInv, TypeOK, States, DISABLED, ENABLED_, PCs, Down, Monitor

(* HS starts again, or not, with "block" in the CDS.                       *)
LEMMA LeaveType ==
  ASSUME NEW block \in Blocks, NEW performed \in 0 .. UINT16_MAX + 1,
         Leave(block, performed), pc' \in PCs, watchdog' \in 0 .. HS_WATCHDOG_TIMEOUT_VALUE
  PROVE  TypeInv'
<1>1. timer' \in Nat /\ resets' \in 0 .. UINT16_MAX + 1
  BY WordAssumption DEF Leave, MemoryLost
<1>2. subscribed' \in BOOLEAN /\ synced' \in BOOLEAN
  BY DEF Leave, MemoryLost
<1>3. CDSState' = DISABLED /\ ServiceWatchdogFlag' \in States /\ CurrentAppMonState' \in States
      /\ CurrentEventMonState' \in States
  BY DEF Leave, MemoryLost, States
<1> QED
  BY <1>1, <1>2, <1>3, ZeroImageType
  DEF Leave, MemoryLost, Blocks, TypeInv, TypeOK, States, DISABLED, ENABLED_, Monitor

LEMMA SetCDSDataType ==
  ASSUME TypeInv, NEW new \in CDSImages, SetCDSData(new)
  PROVE  /\ CDSData' \in CDSImages /\ cds' \in Blocks
         /\ CDSState = ENABLED_ => cds' # NoBlock
  BY NoBlockAssumption DEF SetCDSData, TypeInv, TypeOK, Blocks

LEMMA LostMemory == ASSUME TypeInv PROVE cds \in Blocks /\ resets \in 0 .. UINT16_MAX + 1
                                         /\ watchdog \in 0 .. HS_WATCHDOG_TIMEOUT_VALUE
  BY DEF TypeInv, TypeOK, Blocks

LEMMA RebootType ==
  ASSUME NEW block \in Blocks, NEW performed \in 0 .. UINT16_MAX + 1, Reboot(block, performed)
  PROVE  TypeInv'
<1>1. pc' \in PCs /\ watchdog' \in 0 .. HS_WATCHDOG_TIMEOUT_VALUE
  BY TimeAssumption DEF Reboot, PCs, Down
<1> QED
  BY <1>1, LeaveType DEF Reboot

LEMMA ExitType == ASSUME TypeInv, ExitApp PROVE TypeInv'
  BY LostMemory, LeaveType DEF ExitApp, PCs, Down

LEMMA WatchdogType ==
  ASSUME TypeInv PROVE WatchdogService \in 0 .. HS_WATCHDOG_TIMEOUT_VALUE
  BY TimeAssumption DEF WatchdogService, TypeInv, TypeOK

LEMMA NextType == TypeInv /\ [Next]_vars => TypeInv'
<1> SUFFICES ASSUME TypeInv, [Next]_vars PROVE TypeInv'
  OBVIOUS
<1> USE DEF appVars, PCs, Down, Monitor
<1>1. ASSUME RestoreCDS PROVE TypeInv'
  <2>1. /\ CDSState' \in States /\ (CDSState' = ENABLED_ => cds' # NoBlock)
        /\ CDSData' \in CDSImages /\ cds' \in Blocks
        /\ pc' \in {"sbinit", "cdsinit"} /\ resets' = resets
    BY <1>1, ZeroImageType, NoBlockAssumption
    DEF RestoreCDS, TypeInv, TypeOK, Blocks, States, DISABLED, ENABLED_, Intact
  <2> QED
    BY <1>1, <2>1 DEF RestoreCDS, DefaultStates, TypeInv, TypeOK, Blocks, States
<1>2. ASSUME EVSRegisterFails \/ HS_SbInitMakesNoPipe \/ WakeupFails PROVE TypeInv'
  BY <1>2, ExitType DEF EVSRegisterFails, HS_SbInitMakesNoPipe, WakeupFails
<1>3. ASSUME InitCDSData PROVE TypeInv'
  BY <1>3, SetCDSDataType, ImageFacts, WordFacts, WordAssumption
  DEF InitCDSData, TypeInv, TypeOK, Blocks
<1>4. ASSUME HS_SbInit \/ HS_SysMonInit PROVE TypeInv'
  BY <1>4 DEF HS_SbInit, HS_SysMonInit, TypeInv, TypeOK
<1>5. ASSUME HS_TblInit PROVE TypeInv'
  <2>1. tables' \subseteq MonitorTables /\ pc' \in PCs
    BY <1>5 DEF HS_TblInit, MonitorTables, PCs
  <2>2. subscribed' \in BOOLEAN
    BY <1>5 DEF HS_TblInit, AcquireTables, TypeInv, TypeOK, appVars
  <2>3. CurrentAppMonState' \in States /\ CurrentEventMonState' \in States
    BY <1>5 DEF HS_TblInit, AcquireTables, TypeInv, TypeOK, States, appVars
  <2> QED
    BY <1>5, <2>1, <2>2, <2>3 DEF HS_TblInit, TypeInv, TypeOK, appVars
<1>6. ASSUME Startup PROVE TypeInv'
  BY <1>6, TimeAssumption DEF Startup, TypeInv, TypeOK
<1>7. ASSUME StartupSubscribeFails PROVE TypeInv'
  BY <1>7, LostMemory, LeaveType, TimeAssumption DEF StartupSubscribeFails
<1>8. ASSUME Wakeup \/ MonitorsDone \/ EventsDone \/ CommandsDone \/ PipeFails PROVE TypeInv'
  <2>1. PICK from \in PCs, to \in PCs : GoTo(from, to)
    BY <1>8 DEF Wakeup, MonitorsDone, EventsDone, CommandsDone, PipeFails, PCs
  <2> QED
    BY <2>1 DEF GoTo, TypeInv, TypeOK
<1>9. ASSUME HS_AcquirePointers PROVE TypeInv'
  BY <1>9 DEF HS_AcquirePointers, AcquireTables, TypeInv, TypeOK, States
<1>10. ASSUME NEW m \in Monitor, ProcReset(m) PROVE TypeInv'
  <2>1. ChargedImage \in CDSImages
    <3>1. CDSData.ResetsPerformed + 1 \in Word
      BY <1>10, WordAssumption DEF ProcReset, CanReset, TypeInv, TypeOK, CDSImages, Word
    <3>2. CDSData.MaxResets \in Word
      BY DEF TypeInv, TypeOK, CDSImages
    <3> QED
      BY <3>1, <3>2, ImageFacts DEF ChargedImage
  <2> QED
    BY <1>10, <2>1, SetCDSDataType DEF ProcReset, TypeInv, TypeOK, Blocks
<1>11. ASSUME ResetCFE PROVE TypeInv'
  <2>1. (IF resets > UINT16_MAX THEN resets ELSE resets + 1) \in 0 .. UINT16_MAX + 1
    BY LostMemory, WordAssumption
  <2> QED
    BY <1>11, <2>1, LostMemory, RebootType DEF ResetCFE
<1>12. ASSUME ResetCFEFails PROVE TypeInv'
  BY <1>12 DEF ResetCFEFails, TypeInv, TypeOK, States
<1>13. ASSUME Service PROVE TypeInv'
  BY <1>13, WatchdogType DEF Service, TypeInv, TypeOK
<1>14. ASSUME LastService PROVE TypeInv'
  BY <1>14, WatchdogType, LostMemory, LeaveType DEF LastService
<1>15. ASSUME HS_ResetResetsPerformedCmd PROVE TypeInv'
  <2>1. Image(0, CDSData.MaxResets) \in CDSImages
    BY ImageFacts, WordFacts DEF TypeInv, TypeOK, CDSImages
  <2> QED
    BY <1>15, <2>1, SetCDSDataType, WordAssumption
    DEF HS_ResetResetsPerformedCmd, TypeInv, TypeOK, Blocks
<1>16. ASSUME HS_SetMaxResetsCmd PROVE TypeInv'
  <2>1. ASSUME NEW max \in MaxResetsArgs PROVE Image(CDSData.ResetsPerformed, max) \in CDSImages
    BY ImageFacts, WordFacts DEF TypeInv, TypeOK, CDSImages
  <2> QED
    BY <1>16, <2>1, SetCDSDataType DEF HS_SetMaxResetsCmd, TypeInv, TypeOK, Blocks
<1>17. ASSUME AppMonCmd \/ EventMonCmd PROVE TypeInv'
  BY <1>17 DEF AppMonCmd, EventMonCmd, TypeInv, TypeOK, States
<1>18. ASSUME Tick PROVE TypeInv'
  BY <1>18, TimeAssumption DEF Tick, TypeInv, TypeOK
<1>19. ASSUME WatchdogExpires \/ ProcessorReset PROVE TypeInv'
  BY <1>19, LostMemory, RebootType DEF WatchdogExpires, ProcessorReset
<1>20. ASSUME ResetDuringCopy PROVE TypeInv'
  <2>1. PICK new \in PendingWrites, words \in 1 .. 3 :
          Reboot(Torn(cds, new, words), IF new.ResetsPerformed = 0 THEN 0 ELSE resets)
    BY <1>20 DEF ResetDuringCopy
  <2>2. cds \in CDSImages
    BY <1>20, LostMemory DEF ResetDuringCopy, TypeInv, Blocks
  <2>3. Torn(cds, new, words) \in Blocks
    BY <2>2, PendingType, TornFacts DEF Blocks
  <2>4. (IF new.ResetsPerformed = 0 THEN 0 ELSE resets) \in 0 .. UINT16_MAX + 1
    <3>1. 0 \in 0 .. UINT16_MAX + 1 /\ resets \in 0 .. UINT16_MAX + 1
      BY LostMemory, WordAssumption
    <3> QED
      BY <3>1
  <2> QED
    BY <2>1, <2>3, <2>4, RebootType
<1>21. ASSUME PowerOnReset PROVE TypeInv'
  BY <1>21, RebootType, WordAssumption DEF PowerOnReset, Blocks
<1>22. ASSUME RestartHS PROVE TypeInv'
  BY <1>22, LostMemory, LeaveType DEF RestartHS
<1>23. ASSUME CorruptCDS PROVE TypeInv'
  <2>1. cds' \in CDSImages
    BY <1>23 DEF CorruptCDS, Intact, TypeInv, TypeOK, CDSImages
  <2>2. resets' \in 0 .. UINT16_MAX + 1
    <3>1. 0 \in 0 .. UINT16_MAX + 1 /\ resets \in 0 .. UINT16_MAX + 1
      BY LostMemory, WordAssumption
    <3> QED
      BY <1>23, <3>1 DEF CorruptCDS
  <2> QED
    BY <1>23, <2>1, <2>2, NoBlockAssumption DEF CorruptCDS, TypeInv, TypeOK
<1>24. CASE UNCHANGED vars
  BY <1>24 DEF vars, TypeInv, TypeOK
<1> QED
  BY <1>1, <1>2, <1>3, <1>4, <1>5, <1>6, <1>7, <1>8, <1>9, <1>10, <1>11, <1>12, <1>13, <1>14,
     <1>15, <1>16, <1>17, <1>18, <1>19, <1>20, <1>21, <1>22, <1>23, <1>24
  DEF Next, HSNext, Commands, Environment

LEMMA TypeInvariant == Spec => []TypeInv
  BY InitType, NextType, PTL DEF Spec

(* Every variable keeps its type, whatever fails and whatever the values   *)
(* of the limits and times: no count exceeds a word.                       *)
THEOREM TypeCorrect == Spec => []TypeOK
<1>1. TypeInv => TypeOK
  BY DEF TypeInv
<1> QED
  BY <1>1, TypeInvariant, PTL

(***************************************************************************)
(* The count and the limit                                                 *)
(***************************************************************************)
Limits == {HS_MAX_RESTART_ACTIONS} \cup MaxResetsArgs
Within(count) == \E limit \in Limits : count <= limit

CountKept(block) == block.ResetsPerformed = Not(block.ResetsPerformedNot)
LimitKept(block) == block.MaxResets = Not(block.MaxResetsNot)

(* The parts of the inductive invariant.  While HS counts, its data are    *)
(* sound and include every reset; each half of the CDS that looks sound is *)
(* a copy of them (a copy may be cut short between the halves); and what   *)
(* looks sound in the CDS is a count within some limit, a limit of the     *)
(* ground.  Without HS it is the CDS that includes every reset.            *)
DataSound ==
  Counting => /\ Intact(CDSData)
              /\ resets <= CDSData.ResetsPerformed
              /\ CDSData.MaxResets \in Limits
              /\ Within(CDSData.ResetsPerformed)
HalvesMirror ==
  (Counting /\ CDSState = ENABLED_) =>
    /\ CountKept(cds) => cds.ResetsPerformed = CDSData.ResetsPerformed
    /\ LimitKept(cds) => cds.MaxResets = CDSData.MaxResets
BlockSound ==
  cds # NoBlock => /\ CountKept(cds) => Within(cds.ResetsPerformed)
                   /\ LimitKept(cds) => cds.MaxResets \in Limits
BlockCounts ==
  ~Counting => IF Intact(cds) THEN resets <= cds.ResetsPerformed ELSE resets = 0
ResetCounted == pc = "reset" => resets < CDSData.ResetsPerformed

CountInv == TypeInv /\ DataSound /\ HalvesMirror /\ BlockSound /\ BlockCounts /\ ResetCounted

LEMMA IntactHalves ==
  ASSUME NEW block
  PROVE  Intact(block) <=> block # NoBlock /\ CountKept(block) /\ LimitKept(block)
  BY DEF Intact, CountKept, LimitKept

LEMMA LimitFacts ==
  /\ Limits \subseteq Word
  /\ HS_MAX_RESTART_ACTIONS \in Limits /\ MaxResetsArgs \subseteq Limits
  /\ Within(0)
<1>1. Limits \subseteq Word /\ HS_MAX_RESTART_ACTIONS \in Limits /\ MaxResetsArgs \subseteq Limits
  BY LimitAssumption DEF Limits
<1>2. 0 <= HS_MAX_RESTART_ACTIONS
  BY <1>1, WordAssumption DEF Word
<1> QED
  BY <1>1, <1>2 DEF Within

LEMMA InitCount == Init => CountInv
<1> SUFFICES ASSUME Init PROVE CountInv
  OBVIOUS
<1>1. TypeInv
  BY InitType
<1>2. ~Counting /\ pc # "reset" /\ cds = NoBlock /\ resets = 0 /\ ~Intact(cds)
  BY DEF Init, Counting, Down, Intact
<1> QED
  BY <1>1, <1>2 DEF CountInv, DataSound, HalvesMirror, BlockSound, BlockCounts, ResetCounted

(* HS stops counting: the block is sound, and includes the resets if HS    *)
(* will find it.                                                           *)
LEMMA LeaveCount ==
  ASSUME TypeInv', NEW block, NEW performed, Leave(block, performed), pc' \in Down,
         block # NoBlock => /\ CountKept(block) => Within(block.ResetsPerformed)
                            /\ LimitKept(block) => block.MaxResets \in Limits,
         Intact(block) => 0 <= block.ResetsPerformed,
         Intact(block) /\ (Counting => CDSState = ENABLED_) => performed <= block.ResetsPerformed
  PROVE  CountInv'
<1>1. ~Counting' /\ pc' # "reset"
  BY DEF Counting, Down
<1>2. cds' = block
  BY DEF Leave
<1>3. CASE Intact(block) /\ (Counting => CDSState = ENABLED_)
  <2>1. resets' = performed
    BY <1>3 DEF Leave
  <2> QED
    BY <1>1, <1>2, <1>3, <2>1
    DEF CountInv, DataSound, HalvesMirror, BlockSound, BlockCounts, ResetCounted,
        Intact, CountKept, LimitKept, Within
<1>4. CASE ~(Intact(block) /\ (Counting => CDSState = ENABLED_))
  <2>1. resets' = 0
    BY <1>4 DEF Leave
  <2> QED
    BY <1>1, <1>2, <2>1
    DEF CountInv, DataSound, HalvesMirror, BlockSound, BlockCounts, ResetCounted,
        Intact, CountKept, LimitKept, Within
<1> QED
  BY <1>3, <1>4

(* The CDS as it is, when it is intact, includes the resets.               *)
LEMMA BlockNow ==
  ASSUME CountInv
  PROVE  /\ Intact(cds) => 0 <= cds.ResetsPerformed
         /\ Intact(cds) /\ (Counting => CDSState = ENABLED_) => resets <= cds.ResetsPerformed
         /\ Intact(cds) /\ Counting /\ CDSState = ENABLED_
              => /\ cds.ResetsPerformed = CDSData.ResetsPerformed
                 /\ cds.MaxResets = CDSData.MaxResets
<1>1. Intact(cds) => cds.ResetsPerformed \in Word
  BY DEF Intact, CountInv, TypeInv, TypeOK, CDSImages
<1>2. Intact(cds) => CountKept(cds) /\ LimitKept(cds)
  BY IntactHalves
<1> QED
  BY <1>1, <1>2, WordAssumption DEF Word, CountInv, DataSound, HalvesMirror, BlockCounts

(* Leaving with the CDS as it is: by exit, restart or reset.               *)
LEMMA LeaveNow ==
  ASSUME CountInv, TypeInv', Leave(cds, resets), pc' \in Down
  PROVE  CountInv'
  BY LeaveCount, BlockNow DEF CountInv, BlockSound

(* A step that touches neither the CDS nor the data of HS.                 *)
LEMMA QuietCount ==
  ASSUME CountInv, TypeInv', UNCHANGED <<cds, CDSData, CDSState, resets>>,
         Counting' = Counting, pc' # "reset" \/ pc = "reset"
  PROVE  CountInv'
<1>1. /\ cds' = cds /\ CDSData' = CDSData /\ CDSState' = CDSState /\ resets' = resets
  OBVIOUS
<1> QED
  BY <1>1 DEF CountInv, DataSound, HalvesMirror, BlockSound, BlockCounts, ResetCounted,
     Intact, CountKept, LimitKept, Within

(* HS_SetCDSData while HS counts, or as it begins to.                      *)
LEMMA SetCount ==
  ASSUME CountInv, TypeInv', "CopyToCDS" \notin Faults,
         NEW performed \in Word, NEW max \in Word, SetCDSData(Image(performed, max)),
         CDSState' = CDSState, Counting', resets' \in Nat, resets' <= performed,
         pc' = "reset" => resets' < performed,
         max \in Limits, Within(performed)
  PROVE  CountInv'
<1> DEFINE new == Image(performed, max)
<1>1. CDSData' = new /\ cds' = (IF CDSState = ENABLED_ THEN new ELSE cds)
  BY DEF SetCDSData, May
<1>2. Intact(new) /\ new.ResetsPerformed = performed /\ new.MaxResets = max
  BY ImageFacts
<1>3. DataSound' /\ ResetCounted' /\ BlockCounts'
  BY <1>1, <1>2 DEF DataSound, ResetCounted, BlockCounts, Intact, Within
<1>4. HalvesMirror' /\ BlockSound'
  BY <1>1, <1>2 DEF CountInv, HalvesMirror, BlockSound, CountKept, LimitKept, Within
<1> QED
  BY <1>3, <1>4 DEF CountInv

(* What a copy to the CDS may be writing is itself sound.                  *)
LEMMA PendingSound ==
  ASSUME CountInv, NEW new \in PendingWrites
  PROVE  /\ Within(new.ResetsPerformed)
         /\ new.MaxResets \in Limits
         /\ new.ResetsPerformed = 0 \/ resets <= new.ResetsPerformed
<1>1. CDSData.ResetsPerformed \in Word /\ CDSData.MaxResets \in Word /\ resets \in Nat
  BY DEF CountInv, TypeInv, TypeOK, CDSImages
<1>2. CASE pc = "cdsinit" /\ new = Image(0, HS_MAX_RESTART_ACTIONS)
  BY <1>2, ImageFacts, WordFacts, LimitFacts
<1>3. CASE new = ChargedImage /\ \E m \in Monitor : CanReset(m)
  <2>1. Counting /\ CDSData.ResetsPerformed < CDSData.MaxResets
    BY <1>3 DEF CanReset, Counting, Down, Monitor
  <2>2. CDSData.ResetsPerformed + 1 \in Word /\ CDSData.ResetsPerformed + 1 <= CDSData.MaxResets
    BY <1>1, <2>1, WordAssumption DEF Word
  <2>3. new.ResetsPerformed = CDSData.ResetsPerformed + 1 /\ new.MaxResets = CDSData.MaxResets
    BY <1>1, <1>3, <2>2, ImageFacts DEF ChargedImage
  <2> QED
    BY <1>1, <2>1, <2>2, <2>3, WordAssumption DEF CountInv, DataSound, Within, Word
<1>4. CASE pc = "commands" /\ new = Image(0, CDSData.MaxResets)
  <2>1. Counting
    BY <1>4 DEF Counting, Down
  <2> QED
    BY <1>1, <1>4, <2>1, ImageFacts, WordFacts, LimitFacts DEF CountInv, DataSound
<1>5. CASE pc = "commands" /\ \E max \in MaxResetsArgs : new = Image(CDSData.ResetsPerformed, max)
  <2>1. Counting
    BY <1>5 DEF Counting, Down
  <2> QED
    BY <1>1, <1>5, <2>1, ImageFacts, WordFacts, LimitFacts DEF CountInv, DataSound
<1> QED
  BY <1>2, <1>3, <1>4, <1>5 DEF PendingWrites

(* A copy cut short leaves no block that looks sound and is not.           *)
LEMMA TornSound ==
  ASSUME CountInv, cds # NoBlock, NEW new \in PendingWrites, NEW words \in 1 .. 3
  PROVE  LET torn == Torn(cds, new, words) IN
         /\ torn.ResetsPerformed = new.ResetsPerformed /\ torn.ResetsPerformed \in Word
         /\ LimitKept(torn) => torn.MaxResets \in Limits
<1>1. cds \in CDSImages /\ new \in CDSImages
  BY PendingType DEF CountInv, TypeInv, TypeOK
<1>2. Torn(cds, new, words).ResetsPerformed = new.ResetsPerformed
  BY <1>1, TornFacts
<1>3. CASE words = 3
  BY <1>1, <1>2, <1>3, PendingSound DEF Torn, CDSImages
<1>4. CASE words # 3
  BY <1>1, <1>2, <1>4 DEF Torn, CDSImages, CountInv, BlockSound, LimitKept
<1> QED
  BY <1>3, <1>4

(* The damage to one word of an intact block shows.                        *)
LEMMA CorruptionShows ==
  ASSUME CountInv, CorruptCDS
  PROVE  /\ ~Intact(cds')
         /\ CountKept(cds') => cds'.ResetsPerformed = cds.ResetsPerformed
         /\ LimitKept(cds') => cds'.MaxResets = cds.MaxResets
<1>1. cds \in CDSImages /\ CountKept(cds) /\ LimitKept(cds)
  BY IntactHalves DEF CorruptCDS, CountInv, TypeInv, TypeOK, Intact
<1>2. PICK field \in DOMAIN cds, word \in Word :
        word # cds[field] /\ cds' = [cds EXCEPT ![field] = word]
  BY DEF CorruptCDS
<1>3. field \in {"ResetsPerformed", "ResetsPerformedNot", "MaxResets", "MaxResetsNot"}
  BY <1>1 DEF CDSImages
<1>4. CASE field = "ResetsPerformed"
  BY <1>1, <1>2, <1>4 DEF CDSImages, Intact, CountKept, LimitKept
<1>5. CASE field = "ResetsPerformedNot"
  BY <1>1, <1>2, <1>5, WordFacts DEF CDSImages, Intact, CountKept, LimitKept
<1>6. CASE field = "MaxResets"
  BY <1>1, <1>2, <1>6 DEF CDSImages, Intact, CountKept, LimitKept
<1>7. CASE field = "MaxResetsNot"
  BY <1>1, <1>2, <1>7, WordFacts DEF CDSImages, Intact, CountKept, LimitKept
<1> QED
  BY <1>3, <1>4, <1>5, <1>6, <1>7

LEMMA RestoreCount == ASSUME CountInv, TypeInv', RestoreCDS PROVE CountInv'
<1>1. pc = "off" /\ ~Counting
  BY DEF RestoreCDS, Counting, Down
<1>2. CASE Intact(cds) /\ CDSData' = cds /\ pc' = "sbinit" /\ UNCHANGED <<cds, resets>>
  <2>1. CountKept(cds) /\ LimitKept(cds) /\ cds # NoBlock
    BY <1>2, IntactHalves
  <2>2. DataSound' /\ ResetCounted' /\ BlockCounts'
    BY <1>1, <1>2, <2>1 DEF CountInv, BlockCounts, BlockSound, DataSound, ResetCounted,
       Counting, Down, Intact, Within
  <2>3. HalvesMirror' /\ BlockSound'
    BY <1>2 DEF CountInv, HalvesMirror, BlockSound, CountKept, LimitKept, Within
  <2> QED
    BY <2>2, <2>3 DEF CountInv
<1>3. CASE pc' = "cdsinit" /\ UNCHANGED <<cds, resets>>
  <2>1. ~Counting' /\ pc' # "reset"
    BY <1>3 DEF Counting
  <2> QED
    BY <1>1, <1>3, <2>1 DEF CountInv, DataSound, HalvesMirror, BlockSound, BlockCounts,
       ResetCounted, Intact, CountKept, LimitKept, Within
<1>4. CASE cds = NoBlock /\ cds' = ZeroImage /\ pc' = "cdsinit" /\ UNCHANGED resets
  <2>1. ~Counting' /\ pc' # "reset"
    BY <1>4 DEF Counting
  <2>2. resets' = 0
    BY <1>1, <1>4 DEF CountInv, BlockCounts, Intact
  <2>3. LimitKept(ZeroImage) => 0 \in Limits
    BY LimitFacts, WordAssumption DEF LimitKept, ZeroImage, Not, Word
  <2>4. ZeroImage.ResetsPerformed = 0 /\ ZeroImage.MaxResets = 0
    BY DEF ZeroImage
  <2> QED
    BY <1>4, <2>1, <2>2, <2>3, <2>4, LimitFacts
    DEF CountInv, DataSound, HalvesMirror, BlockSound, BlockCounts, ResetCounted,
        LimitKept, Within
<1> QED
  BY <1>2, <1>3, <1>4 DEF RestoreCDS

LEMMA NextCount == "CopyToCDS" \notin Faults /\ CountInv /\ [Next]_vars => CountInv'
<1> SUFFICES ASSUME "CopyToCDS" \notin Faults, CountInv, [Next]_vars PROVE CountInv'
  OBVIOUS
<1>0. /\ TypeInv' /\ resets \in Nat
      /\ CDSData.ResetsPerformed \in Word /\ CDSData.MaxResets \in Word
  BY NextType DEF CountInv, TypeInv, TypeOK, CDSImages
<1>1. ASSUME RestoreCDS PROVE CountInv'
  BY <1>0, <1>1, RestoreCount
<1>2. ASSUME EVSRegisterFails \/ HS_SbInitMakesNoPipe \/ WakeupFails PROVE CountInv'
  BY <1>0, <1>2, LeaveNow DEF EVSRegisterFails, HS_SbInitMakesNoPipe, WakeupFails, ExitApp, Down
<1>3. ASSUME InitCDSData PROVE CountInv'
  BY <1>0, <1>3, SetCount, WordFacts, LimitFacts DEF InitCDSData, Counting, Down
<1>4. ASSUME HS_SbInit \/ HS_TblInit \/ HS_SysMonInit \/ Startup PROVE CountInv'
  BY <1>0, <1>4, QuietCount
  DEF HS_SbInit, HS_TblInit, HS_SysMonInit, Startup, appVars, Counting, Down
<1>5. ASSUME StartupSubscribeFails PROVE CountInv'
  BY <1>0, <1>5, LeaveNow DEF StartupSubscribeFails, Down
<1>6. ASSUME Wakeup \/ MonitorsDone \/ EventsDone \/ CommandsDone \/ PipeFails PROVE CountInv'
  BY <1>0, <1>6, QuietCount
  DEF Wakeup, MonitorsDone, EventsDone, CommandsDone, PipeFails, GoTo, appVars, Counting, Down
<1>7. ASSUME HS_AcquirePointers \/ ResetCFEFails \/ Service PROVE CountInv'
  <2>1. returnTo \in Monitor
    BY DEF CountInv, TypeInv, TypeOK
  <2> QED
    BY <1>0, <1>7, <2>1, QuietCount
    DEF HS_AcquirePointers, ResetCFEFails, Service, appVars, Counting, Down, Monitor
<1>8. ASSUME NEW m \in Monitor, ProcReset(m) PROVE CountInv'
  <2>1. Counting /\ Counting' /\ CDSData.ResetsPerformed < CDSData.MaxResets
    BY <1>8 DEF ProcReset, CanReset, Counting, Down, Monitor
  <2>2. CDSData.ResetsPerformed + 1 \in Word /\ CDSData.ResetsPerformed + 1 <= CDSData.MaxResets
    BY <1>0, <2>1, WordAssumption DEF Word
  <2>3. /\ resets <= CDSData.ResetsPerformed /\ CDSData.MaxResets \in Limits
        /\ Within(CDSData.ResetsPerformed + 1)
    BY <2>1, <2>2 DEF CountInv, DataSound, Within
  <2>4. resets' = resets /\ resets' < CDSData.ResetsPerformed + 1
        /\ resets' <= CDSData.ResetsPerformed + 1
    BY <1>0, <1>8, <2>3, WordAssumption DEF ProcReset, Word
  <2>5. /\ SetCDSData(Image(CDSData.ResetsPerformed + 1, CDSData.MaxResets))
        /\ CDSState' = CDSState /\ resets' = resets
    BY <1>8 DEF ProcReset, ChargedImage
  <2> QED
    BY <1>0, <2>1, <2>2, <2>3, <2>4, <2>5, SetCount
<1>9. ASSUME ResetCFE PROVE CountInv'
  <2> DEFINE performed == IF resets > UINT16_MAX THEN resets ELSE resets + 1
  <2>1. pc = "reset" /\ Counting
    BY <1>9 DEF ResetCFE, Counting, Down
  <2>2. performed <= CDSData.ResetsPerformed
    BY <1>0, <2>1, WordAssumption DEF CountInv, ResetCounted, Word
  <2>3. Leave(cds, performed) /\ pc' \in Down
    BY <1>9 DEF ResetCFE, Reboot, Down
  <2> HIDE DEF performed
  <2> QED
    BY <1>0, <2>1, <2>2, <2>3, LeaveCount, BlockNow DEF CountInv, BlockSound
<1>10. ASSUME LastService \/ RestartHS PROVE CountInv'
  BY <1>0, <1>10, LeaveNow DEF LastService, RestartHS, Down
<1>11. ASSUME HS_ResetResetsPerformedCmd PROVE CountInv'
  <2>1. Counting /\ Counting' /\ pc' # "reset"
    BY <1>11 DEF HS_ResetResetsPerformedCmd, Counting, Down
  <2> QED
    BY <1>0, <1>11, <2>1, SetCount, WordFacts, LimitFacts
    DEF HS_ResetResetsPerformedCmd, CountInv, DataSound
<1>12. ASSUME HS_SetMaxResetsCmd PROVE CountInv'
  <2>1. Counting /\ Counting' /\ pc' # "reset"
    BY <1>12 DEF HS_SetMaxResetsCmd, Counting, Down
  <2>2. PICK max \in MaxResetsArgs : SetCDSData(Image(CDSData.ResetsPerformed, max))
    BY <1>12 DEF HS_SetMaxResetsCmd
  <2> QED
    BY <1>0, <1>12, <2>1, <2>2, SetCount, WordFacts, LimitFacts
    DEF HS_SetMaxResetsCmd, CountInv, DataSound
<1>13. ASSUME AppMonCmd \/ EventMonCmd \/ Tick PROVE CountInv'
  BY <1>0, <1>13, QuietCount DEF AppMonCmd, EventMonCmd, Tick, appVars, Counting
<1>14. ASSUME WatchdogExpires \/ ProcessorReset PROVE CountInv'
  BY <1>0, <1>14, LeaveNow DEF WatchdogExpires, ProcessorReset, Reboot, Down
<1>15. ASSUME ResetDuringCopy PROVE CountInv'
  <2>1. PICK new \in PendingWrites, words \in 1 .. 3 :
          Reboot(Torn(cds, new, words), IF new.ResetsPerformed = 0 THEN 0 ELSE resets)
    BY <1>15 DEF ResetDuringCopy
  <2>2. cds # NoBlock
    BY <1>15 DEF ResetDuringCopy, CountInv, TypeInv
  <2> DEFINE torn == Torn(cds, new, words)
             performed == IF new.ResetsPerformed = 0 THEN 0 ELSE resets
  <2>3. /\ torn.ResetsPerformed = new.ResetsPerformed /\ torn.ResetsPerformed \in Word
        /\ LimitKept(torn) => torn.MaxResets \in Limits
    BY <2>2, TornSound
  <2>4. Within(torn.ResetsPerformed) /\ performed <= torn.ResetsPerformed
        /\ 0 <= torn.ResetsPerformed
    BY <2>3, PendingSound, WordAssumption DEF Word
  <2>5. Leave(torn, performed) /\ pc' \in Down
    BY <2>1 DEF Reboot, Down
  <2> HIDE DEF torn, performed
  <2> QED
    BY <1>0, <2>3, <2>4, <2>5, LeaveCount
<1>16. ASSUME PowerOnReset PROVE CountInv'
  BY <1>0, <1>16, LeaveCount DEF PowerOnReset, Reboot, Down, Intact
<1>17. ASSUME CorruptCDS PROVE CountInv'
  <2>1. /\ Counting' = Counting /\ CDSData' = CDSData /\ CDSState' = CDSState /\ pc' = pc
        /\ resets' = IF Counting THEN resets ELSE 0
        /\ cds # NoBlock /\ Intact(cds)
    BY <1>17 DEF CorruptCDS, Counting, appVars, Intact
  <2>2. CountKept(cds) /\ LimitKept(cds)
    BY <2>1, IntactHalves
  <2>3. DataSound' /\ ResetCounted'
    BY <2>1 DEF CountInv, DataSound, ResetCounted, Counting, Down, Within, Intact
  <2>4. BlockCounts' /\ HalvesMirror' /\ BlockSound'
    BY <1>17, <2>1, <2>2, CorruptionShows
    DEF CountInv, BlockCounts, HalvesMirror, BlockSound, CountKept, LimitKept, Intact, Within
  <2> QED
    BY <1>0, <2>3, <2>4 DEF CountInv
<1>18. CASE UNCHANGED vars
  BY <1>0, <1>18, QuietCount DEF vars, appVars, Counting
<1> QED
  BY <1>1, <1>2, <1>3, <1>4, <1>5, <1>6, <1>7, <1>8, <1>9, <1>10, <1>11, <1>12, <1>13, <1>14,
     <1>15, <1>16, <1>17, <1>18
  DEF Next, HSNext, Commands, Environment

(* The inductive invariant: no reset is lost from the count, and the count *)
(* is kept within the limits, unless CFE_ES_CopyToCDS can fail, the result *)
(* of which HS does not look at.                                           *)
THEOREM CountInvariant ==
  ASSUME "CopyToCDS" \notin Faults
  PROVE  Spec => []CountInv
<1>1. Init => CountInv
  BY InitCount
<1>2. CountInv /\ [Next]_vars => CountInv'
  BY NextCount
<1> QED
  BY <1>1, <1>2, PTL DEF Spec

(* The count in force.                                                     *)
LEMMA LiveCount ==
  ASSUME CountInv
  PROVE  /\ resets <= Live.ResetsPerformed
         /\ Live.ResetsPerformed \in Word
         /\ Within(Live.ResetsPerformed)
<1>1. CASE Counting
  BY <1>1 DEF Live, CountInv, DataSound, TypeInv, TypeOK, CDSImages
<1>2. CASE ~Counting /\ Intact(cds)
  BY <1>2, IntactHalves DEF Live, CountInv, BlockCounts, BlockSound, Intact, TypeInv, TypeOK, CDSImages
<1>3. CASE ~Counting /\ ~Intact(cds)
  <2>1. Live.ResetsPerformed = 0
    BY <1>3, ImageFacts, WordFacts DEF Live
  <2>2. resets = 0
    BY <1>3 DEF CountInv, BlockCounts
  <2> QED
    BY <2>1, <2>2, LimitFacts, WordFacts
<1> QED
  BY <1>1, <1>2, <1>3

(* HS never starts again from a count lower than the resets it performed.  *)
THEOREM NoResetUncounted ==
  ASSUME "CopyToCDS" \notin Faults
  PROVE  Spec => []NoUncountedReset
<1>1. CountInv => NoUncountedReset
  BY LiveCount DEF NoUncountedReset
<1> QED
  BY <1>1, CountInvariant, PTL

(* On one count HS performs no more resets than the highest limit it was   *)
(* ever given.                                                             *)
THEOREM ResetsAreLimited ==
  ASSUME "CopyToCDS" \notin Faults
  PROVE  Spec => []ResetsLimited
<1>1. ASSUME CountInv PROVE ResetsLimited
  <2>1. resets \in Nat
    BY <1>1 DEF CountInv, TypeInv, TypeOK
  <2>2. PICK limit \in Limits : Live.ResetsPerformed <= limit
    BY <1>1, LiveCount DEF Within
  <2>3. resets <= limit
    BY <1>1, <2>1, <2>2, LiveCount, LimitFacts, WordAssumption DEF Word
  <2> QED
    BY <2>3 DEF ResetsLimited, Limits
<1> QED
  BY <1>1, CountInvariant, PTL

(* A block that passes the check of HS_AppInit is the copy HS last made.   *)
THEOREM CDSIsMirrored ==
  ASSUME "CopyToCDS" \notin Faults
  PROVE  Spec => []CDSMirrors
<1>1. ASSUME CountInv, Counting, CDSState = ENABLED_, Intact(cds) PROVE cds = CDSData
  <2>1. cds \in CDSImages /\ CDSData \in CDSImages
    BY <1>1 DEF CountInv, TypeInv, TypeOK, Intact
  <2>2. cds.ResetsPerformed = CDSData.ResetsPerformed /\ cds.MaxResets = CDSData.MaxResets
    BY <1>1, BlockNow
  <2>3. Intact(CDSData)
    BY <1>1 DEF CountInv, DataSound
  <2>4. /\ cds.ResetsPerformedNot = CDSData.ResetsPerformedNot
        /\ cds.MaxResetsNot = CDSData.MaxResetsNot
    <3>1. /\ cds.ResetsPerformedNot \in Word /\ CDSData.ResetsPerformedNot \in Word
          /\ cds.MaxResetsNot \in Word /\ CDSData.MaxResetsNot \in Word
      BY <2>1 DEF CDSImages
    <3>2. /\ Not(cds.ResetsPerformedNot) = Not(CDSData.ResetsPerformedNot)
          /\ Not(cds.MaxResetsNot) = Not(CDSData.MaxResetsNot)
      BY <1>1, <2>2, <2>3 DEF Intact
    <3> QED
      BY <3>1, <3>2, WordFacts
  <2> QED
    BY <2>1, <2>2, <2>4 DEF CDSImages
<1>2. CountInv => CDSMirrors
  BY <1>1 DEF CDSMirrors
<1> QED
  BY <1>2, CountInvariant, PTL

(***************************************************************************)
(* The count and the limit implement the abstract budget, if both can be   *)
(* kept in the CDS.                                                        *)
(***************************************************************************)
Kept == pc \notin Down => CDSState = ENABLED_
KeptInv == CountInv /\ Kept

LEMMA KeptNext == "RegisterCDS" \notin Faults /\ Kept /\ [Next]_vars => Kept'
<1> SUFFICES ASSUME "RegisterCDS" \notin Faults, Kept, [Next]_vars PROVE Kept'
  OBVIOUS
<1> USE DEF Kept, Down
<1>1. ASSUME RestoreCDS PROVE Kept'
  BY <1>1 DEF RestoreCDS, May
<1>2. ASSUME pc' \in Down PROVE Kept'
  BY <1>2
<1>3. ASSUME pc \notin Down, CDSState' = CDSState PROVE Kept'
  BY <1>3
<1>4. ASSUME pc' = pc, CDSState' = CDSState PROVE Kept'
  BY <1>4
<1>5. ASSUME HSNext, ~RestoreCDS
      PROVE  pc' \in Down \/ (pc \notin Down /\ CDSState' = CDSState)
  BY <1>5
  DEF HSNext, EVSRegisterFails, InitCDSData, HS_SbInit, HS_SbInitMakesNoPipe, HS_TblInit,
      HS_SysMonInit, Startup, StartupSubscribeFails, Wakeup, WakeupFails, HS_AcquirePointers,
      MonitorsDone, EventsDone, CommandsDone, PipeFails, GoTo, ProcReset, CanReset, Monitor,
      ResetCFE, ResetCFEFails, Service, LastService, ExitApp, Reboot, appVars
<1>6. ASSUME Commands \/ Environment \/ UNCHANGED vars
      PROVE  pc' \in Down \/ (pc' = pc /\ CDSState' = CDSState)
  BY <1>6
  DEF Commands, HS_ResetResetsPerformedCmd, HS_SetMaxResetsCmd, AppMonCmd, EventMonCmd,
      Environment, Tick, WatchdogExpires, ProcessorReset, ResetDuringCopy, PowerOnReset,
      RestartHS, CorruptCDS, Reboot, appVars, vars
<1> QED
  BY <1>1, <1>2, <1>3, <1>4, <1>5, <1>6 DEF Next

LEMMA KeptInvariant ==
  ASSUME "CopyToCDS" \notin Faults, "RegisterCDS" \notin Faults
  PROVE  Spec => []KeptInv
<1>1. Init => KeptInv
  BY InitCount DEF KeptInv, Kept, Init, Down
<1>2. KeptInv /\ [Next]_vars => KeptInv'
  BY NextCount, KeptNext DEF KeptInv
<1> QED
  BY <1>1, <1>2, PTL DEF Spec

(* What the three variables of the budget are.                             *)
LEMMA LiveWhileCounting == Counting => Live = CDSData
  BY DEF Live

LEMMA LiveInBlock ==
  ASSUME ~Counting
  PROVE  /\ Intact(cds) => Live = cds
         /\ ~Intact(cds) => Live.ResetsPerformed = 0 /\ Live.MaxResets = HS_MAX_RESTART_ACTIONS
  BY ImageFacts, WordFacts DEF Live

LEMMA LiveInBlockNext ==
  ASSUME ~Counting'
  PROVE  /\ Intact(cds') => Live' = cds'
         /\ ~Intact(cds') => /\ Live'.ResetsPerformed = 0
                            /\ Live'.MaxResets = HS_MAX_RESTART_ACTIONS
  BY ImageFacts, WordFacts DEF Live, Intact

(* HS stops counting.  With a block that is not intact, all is forgotten;  *)
(* with the CDS as it is, nothing changes.                                 *)
LEMMA LeaveForgets ==
  ASSUME NEW block, NEW performed, Leave(block, performed), pc' \in Down, ~Intact(block)
  PROVE  Budget!Forget
<1>1. ~Counting'
  BY DEF Counting
<1>2. cds' = block /\ resets' = 0
  BY DEF Leave
<1> QED
  BY <1>1, <1>2, LiveInBlockNext DEF Budget!Forget

LEMMA LeaveKeeps ==
  ASSUME KeptInv, NEW block, NEW performed, Leave(block, performed), pc' \in Down, Intact(block)
  PROVE  Live' = block /\ resets' = performed
<1>1. ~Counting'
  BY DEF Counting
<1>2. Counting => CDSState = ENABLED_
  BY DEF KeptInv, Kept, Counting, Down
<1>3. cds' = block /\ resets' = performed
  BY <1>2 DEF Leave
<1> QED
  BY <1>1, <1>3, LiveInBlockNext

LEMMA LiveIsBlock ==
  ASSUME KeptInv, Intact(cds)
  PROVE  Live.ResetsPerformed = cds.ResetsPerformed /\ Live.MaxResets = cds.MaxResets
<1>1. Counting => CDSState = ENABLED_
  BY DEF KeptInv, Kept, Counting, Down
<1> QED
  BY <1>1, LiveWhileCounting, LiveInBlock, BlockNow DEF KeptInv

LEMMA LeaveNowBudget ==
  ASSUME KeptInv, Leave(cds, resets), pc' \in Down
  PROVE  [Budget!Next]_Budget!vars
<1>1. CASE Intact(cds)
  <2>1. Live' = cds /\ resets' = resets
    BY <1>1, LeaveKeeps
  <2> QED
    BY <1>1, <2>1, LiveIsBlock DEF Budget!vars
<1>2. CASE ~Intact(cds)
  BY <1>2, LeaveForgets DEF Budget!Next
<1> QED
  BY <1>1, <1>2

LEMMA QuietBudget ==
  ASSUME UNCHANGED <<cds, CDSData, resets>>, Counting' = Counting
  PROVE  UNCHANGED Budget!vars
<1>1. Live' = Live
  BY DEF Live, Intact
<1> QED
  BY <1>1 DEF Budget!vars

(* HS_SetCDSData while HS counts, or as it begins to.                      *)
LEMMA SetBudget ==
  ASSUME NEW performed \in Word, NEW max \in Word, SetCDSData(Image(performed, max)), Counting'
  PROVE  Live'.ResetsPerformed = performed /\ Live'.MaxResets = max
<1>1. CDSData' = Image(performed, max)
  BY DEF SetCDSData
<1>2. Live' = CDSData'
  BY DEF Live
<1> QED
  BY <1>1, <1>2, ImageFacts

(* The limit in a copy that was cut short but looks sound: the old one, or *)
(* the new one when the copy got that far.                                 *)
LEMMA TornLimit ==
  ASSUME KeptInv, cds # NoBlock, NEW new \in PendingWrites, NEW words \in 1 .. 3,
         Intact(Torn(cds, new, words))
  PROVE  LET torn == Torn(cds, new, words) IN
         /\ torn.MaxResets = IF words = 3 THEN new.MaxResets ELSE cds.MaxResets
         /\ words # 3 /\ Counting => torn.MaxResets = CDSData.MaxResets
<1>1. cds \in CDSImages /\ new \in CDSImages
  BY PendingType DEF KeptInv, CountInv, TypeInv, TypeOK
<1>2. Torn(cds, new, words).MaxResets = IF words = 3 THEN new.MaxResets ELSE cds.MaxResets
  BY <1>1 DEF Torn, CDSImages
<1>3. ASSUME words # 3, Counting PROVE cds.MaxResets = CDSData.MaxResets
  <2>1. LimitKept(cds)
    BY <1>1, <1>3, IntactHalves DEF Torn, LimitKept, CDSImages
  <2>2. CDSState = ENABLED_
    BY <1>3 DEF KeptInv, Kept, Counting, Down
  <2> QED
    BY <1>3, <2>1, <2>2 DEF KeptInv, CountInv, HalvesMirror
<1> QED
  BY <1>2, <1>3

LEMMA TornBudget ==
  ASSUME KeptInv, cds # NoBlock, NEW new \in PendingWrites, NEW words \in 1 .. 3,
         Intact(Torn(cds, new, words)),
         Live' = Torn(cds, new, words),
         resets' = IF new.ResetsPerformed = 0 THEN 0 ELSE resets
  PROVE  [Budget!Next]_Budget!vars
<1> DEFINE torn == Torn(cds, new, words)
<1>1. /\ torn.ResetsPerformed = new.ResetsPerformed /\ torn.ResetsPerformed \in Word
      /\ torn.MaxResets \in Limits
  BY TornSound, IntactHalves DEF KeptInv
<1>2. /\ torn.MaxResets = IF words = 3 THEN new.MaxResets ELSE cds.MaxResets
      /\ words # 3 /\ Counting => torn.MaxResets = CDSData.MaxResets
  BY TornLimit
<1>3. /\ CDSData.ResetsPerformed \in Word /\ CDSData.MaxResets \in Word /\ resets \in Nat
      /\ Counting => Live = CDSData /\ resets <= CDSData.ResetsPerformed
  BY LiveWhileCounting DEF KeptInv, CountInv, DataSound, TypeInv, TypeOK, CDSImages
<1>4. /\ Live'.ResetsPerformed = new.ResetsPerformed
      /\ Live'.MaxResets = torn.MaxResets
  BY <1>1
<1> HIDE DEF torn
<1>5. CASE pc = "cdsinit" /\ new = Image(0, HS_MAX_RESTART_ACTIONS)
  <2>1. Live'.ResetsPerformed = 0 /\ resets' = 0 /\ new.MaxResets = HS_MAX_RESTART_ACTIONS
    BY <1>4, <1>5, ImageFacts, WordFacts
  <2>2. CASE Live'.MaxResets = HS_MAX_RESTART_ACTIONS
    BY <2>1, <2>2 DEF Budget!Next, Budget!Forget
  <2>3. CASE words # 3 /\ Intact(cds)
    <3>1. Live'.MaxResets = Live.MaxResets
      BY <1>2, <1>4, <2>3, LiveIsBlock
    <3> QED
      BY <2>1, <3>1 DEF Budget!Next, Budget!Zero
  <2>4. CASE ~Intact(cds) /\ Live'.MaxResets # HS_MAX_RESTART_ACTIONS
    <3>1. ~Counting
      BY <1>5 DEF Counting
    <3>2. Live.ResetsPerformed = 0 /\ resets = 0
      BY <2>4, <3>1, LiveInBlock DEF KeptInv, CountInv, BlockCounts
    <3>3. Live'.MaxResets \in MaxResetsArgs
      BY <1>1, <1>4, <2>4 DEF Limits
    <3> QED
      BY <2>1, <3>2, <3>3 DEF Budget!Next, Budget!SetLimit
  <2> QED
    BY <1>2, <1>4, <2>1, <2>2, <2>3, <2>4
<1>6. CASE new = ChargedImage /\ \E m \in Monitor : CanReset(m)
  <2>1. Counting /\ CDSData.ResetsPerformed < CDSData.MaxResets
    BY <1>6 DEF CanReset, Counting, Down, Monitor
  <2>2. CDSData.ResetsPerformed + 1 \in Word
    BY <1>3, <2>1, WordAssumption DEF Word
  <2>3. new.ResetsPerformed = CDSData.ResetsPerformed + 1 /\ new.MaxResets = CDSData.MaxResets
    BY <1>3, <1>6, <2>2, ImageFacts DEF ChargedImage
  <2>4. Live'.MaxResets = Live.MaxResets
    BY <1>2, <1>3, <1>4, <2>1, <2>3
  <2>5. resets' = resets
    BY <1>3, <2>3, WordAssumption DEF Word
  <2> QED
    BY <1>3, <1>4, <2>1, <2>3, <2>4, <2>5 DEF Budget!Next, Budget!Charge
<1>7. CASE pc = "commands" /\ new = Image(0, CDSData.MaxResets)
  <2>1. Counting
    BY <1>7 DEF Counting, Down
  <2>2. new.ResetsPerformed = 0 /\ new.MaxResets = CDSData.MaxResets
    BY <1>3, <1>7, ImageFacts, WordFacts
  <2>3. Live'.MaxResets = Live.MaxResets /\ Live'.ResetsPerformed = 0 /\ resets' = 0
    BY <1>2, <1>3, <1>4, <2>1, <2>2
  <2> QED
    BY <2>3 DEF Budget!Next, Budget!Zero
<1>8. CASE pc = "commands" /\ \E max \in MaxResetsArgs : new = Image(CDSData.ResetsPerformed, max)
  <2>1. Counting
    BY <1>8 DEF Counting, Down
  <2>2. PICK max \in MaxResetsArgs : new = Image(CDSData.ResetsPerformed, max)
    BY <1>8
  <2>3. new.ResetsPerformed = CDSData.ResetsPerformed /\ new.MaxResets = max
    BY <1>3, <2>2, ImageFacts, WordFacts
  <2>4. Live'.ResetsPerformed = Live.ResetsPerformed /\ resets' = resets
    BY <1>3, <1>4, <2>1, <2>3, WordAssumption DEF Word
  <2>5. Live'.MaxResets = Live.MaxResets \/ Live'.MaxResets \in MaxResetsArgs
    BY <1>2, <1>3, <1>4, <2>1, <2>3
  <2> QED
    BY <2>4, <2>5 DEF Budget!Next, Budget!SetLimit, Budget!vars
<1> QED
  BY <1>5, <1>6, <1>7, <1>8 DEF PendingWrites

LEMMA NextBudget ==
  ASSUME "CopyToCDS" \notin Faults, "RegisterCDS" \notin Faults, KeptInv, [Next]_vars
  PROVE  [Budget!Next]_Budget!vars
<1>0. /\ CDSData.ResetsPerformed \in Word /\ CDSData.MaxResets \in Word /\ resets \in Nat
      /\ Counting => Live = CDSData /\ resets <= CDSData.ResetsPerformed
  BY LiveWhileCounting DEF KeptInv, CountInv, DataSound, TypeInv, TypeOK, CDSImages
<1>1. ASSUME RestoreCDS PROVE [Budget!Next]_Budget!vars
  <2>1. ~Counting
    BY <1>1 DEF RestoreCDS, Counting, Down
  <2>2. CASE Intact(cds) /\ CDSData' = cds /\ pc' = "sbinit" /\ UNCHANGED <<cds, resets>>
    <3>1. Live' = cds /\ Live = cds
      BY <2>1, <2>2, LiveInBlock DEF Live, Counting, Down
    <3> QED
      BY <2>2, <3>1 DEF Budget!vars
  <2>3. CASE pc' = "cdsinit" /\ UNCHANGED <<cds, resets>>
    <3>1. Live' = Live
      BY <2>1, <2>3 DEF Live, Counting, Intact
    <3> QED
      BY <2>3, <3>1 DEF Budget!vars
  <2>4. CASE cds = NoBlock /\ cds' = ZeroImage /\ pc' = "cdsinit" /\ UNCHANGED resets
    <3>1. ~Counting' /\ resets = 0 /\ resets' = 0 /\ ~Intact(cds)
      BY <2>1, <2>4 DEF Counting, Intact, KeptInv, CountInv, BlockCounts
    <3>2. Live'.ResetsPerformed = 0 /\ Live'.MaxResets = HS_MAX_RESTART_ACTIONS
      <4>1. CASE Intact(cds')
        <5>1. Live' = ZeroImage
          BY <2>4, <3>1, <4>1, LiveInBlockNext
        <5>2. UINT16_MAX = 0
          BY <2>4, <4>1, WordAssumption DEF Intact, ZeroImage, Not
        <5> QED
          BY <5>1, <5>2, WordFacts DEF ZeroImage, Word
      <4>2. CASE ~Intact(cds')
        BY <3>1, <4>2, LiveInBlockNext
      <4> QED
        BY <4>1, <4>2
    <3> QED
      BY <3>1, <3>2 DEF Budget!Next, Budget!Forget
  <2> QED
    BY <1>1, <2>2, <2>3, <2>4 DEF RestoreCDS, May
<1>2. ASSUME EVSRegisterFails \/ HS_SbInitMakesNoPipe \/ WakeupFails \/ StartupSubscribeFails
             \/ LastService \/ RestartHS \/ WatchdogExpires \/ ProcessorReset
      PROVE  [Budget!Next]_Budget!vars
  BY <1>2, LeaveNowBudget
  DEF EVSRegisterFails, HS_SbInitMakesNoPipe, WakeupFails, StartupSubscribeFails, LastService,
      RestartHS, WatchdogExpires, ProcessorReset, ExitApp, Reboot, Down
<1>3. ASSUME InitCDSData PROVE [Budget!Next]_Budget!vars
  BY <1>3, SetBudget, WordFacts DEF InitCDSData, Counting, Down, Budget!Next, Budget!Forget
<1>4. ASSUME HS_SbInit \/ HS_TblInit \/ HS_SysMonInit \/ Startup \/ Wakeup \/ HS_AcquirePointers
             \/ MonitorsDone \/ EventsDone \/ CommandsDone \/ PipeFails \/ ResetCFEFails \/ Service
             \/ AppMonCmd \/ EventMonCmd \/ Tick \/ UNCHANGED vars
      PROVE  [Budget!Next]_Budget!vars
  <2>1. returnTo \in Monitor
    BY DEF KeptInv, CountInv, TypeInv, TypeOK
  <2>2. UNCHANGED <<cds, CDSData, resets>>
    BY <1>4
    DEF HS_SbInit, HS_TblInit, HS_SysMonInit, Startup, Wakeup, HS_AcquirePointers, MonitorsDone,
        EventsDone, CommandsDone, PipeFails, GoTo, ResetCFEFails, Service, AppMonCmd, EventMonCmd,
        Tick, appVars, vars
  <2>3. Counting' = Counting
    BY <1>4, <2>1
    DEF HS_SbInit, HS_TblInit, HS_SysMonInit, Startup, Wakeup, HS_AcquirePointers, MonitorsDone,
        EventsDone, CommandsDone, PipeFails, GoTo, ResetCFEFails, Service, AppMonCmd, EventMonCmd,
        Tick, vars, Counting, Down, Monitor
  <2> QED
    BY <2>2, <2>3, QuietBudget
<1>5. ASSUME NEW m \in Monitor, ProcReset(m) PROVE [Budget!Next]_Budget!vars
  <2>1. Counting /\ Counting' /\ CDSData.ResetsPerformed < CDSData.MaxResets /\ resets' = resets
    BY <1>5 DEF ProcReset, CanReset, Counting, Down, Monitor
  <2>2. CDSData.ResetsPerformed + 1 \in Word
    BY <1>0, <2>1, WordAssumption DEF Word
  <2>3. /\ Live'.ResetsPerformed = CDSData.ResetsPerformed + 1
        /\ Live'.MaxResets = CDSData.MaxResets
    BY <1>0, <1>5, <2>1, <2>2, SetBudget DEF ProcReset, ChargedImage
  <2> QED
    BY <1>0, <2>1, <2>3 DEF Budget!Next, Budget!Charge
<1>6. ASSUME ResetCFE PROVE [Budget!Next]_Budget!vars
  <2> DEFINE performed == IF resets > UINT16_MAX THEN resets ELSE resets + 1
  <2>1. pc = "reset" /\ Counting
    BY <1>6 DEF ResetCFE, Counting, Down
  <2>2. Leave(cds, performed) /\ pc' \in Down
    BY <1>6 DEF ResetCFE, Reboot, Down
  <2>3. resets < Live.ResetsPerformed
    BY <1>0, <2>1 DEF KeptInv, CountInv, ResetCounted
  <2>4. performed = resets + 1
    BY <1>0, <2>1, <2>3, WordAssumption DEF Word
  <2> HIDE DEF performed
  <2>5. CASE Intact(cds)
    <3>1. Live' = cds /\ resets' = performed
      BY <2>2, <2>5, LeaveKeeps
    <3> QED
      BY <2>3, <2>4, <2>5, <3>1, LiveIsBlock DEF Budget!Next, Budget!Perform
  <2>6. CASE ~Intact(cds)
    BY <2>2, <2>6, LeaveForgets DEF Budget!Next
  <2> QED
    BY <2>5, <2>6
<1>7. ASSUME HS_ResetResetsPerformedCmd PROVE [Budget!Next]_Budget!vars
  <2>1. Counting /\ Counting'
    BY <1>7 DEF HS_ResetResetsPerformedCmd, Counting, Down
  <2>2. Live'.ResetsPerformed = 0 /\ Live'.MaxResets = CDSData.MaxResets
    BY <1>0, <1>7, <2>1, SetBudget, WordFacts DEF HS_ResetResetsPerformedCmd
  <2> QED
    BY <1>0, <1>7, <2>1, <2>2 DEF HS_ResetResetsPerformedCmd, Budget!Next, Budget!Zero
<1>8. ASSUME HS_SetMaxResetsCmd PROVE [Budget!Next]_Budget!vars
  <2>1. Counting /\ Counting'
    BY <1>8 DEF HS_SetMaxResetsCmd, Counting, Down
  <2>2. PICK max \in MaxResetsArgs : SetCDSData(Image(CDSData.ResetsPerformed, max))
    BY <1>8 DEF HS_SetMaxResetsCmd
  <2>3. Live'.ResetsPerformed = CDSData.ResetsPerformed /\ Live'.MaxResets = max
    BY <1>0, <2>1, <2>2, SetBudget, WordFacts
  <2> QED
    BY <1>0, <1>8, <2>1, <2>3 DEF HS_SetMaxResetsCmd, Budget!Next, Budget!SetLimit
<1>9. ASSUME ResetDuringCopy PROVE [Budget!Next]_Budget!vars
  <2>1. PICK new \in PendingWrites, words \in 1 .. 3 :
          Reboot(Torn(cds, new, words), IF new.ResetsPerformed = 0 THEN 0 ELSE resets)
    BY <1>9 DEF ResetDuringCopy
  <2>2. cds # NoBlock
    BY <1>9 DEF ResetDuringCopy, KeptInv, CountInv, TypeInv
  <2>3. Leave(Torn(cds, new, words), IF new.ResetsPerformed = 0 THEN 0 ELSE resets) /\ pc' \in Down
    BY <2>1 DEF Reboot, Down
  <2>4. CASE Intact(Torn(cds, new, words))
    <3>1. /\ Live' = Torn(cds, new, words)
          /\ resets' = IF new.ResetsPerformed = 0 THEN 0 ELSE resets
      BY <2>3, <2>4, LeaveKeeps
    <3> QED
      BY <2>2, <2>4, <3>1, TornBudget
  <2>5. CASE ~Intact(Torn(cds, new, words))
    BY <2>3, <2>5, LeaveForgets DEF Budget!Next
  <2> QED
    BY <2>4, <2>5
<1>10. ASSUME PowerOnReset PROVE [Budget!Next]_Budget!vars
  BY <1>10, LeaveForgets DEF PowerOnReset, Reboot, Down, Intact, Budget!Next
<1>11. ASSUME CorruptCDS PROVE [Budget!Next]_Budget!vars
  <2>1. /\ Counting' = Counting /\ CDSData' = CDSData
        /\ resets' = IF Counting THEN resets ELSE 0
    BY <1>11 DEF CorruptCDS, Counting, appVars
  <2>2. CASE Counting
    BY <1>0, <2>1, <2>2 DEF Live, Budget!vars
  <2>3. CASE ~Counting
    <3>1. ~Intact(cds') /\ ~Counting' /\ resets' = 0
      BY <1>11, <2>1, <2>3, CorruptionShows DEF KeptInv
    <3> QED
      BY <3>1, LiveInBlockNext DEF Budget!Next, Budget!Forget
  <2> QED
    BY <2>2, <2>3
<1> QED
  BY <1>1, <1>2, <1>3, <1>4, <1>5, <1>6, <1>7, <1>8, <1>9, <1>10, <1>11
  DEF Next, HSNext, Commands, Environment

(* Every step of HS, a crash in the middle of a copy and a damaged word of *)
(* the CDS included, is a step the abstract budget of resets allows.       *)
THEOREM BudgetIsImplemented ==
  ASSUME "CopyToCDS" \notin Faults, "RegisterCDS" \notin Faults
  PROVE  Spec => ImplementsBudget
<1>1. Init => Budget!Init
  <2>1. Init => ~Counting /\ ~Intact(cds) /\ resets = 0
    BY DEF Init, Counting, Down, Intact
  <2> QED
    BY <2>1, LiveInBlock DEF Budget!Init
<1>2. KeptInv /\ [Next]_vars => [Budget!Next]_Budget!vars
  BY NextBudget
<1>3. Spec => []KeptInv
  BY KeptInvariant
<1> QED
  BY <1>1, <1>2, <1>3, PTL DEF Spec, ImplementsBudget, Budget!Spec

(***************************************************************************)
(* The watchdog spares a healthy HS                                        *)
(***************************************************************************)
(* The calls of HS_AppInit whose failure HS_AppMain goes on after.         *)
LateInitFaults == {"SbInit", "TblRegister", "SysMonInit"}

Initializing == {"cdsinit", "sbinit", "tblinit", "sysmoninit", "startup"}
Cycling      == {"acquire", "monitor", "events", "commands", "service", "lastservice"}

(* What is left of the watchdog, while HS is willing to serve it: the      *)
(* ticks since the last service are those of the wait for the wakeup and   *)
(* of one delay before a reset.  A second delay in a cycle only follows a  *)
(* reset that failed, which ends the service.                              *)
ServedInv ==
  /\ timer \in Nat /\ watchdog \in Nat /\ ServiceWatchdogFlag \in {DISABLED, ENABLED_}
  /\ pc \in Down => ServiceWatchdogFlag = DISABLED
  /\ pc \in Down \cup Initializing \cup {"service"} => timer = 0
  /\ ServiceWatchdogFlag = ENABLED_ =>
       /\ pc = "pend" => timer <= HS_WAKEUP_TIMEOUT /\ watchdog + timer >= HS_WATCHDOG_TIMEOUT_VALUE
       /\ pc \in Cycling => watchdog + HS_WAKEUP_TIMEOUT >= HS_WATCHDOG_TIMEOUT_VALUE
       /\ pc = "reset" => /\ timer <= HS_RESET_TASK_DELAY
                          /\ watchdog + HS_WAKEUP_TIMEOUT + timer >= HS_WATCHDOG_TIMEOUT_VALUE

LEMMA Times ==
  /\ HS_WATCHDOG_TIMEOUT_VALUE \in Nat /\ HS_WAKEUP_TIMEOUT \in Nat /\ HS_RESET_TASK_DELAY \in Nat
  /\ HS_WAKEUP_TIMEOUT + HS_RESET_TASK_DELAY < HS_WATCHDOG_TIMEOUT_VALUE
  BY TimeAssumption

LEMMA DisabledIsNotEnabled == DISABLED # ENABLED_
  BY DEF DISABLED, ENABLED_

LEMMA ServedInit == Init => ServedInv
  BY DisabledIsNotEnabled DEF Init, ServedInv

(* HS has no memory: nothing is served and nothing waits.                  *)
LEMMA LeaveServed ==
  ASSUME NEW block, NEW performed, Leave(block, performed), watchdog' \in Nat
  PROVE  ServedInv'
  BY DisabledIsNotEnabled DEF Leave, MemoryLost, ServedInv

(* A step inside the initialization, or inside a cycle, that takes no time *)
(* and leaves the watchdog alone.                                          *)
LEMMA TimelessServed ==
  ASSUME ServedInv, UNCHANGED <<ServiceWatchdogFlag, timer, watchdog>>,
         \/ pc' = pc
         \/ pc \in Initializing /\ pc' \in Initializing
         \/ pc \in Cycling /\ pc' \in Cycling \ {"service"}
  PROVE  ServedInv'
  BY DEF ServedInv, Initializing, Cycling, Down

LEMMA ServedStep ==
  ASSUME LateInitFaults \cap Faults = {}, ServedInv, [Next]_vars
  PROVE  ServedInv'
<1> USE DEF LateInitFaults
<1>1. CASE RestoreCDS
  <2>1. pc = "off" /\ pc' \in {"cdsinit", "sbinit"} /\ UNCHANGED <<timer, watchdog>>
    BY <1>1 DEF RestoreCDS, DefaultStates
  <2>2. ServiceWatchdogFlag' = ENABLED_
    BY <1>1 DEF RestoreCDS, DefaultStates
  <2> QED
    BY <2>1, <2>2 DEF ServedInv, Down, Initializing, Cycling
<1>2. CASE \/ EVSRegisterFails \/ HS_SbInitMakesNoPipe \/ WakeupFails
           \/ ResetCFE \/ WatchdogExpires \/ ProcessorReset \/ ResetDuringCopy \/ PowerOnReset \/ RestartHS
  <2>1. \E block, performed : Leave(block, performed)
    BY <1>2 DEF EVSRegisterFails, HS_SbInitMakesNoPipe, WakeupFails, ExitApp, ResetCFE, WatchdogExpires,
                ProcessorReset, ResetDuringCopy, PowerOnReset, RestartHS, Reboot
  <2>2. watchdog' \in {0, watchdog}
    BY <1>2 DEF EVSRegisterFails, HS_SbInitMakesNoPipe, WakeupFails, ExitApp, ResetCFE, WatchdogExpires,
                ProcessorReset, ResetDuringCopy, PowerOnReset, RestartHS, Reboot
  <2> QED
    BY <2>1, <2>2, LeaveServed DEF ServedInv
<1>3. CASE InitCDSData \/ HS_SbInit \/ HS_TblInit \/ HS_SysMonInit
  <2>1. pc \in Initializing /\ pc' \in Initializing
    BY <1>3 DEF InitCDSData, HS_SbInit, HS_TblInit, HS_SysMonInit, May, Initializing
  <2>2. UNCHANGED <<ServiceWatchdogFlag, timer, watchdog>>
    BY <1>3 DEF InitCDSData, HS_SbInit, HS_TblInit, HS_SysMonInit, appVars
  <2> QED
    BY <2>1, <2>2, TimelessServed
<1>4. CASE Startup
  <2>1. /\ timer = 0 /\ timer' = 0 /\ pc' = "pend" /\ watchdog' = HS_WATCHDOG_TIMEOUT_VALUE
        /\ UNCHANGED ServiceWatchdogFlag
    BY <1>4 DEF Startup, ServedInv, Initializing
  <2> QED
    BY <2>1, Times DEF ServedInv, Down, Initializing, Cycling
<1>5. CASE StartupSubscribeFails
  BY <1>5, LeaveServed, Times DEF StartupSubscribeFails
<1>6. CASE Wakeup
  <2>1. pc = "pend" /\ pc' = "acquire" /\ timer' = 0 /\ UNCHANGED <<watchdog, ServiceWatchdogFlag>>
    BY <1>6 DEF Wakeup, GoTo, appVars
  <2> QED
    BY <2>1, Times DEF ServedInv, Down, Initializing, Cycling
<1>7. CASE MonitorsDone \/ EventsDone \/ CommandsDone \/ PipeFails
  <2>1. pc \in Cycling /\ pc' \in Cycling /\ timer' = 0 /\ UNCHANGED <<watchdog, ServiceWatchdogFlag>>
    BY <1>7 DEF MonitorsDone, EventsDone, CommandsDone, PipeFails, GoTo, appVars, Cycling
  <2> QED
    BY <2>1 DEF ServedInv, Down, Initializing, Cycling
<1>8. CASE HS_AcquirePointers
  <2>1. pc = "acquire" /\ pc' = "monitor" /\ UNCHANGED <<ServiceWatchdogFlag, timer, watchdog>>
    BY <1>8 DEF HS_AcquirePointers
  <2> QED
    BY <2>1, TimelessServed DEF Cycling
<1>9. CASE \E m \in Monitor : ProcReset(m)
  <2>1. pc \in Cycling /\ pc' = "reset" /\ timer' = 0 /\ UNCHANGED <<watchdog, ServiceWatchdogFlag>>
    BY <1>9 DEF ProcReset, CanReset, Monitor, Cycling
  <2> QED
    BY <2>1, Times DEF ServedInv, Down, Initializing, Cycling
<1>10. CASE ResetCFEFails
  <2>1. ServiceWatchdogFlag' = DISABLED /\ timer' = 0 /\ watchdog' = watchdog
    BY <1>10 DEF ResetCFEFails
  <2> QED
    BY <2>1, DisabledIsNotEnabled DEF ServedInv
<1>11. CASE Service
  <2>1. /\ pc = "service" /\ pc' = "pend" /\ timer' = 0 /\ timer = 0
        /\ watchdog' = WatchdogService /\ ServiceWatchdogFlag' = ServiceWatchdogFlag
    BY <1>11 DEF Service, ServedInv, appVars
  <2>2. watchdog' \in Nat /\ (ServiceWatchdogFlag = ENABLED_ => watchdog' = HS_WATCHDOG_TIMEOUT_VALUE)
    BY <2>1, Times DEF WatchdogService, ServedInv, Cycling
  <2> QED
    BY <2>1, <2>2, Times DEF ServedInv, Down, Initializing, Cycling
<1>12. CASE LastService
  <2>1. watchdog' \in Nat
    BY <1>12, Times DEF LastService, WatchdogService, ServedInv
  <2> QED
    BY <1>12, <2>1, LeaveServed DEF LastService
<1>13. CASE Commands \/ CorruptCDS \/ UNCHANGED vars
  <2>1. UNCHANGED <<pc, ServiceWatchdogFlag, timer, watchdog>>
    BY <1>13 DEF Commands, HS_ResetResetsPerformedCmd, HS_SetMaxResetsCmd, AppMonCmd, EventMonCmd,
                 CorruptCDS, appVars, vars
  <2> QED
    BY <2>1, TimelessServed
<1>14. CASE Tick
  <2>1. /\ watchdog' = (IF watchdog = 0 THEN 0 ELSE watchdog - 1)
        /\ timer' = (IF pc = "dead" THEN 0 ELSE timer + 1)
        /\ UNCHANGED <<pc, ServiceWatchdogFlag>>
    BY <1>14 DEF Tick, appVars
  <2>2. \/ pc = "pend"  /\ timer < HS_WAKEUP_TIMEOUT
        \/ pc = "reset" /\ timer < HS_RESET_TASK_DELAY
        \/ pc = "dead"
    BY <1>14 DEF Tick, Waiting
  <2> QED
    BY <2>1, <2>2, Times, DisabledIsNotEnabled DEF ServedInv, Down, Initializing, Cycling
<1> QED
  BY <1>1, <1>2, <1>3, <1>4, <1>5, <1>6, <1>7, <1>8, <1>9, <1>10, <1>11, <1>12, <1>13, <1>14
     DEF Next, HSNext, Environment

(* When HS was initialized in full, the watchdog expires only on an HS     *)
(* that no longer serves it: after a failed reset, or gone.                *)
THEOREM HealthyHSIsSpared ==
  ASSUME LateInitFaults \cap Faults = {}
  PROVE  Spec => WatchdogSparesHealthyHS
<1>1. ServedInv /\ [Next]_vars => ServedInv'
  BY ServedStep
<1>2. ServedInv /\ [Next]_vars => [WatchdogExpires => ServiceWatchdogFlag = DISABLED]_vars
  <2> SUFFICES ASSUME ServedInv, WatchdogExpires, ServiceWatchdogFlag # DISABLED PROVE FALSE
    OBVIOUS
  <2> QED
    BY Times DEF ServedInv, WatchdogExpires, Waiting, Down
<1> QED
  BY <1>1, <1>2, ServedInit, PTL DEF Spec, WatchdogSparesHealthyHS

(***************************************************************************)
(* An HS that was initialized in full                                      *)
(***************************************************************************)
Running == Cycling \cup {"pend", "reset"}

(* HS comes to its loop through the end of startup only, which starts the  *)
(* watchdog; from then on the watchdog runs, whether HS does or not, until *)
(* HS starts anew.  It is an HS in its loop, never one that is being       *)
(* initialized, that has stopped serving it.                               *)
StartedInv ==
  /\ watchdog \in Nat /\ returnTo \in Monitor
  /\ pc \in Down \cup Initializing \cup Running
  /\ pc \in Initializing => ServiceWatchdogFlag = ENABLED_
  /\ pc \in Running => synced
  /\ pc \in Running => watchdog > 0
  /\ pc = "dead" => watchdog > 0 \/ May("EVS_Register")

LEMMA StartedInit == Init => StartedInv
  BY DEF Init, StartedInv, Down, Initializing, Running, Cycling, Monitor

(* A step that leaves the watchdog running, of an HS in its loop or of one *)
(* that is being initialized.                                              *)
LEMMA GoesOnStarted ==
  ASSUME StartedInv, UNCHANGED <<watchdog, synced, ServiceWatchdogFlag, returnTo>>,
         \/ pc' = pc
         \/ pc \in Initializing /\ pc' \in Initializing
         \/ pc \in Running /\ pc' \in Running
  PROVE  StartedInv'
  BY DEF StartedInv, Initializing, Running, Cycling, Down

(* Serving the watchdog keeps it running.                                  *)
LEMMA ServiceKeepsRunning ==
  ASSUME watchdog \in Nat, watchdog > 0
  PROVE  WatchdogService \in Nat /\ WatchdogService > 0
  BY Times DEF WatchdogService

LEMMA StartedStep ==
  ASSUME LateInitFaults \cap Faults = {}, StartedInv, [Next]_vars
  PROVE  StartedInv'
<1> USE DEF LateInitFaults
<1>1. CASE RestoreCDS
  <2>1. /\ pc' \in {"cdsinit", "sbinit"} /\ ServiceWatchdogFlag' = ENABLED_
        /\ UNCHANGED <<watchdog, returnTo>>
    BY <1>1 DEF RestoreCDS, DefaultStates
  <2> QED
    BY <2>1 DEF StartedInv, Down, Initializing, Running, Cycling
<1>2. CASE ResetCFE \/ WatchdogExpires \/ ProcessorReset \/ ResetDuringCopy \/ PowerOnReset \/ RestartHS
  <2>1. pc' = "off" /\ watchdog' \in {0, watchdog} /\ returnTo' = "monitor"
    BY <1>2 DEF ResetCFE, WatchdogExpires, ProcessorReset, ResetDuringCopy, PowerOnReset, RestartHS,
                Reboot, Leave, MemoryLost
  <2> QED
    BY <2>1 DEF StartedInv, Down, Initializing, Running, Cycling, Monitor
<1>3. CASE WakeupFails \/ LastService \/ StartupSubscribeFails
  <2>1. pc' = "dead" /\ returnTo' = "monitor"
    BY <1>3 DEF WakeupFails, ExitApp, LastService, StartupSubscribeFails, Leave, MemoryLost
  <2>2. watchdog' \in Nat /\ watchdog' > 0
    BY <1>3, Times, ServiceKeepsRunning
       DEF WakeupFails, ExitApp, LastService, StartupSubscribeFails, StartedInv, Running, Cycling
  <2> QED
    BY <2>1, <2>2 DEF StartedInv, Down, Initializing, Running, Cycling, Monitor
<1>4. CASE EVSRegisterFails \/ HS_SbInitMakesNoPipe
  <2>1. pc' = "dead" /\ watchdog' = watchdog /\ returnTo' = "monitor" /\ May("EVS_Register")
    BY <1>4 DEF EVSRegisterFails, HS_SbInitMakesNoPipe, ExitApp, Leave, MemoryLost, May
  <2> QED
    BY <2>1 DEF StartedInv, Down, Initializing, Running, Cycling, Monitor, May
<1>5. CASE InitCDSData \/ HS_SbInit \/ HS_TblInit \/ HS_SysMonInit
  <2>1. pc \in Initializing /\ pc' \in Initializing
    BY <1>5 DEF InitCDSData, HS_SbInit, HS_TblInit, HS_SysMonInit, May, Initializing
  <2>2. UNCHANGED <<watchdog, synced, ServiceWatchdogFlag, returnTo>>
    BY <1>5 DEF InitCDSData, HS_SbInit, HS_TblInit, HS_SysMonInit, appVars
  <2> QED
    BY <2>1, <2>2, GoesOnStarted
<1>6. CASE Startup
  <2>1. pc' = "pend" /\ synced' /\ watchdog' = HS_WATCHDOG_TIMEOUT_VALUE /\ returnTo' = returnTo
    BY <1>6 DEF Startup
  <2> QED
    BY <2>1, Times DEF StartedInv, Down, Initializing, Running, Cycling
<1>7. CASE \/ Wakeup \/ MonitorsDone \/ EventsDone \/ CommandsDone \/ PipeFails \/ HS_AcquirePointers
  <2>1. pc \in Running /\ pc' \in Running
    BY <1>7 DEF Wakeup, MonitorsDone, EventsDone, CommandsDone, PipeFails, HS_AcquirePointers, GoTo,
                Running, Cycling
  <2>2. UNCHANGED <<watchdog, synced, ServiceWatchdogFlag, returnTo>>
    BY <1>7 DEF Wakeup, MonitorsDone, EventsDone, CommandsDone, PipeFails, HS_AcquirePointers, GoTo, appVars
  <2> QED
    BY <2>1, <2>2, GoesOnStarted
<1>8. CASE \E m \in Monitor : ProcReset(m)
  <2>1. /\ pc \in Running /\ pc' = "reset" /\ returnTo' \in Monitor
        /\ UNCHANGED <<watchdog, synced, ServiceWatchdogFlag>>
    BY <1>8 DEF ProcReset, CanReset, Monitor, Running, Cycling
  <2> QED
    BY <2>1 DEF StartedInv, Down, Initializing, Running, Cycling
<1>9. CASE ResetCFEFails
  <2>1. /\ pc \in Running /\ pc' = returnTo
        /\ UNCHANGED <<watchdog, synced, returnTo>>
    BY <1>9 DEF ResetCFEFails, Running
  <2> QED
    BY <2>1 DEF StartedInv, Down, Initializing, Running, Cycling, Monitor
<1>10. CASE Service
  <2>1. /\ pc \in Running /\ pc' = "pend" /\ watchdog' = WatchdogService
        /\ UNCHANGED <<synced, ServiceWatchdogFlag, returnTo>>
    BY <1>10 DEF Service, appVars, Running, Cycling
  <2>2. watchdog' \in Nat /\ watchdog' > 0
    BY <2>1, ServiceKeepsRunning DEF StartedInv
  <2> QED
    BY <2>1, <2>2 DEF StartedInv, Down, Initializing, Running, Cycling
<1>11. CASE Commands \/ CorruptCDS \/ UNCHANGED vars
  <2>1. UNCHANGED <<pc, watchdog, synced, ServiceWatchdogFlag, returnTo>>
    BY <1>11 DEF Commands, HS_ResetResetsPerformedCmd, HS_SetMaxResetsCmd, AppMonCmd, EventMonCmd,
                 CorruptCDS, appVars, vars
  <2> QED
    BY <2>1, GoesOnStarted
<1>12. CASE Tick
  <2>1. /\ watchdog # 1 /\ watchdog' = (IF watchdog = 0 THEN 0 ELSE watchdog - 1)
        /\ UNCHANGED <<pc, synced, ServiceWatchdogFlag, returnTo>>
    BY <1>12 DEF Tick, appVars
  <2> QED
    BY <2>1 DEF StartedInv
<1> QED
  BY <1>1, <1>2, <1>3, <1>4, <1>5, <1>6, <1>7, <1>8, <1>9, <1>10, <1>11, <1>12
     DEF Next, HSNext, Environment

(* A step of an HS that has given up ends at its restart or leaves it with *)
(* no more time than it had, and with less when time passes.               *)
LEMMA GivenUpStep ==
  ASSUME ~May("EVS_Register"), StartedInv, StartedInv', Doomed, [Next]_vars, pc' # "off"
  PROVE  Doomed' /\ watchdog' \in 1 .. watchdog /\ (Tick => watchdog' < watchdog)
<1>1. pc \in Running \cup {"dead"}
  BY DisabledIsNotEnabled DEF Doomed, StartedInv, Down, Counting
<1>2. pc = "dead" \/ ServiceWatchdogFlag = DISABLED
  BY DEF Doomed
<1>3. CASE Tick
  <2>1. UNCHANGED <<pc, ServiceWatchdogFlag>> /\ watchdog # 1
        /\ watchdog' = IF watchdog = 0 THEN 0 ELSE watchdog - 1
    BY <1>3 DEF Tick, appVars
  <2> QED
    BY <2>1, <1>1 DEF Doomed, Counting, StartedInv
<1>4. CASE ~Tick
  <2>1. Doomed' /\ watchdog' = watchdog
    <3>1. CASE WakeupFails \/ LastService
      BY <3>1, <1>2 DEF WakeupFails, ExitApp, LastService, WatchdogService, Doomed, Leave, MemoryLost,
                        DISABLED, ENABLED_
    <3>2. CASE \/ Wakeup \/ MonitorsDone \/ EventsDone \/ CommandsDone \/ PipeFails \/ HS_AcquirePointers
               \/ (\E m \in Monitor : ProcReset(m)) \/ ResetCFEFails \/ Service
      <4>1. pc # "dead" /\ pc' \in Running
        BY <3>2 DEF Wakeup, MonitorsDone, EventsDone, CommandsDone, PipeFails, HS_AcquirePointers, GoTo,
                    ProcReset, CanReset, ResetCFEFails, Service, Monitor, Running, Cycling, StartedInv
      <4>2. watchdog' = watchdog
        BY <3>2, <1>2, <4>1, DisabledIsNotEnabled
           DEF Wakeup, MonitorsDone, EventsDone, CommandsDone, PipeFails, HS_AcquirePointers,
               GoTo, ProcReset, ResetCFEFails, Service, WatchdogService
      <4>3. ServiceWatchdogFlag' = DISABLED
        BY <3>2, <1>2, <4>1
           DEF Wakeup, MonitorsDone, EventsDone, CommandsDone, PipeFails, HS_AcquirePointers,
               GoTo, ProcReset, ResetCFEFails, Service, appVars
      <4> QED
        BY <4>1, <4>2, <4>3 DEF Doomed, Counting, Running, Cycling, Down
    <3>3. CASE Commands \/ CorruptCDS \/ UNCHANGED vars
      <4>1. UNCHANGED <<pc, watchdog, ServiceWatchdogFlag>>
        BY <3>3 DEF Commands, HS_ResetResetsPerformedCmd, HS_SetMaxResetsCmd, AppMonCmd, EventMonCmd,
                    CorruptCDS, appVars, vars
      <4> QED
        BY <4>1 DEF Doomed, Counting
    <3>4. CASE \/ RestoreCDS \/ EVSRegisterFails \/ InitCDSData
               \/ HS_SbInit \/ HS_SbInitMakesNoPipe \/ HS_TblInit \/ HS_SysMonInit
               \/ Startup \/ StartupSubscribeFails
      BY <3>4, <1>1 DEF RestoreCDS, EVSRegisterFails, InitCDSData, HS_SbInit, HS_SbInitMakesNoPipe,
                        HS_TblInit, HS_SysMonInit, Startup, StartupSubscribeFails, Running, Cycling
    <3>5. CASE ResetCFE \/ WatchdogExpires \/ ProcessorReset \/ ResetDuringCopy \/ PowerOnReset \/ RestartHS
      BY <3>5 DEF ResetCFE, WatchdogExpires, ProcessorReset, ResetDuringCopy, PowerOnReset, RestartHS, Reboot
    <3> QED
      BY <1>4, <3>1, <3>2, <3>3, <3>4, <3>5 DEF Next, HSNext, Environment
  <2> QED
    BY <2>1, <1>1, <1>4 DEF StartedInv
<1> QED
  BY <1>3, <1>4

(* However a reset attempt or a receive fails, an HS that was initialized  *)
(* in full has given up for good: the watchdog runs out on it in as many   *)
(* ticks as it has left, unless HS starts anew before.                     *)
THEOREM GivingUpIsFinal ==
  ASSUME LateInitFaults \cap Faults = {}, "EVS_Register" \notin Faults
  PROVE  Spec => AttemptIsFinal
<1>1. StartedInv /\ [Next]_vars => StartedInv'
  BY StartedStep
<1>2. StartedInv /\ [Next]_vars =>
        [Doomed => \/ pc' = "off"
                   \/ Doomed' /\ watchdog' \in 1 .. watchdog /\ (Tick => watchdog' < watchdog)]_vars
  BY StartedStep, GivenUpStep DEF May
<1> QED
  BY <1>1, <1>2, StartedInit, PTL DEF Spec, AttemptIsFinal

(* Unless HS_AppInit fails late, the wait for the other applications comes *)
(* before HS looks at any of them: the failures HS_AppMain goes on after   *)
(* are all that breaks what the run app_init_fails refutes.                *)
THEOREM MonitoringFollowsStartup ==
  ASSUME LateInitFaults \cap Faults = {}
  PROVE  Spec => []MonitorsAfterStartup
<1>1. StartedInv /\ [Next]_vars => StartedInv'
  BY StartedStep
<1>2. StartedInv => MonitorsAfterStartup
  BY DEF StartedInv, MonitorsAfterStartup, Running, Cycling
<1> QED
  BY <1>1, <1>2, StartedInit, PTL DEF Spec
=============================================================================
