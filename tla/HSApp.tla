-------------------------------- MODULE HSApp --------------------------------
(***************************************************************************)
(* The life of the HS application: HS_AppInit, HS_AppMain and the cycle of *)
(* HS_ProcessMain, reduced to what decides whether the processor is reset: *)
(* the count of processor resets in the Critical Data Store (CDS), the     *)
(* request for a reset by either monitor, and the hardware watchdog.       *)
(*                                                                         *)
(* HS is one task.  A step is one call that another task, a crash or the   *)
(* passing of time can come before or after.  What the monitors look at is *)
(* in the modules HSAppMon and HSEventMon; here a monitor that runs may    *)
(* or may not ask for a processor reset.                                   *)
(***************************************************************************)
EXTENDS Naturals

CONSTANTS
  UINT16_MAX,                 \* largest value of a uint16 (65535 in the code)
  HS_MAX_RESTART_ACTIONS,     \* limit used when the CDS holds none
  MaxResetsArgs,              \* arguments of HS_SET_MAX_RESETS_CC
  HS_WATCHDOG_TIMEOUT_VALUE,  \* these three in ticks of one clock
  HS_WAKEUP_TIMEOUT,
  HS_RESET_TASK_DELAY,
  Faults,                     \* the calls of cFE that may fail
  NoBlock                     \* ES keeps no CDS block for HS

Word == 0 .. UINT16_MAX

FaultNames == {"RegisterCDS", "RestoreFromCDS", "CopyToCDS", "EVS_Register",
               "SbInit", "TblRegister", "TblLoad", "SysMonInit", "Subscribe",
               "Receive", "ResetCFE"}

(* The limits are uint16; hs_verify.h bounds HS_MAX_RESTART_ACTIONS.  The  *)
(* documentation of HS_WAKEUP_TIMEOUT bounds it by the watchdog timeout    *)
(* less the time HS runs, the only part of which that is not negligible is *)
(* the delay before a reset.                                               *)
ASSUME WordAssumption  == UINT16_MAX \in Nat
ASSUME LimitAssumption == HS_MAX_RESTART_ACTIONS \in Word /\ MaxResetsArgs \subseteq Word
ASSUME TimeAssumption  ==
  /\ HS_WATCHDOG_TIMEOUT_VALUE \in Nat /\ HS_WAKEUP_TIMEOUT \in Nat
  /\ HS_RESET_TASK_DELAY \in Nat
  /\ HS_WAKEUP_TIMEOUT + HS_RESET_TASK_DELAY < HS_WATCHDOG_TIMEOUT_VALUE
ASSUME FaultAssumption == Faults \subseteq FaultNames

VARIABLES
  pc,                   \* where the HS task is
  cds,                  \* the CDS block of HS in the memory that ES preserves
  CDSData,              \* HS_AppData.CDSData, the working copy
  CDSState,             \* HS_AppData.CDSState
  ServiceWatchdogFlag,  \* HS_AppData.ServiceWatchdogFlag
  CurrentAppMonState,   \* HS_AppData.CurrentAppMonState
  CurrentEventMonState, \* HS_AppData.CurrentEventMonState
  subscribed,           \* the event pipe receives events
  tables,               \* the monitor tables HS has registered
  returnTo,             \* the monitor that called CFE_ES_ResetCFE
  synced,               \* CFE_ES_WaitForStartupSync has returned
  watchdog,             \* ticks left of the hardware watchdog, 0 when it is off
  timer,                \* ticks since HS began to wait
  resets                \* history: resets HS performed on the present count;
                        \* it stops just above any count

appVars == <<CDSData, CDSState, ServiceWatchdogFlag, CurrentAppMonState,
             CurrentEventMonState, subscribed, synced>>
vars == <<pc, cds, appVars, tables, returnTo, watchdog, timer, resets>>

DISABLED == "DISABLED"
ENABLED_ == "ENABLED"
States == {DISABLED, ENABLED_}

Not(w) == UINT16_MAX - w      \* (uint16)~w

CDSImages == [ResetsPerformed : Word, ResetsPerformedNot : Word,
              MaxResets : Word, MaxResetsNot : Word]
ZeroImage == [ResetsPerformed |-> 0, ResetsPerformedNot |-> 0,
              MaxResets |-> 0, MaxResetsNot |-> 0]

ASSUME NoBlockAssumption == NoBlock \notin CDSImages

Image(performed, max) ==
  [ResetsPerformed |-> performed, ResetsPerformedNot |-> Not(performed),
   MaxResets |-> max, MaxResetsNot |-> Not(max)]

(* The check HS_AppInit makes on the data it restored. *)
Intact(block) ==
  /\ block # NoBlock
  /\ block.ResetsPerformed = Not(block.ResetsPerformedNot)
  /\ block.MaxResets = Not(block.MaxResetsNot)

Down    == {"off", "dead"}   \* HS has no memory: not started yet, or exited
Monitor == {"monitor", "events"}
PCs     == Down \cup Monitor \cup
             {"cdsinit", "sbinit", "tblinit", "sysmoninit", "startup", "pend",
              "acquire", "commands", "service", "lastservice", "reset"}

(* HS holds a count of its own, read from the CDS or set by HS_AppInit.    *)
Counting == pc \notin Down \cup {"cdsinit"}

May(call) == call \in Faults

(***************************************************************************)
(* Losing the memory of HS                                                 *)
(***************************************************************************)
MemoryLost ==
  /\ CDSData' = ZeroImage
  /\ CDSState' = DISABLED
  /\ ServiceWatchdogFlag' = DISABLED
  /\ CurrentAppMonState' = DISABLED
  /\ CurrentEventMonState' = DISABLED
  /\ subscribed' = FALSE
  /\ synced' = FALSE
  /\ tables' = {}
  /\ returnTo' = "monitor"
  /\ timer' = 0

(* HS stops counting with the CDS as "block".  The count survives only if  *)
(* it is kept in the CDS and the CDS can be read back: otherwise HS will   *)
(* count from 0, and the resets performed so far no longer matter.         *)
Leave(block, performed) ==
  /\ MemoryLost
  /\ cds' = block
  /\ resets' = IF Intact(block) /\ (Counting => CDSState = ENABLED_) THEN performed ELSE 0

(* The processor restarts; the memory of the CDS holds "block".            *)
Reboot(block, performed) ==
  /\ Leave(block, performed)
  /\ pc' = "off"
  /\ watchdog' = 0

(* HS leaves its main loop and exits, the watchdog still running.          *)
ExitApp ==
  /\ Leave(cds, resets)
  /\ pc' = "dead"
  /\ UNCHANGED watchdog

(* Definitions named Bad... are what the one after each of them would be   *)
(* with a bug; the properties must tell the two apart.                     *)

(***************************************************************************)
(* HS_SetCDSData, and the calls of it HS may be making now                 *)
(***************************************************************************)
SetCDSData(new) ==
  /\ CDSData' = new
  /\ \/ cds' = IF CDSState = ENABLED_ THEN new ELSE cds
     \/ May("CopyToCDS") /\ UNCHANGED cds

BadCanReset(m) ==   \* one reset too many
  /\ pc = m
  /\ CASE m = "monitor" -> CurrentAppMonState = ENABLED_
       [] m = "events"  -> CurrentEventMonState = ENABLED_ /\ subscribed
  /\ CDSData.ResetsPerformed <= CDSData.MaxResets

BadUnlimitedReset(m) ==   \* the limit is not looked at
  /\ pc = m
  /\ CASE m = "monitor" -> CurrentAppMonState = ENABLED_
       [] m = "events"  -> CurrentEventMonState = ENABLED_ /\ subscribed

CanReset(m) ==
  /\ pc = m
  /\ CASE m = "monitor" -> CurrentAppMonState = ENABLED_
       [] m = "events"  -> CurrentEventMonState = ENABLED_ /\ subscribed
  /\ CDSData.ResetsPerformed < CDSData.MaxResets

ChargedImage == Image(CDSData.ResetsPerformed + 1, CDSData.MaxResets)

PendingWrites ==
  UNION { IF pc = "cdsinit" THEN {Image(0, HS_MAX_RESTART_ACTIONS)} ELSE {},
          IF \E m \in Monitor : CanReset(m) THEN {ChargedImage} ELSE {},
          IF pc = "commands"
          THEN {Image(0, CDSData.MaxResets)} \cup
               {Image(CDSData.ResetsPerformed, max) : max \in MaxResetsArgs}
          ELSE {} }

(* A copy to the CDS cut short after its first "words" words.              *)
Torn(old, new, words) ==
  [ResetsPerformed    |-> IF words >= 1 THEN new.ResetsPerformed ELSE old.ResetsPerformed,
   ResetsPerformedNot |-> IF words >= 2 THEN new.ResetsPerformedNot ELSE old.ResetsPerformedNot,
   MaxResets          |-> IF words >= 3 THEN new.MaxResets ELSE old.MaxResets,
   MaxResetsNot       |-> old.MaxResetsNot]

(***************************************************************************)
(* HS_AppInit                                                              *)
(***************************************************************************)
Init ==
  /\ pc = "off"
  /\ cds = NoBlock
  /\ CDSData = ZeroImage
  /\ CDSState = DISABLED /\ ServiceWatchdogFlag = DISABLED
  /\ CurrentAppMonState = DISABLED /\ CurrentEventMonState = DISABLED
  /\ subscribed = FALSE /\ synced = FALSE
  /\ tables = {}
  /\ returnTo = "monitor"
  /\ watchdog = 0 /\ timer = 0
  /\ resets = 0

(* Start of HS_AppInit: the operating data take their default states, then *)
(* the CDS is registered and, if it existed, restored and checked.         *)
DefaultStates ==
  /\ ServiceWatchdogFlag' = ENABLED_
  /\ CurrentAppMonState' = ENABLED_
  /\ CurrentEventMonState' = ENABLED_
  /\ UNCHANGED <<subscribed, synced, tables, returnTo, watchdog, timer>>

RestoreCDS ==
  /\ pc = "off"
  /\ DefaultStates
  /\ \/ /\ Intact(cds)
        /\ CDSData' = cds
        /\ CDSState' = ENABLED_
        /\ pc' = "sbinit"
        /\ UNCHANGED <<cds, resets>>
     \/ /\ cds # NoBlock                \* corrupt, or not restored
        /\ Intact(cds) => May("RestoreFromCDS")
        /\ CDSState' = ENABLED_
        /\ pc' = "cdsinit"
        /\ UNCHANGED <<cds, CDSData, resets>>
     \/ /\ cds = NoBlock                \* created, filled with zeros
        /\ cds' = ZeroImage
        /\ CDSState' = ENABLED_
        /\ pc' = "cdsinit"
        /\ UNCHANGED <<CDSData, resets>>
     \/ /\ May("RegisterCDS")           \* counts will not be saved
        /\ CDSState' = DISABLED
        /\ pc' = "cdsinit"
        /\ UNCHANGED <<cds, CDSData, resets>>

(* Without event services, HS_AppInit ends before it makes the pipes.      *)
EVSRegisterFails ==
  /\ pc = "off"
  /\ May("EVS_Register")
  /\ ExitApp

BadInitCDSData ==   \* only the working copy is initialized
  /\ pc = "cdsinit"
  /\ CDSData' = Image(0, HS_MAX_RESTART_ACTIONS)
  /\ resets' = 0
  /\ pc' = "sbinit"
  /\ UNCHANGED <<cds, CDSState, ServiceWatchdogFlag, CurrentAppMonState, CurrentEventMonState,
                 subscribed, synced, tables, returnTo, watchdog, timer>>

InitCDSData ==
  /\ pc = "cdsinit"
  /\ SetCDSData(Image(0, HS_MAX_RESTART_ACTIONS))
  /\ resets' = 0
  /\ pc' = "sbinit"
  /\ UNCHANGED <<CDSState, ServiceWatchdogFlag, CurrentAppMonState, CurrentEventMonState,
                 subscribed, synced, tables, returnTo, watchdog, timer>>

(* When HS_AppInit fails, HS_AppMain enters its loop all the same: its     *)
(* RunStatus is still APP_RUN.  The first receive fails if the wakeup pipe *)
(* was not made, which ends HS; otherwise HS runs cycles.                  *)
HS_SbInit ==
  /\ pc = "sbinit"
  /\ \/ pc' = "tblinit"
     \/ May("SbInit") /\ pc' = "pend"
  /\ UNCHANGED <<cds, appVars, tables, returnTo, watchdog, timer, resets>>

HS_SbInitMakesNoPipe ==
  /\ pc = "sbinit"
  /\ May("SbInit")
  /\ ExitApp

MonitorTables == {"AMT", "EMT"}

(* HS_AcquirePointers disables a monitor whose table has no address: it is *)
(* not registered, was never loaded, or cannot be read.                    *)
AcquireTables(registered) ==
  \E loaded \in SUBSET registered :
    /\ loaded # registered => May("TblLoad")
    /\ CurrentAppMonState' = IF "AMT" \in loaded THEN CurrentAppMonState ELSE DISABLED
    /\ CurrentEventMonState' = IF "EMT" \in loaded THEN CurrentEventMonState ELSE DISABLED
    /\ subscribed' = (subscribed /\ "EMT" \in loaded)

HS_TblInit ==
  /\ pc = "tblinit"
  /\ \/ /\ May("TblRegister")
        /\ tables' \in {{}, {"AMT"}, MonitorTables}
        /\ pc' = "pend"
        /\ UNCHANGED appVars
     \/ /\ tables' = MonitorTables
        /\ AcquireTables(MonitorTables)
        /\ pc' = "sysmoninit"
        /\ UNCHANGED <<CDSData, CDSState, ServiceWatchdogFlag, synced>>
  /\ UNCHANGED <<cds, returnTo, watchdog, timer, resets>>

HS_SysMonInit ==
  /\ pc = "sysmoninit"
  /\ \/ pc' = "startup"
     \/ May("SysMonInit") /\ pc' = "pend"
  /\ UNCHANGED <<cds, appVars, tables, returnTo, watchdog, timer, resets>>

(***************************************************************************)
(* HS_AppMain and HS_ProcessMain                                           *)
(***************************************************************************)
(* Wait for the other applications, start the watchdog, subscribe.         *)
Startup ==
  /\ pc = "startup"
  /\ synced' = TRUE
  /\ watchdog' = HS_WATCHDOG_TIMEOUT_VALUE
  /\ subscribed' = (CurrentEventMonState = ENABLED_)
  /\ pc' = "pend"
  /\ UNCHANGED <<cds, CDSData, CDSState, ServiceWatchdogFlag, CurrentAppMonState,
                 CurrentEventMonState, tables, returnTo, timer, resets>>

StartupSubscribeFails ==
  /\ pc = "startup"
  /\ CurrentEventMonState = ENABLED_
  /\ May("Subscribe")
  /\ Leave(cds, resets)
  /\ watchdog' = HS_WATCHDOG_TIMEOUT_VALUE
  /\ pc' = "dead"

GoTo(from, to) ==
  /\ pc = from
  /\ pc' = to
  /\ timer' = 0
  /\ UNCHANGED <<cds, appVars, tables, returnTo, watchdog, resets>>

Wakeup       == GoTo("pend", "acquire")       \* a message, or the timeout
MonitorsDone == GoTo("monitor", "events")
EventsDone   == GoTo("events", "commands")
CommandsDone == GoTo("commands", "service")
PipeFails    == /\ May("Receive")
                /\ GoTo("events", "lastservice") \/ GoTo("commands", "lastservice")
WakeupFails  == pc = "pend" /\ May("Receive") /\ ExitApp

HS_AcquirePointers ==
  /\ pc = "acquire"
  /\ AcquireTables(tables)
  /\ pc' = "monitor"
  /\ UNCHANGED <<cds, CDSData, CDSState, ServiceWatchdogFlag, synced, tables,
                 returnTo, watchdog, timer, resets>>

BadProcReset(m) ==   \* the reset is counted in the working copy only
  /\ CanReset(m)
  /\ CDSData' = ChargedImage
  /\ pc' = "reset"
  /\ returnTo' = m
  /\ timer' = 0
  /\ UNCHANGED <<cds, CDSState, ServiceWatchdogFlag, CurrentAppMonState, CurrentEventMonState,
                 subscribed, synced, tables, watchdog, resets>>

(* A monitor takes a processor reset action: the reset is counted, HS      *)
(* sleeps for HS_RESET_TASK_DELAY ...                                      *)
ProcReset(m) ==
  /\ CanReset(m)
  /\ SetCDSData(ChargedImage)
  /\ pc' = "reset"
  /\ returnTo' = m
  /\ timer' = 0
  /\ UNCHANGED <<CDSState, ServiceWatchdogFlag, CurrentAppMonState, CurrentEventMonState,
                 subscribed, synced, tables, watchdog, resets>>

(* ... then stops serving the watchdog and calls CFE_ES_ResetCFE, which    *)
(* does not return unless it fails.                                        *)
ResetCFE ==
  /\ pc = "reset"
  /\ timer = HS_RESET_TASK_DELAY
  /\ Reboot(cds, IF resets > UINT16_MAX THEN resets ELSE resets + 1)

ResetCFEFails ==
  /\ pc = "reset"
  /\ timer = HS_RESET_TASK_DELAY
  /\ May("ResetCFE")
  /\ ServiceWatchdogFlag' = DISABLED
  /\ pc' = returnTo
  /\ timer' = 0
  /\ UNCHANGED <<cds, CDSData, CDSState, CurrentAppMonState, CurrentEventMonState,
                 subscribed, synced, tables, returnTo, watchdog, resets>>

BadWatchdogServed ==   \* served without looking at the flag
  IF watchdog > 0 THEN HS_WATCHDOG_TIMEOUT_VALUE ELSE 0

BadWatchdogUnserved ==   \* never served
  watchdog

WatchdogService ==
  IF ServiceWatchdogFlag = ENABLED_ /\ watchdog > 0
  THEN HS_WATCHDOG_TIMEOUT_VALUE ELSE watchdog

Service ==
  /\ pc = "service"
  /\ watchdog' = WatchdogService
  /\ pc' = "pend"
  /\ UNCHANGED <<cds, appVars, tables, returnTo, timer, resets>>

LastService ==
  /\ pc = "lastservice"
  /\ Leave(cds, resets)
  /\ watchdog' = WatchdogService
  /\ pc' = "dead"

(***************************************************************************)
(* Ground commands                                                         *)
(***************************************************************************)
HS_ResetResetsPerformedCmd ==
  /\ pc = "commands"
  /\ SetCDSData(Image(0, CDSData.MaxResets))
  /\ resets' = 0
  /\ UNCHANGED <<pc, CDSState, ServiceWatchdogFlag, CurrentAppMonState, CurrentEventMonState,
                 subscribed, synced, tables, returnTo, watchdog, timer>>

BadSetMaxResetsCmd ==   \* the arguments of HS_SetCDSData swapped
  /\ pc = "commands"
  /\ \E max \in MaxResetsArgs : SetCDSData(Image(max, CDSData.ResetsPerformed))
  /\ UNCHANGED <<pc, CDSState, ServiceWatchdogFlag, CurrentAppMonState, CurrentEventMonState,
                 subscribed, synced, tables, returnTo, watchdog, timer, resets>>

HS_SetMaxResetsCmd ==
  /\ pc = "commands"
  /\ \E max \in MaxResetsArgs : SetCDSData(Image(CDSData.ResetsPerformed, max))
  /\ UNCHANGED <<pc, CDSState, ServiceWatchdogFlag, CurrentAppMonState, CurrentEventMonState,
                 subscribed, synced, tables, returnTo, watchdog, timer, resets>>

AppMonCmd ==     \* HS_EnableAppMonCmd, HS_DisableAppMonCmd
  /\ pc = "commands"
  /\ CurrentAppMonState' \in States
  /\ UNCHANGED <<pc, cds, CDSData, CDSState, ServiceWatchdogFlag, CurrentEventMonState,
                 subscribed, synced, tables, returnTo, watchdog, timer, resets>>

EventMonCmd ==   \* HS_EnableEventMonCmd, HS_DisableEventMonCmd
  /\ pc = "commands"
  /\ CurrentEventMonState' \in States \ {CurrentEventMonState}
  /\ subscribed' = (CurrentEventMonState' = ENABLED_)
  /\ UNCHANGED <<pc, cds, CDSData, CDSState, ServiceWatchdogFlag, CurrentAppMonState,
                 synced, tables, returnTo, watchdog, timer, resets>>

(***************************************************************************)
(* The rest of the system: time, the processor, Executive Services         *)
(***************************************************************************)
Waiting ==
  \/ pc = "pend"  /\ timer < HS_WAKEUP_TIMEOUT
  \/ pc = "reset" /\ timer < HS_RESET_TASK_DELAY
  \/ pc = "dead"  /\ watchdog > 0

Tick ==
  /\ Waiting
  /\ watchdog # 1
  /\ watchdog' = IF watchdog = 0 THEN 0 ELSE watchdog - 1
  /\ timer' = IF pc = "dead" THEN 0 ELSE timer + 1
  /\ UNCHANGED <<pc, cds, appVars, tables, returnTo, resets>>

WatchdogExpires ==
  /\ Waiting
  /\ watchdog = 1
  /\ Reboot(cds, resets)

(* A processor reset that HS did not ask for, at any time ...              *)
ProcessorReset == Reboot(cds, resets)

(* ... one that cuts a copy to the CDS short ...                           *)
ResetDuringCopy ==
  /\ CDSState = ENABLED_
  /\ \E new \in PendingWrites, words \in 1 .. 3 :
       Reboot(Torn(cds, new, words), IF new.ResetsPerformed = 0 THEN 0 ELSE resets)

(* ... and a power-on reset, after which there is no CDS.                  *)
PowerOnReset == Reboot(NoBlock, 0)

(* ES restarts HS: the CDS and the watchdog go on.                         *)
RestartHS ==
  /\ pc # "off"
  /\ Leave(cds, resets)
  /\ pc' = "off"
  /\ UNCHANGED watchdog

(* One word of an intact CDS changes.                                      *)
CorruptCDS ==
  /\ Intact(cds)
  /\ \E field \in DOMAIN cds, word \in Word :
       /\ word # cds[field]
       /\ cds' = [cds EXCEPT ![field] = word]
  /\ resets' = IF Counting THEN resets ELSE 0
  /\ UNCHANGED <<pc, appVars, tables, returnTo, watchdog, timer>>

HSNext ==
  \/ RestoreCDS \/ EVSRegisterFails \/ InitCDSData
  \/ HS_SbInit \/ HS_SbInitMakesNoPipe \/ HS_TblInit \/ HS_SysMonInit
  \/ Startup \/ StartupSubscribeFails
  \/ Wakeup \/ WakeupFails \/ HS_AcquirePointers
  \/ MonitorsDone \/ EventsDone \/ CommandsDone \/ PipeFails
  \/ (\E m \in Monitor : ProcReset(m)) \/ ResetCFE \/ ResetCFEFails
  \/ Service \/ LastService

Commands == HS_ResetResetsPerformedCmd \/ HS_SetMaxResetsCmd \/ AppMonCmd \/ EventMonCmd

Environment ==
  \/ Tick \/ WatchdogExpires
  \/ ProcessorReset \/ ResetDuringCopy \/ PowerOnReset \/ RestartHS \/ CorruptCDS

Next == HSNext \/ Commands \/ Environment

Spec == Init /\ [][Next]_vars

(* HS runs while the processor does, and time passes: HS cannot keep going *)
(* round its loop without a tick.  Nothing forces commands, faults or      *)
(* resets by others.                                                       *)
Fairness == WF_vars(HSNext) /\ SF_vars(Tick \/ WatchdogExpires)

FairSpec == Spec /\ Fairness

(***************************************************************************)
(* Properties                                                              *)
(***************************************************************************)
TypeOK ==
  /\ pc \in PCs
  /\ cds \in CDSImages \cup {NoBlock}
  /\ CDSData \in CDSImages
  /\ CDSState \in States /\ ServiceWatchdogFlag \in States
  /\ CurrentAppMonState \in States /\ CurrentEventMonState \in States
  /\ subscribed \in BOOLEAN /\ synced \in BOOLEAN
  /\ tables \subseteq MonitorTables
  /\ returnTo \in Monitor
  /\ watchdog \in 0 .. HS_WATCHDOG_TIMEOUT_VALUE
  /\ timer \in Nat
  /\ resets \in 0 .. UINT16_MAX + 1

(* The count and limit that hold now: those of HS while it counts, and     *)
(* otherwise those it will start from.                                     *)
Live == IF Counting THEN CDSData
        ELSE IF Intact(cds) THEN cds ELSE Image(0, HS_MAX_RESTART_ACTIONS)

(* Whatever interrupts HS between counting a reset, copying the count and  *)
(* resetting, no reset is performed that the count does not include: HS    *)
(* never starts again from a count lower than the resets it performed.     *)
NoUncountedReset == resets <= Live.ResetsPerformed

(* No more resets are performed on one count than the highest limit HS was *)
(* ever given, the default included: the guard of the two reset actions    *)
(* bounds them across restarts of HS, in any interleaving with commands.   *)
ResetsLimited ==
  \E limit \in {HS_MAX_RESTART_ACTIONS} \cup MaxResetsArgs : resets <= limit

(* While HS counts in a working CDS, the block is a copy of its data or is *)
(* seen not to be: no stale or mixed data pass the check of HS_AppInit.    *)
CDSMirrors ==
  (Counting /\ CDSState = ENABLED_ /\ Intact(cds)) => cds = CDSData

(* The watchdog resets the processor only when HS has stopped serving it   *)
(* after a reset attempt or has exited (both leave the flag DISABLED): a   *)
(* cycle, with its delay before a reset, always ends in time.              *)
WatchdogSparesHealthyHS == [][WatchdogExpires => ServiceWatchdogFlag = DISABLED]_vars

(* HS has given up the processor: it has exited, or a reset it asked for   *)
(* failed and it has stopped serving the watchdog.                         *)
Doomed == pc = "dead" \/ (Counting /\ ServiceWatchdogFlag = DISABLED)

(* A reset attempt ends in a reset: should CFE_ES_ResetCFE fail, HS lets   *)
(* the watchdog expire, whatever it does in the meantime, and so it does   *)
(* when HS exits on a failed receive.                                      *)
AttemptEndsInReset == Doomed ~> (pc = "off")

(* There is no way back: whatever HS, the ground and the system do until   *)
(* HS starts anew, the watchdog of an HS that has given up keeps running,  *)
(* is never served again and loses every tick.                             *)
AttemptIsFinal ==
  [][Doomed => \/ pc' = "off"
               \/ Doomed' /\ watchdog' \in 1 .. watchdog /\ (Tick => watchdog' < watchdog)]_vars

(* Applications are monitored only once startup has been completed.        *)
MonitorsAfterStartup ==
  (pc = "monitor" /\ CurrentAppMonState = ENABLED_) => synced

(* The count and the limit change as the abstract budget of resets allows. *)
Budget == INSTANCE ResetBudget
  WITH DefaultLimit <- HS_MAX_RESTART_ACTIONS, Limits <- MaxResetsArgs,
       count <- Live.ResetsPerformed, limit <- Live.MaxResets
ImplementsBudget == Budget!Spec
=============================================================================
