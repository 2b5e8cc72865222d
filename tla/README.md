# A formal model of HS

HS (Health and Safety) is a cFS application. Once a cycle it looks at the
applications of the system and at the events they send, and acts on what its
tables say: it restarts or deletes an application, resets the processor, sends
a message. It also serves the hardware watchdog. This directory holds TLA+
modules that model the code under `src/fsw`, the TLC configurations that check
them, and theorems that TLAPS proves about them. `PROJECT.json` lists the runs,
the lines each definition models, the hazards and the theorems.

To check a run: `tlc -config app_budget.cfg MCHSApp`. To check the proofs:
`tlapm HSAppProofs.tla`.

## 1. The system

HS is one task with three pipes: wakeup, command, event. Each turn of its loop
(`HS_ProcessMain`, hs_app.c) waits for a wakeup message or a timeout, reads the
table addresses (`HS_AcquirePointers`), lets the cooldowns of messages go down,
monitors applications, samples utilization, prints aliveness, empties the event
pipe, empties the command pipe, and serves the watchdog. All state is in
`HS_AppData` and one block of the Critical Data Store (CDS), which survives a
processor reset. What runs concurrently are the *other* tasks (applications,
Event, Table and Executive Services), time, and resets; each step of the models
is a part of HS that one of those can come before or after.

| Component | State | Operations | Correct when |
|---|---|---|---|
| Reset limiting, CDS (hs_app.c, hs_monitors.c, hs_cmds.c) | count and limit of processor resets, each with its complement; the copy in the CDS; `CDSState` | restore or initialize at start, `HS_SetCDSData`, the guard in both monitors, two commands | no reset goes uncounted, whatever interrupts HS; the limit holds across restarts; no damaged block is believed |
| Start-up and main loop (hs_app.c) | `RunStatus`, pipes, what was set up | `HS_AppInit` and its parts, `HS_AppMain`, `HS_ProcessMain`, `HS_ProcessCommands` | nothing is monitored before the system is up; a failure leaves no half-working HS |
| Watchdog (hs_app.c, hs_monitors.c) | `ServiceWatchdogFlag`, the hardware timer | start, service, stop serving | it spares a healthy HS; after a reset attempt it makes sure of the reset |
| Application Monitor (hs_monitors.c, hs_cmds.c) | table, countdowns, last execution counters, enable bits, state | `HS_MonitorApplications`, `HS_AppMonStatusRefresh`, enable, disable, table update | silent applications are acted on in time and once; running ones are left alone |
| Event Monitor (hs_monitors.c, hs_app.c, hs_cmds.c) | table, state, two subscriptions, event pipe | the drain loop, `HS_MonitorEvent`, enable, disable, table failure | an enabled monitor hears events, within a cycle, and compares them with a table it has; the loop ends |
| Message actions (hs_monitors.c, hs_app.c, hs_cmds.c) | table, cooldowns, state | send, decrement, refresh | a message is sent at most once in its cooldown, from either monitor |
| Table validation (hs_monitors.c, hs_utils.c) | none | four validators | what passes is what the monitors and housekeeping can use |
| Command dispatch (hs_dispatch.c, or hs_eds_dispatch.c) | two 8-bit command counters | length checks, a handler per code | every command is counted once; a bad one changes nothing but the error counter |
| Housekeeping (hs_cmds.c) | the packet | `HS_SendHkCmd` | it shows no count of a table HS cannot read |
| Tables (hs_cmds.c, hs_app.c, fsw/tables) | four pointers and loaded flags | `HS_TblInit`, `HS_AcquirePointers` | no table goes missing unreported |
| Utilization and hogging (hs_monitors.c, hs_sysmon.c) | ring buffer, averages, hogging count | `HS_MonitorUtilization`, two commands, sample scaling | averages are those of the latest readings; hogging is reported once, in time |
| Aliveness (hs_app.c) | a counter and a state | print, two commands | nothing else depends on it |
| Configuration (hs_verify.h) | none | checks at compile time | the rest of the code needs no others (it does need two, below) |

The parts meet in four places. The two monitors share the count of resets and
the cooldowns of messages. A reset attempt switches off watchdog service. A
table without an address disables its monitor, and for events unsubscribes. The
Event Monitor's actions send events that come back through its own pipe.

What is hard to test: restarts between any two steps of a reset; copies to the
CDS cut short or failing; damaged words; calls of cFE that fail half-way
through a command; table updates and commands between any two checks of an
application; counters that restart; events that arrive while the pipe is being
emptied; the last tick before the watchdog expires; averages that wrap around
the end of the ring buffer, with readings that fail among them; tables that come
and go while housekeeping reads them; messages that are wrong in two ways.
`PROJECT.json` has each at its line, under "hazards".

## 2. The modules

| Module | Models | Composes |
|---|---|---|
| `ResetBudget` | abstract: what HS promises about processor resets | |
| `HSApp` | the life of HS: start-up, cycle, CDS, reset actions, watchdog | refines `ResetBudget` |
| `HSTables` | action, state and resource codes, table indices, the four validators | |
| `HSConfig` | the configuration and what hs_verify.h checks of it | `HSTables` |
| `HSDefaultTables` | the tables that come with HS | `HSConfig` |
| `HSMsgActs` | cooldowns and sending of messages; also the abstract account of them that the monitors are shown to keep | `HSTables` |
| `HSAppMon` | the Application Monitor with its messages | `HSMsgActs` |
| `HSEventMon` | the Event Monitor with its subscriptions, pipe and messages | `HSMsgActs` |
| `HSEventDrain` | no code of its own: a measure of the work left in the loop that empties the pipe | `HSEventMon` |
| `UtilWindow` | abstract: averages and peaks of a window of the latest intervals | |
| `HSUtil` | utilization, hogging, aliveness, the system monitor device | `HSConfig`, refines `UtilWindow` |
| `HSCmd` | the command pipe, both dispatchers, the command handlers, housekeeping, the loading of all four tables | `HSDefaultTables` |
| `MC...` | small instances for TLC | |
| `...Proofs` | theorems | |

**HSApp.** `pc` is where the task is: `cdsinit` to `startup` are the steps of
`HS_AppInit` and `HS_AppMain`; `pend`, `acquire`, `monitor`, `events`,
`commands` and `service` those of a cycle; `reset` is the delay before
`CFE_ES_ResetCFE`; in `off` and `dead` there is no HS. `RestoreCDS` and
`InitCDSData` are the first half of `HS_AppInit`; `HS_SbInit`, `HS_TblInit`
and `HS_SysMonInit` are the calls that may fail in the second, after which the
code goes to its loop all the same. `ProcReset(m)` is the reset action of
monitor `m` up to `OS_TaskDelay`, `ResetCFE` and `ResetCFEFails` the rest of
it. What makes a monitor want a reset is left open here: a monitor that is
enabled (and, for events, subscribed) may want one at any point of its turn,
also twice in one if the first attempt returned. `SetCDSData` writes the
working copy and, if there is a CDS, the block. The environment restarts the
processor at any point, in the middle of a copy (`ResetDuringCopy`: any number
of the four words has been written), by power-on (the block is gone), restarts
only HS, or changes one word of the block. Which calls may fail is the constant
`Faults`.

**HSMsgActs.** `MATStartCycle` is `HS_AcquirePointers` for the Message Actions
Table with the decrement that follows it; `SendMsgAct(m)` what both monitors do
for an action above their last non-message action. Two history variables,
`cycles` and `spacing`, say how long ago a message was sent and how long it must
rest, independently of the counter in the code.

**HSAppMon.** One action per way through the body of the loop of
`HS_MonitorApplications` (`SkipEntry`, `CheckedIn`, `StillWaiting`,
`ExpireNoMessage`, `ExpireMessage`), so that applications run, end and restart
between two entries. `NotRunning` stands for an application ES does not know.
`HS_AppMonStatusRefresh` is part of a table update and of the enable command.
History variables: `ran` (the application ran since the entry's last check),
`silent` (checks in a row that found it had not), `failures` (actions since the
entry was armed).

**HSEventMon.** The pipe is a sequence of at most `HS_EVENT_PIPE_DEPTH` events;
the Software Bus drops what does not fit. `Receive` and `NoMessage` are the loop
in `HS_ProcessCommands`, `HS_MonitorEvent` one entry at a time, with a case per
action type and the events HS sends of each, which enter its own pipe. Commands
and table failures change the two subscriptions one call after the other, and
either call may fail. Events carry the number of cycles since they were sent
(`age`), a history. The two histories of freshness, `age` and `drained`, are not
in the code.

**HSEventDrain.** The loop that empties the pipe acts on events, and its actions
put events into the pipe. `Work` measures what is left to do: for each event in
the pipe a cost, and for the event HS is at the entries it has still to be
compared with, each with the cost of the events its action may send (`Brings`).
Costs are given for each table by itself (`EventCost`; `CostNow` are those of the
table in use), as the table does not change while the pipe is emptied. They grow
with a rank of the event (`EventRank`, a constant). `RanksDescend` says what the
tables must be like: whatever an action sends ranks below the events the action is
taken on, which some ranking of 0 to 7 does for every table that does not make HS
act, at once or over several events, on the events of its own actions in a circle.

**HSConfig** and **HSDefaultTables.** Both are data. The checks of hs_verify.h are
named assumptions of `HSConfig`, so that TLC evaluates them on every instance and
the proofs may use them. The default tables are functions of the mission's
number of entries, as the array initializers are: the first entries if there are
fewer, zeros if there are more.

**HSUtil.** `HS_ProcessMain(sample)` is what a cycle does for utilization: it
counts cycles of the interval down (`Sampling`), and at the end of one calls
`HS_MonitorUtilization`, which moves the index on whatever the reading, writes
the slot, recomputes average and peak (`UtilizationKnown`) and counts hogging
(`CountHogging`). A reading the device cannot give, or a device that was not
found, makes both values unknown and writes no slot. The sum over `Averaged(slot)`
is the sum of both loops of the code, before and after the end of the buffer.
History variables keep, apart from the code's counter, which of the latest known
readings hogged (`hogs`), whether the event was sent (`reported`, `noticed`), for
how many cycles the CPU has hogged (`hoggedCycles`), and what the latest intervals
measured, if they could be (`latest`). `UtilWindow` has neither slots nor index: a
sequence of measurements, shifted by each interval, which is `latest`. Every
interval that was measured counts as what it measured, in both values. What one
that could not be measured counts as is left open; section 5 says what it is.

**HSCmd.** `pc` goes from `start` over `HS_AppInit` to `cycle`, where tables come
and go and the monitors do what changes housekeeping (`StartCycle`), to
`commands`, where messages are received until the pipe is empty or fails.
`AcquirePointers` is the logic common to the four blocks of
`HS_AcquirePointers`: which tables without an address are reported, and what the
flags and the monitors' states become. `Receive(msg)` dispatches with
`HS_AppPipe` or `HS_TaskPipe`; a mission builds one, the model allows either at
each message, so that whatever holds of it holds of both. `hk` is the packet the
step sends. An execution count is represented by the name of the resource it is
of, so that a count in the wrong slot, or of another table, can be told apart.
History variables: `handled` (commands since the counters were cleared, with the
same width), `lost` and `told` (tables HS could not get, and those reported).

Definitions named `Bad...` hold the code as it would be with a plausible bug; no
specification uses them. Each property is checked to fail when the one listed
for it under "mutants" takes the place of the real definition.

### Assumptions about what is outside

- A CDS block that ES creates is filled with zeros. At most one word of an
  intact block changes at a time: the complements can detect no more.
- `CFE_TBL_GetAddress` leaves a pointer to zeroed memory, or to the last image,
  when it fails. Only images that pass validation are loaded.
- ES sets the execution counter of an application to 0 when it starts it.
- Subscribing and unsubscribing have no effect the second time, and leave what
  is already in the pipe there. A full pipe drops messages.
- The wakeup timeout and the delay before a reset together are shorter than the
  watchdog's timeout (default_hs_internal_cfg.h:78-86 says so of the timeout; the
  defaults are 1200, 50 and 10000 ms), the rest of a cycle takes no time, and
  `HS_POST_PROCESSING_DELAY` is 0, its default.

- `HS_CPU_UTILIZATION_CYCLES_PER_INTERVAL` is not 0 (`IntervalAssumption`), and no
  reading times `HS_CPU_UTILIZATION_MAX` exceeds 32 bits (`ScaleAssumption`), which
  a maximum of up to 65537 guarantees. hs_verify.h checks neither: an interval of
  0 would wrap the cycle counter, a larger maximum the scaling (hs_sysmon.c:160).
- The Event Monitor Table, once loaded, is not lost (`EventTableIsKept`):
  housekeeping follows its pointer without a check (hs_cmds.c:87), and what the
  pointer is then depends on Table Services.
- A generated EDS dispatcher reports an unknown message, an unknown code and a
  wrong length with a status of its own each.

HSApp keeps the Event Monitor's subscription as one bit, as resets need only to
know whether events arrive; the half-way cases are in HSEventMon. Counters that
only appear in telemetry are in HSCmd alone, which in turn sees the monitors
only through the counts and states they change.

## 3. What TLC checks

| Run | Shows | Instance |
|---|---|---|
| `app_budget` | `NoUncountedReset`, `ResetsLimited`, `CDSMirrors`, and that HSApp implements `ResetBudget`, under restarts, torn copies, damage and all failures but those that keep the count out of the CDS | words 0..3; default limit 1, limits 0 and 2 by command |
| `app_watchdog` | `WatchdogSparesHealthyHS`, `AttemptIsFinal`; `AttemptEndsInReset`, a liveness property | watchdog 4 ticks, wakeup timeout 2, delay 1, so that a cycle needs all but one of the ticks |
| `appmon` | `EnablesMatch`, `ActsOnce`, `ChecksLoadedTable`, `SilenceDetected`, `CooldownExact`, `ActsOnlyOnSilence`, `MessagesSpaced` | 2 applications, 3 tables of 2 entries, timeouts to 2, one message with a cooldown of 2, counters to 2 |
| `appmon_live` | `SilentAppActedOn` (liveness), with restarts, wrapping counters and failing calls | 1 application, counters to 1 |
| `eventmon` | `EnabledMonitorHearsShort`, `MonitorsLoadedTable`, `FreshWhileEnabled`, `DrainShortens`; `DrainEnds` (liveness), with every call failing | 2 events, 4 tables of 2 entries, a pipe of 2, at most 2 events of others a cycle |
| `util` | `HogReported`, `HoggingNoticed`, and that HSUtil implements `UtilWindow` | a window of 3 intervals, an average of 2, levels 0 to 3 of which 2 hog, 2 hogging intervals to a report, 2 cycles to an interval; readings that fail, a device that is not there, one that says twice what it may |
| `cmd` | `EveryCommandCounted`, `OnlyExecutedCommandsAct`, `CountsOfLoadedTable`, `UnknownTypesAreTruncated`, `OutageReported` | counters that wrap after 2, 2 execution counters, 4 images of their table of which validation rejects 2, 1 monitored event; files that do not load, tables that are lost |

Each of `app_budget`, `appmon`, `eventmon`, `util` and `cmd` checks one type
invariant too.
Five more runs end in a counterexample; they are the findings of section 5.

**Why the bounds are enough.** Words of two bits distinguish a count, its
complement, zero and a damaged value, and let a limit be below, at and above the
count. The histories saturate just above the largest value they are compared
with, so that they bound no behaviour. Two entries give every pair: the same
application twice (restart first, then reset, as the user's guide suggests), two
applications that share a message, an entry in use beside an unused one. With
timeouts of 1 and 2, an entry can expire at its first check or be counted down;
with a cooldown of 2, a message is blocked, then free. A pipe of two can
overflow, and holds an event of others beside one of HS's own. The tables that
validation rejects are in the instances to be filtered out by the modelled
validator. Limits on the execution counter (`MaxExecution`) and on events a
cycle (`EventLoad`) do bound behaviours: an application runs at most
`MaxExecution` times after each start where counters do not wrap, which is
enough for several checks to find it running, and then silent. An average of 2
slots of 3 wraps around the end at one index and not at the others, and an index
at each of its values meets a failed reading. The hogging count saturates above its
timeout (`MaxHoggingTime`), where the code compares with the timeout alone; a
32-bit counter would take centuries to come round. `cmd` leaves the two counts of
what the monitors did at 0 (`MaxActivity`), as no property is about them, and has
words of one bit in the CDS (`MaxWord`): the commands can still change both. Two
images have resource types that differ from known ones in their upper 16 bits,
in use and not in use. The theorems of
section 4 hold for any number of entries, any tables, any word size and any
value of these bounds, those about HSCmd and HSUtil for any configuration
that the assumptions allow.

**Fairness.** `WF(HSNext)` and `WF(HSStep)`: HS is woken by a message or by its
timeout, and the scheduler runs it to the end of its cycle. `SF(Tick \/
WatchdogExpires)` in HSApp: HS goes round its loop only as time passes. Weak
fairness would not say so, since between two waits no tick is possible. Nothing
forces commands, faults, other applications or resets, so the liveness
properties hold whatever these do.

**Tables that feed themselves.** `DrainEnds` and `DrainShortens` are about tables
that do not make HS act, at once or over several events, on the events of its own
actions. `MCHSEventMon` has a table that reacts to the event HS sends when the
limit of resets is reached, which another entry of it causes, and one that reacts
to the event of a message: each ends, though together they would make a circle.
Its ranks are 2 for the events of the application, 1 for events of HS the table
reacts to and 0 for its others, and TLC evaluates `RanksDescend` of them. A table
in which an action is taken on an event it sends itself has no such ranks, and its
loop may go on until the watchdog expires. The hazard of the loop says so; it is
not a finding, as no document excludes such a table.

## 4. What is proved

The theorems hold for every value of the constants the named assumptions of
the modules allow. TLAPS checks all of them.

**HSAppProofs.** `TypeCorrect` rests on `TypeInv`: a working CDS has a block. It
shows that a count never overflows, as `ProcReset` only counts below a limit
that is itself a word. The other theorems rest on `CountInv`:

- while HS counts, its working copy is sound: both complements match, the count
  includes every reset performed and is within some limit HS was given, and the
  limit is one of those (`DataSound`);
- each *half* of the block (count or limit, with its complement) that looks sound
  equals that of the working copy (`HalvesMirror`), and holds a count within, or
  one of, the limits HS was given (`BlockSound`). Halves, because a copy may be
  cut short between them: a torn block may hold a sound new count and a damaged
  limit, or the reverse, and the next damaged word must still not make it pass;
- while HS does not count, an intact block includes every reset performed, and
  without one HS will count from 0 (`BlockCounts`);
- a pending reset is counted and not yet performed (`ResetCounted`).

`NoUncountedReset` alone is not inductive: it says nothing of a damaged block
beside a sound working copy. From `CountInv` follow `NoResetUncounted`,
`ResetsAreLimited` and `CDSIsMirrored`, all under the hypothesis that copies to
the CDS succeed. `BudgetIsImplemented` shows in addition that each step of
HSApp is a step of `ResetBudget` or a stutter, for a CDS that can also be
registered (`KeptInv`).

The watchdog has two invariants of its own. `HealthyHSIsSpared` rests on
`ServedInv`: at each place in the cycle, the watchdog has at least the ticks left
that HS may still spend before it serves it. That needs initialization to have
succeeded: an HS whose initialization failed (finding 2) enters its loop with
whatever is left of the watchdog. `StartedInv` says what start-up leaves behind: an
HS in its loop has waited for the end of startup, and one in its loop or gone from
it has a watchdog that runs. From it follow `GivingUpIsFinal` (an HS that
attempted a reset or exited stays so, its watchdog running out, until HS starts
anew: what `AttemptEndsInReset` needs apart from fairness) and
`MonitoringFollowsStartup`: if no call after the CDS fails during initialization
(`LateInitFaults`), no application is monitored before the end of startup. That
makes the cause of finding 2 exact. Both name the failures they exclude;
`GivingUpIsFinal` also that of `CFE_EVS_Register`, after which HS exits before it
has started the watchdog.

**HSMsgActsProofs.** `MATInvariant` gives each cooldown as a function of the history:
what is left of the spacing the message was last sent with (`MATInv`);
`CooldownsAreExact` and `MessagesAreSpaced` follow.

**HSAppMonProofs.** `AppMonSendsAsSpecified`: every behaviour of HSAppMon is one of
HSMsgActs, so that the theorems above hold of it. `AMInvariant` is the
conjunction of `MATInv`, `MonInv` (per entry: armed exactly if its enable bit is
set, the countdown within the table's timeout, at most one action, and none
while armed), `PlaceTypes` and `ChecksLoadedTable`. From it follow
`AppMonTypeCorrect`, `EnableBitsMatch`, `EntriesActOnce` and
`OnlyLoadedTablesChecked`, with any faults. `SilenceIsDetected` needs `LateInv`,
which relates the checks that found an application silent to its countdown, and
says that a counter which differs from the remembered one although the
application did not run belongs to an entry just armed: the one check that the
timeout may be exceeded by. It is proved without restarts of applications and
failing calls of ES;
counters may wrap. `ActionsOnlyOnSilence` needs `EarlyInv`, the converse (which
needs counters to grow), and no fault at all; finding 3 shows why.

**HSUtilProofs.** `HoggingIsReported` and `HoggingIsNoticed` rest on `HogInv`, which
says of the code's counter what neither property says: it exceeds k exactly when the
latest k + 1 known readings all hogged, and it has reached the timeout exactly when
the event was sent in the current run. The second theorem needs the phase of the
cycle counter besides: the cycles that hogged are at most those of the counted
intervals and of the one under way. That is arithmetic over products of constants,
which two lemmas (`OneMoreTimes`, `TimesGrows`) take out of the solver's hands. Of
the ring buffer, for every size and position of its index: `AveragedSlotsAreNewest`,
the slots that the two loops add up are the newest ones; `BufferIsKept`, the index
stays in the buffer and no reading is above the maximum; `ReadingsShiftWindow`, read
newest first, the buffer is shifted by one interval by each reading, and a reading
that fails makes the oldest slot the newest. They rest on one lemma about `%`
(`NewestSlots`). With the lemmas on sums they give `AverageIsLevel`, that an average
of readings is a possible reading, `UtilTypeCorrect`, and `WindowIsImplemented`:
every step of HSUtil is a step of `UtilWindow`. `LatestInv` connects the two: each
of the latest intervals that was measured is still what its slot holds. The sum over
slots is the sum over the window as renaming the slots by their age changes no term
(`SumRenamed`).

**SumProofs.** What the provers have to know of `SumFunctionOnSet`, by which the
models add up slots and costs: that its recursion has a solution (`SumIsDefined`),
that the order of the elements does not matter (`SumWithout`), and from these the
sums of parts, bounds, monotony and renaming. The induction over finite sets is by
the least counterexample (`LeastSubset`).

**HSCmdProofs.** Every property of the run `cmd` is a theorem.

- `CommandsAreCounted`: `CountInv`, that the sum of two counters of the same width
  is the number of commands modulo that width, is kept by a wrap of either
  (`Wrapped`, `Counted`, `OneMore`); `MessageEffect` says of both dispatchers which
  messages count, and how.
- `RefusedCommandsChangeNothing`: from `CommandEffect`, the same for the handlers.
- `OutagesAreReported` and `CountsAreOfLoadedTable`: `LoadedInv`, that the flag of a
  table is down exactly while HS has no address for it, and that it was told.
- `OnlyTruncatedTypesPass`: what is in memory is always the empty image, a default
  table or an image that passed validation (`AcceptedStep`). The validator
  returns the result of the first bad entry, the least of a set of indices, whose
  existence is the well-foundedness of the naturals.
- `DefaultTablesAreValid`: the tables that come with HS pass its validators, for any
  number of entries.
- `CmdTypeCorrect`: one lemma for each group of variables.

**HSEventMonProofs.** `EventMonSendsAsSpecified` is for the Event Monitor what
`AppMonSendsAsSpecified` is for the other. `StateInv` says where the monitor may be
in each state, and that an enabled one is subscribed to short events: of two calls
the code makes the short one last when it enables and stops at the first failure
when it disables. It gives `EnabledMonitorHearsShortEvents` and
`EventsMeetLoadedTable` with any faults; `HearsUnlessUnsubscribeFails` needs that
calls to unsubscribe succeed, and finding 5 shows why. `EventsAreFresh` needs
`FreshInv`, as how old an event in the pipe may be depends on where HS is
(`Oldest`): until the monitor has emptied the pipe, any age; from then on one cycle
while applications are monitored and events are taken, and none elsewhere. It holds
for any depth and load, and `EventMonTypeCorrect` follows from both.

**HSEventDrainProofs.** `DrainsInBoundedWork`: with tables that do not feed
themselves (`RanksDescend`), each step of HS in the drain loop leaves less `Work`,
a natural number, and an event that another task sends adds no more than its own
cost. An action on an entry puts in the pipe no more than the entry's part of the
work (`OwnWork`, `MonitorEventWork`), less if the pipe is full; `LoopInv` says that
HS starts every event at the first entry. The costs are where the ranks come in:
an action sends at most two events (`FewBrought`), so that costs which grow by a
factor of twice the entries and two with each rank exceed the work of comparing an
event with all entries (`CostsCover`). This is what `DrainEnds` needs apart from
fairness and a bound on what other tasks send, for any number of entries, any
depth of the pipe and any calls failing.

**Model-checked only.** The liveness properties (`AttemptEndsInReset`,
`SilentAppActedOn`, `DrainEnds`), as TLAPS does not reason about fairness and
`ENABLED`. The safety half of each is proved: `GivingUpIsFinal`,
`SilenceIsDetected` and `DrainsInBoundedWork`. Every other property of a passing
run is stated by a theorem.

## 5. Findings

1. `app_copy_fails`: `HS_SetCDSData` ignores the status of the copy. If copies
   fail, HS resets the processor without limit, each time from the same count.
2. `app_init_fails`: when `HS_AppInit` fails late, HS still enters its loop, and
   monitors applications without having waited for the end of start-up.
3. `appmon_restart`: an application that restarts and whose counter is back at
   the value last seen is taken to be silent, and acted on.
4. `eventmon_stale`: events left in the pipe of a disabled monitor are acted on
   when it is enabled again, however much later.
5. `eventmon_deaf`: a disable command whose second call fails leaves the monitor
   enabled, without long events, and a later enable command does not help.

Each disagrees with a statement of the user's guide or the requirements that
`PROJECT.json` quotes. That a count kept without a CDS is forgotten at each
restart is documented (cfs_hs.dox:206-207), and no finding.

Two more disagreements need no run to show them:

- Averages and peaks are "over the last N intervals" (cfs_hs.dox:348-350, HS6008 and
  HS6009 in hs_FunctionalRequirements.csv:61-62). A reading that fails moves the
  index on without writing its slot (hs_monitors.c:391-396), so that the oldest
  measurement of the buffer, which is of none of the last N intervals any more,
  counts in the place of the failed one. `ReadingsShiftWindow` proves it. The abstract
  window does not ask otherwise, so that `ImplementsWindow` and `WindowIsImplemented`
  say what holds in spite of it: measured intervals count right, and the failed one
  is forgotten once enough later ones were measured.
- A disable command "shall stop monitoring CPU utilization" (HS6012,
  hs_FunctionalRequirements.csv:65). The code stops the reports of hogging only, as
  default_hs_fcncodes.h:394-395 says; utilization is measured all the same.

Two places are worth a reader's attention although no document excludes what the
code does. A reading that fails neither counts towards hogging nor breaks a run
(`HogReported`). And the validator of the execution counter table reads a 32-bit
resource type as 16 bits (hs_monitors.c:645), so that unknown types may pass;
housekeeping shows no count of such an entry (`UnknownTypesAreTruncated`).

## 6. Not modelled

- Of housekeeping, the copies of the enable bits and of the utilization values,
  which are assignments; of aliveness, the text it prints.
- `HS_SysMonCleanup`, which stops the device as HS exits, and
  `HS_POST_PROCESSING_DELAY`, a delay of 0 by default.
- Of start-up, the deletion of pipes; the text of all events, and the counts of
  good, bad and unused entries in those of the validators.
- The check of the mission revision in hs_verify.h.
- The unit tests and their stubs, which are not flight code, and the documents.

## 7. Plan

Done, in this order because a wrong reset costs most: HSApp with its budget and
proofs, HSMsgActs with proofs, HSAppMon with proofs, HSEventMon, HSUtil with its
window and proofs, HSCmd with proofs; then the proofs of HSEventMon, of the watchdog
and of the ring buffer; then sums, with them the window and the types of HSUtil, and
the drain loop.

Left is `HSCycle`: the order of `HS_ProcessMain` with both monitors and the shared
messages in one module, refining HSMsgActs. Its parts are proved: each monitor
keeps what HSMsgActs says of messages whatever the other one sends.
