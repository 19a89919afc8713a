# logscanner in TLA+

logscanner tails log files, matches every line against the regular expressions of
that log, keeps the hits in SQL tables and blocks the addresses that deserve it with
iptables.  It is some fifteen kinds of threads that hand each other work through
condition variables, semaphores, barriers, files and tables, and it must go on where it
was when it is stopped or killed.  This directory holds TLA+ models of that machinery,
the configurations with which TLC checks them and proofs that TLAPS checks.

All references are to files under `src/`; `PROJECT.json` maps every definition to the
lines it models.

## 1. Inventory

How a line becomes a rule:

    log file -> reading thread -> belt -> processing thread -> regexp threads
             -> SQL files -> execSqlInsert -> T010_Eval -> evalThread -+
                                           -> T030_Drop <--------------+
                                              T030_Drop -> dropThread -> iptables

| component (source) | state it keeps | operations | what is hard | what makes it correct |
|---|---|---|---|---|
| **Conveyor belt** (`ConveyorBelt.cpp`) | queue of lines, queue guard, two semaphores, a condition variable | `deliverToProcThreads`, `acceptFromReadThread`, `shutDown`, `notifyExit` | one producer, n consumers; wait under a private mutex; size read without the guard; shut-down counts threads | no line lost, doubled or reordered; shut-down leaves nobody and nothing behind |
| **Notifications** (`NotifyEvent.cpp`) | an atomic flag, a condition variable, a link to the next event | `notifyNew`, `wait4NotifyNew`, `recordsPending`, `forwardNotify` | flag tested and waited for under a private mutex; cleared twice | what was notified is worked on |
| **SQL spool** (`LogScanner.cpp:1292`, `1867`-`2099`) | files `run/sql/<table>/*.tmp`, `*.txt`, `run/sql_err` | the five `insertInto*Table`, `execSqlInsert` | files appear during the scan; SQL errors; crash between execution and removal | nothing published is lost; repeated only by a crash |
| **Log files and control files** (`ConfContainer.cpp`, `LogScanner.cpp:1399`-`1540`) | two stream positions, the last positions written, control files under `run/ctrl` | `initReadLogThread`, `fileHasBackLog`, `getNextLogLine`, `getCatchupLine`, `writePosOf...` | two readers of one file, written positions of many threads, crash anywhere, restart on whatever files are left | each line processed once in a run and never skipped between runs |
| **Regexp pool** (`LogScanner.cpp:1542`-`1683`, `Workarea.cpp`) | the line behind a pointer, match count, address, whitelist flag, result slots | `processingThread`, `regexpExecThread`, `saveIPaddreess` | a barrier used twice per line; everything else shared without a lock | a line gets the rows its matches call for before it is recorded as seen |
| **Drop thread** (`LogScanner.cpp:1202`, `bin/install-new-rules.sh`) | `Status` N, P, D of `T030_Drop`; rule files, flags, `run/tmp`, the kernel's rules | `dropThread`, the script | rows arriving between statements; failing script; crash between marks | a row marked D is dropped |
| **Evaluation thread** (`LogScanner.cpp:1033`, `1685`) | `T010_Eval`, `T040_Hist`, the lists of addresses of one round | `evalThread`, `chkEvalRegexps`, `execBatchSQL` | three statements without a transaction while rows arrive; arithmetic on seconds | a hit is in Eval, in Hist or too old; Hist names the drop it led to; who hits too often is dropped |
| **Inotify monitors** (`INotifyObj.cpp`) | static multimap path -> owner, a mutex, the outcome of each owner | `monitorNewLineThread`, `monitor4RenameThread`, `intfThread`, `releaseAllMonitorsFor` | test and wait under private mutexes; an outcome set between the two; registration after the final release | an event that finds its monitor registered wakes it; at the end nobody is left waiting |
| **Lump containers** (`LumpContainer.cpp`) | the component logs, a thread for each, a counter, a result flag, control files | `initReadLogThread`, `feedLumpLogFile`, `stopReadLogThread` | counter and wait under a private mutex; failed starts, renames, restarts | each line of each component reaches LUMP once and in order |
| **Start and shut-down** (`LogScanner.cpp:78`, `924`, `main.cpp:18`) | `m_state`, `KEEP_LOOPING`, the exit flag file, the joins | constructor, `exec`, `inptThread`, `commThread`, `signalHandler` | the order of joins and releases; a handler that locks, or comes before its time | the program ends after it is told to, and starts on nothing unsound |
| **Line and address helpers** (`LogScanner.cpp:1773`, `1836`, `2155`, `2188`) | none | `lineTimestamp2Seconds`, `checkForWhitelist`, `storeIPaddrInArray`, `fullTrimmedLine` | boundaries | agree with their definition |
| **Configuration** (`LogScanner.cpp:195`-`860`, `LumpContainer.cpp:30`) | items of each file, the containers | `loadAndParseConfFiles`, `parseConfOf`, `uploadConfiguration`, `uploadWhitelistedIPs`, `uploadEvalRegexps` | items and regexps are counted while duplicates are refused | only complete and consistent files are accepted |
| **Logging** (`LogManager.cpp`) | two mutexes | `consoleMsg`, `logEvent` | only the signal handler's use of it | - |

`PROJECT.json` "hazards" lists, line by line, what can go wrong in them.

## 2. Plan

Done, in this order:

1. `LineHandoff`, `ConveyorBelt`: every line goes through them.  With proofs.
2. `NotifyEvent`, `SqlSpool`: every row goes through them.  With proofs.
3. `LogFileCtrl`: what a crash costs.  With proofs.
4. `RegexpPool`: the decision about a line.  With proofs.
5. `DropThread`.  With proofs.
6. `EvalThread`: the decision about an address.  With proofs.
7. `InotifyMonitors`, and `Program` on top of it with `Configuration`: does the program start soundly, does it end?  With proofs.
8. `LumpFeed`: several logs as one.  With proofs.

Left:

9. `Pipeline`: spool, evaluation and drop composed over the `NotifyEvent`s that link them (abstract specification: an
   address's rows are in exactly one of Eval and Hist).  Each of the three is checked against the others' inputs in any order, so the
   composition would add the chain of notifications only.
10. `LogFileCtrl` and `LumpFeed` on top of `InotifyMonitors`, in place of their one-step monitors.
11. What the control files of first lines hold (`LumpFeed` has the threads that wait for first lines), and two components in `lump_feed`.
12. Proofs that nothing else can stand still, as there are for the belt, the pool, the lump containers and the shut-down, for
    the threads that wait on a `NotifyEvent` (spool, evaluation, drop) and for `LogFileCtrl`; `InotifyMonitors` for any number of owners.
13. Further abstract specifications to implement: a ledger of hits for `EvalThread`, an executor that repeats for `SqlSpool`.

## 3. Modules

**`LineHandoff`** - the abstract belt: a sequence of lines in transit, a set in each thread's hands, a bound on what is
in transit.  `ConveyorBelt` implements it (`ImplementsHandoff`, checked and proved).

**`ConveyorBelt`** - one reading thread and the processing threads of one belt.  `rpc` is the reading thread's place
in `deliverToProcThreads`/`shutDown`, `cpc` that of each processing thread in `acceptFromReadThread`; `buffer` is
`m_lineBuffer`, `guard` `m_queueGuard`, `loopSem` and `exitSem` the semaphores.  One step per access to shared state.
Between EXIT and `notifyExit()` a thread has to pass its pool's barrier (`LogScanner.cpp:1583`), which may never fill:
`LeavePool` leads to the acknowledgement or to the place `stuck`, and `RegexpPool` has the reason (`pool_exit`).
`TornSize` says whether `size()`, read without the guard, may return a value of the middle of a `pop()`: with
`FALSE` it returns the length before or after.  `hist` holds history variables (what was processed, in what order).

**`NotifyEvent`** - the class as a module of two variables, the flag and the place of the waiting thread; instantiated
by `SqlSpool`, `EvalThread`, `DropThread` and `Program`.  The store and the `notify_one` of `notifyNew()` are one
step: what another step between them adds is a wake-up without a reason, which `SpuriousWakeup` has already.

**`SqlSpool`** - the directory of one table.  `WriteTmp`, `Publish` and `NotifySpool` are the three effects of an
`insertInto*Table`; the thread's loop is one action per file operation, statement and flag access.  `toVisit` holds what the directory
iterator still owes; files that appear later may be returned or not.  `Crash` forgets all but the disk and the table.

**`LogFileCtrl`** - one log with its live reader, its catch-up reader, the lines their belts and threads hold
(`busy`, `done`) and the four kinds of control files.  `StartUp` is `fileHasBackLog()` with a step for each file it
writes, so that a crash may come between any two; a control file that is being written when the process dies is
truncated and reads as 0.  A processing thread writes the position it reads and reads it again for what it compares with
next time (`WriteLive`, `StoreLive`), with the reader moving it in between.  A reader that finds its belt full may fall asleep with its line
for as long as nothing wakes it (`FullBelt`; `ConveyorBelt` has the reason).  Positions are counted in complete lines.  `refreshCtrlValOf()` dereferences `end()`:
the two outcomes modelled are an empty name (the loop turns for ever) and the death of the process.

**`RegexpPool`** - a processing thread with its regexp threads.  The barrier is the action `Release`; each field of
the Workarea is written in a step of its own, the increment of the count in two.  A read of the line while it
is being replaced returns the old or the new one.  The position that `writePosOfNextLogline2Read()` writes is
the reader's: of it this module has only that a thread writes one, `LogFileCtrl` has the rest.  `m_whitelisted` starts with either value, since the constructor leaves it alone.

**`EvalThread`** - `T010_Eval` and `T040_Hist` as sets of rows with the timestamp they bear now, `evalThread`'s round
over the groups of the SELECT, and the statements of `execBatchSQL` as actions of their own (`Stamp`, `Copy`, `Delete`).
The spool's thread inserts rows in any order between any two steps.  `BatchFails` ends the batch at any statement: an SQL
exception, or a connector that refuses several statements in one text.  `StrayNotify` stands for
`notyfyAfterInsert`, which is read uninitialised (`LogScanner.cpp:873`-`885`): the event may be notified for no row.
Whether an expression finds something in a line, and what, is a constant of the row (`text`).

**`DropThread`** - `T030_Drop` (one row per address, by its unique index), the thread's three statements, the rule
file and its flag, and the script as three steps (clean `run/tmp`, move the flagged files, restore).  `Enabled` says
whether the operator has taken the words "DELETE BEFORE EXEC" out of the script's line 61; as committed,
the line is a comment and no rule is ever installed.

**`InotifyMonitors`** - the owners that register, test their outcome and wait, and `intfThread` that reads events, sets
outcomes and notifies.  Setting an outcome and notifying its owner are two steps (`SetOutcome`, `NotifyOwner`),
because owners look at the outcome without the mutex the notifier holds.  It knows nothing of the rest of the program; `Program`
instantiates it.

**`Configuration`** - no variables: parsing and uploading as operators on lines and files.  A file is a sequence of
lines (an item with its value, a regexp, a comment), a directory a set of files; `Upload` folds over them as
`loadAndParseConfFiles()` and `uploadConfiguration()` iterate, counters included; `SoundConf` is what the comments in the
configuration files ask for.

**`Program`** - the constructor as a step per early return, `exec()` as a step per start and join, `commThread`, the
signal handler in whatever thread it interrupts (`victim`), `intfThread` of `InotifyMonitors`, one reading thread as its
owner and one table thread on a `NotifyEvent`.  What the calls of the reading thread do is in the modules of those calls; here each of them
returns or hangs as they say it can (`InitReadLog`, `ReadLog`, `StopReading`), so that a hang of a belt, a pool or a lump
container is one of the program.  The rename monitor, which `intfThread` frees at its end, is in the guard of `StopReading`.  `commThread` has a place for each
blocking call and each message it prints, since the handler may interrupt it there.  `told` is history: how the program was told to end.

**`LumpFeed`** - the feeders of a lump container (`fpc`, with their place in their file, `source`),
`logReadingThread` as far as it starts and stops them (`main`), the LUMP file as a count per line, renames and new files.
A file that is empty when `initReadLogThread()` comes to it gets a thread that waits for its first line: `new` counts those that have not
registered their monitor, `waited` holds the files for which others have.  A component that is absent then throws out of `logReadingThread`
and the process dies (`ComponentGone`); it may also crash anywhere, and is started again when all components are there.
Its monitors are one step each; what can go wrong inside them is in `InotifyMonitors`.

The `MC*` modules give the constants their values; the `*_proofs` modules hold theorems.

## 4. Runs

| run | instance | shows |
|---|---|---|
| `belt` | 3 threads, 5 lines, fair | no line lost, doubled or reordered, every line delivered is processed, `shutDown()` returns, unless a pool is stuck at its barrier, and is complete; the belt implements `LineHandoff`; the inductive invariant of the proofs |
| `belt_wakeup` | 2 threads, the same lines | **fails**: the notification between the test and the wait is lost and the reading thread sleeps on an empty belt |
| `spool_crash` | 3 statements, 2 writers, 2 crashes, any statement may be refused | nothing lost, repeated only by crashes, timely notifications worked off |
| `spool_lone` | 2 statements, no crash | **fails**: a notification with none behind it is cleared before it is looked for |
| `filectl_restart` | 3 lines, 3 starts, 1 crash, a rotation | both readers keep to their parts, positions never go back, a crash costs only lines in flight, lines of a running reader are processed unless it sleeps on a lost wake-up |
| `pool_rows` | 2 regexps, one of severity 0; 2 lines of five kinds | what the two barriers do protect: the seen row is true and final, rows precede it, single matches are exact |
| `pool_exit` | the same, 1 line | **fails**: a slow regexp thread leaves at EXIT and the barrier never fills |
| `drop_rules` | 2 addresses, 1 failure, 1 crash | no address is marked D and left open; a new row that is notified in time is worked off |
| `eval_rows` | 6 hits of 2 addresses in any order, 1 failure or crash | what becomes of a hit, who is dropped, and on which grounds |
| `lump_feed` | 1 component, 2 lines, 1 rename, 3 calls of `initReadLogThread()`, 1 crash or death with a restart | LUMP has each line once and in order but for two named ways to repeat it; the calls return, or the process dies, but for three named hangs |
| `lump_rename` | 2 components, 1 call | **fails**: after a rename the feeders leave and the reading thread waits in LUMP for a line nobody writes |
| `program` | every configuration of a few lines | only a sound configuration starts; told to end, the program ends but for the hangs that `Hangs` names; a line whose monitor is registered is read |

The runs that fail contradict a line of the repository, quoted at the property and in `PROJECT.json` "findings".

Other disagreements between the code and its comments show in the modules as they stand, without a run of their own.
The position written is the reader's (`ConfContainer.cpp:549`), so after a crash the lines in flight are skipped:
`OnlyInFlightBelow` says that no others are.  A backlog that was interrupted is not resumed on a log that has not grown since
(`ConfContainer.cpp:377`).  The Audit row of a line that several regexps match may be missing, because the count is read
after the second barrier, when the processing thread may have cleared it (`doc/README.txt:60` promises the
row).  The comment "AT LEAST 3 bytes" (`LogScanner.cpp:572`) stands at a test that asks for 4.

**Why the bounds are enough.**  Belt: the queue is as long as there are threads, so three threads and five lines fill it,
block the reader and drain it; lines differ only by number.  Spool: two statements can be told apart by the order in which they are
found, the third arrives behind the iterator; two crashes are needed for a repeated statement to meet a second crash.
Control files: the first start makes the backlog, the second finds it interrupted, the third finds what the second left (a second
segment, a control file without its partner); three lines let one be processed, one in flight and one unread.
Pool: races need two regexps that match one line; the second line shows what leaks from the first.
Drop: two rows can be in different states; the failure and the crash are each needed once, their second occurrence starts
from states the first one has reached.
Evaluation: address `a` has hits fast enough, too slow and too old for the window, address `b` repeated lines and two hits in one second;
with two addresses a round drops one and ages the other; one mishap leaves a move half done and the next round finds it.
Lump: a line comes to LUMP twice when the first call fails, the second starts a feeder and fails because the flag is never set again,
and the third starts another, so three calls are needed; two lines for their order; two files and two lives are one rename and one crash.
What is said of lines is said of one component at a time.  The count waits for one feeder here; for several of them
there are the theorems, which hold for any number of components: two components with two calls and a crash already have two million states.
Program: the configuration files are all those of four lines (items, a second regexp, malformed lines, comments), four being
the smallest complete file, every good one with a line more, for late duplicates, and a sound tree of files with one fault in
each other place.  There is one thread for each kind of join.  The bound on signals (a second one only when the first is forgotten) is named at `Signal`.

**Fairness.**  Weak fairness of the steps of a running thread, because the code's threads are kernel threads that are
never suspended; no strong fairness anywhere.  Nobody is obliged to append lines, to
insert rows, to send a signal or a message, to rename a file, to stop, to crash, or to wake a thread without a reason.

**Deadlock** is unchecked in `pool_*`, `lump_*` and `program` only, because the program really may stop there: the
processing thread returns or gets stuck at the barrier, feeders leave and the reading thread waits, and the signal
handler may wait for the mutex of `consoleMsg()` that the thread under it holds.

**What the liveness properties do not promise.**  Where the code loses a wake-up,
the properties that hold are stated for work that is notified in time: `DeliveredIsProcessed` is about a
line *on the belt*; `PendingIsWorkedOff`, `NewIsWorkedOff` and `OffenderIsDropped` are about rows notified between the
thread's wake-up and its next look at the flag; `WatchedIsRead` excludes the line added
between end of file and registration (the comment at `LogScanner.cpp:1461` accepts that one).

Others except a hang that a run shows, or that a module beside theirs has.  `LinesAreProcessed` and `WatchedIsRead` except a reading
thread that sleeps in `deliverToProcThreads()` (`belt_wakeup`); `ShutDownReturns` a pool that is stuck at its barrier (`pool_exit`);
`CallsReturn` a process that died and `LostNotify` (the last feeder notifies between test and wait), `Behind` (a monitor registered
after the release) and `Unreleased` (a thread that waits for LUMP's first line, joined before its release); `EndsWhenTold` the ways of `Hangs`, those of the
reading thread's calls among them.

## 5. Proofs

All proofs are for every value of the constants that the named assumption of the component's module allows.  In each
of them an invariant `IndInv` holds initially (`InitInv`), is preserved by every action (one lemma per action that
disturbs it, one for all those that do not) and implies the properties.

**Who waits for whom.**  Liveness itself is out of the prover's reach, and so is `ENABLED`; the half of it that is a matter
of states is not.  For each thread the guards of its actions are spelled out (`ReaderCan`, `ExecCan`, ...: exactly the guards
of the actions for which `FairSpec` states fairness), and a theorem says in which states none of the threads can go on:

| theorem | when nobody can go on |
|---|---|
| `TwoWaysToStandStill` (belt) | every line delivered is processed; the reading thread has nothing to read, has returned, has lost the wake-up it sleeps for (in `shutDown()` only after a torn `size()`), or waits in `shutDown()` for a thread that is stuck at its pool's barrier |
| `OnlyExitCanHang` (pool) | every line taken is seen; the pool waits for a line, has returned with all its threads gone, or one of them left at EXIT before the barrier |
| `CallsHangAsNamed` (lump) | the process has died, `logReadingThread` waits for a line in LUMP, it is in `LostNotify`, `Behind` or `Unreleased`, or the last call that the bound allows has failed |
| `HangsAreKnown` (program) | told to end, the program has ended or is in one of `Hangs`; which calls of the reading thread can hang is taken from the three theorems above |

Each needs a small invariant of its own on top of `IndInv`: what the one who sleeps is waiting for is still to come
(`DrainedFirst`, `Leaving`, `CallsHold`, and `ToldIsTrue` with `Joined` in the program).  The violation runs show that the hangs that
remain do happen.

**`ConveyorBelt_proofs`** (from `BeltAssumption`: finitely many threads, a queue bound equal to their number; for both
values of `TornSize`, while the run takes `FALSE`).
`BeltTypes`, `BeltBalanced` (semaphore and capacity), `BeltFaithful` (order) and `ShutDownIsComplete`;
`BeltRefinesHandoff` says that each step of the belt is a step of `LineHandoff` or changes nothing there.  No
property is inductive alone.  That a thread which got past the loop semaphore finds a line (`SemaphoreBalance`) counts posts against
lines and against the threads between wait and pop; it needs that the guard has one owner, who copies the front
(`GuardOwned`).  The bound (`WithinCapacity`) holds in spite of the unlocked `size()` because only the reading thread
adds: between its test and its push the queue can only shrink (the last conjunct of `ReaderPhase`, which also admits the
torn value read during a pop).  `TakenOnce` needs that the lines on the belt are the numbers `popped + 1 .. sent` in
order (`InOrder`).  Shut-down needs that at most one EXIT is under way and that each acknowledgement has
sent one thread home (`ExitBalance`), that EXIT is behind every line (`ExitIsLast`) and where the reading thread may be
(`ReaderPhase`); `LineAtStep` says what a thread holds at each step.  `belt` checks `IndInv` as an invariant.

**`SqlSpool_proofs`** (from `SpoolAssumption` and `NoRecordAssumption`: finitely many statements).  `SpoolLosesNothing`,
`SpoolOnePlace`, `SpoolRepeatsByCrash`.  A writer owns its `.tmp` file (`WriterOwns`), a file has one name at a time
(`OneName`), the open file is in the directory and executed before it is removed (`OpenFile`); `OncePerFind` bounds the
executions of a file that is still there by the number of crashes.  The total of repeated statements is not
inductive: a statement left in the directory by a crash after its execution has been executed once, and will be twice.  `Repeated`
counts those too; only `Crash` adds to it, and at most the file that was open.

**`LogFileCtrl_proofs`** (from `CtrlAssumption`).  `ReadOncePerLife`, `CrashLosesInFlight`, `SegmentIsRead` and the
action property `NeverBack`.  What earlier runs left is arbitrary but for one thing: no position in a control file is beyond the
file as this run found it (`WithinFile`); while `fileHasBackLog()` writes, nobody reads (`NotReading`).  From then on each
reader has processed or in flight exactly what it has read, the live one from the end of file found at the start
(`LiveReader`), the catch-up one below it (`CatchReader`), which is why they never meet; `ReadToEnd` says where the
catch-up reader stands when it stops, and `InLifeIsRead` that nothing was processed that nobody read.  A position is written only from lines done, so it
lies between the start of the run and the reader.

**`RegexpPool_proofs`** (from `PoolAssumption`: finitely many regexps).  `SeenTellsTruth`, `RowsBeforeSeen`,
`OneMatchIsExact`, `WhitelistNeedsTwo` and the action property `SeenIsFinal`.  The barrier, used twice per line, keeps the processing thread and the others in step (`Lockstep`): while it waits
for the second time they are all at work on the line, and otherwise none of them is, slow as it may be.  What a thread at work can rely on
although nothing is locked is `ThreadIs`; what it can rely on when no other regexp matches the line is `AloneIs`,
because then nobody else writes the Workarea.  The count is too low when increments overwrite each other but zero only if
nobody has stored (`Counts`); that is all that the seen row needs.  `OtherThreads` is the lemma behind every
step between the barriers: a thread that acts is a thread that matches, so what is claimed for a lone match
cannot be disturbed by another.

**`EvalThread_proofs`** (from `EvalAssumption`: finitely many rows).  `EvalKeepsHits`, `HistLeadsToDrop`,
`DropsNeedASpan`.  The result of the SELECT was true of rows inserted before it (`GroupsAreTrue`), so a verdict made from it stands on hits
that did come; rows in the tables are rows inserted, with stamps of drops of their own address (`RowsAreTrue`).
`MoveIsTrue` says, for each statement of a move, which rows of the address may differ from what the statement before left:
those that came in between, which are the history `raced`.  `FiniteHasMax` gives the hit that makes another one too old.
`CopiesNeedMishaps` counts: a row is at most once in Eval (`OneInEval`), and it has at most as many copies in Hist as
there were mishaps while it waits, one more once it does not (`CopiesAreTrue`; a row whose move is about to DELETE it
no longer waits). Only a failure or a crash between INSERT and DELETE makes a copied row wait again.

**`DropThread_proofs`** (from `DropAssumption`).  `DoneMeansDropped`, `RulesComeFromRows` and the action property
`OnlyOwnRound`.  The row marked D is the row selected because between the two UPDATEs nobody else makes a row P
(`RoundIsPending`); the selected addresses are followed through rule file, flag and `run/tmp` to the firewall
(`RoundIsOnItsWay`).

**`LumpFeed_proofs`** (from `LumpAssumption`: finitely many components).  `LumpTypes`, `FedOnce`.  That LUMP has no line of
a file without the one before is not inductive when several feeders copy the same file: `Ordered` counts those that
have just copied a line and will copy the next one, so that the next one can still be added as often as they are.  `Once` says
why a line is copied once although the saved position is never used: as soon as there is a control file a new feeder
copies nothing at all, as long as there is none and nobody is about to write it LUMP has no line of the component, and a feeder in its loop
finds no line ahead of it in LUMP.  It needs one feeder for a component (`Started`), which is what a second call of
`initReadLogThread()` takes away, and a line whose position was saved, which is what a death takes away.

**`Program_proofs`** (from `ProgramAssumption`: lines are of the forms `checkLine()` tells apart, and the model values for
"nobody" differ from the threads).  `ParseIsSound` is induction over the lines of a file: an induction schema cannot be
applied here, so it goes by the least number for which the claim fails (`LeastNat`, `Counting`), and the function that the
community modules' fold chooses is shown to exist and to be the loop over the lines (`FoldExists`, `FoldIsLoop`).  After each
line the result holds the date items and regexps seen so far and is bad as soon as one came twice (`Parsed`); so the count of three that
`parseConfOf()` tests is right, whatever came how often and where.  Proving it showed that two guards of a CASE in
`Configuration` overlapped for a malformed line with the key of a regexp, where TLA+ promises neither; the guard now says `item`.
`UploadIsSound` carries it to the configuration and `StartsSoundOnly` to `m_state`.

Of the threads, `IndInv` says: exec() has started all or none of them (`Places`); the reading thread is registered
or in the call exactly while it waits, and who is registered when `intfThread` has ended came too late (`Monitored`);
KEEP_LOOPING is false when somebody told the program to end, and true after the start unless somebody did
(`ToldIsTrue`, whose last part says that the flag's event is never lost on an `intfThread` that reads); who was joined has ended, for
good (`Joined`).  `ReturnsWhenAllEnded` and `HangsAreKnown` follow: nobody uses what `main()` destroys, and
the ways of `Hangs` that `EndsWhenTold` excepts are all there are, given how the reading thread's calls can hang.

Only model-checked: liveness under fairness and the liveness part of the refinement.

## 6. What is not modelled

- *Line helpers* (`storeIPaddrInArray`, `fullTrimmedLine`, `lineTimestamp2Seconds`): functions on characters without state.
  What they find in a line is a constant of the models.
- *First lines*: what their control files hold (`ValidateAndUpdateFirstLineOf`); the threads that wait for them are in `LumpFeed`.
  An empty log (case 1 of `fileHasBackLog()`).  `monitorNewLineThread()` and `monitor4RenameThread()` of `ConfContainer` have
  no return statement; only `waitForFirstLineThread` uses the value.
- *Logging*: writes nothing the program reads back; its mutex is in `Program`.  *Schema and scripts* except
  `install-new-rules.sh`; *test programs*.
- In the belt: creation of the named semaphores and the static set of their names.  In the readers: lines without an
  address (dropped before the belt), a last line without its newline, the `{TIMESTAMP}-nextCatchup2Read.ctrl`
  files once `refreshCtrlValOf()` has failed on them.  In the pool: two regexps with the same text (one thread each,
  like any two).  In the spool: two files created in the same nanosecond (`LogScanner.cpp:1815` calls it highly
  unlikely).  In `EvalThread`: `LogTmstmp` is a VARCHAR that compares in the order of its seconds.  In `Program`: SIGSEGV, a second
  signal, more than one log and one table, a rename.
- A rotation ends the process in `LogFileCtrl`, because `removeAllControlFiles()` iterates over a directory that
  does not exist, `run/ctrl<path><path>/`.
