---------------------------- MODULE LogFileCtrl ----------------------------
(***************************************************************************)
(* class ConfContainer with the two threads that read through it:          *)
(* logReadingThread follows the live end of a log, catchUpLogThread reads  *)
(* the backlog, and the control files under run/ctrl tell the next run of  *)
(* the program where to go on.  Processes die at any point, also half way  *)
(* through fileHasBackLog() and half way through writing a control file.   *)
(*                                                                         *)
(* A position is counted in complete lines: line number n is the n-th line *)
(* of the file from 0, and the offset n is where it starts.                *)
(***************************************************************************)
EXTENDS Integers, FiniteSets

CONSTANTS
    MaxLines,    \* bound: lines ever appended to the log
    FirstLines,  \* lines in the log when the program is first started
    InFlight,    \* lines a belt and its processing threads hold at most, half
                 \* of them on the belt
    MaxStarts,   \* bound: times the program is started
    MaxCrashes   \* bound: times it dies

ASSUME CtrlAssumption ==
    /\ MaxLines \in Nat /\ FirstLines \in 1 .. MaxLines
    /\ InFlight \in Nat \ {0} /\ MaxStarts \in Nat /\ MaxCrashes \in Nat

Positions == 0 .. MaxLines
LogLines  == 0 .. (MaxLines - 1)
Absent    == -1                     \* a control file that does not exist

VARIABLES
    size,       \* lines in the log file
    ctrl,       \* nextLogline2Read, fileOrSegmentEOF, nextCatchup2Read .ctrl
    segments,   \* {TIMESTAMP}-nextCatchup2Read, {TIMESTAMP}-fileOrSegmentEOF
    phase,      \* how far the program, or logReadingThread in it, has come
    stopping,   \* KEEP_LOOPING is false
    segEOF,     \* m_fileOrSegmentEOF
    live,       \* what logReadingThread and its processing threads hold
    catch,      \* the same for catchUpLogThread, when there is one
    haveSegs,   \* m_filestampFileList is not empty
    starts, crashes, rotated,
    firstEOF,   \* history: the end of file this run of the program found
    inLife      \* history: the lines this run has processed

disk == <<ctrl, segments>>
mem  == <<segEOF, live, catch, haveSegs>>
env  == <<size, starts, crashes, rotated>>
vars == <<size, ctrl, segments, phase, stopping, segEOF, live, catch, haveSegs,
          starts, crashes, rotated, firstEOF, inLife>>

\* A reader: pos is tellg(), next is m_next...2Read, last is m_last...Written,
\* busy are the lines handed to the processing threads, done those already in
\* T100_LinesSeen whose position has still to be written, hold the one whose
\* thread has written the position and still holds m_writeMutexNext....
Reader == [at : {"none", "init", "read", "asleep", "eof", "armed", "removing",
                 "spin", "done"},
           from : Positions, pos : Positions, next : Positions,
           last : Positions, busy : SUBSET LogLines, done : SUBSET LogLines,
           hold : SUBSET LogLines]

Fresh == [at |-> "none", from |-> 0, pos |-> 0, next |-> 0, last |-> 0,
          busy |-> {}, done |-> {}, hold |-> {}]

NoCtrl == [nextLog |-> Absent, segEOF |-> Absent, nextCatch |-> Absent]

Init ==
    /\ size = FirstLines /\ ctrl = NoCtrl /\ segments = {}
    /\ phase = "off" /\ stopping = FALSE
    /\ segEOF = 0 /\ live = Fresh /\ catch = Fresh /\ haveSegs = FALSE
    /\ starts = 0 /\ crashes = 0 /\ rotated = FALSE
    /\ firstEOF = 0 /\ inLife = {}

-----------------------------------------------------------------------------
(* Start-up: initReadLogThread() and fileHasBackLog().                     *)

\* Mutant: the live reader does not seek to the end of the file.
InitReadLogFromStart ==
    /\ phase = "off" /\ starts < MaxStarts /\ ~rotated
    /\ starts' = starts + 1
    /\ phase' = "backlog"
    /\ segEOF' = size
    /\ live' = [Fresh EXCEPT !.from = size]
    /\ catch' = Fresh /\ haveSegs' = FALSE
    /\ stopping' = FALSE
    /\ firstEOF' = size /\ inLife' = {}
    /\ UNCHANGED <<size, disk, crashes, rotated>>

\* All of a fresh process's positions are 0; the live reader seeks to EOF.
InitReadLog ==
    /\ phase = "off" /\ starts < MaxStarts /\ ~rotated
    /\ starts' = starts + 1
    /\ phase' = "backlog"
    /\ segEOF' = size
    /\ live' = [Fresh EXCEPT !.from = size, !.pos = size]
    /\ catch' = Fresh /\ haveSegs' = FALSE
    /\ stopping' = FALSE
    /\ firstEOF' = size /\ inLife' = {}
    /\ UNCHANGED <<size, disk, crashes, rotated>>

\* fileHasBackLog() returns hasBacklog; logReadingThread starts reading.
Return(hasBacklog) ==
    /\ phase' = "run"
    /\ catch' = [catch EXCEPT !.at = IF hasBacklog THEN "init" ELSE "none"]

\* m_nextLogline2Read as fileHasBackLog() leaves it, and the start of Thread 1.
LiveFrom(next) == live' = [live EXCEPT !.next = next, !.at = "read"]

NoNextLog   == ctrl.nextLog = Absent
BothCatchUp == ctrl.nextCatch # Absent /\ ctrl.segEOF # Absent
NoCatchUp   == ctrl.nextCatch = Absent /\ ctrl.segEOF = Absent

\* Case 2, three control files written one after the other.
Case2NextLog ==
    /\ phase = "backlog" /\ NoNextLog
    /\ ctrl' = [ctrl EXCEPT !.nextLog = segEOF]
    /\ phase' = "case2seg"
    /\ UNCHANGED <<env, segments, stopping, mem, firstEOF, inLife>>

Case2SegEOF ==
    /\ phase = "case2seg"
    /\ ctrl' = [ctrl EXCEPT !.segEOF = segEOF]
    /\ phase' = "case2catch"
    /\ UNCHANGED <<env, segments, stopping, mem, firstEOF, inLife>>

Case2NextCatch ==
    /\ phase = "case2catch"
    /\ ctrl' = [ctrl EXCEPT !.nextCatch = catch.next]
    /\ LiveFrom(live.next) /\ Return(TRUE)
    /\ UNCHANGED <<env, segments, stopping, segEOF, haveSegs, firstEOF, inLife>>

\* Cases 3.1.1 and 3.2.1, and the branches that only print a warning.
Case3Nothing ==
    /\ phase = "backlog" /\ ~NoNextLog
    /\ \/ segEOF <= ctrl.nextLog
       \/ ~NoCatchUp /\ ~BothCatchUp
    /\ LiveFrom(ctrl.nextLog) /\ Return(FALSE)
    /\ UNCHANGED <<env, disk, stopping, segEOF, haveSegs, firstEOF, inLife>>

\* Case 3.1.2: write fileOrSegmentEOF.ctrl, then rename nextLogline2Read.ctrl.
Case312Seg ==
    /\ phase = "backlog" /\ ~NoNextLog /\ NoCatchUp
    /\ segEOF > ctrl.nextLog
    /\ ctrl' = [ctrl EXCEPT !.segEOF = segEOF]
    /\ live' = [live EXCEPT !.next = ctrl.nextLog]
    /\ phase' = "case312"
    /\ UNCHANGED <<env, segments, stopping, segEOF, catch, haveSegs, firstEOF,
                   inLife>>

Case312Rename ==
    /\ phase = "case312"
    /\ ctrl' = [ctrl EXCEPT !.nextCatch = ctrl.nextLog, !.nextLog = Absent]
    /\ LiveFrom(live.next) /\ Return(TRUE)
    /\ UNCHANGED <<env, segments, stopping, segEOF, haveSegs, firstEOF, inLife>>

\* Case 3.2.2: the new backlog segment goes to timestamped control files.
Case322Rename ==
    /\ phase = "backlog" /\ ~NoNextLog /\ BothCatchUp
    /\ segEOF > ctrl.nextLog
    /\ segments' = segments \cup {[from |-> ctrl.nextLog, eof |-> Absent]}
    /\ ctrl' = [ctrl EXCEPT !.nextLog = Absent]
    /\ live' = [live EXCEPT !.next = ctrl.nextLog]
    /\ phase' = "case322"
    /\ UNCHANGED <<env, stopping, segEOF, catch, haveSegs, firstEOF, inLife>>

Case322Seg ==
    /\ phase = "case322"
    /\ segments' = (segments \ {[from |-> live.next, eof |-> Absent]})
                     \cup {[from |-> live.next, eof |-> segEOF]}
    /\ LiveFrom(live.next) /\ Return(TRUE)
    /\ UNCHANGED <<env, ctrl, stopping, segEOF, haveSegs, firstEOF, inLife>>

StartUp == Case2NextLog \/ Case2SegEOF \/ Case2NextCatch \/ Case3Nothing
           \/ Case312Seg \/ Case312Rename \/ Case322Rename \/ Case322Seg

-----------------------------------------------------------------------------
(* deliverToProcThreads() on a full belt: the reader sleeps with the line  *)
(* it has read, until a notification reaches it, and one that comes before *)
(* it sleeps is lost (see ConveyorBelt).                                   *)

BeltFull(r) == 2 * Cardinality(r.busy) >= InFlight
Asleep(r)   == [r EXCEPT !.next = r.pos, !.pos = r.pos + 1, !.at = "asleep"]
Awake(r)    == [r EXCEPT !.busy = @ \cup {r.next}, !.at = "read"]

SleepLive ==
    /\ phase = "run" /\ ~stopping /\ live.at = "read"
    /\ live.pos < size /\ BeltFull(live)
    /\ live' = Asleep(live)
    /\ UNCHANGED <<env, disk, phase, stopping, segEOF, catch, haveSegs,
                   firstEOF, inLife>>

WakeLive ==
    /\ live.at = "asleep" /\ Cardinality(live.busy) < InFlight
    /\ live' = Awake(live)
    /\ UNCHANGED <<env, disk, phase, stopping, segEOF, catch, haveSegs,
                   firstEOF, inLife>>

SleepCatchUp ==
    /\ phase = "run" /\ ~stopping /\ catch.at = "read"
    /\ catch.pos < segEOF /\ BeltFull(catch)
    /\ catch' = Asleep(catch)
    /\ UNCHANGED <<env, disk, phase, stopping, segEOF, live, haveSegs, firstEOF,
                   inLife>>

WakeCatchUp ==
    /\ catch.at = "asleep" /\ Cardinality(catch.busy) < InFlight
    /\ catch' = Awake(catch)
    /\ UNCHANGED <<env, disk, phase, stopping, segEOF, live, haveSegs, firstEOF,
                   inLife>>

-----------------------------------------------------------------------------
(* logReadingThread and the processing threads behind its belt.            *)

\* Mutants: one line too many is read, or the last one is left for later.
ReadLiveBeyond ==
    /\ phase = "run" /\ ~stopping /\ live.at = "read"
    /\ Cardinality(live.busy) < InFlight
    /\ live' = IF live.pos <= size
               THEN [live EXCEPT !.next = live.pos, !.pos = live.pos + 1,
                                 !.busy = @ \cup {live.pos}]
               ELSE [live EXCEPT !.next = live.pos, !.at = "eof"]
    /\ UNCHANGED <<env, disk, phase, stopping, segEOF, catch, haveSegs,
                   firstEOF, inLife>>

ReadLiveButLast ==
    /\ phase = "run" /\ ~stopping /\ live.at = "read"
    /\ Cardinality(live.busy) < InFlight
    /\ live' = IF live.pos + 1 < size
               THEN [live EXCEPT !.next = live.pos, !.pos = live.pos + 1,
                                 !.busy = @ \cup {live.pos}]
               ELSE [live EXCEPT !.next = live.pos, !.at = "eof"]
    /\ UNCHANGED <<env, disk, phase, stopping, segEOF, catch, haveSegs,
                   firstEOF, inLife>>

\* getNextLogLine(): the position is taken before the line is read.
ReadLive ==
    /\ phase = "run" /\ ~stopping /\ live.at = "read"
    /\ Cardinality(live.busy) < InFlight
    /\ live' = IF live.pos < size
               THEN [live EXCEPT !.next = live.pos, !.pos = live.pos + 1,
                                 !.busy = @ \cup {live.pos}]
               ELSE [live EXCEPT !.next = live.pos, !.at = "eof"]
    /\ UNCHANGED <<env, disk, phase, stopping, segEOF, catch, haveSegs,
                   firstEOF, inLife>>

\* eofLiveLog(), then monitorNewLineThread() gets its watch installed.
ArmWatch ==
    /\ phase = "run" /\ ~stopping /\ live.at = "eof"
    /\ live' = [live EXCEPT !.at = "armed"]
    /\ UNCHANGED <<env, disk, phase, stopping, segEOF, catch, haveSegs,
                   firstEOF, inLife>>

\* insertIntoSeenTable() of a live line.
SeeLive(l) ==
    /\ l \in live.busy
    /\ live' = [live EXCEPT !.busy = @ \ {l}, !.done = @ \cup {l}]
    /\ inLife' = inLife \cup {l}
    /\ UNCHANGED <<env, disk, phase, stopping, segEOF, catch, haveSegs,
                   firstEOF>>

\* Mutants: the end of the file is written, or each thread's own position.
WriteLiveEOF(l) ==
    /\ l \in live.done
    /\ ctrl' = [ctrl EXCEPT !.nextLog = size]
    /\ live' = [live EXCEPT !.done = @ \ {l}, !.last = live.next]
    /\ UNCHANGED <<env, segments, phase, stopping, segEOF, catch, haveSegs,
                   firstEOF, inLife>>

WriteLiveOwn(l) ==
    /\ l \in live.done
    /\ ctrl' = [ctrl EXCEPT !.nextLog = l]
    /\ live' = [live EXCEPT !.done = @ \ {l}, !.last = live.next]
    /\ UNCHANGED <<env, segments, phase, stopping, segEOF, catch, haveSegs,
                   firstEOF, inLife>>

\* writePosOfNextLogline2Read(): the reader's position, if it is the highest.
\* It is read again for m_lastLoglinePosWritten, and may have moved by then.
WriteLive(l) ==
    /\ l \in live.done /\ live.hold = {}
    /\ IF live.next > live.last
       THEN /\ ctrl' = [ctrl EXCEPT !.nextLog = live.next]
            /\ live' = [live EXCEPT !.done = @ \ {l}, !.hold = {l}]
       ELSE /\ live' = [live EXCEPT !.done = @ \ {l}]
            /\ UNCHANGED ctrl
    /\ UNCHANGED <<env, segments, phase, stopping, segEOF, catch, haveSegs,
                   firstEOF, inLife>>

StoreLive(l) ==
    /\ l \in live.hold
    /\ live' = [live EXCEPT !.hold = {}, !.last = live.next]
    /\ UNCHANGED <<env, disk, phase, stopping, segEOF, catch, haveSegs,
                   firstEOF, inLife>>

-----------------------------------------------------------------------------
(* catchUpLogThread and the processing threads behind its belt.            *)

InitCatchUp ==
    /\ phase = "run" /\ catch.at = "init"
    /\ LET next == IF ctrl.nextCatch = Absent THEN catch.next ELSE ctrl.nextCatch
       IN  catch' = [catch EXCEPT !.at = "read", !.from = next, !.next = next,
                                  !.pos = next]
    /\ segEOF' = IF ctrl.segEOF = Absent THEN segEOF ELSE ctrl.segEOF
    /\ haveSegs' = \E s \in segments : s.eof # Absent
    /\ UNCHANGED <<env, disk, phase, stopping, live, firstEOF, inLife>>

\* getCatchupLine() inside a segment.
ReadCatchUp ==
    /\ phase = "run" /\ ~stopping /\ catch.at = "read"
    /\ Cardinality(catch.busy) < InFlight
    /\ catch.pos < segEOF
    /\ catch' = [catch EXCEPT !.next = catch.pos, !.pos = catch.pos + 1,
                              !.busy = @ \cup {catch.pos}]
    /\ UNCHANGED <<env, disk, phase, stopping, segEOF, live, haveSegs, firstEOF,
                   inLife>>

\* Mutant: the last line of the segment is not read.
EndOfSegmentEarly ==
    /\ phase = "run" /\ ~stopping /\ catch.at = "read"
    /\ catch.pos >= segEOF - 1 /\ ~haveSegs
    /\ ctrl' = [ctrl EXCEPT !.segEOF = Absent]
    /\ catch' = [catch EXCEPT !.next = catch.pos, !.at = "removing"]
    /\ UNCHANGED <<env, segments, phase, stopping, segEOF, live, haveSegs,
                   firstEOF, inLife>>

\* getCatchupLine() at the end of a segment: no timestamped files, so both
\* control files are removed, one after the other.
EndOfSegment ==
    /\ phase = "run" /\ ~stopping /\ catch.at = "read"
    /\ catch.pos >= segEOF /\ ~haveSegs
    /\ ctrl' = [ctrl EXCEPT !.segEOF = Absent]
    /\ catch' = [catch EXCEPT !.next = catch.pos, !.at = "removing"]
    /\ UNCHANGED <<env, segments, phase, stopping, segEOF, live, haveSegs,
                   firstEOF, inLife>>

RemoveNextCatch ==
    /\ catch.at = "removing"
    /\ ctrl' = [ctrl EXCEPT !.nextCatch = Absent]
    /\ catch' = [catch EXCEPT !.at = "done"]
    /\ UNCHANGED <<env, segments, phase, stopping, segEOF, live, haveSegs,
                   firstEOF, inLife>>

\* refreshCtrlValOf() dereferences end() of m_filestampFileList: what it finds
\* there is the empty string, so nothing changes and getCatchupLine() goes on
\* looping, or the process dies of it (Crash).
NextSegment ==
    /\ phase = "run" /\ ~stopping /\ catch.at = "read"
    /\ catch.pos >= segEOF /\ haveSegs
    /\ catch' = [catch EXCEPT !.next = catch.pos, !.at = "spin"]
    /\ UNCHANGED <<env, disk, phase, stopping, segEOF, live, haveSegs, firstEOF,
                   inLife>>

SeeCatchUp(l) ==
    /\ l \in catch.busy
    /\ catch' = [catch EXCEPT !.busy = @ \ {l}, !.done = @ \cup {l}]
    /\ inLife' = inLife \cup {l}
    /\ UNCHANGED <<env, disk, phase, stopping, segEOF, live, haveSegs, firstEOF>>

\* writePosOfNextCatchup2Read(): also after the file has been removed.
WriteCatchUp(l) ==
    /\ l \in catch.done /\ catch.hold = {}
    /\ IF catch.next > catch.last
       THEN /\ ctrl' = [ctrl EXCEPT !.nextCatch = catch.next]
            /\ catch' = [catch EXCEPT !.done = @ \ {l}, !.hold = {l}]
       ELSE /\ catch' = [catch EXCEPT !.done = @ \ {l}]
            /\ UNCHANGED ctrl
    /\ UNCHANGED <<env, segments, phase, stopping, segEOF, live, haveSegs,
                   firstEOF, inLife>>

StoreCatchUp(l) ==
    /\ l \in catch.hold
    /\ catch' = [catch EXCEPT !.hold = {}, !.last = catch.next]
    /\ UNCHANGED <<env, disk, phase, stopping, segEOF, live, haveSegs, firstEOF,
                   inLife>>

-----------------------------------------------------------------------------
(* The log, the operator and the machine.                                  *)

Append ==
    /\ size < MaxLines /\ ~rotated
    /\ size' = size + 1
    /\ live' = [live EXCEPT !.at = IF @ = "armed" THEN "read" ELSE @]
    /\ UNCHANGED <<disk, phase, stopping, segEOF, catch, haveSegs, starts,
                   crashes, rotated, firstEOF, inLife>>

Stop ==
    /\ phase = "run" /\ ~stopping
    /\ stopping' = TRUE
    /\ UNCHANGED <<env, disk, phase, mem, firstEOF, inLife>>

StopCatchUp ==
    /\ stopping /\ catch.at = "read"
    /\ catch' = [catch EXCEPT !.at = "done"]
    /\ UNCHANGED <<env, disk, phase, stopping, segEOF, live, haveSegs, firstEOF,
                   inLife>>

Idle(r) == r.at # "asleep" /\ r.busy = {} /\ r.done = {} /\ r.hold = {}

Down == /\ phase' = "off" /\ stopping' = FALSE
        /\ segEOF' = 0 /\ live' = Fresh /\ catch' = Fresh /\ haveSegs' = FALSE
        /\ firstEOF' = 0 /\ inLife' = {}

\* Both belts are shut down and their threads joined.
Exit ==
    /\ phase = "run" /\ stopping
    /\ Idle(live) /\ Idle(catch) /\ catch.at \in {"none", "done"}
    /\ Down
    /\ UNCHANGED <<env, disk>>

\* The control files that setCtrlValOf() may have open, and truncated.
Writing(r) == r.done # {} /\ r.hold = {} /\ r.next > r.last

OpenCtrl ==
    (IF Writing(live) THEN {"nextLog"} ELSE {})
    \cup (IF Writing(catch) THEN {"nextCatch"} ELSE {})
    \cup (IF phase = "backlog" /\ NoNextLog THEN {"nextLog"} ELSE {})
    \cup (IF phase = "case2seg" THEN {"segEOF"} ELSE {})
    \cup (IF phase = "case2catch" THEN {"nextCatch"} ELSE {})
    \cup (IF phase = "backlog" /\ ~NoNextLog /\ NoCatchUp
                /\ segEOF > ctrl.nextLog THEN {"segEOF"} ELSE {})

\* A control file cut short is read as 0.
Crash ==
    /\ phase # "off" /\ crashes < MaxCrashes
    /\ crashes' = crashes + 1
    /\ \E cut \in SUBSET OpenCtrl :
          ctrl' = [f \in DOMAIN ctrl |-> IF f \in cut THEN 0 ELSE ctrl[f]]
    /\ Down
    /\ UNCHANGED <<size, segments, starts, rotated>>

\* logrotate hands over a new file: removeAllControlFiles() iterates over a
\* directory that does not exist and throws out of monitor4RenameThread, which
\* ends the process; every later start ends the same way, in
\* ValidateAndUpdateFirstLineOf().
Rotate ==
    /\ ~rotated /\ starts > 0
    /\ rotated' = TRUE
    /\ Down
    /\ UNCHANGED <<size, disk, starts, crashes>>

-----------------------------------------------------------------------------
LiveThread    == ReadLive \/ ArmWatch
CatchUpThread == InitCatchUp \/ ReadCatchUp \/ EndOfSegment \/ RemoveNextCatch
                 \/ NextSegment \/ StopCatchUp
Processing    == \E l \in LogLines :
                     \/ SeeLive(l) \/ WriteLive(l) \/ StoreLive(l)
                     \/ SeeCatchUp(l) \/ WriteCatchUp(l) \/ StoreCatchUp(l)
FullBelt      == SleepLive \/ WakeLive \/ SleepCatchUp \/ WakeCatchUp

\* Nothing is left to happen within the bounds.
Over == phase = "off" /\ (rotated \/ starts = MaxStarts) /\ UNCHANGED vars

Next == \/ InitReadLog \/ StartUp \/ LiveThread \/ CatchUpThread \/ Processing
        \/ FullBelt \/ Append \/ Stop \/ Exit \/ Crash \/ Rotate \/ Over

Spec == Init /\ [][Next]_vars

(***************************************************************************)
(* A running program's threads run.  The log need not grow, nobody need    *)
(* stop or start the program, and nothing need wake up a reader that has   *)
(* missed its notification.                                                *)
(***************************************************************************)
FairSpec == Spec /\ WF_vars(StartUp) /\ WF_vars(LiveThread)
                 /\ WF_vars(CatchUpThread) /\ WF_vars(Processing)

-----------------------------------------------------------------------------
CtrlValue == Positions \cup {Absent}

TypeOK ==
    /\ size \in Positions
    /\ ctrl \in [nextLog : CtrlValue, segEOF : CtrlValue, nextCatch : CtrlValue]
    /\ segments \subseteq [from : Positions, eof : CtrlValue]
    /\ phase \in {"off", "backlog", "case2seg", "case2catch", "case312",
                  "case322", "run"}
    /\ stopping \in BOOLEAN /\ haveSegs \in BOOLEAN /\ rotated \in BOOLEAN
    /\ segEOF \in Positions /\ firstEOF \in Positions
    /\ live \in Reader /\ catch \in Reader
    /\ starts \in 0 .. MaxStarts /\ crashes \in 0 .. MaxCrashes
    /\ inLife \subseteq LogLines

(***************************************************************************)
(* The live reader and the catch-up reader never process the same line,    *)
(* and neither reads a line twice, in one run of the program.              *)
(***************************************************************************)
Taken(r) == r.busy \cup (IF r.at = "asleep" THEN {r.next} ELSE {})

OncePerLife ==
    /\ Taken(live) \cap Taken(catch) = {}
    /\ inLife \cap (Taken(live) \cup Taken(catch)) = {}

(***************************************************************************)
(* A line of this run that lies below the position written to its control  *)
(* file is processed or in flight: a crash can lose only what the reader,  *)
(* the belt and its threads hold.                                          *)
(***************************************************************************)
OnlyInFlightBelow ==
    phase = "run" =>
        /\ firstEOF .. (ctrl.nextLog - 1) \subseteq inLife \cup Taken(live)
        /\ catch.at \notin {"none", "init"} =>
              catch.from .. (ctrl.nextCatch - 1) \subseteq inLife \cup Taken(catch)

(***************************************************************************)
(* catchUpLogThread ends, unless told to stop, only when it has read every *)
(* line of its segment.                                                    *)
(***************************************************************************)
BacklogReadToEnd ==
    (catch.at \in {"removing", "done", "spin"} /\ ~stopping) =>
        catch.from .. (segEOF - 1) \subseteq inLife \cup catch.busy

(***************************************************************************)
(* ConfContainer.cpp:546: "We ensure that we only write the higest         *)
(* m_nextLogline2Read": while the program lives, nextLogline2Read.ctrl     *)
(* never goes back, whichever processing thread writes it.                 *)
(***************************************************************************)
PositionNeverBack ==
    [][phase # "off" /\ phase' # "off" /\ ctrl'.nextLog # Absent
          => ctrl'.nextLog >= ctrl.nextLog]_vars

(***************************************************************************)
(* A live line that is in the file while the reader is reading is          *)
(* processed, and so is every line of the backlog segment being caught up, *)
(* unless the program stops or dies or the reader has missed the           *)
(* notification of deliverToProcThreads() and sleeps with a line in its    *)
(* hands and nothing in flight.                                            *)
(***************************************************************************)
Down_or_stopping == phase = "off" \/ stopping
SleepsOn(r)      == r.at = "asleep" /\ r.busy = {}

LinesAreProcessed ==
    \A l \in LogLines :
        /\ (phase = "run" /\ live.at = "read" /\ l \in firstEOF .. (size - 1))
              ~> (l \in inLife \/ Down_or_stopping \/ SleepsOn(live))
        /\ (phase = "run" /\ catch.at = "read" /\ l \in catch.from .. (segEOF - 1))
              ~> (l \in inLife \/ Down_or_stopping \/ SleepsOn(catch))

=============================================================================
