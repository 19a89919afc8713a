------------------------------ MODULE LumpFeed ------------------------------
(***************************************************************************)
(* A LumpContainer: one thread for each component, feedLumpLogFile, copies *)
(* its lines to the LUMP file, which logReadingThread reads as it reads    *)
(* any other log.  logReadingThread calls initReadLogThread() until it is  *)
(* true, starting the feeders anew each time, and stopReadLogThread() when *)
(* a file was renamed.  A file that is empty when initReadLogThread()      *)
(* comes to it gets a thread that waits for its first line, LUMP too.      *)
(*                                                                         *)
(* A monitor is a place in which its owner waits and the event that ends   *)
(* it; InotifyMonitors has what happens in between.  The program is not    *)
(* told to end, but it may crash, and it dies of a component that is gone. *)
(***************************************************************************)
EXTENDS Integers, FiniteSets

CONSTANTS
    Components,     \* m_logList
    LUMP,           \* the file they are copied to
    Growing,        \* bound: the components that get lines
    MaxLines,       \* bound: lines of one file
    MaxFiles,       \* bound: files that bear a component's name in turn
    MaxInits,       \* bound: calls of initReadLogThread() before a stop
    MaxLives        \* bound: runs of the program

ASSUME LumpAssumption ==
    /\ Components # {} /\ IsFiniteSet(Components) /\ Growing \subseteq Components
    /\ LUMP \notin Components
    /\ MaxLines \in Nat /\ MaxFiles \in Nat \ {0}
    /\ MaxInits \in Nat \ {0} /\ MaxLives \in Nat \ {0}

VARIABLES
    present,        \* the components there are
    file,           \* which file it is that bears the name now
    size,           \* lines of each file
    ctrl,           \* components with a nextLogline2Read.ctrl
    lump,           \* how often the LUMP file has each line
    restart,        \* RESTART_THREAD
    resultFlag,     \* m_resultFlag
    seen,           \* filesSeenCnt: the components counted in this call
    inits,          \* calls of initReadLogThread() since the start or a stop
    main,           \* logReadingThread
    fpc, source,    \* each feeder: where it is, and <<file, lines read>>
    renameMon,      \* the feeders whose rename monitor waits
    new, waited,    \* waitForFirstLineThreads: how many have not registered,
                    \*   and the files whose first line others wait for
    lives, again, torn  \* bound; history: init called again, crash before the save

disk    == <<present, file, size>>
feeders == <<fpc, source, renameMon>>
first   == <<new, waited>>
history == <<lives, again, torn>>
vars == <<disk, ctrl, lump, restart, resultFlag, seen, inits, main, feeders, first, history>>

Feeders == Components \X (1 .. MaxInits)
Files   == Components \cup {LUMP}
Lines   == Components \X (1 .. MaxFiles) \X (1 .. MaxLines)

NoFeeders ==
    /\ fpc' = [f \in Feeders |-> "none"] /\ source' = [f \in Feeders |-> <<1, 0>>]
    /\ renameMon' = {}

Init ==
    /\ present = Components /\ file = [c \in Components |-> 1]
    /\ size = [cf \in Components \X (1 .. MaxFiles) |-> 0]
    /\ ctrl = {} /\ lump = [l \in Lines |-> 0]
    /\ restart = FALSE /\ resultFlag = TRUE /\ seen = {} /\ inits = 0 /\ main = "loop"
    /\ fpc = [f \in Feeders |-> "none"] /\ source = [f \in Feeders |-> <<1, 0>>]
    /\ renameMon = {} /\ new = [x \in Files |-> 0] /\ waited = {}
    /\ lives = 1 /\ again = FALSE /\ torn = {}

-----------------------------------------------------------------------------
(* logReadingThread.                                                       *)

Main(from, to) == main = from /\ main' = to

RestartLoop ==
    /\ restart /\ Main("loop", "loop")
    /\ restart' = FALSE
    /\ UNCHANGED <<disk, ctrl, lump, resultFlag, seen, inits, feeders, first, history>>

\* ValidateAndUpdateFirstLineOf().
IsEmpty(x) == IF x = LUMP THEN \A l \in Lines : lump[l] = 0
                          ELSE size[<<x, file[x]>>] = 0

ValidateFirstLine(x) ==
    /\ new' = IF IsEmpty(x) THEN [new EXCEPT ![x] = @ + 1] ELSE new
    /\ UNCHANGED waited

\* initReadLogThread(), also if the call before has failed: LUMP first...
InitReadLog ==
    /\ ~restart /\ inits < MaxInits /\ Main("loop", "start")
    /\ inits' = inits + 1 /\ seen' = {}
    /\ ValidateFirstLine(LUMP)
    /\ again' = (again \/ inits > 0)
    /\ UNCHANGED <<disk, ctrl, lump, restart, resultFlag, feeders, lives, torn>>

\* ... then a feeder for each component.
ToStart == {c \in Components : fpc[<<c, inits>>] = "none"}

StartFeeder(c) ==
    /\ main = "start" /\ c \in ToStart \cap present
    /\ main' = IF ToStart = {c} THEN "test" ELSE "start"
    /\ ValidateFirstLine(c)
    /\ fpc' = [fpc EXCEPT ![<<c, inits>>] = "count"]
    /\ UNCHANGED <<disk, ctrl, lump, restart, resultFlag, seen, inits, source, renameMon,
                   history>>

\* The process ends, and with it all its threads.
Dies ==
    /\ torn' = torn \cup {f[1] : f \in {g \in Feeders : fpc[g] = "save"}}
    /\ NoFeeders /\ new' = [x \in Files |-> 0] /\ waited' = {}
    /\ restart' = FALSE /\ resultFlag' = TRUE /\ seen' = {} /\ inits' = 0
    /\ main' = "dead"
    /\ UNCHANGED <<disk, ctrl, lump, lives, again>>

\* is_empty() of a file that is not there throws out of logReadingThread.
ComponentGone(c) == main = "start" /\ c \in ToStart \ present /\ Dies

\* The count is tested without the feeders' knowledge; it says that they have
\* started, not that they have opened their files.
TestSeen ==
    /\ Main("test", IF seen # Components THEN "block"
                    ELSE IF resultFlag THEN "read" ELSE "loop")
    /\ UNCHANGED <<disk, ctrl, lump, restart, resultFlag, seen, inits, feeders, first, history>>

BlockSeen ==
    /\ Main("block", "asleep")
    /\ UNCHANGED <<disk, ctrl, lump, restart, resultFlag, seen, inits, feeders, first, history>>

SpuriousWakeup ==
    /\ Main("asleep", "test")
    /\ UNCHANGED <<disk, ctrl, lump, restart, resultFlag, seen, inits, feeders, first, history>>

\* At the end of LUMP it waits for a line in LUMP.
ReadLump ==
    /\ Main("read", IF restart THEN "release" ELSE "waiting")
    /\ UNCHANGED <<disk, ctrl, lump, restart, resultFlag, seen, inits, feeders, first, history>>

\* stopReadLogThread() releases whoever waits for a component by now...
Release ==
    /\ Main("release", "join")
    /\ fpc' = [f \in Feeders |-> IF fpc[f] = "waiting" THEN "read" ELSE fpc[f]]
    /\ renameMon' = {} /\ waited' = waited \ Components
    /\ UNCHANGED <<disk, ctrl, lump, restart, resultFlag, seen, inits, source, new, history>>

\* ... and joins them all; ConfContainer's, which follows, would release LUMP.
Join ==
    /\ Main("join", "loop")
    /\ \A f \in Feeders : fpc[f] \in {"none", "done"}
    /\ renameMon = {} /\ new = [x \in Files |-> 0] /\ waited = {}
    /\ NoFeeders /\ inits' = 0
    /\ UNCHANGED <<disk, ctrl, lump, restart, resultFlag, seen, first, history>>

ReadingThread ==
    \/ RestartLoop \/ InitReadLog \/ TestSeen \/ BlockSeen \/ ReadLump \/ Release \/ Join
    \/ \E c \in Components : StartFeeder(c) \/ ComponentGone(c)

\* waitForFirstLineThread() registers its monitor.
RegisterFirst(x) ==
    /\ new[x] > 0 /\ new' = [new EXCEPT ![x] = @ - 1]
    /\ waited' = waited \cup {x}
    /\ UNCHANGED <<disk, ctrl, lump, restart, resultFlag, seen, inits, main, feeders, history>>

FirstLineThreads == \E x \in Files : RegisterFirst(x)

-----------------------------------------------------------------------------
(* feedLumpLogFile().                                                      *)

Feed(f, from, to) == fpc[f] = from /\ fpc' = [fpc EXCEPT ![f] = to]

\* Mutant: only those that will open are counted.
CountOpened(f) ==
    /\ Feed(f, "count", "open")
    /\ seen' = IF f[2] = inits THEN seen \cup ({f[1]} \cap present) ELSE seen
    /\ UNCHANGED <<disk, ctrl, lump, restart, resultFlag, inits, main, source,
                   renameMon, first, history>>

Count(f) ==
    /\ Feed(f, "count", "open")
    /\ seen' = IF f[2] = inits THEN seen \cup {f[1]} ELSE seen
    /\ UNCHANGED <<disk, ctrl, lump, restart, resultFlag, inits, main, source,
                   renameMon, first, history>>

\* Mutant: the control file is not looked for.
OpenIgnoresCtrl(f) ==
    LET c == f[1]
    IN  /\ Feed(f, "open", IF c \in present THEN "read" ELSE "done")
        /\ IF c \in present
           THEN /\ source' = [source EXCEPT ![f] = <<file[c], 0>>]
                /\ renameMon' = renameMon \cup {f}
                /\ UNCHANGED resultFlag
           ELSE resultFlag' = FALSE /\ UNCHANGED <<source, renameMon>>
        /\ main' = IF main = "asleep" THEN "test" ELSE main
        /\ UNCHANGED <<disk, ctrl, lump, restart, seen, inits, first, history>>

\* A control file is not read but the log, which is then closed: the seekg()
\* fails, and with it every getline() to come, without an end of file.  Either
\* way initReadLogThread() is notified.
Open(f) ==
    LET c == f[1]
    IN  /\ Feed(f, "open", IF c \notin present THEN "done"
                           ELSE IF c \in ctrl THEN "spin" ELSE "read")
        /\ IF c \in present
           THEN /\ source' = [source EXCEPT ![f] = <<file[c], 0>>]
                /\ renameMon' = renameMon \cup {f}
                /\ UNCHANGED resultFlag
           ELSE resultFlag' = FALSE /\ UNCHANGED <<source, renameMon>>
        /\ main' = IF main = "asleep" THEN "test" ELSE main
        /\ UNCHANGED <<disk, ctrl, lump, restart, seen, inits, first, history>>

Spin(f) ==
    /\ restart /\ Feed(f, "spin", "done")
    /\ UNCHANGED <<disk, ctrl, lump, restart, resultFlag, seen, inits, main, source,
                   renameMon, first, history>>

\* Mutant: a line too many, one that is not complete yet.
UnreadOneMore(f) == source[f][2] <= size[<<f[1], source[f][1]>>]

Unread(f) == source[f][2] < size[<<f[1], source[f][1]>>]

\* writeLineToLumpFile(), an event for whoever waits for a line in LUMP.
FeedLine(f) ==
    LET s == source[f]
    IN  /\ ~restart /\ Unread(f) /\ Feed(f, "read", "save")
        /\ source' = [source EXCEPT ![f] = <<s[1], s[2] + 1>>]
        /\ lump' = [lump EXCEPT ![<<f[1], s[1], s[2] + 1>>] = @ + 1]
        /\ main' = IF main = "waiting" THEN "read" ELSE main
        /\ waited' = waited \ {LUMP}
        /\ UNCHANGED <<disk, ctrl, restart, resultFlag, seen, inits, renameMon, new, history>>

SaveCtrl(f) ==
    /\ Feed(f, "save", "read")
    /\ ctrl' = ctrl \cup {f[1]}
    /\ UNCHANGED <<disk, lump, restart, resultFlag, seen, inits, main, source,
                   renameMon, first, history>>

EndOfFile(f) ==
    /\ ~restart /\ ~Unread(f) /\ Feed(f, "read", "eof")
    /\ UNCHANGED <<disk, ctrl, lump, restart, resultFlag, seen, inits, main, source,
                   renameMon, first, history>>

Wait4Line(f) ==
    /\ Feed(f, "eof", "waiting")
    /\ UNCHANGED <<disk, ctrl, lump, restart, resultFlag, seen, inits, main, source,
                   renameMon, first, history>>

LeaveLoop(f) ==
    /\ restart /\ Feed(f, "read", "done")
    /\ UNCHANGED <<disk, ctrl, lump, restart, resultFlag, seen, inits, main, source,
                   renameMon, first, history>>

Feeder(f) ==
    \/ Count(f) \/ Open(f) \/ Spin(f) \/ FeedLine(f) \/ SaveCtrl(f)
    \/ EndOfFile(f) \/ Wait4Line(f) \/ LeaveLoop(f)

-----------------------------------------------------------------------------
(* The programs that write the components, and logrotate.                  *)

Of(c) == {f \in Feeders : f[1] = c}

AddLine(c) ==
    /\ c \in present \cap Growing /\ size[<<c, file[c]>>] < MaxLines
    /\ size' = [size EXCEPT ![<<c, file[c]>>] = @ + 1]
    /\ fpc' = [f \in Feeders |->
                  IF f \in Of(c) /\ fpc[f] = "waiting" THEN "read" ELSE fpc[f]]
    /\ waited' = waited \ {c}
    /\ UNCHANGED <<present, file, ctrl, lump, restart, resultFlag, seen, inits, main,
                   source, renameMon, new, history>>

\* removeAllControlFiles() of this class removes no control file.
Rename(c) ==
    /\ c \in present /\ \A d \in Components : file[d] < MaxFiles
    /\ present' = present \ {c} /\ file' = [file EXCEPT ![c] = @ + 1]
    /\ restart' = (restart \/ Of(c) \cap renameMon # {})
    /\ renameMon' = renameMon \ Of(c)
    /\ UNCHANGED <<size, ctrl, lump, resultFlag, seen, inits, main, fpc, source,
                   first, history>>

Create(c) ==
    /\ c \notin present
    /\ present' = present \cup {c}
    /\ UNCHANGED <<file, size, ctrl, lump, restart, resultFlag, seen, inits, main, feeders,
                   first, history>>

\* Bound: it does not crash in its last life.
Crash == main # "dead" /\ lives < MaxLives /\ Dies

\* The program is started again, when all its components are there.
StartProgram ==
    /\ lives < MaxLives /\ present = Components /\ Main("dead", "loop")
    /\ lives' = lives + 1
    /\ UNCHANGED <<disk, ctrl, lump, restart, resultFlag, seen, inits, feeders, first,
                   again, torn>>

Next ==
    \/ ReadingThread \/ SpuriousWakeup \/ FirstLineThreads \/ Crash \/ StartProgram
    \/ \E f \in Feeders : Feeder(f)
    \/ \E c \in Components : AddLine(c) \/ Rename(c) \/ Create(c)

Spec == Init /\ [][Next]_vars

(***************************************************************************)
(* Every thread runs when it can; files grow and are renamed as they like. *)
(***************************************************************************)
FairSpec ==
    /\ Spec /\ WF_vars(ReadingThread) /\ WF_vars(FirstLineThreads)
    /\ \A f \in Feeders : WF_vars(Feeder(f))

-----------------------------------------------------------------------------
TypeOK ==
    /\ present \subseteq Components /\ file \in [Components -> 1 .. MaxFiles]
    /\ size \in [Components \X (1 .. MaxFiles) -> 0 .. MaxLines]
    /\ ctrl \subseteq Components /\ lump \in [Lines -> Nat] /\ seen \subseteq Components
    /\ restart \in BOOLEAN /\ resultFlag \in BOOLEAN /\ inits \in 0 .. MaxInits
    /\ main \in {"loop", "start", "test", "block", "asleep", "read", "waiting", "release",
                 "join", "dead"}
    /\ \A f \in Feeders :
          /\ fpc[f] \in {"none", "count", "open", "spin", "read", "save", "eof", "waiting", "done"}
          /\ source[f] \in (1 .. MaxFiles) \X (0 .. MaxLines)
          /\ source[f][2] <= size[<<f[1], source[f][1]>>]
    /\ lives \in 1 .. MaxLives /\ again \in BOOLEAN /\ torn \subseteq Components
    /\ renameMon \subseteq Feeders /\ new \in [Files -> Nat] /\ waited \subseteq Files

(***************************************************************************)
(* Across restarts and deaths the LUMP file has each line of a component   *)
(* at most once, twice only if initReadLogThread() failed and started a    *)
(* second set of feeders beside the first, or the program died between a   *)
(* line and its control file; and it has no line of a file without the one *)
(* before.                                                                 *)
(***************************************************************************)
FedOnceInOrder ==
    \A l \in Lines :
        /\ lump[l] > 1 => again \/ l[1] \in torn
        /\ l[3] > 1 => lump[l] <= lump[<<l[1], l[2], l[3] - 1>>]

(***************************************************************************)
(* initReadLogThread() and stopReadLogThread() return, or the process dies *)
(* of a component that is gone, unless the last feeder notifies between    *)
(* the test of the count and the wait, a monitor of a component is         *)
(* registered behind the release, or a thread waits for the first line of  *)
(* LUMP, which is joined before it would be released.                      *)
(***************************************************************************)
LostNotify == main = "asleep" /\ seen = Components
Behind ==
    /\ main = "join"
    /\ \/ \E f \in Feeders : fpc[f] = "waiting" \/ f \in renameMon
       \/ waited \cap Components # {}
Unreleased == main = "join" /\ LUMP \in waited

CallsReturn ==
    main \in {"start", "test", "release"}
        ~> (main \in {"read", "loop", "dead"} \/ LostNotify \/ Behind \/ Unreleased)

(***************************************************************************)
(* When a component was renamed, logReadingThread starts anew.             *)
(***************************************************************************)
RotationRestarts == restart ~> ~restart
=============================================================================
