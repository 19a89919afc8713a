------------------------------ MODULE Program ------------------------------
(***************************************************************************)
(* The program from the constructor of LogScanner to the end of exec():    *)
(* the configuration, the threads exec() starts and the order in which it  *)
(* joins them, with the two ways to tell it to end, a signal and a message *)
(* on the socket.  One log's reading thread stands for inptThread, an      *)
(* owner of InotifyMonitors; one thread that waits on a NotifyEvent stands *)
(* for SQL_Thread, evalThread and dropThread.                              *)
(*                                                                         *)
(* Calls of the reading thread that the other modules have in detail       *)
(* return or hang here, as they do there.  Bound: no log is renamed, and   *)
(* no thread throws (LumpFeed has both).                                   *)
(***************************************************************************)
EXTENDS Configuration

CONSTANTS
    Configs,    \* the configurations the program may find
    NoConfig, NoOwner, NoThread

\* checkLine() has told the lines of a file apart.
ASSUME ProgramAssumption ==
    /\ \A conf \in Configs : \A file \in conf.tree.files :
          /\ file.lines \in Seq(Range(file.lines))
          /\ \A line \in Range(file.lines) :
                /\ line.form \in {"blank", "comment", "item", "bad"}
                /\ line.form = "item" => line.key \in DateItems \cup {"digit"}
    /\ NoOwner \notin {"tail"} /\ NoThread \notin {"exec", "intf", "comm"}

VARIABLES
    config,         \* what is in the directories; forgotten once judged rightly
    state,          \* m_state: "INVALID", "error" or "HEALTHY"
    xpc,            \* the main thread: constructor and exec()
    keepLooping,    \* KEEP_LOOPING
    flag,           \* the exit flag's file: "none", "present", "removed"
    targets, outcome, mpc, notifying, late, ipc, queue, buffer, \* INotifyObj
    rpc,            \* logReadingThread
    unread,         \* the log has lines it has not read
    items, wpc,     \* the table thread and its NotifyEvent
    cpc,            \* commThread
    hpc, victim,    \* the signal handler and the thread it interrupted
    told            \* history: "no", or how the program was told to end

inotify == <<targets, outcome, mpc, notifying, late, ipc, queue, buffer>>
event   == <<items, wpc>>
handler == <<hpc, victim>>
start   == <<config, state>>
vars == <<config, state, xpc, keepLooping, flag, inotify, rpc, unread,
          event, cpc, handler, told>>

Owners == {"tail"}
KeyOf  == [o \in Owners |-> "modify"]

Monitors == INSTANCE InotifyMonitors
Tables   == INSTANCE NotifyEvent WITH waiter <- wpc

Init ==
    /\ config \in Configs /\ state = "INVALID"
    /\ xpc = "upload" /\ keepLooping = FALSE /\ flag = "none"
    /\ Monitors!MonitorsInit
    /\ rpc = "none" /\ unread = FALSE /\ items = FALSE /\ wpc = "top" /\ cpc = "none"
    /\ hpc = "none" /\ victim = NoThread /\ told = "no"

-----------------------------------------------------------------------------
(* The signal handler runs in the thread it interrupts.                    *)

Threads == {"exec", "intf", "comm"}
Runs(t) == victim # t

\* Where these threads may be inside consoleMsg(), with m_msgMutex.
Printing(t) ==
    \/ t = "exec" /\ xpc \in {"upload", "initDB", "load", "notify", "kill"}
    \/ t = "comm" /\ cpc \in {"test", "greet"}
    \/ t = "intf" /\ ipc \in {"start", "close"}

Alive(t) ==
    \/ t = "exec" /\ xpc \notin {"returned", "refused"}
    \/ t = "comm" /\ cpc \notin {"none", "ended"}
    \/ t = "intf" /\ flag # "none" /\ ipc # "ended"

Interrupted == IF cpc \in {"accept", "recv"} THEN "test" ELSE cpc

\* consoleMsg(), KEEP_LOOPING.store(false); the first never returns when the
\* interrupted thread is in a consoleMsg() itself.
\* Bound: no second signal, unless the first one is forgotten.
Signal(t) ==
    /\ hpc = "none" /\ told # "signal" /\ Alive(t)
    /\ victim' = t /\ told' = "signal"
    /\ \/ hpc' = "remove" /\ keepLooping' = FALSE
       \/ Printing(t) /\ hpc' = "stuck" /\ UNCHANGED keepLooping
    /\ UNCHANGED <<start, xpc, flag, inotify, rpc, unread, event, cpc>>

\* accept(), recv() and read() of the interrupted thread return EINTR.
HandlerReturns ==
    /\ hpc = "remove" /\ hpc' = "none" /\ victim' = NoThread
    /\ victim = "comm" => cpc # "stuck"
    /\ cpc' = IF victim = "comm" THEN Interrupted ELSE cpc
    /\ IF victim = "intf" THEN Monitors!ReadInterrupted ELSE UNCHANGED ipc
    /\ UNCHANGED <<start, xpc, keepLooping, targets, outcome, mpc, notifying, late,
                   buffer, rpc, unread, event, told>>

\* Mutant: the flag's file stays.
HandlerKeepsFlag == HandlerReturns /\ UNCHANGED <<flag, queue>>

\* Before exec() has named the flag there is nothing to remove.
HandlerRemovesFlag ==
    /\ HandlerReturns
    /\ IF flag = "present" THEN flag' = "removed" /\ Monitors!Event("exit")
                           ELSE UNCHANGED <<flag, queue>>

-----------------------------------------------------------------------------
(* The constructor.                                                        *)

Exec(from, to) == Runs("exec") /\ xpc = from /\ xpc' = to

UploadConfig ==
    /\ Exec("upload", IF Upload(config) = "INVALID" THEN "initDB" ELSE "refused")
    /\ state' = Upload(config)
    /\ config' = IF Upload(config) = "INVALID" /\ ~SoundConf(config) THEN config ELSE NoConfig
    /\ UNCHANGED <<keepLooping, flag, inotify, rpc, unread, event, cpc,
                   handler, told>>

\* initDB(): no connection; or SHOW TABLES breaks off, m_state says so and
\* the function returns true all the same.
InitDB ==
    /\ \/ Exec("initDB", "initComm") /\ UNCHANGED state
       \/ Exec("initDB", "initComm") /\ state' = "error"
       \/ Exec("initDB", "refused") /\ state' = "error"
    /\ UNCHANGED <<config, keepLooping, flag, inotify, rpc, unread, event, cpc,
                   handler, told>>

\* initCommServer(); m_state is overwritten, KEEP_LOOPING too: whoever told the
\* program to end before is forgotten.
InitComm ==
    /\ \/ Exec("initComm", "exec") /\ state' = "HEALTHY" /\ keepLooping' = TRUE
       \/ Exec("initComm", "refused") /\ UNCHANGED <<state, keepLooping>>
    /\ told' = IF xpc' = "exec" THEN "no" ELSE told
    /\ UNCHANGED <<config, flag, inotify, rpc, unread, event, cpc, handler>>

\* exec(): the exit flag, then the threads.
StartThreads ==
    /\ Exec("exec", "load")
    /\ flag' = "present"
    /\ cpc' = "test" /\ rpc' = "init"
    /\ UNCHANGED <<start, keepLooping, inotify, unread, event, handler, told>>

-----------------------------------------------------------------------------
(* exec(): the joins.                                                      *)

ExecMoves(from, to) ==
    /\ Exec(from, to)
    /\ UNCHANGED <<start, keepLooping, flag, inotify, rpc, unread, event, cpc,
                   handler, told>>

LoadDroppedIPs == ExecMoves("load", "joinInpt")
JoinInpt       == rpc = "ended" /\ ExecMoves("joinInpt", "joinIntf")
JoinIntf       == ipc = "ended" /\ ExecMoves("joinIntf", "notify")
JoinTables     == wpc = "done" /\ ExecMoves("joinTables", "kill")
JoinComm       == cpc = "ended" /\ ExecMoves("joinComm", "returned")

NotifyAll ==
    /\ Exec("notify", "joinTables")
    /\ Tables!NotifyNew
    /\ UNCHANGED <<start, keepLooping, flag, inotify, rpc, unread, cpc, handler,
                   told>>

\* pthread_kill(SIGUSR1): a signal before accept() or recv() interrupts
\* nothing, and one that finds m_msgMutex taken by commThread itself, or by
\* the handler it runs, never lets it go on.
KillComm ==
    /\ Exec("kill", "joinComm")
    /\ \/ cpc' = Interrupted
       \/ Printing("comm") /\ cpc' = "stuck"
       \/ victim = "comm" /\ hpc = "remove" /\ cpc' = "stuck"
    /\ UNCHANGED <<start, keepLooping, flag, inotify, rpc, unread, event, handler,
                   told>>

ExecStep == UploadConfig \/ InitDB \/ InitComm \/ StartThreads \/ LoadDroppedIPs
            \/ JoinInpt \/ JoinIntf \/ NotifyAll \/ JoinTables \/ KillComm \/ JoinComm

-----------------------------------------------------------------------------
(* The threads.                                                            *)

Comm(from, to) ==
    /\ Runs("comm") /\ cpc = from /\ cpc' = to
    /\ UNCHANGED <<start, xpc, flag, inotify, rpc, unread, event, handler>>

CommTest == /\ Comm("test", IF keepLooping THEN "about" ELSE "ended")
            /\ UNCHANGED <<keepLooping, told>>

\* accept() blocks; once there is a connection commThread says so, and recv()
\* blocks.
CommBlocks == /\ Comm("about", "accept") \/ Comm("greet", "recv")
              /\ UNCHANGED <<keepLooping, told>>

\* Somebody connects to the socket.
Connect == Comm("accept", "greet") /\ UNCHANGED <<keepLooping, told>>

\* "End of the ride message received...", or the client has closed.
CommRecv == /\ Comm("recv", "test")
            /\ \/ UNCHANGED <<keepLooping, told>>
               \/ /\ keepLooping' = FALSE
                  /\ told' = IF told = "no" THEN "message" ELSE told

\* All of it in the thread that holds m_mutex, the notification too.
IntfThread ==
    /\ flag # "none" /\ Runs("intf")
    /\ Monitors!IntfStep \/ Monitors!NotifyOwner
    /\ UNCHANGED <<start, xpc, keepLooping, flag, rpc, unread, event, cpc, handler,
                   told>>

MonitorStep(o) ==
    /\ Monitors!OwnerStep(o)
    /\ UNCHANGED <<start, xpc, keepLooping, flag, rpc, unread, event, cpc, handler,
                   told>>

SpuriousMonitor(o) ==
    /\ Monitors!SpuriousWakeup(o)
    /\ UNCHANGED <<start, xpc, keepLooping, flag, rpc, unread, event, cpc, handler,
                   told>>

Reader(from, to) ==
    /\ rpc = from /\ rpc' = to
    /\ UNCHANGED <<start, xpc, keepLooping, flag, targets, outcome, notifying, late, ipc,
                   queue, buffer, event, cpc, handler, told>>

\* initReadLogThread(): that of a lump may miss its notification (LumpFeed).
InitReadLog ==
    /\ UNCHANGED <<mpc, unread>>
    /\ \/ keepLooping /\ Reader("init", "read")
       \/ keepLooping /\ Reader("init", "stuck")
       \/ ~keepLooping /\ Reader("init", "ended")

\* One pass of while(KEEP_LOOPING): all the lines there are, or as far as the
\* line with which deliverToProcThreads() sleeps for ever (ConveyorBelt).
ReadLog ==
    /\ keepLooping /\ UNCHANGED mpc
    /\ \/ Reader("read", "eof") /\ unread' = FALSE
       \/ unread /\ Reader("read", "asleep") /\ UNCHANGED unread

\* Nobody has to wake it.
SpuriousReader == Reader("asleep", "read") /\ UNCHANGED <<mpc, unread>>

\* End of file: wait for a new line, if the program is still to go on.
Wait4Line ==
    /\ UNCHANGED unread
    /\ IF keepLooping THEN Reader("eof", "wait") /\ mpc' = [mpc EXCEPT !["tail"] = "register"]
                      ELSE Reader("eof", "read") /\ UNCHANGED mpc

\* Mutant: it waits again before it has read.
GotLineWaits ==
    /\ mpc["tail"] = "returned"
    /\ Reader("wait", "eof") /\ mpc' = [mpc EXCEPT !["tail"] = "out"]
    /\ UNCHANGED unread

GotLine ==
    /\ mpc["tail"] = "returned"
    /\ Reader("wait", "read") /\ mpc' = [mpc EXCEPT !["tail"] = "out"]
    /\ UNCHANGED unread

\* stopReadLogThread() joins the waiters for a first line (LumpFeed), then
\* shutDown() waits for processing threads that may never take EXIT or never
\* acknowledge it (RegexpPool), then these are joined, the rename monitor,
\* which intfThread frees, and the thread for the backlog, which has a belt
\* of its own.
StopReading ==
    /\ ~keepLooping /\ UNCHANGED <<mpc, unread>>
    /\ \/ ipc \in {"free", "ended"} /\ Reader("read", "ended")
       \/ Reader("read", "stuck")

ReaderStep == InitReadLog \/ ReadLog \/ Wait4Line \/ GotLine \/ StopReading
              \/ MonitorStep("tail")

\* No rows come: it is woken to end.
TableLoop ==
    /\ flag # "none"
    /\ \/ wpc = "top" /\ wpc' = (IF keepLooping THEN "test" ELSE "done") /\ UNCHANGED items
       \/ wpc = "awake" /\ wpc' = "top" /\ UNCHANGED items
       \/ Tables!Test \/ Tables!Block \/ Tables!Clear
    /\ UNCHANGED <<start, xpc, keepLooping, flag, inotify, rpc, unread, cpc,
                   handler, told>>

\* Another program adds a line to the log.
AddLine ==
    /\ flag # "none"
    /\ unread' = TRUE
    /\ Monitors!Event("modify")
    /\ UNCHANGED <<start, xpc, keepLooping, flag, targets, outcome, mpc, notifying, late,
                   ipc, buffer, rpc, event, cpc, handler, told>>

Terminated == xpc \in {"returned", "refused"} /\ UNCHANGED vars

Next ==
    \/ \E t \in Threads : Signal(t)
    \/ HandlerRemovesFlag \/ ExecStep \/ CommTest \/ CommBlocks \/ Connect \/ CommRecv
    \/ IntfThread \/ ReaderStep \/ SpuriousReader \/ TableLoop
    \/ \E o \in Owners : SpuriousMonitor(o)
    \/ AddLine \/ Terminated

Spec == Init /\ [][Next]_vars

(***************************************************************************)
(* Every thread runs when it can; nobody has to send a signal, a message   *)
(* or a line.                                                              *)
(***************************************************************************)
FairSpec ==
    /\ Spec /\ WF_vars(HandlerRemovesFlag) /\ WF_vars(ExecStep) /\ WF_vars(CommTest \/ CommBlocks)
    /\ WF_vars(IntfThread) /\ WF_vars(ReaderStep) /\ WF_vars(TableLoop)

-----------------------------------------------------------------------------
ReaderPlaces == {"none", "init", "read", "asleep", "eof", "wait", "stuck", "ended"}
CommPlaces   == {"none", "test", "about", "accept", "greet", "recv", "ended", "stuck"}

TypeOK ==
    /\ state \in {"INVALID", "error", "HEALTHY"}
    /\ xpc \in {"upload", "initDB", "initComm", "refused", "exec", "load", "joinInpt",
                "joinIntf", "notify", "joinTables", "kill", "joinComm", "returned"}
    /\ flag \in {"none", "present", "removed"}
    /\ keepLooping \in BOOLEAN /\ unread \in BOOLEAN /\ items \in BOOLEAN
    /\ Monitors!MonitorsTypeOK
    /\ rpc \in ReaderPlaces /\ cpc \in CommPlaces
    /\ hpc \in {"none", "remove", "stuck"}
    /\ victim \in Threads \cup {NoThread}
    /\ told \in {"no", "signal", "message"}

(***************************************************************************)
(* The threads are started only for a sound configuration: every item of   *)
(* every file once, at least one regexp, every log readable.               *)
(***************************************************************************)
StartsOnlySound ==
    state = "HEALTHY" => config = NoConfig \/ SoundConf(config)

(***************************************************************************)
(* A state in which a thread waits for what does not come any more, or     *)
(* only if somebody outside the program sends it.                          *)
(***************************************************************************)
Hangs ==
    \* Lost wake-ups: of a thread that waits for an event, of a table thread.
    \/ \E o \in Owners : Monitors!Forsaken(o)
    \/ items /\ wpc = "asleep"
    \* The reading thread, in a call that does not return.
    \/ rpc \in {"asleep", "stuck"}
    \* The signal to commThread came before accept() or recv().
    \/ cpc \in {"accept", "recv"} /\ xpc = "joinComm"
    \* No event: told by a message, or the flag went before the watch came.
    \/ ipc = "read" /\ queue = {} /\ (told = "message" \/ flag = "removed")
    \* A handler waits for the mutex of the thread it interrupted.
    \/ hpc = "stuck" \/ cpc = "stuck"

(***************************************************************************)
(* Told to end by a signal or a message, exec() joins every thread and     *)
(* returns, or it hangs in one of the ways of Hangs; a signal that comes   *)
(* while the constructor runs is forgotten when KEEP_LOOPING is set.       *)
(***************************************************************************)
EndsWhenTold ==
    (told # "no") ~> (xpc \in {"returned", "refused"} \/ told = "no" \/ Hangs)

(***************************************************************************)
(* A line whose event is in the queue, and for which the reading thread is *)
(* registered, is read while the program runs, unless the event finds that *)
(* thread between its test and its wait, or it sleeps with an earlier line *)
(* in deliverToProcThreads().                                              *)
(***************************************************************************)
WatchedIsRead ==
    (unread /\ "tail" \in targets /\ "modify" \in queue)
        ~> (~unread \/ ~keepLooping \/ Monitors!Forsaken("tail") \/ rpc = "asleep"
            \/ hpc = "stuck")
=============================================================================
