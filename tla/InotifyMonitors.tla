-------------------------- MODULE InotifyMonitors --------------------------
(***************************************************************************)
(* class INotifyObj: one thread, intfThread, reads the events of the       *)
(* watched directories and wakes the threads that wait for a line to be    *)
(* added to a file, or for a file to be renamed or removed.  An owner      *)
(* registers under m_mutex and then tests its outcome and waits under a    *)
(* mutex of its own, which nobody who sets the outcome takes.              *)
(*                                                                         *)
(* A key of m_inotifyTargets is the kind of monitor and the file.  Events  *)
(* that lie in the queue together are a set: read() takes them all.        *)
(***************************************************************************)
EXTENDS FiniteSets

CONSTANTS
    Owners,     \* the waiting threads, one call at a time each
    KeyOf,      \* the key each of them registers
    NoOwner

VARIABLES
    keepLooping,    \* LogScanner::KEEP_LOOPING, set by others
    targets,        \* m_inotifyTargets: the owners registered
    outcome,        \* the result of each owner
    mpc,            \* where each owner is in its call, "out" of any
    notifying,      \* the owner whose outcome is set, not yet notified
    late,           \* history: registered when intfThread had ended
    ipc,            \* where intfThread is
    queue,          \* events the kernel holds
    buffer          \* events of the last read()

Outcomes    == {"invalid", "false", "true"}     \* EVENT_INVALID, _FALSE, _TRUE
OwnerPlaces == {"out", "register", "test", "block", "asleep", "returned"}
IntfPlaces  == {"start", "test", "read", "handle", "close", "free", "ended"}

owners == <<targets, outcome, mpc, notifying, late>>
reader == <<ipc, queue, buffer>>

MonitorsInit ==
    /\ targets = {} /\ outcome = [o \in Owners |-> "invalid"]
    /\ mpc = [o \in Owners |-> "out"] /\ notifying = NoOwner /\ late = {}
    /\ ipc = "start" /\ queue = {} /\ buffer = {}

\* An event in a directory that has a watch.
Event(key) ==
    queue' = IF ipc \in {"start", "ended"} THEN queue ELSE queue \cup {key}

-----------------------------------------------------------------------------
(* monitorNewLineThread() and monitor4RenameThread().                      *)

Place(o, from, to) == mpc[o] = from /\ mpc' = [mpc EXCEPT ![o] = to]

\* Mutant: the result of the call before is still there.
RegisterStale(o) ==
    /\ notifying = NoOwner /\ ipc # "free"
    /\ Place(o, "register", "test")
    /\ targets' = targets \cup {o}
    /\ late' = IF ipc = "ended" THEN late \cup {o} ELSE late
    /\ UNCHANGED <<outcome, notifying, reader>>

\* addFile2inotify(): m_mutex is free.
Register(o) ==
    /\ notifying = NoOwner /\ ipc # "free"
    /\ Place(o, "register", "test")
    /\ targets' = targets \cup {o}
    /\ outcome' = [outcome EXCEPT ![o] = "invalid"]
    /\ late' = IF ipc = "ended" THEN late \cup {o} ELSE late
    /\ UNCHANGED <<notifying, reader>>

TestOutcome(o) ==
    /\ Place(o, "test", IF outcome[o] = "invalid" THEN "block" ELSE "returned")
    /\ UNCHANGED <<targets, outcome, notifying, late, reader>>

Block(o) ==
    /\ Place(o, "block", "asleep")
    /\ UNCHANGED <<targets, outcome, notifying, late, reader>>

SpuriousWakeup(o) ==
    /\ Place(o, "asleep", "test")
    /\ UNCHANGED <<targets, outcome, notifying, late, reader>>

OwnerStep(o) == Register(o) \/ TestOutcome(o) \/ Block(o)

-----------------------------------------------------------------------------
(* deleteMeAndNotifyOwner(), under m_mutex; the exit flag has no owner.    *)

SetOutcome(o, value) ==
    /\ notifying = NoOwner /\ o \in targets
    /\ targets' = targets \ {o}
    /\ outcome' = [outcome EXCEPT ![o] = value]
    /\ notifying' = o
    /\ UNCHANGED <<mpc, late>>

\* notify_one() reaches an owner that sleeps; one that has seen its outcome
\* meanwhile has returned and its condition variable is gone.
NotifyOwner ==
    /\ notifying # NoOwner
    /\ mpc' = IF mpc[notifying] = "asleep"
              THEN [mpc EXCEPT ![notifying] = "test"] ELSE mpc
    /\ notifying' = NoOwner
    /\ UNCHANGED <<targets, outcome, late, reader>>

NoneFor(keys) == notifying = NoOwner /\ \A o \in targets : KeyOf[o] \notin keys

-----------------------------------------------------------------------------
(* intfThread().                                                           *)

At(from, to) == ipc = from /\ ipc' = to

AddWatches == At("start", "test") /\ UNCHANGED <<owners, queue, buffer>>

TestLoop ==
    At("test", IF keepLooping THEN "read" ELSE "close")
        /\ UNCHANGED <<owners, queue, buffer>>

Read ==
    /\ queue # {}
    /\ At("read", "handle")
    /\ buffer' = queue /\ queue' = {}
    /\ UNCHANGED owners

\* read() returns -1 with EINTR.
ReadInterrupted == ipc' = IF ipc = "read" THEN "test" ELSE ipc

\* Everyone who monitors that file for that event.
Handle ==
    /\ ipc = "handle"
    /\ \E o \in targets : KeyOf[o] \in buffer /\ SetOutcome(o, "true")
    /\ UNCHANGED reader

Handled ==
    /\ NoneFor(buffer)
    /\ At("handle", "test") /\ buffer' = {}
    /\ UNCHANGED <<owners, queue>>

\* The descriptor is closed, then m_mutex is taken for all of the release.
CloseWatches ==
    /\ notifying = NoOwner
    /\ At("close", "free") /\ UNCHANGED <<owners, queue, buffer>>

\* "We are done, free up everybody..."
FreeUp ==
    /\ ipc = "free"
    /\ \E o \in targets : SetOutcome(o, "false")
    /\ UNCHANGED reader

IntfEnds ==
    /\ At("free", "ended")
    /\ targets = {} /\ notifying = NoOwner
    /\ UNCHANGED <<owners, queue, buffer>>

IntfStep == AddWatches \/ TestLoop \/ Read \/ Handle \/ Handled \/ CloseWatches
            \/ FreeUp \/ IntfEnds

-----------------------------------------------------------------------------
MonitorsTypeOK ==
    /\ targets \subseteq Owners /\ outcome \in [Owners -> Outcomes]
    /\ mpc \in [Owners -> OwnerPlaces] /\ notifying \in Owners \cup {NoOwner}
    /\ ipc \in IntfPlaces /\ late \subseteq Owners
    /\ targets = {o \in Owners : outcome[o] = "invalid"
                                   /\ mpc[o] \in {"test", "block", "asleep"}}

\* An owner that sleeps and that nobody will notify: its outcome was set
\* between its test and its wait, or intfThread had ended when it registered.
Forsaken(o) ==
    /\ mpc[o] = "asleep"
    /\ \/ outcome[o] # "invalid" /\ notifying # o
       \/ o \in late
=============================================================================
