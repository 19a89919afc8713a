---------------------------- MODULE ConveyorBelt ----------------------------
(***************************************************************************)
(* class ConveyorBelt: one reading thread (logReadingThread or             *)
(* catchUpLogThread) delivers lines, a crew of processing threads accepts  *)
(* them, and shutDown() dismisses the crew with one EXIT line each.        *)
(*                                                                         *)
(* Steps are cut where another thread can get in: every semaphore          *)
(* operation, every acquisition of m_queueGuard, and the gap between       *)
(* reading m_lineBuffer.size() and falling asleep on the condition         *)
(* variable, whose mutex is local to the call and so excludes nobody.      *)
(***************************************************************************)
EXTENDS Integers, Sequences, FiniteSets

CONSTANTS
    Procs,          \* the processing threads sharing the belt
    MaxQueueSize,   \* m_maxQueueSize
    MaxLines,       \* bound: lines the reading thread may deliver
    TornSize        \* size() racing with pop() may return anything (UB)

EXIT   == 0                 \* the line "EXIT"
Lines  == 1 .. MaxLines     \* log lines, numbered in the order they are read
NoItem == -1                \* what a thread that has accepted nothing holds
Nobody == NoItem            \* m_queueGuard is free

\* Both owners of a belt start exactly m_maxQueueSize processing threads.
ASSUME BeltAssumption ==
    /\ IsFiniteSet(Procs) /\ Nobody \notin Procs
    /\ MaxQueueSize \in Nat \ {0}
    /\ Cardinality(Procs) = MaxQueueSize
    /\ MaxLines \in Nat
    /\ TornSize \in BOOLEAN

VARIABLES
    rpc,        \* where the reading thread is
    sent,       \* number of log lines pushed so far
    exiting,    \* the reading thread is inside shutDown()
    exits,      \* procThreadID: iterations of shutDown's loop completed
    buffer,     \* m_lineBuffer
    guard,      \* holder of m_queueGuard inside acceptFromReadThread
    loopSem,    \* m_loopSemaphore
    exitSem,    \* m_exitSemaphore
    cpc,        \* where each processing thread is
    line,       \* the line each processing thread has copied out
    popped,     \* history: number of log lines popped
    processed   \* history: the log lines a processing thread is done with

rvars == <<rpc, sent, exiting, exits>>
hist  == <<popped, processed>>
vars  == <<rpc, sent, exiting, exits, buffer, guard, loopSem, exitSem,
           cpc, line, popped, processed>>

Init ==
    /\ rpc = "fetch" /\ sent = 0 /\ exiting = FALSE /\ exits = 0
    /\ buffer = <<>> /\ guard = Nobody /\ loopSem = 0 /\ exitSem = 0
    /\ cpc = [p \in Procs |-> "accept"]
    /\ line = [p \in Procs |-> NoItem]
    /\ popped = 0 /\ processed = {}

-----------------------------------------------------------------------------
(* The reading thread.                                                     *)

\* What an unsynchronised m_lineBuffer.size() can return.
SizeReads == {Len(buffer)} \cup
             (IF TornSize /\ guard # Nobody THEN 0 .. MaxQueueSize + 1 ELSE {})

\* The line the current call of deliverToProcThreads carries.
Delivering == IF exiting THEN EXIT ELSE sent + 1

Fetch ==
    /\ rpc = "fetch" /\ sent < MaxLines
    /\ rpc' = "check"
    /\ UNCHANGED <<sent, exiting, exits, buffer, guard, loopSem, exitSem,
                   cpc, line, hist>>

\* KEEP_LOOPING goes false or RESTART_THREAD true: shutDown() is entered.
StopReading ==
    /\ rpc = "fetch"
    /\ rpc' = "drain"
    /\ exiting' = TRUE
    /\ UNCHANGED <<sent, exits, buffer, guard, loopSem, exitSem, cpc, line,
                   hist>>

CheckSize ==
    /\ rpc = "check"
    /\ \E n \in SizeReads :
          rpc' = IF n = MaxQueueSize THEN "block" ELSE "push"
    /\ UNCHANGED <<sent, exiting, exits, buffer, guard, loopSem, exitSem,
                   cpc, line, hist>>

\* m_deliverConditionVariable.wait(lock): from here on a notify is seen.
Block ==
    /\ rpc = "block"
    /\ rpc' = "asleep"
    /\ UNCHANGED <<sent, exiting, exits, buffer, guard, loopSem, exitSem,
                   cpc, line, hist>>

\* A condition variable may wake up with no notification.
SpuriousWakeup ==
    /\ rpc = "asleep"
    /\ rpc' = "check"
    /\ UNCHANGED <<sent, exiting, exits, buffer, guard, loopSem, exitSem,
                   cpc, line, hist>>

Push ==
    /\ rpc = "push" /\ guard = Nobody
    /\ buffer' = Append(buffer, Delivering)
    /\ sent' = IF exiting THEN sent ELSE sent + 1
    /\ rpc' = "post"
    /\ UNCHANGED <<exiting, exits, guard, loopSem, exitSem, cpc, line, hist>>

\* Mutant: a binary semaphore.
PostLoopBinary ==
    /\ rpc = "post"
    /\ loopSem' = 1
    /\ rpc' = IF exiting THEN "ackwait" ELSE "fetch"
    /\ UNCHANGED <<sent, exiting, exits, buffer, guard, exitSem, cpc, line,
                   hist>>

PostLoop ==
    /\ rpc = "post"
    /\ loopSem' = loopSem + 1
    /\ rpc' = IF exiting THEN "ackwait" ELSE "fetch"
    /\ UNCHANGED <<sent, exiting, exits, buffer, guard, exitSem, cpc, line,
                   hist>>

\* The polling loop of shutDown: another 100ms unless the buffer is empty.
Drained ==
    /\ rpc = "drain"
    /\ \E n \in SizeReads : n = 0
    /\ rpc' = "exits"
    /\ UNCHANGED <<sent, exiting, exits, buffer, guard, loopSem, exitSem,
                   cpc, line, hist>>

\* Mutant: one EXIT too few.
NextExitShort ==
    /\ rpc = "exits"
    /\ rpc' = IF exits + 1 < MaxQueueSize THEN "check" ELSE "done"
    /\ UNCHANGED <<sent, exiting, exits, buffer, guard, loopSem, exitSem,
                   cpc, line, hist>>

\* The for loop of shutDown: deliver one more EXIT, or return.
NextExit ==
    /\ rpc = "exits"
    /\ rpc' = IF exits < MaxQueueSize THEN "check" ELSE "done"
    /\ UNCHANGED <<sent, exiting, exits, buffer, guard, loopSem, exitSem,
                   cpc, line, hist>>

\* Mutant: the acknowledgement is looked at and not consumed.
PeekExitAck ==
    /\ rpc = "ackwait" /\ exitSem > 0
    /\ exits' = exits + 1
    /\ rpc' = "exits"
    /\ UNCHANGED <<sent, exiting, buffer, guard, loopSem, exitSem, cpc, line,
                   hist>>

WaitExitAck ==
    /\ rpc = "ackwait" /\ exitSem > 0
    /\ exitSem' = exitSem - 1
    /\ exits' = exits + 1
    /\ rpc' = "exits"
    /\ UNCHANGED <<sent, exiting, buffer, guard, loopSem, cpc, line, hist>>

-----------------------------------------------------------------------------
(* A processing thread: acceptFromReadThread, its work, notifyExit.        *)

WaitLoop(p) ==
    /\ cpc[p] = "accept" /\ loopSem > 0
    /\ loopSem' = loopSem - 1
    /\ cpc' = [cpc EXCEPT ![p] = "lock"]
    /\ UNCHANGED <<rvars, buffer, guard, exitSem, line, hist>>

CopyFront(p) ==
    /\ cpc[p] = "lock" /\ guard = Nobody
    /\ guard' = p
    /\ line' = [line EXCEPT ![p] = buffer[1]]
    /\ cpc' = [cpc EXCEPT ![p] = "pop"]
    /\ UNCHANGED <<rvars, buffer, loopSem, exitSem, hist>>

\* Mutant: pop_back.
PopBack(p) ==
    /\ cpc[p] = "pop"
    /\ buffer' = SubSeq(buffer, 1, Len(buffer) - 1)
    /\ guard' = Nobody
    /\ popped' = IF line[p] = EXIT THEN popped ELSE popped + 1
    /\ cpc' = [cpc EXCEPT ![p] = "notify"]
    /\ UNCHANGED <<rvars, loopSem, exitSem, line, processed>>

Pop(p) ==
    /\ cpc[p] = "pop"
    /\ buffer' = Tail(buffer)
    /\ guard' = Nobody
    /\ popped' = IF line[p] = EXIT THEN popped ELSE popped + 1
    /\ cpc' = [cpc EXCEPT ![p] = "notify"]
    /\ UNCHANGED <<rvars, loopSem, exitSem, line, processed>>

\* Mutant: EXIT is evaluated like any other line.
NotifyIgnoresExit(p) ==
    /\ cpc[p] = "notify"
    /\ rpc' = IF rpc = "asleep" THEN "check" ELSE rpc
    /\ cpc' = [cpc EXCEPT ![p] = "work"]
    /\ UNCHANGED <<sent, exiting, exits, buffer, guard, loopSem, exitSem,
                   line, hist>>

\* notify_one reaches the reading thread only if it already sleeps.
Notify(p) ==
    /\ cpc[p] = "notify"
    /\ rpc' = IF rpc = "asleep" THEN "check" ELSE rpc
    /\ cpc' = [cpc EXCEPT ![p] = IF line[p] = EXIT THEN "leave" ELSE "work"]
    /\ UNCHANGED <<sent, exiting, exits, buffer, guard, loopSem, exitSem,
                   line, hist>>

\* The line goes through the regexps and its position is written.
Process(p) ==
    /\ cpc[p] = "work"
    /\ processed' = processed \cup {line[p]}
    /\ cpc' = [cpc EXCEPT ![p] = "accept"]
    /\ UNCHANGED <<rvars, buffer, guard, loopSem, exitSem, line, popped>>

\* With EXIT too the thread has to get through the barrier of its pool before it
\* leaves its loop, and a regexp thread may have left without coming to that
\* barrier, which then never fills (see RegexpPool).
LeavePool(p) ==
    /\ cpc[p] = "leave"
    /\ \E at \in {"ack", "stuck"} : cpc' = [cpc EXCEPT ![p] = at]
    /\ UNCHANGED <<rvars, buffer, guard, loopSem, exitSem, line, hist>>

\* Mutant: no semaphore is posted.
NotifyExitSilent(p) ==
    /\ cpc[p] = "ack"
    /\ cpc' = [cpc EXCEPT ![p] = "gone"]
    /\ UNCHANGED <<rvars, buffer, guard, loopSem, exitSem, line, hist>>

NotifyExit(p) ==
    /\ cpc[p] = "ack"
    /\ exitSem' = exitSem + 1
    /\ cpc' = [cpc EXCEPT ![p] = "gone"]
    /\ UNCHANGED <<rvars, buffer, guard, loopSem, line, hist>>

-----------------------------------------------------------------------------
ReaderStep == CheckSize \/ Block \/ Push \/ PostLoop \/ Drained \/ NextExit
              \/ WaitExitAck

ProcStep(p) == WaitLoop(p) \/ CopyFront(p) \/ Pop(p) \/ Notify(p)
               \/ Process(p) \/ LeavePool(p) \/ NotifyExit(p)

\* Threads that never come out of the barrier of their pool.
Stuck == {p \in Procs : cpc[p] = "stuck"}

\* shutDown() has returned and every thread has left, or it waits for ever.
Terminated == (rpc = "done" \/ Stuck # {}) /\ UNCHANGED vars

Next == Fetch \/ StopReading \/ SpuriousWakeup \/ ReaderStep \/ Terminated
        \/ \E p \in Procs : ProcStep(p)

Spec == Init /\ [][Next]_vars

(***************************************************************************)
(* The scheduler runs every runnable thread.  Nothing obliges the log to   *)
(* grow (Fetch), the operator to stop the program (StopReading) or a       *)
(* condition variable to wake up spuriously.                               *)
(***************************************************************************)
FairSpec == Spec /\ WF_vars(ReaderStep)
                 /\ \A p \in Procs : WF_vars(ProcStep(p))

-----------------------------------------------------------------------------
Gone     == {p \in Procs : cpc[p] = "gone"}
\* Threads that own an item still on the belt: past the semaphore, before pop.
Claiming == {p \in Procs : cpc[p] \in {"lock", "pop"}}
\* Threads working on a log line they took off the belt.
Holding(p) == cpc[p] \in {"notify", "work"} /\ line[p] # EXIT

TypeOK ==
    /\ rpc \in {"fetch", "check", "block", "asleep", "push", "post",
                "drain", "exits", "ackwait", "done"}
    /\ sent \in 0 .. MaxLines /\ exiting \in BOOLEAN /\ exits \in Nat
    /\ buffer \in Seq(Lines \cup {EXIT})
    /\ guard \in Procs \cup {Nobody}
    /\ loopSem \in Nat /\ exitSem \in Nat
    /\ cpc \in [Procs -> {"accept", "lock", "pop", "notify", "work", "ack",
                          "gone", "leave", "stuck"}]
    /\ line \in [Procs -> Lines \cup {EXIT, NoItem}]
    /\ popped \in 0 .. MaxLines /\ processed \subseteq Lines

(***************************************************************************)
(* acceptFromReadThread pops what its semaphore unit stands for: units not *)
(* yet taken, threads on their way to pop and the push not yet posted      *)
(* account for every item, so front() never runs on an empty queue.        *)
(***************************************************************************)
SemaphoreBalance ==
    loopSem + Cardinality(Claiming) + (IF rpc = "post" THEN 1 ELSE 0)
        = Len(buffer)

(***************************************************************************)
(* The bound of deliverToProcThreads holds although it is tested without   *)
(* m_queueGuard and possibly on a torn size().                             *)
(***************************************************************************)
WithinCapacity == Len(buffer) <= MaxQueueSize

(***************************************************************************)
(* Lines leave the belt in the order they were read, none lost and none    *)
(* duplicated: the belt holds the lines after the popped ones, consecutive *)
(* and in order, with EXIT only behind them.                               *)
(***************************************************************************)
InOrder ==
    \A i \in 1 .. Len(buffer) :
        buffer[i] = IF popped + i <= sent THEN popped + i ELSE EXIT

(***************************************************************************)
(* Every line taken off the belt is in the hands of exactly one processing *)
(* thread or has been processed, once.                                     *)
(***************************************************************************)
TakenOnce ==
    /\ {line[p] : p \in {q \in Procs : Holding(q)}} \cup processed
          = 1 .. popped
    /\ \A p \in Procs : Holding(p) => line[p] \notin processed
    /\ \A p, q \in Procs : Holding(p) /\ Holding(q) /\ line[p] = line[q]
                              => p = q

(***************************************************************************)
(* When shutDown() returns, every processing thread has left its loop and  *)
(* every line delivered has been processed: the joins that follow cannot   *)
(* block on the belt and the belt can be destroyed.                        *)
(***************************************************************************)
ShutDownComplete ==
    rpc = "done" => /\ Gone = Procs
                    /\ buffer = <<>>
                    /\ processed = 1 .. sent
                    /\ exitSem = 0

-----------------------------------------------------------------------------
(* The inductive invariant behind the safety properties.                   *)

\* Threads that hold EXIT and have not acknowledged it yet.
Leaving == {p \in Procs : /\ cpc[p] \in {"notify", "leave", "stuck", "ack"}
                          /\ line[p] = EXIT}

\* m_queueGuard belongs to the thread copying the front of the queue out.
GuardOwned ==
    \A p \in Procs : /\ (guard = p) <=> (cpc[p] = "pop")
                     /\ cpc[p] = "pop" => /\ buffer # <<>>
                                          /\ line[p] = buffer[1]

\* What a thread's copy of the line can be at each of its steps.
LineAtStep ==
    \A p \in Procs : /\ cpc[p] = "work" => line[p] \in Lines
                     /\ cpc[p] = "notify" => line[p] # NoItem
                     /\ cpc[p] \in {"leave", "stuck", "ack", "gone"}
                          => line[p] = EXIT

\* EXIT exists only inside shutDown(), and reaches nobody before the last line.
ExitIsLast ==
    \A p \in Procs : line[p] = EXIT =>
        /\ exiting
        /\ cpc[p] \in {"notify", "leave", "stuck", "ack", "gone"}
             => popped = sent

ReaderPhase ==
    /\ rpc = "fetch" => ~exiting
    /\ rpc \in {"drain", "exits", "ackwait", "done"} => exiting
    /\ ~exiting /\ rpc \in {"check", "block", "asleep", "push"}
          => sent < MaxLines
    /\ ~exiting => exits = 0
    /\ exits <= MaxQueueSize
    /\ exiting /\ rpc \in {"check", "block", "asleep", "push", "post",
                           "ackwait"} => exits < MaxQueueSize
    /\ rpc = "done" => exits = MaxQueueSize
    /\ rpc = "push" => Len(buffer) < MaxQueueSize \/ guard # Nobody

\* Every acknowledged EXIT has sent one thread home, and at most one EXIT
\* is on its way: on the belt, in a thread's hands or being acknowledged.
ExitBalance ==
    /\ Cardinality(Gone) = exits + exitSem
    /\ popped <= sent
    /\ Len(buffer) >= sent - popped
    /\ Len(buffer) - (sent - popped) + Cardinality(Leaving) + exitSem
          = IF exiting /\ rpc \in {"post", "ackwait"} THEN 1 ELSE 0

IndInv == /\ TypeOK /\ GuardOwned /\ LineAtStep /\ ExitIsLast /\ ReaderPhase
          /\ SemaphoreBalance /\ WithinCapacity /\ InOrder /\ TakenOnce
          /\ ExitBalance

-----------------------------------------------------------------------------
(***************************************************************************)
(* A line that is on the belt is processed in the end, whatever becomes of *)
(* the reading thread.                                                     *)
(***************************************************************************)
DeliveredIsProcessed == \A n \in Lines : (sent >= n) ~> (n \in processed)

(***************************************************************************)
(* Once entered, shutDown() returns (it delivers each EXIT on a belt that  *)
(* the previous EXIT has left, so its deliveries never block), unless the  *)
(* barrier of some thread's pool never fills at EXIT.                      *)
(***************************************************************************)
ShutDownReturns == (rpc = "drain") ~> (rpc = "done" \/ Stuck # {})

(***************************************************************************)
(* doc/README.txt:82: "Each line read by the Input Thread is handed to any *)
(* available standby processing thread": deliverToProcThreads, once        *)
(* called, hands its line over.                                            *)
(***************************************************************************)
DeliverReturns == (rpc = "check" /\ ~exiting) ~> (rpc = "post")

(***************************************************************************)
(* Refinement: a line is on the abstract belt until pop(), and in its      *)
(* taker's hand from then on.                                              *)
(***************************************************************************)
HeldBy == [p \in Procs |-> IF cpc[p] \in {"accept", "lock", "pop"}
                           THEN NoItem ELSE line[p]]

Handoff == INSTANCE LineHandoff WITH
    Workers <- Procs, Capacity <- MaxQueueSize,
    queue <- buffer, held <- HeldBy, finished <- processed,
    closed <- (rpc = "done")

(* The belt implements the bounded hand-off.                               *)
ImplementsHandoff == Handoff!HSpec
=============================================================================
