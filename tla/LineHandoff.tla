---------------------------- MODULE LineHandoff ----------------------------
(***************************************************************************)
(* What a ConveyorBelt promises to the threads that share it: a bounded    *)
(* first-in first-out hand-off of items from one producer to a fixed crew  *)
(* of workers.  An item is taken by exactly one worker, a worker holds one *)
(* item at a time, the item EXIT sends its taker home, and the belt is     *)
(* closed only when every worker is gone and nothing is left on it.        *)
(***************************************************************************)
EXTENDS Integers, Sequences

CONSTANTS Workers,    \* the crew of threads that take items
          Capacity,   \* the most items that wait on the belt
          Lines,      \* the items that are work
          EXIT,       \* the item that sends its taker home
          NoItem      \* an empty hand

VARIABLES queue,      \* items offered and not yet taken, oldest first
          held,       \* the item each worker holds, or NoItem
          finished,   \* the lines whose work is done
          closed      \* the producer has seen the crew off

hvars == <<queue, held, finished, closed>>

HInit ==
    /\ queue = <<>>
    /\ held = [w \in Workers |-> NoItem]
    /\ finished = {}
    /\ closed = FALSE

Offer ==
    /\ ~closed
    /\ Len(queue) < Capacity
    /\ \E x \in Lines \cup {EXIT} : queue' = Append(queue, x)
    /\ UNCHANGED <<held, finished, closed>>

Take(w) ==
    /\ queue # <<>>
    /\ held[w] = NoItem
    /\ held' = [held EXCEPT ![w] = Head(queue)]
    /\ queue' = Tail(queue)
    /\ UNCHANGED <<finished, closed>>

\* A worker that holds EXIT never puts it down.
Finish(w) ==
    /\ held[w] \in Lines
    /\ finished' = finished \cup {held[w]}
    /\ held' = [held EXCEPT ![w] = NoItem]
    /\ UNCHANGED <<queue, closed>>

Close ==
    /\ queue = <<>>
    /\ \A w \in Workers : held[w] = EXIT
    /\ closed' = TRUE
    /\ UNCHANGED <<queue, held, finished>>

HNext == Offer \/ Close \/ \E w \in Workers : Take(w) \/ Finish(w)

HSpec == HInit /\ [][HNext]_hvars
=============================================================================
