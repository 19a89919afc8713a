---------------------------- MODULE NotifyEvent ----------------------------
(***************************************************************************)
(* class NotifyEvent: an atomic flag and a condition variable between the  *)
(* threads that add rows to a table and the one thread that works on them. *)
(* The mutex of wait4NotifyNew is local to the call, so a notification can *)
(* come between the test of the flag and the wait.                         *)
(*                                                                         *)
(* `waiter' is the place of the working thread; its places inside          *)
(* wait4NotifyNew and recordsPending are the ones below, the others belong *)
(* to its caller.                                                          *)
(***************************************************************************)
VARIABLES items,    \* m_itemsInQueue
          waiter    \* where the working thread is

InWait    == {"test", "block", "asleep", "clear"}
InPending == {"load", "resetTrue", "resetFalse"}
\* Places at which the calls return.
Returned  == {"awake", "pending", "none"}

\* notifyNew(): store and notify_one, which reaches only a sleeping thread.
NotifyNew ==
    /\ items' = TRUE
    /\ waiter' = IF waiter = "asleep" THEN "test" ELSE waiter

\* wait4NotifyNew()
Test ==
    /\ waiter = "test"
    /\ waiter' = IF items THEN "clear" ELSE "block"
    /\ UNCHANGED items

Block ==
    /\ waiter = "block"
    /\ waiter' = "asleep"
    /\ UNCHANGED items

SpuriousWakeup ==
    /\ waiter = "asleep"
    /\ waiter' = "test"
    /\ UNCHANGED items

Clear ==
    /\ waiter = "clear"
    /\ items' = FALSE
    /\ waiter' = "awake"

\* recordsPending(): a load and a store, not an exchange.
LoadPending ==
    /\ waiter = "load"
    /\ waiter' = IF items THEN "resetTrue" ELSE "resetFalse"
    /\ UNCHANGED items

ResetPending ==
    /\ waiter \in {"resetTrue", "resetFalse"}
    /\ items' = FALSE
    /\ waiter' = IF waiter = "resetTrue" THEN "pending" ELSE "none"

EventStep == Test \/ Block \/ Clear \/ LoadPending \/ ResetPending
=============================================================================
