------------------------------ MODULE SqlSpool ------------------------------
(***************************************************************************)
(* The way of a row into one SQL table.  The insertInto*Table functions    *)
(* write the statement to run/sql/<table>/<timestamp>.tmp, rename it to    *)
(* .txt and call notifyNew(); the execSqlInsert thread of the table waits  *)
(* for the notification, runs the statement of every .txt file, removes    *)
(* the file and forwards the notification.  Files survive a crash, the     *)
(* flag and the threads do not.                                            *)
(***************************************************************************)
EXTENDS Integers, FiniteSets

CONSTANTS
    Records,        \* the statements that may be written, one file each
    Writers,        \* threads that call insertInto*Table for this table
    InputWriters,   \* those of them that exec() joins before it notifies
    MaxCrashes      \* bound: times the process dies and is started again

ASSUME SpoolAssumption == /\ IsFiniteSet(Records)
                          /\ InputWriters \subseteq Writers
                          /\ MaxCrashes \in Nat

NoRecord == "no record"
ASSUME NoRecordAssumption == NoRecord \notin Records

VARIABLES
    tmp,        \* run/sql/<table>/*.tmp
    spool,      \* run/sql/<table>/*.txt
    sqlErr,     \* run/sql_err
    db,         \* how many times the statement of a record was executed
    items,      \* the table's NotifyEvent: its flag ...
    spc,        \* ... and where the execSqlInsert thread is
    toVisit,    \* what the directory_iterator has still to return
    cur,        \* the file the execSqlInsert thread has open
    wpc,        \* where each writer is
    wrec,       \* the record it is writing
    forwarded,  \* flag of the NotifyEvent of the thread downstream
    life,       \* "running", "stopping" (KEEP_LOOPING false), "notified"
    crashes,    \* crashes so far
    published   \* history: records renamed to .txt

disk  == <<tmp, spool, sqlErr, db, published>>
wvars == <<wpc, wrec>>
vars  == <<tmp, spool, sqlErr, db, items, spc, toVisit, cur, wpc, wrec,
           forwarded, life, crashes, published>>

TableEvent == INSTANCE NotifyEvent WITH waiter <- spc

keepLooping == life = "running"

Init ==
    /\ tmp = {} /\ spool = {} /\ sqlErr = {} /\ db = [r \in Records |-> 0]
    /\ items = FALSE /\ spc = "top" /\ toVisit = {} /\ cur = NoRecord
    /\ wpc = [w \in Writers |-> "idle"]
    /\ wrec = [w \in Writers |-> NoRecord]
    /\ forwarded = FALSE /\ life = "running" /\ crashes = 0
    /\ published = {}

-----------------------------------------------------------------------------
(* A writer: insertInto{Seen,Audt,Eval,Hist,Drop}Table.                    *)

Fresh(r) == r \notin tmp \cup published

WriteTmp(w) ==
    /\ wpc[w] = "idle"
    /\ w \in InputWriters => life # "notified"
    /\ \E r \in Records :
          /\ Fresh(r)
          /\ tmp' = tmp \cup {r}
          /\ wrec' = [wrec EXCEPT ![w] = r]
    /\ wpc' = [wpc EXCEPT ![w] = "written"]
    /\ UNCHANGED <<spool, sqlErr, db, items, spc, toVisit, cur, forwarded,
                   life, crashes, published>>

Publish(w) ==
    /\ wpc[w] = "written"
    /\ tmp' = tmp \ {wrec[w]}
    /\ spool' = spool \cup {wrec[w]}
    /\ published' = published \cup {wrec[w]}
    /\ wpc' = [wpc EXCEPT ![w] = "renamed"]
    /\ UNCHANGED <<sqlErr, db, items, spc, toVisit, cur, wrec, forwarded, life,
                   crashes>>

NotifySpool(w) ==
    /\ wpc[w] = "renamed"
    /\ TableEvent!NotifyNew
    /\ wpc' = [wpc EXCEPT ![w] = "idle"]
    /\ wrec' = [wrec EXCEPT ![w] = NoRecord]
    /\ UNCHANGED <<disk, toVisit, cur, forwarded, life, crashes>>

-----------------------------------------------------------------------------
(* The execSqlInsert thread.                                               *)

Goto(from, to) == spc = from /\ spc' = to

\* while(KEEP_LOOPING): wait4NotifyNew is called, or the thread returns.
Top ==
    /\ Goto("top", IF keepLooping THEN "test" ELSE "done")
    /\ UNCHANGED <<disk, items, toVisit, cur, wvars, forwarded, life, crashes>>

InEvent ==
    /\ TableEvent!EventStep
    /\ UNCHANGED <<disk, toVisit, cur, wvars, forwarded, life, crashes>>

SpuriousWakeup ==
    /\ TableEvent!SpuriousWakeup
    /\ UNCHANGED <<disk, toVisit, cur, wvars, forwarded, life, crashes>>

\* wait4NotifyNew has returned: connectToDB(), however long it takes.
Connect ==
    /\ Goto("awake", IF keepLooping THEN "loop" ELSE "top")
    /\ UNCHANGED <<disk, items, toVisit, cur, wvars, forwarded, life, crashes>>

\* while(KEEP_LOOPING && recordsPending())
Loop ==
    /\ Goto("loop", IF keepLooping THEN "load" ELSE "top")
    /\ UNCHANGED <<disk, items, toVisit, cur, wvars, forwarded, life, crashes>>

NonePending ==
    /\ Goto("none", "top")
    /\ UNCHANGED <<disk, items, toVisit, cur, wvars, forwarded, life, crashes>>

OpenDirectory ==
    /\ Goto("pending", "scan")
    /\ toVisit' = spool
    /\ UNCHANGED <<disk, items, cur, wvars, forwarded, life, crashes>>

\* Mutants: a file that is not there is "opened", a file is removed when opened.
NextFileAny ==
    /\ Goto("scan", "execute")
    /\ keepLooping
    /\ \E r \in spool \cup {NoRecord} :
          /\ cur' = r
          /\ toVisit' = toVisit \ {r}
    /\ UNCHANGED <<disk, items, wvars, forwarded, life, crashes>>

NextFileRemoved ==
    /\ Goto("scan", "execute")
    /\ keepLooping
    /\ \E r \in spool :
          /\ cur' = r
          /\ toVisit' = toVisit \ {r}
          /\ spool' = spool \ {r}
    /\ UNCHANGED <<tmp, sqlErr, db, published, items, wvars, forwarded, life,
                   crashes>>

\* A file added to the directory behind the iterator may be returned or not.
NextFile ==
    /\ Goto("scan", "execute")
    /\ keepLooping
    /\ \E r \in spool :
          /\ cur' = r
          /\ toVisit' = toVisit \ {r}
    /\ UNCHANGED <<disk, items, wvars, forwarded, life, crashes>>

EndOfDirectory ==
    /\ Goto("scan", "loop")
    /\ ~keepLooping \/ toVisit = {}
    /\ toVisit' = {}
    /\ UNCHANGED <<disk, items, cur, wvars, forwarded, life, crashes>>

Execute ==
    /\ Goto("execute", "remove")
    /\ db' = [db EXCEPT ![cur] = @ + 1]
    /\ UNCHANGED <<tmp, spool, sqlErr, published, items, toVisit, cur, wvars,
                   forwarded, life, crashes>>

\* Mutant: the loop over the files is left.
RejectEndsScan ==
    /\ Goto("execute", "loop")
    /\ spool' = spool \ {cur}
    /\ sqlErr' = sqlErr \cup {cur}
    /\ cur' = NoRecord /\ toVisit' = {}
    /\ UNCHANGED <<tmp, db, published, items, wvars, forwarded, life, crashes>>

\* SQLException: the file is moved to run/sql_err.
Reject ==
    /\ Goto("execute", "scan")
    /\ spool' = spool \ {cur}
    /\ sqlErr' = sqlErr \cup {cur}
    /\ cur' = NoRecord
    /\ UNCHANGED <<tmp, db, published, items, toVisit, wvars, forwarded, life,
                   crashes>>

\* Mutant: the file stays.
RemoveNothing ==
    /\ Goto("remove", "forward")
    /\ UNCHANGED <<disk, items, toVisit, cur, wvars, forwarded, life, crashes>>

Remove ==
    /\ Goto("remove", "forward")
    /\ spool' = spool \ {cur}
    /\ UNCHANGED <<tmp, sqlErr, db, published, items, toVisit, cur, wvars,
                   forwarded, life, crashes>>

Forward ==
    /\ Goto("forward", "scan")
    /\ forwarded' = TRUE
    /\ cur' = NoRecord
    /\ UNCHANGED <<disk, items, toVisit, wvars, life, crashes>>

SqlThread == Top \/ InEvent \/ Connect \/ Loop \/ NonePending \/ OpenDirectory
             \/ NextFile \/ EndOfDirectory \/ Execute \/ Reject \/ Remove
             \/ Forward

-----------------------------------------------------------------------------
(* The thread downstream takes its notification.                           *)
TakeForwarded ==
    /\ forwarded
    /\ forwarded' = FALSE
    /\ UNCHANGED <<disk, items, spc, toVisit, cur, wvars, life, crashes>>

\* signalHandler or the comm server: KEEP_LOOPING goes false.
Stop ==
    /\ life = "running"
    /\ life' = "stopping"
    /\ UNCHANGED <<disk, items, spc, toVisit, cur, wvars, forwarded, crashes>>

\* exec(), after joining the input threads: notifyNew() for every table.
ReleaseAll ==
    /\ life = "stopping"
    /\ \A w \in InputWriters : wpc[w] = "idle"
    /\ TableEvent!NotifyNew
    /\ life' = "notified"
    /\ UNCHANGED <<disk, toVisit, cur, wvars, forwarded, crashes>>

\* The process dies and is started again on the same directories.
Crash ==
    /\ crashes < MaxCrashes
    /\ crashes' = crashes + 1
    /\ items' = FALSE /\ spc' = "top" /\ toVisit' = {} /\ cur' = NoRecord
    /\ wpc' = [w \in Writers |-> "idle"]
    /\ wrec' = [w \in Writers |-> NoRecord]
    /\ forwarded' = FALSE /\ life' = "running"
    /\ UNCHANGED disk

Terminated == spc = "done" /\ UNCHANGED vars

Next ==
    \/ \E w \in Writers : WriteTmp(w) \/ Publish(w) \/ NotifySpool(w)
    \/ SqlThread \/ SpuriousWakeup \/ TakeForwarded
    \/ Stop \/ ReleaseAll \/ Crash \/ Terminated

Spec == Init /\ [][Next]_vars

(***************************************************************************)
(* Runnable threads run: the execSqlInsert thread and a writer that is in  *)
(* the middle of an insert.  Nobody has to insert, stop or crash.          *)
(***************************************************************************)
FairSpec ==
    Spec /\ WF_vars(SqlThread)
         /\ \A w \in Writers : WF_vars(Publish(w) \/ NotifySpool(w))

-----------------------------------------------------------------------------
TypeOK ==
    /\ tmp \subseteq Records /\ spool \subseteq Records
    /\ sqlErr \subseteq Records /\ published \subseteq Records
    /\ db \in [Records -> Nat]
    /\ items \in BOOLEAN /\ forwarded \in BOOLEAN
    /\ spc \in TableEvent!InWait \cup TableEvent!InPending
               \cup TableEvent!Returned
               \cup {"top", "loop", "scan", "execute", "remove", "forward",
                     "done"}
    /\ toVisit \subseteq Records
    /\ cur \in Records \cup {NoRecord}
    /\ wpc \in [Writers -> {"idle", "written", "renamed"}]
    /\ wrec \in [Writers -> Records \cup {NoRecord}]
    /\ life \in {"running", "stopping", "notified"}
    /\ crashes \in 0 .. MaxCrashes

(***************************************************************************)
(* A statement whose file was published is in the spool, was executed or   *)
(* is in run/sql_err: no crash and no SQL error loses it.                  *)
(***************************************************************************)
NothingLost ==
    \A r \in published : r \in spool \/ db[r] > 0 \/ r \in sqlErr

(***************************************************************************)
(* A statement is executed again only if the process died between its      *)
(* execution and the removal of its file: each crash repeats at most one   *)
(* (T010, T020 and T040 have no unique key that would absorb it).          *)
(***************************************************************************)
RepeatedOnlyByCrash ==
    /\ \A r \in Records : db[r] <= 1 + crashes
    /\ Cardinality({r \in Records : db[r] > 1}) <= crashes

(***************************************************************************)
(* A statement in run/sql_err was never executed in the life that put it   *)
(* there, and a file lives in one directory only.                          *)
(***************************************************************************)
OnePlace ==
    /\ spool \cap sqlErr = {} /\ tmp \cap (spool \cup sqlErr) = {}
    /\ crashes = 0 => \A r \in sqlErr : db[r] = 0

(***************************************************************************)
(* A record notified after the thread has taken its previous notification  *)
(* and before it looks at the flag again (the time of connectToDB) leaves  *)
(* the spool, unless the program is stopped or dies.                       *)
(***************************************************************************)
PendingIsWorkedOff ==
    \A r \in Records, c \in 0 .. MaxCrashes :
        (spc \in {"awake", "loop", "load"} /\ items /\ r \in spool /\ crashes = c)
            ~> (r \notin spool \/ ~keepLooping \/ crashes # c)

(***************************************************************************)
(* LogScanner.cpp:984: "Each of those threads wait for notifications that  *)
(* text files have been created, then it reads those text files and        *)
(* executes the SQL statements on them."                                   *)
(***************************************************************************)
NotifiedIsExecuted ==
    \A r \in Records :
        (r \in spool /\ items)
            ~> (r \notin spool \/ ~keepLooping)
=============================================================================
