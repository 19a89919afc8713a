----------------------------- MODULE EvalThread -----------------------------
(***************************************************************************)
(* evalThread looks at the hits that wait in T010_Eval, address by         *)
(* address.  An address that hits too often, or whose lines an expression  *)
(* of evalregexps.conf counts too often, is sent to T030_Drop and its rows *)
(* move to T040_Hist with the timestamp of that drop; of any other address *)
(* the rows too old for the time window are deleted.  No two statements    *)
(* are one transaction, and the thread of the spool inserts rows between   *)
(* them.                                                                   *)
(***************************************************************************)
EXTENDS Integers, FiniteSets, FiniteSetsExt, Sequences

CONSTANTS
    Rows,               \* the hits to come: [n, ip, tm (LogTmstmp), sev, text]
    EvalRegexps,        \* m_evalRegexps: [op, factor]
    MaxHitCountToChk,   \* m_MAX_HITCOUNT_TO_CHK
    MaxSecondsToKeep,   \* m_MAX_SECONDS_TO_KEEP
    NoMatch,            \* the text of a row no expression matches
    MaxMishaps          \* bound: SQL exceptions and deaths of the process

ASSUME EvalAssumption ==
    /\ MaxHitCountToChk \in Nat /\ MaxSecondsToKeep \in Nat
    /\ MaxMishaps \in Nat /\ IsFiniteSet(Rows)
    /\ \A r \in Rows : r.tm \in Nat /\ r.sev \in Nat

IPs == {r.ip : r \in Rows}

VARIABLES
    inserted,   \* history: the rows the spool has inserted
    eval,       \* T010_Eval: <<row, stamp>>, stamp 0 is the row's own Timestamp
    hist,       \* T040_Hist: <<row, stamp>>, stamp n is dropIpTmstmp of drop n
    drops,      \* the addresses sent to T030_Drop, in this order
    arriving,   \* a row is inserted and its notification not yet forwarded
    items,      \* m_notifyEval: its flag ...
    epc,        \* ... and where evalThread is
    groups,     \* what is left of the result of SELECT ... GROUP BY IPaddr
    toDrop,     \* allDroppedIPs
    toKeep,     \* allDelEvalIPs with allFrstTmStmp and allLastTmStmp
    life,       \* "running", "stopping" (KEEP_LOOPING false), "notified"
    failures, crashes,
    raced       \* history: rows inserted between two statements of their move

tables == <<inserted, eval, hist, drops>>
lists  == <<groups, toDrop, toKeep>>
bounds == <<failures, crashes>>
vars   == <<inserted, eval, hist, drops, arriving, items, epc, groups, toDrop,
            toKeep, life, failures, crashes, raced>>

EvalEvent == INSTANCE NotifyEvent WITH waiter <- epc

keepLooping == life = "running"

RowsOf(ip, table) == {e[1] : e \in {x \in table : x[1].ip = ip}}

\* dropIP while its rows are moved: the last address sent.
Dropping == drops[Len(drops)]

Init ==
    /\ inserted = {} /\ eval = {} /\ hist = {} /\ drops = <<>>
    /\ arriving = FALSE /\ items = FALSE /\ epc = "top"
    /\ groups = {} /\ toDrop = {} /\ toKeep = {}
    /\ life = "running" /\ failures = 0 /\ crashes = 0 /\ raced = {}

Goto(from, to) == epc = from /\ epc' = to

-----------------------------------------------------------------------------
(* The execSqlInsert thread of T010_Eval: rows come in no order.           *)

InsertRow(r) ==
    /\ ~arriving /\ r \notin inserted
    /\ inserted' = inserted \cup {r}
    /\ eval' = eval \cup {<<r, 0>>}
    /\ arriving' = TRUE
    /\ raced' = IF epc \in {"copy", "delete"} /\ Dropping = r.ip
                THEN raced \cup {<<r, epc>>} ELSE raced
    /\ UNCHANGED <<hist, drops, items, epc, lists, life, bounds>>

ForwardNotify ==
    /\ arriving
    /\ arriving' = FALSE
    /\ EvalEvent!NotifyNew
    /\ UNCHANGED <<tables, lists, life, bounds, raced>>

\* A row of T020_Audit: initDB() leaves its pointer unset, and the build finds
\* in it what it held for T010_Eval.
StrayNotify ==
    /\ EvalEvent!NotifyNew
    /\ UNCHANGED <<tables, arriving, lists, life, bounds, raced>>

-----------------------------------------------------------------------------
(* evalThread: the SELECT and the decision.                                *)

Top ==
    /\ \/ Goto("top", IF keepLooping THEN "test" ELSE "done")
       \/ Goto("awake", "loop")
       \/ Goto("loop", IF keepLooping THEN "load" ELSE "top")
       \/ Goto("none", "top")
       \/ Goto("pending", "select")
    /\ UNCHANGED <<tables, arriving, items, lists, life, bounds, raced>>

InEvent ==
    /\ EvalEvent!EventStep
    /\ UNCHANGED <<tables, arriving, lists, life, bounds, raced>>

SpuriousWakeup ==
    /\ EvalEvent!SpuriousWakeup
    /\ UNCHANGED <<tables, arriving, lists, life, bounds, raced>>

Group(ip) ==
    LET rs == RowsOf(ip, eval)
    IN  [ip |-> ip, hits |-> Cardinality(rs), frst |-> Min({r.tm : r \in rs}),
         last |-> Max({r.tm : r \in rs}), sev |-> Min({r.sev : r \in rs})]

\* The loop over the result ends at the first group of too few hits.
Select ==
    /\ Goto("select", "examine")
    /\ groups' = {g \in {Group(e[1].ip) : e \in eval} : g.hits > MaxHitCountToChk}
    /\ UNCHANGED <<tables, arriving, items, toDrop, toKeep, life, bounds, raced>>

\* chkEvalRegexps(): it reads the rows that are there now.
chkEvalRegexps(ip) ==
    LET rs        == RowsOf(ip, eval)
        found     == {r.text : r \in rs} \ {NoMatch}
        Times(t)  == Cardinality({r \in rs : r.text = t})
    IN  /\ Cardinality(rs) > MaxHitCountToChk
        /\ \E e \in EvalRegexps :
              \/ e.op = "SEEN_MANY_STRINGS" /\ Cardinality(found) > e.factor
              \/ e.op = "TOO_MANY_ATTEMPTS" /\ \E t \in found : Times(t) > e.factor

\* hitCount / interval is a float: no rounding.
TooFast(g) == g.hits > g.sev * (g.last - g.frst)

\* Mutant: the interval may be empty.
DropItSameSecond(g) == TooFast(g) \/ chkEvalRegexps(g.ip)

DropIt(g) == g.last > g.frst /\ (TooFast(g) \/ chkEvalRegexps(g.ip))

\* Mutant: the first address that is kept ends the loop.
ExamineToKept ==
    /\ epc = "examine" /\ groups # {} /\ UNCHANGED epc
    /\ \E g \in groups :
          /\ \A o \in groups : o.hits <= g.hits
          /\ IF DropIt(g)
             THEN toDrop' = toDrop \cup {g.ip} /\ groups' = groups \ {g} /\ UNCHANGED toKeep
             ELSE toKeep' = toKeep \cup {g} /\ groups' = {} /\ UNCHANGED toDrop
    /\ UNCHANGED <<tables, arriving, items, life, bounds, raced>>

\* ORDER BY hitCount DESC
Examine ==
    /\ epc = "examine" /\ groups # {} /\ UNCHANGED epc
    /\ \E g \in groups :
          /\ \A o \in groups : o.hits <= g.hits
          /\ groups' = groups \ {g}
          /\ IF DropIt(g) THEN toDrop' = toDrop \cup {g.ip} /\ UNCHANGED toKeep
                          ELSE toKeep' = toKeep \cup {g} /\ UNCHANGED toDrop
    /\ UNCHANGED <<tables, arriving, items, life, bounds, raced>>

ExamineEnds ==
    /\ Goto("examine", "drop") /\ groups = {}
    /\ UNCHANGED <<tables, arriving, items, lists, life, bounds, raced>>

\* Caught: the thread goes on with what it has collected.
SelectFails ==
    /\ epc \in {"select", "examine"} /\ epc' = "drop"
    /\ failures + crashes < MaxMishaps /\ failures' = failures + 1
    /\ groups' = {}
    /\ UNCHANGED <<tables, arriving, items, toDrop, toKeep, life, crashes, raced>>

-----------------------------------------------------------------------------
(* evalThread: the drops and the moves, one statement at a time.           *)

\* insertIntoDropTable(): the timestamp goes along as its last value.
Drop ==
    /\ Goto("drop", "update")
    /\ \E ip \in toDrop : /\ drops' = Append(drops, ip)
                          /\ toDrop' = toDrop \ {ip}
    /\ UNCHANGED <<inserted, eval, hist, arriving, items, groups, toKeep, life,
                   bounds, raced>>

\* Mutants: no row is stamped; the stamp is one of a second createTimestamp().
StampNothing ==
    /\ Goto("update", "copy")
    /\ UNCHANGED <<tables, arriving, items, lists, life, bounds, raced>>

StampAnew ==
    /\ Goto("update", "copy")
    /\ eval' = {<<e[1], IF e[1].ip = Dropping THEN Len(drops) + 1 ELSE e[2]>> : e \in eval}
    /\ UNCHANGED <<inserted, hist, drops, arriving, items, lists, life, bounds, raced>>

\* UPDATE T010_Eval SET Timestamp
Stamp ==
    /\ Goto("update", "copy")
    /\ eval' = {<<e[1], IF e[1].ip = Dropping THEN Len(drops) ELSE e[2]>> : e \in eval}
    /\ UNCHANGED <<inserted, hist, drops, arriving, items, lists, life, bounds, raced>>

\* INSERT INTO T040_Hist SELECT * FROM T010_Eval
Copy ==
    /\ Goto("copy", "delete")
    /\ hist' = hist \cup {e \in eval : e[1].ip = Dropping}
    /\ UNCHANGED <<inserted, eval, drops, arriving, items, lists, life, bounds, raced>>

\* Mutant: the rows stay.
DeleteNothing ==
    /\ Goto("delete", "drop")
    /\ UNCHANGED <<tables, arriving, items, lists, life, bounds, raced>>

\* DELETE FROM T010_Eval
Delete ==
    /\ Goto("delete", "drop")
    /\ eval' = {e \in eval : e[1].ip # Dropping}
    /\ UNCHANGED <<inserted, hist, drops, arriving, items, lists, life, bounds, raced>>

\* execBatchSQL() catches, the rest of its text is not executed.
BatchFails ==
    /\ \/ epc \in {"update", "copy", "delete"} /\ epc' = "drop" /\ UNCHANGED toKeep
       \/ epc = "age" /\ toKeep # {} /\ epc' = "age" /\ toKeep' = {}
    /\ failures + crashes < MaxMishaps /\ failures' = failures + 1
    /\ UNCHANGED <<tables, arriving, items, groups, toDrop, life, crashes, raced>>

DropEnds ==
    /\ Goto("drop", "age") /\ toDrop = {}
    /\ UNCHANGED <<tables, arriving, items, lists, life, bounds, raced>>

\* Mutant: a row as old as the window is deleted with the older ones.
TooOldEdge(r, g) == r.ip = g.ip /\ r.tm <= g.last - MaxSecondsToKeep

TooOld(r, g) == r.ip = g.ip /\ r.tm < g.last - MaxSecondsToKeep

\* One DELETE of delEvalRows; there is none when the window holds all rows.
Age ==
    /\ epc = "age" /\ UNCHANGED epc
    /\ \E g \in toKeep :
          /\ toKeep' = toKeep \ {g}
          /\ eval' = IF g.last - MaxSecondsToKeep > g.frst
                     THEN {e \in eval : ~TooOld(e[1], g)} ELSE eval
    /\ UNCHANGED <<inserted, hist, drops, arriving, items, groups, toDrop, life,
                   bounds, raced>>

AgeEnds ==
    /\ Goto("age", "loop") /\ toKeep = {}
    /\ UNCHANGED <<tables, arriving, items, lists, life, bounds, raced>>

-----------------------------------------------------------------------------
Stop ==
    /\ life = "running" /\ life' = "stopping"
    /\ UNCHANGED <<tables, arriving, items, epc, lists, bounds, raced>>

\* exec(), after joining the input thread.
ReleaseAll ==
    /\ life = "stopping" /\ life' = "notified"
    /\ EvalEvent!NotifyNew
    /\ UNCHANGED <<tables, arriving, lists, bounds, raced>>

\* connectToDB() outside a try block throws, or the process is killed.
Crash ==
    /\ failures + crashes < MaxMishaps /\ crashes' = crashes + 1
    /\ arriving' = FALSE /\ items' = FALSE /\ epc' = "top"
    /\ groups' = {} /\ toDrop' = {} /\ toKeep' = {} /\ life' = "running"
    /\ UNCHANGED <<tables, failures, raced>>

Terminated == epc = "done" /\ UNCHANGED vars

EvalStep == Top \/ InEvent \/ Select \/ Examine \/ ExamineEnds \/ SelectFails
            \/ Drop \/ Stamp \/ Copy \/ Delete \/ BatchFails \/ DropEnds
            \/ Age \/ AgeEnds

Next == \/ \E r \in Rows : InsertRow(r)
        \/ ForwardNotify \/ StrayNotify \/ EvalStep \/ SpuriousWakeup
        \/ Stop \/ ReleaseAll \/ Crash \/ Terminated

Spec == Init /\ [][Next]_vars

(***************************************************************************)
(* evalThread runs when it can; nobody has to add rows or notify.          *)
(***************************************************************************)
FairSpec == Spec /\ WF_vars(EvalStep)

-----------------------------------------------------------------------------
TypeOK ==
    /\ inserted \subseteq Rows /\ drops \in Seq(IPs)
    /\ eval \subseteq Rows \X (0 .. Len(drops))
    /\ hist \subseteq Rows \X (0 .. Len(drops))
    /\ arriving \in BOOLEAN /\ items \in BOOLEAN
    /\ epc \in EvalEvent!InWait \cup EvalEvent!InPending \cup EvalEvent!Returned
               \cup {"top", "loop", "select", "examine", "drop", "update",
                     "copy", "delete", "age", "done"}
    /\ groups \cup toKeep \subseteq [ip : IPs, hits : Nat, frst : Nat,
                                     last : Nat, sev : Nat]
    /\ toDrop \subseteq IPs
    /\ life \in {"running", "stopping", "notified"}
    /\ failures \in Nat /\ crashes \in Nat /\ failures + crashes <= MaxMishaps
    /\ raced \subseteq inserted \X {"copy", "delete"}

(***************************************************************************)
(* A hit leaves T010_Eval for T040_Hist, or because a hit of its address   *)
(* came more than MaxSecondsToKeep later: statements that fail and crashes *)
(* lose none.  The one exception is a row inserted after the INSERT into   *)
(* Hist and before the DELETE of the same move: it is deleted.             *)
(***************************************************************************)
HitsAreKept ==
    \A r \in inserted :
        \/ \E e \in eval \cup hist : e[1] = r
        \/ \E o \in inserted : o.ip = r.ip /\ r.tm < o.tm - MaxSecondsToKeep
        \/ <<r, "delete">> \in raced

(***************************************************************************)
(* A row of T040_Hist bears the timestamp with which its own address was   *)
(* sent to T030_Drop, "for treaceability".  The one exception is a row     *)
(* inserted between the UPDATE and the INSERT of its move.                 *)
(***************************************************************************)
HistIsTraceable ==
    \A e \in hist : IF e[2] = 0 THEN <<e[1], "copy">> \in raced
                                ELSE drops[e[2]] = e[1].ip

(***************************************************************************)
(* A row has at most one copy in T040_Hist for each statement that failed  *)
(* or process that died, and the one it should have.  Without any of those *)
(* a row that was moved is no more in T030_Eval, except between the INSERT *)
(* and the DELETE of the move.                                             *)
(***************************************************************************)
CopiesByMishap ==
    /\ \A r \in inserted :
          Cardinality({e \in hist : e[1] = r}) <= 1 + failures + crashes
    /\ (failures + crashes = 0 /\ epc # "delete")
          => \A r \in inserted : r \in {e[1] : e \in hist} => r \notin {e[1] : e \in eval}

(***************************************************************************)
(* An address is sent to T030_Drop only when more than MaxHitCountToChk of *)
(* its hits have come, not all with the same timestamp: hits of one        *)
(* second, however many, never drop it.                                    *)
(***************************************************************************)
DropsSpanSeconds ==
    \A n \in DOMAIN drops :
        LET rs == {r \in inserted : r.ip = drops[n]}
        IN  Cardinality(rs) > MaxHitCountToChk /\ \E r, o \in rs : r.tm > o.tm

(***************************************************************************)
(* An address whose hits call for the drop when evalThread is about to     *)
(* look is sent to T030_Drop, unless hits that come meanwhile change the   *)
(* verdict, the program stops or dies, or a statement fails.               *)
(***************************************************************************)
OffenderIsDropped ==
    \A ip \in IPs :
        (/\ epc \in {"awake", "loop", "load"} /\ items
         /\ ip \notin {drops[n] : n \in DOMAIN drops}
         /\ RowsOf(ip, eval) # {} /\ Group(ip).hits > MaxHitCountToChk
         /\ DropIt(Group(ip)))
        ~> (\/ ~keepLooping \/ failures > 0 \/ crashes > 0
            \/ ip \in {drops[n] : n \in DOMAIN drops}
            \/ RowsOf(ip, eval) # {} /\ ~DropIt(Group(ip)))
=============================================================================
