----------------------------- MODULE DropThread -----------------------------
(***************************************************************************)
(* dropThread turns the new rows of T030_Drop into iptables rules: it      *)
(* marks them 'P', writes their rules to a file, flags the file as         *)
(* complete, runs bin/install-new-rules.sh and marks the rows 'D'.  The    *)
(* table, the files and the rules survive the death of the process, which  *)
(* may come between any two of those steps and inside the script.          *)
(***************************************************************************)
EXTENDS Integers, FiniteSets

CONSTANTS
    IPs,            \* the addresses
    Enabled,        \* the operator has enabled iptables-restore in the script
    MaxFailures,    \* bound: SQL exceptions and failing iptables-restores
    MaxCrashes      \* bound: times the process dies and is started again

ASSUME DropAssumption == /\ Enabled \in BOOLEAN
                         /\ MaxFailures \in Nat /\ MaxCrashes \in Nat

VARIABLES
    status,     \* T030_Drop: the Status of the row of an IP, or "none"
    arriving,   \* the row inserted whose notification is still to be forwarded
    items,      \* m_notifyDrop: its flag ...
    dpc,        \* ... and where dropThread is
    selected,   \* the result of its SELECT
    ruleFiles,  \* run/rules: the IPs in a file, and whether it has its .flag
    tmpRules,   \* rules in the files of run/tmp
    firewall,   \* IPs that iptables drops
    life,       \* "running", "stopping" (KEEP_LOOPING false), "notified"
    failures, crashes,
    unlucky     \* history: IPs whose iptables-restore failed

files  == <<ruleFiles, tmpRules>>
bounds == <<failures, crashes>>
vars   == <<status, arriving, items, dpc, selected, ruleFiles, tmpRules,
            firewall, life, failures, crashes, unlucky>>

DropEvent == INSTANCE NotifyEvent WITH waiter <- dpc

keepLooping == life = "running"

With(s) == {ip \in IPs : status[ip] = s}

\* UPDATE T030_Drop SET Status = to WHERE Status = from
Update(from, to) ==
    status' = [ip \in IPs |-> IF status[ip] = from THEN to ELSE status[ip]]

\* Some addresses may be blocked before the program is first started.
Init ==
    /\ status = [ip \in IPs |-> "none"] /\ arriving = {}
    /\ items = FALSE /\ dpc = "top" /\ selected = {}
    /\ ruleFiles = {} /\ tmpRules = {} /\ firewall \in SUBSET IPs
    /\ life = "running" /\ failures = 0 /\ crashes = 0 /\ unlucky = {}

-----------------------------------------------------------------------------
(* The execSqlInsert thread of T030_Drop, upstream.                        *)

\* INSERT IGNORE: the unique index keeps the row that is there.
InsertRow(ip, s) ==
    /\ arriving = {}
    /\ status' = [status EXCEPT ![ip] = IF @ = "none" THEN s ELSE @]
    /\ arriving' = {ip}
    /\ UNCHANGED <<items, dpc, selected, files, firewall, life, bounds, unlucky>>

\* From a regexp thread or evalThread, and from loadDroppedIPs().
InsertNew(ip)     == InsertRow(ip, "N")
InsertDropped(ip) == ip \in firewall /\ InsertRow(ip, "D")

ForwardNotify(ip) ==
    /\ ip \in arriving
    /\ arriving' = {}
    /\ DropEvent!NotifyNew
    /\ UNCHANGED <<status, selected, files, firewall, life, bounds, unlucky>>

\* A row of T040_Hist or T100_LinesSeen: initDB() leaves their pointer unset,
\* and the build finds in it what it held for T030_Drop.
StrayNotify ==
    /\ DropEvent!NotifyNew
    /\ UNCHANGED <<status, arriving, selected, files, firewall, life, bounds,
                   unlucky>>

-----------------------------------------------------------------------------
(* dropThread.                                                             *)

Goto(from, to) == dpc = from /\ dpc' = to

Top ==
    /\ \/ Goto("top", IF keepLooping THEN "test" ELSE "done")
       \/ Goto("awake", "loop")
       \/ Goto("loop", IF keepLooping THEN "load" ELSE "top")
       \/ Goto("none", "top")
       \/ Goto("pending", "mark")
    /\ UNCHANGED <<status, arriving, items, selected, files, firewall, life,
                   bounds, unlucky>>

InEvent ==
    /\ DropEvent!EventStep
    /\ UNCHANGED <<status, arriving, selected, files, firewall, life, bounds,
                   unlucky>>

SpuriousWakeup ==
    /\ DropEvent!SpuriousWakeup
    /\ UNCHANGED <<status, arriving, selected, files, firewall, life, bounds,
                   unlucky>>

\* Mutant: rowCount > 1.
MarkPendingTwo ==
    /\ Goto("mark", IF Cardinality(With("N")) > 1 THEN "select" ELSE "loop")
    /\ Update("N", "P")
    /\ UNCHANGED <<arriving, items, selected, files, firewall, life, bounds,
                   unlucky>>

\* rowCount is the number of rows the UPDATE changed.
MarkPending ==
    /\ Goto("mark", IF With("N") = {} THEN "loop" ELSE "select")
    /\ Update("N", "P")
    /\ UNCHANGED <<arriving, items, selected, files, firewall, life, bounds,
                   unlucky>>

\* Mutant: new rows are selected too.
SelectNewToo ==
    /\ Goto("select", IF With("P") = {} THEN "loop" ELSE "write")
    /\ selected' = With("P") \cup With("N")
    /\ UNCHANGED <<status, arriving, items, files, firewall, life, bounds,
                   unlucky>>

\* An IP with a 'P' row has no 'D' row, by the unique index.
SelectPending ==
    /\ Goto("select", IF With("P") = {} THEN "loop" ELSE "write")
    /\ selected' = With("P")
    /\ UNCHANGED <<status, arriving, items, files, firewall, life, bounds,
                   unlucky>>

WriteRules ==
    /\ Goto("write", "flag")
    /\ ruleFiles' = ruleFiles \cup {[ips |-> selected, flag |-> FALSE]}
    /\ UNCHANGED <<status, arriving, items, selected, tmpRules, firewall, life,
                   bounds, unlucky>>

WriteFlag ==
    /\ Goto("flag", "clean")
    /\ ruleFiles' = (ruleFiles \ {[ips |-> selected, flag |-> FALSE]})
                       \cup {[ips |-> selected, flag |-> TRUE]}
    /\ UNCHANGED <<status, arriving, items, selected, tmpRules, firewall, life,
                   bounds, unlucky>>

\* The script: rm -Rf and mkdir run/tmp, then mv of every flagged file, then
\* iptables-restore of the rules in place and those moved.
CleanTmp ==
    /\ Goto("clean", "move")
    /\ tmpRules' = {}
    /\ UNCHANGED <<status, arriving, items, selected, ruleFiles, firewall, life,
                   bounds, unlucky>>

MoveRules ==
    /\ Goto("move", "restore")
    /\ LET flagged == {f \in ruleFiles : f.flag}
       IN  /\ tmpRules' = tmpRules \cup UNION {f.ips : f \in flagged}
           /\ ruleFiles' = ruleFiles \ flagged
    /\ UNCHANGED <<status, arriving, items, selected, firewall, life, bounds,
                   unlucky>>

Restore ==
    /\ Goto("restore", "markD")
    /\ firewall' = IF Enabled THEN firewall \cup tmpRules ELSE firewall
    /\ UNCHANGED <<status, arriving, items, selected, files, life, bounds,
                   unlucky>>

\* Nobody looks at the exit code.
RestoreFails ==
    /\ Goto("restore", "markD")
    /\ failures < MaxFailures
    /\ failures' = failures + 1
    /\ unlucky' = unlucky \cup tmpRules
    /\ UNCHANGED <<status, arriving, items, selected, files, firewall, life,
                   crashes>>

\* Mutants: every row is marked, or with a letter Status_VAL does not know.
MarkAllDone ==
    /\ Goto("markD", "loop")
    /\ status' = [ip \in IPs |-> IF status[ip] = "none" THEN "none" ELSE "D"]
    /\ selected' = {}
    /\ UNCHANGED <<arriving, items, files, firewall, life, bounds, unlucky>>

MarkWritten ==
    /\ Goto("markD", "loop")
    /\ Update("P", "W")
    /\ selected' = {}
    /\ UNCHANGED <<arriving, items, files, firewall, life, bounds, unlucky>>

MarkDone ==
    /\ Goto("markD", "loop")
    /\ Update("P", "D")
    /\ selected' = {}
    /\ UNCHANGED <<arriving, items, files, firewall, life, bounds, unlucky>>

\* SQLException out of one of the three statements.
SqlError ==
    /\ dpc \in {"mark", "select", "markD"} /\ dpc' = "loop"
    /\ failures < MaxFailures
    /\ failures' = failures + 1
    /\ selected' = {}
    /\ UNCHANGED <<status, arriving, items, files, firewall, life, crashes,
                   unlucky>>

-----------------------------------------------------------------------------
Stop ==
    /\ life = "running"
    /\ life' = "stopping"
    /\ UNCHANGED <<status, arriving, items, dpc, selected, files, firewall,
                   bounds, unlucky>>

\* exec(), after joining the input thread.
ReleaseAll ==
    /\ life = "stopping"
    /\ DropEvent!NotifyNew
    /\ life' = "notified"
    /\ UNCHANGED <<status, arriving, selected, files, firewall, bounds, unlucky>>

Crash ==
    /\ crashes < MaxCrashes
    /\ crashes' = crashes + 1
    /\ arriving' = {} /\ items' = FALSE /\ dpc' = "top" /\ selected' = {}
    /\ life' = "running"
    /\ UNCHANGED <<status, files, firewall, failures, unlucky>>

Terminated == dpc = "done" /\ UNCHANGED vars

DropStep == Top \/ InEvent \/ MarkPending \/ SelectPending \/ WriteRules
            \/ WriteFlag \/ CleanTmp \/ MoveRules \/ Restore \/ RestoreFails
            \/ MarkDone \/ SqlError

Next ==
    \/ \E ip \in IPs : InsertNew(ip) \/ InsertDropped(ip) \/ ForwardNotify(ip)
    \/ StrayNotify \/ DropStep \/ SpuriousWakeup \/ Stop \/ ReleaseAll \/ Crash \/ Terminated

Spec == Init /\ [][Next]_vars

(***************************************************************************)
(* dropThread and the thread that forwards to it run when they can.        *)
(***************************************************************************)
FairSpec == Spec /\ WF_vars(DropStep)
                 /\ \A ip \in IPs : WF_vars(ForwardNotify(ip))

-----------------------------------------------------------------------------
TypeOK ==
    /\ status \in [IPs -> {"none", "N", "P", "D"}]
    /\ arriving \subseteq IPs /\ items \in BOOLEAN /\ selected \subseteq IPs
    /\ dpc \in DropEvent!InWait \cup DropEvent!InPending \cup DropEvent!Returned
               \cup {"top", "loop", "mark", "select", "write", "flag", "clean",
                     "move", "restore", "markD", "done"}
    /\ ruleFiles \subseteq [ips : SUBSET IPs, flag : BOOLEAN]
    /\ tmpRules \subseteq IPs /\ firewall \subseteq IPs /\ unlucky \subseteq IPs
    /\ life \in {"running", "stopping", "notified"}
    /\ failures \in 0 .. MaxFailures /\ crashes \in 0 .. MaxCrashes

(***************************************************************************)
(* A row is marked 'D' only when the firewall drops its address, or when   *)
(* iptables-restore failed on it (the row then keeps the address from ever *)
(* being dropped): rows that arrive while the rules are written, and a     *)
(* crash at any point, leave no address open behind a 'D'.                 *)
(***************************************************************************)
DoneIsDropped ==
    Enabled => \A ip \in IPs : status[ip] = "D" => ip \in firewall \cup unlucky

(***************************************************************************)
(* A rule file that is flagged as complete, or moved to run/tmp, holds     *)
(* only addresses the table knows: a rule that a crash left behind belongs *)
(* to a row that is still pending or done.                                 *)
(***************************************************************************)
RulesHaveRows ==
    \A ip \in tmpRules \cup UNION {f.ips : f \in ruleFiles} :
        status[ip] \in {"P", "D"}

(***************************************************************************)
(* Nothing is marked 'D' but what the SELECT of the same round returned.   *)
(***************************************************************************)
OnlySelectedDone ==
    [][\A ip \in IPs : status[ip] = "P" /\ status'[ip] = "D"
                          => ip \in selected]_vars

(***************************************************************************)
(* A new row notified after dropThread has taken its last notification and *)
(* before it looks at the flag again is marked 'D', unless the program     *)
(* stops, dies or an SQL statement fails.                                  *)
(***************************************************************************)
NewIsWorkedOff ==
    \A ip \in IPs :
        (dpc \in {"awake", "loop", "load"} /\ items /\ status[ip] = "N")
            ~> (status[ip] = "D" \/ ~keepLooping \/ failures > 0 \/ crashes > 0)
=============================================================================
