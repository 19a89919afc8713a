------------------------- MODULE DropThread_proofs -------------------------
(***************************************************************************)
(* What the marks of T030_Drop are worth, for every set of addresses and   *)
(* every number of crashes and failures.                                   *)
(***************************************************************************)
EXTENDS DropThread, TLAPS

\* From the SELECT on, the rows in 'P' are those it returned: only the UPDATE
\* before it makes such rows, and rows that arrive are new or known.
RoundIsPending ==
    dpc \in {"write", "flag", "clean", "move", "restore", "markD"}
        => selected = With("P")

\* On their way to the firewall the selected addresses are in a file, then in
\* a file with a flag, then among the rules to restore.
RoundIsOnItsWay ==
    /\ dpc = "flag" => [ips |-> selected, flag |-> FALSE] \in ruleFiles
    /\ dpc \in {"clean", "move"} =>
          [ips |-> selected, flag |-> TRUE] \in ruleFiles
    /\ dpc = "restore" => selected \subseteq tmpRules
    /\ dpc = "markD" /\ Enabled => selected \subseteq firewall \cup unlucky

\* RulesHaveRows, file by file.
RowsOfRules ==
    /\ \A ip \in tmpRules : status[ip] \in {"P", "D"}
    /\ \A f \in ruleFiles : \A ip \in f.ips : status[ip] \in {"P", "D"}

\* A row in 'D' whose address is open would have to come from loadDroppedIPs,
\* which reads the firewall, or from a round.
IndInv == TypeOK /\ RoundIsPending /\ RoundIsOnItsWay /\ RowsOfRules
          /\ DoneIsDropped

USE DEF DropEvent!InWait, DropEvent!InPending, DropEvent!Returned

-----------------------------------------------------------------------------
(***************************************************************************)
(* The initial states satisfy the inductive invariant.                     *)
(***************************************************************************)
LEMMA InitInv == Init => IndInv
<1> SUFFICES ASSUME Init PROVE IndInv
  OBVIOUS
<1>1. TypeOK
  <2>1. 0 \in 0 .. MaxFailures /\ 0 \in 0 .. MaxCrashes
    BY DropAssumption
  <2>2. status \in [IPs -> {"none", "N", "P", "D"}]
    BY DEF Init
  <2> QED BY <2>1, <2>2 DEF Init, TypeOK
<1>2. RoundIsPending /\ RoundIsOnItsWay /\ RowsOfRules /\ DoneIsDropped
  BY DEF Init, RoundIsPending, RoundIsOnItsWay, RowsOfRules, DoneIsDropped
<1> QED BY <1>1, <1>2 DEF IndInv

(***************************************************************************)
(* Steps that move dropThread between places outside of a round, set flags *)
(* or count, and leave the table, the files and the firewall alone.        *)
(***************************************************************************)
Outside == {"top", "loop", "mark", "select", "done"} \cup DropEvent!InWait
               \cup DropEvent!InPending \cup DropEvent!Returned

LEMMA Bystander ==
  ASSUME IndInv, TypeOK', dpc' = dpc \/ dpc' \in Outside,
         UNCHANGED <<status, selected, files, firewall, unlucky>>
  PROVE  IndInv'
BY DEF IndInv, RoundIsPending, RoundIsOnItsWay, RowsOfRules, DoneIsDropped,
       With, files, Outside

(***************************************************************************)
(* A row that is inserted is new, or its address is dropped already.       *)
(***************************************************************************)
LEMMA InsertKeeps ==
  ASSUME IndInv, NEW ip \in IPs, InsertNew(ip) \/ InsertDropped(ip)
  PROVE  IndInv'
<1>1. PICK s \in {"N", "D"} : InsertRow(ip, s) /\ (s = "D" => ip \in firewall)
  BY DEF InsertNew, InsertDropped
<1>2. /\ status \in [IPs -> {"none", "N", "P", "D"}]
      /\ status' = [status EXCEPT ![ip] = IF @ = "none" THEN s ELSE @]
      /\ UNCHANGED <<items, dpc, selected, ruleFiles, tmpRules, firewall, life,
                     failures, crashes, unlucky>>
  BY <1>1 DEF InsertRow, IndInv, TypeOK, files, bounds
<1>3. TypeOK'
  BY <1>1, <1>2 DEF InsertRow, IndInv, TypeOK
<1>4. /\ With("P")' = With("P")
      /\ \A i \in IPs : status[i] \in {"P", "D"} => status'[i] = status[i]
      /\ \A i \in IPs : status'[i] = "D" => status[i] = "D" \/ i \in firewall
  BY <1>1, <1>2 DEF With
<1>5. RoundIsPending' /\ RoundIsOnItsWay'
  BY <1>2, <1>4 DEF IndInv, RoundIsPending, RoundIsOnItsWay
<1>6. RowsOfRules'
  BY <1>2, <1>4 DEF IndInv, TypeOK, RowsOfRules
<1>7. DoneIsDropped'
  BY <1>2, <1>4 DEF IndInv, DoneIsDropped
<1> QED BY <1>3, <1>5, <1>6, <1>7 DEF IndInv

(***************************************************************************)
(* The UPDATE ... SET Status = 'P' comes before the round.                 *)
(***************************************************************************)
LEMMA MarkPendingKeeps ==
  ASSUME IndInv, MarkPending PROVE IndInv'
<1>1. /\ status \in [IPs -> {"none", "N", "P", "D"}]
      /\ status' = [i \in IPs |-> IF status[i] = "N" THEN "P" ELSE status[i]]
      /\ UNCHANGED <<arriving, items, selected, ruleFiles, tmpRules, firewall,
                     life, failures, crashes, unlucky>>
      /\ dpc' \in {"loop", "select"}
  BY DEF IndInv, TypeOK, MarkPending, Update, Goto, files, bounds
<1>2. TypeOK'
  BY <1>1 DEF IndInv, TypeOK
<1>3. RoundIsPending' /\ RoundIsOnItsWay'
  BY <1>1 DEF RoundIsPending, RoundIsOnItsWay
<1>4. RowsOfRules'
  BY <1>1 DEF IndInv, TypeOK, RowsOfRules
<1>5. DoneIsDropped'
  BY <1>1 DEF IndInv, DoneIsDropped
<1> QED BY <1>2, <1>3, <1>4, <1>5 DEF IndInv

(***************************************************************************)
(* The steps of a round, from the SELECT to the script's iptables-restore: *)
(* none of them touches the table.                                         *)
(***************************************************************************)
Round == SelectPending \/ WriteRules \/ WriteFlag \/ CleanTmp \/ MoveRules
         \/ Restore \/ RestoreFails

LEMMA RoundTypes ==
  ASSUME IndInv, Round PROVE TypeOK' /\ status' = status
<1> USE DEF IndInv, TypeOK, Goto, files, bounds
<1>1. CASE SelectPending BY <1>1 DEF SelectPending, With
<1>2. CASE WriteRules
  <2>1. [ips |-> selected, flag |-> FALSE] \in [ips : SUBSET IPs, flag : BOOLEAN]
    OBVIOUS
  <2>2. ruleFiles' \subseteq [ips : SUBSET IPs, flag : BOOLEAN]
    BY <1>2, <2>1 DEF WriteRules
  <2> QED BY <1>2, <2>2 DEF WriteRules
<1>3. CASE WriteFlag
  <2>1. [ips |-> selected, flag |-> TRUE] \in [ips : SUBSET IPs, flag : BOOLEAN]
    OBVIOUS
  <2>2. ruleFiles' \subseteq [ips : SUBSET IPs, flag : BOOLEAN]
    BY <1>3, <2>1 DEF WriteFlag
  <2> QED BY <1>3, <2>2 DEF WriteFlag
<1>4. CASE CleanTmp BY <1>4 DEF CleanTmp
<1>5. CASE MoveRules
  <2>1. /\ ruleFiles \subseteq [ips : SUBSET IPs, flag : BOOLEAN]
        /\ tmpRules \subseteq IPs
    OBVIOUS
  <2>2. tmpRules' \subseteq IPs /\ ruleFiles' \subseteq ruleFiles
    BY <1>5, <2>1 DEF MoveRules
  <2> QED BY <1>5, <2>1, <2>2 DEF MoveRules
<1>6. CASE Restore BY <1>6 DEF Restore
<1>7. CASE RestoreFails BY <1>7, DropAssumption DEF RestoreFails
<1> QED BY <1>1, <1>2, <1>3, <1>4, <1>5, <1>6, <1>7 DEF Round

LEMMA RoundKeeps ==
  ASSUME IndInv, Round PROVE IndInv'
<1>1. TypeOK' /\ status' = status /\ TypeOK
  BY RoundTypes DEF IndInv
<1>2. RoundIsPending'
  BY <1>1 DEF IndInv, RoundIsPending, With, Round, SelectPending, WriteRules,
              WriteFlag, CleanTmp, MoveRules, Restore, RestoreFails, Goto
<1>3. RoundIsOnItsWay'
  <2> USE DEF RoundIsOnItsWay, Goto
  <2>1. CASE SelectPending BY <2>1 DEF SelectPending
  <2>2. CASE WriteRules BY <2>2 DEF WriteRules
  <2>3. CASE WriteFlag BY <2>3 DEF WriteFlag
  <2>4. CASE CleanTmp BY <2>4 DEF IndInv, CleanTmp
  <2>5. CASE MoveRules
    <3>1. [ips |-> selected, flag |-> TRUE] \in ruleFiles
      BY <2>5 DEF IndInv, MoveRules
    <3>2. selected \in {f.ips : f \in {g \in ruleFiles : g.flag}}
      BY <3>1
    <3> QED BY <2>5, <3>2 DEF MoveRules
  <2>6. CASE Restore BY <2>6 DEF IndInv, Restore
  <2>7. CASE RestoreFails BY <2>7 DEF IndInv, RestoreFails
  <2> QED BY <2>1, <2>2, <2>3, <2>4, <2>5, <2>6, <2>7 DEF Round
<1>4. RowsOfRules'
  <2> USE <1>1 DEF RowsOfRules, Goto, files
  <2>1. CASE SelectPending BY <2>1 DEF IndInv, SelectPending
  <2>2. CASE WriteRules \/ WriteFlag
    <3>1. \A ip \in selected : status[ip] = "P"
      BY <2>2 DEF IndInv, RoundIsPending, With, WriteRules, WriteFlag
    <3> QED BY <2>2, <3>1 DEF IndInv, WriteRules, WriteFlag
  <2>3. CASE CleanTmp BY <2>3 DEF IndInv, CleanTmp
  <2>4. CASE MoveRules
    <3>1. ruleFiles' \subseteq ruleFiles
      BY <2>4 DEF MoveRules
    <3>2. ASSUME NEW ip \in tmpRules' \ tmpRules
          PROVE  \E f \in ruleFiles : ip \in f.ips
      BY <2>4 DEF MoveRules
    <3> QED BY <3>1, <3>2 DEF IndInv
  <2>5. CASE Restore \/ RestoreFails BY <2>5 DEF IndInv, Restore, RestoreFails
  <2> QED BY <2>1, <2>2, <2>3, <2>4, <2>5 DEF Round
<1>5. DoneIsDropped'
  BY <1>1 DEF IndInv, DoneIsDropped, Round, SelectPending, WriteRules,
              WriteFlag, CleanTmp, MoveRules, Restore, RestoreFails, Goto
<1> QED BY <1>1, <1>2, <1>3, <1>4, <1>5 DEF IndInv

(***************************************************************************)
(* The UPDATE ... SET Status = 'D' ends the round: its rows are those of   *)
(* the SELECT, and each is dropped or has met a failing iptables-restore.  *)
(***************************************************************************)
LEMMA MarkDoneKeeps ==
  ASSUME IndInv, MarkDone PROVE IndInv'
<1>1. /\ status \in [IPs -> {"none", "N", "P", "D"}]
      /\ status' = [i \in IPs |-> IF status[i] = "P" THEN "D" ELSE status[i]]
      /\ UNCHANGED <<arriving, items, ruleFiles, tmpRules, firewall,
                     life, failures, crashes, unlucky>>
      /\ dpc = "markD" /\ dpc' = "loop" /\ selected' = {}
  BY DEF IndInv, TypeOK, MarkDone, Update, Goto, files, bounds
<1>2. TypeOK'
  BY <1>1 DEF IndInv, TypeOK
<1>3. RoundIsPending' /\ RoundIsOnItsWay'
  BY <1>1 DEF RoundIsPending, RoundIsOnItsWay
<1>4. RowsOfRules'
  BY <1>1 DEF IndInv, TypeOK, RowsOfRules
<1>5. DoneIsDropped'
  <2>1. Enabled => With("P") \subseteq firewall \cup unlucky
    BY <1>1 DEF IndInv, RoundIsPending, RoundIsOnItsWay
  <2> QED BY <1>1, <2>1 DEF IndInv, DoneIsDropped, With
<1> QED BY <1>2, <1>3, <1>4, <1>5 DEF IndInv

-----------------------------------------------------------------------------
(***************************************************************************)
(* Every step of the next-state relation preserves the invariant.          *)
(***************************************************************************)
LEMMA NextInv == IndInv /\ [Next]_vars => IndInv'
<1> SUFFICES ASSUME IndInv, [Next]_vars PROVE IndInv'
  OBVIOUS
<1>0. TypeOK
  BY DEF IndInv
<1>1. ASSUME NEW ip \in IPs, InsertNew(ip) \/ InsertDropped(ip) PROVE IndInv'
  BY <1>1, InsertKeeps
<1>2. ASSUME NEW ip \in IPs, ForwardNotify(ip) PROVE IndInv'
  <2>1. TypeOK'
    BY <1>0, <1>2 DEF TypeOK, ForwardNotify, DropEvent!NotifyNew, files, bounds
  <2> QED BY <1>2, <2>1, Bystander
          DEF ForwardNotify, DropEvent!NotifyNew, Outside
<1>3. CASE Top
  <2>1. TypeOK' /\ dpc' \in Outside
    BY <1>0, <1>3 DEF TypeOK, Top, Goto, files, bounds, Outside
  <2> QED BY <1>3, <2>1, Bystander DEF Top
<1>4. CASE InEvent
  <2>1. dpc' \in Outside /\ items' \in BOOLEAN
    BY <1>0, <1>4 DEF TypeOK, InEvent, DropEvent!EventStep, DropEvent!Test,
          DropEvent!Block, DropEvent!Clear, DropEvent!LoadPending,
          DropEvent!ResetPending, Outside
  <2>2. TypeOK'
    BY <1>0, <1>4, <2>1 DEF TypeOK, InEvent, files, bounds, Outside
  <2> QED BY <1>4, <2>1, <2>2, Bystander DEF InEvent
<1>5. CASE SpuriousWakeup
  <2>1. TypeOK' /\ dpc' \in Outside
    BY <1>0, <1>5 DEF TypeOK, SpuriousWakeup, DropEvent!SpuriousWakeup, files,
          bounds, Outside
  <2> QED BY <1>5, <2>1, Bystander DEF SpuriousWakeup
<1>6. CASE MarkPending
  BY <1>6, MarkPendingKeeps
<1>7. CASE Round
  BY <1>7, RoundKeeps
<1>8. CASE MarkDone
  BY <1>8, MarkDoneKeeps
<1>9. CASE SqlError
  <2>1. TypeOK'
    BY <1>0, <1>9, DropAssumption DEF TypeOK, SqlError, files, bounds
  <2> QED BY <1>9, <2>1 DEF SqlError, IndInv, RoundIsPending, RoundIsOnItsWay,
          RowsOfRules, DoneIsDropped, files
<1>10. CASE Stop
  <2>1. TypeOK'
    BY <1>0, <1>10 DEF TypeOK, Stop, files, bounds
  <2> QED BY <1>10, <2>1, Bystander DEF Stop
<1>11. CASE ReleaseAll
  <2>1. TypeOK'
    BY <1>0, <1>11 DEF TypeOK, ReleaseAll, DropEvent!NotifyNew, files, bounds
  <2> QED BY <1>11, <2>1, Bystander
          DEF ReleaseAll, DropEvent!NotifyNew, Outside
<1>12. CASE Crash
  <2>0. crashes' \in 0 .. MaxCrashes
    BY <1>0, <1>12, DropAssumption DEF TypeOK, Crash
  <2>1. TypeOK'
    BY <1>0, <1>12, <2>0 DEF TypeOK, Crash, files
  <2> QED BY <1>12, <2>1 DEF Crash, IndInv, RoundIsPending, RoundIsOnItsWay,
          RowsOfRules, DoneIsDropped, files
<1>13. CASE StrayNotify
  <2>1. TypeOK'
    BY <1>0, <1>13 DEF TypeOK, StrayNotify, DropEvent!NotifyNew, files, bounds
  <2> QED BY <1>13, <2>1, Bystander
          DEF StrayNotify, DropEvent!NotifyNew, Outside
<1>14. CASE UNCHANGED vars
  <2>1. TypeOK'
    BY <1>0, <1>14 DEF TypeOK, vars
  <2> QED BY <1>14, <2>1, Bystander DEF vars, files
<1> QED
  BY <1>1, <1>2, <1>3, <1>4, <1>5, <1>6, <1>7, <1>8, <1>9, <1>10, <1>11, <1>12,
     <1>13, <1>14 DEF Next, DropStep, Round, Terminated

(***************************************************************************)
(* The inductive invariant holds in every reachable state.                 *)
(***************************************************************************)
THEOREM Invariance == Spec => []IndInv
BY InitInv, NextInv, PTL DEF Spec

(***************************************************************************)
(* Every variable keeps its type.                                          *)
(***************************************************************************)
THEOREM DropTypes == Spec => []TypeOK
<1>1. IndInv => TypeOK
  BY DEF IndInv
<1> QED BY <1>1, Invariance, PTL

(***************************************************************************)
(* No row is 'D' while its address is open, unless an iptables-restore has *)
(* failed on it: whatever the rows that arrive meanwhile and the crashes.  *)
(***************************************************************************)
THEOREM DoneMeansDropped == Spec => []DoneIsDropped
<1>1. IndInv => DoneIsDropped
  BY DEF IndInv
<1> QED BY <1>1, Invariance, PTL

(***************************************************************************)
(* No rule file, and no rule in run/tmp, names an address whose row is new *)
(* or missing.                                                             *)
(***************************************************************************)
THEOREM RulesComeFromRows == Spec => []RulesHaveRows
<1>1. IndInv => RulesHaveRows
  <2> SUFFICES ASSUME IndInv,
                      NEW ip \in tmpRules \cup UNION {f.ips : f \in ruleFiles}
               PROVE  status[ip] \in {"P", "D"}
    BY DEF RulesHaveRows
  <2>1. ip \in tmpRules \/ \E f \in ruleFiles : ip \in f.ips
    OBVIOUS
  <2> QED BY <2>1 DEF IndInv, RowsOfRules
<1> QED BY <1>1, Invariance, PTL

(***************************************************************************)
(* Only the rows the SELECT of this round returned go from 'P' to 'D'.     *)
(***************************************************************************)
THEOREM OnlyOwnRound == Spec => OnlySelectedDone
<1> DEFINE Step == \A ip \in IPs : status[ip] = "P" /\ status'[ip] = "D"
                                      => ip \in selected
<1>1. IndInv /\ [Next]_vars => [Step]_vars
  <2> SUFFICES ASSUME IndInv, Next, NEW ip \in IPs, status[ip] = "P",
                      status'[ip] = "D"
               PROVE  ip \in selected
    OBVIOUS
  <2>1. status \in [IPs -> {"none", "N", "P", "D"}]
    BY DEF IndInv, TypeOK
  <2>2. ~ \E i \in IPs : InsertNew(i) \/ InsertDropped(i)
    BY <2>1 DEF InsertNew, InsertDropped, InsertRow
  <2>3. ~ MarkPending
    BY <2>1 DEF MarkPending, Update
  <2>4. MarkDone
    BY <2>1, <2>2, <2>3 DEF Next, DropStep, ForwardNotify, StrayNotify, Top, InEvent,
       SelectPending, WriteRules, WriteFlag, CleanTmp, MoveRules, Restore,
       RestoreFails, SqlError, SpuriousWakeup, Stop, ReleaseAll, Crash,
       Terminated, vars
  <2>5. selected = With("P")
    BY <2>4 DEF MarkDone, Goto, IndInv, RoundIsPending
  <2> QED BY <2>5 DEF With
<1> QED BY <1>1, Invariance, PTL DEF Spec, OnlySelectedDone
=============================================================================
