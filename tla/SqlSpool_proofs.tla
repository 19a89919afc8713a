-------------------------- MODULE SqlSpool_proofs --------------------------
(***************************************************************************)
(* What the spool directory of a table keeps, for every set of statements, *)
(* of writers and every number of crashes.                                 *)
(***************************************************************************)
EXTENDS SqlSpool, FiniteSetTheorems, TLAPS

\* A writer between its first and its second step owns the .tmp file it wrote.
WriterOwns ==
    /\ \A w \in Writers : wpc[w] # "idle" => wrec[w] \in Records
    /\ \A w \in Writers : wpc[w] = "written" => wrec[w] \in tmp
    /\ \A v, w \in Writers :
          wpc[v] = "written" /\ wpc[w] = "written" /\ wrec[v] = wrec[w] => v = w

\* A file has one name at a time, and is published once.
OneName ==
    /\ tmp \cap published = {}
    /\ spool \cup sqlErr \subseteq published
    /\ published \subseteq Records
    /\ spool \cap sqlErr = {}

\* The file the execSqlInsert thread has open is in the directory, and before
\* it is removed its statement has been executed.
OpenFile ==
    /\ spc \in {"execute", "remove"} => cur \in spool
    /\ spc = "remove" => db[cur] > 0

\* The file whose statement has been executed in this life, and not removed yet.
Executed(r) == spc = "remove" /\ r = cur

\* A statement is executed in the spool only, and each time it is found there
\* again the process has died in between.
OncePerFind ==
    /\ \A r \in Records : r \notin published => db[r] = 0
    /\ \A r \in Records : db[r] <= 1 + crashes
    /\ \A r \in spool : ~Executed(r) => db[r] <= crashes
    /\ crashes = 0 => \A r \in sqlErr : db[r] = 0

\* Statements that were executed twice, or will be.
Repeated == {r \in Records : db[r] > 1 \/ (r \in spool /\ db[r] = 1 /\ ~Executed(r))}

IndInv == /\ TypeOK /\ WriterOwns /\ OneName /\ OpenFile /\ OncePerFind
          /\ NothingLost /\ Cardinality(Repeated) <= crashes

USE DEF TableEvent!InWait, TableEvent!InPending, TableEvent!Returned

-----------------------------------------------------------------------------
(***************************************************************************)
(* The repeated statements are finitely many, and counted by a number; a   *)
(* set of them that does not grow does not grow in number.                 *)
(***************************************************************************)
LEMMA RepeatedFinite ==
  /\ IsFiniteSet(Repeated) /\ Cardinality(Repeated) \in Nat
  /\ IsFiniteSet(Repeated') /\ Cardinality(Repeated') \in Nat
  BY SpoolAssumption, FS_Subset, FS_CardinalityType DEF Repeated

LEMMA NotMoreRepeated ==
  ASSUME Repeated' \subseteq Repeated, Cardinality(Repeated) <= crashes,
         crashes \in Nat, crashes' = crashes
  PROVE  Cardinality(Repeated') <= crashes'
<1>1. Cardinality(Repeated') <= Cardinality(Repeated)
  BY RepeatedFinite, FS_Subset
<1> QED BY <1>1, RepeatedFinite

(***************************************************************************)
(* The initial states satisfy the inductive invariant.                     *)
(***************************************************************************)
LEMMA InitInv == Init => IndInv
<1> SUFFICES ASSUME Init PROVE IndInv
  OBVIOUS
<1>1. TypeOK
  <2>1. db \in [Records -> Nat]
    BY DEF Init
  <2>2. /\ wpc \in [Writers -> {"idle", "written", "renamed"}]
        /\ wrec \in [Writers -> Records \cup {NoRecord}]
    BY DEF Init
  <2>3. crashes \in 0 .. MaxCrashes
    BY SpoolAssumption DEF Init
  <2> QED BY <2>1, <2>2, <2>3 DEF Init, TypeOK
<1>2. Repeated = {}
  BY DEF Init, Repeated
<1>3. Cardinality(Repeated) <= crashes
  BY <1>2, FS_EmptySet DEF Init
<1>4. WriterOwns /\ OneName /\ OpenFile /\ OncePerFind /\ NothingLost
  BY DEF Init, WriterOwns, OneName, OpenFile, OncePerFind, NothingLost,
         Executed
<1> QED BY <1>1, <1>3, <1>4 DEF IndInv

(***************************************************************************)
(* Steps that touch neither the disk nor the table, and neither open a     *)
(* file nor go on with the one that is open.                               *)
(***************************************************************************)
Quiet ==
    \/ \E w \in Writers : NotifySpool(w)
    \/ Top \/ InEvent \/ SpuriousWakeup \/ Connect \/ Loop \/ NonePending
    \/ OpenDirectory \/ EndOfDirectory \/ Forward \/ TakeForwarded \/ Stop
    \/ ReleaseAll

LEMMA QuietTypes ==
  ASSUME TypeOK, Quiet
  PROVE  TypeOK'
<1> USE DEF TypeOK
<1>1. CASE \E w \in Writers : NotifySpool(w)
  BY <1>1 DEF NotifySpool, TableEvent!NotifyNew, disk
<1>2. CASE Top \/ Connect \/ Loop \/ NonePending
  BY <1>2 DEF Top, Connect, Loop, NonePending, Goto, disk, wvars
<1>3. CASE InEvent \/ SpuriousWakeup
  BY <1>3 DEF InEvent, SpuriousWakeup, TableEvent!EventStep, TableEvent!Test,
     TableEvent!Block, TableEvent!Clear, TableEvent!LoadPending,
     TableEvent!ResetPending, TableEvent!SpuriousWakeup, disk, wvars
<1>4. CASE OpenDirectory \/ EndOfDirectory \/ Forward
  BY <1>4 DEF OpenDirectory, EndOfDirectory, Forward, Goto, disk, wvars
<1>5. CASE TakeForwarded \/ Stop
  BY <1>5 DEF TakeForwarded, Stop, disk, wvars
<1>6. CASE ReleaseAll
  BY <1>6 DEF ReleaseAll, TableEvent!NotifyNew, disk, wvars
<1> QED BY <1>1, <1>2, <1>3, <1>4, <1>5, <1>6 DEF Quiet

LEMMA QuietFacts ==
  ASSUME TypeOK, Quiet
  PROVE  /\ UNCHANGED <<disk, crashes>>
         /\ spc' \in {"execute", "remove"} \/ spc \in {"execute", "remove"}
               => spc' = spc /\ cur' = cur
         /\ \A w \in Writers : wpc'[w] # "idle" =>
               wpc'[w] = wpc[w] /\ wrec'[w] = wrec[w]
<1> USE DEF TypeOK
<1>1. CASE \E w \in Writers : NotifySpool(w)
  BY <1>1 DEF NotifySpool, TableEvent!NotifyNew, disk
<1>2. CASE Top \/ Connect \/ Loop \/ NonePending
  BY <1>2 DEF Top, Connect, Loop, NonePending, Goto, disk, wvars
<1>3. CASE InEvent \/ SpuriousWakeup
  BY <1>3 DEF InEvent, SpuriousWakeup, TableEvent!EventStep, TableEvent!Test,
     TableEvent!Block, TableEvent!Clear, TableEvent!LoadPending,
     TableEvent!ResetPending, TableEvent!SpuriousWakeup, disk, wvars
<1>4. CASE OpenDirectory \/ EndOfDirectory \/ Forward
  BY <1>4 DEF OpenDirectory, EndOfDirectory, Forward, Goto, disk, wvars
<1>5. CASE TakeForwarded \/ Stop
  BY <1>5 DEF TakeForwarded, Stop, disk, wvars
<1>6. CASE ReleaseAll
  BY <1>6 DEF ReleaseAll, TableEvent!NotifyNew, disk, wvars
<1> QED BY <1>1, <1>2, <1>3, <1>4, <1>5, <1>6 DEF Quiet

LEMMA QuietInv ==
  ASSUME IndInv, Quiet
  PROVE  IndInv'
<1> USE DEF IndInv
<1>1. /\ UNCHANGED <<tmp, spool, sqlErr, db, published, crashes>>
      /\ spc' \in {"execute", "remove"} \/ spc \in {"execute", "remove"}
            => spc' = spc /\ cur' = cur
      /\ \A w \in Writers : wpc'[w] # "idle" =>
            wpc'[w] = wpc[w] /\ wrec'[w] = wrec[w]
  BY QuietFacts DEF disk
<1>2. TypeOK'
  BY QuietTypes
<1>3. \A r : Executed(r)' <=> Executed(r)
  BY <1>1 DEF Executed
<1>4. WriterOwns'
  BY <1>1 DEF WriterOwns
<1>5. OneName' /\ OpenFile' /\ NothingLost'
  BY <1>1 DEF OneName, OpenFile, NothingLost
<1>6. OncePerFind'
  BY <1>1, <1>3 DEF OncePerFind
<1>7. Repeated' \subseteq Repeated
  BY <1>1, <1>3 DEF Repeated
<1>8. Cardinality(Repeated') <= crashes'
  BY <1>1, <1>7, NotMoreRepeated DEF TypeOK
<1> QED BY <1>2, <1>4, <1>5, <1>6, <1>8

(***************************************************************************)
(* The two steps of a writer that change the directory.                    *)
(***************************************************************************)
LEMMA WriteTmpInv ==
  ASSUME IndInv, NEW w \in Writers, WriteTmp(w)
  PROVE  IndInv'
<1> USE DEF IndInv
<1>1. PICK r \in Records : /\ Fresh(r) /\ tmp' = tmp \cup {r}
                           /\ wrec' = [wrec EXCEPT ![w] = r]
  BY DEF WriteTmp
<1>2. /\ UNCHANGED <<spool, sqlErr, db, items, spc, toVisit, cur, forwarded,
                     life, crashes, published>>
      /\ wpc' = [wpc EXCEPT ![w] = "written"]
  BY DEF WriteTmp
<1>3. TypeOK'
  BY <1>1, <1>2 DEF TypeOK
<1>4. WriterOwns'
  BY <1>1, <1>2 DEF WriterOwns, TypeOK, Fresh
<1>5. OneName' /\ OpenFile' /\ NothingLost' /\ OncePerFind'
  BY <1>1, <1>2 DEF OneName, OpenFile, NothingLost, OncePerFind, Fresh,
     Executed
<1>6. Repeated' \subseteq Repeated
  BY <1>2 DEF Repeated, Executed
<1>7. Cardinality(Repeated') <= crashes'
  BY <1>2, <1>6, NotMoreRepeated DEF TypeOK
<1> QED BY <1>3, <1>4, <1>5, <1>7

LEMMA PublishInv ==
  ASSUME IndInv, NEW w \in Writers, Publish(w)
  PROVE  IndInv'
<1> USE DEF IndInv
<1> DEFINE r == wrec[w]
<1>1. /\ tmp' = tmp \ {r} /\ spool' = spool \cup {r}
      /\ published' = published \cup {r}
      /\ wpc[w] = "written" /\ wpc' = [wpc EXCEPT ![w] = "renamed"]
      /\ UNCHANGED <<sqlErr, db, items, spc, toVisit, cur, wrec, forwarded,
                     life, crashes>>
  BY DEF Publish
<1>2. r \in Records /\ r \in tmp /\ r \notin published
  BY <1>1 DEF WriterOwns, OneName
<1>3. db[r] = 0 /\ r \notin spool /\ r \notin sqlErr
  BY <1>2 DEF OncePerFind, OneName
<1>4. TypeOK'
  BY <1>1, <1>2 DEF TypeOK
<1>5. WriterOwns'
  BY <1>1 DEF WriterOwns, TypeOK
<1>6. OneName' /\ OpenFile' /\ NothingLost'
  BY <1>1, <1>2, <1>3 DEF OneName, OpenFile, NothingLost
<1>7. OncePerFind'
  BY <1>1, <1>3 DEF OncePerFind, Executed, TypeOK
<1>8. Repeated' \subseteq Repeated
  BY <1>1, <1>3 DEF Repeated, Executed
<1>9. Cardinality(Repeated') <= crashes'
  BY <1>1, <1>8, NotMoreRepeated DEF TypeOK
<1> QED BY <1>4, <1>5, <1>6, <1>7, <1>9

(***************************************************************************)
(* The way of a file through the execSqlInsert thread.                     *)
(***************************************************************************)
LEMMA NextFileInv ==
  ASSUME IndInv, NextFile
  PROVE  IndInv'
<1> USE DEF IndInv
<1>1. /\ cur' \in spool /\ spc = "scan" /\ spc' = "execute"
      /\ toVisit' = toVisit \ {cur'}
      /\ UNCHANGED <<tmp, spool, sqlErr, db, published, items, wpc, wrec,
                     forwarded, life, crashes>>
  BY DEF NextFile, Goto, disk, wvars
<1>2. TypeOK'
  BY <1>1 DEF TypeOK
<1>3. WriterOwns' /\ OneName' /\ OpenFile' /\ NothingLost' /\ OncePerFind'
  BY <1>1 DEF WriterOwns, OneName, OpenFile, NothingLost, OncePerFind,
     Executed
<1>4. Repeated' \subseteq Repeated
  BY <1>1 DEF Repeated, Executed
<1>5. Cardinality(Repeated') <= crashes'
  BY <1>1, <1>4, NotMoreRepeated DEF TypeOK
<1> QED BY <1>2, <1>3, <1>5

LEMMA ExecuteInv ==
  ASSUME IndInv, Execute
  PROVE  IndInv'
<1> USE DEF IndInv
<1>1. /\ spc = "execute" /\ spc' = "remove"
      /\ db' = [db EXCEPT ![cur] = @ + 1]
      /\ UNCHANGED <<tmp, spool, sqlErr, published, items, toVisit, cur, wpc,
                     wrec, forwarded, life, crashes>>
  BY DEF Execute, Goto, wvars
<1>2. cur \in spool /\ cur \in Records /\ cur \in published /\ cur \notin sqlErr
  BY <1>1 DEF OpenFile, OneName
<1>3. /\ db'[cur] = db[cur] + 1 /\ db[cur] \in Nat /\ db[cur] <= crashes
      /\ \A r \in Records : r # cur => db'[r] = db[r]
  BY <1>1, <1>2 DEF TypeOK, OncePerFind, Executed
<1>4. TypeOK'
  BY <1>1, <1>2 DEF TypeOK
<1>5. WriterOwns' /\ OneName'
  BY <1>1 DEF WriterOwns, OneName
<1>6. OpenFile' /\ NothingLost'
  BY <1>1, <1>2, <1>3 DEF OpenFile, NothingLost, OneName
<1>7. OncePerFind'
  <2>1. \A r \in Records : r \notin published' => db'[r] = 0
    BY <1>1, <1>2, <1>3 DEF OncePerFind
  <2>2. \A r \in Records : db'[r] <= 1 + crashes'
    BY <1>1, <1>2, <1>3 DEF OncePerFind, TypeOK
  <2>3. \A r \in spool' : ~Executed(r)' => db'[r] <= crashes'
    BY <1>1, <1>3 DEF OncePerFind, Executed, TypeOK
  <2>4. crashes' = 0 => \A r \in sqlErr' : db'[r] = 0
    BY <1>1, <1>2, <1>3 DEF OncePerFind, TypeOK
  <2> QED BY <2>1, <2>2, <2>3, <2>4 DEF OncePerFind
<1>8. Repeated' \subseteq Repeated
  BY <1>1, <1>2, <1>3 DEF Repeated, Executed
<1>9. Cardinality(Repeated') <= crashes'
  BY <1>1, <1>8, NotMoreRepeated DEF TypeOK
<1> QED BY <1>4, <1>5, <1>6, <1>7, <1>9

LEMMA RejectInv ==
  ASSUME IndInv, Reject
  PROVE  IndInv'
<1> USE DEF IndInv
<1>1. /\ spc = "execute" /\ spc' = "scan"
      /\ spool' = spool \ {cur} /\ sqlErr' = sqlErr \cup {cur}
      /\ cur' = NoRecord
      /\ UNCHANGED <<tmp, db, published, items, toVisit, wpc, wrec, forwarded,
                     life, crashes>>
  BY DEF Reject, Goto, wvars
<1>2. cur \in spool /\ cur \in Records /\ cur \in published
  BY <1>1 DEF OpenFile, OneName
<1>3. db[cur] <= crashes /\ db[cur] \in Nat
  BY <1>1, <1>2 DEF OncePerFind, Executed, TypeOK
<1>4. TypeOK'
  BY <1>1, <1>2 DEF TypeOK
<1>5. WriterOwns' /\ OneName' /\ OpenFile' /\ NothingLost'
  BY <1>1, <1>2 DEF WriterOwns, OneName, OpenFile, NothingLost
<1>6. OncePerFind'
  BY <1>1, <1>2, <1>3 DEF OncePerFind, Executed, TypeOK
<1>7. Repeated' \subseteq Repeated
  BY <1>1 DEF Repeated, Executed
<1>8. Cardinality(Repeated') <= crashes'
  BY <1>1, <1>7, NotMoreRepeated DEF TypeOK
<1> QED BY <1>4, <1>5, <1>6, <1>8

LEMMA RemoveInv ==
  ASSUME IndInv, Remove
  PROVE  IndInv'
<1> USE DEF IndInv
<1>1. /\ spc = "remove" /\ spc' = "forward" /\ spool' = spool \ {cur}
      /\ UNCHANGED <<tmp, sqlErr, db, published, items, toVisit, cur, wpc,
                     wrec, forwarded, life, crashes>>
  BY DEF Remove, Goto, wvars
<1>2. cur \in spool /\ db[cur] > 0
  BY <1>1 DEF OpenFile
<1>3. TypeOK'
  BY <1>1 DEF TypeOK
<1>4. WriterOwns' /\ OneName' /\ OpenFile' /\ NothingLost'
  BY <1>1, <1>2 DEF WriterOwns, OneName, OpenFile, NothingLost
<1>5. OncePerFind'
  BY <1>1 DEF OncePerFind, Executed
<1>6. Repeated' \subseteq Repeated
  BY <1>1 DEF Repeated, Executed
<1>7. Cardinality(Repeated') <= crashes'
  BY <1>1, <1>6, NotMoreRepeated DEF TypeOK
<1> QED BY <1>3, <1>4, <1>5, <1>7

(***************************************************************************)
(* A crash adds at most the file that was being removed to those whose     *)
(* statement will be executed again.                                       *)
(***************************************************************************)
LEMMA CrashInv ==
  ASSUME IndInv, Crash
  PROVE  IndInv'
<1> USE DEF IndInv
<1>1. /\ crashes < MaxCrashes /\ crashes' = crashes + 1
      /\ items' = FALSE /\ spc' = "top" /\ toVisit' = {} /\ cur' = NoRecord
      /\ wpc' = [w \in Writers |-> "idle"]
      /\ wrec' = [w \in Writers |-> NoRecord]
      /\ forwarded' = FALSE /\ life' = "running"
      /\ UNCHANGED <<tmp, spool, sqlErr, db, published>>
  BY DEF Crash, disk
<1>2. TypeOK'
  <2>1. /\ wpc' \in [Writers -> {"idle", "written", "renamed"}]
        /\ wrec' \in [Writers -> Records \cup {NoRecord}]
    BY <1>1
  <2>2. crashes' \in 0 .. MaxCrashes
    BY <1>1, SpoolAssumption DEF TypeOK
  <2> QED BY <1>1, <2>1, <2>2 DEF TypeOK
<1>3. WriterOwns' /\ OneName' /\ OpenFile' /\ NothingLost'
  BY <1>1 DEF WriterOwns, OneName, OpenFile, NothingLost
<1>4. OncePerFind'
  <2>1. \A r \in Records : db[r] <= 1 + crashes'
    BY <1>1 DEF OncePerFind, TypeOK
  <2>2. \A r \in spool : db[r] <= crashes'
    BY <1>1 DEF OncePerFind, TypeOK
  <2>3. crashes' # 0
    BY <1>1 DEF TypeOK
  <2> QED BY <1>1, <2>1, <2>2, <2>3 DEF OncePerFind
<1>5. Cardinality(Repeated') <= crashes'
  <2>1. Repeated' \subseteq Repeated \cup {cur}
    BY <1>1 DEF Repeated, Executed
  <2>2. /\ IsFiniteSet(Repeated \cup {cur})
        /\ Cardinality(Repeated \cup {cur}) <= Cardinality(Repeated) + 1
    <3>1. Cardinality(Repeated \cup {cur}) =
             IF cur \in Repeated THEN Cardinality(Repeated)
             ELSE Cardinality(Repeated) + 1
      BY RepeatedFinite, FS_AddElement
    <3>2. IsFiniteSet(Repeated \cup {cur})
      BY RepeatedFinite, FS_AddElement
    <3> QED BY <3>1, <3>2, RepeatedFinite
  <2>3. Cardinality(Repeated') <= Cardinality(Repeated \cup {cur})
    BY <2>1, <2>2, FS_Subset
  <2>4. Cardinality(Repeated \cup {cur}) \in Nat
    BY <2>2, FS_CardinalityType
  <2> QED BY <1>1, <2>2, <2>3, <2>4, RepeatedFinite DEF TypeOK
<1> QED BY <1>2, <1>3, <1>4, <1>5

LEMMA StutterInv ==
  ASSUME IndInv, UNCHANGED vars
  PROVE  IndInv'
  BY DEF IndInv, vars, TypeOK, WriterOwns, OneName, OpenFile, OncePerFind,
     NothingLost, Repeated, Executed

(***************************************************************************)
(* The inductive invariant, for every set of statements and writers.       *)
(***************************************************************************)
THEOREM Invariance == Spec => []IndInv
<1>1. IndInv /\ [Next]_vars => IndInv'
  <2> SUFFICES ASSUME IndInv, [Next]_vars PROVE IndInv'
    OBVIOUS
  <2>1. CASE Quiet
    BY <2>1, QuietInv
  <2>2. CASE \E w \in Writers : WriteTmp(w) \/ Publish(w)
    BY <2>2, WriteTmpInv, PublishInv
  <2>3. CASE NextFile \/ Execute \/ Reject \/ Remove
    BY <2>3, NextFileInv, ExecuteInv, RejectInv, RemoveInv
  <2>4. CASE Crash
    BY <2>4, CrashInv
  <2>5. CASE UNCHANGED vars
    BY <2>5, StutterInv
  <2> QED BY <2>1, <2>2, <2>3, <2>4, <2>5 DEF Next, SqlThread, Quiet, Terminated
<1> QED BY <1>1, InitInv, PTL DEF Spec

(***************************************************************************)
(* Every variable of the spool keeps its type.                             *)
(***************************************************************************)
THEOREM SpoolTypes == Spec => []TypeOK
<1>1. IndInv => TypeOK
  BY DEF IndInv
<1> QED BY <1>1, Invariance, PTL

(***************************************************************************)
(* No crash and no SQL error loses a statement whose file insertInto*Table *)
(* has renamed to .txt.                                                    *)
(***************************************************************************)
THEOREM SpoolLosesNothing == Spec => []NothingLost
<1>1. IndInv => NothingLost
  BY DEF IndInv
<1> QED BY <1>1, Invariance, PTL

(***************************************************************************)
(* A file is in one directory, under one name.                             *)
(***************************************************************************)
THEOREM SpoolOnePlace == Spec => []OnePlace
<1>1. IndInv => OnePlace
  BY DEF IndInv, OnePlace, OneName, OncePerFind
<1> QED BY <1>1, Invariance, PTL

(***************************************************************************)
(* Between its execution and the removal of its file a crash repeats a     *)
(* statement, and nothing else does: n crashes repeat at most n.           *)
(***************************************************************************)
THEOREM SpoolRepeatsByCrash == Spec => []RepeatedOnlyByCrash
<1>1. IndInv => RepeatedOnlyByCrash
  <2> SUFFICES ASSUME IndInv PROVE RepeatedOnlyByCrash
    OBVIOUS
  <2>1. {r \in Records : db[r] > 1} \subseteq Repeated
    BY DEF Repeated
  <2>2. /\ Cardinality({r \in Records : db[r] > 1}) <= Cardinality(Repeated)
        /\ Cardinality({r \in Records : db[r] > 1}) \in Nat
    BY <2>1, RepeatedFinite, FS_Subset, FS_CardinalityType
  <2>3. Cardinality({r \in Records : db[r] > 1}) <= crashes
    BY <2>2, RepeatedFinite DEF IndInv, TypeOK
  <2> QED BY <2>3 DEF IndInv, OncePerFind, RepeatedOnlyByCrash
<1> QED BY <1>1, Invariance, PTL
=============================================================================
