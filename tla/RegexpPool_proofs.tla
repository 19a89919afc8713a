------------------------ MODULE RegexpPool_proofs ------------------------
(***************************************************************************)
(* What the two barriers protect, for every finite set of regexps, every   *)
(* whitelist and every sequence of lines.                                  *)
(***************************************************************************)
EXTENDS RegexpPool, FiniteSetTheorems, TLAPS

\* Where a regexp thread is while the processing thread waits for the second
\* barrier, and where it is otherwise.
Kept    == {"branch", "audt", "eval", "hist", "drop", "wait2"}
Stored  == {"white"} \cup Kept
Saved   == {"load", "store"} \cup Stored
Active  == {"search", "save"} \cup Saved
Acting  == Active \ {"search", "wait2"}
Between == {"check", "multi", "while", "wait1", "left"}

\* The barriers keep the two in step.
Lockstep ==
    /\ ppc \in {"accept", "clear", "wait1", "see", "write"} =>
          \A r \in Regexps : rpc[r] \in Between
    /\ ppc = "wait2" => \A r \in Regexps : rpc[r] \in Active
    /\ ppc \in {"notify", "join", "returned"} =>
          \A r \in Regexps : rpc[r] \in {"search", "while", "left"}

\* The string behind linePtr: the last line taken, or EXIT.
LineIs ==
    /\ line = EXIT => ppc \in {"clear", "wait1", "notify", "join", "returned"}
    /\ line # EXIT => line = Len(text) /\ ppc \notin {"notify", "join", "returned"}
    /\ line # EXIT /\ ppc # "accept" => 0 < line
    /\ \A r \in Regexps : rpc[r] \in {"check", "multi"} => line # EMPTY

\* Of the lines taken all are seen but the one at hand.
AtHand == ppc \in {"clear", "wait1", "wait2", "see"} /\ line # EXIT

SeenLines ==
    /\ Seen \subseteq 1 .. Len(text)
    /\ \A n \in 1 .. Len(text) : n \in Seen \/ (AtHand /\ n = line)
    /\ AtHand => line \notin Seen
    /\ \A row \in seen : row.matched <=> Matching(row.line) # {}

\* Rows name lines that have been taken, the one at hand from the barrier on.
RowsHaveLines ==
    \A row \in eval \cup hist \cup drop :
        /\ row.line \in 1 .. Len(text)
        /\ ppc \in {"clear", "wait1"} => row.line # line

\* What EvaluatedBeforeSeen and SingleMatchExact say of one line.
Evaluated(n, r) ==
    \/ RowsOf(audt, n, r) # {}
    \/ RowsOf(eval, n, r) # {} /\ r \notin Immediate
    \/ RowsOf(hist, n, r) # {} /\ RowsOf(drop, n, r) # {} /\ r \in Immediate

Open(n, r)  == text[n][r] \notin Whitelist
Rec(n, r)   == [line |-> n, regexp |-> r, ip |-> text[n][r]]
Just(n, r, holds) == IF holds THEN {Rec(n, r)} ELSE {}

Exact(n, r) ==
    /\ RowsOf(drop, n, r) = Just(n, r, r \in Immediate /\ Open(n, r))
    /\ RowsOf(hist, n, r) = Just(n, r, r \in Immediate /\ Open(n, r))
    /\ RowsOf(eval, n, r) = Just(n, r, r \notin Immediate /\ Open(n, r))
    /\ ~Open(n, r) => \E row \in RowsOf(audt, n, r) : row.ip = text[n][r] /\ row.white

\* Some regexp that matches the line captured an IP that is not whitelisted.
OpenIP(n) == \E q \in Matching(n) : Open(n, q)

\* A thread at work on the line at hand.
ThreadIs(r) ==
    /\ rpc[r] \in Acting => r \in Matching(line)
    /\ rpc[r] = "eval" => r \notin Immediate
    /\ rpc[r] \in {"hist", "drop"} => r \in Immediate /\ OpenIP(line)
    /\ rpc[r] = "drop" => RowsOf(hist, line, r) # {}
    /\ r \in Matching(line) /\ rpc[r] = "wait2" => Evaluated(line, r)
    /\ r \in Matching(line) /\ rpc[r] \in Stored => matchCount > 0
    /\ r \in Matching(line) /\ rpc[r] \in Kept /\ ~whitelisted => OpenIP(line)

\* The same, when no other regexp matches the line.
AloneIs(r) ==
    LET open == Open(line, r)
    IN  /\ rpc[r] \in Saved => ipAddr = text[line][r]
        /\ rpc[r] \in Kept => whitelisted = ~open
        /\ rpc[r] = "audt" => whitelisted
        /\ rpc[r] \in {"eval", "hist", "drop"} => ~whitelisted
        /\ RowsOf(drop, line, r) =
              Just(line, r, rpc[r] = "wait2" /\ r \in Immediate /\ open)
        /\ RowsOf(hist, line, r) =
              Just(line, r, rpc[r] \in {"drop", "wait2"} /\ r \in Immediate /\ open)
        /\ RowsOf(eval, line, r) =
              Just(line, r, rpc[r] = "wait2" /\ r \notin Immediate /\ open)
        /\ rpc[r] = "wait2" /\ ~open =>
              \E row \in RowsOf(audt, line, r) : row.ip = text[line][r] /\ row.white

Alone(r) == Matching(line) = {r}

Threads ==
    ppc = "wait2" => \A r \in Regexps : ThreadIs(r) /\ (Alone(r) => AloneIs(r))

\* The count, although its increments may overwrite each other.
Counted == {r \in Matching(line) : rpc[r] \in Stored}

Counts ==
    /\ ppc = "wait1" => matchCount = 0
    /\ ppc = "wait2" =>
          /\ matchCount <= Cardinality(Counted)
          /\ \A r \in Regexps : rpc[r] = "store" => loaded[r] <= Cardinality(Counted)
          /\ matchCount > 0 => Matching(line) # {}
    /\ ppc = "see" => (matchCount > 0 <=> Matching(line) # {})

\* Behind the second barrier the line at hand is worked off.
LineDone ==
    ppc = "see" => \A r \in Matching(line) :
                      Evaluated(line, r) /\ (Alone(r) => Exact(line, r))

AllEvaluated == \A n \in Seen : \A r \in Matching(n) : Evaluated(n, r)
AllExact     == \A n \in Seen, r \in Regexps : Matching(n) = {r} => Exact(n, r)
DropsOpen    == \A row \in drop : row.ip \in Whitelist => OpenIP(row.line)

IndInv == TypeOK /\ Lockstep /\ LineIs /\ SeenLines /\ RowsHaveLines /\ Threads
          /\ Counts /\ LineDone /\ AllEvaluated /\ AllExact /\ DropsOpen

USE DEF Kept, Stored, Saved, Active, Acting, Between

-----------------------------------------------------------------------------
LEMMA Facts ==
  ASSUME IndInv
  PROVE  /\ Len(text) \in Nat /\ MaxLines \in Nat
         /\ \A n \in 1 .. Len(text) : /\ text[n] \in Texts
                                      /\ \A r \in Regexps : text[n][r] \in IPs \cup {NoMatch}
         /\ line \in Int /\ EXIT = -1 /\ EMPTY = 0
         /\ matchCount \in Nat /\ IsFiniteSet(Regexps)
         /\ Cardinality(Regexps) \in Nat
         /\ rpc \in [Regexps -> Between \cup Active]
         /\ \A n : Matching(n) \subseteq Regexps
<1>1. IsFiniteSet(Regexps) /\ Cardinality(Regexps) \in Nat /\ MaxLines \in Nat
  BY PoolAssumption, FS_CardinalityType
<1>2. text \in Seq(Texts) /\ Len(text) \in Nat /\ \A n \in 1 .. Len(text) : text[n] \in Texts
  BY DEF IndInv, TypeOK
<1>3. \A t \in Texts : \A r \in Regexps : t[r] \in IPs \cup {NoMatch}
  BY PoolAssumption
<1>4. line \in Int /\ matchCount \in Nat
  BY <1>1 DEF IndInv, TypeOK, Numbers, EMPTY, EXIT
<1>5. rpc \in [Regexps -> Between \cup Active]
  BY DEF IndInv, TypeOK
<1> QED BY <1>1, <1>2, <1>3, <1>4, <1>5 DEF EXIT, EMPTY, Matching

LEMMA InitInv == Init => IndInv
<1> SUFFICES ASSUME Init PROVE IndInv
  OBVIOUS
<1>0. MaxLines \in Nat /\ Cardinality(Regexps) \in Nat
  BY PoolAssumption, FS_CardinalityType
<1>1. TypeOK
  <2>1. text \in Seq(Texts) /\ Len(text) = 0
    BY DEF Init
  <2>2. 0 \in 0 .. Cardinality(Regexps) /\ 0 \in 0 .. MaxLines
    BY <1>0
  <2> QED BY <1>0, <2>1, <2>2 DEF Init, TypeOK
<1>2. Lockstep /\ LineIs
  BY DEF Init, Lockstep, LineIs, EMPTY, EXIT
<1>3. SeenLines
  <2>1. Seen = {} /\ Len(text) = 0 /\ ~AtHand /\ seen = {}
    BY DEF Init, Seen, AtHand
  <2>2. 1 .. 0 = {}
    OBVIOUS
  <2> QED BY <2>1, <2>2 DEF SeenLines
<1>4. RowsHaveLines /\ Threads /\ Counts /\ LineDone
  BY DEF Init, RowsHaveLines, Threads, Counts, LineDone
<1>5. AllEvaluated /\ AllExact /\ DropsOpen
  BY DEF Init, AllEvaluated, AllExact, DropsOpen, Seen
<1> QED BY <1>1, <1>2, <1>3, <1>4, <1>5 DEF IndInv

-----------------------------------------------------------------------------
(* Steps outside the second half of a line.                                *)

LEMMA MoreRows ==
  ASSUME NEW n, NEW r, audt \subseteq audt', eval \subseteq eval',
         hist \subseteq hist', drop \subseteq drop', Evaluated(n, r)
  PROVE  Evaluated(n, r)'
BY DEF Evaluated, RowsOf

LEMMA SameExact ==
  ASSUME NEW n, NEW r, audt \subseteq audt', text'[n] = text[n],
         RowsOf(eval, n, r)' = RowsOf(eval, n, r),
         RowsOf(hist, n, r)' = RowsOf(hist, n, r),
         RowsOf(drop, n, r)' = RowsOf(drop, n, r), Exact(n, r)
  PROVE  Exact(n, r)'
<1>1. Rec(n, r)' = Rec(n, r) /\ Open(n, r)' = Open(n, r)
  BY DEF Rec, Open
<1>2. \A h \in BOOLEAN : Just(n, r, h)' = Just(n, r, h)
  BY <1>1 DEF Just
<1>3. RowsOf(audt, n, r) \subseteq RowsOf(audt, n, r)'
  BY DEF RowsOf
<1>4. ~Open(n, r) => \E row \in RowsOf(audt, n, r)' : row.ip = text[n][r] /\ row.white
  BY <1>3 DEF Exact
<1> QED BY <1>1, <1>2, <1>4 DEF Exact, Just

\* A step of a thread that changes no table but Audit.
LEMMA OutsideStep ==
  ASSUME IndInv, TypeOK', Lockstep', LineIs', ppc # "wait2", audt \subseteq audt',
         UNCHANGED <<ppc, line, text, matchCount, eval, hist, drop, seen>>
  PROVE  IndInv'
<1>1. SeenLines' /\ RowsHaveLines' /\ Threads' /\ Counts' /\ DropsOpen'
  <2>1. SeenLines'
    BY DEF IndInv, SeenLines, Seen, AtHand, Matching
  <2>2. RowsHaveLines' /\ Threads'
    BY DEF IndInv, RowsHaveLines, Threads
  <2>3. Counts'
    BY DEF IndInv, Counts, Matching
  <2>4. DropsOpen'
    BY DEF IndInv, DropsOpen, OpenIP, Matching, Open
  <2> QED BY <2>1, <2>2, <2>3, <2>4
<1>2. \A n, r : Evaluated(n, r) => Evaluated(n, r)'
  BY MoreRows
<1>3. \A n, r : Exact(n, r) => Exact(n, r)'
  BY SameExact DEF RowsOf
<1>4. \A n : Matching(n)' = Matching(n) /\ Seen' = Seen
  BY DEF Matching, Seen
<1>5. LineDone'
  BY <1>2, <1>3, <1>4 DEF IndInv, LineDone, Alone
<1>6. AllEvaluated' /\ AllExact'
  BY <1>2, <1>3, <1>4 DEF IndInv, AllEvaluated, AllExact
<1> QED BY <1>1, <1>5, <1>6 DEF IndInv

LEMMA WhileInv ==
  ASSUME IndInv, NEW r \in Regexps, While(r) \/ SearchExit(r) \/ CheckMulti(r)
  PROVE  IndInv'
<1>1. rpc \in [Regexps -> Between \cup Active]
  BY Facts
<1>2. PICK to \in {"left", "wait1", "while", "multi"} :
         /\ rpc' = [rpc EXCEPT ![r] = to]
         /\ \/ rpc[r] = "while" /\ to = (IF line = EXIT THEN "left" ELSE "wait1")
            \/ rpc[r] = "search" /\ line = EXIT /\ to = "while"
            \/ rpc[r] = "check" /\ to \in {"multi", "while"}
  BY DEF While, SearchExit, CheckMulti, Goto
<1>3. UNCHANGED <<ppc, line, text, hit, loaded, work, rows, seen>>
  BY DEF While, SearchExit, CheckMulti
<1>4. TypeOK'
  BY <1>2, <1>3 DEF IndInv, TypeOK, work, rows
<1>5. ppc # "wait2"
  BY <1>2 DEF IndInv, Lockstep, LineIs
<1>6. Lockstep'
  BY <1>1, <1>2, <1>3, <1>5 DEF IndInv, Lockstep, LineIs, TypeOK
<1>7. LineIs'
  BY <1>1, <1>2, <1>3 DEF IndInv, LineIs, EMPTY, EXIT
<1> QED BY <1>3, <1>4, <1>5, <1>6, <1>7, OutsideStep DEF work, rows

LEMMA InsertMultiInv ==
  ASSUME IndInv, NEW r \in Regexps, InsertMulti(r)
  PROVE  IndInv'
<1>1. rpc \in [Regexps -> Between \cup Active]
  BY Facts
<1>2. rpc[r] = "multi" /\ rpc' = [rpc EXCEPT ![r] = "while"]
  BY DEF InsertMulti, Goto
<1>3. /\ UNCHANGED <<ppc, line, text, hit, loaded, work, eval, hist, drop, seen>>
      /\ audt' = audt \cup {AuditRow(r)}
  BY DEF InsertMulti
<1>4. TypeOK'
  <2>1. line \in Numbers \cup {EXIT}
    BY <1>2 DEF IndInv, LineIs, TypeOK
  <2>2. AuditRow(r).line = line /\ AuditRow(r).regexp = r
    BY DEF AuditRow
  <2>3. \A row \in audt' : row.line \in Numbers \cup {EXIT} /\ row.regexp \in Regexps
    BY <1>3, <2>1, <2>2 DEF IndInv, TypeOK
  <2>4. rpc' \in [Regexps -> {"while", "wait1", "search", "save", "load", "store",
                            "white", "branch", "audt", "eval", "hist", "drop",
                            "wait2", "check", "multi", "left"}]
    BY <1>2 DEF IndInv, TypeOK
  <2> QED BY <1>3, <2>3, <2>4 DEF IndInv, TypeOK, work
<1>5. ppc # "wait2"
  BY <1>2 DEF IndInv, Lockstep
<1>6. Lockstep'
  BY <1>1, <1>2, <1>3, <1>5 DEF IndInv, Lockstep, TypeOK
<1>7. LineIs'
  BY <1>1, <1>2, <1>3 DEF IndInv, LineIs, EMPTY, EXIT
<1> QED BY <1>3, <1>4, <1>5, <1>6, <1>7, OutsideStep DEF work
-----------------------------------------------------------------------------
(* Steps of a thread between the two barriers.                             *)

\* Thread r goes on; what it adds to a table is a row of its own.
StepOf(r, to) ==
    /\ ppc = "wait2" /\ rpc[r] \in Active \ {"wait2"} /\ to \in Active
    /\ rpc' = [rpc EXCEPT ![r] = to]
    /\ UNCHANGED <<ppc, line, text, seen>>
    /\ audt \subseteq audt'
    /\ \A row \in (eval' \cup hist' \cup drop') :
          row \in eval \cup hist \cup drop \/ (row.line = line /\ row.regexp = r)
    /\ eval \subseteq eval' /\ hist \subseteq hist' /\ drop \subseteq drop'
    /\ \A q, n : q # r \/ n # line =>
          /\ RowsOf(eval, n, q)' = RowsOf(eval, n, q)
          /\ RowsOf(hist, n, q)' = RowsOf(hist, n, q)
          /\ RowsOf(drop, n, q)' = RowsOf(drop, n, q)

\* Of the Workarea it changes only what an actor may change.
Careful(r) ==
    /\ matchCount > 0 => matchCount' > 0
    /\ ~whitelisted' => ~whitelisted \/ OpenIP(line)
    /\ \/ rpc[r] \in Acting
       \/ UNCHANGED <<ipAddr, whitelisted>>

LEMMA StepFacts ==
  ASSUME IndInv, NEW r \in Regexps, NEW to, StepOf(r, to)
  PROVE  /\ rpc'[r] = to /\ \A q \in Regexps : q # r => rpc'[q] = rpc[q]
         /\ line = Len(text) /\ line \in 1 .. Len(text) /\ line # EXIT
         /\ AtHand /\ line \notin Seen
         /\ rpc' \in [Regexps -> Between \cup Active]
<1>1. rpc \in [Regexps -> Between \cup Active] /\ Len(text) \in Nat
  BY Facts
<1>2. line = Len(text) /\ line # EXIT /\ 0 < line /\ AtHand
  BY DEF StepOf, IndInv, LineIs, AtHand
<1>3. line \notin Seen
  BY <1>2 DEF IndInv, SeenLines
<1> QED BY <1>1, <1>2, <1>3 DEF StepOf

LEMMA ActiveFrame ==
  ASSUME IndInv, NEW r \in Regexps, NEW to, StepOf(r, to)
  PROVE  /\ Lockstep' /\ LineIs' /\ SeenLines' /\ RowsHaveLines'
         /\ LineDone' /\ AllEvaluated' /\ AllExact'
<1>1. Lockstep'
  BY StepFacts DEF StepOf, IndInv, Lockstep
<1>2. LineIs'
  BY StepFacts DEF StepOf, IndInv, LineIs, EMPTY
<1>3. SeenLines'
  BY DEF StepOf, IndInv, SeenLines, Seen, AtHand, Matching
<1>4. RowsHaveLines'
  BY StepFacts DEF StepOf, IndInv, RowsHaveLines
<1>5. LineDone'
  BY DEF StepOf, LineDone
<1>6. \A n \in Seen : n # line /\ Seen' = Seen /\ Matching(n)' = Matching(n)
  BY StepFacts DEF StepOf, Seen, Matching
<1>7. \A n, q : Evaluated(n, q) => Evaluated(n, q)'
  BY MoreRows DEF StepOf
<1>8. AllEvaluated'
  BY <1>6, <1>7 DEF IndInv, AllEvaluated, StepOf, Seen
<1>9. \A n, q : n # line /\ Exact(n, q) => Exact(n, q)'
  BY SameExact DEF StepOf
<1>10. AllExact'
  BY <1>6, <1>9 DEF IndInv, AllExact, StepOf, Seen
<1> QED BY <1>1, <1>2, <1>3, <1>4, <1>5, <1>8, <1>10

\* A thread that acts is not the only one to match when another matches too,
\* so what is true of one alone cannot be disturbed.
LEMMA OtherThreads ==
  ASSUME IndInv, NEW r \in Regexps, NEW to, StepOf(r, to), Careful(r),
         NEW q \in Regexps, q # r
  PROVE  ThreadIs(q)' /\ (Alone(q)' => AloneIs(q)')
<1>1. ThreadIs(q) /\ (Alone(q) => AloneIs(q)) /\ ThreadIs(r)
  BY DEF IndInv, Threads, StepOf
<1>2. rpc'[q] = rpc[q] /\ line' = line /\ text' = text
  BY StepFacts DEF StepOf
<1>3. /\ Matching(line)' = Matching(line) /\ OpenIP(line)' = OpenIP(line)
      /\ Open(line, q)' = Open(line, q) /\ Rec(line, q)' = Rec(line, q)
  BY <1>2 DEF Matching, OpenIP, Open, Rec
<1>4. /\ RowsOf(eval, line, q)' = RowsOf(eval, line, q)
      /\ RowsOf(hist, line, q)' = RowsOf(hist, line, q)
      /\ RowsOf(drop, line, q)' = RowsOf(drop, line, q)
      /\ RowsOf(audt, line, q) \subseteq RowsOf(audt, line, q)'
  <2>1. /\ RowsOf(eval', line, q) = RowsOf(eval, line, q)
        /\ RowsOf(hist', line, q) = RowsOf(hist, line, q)
        /\ RowsOf(drop', line, q) = RowsOf(drop, line, q)
    <3>1. \A n : /\ RowsOf(eval', n, q) = RowsOf(eval, n, q)
                 /\ RowsOf(hist', n, q) = RowsOf(hist, n, q)
                 /\ RowsOf(drop', n, q) = RowsOf(drop, n, q)
      BY DEF StepOf
    <3> QED BY <3>1
  <2>2. RowsOf(audt, line, q) \subseteq RowsOf(audt', line, q)
    BY DEF StepOf, RowsOf
  <2> QED BY <1>2, <2>1, <2>2
<1>5. Evaluated(line, q) => Evaluated(line, q)'
  BY <1>2, <1>4 DEF Evaluated
<1>6. ThreadIs(q)'
  BY <1>1, <1>2, <1>3, <1>4, <1>5 DEF ThreadIs, Careful
<1>7. ASSUME Alone(q)
      PROVE  AloneIs(q)'
  <2>1. rpc[r] \notin Acting
    BY <1>1, <1>7 DEF ThreadIs, Alone
  <2>2. UNCHANGED <<ipAddr, whitelisted>>
    BY <2>1 DEF Careful
  <2>3. AloneIs(q)
    BY <1>1, <1>7
  <2> QED BY <1>2, <1>3, <1>4, <2>2, <2>3 DEF AloneIs, Just
<1>8. Alone(q)' = Alone(q)
  BY <1>3 DEF Alone
<1> QED BY <1>6, <1>7, <1>8

LEMMA SameCounted ==
  ASSUME IndInv, NEW r \in Regexps, NEW to, StepOf(r, to),
         (rpc[r] \in Stored <=> to \in Stored) \/ r \notin Matching(line)
  PROVE  Counted' = Counted
<1>1. Matching(line)' = Matching(line) /\ Matching(line) \subseteq Regexps
  BY DEF StepOf, Matching
<1> QED BY <1>1, StepFacts DEF Counted

LEMMA ActiveStep ==
  ASSUME IndInv, NEW r \in Regexps, NEW to, StepOf(r, to), Careful(r), TypeOK',
         ThreadIs(r)', Alone(r) => AloneIs(r)', Counts', DropsOpen'
  PROVE  IndInv'
<1>1. Alone(r)' = Alone(r)
  BY DEF StepOf, Alone, Matching
<1>2. Threads'
  BY <1>1, OtherThreads DEF Threads
<1> QED BY <1>2, ActiveFrame DEF IndInv
LEMMA ActorFacts ==
  ASSUME IndInv, NEW r \in Regexps, rpc[r] \in Active \ {"wait2"},
         line # EXIT \/ rpc[r] # "search"
  PROVE  /\ ppc = "wait2" /\ line \in 1 .. Len(text) /\ line \in Numbers
         /\ Captured(r) = text[line][r] /\ Captured(r) \in IPs \cup {NoMatch}
         /\ ThreadIs(r) /\ (Alone(r) => AloneIs(r))
         /\ r \in Matching(line) <=> Captured(r) # NoMatch
<1>1. ppc = "wait2"
  BY DEF IndInv, Lockstep, LineIs, TypeOK
<1>2. line = Len(text) /\ 0 < line /\ Len(text) <= MaxLines /\ Len(text) \in Nat
  BY <1>1, Facts DEF IndInv, LineIs, TypeOK
<1>3. line \in 1 .. Len(text) /\ line \in Numbers
  BY <1>2, Facts DEF Numbers
<1>4. Captured(r) = text[line][r] /\ text[line][r] \in IPs \cup {NoMatch}
  BY <1>3, Facts DEF Captured
<1>5. ThreadIs(r) /\ (Alone(r) => AloneIs(r))
  BY <1>1 DEF IndInv, Threads
<1> QED BY <1>1, <1>3, <1>4, <1>5 DEF Matching

\* A step that sends no row.
LEMMA Quiet ==
  ASSUME IndInv, NEW r \in Regexps, NEW from \in Active \ {"wait2"},
         NEW to \in Active, Goto(r, from, to), ppc = "wait2",
         UNCHANGED <<ppc, line, text, rows, seen>>
  PROVE  StepOf(r, to)
BY DEF StepOf, Goto, rows, RowsOf

LEMMA SameRpcType ==
  ASSUME TypeOK, NEW r \in Regexps, NEW to \in Active,
         rpc' = [rpc EXCEPT ![r] = to]
  PROVE  rpc' \in [Regexps -> {"while", "wait1", "search", "save", "load", "store",
                               "white", "branch", "audt", "eval", "hist", "drop",
                               "wait2", "check", "multi", "left"}]
BY DEF TypeOK

LEMMA SameCounts ==
  ASSUME IndInv, NEW r \in Regexps, NEW to, StepOf(r, to), to # "store",
         UNCHANGED <<matchCount, loaded>>,
         (rpc[r] \in Stored <=> to \in Stored) \/ r \notin Matching(line)
  PROVE  Counts'
<1>1. Counted' = Counted
  BY SameCounted
<1>2. \A q \in Regexps : rpc'[q] = "store" => rpc[q] = "store"
  BY StepFacts
<1>3. Matching(line)' = Matching(line)
  BY DEF StepOf, Matching
<1> QED BY <1>1, <1>2, <1>3 DEF IndInv, Counts, StepOf

LEMMA SameDrops ==
  ASSUME IndInv, NEW r \in Regexps, NEW to, StepOf(r, to), UNCHANGED drop
  PROVE  DropsOpen'
<1>1. \A n : OpenIP(n)' = OpenIP(n)
  BY DEF StepOf, OpenIP, Open, Matching
<1> QED BY <1>1 DEF IndInv, DropsOpen

\* The rows of a thread that sends none.
LEMMA SameRows ==
  ASSUME NEW r, UNCHANGED <<line, text, rows>>
  PROVE  /\ RowsOf(audt, line, r)' = RowsOf(audt, line, r)
         /\ RowsOf(eval, line, r)' = RowsOf(eval, line, r)
         /\ RowsOf(hist, line, r)' = RowsOf(hist, line, r)
         /\ RowsOf(drop, line, r)' = RowsOf(drop, line, r)
         /\ Evaluated(line, r)' = Evaluated(line, r)
         /\ Matching(line)' = Matching(line) /\ OpenIP(line)' = OpenIP(line)
         /\ Open(line, r)' = Open(line, r)
         /\ \A h \in BOOLEAN : Just(line, r, h)' = Just(line, r, h)
         /\ (text[line][r])' = text[line][r]
BY DEF rows, RowsOf, Evaluated, Matching, OpenIP, Open, Just, Rec

LEMMA SearchInv ==
  ASSUME IndInv, NEW r \in Regexps, Search(r)
  PROVE  IndInv'
<1> DEFINE to == IF Captured(r) # NoMatch THEN "save" ELSE "wait2"
<1>1. /\ rpc[r] = "search" /\ line # EXIT /\ Goto(r, "search", to)
      /\ UNCHANGED <<ppc, line, text, loaded, work, rows, seen>>
      /\ hit' = [hit EXCEPT ![r] = Captured(r) # NoMatch]
  BY DEF Search
<1>2. /\ ppc = "wait2" /\ ThreadIs(r) /\ (Alone(r) => AloneIs(r))
      /\ r \in Matching(line) <=> Captured(r) # NoMatch
  BY <1>1, ActorFacts
<1>3. StepOf(r, to) /\ rpc'[r] = to
  BY <1>1, <1>2, Quiet, StepFacts
<1>4. Careful(r)
  BY <1>1 DEF Careful, work
<1>5. TypeOK'
  BY <1>1, SameRpcType DEF Goto, IndInv, TypeOK, work, rows
<1>6. ThreadIs(r)'
  BY <1>1, <1>2, <1>3, SameRows DEF ThreadIs, work
<1>7. ASSUME Alone(r)
      PROVE  AloneIs(r)'
  <2>1. to = "save" /\ AloneIs(r)
    BY <1>2, <1>7 DEF Alone
  <2> QED BY <1>1, <1>3, <2>1, SameRows DEF AloneIs, work
<1>8. Counts'
  BY <1>1, <1>2, <1>3, SameCounts DEF work
<1>9. DropsOpen'
  BY <1>1, <1>3, SameDrops DEF rows
<1> QED BY <1>3, <1>4, <1>5, <1>6, <1>7, <1>8, <1>9, ActiveStep

LEMMA SaveIPInv ==
  ASSUME IndInv, NEW r \in Regexps, SaveIP(r)
  PROVE  IndInv'
<1>1. /\ rpc[r] = "save" /\ Goto(r, "save", "load") /\ ipAddr' = Captured(r)
      /\ UNCHANGED <<ppc, line, text, hit, loaded, matchCount, whitelisted, rows,
                     seen>>
  BY DEF SaveIP, Goto
<1>2. /\ ppc = "wait2" /\ ThreadIs(r) /\ (Alone(r) => AloneIs(r))
      /\ Captured(r) = text[line][r] /\ Captured(r) \in IPs \cup {NoMatch}
  BY <1>1, ActorFacts
<1>3. StepOf(r, "load") /\ rpc'[r] = "load"
  BY <1>1, <1>2, Quiet, StepFacts
<1>4. Careful(r)
  BY <1>1 DEF Careful
<1>5. TypeOK'
  BY <1>1, <1>2, SameRpcType DEF Goto, IndInv, TypeOK, rows
<1>6. ThreadIs(r)'
  BY <1>1, <1>2, <1>3, SameRows DEF ThreadIs
<1>7. ASSUME Alone(r)
      PROVE  AloneIs(r)'
  <2>1. AloneIs(r)
    BY <1>2, <1>7
  <2> QED BY <1>1, <1>2, <1>3, <2>1, SameRows DEF AloneIs
<1>8. Counts'
  BY <1>1, <1>3, SameCounts
<1>9. DropsOpen'
  BY <1>1, <1>3, SameDrops DEF rows
<1> QED BY <1>3, <1>4, <1>5, <1>6, <1>7, <1>8, <1>9, ActiveStep

LEMMA LoadCountInv ==
  ASSUME IndInv, NEW r \in Regexps, LoadCount(r)
  PROVE  IndInv'
<1>1. /\ rpc[r] = "load" /\ Goto(r, "load", "store")
      /\ loaded' = [loaded EXCEPT ![r] = matchCount]
      /\ UNCHANGED <<ppc, line, text, hit, work, rows, seen>>
  BY DEF LoadCount, Goto
<1>2. ppc = "wait2" /\ ThreadIs(r) /\ (Alone(r) => AloneIs(r))
  BY <1>1, ActorFacts
<1>3. StepOf(r, "store") /\ rpc'[r] = "store"
  BY <1>1, <1>2, Quiet, StepFacts
<1>4. Careful(r)
  BY <1>1 DEF Careful, work
<1>5. TypeOK'
  <2>1. loaded' \in [Regexps -> Nat]
    BY <1>1, Facts DEF IndInv, TypeOK
  <2> QED BY <1>1, <2>1, SameRpcType DEF Goto, IndInv, TypeOK, work, rows
<1>6. ThreadIs(r)'
  BY <1>1, <1>2, <1>3, SameRows DEF ThreadIs, work
<1>7. ASSUME Alone(r)
      PROVE  AloneIs(r)'
  <2>1. AloneIs(r)
    BY <1>2, <1>7
  <2> QED BY <1>1, <1>3, <2>1, SameRows DEF AloneIs, work
<1>8. Counts'
  <2>1. Counted' = Counted /\ Matching(line)' = Matching(line)
    BY <1>1, <1>3, SameCounted, SameRows
  <2>2. loaded'[r] = matchCount /\ \A q \in Regexps : q # r => loaded'[q] = loaded[q]
    BY <1>1 DEF IndInv, TypeOK
  <2>3. \A q \in Regexps : q # r => rpc'[q] = rpc[q]
    BY <1>3, StepFacts
  <2>4. matchCount' = matchCount /\ ppc' = ppc
    BY <1>1 DEF work
  <2> QED BY <1>2, <2>1, <2>2, <2>3, <2>4 DEF IndInv, Counts
<1>9. DropsOpen'
  BY <1>1, <1>3, SameDrops DEF rows
<1> QED BY <1>3, <1>4, <1>5, <1>6, <1>7, <1>8, <1>9, ActiveStep

LEMMA StoreCountInv ==
  ASSUME IndInv, NEW r \in Regexps, StoreCount(r)
  PROVE  IndInv'
<1>1. /\ rpc[r] = "store" /\ Goto(r, "store", "white")
      /\ matchCount' = loaded[r] + 1 /\ loaded' = [loaded EXCEPT ![r] = 0]
      /\ UNCHANGED <<ppc, line, text, hit, ipAddr, whitelisted, rows, seen>>
  BY DEF StoreCount, Goto
<1>2. /\ ppc = "wait2" /\ ThreadIs(r) /\ (Alone(r) => AloneIs(r))
      /\ r \in Matching(line)
  BY <1>1, ActorFacts DEF ThreadIs
<1>3. StepOf(r, "white") /\ rpc'[r] = "white"
  BY <1>1, <1>2, Quiet, StepFacts
<1>4. loaded[r] \in Nat /\ loaded[r] <= Cardinality(Counted)
  BY <1>1, <1>2 DEF IndInv, TypeOK, Counts
<1>5. Careful(r)
  BY <1>1, <1>4 DEF Careful
<1>6. /\ IsFiniteSet(Counted) /\ Cardinality(Counted') = Cardinality(Counted) + 1
      /\ Cardinality(Counted) \in Nat /\ Cardinality(Counted') <= Cardinality(Regexps)
  <2>1. Counted \subseteq Regexps /\ Counted' \subseteq Regexps
    BY DEF Counted, Matching
  <2>2. Matching(line)' = Matching(line)
    BY <1>1, SameRows
  <2>3. Counted' = Counted \cup {r} /\ r \notin Counted
    BY <1>1, <1>2, <1>3, <2>2, Facts, StepFacts DEF Counted
  <2>4. IsFiniteSet(Counted) /\ Cardinality(Counted) \in Nat
    BY <2>1, Facts, FS_Subset, FS_CardinalityType
  <2>5. Cardinality(Counted') = Cardinality(Counted) + 1
    BY <2>3, <2>4, FS_AddElement
  <2>6. Cardinality(Counted') <= Cardinality(Regexps)
    BY <2>1, Facts, FS_Subset
  <2> QED BY <2>4, <2>5, <2>6
<1>7. TypeOK'
  <2>1. matchCount' \in 0 .. Cardinality(Regexps)
    BY <1>1, <1>4, <1>6, Facts
  <2>2. loaded' \in [Regexps -> Nat]
    BY <1>1 DEF IndInv, TypeOK
  <2> QED BY <1>1, <2>1, <2>2, SameRpcType DEF Goto, IndInv, TypeOK, rows
<1>8. ThreadIs(r)'
  BY <1>1, <1>2, <1>3, <1>4, SameRows DEF ThreadIs
<1>9. ASSUME Alone(r)
      PROVE  AloneIs(r)'
  <2>1. AloneIs(r)
    BY <1>2, <1>9
  <2> QED BY <1>1, <1>3, <2>1, SameRows DEF AloneIs
<1>10. Counts'
  <2>1. Matching(line)' = Matching(line)
    BY <1>1, SameRows
  <2>2. \A q \in Regexps : q # r => rpc'[q] = rpc[q]
    BY <1>3, StepFacts
  <2>3. \A q \in Regexps : q # r => loaded'[q] = loaded[q] /\ loaded[q] \in Nat
    BY <1>1 DEF IndInv, TypeOK
  <2>4. \A q \in Regexps : rpc'[q] = "store" => loaded'[q] <= Cardinality(Counted')
    BY <1>2, <1>3, <1>6, <2>2, <2>3 DEF IndInv, Counts
  <2>5. matchCount' <= Cardinality(Counted')
    BY <1>1, <1>4, <1>6
  <2> QED BY <1>1, <1>2, <2>1, <2>4, <2>5 DEF Counts
<1>11. DropsOpen'
  BY <1>1, <1>3, SameDrops DEF rows
<1> QED BY <1>3, <1>5, <1>7, <1>8, <1>9, <1>10, <1>11, ActiveStep

LEMMA SaveWhiteInv ==
  ASSUME IndInv, NEW r \in Regexps, SaveWhite(r)
  PROVE  IndInv'
<1>1. /\ rpc[r] = "white" /\ Goto(r, "white", "branch")
      /\ whitelisted' = (Captured(r) \in Whitelist)
      /\ UNCHANGED <<ppc, line, text, hit, loaded, matchCount, ipAddr, rows, seen>>
  BY DEF SaveWhite, Goto
<1>2. /\ ppc = "wait2" /\ ThreadIs(r) /\ (Alone(r) => AloneIs(r))
      /\ Captured(r) = text[line][r] /\ r \in Matching(line)
  BY <1>1, ActorFacts DEF ThreadIs
<1>3. StepOf(r, "branch") /\ rpc'[r] = "branch"
  BY <1>1, <1>2, Quiet, StepFacts
<1>4. whitelisted' = ~Open(line, r) /\ whitelisted' \in BOOLEAN
  BY <1>1, <1>2 DEF Open
<1>5. ~whitelisted' => OpenIP(line)
  BY <1>2, <1>4 DEF OpenIP
<1>6. Careful(r)
  BY <1>1, <1>5 DEF Careful
<1>7. TypeOK'
  BY <1>1, <1>4, SameRpcType DEF Goto, IndInv, TypeOK, rows
<1>8. ThreadIs(r)'
  BY <1>1, <1>2, <1>3, <1>5, SameRows DEF ThreadIs
<1>9. ASSUME Alone(r)
      PROVE  AloneIs(r)'
  <2>1. AloneIs(r)
    BY <1>2, <1>9
  <2> QED BY <1>1, <1>3, <1>4, <2>1, SameRows DEF AloneIs
<1>10. Counts'
  BY <1>1, <1>3, SameCounts
<1>11. DropsOpen'
  BY <1>1, <1>3, SameDrops DEF rows
<1> QED BY <1>3, <1>6, <1>7, <1>8, <1>9, <1>10, <1>11, ActiveStep

LEMMA BranchInv ==
  ASSUME IndInv, NEW r \in Regexps, Branch(r)
  PROVE  IndInv'
<1> DEFINE to == IF whitelisted THEN "audt"
                 ELSE IF r \in Immediate THEN "hist" ELSE "eval"
<1>1. /\ rpc[r] = "branch" /\ Goto(r, "branch", to)
      /\ UNCHANGED <<ppc, line, text, hit, loaded, work, rows, seen>>
  BY DEF Branch, Goto
<1>2. /\ ppc = "wait2" /\ ThreadIs(r) /\ (Alone(r) => AloneIs(r))
      /\ r \in Matching(line)
  BY <1>1, ActorFacts DEF ThreadIs
<1>3. StepOf(r, to) /\ rpc'[r] = to
  BY <1>1, <1>2, Quiet, StepFacts
<1>4. Careful(r)
  BY <1>1 DEF Careful, work
<1>5. TypeOK'
  BY <1>1, SameRpcType DEF Goto, IndInv, TypeOK, work, rows
<1>6. ThreadIs(r)'
  BY <1>1, <1>2, <1>3, SameRows DEF ThreadIs, work
<1>7. ASSUME Alone(r)
      PROVE  AloneIs(r)'
  <2>1. AloneIs(r)
    BY <1>2, <1>7
  <2> QED BY <1>1, <1>3, <2>1, SameRows DEF AloneIs, work
<1>8. Counts'
  BY <1>1, <1>3, SameCounts DEF work
<1>9. DropsOpen'
  BY <1>1, <1>3, SameDrops DEF rows
<1> QED BY <1>3, <1>4, <1>5, <1>6, <1>7, <1>8, <1>9, ActiveStep

\* One row more in a table.
LEMMA OneRow ==
  ASSUME NEW table, NEW row
  PROVE  /\ RowsOf(table \cup {row}, row.line, row.regexp)
              = RowsOf(table, row.line, row.regexp) \cup {row}
         /\ \A n, q : n # row.line \/ q # row.regexp =>
                RowsOf(table \cup {row}, n, q) = RowsOf(table, n, q)
BY DEF RowsOf

LEMMA TypeOfRows ==
  ASSUME IndInv, NEW r \in Regexps, NEW to \in Active, line \in Numbers,
         rpc' = [rpc EXCEPT ![r] = to],
         UNCHANGED <<ppc, line, text, hit, loaded, work, seen>>,
         \A row \in (eval' \cup hist' \cup drop' \cup audt') :
             \/ row \in eval \cup hist \cup drop \cup audt
             \/ row.line = line /\ row.regexp = r
  PROVE  TypeOK'
<1>1. \A row \in (eval' \cup hist' \cup drop' \cup audt') :
         row.line \in Numbers \cup {EXIT} /\ row.regexp \in Regexps
  BY DEF IndInv, TypeOK
<1>2. rpc' \in [Regexps -> {"while", "wait1", "search", "save", "load", "store",
                            "white", "branch", "audt", "eval", "hist", "drop",
                            "wait2", "check", "multi", "left"}]
  BY SameRpcType DEF IndInv
<1> QED BY <1>1, <1>2 DEF IndInv, TypeOK, work

LEMMA InsertAudtInv ==
  ASSUME IndInv, NEW r \in Regexps, InsertAudt(r)
  PROVE  IndInv'
<1>1. /\ rpc[r] = "audt" /\ rpc' = [rpc EXCEPT ![r] = "wait2"]
      /\ audt' = audt \cup {AuditRow(r)}
      /\ UNCHANGED <<ppc, line, text, hit, loaded, work, eval, hist, drop, seen>>
  BY DEF InsertAudt, Goto
<1>2. /\ ppc = "wait2" /\ ThreadIs(r) /\ (Alone(r) => AloneIs(r))
      /\ r \in Matching(line) /\ line \in Numbers
  BY <1>1, ActorFacts DEF ThreadIs
<1>3. /\ AuditRow(r).line = line /\ AuditRow(r).regexp = r
      /\ AuditRow(r).ip = ipAddr /\ AuditRow(r).white = whitelisted
  BY DEF AuditRow
<1>4. AuditRow(r) \in RowsOf(audt, line, r)'
  BY <1>1, <1>3 DEF RowsOf
<1>5. StepOf(r, "wait2") /\ rpc'[r] = "wait2"
  BY <1>1, <1>2, StepFacts DEF StepOf, RowsOf
<1>6. Careful(r)
  BY <1>1 DEF Careful, work
<1>7. TypeOK'
  BY <1>1, <1>2, <1>3, TypeOfRows
<1>8. ThreadIs(r)'
  <2>1. Evaluated(line, r)'
    BY <1>4 DEF Evaluated
  <2>2. Matching(line)' = Matching(line) /\ OpenIP(line)' = OpenIP(line)
    BY <1>1 DEF Matching, OpenIP, Open
  <2> QED BY <1>1, <1>2, <1>5, <2>1, <2>2 DEF ThreadIs, work
<1>9. ASSUME Alone(r)
      PROVE  AloneIs(r)'
  <2>1. AloneIs(r) /\ ipAddr = text[line][r] /\ whitelisted /\ ~Open(line, r)
    BY <1>1, <1>2, <1>9 DEF AloneIs
  <2>2. /\ RowsOf(drop, line, r)' = {} /\ RowsOf(hist, line, r)' = {}
        /\ RowsOf(eval, line, r)' = {}
    BY <1>1, <2>1 DEF AloneIs, Just, RowsOf
  <2>3. Open(line, r)' = Open(line, r)
    BY <1>1 DEF Open
  <2>4. \E row \in RowsOf(audt, line, r)' : row.ip = text[line][r] /\ row.white
    BY <1>3, <1>4, <2>1
  <2>5. UNCHANGED <<line, text, ipAddr, whitelisted>>
    BY <1>1 DEF work
  <2> QED BY <1>5, <2>1, <2>2, <2>3, <2>4, <2>5 DEF AloneIs, Just
<1>10. Counts'
  BY <1>1, <1>5, SameCounts DEF work
<1>11. DropsOpen'
  BY <1>1, <1>5, SameDrops
<1> QED BY <1>5, <1>6, <1>7, <1>8, <1>9, <1>10, <1>11, ActiveStep

LEMMA InsertEvalInv ==
  ASSUME IndInv, NEW r \in Regexps, InsertEval(r)
  PROVE  IndInv'
<1>1. /\ rpc[r] = "eval" /\ rpc' = [rpc EXCEPT ![r] = "wait2"]
      /\ eval' = eval \cup {Row(r)}
      /\ UNCHANGED <<ppc, line, text, hit, loaded, work, audt, hist, drop, seen>>
  BY DEF InsertEval, Goto
<1>2. /\ ppc = "wait2" /\ ThreadIs(r) /\ (Alone(r) => AloneIs(r))
      /\ r \in Matching(line) /\ line \in Numbers /\ r \notin Immediate
  BY <1>1, ActorFacts DEF ThreadIs
<1>3. Row(r).line = line /\ Row(r).regexp = r
  BY DEF Row
<1>4. /\ RowsOf(eval', line, r) = RowsOf(eval, line, r) \cup {Row(r)}
      /\ \A n, q : n # line \/ q # r => RowsOf(eval', n, q) = RowsOf(eval, n, q)
  <2> DEFINE row == Row(r)
  <2>1. /\ RowsOf(eval \cup {row}, row.line, row.regexp)
              = RowsOf(eval, row.line, row.regexp) \cup {row}
        /\ \A n, q : n # row.line \/ q # row.regexp =>
                RowsOf(eval \cup {row}, n, q) = RowsOf(eval, n, q)
    BY OneRow
  <2> QED BY <1>1, <1>3, <2>1
<1>5. StepOf(r, "wait2") /\ rpc'[r] = "wait2"
  <2>1. \A x \in eval' : x \in eval \/ (x.line = line /\ x.regexp = r)
    BY <1>1, <1>3
  <2>2. StepOf(r, "wait2")
    BY <1>1, <1>2, <1>4, <2>1 DEF StepOf, RowsOf
  <2> QED BY <2>2, StepFacts
<1>6. Careful(r)
  BY <1>1 DEF Careful, work
<1>7. TypeOK'
  BY <1>1, <1>2, <1>3, TypeOfRows
<1>8. ThreadIs(r)'
  <2>1. Evaluated(line, r)'
    BY <1>1, <1>2, <1>4 DEF Evaluated
  <2>2. Matching(line)' = Matching(line) /\ OpenIP(line)' = OpenIP(line)
    BY <1>1 DEF Matching, OpenIP, Open
  <2> QED BY <1>1, <1>2, <1>5, <2>1, <2>2 DEF ThreadIs, work
<1>9. ASSUME Alone(r)
      PROVE  AloneIs(r)'
  <2>1. /\ AloneIs(r) /\ ipAddr = text[line][r] /\ Open(line, r)
        /\ whitelisted = ~Open(line, r)
    BY <1>1, <1>2, <1>9 DEF AloneIs
  <2>2. Row(r) = Rec(line, r) /\ Rec(line, r)' = Rec(line, r)
    BY <1>1, <2>1 DEF Row, Rec
  <2>3. /\ RowsOf(drop, line, r)' = {} /\ RowsOf(hist, line, r)' = {}
        /\ RowsOf(eval, line, r)' = {Rec(line, r)}
    BY <1>1, <1>4, <2>1, <2>2 DEF AloneIs, Just, RowsOf
  <2>4. Open(line, r)' = Open(line, r)
    BY <1>1 DEF Open
  <2>5. UNCHANGED <<line, text, ipAddr, whitelisted>>
    BY <1>1 DEF work
  <2> QED BY <1>2, <1>5, <2>1, <2>2, <2>3, <2>4, <2>5 DEF AloneIs, Just
<1>10. Counts'
  BY <1>1, <1>5, SameCounts DEF work
<1>11. DropsOpen'
  BY <1>1, <1>5, SameDrops
<1> QED BY <1>5, <1>6, <1>7, <1>8, <1>9, <1>10, <1>11, ActiveStep

LEMMA InsertHistInv ==
  ASSUME IndInv, NEW r \in Regexps, InsertHist(r)
  PROVE  IndInv'
<1>1. /\ rpc[r] = "hist" /\ rpc' = [rpc EXCEPT ![r] = "drop"]
      /\ hist' = hist \cup {Row(r)}
      /\ UNCHANGED <<ppc, line, text, hit, loaded, work, audt, eval, drop, seen>>
  BY DEF InsertHist, Goto
<1>2. /\ ppc = "wait2" /\ ThreadIs(r) /\ (Alone(r) => AloneIs(r))
      /\ r \in Matching(line) /\ line \in Numbers /\ r \in Immediate
      /\ OpenIP(line)
  BY <1>1, ActorFacts DEF ThreadIs
<1>3. Row(r).line = line /\ Row(r).regexp = r
  BY DEF Row
<1>4. /\ RowsOf(hist', line, r) = RowsOf(hist, line, r) \cup {Row(r)}
      /\ \A n, q : n # line \/ q # r => RowsOf(hist', n, q) = RowsOf(hist, n, q)
  <2> DEFINE row == Row(r)
  <2>1. /\ RowsOf(hist \cup {row}, row.line, row.regexp)
              = RowsOf(hist, row.line, row.regexp) \cup {row}
        /\ \A n, q : n # row.line \/ q # row.regexp =>
                RowsOf(hist \cup {row}, n, q) = RowsOf(hist, n, q)
    BY OneRow
  <2> QED BY <1>1, <1>3, <2>1
<1>5. StepOf(r, "drop") /\ rpc'[r] = "drop"
  <2>1. \A x \in hist' : x \in hist \/ (x.line = line /\ x.regexp = r)
    BY <1>1, <1>3
  <2>2. StepOf(r, "drop")
    BY <1>1, <1>2, <1>4, <2>1 DEF StepOf, RowsOf
  <2> QED BY <2>2, StepFacts
<1>6. Careful(r)
  BY <1>1 DEF Careful, work
<1>7. TypeOK'
  BY <1>1, <1>2, <1>3, TypeOfRows
<1>8. ThreadIs(r)'
  <2>1. RowsOf(hist, line, r)' # {}
    BY <1>1, <1>4
  <2>2. Matching(line)' = Matching(line) /\ OpenIP(line)' = OpenIP(line)
    BY <1>1 DEF Matching, OpenIP, Open
  <2> QED BY <1>1, <1>2, <1>5, <2>1, <2>2 DEF ThreadIs, work
<1>9. ASSUME Alone(r)
      PROVE  AloneIs(r)'
  <2>1. /\ AloneIs(r) /\ ipAddr = text[line][r] /\ Open(line, r)
        /\ whitelisted = ~Open(line, r)
    BY <1>1, <1>2, <1>9 DEF AloneIs
  <2>2. Row(r) = Rec(line, r) /\ Rec(line, r)' = Rec(line, r)
    BY <1>1, <2>1 DEF Row, Rec
  <2>3. /\ RowsOf(drop, line, r)' = {} /\ RowsOf(eval, line, r)' = {}
        /\ RowsOf(hist, line, r)' = {Rec(line, r)}
    BY <1>1, <1>4, <2>1, <2>2 DEF AloneIs, Just, RowsOf
  <2>4. Open(line, r)' = Open(line, r)
    BY <1>1 DEF Open
  <2>5. UNCHANGED <<line, text, ipAddr, whitelisted>>
    BY <1>1 DEF work
  <2> QED BY <1>2, <1>5, <2>1, <2>2, <2>3, <2>4, <2>5 DEF AloneIs, Just
<1>10. Counts'
  BY <1>1, <1>5, SameCounts DEF work
<1>11. DropsOpen'
  BY <1>1, <1>5, SameDrops
<1> QED BY <1>5, <1>6, <1>7, <1>8, <1>9, <1>10, <1>11, ActiveStep

LEMMA InsertDropInv ==
  ASSUME IndInv, NEW r \in Regexps, InsertDrop(r)
  PROVE  IndInv'
<1> DEFINE row == [line |-> line, regexp |-> r, ip |-> Captured(r)]
<1>1. /\ rpc[r] = "drop" /\ rpc' = [rpc EXCEPT ![r] = "wait2"]
      /\ drop' = drop \cup {row}
      /\ UNCHANGED <<ppc, line, text, hit, loaded, work, audt, eval, hist, seen>>
  BY DEF InsertDrop, Goto
<1>2. /\ ppc = "wait2" /\ ThreadIs(r) /\ (Alone(r) => AloneIs(r))
      /\ r \in Matching(line) /\ line \in Numbers /\ r \in Immediate
      /\ OpenIP(line) /\ RowsOf(hist, line, r) # {}
      /\ Captured(r) = text[line][r]
  BY <1>1, ActorFacts DEF ThreadIs
<1>3. row.line = line /\ row.regexp = r /\ row = Rec(line, r)
  BY <1>2 DEF Rec
<1>4. /\ RowsOf(drop', line, r) = RowsOf(drop, line, r) \cup {row}
      /\ \A n, q : n # line \/ q # r => RowsOf(drop', n, q) = RowsOf(drop, n, q)
  <2>1. /\ RowsOf(drop \cup {row}, row.line, row.regexp)
              = RowsOf(drop, row.line, row.regexp) \cup {row}
        /\ \A n, q : n # row.line \/ q # row.regexp =>
                RowsOf(drop \cup {row}, n, q) = RowsOf(drop, n, q)
    BY OneRow
  <2> QED BY <1>1, <1>3, <2>1
<1>5. StepOf(r, "wait2") /\ rpc'[r] = "wait2"
  <2>1. \A x \in drop' : x \in drop \/ (x.line = line /\ x.regexp = r)
    BY <1>1, <1>3
  <2>2. StepOf(r, "wait2")
    BY <1>1, <1>2, <1>4, <2>1 DEF StepOf, RowsOf
  <2> QED BY <2>2, StepFacts
<1>6. Careful(r)
  BY <1>1 DEF Careful, work
<1>7. TypeOK'
  BY <1>1, <1>2, <1>3, TypeOfRows
<1>8. ThreadIs(r)'
  <2>1. RowsOf(drop, line, r)' # {} /\ RowsOf(hist, line, r)' # {}
    BY <1>1, <1>2, <1>4 DEF RowsOf
  <2>2. Evaluated(line, r)'
    BY <1>2, <2>1 DEF Evaluated
  <2>3. Matching(line)' = Matching(line) /\ OpenIP(line)' = OpenIP(line)
    BY <1>1 DEF Matching, OpenIP, Open
  <2> QED BY <1>1, <1>2, <1>5, <2>2, <2>3 DEF ThreadIs, work
<1>9. ASSUME Alone(r)
      PROVE  AloneIs(r)'
  <2>1. /\ AloneIs(r) /\ ipAddr = text[line][r] /\ Open(line, r)
        /\ whitelisted = ~Open(line, r)
    BY <1>1, <1>2, <1>9 DEF AloneIs
  <2>2. Rec(line, r)' = Rec(line, r)
    BY <1>1 DEF Rec
  <2>3. /\ RowsOf(drop, line, r)' = {Rec(line, r)}
        /\ RowsOf(hist, line, r)' = {Rec(line, r)} /\ RowsOf(eval, line, r)' = {}
    BY <1>1, <1>2, <1>3, <1>4, <2>1 DEF AloneIs, Just, RowsOf
  <2>4. Open(line, r)' = Open(line, r)
    BY <1>1 DEF Open
  <2>5. UNCHANGED <<line, text, ipAddr, whitelisted>>
    BY <1>1 DEF work
  <2> QED BY <1>2, <1>5, <2>1, <2>2, <2>3, <2>4, <2>5 DEF AloneIs, Just
<1>10. Counts'
  BY <1>1, <1>5, SameCounts DEF work
<1>11. DropsOpen'
  <2>1. \A n : OpenIP(n)' = OpenIP(n)
    BY <1>1 DEF OpenIP, Open, Matching
  <2>2. \A x \in drop' : x \in drop \/ x = row
    BY <1>1
  <2> QED BY <1>2, <1>3, <2>1, <2>2 DEF IndInv, DropsOpen
<1> QED BY <1>5, <1>6, <1>7, <1>8, <1>9, <1>10, <1>11, ActiveStep

-----------------------------------------------------------------------------
(* The barrier and the processing thread.                                  *)

LEMMA SameTables ==
  ASSUME UNCHANGED <<text, rows>>
  PROVE  /\ \A n, r : Evaluated(n, r)' = Evaluated(n, r)
         /\ \A n, r : Exact(n, r)' = Exact(n, r)
         /\ \A n : Matching(n)' = Matching(n) /\ OpenIP(n)' = OpenIP(n)
BY DEF rows, RowsOf, Evaluated, Exact, Just, Rec, Open, Matching, OpenIP

\* A step that adds neither line nor row.
LEMMA KeepsHistory ==
  ASSUME IndInv, UNCHANGED <<text, rows, seen>>
  PROVE  AllEvaluated' /\ AllExact' /\ DropsOpen'
<1>1. Seen' = Seen
  BY DEF Seen
<1>2. AllEvaluated' /\ AllExact'
  BY <1>1, SameTables DEF IndInv, AllEvaluated, AllExact
<1>3. DropsOpen'
  BY SameTables DEF IndInv, DropsOpen, rows
<1> QED BY <1>2, <1>3

\* Where the processing thread has nothing to do with a line, these say nothing.
Idle == ppc \in {"accept", "clear", "write", "notify", "join", "returned"}

LEMMA IdleFacts ==
  ASSUME Idle'
  PROVE  Threads' /\ Counts' /\ LineDone'
BY DEF Idle, Threads, Counts, LineDone

LEMMA ReleaseInv ==
  ASSUME IndInv, Release
  PROVE  IndInv'
<1>1. /\ ppc \in AtBarrier /\ \A r \in Regexps : rpc[r] \in AtBarrier
      /\ ppc' = IF ppc = "wait2" THEN "see"
                ELSE IF line = EXIT THEN "notify" ELSE "wait2"
      /\ rpc' = [r \in Regexps |-> IF rpc[r] = "wait1" THEN "search" ELSE "check"]
      /\ UNCHANGED <<line, text, hit, loaded, work, rows, seen>>
  BY DEF Release
<1>2. TypeOK'
  BY <1>1 DEF IndInv, TypeOK, work, rows
<1>3. ppc = "wait1" => \A r \in Regexps : rpc[r] = "wait1" /\ rpc'[r] = "search"
  BY <1>1 DEF IndInv, Lockstep, AtBarrier
<1>4. ppc = "wait2" => \A r \in Regexps : rpc[r] = "wait2" /\ rpc'[r] = "check"
  BY <1>1 DEF IndInv, Lockstep, AtBarrier
<1>5. ppc = "wait1" \/ ppc = "wait2"
  BY <1>1 DEF AtBarrier
<1>6. Lockstep'
  BY <1>1, <1>3, <1>4, <1>5 DEF Lockstep
<1>7. ppc = "wait2" => line # EXIT
  BY DEF IndInv, LineIs
<1>8. LineIs'
  <2>1. \A r \in Regexps : rpc'[r] \in {"check", "multi"} => ppc = "wait2"
    BY <1>3, <1>5
  <2>2. ppc = "wait2" => line # EMPTY
    BY <1>7, Facts DEF IndInv, LineIs
  <2> QED BY <1>1, <1>5, <1>7, <2>1, <2>2 DEF IndInv, LineIs, EMPTY, EXIT
<1>9. SeenLines'
  <2>1. AtHand' = AtHand /\ Seen' = Seen
    BY <1>1, <1>5, <1>7 DEF AtHand, Seen
  <2> QED BY <1>1, <2>1, SameTables DEF IndInv, SeenLines
<1>10. RowsHaveLines'
  BY <1>1, <1>5 DEF IndInv, RowsHaveLines, rows
<1>11. AllEvaluated' /\ AllExact' /\ DropsOpen'
  BY <1>1, KeepsHistory
<1>12. CASE ppc = "wait1" /\ line = EXIT
  <2>1. Idle'
    BY <1>1, <1>12 DEF Idle
  <2> QED BY <1>2, <1>6, <1>8, <1>9, <1>10, <1>11, <2>1, IdleFacts DEF IndInv
<1>13. CASE ppc = "wait1" /\ line # EXIT
  <2>1. ppc' = "wait2" /\ line' = line /\ text' = text /\ matchCount' = 0
    BY <1>1, <1>13 DEF IndInv, Counts, work
  <2>2. \A r : /\ RowsOf(eval, line, r)' = {} /\ RowsOf(hist, line, r)' = {}
               /\ RowsOf(drop, line, r)' = {}
    BY <1>1, <1>13, <2>1 DEF IndInv, RowsHaveLines, RowsOf, rows
  <2>3. \A r \in Regexps : ThreadIs(r)'
    BY <1>3, <1>13 DEF ThreadIs
  <2>4. \A r \in Regexps : AloneIs(r)'
    BY <1>3, <1>13, <2>2 DEF AloneIs, Just
  <2>5. Cardinality(Counted') \in Nat
    <3>1. Counted' \subseteq Regexps
      BY DEF Counted, Matching
    <3> QED BY <3>1, Facts, FS_Subset, FS_CardinalityType
  <2>6. Counts'
    BY <1>3, <1>13, <2>1, <2>5 DEF Counts
  <2>7. Threads' /\ LineDone'
    BY <2>1, <2>3, <2>4 DEF Threads, LineDone
  <2> QED BY <1>2, <1>6, <1>8, <1>9, <1>10, <1>11, <2>6, <2>7 DEF IndInv
<1>14. CASE ppc = "wait2"
  <2>1. ppc' = "see" /\ line' = line /\ text' = text /\ matchCount' = matchCount
    BY <1>1, <1>14 DEF work
  <2>2. \A r \in Regexps : ThreadIs(r) /\ (Alone(r) => AloneIs(r))
    BY <1>14 DEF IndInv, Threads
  <2>3. \A r \in Matching(line) : r \in Regexps /\ Evaluated(line, r) /\ matchCount > 0
    BY <1>4, <1>14, <2>2, Facts DEF ThreadIs
  <2>4. \A r \in Matching(line) : Alone(r) => Exact(line, r)
    <3> SUFFICES ASSUME NEW r \in Matching(line), Alone(r) PROVE Exact(line, r)
      OBVIOUS
    <3>1. AloneIs(r) /\ rpc[r] = "wait2"
      BY <1>4, <1>14, <2>2, <2>3
    <3> QED BY <3>1 DEF AloneIs, Exact, Just
  <2>5. LineDone'
    BY <1>1, <2>1, <2>3, <2>4, SameTables DEF LineDone, Alone
  <2>6. matchCount > 0 => Matching(line) # {}
    BY <1>14 DEF IndInv, Counts
  <2>7. Counts'
    BY <1>1, <2>1, <2>3, <2>6, SameTables DEF Counts
  <2>8. Threads'
    BY <2>1 DEF Threads
  <2> QED BY <1>2, <1>6, <1>8, <1>9, <1>10, <1>11, <2>5, <2>7, <2>8 DEF IndInv
<1> QED BY <1>5, <1>12, <1>13, <1>14

LEMMA AcceptLineInv ==
  ASSUME IndInv, AcceptLine
  PROVE  IndInv'
<1>1. PICK t \in Texts : text' = Append(text, t)
  BY DEF AcceptLine
<1>2. /\ ppc = "accept" /\ ppc' = "clear" /\ Len(text) < MaxLines
      /\ line' = Len(text) + 1
      /\ UNCHANGED <<rpc, hit, loaded, work, rows, seen>>
  BY DEF AcceptLine
<1>3. /\ Len(text) \in Nat /\ text' \in Seq(Texts) /\ Len(text') = Len(text) + 1
      /\ \A n \in 1 .. Len(text) : text'[n] = text[n]
  BY <1>1 DEF IndInv, TypeOK
<1>4. TypeOK'
  BY <1>2, <1>3, Facts DEF IndInv, TypeOK, Numbers, work, rows
<1>5. Lockstep'
  BY <1>2 DEF IndInv, Lockstep
<1>6. LineIs'
  BY <1>2, <1>3 DEF LineIs, EMPTY, EXIT
<1>7. \A n \in 1 .. Len(text) : n \in Seen
  BY <1>2 DEF IndInv, SeenLines, AtHand
<1>8. Seen' = Seen /\ Seen \subseteq 1 .. Len(text)
  BY <1>2 DEF IndInv, SeenLines, Seen
<1>9. \A n \in 1 .. Len(text) : Matching(n)' = Matching(n) /\ OpenIP(n)' = OpenIP(n)
  BY <1>3 DEF Matching, OpenIP, Open
<1>10. SeenLines'
  <2>1. Seen' \subseteq 1 .. Len(text')
    BY <1>3, <1>8
  <2>2. \A n \in 1 .. Len(text') : n \in Seen' \/ n = line'
    BY <1>2, <1>3, <1>7, <1>8
  <2>3. AtHand' /\ line' \notin Seen'
    BY <1>2, <1>3, <1>8 DEF AtHand, EXIT
  <2>4. \A row \in seen' : row.matched <=> Matching(row.line)' # {}
    BY <1>2, <1>8, <1>9 DEF IndInv, SeenLines, Seen
  <2> QED BY <2>1, <2>2, <2>3, <2>4 DEF SeenLines
<1>11. RowsHaveLines'
  BY <1>2, <1>3 DEF IndInv, RowsHaveLines, rows
<1>12. Threads' /\ Counts' /\ LineDone'
  BY <1>2, IdleFacts DEF Idle
<1>13. \A n, r : Evaluated(n, r)' = Evaluated(n, r)
  BY <1>2 DEF Evaluated, RowsOf, rows
<1>14. \A n \in 1 .. Len(text) : \A r : Exact(n, r) => Exact(n, r)'
  BY <1>2, <1>3, SameExact DEF rows, RowsOf
<1>15. AllEvaluated'
  BY <1>8, <1>9, <1>13 DEF IndInv, AllEvaluated
<1>16. AllExact'
  BY <1>8, <1>9, <1>14 DEF IndInv, AllExact
<1>17. DropsOpen'
  BY <1>2, <1>9 DEF IndInv, DropsOpen, RowsHaveLines, rows
<1> QED BY <1>4, <1>5, <1>6, <1>10, <1>11, <1>12, <1>15, <1>16, <1>17 DEF IndInv

LEMMA AcceptExitInv ==
  ASSUME IndInv, AcceptExit
  PROVE  IndInv'
<1>1. /\ ppc = "accept" /\ ppc' = "clear" /\ line' = EXIT
      /\ UNCHANGED <<text, rpc, hit, loaded, work, rows, seen>>
  BY DEF AcceptExit
<1>2. TypeOK' /\ Lockstep' /\ LineIs'
  BY <1>1 DEF IndInv, TypeOK, Lockstep, LineIs, work, rows, EXIT, EMPTY
<1>3. SeenLines'
  <2>1. ~AtHand' /\ ~AtHand /\ Seen' = Seen
    BY <1>1 DEF AtHand, Seen
  <2> QED BY <1>1, <2>1, SameTables DEF IndInv, SeenLines
<1>4. RowsHaveLines'
  BY <1>1, Facts DEF IndInv, RowsHaveLines, rows
<1>5. Threads' /\ Counts' /\ LineDone'
  BY <1>1, IdleFacts DEF Idle
<1> QED BY <1>1, <1>2, <1>3, <1>4, <1>5, KeepsHistory DEF IndInv

LEMMA ClearMatchCountInv ==
  ASSUME IndInv, ClearMatchCount
  PROVE  IndInv'
<1>1. /\ ppc = "clear" /\ ppc' = "wait1" /\ matchCount' = 0
      /\ UNCHANGED <<line, text, rpc, hit, loaded, ipAddr, whitelisted, rows,
                     seen>>
  BY DEF ClearMatchCount
<1>2. TypeOK' /\ Lockstep' /\ LineIs'
  BY <1>1, Facts DEF IndInv, TypeOK, Lockstep, LineIs, rows
<1>3. SeenLines'
  <2>1. AtHand' = AtHand /\ Seen' = Seen
    BY <1>1 DEF AtHand, Seen
  <2> QED BY <1>1, <2>1, SameTables DEF IndInv, SeenLines
<1>4. RowsHaveLines'
  BY <1>1 DEF IndInv, RowsHaveLines, rows
<1>5. Threads' /\ Counts' /\ LineDone'
  BY <1>1 DEF Threads, Counts, LineDone
<1> QED BY <1>1, <1>2, <1>3, <1>4, <1>5, KeepsHistory DEF IndInv

LEMMA InsertSeenInv ==
  ASSUME IndInv, InsertSeen
  PROVE  IndInv'
<1> DEFINE row == [line |-> line, matched |-> matchCount > 0]
<1>1. /\ ppc = "see" /\ ppc' = "write" /\ seen' = seen \cup {row}
      /\ UNCHANGED <<line, text, rpc, hit, loaded, work, rows>>
  BY DEF InsertSeen
<1>2. /\ line = Len(text) /\ line # EXIT /\ 0 < line /\ Len(text) \in Nat
      /\ line \in Numbers /\ AtHand /\ ~AtHand'
  BY <1>1, Facts DEF IndInv, LineIs, TypeOK, Numbers, AtHand
<1>3. row \in [line : Numbers, matched : BOOLEAN]
  BY <1>2
<1>4. TypeOK'
  BY <1>1, <1>3 DEF IndInv, TypeOK, work, rows
<1>5. Lockstep' /\ LineIs'
  BY <1>1, <1>2 DEF IndInv, Lockstep, LineIs
<1>6. Seen' = Seen \cup {line}
  <2>1. row.line = line
    OBVIOUS
  <2>2. \A x : x \in Seen' <=> \E y \in seen \cup {row} : x = y.line
    BY <1>1 DEF Seen
  <2>3. \A x : x \in Seen' <=> x = line \/ \E y \in seen : x = y.line
    BY <2>1, <2>2
  <2> QED BY <2>3 DEF Seen
<1>7. \A n : Matching(n)' = Matching(n)
  BY <1>1, SameTables
<1>8. SeenLines'
  <2>1. Seen' \subseteq 1 .. Len(text') /\ \A n \in 1 .. Len(text') : n \in Seen'
    <3>1. line \in 1 .. Len(text)
      BY <1>2
    <3>2. Seen \subseteq 1 .. Len(text) /\ \A n \in 1 .. Len(text) : n \in Seen \/ n = line
      BY DEF IndInv, SeenLines
    <3> QED BY <1>1, <1>6, <3>1, <3>2
  <2>2. row.matched <=> Matching(row.line) # {}
    BY <1>1 DEF IndInv, Counts
  <2>3. \A x \in seen' : x.matched <=> Matching(x.line)' # {}
    BY <1>1, <1>7, <2>2 DEF IndInv, SeenLines
  <2> QED BY <1>2, <2>1, <2>3 DEF SeenLines
<1>9. RowsHaveLines'
  BY <1>1 DEF IndInv, RowsHaveLines, rows
<1>10. Threads' /\ Counts' /\ LineDone'
  BY <1>1, IdleFacts DEF Idle
<1>11. AllEvaluated' /\ AllExact'
  <2>1. /\ \A n, r : Evaluated(n, r)' = Evaluated(n, r)
        /\ \A n, r : Exact(n, r)' = Exact(n, r)
    BY <1>1, SameTables
  <2>2. AllEvaluated'
    BY <1>1, <1>6, <1>7, <2>1 DEF IndInv, AllEvaluated, LineDone
  <2>3. ASSUME NEW n \in Seen', NEW r \in Regexps, Matching(n)' = {r}
        PROVE  Exact(n, r)'
    <3>1. Matching(n) = {r}
      BY <1>7, <2>3
    <3>2. CASE n = line
      BY <1>1, <2>1, <3>1, <3>2 DEF IndInv, LineDone, Alone
    <3>3. CASE n # line
      BY <1>6, <2>1, <2>3, <3>1, <3>3 DEF IndInv, AllExact
    <3> QED BY <3>2, <3>3
  <2> QED BY <2>2, <2>3 DEF AllExact
<1>12. DropsOpen'
  BY <1>1, SameTables DEF IndInv, DropsOpen, rows
<1> QED BY <1>4, <1>5, <1>8, <1>9, <1>10, <1>11, <1>12 DEF IndInv

LEMMA WritePosInv ==
  ASSUME IndInv, WritePos
  PROVE  IndInv'
<1>1. /\ ppc = "write" /\ ppc' = "accept"
      /\ UNCHANGED <<line, text, rpc, hit, loaded, work, rows, seen>>
  BY DEF WritePos
<1>2. /\ line = Len(text) /\ line # EXIT /\ Len(text) \in Nat
      /\ line \in 0 .. MaxLines /\ ~AtHand /\ ~AtHand'
  BY <1>1, Facts DEF IndInv, LineIs, TypeOK, AtHand
<1>3. TypeOK'
  BY <1>1, <1>2 DEF IndInv, TypeOK, work, rows
<1>4. Lockstep' /\ LineIs'
  BY <1>1, <1>2 DEF IndInv, Lockstep, LineIs
<1>5. SeenLines'
  <2>1. Seen' = Seen
    BY <1>1 DEF Seen
  <2> QED BY <1>1, <1>2, <2>1, SameTables DEF IndInv, SeenLines
<1>6. RowsHaveLines'
  BY <1>1 DEF IndInv, RowsHaveLines, rows
<1>7. Threads' /\ Counts' /\ LineDone'
  BY <1>1, IdleFacts DEF Idle
<1> QED BY <1>1, <1>3, <1>4, <1>5, <1>6, <1>7, KeepsHistory DEF IndInv

LEMMA ReturnInv ==
  ASSUME IndInv, NotifyExit \/ JoinAll
  PROVE  IndInv'
<1>1. /\ ppc \in {"notify", "join"} /\ ppc' \in {"join", "returned"}
      /\ UNCHANGED <<line, text, rpc, hit, loaded, work, rows, seen>>
  BY DEF NotifyExit, JoinAll
<1>2. TypeOK' /\ Lockstep' /\ LineIs'
  BY <1>1 DEF IndInv, TypeOK, Lockstep, LineIs, work, rows
<1>3. SeenLines'
  <2>1. ~AtHand' /\ ~AtHand /\ Seen' = Seen
    BY <1>1 DEF AtHand, Seen
  <2> QED BY <1>1, <2>1, SameTables DEF IndInv, SeenLines
<1>4. RowsHaveLines'
  BY <1>1 DEF IndInv, RowsHaveLines, rows
<1>5. Threads' /\ Counts' /\ LineDone'
  BY <1>1, IdleFacts DEF Idle
<1> QED BY <1>1, <1>2, <1>3, <1>4, <1>5, KeepsHistory DEF IndInv

LEMMA StutterInv ==
  ASSUME IndInv, UNCHANGED vars
  PROVE  IndInv'
<1>1. UNCHANGED <<ppc, line, text, rpc, hit, loaded, work, rows, seen>>
  BY DEF vars, work, rows
<1>2. TypeOK' /\ Lockstep' /\ LineIs'
  BY <1>1 DEF IndInv, TypeOK, Lockstep, LineIs, work, rows
<1>3. SeenLines'
  <2>1. AtHand' = AtHand /\ Seen' = Seen
    BY <1>1 DEF AtHand, Seen
  <2> QED BY <1>1, <2>1, SameTables DEF IndInv, SeenLines
<1>4. RowsHaveLines'
  BY <1>1 DEF IndInv, RowsHaveLines, rows
<1>5. Threads'
  <2>1. /\ \A r : ThreadIs(r)' = ThreadIs(r)
        /\ \A r : AloneIs(r)' = AloneIs(r) /\ Alone(r)' = Alone(r)
    BY <1>1, SameTables DEF ThreadIs, AloneIs, Alone, Just, Rec, Open, RowsOf,
                            work, rows
  <2> QED BY <1>1, <2>1 DEF IndInv, Threads
<1>6. Counts'
  <2>1. Counted' = Counted
    BY <1>1, SameTables DEF Counted
  <2> QED BY <1>1, <2>1, SameTables DEF IndInv, Counts, work
<1>7. LineDone'
  BY <1>1, SameTables DEF IndInv, LineDone, Alone
<1> QED BY <1>1, <1>2, <1>3, <1>4, <1>5, <1>6, <1>7, KeepsHistory DEF IndInv

\* The inductive invariant holds in every reachable state.
THEOREM Invariance == Spec => []IndInv
<1>1. Init => IndInv
  BY InitInv
<1>2. IndInv /\ [Next]_vars => IndInv'
  <2> SUFFICES ASSUME IndInv, [Next]_vars PROVE IndInv'
    OBVIOUS
  <2>1. CASE \E r \in Regexps : RegexpStep(r)
    <3>1. PICK r \in Regexps : RegexpStep(r)
      BY <2>1
    <3> QED BY <3>1, WhileInv, SearchInv, SaveIPInv, LoadCountInv, StoreCountInv,
                SaveWhiteInv, BranchInv, InsertAudtInv, InsertEvalInv,
                InsertHistInv, InsertDropInv, InsertMultiInv DEF RegexpStep
  <2>2. CASE ProcStep
    BY <2>2, ClearMatchCountInv, InsertSeenInv, WritePosInv, ReturnInv DEF ProcStep
  <2>3. CASE AcceptLine
    BY <2>3, AcceptLineInv
  <2>4. CASE AcceptExit
    BY <2>4, AcceptExitInv
  <2>5. CASE Release
    BY <2>5, ReleaseInv
  <2>6. CASE UNCHANGED vars
    BY <2>6, StutterInv
  <2> QED BY <2>1, <2>2, <2>3, <2>4, <2>5, <2>6 DEF Next
<1> QED BY <1>1, <1>2, PTL DEF Spec

\* Every variable of the pool keeps its type; the count never exceeds the number
\* of regexps, although its increments are not protected.
THEOREM PoolTypes == Spec => []TypeOK
<1>1. IndInv => TypeOK
  BY DEF IndInv
<1> QED BY <1>1, Invariance, PTL

\* T100_LinesSeen tells the truth: each line once, with matched set exactly when
\* some regexp matches it.
THEOREM SeenTellsTruth == Spec => []SeenIsTrue
<1>1. IndInv => SeenIsTrue
  <2> SUFFICES ASSUME IndInv PROVE SeenIsTrue
    OBVIOUS
  <2>1. /\ \A row \in seen : row.matched <=> Matching(row.line) # {}
        /\ seen \subseteq [line : Numbers, matched : BOOLEAN]
    BY DEF IndInv, SeenLines, TypeOK
  <2>2. ASSUME NEW n \in Numbers
        PROVE  Cardinality({row \in seen : row.line = n}) <= 1
    <3> DEFINE S == {row \in seen : row.line = n}
    <3>1. \A x, y \in S : x = y
      BY <2>1
    <3>2. CASE S = {}
      BY <3>2, FS_EmptySet
    <3>3. CASE S # {}
      <4>1. PICK x \in S : TRUE
        BY <3>3
      <4>2. S = {x}
        BY <3>1, <4>1
      <4> QED BY <4>2, FS_Singleton
    <3> QED BY <3>2, <3>3
  <2> QED BY <2>1, <2>2 DEF SeenIsTrue
<1> QED BY <1>1, Invariance, PTL

\* When a line is recorded as seen, each regexp that matches it has sent its row.
THEOREM RowsBeforeSeen == Spec => []EvaluatedBeforeSeen
<1>1. IndInv => EvaluatedBeforeSeen
  BY DEF IndInv, AllEvaluated, Evaluated, EvaluatedBeforeSeen
<1> QED BY <1>1, Invariance, PTL

\* What is recorded as seen is settled: its rows in Eval, Hist and Drop are all
\* there, whatever the threads behind the second barrier and later lines do.
THEOREM SeenIsFinal == Spec => SeenIsSettled
<1>1. IndInv /\ [Next]_vars => [SettledStep]_vars
  <2> SUFFICES ASSUME IndInv, Next PROVE SettledStep
    BY DEF vars
  <2>1. CASE UNCHANGED <<eval, hist, drop>>
    BY <2>1 DEF SettledStep, RowsFor
  <2>2. ASSUME NEW r \in Regexps, InsertEval(r) \/ InsertHist(r) \/ InsertDrop(r)
        PROVE  SettledStep
    <3>1. rpc[r] \in {"eval", "hist", "drop"}
      BY <2>2 DEF InsertEval, InsertHist, InsertDrop, Goto
    <3>2. ppc = "wait2" /\ line \in Numbers
      BY <3>1, ActorFacts
    <3>3. line \notin Seen
      BY <3>2, Facts DEF IndInv, SeenLines, AtHand, LineIs
    <3>4. /\ eval \subseteq eval' /\ \A row \in eval' : row \in eval \/ row.line = line
          /\ hist \subseteq hist' /\ \A row \in hist' : row \in hist \/ row.line = line
          /\ drop \subseteq drop' /\ \A row \in drop' : row \in drop \/ row.line = line
      BY <2>2 DEF InsertEval, InsertHist, InsertDrop, Row
    <3> QED BY <3>3, <3>4 DEF SettledStep, RowsFor
  <2>3. CASE AcceptLine \/ AcceptExit \/ Release \/ ProcStep
    BY <2>1, <2>3 DEF AcceptLine, AcceptExit, Release, ProcStep, ClearMatchCount, InsertSeen,
       WritePos, NotifyExit, JoinAll, rows
  <2>4. ASSUME NEW r \in Regexps, RegexpStep(r)
        PROVE  SettledStep
    <3>1. CASE InsertEval(r) \/ InsertHist(r) \/ InsertDrop(r)
      BY <2>2, <3>1
    <3>2. CASE While(r) \/ SearchExit(r) \/ Search(r) \/ SaveIP(r) \/ LoadCount(r) \/ StoreCount(r)
      BY <2>1, <3>2 DEF While, SearchExit, Search, SaveIP, LoadCount, StoreCount, rows
    <3>3. CASE SaveWhite(r) \/ Branch(r) \/ InsertAudt(r) \/ CheckMulti(r) \/ InsertMulti(r)
      BY <2>1, <3>3 DEF SaveWhite, Branch, InsertAudt, CheckMulti, InsertMulti, rows
    <3> QED BY <2>4, <3>1, <3>2, <3>3 DEF RegexpStep
  <2> QED BY <2>3, <2>4 DEF Next
<1> QED BY <1>1, Invariance, PTL DEF Spec, SeenIsSettled

\* A line that one regexp matches ends up where its severity and the whitelist
\* say, with the IP that regexp captured.
THEOREM OneMatchIsExact == Spec => []SingleMatchExact
<1>1. IndInv => SingleMatchExact
  <2> SUFFICES ASSUME IndInv, NEW n \in Seen, NEW r \in Regexps, Matching(n) = {r}
               PROVE  /\ Exact(n, r)
                      /\ n \in 1 .. Len(text) /\ r \in Matching(n)
    BY DEF SingleMatchExact, Exact, Just, Rec, Open
  <2> QED BY DEF IndInv, AllExact, SeenLines
<1> QED BY <1>1, Invariance, PTL

\* A whitelisted IP is dropped only by a line that another regexp matched too.
THEOREM WhitelistNeedsTwo == Spec => []WhitelistedDropNeedsTwo
<1>1. IndInv => WhitelistedDropNeedsTwo
  BY DEF IndInv, DropsOpen, OpenIP, Open, WhitelistedDropNeedsTwo
<1> QED BY <1>1, Invariance, PTL
-----------------------------------------------------------------------------
(***************************************************************************)
(* When the processing thread, the barrier and a regexp thread can go on,  *)
(* spelled out: the guards of ProcStep, Release and RegexpStep, the steps  *)
(* whose fairness FairSpec states.                                         *)
(***************************************************************************)
AllLeft == \A r \in Regexps : rpc[r] = "left"

ProcCan ==
    \/ ppc \in {"clear", "see", "write", "notify"}
    \/ ppc = "join" /\ AllLeft

BarrierCan == ppc \in AtBarrier /\ \A r \in Regexps : rpc[r] \in AtBarrier

RegexpCan(r) == rpc[r] \notin {"wait1", "wait2", "left"}

\* At EXIT a regexp thread has left its loop without coming to the barrier.
ExitRace == ppc = "wait1" /\ line = EXIT /\ \E r \in Regexps : rpc[r] = "left"

(***************************************************************************)
(* The pool stands still only when every line taken is recorded as seen:   *)
(* it waits for another line with all regexp threads at the barrier, or    *)
(* has returned when all of them had left, or a regexp thread was too late *)
(* for the line before EXIT and the barrier never fills.                   *)
(***************************************************************************)
PoolStandsStill ==
    ~ProcCan /\ ~BarrierCan /\ (\A r \in Regexps : ~RegexpCan(r)) =>
        /\ Seen = 1 .. Len(text)
        /\ \/ ppc = "accept" /\ \A r \in Regexps : rpc[r] = "wait1"
           \/ ppc = "returned" /\ AllLeft
           \/ ExitRace

\* Nobody leaves before EXIT, and nobody is left when the thread returns.
Leaving ==
    /\ \A r \in Regexps : rpc[r] = "left" => line = EXIT
    /\ ppc = "returned" => AllLeft

LEMMA LeavingInit == Init => Leaving
BY DEF Init, Leaving

LEMMA LeavingNext == IndInv /\ Leaving /\ [Next]_vars => Leaving'
<1> SUFFICES ASSUME IndInv, Leaving, [Next]_vars PROVE Leaving'
  OBVIOUS
<1> USE DEF work, rows
<1>1. rpc \in [Regexps -> {"while", "wait1", "search", "save", "load", "store", "white", "branch",
                          "audt", "eval", "hist", "drop", "wait2", "check", "multi", "left"}]
  BY DEF IndInv, TypeOK
<1>2. CASE AcceptLine \/ AcceptExit
  <2>1. line # EXIT /\ UNCHANGED rpc /\ ppc' = "clear"
    BY <1>2 DEF AcceptLine, AcceptExit, IndInv, LineIs
  <2> QED BY <2>1 DEF Leaving
<1>3. CASE Release
  <2>1. \A r \in Regexps : rpc'[r] \in {"search", "check"}
    BY <1>3 DEF Release
  <2>2. ppc' # "returned"
    BY <1>3 DEF Release
  <2> QED BY <2>1, <2>2 DEF Leaving
<1>4. CASE ProcStep \/ UNCHANGED vars
  BY <1>4 DEF ProcStep, ClearMatchCount, InsertSeen, WritePos, NotifyExit, JoinAll, vars, Leaving,
     AllLeft
<1>5. ASSUME NEW r \in Regexps, RegexpStep(r) PROVE Leaving'
  <2>1. /\ UNCHANGED <<ppc, line>> /\ rpc[r] # "left"
        /\ \A q \in Regexps : q # r => rpc'[q] = rpc[q]
        /\ rpc'[r] = "left" => line = EXIT
    <3>1. CASE While(r)
      BY <1>1, <3>1 DEF While, Goto
    <3>2. CASE SearchExit(r) \/ Search(r)
      BY <1>1, <3>2 DEF SearchExit, Search, Goto
    <3>3. CASE SaveIP(r) \/ LoadCount(r) \/ StoreCount(r) \/ SaveWhite(r)
      BY <1>1, <3>3 DEF SaveIP, LoadCount, StoreCount, SaveWhite, Goto
    <3>4. CASE Branch(r) \/ InsertAudt(r) \/ InsertEval(r) \/ InsertHist(r) \/ InsertDrop(r)
      BY <1>1, <3>4 DEF Branch, InsertAudt, InsertEval, InsertHist, InsertDrop, Goto
    <3>5. CASE CheckMulti(r) \/ InsertMulti(r)
      BY <1>1, <3>5 DEF CheckMulti, InsertMulti, Goto
    <3> QED BY <1>5, <3>1, <3>2, <3>3, <3>4, <3>5 DEF RegexpStep
  <2>2. ppc # "returned"
    BY <2>1 DEF Leaving, AllLeft
  <2> QED BY <2>1, <2>2 DEF Leaving
<1> QED BY <1>2, <1>3, <1>4, <1>5 DEF Next

(***************************************************************************)
(* The safety half of TakenIsSeen, and what BarrierFills fails on: the     *)
(* pool has no other deadlock than the one of a slow regexp thread at      *)
(* EXIT, and even then no line is left unseen.                             *)
(***************************************************************************)
THEOREM OnlyExitCanHang == Spec => []PoolStandsStill
<1>1. IndInv /\ Leaving => PoolStandsStill
  <2> SUFFICES ASSUME IndInv, Leaving, ~ProcCan, ~BarrierCan, \A r \in Regexps : ~RegexpCan(r)
               PROVE  /\ Seen = 1 .. Len(text)
                      /\ \/ ppc = "accept" /\ \A r \in Regexps : rpc[r] = "wait1"
                         \/ ppc = "returned" /\ AllLeft
                         \/ ExitRace
    BY DEF PoolStandsStill
  <2>1. \A r \in Regexps : rpc[r] \in {"wait1", "wait2", "left"}
    BY DEF RegexpCan
  <2>2. ppc \in {"accept", "wait1", "returned"}
    <3>1. ppc # "wait2"
      BY <2>1 DEF IndInv, Lockstep, BarrierCan, AtBarrier
    <3>2. ppc # "join"
      BY <2>1 DEF IndInv, Lockstep, ProcCan, AllLeft
    <3> QED BY <3>1, <3>2 DEF IndInv, TypeOK, ProcCan
  <2>3. CASE ppc = "accept"
    <3>1. line # EXIT
      BY <2>3 DEF IndInv, LineIs
    <3>2. \A r \in Regexps : rpc[r] = "wait1"
      BY <2>1, <2>3, <3>1 DEF IndInv, Lockstep, Leaving
    <3> QED BY <2>3, <3>2 DEF IndInv, SeenLines, AtHand
  <2>4. CASE ppc = "returned"
    BY <2>4 DEF Leaving, IndInv, SeenLines, AtHand
  <2>5. CASE ppc = "wait1"
    <3>1. PICK r \in Regexps : rpc[r] = "left"
      BY <2>1, <2>5 DEF BarrierCan, AtBarrier
    <3>2. line = EXIT
      BY <3>1 DEF Leaving
    <3> QED BY <2>5, <3>1, <3>2 DEF ExitRace, IndInv, SeenLines, AtHand
  <2> QED BY <2>2, <2>3, <2>4, <2>5
<1>2. Init => Leaving
  BY LeavingInit
<1>3. IndInv /\ Leaving /\ [Next]_vars => Leaving'
  BY LeavingNext
<1> QED BY <1>1, <1>2, <1>3, Invariance, PTL DEF Spec
===========================================================================
