------------------------- MODULE EvalThread_proofs -------------------------
(***************************************************************************)
(* What becomes of the hits, and who is dropped, for every finite set of   *)
(* rows, every set of expressions and every number of mishaps.             *)
(***************************************************************************)
EXTENDS EvalThread, FiniteSetTheorems, WellFoundedInduction, TLAPS

\* The rows of an address that have come so far.
Hits(ip) == {r \in inserted : r.ip = ip}

Offender(ip) ==
    /\ Cardinality(Hits(ip)) > MaxHitCountToChk
    /\ \E r, o \in Hits(ip) : r.tm > o.tm

\* T010_Eval and T040_Hist have rows the spool has inserted; a stamp is the one
\* of a drop of the row's own address.
RowsAreTrue ==
    \A e \in eval \cup hist :
        /\ e[1] \in inserted
        /\ e[2] # 0 => drops[e[2]] = e[1].ip

\* What the SELECT said of an address remains true while more rows come.
GroupsAreTrue ==
    /\ \A g \in groups \cup toKeep :
          /\ \E r \in Hits(g.ip) : r.tm = g.last
          /\ \E r \in Hits(g.ip) : r.tm = g.frst
    /\ \A g \in groups : Cardinality(Hits(g.ip)) > MaxHitCountToChk
    /\ \A ip \in toDrop : Offender(ip)

\* Between two statements of a move: what the one before has not seen raced.
MoveIsTrue ==
    /\ epc \in {"update", "copy", "delete"} => drops # <<>>
    /\ epc = "copy" =>
          \A e \in eval : e[1].ip = Dropping /\ e[2] = 0 => <<e[1], "copy">> \in raced
    /\ epc = "delete" =>
          \A e \in eval : e[1].ip = Dropping =>
                (\E h \in hist : h[1] = e[1]) \/ <<e[1], "delete">> \in raced

IndInv == TypeOK /\ RowsAreTrue /\ GroupsAreTrue /\ MoveIsTrue
          /\ HistIsTraceable /\ HitsAreKept /\ DropsSpanSeconds

USE DEF EvalEvent!InWait, EvalEvent!InPending, EvalEvent!Returned

-----------------------------------------------------------------------------
(* A finite set has a greatest and a least element.                        *)

LEMMA LeastNat ==
  ASSUME NEW T \in SUBSET Nat, T # {}
  PROVE  \E n \in T : \A m \in T : n <= m
<1> DEFINE R == OpToRel(<, Nat)
<1>1. \A x, y \in Nat : x < y => <<x, y>> \in R
  BY DEF OpToRel
<1>2. \E n \in T : \A m \in T : ~ (<<m, n>> \in R)
  <2>1. IsWellFoundedOn(R, Nat)
    BY NatLessThanWellFounded
  <2> HIDE DEF R
  <2> QED BY <2>1, WFMin
<1>3. PICK n \in T : \A m \in T : ~ (<<m, n>> \in R)
  BY <1>2
<1> HIDE DEF R
<1>4. \A m \in T : ~(m < n)
  BY <1>1, <1>3
<1> QED BY <1>4

LEMMA FiniteHasMax ==
  ASSUME NEW S, IsFiniteSet(S), S # {}, NEW f \in [S -> Int]
  PROVE  \E x \in S : \A y \in S : f[y] <= f[x]
<1> DEFINE HasMax(U) == \E x \in U : \A y \in U : f[y] <= f[x]
           T == {n \in Nat : \E U \in SUBSET S :
                                U # {} /\ Cardinality(U) = n /\ ~HasMax(U)}
<1> SUFFICES ASSUME ~HasMax(S) PROVE FALSE
  OBVIOUS
<1>1. Cardinality(S) \in T
  BY FS_CardinalityType
<1>2. PICK n \in T : \A m \in T : n <= m
  <2> HIDE DEF T
  <2>1. T \subseteq Nat
    BY DEF T
  <2> QED BY <1>1, <2>1, LeastNat
<1>3. PICK U \in SUBSET S : U # {} /\ Cardinality(U) = n /\ ~HasMax(U)
  OBVIOUS
<1>4. PICK x \in U : TRUE
  BY <1>3
<1> DEFINE V == U \ {x}
<1>5. IsFiniteSet(U) /\ IsFiniteSet(V) /\ Cardinality(V) = n - 1
  BY <1>3, FS_Subset, FS_RemoveElement
<1>6. V # {}
  <2> SUFFICES ASSUME V = {} PROVE FALSE
    OBVIOUS
  <2>1. \A y \in U : y = x
    OBVIOUS
  <2> QED BY <1>3, <2>1
<1>7. HasMax(V)
  <2>1. n - 1 \in Nat
    BY <1>5, FS_CardinalityType
  <2>2. n - 1 \notin T
    <3>1. n \in Nat
      OBVIOUS
    <3> HIDE DEF T
    <3> QED BY <1>2, <2>1, <3>1
  <2> QED BY <1>5, <1>6, <2>1, <2>2
<1>8. PICK v \in V : \A y \in V : f[y] <= f[v]
  BY <1>7
<1>9. HasMax(U)
  <2>1. CASE f[x] <= f[v] BY <1>8, <2>1
  <2>2. CASE ~(f[x] <= f[v])
    <3>1. f[x] \in Int /\ \A y \in V : f[y] \in Int /\ f[y] <= f[x]
      BY <1>8, <2>2
    <3> QED BY <3>1
  <2> QED BY <2>1, <2>2
<1> QED BY <1>3, <1>9

LEMMA Extremes ==
  ASSUME NEW S, IsFiniteSet(S), S # {}, NEW f \in [S -> Int]
  PROVE  /\ Max({f[x] : x \in S}) \in {f[x] : x \in S}
         /\ Min({f[x] : x \in S}) \in {f[x] : x \in S}
<1> DEFINE T == {f[x] : x \in S}
           down == [x \in S |-> -f[x]]
<1>1. PICK x \in S : \A y \in S : f[y] <= f[x]
  BY FiniteHasMax
<1>2. PICK z \in S : \A y \in S : down[y] <= down[z]
  <2>1. down \in [S -> Int]
    OBVIOUS
  <2> HIDE DEF down
  <2> QED BY <2>1, FiniteHasMax
<1>3. \E m \in T : \A n \in T : m >= n
  BY <1>1
<1>4. \E m \in T : \A n \in T : m <= n
  <2>1. \A y \in S : f[z] <= f[y]
    BY <1>2
  <2> QED BY <2>1
<1> HIDE DEF T
<1>5. Max(T) \in T
  BY <1>3 DEF Max
<1>6. Min(T) \in T
  BY <1>4 DEF Min
<1> QED BY <1>5, <1>6 DEF T

-----------------------------------------------------------------------------
(***************************************************************************)
(* What the SELECT returns of an address: a first and a last timestamp     *)
(* that two of its hits bear, and no more hits than have come.             *)
(***************************************************************************)
LEMMA GroupIsTrue ==
  ASSUME TypeOK, RowsAreTrue, NEW ip, RowsOf(ip, eval) # {}
  PROVE  LET g == Group(ip)
         IN  /\ g \in [ip : IPs, hits : Nat, frst : Nat, last : Nat, sev : Nat]
             /\ \E r \in Hits(ip) : r.tm = g.last
             /\ \E r \in Hits(ip) : r.tm = g.frst
             /\ g.hits <= Cardinality(Hits(ip)) /\ Cardinality(Hits(ip)) \in Nat
<1> DEFINE rs == RowsOf(ip, eval)
           tms == [r \in rs |-> r.tm]
           sevs == [r \in rs |-> r.sev]
<1>1. /\ rs \subseteq Hits(ip) /\ Hits(ip) \subseteq Rows
      /\ \A r \in Rows : r.ip \in IPs /\ r.tm \in Nat /\ r.sev \in Nat
  BY EvalAssumption DEF TypeOK, RowsAreTrue, RowsOf, Hits, IPs
<1>2. IsFiniteSet(rs) /\ IsFiniteSet(Hits(ip))
  BY <1>1, EvalAssumption, FS_Subset
<1>3. /\ Cardinality(rs) \in Nat /\ Cardinality(Hits(ip)) \in Nat
      /\ Cardinality(rs) <= Cardinality(Hits(ip))
  BY <1>1, <1>2, FS_Subset, FS_CardinalityType
<1> HIDE DEF rs
<1>4. /\ \A r \in rs : r \in Hits(ip) /\ r.tm \in Nat /\ r.sev \in Nat
      /\ rs # {} /\ ip \in IPs
  BY <1>1 DEF rs, Hits
<1>5. /\ Max({r.tm : r \in rs}) \in {r.tm : r \in rs}
      /\ Min({r.tm : r \in rs}) \in {r.tm : r \in rs}
  <2>1. tms \in [rs -> Int] /\ {tms[r] : r \in rs} = {r.tm : r \in rs}
    BY <1>4
  <2> HIDE DEF tms
  <2> QED BY <1>2, <1>4, <2>1, Extremes
<1>6. Min({r.sev : r \in rs}) \in {r.sev : r \in rs}
  <2>1. sevs \in [rs -> Int] /\ {sevs[r] : r \in rs} = {r.sev : r \in rs}
    BY <1>4
  <2> HIDE DEF sevs
  <2> QED BY <1>2, <1>4, <2>1, Extremes
<1>7. Group(ip) = [ip |-> ip, hits |-> Cardinality(rs), frst |-> Min({r.tm : r \in rs}),
                   last |-> Max({r.tm : r \in rs}), sev |-> Min({r.sev : r \in rs})]
  BY DEF Group, rs
<1>8. PICK m \in rs : Max({r.tm : r \in rs}) = m.tm
  BY <1>5
<1>9. PICK n \in rs : Min({r.tm : r \in rs}) = n.tm
  BY <1>5
<1>10. PICK k \in rs : Min({r.sev : r \in rs}) = k.sev
  BY <1>6
<1>11. Group(ip) = [ip |-> ip, hits |-> Cardinality(rs), frst |-> n.tm,
                    last |-> m.tm, sev |-> k.sev]
  BY <1>7, <1>8, <1>9, <1>10
<1>12. PICK h \in Nat : h = Cardinality(rs)
  BY <1>3
<1> QED BY <1>3, <1>4, <1>11, <1>12

(***************************************************************************)
(* Rows that come make no offender innocent.                               *)
(***************************************************************************)
LEMMA MoreHits ==
  ASSUME TypeOK, TypeOK', inserted \subseteq inserted', NEW ip
  PROVE  /\ Hits(ip) \subseteq Hits(ip)'
         /\ Cardinality(Hits(ip)) > MaxHitCountToChk
              => Cardinality(Hits(ip)') > MaxHitCountToChk
         /\ Offender(ip) => Offender(ip)'
<1>1. Hits(ip) \subseteq Hits(ip)' /\ Hits(ip)' \subseteq Rows
  BY DEF TypeOK, Hits
<1>2. IsFiniteSet(Hits(ip)')
  BY <1>1, EvalAssumption, FS_Subset
<1>3. /\ Cardinality(Hits(ip)) \in Nat /\ Cardinality(Hits(ip)') \in Nat
      /\ Cardinality(Hits(ip)) <= Cardinality(Hits(ip)')
  BY <1>1, <1>2, FS_Subset, FS_CardinalityType
<1>4. MaxHitCountToChk \in Nat
  BY EvalAssumption
<1> QED BY <1>1, <1>3, <1>4 DEF Offender

(***************************************************************************)
(* DropsSpanSeconds in the words of this module.                           *)
(***************************************************************************)
LEMMA DropsAreOffenders ==
  /\ DropsSpanSeconds <=> \A n \in DOMAIN drops : Offender(drops[n])
  /\ DropsSpanSeconds' <=> (\A n \in DOMAIN drops : Offender(drops[n]))'
<1>1. \A n \in DOMAIN drops : Hits(drops[n]) = {r \in inserted : r.ip = drops[n]}
  BY DEF Hits
<1>2. (\A n \in DOMAIN drops : Hits(drops[n]) = {r \in inserted : r.ip = drops[n]})'
  BY DEF Hits
<1> QED BY <1>1, <1>2 DEF DropsSpanSeconds, Offender

-----------------------------------------------------------------------------
(***************************************************************************)
(* The initial states satisfy the inductive invariant.                     *)
(***************************************************************************)
LEMMA InitInv == Init => IndInv
<1> SUFFICES ASSUME Init PROVE IndInv
  OBVIOUS
<1>1. TypeOK
  <2>1. drops \in Seq(IPs) /\ DOMAIN drops = {} /\ eval = {} /\ hist = {}
    BY DEF Init
  <2>2. 0 \in Nat /\ 0 + 0 <= MaxMishaps
    BY EvalAssumption
  <2> QED BY <2>1, <2>2 DEF TypeOK, Init
<1>2. RowsAreTrue /\ GroupsAreTrue /\ MoveIsTrue
  BY DEF Init, RowsAreTrue, GroupsAreTrue, MoveIsTrue
<1>3. HistIsTraceable /\ HitsAreKept /\ DropsSpanSeconds
  BY DEF Init, HistIsTraceable, HitsAreKept, DropsSpanSeconds
<1> QED BY <1>1, <1>2, <1>3 DEF IndInv

(***************************************************************************)
(* Steps that move evalThread to places outside of a move, set flags or    *)
(* count, and leave tables and lists alone.                                *)
(***************************************************************************)
Moving == {"update", "copy", "delete"}

LEMMA Bystander ==
  ASSUME IndInv, TypeOK', UNCHANGED <<tables, lists, raced>>,
         epc' = epc \/ epc' \notin Moving
  PROVE  IndInv'
<1> USE DEF IndInv, tables, lists
<1>1. Dropping' = Dropping /\ \A ip : Hits(ip)' = Hits(ip) /\ (Offender(ip) => Offender(ip)')
  BY DEF Dropping, Hits, Offender
<1>2. RowsAreTrue' BY DEF RowsAreTrue
<1>3. GroupsAreTrue' BY <1>1 DEF GroupsAreTrue
<1>4. MoveIsTrue' BY <1>1 DEF MoveIsTrue, Moving
<1>5. HistIsTraceable' BY DEF HistIsTraceable
<1>6. HitsAreKept' BY DEF HitsAreKept
<1>7. DropsSpanSeconds' BY DEF DropsSpanSeconds
<1> QED BY <1>2, <1>3, <1>4, <1>5, <1>6, <1>7

(***************************************************************************)
(* A row that comes has stamp 0; in the middle of a move of its address it *)
(* races.                                                                  *)
(***************************************************************************)
LEMMA InsertKeeps ==
  ASSUME IndInv, NEW r \in Rows, InsertRow(r)
  PROVE  IndInv'
<1>1. /\ r \notin inserted
      /\ inserted' = inserted \cup {r} /\ eval' = eval \cup {<<r, 0>>}
      /\ raced' = IF epc \in {"copy", "delete"} /\ Dropping = r.ip
                  THEN raced \cup {<<r, epc>>} ELSE raced
      /\ UNCHANGED <<hist, drops, epc, groups, toDrop, toKeep>>
      /\ Dropping' = Dropping
  BY DEF InsertRow, lists, Dropping
<1>2. TypeOK'
  <2>1. raced' \subseteq inserted' \X {"copy", "delete"}
    BY <1>1 DEF IndInv, TypeOK
  <2>2. 0 \in 0 .. Len(drops) /\ eval' \subseteq Rows \X (0 .. Len(drops'))
    BY <1>1 DEF IndInv, TypeOK
  <2> QED BY <1>1, <2>1, <2>2 DEF IndInv, TypeOK, InsertRow, lists, bounds
<1>3. \A ip : /\ Hits(ip) \subseteq Hits(ip)'
              /\ Cardinality(Hits(ip)) > MaxHitCountToChk
                    => Cardinality(Hits(ip)') > MaxHitCountToChk
              /\ Offender(ip) => Offender(ip)'
  BY <1>1, <1>2, MoreHits DEF IndInv
<1>4. RowsAreTrue'
  BY <1>1 DEF IndInv, RowsAreTrue
<1>5. GroupsAreTrue'
  BY <1>1, <1>3 DEF IndInv, GroupsAreTrue
<1>6. MoveIsTrue'
  BY <1>1 DEF IndInv, MoveIsTrue
<1>7. HistIsTraceable'
  BY <1>1 DEF IndInv, HistIsTraceable
<1>8. HitsAreKept'
  <2>1. eval \subseteq eval' /\ raced \subseteq raced' /\ <<r, 0>> \in eval' \cup hist'
    BY <1>1
  <2> SUFFICES ASSUME NEW q \in inserted'
               PROVE  \/ \E e \in eval' \cup hist' : e[1] = q
                      \/ \E o \in inserted' : o.ip = q.ip /\ q.tm < o.tm - MaxSecondsToKeep
                      \/ <<q, "delete">> \in raced'
    BY DEF HitsAreKept
  <2>2. CASE q = r
    <3>1. <<r, 0>>[1] = r
      OBVIOUS
    <3> QED BY <2>1, <2>2, <3>1
  <2>3. CASE q \in inserted
    <3>1. \/ \E e \in eval \cup hist : e[1] = q
          \/ \E o \in inserted : o.ip = q.ip /\ q.tm < o.tm - MaxSecondsToKeep
          \/ <<q, "delete">> \in raced
      BY <2>3 DEF IndInv, HitsAreKept
    <3> QED BY <1>1, <2>1, <3>1
  <2> QED BY <1>1, <2>2, <2>3
<1>9. DropsSpanSeconds'
  <2>1. \A n \in DOMAIN drops : Offender(drops[n])
    BY DropsAreOffenders DEF IndInv
  <2>2. (\A n \in DOMAIN drops : Offender(drops[n]))'
    <3> SUFFICES ASSUME NEW n \in DOMAIN drops' PROVE Offender(drops[n])'
      OBVIOUS
    <3> DEFINE ip == drops[n]
    <3>1. drops' = drops /\ Offender(ip)
      BY <1>1, <2>1
    <3>2. ip' = ip
      BY <3>1
    <3> QED BY <1>3, <3>1, <3>2 DEF Offender, Hits
  <2> QED BY <2>2, DropsAreOffenders
<1> QED BY <1>2, <1>4, <1>5, <1>6, <1>7, <1>8, <1>9 DEF IndInv

(***************************************************************************)
(* The SELECT and the decision change the lists only.                      *)
(***************************************************************************)
LEMMA ListsKeep ==
  ASSUME IndInv, UNCHANGED <<tables, raced>>, TypeOK', GroupsAreTrue',
         epc' \notin Moving
  PROVE  IndInv'
<1>1. RowsAreTrue' BY DEF IndInv, tables, RowsAreTrue
<1>2. MoveIsTrue' BY DEF MoveIsTrue, Moving
<1>3. HistIsTraceable' BY DEF IndInv, tables, HistIsTraceable
<1>4. HitsAreKept' BY DEF IndInv, tables, HitsAreKept
<1>5. DropsSpanSeconds' BY DEF IndInv, tables, DropsSpanSeconds
<1> QED BY <1>1, <1>2, <1>3, <1>4, <1>5 DEF IndInv

LEMMA SameHits ==
  ASSUME UNCHANGED inserted, NEW ip
  PROVE  Hits(ip)' = Hits(ip) /\ Offender(ip)' = Offender(ip)
BY DEF Hits, Offender

LEMMA SelectKeeps ==
  ASSUME IndInv, Select
  PROVE  IndInv'
<1>1. /\ epc' = "examine"
      /\ UNCHANGED <<inserted, eval, hist, drops, arriving, items, toDrop, toKeep, life,
                     failures, crashes, raced>>
  BY DEF Select, Goto, tables, bounds
<1>2. ASSUME NEW g \in groups'
      PROVE  /\ g \in [ip : IPs, hits : Nat, frst : Nat, last : Nat, sev : Nat]
             /\ \E r \in Hits(g.ip) : r.tm = g.last
             /\ \E r \in Hits(g.ip) : r.tm = g.frst
             /\ Cardinality(Hits(g.ip)) > MaxHitCountToChk
  <2>1. PICK e \in eval : g = Group(e[1].ip) /\ g.hits > MaxHitCountToChk
    BY <1>2 DEF Select
  <2>2. RowsOf(e[1].ip, eval) # {} /\ g.ip = e[1].ip
    BY <2>1 DEF RowsOf, Group
  <2>3. MaxHitCountToChk \in Nat
    BY EvalAssumption
  <2> DEFINE ip == e[1].ip
  <2>4. RowsOf(ip, eval) # {} /\ g = Group(ip) /\ g.ip = ip
    BY <2>1, <2>2
  <2> HIDE DEF ip
  <2>5. /\ g \in [ip : IPs, hits : Nat, frst : Nat, last : Nat, sev : Nat]
        /\ \E r \in Hits(ip) : r.tm = g.last
        /\ \E r \in Hits(ip) : r.tm = g.frst
        /\ g.hits <= Cardinality(Hits(ip)) /\ Cardinality(Hits(ip)) \in Nat
    BY <2>4, GroupIsTrue DEF IndInv
  <2> QED BY <2>1, <2>3, <2>4, <2>5
<1>3. TypeOK'
  <2>1. groups' \cup toKeep' \subseteq [ip : IPs, hits : Nat, frst : Nat,
                                        last : Nat, sev : Nat]
    BY <1>1, <1>2 DEF IndInv, TypeOK
  <2> QED BY <1>1, <2>1 DEF IndInv, TypeOK
<1>4. GroupsAreTrue'
  BY <1>1, <1>2, SameHits DEF IndInv, GroupsAreTrue
<1> QED BY <1>1, <1>3, <1>4, ListsKeep DEF tables, Moving

(***************************************************************************)
(* An address is put on the list of those to drop only when its hits span  *)
(* more than a second.                                                     *)
(***************************************************************************)
LEMMA ExamineKeeps ==
  ASSUME IndInv, Examine
  PROVE  IndInv'
<1>1. /\ epc = "examine" /\ epc' = "examine"
      /\ UNCHANGED <<inserted, eval, hist, drops, arriving, items, life,
                     failures, crashes, raced>>
  BY DEF Examine, tables, bounds
<1>2. PICK g \in groups :
          /\ groups' = groups \ {g}
          /\ \/ DropIt(g) /\ toDrop' = toDrop \cup {g.ip} /\ UNCHANGED toKeep
             \/ toKeep' = toKeep \cup {g} /\ UNCHANGED toDrop
  BY DEF Examine
<1>3. g \in [ip : IPs, hits : Nat, frst : Nat, last : Nat, sev : Nat]
  BY DEF IndInv, TypeOK
<1>4. TypeOK'
  <2>1. /\ toDrop' \subseteq IPs
        /\ groups' \cup toKeep' \subseteq [ip : IPs, hits : Nat, frst : Nat,
                                           last : Nat, sev : Nat]
    BY <1>2, <1>3 DEF IndInv, TypeOK
  <2> QED BY <1>1, <2>1 DEF IndInv, TypeOK
<1>5. DropIt(g) => Offender(g.ip)
  <2>1. PICK r \in Hits(g.ip) : r.tm = g.last
    BY DEF IndInv, GroupsAreTrue
  <2>2. PICK o \in Hits(g.ip) : o.tm = g.frst
    BY DEF IndInv, GroupsAreTrue
  <2>3. Cardinality(Hits(g.ip)) > MaxHitCountToChk
    BY DEF IndInv, GroupsAreTrue
  <2> QED BY <2>1, <2>2, <2>3 DEF DropIt, Offender
<1>6. GroupsAreTrue'
  BY <1>1, <1>2, <1>5, SameHits DEF IndInv, GroupsAreTrue
<1> QED BY <1>1, <1>4, <1>6, ListsKeep DEF tables, Moving

(***************************************************************************)
(* An address that is sent was on the list; the stamps of the drops before *)
(* keep their addresses.                                                   *)
(***************************************************************************)
LEMMA DropKeeps ==
  ASSUME IndInv, Drop
  PROVE  IndInv'
<1>1. PICK ip \in toDrop : drops' = Append(drops, ip) /\ toDrop' = toDrop \ {ip}
  BY DEF Drop
<1>2. /\ epc' = "update"
      /\ UNCHANGED <<inserted, eval, hist, arriving, items, groups, toKeep, life,
                     failures, crashes, raced>>
  BY DEF Drop, Goto, bounds
<1>3. /\ ip \in IPs /\ drops \in Seq(IPs) /\ Len(drops) \in Nat
      /\ drops' \in Seq(IPs) /\ Len(drops') = Len(drops) + 1 /\ drops' # <<>>
      /\ \A n \in 1 .. Len(drops) : drops'[n] = drops[n]
      /\ drops'[Len(drops) + 1] = ip
      /\ DOMAIN drops = 1 .. Len(drops) /\ DOMAIN drops' = 1 .. (Len(drops) + 1)
  BY <1>1 DEF IndInv, TypeOK
<1>4. TypeOK'
  <2>1. 0 .. Len(drops) \subseteq 0 .. Len(drops')
    BY <1>3
  <2>2. eval' \cup hist' \subseteq Rows \X (0 .. Len(drops'))
    BY <1>2, <2>1 DEF IndInv, TypeOK
  <2> QED BY <1>1, <1>2, <1>3, <2>2 DEF IndInv, TypeOK
<1>5. \A e \in eval \cup hist : e[2] \in 0 .. Len(drops)
  BY DEF IndInv, TypeOK
<1>6. RowsAreTrue'
  <2> SUFFICES ASSUME NEW e \in eval \cup hist
               PROVE  e[1] \in inserted /\ (e[2] # 0 => drops'[e[2]] = e[1].ip)
    BY <1>2 DEF RowsAreTrue
  <2>1. e[1] \in inserted /\ (e[2] # 0 => drops[e[2]] = e[1].ip)
    BY DEF IndInv, RowsAreTrue
  <2>2. e[2] # 0 => e[2] \in 1 .. Len(drops)
    BY <1>3, <1>5
  <2> QED BY <1>3, <2>1, <2>2
<1>7. GroupsAreTrue'
  BY <1>1, <1>2, SameHits DEF IndInv, GroupsAreTrue
<1>8. MoveIsTrue'
  BY <1>2, <1>3 DEF MoveIsTrue
<1>9. HistIsTraceable'
  BY <1>2, <1>6 DEF IndInv, HistIsTraceable, RowsAreTrue
<1>10. HitsAreKept'
  BY <1>2 DEF IndInv, HitsAreKept
<1>11. DropsSpanSeconds'
  <2>1. Offender(ip) /\ \A n \in DOMAIN drops : Offender(drops[n])
    BY DropsAreOffenders DEF IndInv, GroupsAreTrue
  <2>2. \A n \in DOMAIN drops' : Offender(drops'[n])
    BY <1>3, <2>1
  <2>3. (\A n \in DOMAIN drops : Offender(drops[n]))'
    BY <1>2, <2>2 DEF Offender, Hits
  <2> QED BY <2>3, DropsAreOffenders
<1> QED BY <1>4, <1>6, <1>7, <1>8, <1>9, <1>10, <1>11 DEF IndInv

(***************************************************************************)
(* The steps of a move and of the ageing leave the hits and the drops      *)
(* alone: what the lists say remains true.                                 *)
(***************************************************************************)
LEMMA TablesKeep ==
  ASSUME IndInv, UNCHANGED <<inserted, drops, toDrop, groups, raced>>,
         toKeep' \subseteq toKeep, TypeOK', RowsAreTrue', MoveIsTrue',
         HistIsTraceable', HitsAreKept'
  PROVE  IndInv'
<1>1. GroupsAreTrue'
  BY SameHits DEF IndInv, GroupsAreTrue
<1>2. DropsSpanSeconds'
  BY DEF IndInv, DropsSpanSeconds
<1> QED BY <1>1, <1>2 DEF IndInv

(***************************************************************************)
(* After the UPDATE no row of the address has the stamp 0.                 *)
(***************************************************************************)
LEMMA StampKeeps ==
  ASSUME IndInv, Stamp
  PROVE  IndInv'
<1>1. /\ epc = "update" /\ epc' = "copy"
      /\ eval' = {<<e[1], IF e[1].ip = Dropping THEN Len(drops) ELSE e[2]>> : e \in eval}
      /\ UNCHANGED <<inserted, hist, drops, arriving, items, groups, toDrop, toKeep,
                     life, failures, crashes, raced>>
      /\ Dropping' = Dropping
  BY DEF Stamp, Goto, lists, bounds, Dropping
<1>2. Len(drops) \in Nat \ {0} /\ Dropping = drops[Len(drops)]
  BY <1>1 DEF IndInv, MoveIsTrue, TypeOK, Dropping
<1>3. \A d \in eval' : \E e \in eval :
          /\ d[1] = e[1]
          /\ d[2] = IF e[1].ip = Dropping THEN Len(drops) ELSE e[2]
  BY <1>1
<1>4. TypeOK'
  <2>1. \A e \in eval : e[1] \in Rows /\ e[2] \in 0 .. Len(drops)
    BY DEF IndInv, TypeOK
  <2>2. eval' \subseteq Rows \X (0 .. Len(drops'))
    BY <1>1, <1>2, <2>1
  <2> QED BY <1>1, <2>2 DEF IndInv, TypeOK
<1>5. RowsAreTrue'
  <2>1. \A d \in eval' : d[1] \in inserted /\ (d[2] # 0 => drops[d[2]] = d[1].ip)
    BY <1>2, <1>3 DEF IndInv, RowsAreTrue
  <2> QED BY <1>1, <2>1 DEF IndInv, RowsAreTrue
<1>6. MoveIsTrue'
  <2>1. \A d \in eval' : d[1].ip = Dropping => d[2] # 0
    BY <1>2, <1>3
  <2> QED BY <1>1, <2>1 DEF IndInv, MoveIsTrue
<1>7. HistIsTraceable'
  BY <1>1 DEF IndInv, HistIsTraceable
<1>8. HitsAreKept'
  <2>1. ASSUME NEW e \in eval PROVE \E d \in eval' : d[1] = e[1]
    <3> DEFINE d == <<e[1], IF e[1].ip = Dropping THEN Len(drops) ELSE e[2]>>
    <3>1. d \in eval'
      BY <1>1
    <3>2. d[1] = e[1]
      OBVIOUS
    <3> QED BY <3>1, <3>2
  <2> QED BY <1>1, <2>1 DEF IndInv, HitsAreKept
<1> QED BY <1>1, <1>4, <1>5, <1>6, <1>7, <1>8, TablesKeep

(***************************************************************************)
(* After the INSERT every row of the address is in T040_Hist.              *)
(***************************************************************************)
LEMMA CopyKeeps ==
  ASSUME IndInv, Copy
  PROVE  IndInv'
<1>1. /\ epc = "copy" /\ epc' = "delete"
      /\ hist' = hist \cup {e \in eval : e[1].ip = Dropping}
      /\ UNCHANGED <<inserted, eval, drops, arriving, items, groups, toDrop, toKeep,
                     life, failures, crashes, raced>>
      /\ Dropping' = Dropping
  BY DEF Copy, Goto, lists, bounds, Dropping
<1>2. TypeOK'
  BY <1>1 DEF IndInv, TypeOK
<1>3. RowsAreTrue'
  BY <1>1 DEF IndInv, RowsAreTrue
<1>4. MoveIsTrue'
  BY <1>1 DEF IndInv, MoveIsTrue
<1>5. HistIsTraceable'
  BY <1>1 DEF IndInv, HistIsTraceable, RowsAreTrue, MoveIsTrue
<1>6. HitsAreKept'
  BY <1>1 DEF IndInv, HitsAreKept
<1> QED BY <1>1, <1>2, <1>3, <1>4, <1>5, <1>6, TablesKeep

(***************************************************************************)
(* The DELETE removes what the INSERT has copied, and what came since.     *)
(***************************************************************************)
LEMMA DeleteKeeps ==
  ASSUME IndInv, Delete
  PROVE  IndInv'
<1>1. /\ epc = "delete" /\ epc' = "drop"
      /\ eval' = {e \in eval : e[1].ip # Dropping}
      /\ UNCHANGED <<inserted, hist, drops, arriving, items, groups, toDrop, toKeep,
                     life, failures, crashes, raced>>
  BY DEF Delete, Goto, lists, bounds
<1>2. TypeOK'
  BY <1>1 DEF IndInv, TypeOK
<1>3. RowsAreTrue'
  BY <1>1 DEF IndInv, RowsAreTrue
<1>4. MoveIsTrue'
  BY <1>1 DEF MoveIsTrue
<1>5. HistIsTraceable'
  BY <1>1 DEF IndInv, HistIsTraceable
<1>6. HitsAreKept'
  <2>1. \A e \in eval : \/ e \in eval' \/ \E h \in hist : h[1] = e[1]
                        \/ <<e[1], "delete">> \in raced
    BY <1>1 DEF IndInv, MoveIsTrue
  <2> QED BY <1>1, <2>1 DEF IndInv, HitsAreKept
<1> QED BY <1>1, <1>2, <1>3, <1>4, <1>5, <1>6, TablesKeep

(***************************************************************************)
(* A row is deleted for its age only when a hit of its address is that     *)
(* much younger.                                                           *)
(***************************************************************************)
LEMMA AgeKeeps ==
  ASSUME IndInv, Age
  PROVE  IndInv'
<1>1. PICK g \in toKeep :
          /\ toKeep' = toKeep \ {g}
          /\ eval' = IF g.last - MaxSecondsToKeep > g.frst
                     THEN {e \in eval : ~TooOld(e[1], g)} ELSE eval
  BY DEF Age
<1>2. /\ epc' = "age"
      /\ UNCHANGED <<inserted, hist, drops, arriving, items, groups, toDrop, life,
                     failures, crashes, raced>>
  BY DEF Age, bounds
<1>3. eval' \subseteq eval
  BY <1>1
<1>4. TypeOK'
  BY <1>1, <1>2, <1>3 DEF IndInv, TypeOK
<1>5. RowsAreTrue'
  BY <1>2, <1>3 DEF IndInv, RowsAreTrue
<1>6. MoveIsTrue'
  BY <1>2 DEF MoveIsTrue
<1>7. HistIsTraceable'
  BY <1>2 DEF IndInv, HistIsTraceable
<1>8. HitsAreKept'
  <2>1. PICK o \in inserted : o.ip = g.ip /\ o.tm = g.last
    BY DEF IndInv, GroupsAreTrue, Hits
  <2>2. \A e \in eval : e \in eval' \/ (o.ip = e[1].ip /\ e[1].tm < o.tm - MaxSecondsToKeep)
    BY <1>1, <2>1 DEF TooOld
  <2> QED BY <1>2, <2>1, <2>2 DEF IndInv, HitsAreKept
<1> QED BY <1>1, <1>2, <1>4, <1>5, <1>6, <1>7, <1>8, TablesKeep

(***************************************************************************)
(* A statement that fails, and a death, leave the tables and shorten the   *)
(* lists.                                                                  *)
(***************************************************************************)
LEMMA MishapKeeps ==
  ASSUME IndInv, SelectFails \/ BatchFails \/ Crash
  PROVE  IndInv'
<1>1. /\ UNCHANGED <<inserted, eval, hist, drops, raced>>
      /\ groups' \subseteq groups /\ toDrop' \subseteq toDrop /\ toKeep' \subseteq toKeep
      /\ epc' \in {"drop", "age", "top"}
      /\ arriving' \in {arriving, FALSE} /\ items' \in {items, FALSE}
      /\ life' \in {life, "running"}
      /\ failures' + crashes' = failures + crashes + 1
      /\ failures' \in Nat /\ crashes' \in Nat
      /\ failures + crashes < MaxMishaps
  <2>1. failures \in Nat /\ crashes \in Nat
    BY DEF IndInv, TypeOK
  <2>2. CASE SelectFails BY <2>1, <2>2 DEF SelectFails, tables
  <2>3. CASE BatchFails BY <2>1, <2>3 DEF BatchFails, tables
  <2>4. CASE Crash
    <3>1. UNCHANGED <<inserted, eval, hist, drops, failures, raced>>
      BY <2>4 DEF Crash, tables
    <3>2. /\ failures + crashes < MaxMishaps /\ crashes' = crashes + 1
          /\ arriving' = FALSE /\ items' = FALSE /\ epc' = "top"
          /\ groups' = {} /\ toDrop' = {} /\ toKeep' = {} /\ life' = "running"
      BY <2>4 DEF Crash
    <3>3. /\ failures' + crashes' = failures + crashes + 1
          /\ failures' \in Nat /\ crashes' \in Nat
      BY <2>1, <3>1, <3>2
    <3> QED BY <3>1, <3>2, <3>3
  <2> QED BY <2>2, <2>3, <2>4
<1>2. TypeOK'
  <2>1. failures' + crashes' <= MaxMishaps
    <3>1. failures + crashes \in Nat /\ MaxMishaps \in Nat
      BY EvalAssumption DEF IndInv, TypeOK
    <3> DEFINE n == failures + crashes
               m == failures' + crashes'
    <3>2. n \in Nat /\ n < MaxMishaps /\ m = n + 1
      BY <1>1, <3>1
    <3> HIDE DEF n, m
    <3>3. m <= MaxMishaps
      BY <3>1, <3>2
    <3> QED BY <3>3 DEF m
  <2>2. /\ arriving' \in BOOLEAN /\ items' \in BOOLEAN
        /\ life' \in {"running", "stopping", "notified"}
    BY <1>1 DEF IndInv, TypeOK
  <2>3. /\ toDrop' \subseteq IPs
        /\ groups' \cup toKeep' \subseteq [ip : IPs, hits : Nat, frst : Nat,
                                           last : Nat, sev : Nat]
    BY <1>1 DEF IndInv, TypeOK
  <2> QED BY <1>1, <2>1, <2>2, <2>3 DEF IndInv, TypeOK
<1>3. GroupsAreTrue'
  BY <1>1, SameHits DEF IndInv, GroupsAreTrue
<1> QED BY <1>1, <1>2, <1>3, ListsKeep DEF tables, Moving

(***************************************************************************)
(* Every step preserves the inductive invariant.                           *)
(***************************************************************************)
Plain == ForwardNotify \/ StrayNotify \/ Top \/ InEvent \/ ExamineEnds \/ DropEnds
         \/ AgeEnds \/ SpuriousWakeup \/ Stop \/ ReleaseAll

LEMMA PlainKeeps ==
  ASSUME IndInv, Plain
  PROVE  IndInv'
<1> USE DEF EvalEvent!NotifyNew, EvalEvent!EventStep, EvalEvent!Test, EvalEvent!Block,
        EvalEvent!Clear, EvalEvent!LoadPending, EvalEvent!ResetPending,
        EvalEvent!SpuriousWakeup, Goto
<1>1. /\ UNCHANGED <<tables, lists, failures, crashes, raced>>
      /\ epc' = epc \/ epc' \notin Moving
  BY DEF Plain, ForwardNotify, StrayNotify, Top, InEvent, ExamineEnds, DropEnds, AgeEnds,
     SpuriousWakeup, Stop, ReleaseAll, Moving, bounds
<1>2. /\ epc' \in EvalEvent!InWait \cup EvalEvent!InPending \cup EvalEvent!Returned
                     \cup {"top", "loop", "select", "examine", "drop", "update",
                           "copy", "delete", "age", "done"}
      /\ arriving' \in BOOLEAN /\ items' \in BOOLEAN
      /\ life' \in {"running", "stopping", "notified"}
  BY DEF IndInv, TypeOK, Plain, ForwardNotify, StrayNotify, Top, InEvent, ExamineEnds,
     DropEnds, AgeEnds, SpuriousWakeup, Stop, ReleaseAll
<1>3. TypeOK'
  BY <1>1, <1>2 DEF IndInv, TypeOK, tables, lists
<1> QED BY <1>1, <1>3, Bystander

LEMMA NextInv == IndInv /\ [Next]_vars => IndInv'
<1> SUFFICES ASSUME IndInv, [Next]_vars PROVE IndInv'
  OBVIOUS
<1>1. CASE \E r \in Rows : InsertRow(r) BY <1>1, InsertKeeps
<1>2. CASE Plain BY <1>2, PlainKeeps
<1>3. CASE Select BY <1>3, SelectKeeps
<1>4. CASE Examine BY <1>4, ExamineKeeps
<1>5. CASE Drop BY <1>5, DropKeeps
<1>6. CASE Stamp BY <1>6, StampKeeps
<1>7. CASE Copy BY <1>7, CopyKeeps
<1>8. CASE Delete BY <1>8, DeleteKeeps
<1>9. CASE Age BY <1>9, AgeKeeps
<1>10. CASE SelectFails \/ BatchFails \/ Crash BY <1>10, MishapKeeps
<1>11. CASE UNCHANGED vars
  <2>1. UNCHANGED <<tables, lists, raced, epc>>
    BY <1>11 DEF vars, tables, lists
  <2>2. TypeOK'
    BY <1>11 DEF IndInv, TypeOK, vars
  <2> QED BY <2>1, <2>2, Bystander
<1> QED
  BY <1>1, <1>2, <1>3, <1>4, <1>5, <1>6, <1>7, <1>8, <1>9, <1>10, <1>11
     DEF Next, EvalStep, Plain, Terminated

-----------------------------------------------------------------------------
(***************************************************************************)
(* The inductive invariant holds in every reachable state.                 *)
(***************************************************************************)
THEOREM Invariance == Spec => []IndInv
BY InitInv, NextInv, PTL DEF Spec

(***************************************************************************)
(* Every variable keeps its type.                                          *)
(***************************************************************************)
THEOREM EvalTypes == Spec => []TypeOK
<1>1. IndInv => TypeOK
  BY DEF IndInv
<1> QED BY <1>1, Invariance, PTL

(***************************************************************************)
(* Statements that fail and deaths of the process lose no hit: one leaves  *)
(* T010_Eval for T040_Hist, for its age, or in the gap of a move.          *)
(***************************************************************************)
THEOREM EvalKeepsHits == Spec => []HitsAreKept
<1>1. IndInv => HitsAreKept
  BY DEF IndInv
<1> QED BY <1>1, Invariance, PTL

(***************************************************************************)
(* A row of T040_Hist leads to the drop of its own address, unless it came *)
(* in the other gap of a move.                                             *)
(***************************************************************************)
THEOREM HistLeadsToDrop == Spec => []HistIsTraceable
<1>1. IndInv => HistIsTraceable
  BY DEF IndInv
<1> QED BY <1>1, Invariance, PTL

(***************************************************************************)
(* No address is dropped for hits that all bear one second.                *)
(***************************************************************************)
THEOREM DropsNeedASpan == Spec => []DropsSpanSeconds
<1>1. IndInv => DropsSpanSeconds
  BY DEF IndInv
<1> QED BY <1>1, Invariance, PTL

-----------------------------------------------------------------------------
(***************************************************************************)
(* How often T040_Hist has a row.  A row that is still in T010_Eval, and   *)
(* is not about to be deleted, has been copied by moves that failed only.  *)
(***************************************************************************)
Copies(r) == {e \in hist : e[1] = r}
Mishaps   == failures + crashes

Waits(r) == /\ \E e \in eval : e[1] = r
            /\ ~(epc = "delete" /\ Dropping = r.ip)

OneInEval == \A e, o \in eval : e[1] = o[1] => e = o

CopiesAreTrue ==
    \A r \in inserted :
        Cardinality(Copies(r)) <= Mishaps + (IF Waits(r) THEN 0 ELSE 1)

CopiesInv == OneInEval /\ CopiesAreTrue

LEMMA CopiesFinite ==
  ASSUME TypeOK
  PROVE  \A r : IsFiniteSet(Copies(r)) /\ Cardinality(Copies(r)) \in Nat
<1>1. IsFiniteSet(Rows \X (0 .. Len(drops)))
  <2>1. Len(drops) \in Nat
    BY DEF TypeOK
  <2>2. IsFiniteSet(0 .. Len(drops))
    BY <2>1, FS_Interval
  <2> QED BY <2>2, EvalAssumption, FS_Product
<1>2. \A r : Copies(r) \subseteq Rows \X (0 .. Len(drops))
  BY DEF TypeOK, Copies
<1>3. \A r : IsFiniteSet(Copies(r))
  BY <1>1, <1>2, FS_Subset
<1> QED BY <1>3, FS_CardinalityType

LEMMA MishapsNat == ASSUME TypeOK PROVE Mishaps \in Nat
BY DEF TypeOK, Mishaps

\* T040_Hist is left alone, and no row begins to wait; after a mishap it may.
LEMMA SameCopies ==
  ASSUME TypeOK, TypeOK', CopiesAreTrue, UNCHANGED <<inserted, hist>>,
         \/ Mishaps' = Mishaps /\ \A r \in inserted : Waits(r)' => Waits(r)
         \/ Mishaps' = Mishaps + 1
  PROVE  CopiesAreTrue'
<1> SUFFICES ASSUME NEW r \in inserted
             PROVE  Cardinality(Copies(r)') <= Mishaps' + (IF Waits(r)' THEN 0 ELSE 1)
  BY DEF CopiesAreTrue
<1>1. Copies(r)' = Copies(r)
  BY DEF Copies
<1>2. Cardinality(Copies(r)) <= Mishaps + (IF Waits(r) THEN 0 ELSE 1)
  BY DEF CopiesAreTrue
<1>3. Cardinality(Copies(r)) \in Nat /\ Mishaps \in Nat
  BY CopiesFinite, MishapsNat
<1> QED BY <1>1, <1>2, <1>3

LEMMA CopiesInit == Init => CopiesInv
BY DEF Init, CopiesInv, OneInEval, CopiesAreTrue

(***************************************************************************)
(* Only the INSERT INTO T040_Hist adds copies, one for each row, and the   *)
(* rows it copies do not wait any more.                                    *)
(***************************************************************************)
LEMMA CopiesNext ==
  ASSUME IndInv, IndInv', CopiesInv, [Next]_vars
  PROVE  CopiesInv'
<1> USE DEF CopiesInv
<1>0. TypeOK /\ TypeOK'
  BY DEF IndInv
<1>1. CASE \E r \in Rows : InsertRow(r)
  <2>1. PICK q \in Rows : InsertRow(q)
    BY <1>1
  <2>2. /\ q \notin inserted /\ inserted' = inserted \cup {q}
        /\ eval' = eval \cup {<<q, 0>>}
        /\ UNCHANGED <<hist, drops, epc, failures, crashes>>
    BY <2>1 DEF InsertRow, bounds
  <2>3. \A e \in eval \cup hist : e[1] # q
    BY <2>2 DEF IndInv, RowsAreTrue
  <2>4. OneInEval'
    BY <2>2, <2>3 DEF OneInEval
  <2>5. Mishaps' = Mishaps /\ Dropping' = Dropping /\ \A r : Copies(r)' = Copies(r)
    BY <2>2 DEF Mishaps, Dropping, Copies
  <2>6. \A r \in inserted : Waits(r)' => Waits(r)
    <3> SUFFICES ASSUME NEW r \in inserted, Waits(r)' PROVE Waits(r)
      OBVIOUS
    <3>1. PICK e \in eval' : e[1] = r
      BY DEF Waits
    <3>2. e \in eval
      BY <2>2, <3>1
    <3> QED BY <2>2, <2>5, <3>1, <3>2 DEF Waits
  <2>7. Copies(q)' = {}
    BY <2>3, <2>5 DEF Copies
  <2>8. CopiesAreTrue'
    <3> SUFFICES ASSUME NEW r \in inserted'
                 PROVE  Cardinality(Copies(r)') <= Mishaps' + (IF Waits(r)' THEN 0 ELSE 1)
      BY DEF CopiesAreTrue
    <3>1. Cardinality(Copies(r)) \in Nat /\ Mishaps \in Nat
      BY <1>0, CopiesFinite, MishapsNat
    <3>2. CASE r = q
      BY <2>5, <2>7, <3>1, <3>2, FS_EmptySet
    <3>3. CASE r # q
      <4>1. r \in inserted
        BY <2>2, <3>3
      <4>2. Cardinality(Copies(r)) <= Mishaps + (IF Waits(r) THEN 0 ELSE 1)
        BY <4>1 DEF CopiesAreTrue
      <4> QED BY <2>5, <2>6, <3>1, <4>1, <4>2
    <3> QED BY <3>2, <3>3
  <2> QED BY <2>4, <2>8
<1>2. CASE Copy
  <2>1. /\ epc = "copy" /\ epc' = "delete"
        /\ hist' = hist \cup {e \in eval : e[1].ip = Dropping}
        /\ UNCHANGED <<inserted, eval, drops, failures, crashes>>
    BY <1>2 DEF Copy, Goto, bounds
  <2>2. OneInEval' /\ Mishaps' = Mishaps /\ Dropping' = Dropping
    BY <2>1 DEF OneInEval, Mishaps, Dropping
  <2>3. ASSUME NEW r \in inserted
        PROVE  Cardinality(Copies(r)') <= Mishaps' + (IF Waits(r)' THEN 0 ELSE 1)
    <3>1. /\ Cardinality(Copies(r)) \in Nat /\ Mishaps \in Nat /\ IsFiniteSet(Copies(r))
          /\ Cardinality(Copies(r)) <= Mishaps + (IF Waits(r) THEN 0 ELSE 1)
      BY <1>0, CopiesFinite, MishapsNat DEF CopiesAreTrue
    <3>2. CASE \E e \in eval : e[1] = r /\ r.ip = Dropping
      <4>1. PICK e \in eval : e[1] = r /\ r.ip = Dropping
        BY <3>2
      <4>2. Copies(r)' = Copies(r) \cup {e}
        BY <2>1, <4>1 DEF Copies, OneInEval
      <4>3. Cardinality(Copies(r)') <= Cardinality(Copies(r)) + 1
            /\ Cardinality(Copies(r)') \in Nat
        <5>1. CASE e \in Copies(r)
          <6>1. Copies(r)' = Copies(r)
            BY <4>2, <5>1
          <6> QED BY <3>1, <6>1
        <5>2. CASE e \notin Copies(r)
          <6>1. Cardinality(Copies(r) \cup {e}) = Cardinality(Copies(r)) + 1
            BY <3>1, <5>2, FS_AddElement
          <6> QED BY <3>1, <4>2, <6>1
        <5> QED BY <5>1, <5>2
      <4>4. Waits(r) /\ ~Waits(r)'
        BY <2>1, <2>2, <4>1 DEF Waits
      <4> QED BY <2>2, <3>1, <4>3, <4>4
    <3>3. CASE ~ \E e \in eval : e[1] = r /\ r.ip = Dropping
      <4>1. Copies(r)' = Copies(r)
        BY <2>1, <3>3 DEF Copies
      <4>2. Waits(r)' <=> Waits(r)
        BY <2>1, <2>2, <3>3 DEF Waits
      <4> QED BY <2>2, <3>1, <4>1, <4>2
    <3> QED BY <3>2, <3>3
  <2> QED BY <2>1, <2>2, <2>3 DEF CopiesAreTrue
<1>3. CASE Stamp
  <2>1. /\ epc = "update" /\ epc' = "copy"
        /\ eval' = {<<e[1], IF e[1].ip = Dropping THEN Len(drops) ELSE e[2]>> : e \in eval}
        /\ UNCHANGED <<inserted, hist, drops, failures, crashes>>
    BY <1>3 DEF Stamp, Goto, bounds
  <2>2. OneInEval'
    <3> SUFFICES ASSUME NEW e \in eval', NEW o \in eval', e[1] = o[1] PROVE e = o
      BY DEF OneInEval
    <3>1. PICK d \in eval : e = <<d[1], IF d[1].ip = Dropping THEN Len(drops) ELSE d[2]>>
      BY <2>1
    <3>2. PICK p \in eval : o = <<p[1], IF p[1].ip = Dropping THEN Len(drops) ELSE p[2]>>
      BY <2>1
    <3>3. d = p
      BY <3>1, <3>2 DEF OneInEval
    <3> QED BY <3>1, <3>2, <3>3
  <2>3. Mishaps' = Mishaps /\ \A r \in inserted : Waits(r)' => Waits(r)
    BY <2>1 DEF Mishaps, Waits
  <2> QED BY <1>0, <2>1, <2>2, <2>3, SameCopies
<1>4. CASE Delete \/ Age
  <2>1. /\ eval' \subseteq eval /\ UNCHANGED <<inserted, hist, drops, failures, crashes>>
        /\ epc' # "delete"
        /\ epc = "delete" => \A e \in eval' : e[1].ip # Dropping
    BY <1>4 DEF Delete, Age, Goto, bounds
  <2>2. OneInEval' /\ Mishaps' = Mishaps
    BY <2>1 DEF OneInEval, Mishaps
  <2>3. \A r \in inserted : Waits(r)' => Waits(r)
    BY <2>1 DEF Waits
  <2> QED BY <1>0, <2>1, <2>2, <2>3, SameCopies
<1>5. CASE SelectFails \/ BatchFails \/ Crash
  <2>1. UNCHANGED <<inserted, eval, hist, drops>> /\ Mishaps' = Mishaps + 1
    <3>1. failures \in Nat /\ crashes \in Nat
      BY <1>0 DEF TypeOK
    <3>2. CASE SelectFails BY <3>1, <3>2 DEF SelectFails, tables, Mishaps
    <3>3. CASE BatchFails BY <3>1, <3>3 DEF BatchFails, tables, Mishaps
    <3>4. CASE Crash BY <3>1, <3>4 DEF Crash, tables, Mishaps
    <3> QED BY <1>5, <3>2, <3>3, <3>4
  <2>2. OneInEval'
    BY <2>1 DEF OneInEval
  <2> QED BY <1>0, <2>1, <2>2, SameCopies
<1>6. CASE Plain \/ Select \/ Examine \/ Drop \/ UNCHANGED vars
  <2> USE DEF EvalEvent!NotifyNew, EvalEvent!EventStep, EvalEvent!Test, EvalEvent!Block,
          EvalEvent!Clear, EvalEvent!LoadPending, EvalEvent!ResetPending,
          EvalEvent!SpuriousWakeup, Goto, tables, lists, bounds
  <2>1. UNCHANGED <<inserted, eval, hist, failures, crashes>>
    BY <1>6 DEF Plain, ForwardNotify, StrayNotify, Top, InEvent, ExamineEnds, DropEnds, AgeEnds,
       SpuriousWakeup, Stop, ReleaseAll, Select, Examine, Drop, vars
  <2>2. epc = "delete" => epc' = "delete" /\ UNCHANGED drops
    BY <1>6 DEF Plain, ForwardNotify, StrayNotify, Top, InEvent, ExamineEnds, DropEnds, AgeEnds,
       SpuriousWakeup, Stop, ReleaseAll, Select, Examine, Drop, vars
  <2>3. OneInEval' /\ Mishaps' = Mishaps
    BY <2>1 DEF OneInEval, Mishaps
  <2>4. \A r \in inserted : Waits(r)' => Waits(r)
    BY <2>1, <2>2 DEF Waits, Dropping
  <2> QED BY <1>0, <2>1, <2>3, <2>4, SameCopies
<1> QED
  BY <1>1, <1>2, <1>3, <1>4, <1>5, <1>6 DEF Next, EvalStep, Plain, Terminated

(***************************************************************************)
(* A row has at most one copy in T040_Hist more than statements have       *)
(* failed and processes died; where nothing failed no row is in both       *)
(* tables, but between the INSERT and the DELETE of its move.              *)
(***************************************************************************)
THEOREM CopiesNeedMishaps == Spec => []CopiesByMishap
<1>1. IndInv /\ CopiesInv => CopiesByMishap
  <2> SUFFICES ASSUME IndInv, CopiesInv, NEW r \in inserted
               PROVE  /\ Cardinality({e \in hist : e[1] = r}) <= 1 + failures + crashes
                      /\ (failures + crashes = 0 /\ epc # "delete")
                            => (r \in {e[1] : e \in hist} => r \notin {e[1] : e \in eval})
    BY DEF CopiesByMishap
  <2>1. /\ IsFiniteSet(Copies(r)) /\ Cardinality(Copies(r)) \in Nat
        /\ failures \in Nat /\ crashes \in Nat
        /\ Cardinality(Copies(r)) <= failures + crashes + (IF Waits(r) THEN 0 ELSE 1)
    BY CopiesFinite DEF IndInv, TypeOK, CopiesInv, CopiesAreTrue, Mishaps
  <2>2. Cardinality({e \in hist : e[1] = r}) <= 1 + failures + crashes
    BY <2>1 DEF Copies
  <2>3. ASSUME failures + crashes = 0, epc # "delete", r \in {e[1] : e \in eval}
        PROVE  r \notin {e[1] : e \in hist}
    <3>1. Waits(r)
      BY <2>3 DEF Waits
    <3>2. Cardinality(Copies(r)) = 0
      BY <2>1, <2>3, <3>1
    <3>3. Copies(r) = {}
      BY <2>1, <3>2, FS_EmptySet
    <3> QED BY <3>3 DEF Copies
  <2> QED BY <2>2, <2>3
<1>2. Spec => []CopiesInv
  BY CopiesInit, CopiesNext, Invariance, PTL DEF Spec
<1> QED BY <1>1, <1>2, Invariance, PTL
=============================================================================
