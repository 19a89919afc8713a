---------------------------- MODULE Program_proofs ----------------------------
(***************************************************************************)
(* parseConfOf() accepts the sound files and no other, whatever their      *)
(* length; the threads are started for sound configurations only, exec()   *)
(* returns when all of them have ended, and the ways in which the end of   *)
(* the program hangs are the ones that Hangs names.                        *)
(***************************************************************************)
EXTENDS Program, FiniteSetTheorems, WellFoundedInduction, TLAPS

-----------------------------------------------------------------------------
(***************************************************************************)
(* A set of numbers has a least element: what stands in for induction.     *)
(***************************************************************************)
LEMMA LeastNat ==
  ASSUME NEW T \in SUBSET Nat, T # {}
  PROVE  \E n \in T : \A m \in T : n <= m
<1> DEFINE R == OpToRel(<, Nat)
<1>1. \A x, y \in Nat : x < y => <<x, y>> \in R
  BY DEF OpToRel
<1>2. IsWellFoundedOn(R, Nat)
  BY NatLessThanWellFounded
<1> HIDE DEF R
<1>3. PICK n \in T : \A m \in T : ~ (<<m, n>> \in R)
  BY <1>2, WFMin
<1>4. \A m \in T : ~(m < n)
  BY <1>1, <1>3
<1> QED BY <1>4

LEMMA Counting ==
  ASSUME NEW T, 0 \in T, \A k \in Nat : k \in T => k + 1 \in T
  PROVE  Nat \subseteq T
<1> DEFINE U == Nat \ T
<1> SUFFICES ASSUME U # {} PROVE FALSE
  OBVIOUS
<1>1. PICK n \in U : \A m \in U : n <= m
  BY LeastNat
<1>2. n # 0 /\ n - 1 \in Nat /\ n - 1 \notin U
  BY <1>1
<1>3. n - 1 \in T
  BY <1>2
<1> QED BY <1>1, <1>2, <1>3

-----------------------------------------------------------------------------
(* FoldLeft goes through the sets of positions, the greatest of them first. *)

IsFold(iter, lines, S) ==
    iter = [s \in SUBSET S |->
              IF s = {} THEN Empty ELSE ParseLine(iter[s \ {Max(s)}], lines[Max(s)])]

LEMMA FoldIsIter ==
  ASSUME NEW lines
  PROVE  FoldLeft(ParseLine, Empty, lines)
            = (CHOOSE iter : IsFold(iter, lines, DOMAIN lines))[DOMAIN lines]
BY DEF FoldLeft, MapThenFoldSet, IsFold

LEMMA MaxIsLast ==
  ASSUME NEW k \in Nat, NEW s \in SUBSET (1 .. (k + 1)), k + 1 \in s
  PROVE  Max(s) = k + 1
<1>1. \A y \in s : k + 1 >= y
  OBVIOUS
<1>2. \A x \in s : (\A y \in s : x >= y) => x = k + 1
  OBVIOUS
<1> QED BY <1>1, <1>2 DEF Max

LEMMA FoldExists ==
  ASSUME NEW lines, NEW n \in Nat
  PROVE  \E iter : IsFold(iter, lines, 1 .. n)
<1> DEFINE T == {k \in Nat : \E iter : IsFold(iter, lines, 1 .. k)}
<1>1. 0 \in T
  <2> DEFINE h == [s \in SUBSET {} |-> Empty]
  <2>1. \A s \in SUBSET {} : s = {}
    OBVIOUS
  <2>2. IsFold(h, lines, {})
    BY <2>1 DEF IsFold
  <2>3. 1 .. 0 = {}
    OBVIOUS
  <2> QED BY <2>2, <2>3
<1>2. ASSUME NEW k \in Nat, k \in T PROVE k + 1 \in T
  <2>1. PICK h : IsFold(h, lines, 1 .. k)
    BY <1>2
  <2> DEFINE K == SUBSET (1 .. (k + 1))
             g == [s \in K |-> IF k + 1 \in s THEN ParseLine(h[s \ {k + 1}], lines[k + 1])
                                              ELSE h[s]]
             rhs(s) == IF s = {} THEN Empty ELSE ParseLine(g[s \ {Max(s)}], lines[Max(s)])
  <2>2. ASSUME NEW s \in K PROVE g[s] = rhs(s)
    <3>1. CASE k + 1 \in s
      <4>1. Max(s) = k + 1 /\ s # {}
        BY <3>1, MaxIsLast
      <4>2. s \ {k + 1} \in K /\ k + 1 \notin s \ {k + 1}
        OBVIOUS
      <4>3. g[s \ {k + 1}] = h[s \ {k + 1}]
        BY <4>2
      <4>4. g[s] = ParseLine(h[s \ {k + 1}], lines[k + 1])
        BY <3>1
      <4>5. rhs(s) = ParseLine(g[s \ {k + 1}], lines[k + 1])
        <5> HIDE DEF g
        <5> QED BY <4>1
      <4> QED BY <4>3, <4>4, <4>5
    <3>2. CASE k + 1 \notin s
      <4>1. s \in SUBSET (1 .. k)
        BY <3>2
      <4>2. h[s] = IF s = {} THEN Empty ELSE ParseLine(h[s \ {Max(s)}], lines[Max(s)])
        BY <2>1, <4>1 DEF IsFold
      <4>3. s \ {Max(s)} \in K /\ k + 1 \notin s \ {Max(s)}
        BY <3>2
      <4>4. g[s \ {Max(s)}] = h[s \ {Max(s)}]
        BY <4>3
      <4>5. g[s] = h[s]
        BY <3>2
      <4> HIDE DEF g
      <4> QED BY <4>2, <4>4, <4>5
    <3> QED BY <3>1, <3>2
  <2>3. g = [s \in K |-> rhs(s)]
    <3>1. g = [s \in K |-> g[s]]
      OBVIOUS
    <3> HIDE DEF g, rhs
    <3> QED BY <2>2, <3>1
  <2>4. IsFold(g, lines, 1 .. (k + 1))
    <3> HIDE DEF g
    <3> QED BY <2>3 DEF IsFold
  <2> HIDE DEF g
  <2> QED BY <2>4
<1>3. Nat \subseteq T
  <2> HIDE DEF T
  <2> QED BY <1>1, <1>2, Counting
<1> QED BY <1>3

(***************************************************************************)
(* The fold of the lines is the loop of parseConfOf(): what it has after k *)
(* lines is ParseLine of what it had before and of line k.                 *)
(***************************************************************************)
LEMMA FoldIsLoop ==
  ASSUME NEW lines, NEW n \in Nat, DOMAIN lines = 1 .. n
  PROVE  \E acc : /\ acc[0] = Empty
                  /\ \A k \in 1 .. n : acc[k] = ParseLine(acc[k - 1], lines[k])
                  /\ FoldLeft(ParseLine, Empty, lines) = acc[n]
<1>1. PICK iter : /\ IsFold(iter, lines, 1 .. n)
                  /\ FoldLeft(ParseLine, Empty, lines) = iter[1 .. n]
  <2> DEFINE f == CHOOSE iter : IsFold(iter, lines, 1 .. n)
  <2>1. IsFold(f, lines, 1 .. n)
    BY FoldExists
  <2>2. FoldLeft(ParseLine, Empty, lines) = f[1 .. n]
    BY FoldIsIter
  <2> HIDE DEF f
  <2> QED BY <2>1, <2>2
<1> DEFINE acc == [k \in 0 .. n |-> iter[1 .. k]]
<1>2. acc[0] = Empty
  <2>1. 1 .. 0 = {} /\ {} \in SUBSET (1 .. n)
    OBVIOUS
  <2>2. iter[{}] = Empty
    BY <1>1, <2>1 DEF IsFold
  <2> QED BY <2>1, <2>2
<1>3. ASSUME NEW k \in 1 .. n PROVE acc[k] = ParseLine(acc[k - 1], lines[k])
  <2>1. k - 1 \in Nat /\ 1 .. k \in SUBSET (1 .. ((k - 1) + 1)) /\ (k - 1) + 1 \in 1 .. k
    OBVIOUS
  <2>2. Max(1 .. k) = k
    <3>1. Max(1 .. k) = (k - 1) + 1
      BY <2>1, MaxIsLast
    <3> QED BY <3>1
  <2>3. (1 .. k) \ {k} = 1 .. (k - 1) /\ 1 .. k # {} /\ 1 .. k \in SUBSET (1 .. n)
    OBVIOUS
  <2>4. iter[1 .. k] = ParseLine(iter[1 .. (k - 1)], lines[k])
    BY <1>1, <2>2, <2>3 DEF IsFold
  <2> QED BY <2>4
<1>4. acc[n] = FoldLeft(ParseLine, Empty, lines)
  BY <1>1
<1> HIDE DEF acc
<1> QED BY <1>2, <1>3, <1>4

-----------------------------------------------------------------------------
(* What parseConfOf() has after k lines.                                   *)

\* The first n lines of a file, as checkLine() tells them apart.
AreLines(lines, n) ==
    /\ n \in Nat /\ DOMAIN lines = 1 .. n
    /\ \A i \in 1 .. n :
          /\ lines[i].form \in {"blank", "comment", "item", "bad"}
          /\ lines[i].form = "item" => lines[i].key \in DateItems \cup {"digit"}

ItemsOf(lines, k, key) == {i \in 1 .. k : lines[i].form = "item" /\ lines[i].key = key}

NoneBad(lines, k)  == \A i \in 1 .. k : lines[i].form # "bad"
NoneTwice(lines, k) ==
    /\ \A key \in DateItems : \A i, j \in ItemsOf(lines, k, key) : i = j
    /\ \A i, j \in ItemsOf(lines, k, "digit") : lines[i].text = lines[j].text => i = j

Parsed(lines, k, acc) ==
    /\ acc = [dates |-> acc.dates, regexps |-> acc.regexps, good |-> acc.good]
    /\ acc.dates = {key \in DateItems : ItemsOf(lines, k, key) # {}}
    /\ acc.regexps = {lines[i].text : i \in ItemsOf(lines, k, "digit")}
    /\ acc.good \in BOOLEAN
    /\ acc.good <=> NoneBad(lines, k) /\ NoneTwice(lines, k)

LEMMA ParsedLine ==
  ASSUME NEW lines, NEW n, AreLines(lines, n), NEW k \in 1 .. n,
         NEW acc, Parsed(lines, k - 1, acc)
  PROVE  Parsed(lines, k, ParseLine(acc, lines[k]))
<1> DEFINE line == lines[k]
<1> SUFFICES ASSUME NEW new, new = ParseLine(acc, line) PROVE Parsed(lines, k, new)
  OBVIOUS
<1>0. /\ n \in Nat /\ k \in Nat /\ k - 1 \in Nat
      /\ 1 .. k = (1 .. (k - 1)) \cup {k} /\ k \notin 1 .. (k - 1)
      /\ line.form \in {"blank", "comment", "item", "bad"}
      /\ line.form = "item" => line.key \in DateItems \cup {"digit"}
  BY DEF AreLines
<1>1. \A key : ItemsOf(lines, k, key) =
                  IF line.form = "item" /\ line.key = key
                  THEN ItemsOf(lines, k - 1, key) \cup {k} ELSE ItemsOf(lines, k - 1, key)
  BY <1>0 DEF ItemsOf
<1>2. \A key : k \notin ItemsOf(lines, k - 1, key)
  BY <1>0 DEF ItemsOf
<1>3. NoneBad(lines, k) <=> NoneBad(lines, k - 1) /\ line.form # "bad"
  BY <1>0 DEF NoneBad
<1>4. NoneTwice(lines, k) => NoneTwice(lines, k - 1)
  BY <1>1 DEF NoneTwice
<1>5. CASE line.form \in {"blank", "comment"}
  <2>1. new = acc
    BY <1>5 DEF ParseLine, Ignored
  <2>2. \A key : ItemsOf(lines, k, key) = ItemsOf(lines, k - 1, key)
    BY <1>1, <1>5
  <2>3. NoneTwice(lines, k) <=> NoneTwice(lines, k - 1)
    BY <2>2 DEF NoneTwice
  <2>4. NoneBad(lines, k) <=> NoneBad(lines, k - 1)
    BY <1>3, <1>5
  <2> QED BY <2>1, <2>2, <2>3, <2>4 DEF Parsed
<1>6. CASE line.form = "bad"
  <2>1. new = [acc EXCEPT !.good = FALSE]
    BY <1>6 DEF ParseLine, Ignored
  <2>2. \A key : ItemsOf(lines, k, key) = ItemsOf(lines, k - 1, key)
    BY <1>1, <1>6
  <2>3. new = [dates |-> acc.dates, regexps |-> acc.regexps, good |-> FALSE]
    BY <2>1 DEF Parsed
  <2>4. ~NoneBad(lines, k)
    BY <1>3, <1>6
  <2> QED BY <2>2, <2>3, <2>4 DEF Parsed
<1>7. CASE line.form = "item" /\ line.key = "digit"
  <2>0. "digit" \notin DateItems
    BY DEF DateItems
  <2>1. new = IF line.text \in acc.regexps THEN [acc EXCEPT !.good = FALSE]
              ELSE [acc EXCEPT !.regexps = @ \cup {line.text}]
    BY <1>7 DEF ParseLine, Ignored
  <2>2. /\ ItemsOf(lines, k, "digit") = ItemsOf(lines, k - 1, "digit") \cup {k}
        /\ \A key \in DateItems : ItemsOf(lines, k, key) = ItemsOf(lines, k - 1, key)
    BY <1>1, <1>7, <2>0
  <2>3. line.text \in acc.regexps
           <=> \E i \in ItemsOf(lines, k - 1, "digit") : lines[i].text = line.text
    BY DEF Parsed
  <2>4. {lines[i].text : i \in ItemsOf(lines, k, "digit")} = acc.regexps \cup {line.text}
    BY <2>2 DEF Parsed
  <2>5. NoneBad(lines, k) <=> NoneBad(lines, k - 1)
    BY <1>3, <1>7
  <2>6. CASE line.text \in acc.regexps
    <3>1. new = [dates |-> acc.dates, regexps |-> acc.regexps, good |-> FALSE]
      BY <2>1, <2>6 DEF Parsed
    <3>2. ~NoneTwice(lines, k)
      BY <1>2, <2>2, <2>3, <2>6 DEF NoneTwice
    <3>3. acc.regexps = {lines[i].text : i \in ItemsOf(lines, k, "digit")}
      BY <2>4, <2>6
    <3>4. acc.dates = {key \in DateItems : ItemsOf(lines, k, key) # {}}
      BY <2>2 DEF Parsed
    <3> QED BY <3>1, <3>2, <3>3, <3>4 DEF Parsed
  <2>7. CASE line.text \notin acc.regexps
    <3>1. new = [dates |-> acc.dates, regexps |-> acc.regexps \cup {line.text},
                 good |-> acc.good]
      BY <2>1, <2>7 DEF Parsed
    <3>2. NoneTwice(lines, k - 1) => NoneTwice(lines, k)
      BY <2>2, <2>3, <2>7 DEF NoneTwice
    <3> QED BY <1>4, <2>2, <2>4, <2>5, <3>1, <3>2 DEF Parsed
  <2> QED BY <2>6, <2>7
<1>8. CASE line.form = "item" /\ line.key \in DateItems
  <2>0. "digit" \notin DateItems
    BY DEF DateItems
  <2>1. new = IF line.key \in acc.dates THEN [acc EXCEPT !.good = FALSE]
              ELSE [acc EXCEPT !.dates = @ \cup {line.key}]
    BY <1>8, <2>0 DEF ParseLine, Ignored
  <2>2. /\ ItemsOf(lines, k, line.key) = ItemsOf(lines, k - 1, line.key) \cup {k}
        /\ ItemsOf(lines, k, "digit") = ItemsOf(lines, k - 1, "digit")
        /\ \A key \in DateItems \ {line.key} :
              ItemsOf(lines, k, key) = ItemsOf(lines, k - 1, key)
    BY <1>1, <1>8, <2>0
  <2>3. line.key \in acc.dates <=> ItemsOf(lines, k - 1, line.key) # {}
    BY <1>8 DEF Parsed
  <2>4. {key \in DateItems : ItemsOf(lines, k, key) # {}} = acc.dates \cup {line.key}
    BY <1>8, <2>2 DEF Parsed
  <2>5. NoneBad(lines, k) <=> NoneBad(lines, k - 1)
    BY <1>3, <1>8
  <2>6. CASE line.key \in acc.dates
    <3>1. new = [dates |-> acc.dates, regexps |-> acc.regexps, good |-> FALSE]
      BY <2>1, <2>6 DEF Parsed
    <3>2. ~NoneTwice(lines, k)
      BY <1>2, <1>8, <2>2, <2>3, <2>6 DEF NoneTwice
    <3>3. acc.dates \cup {line.key} = acc.dates
      BY <2>6
    <3> QED BY <2>2, <2>4, <3>1, <3>2, <3>3 DEF Parsed
  <2>7. CASE line.key \notin acc.dates
    <3>1. new = [dates |-> acc.dates \cup {line.key}, regexps |-> acc.regexps,
                 good |-> acc.good]
      BY <2>1, <2>7 DEF Parsed
    <3>2. NoneTwice(lines, k - 1) => NoneTwice(lines, k)
      BY <2>2, <2>3, <2>7 DEF NoneTwice
    <3> QED BY <1>4, <2>2, <2>4, <2>5, <3>1, <3>2 DEF Parsed
  <2> QED BY <2>6, <2>7
<1> QED BY <1>0, <1>5, <1>6, <1>7, <1>8

LEMMA ParsedAll ==
  ASSUME NEW lines, NEW n, AreLines(lines, n)
  PROVE  Parsed(lines, n, FoldLeft(ParseLine, Empty, lines))
<1>1. n \in Nat /\ DOMAIN lines = 1 .. n
  BY DEF AreLines
<1>2. PICK acc : /\ acc[0] = Empty
                 /\ \A k \in 1 .. n : acc[k] = ParseLine(acc[k - 1], lines[k])
                 /\ FoldLeft(ParseLine, Empty, lines) = acc[n]
  BY <1>1, FoldIsLoop
<1> DEFINE T == {k \in Nat : k <= n => Parsed(lines, k, acc[k])}
<1>3. 0 \in T
  <2>1. \A key : ItemsOf(lines, 0, key) = {}
    BY DEF ItemsOf
  <2>2. NoneBad(lines, 0) /\ NoneTwice(lines, 0)
    BY <2>1 DEF NoneBad, NoneTwice
  <2>3. Parsed(lines, 0, Empty)
    BY <2>1, <2>2 DEF Parsed, Empty
  <2> QED BY <1>2, <2>3
<1>4. ASSUME NEW k \in Nat, k \in T PROVE k + 1 \in T
  <2> SUFFICES ASSUME k + 1 <= n PROVE Parsed(lines, k + 1, acc[k + 1])
    OBVIOUS
  <2>1. Parsed(lines, (k + 1) - 1, acc[k]) /\ k + 1 \in 1 .. n
    BY <1>1, <1>4
  <2>2. acc[k + 1] = ParseLine(acc[k], lines[k + 1])
    BY <1>2, <2>1
  <2> QED BY <2>1, <2>2, ParsedLine
<1>5. n \in T
  <2> HIDE DEF T
  <2> QED BY <1>1, <1>3, <1>4, Counting
<1> QED BY <1>1, <1>2, <1>5

THEOREM ParseIsSound ==
  ASSUME NEW file, NEW n, AreLines(file.lines, n)
  PROVE  parseConfOf(file) <=> file.opens /\ SoundFile(file) /\ Healthy(file.log)
<1> DEFINE lines == file.lines
<1> SUFFICES ASSUME NEW res, res = FoldLeft(ParseLine, Empty, lines)
             PROVE  (res.good /\ Cardinality(res.dates) = 3 /\ res.regexps # {})
                        <=> SoundFile(file)
  BY DEF parseConfOf
<1>1. Parsed(lines, n, res)
  BY ParsedAll
<1>2. DOMAIN lines = 1 .. n /\ n \in Nat
  BY DEF AreLines
<1>3. \A key : Lines(file, key) = ItemsOf(lines, n, key)
  BY <1>2 DEF Lines, ItemsOf
<1>4. (\A i \in DOMAIN lines : lines[i].form # "bad") <=> NoneBad(lines, n)
  BY <1>2 DEF NoneBad
<1>5. Cardinality(res.dates) = 3 <=> \A key \in DateItems : Lines(file, key) # {}
  <2>1. Cardinality(DateItems) = 3 /\ IsFiniteSet(DateItems)
    <3>1. IsFiniteSet({"R"}) /\ Cardinality({"R"}) = 1
      BY FS_Singleton
    <3>2. IsFiniteSet({"R", "M"}) /\ Cardinality({"R", "M"}) = 2
      <4>1. {"R", "M"} = {"R"} \cup {"M"} /\ "M" \notin {"R"}
        OBVIOUS
      <4> QED BY <3>1, <4>1, FS_AddElement
    <3>3. DateItems = {"R", "M"} \cup {"F"} /\ "F" \notin {"R", "M"}
      BY DEF DateItems
    <3> QED BY <3>2, <3>3, FS_AddElement
  <2>2. res.dates \subseteq DateItems
    BY <1>1 DEF Parsed
  <2>3. Cardinality(res.dates) = 3 <=> res.dates = DateItems
    BY <2>1, <2>2, FS_Subset
  <2> QED BY <1>1, <1>3, <2>3 DEF Parsed
<1>6. res.regexps # {} <=> Lines(file, "digit") # {}
  BY <1>1, <1>3 DEF Parsed
<1>7. \A key \in DateItems : Cardinality(Lines(file, key)) = 1
         <=> Lines(file, key) # {} /\ \A i, j \in Lines(file, key) : i = j
  <2> SUFFICES ASSUME NEW key \in DateItems, NEW S, S = Lines(file, key)
               PROVE  Cardinality(S) = 1 <=> S # {} /\ \A i, j \in S : i = j
    OBVIOUS
  <2>1. IsFiniteSet(S)
    <3>1. S \subseteq 1 .. n
      BY <1>2 DEF Lines
    <3> QED BY <1>2, <3>1, FS_Interval, FS_Subset
  <2>2. Cardinality(S) = 1 <=> \E i : S = {i}
    BY <2>1, FS_Singleton
  <2> QED BY <2>2
<1>8. res.good <=> NoneBad(lines, n) /\ NoneTwice(lines, n)
  BY <1>1 DEF Parsed
<1> QED BY <1>3, <1>4, <1>5, <1>6, <1>7, <1>8 DEF SoundFile, NoneTwice

(***************************************************************************)
(* A configuration that LogScanner() does not refuse is sound.             *)
(***************************************************************************)
THEOREM UploadIsSound ==
  ASSUME NEW conf \in Configs, Upload(conf) = "INVALID"
  PROVE  SoundConf(conf)
<1>1. uploadConfiguration(conf.tree)
  BY DEF Upload
<1>2. conf.tree.exists /\ conf.tree.files # {}
  BY <1>1 DEF uploadConfiguration, readDirectoryTree
<1>3. ASSUME NEW file \in conf.tree.files PROVE SoundFile(file) /\ SoundLog(file.log)
  <2>1. parseConfOf(file) /\ file.log.readable
    BY <1>1 DEF uploadConfiguration, loadAndParseConfFiles
  <2>2. AreLines(file.lines, Len(file.lines))
    <3>1. /\ file.lines \in Seq(Range(file.lines))
          /\ \A line \in Range(file.lines) :
                /\ line.form \in {"blank", "comment", "item", "bad"}
                /\ line.form = "item" => line.key \in DateItems \cup {"digit"}
      BY ProgramAssumption
    <3>2. Len(file.lines) \in Nat /\ DOMAIN file.lines = 1 .. Len(file.lines)
      BY <3>1
    <3>3. \A i \in DOMAIN file.lines : file.lines[i] \in Range(file.lines)
      BY DEF Range
    <3> QED BY <3>1, <3>2, <3>3 DEF AreLines
  <2>3. SoundFile(file) /\ Healthy(file.log)
    BY <2>1, <2>2, ParseIsSound
  <2> QED BY <2>1, <2>3 DEF Healthy, LumpContainer, SoundLog
<1> QED BY <1>2, <1>3 DEF SoundConf

-----------------------------------------------------------------------------
(* The threads.                                                            *)

Early == {"upload", "initDB", "initComm", "refused", "exec"}

\* Judged once, and then forgotten unless it was judged wrongly.
ConfigJudged ==
    IF xpc = "upload" THEN state = "INVALID" /\ config \in Configs
                      ELSE config = NoConfig \/ SoundConf(config)

\* exec() has started all threads or none.
Places ==
    /\ wpc \in {"top", "test", "block", "asleep", "clear", "awake", "done"}
    /\ IF xpc \in Early THEN flag = "none" /\ rpc = "none" /\ cpc = "none"
                        ELSE flag # "none" /\ rpc # "none" /\ cpc # "none"
    /\ flag = "none" => ipc = "start" /\ wpc = "top"
    /\ hpc = "none" => victim = NoThread

\* Whoever registers when intfThread has ended stays registered for ever.
Monitored ==
    /\ rpc = "wait" <=> mpc["tail"] # "out"
    /\ ipc = "ended" => targets \subseteq late

\* The last one: a signal that comes before there is a flag to remove stops
\* intfThread before its first read().
ToldIsTrue ==
    /\ told # "no" /\ hpc # "stuck" => ~keepLooping
    /\ xpc \notin Early \ {"exec"} /\ ~keepLooping => told # "no"
    /\ told = "signal" /\ hpc = "none" /\ flag = "present" => ipc \notin {"read", "handle"}

\* Whoever was joined has ended, for good.
Joined ==
    /\ rpc = "ended" => ~keepLooping
    /\ xpc \in {"joinIntf", "notify", "joinTables", "kill", "joinComm", "returned"}
          => rpc = "ended"
    /\ xpc \in {"notify", "joinTables", "kill", "joinComm", "returned"} => ipc = "ended"
    /\ xpc = "joinTables" => items \/ wpc \in {"awake", "top", "done"}
    /\ xpc \in {"kill", "joinComm", "returned"} => wpc = "done"
    /\ xpc = "returned" => cpc = "ended"

IndInv == TypeOK /\ ConfigJudged /\ Places /\ Monitored /\ ToldIsTrue /\ Joined

USE DEF Early, Threads, ReaderPlaces, CommPlaces

LEMMA InitInv == Init => IndInv
<1> SUFFICES ASSUME Init PROVE IndInv
  OBVIOUS
<1>1. TypeOK
  BY DEF Init, TypeOK, Monitors!MonitorsInit, Monitors!MonitorsTypeOK, Monitors!Outcomes,
     Monitors!OwnerPlaces, Monitors!IntfPlaces
<1>2. Monitored
  BY DEF Init, Monitored, Monitors!MonitorsInit, Owners
<1> QED BY <1>1, <1>2 DEF Init, IndInv, ConfigJudged, Places, ToldIsTrue, Joined,
           Monitors!MonitorsInit

\* Steps that leave the monitors alone.
LEMMA MonitorsSame ==
  ASSUME IndInv, UNCHANGED <<targets, outcome, mpc, notifying, late>>,
         ipc' \in Monitors!IntfPlaces, ipc' = "ended" => ipc = "ended",
         rpc' = "wait" <=> rpc = "wait"
  PROVE  Monitors!MonitorsTypeOK' /\ Monitored'
BY DEF IndInv, TypeOK, Monitored, Monitors!MonitorsTypeOK

LEMMA SignalKeeps == ASSUME IndInv, NEW t \in Threads, Signal(t) PROVE IndInv'
<1> USE DEF inotify, event, start
<1>1. Monitors!MonitorsTypeOK' /\ Monitored'
  BY MonitorsSame DEF Signal, IndInv, TypeOK, Monitors!MonitorsTypeOK
<1>2. TypeOK'
  <2>1. /\ UNCHANGED <<state, xpc, flag, rpc, unread, items, cpc>>
        /\ victim' \in Threads /\ told' = "signal" /\ hpc' \in {"remove", "stuck"}
    BY DEF Signal
  <2>2. keepLooping' \in BOOLEAN
    BY DEF Signal, IndInv, TypeOK
  <2> QED BY <1>1, <2>1, <2>2 DEF IndInv, TypeOK
<1>3. ConfigJudged' /\ Places'
  BY DEF Signal, IndInv, ConfigJudged, Places, SoundConf
<1>4. ToldIsTrue' /\ Joined'
  BY DEF Signal, IndInv, ToldIsTrue, Joined
<1> QED BY <1>1, <1>2, <1>3, <1>4 DEF IndInv

LEMMA HandlerKeeps == ASSUME IndInv, HandlerRemovesFlag PROVE IndInv'
<1> USE DEF start, event, HandlerRemovesFlag, HandlerReturns, Interrupted, Monitors!ReadInterrupted
<1>1. Monitors!MonitorsTypeOK' /\ Monitored'
  <2>1. /\ UNCHANGED <<targets, outcome, mpc, notifying, late, rpc>>
        /\ ipc' = ipc \/ (ipc = "read" /\ ipc' = "test")
    OBVIOUS
  <2> QED BY <2>1, MonitorsSame DEF IndInv, TypeOK, Monitors!MonitorsTypeOK, Monitors!IntfPlaces
<1>2. TypeOK'
  BY <1>1 DEF IndInv, TypeOK, Monitors!Event
<1>3. ConfigJudged' /\ Places'
  BY DEF IndInv, ConfigJudged, Places, Monitors!Event
<1>4. ToldIsTrue' /\ Joined'
  BY DEF IndInv, TypeOK, ToldIsTrue, Joined, Monitors!Event
<1> QED BY <1>1, <1>2, <1>3, <1>4 DEF IndInv

LEMMA ExecKeeps == ASSUME IndInv, ExecStep PROVE IndInv'
<1> USE DEF inotify, event, start, handler, Exec
<1>1. /\ UNCHANGED <<targets, outcome, mpc, notifying, late, ipc, queue, buffer>>
      /\ rpc' = "wait" <=> rpc = "wait"
  BY DEF IndInv, Places, ExecStep, UploadConfig, InitDB, InitComm, StartThreads, LoadDroppedIPs,
     JoinInpt, JoinIntf, NotifyAll, JoinTables, KillComm, JoinComm, ExecMoves
<1>2. Monitors!MonitorsTypeOK' /\ Monitored'
  BY <1>1, MonitorsSame DEF IndInv, TypeOK, Monitors!MonitorsTypeOK
<1>3. CASE UploadConfig
  <2>1. Upload(config) \in {"INVALID", "error"}
    BY DEF Upload
  <2>2. ConfigJudged'
    BY <1>3, UploadIsSound DEF IndInv, ConfigJudged, UploadConfig
  <2> QED BY <1>2, <1>3, <2>1, <2>2
          DEF UploadConfig, IndInv, TypeOK, Places, ToldIsTrue, Joined
<1>4. CASE InitDB
  BY <1>2, <1>4 DEF InitDB, IndInv, TypeOK, ConfigJudged, Places, ToldIsTrue, Joined
<1>5. CASE InitComm
  <2>1. /\ UNCHANGED <<config, flag, ipc, rpc, unread, items, wpc, cpc, hpc, victim>>
        /\ xpc = "initComm"
        /\ \/ xpc' = "exec" /\ state' = "HEALTHY" /\ keepLooping' = TRUE /\ told' = "no"
           \/ xpc' = "refused" /\ UNCHANGED <<state, keepLooping, told>>
    BY <1>5 DEF InitComm
  <2>2. TypeOK'
    <3>1. /\ state' \in {"INVALID", "error", "HEALTHY"} /\ keepLooping' \in BOOLEAN
          /\ xpc' \in {"exec", "refused"} /\ told' \in {"no", "signal", "message"}
      BY <2>1 DEF IndInv, TypeOK
    <3>2. /\ flag' \in {"none", "present", "removed"}
          /\ rpc' \in ReaderPlaces
          /\ cpc' \in CommPlaces
          /\ hpc' \in {"none", "remove", "stuck"} /\ victim' \in Threads \cup {NoThread}
      BY <2>1 DEF IndInv, TypeOK
    <3>3. unread' \in BOOLEAN /\ items' \in BOOLEAN
      BY <2>1 DEF IndInv, TypeOK
    <3> QED BY <1>2, <3>1, <3>2, <3>3 DEF TypeOK
  <2>3. ConfigJudged' /\ Places'
    BY <2>1 DEF IndInv, ConfigJudged, Places
  <2>4. ToldIsTrue' /\ Joined'
    BY <2>1 DEF IndInv, Places, ToldIsTrue, Joined
  <2> QED BY <1>2, <2>2, <2>3, <2>4 DEF IndInv
<1>6. CASE StartThreads
  BY <1>2, <1>6 DEF StartThreads, IndInv, TypeOK, ConfigJudged, Places, ToldIsTrue, Joined
<1>7. CASE LoadDroppedIPs \/ JoinInpt \/ JoinIntf \/ JoinTables \/ JoinComm
  BY <1>2, <1>7 DEF LoadDroppedIPs, JoinInpt, JoinIntf, JoinTables, JoinComm, ExecMoves,
     IndInv, TypeOK, ConfigJudged, Places, ToldIsTrue, Joined
<1>8. CASE NotifyAll
  BY <1>2, <1>8 DEF NotifyAll, Tables!NotifyNew, IndInv, TypeOK, ConfigJudged, Places,
     ToldIsTrue, Joined
<1>9. CASE KillComm
  BY <1>2, <1>9 DEF KillComm, Interrupted, IndInv, TypeOK, ConfigJudged, Places, ToldIsTrue, Joined
<1> QED BY <1>3, <1>4, <1>5, <1>6, <1>7, <1>8, <1>9 DEF ExecStep

LEMMA CommKeeps == ASSUME IndInv, CommTest \/ CommBlocks \/ Connect \/ CommRecv PROVE IndInv'
<1> USE DEF inotify, event, start, handler, Comm, CommTest, CommBlocks, Connect, CommRecv
<1>1. Monitors!MonitorsTypeOK' /\ Monitored'
  BY MonitorsSame DEF IndInv, TypeOK, Monitors!MonitorsTypeOK
<1>2. TypeOK'
  <2>1. UNCHANGED <<state, xpc, flag, rpc, unread, items, hpc, victim>>
    OBVIOUS
  <2>2. /\ cpc' \in CommPlaces \ {"none"} /\ keepLooping' \in BOOLEAN
        /\ told' \in {"no", "signal", "message"}
    BY DEF IndInv, TypeOK
  <2> QED BY <1>1, <2>1, <2>2 DEF IndInv, TypeOK
<1> QED BY <1>1, <1>2 DEF IndInv, ConfigJudged, Places, ToldIsTrue, Joined

LEMMA TableKeeps == ASSUME IndInv, TableLoop PROVE IndInv'
<1> USE DEF inotify, start, handler, TableLoop, Tables!Test, Tables!Block, Tables!Clear
<1>1. Monitors!MonitorsTypeOK' /\ Monitored'
  BY MonitorsSame DEF IndInv, TypeOK, Monitors!MonitorsTypeOK
<1>2. UNCHANGED <<config, state, xpc, keepLooping, flag, ipc, rpc, unread, cpc, hpc,
                  victim, told>>
  OBVIOUS
<1>3. items' \in BOOLEAN /\ unread' \in BOOLEAN /\ keepLooping' \in BOOLEAN
  BY DEF IndInv, TypeOK
<1>4. TypeOK'
  <2>1. /\ state' \in {"INVALID", "error", "HEALTHY"}
        /\ flag' \in {"none", "present", "removed"} /\ told' \in {"no", "signal", "message"}
        /\ rpc' \in ReaderPlaces
        /\ cpc' \in CommPlaces
        /\ hpc' \in {"none", "remove", "stuck"} /\ victim' \in Threads \cup {NoThread}
    BY <1>2 DEF IndInv, TypeOK
  <2> QED BY <1>1, <1>2, <1>3, <2>1 DEF IndInv, TypeOK
<1>5. ConfigJudged' /\ ToldIsTrue'
  <2>1. ConfigJudged'
    BY <1>2 DEF IndInv, ConfigJudged
  <2>2. ToldIsTrue'
    BY <1>2 DEF IndInv, ToldIsTrue
  <2> QED BY <2>1, <2>2
<1>6. Places' /\ Joined'
  BY DEF IndInv, Places, Joined, ToldIsTrue
<1> QED BY <1>1, <1>4, <1>5, <1>6 DEF IndInv
\* Steps of intfThread, of the reading thread and of those who add lines.
LEMMA MonitorsKeep ==
  ASSUME IndInv,
         UNCHANGED <<config, state, xpc, keepLooping, flag, items, wpc, cpc, hpc,
                     victim, told>>,
         Monitors!MonitorsTypeOK', Monitored',
         rpc' \in ReaderPlaces, unread' \in BOOLEAN,
         rpc' = "none" <=> rpc = "none", rpc = "ended" => rpc' = "ended",
         rpc' = "ended" => ~keepLooping,
         flag = "none" => ipc' = ipc, ipc = "ended" => ipc' = "ended",
         ipc' \in {"read", "handle"} => ipc \in {"read", "handle"} \/ keepLooping
  PROVE  IndInv'
<1>1. TypeOK'
  <2>1. /\ state' \in {"INVALID", "error", "HEALTHY"}
        /\ flag' \in {"none", "present", "removed"} /\ told' \in {"no", "signal", "message"}
        /\ cpc' \in CommPlaces
        /\ hpc' \in {"none", "remove", "stuck"} /\ victim' \in Threads \cup {NoThread}
    BY DEF IndInv, TypeOK
  <2>2. items' \in BOOLEAN /\ keepLooping' \in BOOLEAN
    BY DEF IndInv, TypeOK
  <2> QED BY <2>1, <2>2 DEF IndInv, TypeOK
<1>2. ConfigJudged'
  BY DEF IndInv, ConfigJudged
<1>3. Places'
  BY DEF IndInv, Places
<1>4. ToldIsTrue'
  BY DEF IndInv, ToldIsTrue
<1>5. Joined'
  BY DEF IndInv, Joined
<1> QED BY <1>1, <1>2, <1>3, <1>4, <1>5 DEF IndInv

LEMMA IntfKeeps == ASSUME IndInv, IntfThread PROVE IndInv'
<1> USE DEF Monitors!At, Monitors!owners, Monitors!reader, Monitors!SetOutcome, Monitors!NoneFor
<1>1. UNCHANGED <<config, state, xpc, keepLooping, flag, items, wpc, cpc, hpc, victim,
                  told, rpc, unread>> /\ flag # "none"
  BY DEF IntfThread, start, event, handler
<1>2. IndInv /\ Monitors!MonitorsTypeOK /\ Monitored
  BY DEF IndInv, TypeOK
<1>3. /\ Monitors!MonitorsTypeOK' /\ Monitored'
      /\ ipc = "ended" => ipc' = "ended"
      /\ ipc' \in {"read", "handle"} => ipc \in {"read", "handle"} \/ keepLooping
  <2>1. CASE Monitors!AddWatches \/ Monitors!TestLoop \/ Monitors!Read \/ Monitors!Handled
             \/ Monitors!CloseWatches
    <3>1. /\ UNCHANGED <<targets, outcome, mpc, notifying, late>>
          /\ ipc' \in Monitors!IntfPlaces \ {"ended"} /\ ipc # "ended"
          /\ ipc' \in {"read", "handle"} => ipc \in {"read", "handle"} \/ keepLooping
      BY <2>1 DEF Monitors!AddWatches, Monitors!TestLoop, Monitors!Read, Monitors!Handled,
         Monitors!CloseWatches, Monitors!IntfPlaces
    <3> QED BY <1>1, <3>1, MonitorsSame
  <2>2. CASE Monitors!Handle \/ Monitors!FreeUp
    <3>1. PICK o \in targets, value \in {"true", "false"} : Monitors!SetOutcome(o, value)
      BY <2>2 DEF Monitors!Handle, Monitors!FreeUp
    <3>2. UNCHANGED ipc /\ ipc # "ended"
      BY <2>2 DEF Monitors!Handle, Monitors!FreeUp
    <3>3. Monitors!MonitorsTypeOK'
      BY <1>2, <3>1, <3>2 DEF Monitors!MonitorsTypeOK, Monitors!Outcomes
    <3>4. Monitored'
      BY <1>1, <1>2, <3>1, <3>2 DEF Monitored
    <3> QED BY <3>2, <3>3, <3>4
  <2>3. CASE Monitors!IntfEnds
    <3>1. Monitors!MonitorsTypeOK'
      BY <1>2, <2>3 DEF Monitors!IntfEnds, Monitors!MonitorsTypeOK, Monitors!IntfPlaces
    <3>2. Monitored'
      BY <1>1, <1>2, <2>3 DEF Monitors!IntfEnds, Monitored
    <3> QED BY <2>3, <3>1, <3>2 DEF Monitors!IntfEnds
  <2>4. CASE Monitors!NotifyOwner
    <3>1. UNCHANGED <<targets, outcome, late, ipc>> /\ notifying' = NoOwner /\ notifying \in Owners
      BY <1>2, <2>4 DEF Monitors!NotifyOwner, Monitors!MonitorsTypeOK
    <3>2. /\ mpc' \in [Owners -> Monitors!OwnerPlaces]
          /\ \A o \in Owners : mpc'[o] = mpc[o] \/ (mpc[o] = "asleep" /\ mpc'[o] = "test")
      BY <1>2, <2>4, <3>1 DEF Monitors!NotifyOwner, Monitors!MonitorsTypeOK, Monitors!OwnerPlaces
    <3>3. Monitors!MonitorsTypeOK'
      <4>1. \A o \in Owners : mpc'[o] \in {"test", "block", "asleep"}
                                <=> mpc[o] \in {"test", "block", "asleep"}
        BY <3>2
      <4> QED BY <1>2, <3>1, <3>2, <4>1 DEF Monitors!MonitorsTypeOK
    <3>4. Monitored'
      BY <1>1, <1>2, <3>1, <3>2 DEF Monitored, Owners
    <3> QED BY <3>1, <3>3, <3>4
  <2> QED BY <2>1, <2>2, <2>3, <2>4 DEF IntfThread, Monitors!IntfStep
<1>4. /\ rpc' \in ReaderPlaces /\ unread' \in BOOLEAN
      /\ rpc' = "ended" => ~keepLooping
  BY <1>1, <1>2 DEF IndInv, TypeOK, Joined
<1> QED BY <1>1, <1>2, <1>3, <1>4, MonitorsKeep

LEMMA OwnerKeeps ==
  ASSUME IndInv, MonitorStep("tail") \/ SpuriousMonitor("tail")
  PROVE  IndInv'
<1> USE DEF Monitors!Place, Monitors!reader, Owners
<1>1. UNCHANGED <<config, state, xpc, keepLooping, flag, items, wpc, cpc, hpc, victim,
                  told, rpc, unread>>
  BY DEF MonitorStep, SpuriousMonitor, start, event, handler
<1>2. IndInv /\ Monitors!MonitorsTypeOK /\ Monitored
  BY DEF IndInv, TypeOK
<1>3. Monitors!MonitorsTypeOK' /\ Monitored' /\ UNCHANGED ipc
  <2>1. CASE Monitors!Register("tail")
    BY <1>1, <1>2, <2>1 DEF Monitors!Register, Monitors!MonitorsTypeOK, Monitors!Outcomes,
       Monitors!OwnerPlaces, Monitored
  <2>2. CASE Monitors!TestOutcome("tail")
    BY <1>1, <1>2, <2>2 DEF Monitors!TestOutcome, Monitors!MonitorsTypeOK,
       Monitors!OwnerPlaces, Monitored
  <2>3. CASE Monitors!Block("tail") \/ Monitors!SpuriousWakeup("tail")
    BY <1>1, <1>2, <2>3 DEF Monitors!Block, Monitors!SpuriousWakeup, Monitors!MonitorsTypeOK,
       Monitors!OwnerPlaces, Monitored
  <2> QED BY <2>1, <2>2, <2>3 DEF MonitorStep, SpuriousMonitor, Monitors!OwnerStep
<1>4. /\ rpc' \in ReaderPlaces /\ unread' \in BOOLEAN
      /\ rpc' = "ended" => ~keepLooping
  BY <1>1, <1>2 DEF IndInv, TypeOK, Joined
<1> QED BY <1>1, <1>2, <1>3, <1>4, MonitorsKeep

LEMMA ReaderKeeps ==
  ASSUME IndInv,
         InitReadLog \/ ReadLog \/ SpuriousReader \/ Wait4Line \/ GotLine \/ StopReading
  PROVE  IndInv'
<1> USE DEF Owners, Reader
<1>1. /\ UNCHANGED <<config, state, xpc, keepLooping, flag, items, wpc, cpc, hpc, victim, told>>
      /\ UNCHANGED <<targets, outcome, notifying, late, ipc, queue, buffer>>
  BY DEF InitReadLog, ReadLog, SpuriousReader, Wait4Line, GotLine, StopReading, start, event,
     handler
<1>2. IndInv /\ Monitors!MonitorsTypeOK /\ Monitored
  BY DEF IndInv, TypeOK
<1>3. Monitors!MonitorsTypeOK' /\ Monitored'
  <2>1. CASE \/ InitReadLog \/ ReadLog \/ SpuriousReader \/ StopReading
             \/ Wait4Line /\ ~keepLooping
    <3>1. UNCHANGED mpc /\ rpc # "wait" /\ rpc' # "wait"
      BY <2>1 DEF InitReadLog, ReadLog, SpuriousReader, StopReading, Wait4Line
    <3> QED BY <1>1, <1>2, <3>1 DEF Monitors!MonitorsTypeOK, Monitored
  <2>2. CASE (Wait4Line /\ keepLooping) \/ GotLine
    <3>1. /\ mpc["tail"] \in {"out", "returned"} /\ mpc' = [mpc EXCEPT !["tail"] = mpc'["tail"]]
          /\ mpc'["tail"] \in {"out", "register"}
          /\ rpc' = "wait" <=> mpc'["tail"] # "out"
      BY <1>2, <2>2 DEF Wait4Line, GotLine, Monitors!MonitorsTypeOK, Monitored
    <3>2. mpc' \in [Owners -> Monitors!OwnerPlaces]
      BY <1>2, <3>1 DEF Monitors!MonitorsTypeOK, Monitors!OwnerPlaces
    <3> QED BY <1>1, <1>2, <3>1, <3>2 DEF Monitors!MonitorsTypeOK, Monitored
  <2> QED BY <2>1, <2>2
<1>4. /\ rpc \in ReaderPlaces \ {"none", "ended"} /\ rpc' \in ReaderPlaces \ {"none"}
      /\ rpc' = "ended" => ~keepLooping
  BY DEF InitReadLog, ReadLog, SpuriousReader, Wait4Line, GotLine, StopReading
<1>5. unread' \in BOOLEAN
  <2>1. unread \in BOOLEAN /\ keepLooping \in BOOLEAN
    BY DEF IndInv, TypeOK
  <2> QED BY <2>1 DEF InitReadLog, ReadLog, SpuriousReader, Wait4Line, GotLine, StopReading
<1> QED BY <1>1, <1>2, <1>3, <1>4, <1>5, MonitorsKeep

LEMMA LineKeeps == ASSUME IndInv, AddLine PROVE IndInv'
<1>1. /\ UNCHANGED <<config, state, xpc, keepLooping, flag, items, wpc, cpc, hpc, victim,
                     told, rpc>>
      /\ UNCHANGED <<targets, outcome, mpc, notifying, late, ipc>> /\ unread' = TRUE
  BY DEF AddLine, start, event, handler
<1>2. Monitors!MonitorsTypeOK' /\ Monitored'
  BY <1>1, MonitorsSame DEF IndInv, TypeOK, Monitors!MonitorsTypeOK
<1>3. /\ rpc' \in ReaderPlaces
      /\ rpc' = "ended" => ~keepLooping
  BY <1>1 DEF IndInv, TypeOK, Joined
<1> QED BY <1>1, <1>2, <1>3, MonitorsKeep
\* A step that changes nothing.
LEMMA Stutters == ASSUME IndInv, UNCHANGED vars PROVE IndInv'
<1>1. /\ UNCHANGED <<config, state, xpc, keepLooping, flag, items, wpc, cpc, hpc, victim,
                     told, rpc, unread>>
      /\ UNCHANGED <<targets, outcome, mpc, notifying, late, ipc>>
  BY DEF vars, inotify, event, handler
<1>2. Monitors!MonitorsTypeOK' /\ Monitored'
  BY <1>1, MonitorsSame DEF IndInv, TypeOK, Monitored, Monitors!MonitorsTypeOK
<1>3. /\ rpc' \in ReaderPlaces /\ unread' \in BOOLEAN
      /\ rpc' = "ended" => ~keepLooping
  BY <1>1 DEF IndInv, TypeOK, Joined
<1> QED BY <1>1, <1>2, <1>3, MonitorsKeep

-----------------------------------------------------------------------------
(***************************************************************************)
(* The invariant of the program.  A thread is joined when it has ended,    *)
(* and it has ended for good; told to end, KEEP_LOOPING is false.          *)
(***************************************************************************)
THEOREM Invariance == Spec => []IndInv
<1>1. Init => IndInv
  BY InitInv
<1>2. IndInv /\ [Next]_vars => IndInv'
  <2> SUFFICES ASSUME IndInv, [Next]_vars PROVE IndInv'
    OBVIOUS
  <2>1. CASE Next
    <3>1. CASE \E t \in Threads : Signal(t)
      BY <3>1, SignalKeeps
    <3>2. CASE HandlerRemovesFlag
      BY <3>2, HandlerKeeps
    <3>3. CASE ExecStep
      BY <3>3, ExecKeeps
    <3>4. CASE CommTest \/ CommBlocks \/ Connect \/ CommRecv
      BY <3>4, CommKeeps
    <3>5. CASE IntfThread
      BY <3>5, IntfKeeps
    <3>6. CASE ReaderStep \/ SpuriousReader
      BY <3>6, ReaderKeeps, OwnerKeeps DEF ReaderStep
    <3>7. CASE TableLoop
      BY <3>7, TableKeeps
    <3>8. CASE \E o \in Owners : SpuriousMonitor(o)
      BY <3>8, OwnerKeeps DEF Owners
    <3>9. CASE AddLine
      BY <3>9, LineKeeps
    <3>10. CASE Terminated
      BY <3>10, Stutters DEF Terminated
    <3> QED BY <2>1, <3>1, <3>2, <3>3, <3>4, <3>5, <3>6, <3>7, <3>8, <3>9, <3>10 DEF Next
  <2> QED BY <2>1, Stutters
<1> QED BY <1>1, <1>2, PTL DEF Spec

\* Every variable keeps to its values.
THEOREM ProgramTypes == Spec => []TypeOK
<1>1. IndInv => TypeOK
  BY DEF IndInv
<1> QED BY <1>1, Invariance, PTL

(***************************************************************************)
(* The state is HEALTHY only for a configuration that parsing has accepted *)
(* and that is sound, whatever configurations the directories may hold.    *)
(***************************************************************************)
THEOREM StartsSoundOnly == Spec => []StartsOnlySound
<1>1. IndInv => StartsOnlySound
  BY DEF IndInv, ConfigJudged, StartsOnlySound
<1> QED BY <1>1, Invariance, PTL

(***************************************************************************)
(* When exec() returns, somebody has told the program to end and every     *)
(* thread has ended: none is left to use what main() destroys.             *)
(***************************************************************************)
ReturnedClean ==
    xpc = "returned" =>
        /\ ~keepLooping /\ (told # "no")
        /\ rpc = "ended" /\ ipc = "ended" /\ wpc = "done" /\ cpc = "ended"

THEOREM ReturnsWhenAllEnded == Spec => []ReturnedClean
<1>1. IndInv => ReturnedClean
  <2> SUFFICES ASSUME IndInv, xpc = "returned" PROVE ReturnedClean
    BY DEF ReturnedClean
  <2>1. rpc = "ended" /\ ipc = "ended" /\ wpc = "done" /\ cpc = "ended" /\ ~keepLooping
    BY DEF IndInv, Joined
  <2>2. told # "no"
    BY <2>1 DEF IndInv, ToldIsTrue
  <2> QED BY <2>1, <2>2 DEF ReturnedClean
<1> QED BY <1>1, Invariance, PTL

-----------------------------------------------------------------------------
(***************************************************************************)
(* When each thread can take a step of its own, spelled out: the guards of *)
(* HandlerRemovesFlag, ExecStep, CommTest \/ CommBlocks, IntfThread,       *)
(* ReaderStep and TableLoop, the steps whose fairness FairSpec states.     *)
(***************************************************************************)
HandlerCan == hpc = "remove" /\ ~(victim = "comm" /\ cpc = "stuck")

ExecCan ==
    /\ Runs("exec")
    /\ \/ xpc \in {"upload", "initDB", "initComm", "exec", "load", "notify", "kill"}
       \/ xpc = "joinInpt" /\ rpc = "ended"
       \/ xpc = "joinIntf" /\ ipc = "ended"
       \/ xpc = "joinTables" /\ wpc = "done"
       \/ xpc = "joinComm" /\ cpc = "ended"

CommCan == Runs("comm") /\ cpc \in {"test", "about", "greet"}

IntfCan ==
    /\ flag # "none" /\ Runs("intf")
    /\ \/ ipc \notin {"read", "ended"}
       \/ ipc = "read" /\ queue # {}
       \/ notifying # NoOwner

ReaderCan ==
    \/ rpc \in {"init", "read", "eof"}
    \/ mpc["tail"] \in {"test", "block"}
    \/ rpc = "wait" /\ mpc["tail"] = "returned"
    \/ mpc["tail"] = "register" /\ notifying = NoOwner /\ ipc # "free"

TableCan == flag # "none" /\ wpc \in {"top", "awake", "test", "block", "clear"}

AllWait == ~(HandlerCan \/ ExecCan \/ CommCan \/ IntfCan \/ ReaderCan \/ TableCan)

(***************************************************************************)
(* Once the program is told to end, a state in which every thread waits is *)
(* the end of exec() or one of Hangs.  How the calls of the reading thread *)
(* hang is a choice of this module; that they hang in no other way is said *)
(* of the belt by TwoWaysToStandStill, of the pool by OnlyExitCanHang and  *)
(* of the lump by CallsHangAsNamed.                                        *)
(***************************************************************************)
NoOtherHang == (told # "no") /\ AllWait => xpc \in {"returned", "refused"} \/ Hangs

LEMMA WaitersHang ==
  ASSUME IndInv, told # "no", AllWait, ~Hangs
  PROVE  xpc \in {"returned", "refused"}
<1> USE DEF AllWait
<1>1. hpc = "none" /\ victim = NoThread
  BY DEF IndInv, TypeOK, Places, HandlerCan, Hangs
<1>2. \A t \in Threads : Runs(t)
  BY <1>1, ProgramAssumption DEF Runs
<1>3. SUFFICES ASSUME xpc \in {"joinInpt", "joinIntf", "joinTables", "joinComm"} PROVE FALSE
  BY <1>2 DEF IndInv, TypeOK, ExecCan
<1>4. ~keepLooping /\ flag # "none" /\ rpc # "none" /\ cpc # "none"
  BY <1>1, <1>3 DEF IndInv, ToldIsTrue, Places
\* intfThread sleeps in read() until there is an event, and there is one.
<1>5. ipc = "ended" /\ notifying = NoOwner
  <2>1. notifying = NoOwner /\ (ipc = "ended" \/ (ipc = "read" /\ queue = {}))
    BY <1>2, <1>4 DEF IntfCan
  <2>2. ASSUME ipc = "read", queue = {} PROVE FALSE
    <3>1. flag = "present" /\ told = "signal"
      BY <1>4, <2>2 DEF Hangs, IndInv, TypeOK
    <3> QED BY <1>1, <2>2, <3>1 DEF IndInv, ToldIsTrue
  <2> QED BY <2>1, <2>2
<1>6. CASE xpc = "joinInpt"
  <2>1. rpc = "wait" /\ mpc["tail"] # "out"
    <3>1. rpc = "wait"
      BY <1>2, <1>4, <1>6 DEF IndInv, TypeOK, ExecCan, ReaderCan, Hangs
    <3> QED BY <3>1 DEF IndInv, Monitored
  <2>2. mpc["tail"] = "asleep"
    BY <1>5, <2>1 DEF IndInv, TypeOK, Monitors!MonitorsTypeOK, Monitors!OwnerPlaces, Owners,
       ReaderCan
  <2>3. outcome["tail"] = "invalid" /\ "tail" \notin late
    BY <1>5, <2>2, ProgramAssumption DEF Hangs, Monitors!Forsaken, Owners
  <2>4. "tail" \in targets
    BY <2>2, <2>3 DEF IndInv, TypeOK, Monitors!MonitorsTypeOK, Owners
  <2> QED BY <1>5, <2>3, <2>4 DEF IndInv, Monitored
<1>7. CASE xpc = "joinIntf"
  BY <1>2, <1>5, <1>7 DEF ExecCan
<1>8. CASE xpc = "joinTables"
  <2>1. wpc # "done"
    BY <1>2, <1>8 DEF ExecCan
  <2>2. wpc = "asleep"
    BY <1>4, <2>1 DEF IndInv, Places, TableCan
  <2>3. items
    BY <1>8, <2>2 DEF IndInv, Joined
  <2> QED BY <2>2, <2>3 DEF Hangs
<1>9. CASE xpc = "joinComm"
  <2>1. cpc # "ended"
    BY <1>2, <1>9 DEF ExecCan
  <2>2. cpc \in {"accept", "recv", "stuck"}
    BY <1>2, <1>4, <2>1 DEF IndInv, TypeOK, CommCan
  <2> QED BY <1>9, <2>2 DEF Hangs
<1> QED BY <1>3, <1>6, <1>7, <1>8, <1>9

\* The safety half of EndsWhenTold, for every set of configurations.
THEOREM HangsAreKnown == Spec => []NoOtherHang
<1>1. IndInv => NoOtherHang
  BY WaitersHang DEF NoOtherHang
<1> QED BY <1>1, Invariance, PTL
===============================================================================
