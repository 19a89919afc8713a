-------------------------- MODULE LumpFeed_proofs --------------------------
(***************************************************************************)
(* What the feeders of a lump container do with each line, for any number  *)
(* of components, files, renames, failed starts and deaths.                *)
(***************************************************************************)
EXTENDS LumpFeed, FiniteSetTheorems, TLAPS

Places  == {"none", "count", "open", "spin", "read", "save", "eof", "waiting", "done"}
Copying == {"read", "save", "eof", "waiting"}
MainPlaces == {"loop", "start", "test", "block", "asleep", "read", "waiting", "release", "join",
               "dead"}

Sources == (1 .. MaxFiles) \X (0 .. MaxLines)

\* TypeOK, with the domains of the functions.
Types ==
    /\ present \subseteq Components /\ file \in [Components -> 1 .. MaxFiles]
    /\ size \in [Components \X (1 .. MaxFiles) -> 0 .. MaxLines]
    /\ ctrl \subseteq Components /\ lump \in [Lines -> Nat] /\ seen \subseteq Components
    /\ restart \in BOOLEAN /\ resultFlag \in BOOLEAN /\ inits \in 0 .. MaxInits
    /\ main \in MainPlaces /\ new \in [Files -> Nat] /\ waited \subseteq Files
    /\ fpc \in [Feeders -> Places] /\ source \in [Feeders -> Sources]
    /\ lives \in 1 .. MaxLives /\ again \in BOOLEAN /\ torn \subseteq Components
    /\ renameMon \subseteq Feeders

Within == \A f \in Feeders : source[f][2] <= size[<<f[1], source[f][1]>>]

\* One set of feeders for each call.
Started ==
    /\ \A f \in Feeders : fpc[f] # "none" => f[2] <= inits
    /\ ~again => inits <= 1

\* The feeders that have just copied line n of file k of a component: each of
\* them has yet to copy the next one.
JustRead(c, k, n) == {f \in Feeders : f[1] = c /\ source[f] = <<k, n>>}

Ordered ==
    \A c \in Components, k \in 1 .. MaxFiles, n \in 1 .. (MaxLines - 1) :
        lump[<<c, k, n + 1>>] + Cardinality(JustRead(c, k, n)) <= lump[<<c, k, n>>]

\* Once a feeder has saved a position, no feeder after it copies anything.
Once ==
    \A c \in Components : ~again /\ c \notin torn =>
        /\ \A l \in Lines : l[1] = c => lump[l] <= 1
        /\ \A f \in Feeders : f[1] = c /\ fpc[f] \in Copying =>
              \A l \in Lines :
                  l[1] = c /\ l[2] = source[f][1] /\ l[3] > source[f][2] => lump[l] = 0
        /\ c \notin ctrl /\ (\A f \in Feeders : f[1] = c => fpc[f] # "save") =>
              \A l \in Lines : l[1] = c => lump[l] = 0

IndInv == Types /\ Within /\ Started /\ Ordered /\ Once

USE DEF Places, Copying, MainPlaces

-----------------------------------------------------------------------------
LEMMA Facts ==
  ASSUME IndInv
  PROVE  /\ MaxLines \in Nat /\ MaxFiles \in Nat \ {0} /\ MaxInits \in Nat \ {0}
         /\ MaxLives \in Nat
         /\ IsFiniteSet(Feeders)
         /\ \A f \in Feeders : /\ f[1] \in Components /\ f[2] \in 1 .. MaxInits
                               /\ f = <<f[1], f[2]>>
                               /\ source[f] = <<source[f][1], source[f][2]>>
                               /\ source[f][1] \in 1 .. MaxFiles
                               /\ source[f][2] \in 0 .. MaxLines
         /\ lump \in [Lines -> Nat]
         /\ size \in [Components \X (1 .. MaxFiles) -> 0 .. MaxLines]
         /\ inits \in 0 .. MaxInits
<1>1. IsFiniteSet(Feeders)
  <2>1. IsFiniteSet(1 .. MaxInits)
    BY LumpAssumption, FS_Interval
  <2>2. \A S, T : IsFiniteSet(S) /\ IsFiniteSet(T) => IsFiniteSet(S \X T)
    BY FS_Product
  <2> QED BY <2>1, <2>2, LumpAssumption DEF Feeders
<1>2. \A f \in Feeders : f[1] \in Components /\ f[2] \in 1 .. MaxInits /\ f = <<f[1], f[2]>>
  BY DEF Feeders
<1>3. \A f \in Feeders : source[f] \in (1 .. MaxFiles) \X (0 .. MaxLines)
  BY DEF IndInv, Types, Sources
<1>4. \A f \in Feeders : /\ source[f] = <<source[f][1], source[f][2]>>
                         /\ source[f][1] \in 1 .. MaxFiles
                         /\ source[f][2] \in 0 .. MaxLines
  BY <1>3
<1> QED BY <1>1, <1>2, <1>4, LumpAssumption DEF IndInv, Types

LEMMA InitInv == Init => IndInv
<1> SUFFICES ASSUME Init PROVE IndInv
  OBVIOUS
<1>0. MaxLines \in Nat /\ MaxFiles \in Nat \ {0} /\ MaxInits \in Nat \ {0} /\ MaxLives \in Nat \ {0}
  BY LumpAssumption
<1>1. <<1, 0>> \in Sources
  BY <1>0 DEF Sources
<1>2. \A f \in Feeders : <<f[1], 1>> \in Components \X (1 .. MaxFiles)
  BY <1>0 DEF Feeders
<1>3. Types /\ Within
  <2>1. \A f \in Feeders : source[f][1] = 1 /\ source[f][2] = 0
    BY DEF Init
  <2>2. Within
    <3>1. \A cf \in Components \X (1 .. MaxFiles) : size[cf] = 0
      BY DEF Init
    <3>2. \A f \in Feeders : size[<<f[1], 1>>] = 0
      BY <1>2, <3>1
    <3> QED BY <2>1, <3>2 DEF Within
  <2>3. size \in [Components \X (1 .. MaxFiles) -> 0 .. MaxLines]
    BY <1>0 DEF Init
  <2>4. file \in [Components -> 1 .. MaxFiles] /\ lump \in [Lines -> Nat]
    BY <1>0 DEF Init
  <2>5. fpc \in [Feeders -> Places] /\ source \in [Feeders -> Sources]
    BY <1>1 DEF Init
  <2>6. lives \in 1 .. MaxLives /\ inits \in 0 .. MaxInits
    BY <1>0 DEF Init
  <2> QED BY <2>2, <2>3, <2>4, <2>5, <2>6 DEF Init, Types
<1>4. Started /\ Once
  BY DEF Init, Started, Once
<1>5. Ordered
  <2> SUFFICES ASSUME NEW c \in Components, NEW k \in 1 .. MaxFiles, NEW n \in 1 .. (MaxLines - 1)
               PROVE  lump[<<c, k, n + 1>>] + Cardinality(JustRead(c, k, n)) <= lump[<<c, k, n>>]
    BY DEF Ordered
  <2>1. JustRead(c, k, n) = {}
    BY DEF Init, JustRead
  <2>2. <<c, k, n>> \in Lines /\ <<c, k, n + 1>> \in Lines
    BY <1>0 DEF Lines
  <2> QED BY <2>1, <2>2, FS_EmptySet DEF Init
<1> QED BY <1>3, <1>4, <1>5 DEF IndInv
-----------------------------------------------------------------------------
(* Steps that add nothing to LUMP.                                         *)

LEMMA OrderedLess ==
  ASSUME IndInv, UNCHANGED lump,
         \A f \in Feeders : source'[f] = source[f] \/ source'[f][2] = 0
  PROVE  Ordered'
<1> SUFFICES ASSUME NEW c \in Components, NEW k \in 1 .. MaxFiles, NEW n \in 1 .. (MaxLines - 1)
             PROVE  lump[<<c, k, n + 1>>] + Cardinality(JustRead(c, k, n)') <= lump[<<c, k, n>>]
  BY DEF Ordered
<1>1. JustRead(c, k, n)' \subseteq JustRead(c, k, n)
  BY DEF JustRead
<1>2. IsFiniteSet(JustRead(c, k, n))
  BY Facts, FS_Subset DEF JustRead
<1>3. /\ Cardinality(JustRead(c, k, n)') <= Cardinality(JustRead(c, k, n))
      /\ Cardinality(JustRead(c, k, n)) \in Nat /\ Cardinality(JustRead(c, k, n)') \in Nat
  BY <1>1, <1>2, FS_Subset, FS_CardinalityType
<1>4. <<c, k, n>> \in Lines /\ <<c, k, n + 1>> \in Lines
  BY Facts DEF Lines
<1>5. lump[<<c, k, n>>] \in Nat /\ lump[<<c, k, n + 1>>] \in Nat
  BY <1>4, Facts
<1>6. lump[<<c, k, n + 1>>] + Cardinality(JustRead(c, k, n)) <= lump[<<c, k, n>>]
  BY DEF IndInv, Ordered
<1> QED BY <1>3, <1>5, <1>6

LEMMA OnceSame ==
  ASSUME IndInv, UNCHANGED <<lump, ctrl>>, again => again', torn \subseteq torn',
         \A f \in Feeders :
            /\ fpc'[f] \in Copying => fpc[f] \in Copying /\ source'[f] = source[f]
            /\ fpc[f] = "save" => fpc'[f] = "save" \/ f[1] \in torn'
  PROVE  Once'
<1> SUFFICES ASSUME NEW c \in Components, ~again', c \notin torn'
             PROVE  /\ \A l \in Lines : l[1] = c => lump[l] <= 1
                    /\ \A f \in Feeders : f[1] = c /\ fpc'[f] \in Copying =>
                          \A l \in Lines :
                              l[1] = c /\ l[2] = source'[f][1] /\ l[3] > source'[f][2]
                                  => lump[l] = 0
                    /\ c \notin ctrl /\ (\A f \in Feeders : f[1] = c => fpc'[f] # "save") =>
                          \A l \in Lines : l[1] = c => lump[l] = 0
  BY DEF Once
<1>1. ~again /\ c \notin torn
  OBVIOUS
<1> QED BY <1>1 DEF IndInv, Once

LEMMA Still ==
  ASSUME IndInv, Types', UNCHANGED <<size, ctrl, lump, inits, fpc, source, again, torn>>
  PROVE  IndInv'
<1>1. Within' /\ Started'
  BY DEF IndInv, Within, Started
<1> QED BY <1>1, OrderedLess, OnceSame DEF IndInv

LEMMA StillInv ==
  ASSUME IndInv,
         \/ RestartLoop \/ TestSeen \/ BlockSeen \/ SpuriousWakeup \/ ReadLump
         \/ FirstLineThreads \/ StartProgram
         \/ \E c \in Components : Rename(c) \/ Create(c)
         \/ UNCHANGED vars
  PROVE  IndInv'
<1> USE DEF disk, feeders, first, history
<1>1. CASE RestartLoop \/ TestSeen \/ BlockSeen \/ SpuriousWakeup \/ ReadLump
  <2>1. /\ UNCHANGED <<disk, ctrl, lump, resultFlag, seen, inits, feeders, first, history>>
        /\ restart' \in BOOLEAN /\ main' \in MainPlaces
    BY <1>1 DEF IndInv, Types, RestartLoop, TestSeen, BlockSeen, SpuriousWakeup, ReadLump, Main
  <2>2. Types'
    BY <2>1 DEF IndInv, Types
  <2> QED BY <2>1, <2>2, Still
<1>2. CASE \E c \in Components : Rename(c)
  <2>1. PICK c \in Components : Rename(c)
    BY <1>2
  <2>2. file' \in [Components -> 1 .. MaxFiles]
    <3>1. file[c] + 1 \in 1 .. MaxFiles
      BY <2>1, Facts DEF Rename, IndInv, Types
    <3> QED BY <2>1, <3>1 DEF Rename, IndInv, Types
  <2>3. /\ UNCHANGED <<size, ctrl, lump, resultFlag, seen, inits, main, fpc, source, first,
                       history>>
        /\ present' \subseteq Components /\ renameMon' \subseteq Feeders /\ restart' \in BOOLEAN
    BY <2>1 DEF Rename, IndInv, Types
  <2>4. Types'
    BY <2>2, <2>3 DEF IndInv, Types
  <2> QED BY <2>3, <2>4, Still
<1>3. CASE \E c \in Components : Create(c)
  <2>1. Types'
    BY <1>3 DEF Create, IndInv, Types
  <2> QED BY <1>3, <2>1, Still DEF Create
<1>4. CASE UNCHANGED vars
  <2>1. Types'
    BY <1>4 DEF vars, IndInv, Types
  <2> QED BY <1>4, <2>1, Still DEF vars
<1>5. CASE FirstLineThreads
  <2>1. PICK x \in Files : RegisterFirst(x)
    BY <1>5 DEF FirstLineThreads
  <2>2. UNCHANGED <<disk, ctrl, lump, restart, resultFlag, seen, inits, main, feeders, history>>
    BY <2>1 DEF RegisterFirst
  <2>3. new' \in [Files -> Nat] /\ waited' \subseteq Files
    BY <2>1 DEF RegisterFirst, IndInv, Types
  <2>4. Types'
    BY <2>2, <2>3 DEF IndInv, Types
  <2> QED BY <2>2, <2>4, Still
<1>6. CASE StartProgram
  <2>1. lives' \in 1 .. MaxLives
    BY <1>6, Facts DEF StartProgram, IndInv, Types
  <2>2. Types'
    BY <1>6, <2>1 DEF StartProgram, Main, IndInv, Types
  <2> QED BY <1>6, <2>2, Still DEF StartProgram
<1> QED BY <1>1, <1>2, <1>3, <1>4, <1>5, <1>6

\* A feeder that copies nothing and saves nothing.
LEMMA QuietFeederInv ==
  ASSUME IndInv, NEW f \in Feeders,
         Count(f) \/ Spin(f) \/ EndOfFile(f) \/ Wait4Line(f) \/ LeaveLoop(f)
  PROVE  IndInv'
<1> USE DEF disk, feeders, first, history
<1>1. /\ UNCHANGED <<disk, ctrl, lump, restart, resultFlag, inits, main, source, renameMon,
                     first, history>>
      /\ seen' \subseteq Components
  BY Facts DEF IndInv, Types, Count, Spin, EndOfFile, Wait4Line, LeaveLoop
<1>2. PICK to \in {"open", "done", "eof", "waiting"} :
          /\ fpc' = [fpc EXCEPT ![f] = to]
          /\ fpc[f] \in {"count", "spin", "read", "eof"}
          /\ to \in Copying => fpc[f] \in Copying
  BY DEF Count, Spin, EndOfFile, Wait4Line, LeaveLoop, Feed
<1>3. Types'
  BY <1>1, <1>2 DEF IndInv, Types
<1>4. \A g \in Feeders : g # f => fpc'[g] = fpc[g]
  BY <1>2 DEF IndInv, Types
<1>5. fpc'[f] = to
  BY <1>2 DEF IndInv, Types
<1>6. Within' /\ Started'
  BY <1>1, <1>2, <1>4, <1>5 DEF IndInv, Within, Started
<1>7. Ordered'
  BY <1>1, OrderedLess
<1>8. Once'
  BY <1>1, <1>2, <1>4, <1>5, OnceSame
<1> QED BY <1>3, <1>6, <1>7, <1>8 DEF IndInv

LEMMA FirstLineType ==
  ASSUME IndInv, NEW x \in Files, ValidateFirstLine(x)
  PROVE  new' \in [Files -> Nat] /\ waited' \subseteq Files
BY DEF ValidateFirstLine, IndInv, Types

LEMMA InitReadLogInv == ASSUME IndInv, InitReadLog PROVE IndInv'
<1> USE DEF disk, feeders, first, history
<1>1. /\ UNCHANGED <<disk, ctrl, lump, restart, resultFlag, feeders, lives, torn>>
      /\ inits' = inits + 1 /\ seen' = {} /\ main' = "start"
      /\ again' = (again \/ inits > 0) /\ inits < MaxInits
      /\ ValidateFirstLine(LUMP)
  BY DEF InitReadLog, Main
<1>2. Types'
  <2>1. LUMP \in Files
    BY DEF Files
  <2> QED BY <1>1, <2>1, Facts, FirstLineType DEF IndInv, Types
<1>3. Within'
  BY <1>1 DEF IndInv, Within
<1>4. Started'
  <2>1. \A f \in Feeders : fpc'[f] # "none" => f[2] <= inits'
    BY <1>1, Facts DEF IndInv, Started
  <2>2. ~again' => ~(inits > 0)
    BY <1>1, Zenon
  <2>3. inits \in Nat
    BY Facts
  <2>4. ~again' => inits' <= 1
    BY <1>1, <2>2, <2>3
  <2> QED BY <2>1, <2>4 DEF Started
<1>5. Ordered'
  BY <1>1, OrderedLess
<1>6. Once'
  BY <1>1, OnceSame
<1> QED BY <1>2, <1>3, <1>4, <1>5, <1>6 DEF IndInv

LEMMA StartFeederInv == ASSUME IndInv, NEW c \in Components, StartFeeder(c) PROVE IndInv'
<1> USE DEF disk, feeders, first, history
<1> DEFINE f == <<c, inits>>
<1>1. /\ UNCHANGED <<disk, ctrl, lump, restart, resultFlag, seen, inits, source, renameMon,
                     history>>
      /\ main' \in {"start", "test"} /\ fpc[f] = "none"
      /\ fpc' = [fpc EXCEPT ![f] = "count"] /\ ValidateFirstLine(c)
  BY DEF StartFeeder, ToStart
<1>2. \A g \in Feeders : fpc'[g] = IF g = f THEN "count" ELSE fpc[g]
  BY <1>1 DEF IndInv, Types
<1>3. Types'
  <2>1. c \in Files
    BY DEF Files
  <2> QED BY <1>1, <2>1, FirstLineType DEF IndInv, Types
<1>4. Within'
  BY <1>1 DEF IndInv, Within
<1>5. Started'
  <2>1. \A g \in Feeders : fpc'[g] # "none" => g[2] <= inits
    BY <1>2, Facts DEF IndInv, Started
  <2> QED BY <1>1, <2>1 DEF IndInv, Started
<1>6. Ordered'
  BY <1>1, OrderedLess
<1>7. Once'
  BY <1>1, <1>2, OnceSame
<1> QED BY <1>3, <1>4, <1>5, <1>6, <1>7 DEF IndInv

\* Whoever waited reads on.
LEMMA WakeInv ==
  ASSUME IndInv, Types', Within',
         UNCHANGED <<ctrl, lump, inits, source, again, torn>>,
         \A f \in Feeders : fpc'[f] = fpc[f] \/ (fpc[f] = "waiting" /\ fpc'[f] = "read")
  PROVE  IndInv'
<1>1. Started'
  BY DEF IndInv, Started
<1>2. Ordered'
  BY OrderedLess
<1>3. Once'
  BY OnceSame
<1> QED BY <1>1, <1>2, <1>3 DEF IndInv

LEMMA ReleaseInv == ASSUME IndInv, Release PROVE IndInv'
<1> USE DEF disk, feeders, first, history
<1>1. Types'
  BY DEF IndInv, Types, Release, Main
<1>2. Within'
  BY DEF IndInv, Within, Release
<1>3. \A f \in Feeders : fpc'[f] = fpc[f] \/ (fpc[f] = "waiting" /\ fpc'[f] = "read")
  BY DEF Release
<1> QED BY <1>1, <1>2, <1>3, WakeInv DEF Release

LEMMA AddLineInv == ASSUME IndInv, NEW c \in Components, AddLine(c) PROVE IndInv'
<1> USE DEF disk, feeders, first, history
<1> DEFINE cf == <<c, file[c]>>
<1>1. cf \in Components \X (1 .. MaxFiles)
  BY DEF IndInv, Types
<1>2. size' = [size EXCEPT ![cf] = size[cf] + 1] /\ size[cf] < MaxLines
  BY DEF AddLine
<1>3. size[cf] + 1 \in 0 .. MaxLines
  BY <1>1, <1>2, Facts
<1>4. size' \in [Components \X (1 .. MaxFiles) -> 0 .. MaxLines]
  BY <1>2, <1>3, Facts
<1>5. \A x \in Components \X (1 .. MaxFiles) : size[x] <= size'[x]
  BY <1>1, <1>2, Facts
<1>6. \A f \in Feeders : fpc'[f] = fpc[f] \/ (fpc[f] = "waiting" /\ fpc'[f] = "read")
  BY DEF AddLine
<1>7. Types'
  BY <1>4 DEF IndInv, Types, AddLine
<1>8. Within'
  <2> SUFFICES ASSUME NEW f \in Feeders
               PROVE  source[f][2] <= size'[<<f[1], source[f][1]>>]
    BY DEF AddLine, Within
  <2>1. <<f[1], source[f][1]>> \in Components \X (1 .. MaxFiles)
    BY Facts
  <2>2. source[f][2] <= size[<<f[1], source[f][1]>>]
    BY DEF IndInv, Within
  <2> QED BY <2>1, <2>2, <1>4, <1>5, Facts
<1> QED BY <1>6, <1>7, <1>8, WakeInv DEF AddLine

\* The feeders are gone: the join, and a crash.
LEMMA GoneInv ==
  ASSUME IndInv, Types', NoFeeders, UNCHANGED <<size, ctrl, lump, again>>, inits' = 0,
         torn \subseteq torn', \A f \in Feeders : fpc[f] = "save" => f[1] \in torn'
  PROVE  IndInv'
<1>1. \A f \in Feeders : fpc'[f] = "none" /\ source'[f] = <<1, 0>>
  BY DEF NoFeeders
<1>2. Within'
  <2>1. \A f \in Feeders : <<f[1], 1>> \in Components \X (1 .. MaxFiles)
    BY Facts
  <2>2. \A x \in Components \X (1 .. MaxFiles) : 0 <= size[x]
    <3>1. MaxLines \in Nat /\ size \in [Components \X (1 .. MaxFiles) -> 0 .. MaxLines]
      BY Facts
    <3> QED BY <3>1
  <2>3. \A f \in Feeders : 0 <= size[<<f[1], 1>>]
    BY <2>1, <2>2
  <2> QED BY <1>1, <2>3 DEF Within
<1>3. Started'
  BY <1>1 DEF Started
<1>4. Ordered'
  BY <1>1, OrderedLess
<1>5. Once'
  BY <1>1, OnceSame
<1> QED BY <1>2, <1>3, <1>4, <1>5 DEF IndInv

LEMMA JoinInv == ASSUME IndInv, Join PROVE IndInv'
<1> USE DEF disk, feeders, first, history
<1>0. <<1, 0>> \in Sources
  BY Facts DEF Sources
<1>1. Types'
  <2>1. fpc' \in [Feeders -> Places] /\ source' \in [Feeders -> Sources] /\ renameMon' = {}
    BY <1>0 DEF Join, NoFeeders
  <2>2. inits' \in 0 .. MaxInits
    BY Facts DEF Join
  <2> QED BY <2>1, <2>2 DEF IndInv, Types, Join, Main
<1> QED BY <1>1, GoneInv DEF Join

LEMMA DiesInv == ASSUME IndInv, Dies PROVE IndInv'
<1> USE DEF disk, feeders, first, history
<1>0. <<1, 0>> \in Sources
  BY Facts DEF Sources
<1>1. torn' \subseteq Components /\ torn \subseteq torn'
      /\ \A f \in Feeders : fpc[f] = "save" => f[1] \in torn'
  BY Facts DEF IndInv, Types, Dies
<1>2. Types'
  <2>1. fpc' \in [Feeders -> Places] /\ source' \in [Feeders -> Sources] /\ renameMon' = {}
    BY <1>0 DEF Dies, NoFeeders
  <2>2. inits' \in 0 .. MaxInits /\ new' \in [Files -> Nat] /\ waited' = {}
    BY Facts DEF Dies
  <2>3. UNCHANGED <<present, file, size, ctrl, lump, lives, again>>
        /\ seen' = {} /\ restart' = FALSE /\ resultFlag' = TRUE /\ main' = "dead"
    BY DEF Dies
  <2> QED BY <1>1, <2>1, <2>2, <2>3 DEF IndInv, Types
<1> QED BY <1>1, <1>2, GoneInv DEF Dies
-----------------------------------------------------------------------------
(* The feeder that opens, copies and saves: the only one of its component, *)
(* unless initReadLogThread() was called again.                            *)

LEMMA OnlyOne ==
  ASSUME IndInv, ~again, NEW f \in Feeders, fpc[f] # "none",
         NEW g \in Feeders, fpc[g] # "none", g[1] = f[1]
  PROVE  g = f
<1>1. f[2] <= 1 /\ g[2] <= 1
  BY Facts DEF IndInv, Started
<1>2. f[2] = 1 /\ g[2] = 1
  BY <1>1, Facts
<1> QED BY <1>2, Facts

LEMMA OpenInv == ASSUME IndInv, NEW f \in Feeders, Open(f) PROVE IndInv'
<1> USE DEF disk, feeders, first, history
<1> DEFINE c == f[1]
<1>0. c \in Components /\ file[c] \in 1 .. MaxFiles
  BY Facts DEF IndInv, Types
<1>1. /\ UNCHANGED <<disk, ctrl, lump, restart, seen, inits, first, history>>
      /\ fpc[f] = "open"
      /\ fpc' = [fpc EXCEPT ![f] = IF c \notin present THEN "done"
                                   ELSE IF c \in ctrl THEN "spin" ELSE "read"]
      /\ main' \in {main, "test"}
  BY DEF Open, Feed
<1>2. /\ source' \in {source, [source EXCEPT ![f] = <<file[c], 0>>]}
      /\ renameMon' \in {renameMon, renameMon \cup {f}} /\ resultFlag' \in BOOLEAN
      /\ c \in present => source' = [source EXCEPT ![f] = <<file[c], 0>>]
  BY DEF Open, IndInv, Types
<1>3. /\ \A g \in Feeders : g # f => fpc'[g] = fpc[g] /\ source'[g] = source[g]
      /\ fpc'[f] = IF c \notin present THEN "done" ELSE IF c \in ctrl THEN "spin" ELSE "read"
      /\ c \in present => source'[f] = <<file[c], 0>>
      /\ source'[f] \in {source[f], <<file[c], 0>>}
  BY <1>1, <1>2 DEF IndInv, Types
<1>4. Types'
  <2>1. <<file[c], 0>> \in Sources
    BY <1>0, Facts DEF Sources
  <2>2. source' \in [Feeders -> Sources]
    BY <2>1, <1>2 DEF IndInv, Types
  <2>3. fpc' \in [Feeders -> Places]
    BY <1>1 DEF IndInv, Types
  <2> QED BY <1>1, <1>2, <2>2, <2>3 DEF IndInv, Types
<1>5. Within'
  <2> SUFFICES ASSUME NEW g \in Feeders
               PROVE  source'[g][2] <= size[<<g[1], source'[g][1]>>]
    BY <1>1 DEF Within
  <2>1. CASE source'[g] = source[g]
    BY <2>1 DEF IndInv, Within
  <2>2. CASE g = f /\ source'[g] = <<file[c], 0>>
    <3>1. 0 <= size[<<c, file[c]>>]
      BY <1>0, Facts
    <3> QED BY <2>2, <3>1
  <2> QED BY <1>3, <2>1, <2>2
<1>6. Started'
  BY <1>1, <1>3 DEF IndInv, Started
<1>7. Ordered'
  <2>1. \A g \in Feeders : source'[g] = source[g] \/ source'[g][2] = 0
    BY <1>3
  <2> QED BY <1>1, <2>1, OrderedLess
<1>8. Once'
  <2> SUFFICES ASSUME NEW d \in Components, ~again, d \notin torn
               PROVE  /\ \A l \in Lines : l[1] = d => lump[l] <= 1
                      /\ \A g \in Feeders : g[1] = d /\ fpc'[g] \in Copying =>
                            \A l \in Lines :
                                l[1] = d /\ l[2] = source'[g][1] /\ l[3] > source'[g][2]
                                    => lump[l] = 0
                      /\ d \notin ctrl /\ (\A g \in Feeders : g[1] = d => fpc'[g] # "save") =>
                            \A l \in Lines : l[1] = d => lump[l] = 0
    BY <1>1 DEF Once
  <2>1. \A l \in Lines : l[1] = d => lump[l] <= 1
    BY DEF IndInv, Once
  <2>2. ASSUME NEW g \in Feeders, g[1] = d, fpc'[g] \in Copying,
               NEW l \in Lines, l[1] = d, l[2] = source'[g][1], l[3] > source'[g][2]
        PROVE  lump[l] = 0
    <3>1. CASE g # f
      <4>1. fpc[g] \in Copying /\ source'[g] = source[g]
        BY <1>3, <2>2, <3>1
      <4> QED BY <2>2, <4>1 DEF IndInv, Once
    <3>2. CASE g = f
      <4>1. d = c /\ d \notin ctrl
        BY <1>3, <2>2, <3>2
      <4>2. \A h \in Feeders : h[1] = d => fpc[h] # "save"
        BY <1>1, <4>1, OnlyOne
      <4> QED BY <2>2, <4>1, <4>2 DEF IndInv, Once
    <3> QED BY <3>1, <3>2
  <2>3. ASSUME d \notin ctrl, \A g \in Feeders : g[1] = d => fpc'[g] # "save"
        PROVE  \A l \in Lines : l[1] = d => lump[l] = 0
    <3>1. \A g \in Feeders : g[1] = d => fpc[g] # "save"
      BY <1>1, <1>3, <2>3
    <3> QED BY <2>3, <3>1 DEF IndInv, Once
  <2> QED BY <2>1, <2>2, <2>3
<1> QED BY <1>4, <1>5, <1>6, <1>7, <1>8 DEF IndInv

LEMMA SaveCtrlInv == ASSUME IndInv, NEW f \in Feeders, SaveCtrl(f) PROVE IndInv'
<1> USE DEF disk, feeders, first, history
<1>1. /\ UNCHANGED <<disk, lump, restart, resultFlag, seen, inits, main, source, renameMon,
                     first, history>>
      /\ fpc[f] = "save" /\ fpc' = [fpc EXCEPT ![f] = "read"] /\ ctrl' = ctrl \cup {f[1]}
  BY DEF SaveCtrl, Feed
<1>2. fpc'[f] = "read" /\ \A g \in Feeders : g # f => fpc'[g] = fpc[g]
  BY <1>1 DEF IndInv, Types
<1>3. Types'
  BY <1>1, Facts DEF IndInv, Types
<1>4. Within' /\ Started'
  BY <1>1, <1>2 DEF IndInv, Within, Started
<1>5. Ordered'
  BY <1>1, OrderedLess
<1>6. Once'
  <2> SUFFICES ASSUME NEW d \in Components, ~again, d \notin torn
               PROVE  /\ \A l \in Lines : l[1] = d => lump[l] <= 1
                      /\ \A g \in Feeders : g[1] = d /\ fpc'[g] \in Copying =>
                            \A l \in Lines :
                                l[1] = d /\ l[2] = source[g][1] /\ l[3] > source[g][2]
                                    => lump[l] = 0
                      /\ d \notin ctrl' /\ (\A g \in Feeders : g[1] = d => fpc'[g] # "save") =>
                            \A l \in Lines : l[1] = d => lump[l] = 0
    BY <1>1 DEF Once
  <2>1. \A g \in Feeders : fpc'[g] \in Copying => fpc[g] \in Copying
    BY <1>1, <1>2
  <2>2. d \notin ctrl' => d # f[1] /\ d \notin ctrl
    BY <1>1
  <2>3. ASSUME d # f[1], \A g \in Feeders : g[1] = d => fpc'[g] # "save"
        PROVE  \A g \in Feeders : g[1] = d => fpc[g] # "save"
    BY <1>2, <2>3
  <2> QED BY <2>1, <2>2, <2>3 DEF IndInv, Once
<1> QED BY <1>3, <1>4, <1>5, <1>6 DEF IndInv

LEMMA FeedLineInv == ASSUME IndInv, NEW f \in Feeders, FeedLine(f) PROVE IndInv'
<1> USE DEF disk, feeders, first, history
<1> DEFINE c == f[1]
           k == source[f][1]
           m == source[f][2]
           line == <<c, k, m + 1>>
<1>0. /\ MaxLines \in Nat /\ c \in Components /\ k \in 1 .. MaxFiles /\ m \in 0 .. MaxLines
      /\ source[f] = <<k, m>>
  BY Facts
<1>1. /\ UNCHANGED <<disk, ctrl, restart, resultFlag, seen, inits, renameMon, new, history>>
      /\ waited' = waited \ {LUMP}
      /\ fpc[f] = "read" /\ fpc' = [fpc EXCEPT ![f] = "save"]
      /\ source' = [source EXCEPT ![f] = <<k, m + 1>>]
      /\ lump' = [lump EXCEPT ![line] = lump[line] + 1]
      /\ main' \in {main, "read"} /\ m < size[<<c, k>>]
  BY DEF FeedLine, Feed, Unread
<1>2. size[<<c, k>>] \in 0 .. MaxLines
  <2>1. <<c, k>> \in Components \X (1 .. MaxFiles)
    BY <1>0
  <2> QED BY <2>1, Facts
<1>3. m + 1 \in 1 .. MaxLines /\ m + 1 <= size[<<c, k>>]
  BY <1>0, <1>1, <1>2
<1>4. line \in Lines /\ lump[line] \in Nat
  <2>1. line \in Lines
    BY <1>0, <1>3 DEF Lines
  <2> QED BY <2>1, Facts
<1>5. /\ fpc'[f] = "save" /\ source'[f] = <<k, m + 1>>
      /\ \A g \in Feeders : g # f => fpc'[g] = fpc[g] /\ source'[g] = source[g]
  BY <1>1 DEF IndInv, Types
<1>6. /\ lump' \in [Lines -> Nat] /\ lump'[line] = lump[line] + 1
      /\ \A l \in Lines : l # line => lump'[l] = lump[l]
  BY <1>1, <1>4 DEF IndInv, Types
<1>7. Types'
  <2>1. <<k, m + 1>> \in Sources
    BY <1>0, <1>3 DEF Sources
  <2>2. source' \in [Feeders -> Sources] /\ fpc' \in [Feeders -> Places]
    BY <1>1, <2>1 DEF IndInv, Types
  <2>3. main' \in MainPlaces
    BY <1>1 DEF IndInv, Types
  <2> QED BY <1>1, <1>6, <2>2, <2>3 DEF IndInv, Types
<1>8. Within'
  <2> SUFFICES ASSUME NEW g \in Feeders
               PROVE  source'[g][2] <= size[<<g[1], source'[g][1]>>]
    BY <1>1 DEF Within
  <2>1. CASE g = f
    BY <1>3, <1>5, <2>1
  <2>2. CASE g # f
    BY <1>5, <2>2 DEF IndInv, Within
  <2> QED BY <2>1, <2>2
<1>9. Started'
  BY <1>1, <1>5 DEF IndInv, Started
<1>10. Ordered'
  <2> SUFFICES ASSUME NEW d \in Components, NEW j \in 1 .. MaxFiles, NEW n \in 1 .. (MaxLines - 1)
               PROVE  lump'[<<d, j, n + 1>>] + Cardinality(JustRead(d, j, n)') <= lump'[<<d, j, n>>]
    BY DEF Ordered
  <2> DEFINE J == JustRead(d, j, n)
             K == JustRead(d, j, n)'
  <2>1. IsFiniteSet(J) /\ IsFiniteSet(K)
    <3>1. J \subseteq Feeders /\ K \subseteq Feeders
      BY DEF JustRead
    <3> QED BY <3>1, Facts, FS_Subset
  <2>2. Cardinality(J) \in Nat
    BY <2>1, FS_CardinalityType
  <2>3. <<d, j, n>> \in Lines /\ <<d, j, n + 1>> \in Lines
    BY <1>0 DEF Lines
  <2>4. /\ lump[<<d, j, n>>] \in Nat /\ lump[<<d, j, n + 1>>] \in Nat
        /\ lump[<<d, j, n + 1>>] + Cardinality(J) <= lump[<<d, j, n>>]
    BY <2>3, Facts DEF IndInv, Ordered
  <2>5. CASE d = c /\ j = k /\ n = m
    <3>1. f \in J
      BY <1>0, <2>5 DEF JustRead
    <3>2. K = J \ {f}
      BY <1>5, <2>5 DEF JustRead
    <3>3. Cardinality(K) = Cardinality(J) - 1
      BY <2>1, <3>1, <3>2, FS_RemoveElement
    <3>4. lump'[<<d, j, n + 1>>] = lump[<<d, j, n + 1>>] + 1
      BY <1>6, <2>5
    <3>5. <<d, j, n>> # line
      BY <1>0, <2>5
    <3>6. lump'[<<d, j, n>>] = lump[<<d, j, n>>]
      BY <1>6, <2>3, <3>5
    <3> QED BY <2>2, <2>4, <3>3, <3>4, <3>6
  <2>6. CASE d = c /\ j = k /\ n = m + 1
    <3>1. f \notin J
      BY <1>0, <2>6 DEF JustRead
    <3>2. K = J \cup {f}
      BY <1>5, <2>6 DEF JustRead
    <3>3. Cardinality(K) = Cardinality(J) + 1
      BY <2>1, <3>1, <3>2, FS_AddElement
    <3>4. lump'[<<d, j, n>>] = lump[<<d, j, n>>] + 1
      BY <1>6, <2>6
    <3>5. <<d, j, n + 1>> # line
      BY <1>0, <2>6
    <3>6. lump'[<<d, j, n + 1>>] = lump[<<d, j, n + 1>>]
      BY <1>6, <2>3, <3>5
    <3> QED BY <2>2, <2>4, <3>3, <3>4, <3>6
  <2>7. CASE ~(d = c /\ j = k /\ n \in {m, m + 1})
    <3>1. <<d, j, n>> # line /\ <<d, j, n + 1>> # line
      BY <1>0, <2>7
    <3>2. f \notin J /\ f \notin K
      BY <1>0, <1>5, <2>7 DEF JustRead
    <3>3. K = J
      BY <1>5, <3>2 DEF JustRead
    <3>4. lump'[<<d, j, n>>] = lump[<<d, j, n>>] /\ lump'[<<d, j, n + 1>>] = lump[<<d, j, n + 1>>]
      BY <1>6, <2>3, <3>1
    <3> QED BY <2>4, <3>3, <3>4
  <2> QED BY <2>5, <2>6, <2>7
<1>11. Once'
  <2> SUFFICES ASSUME NEW d \in Components, ~again, d \notin torn
               PROVE  /\ \A l \in Lines : l[1] = d => lump'[l] <= 1
                      /\ \A g \in Feeders : g[1] = d /\ fpc'[g] \in Copying =>
                            \A l \in Lines :
                                l[1] = d /\ l[2] = source'[g][1] /\ l[3] > source'[g][2]
                                    => lump'[l] = 0
                      /\ d \notin ctrl /\ (\A g \in Feeders : g[1] = d => fpc'[g] # "save") =>
                            \A l \in Lines : l[1] = d => lump'[l] = 0
    BY <1>1 DEF Once
  <2>1. line[1] = c /\ line[2] = k /\ line[3] = m + 1
    OBVIOUS
  <2>2. CASE d # c
    <3>1. \A l \in Lines : l[1] = d => lump'[l] = lump[l]
      BY <1>6, <2>1, <2>2
    <3>2. \A g \in Feeders : g[1] = d => fpc'[g] = fpc[g] /\ source'[g] = source[g]
      BY <1>5, <2>2
    <3> QED BY <3>1, <3>2 DEF IndInv, Once
  <2>3. CASE d = c
    <3>1. \A l \in Lines : l[1] = c /\ l[2] = k /\ l[3] > m => lump[l] = 0
      BY <1>1, <2>3 DEF IndInv, Once
    <3>2. lump[line] = 0
      BY <1>0, <1>4, <2>1, <3>1
    <3>3. \A l \in Lines : l[1] = d => lump'[l] <= 1
      <4>1. \A l \in Lines : l[1] = d => lump[l] <= 1
        BY DEF IndInv, Once
      <4> QED BY <1>6, <3>2, <4>1
    <3>4. ASSUME NEW g \in Feeders, g[1] = d, fpc'[g] \in Copying,
                 NEW l \in Lines, l[1] = d, l[2] = source'[g][1], l[3] > source'[g][2]
          PROVE  lump'[l] = 0
      <4>1. g = f
        <5>1. CASE g # f
          <6>1. fpc[g] # "none"
            BY <1>5, <3>4, <5>1
          <6> QED BY <1>1, <2>3, <3>4, <6>1, OnlyOne
        <5> QED BY <5>1
      <4>2. l[2] = k /\ l[3] > m + 1
        BY <1>5, <3>4, <4>1
      <4>3. l[3] \in 1 .. MaxLines
        BY DEF Lines
      <4>4. l # line /\ l[3] > m
        BY <1>0, <2>1, <4>2, <4>3
      <4> QED BY <1>6, <2>3, <3>1, <3>4, <4>2, <4>4
    <3>5. ~(\A g \in Feeders : g[1] = d => fpc'[g] # "save")
      BY <1>5, <2>3
    <3> QED BY <3>3, <3>4, <3>5
  <2> QED BY <2>2, <2>3
<1> QED BY <1>7, <1>8, <1>9, <1>10, <1>11 DEF IndInv
-----------------------------------------------------------------------------
(***************************************************************************)
(* The inductive invariant holds of every behaviour.                       *)
(***************************************************************************)
THEOREM Invariance == Spec => []IndInv
<1>1. Init => IndInv
  BY InitInv
<1>2. IndInv /\ [Next]_vars => IndInv'
  <2> SUFFICES ASSUME IndInv, [Next]_vars PROVE IndInv'
    OBVIOUS
  <2>1. CASE InitReadLog \/ \E c \in Components : StartFeeder(c)
    BY <2>1, InitReadLogInv, StartFeederInv
  <2>2. CASE Release
    BY <2>2, ReleaseInv
  <2>3. CASE Join
    BY <2>3, JoinInv
  <2>4. CASE Crash \/ \E c \in Components : ComponentGone(c)
    BY <2>4, DiesInv DEF Crash, ComponentGone
  <2>5. ASSUME NEW f \in Feeders, Feeder(f) PROVE IndInv'
    BY <2>5, QuietFeederInv, OpenInv, FeedLineInv, SaveCtrlInv DEF Feeder
  <2>6. ASSUME NEW c \in Components, AddLine(c) PROVE IndInv'
    BY <2>6, AddLineInv
  <2>7. CASE \/ RestartLoop \/ TestSeen \/ BlockSeen \/ SpuriousWakeup \/ ReadLump
             \/ FirstLineThreads \/ StartProgram
             \/ \E c \in Components : Rename(c) \/ Create(c)
             \/ UNCHANGED vars
    BY <2>7, StillInv
  <2> QED BY <2>1, <2>2, <2>3, <2>4, <2>5, <2>6, <2>7 DEF Next, ReadingThread
<1> QED BY <1>1, <1>2, PTL DEF Spec

(***************************************************************************)
(* Every variable keeps its type, and no feeder has read more lines of a   *)
(* file than it has.                                                       *)
(***************************************************************************)
THEOREM LumpTypes == Spec => []TypeOK
<1>1. IndInv => TypeOK
  BY DEF IndInv, Types, Within, TypeOK, Sources
<1> QED BY <1>1, Invariance, PTL

(***************************************************************************)
(* The LUMP file has each line of a component at most once, unless         *)
(* initReadLogThread() failed and was called again or the program died     *)
(* between a line and its control file, and never a line without the one   *)
(* before it.                                                              *)
(***************************************************************************)
THEOREM FedOnce == Spec => []FedOnceInOrder
<1>1. IndInv => FedOnceInOrder
  <2> SUFFICES ASSUME IndInv, NEW l \in Lines
               PROVE  /\ lump[l] > 1 => again \/ l[1] \in torn
                      /\ l[3] > 1 => lump[l] <= lump[<<l[1], l[2], l[3] - 1>>]
    BY DEF FedOnceInOrder
  <2>1. /\ l = <<l[1], l[2], l[3]>> /\ l[1] \in Components
        /\ l[2] \in 1 .. MaxFiles /\ l[3] \in 1 .. MaxLines
    BY DEF Lines
  <2>2. lump[l] \in Nat
    BY Facts
  <2>3. lump[l] > 1 => again \/ l[1] \in torn
    BY <2>1, <2>2 DEF IndInv, Once
  <2>4. ASSUME l[3] > 1 PROVE lump[l] <= lump[<<l[1], l[2], l[3] - 1>>]
    <3> DEFINE n == l[3] - 1
               J == JustRead(l[1], l[2], n)
               prev == <<l[1], l[2], n>>
    <3>1. n \in 1 .. (MaxLines - 1) /\ n + 1 = l[3]
      BY <2>1, <2>4, Facts
    <3>2. J \subseteq Feeders
      BY DEF JustRead
    <3>3. Cardinality(J) \in Nat
      BY <3>2, Facts, FS_Subset, FS_CardinalityType
    <3>4. prev \in Lines
      BY <2>1, <3>1, Facts DEF Lines
    <3>5. lump[prev] \in Nat
      BY <3>4, Facts
    <3>6. lump[<<l[1], l[2], n + 1>>] + Cardinality(J) <= lump[prev]
      BY <2>1, <3>1 DEF IndInv, Ordered
    <3>7. lump[l] + Cardinality(J) <= lump[prev]
      BY <2>1, <3>1, <3>6
    <3> QED BY <2>2, <3>3, <3>5, <3>7
  <2> QED BY <2>3, <2>4
<1> QED BY <1>1, Invariance, PTL
-----------------------------------------------------------------------------
(***************************************************************************)
(* When logReadingThread, a feeder and a first-line thread can take a step *)
(* of their own, spelled out: the guards of the steps whose fairness       *)
(* FairSpec states.                                                        *)
(***************************************************************************)
MainCan ==
    \/ main \in {"test", "block", "read", "release"}
    \/ main = "loop" /\ (restart \/ inits < MaxInits)
    \/ main = "start" /\ ToStart # {}
    \/ /\ main = "join" /\ renameMon = {}
       /\ \A f \in Feeders : fpc[f] \in {"none", "done"}
       /\ new = [x \in Files |-> 0] /\ waited = {}

FeederCan(f) ==
    \/ fpc[f] \in {"count", "open", "read", "save", "eof"}
    \/ fpc[f] = "spin" /\ restart

AllStill == /\ ~MainCan /\ \A f \in Feeders : ~FeederCan(f)
            /\ \A x \in Files : ~(new[x] > 0)

(***************************************************************************)
(* The container stands still only when the process is dead, while         *)
(* logReadingThread waits for a line in LUMP, in one of the hangs that     *)
(* CallsReturn excepts, or at the bound on the calls of                    *)
(* initReadLogThread().                                                    *)
(***************************************************************************)
LumpStandsStill ==
    AllStill =>
        \/ main \in {"dead", "waiting"}
        \/ LostNotify \/ Behind \/ Unreleased
        \/ main = "loop" /\ inits = MaxInits

\* In a call of initReadLogThread() whoever is not counted is yet to count
\* itself, or to be started; stopReadLogThread() is called with RESTART_THREAD
\* set.
Waits == {"test", "block", "asleep"}

CallsHold ==
    /\ main \in Waits \cup {"start"} => inits # 0
    /\ main = "start" => \E c \in Components : fpc[<<c, inits>>] = "none"
    /\ main \in Waits \cup {"start"} =>
          \A c \in Components : \/ c \in seen \/ fpc[<<c, inits>>] = "count"
                                \/ main = "start" /\ fpc[<<c, inits>>] = "none"
    /\ main \in {"release", "join"} => restart

LEMMA CallsInit == Init => CallsHold
BY DEF Init, CallsHold, Waits

\* Steps in which nobody who is to count itself disappears.
LEMMA CallsSame ==
  ASSUME IndInv, CallsHold, UNCHANGED inits, seen \subseteq seen', restart => restart',
         \/ main' = main
         \/ main' \in Waits /\ main \in Waits
         \/ main' \in {"read", "waiting", "loop"},
         \A f \in Feeders : /\ fpc[f] = "none" => fpc'[f] = "none"
                            /\ fpc[f] = "count" =>
                                  fpc'[f] = "count" \/ f[2] # inits \/ f[1] \in seen'
  PROVE  CallsHold'
<1> USE DEF Waits
<1>1. inits # 0 => \A c \in Components : <<c, inits>> \in Feeders
  BY Facts DEF IndInv, Types, Feeders
<1>2. main' \in Waits \cup {"start"} => inits' # 0
  BY DEF CallsHold
<1>3. main' = "start" => \E c \in Components : fpc'[<<c, inits'>>] = "none"
  BY <1>1 DEF CallsHold
<1>4. ASSUME main' \in Waits \cup {"start"}, NEW c \in Components
      PROVE  \/ c \in seen' \/ fpc'[<<c, inits'>>] = "count"
             \/ main' = "start" /\ fpc'[<<c, inits'>>] = "none"
  <2>1. inits # 0 /\ (main' = "start" => main = "start")
        /\ (main = "start" => main' = "start")
    BY <1>4 DEF CallsHold
  <2>2. \/ c \in seen \/ fpc[<<c, inits>>] = "count"
        \/ main = "start" /\ fpc[<<c, inits>>] = "none"
    BY <1>4 DEF CallsHold
  <2>3. <<c, inits>> \in Feeders
    BY <1>1, <2>1
  <2> QED BY <2>1, <2>2, <2>3
<1>5. main' \in {"release", "join"} => restart'
  BY DEF CallsHold
<1> QED BY <1>2, <1>3, <1>4, <1>5 DEF CallsHold

LEMMA InitReadLogCalls == ASSUME IndInv, CallsHold, InitReadLog PROVE CallsHold'
<1>1. inits' = inits + 1 /\ main' = "start" /\ fpc' = fpc /\ inits \in Nat /\ inits < MaxInits
  BY Facts DEF InitReadLog, Main, feeders
<1>2. \A c \in Components : fpc[<<c, inits + 1>>] = "none"
  <2> SUFFICES ASSUME NEW c \in Components PROVE fpc[<<c, inits + 1>>] = "none"
    OBVIOUS
  <2>1. <<c, inits + 1>> \in Feeders
    BY <1>1, Facts DEF Feeders
  <2> QED BY <1>1, <2>1 DEF IndInv, Started
<1>3. \E c \in Components : TRUE
  BY LumpAssumption
<1> QED BY <1>1, <1>2, <1>3 DEF CallsHold, Waits

LEMMA StartFeederCalls ==
  ASSUME IndInv, CallsHold, NEW c \in Components, StartFeeder(c) PROVE CallsHold'
<1>1. /\ main = "start" /\ main' = IF ToStart = {c} THEN "test" ELSE "start"
      /\ c \in ToStart /\ fpc' = [fpc EXCEPT ![<<c, inits>>] = "count"]
      /\ UNCHANGED <<seen, inits>>
  BY DEF StartFeeder
<1>2. inits # 0 /\ \A d \in Components : <<d, inits>> \in Feeders
  BY <1>1, Facts DEF CallsHold, IndInv, Types, Feeders
<1>3. \A d \in Components :
         fpc'[<<d, inits>>] = IF d = c THEN "count" ELSE fpc[<<d, inits>>]
  BY <1>1, <1>2 DEF IndInv, Types
<1>4. ASSUME NEW d \in Components
      PROVE  \/ d \in seen \/ fpc'[<<d, inits>>] = "count"
             \/ main' = "start" /\ fpc'[<<d, inits>>] = "none"
  <2>1. \/ d \in seen \/ fpc[<<d, inits>>] = "count" \/ fpc[<<d, inits>>] = "none"
    BY <1>1 DEF CallsHold
  <2>2. CASE d # c /\ fpc[<<d, inits>>] = "none"
    <3>1. d \in ToStart
      BY <2>2 DEF ToStart
    <3>2. main' = "start"
      BY <1>1, <2>2, <3>1
    <3> QED BY <1>3, <2>2, <3>2
  <2> QED BY <1>3, <2>1, <2>2
<1>5. main' = "start" => \E d \in Components : fpc'[<<d, inits>>] = "none"
  <2> SUFFICES ASSUME main' = "start" PROVE \E d \in Components : fpc'[<<d, inits>>] = "none"
    OBVIOUS
  <2>1. PICK d \in ToStart : d # c
    BY <1>1
  <2>2. d \in Components /\ fpc[<<d, inits>>] = "none"
    BY DEF ToStart
  <2> QED BY <1>3, <2>1, <2>2
<1> QED BY <1>1, <1>2, <1>4, <1>5 DEF CallsHold, Waits

LEMMA CallsNext == IndInv /\ CallsHold /\ [Next]_vars => CallsHold'
<1> SUFFICES ASSUME IndInv, CallsHold, [Next]_vars PROVE CallsHold'
  OBVIOUS
<1> USE DEF disk, feeders, first, history, Main, Feed, Waits
<1>0. fpc \in [Feeders -> Places]
  BY DEF IndInv, Types
<1>1. CASE RestartLoop \/ Join \/ StartProgram \/ Dies
  BY <1>1 DEF RestartLoop, Join, StartProgram, Dies, CallsHold
<1>2. CASE InitReadLog \/ \E c \in Components : StartFeeder(c)
  BY <1>2, InitReadLogCalls, StartFeederCalls
<1>3. CASE TestSeen \/ BlockSeen \/ SpuriousWakeup \/ FirstLineThreads
  <2>1. UNCHANGED <<restart, seen, inits, fpc>>
    BY <1>3 DEF TestSeen, BlockSeen, SpuriousWakeup, FirstLineThreads, RegisterFirst
  <2>2. \/ main' = main
        \/ main' \in Waits /\ main \in Waits
        \/ main' \in {"read", "loop"}
    BY <1>3 DEF TestSeen, BlockSeen, SpuriousWakeup, FirstLineThreads, RegisterFirst
  <2> QED BY <2>1, <2>2, CallsSame
<1>4. CASE ReadLump
  BY <1>4 DEF ReadLump, CallsHold
<1>5. CASE Release
  BY <1>5 DEF Release, CallsHold
<1>6. ASSUME NEW f \in Feeders, Count(f) PROVE CallsHold'
  <2>1. \A g \in Feeders : g # f => fpc'[g] = fpc[g]
    BY <1>0, <1>6 DEF Count
  <2>2. /\ UNCHANGED <<main, inits, restart>> /\ seen \subseteq seen' /\ fpc[f] = "count"
        /\ f[2] = inits => f[1] \in seen'
    BY <1>6 DEF Count
  <2> QED BY <2>1, <2>2, CallsSame
<1>7. ASSUME NEW f \in Feeders, Open(f) PROVE CallsHold'
  <2>1. \A g \in Feeders : fpc[g] \in {"none", "count"} => fpc'[g] = fpc[g]
    BY <1>0, <1>7 DEF Open
  <2>2. /\ UNCHANGED <<inits, restart, seen>>
        /\ main' = IF main = "asleep" THEN "test" ELSE main
    BY <1>7 DEF Open
  <2> QED BY <2>1, <2>2, CallsSame
<1>8. ASSUME NEW f \in Feeders,
             Spin(f) \/ FeedLine(f) \/ SaveCtrl(f) \/ EndOfFile(f) \/ Wait4Line(f) \/ LeaveLoop(f)
      PROVE  CallsHold'
  <2>1. \A g \in Feeders : fpc[g] \in {"none", "count"} => fpc'[g] = fpc[g]
    BY <1>0, <1>8 DEF Spin, FeedLine, SaveCtrl, EndOfFile, Wait4Line, LeaveLoop
  <2>2. /\ UNCHANGED <<inits, restart, seen>>
        /\ main' = main \/ main' = "read"
    BY <1>8 DEF Spin, FeedLine, SaveCtrl, EndOfFile, Wait4Line, LeaveLoop
  <2> QED BY <2>1, <2>2, CallsSame
<1>9. ASSUME NEW c \in Components, AddLine(c) \/ Rename(c) \/ Create(c) PROVE CallsHold'
  <2>1. \A g \in Feeders : fpc[g] \in {"none", "count"} => fpc'[g] = fpc[g]
    BY <1>0, <1>9 DEF AddLine, Rename, Create
  <2>2. UNCHANGED <<inits, seen, main>>
    BY <1>9 DEF AddLine, Rename, Create
  <2>3. restart => restart'
    <3>1. CASE AddLine(c) \/ Create(c)
      BY <3>1 DEF AddLine, Create
    <3>2. CASE Rename(c)
      <4>1. restart' = (restart \/ Of(c) \cap renameMon # {})
        BY <3>2 DEF Rename
      <4> QED BY <4>1, Zenon
    <3> QED BY <1>9, <3>1, <3>2
  <2> QED BY <2>1, <2>2, <2>3, CallsSame
<1>10. CASE UNCHANGED vars
  BY <1>10, CallsSame DEF vars
<1>11. CASE Crash \/ \E c \in Components : ComponentGone(c)
  BY <1>1, <1>11 DEF Crash, ComponentGone
<1> QED BY <1>1, <1>2, <1>3, <1>4, <1>5, <1>6, <1>7, <1>8, <1>9, <1>10, <1>11
        DEF Next, ReadingThread, Feeder

(***************************************************************************)
(* The safety half of CallsReturn: initReadLogThread() and                 *)
(* stopReadLogThread() have no other deadlock than the lost notification,  *)
(* the monitor registered behind the release and the wait for the first    *)
(* line of LUMP that is joined before its release.                         *)
(***************************************************************************)
THEOREM CallsHangAsNamed == Spec => []LumpStandsStill
<1>1. IndInv /\ CallsHold => LumpStandsStill
  <2> SUFFICES ASSUME IndInv, CallsHold, ~MainCan, \A f \in Feeders : ~FeederCan(f),
                      \A x \in Files : ~(new[x] > 0),
                      main \notin {"dead", "waiting"},
                      ~LostNotify, ~Behind, ~Unreleased
               PROVE  main = "loop" /\ inits = MaxInits
    BY DEF LumpStandsStill, AllStill
  <2>1. main # "asleep"
    <3> SUFFICES ASSUME main = "asleep" PROVE FALSE
      OBVIOUS
    <3>1. seen \subseteq Components
      BY DEF IndInv, Types
    <3>2. PICK c \in Components : c \notin seen
      BY <3>1 DEF LostNotify
    <3>3. inits # 0 /\ fpc[<<c, inits>>] = "count"
      BY <3>2 DEF CallsHold, Waits
    <3>4. <<c, inits>> \in Feeders
      BY <3>3, Facts DEF IndInv, Types, Feeders
    <3> QED BY <3>3, <3>4 DEF FeederCan
  <2>2. main # "join"
    <3> SUFFICES ASSUME main = "join" PROVE FALSE
      OBVIOUS
    <3>1. restart
      BY DEF CallsHold
    <3>2. \A f \in Feeders : fpc[f] \in {"none", "done", "waiting"}
      BY <3>1 DEF FeederCan, IndInv, Types
    <3>3. \A f \in Feeders : fpc[f] # "waiting" /\ f \notin renameMon
      BY DEF Behind
    <3>4. renameMon = {}
      BY <3>3 DEF IndInv, Types
    <3>5. new = [x \in Files |-> 0]
      BY DEF IndInv, Types
    <3>6. waited = {}
      BY DEF Behind, Unreleased, IndInv, Types, Files
    <3> QED BY <3>2, <3>3, <3>4, <3>5, <3>6 DEF MainCan
  <2>3. main # "start"
    BY DEF MainCan, CallsHold, ToStart
  <2>4. main = "loop" /\ ~(inits < MaxInits)
    BY <2>1, <2>2, <2>3 DEF MainCan, IndInv, Types
  <2>5. inits \in 0 .. MaxInits /\ MaxInits \in Nat
    BY Facts DEF IndInv, Types
  <2> QED BY <2>4, <2>5
<1>2. Init => CallsHold
  BY CallsInit
<1>3. IndInv /\ CallsHold /\ [Next]_vars => CallsHold'
  BY CallsNext
<1> QED BY <1>1, <1>2, <1>3, Invariance, PTL DEF Spec
=============================================================================
