------------------------ MODULE LogFileCtrl_proofs ------------------------
(***************************************************************************)
(* What the two readers of a log and its control files keep right, for     *)
(* every length of the log, every number of starts and of crashes.         *)
(***************************************************************************)
EXTENDS LogFileCtrl, TLAPS

Starting == phase \notin {"off", "run"}

\* What is written before this run, or by its start, lies within the file as
\* this run found it.
WithinFile ==
    /\ firstEOF <= size /\ ctrl.nextLog <= size /\ ctrl.segEOF <= size
    /\ phase # "off" => segEOF <= firstEOF /\ ctrl.segEOF <= firstEOF

\* Nobody reads before fileHasBackLog() has returned.
NotReading ==
    /\ phase = "off" => live = Fresh /\ catch = Fresh /\ inLife = {}
    /\ Starting => /\ segEOF = firstEOF /\ ctrl.nextLog <= firstEOF
                   /\ live.pos = firstEOF /\ live.next <= firstEOF
                   /\ live.busy = {} /\ live.done = {} /\ live.hold = {}
                   /\ live.at = "none" /\ catch = Fresh /\ inLife = {}

\* What the live reader has read is processed or in flight.
LiveReader ==
    phase = "run" =>
        /\ firstEOF <= live.pos /\ live.pos <= size /\ live.next <= live.pos
        /\ Taken(live) \subseteq firstEOF .. (live.pos - 1)
        /\ live.at = "asleep" => live.next \notin live.busy
        /\ firstEOF .. (live.pos - 1) \subseteq inLife \cup Taken(live)
        /\ live.done # {} => firstEOF <= live.next
        /\ live.busy # {} => firstEOF <= live.next
        /\ ctrl.nextLog <= firstEOF \/ ctrl.nextLog <= live.next

\* The same for the catch-up reader, which stays below the live one.
CatchReader ==
    phase = "run" =>
        IF catch.at \in {"none", "init"}
        THEN /\ catch.busy = {} /\ catch.done = {} /\ catch.hold = {}
             /\ \A l \in inLife : firstEOF <= l
        ELSE /\ catch.from <= catch.pos /\ catch.next <= catch.pos
             /\ Taken(catch) \subseteq catch.from .. (catch.pos - 1)
             /\ catch.at = "asleep" => catch.next \notin catch.busy
             /\ \A l \in Taken(catch) : l < segEOF
             /\ catch.from .. (catch.pos - 1) \subseteq inLife \cup Taken(catch)
             /\ ctrl.nextCatch <= catch.pos
             /\ \A l \in inLife : firstEOF <= l \/ l < catch.pos

ReadToEnd ==
    catch.at \in {"removing", "done", "spin"} /\ ~stopping => segEOF <= catch.pos

\* A line processed in this run has been read in this run.
InLifeIsRead == \A l \in inLife : l < live.pos

IndInv == TypeOK /\ WithinFile /\ NotReading /\ LiveReader /\ CatchReader
          /\ ReadToEnd /\ InLifeIsRead /\ OncePerLife

\* IndInv without TypeOK.
Parts == WithinFile /\ NotReading /\ LiveReader /\ CatchReader /\ ReadToEnd
         /\ InLifeIsRead /\ OncePerLife

LEMMA FreshIsReader == Fresh \in Reader
BY CtrlAssumption DEF Fresh, Reader, Positions, LogLines

(***************************************************************************)
(* The types of what the steps of the readers compare.                     *)
(***************************************************************************)
LEMMA Facts ==
  ASSUME IndInv
  PROVE  /\ size \in Nat /\ firstEOF \in Nat /\ segEOF \in Nat
         /\ size <= MaxLines /\ MaxLines \in Nat
         /\ live \in Reader /\ catch \in Reader
         /\ live.pos \in Nat /\ live.next \in Nat /\ live.last \in Nat
         /\ catch.pos \in Nat /\ catch.next \in Nat /\ catch.from \in Nat
         /\ live.busy \subseteq LogLines /\ live.done \subseteq LogLines
         /\ catch.busy \subseteq LogLines /\ catch.done \subseteq LogLines
         /\ inLife \subseteq LogLines /\ LogLines \subseteq Nat
         /\ ctrl.nextLog \in Int /\ ctrl.segEOF \in Int /\ ctrl.nextCatch \in Int
BY CtrlAssumption DEF IndInv, TypeOK, Reader, Positions, LogLines, CtrlValue, Absent

-----------------------------------------------------------------------------
(***************************************************************************)
(* The initial states satisfy the inductive invariant.                     *)
(***************************************************************************)
LEMMA InitInv == Init => IndInv
<1> SUFFICES ASSUME Init PROVE IndInv
  OBVIOUS
<1>1. FirstLines \in Positions /\ 0 \in Positions
  BY CtrlAssumption DEF Positions
<1>2. NoCtrl \in [nextLog : CtrlValue, segEOF : CtrlValue, nextCatch : CtrlValue]
  BY DEF NoCtrl, CtrlValue, Absent
<1>3. 0 \in 0 .. MaxStarts /\ 0 \in 0 .. MaxCrashes
  BY CtrlAssumption
<1>4. TypeOK
  BY <1>1, <1>2, <1>3, FreshIsReader DEF Init, TypeOK
<1>5. Parts
  BY <1>1 DEF Init, Parts, WithinFile, NotReading, LiveReader, Taken, CatchReader, ReadToEnd,
     InLifeIsRead, OncePerLife, Starting, NoCtrl, Absent, Fresh, Positions
<1> QED BY <1>4, <1>5 DEF IndInv, Parts

(***************************************************************************)
(* A start finds positions within the file.                                *)
(***************************************************************************)
LEMMA InitReadLogKeeps ==
  ASSUME IndInv, InitReadLog
  PROVE  IndInv'
<1>1. /\ phase' = "backlog" /\ segEOF' = size /\ firstEOF' = size /\ inLife' = {}
      /\ live' = [Fresh EXCEPT !.from = size, !.pos = size]
      /\ catch' = Fresh /\ haveSegs' = FALSE /\ stopping' = FALSE
      /\ UNCHANGED <<size, ctrl, segments, crashes, rotated>>
      /\ starts < MaxStarts /\ starts' = starts + 1
  BY DEF InitReadLog, disk
<1>2. TypeOK'
  <2>1. live' \in Reader /\ catch' \in Reader
    BY <1>1, FreshIsReader DEF IndInv, TypeOK, Reader
  <2>2. starts' \in 0 .. MaxStarts
    BY <1>1, CtrlAssumption DEF IndInv, TypeOK
  <2> QED BY <1>1, <2>1, <2>2 DEF IndInv, TypeOK
<1>3. /\ live'.pos = size /\ live'.next = 0 /\ live'.busy = {} /\ live'.done = {}
      /\ live'.hold = {} /\ live'.at = "none" /\ size \in Nat /\ catch'.busy = {} /\ catch'.at = "none"
  BY <1>1 DEF Fresh, IndInv, TypeOK, Positions
<1>4. Parts'
  BY <1>1, <1>3 DEF IndInv, Parts, WithinFile, NotReading, LiveReader, Taken, CatchReader,
     ReadToEnd, InLifeIsRead, OncePerLife, Starting
<1> QED BY <1>2, <1>4 DEF IndInv, Parts

(***************************************************************************)
(* fileHasBackLog(): it writes positions within the file, and when it      *)
(* returns nothing has been read.                                          *)
(***************************************************************************)
LEMMA StartUpKeeps ==
  ASSUME IndInv, StartUp
  PROVE  IndInv'
<1>1. /\ Starting
      /\ UNCHANGED <<size, starts, crashes, rotated, stopping, segEOF, haveSegs, firstEOF,
                     inLife>>
  BY DEF StartUp, Case2NextLog, Case2SegEOF, Case2NextCatch, Case3Nothing, Case312Seg,
     Case312Rename, Case322Rename, Case322Seg, Starting, env, mem
<1>2. /\ segEOF = firstEOF /\ ctrl.nextLog <= firstEOF
      /\ live.pos = firstEOF /\ live.next <= firstEOF /\ live.busy = {} /\ live.done = {}
      /\ live.hold = {} /\ live.at = "none"
      /\ catch = Fresh /\ inLife = {} /\ phase # "off" /\ phase # "run"
      /\ firstEOF <= size /\ firstEOF \in Positions /\ Positions \subseteq Nat
  BY <1>1, CtrlAssumption DEF IndInv, NotReading, Starting, WithinFile, TypeOK, Positions
<1>3. /\ phase' \in {"case2seg", "case2catch", "case312", "case322", "run"}
      /\ ctrl' \in [nextLog : CtrlValue, segEOF : CtrlValue, nextCatch : CtrlValue]
      /\ ctrl'.nextLog \in {ctrl.nextLog, segEOF, Absent}
      /\ ctrl'.segEOF \in {ctrl.segEOF, segEOF}
      /\ ctrl'.nextCatch \in {ctrl.nextCatch, 0, ctrl.nextLog}
  <2>1. catch.next = 0 /\ 0 \in CtrlValue
    BY <1>2, CtrlAssumption DEF Fresh, Positions, CtrlValue
  <2>2. /\ ctrl \in [nextLog : CtrlValue, segEOF : CtrlValue, nextCatch : CtrlValue]
        /\ segEOF \in CtrlValue /\ Absent \in CtrlValue
    BY DEF IndInv, TypeOK, CtrlValue
  <2> USE DEF StartUp, Case2NextLog, Case2SegEOF, Case2NextCatch, Case3Nothing, Case312Seg,
     Case312Rename, Case322Rename, Case322Seg, LiveFrom, Return, disk, NoNextLog
  <2> QED BY <2>1, <2>2
<1>4. /\ \/ UNCHANGED live
         \/ \E n \in {live.next, ctrl.nextLog} \cap Positions :
               \E a \in {live.at, "read"} :
                  /\ live' = [live EXCEPT !.next = n, !.at = a]
                  /\ phase' # "run" => a = live.at
      /\ catch' = catch \/ \E a \in {"init", "none"} : catch' = [catch EXCEPT !.at = a]
      /\ phase' # "run" => UNCHANGED catch
  <2>1. /\ live.next \in Positions
        /\ ~NoNextLog => ctrl.nextLog \in Positions
        /\ live.at \in {live.at, "read"}
    BY DEF IndInv, TypeOK, Reader, NoNextLog, CtrlValue
  <2>2. CASE Case2NextLog \/ Case2SegEOF
    BY <2>2 DEF Case2NextLog, Case2SegEOF, mem
  <2>3. CASE Case2NextCatch \/ Case312Rename \/ Case322Seg
    <3>1. live' = [live EXCEPT !.next = live.next, !.at = "read"]
          /\ catch' = [catch EXCEPT !.at = "init"] /\ phase' = "run"
      BY <2>3 DEF Case2NextCatch, Case312Rename, Case322Seg, LiveFrom, Return
    <3> QED BY <2>1, <3>1
  <2>4. CASE Case3Nothing
    <3>1. live' = [live EXCEPT !.next = ctrl.nextLog, !.at = "read"] /\ ~NoNextLog
          /\ catch' = [catch EXCEPT !.at = "none"] /\ phase' = "run"
      BY <2>4 DEF Case3Nothing, LiveFrom, Return
    <3> QED BY <2>1, <3>1
  <2>5. CASE Case312Seg \/ Case322Rename
    <3>1. live' = [live EXCEPT !.next = ctrl.nextLog] /\ ~NoNextLog /\ UNCHANGED catch
      BY <2>5 DEF Case312Seg, Case322Rename
    <3>2. live' = [live EXCEPT !.next = ctrl.nextLog, !.at = live.at]
      BY <3>1 DEF IndInv, TypeOK, Reader
    <3> QED BY <2>1, <3>1, <3>2
  <2> QED BY <2>2, <2>3, <2>4, <2>5 DEF StartUp
<1>5. segments' \subseteq [from : Positions, eof : CtrlValue]
  <2>1. /\ segments \subseteq [from : Positions, eof : CtrlValue]
        /\ live.next \in Positions /\ segEOF \in CtrlValue /\ Absent \in CtrlValue
        /\ ~NoNextLog => ctrl.nextLog \in Positions
    BY DEF IndInv, TypeOK, Reader, NoNextLog, CtrlValue
  <2>2. CASE Case322Rename
    BY <2>1, <2>2 DEF Case322Rename
  <2>3. CASE Case322Seg
    <3>1. [from |-> live.next, eof |-> segEOF] \in [from : Positions, eof : CtrlValue]
      BY <2>1
    <3> QED BY <2>1, <2>3, <3>1 DEF Case322Seg
  <2>4. CASE ~Case322Rename /\ ~Case322Seg
    BY <2>1, <2>4 DEF StartUp, Case2NextLog, Case2SegEOF, Case2NextCatch, Case3Nothing,
       Case312Seg, Case312Rename, disk
  <2> QED BY <2>2, <2>3, <2>4
<1>6. /\ live'.pos = firstEOF /\ live'.next <= firstEOF
      /\ live'.busy = {} /\ live'.done = {} /\ live'.hold = {} /\ live' \in Reader
      /\ live'.at \in {"none", "read"} /\ (phase' # "run" => live'.at = "none")
  BY <1>2, <1>4 DEF IndInv, TypeOK, Reader
<1>7. /\ catch' \in Reader /\ catch'.busy = {} /\ catch'.done = {} /\ catch'.hold = {}
      /\ catch'.at \in {"none", "init"} /\ (phase' # "run" => catch' = Fresh)
  <2>1. /\ catch \in Reader /\ catch.busy = {} /\ catch.done = {} /\ catch.hold = {}
        /\ catch.at = "none"
    BY <1>2 DEF Fresh, IndInv, TypeOK
  <2>2. CASE catch' = catch BY <1>2, <2>1, <2>2
  <2>3. CASE \E a \in {"init", "none"} : catch' = [catch EXCEPT !.at = a]
    <3>1. PICK a \in {"init", "none"} : catch' = [catch EXCEPT !.at = a]
      BY <2>3
    <3>2. /\ catch' \in Reader /\ catch'.busy = {} /\ catch'.done = {} /\ catch'.hold = {}
          /\ catch'.at = a
      BY <2>1, <3>1 DEF Reader
    <3> QED BY <1>2, <1>4, <3>1, <3>2
  <2> QED BY <1>4, <2>2, <2>3
<1>8. TypeOK'
  BY <1>1, <1>3, <1>5, <1>6, <1>7 DEF IndInv, TypeOK
<1>9. ctrl'.nextLog <= firstEOF /\ ctrl'.segEOF <= firstEOF
  BY <1>2, <1>3 DEF IndInv, WithinFile, Absent
<1>10. WithinFile' /\ NotReading'
  <2>1. ctrl'.nextLog <= size /\ ctrl'.segEOF <= size
    BY <1>2, <1>3, <1>9, Facts DEF Absent, IndInv, WithinFile
  <2>2. WithinFile'
    BY <1>1, <1>2, <1>9, <2>1 DEF WithinFile
  <2>3. NotReading'
    BY <1>1, <1>2, <1>3, <1>6, <1>7, <1>9 DEF NotReading, Starting
  <2> QED BY <2>2, <2>3
<1>11. LiveReader'
  BY <1>1, <1>2, <1>6, <1>9 DEF LiveReader, Taken
<1>12. CatchReader' /\ ReadToEnd' /\ InLifeIsRead' /\ OncePerLife'
  BY <1>1, <1>2, <1>6, <1>7 DEF CatchReader, Taken, ReadToEnd, InLifeIsRead, OncePerLife
<1> QED BY <1>8, <1>10, <1>11, <1>12 DEF IndInv, Parts

-----------------------------------------------------------------------------
(***************************************************************************)
(* logReadingThread takes the next line: none of this run's lines is it.   *)
(***************************************************************************)
LEMMA ReadLiveKeeps ==
  ASSUME IndInv, ReadLive \/ SleepLive
  PROVE  IndInv'
<1> USE Facts
<1>1. /\ phase = "run" /\ live.at = "read"
      /\ UNCHANGED <<size, ctrl, segments, phase, stopping, segEOF, catch, haveSegs, starts,
                     crashes, rotated, firstEOF, inLife>>
  BY DEF ReadLive, SleepLive, env, disk
<1>2. CASE live.pos < size
  <2>1. \/ live' = [live EXCEPT !.next = live.pos, !.pos = live.pos + 1,
                                !.busy = live.busy \cup {live.pos}]
        \/ live' = [live EXCEPT !.next = live.pos, !.pos = live.pos + 1, !.at = "asleep"]
    BY <1>2 DEF ReadLive, SleepLive, Asleep
  <2>2. /\ live'.next = live.pos /\ live'.pos = live.pos + 1 /\ live'.done = live.done
        /\ \/ live'.busy = live.busy \cup {live.pos} /\ live'.at = "read"
           \/ live'.busy = live.busy /\ live'.at = "asleep"
    <3>1. CASE live' = [live EXCEPT !.next = live.pos, !.pos = live.pos + 1,
                                    !.busy = live.busy \cup {live.pos}]
      BY <1>1, <3>1 DEF Reader
    <3>2. CASE live' = [live EXCEPT !.next = live.pos, !.pos = live.pos + 1, !.at = "asleep"]
      <4>1. live'.next = live.pos /\ live'.pos = live.pos + 1 /\ live'.at = "asleep"
        BY <3>2 DEF Reader
      <4>2. live'.done = live.done /\ live'.busy = live.busy
        BY <3>2 DEF Reader
      <4> QED BY <4>1, <4>2
    <3> QED BY <2>1, <3>1, <3>2
  <2>3. live.pos \in LogLines /\ live.pos + 1 \in Positions
    BY <1>2 DEF LogLines, Positions
  <2>4. live' \in Reader
    <3>1. live.busy \cup {live.pos} \in SUBSET LogLines
      BY <2>3 DEF Reader
    <3> QED BY <2>1, <2>3, <3>1 DEF Reader
  <2>5. TypeOK'
    BY <1>1, <2>4 DEF IndInv, TypeOK
  <2>6. WithinFile' /\ NotReading' /\ ReadToEnd'
    BY <1>1 DEF IndInv, WithinFile, NotReading, Starting, ReadToEnd
  <2>7. CatchReader' /\ Taken(catch)' = Taken(catch)
    BY <1>1 DEF IndInv, CatchReader, Taken
  <2>13. Taken(live)' = Taken(live) \cup {live.pos}
    BY <1>1, <2>2 DEF Taken
  <2>14. live.pos \notin live.busy
    BY <1>1 DEF IndInv, LiveReader, Taken
  <2>8. LiveReader'
    BY <1>1, <1>2, <2>2, <2>13, <2>14 DEF IndInv, LiveReader
  <2>9. InLifeIsRead'
    BY <1>1, <2>2 DEF IndInv, InLifeIsRead
  <2>10. firstEOF <= live.pos /\ segEOF <= firstEOF
    BY <1>1 DEF IndInv, LiveReader, WithinFile
  <2>11. live.pos \notin Taken(catch) /\ live.pos \notin inLife
    <3>1. catch.at \in {"none", "init"} => Taken(catch) = {}
      BY <1>1 DEF IndInv, CatchReader, Taken
    <3> QED BY <1>1, <2>10, <3>1 DEF IndInv, CatchReader, InLifeIsRead
  <2>12. OncePerLife'
    BY <1>1, <2>7, <2>13, <2>11 DEF IndInv, OncePerLife
  <2> QED BY <2>5, <2>6, <2>7, <2>8, <2>9, <2>12 DEF IndInv
<1>3. CASE ~(live.pos < size)
  <2>1. live' = [live EXCEPT !.next = live.pos, !.at = "eof"]
    BY <1>3 DEF ReadLive, SleepLive
  <2>2. /\ live'.next = live.pos /\ live'.pos = live.pos /\ live'.done = live.done
        /\ live'.busy = live.busy /\ live' \in Reader
        /\ live'.at = "eof"
    BY <2>1 DEF Reader
  <2>3. TypeOK'
    BY <1>1, <2>2 DEF IndInv, TypeOK
  <2>4. LiveReader'
    BY <1>1, <2>2 DEF IndInv, LiveReader, Taken
  <2> QED BY <1>1, <2>2, <2>3, <2>4 DEF IndInv, WithinFile, NotReading, Starting, ReadToEnd,
          CatchReader, Taken, InLifeIsRead, OncePerLife
<1> QED BY <1>2, <1>3

(***************************************************************************)
(* Only the place of the live reader changes, and the file may grow.       *)
(***************************************************************************)
LEMMA PlaceKeeps ==
  ASSUME IndInv, ArmWatch \/ Append
  PROVE  IndInv'
<1> USE Facts
<1>1. /\ UNCHANGED <<ctrl, segments, phase, stopping, segEOF, catch, haveSegs, starts,
                     crashes, rotated, firstEOF, inLife>>
      /\ size' \in {size, size + 1} /\ size' <= MaxLines
      /\ \E a \in {"armed", "read", live.at} :
            /\ live' = [live EXCEPT !.at = a]
            /\ a # live.at => live.at \in {"eof", "armed"}
      /\ phase = "off" => live' = live
  <2>1. CASE ArmWatch
    <3>1. UNCHANGED <<size, starts, crashes, rotated, ctrl, segments>> /\ phase # "off"
      BY <2>1 DEF ArmWatch, env, disk
    <3> QED BY <2>1, <3>1 DEF ArmWatch
  <2>2. CASE Append
    <3>1. live' = [live EXCEPT !.at = IF live.at = "armed" THEN "read" ELSE live.at]
      BY <2>2 DEF Append
    <3>2. phase = "off" => live.at = "none" /\ live = [live EXCEPT !.at = "none"]
      BY DEF IndInv, NotReading, Fresh
    <3> QED BY <2>2, <3>1, <3>2 DEF Append, disk
  <2> QED BY <2>1, <2>2
<1>2. /\ live'.next = live.next /\ live'.pos = live.pos /\ live'.done = live.done
      /\ live'.busy = live.busy /\ live' \in Reader
      /\ live'.at = "asleep" <=> live.at = "asleep"
  BY <1>1 DEF Reader
<1>3. TypeOK'
  <2>1. size' \in Positions
    BY <1>1 DEF Positions
  <2> QED BY <1>1, <1>2, <2>1 DEF IndInv, TypeOK
<1>4. WithinFile' /\ NotReading'
  BY <1>1, <1>2 DEF IndInv, WithinFile, NotReading, Starting
<1>5. LiveReader'
  BY <1>1, <1>2 DEF IndInv, LiveReader, Taken
<1>6. CatchReader' /\ ReadToEnd' /\ InLifeIsRead' /\ OncePerLife'
  BY <1>1, <1>2 DEF IndInv, CatchReader, Taken, ReadToEnd, InLifeIsRead, OncePerLife
<1> QED BY <1>3, <1>4, <1>5, <1>6 DEF IndInv

(***************************************************************************)
(* The notification arrives: the line held goes onto the belt.             *)
(***************************************************************************)
LEMMA WakeLiveKeeps ==
  ASSUME IndInv, WakeLive
  PROVE  IndInv'
<1> USE Facts
<1>1. /\ live.at = "asleep"
      /\ live' = [live EXCEPT !.busy = live.busy \cup {live.next}, !.at = "read"]
      /\ UNCHANGED <<size, ctrl, segments, phase, stopping, segEOF, catch, haveSegs, starts,
                     crashes, rotated, firstEOF, inLife>>
  BY DEF WakeLive, Awake, env, disk
<1>2. /\ live'.next = live.next /\ live'.pos = live.pos /\ live'.done = live.done
      /\ live'.busy = live.busy \cup {live.next} /\ live'.at = "read"
  BY <1>1 DEF Reader
<1>3. phase = "run"
  BY <1>1 DEF IndInv, NotReading, Starting, Fresh
<1>4. /\ Taken(live)' = Taken(live) /\ live.next \in Taken(live)
      /\ Taken(catch)' = Taken(catch)
  BY <1>1, <1>2 DEF Taken
<1>5. firstEOF <= live.next /\ live.next < live.pos /\ live.pos <= size
  BY <1>3, <1>4 DEF IndInv, LiveReader
<1>6. TypeOK'
  <2>1. live.next \in LogLines
    BY <1>5 DEF LogLines
  <2>2. live' \in Reader
    BY <1>1, <2>1 DEF Reader
  <2> QED BY <1>1, <2>2 DEF IndInv, TypeOK
<1>7. WithinFile' /\ NotReading' /\ ReadToEnd'
  BY <1>1, <1>3 DEF IndInv, WithinFile, NotReading, Starting, ReadToEnd
<1>8. LiveReader' /\ CatchReader'
  BY <1>1, <1>2, <1>3, <1>4, <1>5 DEF IndInv, LiveReader, CatchReader
<1>9. InLifeIsRead' /\ OncePerLife'
  BY <1>1, <1>2, <1>4 DEF IndInv, InLifeIsRead, OncePerLife
<1> QED BY <1>6, <1>7, <1>8, <1>9 DEF IndInv

(***************************************************************************)
(* A line in flight becomes one of this run's lines.                       *)
(***************************************************************************)
LEMMA SeeLiveKeeps ==
  ASSUME IndInv, NEW l \in LogLines, SeeLive(l)
  PROVE  IndInv'
<1> USE Facts
<1>1. /\ l \in live.busy /\ inLife' = inLife \cup {l}
      /\ live' = [live EXCEPT !.busy = live.busy \ {l}, !.done = live.done \cup {l}]
      /\ UNCHANGED <<size, ctrl, segments, phase, stopping, segEOF, catch, haveSegs, starts,
                     crashes, rotated, firstEOF>>
  BY DEF SeeLive, env, disk
<1>2. /\ live'.next = live.next /\ live'.pos = live.pos
      /\ live'.busy = live.busy \ {l} /\ live'.done = live.done \cup {l}
      /\ live'.at = live.at
      /\ live' \in Reader
  BY <1>1 DEF Reader
<1>3. phase = "run"
  BY <1>1 DEF IndInv, NotReading, Starting, Fresh
<1>4. firstEOF <= l /\ l < live.pos /\ l \notin Taken(catch)
  BY <1>1, <1>3 DEF IndInv, LiveReader, Taken, OncePerLife
<1>10. Taken(live)' = Taken(live) \ {l} /\ Taken(catch)' = Taken(catch)
  BY <1>1, <1>2, <1>3 DEF IndInv, LiveReader, Taken
<1>5. TypeOK'
  BY <1>1, <1>2 DEF IndInv, TypeOK
<1>6. WithinFile' /\ NotReading' /\ ReadToEnd'
  BY <1>1, <1>3 DEF IndInv, WithinFile, NotReading, Starting, ReadToEnd
<1>7. LiveReader'
  BY <1>1, <1>2, <1>3, <1>10 DEF IndInv, LiveReader
<1>8. CatchReader'
  BY <1>1, <1>3, <1>4, <1>10 DEF IndInv, CatchReader
<1>9. InLifeIsRead' /\ OncePerLife'
  BY <1>1, <1>2, <1>4, <1>10 DEF IndInv, InLifeIsRead, OncePerLife
<1> QED BY <1>5, <1>6, <1>7, <1>8, <1>9 DEF IndInv

(***************************************************************************)
(* The position written is the reader's: beyond the end of file found at   *)
(* the start, and not beyond what it has read.                             *)
(***************************************************************************)
LEMMA WriteLiveKeeps ==
  ASSUME IndInv, NEW l \in LogLines, WriteLive(l) \/ StoreLive(l)
  PROVE  IndInv'
<1> USE Facts
<1>1. /\ l \in live.done \cup live.hold
      /\ \/ /\ ctrl' = [ctrl EXCEPT !.nextLog = live.next] /\ l \in live.done
            /\ live' = [live EXCEPT !.done = live.done \ {l}, !.hold = {l}]
         \/ ctrl' = ctrl /\ live' = [live EXCEPT !.done = live.done \ {l}]
         \/ ctrl' = ctrl /\ live' = [live EXCEPT !.hold = {}, !.last = live.next]
      /\ UNCHANGED <<size, segments, phase, stopping, segEOF, catch, haveSegs, starts,
                     crashes, rotated, firstEOF, inLife>>
  BY DEF WriteLive, StoreLive, env, disk
<1>2. phase = "run"
  BY <1>1 DEF IndInv, NotReading, Starting, Fresh
<1>3. /\ live'.next = live.next /\ live'.pos = live.pos
      /\ live'.busy = live.busy /\ live'.done \subseteq live.done
      /\ live'.at = live.at /\ live' \in Reader
  <2>1. {l} \in SUBSET LogLines /\ {} \in SUBSET LogLines /\ live.next \in Positions
        /\ live.done \ {l} \in SUBSET LogLines
    BY DEF Reader
  <2> QED BY <1>1, <2>1 DEF Reader
<1>4. /\ ctrl' \in [nextLog : CtrlValue, segEOF : CtrlValue, nextCatch : CtrlValue]
      /\ \/ ctrl'.nextLog = ctrl.nextLog
         \/ ctrl'.nextLog = live.next /\ live.done # {}
      /\ ctrl'.segEOF = ctrl.segEOF /\ ctrl'.nextCatch = ctrl.nextCatch
  BY <1>1 DEF IndInv, TypeOK, Reader, CtrlValue
<1>5. TypeOK'
  BY <1>1, <1>3, <1>4 DEF IndInv, TypeOK
<1>6. live.next <= live.pos /\ live.pos <= size
  BY <1>2 DEF IndInv, LiveReader, Taken
<1>7. WithinFile' /\ NotReading' /\ ReadToEnd'
  BY <1>1, <1>2, <1>4, <1>6 DEF IndInv, WithinFile, NotReading, Starting, ReadToEnd
<1>8. LiveReader'
  BY <1>1, <1>2, <1>3, <1>4 DEF IndInv, LiveReader, Taken
<1>9. CatchReader'
  BY <1>1, <1>4 DEF IndInv, CatchReader, Taken
<1>10. InLifeIsRead' /\ OncePerLife'
  BY <1>1, <1>3 DEF IndInv, InLifeIsRead, OncePerLife, Taken
<1> QED BY <1>5, <1>7, <1>8, <1>9, <1>10 DEF IndInv

-----------------------------------------------------------------------------
(***************************************************************************)
(* A step of the catch-up side leaves the live reader and its control file *)
(* alone; what remains to be shown of it.                                  *)
(***************************************************************************)
LEMMA CatchSide ==
  ASSUME IndInv, phase = "run", TypeOK',
         UNCHANGED <<size, phase, stopping, live, firstEOF>>,
         ctrl'.nextLog = ctrl.nextLog, ctrl'.segEOF <= firstEOF, segEOF' <= firstEOF,
         inLife \subseteq inLife', InLifeIsRead',
         CatchReader', ReadToEnd', OncePerLife'
  PROVE  IndInv'
<1> USE Facts
<1>1. WithinFile'
  <2>1. ctrl'.segEOF \in Int
    BY DEF TypeOK, CtrlValue, Positions, Absent
  <2> QED BY <2>1 DEF IndInv, WithinFile
<1>2. NotReading'
  BY DEF NotReading, Starting
<1>3. LiveReader'
  BY DEF IndInv, LiveReader, Taken
<1> QED BY <1>1, <1>2, <1>3 DEF IndInv

LEMMA InitCatchUpKeeps ==
  ASSUME IndInv, InitCatchUp
  PROVE  IndInv'
<1> USE Facts
<1>1. PICK next \in {catch.next, ctrl.nextCatch} \cap Positions :
         /\ catch' = [catch EXCEPT !.at = "read", !.from = next, !.next = next,
                                   !.pos = next]
         /\ ctrl.nextCatch <= next
  <2> DEFINE n == IF ctrl.nextCatch = Absent THEN catch.next ELSE ctrl.nextCatch
  <2>1. catch' = [catch EXCEPT !.at = "read", !.from = n, !.next = n, !.pos = n]
    BY DEF InitCatchUp
  <2>2. n \in {catch.next, ctrl.nextCatch} \cap Positions /\ ctrl.nextCatch <= n
    BY DEF IndInv, TypeOK, Reader, CtrlValue, Absent
  <2> QED BY <2>1, <2>2
<1>2. /\ phase = "run" /\ catch.at = "init" /\ segEOF' \in {segEOF, ctrl.segEOF} \cap Positions
      /\ haveSegs' \in BOOLEAN
      /\ UNCHANGED <<size, ctrl, segments, phase, stopping, live, starts, crashes, rotated,
                     firstEOF, inLife>>
  BY DEF InitCatchUp, env, disk, IndInv, TypeOK, CtrlValue
<1>3. /\ catch'.at = "read" /\ catch'.from = next /\ catch'.next = next /\ catch'.pos = next
      /\ catch'.busy = catch.busy /\ catch'.done = catch.done /\ catch' \in Reader
      /\ catch'.hold = catch.hold /\ next \in Nat
  <2>1. next \in Positions /\ next \in Nat /\ catch \in Reader
    BY CtrlAssumption DEF Positions
  <2> QED BY <1>1, <2>1 DEF Reader
<1>4. TypeOK'
  BY <1>2, <1>3 DEF IndInv, TypeOK
<1>5. segEOF' <= firstEOF /\ ctrl'.segEOF <= firstEOF
  BY <1>2 DEF IndInv, WithinFile
<1>6. catch.busy = {} /\ \A l \in inLife : firstEOF <= l
  BY <1>2 DEF IndInv, CatchReader, Taken
<1>7. CatchReader'
  BY <1>1, <1>2, <1>3, <1>6 DEF CatchReader, Taken
<1>8. ReadToEnd' /\ InLifeIsRead' /\ OncePerLife'
  BY <1>2, <1>3, <1>6 DEF IndInv, ReadToEnd, InLifeIsRead, OncePerLife, Taken
<1> QED BY <1>2, <1>4, <1>5, <1>7, <1>8, CatchSide

(***************************************************************************)
(* catchUpLogThread takes the next line of its segment: below the end of   *)
(* file the live reader started from.                                      *)
(***************************************************************************)
LEMMA ReadCatchUpKeeps ==
  ASSUME IndInv, ReadCatchUp \/ SleepCatchUp
  PROVE  IndInv'
<1> USE Facts
<1>1. /\ phase = "run" /\ ~stopping /\ catch.at = "read" /\ catch.pos < segEOF
      /\ \/ catch' = [catch EXCEPT !.next = catch.pos, !.pos = catch.pos + 1,
                                   !.busy = catch.busy \cup {catch.pos}]
         \/ catch' = [catch EXCEPT !.next = catch.pos, !.pos = catch.pos + 1, !.at = "asleep"]
      /\ UNCHANGED <<size, ctrl, segments, phase, stopping, segEOF, live, haveSegs, starts,
                     crashes, rotated, firstEOF, inLife>>
  BY DEF ReadCatchUp, SleepCatchUp, Asleep, env, disk
<1>2. segEOF <= firstEOF /\ ctrl.segEOF <= firstEOF /\ firstEOF <= MaxLines
  BY <1>1 DEF IndInv, WithinFile
<1>3. catch.pos \in LogLines /\ catch.pos + 1 \in Positions
  BY <1>1, <1>2 DEF LogLines, Positions
<1>4. /\ catch'.from = catch.from /\ catch'.next = catch.pos
      /\ catch'.pos = catch.pos + 1 /\ catch' \in Reader
      /\ \/ catch'.busy = catch.busy \cup {catch.pos} /\ catch'.at = "read"
         \/ catch'.busy = catch.busy /\ catch'.at = "asleep"
  <2>1. CASE catch' = [catch EXCEPT !.next = catch.pos, !.pos = catch.pos + 1,
                                    !.busy = catch.busy \cup {catch.pos}]
    <3>1. catch.busy \cup {catch.pos} \in SUBSET LogLines
      BY <1>3 DEF Reader
    <3> QED BY <1>1, <1>3, <2>1, <3>1 DEF Reader
  <2>2. CASE catch' = [catch EXCEPT !.next = catch.pos, !.pos = catch.pos + 1, !.at = "asleep"]
    BY <1>3, <2>2 DEF Reader
  <2> QED BY <1>1, <2>1, <2>2
<1>5. TypeOK'
  BY <1>1, <1>4 DEF IndInv, TypeOK
<1>6. /\ catch.from <= catch.pos /\ catch.next <= catch.pos
      /\ Taken(catch) \subseteq catch.from .. (catch.pos - 1)
      /\ \A l \in Taken(catch) : l < segEOF
      /\ catch.from .. (catch.pos - 1) \subseteq inLife \cup Taken(catch)
      /\ ctrl.nextCatch <= catch.pos
      /\ \A l \in inLife : firstEOF <= l \/ l < catch.pos
  BY <1>1 DEF IndInv, CatchReader
<1>7. /\ Taken(catch)' = Taken(catch) \cup {catch.pos} /\ catch.pos \notin catch.busy
      /\ Taken(live)' = Taken(live)
  BY <1>1, <1>4, <1>6 DEF Taken
<1>8. CatchReader'
  BY <1>1, <1>4, <1>6, <1>7 DEF CatchReader
<1>9. catch.pos \notin Taken(live) /\ catch.pos \notin inLife
  BY <1>1, <1>2, <1>6 DEF IndInv, LiveReader
<1>10. ReadToEnd' /\ InLifeIsRead' /\ OncePerLife'
  BY <1>1, <1>4, <1>7, <1>9 DEF IndInv, ReadToEnd, InLifeIsRead, OncePerLife
<1> QED BY <1>1, <1>2, <1>5, <1>8, <1>10, CatchSide

LEMMA WakeCatchUpKeeps ==
  ASSUME IndInv, WakeCatchUp
  PROVE  IndInv'
<1> USE Facts
<1>1. /\ catch.at = "asleep"
      /\ catch' = [catch EXCEPT !.busy = catch.busy \cup {catch.next}, !.at = "read"]
      /\ UNCHANGED <<size, ctrl, segments, phase, stopping, segEOF, live, haveSegs, starts,
                     crashes, rotated, firstEOF, inLife>>
  BY DEF WakeCatchUp, Awake, env, disk
<1>2. /\ catch'.from = catch.from /\ catch'.next = catch.next /\ catch'.pos = catch.pos
      /\ catch'.busy = catch.busy \cup {catch.next} /\ catch'.at = "read"
  BY <1>1 DEF Reader
<1>3. phase = "run"
  BY <1>1 DEF IndInv, NotReading, Starting, Fresh
<1>4. segEOF <= firstEOF /\ ctrl.segEOF <= firstEOF /\ firstEOF <= size
  BY <1>3 DEF IndInv, WithinFile
<1>5. /\ Taken(catch)' = Taken(catch) /\ catch.next \in Taken(catch)
      /\ Taken(live)' = Taken(live)
  BY <1>1, <1>2 DEF Taken
<1>6. TypeOK'
  <2>1. catch.next < segEOF
    BY <1>1, <1>3, <1>5 DEF IndInv, CatchReader
  <2>2. catch.next \in LogLines
    BY <1>4, <2>1 DEF LogLines
  <2>3. catch' \in Reader
    BY <1>1, <2>2 DEF Reader
  <2> QED BY <1>1, <2>3 DEF IndInv, TypeOK
<1>7. CatchReader'
  BY <1>1, <1>2, <1>3, <1>5 DEF IndInv, CatchReader
<1>8. ReadToEnd' /\ InLifeIsRead' /\ OncePerLife'
  BY <1>1, <1>2, <1>5 DEF IndInv, ReadToEnd, InLifeIsRead, OncePerLife
<1> QED BY <1>1, <1>3, <1>4, <1>6, <1>7, <1>8, CatchSide

(***************************************************************************)
(* The end of a segment, the removal of its control files, and the end of  *)
(* the thread: its place changes and control files go.                     *)
(***************************************************************************)
LEMMA CatchUpEndKeeps ==
  ASSUME IndInv, EndOfSegment \/ RemoveNextCatch \/ NextSegment \/ StopCatchUp
  PROVE  IndInv'
<1> USE Facts
<1>1. /\ catch.at \notin {"none", "init"}
      /\ UNCHANGED <<size, segments, phase, stopping, segEOF, live, haveSegs, starts,
                     crashes, rotated, firstEOF, inLife>>
  BY DEF EndOfSegment, RemoveNextCatch, NextSegment, StopCatchUp, env, disk
<1>2. phase = "run"
  BY <1>1 DEF IndInv, NotReading, Starting, Fresh
<1>3. \E a \in {"removing", "done", "spin"} : \E n \in {catch.next, catch.pos} :
          /\ catch' = [catch EXCEPT !.next = n, !.at = a]
          /\ stopping \/ segEOF <= catch.pos
  <2>1. CASE EndOfSegment
    <3>1. catch' = [catch EXCEPT !.next = catch.pos, !.at = "removing"]
          /\ segEOF <= catch.pos
      BY <2>1 DEF EndOfSegment
    <3> QED BY <3>1
  <2>2. CASE NextSegment
    <3>1. catch' = [catch EXCEPT !.next = catch.pos, !.at = "spin"] /\ segEOF <= catch.pos
      BY <2>2 DEF NextSegment
    <3> QED BY <3>1
  <2>3. CASE RemoveNextCatch
    <3>1. catch' = [catch EXCEPT !.at = "done"] /\ catch.at = "removing"
      BY <2>3 DEF RemoveNextCatch
    <3>2. catch' = [catch EXCEPT !.next = catch.next, !.at = "done"]
      BY <3>1 DEF Reader
    <3>3. stopping \/ segEOF <= catch.pos
      BY <3>1 DEF IndInv, ReadToEnd
    <3> QED BY <3>2, <3>3
  <2>4. CASE StopCatchUp
    <3>1. catch' = [catch EXCEPT !.at = "done"] /\ stopping
      BY <2>4 DEF StopCatchUp
    <3>2. catch' = [catch EXCEPT !.next = catch.next, !.at = "done"]
      BY <3>1 DEF Reader
    <3> QED BY <3>1, <3>2
  <2> QED BY <2>1, <2>2, <2>3, <2>4
<1>4. /\ ctrl' \in [nextLog : CtrlValue, segEOF : CtrlValue, nextCatch : CtrlValue]
      /\ ctrl'.nextLog = ctrl.nextLog
      /\ ctrl'.segEOF \in {ctrl.segEOF, Absent} /\ ctrl'.nextCatch \in {ctrl.nextCatch, Absent}
  BY DEF EndOfSegment, RemoveNextCatch, NextSegment, StopCatchUp, disk, IndInv, TypeOK,
     CtrlValue
<1>5. /\ catch'.at \in {"removing", "done", "spin"} /\ catch'.from = catch.from
      /\ catch'.next \in {catch.next, catch.pos} /\ catch'.pos = catch.pos
      /\ catch'.busy = catch.busy /\ catch'.done = catch.done /\ catch' \in Reader
      /\ stopping \/ segEOF <= catch.pos
  BY <1>3 DEF Reader
<1>6. TypeOK'
  BY <1>1, <1>4, <1>5 DEF IndInv, TypeOK
<1>7. segEOF' <= firstEOF /\ ctrl'.segEOF <= firstEOF
  BY <1>1, <1>2, <1>4 DEF IndInv, WithinFile, Absent
<1>10. /\ Taken(catch) = catch.busy /\ Taken(catch)' = catch.busy
       /\ Taken(live)' = Taken(live)
  <2>1. catch.at # "asleep"
    BY DEF EndOfSegment, RemoveNextCatch, NextSegment, StopCatchUp
  <2> QED BY <1>1, <1>5, <2>1 DEF Taken
<1>8. CatchReader'
  BY <1>1, <1>2, <1>4, <1>5, <1>10 DEF IndInv, CatchReader, Absent
<1>9. ReadToEnd' /\ InLifeIsRead' /\ OncePerLife'
  BY <1>1, <1>5, <1>10 DEF IndInv, ReadToEnd, InLifeIsRead, OncePerLife, Taken
<1> QED BY <1>1, <1>2, <1>4, <1>6, <1>7, <1>8, <1>9, CatchSide

(***************************************************************************)
(* A line of the segment is processed, and the position written.           *)
(***************************************************************************)
LEMMA SeeCatchUpKeeps ==
  ASSUME IndInv, NEW l \in LogLines, SeeCatchUp(l)
  PROVE  IndInv'
<1> USE Facts
<1>1. /\ l \in catch.busy /\ inLife' = inLife \cup {l}
      /\ catch' = [catch EXCEPT !.busy = catch.busy \ {l}, !.done = catch.done \cup {l}]
      /\ UNCHANGED <<size, ctrl, segments, phase, stopping, segEOF, live, haveSegs, starts,
                     crashes, rotated, firstEOF>>
  BY DEF SeeCatchUp, env, disk
<1>2. /\ catch'.at = catch.at /\ catch'.from = catch.from /\ catch'.next = catch.next
      /\ catch'.pos = catch.pos /\ catch'.busy = catch.busy \ {l} /\ catch' \in Reader
  BY <1>1 DEF Reader
<1>3. phase = "run"
  BY <1>1 DEF IndInv, NotReading, Starting, Fresh
<1>4. /\ catch.at \notin {"none", "init"} /\ l < catch.pos /\ l < segEOF
      /\ segEOF <= firstEOF /\ ctrl.segEOF <= firstEOF /\ firstEOF <= live.pos
      /\ l \notin Taken(live)
  BY <1>1, <1>3 DEF IndInv, CatchReader, Taken, WithinFile, LiveReader, OncePerLife
<1>5. TypeOK'
  BY <1>1, <1>2 DEF IndInv, TypeOK
<1>8. Taken(catch)' = Taken(catch) \ {l} /\ Taken(live)' = Taken(live)
  BY <1>1, <1>2, <1>3, <1>4 DEF IndInv, CatchReader, Taken
<1>6. CatchReader'
  BY <1>1, <1>2, <1>3, <1>4, <1>8 DEF IndInv, CatchReader
<1>7. ReadToEnd' /\ InLifeIsRead' /\ OncePerLife'
  BY <1>1, <1>2, <1>4, <1>8 DEF IndInv, ReadToEnd, InLifeIsRead, OncePerLife
<1> QED BY <1>1, <1>3, <1>4, <1>5, <1>6, <1>7, CatchSide

LEMMA WriteCatchUpKeeps ==
  ASSUME IndInv, NEW l \in LogLines, WriteCatchUp(l) \/ StoreCatchUp(l)
  PROVE  IndInv'
<1> USE Facts
<1>1. /\ l \in catch.done \cup catch.hold
      /\ \/ /\ ctrl' = [ctrl EXCEPT !.nextCatch = catch.next]
            /\ catch' = [catch EXCEPT !.done = catch.done \ {l}, !.hold = {l}]
         \/ ctrl' = ctrl /\ catch' = [catch EXCEPT !.done = catch.done \ {l}]
         \/ ctrl' = ctrl /\ catch' = [catch EXCEPT !.hold = {}, !.last = catch.next]
      /\ UNCHANGED <<size, segments, phase, stopping, segEOF, live, haveSegs, starts,
                     crashes, rotated, firstEOF, inLife>>
  BY DEF WriteCatchUp, StoreCatchUp, env, disk
<1>2. /\ catch'.at = catch.at /\ catch'.from = catch.from /\ catch'.next = catch.next
      /\ catch'.pos = catch.pos /\ catch'.busy = catch.busy /\ catch' \in Reader
      /\ catch'.done \subseteq catch.done
  <2>1. {l} \in SUBSET LogLines /\ {} \in SUBSET LogLines /\ catch.next \in Positions
        /\ catch.done \ {l} \in SUBSET LogLines
    BY DEF Reader
  <2> QED BY <1>1, <2>1 DEF Reader
<1>3. /\ ctrl' \in [nextLog : CtrlValue, segEOF : CtrlValue, nextCatch : CtrlValue]
      /\ ctrl'.nextLog = ctrl.nextLog /\ ctrl'.segEOF = ctrl.segEOF
      /\ ctrl'.nextCatch \in {ctrl.nextCatch, catch.next}
  BY <1>1 DEF IndInv, TypeOK, Reader, CtrlValue
<1>4. phase = "run" /\ catch.at \notin {"none", "init"}
  BY <1>1 DEF IndInv, NotReading, Starting, Fresh, CatchReader
<1>5. segEOF <= firstEOF /\ ctrl.segEOF <= firstEOF
  BY <1>4 DEF IndInv, WithinFile
<1>6. TypeOK'
  BY <1>1, <1>2, <1>3 DEF IndInv, TypeOK
<1>7. CatchReader'
  BY <1>1, <1>2, <1>3, <1>4 DEF IndInv, CatchReader, Taken
<1>8. ReadToEnd' /\ InLifeIsRead' /\ OncePerLife'
  BY <1>1, <1>2 DEF IndInv, ReadToEnd, InLifeIsRead, OncePerLife, Taken
<1> QED BY <1>1, <1>3, <1>4, <1>5, <1>6, <1>7, <1>8, CatchSide

-----------------------------------------------------------------------------
(***************************************************************************)
(* The program is told to stop; it ends, is killed or meets a rotation:    *)
(* nothing in memory survives, and a control file cut short points to 0.   *)
(***************************************************************************)
LEMMA StopKeeps ==
  ASSUME IndInv, Stop
  PROVE  IndInv'
<1>1. /\ stopping' = TRUE
      /\ UNCHANGED <<size, ctrl, segments, phase, segEOF, live, catch, haveSegs, starts,
                     crashes, rotated, firstEOF, inLife>>
  BY DEF Stop, env, disk, mem
<1>2. TypeOK'
  BY <1>1 DEF IndInv, TypeOK
<1>3. Parts'
  BY <1>1 DEF IndInv, Parts, WithinFile, NotReading, Starting, LiveReader, Taken, CatchReader,
     ReadToEnd, InLifeIsRead, OncePerLife
<1> QED BY <1>2, <1>3 DEF IndInv, Parts

LEMMA DownKeeps ==
  ASSUME IndInv, Exit \/ Crash \/ Rotate
  PROVE  IndInv'
<1> USE Facts
<1>1. /\ phase' = "off" /\ stopping' = FALSE /\ segEOF' = 0 /\ live' = Fresh
      /\ catch' = Fresh /\ haveSegs' = FALSE /\ firstEOF' = 0 /\ inLife' = {}
      /\ UNCHANGED <<size, segments, starts>>
  BY DEF Exit, Crash, Rotate, Down, env, disk
<1>2. /\ crashes' \in 0 .. MaxCrashes /\ rotated' \in BOOLEAN
      /\ ctrl' \in [nextLog : CtrlValue, segEOF : CtrlValue, nextCatch : CtrlValue]
      /\ ctrl'.nextLog \in {0, ctrl.nextLog} /\ ctrl'.segEOF \in {0, ctrl.segEOF}
  <2>1. CASE Exit \/ Rotate
    BY <2>1 DEF Exit, Rotate, env, disk, IndInv, TypeOK
  <2>2. CASE Crash
    <3>1. /\ crashes < MaxCrashes /\ crashes' = crashes + 1 /\ rotated' = rotated
          /\ \E cut \in SUBSET OpenCtrl :
                ctrl' = [f \in DOMAIN ctrl |-> IF f \in cut THEN 0 ELSE ctrl[f]]
      BY <2>2 DEF Crash
    <3>2. PICK cut \in SUBSET OpenCtrl :
                ctrl' = [f \in DOMAIN ctrl |-> IF f \in cut THEN 0 ELSE ctrl[f]]
      BY <3>1
    <3>3. /\ ctrl \in [nextLog : CtrlValue, segEOF : CtrlValue, nextCatch : CtrlValue]
          /\ 0 \in CtrlValue /\ crashes \in 0 .. MaxCrashes /\ rotated \in BOOLEAN
      BY DEF IndInv, TypeOK, CtrlValue, Positions
    <3>4. crashes' \in 0 .. MaxCrashes
      BY <3>1, <3>3, CtrlAssumption
    <3>5. /\ ctrl' \in [nextLog : CtrlValue, segEOF : CtrlValue, nextCatch : CtrlValue]
          /\ ctrl'.nextLog \in {0, ctrl.nextLog} /\ ctrl'.segEOF \in {0, ctrl.segEOF}
      BY <3>2, <3>3
    <3> QED BY <3>1, <3>3, <3>4, <3>5
  <2> QED BY <2>1, <2>2
<1>3. TypeOK'
  <2>1. 0 \in Positions
    BY CtrlAssumption DEF Positions
  <2> QED BY <1>1, <1>2, <2>1, FreshIsReader DEF IndInv, TypeOK
<1>4. live'.busy = {} /\ catch'.busy = {} /\ catch'.at = "none"
  BY <1>1 DEF Fresh
<1>5. ctrl'.nextLog <= size /\ ctrl'.segEOF <= size
  BY <1>2 DEF IndInv, WithinFile
<1>6. Parts'
  BY <1>1, <1>4, <1>5 DEF Parts, WithinFile, NotReading, Starting, LiveReader, Taken, CatchReader,
     ReadToEnd, InLifeIsRead, OncePerLife
<1> QED BY <1>3, <1>6 DEF IndInv, Parts

(***************************************************************************)
(* Every step preserves the inductive invariant.                           *)
(***************************************************************************)
LEMMA NextInv == IndInv /\ [Next]_vars => IndInv'
<1> SUFFICES ASSUME IndInv, [Next]_vars PROVE IndInv'
  OBVIOUS
<1>1. CASE InitReadLog BY <1>1, InitReadLogKeeps
<1>2. CASE StartUp BY <1>2, StartUpKeeps
<1>3. CASE ReadLive \/ SleepLive BY <1>3, ReadLiveKeeps
<1>4. CASE ArmWatch \/ Append BY <1>4, PlaceKeeps
<1>5. CASE InitCatchUp BY <1>5, InitCatchUpKeeps
<1>6. CASE ReadCatchUp \/ SleepCatchUp BY <1>6, ReadCatchUpKeeps
<1>12. CASE WakeLive \/ WakeCatchUp BY <1>12, WakeLiveKeeps, WakeCatchUpKeeps
<1>7. CASE EndOfSegment \/ RemoveNextCatch \/ NextSegment \/ StopCatchUp
  BY <1>7, CatchUpEndKeeps
<1>8. CASE Processing
  BY <1>8, SeeLiveKeeps, WriteLiveKeeps, SeeCatchUpKeeps, WriteCatchUpKeeps DEF Processing
<1>9. CASE Stop BY <1>9, StopKeeps
<1>10. CASE Exit \/ Crash \/ Rotate BY <1>10, DownKeeps
<1>11. CASE UNCHANGED vars
  BY <1>11 DEF vars, IndInv, TypeOK, WithinFile, NotReading, Starting, LiveReader, Taken,
     CatchReader, ReadToEnd, InLifeIsRead, OncePerLife
<1> QED
  BY <1>1, <1>2, <1>3, <1>4, <1>5, <1>6, <1>7, <1>8, <1>9, <1>10, <1>11, <1>12
     DEF Next, LiveThread, CatchUpThread, FullBelt, Over

-----------------------------------------------------------------------------
(***************************************************************************)
(* The inductive invariant holds in every reachable state.                 *)
(***************************************************************************)
THEOREM Invariance == Spec => []IndInv
BY InitInv, NextInv, PTL DEF Spec

(***************************************************************************)
(* Every variable keeps its type.                                          *)
(***************************************************************************)
THEOREM CtrlTypes == Spec => []TypeOK
<1>1. IndInv => TypeOK
  BY DEF IndInv
<1> QED BY <1>1, Invariance, PTL

(***************************************************************************)
(* No line is read twice in one run of the program, by either reader,      *)
(* whatever control files the runs before have left.                       *)
(***************************************************************************)
THEOREM ReadOncePerLife == Spec => []OncePerLife
<1>1. IndInv => OncePerLife
  BY DEF IndInv
<1> QED BY <1>1, Invariance, PTL

(***************************************************************************)
(* What lies below a position written in this run is processed or held by  *)
(* the belt and its threads.                                               *)
(***************************************************************************)
THEOREM CrashLosesInFlight == Spec => []OnlyInFlightBelow
<1>1. IndInv => OnlyInFlightBelow
  <2> SUFFICES ASSUME IndInv, phase = "run"
               PROVE  /\ firstEOF .. (ctrl.nextLog - 1) \subseteq inLife \cup Taken(live)
                      /\ catch.at \notin {"none", "init"} =>
                            catch.from .. (ctrl.nextCatch - 1) \subseteq inLife \cup Taken(catch)
    BY DEF OnlyInFlightBelow
  <2> USE Facts
  <2>1. firstEOF .. (ctrl.nextLog - 1) \subseteq inLife \cup Taken(live)
    <3>1. firstEOF .. (ctrl.nextLog - 1) \subseteq firstEOF .. (live.pos - 1)
      BY DEF IndInv, LiveReader, Taken
    <3> QED BY <3>1 DEF IndInv, LiveReader, Taken
  <2>2. ASSUME catch.at \notin {"none", "init"}
        PROVE  catch.from .. (ctrl.nextCatch - 1) \subseteq inLife \cup Taken(catch)
    <3>1. catch.from .. (ctrl.nextCatch - 1) \subseteq catch.from .. (catch.pos - 1)
      BY <2>2 DEF IndInv, CatchReader, Taken
    <3> QED BY <2>2, <3>1 DEF IndInv, CatchReader, Taken
  <2> QED BY <2>1, <2>2
<1> QED BY <1>1, Invariance, PTL

(***************************************************************************)
(* catchUpLogThread leaves no line of its segment unread, unless told to   *)
(* stop.                                                                   *)
(***************************************************************************)
THEOREM SegmentIsRead == Spec => []BacklogReadToEnd
<1>1. IndInv => BacklogReadToEnd
  <2> SUFFICES ASSUME IndInv, catch.at \in {"removing", "done", "spin"}, ~stopping
               PROVE  catch.from .. (segEOF - 1) \subseteq inLife \cup catch.busy
    BY DEF BacklogReadToEnd
  <2> USE Facts
  <2>1. phase = "run"
    BY DEF IndInv, NotReading, Starting, Fresh
  <2>2. catch.from .. (segEOF - 1) \subseteq catch.from .. (catch.pos - 1)
    BY DEF IndInv, ReadToEnd
  <2> QED BY <2>1, <2>2 DEF IndInv, CatchReader, Taken
<1> QED BY <1>1, Invariance, PTL

(***************************************************************************)
(* nextLogline2Read.ctrl never goes back while the program lives: the      *)
(* first position written is not below the end of file found at the start, *)
(* where the file stood at most.                                           *)
(***************************************************************************)
THEOREM NeverBack == Spec => PositionNeverBack
<1> DEFINE Step == phase # "off" /\ phase' # "off" /\ ctrl'.nextLog # Absent
                      => ctrl'.nextLog >= ctrl.nextLog
<1>1. IndInv /\ [Next]_vars => [Step]_vars
  <2> SUFFICES ASSUME IndInv, Next, phase # "off", phase' # "off", ctrl'.nextLog # Absent
               PROVE  ctrl'.nextLog >= ctrl.nextLog
    OBVIOUS
  <2> USE Facts
  <2>1. CASE \E l \in LogLines : WriteLive(l)
    <3>1. PICK l \in LogLines : WriteLive(l)
      BY <2>1
    <3>2. l \in live.done /\ ctrl'.nextLog \in {ctrl.nextLog, live.next}
      BY <3>1 DEF WriteLive, IndInv, TypeOK
    <3>3. phase = "run"
      BY <3>2 DEF IndInv, NotReading, Starting, Fresh
    <3>4. ctrl.nextLog <= live.next
      BY <3>2, <3>3 DEF IndInv, LiveReader, Taken
    <3> QED BY <3>2, <3>4
  <2>2. CASE StartUp
    <3>1. ctrl'.nextLog = ctrl.nextLog \/ ctrl.nextLog = Absent
      BY <2>2 DEF StartUp, Case2NextLog, Case2SegEOF, Case2NextCatch, Case3Nothing,
         Case312Seg, Case312Rename, Case322Rename, Case322Seg, NoNextLog, disk, IndInv, TypeOK
    <3>2. ctrl'.nextLog \in Int /\ ctrl'.nextLog >= Absent
      BY NextInv DEF IndInv, TypeOK, CtrlValue, Positions, Absent
    <3> QED BY <3>1, <3>2
  <2>3. CASE ~(\E l \in LogLines : WriteLive(l)) /\ ~StartUp
    <3>1. ctrl'.nextLog = ctrl.nextLog
      BY <2>3 DEF Next, InitReadLog, LiveThread, ReadLive, ArmWatch, CatchUpThread,
         InitCatchUp, ReadCatchUp, EndOfSegment, RemoveNextCatch, NextSegment, StopCatchUp,
         Processing, SeeLive, StoreLive, SeeCatchUp, WriteCatchUp, StoreCatchUp, FullBelt,
         SleepLive, WakeLive, SleepCatchUp, WakeCatchUp, Append, Stop, Exit, Crash, Rotate,
         Down, Over, disk, vars, IndInv, TypeOK
    <3> QED BY <3>1
  <2> QED BY <2>1, <2>2, <2>3
<1> QED BY <1>1, Invariance, PTL DEF Spec, PositionNeverBack
===========================================================================
