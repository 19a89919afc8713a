------------------------ MODULE ConveyorBelt_proofs ------------------------
(***************************************************************************)
(* The safety of the conveyor belt for every crew of processing threads,   *)
(* every queue bound and any number of lines.                              *)
(***************************************************************************)
EXTENDS ConveyorBelt, FiniteSetTheorems, TLAPS

(***************************************************************************)
(* The three sets of threads that the counters of the belt talk about are  *)
(* finite, and their sizes are numbers.                                    *)
(***************************************************************************)
LEMMA CrewsFinite ==
    /\ IsFiniteSet(Claiming) /\ Cardinality(Claiming) \in Nat
    /\ IsFiniteSet(Leaving) /\ Cardinality(Leaving) \in Nat
    /\ IsFiniteSet(Gone) /\ Cardinality(Gone) \in Nat
  BY BeltAssumption, FS_Subset, FS_CardinalityType
     DEF Claiming, Leaving, Gone

(***************************************************************************)
(* The initial states satisfy the inductive invariant.                     *)
(***************************************************************************)
LEMMA InitInv == Init => IndInv
<1> SUFFICES ASSUME Init PROVE IndInv
  OBVIOUS
<1>1. Claiming = {} /\ Leaving = {} /\ Gone = {}
  BY DEF Init, Claiming, Leaving, Gone
<1>2. Cardinality(Claiming) = 0 /\ Cardinality(Leaving) = 0
      /\ Cardinality(Gone) = 0
  BY <1>1, FS_EmptySet
<1>3. TypeOK
  <2>1. line \in [Procs -> Lines \cup {EXIT, NoItem}]
    BY DEF Init
  <2>2. popped \in 0 .. MaxLines /\ sent \in 0 .. MaxLines
    BY BeltAssumption DEF Init
  <2>3. /\ cpc \in [Procs -> {"accept", "lock", "pop", "notify", "work", "ack",
                             "gone", "leave", "stuck"}]
        /\ buffer \in Seq(Lines \cup {EXIT})
    BY DEF Init
  <2>4. /\ rpc = "fetch" /\ exiting = FALSE /\ guard = Nobody
        /\ exits \in Nat /\ loopSem \in Nat /\ exitSem \in Nat
        /\ processed = {}
    BY DEF Init
  <2> QED BY <2>1, <2>2, <2>3, <2>4 DEF TypeOK
<1>4. GuardOwned
  BY BeltAssumption DEF Init, GuardOwned
<1>5. LineAtStep /\ ExitIsLast
  BY DEF Init, LineAtStep, ExitIsLast, EXIT, NoItem
<1>6. ReaderPhase /\ WithinCapacity /\ InOrder
  BY BeltAssumption DEF Init, ReaderPhase, WithinCapacity, InOrder
<1>7. SemaphoreBalance /\ ExitBalance
  BY <1>2 DEF Init, SemaphoreBalance, ExitBalance
<1>8. TakenOnce
  BY DEF Init, TakenOnce, Holding
<1> QED BY <1>3, <1>4, <1>5, <1>6, <1>7, <1>8 DEF IndInv

(***************************************************************************)
(* Steps of the reading thread that touch nothing but its own place.       *)
(***************************************************************************)
LEMMA QuietReaderInv ==
  ASSUME IndInv,
         Fetch \/ StopReading \/ CheckSize \/ Block \/ SpuriousWakeup
           \/ Drained \/ NextExit
  PROVE  IndInv'
<1> USE DEF IndInv
<1>0. /\ UNCHANGED <<sent, exits, buffer, guard, loopSem, exitSem, cpc, line,
                     popped, processed>>
      /\ rpc # "post" /\ rpc' # "post" /\ rpc # "ackwait" /\ rpc' # "ackwait"
  BY DEF Fetch, StopReading, CheckSize, Block, SpuriousWakeup, Drained,
         NextExit, hist
<1>1. exiting' = exiting \/ (exiting' = TRUE /\ rpc = "fetch")
  BY DEF Fetch, StopReading, CheckSize, Block, SpuriousWakeup, Drained,
         NextExit
<1>2. TypeOK'
  BY <1>0, <1>1 DEF TypeOK, Fetch, StopReading, CheckSize, Block,
     SpuriousWakeup, Drained, NextExit
<1>3. GuardOwned' /\ LineAtStep'
  BY <1>0 DEF GuardOwned, LineAtStep
<1>4. ExitIsLast'
  BY <1>0, <1>1 DEF ExitIsLast, TypeOK
<1>5. ReaderPhase'
  <2>1. CASE CheckSize
    <3>1. rpc' = "push" => Len(buffer) < MaxQueueSize \/ guard # Nobody
      BY <2>1, BeltAssumption
         DEF CheckSize, SizeReads, WithinCapacity, TypeOK
    <3> QED BY <2>1, <3>1, <1>0 DEF CheckSize, ReaderPhase, TypeOK
  <2>2. CASE Fetch \/ StopReading
    BY <2>2, BeltAssumption DEF Fetch, StopReading, ReaderPhase, TypeOK
  <2>3. CASE Block \/ SpuriousWakeup \/ Drained
    BY <2>3, <1>0, BeltAssumption DEF Block, SpuriousWakeup, Drained,
       ReaderPhase, TypeOK
  <2>4. CASE NextExit
    BY <2>4, <1>0, BeltAssumption DEF NextExit, ReaderPhase, TypeOK
  <2> QED BY <2>1, <2>2, <2>3, <2>4
<1>6. SemaphoreBalance'
  BY <1>0 DEF SemaphoreBalance, Claiming
<1>7. WithinCapacity' /\ InOrder' /\ TakenOnce'
  BY <1>0 DEF WithinCapacity, InOrder, TakenOnce, Holding
<1>8. ExitBalance'
  BY <1>0 DEF ExitBalance, Leaving, Gone
<1> QED BY <1>2, <1>3, <1>4, <1>5, <1>6, <1>7, <1>8

(***************************************************************************)
(* The semaphore operations of the reading thread.                         *)
(***************************************************************************)
LEMMA PostLoopInv ==
  ASSUME IndInv, PostLoop
  PROVE  IndInv'
<1> USE DEF IndInv
<1>0. UNCHANGED <<sent, exiting, exits, buffer, guard, exitSem, cpc, line,
                  popped, processed>>
  BY DEF PostLoop, hist
<1>1. TypeOK'
  BY <1>0 DEF TypeOK, PostLoop
<1>2. GuardOwned' /\ LineAtStep' /\ ExitIsLast'
  BY <1>0 DEF GuardOwned, LineAtStep, ExitIsLast
<1>3. ReaderPhase'
  BY <1>0 DEF ReaderPhase, PostLoop, TypeOK
<1>4. SemaphoreBalance'
  BY <1>0, CrewsFinite DEF SemaphoreBalance, Claiming, PostLoop, TypeOK
<1>5. WithinCapacity' /\ InOrder' /\ TakenOnce'
  BY <1>0 DEF WithinCapacity, InOrder, TakenOnce, Holding
<1>6. ExitBalance'
  BY <1>0 DEF ExitBalance, Leaving, Gone, PostLoop
<1> QED BY <1>1, <1>2, <1>3, <1>4, <1>5, <1>6

LEMMA WaitExitAckInv ==
  ASSUME IndInv, WaitExitAck
  PROVE  IndInv'
<1> USE DEF IndInv
<1>0. UNCHANGED <<sent, exiting, buffer, guard, loopSem, cpc, line, popped,
                  processed>>
  BY DEF WaitExitAck, hist
<1>1. TypeOK'
  BY <1>0 DEF TypeOK, WaitExitAck
<1>2. GuardOwned' /\ LineAtStep' /\ ExitIsLast'
  BY <1>0 DEF GuardOwned, LineAtStep, ExitIsLast
<1>3. ReaderPhase'
  BY <1>0, BeltAssumption DEF ReaderPhase, WaitExitAck, TypeOK
<1>4. SemaphoreBalance'
  BY <1>0 DEF SemaphoreBalance, Claiming, WaitExitAck
<1>5. WithinCapacity' /\ InOrder' /\ TakenOnce'
  BY <1>0 DEF WithinCapacity, InOrder, TakenOnce, Holding
<1>6. ExitBalance'
  <2>1. Leaving' = Leaving /\ Gone' = Gone
    BY <1>0 DEF Leaving, Gone
  <2>2. exits' = exits + 1 /\ exitSem' = exitSem - 1
    BY DEF WaitExitAck
  <2>3. exiting /\ rpc = "ackwait" /\ rpc' = "exits"
    BY DEF WaitExitAck, ReaderPhase
  <2>4. /\ Len(buffer) \in Nat /\ sent \in Nat /\ popped \in Nat
        /\ exitSem \in Nat /\ exits \in Nat
    BY BeltAssumption DEF TypeOK
  <2> QED BY <1>0, <2>1, <2>2, <2>3, <2>4, CrewsFinite DEF ExitBalance
<1> QED BY <1>1, <1>2, <1>3, <1>4, <1>5, <1>6

LEMMA PushInv ==
  ASSUME IndInv, Push
  PROVE  IndInv'
<1> USE DEF IndInv
<1>0. UNCHANGED <<exiting, exits, guard, loopSem, exitSem, cpc, line, popped,
                  processed>>
  BY DEF Push, hist
<1>a. ~exiting => sent + 1 \in Lines
  BY BeltAssumption DEF Push, ReaderPhase, TypeOK, Lines
<1>b. Delivering \in Lines \cup {EXIT}
  BY <1>a DEF Delivering
<1>c. /\ buffer' = Append(buffer, Delivering)
      /\ Len(buffer') = Len(buffer) + 1
      /\ \A i \in 1 .. Len(buffer) : buffer'[i] = buffer[i]
      /\ buffer'[Len(buffer) + 1] = Delivering
  BY <1>b DEF Push, TypeOK
<1>d. /\ Len(buffer) \in Nat /\ sent \in Nat /\ popped \in Nat
      /\ exitSem \in Nat
  BY BeltAssumption DEF TypeOK
<1>1. TypeOK'
  BY <1>0, <1>a, <1>b, <1>c, BeltAssumption DEF TypeOK, Push, Lines
<1>2. GuardOwned' /\ LineAtStep'
  BY <1>0, BeltAssumption DEF GuardOwned, LineAtStep, Push
<1>3. ExitIsLast'
  BY <1>0 DEF ExitIsLast, Push
<1>4. ReaderPhase'
  BY <1>0 DEF ReaderPhase, Push, TypeOK
<1>5. SemaphoreBalance'
  BY <1>0, <1>c, <1>d, CrewsFinite DEF SemaphoreBalance, Claiming, Push, TypeOK
<1>6. WithinCapacity'
  BY <1>c, <1>d, BeltAssumption DEF WithinCapacity, ReaderPhase, Push
<1>e. Len(buffer) - (sent - popped) = 0
  BY <1>d, CrewsFinite DEF ExitBalance, Push
<1>7. InOrder'
  BY <1>0, <1>c, <1>d, <1>e DEF InOrder, Push, Delivering
<1>8. TakenOnce'
  BY <1>0 DEF TakenOnce, Holding
<1>9. ExitBalance'
  <2>1. Leaving' = Leaving /\ Gone' = Gone
    BY <1>0 DEF Leaving, Gone
  <2>2. CASE exiting
    <3>1. sent' = sent /\ rpc' = "post" /\ rpc = "push"
      BY <2>2 DEF Push
    <3>2. exiting = TRUE /\ exiting' = TRUE
      BY <2>2, <1>0 DEF TypeOK
    <3>3. Cardinality(Leaving) = 0 /\ exitSem = 0
      BY <3>1, <1>d, <1>e, CrewsFinite DEF ExitBalance
    <3>4. Cardinality(Leaving') = 0 /\ exitSem' = 0 /\ popped' = popped
      BY <3>3, <2>1, <1>0
    <3>5. Len(buffer') - (sent' - popped') = 1
      BY <3>1, <3>4, <1>c, <1>d, <1>e
    <3> QED BY <3>1, <3>2, <3>4, <3>5, <2>1, <1>0, <1>d DEF ExitBalance
  <2>3. CASE ~exiting
    <3>1. sent' = sent + 1
      BY <2>3 DEF Push
    <3>2. /\ popped <= sent /\ exitSem = 0 /\ Cardinality(Leaving) = 0
          /\ Cardinality(Gone) = exits + exitSem
      BY <2>3, <1>d, <1>e, CrewsFinite DEF ExitBalance, Push
    <3>3. /\ popped' <= sent' /\ Len(buffer') - (sent' - popped') = 0
          /\ Len(buffer') >= sent' - popped'
      BY <3>1, <3>2, <1>0, <1>c, <1>d, <1>e
    <3> QED BY <2>3, <3>2, <3>3, <1>0, <1>d, <2>1 DEF ExitBalance, TypeOK
  <2> QED BY <2>2, <2>3
<1> QED BY <1>1, <1>2, <1>3, <1>4, <1>5, <1>6, <1>7, <1>8, <1>9

(***************************************************************************)
(* The steps of a processing thread.  Each lemma first says what happens   *)
(* to the three crews, then goes through the conjuncts it can disturb.     *)
(***************************************************************************)
LEMMA WaitLoopInv ==
  ASSUME IndInv, NEW p \in Procs, WaitLoop(p)
  PROVE  IndInv'
<1> USE DEF IndInv
<1>0. /\ UNCHANGED <<rpc, sent, exiting, exits, buffer, guard, exitSem, line,
                     popped, processed>>
      /\ cpc[p] = "accept" /\ cpc' = [cpc EXCEPT ![p] = "lock"]
      /\ loopSem > 0 /\ loopSem' = loopSem - 1
  BY DEF WaitLoop, rvars, hist
<1>a. \A q \in Procs : cpc'[q] = IF q = p THEN "lock" ELSE cpc[q]
  BY <1>0 DEF TypeOK
<1>b. p \notin Claiming /\ Claiming' = Claiming \cup {p}
  BY <1>0, <1>a DEF Claiming
<1>c. Cardinality(Claiming') = Cardinality(Claiming) + 1
  BY <1>b, CrewsFinite, FS_AddElement
<1>d. Leaving' = Leaving /\ Gone' = Gone
  BY <1>0, <1>a DEF Leaving, Gone
<1>1. TypeOK'
  BY <1>0 DEF TypeOK
<1>2. GuardOwned' /\ LineAtStep'
  BY <1>0, <1>a DEF GuardOwned, LineAtStep
<1>3. ExitIsLast'
  BY <1>0, <1>a DEF ExitIsLast
<1>4. ReaderPhase' /\ WithinCapacity' /\ InOrder'
  BY <1>0 DEF ReaderPhase, WithinCapacity, InOrder
<1>5. SemaphoreBalance'
  BY <1>0, <1>c, CrewsFinite DEF SemaphoreBalance, TypeOK
<1>6. TakenOnce'
  BY <1>0, <1>a DEF TakenOnce, Holding
<1>7. ExitBalance'
  BY <1>0, <1>d DEF ExitBalance
<1> QED BY <1>1, <1>2, <1>3, <1>4, <1>5, <1>6, <1>7

LEMMA CopyFrontInv ==
  ASSUME IndInv, NEW p \in Procs, CopyFront(p)
  PROVE  IndInv'
<1> USE DEF IndInv
<1>0. /\ UNCHANGED <<rpc, sent, exiting, exits, buffer, loopSem, exitSem,
                     popped, processed>>
      /\ cpc[p] = "lock" /\ cpc' = [cpc EXCEPT ![p] = "pop"]
      /\ line' = [line EXCEPT ![p] = buffer[1]]
      /\ guard = Nobody /\ guard' = p
  BY DEF CopyFront, rvars, hist
<1>a. \A q \in Procs : /\ cpc'[q] = IF q = p THEN "pop" ELSE cpc[q]
                       /\ line'[q] = IF q = p THEN buffer[1] ELSE line[q]
  BY <1>0 DEF TypeOK
<1>b. Claiming' = Claiming /\ Leaving' = Leaving /\ Gone' = Gone
  BY <1>0, <1>a DEF Claiming, Leaving, Gone
\* The semaphore unit this thread took stands for an item of the queue.
<1>c. Len(buffer) > 0
  <2>1. p \in Claiming
    BY <1>0 DEF Claiming
  <2>2. Cardinality(Claiming) # 0
    BY <2>1, CrewsFinite, FS_EmptySet
  <2> QED BY <2>2, CrewsFinite DEF SemaphoreBalance, TypeOK
<1>d. buffer # <<>> /\ buffer[1] \in Lines \cup {EXIT}
  BY <1>c DEF TypeOK
<1>1. TypeOK'
  BY <1>0, <1>d DEF TypeOK
<1>2. GuardOwned'
  BY <1>0, <1>a, <1>d, BeltAssumption DEF GuardOwned
<1>3. LineAtStep'
  BY <1>0, <1>a DEF LineAtStep
<1>4. ExitIsLast'
  <2>1. buffer[1] = EXIT => exiting
    <3>1. buffer[1] = EXIT => popped + 1 > sent
      BY <1>c DEF InOrder, EXIT, TypeOK
    <3>2. popped + 1 > sent => Len(buffer) - (sent - popped) > 0
      BY <1>c, BeltAssumption DEF ExitBalance, TypeOK
    <3> QED BY <3>1, <3>2, CrewsFinite DEF ExitBalance, TypeOK
  <2> QED BY <1>0, <1>a, <2>1 DEF ExitIsLast
<1>5. ReaderPhase'
  BY <1>0, BeltAssumption DEF ReaderPhase
<1>6. WithinCapacity' /\ InOrder'
  BY <1>0 DEF WithinCapacity, InOrder
<1>7. SemaphoreBalance' /\ ExitBalance'
  BY <1>0, <1>b DEF SemaphoreBalance, ExitBalance
<1>8. TakenOnce'
  BY <1>0, <1>a DEF TakenOnce, Holding
<1> QED BY <1>1, <1>2, <1>3, <1>4, <1>5, <1>6, <1>7, <1>8

LEMMA PopInv ==
  ASSUME IndInv, NEW p \in Procs, Pop(p)
  PROVE  IndInv'
<1> USE DEF IndInv
<1>0. /\ UNCHANGED <<rpc, sent, exiting, exits, loopSem, exitSem, line,
                     processed>>
      /\ cpc[p] = "pop" /\ cpc' = [cpc EXCEPT ![p] = "notify"]
      /\ buffer' = Tail(buffer) /\ guard' = Nobody
      /\ popped' = IF line[p] = EXIT THEN popped ELSE popped + 1
  BY DEF Pop, rvars
<1>a. \A q \in Procs : cpc'[q] = IF q = p THEN "notify" ELSE cpc[q]
  BY <1>0 DEF TypeOK
<1>b. guard = p /\ buffer # <<>> /\ line[p] = buffer[1]
  BY <1>0 DEF GuardOwned
<1>c. /\ Len(buffer) > 0 /\ Len(buffer) \in Nat /\ Len(buffer') = Len(buffer) - 1
      /\ \A i \in 1 .. Len(buffer') : buffer'[i] = buffer[i + 1]
      /\ buffer' \in Seq(Lines \cup {EXIT})
  BY <1>0, <1>b DEF TypeOK
<1>d. sent \in Nat /\ popped \in Nat /\ exitSem \in Nat /\ sent <= MaxLines
      /\ MaxLines \in Nat
  BY BeltAssumption DEF TypeOK
<1>e. IF popped + 1 <= sent THEN line[p] = popped + 1 ELSE line[p] = EXIT
  BY <1>b, <1>c, <1>d DEF InOrder
<1>f. \/ /\ line[p] = EXIT /\ popped' = popped /\ popped = sent /\ exiting = TRUE
      \/ /\ line[p] = popped + 1 /\ line[p] # EXIT /\ popped' = popped + 1
         /\ popped' <= sent
  <2>1. CASE popped + 1 <= sent
    BY <2>1, <1>0, <1>d, <1>e DEF EXIT
  <2>2. CASE ~(popped + 1 <= sent)
    BY <2>2, <1>0, <1>d, <1>e DEF ExitBalance, ExitIsLast, TypeOK
  <2> QED BY <2>1, <2>2
<1>g. p \in Claiming /\ Claiming' = Claiming \ {p}
  BY <1>0, <1>a DEF Claiming
<1>h. Cardinality(Claiming') = Cardinality(Claiming) - 1
  BY <1>g, CrewsFinite, FS_RemoveElement
<1>i. Gone' = Gone
  BY <1>0, <1>a DEF Gone
<1>1. TypeOK'
  BY <1>0, <1>c, <1>d, <1>f DEF TypeOK
<1>2. GuardOwned'
  BY <1>0, <1>a, <1>b, BeltAssumption DEF GuardOwned
<1>3. LineAtStep'
  BY <1>0, <1>a, <1>d, <1>f DEF LineAtStep, EXIT, NoItem
<1>4. ExitIsLast'
  BY <1>0, <1>a, <1>d, <1>f DEF ExitIsLast
<1>5. ReaderPhase'
  BY <1>0, <1>c, BeltAssumption DEF ReaderPhase, WithinCapacity
<1>6. WithinCapacity'
  BY <1>c, BeltAssumption DEF WithinCapacity
<1>7. InOrder'
  <2> SUFFICES ASSUME NEW i \in 1 .. Len(buffer')
               PROVE  buffer'[i] = IF popped' + i <= sent' THEN popped' + i
                                   ELSE EXIT
    BY DEF InOrder
  <2>1. i + 1 \in 1 .. Len(buffer) /\ buffer'[i] = buffer[i + 1]
    BY <1>c
  <2>2. buffer[i + 1] = IF popped + (i + 1) <= sent THEN popped + (i + 1)
                        ELSE EXIT
    BY <2>1 DEF InOrder
  <2>3. CASE popped' = popped + 1
    BY <2>1, <2>2, <2>3, <1>0, <1>d
  <2>4. CASE popped' = popped /\ popped = sent
    BY <2>1, <2>2, <2>4, <1>0, <1>d
  <2> QED BY <2>3, <2>4, <1>f
<1>8. SemaphoreBalance'
  <2>1. loopSem + (Cardinality(Claiming) - 1) + (IF rpc = "post" THEN 1 ELSE 0)
          = Len(buffer) - 1
    BY <1>c, CrewsFinite DEF SemaphoreBalance, TypeOK
  <2> QED BY <1>0, <1>c, <1>h, <2>1 DEF SemaphoreBalance
<1>9. TakenOnce'
  <2>1. CASE line[p] = EXIT
    BY <2>1, <1>0, <1>a, <1>f DEF TakenOnce, Holding
  <2>2. CASE line[p] # EXIT
    <3>1. line[p] = popped + 1 /\ popped' = popped + 1
      BY <2>2, <1>f
    <3>2. \A q \in Procs : Holding(q)' <=> Holding(q) \/ q = p
      BY <1>0, <1>a, <2>2 DEF Holding
    <3>3. \A q \in Procs : Holding(q) => line[q] \in 1 .. popped
      BY DEF TakenOnce
    <3>4. processed \subseteq 1 .. popped /\ line[p] \notin processed
      BY <3>1, <1>d DEF TakenOnce
    <3>5. 1 .. popped' = (1 .. popped) \cup {line[p]}
      BY <3>1, <1>d
    <3>6. {line[q] : q \in {r \in Procs : Holding(r)}}' \cup processed'
            = 1 .. popped'
      <4>1. {line[q] : q \in {r \in Procs : Holding(r)}}'
              = {line[q] : q \in {r \in Procs : Holding(r)}} \cup {line[p]}
        BY <3>2, <1>0
      <4> QED BY <4>1, <3>5, <1>0 DEF TakenOnce
    <3>7. \A q \in Procs : Holding(q)' => line'[q] \notin processed'
      BY <3>2, <3>4, <1>0 DEF TakenOnce
    <3>8. \A q, r \in Procs :
             Holding(q)' /\ Holding(r)' /\ line'[q] = line'[r] => q = r
      BY <3>1, <3>2, <3>3, <1>0, <1>d DEF TakenOnce
    <3> QED BY <3>6, <3>7, <3>8 DEF TakenOnce
  <2> QED BY <2>1, <2>2
<1>10. ExitBalance'
  <2>1. CASE line[p] = EXIT
    <3>1. p \notin Leaving /\ Leaving' = Leaving \cup {p}
      BY <2>1, <1>0, <1>a DEF Leaving
    <3>2. Cardinality(Leaving') = Cardinality(Leaving) + 1
      BY <3>1, CrewsFinite, FS_AddElement
    <3>3. popped' = popped /\ popped = sent
      BY <2>1, <1>f, <1>d
    <3>4. exiting' = exiting /\ rpc' = rpc /\ exitSem' = exitSem
          /\ sent' = sent /\ exits' = exits
      BY <1>0
    <3> QED BY <3>2, <3>3, <3>4, <1>i, <1>c, <1>d, CrewsFinite DEF ExitBalance
  <2>2. CASE line[p] # EXIT
    <3>1. Leaving' = Leaving
      BY <2>2, <1>0, <1>a DEF Leaving
    <3>2. popped' = popped + 1 /\ popped' <= sent
      BY <2>2, <1>f
    <3>3. exiting' = exiting /\ rpc' = rpc /\ exitSem' = exitSem
          /\ sent' = sent /\ exits' = exits
      BY <1>0
    <3> QED BY <3>1, <3>2, <3>3, <1>i, <1>c, <1>d, CrewsFinite DEF ExitBalance
  <2> QED BY <2>1, <2>2
<1> QED BY <1>1, <1>2, <1>3, <1>4, <1>5, <1>6, <1>7, <1>8, <1>9, <1>10

LEMMA NotifyInv ==
  ASSUME IndInv, NEW p \in Procs, Notify(p)
  PROVE  IndInv'
<1> USE DEF IndInv
<1> DEFINE next == IF line[p] = EXIT THEN "leave" ELSE "work"
<1>0. /\ UNCHANGED <<sent, exiting, exits, buffer, guard, loopSem, exitSem,
                     line, popped, processed>>
      /\ cpc[p] = "notify" /\ cpc' = [cpc EXCEPT ![p] = next]
      /\ rpc' = IF rpc = "asleep" THEN "check" ELSE rpc
  BY DEF Notify, hist
<1>a. \A q \in Procs : cpc'[q] = IF q = p THEN next ELSE cpc[q]
  BY <1>0 DEF TypeOK
<1>b. Claiming' = Claiming /\ Leaving' = Leaving /\ Gone' = Gone
  BY <1>0, <1>a DEF Claiming, Leaving, Gone
<1>c. line[p] \in Lines \cup {EXIT}
  BY <1>0 DEF TypeOK, LineAtStep
<1>1. TypeOK'
  BY <1>0 DEF TypeOK
<1>2. GuardOwned'
  BY <1>0, <1>a DEF GuardOwned
<1>3. LineAtStep'
  BY <1>0, <1>a, <1>c DEF LineAtStep
<1>4. ExitIsLast'
  BY <1>0, <1>a DEF ExitIsLast
<1>5. ReaderPhase'
  BY <1>0 DEF ReaderPhase
<1>6. WithinCapacity' /\ InOrder'
  BY <1>0 DEF WithinCapacity, InOrder
<1>7. SemaphoreBalance'
  BY <1>0, <1>b DEF SemaphoreBalance
<1>8. ExitBalance'
  BY <1>0, <1>b DEF ExitBalance
<1>9. TakenOnce'
  <2>1. \A q \in Procs : Holding(q)' <=> Holding(q)
    BY <1>0, <1>a DEF Holding
  <2> QED BY <2>1, <1>0 DEF TakenOnce
<1> QED BY <1>1, <1>2, <1>3, <1>4, <1>5, <1>6, <1>7, <1>8, <1>9

LEMMA ProcessInv ==
  ASSUME IndInv, NEW p \in Procs, Process(p)
  PROVE  IndInv'
<1> USE DEF IndInv
<1>0. /\ UNCHANGED <<rpc, sent, exiting, exits, buffer, guard, loopSem,
                     exitSem, line, popped>>
      /\ cpc[p] = "work" /\ cpc' = [cpc EXCEPT ![p] = "accept"]
      /\ processed' = processed \cup {line[p]}
  BY DEF Process, rvars
<1>a. \A q \in Procs : cpc'[q] = IF q = p THEN "accept" ELSE cpc[q]
  BY <1>0 DEF TypeOK
<1>b. Claiming' = Claiming /\ Leaving' = Leaving /\ Gone' = Gone
  BY <1>0, <1>a DEF Claiming, Leaving, Gone
<1>c. line[p] \in Lines /\ line[p] # EXIT
  BY <1>0, BeltAssumption DEF LineAtStep, Lines, EXIT
<1>1. TypeOK'
  BY <1>0, <1>c DEF TypeOK
<1>2. GuardOwned' /\ LineAtStep' /\ ExitIsLast'
  BY <1>0, <1>a, <1>c DEF GuardOwned, LineAtStep, ExitIsLast
<1>3. ReaderPhase' /\ WithinCapacity' /\ InOrder'
  BY <1>0 DEF ReaderPhase, WithinCapacity, InOrder
<1>4. SemaphoreBalance' /\ ExitBalance'
  BY <1>0, <1>b DEF SemaphoreBalance, ExitBalance
<1>5. TakenOnce'
  <2>1. Holding(p) /\ \A q \in Procs : Holding(q)' <=> Holding(q) /\ q # p
    BY <1>0, <1>a, <1>c DEF Holding
  <2>2. \A q \in Procs : Holding(q) /\ line[q] = line[p] => q = p
    BY <2>1 DEF TakenOnce
  <2> QED BY <2>1, <2>2, <1>0 DEF TakenOnce
<1> QED BY <1>1, <1>2, <1>3, <1>4, <1>5

LEMMA LeavePoolInv ==
  ASSUME IndInv, NEW p \in Procs, LeavePool(p)
  PROVE  IndInv'
<1> USE DEF IndInv
<1>0. /\ UNCHANGED <<rpc, sent, exiting, exits, buffer, guard, loopSem,
                     exitSem, line, popped, processed>>
      /\ cpc[p] = "leave"
  BY DEF LeavePool, rvars, hist
<1>1. PICK at \in {"ack", "stuck"} : cpc' = [cpc EXCEPT ![p] = at]
  BY DEF LeavePool
<1>a. \A q \in Procs : cpc'[q] = IF q = p THEN at ELSE cpc[q]
  BY <1>1 DEF TypeOK
<1>b. Claiming' = Claiming /\ Leaving' = Leaving /\ Gone' = Gone
  BY <1>0, <1>a DEF Claiming, Leaving, Gone
<1>2. TypeOK'
  BY <1>0, <1>1 DEF TypeOK
<1>3. GuardOwned' /\ LineAtStep' /\ ExitIsLast'
  BY <1>0, <1>a DEF GuardOwned, LineAtStep, ExitIsLast
<1>4. ReaderPhase' /\ WithinCapacity' /\ InOrder'
  BY <1>0 DEF ReaderPhase, WithinCapacity, InOrder
<1>5. SemaphoreBalance' /\ ExitBalance'
  BY <1>0, <1>b DEF SemaphoreBalance, ExitBalance
<1>6. TakenOnce'
  <2>1. \A q \in Procs : Holding(q)' <=> Holding(q)
    BY <1>0, <1>a DEF Holding
  <2> QED BY <2>1, <1>0 DEF TakenOnce
<1> QED BY <1>2, <1>3, <1>4, <1>5, <1>6

LEMMA NotifyExitInv ==
  ASSUME IndInv, NEW p \in Procs, NotifyExit(p)
  PROVE  IndInv'
<1> USE DEF IndInv
<1>0. /\ UNCHANGED <<rpc, sent, exiting, exits, buffer, guard, loopSem, line,
                     popped, processed>>
      /\ cpc[p] = "ack" /\ cpc' = [cpc EXCEPT ![p] = "gone"]
      /\ exitSem' = exitSem + 1
  BY DEF NotifyExit, rvars, hist
<1>a. \A q \in Procs : cpc'[q] = IF q = p THEN "gone" ELSE cpc[q]
  BY <1>0 DEF TypeOK
<1>b. line[p] = EXIT
  BY <1>0 DEF LineAtStep
<1>c. Claiming' = Claiming
  BY <1>0, <1>a DEF Claiming
<1>d. Cardinality(Leaving') = Cardinality(Leaving) - 1
  <2>1. p \in Leaving /\ Leaving' = Leaving \ {p}
    BY <1>0, <1>a, <1>b DEF Leaving
  <2> QED BY <2>1, CrewsFinite, FS_RemoveElement
<1>e. Cardinality(Gone') = Cardinality(Gone) + 1
  <2>1. p \notin Gone /\ Gone' = Gone \cup {p}
    BY <1>0, <1>a DEF Gone
  <2> QED BY <2>1, CrewsFinite, FS_AddElement
<1>f. /\ Len(buffer) \in Nat /\ sent \in Nat /\ popped \in Nat
      /\ exitSem \in Nat /\ exits \in Nat
  BY BeltAssumption DEF TypeOK
<1>1. TypeOK'
  BY <1>0 DEF TypeOK
<1>2. GuardOwned' /\ LineAtStep' /\ ExitIsLast'
  BY <1>0, <1>a, <1>b DEF GuardOwned, LineAtStep, ExitIsLast
<1>3. ReaderPhase' /\ WithinCapacity' /\ InOrder'
  BY <1>0 DEF ReaderPhase, WithinCapacity, InOrder
<1>4. SemaphoreBalance'
  BY <1>0, <1>c DEF SemaphoreBalance
<1>5. ExitBalance'
  BY <1>0, <1>d, <1>e, <1>f, CrewsFinite DEF ExitBalance
<1>6. TakenOnce'
  <2>1. \A q \in Procs : Holding(q)' <=> Holding(q)
    BY <1>0, <1>a DEF Holding
  <2> QED BY <2>1, <1>0 DEF TakenOnce
<1> QED BY <1>1, <1>2, <1>3, <1>4, <1>5, <1>6

LEMMA StutterInv ==
  ASSUME IndInv, UNCHANGED vars
  PROVE  IndInv'
<1> USE DEF IndInv, vars, hist
<1>1. TypeOK' /\ GuardOwned' /\ LineAtStep' /\ ExitIsLast'
  BY DEF TypeOK, GuardOwned, LineAtStep, ExitIsLast
<1>2. ReaderPhase' /\ WithinCapacity' /\ InOrder'
  BY DEF ReaderPhase, WithinCapacity, InOrder
<1>3. SemaphoreBalance' /\ ExitBalance'
  BY DEF SemaphoreBalance, ExitBalance, Claiming, Leaving, Gone
<1>4. TakenOnce'
  BY DEF TakenOnce, Holding
<1> QED BY <1>1, <1>2, <1>3, <1>4

(***************************************************************************)
(* The inductive invariant: semaphore units, queue items and threads stay  *)
(* in balance through every interleaving of the belt's operations.         *)
(***************************************************************************)
THEOREM Invariance == Spec => []IndInv
<1>1. Init => IndInv
  BY InitInv
<1>2. IndInv /\ [Next]_vars => IndInv'
  <2> SUFFICES ASSUME IndInv, [Next]_vars PROVE IndInv'
    OBVIOUS
  <2>1. CASE Fetch \/ StopReading \/ SpuriousWakeup
    BY <2>1, QuietReaderInv
  <2>2. CASE ReaderStep
    BY <2>2, QuietReaderInv, PostLoopInv, WaitExitAckInv, PushInv
       DEF ReaderStep
  <2>3. ASSUME NEW p \in Procs, ProcStep(p) PROVE IndInv'
    BY <2>3, WaitLoopInv, CopyFrontInv, PopInv, NotifyInv, ProcessInv,
       LeavePoolInv, NotifyExitInv DEF ProcStep
  <2>4. CASE Terminated \/ UNCHANGED vars
    BY <2>4, StutterInv DEF Terminated
  <2> QED BY <2>1, <2>2, <2>3, <2>4 DEF Next
<1> QED BY <1>1, <1>2, PTL DEF Spec

(***************************************************************************)
(* Types: the variables of the belt stay in their ranges.                  *)
(***************************************************************************)
THEOREM BeltTypes == Spec => []TypeOK
<1>1. IndInv => TypeOK
  BY DEF IndInv
<1> QED BY <1>1, Invariance, PTL

(***************************************************************************)
(* acceptFromReadThread never pops an empty queue and deliverToProcThreads *)
(* never overfills it, although size() is read without the queue's guard.  *)
(***************************************************************************)
THEOREM BeltBalanced == Spec => [](SemaphoreBalance /\ WithinCapacity)
<1>1. IndInv => SemaphoreBalance /\ WithinCapacity
  BY DEF IndInv
<1> QED BY <1>1, Invariance, PTL

(***************************************************************************)
(* Every line delivered is taken in order, by one thread, once.            *)
(***************************************************************************)
THEOREM BeltFaithful == Spec => [](InOrder /\ TakenOnce)
<1>1. IndInv => InOrder /\ TakenOnce
  BY DEF IndInv
<1> QED BY <1>1, Invariance, PTL

(***************************************************************************)
(* What holds when shutDown() has returned: each acknowledged EXIT sent a  *)
(* different thread home, so all are gone, and the last of them took its   *)
(* EXIT after the last line.                                               *)
(***************************************************************************)
LEMMA DoneMeansComplete == IndInv => ShutDownComplete
<1> SUFFICES ASSUME IndInv, rpc = "done"
             PROVE  /\ Gone = Procs /\ buffer = <<>>
                    /\ processed = 1 .. sent /\ exitSem = 0
  BY DEF ShutDownComplete
<1> USE DEF IndInv
<1>0. /\ Len(buffer) \in Nat /\ sent \in Nat /\ popped \in Nat
      /\ exitSem \in Nat /\ exits \in Nat
  BY BeltAssumption DEF TypeOK
<1>1. Len(buffer) - (sent - popped) + Cardinality(Leaving) + exitSem = 0
  BY DEF ExitBalance
<1>2. exitSem = 0 /\ Len(buffer) = sent - popped
  BY <1>0, <1>1, CrewsFinite DEF ExitBalance
<1>3. Cardinality(Gone) = Cardinality(Procs)
  BY <1>0, <1>2, BeltAssumption DEF ExitBalance, ReaderPhase
<1>4. Gone = Procs
  BY <1>3, FS_Subset, BeltAssumption DEF Gone
<1>5. PICK p \in Procs : TRUE
  BY FS_EmptySet, BeltAssumption
<1>6. popped = sent
  BY <1>4, <1>5 DEF Gone, LineAtStep, ExitIsLast
<1>7. buffer = <<>>
  BY <1>0, <1>2, <1>6 DEF TypeOK
<1>8. \A q \in Procs : ~Holding(q)
  BY <1>4 DEF Gone, Holding
<1>9. processed = 1 .. sent
  BY <1>6, <1>8 DEF TakenOnce
<1> QED BY <1>2, <1>4, <1>7, <1>9

LEMMA DoneMeansCompleteNext == IndInv' => ShutDownComplete'
BY DoneMeansComplete, PTL

(***************************************************************************)
(* When shutDown() returns, the crew is gone and every line is processed.  *)
(***************************************************************************)
THEOREM ShutDownIsComplete == Spec => []ShutDownComplete
BY DoneMeansComplete, Invariance, PTL

(***************************************************************************)
(* Refinement: each step of the belt is a step of the bounded hand-off of  *)
(* LineHandoff, or leaves its state alone.                                 *)
(***************************************************************************)
LEMMA InitRefines == Init => Handoff!HInit
BY DEF Init, Handoff!HInit, HeldBy

LEMMA StepRefines ==
  ASSUME IndInv, IndInv', [Next]_vars
  PROVE  [Handoff!HNext]_Handoff!hvars
<1> USE DEF IndInv
<1>1. ASSUME UNCHANGED <<buffer, cpc, line, processed>>,
             (rpc' = "done") <=> (rpc = "done")
      PROVE  UNCHANGED Handoff!hvars
  BY <1>1 DEF Handoff!hvars, HeldBy
<1>2. CASE Push
  <2>1. ~(rpc = "done") /\ ~(rpc' = "done")
    BY <1>2 DEF Push
  <2>2. Len(buffer) < MaxQueueSize
    BY <1>2 DEF Push, ReaderPhase
  <2>3. Delivering \in Lines \cup {EXIT}
    BY <1>2, BeltAssumption DEF Push, Delivering, ReaderPhase, TypeOK, Lines
  <2>4. Handoff!Offer
    BY <1>2, <2>1, <2>2, <2>3 DEF Push, Handoff!Offer, HeldBy, hist
  <2> QED BY <2>4 DEF Handoff!HNext
<1>3. CASE NextExit
  <2>1. CASE rpc' = "done"
    <3>1. buffer = <<>> /\ Gone = Procs
      <4>1. buffer' = buffer /\ cpc' = cpc
        BY <1>3 DEF NextExit, hist
      <4>2. buffer' = <<>> /\ Gone' = Procs
        BY <2>1, DoneMeansCompleteNext DEF ShutDownComplete
      <4> QED BY <4>1, <4>2 DEF Gone
    <3>2. \A p \in Procs : HeldBy[p] = EXIT
      BY <3>1 DEF Gone, HeldBy, LineAtStep
    <3>3. Handoff!Close
      BY <1>3, <2>1, <3>1, <3>2 DEF NextExit, Handoff!Close, HeldBy, hist
    <3> QED BY <3>3 DEF Handoff!HNext
  <2>2. CASE rpc' # "done"
    BY <1>1, <1>3, <2>2 DEF NextExit, hist
  <2> QED BY <2>1, <2>2
<1>4. CASE Fetch \/ StopReading \/ CheckSize \/ Block \/ SpuriousWakeup
           \/ Drained \/ PostLoop \/ WaitExitAck \/ Terminated
           \/ UNCHANGED vars
  BY <1>1, <1>4 DEF Fetch, StopReading, CheckSize, Block, SpuriousWakeup,
     Drained, PostLoop, WaitExitAck, Terminated, vars, hist
<1>5. ASSUME NEW p \in Procs, Pop(p)
      PROVE  Handoff!HNext
  <2>1. /\ cpc[p] = "pop" /\ line' = line /\ processed' = processed
        /\ buffer' = Tail(buffer) /\ cpc' = [cpc EXCEPT ![p] = "notify"]
        /\ rpc' = rpc
    BY <1>5 DEF Pop, rvars
  <2>2. buffer # <<>> /\ line[p] = Head(buffer)
    BY <2>1 DEF GuardOwned, TypeOK
  <2>3. HeldBy[p] = NoItem
    BY <2>1 DEF HeldBy
  <2>4. HeldBy' = [HeldBy EXCEPT ![p] = Head(buffer)]
    BY <2>1, <2>2 DEF HeldBy, TypeOK
  <2>5. Handoff!Take(p)
    BY <2>1, <2>2, <2>3, <2>4 DEF Handoff!Take
  <2> QED BY <2>5 DEF Handoff!HNext
<1>6. ASSUME NEW p \in Procs, Process(p)
      PROVE  Handoff!HNext
  <2>1. /\ cpc[p] = "work" /\ line' = line /\ buffer' = buffer
        /\ processed' = processed \cup {line[p]}
        /\ cpc' = [cpc EXCEPT ![p] = "accept"] /\ rpc' = rpc
    BY <1>6 DEF Process, rvars
  <2>2. HeldBy[p] = line[p] /\ line[p] \in Lines
    BY <2>1 DEF HeldBy, LineAtStep
  <2>3. HeldBy' = [HeldBy EXCEPT ![p] = NoItem]
    BY <2>1 DEF HeldBy, TypeOK
  <2>4. Handoff!Finish(p)
    BY <2>1, <2>2, <2>3 DEF Handoff!Finish
  <2> QED BY <2>4 DEF Handoff!HNext
<1>7. ASSUME NEW p \in Procs,
             WaitLoop(p) \/ CopyFront(p) \/ Notify(p) \/ LeavePool(p)
               \/ NotifyExit(p)
      PROVE  UNCHANGED Handoff!hvars
  <2>1. /\ UNCHANGED <<buffer, processed>>
        /\ (rpc' = "done") <=> (rpc = "done")
    BY <1>7 DEF WaitLoop, CopyFront, Notify, LeavePool, NotifyExit, rvars, hist
  <2>2. HeldBy' = HeldBy
    BY <1>7 DEF WaitLoop, CopyFront, Notify, LeavePool, NotifyExit, HeldBy, TypeOK
  <2> QED BY <2>1, <2>2 DEF Handoff!hvars
<1> QED BY <1>2, <1>3, <1>4, <1>5, <1>6, <1>7 DEF Next, ReaderStep, ProcStep

THEOREM BeltRefinesHandoff == Spec => ImplementsHandoff
<1>1. IndInv /\ IndInv' /\ [Next]_vars => [Handoff!HNext]_Handoff!hvars
  BY StepRefines
<1> QED BY <1>1, InitRefines, Invariance, PTL
        DEF Spec, ImplementsHandoff, Handoff!HSpec
-----------------------------------------------------------------------------
(***************************************************************************)
(* When the reading thread and a processing thread can take a step of      *)
(* their own, spelled out: the guards of ReaderStep and ProcStep, the      *)
(* steps whose fairness FairSpec states.                                   *)
(***************************************************************************)
ReaderCan ==
    \/ rpc \in {"check", "block", "post", "exits"}
    \/ rpc = "push" /\ guard = Nobody
    \/ rpc = "drain" /\ 0 \in SizeReads
    \/ rpc = "ackwait" /\ exitSem > 0

ProcCan(p) ==
    \/ cpc[p] \in {"pop", "notify", "work", "leave", "ack"}
    \/ cpc[p] = "accept" /\ loopSem > 0
    \/ cpc[p] = "lock" /\ guard = Nobody

CrewWaits == \A p \in Procs : ~ProcCan(p)

(***************************************************************************)
(* The processing threads wait only when nothing is left for them,         *)
(* whatever becomes of the reading thread.  The belt stands still only if  *)
(* there is nothing to read, shutDown() has returned, the reading thread   *)
(* has lost the wake-up it sleeps for, on an empty belt (within shutDown() *)
(* it cannot lose one unless it was let in by a torn size()), or it waits  *)
(* in shutDown() for a thread that is stuck at the barrier of its pool.    *)
(***************************************************************************)
StandsStill ==
    /\ CrewWaits /\ rpc # "post" => buffer = <<>> /\ processed = 1 .. sent
    /\ CrewWaits /\ ~ReaderCan => \/ rpc \in {"fetch", "done"}
                                  \/ rpc = "asleep" /\ (exiting => TornSize)
                                  \/ rpc = "ackwait" /\ exiting /\ Stuck # {}

\* shutDown() delivers on a belt that has been emptied before.
DrainedFirst ==
    exiting /\ rpc # "drain" /\ ~TornSize
        => popped = sent /\ rpc \notin {"block", "asleep"}

LEMMA DrainedInit == Init => DrainedFirst
BY DEF Init, DrainedFirst

LEMMA DrainedNext == IndInv /\ DrainedFirst /\ [Next]_vars => DrainedFirst'
<1> SUFFICES ASSUME IndInv, DrainedFirst, [Next]_vars, ~TornSize PROVE DrainedFirst'
  BY DEF DrainedFirst
<1> USE DEF hist, rvars
<1>1. SizeReads = {Len(buffer)} /\ Len(buffer) \in Nat
  BY DEF SizeReads, IndInv, TypeOK
<1>2. CASE CheckSize
  <2>1. exiting => Len(buffer) = 0
    <3> SUFFICES ASSUME exiting PROVE Len(buffer) = 0
      OBVIOUS
    <3>1. popped = sent /\ rpc = "check"
      BY <1>2 DEF CheckSize, DrainedFirst
    <3>2. /\ Len(buffer) - (sent - popped) + Cardinality(Leaving) + exitSem = 0
          /\ sent \in Nat /\ exitSem \in Nat
      BY <3>1 DEF IndInv, ExitBalance, TypeOK
    <3> QED BY <1>1, <3>1, <3>2, CrewsFinite
  <2>2. exiting => rpc' = "push"
    BY <1>1, <1>2, <2>1, BeltAssumption DEF CheckSize
  <2> QED BY <1>2, <2>2 DEF CheckSize, DrainedFirst
<1>3. CASE Drained
  <2>1. Len(buffer) = 0 /\ popped <= sent /\ Len(buffer) >= sent - popped
    BY <1>1, <1>3 DEF Drained, IndInv, ExitBalance
  <2>2. popped = sent
    BY <2>1 DEF IndInv, TypeOK
  <2> QED BY <1>3, <2>2 DEF Drained, DrainedFirst
<1>4. CASE Fetch \/ StopReading \/ Block \/ SpuriousWakeup \/ NextExit \/ PostLoop
           \/ WaitExitAck \/ Terminated \/ UNCHANGED vars
  BY <1>4 DEF Fetch, StopReading, Block, SpuriousWakeup, NextExit, PostLoop, WaitExitAck,
     Terminated, vars, DrainedFirst, IndInv, ReaderPhase
<1>5. CASE Push
  BY <1>5 DEF Push, DrainedFirst
<1>6. ASSUME NEW p \in Procs, Pop(p) PROVE DrainedFirst'
  <2>1. UNCHANGED <<rpc, sent, exiting>> /\ cpc[p] = "pop"
        /\ popped' = IF line[p] = EXIT THEN popped ELSE popped + 1
    BY <1>6 DEF Pop
  <2>2. ASSUME exiting, rpc # "drain" PROVE line[p] = EXIT
    <3>1. popped = sent
      BY <2>2 DEF DrainedFirst
    <3>2. line[p] = buffer[1] /\ Len(buffer) >= 1
      BY <2>1 DEF IndInv, GuardOwned, TypeOK
    <3>3. buffer[1] = IF popped + 1 <= sent THEN popped + 1 ELSE EXIT
      BY <1>1, <3>2 DEF IndInv, InOrder
    <3> QED BY <3>1, <3>2, <3>3 DEF IndInv, TypeOK
  <2> QED BY <2>1, <2>2 DEF DrainedFirst
<1>7. ASSUME NEW p \in Procs,
             WaitLoop(p) \/ CopyFront(p) \/ Notify(p) \/ Process(p) \/ LeavePool(p)
               \/ NotifyExit(p)
      PROVE  DrainedFirst'
  BY <1>7 DEF WaitLoop, CopyFront, Notify, Process, LeavePool, NotifyExit, DrainedFirst
<1> QED BY <1>2, <1>3, <1>4, <1>5, <1>6, <1>7 DEF Next, ReaderStep, ProcStep

LEMMA WaitersAreIdle ==
  ASSUME IndInv, CrewWaits
  PROVE  /\ guard = Nobody
         /\ rpc # "post" => buffer = <<>> /\ popped = sent /\ processed = 1 .. sent
         /\ rpc = "ackwait" => exiting /\ (exitSem > 0 \/ Stuck # {})
<1> USE DEF IndInv
<1>1. guard = Nobody
  BY DEF GuardOwned, TypeOK, CrewWaits, ProcCan
<1>2. \A p \in Procs : cpc[p] \in {"gone", "stuck"} \/ (cpc[p] = "accept" /\ loopSem = 0)
  BY <1>1 DEF CrewWaits, ProcCan, TypeOK
<1>3. Claiming = {} /\ Leaving \subseteq Stuck
  BY <1>2 DEF Claiming, Leaving, Stuck
<1>4. Cardinality(Claiming) = 0 /\ Cardinality(Leaving) \in Nat
      /\ (Cardinality(Leaving) = 0 <=> Leaving = {})
  BY <1>3, FS_EmptySet, CrewsFinite
<1>5. /\ exits \in Nat /\ exitSem \in Nat /\ sent \in Nat /\ popped \in Nat /\ loopSem \in Nat
      /\ Len(buffer) \in Nat /\ popped <= sent
  BY DEF TypeOK, ExitBalance
<1>6. SUFFICES ASSUME rpc # "post"
               PROVE  /\ buffer = <<>> /\ popped = sent /\ processed = 1 .. sent
                      /\ rpc = "ackwait" => exiting /\ (exitSem > 0 \/ Stuck # {})
  BY <1>1
<1>7. Len(buffer) = loopSem
  BY <1>4, <1>5, <1>6 DEF SemaphoreBalance
<1>8. Len(buffer) - (sent - popped) + Cardinality(Leaving) + exitSem
        = IF exiting /\ rpc = "ackwait" THEN 1 ELSE 0
  BY <1>6 DEF ExitBalance
<1>9. Len(buffer) = 0 /\ popped = sent
  <2>1. CASE \E p \in Procs : cpc[p] = "accept"
    <3>1. Len(buffer) = 0
      BY <1>2, <1>7, <2>1
    <3> QED BY <1>5, <3>1 DEF ExitBalance
  <2>2. CASE \E p \in Procs : cpc[p] = "stuck"
    <3>1. PICK p \in Procs : cpc[p] = "stuck"
      BY <2>2
    <3>2. p \in Leaving /\ popped = sent
      BY <3>1 DEF Leaving, LineAtStep, ExitIsLast
    <3> QED BY <1>4, <1>5, <1>8, <3>2
  <2>3. CASE \A p \in Procs : cpc[p] = "gone"
    <3>1. Gone = Procs
      BY <2>3 DEF Gone
    <3>2. exits + exitSem = MaxQueueSize
      BY <3>1, BeltAssumption DEF ExitBalance
    <3>3. PICK p \in Procs : TRUE
      BY BeltAssumption, FS_EmptySet
    <3>4. popped = sent
      BY <2>3, <3>3 DEF LineAtStep, ExitIsLast
    <3>5. rpc = "ackwait" => exits < MaxQueueSize
      BY DEF ReaderPhase
    <3> QED BY <1>4, <1>5, <1>8, <3>2, <3>4, <3>5, BeltAssumption
  <2> QED BY <1>2, <2>1, <2>2, <2>3
<1>10. processed = 1 .. sent
  <2>1. \A p \in Procs : ~Holding(p)
    BY <1>2 DEF Holding
  <2> QED BY <1>9, <2>1 DEF TakenOnce
<1>11. buffer = <<>>
  BY <1>9 DEF TypeOK
<1>12. rpc = "ackwait" => exiting /\ (exitSem > 0 \/ Stuck # {})
  <2>1. rpc = "ackwait" => exiting /\ Cardinality(Leaving) + exitSem = 1
    BY <1>4, <1>5, <1>8, <1>9 DEF ReaderPhase
  <2> QED BY <1>3, <1>4, <1>5, <2>1
<1> QED BY <1>9, <1>10, <1>11, <1>12

(***************************************************************************)
(* The safety half of DeliveredIsProcessed and ShutDownReturns, and what   *)
(* DeliverReturns fails on: the belt has no other deadlock than the lost   *)
(* wake-up of deliverToProcThreads() and the acknowledgement that a stuck  *)
(* pool keeps from shutDown(), and in neither is a line left on the belt.  *)
(***************************************************************************)
THEOREM TwoWaysToStandStill == Spec => []StandsStill
<1>1. IndInv /\ DrainedFirst => StandsStill
  <2> SUFFICES ASSUME IndInv, DrainedFirst, CrewWaits PROVE StandsStill
    BY DEF StandsStill
  <2>1. rpc # "post" => buffer = <<>> /\ processed = 1 .. sent
    BY WaitersAreIdle
  <2>2. ASSUME ~ReaderCan
        PROVE  \/ rpc \in {"fetch", "done", "asleep"}
               \/ rpc = "ackwait" /\ exiting /\ Stuck # {}
    <3>1. guard = Nobody /\ rpc # "post" /\ rpc # "push"
          /\ (rpc = "ackwait" => exiting /\ Stuck # {})
      BY <2>2, WaitersAreIdle DEF ReaderCan
    <3>2. rpc # "drain"
      <4>1. SUFFICES ASSUME rpc = "drain" PROVE 0 \in SizeReads
        BY <2>2 DEF ReaderCan
      <4>2. Len(buffer) = 0
        BY <4>1, WaitersAreIdle
      <4> QED BY <4>2 DEF SizeReads
    <3> QED BY <2>2, <3>1, <3>2 DEF ReaderCan, IndInv, TypeOK
  <2>3. rpc = "asleep" /\ exiting => TornSize
    BY DEF DrainedFirst
  <2> QED BY <2>1, <2>2, <2>3 DEF StandsStill
<1>2. Init => DrainedFirst
  BY DrainedInit
<1>3. IndInv /\ DrainedFirst /\ [Next]_vars => DrainedFirst'
  BY DrainedNext
<1> QED BY <1>1, <1>2, <1>3, Invariance, PTL DEF Spec
=============================================================================
