----------------------------- MODULE PhyTxProofs ------------------------------
(***************************************************************************)
(* The transmit chain for any number of workers.  What is pending, and     *)
(* that no count or position leaves its range, holds whatever is reset     *)
(* (QueueInvariant).  The order of transmission holds under the two        *)
(* assumptions ChainAssumed: the first subframes are Separated, as the     *)
(* comment in worker_end argues, and the RRC does not reset the chain.     *)
(***************************************************************************)
EXTENDS PhyTx, ThreadPoolProofs, FiniteSetTheorems, SequenceTheorems

ChainAssumed == FirstTxSeparated = TRUE /\ MaxResets = 0

-----------------------------------------------------------------------------
(* The ring.                                                               *)

\* The next position (worker_end, "% nof_workers") without the division.
LEMMA NextSemIs ==
    ASSUME NEW k \in Worker
    PROVE  NextSem(k) = IF k + 1 = NofWorkers THEN 0 ELSE k + 1
<1>1. CASE k + 1 = NofWorkers
  BY <1>1, NofWorkersAssumption DEF NextSem, Worker
<1>2. CASE k + 1 # NofWorkers
  <2>1. k + 1 \in 0 .. NofWorkers - 1
    BY <1>2, NofWorkersAssumption DEF Worker
  <2>2. (k + 1) % NofWorkers = k + 1
    BY <2>1, NofWorkersAssumption
  <2>3. QED
    BY <1>2, <2>2 DEF NextSem
<1>3. QED
  BY <1>1, <1>2

\* Going back d places is a position, and advancing both ends changes nothing.
LEMMA RingBackFacts ==
    ASSUME NEW k \in Worker, NEW d \in 0 .. NofWorkers
    PROVE  /\ RingBack(k, d) \in Worker
           /\ d # NofWorkers => RingBack(NextSem(k), d + 1) = RingBack(k, d)
           /\ d > 0 => NextSem(RingBack(k, d)) = RingBack(k, d - 1)
           /\ RingBack(k, 0) = k
<1>1. RingBack(k, d) \in Worker
  BY NofWorkersAssumption DEF RingBack, Worker
<1>2. d # NofWorkers => RingBack(NextSem(k), d + 1) = RingBack(k, d)
  BY NextSemIs, NofWorkersAssumption DEF RingBack, Worker
<1>3. d > 0 => NextSem(RingBack(k, d)) = RingBack(k, d - 1)
  BY <1>1, NextSemIs, NofWorkersAssumption DEF RingBack, Worker
<1>4. RingBack(k, 0) = k
  BY DEF RingBack, Worker
<1>5. QED
  BY <1>1, <1>2, <1>3, <1>4

\* Different distances up to the length of the ring lead to different positions.
LEMMA RingBackInjective ==
    ASSUME NEW k \in Worker, NEW d \in 1 .. NofWorkers, NEW e \in 1 .. NofWorkers,
           RingBack(k, d) = RingBack(k, e)
    PROVE  d = e
  BY NofWorkersAssumption DEF RingBack, Worker

\* A sequence of different workers that misses one is shorter than the pool.
LEMMA RoomForHeld ==
    ASSUME NEW s \in Seq(Worker), NEW h \in Worker,
           \A i, j \in 1 .. Len(s) : s[i] = s[j] => i = j,
           \A i \in 1 .. Len(s) : s[i] # h
    PROVE  Len(s) < NofWorkers
<1> DEFINE t == [i \in 1 .. Len(s) + 1 |-> IF i <= Len(s) THEN s[i] ELSE h]
<1>1. Len(s) \in Nat
  OBVIOUS
<1>2. t \in Injection(1 .. Len(s) + 1, Worker)
  <2>1. t \in [1 .. Len(s) + 1 -> Worker]
    BY <1>1
  <2>2. ASSUME NEW i \in 1 .. Len(s) + 1, NEW j \in 1 .. Len(s) + 1, t[i] = t[j] PROVE i = j
    BY <1>1, <2>2
  <2>3. QED
    BY <2>1, <2>2 DEF Injection, IsInjective
<1>3. IsFiniteSet(Worker) /\ Cardinality(Worker) = NofWorkers
  BY FS_Interval, NofWorkersAssumption DEF Worker
<1>4. Cardinality(1 .. Len(s) + 1) = Len(s) + 1
  BY <1>1, FS_Interval
<1> HIDE DEF t
<1>5. Cardinality(1 .. Len(s) + 1) <= Cardinality(Worker)
  BY <1>2, <1>3, FS_Injection
<1>6. QED
  BY <1>1, <1>3, <1>4, <1>5, NofWorkersAssumption

-----------------------------------------------------------------------------
(* Every step of the chain is a step of the pool, or leaves the pool alone. *)

\* The specification with the chain of the semaphores adds conjuncts to that of the pool.
LEMMA ChainIsPool == TxSpec => Spec
<1>1. TxInit => Init
  BY DEF TxInit
<1>2. [TxNext]_allVars => [Next]_vars
  <2> SUFFICES ASSUME [TxNext]_allVars PROVE [Next]_vars
    OBVIOUS
  <2>1. ASSUME NEW w \in Worker, TxWorkerStep(w) PROVE WorkerStep(w) \/ UNCHANGED vars
    BY <2>1 DEF TxWorkerStep, TxBegin, WorkImp, TxWorkDone, PoolStep, WorkerStep,
       FirstTest, FirstClaim, GreenLight, Transmit
  <2>2. ASSUME TxSyncStep PROVE SyncStep
    BY <2>2 DEF TxSyncStep, TxDispatch, SyncStep, Receive
  <2>3. ASSUME ResetPhy PROVE UNCHANGED vars
    BY <2>3 DEF ResetPhy
  <2>4. QED
    BY <2>1, <2>2, <2>3 DEF TxNext, Next, allVars
<1>3. QED
  BY <1>1, <1>2, PTL DEF TxSpec, Spec

-----------------------------------------------------------------------------
(* What is pending, with or without resets: one lemma for each kind of step. *)

\* The steps of ThreadPool that leave the chain alone.
LEMMA PoolStepsKeepQueue ==
    ASSUME PoolInv, QueueInv, UNCHANGED txVars,
           \/ \E w \in Worker : Boot(w) \/ LoopTest(w) \/ WaitTest(w) \/ Sleep(w) \/ FinishIdle(w) \/ FinishSignal(w)
           \/ SyncLoop \/ ScanOne \/ ScanEnd \/ Rescan \/ TakeWorker \/ Release \/ RadioError
           \/ UNCHANGED vars
    PROVE  QueueInv'
<1>1. TxTypeOK' /\ NoneTwice'
  BY DEF QueueInv, txVars, TxTypeOK, NoneTwice
<1>2. \A w \in Worker : InPending(w)' <=> InPending(w)
  BY DEF txVars, InPending
<1> USE DEF PoolInv, TypeOK, StopOrder, Ownership, QueueInv, ChainUp, PendingMatches, txVars
<1>3. ASSUME NEW w \in Worker,
             Boot(w) \/ LoopTest(w) \/ WaitTest(w) \/ Sleep(w) \/ FinishIdle(w) \/ FinishSignal(w)
      PROVE  ChainUp' /\ PendingMatches'
  <2>1. ChainUp'
    BY <1>3 DEF clientVars, Boot, LoopTest, WaitTest, Sleep, FinishIdle, FinishSignal
  <2>2. CASE Boot(w) \/ LoopTest(w) \/ Sleep(w)
    BY <1>2, <2>1, <2>2 DEF WorkerGoto, clientVars, Boot, LoopTest, Sleep
  <2>3. CASE WaitTest(w)
    BY <1>2, <2>1, <2>3 DEF WorkerGoto, clientVars, WaitTest
  <2>4. CASE FinishIdle(w)
    BY <1>2, <2>1, <2>4 DEF WorkerGoto, clientVars, FinishIdle
  <2>5. CASE FinishSignal(w)
    BY <1>2, <2>1, <2>5 DEF WorkerGoto, clientVars, FinishSignal
  <2>6. QED
    BY <1>3, <2>2, <2>3, <2>4, <2>5
<1>4. CASE SyncLoop \/ ScanOne \/ ScanEnd \/ Rescan
  <2>1. CASE SyncLoop
    BY <1>1, <1>2, <2>1 DEF SyncGoto, stopVars, SyncLoop
  <2>2. CASE ScanOne
    BY <1>1, <1>2, <2>2 DEF SyncGoto, stopVars, ScanOne
  <2>3. CASE ScanEnd
    BY <1>1, <1>2, <2>3 DEF SyncGoto, stopVars, ScanEnd
  <2>4. CASE Rescan
    BY <1>1, <1>2, <2>4 DEF SyncGoto, stopVars, Rescan
  <2>5. QED
    BY <1>4, <2>1, <2>2, <2>3, <2>4
<1>5. CASE TakeWorker \/ Release \/ RadioError
  <2>1. CASE TakeWorker
    BY <1>1, <1>2, <2>1 DEF SyncGoto, stopVars, TakeWorker
  <2>2. CASE Release
    BY <1>1, <1>2, <2>2 DEF SyncGoto, stopVars, Release
  <2>3. CASE RadioError
    BY <1>1, <1>2, <2>3 DEF SyncGoto, stopVars, RadioError
  <2>4. QED
    BY <1>5, <2>1, <2>2, <2>3
<1>6. CASE UNCHANGED vars
  BY <1>1, <1>2, <1>6 DEF vars
<1>7. QED
  BY <1>1, <1>3, <1>4, <1>5, <1>6

\* A worker before and after its transmission, the token, and the RRC's reset.
LEMMA ChainStepsKeepQueue ==
    ASSUME PoolInv, QueueInv,
           \/ ResetPhy
           \/ \E w \in Worker : \/ TxBegin(w) \/ FirstTest(w) \/ FirstClaim(w)
                               \/ GreenLight(w) \/ TxWorkDone(w)
    PROVE  QueueInv'
<1> USE DEF QueueInv
<1>1. pending' = pending /\ txSemId' = txSemId /\ txWorkerCnt' = txWorkerCnt
  BY DEF ResetPhy, TxBegin, FirstTest, FirstClaim, GreenLight, TxWorkDone
<1>2. NoneTwice' /\ \A v \in Worker : InPending(v)' <=> InPending(v)
  BY <1>1 DEF NoneTwice, InPending
<1>3. CASE ResetPhy
  <2>1. UNCHANGED <<vars, txSem, txpc>> /\ isFirstTx' = TRUE /\ resets' = resets + 1 /\ resets < MaxResets
    BY <1>3 DEF ResetPhy
  <2>2. TxTypeOK'
    BY <1>1, <2>1, MaxResetsAssumption DEF TxTypeOK
  <2>3. ChainUp' /\ PendingMatches'
    BY <1>2, <2>1 DEF ChainUp, PendingMatches, vars
  <2>4. QED
    BY <1>2, <2>2, <2>3
<1>4. ASSUME NEW w \in Worker, TxBegin(w) PROVE QueueInv'
  <2>1. wpc[w] = "begin" /\ wpc' = [wpc EXCEPT ![w] = "work"]
    BY <1>4 DEF TxBegin, Begin, WorkerGoto, ChainUp, PoolInv, StopOrder, TypeOK
  <2>2. txpc[w] = "none" /\ txpc' = [txpc EXCEPT ![w] = "first"]
    BY <1>4, <2>1 DEF TxBegin, TxGoto, PoolInv, TypeOK
  <2>3. UNCHANGED <<status, dpc, syncRunning, prunning, spc, txSem, isFirstTx, resets>>
    BY <1>4 DEF TxBegin, Begin, clientVars
  <2>4. TxTypeOK'
    BY <1>1, <2>2, <2>3 DEF TxTypeOK, TxPC
  <2>5. ChainUp'
    BY <2>3 DEF ChainUp
  <2>6. PendingMatches'
    <3>1. InPending(w) /\ status[w] = "WORKING"
      BY <2>1 DEF PendingMatches, ChainUp, PoolInv, Ownership, StopOrder, TypeOK
    <3>2. wpc'[w] = "work" /\ txpc'[w] = "first" /\ status'[w] = "WORKING"
      BY <2>1, <2>2, <2>3, <3>1 DEF TxTypeOK, PoolInv, TypeOK
    <3>3. \A v \in Worker : v # w => wpc'[v] = wpc[v] /\ txpc'[v] = txpc[v] /\ status'[v] = status[v]
      BY <2>1, <2>2, <2>3 DEF TxTypeOK, PoolInv, TypeOK
    <3>4. QED
      BY <1>2, <3>1, <3>2, <3>3 DEF PendingMatches
  <2>7. QED
    BY <1>2, <2>4, <2>5, <2>6
<1>5. ASSUME NEW w \in Worker, FirstTest(w) \/ FirstClaim(w) \/ GreenLight(w) PROVE QueueInv'
  <2>1. /\ txpc[w] \in {"first", "claim", "semwait"}
        /\ \E to \in {"claim", "semwait", "tx"} : txpc' = [txpc EXCEPT ![w] = to]
    BY <1>5 DEF FirstTest, FirstClaim, GreenLight, TxGoto
  <2>2. UNCHANGED vars /\ resets' = resets /\ isFirstTx' \in BOOLEAN
    BY <1>5 DEF FirstTest, FirstClaim, GreenLight, TxTypeOK
  <2>3. txSem' \in [Worker -> Nat]
    <3>1. CASE FirstTest(w)
      BY <3>1 DEF FirstTest, TxTypeOK
    <3>2. CASE FirstClaim(w)
      BY <3>2 DEF FirstClaim, Post, TxTypeOK
    <3>3. CASE GreenLight(w)
      <4>1. txSemId[w] \in Worker /\ txSem[txSemId[w]] - 1 \in Nat
        BY <3>3 DEF GreenLight, TxTypeOK
      <4>2. QED
        BY <3>3, <4>1 DEF GreenLight, TxTypeOK
    <3>4. QED
      BY <1>5, <3>1, <3>2, <3>3
  <2>4. TxTypeOK'
    <3>1. txpc' \in [Worker -> TxPC]
      BY <2>1 DEF TxTypeOK, TxPC
    <3>2. QED
      BY <1>1, <2>2, <2>3, <3>1 DEF TxTypeOK
  <2>5. ChainUp'
    BY <2>2 DEF ChainUp, vars
  <2>6. PendingMatches'
    <3>1. InPending(w) /\ wpc[w] = "work"
      BY <2>1 DEF PendingMatches
    <3>2. status[w] # "START_WORK"
      BY <2>1 DEF PendingMatches
    <3>3. txpc'[w] \in {"claim", "semwait", "tx"} /\ \A v \in Worker : v # w => txpc'[v] = txpc[v]
      BY <2>1 DEF TxTypeOK
    <3>4. QED
      BY <1>2, <2>2, <3>1, <3>2, <3>3 DEF PendingMatches, vars
  <2>7. QED
    BY <1>2, <2>4, <2>5, <2>6
<1>6. ASSUME NEW w \in Worker, TxWorkDone(w) PROVE QueueInv'
  <2>1. wpc[w] = "work" /\ wpc' = [wpc EXCEPT ![w] = "fin"]
    BY <1>6 DEF TxWorkDone, WorkDone, WorkerGoto
  <2>2. txpc[w] = "done" /\ txpc' = [txpc EXCEPT ![w] = "none"]
    BY <1>6 DEF TxWorkDone, TxGoto
  <2>3. UNCHANGED <<status, dpc, syncRunning, prunning, spc, txSem, isFirstTx, resets>>
    BY <1>6 DEF TxWorkDone, WorkDone, clientVars
  <2>4. TxTypeOK'
    BY <1>1, <2>2, <2>3 DEF TxTypeOK, TxPC
  <2>5. ChainUp'
    BY <2>3 DEF ChainUp
  <2>6. PendingMatches'
    BY <1>2, <2>1, <2>2, <2>3 DEF PendingMatches, TxTypeOK, PoolInv, TypeOK
  <2>7. QED
    BY <1>2, <2>4, <2>5, <2>6
<1>7. QED
  BY <1>3, <1>4, <1>5, <1>6

\* The sequence without its element at i, as Retire takes it.
LEMMA Removed ==
    ASSUME NEW s \in Seq(Worker), NEW i \in 1 .. Len(s), NEW r,
           r = SubSeq(s, 1, i - 1) \o SubSeq(s, i + 1, Len(s))
    PROVE  /\ r \in Seq(Worker) /\ Len(r) = Len(s) - 1
           /\ \A j \in 1 .. Len(s) - 1 : r[j] = IF j < i THEN s[j] ELSE s[j + 1]
<1>1. Len(s) \in Nat /\ i \in Nat /\ 1 <= i /\ i <= Len(s)
  OBVIOUS
<1>2. PICK a : a = SubSeq(s, 1, i - 1)
  OBVIOUS
<1>3. PICK b : b = SubSeq(s, i + 1, Len(s))
  OBVIOUS
<1>4. a \in Seq(Worker) /\ Len(a) = i - 1 /\ \A j \in 1 .. i - 1 : a[j] = s[j]
  <2>1. \A j \in 1 .. i - 1 : s[j] \in Worker /\ 1 + j - 1 = j
    BY <1>1
  <2>2. 1 \in Int /\ i - 1 \in Int /\ (i - 1) - 1 + 1 = i - 1 /\ (IF 1 <= i - 1 THEN (i - 1) - 1 + 1 ELSE 0) = i - 1
    BY <1>1
  <2>3. /\ SubSeq(s, 1, i - 1) \in Seq(Worker)
        /\ Len(SubSeq(s, 1, i - 1)) = IF 1 <= i - 1 THEN (i - 1) - 1 + 1 ELSE 0
        /\ \A j \in 1 .. (i - 1) - 1 + 1 : SubSeq(s, 1, i - 1)[j] = s[1 + j - 1]
    BY <2>1, <2>2, SubSeqProperties
  <2>4. QED
    BY <1>2, <2>1, <2>2, <2>3
<1>5. b \in Seq(Worker) /\ Len(b) = Len(s) - i /\ \A j \in 1 .. Len(s) - i : b[j] = s[i + j]
  <2>1. PICK m \in Int : m = i + 1
    BY <1>1
  <2>2. PICK n \in Int : n = Len(s)
    BY <1>1
  <2>3. \A j \in m .. n : s[j] \in Worker
    BY <1>1, <2>1, <2>2
  <2>4. /\ SubSeq(s, m, n) \in Seq(Worker)
        /\ Len(SubSeq(s, m, n)) = IF m <= n THEN n - m + 1 ELSE 0
        /\ \A j \in 1 .. n - m + 1 : SubSeq(s, m, n)[j] = s[m + j - 1]
    BY <2>1, <2>2, <2>3, SubSeqProperties
  <2>5. n - m + 1 = Len(s) - i /\ (IF m <= n THEN n - m + 1 ELSE 0) = Len(s) - i
    BY <1>1, <2>1, <2>2
  <2>6. \A j \in 1 .. Len(s) - i : m + j - 1 = i + j
    BY <1>1, <2>1
  <2>7. b = SubSeq(s, m, n)
    BY <1>3, <2>1, <2>2
  <2>8. QED
    BY <2>4, <2>5, <2>6, <2>7
<1>6. /\ r \in Seq(Worker) /\ Len(r) = Len(s) - 1
      /\ \A j \in 1 .. Len(s) - 1 : r[j] = IF j <= i - 1 THEN a[j] ELSE b[j - (i - 1)]
  <2>1. r = a \o b
    BY <1>2, <1>3
  <2>2. Len(a) + Len(b) = Len(s) - 1
    BY <1>1, <1>4, <1>5
  <2>3. a \in Seq(Worker) /\ b \in Seq(Worker)
    BY <1>4, <1>5
  <2>4. /\ a \o b \in Seq(Worker) /\ Len(a \o b) = Len(a) + Len(b)
        /\ \A j \in 1 .. Len(a) + Len(b) : (a \o b)[j] = IF j <= Len(a) THEN a[j] ELSE b[j - Len(a)]
    BY <2>3, ConcatProperties
  <2>5. QED
    BY <1>4, <2>1, <2>2, <2>4, Zenon
<1>7. ASSUME NEW j \in 1 .. Len(s) - 1 PROVE r[j] = IF j < i THEN s[j] ELSE s[j + 1]
  <2>1. CASE j < i
    <3>1. j <= i - 1 /\ j \in 1 .. i - 1
      BY <1>1, <2>1
    <3>2. QED
      BY <1>4, <1>6, <2>1, <3>1
  <2>2. CASE ~(j < i)
    <3>1. j - (i - 1) \in 1 .. Len(s) - i /\ i + (j - (i - 1)) = j + 1 /\ ~(j <= i - 1)
      BY <1>1, <2>2
    <3>2. r[j] = b[j - (i - 1)]
      BY <1>6, <3>1
    <3>3. QED
      BY <1>5, <2>2, <3>1, <3>2
  <2>3. QED
    BY <2>1, <2>2
<1>8. QED
  BY <1>6, <1>7

\* A worker that transmits, wherever in the queue it is, leaves the others pending.
LEMMA TransmitKeepsQueue ==
    ASSUME PoolInv, QueueInv, NEW w \in Worker, Transmit(w)
    PROVE  /\ QueueInv'
           /\ \A v \in Worker : InPending(v)' <=> InPending(v) /\ v # w
<1> USE DEF QueueInv
<1>1. UNCHANGED vars /\ UNCHANGED <<isFirstTx, txSemId, txWorkerCnt, resets>>
  BY DEF Transmit
<1>2. txpc[w] = "tx" /\ txpc' = [txpc EXCEPT ![w] = "done"]
  BY DEF Transmit, TxGoto
<1> DEFINE n == Len(pending)
<1>3. n \in Nat /\ n <= NofWorkers /\ pending \in Seq(Worker) /\ DOMAIN pending = 1 .. n
  BY DEF TxTypeOK
<1>4. PICK i \in 1 .. n :
         pending[i] = w /\ pending' = SubSeq(pending, 1, i - 1) \o SubSeq(pending, i + 1, n)
  BY <1>3 DEF Transmit, Retire
<1>5. /\ pending' \in Seq(Worker) /\ Len(pending') = n - 1
      /\ \A j \in 1 .. n - 1 : pending'[j] = IF j < i THEN pending[j] ELSE pending[j + 1]
  BY <1>3, <1>4, Removed
<1> HIDE DEF n
<1>6. \A j, k \in 1 .. n : pending[j] = pending[k] => j = k
  BY DEF NoneTwice, n
<1> DEFINE old(j) == IF j < i THEN j ELSE j + 1
<1>7. \A j \in 1 .. n - 1 : old(j) \in 1 .. n /\ old(j) # i /\ pending'[j] = pending[old(j)]
  BY <1>3, <1>5
<1>8. \A j, k \in 1 .. n - 1 : old(j) = old(k) => j = k
  BY <1>3
<1>9. \A k \in 1 .. n : k # i => \E j \in 1 .. n - 1 : old(j) = k
  <2>1. ASSUME NEW k \in 1 .. n, k < i PROVE k \in 1 .. n - 1 /\ old(k) = k
    BY <1>3, <2>1
  <2>2. ASSUME NEW k \in 1 .. n, k > i PROVE k - 1 \in 1 .. n - 1 /\ old(k - 1) = k
    BY <1>3, <2>2
  <2>3. \A k \in 1 .. n : k # i => k < i \/ k > i
    BY <1>3
  <2> HIDE DEF old
  <2>4. QED
    BY <2>1, <2>2, <2>3
<1> HIDE DEF old
<1>10. ASSUME NEW v \in Worker PROVE InPending(v)' <=> InPending(v) /\ v # w
  <2>1. ASSUME InPending(v), v # w PROVE InPending(v)'
    <3>1. PICK k \in 1 .. n : pending[k] = v
      BY <2>1 DEF InPending, n
    <3>2. PICK j \in 1 .. n - 1 : old(j) = k
      BY <1>4, <1>9, <2>1, <3>1
    <3>3. QED
      BY <1>5, <1>7, <3>1, <3>2 DEF InPending
  <2>2. ASSUME InPending(v)' PROVE InPending(v) /\ v # w
    <3>1. PICK j \in 1 .. n - 1 : pending'[j] = v
      BY <1>5, <2>2 DEF InPending
    <3>2. pending[old(j)] = v /\ old(j) \in 1 .. n /\ old(j) # i
      BY <1>7, <3>1
    <3>3. QED
      BY <1>4, <1>6, <3>2 DEF InPending, n
  <2>3. QED
    BY <2>1, <2>2
<1>11. NoneTwice'
  BY <1>5, <1>6, <1>7, <1>8 DEF NoneTwice
<1>12. TxTypeOK'
  <2>1. txSem' \in [Worker -> Nat]
    <3>1. txSemId[w] \in Worker /\ txSem \in [Worker -> Nat]
      BY DEF TxTypeOK
    <3>2. NextSem(txSemId[w]) \in Worker
      <4>1. NextSem(txSemId[w]) = IF txSemId[w] + 1 = NofWorkers THEN 0 ELSE txSemId[w] + 1
        BY <3>1, NextSemIs
      <4>2. QED
        BY <3>1, <4>1, NofWorkersAssumption DEF Worker
    <3>3. PICK k \in Worker : txSem' = [txSem EXCEPT ![k] = txSem[k] + 1]
      BY <3>2 DEF Transmit, Post
    <3>4. QED
      BY <3>1, <3>3
  <2>2. txpc' \in [Worker -> TxPC]
    BY <1>2 DEF TxTypeOK, TxPC
  <2>3. Len(pending') <= NofWorkers
    BY <1>3, <1>5, NofWorkersAssumption
  <2>4. QED
    BY <1>1, <1>5, <2>1, <2>2, <2>3 DEF TxTypeOK
<1>13. ChainUp'
  BY <1>1 DEF ChainUp, vars
<1>14. PendingMatches'
  <2>1. txpc'[w] = "done" /\ wpc[w] = "work" /\ status[w] # "START_WORK"
    BY <1>2 DEF PendingMatches, TxTypeOK
  <2>2. \A v \in Worker : v # w => txpc'[v] = txpc[v]
    BY <1>2 DEF TxTypeOK
  <2>3. QED
    BY <1>1, <1>10, <2>1, <2>2 DEF PendingMatches, vars
<1>15. QED
  BY <1>10, <1>11, <1>12, <1>13, <1>14

\* The dispatched worker was not pending, so the queue has room for it.
LEMMA DispatchKeepsQueue ==
    ASSUME PoolInv, QueueInv, TxDispatch
    PROVE  /\ QueueInv'
           /\ ~InPending(held) /\ held \in Worker /\ Len(pending) + 1 <= NofWorkers
           /\ Len(pending') = Len(pending) + 1 /\ pending'[Len(pending) + 1] = held
           /\ \A i \in 1 .. Len(pending) : pending'[i] = pending[i]
<1> USE DEF QueueInv
<1>1. /\ dpc = "ready" /\ dpc' = "loop" /\ held \in Worker
      /\ status' = [status EXCEPT ![held] = "START_WORK"]
      /\ wpc[held] # "presleep" /\ wpc' = IF wpc[held] = "wait" THEN [wpc EXCEPT ![held] = "test"] ELSE wpc
      /\ UNCHANGED <<syncRunning, prunning, spc>>
  BY DEF TxDispatch, Dispatch, StartWorker, SyncGoto, stopVars, PoolInv, TypeOK
<1>2. /\ isFirstTx' = isFirstTx /\ txSem' = txSem /\ txpc' = txpc /\ resets' = resets
      /\ txSemId' = [txSemId EXCEPT ![held] = txWorkerCnt]
      /\ txWorkerCnt' = NextSem(txWorkerCnt)
      /\ pending' = Append(pending, held)
  BY DEF TxDispatch
<1>3. status[held] = "WORKER_READY" /\ wpc[held] \notin {"begin", "work"}
  BY <1>1 DEF PoolInv, Ownership
<1>4. txpc[held] = "none" /\ ~InPending(held)
  BY <1>1, <1>3 DEF PendingMatches
<1> DEFINE n == Len(pending)
<1>5. n \in Nat /\ pending \in Seq(Worker) /\ n + 1 <= NofWorkers
  <2>1. \A i \in 1 .. Len(pending) : pending[i] # held
    BY <1>4 DEF InPending
  <2>2. Len(pending) < NofWorkers
    BY <1>1, <2>1, RoomForHeld DEF TxTypeOK, NoneTwice
  <2>3. QED
    BY <2>2, NofWorkersAssumption DEF TxTypeOK
<1>6. /\ pending' \in Seq(Worker) /\ Len(pending') = n + 1
      /\ pending'[n + 1] = held
      /\ \A i \in 1 .. n : pending'[i] = pending[i]
  BY <1>1, <1>2, <1>5
<1> HIDE DEF n
<1>7. \A i \in 1 .. n : pending[i] \in Worker /\ pending[i] # held
  BY <1>4, <1>5 DEF InPending, n
<1>8. \A i \in 1 .. n + 1 : i \in 1 .. n \/ i = n + 1
  BY <1>5
<1>9. \A v \in Worker : InPending(v)' <=> InPending(v) \/ v = held
  <2>1. ASSUME NEW v \in Worker, InPending(v) PROVE InPending(v)'
    <3>1. PICK i \in 1 .. n : pending[i] = v
      BY <2>1 DEF InPending, n
    <3>2. i \in 1 .. n + 1
      BY <1>5
    <3>3. QED
      BY <1>6, <3>1, <3>2 DEF InPending
  <2>2. ASSUME NEW v \in Worker, v = held PROVE InPending(v)'
    <3>1. n + 1 \in 1 .. n + 1
      BY <1>5
    <3>2. QED
      BY <1>6, <2>2, <3>1 DEF InPending
  <2>3. ASSUME NEW v \in Worker, InPending(v)', v # held PROVE InPending(v)
    BY <1>6, <1>8, <2>3 DEF InPending, n
  <2>4. QED
    BY <2>1, <2>2, <2>3
<1>10. ChainUp'
  BY <1>1 DEF ChainUp
<1>11. PendingMatches'
  <2>1. \A v \in Worker : v # held => status'[v] = status[v] /\ wpc'[v] = wpc[v]
    BY <1>1 DEF PoolInv, TypeOK
  <2>2. status'[held] = "START_WORK" /\ txpc'[held] = "none"
    BY <1>1, <1>2, <1>4 DEF PoolInv, TypeOK
  <2>3. QED
    BY <1>2, <1>9, <2>1, <2>2 DEF PendingMatches
<1>12. NoneTwice'
  <2>1. \A i, j \in 1 .. n : pending[i] = pending[j] => i = j
    BY DEF NoneTwice, n
  <2>2. ASSUME NEW i \in 1 .. n + 1, NEW j \in 1 .. n + 1, pending'[i] = pending'[j] PROVE i = j
    BY <1>6, <1>7, <1>8, <2>1, <2>2
  <2>3. QED
    BY <1>6, <2>2 DEF NoneTwice
<1>13. TxTypeOK'
  <2>1. txSemId' \in [Worker -> Worker] /\ txWorkerCnt' \in Worker
    <3>1. txWorkerCnt \in Worker /\ txSemId' \in [Worker -> Worker]
      BY <1>1, <1>2 DEF TxTypeOK
    <3>2. NextSem(txWorkerCnt) = IF txWorkerCnt + 1 = NofWorkers THEN 0 ELSE txWorkerCnt + 1
      BY <3>1, NextSemIs
    <3>3. NextSem(txWorkerCnt) \in Worker
      BY <3>1, <3>2, NofWorkersAssumption DEF Worker
    <3>4. QED
      BY <1>2, <3>1, <3>3
  <2>2. pending' \in Seq(Worker) /\ Len(pending') <= NofWorkers
    BY <1>5, <1>6
  <2>3. QED
    BY <1>2, <2>1, <2>2 DEF TxTypeOK
<1>14. QED
  BY <1>1, <1>4, <1>5, <1>6, <1>10, <1>11, <1>12, <1>13 DEF n

\* What is pending matches what the workers do, whenever and however often the chain is
\* reset (phy_common::reset) and however close the first subframes are.
THEOREM QueueInvariant == TxSpec => []QueueInv
<1>1. TxInit => QueueInv
  <2> SUFFICES ASSUME TxInit PROVE QueueInv
    OBVIOUS
  <2> USE DEF TxInit, Init
  <2>1. Len(pending) = 0 /\ pending \in Seq(Worker) /\ 0 \in Worker
    BY NofWorkersAssumption DEF Worker
  <2>2. TxTypeOK
    BY <2>1, NofWorkersAssumption, MaxResetsAssumption DEF TxTypeOK, TxPC
  <2>3. ChainUp
    BY DEF ChainUp
  <2>4. PendingMatches /\ NoneTwice
    BY <2>1 DEF PendingMatches, InPending, NoneTwice
  <2>5. QED
    BY <2>2, <2>3, <2>4 DEF QueueInv
<1>2. PoolInv /\ QueueInv /\ [TxNext]_allVars => QueueInv'
  <2> SUFFICES ASSUME PoolInv, QueueInv, [TxNext]_allVars PROVE QueueInv'
    OBVIOUS
  <2>1. ASSUME NEW w \in Worker, TxWorkerStep(w) PROVE QueueInv'
    <3>1. CASE PoolStep(w)
      BY <3>1, PoolStepsKeepQueue DEF PoolStep
    <3>2. CASE TxBegin(w) \/ FirstTest(w) \/ FirstClaim(w) \/ GreenLight(w) \/ TxWorkDone(w)
      BY <3>2, ChainStepsKeepQueue
    <3>3. CASE Transmit(w)
      BY <3>3, TransmitKeepsQueue
    <3>4. QED
      BY <2>1, <3>1, <3>2, <3>3 DEF TxWorkerStep, WorkImp
  <2>2. CASE TxSyncStep
    <3>1. CASE TxDispatch
      BY <3>1, DispatchKeepsQueue
    <3>2. CASE ~TxDispatch
      BY <2>2, <3>2, PoolStepsKeepQueue DEF TxSyncStep
    <3>3. QED
      BY <3>1, <3>2
  <2>3. CASE ResetPhy
    BY <2>3, ChainStepsKeepQueue
  <2>4. CASE UNCHANGED allVars
    BY <2>4, PoolStepsKeepQueue DEF allVars
  <2>5. QED
    BY <2>1, <2>2, <2>3, <2>4 DEF TxNext
<1>3. QED
  BY <1>1, <1>2, ChainIsPool, PoolInvariant, PTL DEF TxSpec

-----------------------------------------------------------------------------
(* Ring and token, without resets: one lemma for each kind of step.        *)

\* The worker's own steps before it transmits, and the last one.
LEMMA WorkerStepsKeepChain ==
    ASSUME ChainInv, NEW w \in Worker, TxBegin(w) \/ FirstTest(w) \/ TxWorkDone(w)
    PROVE  RingOrder' /\ TokenPlace'
<1> USE DEF ChainInv
<1>1. /\ pending' = pending /\ txSemId' = txSemId /\ txWorkerCnt' = txWorkerCnt
      /\ txSem' = txSem /\ isFirstTx' = isFirstTx
  BY DEF TxBegin, FirstTest, TxWorkDone
<1>2. RingOrder' /\ TokenPos' = TokenPos
  BY <1>1 DEF RingOrder, TokenPos, RingBack
<1>3. txpc \in [Worker -> TxPC] /\ isFirstTx \in BOOLEAN
  BY DEF QueueInv, TxTypeOK
<1>4. \/ txpc' = txpc
      \/ txpc' = [txpc EXCEPT ![w] = "first"] /\ txpc[w] = "none"
      \/ txpc' = [txpc EXCEPT ![w] = IF isFirstTx THEN "claim" ELSE "semwait"] /\ txpc[w] = "first"
      \/ txpc' = [txpc EXCEPT ![w] = "none"] /\ txpc[w] = "done"
  BY DEF TxBegin, FirstTest, TxWorkDone, TxGoto
<1>5. TokenPlace'
  BY <1>1, <1>2, <1>3, <1>4 DEF TokenPlace, TxPC
<1>6. QED
  BY <1>2, <1>5

\* The worker at position i of the pending subframes has the ring position of i, so it
\* is the oldest if its position is the token's.
LEMMA OldestAtToken ==
    ASSUME ChainInv, NEW w \in Worker, InPending(w)
    PROVE  /\ Len(pending) \in 1 .. NofWorkers
           /\ txSemId[w] = TokenPos <=> w = pending[1]
           /\ Len(pending) = 1 => w = pending[1]
<1> USE DEF ChainInv, QueueInv, TxTypeOK
<1>1. PICK i \in 1 .. Len(pending) : pending[i] = w
  BY DEF InPending
<1>2. Len(pending) \in 1 .. NofWorkers
  BY <1>1, NofWorkersAssumption
<1>3. txSemId[w] = RingBack(txWorkerCnt, Len(pending) - i + 1)
  BY <1>1 DEF RingOrder
<1>4. txSemId[w] = TokenPos => i = 1
  <2>1. Len(pending) - i + 1 \in 1 .. NofWorkers
    BY <1>2, NofWorkersAssumption
  <2>2. SUFFICES ASSUME txSemId[w] = TokenPos PROVE i = 1
    OBVIOUS
  <2>3. Len(pending) - i + 1 = Len(pending)
    BY <1>2, <1>3, <2>1, <2>2, RingBackInjective DEF TokenPos
  <2>4. QED
    BY <1>2, <2>3
<1>5. w = pending[1] => txSemId[w] = TokenPos
  <2>1. 1 \in 1 .. Len(pending) /\ Len(pending) - 1 + 1 = Len(pending)
    BY <1>2
  <2>2. txSemId[pending[1]] = RingBack(txWorkerCnt, Len(pending))
    BY <2>1 DEF RingOrder
  <2>3. QED
    BY <2>2 DEF TokenPos
<1>6. QED
  BY <1>1, <1>2, <1>4, <1>5

\* Taking and creating the token.
LEMMA TokenStepsKeepChain ==
    ASSUME ChainAssumed, ChainInv, NEW w \in Worker,
           FirstClaim(w) \/ GreenLight(w)
    PROVE  RingOrder' /\ TokenPlace'
<1> USE DEF ChainAssumed, ChainInv, QueueInv
<1>1. /\ UNCHANGED vars
      /\ pending' = pending /\ txSemId' = txSemId /\ txWorkerCnt' = txWorkerCnt /\ resets' = resets
  BY DEF FirstClaim, GreenLight
<1>2. RingOrder' /\ TokenPos' = TokenPos
  BY <1>1 DEF RingOrder, TokenPos, RingBack
<1>4. CASE FirstClaim(w)
  <2>1. txpc[w] = "claim" /\ txpc' = [txpc EXCEPT ![w] = "semwait"] /\ isFirstTx' = FALSE
    BY <1>4 DEF FirstClaim, TxGoto
  <2>2. isFirstTx /\ Len(pending) <= 1 /\ \A v \in Worker : txpc[v] \in {"none", "first", "claim"} /\ txSem[v] = 0
    BY <2>1 DEF TokenPlace
  <2>3. InPending(w)
    BY <2>1 DEF PendingMatches
  <2>4. txSemId[w] = TokenPos /\ Len(pending) = 1 /\ w = pending[1]
    <3>1. Len(pending) \in 1 .. NofWorkers
      BY <2>3, OldestAtToken
    <3>2. Len(pending) = 1
      <4>1. Len(pending) <= 1
        BY <2>2
      <4>2. \A n \in 1 .. NofWorkers : n <= 1 => n = 1
        BY NofWorkersAssumption
      <4>3. QED
        BY <3>1, <4>1, <4>2
    <3>3. QED
      BY <2>3, <3>2, OldestAtToken
  <2>5. /\ txSem' \in [Worker -> 0 .. 1]
        /\ \A k \in Worker : txSem'[k] = IF k = TokenPos THEN 1 ELSE 0
    <3>1. txSem' = [txSem EXCEPT ![TokenPos] = 0 + 1] /\ TokenPos \in Worker
      BY <1>4, <2>2, <2>4 DEF FirstClaim, Post, TxTypeOK
    <3>2. QED
      BY <2>2, <3>1 DEF TxTypeOK
  <2>6. \A v \in Worker : v # w => txpc[v] # "claim"
    BY <2>4, OldestAtToken DEF PendingMatches
  <2>9. TokenPlace'
    BY <1>2, <2>1, <2>2, <2>5, <2>6 DEF TokenPlace, TxTypeOK
  <2>10. QED
    BY <1>2, <2>9
<1>5. CASE GreenLight(w)
  <2>1. txpc[w] = "semwait" /\ txpc' = [txpc EXCEPT ![w] = "tx"] /\ isFirstTx' = isFirstTx
    BY <1>5 DEF GreenLight, TxGoto
  <2>2. txSem[txSemId[w]] > 0 /\ txSemId[w] \in Worker
    BY <1>5 DEF GreenLight, TxTypeOK
  <2>3. /\ ~isFirstTx /\ txSemId[w] = TokenPos
        /\ \A v \in Worker : txpc[v] \notin {"claim", "tx"}
        /\ \A k \in Worker : txSem[k] = IF k = TokenPos THEN 1 ELSE 0
    BY <2>2 DEF TokenPlace
  <2>4. InPending(w)
    BY <2>1 DEF PendingMatches
  <2>5. w = pending[1] /\ Len(pending) > 0
    BY <2>3, <2>4, OldestAtToken
  <2>6. txSem' \in [Worker -> 0 .. 1] /\ \A k \in Worker : txSem'[k] = 0
    <3>1. txSem' = [txSem EXCEPT ![TokenPos] = 1 - 1]
      BY <1>5, <2>2, <2>3 DEF GreenLight
    <3>2. QED
      BY <2>3, <3>1 DEF TxTypeOK
  <2>9. TokenPlace'
    BY <1>1, <2>1, <2>3, <2>5, <2>6 DEF TokenPlace, TxTypeOK
  <2>10. QED
    BY <1>2, <2>9
<1>6. QED
  BY <1>4, <1>5

\* Only the oldest pending worker transmits, so retiring it takes the head away.
LEMMA TransmitsHead ==
    ASSUME ChainInv, NEW w \in Worker, Transmit(w)
    PROVE  /\ Len(pending) \in 1 .. NofWorkers
           /\ w = pending[1] /\ ~isFirstTx /\ \A k \in Worker : txSem[k] = 0
           /\ pending' = Tail(pending)
           /\ pending' \in Seq(Worker)
           /\ Len(pending') = Len(pending) - 1
           /\ \A i \in 1 .. Len(pending) - 1 : pending'[i] = pending[i + 1]
<1>1. txpc[w] = "tx"
  BY DEF Transmit, TxGoto
<1>2. InPending(w)
  BY <1>1 DEF ChainInv, QueueInv, PendingMatches
<1>3. Len(pending) \in 1 .. NofWorkers
  BY <1>2, OldestAtToken
<1>4. w = pending[1] /\ ~isFirstTx /\ \A k \in Worker : txSem[k] = 0
  BY <1>1 DEF ChainInv, TokenPlace
<1>5. PICK i \in DOMAIN pending :
         pending[i] = w /\ pending' = SubSeq(pending, 1, i - 1) \o SubSeq(pending, i + 1, Len(pending))
  BY DEF Transmit, Retire
<1>6. pending \in Seq(Worker)
  BY DEF ChainInv, QueueInv, TxTypeOK
<1>7. i \in 1 .. Len(pending) /\ 1 \in 1 .. Len(pending)
  BY <1>3, <1>6, NofWorkersAssumption
<1>8. i = 1
  BY <1>4, <1>5, <1>7 DEF ChainInv, QueueInv, NoneTwice
<1>9. pending' = SubSeq(pending, 1, 0) \o SubSeq(pending, 2, Len(pending))
  BY <1>5, <1>8
<1>10. SubSeq(pending, 2, Len(pending)) = Tail(pending) /\ Tail(pending) \in Seq(Worker)
  BY <1>3, <1>6, NofWorkersAssumption
<1>11. SubSeq(pending, 1, 0) = << >>
  BY <1>6
<1>12. pending' = Tail(pending)
  BY <1>9, <1>10, <1>11
<1>13. /\ Len(Tail(pending)) = Len(pending) - 1
       /\ \A j \in 1 .. Len(pending) - 1 : Tail(pending)[j] = pending[j + 1]
  BY <1>3, <1>6, NofWorkersAssumption
<1>14. QED
  BY <1>3, <1>4, <1>10, <1>12, <1>13

\* The transmission comes between the wait for the turn and the passing of it: the chain stays.
LEMMA TransmitKeepsChain ==
    ASSUME ChainAssumed, ChainInv, NEW w \in Worker, Transmit(w)
    PROVE  RingOrder' /\ TokenPlace'
<1> USE DEF ChainInv, QueueInv
<1>1. /\ UNCHANGED vars /\ isFirstTx' = isFirstTx
      /\ txSemId' = txSemId /\ txWorkerCnt' = txWorkerCnt /\ resets' = resets
  BY DEF Transmit
<1>2. /\ Len(pending) \in 1 .. NofWorkers
      /\ w = pending[1] /\ ~isFirstTx /\ \A k \in Worker : txSem[k] = 0
      /\ pending' \in Seq(Worker)
      /\ Len(pending') = Len(pending) - 1
      /\ \A i \in 1 .. Len(pending) - 1 : pending'[i] = pending[i + 1]
  BY TransmitsHead
<1> DEFINE n == Len(pending)
<1>3. n \in Nat /\ n >= 1 /\ n <= NofWorkers /\ NofWorkers \in Nat /\ Len(pending') = n - 1
  BY <1>2, NofWorkersAssumption
<1> HIDE DEF n
<1>4. txpc[w] = "tx" /\ txpc' = [txpc EXCEPT ![w] = "done"]
  BY DEF Transmit, TxGoto
<1>5. \A v \in Worker : txpc[v] = "tx" <=> v = w
  BY <1>2, <1>4 DEF TokenPlace
<1>9. RingOrder'
  <2>2. ASSUME NEW i \in 1 .. n - 1
        PROVE  txSemId'[pending'[i]] = RingBack(txWorkerCnt', (n - 1) - i + 1)
    <3>1. i + 1 \in 1 .. n /\ n - (i + 1) + 1 = (n - 1) - i + 1
      BY <1>3
    <3>2. txSemId[pending[i + 1]] = RingBack(txWorkerCnt, n - (i + 1) + 1)
      BY <3>1 DEF RingOrder, n
    <3>3. QED
      BY <1>1, <1>2, <3>1, <3>2 DEF n
  <2>3. QED
    BY <1>3, <2>2 DEF RingOrder, RingBack
<1>10. NextSem(txSemId[w]) = TokenPos' /\ TokenPos' \in Worker
  <2>1. InPending(w)
    BY <1>4 DEF PendingMatches
  <2>2. txSemId[w] = RingBack(txWorkerCnt, n)
    BY <1>2, <2>1, OldestAtToken DEF TokenPos, n
  <2>3. TokenPos' = RingBack(txWorkerCnt, n - 1)
    BY <1>1, <1>3 DEF TokenPos, RingBack
  <2>4. n \in 0 .. NofWorkers /\ n > 0 /\ n - 1 \in 0 .. NofWorkers /\ txWorkerCnt \in Worker
    BY <1>3 DEF TxTypeOK
  <2>5. QED
    BY <2>2, <2>3, <2>4, RingBackFacts
<1>11. txSem' \in [Worker -> 0 .. 1] /\ \A k \in Worker : txSem'[k] = IF k = TokenPos' THEN 1 ELSE 0
  <2> DEFINE t == TokenPos'
  <2>1. txSem' = [txSem EXCEPT ![t] = 0 + 1] /\ t \in Worker
    BY <1>2, <1>10 DEF Transmit, Post
  <2> HIDE DEF t
  <2>2. txSem' \in [Worker -> 0 .. 1] /\ \A k \in Worker : txSem'[k] = IF k = t THEN 1 ELSE 0
    BY <1>2, <2>1 DEF TxTypeOK
  <2>3. QED
    BY <2>2 DEF t
<1>12. TokenPlace'
  <2>1. \A v \in Worker : txpc'[v] \notin {"claim", "tx"}
    BY <1>2, <1>4, <1>5 DEF TokenPlace, TxTypeOK
  <2>2. QED
    BY <1>1, <1>2, <1>11, <2>1 DEF TokenPlace
<1>14. QED
  BY <1>9, <1>12

\* The dispatched worker gets the position after the last one, so the ring goes on.
LEMMA DispatchKeepsChain ==
    ASSUME ChainAssumed, PoolInv, ChainInv, TxDispatch
    PROVE  RingOrder' /\ TokenPlace'
<1> USE DEF ChainInv, QueueInv
<1> DEFINE n == Len(pending)
<1>1. held \in Worker /\ ~InPending(held) /\ n + 1 <= NofWorkers
  BY DispatchKeepsQueue
<1>2. /\ isFirstTx' = isFirstTx /\ txSem' = txSem /\ txpc' = txpc /\ resets' = resets
      /\ txSemId' = [txSemId EXCEPT ![held] = txWorkerCnt]
      /\ txWorkerCnt' = NextSem(txWorkerCnt)
  BY DEF TxDispatch
<1>5. n \in Nat /\ pending \in Seq(Worker) /\ n + 1 <= NofWorkers
  BY <1>1 DEF TxTypeOK
<1>6. /\ Len(pending') = n + 1 /\ pending'[n + 1] = held
      /\ \A i \in 1 .. n : pending'[i] = pending[i]
  BY DispatchKeepsQueue
<1> HIDE DEF n
<1>7. \A i \in 1 .. n : pending[i] \in Worker /\ pending[i] # held
  BY <1>1, <1>5 DEF InPending, n
<1>8. \A i \in 1 .. n + 1 : i \in 1 .. n \/ i = n + 1
  BY <1>5
<1>12. RingOrder'
  <2>3. txSemId' \in [Worker -> Worker] /\ txSemId'[held] = txWorkerCnt
        /\ \A v \in Worker : v # held => txSemId'[v] = txSemId[v]
    BY <1>1, <1>2 DEF TxTypeOK
  <2>4. ASSUME NEW i \in 1 .. n
        PROVE  txSemId'[pending'[i]] = RingBack(txWorkerCnt', (n + 1) - i + 1)
    <3> DEFINE d == n - i + 1
    <3>1. d \in 0 .. NofWorkers /\ d # NofWorkers /\ (n + 1) - i + 1 = d + 1
      BY <1>5, NofWorkersAssumption
    <3>2. txSemId[pending[i]] = RingBack(txWorkerCnt, d)
      BY DEF RingOrder, n
    <3> HIDE DEF d
    <3>3. RingBack(NextSem(txWorkerCnt), d + 1) = RingBack(txWorkerCnt, d)
      BY <3>1, RingBackFacts DEF TxTypeOK
    <3>4. QED
      BY <1>2, <1>6, <1>7, <2>3, <3>1, <3>2, <3>3
  <2>5. txSemId'[pending'[n + 1]] = RingBack(txWorkerCnt', (n + 1) - (n + 1) + 1)
    <3>1. (n + 1) - (n + 1) + 1 = 0 + 1 /\ 0 \in 0 .. NofWorkers /\ 0 # NofWorkers
      BY <1>5, NofWorkersAssumption
    <3>2. RingBack(NextSem(txWorkerCnt), 0 + 1) = txWorkerCnt
      BY <3>1, RingBackFacts DEF TxTypeOK
    <3>3. QED
      BY <1>2, <1>6, <2>3, <3>1, <3>2
  <2>6. \A i \in 1 .. n + 1 : txSemId'[pending'[i]] = RingBack(txWorkerCnt', (n + 1) - i + 1)
    BY <1>8, <2>4, <2>5
  <2>7. QED
    BY <1>6, <2>6 DEF RingOrder, RingBack
<1>13. TokenPos' = TokenPos
  <2>1. n \in 0 .. NofWorkers /\ n # NofWorkers
    BY <1>5, NofWorkersAssumption
  <2>2. RingBack(NextSem(txWorkerCnt), n + 1) = RingBack(txWorkerCnt, n)
    BY <2>1, RingBackFacts DEF TxTypeOK
  <2>3. TokenPos' = RingBack(txWorkerCnt', n + 1)
    BY <1>6 DEF TokenPos, RingBack
  <2>4. QED
    BY <1>2, <2>2, <2>3 DEF TokenPos, n
<1>14. TokenPlace'
  <2>1. CASE isFirstTx
    <3>1. n <= 1 /\ \A w \in Worker : txpc[w] \in {"none", "first", "claim"} /\ txSem[w] = 0
      BY <2>1 DEF TokenPlace, n
    <3>2. n = 0
      <4>1. SUFFICES ASSUME n # 0 PROVE FALSE
        OBVIOUS
      <4>2. 1 \in 1 .. n /\ 1 \in DOMAIN pending
        BY <1>5, <4>1 DEF n
      <4>3. txpc[pending[1]] \in {"semwait", "tx"}
        BY <2>1, <4>2 DEF TxDispatch, Separated, ChainAssumed
      <4>4. QED
        BY <1>7, <3>1, <4>2, <4>3
    <3>3. Len(pending') <= 1
      BY <1>6, <3>2
    <3>4. QED
      BY <1>2, <2>1, <3>1, <3>3 DEF TokenPlace
  <2>2. CASE ~isFirstTx /\ \A w \in Worker : txpc[w] # "tx"
    <3>1. /\ \A w \in Worker : txpc[w] \notin {"claim", "tx"}
          /\ \A k \in Worker : txSem[k] = IF k = TokenPos THEN 1 ELSE 0
      <4>1. ASSUME Len(pending) > 0 PROVE pending[1] \in Worker
        BY <1>5, <4>1 DEF n
      <4>2. QED
        BY <2>2, <4>1 DEF TokenPlace
    <3>2. QED
      BY <1>2, <1>13, <2>2, <3>1 DEF TokenPlace
  <2>3. CASE ~isFirstTx /\ \E w \in Worker : txpc[w] = "tx"
    <3>1. /\ n > 0
          /\ \A w \in Worker : txpc[w] # "claim" /\ (txpc[w] = "tx" <=> w = pending[1])
          /\ \A k \in Worker : txSem[k] = 0
      BY <2>3 DEF TokenPlace, n
    <3>2. pending'[1] = pending[1] /\ Len(pending') > 0
      BY <1>5, <1>6, <3>1
    <3>3. QED
      BY <1>2, <2>3, <3>1, <3>2 DEF TokenPlace
  <2>4. QED
    BY <2>1, <2>2, <2>3 DEF TxTypeOK
<1>15. QED
  BY <1>12, <1>14

-----------------------------------------------------------------------------
(* The theorems.                                                           *)

\* The semaphores, positions and pending subframes keep their types, however often the
\* RRC resets the chain under its workers and even if two workers create the token: no
\* semaphore is taken below zero, no more subframes are pending than there are workers.
THEOREM ChainTypeCorrect == TxSpec => []TxTypeOK
<1>1. QueueInv => TxTypeOK
  BY DEF QueueInv
<1>2. QED
  BY <1>1, QueueInvariant, PTL

\* The position of the token, the ring and the pending subframes agree in every state.
THEOREM ChainInvariant == ASSUME ChainAssumed PROVE TxSpec => []ChainInv
<1>1. TxInit => RingOrder /\ TokenPlace
  <2>1. TxInit => Len(pending) = 0
    BY DEF TxInit
  <2>2. QED
    BY <2>1 DEF TxInit, RingOrder, TokenPlace
<1>2. PoolInv /\ QueueInv /\ RingOrder /\ TokenPlace /\ [TxNext]_allVars => RingOrder' /\ TokenPlace'
  <2> SUFFICES ASSUME PoolInv, ChainInv, [TxNext]_allVars PROVE RingOrder' /\ TokenPlace'
    BY DEF ChainInv
  <2>1. ASSUME UNCHANGED txVars PROVE RingOrder' /\ TokenPlace'
    BY <2>1 DEF ChainInv, txVars, RingOrder, TokenPlace, TokenPos, RingBack
  <2>2. ASSUME NEW w \in Worker, TxWorkerStep(w) PROVE RingOrder' /\ TokenPlace'
    <3>1. CASE PoolStep(w)
      BY <3>1, <2>1 DEF PoolStep
    <3>2. CASE TxBegin(w) \/ FirstTest(w) \/ TxWorkDone(w)
      BY <3>2, WorkerStepsKeepChain
    <3>3. CASE FirstClaim(w) \/ GreenLight(w)
      BY <3>3, TokenStepsKeepChain
    <3>4. CASE Transmit(w)
      BY <3>4, TransmitKeepsChain
    <3>5. QED
      BY <2>2, <3>1, <3>2, <3>3, <3>4 DEF TxWorkerStep, WorkImp
  <2>3. CASE TxSyncStep
    <3>1. CASE TxDispatch
      BY <3>1, DispatchKeepsChain
    <3>2. CASE ~TxDispatch
      BY <2>1, <2>3, <3>2 DEF TxSyncStep
    <3>3. QED
      BY <3>1, <3>2
  <2>4. CASE ResetPhy
    <3>1. resets < 0 /\ resets \in 0 .. 0
      BY <2>4 DEF ResetPhy, ChainAssumed, ChainInv, QueueInv, TxTypeOK
    <3>2. QED
      BY <3>1
  <2>5. CASE UNCHANGED allVars
    BY <2>1, <2>5 DEF allVars
  <2>6. QED
    BY <2>2, <2>3, <2>4, <2>5 DEF TxNext
<1>3. QED
  BY <1>1, <1>2, QueueInvariant, ChainIsPool, PoolInvariant, PTL DEF TxSpec, ChainInv

\* Whichever worker finishes first, the one that transmits carries the oldest subframe
\* (worker_end: "The transmission of UL subframes must be in sequence").
THEOREM InOrderTxHolds == ASSUME ChainAssumed PROVE TxSpec => []InOrderTx
<1>1. ChainInv => InOrderTx
  BY DEF ChainInv, QueueInv, TokenPlace, InOrderTx, OldestTransmits, TxTypeOK
<1>2. QED
  BY <1>1, ChainInvariant, PTL

\* For any ring there is exactly one token once it has been created, and it is where
\* the oldest subframe waits for it (tx_sem, is_first_tx).
THEOREM OneTokenHolds == ASSUME ChainAssumed PROVE TxSpec => []OneToken
<1>1. ChainInv => OneToken
  <2> SUFFICES ASSUME ChainInv PROVE OneToken
    OBVIOUS
  <2> DEFINE holders == {w \in Worker : txpc[w] = "tx"}
             posted  == {k \in Worker : txSem[k] > 0}
  <2>1. Cardinality({}) = 0 /\ \A x : Cardinality({x}) = 1
    BY FS_EmptySet, FS_Singleton, Zenon
  <2>2. TokenPos \in Worker
    <3>1. txWorkerCnt \in Worker /\ Len(pending) \in 0 .. NofWorkers
      BY NofWorkersAssumption DEF ChainInv, QueueInv, TxTypeOK
    <3>2. QED
      BY <3>1, RingBackFacts DEF TokenPos
  <2>3. pending # << >> => pending[1] \in Worker /\ txSemId[pending[1]] = TokenPos /\ Head(pending) = pending[1]
    <3>1. SUFFICES ASSUME pending # << >>
                   PROVE  pending[1] \in Worker /\ txSemId[pending[1]] = TokenPos /\ Head(pending) = pending[1]
      OBVIOUS
    <3>2. pending \in Seq(Worker) /\ 1 \in 1 .. Len(pending)
      BY <3>1 DEF ChainInv, QueueInv, TxTypeOK
    <3>3. pending[1] \in Worker /\ Head(pending) = pending[1] /\ InPending(pending[1])
      BY <3>1, <3>2 DEF InPending
    <3>4. QED
      BY <3>3, OldestAtToken
  <2>4. CASE isFirstTx
    <3>1. holders = {} /\ posted = {}
      BY <2>4 DEF ChainInv, QueueInv, TokenPlace
    <3>2. Cardinality(holders) = 0 /\ Cardinality(posted) = 0
      BY <2>1, <3>1, Zenon
    <3> HIDE DEF holders, posted
    <3>3. Cardinality(holders) + Cardinality(posted) = 0
      BY <3>2
    <3>4. QED
      BY <2>4, <3>1, <3>3 DEF OneToken, holders, posted
  <2>5. CASE ~isFirstTx /\ \A w \in Worker : txpc[w] # "tx"
    <3>1. \A k \in Worker : txSem[k] = IF k = TokenPos THEN 1 ELSE 0
      BY <2>3, <2>5 DEF ChainInv, QueueInv, TokenPlace, TxTypeOK
    <3>2. holders = {} /\ posted = {TokenPos}
      BY <2>2, <2>5, <3>1
    <3>3. Cardinality(holders) + Cardinality(posted) = 1
      <4>1. Cardinality(holders) = 0 /\ Cardinality(posted) = 1
        BY <2>1, <3>2, Zenon
      <4> HIDE DEF holders, posted
      <4>2. QED
        BY <4>1
    <3>4. \A k \in posted : txSem[k] = 1 /\ (pending # << >> => txSemId[Head(pending)] = k)
      BY <2>2, <2>3, <3>1, <3>2
    <3>5. QED
      BY <2>5, <3>3, <3>4 DEF OneToken
  <2>6. CASE ~isFirstTx /\ \E w \in Worker : txpc[w] = "tx"
    <3>1. /\ pending # << >>
          /\ \A w \in Worker : txpc[w] = "tx" <=> w = pending[1]
          /\ \A k \in Worker : txSem[k] = 0
      BY <2>6 DEF ChainInv, QueueInv, TokenPlace, TxTypeOK
    <3>2. holders = {pending[1]} /\ posted = {}
      BY <2>3, <3>1
    <3>3. Cardinality(holders) + Cardinality(posted) = 1
      <4>1. Cardinality(holders) = 1 /\ Cardinality(posted) = 0
        BY <2>1, <3>2, Zenon
      <4> HIDE DEF holders, posted
      <4>2. QED
        BY <4>1
    <3>4. QED
      BY <2>6, <3>2, <3>3 DEF OneToken
  <2>7. QED
    BY <2>4, <2>5, <2>6 DEF ChainInv, QueueInv, TxTypeOK
<1>2. QED
  BY <1>1, ChainInvariant, PTL

\* The chain of semaphores implements the FIFO: a dispatch enters a subframe, a
\* transmission removes the oldest, every other step is a stutter.
THEOREM ChainImplementsFifo == ASSUME ChainAssumed PROVE TxSpec => ImplementsFifo
<1>1. TxInit => Fifo!Init
  BY DEF TxInit, Fifo!Init
<1>2. ChainInv /\ PoolInv /\ [TxNext]_allVars => [resets = 0 => Fifo!Next]_pending
  <2> SUFFICES ASSUME ChainInv, PoolInv, [TxNext]_allVars PROVE [Fifo!Next]_pending
    OBVIOUS
  <2>1. ASSUME NEW w \in Worker, Transmit(w) PROVE Fifo!Next
    <3>1. pending # << >> /\ pending' = Tail(pending)
      BY <2>1, TransmitsHead, NofWorkersAssumption DEF ChainInv, QueueInv, TxTypeOK
    <3>2. QED
      BY <3>1 DEF Fifo!Next, Fifo!Leave
  <2>2. CASE TxDispatch
    BY <2>2 DEF TxDispatch, PoolInv, TypeOK, Fifo!Next, Fifo!Enter
  <2>3. ASSUME NEW w \in Worker, TxWorkerStep(w), ~Transmit(w) PROVE UNCHANGED pending
    BY <2>3 DEF TxWorkerStep, WorkImp, TxBegin, FirstTest, FirstClaim, GreenLight, TxWorkDone, PoolStep, txVars
  <2>4. CASE (TxSyncStep /\ ~TxDispatch) \/ ResetPhy \/ UNCHANGED allVars
    BY <2>4 DEF TxSyncStep, ResetPhy, allVars, txVars
  <2>5. QED
    BY <2>1, <2>2, <2>3, <2>4 DEF TxNext
<1>3. QED
  BY <1>1, <1>2, ChainInvariant, ChainIsPool, PoolInvariant, PTL DEF TxSpec, ImplementsFifo
===============================================================================
