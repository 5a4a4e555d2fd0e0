----------------------------- MODULE MacRxProofs ------------------------------
(***************************************************************************)
(* For any number of workers, HARQ processes and buffers: a buffer is in   *)
(* exactly one place and a process holds one only under its mutex.         *)
(***************************************************************************)
EXTENDS MacRx, FiniteSetTheorems, TLAPS

\* The PDU thread has a buffer in its hands exactly while it processes it.
ThreadHolds == tpc = "proc" <=> cur # None

Locked == {"alloc", "decode"}

\* The mutex of a process is held by the worker whose grant selected the process, from
\* new_grant_dl to tb_decoded, and by nobody else.
LockFollowsGrant ==
    /\ \A w \in Worker : wpc[w] \in Locked => lock[wpid[w]] = w
    /\ \A p \in Proc : lock[p] # None => wpc[lock[p]] \in Locked /\ wpid[lock[p]] = p

\* A process has a buffer only between the allocation and tb_decoded.
BufferWhileDecoding ==
    \A p \in Proc : payload[p] # None => lock[p] # None /\ wpc[lock[p]] = "decode"

\* No two places hold the same buffer.
Apart ==
    /\ cur \notin avail
    /\ \A p \in Proc : payload[p] # None => payload[p] \notin avail /\ payload[p] # cur
    /\ \A p, q \in Proc : payload[p] # None /\ payload[p] = payload[q] => p = q
    /\ \A i \in DOMAIN pduQ : pduQ[i] \notin avail /\ pduQ[i] # cur
    /\ \A i \in DOMAIN pduQ, p \in Proc : pduQ[i] # payload[p]
    /\ \A i, j \in DOMAIN pduQ : pduQ[i] = pduQ[j] => i = j

\* Every buffer is somewhere.
Somewhere ==
    \A b \in Buffer :
        \/ b \in avail \/ b = cur
        \/ \E p \in Proc : payload[p] = b
        \/ \E i \in DOMAIN pduQ : pduQ[i] = b

IInv == TypeOK /\ ThreadHolds /\ LockFollowsGrant /\ BufferWhileDecoding /\ Apart /\ Somewhere

-----------------------------------------------------------------------------
\* The invariant holds when the threads start.
LEMMA InitIInv == Init => IInv
<1> SUFFICES ASSUME Init PROVE IInv
  OBVIOUS
<1>1. pduQ \in Seq(Buffer) /\ DOMAIN pduQ = {}
  BY DEF Init
<1>2. TypeOK
  BY <1>1 DEF Init, TypeOK, WorkerPC, ThreadPC, News
<1>3. ThreadHolds /\ LockFollowsGrant /\ BufferWhileDecoding
  BY DEF Init, ThreadHolds, LockFollowsGrant, BufferWhileDecoding, Locked
<1>4. Apart /\ Somewhere
  BY <1>1, MacRxAssumption DEF Init, Apart, Somewhere
<1>5. QED
  BY <1>2, <1>3, <1>4 DEF IInv

\* What tb_decoded does to the queue.
LEMMA QueueEnd ==
    ASSUME NEW q \in Seq(Buffer), NEW b \in Buffer
    PROVE  /\ Append(q, b) \in Seq(Buffer)
           /\ DOMAIN Append(q, b) = DOMAIN q \cup {Len(q) + 1}
           /\ \A i \in DOMAIN q : Append(q, b)[i] = q[i]
           /\ Append(q, b)[Len(q) + 1] = b
           /\ Len(q) + 1 \notin DOMAIN q
  OBVIOUS

\* What the PDU thread does to the queue: the rest is the old queue one position on.
LEMMA QueueFront ==
    ASSUME NEW q \in Seq(Buffer), q # << >>
    PROVE  /\ Tail(q) \in Seq(Buffer)
           /\ Head(q) \in Buffer
           /\ 1 \in DOMAIN q /\ Head(q) = q[1]
           /\ \A i \in DOMAIN Tail(q) : i + 1 \in DOMAIN q \ {1} /\ Tail(q)[i] = q[i + 1]
           /\ \A j \in DOMAIN q \ {1} : \E i \in DOMAIN Tail(q) : j = i + 1
           /\ \A i, j \in DOMAIN Tail(q) : i + 1 = j + 1 => i = j
<1>1. Len(q) \in Nat \ {0} /\ DOMAIN q = 1 .. Len(q) /\ Tail(q) \in Seq(Buffer) /\ DOMAIN Tail(q) = 1 .. Len(q) - 1
  OBVIOUS
<1>2. \A j \in DOMAIN q \ {1} : j - 1 \in DOMAIN Tail(q) /\ j = (j - 1) + 1
  BY <1>1
<1>3. QED
  BY <1>1, <1>2

-----------------------------------------------------------------------------
\* Types, and the PDU in the hands of the thread (mac.cc run_thread, demux.cc process_pdu).
LEMMA TypeStep == TypeOK /\ ThreadHolds /\ [Next]_vars => TypeOK' /\ ThreadHolds'
<1> SUFFICES ASSUME TypeOK, ThreadHolds, [Next]_vars PROVE TypeOK' /\ ThreadHolds'
  OBVIOUS
<1> USE MacRxAssumption DEF TypeOK, ThreadHolds, WorkerPC, ThreadPC, News
<1>1. ASSUME NEW w \in Worker, NEW p \in Proc, NewGrant(w, p) PROVE TypeOK' /\ ThreadHolds'
  BY <1>1 DEF NewGrant, WorkerGoto, procVars, workerVars, threadVars, flagVars
<1>2. ASSUME NEW w \in Worker, LockProcess(w) PROVE TypeOK' /\ ThreadHolds'
  BY <1>2 DEF LockProcess, LockProc, WorkerGoto, procVars, workerVars, threadVars, flagVars
<1>3. ASSUME NEW w \in Worker, Allocate(w) PROVE TypeOK' /\ ThreadHolds'
  BY <1>3 DEF Allocate, WorkerGoto, procVars, workerVars, threadVars, flagVars
<1>4. ASSUME NEW w \in Worker, NEW ok \in BOOLEAN, TbDecoded(w, ok) PROVE TypeOK' /\ ThreadHolds'
  BY <1>4, QueueEnd DEF TbDecoded, WorkerGoto, procVars, workerVars, threadVars, flagVars
<1>5. ASSUME NEW w \in Worker, Notify(w) PROVE TypeOK' /\ ThreadHolds'
  BY <1>5 DEF Notify, WorkerGoto, procVars, workerVars, threadVars, flagVars
<1>6. CASE Top
  BY <1>6 DEF Top, ThreadGoto, procVars, workerVars, threadVars, flagVars
<1>7. CASE Pop
  <2>1. CASE pduQ = << >>
    BY <1>7, <2>1 DEF Pop, ThreadGoto, procVars, workerVars, flagVars
  <2>2. CASE pduQ # << >>
    <3>1. Tail(pduQ) \in Seq(Buffer) /\ Head(pduQ) \in Buffer
      BY <2>2, QueueFront
    <3>2. QED
      BY <1>7, <2>2, <3>1 DEF Pop, ThreadGoto, procVars, workerVars, flagVars
  <2>3. QED
    BY <2>1, <2>2
<1>8. CASE ProcessPdu
  BY <1>8 DEF ProcessPdu, ThreadGoto, procVars, workerVars, threadVars, flagVars
<1>9. CASE Assign
  BY <1>9 DEF Assign, ThreadGoto, procVars, workerVars, threadVars, flagVars
<1>10. CASE Check
  BY <1>10 DEF Check, ThreadGoto, procVars, workerVars, threadVars, flagVars
<1>11. CASE StopThread
  BY <1>11 DEF StopThread, procVars, workerVars, threadVars, flagVars
<1>12. ASSUME NEW p \in Proc, ResetProc(p) PROVE TypeOK' /\ ThreadHolds'
  BY <1>12 DEF ResetProc, procVars, workerVars, threadVars, flagVars
<1>13. CASE UNCHANGED vars
  BY <1>13 DEF vars, procVars, workerVars, threadVars, flagVars
<1>14. QED
  BY <1>1, <1>2, <1>3, <1>4, <1>5, <1>6, <1>7, <1>8, <1>9, <1>10, <1>11, <1>12, <1>13
     DEF Next, GrantStep, WorkerStep, ThreadStep

\* The mutex taken in new_grant_dl stays with the worker until tb_decoded (dl_harq.cc).
LEMMA LockStep == TypeOK /\ LockFollowsGrant /\ BufferWhileDecoding /\ [Next]_vars => LockFollowsGrant' /\ BufferWhileDecoding'
<1> SUFFICES ASSUME TypeOK, LockFollowsGrant, BufferWhileDecoding, [Next]_vars PROVE LockFollowsGrant' /\ BufferWhileDecoding'
  OBVIOUS
<1> USE MacRxAssumption DEF TypeOK, LockFollowsGrant, BufferWhileDecoding, Locked, WorkerPC
<1>1. ASSUME NEW w \in Worker, NEW p \in Proc, NewGrant(w, p) PROVE LockFollowsGrant' /\ BufferWhileDecoding'
  BY <1>1 DEF NewGrant, WorkerGoto, procVars, workerVars, threadVars, flagVars
<1>2. ASSUME NEW w \in Worker, LockProcess(w) PROVE LockFollowsGrant' /\ BufferWhileDecoding'
  BY <1>2 DEF LockProcess, LockProc, WorkerGoto, procVars, workerVars, threadVars, flagVars
<1>3. ASSUME NEW w \in Worker, Allocate(w) PROVE LockFollowsGrant' /\ BufferWhileDecoding'
  BY <1>3 DEF Allocate, WorkerGoto, procVars, workerVars, threadVars, flagVars
<1>4. ASSUME NEW w \in Worker, NEW ok \in BOOLEAN, TbDecoded(w, ok) PROVE LockFollowsGrant' /\ BufferWhileDecoding'
  BY <1>4 DEF TbDecoded, WorkerGoto, procVars, workerVars, threadVars, flagVars
<1>5. ASSUME NEW w \in Worker, Notify(w) PROVE LockFollowsGrant' /\ BufferWhileDecoding'
  BY <1>5 DEF Notify, WorkerGoto, procVars, workerVars, threadVars, flagVars
<1>6. CASE Top
  BY <1>6 DEF Top, ThreadGoto, procVars, workerVars, threadVars, flagVars
<1>7. CASE Pop
  BY <1>7 DEF Pop, ThreadGoto, procVars, workerVars, threadVars, flagVars
<1>8. CASE ProcessPdu
  BY <1>8 DEF ProcessPdu, ThreadGoto, procVars, workerVars, threadVars, flagVars
<1>9. CASE Assign
  BY <1>9 DEF Assign, ThreadGoto, procVars, workerVars, threadVars, flagVars
<1>10. CASE Check
  BY <1>10 DEF Check, ThreadGoto, procVars, workerVars, threadVars, flagVars
<1>11. CASE StopThread
  BY <1>11 DEF StopThread, procVars, workerVars, threadVars, flagVars
<1>12. ASSUME NEW p \in Proc, ResetProc(p) PROVE LockFollowsGrant' /\ BufferWhileDecoding'
  BY <1>12 DEF ResetProc, procVars, workerVars, threadVars, flagVars
<1>13. CASE UNCHANGED vars
  BY <1>13 DEF vars, procVars, workerVars, threadVars, flagVars
<1>14. QED
  BY <1>1, <1>2, <1>3, <1>4, <1>5, <1>6, <1>7, <1>8, <1>9, <1>10, <1>11, <1>12, <1>13
     DEF Next, GrantStep, WorkerStep, ThreadStep

\* Every operation moves one buffer from one place to another (pdu_queue.cc, dl_harq.cc).
LEMMA PlaceStep == IInv /\ [Next]_vars => Apart' /\ Somewhere'
<1> SUFFICES ASSUME IInv, [Next]_vars PROVE Apart' /\ Somewhere'
  OBVIOUS
<1> USE MacRxAssumption DEF IInv, TypeOK, ThreadHolds, LockFollowsGrant, BufferWhileDecoding, Apart, Somewhere, Locked
<1>1. ASSUME NEW w \in Worker, NEW p \in Proc, NewGrant(w, p) PROVE Apart' /\ Somewhere'
  BY <1>1 DEF NewGrant, WorkerGoto, procVars, workerVars, threadVars, flagVars
<1>2. ASSUME NEW w \in Worker, LockProcess(w) PROVE Apart' /\ Somewhere'
  BY <1>2 DEF LockProcess, LockProc, WorkerGoto, procVars, workerVars, threadVars, flagVars
<1>3. ASSUME NEW w \in Worker, Allocate(w) PROVE Apart' /\ Somewhere'
  BY <1>3 DEF Allocate, WorkerGoto, procVars, workerVars, threadVars, flagVars
<1>4. ASSUME NEW w \in Worker, NEW ok \in BOOLEAN, TbDecoded(w, ok) PROVE Apart' /\ Somewhere'
  BY <1>4 DEF TbDecoded, WorkerGoto, procVars, workerVars, threadVars, flagVars
<1>5. ASSUME NEW w \in Worker, Notify(w) PROVE Apart' /\ Somewhere'
  BY <1>5 DEF Notify, WorkerGoto, procVars, workerVars, threadVars, flagVars
<1>6. CASE Top
  BY <1>6 DEF Top, ThreadGoto, procVars, workerVars, threadVars, flagVars
<1>7. CASE Pop
  <2>1. CASE pduQ = << >>
    BY <1>7, <2>1 DEF Pop, ThreadGoto, procVars, workerVars, flagVars
  <2>2. CASE pduQ # << >>
    <3>1. cur' = Head(pduQ) /\ pduQ' = Tail(pduQ) /\ cur = None /\ UNCHANGED <<payload, avail>>
      BY <1>7, <2>2 DEF Pop, ThreadGoto, procVars
    <3>2. Apart'
      BY <2>2, <3>1, QueueFront
    <3>3. ASSUME NEW b \in Buffer
          PROVE  \/ b \in avail' \/ b = cur' \/ \E p \in Proc : payload'[p] = b
                 \/ \E i \in DOMAIN pduQ' : pduQ'[i] = b
      <4>1. CASE b \in avail \/ \E p \in Proc : payload[p] = b
        BY <3>1, <4>1
      <4>2. ASSUME NEW j \in DOMAIN pduQ, pduQ[j] = b, j # 1
            PROVE  \E i \in DOMAIN pduQ' : pduQ'[i] = b
        BY <2>2, <3>1, <4>2, QueueFront
      <4>3. CASE pduQ[1] = b
        BY <2>2, <3>1, <4>3, QueueFront
      <4>4. b # cur
        BY <3>1
      <4>5. QED
        BY <4>1, <4>2, <4>3, <4>4
    <3>4. QED
      BY <3>2, <3>3 DEF Somewhere
  <2>3. QED
    BY <2>1, <2>2
<1>8. CASE ProcessPdu
  BY <1>8 DEF ProcessPdu, ThreadGoto, procVars, workerVars, threadVars, flagVars
<1>9. CASE Assign
  BY <1>9 DEF Assign, ThreadGoto, procVars, workerVars, threadVars, flagVars
<1>10. CASE Check
  BY <1>10 DEF Check, ThreadGoto, procVars, workerVars, threadVars, flagVars
<1>11. CASE StopThread
  BY <1>11 DEF StopThread, procVars, workerVars, threadVars, flagVars
<1>12. ASSUME NEW p \in Proc, ResetProc(p) PROVE Apart' /\ Somewhere'
  BY <1>12 DEF ResetProc, procVars, workerVars, threadVars, flagVars
<1>13. CASE UNCHANGED vars
  BY <1>13 DEF vars, procVars, workerVars, threadVars, flagVars
<1>14. QED
  BY <1>1, <1>2, <1>3, <1>4, <1>5, <1>6, <1>7, <1>8, <1>9, <1>10, <1>11, <1>12, <1>13
     DEF Next, GrantStep, WorkerStep, ThreadStep

-----------------------------------------------------------------------------
\* All parts together are inductive.
THEOREM ReceiveInvariant == Spec => []IInv
<1>1. IInv /\ [Next]_vars => IInv'
  BY TypeStep, LockStep, PlaceStep DEF IInv
<1>2. QED
  BY <1>1, InitIInv, PTL DEF Spec

\* The buffers, locks and threads keep their types: no null pointer is queued or freed.
THEOREM TypeCorrect == Spec => []TypeOK
<1>1. IInv => TypeOK
  BY DEF IInv
<1>2. QED
  BY <1>1, ReceiveInvariant, PTL

\* A worker decodes into a buffer of a process that it has locked (dl_harq.cc new_grant_dl
\* and tb_decoded), and a process between two grants has no buffer.
THEOREM PayloadUnderLockHolds == Spec => []PayloadUnderLock
<1>1. IInv => PayloadUnderLock
  BY DEF IInv, TypeOK, LockFollowsGrant, BufferWhileDecoding, PayloadUnderLock
<1>2. QED
  BY <1>1, ReceiveInvariant, PTL

\* Places counts the places: one of the four terms is 1 and the others are 0.
LEMMA OneOfFour == IInv => OnePlace
<1> SUFFICES ASSUME IInv, NEW b \in Buffer PROVE Places(b) = 1
  BY DEF OnePlace
<1> DEFINE Held == {p \in Proc : payload[p] = b}
           Queued == {i \in DOMAIN pduQ : pduQ[i] = b}
<1>1. b # None
  BY MacRxAssumption
<1>2. \A S : (S = {} => Cardinality(S) = 0) /\ (\A x : S = {x} => Cardinality(S) = 1)
  BY FS_EmptySet, FS_Singleton
<1>3. CASE b \in avail
  <2>1. b # cur /\ Held = {} /\ Queued = {}
    BY <1>1, <1>3 DEF IInv, Apart
  <2>2. QED
    BY <1>2, <1>3, <2>1 DEF Places
<1>4. CASE b = cur
  <2>1. b \notin avail /\ Held = {} /\ Queued = {}
    BY <1>1, <1>4 DEF IInv, Apart
  <2>2. QED
    BY <1>2, <1>4, <2>1 DEF Places
<1>5. ASSUME NEW p \in Proc, payload[p] = b PROVE Places(b) = 1
  <2>1. b \notin avail /\ b # cur /\ Held = {p} /\ Queued = {}
    BY <1>1, <1>5 DEF IInv, Apart
  <2>2. QED
    BY <1>2, <2>1 DEF Places
<1>6. ASSUME NEW i \in DOMAIN pduQ, pduQ[i] = b PROVE Places(b) = 1
  <2>1. b \notin avail /\ b # cur /\ Held = {} /\ Queued = {i}
    BY <1>1, <1>6 DEF IInv, Apart
  <2>2. QED
    BY <1>2, <2>1 DEF Places
<1>7. QED
  BY <1>3, <1>4, <1>5, <1>6 DEF IInv, Somewhere

\* However grants, decoding, processing and resets interleave, no buffer is lost, queued
\* twice or freed while in use (pdu_queue.cc, dl_harq.cc, demux.cc process_pdu).
THEOREM OnePlaceHolds == Spec => []OnePlace
  BY OneOfFour, ReceiveInvariant, PTL
===============================================================================
