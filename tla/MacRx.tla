-------------------------------- MODULE MacRx ---------------------------------
(***************************************************************************)
(* The receive side of the MAC: PHY workers hand sidelink grants to the DL *)
(* HARQ entity (mac/dl_harq.cc), which takes PDU buffers from a fixed pool *)
(* (common/pdu_queue.cc, buffer_pool.h); decoded PDUs are queued for the   *)
(* MAC PDU thread (mac.cc, pdu_process), which hands the buffers back.     *)
(*                                                                         *)
(* new_grant_dl takes the mutex of the HARQ process and returns with the   *)
(* mutex held; the worker decodes and tb_decoded releases it.  Allocation  *)
(* from the pool blocks, and it happens under that mutex.                  *)
(***************************************************************************)
EXTENDS Integers, Sequences, FiniteSets

CONSTANTS
    Worker,     \* PHY worker threads
    Proc,       \* HARQ processes
    Buffer,     \* PDU buffers of the pool
    None,       \* a null pointer, a free mutex
    Backlog     \* see Timely

ASSUME MacRxAssumption ==
    /\ None \notin Worker \cup Buffer
    /\ Backlog \in Nat \ {0}

VARIABLES
    lock,       \* dl_tb_process::mutex: the worker that holds it
    ack,        \* dl_tb_process::ack
    payload,    \* dl_tb_process::payload_buffer_ptr
    avail,      \* buffer_pool::available
    pduQ,       \* pdu_queue::pdu_q
    wpc,        \* where each worker is
    wpid,       \* the HARQ process of the worker's grant
    tpc,        \* where the PDU thread is
    cur,        \* the PDU it is processing
    got,        \* have_data local to pdu_queue::process_pdus
    haveData,   \* pdu_process::have_data
    running,    \* pdu_process::running
    news        \* history: what became of the last notify()

vars == <<lock, ack, payload, avail, pduQ, wpc, wpid, tpc, cur, got, haveData, running, news>>

procVars   == <<lock, ack, payload>>
workerVars == <<wpc, wpid>>
threadVars == <<tpc, cur, got>>
flagVars   == <<haveData, running, news>>

\* idle: no grant; lock: waiting for the HARQ process; alloc: waiting for a buffer;
\* decode: new_grant_dl has returned, about to call tb_decoded; notify: after it.
WorkerPC == {"idle", "lock", "alloc", "decode", "notify"}

\* top: the while test; pop, proc: in process_pdus; assign: it has returned;
\* check: about to lock the mutex and test have_data; wait: on cvar.
ThreadPC == {"top", "pop", "proc", "assign", "check", "wait", "exit"}

\* fresh: notify() came after the last call of process_pdus began; lost: so it did, and
\* have_data was then assigned FALSE; seen: process_pdus was called after it.
News == {"seen", "fresh", "lost"}

Init ==
    /\ lock = [p \in Proc |-> None]
    /\ ack = [p \in Proc |-> FALSE]
    /\ payload = [p \in Proc |-> None]
    /\ avail = Buffer
    /\ pduQ = << >>
    /\ wpc = [w \in Worker |-> "idle"]
    /\ wpid \in [Worker -> Proc]
    /\ tpc = "top"
    /\ cur = None
    /\ got = FALSE
    /\ haveData = FALSE
    /\ running = TRUE
    /\ news = "seen"

WorkerGoto(w, from, to) == wpc[w] = from /\ wpc' = [wpc EXCEPT ![w] = to]

-----------------------------------------------------------------------------
(* PHY workers.                                                            *)

\* The PDU thread, once it can run, is not held up for more than Backlog PDUs:
\* subframes arrive every millisecond, the thread has a real-time priority.
Timely == tpc = "wait" \/ Len(pduQ) < Backlog

\* decode_pscch_dl found control information that selects process p.
NewGrant(w, p) ==
    /\ Timely
    /\ WorkerGoto(w, "idle", "lock")
    /\ wpid' = [wpid EXCEPT ![w] = p]
    /\ UNCHANGED <<procVars, avail, pduQ, threadVars, flagVars>>

\* new_grant_dl up to the allocation.  A new or unrelated transport block clears ack; a
\* retransmission of a block that was decoded before needs no buffer, and when the block
\* has worn out (n_retx > RESET_DUPLICATE_TIMEOUT) the process is reset.  request()
\* refuses a length that does not fit a buffer: new_grant_dl returns without one, locked.
LockProc(w, related, worn, fits) ==
    LET p == wpid[w]
        dup == related /\ ack[p]
        kept == dup /\ ~worn
    IN /\ lock[p] = None
       /\ WorkerGoto(w, "lock", IF dup \/ ~fits THEN "decode" ELSE "alloc")
       /\ lock' = [lock EXCEPT ![p] = w]
       /\ ack' = [ack EXCEPT ![p] = kept]
       /\ avail' = IF kept THEN avail ELSE avail \cup ({payload[p]} \ {None})
       /\ payload' = [payload EXCEPT ![p] = IF kept THEN @ ELSE None]
       /\ UNCHANGED <<pduQ, wpid, threadVars, flagVars>>

LockProcess(w) == \E related, worn, fits \in BOOLEAN : LockProc(w, related, worn, fits)

\* pdu_queue::request: blocks until the pool has a buffer, with the process locked.
Allocate(w) ==
    /\ WorkerGoto(w, "alloc", "decode")
    /\ \E b \in avail :
          /\ payload' = [payload EXCEPT ![wpid[w]] = b]
          /\ avail' = avail \ {b}
    /\ UNCHANGED <<lock, ack, pduQ, wpid, threadVars, flagVars>>

\* Fault: the process keeps its pointer to a buffer it has given away.
TbDecodedKeepsPointer(w, ok) ==
    LET p == wpid[w]
        b == payload[p]
    IN /\ WorkerGoto(w, "decode", "notify")
       /\ ack' = [ack EXCEPT ![p] = IF b # None THEN ok ELSE @]
       /\ pduQ' = IF b # None /\ ok THEN Append(pduQ, b) ELSE pduQ
       /\ avail' = IF b # None /\ ~ok THEN avail \cup {b} ELSE avail
       /\ lock' = [lock EXCEPT ![p] = None]
       /\ UNCHANGED <<payload, wpid, threadVars, flagVars>>

\* Fault: a duplicate, which has no buffer, is delivered as well.
TbDecodedPushesNull(w, ok) ==
    LET p == wpid[w]
        b == payload[p]
    IN /\ WorkerGoto(w, "decode", "notify")
       /\ ack' = [ack EXCEPT ![p] = ok]
       /\ pduQ' = IF ok THEN Append(pduQ, b) ELSE pduQ
       /\ avail' = IF ok THEN avail ELSE avail \cup ({b} \ {None})
       /\ payload' = [payload EXCEPT ![p] = None]
       /\ lock' = [lock EXCEPT ![p] = None]
       /\ UNCHANGED <<wpid, threadVars, flagVars>>

\* Fault: the mutex is released only when a PDU was delivered.
TbDecodedKeepsLock(w, ok) ==
    LET p == wpid[w]
        b == payload[p]
    IN /\ WorkerGoto(w, "decode", "notify")
       /\ ack' = [ack EXCEPT ![p] = IF b # None THEN ok ELSE @]
       /\ pduQ' = IF b # None /\ ok THEN Append(pduQ, b) ELSE pduQ
       /\ avail' = IF b # None /\ ~ok THEN avail \cup {b} ELSE avail
       /\ payload' = [payload EXCEPT ![p] = None]
       /\ lock' = IF b # None THEN [lock EXCEPT ![p] = None] ELSE lock
       /\ UNCHANGED <<wpid, threadVars, flagVars>>

\* decode_pssch, then tb_decoded: deliver or drop the buffer, release the process.
TbDecoded(w, ok) ==
    LET p == wpid[w]
        b == payload[p]
    IN /\ WorkerGoto(w, "decode", "notify")
       /\ ack' = [ack EXCEPT ![p] = IF b # None THEN ok ELSE @]
       /\ pduQ' = IF b # None /\ ok THEN Append(pduQ, b) ELSE pduQ
       /\ avail' = IF b # None /\ ~ok THEN avail \cup {b} ELSE avail
       /\ payload' = [payload EXCEPT ![p] = None]
       /\ lock' = [lock EXCEPT ![p] = None]
       /\ UNCHANGED <<wpid, threadVars, flagVars>>

\* Fault: notify wakes the thread and does not set the flag.
NotifyNoFlag(w) ==
    /\ WorkerGoto(w, "notify", "idle")
    /\ news' = "fresh"
    /\ tpc' = IF tpc = "wait" THEN "check" ELSE tpc
    /\ UNCHANGED <<procVars, avail, pduQ, wpid, cur, got, haveData, running>>

\* pdu_process::notify.
Notify(w) ==
    /\ WorkerGoto(w, "notify", "idle")
    /\ haveData' = TRUE
    /\ news' = "fresh"
    /\ tpc' = IF tpc = "wait" THEN "check" ELSE tpc
    /\ UNCHANGED <<procVars, avail, pduQ, wpid, cur, got, running>>

-----------------------------------------------------------------------------
(* The PDU thread, pdu_process::run_thread.                                *)

ThreadGoto(from, to) == tpc = from /\ tpc' = to

Top ==
    /\ ThreadGoto("top", IF running THEN "pop" ELSE "exit")
    /\ got' = FALSE
    /\ news' = "seen"
    /\ UNCHANGED <<procVars, avail, pduQ, workerVars, cur, haveData, running>>

\* Fault: the buffer goes back to the pool before the PDU is taken apart, as the
\* branch for multicast PDUs of demux::process_pdu does.
PopFreesEarly ==
    /\ ThreadGoto("pop", IF pduQ # << >> THEN "proc" ELSE "assign")
    /\ IF pduQ # << >>
         THEN cur' = Head(pduQ) /\ pduQ' = Tail(pduQ) /\ got' = TRUE /\ avail' = avail \cup {Head(pduQ)}
         ELSE UNCHANGED <<cur, pduQ, got, avail>>
    /\ UNCHANGED <<procVars, workerVars, flagVars>>

\* One try_pop of process_pdus.
Pop ==
    /\ IF pduQ # << >>
         THEN /\ ThreadGoto("pop", "proc")
              /\ cur' = Head(pduQ)
              /\ pduQ' = Tail(pduQ)
              /\ got' = TRUE
         ELSE /\ ThreadGoto("pop", "assign")
              /\ UNCHANGED <<cur, pduQ, got>>
    /\ UNCHANGED <<procVars, avail, workerVars, flagVars>>

\* demux::process_pdu of a sidelink PDU: take it apart, then free its buffer.
ProcessPdu ==
    /\ ThreadGoto("proc", "pop")
    /\ avail' = avail \cup {cur}
    /\ cur' = None
    /\ UNCHANGED <<procVars, pduQ, workerVars, got, flagVars>>

\* have_data = process_pdus(), without the mutex that notify() holds.
Assign ==
    /\ ThreadGoto("assign", IF got THEN "top" ELSE "check")
    /\ haveData' = got
    /\ news' = IF ~got /\ news = "fresh" THEN "lost" ELSE news
    /\ UNCHANGED <<procVars, avail, pduQ, workerVars, cur, got, running>>

\* Under the mutex: while (!have_data && running) wait.
Check ==
    /\ ThreadGoto("check", IF ~haveData /\ running THEN "wait" ELSE "top")
    /\ UNCHANGED <<procVars, avail, pduQ, workerVars, cur, got, flagVars>>

-----------------------------------------------------------------------------
(* Other threads.                                                          *)

\* Fault: stop() does not wake the thread.
StopThreadSilent ==
    /\ running
    /\ running' = FALSE
    /\ UNCHANGED <<procVars, avail, pduQ, workerVars, threadVars, haveData, news>>

\* pdu_process::stop, under the mutex.
StopThread ==
    /\ running
    /\ running' = FALSE
    /\ tpc' = IF tpc = "wait" THEN "check" ELSE tpc
    /\ UNCHANGED <<procVars, avail, pduQ, workerVars, cur, got, haveData, news>>

\* dl_harq_process::reset, called by the RRC thread through mac::reset.
ResetProc(p) ==
    /\ lock[p] = None
    /\ ack' = [ack EXCEPT ![p] = FALSE]
    /\ avail' = avail \cup ({payload[p]} \ {None})
    /\ payload' = [payload EXCEPT ![p] = None]
    /\ UNCHANGED <<lock, pduQ, workerVars, threadVars, flagVars>>

-----------------------------------------------------------------------------
GrantStep(w) == \E p \in Proc : NewGrant(w, p)

WorkerStep(w) ==
    \/ LockProcess(w)
    \/ Allocate(w)
    \/ \E ok \in BOOLEAN : TbDecoded(w, ok)
    \/ Notify(w)

ThreadStep == Top \/ Pop \/ ProcessPdu \/ Assign \/ Check

Next ==
    \/ \E w \in Worker : GrantStep(w) \/ WorkerStep(w)
    \/ ThreadStep
    \/ StopThread
    \/ \E p \in Proc : ResetProc(p)

Spec == Init /\ [][Next]_vars

\* Threads run; a mutex that is released again and again is obtained, and so is a
\* buffer.  Nothing need be received, nobody need stop the thread.
FairSpec ==
    /\ Spec
    /\ WF_vars(ThreadStep)
    /\ \A w \in Worker : /\ WF_vars(WorkerStep(w))
                         /\ SF_vars(LockProcess(w))
                         /\ SF_vars(Allocate(w))

-----------------------------------------------------------------------------
TypeOK ==
    /\ lock \in [Proc -> Worker \cup {None}]
    /\ ack \in [Proc -> BOOLEAN]
    /\ payload \in [Proc -> Buffer \cup {None}]
    /\ avail \subseteq Buffer
    /\ pduQ \in Seq(Buffer)
    /\ wpc \in [Worker -> WorkerPC]
    /\ wpid \in [Worker -> Proc]
    /\ tpc \in ThreadPC
    /\ cur \in Buffer \cup {None}
    /\ got \in BOOLEAN
    /\ haveData \in BOOLEAN
    /\ running \in BOOLEAN
    /\ news \in News

\* A buffer is in exactly one place: the pool, one HARQ process, one position of the
\* queue, or the hands of the PDU thread.  Nothing is lost or used twice, whatever the
\* order of decoding, processing and resetting.
Places(b) ==
    (IF b \in avail THEN 1 ELSE 0) + (IF b = cur THEN 1 ELSE 0)
    + Cardinality({p \in Proc : payload[p] = b})
    + Cardinality({i \in DOMAIN pduQ : pduQ[i] = b})

OnePlace == \A b \in Buffer : Places(b) = 1

\* The buffer a worker decodes into belongs to a process that this worker, and nobody
\* else, has locked; between grants no process holds a buffer.
PayloadUnderLock ==
    \A p \in Proc : payload[p] # None
        => \E w \in Worker : lock[p] = w /\ wpid[w] = p /\ wpc[w] = "decode"

\* new_grant_dl returns with the mutex held; every such mutex is released again.
GrantReturns == \A w \in Worker : wpc[w] = "lock" ~> wpc[w] = "idle"

\* Every PDU that was queued is processed ("runs a thread to process DL MAC PDUs from
\* DEMUX unit", mac.cc:719) unless the thread is stopped, or the flag of the very last
\* notify() is overwritten by the unlocked assignment of mac.cc:758: then the thread waits
\* beside a queue that nobody announces any more.  That is the only way to strand a PDU.
PduProcessed ==
    \A b \in Buffer : (\E i \in DOMAIN pduQ : pduQ[i] = b)
                         ~> (b \in avail \/ ~running \/ [](news = "lost"))

\* pdu_process::stop comes back from its join, once no more PDUs are queued:
\* process_pdus itself does not look at the flag.
StopReturns == <>[](pduQ = << >>) => (~running ~> tpc = "exit")
===============================================================================
