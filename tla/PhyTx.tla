-------------------------------- MODULE PhyTx ---------------------------------
(***************************************************************************)
(* The transmit chain of the PHY: phy_common::worker_end run by the        *)
(* workers of ThreadPool, fed by sync::run_thread, reset by the RRC        *)
(* (sync::cell_select and phy::reset both call phy_common::reset).         *)
(*                                                                         *)
(* Worker processing times are arbitrary, so workers reach worker_end in   *)
(* any order; a ring of nof_workers semaphores puts them back in order.    *)
(* Every dispatch gets the next position of the ring (tx_worker_cnt); a    *)
(* worker waits on the semaphore of its position and posts the next one.   *)
(* The token is created by the first worker that finds is_first_tx set.    *)
(***************************************************************************)
EXTENDS ThreadPool, Sequences, FiniteSets

CONSTANTS
    FirstTxSeparated,  \* the timing argument in worker_end holds (see Separated)
    MaxResets          \* bound on the calls of phy_common::reset

ASSUME FirstTxSeparatedAssumption == FirstTxSeparated \in BOOLEAN
ASSUME MaxResetsAssumption == MaxResets \in Nat

VARIABLES
    txSem,        \* phy_common::tx_sem
    isFirstTx,    \* phy_common::is_first_tx
    txWorkerCnt,  \* sync::tx_worker_cnt
    txSemId,      \* sf_worker::tx_sem_id, per worker
    txpc,         \* where a worker is inside work_imp
    pending,      \* dispatched workers that have not transmitted yet, oldest first
    resets        \* number of resets so far

txVars == <<txSem, isFirstTx, txWorkerCnt, txSemId, txpc, pending, resets>>
allVars == <<vars, txVars>>

\* none: outside work_imp; first: about to test is_first_tx; claim: found it set;
\* semwait: at sem_wait; tx: has the green light; done: posted the next semaphore.
TxPC == {"none", "first", "claim", "semwait", "tx", "done"}

TxInit ==
    /\ Init
    /\ txSem = [k \in Worker |-> 0]
    /\ isFirstTx = TRUE
    /\ txWorkerCnt = 0
    /\ txSemId = [w \in Worker |-> 0]
    /\ txpc = [w \in Worker |-> "none"]
    /\ pending = << >>
    /\ resets = 0

Post(k) == txSem' = [txSem EXCEPT ![k] = @ + 1]

\* Fault: the ring does not wrap.
NextSemNoWrap(k) == k + 1

NextSem(k) == (k + 1) % NofWorkers

TxGoto(w, from, to) == txpc[w] = from /\ txpc' = [txpc EXCEPT ![w] = to]

\* Worker w has transmitted (the history that the properties are about).
Retire(w) ==
    \E i \in DOMAIN pending :
        /\ pending[i] = w
        /\ pending' = SubSeq(pending, 1, i - 1) \o SubSeq(pending, i + 1, Len(pending))

-----------------------------------------------------------------------------
(* work_imp, inside the "work" step of the pool.                           *)

\* The signal processing happens between these two steps and takes any time.
TxBegin(w) ==
    /\ Begin(w)
    /\ IF wpc'[w] = "work" THEN TxGoto(w, "none", "first") ELSE UNCHANGED txpc
    /\ UNCHANGED <<txSem, isFirstTx, txWorkerCnt, txSemId, pending, resets>>

\* worker_end reads is_first_tx without a lock ...
FirstTest(w) ==
    /\ TxGoto(w, "first", IF isFirstTx THEN "claim" ELSE "semwait")
    /\ UNCHANGED <<vars, txSem, isFirstTx, txWorkerCnt, txSemId, pending, resets>>

\* Fault: the token is created and the flag is left set.
FirstClaimKeepsFlag(w) ==
    /\ TxGoto(w, "claim", "semwait")
    /\ Post(txSemId[w])
    /\ UNCHANGED <<vars, isFirstTx, txWorkerCnt, txSemId, pending, resets>>

\* ... and then clears it and creates the token at its own position.
FirstClaim(w) ==
    /\ TxGoto(w, "claim", "semwait")
    /\ isFirstTx' = FALSE
    /\ Post(txSemId[w])
    /\ UNCHANGED <<vars, txWorkerCnt, txSemId, pending, resets>>

\* Fault: a worker transmits without waiting for its semaphore.
GreenLightForAll(w) ==
    /\ TxGoto(w, "semwait", "tx")
    /\ UNCHANGED <<vars, txSem, isFirstTx, txWorkerCnt, txSemId, pending, resets>>

GreenLight(w) ==
    /\ txSem[txSemId[w]] > 0
    /\ TxGoto(w, "semwait", "tx")
    /\ txSem' = [txSem EXCEPT ![txSemId[w]] = @ - 1]
    /\ UNCHANGED <<vars, isFirstTx, txWorkerCnt, txSemId, pending, resets>>

\* Fault: the worker posts its own position again instead of the next.
TransmitPostOwn(w) ==
    /\ TxGoto(w, "tx", "done")
    /\ Post(txSemId[w])
    /\ Retire(w)
    /\ UNCHANGED <<vars, isFirstTx, txWorkerCnt, txSemId, resets>>

\* The radio call, then sem_post of the next position.
Transmit(w) ==
    /\ TxGoto(w, "tx", "done")
    /\ Post(NextSem(txSemId[w]))
    /\ Retire(w)
    /\ UNCHANGED <<vars, isFirstTx, txWorkerCnt, txSemId, resets>>

TxWorkDone(w) ==
    /\ WorkDone(w)
    /\ TxGoto(w, "done", "none")
    /\ UNCHANGED <<txSem, isFirstTx, txWorkerCnt, txSemId, pending, resets>>

-----------------------------------------------------------------------------
(* The sync thread and the RRC thread.                                     *)

\* "it is very unlikely that 2 threads arrive here simultaneously since at the
\* beginning there is no workload and threads are separated by 1 ms": while the
\* flag is set, a dispatched worker is past the test before the next dispatch.
Separated ==
    FirstTxSeparated /\ isFirstTx
        => \A i \in DOMAIN pending : txpc[pending[i]] \in {"semwait", "tx"}

\* set_tti(tti, tx_worker_cnt), advance the position, start the worker.
TxDispatch ==
    /\ Dispatch
    /\ Separated
    /\ txSemId' = [txSemId EXCEPT ![held] = txWorkerCnt]
    /\ txWorkerCnt' = NextSem(txWorkerCnt)
    /\ pending' = Append(pending, held)
    /\ UNCHANGED <<txSem, isFirstTx, txpc, resets>>

\* The RRC thread resets the PHY, wherever the sync thread and the workers are: nothing
\* waits for them, and the semaphores keep their counts.
ResetPhy ==
    /\ spc = "up"
    /\ resets < MaxResets
    /\ isFirstTx' = TRUE
    /\ resets' = resets + 1
    /\ UNCHANGED <<vars, txSem, txWorkerCnt, txSemId, txpc, pending>>

-----------------------------------------------------------------------------
WorkImp(w) == FirstTest(w) \/ FirstClaim(w) \/ GreenLight(w) \/ Transmit(w)

\* The steps of the pool that do not touch the chain.
PoolStep(w) ==
    /\ Boot(w) \/ LoopTest(w) \/ WaitTest(w) \/ Sleep(w) \/ FinishIdle(w) \/ FinishSignal(w)
    /\ UNCHANGED txVars

TxWorkerStep(w) == TxBegin(w) \/ WorkImp(w) \/ TxWorkDone(w) \/ PoolStep(w)

TxSyncStep ==
    \/ TxDispatch
    \/ /\ SyncLoop \/ ScanOne \/ ScanEnd \/ Rescan \/ TakeWorker \/ Release \/ RadioError
       /\ UNCHANGED txVars

TxNext ==
    \/ \E w \in Worker : TxWorkerStep(w)
    \/ TxSyncStep
    \/ ResetPhy

TxSpec == TxInit /\ [][TxNext]_allVars

\* As in ThreadPool; every worker runs, the radio keeps delivering subframes.
TxFairness ==
    /\ \A w \in Worker : /\ WF_allVars(TxWorkerStep(w))
                         /\ SF_allVars(FinishSignal(w) /\ UNCHANGED txVars)
    /\ WF_allVars(TxSyncStep)
    /\ SF_allVars(TxDispatch)

TxFairSpec == TxSpec /\ TxFairness

-----------------------------------------------------------------------------
TxTypeOK ==
    /\ txSem \in [Worker -> Nat]
    /\ isFirstTx \in BOOLEAN
    /\ txWorkerCnt \in Worker
    /\ txSemId \in [Worker -> Worker]
    /\ txpc \in [Worker -> TxPC]
    /\ pending \in Seq(Worker) /\ Len(pending) <= NofWorkers
    /\ resets \in 0 .. MaxResets

\* The worker that is transmitting carries the oldest subframe not yet transmitted.
OldestTransmits == \A w \in Worker : txpc[w] = "tx" => pending # << >> /\ Head(pending) = w

\* "The transmission of UL subframes must be in sequence" (phy_common.cc:636): so it is
\* until the RRC resets the chain under its workers.
InOrderTx == resets = 0 => OldestTransmits

\* There is one right to transmit: it is unclaimed, in one semaphore, or with the one
\* worker that is transmitting, and it sits at the position of the oldest subframe.
OneToken ==
    LET holders == {w \in Worker : txpc[w] = "tx"}
        posted  == {k \in Worker : txSem[k] > 0}
    IN resets = 0 =>
       /\ Cardinality(holders) + Cardinality(posted) = (IF isFirstTx THEN 0 ELSE 1)
       /\ \A k \in posted : txSem[k] = 1 /\ (pending # << >> => txSemId[Head(pending)] = k)

\* Every dispatched subframe is transmitted, also after the RRC has reset the
\* chain under it: the extra token breaks the order, it never blocks the ring.
TransmitsAll ==
    \A w \in Worker : (\E i \in DOMAIN pending : pending[i] = w) ~> (txpc[w] = "tx")

\* The chain implements a FIFO as long as it is not reset: nothing overtakes, nothing is
\* dropped or sent twice.
Fifo == INSTANCE TxFifo WITH Job <- Worker
ImplementsFifo == Fifo!Init /\ [][resets = 0 => Fifo!Next]_pending

-----------------------------------------------------------------------------
(* QueueInv holds for every chain, reset or not.  ChainInv is the          *)
(* inductive invariant behind InOrderTx, OneToken and ImplementsFifo, for  *)
(* chains that are not reset and whose first subframes are Separated.      *)

\* Without a shutdown the sync thread and the pool keep running.
ChainUp == dpc # "exit" /\ syncRunning /\ prunning /\ spc = "up"

InPending(w) == \E i \in 1 .. Len(pending) : pending[i] = w

\* A subframe is pending from the dispatch of its worker until its transmission.
PendingMatches ==
    \A w \in Worker :
        /\ status[w] = "START_WORK" \/ wpc[w] = "begin" => InPending(w) /\ txpc[w] = "none"
        /\ txpc[w] # "none" => wpc[w] = "work"
        /\ txpc[w] \in {"first", "claim", "semwait", "tx"} => InPending(w)
        /\ InPending(w) => /\ txpc[w] # "done"
                           /\ txpc[w] = "none" => status[w] = "START_WORK" \/ wpc[w] = "begin"

\* No worker is pending twice.
NoneTwice == \A i, j \in 1 .. Len(pending) : pending[i] = pending[j] => i = j

QueueInv == TxTypeOK /\ ChainUp /\ PendingMatches /\ NoneTwice

\* The position d places before k in the ring.
RingBack(k, d) == IF d <= k THEN k - d ELSE k - d + NofWorkers

\* Pending subframes have consecutive positions that end before the next one to be
\* given out.
RingOrder ==
    \A i \in 1 .. Len(pending) :
        txSemId[pending[i]] = RingBack(txWorkerCnt, Len(pending) - i + 1)

\* The position of the oldest pending subframe, or of the next one if there is none.
TokenPos == RingBack(txWorkerCnt, Len(pending))

\* The token does not exist yet; or it waits in the semaphore at TokenPos; or the
\* oldest pending worker has it.
TokenPlace ==
    \/ /\ isFirstTx
       /\ Len(pending) <= 1
       /\ \A w \in Worker : txpc[w] \in {"none", "first", "claim"} /\ txSem[w] = 0
    \/ /\ ~isFirstTx
       /\ \A w \in Worker : txpc[w] \notin {"claim", "tx"}
       /\ \A k \in Worker : txSem[k] = IF k = TokenPos THEN 1 ELSE 0
    \/ /\ ~isFirstTx
       /\ Len(pending) > 0
       /\ \A w \in Worker : txpc[w] # "claim" /\ (txpc[w] = "tx" <=> w = pending[1])
       /\ \A k \in Worker : txSem[k] = 0

ChainInv == QueueInv /\ RingOrder /\ TokenPlace
===============================================================================
