------------------------------ MODULE ThreadPool ------------------------------
(***************************************************************************)
(* The pool of PHY worker threads (lib/src/common/thread_pool.cc) together *)
(* with its one client, the synchronisation thread (srssl/src/phy/sync.cc, *)
(* sync::run_thread), and the thread that shuts the PHY down               *)
(* (srssl/src/phy/phy.cc, phy::stop).                                      *)
(*                                                                         *)
(* The sync thread takes an idle worker, receives one subframe into the    *)
(* worker's buffer and starts it; the worker processes the subframe and    *)
(* hands itself back.  status[w] is written under mutex[w] but scanned     *)
(* under mutex_queue only, so the two locks do not exclude each other.     *)
(*                                                                         *)
(* Locks are kept implicit where one step covers the whole critical        *)
(* section.  Two sections span several steps:                              *)
(*   - mutex_queue is held by the sync thread while dpc = "scan";          *)
(*   - mutex[w] is held by worker w while wpc[w] = "presleep".             *)
(***************************************************************************)
EXTENDS Integers

CONSTANTS
    NofWorkers,   \* thread_pool::nof_workers
    RadioErrors   \* TRUE when reception may fail with a radio error

ASSUME NofWorkersAssumption == NofWorkers \in Nat \ {0}
ASSUME RadioErrorsAssumption == RadioErrors \in BOOLEAN

Worker == 0 .. NofWorkers - 1

VARIABLES
    status,       \* thread_pool::status, one entry per worker
    wrunning,     \* thread_pool::worker::running
    wpc,          \* where each worker thread is
    dpc,          \* where the sync thread is
    scan,         \* loop index of find_finished_worker
    held,         \* the worker that wait_worker is about to return
    syncRunning,  \* sync::running
    prunning,     \* thread_pool::running
    spc,          \* where the thread that calls phy::stop is
    sidx          \* loop index of thread_pool::stop

vars == <<status, wrunning, wpc, dpc, scan, held, syncRunning, prunning, spc, sidx>>

Status == {"IDLE", "START_WORK", "WORKER_READY", "WORKING"}

\* loop: the while test; test, presleep, wait: inside wait_to_start;
\* begin: after it; work: in work_imp; fin, sigq: the two halves of finished().
WorkerPC == {"boot", "loop", "test", "presleep", "wait", "begin", "work", "fin", "sigq", "exit"}

\* loop: the while test of sync::run_thread; scan, waitq, woken, found: inside
\* wait_worker; ready: a worker is held and a subframe is being received.
SyncPC == {"loop", "scan", "waitq", "woken", "found", "ready", "exit"}

StopPC == {"up", "joinSync", "stopW", "sigW", "joinW", "done"}

-----------------------------------------------------------------------------
\* All workers are registered and their threads created before sync::init.
Init ==
    /\ status = [w \in Worker |-> "IDLE"]
    /\ wrunning = [w \in Worker |-> FALSE]
    /\ wpc = [w \in Worker |-> "boot"]
    /\ dpc = "loop"
    /\ scan = 0
    /\ held = 0
    /\ syncRunning = TRUE
    /\ prunning = TRUE
    /\ spc = "up"
    /\ sidx = 0

-----------------------------------------------------------------------------
(* The worker threads.                                                     *)

WorkerGoto(w, from, to) == wpc[w] = from /\ wpc' = [wpc EXCEPT ![w] = to]

clientVars == <<dpc, scan, held, syncRunning, prunning, spc, sidx>>

\* First instruction of run_thread: it sets running by itself.
Boot(w) ==
    /\ WorkerGoto(w, "boot", "loop")
    /\ wrunning' = [wrunning EXCEPT ![w] = TRUE]
    /\ UNCHANGED <<status, clientVars>>

LoopTest(w) ==
    /\ WorkerGoto(w, "loop", IF wrunning[w] THEN "test" ELSE "exit")
    /\ UNCHANGED <<status, wrunning, clientVars>>

\* Fault: the worker is marked idle, not working, when it picks its job up.
WaitTestIdle(w) ==
    /\ IF status[w] # "START_WORK" /\ wrunning[w]
         THEN /\ WorkerGoto(w, "test", "presleep")
              /\ UNCHANGED status
         ELSE /\ WorkerGoto(w, "test", "begin")
              /\ status' = [status EXCEPT ![w] = "IDLE"]
    /\ UNCHANGED <<wrunning, clientVars>>

\* The condition of the while in wait_to_start; a worker that has to sleep keeps
\* mutex[w] until pthread_cond_wait has queued it on cvar[w].
WaitTest(w) ==
    /\ IF status[w] # "START_WORK" /\ wrunning[w]
         THEN /\ WorkerGoto(w, "test", "presleep")
              /\ UNCHANGED status
         ELSE /\ WorkerGoto(w, "test", "begin")
              /\ status' = [status EXCEPT ![w] = "WORKING"]
    /\ UNCHANGED <<wrunning, clientVars>>

Sleep(w) ==
    /\ WorkerGoto(w, "presleep", "wait")
    /\ UNCHANGED <<status, wrunning, clientVars>>

Begin(w) ==
    /\ WorkerGoto(w, "begin", IF wrunning[w] THEN "work" ELSE "loop")
    /\ UNCHANGED <<status, wrunning, clientVars>>

\* work_imp returns.
WorkDone(w) ==
    /\ WorkerGoto(w, "work", "fin")
    /\ UNCHANGED <<status, wrunning, clientVars>>

\* finished(), first critical section, under mutex[w].
FinishIdle(w) ==
    /\ WorkerGoto(w, "fin", "sigq")
    /\ status' = [status EXCEPT ![w] = "IDLE"]
    /\ UNCHANGED <<wrunning, clientVars>>

\* Fault: the queue is signalled without mutex_queue.
FinishSignalUnlocked(w) ==
    /\ WorkerGoto(w, "sigq", "loop")
    /\ dpc' = IF dpc = "waitq" THEN "woken" ELSE dpc
    /\ UNCHANGED <<status, wrunning, scan, held, syncRunning, prunning, spc, sidx>>

\* finished(), second critical section, under mutex_queue: a sync thread that
\* waits on cvar_queue is woken; a signal nobody waits for is lost.
FinishSignal(w) ==
    /\ dpc # "scan"
    /\ WorkerGoto(w, "sigq", "loop")
    /\ dpc' = IF dpc = "waitq" THEN "woken" ELSE dpc
    /\ UNCHANGED <<status, wrunning, scan, held, syncRunning, prunning, spc, sidx>>

-----------------------------------------------------------------------------
(* The sync thread: wait_worker(), then receive, then start or release.    *)

SyncGoto(from, to) == dpc = from /\ dpc' = to

stopVars == <<syncRunning, prunning, spc, sidx>>

SyncLoop ==
    /\ SyncGoto("loop", IF syncRunning THEN "scan" ELSE "exit")
    /\ scan' = 0
    /\ UNCHANGED <<status, wrunning, wpc, held, stopVars>>

\* One iteration of find_finished_worker: status[scan] is read without mutex[scan].
ScanOne ==
    /\ scan < NofWorkers
    /\ IF status[scan] = "IDLE"
         THEN /\ SyncGoto("scan", "found")
              /\ held' = scan
              /\ UNCHANGED scan
         ELSE /\ SyncGoto("scan", "scan")
              /\ scan' = scan + 1
              /\ UNCHANGED held
    /\ UNCHANGED <<status, wrunning, wpc, stopVars>>

\* No idle worker: sleep on cvar_queue, or give up when the pool is stopping.
ScanEnd ==
    /\ scan = NofWorkers
    /\ SyncGoto("scan", IF prunning THEN "waitq" ELSE "found")
    /\ UNCHANGED <<status, wrunning, wpc, scan, held, stopVars>>

Rescan ==
    /\ SyncGoto("woken", "scan")
    /\ scan' = 0
    /\ UNCHANGED <<status, wrunning, wpc, held, stopVars>>

\* wait_worker after unlocking mutex_queue: mark the worker, or return NULL,
\* which makes the sync thread leave its loop.
TakeWorker ==
    /\ IF prunning
         THEN /\ wpc[held] # "presleep"
              /\ SyncGoto("found", "ready")
              /\ status' = [status EXCEPT ![held] = "WORKER_READY"]
              /\ UNCHANGED syncRunning
         ELSE /\ SyncGoto("found", "loop")
              /\ syncRunning' = FALSE
              /\ UNCHANGED status
    /\ UNCHANGED <<wrunning, wpc, scan, held, prunning, spc, sidx>>

\* Fault: start_worker forgets the signal.
StartWorkerSilent(w) ==
    /\ wpc[w] # "presleep"
    /\ status' = [status EXCEPT ![w] = "START_WORK"]
    /\ UNCHANGED wpc

\* start_worker(id): set the status and signal cvar[id], both under mutex[id].
StartWorker(w) ==
    /\ wpc[w] # "presleep"
    /\ status' = [status EXCEPT ![w] = "START_WORK"]
    /\ wpc' = IF wpc[w] = "wait" THEN [wpc EXCEPT ![w] = "test"] ELSE wpc

\* A subframe was received.
Dispatch ==
    /\ SyncGoto("ready", "loop")
    /\ StartWorker(held)
    /\ UNCHANGED <<wrunning, scan, held, stopVars>>

\* Out of sync: worker->release() is finished() run by the sync thread, whose
\* signal finds no waiter because the sync thread is the only one.
Release ==
    /\ SyncGoto("ready", "loop")
    /\ wpc[held] # "presleep"
    /\ status' = [status EXCEPT ![held] = "IDLE"]
    /\ UNCHANGED <<wrunning, wpc, scan, held, stopVars>>

\* Radio error: the worker is neither started nor released.
RadioError ==
    /\ RadioErrors
    /\ SyncGoto("ready", "loop")
    /\ UNCHANGED <<status, wrunning, wpc, scan, held, stopVars>>

-----------------------------------------------------------------------------
(* phy::stop: sync::stop, then thread_pool::stop.                          *)

StopGoto(from, to) == spc = from /\ spc' = to

StopSync ==
    /\ StopGoto("up", "joinSync")
    /\ syncRunning' = FALSE
    /\ UNCHANGED <<status, wrunning, wpc, dpc, scan, held, prunning, sidx>>

\* The sync thread has been joined; thread_pool::stop begins.
StopPool ==
    /\ dpc = "exit"
    /\ StopGoto("joinSync", "stopW")
    /\ prunning' = FALSE
    /\ UNCHANGED <<status, wrunning, wpc, dpc, scan, held, syncRunning, sidx>>

\* worker::stop(): the flag, then the signal, neither under mutex[sidx].
StopFlag ==
    /\ StopGoto("stopW", "sigW")
    /\ wrunning' = [wrunning EXCEPT ![sidx] = FALSE]
    /\ UNCHANGED <<status, wpc, dpc, scan, held, syncRunning, prunning, sidx>>

StopSignal ==
    /\ StopGoto("sigW", "joinW")
    /\ wpc' = IF wpc[sidx] = "wait" THEN [wpc EXCEPT ![sidx] = "test"] ELSE wpc
    /\ UNCHANGED <<status, wrunning, dpc, scan, held, syncRunning, prunning, sidx>>

\* Fault: the loop index of thread_pool::stop runs past the last worker.
StopJoinOffByOne ==
    /\ wpc[sidx] = "exit"
    /\ StopGoto("joinW", IF sidx + 1 = NofWorkers THEN "done" ELSE "stopW")
    /\ StartWorker(sidx)
    /\ sidx' = sidx + 1
    /\ UNCHANGED <<wrunning, dpc, scan, held, syncRunning, prunning>>

\* The join inside worker::stop(); start_worker and the second join come after it.
StopJoin ==
    /\ wpc[sidx] = "exit"
    /\ StopGoto("joinW", IF sidx + 1 = NofWorkers THEN "done" ELSE "stopW")
    /\ StartWorker(sidx)
    /\ sidx' = IF sidx + 1 = NofWorkers THEN sidx ELSE sidx + 1
    /\ UNCHANGED <<wrunning, dpc, scan, held, syncRunning, prunning>>

-----------------------------------------------------------------------------
WorkerStep(w) ==
    \/ Boot(w) \/ LoopTest(w) \/ WaitTest(w) \/ Sleep(w) \/ Begin(w)
    \/ WorkDone(w) \/ FinishIdle(w) \/ FinishSignal(w)

Receive == Dispatch \/ Release \/ RadioError

SyncStep == SyncLoop \/ ScanOne \/ ScanEnd \/ Rescan \/ TakeWorker \/ Receive

StopStep == StopPool \/ StopFlag \/ StopSignal \/ StopJoin

\* The PHY is down: every thread has returned.
Terminated == spc = "done" /\ UNCHANGED vars

Next ==
    \/ \E w \in Worker : WorkerStep(w)
    \/ SyncStep
    \/ StopSync
    \/ StopStep
    \/ Terminated

Spec == Init /\ [][Next]_vars

\* Every thread that can run eventually runs.  mutex_queue is taken again and again
\* by the sync thread, but for microseconds per millisecond of reception, so a
\* worker that keeps asking for it gets it (SF).  The radio eventually delivers a
\* subframe that is in sync (SF on Dispatch).  Nobody has to shut the PHY down.
Fairness ==
    /\ \A w \in Worker : WF_vars(WorkerStep(w)) /\ SF_vars(FinishSignal(w))
    /\ WF_vars(SyncStep)
    /\ SF_vars(Dispatch)
    /\ WF_vars(StopStep)

FairSpec == Spec /\ Fairness

-----------------------------------------------------------------------------
TypeOK ==
    /\ status \in [Worker -> Status]
    /\ wrunning \in [Worker -> BOOLEAN]
    /\ wpc \in [Worker -> WorkerPC]
    /\ dpc \in SyncPC
    /\ scan \in 0 .. NofWorkers
    /\ held \in Worker
    /\ syncRunning \in BOOLEAN
    /\ prunning \in BOOLEAN
    /\ spc \in StopPC
    /\ sidx \in Worker

\* A worker the sync thread is filling with samples is not processing any: between
\* wait_worker and start_worker no one else uses its buffer (sync.cc run_thread).
HeldIsQuiet ==
    dpc \in {"found", "ready"} => wpc[held] \notin {"begin", "work", "fin"}

\* The sync thread never sleeps on cvar_queue past a hand-back: if it sleeps and some
\* worker is idle, that worker (or another) has yet to signal the queue.  The scan
\* reads status without the lock that guards it, so this is not the usual pattern.
NoLostWakeup ==
    dpc = "waitq" /\ (\E w \in Worker : status[w] = "IDLE")
        => \E w \in Worker : wpc[w] = "sigq"

\* Every subframe handed to a worker gets processed: start_worker's signal is not
\* lost even when the worker has not reached its wait yet.
StartedWorkRuns ==
    \A w \in Worker : (status[w] = "START_WORK" /\ spc = "up") ~> (wpc[w] = "work" \/ spc # "up")

\* While the PHY is up the sync thread keeps handing subframes to workers ("Calls the
\* PHCH workers to process subframes", sync.cc:444): the state in which it has just
\* dispatched, or holds, a worker recurs.  Radio errors break it (ThreadPool_leak.cfg).
KeepsDispatching == []<>(dpc = "ready" \/ spc # "up")

\* Marked for the sync thread, which has moved on: nothing makes such a worker idle again.
Leaked(w) == status[w] = "WORKER_READY" /\ ~(dpc = "ready" /\ held = w)

\* Each radio error costs the pool a worker (sync.cc run_thread neither starts nor
\* releases it), and nothing else does: dispatching goes on while one worker is left.
DispatchesWhileWorkersLeft ==
    []<>(dpc = "ready" \/ spc # "up" \/ \A w \in Worker : Leaked(w))

\* phy::stop comes back: thread_pool::stop wakes every worker it joins
\* ("Need to call start to wake it up", thread_pool.cc:143).
StopTerminates == (spc # "up") ~> (spc = "done")

-----------------------------------------------------------------------------
(* What holds in every state and makes the two safety invariants inductive. *)

\* thread_pool::running falls only after the sync thread has been joined, and no
\* worker's flag falls before that.
StopOrder ==
    /\ dpc # "exit" => prunning
    /\ \A w \in Worker : dpc # "exit" /\ wpc[w] # "boot" => wrunning[w]
    /\ dpc # "exit" => spc \in {"up", "joinSync"}

\* Who owns a worker: itself from the moment it picks its job up until it hands
\* itself back, the sync thread from the moment it found it idle.
Ownership ==
    /\ \A w \in Worker : wpc[w] \in {"begin", "work", "fin"} /\ dpc # "exit" => status[w] = "WORKING"
    /\ dpc = "found" => status[held] = "IDLE"
    /\ dpc = "ready" => status[held] = "WORKER_READY"

\* A worker that became idle behind the scan has yet to signal the queue.
ScanCovered ==
    /\ dpc = "scan" => \A w \in 0 .. scan - 1 : status[w] = "IDLE" => wpc[w] = "sigq"
    /\ dpc = "waitq" => \A w \in Worker : status[w] = "IDLE" => wpc[w] = "sigq"

PoolInv == TypeOK /\ StopOrder /\ Ownership /\ ScanCovered
===============================================================================
