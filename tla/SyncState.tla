------------------------------- MODULE SyncState -------------------------------
(***************************************************************************)
(* The state machine of the synchronisation thread (sync_state in          *)
(* srssl/hdr/phy/sync.h) and the higher-layer calls that steer it:         *)
(* cell_search, cell_select and cell_create (srssl/src/phy/sync.cc).       *)
(*                                                                         *)
(* A call takes rrc_mutex, sends the thread to IDLE, reconfigures the PHY, *)
(* sends the thread on and waits for the outcome.  The thread repeats:     *)
(* run_state(), the work of that state, the overflow block.  Sections      *)
(* under the mutex `inside' are single steps; notify_all follows every     *)
(* change a waiter looks at, so a wait is a guard.                         *)
(***************************************************************************)
EXTENDS Naturals, FiniteSets

CONSTANTS
    Caller,      \* threads of the higher layers
    None,        \* a free mutex
    Api,         \* the functions they call
    MaxCalls,    \* bound on the number of calls
    Gnss,        \* ue_sync.mode = SYNC_MODE_GNSS
    Overflows,   \* TRUE when the radio may report an overflow
    EarfcnListed \* what the bounds check of cell_search may say

ASSUME SyncStateAssumption ==
    /\ None \notin Caller
    /\ Api \subseteq {"search", "select", "create"}
    /\ MaxCalls \in Nat
    /\ Gnss \in BOOLEAN
    /\ Overflows \in BOOLEAN
    /\ EarfcnListed \subseteq BOOLEAN /\ EarfcnListed # {}

VARIABLES
    curState,       \* sync_state::cur_state
    nextState,      \* sync_state::next_state
    stateSetting,   \* sync_state::state_setting
    stateRunning,   \* sync_state::state_running
    outside,        \* sync_state::outside: its holder
    rrcMutex,       \* sync::rrc_mutex is locked; who locked it does not matter to unlock()
    mpc,            \* where the sync thread is in its loop
    searchRet,      \* sync::cell_search_ret
    slMaster,       \* ue_sync.is_sl_master
    pool,           \* sync::cell and phy_common::ue_repo, see Pool
    overflow,       \* sync::radio_is_overflow
    overflowReturn, \* sync::radio_overflow_return
    apc,            \* where each caller is
    call,           \* the function it is in
    goal,           \* the state it last asked for
    calls           \* number of calls so far

monitorVars == <<curState, nextState, stateSetting, stateRunning>>
threadVars  == <<mpc, searchRet, overflow, overflowReturn>>
cellVars    == <<slMaster, pool>>
callerVars  == <<outside, cellVars, apc, call, goal, calls>>
vars == <<monitorVars, threadVars, callerVars, rrcMutex>>

State == {"IDLE", "CELL_SEARCH", "SFN_SYNC", "CAMPING", "SERVING"}
SearchRet == {"CELL_FOUND", "CELL_NOT_FOUND", "ERROR"}

\* none: no valid cell yet; unset: a cell, but no resource pool built for it (its
\* subframe table is a null pointer); built: a cell and its pool.
Pool == {"none", "unset", "built"}

\* lock: at rrc_mutex.lock(); ask, granted, running, settle: in go_state,
\* wait_state_run and wait_state_next; reconf: changes the PHY's configuration;
\* unlock, unlock2: at the first and (cell_create) second release of rrc_mutex.
CallerPC == {"none", "lock", "ask", "granted", "running", "settle", "reconf", "unlock", "unlock2"}

Init ==
    /\ curState = "IDLE" /\ nextState = "IDLE"
    /\ stateSetting = FALSE /\ stateRunning = FALSE
    /\ outside = None
    /\ rrcMutex = FALSE
    /\ mpc = "loop"
    /\ searchRet = "CELL_NOT_FOUND"
    /\ slMaster = FALSE /\ pool = "none"
    /\ overflow = FALSE /\ overflowReturn = FALSE
    /\ apc = [c \in Caller |-> "none"]
    /\ call \in [Caller -> Api]
    /\ goal = [c \in Caller |-> "IDLE"]
    /\ calls = 0

-----------------------------------------------------------------------------
(* The sync thread.                                                        *)

MainGoto(from, to) == mpc = from /\ mpc' = to

\* Fault: a request is acknowledged one loop before it takes effect.
RunStateLate ==
    /\ MainGoto("loop", "act")
    /\ curState' = IF stateSetting THEN curState ELSE nextState
    /\ stateSetting' = FALSE
    /\ stateRunning' = (stateSetting \/ stateRunning)
    /\ UNCHANGED <<nextState, searchRet, overflow, overflowReturn, callerVars, rrcMutex>>

RunState ==
    /\ MainGoto("loop", "act")
    /\ curState' = nextState
    /\ stateSetting' = FALSE
    /\ stateRunning' = (stateSetting \/ stateRunning)
    /\ UNCHANGED <<nextState, searchRet, overflow, overflowReturn, callerVars, rrcMutex>>

\* Fault: the end of a state is not announced to the caller that waits for it.
StateExitSilent(ok) ==
    /\ nextState' = IF curState = "SFN_SYNC" /\ ok THEN "CAMPING" ELSE "IDLE"
    /\ UNCHANGED <<curState, stateSetting, stateRunning>>

StateExit(ok) ==
    /\ nextState' = IF curState = "SFN_SYNC" /\ ok THEN "CAMPING" ELSE "IDLE"
    /\ stateRunning' = FALSE
    /\ UNCHANGED <<curState, stateSetting>>

ForceNext(s) == nextState' = s /\ UNCHANGED <<curState, stateSetting, stateRunning>>

\* search_p.run() returns when the search is over.
CellSearch(ret) ==
    /\ curState = "CELL_SEARCH"
    /\ MainGoto("act", "ovf")
    /\ searchRet' = ret
    /\ StateExit(TRUE)
    /\ UNCHANGED <<overflow, overflowReturn, callerVars, rrcMutex>>

\* sfn_p.run_subframe(): a master serves at once; a slave decodes the MIB, gives up
\* at its timeout, or goes on with the next subframe.
SfnSync ==
    /\ curState = "SFN_SYNC"
    /\ MainGoto("act", "ovf")
    /\ IF slMaster THEN ForceNext("SERVING") ELSE \E ok \in BOOLEAN : StateExit(ok)
    /\ UNCHANGED <<searchRet, overflow, overflowReturn, callerVars, rrcMutex>>

SfnSyncGoesOn ==
    /\ curState = "SFN_SYNC" /\ ~slMaster
    /\ MainGoto("act", "ovf")
    /\ UNCHANGED <<monitorVars, searchRet, overflow, overflowReturn, callerVars, rrcMutex>>

\* CAMPING and SERVING feed the workers, IDLE discards samples.
Subframe ==
    /\ curState \in {"CAMPING", "SERVING", "IDLE"}
    /\ MainGoto("act", "ovf")
    /\ UNCHANGED <<monitorVars, searchRet, overflow, overflowReturn, callerVars, rrcMutex>>

\* if (mode != GNSS && !try_lock()): the block is entered when the lock is NOT
\* obtained, and a lock that is obtained is kept until the next loop fails.
TryLock ==
    /\ MainGoto("ovf", IF ~Gnss /\ rrcMutex THEN "block" ELSE "loop")
    /\ rrcMutex' = (~Gnss \/ rrcMutex)
    /\ UNCHANGED <<monitorVars, searchRet, overflow, overflowReturn, callerVars>>

\* Fault: back in CAMPING only one of the two flags is cleared.
HandleOverflowOneFlag ==
    CASE overflowReturn /\ curState = "CAMPING" ->
           overflowReturn' = FALSE /\ UNCHANGED <<overflow, monitorVars>>
      [] overflowReturn /\ curState = "IDLE" ->
           ForceNext("SFN_SYNC") /\ UNCHANGED <<overflow, overflowReturn>>
      [] ~overflowReturn /\ curState = "CAMPING" ->
           ForceNext("SFN_SYNC") /\ overflowReturn' = TRUE /\ UNCHANGED overflow
      [] ~overflowReturn /\ curState # "CAMPING" ->
           overflow' = FALSE /\ UNCHANGED <<overflowReturn, monitorVars>>
      [] OTHER -> UNCHANGED <<overflow, overflowReturn, monitorVars>>

\* Fault: an overflow forces SFN synchronisation whatever the state.
HandleOverflowAnyState ==
    IF overflowReturn /\ curState = "CAMPING"
      THEN overflow' = FALSE /\ overflowReturn' = FALSE /\ UNCHANGED monitorVars
      ELSE ForceNext("SFN_SYNC") /\ overflowReturn' = TRUE /\ UNCHANGED overflow

\* An overflow sends CAMPING through SFN_SYNC until it camps again.
HandleOverflow ==
    CASE overflowReturn /\ curState = "CAMPING" ->
           overflow' = FALSE /\ overflowReturn' = FALSE /\ UNCHANGED monitorVars
      [] overflowReturn /\ curState = "IDLE" ->
           ForceNext("SFN_SYNC") /\ UNCHANGED <<overflow, overflowReturn>>
      [] ~overflowReturn /\ curState = "CAMPING" ->
           ForceNext("SFN_SYNC") /\ overflowReturn' = TRUE /\ UNCHANGED overflow
      [] ~overflowReturn /\ curState # "CAMPING" ->
           overflow' = FALSE /\ UNCHANGED <<overflowReturn, monitorVars>>
      [] OTHER -> UNCHANGED <<overflow, overflowReturn, monitorVars>>

\* The block, then rrc_mutex.unlock(), whoever holds it.
OverflowBlock ==
    /\ MainGoto("block", "loop")
    /\ IF overflow THEN HandleOverflow ELSE UNCHANGED <<overflow, overflowReturn, monitorVars>>
    /\ rrcMutex' = FALSE
    /\ UNCHANGED <<searchRet, callerVars>>

\* sync::radio_overflow, called by the radio's thread.
RadioOverflow ==
    /\ Overflows /\ ~overflow
    /\ overflow' = TRUE
    /\ UNCHANGED <<monitorVars, mpc, searchRet, overflowReturn, callerVars, rrcMutex>>

-----------------------------------------------------------------------------
(* The higher layers.                                                      *)

CallerGoto(c, from, to) == apc[c] = from /\ apc' = [apc EXCEPT ![c] = to]

\* cell_create is called once and first, when the PHY of a sidelink master starts.
Call(c, f) ==
    /\ calls < MaxCalls
    /\ f = "create" => calls = 0
    /\ CallerGoto(c, "none", "lock")
    /\ call' = [call EXCEPT ![c] = f]
    /\ goal' = [goal EXCEPT ![c] = "IDLE"]
    /\ calls' = calls + 1
    /\ UNCHANGED <<monitorVars, threadVars, outside, cellVars, rrcMutex>>

\* cell_select returns at once when no cell was ever found.
Lock(c) ==
    /\ ~rrcMutex
    /\ rrcMutex' = TRUE
    /\ CallerGoto(c, "lock", IF call[c] = "select" /\ pool = "none" THEN "unlock" ELSE "ask")
    /\ UNCHANGED <<monitorVars, threadVars, outside, cellVars, call, goal, calls>>

\* go_idle, run_cell_search, run_sfn_sync: lock `outside', then the first half of go_state.
Ask(c) ==
    /\ outside = None
    /\ outside' = c
    /\ CallerGoto(c, "ask", "granted")
    /\ nextState' = goal[c]
    /\ stateSetting' = TRUE
    /\ UNCHANGED <<curState, stateRunning, threadVars, cellVars, call, goal, calls, rrcMutex>>

\* go_state returns; go_idle with it.
Granted(c) ==
    /\ ~stateSetting
    /\ CallerGoto(c, "granted", IF goal[c] = "IDLE" THEN "reconf" ELSE "running")
    /\ outside' = IF goal[c] = "IDLE" THEN None ELSE outside
    /\ UNCHANGED <<monitorVars, threadVars, cellVars, call, goal, calls, rrcMutex>>

WaitStateRun(c) ==
    /\ ~stateRunning
    /\ CallerGoto(c, "running", "settle")
    /\ UNCHANGED <<monitorVars, threadVars, outside, cellVars, call, goal, calls, rrcMutex>>

\* run_cell_search and run_sfn_sync return.
WaitStateNext(c) ==
    /\ curState = nextState
    /\ CallerGoto(c, "settle",
          IF goal[c] = "CELL_SEARCH" /\ searchRet = "CELL_FOUND" THEN "reconf" ELSE "unlock")
    /\ outside' = None
    /\ UNCHANGED <<monitorVars, threadVars, cellVars, call, goal, calls, rrcMutex>>

\* cell_search and cell_create set the cell; cell_select zeroes the pool and sets the
\* cell, which builds it again, only when the new cell is another one.
SetCell(c) ==
    CASE call[c] = "search" /\ goal[c] = "IDLE" -> UNCHANGED pool
      [] call[c] = "select" -> pool' \in {"unset", "built"}
      [] OTHER -> pool' = "built"

\* Fault: cell selection asks for CAMPING straight away.
ReconfiguredSkipsSfn(c) ==
    /\ CallerGoto(c, "reconf", "ask")
    /\ goal' = [goal EXCEPT ![c] =
          IF call[c] = "search" /\ @ = "IDLE" THEN "CELL_SEARCH" ELSE "CAMPING"]
    /\ SetCell(c)
    /\ UNCHANGED <<monitorVars, threadVars, outside, slMaster, call, calls, rrcMutex>>

\* Fault: rrc_mutex covers the reconfiguration only, not the wait for its outcome.
ReconfiguredUnlocks(c) ==
    /\ CallerGoto(c, "reconf", "ask")
    /\ goal' = [goal EXCEPT ![c] =
          IF call[c] = "search" /\ @ = "IDLE" THEN "CELL_SEARCH" ELSE "SFN_SYNC"]
    /\ rrcMutex' = FALSE
    /\ SetCell(c)
    /\ UNCHANGED <<monitorVars, threadVars, outside, slMaster, call, calls>>

\* Frequency, cell, sampling rate, worker reset are done: ask for the next state.
Reconfigured(c) ==
    /\ CallerGoto(c, "reconf", "ask")
    /\ goal' = [goal EXCEPT ![c] =
          IF call[c] = "search" /\ @ = "IDLE" THEN "CELL_SEARCH" ELSE "SFN_SYNC"]
    /\ call[c] = "search" /\ goal[c] = "IDLE" => TRUE \in EarfcnListed
    /\ slMaster' = (slMaster \/ call[c] = "create")
    /\ SetCell(c)
    /\ UNCHANGED <<monitorVars, threadVars, outside, call, calls, rrcMutex>>

\* set_cell (or, in cell_select, set_frequency) failed, before or after it built the pool.
ReconfigureFails(c) ==
    /\ ~(call[c] = "search" /\ goal[c] = "IDLE")
    /\ CallerGoto(c, "reconf", "unlock")
    /\ pool' \in {"built", IF pool = "none" \/ call[c] = "select" THEN "unset" ELSE pool}
    /\ UNCHANGED <<monitorVars, threadVars, outside, slMaster, call, goal, calls, rrcMutex>>

\* cell_search on a bad EARFCN index returns and leaves rrc_mutex locked.
BadEarfcn(c) ==
    /\ FALSE \in EarfcnListed
    /\ call[c] = "search" /\ goal[c] = "IDLE"
    /\ CallerGoto(c, "reconf", "none")
    /\ UNCHANGED <<monitorVars, threadVars, outside, cellVars, call, goal, calls, rrcMutex>>

\* cell_create unlocks by hand and then once more in the destructor of its unique_lock.
Unlock(c) ==
    /\ CallerGoto(c, "unlock", IF call[c] = "create" THEN "unlock2" ELSE "none")
         \/ CallerGoto(c, "unlock2", "none")
    /\ rrcMutex' = FALSE
    /\ UNCHANGED <<monitorVars, threadVars, outside, cellVars, call, goal, calls>>

-----------------------------------------------------------------------------
MainStep ==
    \/ RunState
    \/ \E ret \in SearchRet : CellSearch(ret)
    \/ SfnSync \/ SfnSyncGoesOn
    \/ Subframe
    \/ TryLock
    \/ OverflowBlock

CallerStep(c) ==
    \/ Lock(c) \/ Ask(c) \/ Granted(c) \/ WaitStateRun(c) \/ WaitStateNext(c)
    \/ Reconfigured(c) \/ ReconfigureFails(c) \/ BadEarfcn(c) \/ Unlock(c)

Next ==
    \/ MainStep
    \/ RadioOverflow
    \/ \E c \in Caller : CallerStep(c) \/ \E f \in Api : Call(c, f)

Spec == Init /\ [][Next]_vars

\* Both sides run; a mutex that is released again and again is obtained.  SFN
\* synchronisation has a timeout, so it does not go on for ever.
Fairness ==
    /\ WF_vars(MainStep) /\ SF_vars(SfnSync)
    /\ \A c \in Caller : WF_vars(CallerStep(c)) /\ SF_vars(Lock(c))

FairSpec == Spec /\ Fairness

\* In addition the sidelink signal is there, so SFN synchronisation succeeds in the end.
SignalSpec == FairSpec /\ SF_vars(SfnSync /\ nextState' = "CAMPING")

-----------------------------------------------------------------------------
TypeOK ==
    /\ curState \in State /\ nextState \in State
    /\ stateSetting \in BOOLEAN /\ stateRunning \in BOOLEAN
    /\ outside \in Caller \cup {None}
    /\ rrcMutex \in BOOLEAN
    /\ mpc \in {"loop", "act", "ovf", "block"}
    /\ searchRet \in SearchRet
    /\ slMaster \in BOOLEAN /\ pool \in Pool
    /\ overflow \in BOOLEAN /\ overflowReturn \in BOOLEAN
    /\ apc \in [Caller -> CallerPC]
    /\ call \in [Caller -> Api]
    /\ goal \in [Caller -> {"IDLE", "CELL_SEARCH", "SFN_SYNC"}]
    /\ calls \in 0 .. MaxCalls

\* "any change of state variables such as cell configuration, MIB decoder, etc. must be
\* done while the SYNC thread is in IDLE" (sync.cc:184), and it stays there meanwhile.
ReconfigInIdle ==
    \A c \in Caller : apc[c] = "reconf" => curState = "IDLE" /\ nextState = "IDLE"

\* "cell_search() and cell_select() functions can not be called concurrently" (sync.cc:201).
OneCallAtATime ==
    Cardinality({c \in Caller : apc[c] \notin {"none", "lock", "unlock2"}}) <= 1

\* The functions "wait for result then return the result to the higher layers" (sync.cc:187).
CallReturns == \A c \in Caller : apc[c] = "lock" ~> apc[c] = "none"

\* Workers run only in CAMPING and SERVING, and what they run starts with a look into the
\* subframe table of the resource pool.  cell_select "synchronizes to a new cell [...] or
\* re-synchronizes with the current cell" (sync.cc:288): either way the pool is there.
PoolWhileWorking == curState \in {"CAMPING", "SERVING"} => pool = "built"

\* A master keeps serving: no overflow and no late request takes it out of SERVING.
ServingStays == [][curState = "SERVING" => curState' = "SERVING"]_vars

\* "If CAMPING, go through SFN sync again and when SFN is found again go back to camping":
\* an overflow does not stay pending for ever, although the block that handles it runs
\* only in the loops in which try_lock fails.
OverflowRecovers == overflow ~> ~overflow
-----------------------------------------------------------------------------
(* Why ReconfigInIdle and OneCallAtATime hold with a GNSS clock and without *)
(* cell_create: the state machine is at rest whenever nobody steers it.     *)

Busy == CallerPC \ {"none", "lock", "unlock2"}

Resting == ~stateSetting /\ curState = nextState /\ curState \in {"IDLE", "CAMPING"}

Idle == Resting /\ curState = "IDLE"

\* Where state g may lead.
Outcome(g) == IF g = "SFN_SYNC" THEN {"IDLE", "CAMPING"} ELSE {"IDLE"}

\* The thread is in state g; it has announced the end of g.
Under(g) == curState = g /\ nextState = g /\ stateRunning

Left(g) ==
    /\ ~stateRunning
    /\ nextState \in Outcome(g)
    /\ curState = nextState \/ (curState = g /\ mpc # "act")

\* What a caller knows of the state machine at each of its steps.
Phase(c) ==
    LET g == goal[c] IN
    /\ apc[c] = "lock" => g = "IDLE"
    /\ apc[c] = "ask" => IF g = "IDLE" THEN Resting ELSE Idle
    /\ apc[c] = "granted" /\ stateSetting => nextState = g /\ curState \in {"IDLE", "CAMPING"}
    /\ apc[c] = "granted" /\ ~stateSetting => IF g = "IDLE" THEN Idle ELSE Under(g) \/ Left(g)
    /\ apc[c] = "running" => ~stateSetting /\ g # "IDLE" /\ (Under(g) \/ Left(g))
    /\ apc[c] = "settle" => ~stateSetting /\ g # "IDLE" /\ Left(g)
    /\ apc[c] = "reconf" => Idle
    /\ apc[c] = "unlock" => Resting

\* rrc_mutex is held by the one caller that is past rrc_mutex.lock().
Exclusion ==
    /\ \A c \in Caller : apc[c] \in Busy => rrcMutex
    /\ \A c, d \in Caller : apc[c] \in Busy /\ apc[d] \in Busy => c = d

\* No overflow block, no master.
SlaveGnss == mpc # "block" /\ ~slMaster /\ \A c \in Caller : apc[c] # "unlock2"

SyncInv ==
    /\ TypeOK /\ SlaveGnss /\ Exclusion
    /\ (\A c \in Caller : apc[c] \notin Busy) => Resting
    /\ \A c \in Caller : Phase(c)
===============================================================================
