---------------------------- MODULE SyncStateProofs ----------------------------
(***************************************************************************)
(* Safety of the synchronisation state machine for any number of calling   *)
(* threads and any number of calls: the types always, mutual exclusion and *)
(* reconfiguration in IDLE when the clock comes from GNSS and nobody is    *)
(* inside cell_create; without GNSS both fail (run sync_mutex and the      *)
(* configuration SyncState_resync).  Then a master: it keeps serving.      *)
(***************************************************************************)
EXTENDS SyncState, FiniteSetTheorems, TLAPS

\* All variables start out well-typed.
LEMMA InitTypes == Init => TypeOK
<1> SUFFICES ASSUME Init PROVE TypeOK
  OBVIOUS
<1>1. calls \in 0 .. MaxCalls
  BY SyncStateAssumption DEF Init
<1>2. /\ apc \in [Caller -> CallerPC]
      /\ call \in [Caller -> Api]
      /\ goal \in [Caller -> {"IDLE", "CELL_SEARCH", "SFN_SYNC"}]
  BY DEF Init, CallerPC
<1>3. QED
  BY <1>1, <1>2 DEF Init, TypeOK, State, SearchRet, Pool

\* Every variable keeps its type, in every mode (sync.h sync_state, sync.cc).
THEOREM TypeCorrect == Spec => []TypeOK
<1>1. Init => TypeOK
  BY InitTypes
<1>2. TypeOK /\ [Next]_vars => TypeOK'
  <2> SUFFICES ASSUME TypeOK, [Next]_vars PROVE TypeOK'
    OBVIOUS
  <2> USE SyncStateAssumption DEF TypeOK, State, SearchRet, Pool, CallerPC, monitorVars, threadVars, callerVars, cellVars
  <2>1. CASE RunState
    BY <2>1 DEF MainGoto, RunState
  <2>2. CASE SfnSync
    <3>1. mpc' = "ovf" /\ UNCHANGED <<searchRet, overflow, overflowReturn, callerVars, rrcMutex>>
      BY <2>2 DEF SfnSync, MainGoto
    <3>2. curState' = curState /\ nextState' \in State /\ stateSetting' = stateSetting /\ stateRunning' \in BOOLEAN
      <4>1. CASE slMaster
        <5>1. nextState' = "SERVING" /\ UNCHANGED <<curState, stateSetting, stateRunning>>
          BY <2>2, <4>1 DEF SfnSync, ForceNext
        <5>2. QED
          BY <5>1
      <4>2. CASE ~slMaster
        <5>1. PICK ok \in BOOLEAN : StateExit(ok)
          BY <2>2, <4>2 DEF SfnSync
        <5>2. QED
          BY <5>1 DEF StateExit
      <4>3. QED
        BY <4>1, <4>2
    <3>3. QED
      BY <3>1, <3>2
  <2>3. CASE SfnSyncGoesOn
    BY <2>3 DEF MainGoto, SfnSyncGoesOn
  <2>4. CASE Subframe
    BY <2>4 DEF MainGoto, Subframe
  <2>5. CASE TryLock
    BY <2>5 DEF MainGoto, TryLock
  <2>6. CASE OverflowBlock
    <3>1. /\ mpc' = "loop" /\ rrcMutex' = FALSE
          /\ UNCHANGED <<searchRet, callerVars>>
      BY <2>6 DEF OverflowBlock, MainGoto
    <3>2. /\ curState' = curState /\ nextState' \in State
          /\ stateSetting' = stateSetting /\ stateRunning' = stateRunning
          /\ overflow' \in BOOLEAN /\ overflowReturn' \in BOOLEAN
      <4>1. CASE overflow /\ overflowReturn /\ curState = "CAMPING"
        BY <2>6, <4>1 DEF OverflowBlock, HandleOverflow
      <4>2. CASE overflow /\ overflowReturn /\ curState = "IDLE"
        <5>1. ForceNext("SFN_SYNC") /\ UNCHANGED <<overflow, overflowReturn>>
          BY <2>6, <4>2 DEF OverflowBlock, HandleOverflow
        <5>2. nextState' = "SFN_SYNC" /\ UNCHANGED <<curState, stateSetting, stateRunning>>
          BY <5>1 DEF ForceNext
        <5>3. QED
          BY <5>1, <5>2
      <4>3. CASE overflow /\ overflowReturn /\ curState \notin {"CAMPING", "IDLE"}
        BY <2>6, <4>3 DEF OverflowBlock, HandleOverflow
      <4>4. CASE overflow /\ ~overflowReturn /\ curState = "CAMPING"
        <5>1. ForceNext("SFN_SYNC") /\ overflowReturn' = TRUE /\ overflow' = overflow
          BY <2>6, <4>4 DEF OverflowBlock, HandleOverflow
        <5>2. nextState' = "SFN_SYNC" /\ UNCHANGED <<curState, stateSetting, stateRunning>>
          BY <5>1 DEF ForceNext
        <5>3. QED
          BY <5>1, <5>2
      <4>5. CASE overflow /\ ~overflowReturn /\ curState # "CAMPING"
        BY <2>6, <4>5 DEF OverflowBlock, HandleOverflow
      <4>6. CASE ~overflow
        BY <2>6, <4>6 DEF OverflowBlock
      <4>7. QED
        BY <4>1, <4>2, <4>3, <4>4, <4>5, <4>6
    <3>3. QED
      BY <3>1, <3>2
  <2>7. CASE RadioOverflow
    BY <2>7 DEF RadioOverflow
  <2>8. ASSUME NEW ret \in SearchRet, CellSearch(ret) PROVE TypeOK'
    BY <2>8 DEF MainGoto, CellSearch, StateExit
  <2>9. ASSUME NEW k \in Caller, NEW f \in Api, Call(k, f) PROVE TypeOK'
    BY <2>9 DEF CallerGoto, Call
  <2>10. ASSUME NEW k \in Caller, Lock(k) PROVE TypeOK'
    BY <2>10 DEF CallerGoto, Lock
  <2>11. ASSUME NEW k \in Caller, Ask(k) PROVE TypeOK'
    BY <2>11 DEF CallerGoto, Ask
  <2>12. ASSUME NEW k \in Caller, Granted(k) PROVE TypeOK'
    BY <2>12 DEF CallerGoto, Granted
  <2>13. ASSUME NEW k \in Caller, WaitStateRun(k) PROVE TypeOK'
    BY <2>13 DEF CallerGoto, WaitStateRun
  <2>14. ASSUME NEW k \in Caller, WaitStateNext(k) PROVE TypeOK'
    BY <2>14 DEF CallerGoto, WaitStateNext
  <2>15. ASSUME NEW k \in Caller, Reconfigured(k) PROVE TypeOK'
    BY <2>15 DEF CallerGoto, Reconfigured, SetCell
  <2>16. ASSUME NEW k \in Caller, ReconfigureFails(k) PROVE TypeOK'
    BY <2>16 DEF CallerGoto, ReconfigureFails
  <2>17. ASSUME NEW k \in Caller, BadEarfcn(k) PROVE TypeOK'
    BY <2>17 DEF CallerGoto, BadEarfcn
  <2>18. ASSUME NEW k \in Caller, Unlock(k) PROVE TypeOK'
    <3>1. rrcMutex' \in BOOLEAN /\ UNCHANGED <<monitorVars, threadVars, outside, cellVars, call, goal, calls>>
      BY <2>18 DEF Unlock
    <3>2. apc' \in [Caller -> CallerPC]
      BY <2>18 DEF Unlock, CallerGoto
    <3>3. QED
      BY <3>1, <3>2
  <2>19. CASE UNCHANGED vars
    BY <2>19 DEF vars
  <2>20. QED
    BY <2>1, <2>2, <2>3, <2>4, <2>5, <2>6, <2>7, <2>8, <2>9,
       <2>10, <2>11, <2>12, <2>13, <2>14, <2>15, <2>16, <2>17, <2>18, <2>19
       DEF Next, MainStep, CallerStep
<1>3. QED
  BY <1>1, <1>2, PTL DEF Spec

\* The overflow block, which alone unlocks a mutex it does not hold, is never entered.
LEMMA SlaveGnssStep ==
  ASSUME Gnss, "create" \notin Api, TypeOK, SlaveGnss, [Next]_vars
  PROVE  SlaveGnss'
<1> USE DEF TypeOK, SlaveGnss, monitorVars, threadVars, callerVars, cellVars
<1>1. CASE RunState
  BY <1>1 DEF MainGoto, RunState
<1>2. CASE SfnSync
  BY <1>2 DEF MainGoto, SfnSync, ForceNext, StateExit
<1>3. CASE SfnSyncGoesOn
  BY <1>3 DEF MainGoto, SfnSyncGoesOn
<1>4. CASE Subframe
  BY <1>4 DEF MainGoto, Subframe
<1>5. CASE TryLock
  BY <1>5 DEF MainGoto, TryLock
<1>6. CASE OverflowBlock
  BY <1>6 DEF MainGoto, OverflowBlock, HandleOverflow, ForceNext
<1>7. CASE RadioOverflow
  BY <1>7 DEF RadioOverflow
<1>8. ASSUME NEW ret \in SearchRet, CellSearch(ret) PROVE SlaveGnss'
  BY <1>8 DEF MainGoto, CellSearch, StateExit
<1>9. ASSUME NEW k \in Caller, NEW f \in Api, Call(k, f) PROVE SlaveGnss'
  BY <1>9 DEF CallerGoto, Call
<1>10. ASSUME NEW k \in Caller, Lock(k) PROVE SlaveGnss'
  BY <1>10 DEF CallerGoto, Lock
<1>11. ASSUME NEW k \in Caller, Ask(k) PROVE SlaveGnss'
  BY <1>11 DEF CallerGoto, Ask
<1>12. ASSUME NEW k \in Caller, Granted(k) PROVE SlaveGnss'
  BY <1>12 DEF CallerGoto, Granted
<1>13. ASSUME NEW k \in Caller, WaitStateRun(k) PROVE SlaveGnss'
  BY <1>13 DEF CallerGoto, WaitStateRun
<1>14. ASSUME NEW k \in Caller, WaitStateNext(k) PROVE SlaveGnss'
  BY <1>14 DEF CallerGoto, WaitStateNext
<1>15. ASSUME NEW k \in Caller, Reconfigured(k) PROVE SlaveGnss'
  BY <1>15 DEF CallerGoto, Reconfigured, SetCell
<1>16. ASSUME NEW k \in Caller, ReconfigureFails(k) PROVE SlaveGnss'
  BY <1>16 DEF CallerGoto, ReconfigureFails
<1>17. ASSUME NEW k \in Caller, BadEarfcn(k) PROVE SlaveGnss'
  BY <1>17 DEF CallerGoto, BadEarfcn
<1>18. ASSUME NEW k \in Caller, Unlock(k) PROVE SlaveGnss'
  BY <1>18 DEF CallerGoto, Unlock
<1>19. CASE UNCHANGED vars
  BY <1>19 DEF vars
<1>20. QED
  BY <1>1, <1>2, <1>3, <1>4, <1>5, <1>6, <1>7, <1>8, <1>9,
     <1>10, <1>11, <1>12, <1>13, <1>14, <1>15, <1>16, <1>17, <1>18, <1>19
     DEF Next, MainStep, CallerStep

\* The mutex keeps all callers but one before rrc_mutex.lock().
LEMMA ExclusionStep ==
  ASSUME Gnss, "create" \notin Api, TypeOK, SlaveGnss, Exclusion, [Next]_vars
  PROVE  Exclusion'
<1> USE DEF TypeOK, SlaveGnss, Exclusion, Busy, CallerPC, monitorVars, threadVars, callerVars, cellVars
<1>1. CASE RunState
  BY <1>1 DEF MainGoto, RunState
<1>2. CASE SfnSync
  BY <1>2 DEF MainGoto, SfnSync, ForceNext, StateExit
<1>3. CASE SfnSyncGoesOn
  BY <1>3 DEF MainGoto, SfnSyncGoesOn
<1>4. CASE Subframe
  BY <1>4 DEF MainGoto, Subframe
<1>5. CASE TryLock
  BY <1>5 DEF MainGoto, TryLock
<1>6. CASE OverflowBlock
  BY <1>6 DEF MainGoto, OverflowBlock, HandleOverflow, ForceNext
<1>7. CASE RadioOverflow
  BY <1>7 DEF RadioOverflow
<1>8. ASSUME NEW ret \in SearchRet, CellSearch(ret) PROVE Exclusion'
  BY <1>8 DEF MainGoto, CellSearch, StateExit
<1>9. ASSUME NEW k \in Caller, NEW f \in Api, Call(k, f) PROVE Exclusion'
  BY <1>9 DEF CallerGoto, Call
<1>10. ASSUME NEW k \in Caller, Lock(k) PROVE Exclusion'
  BY <1>10 DEF CallerGoto, Lock
<1>11. ASSUME NEW k \in Caller, Ask(k) PROVE Exclusion'
  BY <1>11 DEF CallerGoto, Ask
<1>12. ASSUME NEW k \in Caller, Granted(k) PROVE Exclusion'
  BY <1>12 DEF CallerGoto, Granted
<1>13. ASSUME NEW k \in Caller, WaitStateRun(k) PROVE Exclusion'
  BY <1>13 DEF CallerGoto, WaitStateRun
<1>14. ASSUME NEW k \in Caller, WaitStateNext(k) PROVE Exclusion'
  BY <1>14 DEF CallerGoto, WaitStateNext
<1>15. ASSUME NEW k \in Caller, Reconfigured(k) PROVE Exclusion'
  BY <1>15 DEF CallerGoto, Reconfigured, SetCell
<1>16. ASSUME NEW k \in Caller, ReconfigureFails(k) PROVE Exclusion'
  BY <1>16 DEF CallerGoto, ReconfigureFails
<1>17. ASSUME NEW k \in Caller, BadEarfcn(k) PROVE Exclusion'
  BY <1>17 DEF CallerGoto, BadEarfcn
<1>18. ASSUME NEW k \in Caller, Unlock(k) PROVE Exclusion'
  BY <1>18 DEF CallerGoto, Unlock
<1>19. CASE UNCHANGED vars
  BY <1>19 DEF vars
<1>20. QED
  BY <1>1, <1>2, <1>3, <1>4, <1>5, <1>6, <1>7, <1>8, <1>9,
     <1>10, <1>11, <1>12, <1>13, <1>14, <1>15, <1>16, <1>17, <1>18, <1>19
     DEF Next, MainStep, CallerStep

AtRest == (\A c \in Caller : apc[c] \notin Busy) => Resting

Guided == AtRest /\ \A c \in Caller : Phase(c)

\* Steps of the callers and of the sync thread keep what the busy caller relies on.
LEMMA PhaseStep ==
  ASSUME Gnss, TypeOK, TypeOK', SlaveGnss, SlaveGnss', Exclusion, Exclusion', Guided, [Next]_vars
  PROVE  Guided'
<1> USE DEF TypeOK, SlaveGnss, Exclusion, Busy, CallerPC, Guided, AtRest, Phase, Resting, Idle,
            Under, Left, Outcome, monitorVars, threadVars, callerVars, cellVars
<1>1. CASE RunState
  BY <1>1 DEF MainGoto, RunState
<1>2. CASE SfnSync
  BY <1>2 DEF MainGoto, SfnSync, ForceNext, StateExit
<1>3. CASE SfnSyncGoesOn
  BY <1>3 DEF MainGoto, SfnSyncGoesOn
<1>4. CASE Subframe
  BY <1>4 DEF MainGoto, Subframe
<1>5. CASE TryLock
  BY <1>5 DEF MainGoto, TryLock
<1>6. CASE OverflowBlock
  BY <1>6 DEF MainGoto, OverflowBlock, HandleOverflow, ForceNext
<1>7. CASE RadioOverflow
  BY <1>7 DEF RadioOverflow
<1>8. ASSUME NEW ret \in SearchRet, CellSearch(ret) PROVE Guided'
  BY <1>8 DEF MainGoto, CellSearch, StateExit
<1>9. ASSUME NEW k \in Caller, NEW f \in Api, Call(k, f) PROVE Guided'
  BY <1>9 DEF CallerGoto, Call
<1>10. ASSUME NEW k \in Caller, Lock(k) PROVE Guided'
  BY <1>10 DEF CallerGoto, Lock
<1>11. ASSUME NEW k \in Caller, Ask(k) PROVE Guided'
  BY <1>11 DEF CallerGoto, Ask
<1>12. ASSUME NEW k \in Caller, Granted(k) PROVE Guided'
  BY <1>12 DEF CallerGoto, Granted
<1>13. ASSUME NEW k \in Caller, WaitStateRun(k) PROVE Guided'
  BY <1>13 DEF CallerGoto, WaitStateRun
<1>14. ASSUME NEW k \in Caller, WaitStateNext(k) PROVE Guided'
  BY <1>14 DEF CallerGoto, WaitStateNext
<1>15. ASSUME NEW k \in Caller, Reconfigured(k) PROVE Guided'
  BY <1>15 DEF CallerGoto, Reconfigured, SetCell
<1>16. ASSUME NEW k \in Caller, ReconfigureFails(k) PROVE Guided'
  BY <1>16 DEF CallerGoto, ReconfigureFails
<1>17. ASSUME NEW k \in Caller, BadEarfcn(k) PROVE Guided'
  BY <1>17 DEF CallerGoto, BadEarfcn
<1>18. ASSUME NEW k \in Caller, Unlock(k) PROVE Guided'
  BY <1>18 DEF CallerGoto, Unlock
<1>19. CASE UNCHANGED vars
  BY <1>19 DEF vars
<1>20. QED
  BY <1>1, <1>2, <1>3, <1>4, <1>5, <1>6, <1>7, <1>8, <1>9,
     <1>10, <1>11, <1>12, <1>13, <1>14, <1>15, <1>16, <1>17, <1>18, <1>19
     DEF Next, MainStep, CallerStep

\* The inductive invariant.
THEOREM SyncInvariant == Gnss /\ "create" \notin Api /\ Spec => []SyncInv
<1> SUFFICES ASSUME Gnss, "create" \notin Api PROVE Spec => []SyncInv
  OBVIOUS
<1>1. Init => SyncInv
  <2> SUFFICES ASSUME Init PROVE SyncInv
    OBVIOUS
  <2>1. \A c \in Caller : apc[c] = "none" /\ goal[c] = "IDLE"
    BY DEF Init
  <2>2. Resting /\ SlaveGnss
    BY <2>1 DEF Init, Resting, SlaveGnss
  <2>3. Exclusion /\ \A c \in Caller : Phase(c)
    BY <2>1 DEF Exclusion, Busy, Phase
  <2>4. QED
    BY <2>2, <2>3, InitTypes DEF SyncInv
<1>2. TypeOK /\ TypeOK' /\ SyncInv /\ [Next]_vars => SyncInv'
  <2> SUFFICES ASSUME TypeOK, TypeOK', SyncInv, [Next]_vars PROVE SyncInv'
    OBVIOUS
  <2>1. SlaveGnss'
    BY SlaveGnssStep DEF SyncInv
  <2>2. Exclusion'
    BY ExclusionStep DEF SyncInv
  <2>3. Guided'
    BY <2>1, <2>2, PhaseStep DEF SyncInv, Guided, AtRest
  <2>4. QED
    BY <2>1, <2>2, <2>3 DEF SyncInv, Guided, AtRest
<1>3. QED
  BY <1>1, <1>2, TypeCorrect, PTL DEF Spec

\* cell_search and cell_select change the PHY's configuration only while the sync thread
\* is in IDLE and stays there (sync.cc:184).
THEOREM ReconfigInIdleHolds == Gnss /\ "create" \notin Api /\ Spec => []ReconfigInIdle
<1>1. SyncInv => ReconfigInIdle
  BY DEF SyncInv, Phase, Idle, Resting, ReconfigInIdle
<1>2. QED
  BY <1>1, SyncInvariant, PTL

\* cell_search and cell_select exclude each other from rrc_mutex.lock() to their return
\* (sync.cc:201).
THEOREM OneCallAtATimeHolds == Gnss /\ "create" \notin Api /\ Spec => []OneCallAtATime
<1>1. SyncInv => OneCallAtATime
  <2> SUFFICES ASSUME SyncInv PROVE OneCallAtATime
    OBVIOUS
  <2> DEFINE B == {c \in Caller : apc[c] \notin {"none", "lock", "unlock2"}}
  <2>1. \A c, d \in B : c = d
    BY DEF SyncInv, Exclusion, TypeOK, Busy
  <2>2. CASE B = {}
    <3>1. Cardinality(B) = 0
      BY <2>2, FS_EmptySet
    <3>2. QED
      BY <3>1 DEF OneCallAtATime
  <2>3. CASE B # {}
    <3>1. PICK c \in B : TRUE
      BY <2>3
    <3>2. B = {c}
      BY <2>1, <3>1
    <3>3. Cardinality(B) = 1
      BY <3>2, FS_Singleton
    <3>4. QED
      BY <3>3 DEF OneCallAtATime
  <2>4. QED
    BY <2>2, <2>3
<1>2. QED
  BY <1>1, SyncInvariant, PTL

-----------------------------------------------------------------------------
(* A master: why nothing takes it out of SERVING.                          *)

\* There is one calling thread, or the radio reports no overflow.
Undisturbed == (\A c, d \in Caller : c = d) \/ ~Overflows

\* d holds `outside' in run_sfn_sync, waiting for the end of a state that has none.
SteeredBy(d) ==
    /\ outside = d /\ goal[d] = "SFN_SYNC"
    /\ \/ apc[d] = "granted" /\ (stateSetting \/ stateRunning)
       \/ apc[d] = "running" /\ stateRunning

Steered == \E d \in Caller : SteeredBy(d)

\* cell_create was called, or still may be.
MasterSoon ==
    \/ slMaster \/ calls = 0
    \/ \E c \in Caller : call[c] = "create" /\ apc[c] \notin {"none", "unlock", "unlock2"}

HoldsOutside == \A c \in Caller : apc[c] \in {"granted", "running", "settle"} => outside = c

\* While SFN synchronisation is ahead of a master, somebody waits for it.
SyncSteered ==
    MasterSoon /\ (nextState = "SFN_SYNC" \/ (curState = "SFN_SYNC" /\ mpc = "act")) => Steered

\* SERVING is not left, because the caller that asked for it never gets on.
ServingSteered ==
    nextState = "SERVING" \/ curState = "SERVING" =>
        /\ slMaster /\ Steered
        /\ nextState = "SERVING"
        /\ curState = "SERVING" \/ (curState = "SFN_SYNC" /\ mpc # "act")

\* A master does not camp, so that an overflow does not send it to SFN_SYNC.
NoOverflowReturn ==
    /\ ~Overflows => ~overflow
    /\ (\A c, d \in Caller : c = d) /\ MasterSoon =>
          ~overflowReturn /\ curState # "CAMPING" /\ nextState # "CAMPING"

\* cell_create asks for SFN_SYNC only after it set the master; every call first asks for IDLE.
CreateFirst ==
    /\ calls = 0 => /\ \A c \in Caller : apc[c] = "none"
                    /\ curState = "IDLE" /\ nextState = "IDLE" /\ ~overflowReturn
    /\ slMaster => calls > 0
    /\ \A c \in Caller :
          /\ goal[c] = "SFN_SYNC" => apc[c] \notin {"lock", "reconf"}
          /\ call[c] = "create" /\ goal[c] = "SFN_SYNC" /\ apc[c] # "none" => slMaster

MasterInv == HoldsOutside /\ SyncSteered /\ ServingSteered /\ NoOverflowReturn /\ CreateFirst

\* `outside' is held through go_state and the waits after it.
LEMMA HoldsOutsideStep ==
  ASSUME TypeOK, HoldsOutside, [Next]_vars
  PROVE  HoldsOutside'
<1> USE SyncStateAssumption DEF TypeOK, CallerPC, monitorVars, threadVars, callerVars, cellVars, HoldsOutside
<1>1. CASE RunState
  BY <1>1 DEF MainGoto, RunState
<1>2. CASE SfnSync
  BY <1>2 DEF MainGoto, SfnSync, ForceNext, StateExit
<1>3. CASE SfnSyncGoesOn
  BY <1>3 DEF MainGoto, SfnSyncGoesOn
<1>4. CASE Subframe
  BY <1>4 DEF MainGoto, Subframe
<1>5. CASE TryLock
  BY <1>5 DEF MainGoto, TryLock
<1>6. CASE OverflowBlock
  BY <1>6 DEF MainGoto, OverflowBlock, HandleOverflow, ForceNext
<1>7. CASE RadioOverflow
  BY <1>7 DEF RadioOverflow
<1>8. ASSUME NEW ret \in SearchRet, CellSearch(ret) PROVE HoldsOutside'
  BY <1>8 DEF MainGoto, CellSearch, StateExit
<1>9. ASSUME NEW k \in Caller, NEW f \in Api, Call(k, f) PROVE HoldsOutside'
  BY <1>9 DEF CallerGoto, Call
<1>10. ASSUME NEW k \in Caller, Lock(k) PROVE HoldsOutside'
  BY <1>10 DEF CallerGoto, Lock
<1>11. ASSUME NEW k \in Caller, Ask(k) PROVE HoldsOutside'
  BY <1>11 DEF CallerGoto, Ask
<1>12. ASSUME NEW k \in Caller, Granted(k) PROVE HoldsOutside'
  BY <1>12 DEF CallerGoto, Granted
<1>13. ASSUME NEW k \in Caller, WaitStateRun(k) PROVE HoldsOutside'
  BY <1>13 DEF CallerGoto, WaitStateRun
<1>14. ASSUME NEW k \in Caller, WaitStateNext(k) PROVE HoldsOutside'
  BY <1>14 DEF CallerGoto, WaitStateNext
<1>15. ASSUME NEW k \in Caller, Reconfigured(k) PROVE HoldsOutside'
  BY <1>15 DEF CallerGoto, Reconfigured
<1>16. ASSUME NEW k \in Caller, ReconfigureFails(k) PROVE HoldsOutside'
  BY <1>16 DEF CallerGoto, ReconfigureFails
<1>17. ASSUME NEW k \in Caller, BadEarfcn(k) PROVE HoldsOutside'
  BY <1>17 DEF CallerGoto, BadEarfcn
<1>18. ASSUME NEW k \in Caller, Unlock(k) PROVE HoldsOutside'
  BY <1>18 DEF CallerGoto, Unlock
<1>19. CASE UNCHANGED vars
  BY <1>19 DEF vars
<1>20. QED
  BY <1>1, <1>2, <1>3, <1>4, <1>5, <1>6, <1>7, <1>8, <1>9,
     <1>10, <1>11, <1>12, <1>13, <1>14, <1>15, <1>16, <1>17, <1>18, <1>19
     DEF Next, MainStep, CallerStep

\* A call of cell_create is the first, and asks for SFN_SYNC as a master.
LEMMA CreateFirstStep ==
  ASSUME TypeOK, TypeOK', CreateFirst, ServingSteered, [Next]_vars
  PROVE  CreateFirst'
<1> USE SyncStateAssumption DEF TypeOK, CallerPC, monitorVars, threadVars, callerVars, cellVars, CreateFirst, ServingSteered
<1>1. CASE RunState
  BY <1>1 DEF MainGoto, RunState
<1>2. CASE SfnSync
  BY <1>2 DEF MainGoto, SfnSync, ForceNext, StateExit
<1>3. CASE SfnSyncGoesOn
  BY <1>3 DEF MainGoto, SfnSyncGoesOn
<1>4. CASE Subframe
  BY <1>4 DEF MainGoto, Subframe
<1>5. CASE TryLock
  BY <1>5 DEF MainGoto, TryLock
<1>6. CASE OverflowBlock
  BY <1>6 DEF MainGoto, OverflowBlock, HandleOverflow, ForceNext
<1>7. CASE RadioOverflow
  BY <1>7 DEF RadioOverflow
<1>8. ASSUME NEW ret \in SearchRet, CellSearch(ret) PROVE CreateFirst'
  BY <1>8 DEF MainGoto, CellSearch, StateExit
<1>9. ASSUME NEW k \in Caller, NEW f \in Api, Call(k, f) PROVE CreateFirst'
  BY <1>9 DEF CallerGoto, Call
<1>10. ASSUME NEW k \in Caller, Lock(k) PROVE CreateFirst'
  BY <1>10 DEF CallerGoto, Lock
<1>11. ASSUME NEW k \in Caller, Ask(k) PROVE CreateFirst'
  BY <1>11 DEF CallerGoto, Ask
<1>12. ASSUME NEW k \in Caller, Granted(k) PROVE CreateFirst'
  BY <1>12 DEF CallerGoto, Granted
<1>13. ASSUME NEW k \in Caller, WaitStateRun(k) PROVE CreateFirst'
  BY <1>13 DEF CallerGoto, WaitStateRun
<1>14. ASSUME NEW k \in Caller, WaitStateNext(k) PROVE CreateFirst'
  BY <1>14 DEF CallerGoto, WaitStateNext
<1>15. ASSUME NEW k \in Caller, Reconfigured(k) PROVE CreateFirst'
  <2>1. apc[k] = "reconf" /\ calls # 0 /\ calls' = calls /\ calls \in Nat /\ UNCHANGED call
    BY <1>15 DEF CallerGoto, Reconfigured
  <2>2. slMaster' = (slMaster \/ call[k] = "create")
    BY <1>15 DEF Reconfigured
  <2>3. ASSUME NEW c \in Caller, c # k PROVE apc'[c] = apc[c] /\ goal'[c] = goal[c]
    BY <1>15, <2>3 DEF CallerGoto, Reconfigured
  <2>4. apc'[k] = "ask"
    BY <1>15 DEF CallerGoto, Reconfigured
  <2>5. slMaster' <=> slMaster \/ call[k] = "create"
    BY <2>2
  <2>6. ASSUME NEW c \in Caller
        PROVE  /\ goal'[c] = "SFN_SYNC" => apc'[c] \notin {"lock", "reconf"}
               /\ call'[c] = "create" /\ goal'[c] = "SFN_SYNC" /\ apc'[c] # "none" => slMaster'
    <3>1. CASE c = k
      BY <2>1, <2>4, <2>5, <3>1
    <3>2. CASE c # k
      BY <2>1, <2>3, <2>5, <3>2
    <3>3. QED
      BY <3>1, <3>2
  <2>7. calls' # 0 /\ calls' > 0
    BY <2>1
  <2>8. QED
    BY <2>6, <2>7
<1>16. ASSUME NEW k \in Caller, ReconfigureFails(k) PROVE CreateFirst'
  BY <1>16 DEF CallerGoto, ReconfigureFails
<1>17. ASSUME NEW k \in Caller, BadEarfcn(k) PROVE CreateFirst'
  BY <1>17 DEF CallerGoto, BadEarfcn
<1>18. ASSUME NEW k \in Caller, Unlock(k) PROVE CreateFirst'
  BY <1>18 DEF CallerGoto, Unlock
<1>19. CASE UNCHANGED vars
  BY <1>19 DEF vars
<1>20. QED
  BY <1>1, <1>2, <1>3, <1>4, <1>5, <1>6, <1>7, <1>8, <1>9,
     <1>10, <1>11, <1>12, <1>13, <1>14, <1>15, <1>16, <1>17, <1>18, <1>19
     DEF Next, MainStep, CallerStep

\* Once it is settled that there is no master there will be none.
LEMMA MasterSoonStep ==
  ASSUME TypeOK, TypeOK', CreateFirst, [Next]_vars
  PROVE  MasterSoon' => MasterSoon
<1> USE SyncStateAssumption DEF TypeOK, CallerPC, monitorVars, threadVars, callerVars, cellVars, CreateFirst, MasterSoon
<1>1. CASE RunState
  BY <1>1 DEF MainGoto, RunState
<1>2. CASE SfnSync
  BY <1>2 DEF MainGoto, SfnSync, ForceNext, StateExit
<1>3. CASE SfnSyncGoesOn
  BY <1>3 DEF MainGoto, SfnSyncGoesOn
<1>4. CASE Subframe
  BY <1>4 DEF MainGoto, Subframe
<1>5. CASE TryLock
  BY <1>5 DEF MainGoto, TryLock
<1>6. CASE OverflowBlock
  BY <1>6 DEF MainGoto, OverflowBlock, HandleOverflow, ForceNext
<1>7. CASE RadioOverflow
  BY <1>7 DEF RadioOverflow
<1>8. ASSUME NEW ret \in SearchRet, CellSearch(ret) PROVE MasterSoon' => MasterSoon
  BY <1>8 DEF MainGoto, CellSearch, StateExit
<1>9. ASSUME NEW k \in Caller, NEW f \in Api, Call(k, f) PROVE MasterSoon' => MasterSoon
  BY <1>9 DEF CallerGoto, Call
<1>10. ASSUME NEW k \in Caller, Lock(k) PROVE MasterSoon' => MasterSoon
  BY <1>10 DEF CallerGoto, Lock
<1>11. ASSUME NEW k \in Caller, Ask(k) PROVE MasterSoon' => MasterSoon
  BY <1>11 DEF CallerGoto, Ask
<1>12. ASSUME NEW k \in Caller, Granted(k) PROVE MasterSoon' => MasterSoon
  BY <1>12 DEF CallerGoto, Granted
<1>13. ASSUME NEW k \in Caller, WaitStateRun(k) PROVE MasterSoon' => MasterSoon
  BY <1>13 DEF CallerGoto, WaitStateRun
<1>14. ASSUME NEW k \in Caller, WaitStateNext(k) PROVE MasterSoon' => MasterSoon
  BY <1>14 DEF CallerGoto, WaitStateNext
<1>15. ASSUME NEW k \in Caller, Reconfigured(k) PROVE MasterSoon' => MasterSoon
  BY <1>15 DEF CallerGoto, Reconfigured
<1>16. ASSUME NEW k \in Caller, ReconfigureFails(k) PROVE MasterSoon' => MasterSoon
  BY <1>16 DEF CallerGoto, ReconfigureFails
<1>17. ASSUME NEW k \in Caller, BadEarfcn(k) PROVE MasterSoon' => MasterSoon
  BY <1>17 DEF CallerGoto, BadEarfcn
<1>18. ASSUME NEW k \in Caller, Unlock(k) PROVE MasterSoon' => MasterSoon
  BY <1>18 DEF CallerGoto, Unlock
<1>19. CASE UNCHANGED vars
  BY <1>19 DEF vars
<1>20. QED
  BY <1>1, <1>2, <1>3, <1>4, <1>5, <1>6, <1>7, <1>8, <1>9,
     <1>10, <1>11, <1>12, <1>13, <1>14, <1>15, <1>16, <1>17, <1>18, <1>19
     DEF Next, MainStep, CallerStep

\* A master that is alone neither camps nor returns from an overflow.
LEMMA NoOverflowReturnStep ==
  ASSUME TypeOK, TypeOK', MasterInv, MasterSoon' => MasterSoon, HoldsOutside', CreateFirst', [Next]_vars
  PROVE  NoOverflowReturn'
<1> USE SyncStateAssumption DEF TypeOK, CallerPC, monitorVars, threadVars, callerVars, cellVars, MasterInv, HoldsOutside, SyncSteered, ServingSteered, NoOverflowReturn, CreateFirst, SteeredBy, Steered, MasterSoon
<1>1. CASE RunState
  BY <1>1 DEF MainGoto, RunState
<1>2. CASE SfnSync
  BY <1>2 DEF MainGoto, SfnSync, ForceNext, StateExit
<1>3. CASE SfnSyncGoesOn
  BY <1>3 DEF MainGoto, SfnSyncGoesOn
<1>4. CASE Subframe
  BY <1>4 DEF MainGoto, Subframe
<1>5. CASE TryLock
  BY <1>5 DEF MainGoto, TryLock
<1>6. CASE OverflowBlock
  BY <1>6 DEF MainGoto, OverflowBlock, HandleOverflow, ForceNext
<1>7. CASE RadioOverflow
  BY <1>7 DEF RadioOverflow
<1>8. ASSUME NEW ret \in SearchRet, CellSearch(ret) PROVE NoOverflowReturn'
  BY <1>8 DEF MainGoto, CellSearch, StateExit
<1>9. ASSUME NEW k \in Caller, NEW f \in Api, Call(k, f) PROVE NoOverflowReturn'
  BY <1>9 DEF CallerGoto, Call
<1>10. ASSUME NEW k \in Caller, Lock(k) PROVE NoOverflowReturn'
  BY <1>10 DEF CallerGoto, Lock
<1>11. ASSUME NEW k \in Caller, Ask(k) PROVE NoOverflowReturn'
  BY <1>11 DEF CallerGoto, Ask
<1>12. ASSUME NEW k \in Caller, Granted(k) PROVE NoOverflowReturn'
  BY <1>12 DEF CallerGoto, Granted
<1>13. ASSUME NEW k \in Caller, WaitStateRun(k) PROVE NoOverflowReturn'
  BY <1>13 DEF CallerGoto, WaitStateRun
<1>14. ASSUME NEW k \in Caller, WaitStateNext(k) PROVE NoOverflowReturn'
  BY <1>14 DEF CallerGoto, WaitStateNext
<1>15. ASSUME NEW k \in Caller, Reconfigured(k) PROVE NoOverflowReturn'
  BY <1>15 DEF CallerGoto, Reconfigured
<1>16. ASSUME NEW k \in Caller, ReconfigureFails(k) PROVE NoOverflowReturn'
  BY <1>16 DEF CallerGoto, ReconfigureFails
<1>17. ASSUME NEW k \in Caller, BadEarfcn(k) PROVE NoOverflowReturn'
  BY <1>17 DEF CallerGoto, BadEarfcn
<1>18. ASSUME NEW k \in Caller, Unlock(k) PROVE NoOverflowReturn'
  BY <1>18 DEF CallerGoto, Unlock
<1>19. CASE UNCHANGED vars
  BY <1>19 DEF vars
<1>20. QED
  BY <1>1, <1>2, <1>3, <1>4, <1>5, <1>6, <1>7, <1>8, <1>9,
     <1>10, <1>11, <1>12, <1>13, <1>14, <1>15, <1>16, <1>17, <1>18, <1>19
     DEF Next, MainStep, CallerStep

\* A master is in SFN_SYNC only with a caller waiting.
LEMMA SyncSteeredStep ==
  ASSUME Undisturbed, TypeOK, TypeOK', MasterInv, MasterSoon' => MasterSoon, HoldsOutside', CreateFirst', [Next]_vars
  PROVE  SyncSteered'
<1> USE SyncStateAssumption DEF TypeOK, CallerPC, monitorVars, threadVars, callerVars, cellVars, MasterInv, Undisturbed, HoldsOutside, SyncSteered, ServingSteered, NoOverflowReturn, CreateFirst, SteeredBy, Steered
<1>1. CASE RunState
  BY <1>1 DEF MainGoto, RunState
<1>2. CASE SfnSync
  BY <1>2 DEF MainGoto, SfnSync, ForceNext, StateExit
<1>3. CASE SfnSyncGoesOn
  BY <1>3 DEF MainGoto, SfnSyncGoesOn
<1>4. CASE Subframe
  BY <1>4 DEF MainGoto, Subframe
<1>5. CASE TryLock
  BY <1>5 DEF MainGoto, TryLock
<1>6. CASE OverflowBlock
  BY <1>6 DEF MainGoto, OverflowBlock, HandleOverflow, ForceNext
<1>7. CASE RadioOverflow
  BY <1>7 DEF RadioOverflow
<1>8. ASSUME NEW ret \in SearchRet, CellSearch(ret) PROVE SyncSteered'
  BY <1>8 DEF MainGoto, CellSearch, StateExit
<1>9. ASSUME NEW k \in Caller, NEW f \in Api, Call(k, f) PROVE SyncSteered'
  BY <1>9 DEF CallerGoto, Call
<1>10. ASSUME NEW k \in Caller, Lock(k) PROVE SyncSteered'
  BY <1>10 DEF CallerGoto, Lock
<1>11. ASSUME NEW k \in Caller, Ask(k) PROVE SyncSteered'
  BY <1>11 DEF CallerGoto, Ask
<1>12. ASSUME NEW k \in Caller, Granted(k) PROVE SyncSteered'
  BY <1>12 DEF CallerGoto, Granted
<1>13. ASSUME NEW k \in Caller, WaitStateRun(k) PROVE SyncSteered'
  BY <1>13 DEF CallerGoto, WaitStateRun
<1>14. ASSUME NEW k \in Caller, WaitStateNext(k) PROVE SyncSteered'
  BY <1>14 DEF CallerGoto, WaitStateNext
<1>15. ASSUME NEW k \in Caller, Reconfigured(k) PROVE SyncSteered'
  BY <1>15 DEF CallerGoto, Reconfigured
<1>16. ASSUME NEW k \in Caller, ReconfigureFails(k) PROVE SyncSteered'
  BY <1>16 DEF CallerGoto, ReconfigureFails
<1>17. ASSUME NEW k \in Caller, BadEarfcn(k) PROVE SyncSteered'
  BY <1>17 DEF CallerGoto, BadEarfcn
<1>18. ASSUME NEW k \in Caller, Unlock(k) PROVE SyncSteered'
  BY <1>18 DEF CallerGoto, Unlock
<1>19. CASE UNCHANGED vars
  BY <1>19 DEF vars
<1>20. QED
  BY <1>1, <1>2, <1>3, <1>4, <1>5, <1>6, <1>7, <1>8, <1>9,
     <1>10, <1>11, <1>12, <1>13, <1>14, <1>15, <1>16, <1>17, <1>18, <1>19
     DEF Next, MainStep, CallerStep

\* A master that serves is not asked for another state.
LEMMA ServingSteeredStep ==
  ASSUME Undisturbed, TypeOK, TypeOK', MasterInv, MasterSoon' => MasterSoon, HoldsOutside', CreateFirst', [Next]_vars
  PROVE  ServingSteered'
<1> USE SyncStateAssumption DEF TypeOK, CallerPC, monitorVars, threadVars, callerVars, cellVars, MasterInv, Undisturbed, HoldsOutside, SyncSteered, ServingSteered, NoOverflowReturn, CreateFirst, SteeredBy, Steered, MasterSoon
<1>1. CASE RunState
  BY <1>1 DEF MainGoto, RunState
<1>2. CASE SfnSync
  BY <1>2 DEF MainGoto, SfnSync, ForceNext, StateExit
<1>3. CASE SfnSyncGoesOn
  BY <1>3 DEF MainGoto, SfnSyncGoesOn
<1>4. CASE Subframe
  BY <1>4 DEF MainGoto, Subframe
<1>5. CASE TryLock
  BY <1>5 DEF MainGoto, TryLock
<1>6. CASE OverflowBlock
  BY <1>6 DEF MainGoto, OverflowBlock, HandleOverflow, ForceNext
<1>7. CASE RadioOverflow
  BY <1>7 DEF RadioOverflow
<1>8. ASSUME NEW ret \in SearchRet, CellSearch(ret) PROVE ServingSteered'
  BY <1>8 DEF MainGoto, CellSearch, StateExit
<1>9. ASSUME NEW k \in Caller, NEW f \in Api, Call(k, f) PROVE ServingSteered'
  BY <1>9 DEF CallerGoto, Call
<1>10. ASSUME NEW k \in Caller, Lock(k) PROVE ServingSteered'
  BY <1>10 DEF CallerGoto, Lock
<1>11. ASSUME NEW k \in Caller, Ask(k) PROVE ServingSteered'
  BY <1>11 DEF CallerGoto, Ask
<1>12. ASSUME NEW k \in Caller, Granted(k) PROVE ServingSteered'
  BY <1>12 DEF CallerGoto, Granted
<1>13. ASSUME NEW k \in Caller, WaitStateRun(k) PROVE ServingSteered'
  BY <1>13 DEF CallerGoto, WaitStateRun
<1>14. ASSUME NEW k \in Caller, WaitStateNext(k) PROVE ServingSteered'
  BY <1>14 DEF CallerGoto, WaitStateNext
<1>15. ASSUME NEW k \in Caller, Reconfigured(k) PROVE ServingSteered'
  BY <1>15 DEF CallerGoto, Reconfigured
<1>16. ASSUME NEW k \in Caller, ReconfigureFails(k) PROVE ServingSteered'
  BY <1>16 DEF CallerGoto, ReconfigureFails
<1>17. ASSUME NEW k \in Caller, BadEarfcn(k) PROVE ServingSteered'
  BY <1>17 DEF CallerGoto, BadEarfcn
<1>18. ASSUME NEW k \in Caller, Unlock(k) PROVE ServingSteered'
  BY <1>18 DEF CallerGoto, Unlock
<1>19. CASE UNCHANGED vars
  BY <1>19 DEF vars
<1>20. QED
  BY <1>1, <1>2, <1>3, <1>4, <1>5, <1>6, <1>7, <1>8, <1>9,
     <1>10, <1>11, <1>12, <1>13, <1>14, <1>15, <1>16, <1>17, <1>18, <1>19
     DEF Next, MainStep, CallerStep

\* The inductive invariant of a master.
THEOREM MasterInvariant == Undisturbed /\ Spec => []MasterInv
<1> SUFFICES ASSUME Undisturbed PROVE Spec => []MasterInv
  OBVIOUS
<1>1. Init => MasterInv
  BY DEF Init, MasterInv, HoldsOutside, SyncSteered, ServingSteered, NoOverflowReturn, CreateFirst
<1>2. TypeOK /\ TypeOK' /\ MasterInv /\ [Next]_vars => MasterInv'
  <2> SUFFICES ASSUME TypeOK, TypeOK', MasterInv, [Next]_vars PROVE MasterInv'
    OBVIOUS
  <2>1. HoldsOutside'
    BY HoldsOutsideStep DEF MasterInv
  <2>2. CreateFirst'
    BY CreateFirstStep DEF MasterInv
  <2>3. MasterSoon' => MasterSoon
    BY MasterSoonStep DEF MasterInv
  <2>4. NoOverflowReturn'
    BY <2>1, <2>2, <2>3, NoOverflowReturnStep
  <2>5. SyncSteered'
    BY <2>1, <2>2, <2>3, SyncSteeredStep
  <2>6. ServingSteered'
    BY <2>1, <2>2, <2>3, ServingSteeredStep
  <2>7. QED
    BY <2>1, <2>2, <2>4, <2>5, <2>6 DEF MasterInv
<1>3. QED
  BY <1>1, <1>2, TypeCorrect, PTL DEF Spec

\* A master stays in SERVING whatever its callers do, with one calling thread also whatever
\* the radio does (sfn_sync's force_sfn_sync, the overflow block of run_thread in sync.cc).
THEOREM ServingStaysHolds == Undisturbed /\ Spec => ServingStays
<1>1. MasterInv /\ [Next]_vars => [curState = "SERVING" => curState' = "SERVING"]_vars
  <2> SUFFICES ASSUME MasterInv, [Next]_vars, curState = "SERVING" PROVE curState' = "SERVING"
    OBVIOUS
  <2>1. nextState = "SERVING"
    BY DEF MasterInv, ServingSteered
  <2>2. QED
    BY <2>1 DEF Next, MainStep, CallerStep, vars, monitorVars, threadVars, callerVars, MainGoto, CallerGoto,
       RunState, CellSearch, SfnSync, SfnSyncGoesOn, Subframe, TryLock, OverflowBlock, HandleOverflow,
       RadioOverflow, StateExit, ForceNext, Call, Lock, Ask, Granted, WaitStateRun, WaitStateNext,
       Reconfigured, ReconfigureFails, BadEarfcn, Unlock
<1>2. QED
  BY <1>1, MasterInvariant, PTL DEF Spec, ServingStays
===============================================================================
