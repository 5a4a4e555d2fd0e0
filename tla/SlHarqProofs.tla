----------------------------- MODULE SlHarqProofs -----------------------------
(***************************************************************************)
(* The types of the blind HARQ entities for any pool and, as long as the   *)
(* index of the subframes does not wrap at the end of the pool and blocks  *)
(* keep their size, the timing of second transmissions and what the        *)
(* receiver combines them with.                                            *)
(***************************************************************************)
EXTENDS SlHarq, Integers, TLAPS

TxProcesses == [SidelinkId -> [0 .. MaxHarqProc - 1 -> TxProcess]]
OnAir == [tb : Block, rti : {0, 1}, tbs : Tbs \cup {0}]

\* The receiver's turn comes only in a subframe that was begun.
TurnInRun == phase = "rx" => now < Horizon

\* The index of a subframe is its place in the pool (srslte_repo_get_t_SL_k).
LEMMA IndexInPool == TypeOK => tSL \in Nat /\ tSL < PoolSize
  BY SlHarqAssumption DEF TypeOK, tSL

\* Every process number that is computed is that of a process.
LEMMA PidsExist ==
    ASSUME TypeOK
    PROVE  /\ tSL % MaxHarqProc \in 0 .. MaxHarqProc - 1
           /\ NewTxPid \in 0 .. MaxHarqProc - 1
           /\ \A rti \in {0, 1} : RxPid(rti) \in 0 .. RxProc - 1
  BY IndexInPool, SlHarqAssumption DEF NewTxPid, RxPid, MaxHarqProc, RxProc, SlGap

\* The blocks that occur in the model.
LEMMA BlocksExist ==
    ASSUME TypeOK, NEW u \in SidelinkId
    PROVE  <<u, now>> \in Block /\ NoTb \in Block
  BY SlHarqAssumption DEF TypeOK, Block, NoTb

\* ul_harq_process::new_grant_ul.
LEMMA NewTxType ==
    ASSUME TypeOK, NEW u \in SidelinkId, NEW pid \in 0 .. MaxHarqProc - 1, NEW tbs \in Tbs,
           NEW hasPdu \in BOOLEAN, NewTx(u, pid, tbs, hasPdu)
    PROVE  txp' \in TxProcesses /\ air' \in OnAir
<1>1. (IF hasPdu THEN [tx_nb |-> 1, tb |-> <<u, now>>, tbs |-> tbs] ELSE FreshTx) \in TxProcess
  BY BlocksExist DEF TxProcess, FreshTx
<1>2. (IF hasPdu THEN [tb |-> <<u, now>>, rti |-> 0, tbs |-> tbs] ELSE Silence) \in OnAir
  BY BlocksExist DEF OnAir, Silence
<1>3. QED
  BY <1>1, <1>2 DEF NewTx, TypeOK, TxProcesses

\* ul_harq_process::generate_tx.
LEMMA ReTxType ==
    ASSUME TypeOK, NEW u \in SidelinkId, NEW pid \in 0 .. MaxHarqProc - 1, NEW tbs \in Tbs,
           txp[u][pid].tx_nb = 1, ReTx(u, pid, tbs)
    PROVE  txp' \in TxProcesses /\ air' \in OnAir
<1>1. [FreshTx EXCEPT !.tx_nb = txp[u][pid].tx_nb + 1] \in TxProcess
  <2>1. [FreshTx EXCEPT !.tx_nb = txp[u][pid].tx_nb + 1] = [tx_nb |-> 2, tb |-> NoTb, tbs |-> 0]
    BY DEF FreshTx
  <2>2. NoTb \in Block
    BY BlocksExist
  <2>3. QED
    BY <2>1, <2>2 DEF TxProcess
<1>2. txp[u][pid].tb \in Block
  BY DEF TypeOK, TxProcess
<1>3. air' \in OnAir
  BY <1>2 DEF ReTx, OnAir
<1>4. txp' \in TxProcesses
  BY <1>1 DEF ReTx, TypeOK, TxProcesses
<1>5. QED
  BY <1>3, <1>4

\* new_grant_ul of the entity, whichever process it chooses.
LEMMA TransmitType ==
    ASSUME TypeOK, NEW u \in SidelinkId, NEW tbs \in Tbs, NEW hasPdu \in BOOLEAN, Transmit(u, tbs, hasPdu)
    PROVE  txp' \in TxProcesses /\ air' \in OnAir
  BY NewTxType, ReTxType, PidsExist DEF Transmit

\* dl_tb_process: what is saved with a grant.
LEMMA SavedType ==
    ASSUME TypeOK, NEW p \in RxProcess, NEW ok \in BOOLEAN
    PROVE  Saved(p, air, ok) \in RxProcess
<1>1. tSL \in 0 .. PoolSize - 1
  BY IndexInPool, SlHarqAssumption
<1>2. air.tbs \in Tbs \cup {0} /\ air.tb \in Block
  BY DEF TypeOK
<1>3. QED
  BY <1>1, <1>2 DEF Saved, RxProcess

\* One subframe keeps the types of both sides (ul_harq.cc, dl_harq.cc, cc_worker.cc).
LEMMA TypeStep == TypeOK /\ TurnInRun /\ [Next]_vars => TypeOK' /\ TurnInRun'
<1> SUFFICES ASSUME TypeOK, TurnInRun, [Next]_vars PROVE TypeOK' /\ TurnInRun'
  OBVIOUS
<1> USE SlHarqAssumption
<1>1. ASSUME NEW u \in SidelinkId, NEW tbs \in Tbs, NEW hasPdu \in BOOLEAN, Transmit(u, tbs, hasPdu)
      PROVE  TypeOK' /\ TurnInRun'
  BY <1>1, TransmitType DEF Transmit, TypeOK, TurnInRun, TxProcesses, OnAir
<1>2. CASE NobodyTransmits
  BY <1>2 DEF NobodyTransmits, TypeOK, TurnInRun
<1>3. ASSUME Tick, phase = "rx", rxp' \in [0 .. RxProc - 1 -> RxProcess], delivered' \subseteq Block
      PROVE  TypeOK' /\ TurnInRun'
  <2>1. Silence \in OnAir
    BY DEF Silence, OnAir, Block, NoTb, TypeOK
  <2>2. QED
    BY <1>3, <2>1 DEF Tick, TypeOK, TurnInRun, OnAir
<1>4. CASE Miss
  BY <1>3, <1>4 DEF Miss, TypeOK
<1>5. ASSUME NEW ok \in BOOLEAN, Receive(ok) PROVE TypeOK' /\ TurnInRun'
  <2> DEFINE pid == RxPid(air.rti)
  <2>1. pid \in 0 .. RxProc - 1 /\ rxp[pid] \in RxProcess /\ air.tb \in Block
    BY PidsExist DEF TypeOK
  <2>2. rxp' \in [0 .. RxProc - 1 -> RxProcess] /\ delivered' \subseteq Block
    BY <1>5, <2>1, SavedType DEF Receive, TypeOK
  <2>3. QED
    BY <1>3, <1>5, <2>2 DEF Receive
<1>6. CASE UNCHANGED vars
  BY <1>6 DEF vars, TypeOK, TurnInRun
<1>7. QED
  BY <1>1, <1>2, <1>4, <1>5, <1>6 DEF Next, Finished

\* The types hold when the vehicles start.
LEMMA TypeInit == Init => TypeOK /\ TurnInRun
<1> SUFFICES ASSUME Init PROVE TypeOK /\ TurnInRun
  OBVIOUS
<1>1. FreshTx \in TxProcess /\ FreshRx \in RxProcess /\ Silence \in OnAir
  BY SlHarqAssumption
     DEF FreshTx, TxProcess, FreshRx, RxProcess, Silence, OnAir, Block, NoTb, SlGap
<1>2. QED
  BY <1>1, SlHarqAssumption DEF Init, TypeOK, TurnInRun, OnAir

\* Both HARQ entities index existing processes with blocks and grants that exist.
THEOREM TypeCorrect == Spec => []TypeOK
<1>1. Spec => [](TypeOK /\ TurnInRun)
  BY TypeInit, TypeStep, PTL DEF Spec
<1>2. QED
  BY <1>1, PTL

-----------------------------------------------------------------------------
\* The subframes considered end before the index wraps; a pool leaves out the
\* synchronisation subframes and so is shorter than 10240 by more than the gap.
NoWrap == Start + Horizon <= PoolSize /\ PoolSize + SlGap <= 10240

\* The size setting does not change.
OneSize == \A a, b \in Tbs : a = b

\* A block that owes its second transmission is kept in the process of the subframe
\* SlGap later, which its owner will be given as well, and that subframe is yet to come.
Scheduled(u, p) ==
    txp[u][p].tx_nb = 1 =>
        LET made == txp[u][p].tb[2]
        IN /\ txp[u][p].tbs \in Tbs
           /\ made \in 0 .. now
           /\ (Start + made + SlGap) % MaxHarqProc = p
           /\ (Start + made) % 5 = u
           /\ phase = "tx" => made < now /\ now <= made + SlGap
           /\ phase = "rx" => now < made + SlGap

SchedInv ==
    /\ TypeOK /\ TurnInRun
    /\ phase = "tx" => air = Silence
    /\ \A u \in SidelinkId, p \in 0 .. MaxHarqProc - 1 : Scheduled(u, p)
    /\ RetxAfterGap

\* Without a wrap the arithmetic of the code is that of the subframes themselves.
LEMMA IndexWithoutWrap ==
    ASSUME TypeOK, NoWrap, now < Horizon
    PROVE  /\ tSL = Start + now
           /\ NewTxPid = (Start + now + SlGap) % MaxHarqProc
<1>1. Start + now \in Nat /\ Start + now < PoolSize /\ Start + now + SlGap < 10240
  BY SlHarqAssumption DEF TypeOK, NoWrap, SlGap
<1>2. QED
  BY <1>1, SlHarqAssumption DEF tSL, NewTxPid, SlGap, MaxHarqProc

\* A subframe in which u transmits: either it repeats the block that is due, in time, or
\* it makes a new one, due a gap later.
LEMMA SchedTransmit ==
    ASSUME SchedInv, NoWrap, OneSize,
           NEW u \in SidelinkId, NEW tbs \in Tbs, NEW hasPdu \in BOOLEAN, Transmit(u, tbs, hasPdu)
    PROVE  RetxAfterGap' /\ \A v \in SidelinkId, p \in 0 .. MaxHarqProc - 1 : Scheduled(v, p)'
<1> USE SlHarqAssumption
<1> DEFINE pid == tSL % MaxHarqProc
<1>1. /\ now < Horizon /\ phase = "tx" /\ phase' = "rx" /\ now' = now /\ now \in Nat /\ Start \in Nat
      /\ tSL = Start + now /\ u = (Start + now) % 5 /\ pid = (Start + now) % MaxHarqProc
      /\ NewTxPid = (Start + now + SlGap) % MaxHarqProc
      /\ pid \in 0 .. MaxHarqProc - 1 /\ NewTxPid \in 0 .. MaxHarqProc - 1
  BY IndexWithoutWrap, PidsExist DEF SchedInv, TypeOK, Transmit, Owns
<1>2. /\ txp \in TxProcesses
      /\ \A v \in SidelinkId, p \in 0 .. MaxHarqProc - 1 : Scheduled(v, p)
  BY DEF SchedInv, TypeOK, TxProcesses
<1>3. ASSUME NEW v \in SidelinkId, NEW p \in 0 .. MaxHarqProc - 1, txp[v][p].tx_nb = 1,
             v # u \/ p # pid
      PROVE  now < txp[v][p].tb[2] + SlGap
  <2> DEFINE made == txp[v][p].tb[2]
  <2>1. /\ made \in Nat /\ made < now /\ now <= made + SlGap
        /\ (Start + made + SlGap) % MaxHarqProc = p /\ (Start + made) % 5 = v
    BY <1>1, <1>2, <1>3 DEF Scheduled
  <2>2. ASSUME now = made + SlGap PROVE FALSE
    <3>1. p = pid
      BY <1>1, <2>1, <2>2 DEF SlGap
    <3>2. v = u
      BY <1>1, <2>1, <2>2 DEF SlGap
    <3>3. QED
      BY <1>3, <3>1, <3>2
  <2>3. QED
    BY <1>1, <2>1, <2>2 DEF SlGap
<1>4. CASE txp[u][pid].tx_nb = 1
  <2> DEFINE made == txp[u][pid].tb[2]
  <2>1. /\ txp[u][pid].tbs = tbs
        /\ made \in Nat /\ made <= now /\ now <= made + SlGap
        /\ (Start + made + SlGap) % MaxHarqProc = (Start + now) % MaxHarqProc
    <3>1. Scheduled(u, pid)
      BY <1>1, <1>2
    <3>2. txp[u][pid].tbs \in Tbs /\ made \in 0 .. now /\ (Start + made + SlGap) % MaxHarqProc = pid
          /\ now <= made + SlGap
      BY <1>1, <1>4, <3>1 DEF Scheduled
    <3>3. txp[u][pid].tbs = tbs
      BY <3>2 DEF OneSize
    <3>4. made \in Nat /\ made <= now
      <4> HIDE DEF made
      <4>1. QED
        BY <1>1, <3>2
    <3>5. QED
      BY <1>1, <3>2, <3>3, <3>4
  <2>2. now = made + SlGap
    <3> HIDE DEF made
    <3>1. QED
      BY <1>1, <2>1 DEF SlGap, MaxHarqProc
  <2>3. ReTx(u, pid, tbs)
    BY <1>4, <2>1 DEF Transmit
  <2>4. RetxAfterGap'
    BY <1>1, <2>2, <2>3 DEF ReTx, RetxAfterGap
  <2>5. ASSUME NEW v \in SidelinkId, NEW p \in 0 .. MaxHarqProc - 1 PROVE Scheduled(v, p)'
    <3>1. CASE v = u /\ p = pid
      <4>1. txp'[v][p] = [FreshTx EXCEPT !.tx_nb = txp[u][pid].tx_nb + 1]
        BY <1>1, <1>2, <2>3, <3>1 DEF ReTx, TxProcesses
      <4>2. txp'[v][p].tx_nb = 2
        BY <1>4, <4>1 DEF FreshTx
      <4>3. QED
        BY <4>2 DEF Scheduled
    <3>2. CASE v # u \/ p # pid
      <4>1. txp'[v][p] = txp[v][p]
        BY <1>1, <1>2, <2>3, <3>2 DEF ReTx, TxProcesses
      <4>2. QED
        BY <1>1, <1>2, <1>3, <3>2, <4>1 DEF Scheduled
    <3>3. QED
      BY <3>1, <3>2
  <2>6. QED
    BY <2>4, <2>5
<1>5. CASE txp[u][pid].tx_nb # 1
  <2>1. NewTx(u, NewTxPid, tbs, hasPdu)
    BY <1>5 DEF Transmit
  <2>2. RetxAfterGap'
    BY <2>1 DEF NewTx, RetxAfterGap, Silence
  <2>3. ASSUME NEW v \in SidelinkId, NEW p \in 0 .. MaxHarqProc - 1 PROVE Scheduled(v, p)'
    <3>1. CASE v = u /\ p = NewTxPid
      <4>1. txp'[v][p] = IF hasPdu THEN [tx_nb |-> 1, tb |-> <<u, now>>, tbs |-> tbs] ELSE FreshTx
        BY <1>1, <1>2, <2>1, <3>1 DEF NewTx, TxProcesses
      <4>2. CASE hasPdu
        <5>1. txp'[v][p].tbs = tbs /\ txp'[v][p].tb[2] = now
          BY <4>1, <4>2
        <5>2. QED
          BY <1>1, <3>1, <5>1 DEF Scheduled, SlGap
      <4>3. CASE ~hasPdu
        BY <3>1, <4>1, <4>3 DEF Scheduled, FreshTx
      <4>4. QED
        BY <4>2, <4>3
    <3>2. CASE v # u \/ p # NewTxPid
      <4>1. txp'[v][p] = txp[v][p]
        BY <1>1, <1>2, <2>1, <3>2 DEF NewTx, TxProcesses
      <4>2. txp[v][p].tx_nb = 1 => v # u \/ p # pid
        BY <1>5
      <4>3. QED
        BY <1>1, <1>2, <1>3, <4>1, <4>2 DEF Scheduled
    <3>3. QED
      BY <3>1, <3>2
  <2>4. QED
    BY <2>2, <2>3
<1>6. QED
  BY <1>4, <1>5

\* A subframe in which nobody transmits is nobody's: nothing was due in it.
LEMMA SchedNobody ==
    ASSUME SchedInv, NoWrap, NobodyTransmits
    PROVE  RetxAfterGap' /\ \A v \in SidelinkId, p \in 0 .. MaxHarqProc - 1 : Scheduled(v, p)'
<1> USE SlHarqAssumption
<1>1. /\ phase = "tx" /\ phase' = "rx" /\ UNCHANGED <<now, air, txp>> /\ now \in Nat /\ Start \in Nat
      /\ \A v \in SidelinkId : ~(Start + now > 0 /\ v = (Start + now) % 5)
  BY IndexWithoutWrap DEF SchedInv, TypeOK, NobodyTransmits, Owns
<1>2. ASSUME NEW v \in SidelinkId, NEW p \in 0 .. MaxHarqProc - 1, txp[v][p].tx_nb = 1
      PROVE  Scheduled(v, p)'
  <2> DEFINE made == txp[v][p].tb[2]
  <2>1. /\ txp[v][p].tbs \in Tbs
        /\ made \in 0 .. now /\ made < now /\ now <= made + SlGap
        /\ (Start + made + SlGap) % MaxHarqProc = p /\ (Start + made) % 5 = v
    BY <1>1, <1>2 DEF SchedInv, Scheduled
  <2>2. now # made + SlGap
    BY <1>1, <2>1 DEF SlGap
  <2>3. QED
    BY <1>1, <2>1, <2>2 DEF Scheduled, SlGap
<1>3. QED
  BY <1>1, <1>2 DEF SchedInv, RetxAfterGap, Scheduled, Silence

\* The end of a subframe: nothing that is still due was due in it.
LEMMA SchedTick ==
    ASSUME SchedInv, phase = "rx", Tick
    PROVE  RetxAfterGap' /\ \A v \in SidelinkId, p \in 0 .. MaxHarqProc - 1 : Scheduled(v, p)'
<1>1. phase' = "tx" /\ now' = now + 1 /\ txp' = txp /\ now \in Nat
  BY DEF Tick, SchedInv, TypeOK
<1>2. RetxAfterGap'
  BY <1>1 DEF RetxAfterGap
<1>3. ASSUME NEW v \in SidelinkId, NEW p \in 0 .. MaxHarqProc - 1 PROVE Scheduled(v, p)'
  <2>1. Scheduled(v, p)
    BY DEF SchedInv
  <2>2. QED
    BY <1>1, <2>1 DEF Scheduled, SlGap
<1>4. QED
  BY <1>2, <1>3

\* The schedule is kept by every step of the sender and the receiver.
LEMMA SchedStep == NoWrap /\ OneSize /\ SchedInv /\ [Next]_vars => SchedInv'
<1> SUFFICES ASSUME NoWrap, OneSize, SchedInv, [Next]_vars PROVE SchedInv'
  OBVIOUS
<1> DEFINE Kept == RetxAfterGap' /\ \A v \in SidelinkId, p \in 0 .. MaxHarqProc - 1 : Scheduled(v, p)'
<1>1. TypeOK' /\ TurnInRun'
  BY TypeStep DEF SchedInv
<1>2. ASSUME NEW u \in SidelinkId, NEW tbs \in Tbs, NEW hasPdu \in BOOLEAN, Transmit(u, tbs, hasPdu)
      PROVE  Kept /\ phase' = "rx"
  BY <1>2, SchedTransmit DEF Transmit
<1>3. CASE NobodyTransmits
  <2>1. Kept /\ phase' = "rx"
    BY <1>3, SchedNobody DEF NobodyTransmits
  <2>2. QED
    BY <1>1, <2>1 DEF SchedInv
<1>4. ASSUME Miss \/ \E ok \in BOOLEAN : Receive(ok) PROVE Kept /\ air' = Silence
  BY <1>4, SchedTick DEF Miss, Receive, Tick
<1>5. CASE UNCHANGED vars
  <2>1. RetxAfterGap' /\ (phase' = "tx" => air' = Silence)
    BY <1>5 DEF SchedInv, RetxAfterGap, vars
  <2>2. ASSUME NEW v \in SidelinkId, NEW p \in 0 .. MaxHarqProc - 1 PROVE Scheduled(v, p)'
    <3>1. Scheduled(v, p)
      BY DEF SchedInv
    <3>2. QED
      BY <1>5, <3>1 DEF Scheduled, vars
  <2>3. QED
    BY <1>1, <2>1, <2>2 DEF SchedInv
<1>6. ASSUME NEW u \in SidelinkId, NEW tbs \in Tbs, NEW hasPdu \in BOOLEAN, Transmit(u, tbs, hasPdu)
      PROVE  SchedInv'
  BY <1>1, <1>2, <1>6 DEF SchedInv
<1>7. CASE Miss \/ \E ok \in BOOLEAN : Receive(ok)
  BY <1>1, <1>4, <1>7 DEF SchedInv
<1>8. QED
  BY <1>3, <1>5, <1>6, <1>7 DEF Next, Finished

\* At the start nothing is due.
LEMMA SchedInit == Init => SchedInv
<1> SUFFICES ASSUME Init PROVE SchedInv
  OBVIOUS
<1>1. TypeOK /\ TurnInRun
  BY TypeInit
<1>2. \A v \in SidelinkId, p \in 0 .. MaxHarqProc - 1 : txp[v][p].tx_nb = 0
  BY DEF Init, FreshTx
<1>3. QED
  BY <1>1, <1>2 DEF Init, SchedInv, Scheduled, RetxAfterGap

\* For any number of vehicles, any pool and any start, while the size stays the same and
\* the index does not wrap: a block is repeated exactly the announced gap later
\* (ul_harq.cc:148), whatever was sent or left empty in between.
THEOREM RetxAfterGapHolds == ASSUME NoWrap, OneSize PROVE Spec => []RetxAfterGap
<1>1. SchedInv /\ [Next]_vars => SchedInv'
  BY SchedStep
<1>2. SchedInv => RetxAfterGap
  BY DEF SchedInv
<1>3. QED
  BY <1>1, <1>2, SchedInit, PTL DEF Spec

\* Under the same assumptions no block misses the subframe of its repetition: the sender
\* owns that subframe and looks at the process in which the block waits.
THEOREM NoneOverdueHolds == ASSUME NoWrap, OneSize PROVE Spec => []NoneOverdue
<1>1. SchedInv /\ [Next]_vars => SchedInv'
  BY SchedStep
<1>2. SchedInv => NoneOverdue
  BY DEF SchedInv, Scheduled, NoneOverdue
<1>3. QED
  BY <1>1, <1>2, SchedInit, PTL DEF Spec

-----------------------------------------------------------------------------
(* What the receiver remembers of a block, as long as it may come again.   *)

\* The process of the subframe m holds the grant of that subframe, and decoded it.
AckedAt(m) ==
    LET p == rxp[(Start + m) % RxProc]
    IN  p.sl_gap = SlGap /\ p.sl_tti = Start + m /\ p.ack

\* Whatever was saved in the subframe of a block is its redundancy, and the block counts as
\* decoded where it was delivered.
Remembered(b) ==
    /\ \A p \in 0 .. RxProc - 1 :
          rxp[p].sl_gap = SlGap /\ rxp[p].sl_tti = Start + b[2] => rxp[p].soft = b
    /\ b[2] < now => (b \in delivered <=> AckedAt(b[2]))

\* What was saved and delivered belongs to subframes that are past.
Past ==
    /\ \A p \in 0 .. RxProc - 1 :
          IF rxp[p].sl_gap = SlGap THEN rxp[p].sl_tti < Start + now /\ rxp[p].tbs \in Tbs
                                   ELSE rxp[p].tbs = 0
    /\ \A b \in delivered : b[2] < now

\* What is on the air: the block of this subframe, or one that is remembered.
OnAirKnown ==
    phase = "rx" /\ air # Silence =>
        /\ air.tbs \in Tbs
        /\ IF air.rti = 0 THEN air.tb[2] = now ELSE Remembered(air.tb)

\* What is owed: the block on the air, or one that is remembered.
OwedKnown ==
    \A u \in SidelinkId, q \in 0 .. MaxHarqProc - 1 :
        txp[u][q].tx_nb = 1 =>
            /\ Remembered(txp[u][q].tb)
            /\ txp[u][q].tb[2] = now => air.tb = txp[u][q].tb /\ air.rti = 0

BlockInv == SchedInv /\ Past /\ OnAirKnown /\ OwedKnown

\* A block that was never on the air is not remembered for another.
LEMMA NewRemembered ==
    ASSUME BlockInv, NEW b, b[2] = now
    PROVE  Remembered(b)
<1>1. now \in Nat /\ Start \in Nat
  BY SlHarqAssumption DEF BlockInv, SchedInv, TypeOK
<1>2. ~(b[2] < now)
  BY <1>1
<1>3. ASSUME NEW p \in 0 .. RxProc - 1, rxp[p].sl_gap = SlGap PROVE rxp[p].sl_tti # Start + b[2]
  <2>1. rxp[p].sl_tti < Start + now /\ rxp[p].sl_tti \in Nat
    BY <1>3 DEF BlockInv, SchedInv, Past, TypeOK, RxProcess
  <2>2. QED
    BY <1>1, <2>1
<1>4. QED
  BY <1>2, <1>3 DEF Remembered

\* ul_harq_entity::new_grant_ul: the receiver remembers what is sent again, and nothing of
\* what is new.
LEMMA BlockTransmit ==
    ASSUME BlockInv, NoWrap, OneSize,
           NEW u \in SidelinkId, NEW tbs \in Tbs, NEW hasPdu \in BOOLEAN, Transmit(u, tbs, hasPdu)
    PROVE  Past' /\ OnAirKnown' /\ OwedKnown'
<1> DEFINE pid == tSL % MaxHarqProc
<1>1. /\ phase = "tx" /\ phase' = "rx" /\ UNCHANGED <<now, rxp, delivered>> /\ now \in Nat
      /\ pid \in 0 .. MaxHarqProc - 1 /\ NewTxPid \in 0 .. MaxHarqProc - 1
      /\ txp \in TxProcesses
  BY PidsExist DEF BlockInv, SchedInv, TypeOK, TxProcesses, Transmit
<1>2. Past'
  BY <1>1 DEF Past, BlockInv
<1>3. \A b : Remembered(b)' <=> Remembered(b)
  BY <1>1 DEF Remembered, AckedAt
<1>4. ASSUME NEW v \in SidelinkId, NEW q \in 0 .. MaxHarqProc - 1, txp[v][q].tx_nb = 1
      PROVE  Remembered(txp[v][q].tb) /\ txp[v][q].tb[2] # now
  <2>1. Scheduled(v, q)
    BY DEF BlockInv, SchedInv
  <2>2. txp[v][q].tb[2] \in Nat /\ txp[v][q].tb[2] < now
    BY <1>1, <1>4, <2>1 DEF Scheduled
  <2>3. QED
    BY <1>1, <1>4, <2>2 DEF BlockInv, OwedKnown
<1>5. CASE txp[u][pid].tx_nb = 1
  <2>1. ReTx(u, pid, tbs)
    <3>1. Scheduled(u, pid)
      BY <1>1 DEF BlockInv, SchedInv
    <3>2. txp[u][pid].tbs = tbs
      BY <1>5, <3>1 DEF Scheduled, OneSize
    <3>3. QED
      BY <1>5, <3>2 DEF Transmit
  <2>2. air' = [tb |-> txp[u][pid].tb, rti |-> 1, tbs |-> tbs]
    BY <2>1 DEF ReTx
  <2>3. OnAirKnown'
    BY <1>1, <1>3, <1>4, <1>5, <2>2 DEF OnAirKnown
  <2>4. ASSUME NEW v \in SidelinkId, NEW q \in 0 .. MaxHarqProc - 1, txp'[v][q].tx_nb = 1
        PROVE  txp'[v][q] = txp[v][q]
    <3>1. CASE v = u /\ q = pid
      <4>1. txp'[v][q] = [FreshTx EXCEPT !.tx_nb = txp[u][pid].tx_nb + 1]
        BY <1>1, <2>1, <3>1 DEF ReTx, TxProcesses
      <4>2. txp'[v][q].tx_nb = 2
        BY <1>5, <4>1 DEF FreshTx
      <4>3. QED
        BY <2>4, <4>2
    <3>2. CASE v # u \/ q # pid
      BY <1>1, <2>1, <3>2 DEF ReTx, TxProcesses
    <3>3. QED
      BY <3>1, <3>2
  <2>5. OwedKnown'
    BY <1>1, <1>3, <1>4, <2>4 DEF OwedKnown
  <2>6. QED
    BY <1>2, <2>3, <2>5
<1>6. CASE txp[u][pid].tx_nb # 1
  <2>1. NewTx(u, NewTxPid, tbs, hasPdu)
    BY <1>6 DEF Transmit
  <2>2. air' = IF hasPdu THEN [tb |-> <<u, now>>, rti |-> 0, tbs |-> tbs] ELSE Silence
    BY <2>1 DEF NewTx
  <2>3. OnAirKnown'
    BY <1>1, <2>2 DEF OnAirKnown
  <2>4. ASSUME NEW v \in SidelinkId, NEW q \in 0 .. MaxHarqProc - 1, txp'[v][q].tx_nb = 1
        PROVE  /\ Remembered(txp[v][q].tb)'
               /\ txp'[v][q].tb[2] = now => air'.tb = txp'[v][q].tb /\ air'.rti = 0
    <3>1. CASE v = u /\ q = NewTxPid
      <4>1. txp'[v][q] = IF hasPdu THEN [tx_nb |-> 1, tb |-> <<u, now>>, tbs |-> tbs] ELSE FreshTx
        BY <1>1, <2>1, <3>1 DEF NewTx, TxProcesses
      <4>2. hasPdu /\ txp'[v][q].tb = <<u, now>>
        BY <2>4, <4>1 DEF FreshTx
      <4>3. Remembered(<<u, now>>)
        BY NewRemembered
      <4>4. QED
        BY <1>3, <2>2, <4>2, <4>3
    <3>2. CASE v # u \/ q # NewTxPid
      <4>1. txp'[v][q] = txp[v][q]
        BY <1>1, <2>1, <3>2 DEF NewTx, TxProcesses
      <4>2. QED
        BY <1>3, <1>4, <2>4, <4>1
    <3>3. QED
      BY <3>1, <3>2
  <2>5. OwedKnown'
    BY <1>1, <2>4 DEF OwedKnown
  <2>6. QED
    BY <1>2, <2>3, <2>5
<1>7. QED
  BY <1>5, <1>6

\* The end of a subframe in which no grant was saved: nothing was decoded, or the block was
\* known already.
LEMMA BlockNothingSaved ==
    ASSUME BlockInv, phase = "rx", Tick, rxp' = rxp, delivered' \in {delivered, delivered \cap InFlight}
    PROVE  Past' /\ OnAirKnown' /\ OwedKnown'
<1>1. /\ phase = "rx" /\ phase' = "tx" /\ now' = now + 1 /\ UNCHANGED <<rxp, txp>>
      /\ delivered' \in {delivered, delivered \cap InFlight} /\ now \in Nat /\ Start \in Nat
  BY SlHarqAssumption DEF Tick, BlockInv, SchedInv, TypeOK
<1>2. /\ rxp \in [0 .. RxProc - 1 -> RxProcess] /\ delivered \subseteq Block
      /\ \A v \in SidelinkId, q \in 0 .. MaxHarqProc - 1 :
            txp[v][q].tx_nb = 1 => txp[v][q].tb[2] \in 0 .. now
  BY DEF BlockInv, SchedInv, TypeOK, Scheduled
<1>3. Past'
  <2>1. \A p \in 0 .. RxProc - 1 : rxp[p].sl_tti \in Nat
    BY <1>2 DEF RxProcess
  <2>2. \A b \in delivered : b[2] \in Nat
    BY <1>2 DEF Block
  <2>3. QED
    BY <1>1, <2>1, <2>2 DEF Past, BlockInv
<1>4. OnAirKnown'
  BY <1>1 DEF OnAirKnown
<1>5. ASSUME NEW v \in SidelinkId, NEW q \in 0 .. MaxHarqProc - 1, txp[v][q].tx_nb = 1
      PROVE  Remembered(txp[v][q].tb)' /\ txp[v][q].tb[2] # now'
  <2>1. PICK b : b = txp[v][q].tb /\ Remembered(b) /\ b \in InFlight /\ b[2] \in Nat /\ b[2] <= now
    BY <1>1, <1>2, <1>5 DEF BlockInv, OwedKnown, InFlight
  <2>2. b \in delivered' <=> b \in delivered
    BY <1>1, <2>1
  <2>3. AckedAt(b[2])' <=> AckedAt(b[2])
    BY <1>1 DEF AckedAt
  <2>4. b[2] = now => b \notin delivered /\ ~AckedAt(b[2])
    <3>1. ASSUME b[2] = now, AckedAt(b[2]) PROVE FALSE
      <4>1. (Start + now) % RxProc \in 0 .. RxProc - 1
        BY <1>1 DEF RxProc
      <4>2. rxp[(Start + now) % RxProc].sl_tti < Start + now
        BY <3>1, <4>1 DEF BlockInv, Past, AckedAt
      <4>3. QED
        BY <1>1, <3>1, <4>2 DEF AckedAt
    <3>2. b[2] = now => b \notin delivered
      BY <1>1 DEF BlockInv, Past
    <3>3. QED
      BY <3>1, <3>2
  <2>5. b \in delivered' <=> AckedAt(b[2])'
    BY <1>1, <2>1, <2>2, <2>3, <2>4 DEF Remembered
  <2>6. Remembered(b)'
    BY <1>1, <2>1, <2>5 DEF Remembered
  <2>7. QED
    BY <1>1, <2>1, <2>6
<1>6. OwedKnown'
  BY <1>1, <1>5 DEF OwedKnown
<1>7. QED
  BY <1>3, <1>4, <1>6

\* A block that is not the one in the air now was made in one of the four subframes before,
\* whose processes are not the one that is written.
LEMMA OtherProcess ==
    ASSUME BlockInv, NoWrap, phase = "rx", air # Silence
    PROVE  /\ tSL = Start + now /\ now \in Nat /\ Start \in Nat /\ air.tb[2] \in Nat
           /\ RxPid(air.rti) \in 0 .. RxProc - 1
           /\ RxPid(air.rti) = (Start + air.tb[2]) % RxProc
           /\ air.tb[2] = IF air.rti = 0 THEN now ELSE now - SlGap
           /\ \A k \in Nat : k < now /\ now < k + SlGap =>
                  (Start + k) % RxProc # RxPid(air.rti) /\ air.tb[2] # k
<1>1. /\ tSL = Start + now /\ now \in Nat /\ Start \in Nat /\ air.rti \in {0, 1} /\ air.tb[2] \in Nat
  BY IndexWithoutWrap, SlHarqAssumption DEF BlockInv, SchedInv, TypeOK, TurnInRun, Block
<1>2. RxPid(air.rti) \in 0 .. RxProc - 1
  BY PidsExist, <1>1 DEF BlockInv, SchedInv
<1>3. air.tb[2] = IF air.rti = 0 THEN now ELSE now - SlGap
  BY <1>1 DEF BlockInv, SchedInv, OnAirKnown, RetxAfterGap, SlGap
<1>4. CASE air.rti = 0
  <2>1. RxPid(air.rti) = (Start + now) % RxProc
    BY <1>1, <1>4 DEF RxPid, RxProc, SlGap
  <2>2. QED
    BY <1>1, <1>2, <1>3, <1>4, <2>1 DEF RxProc, SlGap
<1>5. CASE air.rti = 1
  <2>1. now = air.tb[2] + SlGap
    BY <1>1, <1>3, <1>5 DEF SlGap
  <2>2. RxPid(air.rti) = (Start + air.tb[2]) % RxProc
    BY <1>1, <1>5, <2>1 DEF RxPid, RxProc, SlGap
  <2>3. QED
    BY <1>1, <1>2, <1>3, <1>5, <2>1, <2>2 DEF RxProc, SlGap
<1>6. QED
  BY <1>1, <1>4, <1>5

\* dl_harq.cc:343: a process whose grant the retransmission follows holds that block.
LEMMA Combines ==
    ASSUME BlockInv, NoWrap, phase = "rx", air # Silence, ~Unrelated(rxp[RxPid(air.rti)], air)
    PROVE  /\ rxp[RxPid(air.rti)].soft = air.tb
           /\ rxp[RxPid(air.rti)].sl_gap = SlGap
           /\ rxp[RxPid(air.rti)].sl_tti = Start + air.tb[2]
           /\ air.rti = 1 /\ Remembered(air.tb)
<1> DEFINE pid == RxPid(air.rti)
<1>1. /\ tSL = Start + now /\ now \in Nat /\ Start \in Nat /\ pid \in 0 .. RxProc - 1
      /\ air.tb[2] = IF air.rti = 0 THEN now ELSE now - SlGap
  BY OtherProcess
<1>2. /\ air.rti = 1 /\ rxp[pid].tbs = air.tbs /\ rxp[pid].sl_tti + rxp[pid].sl_gap = tSL
      /\ rxp[pid].sl_tti \in Nat
  BY <1>1, SlHarqAssumption DEF Unrelated, BlockInv, SchedInv, TypeOK, RxProcess
<1>3. air.tbs \in Tbs /\ Remembered(air.tb)
  BY <1>2 DEF BlockInv, OnAirKnown
<1>4. rxp[pid].sl_gap = SlGap
  BY <1>1, <1>2, <1>3, SlHarqAssumption DEF BlockInv, Past
<1>5. rxp[pid].sl_tti = Start + air.tb[2]
  BY <1>1, <1>2, <1>4 DEF SlGap
<1>6. QED
  BY <1>1, <1>2, <1>3, <1>4, <1>5 DEF Remembered

\* new_grant_dl with decoding: the block received is remembered, those owed beside it are not
\* disturbed.
LEMMA BlockSaved ==
    ASSUME BlockInv, NoWrap, NEW ok \in BOOLEAN, Receive(ok), ~Duplicate(rxp[RxPid(air.rti)], air)
    PROVE  Past' /\ OnAirKnown' /\ OwedKnown'
<1> DEFINE pid == RxPid(air.rti)
           saved == Saved(rxp[pid], air, ok)
<1>1. /\ phase = "rx" /\ phase' = "tx" /\ now' = now + 1 /\ txp' = txp /\ air # Silence
      /\ rxp' = [rxp EXCEPT ![pid] = saved]
      /\ delivered' = (delivered \cup (IF ok THEN {air.tb} ELSE {})) \cap InFlight
  BY DEF Receive, Tick
<1>2. /\ tSL = Start + now /\ now \in Nat /\ Start \in Nat /\ pid \in 0 .. RxProc - 1
      /\ pid = (Start + air.tb[2]) % RxProc /\ air.tb[2] \in Nat
      /\ air.tb[2] = IF air.rti = 0 THEN now ELSE now - SlGap
      /\ \A k \in Nat : k < now /\ now < k + SlGap =>
             (Start + k) % RxProc # pid /\ air.tb[2] # k
  BY <1>1, OtherProcess
<1>3. /\ rxp \in [0 .. RxProc - 1 -> RxProcess] /\ delivered \subseteq Block
      /\ air.rti \in {0, 1} /\ air.tbs \in Tbs
  BY <1>1 DEF BlockInv, SchedInv, TypeOK, OnAirKnown
<1>4. /\ saved.sl_tti = Start + now /\ saved.sl_gap = SlGap /\ saved.tbs = air.tbs
      /\ saved.ack = ok /\ saved.soft = air.tb
  <2>1. ~Unrelated(rxp[pid], air) => rxp[pid].soft = air.tb
    BY <1>1, Combines
  <2>2. QED
    BY <1>2, <2>1 DEF Saved
<1>5. rxp'[pid] = saved /\ \A p \in 0 .. RxProc - 1 : p # pid => rxp'[p] = rxp[p]
  BY <1>1, <1>2, <1>3
<1> HIDE DEF pid, saved
<1>6. Past'
  <2>1. \A p \in 0 .. RxProc - 1 : rxp[p].sl_tti \in Nat
    BY <1>3 DEF RxProcess
  <2>2. ASSUME NEW p \in 0 .. RxProc - 1
        PROVE  IF rxp'[p].sl_gap = SlGap THEN rxp'[p].sl_tti < Start + now' /\ rxp'[p].tbs \in Tbs
                                         ELSE rxp'[p].tbs = 0
    BY <1>1, <1>2, <1>3, <1>4, <1>5, <2>1 DEF BlockInv, Past
  <2>3. ASSUME NEW b \in delivered' PROVE b[2] < now'
    <3>1. CASE b \in delivered
      BY <1>1, <1>2, <1>3, <3>1 DEF BlockInv, Past, Block
    <3>2. CASE b = air.tb
      BY <1>1, <1>2, <3>2 DEF SlGap
    <3>3. QED
      BY <1>1, <3>1, <3>2
  <2>4. QED
    BY <2>2, <2>3 DEF Past
<1>7. OnAirKnown'
  BY <1>1 DEF OnAirKnown
<1>8. ASSUME NEW v \in SidelinkId, NEW q \in 0 .. MaxHarqProc - 1, txp[v][q].tx_nb = 1
      PROVE  Remembered(txp[v][q].tb)' /\ txp[v][q].tb[2] # now'
  <2>1. PICK b : /\ b = txp[v][q].tb /\ Remembered(b) /\ b \in InFlight
                 /\ b[2] \in Nat /\ b[2] <= now /\ now < b[2] + SlGap
                 /\ b[2] = now => air.tb = b /\ air.rti = 0
    <3>1. Scheduled(v, q)
      BY DEF BlockInv, SchedInv
    <3>2. txp[v][q].tb[2] \in 0 .. now /\ now < txp[v][q].tb[2] + SlGap
      BY <1>1, <1>8, <3>1 DEF Scheduled
    <3>3. QED
      BY <1>2, <1>8, <3>2 DEF BlockInv, OwedKnown, InFlight
  <2>2. ASSUME NEW p \in 0 .. RxProc - 1, rxp'[p].sl_gap = SlGap, rxp'[p].sl_tti = Start + b[2]
        PROVE  rxp'[p].soft = b
    <3>1. CASE p = pid
      BY <1>2, <1>4, <1>5, <2>1, <2>2, <3>1
    <3>2. CASE p # pid
      BY <1>5, <2>1, <2>2, <3>2 DEF Remembered
    <3>3. QED
      BY <3>1, <3>2
  <2>3. b \in delivered' <=> AckedAt(b[2])'
    <3>1. CASE b[2] = now
      <4>1. b \notin delivered
        BY <1>2, <3>1 DEF BlockInv, Past
      <4>2. b \in delivered' <=> ok
        BY <1>1, <2>1, <3>1, <4>1
      <4>3. AckedAt(b[2])' <=> ok
        BY <1>2, <1>4, <1>5, <2>1, <3>1 DEF AckedAt
      <4>4. QED
        BY <4>2, <4>3
    <3>2. CASE b[2] # now
      <4>1. b[2] < now /\ (Start + b[2]) % RxProc # pid /\ air.tb[2] # b[2]
        BY <1>2, <2>1, <3>2
      <4>2. b \in delivered' <=> b \in delivered
        BY <1>1, <2>1, <4>1
      <4>3. (Start + b[2]) % RxProc \in 0 .. RxProc - 1
        <5>1. \A n \in Nat : n % 8 \in 0 .. 7
          OBVIOUS
        <5>2. Start + b[2] \in Nat
          BY <1>2, <2>1
        <5>3. QED
          BY <5>1, <5>2 DEF RxProc
      <4>4. AckedAt(b[2])' <=> AckedAt(b[2])
        BY <1>5, <4>1, <4>3 DEF AckedAt
      <4>5. QED
        BY <2>1, <4>1, <4>2, <4>4 DEF Remembered
    <3>3. QED
      BY <3>1, <3>2
  <2>4. Remembered(b)'
    BY <2>2, <2>3 DEF Remembered
  <2>5. QED
    BY <1>1, <1>2, <2>1, <2>4
<1>9. OwedKnown'
  BY <1>1, <1>8 DEF OwedKnown
<1>10. QED
  BY <1>6, <1>7, <1>9

\* Every step of the sender and the receiver keeps what is known of the blocks.
LEMMA BlockStep == NoWrap /\ OneSize /\ BlockInv /\ [Next]_vars => BlockInv'
<1> SUFFICES ASSUME NoWrap, OneSize, BlockInv, [Next]_vars PROVE BlockInv'
  OBVIOUS
<1> DEFINE Kept == Past' /\ OnAirKnown' /\ OwedKnown'
<1>1. SchedInv'
  BY SchedStep DEF BlockInv
<1>2. ASSUME NEW u \in SidelinkId, NEW tbs \in Tbs, NEW hasPdu \in BOOLEAN, Transmit(u, tbs, hasPdu)
      PROVE  Kept
  BY <1>2, BlockTransmit
<1>3. ASSUME NobodyTransmits PROVE Kept
  <2>1. UNCHANGED <<now, air, txp, rxp, delivered>> /\ air = Silence
    BY <1>3 DEF NobodyTransmits, BlockInv, SchedInv
  <2>2. \A b : Remembered(b)' <=> Remembered(b)
    BY <2>1 DEF Remembered, AckedAt
  <2>3. Past' /\ OnAirKnown'
    BY <2>1 DEF BlockInv, Past, OnAirKnown
  <2>4. OwedKnown'
    BY <2>1, <2>2 DEF BlockInv, OwedKnown
  <2>5. QED
    BY <2>3, <2>4
<1>4. ASSUME Miss PROVE Kept
  BY <1>4, BlockNothingSaved DEF Miss
<1>5. ASSUME NEW ok \in BOOLEAN, Receive(ok) PROVE Kept
  <2>1. CASE Duplicate(rxp[RxPid(air.rti)], air)
    BY <1>5, <2>1, BlockNothingSaved DEF Receive
  <2>2. QED
    BY <1>5, <2>1, BlockSaved
<1>6. ASSUME UNCHANGED vars PROVE Kept
  <2>1. UNCHANGED <<now, phase, air, txp, rxp, delivered>>
    BY <1>6 DEF vars
  <2>2. \A b : Remembered(b)' <=> Remembered(b)
    BY <2>1 DEF Remembered, AckedAt
  <2>3. Past' /\ OnAirKnown'
    BY <2>1, <2>2 DEF BlockInv, Past, OnAirKnown
  <2>4. OwedKnown'
    BY <2>1, <2>2 DEF BlockInv, OwedKnown
  <2>5. QED
    BY <2>3, <2>4
<1>7. Kept
  BY <1>2, <1>3, <1>4, <1>5, <1>6 DEF Next, Finished
<1>8. QED
  BY <1>1, <1>7 DEF BlockInv

\* At the start nothing was saved, delivered or sent.
LEMMA BlockInit == Init => BlockInv
<1> SUFFICES ASSUME Init PROVE BlockInv
  OBVIOUS
<1>1. \A p \in 0 .. RxProc - 1 : rxp[p].sl_gap = 0 /\ rxp[p].tbs = 0
  BY DEF Init, FreshRx
<1>2. \A v \in SidelinkId, p \in 0 .. MaxHarqProc - 1 : txp[v][p].tx_nb = 0
  BY DEF Init, FreshTx
<1>3. Past
  BY <1>1 DEF Init, Past, SlGap
<1>4. OnAirKnown /\ OwedKnown
  BY <1>2 DEF Init, OnAirKnown, OwedKnown
<1>5. QED
  BY <1>3, <1>4, SchedInit DEF BlockInv

\* For any number of vehicles and any pool, while the size stays the same and the index does
\* not wrap: whatever was missed before, redundancy is only added to that of the same block
\* ("check if it belongs to previous decoding", dl_harq.cc:343).
THEOREM CombinesSameBlockHolds == ASSUME NoWrap, OneSize PROVE Spec => []CombinesSameBlock
<1>1. BlockInv /\ [Next]_vars => BlockInv'
  BY BlockStep
<1>2. BlockInv => CombinesSameBlock
  BY Combines DEF CombinesSameBlock, ReceivedBy
<1>3. QED
  BY <1>1, <1>2, BlockInit, PTL DEF Spec

\* Under the same assumptions the duplicates a process discards are exactly the blocks that
\* were delivered to the MAC (the ack test of dl_harq.cc's new_grant_dl).
THEOREM DuplicatesKnownHolds == ASSUME NoWrap, OneSize PROVE Spec => []DuplicatesKnown
<1>1. BlockInv /\ [Next]_vars => BlockInv'
  BY BlockStep
<1>2. ASSUME BlockInv, phase = "rx", air # Silence
      PROVE  Duplicate(rxp[RxPid(air.rti)], air) <=> air.tb \in delivered
  <2> DEFINE pid == RxPid(air.rti)
  <2>1. /\ tSL = Start + now /\ now \in Nat /\ Start \in Nat /\ pid \in 0 .. RxProc - 1
        /\ pid = (Start + air.tb[2]) % RxProc /\ air.tb[2] \in Nat
        /\ air.tb[2] = IF air.rti = 0 THEN now ELSE now - SlGap
    BY <1>2, OtherProcess
  <2>2. ASSUME Duplicate(rxp[pid], air) PROVE air.tb \in delivered
    <3>1. rxp[pid].sl_gap = SlGap /\ rxp[pid].sl_tti = Start + air.tb[2] /\ air.rti = 1
          /\ Remembered(air.tb)
      BY <1>2, <2>2, Combines DEF Duplicate
    <3>2. AckedAt(air.tb[2]) /\ air.tb[2] < now
      BY <2>1, <2>2, <3>1 DEF Duplicate, AckedAt, SlGap
    <3>3. QED
      BY <3>1, <3>2 DEF Remembered
  <2>3. ASSUME air.tb \in delivered PROVE Duplicate(rxp[pid], air)
    <3>1. air.tb[2] < now
      BY <1>2, <2>3 DEF BlockInv, Past
    <3>2. air.rti = 1 /\ Remembered(air.tb)
      BY <1>2, <2>1, <3>1 DEF BlockInv, OnAirKnown, SchedInv, TypeOK
    <3>3. AckedAt(air.tb[2])
      BY <2>3, <3>1, <3>2 DEF Remembered
    <3>4. rxp[pid].tbs \in Tbs /\ air.tbs \in Tbs
      BY <1>2, <2>1, <3>3 DEF AckedAt, BlockInv, Past, OnAirKnown
    <3>5. QED
      BY <1>2, <2>1, <3>2, <3>3, <3>4 DEF OneSize, Duplicate, Unrelated, AckedAt, SlGap
  <2>4. QED
    BY <2>2, <2>3
<1>3. BlockInv => DuplicatesKnown
  BY <1>2 DEF DuplicatesKnown, ReceivedBy
<1>4. QED
  BY <1>1, <1>3, BlockInit, PTL DEF Spec
================================================================================
