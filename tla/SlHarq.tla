-------------------------------- MODULE SlHarq ---------------------------------
(***************************************************************************)
(* Blind HARQ on the sidelink in the default build (USE_SENSING_SPS off):  *)
(* every transport block is sent twice, SlGap subframes of the resource    *)
(* pool apart, with no feedback.  Sender: cc_worker::work_sl_tx            *)
(* (srssl/src/phy/cc_worker.cc) and the UL HARQ entity                     *)
(* (srssl/src/stack/mac/ul_harq.cc).  Receiver: cc_worker::decode_pscch_dl *)
(* and the DL HARQ entity (srssl/src/stack/mac/dl_harq.cc), whose buffers  *)
(* and locks are in MacRx.                                                 *)
(*                                                                         *)
(* Time runs over the subframes of the pool.  Each is owned by one sender  *)
(* at most.  A transport block is named by its sender and the subframe in  *)
(* which it was created; a soft buffer by the block it was last cleared    *)
(* for.                                                                    *)
(***************************************************************************)
EXTENDS Naturals

CONSTANTS
    SidelinkId,  \* args.sidelink_id of the vehicles that transmit
    PoolSize,    \* number of subframes of the resource pool (indices t_SL_k)
    Start,       \* index t_SL_k of the first subframe
    Tbs,         \* transport block sizes the MCS setting may give
    Horizon      \* bound on the number of subframes

ASSUME SlHarqAssumption ==
    /\ SidelinkId \subseteq 0 .. 4
    /\ PoolSize \in Nat \ {0}
    /\ Start \in 0 .. PoolSize - 1
    /\ Tbs \subseteq Nat \ {0}
    /\ Horizon \in Nat

MaxHarqProc == 15   \* SRSLTE_MAX_HARQ_PROC
SlGap == 5          \* ul_mac_grant.sl_gap
RxProc == 8         \* processes decode_pscch_dl selects from

VARIABLES
    now,        \* number of subframes of the pool so far
    phase,      \* "tx": nobody has sent in this subframe yet; "rx": the receiver's turn
    air,        \* what is on the air, or Silence
    txp,        \* ul_harq_process, per sender and pid
    rxp,        \* dl_tb_process of the receiver, per pid
    delivered   \* blocks delivered to the receiver's MAC, as long as a sender may repeat them

vars == <<now, phase, air, txp, rxp, delivered>>

NoTb == <<5, 0>>
Silence == [tb |-> NoTb, rti |-> 0, tbs |-> 0]
FreshTx == [tx_nb |-> 0, tb |-> NoTb, tbs |-> 0]
FreshRx == [sl_tti |-> 0, sl_gap |-> 0, tbs |-> 0, ack |-> FALSE, soft |-> NoTb]

tSL == (Start + now) % PoolSize

Init ==
    /\ now = 0
    /\ phase = "tx"
    /\ air = Silence
    /\ txp = [u \in SidelinkId |-> [p \in 0 .. MaxHarqProc - 1 |-> FreshTx]]
    /\ rxp = [p \in 0 .. RxProc - 1 |-> FreshRx]
    /\ delivered = {}

-----------------------------------------------------------------------------
(* The sender.                                                             *)

\* t_SL_k > 0 && sidelink_id == t_SL_k % 5
Owns(u) == tSL > 0 /\ u = tSL % 5

\* Fault: the new block goes to the process of this subframe, not of its repetition.
NewTxPidNow == tSL % MaxHarqProc

\* The process that will see the subframe of the retransmission.
NewTxPid == ((tSL + SlGap) % 10240) % MaxHarqProc

\* reset, then a PDU from the multiplexer; with none, nothing is sent.
NewTx(u, pid, tbs, hasPdu) ==
    LET tb == <<u, now>>
    IN /\ txp' = [txp EXCEPT ![u][pid] =
                    IF hasPdu THEN [tx_nb |-> 1, tb |-> tb, tbs |-> tbs] ELSE FreshTx]
       /\ air' = IF hasPdu THEN [tb |-> tb, rti |-> 0, tbs |-> tbs] ELSE Silence

\* rv 2, sent with rti = 1.  The process never looks at this block again.
ReTx(u, pid, tbs) ==
    /\ txp' = [txp EXCEPT ![u][pid] = [FreshTx EXCEPT !.tx_nb = txp[u][pid].tx_nb + 1]]
    /\ air' = [tb |-> txp[u][pid].tb, rti |-> 1, tbs |-> tbs]

\* ul_harq_entity::new_grant_ul: the process of this subframe either owes a
\* retransmission or the subframe is free for a new block.  A changed size turns the
\* retransmission into a new block in the same process.
Transmit(u, tbs, hasPdu) ==
    LET pid == tSL % MaxHarqProc
        proc == txp[u][pid]
    IN /\ phase = "tx" /\ now < Horizon
       /\ Owns(u)
       /\ phase' = "rx"
       /\ IF proc.tx_nb # 1 THEN NewTx(u, NewTxPid, tbs, hasPdu)
          ELSE IF proc.tbs # tbs THEN NewTx(u, pid, tbs, hasPdu)
          ELSE ReTx(u, pid, tbs)
       /\ UNCHANGED <<now, rxp, delivered>>

NobodyTransmits ==
    /\ phase = "tx" /\ now < Horizon
    /\ \A u \in SidelinkId : ~Owns(u)
    /\ phase' = "rx"
    /\ UNCHANGED <<now, air, txp, rxp, delivered>>

-----------------------------------------------------------------------------
(* The receiver.                                                           *)

\* Fault: a retransmission is looked up under its own subframe.
RxPidNow(rti) == tSL % RxProc

\* (t_SL_k + (8 - rti * time_gap)) % 8: both transmissions of a block meet in one process.
RxPid(rti) == (tSL + (RxProc - rti * SlGap)) % RxProc

\* Fault: a retransmission is taken for that of whatever the process holds.
UnrelatedNever(p, a) == a.rti = 0 \/ p.tbs # a.tbs

\* A new block, a changed size, or a retransmission that does not follow the saved
\* grant: the soft buffer is cleared and ack dropped.
Unrelated(p, a) ==
    a.rti = 0 \/ p.tbs # a.tbs \/ p.sl_tti + p.sl_gap # tSL

Duplicate(p, a) == ~Unrelated(p, a) /\ p.ack

\* cur_grant = grant; ack = result of decoding.
Saved(p, a, ok) ==
    [sl_tti |-> tSL, sl_gap |-> SlGap, tbs |-> a.tbs, ack |-> ok,
     soft |-> IF Unrelated(p, a) THEN a.tb ELSE p.soft]

Tick ==
    /\ now' = now + 1
    /\ phase' = "tx"
    /\ air' = Silence
    /\ UNCHANGED txp

InFlight == {txp[u][p].tb : u \in SidelinkId, p \in 0 .. MaxHarqProc - 1}

\* Nothing on the air, or control information that was not decoded.
Miss ==
    /\ phase = "rx"
    /\ delivered' = delivered \cap InFlight
    /\ Tick
    /\ UNCHANGED rxp

\* new_grant_dl, decoding, tb_decoded.
Receive(ok) ==
    LET pid == RxPid(air.rti)
    IN /\ phase = "rx" /\ air # Silence
       /\ IF Duplicate(rxp[pid], air)
            THEN UNCHANGED <<rxp, delivered>>
            ELSE /\ rxp' = [rxp EXCEPT ![pid] = Saved(@, air, ok)]
                 /\ delivered' = (delivered \cup (IF ok THEN {air.tb} ELSE {})) \cap InFlight
       /\ Tick

Finished == now = Horizon /\ UNCHANGED vars

Next ==
    \/ \E u \in SidelinkId, tbs \in Tbs, hasPdu \in BOOLEAN : Transmit(u, tbs, hasPdu)
    \/ NobodyTransmits
    \/ Miss
    \/ \E ok \in BOOLEAN : Receive(ok)
    \/ Finished

Spec == Init /\ [][Next]_vars

-----------------------------------------------------------------------------
Block == (SidelinkId \cup {5}) \X (0 .. Horizon)
TxProcess == [tx_nb : 0 .. 2, tb : Block, tbs : Tbs \cup {0}]
RxProcess == [sl_tti : 0 .. PoolSize - 1, sl_gap : {0, SlGap}, tbs : Tbs \cup {0}, ack : BOOLEAN, soft : Block]

TypeOK ==
    /\ now \in 0 .. Horizon
    /\ phase \in {"tx", "rx"}
    /\ air \in [tb : Block, rti : {0, 1}, tbs : Tbs \cup {0}]
    /\ txp \in [SidelinkId -> [0 .. MaxHarqProc - 1 -> TxProcess]]
    /\ rxp \in [0 .. RxProc - 1 -> RxProcess]
    /\ delivered \subseteq Block

\* The second transmission of a block follows the first by the gap its control
\* information announces ("corresponds to a retransmission opportunity for this
\* sidelink process", ul_harq.cc:148).
RetxAfterGap == phase = "rx" /\ air.rti = 1 => air.tb[2] + SlGap = now

\* A block that owes its second transmission is not overdue.
NoneOverdue ==
    phase = "tx" => \A u \in SidelinkId, p \in 0 .. MaxHarqProc - 1 :
        txp[u][p].tx_nb = 1 => now <= txp[u][p].tb[2] + SlGap

ReceivedBy(p) == phase = "rx" /\ air # Silence /\ RxPid(air.rti) = p

\* Redundancy is only ever combined with that of the same block, whatever was missed
\* before ("check if it belongs to previous decoding", dl_harq.cc:343).
CombinesSameBlock ==
    \A p \in 0 .. RxProc - 1 : ReceivedBy(p) /\ ~Unrelated(rxp[p], air) => rxp[p].soft = air.tb

\* A block that was delivered is recognised as a duplicate when it comes again, and
\* only such a block is discarded.
DuplicatesKnown ==
    \A p \in 0 .. RxProc - 1 : ReceivedBy(p) => (Duplicate(rxp[p], air) <=> air.tb \in delivered)
===============================================================================
