-------------------------------- MODULE RlcUm ---------------------------------
(***************************************************************************)
(* RLC in unacknowledged mode (lib/src/upper/rlc_um.cc), the bearer of the *)
(* sidelink: rrc::add_sidelink_drb makes one UM entity for logical channel *)
(* 3, and demux hands it the PDUs of every vehicle in range.               *)
(*                                                                         *)
(* The sender cuts and concatenates SDUs to fit the grants of the MAC.     *)
(* The radio loses, repeats and reorders PDUs.  The receiver puts them     *)
(* back into order in a window, guarded by the reordering timer, and       *)
(* reassembles SDUs.  The timer is stepped by the MAC's TTI call, PDUs     *)
(* arrive on the MAC's PDU thread; the two meet at the receiver's mutex.   *)
(*                                                                         *)
(* A byte of an SDU is <<sender, number of the SDU, position in it>>.      *)
(***************************************************************************)
EXTENDS Integers, Sequences, FiniteSets, SequencesExt

CONSTANTS
    Sender,      \* vehicles that send on the bearer
    Mod,         \* tx_mod, rx_mod: 1024 on the sidelink
    SduSizes,    \* bytes of an SDU
    Grants,      \* bytes the MAC offers for a PDU
    Capacity,    \* tx_queue_length
    MaxSdus,     \* bound: SDUs each sender hands over
    Skew,        \* a PDU arrives before the one sent Skew later, or is lost
    MaxOutage,   \* fewer than this many PDUs in a row are lost
    MaxRepeats   \* bound: PDUs that arrive twice

Window == Mod \div 2       \* rx_window_size

ASSUME RlcAssumption ==
    /\ Mod \in Nat /\ Mod > 1 /\ Mod % 2 = 0
    /\ SduSizes \subseteq Nat \ {0} /\ Grants \subseteq Nat /\ Capacity \in Nat
    /\ Skew \in Nat \ {0} /\ MaxOutage \in Nat \ {0}

VARIABLES
    input,       \* history: SDUs accepted from each sender
    tx,          \* rlc_um_tx of each sender: queue, sdu (tx_sdu, empty when null), sn (vt_us), count
    air,         \* PDUs that may still arrive
    repeats,     \* PDUs that arrived and stayed in the air
    rx,          \* rlc_um_rx: ur, ux, uh, lost, window, sdu, inSdu (vr_ur_in_rx_sdu)
    timer,       \* reordering_timer is running
    expiring,    \* the timer ran out and timer_expired waits for the mutex
    heard,       \* the highest number of a PDU that arrived, per sender
    output       \* SDUs handed to PDCP, in order

vars == <<input, tx, air, repeats, rx, timer, expiring, heard, output>>

-------------------------------------------------------------------------------
(* Sender.                                                                   *)

FixedHeader == 2

\* rlc_um_packed_length: 1.5 bytes per length indicator, rounded up.
PackedLength(nli) == FixedHeader + (3 * nli + 1) \div 2

FirstBytes(sdu, n) == SubSeq(sdu, 1, n)
OtherBytes(sdu, n)  == SubSeq(sdu, n + 1, Len(sdu))
Lesser(a, b)  == IF a < b THEN a ELSE b

\* The gateway writes without blocking (try_write_sdu): an SDU that meets a full queue is
\* dropped and changes nothing.
TryWriteSdu(s, n) ==
    LET sdu == [k \in 1..n |-> <<s, Len(input[s]) + 1, k>>]
    IN  /\ Len(input[s]) < MaxSdus
        /\ Len(tx[s].queue) < Capacity
        /\ input' = [input EXCEPT ![s] = Append(@, sdu)]
        /\ tx' = [tx EXCEPT ![s].queue = Append(@, sdu)]
        /\ UNCHANGED <<air, repeats, rx, timer, expiring, heard, output>>

\* A PDU being built: segments so far, what is left of the last SDU and of the room.
Continue(t, g) ==
    LET n == Lesser(g - PackedLength(0), Len(t.sdu))
    IN  [queue |-> t.queue, sdu |-> OtherBytes(t.sdu, n), room |-> g - n,
         segs |-> IF t.sdu = << >> THEN << >> ELSE << FirstBytes(t.sdu, n) >>]

\* Length indicators written so far: one for every segment but the last.
Indicators(b) == IF b.segs = << >> THEN 0 ELSE Len(b.segs) - 1

MayPull(b) == b.room > PackedLength(Indicators(b)) + 1 /\ b.queue # << >>

\* The indicator of the previous segment is added before the room for the next one is
\* computed: with two bytes left beyond the header, nothing of the next SDU fits.
Pull(b) ==
    LET sdu == Head(b.queue)
        n   == Lesser(b.room - PackedLength(Len(b.segs)), Len(sdu))
    IN  [queue |-> Tail(b.queue), sdu |-> OtherBytes(sdu, n), room |-> b.room - n,
         segs |-> Append(b.segs, FirstBytes(sdu, n))]

Fill(b) == FoldLeft(LAMBDA c, i : IF MayPull(c) THEN Pull(c) ELSE c, b, b.queue)

\* Skew and MaxOutage are assumptions about the radio.
InTouch(s) == tx[s].count - heard[s] < MaxOutage
Late(p, s) == p.sender = s /\ p.number + Skew <= tx[s].count + 1

\* Fault: the sequence number does not wrap.
NextSnNoWrap(sn) == sn + 1

NextSn(sn) == (sn + 1) % Mod

BuildDataPdu(s, g) ==
    LET t == tx[s]
        b == Fill(Continue(t, g))
        p == [sender |-> s, number |-> t.count + 1, sn |-> t.sn, segs |-> b.segs,
              startAligned |-> t.sdu = << >>, endAligned |-> b.sdu = << >>]
    IN  /\ t.sdu # << >> \/ t.queue # << >>
        /\ g > PackedLength(0) + 1
        /\ InTouch(s)
        /\ tx' = [tx EXCEPT ![s] = [queue |-> b.queue, sdu |-> b.sdu,
                                    sn |-> NextSn(t.sn), count |-> t.count + 1]]
        /\ air' = {q \in air : ~Late(q, s)} \cup {p}
        /\ UNCHANGED <<input, repeats, rx, timer, expiring, heard, output>>

-------------------------------------------------------------------------------
(* Receiver.  r is the state of rlc_um_rx together with the SDUs delivered.   *)

Base(r, x) == (x - r.uh - Window) % Mod

Holds(r, sn) == \E p \in r.window : p.sn = sn
PduAt(r, sn) == CHOOSE p \in r.window : p.sn = sn

InsideReorderingWindow(r, sn) ==
    \/ r.window = {}
    \/ Base(r, r.uh - Window) <= Base(r, sn) /\ Base(r, sn) < Base(r, r.uh)

PduBelongsToRxSdu(r) == r.ur \in {r.inSdu, (r.inSdu + 1) % Mod}

Deliver(r) == [r EXCEPT !.out = Append(@, r.sdu), !.sdu = << >>, !.lost = FALSE]
Drop(r)    == [r EXCEPT !.sdu = << >>, !.lost = FALSE]
Add(r, seg) == [r EXCEPT !.sdu = @ \o seg]

\* Fault: only a PDU marked as lost has lost its start.
HeadlessIfLost(r, p) == r.lost /\ r.sdu = << >> /\ ~p.startAligned

\* A segment at the head of a PDU that continues an SDU whose start is missing.
Headless(r, p) == r.sdu = << >> /\ ~p.startAligned

LastSegment(p)    == p.segs[Len(p.segs)]
MiddleSegments(p) == SubSeq(p.segs, 1, Len(p.segs) - 1)

\* The end of the last segment, in both loops.
CloseLast(r, p) ==
    IF ~p.endAligned THEN r
    ELSE IF r.lost /\ ~p.startAligned THEN Drop(r) ELSE Deliver(r)

\* The segments before the last one of a PDU at the lower edge.
LowerSegments(r, p, segs) ==
    LET Segment(q, seg) ==
            LET a == Add(q, seg)
            IN  IF (q.lost /\ ~p.startAligned) \/ q.ur # (q.inSdu + 1) % Mod
                THEN Drop(a) ELSE Deliver(a)
    IN  FoldLeft(Segment, r, segs)

\* "First catch up with lower edge": the PDU at ur fell out of the window.
LowerEdgePdu(r, p) ==
    LET mid == IF Headless(r, p) THEN r ELSE LowerSegments(r, p, MiddleSegments(p))
    IN  IF mid.sdu # << >> \/ p.startAligned
        THEN CloseLast([Add(mid, LastSegment(p)) EXCEPT !.inSdu = r.ur], p)
        ELSE mid

LowerEdge(r) ==
    LET q == IF Holds(r, r.ur) THEN LowerEdgePdu(r, PduAt(r, r.ur)) ELSE [r EXCEPT !.sdu = << >>]
    IN  [q EXCEPT !.window = {p \in @ : p.sn # r.ur}, !.ur = (@ + 1) % Mod]

\* The segments before the last one of a PDU in order.
InOrderSegments(r, segs) ==
    FoldLeft(LAMBDA q, seg : Deliver([Add(q, seg) EXCEPT !.inSdu = q.ur]), r, segs)

\* "Now update vr_ur until we reach an SN we haven't yet received".
InOrderPdu(r0, p) ==
    LET r == IF PduBelongsToRxSdu(r0) THEN r0 ELSE Drop(r0)
        middle == MiddleSegments(p)
        mid == IF middle = << >> THEN r
               ELSE IF Headless(r, p) THEN InOrderSegments(Drop(r), Tail(middle))
               ELSE InOrderSegments(r, middle)
    IN  IF middle = << >> /\ Headless(r, p) THEN r
        ELSE CloseLast([Add(mid, LastSegment(p)) EXCEPT !.inSdu = r.ur], p)

InOrder(r) ==
    [InOrderPdu(r, PduAt(r, r.ur)) EXCEPT !.window = {p \in @ : p.sn # r.ur}, !.ur = (@ + 1) % Mod]

\* Neither loop goes round the sequence numbers more than once.
Rounds == [i \in 1..Mod |-> i]

\* The two loops of reassemble_rx_sdus.
CatchUp(r) ==
    FoldLeft(LAMBDA q, i : IF InsideReorderingWindow(q, q.ur) THEN q ELSE LowerEdge(q), r, Rounds)

TakeInOrder(r) == FoldLeft(LAMBDA q, i : IF Holds(q, q.ur) THEN InOrder(q) ELSE q, r, Rounds)

ReassembleRxSdus(r) == TakeInOrder(CatchUp(r))

\* Fault: nothing counts as old.
OutsideNever(r, sn) == FALSE

Outside(r, sn) == Base(r, r.uh - Window) <= Base(r, sn) /\ Base(r, sn) < Base(r, r.ur)

\* The new receiver state: SDUs delivered move to output.
Becomes(r) ==
    /\ rx' = [r EXCEPT !.out = << >>]
    /\ output' = output \o r.out

\* A gap is open: a PDU beyond the next expected one has arrived.
Gap(r) == Base(r, r.uh) > Base(r, r.ur)

\* The end of handle_data_pdu: stop the timer whose gap is closed, start it for an open one.
\* Fault: a timer that is stopped is not started again for the next gap.
UpdateTimerOnce(r) ==
    LET closed == Base(r, r.ux) <= Base(r, r.ur)
    IN  IF ~timer /\ Gap(r)
        THEN timer' = TRUE /\ Becomes([r EXCEPT !.ux = r.uh])
        ELSE timer' = (timer /\ ~closed) /\ Becomes(r)

UpdateTimer(r) ==
    LET closed == \/ Base(r, r.ux) <= Base(r, r.ur)
                  \/ ~InsideReorderingWindow(r, r.ux) /\ r.ux # r.uh
        on == timer /\ ~closed
    IN  IF ~on /\ Gap(r)
        THEN timer' = TRUE /\ Becomes([r EXCEPT !.ux = r.uh])
        ELSE timer' = on /\ Becomes(r)

HandleDataPdu(p) ==
    LET kept  == [rx EXCEPT !.window = @ \cup {p}]
        ahead == IF InsideReorderingWindow(kept, p.sn) THEN kept
                 ELSE [kept EXCEPT !.uh = (p.sn + 1) % Mod]
    IN  /\ IF Outside(rx, p.sn) \/ Holds(rx, p.sn)
           THEN UNCHANGED <<rx, timer, output>>
           ELSE UpdateTimer(ReassembleRxSdus(ahead))
        /\ UNCHANGED expiring

\* A PDU arrives; it may arrive again.
Receive(p) ==
    /\ HandleDataPdu(p)
    /\ heard' = [heard EXCEPT ![p.sender] = IF @ < p.number THEN p.number ELSE @]
    /\ \/ air' = air \ {p} /\ UNCHANGED repeats
       \/ repeats < MaxRepeats /\ repeats' = repeats + 1 /\ UNCHANGED air
    /\ UNCHANGED <<input, tx>>

\* timer::step: running is cleared before the callback asks for the mutex.
TimerStep ==
    /\ timer /\ ~expiring
    /\ timer' = FALSE
    /\ expiring' = TRUE
    /\ UNCHANGED <<input, tx, air, repeats, rx, heard, output>>

\* The window after the expiry: everything up to ux is given up.
GiveUp(r) ==
    LET skip(q) == ReassembleRxSdus([q EXCEPT !.ur = (@ + 1) % Mod])
    IN  FoldLeft(LAMBDA q, i : IF Base(q, q.ur) < Base(q, q.ux) THEN skip(q) ELSE q,
                 [r EXCEPT !.lost = TRUE, !.sdu = << >>], Rounds)

\* Fault: the next gap is left without a timer.
TimerExpiredOnce ==
    /\ expiring
    /\ expiring' = FALSE
    /\ Becomes(GiveUp(rx))
    /\ UNCHANGED <<input, tx, air, repeats, timer, heard>>

TimerExpired ==
    LET r == GiveUp(rx)
    IN  /\ expiring
        /\ expiring' = FALSE
        /\ IF Gap(r) THEN timer' = TRUE /\ Becomes([r EXCEPT !.ux = r.uh])
                     ELSE Becomes(r) /\ UNCHANGED timer
        /\ UNCHANGED <<input, tx, air, repeats, heard>>

-------------------------------------------------------------------------------

FreshRx == [ur |-> 0, ux |-> 0, uh |-> 0, lost |-> FALSE, window |-> {}, sdu |-> << >>,
            inSdu |-> 0, out |-> << >>]

Init ==
    /\ input = [s \in Sender |-> << >>]
    /\ tx = [s \in Sender |-> [queue |-> << >>, sdu |-> << >>, sn |-> 0, count |-> 0]]
    /\ air = {}
    /\ repeats = 0
    /\ rx = FreshRx
    /\ timer = FALSE
    /\ expiring = FALSE
    /\ heard = [s \in Sender |-> 0]
    /\ output = << >>

Next ==
    \/ \E s \in Sender, n \in SduSizes : TryWriteSdu(s, n)
    \/ \E s \in Sender, g \in Grants : BuildDataPdu(s, g)
    \/ \E p \in air : Receive(p)
    \/ TimerStep
    \/ TimerExpired

\* The MAC steps its timers every TTI, and the mutex is held briefly.  TimerExpired is the only
\* step that clears the flag; naming the flag spares TLC the search for ENABLED TimerExpired.
Fairness == WF_vars(TimerStep) /\ WF_expiring(expiring /\ expiring' = FALSE)

Spec == Init /\ [][Next]_vars /\ Fairness

-------------------------------------------------------------------------------

\* The type invariant: counters stay below the modulus, the queue within its capacity, and
\* the window, a std::map keyed by sequence number, holds one PDU for each.
TypeOK ==
    /\ \A s \in Sender : /\ tx[s].sn \in 0..(Mod - 1)
                         /\ Len(tx[s].queue) <= Capacity
    /\ \A x \in {"ur", "ux", "uh", "inSdu"} : rx[x] \in 0..(Mod - 1)
    /\ rx.lost \in BOOLEAN /\ timer \in BOOLEAN /\ expiring \in BOOLEAN
    /\ \A p, q \in rx.window : p.sn = q.sn => p = q
    /\ rx.out = << >>

\* Whatever is lost, repeated or reordered, an SDU handed to PDCP is an SDU a sender handed
\* over, byte for byte: segments of different SDUs are never joined, none is left out.
DeliveredIntact == \A i \in DOMAIN output : \E s \in Sender : output[i] \in ToSet(input[s])

\* A PDU is kept for reordering only while the reordering timer runs, or its expiry is on
\* the way: otherwise nothing would ever release it.
HeldTimed == rx.window # {} => timer \/ expiring

\* Every PDU kept for reordering leaves the window in the end, whether the gap before it is
\* filled, given up by the timer, or falls below the window.
HeldLeaves == \A sn \in 0..(Mod - 1) : Holds(rx, sn) ~> ~Holds(rx, sn)

\* SDUs by sender and number; number 0 is something no sender handed over.
Named(sdu) ==
    LET s == sdu[1][1] IN IF sdu \in ToSet(input[s]) THEN <<s, sdu[1][2]>> ELSE <<s, 0>>

Fifo == INSTANCE LossyFifo WITH output <- [i \in DOMAIN output |-> Named(output[i])]

\* The bearer implements the lossy FIFO: what arrives keeps its sender's order and arrives
\* once, despite repeated PDUs, wrapping sequence numbers and expiries racing with arrivals.
ImplementsLossyFifo == Fifo!Spec

\* Without loss, repetition and reordering nothing is dropped: once all PDUs have arrived and
\* nothing is left to send, every SDU has been delivered.
NothingDropped ==
    (air = {} /\ \A s \in Sender : tx[s].queue = << >> /\ tx[s].sdu = << >>) =>
        \A s \in Sender : ToSet(input[s]) \subseteq ToSet(output)

\* A partial SDU is thrown away by the timer only if the gap it was started for is open.
ExpiryFindsGap == [][expiring /\ ~expiring' => Base(rx, rx.ur) < Base(rx, rx.ux)]_vars
===============================================================================
