------------------------------- MODULE SensingSps ------------------------------
(***************************************************************************)
(* Sensing-based semi-persistent scheduling (USE_SENSING_SPS): vehicles    *)
(* that share a channel without a base station.  Each measures the energy  *)
(* of the subframes it does not transmit in (cc_worker.cc), reserves one   *)
(* or two subframes of every Period among the quietest of a selection      *)
(* window, and keeps them for a random number of periods                   *)
(* (ue_sl_sensing_sps.cc).  Several instances of the program share the     *)
(* air here; a vehicle that transmits in a subframe hears nothing in it.   *)
(*                                                                         *)
(* A candidate resource is a subframe: numChannels is hardcoded to the     *)
(* whole width of the pool.  Energy is 1 for a subframe in which somebody  *)
(* else transmits and 0 for a quiet one.  The calls that the workers of a  *)
(* vehicle make for one subframe are one step.                             *)
(***************************************************************************)
EXTENDS Integers, Sequences, FiniteSets, FiniteSetsExt

CONSTANTS
    NofVehicles,
    Masters,      \* vehicles that send synchronisation signals
    SyncPeriod,   \* ue_repo.syncPeriod: 5
    Period,       \* PrsvpTx, and PStep: 100
    TxDelay,      \* TX_DELAY: 4
    SelWindow,    \* selectionWindowLength: 46
    SenseWindow,  \* sensingWindowSize: 1000
    Ring,         \* MAX_SENSING_WINDOW: 1024
    Cycle,        \* subframe numbers: 10240
    MaxGap,       \* a second transmission is at most this far away: 15
    Counters,     \* calc_reselection_counter: 5 to 14
    Residue,      \* candidates that a CandidateResources without a constructed set may show
    Idle,         \* vehicles that at times have nothing to send
    Lossy,        \* vehicles that miss subframes
    MaxMissed,    \* bound: subframes a vehicle misses
    IdleMissed    \* bound: nothing to send only as long as no vehicle has missed more subframes

Vehicle == 1..NofVehicles

ASSUME SpsAssumption ==
    /\ NofVehicles \in Nat \ {0}
    /\ Masters \subseteq Vehicle /\ Lossy \subseteq Vehicle /\ Idle \subseteq Vehicle
    /\ Counters \subseteq Nat \ {0}
    /\ \A set \in Residue : set \subseteq 0..(SelWindow - 1)
    /\ {Period, TxDelay, SelWindow, SenseWindow, Ring, Cycle, SyncPeriod} \subseteq Nat \ {0}
    /\ Ring > SenseWindow + 1 + TxDelay /\ Cycle % Ring = 0
    /\ Period % SyncPeriod = 0 /\ Cycle % SyncPeriod = 0
    /\ \A c \in Counters : Period * (c + 1) < Cycle

VARIABLES
    tti,       \* the subframe being received, the same for all vehicles
    on,        \* vehicles switched on
    turn,      \* the vehicle whose workers run next for this subframe
    resv,      \* reservation
    energy,    \* avgSRssi: per place of the ring, Unheard, 0 or 1
    transmit,  \* places of the ring flagged by setTransmit
    filled,    \* sensingWindowFilled
    sends,     \* subframes in which a vehicle will transmit
    missed,    \* subframes missed so far
    skipped,   \* history: the end of a period was missed since the reservation was chosen
    heard,     \* history: <<k, t>>: resource k of a vehicle's reservation another one heard at t
    apart      \* history: <<v, u>>: v chose when it had heard all of u's reservation

vars == <<tti, on, turn, resv, energy, transmit, filled, sends, missed, skipped, heard, apart>>

Unheard == -1
Tti == 0..(Cycle - 1)

\* Fault: subframe numbers are added without wrapping.
TtiAddNoWrap(t, n) == t + n

TtiAdd(t, n) == (t + n) % Cycle

Idx(t) == t % Ring

SyncSubframe(v, t) == v \in Masters /\ t % SyncPeriod = 0

-------------------------------------------------------------------------------
(* Choosing resources: resourceSelection for the subframe t being received.   *)
(* Candidate i is the subframe t + TxDelay + i.                               *)

EnergyAt(v, t, n) == energy[v][Idx(TtiAdd(t, Cycle - n))]

Candidate == 0..(SelWindow - 1)

\* How many of the candidates have to remain: 0.2 * MTotal.
Share == SelWindow \div 5
Place == IF Share > 0 THEN Share ELSE 1

\* Fault: subframes that were not monitored stay candidates.
MonitoredAny(v, t) == Candidate

\* Candidates whose subframe one period earlier was monitored.
Monitored(v, t) == {i \in Candidate : EnergyAt(v, t, Period - TxDelay - i) # Unheard}

\* Candidates that fall on the repetitions of a transmission heard n subframes ago.  The
\* announced period is in subframes already and is multiplied by PStep once more.
Announced(v, t, cresel) ==
    {i \in Candidate : \E n \in 1..(SenseWindow + 1), j \in 0..(cresel - 1) :
        EnergyAt(v, t, n) = 1 /\ TxDelay + i = j * Period * Period - n}

\* The average energy of the subframes whole periods before candidate i, more than any if
\* none of them was monitored; Scale makes it an integer.
Scale == 12
Level(v, t, i) ==
    LET back == {n \in 1..(SenseWindow + 1) :
                    (TxDelay + i + n) % Period = 0 /\ EnergyAt(v, t, n) # Unheard}
        busy == {n \in back : EnergyAt(v, t, n) = 1}
    IN  IF back = {} THEN Scale + 1 ELSE (Scale * Cardinality(busy)) \div Cardinality(back)

\* Fault: the candidates with the highest energy are kept.
QuietestReversed(v, t, set) ==
    {i \in set : \A j \in set : Level(v, t, i) >= Level(v, t, j)}

\* handleSrssi: the threshold is the energy at that Place of the candidates in order of
\* energy, so that a candidate is kept when fewer than Place are quieter.  The last candidate
\* is left out of the sorting and stays in the last place.
Quietest(v, t, set) ==
    LET last       == Max(set)
        Quieter(i) == {j \in set \ {last} : Level(v, t, j) < Level(v, t, i)}
    IN  {i \in set : IF Cardinality(set) = Place THEN Level(v, t, i) <= Level(v, t, last)
                     ELSE Cardinality(Quieter(i)) < Place}

\* When announced repetitions leave fewer than 0.2 * MTotal candidates the threshold is raised
\* until none is excluded for them.
ResourceSelection(v, t, cresel) ==
    LET all  == Monitored(v, t)
        free == all \ Announced(v, t, cresel)
    IN  Quietest(v, t, IF 5 * Cardinality(free) >= SelWindow THEN free ELSE all)

\* random_with_retx: the chosen candidate and the first other one in reach, earlier first.
WithRetx(set, i) ==
    LET near == {j \in set \ {i} : j >= i - MaxGap /\ j <= i + MaxGap}
    IN  IF near = {} THEN <<i>>
        ELSE LET j == Min(near) IN IF j < i THEN <<j, i>> ELSE <<i, j>>

-------------------------------------------------------------------------------
(* schedule() for the subframe t: the reservations that may result.           *)

\* sensed is history: the reservation was chosen from measurements.
NoReservation == [active |-> FALSE, cresel |-> 0, start |-> 0, counter |-> 0, from |-> 0,
                  offsets |-> << >>, sensed |-> FALSE]

\* The next period begins; after the last one the reservation expires, or goes on with a new
\* counter (probResourceKeep).
NextPeriod(r, t) ==
    IF r.cresel > 0 THEN {[r EXCEPT !.cresel = @ - 1, !.start = t]}
    ELSE {[r EXCEPT !.active = FALSE]}
         \cup {[r EXCEPT !.cresel = c, !.counter = c, !.start = t, !.from = t] : c \in Counters}

\* Fault: the start is not moved to the period that begins.
ExtendOrExpireKeepsStart(r, t) ==
    IF ~r.active \/ t # TtiAdd(r.start, Period) THEN {r}
    ELSE IF r.cresel > 0 THEN {[r EXCEPT !.cresel = @ - 1]} ELSE NextPeriod(r, t)

\* Fault: the end of a period is computed without wrapping.
ExtendOrExpireNoWrap(r, t) ==
    IF ~r.active \/ t # r.start + Period THEN {r} ELSE NextPeriod(r, t)

\* What becomes of a reservation: it changes in the call at the end of its period only.
ExtendOrExpire(r, t) ==
    IF ~r.active \/ t # TtiAdd(r.start, Period) THEN {r} ELSE NextPeriod(r, t)

\* The reservations that the call for subframe t can take from a set of candidates.
Reservations(set, c, t, sensed) ==
    {[active |-> TRUE, cresel |-> c, start |-> t, counter |-> c, from |-> t,
      offsets |-> WithRetx(set, i), sensed |-> sensed] : i \in set}

\* What v can choose from its measurements.
Chosen(v, t) ==
    UNION {Reservations(ResourceSelection(v, TtiAdd(t, Cycle - TxDelay), c), c, t, TRUE) : c \in Counters}

\* With too little sensed resourceSelection returns a set whose members were never written,
\* the size that schedule() tests among them: it chooses from what the memory holds.
Unfounded(t) == UNION {UNION {Reservations(set, c, t, FALSE) : c \in Counters} : set \in Residue}

\* The resource to transmit on in subframe t, 0 if none.
ResourceAt(r, t) ==
    LET hits == {k \in DOMAIN r.offsets :
                   \E j \in 0..r.counter : t = TtiAdd(r.from, r.offsets[k] + j * Period)}
    IN  IF r.active /\ hits # {} THEN Min(hits) ELSE 0

-------------------------------------------------------------------------------
(* One subframe of one vehicle.                                               *)

Resources == {1, 2}

\* v receives nothing in a subframe it flagged as its own.
Monitors(v) == Idx(tti) \notin transmit[v]
OthersOnAir(v) == {u \in Vehicle \ {v} : tti \in sends[u]}

Measured(v) == IF ~Monitors(v) THEN Unheard ELSE IF OthersOnAir(v) = {} THEN 0 ELSE 1

\* History: v hears the resource of u's reservation that the subframe belongs to; what lies
\* further back than the next selection looks is dropped.
Hears(v, h) ==
    [u \in Vehicle |->
        {p \in h[u] : TtiAdd(tti, Cycle - p[2]) <= SenseWindow}
        \cup {<<k, tti>> : k \in IF Monitors(v) /\ OthersOnAir(v) = {u}
                                THEN {ResourceAt(resv[u], tti)} \ {0} ELSE {}}]

\* More candidates are quiet than the selection wants to keep.
Roomy(v) == Cardinality({i \in Monitored(v, tti) : Level(v, tti, i) = 0}) > Place

\* Of u's reservation v heard every resource within its sensing window.
Knows(v, u) ==
    resv[u].active /\ ~skipped[u] /\ \A k \in DOMAIN resv[u].offsets : \E p \in heard[v][u] : p[1] = k

\* The vehicles take turns in a subframe: what is on the air in it was fixed before.
Turn(v) == turn = v /\ v \in on

\* A vehicle is switched on, or stays off for this subframe.
StaysOff(v) ==
    /\ turn = v /\ v \notin on
    /\ turn' = v + 1
    /\ UNCHANGED <<tti, on, resv, energy, transmit, filled, sends, missed, skipped, heard, apart>>

SwitchOn(v) ==
    /\ turn = v /\ v \notin on
    /\ on' = on \cup {v}
    /\ UNCHANGED <<tti, turn, resv, energy, transmit, filled, sends, missed, skipped, heard, apart>>

\* The rest of a subframe: what v sends at t, and that it is done.
Sends(v, t, signal) ==
    /\ sends' = [sends EXCEPT ![v] = @ \cup (IF signal THEN {t} ELSE {})]
    /\ transmit' = [transmit EXCEPT ![v] = IF signal THEN @ \cup {Idx(t)} ELSE @ \ {Idx(t)}]
    /\ turn' = v + 1

\* tick, the measurement of the subframe received, and work_sl_tx for the one to be sent.
Tick(v) ==
    /\ energy' = [energy EXCEPT ![v][Idx(tti)] = Measured(v)]
    /\ filled' = [filled EXCEPT ![v] = IF @ < SenseWindow THEN @ + 1 ELSE @]

\* In a subframe of the reservation v sends if new_grant_ul finds a MAC PDU for it, and is
\* silent (and listens) otherwise.
Signals(v, r, t) ==
    IF ResourceAt(r, t) = 0 THEN {FALSE}
    ELSE IF v \in Idle /\ \A u \in Vehicle : missed[u] <= IdleMissed THEN BOOLEAN ELSE {TRUE}

\* A synchronisation subframe of a master: schedule is not called.
SyncTx(v) ==
    LET t == TtiAdd(tti, TxDelay)
    IN  /\ Turn(v)
        /\ SyncSubframe(v, t)
        /\ Tick(v)
        /\ Sends(v, t, TRUE)
        /\ heard' = [heard EXCEPT ![v] = Hears(v, @)]
        /\ UNCHANGED <<tti, on, resv, missed, skipped, apart>>

\* schedule() with a reservation that goes on, or without one and a set that reads as empty.
KeepTx(v) ==
    LET t == TtiAdd(tti, TxDelay)
    IN  /\ Turn(v)
        /\ ~SyncSubframe(v, t)
        /\ Tick(v)
        /\ \E r \in ExtendOrExpire(resv[v], t) :
               /\ r.active \/ filled'[v] < SenseWindow
               /\ resv' = [resv EXCEPT ![v] = r]
               /\ \E signal \in Signals(v, r, t) : Sends(v, t, signal)
               /\ skipped' = [skipped EXCEPT ![v] = @ /\ r.from = resv[v].from]
        /\ heard' = [heard EXCEPT ![v] = Hears(v, @)]
        /\ UNCHANGED <<tti, on, missed, apart>>

\* schedule() without a reservation, or with one that expires: bufferOccupancy is always 1, so
\* it chooses another.
ReserveTx(v) ==
    LET t == TtiAdd(tti, TxDelay)
        full == filled'[v] = SenseWindow
        known == {{v, u} : u \in {w \in Vehicle \ {v} : missed[v] = 0 /\ Roomy(v) /\ Knows(v, w)}}
    IN  /\ Turn(v)
        /\ ~SyncSubframe(v, t)
        /\ \E r \in ExtendOrExpire(resv[v], t) : ~r.active
        /\ Tick(v)
        /\ \E r \in IF full THEN Chosen(v, t) ELSE Unfounded(t) :
               /\ resv' = [resv EXCEPT ![v] = r]
               /\ \E signal \in Signals(v, r, t) : Sends(v, t, signal)
        /\ skipped' = [skipped EXCEPT ![v] = FALSE]
        /\ heard' = [u \in Vehicle |-> IF u = v THEN Hears(v, heard[v]) ELSE [heard[u] EXCEPT ![v] = {}]]
        /\ apart' = {p \in apart : v \notin p} \cup (IF full THEN known ELSE {})
        /\ UNCHANGED <<tti, on, missed>>

\* The subframe is lost (radio error, overflow): no worker of v gets it.
Miss(v) ==
    /\ Turn(v)
    /\ v \in Lossy /\ missed[v] < MaxMissed
    /\ missed' = [missed EXCEPT ![v] = @ + 1]
    /\ skipped' = [skipped EXCEPT ![v] =
                      @ \/ (resv[v].active /\ TtiAdd(tti, TxDelay) = TtiAdd(resv[v].start, Period))]
    /\ turn' = v + 1
    /\ UNCHANGED <<tti, on, resv, energy, transmit, filled, sends, heard, apart>>

NextTti ==
    /\ turn = NofVehicles + 1
    /\ tti' = TtiAdd(tti, 1)
    /\ turn' = 1
    /\ sends' = [v \in Vehicle |-> sends[v] \ {tti}]
    /\ UNCHANGED <<on, resv, energy, transmit, filled, missed, skipped, heard, apart>>

Init ==
    /\ tti = 0
    /\ on = {1}
    /\ turn = 1
    /\ resv = [v \in Vehicle |-> NoReservation]
    /\ energy = [v \in Vehicle |-> [k \in 0..(Ring - 1) |-> Unheard]]
    /\ transmit = [v \in Vehicle |-> {}]
    /\ filled = [v \in Vehicle |-> 0]
    /\ sends = [v \in Vehicle |-> {}]
    /\ missed = [v \in Vehicle |-> 0]
    /\ skipped = [v \in Vehicle |-> FALSE]
    /\ heard = [v \in Vehicle |-> [u \in Vehicle |-> {}]]
    /\ apart = {}

Process(v) == SyncTx(v) \/ KeepTx(v) \/ ReserveTx(v)

Next == NextTti \/ \E v \in Vehicle : StaysOff(v) \/ SwitchOn(v) \/ Process(v) \/ Miss(v)

\* Time goes on, and the workers of a vehicle keep up with it: the turn passes on again and
\* again (an action of Next can always do that).
Fairness == WF_turn(turn' = IF turn > NofVehicles THEN 1 ELSE turn + 1)

Spec == Init /\ [][Next]_vars /\ Fairness

-------------------------------------------------------------------------------

TypeOK ==
    /\ tti \in Tti /\ turn \in 1..(NofVehicles + 1) /\ on \subseteq Vehicle
    /\ \A v \in Vehicle :
        /\ resv[v].start \in Tti /\ resv[v].from \in Tti
        /\ resv[v].cresel <= resv[v].counter
        /\ \A k \in DOMAIN resv[v].offsets : resv[v].offsets[k] \in Candidate
        /\ energy[v] \in [0..(Ring - 1) -> {Unheard, 0, 1}]
        /\ filled[v] \in 0..SenseWindow
        /\ sends[v] \subseteq Tti

Data(v) == {t \in sends[v] : ~SyncSubframe(v, t)}

\* Two vehicles of which one chose its reservation when it had heard every resource of the
\* other's within its sensing window do not transmit data in the same subframe ("Collision
\* detected", sps_test.cc:282), however often either of them is silent for want of a packet.
HeardStayApart ==
    \A v, u \in Vehicle :
        {v, u} \in apart /\ missed[v] + missed[u] = 0 => Data(v) \cap Data(u) = {}

\* A reservation in use is younger than its counter says, unless a call at the end of one of
\* its periods was missed.
OnTime ==
    \A v \in Vehicle :
        resv[v].active /\ ~skipped[v] =>
            TtiAdd(tti, TxDelay + Cycle - resv[v].from) <= Period * (resv[v].counter + 1)

\* A master that chooses from measurements never reserves one of its synchronisation
\* subframes, in which it could not use the resource: it does not monitor them, so they are no
\* candidates.
SyncKept ==
    \A v \in Masters : resv[v].active /\ resv[v].sensed /\ missed[v] = 0 =>
        \A k \in DOMAIN resv[v].offsets, j \in 0..resv[v].counter :
            ~SyncSubframe(v, TtiAdd(resv[v].from, resv[v].offsets[k] + j * Period))

\* Every period of a reservation ends, also when the call at its end was missed: at the
\* latest when the subframe numbers come round.
PeriodsEnd ==
    \A v \in Vehicle, n \in 0..Max(Counters) :
        []<>~(resv[v].active /\ resv[v].cresel = n)
===============================================================================
