--------------------------- MODULE SensingSpsProofs ----------------------------
(***************************************************************************)
(* For any number of vehicles and any parameters of the scheduling: types, *)
(* and that a reservation does not outlive its counter unless the call at  *)
(* the end of one of its periods was missed.  When the selection window    *)
(* lies within a period, a master keeps its synchronisation subframes, and *)
(* a vehicle that chose when it had heard another one's reservation stays  *)
(* off its subframes.                                                      *)
(***************************************************************************)
EXTENDS SensingSps, FiniteSetTheorems, WellFoundedInduction, TLAPS

Reservation == [active : BOOLEAN, cresel : Nat, start : Tti, counter : Nat, from : Tti,
                offsets : Seq(Candidate), sensed : BOOLEAN]

\* A reservation that schedule() can have left behind.
Sound(r) ==
    /\ r \in Reservation
    /\ r.cresel <= r.counter
    /\ r.active => r.counter \in Counters

Types ==
    /\ tti \in Tti /\ turn \in 1 .. (NofVehicles + 1) /\ on \subseteq Vehicle
    /\ resv \in [Vehicle -> Reservation]
    /\ \A v \in Vehicle : Sound(resv[v])
    /\ energy \in [Vehicle -> [0 .. (Ring - 1) -> {Unheard, 0, 1}]]
    /\ filled \in [Vehicle -> 0 .. SenseWindow]
    /\ sends \in [Vehicle -> SUBSET Tti]
    /\ skipped \in [Vehicle -> BOOLEAN]

-------------------------------------------------------------------------------
(* Arithmetic of subframe numbers (tti_add).                                  *)

\* Subframe numbers are closed under TtiAdd; one that wraps at most once is cut once.
LEMMA TtiAddOnce ==
    ASSUME SpsAssumption
    PROVE  /\ \A t, n \in Nat : TtiAdd(t, n) \in Tti
           /\ \A t, n \in Nat : t + n < 2 * Cycle =>
                 TtiAdd(t, n) = IF t + n < Cycle THEN t + n ELSE t + n - Cycle
  BY DEF SpsAssumption, TtiAdd, Tti

\* The places of the ring.
LEMMA IdxInRing == SpsAssumption => \A t \in Nat : Idx(t) \in 0 .. (Ring - 1)
  BY DEF SpsAssumption, Idx

\* What is sent is less than a round ahead of what is received.
LEMMA DelayInRound == SpsAssumption => TxDelay \in Nat /\ TxDelay < Cycle
<1> SUFFICES ASSUME SpsAssumption PROVE TxDelay \in Nat /\ TxDelay < Cycle
  OBVIOUS
<1>1. /\ Ring \in Nat \ {0} /\ Cycle \in Nat \ {0} /\ TxDelay \in Nat /\ SenseWindow \in Nat
      /\ Cycle % Ring = 0 /\ Ring > SenseWindow + 1 + TxDelay
  BY DEF SpsAssumption
<1>2. Cycle < Ring => Cycle % Ring = Cycle
  BY <1>1
<1>3. QED
  BY <1>1, <1>2

\* The subframe to be prepared moves on with the one received.
LEMMA NextComing ==
    ASSUME SpsAssumption, NEW t \in Tti
    PROVE  TtiAdd(TtiAdd(t, 1), TxDelay) = TtiAdd(TtiAdd(t, TxDelay), 1)
<1>1. t \in Nat /\ t < Cycle /\ Cycle \in Nat \ {0} /\ TxDelay \in Nat /\ TxDelay < Cycle
  BY DelayInRound DEF SpsAssumption, Tti
<1>2. /\ TtiAdd(t, 1) = IF t + 1 < Cycle THEN t + 1 ELSE t + 1 - Cycle
      /\ TtiAdd(t, TxDelay) = IF t + TxDelay < Cycle THEN t + TxDelay ELSE t + TxDelay - Cycle
  <2>1. t + 1 < 2 * Cycle /\ t + TxDelay < 2 * Cycle
    BY <1>1
  <2>2. QED
    BY <1>1, <2>1, TtiAddOnce
<1> DEFINE a == TtiAdd(t, 1)
           b == TtiAdd(t, TxDelay)
<1>3. /\ a \in Nat /\ a < Cycle /\ a + TxDelay < 2 * Cycle
      /\ b \in Nat /\ b < Cycle /\ b + 1 < 2 * Cycle
  BY <1>1, <1>2
<1>4. /\ TtiAdd(a, TxDelay) = IF a + TxDelay < Cycle THEN a + TxDelay ELSE a + TxDelay - Cycle
      /\ TtiAdd(b, 1) = IF b + 1 < Cycle THEN b + 1 ELSE b + 1 - Cycle
  <2> HIDE DEF a, b
  <2>1. QED
    BY <1>1, <1>3, TtiAddOnce
<1>5. QED
  BY <1>1, <1>2, <1>4

\* What remains of a division.
LEMMA Remainder ==
    ASSUME NEW s \in Nat \ {0}, NEW q \in Int, NEW r \in 0 .. (s - 1)
    PROVE  (q * s + r) % s = r
  OBVIOUS

\* Whole periods do not change the place within one.
LEMMA WholePeriods ==
    ASSUME NEW s \in Nat \ {0}, NEW x \in Nat, NEW p \in Nat, p % s = 0
    PROVE  (x + p) % s = x % s
<1>1. PICK a \in Nat, i \in 0 .. (s - 1) : x = a * s + i
  <2>1. x = (x \div s) * s + (x % s) /\ x \div s \in Nat /\ x % s \in 0 .. (s - 1)
    OBVIOUS
  <2>2. QED
    BY <2>1
<1>2. PICK b \in Nat : p = b * s
  <2>1. p = (p \div s) * s + (p % s) /\ p \div s \in Nat
    OBVIOUS
  <2>2. QED
    BY <2>1
<1>3. x + p = (a + b) * s + i /\ a + b \in Int
  BY <1>1, <1>2
<1>4. (x + p) % s = i
  BY <1>3, Remainder
<1>5. x % s = i
  BY <1>1, Remainder
<1>6. QED
  BY <1>4, <1>5

-------------------------------------------------------------------------------
(* What schedule() leaves behind.                                             *)

\* The least of a set of numbers exists.
LEMMA LeastExists ==
    ASSUME NEW I \in SUBSET Nat, I # {}
    PROVE  Min(I) \in I
<1>1. PICK i \in I : \A j \in I : <<j, i>> \notin OpToRel(<, Nat)
  BY NatLessThanWellFounded, WFMin
<1>2. \A j \in I : ~(j < i)
  BY <1>1 DEF OpToRel
<1>3. \A j \in I : i <= j
  BY <1>2
<1>4. QED
  BY <1>3 DEF Min

\* resourceSelection chooses among the candidates.
LEMMA SelectionIsCandidate ==
    ASSUME NEW v, NEW t, NEW c
    PROVE  ResourceSelection(v, t, c) \subseteq Candidate
  BY DEF ResourceSelection, Quietest, Monitored

\* random_with_retx returns one or two of the candidates it is given.
LEMMA OffsetsAreCandidates ==
    ASSUME SpsAssumption, NEW set \in SUBSET Candidate, NEW i \in set
    PROVE  WithRetx(set, i) \in Seq(set)
<1> DEFINE near == {j \in set \ {i} : j >= i - MaxGap /\ j <= i + MaxGap}
<1>1. CASE near = {}
  BY <1>1 DEF WithRetx
<1>2. CASE near # {}
  <2>1. near \in SUBSET Nat
    <3>1. Candidate \subseteq Nat
      BY DEF Candidate, SpsAssumption
    <3>2. near \subseteq set
      OBVIOUS
    <3>3. QED
      BY <3>1, <3>2
  <2>2. Min(near) \in set
    BY <1>2, <2>1, LeastExists
  <2>3. QED
    BY <1>2, <2>2 DEF WithRetx
<1>3. QED
  BY <1>1, <1>2

\* The resources of a reservation taken from a set of candidates belong to it.
LEMMA ReservationOffsets ==
    ASSUME SpsAssumption, NEW set \in SUBSET Candidate, NEW c, NEW t, NEW sensed,
           NEW r \in Reservations(set, c, t, sensed)
    PROVE  r.offsets \in Seq(set)
  BY OffsetsAreCandidates DEF Reservations

\* What resourceSelection returned, and what the memory holds, are candidates.
LEMMA ChosenFrom ==
    ASSUME SpsAssumption, NEW v, NEW t, NEW r
    PROVE  /\ r \in Chosen(v, t) => \E c \in Counters :
                 r \in Reservations(ResourceSelection(v, TtiAdd(t, Cycle - TxDelay), c), c, t, TRUE)
           /\ r \in Unfounded(t) => \E set \in SUBSET Candidate, c \in Counters :
                 r \in Reservations(set, c, t, FALSE)
<1>1. ASSUME r \in Unfounded(t)
      PROVE  \E set \in SUBSET Candidate, c \in Counters : r \in Reservations(set, c, t, FALSE)
  <2>1. PICK set \in Residue : r \in UNION {Reservations(set, c, t, FALSE) : c \in Counters}
    BY <1>1 DEF Unfounded
  <2>2. set \in SUBSET Candidate
    BY DEF SpsAssumption, Candidate
  <2>3. PICK c \in Counters : r \in Reservations(set, c, t, FALSE)
    BY <2>1
  <2>4. QED
    BY <2>2, <2>3
<1>2. QED
  BY <1>1 DEF Chosen

\* A chosen reservation begins in the subframe of the call.
LEMMA ChosenSound ==
    ASSUME SpsAssumption, NEW v, NEW t \in Tti, NEW r \in Chosen(v, t) \cup Unfounded(t)
    PROVE  Sound(r) /\ r.active /\ r.from = t /\ r.start = t /\ r.cresel = r.counter
<1>1. PICK set \in SUBSET Candidate, c \in Counters :
         r \in Reservations(set, c, t, TRUE) \/ r \in Reservations(set, c, t, FALSE)
  <2>1. CASE r \in Chosen(v, t)
    <3>1. PICK c \in Counters :
             r \in Reservations(ResourceSelection(v, TtiAdd(t, Cycle - TxDelay), c), c, t, TRUE)
      BY <2>1, ChosenFrom
    <3>2. QED
      BY <3>1, SelectionIsCandidate
  <2>2. CASE r \in Unfounded(t)
    BY <2>2, ChosenFrom
  <2>3. QED
    BY <2>1, <2>2
<1>2. PICK i \in set, sensed \in BOOLEAN :
         r = [active |-> TRUE, cresel |-> c, start |-> t, counter |-> c, from |-> t,
              offsets |-> WithRetx(set, i), sensed |-> sensed]
  BY <1>1 DEF Reservations
<1>3. c \in Nat
  BY DEF SpsAssumption
<1>4. WithRetx(set, i) \in Seq(Candidate)
  <2>1. WithRetx(set, i) \in Seq(set)
    BY OffsetsAreCandidates
  <2>2. QED
    BY <2>1
<1>5. QED
  BY <1>2, <1>3, <1>4 DEF Sound, Reservation

\* What becomes of a reservation: it stays, a period of it ends, it expires, or it is renewed.
LEMMA ExtendedSound ==
    ASSUME SpsAssumption, NEW r, Sound(r), NEW t \in Tti, NEW x \in ExtendOrExpire(r, t)
    PROVE  /\ Sound(x)
           /\ \/ x = r /\ (r.active => t # TtiAdd(r.start, Period))
              \/ /\ r.active /\ t = TtiAdd(r.start, Period)
                 /\ \/ /\ x.active /\ x.cresel = r.cresel - 1 /\ x.start = t
                       /\ x.from = r.from /\ x.counter = r.counter
                    \/ ~x.active
                    \/ x.from = t /\ x.start = t /\ x.cresel = x.counter
<1>1. Counters \subseteq Nat
  BY DEF SpsAssumption
<1>2. CASE x = r /\ (r.active => t # TtiAdd(r.start, Period))
  BY <1>2
<1>3. CASE r.active /\ t = TtiAdd(r.start, Period) /\ r.cresel > 0
  <2>1. x = [r EXCEPT !.cresel = r.cresel - 1, !.start = t]
    BY <1>3 DEF ExtendOrExpire, NextPeriod
  <2>2. r.cresel - 1 \in Nat
    BY <1>3 DEF Sound, Reservation
  <2>3. x \in Reservation
    BY <2>1, <2>2 DEF Sound, Reservation
  <2>4. x.cresel = r.cresel - 1 /\ x.start = t /\ x.from = r.from /\ x.counter = r.counter /\ x.active
    BY <1>3, <2>1 DEF Sound, Reservation
  <2>5. QED
    BY <1>3, <2>2, <2>3, <2>4 DEF Sound, Reservation
<1>4. CASE r.active /\ t = TtiAdd(r.start, Period) /\ ~(r.cresel > 0)
  <2>1. \/ x = [r EXCEPT !.active = FALSE]
        \/ \E c \in Counters :
              x = [r EXCEPT !.cresel = c, !.counter = c, !.start = t, !.from = t]
    BY <1>4 DEF ExtendOrExpire, NextPeriod
  <2>2. CASE x = [r EXCEPT !.active = FALSE]
    <3>1. x \in Reservation
      BY <2>2 DEF Sound, Reservation
    <3>2. x.cresel = r.cresel /\ x.counter = r.counter /\ x.active = FALSE
      BY <2>2 DEF Sound, Reservation
    <3>3. QED
      BY <1>4, <3>1, <3>2 DEF Sound
  <2>3. ASSUME NEW c \in Counters, x = [r EXCEPT !.cresel = c, !.counter = c, !.start = t, !.from = t]
        PROVE  Sound(x) /\ x.from = t /\ x.start = t /\ x.cresel = x.counter
    <3>1. x \in Reservation
      BY <1>1, <2>3 DEF Sound, Reservation
    <3>2. x.cresel = c /\ x.counter = c /\ x.from = t /\ x.start = t
      BY <2>3 DEF Sound, Reservation
    <3>3. QED
      BY <1>1, <3>1, <3>2 DEF Sound
  <2>4. QED
    BY <1>4, <2>1, <2>2, <2>3
<1>5. QED
  BY <1>2, <1>3, <1>4 DEF ExtendOrExpire

-------------------------------------------------------------------------------
(* Types.                                                                     *)

\* The subframe that is prepared while tti is received.
Coming == TtiAdd(tti, TxDelay)

\* The subframe to come and the index of the present one are in range.
LEMMA ComingIsTti == SpsAssumption /\ Types => Coming \in Tti /\ Idx(tti) \in 0 .. (Ring - 1)
<1> SUFFICES ASSUME SpsAssumption, Types PROVE Coming \in Tti /\ Idx(tti) \in 0 .. (Ring - 1)
  OBVIOUS
<1>1. tti \in Nat /\ TxDelay \in Nat
  BY DEF SpsAssumption, Types, Tti
<1>2. QED
  BY <1>1, TtiAddOnce, IdxInRing DEF Coming

\* tick and the measurement.
LEMMA TickTypes ==
    ASSUME SpsAssumption, Types, NEW v \in Vehicle, Tick(v)
    PROVE  /\ energy' \in [Vehicle -> [0 .. (Ring - 1) -> {Unheard, 0, 1}]]
           /\ filled' \in [Vehicle -> 0 .. SenseWindow]
<1>1. Measured(v) \in {Unheard, 0, 1}
  BY DEF Measured
<1>2. energy' \in [Vehicle -> [0 .. (Ring - 1) -> {Unheard, 0, 1}]]
  BY <1>1, ComingIsTti DEF Tick, Types
<1>3. filled' \in [Vehicle -> 0 .. SenseWindow]
  BY DEF Tick, Types, SpsAssumption
<1>4. QED
  BY <1>2, <1>3

\* What a vehicle sends next.
LEMMA SendsTypes ==
    ASSUME SpsAssumption, Types, NEW v \in Vehicle, turn = v, NEW signal \in BOOLEAN,
           Sends(v, Coming, signal)
    PROVE  sends' \in [Vehicle -> SUBSET Tti] /\ turn' \in 1 .. (NofVehicles + 1)
<1>1. sends[v] \cup (IF signal THEN {Coming} ELSE {}) \in SUBSET Tti
  BY ComingIsTti DEF Types
<1>2. sends' \in [Vehicle -> SUBSET Tti]
  BY <1>1 DEF Sends, Types
<1>3. turn' \in 1 .. (NofVehicles + 1)
  BY DEF Sends, Vehicle, SpsAssumption
<1>4. QED
  BY <1>2, <1>3

\* A vehicle may send only in a subframe of its reservation.
LEMMA SignalsTypes ==
    ASSUME NEW v, NEW r, NEW t, NEW signal \in Signals(v, r, t)
    PROVE  signal \in BOOLEAN /\ (signal => ResourceAt(r, t) # 0)
  BY DEF Signals

\* The types hold at the start.
LEMMA TypeInit == SpsAssumption /\ Init => Types
<1> SUFFICES ASSUME SpsAssumption, Init PROVE Types
  OBVIOUS
<1>1. 0 \in Tti /\ NoReservation \in Reservation
  BY DEF SpsAssumption, Tti, NoReservation, Reservation
<1>2. Sound(NoReservation)
  BY <1>1 DEF Sound, NoReservation
<1>3. turn \in 1 .. (NofVehicles + 1) /\ on \subseteq Vehicle
  BY DEF Init, SpsAssumption, Vehicle
<1>4. QED
  BY <1>1, <1>2, <1>3 DEF Init, Types, SpsAssumption

-------------------------------------------------------------------------------
(* The age of a reservation.                                                  *)

\* a, which may be one round too large, is the subframe t.
Same(a, t) == a = t \/ a = t + Cycle

\* Where the current period of a reservation began, not reduced to subframe numbers.
Began(r) == r.from + Period * (r.counter - r.cresel)

\* The current period began at r.start and is not over: subframe t lies within it, or is the
\* first after it if the call for t is still due.
Fits(r, t, due) ==
    /\ Same(Began(r), r.start)
    /\ \E e \in 0 .. Period :
          /\ Same(Began(r) + e, t)
          /\ due => e >= 1
          /\ ~due => e < Period

\* The end of the last period comes less than one round after the reservation.
LEMMA AgeBound ==
    ASSUME SpsAssumption, NEW r, Sound(r), r.active
    PROVE  /\ Began(r) \in Nat /\ r.from \in Nat /\ r.from < Cycle
           /\ Began(r) + Period <= r.from + Period * (r.counter + 1)
           /\ Period * (r.counter + 1) \in Nat /\ Period * (r.counter + 1) < Cycle
           /\ Period \in Nat \ {0} /\ Period < Cycle
<1>1. /\ Period \in Nat \ {0} /\ Cycle \in Nat \ {0}
      /\ r.counter \in Nat \ {0} /\ r.cresel \in Nat /\ r.cresel <= r.counter
      /\ r.from \in Nat /\ r.from < Cycle
  BY DEF SpsAssumption, Sound, Reservation, Tti
<1>2. Period * (r.counter + 1) < Cycle
  BY DEF SpsAssumption, Sound
<1>3. Period * (r.counter - r.cresel) \in Nat
  BY <1>1
<1>4. Period * (r.counter + 1) = Period * (r.counter - r.cresel) + Period + Period * r.cresel
  BY <1>1
<1>5. Period * r.cresel \in Nat
  BY <1>1
<1>6. QED
  BY <1>1, <1>2, <1>3, <1>4, <1>5 DEF Began

\* The call at the end of the period, and only that one, sees t = TtiAdd(start, Period).
LEMMA EndOfPeriod ==
    ASSUME SpsAssumption, NEW r, Sound(r), r.active, NEW t \in Tti, Fits(r, t, TRUE)
    PROVE  /\ t = TtiAdd(r.start, Period) => Same(Began(r) + Period, t)
           /\ t # TtiAdd(r.start, Period) => Fits(r, t, FALSE)
<1>1. PICK e \in 0 .. Period : Same(Began(r) + e, t) /\ e >= 1
  BY DEF Fits
<1>2. /\ r.start \in Nat /\ r.start < Cycle /\ t \in Nat /\ t < Cycle /\ Cycle \in Nat
      /\ Period \in Nat /\ Period < Cycle /\ Began(r) \in Nat
  <2>1. r.start \in Nat /\ r.start < Cycle /\ t \in Nat /\ t < Cycle /\ Cycle \in Nat
    <3>1. r.start \in Tti /\ Cycle \in Nat
      BY DEF SpsAssumption, Sound, Reservation
    <3>2. QED
      BY <3>1 DEF Tti
  <2>2. QED
    BY <2>1, AgeBound
<1>3. TtiAdd(r.start, Period) = IF r.start + Period < Cycle THEN r.start + Period
                                ELSE r.start + Period - Cycle
  <2>1. r.start + Period < 2 * Cycle
    BY <1>2
  <2>2. QED
    BY <1>2, <2>1, TtiAddOnce
<1>4. Same(Began(r), r.start)
  BY DEF Fits
<1>5. t = TtiAdd(r.start, Period) => e = Period
  BY <1>1, <1>2, <1>3, <1>4 DEF Same
<1>6. e = Period => t = TtiAdd(r.start, Period)
  BY <1>1, <1>2, <1>3, <1>4 DEF Same
<1>7. QED
  BY <1>1, <1>2, <1>4, <1>5, <1>6 DEF Fits

\* A reservation chosen or renewed in the call for t.
LEMMA NewFits ==
    ASSUME SpsAssumption, NEW t \in Tti, NEW x, Sound(x), x.active,
           x.from = t, x.start = t, x.cresel = x.counter
    PROVE  Fits(x, t, FALSE)
<1>1. Began(x) = t
  BY DEF Began, Sound, Reservation, SpsAssumption, Tti
<1>2. 0 \in 0 .. Period /\ 0 < Period /\ t + 0 = t
  BY DEF SpsAssumption, Tti
<1>3. QED
  BY <1>1, <1>2 DEF Fits, Same

\* A reservation whose next period begins at t.
LEMMA NextFits ==
    ASSUME SpsAssumption, NEW r, Sound(r), NEW t \in Tti, NEW x, Same(Began(r) + Period, t),
           x.from = r.from, x.start = t, x.counter = r.counter, x.cresel = r.cresel - 1
    PROVE  Fits(x, t, FALSE)
<1>1. /\ r.from \in Nat /\ r.counter \in Nat /\ r.cresel \in Nat /\ Period \in Nat \ {0}
  BY DEF Sound, Reservation, SpsAssumption, Tti
<1>2. Period * (r.counter - (r.cresel - 1)) = Period * (r.counter - r.cresel) + Period
  BY <1>1
<1>3. Began(x) = Began(r) + Period /\ Began(x) + 0 = Began(x)
  BY <1>1, <1>2 DEF Began
<1>4. 0 \in 0 .. Period /\ 0 < Period
  BY <1>1
<1>5. QED
  BY <1>3, <1>4 DEF Fits

\* One subframe on, the next call is due.
LEMMA TickFits ==
    ASSUME SpsAssumption, NEW r, Sound(r), r.active, NEW t \in Tti, Fits(r, t, FALSE)
    PROVE  Fits(r, TtiAdd(t, 1), TRUE)
<1>1. PICK e \in 0 .. Period : Same(Began(r) + e, t) /\ e < Period
  BY DEF Fits
<1>2. /\ t \in Nat /\ t < Cycle /\ Cycle \in Nat \ {0} /\ Period \in Nat /\ Began(r) \in Nat
      /\ Began(r) + Period < 2 * Cycle
  BY AgeBound DEF SpsAssumption, Tti
<1>3. TtiAdd(t, 1) = IF t + 1 < Cycle THEN t + 1 ELSE t + 1 - Cycle
  BY <1>2, TtiAddOnce
<1>4. Same(Began(r) + (e + 1), TtiAdd(t, 1))
  <2>1. Began(r) + (e + 1) = (Began(r) + e) + 1 /\ Began(r) + (e + 1) < 2 * Cycle
    BY <1>1, <1>2
  <2>2. Began(r) + e = t \/ Began(r) + e = t + Cycle
    BY <1>1 DEF Same
  <2>3. CASE t + 1 < Cycle
    BY <1>2, <1>3, <2>1, <2>2, <2>3 DEF Same
  <2>4. CASE ~(t + 1 < Cycle)
    BY <1>2, <1>3, <2>1, <2>2, <2>4 DEF Same
  <2>5. QED
    BY <2>3, <2>4
<1>5. e + 1 \in 0 .. Period /\ e + 1 >= 1
  BY <1>1, <1>2
<1>6. QED
  BY <1>4, <1>5 DEF Fits

-------------------------------------------------------------------------------
(* The invariant.                                                             *)

\* Every reservation in use is as old as it should be, unless a call was missed.
Aged ==
    \A v \in Vehicle : resv[v].active /\ ~skipped[v] => Fits(resv[v], Coming, turn <= v)

\* The calls of a master at the ends of its periods are made: they do not fall on its
\* synchronisation subframes.  Vehicles that are off have no reservation.
Called ==
    /\ \A v \in Vehicle \ on : ~resv[v].active
    /\ \A v \in Vehicle : resv[v].active => ~SyncSubframe(v, resv[v].start)

SpsInv == Types /\ Aged /\ Called

\* Cutting a round off a subframe number does not change its place in a synchronisation period.
LEMMA RoundKeepsPlace ==
    ASSUME NEW s \in Nat \ {0}, NEW c \in Nat \ {0}, c % s = 0, NEW x \in Nat
    PROVE  (x % c) % s = x % s
<1>1. PICK q \in Nat, y \in Nat : x = q * c + y /\ y = x % c
  <2>1. x = (x \div c) * c + (x % c) /\ x \div c \in Nat /\ x % c \in Nat
    OBVIOUS
  <2>2. QED
    BY <2>1
<1>2. PICK b \in Nat : c = b * s
  <2>1. c = (c \div s) * s + (c % s) /\ c \div s \in Nat
    OBVIOUS
  <2>2. QED
    BY <2>1
<1>3. q * c \in Nat /\ (q * c) % s = 0
  <2>1. q * c = (q * b) * s + 0 /\ q * b \in Int /\ 0 \in 0 .. (s - 1) /\ q * c \in Nat
    BY <1>2
  <2>2. ((q * b) * s + 0) % s = 0
    BY <2>1, Remainder
  <2>3. QED
    BY <2>1, <2>2
<1>4. (y + q * c) % s = y % s
  BY <1>1, <1>3, WholePeriods
<1>5. QED
  BY <1>1, <1>3, <1>4

\* A period after a subframe that is not one for synchronisation there is none either.
LEMMA NoSyncAtEnd ==
    ASSUME SpsAssumption, NEW v, NEW s \in Tti, ~SyncSubframe(v, s)
    PROVE  ~SyncSubframe(v, TtiAdd(s, Period))
<1>1. /\ s \in Nat /\ Period \in Nat /\ Cycle \in Nat \ {0} /\ SyncPeriod \in Nat \ {0}
      /\ Period % SyncPeriod = 0 /\ Cycle % SyncPeriod = 0
  BY DEF SpsAssumption, Tti
<1>2. (s + Period) % SyncPeriod = s % SyncPeriod
  BY <1>1, WholePeriods
<1>3. s + Period \in Nat
  BY <1>1
<1>4. ((s + Period) % Cycle) % SyncPeriod = (s + Period) % SyncPeriod
  BY <1>1, <1>3, RoundKeepsPlace
<1>5. QED
  BY <1>2, <1>4 DEF SyncSubframe, TtiAdd

\* The turn of v passes: nothing changes for the others.
LEMMA TurnStep ==
    ASSUME SpsAssumption, SpsInv, NEW v \in Vehicle, v \in on, turn = v, turn' = v + 1,
           tti' = tti, on' = on, NEW r, resv' = [resv EXCEPT ![v] = r],
           \A u \in Vehicle \ {v} : skipped'[u] = skipped[u],
           r.active /\ ~skipped'[v] => Fits(r, Coming, FALSE),
           r.active => ~SyncSubframe(v, r.start)
    PROVE  Aged' /\ Called'
<1>1. Coming' = Coming
  BY DEF Coming
<1>2. \A u \in Vehicle : u \in Nat
  BY DEF Vehicle
<1>3. resv'[v] = r /\ \A u \in Vehicle \ {v} : resv'[u] = resv[u]
  BY DEF SpsInv, Types
<1>4. ASSUME NEW u \in Vehicle, resv'[u].active, ~skipped'[u] PROVE Fits(resv'[u], Coming, turn' <= u)
  <2>1. CASE u = v
    <3>1. (turn' <= u) = FALSE
      BY <1>2, <2>1
    <3>2. QED
      BY <1>3, <1>4, <2>1, <3>1
  <2>2. CASE u # v
    <3>1. (turn' <= u) = (turn <= u)
      BY <1>2, <2>2
    <3>2. QED
      BY <1>3, <1>4, <2>2, <3>1 DEF SpsInv, Aged
  <2>3. QED
    BY <2>1, <2>2
<1>5. Aged'
  BY <1>1, <1>4 DEF Aged
<1>6. Called'
  BY <1>3 DEF SpsInv, Called
<1>7. QED
  BY <1>5, <1>6

-------------------------------------------------------------------------------
(* The steps.                                                                 *)

\* A subframe in which schedule() is not called: its period does not end in it.
LEMMA SyncTxAged ==
    ASSUME SpsAssumption, SpsInv, NEW v \in Vehicle, SyncTx(v)
    PROVE  Aged' /\ Called'
<1>1. /\ v \in on /\ turn = v /\ turn' = v + 1 /\ tti' = tti /\ on' = on /\ resv' = resv
      /\ skipped' = skipped /\ SyncSubframe(v, Coming)
  BY DEF SyncTx, Turn, Sends, Coming
<1>2. Sound(resv[v]) /\ resv' = [resv EXCEPT ![v] = resv[v]] /\ Coming \in Tti
  BY <1>1, ComingIsTti DEF SpsInv, Types
<1>3. resv[v].active => ~SyncSubframe(v, resv[v].start) /\ resv[v].start \in Tti
  BY <1>2 DEF SpsInv, Called, Sound, Reservation
<1>4. resv[v].active => Coming # TtiAdd(resv[v].start, Period)
  BY <1>1, <1>3, NoSyncAtEnd
<1>5. ASSUME resv[v].active, ~skipped[v] PROVE Fits(resv[v], Coming, FALSE)
  <2>1. turn <= v
    BY <1>1 DEF Vehicle
  <2>2. Fits(resv[v], Coming, TRUE)
    BY <1>5, <2>1 DEF SpsInv, Aged
  <2>3. QED
    BY <1>2, <1>4, <1>5, <2>2, EndOfPeriod
<1>6. QED
  BY <1>1, <1>2, <1>3, <1>5, TurnStep

\* A call of schedule() that keeps a reservation or ends a period of it.
LEMMA KeepTxAged ==
    ASSUME SpsAssumption, SpsInv, NEW v \in Vehicle, KeepTx(v)
    PROVE  Aged' /\ Called'
<1>1. PICK r \in ExtendOrExpire(resv[v], Coming) :
         /\ resv' = [resv EXCEPT ![v] = r] /\ turn' = v + 1
         /\ skipped' = [skipped EXCEPT ![v] = skipped[v] /\ r.from = resv[v].from]
  BY DEF KeepTx, Sends, Coming
<1>2. v \in on /\ turn = v /\ tti' = tti /\ on' = on /\ ~SyncSubframe(v, Coming)
  BY DEF KeepTx, Turn, Coming
<1>3. Sound(resv[v]) /\ Coming \in Tti
  BY ComingIsTti DEF SpsInv, Types
<1>4. /\ skipped'[v] = (skipped[v] /\ r.from = resv[v].from)
      /\ \A u \in Vehicle \ {v} : skipped'[u] = skipped[u]
  BY <1>1 DEF SpsInv, Types
<1>5. /\ Sound(r)
      /\ \/ r = resv[v] /\ (resv[v].active => Coming # TtiAdd(resv[v].start, Period))
         \/ /\ resv[v].active /\ Coming = TtiAdd(resv[v].start, Period)
            /\ \/ /\ r.active /\ r.cresel = resv[v].cresel - 1 /\ r.start = Coming
                  /\ r.from = resv[v].from /\ r.counter = resv[v].counter
               \/ ~r.active
               \/ r.from = Coming /\ r.start = Coming /\ r.cresel = r.counter
  BY <1>1, <1>3, ExtendedSound
<1>6. r.active => ~SyncSubframe(v, r.start)
  BY <1>2, <1>5 DEF SpsInv, Called
<1>7. ASSUME resv[v].active, ~skipped[v] PROVE Fits(resv[v], Coming, TRUE)
  <2>1. turn <= v
    BY <1>2 DEF Vehicle
  <2>2. QED
    BY <1>7, <2>1 DEF SpsInv, Aged
<1>8. ASSUME r.active, ~skipped'[v] PROVE Fits(r, Coming, FALSE)
  <2>1. ~skipped[v] \/ r.from # resv[v].from
    BY <1>4, <1>8
  <2>2. CASE r = resv[v] /\ (resv[v].active => Coming # TtiAdd(resv[v].start, Period))
    BY <1>3, <1>7, <1>8, <2>1, <2>2, EndOfPeriod
  <2>3. CASE /\ resv[v].active /\ Coming = TtiAdd(resv[v].start, Period)
             /\ r.cresel = resv[v].cresel - 1 /\ r.start = Coming
             /\ r.from = resv[v].from /\ r.counter = resv[v].counter
    <3>1. Same(Began(resv[v]) + Period, Coming)
      BY <1>3, <1>7, <2>1, <2>3, EndOfPeriod
    <3>2. QED
      BY <1>3, <2>3, <3>1, NextFits
  <2>4. CASE r.from = Coming /\ r.start = Coming /\ r.cresel = r.counter
    BY <1>3, <1>5, <1>8, <2>4, NewFits
  <2>5. QED
    BY <1>5, <1>8, <2>2, <2>3, <2>4
<1>9. QED
  BY <1>1, <1>2, <1>4, <1>6, <1>8, TurnStep

\* A call of schedule() that chooses a reservation.
LEMMA ReserveTxAged ==
    ASSUME SpsAssumption, SpsInv, NEW v \in Vehicle, ReserveTx(v)
    PROVE  Aged' /\ Called'
<1>1. PICK r \in Chosen(v, Coming) \cup Unfounded(Coming) :
         resv' = [resv EXCEPT ![v] = r] /\ turn' = v + 1
  BY DEF ReserveTx, Sends, Coming
<1>2. /\ v \in on /\ turn = v /\ tti' = tti /\ on' = on /\ ~SyncSubframe(v, Coming)
      /\ skipped' = [skipped EXCEPT ![v] = FALSE]
  BY DEF ReserveTx, Turn, Coming
<1>3. Coming \in Tti /\ \A u \in Vehicle \ {v} : skipped'[u] = skipped[u]
  BY <1>2, ComingIsTti DEF SpsInv, Types
<1>4. Sound(r) /\ r.active /\ r.from = Coming /\ r.start = Coming /\ r.cresel = r.counter
  <2>1. Coming \in Tti
    BY <1>3
  <2>2. QED
    BY <2>1, ChosenSound
<1>5. Fits(r, Coming, FALSE)
  BY <1>3, <1>4, NewFits
<1>6. QED
  BY <1>1, <1>2, <1>3, <1>4, <1>5, TurnStep

\* A subframe that is missed: if the period ends in it, that is remembered.
LEMMA MissAged ==
    ASSUME SpsAssumption, SpsInv, NEW v \in Vehicle, Miss(v)
    PROVE  Aged' /\ Called'
<1>1. /\ v \in on /\ turn = v /\ turn' = v + 1 /\ tti' = tti /\ on' = on /\ resv' = resv
      /\ skipped' = [skipped EXCEPT ![v] =
            skipped[v] \/ (resv[v].active /\ Coming = TtiAdd(resv[v].start, Period))]
  BY DEF Miss, Turn, Coming
<1>2. /\ Sound(resv[v]) /\ resv' = [resv EXCEPT ![v] = resv[v]] /\ Coming \in Tti
      /\ \A u \in Vehicle \ {v} : skipped'[u] = skipped[u]
      /\ skipped'[v] = (skipped[v] \/ (resv[v].active /\ Coming = TtiAdd(resv[v].start, Period)))
  BY <1>1, ComingIsTti DEF SpsInv, Types
<1>3. ASSUME resv[v].active, ~skipped'[v] PROVE Fits(resv[v], Coming, FALSE)
  <2>1. turn <= v
    BY <1>1 DEF Vehicle
  <2>2. ~skipped[v] /\ Coming # TtiAdd(resv[v].start, Period)
    BY <1>2, <1>3
  <2>3. Fits(resv[v], Coming, TRUE)
    BY <1>3, <2>1, <2>2 DEF SpsInv, Aged
  <2>4. QED
    BY <1>2, <1>3, <2>2, <2>3, EndOfPeriod
<1>4. resv[v].active => ~SyncSubframe(v, resv[v].start)
  BY DEF SpsInv, Called
<1>5. QED
  BY <1>1, <1>2, <1>3, <1>4, TurnStep

\* A vehicle that is off has no reservation.
LEMMA OffAged ==
    ASSUME SpsAssumption, SpsInv, NEW v \in Vehicle, StaysOff(v) \/ SwitchOn(v)
    PROVE  Aged' /\ Called'
<1>1. /\ tti' = tti /\ resv' = resv /\ skipped' = skipped /\ v \notin on /\ on \subseteq on'
      /\ turn = v /\ turn' \in {v, v + 1}
  BY DEF StaysOff, SwitchOn
<1>2. ~resv[v].active
  BY <1>1 DEF SpsInv, Called
<1>3. \A u \in Vehicle \ {v} : (turn' <= u) = (turn <= u)
  BY <1>1 DEF Vehicle
<1>4. Coming' = Coming
  BY <1>1 DEF Coming
<1>5. QED
  BY <1>1, <1>2, <1>3, <1>4 DEF SpsInv, Aged, Called

\* The next subframe: every vehicle has made its call, and owes another.
LEMMA NextTtiAged ==
    ASSUME SpsAssumption, SpsInv, NextTti
    PROVE  Aged' /\ Called'
<1>1. /\ turn = NofVehicles + 1 /\ turn' = 1 /\ tti' = TtiAdd(tti, 1)
      /\ resv' = resv /\ skipped' = skipped /\ on' = on
  BY DEF NextTti
<1>2. Coming' = TtiAdd(Coming, 1) /\ Coming \in Tti
  <2>1. Coming' = TtiAdd(TtiAdd(tti, 1), TxDelay)
    BY <1>1 DEF Coming
  <2>2. Coming = TtiAdd(tti, TxDelay) /\ tti \in Tti
    BY DEF Coming, SpsInv, Types
  <2>3. QED
    BY <2>1, <2>2, ComingIsTti, NextComing DEF SpsInv
<1>3. ASSUME NEW v \in Vehicle, resv[v].active, ~skipped[v] PROVE Fits(resv[v], Coming', TRUE)
  <2>1. ~(turn <= v)
    BY <1>1 DEF Vehicle, SpsAssumption
  <2>2. (turn <= v) = FALSE
    BY <2>1
  <2>3. Fits(resv[v], Coming, FALSE)
    BY <1>3, <2>2 DEF SpsInv, Aged
  <2>4. QED
    BY <1>2, <1>3, <2>3, TickFits DEF SpsInv, Types
<1>4. \A v \in Vehicle : turn' <= v
  BY <1>1 DEF Vehicle
<1>5. Aged'
  BY <1>1, <1>3, <1>4 DEF Aged
<1>6. Called'
  BY <1>1 DEF SpsInv, Called
<1>7. QED
  BY <1>5, <1>6

\* Every step keeps the types (cc_worker.cc, ue_sl_sensing_sps.cc).
LEMMA TypeStep == SpsAssumption /\ Types /\ [Next]_vars => Types'
<1> SUFFICES ASSUME SpsAssumption, Types, [Next]_vars PROVE Types'
  OBVIOUS
<1>1. ASSUME NEW v \in Vehicle, SyncTx(v) PROVE Types'
  <2>1. /\ Tick(v) /\ turn = v /\ Sends(v, Coming, TRUE) /\ UNCHANGED <<tti, on, resv, skipped>>
    BY <1>1 DEF SyncTx, Turn, Coming
  <2>2. QED
    BY <2>1, TickTypes, SendsTypes DEF Types
<1>2. ASSUME NEW v \in Vehicle, KeepTx(v) PROVE Types'
  <2>1. PICK r \in ExtendOrExpire(resv[v], Coming) :
           /\ resv' = [resv EXCEPT ![v] = r]
           /\ \E signal \in Signals(v, r, Coming) : Sends(v, Coming, signal)
           /\ skipped' = [skipped EXCEPT ![v] = skipped[v] /\ r.from = resv[v].from]
    BY <1>2 DEF KeepTx, Coming
  <2>2. Tick(v) /\ turn = v /\ UNCHANGED <<tti, on>>
    BY <1>2 DEF KeepTx, Turn
  <2>3. Sound(r)
    BY <2>1, ComingIsTti, ExtendedSound DEF Types
  <2>4. resv' \in [Vehicle -> Reservation] /\ \A u \in Vehicle : Sound(resv'[u])
    BY <2>1, <2>3 DEF Types, Sound
  <2>5. skipped' \in [Vehicle -> BOOLEAN]
    BY <2>1 DEF Types
  <2>6. sends' \in [Vehicle -> SUBSET Tti] /\ turn' \in 1 .. (NofVehicles + 1)
    <3>1. PICK signal \in BOOLEAN : Sends(v, Coming, signal)
      BY <2>1, SignalsTypes
    <3>2. QED
      BY <2>2, <3>1, SendsTypes
  <2>7. QED
    BY <2>2, <2>4, <2>5, <2>6, TickTypes DEF Types
<1>3. ASSUME NEW v \in Vehicle, ReserveTx(v) PROVE Types'
  <2>1. PICK r \in Chosen(v, Coming) \cup Unfounded(Coming) :
           /\ resv' = [resv EXCEPT ![v] = r]
           /\ \E signal \in Signals(v, r, Coming) : Sends(v, Coming, signal)
    BY <1>3 DEF ReserveTx, Coming
  <2>2. /\ Tick(v) /\ turn = v /\ UNCHANGED <<tti, on>>
        /\ skipped' = [skipped EXCEPT ![v] = FALSE]
    BY <1>3 DEF ReserveTx, Turn
  <2>3. Sound(r)
    <3>1. Coming \in Tti
      BY ComingIsTti
    <3>2. QED
      BY <2>1, <3>1, ChosenSound
  <2>4. resv' \in [Vehicle -> Reservation] /\ \A u \in Vehicle : Sound(resv'[u])
    BY <2>1, <2>3 DEF Types, Sound
  <2>5. skipped' \in [Vehicle -> BOOLEAN]
    BY <2>2 DEF Types
  <2>6. sends' \in [Vehicle -> SUBSET Tti] /\ turn' \in 1 .. (NofVehicles + 1)
    <3>1. PICK signal \in BOOLEAN : Sends(v, Coming, signal)
      BY <2>1, SignalsTypes
    <3>2. QED
      BY <2>2, <3>1, SendsTypes
  <2>7. QED
    BY <2>2, <2>4, <2>5, <2>6, TickTypes DEF Types
<1>4. ASSUME NEW v \in Vehicle, Miss(v) PROVE Types'
  <2>1. v + 1 \in 1 .. (NofVehicles + 1)
    BY DEF Vehicle, SpsAssumption
  <2>2. skipped' \in [Vehicle -> BOOLEAN]
    BY <1>4 DEF Miss, Types
  <2>3. QED
    BY <1>4, <2>1, <2>2 DEF Miss, Types
<1>5. ASSUME NEW v \in Vehicle, StaysOff(v) PROVE Types'
  <2>1. v + 1 \in 1 .. (NofVehicles + 1)
    BY DEF Vehicle, SpsAssumption
  <2>2. QED
    BY <1>5, <2>1 DEF StaysOff, Types
<1>6. ASSUME NEW v \in Vehicle, SwitchOn(v) PROVE Types'
  BY <1>6 DEF SwitchOn, Types
<1>7. CASE NextTti
  <2>1. tti' \in Tti /\ turn' \in 1 .. (NofVehicles + 1)
    <3>1. tti \in Nat
      BY DEF Types, Tti, SpsAssumption
    <3>2. QED
      BY <1>7, <3>1, TtiAddOnce DEF NextTti, SpsAssumption
  <2>2. sends' \in [Vehicle -> SUBSET Tti]
    BY <1>7 DEF NextTti, Types
  <2>3. QED
    BY <1>7, <2>1, <2>2 DEF NextTti, Types
<1>8. CASE UNCHANGED vars
  BY <1>8 DEF vars, Types
<1>9. QED
  BY <1>1, <1>2, <1>3, <1>4, <1>5, <1>6, <1>7, <1>8 DEF Next, Process

\* The invariant.
THEOREM SpsInvariant == Spec => []SpsInv
<1> USE SpsAssumption
<1>1. Init => SpsInv
  <2> SUFFICES ASSUME Init PROVE Aged /\ Called
    BY TypeInit DEF SpsInv
  <2>1. \A v \in Vehicle : ~resv[v].active
    BY DEF Init, NoReservation
  <2>2. QED
    BY <2>1 DEF Aged, Called
<1>2. SpsInv /\ [Next]_vars => SpsInv'
  <2> SUFFICES ASSUME SpsInv, [Next]_vars PROVE Aged' /\ Called'
    BY TypeStep DEF SpsInv
  <2>1. CASE NextTti
    BY <2>1, NextTtiAged
  <2>2. ASSUME NEW v \in Vehicle, StaysOff(v) \/ SwitchOn(v) PROVE Aged' /\ Called'
    BY <2>2, OffAged
  <2>3. ASSUME NEW v \in Vehicle, Process(v) \/ Miss(v) PROVE Aged' /\ Called'
    BY <2>3, SyncTxAged, KeepTxAged, ReserveTxAged, MissAged DEF Process
  <2>4. CASE UNCHANGED vars
    BY <2>4 DEF vars, SpsInv, Aged, Called, Coming
  <2>5. QED
    BY <2>1, <2>2, <2>3, <2>4 DEF Next
<1>3. QED
  BY <1>1, <1>2, PTL DEF Spec

-------------------------------------------------------------------------------
\* For any number of vehicles, parameters and lost subframes: counters, subframe numbers and
\* the ring of energies stay within their ranges.
THEOREM TypeCorrect == Spec => []TypeOK
<1>1. Types => TypeOK
  <2> SUFFICES ASSUME Types PROVE TypeOK
    OBVIOUS
  <2>1. ASSUME NEW v \in Vehicle
        PROVE  /\ resv[v].start \in Tti /\ resv[v].from \in Tti /\ resv[v].cresel <= resv[v].counter
               /\ \A k \in DOMAIN resv[v].offsets : resv[v].offsets[k] \in Candidate
               /\ energy[v] \in [0 .. (Ring - 1) -> {Unheard, 0, 1}]
               /\ filled[v] \in 0 .. SenseWindow
               /\ sends[v] \subseteq Tti
    BY DEF Types, Sound, Reservation
  <2>2. QED
    BY <2>1 DEF Types, TypeOK
<1>2. QED
  BY <1>1, SpsInvariant, PTL DEF SpsInv

\* For any number of vehicles and any parameters, a reservation is in use no longer than its
\* counter says, unless the call at the end of one of its periods was missed.
THEOREM OnTimeHolds == Spec => []OnTime
<1>1. SpsInv => OnTime
  <2> SUFFICES ASSUME SpsInv, NEW v \in Vehicle, resv[v].active, ~skipped[v]
               PROVE  TtiAdd(tti, TxDelay + Cycle - resv[v].from) <= Period * (resv[v].counter + 1)
    BY DEF OnTime
  <2> DEFINE r == resv[v]
             life == Period * (r.counter + 1)
  <2>1. Sound(r) /\ tti \in Tti
    BY DEF SpsInv, Types
  <2>2. /\ Began(r) \in Nat /\ r.from \in Nat /\ r.from < Cycle /\ Began(r) + Period <= r.from + life
        /\ life \in Nat /\ life < Cycle /\ Period \in Nat
    BY <2>1, SpsAssumption, AgeBound
  <2>3. PICK e \in 0 .. Period : Same(Began(r) + e, Coming)
    BY DEF SpsInv, Aged, Fits
  <2>4. /\ tti \in Nat /\ tti < Cycle /\ TxDelay \in Nat /\ TxDelay < Cycle /\ Cycle \in Nat \ {0}
    BY <2>1, SpsAssumption, DelayInRound DEF SpsAssumption, Tti
  <2>5. tti + TxDelay = Coming \/ tti + TxDelay = Coming + Cycle
    <3>1. tti + TxDelay < 2 * Cycle
      BY <2>4
    <3>2. Coming = IF tti + TxDelay < Cycle THEN tti + TxDelay ELSE tti + TxDelay - Cycle
      BY <2>4, <3>1, SpsAssumption, TtiAddOnce DEF Coming
    <3>3. QED
      BY <2>4, <3>2
  <2> HIDE DEF life, r
  <2> DEFINE age == Began(r) + e - r.from
  <2>6. Coming \in Nat /\ Coming < Cycle
    BY SpsAssumption, ComingIsTti, <2>4 DEF SpsInv, Tti
  <2>7. age \in Nat /\ age <= life
    <3>1. Began(r) >= r.from
      <4>1. r.counter - r.cresel \in Nat
        BY <2>1 DEF Sound, Reservation
      <4>2. Period * (r.counter - r.cresel) \in Nat
        BY <2>2, <4>1
      <4>3. QED
        BY <2>2, <4>2 DEF Began
    <3>2. QED
      BY <2>2, <2>3, <3>1
  <2>8. \E q \in Int : tti + (TxDelay + Cycle - r.from) = q * Cycle + age
    <3>1. \/ tti + (TxDelay + Cycle - r.from) = 0 * Cycle + age
          \/ tti + (TxDelay + Cycle - r.from) = 1 * Cycle + age
          \/ tti + (TxDelay + Cycle - r.from) = 2 * Cycle + age
      <4>1. Began(r) + e = Coming \/ Began(r) + e = Coming + Cycle
        BY <2>3 DEF Same
      <4>2. Began(r) \in Int /\ e \in Int /\ r.from \in Int /\ tti \in Int
            /\ TxDelay \in Int /\ Cycle \in Int /\ Coming \in Int
        BY <2>2, <2>4, <2>6
      <4>3. QED
        BY <2>5, <4>1, <4>2
    <3>2. QED
      BY <3>1
  <2>9. TtiAdd(tti, TxDelay + Cycle - r.from) = age
    <3>1. age \in 0 .. (Cycle - 1)
      BY <2>2, <2>4, <2>7
    <3> HIDE DEF age
    <3>2. QED
      BY <2>4, <2>8, <3>1, Remainder DEF TtiAdd
  <2>10. QED
    BY <2>7, <2>9 DEF r, life
<1>2. QED
  BY <1>1, SpsInvariant, PTL

-------------------------------------------------------------------------------
(* The synchronisation subframes of a master.                                 *)

\* TX_DELAY + selectionWindowLength is within PrsvpTx (4 + 46 <= 100), and that within the
\* sensing window (1000): a subframe that was sensed lies a period before every candidate.
Windows == TxDelay + SelWindow <= Period /\ Period <= SenseWindow

\* The first subframe v has not processed.
NextOf(v) == IF turn <= v THEN tti ELSE TtiAdd(tti, 1)

\* The synchronisation subframes v processed and had flagged TxDelay subframes before it
\* received them left no energy in the ring.
UnheardSync(v) ==
    \A n \in 1 .. SenseWindow :
        n + TxDelay <= filled[v] /\ (NextOf(v) + (Cycle - n)) % SyncPeriod = 0 =>
            energy[v][(NextOf(v) + (Cycle - n)) % Ring] = Unheard

\* The synchronisation subframes that v has prepared are flagged.
FlaggedSync(v) ==
    \A n \in 0 .. (TxDelay - 1) :
        TxDelay - n <= filled[v] /\ (NextOf(v) + n) % SyncPeriod = 0 =>
            (NextOf(v) + n) % Ring \in transmit[v]

\* No resource of a reservation chosen from measurements falls on a synchronisation subframe,
\* nor will one if it is renewed.
Avoids(r) ==
    r.active /\ r.sensed =>
        /\ r.start % SyncPeriod = r.from % SyncPeriod
        /\ \A k \in DOMAIN r.offsets : (r.from + r.offsets[k]) % SyncPeriod # 0

Recorded ==
    /\ transmit \in [Vehicle -> SUBSET Nat] /\ missed \in [Vehicle -> Nat]
    /\ \A v \in Vehicle \ on : filled[v] = 0

Kept(v) == missed[v] = 0 => UnheardSync(v) /\ FlaggedSync(v) /\ Avoids(resv[v])

SyncInv == SpsInv /\ Recorded /\ \A v \in Masters : Kept(v)

\* The parameters that places in the ring and in the synchronisation period are made of.
Numbers ==
    /\ Ring \in Nat \ {0} /\ SyncPeriod \in Nat \ {0} /\ Cycle \in Nat \ {0}
    /\ Period \in Nat \ {0} /\ TxDelay \in Nat \ {0} /\ SenseWindow \in Nat \ {0}
    /\ SelWindow \in Nat \ {0}
    /\ Cycle % Ring = 0 /\ Cycle % SyncPeriod = 0 /\ Period % SyncPeriod = 0
    /\ SenseWindow + 1 + TxDelay < Ring /\ Ring <= Cycle
    /\ Masters \subseteq Vehicle

\* They are such that both places come round with the subframe numbers.
LEMMA SyncNumbers == SpsAssumption => Numbers
<1> SUFFICES ASSUME SpsAssumption PROVE Numbers
  OBVIOUS
<1>1. Cycle \in Nat \ {0} /\ Ring \in Nat \ {0} /\ Cycle % Ring = 0
  BY DEF SpsAssumption
<1>2. Cycle < Ring => Cycle % Ring = Cycle
  BY <1>1
<1>3. Ring <= Cycle
  BY <1>1, <1>2
<1>4. QED
  BY <1>1, <1>3 DEF SpsAssumption, Numbers

\* Numbers less than s apart have different remainders.
LEMMA PlacesApart ==
    ASSUME NEW s \in Nat \ {0}, NEW a \in Nat, NEW d \in 1 .. (s - 1)
    PROVE  (a + d) % s # a % s
<1>1. PICK q \in Nat, i \in 0 .. (s - 1) : a = q * s + i
  <2>1. a = (a \div s) * s + (a % s) /\ a \div s \in Nat /\ a % s \in 0 .. (s - 1)
    OBVIOUS
  <2>2. QED
    BY <2>1
<1>2. a % s = i
  BY <1>1, Remainder
<1>3. CASE i + d < s
  <2>1. a + d = q * s + (i + d) /\ i + d \in 0 .. (s - 1) /\ q \in Int
    BY <1>1, <1>3
  <2>2. (a + d) % s = i + d
    BY <2>1, Remainder
  <2>3. QED
    BY <1>2, <2>2
<1>4. CASE i + d >= s
  <2>1. a + d = (q + 1) * s + (i + d - s) /\ i + d - s \in 0 .. (s - 1) /\ q + 1 \in Int
    BY <1>1, <1>4
  <2>2. (a + d) % s = i + d - s
    BY <2>1, Remainder
  <2>3. QED
    BY <1>2, <2>2
<1>5. QED
  BY <1>1, <1>3, <1>4

\* A multiple of a multiple.
LEMMA Multiple ==
    ASSUME NEW s \in Nat \ {0}, NEW p \in Nat, p % s = 0, NEW j \in Nat
    PROVE  j * p \in Nat /\ (j * p) % s = 0
<1>1. PICK b \in Nat : p = b * s
  <2>1. p = (p \div s) * s + (p % s) /\ p \div s \in Nat
    OBVIOUS
  <2>2. QED
    BY <2>1
<1>2. j * p = (j * b) * s + 0 /\ j * b \in Int /\ 0 \in 0 .. (s - 1) /\ j * p \in Nat
  BY <1>1
<1>3. ((j * b) * s + 0) % s = 0
  BY <1>2, Remainder
<1>4. QED
  BY <1>2, <1>3

\* Numbers in the same place stay in the same place.
LEMMA SamePlace ==
    ASSUME NEW s \in Nat \ {0}, NEW a \in Nat, NEW b \in Nat, a % s = b % s, NEW k \in Nat
    PROVE  (a + k) % s = (b + k) % s
<1>1. ASSUME NEW x \in Nat PROVE (x + k) % s = ((x % s) + k) % s
  <2>1. PICK q \in Nat, i \in Nat : x = q * s + i /\ i = x % s
    <3>1. x = (x \div s) * s + (x % s) /\ x \div s \in Nat /\ x % s \in Nat
      OBVIOUS
    <3>2. QED
      BY <3>1
  <2>2. q * s \in Nat /\ (q * s) % s = 0
    <3>1. s % s = 0
      <4>1. s = 1 * s + 0 /\ 1 \in Int /\ 0 \in 0 .. (s - 1)
        OBVIOUS
      <4>2. QED
        BY <4>1, Remainder
    <3>2. QED
      BY <3>1, Multiple
  <2>3. x + k = (i + k) + q * s /\ i + k \in Nat
    BY <2>1, <2>2
  <2>4. ((i + k) + q * s) % s = (i + k) % s
    BY <2>2, <2>3, WholePeriods
  <2>5. QED
    BY <2>1, <2>3, <2>4
<1>2. QED
  BY <1>1

\* Adding to a subframe number, place by place.
LEMMA PlaceOfSum ==
    ASSUME SpsAssumption, NEW s \in Nat \ {0}, Cycle % s = 0, NEW z \in Nat, NEW n \in Nat
    PROVE  TtiAdd(z, n) % s = (z + n) % s
<1>1. z + n \in Nat /\ Cycle \in Nat \ {0}
  BY DEF SpsAssumption
<1>2. QED
  BY <1>1, RoundKeepsPlace DEF TtiAdd

\* The same for the subframe after z.
LEMMA PlaceAfterNext ==
    ASSUME SpsAssumption, NEW s \in Nat \ {0}, Cycle % s = 0, NEW z \in Tti, NEW m \in Nat
    PROVE  (TtiAdd(z, 1) + m) % s = (z + (m + 1)) % s
<1>1. z \in Nat /\ z < Cycle /\ Cycle \in Nat \ {0}
  BY DEF Tti, SpsAssumption
<1>2. TtiAdd(z, 1) = IF z + 1 < Cycle THEN z + 1 ELSE z + 1 - Cycle
  BY <1>1, TtiAddOnce
<1>3. PICK w \in Nat : w = TtiAdd(z, 1) + m
  BY <1>1, <1>2
<1>4. CASE w = z + (m + 1)
  BY <1>3, <1>4
<1>5. CASE w + Cycle = z + (m + 1)
  <2>1. (w + Cycle) % s = w % s
    BY <1>1, WholePeriods
  <2>2. QED
    BY <1>3, <1>5, <2>1
<1>6. QED
  BY <1>1, <1>2, <1>3, <1>4, <1>5

\* A master processes a subframe: what it measured in its own synchronisation subframe is
\* nothing, and the one it prepares is flagged.
LEMMA ProcessKeeps ==
    ASSUME SpsAssumption, SyncInv, NEW v \in Masters, missed[v] = 0, turn = v,
           Tick(v), turn' = v + 1, tti' = tti,
           NEW signal \in BOOLEAN, Sends(v, Coming, signal), SyncSubframe(v, Coming) => signal
    PROVE  UnheardSync(v)' /\ FlaggedSync(v)'
<1>0. Numbers
  BY SyncNumbers
<1> USE <1>0 DEF Numbers
<1>1. /\ v \in Vehicle /\ v \in Nat /\ tti \in Tti /\ tti \in Nat /\ tti < Cycle
      /\ energy \in [Vehicle -> [0 .. (Ring - 1) -> {Unheard, 0, 1}]]
      /\ filled \in [Vehicle -> 0 .. SenseWindow] /\ transmit \in [Vehicle -> SUBSET Nat]
  BY DEF SyncInv, SpsInv, Types, Tti, Recorded, Vehicle
<1>2. NextOf(v) = tti /\ NextOf(v)' = TtiAdd(tti, 1)
  BY <1>1 DEF NextOf
<1>3. /\ UnheardSync(v) /\ FlaggedSync(v)
  BY DEF SyncInv, Kept
<1>4. filled'[v] \in Nat /\ filled'[v] <= filled[v] + 1 /\ filled[v] \in Nat
  BY <1>1 DEF Tick
<1>5. /\ energy'[v][Idx(tti)] = Measured(v)
      /\ \A k \in 0 .. (Ring - 1) : k # Idx(tti) => energy'[v][k] = energy[v][k]
  BY <1>1, IdxInRing DEF Tick
<1>6. /\ SyncSubframe(v, Coming) => Idx(Coming) \in transmit'[v]
      /\ \A k \in transmit[v] : k # Idx(Coming) => k \in transmit'[v]
  BY <1>1 DEF Sends
<1>7. /\ Idx(Coming) = (tti + TxDelay) % Ring
      /\ Coming % SyncPeriod = (tti + TxDelay) % SyncPeriod
  BY <1>1, PlaceOfSum DEF Coming, Idx
<1>8. UnheardSync(v)'
  <2> SUFFICES ASSUME NEW n \in 1 .. SenseWindow, n + TxDelay <= filled'[v],
                      (TtiAdd(tti, 1) + (Cycle - n)) % SyncPeriod = 0
               PROVE  energy'[v][(TtiAdd(tti, 1) + (Cycle - n)) % Ring] = Unheard
    BY <1>2 DEF UnheardSync
  <2>1. Cycle - n \in Nat /\ n \in Nat
    OBVIOUS
  <2>2. /\ (TtiAdd(tti, 1) + (Cycle - n)) % Ring = (tti + (Cycle - n + 1)) % Ring
        /\ (TtiAdd(tti, 1) + (Cycle - n)) % SyncPeriod = (tti + (Cycle - n + 1)) % SyncPeriod
    BY <1>1, <2>1, PlaceAfterNext
  <2>3. CASE n = 1
    <3>1. tti + (Cycle - n + 1) = tti + Cycle
      BY <2>3
    <3>2. (tti + Cycle) % Ring = tti % Ring /\ (tti + Cycle) % SyncPeriod = tti % SyncPeriod
      BY <1>1, WholePeriods
    <3>3. TxDelay - 0 <= filled[v] /\ 0 \in 0 .. (TxDelay - 1) /\ tti + 0 = tti
      BY <1>1, <1>4, <2>3
    <3>4. tti % SyncPeriod = 0
      BY <2>2, <3>1, <3>2
    <3>5. tti % Ring \in transmit[v]
      BY <1>2, <1>3, <3>3, <3>4 DEF FlaggedSync
    <3>6. Measured(v) = Unheard
      BY <3>5 DEF Measured, Monitors, Idx
    <3>7. QED
      BY <1>5, <2>2, <3>1, <3>2, <3>6 DEF Idx
  <2>4. CASE n > 1
    <3> DEFINE m == n - 1
    <3>1. m \in 1 .. SenseWindow /\ m + TxDelay <= filled[v] /\ Cycle - n + 1 = Cycle - m
          /\ m \in 1 .. (Ring - 1) /\ Cycle - m \in Nat
      BY <1>4, <2>4
    <3> HIDE DEF m
    <3>2. energy[v][(tti + (Cycle - m)) % Ring] = Unheard
      BY <1>2, <1>3, <2>2, <3>1 DEF UnheardSync
    <3>3. (tti + (Cycle - m)) % Ring # tti % Ring
      <4>1. tti + (Cycle - m) \in Nat /\ (tti + (Cycle - m)) + m = tti + Cycle
        BY <1>1, <3>1
      <4>2. ((tti + (Cycle - m)) + m) % Ring # (tti + (Cycle - m)) % Ring
        BY <3>1, <4>1, PlacesApart
      <4>3. (tti + Cycle) % Ring = tti % Ring
        BY <1>1, WholePeriods
      <4>4. QED
        BY <4>1, <4>2, <4>3
    <3>4. (tti + (Cycle - m)) % Ring \in 0 .. (Ring - 1)
      <4>1. tti + (Cycle - m) \in Nat
        BY <1>1, <3>1
      <4>2. QED
        BY <4>1, IdxInRing DEF Idx
    <3>5. QED
      BY <1>5, <2>2, <3>1, <3>2, <3>3, <3>4 DEF Idx
  <2>5. QED
    BY <2>3, <2>4
<1>9. FlaggedSync(v)'
  <2> SUFFICES ASSUME NEW n \in 0 .. (TxDelay - 1), TxDelay - n <= filled'[v],
                      (TtiAdd(tti, 1) + n) % SyncPeriod = 0
               PROVE  (TtiAdd(tti, 1) + n) % Ring \in transmit'[v]
    BY <1>2 DEF FlaggedSync
  <2>1. /\ (TtiAdd(tti, 1) + n) % Ring = (tti + (n + 1)) % Ring
        /\ (TtiAdd(tti, 1) + n) % SyncPeriod = (tti + (n + 1)) % SyncPeriod
    <3>1. n \in Nat /\ Ring \in Nat \ {0} /\ SyncPeriod \in Nat \ {0}
      OBVIOUS
    <3>2. QED
      BY <1>1, <3>1, PlaceAfterNext
  <2>2. CASE n = TxDelay - 1
    <3>1. n + 1 = TxDelay
      BY <2>2
    <3>2. SyncSubframe(v, Coming)
      BY <1>7, <2>1, <3>1 DEF SyncSubframe
    <3>3. QED
      BY <1>6, <1>7, <2>1, <3>1, <3>2
  <2>3. CASE n < TxDelay - 1
    <3> DEFINE m == n + 1
    <3>1. m \in 0 .. (TxDelay - 1) /\ TxDelay - m <= filled[v] /\ TxDelay - m \in 1 .. (Ring - 1)
          /\ m \in Nat
      BY <1>4, <2>3
    <3> HIDE DEF m
    <3>2. (tti + m) % Ring \in transmit[v]
      BY <1>2, <1>3, <2>1, <3>1 DEF FlaggedSync, m
    <3>3. (tti + m) % Ring # (tti + TxDelay) % Ring
      <4>1. tti + m \in Nat /\ (tti + m) + (TxDelay - m) = tti + TxDelay
        BY <1>1, <3>1
      <4>2. ((tti + m) + (TxDelay - m)) % Ring # (tti + m) % Ring
        BY <3>1, <4>1, PlacesApart
      <4>3. QED
        BY <4>1, <4>2
    <3>4. QED
      BY <1>6, <1>7, <2>1, <3>2, <3>3 DEF m
  <2>4. QED
    BY <2>2, <2>3
<1>10. QED
  BY <1>8, <1>9

\* The turn of another vehicle, or the end of the subframe: nothing v has recorded changes.
LEMMA OthersKeep ==
    ASSUME NEW v, UnheardSync(v), FlaggedSync(v), NextOf(v)' = NextOf(v),
           energy'[v] = energy[v], filled'[v] = filled[v], transmit'[v] = transmit[v]
    PROVE  UnheardSync(v)' /\ FlaggedSync(v)'
  BY DEF UnheardSync, FlaggedSync

\* A reservation that goes on, expires or is renewed keeps its place in the
\* synchronisation period.
LEMMA ExtendedAvoids ==
    ASSUME NEW r, Sound(r), Avoids(r), NEW t \in Tti, NEW x \in ExtendOrExpire(r, t)
    PROVE  Avoids(x)
<1>0. Numbers
  BY SyncNumbers, SpsAssumption
<1>1. CASE ~r.active \/ t # TtiAdd(r.start, Period)
  BY <1>1 DEF ExtendOrExpire
<1>2. CASE r.active /\ r.sensed /\ t = TtiAdd(r.start, Period)
  <2>1. /\ r.start \in Nat /\ r.from \in Nat /\ t \in Nat
        /\ \A k \in DOMAIN r.offsets : r.offsets[k] \in Nat
    BY <1>0 DEF Sound, Reservation, Tti, Candidate, Numbers
  <2>2. t % SyncPeriod = r.from % SyncPeriod
    <3>1. PICK p \in Nat : p = r.start
      BY <2>1
    <3>2. TtiAdd(p, Period) % SyncPeriod = (p + Period) % SyncPeriod
      BY <1>0, SpsAssumption, PlaceOfSum DEF Numbers
    <3>3. (p + Period) % SyncPeriod = p % SyncPeriod
      BY <1>0, WholePeriods DEF Numbers
    <3>4. QED
      BY <1>2, <3>1, <3>2, <3>3 DEF Avoids
  <2>3. \A k \in DOMAIN r.offsets : (t + r.offsets[k]) % SyncPeriod # 0
    <3> SUFFICES ASSUME NEW k \in DOMAIN r.offsets PROVE (t + r.offsets[k]) % SyncPeriod # 0
      OBVIOUS
    <3>1. PICK p \in Nat, o \in Nat, s \in Nat \ {0} :
             p = r.from /\ o = r.offsets[k] /\ s = SyncPeriod /\ p % s = t % s /\ (p + o) % s # 0
      BY <1>0, <1>2, <2>1, <2>2 DEF Numbers, Avoids
    <3>2. t % s = p % s /\ t \in Nat /\ p \in Nat /\ o \in Nat /\ s \in Nat \ {0}
      BY <2>1, <3>1
    <3>3. (t + o) % s = (p + o) % s
      BY <3>2, SamePlace, Zenon
    <3>4. QED
      BY <3>1, <3>3
  <2>4. \/ ~x.active
        \/ x.start = t /\ x.from \in {t, r.from} /\ x.offsets = r.offsets
    <3>1. \/ x = [r EXCEPT !.cresel = r.cresel - 1, !.start = t]
          \/ x = [r EXCEPT !.active = FALSE]
          \/ \E c \in Counters :
                x = [r EXCEPT !.cresel = c, !.counter = c, !.start = t, !.from = t]
      BY <1>2 DEF ExtendOrExpire, NextPeriod
    <3>2. QED
      BY <3>1 DEF Sound, Reservation
  <2>5. QED
    BY <1>2, <2>2, <2>3, <2>4 DEF Avoids
<1>3. CASE r.active /\ ~r.sensed /\ t = TtiAdd(r.start, Period)
  <2>1. x.sensed = r.sensed
    BY <1>3 DEF ExtendOrExpire, NextPeriod, Sound, Reservation
  <2>2. QED
    BY <1>3, <2>1 DEF Avoids
<1>4. QED
  BY <1>1, <1>2, <1>3

\* No candidate that counts as monitored is a synchronisation subframe.
LEMMA MonitoredAvoids ==
    ASSUME SpsAssumption, Windows, SyncInv, NEW v \in Masters, missed[v] = 0, turn = v,
           ~SyncSubframe(v, Coming), Tick(v), filled'[v] = SenseWindow, NEW i \in Monitored(v, tti)
    PROVE  (Coming + i) % SyncPeriod # 0
<1>0. Numbers
  BY SyncNumbers
<1> USE <1>0 DEF Numbers
<1>1. /\ v \in Vehicle /\ v \in Nat /\ tti \in Tti /\ tti \in Nat /\ tti < Cycle
      /\ filled \in [Vehicle -> 0 .. SenseWindow]
      /\ Coming \in Nat
  <2>1. Coming \in Tti
    BY ComingIsTti DEF SyncInv, SpsInv
  <2>2. QED
    BY <2>1 DEF SyncInv, SpsInv, Types, Tti, Vehicle
<1>2. NextOf(v) = tti /\ UnheardSync(v)
  BY <1>1 DEF NextOf, SyncInv, Kept
<1>3. filled[v] \in Nat /\ SenseWindow <= filled[v] + 1
  BY <1>1 DEF Tick
<1>4. i \in 0 .. (SelWindow - 1) /\ EnergyAt(v, tti, Period - TxDelay - i) # Unheard
  BY DEF Monitored, Candidate
<1> SUFFICES ASSUME (Coming + i) % SyncPeriod = 0 PROVE FALSE
  OBVIOUS
<1>5. i # 0
  <2>1. Coming % SyncPeriod # 0
    BY DEF SyncSubframe
  <2>2. QED
    BY <1>1, <2>1
<1>6. PICK k \in Nat : k = Period - TxDelay - i /\ k \in 1 .. SenseWindow /\ k + TxDelay <= filled[v]
                       /\ Cycle - k \in Nat
  BY <1>3, <1>4, <1>5 DEF Windows
<1>7. EnergyAt(v, tti, k) = energy[v][(tti + (Cycle - k)) % Ring]
  <2>1. PICK d \in Nat : d = Cycle - k
    BY <1>6
  <2>2. TtiAdd(tti, d) % Ring = (tti + d) % Ring
    BY <1>1, PlaceOfSum
  <2>3. QED
    BY <2>1, <2>2 DEF EnergyAt, Idx
<1>8. (tti + (Cycle - k)) % SyncPeriod = 0
  <2>1. PICK y \in Nat, z \in Nat :
           y = tti + (Cycle - k) /\ z = tti + TxDelay + i /\ y + Period = z + Cycle
    BY <1>1, <1>4, <1>6
  <2>2. (y + Period) % SyncPeriod = y % SyncPeriod /\ (z + Cycle) % SyncPeriod = z % SyncPeriod
    BY WholePeriods
  <2>3. z % SyncPeriod = (Coming + i) % SyncPeriod
    <3>1. PICK c \in Nat : c = Coming
      BY <1>1
    <3>2. c = tti + TxDelay \/ c + Cycle = tti + TxDelay
      <4>1. TxDelay < Cycle /\ tti + TxDelay < 2 * Cycle
        BY <1>1
      <4>2. Coming = IF tti + TxDelay < Cycle THEN tti + TxDelay ELSE tti + TxDelay - Cycle
        BY <1>1, <4>1, TtiAddOnce DEF Coming
      <4>3. QED
        BY <1>1, <3>1, <4>2
    <3>3. CASE c = tti + TxDelay
      BY <2>1, <3>1, <3>3
    <3>4. CASE c + Cycle = tti + TxDelay
      <4>1. PICK w \in Nat : w = c + i /\ w + Cycle = z
        BY <1>1, <1>4, <2>1, <3>4
      <4>2. (w + Cycle) % SyncPeriod = w % SyncPeriod
        BY WholePeriods
      <4>3. QED
        BY <3>1, <4>1, <4>2
    <3>5. QED
      BY <3>2, <3>3, <3>4
  <2>4. QED
    BY <2>1, <2>2, <2>3
<1>9. energy[v][(tti + (Cycle - k)) % Ring] = Unheard
  BY <1>2, <1>6, <1>8 DEF UnheardSync
<1>10. QED
  BY <1>4, <1>6, <1>7, <1>9

\* A reservation a master chooses.
LEMMA ChosenAvoids ==
    ASSUME SpsAssumption, Windows, SyncInv, NEW v \in Masters, missed[v] = 0, turn = v,
           ~SyncSubframe(v, Coming), Tick(v), filled'[v] = SenseWindow, NEW r \in Chosen(v, Coming)
    PROVE  Avoids(r)
<1> DEFINE set(c) == ResourceSelection(v, TtiAdd(Coming, Cycle - TxDelay), c)
<1>0. Numbers
  BY SyncNumbers
<1>1. TtiAdd(Coming, Cycle - TxDelay) = tti
  <2>1. tti \in Nat /\ tti < Cycle
    BY <1>0 DEF SyncInv, SpsInv, Types, Tti, Numbers
  <2>2. TxDelay < Cycle /\ tti + TxDelay < 2 * Cycle /\ TxDelay \in Nat /\ Cycle \in Nat
    BY <1>0, <2>1 DEF Numbers
  <2>3. Coming = IF tti + TxDelay < Cycle THEN tti + TxDelay ELSE tti + TxDelay - Cycle
    BY <2>1, <2>2, TtiAddOnce DEF Coming
  <2>4. PICK c \in Nat, d \in Nat : c = Coming /\ d = Cycle - TxDelay /\ c + d < 2 * Cycle
    <3>1. Coming \in Nat /\ Coming < Cycle
      BY <2>1, <2>2, <2>3
    <3>2. Cycle - TxDelay \in Nat /\ Coming + (Cycle - TxDelay) < 2 * Cycle
      BY <2>2, <3>1
    <3>3. QED
      BY <3>1, <3>2
  <2>5. TtiAdd(c, d) = IF c + d < Cycle THEN c + d ELSE c + d - Cycle
    BY <2>4, TtiAddOnce
  <2>6. QED
    BY <2>1, <2>2, <2>3, <2>4, <2>5
<1>2. PICK c \in Counters : r \in Reservations(set(c), c, Coming, TRUE)
  BY ChosenFrom
<1>4. set(c) \in SUBSET Candidate /\ set(c) \subseteq Monitored(v, tti)
  BY <1>1, SelectionIsCandidate DEF ResourceSelection, Quietest
<1> HIDE DEF set
<1>5. r.offsets \in Seq(set(c)) /\ r.start = Coming /\ r.from = Coming
  <2>1. r.offsets \in Seq(set(c))
    BY <1>2, <1>4, ReservationOffsets
  <2>2. r.start = Coming /\ r.from = Coming
    BY <1>2 DEF Reservations
  <2>3. QED
    BY <2>1, <2>2
<1>6. ASSUME NEW k \in DOMAIN r.offsets PROVE (r.from + r.offsets[k]) % SyncPeriod # 0
  <2>1. r.offsets[k] \in Monitored(v, tti)
    BY <1>4, <1>5
  <2>2. QED
    BY <1>5, <2>1, MonitoredAvoids
<1>7. QED
  BY <1>5, <1>6 DEF Avoids

\* What the steps of a vehicle that is on have in common.
LEMMA ProcessCommon ==
    ASSUME NEW u \in Vehicle, Process(u)
    PROVE  /\ turn = u /\ u \in on /\ turn' = u + 1 /\ UNCHANGED <<tti, on, missed>> /\ Tick(u)
           /\ \E signal \in BOOLEAN :
                 Sends(u, Coming, signal) /\ (SyncSubframe(u, Coming) => signal)
<1>1. CASE SyncTx(u)
  BY <1>1 DEF SyncTx, Turn, Coming, Sends
<1>2. CASE KeepTx(u)
  <2>1. ~SyncSubframe(u, Coming) /\ \E r : \E signal \in Signals(u, r, Coming) : Sends(u, Coming, signal)
    BY <1>2 DEF KeepTx, Coming
  <2>2. QED
    BY <1>2, <2>1, SignalsTypes DEF KeepTx, Turn, Sends
<1>3. CASE ReserveTx(u)
  <2>1. ~SyncSubframe(u, Coming) /\ \E r : \E signal \in Signals(u, r, Coming) : Sends(u, Coming, signal)
    BY <1>3 DEF ReserveTx, Coming
  <2>2. QED
    BY <1>3, <2>1, SignalsTypes DEF ReserveTx, Turn, Sends
<1>4. QED
  BY <1>1, <1>2, <1>3 DEF Process

\* The reservation of a master that processes a subframe.
LEMMA ProcessAvoids ==
    ASSUME SpsAssumption, Windows, SyncInv, NEW u \in Vehicle, Process(u)
    PROVE  /\ \A v \in Vehicle \ {u} : resv'[v] = resv[v]
           /\ u \in Masters /\ missed[u] = 0 => Avoids(resv'[u])
<1>1. /\ resv \in [Vehicle -> Reservation] /\ Sound(resv[u]) /\ Coming \in Tti
      /\ u \in Masters /\ missed[u] = 0 => Avoids(resv[u])
  BY ComingIsTti DEF SyncInv, SpsInv, Types, Kept
<1>2. CASE SyncTx(u)
  BY <1>1, <1>2 DEF SyncTx
<1>3. CASE KeepTx(u)
  <2>1. PICK r \in ExtendOrExpire(resv[u], Coming) : resv' = [resv EXCEPT ![u] = r]
    BY <1>3 DEF KeepTx, Coming
  <2>2. QED
    BY <1>1, <2>1, ExtendedAvoids
<1>4. CASE ReserveTx(u)
  <2>1. PICK r : /\ resv' = [resv EXCEPT ![u] = r]
                 /\ r \in IF filled'[u] = SenseWindow THEN Chosen(u, Coming) ELSE Unfounded(Coming)
    BY <1>4 DEF ReserveTx, Coming
  <2>2. turn = u /\ ~SyncSubframe(u, Coming) /\ Tick(u)
    BY <1>4 DEF ReserveTx, Turn, Coming
  <2>3. CASE r \in Chosen(u, Coming) /\ filled'[u] = SenseWindow
    <3>1. u \in Masters /\ missed[u] = 0 => Avoids(r)
      BY <2>2, <2>3, ChosenAvoids
    <3>2. QED
      BY <1>1, <2>1, <3>1
  <2>4. CASE r \in Unfounded(Coming)
    <3>1. PICK set, c : r \in Reservations(set, c, Coming, FALSE)
      BY <2>4, SpsAssumption, ChosenFrom
    <3>2. ~r.sensed
      BY <3>1 DEF Reservations
    <3>3. QED
      BY <1>1, <2>1, <3>2 DEF Avoids
  <2>5. QED
    BY <2>1, <2>3, <2>4
<1>5. QED
  BY <1>2, <1>3, <1>4 DEF Process

\* A vehicle processes a subframe.
LEMMA ProcessSync ==
    ASSUME SpsAssumption, Windows, SyncInv, NEW u \in Vehicle, Process(u)
    PROVE  Recorded' /\ \A v \in Masters : Kept(v)'
<1>1. /\ turn = u /\ u \in on /\ turn' = u + 1 /\ UNCHANGED <<tti, on, missed>> /\ Tick(u)
  BY ProcessCommon
<1>2. PICK signal \in BOOLEAN : Sends(u, Coming, signal) /\ (SyncSubframe(u, Coming) => signal)
  BY ProcessCommon
<1>3. /\ Masters \subseteq Vehicle /\ Vehicle \subseteq Nat
      /\ transmit \in [Vehicle -> SUBSET Nat] /\ filled \in [Vehicle -> 0 .. SenseWindow]
      /\ energy \in [Vehicle -> [0 .. (Ring - 1) -> {Unheard, 0, 1}]]
  BY DEF SpsAssumption, Vehicle, SyncInv, SpsInv, Types, Recorded
<1>4. Recorded'
  <2>1. Idx(Coming) \in Nat
    <3>1. Coming \in Nat /\ Numbers
      BY ComingIsTti, SyncNumbers DEF SyncInv, SpsInv, Tti, Numbers
    <3>2. QED
      BY <3>1, IdxInRing DEF Numbers
  <2>2. transmit' \in [Vehicle -> SUBSET Nat]
    BY <1>2, <1>3, <2>1 DEF Sends
  <2>3. \A v \in Vehicle \ on : filled'[v] = filled[v]
    BY <1>1, <1>3 DEF Tick
  <2>4. QED
    BY <1>1, <2>2, <2>3 DEF Recorded, SyncInv
<1>5. ASSUME NEW v \in Masters, missed[v] = 0 PROVE UnheardSync(v)' /\ FlaggedSync(v)'
  <2>1. CASE v = u
    BY <1>1, <1>2, <1>5, <2>1, ProcessKeeps
  <2>2. CASE v # u
    <3>1. NextOf(v)' = NextOf(v)
      <4>1. (turn' <= v) <=> (turn <= v)
        BY <1>1, <1>3, <2>2
      <4>2. QED
        BY <1>1, <4>1 DEF NextOf
    <3>2. energy'[v] = energy[v] /\ filled'[v] = filled[v] /\ transmit'[v] = transmit[v]
      BY <1>1, <1>2, <1>3, <2>2 DEF Tick, Sends
    <3>3. UnheardSync(v) /\ FlaggedSync(v)
      BY <1>5 DEF SyncInv, Kept
    <3>4. QED
      BY <3>1, <3>2, <3>3, OthersKeep
  <2>3. QED
    BY <2>1, <2>2
<1>6. ASSUME NEW v \in Masters, missed[v] = 0 PROVE Avoids(resv'[v])
  BY <1>3, <1>6, ProcessAvoids DEF SyncInv, Kept
<1>7. ASSUME NEW v \in Masters PROVE Kept(v)'
  <2>1. missed'[v] = 0 => Avoids(resv[v])'
    BY <1>1, <1>6 DEF Avoids
  <2>2. QED
    BY <1>1, <1>5, <2>1 DEF Kept
<1>8. QED
  BY <1>4, <1>7

\* The other steps record nothing, and a vehicle that misses a subframe or is off claims
\* nothing.
LEMMA OtherSync ==
    ASSUME SpsAssumption, SyncInv, UNCHANGED <<energy, filled, transmit, resv>>,
           Recorded', \A v \in Vehicle : missed[v] <= missed'[v],
           \A v \in Vehicle : NextOf(v)' = NextOf(v) \/ v \notin on \/ missed'[v] # 0
    PROVE  \A v \in Masters : Kept(v)'
<1> SUFFICES ASSUME NEW v \in Masters, missed'[v] = 0
             PROVE  UnheardSync(v)' /\ FlaggedSync(v)' /\ Avoids(resv[v])'
  BY DEF Kept
<1>1. v \in Vehicle /\ missed[v] = 0
  <2>1. v \in Vehicle
    BY DEF SpsAssumption
  <2>2. missed[v] \in Nat /\ missed[v] <= 0
    BY <2>1 DEF SyncInv, Recorded
  <2>3. QED
    BY <2>1, <2>2
<1>2. Avoids(resv[v])' /\ UnheardSync(v) /\ FlaggedSync(v)
  BY <1>1 DEF SyncInv, Kept, Avoids
<1>3. CASE v \notin on
  <2>1. filled'[v] = 0
    BY <1>1, <1>3 DEF SyncInv, Recorded
  <2>2. QED
    <3>0. Numbers
      BY SyncNumbers
    <3>1. \A n \in 1 .. SenseWindow : ~(n + TxDelay <= filled'[v])
      BY <2>1, <3>0 DEF Numbers
    <3>2. \A n \in 0 .. (TxDelay - 1) : ~(TxDelay - n <= filled'[v])
      BY <2>1, <3>0 DEF Numbers
    <3>3. QED
      BY <1>2, <3>1, <3>2 DEF UnheardSync, FlaggedSync
<1>4. CASE NextOf(v)' = NextOf(v)
  BY <1>1, <1>2, <1>4, OthersKeep
<1>5. QED
  BY <1>2, <1>3, <1>4

\* The invariant of the masters.
LEMMA SyncStep == Windows /\ SyncInv /\ [Next]_vars => Recorded' /\ \A v \in Masters : Kept(v)'
<1> SUFFICES ASSUME Windows, SyncInv, [Next]_vars
             PROVE  Recorded' /\ \A v \in Masters : Kept(v)'
  OBVIOUS
<1> DEFINE Goal == Recorded' /\ \A v \in Masters : Kept(v)'
<1>1. /\ transmit \in [Vehicle -> SUBSET Nat] /\ missed \in [Vehicle -> Nat]
      /\ \A v \in Vehicle \ on : filled[v] = 0
      /\ Vehicle \subseteq Nat
  BY DEF SyncInv, Recorded, Vehicle
<1>2. ASSUME NEW u \in Vehicle, Process(u) PROVE Goal
  BY <1>2, SpsAssumption, ProcessSync
<1>3. ASSUME NEW u \in Vehicle, StaysOff(u) PROVE Goal
  <2>1. /\ turn = u /\ u \notin on /\ turn' = u + 1
        /\ UNCHANGED <<tti, on, resv, energy, transmit, filled, missed>>
    BY <1>3 DEF StaysOff
  <2>2. Recorded'
    BY <1>1, <2>1 DEF Recorded
  <2>3. \A v \in Vehicle \ {u} : NextOf(v)' = NextOf(v)
    <3>1. \A v \in Vehicle \ {u} : (turn' <= v) <=> (turn <= v)
      BY <1>1, <2>1
    <3>2. QED
      BY <2>1, <3>1 DEF NextOf
  <2>4. \A v \in Vehicle : missed[v] <= missed'[v]
    BY <1>1, <2>1
  <2>5. QED
    <3>1. \A v \in Vehicle : NextOf(v)' = NextOf(v) \/ v \notin on \/ missed'[v] # 0
      BY <2>1, <2>3, <2>4
    <3>2. QED
      BY <2>1, <2>2, <2>4, <3>1, SpsAssumption, OtherSync
<1>4. ASSUME NEW u \in Vehicle, SwitchOn(u) PROVE Goal
  <2>1. /\ UNCHANGED <<tti, turn, resv, energy, transmit, filled, missed>> /\ on \subseteq on'
    BY <1>4 DEF SwitchOn
  <2>2. Recorded'
    BY <1>1, <2>1 DEF Recorded
  <2>3. \A v \in Vehicle : NextOf(v)' = NextOf(v)
    BY <2>1 DEF NextOf
  <2>4. \A v \in Vehicle : missed[v] <= missed'[v]
    BY <1>1, <2>1
  <2>5. QED
    <3>1. \A v \in Vehicle : NextOf(v)' = NextOf(v) \/ v \notin on \/ missed'[v] # 0
      BY <2>1, <2>3, <2>4
    <3>2. QED
      BY <2>1, <2>2, <2>4, <3>1, SpsAssumption, OtherSync
<1>5. ASSUME NEW u \in Vehicle, Miss(u) PROVE Goal
  <2>1. /\ turn = u /\ turn' = u + 1 /\ missed' = [missed EXCEPT ![u] = missed[u] + 1]
        /\ UNCHANGED <<tti, on, resv, energy, transmit, filled>>
    BY <1>5 DEF Miss, Turn
  <2>2. Recorded'
    BY <1>1, <2>1 DEF Recorded
  <2>3. \A v \in Vehicle \ {u} : NextOf(v)' = NextOf(v)
    <3>1. \A v \in Vehicle \ {u} : (turn' <= v) <=> (turn <= v)
      BY <1>1, <2>1
    <3>2. QED
      BY <2>1, <3>1 DEF NextOf
  <2>4. missed'[u] # 0 /\ \A v \in Vehicle : missed[v] <= missed'[v]
    BY <1>1, <2>1
  <2>5. QED
    <3>1. \A v \in Vehicle : NextOf(v)' = NextOf(v) \/ v \notin on \/ missed'[v] # 0
      BY <2>1, <2>3, <2>4
    <3>2. QED
      BY <2>1, <2>2, <2>4, <3>1, SpsAssumption, OtherSync
<1>6. ASSUME NextTti PROVE Goal
  <2>1. /\ turn = NofVehicles + 1 /\ turn' = 1 /\ tti' = TtiAdd(tti, 1)
        /\ UNCHANGED <<on, resv, energy, transmit, filled, missed>>
    BY <1>6 DEF NextTti
  <2>2. Recorded'
    BY <1>1, <2>1 DEF Recorded
  <2>3. \A v \in Vehicle : NextOf(v)' = NextOf(v)
    <3>1. \A v \in Vehicle : ~(turn <= v) /\ turn' <= v
      BY <2>1, SpsAssumption DEF Vehicle
    <3>2. QED
      BY <2>1, <3>1 DEF NextOf
  <2>4. \A v \in Vehicle : missed[v] <= missed'[v]
    BY <1>1, <2>1
  <2>5. QED
    <3>1. \A v \in Vehicle : NextOf(v)' = NextOf(v) \/ v \notin on \/ missed'[v] # 0
      BY <2>1, <2>3, <2>4
    <3>2. QED
      BY <2>1, <2>2, <2>4, <3>1, SpsAssumption, OtherSync
<1>7. ASSUME UNCHANGED vars PROVE Goal
  BY <1>7 DEF vars, SyncInv, Recorded, Kept, UnheardSync, FlaggedSync, NextOf, Avoids
<1>8. QED
  BY <1>2, <1>3, <1>4, <1>5, <1>6, <1>7 DEF Next, Process

\* While the candidates of a call lie within a period of it and that within the sensing window,
\* a master that loses no subframe and chooses from measurements never reserves a resource on its synchronisation subframes
\* (resourceSelection leaves out what was not monitored, setTransmit in cc_worker.cc).
THEOREM SyncKeptHolds == Windows /\ Spec => []SyncKept
<1> SUFFICES ASSUME Windows PROVE Spec => []SyncKept
  OBVIOUS
<1>1. Init => Recorded /\ \A v \in Masters : Kept(v)
  <2> SUFFICES ASSUME Init PROVE Recorded /\ \A v \in Masters : Kept(v)
    OBVIOUS
  <2>1. Recorded
    BY DEF Init, Recorded
  <2>2. ASSUME NEW v \in Masters PROVE Kept(v)
    <3>0. Numbers
      BY SpsAssumption, SyncNumbers
    <3>1. v \in Vehicle
      BY <3>0 DEF Numbers
    <3>2. filled[v] = 0 /\ ~resv[v].active
      BY <3>1 DEF Init, NoReservation
    <3>3. UnheardSync(v) /\ FlaggedSync(v)
      <4>1. \A n \in 1 .. SenseWindow : ~(n + TxDelay <= filled[v])
        BY <3>0, <3>2 DEF Numbers
      <4>2. \A n \in 0 .. (TxDelay - 1) : ~(TxDelay - n <= filled[v])
        BY <3>0, <3>2 DEF Numbers
      <4>3. QED
        BY <4>1, <4>2 DEF UnheardSync, FlaggedSync
    <3>4. QED
      BY <3>2, <3>3 DEF Kept, Avoids
  <2>3. QED
    BY <2>1, <2>2
<1>2. SpsInv /\ SpsInv' /\ (Recorded /\ \A v \in Masters : Kept(v)) /\ [Next]_vars
        => (Recorded /\ \A v \in Masters : Kept(v))'
  BY SyncStep DEF SyncInv
<1>3. SpsInv /\ (Recorded /\ \A v \in Masters : Kept(v)) => SyncKept
  <2> SUFFICES ASSUME SpsInv, NEW v \in Masters, Kept(v), resv[v].active, resv[v].sensed, missed[v] = 0,
                      NEW k \in DOMAIN resv[v].offsets, NEW j \in 0 .. resv[v].counter
               PROVE  ~SyncSubframe(v, TtiAdd(resv[v].from, resv[v].offsets[k] + j * Period))
    BY DEF SyncKept
  <2>0. Numbers
    BY SpsAssumption, SyncNumbers
  <2>1. /\ resv[v].from \in Nat /\ resv[v].offsets[k] \in Nat /\ resv[v].counter \in Nat
        /\ (resv[v].from + resv[v].offsets[k]) % SyncPeriod # 0
    <3>1. Sound(resv[v])
      BY <2>0 DEF SpsInv, Types, Numbers
    <3>2. (resv[v].from + resv[v].offsets[k]) % SyncPeriod # 0
      BY DEF Kept, Avoids
    <3>3. resv[v].from \in Tti /\ resv[v].offsets[k] \in Candidate /\ resv[v].counter \in Nat
      BY <3>1 DEF Sound, Reservation
    <3>4. QED
      BY <2>0, <3>2, <3>3 DEF Tti, Candidate, Numbers
  <2>2. PICK f \in Nat, o \in Nat : f = resv[v].from /\ o = resv[v].offsets[k]
    BY <2>1
  <2>3. j \in Nat /\ j * Period \in Nat /\ (j * Period) % SyncPeriod = 0
    <3>1. j \in Nat /\ Period \in Nat
      BY <2>0, <2>1 DEF Numbers
    <3>2. QED
      BY <2>0, <3>1, Multiple DEF Numbers
  <2>4. PICK p \in Nat, x \in Nat, y \in Nat :
           p = j * Period /\ p % SyncPeriod = 0 /\ x = f + o /\ y = o + p /\ f + y = x + p
    BY <2>2, <2>3
  <2>5. TtiAdd(f, y) % SyncPeriod = (f + y) % SyncPeriod
    BY <2>0, SpsAssumption, PlaceOfSum DEF Numbers
  <2>6. (x + p) % SyncPeriod = x % SyncPeriod
    BY <2>0, <2>4, WholePeriods DEF Numbers
  <2>7. TtiAdd(f, y) % SyncPeriod # 0
    BY <2>1, <2>2, <2>4, <2>5, <2>6
  <2>8. QED
    BY <2>2, <2>4, <2>7 DEF SyncSubframe
<1>4. QED
  BY <1>1, <1>2, <1>3, SpsInvariant, PTL DEF Spec

-------------------------------------------------------------------------------
(* Numbers that are whole periods.                                            *)

\* The selection window lies within a period (4 + 46 <= 100), a candidate is compared with at
\* most Scale measurements (1000 < 12 * 100), and no announced repetition, PStep times too
\* late, falls into the selection window (100 + 1000 < 100 * 100).
Spans ==
    /\ TxDelay + SelWindow <= Period
    /\ SenseWindow < Scale * Period
    /\ Period + SenseWindow < Period * Period

Whole(x) == x % Period = 0

\* A whole number of periods is a multiple.
LEMMA WholeMeans ==
    ASSUME SpsAssumption, NEW x \in Int
    PROVE  Whole(x) <=> \E j \in Int : x = j * Period
<1>1. Period \in Nat \ {0}
  BY DEF SpsAssumption
<1>2. ASSUME x % Period = 0 PROVE \E j \in Int : x = j * Period
  <2>1. PICK j \in Int : j = x \div Period /\ x = j * Period + (x % Period)
    BY <1>1
  <2>2. x = j * Period
    BY <1>1, <1>2, <2>1
  <2>3. QED
    BY <2>2
<1>3. ASSUME NEW j \in Int, x = j * Period PROVE x % Period = 0
  <2>1. x = j * Period + 0 /\ 0 \in 0 .. (Period - 1)
    BY <1>1, <1>3
  <2>2. QED
    BY <1>1, <2>1, Remainder
<1>4. QED
  BY <1>2, <1>3 DEF Whole

\* Sums, differences and multiples of whole periods are whole; less than a period is not,
\* except nothing.
LEMMA WholeSum ==
    ASSUME SpsAssumption
    PROVE  /\ \A x, y \in Int : Whole(x) /\ Whole(y) => Whole(x + y) /\ Whole(x - y)
           /\ \A x \in Int : Whole(x) /\ x < Period /\ x > -Period => x = 0
           /\ \A c \in Nat : Whole(Period * c)
           /\ Whole(0)
<1>1. Period \in Nat \ {0}
  BY DEF SpsAssumption
<1>2. ASSUME NEW x \in Int, NEW y \in Int, Whole(x), Whole(y) PROVE Whole(x + y) /\ Whole(x - y)
  <2>1. PICK i \in Int, j \in Int : x = i * Period /\ y = j * Period
    BY <1>2, WholeMeans
  <2>2. x + y = (i + j) * Period /\ i + j \in Int /\ x - y = (i - j) * Period /\ i - j \in Int
    BY <1>1, <2>1
  <2>3. QED
    BY <2>2, WholeMeans
<1>3. ASSUME NEW x \in Int, Whole(x), x < Period, x > -Period PROVE x = 0
  <2>1. PICK i \in Int : x = i * Period
    BY <1>3, WholeMeans
  <2>2. i >= 1 => x >= Period
    BY <1>1, <2>1
  <2>3. i <= -1 => x <= -Period
    BY <1>1, <2>1
  <2>4. i = 0
    BY <1>3, <2>2, <2>3
  <2>5. QED
    BY <1>1, <2>1, <2>4
<1>4. ASSUME NEW c \in Nat PROVE Whole(Period * c)
  <2>1. Period * c = c * Period /\ Period * c \in Int /\ c \in Int
    BY <1>1
  <2>2. QED
    BY <2>1, WholeMeans
<1>5. Period * 0 = 0
  BY <1>1
<1>6. QED
  BY <1>2, <1>3, <1>4, <1>5

-------------------------------------------------------------------------------
(* Subframes before another one, and the age of a reservation.                *)

\* The subframe b before t.
Before(t, b) == TtiAdd(t, Cycle - b)

\* How many subframes before t the reservation r begins.
Age(r, t) == Before(t, r.from)

\* Going forwards and backwards in a round of c.
LEMMA RoundTrip ==
    ASSUME NEW c \in Nat, NEW x \in Nat, NEW y \in Nat, NEW a \in Nat, x < c, y < c, a < c,
           NEW p \in Int, p = (IF x + a < c THEN x + a ELSE x + a - c),
           NEW q \in Int, q = (IF x <= y THEN y - x ELSE y - x + c),
           NEW r \in Int, r = (IF a <= y THEN y - a ELSE y - a + c)
    PROVE  /\ p = y <=> q = a
           /\ p = y <=> r = x
           /\ p >= 0 /\ p < c /\ r >= 0 /\ r < c
<1>1. p >= 0 /\ p < c /\ r >= 0 /\ r < c
  OBVIOUS
<1>2. p = y <=> q = a
  OBVIOUS
<1>3. p = y <=> r = x
  OBVIOUS
<1>4. QED
  BY <1>1, <1>2, <1>3

\* Two subframes are as far apart forwards as backwards.
LEMMA Distance ==
    ASSUME SpsAssumption, NEW x \in Tti, NEW y \in Tti, NEW a \in 0 .. (Cycle - 1)
    PROVE  /\ TtiAdd(x, a) = y <=> Before(y, x) = a
           /\ TtiAdd(x, a) = y <=> Before(y, a) = x
           /\ Before(y, a) \in Tti /\ TtiAdd(x, a) \in Tti
<1>1. /\ Cycle \in Nat \ {0} /\ x \in Nat /\ x < Cycle /\ y \in Nat /\ y < Cycle
      /\ a \in Nat /\ a < Cycle
  BY DEF SpsAssumption, Tti
<1>2. PICK p \in Int : p = TtiAdd(x, a) /\ p = (IF x + a < Cycle THEN x + a ELSE x + a - Cycle)
  <2>1. x + a < 2 * Cycle
    BY <1>1
  <2>2. TtiAdd(x, a) = IF x + a < Cycle THEN x + a ELSE x + a - Cycle
    BY <1>1, <2>1, TtiAddOnce
  <2>3. TtiAdd(x, a) \in Int
    BY <1>1, TtiAddOnce DEF Tti
  <2>4. QED
    BY <2>2, <2>3
<1>3. ASSUME NEW b \in Nat, b < Cycle
      PROVE  Before(y, b) \in Int /\ Before(y, b) = IF b <= y THEN y - b ELSE y - b + Cycle
  <2>1. PICK d \in Nat : d = Cycle - b 
    BY <1>1, <1>3
  <2>2. y + d < 2 * Cycle /\ d = Cycle - b
    BY <1>1, <1>3, <2>1
  <2>3. TtiAdd(y, d) = IF y + d < Cycle THEN y + d ELSE y + d - Cycle
    BY <1>1, <2>2, TtiAddOnce
  <2>4. QED
    BY <1>1, <1>3, <2>2, <2>3 DEF Before
<1>4. PICK q \in Int : q = Before(y, x) /\ q = (IF x <= y THEN y - x ELSE y - x + Cycle)
  BY <1>1, <1>3
<1>5. PICK r \in Int : r = Before(y, a) /\ r = (IF a <= y THEN y - a ELSE y - a + Cycle)
  BY <1>1, <1>3
<1>6. /\ p = y <=> q = a
      /\ p = y <=> r = x
      /\ p >= 0 /\ p < Cycle /\ r >= 0 /\ r < Cycle
  BY <1>1, <1>2, <1>4, <1>5, RoundTrip
<1>7. p \in Tti /\ r \in Tti
  BY <1>1, <1>6 DEF Tti
<1>8. QED
  BY <1>2, <1>4, <1>5, <1>6, <1>7

\* The subframes before t, and before the one after it.
LEMMA BeforeApart ==
    ASSUME SpsAssumption, NEW t \in Tti
    PROVE  /\ \A b \in 0 .. (Cycle - 1) : Before(t, b) \in Tti
           /\ \A b, c \in 0 .. (Cycle - 1) : Before(t, b) = Before(t, c) => b = c
           /\ Before(t, 0) = t
<1>1. Cycle \in Nat \ {0} /\ 0 \in 0 .. (Cycle - 1)
  BY DEF SpsAssumption
<1>2. \A b \in 0 .. (Cycle - 1) : Before(t, b) \in Tti /\ TtiAdd(Before(t, b), b) = t
  BY Distance
<1>3. \A b \in 0 .. (Cycle - 1) : Before(t, Before(t, b)) = b
  BY <1>2, Distance
<1>4. Before(t, 0) = t
  <2>1. t \in Nat /\ t < Cycle /\ t + 0 < 2 * Cycle /\ t + 0 = t /\ 0 \in Nat
    BY <1>1 DEF Tti
  <2>2. TtiAdd(t, 0) = t
    BY <2>1, TtiAddOnce
  <2>3. QED
    BY <1>1, <2>2, Distance
<1>5. QED
  BY <1>2, <1>3, <1>4

LEMMA BeforeNext ==
    ASSUME SpsAssumption, NEW t \in Tti, NEW b \in 0 .. (Cycle - 2)
    PROVE  Before(TtiAdd(t, 1), b + 1) = Before(t, b)
<1>1. /\ Cycle \in Nat \ {0} /\ t \in Nat /\ t < Cycle /\ b \in Nat /\ b < Cycle
      /\ b \in 0 .. (Cycle - 1) /\ b + 1 \in 0 .. (Cycle - 1) /\ Cycle > 1
  BY DEF SpsAssumption, Tti
<1>2. PICK x \in Tti : x = Before(t, b)
  BY <1>1, Distance
<1>3. TtiAdd(x, b) = t /\ x \in Nat /\ x < Cycle
  BY <1>1, <1>2, Distance DEF Tti
<1>4. PICK y \in Tti : y = TtiAdd(t, 1)
  <2>1. 1 \in 0 .. (Cycle - 1)
    BY <1>1
  <2>2. QED
    BY <2>1, Distance
<1>5. /\ TtiAdd(x, b) = IF x + b < Cycle THEN x + b ELSE x + b - Cycle
      /\ TtiAdd(x, b + 1) = IF x + (b + 1) < Cycle THEN x + (b + 1) ELSE x + (b + 1) - Cycle
      /\ TtiAdd(t, 1) = IF t + 1 < Cycle THEN t + 1 ELSE t + 1 - Cycle
  <2>1. x + b < 2 * Cycle /\ x + (b + 1) < 2 * Cycle /\ t + 1 < 2 * Cycle /\ b + 1 \in Nat
    BY <1>1, <1>3
  <2>2. QED
    BY <1>1, <1>3, <2>1, TtiAddOnce
<1>6. TtiAdd(x, b + 1) = y
  BY <1>1, <1>3, <1>4, <1>5
<1>7. QED
  BY <1>1, <1>2, <1>4, <1>6, Distance

\* Two steps forward.
LEMMA AddTwice ==
    ASSUME SpsAssumption, NEW x \in Tti, NEW m \in Nat, NEW n \in Nat, m + n < Cycle
    PROVE  TtiAdd(TtiAdd(x, m), n) = TtiAdd(x, m + n)
<1>1. Cycle \in Nat \ {0} /\ x \in Nat /\ x < Cycle /\ m < Cycle /\ n < Cycle /\ m + n \in Nat
  BY DEF SpsAssumption, Tti
<1>2. PICK y \in Nat : y = TtiAdd(x, m) /\ y = (IF x + m < Cycle THEN x + m ELSE x + m - Cycle) /\ y < Cycle
  <2>1. x + m < 2 * Cycle
    BY <1>1
  <2>2. TtiAdd(x, m) = IF x + m < Cycle THEN x + m ELSE x + m - Cycle
    BY <1>1, <2>1, TtiAddOnce
  <2>3. TtiAdd(x, m) \in Tti
    BY <1>1, TtiAddOnce
  <2>4. TtiAdd(x, m) \in Nat /\ TtiAdd(x, m) < Cycle
    BY <1>1, <2>3 DEF Tti
  <2>5. QED
    BY <2>2, <2>4
<1>3. /\ TtiAdd(y, n) = IF y + n < Cycle THEN y + n ELSE y + n - Cycle
      /\ TtiAdd(x, m + n) = IF x + (m + n) < Cycle THEN x + (m + n) ELSE x + (m + n) - Cycle
  <2>1. y + n < 2 * Cycle /\ x + (m + n) < 2 * Cycle
    BY <1>1, <1>2
  <2>2. QED
    BY <1>1, <1>2, <2>1, TtiAddOnce
<1>4. CASE x + m < Cycle
  BY <1>1, <1>2, <1>3, <1>4
<1>5. CASE ~(x + m < Cycle)
  BY <1>1, <1>2, <1>3, <1>5
<1>6. QED
  BY <1>4, <1>5

\* A reservation in use is younger than its counter says, and exactly that old when it ends.
LEMMA AgeFits ==
    ASSUME SpsAssumption, NEW r, Sound(r), r.active, NEW t \in Tti, NEW due \in BOOLEAN, Fits(r, t, due)
    PROVE  /\ Age(r, t) \in Nat /\ Period * (r.counter + 1) \in Nat
           /\ Age(r, t) <= Period * (r.counter + 1) /\ Period * (r.counter + 1) < Cycle
           /\ ~due => Age(r, t) < Period * (r.counter + 1)
           /\ t = TtiAdd(r.start, Period) /\ ~(r.cresel > 0) =>
                 Age(r, t) = Period * (r.counter + 1)
<1>1. /\ Began(r) \in Nat /\ r.from \in Nat /\ r.from < Cycle
      /\ Began(r) + Period <= r.from + Period * (r.counter + 1)
      /\ Period * (r.counter + 1) \in Nat /\ Period * (r.counter + 1) < Cycle
      /\ Period \in Nat \ {0} /\ Period < Cycle
  BY AgeBound
<1>2. PICK e \in 0 .. Period : /\ Same(Began(r) + e, t)
                               /\ due => e >= 1
                               /\ ~due => e < Period
  BY DEF Fits
<1>3. r.counter \in Nat /\ r.cresel \in Nat /\ r.cresel <= r.counter /\ r.from \in Tti
  BY DEF Sound, Reservation
<1>4. t \in Nat /\ t < Cycle /\ Cycle \in Nat \ {0}
  BY DEF Tti, SpsAssumption
<1>5. Began(r) >= r.from
  <2>1. r.counter - r.cresel \in Nat
    BY <1>3
  <2>2. Period * (r.counter - r.cresel) \in Nat
    BY <1>1, <2>1
  <2>3. QED
    BY <1>1, <2>2 DEF Began
<1>6. PICK a \in Nat : a = Began(r) + e - r.from
  BY <1>1, <1>5
<1>7. a <= Period * (r.counter + 1) /\ a \in 0 .. (Cycle - 1) /\ (e < Period => a < Period * (r.counter + 1))
  BY <1>1, <1>4, <1>6
<1>8. Age(r, t) = a
  <2>1. TtiAdd(r.from, a) = IF r.from + a < Cycle THEN r.from + a ELSE r.from + a - Cycle
    <3>1. r.from + a < 2 * Cycle
      BY <1>1, <1>4, <1>7
    <3>2. QED
      BY <1>1, <3>1, TtiAddOnce
  <2>2. r.from + a = t \/ r.from + a = t + Cycle
    BY <1>1, <1>2, <1>6 DEF Same
  <2>3. TtiAdd(r.from, a) = t
    BY <1>1, <1>4, <2>1, <2>2
  <2>4. QED
    BY <1>3, <1>7, <2>3, Distance DEF Age
<1>9. ASSUME t = TtiAdd(r.start, Period), ~(r.cresel > 0) PROVE a = Period * (r.counter + 1)
  <2>1. Same(Began(r) + Period, t)
    <3>1. r.start \in Nat /\ r.start < Cycle
      BY DEF Sound, Reservation, Tti
    <3>2. TtiAdd(r.start, Period) = IF r.start + Period < Cycle THEN r.start + Period ELSE r.start + Period - Cycle
      <4>1. r.start + Period < 2 * Cycle
        BY <1>1, <3>1
      <4>2. QED
        BY <1>1, <3>1, <4>1, TtiAddOnce
    <3>3. Same(Began(r), r.start) /\ Began(r) + e \in Nat
      BY <1>1 DEF Fits
    <3>4. Began(r) + Period < 2 * Cycle
      BY <1>1
    <3>5. CASE r.start + Period < Cycle
      BY <1>1, <1>2, <1>4, <1>9, <3>1, <3>2, <3>3, <3>4, <3>5 DEF Same
    <3>6. CASE ~(r.start + Period < Cycle)
      BY <1>1, <1>2, <1>4, <1>9, <3>1, <3>2, <3>3, <3>4, <3>6 DEF Same
    <3>7. QED
      BY <3>5, <3>6
  <2>2. e = Period
    BY <1>1, <1>2, <1>4, <2>1 DEF Same
  <2>3. r.counter - r.cresel = r.counter
    BY <1>3, <1>9
  <2>4. Period * r.counter + Period = Period * (r.counter + 1)
    BY <1>1, <1>3
  <2>5. QED
    BY <1>1, <1>3, <1>6, <2>2, <2>3, <2>4 DEF Began
<1>10. QED
  BY <1>1, <1>2, <1>7, <1>8, <1>9

\* It grows by the subframe.
LEMMA AgeNext ==
    ASSUME SpsAssumption, NEW r, r.from \in Tti, NEW t \in Tti, Age(r, t) + 1 < Cycle
    PROVE  Age(r, TtiAdd(t, 1)) = Age(r, t) + 1
<1>1. Cycle \in Nat \ {0} /\ r.from \in 0 .. (Cycle - 1)
  BY DEF SpsAssumption, Tti
<1>2. PICK a \in 0 .. (Cycle - 1) : a = Age(r, t)
  <2>1. Age(r, t) \in Tti
    BY <1>1, BeforeApart DEF Age
  <2>2. QED
    BY <2>1 DEF Tti
<1>3. a \in 0 .. (Cycle - 2) /\ a + 1 \in 0 .. (Cycle - 1) /\ 1 \in 0 .. (Cycle - 1)
  BY <1>1, <1>2
<1>4. TtiAdd(r.from, a) = t
  BY <1>2, Distance DEF Age
<1>5. Before(t, a) = r.from
  BY <1>2, <1>4, Distance
<1>6. PICK f \in Tti, y \in Tti, c \in 0 .. (Cycle - 1) : f = r.from /\ y = TtiAdd(t, 1) /\ c = a + 1
  BY <1>3, Distance
<1>7. Before(y, c) = f
  BY <1>3, <1>5, <1>6, BeforeNext
<1>8. TtiAdd(f, c) = y
  BY <1>7, Distance
<1>9. Before(y, f) = c
  BY <1>8, Distance
<1>10. QED
  BY <1>2, <1>6, <1>9 DEF Age

-------------------------------------------------------------------------------
(* The subframes a reservation is for.                                        *)

\* The subframe b before t is one for resource k of r, in this period or another one.
FallsOn(r, t, k, b) == Whole(Age(r, t) - b - r.offsets[k])

Falls(r, t, b) == r.active /\ \E k \in DOMAIN r.offsets : FallsOn(r, t, k, b)

\* What is known of the numbers in a reservation.
LEMMA SoundNumbers ==
    ASSUME SpsAssumption, Spans, NEW r, Sound(r), NEW t \in Tti
    PROVE  /\ Age(r, t) \in Nat /\ Age(r, t) < Cycle /\ r.from \in Tti /\ r.counter \in Nat
           /\ DOMAIN r.offsets \subseteq Nat \ {0}
           /\ \A k \in DOMAIN r.offsets :
                 r.offsets[k] \in Nat /\ r.offsets[k] <= SelWindow - 1
           /\ Period \in Nat \ {0} /\ TxDelay \in Nat \ {0} /\ SelWindow \in Nat \ {0}
           /\ SenseWindow \in Nat \ {0} /\ Cycle \in Nat \ {0} /\ Ring \in Nat \ {0}
           /\ TxDelay + SelWindow <= Period
<1>1. r.from \in Tti /\ r.counter \in Nat /\ r.offsets \in Seq(Candidate)
  BY DEF Sound, Reservation
<1>2. Cycle \in Nat \ {0} /\ SelWindow \in Nat \ {0}
  BY DEF SpsAssumption
<1>3. Before(t, r.from) \in Tti
  <2>1. r.from \in 0 .. (Cycle - 1)
    BY <1>1 DEF Tti
  <2>2. QED
    BY <2>1, BeforeApart
<1>4. Age(r, t) \in Nat /\ Age(r, t) < Cycle
  BY <1>2, <1>3 DEF Age, Tti
<1>5. DOMAIN r.offsets \subseteq Nat \ {0} /\ \A k \in DOMAIN r.offsets : r.offsets[k] \in Candidate
  <2>1. PICK s \in Seq(Candidate) : s = r.offsets
    BY <1>1
  <2>2. DOMAIN s = 1 .. Len(s) /\ Len(s) \in Nat
    OBVIOUS
  <2>3. \A k \in DOMAIN s : s[k] \in Candidate
    OBVIOUS
  <2>4. DOMAIN s \subseteq Nat \ {0}
    BY <2>2
  <2>5. QED
    BY <2>1, <2>3, <2>4
<1>6. \A k \in DOMAIN r.offsets : r.offsets[k] \in Nat /\ r.offsets[k] <= SelWindow - 1
  BY <1>2, <1>5 DEF Candidate
<1>7. QED
  BY <1>1, <1>2, <1>4, <1>5, <1>6 DEF SpsAssumption, Spans

\* A subframe that schedule() finds to be one for resource k is one.
LEMMA ResourceFalls ==
    ASSUME SpsAssumption, Spans, NEW r, Sound(r), NEW t \in Tti, NEW b \in 0 .. TxDelay,
           ResourceAt(r, Before(t, b)) # 0
    PROVE  /\ r.active /\ ResourceAt(r, Before(t, b)) \in DOMAIN r.offsets
           /\ FallsOn(r, t, ResourceAt(r, Before(t, b)), b)
<1> DEFINE z == Before(t, b)
           hits == {k \in DOMAIN r.offsets :
                      \E j \in 0 .. r.counter : z = TtiAdd(r.from, r.offsets[k] + j * Period)}
<1>1. /\ Age(r, t) \in Nat /\ r.from \in Tti /\ r.counter \in Nat
      /\ DOMAIN r.offsets \subseteq Nat \ {0}
      /\ \A k \in DOMAIN r.offsets : r.offsets[k] \in Nat /\ r.offsets[k] <= SelWindow - 1
      /\ Period \in Nat \ {0} /\ TxDelay \in Nat \ {0} /\ SelWindow \in Nat \ {0}
      /\ Cycle \in Nat \ {0} /\ TxDelay + SelWindow <= Period
  BY SoundNumbers
<1>2. r.active /\ hits # {} /\ ResourceAt(r, z) = Min(hits)
  BY DEF ResourceAt
<1>3. PICK k \in hits : k = ResourceAt(r, z)
  <2>1. hits \in SUBSET Nat
    BY <1>1
  <2> HIDE DEF hits
  <2>2. QED
    BY <1>2, <2>1, LeastExists
<1>4. PICK j \in 0 .. r.counter : z = TtiAdd(r.from, r.offsets[k] + j * Period)
  BY <1>3
<1>5. PICK o \in Nat, f \in Tti, x \in Nat :
         o = r.offsets[k] /\ f = r.from /\ x = o + j * Period /\ x + b < Cycle
  <2>1. j \in Nat /\ j * Period \in Nat /\ r.counter * Period \in Nat
    BY <1>1
  <2>2. j * Period <= r.counter * Period
    BY <1>1
  <2>3. Period * (r.counter + 1) = r.counter * Period + Period
    BY <1>1
  <2>4. Period * (r.counter + 1) < Cycle
    BY <1>2 DEF SpsAssumption, Sound
  <2>5. r.offsets[k] \in Nat /\ r.offsets[k] <= SelWindow - 1
    BY <1>1, <1>3
  <2>6. r.offsets[k] + j * Period + b < Cycle
    BY <1>1, <2>1, <2>2, <2>3, <2>4, <2>5
  <2>7. QED
    BY <1>1, <2>1, <2>5, <2>6
<1>6. b \in Nat /\ x + b \in 0 .. (Cycle - 1) /\ b \in 0 .. (Cycle - 1)
  BY <1>1, <1>5
<1>7. TtiAdd(f, x + b) = t
  <2>1. z = TtiAdd(f, x) /\ z \in Tti
    BY <1>4, <1>5, <1>6, Distance
  <2>2. TtiAdd(z, b) = t
    BY <1>6, <2>1, Distance
  <2>3. TtiAdd(TtiAdd(f, x), b) = TtiAdd(f, x + b)
    BY <1>5, <1>6, AddTwice
  <2>4. QED
    BY <2>1, <2>2, <2>3
<1>8. Before(t, f) = x + b
  <2>1. PICK c \in 0 .. (Cycle - 1) : c = x + b
    BY <1>6
  <2>2. QED
    BY <1>7, <2>1, Distance
<1>9. Age(r, t) = x + b
  BY <1>5, <1>8 DEF Age
<1>10. Age(r, t) - b - r.offsets[k] = j * Period /\ j \in Int /\ j * Period \in Int
  BY <1>1, <1>5, <1>6, <1>9
<1>11. Whole(Age(r, t) - b - r.offsets[k])
  BY <1>10, WholeMeans
<1>12. QED
  BY <1>2, <1>3, <1>11 DEF FallsOn

\* A reservation of age a that begins in the subframe itself has nothing before it, nor one
\* whose age is a whole number of periods.
LEMMA WholeAgeClear ==
    ASSUME SpsAssumption, Spans, NEW r, Sound(r), NEW t \in Tti, Whole(Age(r, t)),
           NEW b \in 1 .. TxDelay
    PROVE  ~Falls(r, t, b)
<1> SUFFICES ASSUME NEW k \in DOMAIN r.offsets, FallsOn(r, t, k, b) PROVE FALSE
  BY DEF Falls
<1>1. /\ Age(r, t) \in Nat /\ r.offsets[k] \in Nat /\ r.offsets[k] <= SelWindow - 1
      /\ Period \in Nat \ {0} /\ TxDelay \in Nat \ {0} /\ SelWindow \in Nat \ {0}
      /\ TxDelay + SelWindow <= Period
  BY SoundNumbers
<1>2. PICK a \in Nat, o \in Nat : a = Age(r, t) /\ o = r.offsets[k]
  BY <1>1
<1>3. Whole(a - b - o) /\ Whole(a) /\ a - b - o \in Int /\ b \in Nat
  BY <1>1, <1>2 DEF FallsOn
<1>4. Whole(a - (a - b - o))
  BY <1>3, WholeSum
<1>5. a - (a - b - o) = b + o /\ b + o \in Int /\ b + o < Period /\ b + o > -Period
  BY <1>1, <1>2, <1>3
<1>6. b + o = 0
  BY <1>4, <1>5, WholeSum
<1>7. QED
  BY <1>2, <1>6

\* The age of a reservation in the subframe it begins in.
LEMMA AgeAtStart ==
    ASSUME SpsAssumption, NEW r, NEW t \in Tti, r.from = t
    PROVE  Age(r, t) = 0
<1>1. t \in 0 .. (Cycle - 1) /\ 0 \in 0 .. (Cycle - 1)
  BY DEF Tti, SpsAssumption
<1>2. Before(t, 0) = t
  BY BeforeApart
<1>3. TtiAdd(t, 0) = t
  BY <1>1, <1>2, Distance
<1>4. Before(t, t) = 0
  BY <1>1, <1>3, Distance
<1>5. QED
  BY <1>4 DEF Age

\* What schedule() may make of a reservation.
LEMMA ExtendedForms ==
    ASSUME NEW r, Sound(r), NEW t, NEW x \in ExtendOrExpire(r, t)
    PROVE  \/ x = r
           \/ r.active /\ x = [r EXCEPT !.cresel = r.cresel - 1, !.start = t]
           \/ /\ r.active /\ t = TtiAdd(r.start, Period) /\ ~(r.cresel > 0)
              /\ \/ x = [r EXCEPT !.active = FALSE]
                 \/ \E c \in Counters :
                       x = [r EXCEPT !.cresel = c, !.counter = c, !.start = t, !.from = t]
<1>1. CASE ~r.active \/ t # TtiAdd(r.start, Period)
  BY <1>1 DEF ExtendOrExpire
<1>2. CASE r.active /\ t = TtiAdd(r.start, Period) /\ r.cresel > 0
  <2>1. x = [r EXCEPT !.cresel = r.cresel - 1, !.start = t]
    BY <1>2 DEF ExtendOrExpire, NextPeriod
  <2>2. QED
    BY <1>2, <2>1
<1>3. CASE r.active /\ t = TtiAdd(r.start, Period) /\ ~(r.cresel > 0)
  <2>1. \/ x = [r EXCEPT !.active = FALSE]
        \/ \E c \in Counters :
              x = [r EXCEPT !.cresel = c, !.counter = c, !.start = t, !.from = t]
    BY <1>3 DEF ExtendOrExpire, NextPeriod
  <2>2. QED
    BY <1>3, <2>1
<1>4. QED
  BY <1>1, <1>2, <1>3

\* A call at the end of a period keeps a reservation where it is; when it expires nothing of
\* it is left in the subframes that were prepared.
LEMMA ExtendedFalls ==
    ASSUME SpsAssumption, Spans, NEW r, Sound(r), NEW t \in Tti, r.active => Fits(r, t, TRUE),
           NEW x \in ExtendOrExpire(r, t)
    PROVE  /\ x.offsets = r.offsets
           /\ x.active => r.active /\ Whole(Age(x, t) - Age(r, t))
           /\ ~x.active => \A b \in 1 .. TxDelay : ~Falls(r, t, b)
<1>1. Age(r, t) \in Nat /\ Whole(0) /\ Counters \subseteq Nat
  BY SoundNumbers, WholeSum DEF SpsAssumption
<1>2. CASE x = r
  <2>1. Age(x, t) - Age(r, t) = 0
    BY <1>1, <1>2
  <2>2. QED
    BY <1>1, <1>2, <2>1 DEF Falls
<1>3. CASE r.active /\ x = [r EXCEPT !.cresel = r.cresel - 1, !.start = t]
  <2>1. x = [r EXCEPT !.cresel = r.cresel - 1, !.start = t]
    BY <1>3
  <2>2. x.offsets = r.offsets /\ x.active /\ x.from = r.from
    BY <1>3, <2>1 DEF Sound, Reservation
  <2>3. Age(x, t) - Age(r, t) = 0
    BY <1>1, <2>2 DEF Age
  <2>4. QED
    BY <1>1, <1>3, <2>2, <2>3
<1>4. CASE /\ r.active /\ t = TtiAdd(r.start, Period) /\ ~(r.cresel > 0)
           /\ \/ x = [r EXCEPT !.active = FALSE]
              \/ \E c \in Counters :
                    x = [r EXCEPT !.cresel = c, !.counter = c, !.start = t, !.from = t]
  <2>1. Age(r, t) = Period * (r.counter + 1)
    BY <1>4, AgeFits
  <2>2. Whole(Age(r, t))
    <3>1. r.counter + 1 \in Nat
      BY SoundNumbers
    <3>2. QED
      BY <2>1, <3>1, WholeSum
  <2>3. \/ x = [r EXCEPT !.active = FALSE]
        \/ \E c \in Counters :
              x = [r EXCEPT !.cresel = c, !.counter = c, !.start = t, !.from = t]
    BY <1>4
  <2>4. CASE x = [r EXCEPT !.active = FALSE]
    <3>1. x.offsets = r.offsets /\ ~x.active
      BY <2>4 DEF Sound, Reservation
    <3>2. QED
      BY <1>4, <2>2, <3>1, WholeAgeClear
  <2>5. ASSUME NEW c \in Counters, x = [r EXCEPT !.cresel = c, !.counter = c, !.start = t, !.from = t]
        PROVE  x.offsets = r.offsets /\ x.active /\ Whole(Age(x, t) - Age(r, t))
    <3>1. x.offsets = r.offsets /\ x.active /\ x.from = t
      BY <1>4, <2>5 DEF Sound, Reservation
    <3>2. Age(x, t) = 0
      BY <3>1, AgeAtStart
    <3>3. Whole(0 - Age(r, t))
      BY <1>1, <2>2, WholeSum
    <3>4. QED
      BY <3>1, <3>2, <3>3
  <2>6. QED
    BY <1>4, <2>3, <2>4, <2>5
<1>5. QED
  BY <1>2, <1>3, <1>4, ExtendedForms

\* Whole periods more or less: the same subframes.
LEMMA SameFalls ==
    ASSUME SpsAssumption, Spans, NEW r, Sound(r), NEW x, Sound(x), NEW t \in Tti,
           x.offsets = r.offsets, Whole(Age(x, t) - Age(r, t))
    PROVE  /\ \A k \in DOMAIN r.offsets, b \in Int : FallsOn(x, t, k, b) <=> FallsOn(r, t, k, b)
<1> SUFFICES ASSUME NEW k \in DOMAIN r.offsets, NEW b \in Int
             PROVE  FallsOn(x, t, k, b) <=> FallsOn(r, t, k, b)
  OBVIOUS
<1>1. PICK a \in Nat, c \in Nat, o \in Nat :
         a = Age(r, t) /\ c = Age(x, t) /\ o = r.offsets[k] /\ o = x.offsets[k]
  BY SoundNumbers
<1>2. c - a \in Int /\ c - b - o \in Int /\ a - b - o \in Int /\ Whole(c - a)
  BY <1>1
<1>3. (c - b - o) - (c - a) = a - b - o /\ (a - b - o) + (c - a) = c - b - o
  BY <1>1
<1>4. Whole(c - b - o) => Whole((c - b - o) - (c - a))
  BY <1>2, WholeSum
<1>5. Whole(a - b - o) => Whole((a - b - o) + (c - a))
  BY <1>2, WholeSum
<1>6. QED
  BY <1>1, <1>3, <1>4, <1>5 DEF FallsOn

-------------------------------------------------------------------------------
(* The energy of a candidate, and what is chosen.                             *)

\* What was measured in a subframe that the ring still holds.
LEMMA EnergyIsMeasured ==
    ASSUME SpsAssumption, NEW v, energy[v] \in [0 .. (Ring - 1) -> {Unheard, 0, 1}],
           NEW t \in Tti, NEW n \in 0 .. (Cycle - 1)
    PROVE  EnergyAt(v, t, n) \in {Unheard, 0, 1}
<1>1. PICK z \in Nat : z = TtiAdd(t, Cycle - n)
  <2>1. Before(t, n) \in Tti
    BY BeforeApart
  <2>2. QED
    BY <2>1 DEF Before, Tti, SpsAssumption
<1>2. Idx(z) \in 0 .. (Ring - 1)
  BY IdxInRing
<1>3. QED
  BY <1>1, <1>2 DEF EnergyAt

\* Division with remainder.
LEMMA Division ==
    ASSUME NEW c \in Nat \ {0}, NEW d \in Nat
    PROVE  d = (d \div c) * c + (d % c) /\ d \div c \in Nat /\ d % c \in 0 .. (c - 1)
  OBVIOUS

\* A candidate is compared with at most Scale subframes, one of every period.
LEMMA AtMostScale ==
    ASSUME SpsAssumption, Spans, NEW o \in Nat,
           NEW S \in SUBSET (1 .. (SenseWindow + 1)), \A n \in S : Whole(o + n)
    PROVE  IsFiniteSet(S) /\ Cardinality(S) \in Nat /\ Cardinality(S) <= Scale
<1>1. Period \in Nat \ {0} /\ SenseWindow \in Nat /\ SenseWindow < Scale * Period /\ Scale = 12
  BY DEF SpsAssumption, Spans, Scale
<1>2. S \subseteq Int
  OBVIOUS
<1> DEFINE f == [n \in S |-> (n - 1) \div Period]
<1>3. ASSUME NEW n \in S
      PROVE  /\ f[n] \in 0 .. 11
             /\ \E z \in 0 .. (Period - 1) : n - 1 = f[n] * Period + z
  <2>1. PICK q \in Int, z \in 0 .. (Period - 1) : n - 1 = q * Period + z /\ q = (n - 1) \div Period
    <3>1. n - 1 \in Nat
      OBVIOUS
    <3>2. n - 1 = ((n - 1) \div Period) * Period + ((n - 1) % Period)
          /\ (n - 1) \div Period \in Nat /\ (n - 1) % Period \in 0 .. (Period - 1)
      BY <1>1, <3>1
    <3>3. QED
      BY <3>2
  <2>2. n - 1 >= 0 /\ n - 1 < 12 * Period /\ n - 1 \in Int
    BY <1>1
  <2>3. q >= 0
    <3>1. q <= -1 => q * Period <= -Period
      BY <1>1
    <3>2. q * Period \in Int
      BY <1>1
    <3>3. QED
      BY <1>1, <2>1, <2>2, <3>1, <3>2
  <2>4. q <= 11
    <3>1. q >= 12 => q * Period >= 12 * Period
      BY <1>1
    <3>2. q * Period \in Int
      BY <1>1
    <3>3. QED
      BY <1>1, <2>1, <2>2, <3>1, <3>2
  <2>5. f[n] = q
    BY <2>1
  <2> HIDE DEF f
  <2>6. q \in 0 .. 11
    BY <2>3, <2>4
  <2>7. QED
    BY <2>1, <2>5, <2>6
<1>4. ASSUME NEW m \in S, NEW n \in S, f[m] = f[n] PROVE m = n
  <2>1. PICK y \in 0 .. (Period - 1) : m - 1 = f[m] * Period + y
    BY <1>3
  <2>2. PICK z \in 0 .. (Period - 1) : n - 1 = f[n] * Period + z
    BY <1>3
  <2>3. PICK q \in Int : q = f[m] * Period /\ q = f[n] * Period
    <3>1. f[m] * Period \in Int
      <4>1. f[m] \in Int
        BY <1>3
      <4> HIDE DEF f
      <4>2. QED
        BY <1>1, <4>1
    <3> HIDE DEF f
    <3>2. QED
      BY <1>4, <3>1
  <2>4. m - n < Period /\ m - n > -Period /\ m - n \in Int /\ m \in Int /\ n \in Int
    BY <1>1, <1>2, <2>1, <2>2, <2>3
  <2>5. Whole(o + m) /\ Whole(o + n) /\ o + m \in Int /\ o + n \in Int
    BY <2>4
  <2>6. (o + m) - (o + n) = m - n
    BY <2>4
  <2>7. Whole(m - n)
    BY <2>5, <2>6, WholeSum
  <2>8. m - n = 0
    BY <2>4, <2>7, WholeSum
  <2>9. QED
    BY <2>4, <2>8
<1>5. f \in Injection(S, 0 .. 11)
  <2>1. f \in [S -> 0 .. 11]
    BY <1>3
  <2>2. \A m, n \in S : f[m] = f[n] => m = n
    BY <1>4
  <2> HIDE DEF f
  <2>3. QED
    BY <2>1, <2>2 DEF Injection, IsInjective
<1>6. IsFiniteSet(0 .. 11) /\ Cardinality(0 .. 11) = 12
  <2>1. 0 \in Int /\ 11 \in Int /\ ~(0 > 11) /\ 11 - 0 + 1 = 12
    OBVIOUS
  <2>2. /\ IsFiniteSet(0 .. 11)
        /\ Cardinality(0 .. 11) = IF 0 > 11 THEN 0 ELSE 11 - 0 + 1
    BY <2>1, FS_Interval, Zenon
  <2>3. QED
    BY <2>1, <2>2
<1>7. IsFiniteSet(S) /\ Cardinality(S) <= Cardinality(0 .. 11)
  <2> HIDE DEF f
  <2>1. QED
    BY <1>5, <1>6, FS_Injection
<1>8. QED
  BY <1>1, <1>6, <1>7, FS_CardinalityType

\* The energy of a candidate is a number, and 0 exactly when something was measured whole
\* periods before it and all of that was quiet.
LEMMA LevelMeans ==
    ASSUME SpsAssumption, Spans, NEW v, energy[v] \in [0 .. (Ring - 1) -> {Unheard, 0, 1}],
           NEW t \in Tti, NEW i \in Candidate
    PROVE  /\ Level(v, t, i) \in Nat
           /\ Level(v, t, i) = 0 =>
                 /\ \A n \in 1 .. (SenseWindow + 1) :
                       Whole(TxDelay + i + n) => EnergyAt(v, t, n) # 1
                 /\ \E n \in 1 .. (SenseWindow + 1) :
                       Whole(TxDelay + i + n) /\ EnergyAt(v, t, n) = 0
<1> DEFINE back == {n \in 1 .. (SenseWindow + 1) :
                      (TxDelay + i + n) % Period = 0 /\ EnergyAt(v, t, n) # Unheard}
           busy == {n \in back : EnergyAt(v, t, n) = 1}
<1>1. Level(v, t, i) = IF back = {} THEN Scale + 1
                       ELSE (Scale * Cardinality(busy)) \div Cardinality(back)
  BY DEF Level
<1>2. /\ SenseWindow \in Nat /\ Scale = 12 /\ TxDelay + i \in Nat
      /\ SenseWindow + 1 < Cycle /\ Cycle \in Nat
  <2>0. Numbers
    BY SyncNumbers
  <2>1. QED
    BY <2>0 DEF Numbers, Scale, Candidate
<1>3. \A n \in 1 .. (SenseWindow + 1) : EnergyAt(v, t, n) \in {Unheard, 0, 1}
  <2>1. \A n \in 1 .. (SenseWindow + 1) : n \in 0 .. (Cycle - 1)
    BY <1>2
  <2>2. QED
    BY <2>1, EnergyIsMeasured
<1>4. IsFiniteSet(back) /\ Cardinality(back) \in Nat /\ Cardinality(back) <= 12
  <2>1. back \in SUBSET (1 .. (SenseWindow + 1)) /\ \A n \in back : Whole(TxDelay + i + n)
    BY DEF Whole
  <2> HIDE DEF back
  <2>2. PICK o \in Nat : o = TxDelay + i
    BY <1>2
  <2>3. QED
    BY <1>2, <2>1, <2>2, AtMostScale
<1>5. IsFiniteSet(busy) /\ Cardinality(busy) \in Nat
  <2>1. busy \in SUBSET back
    OBVIOUS
  <2> HIDE DEF busy, back
  <2>2. QED
    BY <1>4, <2>1, FS_Subset, FS_CardinalityType
<1>6. back # {} => Cardinality(back) >= 1
  <2> HIDE DEF back
  <2>1. QED
    BY <1>4, FS_EmptySet
<1>7. busy # {} => Cardinality(busy) >= 1
  <2> HIDE DEF busy
  <2>1. QED
    BY <1>5, FS_EmptySet
<1>8. Level(v, t, i) \in Nat
  <2> HIDE DEF back, busy
  <2>1. CASE back = {}
    BY <1>1, <1>2, <2>1
  <2>2. CASE back # {}
    <3>1. PICK c \in Nat \ {0}, d \in Nat : c = Cardinality(back) /\ d = Scale * Cardinality(busy)
      BY <1>2, <1>4, <1>5, <1>6, <2>2
    <3>2. d \div c \in Nat
      BY Division, Zenon
    <3>3. QED
      BY <1>1, <2>2, <3>1, <3>2
  <2>3. QED
    BY <2>1, <2>2
<1>9. ASSUME Level(v, t, i) = 0 PROVE back # {} /\ busy = {}
  <2> HIDE DEF back, busy
  <2>1. back # {}
    BY <1>1, <1>2, <1>9
  <2>2. ASSUME busy # {} PROVE FALSE
    <3>1. PICK c \in Nat \ {0}, d \in Nat : c = Cardinality(back) /\ d = Scale * Cardinality(busy)
      BY <1>2, <1>4, <1>5, <1>6, <2>1
    <3>2. c <= 12 /\ d >= 12
      BY <1>2, <1>4, <1>5, <1>7, <2>2, <3>1
    <3>3. d \div c = 0
      BY <1>1, <1>9, <2>1, <3>1
    <3>4. d = (d \div c) * c + (d % c) /\ d % c \in 0 .. (c - 1)
      BY Division, Zenon
    <3>5. d = d % c /\ d <= c - 1
      BY <3>3, <3>4
    <3>6. QED
      BY <3>2, <3>5
  <2>3. QED
    BY <2>1, <2>2
<1>10. ASSUME Level(v, t, i) = 0
       PROVE  /\ \A n \in 1 .. (SenseWindow + 1) :
                     Whole(TxDelay + i + n) => EnergyAt(v, t, n) # 1
              /\ \E n \in 1 .. (SenseWindow + 1) :
                     Whole(TxDelay + i + n) /\ EnergyAt(v, t, n) = 0
  <2>1. ASSUME NEW n \in 1 .. (SenseWindow + 1), Whole(TxDelay + i + n), EnergyAt(v, t, n) = 1
        PROVE  FALSE
    <3>1. n \in busy
      BY <2>1 DEF Whole, Unheard
    <3>2. QED
      BY <1>9, <1>10, <3>1
  <2>2. PICK n \in back : TRUE
    BY <1>9, <1>10
  <2>3. Whole(TxDelay + i + n) /\ EnergyAt(v, t, n) # Unheard /\ EnergyAt(v, t, n) # 1
    BY <2>1, <2>2 DEF Whole
  <2>4. EnergyAt(v, t, n) = 0
    BY <1>3, <2>2, <2>3
  <2>5. QED
    BY <2>1, <2>2, <2>3, <2>4
<1>11. QED
  BY <1>8, <1>10

\* No transmission that was heard is announced for a candidate: the announced period is
\* multiplied by PStep once too often.
LEMMA NothingAnnounced ==
    ASSUME SpsAssumption, Spans, NEW v, NEW t, NEW c \in Nat
    PROVE  Announced(v, t, c) = {}
<1> SUFFICES ASSUME NEW i \in Candidate, NEW n \in 1 .. (SenseWindow + 1), NEW j \in 0 .. (c - 1),
                    TxDelay + i = j * Period * Period - n
             PROVE  FALSE
  BY DEF Announced
<1>1. /\ Period \in Nat \ {0} /\ SenseWindow \in Nat /\ TxDelay \in Nat \ {0} /\ SelWindow \in Nat
      /\ TxDelay + SelWindow <= Period /\ Period + SenseWindow < Period * Period
      /\ i \in Nat /\ i <= SelWindow - 1 /\ j \in Nat /\ n \in Nat /\ n >= 1 /\ n <= SenseWindow + 1
  BY DEF SpsAssumption, Spans, Candidate
<1>2. PICK q \in Nat : q = Period * Period /\ Period + SenseWindow < q
  BY <1>1
<1>3. j * Period * Period = j * q
  BY <1>1, <1>2
<1>4. TxDelay + i = j * q - n
  BY <1>3
<1>5. CASE j = 0
  BY <1>1, <1>2, <1>4, <1>5
<1>6. CASE j >= 1
  <2>1. j * q >= q /\ j * q \in Nat
    BY <1>1, <1>2, <1>6
  <2>2. TxDelay + i >= q - n
    BY <1>1, <1>2, <1>4, <2>1
  <2>3. QED
    BY <1>1, <1>2, <2>2
<1>7. QED
  BY <1>1, <1>5, <1>6

\* When more candidates are quiet than are kept, only quiet ones are.
LEMMA QuietestQuiet ==
    ASSUME SpsAssumption, Spans, NEW v, NEW t, NEW set \in SUBSET Candidate,
           \A i \in Candidate : Level(v, t, i) \in Nat,
           Cardinality({i \in set : Level(v, t, i) = 0}) > Place,
           NEW i \in Quietest(v, t, set)
    PROVE  Level(v, t, i) = 0
<1> DEFINE quiet == {j \in set : Level(v, t, j) = 0}
           last == Max(set)
           Quieter == {j \in set \ {last} : Level(v, t, j) < Level(v, t, i)}
<1>1. i \in set /\ (IF Cardinality(set) = Place THEN Level(v, t, i) <= Level(v, t, last)
                    ELSE Cardinality(Quieter) < Place)
  BY DEF Quietest
<1>2. IsFiniteSet(set) /\ Cardinality(set) \in Nat
  <2>1. 0 \in Int /\ SelWindow - 1 \in Int
    BY DEF SpsAssumption
  <2>2. IsFiniteSet(Candidate)
    BY <2>1, FS_Interval DEF Candidate
  <2>3. QED
    BY <2>2, FS_Subset, FS_CardinalityType
<1>3. IsFiniteSet(quiet) /\ Cardinality(quiet) \in Nat /\ Cardinality(quiet) <= Cardinality(set)
  <2>1. quiet \in SUBSET set
    OBVIOUS
  <2> HIDE DEF quiet
  <2>2. QED
    BY <1>2, <2>1, FS_Subset, FS_CardinalityType
<1>4. IsFiniteSet(Quieter) /\ Cardinality(Quieter) \in Nat
  <2>1. Quieter \in SUBSET set
    OBVIOUS
  <2> HIDE DEF Quieter
  <2>2. QED
    BY <1>2, <2>1, FS_Subset, FS_CardinalityType
<1>5. Place \in Nat /\ Cardinality(quiet) > Place
  <2>1. SelWindow \div 5 \in Nat
    <3>1. SelWindow \in Nat /\ 5 \in Nat \ {0}
      BY DEF SpsAssumption
    <3>2. QED
      BY <3>1, Division, Zenon
  <2>2. QED
    BY <2>1 DEF Place, Share
<1>6. Cardinality(set) # Place
  <2> HIDE DEF quiet
  <2>1. QED
    BY <1>2, <1>3, <1>5
<1>7. Cardinality(Quieter) < Place
  BY <1>1, <1>6
<1>8. ASSUME Level(v, t, i) # 0 PROVE FALSE
  <2>1. Level(v, t, i) > 0
    <3>1. Level(v, t, i) \in Nat
      BY <1>1
    <3>2. QED
      BY <1>8, <3>1
  <2>2. quiet \ {last} \in SUBSET Quieter
    BY <2>1
  <2>3. IsFiniteSet(quiet \ {last}) /\ Cardinality(quiet \ {last}) >= Cardinality(quiet) - 1
    <3> HIDE DEF quiet, last
    <3>1. /\ IsFiniteSet(quiet \ {last})
          /\ Cardinality(quiet \ {last}) = IF last \in quiet THEN Cardinality(quiet) - 1
                                           ELSE Cardinality(quiet)
      BY <1>3, FS_RemoveElement
    <3>2. QED
      BY <1>3, <3>1
  <2>4. Cardinality(quiet \ {last}) <= Cardinality(Quieter)
    <3> HIDE DEF quiet, last, Quieter
    <3>1. QED
      BY <1>4, <2>2, FS_Subset
  <2>5. Cardinality(quiet \ {last}) \in Nat
    <3> HIDE DEF quiet, last, Quieter
    <3>1. QED
      BY <2>3, FS_CardinalityType
  <2> HIDE DEF quiet, last, Quieter
  <2>6. QED
    BY <1>3, <1>4, <1>5, <1>7, <2>3, <2>4, <2>5
<1>9. QED
  BY <1>8

\* The subframe received lies TxDelay before the one to come.
LEMMA ReceivedBefore ==
    ASSUME SpsAssumption, Types
    PROVE  /\ Before(Coming, TxDelay) = tti /\ TxDelay \in 0 .. (Cycle - 1)
           /\ \A n \in 0 .. (SenseWindow + 1) :
                 Before(tti, n) = Before(Coming, n + TxDelay) /\ n + TxDelay \in 0 .. (Cycle - 1)
<1>1. tti \in Tti /\ Coming \in Tti /\ Numbers
  BY ComingIsTti, SyncNumbers DEF Types
<1>2. TxDelay \in 0 .. (Cycle - 1) /\ TxDelay \in Nat /\ SenseWindow \in Nat /\ Cycle \in Nat
      /\ SenseWindow + 1 + TxDelay < Cycle
  BY <1>1 DEF Numbers
<1>3. Before(Coming, TxDelay) = tti
  BY <1>1, <1>2, Distance DEF Coming
<1>4. ASSUME NEW n \in 0 .. (SenseWindow + 1)
      PROVE  Before(tti, n) = Before(Coming, n + TxDelay) /\ n + TxDelay \in 0 .. (Cycle - 1)
  <2>1. PICK m \in 0 .. (Cycle - 1) : m = n + TxDelay /\ n \in Nat /\ n \in 0 .. (Cycle - 1)
    BY <1>2
  <2>2. PICK x \in Tti : x = Before(tti, n)
    BY <1>1, <2>1, Distance
  <2>3. TtiAdd(x, n) = tti
    BY <1>1, <2>1, <2>2, Distance
  <2>4. TtiAdd(TtiAdd(x, n), TxDelay) = TtiAdd(x, n + TxDelay)
    BY <1>2, <2>1, AddTwice
  <2>5. TtiAdd(x, m) = Coming
    BY <2>1, <2>3, <2>4 DEF Coming
  <2>6. Before(Coming, m) = x
    BY <1>1, <2>5, Distance
  <2>7. QED
    BY <2>1, <2>2, <2>6
<1>5. QED
  BY <1>2, <1>3, <1>4

\* A vehicle with room reserves quiet candidates.
LEMMA ChosenQuiet ==
    ASSUME SpsAssumption, Spans, Types, NEW v \in Vehicle, Roomy(v), NEW r \in Chosen(v, Coming),
           NEW k \in DOMAIN r.offsets
    PROVE  r.offsets[k] \in Candidate /\ Level(v, tti, r.offsets[k]) = 0
<1> DEFINE set(c) == ResourceSelection(v, tti, c)
<1>1. TtiAdd(Coming, Cycle - TxDelay) = tti
  BY ReceivedBefore DEF Before
<1>2. PICK c \in Counters : r \in Reservations(set(c), c, Coming, TRUE)
  BY <1>1, ChosenFrom
<1>4. set(c) = Quietest(v, tti, Monitored(v, tti))
  <2>1. Announced(v, tti, c) = {}
    BY NothingAnnounced DEF SpsAssumption
  <2>2. QED
    BY <2>1 DEF ResourceSelection
<1>5. set(c) \in SUBSET Candidate
  BY SelectionIsCandidate
<1>6. ASSUME NEW j \in set(c) PROVE Level(v, tti, j) = 0
  <2>1. \A x \in Candidate : Level(v, tti, x) \in Nat
    <3>1. energy[v] \in [0 .. (Ring - 1) -> {Unheard, 0, 1}] /\ tti \in Tti
      BY DEF Types
    <3>2. QED
      BY <3>1, LevelMeans
  <2>2. Monitored(v, tti) \in SUBSET Candidate
    BY DEF Monitored
  <2>3. Cardinality({x \in Monitored(v, tti) : Level(v, tti, x) = 0}) > Place
    BY DEF Roomy
  <2>4. j \in Quietest(v, tti, Monitored(v, tti))
    BY <1>4
  <2> HIDE DEF set
  <2>5. QED
    BY <2>1, <2>2, <2>3, <2>4, QuietestQuiet
<1> HIDE DEF set
<1>7. r.offsets \in Seq(set(c))
  BY <1>2, <1>5, ReservationOffsets
<1>8. r.offsets[k] \in set(c)
  BY <1>7
<1>9. QED
  BY <1>5, <1>6, <1>8

-------------------------------------------------------------------------------
(* What a vehicle sends, what another one has heard of it, and which of them stay apart.      *)
(* Subframes are counted back from the one to come.                                           *)

\* The last subframe that u has prepared: the one to come, or the one before it.
First(u) == IF turn <= u THEN 1 ELSE 0

\* Of the subframes prepared, u sends in none but those of its reservation and, as a master,
\* its synchronisation subframes.
Announces(u) ==
    /\ \A b \in First(u) .. TxDelay :
          Before(Coming, b) \in sends[u] /\ ~SyncSubframe(u, Before(Coming, b)) =>
              Falls(resv[u], Coming, b)
    /\ \A t \in sends[u] : \E b \in First(u) .. TxDelay : t = Before(Coming, b)

\* The oldest subframe a selection looks at.
Reach == TxDelay + SenseWindow + 1

\* Resource k of r falls on the subframe t, which a selection still looks at, and v measured
\* energy in it.
Trace(v, r, k, t) ==
    \E b \in (TxDelay + First(v)) .. (TxDelay + First(v) + SenseWindow) :
        t = Before(Coming, b) /\ FallsOn(r, Coming, k, b) /\ EnergyAt(v, Coming, b) = 1

Remembered(v, u) ==
    resv[u].active =>
        \A p \in heard[v][u] : p[1] \in DOMAIN resv[u].offsets /\ Trace(v, resv[u], p[1], p[2])

\* A resource of r and one of s fall on the same subframes.
Clash(r, s, t) ==
    \E k \in DOMAIN r.offsets, l \in DOMAIN s.offsets :
        Whole((Age(r, t) - r.offsets[k]) - (Age(s, t) - s.offsets[l]))

Disjoint(v, u) ==
    v # u /\ (resv[v].active /\ resv[u].active => ~Clash(resv[v], resv[u], Coming))

Careful(u) == missed[u] = 0 => ~skipped[u] /\ Announces(u)

Knowing ==
    /\ heard \in [Vehicle -> [Vehicle -> SUBSET (Nat \X Tti)]] /\ missed \in [Vehicle -> Nat]
    /\ \A v \in Vehicle \ on, u \in Vehicle : heard[v][u] = {}

\* The invariant of the vehicles that lost no subframe.
Heeding ==
    /\ Knowing
    /\ \A u \in Vehicle : Careful(u)
    /\ \A v, u \in Vehicle : v # u /\ missed[v] = 0 /\ missed[u] = 0 => Remembered(v, u)
    /\ \A v, u \in Vehicle : {v, u} \in apart /\ missed[v] = 0 /\ missed[u] = 0 => Disjoint(v, u)

HeedInv == SpsInv /\ Heeding

\* What the steps below use of types and parameters.
LEMMA HeedTypes ==
    ASSUME SpsAssumption, HeedInv, NEW u \in Vehicle
    PROVE  /\ Coming \in Tti /\ tti \in Tti /\ Sound(resv[u]) /\ u \in Nat /\ turn \in Nat
           /\ resv \in [Vehicle -> Reservation] /\ sends \in [Vehicle -> SUBSET Tti]
           /\ sends[u] \in SUBSET Tti
           /\ energy \in [Vehicle -> [0 .. (Ring - 1) -> {Unheard, 0, 1}]]
           /\ TxDelay \in Nat \ {0} /\ TxDelay < Cycle /\ Cycle \in Nat \ {0}
           /\ \A b \in 0 .. TxDelay : b \in 0 .. (Cycle - 1) /\ b \in Int
           /\ heard \in [Vehicle -> [Vehicle -> SUBSET (Nat \X Tti)]] /\ missed \in [Vehicle -> Nat]
           /\ Careful(u)
<1>1. Coming \in Tti /\ tti \in Tti /\ Sound(resv[u])
  BY ComingIsTti DEF HeedInv, SpsInv, Types
<1>2. TxDelay \in Nat \ {0} /\ TxDelay < Cycle /\ Cycle \in Nat \ {0}
  BY DelayInRound DEF SpsAssumption
<1>3. \A b \in 0 .. TxDelay : b \in 0 .. (Cycle - 1) /\ b \in Int
  BY <1>2
<1>4. u \in Nat /\ turn \in Nat
  <2>1. turn \in 1 .. (NofVehicles + 1)
    BY DEF HeedInv, SpsInv, Types
  <2>2. QED
    BY <2>1 DEF Vehicle
<1>5. Careful(u) /\ heard \in [Vehicle -> [Vehicle -> SUBSET (Nat \X Tti)]] /\ missed \in [Vehicle -> Nat]
  BY DEF HeedInv, Heeding, Knowing
<1>6. QED
  BY <1>1, <1>2, <1>3, <1>4, <1>5 DEF HeedInv, SpsInv, Types

\* The subframe that u prepares is one more in which it sends only as announced.
LEMMA AnnouncesOneMore ==
    ASSUME SpsAssumption, HeedInv, NEW u \in Vehicle, Announces(u), turn = u, turn' = u + 1,
           tti' = tti, NEW x, resv' = [resv EXCEPT ![u] = x],
           NEW signal \in BOOLEAN, Sends(u, Coming, signal),
           \A b \in 1 .. TxDelay : Falls(x, Coming, b) <=> Falls(resv[u], Coming, b),
           signal /\ ~SyncSubframe(u, Coming) => Falls(x, Coming, 0)
    PROVE  Announces(u)'
<1>1. /\ Coming \in Tti /\ u \in Nat /\ resv \in [Vehicle -> Reservation]
      /\ sends \in [Vehicle -> SUBSET Tti] /\ TxDelay \in Nat \ {0}
      /\ \A b \in 0 .. TxDelay : b \in 0 .. (Cycle - 1) /\ b \in Int
  BY HeedTypes
<1>2. Coming' = Coming /\ resv'[u] = x /\ First(u) = 1 /\ First(u)' = 0
  BY <1>1 DEF Coming, First
<1>3. sends'[u] = sends[u] \cup (IF signal THEN {Coming} ELSE {})
  BY <1>1 DEF Sends
<1>4. Before(Coming, 0) = Coming /\ \A b \in 1 .. TxDelay : Before(Coming, b) # Coming
  <2>1. Before(Coming, 0) = Coming
    BY <1>1, BeforeApart
  <2>2. ASSUME NEW b \in 1 .. TxDelay PROVE Before(Coming, b) # Coming
    <3>1. b \in 0 .. (Cycle - 1) /\ 0 \in 0 .. (Cycle - 1) /\ b # 0
      BY <1>1
    <3>2. QED
      BY <1>1, <2>1, <3>1, BeforeApart
  <2>3. QED
    BY <2>1, <2>2
<1>5. \A t \in sends[u] : \E b \in 1 .. TxDelay : t = Before(Coming, b)
  BY <1>2 DEF Announces
<1>6. \A b \in 1 .. TxDelay :
         Before(Coming, b) \in sends[u] /\ ~SyncSubframe(u, Before(Coming, b)) =>
             Falls(resv[u], Coming, b)
  BY <1>2 DEF Announces
<1>7. Coming \notin sends[u]
  BY <1>4, <1>5
<1>8. ASSUME NEW b \in 0 .. TxDelay
      PROVE  Before(Coming, b) \in sends'[u] /\ ~SyncSubframe(u, Before(Coming, b)) =>
                 Falls(x, Coming, b)
  <2>1. CASE b = 0
    BY <1>3, <1>4, <1>7, <2>1
  <2>2. CASE b # 0
    <3>1. b \in 1 .. TxDelay
      BY <1>1, <2>2
    <3>2. QED
      BY <1>3, <1>4, <1>6, <3>1
  <2>3. QED
    BY <2>1, <2>2
<1>9. ASSUME NEW t \in sends'[u] PROVE \E b \in 0 .. TxDelay : t = Before(Coming, b)
  <2>1. CASE t \in sends[u]
    <3>1. PICK b \in 1 .. TxDelay : t = Before(Coming, b)
      BY <1>5, <2>1
    <3>2. b \in 0 .. TxDelay
      BY <1>1
    <3>3. QED
      BY <3>1, <3>2
  <2>2. CASE t = Coming
    <3>1. 0 \in 0 .. TxDelay
      BY <1>1
    <3>2. QED
      BY <1>4, <2>2, <3>1
  <2>3. QED
    BY <1>3, <2>1, <2>2
<1>10. QED
  BY <1>2, <1>8, <1>9 DEF Announces

\* A vehicle sends in the subframe to come only if it belongs to the reservation.
LEMMA SignalFalls ==
    ASSUME SpsAssumption, Spans, NEW v, NEW x, Sound(x), NEW t \in Tti,
           NEW signal \in Signals(v, x, t), signal
    PROVE  Falls(x, t, 0)
<1>1. ResourceAt(x, t) # 0
  BY SignalsTypes
<1>2. Before(t, 0) = t /\ 0 \in 0 .. TxDelay
  BY BeforeApart DEF SpsAssumption
<1>3. QED
  BY <1>1, <1>2, ResourceFalls DEF Falls

\* A vehicle that processes a subframe sends only as announced.
LEMMA ProcessAnnounces ==
    ASSUME SpsAssumption, Spans, HeedInv, SpsInv', NEW u \in Vehicle, missed[u] = 0, Process(u)
    PROVE  ~skipped'[u] /\ Announces(u)'
<1>1. /\ Coming \in Tti /\ u \in Nat /\ resv \in [Vehicle -> Reservation] /\ Sound(resv[u])
      /\ ~skipped[u] /\ Announces(u)
  BY HeedTypes DEF Careful
<1>2. turn = u /\ turn' = u + 1 /\ tti' = tti /\ Coming' = Coming /\ (turn' <= u) = FALSE
  BY <1>1, ProcessCommon DEF Coming
<1>3. ~skipped'[u]
  <2>1. skipped \in [Vehicle -> BOOLEAN]
    BY DEF HeedInv, SpsInv, Types
  <2>2. QED
    BY <1>1, <2>1 DEF Process, SyncTx, KeepTx, ReserveTx
<1>4. Sound(resv'[u]) /\ (resv'[u].active => Fits(resv'[u], Coming, FALSE))
  BY <1>2, <1>3 DEF SpsInv, Types, Aged
<1>5. resv[u].active => Fits(resv[u], Coming, TRUE)
  <2>1. (turn <= u) = TRUE
    BY <1>1, <1>2
  <2>2. QED
    BY <1>1, <2>1 DEF HeedInv, SpsInv, Aged
<1>6. CASE SyncTx(u)
  <2>1. resv' = [resv EXCEPT ![u] = resv[u]] /\ Sends(u, Coming, TRUE) /\ SyncSubframe(u, Coming)
    BY <1>1, <1>6 DEF SyncTx, Coming
  <2>2. QED
    BY <1>1, <1>2, <1>3, <2>1, AnnouncesOneMore
<1>7. CASE KeepTx(u)
  <2>1. PICK x \in ExtendOrExpire(resv[u], Coming) :
           /\ resv' = [resv EXCEPT ![u] = x]
           /\ \E signal \in Signals(u, x, Coming) : Sends(u, Coming, signal)
    BY <1>7 DEF KeepTx, Coming
  <2>2. resv'[u] = x
    BY <1>1, <2>1
  <2>3. Sound(x) /\ (x.active => Fits(x, Coming, FALSE))
    BY <1>4, <2>2
  <2>4. /\ x.offsets = resv[u].offsets
        /\ x.active => resv[u].active /\ Whole(Age(x, Coming) - Age(resv[u], Coming))
        /\ ~x.active => \A b \in 1 .. TxDelay : ~Falls(resv[u], Coming, b)
    BY <1>1, <1>5, ExtendedFalls
  <2>5. \A b \in 1 .. TxDelay : Falls(x, Coming, b) <=> Falls(resv[u], Coming, b)
    <3>1. CASE x.active
      <4>1. \A k \in DOMAIN resv[u].offsets, b \in Int :
               FallsOn(x, Coming, k, b) <=> FallsOn(resv[u], Coming, k, b)
        BY <1>1, <2>3, <2>4, <3>1, SameFalls
      <4>2. \A b \in 1 .. TxDelay : b \in Int
        OBVIOUS
      <4>3. QED
        BY <2>4, <3>1, <4>1, <4>2 DEF Falls
    <3>2. CASE ~x.active
      BY <2>4, <3>2 DEF Falls
    <3>3. QED
      BY <3>1, <3>2
  <2>6. PICK signal \in BOOLEAN : Sends(u, Coming, signal) /\ (signal => Falls(x, Coming, 0))
    <3>1. PICK signal \in Signals(u, x, Coming) : Sends(u, Coming, signal)
      BY <2>1
    <3>2. signal \in BOOLEAN
      BY SignalsTypes
    <3>3. signal => Falls(x, Coming, 0)
      BY <1>1, <2>3, SignalFalls
    <3>4. QED
      BY <3>1, <3>2, <3>3
  <2>7. QED
    BY <1>1, <1>2, <1>3, <2>1, <2>5, <2>6, AnnouncesOneMore
<1>8. CASE ReserveTx(u)
  <2>1. PICK x \in Chosen(u, Coming) \cup Unfounded(Coming) :
           /\ resv' = [resv EXCEPT ![u] = x]
           /\ \E signal \in Signals(u, x, Coming) : Sends(u, Coming, signal)
    BY <1>8 DEF ReserveTx, Coming
  <2>2. resv'[u] = x
    BY <1>1, <2>1
  <2>3. Sound(x) /\ (x.active => Fits(x, Coming, FALSE)) /\ x.from = Coming
    <3>1. Coming \in Tti
      BY <1>1
    <3>2. x.from = Coming
      BY <3>1, ChosenSound
    <3>3. QED
      BY <1>4, <2>2, <3>2
  <2>4. \A b \in 1 .. TxDelay : ~Falls(x, Coming, b)
    <3>1. Age(x, Coming) = 0
      BY <1>1, <2>3, AgeAtStart
    <3>2. Whole(Age(x, Coming))
      BY <3>1, WholeSum
    <3>3. QED
      BY <1>1, <2>3, <3>2, WholeAgeClear
  <2>5. \A b \in 1 .. TxDelay : ~Falls(resv[u], Coming, b)
    <3>1. PICK y \in ExtendOrExpire(resv[u], Coming) : ~y.active
      BY <1>8 DEF ReserveTx, Coming
    <3>2. QED
      BY <1>1, <1>5, <3>1, ExtendedFalls
  <2>6. PICK signal \in BOOLEAN : Sends(u, Coming, signal) /\ (signal => Falls(x, Coming, 0))
    <3>1. PICK signal \in Signals(u, x, Coming) : Sends(u, Coming, signal)
      BY <2>1
    <3>2. signal \in BOOLEAN
      BY SignalsTypes
    <3>3. signal => Falls(x, Coming, 0)
      BY <1>1, <2>3, SignalFalls
    <3>4. QED
      BY <3>1, <3>2, <3>3
  <2>7. QED
    BY <1>1, <1>2, <1>3, <2>1, <2>4, <2>5, <2>6, AnnouncesOneMore
<1>9. QED
  BY <1>6, <1>7, <1>8 DEF Process

\* One subframe on, everything is one subframe further back.
LEMMA FallsNext ==
    ASSUME SpsAssumption, Spans, NEW r, Sound(r), r.active, NEW t \in Tti, Fits(r, t, FALSE)
    PROVE  /\ Age(r, TtiAdd(t, 1)) = Age(r, t) + 1 /\ Age(r, t) \in Nat
           /\ \A k \in DOMAIN r.offsets, b \in Int :
                 FallsOn(r, TtiAdd(t, 1), k, b + 1) <=> FallsOn(r, t, k, b)
<1>1. Age(r, t) \in Nat /\ Age(r, t) + 1 < Cycle
  <2>1. /\ Age(r, t) \in Nat /\ Age(r, t) < Period * (r.counter + 1)
        /\ Period * (r.counter + 1) \in Nat /\ Period * (r.counter + 1) < Cycle
    BY AgeFits
  <2>2. Cycle \in Nat
    BY DEF SpsAssumption
  <2>3. QED
    BY <2>1, <2>2
<1>2. Age(r, TtiAdd(t, 1)) = Age(r, t) + 1
  BY <1>1, SoundNumbers, AgeNext
<1>3. ASSUME NEW k \in DOMAIN r.offsets, NEW b \in Int
      PROVE  FallsOn(r, TtiAdd(t, 1), k, b + 1) <=> FallsOn(r, t, k, b)
  <2>1. PICK a \in Nat, o \in Nat : a = Age(r, t) /\ o = r.offsets[k]
    BY SoundNumbers
  <2>2. (a + 1) - (b + 1) - o = a - b - o
    BY <2>1
  <2>3. QED
    BY <1>2, <2>1, <2>2 DEF FallsOn
<1>4. QED
  BY <1>1, <1>2, <1>3

\* What the next subframe changes.
LEMMA NextCommon ==
    ASSUME SpsAssumption, Spans, HeedInv, NextTti
    PROVE  /\ Coming' = TtiAdd(Coming, 1) /\ turn' = 1 /\ turn = NofVehicles + 1
           /\ UNCHANGED <<on, resv, energy, missed, skipped, heard, apart>>
           /\ \A u \in Vehicle : First(u) = 0 /\ First(u)' = 1
           /\ \A b \in 0 .. (TxDelay + SenseWindow) :
                 Before(Coming', b + 1) = Before(Coming, b) /\ b \in 0 .. (Cycle - 1)
           /\ \A u \in Vehicle : resv[u].active /\ missed[u] = 0 => Fits(resv[u], Coming, FALSE)
<1>1. /\ turn' = 1 /\ turn = NofVehicles + 1 /\ tti' = TtiAdd(tti, 1)
      /\ UNCHANGED <<on, resv, energy, missed, skipped, heard, apart>>
  BY DEF NextTti
<1>2. Coming' = TtiAdd(Coming, 1)
  <2>1. tti \in Tti
    BY DEF HeedInv, SpsInv, Types
  <2>2. TtiAdd(TtiAdd(tti, 1), TxDelay) = TtiAdd(TtiAdd(tti, TxDelay), 1)
    BY <2>1, NextComing
  <2>3. QED
    BY <1>1, <2>2 DEF Coming
<1>3. ASSUME NEW u \in Vehicle PROVE First(u) = 0 /\ First(u)' = 1 /\ (turn <= u) = FALSE
  <2>1. u \in Nat /\ u >= 1 /\ u <= NofVehicles /\ NofVehicles \in Nat
    BY DEF Vehicle, SpsAssumption
  <2>2. QED
    BY <1>1, <2>1 DEF First
<1>4. ASSUME NEW b \in 0 .. (TxDelay + SenseWindow)
      PROVE  Before(Coming', b + 1) = Before(Coming, b) /\ b \in 0 .. (Cycle - 1)
  <2>1. Coming \in Tti
    BY ComingIsTti DEF HeedInv, SpsInv
  <2>2. b \in 0 .. (Cycle - 2) /\ b \in 0 .. (Cycle - 1)
    <3>1. Numbers
      BY SyncNumbers
    <3>2. QED
      BY <3>1 DEF Numbers
  <2>3. QED
    BY <1>2, <2>1, <2>2, BeforeNext
<1>5. ASSUME NEW u \in Vehicle, resv[u].active, missed[u] = 0 PROVE Fits(resv[u], Coming, FALSE)
  <2>1. ~skipped[u]
    BY <1>5 DEF HeedInv, Heeding, Careful
  <2>2. (turn <= u) = FALSE
    BY <1>3
  <2>3. QED
    BY <1>5, <2>1, <2>2 DEF HeedInv, SpsInv, Aged
<1>6. QED
  BY <1>1, <1>2, <1>3, <1>4, <1>5

\* The next subframe: what u sends in the one that is over is done.
LEMMA NextAnnounces ==
    ASSUME SpsAssumption, Spans, HeedInv, NextTti, NEW u \in Vehicle, missed[u] = 0
    PROVE  Announces(u)'
<1>1. /\ Coming \in Tti /\ Sound(resv[u]) /\ Announces(u) /\ TxDelay \in Nat \ {0}
      /\ sends \in [Vehicle -> SUBSET Tti]
      /\ \A b \in 0 .. TxDelay : b \in 0 .. (Cycle - 1) /\ b \in Int
  BY HeedTypes DEF Careful
<1>2. /\ Coming' = TtiAdd(Coming, 1) /\ resv' = resv /\ First(u) = 0 /\ First(u)' = 1
      /\ resv[u].active => Fits(resv[u], Coming, FALSE)
  BY NextCommon
<1>3. sends'[u] = sends[u] \ {tti}
  BY DEF NextTti
<1>4. Before(Coming, TxDelay) = tti
  BY ReceivedBefore DEF HeedInv, SpsInv
<1>5. ASSUME NEW b \in 1 .. TxDelay
      PROVE  /\ b - 1 \in 0 .. TxDelay /\ Before(Coming', b) = Before(Coming, b - 1)
             /\ Before(Coming, b - 1) # tti
             /\ Falls(resv[u], Coming', b) <=> Falls(resv[u], Coming, b - 1)
  <2>1. PICK c \in 0 .. TxDelay : c = b - 1 /\ c + 1 = b /\ c # TxDelay /\ c \in Int
                                  /\ c \in 0 .. (TxDelay + SenseWindow)
    <3>1. SenseWindow \in Nat
      BY DEF SpsAssumption
    <3>2. QED
      BY <1>1, <3>1
  <2>2. Before(Coming', c + 1) = Before(Coming, c)
    BY <2>1, NextCommon
  <2>3. Before(Coming, c) # tti
    <3>1. TxDelay \in 0 .. TxDelay
      BY <1>1
    <3>2. c \in 0 .. (Cycle - 1) /\ TxDelay \in 0 .. (Cycle - 1)
      BY <1>1, <2>1, <3>1
    <3>3. QED
      BY <1>1, <1>4, <2>1, <3>2, BeforeApart
  <2>4. Falls(resv[u], Coming', c + 1) <=> Falls(resv[u], Coming, c)
    <3>1. CASE resv[u].active
      <4>1. \A k \in DOMAIN resv[u].offsets :
               FallsOn(resv[u], Coming', k, c + 1) <=> FallsOn(resv[u], Coming, k, c)
        BY <1>1, <1>2, <2>1, <3>1, FallsNext
      <4>2. QED
        BY <4>1 DEF Falls
    <3>2. CASE ~resv[u].active
      BY <3>2 DEF Falls
    <3>3. QED
      BY <3>1, <3>2
  <2>5. QED
    BY <2>1, <2>2, <2>3, <2>4
<1>6. ASSUME NEW t \in sends'[u] PROVE \E b \in 1 .. TxDelay : t = Before(Coming', b)
  <2>1. PICK c \in 0 .. TxDelay : t = Before(Coming, c)
    BY <1>1, <1>2, <1>3, <1>6 DEF Announces
  <2>2. c # TxDelay
    BY <1>3, <1>4, <1>6, <2>1
  <2>3. c + 1 \in 1 .. TxDelay /\ (c + 1) - 1 = c
    BY <1>1, <2>2
  <2>4. Before(Coming', c + 1) = Before(Coming, c)
    BY <1>5, <2>3
  <2>5. QED
    BY <2>1, <2>3, <2>4
<1>7. ASSUME NEW b \in 1 .. TxDelay
      PROVE  Before(Coming', b) \in sends'[u] /\ ~SyncSubframe(u, Before(Coming', b)) =>
                 Falls(resv[u], Coming', b)
  <2>1. PICK c \in 0 .. TxDelay :
           /\ c = b - 1 /\ Before(Coming', b) = Before(Coming, c) /\ Before(Coming, c) # tti
           /\ Falls(resv[u], Coming', b) <=> Falls(resv[u], Coming, c)
    BY <1>5
  <2>2. Before(Coming, c) \in sends[u] /\ ~SyncSubframe(u, Before(Coming, c)) =>
            Falls(resv[u], Coming, c)
    BY <1>1, <1>2 DEF Announces
  <2>3. QED
    BY <1>3, <2>1, <2>2
<1>8. QED
  BY <1>2, <1>6, <1>7 DEF Announces

\* The next subframe: what was heard is remembered.
LEMMA NextRemembered ==
    ASSUME SpsAssumption, Spans, HeedInv, NextTti, NEW v \in Vehicle, NEW u \in Vehicle,
           missed[u] = 0, Remembered(v, u)
    PROVE  Remembered(v, u)'
<1>1. /\ Coming \in Tti /\ Sound(resv[u]) /\ TxDelay \in Nat \ {0} /\ SenseWindow \in Nat
  BY HeedTypes DEF SpsAssumption
<1>2. /\ Coming' = TtiAdd(Coming, 1) /\ resv' = resv /\ First(v) = 0 /\ First(v)' = 1
      /\ heard' = heard /\ energy' = energy
      /\ resv[u].active => Fits(resv[u], Coming, FALSE)
  BY NextCommon
<1> SUFFICES ASSUME resv[u].active, NEW p \in heard[v][u]
             PROVE  p[1] \in DOMAIN resv[u].offsets /\ Trace(v, resv[u], p[1], p[2])'
  BY <1>2 DEF Remembered
<1>3. p[1] \in DOMAIN resv[u].offsets /\ Trace(v, resv[u], p[1], p[2])
  BY DEF Remembered
<1>4. PICK b \in TxDelay .. (TxDelay + SenseWindow) :
         /\ p[2] = Before(Coming, b) /\ FallsOn(resv[u], Coming, p[1], b)
         /\ EnergyAt(v, Coming, b) = 1
  BY <1>1, <1>2, <1>3 DEF Trace
<1>5. /\ b \in 0 .. (TxDelay + SenseWindow) /\ b \in Int
      /\ b + 1 \in (TxDelay + 1) .. (TxDelay + 1 + SenseWindow)
  BY <1>1
<1>6. Before(Coming', b + 1) = Before(Coming, b)
  BY <1>5, NextCommon
<1>7. FallsOn(resv[u], Coming', p[1], b + 1)
  BY <1>1, <1>2, <1>3, <1>4, <1>5, FallsNext
<1>8. EnergyAt(v, Coming, b + 1)' = 1
  BY <1>2, <1>4, <1>6 DEF EnergyAt, Before
<1>9. Trace(v, resv[u], p[1], p[2])'
  BY <1>2, <1>4, <1>5, <1>6, <1>7, <1>8 DEF Trace
<1>10. QED
  BY <1>3, <1>9

\* The next subframe: all reservations are older by one.
LEMMA NextDisjoint ==
    ASSUME SpsAssumption, Spans, HeedInv, NextTti, NEW v \in Vehicle, NEW u \in Vehicle,
           missed[v] = 0, missed[u] = 0, Disjoint(v, u)
    PROVE  Disjoint(v, u)'
<1>1. Coming \in Tti /\ Sound(resv[u]) /\ Sound(resv[v])
  BY HeedTypes
<1>2. /\ Coming' = TtiAdd(Coming, 1) /\ resv' = resv
      /\ resv[u].active => Fits(resv[u], Coming, FALSE)
      /\ resv[v].active => Fits(resv[v], Coming, FALSE)
  BY NextCommon
<1> SUFFICES ASSUME resv[v].active, resv[u].active,
                    NEW k \in DOMAIN resv[v].offsets, NEW l \in DOMAIN resv[u].offsets,
                    Whole((Age(resv[v], Coming') - resv[v].offsets[k])
                             - (Age(resv[u], Coming') - resv[u].offsets[l]))
             PROVE  FALSE
  BY <1>2 DEF Disjoint, Clash
<1>3. PICK a \in Nat, c \in Nat, o \in Nat, p \in Nat :
         /\ a = Age(resv[v], Coming) /\ c = Age(resv[u], Coming)
         /\ o = resv[v].offsets[k] /\ p = resv[u].offsets[l]
  BY <1>1, SoundNumbers
<1>4. Age(resv[v], Coming') = a + 1 /\ Age(resv[u], Coming') = c + 1
  BY <1>1, <1>2, <1>3, FallsNext
<1>5. ((a + 1) - o) - ((c + 1) - p) = (a - o) - (c - p)
  BY <1>3
<1>6. Whole((a - o) - (c - p))
  BY <1>3, <1>4, <1>5
<1>7. QED
  BY <1>3, <1>6 DEF Disjoint, Clash

\* A vehicle that processes a subframe leaves the others alone, except that what they heard
\* of a reservation it replaces is forgotten.
LEMMA ProcessOthers ==
    ASSUME SpsAssumption, HeedInv, NEW p \in Vehicle, Process(p)
    PROVE  /\ Coming' = Coming /\ tti' = tti /\ missed' = missed /\ on' = on
           /\ turn = p /\ turn' = p + 1 /\ p \in on
           /\ heard' \in [Vehicle -> [Vehicle -> SUBSET (Nat \X Tti)]]
           /\ heard'[p] = Hears(p, heard[p])
           /\ \A w \in Vehicle \ {p} :
                 /\ resv'[w] = resv[w] /\ sends'[w] = sends[w] /\ energy'[w] = energy[w]
                 /\ skipped'[w] = skipped[w] /\ First(w)' = First(w)
                 /\ \A u \in Vehicle \ {p} : heard'[w][u] = heard[w][u]
                 /\ heard'[w][p] = IF ReserveTx(p) THEN {} ELSE heard[w][p]
<1>1. /\ tti' = tti /\ missed' = missed /\ on' = on /\ Tick(p) /\ turn = p /\ turn' = p + 1 /\ p \in on
      /\ Coming' = Coming
  BY ProcessCommon DEF Coming
<1>2. PICK signal \in BOOLEAN : Sends(p, Coming, signal)
  BY ProcessCommon
<1>3. /\ resv \in [Vehicle -> Reservation] /\ sends \in [Vehicle -> SUBSET Tti]
      /\ energy \in [Vehicle -> [0 .. (Ring - 1) -> {Unheard, 0, 1}]]
      /\ heard \in [Vehicle -> [Vehicle -> SUBSET (Nat \X Tti)]]
      /\ skipped \in [Vehicle -> BOOLEAN]
  BY HeedTypes DEF HeedInv, SpsInv, Types
<1>4. \A w \in Vehicle \ {p} : sends'[w] = sends[w] /\ energy'[w] = energy[w]
  BY <1>1, <1>2, <1>3 DEF Tick, Sends
<1>5. \A w \in Vehicle \ {p} : resv'[w] = resv[w] /\ skipped'[w] = skipped[w]
  <2>1. CASE SyncTx(p)
    BY <2>1 DEF SyncTx
  <2>2. CASE KeepTx(p)
    <3>1. PICK r : /\ resv' = [resv EXCEPT ![p] = r]
                   /\ skipped' = [skipped EXCEPT ![p] = skipped[p] /\ r.from = resv[p].from]
      BY <2>2 DEF KeepTx
    <3>2. QED
      BY <1>3, <3>1
  <2>3. CASE ReserveTx(p)
    <3>1. PICK r : /\ resv' = [resv EXCEPT ![p] = r]
                   /\ skipped' = [skipped EXCEPT ![p] = FALSE]
      BY <2>3 DEF ReserveTx
    <3>2. QED
      BY <1>3, <3>1
  <2>4. QED
    BY <2>1, <2>2, <2>3 DEF Process
<1>6. \A w \in Vehicle \ {p} : First(w)' = First(w)
  <2> SUFFICES ASSUME NEW w \in Vehicle \ {p} PROVE First(w)' = First(w)
    OBVIOUS
  <2>1. w \in Nat /\ p \in Nat /\ w # p
    BY DEF Vehicle
  <2>2. (turn' <= w) <=> (turn <= w)
    BY <1>1, <2>1
  <2>3. QED
    BY <2>2 DEF First
<1>7. Hears(p, heard[p]) \in [Vehicle -> SUBSET (Nat \X Tti)]
  <2> SUFFICES ASSUME NEW u \in Vehicle
               PROVE  Hears(p, heard[p])[u] \in SUBSET (Nat \X Tti)
    BY DEF Hears
  <2>1. ResourceAt(resv[u], tti) \in Nat
    <3> DEFINE r == resv[u]
               hits == {k \in DOMAIN r.offsets :
                          \E j \in 0 .. r.counter : tti = TtiAdd(r.from, r.offsets[k] + j * Period)}
    <3>1. hits \in SUBSET Nat
      <4>1. PICK s \in Seq(Candidate) : s = r.offsets
        BY HeedTypes DEF Sound, Reservation
      <4>2. DOMAIN s = 1 .. Len(s)
        OBVIOUS
      <4>3. QED
        BY <4>1, <4>2
    <3>2. ResourceAt(r, tti) = IF r.active /\ hits # {} THEN Min(hits) ELSE 0
      BY DEF ResourceAt
    <3> HIDE DEF hits, r
    <3>3. hits # {} => Min(hits) \in Nat
      <4>1. hits # {} => Min(hits) \in hits
        BY <3>1, LeastExists
      <4>2. QED
        BY <3>1, <4>1
    <3>4. ResourceAt(r, tti) \in Nat
      BY <3>2, <3>3
    <3>5. QED
      BY <3>4 DEF r
  <2>2. heard[p][u] \in SUBSET (Nat \X Tti) /\ tti \in Tti
    BY <1>3, HeedTypes
  <2>3. ASSUME NEW q \in Hears(p, heard[p])[u] PROVE q \in Nat \X Tti
    <3>1. q \in heard[p][u] \/ \E k \in {ResourceAt(resv[u], tti)} : q = <<k, tti>>
      BY <2>3 DEF Hears
    <3>2. QED
      BY <2>1, <2>2, <3>1
  <2>4. QED
    BY <2>3
<1>8. CASE ~ReserveTx(p)
  <2>1. heard' = [heard EXCEPT ![p] = Hears(p, heard[p])]
    BY <1>8 DEF Process, SyncTx, KeepTx
  <2>2. /\ heard' \in [Vehicle -> [Vehicle -> SUBSET (Nat \X Tti)]] /\ heard'[p] = Hears(p, heard[p])
        /\ \A w \in Vehicle \ {p} : heard'[w] = heard[w]
    BY <1>3, <1>7, <2>1
  <2>3. QED
    BY <1>1, <1>4, <1>5, <1>6, <1>8, <2>2
<1>9. CASE ReserveTx(p)
  <2>1. heard' = [u \in Vehicle |-> IF u = p THEN Hears(p, heard[p]) ELSE [heard[u] EXCEPT ![p] = {}]]
    BY <1>9 DEF ReserveTx
  <2>2. /\ heard' \in [Vehicle -> [Vehicle -> SUBSET (Nat \X Tti)]] /\ heard'[p] = Hears(p, heard[p])
    BY <1>3, <1>7, <2>1
  <2>3. \A w \in Vehicle \ {p} : /\ \A u \in Vehicle \ {p} : heard'[w][u] = heard[w][u]
                                 /\ heard'[w][p] = {}
    BY <1>3, <2>1
  <2>4. QED
    BY <1>1, <1>4, <1>5, <1>6, <1>9, <2>2, <2>3
<1>10. QED
  BY <1>8, <1>9

\* The reservation of a vehicle that processes a subframe: another one, or the same subframes.
LEMMA ProcessReservation ==
    ASSUME SpsAssumption, Spans, HeedInv, SpsInv', NEW p \in Vehicle, missed[p] = 0, Process(p)
    PROVE  \/ ReserveTx(p)
           \/ resv'[p].active =>
                 /\ resv[p].active /\ resv'[p].offsets = resv[p].offsets
                 /\ Whole(Age(resv'[p], Coming) - Age(resv[p], Coming))
<1>1. /\ Coming \in Tti /\ Sound(resv[p]) /\ p \in Nat /\ turn = p
      /\ resv \in [Vehicle -> Reservation] /\ ~skipped[p]
  BY HeedTypes, ProcessCommon DEF Careful
<1>2. resv[p].active => Fits(resv[p], Coming, TRUE)
  <2>1. (turn <= p) = TRUE
    BY <1>1
  <2>2. QED
    BY <1>1, <2>1 DEF HeedInv, SpsInv, Aged
<1>3. CASE SyncTx(p)
  <2>1. resv' = resv
    BY <1>3 DEF SyncTx
  <2>2. Age(resv[p], Coming) - Age(resv[p], Coming) = 0
    BY <1>1, SoundNumbers
  <2>3. QED
    BY <2>1, <2>2, WholeSum
<1>4. CASE KeepTx(p)
  <2>1. PICK x \in ExtendOrExpire(resv[p], Coming) : resv' = [resv EXCEPT ![p] = x]
    BY <1>4 DEF KeepTx, Coming
  <2>2. resv'[p] = x
    BY <1>1, <2>1
  <2>3. QED
    BY <1>1, <1>2, <2>2, ExtendedFalls
<1>5. QED
  BY <1>3, <1>4 DEF Process

\* What was heard is remembered while the measurements and the subframes stay the same.
LEMMA RememberedSame ==
    ASSUME NEW v \in Vehicle, NEW u \in Vehicle, Remembered(v, u), Coming' = Coming,
           heard'[v][u] = heard[v][u], energy'[v] = energy[v], First(v)' = First(v),
           resv'[u].active =>
              /\ resv[u].active /\ resv'[u].offsets = resv[u].offsets
              /\ \A k \in DOMAIN resv[u].offsets, b \in Int :
                    FallsOn(resv'[u], Coming, k, b) <=> FallsOn(resv[u], Coming, k, b)
    PROVE  Remembered(v, u)'
<1> SUFFICES ASSUME resv'[u].active, NEW p \in heard[v][u]
             PROVE  p[1] \in DOMAIN resv'[u].offsets /\ Trace(v, resv[u], p[1], p[2])'
  BY DEF Remembered
<1>1. p[1] \in DOMAIN resv[u].offsets /\ Trace(v, resv[u], p[1], p[2])
  BY DEF Remembered
<1>2. \A b \in Int : FallsOn(resv'[u], Coming, p[1], b) <=> FallsOn(resv[u], Coming, p[1], b)
  BY <1>1
<1>3. \A b : EnergyAt(v, Coming, b)' = EnergyAt(v, Coming, b)
  BY DEF EnergyAt
<1>4. PICK b \in (TxDelay + First(v)) .. (TxDelay + First(v) + SenseWindow) :
         /\ p[2] = Before(Coming, b) /\ FallsOn(resv[u], Coming, p[1], b)
         /\ EnergyAt(v, Coming, b) = 1
  BY <1>1 DEF Trace
<1>5. FallsOn(resv'[u], Coming, p[1], b)
  BY <1>2, <1>4
<1>6. Trace(v, resv[u], p[1], p[2])'
  BY <1>3, <1>4, <1>5 DEF Trace
<1>7. QED
  BY <1>1, <1>6

\* The measurement of the subframe received replaces none that a selection still looks at.
LEMMA ProcessEnergy ==
    ASSUME SpsAssumption, HeedInv, NEW v \in Vehicle, Process(v)
    PROVE  /\ EnergyAt(v, Coming, TxDelay)' = Measured(v)
           /\ \A c \in (TxDelay + 1) .. Reach : EnergyAt(v, Coming, c)' = EnergyAt(v, Coming, c)
<1>1. /\ Coming' = Coming /\ Tick(v) /\ tti \in Tti /\ Numbers
      /\ energy \in [Vehicle -> [0 .. (Ring - 1) -> {Unheard, 0, 1}]]
  BY ProcessCommon, ProcessOthers, HeedTypes, SyncNumbers
<1>2. /\ tti \in Nat /\ tti < Cycle /\ Cycle \in Nat \ {0} /\ Ring \in Nat \ {0} /\ Ring <= Cycle
      /\ Cycle % Ring = 0
      /\ TxDelay \in Nat /\ SenseWindow \in Nat /\ SenseWindow + 1 + TxDelay < Ring
      /\ Idx(tti) \in 0 .. (Ring - 1)
  <2>1. tti \in Nat /\ tti < Cycle
    BY <1>1 DEF Tti, Numbers
  <2>2. QED
    BY <1>1, <2>1, IdxInRing DEF Numbers
<1>3. /\ energy'[v][Idx(tti)] = Measured(v)
      /\ \A k \in 0 .. (Ring - 1) : k # Idx(tti) => energy'[v][k] = energy[v][k]
  BY <1>1, <1>2 DEF Tick
<1>4. Types
  BY DEF HeedInv, SpsInv
<1>5. EnergyAt(v, Coming, TxDelay)' = Measured(v)
  <2>1. Before(Coming, TxDelay) = tti
    BY <1>4, ReceivedBefore
  <2>2. QED
    BY <1>1, <1>3, <2>1 DEF EnergyAt, Before
<1>6. ASSUME NEW c \in (TxDelay + 1) .. Reach
      PROVE  EnergyAt(v, Coming, c)' = EnergyAt(v, Coming, c)
  <2>1. PICK n \in 1 .. (SenseWindow + 1) : c = n + TxDelay
    <3>1. c - TxDelay \in 1 .. (SenseWindow + 1) /\ c = (c - TxDelay) + TxDelay
      BY <1>2 DEF Reach
    <3>2. QED
      BY <3>1
  <2>2. n \in 0 .. (SenseWindow + 1) /\ n \in 1 .. (Ring - 1) /\ Cycle - n \in Nat /\ n \in Nat
    BY <1>2
  <2>3. Before(Coming, c) = Before(tti, n)
    BY <1>4, <2>1, <2>2, ReceivedBefore
  <2>4. PICK z \in Nat : z = Before(tti, n)
    <3>1. n \in 0 .. (Cycle - 1)
      BY <1>2, <2>2
    <3>2. Before(tti, n) \in Tti
      BY <1>1, <3>1, BeforeApart
    <3>3. QED
      BY <1>2, <3>2 DEF Tti
  <2>5. Idx(z) = (tti + (Cycle - n)) % Ring
    <3>1. PICK d \in Nat : d = Cycle - n
      BY <2>2
    <3>2. TtiAdd(tti, d) % Ring = (tti + d) % Ring
      BY <1>2, PlaceOfSum
    <3>3. QED
      BY <2>4, <3>1, <3>2 DEF Before, Idx
  <2>6. (tti + (Cycle - n)) % Ring # tti % Ring
    <3>1. tti + (Cycle - n) \in Nat /\ (tti + (Cycle - n)) + n = tti + Cycle
      BY <1>2, <2>2
    <3>2. ((tti + (Cycle - n)) + n) % Ring # (tti + (Cycle - n)) % Ring
      BY <1>2, <2>2, <3>1, PlacesApart
    <3>3. (tti + Cycle) % Ring = tti % Ring
      BY <1>2, WholePeriods
    <3>4. QED
      BY <3>1, <3>2, <3>3
  <2>7. Idx(z) # Idx(tti) /\ Idx(z) \in 0 .. (Ring - 1)
    BY <2>5, <2>6, IdxInRing DEF Idx
  <2>8. energy'[v][Idx(z)] = energy[v][Idx(z)]
    BY <1>3, <2>7
  <2>9. QED
    BY <1>1, <2>3, <2>4, <2>8 DEF EnergyAt, Before
<1>7. QED
  BY <1>5, <1>6

\* What a vehicle hears it remembers as long as a selection looks at it.
LEMMA ProcessListens ==
    ASSUME SpsAssumption, Spans, HeedInv, NEW v \in Vehicle, Process(v),
           NEW u \in Vehicle \ {v}, Remembered(v, u)
    PROVE  Remembered(v, u)'
<1>1. /\ Coming \in Tti /\ Coming' = Coming /\ tti \in Tti /\ Sound(resv[u]) /\ v \in Nat
      /\ turn = v /\ turn' = v + 1 /\ heard'[v] = Hears(v, heard[v]) /\ resv'[u] = resv[u]
      /\ TxDelay \in Nat \ {0} /\ SenseWindow \in Nat
  BY ProcessOthers, HeedTypes DEF SpsAssumption
<1>2. First(v) = 1 /\ First(v)' = 0 /\ Reach = TxDelay + SenseWindow + 1
  BY <1>1 DEF First, Reach
<1>3. /\ EnergyAt(v, Coming, TxDelay)' = Measured(v)
      /\ \A c \in (TxDelay + 1) .. Reach : EnergyAt(v, Coming, c)' = EnergyAt(v, Coming, c)
  BY ProcessEnergy
<1>4. Types /\ Before(Coming, TxDelay) = tti
  BY ReceivedBefore DEF HeedInv, SpsInv
<1> SUFFICES ASSUME resv[u].active, NEW p \in heard'[v][u]
             PROVE  p[1] \in DOMAIN resv[u].offsets /\ Trace(v, resv[u], p[1], p[2])'
  BY <1>1 DEF Remembered
<1>5. CASE p \in heard[v][u] /\ Before(tti, p[2]) <= SenseWindow
  <2>1. p[1] \in DOMAIN resv[u].offsets /\ Trace(v, resv[u], p[1], p[2])
    BY <1>5 DEF Remembered
  <2>2. PICK b \in (TxDelay + 1) .. (TxDelay + 1 + SenseWindow) :
           /\ p[2] = Before(Coming, b) /\ FallsOn(resv[u], Coming, p[1], b)
           /\ EnergyAt(v, Coming, b) = 1
    BY <1>2, <2>1 DEF Trace
  <2>3. PICK n \in 1 .. (SenseWindow + 1) : b = n + TxDelay
    <3>1. b - TxDelay \in 1 .. (SenseWindow + 1) /\ b = (b - TxDelay) + TxDelay
      BY <1>1
    <3>2. QED
      BY <3>1
  <2>4. n \in 0 .. (SenseWindow + 1) /\ n \in 0 .. (Cycle - 1)
    <3>1. Numbers
      BY SyncNumbers
    <3>2. QED
      BY <1>1, <3>1 DEF Numbers
  <2>5. Before(tti, n) = p[2]
    BY <1>4, <2>2, <2>3, <2>4, ReceivedBefore
  <2>6. Before(tti, p[2]) = n
    <3>1. p[2] \in Tti
      BY <1>1, <2>4, <2>5, Distance
    <3>2. QED
      BY <1>1, <2>4, <2>5, <3>1, Distance
  <2>7. b \in TxDelay .. (TxDelay + SenseWindow) /\ b \in (TxDelay + 1) .. Reach
    BY <1>1, <1>2, <1>5, <2>3, <2>6
  <2>8. EnergyAt(v, Coming, b)' = 1
    BY <1>3, <2>2, <2>7
  <2>9. Trace(v, resv[u], p[1], p[2])'
    BY <1>1, <1>2, <2>2, <2>7, <2>8 DEF Trace
  <2>10. QED
    BY <2>1, <2>9
<1>6. CASE ~(p \in heard[v][u] /\ Before(tti, p[2]) <= SenseWindow)
  <2>1. /\ OthersOnAir(v) = {u} /\ Monitors(v) /\ p = <<ResourceAt(resv[u], tti), tti>>
        /\ ResourceAt(resv[u], tti) # 0
    BY <1>1, <1>6 DEF Hears, Before
  <2>2. p[1] \in DOMAIN resv[u].offsets /\ FallsOn(resv[u], Coming, p[1], TxDelay)
    <3>1. TxDelay \in 0 .. TxDelay
      BY <1>1
    <3>2. p[1] = ResourceAt(resv[u], tti)
      BY <2>1
    <3>3. QED
      BY <1>1, <1>4, <2>1, <3>1, <3>2, ResourceFalls
  <2>3. EnergyAt(v, Coming, TxDelay)' = 1
    BY <1>3, <2>1 DEF Measured
  <2>4. TxDelay \in (TxDelay + 0) .. (TxDelay + 0 + SenseWindow) /\ p[2] = Before(Coming, TxDelay)
    BY <1>1, <1>4, <2>1
  <2>5. Trace(v, resv[u], p[1], p[2])'
    BY <1>1, <1>2, <2>2, <2>3, <2>4 DEF Trace
  <2>6. QED
    BY <2>2, <2>5
<1>7. QED
  BY <1>5, <1>6

\* A vehicle that processes a subframe: what it and the others remember.
LEMMA ProcessRemembered ==
    ASSUME SpsAssumption, Spans, HeedInv, SpsInv', NEW p \in Vehicle, Process(p),
           NEW v \in Vehicle, NEW u \in Vehicle, v # u, missed[v] = 0, missed[u] = 0
    PROVE  Remembered(v, u)'
<1>1. Remembered(v, u) /\ Coming' = Coming
  BY ProcessOthers DEF HeedInv, Heeding
<1>2. CASE v = p
  BY <1>1, <1>2, ProcessListens
<1>3. CASE v # p /\ u # p
  <2>1. /\ heard'[v][u] = heard[v][u] /\ energy'[v] = energy[v] /\ First(v)' = First(v)
        /\ resv'[u] = resv[u]
    BY <1>3, ProcessOthers
  <2>2. QED
    BY <1>1, <2>1, RememberedSame
<1>4. CASE v # p /\ u = p
  <2>1. /\ energy'[v] = energy[v] /\ First(v)' = First(v)
        /\ heard'[v][p] = IF ReserveTx(p) THEN {} ELSE heard[v][p]
    BY <1>4, ProcessOthers
  <2>2. CASE ReserveTx(p)
    BY <1>4, <2>1, <2>2 DEF Remembered
  <2>3. CASE ~ReserveTx(p)
    <3>1. resv'[p].active =>
             /\ resv[p].active /\ resv'[p].offsets = resv[p].offsets
             /\ Whole(Age(resv'[p], Coming) - Age(resv[p], Coming))
      BY <1>4, <2>3, ProcessReservation
    <3>2. Coming \in Tti /\ Sound(resv[p]) /\ Sound(resv'[p])
      BY HeedTypes DEF SpsInv, Types
    <3>3. resv'[p].active =>
             \A k \in DOMAIN resv[p].offsets, b \in Int :
                FallsOn(resv'[p], Coming, k, b) <=> FallsOn(resv[p], Coming, k, b)
      BY <3>1, <3>2, SameFalls
    <3>4. QED
      BY <1>1, <1>4, <2>1, <2>3, <3>1, <3>3, RememberedSame
  <2>4. QED
    BY <2>2, <2>3
<1>5. QED
  BY <1>2, <1>3, <1>4

\* Falling on the same subframes goes both ways.
LEMMA ClashSymmetric ==
    ASSUME SpsAssumption, Spans, NEW r, Sound(r), NEW s, Sound(s), NEW t \in Tti, Clash(r, s, t)
    PROVE  Clash(s, r, t)
<1>1. PICK k \in DOMAIN r.offsets, l \in DOMAIN s.offsets :
         Whole((Age(r, t) - r.offsets[k]) - (Age(s, t) - s.offsets[l]))
  BY DEF Clash
<1>2. PICK a \in Nat, c \in Nat, o \in Nat, p \in Nat :
         a = Age(r, t) /\ c = Age(s, t) /\ o = r.offsets[k] /\ p = s.offsets[l]
  BY SoundNumbers
<1>3. (a - o) - (c - p) \in Int /\ 0 - ((a - o) - (c - p)) = (c - p) - (a - o) /\ 0 \in Int
  BY <1>2
<1>4. Whole((c - p) - (a - o))
  BY <1>1, <1>2, <1>3, WholeSum
<1>5. QED
  BY <1>2, <1>4 DEF Clash

\* Whole periods make no difference to it.
LEMMA ClashSame ==
    ASSUME SpsAssumption, Spans, NEW r, Sound(r), NEW s, Sound(s), NEW x, Sound(x), NEW t \in Tti,
           x.offsets = r.offsets, Whole(Age(x, t) - Age(r, t)), Clash(x, s, t)
    PROVE  Clash(r, s, t)
<1>1. PICK k \in DOMAIN r.offsets, l \in DOMAIN s.offsets :
         Whole((Age(x, t) - x.offsets[k]) - (Age(s, t) - s.offsets[l]))
  BY DEF Clash
<1>2. PICK a \in Nat, b \in Nat, c \in Nat, o \in Nat, p \in Nat :
         /\ a = Age(r, t) /\ b = Age(x, t) /\ c = Age(s, t)
         /\ o = r.offsets[k] /\ o = x.offsets[k] /\ p = s.offsets[l]
  BY SoundNumbers
<1>3. /\ (b - o) - (c - p) \in Int /\ b - a \in Int /\ Whole(b - a)
      /\ ((b - o) - (c - p)) - (b - a) = (a - o) - (c - p)
  BY <1>2
<1>4. Whole((a - o) - (c - p))
  BY <1>1, <1>2, <1>3, WholeSum
<1>5. QED
  BY <1>2, <1>4 DEF Clash

\* A vehicle with room that remembers all of a reservation chooses none that falls on it.
LEMMA ChosenDisjoint ==
    ASSUME SpsAssumption, Spans, HeedInv, NEW p \in Vehicle, turn = p, Roomy(p),
           NEW u \in Vehicle, Knows(p, u), Remembered(p, u), NEW r \in Chosen(p, Coming)
    PROVE  ~Clash(r, resv[u], Coming)
<1> SUFFICES ASSUME NEW k \in DOMAIN r.offsets, NEW l \in DOMAIN resv[u].offsets,
                    Whole((Age(r, Coming) - r.offsets[k]) - (Age(resv[u], Coming) - resv[u].offsets[l]))
             PROVE  FALSE
  BY DEF Clash
<1>1. /\ Coming \in Tti /\ tti \in Tti /\ Sound(resv[u]) /\ p \in Nat /\ turn = p
      /\ energy \in [Vehicle -> [0 .. (Ring - 1) -> {Unheard, 0, 1}]]
      /\ TxDelay \in Nat \ {0} /\ SenseWindow \in Nat /\ SelWindow \in Nat
      /\ First(p) = 1 /\ Types
  <2>1. /\ Coming \in Tti /\ tti \in Tti /\ Sound(resv[u]) /\ p \in Nat
        /\ energy \in [Vehicle -> [0 .. (Ring - 1) -> {Unheard, 0, 1}]]
    BY HeedTypes
  <2>2. TxDelay \in Nat \ {0} /\ SenseWindow \in Nat /\ SelWindow \in Nat
    BY DEF SpsAssumption
  <2>3. First(p) = 1 /\ Types
    BY <2>1 DEF First, HeedInv, SpsInv
  <2>4. QED
    BY <2>1, <2>2, <2>3
<1>2. r.offsets[k] \in Candidate /\ Level(p, tti, r.offsets[k]) = 0
  BY <1>1, ChosenQuiet
<1>3. Sound(r) /\ Age(r, Coming) = 0
  <2>1. Coming \in Tti /\ r \in Chosen(p, Coming) \cup Unfounded(Coming)
    BY <1>1
  <2>2. Sound(r) /\ r.from = Coming
    BY <2>1, ChosenSound
  <2>3. QED
    BY <2>1, <2>2, AgeAtStart
<1>4. PICK i \in Nat, a \in Nat, o \in Nat :
         i = r.offsets[k] /\ a = Age(resv[u], Coming) /\ o = resv[u].offsets[l]
  <2>1. Age(resv[u], Coming) \in Nat /\ resv[u].offsets[l] \in Nat
    BY <1>1, SoundNumbers
  <2>2. r.offsets[k] \in Nat
    BY <1>1, <1>3, SoundNumbers
  <2>3. QED
    BY <2>1, <2>2
<1>5. Whole((0 - i) - (a - o)) /\ (0 - i) - (a - o) \in Int
  BY <1>3, <1>4
<1>6. \A c \in Nat : FallsOn(resv[u], Coming, l, c) <=> Whole(i + c)
  <2> SUFFICES ASSUME NEW c \in Nat PROVE Whole(a - c - o) <=> Whole(i + c)
    BY <1>4 DEF FallsOn
  <2> DEFINE w == (0 - i) - (a - o)
  <2>1. /\ a - c - o \in Int /\ i + c \in Int /\ w \in Int /\ 0 \in Int /\ w + (a - c - o) \in Int
        /\ 0 - (w + (a - c - o)) = i + c
        /\ 0 - (w + (i + c)) = a - c - o /\ w + (i + c) \in Int
    BY <1>4
  <2>2. Whole(w) /\ Whole(0)
    BY <1>5, WholeSum
  <2> HIDE DEF w
  <2>3. Whole(a - c - o) => Whole(w + (a - c - o))
    BY <2>1, <2>2, WholeSum
  <2>4. Whole(w + (a - c - o)) => Whole(0 - (w + (a - c - o)))
    BY <2>1, <2>2, WholeSum
  <2>5. Whole(i + c) => Whole(w + (i + c))
    BY <2>1, <2>2, WholeSum
  <2>6. Whole(w + (i + c)) => Whole(0 - (w + (i + c)))
    BY <2>1, <2>2, WholeSum
  <2>7. QED
    BY <2>1, <2>3, <2>4, <2>5, <2>6
<1>7. \A n \in 1 .. (SenseWindow + 1) : EnergyAt(p, tti, n) = EnergyAt(p, Coming, n + TxDelay)
  <2> SUFFICES ASSUME NEW n \in 1 .. (SenseWindow + 1)
               PROVE  EnergyAt(p, tti, n) = EnergyAt(p, Coming, n + TxDelay)
    OBVIOUS
  <2>1. n \in 0 .. (SenseWindow + 1)
    BY <1>1
  <2>2. Before(tti, n) = Before(Coming, n + TxDelay)
    BY <1>1, <2>1, ReceivedBefore
  <2>3. QED
    BY <2>2 DEF EnergyAt, Before
<1>8. \A n \in 1 .. (SenseWindow + 1) : Whole(TxDelay + i + n) => EnergyAt(p, tti, n) # 1
  <2>1. energy[p] \in [0 .. (Ring - 1) -> {Unheard, 0, 1}]
    BY <1>1
  <2>2. QED
    BY <1>1, <1>2, <1>4, <2>1, LevelMeans
<1>9. PICK q \in heard[p][u] : Trace(p, resv[u], l, q[2])
  <2>1. PICK q \in heard[p][u] : q[1] = l
    BY DEF Knows
  <2>2. Trace(p, resv[u], q[1], q[2])
    BY DEF Knows, Remembered
  <2>3. QED
    BY <2>1, <2>2
<1>10. PICK b \in (TxDelay + 1) .. (TxDelay + 1 + SenseWindow) :
          FallsOn(resv[u], Coming, l, b) /\ EnergyAt(p, Coming, b) = 1
  BY <1>1, <1>9 DEF Trace
<1>11. PICK n \in 1 .. (SenseWindow + 1) : n + TxDelay = b /\ TxDelay + i + n = i + b /\ b \in Nat
  <2>1. b \in Nat /\ TxDelay \in Nat /\ i \in Nat /\ b - TxDelay \in 1 .. (SenseWindow + 1)
    BY <1>1
  <2>2. PICK n \in 1 .. (SenseWindow + 1) : n = b - TxDelay
    BY <2>1
  <2>3. n + TxDelay = b /\ TxDelay + i + n = i + b
    BY <2>1, <2>2
  <2>4. QED
    BY <2>1, <2>3
<1>12. Whole(TxDelay + i + n)
  BY <1>6, <1>10, <1>11
<1>13. EnergyAt(p, tti, n) = 1
  BY <1>7, <1>10, <1>11
<1>14. QED
  BY <1>8, <1>12, <1>13

\* The pairs a vehicle that processes a subframe is in.
LEMMA ProcessPairs ==
    ASSUME SpsAssumption, Spans, HeedInv, SpsInv', NEW p \in Vehicle, Process(p), missed[p] = 0,
           NEW u \in Vehicle, missed[u] = 0, {p, u} \in apart'
    PROVE  p # u /\ (resv'[p].active /\ resv'[u].active => ~Clash(resv'[p], resv'[u], Coming))
<1>1. /\ Coming \in Tti /\ Sound(resv[p]) /\ Sound(resv[u]) /\ Sound(resv'[p])
      /\ resv \in [Vehicle -> Reservation] /\ turn = p
  BY HeedTypes, ProcessOthers DEF SpsInv, Types
<1>2. CASE ReserveTx(p)
  <2>1. PICK w \in Vehicle \ {p} :
           Roomy(p) /\ Knows(p, w) /\ {p, u} = {p, w} /\ filled'[p] = SenseWindow
    <3> DEFINE full == filled'[p] = SenseWindow
               known == {{p, w} : w \in {z \in Vehicle \ {p} : missed[p] = 0 /\ Roomy(p) /\ Knows(p, z)}}
    <3>1. apart' = {q \in apart : p \notin q} \cup (IF full THEN known ELSE {})
      BY <1>2 DEF ReserveTx
    <3>2. {p, u} \in known /\ full
      <4> HIDE DEF known, full
      <4>1. {p, u} \notin {q \in apart : p \notin q}
        OBVIOUS
      <4>2. QED
        BY <3>1, <4>1
    <3>3. QED
      BY <3>2
  <2>2. w = u /\ p # u
    BY <2>1
  <2>3. resv'[u] = resv[u] /\ Remembered(p, u)
    BY <2>2, ProcessOthers DEF HeedInv, Heeding
  <2>4. PICK r \in Chosen(p, Coming) : resv' = [resv EXCEPT ![p] = r]
    BY <1>2, <2>1 DEF ReserveTx, Coming
  <2>5. resv'[p] = r
    BY <1>1, <2>4
  <2>6. ~Clash(r, resv[u], Coming)
    BY <1>1, <2>1, <2>2, <2>3, ChosenDisjoint
  <2>7. QED
    BY <2>2, <2>3, <2>5, <2>6
<1>3. CASE ~ReserveTx(p)
  <2>1. apart' = apart
    BY <1>3 DEF Process, SyncTx, KeepTx
  <2>2. Disjoint(p, u)
    BY <2>1 DEF HeedInv, Heeding
  <2>3. p # u /\ resv'[u] = resv[u]
    BY <2>2, ProcessOthers DEF Disjoint
  <2>4. resv'[p].active =>
           /\ resv[p].active /\ resv'[p].offsets = resv[p].offsets
           /\ Whole(Age(resv'[p], Coming) - Age(resv[p], Coming))
    BY <1>3, ProcessReservation
  <2>5. ASSUME resv'[p].active, resv[u].active, Clash(resv'[p], resv[u], Coming) PROVE FALSE
    <3>1. Clash(resv[p], resv[u], Coming)
      BY <1>1, <2>4, <2>5, ClashSame
    <3>2. QED
      BY <2>2, <2>4, <2>5, <3>1 DEF Disjoint
  <2>6. QED
    BY <2>3, <2>5
<1>4. QED
  BY <1>2, <1>3

\* All pairs stay apart when a vehicle processes a subframe.
LEMMA ProcessDisjoint ==
    ASSUME SpsAssumption, Spans, HeedInv, SpsInv', NEW p \in Vehicle, Process(p),
           NEW v \in Vehicle, NEW u \in Vehicle, missed[v] = 0, missed[u] = 0, {v, u} \in apart'
    PROVE  Disjoint(v, u)'
<1>1. Coming' = Coming /\ Coming \in Tti
  BY ProcessOthers, HeedTypes
<1>2. CASE v = p
  BY <1>1, <1>2, ProcessPairs DEF Disjoint
<1>3. CASE v # p /\ u = p
  <2>1. {p, v} \in apart'
    <3>1. {p, v} = {v, u}
      BY <1>3
    <3>2. QED
      BY <3>1
  <2>2. p # v /\ (resv'[p].active /\ resv'[v].active => ~Clash(resv'[p], resv'[v], Coming))
    BY <1>3, <2>1, ProcessPairs
  <2>3. Sound(resv'[p]) /\ Sound(resv'[v])
    BY DEF SpsInv, Types
  <2>4. Clash(resv'[v], resv'[p], Coming) => Clash(resv'[p], resv'[v], Coming)
    BY <1>1, <2>3, ClashSymmetric
  <2>5. QED
    BY <1>1, <1>3, <2>2, <2>4 DEF Disjoint
<1>4. CASE v # p /\ u # p
  <2>1. {v, u} \in apart
    <3>1. CASE ReserveTx(p)
      <4> DEFINE full == filled'[p] = SenseWindow
                 known == {{p, w} : w \in {z \in Vehicle \ {p} : missed[p] = 0 /\ Roomy(p) /\ Knows(p, z)}}
      <4>1. apart' = {q \in apart : p \notin q} \cup (IF full THEN known ELSE {})
        BY <3>1 DEF ReserveTx
      <4>2. \A q \in known : p \in q
        OBVIOUS
      <4>3. p \notin {v, u}
        BY <1>4
      <4> HIDE DEF known, full
      <4>4. QED
        BY <4>1, <4>2, <4>3
    <3>2. CASE ~ReserveTx(p)
      BY <3>2 DEF Process, SyncTx, KeepTx
    <3>3. QED
      BY <3>1, <3>2
  <2>2. Disjoint(v, u)
    BY <2>1 DEF HeedInv, Heeding
  <2>3. resv'[v] = resv[v] /\ resv'[u] = resv[u]
    BY <1>4, ProcessOthers
  <2>4. QED
    BY <1>1, <2>2, <2>3 DEF Disjoint
<1>5. QED
  BY <1>2, <1>3, <1>4

-------------------------------------------------------------------------------
(* The steps.                                                                 *)

\* What another vehicle sends stays as announced.
LEMMA AnnouncesSame ==
    ASSUME NEW u, Announces(u), Coming' = Coming, resv'[u] = resv[u], sends'[u] = sends[u],
           First(u)' = First(u)
    PROVE  Announces(u)'
  BY DEF Announces

\* A vehicle processes a subframe.
LEMMA ProcessHeeds ==
    ASSUME SpsAssumption, Spans, HeedInv, SpsInv', NEW p \in Vehicle, Process(p)
    PROVE  Heeding'
<1>1. /\ Coming' = Coming /\ missed' = missed /\ on' = on /\ p \in on
      /\ heard' \in [Vehicle -> [Vehicle -> SUBSET (Nat \X Tti)]]
  BY ProcessOthers
<1>2. Knowing'
  <2>1. ASSUME NEW v \in Vehicle \ on, NEW u \in Vehicle PROVE heard'[v][u] = {}
    <3>1. v # p /\ heard[v][u] = {}
      BY <1>1 DEF HeedInv, Heeding, Knowing
    <3>2. CASE u = p
      BY <3>1, <3>2, ProcessOthers
    <3>3. CASE u # p
      BY <3>1, <3>3, ProcessOthers
    <3>4. QED
      BY <3>2, <3>3
  <2>2. QED
    BY <1>1, <2>1 DEF Knowing, HeedInv, Heeding
<1>3. ASSUME NEW u \in Vehicle PROVE Careful(u)'
  <2> SUFFICES ASSUME missed[u] = 0 PROVE ~skipped'[u] /\ Announces(u)'
    BY <1>1 DEF Careful
  <2>1. CASE u = p
    BY <2>1, ProcessAnnounces
  <2>2. CASE u # p
    <3>1. ~skipped[u] /\ Announces(u)
      BY HeedTypes DEF Careful
    <3>2. /\ skipped'[u] = skipped[u] /\ resv'[u] = resv[u] /\ sends'[u] = sends[u]
          /\ First(u)' = First(u)
      BY <2>2, ProcessOthers
    <3>3. QED
      BY <1>1, <3>1, <3>2, AnnouncesSame
  <2>3. QED
    BY <2>1, <2>2
<1>4. ASSUME NEW v \in Vehicle, NEW u \in Vehicle, v # u, missed[v] = 0, missed[u] = 0
      PROVE  Remembered(v, u)'
  BY <1>4, ProcessRemembered
<1>5. ASSUME NEW v \in Vehicle, NEW u \in Vehicle, {v, u} \in apart', missed[v] = 0, missed[u] = 0
      PROVE  Disjoint(v, u)'
  BY <1>5, ProcessDisjoint
<1>6. QED
  BY <1>1, <1>2, <1>3, <1>4, <1>5 DEF Heeding

\* A vehicle that is off has sent nothing and heard nothing, and one that loses a subframe
\* claims nothing any more; nothing changes for the others.
LEMMA IdleHeeds ==
    ASSUME SpsAssumption, Spans, HeedInv, NEW p \in Vehicle, StaysOff(p) \/ SwitchOn(p) \/ Miss(p)
    PROVE  Heeding'
<1>1. /\ tti' = tti /\ UNCHANGED <<resv, energy, sends, heard, apart>> /\ Coming' = Coming
      /\ turn = p /\ turn' \in {p, p + 1} /\ on \subseteq on'
  BY DEF StaysOff, SwitchOn, Miss, Turn, Coming
<1>2. /\ heard \in [Vehicle -> [Vehicle -> SUBSET (Nat \X Tti)]] /\ missed \in [Vehicle -> Nat]
      /\ Coming \in Tti /\ resv \in [Vehicle -> Reservation] /\ sends \in [Vehicle -> SUBSET Tti]
      /\ skipped \in [Vehicle -> BOOLEAN]
  BY HeedTypes DEF HeedInv, SpsInv, Types
<1>3. \A w \in Vehicle \ {p} : First(w)' = First(w)
  <2> SUFFICES ASSUME NEW w \in Vehicle \ {p} PROVE First(w)' = First(w)
    OBVIOUS
  <2>1. w \in Nat /\ p \in Nat /\ w # p
    BY DEF Vehicle
  <2>2. (turn' <= w) <=> (turn <= w)
    BY <1>1, <2>1
  <2>3. QED
    BY <2>2 DEF First
<1>4. \A w \in Vehicle \ {p} : missed'[w] = missed[w] /\ skipped'[w] = skipped[w]
  BY <1>2 DEF StaysOff, SwitchOn, Miss
<1>5. missed' \in [Vehicle -> Nat] /\ (missed'[p] = 0 => p \notin on /\ missed' = missed /\ skipped' = skipped)
  <2>1. CASE StaysOff(p) \/ SwitchOn(p)
    BY <1>2, <2>1 DEF StaysOff, SwitchOn
  <2>2. CASE Miss(p)
    <3>1. missed' = [missed EXCEPT ![p] = missed[p] + 1] /\ missed[p] \in Nat
      BY <1>2, <2>2 DEF Miss
    <3>2. missed' \in [Vehicle -> Nat] /\ missed'[p] # 0
      BY <1>2, <3>1
    <3>3. QED
      BY <3>2
  <2>3. QED
    BY <2>1, <2>2
<1>6. Knowing'
  <2>1. ASSUME NEW v \in Vehicle \ on', NEW u \in Vehicle PROVE heard'[v][u] = {}
    BY <1>1, <2>1 DEF HeedInv, Heeding, Knowing
  <2>2. QED
    BY <1>1, <1>2, <1>5, <2>1 DEF Knowing
<1>7. ASSUME p \notin on, missed[p] = 0 PROVE Announces(p)' /\ \A u \in Vehicle : Remembered(p, u)'
  <2>1. ~resv[p].active /\ Announces(p) /\ \A u \in Vehicle : heard[p][u] = {}
    BY <1>7, HeedTypes DEF HeedInv, SpsInv, Called, Heeding, Knowing, Careful
  <2>2. \A b : ~Falls(resv[p], Coming, b)
    BY <2>1 DEF Falls
  <2>3. First(p) = 1 /\ First(p)' \in {0, 1} /\ TxDelay \in Nat \ {0}
    <3>1. p \in Nat
      BY DEF Vehicle
    <3>2. turn = p /\ turn <= p /\ turn' \in {p, p + 1}
      BY <1>1, <3>1
    <3>3. First(p) = 1
      BY <3>2 DEF First
    <3>4. First(p)' \in {0, 1}
      BY DEF First
    <3>5. TxDelay \in Nat \ {0}
      BY HeedTypes
    <3>6. QED
      BY <3>3, <3>4, <3>5
  <2>4. \A t \in sends[p] : \E b \in 1 .. TxDelay : t = Before(Coming, b)
    BY <2>1, <2>3 DEF Announces
  <2>5. ASSUME NEW b \in First(p)' .. TxDelay, Before(Coming, b) \in sends[p]
        PROVE  SyncSubframe(p, Before(Coming, b))
    <3>1. PICK c \in 1 .. TxDelay : Before(Coming, b) = Before(Coming, c)
      BY <2>4, <2>5
    <3>2. b \in 0 .. TxDelay /\ c \in 0 .. TxDelay
      BY <2>3
    <3>3. b = c
      <4>1. b \in 0 .. (Cycle - 1) /\ c \in 0 .. (Cycle - 1)
        BY <3>2, HeedTypes
      <4>2. QED
        BY <1>2, <3>1, <4>1, BeforeApart
    <3>4. QED
      BY <2>1, <2>2, <2>3, <2>5, <3>3 DEF Announces
  <2>6. ASSUME NEW t \in sends[p] PROVE \E b \in First(p)' .. TxDelay : t = Before(Coming, b)
    <3>1. PICK b \in 1 .. TxDelay : t = Before(Coming, b)
      BY <2>4, <2>6
    <3>2. b \in First(p)' .. TxDelay
      BY <2>3
    <3>3. QED
      BY <3>1, <3>2
  <2>7. Announces(p)'
    BY <1>1, <2>2, <2>5, <2>6 DEF Announces
  <2>8. \A u \in Vehicle : Remembered(p, u)'
    BY <1>1, <2>1 DEF Remembered
  <2>9. QED
    BY <2>7, <2>8
<1>8. ASSUME NEW u \in Vehicle, missed'[u] = 0 PROVE ~skipped'[u] /\ Announces(u)'
  <2>1. missed[u] = 0
    BY <1>4, <1>5, <1>8
  <2>2. ~skipped[u] /\ Announces(u)
    BY <2>1, HeedTypes DEF Careful
  <2>3. CASE u = p
    BY <1>5, <1>7, <1>8, <2>1, <2>2, <2>3
  <2>4. CASE u # p
    BY <1>1, <1>3, <1>4, <2>2, <2>4, AnnouncesSame
  <2>5. QED
    BY <2>3, <2>4
<1>9. ASSUME NEW v \in Vehicle, NEW u \in Vehicle, v # u, missed'[v] = 0, missed'[u] = 0
      PROVE  Remembered(v, u)'
  <2>1. missed[v] = 0 /\ missed[u] = 0
    BY <1>4, <1>5, <1>9
  <2>2. CASE v = p
    BY <1>5, <1>7, <1>9, <2>1, <2>2
  <2>3. CASE v # p
    <3>1. Remembered(v, u)
      BY <1>9, <2>1 DEF HeedInv, Heeding
    <3>2. QED
      BY <1>1, <1>3, <2>3, <3>1, RememberedSame
  <2>4. QED
    BY <2>2, <2>3
<1>10. ASSUME NEW v \in Vehicle, NEW u \in Vehicle, {v, u} \in apart', missed'[v] = 0, missed'[u] = 0
       PROVE  Disjoint(v, u)'
  <2>1. missed[v] = 0 /\ missed[u] = 0
    BY <1>4, <1>5, <1>10
  <2>2. Disjoint(v, u)
    BY <1>1, <1>10, <2>1 DEF HeedInv, Heeding
  <2>3. QED
    BY <1>1, <2>2 DEF Disjoint
<1>11. QED
  BY <1>6, <1>8, <1>9, <1>10 DEF Heeding, Careful

\* The next subframe.
LEMMA NextHeeds ==
    ASSUME SpsAssumption, Spans, HeedInv, NextTti
    PROVE  Heeding'
<1>1. UNCHANGED <<on, resv, missed, skipped, heard, apart>>
  BY DEF NextTti
<1>2. Knowing'
  BY <1>1 DEF HeedInv, Heeding, Knowing
<1>3. ASSUME NEW u \in Vehicle PROVE Careful(u)'
  BY <1>1, HeedTypes, NextAnnounces DEF Careful
<1>4. ASSUME NEW v \in Vehicle, NEW u \in Vehicle, v # u, missed[v] = 0, missed[u] = 0
      PROVE  Remembered(v, u)'
  BY <1>4, NextRemembered DEF HeedInv, Heeding
<1>5. ASSUME NEW v \in Vehicle, NEW u \in Vehicle, {v, u} \in apart, missed[v] = 0, missed[u] = 0
      PROVE  Disjoint(v, u)'
  BY <1>5, NextDisjoint DEF HeedInv, Heeding
<1>6. QED
  BY <1>1, <1>2, <1>3, <1>4, <1>5 DEF Heeding

\* While the selection window lies within a period, and the sensing window is neither too long
\* to tell one busy subframe from none nor so long that a mistaken announcement counts: of two
\* vehicles that lose no subframe, one that chose when it had heard every resource of the other's
\* reservation within its sensing window never transmits data in the same subframe, however often
\* the other one was silent meanwhile (resourceSelection, average_sensing_sps).
THEOREM HeardStayApartHolds == Spans /\ Spec => []HeardStayApart
<1> SUFFICES ASSUME Spans PROVE Spec => []HeardStayApart
  OBVIOUS
<1> USE SpsAssumption
<1>1. Init => Heeding
  <2> SUFFICES ASSUME Init PROVE Heeding
    OBVIOUS
  <2>1. Knowing
    BY DEF Init, Knowing
  <2>2. \A u \in Vehicle : ~resv[u].active /\ sends[u] = {} /\ ~skipped[u]
    BY DEF Init, NoReservation
  <2>3. \A u \in Vehicle : Careful(u)
    BY <2>2 DEF Careful, Announces, Falls
  <2>4. \A v, u \in Vehicle : Remembered(v, u)
    BY <2>2 DEF Remembered
  <2>5. apart = {}
    BY DEF Init
  <2>6. QED
    BY <2>1, <2>3, <2>4, <2>5 DEF Heeding
<1>2. SpsInv /\ SpsInv' /\ Heeding /\ [Next]_vars => Heeding'
  <2> SUFFICES ASSUME SpsInv, SpsInv', Heeding, [Next]_vars PROVE Heeding'
    OBVIOUS
  <2>1. HeedInv
    BY DEF HeedInv
  <2>2. CASE NextTti
    BY <2>1, <2>2, NextHeeds
  <2>3. ASSUME NEW p \in Vehicle, StaysOff(p) \/ SwitchOn(p) \/ Miss(p) PROVE Heeding'
    BY <2>1, <2>3, IdleHeeds
  <2>4. ASSUME NEW p \in Vehicle, Process(p) PROVE Heeding'
    BY <2>1, <2>4, ProcessHeeds
  <2>5. CASE UNCHANGED vars
    <3>1. Knowing' /\ Coming' = Coming /\ \A u \in Vehicle : First(u)' = First(u)
      BY <2>5 DEF vars, Heeding, Knowing, Coming, First
    <3>2. UNCHANGED <<resv, sends, energy, missed, skipped, heard, apart>>
      BY <2>5 DEF vars
    <3>3. \A u \in Vehicle : Careful(u)'
      BY <3>1, <3>2, AnnouncesSame DEF Careful, Heeding
    <3>4. \A v, u \in Vehicle : Remembered(v, u) => Remembered(v, u)'
      BY <3>1, <3>2, RememberedSame
    <3>5. \A v, u \in Vehicle : Disjoint(v, u) => Disjoint(v, u)'
      BY <3>1, <3>2 DEF Disjoint
    <3>6. QED
      BY <3>1, <3>2, <3>3, <3>4, <3>5 DEF Heeding
  <2>6. QED
    BY <2>2, <2>3, <2>4, <2>5 DEF Next
<1>3. SpsInv /\ Heeding => HeardStayApart
  <2> SUFFICES ASSUME HeedInv, NEW v \in Vehicle, NEW u \in Vehicle, {v, u} \in apart,
                      missed[v] + missed[u] = 0, NEW t \in Data(v), t \in Data(u)
               PROVE  FALSE
    BY DEF HeardStayApart, HeedInv
  <2>1. missed[v] = 0 /\ missed[u] = 0
    <3>1. missed[v] \in Nat /\ missed[u] \in Nat
      BY DEF HeedInv, Heeding, Knowing
    <3>2. QED
      BY <3>1
  <2>2. Disjoint(v, u) /\ Announces(v) /\ Announces(u)
    BY <2>1 DEF HeedInv, Heeding, Careful
  <2>3. ASSUME NEW w \in Vehicle, Announces(w), t \in Data(w)
        PROVE  \E b \in 0 .. TxDelay : t = Before(Coming, b) /\ Falls(resv[w], Coming, b)
    <3>1. PICK b \in First(w) .. TxDelay : t = Before(Coming, b)
      BY <2>3 DEF Announces, Data
    <3>2. Falls(resv[w], Coming, b)
      BY <2>3, <3>1 DEF Announces, Data
    <3>3. b \in 0 .. TxDelay
      BY DEF First
    <3>4. QED
      BY <3>1, <3>2, <3>3
  <2>4. PICK b \in 0 .. TxDelay : t = Before(Coming, b) /\ Falls(resv[v], Coming, b)
    BY <2>2, <2>3
  <2>5. PICK c \in 0 .. TxDelay : t = Before(Coming, c) /\ Falls(resv[u], Coming, c)
    BY <2>2, <2>3
  <2>6. b = c /\ b \in Int
    <3>1. b \in 0 .. (Cycle - 1) /\ c \in 0 .. (Cycle - 1) /\ Coming \in Tti
      BY HeedTypes
    <3>2. b \in Int
      OBVIOUS
    <3>3. Before(Coming, b) = Before(Coming, c)
      BY <2>4, <2>5
    <3>4. b = c
      BY <3>1, <3>3, BeforeApart
    <3>5. QED
      BY <3>2, <3>4
  <2>7. PICK k \in DOMAIN resv[v].offsets : FallsOn(resv[v], Coming, k, b)
    BY <2>4 DEF Falls
  <2>8. PICK l \in DOMAIN resv[u].offsets : FallsOn(resv[u], Coming, l, b)
    BY <2>5, <2>6 DEF Falls
  <2>9. PICK a \in Nat, d \in Nat, o \in Nat, p \in Nat :
           /\ a = Age(resv[v], Coming) /\ d = Age(resv[u], Coming)
           /\ o = resv[v].offsets[k] /\ p = resv[u].offsets[l]
    <3>1. Coming \in Tti /\ Sound(resv[v]) /\ Sound(resv[u])
      BY HeedTypes
    <3>2. QED
      BY <3>1, SoundNumbers
  <2>10. /\ a - b - o \in Int /\ d - b - p \in Int
         /\ (a - b - o) - (d - b - p) = (a - o) - (d - p)
    BY <2>6, <2>9
  <2>11. Whole(a - b - o) /\ Whole(d - b - p)
    BY <2>7, <2>8, <2>9 DEF FallsOn
  <2>12. Whole((a - o) - (d - p))
    BY <2>10, <2>11, WholeSum
  <2>13. QED
    BY <2>2, <2>4, <2>5, <2>9, <2>12 DEF Disjoint, Clash, Falls
<1>4. QED
  BY <1>1, <1>2, <1>3, SpsInvariant, PTL DEF Spec
===============================================================================
