----------------------------- MODULE RlcUmProofs ------------------------------
(***************************************************************************)
(* The receive window of unacknowledged mode, for any number of senders    *)
(* and any modulus: types, and no PDU is kept without the reordering       *)
(* timer.  For a single sender, what is handed up: whole SDUs, in order,   *)
(* once, so that the bearer implements the lossy FIFO.                     *)
(*                                                                         *)
(* Sequence numbers say little about a PDU once they wrap, so delivery is  *)
(* proved from a history (Story): the SDUs accepted, and for every PDU     *)
(* sent the place in them where it ended, its cut.  Tracked relates the    *)
(* receiver's numbers to PDUs of the history, Waiting its partial SDU,     *)
(* Told what it handed up; every piece of the reassembly keeps the three.  *)
(*                                                                         *)
(* The loops of rlc_um.cc are folds over sequences.  FoldExists shows that *)
(* a function that folds exists, FoldValue what it computes; each loop has *)
(* a lemma that uses both, with the invariant of the loop for J.           *)
(***************************************************************************)
EXTENDS RlcUm, TLAPS, SequenceTheorems, WellFoundedInduction,
        NaturalsInduction

-------------------------------------------------------------------------------
(* Folds.                                                                     *)

\* A set of numbers has a least one.
LEMMA LeastElement ==
    ASSUME NEW I \in SUBSET Nat, I # {}
    PROVE  \E i \in I : \A j \in I : ~(j < i)
<1>1. PICK i \in I : \A j \in I : <<j, i>> \notin OpToRel(<, Nat)
  BY NatLessThanWellFounded, WFMin
<1>2. QED
  BY <1>1 DEF OpToRel

\* What holds at 0 and passes from each number to the next holds at n.
LEMMA Climb ==
    ASSUME NEW n \in Nat, NEW A, 0 \in A, \A k \in 0..(n - 1) : k \in A => k + 1 \in A
    PROVE  n \in A
<1> DEFINE I == {k \in 0..n : k \notin A}
<1>1. SUFFICES ASSUME I # {} PROVE FALSE
  BY <1>1
<1>2. I \in SUBSET Nat
  OBVIOUS
<1>3. \E i \in I : \A j \in I : ~(j < i)
  BY <1>1, <1>2, LeastElement
<1>4. PICK i \in 0..n : i \notin A /\ \A j \in 0..n : j \notin A => ~(j < i)
  BY <1>3
<1> HIDE DEF I
<1>5. i # 0
  BY <1>4
<1>6. i - 1 \in 0..(n - 1) /\ i - 1 \in 0..n /\ i - 1 < i /\ (i - 1) + 1 = i
  BY <1>5
<1>7. i - 1 \in A
  BY <1>4, <1>6
<1>8. QED
  BY <1>4, <1>6, <1>7

\* The largest element of 1..k, and of a set that contains the bound of its elements.
LEMMA Largest ==
    ASSUME NEW k \in Nat, NEW s \in SUBSET (1..k), k \in s
    PROVE  Max(s) = k
<1>1. \A y \in s : k >= y
  OBVIOUS
<1>2. \A x \in s : (\A y \in s : x >= y) => x = k
  OBVIOUS
<1>3. QED
  BY <1>1, <1>2 DEF Max

\* The functions that fold F over 1..n, from base.
Folding(n, V, base, F) ==
    {f \in [SUBSET (1..n) -> V] :
        \A s \in SUBSET (1..n) :
           f[s] = IF s = {} THEN base ELSE F[<<f[s \ {Max(s)}], Max(s)>>]}

\* A function on the subsets of 1..n can be defined by recursion on their largest element.
LEMMA FoldExists ==
    ASSUME NEW n \in Nat, NEW V, NEW base \in V, NEW F \in [V \X (1..n) -> V]
    PROVE  Folding(n, V, base, F) # {}
<1> DEFINE Rec(f, k) == \A s \in SUBSET (1..k) :
                 f[s] = IF s = {} THEN base ELSE F[<<f[s \ {Max(s)}], Max(s)>>]
           A == {k \in 0..n : \E f \in [SUBSET (1..k) -> V] : Rec(f, k)}
<1>1. 0 \in A
  <2> DEFINE f == [s \in SUBSET (1..0) |-> base]
  <2>1. 1..0 = {}
    OBVIOUS
  <2>2. Rec(f, 0)
    BY <2>1
  <2>3. f \in [SUBSET (1..0) -> V]
    OBVIOUS
  <2> HIDE DEF f, Rec
  <2>4. \E f2 \in [SUBSET (1..0) -> V] : Rec(f2, 0)
    BY <2>2, <2>3
  <2>5. 0 \in 0..n
    OBVIOUS
  <2>6. QED
    BY <2>4, <2>5
<1>2. ASSUME NEW k \in 0..(n - 1), k \in A PROVE k + 1 \in A
  <2>1. PICK f \in [SUBSET (1..k) -> V] : Rec(f, k)
    BY <1>2
  <2> DEFINE g == [s \in SUBSET (1..(k + 1)) |->
                      IF k + 1 \in s THEN F[<<f[s \ {k + 1}], k + 1>>] ELSE f[s]]
  <2>2. \A s \in SUBSET (1..(k + 1)) : s \ {k + 1} \in SUBSET (1..k)
    OBVIOUS
  <2>3. \A s \in SUBSET (1..(k + 1)) : k + 1 \notin s => s \in SUBSET (1..k)
    OBVIOUS
  <2>4. g \in [SUBSET (1..(k + 1)) -> V]
    <3>1. \A s \in SUBSET (1..(k + 1)) : f[s \ {k + 1}] \in V /\ (k + 1 \notin s => f[s] \in V)
      BY <2>1, <2>2, <2>3
    <3>2. k + 1 \in 1..n
      OBVIOUS
    <3>3. \A v \in V : F[<<v, k + 1>>] \in V
      BY <3>2
    <3>4. QED
      BY <3>1, <3>3
  <2>5. \A s \in SUBSET (1..k) : g[s] = f[s]
    OBVIOUS
  <2>6. ASSUME NEW s \in SUBSET (1..(k + 1))
        PROVE  g[s] = IF s = {} THEN base ELSE F[<<g[s \ {Max(s)}], Max(s)>>]
    <3>1. CASE k + 1 \in s
      <4>1. Max(s) = k + 1
        BY <3>1, Largest
      <4>2. g[s \ {k + 1}] = f[s \ {k + 1}]
        BY <2>2, <2>5
      <4>3. g[s] = F[<<f[s \ {k + 1}], k + 1>>]
        BY <3>1
      <4> HIDE DEF g
      <4>4. QED
        BY <3>1, <4>1, <4>2, <4>3
    <3>2. CASE k + 1 \notin s
      <4>1. s \in SUBSET (1..k)
        BY <2>3, <3>2
      <4>2. s \ {Max(s)} \in SUBSET (1..k)
        BY <4>1
      <4>3. g[s] = f[s] /\ g[s \ {Max(s)}] = f[s \ {Max(s)}]
        BY <2>5, <4>1, <4>2
      <4>4. f[s] = IF s = {} THEN base ELSE F[<<f[s \ {Max(s)}], Max(s)>>]
        BY <2>1, <4>1
      <4> HIDE DEF g
      <4>5. QED
        BY <4>3, <4>4
    <3>3. QED
      BY <3>1, <3>2
  <2>7. Rec(g, k + 1)
    BY <2>6
  <2> HIDE DEF g, Rec
  <2>8. \E f2 \in [SUBSET (1..(k + 1)) -> V] : Rec(f2, k + 1)
    BY <2>4, <2>7
  <2>9. QED
    BY <2>8
<1> HIDE DEF Rec
<1>3. n \in A
  <2> HIDE DEF A
  <2>1. QED
    BY <1>1, <1>2, Climb
<1>4. QED
  BY <1>3 DEF Rec, Folding

\* The last number before k + 1, and what is left without it.
LEMMA Topmost ==
    ASSUME NEW k \in Nat
    PROVE  /\ Max(1..(k + 1)) = k + 1
           /\ 1..(k + 1) # {}
           /\ (1..(k + 1)) \ {k + 1} = 1..k
<1>1. k + 1 \in 1..(k + 1)
  OBVIOUS
<1>2. Max(1..(k + 1)) = k + 1
  BY <1>1, Largest
<1>3. \A x : x \in (1..(k + 1)) \ {k + 1} <=> x \in 1..k
  OBVIOUS
<1>4. (1..(k + 1)) \ {k + 1} = 1..k
  BY <1>3, Zenon
<1>5. QED
  BY <1>1, <1>2, <1>4

\* A set of positions that is not empty has a largest one.
LEMMA LargestExists ==
    ASSUME NEW n \in Nat, NEW s \in SUBSET (1..n), s # {}
    PROVE  Max(s) \in 1..n
<1> DEFINE I == {i \in 0..n : n - i \in s}
<1>1. I \in SUBSET Nat
  OBVIOUS
<1>2. I # {}
  <2>1. PICK x \in s : TRUE
    OBVIOUS
  <2>2. x \in 1..n /\ n - x \in 0..n /\ n - (n - x) = x
    OBVIOUS
  <2>3. QED
    BY <2>2
<1>3. \E i \in I : \A j \in I : ~(j < i)
  BY <1>1, <1>2, LeastElement
<1>4. PICK i \in 0..n : n - i \in s /\ \A j \in 0..n : n - j \in s => ~(j < i)
  BY <1>3
<1> HIDE DEF I
<1>5. ASSUME NEW y \in s PROVE n - i >= y
  <2>1. y \in 1..n /\ n - y \in 0..n /\ n - (n - y) = y
    OBVIOUS
  <2>2. ~(n - y < i)
    BY <1>4, <2>1
  <2>3. QED
    BY <1>4, <2>1, <2>2
<1>6. \A y \in s : n - i >= y
  BY <1>5
<1>7. \E x \in s : \A y \in s : x >= y
  BY <1>4, <1>6
<1>8. Max(s) \in s
  BY <1>7 DEF Max
<1>9. QED
  BY <1>8

\* The result of a fold: f takes the values that F prescribes, and J[k] holds what may have
\* become of base after k steps.
LEMMA FoldValue ==
    ASSUME NEW n \in Nat, NEW V, NEW base \in V, NEW F \in [V \X (1..n) -> V],
           NEW f, f[{}] = base,
           \A s \in SUBSET (1..n) : s # {} /\ f[s \ {Max(s)}] \in V
                => f[s] = F[<<f[s \ {Max(s)}], Max(s)>>],
           NEW J, \A k \in 0..n : J[k] \subseteq V, base \in J[0],
           \A k \in 0..(n - 1) : \A v \in J[k] : F[<<v, k + 1>>] \in J[k + 1]
    PROVE  f[1..n] \in J[n]
<1> DEFINE A == {k \in 0..n : f[1..k] \in J[k]}
<1>1. 0 \in A
  <2>1. 1..0 = {}
    OBVIOUS
  <2>2. QED
    BY <2>1
<1>2. ASSUME NEW k \in 0..(n - 1), k \in A PROVE k + 1 \in A
  <2>1. k \in Nat /\ k \in 0..n /\ k + 1 \in 0..n /\ 1..(k + 1) \in SUBSET (1..n)
    OBVIOUS
  <2>2. f[1..k] \in J[k] /\ f[1..k] \in V
    BY <1>2, <2>1
  <2>3. f[1..(k + 1)] = F[<<f[1..k], k + 1>>]
    <3>1. Max(1..(k + 1)) = k + 1 /\ 1..(k + 1) # {} /\ (1..(k + 1)) \ {k + 1} = 1..k
      BY <2>1, Topmost
    <3>2. (1..(k + 1)) \ {Max(1..(k + 1))} = 1..k
      BY <3>1
    <3>3. f[1..(k + 1)] = F[<<f[(1..(k + 1)) \ {Max(1..(k + 1))}], Max(1..(k + 1))>>]
      BY <2>1, <2>2, <3>1, <3>2
    <3>4. QED
      BY <3>1, <3>2, <3>3
  <2>4. f[1..(k + 1)] \in J[k + 1]
    BY <2>2, <2>3
  <2>5. QED
    BY <2>1, <2>4
<1> HIDE DEF A
<1>3. n \in A
  BY <1>1, <1>2, Climb
<1>4. QED
  BY <1>3 DEF A

-------------------------------------------------------------------------------
(* Arithmetic of the sequence numbers.                                        *)

\* The window is half of the numbers, and neither is empty.
LEMMA Numbers ==
    RlcAssumption => Window \in Nat \ {0} /\ Mod \in Nat \ {0} /\ Mod = 2 * Window
  BY DEF RlcAssumption, Window

\* What remains of a division.
LEMMA Remainder ==
    ASSUME NEW m \in Nat \ {0}, NEW q \in Int, NEW i \in 0..(m - 1)
    PROVE  (q * m + i) % m = i
  OBVIOUS

\* Every integer is a multiple of m and its remainder.
LEMMA Division ==
    ASSUME NEW m \in Nat \ {0}, NEW x \in Int
    PROVE  \E q \in Int : x = q * m + (x % m) /\ x % m \in 0..(m - 1)
<1>1. x = (x \div m) * m + (x % m) /\ x \div m \in Int /\ x % m \in 0..(m - 1)
  OBVIOUS
<1>2. QED
  BY <1>1

\* Adding to a number and to what remains of it is the same.
LEMMA ModAdd ==
    ASSUME NEW m \in Nat \ {0}, NEW x \in Int, NEW y \in Int
    PROVE  ((x % m) + y) % m = (x + y) % m
<1>1. PICK a \in Int : x = a * m + (x % m) /\ x % m \in 0..(m - 1)
  BY Division
<1>2. PICK i \in 0..(m - 1) : i = x % m
  BY <1>1
<1>3. PICK b \in Int : i + y = b * m + ((i + y) % m) /\ (i + y) % m \in 0..(m - 1)
  <2>1. i + y \in Int
    BY <1>2
  <2>2. QED
    BY <2>1, Division
<1>4. PICK j \in 0..(m - 1) : j = (i + y) % m
  BY <1>3
<1>5. x + y = (a + b) * m + j /\ a + b \in Int
  BY <1>1, <1>2, <1>3, <1>4
<1>6. (x + y) % m = j
  BY <1>5, Remainder
<1>7. QED
  BY <1>2, <1>4, <1>6

\* Sequence numbers less than Mod apart differ.
LEMMA ModApart ==
    ASSUME NEW m \in Nat \ {0}, NEW x \in 0..(m - 1), NEW j \in 1..(m - 1)
    PROVE  (x + j) % m # x
<1>1. CASE x + j < m
  BY <1>1
<1>2. CASE x + j >= m
  <2>1. x + j = 1 * m + (x + j - m) /\ x + j - m \in 0..(m - 1)
    BY <1>2
  <2>2. (x + j) % m = x + j - m
    BY <2>1, Remainder
  <2>3. QED
    BY <2>2
<1>3. QED
  BY <1>1, <1>2

\* Base counts from the lower edge of the window, whichever way a number is reached.
LEMMA BaseOf ==
    ASSUME RlcAssumption, NEW r, r.ur \in Int, NEW s \in Int, NEW j \in Int,
           r.uh = (r.ur + s) % Mod
    PROVE  Base(r, (r.ur + j) % Mod) = (j - s - Window) % Mod
<1> DEFINE u == r.ur
<1>0. Window \in Int /\ Mod \in Nat \ {0}
  BY Numbers
<1>1. PICK a \in Int : u + j = a * Mod + ((u + j) % Mod) /\ (u + j) % Mod \in 0..(Mod - 1)
  <2>1. u + j \in Int
    OBVIOUS
  <2>2. QED
    BY <1>0, <2>1, Division
<1>2. PICK x \in 0..(Mod - 1) : x = (u + j) % Mod
  BY <1>1
<1>3. PICK b \in Int : u + s = b * Mod + ((u + s) % Mod) /\ (u + s) % Mod \in 0..(Mod - 1)
  <2>1. u + s \in Int
    OBVIOUS
  <2>2. QED
    BY <1>0, <2>1, Division
<1>4. PICK y \in 0..(Mod - 1) : y = (u + s) % Mod
  BY <1>3
<1>5. PICK c \in Int : j - s - Window = c * Mod + ((j - s - Window) % Mod)
                       /\ (j - s - Window) % Mod \in 0..(Mod - 1)
  <2>1. j - s - Window \in Int
    BY <1>0
  <2>2. QED
    BY <1>0, <2>1, Division
<1>6. PICK z \in 0..(Mod - 1) : z = (j - s - Window) % Mod
  BY <1>5
<1>7. u + j = a * Mod + x /\ u + s = b * Mod + y /\ j - s - Window = c * Mod + z
  BY <1>1, <1>2, <1>3, <1>4, <1>5, <1>6
<1>8. x - y - Window = (c + b - a) * Mod + z /\ c + b - a \in Int
  BY <1>0, <1>7
<1>9. (x - y - Window) % Mod = z
  BY <1>0, <1>8, Remainder
<1>10. QED
  BY <1>2, <1>4, <1>6, <1>9 DEF Base

\* The same, within one window of the highest number.
LEMMA BaseNear ==
    ASSUME RlcAssumption, NEW r, r.ur \in Int, NEW s \in Int, NEW j \in Int,
           r.uh = (r.ur + s) % Mod, j - s \in (-Window)..(Window - 1)
    PROVE  Base(r, (r.ur + j) % Mod) = j - s + Window
<1>0. Window \in Nat \ {0} /\ Mod \in Nat \ {0} /\ Mod = 2 * Window
  BY Numbers
<1>1. j - s - Window = (-1) * Mod + (j - s + Window) /\ j - s + Window \in 0..(Mod - 1)
  BY <1>0
<1>2. (j - s - Window) % Mod = j - s + Window
  BY <1>0, <1>1, Remainder
<1>3. QED
  BY <1>2, BaseOf

-------------------------------------------------------------------------------
(* Types, and what the reassembly of one PDU leaves alone.                    *)

Sn == 0..(Mod - 1)
Sdu == Seq(Sender \X Nat \X Nat)

\* A PDU has at least one segment.
Pdu == [sender : Sender, number : Nat, sn : Sn, segs : Seq(Sdu) \ {<< >>},
        startAligned : BOOLEAN, endAligned : BOOLEAN]

RxState == [ur : Sn, ux : Sn, uh : Sn, lost : BOOLEAN, window : SUBSET Pdu,
            sdu : Sdu, inSdu : Sn, out : Seq(Sdu)]

\* Receiver states that differ from r in the SDUs only.
Beside(r) == {q \in RxState : q.ur = r.ur /\ q.ux = r.ux /\ q.uh = r.uh /\ q.window = r.window}

\* Handing an SDU up, or dropping it, leaves the window, the edges and the expected number alone.
LEMMA DeliverBeside ==
    ASSUME NEW r \in RxState, NEW q \in Beside(r)
    PROVE  Deliver(q) \in Beside(r) /\ Drop(q) \in Beside(r)
<1>1. q.out \in Seq(Sdu) /\ q.sdu \in Sdu
  BY DEF Beside, RxState
<1>2. Append(q.out, q.sdu) \in Seq(Sdu) /\ << >> \in Sdu
  BY <1>1, AppendProperties, EmptySeq DEF Sdu
<1> HIDE DEF Sdu
<1>3. QED
  BY <1>2 DEF Beside, RxState, Deliver, Drop

\* So does appending a segment to the SDU under reassembly,
LEMMA AddBeside ==
    ASSUME NEW r \in RxState, NEW q \in Beside(r), NEW seg \in Sdu
    PROVE  Add(q, seg) \in Beside(r)
<1>1. q.sdu \in Sdu
  BY DEF Beside, RxState
<1>2. q.sdu \o seg \in Sdu
  BY <1>1, ConcatProperties DEF Sdu
<1> HIDE DEF Sdu
<1>3. QED
  BY <1>2 DEF Beside, RxState, Add

\* and noting the number of the last segment,
LEMMA InSduBeside ==
    ASSUME NEW r \in RxState, NEW q \in Beside(r), NEW x \in Sn
    PROVE  [q EXCEPT !.inSdu = x] \in Beside(r)
  BY DEF Beside, RxState

\* and the closing of the last segment of a PDU.
LEMMA CloseLastBeside ==
    ASSUME NEW r \in RxState, NEW q \in Beside(r), NEW p
    PROVE  CloseLast(q, p) \in Beside(r)
  BY DeliverBeside DEF CloseLast

\* The segments of a PDU.
LEMMA Segments ==
    ASSUME NEW p \in Pdu
    PROVE  /\ LastSegment(p) \in Sdu
           /\ MiddleSegments(p) \in Seq(Sdu)
           /\ MiddleSegments(p) # << >> => Tail(MiddleSegments(p)) \in Seq(Sdu)
<1>1. p.segs \in Seq(Sdu) /\ p.segs # << >>
  BY DEF Pdu
<1> HIDE DEF Sdu
<1>2. Len(p.segs) \in 1..Len(p.segs)
  BY <1>1, EmptySeq, LenProperties
<1>3. LastSegment(p) \in Sdu
  BY <1>1, <1>2, ElementOfSeq DEF LastSegment
<1>4. MiddleSegments(p) \in Seq(Sdu)
  BY <1>1, <1>2, SubSeqProperties DEF MiddleSegments
<1>5. QED
  BY <1>3, <1>4, HeadTailProperties

\* One turn of the loop over the middle segments of a PDU at the lower edge.
LowerSegment(q, p, seg) ==
    LET a == Add(q, seg)
    IN  IF (q.lost /\ ~p.startAligned) \/ q.ur # (q.inSdu + 1) % Mod THEN Drop(a) ELSE Deliver(a)

\* The loop over the middle segments of a PDU at the lower edge.
LEMMA LowerSegmentsFold ==
    ASSUME NEW r \in RxState, NEW p, NEW segs \in Seq(Sdu),
           NEW J, \A k \in 0..Len(segs) : J[k] \subseteq Beside(r), r \in J[0],
           \A k \in 0..(Len(segs) - 1) : \A v \in J[k] :
              LowerSegment(v, p, segs[k + 1]) \in J[k + 1]
    PROVE  LowerSegments(r, p, segs) \in J[Len(segs)]
<1> DEFINE step(q, seg) == LowerSegment(q, p, seg)
           V == Beside(r)
           D == DOMAIN segs
           f == CHOOSE g : g = [s \in SUBSET D |->
                                  IF s = {} THEN r ELSE step(g[s \ {Max(s)}], segs[Max(s)])]
           n == Len(segs)
           F == [y \in V \X (1..n) |-> step(y[1], segs[y[2]])]
<1>1. n \in Nat /\ D = 1..n /\ \A i \in 1..n : segs[i] \in Sdu
  BY LenProperties, ElementOfSeq
<1>2. r \in V /\ r \in J[0]
  BY DEF Beside
<1>3. \A q \in V, seg \in Sdu : step(q, seg) \in V
  BY AddBeside, DeliverBeside DEF LowerSegment
<1>4. LowerSegments(r, p, segs) = f[D]
  BY Zenon DEF LowerSegments, LowerSegment, FoldLeft, MapThenFoldSet
<1>5. \A k \in 0..(n - 1) : \A v \in J[k] : F[<<v, k + 1>>] \in J[k + 1]
  <2>1. ASSUME NEW k \in 0..(n - 1), NEW v \in J[k] PROVE F[<<v, k + 1>>] \in J[k + 1]
    <3>1. k \in 0..n /\ k + 1 \in 1..n
      BY <1>1
    <3>2. v \in V
      BY <2>1, <3>1
    <3>3. F[<<v, k + 1>>] = step(v, segs[k + 1])
      BY <3>1, <3>2
    <3>4. step(v, segs[k + 1]) \in J[k + 1]
      BY <2>1
    <3> HIDE DEF F, V, n, step
    <3>5. QED
      BY <3>3, <3>4
  <2>2. QED
    BY <2>1
<1> HIDE DEF V, step, n, D
<1>6. F \in [V \X (1..n) -> V] /\ \A v \in V, i \in 1..n : F[<<v, i>>] = step(v, segs[i])
  BY <1>1, <1>3
<1>7. \A s \in SUBSET (1..n) : s # {} => Max(s) \in 1..n
  BY <1>1, LargestExists
<1> HIDE DEF F
<1>8. \E g : g = [s \in SUBSET D |-> IF s = {} THEN r ELSE step(g[s \ {Max(s)}], segs[Max(s)])]
  <2> HIDE DEF f
  <2>1. Folding(n, V, r, F) # {}
    BY <1>1, <1>2, <1>6, FoldExists
  <2>2. PICK g \in [SUBSET (1..n) -> V] :
           \A s \in SUBSET (1..n) : g[s] = IF s = {} THEN r ELSE F[<<g[s \ {Max(s)}], Max(s)>>]
    BY <2>1 DEF Folding
  <2>3. \A s \in SUBSET (1..n) : g[s] = IF s = {} THEN r ELSE step(g[s \ {Max(s)}], segs[Max(s)])
    BY <1>6, <1>7, <2>2
  <2>4. g = [s \in SUBSET (1..n) |-> IF s = {} THEN r ELSE step(g[s \ {Max(s)}], segs[Max(s)])]
    BY <2>2, <2>3
  <2>5. QED
    BY <1>1, <2>4
<1>9. f = [s \in SUBSET D |-> IF s = {} THEN r ELSE step(f[s \ {Max(s)}], segs[Max(s)])]
  BY <1>8, Zenon
<1> HIDE DEF f
<1>10. f[{}] = r
  BY <1>9
<1>11. \A s \in SUBSET (1..n) : s # {} /\ f[s \ {Max(s)}] \in V
         => f[s] = F[<<f[s \ {Max(s)}], Max(s)>>]
  BY <1>1, <1>6, <1>7, <1>9
<1>12. \A k \in 0..n : J[k] \subseteq V
  BY DEF n, V
<1>13. f[1..n] \in J[n]
  BY <1>1, <1>2, <1>5, <1>6, <1>10, <1>11, <1>12, FoldValue
<1>14. QED
  BY <1>1, <1>4, <1>13 DEF n

\* It leaves the window and the edges alone.
LEMMA LowerSegmentsBeside ==
    ASSUME NEW r \in RxState, NEW p, NEW segs \in Seq(Sdu)
    PROVE  LowerSegments(r, p, segs) \in Beside(r)
<1> DEFINE J == [k \in 0..Len(segs) |-> Beside(r)]
<1>1. Len(segs) \in Nat /\ \A i \in 1..Len(segs) : segs[i] \in Sdu
  BY LenProperties, ElementOfSeq
<1>2. r \in Beside(r)
  BY DEF Beside
<1>3. \A k \in 0..Len(segs) : J[k] \subseteq Beside(r)
  OBVIOUS
<1>4. ASSUME NEW k \in 0..(Len(segs) - 1), NEW v \in J[k] PROVE LowerSegment(v, p, segs[k + 1]) \in J[k + 1]
  <2>1. k \in 0..Len(segs) /\ k + 1 \in 0..Len(segs) /\ segs[k + 1] \in Sdu
    BY <1>1
  <2>2. LowerSegment(v, p, segs[k + 1]) \in Beside(r)
    BY <2>1, AddBeside, DeliverBeside DEF LowerSegment
  <2>3. QED
    BY <2>1, <2>2
<1>5. r \in J[0] /\ J[Len(segs)] = Beside(r)
  BY <1>1, <1>2
<1> HIDE DEF J
<1>6. LowerSegments(r, p, segs) \in J[Len(segs)]
  BY <1>3, <1>4, <1>5, LowerSegmentsFold
<1>7. QED
  BY <1>5, <1>6

\* One turn of the loop over the middle segments of a PDU in order.
InOrderSegment(q, seg) == Deliver([Add(q, seg) EXCEPT !.inSdu = q.ur])

\* It leaves the window, the edges and the expected number alone.
LEMMA InOrderSegmentBeside ==
    ASSUME NEW r \in RxState, NEW q \in Beside(r), NEW seg \in Sdu
    PROVE  InOrderSegment(q, seg) \in Beside(r)
<1>1. q.ur \in Sn
  BY DEF Beside, RxState
<1>2. QED
  BY <1>1, AddBeside, InSduBeside, DeliverBeside DEF InOrderSegment

\* The loop over the middle segments of a PDU in order.
LEMMA InOrderSegmentsFold ==
    ASSUME NEW r \in RxState, NEW b \in Beside(r), NEW segs \in Seq(Sdu),
           NEW J, \A k \in 0..Len(segs) : J[k] \subseteq Beside(r), b \in J[0],
           \A k \in 0..(Len(segs) - 1) : \A v \in J[k] :
              InOrderSegment(v, segs[k + 1]) \in J[k + 1]
    PROVE  InOrderSegments(b, segs) \in J[Len(segs)]
<1> DEFINE step(q, seg) == InOrderSegment(q, seg)
           V == Beside(r)
           D == DOMAIN segs
           f == CHOOSE g : g = [s \in SUBSET D |->
                                  IF s = {} THEN b ELSE step(g[s \ {Max(s)}], segs[Max(s)])]
           n == Len(segs)
           F == [y \in V \X (1..n) |-> step(y[1], segs[y[2]])]
<1>1. n \in Nat /\ D = 1..n /\ \A i \in 1..n : segs[i] \in Sdu
  BY LenProperties, ElementOfSeq
<1>2. b \in V /\ b \in J[0]
  OBVIOUS
<1>3. \A q \in V, seg \in Sdu : step(q, seg) \in V
  BY InOrderSegmentBeside
<1>4. InOrderSegments(b, segs) = f[D]
  BY Zenon DEF InOrderSegments, InOrderSegment, FoldLeft, MapThenFoldSet
<1>5. \A k \in 0..(n - 1) : \A v \in J[k] : F[<<v, k + 1>>] \in J[k + 1]
  <2>1. ASSUME NEW k \in 0..(n - 1), NEW v \in J[k] PROVE F[<<v, k + 1>>] \in J[k + 1]
    <3>1. k \in 0..n /\ k + 1 \in 1..n
      BY <1>1
    <3>2. v \in V
      BY <2>1, <3>1
    <3>3. F[<<v, k + 1>>] = step(v, segs[k + 1])
      BY <3>1, <3>2
    <3>4. step(v, segs[k + 1]) \in J[k + 1]
      BY <2>1
    <3> HIDE DEF F, V, n, step
    <3>5. QED
      BY <3>3, <3>4
  <2>2. QED
    BY <2>1
<1> HIDE DEF V, step, n, D
<1>6. F \in [V \X (1..n) -> V] /\ \A v \in V, i \in 1..n : F[<<v, i>>] = step(v, segs[i])
  BY <1>1, <1>3
<1>7. \A s \in SUBSET (1..n) : s # {} => Max(s) \in 1..n
  BY <1>1, LargestExists
<1> HIDE DEF F
<1>8. \E g : g = [s \in SUBSET D |-> IF s = {} THEN b ELSE step(g[s \ {Max(s)}], segs[Max(s)])]
  <2> HIDE DEF f
  <2>1. Folding(n, V, b, F) # {}
    BY <1>1, <1>2, <1>6, FoldExists
  <2>2. PICK g \in [SUBSET (1..n) -> V] :
           \A s \in SUBSET (1..n) : g[s] = IF s = {} THEN b ELSE F[<<g[s \ {Max(s)}], Max(s)>>]
    BY <2>1 DEF Folding
  <2>3. \A s \in SUBSET (1..n) : g[s] = IF s = {} THEN b ELSE step(g[s \ {Max(s)}], segs[Max(s)])
    BY <1>6, <1>7, <2>2
  <2>4. g = [s \in SUBSET (1..n) |-> IF s = {} THEN b ELSE step(g[s \ {Max(s)}], segs[Max(s)])]
    BY <2>2, <2>3
  <2>5. QED
    BY <1>1, <2>4
<1>9. f = [s \in SUBSET D |-> IF s = {} THEN b ELSE step(f[s \ {Max(s)}], segs[Max(s)])]
  BY <1>8, Zenon
<1> HIDE DEF f
<1>10. f[{}] = b
  BY <1>9
<1>11. \A s \in SUBSET (1..n) : s # {} /\ f[s \ {Max(s)}] \in V
         => f[s] = F[<<f[s \ {Max(s)}], Max(s)>>]
  BY <1>1, <1>6, <1>7, <1>9
<1>12. \A k \in 0..n : J[k] \subseteq V
  BY DEF n, V
<1>13. f[1..n] \in J[n]
  BY <1>1, <1>2, <1>5, <1>6, <1>10, <1>11, <1>12, FoldValue
<1>14. QED
  BY <1>1, <1>4, <1>13 DEF n

\* It leaves the window and the edges alone.
LEMMA InOrderSegmentsBeside ==
    ASSUME NEW r \in RxState, NEW b \in Beside(r), NEW segs \in Seq(Sdu)
    PROVE  InOrderSegments(b, segs) \in Beside(r)
<1> DEFINE J == [k \in 0..Len(segs) |-> Beside(r)]
<1>1. Len(segs) \in Nat /\ \A i \in 1..Len(segs) : segs[i] \in Sdu
  BY LenProperties, ElementOfSeq
<1>3. \A k \in 0..Len(segs) : J[k] \subseteq Beside(r)
  OBVIOUS
<1>4. ASSUME NEW k \in 0..(Len(segs) - 1), NEW v \in J[k] PROVE InOrderSegment(v, segs[k + 1]) \in J[k + 1]
  <2>1. k \in 0..Len(segs) /\ k + 1 \in 0..Len(segs) /\ segs[k + 1] \in Sdu
    BY <1>1
  <2>2. InOrderSegment(v, segs[k + 1]) \in Beside(r)
    BY <2>1, InOrderSegmentBeside
  <2>3. QED
    BY <2>1, <2>2
<1>5. b \in J[0] /\ J[Len(segs)] = Beside(r)
  BY <1>1
<1> HIDE DEF J
<1>6. InOrderSegments(b, segs) \in J[Len(segs)]
  BY <1>3, <1>4, <1>5, InOrderSegmentsFold
<1>7. QED
  BY <1>5, <1>6

\* What the first loop does with a PDU at the lower edge leaves the window and the edges alone.
LEMMA LowerEdgePduBeside ==
    ASSUME NEW r \in RxState, NEW p \in Pdu
    PROVE  LowerEdgePdu(r, p) \in Beside(r)
<1> DEFINE mid == IF Headless(r, p) THEN r ELSE LowerSegments(r, p, MiddleSegments(p))
<1>1. r \in Beside(r) /\ r.ur \in Sn
  BY DEF Beside, RxState
<1>2. mid \in Beside(r)
  BY <1>1, Segments, LowerSegmentsBeside
<1> HIDE DEF mid
<1>3. [Add(mid, LastSegment(p)) EXCEPT !.inSdu = r.ur] \in Beside(r)
  BY <1>1, <1>2, Segments, AddBeside, InSduBeside
<1>4. LowerEdgePdu(r, p) = IF mid.sdu # << >> \/ p.startAligned
                           THEN CloseLast([Add(mid, LastSegment(p)) EXCEPT !.inSdu = r.ur], p)
                           ELSE mid
  BY DEF LowerEdgePdu, mid
<1>5. QED
  BY <1>2, <1>3, <1>4, CloseLastBeside

\* Nor does the second loop, with the PDU next in order, touch them.
LEMMA InOrderPduBeside ==
    ASSUME NEW r0 \in RxState, NEW p \in Pdu
    PROVE  InOrderPdu(r0, p) \in Beside(r0)
<1> DEFINE r == IF PduBelongsToRxSdu(r0) THEN r0 ELSE Drop(r0)
           middle == MiddleSegments(p)
           mid == IF middle = << >> THEN r
                  ELSE IF Headless(r, p) THEN InOrderSegments(Drop(r), Tail(middle))
                  ELSE InOrderSegments(r, middle)
<1>1. r0 \in Beside(r0)
  BY DEF Beside
<1>2. r \in Beside(r0)
  BY <1>1, DeliverBeside
<1>3. InOrderPdu(r0, p) = IF middle = << >> /\ Headless(r, p) THEN r
                          ELSE CloseLast([Add(mid, LastSegment(p)) EXCEPT !.inSdu = r.ur], p)
  BY DEF InOrderPdu
<1> HIDE DEF r
<1>4. Drop(r) \in Beside(r0) /\ r.ur \in Sn
  BY <1>2, DeliverBeside DEF Beside, RxState
<1>5. mid \in Beside(r0)
  BY <1>2, <1>4, Segments, InOrderSegmentsBeside
<1> HIDE DEF mid, middle
<1>6. [Add(mid, LastSegment(p)) EXCEPT !.inSdu = r.ur] \in Beside(r0)
  BY <1>4, <1>5, Segments, AddBeside, InSduBeside
<1>7. QED
  BY <1>2, <1>3, <1>6, CloseLastBeside

-------------------------------------------------------------------------------
(* Where the PDUs of the window are.                                          *)

\* The receiver expects the PDU that is s before uh; the PDUs it keeps are between the two, one
\* for each number.
At(r, s) ==
    /\ r \in RxState
    /\ r.uh = (r.ur + s) % Mod
    /\ \A p \in r.window : \E j \in 0..(s - 1) : p.sn = (r.ur + j) % Mod
    /\ \A p, q \in r.window : p.sn = q.sn => p = q

\* The PDU before uh is kept.
TopHeld(r, s) == \E p \in r.window : p.sn = (r.ur + (s - 1)) % Mod

\* One turn of either loop: what it does to the window.
Passed(r, q) ==
    /\ q \in RxState
    /\ q.ur = (r.ur + 1) % Mod /\ q.uh = r.uh /\ q.ux = r.ux
    /\ q.window = {p \in r.window : p.sn # r.ur}

\* A number is its own remainder.
LEMMA SnItself == ASSUME RlcAssumption, NEW x \in Sn PROVE (x + 0) % Mod = x
<1>1. Mod \in Nat \ {0} /\ x + 0 = 0 * Mod + x /\ x \in 0..(Mod - 1)
  BY Numbers DEF Sn
<1>2. QED
  BY <1>1, Remainder

\* The number after a number is a number.
LEMMA NextType == ASSUME RlcAssumption, NEW x \in Sn PROVE (x + 1) % Mod \in Sn
<1>1. x + 1 \in Int /\ Mod \in Nat \ {0}
  BY Numbers DEF Sn
<1>2. QED
  BY <1>1, Division DEF Sn

\* A turn of either loop drops the PDUs numbered VR(UR) and moves the edge on by one.
LEMMA BesidePassed ==
    ASSUME RlcAssumption, NEW r \in RxState, NEW q \in Beside(r)
    PROVE  Passed(r, [q EXCEPT !.window = {p \in @ : p.sn # r.ur}, !.ur = (@ + 1) % Mod])
<1>1. q \in RxState /\ q.ur = r.ur /\ q.uh = r.uh /\ q.ux = r.ux /\ q.window = r.window
  BY DEF Beside
<1>2. (q.ur + 1) % Mod \in Sn
  BY <1>1, NextType DEF RxState
<1>3. {p \in q.window : p.sn # r.ur} \in SUBSET Pdu
  BY <1>1 DEF RxState
<1> DEFINE x == (q.ur + 1) % Mod
           w == {p \in q.window : p.sn # r.ur}
<1> HIDE DEF x, w
<1>4. [q EXCEPT !.window = w, !.ur = x] \in RxState
  BY <1>1, <1>2, <1>3 DEF RxState, x, w
<1>5. [q EXCEPT !.window = w, !.ur = x].ur = x /\ [q EXCEPT !.window = w, !.ur = x].uh = q.uh
      /\ [q EXCEPT !.window = w, !.ur = x].window = w
      /\ [q EXCEPT !.window = w, !.ur = x].ux = q.ux
  BY <1>1 DEF RxState
<1>6. QED
  BY <1>1, <1>4, <1>5 DEF Passed, x, w

\* One turn of the first loop moves the lower edge on by one, whatever it finds there.
LEMMA LowerEdgePassed ==
    ASSUME RlcAssumption, NEW r \in RxState
    PROVE  Passed(r, LowerEdge(r))
<1> DEFINE q == IF Holds(r, r.ur) THEN LowerEdgePdu(r, PduAt(r, r.ur)) ELSE [r EXCEPT !.sdu = << >>]
<1>1. q \in Beside(r)
  <2>1. Holds(r, r.ur) => PduAt(r, r.ur) \in Pdu
    BY DEF Holds, PduAt, RxState
  <2>2. << >> \in Sdu
    BY EmptySeq DEF Sdu
  <2>3. [r EXCEPT !.sdu = << >>] \in Beside(r)
    BY <2>2 DEF Beside, RxState
  <2>4. QED
    BY <2>1, <2>3, LowerEdgePduBeside
<1>2. LowerEdge(r) = [q EXCEPT !.window = {p \in @ : p.sn # r.ur}, !.ur = (@ + 1) % Mod]
  BY DEF LowerEdge
<1> HIDE DEF q
<1>3. QED
  BY <1>1, <1>2, BesidePassed

\* One turn of the second loop, which finds VR(UR) in the window, does the same.
LEMMA InOrderPassed ==
    ASSUME RlcAssumption, NEW r \in RxState, Holds(r, r.ur)
    PROVE  Passed(r, InOrder(r))
<1>1. PduAt(r, r.ur) \in Pdu
  BY DEF Holds, PduAt, RxState
<1>2. InOrderPdu(r, PduAt(r, r.ur)) \in Beside(r)
  BY <1>1, InOrderPduBeside
<1>3. QED
  BY <1>2, BesidePassed DEF InOrder

\* A turn brings ur one closer to uh.
LEMMA Closer ==
    ASSUME RlcAssumption, NEW r, NEW q, NEW s \in Int, At(r, s), Passed(r, q)
    PROVE  /\ At(q, s - 1)
           /\ TopHeld(r, s) /\ s \in 2..Mod => TopHeld(q, s - 1)
<1>0. Mod \in Nat \ {0} /\ Mod \in Int
  BY Numbers
<1>1. r.ur \in Sn /\ r.ur \in Int
  BY DEF At, RxState, Sn
<1>2. \A j \in Int : (((r.ur + 1) % Mod) + (j - 1)) % Mod = (r.ur + j) % Mod
  <2>1. SUFFICES ASSUME NEW j \in Int
                 PROVE (((r.ur + 1) % Mod) + (j - 1)) % Mod = (r.ur + j) % Mod
    OBVIOUS
  <2>2. PICK a \in Int, b \in Int : a = r.ur + 1 /\ b = j - 1
    BY <1>1
  <2>3. ((a % Mod) + b) % Mod = (a + b) % Mod
    BY <1>0, ModAdd
  <2>4. a + b = r.ur + j
    BY <1>1, <2>2
  <2>5. QED
    BY <2>2, <2>3, <2>4
<1>3. q.uh = (q.ur + (s - 1)) % Mod
  BY <1>2 DEF At, Passed
<1>4. ASSUME NEW p \in q.window PROVE \E j \in 0..((s - 1) - 1) : p.sn = (q.ur + j) % Mod
  <2>1. p \in r.window /\ p.sn # r.ur
    BY <1>4 DEF Passed
  <2>2. PICK j \in 0..(s - 1) : p.sn = (r.ur + j) % Mod
    BY <2>1 DEF At
  <2>3. j # 0
    <3>1. (r.ur + 0) % Mod = r.ur
      BY <1>1, SnItself
    <3>2. QED
      BY <2>1, <2>2, <3>1
  <2>4. j - 1 \in 0..((s - 1) - 1) /\ j \in Int
    BY <2>3
  <2>5. p.sn = (q.ur + (j - 1)) % Mod
    BY <1>2, <2>2, <2>4 DEF Passed
  <2>6. QED
    BY <2>4, <2>5
<1>5. At(q, s - 1)
  <2>1. q \in RxState /\ \A x, y \in q.window : x.sn = y.sn => x = y
    BY DEF At, Passed
  <2>2. QED
    BY <1>3, <1>4, <2>1 DEF At
<1>6. ASSUME TopHeld(r, s), s \in 2..Mod PROVE TopHeld(q, s - 1)
  <2>1. PICK p \in r.window : p.sn = (r.ur + (s - 1)) % Mod
    BY <1>6 DEF TopHeld
  <2>2. s - 1 \in 1..(Mod - 1) /\ s - 1 \in Int
    BY <1>0, <1>6
  <2>3. p.sn # r.ur
    BY <1>0, <1>1, <2>1, <2>2, ModApart DEF Sn
  <2>4. p \in q.window
    BY <2>1, <2>3 DEF Passed
  <2>5. p.sn = (q.ur + ((s - 1) - 1)) % Mod
    BY <1>2, <2>1, <2>2 DEF Passed
  <2>6. QED
    BY <2>4, <2>5 DEF TopHeld
<1>7. QED
  BY <1>5, <1>6

\* Whether ur is inside the window is told by its distance to uh.
LEMMA UrInside ==
    ASSUME RlcAssumption, NEW r, NEW s \in (1 - Window)..Mod, At(r, s), r.window # {}
    PROVE  s >= 1 /\ (InsideReorderingWindow(r, r.ur) <=> s <= Window)
<1>0. Window \in Nat \ {0} /\ Mod \in Nat \ {0} /\ Mod = 2 * Window
  BY Numbers
<1>1. s >= 1
  BY <1>0 DEF At
<1>2. r.ur \in Sn /\ r.ur \in Int /\ r.uh \in Int /\ r.uh = (r.ur + s) % Mod
  BY DEF At, RxState, Sn
<1>3. (r.ur + 0) % Mod = r.ur
  BY <1>2, SnItself
<1>4. Base(r, r.uh) = Window
  <2>1. Base(r, (r.ur + s) % Mod) = (s - s - Window) % Mod
    BY <1>2, BaseOf
  <2>2. s - s - Window = (-1) * Mod + Window /\ Window \in 0..(Mod - 1)
    BY <1>0
  <2>3. (s - s - Window) % Mod = Window
    BY <1>0, <2>2, Remainder
  <2>4. QED
    BY <1>2, <2>1, <2>3
<1>5. Base(r, r.uh - Window) = 0
  <2>1. r.uh - Window - r.uh - Window = (-1) * Mod + 0 /\ 0 \in 0..(Mod - 1)
    BY <1>0, <1>2
  <2>2. (r.uh - Window - r.uh - Window) % Mod = 0
    BY <1>0, <2>1, Remainder
  <2>3. QED
    BY <2>2 DEF Base
<1>6. CASE s <= Window
  <2>1. 0 - s \in (-Window)..(Window - 1)
    BY <1>0, <1>1, <1>6
  <2>2. Base(r, (r.ur + 0) % Mod) = 0 - s + Window
    BY <1>2, <2>1, BaseNear
  <2>3. Base(r, r.ur) = Window - s
    BY <1>0, <1>3, <2>2
  <2>4. QED
    BY <1>0, <1>1, <1>4, <1>5, <1>6, <2>3 DEF InsideReorderingWindow
<1>7. CASE s > Window
  <2>1. Base(r, (r.ur + 0) % Mod) = (0 - s - Window) % Mod
    BY <1>2, BaseOf
  <2>2. 0 - s - Window = (-2) * Mod + (Mod + Window - s) /\ Mod + Window - s \in 0..(Mod - 1)
    BY <1>0, <1>7
  <2>3. (0 - s - Window) % Mod = Mod + Window - s
    BY <1>0, <2>2, Remainder
  <2>4. Base(r, r.ur) = Mod + Window - s
    BY <1>3, <2>1, <2>3
  <2>5. QED
    BY <1>0, <1>1, <1>4, <1>5, <1>7, <2>4 DEF InsideReorderingWindow
<1>8. QED
  BY <1>0, <1>6, <1>7

\* What holds after k turns of the first loop.
CatchingUp(k) ==
    {q \in RxState : \E s \in (1 - Window)..Mod :
        At(q, s) /\ (s <= Window \/ (s <= Mod - k /\ TopHeld(q, s)))}

\* One turn of the first loop.
LEMMA CatchUpTurn ==
    ASSUME RlcAssumption, NEW k \in 0..(Mod - 1), NEW v \in CatchingUp(k)
    PROVE  (IF InsideReorderingWindow(v, v.ur) THEN v ELSE LowerEdge(v)) \in CatchingUp(k + 1)
<1> DEFINE step(q) == IF InsideReorderingWindow(q, q.ur) THEN q ELSE LowerEdge(q)
<1>1. SUFFICES step(v) \in CatchingUp(k + 1)
  OBVIOUS
<1>2. Window \in Nat \ {0} /\ Mod \in Nat /\ Mod = 2 * Window
  BY Numbers
<1>3. PICK s \in (1 - Window)..Mod :
         At(v, s) /\ (s <= Window \/ (s <= Mod - k /\ TopHeld(v, s)))
  BY DEF CatchingUp
<1>4. v \in RxState
  BY DEF CatchingUp
<1>5. CASE s <= Window
  <2>1. InsideReorderingWindow(v, v.ur)
    BY <1>3, <1>5, UrInside DEF InsideReorderingWindow
  <2>2. step(v) = v
    BY <2>1
  <2> HIDE DEF step
  <2>3. QED
    BY <1>3, <1>4, <1>5, <2>2 DEF CatchingUp
<1>6. CASE s > Window
  <2>1. s <= Mod - k /\ TopHeld(v, s)
    BY <1>2, <1>3, <1>6
  <2>2. v.window # {}
    BY <2>1 DEF TopHeld
  <2>3. ~InsideReorderingWindow(v, v.ur)
    BY <1>2, <1>3, <1>6, <2>2, UrInside
  <2>4. Passed(v, step(v))
    BY <1>4, <2>3, LowerEdgePassed
  <2> HIDE DEF step
  <2>5. s \in Int /\ s - 1 \in (1 - Window)..Mod /\ s - 1 <= Mod - (k + 1)
    BY <1>2, <1>6, <2>1
  <2>6. At(step(v), s - 1)
    BY <1>3, <2>4, <2>5, Closer
  <2>7. s - 1 <= Window \/ TopHeld(step(v), s - 1)
    <3>1. s = 1 \/ s \in 2..Mod
      BY <1>2, <1>6
    <3>2. s = 1 => s - 1 <= Window
      BY <1>2
    <3>3. s \in 2..Mod => TopHeld(step(v), s - 1)
      BY <1>3, <2>1, <2>4, <2>5, Closer
    <3>4. QED
      BY <3>1, <3>2, <3>3
  <2>8. step(v) \in RxState
    BY <2>4 DEF Passed
  <2>9. QED
    BY <2>5, <2>6, <2>7, <2>8 DEF CatchingUp
<1>7. QED
  BY <1>2, <1>5, <1>6

\* The first loop: J[k] holds what may have become of r after k turns.
LEMMA CatchUpFold ==
    ASSUME RlcAssumption, NEW r \in RxState,
           NEW J, \A k \in 0..Mod : J[k] \subseteq RxState, r \in J[0],
           \A k \in 0..(Mod - 1) : \A v \in J[k] :
              (IF InsideReorderingWindow(v, v.ur) THEN v ELSE LowerEdge(v)) \in J[k + 1]
    PROVE  CatchUp(r) \in J[Mod]
<1> DEFINE step(q) == IF InsideReorderingWindow(q, q.ur) THEN q ELSE LowerEdge(q)
           V == RxState
           D == DOMAIN Rounds
           f == CHOOSE g : g = [s \in SUBSET D |->
                                  IF s = {} THEN r ELSE step(g[s \ {Max(s)}])]
           n == Mod
           F == [y \in V \X (1..n) |-> step(y[1])]
<1>1. n \in Nat /\ D = 1..n
  BY Numbers DEF Rounds
<1>2. r \in V /\ r \in J[0]
  OBVIOUS
<1>3. \A q \in V : step(q) \in V
  BY LowerEdgePassed DEF Passed
<1>4. CatchUp(r) = f[D]
  BY Zenon DEF CatchUp, FoldLeft, MapThenFoldSet
<1>5. \A k \in 0..(n - 1) : \A v \in J[k] : F[<<v, k + 1>>] \in J[k + 1]
  <2>1. ASSUME NEW k \in 0..(n - 1), NEW v \in J[k] PROVE F[<<v, k + 1>>] \in J[k + 1]
    <3>1. k \in 0..n /\ k + 1 \in 1..n
      BY <1>1
    <3>2. v \in V
      BY <2>1, <3>1
    <3>3. F[<<v, k + 1>>] = step(v)
      BY <3>1, <3>2
    <3>4. step(v) \in J[k + 1]
      BY <2>1
    <3> HIDE DEF F, V, n, step
    <3>5. QED
      BY <3>3, <3>4
  <2>2. QED
    BY <2>1
<1> HIDE DEF V, step, n, D
<1>6. F \in [V \X (1..n) -> V] /\ \A v \in V, i \in 1..n : F[<<v, i>>] = step(v)
  BY <1>1, <1>3
<1>7. \A s \in SUBSET (1..n) : s # {} => Max(s) \in 1..n
  BY <1>1, LargestExists
<1> HIDE DEF F
<1>8. \E g : g = [s \in SUBSET D |-> IF s = {} THEN r ELSE step(g[s \ {Max(s)}])]
  <2> HIDE DEF f
  <2>1. Folding(n, V, r, F) # {}
    BY <1>1, <1>2, <1>6, FoldExists
  <2>2. PICK g \in [SUBSET (1..n) -> V] :
           \A s \in SUBSET (1..n) : g[s] = IF s = {} THEN r ELSE F[<<g[s \ {Max(s)}], Max(s)>>]
    BY <2>1 DEF Folding
  <2>3. \A s \in SUBSET (1..n) : g[s] = IF s = {} THEN r ELSE step(g[s \ {Max(s)}])
    BY <1>6, <1>7, <2>2
  <2>4. g = [s \in SUBSET (1..n) |-> IF s = {} THEN r ELSE step(g[s \ {Max(s)}])]
    BY <2>2, <2>3
  <2>5. QED
    BY <1>1, <2>4
<1>9. f = [s \in SUBSET D |-> IF s = {} THEN r ELSE step(f[s \ {Max(s)}])]
  BY <1>8, Zenon
<1> HIDE DEF f
<1>10. f[{}] = r
  BY <1>9
<1>11. \A s \in SUBSET (1..n) : s # {} /\ f[s \ {Max(s)}] \in V
         => f[s] = F[<<f[s \ {Max(s)}], Max(s)>>]
  BY <1>1, <1>6, <1>7, <1>9
<1>12. \A k \in 0..n : J[k] \subseteq V
  BY DEF n, V
<1>13. f[1..n] \in J[n]
  BY <1>1, <1>2, <1>5, <1>6, <1>10, <1>11, <1>12, FoldValue
<1>14. QED
  BY <1>1, <1>4, <1>13 DEF n

\* "First catch up with lower edge": afterwards ur is at most a window before uh.
LEMMA CatchUpRounds ==
    ASSUME RlcAssumption, NEW r \in CatchingUp(0)
    PROVE  CatchUp(r) \in CatchingUp(Mod)
<1> DEFINE J == [k \in 0..Mod |-> CatchingUp(k)]
<1>1. Mod \in Nat
  BY Numbers
<1>2. r \in RxState /\ \A k \in 0..Mod : J[k] \subseteq RxState
  BY DEF CatchingUp
<1>3. ASSUME NEW k \in 0..(Mod - 1), NEW v \in J[k]
      PROVE  (IF InsideReorderingWindow(v, v.ur) THEN v ELSE LowerEdge(v)) \in J[k + 1]
  <2>1. k \in 0..Mod /\ k + 1 \in 0..Mod
    BY <1>1
  <2>2. v \in CatchingUp(k)
    BY <2>1
  <2>3. (IF InsideReorderingWindow(v, v.ur) THEN v ELSE LowerEdge(v)) \in CatchingUp(k + 1)
    BY <2>2, CatchUpTurn
  <2>4. QED
    BY <2>1, <2>3
<1>4. r \in J[0] /\ J[Mod] = CatchingUp(Mod)
  BY <1>1
<1> HIDE DEF J
<1>5. CatchUp(r) \in J[Mod]
  BY <1>2, <1>3, <1>4, CatchUpFold
<1>6. QED
  BY <1>4, <1>5

\* What holds after k turns of the second loop.
TakingInOrder(k) ==
    {q \in RxState : \E s \in (1 - Window)..Window :
        At(q, s) /\ (~Holds(q, q.ur) \/ s <= Window - k)}

\* What holds between two calls: the PDU at ur is not there yet.
Settled == {q \in RxState : \E s \in (1 - Window)..Window : At(q, s) /\ ~Holds(q, q.ur)}

\* One turn of the second loop.
LEMMA InOrderTurn ==
    ASSUME RlcAssumption, NEW k \in 0..(Mod - 1), NEW v \in TakingInOrder(k)
    PROVE  (IF Holds(v, v.ur) THEN InOrder(v) ELSE v) \in TakingInOrder(k + 1)
<1> DEFINE step(q) == IF Holds(q, q.ur) THEN InOrder(q) ELSE q
<1>1. SUFFICES step(v) \in TakingInOrder(k + 1)
  OBVIOUS
<1>2. Window \in Nat \ {0} /\ Mod \in Nat /\ Mod = 2 * Window
  BY Numbers
<1>3. PICK s \in (1 - Window)..Window : At(v, s) /\ (~Holds(v, v.ur) \/ s <= Window - k)
  BY DEF TakingInOrder
<1>4. v \in RxState
  BY DEF TakingInOrder
<1>5. CASE ~Holds(v, v.ur)
  <2>1. step(v) = v
    BY <1>5
  <2> HIDE DEF step
  <2>2. QED
    BY <1>3, <1>4, <1>5, <2>1 DEF TakingInOrder
<1>6. CASE Holds(v, v.ur)
  <2>1. Passed(v, step(v))
    BY <1>4, <1>6, InOrderPassed
  <2> HIDE DEF step
  <2>2. s >= 1
    BY <1>2, <1>3, <1>6 DEF Holds, At
  <2>3. s \in Int /\ s - 1 \in (1 - Window)..Window /\ s - 1 <= Window - (k + 1)
    BY <1>2, <1>3, <1>6, <2>2
  <2>4. At(step(v), s - 1)
    BY <1>3, <2>1, <2>3, Closer
  <2>5. step(v) \in RxState
    BY <2>1 DEF Passed
  <2>6. QED
    BY <2>3, <2>4, <2>5 DEF TakingInOrder
<1>7. QED
  BY <1>5, <1>6

\* The second loop.
LEMMA InOrderFold ==
    ASSUME RlcAssumption, NEW r \in RxState,
           NEW J, \A k \in 0..Mod : J[k] \subseteq RxState, r \in J[0],
           \A k \in 0..(Mod - 1) : \A v \in J[k] :
              (IF Holds(v, v.ur) THEN InOrder(v) ELSE v) \in J[k + 1]
    PROVE  TakeInOrder(r) \in J[Mod]
<1> DEFINE step(q) == IF Holds(q, q.ur) THEN InOrder(q) ELSE q
           V == RxState
           D == DOMAIN Rounds
           f == CHOOSE g : g = [s \in SUBSET D |->
                                  IF s = {} THEN r ELSE step(g[s \ {Max(s)}])]
           n == Mod
           F == [y \in V \X (1..n) |-> step(y[1])]
<1>1. n \in Nat /\ D = 1..n
  BY Numbers DEF Rounds
<1>2. r \in V /\ r \in J[0]
  OBVIOUS
<1>3. \A q \in V : step(q) \in V
  BY InOrderPassed DEF Passed
<1>4. TakeInOrder(r) = f[D]
  BY Zenon DEF TakeInOrder, FoldLeft, MapThenFoldSet
<1>5. \A k \in 0..(n - 1) : \A v \in J[k] : F[<<v, k + 1>>] \in J[k + 1]
  <2>1. ASSUME NEW k \in 0..(n - 1), NEW v \in J[k] PROVE F[<<v, k + 1>>] \in J[k + 1]
    <3>1. k \in 0..n /\ k + 1 \in 1..n
      BY <1>1
    <3>2. v \in V
      BY <2>1, <3>1
    <3>3. F[<<v, k + 1>>] = step(v)
      BY <3>1, <3>2
    <3>4. step(v) \in J[k + 1]
      BY <2>1
    <3> HIDE DEF F, V, n, step
    <3>5. QED
      BY <3>3, <3>4
  <2>2. QED
    BY <2>1
<1> HIDE DEF V, step, n, D
<1>6. F \in [V \X (1..n) -> V] /\ \A v \in V, i \in 1..n : F[<<v, i>>] = step(v)
  BY <1>1, <1>3
<1>7. \A s \in SUBSET (1..n) : s # {} => Max(s) \in 1..n
  BY <1>1, LargestExists
<1> HIDE DEF F
<1>8. \E g : g = [s \in SUBSET D |-> IF s = {} THEN r ELSE step(g[s \ {Max(s)}])]
  <2> HIDE DEF f
  <2>1. Folding(n, V, r, F) # {}
    BY <1>1, <1>2, <1>6, FoldExists
  <2>2. PICK g \in [SUBSET (1..n) -> V] :
           \A s \in SUBSET (1..n) : g[s] = IF s = {} THEN r ELSE F[<<g[s \ {Max(s)}], Max(s)>>]
    BY <2>1 DEF Folding
  <2>3. \A s \in SUBSET (1..n) : g[s] = IF s = {} THEN r ELSE step(g[s \ {Max(s)}])
    BY <1>6, <1>7, <2>2
  <2>4. g = [s \in SUBSET (1..n) |-> IF s = {} THEN r ELSE step(g[s \ {Max(s)}])]
    BY <2>2, <2>3
  <2>5. QED
    BY <1>1, <2>4
<1>9. f = [s \in SUBSET D |-> IF s = {} THEN r ELSE step(f[s \ {Max(s)}])]
  BY <1>8, Zenon
<1> HIDE DEF f
<1>10. f[{}] = r
  BY <1>9
<1>11. \A s \in SUBSET (1..n) : s # {} /\ f[s \ {Max(s)}] \in V
         => f[s] = F[<<f[s \ {Max(s)}], Max(s)>>]
  BY <1>1, <1>6, <1>7, <1>9
<1>12. \A k \in 0..n : J[k] \subseteq V
  BY DEF n, V
<1>13. f[1..n] \in J[n]
  BY <1>1, <1>2, <1>5, <1>6, <1>10, <1>11, <1>12, FoldValue
<1>14. QED
  BY <1>1, <1>4, <1>13 DEF n

\* "Now update vr_ur until we reach an SN we haven't yet received": afterwards it is not held.
LEMMA InOrderRounds ==
    ASSUME RlcAssumption, NEW r \in TakingInOrder(0)
    PROVE  TakeInOrder(r) \in TakingInOrder(Mod)
<1> DEFINE J == [k \in 0..Mod |-> TakingInOrder(k)]
<1>1. Mod \in Nat
  BY Numbers
<1>2. r \in RxState /\ \A k \in 0..Mod : J[k] \subseteq RxState
  BY DEF TakingInOrder
<1>3. ASSUME NEW k \in 0..(Mod - 1), NEW v \in J[k]
      PROVE  (IF Holds(v, v.ur) THEN InOrder(v) ELSE v) \in J[k + 1]
  <2>1. k \in 0..Mod /\ k + 1 \in 0..Mod
    BY <1>1
  <2>2. v \in TakingInOrder(k)
    BY <2>1
  <2>3. (IF Holds(v, v.ur) THEN InOrder(v) ELSE v) \in TakingInOrder(k + 1)
    BY <2>2, InOrderTurn
  <2>4. QED
    BY <2>1, <2>3
<1>4. r \in J[0] /\ J[Mod] = TakingInOrder(Mod)
  BY <1>1
<1> HIDE DEF J
<1>5. TakeInOrder(r) \in J[Mod]
  BY <1>2, <1>3, <1>4, InOrderFold
<1>6. QED
  BY <1>4, <1>5

\* reassemble_rx_sdus ends with the lower edge settled: every PDU held is above it, in its place.
LEMMA Reassembled ==
    ASSUME RlcAssumption, NEW r \in CatchingUp(0)
    PROVE  ReassembleRxSdus(r) \in Settled
<1>0. Window \in Nat \ {0} /\ Mod \in Nat /\ Mod = 2 * Window
  BY Numbers
<1>1. CatchUp(r) \in CatchingUp(Mod)
  BY CatchUpRounds
<1>2. CatchUp(r) \in TakingInOrder(0)
  <2>1. PICK s \in (1 - Window)..Mod :
           At(CatchUp(r), s) /\ (s <= Window \/ s <= Mod - Mod)
    BY <1>1 DEF CatchingUp
  <2>2. s \in (1 - Window)..Window /\ s <= Window - 0
    BY <1>0, <2>1
  <2>3. CatchUp(r) \in RxState
    BY <1>1 DEF CatchingUp
  <2>4. QED
    BY <2>1, <2>2, <2>3 DEF TakingInOrder
<1>3. TakeInOrder(CatchUp(r)) \in TakingInOrder(Mod)
  BY <1>2, InOrderRounds
<1> DEFINE q == TakeInOrder(CatchUp(r))
<1> HIDE DEF q
<1>4. q \in Settled
  <2>1. PICK s \in (1 - Window)..Window : At(q, s) /\ (~Holds(q, q.ur) \/ s <= Window - Mod)
    BY <1>3 DEF TakingInOrder, q
  <2>2. ~(s <= Window - Mod)
    BY <1>0
  <2>3. q \in RxState
    BY <1>3 DEF TakingInOrder, q
  <2>4. QED
    BY <2>1, <2>2, <2>3 DEF Settled
<1>5. QED
  BY <1>4 DEF ReassembleRxSdus, q

\* One step of timer_expired: a number is given up while ur is before ux.
LEMMA GiveUpTurn ==
    ASSUME RlcAssumption, NEW q \in Settled, Base(q, q.ur) < Base(q, q.ux)
    PROVE  ReassembleRxSdus([q EXCEPT !.ur = (@ + 1) % Mod]) \in Settled
<1>0. Window \in Nat \ {0} /\ Mod \in Nat \ {0} /\ Mod = 2 * Window
  BY Numbers
<1>1. PICK s \in (1 - Window)..Window : At(q, s) /\ ~Holds(q, q.ur)
  BY DEF Settled
<1>2. q \in RxState /\ q.ur \in Sn /\ q.ur \in Int /\ q.ux \in Int /\ q.uh \in Int
      /\ q.uh = (q.ur + s) % Mod
  BY <1>1 DEF Settled, RxState, Sn, At
<1>3. Base(q, q.ur) = Window - s
  <2>1. 0 - s \in (-Window)..(Window - 1)
    BY <1>0
  <2>2. Base(q, (q.ur + 0) % Mod) = 0 - s + Window
    BY <1>2, <2>1, BaseNear
  <2>3. QED
    BY <1>0, <1>2, <2>2, SnItself
<1>4. Base(q, q.ux) \in 0..(Mod - 1)
  <2>1. q.ux - q.uh - Window \in Int
    BY <1>0, <1>2
  <2>2. QED
    BY <1>0, <2>1, Division DEF Base
<1>5. s - 1 \in (1 - Window)..Mod /\ s - 1 <= Window /\ s \in Int
  BY <1>0, <1>3, <1>4
<1> DEFINE x == [q EXCEPT !.ur = (@ + 1) % Mod]
<1>6. Passed(q, x)
  <2>1. q.window = {p \in q.window : p.sn # q.ur}
    BY <1>1 DEF Holds
  <2>2. (q.ur + 1) % Mod \in Sn
    BY <1>2, NextType
  <2>3. x \in RxState /\ x.ur = (q.ur + 1) % Mod /\ x.uh = q.uh /\ x.window = q.window
    BY <1>2, <2>2 DEF RxState
  <2>4. QED
    BY <2>1, <2>3 DEF Passed
<1> HIDE DEF x
<1>7. At(x, s - 1) /\ x \in RxState
  BY <1>1, <1>5, <1>6, Closer DEF Passed
<1>8. x \in CatchingUp(0)
  BY <1>5, <1>7 DEF CatchingUp
<1>9. QED
  BY <1>8, Reassembled DEF x

\* The loop of timer_expired starts without a partial SDU,
GivingUp(r) == [r EXCEPT !.lost = TRUE, !.sdu = << >>]

\* with the window and its edges as they were.
LEMMA GivingUpSettled ==
    ASSUME NEW r \in Settled
    PROVE  /\ GivingUp(r) \in Settled
           /\ GivingUp(r).ur = r.ur /\ GivingUp(r).ux = r.ux /\ GivingUp(r).uh = r.uh
           /\ GivingUp(r).window = r.window /\ GivingUp(r).sdu = << >> /\ GivingUp(r).out = r.out
<1> DEFINE b == GivingUp(r)
<1>1. << >> \in Sdu
  BY EmptySeq DEF Sdu
<1>2. r \in RxState
  BY DEF Settled
<1>3. /\ b \in RxState /\ b.ur = r.ur /\ b.ux = r.ux /\ b.uh = r.uh /\ b.window = r.window
      /\ b.sdu = << >> /\ b.out = r.out
  BY <1>1, <1>2 DEF RxState, GivingUp
<1>4. PICK s \in (1 - Window)..Window : At(r, s) /\ ~Holds(r, r.ur)
  BY DEF Settled
<1> HIDE DEF b
<1>5. At(b, s) /\ ~Holds(b, b.ur)
  BY <1>3, <1>4 DEF At, Holds
<1>6. b \in Settled
  BY <1>3, <1>4, <1>5 DEF Settled
<1>7. QED
  BY <1>3, <1>6 DEF b

\* and each turn gives up a number before VR(UX).
SkipNumber(q) == ReassembleRxSdus([q EXCEPT !.ur = (@ + 1) % Mod])

\* The loop of timer_expired.
LEMMA GiveUpFold ==
    ASSUME RlcAssumption, NEW r \in Settled,
           NEW J, \A k \in 0..Mod : J[k] \subseteq Settled, GivingUp(r) \in J[0],
           \A k \in 0..(Mod - 1) : \A v \in J[k] :
              (IF Base(v, v.ur) < Base(v, v.ux) THEN SkipNumber(v) ELSE v) \in J[k + 1]
    PROVE  GiveUp(r) \in J[Mod]
<1> DEFINE step(q) == IF Base(q, q.ur) < Base(q, q.ux) THEN SkipNumber(q) ELSE q
           V == Settled
           b == GivingUp(r)
           D == DOMAIN Rounds
           f == CHOOSE g : g = [s \in SUBSET D |->
                                  IF s = {} THEN b ELSE step(g[s \ {Max(s)}])]
           n == Mod
           F == [y \in V \X (1..n) |-> step(y[1])]
<1>1. n \in Nat /\ D = 1..n
  BY Numbers DEF Rounds
<1>2. b \in V /\ b \in J[0]
  BY GivingUpSettled
<1>3. \A q \in V : step(q) \in V
  BY GiveUpTurn DEF SkipNumber
<1>4. GiveUp(r) = f[D]
  BY Zenon DEF GiveUp, SkipNumber, GivingUp, FoldLeft, MapThenFoldSet
<1>5. \A k \in 0..(n - 1) : \A v \in J[k] : F[<<v, k + 1>>] \in J[k + 1]
  <2>1. ASSUME NEW k \in 0..(n - 1), NEW v \in J[k] PROVE F[<<v, k + 1>>] \in J[k + 1]
    <3>1. k \in 0..n /\ k + 1 \in 1..n
      BY <1>1
    <3>2. v \in V
      BY <2>1, <3>1
    <3>3. F[<<v, k + 1>>] = step(v)
      BY <3>1, <3>2
    <3>4. step(v) \in J[k + 1]
      BY <2>1
    <3> HIDE DEF F, V, n, step
    <3>5. QED
      BY <3>3, <3>4
  <2>2. QED
    BY <2>1
<1> HIDE DEF V, step, n, D
<1>6. F \in [V \X (1..n) -> V] /\ \A v \in V, i \in 1..n : F[<<v, i>>] = step(v)
  BY <1>1, <1>3
<1>7. \A s \in SUBSET (1..n) : s # {} => Max(s) \in 1..n
  BY <1>1, LargestExists
<1> HIDE DEF F
<1>8. \E g : g = [s \in SUBSET D |-> IF s = {} THEN b ELSE step(g[s \ {Max(s)}])]
  <2> HIDE DEF f
  <2>1. Folding(n, V, b, F) # {}
    BY <1>1, <1>2, <1>6, FoldExists
  <2>2. PICK g \in [SUBSET (1..n) -> V] :
           \A s \in SUBSET (1..n) : g[s] = IF s = {} THEN b ELSE F[<<g[s \ {Max(s)}], Max(s)>>]
    BY <2>1 DEF Folding
  <2>3. \A s \in SUBSET (1..n) : g[s] = IF s = {} THEN b ELSE step(g[s \ {Max(s)}])
    BY <1>6, <1>7, <2>2
  <2>4. g = [s \in SUBSET (1..n) |-> IF s = {} THEN b ELSE step(g[s \ {Max(s)}])]
    BY <2>2, <2>3
  <2>5. QED
    BY <1>1, <2>4
<1>9. f = [s \in SUBSET D |-> IF s = {} THEN b ELSE step(f[s \ {Max(s)}])]
  BY <1>8, Zenon
<1> HIDE DEF f
<1>10. f[{}] = b
  BY <1>9
<1>11. \A s \in SUBSET (1..n) : s # {} /\ f[s \ {Max(s)}] \in V
         => f[s] = F[<<f[s \ {Max(s)}], Max(s)>>]
  BY <1>1, <1>6, <1>7, <1>9
<1>12. \A k \in 0..n : J[k] \subseteq V
  BY DEF n, V
<1>13. f[1..n] \in J[n]
  BY <1>1, <1>2, <1>5, <1>6, <1>10, <1>11, <1>12, FoldValue
<1>14. QED
  BY <1>1, <1>4, <1>13 DEF n

\* timer_expired leaves the lower edge settled.
LEMMA GiveUpSettled ==
    ASSUME RlcAssumption, NEW r \in Settled
    PROVE  GiveUp(r) \in Settled
<1> DEFINE J == [k \in 0..Mod |-> Settled]
<1>1. Mod \in Nat
  BY Numbers
<1>2. \A k \in 0..Mod : J[k] \subseteq Settled
  OBVIOUS
<1>3. ASSUME NEW k \in 0..(Mod - 1), NEW v \in J[k]
      PROVE  (IF Base(v, v.ur) < Base(v, v.ux) THEN SkipNumber(v) ELSE v) \in J[k + 1]
  <2>1. k \in 0..Mod /\ k + 1 \in 0..Mod
    BY <1>1
  <2>2. QED
    BY <2>1, GiveUpTurn DEF SkipNumber
<1>4. GivingUp(r) \in J[0] /\ J[Mod] = Settled
  BY <1>1, GivingUpSettled
<1> HIDE DEF J
<1>5. GiveUp(r) \in J[Mod]
  BY <1>2, <1>3, <1>4, GiveUpFold
<1>6. QED
  BY <1>4, <1>5

-------------------------------------------------------------------------------
(* The sender.                                                                *)

\* The packed header grows by at most two bytes with each length indicator.
LEMMA PackedLengths ==
    /\ PackedLength(0) = 2
    /\ \A n \in Nat : /\ PackedLength(n) \in Nat
                      /\ PackedLength(n + 1) \in Nat
                      /\ PackedLength(n + 1) <= PackedLength(n) + 2
<1>1. PackedLength(0) = 2
  BY DEF PackedLength, FixedHeader
<1>2. ASSUME NEW n \in Nat
      PROVE  /\ PackedLength(n) \in Nat /\ PackedLength(n + 1) \in Nat
             /\ PackedLength(n + 1) <= PackedLength(n) + 2
  <2>1. (3 * (n + 1) + 1) \div 2 <= (3 * n + 1) \div 2 + 2
    OBVIOUS
  <2>2. (3 * (n + 1) + 1) \div 2 \in Nat /\ (3 * n + 1) \div 2 \in Nat
    OBVIOUS
  <2>3. QED
    BY <2>1, <2>2 DEF PackedLength, FixedHeader
<1>3. QED
  BY <1>1, <1>2

\* A PDU being built.
Building == [queue : {q \in Seq(Sdu) : Len(q) <= Capacity}, sdu : Sdu, room : Int, segs : Seq(Sdu)]

\* Cutting an SDU leaves two sequences of bytes.
LEMMA Cut ==
    ASSUME NEW sdu \in Sdu, NEW n \in 0..Len(sdu)
    PROVE  FirstBytes(sdu, n) \in Sdu /\ OtherBytes(sdu, n) \in Sdu
<1>1. Len(sdu) \in Nat
  BY LenProperties DEF Sdu
<1>2. \A i \in 1..Len(sdu) : sdu[i] \in Sender \X Nat \X Nat
  BY ElementOfSeq DEF Sdu
<1>3. \A i \in 1..n : i \in 1..Len(sdu)
  BY <1>1
<1>4. \A i \in (n + 1)..Len(sdu) : i \in 1..Len(sdu)
  BY <1>1
<1>5. n \in Int /\ n + 1 \in Int /\ 1 \in Int /\ Len(sdu) \in Int
  BY <1>1
<1>6. FirstBytes(sdu, n) \in Sdu
  BY <1>2, <1>3, <1>5, SubSeqProperties DEF FirstBytes, Sdu
<1>7. OtherBytes(sdu, n) \in Sdu
  BY <1>2, <1>4, <1>5, SubSeqProperties DEF OtherBytes, Sdu
<1>8. QED
  BY <1>6, <1>7

\* As much of the next SDU goes into the PDU under construction as there is room for.
LEMMA PullCut ==
    ASSUME RlcAssumption, NEW c \in Building, MayPull(c)
    PROVE  /\ Head(c.queue) \in Sdu /\ Tail(c.queue) \in Seq(Sdu)
           /\ Len(Tail(c.queue)) = Len(c.queue) - 1 /\ Len(c.queue) \in Nat
           /\ \E n \in 0..Len(Head(c.queue)) :
                 /\ n # Len(Head(c.queue)) => c.room - n = PackedLength(Len(c.segs))
                 /\ Pull(c) = [queue |-> Tail(c.queue), sdu |-> OtherBytes(Head(c.queue), n),
                               room |-> c.room - n,
                               segs |-> Append(c.segs, FirstBytes(Head(c.queue), n))]
<1> DEFINE sdu == Head(c.queue)
           room == c.room - PackedLength(Len(c.segs))
           n == Lesser(room, Len(sdu))
<1>1. c.queue \in Seq(Sdu) /\ c.queue # << >> /\ Len(c.queue) <= Capacity /\ Capacity \in Nat
  BY DEF MayPull, Building, RlcAssumption
<1>2. sdu \in Sdu /\ Tail(c.queue) \in Seq(Sdu) /\ Len(Tail(c.queue)) = Len(c.queue) - 1
      /\ Len(c.queue) \in Nat
  BY <1>1, HeadTailProperties, LenProperties
<1>3. c.segs \in Seq(Sdu) /\ Len(c.segs) \in Nat /\ c.room \in Int /\ (c.segs = << >> => Len(c.segs) = 0)
  BY LenProperties, EmptySeq DEF Building
<1>4. room \in Nat
  <2>1. CASE c.segs = << >>
    <3>1. Len(c.segs) = 0 /\ Indicators(c) = 0
      BY <1>3, <2>1 DEF Indicators
    <3>2. c.room > PackedLength(0) + 1 /\ room = c.room - PackedLength(0)
      BY <3>1 DEF MayPull
    <3>3. PackedLength(0) = 2
      BY PackedLengths
    <3> HIDE DEF room
    <3>4. QED
      BY <1>3, <3>2, <3>3
  <2>2. CASE c.segs # << >>
    <3>1. Len(c.segs) \in Nat \ {0}
      BY <1>3, <2>2, EmptySeq
    <3>2. PICK m \in Nat : Len(c.segs) = m + 1 /\ Indicators(c) = m
      <4>1. Indicators(c) = Len(c.segs) - 1 /\ Len(c.segs) - 1 \in Nat
            /\ Len(c.segs) = (Len(c.segs) - 1) + 1
        BY <2>2, <3>1 DEF Indicators
      <4>2. QED
        BY <4>1
    <3>3. c.room > PackedLength(m) + 1
      BY <3>2 DEF MayPull
    <3>4. PackedLength(m) \in Nat /\ PackedLength(m + 1) \in Nat /\ PackedLength(m + 1) <= PackedLength(m) + 2
      BY PackedLengths
    <3>5. QED
      BY <1>3, <3>2, <3>3, <3>4
  <2>3. QED
    BY <2>1, <2>2
<1> HIDE DEF room
<1>5. Len(sdu) \in Nat
  BY <1>2, LenProperties DEF Sdu
<1>6. n \in 0..Len(sdu)
  BY <1>4, <1>5 DEF Lesser
<1>7. n # Len(sdu) => c.room - n = PackedLength(Len(c.segs))
  <2>1. PackedLength(Len(c.segs)) \in Nat
    BY <1>3, PackedLengths
  <2>2. n # Len(sdu) => n = room
    BY DEF Lesser
  <2>3. c.room - (c.room - PackedLength(Len(c.segs))) = PackedLength(Len(c.segs))
    BY <1>3, <2>1
  <2>4. QED
    BY <2>2, <2>3 DEF room
<1>8. Pull(c) = [queue |-> Tail(c.queue), sdu |-> OtherBytes(sdu, n), room |-> c.room - n,
                 segs |-> Append(c.segs, FirstBytes(sdu, n))]
  BY DEF Pull, room
<1> HIDE DEF n
<1>9. QED
  BY <1>2, <1>6, <1>7, <1>8

\* Taking the next SDU of the queue into the PDU under construction keeps it well formed.
LEMMA PullBuilds ==
    ASSUME RlcAssumption, NEW c \in Building, MayPull(c)
    PROVE  Pull(c) \in Building /\ Pull(c).segs # << >>
<1> DEFINE sdu == Head(c.queue)
<1>1. c.queue \in Seq(Sdu) /\ Len(c.queue) <= Capacity /\ Capacity \in Nat /\ c.segs \in Seq(Sdu) /\ c.room \in Int
  BY DEF MayPull, Building, RlcAssumption
<1>2. PICK n \in 0..Len(sdu) :
        Pull(c) = [queue |-> Tail(c.queue), sdu |-> OtherBytes(sdu, n), room |-> c.room - n,
                   segs |-> Append(c.segs, FirstBytes(sdu, n))]
  BY PullCut
<1>3. sdu \in Sdu /\ Tail(c.queue) \in Seq(Sdu) /\ Len(Tail(c.queue)) = Len(c.queue) - 1 /\ Len(c.queue) \in Nat
  BY PullCut
<1>4. FirstBytes(sdu, n) \in Sdu /\ OtherBytes(sdu, n) \in Sdu
  BY <1>3, Cut
<1>5. Append(c.segs, FirstBytes(sdu, n)) \in Seq(Sdu) /\ Append(c.segs, FirstBytes(sdu, n)) # << >>
  BY <1>1, <1>4, AppendProperties
<1>6. c.room - n \in Int /\ Len(Tail(c.queue)) <= Capacity
  <2>1. Len(sdu) \in Nat
    BY <1>3, LenProperties DEF Sdu
  <2>2. QED
    BY <1>1, <1>3, <2>1
<1> HIDE DEF sdu, Sdu
<1>7. QED
  BY <1>2, <1>3, <1>4, <1>5, <1>6 DEF Building

\* The loop that fills a PDU.
LEMMA FillFold ==
    ASSUME RlcAssumption, NEW b \in Building,
           NEW J, \A k \in 0..Len(b.queue) : J[k] \subseteq Building, b \in J[0],
           \A k \in 0..(Len(b.queue) - 1) : \A v \in J[k] :
              (IF MayPull(v) THEN Pull(v) ELSE v) \in J[k + 1]
    PROVE  Fill(b) \in J[Len(b.queue)]
<1> DEFINE step(c) == IF MayPull(c) THEN Pull(c) ELSE c
           V == Building
           D == DOMAIN b.queue
           f == CHOOSE g : g = [s \in SUBSET D |->
                                  IF s = {} THEN b ELSE step(g[s \ {Max(s)}])]
           n == Len(b.queue)
           F == [y \in V \X (1..n) |-> step(y[1])]
<1>1. n \in Nat /\ D = 1..n
  BY LenProperties DEF Building
<1>2. b \in V /\ b \in J[0]
  OBVIOUS
<1>3. \A c \in V : step(c) \in V
  BY PullBuilds
<1>4. Fill(b) = f[D]
  BY Zenon DEF Fill, FoldLeft, MapThenFoldSet
<1>5. \A k \in 0..(n - 1) : \A v \in J[k] : F[<<v, k + 1>>] \in J[k + 1]
  <2>1. ASSUME NEW k \in 0..(n - 1), NEW v \in J[k] PROVE F[<<v, k + 1>>] \in J[k + 1]
    <3>1. k \in 0..n /\ k + 1 \in 1..n
      BY <1>1
    <3>2. v \in V
      BY <2>1, <3>1
    <3>3. F[<<v, k + 1>>] = step(v)
      BY <3>1, <3>2
    <3>4. step(v) \in J[k + 1]
      BY <2>1
    <3> HIDE DEF F, V, n, step
    <3>5. QED
      BY <3>3, <3>4
  <2>2. QED
    BY <2>1
<1> HIDE DEF V, step, n, D
<1>6. F \in [V \X (1..n) -> V] /\ \A v \in V, i \in 1..n : F[<<v, i>>] = step(v)
  BY <1>1, <1>3
<1>7. \A s \in SUBSET (1..n) : s # {} => Max(s) \in 1..n
  BY <1>1, LargestExists
<1> HIDE DEF F
<1>8. \E g : g = [s \in SUBSET D |-> IF s = {} THEN b ELSE step(g[s \ {Max(s)}])]
  <2> HIDE DEF f
  <2>1. Folding(n, V, b, F) # {}
    BY <1>1, <1>2, <1>6, FoldExists
  <2>2. PICK g \in [SUBSET (1..n) -> V] :
           \A s \in SUBSET (1..n) : g[s] = IF s = {} THEN b ELSE F[<<g[s \ {Max(s)}], Max(s)>>]
    BY <2>1 DEF Folding
  <2>3. \A s \in SUBSET (1..n) : g[s] = IF s = {} THEN b ELSE step(g[s \ {Max(s)}])
    BY <1>6, <1>7, <2>2
  <2>4. g = [s \in SUBSET (1..n) |-> IF s = {} THEN b ELSE step(g[s \ {Max(s)}])]
    BY <2>2, <2>3
  <2>5. QED
    BY <1>1, <2>4
<1>9. f = [s \in SUBSET D |-> IF s = {} THEN b ELSE step(f[s \ {Max(s)}])]
  BY <1>8, Zenon
<1> HIDE DEF f
<1>10. f[{}] = b
  BY <1>9
<1>11. \A s \in SUBSET (1..n) : s # {} /\ f[s \ {Max(s)}] \in V
         => f[s] = F[<<f[s \ {Max(s)}], Max(s)>>]
  BY <1>1, <1>6, <1>7, <1>9
<1>12. \A k \in 0..n : J[k] \subseteq V
  BY DEF n, V
<1>13. f[1..n] \in J[n]
  BY <1>1, <1>2, <1>5, <1>6, <1>10, <1>11, <1>12, FoldValue
<1>14. QED
  BY <1>1, <1>4, <1>13 DEF n

\* A PDU that has a segment, or room for the first, ends up with one at least.
LEMMA FillBuilds ==
    ASSUME RlcAssumption, NEW b \in Building, b.segs # << >> \/ MayPull(b)
    PROVE  Fill(b) \in Building /\ Fill(b).segs # << >>
<1> DEFINE n == Len(b.queue)
           J == [k \in 0..n |-> IF k = 0 THEN {b} ELSE {c \in Building : c.segs # << >>}]
<1>1. n \in Nat
  BY LenProperties DEF Building
<1>2. b \in J[0] /\ \A k \in 0..n : J[k] \subseteq Building
  BY <1>1
<1>3. ASSUME NEW k \in 0..(n - 1), NEW v \in J[k] PROVE (IF MayPull(v) THEN Pull(v) ELSE v) \in J[k + 1]
  <2>1. k \in 0..n /\ k + 1 \in 0..n /\ k + 1 # 0
    BY <1>1
  <2>2. v \in Building /\ (v.segs # << >> \/ MayPull(v))
    BY <2>1
  <2>3. (IF MayPull(v) THEN Pull(v) ELSE v) \in {c \in Building : c.segs # << >>}
    BY <2>2, PullBuilds
  <2>4. QED
    BY <2>1, <2>3
<1> HIDE DEF J
<1>4. Fill(b) \in J[n]
  BY <1>2, <1>3, FillFold
<1>5. CASE n = 0
  <2>1. Fill(b) = b
    BY <1>4, <1>5 DEF J
  <2>2. b.queue = << >>
    BY <1>5, EmptySeq DEF Building
  <2>3. QED
    BY <2>1, <2>2 DEF MayPull
<1>6. CASE n # 0
  <2>1. J[n] = {c \in Building : c.segs # << >>}
    BY <1>1, <1>6 DEF J
  <2>2. QED
    BY <1>4, <2>1
<1>7. QED
  BY <1>5, <1>6

\* So does the remainder of the SDU begun in an earlier PDU, which comes first.
LEMMA ContinueBuilds ==
    ASSUME NEW t, t.queue \in Seq(Sdu), Len(t.queue) <= Capacity, t.sdu \in Sdu,
           NEW g \in Nat, g > PackedLength(0) + 1, t.sdu # << >> \/ t.queue # << >>
    PROVE  LET b == Continue(t, g) IN b \in Building /\ (b.segs # << >> \/ MayPull(b))
<1> DEFINE n == Lesser(g - PackedLength(0), Len(t.sdu))
           b == Continue(t, g)
<1>1. PackedLength(0) = 2
  BY PackedLengths
<1>2. Len(t.sdu) \in Nat /\ (t.sdu = << >> => Len(t.sdu) = 0)
  BY LenProperties, EmptySeq DEF Sdu
<1>3. n \in 0..Len(t.sdu) /\ n \in Int
  BY <1>1, <1>2 DEF Lesser
<1>4. FirstBytes(t.sdu, n) \in Sdu /\ OtherBytes(t.sdu, n) \in Sdu
  BY <1>3, Cut
<1>5. b = [queue |-> t.queue, sdu |-> OtherBytes(t.sdu, n), room |-> g - n,
           segs |-> IF t.sdu = << >> THEN << >> ELSE << FirstBytes(t.sdu, n) >>]
  BY DEF Continue
<1>6. t.sdu = << >> => n = 0
  BY <1>2, <1>3
<1> HIDE DEF n, b
<1>7. << FirstBytes(t.sdu, n) >> \in Seq(Sdu) /\ << FirstBytes(t.sdu, n) >> # << >> /\ << >> \in Seq(Sdu)
  <2> DEFINE x == FirstBytes(t.sdu, n)
  <2>1. x \in Sdu
    BY <1>4
  <2> HIDE DEF x, Sdu
  <2>2. << >> \in Seq(Sdu)
    BY EmptySeq
  <2>3. Append(<< >>, x) \in Seq(Sdu) /\ Append(<< >>, x) # << >>
    BY <2>1, <2>2, AppendProperties
  <2>4. Append(<< >>, x) = <<x>>
    OBVIOUS
  <2>5. QED
    BY <2>2, <2>3, <2>4 DEF x
<1>8. b \in Building
  <2> HIDE DEF Sdu
  <2>1. g - n \in Int
    BY <1>3
  <2>2. QED
    BY <1>4, <1>5, <1>7, <2>1 DEF Building
<1>9. CASE t.sdu # << >>
  BY <1>5, <1>7, <1>8, <1>9 DEF b
<1>10. CASE t.sdu = << >>
  <2>1. b.segs = << >> /\ b.room = g /\ b.queue # << >>
    BY <1>5, <1>6, <1>10
  <2>2. Indicators(b) = 0
    BY <2>1 DEF Indicators
  <2>3. MayPull(b)
    BY <2>1, <2>2 DEF MayPull
  <2>4. QED
    BY <1>8, <2>3 DEF b
<1>11. QED
  BY <1>9, <1>10

-------------------------------------------------------------------------------
(* The receiver between calls.                                                *)

\* The state between calls does not depend on SDUs and timer mark.
LEMMA StaysSettled ==
    ASSUME NEW r \in Settled, NEW q \in RxState, q.ur = r.ur, q.uh = r.uh, q.window = r.window
    PROVE  q \in Settled
<1>1. PICK s \in (1 - Window)..Window : At(r, s) /\ ~Holds(r, r.ur)
  BY DEF Settled
<1>2. At(q, s) /\ ~Holds(q, q.ur)
  BY <1>1 DEF At, Holds
<1>3. QED
  BY <1>2 DEF Settled

\* While a PDU is kept, the gap before it is open.
LEMMA KeptBeyondGap ==
    ASSUME RlcAssumption, NEW r \in Settled, r.window # {}
    PROVE  Gap(r)
<1>0. Window \in Nat \ {0} /\ Mod \in Nat \ {0} /\ Mod = 2 * Window
  BY Numbers
<1>1. PICK s \in (1 - Window)..Window : At(r, s)
  BY DEF Settled
<1>2. s >= 1
  BY <1>0, <1>1 DEF At
<1>3. r.ur \in Sn /\ r.ur \in Int /\ r.uh = (r.ur + s) % Mod
  BY <1>1 DEF At, RxState, Sn
<1>4. Base(r, r.uh) = Window
  <2>1. Base(r, (r.ur + s) % Mod) = (s - s - Window) % Mod
    BY <1>3, BaseOf
  <2>2. s - s - Window = (-1) * Mod + Window /\ Window \in 0..(Mod - 1)
    BY <1>0
  <2>3. (s - s - Window) % Mod = Window
    BY <1>0, <2>2, Remainder
  <2>4. QED
    BY <1>3, <2>1, <2>3
<1>5. Base(r, r.ur) = Window - s
  <2>1. 0 - s \in (-Window)..(Window - 1)
    BY <1>0, <1>2
  <2>2. Base(r, (r.ur + 0) % Mod) = 0 - s + Window
    BY <1>3, <2>1, BaseNear
  <2>3. QED
    BY <1>0, <1>3, <2>2, SnItself
<1>6. QED
  BY <1>0, <1>2, <1>4, <1>5 DEF Gap

\* The receiver takes a PDU that is neither old nor there already.
Taken(r, p) ==
    LET kept == [r EXCEPT !.window = @ \cup {p}]
    IN  IF InsideReorderingWindow(kept, p.sn) THEN kept ELSE [kept EXCEPT !.uh = (p.sn + 1) % Mod]

\* A PDU put into the window is in its place, and VR(UH) is past it.
LEMMA TakenPlaced ==
    ASSUME RlcAssumption, NEW r \in Settled, NEW p \in Pdu, ~Outside(r, p.sn), ~Holds(r, p.sn)
    PROVE  Taken(r, p) \in CatchingUp(0)
<1> DEFINE kept == [r EXCEPT !.window = @ \cup {p}]
           ahead == [kept EXCEPT !.uh = (p.sn + 1) % Mod]
           d == Base(r, p.sn)
<1>0. Window \in Nat \ {0} /\ Mod \in Nat \ {0} /\ Mod = 2 * Window
  BY Numbers
<1>1. PICK s \in (1 - Window)..Window : At(r, s) /\ ~Holds(r, r.ur)
  BY DEF Settled
<1>2. r \in RxState /\ r.ur \in Sn /\ r.ur \in Int /\ r.uh \in Int /\ r.uh = (r.ur + s) % Mod
  BY <1>1 DEF At, RxState, Sn
<1>3. p.sn \in Sn /\ p.sn \in Int
  BY DEF Pdu, Sn
<1>4. PICK a \in Int : p.sn - r.uh - Window = a * Mod + d /\ d \in 0..(Mod - 1)
  <2>1. p.sn - r.uh - Window \in Int
    BY <1>0, <1>2, <1>3
  <2>2. QED
    BY <1>0, <2>1, Division DEF Base
<1> HIDE DEF d
<1>5. Base(r, r.ur) = Window - s
  <2>1. 0 - s \in (-Window)..(Window - 1)
    BY <1>0
  <2>2. Base(r, (r.ur + 0) % Mod) = 0 - s + Window
    BY <1>2, <2>1, BaseNear
  <2>3. QED
    BY <1>0, <1>2, <2>2, SnItself
<1>6. Base(r, r.uh - Window) = 0 /\ Base(r, r.uh) = Window
  <2>1. r.uh - Window - r.uh - Window = (-1) * Mod + 0 /\ 0 \in 0..(Mod - 1)
        /\ r.uh - r.uh - Window = (-1) * Mod + Window /\ Window \in 0..(Mod - 1)
    BY <1>0, <1>2
  <2>2. (r.uh - Window - r.uh - Window) % Mod = 0
    BY <1>0, <2>1, Remainder
  <2>3. (r.uh - r.uh - Window) % Mod = Window
    BY <1>0, <2>1, Remainder
  <2>4. QED
    BY <2>2, <2>3 DEF Base
<1>7. d >= Window - s
  <2>1. ~(0 <= d /\ d < Window - s)
    BY <1>5, <1>6 DEF Outside, d
  <2>2. QED
    BY <1>0, <1>4, <2>1
<1>8. PICK j \in Nat : j = d - Window + s
  BY <1>0, <1>4, <1>7
<1>9. p.sn = (r.ur + j) % Mod
  <2>1. PICK b \in Int : r.ur + s = b * Mod + r.uh
    <3>1. r.ur + s \in Int
      BY <1>0, <1>2
    <3>2. PICK b \in Int : r.ur + s = b * Mod + ((r.ur + s) % Mod)
      BY <1>0, <3>1, Division
    <3>3. QED
      BY <1>2, <3>2
  <2>2. r.ur + j = (b - a - 1) * Mod + p.sn /\ b - a - 1 \in Int
    BY <1>0, <1>2, <1>3, <1>4, <1>8, <2>1
  <2>3. QED
    BY <1>0, <1>3, <2>2, Remainder DEF Sn
<1>10. kept \in RxState /\ kept.ur = r.ur /\ kept.uh = r.uh /\ kept.window = r.window \cup {p}
  BY <1>2 DEF RxState
<1>11. \A x, y \in r.window \cup {p} : x.sn = y.sn => x = y
  BY <1>1 DEF At, Holds
<1>12. \A x \in r.window : \E i \in 0..(s - 1) : x.sn = (r.ur + i) % Mod
  BY <1>1 DEF At
<1>13. InsideReorderingWindow(kept, p.sn) <=> d < Window
  <2>1. Base(kept, p.sn) = d /\ Base(kept, kept.uh) = Window /\ Base(kept, kept.uh - Window) = 0
    BY <1>6, <1>10 DEF Base, d
  <2>2. kept.window # {}
    BY <1>10
  <2>3. QED
    BY <1>4, <2>1, <2>2 DEF InsideReorderingWindow
<1> HIDE DEF kept
<1>14. CASE d < Window
  <2>1. j \in 0..(s - 1)
    BY <1>0, <1>4, <1>8, <1>14
  <2>2. At(kept, s)
    <3>1. \A x \in kept.window : \E i \in 0..(s - 1) : x.sn = (kept.ur + i) % Mod
      BY <1>9, <1>10, <1>12, <2>1
    <3>2. QED
      BY <1>2, <1>10, <1>11, <3>1 DEF At
  <2>3. s \in (1 - Window)..Mod /\ s <= Window
    BY <1>0
  <2>4. kept \in CatchingUp(0)
    BY <1>10, <2>2, <2>3 DEF CatchingUp
  <2>5. QED
    BY <1>13, <1>14, <2>4 DEF Taken, kept
<1>15. CASE d >= Window
  <2>1. (p.sn + 1) % Mod \in Sn
    BY <1>3, NextType
  <2>2. ahead \in RxState /\ ahead.ur = r.ur /\ ahead.uh = (p.sn + 1) % Mod
        /\ ahead.window = r.window \cup {p}
    BY <1>10, <2>1 DEF RxState
  <2> HIDE DEF ahead
  <2>3. j + 1 \in (1 - Window)..Mod /\ j + 1 <= Mod - 0 /\ s <= j + 1 /\ j \in 0..((j + 1) - 1)
    BY <1>0, <1>4, <1>8, <1>15
  <2>4. ahead.uh = (ahead.ur + (j + 1)) % Mod
    <3>1. PICK u \in Int : u = r.ur + j
      BY <1>2, <1>8
    <3>2. ((u % Mod) + 1) % Mod = (u + 1) % Mod
      BY <1>0, <3>1, ModAdd
    <3>3. u + 1 = r.ur + (j + 1)
      BY <1>2, <3>1
    <3>4. QED
      BY <1>9, <2>2, <3>1, <3>2, <3>3
  <2>5. \A x \in ahead.window : \E i \in 0..((j + 1) - 1) : x.sn = (ahead.ur + i) % Mod
    <3>1. \A i \in 0..(s - 1) : i \in 0..((j + 1) - 1)
      BY <2>3
    <3>2. QED
      BY <1>9, <1>12, <2>2, <2>3, <3>1
  <2>6. At(ahead, j + 1)
    BY <1>11, <2>2, <2>4, <2>5 DEF At
  <2>7. TopHeld(ahead, j + 1)
    <3>1. (j + 1) - 1 = j
      OBVIOUS
    <3>2. p \in ahead.window /\ p.sn = (ahead.ur + ((j + 1) - 1)) % Mod
      BY <1>9, <2>2, <3>1
    <3>3. QED
      BY <3>2 DEF TopHeld
  <2>8. ahead \in CatchingUp(0)
    BY <2>2, <2>3, <2>6, <2>7 DEF CatchingUp
  <2>9. ~(d < Window)
    BY <1>0, <1>4, <1>15
  <2>10. QED
    BY <1>13, <2>8, <2>9 DEF Taken, ahead, kept
<1>16. QED
  BY <1>0, <1>4, <1>14, <1>15

-------------------------------------------------------------------------------
(* The invariant.                                                             *)

SenderTypes ==
    /\ input \in [Sender -> Seq(Sdu)]
    /\ tx \in [Sender -> [queue : Seq(Sdu), sdu : Sdu, sn : Sn, count : Nat]]
    /\ \A s \in Sender : Len(tx[s].queue) <= Capacity
    /\ air \subseteq Pdu

ReceiverPlaced ==
    /\ rx \in Settled
    /\ rx.out = << >>
    /\ timer \in BOOLEAN /\ expiring \in BOOLEAN

RlcInv == SenderTypes /\ ReceiverPlaced /\ HeldTimed

\* The inductive invariant gives the type invariant.
LEMMA RlcInvType == RlcInv => TypeOK
<1> SUFFICES ASSUME RlcInv PROVE TypeOK
  OBVIOUS
<1>2. PICK i \in (1 - Window)..Window : At(rx, i)
  BY DEF RlcInv, ReceiverPlaced, Settled
<1>3. rx \in RxState /\ \A p, q \in rx.window : p.sn = q.sn => p = q
  BY <1>2 DEF At
<1>4. rx["ur"] \in Sn /\ rx["ux"] \in Sn /\ rx["uh"] \in Sn /\ rx["inSdu"] \in Sn /\ rx.lost \in BOOLEAN
  BY <1>3 DEF RxState
<1>5. ASSUME NEW s \in Sender PROVE tx[s].sn \in Sn /\ Len(tx[s].queue) <= Capacity
  <2>1. tx[s] \in [queue : Seq(Sdu), sdu : Sdu, sn : Sn, count : Nat]
    BY DEF RlcInv, SenderTypes
  <2>2. QED
    BY <2>1 DEF RlcInv, SenderTypes
<1>6. \A x \in {"ur", "ux", "uh", "inSdu"} : rx[x] \in 0..(Mod - 1)
  BY <1>4 DEF Sn
<1>7. rx.out = << >> /\ timer \in BOOLEAN /\ expiring \in BOOLEAN
  BY DEF RlcInv, ReceiverPlaced
<1>8. \A s \in Sender : tx[s].sn \in 0..(Mod - 1) /\ Len(tx[s].queue) <= Capacity
  BY <1>5 DEF Sn
<1>9. QED
  BY <1>3, <1>4, <1>6, <1>7, <1>8 DEF TypeOK

\* What the calls that end in Becomes have to show.
LEMMA BecomesPlaced ==
    ASSUME NEW r \in Settled, NEW x \in Sn, Becomes(r) \/ Becomes([r EXCEPT !.ux = x])
    PROVE  rx' \in Settled /\ rx'.out = << >> /\ rx'.window = r.window
<1>1. r \in RxState
  BY DEF Settled
<1>2. << >> \in Seq(Sdu)
  BY EmptySeq
<1> HIDE DEF Sdu
<1>3. rx' \in RxState /\ rx'.ur = r.ur /\ rx'.uh = r.uh /\ rx'.window = r.window /\ rx'.out = << >>
  <2>1. CASE Becomes(r)
    BY <1>1, <1>2, <2>1 DEF Becomes, RxState
  <2>2. CASE Becomes([r EXCEPT !.ux = x])
    BY <1>1, <1>2, <2>2 DEF Becomes, RxState
  <2>3. QED
    BY <2>1, <2>2
<1>4. QED
  BY <1>3, StaysSettled

\* The inductive invariant holds at the start.
LEMMA RlcInit == RlcAssumption /\ Init => RlcInv
<1> SUFFICES ASSUME RlcAssumption, Init PROVE RlcInv
  OBVIOUS
<1>0. Window \in Nat \ {0} /\ Mod \in Nat \ {0} /\ Capacity \in Nat
  BY Numbers DEF RlcAssumption
<1>1. << >> \in Seq(Sdu) /\ << >> \in Sdu /\ Len(<< >>) = 0
  BY EmptySeq DEF Sdu
<1>2. 0 \in Sn /\ 0 \in (1 - Window)..Window
  BY <1>0 DEF Sn
<1>3. rx = FreshRx /\ timer = FALSE /\ expiring = FALSE
  BY DEF Init
<1>4. rx \in Settled
  <2> HIDE DEF Sdu
  <2>1. FreshRx \in RxState
    BY <1>1, <1>2 DEF FreshRx, RxState
  <2>2. (0 + 0) % Mod = 0
    BY <1>2, SnItself
  <2>3. At(FreshRx, 0)
    BY <2>1, <2>2 DEF At, FreshRx
  <2>4. ~Holds(FreshRx, FreshRx.ur)
    BY DEF Holds, FreshRx
  <2>5. QED
    BY <1>2, <1>3, <2>1, <2>3, <2>4 DEF Settled
<1>5. ReceiverPlaced
  BY <1>3, <1>4 DEF ReceiverPlaced, FreshRx
<1>6. HeldTimed
  BY <1>3 DEF HeldTimed, FreshRx
<1>7. SenderTypes
  <2> HIDE DEF Sdu
  <2>1. [queue |-> << >>, sdu |-> << >>, sn |-> 0, count |-> 0]
           \in [queue : Seq(Sdu), sdu : Sdu, sn : Sn, count : Nat]
    BY <1>1, <1>2
  <2>2. QED
    BY <1>0, <1>1, <2>1 DEF Init, SenderTypes
<1>8. QED
  BY <1>5, <1>6, <1>7 DEF RlcInv

\* An SDU accepted from the layer above is a sequence of its bytes.
LEMMA SduAccepted ==
    ASSUME NEW s \in Sender, NEW n \in Nat, NEW m \in Nat
    PROVE  [k \in 1..n |-> <<s, m, k>>] \in Sdu
<1>1. [k \in 1..n |-> <<s, m, k>>] \in [1..n -> Sender \X Nat \X Nat]
  OBVIOUS
<1>2. QED
  BY <1>1, SeqDef DEF Sdu

\* An SDU written to the queue keeps the sender well formed, because the queue is checked for room.
LEMMA WriteTypes ==
    ASSUME RlcAssumption, SenderTypes, NEW s \in Sender, NEW n \in SduSizes, TryWriteSdu(s, n)
    PROVE  SenderTypes'
<1> DEFINE sdu == [k \in 1..n |-> <<s, Len(input[s]) + 1, k>>]
<1>1. input[s] \in Seq(Sdu) /\ n \in Nat /\ Capacity \in Nat
  BY DEF SenderTypes, RlcAssumption
<1>2. Len(input[s]) + 1 \in Nat
  <2>1. Len(input[s]) \in Nat
    BY <1>1, LenProperties
  <2>2. QED
    BY <2>1
<1>3. sdu \in Sdu
  BY <1>1, <1>2, SduAccepted
<1>4. tx[s] \in [queue : Seq(Sdu), sdu : Sdu, sn : Sn, count : Nat] /\ tx[s].queue \in Seq(Sdu)
  BY DEF SenderTypes
<1>5. /\ Len(tx[s].queue) < Capacity
      /\ input' = [input EXCEPT ![s] = Append(@, sdu)]
      /\ tx' = [tx EXCEPT ![s].queue = Append(@, sdu)]
      /\ air' = air
  BY DEF TryWriteSdu
<1> HIDE DEF sdu, Sdu
<1>6. Append(input[s], sdu) \in Seq(Sdu) /\ Append(tx[s].queue, sdu) \in Seq(Sdu)
      /\ Len(Append(tx[s].queue, sdu)) = Len(tx[s].queue) + 1 /\ Len(tx[s].queue) \in Nat
  BY <1>1, <1>3, <1>4, AppendProperties, LenProperties
<1>7. input' \in [Sender -> Seq(Sdu)]
  BY <1>5, <1>6 DEF SenderTypes
<1>8. tx' \in [Sender -> [queue : Seq(Sdu), sdu : Sdu, sn : Sn, count : Nat]]
  BY <1>4, <1>5, <1>6 DEF SenderTypes
<1>9. ASSUME NEW q \in Sender PROVE Len(tx'[q].queue) <= Capacity
  <2>1. CASE q = s
    <3>1. tx'[s].queue = Append(tx[s].queue, sdu)
      BY <1>4, <1>5 DEF SenderTypes
    <3>2. QED
      BY <1>1, <1>5, <1>6, <2>1, <3>1
  <2>2. CASE q # s
    BY <1>5, <2>2 DEF SenderTypes
  <2>3. QED
    BY <2>1, <2>2
<1>10. QED
  BY <1>5, <1>7, <1>8, <1>9 DEF SenderTypes

\* A PDU built for a grant keeps the sender well formed, and the PDU on the air is one.
LEMMA BuildTypes ==
    ASSUME RlcAssumption, SenderTypes, NEW s \in Sender, NEW g \in Grants, BuildDataPdu(s, g)
    PROVE  SenderTypes'
<1> DEFINE t == tx[s]
           b == Fill(Continue(t, g))
           p == [sender |-> s, number |-> t.count + 1, sn |-> t.sn, segs |-> b.segs,
                 startAligned |-> t.sdu = << >>, endAligned |-> b.sdu = << >>]
<1>1. t \in [queue : Seq(Sdu), sdu : Sdu, sn : Sn, count : Nat] /\ Len(t.queue) <= Capacity
  BY DEF SenderTypes
<1>2. g \in Nat /\ g > PackedLength(0) + 1 /\ (t.sdu # << >> \/ t.queue # << >>)
  BY DEF BuildDataPdu, RlcAssumption
<1>3. b \in Building /\ b.segs # << >>
  <2>1. LET c == Continue(t, g) IN c \in Building /\ (c.segs # << >> \/ MayPull(c))
    BY <1>1, <1>2, ContinueBuilds
  <2>2. QED
    BY <2>1, FillBuilds
<1>4. /\ tx' = [tx EXCEPT ![s] = [queue |-> b.queue, sdu |-> b.sdu,
                                  sn |-> NextSn(t.sn), count |-> t.count + 1]]
      /\ air' = {q \in air : ~Late(q, s)} \cup {p}
      /\ input' = input
  BY DEF BuildDataPdu
<1> HIDE DEF b, t, Sdu
<1>5. b.queue \in Seq(Sdu) /\ Len(b.queue) <= Capacity /\ b.sdu \in Sdu /\ b.segs \in Seq(Sdu) \ {<< >>}
  BY <1>3 DEF Building
<1>6. t.sn \in Sn /\ NextSn(t.sn) \in Sn /\ t.count + 1 \in Nat
  BY <1>1, NextType DEF NextSn
<1>7. p \in Pdu
  BY <1>5, <1>6 DEF Pdu
<1>8. [queue |-> b.queue, sdu |-> b.sdu, sn |-> NextSn(t.sn), count |-> t.count + 1]
         \in [queue : Seq(Sdu), sdu : Sdu, sn : Sn, count : Nat]
  BY <1>5, <1>6
<1> HIDE DEF p
<1>9. tx' \in [Sender -> [queue : Seq(Sdu), sdu : Sdu, sn : Sn, count : Nat]]
  BY <1>4, <1>8 DEF SenderTypes
<1>10. \A q \in Sender : Len(tx'[q].queue) <= Capacity
  BY <1>4, <1>5 DEF SenderTypes
<1>11. QED
  BY <1>4, <1>7, <1>9, <1>10 DEF SenderTypes

\* The end of handle_data_pdu.
LEMMA TimerUpdated ==
    ASSUME RlcAssumption, ReceiverPlaced, NEW r \in Settled, UpdateTimer(r)
    PROVE  rx' \in Settled /\ rx'.out = << >> /\ timer' \in BOOLEAN /\ (rx'.window # {} => timer')
<1>1. r \in RxState /\ r.uh \in Sn
  BY DEF Settled, RxState
<1>2. rx' \in Settled /\ rx'.out = << >> /\ rx'.window = r.window
  <2>1. Becomes(r) \/ Becomes([r EXCEPT !.ux = r.uh])
    BY DEF UpdateTimer
  <2>2. QED
    BY <1>1, <2>1, BecomesPlaced
<1>3. timer' \in BOOLEAN /\ (Gap(r) => timer')
  BY DEF UpdateTimer, ReceiverPlaced
<1>4. QED
  BY <1>2, <1>3, KeptBeyondGap

\* A PDU received, in the window or outside it, keeps the receiver in place and the timer running.
LEMMA ReceiveKeeps ==
    ASSUME RlcAssumption, RlcInv, NEW p \in air, Receive(p)
    PROVE  RlcInv'
<1>1. p \in Pdu /\ rx \in Settled
  BY DEF RlcInv, SenderTypes, ReceiverPlaced
<1>2. SenderTypes'
  BY DEF RlcInv, SenderTypes, Receive
<1>3. expiring' = expiring /\ expiring \in BOOLEAN
  BY DEF Receive, HandleDataPdu, RlcInv, ReceiverPlaced
<1>4. CASE Outside(rx, p.sn) \/ Holds(rx, p.sn)
  <2>1. rx' = rx /\ timer' = timer
    BY <1>4 DEF Receive, HandleDataPdu
  <2>2. QED
    BY <1>2, <1>3, <2>1 DEF RlcInv, ReceiverPlaced, HeldTimed
<1>5. CASE ~(Outside(rx, p.sn) \/ Holds(rx, p.sn))
  <2>1. UpdateTimer(ReassembleRxSdus(Taken(rx, p)))
    BY <1>5 DEF Receive, HandleDataPdu, Taken
  <2>2. ReassembleRxSdus(Taken(rx, p)) \in Settled
    BY <1>1, <1>5, TakenPlaced, Reassembled
  <2>3. rx' \in Settled /\ rx'.out = << >> /\ timer' \in BOOLEAN /\ (rx'.window # {} => timer')
    BY <2>1, <2>2, TimerUpdated DEF RlcInv
  <2>4. QED
    BY <1>2, <1>3, <2>3 DEF RlcInv, ReceiverPlaced, HeldTimed
<1>6. QED
  BY <1>4, <1>5

\* The expiry of t-Reordering keeps them too: it restarts the timer when PDUs remain.
LEMMA ExpiredKeeps ==
    ASSUME RlcAssumption, RlcInv, TimerExpired
    PROVE  RlcInv'
<1> DEFINE r == GiveUp(rx)
<1>1. r \in Settled
  BY GiveUpSettled DEF RlcInv, ReceiverPlaced
<1>2. SenderTypes'
  BY DEF RlcInv, SenderTypes, TimerExpired
<1>3. IF Gap(r) THEN timer' = TRUE /\ Becomes([r EXCEPT !.ux = r.uh]) ELSE Becomes(r) /\ timer' = timer
  BY DEF TimerExpired
<1>4. expiring' = FALSE /\ timer \in BOOLEAN
  BY DEF TimerExpired, RlcInv, ReceiverPlaced
<1> HIDE DEF r
<1>5. r.uh \in Sn
  BY <1>1 DEF Settled, RxState
<1>6. rx' \in Settled /\ rx'.out = << >> /\ rx'.window = r.window
  BY <1>1, <1>3, <1>5, BecomesPlaced
<1>7. timer' \in BOOLEAN /\ (rx'.window # {} => timer')
  BY <1>1, <1>3, <1>4, <1>6, KeptBeyondGap
<1>8. QED
  BY <1>2, <1>4, <1>6, <1>7 DEF RlcInv, ReceiverPlaced, HeldTimed

\* Every step keeps the inductive invariant.
LEMMA RlcStep == RlcAssumption /\ RlcInv /\ [Next]_vars => RlcInv'
<1> SUFFICES ASSUME RlcAssumption, RlcInv, [Next]_vars PROVE RlcInv'
  OBVIOUS
<1>1. CASE UNCHANGED vars
  BY <1>1 DEF RlcInv, SenderTypes, ReceiverPlaced, HeldTimed, vars
<1>2. ASSUME NEW s \in Sender, NEW n \in SduSizes, TryWriteSdu(s, n) PROVE RlcInv'
  <2>1. SenderTypes'
    BY <1>2, WriteTypes DEF RlcInv
  <2>2. UNCHANGED <<rx, timer, expiring>>
    BY <1>2 DEF TryWriteSdu
  <2>3. QED
    BY <2>1, <2>2 DEF RlcInv, ReceiverPlaced, HeldTimed
<1>3. ASSUME NEW s \in Sender, NEW g \in Grants, BuildDataPdu(s, g) PROVE RlcInv'
  <2>1. SenderTypes'
    BY <1>3, BuildTypes DEF RlcInv
  <2>2. UNCHANGED <<rx, timer, expiring>>
    BY <1>3 DEF BuildDataPdu
  <2>3. QED
    BY <2>1, <2>2 DEF RlcInv, ReceiverPlaced, HeldTimed
<1>4. ASSUME NEW p \in air, Receive(p) PROVE RlcInv'
  BY <1>4, ReceiveKeeps
<1>5. CASE TimerStep
  BY <1>5 DEF TimerStep, RlcInv, SenderTypes, ReceiverPlaced, HeldTimed
<1>6. CASE TimerExpired
  BY <1>6, ExpiredKeeps
<1>7. QED
  BY <1>1, <1>2, <1>3, <1>4, <1>5, <1>6 DEF Next

-------------------------------------------------------------------------------

\* For any senders, any modulus, any loss, repetition and reordering, also between expiry and
\* callback: numbers stay below the modulus, the queue within its capacity, and the window holds
\* one PDU for each number.
THEOREM TypeCorrect == Spec => []TypeOK
<1>1. Init => RlcInv
  BY RlcAssumption, RlcInit
<1>2. RlcInv /\ [Next]_vars => RlcInv'
  BY RlcAssumption, RlcStep
<1>3. QED
  BY <1>1, <1>2, RlcInvType, PTL DEF Spec

\* Under no further assumption, handle_data_pdu and timer_expired never leave a PDU in the window
\* without the reordering timer, or its expiry, that will release it.
THEOREM HeldTimedHolds == Spec => []HeldTimed
<1>1. Init => RlcInv
  BY RlcAssumption, RlcInit
<1>2. RlcInv /\ [Next]_vars => RlcInv'
  BY RlcAssumption, RlcStep
<1>3. RlcInv => HeldTimed
  BY DEF RlcInv
<1>4. QED
  BY <1>1, <1>2, <1>3, PTL DEF Spec

-------------------------------------------------------------------------------
(* Pieces of SDUs.  One sender from here on.                                  *)

\* Bytes i + 1 to j of SDU number k of sender a.
Part(a, k, i, j) == [x \in 1..(j - i) |-> <<a, k, i + x>>]

\* A piece is a sequence of bytes, as many as it should have.
LEMMA PartIsSdu ==
    ASSUME NEW a \in Sender, NEW k \in Nat, NEW i \in Nat, NEW j \in Nat, i <= j
    PROVE  /\ Part(a, k, i, j) \in Sdu /\ Len(Part(a, k, i, j)) = j - i
           /\ \A x \in 1..(j - i) : Part(a, k, i, j)[x] = <<a, k, i + x>>
           /\ (Part(a, k, i, j) = << >> <=> i = j)
<1> DEFINE s == Part(a, k, i, j)
<1>1. j - i \in Nat
  OBVIOUS
<1>2. s \in [1..(j - i) -> Sender \X Nat \X Nat]
  BY DEF Part
<1>3. s \in Seq(Sender \X Nat \X Nat)
  BY <1>1, <1>2, SeqDef
<1>4. \A x \in 1..(j - i) : s[x] = <<a, k, i + x>>
  BY DEF Part
<1>5. DOMAIN s = 1..(j - i)
  BY DEF Part
<1> HIDE DEF s
<1>6. Len(s) \in Nat /\ DOMAIN s = 1..Len(s)
  BY <1>3, LenProperties
<1>7. Len(s) = j - i
  BY <1>1, <1>5, <1>6
<1>8. s = << >> <=> Len(s) = 0
  BY <1>3, EmptySeq
<1>9. QED
  BY <1>1, <1>3, <1>4, <1>7, <1>8 DEF Sdu, s

\* A piece and the one that follows it are a piece.
LEMMA PartsJoin ==
    ASSUME NEW a \in Sender, NEW k \in Nat, NEW i \in Nat, NEW j \in Nat, NEW m \in Nat,
           i <= j, j <= m
    PROVE  Part(a, k, i, j) \o Part(a, k, j, m) = Part(a, k, i, m)
<1> DEFINE s == Part(a, k, i, j)
           t == Part(a, k, j, m)
           u == Part(a, k, i, m)
<1>1. s \in Sdu /\ Len(s) = j - i /\ \A x \in 1..(j - i) : s[x] = <<a, k, i + x>>
  <2>1. s \in Sdu /\ Len(s) = j - i
    BY PartIsSdu
  <2>2. \A x \in 1..(j - i) : s[x] = <<a, k, i + x>>
    BY DEF Part
  <2>3. QED
    BY <2>1, <2>2
<1>2. t \in Sdu /\ Len(t) = m - j /\ \A x \in 1..(m - j) : t[x] = <<a, k, j + x>>
  <2>1. t \in Sdu /\ Len(t) = m - j
    BY PartIsSdu
  <2>2. \A x \in 1..(m - j) : t[x] = <<a, k, j + x>>
    BY DEF Part
  <2>3. QED
    BY <2>1, <2>2
<1>3. u \in Sdu /\ Len(u) = m - i /\ \A x \in 1..(m - i) : u[x] = <<a, k, i + x>>
  <2>1. u \in Sdu /\ Len(u) = m - i
    BY PartIsSdu
  <2>2. \A x \in 1..(m - i) : u[x] = <<a, k, i + x>>
    BY DEF Part
  <2>3. QED
    BY <2>1, <2>2
<1> HIDE DEF s, t, u
<1>4. /\ s \o t \in Sdu /\ Len(s \o t) = m - i
      /\ \A x \in 1..(m - i) : (s \o t)[x] = IF x <= j - i THEN s[x] ELSE t[x - (j - i)]
  <2>1. /\ s \o t \in Sdu /\ Len(s \o t) = Len(s) + Len(t)
        /\ \A x \in 1..(Len(s) + Len(t)) : (s \o t)[x] = IF x <= Len(s) THEN s[x] ELSE t[x - Len(s)]
    BY <1>1, <1>2, ConcatProperties DEF Sdu
  <2>2. Len(s) + Len(t) = m - i
    BY <1>1, <1>2
  <2>3. QED
    BY <1>1, <2>1, <2>2
<1>5. ASSUME NEW x \in 1..(m - i) PROVE (s \o t)[x] = u[x]
  <2>1. CASE x <= j - i
    <3>1. x \in 1..(j - i)
      BY <2>1
    <3>2. QED
      BY <1>1, <1>3, <1>4, <2>1, <3>1
  <2>2. CASE ~(x <= j - i)
    <3>1. x - (j - i) \in 1..(m - j) /\ j + (x - (j - i)) = i + x
      BY <2>2
    <3>2. QED
      BY <1>2, <1>3, <1>4, <2>2, <3>1
  <2>3. QED
    BY <2>1, <2>2
<1>6. s \o t = u
  <2>1. Len(s \o t) = Len(u) /\ \A x \in 1..Len(s \o t) : (s \o t)[x] = u[x]
    BY <1>3, <1>4, <1>5
  <2>2. QED
    BY <1>3, <1>4, <2>1, SeqEqual DEF Sdu
<1>7. QED
  BY <1>6 DEF s, t, u

\* One piece behind the other.
Both(s, t) == s \o t

\* The start of an SDU and the piece that follows it are a longer start.
LEMMA StartJoins ==
    ASSUME NEW a \in Sender, NEW k \in Nat, NEW j \in Nat, NEW m \in Nat, j <= m
    PROVE  Both(Part(a, k, 0, j), Part(a, k, j, m)) = Part(a, k, 0, m)
<1>1. \A i \in Nat : i <= j => Both(Part(a, k, i, j), Part(a, k, j, m)) = Part(a, k, i, m)
  BY PartsJoin DEF Both
<1>2. 0 \in Nat /\ 0 <= j
  OBVIOUS
<1>3. QED
  BY <1>1, <1>2, Zenon

\* Cutting a piece gives two pieces.
LEMMA PartCut ==
    ASSUME NEW a \in Sender, NEW k \in Nat, NEW i \in Nat, NEW j \in Nat, NEW n \in 0..(j - i)
    PROVE  /\ FirstBytes(Part(a, k, i, j), n) = Part(a, k, i, i + n)
           /\ OtherBytes(Part(a, k, i, j), n) = Part(a, k, i + n, j)
<1> DEFINE s == Part(a, k, i, j)
           t == Part(a, k, i, i + n)
           u == Part(a, k, i + n, j)
<1>0. i <= j /\ i + n \in Nat /\ i <= i + n /\ i + n <= j /\ n \in Int /\ (i + n) - i = n
  OBVIOUS
<1>1. s \in Sdu /\ Len(s) = j - i /\ \A x \in 1..(j - i) : s[x] = <<a, k, i + x>>
  <2>1. s \in Sdu /\ Len(s) = j - i
    BY <1>0, PartIsSdu
  <2>2. \A x \in 1..(j - i) : s[x] = <<a, k, i + x>>
    BY DEF Part
  <2>3. QED
    BY <2>1, <2>2
<1>2. t \in Sdu /\ Len(t) = n /\ \A x \in 1..n : t[x] = <<a, k, i + x>>
  <2>1. PICK z \in Nat : z = i + n /\ i <= z /\ z - i = n
    BY <1>0
  <2>2. Part(a, k, i, z) \in Sdu /\ Len(Part(a, k, i, z)) = z - i
    <3>1. i <= z /\ z \in Nat
      BY <2>1
    <3> HIDE DEF s, t, u
    <3>2. Part(a, k, i, z) \in Sdu
      BY <3>1, PartIsSdu, Zenon
    <3>3. Len(Part(a, k, i, z)) = z - i
      BY <3>1, PartIsSdu
    <3>4. QED
      BY <3>2, <3>3
  <2>3. \A x \in 1..(z - i) : Part(a, k, i, z)[x] = <<a, k, i + x>>
    BY DEF Part
  <2>4. QED
    BY <2>1, <2>2, <2>3
<1>3. u \in Sdu /\ Len(u) = j - (i + n) /\ \A x \in 1..(j - (i + n)) : u[x] = <<a, k, (i + n) + x>>
  <2>1. u \in Sdu /\ Len(u) = j - (i + n)
    BY <1>0, PartIsSdu
  <2>2. \A x \in 1..(j - (i + n)) : u[x] = <<a, k, (i + n) + x>>
    BY DEF Part
  <2>3. QED
    BY <2>1, <2>2
<1> HIDE DEF s, t, u
<1>4. \A x \in 1..Len(s) : s[x] \in Sender \X Nat \X Nat
  BY <1>1, ElementOfSeq DEF Sdu
<1>5. FirstBytes(s, n) = t
  <2>1. \A x \in 1..n : s[x] \in Sender \X Nat \X Nat
    BY <1>0, <1>1, <1>4
  <2>2. /\ SubSeq(s, 1, n) \in Sdu
        /\ Len(SubSeq(s, 1, n)) = IF 1 <= n THEN n - 1 + 1 ELSE 0
        /\ \A x \in 1..(n - 1 + 1) : SubSeq(s, 1, n)[x] = s[1 + x - 1]
    BY <1>0, <2>1, SubSeqProperties DEF Sdu
  <2>3. n - 1 + 1 = n /\ (~(1 <= n) => n = 0) /\ \A x \in 1..n : 1 + x - 1 = x /\ x \in 1..(j - i)
    BY <1>0
  <2>4. Len(SubSeq(s, 1, n)) = n /\ \A x \in 1..n : SubSeq(s, 1, n)[x] = t[x]
    BY <1>0, <1>1, <1>2, <2>2, <2>3
  <2>5. QED
    BY <1>2, <2>2, <2>4, SeqEqual DEF Sdu, FirstBytes
<1>6. OtherBytes(s, n) = u
  <2>1. \A x \in (n + 1)..Len(s) : s[x] \in Sender \X Nat \X Nat
    <3>1. \A x \in (n + 1)..Len(s) : x \in 1..Len(s)
      BY <1>0, <1>1
    <3>2. QED
      BY <1>4, <3>1
  <2>2. PICK l \in Nat : l = Len(s) /\ l = j - i
    BY <1>0, <1>1
  <2>3. n + 1 \in Int /\ l \in Int
    BY <1>0, <2>2
  <2>4. /\ SubSeq(s, n + 1, l) \in Sdu
        /\ Len(SubSeq(s, n + 1, l)) = IF n + 1 <= l THEN l - (n + 1) + 1 ELSE 0
        /\ \A x \in 1..(l - (n + 1) + 1) : SubSeq(s, n + 1, l)[x] = s[(n + 1) + x - 1]
    BY <2>1, <2>2, <2>3, SubSeqProperties DEF Sdu
  <2>5. PICK m \in Nat : m = l - n /\ m = j - (i + n) /\ l - (n + 1) + 1 = m /\ (~(n + 1 <= l) => m = 0)
    BY <1>0, <2>2
  <2>6. Len(SubSeq(s, n + 1, l)) = m
    BY <2>4, <2>5
  <2>7. ASSUME NEW x \in 1..m PROVE SubSeq(s, n + 1, l)[x] = u[x]
    <3>1. (n + 1) + x - 1 = n + x /\ n + x \in 1..(j - i) /\ i + (n + x) = (i + n) + x
      BY <1>0, <2>2, <2>5
    <3>2. SubSeq(s, n + 1, l)[x] = s[n + x]
      BY <2>4, <2>5, <3>1
    <3>3. s[n + x] = <<a, k, i + (n + x)>>
      BY <1>1, <3>1
    <3>4. u[x] = <<a, k, (i + n) + x>>
      BY <1>3, <2>5
    <3>5. QED
      BY <3>1, <3>2, <3>3, <3>4
  <2>8. SubSeq(s, n + 1, l) = u
    BY <1>3, <2>4, <2>5, <2>6, <2>7, SeqEqual DEF Sdu
  <2>9. QED
    BY <2>2, <2>8 DEF OtherBytes
<1>7. QED
  BY <1>5, <1>6 DEF s, t, u

-------------------------------------------------------------------------------
(* What was sent, and what may be delivered.                                  *)

\* Where a PDU ended: behind byte o of SDU k, with more of it to come if open.
Cuts == [open : BOOLEAN, k : Nat, o : Nat]

\* The next SDU of which a segment is sent.
Floor(c) == IF c.open THEN c.k ELSE c.k + 1

\* The history h of the bearer: its sender, the SDUs it accepted, and the end of each of its
\* count PDUs.
Story(h) ==
    /\ h.by \in Sender
    /\ h.input \in Seq(Sdu)
    /\ \A k \in 1..Len(h.input) :
          h.input[k] # << >> /\ h.input[k] = Part(h.by, k, 0, Len(h.input[k]))
    /\ h.count \in Nat
    /\ h.cut \in [0..h.count -> Cuts]
    /\ \A n \in 0..h.count : 1 <= Floor(h.cut[n])
    /\ \A n \in 1..h.count : Floor(h.cut[n - 1]) <= h.cut[n].k /\ h.cut[n].k <= Len(h.input)

\* The number of an SDU is in its first byte.
Num(sdu) == sdu[1][2]

\* SDUs out of the input, in order, numbered lo or more and less than hi.
Run(h, out, lo, hi) ==
    /\ out \in Seq(Sdu)
    /\ \A i \in 1..Len(out) : /\ Num(out[i]) \in 1..Len(h.input)
                              /\ lo <= Num(out[i]) /\ Num(out[i]) < hi
                              /\ out[i] = h.input[Num(out[i])]
    /\ \A i, j \in 1..Len(out) : i < j => Num(out[i]) < Num(out[j])

\* An SDU accepted says where it stands in the input.
LEMMA NumInput ==
    ASSUME NEW h, Story(h), NEW k \in 1..Len(h.input)
    PROVE  /\ Num(h.input[k]) = k /\ h.input[k][1][1] = h.by /\ h.input[k] \in Sdu
           /\ k \in Nat /\ Len(h.input[k]) \in Nat \ {0}
<1>1. h.input \in Seq(Sdu) /\ h.by \in Sender /\ Len(h.input) \in Nat
  BY LenProperties DEF Story
<1>2. h.input[k] \in Sdu /\ h.input[k] # << >> /\ h.input[k] = Part(h.by, k, 0, Len(h.input[k]))
  BY <1>1, ElementOfSeq DEF Story
<1>3. PICK n \in Nat \ {0} : n = Len(h.input[k])
  BY <1>2, EmptySeq DEF Sdu
<1>4. k \in Nat /\ 0 <= n /\ 1 \in 1..(n - 0) /\ 0 \in Nat /\ n \in Nat /\ 0 + 1 = 1
  BY <1>1
<1>5. Part(h.by, k, 0, n)[1] = <<h.by, k, 0 + 1>>
  <2>1. \A x \in 1..(n - 0) : Part(h.by, k, 0, n)[x] = <<h.by, k, 0 + x>>
    BY DEF Part
  <2>2. QED
    BY <1>4, <2>1
<1>6. h.input[k][1] = <<h.by, k, 1>>
  BY <1>2, <1>3, <1>4, <1>5
<1>7. QED
  BY <1>2, <1>3, <1>4, <1>6 DEF Num

\* The bounds of a run may be widened.
LEMMA RunWiden ==
    ASSUME NEW h, Story(h), NEW out, NEW lo \in Nat, NEW hi \in Nat, NEW lo2 \in Nat, NEW hi2 \in Nat,
           lo2 <= lo, hi <= hi2, Run(h, out, lo, hi)
    PROVE  Run(h, out, lo2, hi2)
<1>1. Len(h.input) \in Nat
  BY LenProperties DEF Story
<1>2. \A i \in 1..Len(out) : Num(out[i]) \in Int
  BY <1>1 DEF Run
<1>3. \A i \in 1..Len(out) : lo2 <= Num(out[i]) /\ Num(out[i]) < hi2
  BY <1>2 DEF Run
<1>4. QED
  BY <1>3 DEF Run

\* The next SDU may be appended to a run.
LEMMA RunAppend ==
    ASSUME NEW h, Story(h), NEW out, NEW lo \in Nat, NEW k \in 1..Len(h.input), lo <= k,
           Run(h, out, lo, k)
    PROVE  Run(h, Append(out, h.input[k]), lo, k + 1)
<1> DEFINE x == h.input[k]
           new == Append(out, x)
<1>1. out \in Seq(Sdu) /\ Len(out) \in Nat
  BY LenProperties DEF Run
<1>2. Num(x) = k /\ x \in Sdu /\ k \in Nat /\ Len(h.input) \in Nat
  <2>1. Len(h.input) \in Nat
    BY LenProperties DEF Story
  <2>2. QED
    BY <2>1, NumInput
<1> HIDE DEF x
<1>3. /\ new \in Seq(Sdu) /\ Len(new) = Len(out) + 1
      /\ \A i \in 1..Len(out) : new[i] = out[i]
      /\ new[Len(out) + 1] = x
  BY <1>1, <1>2, AppendProperties
<1> HIDE DEF new
<1>4. ASSUME NEW i \in 1..Len(out)
      PROVE  /\ Num(new[i]) \in 1..Len(h.input) /\ lo <= Num(new[i]) /\ Num(new[i]) < k
             /\ new[i] = h.input[Num(new[i])]
  BY <1>3 DEF Run
<1>5. ASSUME NEW i \in 1..Len(new)
      PROVE  /\ Num(new[i]) \in 1..Len(h.input) /\ lo <= Num(new[i]) /\ Num(new[i]) < k + 1
             /\ new[i] = h.input[Num(new[i])]
  <2>1. CASE i \in 1..Len(out)
    <3>1. Num(new[i]) \in 1..Len(h.input) /\ lo <= Num(new[i]) /\ Num(new[i]) < k
          /\ new[i] = h.input[Num(new[i])]
      BY <1>4, <2>1
    <3>2. QED
      BY <1>2, <3>1
  <2>2. CASE i = Len(out) + 1
    <3>1. new[i] = x /\ Num(new[i]) = k
      BY <1>2, <1>3, <2>2
    <3>2. QED
      BY <1>2, <3>1 DEF x
  <2>3. QED
    BY <1>1, <1>3, <2>1, <2>2
<1>6. ASSUME NEW i \in 1..Len(new), NEW j \in 1..Len(new), i < j PROVE Num(new[i]) < Num(new[j])
  <2>1. i \in 1..Len(out)
    BY <1>1, <1>3, <1>6
  <2>2. CASE j \in 1..Len(out)
    BY <1>3, <1>6, <2>1, <2>2 DEF Run
  <2>3. CASE j = Len(out) + 1
    <3>1. Num(new[j]) = k /\ Num(new[i]) < k
      BY <1>2, <1>3, <1>4, <2>1, <2>3
    <3>2. QED
      BY <3>1
  <2>4. QED
    BY <1>1, <1>3, <2>2, <2>3
<1>7. Run(h, new, lo, k + 1)
  BY <1>3, <1>5, <1>6 DEF Run
<1>8. QED
  BY <1>7 DEF new, x

\* One run may follow another.
LEMMA RunConcat ==
    ASSUME NEW h, Story(h), NEW s, NEW t, NEW lo \in Nat, NEW m \in Nat, NEW hi \in Nat, lo <= m, m <= hi,
           Run(h, s, lo, m), Run(h, t, m, hi)
    PROVE  Run(h, s \o t, lo, hi)
<1> DEFINE u == s \o t
<1>1. s \in Seq(Sdu) /\ t \in Seq(Sdu) /\ Len(s) \in Nat /\ Len(t) \in Nat /\ Len(h.input) \in Nat
  BY LenProperties DEF Run, Story
<1>2. /\ u \in Seq(Sdu) /\ Len(u) = Len(s) + Len(t)
      /\ \A i \in 1..(Len(s) + Len(t)) : u[i] = IF i <= Len(s) THEN s[i] ELSE t[i - Len(s)]
  BY <1>1, ConcatProperties
<1> HIDE DEF u
<1>3. ASSUME NEW i \in 1..Len(s)
      PROVE  /\ u[i] = s[i] /\ Num(s[i]) \in 1..Len(h.input) /\ lo <= Num(s[i]) /\ Num(s[i]) < m
             /\ s[i] = h.input[Num(s[i])]
  <2>1. i \in 1..(Len(s) + Len(t)) /\ i <= Len(s)
    BY <1>1
  <2>2. QED
    BY <1>2, <2>1 DEF Run
<1>4. ASSUME NEW i \in (Len(s) + 1)..Len(u)
      PROVE  /\ i - Len(s) \in 1..Len(t) /\ u[i] = t[i - Len(s)]
             /\ Num(u[i]) \in 1..Len(h.input) /\ m <= Num(u[i]) /\ Num(u[i]) < hi
             /\ u[i] = h.input[Num(u[i])]
  <2>1. i \in 1..(Len(s) + Len(t)) /\ ~(i <= Len(s)) /\ i - Len(s) \in 1..Len(t)
    BY <1>1, <1>2
  <2>2. u[i] = t[i - Len(s)]
    BY <1>2, <2>1
  <2>3. QED
    BY <2>1, <2>2 DEF Run
<1>5. \A i \in 1..Len(u) : i \in 1..Len(s) \/ i \in (Len(s) + 1)..Len(u)
  BY <1>1, <1>2
<1>6. ASSUME NEW i \in 1..Len(u)
      PROVE  /\ Num(u[i]) \in 1..Len(h.input) /\ lo <= Num(u[i]) /\ Num(u[i]) < hi
             /\ u[i] = h.input[Num(u[i])]
  <2>1. CASE i \in 1..Len(s)
    <3>1. u[i] = s[i] /\ Num(s[i]) \in 1..Len(h.input) /\ lo <= Num(s[i]) /\ Num(s[i]) < m
          /\ s[i] = h.input[Num(s[i])]
      BY <1>3, <2>1
    <3>2. QED
      BY <1>1, <3>1
  <2>2. CASE i \in (Len(s) + 1)..Len(u)
    <3>1. /\ Num(u[i]) \in 1..Len(h.input) /\ m <= Num(u[i]) /\ Num(u[i]) < hi
          /\ u[i] = h.input[Num(u[i])]
      BY <1>4, <2>2
    <3>2. QED
      BY <1>1, <3>1
  <2>3. QED
    BY <1>5, <2>1, <2>2
<1>7. ASSUME NEW i \in 1..Len(u), NEW j \in 1..Len(u), i < j PROVE Num(u[i]) < Num(u[j])
  <2>1. CASE j \in 1..Len(s)
    <3>1. i \in 1..Len(s)
      BY <1>1, <1>7, <2>1
    <3>2. u[i] = s[i] /\ u[j] = s[j]
      BY <1>3, <2>1, <3>1
    <3>3. QED
      BY <1>7, <2>1, <3>1, <3>2 DEF Run
  <2>2. CASE i \in (Len(s) + 1)..Len(u)
    <3>1. j \in (Len(s) + 1)..Len(u) /\ i - Len(s) < j - Len(s)
      BY <1>1, <1>2, <1>7, <2>2
    <3>2. i - Len(s) \in 1..Len(t) /\ j - Len(s) \in 1..Len(t) /\ u[i] = t[i - Len(s)] /\ u[j] = t[j - Len(s)]
      BY <1>4, <2>2, <3>1
    <3>3. QED
      BY <3>1, <3>2 DEF Run
  <2>3. CASE i \in 1..Len(s) /\ j \in (Len(s) + 1)..Len(u)
    <3>1. Num(u[i]) \in 1..Len(h.input) /\ Num(u[i]) < m
      BY <1>3, <2>3
    <3>2. Num(u[j]) \in 1..Len(h.input) /\ m <= Num(u[j])
      BY <1>4, <2>3
    <3>3. QED
      BY <1>1, <3>1, <3>2
  <2>4. QED
    BY <1>5, <2>1, <2>2, <2>3
<1>8. Run(h, u, lo, hi)
  BY <1>2, <1>6, <1>7 DEF Run
<1>9. QED
  BY <1>8 DEF u

\* Where segment x of a PDU begins that was cut before at b.
From(b, x) == IF x = 1 /\ b.open THEN b.o ELSE 0

\* Where it ends.
Until(h, p, b, e, x) == IF x = Len(p.segs) THEN e.o ELSE Len(h.input[Floor(b) + x - 1])

\* A PDU carries what was sent between the cuts b and e.
Fits(h, p, b, e) ==
    /\ p.startAligned = ~b.open /\ p.endAligned = ~e.open
    /\ e.k = Floor(b) + Len(p.segs) - 1
    /\ 1 <= Floor(b) /\ e.k <= Len(h.input)
    /\ \A x \in 1..Len(p.segs) :
          /\ From(b, x) <= Until(h, p, b, e, x)
          /\ p.segs[x] = Part(h.by, Floor(b) + x - 1, From(b, x), Until(h, p, b, e, x))
    /\ ~e.open => e.o = Len(h.input[e.k])

\* The bytes that wait for the rest of their SDU are what was sent of it before b.
Joined(h, r, b) == r.sdu # << >> => b.open /\ r.sdu = Part(h.by, b.k, 0, b.o)

\* The numbers of a PDU.
LEMMA FitsNumbers ==
    ASSUME NEW h, Story(h), NEW p \in Pdu, NEW b \in Cuts, NEW e \in Cuts, Fits(h, p, b, e)
    PROVE  /\ Len(p.segs) \in Nat \ {0} /\ p.segs \in Seq(Sdu)
           /\ Floor(b) \in Nat /\ e.k \in Nat /\ e.o \in Nat /\ b.o \in Nat /\ b.k \in Nat
           /\ Floor(b) <= e.k /\ e.k \in 1..Len(h.input) /\ Floor(b) \in 1..Len(h.input)
           /\ Len(h.input) \in Nat /\ e.k <= Floor(e) /\ Floor(e) \in Nat
<1>1. p.segs \in Seq(Sdu) /\ p.segs # << >>
  BY DEF Pdu
<1>2. Len(p.segs) \in Nat \ {0}
  <2> HIDE DEF Sdu
  <2>1. QED
    BY <1>1, EmptySeq
<1>3. Floor(b) \in Nat /\ e.k \in Nat /\ e.o \in Nat /\ b.o \in Nat /\ b.k \in Nat
      /\ Floor(e) \in Nat /\ e.k <= Floor(e)
  BY DEF Cuts, Floor
<1>4. e.k = Floor(b) + Len(p.segs) - 1 /\ 1 <= Floor(b) /\ e.k <= Len(h.input)
  BY DEF Fits
<1>5. Len(h.input) \in Nat
  BY LenProperties DEF Story
<1>6. QED
  BY <1>1, <1>2, <1>3, <1>4, <1>5

\* More than one segment.
LEMMA MoreThanOne ==
    /\ \A n \in Nat : n > 1 => n # 1 /\ n \in 1..n
    /\ \A n \in Nat \ {0} : n # 1 => n > 1 /\ 1 \in 1..(n - 1) /\ n - 1 # 0
OBVIOUS

\* The first segment completes the bytes that wait, or begins an SDU.
LEMMA FirstSegment ==
    ASSUME NEW h, Story(h), NEW p \in Pdu, NEW b \in Cuts, NEW e \in Cuts, Fits(h, p, b, e),
           NEW r \in RxState, Joined(h, r, b), ~Headless(r, p)
    PROVE  /\ r.sdu \o p.segs[1] = Part(h.by, Floor(b), 0, Until(h, p, b, e, 1))
           /\ Len(p.segs) > 1 => r.sdu \o p.segs[1] = h.input[Floor(b)]
<1>1. /\ Len(p.segs) \in Nat \ {0} /\ Floor(b) \in 1..Len(h.input) /\ Floor(b) \in Nat
      /\ b.o \in Nat /\ b.k \in Nat /\ e.o \in Nat /\ Len(h.input) \in Nat
  BY FitsNumbers
<1>2. h.by \in Sender /\ Len(h.input[Floor(b)]) \in Nat
      /\ h.input[Floor(b)] = Part(h.by, Floor(b), 0, Len(h.input[Floor(b)]))
  BY <1>1, NumInput DEF Story
<1>3. Floor(b) + 1 - 1 = Floor(b) /\ 1 \in 1..Len(p.segs)
  BY <1>1
<1>4. PICK t \in Nat : t = Until(h, p, b, e, 1)
  BY <1>1, <1>2, <1>3 DEF Until
<1>5. From(b, 1) <= t /\ p.segs[1] = Part(h.by, Floor(b), From(b, 1), t)
  <2>1. From(b, 1) <= Until(h, p, b, e, 1)
        /\ p.segs[1] = Part(h.by, Floor(b) + 1 - 1, From(b, 1), Until(h, p, b, e, 1))
    BY <1>3 DEF Fits
  <2>2. QED
    BY <1>3, <1>4, <2>1
<1>6. r.sdu \o p.segs[1] = Part(h.by, Floor(b), 0, t)
  <2>1. CASE r.sdu = << >>
    <3>1. ~b.open /\ From(b, 1) = 0
      BY <2>1 DEF Headless, Fits, Cuts, From
    <3>2. p.segs[1] = Part(h.by, Floor(b), 0, t) /\ 0 <= t /\ 0 \in Nat
      BY <1>4, <1>5, <3>1
    <3>3. p.segs[1] \in Sdu
      BY <1>1, <1>2, <1>4, <3>2, PartIsSdu
    <3>4. << >> \o p.segs[1] = p.segs[1]
      BY <3>3, ConcatEmptySeq DEF Sdu
    <3>5. QED
      BY <2>1, <3>2, <3>4
  <2>2. CASE r.sdu # << >>
    <3>1. b.open /\ r.sdu = Part(h.by, b.k, 0, b.o) /\ Floor(b) = b.k /\ From(b, 1) = b.o
      BY <2>2 DEF Joined, Floor, From
    <3>2. 0 \in Nat /\ 0 <= b.o /\ b.o <= t
      BY <1>1, <1>5, <3>1
    <3>3. Part(h.by, b.k, 0, b.o) \o Part(h.by, b.k, b.o, t) = Part(h.by, b.k, 0, t)
      <4>1. PICK a \in Sender, k \in Nat, j \in Nat : a = h.by /\ k = b.k /\ j = b.o
        BY <1>1, <1>2
      <4>2. 0 \in Nat /\ 0 <= j /\ j <= t
        BY <3>2, <4>1
      <4>3. Both(Part(a, k, 0, j), Part(a, k, j, t)) = Part(a, k, 0, t)
        BY <4>2, StartJoins, Zenon
      <4>4. QED
        BY <4>1, <4>3 DEF Both
    <3>4. QED
      BY <1>5, <3>1, <3>3
  <2>3. QED
    BY <2>1, <2>2
<1>7. Len(p.segs) > 1 => t = Len(h.input[Floor(b)])
  <2>1. SUFFICES ASSUME Len(p.segs) > 1 PROVE t = Len(h.input[Floor(b)])
    OBVIOUS
  <2>2. 1 # Len(p.segs)
    BY <1>1, <2>1, MoreThanOne
  <2>3. Until(h, p, b, e, 1) = Len(h.input[Floor(b) + 1 - 1])
    BY <2>2 DEF Until
  <2>4. QED
    BY <1>3, <1>4, <2>3
<1>8. QED
  BY <1>2, <1>4, <1>6, <1>7

\* A segment in the middle is a whole SDU,
LEMMA MiddleSegment ==
    ASSUME NEW h, Story(h), NEW p \in Pdu, NEW b \in Cuts, NEW e \in Cuts, Fits(h, p, b, e),
           NEW x \in 2..(Len(p.segs) - 1)
    PROVE  p.segs[x] = h.input[Floor(b) + x - 1]
<1>1. Len(p.segs) \in Nat \ {0} /\ Floor(b) \in 1..Len(h.input) /\ e.k \in 1..Len(h.input) /\ Len(h.input) \in Nat
  BY FitsNumbers
<1>2. PICK k \in 1..Len(h.input) : k = Floor(b) + x - 1
  <2>1. e.k = Floor(b) + Len(p.segs) - 1
    BY DEF Fits
  <2>2. Floor(b) + x - 1 \in 1..Len(h.input)
    BY <1>1, <2>1
  <2>3. QED
    BY <2>2
<1>3. x \in 1..Len(p.segs) /\ x # 1 /\ x # Len(p.segs)
  BY <1>1
<1>4. From(b, x) = 0 /\ Until(h, p, b, e, x) = Len(h.input[k])
  BY <1>2, <1>3 DEF From, Until
<1>5. p.segs[x] = Part(h.by, Floor(b) + x - 1, From(b, x), Until(h, p, b, e, x))
  BY <1>3 DEF Fits
<1>6. h.input[k] = Part(h.by, k, 0, Len(h.input[k]))
  BY <1>2 DEF Story
<1>7. QED
  BY <1>2, <1>4, <1>5, <1>6

\* and the last of several begins one.
LEMMA LastSegmentBegins ==
    ASSUME NEW h, Story(h), NEW p \in Pdu, NEW b \in Cuts, NEW e \in Cuts, Fits(h, p, b, e),
           Len(p.segs) > 1
    PROVE  << >> \o LastSegment(p) = Part(h.by, e.k, 0, e.o)
<1>1. Len(p.segs) \in Nat \ {0} /\ e.k \in Nat /\ e.o \in Nat /\ Floor(b) \in Nat
  BY FitsNumbers
<1>2. PICK n \in Nat : n = Len(p.segs) /\ n # 1 /\ n \in 1..n
  BY <1>1, MoreThanOne
<1>3. n \in 1..Len(p.segs) /\ From(b, n) = 0 /\ Until(h, p, b, e, n) = e.o /\ Floor(b) + n - 1 = e.k
  <2>1. n \in 1..Len(p.segs) /\ n # 1
    BY <1>2
  <2>2. From(b, n) = 0 /\ Until(h, p, b, e, n) = e.o
    BY <1>2, <2>1 DEF From, Until
  <2>3. e.k = Floor(b) + Len(p.segs) - 1
    BY DEF Fits
  <2>4. QED
    BY <1>2, <2>1, <2>2, <2>3
<1>4. p.segs[n] = Part(h.by, Floor(b) + n - 1, From(b, n), Until(h, p, b, e, n))
  BY <1>3 DEF Fits
<1>5. LastSegment(p) = Part(h.by, e.k, 0, e.o)
  BY <1>2, <1>3, <1>4 DEF LastSegment
<1>6. LastSegment(p) \in Sdu
  BY Segments
<1>7. << >> \o LastSegment(p) = LastSegment(p)
  BY <1>6, ConcatEmptySeq DEF Sdu
<1>8. QED
  BY <1>5, <1>7

-------------------------------------------------------------------------------
(* Reassembly of one PDU.                                                     *)

\* A segment that completes SDU k, delivered or dropped.
LEMMA SegmentTurn ==
    ASSUME NEW h, Story(h), NEW q \in RxState, NEW seg \in Sdu, NEW lo \in Nat,
           NEW k \in 1..Len(h.input), lo <= k, Run(h, q.out, lo, k), q.sdu \o seg = h.input[k]
    PROVE  /\ Deliver(Add(q, seg)).sdu = << >> /\ Run(h, Deliver(Add(q, seg)).out, lo, k + 1)
           /\ Drop(Add(q, seg)).sdu = << >> /\ Run(h, Drop(Add(q, seg)).out, lo, k + 1)
           /\ InOrderSegment(q, seg).sdu = << >> /\ Run(h, InOrderSegment(q, seg).out, lo, k + 1)
<1>1. k \in Nat /\ k + 1 \in Nat /\ k <= k + 1 /\ lo <= lo
  BY NumInput
<1>2. Run(h, Append(q.out, h.input[k]), lo, k + 1)
  BY RunAppend
<1>3. Run(h, q.out, lo, k + 1)
  BY <1>1, RunWiden
<1>4. Add(q, seg).sdu = h.input[k] /\ Add(q, seg).out = q.out
  BY DEF Add, RxState
<1>5. Add(q, seg) = [q EXCEPT !.sdu = h.input[k]]
  BY DEF Add
<1>6. /\ Deliver(Add(q, seg)).sdu = << >> /\ Deliver(Add(q, seg)).out = Append(q.out, h.input[k])
      /\ Drop(Add(q, seg)).sdu = << >> /\ Drop(Add(q, seg)).out = q.out
  BY <1>5 DEF Deliver, Drop, RxState
<1>7. /\ InOrderSegment(q, seg).sdu = << >> /\ InOrderSegment(q, seg).out = Append(q.out, h.input[k])
  BY <1>5 DEF Deliver, InOrderSegment, RxState
<1>8. QED
  BY <1>2, <1>3, <1>6, <1>7

\* Segments that complete the SDUs from number m.
Completing(h, r, segs, m) ==
    /\ segs \in Seq(Sdu) /\ segs # << >>
    /\ m \in Nat \ {0} /\ m + Len(segs) - 1 <= Len(h.input)
    /\ r.sdu \o segs[1] = h.input[m]
    /\ \A x \in 2..Len(segs) : segs[x] = h.input[m + x - 1]

\* What may have become of r after k of them.
Completed(h, r, lo, m, k) ==
    {q \in Beside(r) : (k = 0 => q = r) /\ (k # 0 => q.sdu = << >>) /\ Run(h, q.out, lo, m + k)}

\* A turn of either loop completes the next of them.
LEMMA CompletingTurn ==
    ASSUME NEW h, Story(h), NEW r \in RxState, NEW p, NEW segs, NEW m, Completing(h, r, segs, m),
           NEW lo \in Nat, lo <= m, NEW k \in 0..(Len(segs) - 1), NEW v \in Completed(h, r, lo, m, k)
    PROVE  /\ LowerSegment(v, p, segs[k + 1]) \in Completed(h, r, lo, m, k + 1)
           /\ InOrderSegment(v, segs[k + 1]) \in Completed(h, r, lo, m, k + 1)
<1>1. Len(segs) \in Nat /\ segs \in Seq(Sdu) /\ m \in Nat \ {0} /\ m + Len(segs) - 1 <= Len(h.input)
      /\ Len(h.input) \in Nat
  BY LenProperties DEF Completing, Story
<1>2. PICK seg \in Sdu : seg = segs[k + 1]
  <2>1. k + 1 \in 1..Len(segs)
    BY <1>1
  <2>2. QED
    BY <1>1, <2>1, ElementOfSeq
<1>3. PICK x \in 1..Len(h.input) : x = m + k /\ lo <= x
  <2>1. m + k \in 1..Len(h.input) /\ lo <= m + k
    BY <1>1
  <2>2. QED
    BY <2>1
<1>4. v \in Beside(r) /\ v \in RxState /\ Run(h, v.out, lo, x)
  BY <1>3 DEF Completed, Beside
<1>5. v.sdu \o seg = h.input[x]
  <2>1. CASE k = 0
    <3>1. v = r /\ seg = segs[1] /\ x = m
      BY <1>1, <1>2, <1>3, <2>1 DEF Completed
    <3>2. QED
      BY <3>1 DEF Completing
  <2>2. CASE k # 0
    <3>1. v.sdu = << >> /\ k + 1 \in 2..Len(segs) /\ m + (k + 1) - 1 = m + k
      BY <1>1, <2>2 DEF Completed
    <3>2. segs[k + 1] = h.input[m + (k + 1) - 1]
      BY <3>1 DEF Completing
    <3>3. << >> \o seg = seg
      BY <1>2, ConcatEmptySeq DEF Sdu
    <3>4. QED
      BY <1>2, <1>3, <3>1, <3>2, <3>3
  <2>3. QED
    BY <2>1, <2>2
<1>6. /\ Deliver(Add(v, seg)).sdu = << >> /\ Run(h, Deliver(Add(v, seg)).out, lo, x + 1)
      /\ Drop(Add(v, seg)).sdu = << >> /\ Run(h, Drop(Add(v, seg)).out, lo, x + 1)
      /\ InOrderSegment(v, seg).sdu = << >> /\ Run(h, InOrderSegment(v, seg).out, lo, x + 1)
  BY <1>2, <1>3, <1>4, <1>5, SegmentTurn
<1>7. LowerSegment(v, p, seg) \in {Deliver(Add(v, seg)), Drop(Add(v, seg))}
  BY DEF LowerSegment
<1>8. LowerSegment(v, p, seg).sdu = << >> /\ Run(h, LowerSegment(v, p, seg).out, lo, x + 1)
  BY <1>6, <1>7, Zenon
<1>9. LowerSegment(v, p, seg) \in Beside(r) /\ InOrderSegment(v, seg) \in Beside(r)
  <2>1. Deliver(Add(v, seg)) \in Beside(r) /\ Drop(Add(v, seg)) \in Beside(r)
    BY <1>2, <1>4, AddBeside, DeliverBeside
  <2>2. QED
    BY <1>2, <1>4, <1>7, <2>1, InOrderSegmentBeside
<1>10. k + 1 # 0 /\ m + (k + 1) = x + 1
  BY <1>1, <1>3
<1>11. QED
  BY <1>2, <1>6, <1>8, <1>9, <1>10 DEF Completed

\* Both loops over the middle segments complete all of them.
LEMMA SegmentsComplete ==
    ASSUME NEW h, Story(h), NEW r \in RxState, NEW p, NEW segs, NEW m, Completing(h, r, segs, m),
           NEW lo \in Nat, lo <= m, Run(h, r.out, lo, m)
    PROVE  /\ LowerSegments(r, p, segs) \in Completed(h, r, lo, m, Len(segs))
           /\ InOrderSegments(r, segs) \in Completed(h, r, lo, m, Len(segs))
           /\ Len(segs) \in Nat \ {0}
<1> DEFINE n == Len(segs)
           J == [k \in 0..n |-> Completed(h, r, lo, m, k)]
<1>1. n \in Nat \ {0} /\ segs \in Seq(Sdu) /\ m \in Nat
  <2> HIDE DEF Sdu
  <2>1. segs \in Seq(Sdu) /\ segs # << >> /\ m \in Nat \ {0}
    BY DEF Completing
  <2>2. QED
    BY <2>1, EmptySeq
<1>2. r \in Beside(r)
  BY DEF Beside
<1>3. r \in J[0] /\ \A k \in 0..n : J[k] \subseteq Beside(r)
  <2>1. r \in Completed(h, r, lo, m, 0)
    <3>1. m + 0 = m
      BY <1>1
    <3>2. QED
      BY <1>2, <3>1 DEF Completed
  <2>2. QED
    BY <1>1, <2>1 DEF Completed
<1>4. ASSUME NEW k \in 0..(n - 1), NEW v \in J[k]
      PROVE  LowerSegment(v, p, segs[k + 1]) \in J[k + 1] /\ InOrderSegment(v, segs[k + 1]) \in J[k + 1]
  <2>1. k \in 0..n /\ k + 1 \in 0..n
    BY <1>1
  <2>2. v \in Completed(h, r, lo, m, k)
    BY <2>1
  <2>3. /\ LowerSegment(v, p, segs[k + 1]) \in Completed(h, r, lo, m, k + 1)
        /\ InOrderSegment(v, segs[k + 1]) \in Completed(h, r, lo, m, k + 1)
    BY <2>2, CompletingTurn
  <2>4. QED
    BY <2>1, <2>3
<1>5. J[n] = Completed(h, r, lo, m, n)
  BY <1>1
<1> HIDE DEF J
<1>6. LowerSegments(r, p, segs) \in J[n]
  BY <1>1, <1>3, <1>4, LowerSegmentsFold
<1>7. InOrderSegments(r, segs) \in J[n]
  BY <1>1, <1>2, <1>3, <1>4, InOrderSegmentsFold
<1>8. QED
  BY <1>1, <1>5, <1>6, <1>7

\* Without a middle segment nothing happens.
LEMMA NoSegments ==
    ASSUME NEW r \in RxState, NEW p
    PROVE  LowerSegments(r, p, << >>) = r /\ InOrderSegments(r, << >>) = r
<1> DEFINE segs == << >>
           J == [k \in {0} |-> {r}]
<1> HIDE DEF Sdu
<1>1. segs \in Seq(Sdu) /\ Len(segs) = 0
  BY EmptySeq
<1>2. r \in Beside(r)
  BY DEF Beside
<1>3. \A k \in 0..Len(segs) : J[k] \subseteq Beside(r)
  BY <1>1, <1>2
<1>4. r \in J[0] /\ J[Len(segs)] = {r}
  BY <1>1
<1>5. \A k \in 0..(Len(segs) - 1) : FALSE
  BY <1>1
<1> HIDE DEF J, segs
<1>6. LowerSegments(r, p, segs) \in J[Len(segs)]
  BY <1>1, <1>3, <1>4, <1>5, LowerSegmentsFold
<1>7. InOrderSegments(r, segs) \in J[Len(segs)]
  BY <1>1, <1>2, <1>3, <1>4, <1>5, InOrderSegmentsFold
<1>8. QED
  BY <1>4, <1>6, <1>7 DEF segs

-------------------------------------------------------------------------------
(* What one PDU does to the SDUs.                                             *)

\* The segments before the last one, and those of them before which one is left out.
LEMMA MiddleLengths ==
    ASSUME NEW p \in Pdu, NEW n \in Nat \ {0}
    PROVE  n = Len(p.segs) =>
           /\ MiddleSegments(p) \in Seq(Sdu) /\ Len(MiddleSegments(p)) = n - 1
           /\ \A x \in 1..(n - 1) : MiddleSegments(p)[x] = p.segs[x]
           /\ MiddleSegments(p) = << >> <=> n = 1
           /\ MiddleSegments(p) # << >> =>
                 /\ Tail(MiddleSegments(p)) \in Seq(Sdu) /\ Len(Tail(MiddleSegments(p))) = n - 2
                 /\ \A x \in 1..(n - 2) : Tail(MiddleSegments(p))[x] = p.segs[x + 1]
                 /\ Tail(MiddleSegments(p)) = << >> <=> n = 2
<1> DEFINE m == MiddleSegments(p)
<1> HIDE DEF Sdu, m
<1>0. SUFFICES ASSUME n = Len(p.segs)
               PROVE  /\ m \in Seq(Sdu) /\ Len(m) = n - 1
                      /\ \A x \in 1..(n - 1) : m[x] = p.segs[x]
                      /\ m = << >> <=> n = 1
                      /\ m # << >> =>
                            /\ Tail(m) \in Seq(Sdu) /\ Len(Tail(m)) = n - 2
                            /\ \A x \in 1..(n - 2) : Tail(m)[x] = p.segs[x + 1]
                            /\ Tail(m) = << >> <=> n = 2
  BY DEF m
<1>1. p.segs \in Seq(Sdu)
  BY DEF Pdu
<1>2. \A i \in 1..(n - 1) : p.segs[i] \in Sdu
  <2>1. \A i \in 1..n : p.segs[i] \in Sdu
    BY <1>0, <1>1, ElementOfSeq
  <2>2. QED
    BY <2>1
<1>3. m \in Seq(Sdu) /\ Len(m) = n - 1 /\ \A x \in 1..(n - 1) : m[x] = p.segs[x]
  <2>1. PICK k \in Nat : k = n - 1
    OBVIOUS
  <2>2. 1 \in Int /\ k \in Int
    BY <2>1
  <2>3. \A i \in 1..k : p.segs[i] \in Sdu
    BY <1>2, <2>1
  <2>4. /\ SubSeq(p.segs, 1, k) \in Seq(Sdu)
        /\ Len(SubSeq(p.segs, 1, k)) = IF 1 <= k THEN k - 1 + 1 ELSE 0
        /\ \A i \in 1..(k - 1 + 1) : SubSeq(p.segs, 1, k)[i] = p.segs[1 + i - 1]
    BY <2>2, <2>3, SubSeqProperties
  <2>5. k - 1 + 1 = k /\ (~(1 <= k) => k = 0) /\ \A i \in 1..k : 1 + i - 1 = i
    BY <2>1
  <2>6. m = SubSeq(p.segs, 1, k)
    BY <1>0, <2>1 DEF MiddleSegments, m
  <2>7. Len(m) = k /\ m \in Seq(Sdu) /\ \A i \in 1..k : m[i] = p.segs[i]
    BY <2>1, <2>4, <2>5, <2>6
  <2>8. QED
    BY <2>1, <2>7
<1>4. m = << >> <=> n = 1
  BY <1>3, EmptySeq
<1>5. ASSUME m # << >>
      PROVE  /\ Tail(m) \in Seq(Sdu) /\ Len(Tail(m)) = n - 2
             /\ \A x \in 1..(n - 2) : Tail(m)[x] = p.segs[x + 1]
             /\ Tail(m) = << >> <=> n = 2
  <2>1. Tail(m) \in Seq(Sdu) /\ Len(Tail(m)) = n - 2 /\ \A x \in 1..(n - 2) : Tail(m)[x] = m[x + 1]
    BY <1>3, <1>5, HeadTailProperties
  <2>2. \A x \in 1..(n - 2) : x + 1 \in 1..(n - 1)
    OBVIOUS
  <2>3. Tail(m) = << >> <=> n = 2
    <3>1. Tail(m) = << >> <=> Len(Tail(m)) = 0
      BY <2>1, EmptySeq
    <3>2. n - 2 = 0 <=> n = 2
      OBVIOUS
    <3>3. QED
      BY <2>1, <3>1, <3>2
  <2>4. QED
    BY <1>3, <2>1, <2>2, <2>3
<1>6. QED
  BY <1>3, <1>4, <1>5

\* The end of a PDU that ended at e: either its last SDU is complete, or its beginning waits with
\* the number x of the PDU.
Closed(h, q, e, lo, x) ==
    /\ Run(h, q.out, lo, Floor(e))
    /\ q.sdu # << >> => e.open /\ q.sdu = Part(h.by, e.k, 0, e.o) /\ q.inSdu = x

\* The last segment closes a PDU.
LEMMA LastCloses ==
    ASSUME NEW h, Story(h), NEW p \in Pdu, NEW b \in Cuts, NEW e \in Cuts, Fits(h, p, b, e),
           NEW mid \in RxState, NEW lo \in Nat, lo <= e.k, Run(h, mid.out, lo, e.k),
           mid.sdu \o LastSegment(p) = Part(h.by, e.k, 0, e.o), NEW x \in Sn
    PROVE  Closed(h, CloseLast([Add(mid, LastSegment(p)) EXCEPT !.inSdu = x], p), e, lo, x)
<1> DEFINE q == [Add(mid, LastSegment(p)) EXCEPT !.inSdu = x]
<1>1. e.k \in 1..Len(h.input) /\ e.k \in Nat
  BY FitsNumbers
<1>2. q.sdu = Part(h.by, e.k, 0, e.o) /\ q.out = mid.out /\ q.inSdu = x
  BY DEF Add, RxState
<1>3. q \in RxState
  BY InSduBeside, AddBeside, Segments DEF Beside
<1> HIDE DEF q
<1>4. p.endAligned = ~e.open
  BY DEF Fits
<1>5. CASE ~p.endAligned
  <2>1. CloseLast(q, p) = q
    BY <1>5 DEF CloseLast
  <2>2. e.open /\ Floor(e) = e.k
    BY <1>4, <1>5 DEF Floor, Cuts
  <2>3. QED
    BY <1>2, <2>1, <2>2 DEF Closed, q
<1>6. CASE p.endAligned
  <2>1. ~e.open /\ Floor(e) = e.k + 1
    BY <1>4, <1>6 DEF Floor
  <2>2. q.sdu = h.input[e.k]
    <3>1. e.o = Len(h.input[e.k])
      BY <2>1 DEF Fits
    <3>2. QED
      BY <1>1, <1>2, <3>1 DEF Story
  <2>3. CloseLast(q, p) \in {Deliver(q), Drop(q)}
    BY <1>6 DEF CloseLast
  <2>4. Run(h, Append(mid.out, h.input[e.k]), lo, e.k + 1) /\ Run(h, mid.out, lo, e.k + 1)
    <3>1. Run(h, Append(mid.out, h.input[e.k]), lo, e.k + 1)
      BY <1>1, RunAppend
    <3>2. PICK k \in Nat : k = e.k /\ k <= k + 1 /\ k + 1 \in Nat
      BY <1>1
    <3>3. Run(h, mid.out, lo, k + 1)
      BY <3>2, RunWiden
    <3>4. QED
      BY <3>1, <3>2, <3>3
  <2>5. /\ Deliver(q).sdu = << >> /\ Deliver(q).out = Append(mid.out, h.input[e.k])
        /\ Drop(q).sdu = << >> /\ Drop(q).out = mid.out
    BY <1>2, <1>3, <2>2 DEF Deliver, Drop, RxState
  <2>6. CloseLast(q, p).sdu = << >> /\ Run(h, CloseLast(q, p).out, lo, e.k + 1)
    BY <2>3, <2>4, <2>5, Zenon
  <2>7. QED
    BY <2>1, <2>6 DEF Closed, q
<1>7. QED
  BY <1>5, <1>6

\* A PDU that adds nothing closes without anything that waits.
LEMMA NothingCloses ==
    ASSUME NEW h, Story(h), NEW p \in Pdu, NEW b \in Cuts, NEW e \in Cuts, Fits(h, p, b, e),
           NEW q, q.sdu = << >>, NEW lo \in Nat, NEW m \in Nat, lo <= m, m <= e.k, Run(h, q.out, lo, m),
           NEW x
    PROVE  Closed(h, q, e, lo, x)
<1>1. e.k \in Nat /\ Floor(e) \in Nat /\ e.k <= Floor(e)
  BY FitsNumbers
<1>2. lo <= lo /\ m <= Floor(e)
  BY <1>1
<1>3. Run(h, q.out, lo, Floor(e))
  BY <1>1, <1>2, RunWiden
<1>4. QED
  BY <1>3 DEF Closed

\* The middle segments of a PDU complete the SDUs from the first one on.
LEMMA ManyComplete ==
    ASSUME NEW h, Story(h), NEW p \in Pdu, NEW b \in Cuts, NEW e \in Cuts, Fits(h, p, b, e),
           NEW r \in RxState, Joined(h, r, b), ~Headless(r, p), NEW n \in Nat \ {0}
    PROVE  n = Len(p.segs) /\ n # 1 => Completing(h, r, MiddleSegments(p), Floor(b))
<1> DEFINE segs == MiddleSegments(p)
           f == Floor(b)
<1>1. SUFFICES ASSUME n = Len(p.segs), n # 1 PROVE Completing(h, r, segs, f)
  OBVIOUS
<1>2. f \in 1..Len(h.input) /\ f \in Nat \ {0} /\ Len(h.input) \in Nat /\ e.k <= Len(h.input) /\ e.k = f + n - 1
  BY <1>1, FitsNumbers DEF Fits
<1>3. /\ segs \in Seq(Sdu) /\ Len(segs) = n - 1 /\ \A x \in 1..(n - 1) : segs[x] = p.segs[x]
      /\ segs # << >>
  BY <1>1, MiddleLengths
<1>4. r.sdu \o segs[1] = h.input[f]
  <2>1. Len(p.segs) > 1 /\ 1 \in 1..(n - 1)
    <3>1. n > 1 /\ 1 \in 1..(n - 1)
      BY <1>1, MoreThanOne, Zenon
    <3>2. QED
      BY <1>1, <3>1
  <2>2. r.sdu \o p.segs[1] = h.input[f]
    BY <2>1, FirstSegment
  <2>3. QED
    BY <1>3, <2>1, <2>2
<1>5. ASSUME NEW x \in 2..Len(segs) PROVE segs[x] = h.input[f + x - 1]
  <2>1. x \in 1..(n - 1) /\ x \in 2..(Len(p.segs) - 1)
    BY <1>1, <1>3
  <2>2. QED
    BY <1>3, <2>1, MiddleSegment
<1>6. f + Len(segs) - 1 <= Len(h.input)
  BY <1>2, <1>3
<1> HIDE DEF segs, f
<1>7. QED
  BY <1>2, <1>3, <1>4, <1>5, <1>6 DEF Completing

\* The first loop reassembles the PDU at the lower edge, or passes over it.
LEMMA LowerEdgeCloses ==
    ASSUME NEW h, Story(h), NEW p \in Pdu, NEW b \in Cuts, NEW e \in Cuts, Fits(h, p, b, e),
           NEW r \in RxState, Joined(h, r, b), NEW lo \in Nat, lo <= Floor(b), Run(h, r.out, lo, Floor(b))
    PROVE  Closed(h, LowerEdgePdu(r, p), e, lo, r.ur)
<1> DEFINE segs == MiddleSegments(p)
           mid == IF Headless(r, p) THEN r ELSE LowerSegments(r, p, segs)
           f == Floor(b)
<1>1. /\ f \in Nat /\ f <= e.k /\ f \in 1..Len(h.input) /\ e.k \in Nat /\ e.k <= Len(h.input)
      /\ r.ur \in Sn
  BY FitsNumbers DEF RxState
<1>2. PICK n \in Nat \ {0} : n = Len(p.segs) /\ e.k = f + n - 1
  BY FitsNumbers DEF Fits
<1>3. /\ segs \in Seq(Sdu) /\ Len(segs) = n - 1 /\ \A x \in 1..(n - 1) : segs[x] = p.segs[x]
      /\ segs = << >> <=> n = 1
  BY <1>2, MiddleLengths
<1>4. LowerEdgePdu(r, p) = IF mid.sdu # << >> \/ p.startAligned
                          THEN CloseLast([Add(mid, LastSegment(p)) EXCEPT !.inSdu = r.ur], p) ELSE mid
  BY DEF LowerEdgePdu
<1>5. CASE Headless(r, p)
  <2>1. mid = r /\ r.sdu = << >> /\ ~p.startAligned
    BY <1>5 DEF Headless
  <2>2. LowerEdgePdu(r, p) = r
    BY <1>4, <2>1
  <2>3. QED
    BY <1>1, <2>1, <2>2, NothingCloses
<1>6. CASE ~Headless(r, p) /\ n = 1
  <2>1. segs = << >> /\ LowerSegments(r, p, << >>) = r
    BY <1>3, <1>6, NoSegments
  <2>2. mid = r /\ (r.sdu # << >> \/ p.startAligned)
    BY <1>6, <2>1 DEF Headless
  <2>3. LowerEdgePdu(r, p) = CloseLast([Add(r, LastSegment(p)) EXCEPT !.inSdu = r.ur], p)
    BY <1>4, <2>2
  <2>4. f = e.k /\ LastSegment(p) = p.segs[1] /\ Until(h, p, b, e, 1) = e.o
    BY <1>1, <1>2, <1>6 DEF LastSegment, Until
  <2>5. r.sdu \o LastSegment(p) = Part(h.by, e.k, 0, e.o)
    <3>1. r.sdu \o p.segs[1] = Part(h.by, Floor(b), 0, Until(h, p, b, e, 1))
      BY <1>6, FirstSegment
    <3>2. QED
      BY <2>4, <3>1
  <2>6. QED
    BY <1>1, <2>3, <2>4, <2>5, LastCloses
<1>7. CASE ~Headless(r, p) /\ n # 1
  <2>1. mid = LowerSegments(r, p, segs)
    BY <1>7
  <2>2. Completing(h, r, segs, f)
    BY <1>2, <1>7, ManyComplete
  <2>3. mid \in Completed(h, r, lo, f, Len(segs)) /\ Len(segs) \in Nat \ {0}
    BY <2>1, <2>2, SegmentsComplete
  <2>4. mid \in RxState /\ mid.sdu = << >> /\ Run(h, mid.out, lo, e.k)
    BY <1>1, <1>2, <1>3, <2>3 DEF Completed, Beside
  <2> HIDE DEF mid
  <2>5. CASE p.startAligned
    <3>1. LowerEdgePdu(r, p) = CloseLast([Add(mid, LastSegment(p)) EXCEPT !.inSdu = r.ur], p)
      BY <1>4, <2>5
    <3>2. << >> \o LastSegment(p) = Part(h.by, e.k, 0, e.o)
      <4>1. n > 1
        BY <1>7, MoreThanOne, Zenon
      <4>2. Len(p.segs) > 1
        BY <1>2, <4>1
      <4>3. QED
        BY <4>2, LastSegmentBegins
    <3>3. mid.sdu \o LastSegment(p) = Part(h.by, e.k, 0, e.o)
      BY <2>4, <3>2, Zenon
    <3>4. lo <= e.k
      BY <1>1
    <3>5. QED
      BY <1>1, <2>4, <3>1, <3>3, <3>4, LastCloses
  <2>6. CASE ~p.startAligned
    <3>1. LowerEdgePdu(r, p) = mid
      BY <1>4, <2>4, <2>6
    <3>2. QED
      BY <1>1, <2>4, <3>1, NothingCloses
  <2>7. QED
    BY <2>5, <2>6
<1>8. QED
  BY <1>5, <1>6, <1>7

\* The second loop reassembles the PDU next in order: bytes that do not belong to it are dropped.
LEMMA InOrderCloses ==
    ASSUME NEW h, Story(h), NEW p \in Pdu, NEW b \in Cuts, NEW e \in Cuts, Fits(h, p, b, e),
           NEW r0 \in RxState, PduBelongsToRxSdu(r0) => Joined(h, r0, b),
           NEW lo \in Nat, lo <= Floor(b), Run(h, r0.out, lo, Floor(b))
    PROVE  Closed(h, InOrderPdu(r0, p), e, lo, r0.ur)
<1> DEFINE r == IF PduBelongsToRxSdu(r0) THEN r0 ELSE Drop(r0)
           segs == MiddleSegments(p)
           mid == IF segs = << >> THEN r
                  ELSE IF Headless(r, p) THEN InOrderSegments(Drop(r), Tail(segs))
                  ELSE InOrderSegments(r, segs)
           f == Floor(b)
<1>1. /\ f \in Nat /\ f <= e.k /\ f \in 1..Len(h.input) /\ e.k \in Nat /\ e.k <= Len(h.input)
      /\ r0.ur \in Sn /\ Len(h.input) \in Nat /\ lo <= e.k /\ f <= f
  <2>1. /\ f \in Nat /\ f <= e.k /\ f \in 1..Len(h.input) /\ e.k \in Nat /\ e.k <= Len(h.input)
        /\ r0.ur \in Sn /\ Len(h.input) \in Nat
    BY FitsNumbers DEF RxState
  <2>2. QED
    BY <2>1
<1>2. PICK n \in Nat \ {0} : n = Len(p.segs) /\ e.k = f + n - 1
  BY FitsNumbers DEF Fits
<1>3. /\ segs \in Seq(Sdu) /\ Len(segs) = n - 1 /\ \A x \in 1..(n - 1) : segs[x] = p.segs[x]
      /\ segs = << >> <=> n = 1
  BY <1>2, MiddleLengths
<1>4. r0 \in Beside(r0) /\ Drop(r0) \in Beside(r0) /\ Drop(r0).sdu = << >> /\ Drop(r0).out = r0.out
  <2>1. r0 \in Beside(r0)
    BY DEF Beside
  <2>2. Drop(r0).sdu = << >> /\ Drop(r0).out = r0.out
    BY DEF Drop, RxState
  <2>3. QED
    BY <2>1, <2>2, DeliverBeside
<1>5. r \in RxState /\ r.ur = r0.ur /\ r.out = r0.out /\ Joined(h, r, b)
  <2>1. r \in Beside(r0)
    BY <1>4
  <2>2. r.out = r0.out /\ Joined(h, r, b)
    BY <1>4 DEF Joined
  <2>3. QED
    BY <2>1, <2>2 DEF Beside
<1>6. InOrderPdu(r0, p) = IF segs = << >> /\ Headless(r, p) THEN r
                         ELSE CloseLast([Add(mid, LastSegment(p)) EXCEPT !.inSdu = r.ur], p)
  BY DEF InOrderPdu
<1> HIDE DEF r
<1>7. CASE Headless(r, p) /\ n = 1
  <2>1. InOrderPdu(r0, p) = r /\ r.sdu = << >>
    BY <1>3, <1>6, <1>7 DEF Headless
  <2>2. QED
    BY <1>1, <1>5, <2>1, NothingCloses
<1>8. CASE ~Headless(r, p) /\ n = 1
  <2>1. InOrderPdu(r0, p) = CloseLast([Add(r, LastSegment(p)) EXCEPT !.inSdu = r0.ur], p)
    BY <1>3, <1>5, <1>6, <1>8
  <2>2. f = e.k /\ LastSegment(p) = p.segs[1] /\ Until(h, p, b, e, 1) = e.o
    BY <1>1, <1>2, <1>8 DEF LastSegment, Until
  <2>3. r.sdu \o LastSegment(p) = Part(h.by, e.k, 0, e.o)
    <3>1. r.sdu \o p.segs[1] = Part(h.by, Floor(b), 0, Until(h, p, b, e, 1))
      BY <1>5, <1>8, FirstSegment
    <3>2. QED
      BY <2>2, <3>1
  <2>4. Run(h, r.out, lo, e.k)
    BY <1>5, <2>2
  <2>5. QED
    BY <1>1, <1>5, <2>1, <2>3, <2>4, LastCloses
<1>9. CASE n # 1
  <2>1. n > 1 /\ Len(p.segs) > 1 /\ segs # << >>
    <3>1. n > 1
      BY <1>9, MoreThanOne, Zenon
    <3>2. QED
      BY <1>2, <1>3, <1>9, <3>1
  <2>2. InOrderPdu(r0, p) = CloseLast([Add(mid, LastSegment(p)) EXCEPT !.inSdu = r0.ur], p)
    BY <1>5, <1>6, <2>1
  <2>3. mid \in RxState /\ mid.sdu = << >> /\ Run(h, mid.out, lo, e.k)
    <3>1. CASE ~Headless(r, p)
      <4>1. mid = InOrderSegments(r, segs)
        BY <2>1, <3>1
      <4>2. Completing(h, r, segs, f)
        BY <1>2, <1>5, <1>9, <3>1, ManyComplete
      <4>3. Run(h, r.out, lo, f) /\ lo <= f /\ r \in RxState
        BY <1>5
      <4>4. mid \in Completed(h, r, lo, f, Len(segs)) /\ Len(segs) \in Nat \ {0}
        BY <4>1, <4>2, <4>3, SegmentsComplete
      <4>5. QED
        BY <1>1, <1>2, <1>3, <4>4 DEF Completed, Beside
    <3>2. CASE Headless(r, p)
      <4>1. mid = InOrderSegments(Drop(r), Tail(segs))
        BY <2>1, <3>2
      <4>2. Drop(r) \in RxState /\ Drop(r).sdu = << >> /\ Drop(r).out = r.out
        <5>1. r \in Beside(r)
          BY <1>5 DEF Beside
        <5>2. Drop(r) \in RxState
          BY <1>5, <5>1, DeliverBeside DEF Beside
        <5>3. QED
          BY <1>5, <5>2 DEF Drop, RxState
      <4>3. f + 1 \in Nat /\ f <= f + 1 /\ lo <= f + 1 /\ lo <= lo /\ f + 1 <= e.k /\ f + 1 \in Nat \ {0}
        BY <1>1, <1>2, <2>1
      <4>4. Run(h, Drop(r).out, lo, f + 1)
        BY <1>1, <1>5, <4>2, <4>3, RunWiden
      <4>5. /\ Tail(segs) \in Seq(Sdu) /\ Len(Tail(segs)) = n - 2
            /\ \A x \in 1..(n - 2) : Tail(segs)[x] = p.segs[x + 1]
            /\ Tail(segs) = << >> <=> n = 2
        BY <1>2, <2>1, MiddleLengths
      <4>6. CASE n = 2
        <5>1. mid = Drop(r)
          BY <4>1, <4>2, <4>5, <4>6, NoSegments
        <5>2. e.k = f + 1
          BY <1>1, <1>2, <4>6
        <5>3. QED
          BY <4>2, <4>4, <5>1, <5>2
      <4>7. CASE n # 2
        <5>1. n > 2 /\ 1 \in 1..(n - 2) /\ 2 \in 2..(n - 1) /\ n - 2 # 0
          BY <2>1, <4>7
        <5>2. \A x \in 1..(n - 2) : Tail(segs)[x] = h.input[f + x]
          <6>1. ASSUME NEW x \in 1..(n - 2) PROVE Tail(segs)[x] = h.input[f + x]
            <7>1. x + 1 \in 2..(n - 1) /\ f + (x + 1) - 1 = f + x
              BY <1>1
            <7>2. x + 1 \in 2..(Len(p.segs) - 1)
              BY <1>2, <7>1
            <7>3. p.segs[x + 1] = h.input[f + (x + 1) - 1]
              BY <7>2, MiddleSegment
            <7>4. QED
              BY <4>5, <7>1, <7>3
          <6>2. QED
            BY <6>1
        <5>3. Completing(h, Drop(r), Tail(segs), f + 1)
          <6>1. Tail(segs)[1] = h.input[f + 1] /\ h.input[f + 1] \in Sdu
            <7>1. f + 1 \in 1..Len(h.input)
              BY <1>1, <4>3
            <7>2. QED
              BY <5>1, <5>2, <7>1, NumInput
          <6>2. Drop(r).sdu \o Tail(segs)[1] = h.input[f + 1]
            <7>1. << >> \o h.input[f + 1] = h.input[f + 1]
              BY <6>1, ConcatEmptySeq DEF Sdu
            <7>2. QED
              BY <4>2, <6>1, <7>1
          <6>3. (f + 1) + Len(Tail(segs)) - 1 <= Len(h.input)
            BY <1>1, <1>2, <4>5
          <6>4. ASSUME NEW x \in 2..Len(Tail(segs)) PROVE Tail(segs)[x] = h.input[(f + 1) + x - 1]
            <7>1. x \in 1..(n - 2) /\ (f + 1) + x - 1 = f + x
              BY <1>1, <4>5
            <7>2. QED
              BY <5>2, <7>1
          <6>5. QED
            BY <4>3, <4>5, <4>7, <6>2, <6>3, <6>4 DEF Completing
        <5>4. mid \in Completed(h, Drop(r), lo, f + 1, Len(Tail(segs))) /\ Len(Tail(segs)) \in Nat \ {0}
          BY <4>1, <4>2, <4>3, <4>4, <5>3, SegmentsComplete
        <5>5. (f + 1) + Len(Tail(segs)) = e.k
          <6>1. PICK l \in Int : l = Len(Tail(segs)) /\ l = n - 2
            BY <4>5
          <6>2. (f + 1) + l = f + n - 1
            BY <1>1, <6>1
          <6>3. QED
            BY <1>2, <6>1, <6>2
        <5>6. QED
          BY <5>4, <5>5 DEF Completed, Beside
      <4>8. QED
        BY <4>6, <4>7
    <3>3. QED
      BY <3>1, <3>2
  <2> HIDE DEF mid
  <2>4. << >> \o LastSegment(p) = Part(h.by, e.k, 0, e.o)
    BY <2>1, LastSegmentBegins
  <2>5. mid.sdu \o LastSegment(p) = Part(h.by, e.k, 0, e.o)
    BY <2>3, <2>4, Zenon
  <2>6. QED
    BY <1>1, <2>2, <2>3, <2>5, LastCloses
<1>10. QED
  BY <1>7, <1>8, <1>9
-------------------------------------------------------------------------------
(* The numbers behind the sequence numbers.                                   *)

\* PDUs that the sender built, by their number.
Cast(h) ==
    {p \in Pdu : /\ p.number \in 1..h.count /\ p.sn = (p.number - 1) % Mod
                 /\ Fits(h, p, h.cut[p.number - 1], h.cut[p.number])}

\* A call of the receiver: the history, the numbers of the PDUs that VR(UH) and VR(UX) stand for,
\* the next SDU to be said before the call, and a bound for the PDU whose end waits.
Call(c) ==
    /\ Story(c)
    /\ c.top \in 0..c.count
    /\ c.lo \in Nat
    /\ c.low \in Int

\* VR(UR) stands for PDU U + 1; the PDUs kept are between the edges, one for each number.
Tracked(c, r, U) ==
    /\ r \in RxState /\ r.ux = c.ux
    /\ U \in 0..c.top
    /\ r.ur = U % Mod /\ r.uh = c.top % Mod
    /\ \A p \in r.window : p \in Cast(c) /\ p.number - 1 \in U..(c.top - 1)
    /\ \A p, q \in r.window : p.sn = q.sn => p = q

\* The bytes that wait are what PDU I ended with, low or later.
Waiting(c, r, U, low) ==
    r.sdu # << >> =>
        \E I \in 1..U : /\ low <= I /\ U < I + Window
                        /\ r.inSdu = (I - 1) % Mod
                        /\ c.cut[I].open /\ r.sdu = Part(c.by, c.cut[I].k, 0, c.cut[I].o)

\* What the call handed up was sent before U.
Told(c, r, U) == c.lo <= Floor(c.cut[U]) /\ Run(c, r.out, c.lo, Floor(c.cut[U]))

\* The cuts, and the SDUs they stand before, go up.
LEMMA CutsGrow ==
    ASSUME NEW c, Story(c), NEW U \in 0..c.count
    PROVE  /\ U \in Nat /\ c.count \in Nat
           /\ 1 <= Floor(c.cut[U])
           /\ c.cut[U] \in Cuts /\ Floor(c.cut[U]) \in Nat /\ c.cut[U].k \in Nat /\ c.cut[U].o \in Nat
           /\ U + 1 \in 0..c.count =>
                 /\ c.cut[U + 1] \in Cuts /\ Floor(c.cut[U + 1]) \in Nat
                 /\ Floor(c.cut[U]) <= Floor(c.cut[U + 1])
<1>1. U \in Nat /\ c.count \in Nat
  BY DEF Story
<1>2. \A n \in 0..c.count : /\ c.cut[n] \in Cuts /\ Floor(c.cut[n]) \in Nat
                            /\ c.cut[n].k \in Nat /\ c.cut[n].o \in Nat /\ c.cut[n].k <= Floor(c.cut[n])
  BY DEF Story, Cuts, Floor
<1>3. ASSUME U + 1 \in 0..c.count PROVE Floor(c.cut[U]) <= Floor(c.cut[U + 1])
  <2>1. PICK n \in 1..c.count : n = U + 1 /\ n - 1 = U
    BY <1>1, <1>3
  <2>2. Floor(c.cut[n - 1]) <= c.cut[n].k
    BY <2>1 DEF Story
  <2>3. n \in 0..c.count
    BY <1>1, <2>1
  <2>4. c.cut[n].k <= Floor(c.cut[n]) /\ c.cut[n].k \in Nat /\ Floor(c.cut[n]) \in Nat
    BY <1>2, <2>3
  <2>5. Floor(c.cut[U]) \in Nat
    BY <1>2
  <2>6. Floor(c.cut[U]) <= c.cut[n].k
    BY <2>1, <2>2
  <2>7. Floor(c.cut[U]) <= Floor(c.cut[n])
    BY <2>4, <2>5, <2>6
  <2>8. QED
    BY <2>1, <2>7
<1>4. 1 <= Floor(c.cut[U])
  BY DEF Story
<1>5. QED
  BY <1>1, <1>2, <1>3, <1>4

\* The same in the words of the lemmas on the loops.
LEMMA TrackedAt ==
    ASSUME RlcAssumption, NEW c, Call(c), NEW r, NEW U, Tracked(c, r, U)
    PROVE  /\ At(r, c.top - U) /\ U \in Nat /\ c.top \in Nat /\ c.top - U \in Nat
           /\ U \in 0..c.count /\ c.top \in 0..c.count
           /\ r.ur \in Sn /\ r.ur \in Int
           /\ U < c.top => U + 1 \in 0..c.count /\ U + 1 \in 0..c.top /\ U + 1 \in Nat
<1>1. /\ Mod \in Nat \ {0} /\ U \in Nat /\ c.top \in Nat /\ c.top - U \in Nat
      /\ U \in 0..c.count /\ c.top \in 0..c.count
      /\ U < c.top => U + 1 \in 0..c.count /\ U + 1 \in 0..c.top /\ U + 1 \in Nat
  <2>1. c.count \in Nat /\ c.top \in 0..c.count /\ U \in 0..c.top
    BY DEF Tracked, Call, Story
  <2>2. QED
    BY <2>1, Numbers
<1>2. r.ur \in Sn /\ r.ur \in Int
  BY DEF Tracked, RxState, Sn
<1>3. \A j \in Int : (r.ur + j) % Mod = (U + j) % Mod
  <2>1. SUFFICES ASSUME NEW j \in Int PROVE (r.ur + j) % Mod = (U + j) % Mod
    OBVIOUS
  <2>2. U \in Int
    BY <1>1
  <2>3. ((U % Mod) + j) % Mod = (U + j) % Mod
    BY <1>1, <2>2, ModAdd
  <2>4. QED
    BY <2>3 DEF Tracked
<1>4. r.uh = (r.ur + (c.top - U)) % Mod
  <2>1. PICK s \in Int : s = c.top - U /\ U + s = c.top
    BY <1>1
  <2>2. (r.ur + s) % Mod = (U + s) % Mod
    BY <1>3
  <2>3. QED
    BY <2>1, <2>2 DEF Tracked
<1>5. ASSUME NEW p \in r.window PROVE \E j \in 0..((c.top - U) - 1) : p.sn = (r.ur + j) % Mod
  <2>1. p.sn = (p.number - 1) % Mod /\ p.number - 1 \in U..(c.top - 1) /\ p.number \in Nat
    BY <1>5 DEF Tracked, Cast, Pdu
  <2>2. PICK j \in 0..((c.top - U) - 1) : j = p.number - 1 - U /\ U + j = p.number - 1
    BY <1>1, <2>1
  <2>3. (r.ur + j) % Mod = (U + j) % Mod
    BY <1>1, <1>3
  <2>4. QED
    BY <2>1, <2>2, <2>3
<1>6. At(r, c.top - U)
  BY <1>4, <1>5 DEF At, Tracked
<1>7. QED
  BY <1>1, <1>2, <1>6

\* The PDU held at VR(UR) is number U + 1.
LEMMA EdgePdu ==
    ASSUME RlcAssumption, NEW c, Call(c), NEW r, NEW U, Tracked(c, r, U), c.top - U <= Mod, Holds(r, r.ur)
    PROVE  /\ PduAt(r, r.ur) \in r.window /\ PduAt(r, r.ur) \in Pdu
           /\ PduAt(r, r.ur).number = U + 1 /\ U + 1 \in 0..c.top /\ U + 1 \in 0..c.count
           /\ Fits(c, PduAt(r, r.ur), c.cut[U], c.cut[U + 1])
<1>1. /\ U \in Nat /\ c.top \in Nat /\ c.top \in 0..c.count /\ Mod \in Nat \ {0} /\ c.count \in Nat
      /\ U \in Int /\ Mod \in Int
  BY TrackedAt, Numbers, CutsGrow DEF Call
<1>2. PICK p \in r.window : p = PduAt(r, r.ur) /\ p.sn = r.ur
  BY DEF Holds, PduAt
<1>3. p \in Cast(c) /\ p.number - 1 \in U..(c.top - 1) /\ p.number \in Nat
  BY DEF Tracked, Cast, Pdu
<1>4. PICK d \in 0..(Mod - 1) : U + d = p.number - 1
  <2>1. p.number - 1 - U \in 0..(Mod - 1)
    BY <1>1, <1>3
  <2>2. U + (p.number - 1 - U) = p.number - 1
    BY <1>1, <1>3
  <2>3. QED
    BY <2>1, <2>2
<1>5. d = 0
  <2>1. SUFFICES ASSUME d # 0 PROVE FALSE
    OBVIOUS
  <2>2. d \in 1..(Mod - 1) /\ d \in Int
    BY <1>1, <2>1
  <2>3. PICK x \in 0..(Mod - 1) : x = U % Mod
    BY <1>1, Division
  <2>4. (x + d) % Mod # x
    BY <1>1, <2>2, ModApart
  <2>5. (x + d) % Mod = (U + d) % Mod
    BY <1>1, <2>2, <2>3, ModAdd
  <2>6. p.sn = (U + d) % Mod
    BY <1>3, <1>4 DEF Cast
  <2>7. p.sn = x
    BY <1>2, <2>3 DEF Tracked
  <2>8. QED
    BY <2>4, <2>5, <2>6, <2>7
<1>6. p.number = U + 1 /\ U + 1 \in 0..c.top /\ U + 1 \in 0..c.count /\ p.number - 1 = U
  BY <1>1, <1>3, <1>4, <1>5
<1>7. Fits(c, p, c.cut[U], c.cut[U + 1]) /\ p \in Pdu
  BY <1>3, <1>6 DEF Cast
<1>8. QED
  BY <1>2, <1>6, <1>7

\* A turn of either loop, or a number given up, moves on to the next PDU.
LEMMA PassedTracked ==
    ASSUME RlcAssumption, NEW c, Call(c), NEW r, NEW U, Tracked(c, r, U), U < c.top, NEW q, Passed(r, q)
    PROVE  Tracked(c, q, U + 1)
<1>1. U \in Nat /\ c.top \in Nat /\ Mod \in Nat \ {0} /\ U \in Int /\ 1 \in Int
  BY TrackedAt, Numbers
<1>2. q \in RxState /\ q.ux = c.ux /\ U + 1 \in 0..c.top /\ q.uh = c.top % Mod
  BY <1>1 DEF Tracked, Passed
<1>3. q.ur = (U + 1) % Mod
  <2>1. ((U % Mod) + 1) % Mod = (U + 1) % Mod
    BY <1>1, ModAdd
  <2>2. QED
    BY <2>1 DEF Tracked, Passed
<1>4. ASSUME NEW p \in q.window PROVE p \in Cast(c) /\ p.number - 1 \in (U + 1)..(c.top - 1)
  <2>1. p \in r.window /\ p.sn # r.ur
    BY <1>4 DEF Passed
  <2>2. p \in Cast(c) /\ p.number - 1 \in U..(c.top - 1)
    BY <2>1 DEF Tracked
  <2>3. p.number - 1 # U
    BY <2>1, <2>2 DEF Cast, Tracked
  <2>4. QED
    BY <1>1, <2>2, <2>3
<1>5. \A x, y \in q.window : x.sn = y.sn => x = y
  BY DEF Passed, Tracked
<1>6. QED
  BY <1>2, <1>3, <1>4, <1>5 DEF Tracked

\* Bytes that wait for PDU U are those before the cut it begins at.
LEMMA WaitingJoined ==
    ASSUME NEW c, NEW r, NEW U \in Nat, Waiting(c, r, U, U)
    PROVE  Joined(c, r, c.cut[U])
<1>1. SUFFICES ASSUME r.sdu # << >>
               PROVE c.cut[U].open /\ r.sdu = Part(c.by, c.cut[U].k, 0, c.cut[U].o)
  BY DEF Joined
<1>2. PICK I \in 1..U : U <= I /\ c.cut[I].open /\ r.sdu = Part(c.by, c.cut[I].k, 0, c.cut[I].o)
  BY <1>1 DEF Waiting
<1>3. I = U
  BY <1>2
<1>4. QED
  BY <1>2, <1>3

\* In order, bytes that belong to the PDU at VR(UR) were said by the one before it.
LEMMA BelongsJoined ==
    ASSUME RlcAssumption, NEW c, Call(c), NEW r, NEW U, Tracked(c, r, U), NEW low,
           Waiting(c, r, U, low), PduBelongsToRxSdu(r)
    PROVE  Joined(c, r, c.cut[U])
<1>1. SUFFICES ASSUME r.sdu # << >>
               PROVE c.cut[U].open /\ r.sdu = Part(c.by, c.cut[U].k, 0, c.cut[U].o)
  BY DEF Joined
<1>2. PICK I \in 1..U : /\ U < I + Window /\ r.inSdu = (I - 1) % Mod
                        /\ c.cut[I].open /\ r.sdu = Part(c.by, c.cut[I].k, 0, c.cut[I].o)
  BY <1>1 DEF Waiting
<1>3. U \in Nat /\ Window \in Nat \ {0} /\ Mod \in Nat \ {0} /\ Mod = 2 * Window
  BY TrackedAt, Numbers
<1>4. I = U
  <2>1. SUFFICES ASSUME I # U PROVE FALSE
    OBVIOUS
  <2>2. PICK d \in Int : d = U - I /\ d \in 1..(Window - 1) /\ I + d = U
    BY <1>2, <1>3, <2>1
  <2>3. PICK i \in Int : i = I - 1 /\ i + 1 = I /\ i + (d + 1) = U
    BY <1>3, <2>2
  <2>4. PICK x \in 0..(Mod - 1) : x = i % Mod
    BY <1>3, <2>3, Division
  <2>5. PICK y \in 0..(Mod - 1) : y = I % Mod
    <3>1. I \in Int
      BY <1>3
    <3>2. QED
      BY <1>3, <3>1, Division
  <2>6. r.ur = (x + (d + 1)) % Mod
    <3>1. d + 1 \in Int
      BY <2>2
    <3>2. ((i % Mod) + (d + 1)) % Mod = (i + (d + 1)) % Mod
      BY <1>3, <2>3, <3>1, ModAdd
    <3>3. QED
      BY <2>3, <2>4, <3>2 DEF Tracked
  <2>7. r.ur = (y + d) % Mod
    <3>1. I \in Int /\ d \in Int
      BY <1>3, <2>2
    <3>2. ((I % Mod) + d) % Mod = (I + d) % Mod
      BY <1>3, <3>1, ModAdd
    <3>3. QED
      BY <2>2, <2>5, <3>2 DEF Tracked
  <2>8. d + 1 \in 1..(Mod - 1) /\ d \in 1..(Mod - 1)
    BY <1>3, <2>2
  <2>9. r.ur # x /\ r.ur # y
    BY <1>3, <2>6, <2>7, <2>8, ModApart
  <2>10. (x + 1) % Mod = y
    <3>1. 1 \in Int
      OBVIOUS
    <3>2. ((i % Mod) + 1) % Mod = (i + 1) % Mod
      BY <1>3, <2>3, <3>1, ModAdd
    <3>3. QED
      BY <2>3, <2>4, <2>5, <3>2
  <2>11. r.inSdu = x
    BY <1>2, <2>3, <2>4
  <2>12. QED
    BY <2>9, <2>10, <2>11 DEF PduBelongsToRxSdu
<1>5. QED
  BY <1>2, <1>4

\* What a turn leaves: PDU U + 1 has been dealt with.
LEMMA TurnTold ==
    ASSUME RlcAssumption, NEW c, Call(c), NEW r, NEW U, Tracked(c, r, U), U < c.top, NEW q, Passed(r, q),
           c.lo <= Floor(c.cut[U]), NEW z, Closed(c, z, c.cut[U + 1], c.lo, r.ur),
           q.sdu = z.sdu, q.inSdu = z.inSdu, q.out = z.out
    PROVE  Tracked(c, q, U + 1) /\ Told(c, q, U + 1) /\ Waiting(c, q, U + 1, U + 1)
<1>1. /\ U \in Nat /\ U \in 0..c.count /\ U + 1 \in 0..c.count /\ Window \in Nat \ {0}
      /\ U + 1 \in Nat
  BY TrackedAt, Numbers
<1>2. Tracked(c, q, U + 1)
  BY PassedTracked
<1>3. c.lo <= Floor(c.cut[U + 1])
  <2>1. Floor(c.cut[U]) \in Nat /\ Floor(c.cut[U + 1]) \in Nat /\ Floor(c.cut[U]) <= Floor(c.cut[U + 1])
    BY <1>1, CutsGrow DEF Call
  <2>2. QED
    BY <2>1 DEF Call
<1>4. Told(c, q, U + 1)
  BY <1>3 DEF Told, Closed
<1>5. ASSUME q.sdu # << >>
      PROVE \E I \in 1..(U + 1) : /\ U + 1 <= I /\ U + 1 < I + Window /\ q.inSdu = (I - 1) % Mod
                                  /\ c.cut[I].open /\ q.sdu = Part(c.by, c.cut[I].k, 0, c.cut[I].o)
  <2>1. PICK I \in 1..(U + 1) : I = U + 1 /\ I - 1 = U
    BY <1>1
  <2>2. U + 1 <= I /\ U + 1 < I + Window
    BY <1>1, <2>1
  <2>3. q.inSdu = (I - 1) % Mod /\ c.cut[I].open /\ q.sdu = Part(c.by, c.cut[I].k, 0, c.cut[I].o)
    BY <1>5, <2>1 DEF Closed, Tracked
  <2>4. QED
    BY <2>2, <2>3
<1>6. QED
  BY <1>2, <1>4, <1>5 DEF Waiting

\* One turn of the first loop.
LEMMA LowerEdgeTells ==
    ASSUME RlcAssumption, NEW c, Call(c), NEW r, NEW U, Tracked(c, r, U), U < c.top, c.top - U <= Mod,
           Told(c, r, U), Holds(r, r.ur) => Waiting(c, r, U, U)
    PROVE  /\ Tracked(c, LowerEdge(r), U + 1) /\ Told(c, LowerEdge(r), U + 1)
           /\ Waiting(c, LowerEdge(r), U + 1, U + 1)
<1> DEFINE z == IF Holds(r, r.ur) THEN LowerEdgePdu(r, PduAt(r, r.ur)) ELSE [r EXCEPT !.sdu = << >>]
           q == LowerEdge(r)
<1>1. r \in RxState /\ Passed(r, q) /\ c.lo \in Nat
  BY LowerEdgePassed DEF Tracked, Call
<1>2. z \in RxState
  <2>1. CASE Holds(r, r.ur)
    BY <1>1, <2>1, EdgePdu, LowerEdgePduBeside DEF Beside
  <2>2. CASE ~Holds(r, r.ur)
    <3>1. << >> \in Sdu
      BY DEF Sdu
    <3>2. QED
      BY <1>1, <2>2, <3>1 DEF RxState
  <2>3. QED
    BY <2>1, <2>2
<1>3. q = [z EXCEPT !.window = {p \in @ : p.sn # r.ur}, !.ur = (@ + 1) % Mod]
  BY DEF LowerEdge
<1>4. Closed(c, z, c.cut[U + 1], c.lo, r.ur)
  <2>1. /\ c.cut[U] \in Cuts /\ c.cut[U + 1] \in Cuts /\ Floor(c.cut[U]) \in Nat /\ U \in Nat
        /\ Floor(c.cut[U + 1]) \in Nat /\ Floor(c.cut[U]) <= Floor(c.cut[U + 1])
    <3>1. U \in 0..c.count /\ U + 1 \in 0..c.count
      BY TrackedAt
    <3>2. QED
      BY <3>1, CutsGrow DEF Call
  <2>2. CASE Holds(r, r.ur)
    <3>1. PICK p \in Pdu : p = PduAt(r, r.ur) /\ Fits(c, p, c.cut[U], c.cut[U + 1])
      BY <2>2, EdgePdu
    <3>2. Joined(c, r, c.cut[U])
      BY <2>1, <2>2, WaitingJoined
    <3>3. Closed(c, LowerEdgePdu(r, p), c.cut[U + 1], c.lo, r.ur)
      BY <1>1, <2>1, <3>1, <3>2, LowerEdgeCloses DEF Told, Call
    <3>4. QED
      BY <2>2, <3>1, <3>3
  <2>3. CASE ~Holds(r, r.ur)
    <3>1. z.sdu = << >> /\ z.out = r.out
      BY <1>1, <2>3 DEF RxState
    <3>2. c.lo <= c.lo
      BY <1>1
    <3>3. Run(c, r.out, c.lo, Floor(c.cut[U + 1]))
      BY <1>1, <2>1, <3>2, RunWiden DEF Told, Call
    <3>4. QED
      BY <3>1, <3>3 DEF Closed
  <2>4. QED
    BY <2>2, <2>3
<1> HIDE DEF z, q
<1>5. q.sdu = z.sdu /\ q.inSdu = z.inSdu /\ q.out = z.out
  BY <1>2, <1>3 DEF RxState
<1>6. Tracked(c, q, U + 1) /\ Told(c, q, U + 1) /\ Waiting(c, q, U + 1, U + 1)
  BY <1>1, <1>4, <1>5, TurnTold DEF Told
<1>7. QED
  BY <1>6 DEF q

\* One turn of the second loop.
LEMMA InOrderTells ==
    ASSUME RlcAssumption, NEW c, Call(c), NEW r, NEW U, Tracked(c, r, U), c.top - U <= Mod,
           Told(c, r, U), NEW low, Waiting(c, r, U, low), Holds(r, r.ur)
    PROVE  /\ Tracked(c, InOrder(r), U + 1) /\ Told(c, InOrder(r), U + 1)
           /\ Waiting(c, InOrder(r), U + 1, U + 1) /\ U + 1 \in 0..c.top
<1> DEFINE z == InOrderPdu(r, PduAt(r, r.ur))
           q == InOrder(r)
<1>1. r \in RxState /\ Passed(r, q) /\ c.lo \in Nat
  BY InOrderPassed DEF Tracked, Call
<1>2. z \in RxState
  BY <1>1, EdgePdu, InOrderPduBeside DEF Beside
<1>3. q = [z EXCEPT !.window = {p \in @ : p.sn # r.ur}, !.ur = (@ + 1) % Mod]
  BY DEF InOrder
<1>4. U \in Nat /\ U \in 0..c.count /\ U + 1 \in 0..c.count /\ U + 1 \in 0..c.top /\ U < c.top
  <2>1. U + 1 \in 0..c.count /\ U + 1 \in 0..c.top
    BY EdgePdu
  <2>2. U \in Nat /\ U \in 0..c.count /\ c.top \in Nat
    BY TrackedAt
  <2>3. QED
    BY <2>1, <2>2
<1>5. /\ c.cut[U] \in Cuts /\ c.cut[U + 1] \in Cuts /\ Floor(c.cut[U]) \in Nat
  BY <1>4, CutsGrow DEF Call
<1>6. PICK p \in Pdu : p = PduAt(r, r.ur) /\ Fits(c, p, c.cut[U], c.cut[U + 1])
  BY EdgePdu
<1>7. PduBelongsToRxSdu(r) => Joined(c, r, c.cut[U])
  BY BelongsJoined
<1>8. Closed(c, InOrderPdu(r, p), c.cut[U + 1], c.lo, r.ur)
  BY <1>1, <1>5, <1>6, <1>7, InOrderCloses DEF Told, Call
<1>9. Closed(c, z, c.cut[U + 1], c.lo, r.ur)
  BY <1>6, <1>8
<1> HIDE DEF z, q
<1>10. q.sdu = z.sdu /\ q.inSdu = z.inSdu /\ q.out = z.out
  BY <1>2, <1>3 DEF RxState
<1>11. Tracked(c, q, U + 1) /\ Told(c, q, U + 1) /\ Waiting(c, q, U + 1, U + 1)
  BY <1>1, <1>4, <1>9, <1>10, TurnTold DEF Told
<1>12. QED
  BY <1>4, <1>11 DEF q
-------------------------------------------------------------------------------
(* The loops, with the SDUs.                                                  *)

\* What the receiver knows and said when VR(UR) stands for PDU U + 1.
Said(c, r, U) == Tracked(c, r, U) /\ Told(c, r, U) /\ Waiting(c, r, U, c.low)

\* The bound may be lowered.
LEMMA WaitingLower ==
    ASSUME NEW c, NEW r, NEW U \in Nat, NEW low \in Int, low <= U, Waiting(c, r, U, U)
    PROVE  Waiting(c, r, U, low)
<1>1. SUFFICES ASSUME r.sdu # << >>
               PROVE \E I \in 1..U : /\ low <= I /\ U < I + Window /\ r.inSdu = (I - 1) % Mod
                                     /\ c.cut[I].open /\ r.sdu = Part(c.by, c.cut[I].k, 0, c.cut[I].o)
  BY DEF Waiting
<1>2. PICK I \in 1..U : /\ U <= I /\ U < I + Window /\ r.inSdu = (I - 1) % Mod
                        /\ c.cut[I].open /\ r.sdu = Part(c.by, c.cut[I].k, 0, c.cut[I].o)
  BY <1>1 DEF Waiting
<1>3. low <= I
  BY <1>2
<1>4. QED
  BY <1>2, <1>3

\* What may have become of r after k turns of the first loop.
CatchingTold(c, r, k) ==
    {q \in RxState :
        \E U \in 0..c.top :
           /\ Tracked(c, q, U) /\ Told(c, q, U) /\ c.low <= U
           /\ c.top - U <= Window \/ (c.top - U <= Mod - k /\ TopHeld(q, c.top - U))
           /\ Waiting(c, q, U, U) \/ (q = r /\ Waiting(c, q, U, c.low))}

\* A turn of the first loop: it begins with a number that is not held.
LEMMA CatchUpTells ==
    ASSUME RlcAssumption, NEW c, Call(c), NEW r, ~InsideReorderingWindow(r, r.ur) => ~Holds(r, r.ur),
           NEW k \in 0..(Mod - 1), NEW v \in CatchingTold(c, r, k)
    PROVE  (IF InsideReorderingWindow(v, v.ur) THEN v ELSE LowerEdge(v)) \in CatchingTold(c, r, k + 1)
<1> DEFINE step(q) == IF InsideReorderingWindow(q, q.ur) THEN q ELSE LowerEdge(q)
<1>1. SUFFICES step(v) \in CatchingTold(c, r, k + 1)
  OBVIOUS
<1>2. Window \in Nat \ {0} /\ Mod \in Nat /\ Mod = 2 * Window /\ c.low \in Int
  BY Numbers DEF Call
<1>3. PICK U \in 0..c.top :
           /\ Tracked(c, v, U) /\ Told(c, v, U) /\ c.low <= U
           /\ c.top - U <= Window \/ (c.top - U <= Mod - k /\ TopHeld(v, c.top - U))
           /\ Waiting(c, v, U, U) \/ (v = r /\ Waiting(c, v, U, c.low))
  BY DEF CatchingTold
<1>4. PICK s \in Nat : s = c.top - U /\ At(v, s) /\ U \in Nat /\ c.top \in Nat
  BY <1>3, TrackedAt
<1>5. v \in RxState
  BY DEF CatchingTold
<1>6. CASE s <= Window
  <2>1. s \in (1 - Window)..Mod
    BY <1>2, <1>6
  <2>2. InsideReorderingWindow(v, v.ur)
    BY <1>4, <1>6, <2>1, UrInside DEF InsideReorderingWindow
  <2>3. step(v) = v
    BY <2>2
  <2> HIDE DEF step
  <2>4. v \in CatchingTold(c, r, k + 1)
    BY <1>3, <1>4, <1>5, <1>6 DEF CatchingTold
  <2>5. QED
    BY <2>3, <2>4
<1>7. CASE s > Window
  <2>1. s <= Mod - k /\ TopHeld(v, s) /\ U < c.top /\ c.top - U <= Mod
    BY <1>2, <1>3, <1>4, <1>7
  <2>2. v.window # {} /\ s \in (1 - Window)..Mod
    BY <1>2, <1>4, <2>1 DEF TopHeld
  <2>3. ~InsideReorderingWindow(v, v.ur)
    BY <1>2, <1>4, <1>7, <2>2, UrInside
  <2>4. step(v) = LowerEdge(v) /\ Passed(v, LowerEdge(v))
    BY <1>5, <2>3, LowerEdgePassed
  <2>5. Holds(v, v.ur) => Waiting(c, v, U, U)
    BY <1>3, <2>3
  <2> HIDE DEF step
  <2>6. Tracked(c, step(v), U + 1) /\ Told(c, step(v), U + 1) /\ Waiting(c, step(v), U + 1, U + 1)
    BY <1>3, <2>1, <2>4, <2>5, LowerEdgeTells
  <2>7. U + 1 \in 0..c.top /\ c.low <= U + 1 /\ c.top - (U + 1) = s - 1
    BY <1>2, <1>3, <1>4, <2>1
  <2>8. s - 1 <= Window \/ (s - 1 <= Mod - (k + 1) /\ TopHeld(step(v), s - 1))
    <3>1. s = 1 \/ s \in 2..Mod
      BY <1>2, <1>7, <2>1
    <3>2. s = 1 => s - 1 <= Window
      BY <1>2
    <3>3. s \in 2..Mod => TopHeld(step(v), s - 1)
      <4>1. s \in Int
        OBVIOUS
      <4>2. QED
        BY <1>4, <2>1, <2>4, <4>1, Closer
    <3>4. s - 1 <= Mod - (k + 1)
      BY <1>2, <2>1
    <3>5. QED
      BY <3>1, <3>2, <3>3, <3>4
  <2>9. step(v) \in RxState
    BY <2>6 DEF Tracked
  <2>10. \E W \in 0..c.top :
           /\ Tracked(c, step(v), W) /\ Told(c, step(v), W) /\ c.low <= W
           /\ c.top - W <= Window \/ (c.top - W <= Mod - (k + 1) /\ TopHeld(step(v), c.top - W))
           /\ Waiting(c, step(v), W, W) \/ (step(v) = r /\ Waiting(c, step(v), W, c.low))
    <3>1. PICK W \in 0..c.top : W = U + 1 /\ c.low <= W /\ c.top - W = s - 1
      BY <2>7
    <3>2. Tracked(c, step(v), W) /\ Told(c, step(v), W) /\ Waiting(c, step(v), W, W)
      BY <2>6, <3>1
    <3>3. c.top - W <= Window \/ (c.top - W <= Mod - (k + 1) /\ TopHeld(step(v), c.top - W))
      BY <2>8, <3>1
    <3>4. QED
      BY <3>1, <3>2, <3>3
  <2>11. QED
    BY <2>9, <2>10 DEF CatchingTold
<1>8. QED
  BY <1>2, <1>4, <1>6, <1>7

\* What may have become of a receiver after k turns of the second loop.
TakingTold(c, k) ==
    {q \in RxState :
        \E U \in 0..c.top :
           /\ Said(c, q, U) /\ c.low <= U /\ c.top - U <= Window
           /\ ~Holds(q, q.ur) \/ c.top - U <= Window - k}

\* A turn of the second loop.
LEMMA TakeTells ==
    ASSUME RlcAssumption, NEW c, Call(c), NEW k \in 0..(Mod - 1), NEW v \in TakingTold(c, k)
    PROVE  (IF Holds(v, v.ur) THEN InOrder(v) ELSE v) \in TakingTold(c, k + 1)
<1> DEFINE step(q) == IF Holds(q, q.ur) THEN InOrder(q) ELSE q
<1>1. SUFFICES step(v) \in TakingTold(c, k + 1)
  OBVIOUS
<1>2. Window \in Nat \ {0} /\ Mod \in Nat /\ Mod = 2 * Window /\ c.low \in Int
  BY Numbers DEF Call
<1>3. PICK U \in 0..c.top :
           /\ Said(c, v, U) /\ c.low <= U /\ c.top - U <= Window
           /\ ~Holds(v, v.ur) \/ c.top - U <= Window - k
  BY DEF TakingTold
<1>4. v \in RxState
  BY DEF TakingTold
<1>5. CASE ~Holds(v, v.ur)
  <2>1. step(v) = v
    BY <1>5
  <2> HIDE DEF step
  <2>2. v \in TakingTold(c, k + 1)
    BY <1>3, <1>4, <1>5 DEF TakingTold
  <2>3. QED
    BY <2>1, <2>2
<1>6. CASE Holds(v, v.ur)
  <2>1. step(v) = InOrder(v)
    BY <1>6
  <2> HIDE DEF step
  <2>2. U \in Nat /\ c.top \in Nat /\ c.top - U <= Mod
    BY <1>2, <1>3, TrackedAt DEF Said
  <2>3. /\ Tracked(c, step(v), U + 1) /\ Told(c, step(v), U + 1)
        /\ Waiting(c, step(v), U + 1, U + 1) /\ U + 1 \in 0..c.top
    BY <1>3, <1>6, <2>1, <2>2, InOrderTells DEF Said
  <2>4. PICK W \in 0..c.top : W = U + 1 /\ W \in Nat /\ c.low <= W /\ c.top - W <= Window /\ c.top - W <= Window - (k + 1)
    <3>1. c.top - U <= Window - k
      BY <1>3, <1>6
    <3>2. c.low <= U + 1 /\ c.top - (U + 1) <= Window /\ c.top - (U + 1) <= Window - (k + 1)
      BY <1>2, <1>3, <2>2, <3>1
    <3>3. QED
      BY <2>2, <2>3, <3>2
  <2>5. Waiting(c, step(v), W, W)
    BY <2>3, <2>4
  <2>6. Waiting(c, step(v), W, c.low)
    BY <1>2, <2>4, <2>5, WaitingLower
  <2>7. Said(c, step(v), W)
    BY <2>3, <2>4, <2>6 DEF Said
  <2>8. step(v) \in RxState
    BY <2>3 DEF Tracked
  <2>9. QED
    BY <2>4, <2>7, <2>8 DEF TakingTold
<1>7. QED
  BY <1>5, <1>6

\* What holds after a call of the receiver, for some U.
Steady(c, q) == \E U \in 0..c.top : Said(c, q, U) /\ c.top - U <= Window /\ ~Holds(q, q.ur)

\* reassemble_rx_sdus hands up what was sent, in order.
LEMMA ReassembleTells ==
    ASSUME RlcAssumption, NEW c, Call(c), NEW r, NEW U, Said(c, r, U), c.low <= U,
           c.top - U <= Window \/ (c.top - U <= Mod /\ TopHeld(r, c.top - U)),
           ~InsideReorderingWindow(r, r.ur) => ~Holds(r, r.ur)
    PROVE  Steady(c, ReassembleRxSdus(r))
<1>1. Window \in Nat \ {0} /\ Mod \in Nat \ {0} /\ Mod = 2 * Window /\ c.low \in Int
  BY Numbers DEF Call
<1>2. r \in RxState /\ U \in 0..c.top /\ c.top \in Nat /\ U \in Nat
  BY TrackedAt DEF Said, Tracked
<1>3. PICK z \in CatchingTold(c, r, Mod) : z = CatchUp(r)
  <2> DEFINE J == [k \in 0..Mod |-> CatchingTold(c, r, k)]
  <2>1. \A k \in 0..Mod : J[k] \subseteq RxState
    BY DEF CatchingTold
  <2>2. r \in J[0]
    <3>1. c.top - U <= Window \/ (c.top - U <= Mod - 0 /\ TopHeld(r, c.top - U))
      BY <1>1, <1>2
    <3>2. r \in CatchingTold(c, r, 0)
      BY <1>2, <3>1 DEF CatchingTold, Said
    <3>3. QED
      BY <1>1, <3>2
  <2>3. \A k \in 0..(Mod - 1) : \A v \in J[k] :
           (IF InsideReorderingWindow(v, v.ur) THEN v ELSE LowerEdge(v)) \in J[k + 1]
    <3>1. SUFFICES ASSUME NEW k \in 0..(Mod - 1), NEW v \in J[k]
                   PROVE (IF InsideReorderingWindow(v, v.ur) THEN v ELSE LowerEdge(v)) \in J[k + 1]
      OBVIOUS
    <3>2. k \in 0..Mod /\ k + 1 \in 0..Mod
      BY <1>1
    <3>3. v \in CatchingTold(c, r, k)
      BY <3>2
    <3>4. J[k + 1] = CatchingTold(c, r, k + 1)
      BY <3>2
    <3> HIDE DEF J
    <3>5. QED
      BY <3>3, <3>4, CatchUpTells
  <2>4. J[Mod] = CatchingTold(c, r, Mod)
    BY <1>1
  <2> HIDE DEF J
  <2>5. CatchUp(r) \in J[Mod]
    BY <1>2, <2>1, <2>2, <2>3, CatchUpFold
  <2>6. QED
    BY <2>4, <2>5
<1>4. z \in TakingTold(c, 0)
  <2>1. PICK W \in 0..c.top :
           /\ Tracked(c, z, W) /\ Told(c, z, W) /\ c.low <= W
           /\ c.top - W <= Window \/ (c.top - W <= Mod - Mod /\ TopHeld(z, c.top - W))
           /\ Waiting(c, z, W, W) \/ (z = r /\ Waiting(c, z, W, c.low))
    BY DEF CatchingTold
  <2>2. W \in Nat /\ c.top - W <= Window /\ c.top - W <= Window - 0
    BY <1>1, <1>2, <2>1
  <2>3. Waiting(c, z, W, c.low)
    BY <1>1, <2>1, <2>2, WaitingLower
  <2>4. z \in RxState
    BY DEF CatchingTold
  <2>5. QED
    BY <2>1, <2>2, <2>3, <2>4 DEF TakingTold, Said
<1>5. PICK q \in TakingTold(c, Mod) : q = TakeInOrder(z)
  <2> DEFINE J == [k \in 0..Mod |-> TakingTold(c, k)]
  <2>1. \A k \in 0..Mod : J[k] \subseteq RxState
    BY DEF TakingTold
  <2>2. z \in J[0] /\ z \in RxState
    BY <1>1, <1>4 DEF TakingTold
  <2>3. \A k \in 0..(Mod - 1) : \A v \in J[k] : (IF Holds(v, v.ur) THEN InOrder(v) ELSE v) \in J[k + 1]
    <3>1. SUFFICES ASSUME NEW k \in 0..(Mod - 1), NEW v \in J[k]
                   PROVE (IF Holds(v, v.ur) THEN InOrder(v) ELSE v) \in J[k + 1]
      OBVIOUS
    <3>2. k \in 0..Mod /\ k + 1 \in 0..Mod
      BY <1>1
    <3>3. v \in TakingTold(c, k)
      BY <3>2
    <3>4. J[k + 1] = TakingTold(c, k + 1)
      BY <3>2
    <3> HIDE DEF J
    <3>5. QED
      BY <3>3, <3>4, TakeTells
  <2>4. J[Mod] = TakingTold(c, Mod)
    BY <1>1
  <2> HIDE DEF J
  <2>5. TakeInOrder(z) \in J[Mod]
    BY <2>1, <2>2, <2>3, InOrderFold
  <2>6. QED
    BY <2>4, <2>5
<1>6. PICK W \in 0..c.top : /\ Said(c, q, W) /\ c.low <= W /\ c.top - W <= Window
                            /\ ~Holds(q, q.ur) \/ c.top - W <= Window - Mod
  BY DEF TakingTold
<1>7. ~(c.top - W <= Window - Mod)
  BY <1>1, <1>2
<1>8. QED
  BY <1>3, <1>5, <1>6, <1>7 DEF Steady, ReassembleRxSdus
-------------------------------------------------------------------------------
(* The calls of the receiver.                                                 *)

\* A receiver that tells is settled.
LEMMA SteadySettled ==
    ASSUME RlcAssumption, NEW c, Call(c), NEW q, Steady(c, q)
    PROVE  q \in Settled /\ q.ux = c.ux /\ q.uh = c.top % Mod
<1>1. PICK U \in 0..c.top : Said(c, q, U) /\ c.top - U <= Window /\ ~Holds(q, q.ur)
  BY DEF Steady
<1>2. Tracked(c, q, U)
  BY <1>1 DEF Said
<1>3. At(q, c.top - U) /\ c.top - U \in Nat /\ q \in RxState
  BY <1>2, TrackedAt DEF Tracked
<1>4. c.top - U \in (1 - Window)..Window
  BY <1>1, <1>3, Numbers
<1>5. QED
  BY <1>1, <1>2, <1>3, <1>4 DEF Settled, Tracked

\* Numbers a window or less from the top are told by Base.
LEMMA BaseTracked ==
    ASSUME RlcAssumption, NEW c, Call(c), NEW r, NEW U, Tracked(c, r, U),
           NEW T \in Int, T - c.top \in (-Window)..(Window - 1)
    PROVE  Base(r, T % Mod) = T - c.top + Window
<1>1. PICK s \in Int : /\ s = c.top - U /\ r.uh = (r.ur + s) % Mod /\ r.ur \in Int
                       /\ U \in Int /\ c.top \in Int
  BY TrackedAt DEF At
<1>2. Mod \in Nat \ {0} /\ Window \in Int
  BY Numbers
<1>3. PICK j \in Int : j = T - U /\ U + j = T /\ j - s = T - c.top
  BY <1>1
<1>4. (r.ur + j) % Mod = T % Mod
  <2>1. ((U % Mod) + j) % Mod = (U + j) % Mod
    BY <1>1, <1>2, <1>3, ModAdd
  <2>2. QED
    BY <1>3, <2>1 DEF Tracked
<1>5. j - s \in (-Window)..(Window - 1)
  BY <1>3
<1>6. Base(r, (r.ur + j) % Mod) = j - s + Window
  BY <1>1, <1>5, BaseNear
<1>7. QED
  BY <1>3, <1>4, <1>6

\* The edges of the window.
LEMMA BaseEdges ==
    ASSUME RlcAssumption, NEW c, Call(c), NEW r, NEW U, Tracked(c, r, U), c.top - U <= Window
    PROVE  /\ Base(r, r.ur) = Window - (c.top - U)
           /\ Base(r, r.uh) = Window
           /\ Base(r, r.uh - Window) = 0
           /\ InsideReorderingWindow(r, r.ur)
<1>1. Window \in Nat \ {0} /\ Mod \in Nat \ {0} /\ Mod = 2 * Window
  BY Numbers
<1>2. U \in Nat /\ c.top \in Nat /\ c.top - U \in Nat /\ U \in Int /\ c.top \in Int
  BY TrackedAt
<1>3. Base(r, r.ur) = Window - (c.top - U)
  <2>1. U - c.top \in (-Window)..(Window - 1)
    BY <1>1, <1>2
  <2>2. Base(r, U % Mod) = U - c.top + Window
    BY <1>2, <2>1, BaseTracked
  <2>3. U - c.top + Window = Window - (c.top - U)
    BY <1>1, <1>2
  <2>4. QED
    BY <2>2, <2>3 DEF Tracked
<1>4. Base(r, r.uh) = Window
  <2>1. c.top - c.top \in (-Window)..(Window - 1) /\ c.top - c.top + Window = Window
    BY <1>1, <1>2
  <2>2. Base(r, c.top % Mod) = c.top - c.top + Window
    BY <1>2, <2>1, BaseTracked
  <2>3. QED
    BY <2>1, <2>2 DEF Tracked
<1>5. Base(r, r.uh - Window) = 0
  <2>1. r.uh \in Int
    BY DEF Tracked, RxState, Sn
  <2>2. r.uh - Window - r.uh - Window = (-1) * Mod + 0 /\ 0 \in 0..(Mod - 1)
    BY <1>1, <2>1
  <2>3. (r.uh - Window - r.uh - Window) % Mod = 0
    BY <1>1, <2>2, Remainder
  <2>4. QED
    BY <2>3 DEF Base
<1>6. CASE r.window # {}
  <2>1. c.top - U \in (1 - Window)..Mod
    BY <1>1, <1>2
  <2>2. At(r, c.top - U)
    BY TrackedAt
  <2>3. InsideReorderingWindow(r, r.ur)
    BY <1>6, <2>1, <2>2, UrInside
  <2>4. QED
    BY <1>3, <1>4, <1>5, <2>3
<1>7. CASE r.window = {}
  BY <1>3, <1>4, <1>5, <1>7 DEF InsideReorderingWindow
<1>8. QED
  BY <1>6, <1>7

\* One step of timer_expired gives up a number below the mark, and what waits stays in reach.
LEMMA SkipTells ==
    ASSUME RlcAssumption, NEW c, Call(c), c.low = c.top - Window + 1,
           (c.ux - (c.top % Mod) - Window) % Mod <= Window,
           NEW q, Steady(c, q), Base(q, q.ur) < Base(q, q.ux)
    PROVE  Steady(c, SkipNumber(q))
<1>1. Window \in Nat \ {0} /\ Mod \in Nat \ {0} /\ Mod = 2 * Window
  BY Numbers
<1>2. PICK U \in 0..c.top : Said(c, q, U) /\ c.top - U <= Window /\ ~Holds(q, q.ur)
  BY DEF Steady
<1>3. Tracked(c, q, U) /\ q \in RxState /\ q.ux = c.ux /\ q.uh = c.top % Mod
  BY <1>2 DEF Said, Tracked
<1>4. U \in Nat /\ c.top \in Nat /\ U < c.top /\ U \in 0..c.count /\ U + 1 \in 0..c.count /\ U + 1 \in 0..c.top
  <2>1. U \in Nat /\ c.top \in Nat /\ U \in 0..c.count
    BY <1>3, TrackedAt
  <2>2. Base(q, q.ur) = Window - (c.top - U)
    BY <1>2, <1>3, BaseEdges
  <2>3. Base(q, q.ux) <= Window /\ Base(q, q.ux) \in Int
    <3>1. c.ux \in Int
      BY <1>3 DEF RxState, Sn
    <3>2. PICK m \in 0..(Mod - 1) : m = c.top % Mod
      <4>1. c.top \in Int
        BY <2>1
      <4>2. QED
        BY <1>1, <4>1, Division
    <3>3. (c.ux - m - Window) % Mod \in Int
      <4>1. PICK x \in Int : x = c.ux - m - Window
        BY <1>1, <3>1, <3>2
      <4>2. x % Mod \in 0..(Mod - 1)
        BY <1>1, <4>1, Division
      <4>3. QED
        BY <4>1, <4>2
    <3>4. QED
      BY <1>3, <3>2, <3>3 DEF Base
  <2>4. U < c.top
    BY <1>1, <2>1, <2>2, <2>3
  <2>5. QED
    BY <1>3, <2>1, <2>4, TrackedAt
<1> DEFINE z == [q EXCEPT !.ur = (@ + 1) % Mod]
<1>5. /\ z \in RxState /\ z.ur = (q.ur + 1) % Mod /\ z.uh = q.uh /\ z.ux = q.ux /\ z.window = q.window
      /\ z.sdu = q.sdu /\ z.inSdu = q.inSdu /\ z.out = q.out
  BY <1>3, NextType DEF RxState
<1> HIDE DEF z
<1>6. Passed(q, z)
  BY <1>2, <1>5 DEF Passed, Holds
<1>7. Tracked(c, z, U + 1)
  BY <1>3, <1>4, <1>6, PassedTracked
<1>8. Told(c, z, U + 1)
  <2>1. /\ Floor(c.cut[U]) \in Nat /\ Floor(c.cut[U + 1]) \in Nat /\ Floor(c.cut[U]) <= Floor(c.cut[U + 1])
        /\ c.lo \in Nat
    BY <1>4, CutsGrow DEF Call
  <2>2. c.lo <= Floor(c.cut[U]) /\ Run(c, z.out, c.lo, Floor(c.cut[U]))
    BY <1>2, <1>5 DEF Said, Told
  <2>3. c.lo <= c.lo /\ c.lo <= Floor(c.cut[U + 1])
    BY <2>1, <2>2
  <2>4. Run(c, z.out, c.lo, Floor(c.cut[U + 1]))
    BY <2>1, <2>2, <2>3, RunWiden DEF Call
  <2>5. QED
    BY <2>3, <2>4 DEF Told
<1>9. Waiting(c, z, U + 1, c.low)
  <2>1. SUFFICES ASSUME z.sdu # << >>
                 PROVE \E I \in 1..(U + 1) : /\ c.low <= I /\ U + 1 < I + Window /\ z.inSdu = (I - 1) % Mod
                                             /\ c.cut[I].open /\ z.sdu = Part(c.by, c.cut[I].k, 0, c.cut[I].o)
    BY DEF Waiting
  <2>2. PICK I \in 1..U : /\ c.low <= I /\ U < I + Window /\ q.inSdu = (I - 1) % Mod
                          /\ c.cut[I].open /\ q.sdu = Part(c.by, c.cut[I].k, 0, c.cut[I].o)
    BY <1>2, <1>5, <2>1 DEF Said, Waiting
  <2>3. I \in 1..(U + 1) /\ U + 1 < I + Window
    BY <1>1, <1>4, <2>2
  <2>4. QED
    BY <1>5, <2>2, <2>3
<1>10. c.low <= U + 1 /\ c.top - (U + 1) <= Window
  BY <1>1, <1>2, <1>4
<1>11. InsideReorderingWindow(z, z.ur)
  BY <1>7, <1>10, BaseEdges
<1>12. Said(c, z, U + 1)
  BY <1>7, <1>8, <1>9 DEF Said
<1>13. Steady(c, ReassembleRxSdus(z))
  BY <1>10, <1>11, <1>12, ReassembleTells
<1>14. QED
  BY <1>13 DEF SkipNumber, z

\* timer_expired hands up what was sent, in order.
LEMMA GiveUpTells ==
    ASSUME RlcAssumption, NEW c, Call(c), c.low = c.top - Window + 1,
           (c.ux - (c.top % Mod) - Window) % Mod <= Window,
           NEW r \in Settled, Steady(c, GivingUp(r))
    PROVE  Steady(c, GiveUp(r))
<1>1. Mod \in Nat
  BY Numbers
<1> DEFINE S == {q \in Settled : Steady(c, q)}
           J == [k \in 0..Mod |-> S]
<1>2. \A k \in 0..Mod : J[k] \subseteq Settled
  OBVIOUS
<1>3. GivingUp(r) \in J[0]
  BY <1>1, SteadySettled
<1>4. ASSUME NEW k \in 0..(Mod - 1), NEW v \in J[k]
      PROVE (IF Base(v, v.ur) < Base(v, v.ux) THEN SkipNumber(v) ELSE v) \in J[k + 1]
  <2>1. k \in 0..Mod /\ k + 1 \in 0..Mod
    BY <1>1
  <2>2. v \in Settled /\ Steady(c, v) /\ J[k + 1] = S
    BY <2>1
  <2>3. CASE Base(v, v.ur) < Base(v, v.ux)
    <3>1. Steady(c, SkipNumber(v))
      BY <2>2, <2>3, SkipTells
    <3>2. SkipNumber(v) \in Settled
      BY <3>1, SteadySettled
    <3>3. QED
      BY <2>2, <2>3, <3>1, <3>2
  <2>4. QED
    BY <2>2, <2>3
<1>5. J[Mod] = S
  BY <1>1
<1> HIDE DEF J
<1>6. GiveUp(r) \in J[Mod]
  BY <1>2, <1>3, <1>4, GiveUpFold
<1>7. QED
  BY <1>5, <1>6

\* Which PDUs are old, which move VR(UH), and that a PDU kept is in its place.
LEMMA TakenTells ==
    ASSUME RlcAssumption, NEW c, Call(c), NEW r, NEW U, Tracked(c, r, U), c.top - U <= Window,
           ~Holds(r, r.ur), NEW p \in Cast(c), p.number - 1 - c.top \in (-Window)..(Window - 1),
           NEW d, Call(d), d.cut = c.cut, d.by = c.by, d.input = c.input, d.count = c.count, d.ux = c.ux,
           d.top = (IF c.top < p.number THEN p.number ELSE c.top),
           ~Outside(r, p.sn), ~Holds(r, p.sn)
    PROVE  /\ Tracked(d, Taken(r, p), U)
           /\ d.top - U <= Window \/ (d.top - U <= Mod /\ TopHeld(Taken(r, p), d.top - U))
           /\ ~InsideReorderingWindow(Taken(r, p), Taken(r, p).ur) => ~Holds(Taken(r, p), Taken(r, p).ur)
           /\ Taken(r, p).sdu = r.sdu /\ Taken(r, p).inSdu = r.inSdu /\ Taken(r, p).out = r.out
<1> DEFINE q == Taken(r, p)
           kept == [r EXCEPT !.window = @ \cup {p}]
<1>1. Window \in Nat \ {0} /\ Mod \in Nat \ {0} /\ Mod = 2 * Window
  BY Numbers
<1>2. U \in Nat /\ c.top \in Nat /\ c.top - U \in Nat
  BY TrackedAt
<1>3. PICK T \in Nat : T = p.number - 1 /\ p.number = T + 1 /\ p \in Pdu /\ p.sn = T % Mod /\ p.number \in Nat
  <2>1. p \in Pdu /\ p.number \in Nat \ {0} /\ p.sn = (p.number - 1) % Mod
    BY DEF Cast, Pdu
  <2>2. QED
    BY <2>1
<1>4. Base(r, p.sn) = T - c.top + Window /\ T - c.top \in (-Window)..(Window - 1)
  <2>1. T \in Int /\ T - c.top \in (-Window)..(Window - 1)
    BY <1>3
  <2>2. Base(r, T % Mod) = T - c.top + Window
    BY <2>1, BaseTracked
  <2>3. QED
    BY <1>3, <2>1, <2>2
<1>5. Base(r, r.ur) = Window - (c.top - U) /\ Base(r, r.uh) = Window /\ Base(r, r.uh - Window) = 0
  BY BaseEdges
<1>6. U <= T
  BY <1>1, <1>2, <1>3, <1>4, <1>5 DEF Outside
<1>7. r \in RxState /\ r.ux = c.ux /\ r.ur = U % Mod /\ r.uh = c.top % Mod /\ U \in 0..c.top
  BY DEF Tracked
<1>8. /\ kept \in RxState /\ kept.ur = r.ur /\ kept.uh = r.uh /\ kept.ux = r.ux
      /\ kept.window = r.window \cup {p} /\ kept.sdu = r.sdu /\ kept.inSdu = r.inSdu /\ kept.out = r.out
  BY <1>3, <1>7 DEF RxState
<1>9. q = IF InsideReorderingWindow(kept, p.sn) THEN kept ELSE [kept EXCEPT !.uh = (p.sn + 1) % Mod]
  BY DEF Taken
<1>10. InsideReorderingWindow(kept, p.sn) <=> T < c.top
  <2>1. /\ Base(kept, p.sn) = T - c.top + Window /\ Base(kept, kept.uh) = Window
        /\ Base(kept, kept.uh - Window) = 0
    BY <1>4, <1>5, <1>8 DEF Base
  <2>2. kept.window # {}
    BY <1>8
  <2>3. QED
    BY <1>1, <1>2, <1>4, <2>1, <2>2 DEF InsideReorderingWindow
<1> HIDE DEF kept, q
<1>11. d.top \in Nat /\ c.top <= d.top /\ T < d.top /\ (T < c.top => d.top = c.top) /\ (~(T < c.top) => d.top = T + 1)
  BY <1>2, <1>3
<1>12. /\ q \in RxState /\ q.ur = r.ur /\ q.ux = r.ux /\ q.window = r.window \cup {p}
       /\ q.sdu = r.sdu /\ q.inSdu = r.inSdu /\ q.out = r.out /\ q.uh = d.top % Mod
  <2>1. CASE T < c.top
    BY <1>7, <1>8, <1>9, <1>10, <1>11, <2>1
  <2>2. CASE ~(T < c.top)
    <3>1. (p.sn + 1) % Mod \in Sn
      BY <1>3, NextType DEF Pdu
    <3>2. (p.sn + 1) % Mod = (T + 1) % Mod
      <4>1. T \in Int /\ 1 \in Int
        OBVIOUS
      <4>2. ((T % Mod) + 1) % Mod = (T + 1) % Mod
        BY <1>1, <4>1, ModAdd
      <4>3. QED
        BY <1>3, <4>2
    <3>3. q = [kept EXCEPT !.uh = (p.sn + 1) % Mod]
      BY <1>9, <1>10, <2>2
    <3>4. QED
      BY <1>8, <1>11, <2>2, <3>1, <3>2, <3>3 DEF RxState
  <2>3. QED
    BY <2>1, <2>2
<1>13. Cast(d) = Cast(c)
  BY DEF Cast, Fits, Until
<1>14. Tracked(d, q, U)
  <2>1. U \in 0..d.top
    BY <1>2, <1>7, <1>11
  <2>2. ASSUME NEW x \in q.window PROVE x \in Cast(d) /\ x.number - 1 \in U..(d.top - 1)
    <3>1. CASE x = p
      <4>1. T \in U..(d.top - 1)
        BY <1>2, <1>6, <1>11
      <4>2. QED
        BY <1>3, <1>13, <3>1, <4>1
    <3>2. CASE x \in r.window
      <4>1. x \in Cast(c) /\ x.number - 1 \in U..(c.top - 1)
        BY <3>2 DEF Tracked
      <4>2. QED
        BY <1>2, <1>11, <1>13, <4>1
    <3>3. QED
      BY <1>12, <2>2, <3>1, <3>2
  <2>3. \A x, y \in q.window : x.sn = y.sn => x = y
    BY <1>12 DEF Tracked, Holds
  <2>4. QED
    BY <1>7, <1>12, <2>1, <2>2, <2>3 DEF Tracked
<1>15. d.top - U <= Window \/ (d.top - U <= Mod /\ d.top = T + 1)
  BY <1>1, <1>2, <1>4, <1>11
<1>16. d.top = T + 1 => TopHeld(q, d.top - U)
  <2>1. SUFFICES ASSUME d.top = T + 1 PROVE TopHeld(q, d.top - U)
    OBVIOUS
  <2>2. PICK j \in Int : j = (d.top - U) - 1 /\ U + j = T /\ U \in Int
    BY <1>2, <2>1
  <2>3. ((U % Mod) + j) % Mod = (U + j) % Mod
    BY <1>1, <2>2, ModAdd
  <2>4. p \in q.window /\ p.sn = (q.ur + ((d.top - U) - 1)) % Mod
    BY <1>3, <1>7, <1>12, <2>2, <2>3
  <2>5. QED
    BY <2>4 DEF TopHeld
<1>17. ~InsideReorderingWindow(q, q.ur) => ~Holds(q, q.ur)
  <2>1. SUFFICES ASSUME Holds(q, q.ur) PROVE InsideReorderingWindow(q, q.ur)
    OBVIOUS
  <2>2. p.sn = r.ur
    BY <1>12, <2>1 DEF Holds
  <2>3. Base(r, r.ur) = T - c.top + Window
    BY <1>4, <2>2
  <2>4. T = U
    BY <1>1, <1>2, <1>5, <2>3
  <2>5. d.top - U <= Window
    BY <1>1, <1>2, <1>11, <2>4
  <2>6. QED
    BY <1>14, <2>5, BaseEdges
<1>18. QED
  BY <1>12, <1>14, <1>15, <1>16, <1>17 DEF q
-------------------------------------------------------------------------------
(* From call to call.                                                         *)

\* The same history.
SameStory(c, d) == d.by = c.by /\ d.input = c.input /\ d.cut = c.cut /\ d.count = c.count

\* A call with the same history.
Framed(c, top, lo, low) ==
    [by |-> c.by, input |-> c.input, cut |-> c.cut, count |-> c.count,
     ux |-> c.ux, top |-> top, lo |-> lo, low |-> low]

\* It is a call, and its history is the same.
LEMMA FramedCall ==
    ASSUME NEW c, Story(c), NEW top \in 0..c.count, NEW lo \in Nat, NEW low \in Int
    PROVE  /\ Call(Framed(c, top, lo, low)) /\ SameStory(c, Framed(c, top, lo, low))
           /\ Framed(c, top, lo, low).top = top /\ Framed(c, top, lo, low).lo = lo
           /\ Framed(c, top, lo, low).low = low /\ Framed(c, top, lo, low).ux = c.ux
<1> DEFINE d == Framed(c, top, lo, low)
<1>1. d.by = c.by /\ d.input = c.input /\ d.cut = c.cut /\ d.count = c.count
  BY DEF Framed
<1>2. d.top = top /\ d.lo = lo /\ d.low = low /\ d.ux = c.ux
  BY DEF Framed
<1> HIDE DEF d
<1>3. Story(d)
  BY <1>1 DEF Story
<1>4. QED
  BY <1>1, <1>2, <1>3 DEF Call, SameStory, d

\* Between calls: what was handed up until now, out, was sent before U.
Heard(c, r, out) ==
    \E U \in 0..c.top :
       /\ Tracked(c, r, U) /\ Waiting(c, r, U, -Window)
       /\ c.top - U <= Window /\ ~Holds(r, r.ur)
       /\ r.out = << >> /\ Run(c, out, 1, Floor(c.cut[U]))

\* At the end of a call, before what it handed up moves on.
Ending(c, q, out) ==
    \E U \in 0..c.top :
       /\ Tracked(c, q, U) /\ Waiting(c, q, U, -Window)
       /\ c.top - U <= Window /\ ~Holds(q, q.ur)
       /\ Run(c, out \o q.out, 1, Floor(c.cut[U]))

\* A call that began where the last one had ended, d.lo, ends well.
LEMMA SteadyEnds ==
    ASSUME RlcAssumption, NEW c, Call(c), NEW d, Call(d), SameStory(c, d), d.lo \in Nat, 1 <= d.lo,
           NEW out, Run(c, out, 1, d.lo), -Window <= d.low, NEW q, Steady(d, q)
    PROVE  Ending(d, q, out)
<1>1. PICK U \in 0..d.top : Said(d, q, U) /\ d.top - U <= Window /\ ~Holds(q, q.ur)
  BY DEF Steady
<1>2. Tracked(d, q, U) /\ Told(d, q, U) /\ Waiting(d, q, U, d.low)
  BY <1>1 DEF Said
<1>3. Run(d, out \o q.out, 1, Floor(d.cut[U]))
  <2>1. U \in 0..d.count
    BY <1>2, TrackedAt
  <2>2. Floor(d.cut[U]) \in Nat /\ Story(d)
    BY <2>1, CutsGrow DEF Call
  <2>3. Run(d, out, 1, d.lo)
    BY DEF Run, SameStory
  <2>4. Run(d, q.out, d.lo, Floor(d.cut[U])) /\ d.lo <= Floor(d.cut[U]) /\ 1 \in Nat
    BY <1>2 DEF Told
  <2>5. QED
    BY <2>2, <2>3, <2>4, RunConcat
<1>4. Waiting(d, q, U, -Window)
  <2>1. SUFFICES ASSUME q.sdu # << >>
                 PROVE \E I \in 1..U : /\ -Window <= I /\ U < I + Window /\ q.inSdu = (I - 1) % Mod
                                       /\ d.cut[I].open /\ q.sdu = Part(d.by, d.cut[I].k, 0, d.cut[I].o)
    BY DEF Waiting
  <2>2. PICK I \in 1..U : /\ d.low <= I /\ U < I + Window /\ q.inSdu = (I - 1) % Mod
                          /\ d.cut[I].open /\ q.sdu = Part(d.by, d.cut[I].k, 0, d.cut[I].o)
    BY <1>2, <2>1 DEF Waiting
  <2>3. -Window <= I
    <3>1. Window \in Int /\ d.low \in Int /\ I \in Int
      BY Numbers DEF Call
    <3>2. QED
      BY <2>2, <3>1
  <2>4. QED
    BY <2>2, <2>3
<1>5. QED
  BY <1>1, <1>2, <1>3, <1>4 DEF Ending

\* What it handed up moves on, and VR(UX) may be set.
LEMMA EndsHeard ==
    ASSUME RlcAssumption, NEW c, NEW d, SameStory(c, d), d.top = c.top, NEW q \in RxState, NEW out,
           Ending(c, q, out), NEW x \in Sn, d.ux = x
    PROVE  Heard(d, [[q EXCEPT !.ux = x] EXCEPT !.out = << >>], out \o q.out)
<1> DEFINE z == [[q EXCEPT !.ux = x] EXCEPT !.out = << >>]
<1>1. PICK U \in 0..c.top : /\ Tracked(c, q, U) /\ Waiting(c, q, U, -Window)
                            /\ c.top - U <= Window /\ ~Holds(q, q.ur)
                            /\ Run(c, out \o q.out, 1, Floor(c.cut[U]))
  BY DEF Ending
<1>2. << >> \in Seq(Sdu)
  BY EmptySeq
<1>3. /\ z \in RxState /\ z.ux = x /\ z.ur = q.ur /\ z.uh = q.uh /\ z.window = q.window
      /\ z.sdu = q.sdu /\ z.inSdu = q.inSdu /\ z.out = << >>
  BY <1>2 DEF RxState
<1> HIDE DEF z
<1>4. Cast(d) = Cast(c)
  BY DEF Cast, Fits, Until, SameStory
<1>5. Tracked(d, z, U)
  BY <1>1, <1>3, <1>4 DEF Tracked
<1>6. Waiting(d, z, U, -Window)
  BY <1>1, <1>3 DEF Waiting, SameStory
<1>7. ~Holds(z, z.ur)
  BY <1>1, <1>3 DEF Holds
<1>8. Run(d, out \o q.out, 1, Floor(d.cut[U]))
  BY <1>1 DEF Run, SameStory
<1>9. U \in 0..d.top /\ d.top - U <= Window
  BY <1>1
<1>10. Heard(d, z, out \o q.out)
  BY <1>3, <1>5, <1>6, <1>7, <1>8, <1>9 DEF Heard
<1>11. QED
  BY <1>10 DEF z

\* A PDU that is old or there already does not move VR(UH).
LEMMA IgnoredStays ==
    ASSUME RlcAssumption, NEW c, Call(c), NEW r, NEW U, Tracked(c, r, U), c.top - U <= Window,
           NEW p \in Cast(c), p.number - 1 - c.top \in (-Window)..(Window - 1),
           Outside(r, p.sn) \/ Holds(r, p.sn)
    PROVE  p.number <= c.top
<1>1. Window \in Nat \ {0} /\ Mod \in Nat \ {0} /\ Mod = 2 * Window
  BY Numbers
<1>2. U \in Nat /\ c.top \in Nat /\ c.top - U \in Nat
  BY TrackedAt
<1>3. PICK T \in Int : T = p.number - 1 /\ p.number = T + 1 /\ p.sn = T % Mod
  <2>1. p.number \in Int /\ p.sn = (p.number - 1) % Mod
    BY DEF Cast, Pdu
  <2>2. QED
    BY <2>1
<1>4. Base(r, p.sn) = T - c.top + Window /\ T - c.top \in (-Window)..(Window - 1)
  <2>1. T - c.top \in (-Window)..(Window - 1)
    BY <1>3
  <2>2. Base(r, T % Mod) = T - c.top + Window
    BY <2>1, BaseTracked
  <2>3. QED
    BY <1>3, <2>1, <2>2
<1>5. CASE Outside(r, p.sn)
  <2>1. Base(r, r.ur) = Window - (c.top - U)
    BY BaseEdges
  <2>2. Base(r, p.sn) < Base(r, r.ur)
    BY <1>5 DEF Outside
  <2>3. QED
    BY <1>1, <1>2, <1>3, <1>4, <2>1, <2>2
<1>6. CASE Holds(r, p.sn)
  <2>1. PICK y \in r.window : y.sn = p.sn
    BY <1>6 DEF Holds
  <2>2. y \in Cast(c) /\ y.number - 1 \in U..(c.top - 1) /\ y.number \in Int /\ y.sn = (y.number - 1) % Mod
    BY DEF Tracked, Cast, Pdu
  <2>3. PICK S \in Int : S = y.number - 1 /\ S < c.top /\ S - c.top \in (-Window)..(Window - 1)
    BY <1>1, <1>2, <2>2
  <2>4. Base(r, S % Mod) = S - c.top + Window
    BY <2>3, BaseTracked
  <2>5. S - c.top + Window = T - c.top + Window
    BY <1>4, <2>1, <2>2, <2>3, <2>4
  <2>6. QED
    BY <1>1, <1>2, <1>3, <2>3, <2>5
<1>7. QED
  BY <1>5, <1>6

\* A PDU received ends well.
LEMMA ReceiveEnds ==
    ASSUME RlcAssumption, NEW c, Call(c), NEW r, NEW out, Heard(c, r, out),
           NEW p \in Cast(c), p.number - 1 - c.top \in (-Window)..(Window - 1),
           ~Outside(r, p.sn), ~Holds(r, p.sn), NEW top,
           top = (IF c.top < p.number THEN p.number ELSE c.top)
    PROVE  \E lo, low : Ending(Framed(c, top, lo, low), ReassembleRxSdus(Taken(r, p)), out)
<1>1. PICK U \in 0..c.top : /\ Tracked(c, r, U) /\ Waiting(c, r, U, -Window)
                            /\ c.top - U <= Window /\ ~Holds(r, r.ur)
                            /\ r.out = << >> /\ Run(c, out, 1, Floor(c.cut[U]))
  BY DEF Heard
<1>2. PICK lo \in Nat : lo = Floor(c.cut[U]) /\ 1 <= lo
  <2>1. U \in 0..c.count
    BY <1>1, TrackedAt
  <2>2. QED
    BY <2>1, CutsGrow DEF Call
<1>3. PICK low \in Int : low = -Window /\ low <= U /\ -Window <= low /\ U \in Nat
  <2>1. U \in Nat
    BY <1>1, TrackedAt
  <2>2. -Window \in Int /\ -Window <= U /\ -Window <= -Window
    BY <2>1, Numbers
  <2>3. QED
    BY <2>1, <2>2
<1>4. top \in 0..c.count
  <2>1. p.number \in 1..c.count /\ c.top \in 0..c.count /\ c.count \in Nat
    BY DEF Cast, Call, Story
  <2>2. QED
    BY <2>1
<1> DEFINE d == Framed(c, top, lo, low)
<1>5. /\ Call(d) /\ SameStory(c, d) /\ d.top = top /\ d.lo = lo /\ d.low = low /\ d.ux = c.ux
  BY <1>4, FramedCall DEF Call
<1> HIDE DEF d
<1>6. /\ Tracked(d, Taken(r, p), U)
      /\ d.top - U <= Window \/ (d.top - U <= Mod /\ TopHeld(Taken(r, p), d.top - U))
      /\ ~InsideReorderingWindow(Taken(r, p), Taken(r, p).ur) => ~Holds(Taken(r, p), Taken(r, p).ur)
      /\ Taken(r, p).sdu = r.sdu /\ Taken(r, p).inSdu = r.inSdu /\ Taken(r, p).out = r.out
  BY <1>1, <1>5, TakenTells DEF SameStory
<1>7. Told(d, Taken(r, p), U)
  <2>1. Floor(d.cut[U]) = lo /\ lo <= lo /\ Taken(r, p).out = << >>
    BY <1>1, <1>2, <1>5, <1>6 DEF SameStory
  <2>2. Run(d, << >>, lo, lo)
    BY EmptySeq DEF Run
  <2>3. QED
    BY <1>5, <2>1, <2>2 DEF Told
<1>8. Waiting(d, Taken(r, p), U, d.low)
  BY <1>1, <1>3, <1>5, <1>6 DEF Waiting, SameStory
<1>9. Steady(d, ReassembleRxSdus(Taken(r, p)))
  <2>1. Said(d, Taken(r, p), U)
    BY <1>6, <1>7, <1>8 DEF Said
  <2>2. d.low <= U
    BY <1>3, <1>5
  <2>3. QED
    BY <1>5, <1>6, <2>1, <2>2, ReassembleTells
<1>10. Run(c, out, 1, d.lo)
  BY <1>1, <1>2, <1>5
<1>11. d.lo \in Nat /\ 1 <= d.lo /\ -Window <= d.low
  BY <1>2, <1>3, <1>5
<1>12. Ending(d, ReassembleRxSdus(Taken(r, p)), out)
  BY <1>5, <1>9, <1>10, <1>11, SteadyEnds
<1>13. QED
  BY <1>12 DEF d

\* timer_expired ends well, if VR(UX) is at most a window from the lower edge.
LEMMA GiveUpEnds ==
    ASSUME RlcAssumption, NEW c, Call(c), NEW r \in Settled, NEW out, Heard(c, r, out),
           Base(r, r.ux) <= Window
    PROVE  \E lo, low : Ending(Framed(c, c.top, lo, low), GiveUp(r), out)
<1>1. PICK U \in 0..c.top : /\ Tracked(c, r, U) /\ Waiting(c, r, U, -Window)
                            /\ c.top - U <= Window /\ ~Holds(r, r.ur)
                            /\ r.out = << >> /\ Run(c, out, 1, Floor(c.cut[U]))
  BY DEF Heard
<1>2. PICK lo \in Nat : lo = Floor(c.cut[U]) /\ 1 <= lo
  <2>1. U \in 0..c.count
    BY <1>1, TrackedAt
  <2>2. QED
    BY <2>1, CutsGrow DEF Call
<1>3. PICK low \in Int : low = c.top - Window + 1 /\ -Window <= low
  <2>1. c.top \in Nat
    BY <1>1, TrackedAt
  <2>2. c.top - Window + 1 \in Int /\ -Window <= c.top - Window + 1
    BY <2>1, Numbers
  <2>3. QED
    BY <2>2
<1> DEFINE d == Framed(c, c.top, lo, low)
<1>4. /\ Call(d) /\ SameStory(c, d) /\ d.top = c.top /\ d.lo = lo /\ d.low = low /\ d.ux = c.ux
  BY FramedCall DEF Call
<1> HIDE DEF d
<1> DEFINE z == GivingUp(r)
<1>5. /\ z.ur = r.ur /\ z.ux = r.ux /\ z.uh = r.uh /\ z.window = r.window /\ z.sdu = << >> /\ z.out = r.out
      /\ z \in RxState
  BY GivingUpSettled DEF Settled
<1> HIDE DEF z
<1>6. Cast(d) = Cast(c)
  BY <1>4 DEF Cast, Fits, Until, SameStory
<1>7. Tracked(d, z, U)
  BY <1>1, <1>4, <1>5, <1>6 DEF Tracked
<1>8. Told(d, z, U)
  <2>1. Floor(d.cut[U]) = lo /\ lo <= lo /\ z.out = << >>
    BY <1>1, <1>2, <1>4, <1>5 DEF SameStory
  <2>2. Run(d, << >>, lo, lo)
    BY EmptySeq DEF Run
  <2>3. QED
    BY <1>4, <2>1, <2>2 DEF Told
<1>9. Waiting(d, z, U, d.low)
  BY <1>5 DEF Waiting
<1>10. Steady(d, z)
  <2>1. Said(d, z, U)
    BY <1>7, <1>8, <1>9 DEF Said
  <2>2. ~Holds(z, z.ur)
    BY <1>1, <1>5 DEF Holds
  <2>3. QED
    BY <1>1, <1>4, <2>1, <2>2 DEF Steady
<1>11. (d.ux - (d.top % Mod) - Window) % Mod <= Window
  BY <1>1, <1>4 DEF Base, Tracked
<1>12. Steady(d, GiveUp(r))
  <2>1. d.low = d.top - Window + 1
    BY <1>3, <1>4
  <2>2. QED
    BY <1>4, <1>10, <1>11, <2>1, GiveUpTells DEF z
<1>13. Run(c, out, 1, d.lo)
  BY <1>1, <1>2, <1>4
<1>14. d.lo \in Nat /\ 1 <= d.lo /\ -Window <= d.low
  BY <1>2, <1>3, <1>4
<1>15. Ending(d, GiveUp(r), out)
  BY <1>4, <1>12, <1>13, <1>14, SteadyEnds
<1>16. QED
  BY <1>15 DEF d
-------------------------------------------------------------------------------
(* The history grows.                                                         *)

\* More SDUs and more PDUs.
Grown(c, d) ==
    /\ d.by = c.by /\ d.top = c.top /\ d.ux = c.ux
    /\ c.count <= d.count /\ \A n \in 0..c.count : d.cut[n] = c.cut[n]
    /\ Len(c.input) <= Len(d.input) /\ \A k \in 1..Len(c.input) : d.input[k] = c.input[k]

\* A PDU still carries what was sent between its cuts.
LEMMA FitsGrown ==
    ASSUME NEW c, Story(c), NEW d, Story(d), Grown(c, d), NEW p \in Pdu,
           NEW b \in Cuts, NEW e \in Cuts, Fits(c, p, b, e)
    PROVE  Fits(d, p, b, e)
<1>1. /\ Floor(b) \in 1..Len(c.input) /\ Len(c.input) \in Nat /\ e.k <= Len(c.input) /\ e.k \in 1..Len(c.input)
      /\ Floor(b) \in Nat
  BY FitsNumbers
<1>2. Len(d.input) \in Nat /\ Len(c.input) <= Len(d.input)
  BY LenProperties DEF Story, Grown
<1>3. PICK n \in Nat \ {0} : n = Len(p.segs) /\ e.k = Floor(b) + n - 1
  BY FitsNumbers DEF Fits
<1>4. ASSUME NEW x \in 1..Len(p.segs)
      PROVE  Until(d, p, b, e, x) = Until(c, p, b, e, x)
  <2>1. CASE x = Len(p.segs)
    BY <2>1 DEF Until
  <2>2. CASE x # Len(p.segs)
    <3>1. x \in 1..(n - 1)
      BY <1>3, <2>2
    <3>2. Floor(b) + x - 1 \in 1..Len(c.input)
      BY <1>1, <1>3, <3>1
    <3>3. d.input[Floor(b) + x - 1] = c.input[Floor(b) + x - 1]
      BY <3>2 DEF Grown
    <3>4. QED
      BY <2>2, <3>3 DEF Until
  <2>3. QED
    BY <2>1, <2>2
<1>5. \A x \in 1..Len(p.segs) :
          /\ From(b, x) <= Until(d, p, b, e, x)
          /\ p.segs[x] = Part(d.by, Floor(b) + x - 1, From(b, x), Until(d, p, b, e, x))
  BY <1>4 DEF Fits, Grown
<1>6. ~e.open => e.o = Len(d.input[e.k])
  BY <1>1 DEF Fits, Grown
<1>7. e.k <= Len(d.input)
  BY <1>1, <1>2
<1>8. QED
  BY <1>5, <1>6, <1>7 DEF Fits

\* The PDUs built are still there.
LEMMA CastGrown ==
    ASSUME NEW c, Story(c), NEW d, Story(d), Grown(c, d)
    PROVE  Cast(c) \subseteq Cast(d)
<1>1. c.count \in Nat /\ d.count \in Nat /\ c.count <= d.count
  BY DEF Story, Grown
<1>2. ASSUME NEW p \in Cast(c) PROVE p \in Cast(d)
  <2>1. p \in Pdu /\ p.number \in 1..c.count /\ p.number - 1 \in 0..c.count /\ p.number \in 0..c.count
    BY <1>1 DEF Cast
  <2>2. c.cut[p.number - 1] \in Cuts /\ c.cut[p.number] \in Cuts
    BY <2>1, CutsGrow
  <2>3. Fits(c, p, c.cut[p.number - 1], c.cut[p.number])
    BY DEF Cast
  <2>4. Fits(d, p, c.cut[p.number - 1], c.cut[p.number])
    BY <2>1, <2>2, <2>3, FitsGrown
  <2>5. d.cut[p.number - 1] = c.cut[p.number - 1] /\ d.cut[p.number] = c.cut[p.number]
    BY <2>1 DEF Grown
  <2>6. p.number \in 1..d.count
    BY <1>1, <2>1
  <2>7. QED
    BY <2>1, <2>4, <2>5, <2>6 DEF Cast
<1>3. QED
  BY <1>2

\* The receiver does not notice.
LEMMA HeardGrown ==
    ASSUME RlcAssumption, NEW c, Call(c), NEW d, Call(d), Grown(c, d), NEW r, NEW out, Heard(c, r, out)
    PROVE  Heard(d, r, out)
<1>1. PICK U \in 0..c.top : /\ Tracked(c, r, U) /\ Waiting(c, r, U, -Window)
                            /\ c.top - U <= Window /\ ~Holds(r, r.ur)
                            /\ r.out = << >> /\ Run(c, out, 1, Floor(c.cut[U]))
  BY DEF Heard
<1>2. U \in Nat /\ U \in 0..c.count /\ d.cut[U] = c.cut[U]
  BY <1>1, TrackedAt DEF Grown
<1>3. Tracked(d, r, U)
  BY <1>1, CastGrown DEF Tracked, Grown, Call
<1>4. Waiting(d, r, U, -Window)
  <2>1. \A I \in 1..U : d.cut[I] = c.cut[I]
    <3>1. c.count \in Nat
      BY DEF Call, Story
    <3>2. QED
      BY <1>2, <3>1 DEF Grown
  <2>2. d.by = c.by
    BY DEF Grown
  <2>3. QED
    BY <1>1, <2>1, <2>2 DEF Waiting
<1>5. Run(d, out, 1, Floor(d.cut[U]))
  <2>1. Len(c.input) \in Nat /\ Len(d.input) \in Nat /\ Len(c.input) <= Len(d.input)
    BY LenProperties DEF Call, Story, Grown
  <2>2. \A k \in 1..Len(c.input) : k \in 1..Len(d.input) /\ d.input[k] = c.input[k]
    BY <2>1 DEF Grown
  <2>3. QED
    BY <1>1, <1>2, <2>2 DEF Run
<1>6. d.top = c.top
  BY DEF Grown
<1>7. QED
  BY <1>1, <1>3, <1>4, <1>5, <1>6 DEF Heard

-------------------------------------------------------------------------------
(* The sender and its history.                                                *)

\* The sender's state, and where its last PDU ended.
Sent(c, t) ==
    LET e == c.cut[c.count]
    IN  /\ t.sn = c.count % Mod
        /\ e.open <=> t.sdu # << >>
        /\ e.open => /\ e.k \in 1..Len(c.input) /\ e.o <= Len(c.input[e.k])
                     /\ t.sdu = Part(c.by, e.k, e.o, Len(c.input[e.k]))
        /\ e.k + Len(t.queue) = Len(c.input)
        /\ \A i \in 1..Len(t.queue) : t.queue[i] = c.input[e.k + i]

\* The PDU under construction, as a PDU that ends here.
Draft(b, g) == [segs |-> g.segs, startAligned |-> ~b.open, endAligned |-> g.sdu = << >>]

\* The PDU under construction g, begun at the cut b: without a segment, nothing has been taken
\* yet; with one, it fits, and what it left of its last SDU and the queue come next.  An SDU is
\* cut only when the PDU is full.
Drafted(c, b, queue, g) ==
    /\ g.segs = << >> => ~b.open /\ g.sdu = << >> /\ g.queue = queue
    /\ g.segs # << >> =>
         \E e \in Cuts :
            /\ Fits(c, Draft(b, g), b, e)
            /\ e.o <= Len(c.input[e.k]) /\ g.sdu = Part(c.by, e.k, e.o, Len(c.input[e.k]))
            /\ e.k + Len(g.queue) = Len(c.input)
            /\ \A i \in 1..Len(g.queue) : g.queue[i] = c.input[e.k + i]
    /\ g.sdu # << >> => g.room <= PackedLength(Indicators(g))

\* The rest of the SDU begun in an earlier PDU comes first.
LEMMA ContinueDrafted ==
    ASSUME NEW c, Story(c), NEW t, t.queue \in Seq(Sdu), t.sdu \in Sdu, Sent(c, t),
           NEW g \in Nat, g > PackedLength(0) + 1
    PROVE  Drafted(c, c.cut[c.count], t.queue, Continue(t, g))
<1> DEFINE n == Lesser(g - PackedLength(0), Len(t.sdu))
           d == Continue(t, g)
<1>1. PackedLength(0) = 2
  BY PackedLengths
<1>2. Len(t.sdu) \in Nat /\ (t.sdu = << >> => Len(t.sdu) = 0)
  BY LenProperties, EmptySeq DEF Sdu
<1>3. n \in 0..Len(t.sdu) /\ n \in Nat /\ (n # Len(t.sdu) => g - n = 2)
  <2>1. n = g - 2 \/ n = Len(t.sdu)
    BY <1>1 DEF Lesser
  <2>2. n <= Len(t.sdu) /\ g - 2 \in Nat
    BY <1>1, <1>2 DEF Lesser
  <2> HIDE DEF n
  <2>3. QED
    BY <1>2, <2>1, <2>2
<1>4. d = [queue |-> t.queue, sdu |-> OtherBytes(t.sdu, n), room |-> g - n,
           segs |-> IF t.sdu = << >> THEN << >> ELSE << FirstBytes(t.sdu, n) >>]
  BY DEF Continue
<1> HIDE DEF n, d
<1>5. PICK b \in Cuts : b = c.cut[c.count]
  <2>1. c.count \in 0..c.count
    BY DEF Story
  <2>2. QED
    BY <2>1, CutsGrow
<1>6. /\ b.open <=> t.sdu # << >>
      /\ b.open => /\ b.k \in 1..Len(c.input) /\ b.o <= Len(c.input[b.k])
                   /\ t.sdu = Part(c.by, b.k, b.o, Len(c.input[b.k]))
      /\ b.k + Len(t.queue) = Len(c.input)
      /\ \A i \in 1..Len(t.queue) : t.queue[i] = c.input[b.k + i]
  BY <1>5 DEF Sent
<1>7. CASE t.sdu = << >>
  <2>1. n = 0 /\ ~b.open
    BY <1>2, <1>3, <1>6, <1>7
  <2>2. OtherBytes(t.sdu, n) = << >>
    <3>1. SubSeq(t.sdu, 0 + 1, 0) = << >>
      BY <1>7
    <3>2. QED
      BY <1>2, <1>7, <2>1, <3>1 DEF OtherBytes
  <2>3. d.segs = << >> /\ d.sdu = << >> /\ d.queue = t.queue
    BY <1>4, <1>7, <2>2
  <2>4. QED
    BY <1>5, <2>1, <2>3 DEF Drafted, d
<1>8. CASE t.sdu # << >>
  <2>1. PICK k \in 1..Len(c.input), L \in Nat, o \in Nat :
           /\ k = b.k /\ L = Len(c.input[k]) /\ o = b.o /\ o <= L /\ t.sdu = Part(c.by, k, o, L)
           /\ k \in Nat
    <3>1. b.k \in 1..Len(c.input) /\ b.o <= Len(c.input[b.k])
          /\ t.sdu = Part(c.by, b.k, b.o, Len(c.input[b.k]))
      BY <1>6, <1>8
    <3>2. Len(c.input[b.k]) \in Nat /\ b.k \in Nat /\ b.o \in Nat
      BY <3>1, NumInput DEF Cuts
    <3>3. QED
      BY <3>1, <3>2
  <2>2. PICK a \in Sender : a = c.by
    BY DEF Story
  <2>3. /\ n \in 0..(L - o) /\ o + n \in Nat /\ o <= o + n /\ o + n <= L /\ (n # L - o => g - n = 2)
        /\ (o + n = L <=> n = L - o)
    <3>1. t.sdu = Part(a, k, o, L) /\ k \in Nat /\ o <= L
      BY <2>1, <2>2
    <3>2. Len(Part(a, k, o, L)) = L - o
      BY <3>1, PartIsSdu
    <3>3. n \in 0..(L - o) /\ (n # L - o => g - n = 2)
      BY <1>3, <3>1, <3>2
    <3>4. o + n \in Nat /\ o <= o + n /\ o + n <= L /\ (o + n = L <=> n = L - o)
      BY <1>3, <3>3
    <3>5. QED
      BY <3>3, <3>4
  <2>4. FirstBytes(t.sdu, n) = Part(c.by, k, o, o + n) /\ OtherBytes(t.sdu, n) = Part(c.by, k, o + n, L)
    <3>1. n \in 0..(L - o) /\ k \in Nat
      BY <2>1, <2>3
    <3>2. FirstBytes(Part(a, k, o, L), n) = Part(a, k, o, o + n)
          /\ OtherBytes(Part(a, k, o, L), n) = Part(a, k, o + n, L)
      BY <3>1, PartCut
    <3>3. QED
      BY <2>1, <2>2, <3>2
  <2>5. PICK e \in Cuts : e = [open |-> o + n # L, k |-> k, o |-> o + n]
    BY <2>1, <2>3 DEF Cuts
  <2>6. Part(c.by, k, o + n, L) = << >> <=> o + n = L
    <3>1. PICK z \in Nat : z = o + n /\ z <= L
      BY <2>3
    <3>2. k \in Nat /\ z <= L
      BY <2>1, <3>1
    <3>3. Part(a, k, z, L) = << >> <=> z = L
      BY <3>2, PartIsSdu
    <3>4. QED
      BY <2>2, <3>1, <3>3
  <2>7. /\ d.segs = << Part(c.by, k, o, o + n) >> /\ Len(d.segs) = 1 /\ d.segs # << >>
        /\ d.sdu = Part(c.by, k, o + n, L) /\ d.queue = t.queue /\ d.room = g - n
    BY <1>4, <1>8, <2>4
  <2>8. b.open /\ Floor(b) = k /\ From(b, 1) = o /\ b.k = k /\ k = k + 1 - 1 /\ 1 <= k /\ k <= Len(c.input)
    <3>1. Len(c.input) \in Nat
      BY LenProperties DEF Story
    <3>2. QED
      BY <1>6, <1>8, <2>1, <3>1 DEF Floor, From
  <2>9. Draft(b, d).segs = d.segs /\ Draft(b, d).startAligned = ~b.open
        /\ Draft(b, d).endAligned = ~e.open
    BY <2>5, <2>6, <2>7 DEF Draft
  <2>10. Until(c, Draft(b, d), b, e, 1) = o + n
    BY <2>5, <2>7, <2>9 DEF Until
  <2>11. Fits(c, Draft(b, d), b, e)
    <3>1. \A x \in 1..1 : /\ From(b, x) <= Until(c, Draft(b, d), b, e, x)
                          /\ d.segs[x] = Part(c.by, Floor(b) + x - 1, From(b, x), Until(c, Draft(b, d), b, e, x))
      <4>1. SUFFICES /\ From(b, 1) <= Until(c, Draft(b, d), b, e, 1)
                     /\ d.segs[1] = Part(c.by, Floor(b) + 1 - 1, From(b, 1), Until(c, Draft(b, d), b, e, 1))
        OBVIOUS
      <4>2. d.segs[1] = Part(c.by, k, o, o + n)
        BY <2>7
      <4>3. QED
        BY <2>3, <2>8, <2>10, <4>2
    <3>2. e.k = Floor(b) + 1 - 1 /\ 1 <= Floor(b) /\ e.k <= Len(c.input)
          /\ (~e.open => e.o = Len(c.input[e.k]))
      BY <2>1, <2>5, <2>8
    <3>3. QED
      BY <2>7, <2>9, <3>1, <3>2 DEF Fits
  <2>12. e.o <= Len(c.input[e.k]) /\ d.sdu = Part(c.by, e.k, e.o, Len(c.input[e.k]))
         /\ e.k + Len(d.queue) = Len(c.input)
         /\ \A i \in 1..Len(d.queue) : d.queue[i] = c.input[e.k + i]
    BY <1>6, <2>1, <2>3, <2>5, <2>7
  <2>13. d.sdu # << >> => d.room <= PackedLength(Indicators(d))
    <3>1. Indicators(d) = 0
      BY <2>7 DEF Indicators
    <3>2. d.sdu # << >> => d.room = 2
      BY <2>3, <2>6, <2>7
    <3>3. QED
      BY <1>1, <3>1, <3>2
  <2>14. QED
    BY <1>5, <2>7, <2>11, <2>12, <2>13 DEF Drafted, d
<1>9. QED
  BY <1>7, <1>8

\* A PDU under construction that holds whole SDUs, but for the start of the first, up to SDU m:
\* the queue goes on with m.
Whole(c, b, g, m) ==
    /\ m = Floor(b) + Len(g.segs) /\ m - 1 + Len(g.queue) = Len(c.input)
    /\ \A i \in 1..Len(g.queue) : g.queue[i] = c.input[m - 1 + i]
    /\ From(b, Len(g.segs) + 1) = 0
    /\ \A x \in 1..Len(g.segs) :
          /\ From(b, x) <= Len(c.input[Floor(b) + x - 1])
          /\ g.segs[x] = Part(c.by, Floor(b) + x - 1, From(b, x), Len(c.input[Floor(b) + x - 1]))

\* While more fits, no SDU has been cut.
LEMMA MayPullWhole ==
    ASSUME RlcAssumption, NEW c, Story(c), NEW b \in Cuts, NEW queue,
           b.k + Len(queue) = Len(c.input), \A i \in 1..Len(queue) : queue[i] = c.input[b.k + i],
           NEW g \in Building, MayPull(g), Drafted(c, b, queue, g)
    PROVE  \E m \in Nat : Whole(c, b, g, m)
<1>1. g.segs \in Seq(Sdu) /\ g.room \in Int /\ g.queue \in Seq(Sdu) /\ g.sdu \in Sdu
  BY DEF Building
<1>2. Len(g.segs) \in Nat /\ (g.segs = << >> <=> Len(g.segs) = 0) /\ Len(g.queue) \in Nat
  <2> HIDE DEF Sdu
  <2>1. QED
    BY <1>1, LenProperties, EmptySeq
<1>3. Floor(b) \in Nat /\ b.k \in Nat /\ b.o \in Nat
  BY DEF Cuts, Floor
<1>4. g.sdu = << >>
  <2>1. Indicators(g) \in Nat
    BY <1>2 DEF Indicators
  <2>2. PackedLength(Indicators(g)) \in Nat
    BY <2>1, PackedLengths
  <2>3. ~(g.room <= PackedLength(Indicators(g)))
    BY <1>1, <2>2 DEF MayPull
  <2>4. QED
    BY <2>3 DEF Drafted
<1>5. CASE g.segs = << >>
  <2>1. ~b.open /\ g.queue = queue
    BY <1>5 DEF Drafted
  <2>2. Floor(b) = b.k + 1 /\ Len(g.segs) = 0 /\ From(b, 0 + 1) = 0
    BY <1>2, <1>5, <2>1 DEF Floor, From
  <2>3. PICK m \in Nat : m = b.k + 1 /\ m - 1 = b.k /\ m = Floor(b) + 0
    BY <1>3, <2>2
  <2>4. m - 1 + Len(g.queue) = Len(c.input) /\ \A i \in 1..Len(g.queue) : g.queue[i] = c.input[m - 1 + i]
    BY <2>1, <2>3
  <2>5. \A x \in 1..Len(g.segs) : FALSE
    BY <2>2
  <2>6. m = Floor(b) + Len(g.segs) /\ From(b, Len(g.segs) + 1) = 0
    BY <2>2, <2>3
  <2>7. Whole(c, b, g, m)
    BY <2>4, <2>5, <2>6 DEF Whole
  <2>8. QED
    BY <2>7
<1>6. CASE g.segs # << >>
  <2>1. PICK e \in Cuts :
            /\ Fits(c, Draft(b, g), b, e)
            /\ e.k + Len(g.queue) = Len(c.input)
            /\ \A i \in 1..Len(g.queue) : g.queue[i] = c.input[e.k + i]
    BY <1>6 DEF Drafted
  <2>2. ~e.open /\ e.o = Len(c.input[e.k]) /\ e.k \in Nat /\ e.k = Floor(b) + Len(g.segs) - 1
    BY <1>4, <2>1 DEF Fits, Draft, Cuts
  <2>3. PICK m \in Nat : m = e.k + 1 /\ m - 1 = e.k /\ m = Floor(b) + Len(g.segs)
    <3>1. PICK k \in Nat, f \in Nat, s \in Nat : k = e.k /\ f = Floor(b) /\ s = Len(g.segs)
      BY <1>2, <1>3, <2>2
    <3>2. k = f + s - 1
      BY <2>2, <3>1
    <3>3. k + 1 \in Nat /\ (k + 1) - 1 = k /\ k + 1 = f + s
      BY <3>2
    <3>4. QED
      BY <3>1, <3>3
  <2>4. ASSUME NEW x \in 1..Len(g.segs)
        PROVE  Until(c, Draft(b, g), b, e, x) = Len(c.input[Floor(b) + x - 1])
    <3>1. CASE x = Len(g.segs)
      BY <2>2, <3>1 DEF Until, Draft
    <3>2. CASE x # Len(g.segs)
      BY <3>2 DEF Until, Draft
    <3>3. QED
      BY <3>1, <3>2
  <2>5. \A x \in 1..Len(g.segs) :
          /\ From(b, x) <= Len(c.input[Floor(b) + x - 1])
          /\ g.segs[x] = Part(c.by, Floor(b) + x - 1, From(b, x), Len(c.input[Floor(b) + x - 1]))
    BY <2>1, <2>4 DEF Fits, Draft
  <2>6. From(b, Len(g.segs) + 1) = 0
    <3>1. Len(g.segs) + 1 # 1
      BY <1>2, <1>6
    <3>2. QED
      BY <3>1 DEF From
  <2>7. m - 1 + Len(g.queue) = Len(c.input) /\ \A i \in 1..Len(g.queue) : g.queue[i] = c.input[m - 1 + i]
    BY <2>1, <2>3
  <2>8. Whole(c, b, g, m)
    BY <2>3, <2>5, <2>6, <2>7 DEF Whole
  <2>9. QED
    BY <2>8
<1>7. QED
  BY <1>5, <1>6

\* The next SDU goes in as far as it fits.
LEMMA PullDrafted ==
    ASSUME RlcAssumption, NEW c, Story(c), NEW b \in Cuts, 1 <= Floor(b), NEW queue,
           NEW g \in Building, MayPull(g), NEW m \in Nat, Whole(c, b, g, m)
    PROVE  Drafted(c, b, queue, Pull(g))
<1> DEFINE d == Pull(g)
           s == Len(g.segs)
<1>1. /\ Head(g.queue) \in Sdu /\ Tail(g.queue) \in Seq(Sdu)
      /\ Len(Tail(g.queue)) = Len(g.queue) - 1 /\ Len(g.queue) \in Nat
  BY PullCut
<1>2. g.queue \in Seq(Sdu) /\ g.queue # << >> /\ g.segs \in Seq(Sdu)
  BY DEF Building, MayPull
<1>3. s \in Nat /\ Len(g.queue) \in Nat \ {0} /\ Len(c.input) \in Nat /\ Floor(b) \in Nat
  <2>1. Floor(b) \in Nat
    BY DEF Cuts, Floor
  <2>2. Len(c.input) \in Nat
    BY LenProperties DEF Story
  <2> HIDE DEF Sdu
  <2>3. QED
    BY <1>2, <2>1, <2>2, LenProperties, EmptySeq
<1>4. /\ m = Floor(b) + s /\ m - 1 + Len(g.queue) = Len(c.input)
      /\ \A i \in 1..Len(g.queue) : g.queue[i] = c.input[m - 1 + i]
      /\ From(b, s + 1) = 0
      /\ \A x \in 1..s :
            /\ From(b, x) <= Len(c.input[Floor(b) + x - 1])
            /\ g.segs[x] = Part(c.by, Floor(b) + x - 1, From(b, x), Len(c.input[Floor(b) + x - 1]))
  BY DEF Whole
<1> HIDE DEF s
<1>5. m \in 1..Len(c.input) /\ m - 1 + 1 = m /\ 1 \in 1..Len(g.queue)
  BY <1>3, <1>4
<1>6. Head(g.queue) = c.input[m]
  BY <1>2, <1>4, <1>5
<1>7. PICK L \in Nat : L = Len(c.input[m]) /\ c.input[m] = Part(c.by, m, 0, L) /\ c.by \in Sender
  BY <1>5, NumInput DEF Story
<1>8. PICK n \in 0..L :
        /\ n # L => g.room - n = PackedLength(s)
        /\ d = [queue |-> Tail(g.queue), sdu |-> OtherBytes(c.input[m], n), room |-> g.room - n,
                segs |-> Append(g.segs, FirstBytes(c.input[m], n))]
  <2>1. PICK n \in 0..Len(Head(g.queue)) :
                 /\ n # Len(Head(g.queue)) => g.room - n = PackedLength(Len(g.segs))
                 /\ Pull(g) = [queue |-> Tail(g.queue), sdu |-> OtherBytes(Head(g.queue), n),
                               room |-> g.room - n,
                               segs |-> Append(g.segs, FirstBytes(Head(g.queue), n))]
    BY PullCut
  <2>2. QED
    BY <1>6, <1>7, <2>1 DEF s
<1> HIDE DEF d
<1>9. n \in Nat /\ n <= L /\ 0 \in Nat
  BY <1>7
<1>10. FirstBytes(c.input[m], n) = Part(c.by, m, 0, n) /\ OtherBytes(c.input[m], n) = Part(c.by, m, n, L)
  <2>1. n \in 0..(L - 0) /\ 0 + n = n
    BY <1>7
  <2>2. PICK z \in Nat : z = 0
    BY <1>9
  <2>3. n \in 0..(L - z) /\ z + n = n
    BY <2>1, <2>2
  <2>4. FirstBytes(Part(c.by, m, z, L), n) = Part(c.by, m, z, z + n)
        /\ OtherBytes(Part(c.by, m, z, L), n) = Part(c.by, m, z + n, L)
    BY <1>7, <2>3, PartCut
  <2>5. QED
    BY <1>7, <2>2, <2>3, <2>4
<1>11. Part(c.by, m, 0, n) \in Sdu /\ (Part(c.by, m, n, L) = << >> <=> n = L)
  <2>1. \A z \in Nat : z <= n => Part(c.by, m, z, n) \in Sdu
    BY <1>7, <1>9, PartIsSdu
  <2>2. Part(c.by, m, 0, n) \in Sdu
    BY <1>9, <2>1
  <2>3. Part(c.by, m, n, L) = << >> <=> n = L
    <3>1. PICK a \in Sender : a = c.by
      BY <1>7
    <3>2. \A z \in Nat : n <= z => (Part(a, m, n, z) = << >> <=> n = z)
      BY <1>9, PartIsSdu
    <3>3. QED
      BY <1>9, <3>1, <3>2
  <2>4. QED
    BY <2>2, <2>3
<1>12. PICK e \in Cuts : e = [open |-> n # L, k |-> m, o |-> n]
  BY <1>9 DEF Cuts
<1>13. /\ d.segs \in Seq(Sdu) /\ Len(d.segs) = s + 1 /\ d.segs # << >>
       /\ \A x \in 1..s : d.segs[x] = g.segs[x]
       /\ d.segs[s + 1] = Part(c.by, m, 0, n)
  <2> HIDE DEF Sdu
  <2>1. d.segs = Append(g.segs, Part(c.by, m, 0, n))
    BY <1>8, <1>10
  <2>2. QED
    BY <1>2, <1>11, <2>1, AppendProperties DEF s
<1>14. d.sdu = Part(c.by, m, n, L) /\ d.queue = Tail(g.queue) /\ d.room = g.room - n
  BY <1>8, <1>10
<1>15. Draft(b, d).segs = d.segs /\ Draft(b, d).startAligned = ~b.open
        /\ Draft(b, d).endAligned = ~e.open
  BY <1>11, <1>12, <1>14 DEF Draft
<1>16. ASSUME NEW x \in 1..(s + 1)
       PROVE  /\ From(b, x) <= Until(c, Draft(b, d), b, e, x)
              /\ d.segs[x] = Part(c.by, Floor(b) + x - 1, From(b, x), Until(c, Draft(b, d), b, e, x))
  <2>1. CASE x = s + 1
    <3>1. Until(c, Draft(b, d), b, e, x) = n
      BY <1>12, <1>13, <1>15, <2>1 DEF Until
    <3>2. Floor(b) + x - 1 = m
      BY <1>3, <1>4, <2>1
    <3>3. QED
      BY <1>4, <1>9, <1>13, <2>1, <3>1, <3>2
  <2>2. CASE x # s + 1
    <3>1. x \in 1..s
      BY <1>3, <2>2
    <3>2. Until(c, Draft(b, d), b, e, x) = Len(c.input[Floor(b) + x - 1])
      BY <1>13, <1>15, <2>2 DEF Until
    <3>3. QED
      BY <1>4, <1>13, <3>1, <3>2
  <2>3. QED
    BY <2>1, <2>2
<1>17. Fits(c, Draft(b, d), b, e)
  <2>1. e.k = Floor(b) + (s + 1) - 1 /\ e.k <= Len(c.input) /\ (~e.open => e.o = Len(c.input[e.k]))
    <3>1. m = Floor(b) + (s + 1) - 1 /\ m <= Len(c.input)
      BY <1>3, <1>4, <1>5
    <3>2. QED
      BY <1>7, <1>12, <3>1
  <2>2. Len(Draft(b, d).segs) = s + 1 /\ \A x \in 1..(s + 1) : Draft(b, d).segs[x] = d.segs[x]
    BY <1>13, <1>15
  <2>3. e.k = Floor(b) + Len(Draft(b, d).segs) - 1
    BY <2>1, <2>2
  <2>4. \A x \in 1..Len(Draft(b, d).segs) :
              /\ From(b, x) <= Until(c, Draft(b, d), b, e, x)
              /\ Draft(b, d).segs[x] = Part(c.by, Floor(b) + x - 1, From(b, x), Until(c, Draft(b, d), b, e, x))
    BY <1>16, <2>2
  <2>5. QED
    BY <1>15, <2>1, <2>3, <2>4 DEF Fits
<1>18. e.o <= Len(c.input[e.k]) /\ d.sdu = Part(c.by, e.k, e.o, Len(c.input[e.k]))
  BY <1>7, <1>9, <1>12, <1>14
<1>19. e.k + Len(d.queue) = Len(c.input)
  BY <1>1, <1>3, <1>4, <1>12, <1>14
<1>20. ASSUME NEW i \in 1..Len(d.queue) PROVE d.queue[i] = c.input[e.k + i]
  <2>1. i + 1 \in 1..Len(g.queue) /\ m - 1 + (i + 1) = m + i /\ i \in 1..(Len(g.queue) - 1)
    BY <1>1, <1>14
  <2>2. Tail(g.queue)[i] = g.queue[i + 1]
    BY <1>2, <2>1, HeadTailProperties
  <2>3. QED
    BY <1>4, <1>12, <1>14, <2>1, <2>2
<1>21. d.sdu # << >> => d.room <= PackedLength(Indicators(d))
  <2>1. Indicators(d) = s
    BY <1>3, <1>13 DEF Indicators
  <2>2. d.sdu # << >> => d.room = PackedLength(s)
    BY <1>8, <1>11, <1>14
  <2>3. PackedLength(s) \in Nat
    BY <1>3, PackedLengths
  <2>4. QED
    BY <2>1, <2>2, <2>3
<1>22. \E e2 \in Cuts :
            /\ Fits(c, Draft(b, d), b, e2)
            /\ e2.o <= Len(c.input[e2.k]) /\ d.sdu = Part(c.by, e2.k, e2.o, Len(c.input[e2.k]))
            /\ e2.k + Len(d.queue) = Len(c.input)
            /\ \A i \in 1..Len(d.queue) : d.queue[i] = c.input[e2.k + i]
  BY <1>17, <1>18, <1>19, <1>20
<1>23. QED
  BY <1>13, <1>21, <1>22 DEF Drafted, d

\* The PDU that is built, for as much as the grant takes.
LEMMA FillDrafted ==
    ASSUME RlcAssumption, NEW c, Story(c), NEW t, t.queue \in Seq(Sdu), Len(t.queue) <= Capacity,
           t.sdu \in Sdu, t.sdu # << >> \/ t.queue # << >>, Sent(c, t),
           NEW g \in Nat, g > PackedLength(0) + 1
    PROVE  LET d == Fill(Continue(t, g))
           IN  d \in Building /\ d.segs # << >> /\ Drafted(c, c.cut[c.count], t.queue, d)
<1> DEFINE q == Continue(t, g)
           b == c.cut[c.count]
           D == {v \in Building : Drafted(c, b, t.queue, v)}
           n == Len(q.queue)
           J == [k \in 0..n |-> D]
<1>1. q \in Building /\ (q.segs # << >> \/ MayPull(q))
  BY ContinueBuilds
<1>2. Fill(q) \in Building /\ Fill(q).segs # << >>
  BY <1>1, FillBuilds
<1>3. b \in Cuts /\ 1 <= Floor(b) /\ b.k + Len(t.queue) = Len(c.input)
      /\ \A i \in 1..Len(t.queue) : t.queue[i] = c.input[b.k + i]
  <2>1. c.count \in 0..c.count
    BY DEF Story
  <2>2. QED
    BY <2>1, CutsGrow DEF Sent
<1>4. Drafted(c, b, t.queue, q)
  BY ContinueDrafted
<1>5. n \in Nat
  BY <1>1, LenProperties DEF Building
<1> HIDE DEF b, q
<1>6. ASSUME NEW v \in D PROVE (IF MayPull(v) THEN Pull(v) ELSE v) \in D
  <2>1. CASE MayPull(v)
    <3>1. \E m \in Nat : Whole(c, b, v, m)
      BY <1>3, <2>1, MayPullWhole
    <3>2. Drafted(c, b, t.queue, Pull(v))
      BY <1>3, <2>1, <3>1, PullDrafted
    <3>3. Pull(v) \in Building
      BY <2>1, PullBuilds
    <3>4. QED
      BY <2>1, <3>2, <3>3
  <2>2. CASE ~MayPull(v)
    BY <2>2
  <2>3. QED
    BY <2>1, <2>2
<1> HIDE DEF n
<1>7. J[n] = D /\ J[0] = D /\ \A k \in 0..n : J[k] = D
  BY <1>5
<1>8. D \subseteq Building /\ q \in D
  BY <1>1, <1>4
<1>9. \A k \in 0..(n - 1) : \A v \in J[k] : (IF MayPull(v) THEN Pull(v) ELSE v) \in J[k + 1]
  <2>1. \A k \in 0..(n - 1) : J[k] = D /\ J[k + 1] = D
    BY <1>5
  <2>2. QED
    BY <1>6, <2>1
<1> HIDE DEF J, D
<1>10. Fill(q) \in J[n]
  <2>1. \A k \in 0..n : J[k] \subseteq Building
    BY <1>7, <1>8
  <2>2. QED
    BY <1>1, <1>7, <1>8, <1>9, <2>1, FillFold DEF n
<1>11. QED
  BY <1>2, <1>7, <1>10 DEF D, q, b

\* The bearer of sender a: its history, and what the receiver has heard of it.
Bearer(a, in, n, cut, top, ux) ==
    [by |-> a, input |-> in, cut |-> cut, count |-> n, top |-> top, ux |-> ux,
     lo |-> 1, low |-> -Window]

\* The parts of a bearer.
LEMMA BearerParts ==
    ASSUME RlcAssumption, NEW a, NEW in, NEW n, NEW cut, NEW top, NEW ux
    PROVE  LET c == Bearer(a, in, n, cut, top, ux)
           IN  /\ c.by = a /\ c.input = in /\ c.cut = cut /\ c.count = n /\ c.top = top /\ c.ux = ux
               /\ c.lo \in Nat /\ c.low \in Int
<1>1. -Window \in Int /\ 1 \in Nat
  BY Numbers
<1>2. QED
  BY <1>1 DEF Bearer

\* A PDU under construction fits as soon as it is sent.
LEMMA DraftFits ==
    ASSUME NEW c, NEW b, NEW e, NEW g, NEW p, Fits(c, Draft(b, g), b, e),
           p.segs = g.segs, p.startAligned = ~b.open, p.endAligned = (g.sdu = << >>)
    PROVE  Fits(c, p, b, e)
<1>1. /\ Draft(b, g).segs = p.segs /\ Draft(b, g).startAligned = p.startAligned
      /\ Draft(b, g).endAligned = p.endAligned
  BY DEF Draft
<1>2. \A x : Until(c, Draft(b, g), b, e, x) = Until(c, p, b, e, x)
  BY <1>1 DEF Until
<1>3. QED
  BY <1>1, <1>2 DEF Fits

\* One more PDU, that ends at e.
Longer(c, e, d) ==
    /\ d.by = c.by /\ d.input = c.input /\ d.count = c.count + 1
    /\ d.cut = [n \in 0..(c.count + 1) |-> IF n = c.count + 1 THEN e ELSE c.cut[n]]
    /\ 1 <= Floor(e) /\ Floor(c.cut[c.count]) <= e.k /\ e.k <= Len(c.input)

\* It makes the history longer.
LEMMA StoryLonger ==
    ASSUME NEW c, Story(c), NEW e \in Cuts, NEW d, Longer(c, e, d)
    PROVE  /\ Story(d)
           /\ d.cut[d.count] = e /\ \A n \in 0..c.count : d.cut[n] = c.cut[n]
<1>0. /\ d.by = c.by /\ d.input = c.input /\ d.count = c.count + 1
      /\ d.cut = [n \in 0..(c.count + 1) |-> IF n = c.count + 1 THEN e ELSE c.cut[n]]
      /\ 1 <= Floor(e) /\ Floor(c.cut[c.count]) <= e.k /\ e.k <= Len(c.input)
  BY DEF Longer
<1>1. c.count \in Nat /\ d.count \in Nat /\ \A n \in 0..c.count : c.cut[n] \in Cuts
  <2>1. c.count \in Nat /\ c.cut \in [0..c.count -> Cuts]
    BY DEF Story
  <2>2. \A n \in 0..c.count : c.cut[n] \in Cuts
    BY <2>1
  <2>3. c.count + 1 \in Nat
    BY <2>1
  <2>4. QED
    BY <1>0, <2>1, <2>2, <2>3
<1>2. \A n \in 0..d.count : n \in 0..c.count \/ n = d.count
  BY <1>0, <1>1
<1>3. d.cut[d.count] = e
  BY <1>0, <1>1
<1>4. \A n \in 0..c.count : d.cut[n] = c.cut[n]
  BY <1>0, <1>1
<1>5. d.cut \in [0..d.count -> Cuts]
  BY <1>0, <1>1
<1>6. \A n \in 0..d.count : 1 <= Floor(d.cut[n])
  BY <1>0, <1>2, <1>3, <1>4 DEF Story
<1>7. ASSUME NEW n \in 1..d.count
      PROVE  Floor(d.cut[n - 1]) <= d.cut[n].k /\ d.cut[n].k <= Len(d.input)
  <2>1. CASE n = d.count
    <3>1. n - 1 = c.count /\ c.count \in 0..c.count
      BY <1>0, <1>1, <2>1
    <3>2. QED
      BY <1>0, <1>3, <1>4, <2>1, <3>1
  <2>2. CASE n # d.count
    <3>1. n \in 1..c.count /\ n \in 0..c.count /\ n - 1 \in 0..c.count
      BY <1>0, <1>1, <2>2
    <3>2. d.cut[n] = c.cut[n] /\ d.cut[n - 1] = c.cut[n - 1]
      BY <1>4, <3>1
    <3>3. QED
      BY <1>0, <3>1, <3>2 DEF Story
  <2>3. QED
    BY <2>1, <2>2
<1>8. Story(d)
  BY <1>0, <1>1, <1>5, <1>6, <1>7 DEF Story
<1>9. QED
  BY <1>3, <1>4, <1>8

\* The types of the sender.
Transmit == [queue : Seq(Sdu), sdu : Sdu, sn : Sn, count : Nat]

\* build_data_pdu: the PDU carries what was sent between the last end and the new one.
LEMMA BuildSent ==
    ASSUME RlcAssumption, NEW a, NEW in, NEW t \in Transmit, NEW cut, NEW top, NEW ux,
           Len(t.queue) <= Capacity, t.sdu # << >> \/ t.queue # << >>,
           NEW g \in Nat, g > PackedLength(0) + 1,
           Call(Bearer(a, in, t.count, cut, top, ux)), Sent(Bearer(a, in, t.count, cut, top, ux), t)
    PROVE  LET c == Bearer(a, in, t.count, cut, top, ux)
               f == Fill(Continue(t, g))
               u == [queue |-> f.queue, sdu |-> f.sdu, sn |-> NextSn(t.sn), count |-> t.count + 1]
               p == [sender |-> a, number |-> t.count + 1, sn |-> t.sn, segs |-> f.segs,
                     startAligned |-> t.sdu = << >>, endAligned |-> f.sdu = << >>]
           IN  \E cut2 \in [0..(t.count + 1) -> Cuts] :
                  LET d == Bearer(a, in, t.count + 1, cut2, top, ux)
                  IN  Call(d) /\ Grown(c, d) /\ Sent(d, u) /\ p \in Cast(d)
<1> DEFINE c == Bearer(a, in, t.count, cut, top, ux)
           f == Fill(Continue(t, g))
           u == [queue |-> f.queue, sdu |-> f.sdu, sn |-> NextSn(t.sn), count |-> t.count + 1]
           p == [sender |-> a, number |-> t.count + 1, sn |-> t.sn, segs |-> f.segs,
                 startAligned |-> t.sdu = << >>, endAligned |-> f.sdu = << >>]
<1>1. /\ c.by = a /\ c.input = in /\ c.cut = cut /\ c.count = t.count /\ c.top = top /\ c.ux = ux
      /\ Call(c) /\ Sent(c, t) /\ Story(c)
  <2>1. Call(c) /\ Sent(c, t)
    OBVIOUS
  <2>2. QED
    BY <2>1, BearerParts DEF Call
<1>2. t.queue \in Seq(Sdu) /\ t.sdu \in Sdu /\ t.sn \in Sn /\ t.count \in Nat
  BY DEF Transmit
<1> HIDE DEF c
<1>3. PICK b \in Cuts : b = c.cut[c.count] /\ t.sn = c.count % Mod /\ (b.open <=> t.sdu # << >>)
  <2>1. c.count \in 0..c.count
    BY <1>1 DEF Story
  <2>2. c.cut[c.count] \in Cuts
    BY <1>1, <2>1, CutsGrow
  <2>3. QED
    BY <1>1, <2>2 DEF Sent
<1>4. f \in Building /\ f.segs # << >> /\ Drafted(c, b, t.queue, f)
  BY <1>1, <1>2, <1>3, FillDrafted
<1> HIDE DEF f
<1>5. PICK e \in Cuts :
            /\ Fits(c, Draft(b, f), b, e)
            /\ e.o <= Len(c.input[e.k]) /\ f.sdu = Part(c.by, e.k, e.o, Len(c.input[e.k]))
            /\ e.k + Len(f.queue) = Len(c.input)
            /\ \A i \in 1..Len(f.queue) : f.queue[i] = c.input[e.k + i]
  BY <1>4 DEF Drafted
<1>6. p \in Pdu
  <2>1. f.segs \in Seq(Sdu) \ {<< >>} /\ a \in Sender
    BY <1>1, <1>4 DEF Building, Story
  <2>2. t.count + 1 \in Nat
    BY <1>2
  <2> HIDE DEF Sdu
  <2>3. QED
    BY <1>2, <2>1, <2>2 DEF Pdu
<1>7. Fits(c, p, b, e)
  <2>1. p.segs = f.segs /\ p.startAligned = ~b.open /\ p.endAligned = (f.sdu = << >>)
    BY <1>3 DEF Cuts
  <2>2. QED
    BY <1>5, <2>1, DraftFits
<1>8. p.number = t.count + 1 /\ p.sn = t.sn
  OBVIOUS
<1>9. f.sdu = << >> <=> ~e.open
  <2>1. p.endAligned = (f.sdu = << >>)
    OBVIOUS
  <2>2. QED
    BY <1>7, <2>1 DEF Fits
<1> HIDE DEF p
<1>10. e.k \in 1..Len(c.input) /\ Floor(b) <= e.k /\ 1 <= Floor(e)
  <2>1. e.k \in 1..Len(c.input) /\ Floor(b) <= e.k /\ e.k <= Floor(e) /\ Floor(e) \in Nat /\ e.k \in Nat
    BY <1>1, <1>6, <1>7, FitsNumbers
  <2>2. QED
    BY <2>1
<1> DEFINE cut2 == [n \in 0..(t.count + 1) |-> IF n = t.count + 1 THEN e ELSE cut[n]]
           d == Bearer(a, in, t.count + 1, cut2, top, ux)
<1>11. /\ d.by = a /\ d.input = in /\ d.cut = cut2 /\ d.count = t.count + 1 /\ d.top = top /\ d.ux = ux
       /\ d.lo \in Nat /\ d.low \in Int
  BY BearerParts
<1> HIDE DEF d
<1>12. Story(d) /\ d.cut[d.count] = e /\ \A n \in 0..c.count : d.cut[n] = c.cut[n]
  <2>1. /\ d.by = c.by /\ d.input = c.input /\ d.count = c.count + 1
        /\ d.cut = [n \in 0..(c.count + 1) |-> IF n = c.count + 1 THEN e ELSE c.cut[n]]
    BY <1>1, <1>11
  <2>2. 1 <= Floor(e) /\ Floor(c.cut[c.count]) <= e.k /\ e.k <= Len(c.input)
    <3>1. Len(c.input) \in Nat
      BY <1>1, LenProperties DEF Story
    <3>2. QED
      BY <1>3, <1>10, <3>1
  <2>3. Story(c) /\ e \in Cuts
    BY <1>1, <1>5
  <2>4. Longer(c, e, d)
    BY <2>1, <2>2 DEF Longer
  <2>5. QED
    BY <2>3, <2>4, StoryLonger
<1> HIDE DEF cut2
<1>13. Call(d)
  <2>1. d.top \in 0..d.count
    BY <1>1, <1>2, <1>11 DEF Call
  <2>2. QED
    BY <1>11, <1>12, <2>1 DEF Call
<1>14. Grown(c, d)
  <2>1. c.count <= d.count /\ Len(c.input) <= Len(d.input)
    <3>1. Len(c.input) \in Nat
      BY <1>1, LenProperties DEF Story
    <3>2. QED
      BY <1>1, <1>2, <1>11, <3>1
  <2>2. QED
    BY <1>1, <1>11, <1>12, <2>1 DEF Grown
<1>15. Sent(d, u)
  <2>1. u.sn = d.count % Mod
    <3>1. Mod \in Nat \ {0} /\ t.count \in Int /\ 1 \in Int
      BY <1>2, Numbers
    <3>2. ((t.count % Mod) + 1) % Mod = (t.count + 1) % Mod
      BY <3>1, ModAdd
    <3>3. QED
      BY <1>1, <1>3, <1>11, <3>2 DEF NextSn
  <2>2. u.sdu = f.sdu /\ u.queue = f.queue
    OBVIOUS
  <2>3. d.by = c.by /\ d.input = c.input /\ d.cut[d.count] = e
    BY <1>1, <1>11, <1>12
  <2> HIDE DEF u
  <2>4. QED
    BY <1>5, <1>9, <1>10, <2>1, <2>2, <2>3 DEF Sent
<1>16. p \in Cast(d)
  <2>1. p.number = d.count /\ p.number - 1 = c.count /\ p.number \in 1..d.count
    BY <1>1, <1>2, <1>8, <1>11
  <2>2. c.count \in 0..c.count
    BY <1>1, <1>2
  <2>3. d.cut[p.number - 1] = b /\ d.cut[p.number] = e
    BY <1>3, <1>12, <2>1, <2>2
  <2>4. Fits(d, p, b, e)
    BY <1>1, <1>6, <1>7, <1>12, <1>14, FitsGrown
  <2>5. p.sn = (p.number - 1) % Mod
    BY <1>3, <1>8, <2>1
  <2>6. QED
    BY <1>6, <2>1, <2>3, <2>4, <2>5 DEF Cast
<1>17. cut2 \in [0..(t.count + 1) -> Cuts]
  BY <1>11, <1>12 DEF Story
<1> HIDE DEF u
<1>18. QED
  BY <1>13, <1>14, <1>15, <1>16, <1>17 DEF d, c, u, p, f

\* An SDU that the layer above hands over is the next of the input.
LEMMA WriteSent ==
    ASSUME RlcAssumption, NEW a, NEW in, NEW t \in Transmit, NEW cut, NEW top, NEW ux, NEW n \in Nat \ {0},
           Call(Bearer(a, in, t.count, cut, top, ux)), Sent(Bearer(a, in, t.count, cut, top, ux), t)
    PROVE  LET sdu == [k \in 1..n |-> <<a, Len(in) + 1, k>>]
               c == Bearer(a, in, t.count, cut, top, ux)
               d == Bearer(a, Append(in, sdu), t.count, cut, top, ux)
           IN  Call(d) /\ Grown(c, d) /\ Sent(d, [t EXCEPT !.queue = Append(@, sdu)])
<1> DEFINE sdu == [k \in 1..n |-> <<a, Len(in) + 1, k>>]
           c == Bearer(a, in, t.count, cut, top, ux)
           d == Bearer(a, Append(in, sdu), t.count, cut, top, ux)
           u == [t EXCEPT !.queue = Append(@, sdu)]
<1> HIDE DEF sdu
<1>1. /\ c.by = a /\ c.input = in /\ c.cut = cut /\ c.count = t.count /\ c.top = top /\ c.ux = ux
      /\ Call(c) /\ Sent(c, t) /\ Story(c)
  <2>1. Call(c) /\ Sent(c, t)
    OBVIOUS
  <2>2. QED
    BY <2>1, BearerParts DEF Call
<1>2. /\ d.by = a /\ d.input = Append(in, sdu) /\ d.cut = cut /\ d.count = t.count /\ d.top = top
      /\ d.ux = ux /\ d.lo \in Nat /\ d.low \in Int
  <2>1. \A x : LET y == Bearer(a, x, t.count, cut, top, ux)
               IN  /\ y.by = a /\ y.input = x /\ y.cut = cut /\ y.count = t.count /\ y.top = top
                   /\ y.ux = ux /\ y.lo \in Nat /\ y.low \in Int
    BY BearerParts
  <2>2. QED
    BY <2>1, Zenon
<1>3. t.queue \in Seq(Sdu) /\ t.sdu \in Sdu /\ t.sn \in Sn /\ t.count \in Nat
  BY DEF Transmit
<1>4. u.queue = Append(t.queue, sdu) /\ u.sdu = t.sdu /\ u.sn = t.sn
  BY DEF Transmit
<1> HIDE DEF c, d, u
<1>0. Sent(c, t)
  BY <1>1
<1>5. in \in Seq(Sdu) /\ a \in Sender
  BY <1>1 DEF Story
<1>6. PICK m \in Nat : m = Len(in)
  BY <1>5, LenProperties
<1>7. PICK l \in Nat : l = Len(t.queue)
  BY <1>3, LenProperties
<1>8. sdu = Part(a, m + 1, 0, n) /\ sdu \in Sdu /\ Len(sdu) = n /\ sdu # << >>
  <2>1. PICK k \in Nat, z \in Nat : k = m + 1 /\ z = 0 /\ z <= n /\ n - z = n /\ z # n
    BY <1>6
  <2>2. \A x \in 1..n : z + x = x
    BY <2>1
  <2>3. Part(a, k, z, n) = [x \in 1..n |-> <<a, k, x>>]
    BY <2>1, <2>2 DEF Part
  <2>4. Part(a, k, z, n) \in Sdu /\ Len(Part(a, k, z, n)) = n - z
        /\ (Part(a, k, z, n) = << >> <=> z = n)
    <3>1. a \in Sender /\ k \in Nat /\ z \in Nat /\ n \in Nat /\ z <= n
      BY <1>5, <2>1
    <3> HIDE DEF Sdu
    <3>2. QED
      BY <3>1, PartIsSdu
  <2>5. sdu = Part(a, k, z, n)
    BY <1>6, <2>1, <2>3 DEF sdu
  <2>6. QED
    BY <1>6, <2>1, <2>4, <2>5
<1>9. /\ Append(in, sdu) \in Seq(Sdu) /\ Len(Append(in, sdu)) = m + 1
      /\ \A k \in 1..m : Append(in, sdu)[k] = in[k]
      /\ Append(in, sdu)[m + 1] = sdu
  <2> HIDE DEF Sdu
  <2>1. QED
    BY <1>5, <1>6, <1>8, AppendProperties
<1>10. /\ Len(Append(t.queue, sdu)) = l + 1
       /\ \A k \in 1..l : Append(t.queue, sdu)[k] = t.queue[k]
       /\ Append(t.queue, sdu)[l + 1] = sdu
  <2> HIDE DEF Sdu
  <2>1. QED
    BY <1>3, <1>7, <1>8, AppendProperties
<1>11. Len(c.input) = m /\ Len(d.input) = m + 1 /\ m <= m + 1
       /\ \A k \in 1..m : d.input[k] = c.input[k]
  BY <1>1, <1>2, <1>6, <1>9
<1>12. Story(d)
  <2>1. ASSUME NEW k \in 1..Len(d.input)
        PROVE  d.input[k] # << >> /\ d.input[k] = Part(d.by, k, 0, Len(d.input[k]))
    <3>1. CASE k \in 1..m
      BY <1>1, <1>2, <1>11, <3>1 DEF Story
    <3>2. CASE k = m + 1
      BY <1>2, <1>8, <1>9, <3>2
    <3>3. QED
      BY <1>6, <1>11, <3>1, <3>2
  <2>2. \A k \in 1..d.count : d.cut[k].k <= Len(d.input)
    <3>1. ASSUME NEW k \in 1..d.count PROVE d.cut[k].k <= Len(d.input)
      <4>1. c.cut[k].k <= m
        BY <1>1, <1>2, <1>11, <3>1 DEF Story
      <4>2. c.cut[k].k \in Nat
        <5>1. k \in 0..c.count
          BY <1>1, <1>2, <1>3
        <5>2. QED
          BY <1>1, <5>1, CutsGrow
      <4>3. QED
        BY <1>1, <1>2, <1>6, <1>11, <4>1, <4>2
    <3>2. QED
      BY <3>1
  <2>3. /\ d.by \in Sender /\ d.input \in Seq(Sdu) /\ d.count \in Nat /\ d.cut \in [0..d.count -> Cuts]
        /\ \A k \in 0..d.count : 1 <= Floor(d.cut[k])
        /\ \A k \in 1..d.count : Floor(d.cut[k - 1]) <= d.cut[k].k
    BY <1>1, <1>2, <1>9 DEF Story
  <2>4. QED
    BY <2>1, <2>2, <2>3 DEF Story
<1>13. Call(d)
  BY <1>1, <1>2, <1>12 DEF Call
<1>14. Grown(c, d)
  <2>1. c.count <= d.count
    BY <1>1, <1>2, <1>3
  <2>2. QED
    BY <1>1, <1>2, <1>11, <2>1 DEF Grown
<1>15. Sent(d, u)
  <2>1. PICK e \in Cuts : e = c.cut[c.count] /\ e = d.cut[d.count]
    <3>1. c.count \in 0..c.count
      BY <1>1, <1>3
    <3>2. QED
      BY <1>1, <1>2, <3>1, CutsGrow
  <2>2. /\ t.sn = c.count % Mod
        /\ e.open <=> t.sdu # << >>
        /\ e.open => /\ e.k \in 1..Len(c.input) /\ e.o <= Len(c.input[e.k])
                     /\ t.sdu = Part(c.by, e.k, e.o, Len(c.input[e.k]))
        /\ e.k + Len(t.queue) = Len(c.input)
        /\ \A i \in 1..Len(t.queue) : t.queue[i] = c.input[e.k + i]
    BY <1>0, <2>1 DEF Sent
  <2>3. PICK k \in Nat : k = e.k /\ k + l = m
    BY <1>7, <1>11, <2>2 DEF Cuts
  <2>4. k + Len(u.queue) = Len(d.input)
    BY <1>4, <1>6, <1>7, <1>10, <1>11, <2>3
  <2>5. ASSUME NEW i \in 1..Len(u.queue) PROVE u.queue[i] = d.input[k + i]
    <3>1. CASE i \in 1..l
      <4>1. k + i \in 1..m
        BY <1>6, <2>3, <3>1
      <4>2. u.queue[i] = t.queue[i] /\ t.queue[i] = c.input[k + i] /\ d.input[k + i] = c.input[k + i]
        BY <1>4, <1>7, <1>10, <1>11, <2>2, <2>3, <3>1, <4>1
      <4>3. QED
        BY <4>2
    <3>2. CASE i = l + 1
      <4>1. k + i = m + 1
        BY <1>6, <2>3, <3>2
      <4>2. QED
        BY <1>2, <1>4, <1>9, <1>10, <3>2, <4>1
    <3>3. QED
      BY <1>4, <1>7, <1>10, <3>1, <3>2
  <2>6. u.sn = d.count % Mod
    BY <1>1, <1>2, <1>4, <2>2
  <2>7. e.open => /\ k \in 1..Len(d.input) /\ e.o <= Len(d.input[k])
                  /\ u.sdu = Part(d.by, k, e.o, Len(d.input[k]))
    <3>1. SUFFICES ASSUME e.open PROVE k \in 1..Len(d.input) /\ e.o <= Len(d.input[k])
                                       /\ u.sdu = Part(d.by, k, e.o, Len(d.input[k]))
      OBVIOUS
    <3>2. k \in 1..m
      BY <1>11, <2>2, <2>3, <3>1
    <3>3. d.input[k] = c.input[k] /\ k \in 1..Len(d.input)
      BY <1>6, <1>11, <3>2
    <3>4. QED
      BY <1>1, <1>2, <1>4, <2>2, <2>3, <3>1, <3>3
  <2>8. QED
    BY <1>4, <2>1, <2>2, <2>3, <2>4, <2>5, <2>6, <2>7 DEF Sent
<1>16. QED
  BY <1>13, <1>14, <1>15 DEF c, d, u, sdu

-------------------------------------------------------------------------------
(* The bearer of a single sender.                                             *)

\* Its call c, the sender t, the PDUs on the air, the receiver r, and what it handed up.
Linked(c, t, pdus, r, out) ==
    /\ Call(c) /\ Sent(c, t)
    /\ \A p \in pdus : p \in Cast(c) /\ p.number + Skew > c.count
    /\ c.count <= c.top + MaxOutage
    /\ Heard(c, r, out)

\* An SDU is written.
LEMMA LinkedWritten ==
    ASSUME RlcAssumption, NEW a, NEW in, NEW t \in Transmit, NEW cut, NEW top, NEW pdus, NEW r, NEW out,
           NEW n \in Nat \ {0}, Linked(Bearer(a, in, t.count, cut, top, r.ux), t, pdus, r, out)
    PROVE  LET sdu == [k \in 1..n |-> <<a, Len(in) + 1, k>>]
           IN  Linked(Bearer(a, Append(in, sdu), t.count, cut, top, r.ux),
                      [t EXCEPT !.queue = Append(@, sdu)], pdus, r, out)
<1> DEFINE sdu == [k \in 1..n |-> <<a, Len(in) + 1, k>>]
           in2 == Append(in, sdu)
           c == Bearer(a, in, t.count, cut, top, r.ux)
           d == Bearer(a, in2, t.count, cut, top, r.ux)
           u == [t EXCEPT !.queue = Append(@, sdu)]
<1>1. Call(c) /\ Sent(c, t)
  BY DEF Linked
<1>2. Call(d) /\ Grown(c, d) /\ Sent(d, u)
  BY <1>1, WriteSent
<1> HIDE DEF in2
<1>3. c.count = t.count /\ d.count = t.count /\ c.top = top /\ d.top = top
  BY BearerParts
<1> HIDE DEF c, d, u
<1>4. Cast(c) \subseteq Cast(d)
  BY <1>1, <1>2, CastGrown DEF Call
<1>5. Heard(c, r, out) /\ \A p \in pdus : p \in Cast(c) /\ p.number + Skew > c.count
  BY DEF Linked, c
<1>6. Heard(d, r, out)
  BY <1>1, <1>2, <1>5, HeardGrown
<1>7. c.count <= c.top + MaxOutage
  BY DEF Linked, c
<1>8. \A p \in pdus : p \in Cast(d) /\ p.number + Skew > d.count
  BY <1>3, <1>4, <1>5
<1>9. Linked(d, u, pdus, r, out)
  BY <1>2, <1>3, <1>6, <1>7, <1>8 DEF Linked
<1>10. QED
  BY <1>9 DEF d, u, in2

\* A PDU is built; those that are late by now are lost.
LEMMA LinkedBuilt ==
    ASSUME RlcAssumption, NEW a, NEW in, NEW t \in Transmit, NEW cut, NEW top, NEW pdus, NEW r, NEW out,
           Linked(Bearer(a, in, t.count, cut, top, r.ux), t, pdus, r, out),
           Len(t.queue) <= Capacity, t.sdu # << >> \/ t.queue # << >>,
           NEW g \in Nat, g > PackedLength(0) + 1, t.count - top < MaxOutage,
           NEW pdus2,
           LET f == Fill(Continue(t, g))
               p == [sender |-> a, number |-> t.count + 1, sn |-> t.sn, segs |-> f.segs,
                     startAligned |-> t.sdu = << >>, endAligned |-> f.sdu = << >>]
           IN  \A q \in pdus2 : q = p \/ (q \in pdus /\ ~(q.number + Skew <= t.count + 1))
    PROVE  LET f == Fill(Continue(t, g))
               u == [queue |-> f.queue, sdu |-> f.sdu, sn |-> NextSn(t.sn), count |-> t.count + 1]
           IN  \E cut2 : Linked(Bearer(a, in, t.count + 1, cut2, top, r.ux), u, pdus2, r, out)
<1> DEFINE c == Bearer(a, in, t.count, cut, top, r.ux)
           f == Fill(Continue(t, g))
           u == [queue |-> f.queue, sdu |-> f.sdu, sn |-> NextSn(t.sn), count |-> t.count + 1]
           p == [sender |-> a, number |-> t.count + 1, sn |-> t.sn, segs |-> f.segs,
                 startAligned |-> t.sdu = << >>, endAligned |-> f.sdu = << >>]
<1>1. Call(c) /\ Sent(c, t)
  BY DEF Linked
<1>2. PICK cut2 \in [0..(t.count + 1) -> Cuts] :
         LET d == Bearer(a, in, t.count + 1, cut2, top, r.ux)
         IN  Call(d) /\ Grown(c, d) /\ Sent(d, u) /\ p \in Cast(d)
  BY <1>1, BuildSent
<1> DEFINE d == Bearer(a, in, t.count + 1, cut2, top, r.ux)
<1>3. Call(d) /\ Grown(c, d) /\ Sent(d, u) /\ p \in Cast(d)
  BY <1>2
<1>4. \A q \in pdus2 : q = p \/ (q \in pdus /\ ~(q.number + Skew <= t.count + 1))
  OBVIOUS
<1>5. p.number = t.count + 1
  OBVIOUS
<1> HIDE DEF p, u, f
<1>6. c.count = t.count /\ d.count = t.count + 1 /\ c.top = top /\ d.top = top
  BY BearerParts
<1>7. Heard(c, r, out) /\ \A q \in pdus : q \in Cast(c)
  BY DEF Linked
<1> HIDE DEF c, d
<1>8. Cast(c) \subseteq Cast(d)
  BY <1>1, <1>3, CastGrown DEF Call
<1>9. Heard(d, r, out)
  BY <1>1, <1>3, <1>7, HeardGrown
<1>10. d.count <= d.top + MaxOutage
  <2>1. t.count \in Nat /\ top \in Int /\ MaxOutage \in Nat
    BY <1>1, <1>6 DEF Call, Transmit, RlcAssumption
  <2>2. QED
    BY <1>6, <2>1
<1>11. ASSUME NEW q \in pdus2 PROVE q \in Cast(d) /\ q.number + Skew > d.count
  <2>1. q \in Cast(d)
    BY <1>3, <1>4, <1>7, <1>8
  <2>2. q.number \in Nat /\ Skew \in Nat \ {0} /\ t.count \in Nat
    BY <2>1 DEF Cast, Pdu, Transmit, RlcAssumption
  <2>3. QED
    BY <1>4, <1>5, <1>6, <2>1, <2>2
<1>12. Linked(d, u, pdus2, r, out)
  BY <1>3, <1>9, <1>10, <1>11 DEF Linked
<1>13. QED
  BY <1>12 DEF d, u, f

\* A PDU on the air is within a window of the highest heard.
LEMMA LinkedReach ==
    ASSUME RlcAssumption, Skew <= Window, MaxOutage <= Window, NEW c, NEW t, NEW pdus, NEW r, NEW out,
           Linked(c, t, pdus, r, out), NEW p \in pdus
    PROVE  p \in Cast(c) /\ p.number - 1 - c.top \in (-Window)..(Window - 1)
           /\ p.number \in Nat /\ c.top \in Nat
<1>1. Window \in Nat /\ Skew \in Nat /\ MaxOutage \in Nat
  BY Numbers DEF RlcAssumption
<1>2. p \in Cast(c) /\ p.number + Skew > c.count /\ c.count <= c.top + MaxOutage /\ Call(c)
  BY DEF Linked
<1>3. c.count \in Nat /\ c.top \in 0..c.count /\ p.number \in 1..c.count
  BY <1>2 DEF Call, Story, Cast
<1>4. QED
  BY <1>1, <1>2, <1>3

\* A PDU that is old or there already changes nothing but, perhaps, what is on the air.
LEMMA LinkedIgnored ==
    ASSUME RlcAssumption, Skew <= Window, MaxOutage <= Window, NEW c, NEW t, NEW pdus, NEW r, NEW out,
           Linked(c, t, pdus, r, out), NEW p \in pdus, Outside(r, p.sn) \/ Holds(r, p.sn),
           NEW pdus2 \in SUBSET pdus
    PROVE  Linked(c, t, pdus2, r, out) /\ ~(c.top < p.number)
<1>1. p \in Cast(c) /\ p.number - 1 - c.top \in (-Window)..(Window - 1) /\ p.number \in Nat /\ c.top \in Nat
  BY LinkedReach
<1>2. PICK U \in 0..c.top : Tracked(c, r, U) /\ c.top - U <= Window
  BY DEF Linked, Heard
<1>3. p.number <= c.top
  BY <1>1, <1>2, IgnoredStays DEF Linked
<1>4. Linked(c, t, pdus2, r, out)
  BY DEF Linked
<1>5. QED
  BY <1>1, <1>3, <1>4

\* The same history, further on.
LEMMA LinkedSame ==
    ASSUME NEW c, NEW d, SameStory(c, d), Call(c), d.top \in 0..c.count, d.lo \in Nat, d.low \in Int,
           NEW t, Sent(c, t)
    PROVE  Call(d) /\ Sent(d, t) /\ Cast(d) = Cast(c)
<1>1. Story(d)
  BY DEF Story, SameStory, Call
<1>2. Call(d)
  BY <1>1 DEF Call, SameStory
<1>3. Sent(d, t)
  BY DEF Sent, SameStory
<1>4. Cast(d) = Cast(c)
  BY DEF Cast, Fits, Until, SameStory
<1>5. QED
  BY <1>2, <1>3, <1>4

\* A PDU is taken.
LEMMA LinkedReceived ==
    ASSUME RlcAssumption, Skew <= Window, MaxOutage <= Window,
           NEW a, NEW in, NEW t, NEW cut, NEW top, NEW pdus, NEW r, NEW out,
           Linked(Bearer(a, in, t.count, cut, top, r.ux), t, pdus, r, out),
           NEW p \in pdus, ~Outside(r, p.sn), ~Holds(r, p.sn), NEW pdus2 \in SUBSET pdus, NEW top2,
           top2 = (IF top < p.number THEN p.number ELSE top), NEW x \in Sn,
           NEW q \in RxState, q = ReassembleRxSdus(Taken(r, p))
    PROVE  Linked(Bearer(a, in, t.count, cut, top2, x), t, pdus2,
                  [[q EXCEPT !.ux = x] EXCEPT !.out = << >>], out \o q.out)
<1> DEFINE c == Bearer(a, in, t.count, cut, top, r.ux)
           d == Bearer(a, in, t.count, cut, top2, x)
<1>1. Linked(c, t, pdus, r, out)
  OBVIOUS
<1>2. /\ c.by = a /\ c.input = in /\ c.cut = cut /\ c.count = t.count /\ c.top = top
      /\ d.by = a /\ d.input = in /\ d.cut = cut /\ d.count = t.count /\ d.top = top2 /\ d.ux = x
      /\ d.lo \in Nat /\ d.low \in Int
  BY BearerParts
<1> HIDE DEF c, d
<1>3. Call(c) /\ Sent(c, t) /\ Heard(c, r, out) /\ c.count <= c.top + MaxOutage
      /\ \A y \in pdus : y \in Cast(c) /\ y.number + Skew > c.count
  BY <1>1 DEF Linked
<1>4. p \in Cast(c) /\ p.number - 1 - c.top \in (-Window)..(Window - 1)
  BY <1>1, LinkedReach
<1>5. PICK lo, low : Ending(Framed(c, top2, lo, low), q, out)
  BY <1>2, <1>3, <1>4, ReceiveEnds
<1>6. top2 \in 0..c.count /\ top <= top2 /\ top \in Nat /\ top2 \in Nat /\ c.count \in Nat
  <2>1. c.count \in Nat /\ c.top \in 0..c.count /\ p.number \in 1..c.count
    BY <1>3, <1>4 DEF Call, Story, Cast
  <2>2. QED
    BY <1>2, <2>1
<1>7. SameStory(c, d)
  BY <1>2 DEF SameStory
<1>8. Call(d) /\ Sent(d, t) /\ Cast(d) = Cast(c)
  BY <1>2, <1>3, <1>6, <1>7, LinkedSame
<1>9. Heard(d, [[q EXCEPT !.ux = x] EXCEPT !.out = << >>], out \o q.out)
  <2> DEFINE e == Framed(c, top2, lo, low)
  <2>1. SameStory(e, d) /\ e.top = d.top
    BY <1>2 DEF Framed, SameStory
  <2>2. Ending(e, q, out) /\ d.ux = x
    BY <1>2, <1>5
  <2> HIDE DEF e
  <2>3. QED
    BY <2>1, <2>2, EndsHeard
<1>10. d.count <= d.top + MaxOutage
  <2>1. MaxOutage \in Nat
    BY DEF RlcAssumption
  <2>2. QED
    BY <1>2, <1>3, <1>6, <2>1
<1>11. \A y \in pdus2 : y \in Cast(d) /\ y.number + Skew > d.count
  BY <1>2, <1>3, <1>8
<1>12. Linked(d, t, pdus2, [[q EXCEPT !.ux = x] EXCEPT !.out = << >>], out \o q.out)
  BY <1>8, <1>9, <1>10, <1>11 DEF Linked
<1>13. QED
  BY <1>12 DEF d

\* The timer has expired.
LEMMA LinkedExpired ==
    ASSUME RlcAssumption, NEW a, NEW in, NEW t, NEW cut, NEW top, NEW pdus, NEW r \in Settled, NEW out,
           Linked(Bearer(a, in, t.count, cut, top, r.ux), t, pdus, r, out),
           Base(r, r.ux) <= Window, NEW x \in Sn, NEW q \in RxState, q = GiveUp(r)
    PROVE  Linked(Bearer(a, in, t.count, cut, top, x), t, pdus,
                  [[q EXCEPT !.ux = x] EXCEPT !.out = << >>], out \o q.out)
<1> DEFINE c == Bearer(a, in, t.count, cut, top, r.ux)
           d == Bearer(a, in, t.count, cut, top, x)
<1>1. Linked(c, t, pdus, r, out)
  OBVIOUS
<1>2. /\ c.by = a /\ c.input = in /\ c.cut = cut /\ c.count = t.count /\ c.top = top
      /\ d.by = a /\ d.input = in /\ d.cut = cut /\ d.count = t.count /\ d.top = top /\ d.ux = x
      /\ d.lo \in Nat /\ d.low \in Int
  BY BearerParts
<1> HIDE DEF c, d
<1>3. Call(c) /\ Sent(c, t) /\ Heard(c, r, out) /\ c.count <= c.top + MaxOutage
      /\ \A y \in pdus : y \in Cast(c) /\ y.number + Skew > c.count
  BY <1>1 DEF Linked
<1>4. PICK lo, low : Ending(Framed(c, c.top, lo, low), q, out)
  BY <1>3, GiveUpEnds
<1>5. SameStory(c, d) /\ d.top \in 0..c.count
  BY <1>2, <1>3 DEF SameStory, Call
<1>6. Call(d) /\ Sent(d, t) /\ Cast(d) = Cast(c)
  BY <1>2, <1>3, <1>5, LinkedSame
<1>7. Heard(d, [[q EXCEPT !.ux = x] EXCEPT !.out = << >>], out \o q.out)
  <2> DEFINE e == Framed(c, c.top, lo, low)
  <2>1. SameStory(e, d) /\ e.top = d.top
    BY <1>2 DEF Framed, SameStory
  <2>2. Ending(e, q, out) /\ d.ux = x
    BY <1>2, <1>4
  <2> HIDE DEF e
  <2>3. QED
    BY <2>1, <2>2, EndsHeard
<1>8. Linked(d, t, pdus, [[q EXCEPT !.ux = x] EXCEPT !.out = << >>], out \o q.out)
  BY <1>2, <1>3, <1>6, <1>7 DEF Linked
<1>9. QED
  BY <1>8 DEF d

-------------------------------------------------------------------------------
(* The invariant of the bearer.                                               *)

BearerInv(a) ==
    /\ heard \in [Sender -> Nat]
    /\ \E cut : Linked(Bearer(a, input[a], tx[a].count, cut, heard[a], rx.ux), tx[a], air, rx, output)

\* timer_expired gets the mutex before the numbers VR(UX) stood for fall below the window.
Prompt == expiring => Base(rx, rx.ux) <= Window

\* It holds at the start.
LEMMA BearerStart ==
    ASSUME RlcAssumption, NEW a \in Sender, Init
    PROVE  BearerInv(a)
<1> DEFINE e == [open |-> FALSE, k |-> 0, o |-> 0]
           cut == [n \in 0..0 |-> e]
           c == Bearer(a, << >>, 0, cut, 0, 0)
           t == [queue |-> << >>, sdu |-> << >>, sn |-> 0, count |-> 0]
<1>0. Window \in Nat \ {0} /\ Mod \in Nat \ {0} /\ MaxOutage \in Nat
  BY Numbers DEF RlcAssumption
<1>1. << >> \in Seq(Sdu) /\ << >> \in Sdu /\ Len(<< >>) = 0
  BY EmptySeq DEF Sdu
<1>2. /\ input[a] = << >> /\ tx[a] = t /\ air = {} /\ rx = FreshRx /\ heard[a] = 0 /\ output = << >>
      /\ heard \in [Sender -> Nat]
  BY DEF Init
<1>3. /\ c.by = a /\ c.input = << >> /\ c.cut = cut /\ c.count = 0 /\ c.top = 0 /\ c.ux = 0
      /\ c.lo \in Nat /\ c.low \in Int
  BY BearerParts
<1>4. e \in Cuts /\ e.open = FALSE /\ e.k = 0 /\ e.o = 0 /\ Floor(e) = 1
  BY DEF Cuts, Floor
<1> HIDE DEF e
<1>5. cut \in [0..0 -> Cuts] /\ cut[0] = e /\ \A n \in 0..0 : cut[n] = e
  BY <1>4
<1> HIDE DEF c, cut
<1>6. Story(c)
  <2>1. \A n \in 1..0 : FALSE
    OBVIOUS
  <2> HIDE DEF Sdu
  <2>2. QED
    BY <1>1, <1>3, <1>4, <1>5, <2>1 DEF Story
<1>7. Call(c)
  BY <1>3, <1>6 DEF Call
<1>8. Sent(c, t)
  <2>1. 0 % Mod = 0
    BY <1>0
  <2>2. \A i \in 1..0 : FALSE
    OBVIOUS
  <2>3. t.sn = 0 /\ t.sdu = << >> /\ t.queue = << >>
    OBVIOUS
  <2> HIDE DEF t
  <2>4. QED
    BY <1>1, <1>3, <1>4, <1>5, <2>1, <2>2, <2>3 DEF Sent
<1>9. Heard(c, rx, output)
  <2>1. rx \in RxState
    BY <1>0, RlcInit DEF RlcInv, ReceiverPlaced, Settled
  <2>2. rx.ux = 0 /\ rx.ur = 0 /\ rx.uh = 0 /\ rx.window = {} /\ rx.sdu = << >> /\ rx.out = << >>
    BY <1>2 DEF FreshRx
  <2>3. 0 % Mod = 0 /\ 0 \in 0..0 /\ 0 - 0 <= Window
    BY <1>0
  <2>4. Tracked(c, rx, 0)
    BY <1>3, <2>1, <2>2, <2>3 DEF Tracked
  <2>5. Waiting(c, rx, 0, -Window)
    BY <2>2 DEF Waiting
  <2>6. Run(c, output, 1, Floor(c.cut[0]))
    <3>1. \A n \in 1..0 : FALSE
      OBVIOUS
    <3> HIDE DEF Sdu
    <3>2. QED
      BY <1>1, <1>2, <3>1 DEF Run
  <2>7. ~Holds(rx, rx.ur)
    BY <2>2 DEF Holds
  <2>8. QED
    BY <1>3, <2>2, <2>3, <2>4, <2>5, <2>6, <2>7 DEF Heard
<1>10. Linked(c, t, air, rx, output)
  BY <1>0, <1>2, <1>3, <1>7, <1>8, <1>9 DEF Linked
<1>11. rx.ux = 0 /\ tx[a].count = 0
  BY <1>2 DEF FreshRx
<1>12. QED
  BY <1>2, <1>10, <1>11 DEF BearerInv, c

\* The sender as the type invariant has it.
LEMMA TransmitTypes ==
    ASSUME SenderTypes, NEW a \in Sender
    PROVE  tx[a] \in Transmit /\ Len(tx[a].queue) <= Capacity /\ tx[a].queue \in Seq(Sdu)
<1>1. tx[a] \in Transmit
  BY DEF SenderTypes, Transmit
<1>2. QED
  BY <1>1 DEF SenderTypes, Transmit

\* Writing an SDU keeps it.
LEMMA WriteBearer ==
    ASSUME RlcAssumption, NEW a \in Sender, RlcInv, BearerInv(a), NEW n \in SduSizes, TryWriteSdu(a, n)
    PROVE  BearerInv(a)'
<1> DEFINE sdu == [k \in 1..n |-> <<a, Len(input[a]) + 1, k>>]
<1>1. PICK cut : Linked(Bearer(a, input[a], tx[a].count, cut, heard[a], rx.ux), tx[a], air, rx, output)
  BY DEF BearerInv
<1>2. tx[a] \in Transmit /\ n \in Nat \ {0}
  BY TransmitTypes DEF RlcInv, RlcAssumption
<1>3. Linked(Bearer(a, Append(input[a], sdu), tx[a].count, cut, heard[a], rx.ux),
             [tx[a] EXCEPT !.queue = Append(@, sdu)], air, rx, output)
  BY <1>1, <1>2, LinkedWritten
<1>4. /\ input' = [input EXCEPT ![a] = Append(@, sdu)]
      /\ tx' = [tx EXCEPT ![a].queue = Append(@, sdu)]
      /\ air' = air /\ rx' = rx /\ heard' = heard /\ output' = output
  BY DEF TryWriteSdu
<1> HIDE DEF sdu, Sdu
<1>5. input'[a] = Append(input[a], sdu)
  BY <1>4 DEF RlcInv, SenderTypes
<1>6. tx'[a] = [tx[a] EXCEPT !.queue = Append(@, sdu)]
  BY <1>4 DEF RlcInv, SenderTypes
<1>7. tx'[a].count = tx[a].count
  BY <1>2, <1>6 DEF Transmit
<1>8. Linked(Bearer(a, input'[a], tx'[a].count, cut, heard'[a], rx'.ux), tx'[a], air', rx', output')
  BY <1>3, <1>4, <1>5, <1>6, <1>7
<1>9. heard' \in [Sender -> Nat]
  BY <1>4 DEF BearerInv
<1>10. QED
  BY <1>8, <1>9 DEF BearerInv

\* Building a PDU keeps it.
LEMMA BuildBearer ==
    ASSUME RlcAssumption, NEW a, Sender = {a}, RlcInv, BearerInv(a), NEW g \in Grants, BuildDataPdu(a, g)
    PROVE  BearerInv(a)'
<1> DEFINE t == tx[a]
           f == Fill(Continue(t, g))
           u == [queue |-> f.queue, sdu |-> f.sdu, sn |-> NextSn(t.sn), count |-> t.count + 1]
           p == [sender |-> a, number |-> t.count + 1, sn |-> t.sn, segs |-> f.segs,
                 startAligned |-> t.sdu = << >>, endAligned |-> f.sdu = << >>]
<1>1. PICK cut : Linked(Bearer(a, input[a], t.count, cut, heard[a], rx.ux), t, air, rx, output)
  BY DEF BearerInv
<1>2. t \in Transmit /\ Len(t.queue) <= Capacity /\ g \in Nat
  BY TransmitTypes DEF RlcInv, RlcAssumption
<1>3. /\ t.sdu # << >> \/ t.queue # << >>
      /\ g > PackedLength(0) + 1
      /\ t.count - heard[a] < MaxOutage
      /\ tx' = [tx EXCEPT ![a] = u]
      /\ air' = {q \in air : ~Late(q, a)} \cup {p}
      /\ input' = input /\ rx' = rx /\ heard' = heard /\ output' = output
  BY DEF BuildDataPdu, InTouch
<1>4. \A q \in air : q.sender = a /\ q.number + Skew <= t.count + 1 => Late(q, a)
  BY DEF Late
<1>5. \A q \in air' : q = p \/ (q \in air /\ ~(q.number + Skew <= t.count + 1))
  <2>1. \A q \in air : q.sender = a
    BY DEF RlcInv, SenderTypes, Pdu
  <2>2. QED
    BY <1>3, <1>4, <2>1
<1>6. \E cut2 : Linked(Bearer(a, input[a], t.count + 1, cut2, heard[a], rx.ux), u, air', rx, output)
  BY <1>1, <1>2, <1>3, <1>5, LinkedBuilt
<1>7. u.count = t.count + 1
  OBVIOUS
<1> HIDE DEF u, p
<1>8. tx'[a] = u
  BY <1>3 DEF RlcInv, SenderTypes
<1>9. \E cut2 : Linked(Bearer(a, input'[a], tx'[a].count, cut2, heard'[a], rx'.ux), tx'[a], air', rx', output')
  BY <1>3, <1>6, <1>7, <1>8
<1>10. heard' \in [Sender -> Nat]
  BY <1>3 DEF BearerInv
<1>11. QED
  BY <1>9, <1>10 DEF BearerInv

\* What Becomes leaves.
LEMMA BecomesMarked ==
    ASSUME NEW q \in RxState, Becomes(q) \/ Becomes([q EXCEPT !.ux = q.uh])
    PROVE  \E x \in Sn : /\ rx' = [[q EXCEPT !.ux = x] EXCEPT !.out = << >>] /\ rx'.ux = x
                         /\ output' = output \o q.out
<1>1. CASE Becomes(q)
  <2>1. q.ux \in Sn /\ rx' = [q EXCEPT !.out = << >>] /\ output' = output \o q.out
    BY <1>1 DEF Becomes, RxState
  <2>2. [q EXCEPT !.ux = q.ux] = q /\ rx'.ux = q.ux
    BY <2>1 DEF RxState
  <2>3. QED
    BY <2>1, <2>2
<1>2. CASE Becomes([q EXCEPT !.ux = q.uh])
  <2>1. q.uh \in Sn /\ rx' = [[q EXCEPT !.ux = q.uh] EXCEPT !.out = << >>]
        /\ output' = output \o [q EXCEPT !.ux = q.uh].out
    BY <1>2 DEF Becomes, RxState
  <2>2. [q EXCEPT !.ux = q.uh].out = q.out /\ rx'.ux = q.uh
    BY <2>1 DEF RxState
  <2>3. QED
    BY <2>1, <2>2
<1>3. QED
  BY <1>1, <1>2

\* Receiving a PDU keeps it.
LEMMA ReceiveBearer ==
    ASSUME RlcAssumption, Skew <= Window, MaxOutage <= Window, NEW a, Sender = {a}, RlcInv, BearerInv(a),
           NEW p \in air, Receive(p)
    PROVE  BearerInv(a)'
<1>1. PICK cut : Linked(Bearer(a, input[a], tx[a].count, cut, heard[a], rx.ux), tx[a], air, rx, output)
  BY DEF BearerInv
<1>2. input' = input /\ tx' = tx /\ air' \in SUBSET air
  BY DEF Receive
<1>3. p \in Pdu /\ p.sender = a /\ p.number \in Nat /\ rx \in Settled
  BY DEF RlcInv, SenderTypes, ReceiverPlaced, Pdu
<1>4. heard' \in [Sender -> Nat] /\ heard'[a] = IF heard[a] < p.number THEN p.number ELSE heard[a]
  <2>1. heard \in [Sender -> Nat] /\ a \in Sender
    BY DEF BearerInv
  <2>2. heard' = [heard EXCEPT ![a] = IF heard[a] < p.number THEN p.number ELSE heard[a]]
    BY <1>3 DEF Receive
  <2>3. QED
    BY <1>3, <2>1, <2>2
<1>5. CASE Outside(rx, p.sn) \/ Holds(rx, p.sn)
  <2>1. rx' = rx /\ output' = output
    BY <1>5 DEF Receive, HandleDataPdu
  <2>2. Bearer(a, input[a], tx[a].count, cut, heard[a], rx.ux).top = heard[a]
    BY BearerParts
  <2>3. Linked(Bearer(a, input[a], tx[a].count, cut, heard[a], rx.ux), tx[a], air', rx, output)
        /\ ~(heard[a] < p.number)
    BY <1>1, <1>2, <1>5, <2>2, LinkedIgnored
  <2>4. Linked(Bearer(a, input'[a], tx'[a].count, cut, heard'[a], rx'.ux), tx'[a], air', rx', output')
    BY <1>2, <1>4, <2>1, <2>3
  <2>5. QED
    BY <1>4, <2>4 DEF BearerInv
<1>6. CASE ~(Outside(rx, p.sn) \/ Holds(rx, p.sn))
  <2> DEFINE q == ReassembleRxSdus(Taken(rx, p))
  <2>1. UpdateTimer(q)
    BY <1>6 DEF Receive, HandleDataPdu, Taken
  <2>2. q \in RxState
    <3>1. q \in Settled
      BY <1>3, <1>6, TakenPlaced, Reassembled
    <3>2. QED
      BY <3>1 DEF Settled
  <2>3. Becomes(q) \/ Becomes([q EXCEPT !.ux = q.uh])
    BY <2>1 DEF UpdateTimer
  <2>4. PICK x \in Sn : /\ rx' = [[q EXCEPT !.ux = x] EXCEPT !.out = << >>] /\ rx'.ux = x
                        /\ output' = output \o q.out
    BY <2>2, <2>3, BecomesMarked
  <2>5. Linked(Bearer(a, input[a], tx[a].count, cut, heard'[a], x), tx[a], air',
               [[q EXCEPT !.ux = x] EXCEPT !.out = << >>], output \o q.out)
    BY <1>1, <1>2, <1>4, <1>6, <2>2, <2>4, LinkedReceived
  <2> HIDE DEF q
  <2>6. Linked(Bearer(a, input'[a], tx'[a].count, cut, heard'[a], rx'.ux), tx'[a], air', rx', output')
    BY <1>2, <2>4, <2>5
  <2>7. QED
    BY <1>4, <2>6 DEF BearerInv
<1>7. QED
  BY <1>5, <1>6

\* The expiry keeps it, when its callback is prompt.
LEMMA ExpiredBearer ==
    ASSUME RlcAssumption, NEW a \in Sender, RlcInv, BearerInv(a), Prompt, TimerExpired
    PROVE  BearerInv(a)'
<1> DEFINE q == GiveUp(rx)
<1>1. PICK cut : Linked(Bearer(a, input[a], tx[a].count, cut, heard[a], rx.ux), tx[a], air, rx, output)
  BY DEF BearerInv
<1>2. input' = input /\ tx' = tx /\ air' = air /\ heard' = heard /\ expiring
  BY DEF TimerExpired
<1>3. rx \in Settled /\ Base(rx, rx.ux) <= Window
  BY <1>2 DEF RlcInv, ReceiverPlaced, Prompt
<1>4. q \in RxState
  <2>1. q \in Settled
    BY <1>3, GiveUpSettled
  <2>2. QED
    BY <2>1 DEF Settled
<1>5. Becomes(q) \/ Becomes([q EXCEPT !.ux = q.uh])
  BY DEF TimerExpired
<1>6. PICK x \in Sn : /\ rx' = [[q EXCEPT !.ux = x] EXCEPT !.out = << >>] /\ rx'.ux = x
                      /\ output' = output \o q.out
  BY <1>4, <1>5, BecomesMarked
<1>7. Linked(Bearer(a, input[a], tx[a].count, cut, heard[a], x), tx[a], air,
             [[q EXCEPT !.ux = x] EXCEPT !.out = << >>], output \o q.out)
  BY <1>1, <1>3, <1>4, <1>6, LinkedExpired
<1> HIDE DEF q
<1>8. Linked(Bearer(a, input'[a], tx'[a].count, cut, heard'[a], rx'.ux), tx'[a], air', rx', output')
  BY <1>2, <1>6, <1>7
<1>9. heard' \in [Sender -> Nat]
  BY <1>2 DEF BearerInv
<1>10. QED
  BY <1>8, <1>9 DEF BearerInv

\* Every step keeps it.
LEMMA BearerStep ==
    ASSUME RlcAssumption, Skew <= Window, MaxOutage <= Window, NEW a, Sender = {a}
    PROVE  RlcInv /\ BearerInv(a) /\ Prompt /\ [Next]_vars => BearerInv(a)'
<1> SUFFICES ASSUME RlcInv, BearerInv(a), Prompt, [Next]_vars PROVE BearerInv(a)'
  OBVIOUS
<1>0. a \in Sender
  OBVIOUS
<1>1. CASE UNCHANGED <<input, tx, air, rx, heard, output>>
  BY <1>1 DEF BearerInv
<1>2. ASSUME NEW s \in Sender, NEW n \in SduSizes, TryWriteSdu(s, n) PROVE BearerInv(a)'
  <2>1. TryWriteSdu(a, n)
    BY <1>2
  <2>2. QED
    BY <1>0, <1>2, <2>1, WriteBearer
<1>3. ASSUME NEW s \in Sender, NEW g \in Grants, BuildDataPdu(s, g) PROVE BearerInv(a)'
  <2>1. BuildDataPdu(a, g)
    BY <1>3
  <2>2. QED
    BY <1>0, <1>3, <2>1, BuildBearer
<1>4. ASSUME NEW p \in air, Receive(p) PROVE BearerInv(a)'
  BY <1>4, ReceiveBearer
<1>5. CASE TimerStep
  BY <1>1, <1>5 DEF TimerStep
<1>6. CASE TimerExpired
  BY <1>0, <1>6, ExpiredBearer
<1>7. CASE UNCHANGED vars
  BY <1>1, <1>7 DEF vars
<1>8. QED
  BY <1>2, <1>3, <1>4, <1>5, <1>6, <1>7 DEF Next

-------------------------------------------------------------------------------
(* What was handed up.                                                        *)

\* SDUs of sender a, in order.
Delivered(a) ==
    /\ output \in Seq(Sdu)
    /\ \A i \in 1..Len(output) : /\ Num(output[i]) \in 1..Len(input[a])
                                 /\ output[i] = input[a][Num(output[i])]
                                 /\ output[i][1][1] = a
    /\ \A i, j \in 1..Len(output) : i < j => Num(output[i]) < Num(output[j])

\* The invariant of the bearer says so of everything handed up.
LEMMA BearerDelivered ==
    ASSUME RlcAssumption, NEW a, BearerInv(a)
    PROVE  Delivered(a)
<1>1. PICK cut : Linked(Bearer(a, input[a], tx[a].count, cut, heard[a], rx.ux), tx[a], air, rx, output)
  BY DEF BearerInv
<1> DEFINE c == Bearer(a, input[a], tx[a].count, cut, heard[a], rx.ux)
<1>2. c.by = a /\ c.input = input[a]
  BY BearerParts
<1>3. Story(c) /\ \E U : Run(c, output, 1, Floor(c.cut[U]))
  BY <1>1 DEF Linked, Heard, Call
<1> HIDE DEF c
<1>4. PICK U : Run(c, output, 1, Floor(c.cut[U]))
  BY <1>3
<1>5. ASSUME NEW i \in 1..Len(output)
      PROVE  /\ Num(output[i]) \in 1..Len(input[a])
             /\ output[i] = input[a][Num(output[i])]
             /\ output[i][1][1] = a
  <2>1. PICK k \in 1..Len(c.input) : k = Num(output[i]) /\ output[i] = c.input[k]
    BY <1>4 DEF Run
  <2>2. c.input[k][1][1] = c.by
    BY <1>3, <2>1, NumInput
  <2>3. QED
    BY <1>2, <2>1, <2>2
<1>6. QED
  BY <1>4, <1>5 DEF Delivered, Run

\* Each was handed over.
LEMMA DeliveredWhole ==
    ASSUME NEW a \in Sender, Delivered(a), input[a] \in Seq(Sdu)
    PROVE  DeliveredIntact
<1>1. DOMAIN output = 1..Len(output) /\ DOMAIN input[a] = 1..Len(input[a])
  BY LenProperties DEF Delivered
<1>2. \A i \in DOMAIN output : output[i] \in ToSet(input[a])
  BY <1>1 DEF Delivered, ToSet
<1>3. QED
  BY <1>2 DEF DeliveredIntact

\* The sender and the numbers of SDUs handed up.
Names(a, out) == [i \in 1..Len(out) |-> <<a, Num(out[i])>>]

\* The output of the abstract FIFO.
Mapped == [i \in DOMAIN output |-> Named(output[i])]

\* They are pairs of the sender and the number of the SDU.
LEMMA MappedNames ==
    ASSUME NEW a \in Sender, Delivered(a), input[a] \in Seq(Sdu)
    PROVE  Mapped = Names(a, output)
<1>1. DOMAIN output = 1..Len(output) /\ DOMAIN input[a] = 1..Len(input[a])
  BY LenProperties DEF Delivered
<1>2. ASSUME NEW i \in 1..Len(output) PROVE Named(output[i]) = <<a, Num(output[i])>>
  <2>1. output[i][1][1] = a /\ output[i] \in ToSet(input[a])
    BY <1>1 DEF Delivered, ToSet
  <2>2. QED
    BY <2>1 DEF Named, Num
<1>3. QED
  BY <1>1, <1>2 DEF Mapped, Names

\* A longer output has the names of the shorter one in front.
LEMMA NamesPrefix ==
    ASSUME NEW a, NEW s \in Seq(Sdu), NEW t \in Seq(Sdu), t # << >>
    PROVE  IsStrictPrefix(Names(a, s), Names(a, s \o t))
<1> DEFINE u == s \o t
           x == Names(a, s)
           y == Names(a, u)
<1> HIDE DEF Sdu
<1>1. PICK n \in Nat : n = Len(s)
  BY LenProperties
<1>2. PICK m \in Nat \ {0} : m = Len(t)
  BY LenProperties, EmptySeq
<1>3. u \in Seq(Sdu) /\ Len(u) = n + m /\ \A i \in 1..n : u[i] = s[i]
  <2>1. /\ u \in Seq(Sdu) /\ Len(u) = Len(s) + Len(t)
        /\ \A i \in 1..(Len(s) + Len(t)) : u[i] = IF i <= Len(s) THEN s[i] ELSE t[i - Len(s)]
    BY ConcatProperties
  <2>2. \A i \in 1..n : i \in 1..(n + m) /\ i <= n
    OBVIOUS
  <2> HIDE DEF u
  <2>3. QED
    BY <1>1, <1>2, <2>1, <2>2
<1> HIDE DEF u
<1> DEFINE V == {x[i] : i \in 1..n} \cup {y[i] : i \in 1..(n + m)}
<1>4. x \in Seq(V) /\ Len(x) = n /\ \A i \in 1..n : x[i] = <<a, Num(s[i])>>
  <2>1. x \in [1..n -> V] /\ \A i \in 1..n : x[i] = <<a, Num(s[i])>>
    BY <1>1 DEF Names
  <2> HIDE DEF x, V
  <2>2. QED
    BY <2>1, SeqDef, LenProperties
<1>5. y \in Seq(V) /\ Len(y) = n + m /\ \A i \in 1..(n + m) : y[i] = <<a, Num(u[i])>>
  <2>1. y \in [1..(n + m) -> V] /\ \A i \in 1..(n + m) : y[i] = <<a, Num(u[i])>>
    BY <1>3 DEF Names
  <2> HIDE DEF y, x, V
  <2>2. n + m \in Nat
    OBVIOUS
  <2>3. QED
    BY <2>1, <2>2, SeqDef, LenProperties
<1> HIDE DEF x, y, V
<1>6. \A i \in 1..n : x[i] = y[i] /\ x[i] \in V /\ y[i] \in V
  <2>1. \A i \in 1..n : i \in 1..(n + m)
    OBVIOUS
  <2>2. QED
    BY <1>3, <1>4, <1>5, <2>1, ElementOfSeq
<1>7. SubSeq(x, 1, n) = SubSeq(y, 1, n)
  <2>1. n - 1 + 1 = n /\ (IF 1 <= n THEN n - 1 + 1 ELSE 0) = n /\ 1 \in Int /\ n \in Int
        /\ \A i \in 1..n : 1 + i - 1 = i
    OBVIOUS
  <2>2. SubSeq(x, 1, n) \in Seq(V) /\ Len(SubSeq(x, 1, n)) = n /\ \A i \in 1..n : SubSeq(x, 1, n)[i] = x[i]
    BY <1>6, <2>1, SubSeqProperties
  <2>3. SubSeq(y, 1, n) \in Seq(V) /\ Len(SubSeq(y, 1, n)) = n /\ \A i \in 1..n : SubSeq(y, 1, n)[i] = y[i]
    BY <1>6, <2>1, SubSeqProperties
  <2>4. QED
    BY <1>6, <2>2, <2>3, SeqEqual
<1>8. x # y /\ Len(x) <= Len(y)
  BY <1>1, <1>2, <1>4, <1>5
<1>9. IsStrictPrefix(x, y)
  BY <1>4, <1>7, <1>8 DEF IsStrictPrefix, IsPrefix
<1>10. QED
  BY <1>9 DEF x, y, u

\* What a step does to the two ends.
LEMMA StepEnds ==
    ASSUME RlcAssumption, NEW a, Sender = {a}, RlcInv, [Next]_vars
    PROVE  \/ input' = input /\ output' = output
           \/ input' = input /\ \E more \in Seq(Sdu) : output' = output \o more
           \/ output' = output /\ \E sdu \in Sdu : input' = [input EXCEPT ![a] = Append(@, sdu)]
<1>0. rx \in Settled /\ \A p \in air : p \in Pdu
  BY DEF RlcInv, ReceiverPlaced, SenderTypes
<1>1. ASSUME NEW s \in Sender, NEW n \in SduSizes, TryWriteSdu(s, n)
      PROVE  output' = output /\ \E sdu \in Sdu : input' = [input EXCEPT ![a] = Append(@, sdu)]
  <2> DEFINE sdu == [k \in 1..n |-> <<s, Len(input[s]) + 1, k>>]
  <2>1. s = a /\ n \in Nat /\ Len(input[s]) + 1 \in Nat
    <3>1. s = a /\ n \in Nat /\ input[s] \in Seq(Sdu)
      BY DEF RlcAssumption, RlcInv, SenderTypes
    <3>2. Len(input[s]) \in Nat
      BY <3>1, LenProperties
    <3>3. QED
      BY <3>1, <3>2
  <2>2. sdu \in Sdu
    BY <2>1, SduAccepted
  <2>3. output' = output /\ input' = [input EXCEPT ![s] = Append(@, sdu)]
    BY <1>1 DEF TryWriteSdu
  <2> HIDE DEF sdu
  <2>4. QED
    BY <2>1, <2>2, <2>3
<1>2. ASSUME NEW q \in Settled, Becomes(q) \/ Becomes([q EXCEPT !.ux = q.uh])
      PROVE  \E more \in Seq(Sdu) : output' = output \o more
  <2>1. q \in RxState
    BY DEF Settled
  <2>2. output' = output \o q.out
    BY <1>2, <2>1, BecomesMarked
  <2>3. q.out \in Seq(Sdu)
    BY <2>1 DEF RxState
  <2>4. QED
    BY <2>2, <2>3
<1>3. ASSUME NEW p \in air, Receive(p)
      PROVE  \/ input' = input /\ output' = output
             \/ input' = input /\ \E more \in Seq(Sdu) : output' = output \o more
  <2>1. input' = input
    BY <1>3 DEF Receive
  <2>2. CASE Outside(rx, p.sn) \/ Holds(rx, p.sn)
    BY <1>3, <2>1, <2>2 DEF Receive, HandleDataPdu
  <2>3. CASE ~(Outside(rx, p.sn) \/ Holds(rx, p.sn))
    <3> DEFINE q == ReassembleRxSdus(Taken(rx, p))
    <3>1. UpdateTimer(q)
      BY <1>3, <2>3 DEF Receive, HandleDataPdu, Taken
    <3>2. q \in Settled
      BY <1>0, <2>3, TakenPlaced, Reassembled
    <3>3. Becomes(q) \/ Becomes([q EXCEPT !.ux = q.uh])
      BY <3>1 DEF UpdateTimer
    <3> HIDE DEF q
    <3>4. QED
      BY <1>2, <2>1, <3>2, <3>3
  <2>4. QED
    BY <2>2, <2>3
<1>4. ASSUME TimerExpired
      PROVE  input' = input /\ \E more \in Seq(Sdu) : output' = output \o more
  <2> DEFINE q == GiveUp(rx)
  <2>1. q \in Settled
    BY <1>0, GiveUpSettled
  <2>2. input' = input /\ (Becomes(q) \/ Becomes([q EXCEPT !.ux = q.uh]))
    BY <1>4 DEF TimerExpired
  <2> HIDE DEF q
  <2>3. QED
    BY <1>2, <2>1, <2>2
<1>5. ASSUME NEW s \in Sender, NEW g \in Grants, BuildDataPdu(s, g)
      PROVE  input' = input /\ output' = output
  BY <1>5 DEF BuildDataPdu
<1>6. CASE TimerStep \/ UNCHANGED vars
  BY <1>6 DEF TimerStep, vars
<1>7. QED
  BY <1>1, <1>3, <1>4, <1>5, <1>6 DEF Next

\* Every step is one of the lossy FIFO, or none.
LEMMA FifoStep ==
    ASSUME RlcAssumption, NEW a, Sender = {a}, RlcInv, RlcInv', Delivered(a), Delivered(a)', [Next]_vars
    PROVE  [Fifo!Next]_<<input, [i \in DOMAIN output |-> Named(output[i])]>>
<1>0. a \in Sender /\ input \in [Sender -> Seq(Sdu)] /\ input' \in [Sender -> Seq(Sdu)]
  BY DEF RlcInv, SenderTypes
<1>1. Mapped = Names(a, output)
  BY <1>0, MappedNames
<1>2. Mapped' = Names(a, output')
  <2>1. input'[a] \in Seq(Sdu)
    BY <1>0
  <2>2. DOMAIN output' = 1..Len(output') /\ DOMAIN input'[a] = 1..Len(input'[a])
    BY <2>1, LenProperties DEF Delivered
  <2>3. ASSUME NEW i \in 1..Len(output') PROVE Named(output[i])' = <<a, Num(output'[i])>>
    <3>1. output'[i][1][1] = a /\ output'[i] \in ToSet(input'[a])
      BY <2>2 DEF Delivered, ToSet
    <3>2. QED
      BY <3>1 DEF Named, Num
  <2>4. QED
    BY <2>2, <2>3 DEF Mapped, Names
<1>3. CASE input' = input /\ output' = output
  <2>1. Mapped' = Mapped
    BY <1>1, <1>2, <1>3
  <2>2. QED
    BY <1>3, <2>1 DEF Mapped
<1>4. ASSUME input' = input, NEW more \in Seq(Sdu), output' = output \o more, more # << >>
      PROVE  Fifo!Deliver
  <2>1. IsStrictPrefix(Mapped, Mapped')
    BY <1>1, <1>2, <1>4, NamesPrefix DEF Delivered
  <2>2. /\ \A i \in DOMAIN Mapped' : Mapped'[i][2] \in DOMAIN input[Mapped'[i][1]]
        /\ \A i, j \in DOMAIN Mapped' :
              i < j /\ Mapped'[i][1] = Mapped'[j][1] => Mapped'[i][2] < Mapped'[j][2]
    <3>1. DOMAIN Mapped' = 1..Len(output')
      BY <1>2 DEF Names
    <3>2. \A i \in 1..Len(output') : Mapped'[i][1] = a /\ Mapped'[i][2] = Num(output'[i])
      BY <1>2 DEF Names
    <3>3. DOMAIN input[a] = 1..Len(input[a])
      BY <1>0, LenProperties
    <3>4. \A i \in 1..Len(output') : Num(output'[i]) \in 1..Len(input[a])
      BY <1>4 DEF Delivered
    <3>5. \A i, j \in 1..Len(output') : i < j => Num(output'[i]) < Num(output'[j])
      BY DEF Delivered
    <3>6. QED
      BY <3>1, <3>2, <3>3, <3>4, <3>5
  <2>3. QED
    BY <1>4, <2>1, <2>2
    DEF Fifo!Deliver, Fifo!Faithful, Mapped,
        Fifo!IsStrictPrefix, Fifo!IsPrefix, IsStrictPrefix, IsPrefix
<1>5. ASSUME output' = output, NEW sdu \in Sdu, input' = [input EXCEPT ![a] = Append(@, sdu)]
      PROVE  Fifo!Accept(a)
  <2>1. Mapped' = Mapped
    BY <1>1, <1>2, <1>5
  <2>2. input'[a] = Append(input[a], sdu) /\ input[a] \in Seq(Sdu)
    BY <1>0, <1>5
  <2>3. Last(input'[a]) = sdu
    <3> HIDE DEF Sdu
    <3>1. Len(Append(input[a], sdu)) = Len(input[a]) + 1 /\ Append(input[a], sdu)[Len(input[a]) + 1] = sdu
      BY <2>2, AppendProperties
    <3>2. QED
      BY <2>2, <3>1 DEF Last
  <2>4. input' = [input EXCEPT ![a] = Append(@, Last(input'[a]))]
    BY <1>5, <2>3
  <2>5. QED
    BY <2>1, <2>4 DEF Fifo!Accept, Fifo!Last, Last, Mapped
<1>6. ASSUME input' = input, NEW more \in Seq(Sdu), output' = output \o more, more = << >>
      PROVE  output' = output
  <2> HIDE DEF Sdu
  <2>1. output \in Seq(Sdu)
    BY DEF Delivered
  <2>2. QED
    BY <1>6, <2>1, ConcatEmptySeq
<1>7. \/ input' = input /\ output' = output
      \/ input' = input /\ \E more \in Seq(Sdu) : output' = output \o more
      \/ output' = output /\ \E sdu \in Sdu : input' = [input EXCEPT ![a] = Append(@, sdu)]
  BY StepEnds
<1>8. CASE input' = input /\ \E more \in Seq(Sdu) : output' = output \o more
  <2>1. PICK more \in Seq(Sdu) : output' = output \o more
    BY <1>8
  <2>2. CASE more = << >>
    BY <1>3, <1>6, <1>8, <2>1, <2>2
  <2>3. CASE more # << >>
    <3>1. Fifo!Deliver
      BY <1>4, <1>8, <2>1, <2>3
    <3>2. QED
      BY <3>1 DEF Fifo!Next
  <2>4. QED
    BY <2>2, <2>3
<1>9. CASE output' = output /\ \E sdu \in Sdu : input' = [input EXCEPT ![a] = Append(@, sdu)]
  <2>1. Fifo!Accept(a)
    BY <1>5, <1>9
  <2>2. QED
    BY <1>0, <2>1 DEF Fifo!Next
<1>10. QED
  BY <1>3, <1>7, <1>8, <1>9

\* With one sender, under the assumptions about the radio, and as long as timer_expired is prompt:
\* whatever is lost, repeated or reordered, an SDU handed to PDCP is one that was handed over, whole.
THEOREM DeliveredIntactHolds ==
    ASSUME NEW a, Sender = {a}, Skew <= Window, MaxOutage <= Window
    PROVE  Spec /\ []Prompt => []DeliveredIntact
<1>1. Init => RlcInv /\ BearerInv(a)
  BY RlcAssumption, RlcInit, BearerStart
<1>2. RlcInv /\ BearerInv(a) /\ Prompt /\ [Next]_vars => RlcInv' /\ BearerInv(a)'
  BY RlcAssumption, RlcStep, BearerStep
<1>3. RlcInv /\ BearerInv(a) => DeliveredIntact
  <2> SUFFICES ASSUME RlcInv, BearerInv(a) PROVE DeliveredIntact
    OBVIOUS
  <2>1. Delivered(a) /\ input[a] \in Seq(Sdu)
    BY RlcAssumption, BearerDelivered DEF RlcInv, SenderTypes
  <2>2. QED
    BY <2>1, DeliveredWhole
<1>4. QED
  BY <1>1, <1>2, <1>3, PTL DEF Spec

\* Under the same assumptions, the bearer implements the lossy FIFO: SDUs arrive in the order in
\* which they were handed over, and once.
THEOREM LossyFifoImplemented ==
    ASSUME NEW a, Sender = {a}, Skew <= Window, MaxOutage <= Window
    PROVE  Spec /\ []Prompt => ImplementsLossyFifo
<1>1. Init => RlcInv /\ BearerInv(a)
  BY RlcAssumption, RlcInit, BearerStart
<1>2. RlcInv /\ BearerInv(a) /\ Prompt /\ [Next]_vars => RlcInv' /\ BearerInv(a)'
  BY RlcAssumption, RlcStep, BearerStep
<1>3. Init => Fifo!Init
  <2> SUFFICES ASSUME Init PROVE Fifo!Init
    OBVIOUS
  <2>1. input = [s \in Sender |-> << >>] /\ output = << >>
    BY DEF Init
  <2>2. [i \in DOMAIN output |-> Named(output[i])] = << >>
    BY <2>1
  <2>3. QED
    BY <2>1, <2>2 DEF Fifo!Init
<1>4. RlcInv /\ BearerInv(a) => Delivered(a)
  BY RlcAssumption, BearerDelivered
<1>5. RlcInv /\ RlcInv' /\ Delivered(a) /\ Delivered(a)' /\ [Next]_vars
         => [Fifo!Next]_<<input, [i \in DOMAIN output |-> Named(output[i])]>>
  BY RlcAssumption, FifoStep
<1>6. QED
  BY <1>1, <1>2, <1>3, <1>4, <1>5, PTL DEF Spec, ImplementsLossyFifo, Fifo!Spec
===============================================================================
