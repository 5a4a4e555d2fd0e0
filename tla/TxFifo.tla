-------------------------------- MODULE TxFifo --------------------------------
(***************************************************************************)
(* What the transmit chain promises (phy_common.cc, comment above          *)
(* worker_end): subframes leave the radio in the order in which they were  *)
(* dispatched, one at a time.                                              *)
(***************************************************************************)
EXTENDS Sequences, Naturals

CONSTANT Job          \* the slots a dispatched subframe may occupy

VARIABLE pending      \* dispatched and not yet transmitted, oldest first

Init == pending = << >>

Enter(j) == pending' = Append(pending, j)

Leave == pending # << >> /\ pending' = Tail(pending)

Next == (\E j \in Job : Enter(j)) \/ Leave

Spec == Init /\ [][Next]_pending
===============================================================================
