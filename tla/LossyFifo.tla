------------------------------ MODULE LossyFifo -------------------------------
(***************************************************************************)
(* What unacknowledged mode promises its user: an SDU arrives whole or not *)
(* at all, at most once, and what arrives keeps the order of its sender.   *)
(***************************************************************************)
EXTENDS Integers, Sequences, SequencesExt

CONSTANT Sender

VARIABLES
    input,      \* what each sender accepted, in order
    output      \* what the receiver delivered, as pairs of sender and position in its input

Init ==
    /\ input = [s \in Sender |-> << >>]
    /\ output = << >>

Accept(s) ==
    /\ input' = [input EXCEPT ![s] = Append(@, Last(input'[s]))]
    /\ UNCHANGED output

\* Every delivered SDU was accepted, and later SDUs of a sender come later.
Faithful(out) ==
    /\ \A i \in DOMAIN out : out[i][2] \in DOMAIN input[out[i][1]]
    /\ \A i, j \in DOMAIN out : i < j /\ out[i][1] = out[j][1] => out[i][2] < out[j][2]

Deliver ==
    /\ IsStrictPrefix(output, output')
    /\ Faithful(output')
    /\ UNCHANGED input

Next == Deliver \/ \E s \in Sender : Accept(s)

Spec == Init /\ [][Next]_<<input, output>>
===============================================================================
