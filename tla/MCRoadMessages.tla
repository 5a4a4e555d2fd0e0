----------------------------- MODULE MCRoadMessages ----------------------------
(* Model-checking instance of RoadMessages: two signs with the priorities and   *)
(* repetitions of Demo/RSU_Messages.json (3 and 5 differ by one fading).        *)
EXTENDS RoadMessages

MCEvent == {[device |-> "sign1", priority |-> 3, repeat |-> 1],
            [device |-> "sign2", priority |-> 5, repeat |-> 1],
            [device |-> "sign2", priority |-> 3, repeat |-> 0]}
================================================================================
