------------------------------- MODULE MCRlcUm --------------------------------
(* Model-checking instance of RlcUm.                                         *)
EXTENDS RlcUm
===============================================================================
