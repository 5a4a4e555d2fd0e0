------------------------------- MODULE MCPhyTx --------------------------------
(* Model-checking instance of PhyTx: the constants come from the cfg.        *)
EXTENDS PhyTx
===============================================================================
