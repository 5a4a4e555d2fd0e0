------------------------------- MODULE MCSlHarq -------------------------------
(* Model-checking instance of SlHarq: the constants come from the cfg.       *)
EXTENDS SlHarq
===============================================================================
