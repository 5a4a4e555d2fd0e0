----------------------------- MODULE MCSensingSps -----------------------------
(* Model-checking instance of SensingSps: the constants come from the cfg.     *)
EXTENDS SensingSps
===============================================================================
