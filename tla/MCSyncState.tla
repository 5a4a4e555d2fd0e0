------------------------------ MODULE MCSyncState -----------------------------
(* Model-checking instance of SyncState: the constants come from the cfg.    *)
EXTENDS SyncState
===============================================================================
