----------------------------- MODULE MCThreadPool -----------------------------
(* Model-checking instance of ThreadPool: the constants come from the cfg.  *)
EXTENDS ThreadPool
===============================================================================
