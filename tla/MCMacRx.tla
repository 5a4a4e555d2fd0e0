------------------------------- MODULE MCMacRx --------------------------------
(* Model-checking instance of MacRx.  The configurations check liveness, so  *)
(* they use no symmetry.                                                     *)
EXTENDS MacRx
===============================================================================
