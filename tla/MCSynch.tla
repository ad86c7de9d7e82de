------------------------------ MODULE MCSynch ------------------------------
(***************************************************************************)
(* Synch for TLC.  Three threads: one may overtake a woken one while a     *)
(* third holds the lock, and one may be forked and finish before another   *)
(* that was switched out comes back.                                       *)
(***************************************************************************)
EXTENDS Synch
=============================================================================
