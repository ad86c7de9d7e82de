----------------------------- MODULE MCProcesses -----------------------------
(***************************************************************************)
(* Processes for TLC: four threads in up to three processes, so that one   *)
(* process forks twice while another is made, fails to be made, and exits. *)
(***************************************************************************)
EXTENDS Processes
=============================================================================
