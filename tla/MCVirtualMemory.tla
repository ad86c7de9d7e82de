-------------------------- MODULE MCVirtualMemory --------------------------
(***************************************************************************)
(* VirtualMemory for TLC.  More pages than frames, so that pages are       *)
(* evicted, and at least as many frames as TLB entries, as in the machine. *)
(***************************************************************************)
EXTENDS VirtualMemory
=============================================================================
