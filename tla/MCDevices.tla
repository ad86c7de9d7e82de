------------------------------ MODULE MCDevices ------------------------------
(***************************************************************************)
(* Devices for TLC: two threads, two tracks of two sectors.  The intervals *)
(* of the timer are longer than SystemTick: an endless run of shorter ones *)
(* would let no thread get on, and has probability zero.                   *)
(***************************************************************************)
EXTENDS Devices
=============================================================================
