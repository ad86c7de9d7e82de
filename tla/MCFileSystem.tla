---------------------------- MODULE MCFileSystem ----------------------------
(***************************************************************************)
(* FileCalls for TLC: three names for two directory entries, a disk with   *)
(* room for one file of two sectors or two smaller ones, a program whose   *)
(* table has one slot besides the console's, and the kernel.               *)
(***************************************************************************)
EXTENDS FileCalls, TLC

Symmetry == Permutations(Name) \cup Permutations(UserHandle)
=============================================================================
