-------------------------- MODULE MCPassportOffice --------------------------
(***************************************************************************)
(* PassportOffice for TLC: two customers, at most one senator and one      *)
(* clerk of each kind.                                                     *)
(***************************************************************************)
EXTENDS PassportOffice

MCNumClerks == [k \in Kind |-> IF k = "app" THEN 2 ELSE 1]
MCWakeLine == [k \in Kind |-> 1]
=============================================================================
