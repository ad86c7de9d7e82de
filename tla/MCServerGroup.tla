--------------------------- MODULE MCServerGroup ---------------------------
(***************************************************************************)
(* ServerGroup for TLC: one server or two, two clients and four calls, so  *)
(* that both servers are asked for one name at once, a no is counted for a *)
(* request that was answered, and a server makes more locks than it has    *)
(* ids; and two monitor variables of one element, with a value that fits   *)
(* into a char and one that comes back negative.                           *)
(***************************************************************************)
EXTENDS ServerGroup
=============================================================================
