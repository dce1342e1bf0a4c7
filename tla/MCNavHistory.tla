---------------------------- MODULE MCNavHistory ----------------------------
(* A small instance of NavHistory. *)
EXTENDS NavHistory
=============================================================================
