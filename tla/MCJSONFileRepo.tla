--------------------------- MODULE MCJSONFileRepo ---------------------------
(* JSONFileRepo for TLC: processes, and diagrams, are interchangeable. *)
EXTENDS JSONFileRepo, TLC

RepoSymmetry == Permutations(Proc) \cup Permutations(Id)
=============================================================================
