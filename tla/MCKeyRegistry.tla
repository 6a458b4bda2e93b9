---------------------------- MODULE MCKeyRegistry -----------------------------
(* The instance of KeyRegistry that TLC checks.                            *)
EXTENDS KeyRegistry, TLC

(* Commands and requests are interchangeable. *)
Symmetry == Permutations(Cmds) \cup Permutations(Fetches)
==============================================================================
