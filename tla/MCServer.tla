------------------------------ MODULE MCServer ------------------------------
(* Model-checking instance of Server.                                       *)
EXTENDS Server, TLC

CONSTANTS c1, c2, c3

(* Clients that have the same part in a run, and handlers, are              *)
(* interchangeable.                                                         *)
Symmetry == Permutations(Handlers) \cup Permutations(Clients \ (Quitters \cup Vanishers))
==============================================================================
