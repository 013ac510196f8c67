------------------------------ MODULE MCStream ------------------------------
(* Model-checking instance of Stream.  In units of half a chunk, rounded    *)
(* up, tracking_system_t and req_t take 5, tracked_file_t and res_t 3.      *)
EXTENDS Stream

Lengths == [kind \in Kinds |-> IF kind \in {"header", "request"} THEN 5 ELSE 3]
==============================================================================
