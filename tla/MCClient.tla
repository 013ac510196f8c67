------------------------------ MODULE MCClient ------------------------------
(* Model-checking instance of Client: a file f in a directory g in a        *)
(* directory e in a directory d, or as many of these as there are.          *)
EXTENDS Client

CONSTANTS d, e, g, f

Tree == [p \in Paths |-> Dirs \cap (CASE p = d -> {} [] p = e -> {d} [] p = g -> {d, e}
                                      [] p = f -> {d, e, g})]
==============================================================================
