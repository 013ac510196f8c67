------------------------------- MODULE MCSync -------------------------------
(* Model-checking instance of Sync: two clients, one file.                  *)
EXTENDS Sync

CONSTANTS c1, c2, f

Running == <<c1, c2>>
Listing == <<f>>
==============================================================================
