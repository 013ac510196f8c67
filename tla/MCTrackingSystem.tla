-------------------------- MODULE MCTrackingSystem --------------------------
(* Model-checking instance of TrackingSystem: the files f and g inside      *)
(* directory d.                                                             *)
EXTENDS TrackingSystem

CONSTANTS d, f, g

InOneDirectory == [p \in Paths |-> IF p \in Dirs THEN {} ELSE Dirs]
=============================================================================
