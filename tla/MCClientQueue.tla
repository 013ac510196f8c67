---------------------------- MODULE MCClientQueue ----------------------------
(* Model-checking instance of ClientQueue: fair threads, and clients that   *)
(* quit in time unless their connection ends.                               *)
EXTENDS ClientQueue

PoliteSpec == FairSpec /\ PoliteClients
==============================================================================
