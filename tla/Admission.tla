------------------------------ MODULE Admission ------------------------------
(***************************************************************************)
(* What the server's client queue promises to the rest of the server,      *)
(* with no array, no mutex and no condition variable: connections are      *)
(* admitted to service in the order in which they arrived, at most         *)
(* Capacity of them wait at a time, a connection is waiting or in service  *)
(* but never both, and once the queue is closed nobody is admitted.        *)
(* Module ClientQueue implements this specification.                       *)
(***************************************************************************)
EXTENDS Naturals, Sequences

CONSTANTS
  Clients,    \* the connections the server ever accepts
  Capacity    \* how many of them may wait (thread_pool_size)

VARIABLES
  waiting,    \* arrived, not admitted: a first-in first-out queue
  running,    \* admitted to service and not yet gone
  closed      \* shutdown has been announced to the queue

vars == <<waiting, running, closed>>

Present == {waiting[k] : k \in 1..Len(waiting)} \cup running

Init ==
  /\ waiting = <<>>
  /\ running = {}
  /\ closed = FALSE

Arrive(c) ==
  /\ ~closed
  /\ Len(waiting) < Capacity
  /\ c \notin Present
  /\ waiting' = Append(waiting, c)
  /\ UNCHANGED <<running, closed>>

Admit ==
  /\ waiting # <<>>
  /\ running' = running \cup {Head(waiting)}
  /\ waiting' = Tail(waiting)
  /\ UNCHANGED closed

Leave(c) ==
  /\ c \in running
  /\ running' = running \ {c}
  /\ UNCHANGED <<waiting, closed>>

Close ==
  /\ ~closed
  /\ closed' = TRUE
  /\ waiting' = <<>>
  /\ UNCHANGED running

Next ==
  \/ \E c \in Clients : Arrive(c) \/ Leave(c)
  \/ Admit
  \/ Close

Spec == Init /\ [][Next]_vars
==============================================================================
