---------------------------- MODULE ProcessHandle ----------------------------
(***************************************************************************)
(* What a process handle promises its caller (docs/M55_CONTRACTS.md), with *)
(* no mention of signals, pipes or retries.  stdlib/runtime.c keeps the    *)
(* promise through NQProcessState; NqProcess is shown to implement this    *)
(* specification.                                                          *)
(*                                                                         *)
(*   none -> active -> ready -> moved        and, when an operation fails, *)
(*   active -> inert -> moved                or the runtime exits.         *)
(***************************************************************************)
CONSTANT NoOutcome

VARIABLES
  phase,    \* what the caller holds
  owned,    \* an unreaped child is anchored by the handle
  outcome   \* the cached outcome

handleVars == <<phase, owned, outcome>>

Init == phase = "none" /\ owned = FALSE /\ outcome = NoOutcome

\* nq_process_start forks before the caller has a handle ...
Spawn ==
  /\ phase = "none" /\ ~owned
  /\ owned' = TRUE
  /\ UNCHANGED <<phase, outcome>>

\* ... and returns one only for a child it still owns.
Deliver ==
  /\ phase = "none" /\ owned
  /\ phase' = "active"
  /\ UNCHANGED <<owned, outcome>>

\* The child is reaped, or found to be gone, without an outcome.
Lose ==
  /\ phase \in {"none", "active"} /\ owned
  /\ owned' = FALSE
  /\ UNCHANGED <<phase, outcome>>

\* The child is reaped and its outcome cached in one step.
Complete ==
  /\ phase = "active" /\ owned
  /\ phase' = "ready"
  /\ owned' = FALSE
  /\ outcome' # NoOutcome

\* A failed terminate leaves an inert handle, never with a child behind it.
Fail ==
  /\ phase = "active" /\ ~owned
  /\ phase' = "inert"
  /\ UNCHANGED <<owned, outcome>>

\* wait and drop consume the handle, again only when nothing is owned.
Consume ==
  /\ phase \in {"active", "ready", "inert"} /\ ~owned
  /\ phase' = "moved"
  /\ outcome' = NoOutcome
  /\ UNCHANGED owned

\* The one way to stop while a child is owned is to stop altogether.
Exit ==
  /\ phase \in {"none", "active"} /\ owned
  /\ phase' = "exited"
  /\ UNCHANGED <<owned, outcome>>

Next == Spawn \/ Deliver \/ Lose \/ Complete \/ Fail \/ Consume \/ Exit

Spec == Init /\ [][Next]_handleVars

==============================================================================
