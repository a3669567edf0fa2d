----------------------------- MODULE AtomicFile -----------------------------
(***************************************************************************)
(* What atomic_write_file promises (SPEC.md, "same-directory atomic        *)
(* visibility"): the file changes in one step, from one complete value to  *)
(* another; a call that reports success has made that step exactly once,   *)
(* and a call that reports an error has not made it.                       *)
(***************************************************************************)
CONSTANTS Procs, Values

VARIABLES
  file,  \* what a process that opens the path would read
  call   \* the write each process has in progress

fileVars == <<file, call>>

Idle == <<"idle">>
Dead == <<"dead">>
Pending(v) == <<"pending", v>>
Committed(v) == <<"committed", v>>

Init == call = [p \in Procs |-> Idle]

Request(p, v) ==
  /\ call[p] = Idle
  /\ call' = [call EXCEPT ![p] = Pending(v)]
  /\ UNCHANGED file

Commit(p, v) ==
  /\ call[p] = Pending(v)
  /\ call' = [call EXCEPT ![p] = Committed(v)]
  /\ file' = v

ReturnOk(p, v) ==
  /\ call[p] = Committed(v)
  /\ call' = [call EXCEPT ![p] = Idle]
  /\ UNCHANGED file

ReturnErr(p, v) ==
  /\ call[p] = Pending(v)
  /\ call' = [call EXCEPT ![p] = Idle]
  /\ UNCHANGED file

\* The process dies, before or after its write took effect.
Die(p) ==
  /\ call[p] # Dead
  /\ call' = [call EXCEPT ![p] = Dead]
  /\ UNCHANGED file

Next ==
  \E p \in Procs :
    \/ Die(p)
    \/ \E v \in Values :
         Request(p, v) \/ Commit(p, v) \/ ReturnOk(p, v) \/ ReturnErr(p, v)

Spec == Init /\ [][Next]_fileVars

==============================================================================
