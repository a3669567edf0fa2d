------------------------------ MODULE OsProcess ------------------------------
(***************************************************************************)
(* The operating system as stdlib/runtime.c uses it: one direct child, the *)
(* process group whose id is the child's pid, one descendant of the child, *)
(* and the pipes between them and the runtime.  Nothing here is code of    *)
(* the repository: it is what waitid, waitpid, kill, fork, execve, setpgid *)
(* and the pipe calls do, as far as the runtime can tell.                  *)
(*                                                                         *)
(* A byte in an output pipe is represented by the process that wrote it,   *)
(* so that "every byte the direct child wrote" can be stated.              *)
(***************************************************************************)
EXTENDS Naturals, Sequences

CONSTANTS
  MaxWrites,    \* bytes each process writes at most to each pipe
  PipeCap,      \* bytes a pipe holds
  ForeignReap   \* TRUE if something else may reap the child (SIGCHLD ignored)

ASSUME MaxWritesAssumption == MaxWrites \in Nat
ASSUME PipeCapAssumption == PipeCap \in Nat \ {0}
ASSUME ForeignReapAssumption == ForeignReap \in BOOLEAN

VARIABLES
  child,    \* life of the direct child
  ingroup,  \* the direct child is a member of the group numbered by its pid
  desc,     \* life of the descendant
  held,     \* pipe ends each process has open
  pipe,     \* bytes queued in each output pipe
  wrote,    \* bytes each process has written to each output pipe
  report,   \* what the child has told the exec-error pipe
  killed    \* SIGKILL from the runtime reached the child before it exited

osVars == <<child, ingroup, desc, held, pipe, wrote, report, killed>>

Channels == {"out", "err"}
Ends     == Channels \cup {"in"}
Writers  == {"child", "desc"}

Alive    == {"forked", "grouped", "running"}    \* executing instructions
Unreaped == Alive \cup {"dying", "zombie"}      \* the pid cannot be reused
Gone     == {"none", "reaped", "lost"}

OsTypeOK ==
  /\ child \in Unreaped \cup Gone
  /\ ingroup \in BOOLEAN
  /\ desc \in {"none", "group", "escaped", "dead"}
  /\ held \in [Writers -> SUBSET Ends]
  /\ pipe \in [Channels -> Seq(Writers)]
  /\ wrote \in [Writers -> [Channels -> Nat]]
  /\ report \in {"pending", "exec", "error"}
  /\ killed \in BOOLEAN

OsInit ==
  /\ child = "none"
  /\ ingroup = FALSE
  /\ desc = "none"
  /\ held = [w \in Writers |-> {}]
  /\ pipe = [c \in Channels |-> <<>>]
  /\ wrote = [w \in Writers |-> [c \in Channels |-> 0]]
  /\ report = "pending"
  /\ killed = FALSE

NoHolder(e) == \A w \in Writers : e \notin held[w]

(***************************************************************************)
(* System calls of the runtime, as actions on the variables above.         *)
(***************************************************************************)

\* fork: a new child with the pipe ends prepared for it, and new pipes.
Fork(ends) ==
  /\ child' = "forked"
  /\ ingroup' = FALSE
  /\ desc' = "none"
  /\ held' = [w \in Writers |-> IF w = "child" THEN ends ELSE {}]
  /\ pipe' = [c \in Channels |-> <<>>]
  /\ wrote' = [w \in Writers |-> [c \in Channels |-> 0]]
  /\ report' = "pending"
  /\ killed' = FALSE

\* setpgid(pid, pid) by the parent: it has an effect only before execve;
\* afterwards it fails with EACCES or ESRCH, which the caller tolerates.
ParentSetpgid ==
  /\ ingroup' = (ingroup \/ child = "forked")
  /\ UNCHANGED <<child, desc, held, pipe, wrote, report, killed>>

\* kill(pid, SIGKILL): a process that has exited already does not change.
KillPid ==
  /\ child' = IF child \in Alive THEN "dying" ELSE child
  /\ killed' = (killed \/ child \in Alive)
  /\ UNCHANGED <<ingroup, desc, held, pipe, wrote, report>>

\* kill(-pid, SIGKILL): every member of the group.
KillGroup ==
  /\ child' = IF ingroup /\ child \in Alive THEN "dying" ELSE child
  /\ killed' = (killed \/ (ingroup /\ child \in Alive))
  /\ desc' = IF desc = "group" THEN "dead" ELSE desc
  /\ held' = [held EXCEPT !["desc"] = IF desc = "group" THEN {} ELSE @]
  /\ UNCHANGED <<ingroup, pipe, wrote, report>>

\* A successful waitpid: the pid is free for reuse afterwards.
Reap ==
  /\ child = "zombie"
  /\ child' = "reaped"
  /\ UNCHANGED <<ingroup, desc, held, pipe, wrote, report, killed>>

\* read of n queued bytes.
Consume(c, n) ==
  /\ pipe' = [pipe EXCEPT ![c] = SubSeq(@, n + 1, Len(@))]
  /\ UNCHANGED <<child, ingroup, desc, held, wrote, report, killed>>

(***************************************************************************)
(* Steps of the child between fork and execve.  This much is the runtime's *)
(* own code: setpgid(0, 0), chdir, dup2, execve, and on a failure a report *)
(* on the exec-error pipe followed by _exit(127).                          *)
(***************************************************************************)
ChildSetpgid ==
  /\ child = "forked"
  /\ child' = "grouped"
  /\ ingroup' = TRUE
  /\ UNCHANGED <<desc, held, pipe, wrote, report, killed>>

ChildExec ==
  /\ child = "grouped"
  /\ child' = "running"
  /\ report' = "exec"
  /\ UNCHANGED <<ingroup, desc, held, pipe, wrote, killed>>

ChildSetupFails ==
  /\ child \in {"forked", "grouped"}
  /\ child' = "dying"
  /\ report' = "error"
  /\ UNCHANGED <<ingroup, desc, held, pipe, wrote, killed>>

ChildSetup == ChildSetpgid \/ ChildExec \/ ChildSetupFails

(***************************************************************************)
(* Steps of the executed program and of its descendant.                    *)
(***************************************************************************)

\* A write already in the kernel may still complete after SIGKILL.
CanWrite(w) ==
  IF w = "child" THEN report = "exec" /\ child \in {"running", "dying"}
                 ELSE desc \in {"group", "escaped"}

Write(w, c) ==
  /\ CanWrite(w)
  /\ c \in held[w]
  /\ wrote[w][c] < MaxWrites
  /\ Len(pipe[c]) < PipeCap
  /\ pipe' = [pipe EXCEPT ![c] = Append(@, w)]
  /\ wrote' = [wrote EXCEPT ![w][c] = @ + 1]
  /\ UNCHANGED <<child, ingroup, desc, held, report, killed>>

\* The program closes its standard streams and keeps running.
ChildCloses ==
  /\ child = "running"
  /\ held["child"] # {}
  /\ held' = [held EXCEPT !["child"] = {}]
  /\ UNCHANGED <<child, ingroup, desc, pipe, wrote, report, killed>>

ChildSpawns ==
  /\ child = "running"
  /\ desc = "none"
  /\ desc' = IF ingroup THEN "group" ELSE "escaped"
  /\ held' = [held EXCEPT !["desc"] = held["child"]]
  /\ UNCHANGED <<child, ingroup, pipe, wrote, report, killed>>

\* The program moves itself to another group of its session.
ChildLeavesGroup ==
  /\ child = "running"
  /\ ingroup
  /\ ingroup' = FALSE
  /\ UNCHANGED <<child, desc, held, pipe, wrote, report, killed>>

DescEscapes ==
  /\ desc = "group"
  /\ desc' = "escaped"
  /\ UNCHANGED <<child, ingroup, held, pipe, wrote, report, killed>>

\* A descendant in another group of the session joins the child's group
\* again.  Assumption: none does so after the child has exited, where the
\* runtime, between its last signal and the reap, could not notice it.
DescRejoins ==
  /\ desc = "escaped"
  /\ ingroup /\ child \in {"running", "dying"}
  /\ desc' = "group"
  /\ UNCHANGED <<child, ingroup, held, pipe, wrote, report, killed>>

DescExits ==
  /\ desc \in {"group", "escaped"}
  /\ desc' = "dead"
  /\ held' = [held EXCEPT !["desc"] = {}]
  /\ UNCHANGED <<child, ingroup, pipe, wrote, report, killed>>

ChildExits ==
  /\ child = "running"
  /\ child' = "zombie"
  /\ held' = [held EXCEPT !["child"] = {}]
  /\ UNCHANGED <<ingroup, desc, pipe, wrote, report, killed>>

\* A killed process, or one in _exit, becomes a zombie after a while.
ChildDies ==
  /\ child = "dying"
  /\ child' = "zombie"
  /\ held' = [held EXCEPT !["child"] = {}]
  /\ UNCHANGED <<ingroup, desc, pipe, wrote, report, killed>>

\* The zombie is reaped by someone other than this runtime's handle.
ReapedElsewhere ==
  /\ ForeignReap
  /\ child = "zombie"
  /\ child' = "lost"
  /\ UNCHANGED <<ingroup, desc, held, pipe, wrote, report, killed>>

ProgramStep ==
  \/ \E w \in Writers, c \in Channels : Write(w, c)
  \/ ChildCloses
  \/ ChildSpawns
  \/ ChildLeavesGroup
  \/ DescEscapes
  \/ DescRejoins
  \/ DescExits
  \/ ChildExits
  \/ ReapedElsewhere

==============================================================================
