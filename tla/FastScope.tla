------------------------------ MODULE FastScope ------------------------------
(***************************************************************************)
(* The systemd scope in which scripts/fast_concurrent.sh runs the groups   *)
(* of the full verification tier: the launcher (timeout and systemd-run),  *)
(* the coordinator (--scope-entry) with its workers, the processes that    *)
(* detach from them, and what the kernel and the service manager do to the *)
(* control group.  The waiter that owns all this is FastConcurrent.        *)
(***************************************************************************)
EXTENDS Integers, Sequences, FiniteSets

CONSTANTS N,      \* groups; 4 in the script
          Codes   \* the exit codes a group may end with

ASSUME ScopeAssumption == N \in Nat \ {0} /\ Codes \subseteq 0 .. 255

Infra == 125      \* the code of every infrastructure failure
Killed == 137     \* the status of a process that SIGKILL ended

Group == 0 .. N - 1

VARIABLES
  unit,      \* the control group, and what was asked of it
  coord,     \* the coordinator: where it is, and what it has seen
  work,      \* the worker of each group
  status,    \* the status file of each group: <<>> or <<producer, logger>>
  exit,      \* the exit code of each worker that has ended
  stray,     \* where detached processes are: the scope itself, or a child
  launcher,  \* the process behind the waiter's wait handle
  chan,      \* what has been written to the two control pipes
  other      \* a later unit under the path of this one

scope == <<unit, coord, work, status, exit, stray, launcher, chan, other>>

ScopeInit ==
  /\ unit = [at |-> "none", freeze |-> FALSE, frozen |-> FALSE,
             doomed |-> FALSE, oom |-> FALSE]
  /\ coord = [at |-> "none", signalled |-> FALSE, next |-> 0,
              error |-> FALSE, code |-> 0]
  /\ work = [g \in Group |-> "idle"]
  /\ status = [g \in Group |-> <<>>]
  /\ exit = [g \in Group |-> 0]
  /\ stray = {}
  /\ launcher = "none"
  /\ chan = [open |-> FALSE, ready |-> FALSE, go |-> FALSE,
             finished |-> FALSE, ack |-> FALSE]
  /\ other = "none"

Units == [at : {"none", "live", "gone"}, freeze : BOOLEAN, frozen : BOOLEAN,
          doomed : BOOLEAN, oom : BOOLEAN]
Coords == [at : {"none", "boot", "go", "spawn", "reap", "ack", "ended"},
           signalled : BOOLEAN, next : 0 .. N, error : BOOLEAN,
           code : 0 .. 255]
Chans == [open : BOOLEAN, ready : BOOLEAN, go : BOOLEAN,
          finished : BOOLEAN, ack : BOOLEAN]

ScopeTypeOK ==
  /\ unit \in Units /\ coord \in Coords /\ chan \in Chans
  /\ work \in [Group -> {"idle", "run", "published", "ended"}]
  /\ status \in [Group -> {<<>>} \cup (Codes \X {0, 1})]
  /\ exit \in [Group -> 0 .. 255]
  /\ stray \subseteq {"scope", "child"}
  /\ launcher \in {"none", "run", "ended", "reaped"}
  /\ other \in {"none", "alive", "killed"}

Coordinating == coord.at \notin {"none", "ended"}
Working(g) == work[g] \in {"run", "published"}
NoPayload == stray = {} /\ \A g \in Group : ~Working(g)
NoProcess == NoPayload /\ ~Coordinating
Thawed == unit.at = "live" /\ ~unit.frozen

\* The first failing group in order decides.
FirstFailure(code) ==
  LET failed == {g \in Group : code[g] # 0}
  IN  IF failed = {} THEN 0
      ELSE code[CHOOSE g \in failed : \A h \in failed : g <= h]

(***************************************************************************)
(* The coordinator                                                         *)
(***************************************************************************)
CoordEnds(code) == coord' = [coord EXCEPT !.at = "ended", !.code = code]

\* systemd-run has created the scope and becomes the coordinator.
ScopeStarts ==
  /\ launcher = "run" /\ coord.at = "none"
  /\ coord' = [coord EXCEPT !.at = "boot"]
  /\ unit' = [unit EXCEPT !.at = "live"]
  /\ UNCHANGED <<work, status, exit, stray, launcher, chan, other>>

\* A check of the entry fails, a control read times out or meets the end of
\* file, or a control write finds no reader.
CoordGivesUp ==
  /\ coord.at \in {"boot", "go", "ack"} /\ Thawed
  /\ CoordEnds(Infra)
  /\ UNCHANGED <<unit, work, status, exit, stray, launcher, chan, other>>

CoordReady ==
  /\ coord.at = "boot" /\ Thawed /\ chan.open
  /\ chan' = [chan EXCEPT !.ready = TRUE]
  /\ coord' = [coord EXCEPT !.at = "go"]
  /\ UNCHANGED <<unit, work, status, exit, stray, launcher, other>>

CoordGo ==
  /\ coord.at = "go" /\ Thawed /\ chan.go /\ ~coord.signalled
  /\ coord' = [coord EXCEPT !.at = "spawn"]
  /\ UNCHANGED <<unit, work, status, exit, stray, launcher, chan, other>>

\* One round of the first loop; a signal ends the loop.
CoordSpawn ==
  /\ coord.at = "spawn" /\ Thawed
  /\ IF coord.signalled \/ coord.next = N
     THEN /\ coord' = [coord EXCEPT !.at = "reap", !.next = 0,
                                    !.error = coord.next # N]
          /\ UNCHANGED work
     ELSE /\ coord' = [coord EXCEPT !.next = @ + 1]
          /\ work' = [work EXCEPT ![coord.next] = "run"]
  /\ UNCHANGED <<unit, status, exit, stray, launcher, chan, other>>

\* One round of the second loop: wait for the worker and read its status.
\* A worker that was not launched, a status that is missing or cannot be
\* read, and a result that contradicts it are errors.
CoordReap ==
  LET g == coord.next
  IN  /\ coord.at = "reap" /\ Thawed /\ g < N /\ ~Working(g)
      /\ \E readable \in BOOLEAN :
           coord' = [coord EXCEPT !.next = g + 1,
                       !.error = @ \/ ~readable \/ work[g] = "idle"
                                   \/ status[g] # <<exit[g], 0>>]
      /\ UNCHANGED <<unit, work, status, exit, stray, launcher, chan, other>>

CoordFinish ==
  /\ coord.at = "reap" /\ Thawed /\ coord.next = N
  /\ IF coord.signalled \/ coord.error \/ ~chan.open
     THEN CoordEnds(Infra) /\ UNCHANGED chan
     ELSE /\ chan' = [chan EXCEPT !.finished = TRUE]
          /\ coord' = [coord EXCEPT !.at = "ack"]
  /\ UNCHANGED <<unit, work, status, exit, stray, launcher, other>>

CoordAck ==
  /\ coord.at = "ack" /\ Thawed /\ chan.ack /\ ~coord.signalled
  /\ CoordEnds(FirstFailure(exit))
  /\ UNCHANGED <<unit, work, status, exit, stray, launcher, chan, other>>

(***************************************************************************)
(* Workers and the processes that detach from them                         *)
(***************************************************************************)
\* The group and its logger have ended; the status file replaces the
\* temporary one, unless that fails.
WorkerPublish(g) ==
  /\ work[g] = "run" /\ Thawed
  /\ \/ /\ \E producer \in Codes, logger \in {0, 1} :
             status' = [status EXCEPT ![g] = <<producer, logger>>]
        /\ work' = [work EXCEPT ![g] = "published"] /\ UNCHANGED exit
     \/ /\ exit' = [exit EXCEPT ![g] = Infra]
        /\ work' = [work EXCEPT ![g] = "ended"] /\ UNCHANGED status
  /\ UNCHANGED <<unit, coord, stray, launcher, chan, other>>

WorkerExits(g) ==
  /\ work[g] = "published" /\ Thawed
  /\ work' = [work EXCEPT ![g] = "ended"]
  /\ exit' = [exit EXCEPT ![g] = IF status[g][2] = 0 THEN status[g][1]
                                 ELSE Infra]
  /\ UNCHANGED <<unit, coord, status, stray, launcher, chan, other>>

\* A group forks a process that nobody waits for; such processes fork, end,
\* make child control groups and move between them, until they are killed.
StraysMove ==
  /\ Thawed /\ ~unit.doomed
  /\ stray # {} \/ \E g \in Group : work[g] = "run"
  /\ stray' \in SUBSET {"scope", "child"}
  /\ UNCHANGED <<unit, coord, work, status, exit, launcher, chan, other>>

(***************************************************************************)
(* The launcher                                                            *)
(***************************************************************************)
\* No scope was created: systemd-run failed, or timeout ended it.
LaunchFails ==
  /\ launcher = "run" /\ coord.at = "none" /\ launcher' = "ended"
  /\ UNCHANGED <<unit, coord, work, status, exit, stray, chan, other>>

LauncherEnds ==
  /\ launcher = "run" /\ coord.at = "ended" /\ launcher' = "ended"
  /\ UNCHANGED <<unit, coord, work, status, exit, stray, chan, other>>

(***************************************************************************)
(* Signals, the kernel and the service manager                             *)
(***************************************************************************)
\* timeout, or anyone, sends the coordinator a signal that it traps.
CoordSignalled ==
  /\ Coordinating
  /\ coord' = [coord EXCEPT !.signalled = TRUE]
  /\ UNCHANGED <<unit, work, status, exit, stray, launcher, chan, other>>

\* SIGKILL ends a process, frozen or not.
Dies ==
  /\ \/ /\ Coordinating /\ CoordEnds(Killed) /\ UNCHANGED <<work, exit, stray>>
     \/ \E g \in Group :
          /\ Working(g)
          /\ work' = [work EXCEPT ![g] = "ended"]
          /\ exit' = [exit EXCEPT ![g] = Killed]
          /\ UNCHANGED <<coord, stray>>
     \/ stray # {} /\ stray' = {} /\ UNCHANGED <<coord, work, exit>>
  /\ UNCHANGED <<unit, status, launcher, chan, other>>

\* cgroup.kill, or the manager, has sent SIGKILL to every process.
KillIsDelivered == unit.doomed /\ Dies

\* Mutant: the limit is that of the coordinator, not of the control group.
RuntimeMaxMain ==
  /\ unit.at = "live" /\ Coordinating /\ ~unit.doomed
  /\ unit' = [unit EXCEPT !.doomed = TRUE]
  /\ UNCHANGED <<coord, work, status, exit, stray, launcher, chan, other>>

\* RuntimeMaxSec has passed: SIGKILL to the whole group.  The SIGTERM five
\* seconds before is CoordSignalled and Dies.
RuntimeMax ==
  /\ unit.at = "live" /\ ~NoProcess /\ ~unit.doomed
  /\ unit' = [unit EXCEPT !.doomed = TRUE]
  /\ UNCHANGED <<coord, work, status, exit, stray, launcher, chan, other>>

\* The groups use more memory than the scope may have.
OutOfMemory ==
  /\ Thawed /\ ~NoPayload
  /\ unit' = [unit EXCEPT !.oom = TRUE, !.doomed = TRUE]
  /\ UNCHANGED <<coord, work, status, exit, stray, launcher, chan, other>>

\* cgroup.freeze is obeyed after a while.
Freezes ==
  /\ unit.at = "live" /\ unit.frozen # unit.freeze
  /\ unit' = [unit EXCEPT !.frozen = unit.freeze]
  /\ UNCHANGED <<coord, work, status, exit, stray, launcher, chan, other>>

\* The manager removes the empty scope.
Retires ==
  /\ unit.at = "live" /\ NoProcess /\ coord.at = "ended"
  /\ unit' = [unit EXCEPT !.at = "gone"]
  /\ UNCHANGED <<coord, work, status, exit, stray, launcher, chan, other>>

\* Another unit takes the path.
Replaced ==
  /\ unit.at = "gone" /\ other = "none" /\ other' = "alive"
  /\ UNCHANGED <<unit, coord, work, status, exit, stray, launcher, chan>>

ScopeStep ==
  \/ ScopeStarts \/ CoordGivesUp \/ CoordReady \/ CoordGo \/ CoordSpawn
  \/ CoordReap \/ CoordFinish \/ CoordAck
  \/ \E g \in Group : WorkerPublish(g) \/ WorkerExits(g)
  \/ StraysMove \/ LaunchFails \/ LauncherEnds
  \/ CoordSignalled \/ Dies \/ RuntimeMax \/ OutOfMemory
  \/ Freezes \/ Retires \/ Replaced
==============================================================================
