---------------------------- MODULE FastConcurrent ----------------------------
(***************************************************************************)
(* The waiter of scripts/fast_concurrent.sh and the tier lock it inherits  *)
(* from scripts/check_fast.sh: it starts one systemd scope, binds its      *)
(* control group, lets four groups of checks run in it, establishes that   *)
(* nothing else is left, records the result and releases the lock -- or    *)
(* gives up at any of these steps, or is interrupted by a signal, and      *)
(* cleans up.  The control group and its processes are FastScope.          *)
(*                                                                         *)
(* Every observation and every system call of the waiter may fail, and     *)
(* every deadline may pass, at any time.                                   *)
(***************************************************************************)
EXTENDS FastScope

Interrupted == 143       \* 128 + SIGTERM; the signals are not distinguished
TimedOut == {124, 137}   \* the statuses of timeout when its limit has passed

VARIABLES
  w,       \* the waiter: where it is, and its private variables
  lock     \* build/verification/.check-fast-lock: "free", "mine", or not to
           \* be had, "other"

vars == <<scope, w, lock>>

\* A waiter without any private state.
Waiter(at, code) ==
  [at |-> at, signal |-> FALSE, infra |-> FALSE, pin |-> "none",
   pinned |-> FALSE, launched |-> FALSE, drained |-> FALSE,
   result |-> 0, code |-> code]

Init ==
  /\ ScopeInit
  /\ w = Waiter("lock", 0)
  /\ lock \in {"free", "other"}

(***************************************************************************)
(* The control group seen through the descriptors that bind opened         *)
(***************************************************************************)
\* The directory opened is the one READY named.
Identified == w.pin = "own"

\* cgroup.events shows populated 0, or the pinned directory was removed.
Empty == Identified /\ (unit.at = "gone" \/ NoProcess)

\* A write to the pinned cgroup.kill; after retirement it fails.
KillWrite ==
  IF w.pin = "other" THEN other' = "killed" /\ UNCHANGED unit
  ELSE /\ unit.at = "live" /\ UNCHANGED other
       /\ unit' = [unit EXCEPT !.doomed = ~NoProcess]

\* The waiter goes from one step to the next.
Step(from, to) == w.at = from /\ w' = [w EXCEPT !.at = to]

(***************************************************************************)
(* check_fast.sh, before the waiter's traps                                *)
(***************************************************************************)
TakeLock ==
  /\ w.at = "lock"
  /\ IF lock = "free"
     THEN lock' = "mine" /\ w' = [w EXCEPT !.at = "cache"]
     ELSE w' = Waiter("failed", 1) /\ UNCHANGED lock
  /\ UNCHANGED scope

\* The stage1 cache is checked and rebuilt; a failure retains the lock.
CheckCache ==
  /\ w.at = "cache"
  /\ \/ w' = [w EXCEPT !.at = "prepare"]
     \/ \E code \in (Codes \cup {Infra}) \ {0} : w' = Waiter("failed", code)
  /\ UNCHANGED <<scope, lock>>

(***************************************************************************)
(* _nqfc_run: start the scope and bind its control group                   *)
(***************************************************************************)
RunSites ==
  {"prepare", "launch", "ready", "manager", "open", "identify", "members",
   "confirm", "baseline", "go", "finished", "freeze", "frozen", "procs",
   "children", "capture", "ack", "thaw", "drain", "replay"}

\* _nqfc_run returns 125 and the exit trap runs.
Abandoned == [w EXCEPT !.at = "x_close", !.infra = TRUE, !.code = Infra]

\* A call fails, an observation is not the expected one, a deadline passes.
Fail == w.at \in RunSites /\ w' = Abandoned /\ UNCHANGED <<scope, lock>>

Prepare ==
  /\ Step("prepare", "launch") /\ ~w.signal
  /\ UNCHANGED <<scope, lock>>

\* The coprocess is created, or is not and leaves no wait handle.
Launch ==
  /\ w.at = "launch"
  /\ \/ /\ w' = [w EXCEPT !.at = "ready", !.launched = TRUE]
        /\ launcher' = "run"
        /\ chan' = [chan EXCEPT !.open = TRUE]
     \/ w' = [Abandoned EXCEPT !.launched = TRUE] /\ UNCHANGED <<launcher, chan>>
  /\ UNCHANGED <<unit, coord, work, status, exit, stray, other, lock>>

ReadReady ==
  /\ Step("ready", "manager") /\ ~w.signal /\ chan.ready
  /\ UNCHANGED <<scope, lock>>

\* The manager reports the unit with the invocation that READY named.
CheckManager(from, to) ==
  /\ Step(from, to) /\ unit.at = "live"
  /\ UNCHANGED <<scope, lock>>

\* Mutant: an open directory may already be killed.
OpenDirectoryPins ==
  /\ w.at = "open"
  /\ \/ /\ unit.at = "live"
        /\ w' = [w EXCEPT !.at = "identify", !.pin = "own", !.pinned = TRUE]
     \/ /\ other = "alive"
        /\ w' = [w EXCEPT !.at = "identify", !.pin = "other", !.pinned = TRUE]
  /\ UNCHANGED <<scope, lock>>

\* The directory is opened by its path, whatever is there now.
OpenDirectory ==
  /\ w.at = "open"
  /\ \/ unit.at = "live" /\ w' = [w EXCEPT !.at = "identify", !.pin = "own"]
     \/ other = "alive" /\ w' = [w EXCEPT !.at = "identify", !.pin = "other"]
  /\ UNCHANGED <<scope, lock>>

\* Device and inode are those of READY; the descriptors below it are opened.
Identify ==
  /\ Step("identify", "members") /\ Identified /\ unit.at = "live"
  /\ UNCHANGED <<scope, lock>>

\* The coordinator is the only member, and there is no child group.
CheckMembers ==
  /\ Step("members", "confirm") /\ Coordinating /\ NoPayload
  /\ UNCHANGED <<scope, lock>>

Confirm ==
  /\ w.at = "confirm" /\ unit.at = "live"
  /\ w' = [w EXCEPT !.at = "baseline", !.pinned = TRUE]
  /\ UNCHANGED <<scope, lock>>

Baseline ==
  /\ Step("baseline", "go") /\ unit.at = "live" /\ ~unit.oom
  /\ UNCHANGED <<scope, lock>>

Go ==
  /\ Step("go", "finished") /\ ~w.signal /\ Coordinating
  /\ chan' = [chan EXCEPT !.go = TRUE]
  /\ UNCHANGED <<unit, coord, work, status, exit, stray, launcher, other, lock>>

(***************************************************************************)
(* _nqfc_run: collect the result                                           *)
(***************************************************************************)
\* FINISHED names the exit codes, and every status file agrees with them.
ReadFinished ==
  /\ w.at = "finished" /\ ~w.signal /\ chan.finished
  /\ \A g \in Group : status[g] = <<exit[g], 0>>
  /\ w' = [w EXCEPT !.at = "freeze", !.result = FirstFailure(exit)]
  /\ UNCHANGED <<scope, lock>>

Freeze(from, to, on) ==
  /\ Step(from, to) /\ ~w.signal /\ unit.at = "live"
  /\ unit' = [unit EXCEPT !.freeze = on]
  /\ UNCHANGED <<coord, work, status, exit, stray, launcher, chan, other, lock>>

\* Mutant: the request to freeze is taken for the freeze.
AwaitFrozenNot ==
  /\ Step("frozen", "procs") /\ ~w.signal /\ ~NoProcess
  /\ UNCHANGED <<scope, lock>>

AwaitFrozen ==
  /\ Step("frozen", "procs") /\ ~w.signal /\ unit.frozen /\ ~NoProcess
  /\ UNCHANGED <<scope, lock>>

\* _nqfc_members_only again, whose two reads are not one observation.
ReadProcs ==
  /\ Step("procs", "children") /\ ~w.signal
  /\ Coordinating /\ "scope" \notin stray /\ \A g \in Group : ~Working(g)
  /\ UNCHANGED <<scope, lock>>

ReadChildren ==
  /\ Step("children", "capture") /\ ~w.signal /\ "child" \notin stray
  /\ UNCHANGED <<scope, lock>>

CaptureResources ==
  /\ Step("capture", "ack") /\ ~w.signal /\ unit.at = "live" /\ ~unit.oom
  /\ UNCHANGED <<scope, lock>>

SendAck ==
  /\ Step("ack", "thaw") /\ ~w.signal /\ Coordinating
  /\ chan' = [chan EXCEPT !.ack = TRUE]
  /\ UNCHANGED <<unit, coord, work, status, exit, stray, launcher, other, lock>>

\* The wait ends with the launcher, and only the result is accepted from it.
WaitLauncher ==
  /\ w.at = "join" /\ launcher = "ended" /\ launcher' = "reaped"
  /\ \/ w.result \in {coord.code} \cup TimedOut /\ w' = [w EXCEPT !.at = "drain"]
     \/ w' = Abandoned
  /\ UNCHANGED <<unit, coord, work, status, exit, stray, chan, other, lock>>

Drain ==
  /\ w.at = "drain" /\ Empty
  /\ w' = [w EXCEPT !.at = "replay", !.drained = TRUE]
  /\ UNCHANGED <<scope, lock>>

\* The logs are copied out in order.
Replay ==
  /\ w.at = "replay"
  /\ w' = [w EXCEPT !.at = "x_close", !.code = w.result]
  /\ UNCHANGED <<scope, lock>>

(***************************************************************************)
(* _nqfc_on_exit                                                           *)
(***************************************************************************)
HangUp == chan' = [chan EXCEPT !.open = FALSE]

\* Unless the group is known to be drained, its control pipes are closed.
CloseControls ==
  /\ w.at = "x_close"
  /\ IF w.drained THEN UNCHANGED chan ELSE HangUp
  /\ w' = [w EXCEPT
             !.at = IF w.pinned /\ ~w.drained THEN "x_kill" ELSE "x_wait",
             !.drained = @ \/ (~w.pinned /\ ~w.launched)]
  /\ UNCHANGED <<unit, coord, work, status, exit, stray, launcher, other, lock>>

\* A kill that fails is an infrastructure failure unless the directory is
\* known to be removed.
KillOwned ==
  /\ w.at = "x_kill"
  /\ \/ KillWrite /\ w' = [w EXCEPT !.at = "x_drain"]
     \/ /\ \E retired \in {FALSE, Identified /\ unit.at = "gone"} :
             w' = [w EXCEPT !.at = "x_drain", !.infra = @ \/ ~retired]
        /\ UNCHANGED <<unit, other>>
  /\ UNCHANGED <<coord, work, status, exit, stray, launcher, chan, lock>>

\* Mutant: a group that cannot be read any more counts as drained.
DrainKilledTrusts ==
  /\ w.at = "x_drain"
  /\ w' = [w EXCEPT !.at = "x_wait", !.drained = TRUE]
  /\ UNCHANGED <<scope, lock>>

DrainKilled ==
  /\ w.at = "x_drain"
  /\ \/ Empty /\ w' = [w EXCEPT !.at = "x_wait", !.drained = TRUE]
     \/ w' = [w EXCEPT !.at = "x_wait", !.infra = TRUE]
  /\ UNCHANGED <<scope, lock>>

\* The launcher is waited for once, however long that takes.
Joined == launcher \in {"none", "reaped"}

JoinLauncher ==
  /\ w.at = "x_wait" /\ launcher # "run"
  /\ launcher' = IF Joined THEN launcher ELSE "reaped"
  /\ HangUp
  /\ w' = [w EXCEPT !.at = "x_release"]
  /\ UNCHANGED <<unit, coord, work, status, exit, stray, other, lock>>

\* The lock is given back only after a verified drain and a wait.
Release ==
  /\ w.at = "x_release"
  /\ IF w.drained /\ Joined
     THEN \E removed, clean \in BOOLEAN :
            /\ lock' = IF removed THEN "free" ELSE lock
            /\ w' = [w EXCEPT !.at = "x_code", !.pinned = FALSE, !.pin = "none",
                              !.infra = @ \/ ~removed \/ ~clean]
     ELSE w' = [w EXCEPT !.at = "x_code", !.infra = TRUE] /\ UNCHANGED lock
  /\ UNCHANGED scope

\* Cancellation wins, then an infrastructure failure, then the result; a
\* result file that cannot be written is such a failure.
Exit ==
  /\ w.at = "x_code"
  /\ \E written \in BOOLEAN :
       w' = Waiter("ended", IF w.signal THEN Interrupted
                            ELSE IF w.infra \/ ~written THEN Infra ELSE w.code)
  /\ UNCHANGED <<scope, lock>>

(***************************************************************************)
(* Signals and crashes                                                     *)
(***************************************************************************)
ExitSites == {"x_close", "x_kill", "x_drain", "x_wait", "x_release", "x_code"}
Trapping == w.at \in RunSites \cup ExitSites \cup {"join"}

\* _nqfc_on_signal, between any two steps: remember the signal and kill what
\* is pinned and not known to be drained.
OnSignal ==
  /\ Trapping
  /\ IF w.pinned /\ ~w.drained
     THEN \/ KillWrite /\ w' = [w EXCEPT !.signal = TRUE]
          \/ /\ w' = [w EXCEPT !.signal = TRUE, !.infra = TRUE]
             /\ UNCHANGED <<unit, other>>
     ELSE w' = [w EXCEPT !.signal = TRUE] /\ UNCHANGED <<unit, other>>
  /\ UNCHANGED <<coord, work, status, exit, stray, launcher, chan, lock>>

\* The waiter is killed; its descriptors close, its lock stays.
Crash ==
  /\ Trapping \/ w.at = "cache"
  /\ w' = Waiter("crashed", 0) /\ HangUp
  /\ UNCHANGED <<unit, coord, work, status, exit, stray, launcher, other, lock>>

WaiterStep ==
  \/ TakeLock \/ CheckCache \/ Prepare \/ Launch \/ ReadReady
  \/ CheckManager("manager", "open") \/ OpenDirectory \/ Identify
  \/ CheckMembers \/ Confirm \/ Baseline \/ Go \/ ReadFinished
  \/ Freeze("freeze", "frozen", TRUE) \/ AwaitFrozen
  \/ ReadProcs \/ ReadChildren \/ CaptureResources \/ SendAck
  \/ Freeze("thaw", "join", FALSE)
  \/ WaitLauncher \/ Drain \/ Replay \/ Fail
  \/ CloseControls \/ KillOwned \/ DrainKilled \/ JoinLauncher
  \/ Release \/ Exit

Next == WaiterStep \/ OnSignal \/ Crash \/ (ScopeStep /\ UNCHANGED <<w, lock>>)

Spec == Init /\ [][Next]_vars

\* The shell runs; the kernel delivers what it has accepted; the manager
\* enforces the lifetime of the scope; timeout ends what never became one.
FairSpec ==
  /\ Spec
  /\ WF_w(WaiterStep)
  /\ WF_scope(KillIsDelivered /\ UNCHANGED <<w, lock>>)
  /\ WF_scope(RuntimeMax /\ UNCHANGED <<w, lock>>)
  /\ WF_scope((LaunchFails \/ LauncherEnds) /\ UNCHANGED <<w, lock>>)

(***************************************************************************)
(* Properties                                                              *)
(***************************************************************************)
CapturedSites == {"ack", "thaw", "join", "drain", "replay"}
Over == {"ended", "failed", "crashed"}

Sites == RunSites \cup ExitSites
           \cup {"lock", "cache", "join"} \cup Over

Waiters ==
  [at : Sites, signal : BOOLEAN, infra : BOOLEAN,
   pin : {"none", "own", "other"}, pinned : BOOLEAN, launched : BOOLEAN,
   drained : BOOLEAN, result : 0 .. 255, code : 0 .. 255]

\* The tier is in one of the states that the scripts and the kernel know.
TypeOK == ScopeTypeOK /\ w \in Waiters /\ lock \in {"free", "mine", "other"}

\* The lock is never given back while a process of the tier may still run:
\* not the coordinator, not a worker, not a process that has detached from
\* the groups, and not the launcher, which could still create a scope
\* (_nqfc_on_exit, _nqfc_drain and _nqfc_retired).
ReleasedMeansEmpty ==
  lock = "free" /\ w.at # "lock" => NoProcess /\ Joined

\* Nothing but the scope that this waiter started is ever killed, although
\* its path may come to name another unit; and no group runs before the
\* running waiter holds the means to kill it (_nqfc_bind, _nqfc_kill_owned).
KillPower ==
  /\ other # "killed"
  /\ ~NoPayload /\ w.at \notin Over => w.pinned /\ Identified

\* The resources are read, and the coordinator released, only when no other
\* process is left; and a code of the waiter that is neither an infrastructure
\* failure nor an interruption is that of the first failing group of a run in
\* which every group and every logger ended by itself, nothing ran out of
\* memory, and nothing was left behind, the lock included
\* (_nqfc_freeze_transaction, _nqfc_parse_finished).
ResultIsGenuine ==
  /\ w.at \in CapturedSites => NoPayload
  /\ w.at = "ended" /\ w.code \notin {Infra, Interrupted} =>
       /\ lock = "free" /\ ~unit.oom /\ NoProcess
       /\ \A g \in Group : work[g] = "ended" /\ status[g] = <<exit[g], 0>>
       /\ w.code = FirstFailure(exit)

\* The waiter ends, or has been killed, and no process of the tier stays
\* behind, even if a group never ends and the waiter is gone
\* (RuntimeMaxSec, the limits of timeout and every deadline of the waiter).
TierEnds ==
  <>[](w.at \in Over /\ NoProcess /\ launcher # "run")
===============================================================================
