------------------------------ MODULE NqProcess ------------------------------
(***************************************************************************)
(* The process handle of stdlib/runtime.c: nq_process_start, _wait,        *)
(* _terminate and _drop, with the pump, the two signalling routines and    *)
(* the cleanup they share.  Each action is one system call of the runtime  *)
(* with the straight-line code up to the next one, so that every step of   *)
(* the child, of its descendant and of the clock can fall between two      *)
(* system calls.                                                           *)
(*                                                                         *)
(* st    is NQProcessState, the heap record behind the handle              *)
(* fr    holds the arguments and locals of the call in progress            *)
(* pc    is where that call is                                             *)
(* EINTR is retried by the code and is not visible here, except for poll   *)
(* and read, where the code goes round its loop.  Any other failure of a   *)
(* system call or an allocation is a Fault, at most MaxFaults of them.     *)
(***************************************************************************)
EXTENDS OsProcess, FiniteSets

CONSTANTS
  Limits,     \* capture limits a caller passes, in bytes
  Chunk,      \* bytes moved by one read or write (8192 in the code)
  InputLen,   \* length of a non-empty standard input
  MaxFaults   \* bound on injected failures

ASSUME LimitsAssumption == Limits \subseteq Nat
ASSUME ChunkAssumption == Chunk \in Nat \ {0}
ASSUME InputLenAssumption == InputLen \in Nat
ASSUME MaxFaultsAssumption == MaxFaults \in Nat

VARIABLES
  handle,  \* the caller's NQ_process value
  st,      \* *handle._state
  fr,      \* locals of the running call
  pc,      \* next system call of the running call
  setup,   \* pipe ends local to nq_process_start
  late,    \* the deadline passed to nq_process_wait has been reached
  faults   \* failures so far

vars == <<child, ingroup, desc, held, pipe, wrote, report, killed,
          handle, st, fr, pc, setup, late, faults>>

Handles == {"none",   \* no process started
            "live",   \* _state points to st
            "inert",  \* _state is NULL
            "moved"}  \* consumed by nq_process_wait or nq_process_drop

Blank == [pid |-> FALSE, group |-> FALSE, ready |-> FALSE,
          signalled |-> FALSE, terminal_signalled |-> FALSE,
          fds |-> {}, unsent |-> 0, limit |-> 0,
          buffer |-> [c \in Channels |-> <<>>],
          timed_out |-> FALSE, cancelled |-> FALSE]

States == [pid : BOOLEAN,             \* pid > 0: the anchor is held
           group : BOOLEAN, ready : BOOLEAN,
           signalled : BOOLEAN, terminal_signalled : BOOLEAN,
           fds : SUBSET Ends,         \* input_fd, output_fd, error_fd
           unsent : Nat,              \* input.len - sent
           limit : Nat,
           buffer : [Channels -> Seq(Writers)],
           timed_out : BOOLEAN, cancelled : BOOLEAN]

\* early and since are history: whether the child had exited when the call
\* last looked before it signalled, and how many faults had happened when
\* its cleanup began.
Frame(op, deadline) ==
  [op |-> op, deadline |-> deadline, exited |-> FALSE, expired |-> FALSE,
   draining |-> FALSE, remaining |-> [c \in Channels |-> 0], revents |-> {},
   caller |-> "pump", attempt |-> 0, early |-> FALSE, since |-> 0]

Frames == [op : {"start", "wait", "terminate", "drop"}, deadline : BOOLEAN,
           exited : BOOLEAN, expired : BOOLEAN, draining : BOOLEAN,
           remaining : [Channels -> Nat], revents : SUBSET Ends,
           caller : {"pump", "attempt", "final"}, attempt : 0..4,
           early : BOOLEAN, since : Nat]

SetupSites == {"fork", "setpgid", "handshake", "release"}
PumpSites  == {"probe", "clock", "mark", "check", "snap_out", "snap_err",
               "finish_check", "poll", "read_out", "read_err", "write_in",
               "finish", "pump_ok"}
KillSites  == {"so_direct", "so_group", "so_late", "st_kill"}
SignalSites == KillSites \cup {"so_probe", "st_probe"}
CleanupSites == {"cleanup", "reap", "retry", "final_probe", "last_probe",
                 "close"}
Sites == {"idle", "aborted"} \cup SetupSites \cup PumpSites
           \cup SignalSites \cup CleanupSites

\* Types of the runtime's records and of the operating system's state.
TypeOK ==
  /\ OsTypeOK
  /\ handle \in Handles
  /\ st \in States
  /\ fr \in Frames
  /\ pc \in Sites
  /\ setup \subseteq Ends \cup {"exec"}
  /\ late \in BOOLEAN
  /\ faults \in Nat

Init ==
  /\ OsInit
  /\ handle = "none"
  /\ st = Blank
  /\ fr = Frame("start", FALSE)
  /\ pc = "idle"
  /\ setup = {}
  /\ late = FALSE
  /\ faults = 0

(***************************************************************************)
(* Outcomes of a system call.                                              *)
(***************************************************************************)
Works == faults' = faults
Fault == faults < MaxFaults /\ faults' = faults + 1
Goto(label) == pc' = label

Cancel == fr.op = "terminate"

\* nq_process_probe_pid: waitid with WNOWAIT.  The anchor is given up only
\* on ECHILD; a blocking probe returns once the child has exited.
Probed(block, err, pid, exited) ==
  /\ \/ /\ child \in IF block THEN {"zombie"} ELSE Unreaped
        /\ Works
        /\ ~err /\ pid = st.pid /\ exited = (child = "zombie")
     \/ /\ child \in Gone
        /\ Works
        /\ err /\ ~pid /\ ~exited
     \/ /\ Fault
        /\ err /\ pid = st.pid /\ ~exited
  /\ UNCHANGED osVars

\* nq_process_waitpid and nq_process_reap_pid.
Reaped(err, pid) ==
  \/ Reap /\ Works /\ ~err /\ ~pid
  \/ child \in Gone /\ Works /\ err /\ ~pid /\ UNCHANGED osVars
  \/ Fault /\ err /\ pid = st.pid /\ UNCHANGED osVars

\* nq_process_kill: ESRCH counts as success.
Killed(target, err) ==
  \/ ~err /\ Works /\ IF target = "group" THEN KillGroup ELSE KillPid
  \/ err /\ Fault /\ UNCHANGED osVars

\* Where an error goes: the pump fails its caller, which drops the handle;
\* a cleanup attempt is retried; the final round takes its last probe.
Raise ==
  Goto(CASE fr.caller = "pump" -> "cleanup"
         [] fr.caller = "attempt" -> "retry"
         [] fr.caller = "final" -> "last_probe")

(***************************************************************************)
(* nq_process_start                                                        *)
(***************************************************************************)

\* Validation, allocation and the copies of the arguments: on a failure
\* nothing has been acquired yet.
StartRejected ==
  /\ pc = "idle" /\ handle = "none"
  /\ Fault
  /\ UNCHANGED <<osVars, handle, st, fr, pc, setup, late>>

\* The pipes are made one after the other; a failure leaves some of them.
Start ==
  /\ pc = "idle" /\ handle = "none"
  /\ \E input \in {"none", "empty", "data"}, capture \in BOOLEAN :
       LET ends == (IF input = "none" THEN {} ELSE {"in"})
                     \cup (IF capture THEN Channels ELSE {}) \cup {"exec"}
       IN  /\ \E limit \in IF capture THEN Limits ELSE {0} :
                st' = [Blank EXCEPT
                         !.limit = limit,
                         !.unsent = IF input = "data" THEN InputLen ELSE 0]
           /\ \/ Works /\ setup' = ends /\ Goto("fork")
              \/ Fault /\ setup' \in SUBSET ends /\ Goto("release")
  /\ fr' = Frame("start", FALSE)
  /\ UNCHANGED <<osVars, handle, late>>

StartFork ==
  /\ pc = "fork"
  /\ \/ /\ Works
        /\ Fork(setup \ {"exec"})
        /\ st' = [st EXCEPT !.pid = TRUE]
        /\ Goto("setpgid")
     \/ Fault /\ Goto("release") /\ UNCHANGED <<osVars, st>>
  /\ UNCHANGED <<handle, fr, setup, late>>

StartSetpgid ==
  /\ pc = "setpgid"
  /\ \/ /\ Works
        /\ ParentSetpgid
        /\ st' = [st EXCEPT !.group = TRUE]
        /\ Goto("handshake")
     \/ Fault /\ Goto("release") /\ UNCHANGED <<osVars, st>>
  /\ UNCHANGED <<handle, fr, setup, late>>

\* nq_process_exec_error blocks on the exec-error pipe.  End of file with no
\* report is success, also when the child died before execve.
ExecEof == report = "exec" \/ (report = "pending" /\ child \in {"zombie", "lost"})

StartHandshake ==
  /\ pc = "handshake"
  /\ \/ /\ ExecEof /\ Works
        /\ st' = [st EXCEPT !.fds = setup \ {"exec"}]
        /\ setup' = {}
        /\ handle' = "live"
        /\ Goto("idle")
     \/ /\ report = "error" /\ Works
        /\ Goto("release") /\ UNCHANGED <<handle, st, setup>>
     \/ Fault /\ Goto("release") /\ UNCHANGED <<handle, st, setup>>
  /\ UNCHANGED <<osVars, fr, late>>

\* Mutant: the error path frees the record without dropping the child.
StartReleaseLeaks ==
  /\ pc = "release"
  /\ setup' = {}
  /\ Goto("close")
  /\ UNCHANGED <<osVars, handle, st, fr, late, faults>>

\* The error path: close every pipe end, then nq_process_drop(&child).
StartRelease ==
  /\ pc = "release"
  /\ setup' = {}
  /\ Goto("cleanup")
  /\ UNCHANGED <<osVars, handle, st, fr, late, faults>>

(***************************************************************************)
(* The calls on a started process.                                         *)
(***************************************************************************)

\* A handle whose outcome is ready does not enter the pump again.
Call(op, deadline) ==
  /\ fr' = IF st.ready THEN [fr EXCEPT !.op = op]
                       ELSE Frame(op, deadline)
  /\ Goto(IF st.ready THEN "pump_ok" ELSE "probe")

Wait ==
  /\ pc = "idle" /\ handle = "live"
  /\ \E deadline \in BOOLEAN : Call("wait", deadline)
  /\ UNCHANGED <<osVars, handle, st, setup, late, faults>>

Terminate ==
  /\ pc = "idle" /\ handle = "live"
  /\ Call("terminate", FALSE)
  /\ UNCHANGED <<osVars, handle, st, setup, late, faults>>

\* nq_process_drop; nq_process_wait with an invalid deadline option drops
\* the handle in the same way.
Drop ==
  /\ pc = "idle" /\ handle = "live"
  /\ \E op \in {"drop", "wait"} : fr' = Frame(op, FALSE)
  /\ Goto("cleanup")
  /\ UNCHANGED <<osVars, handle, st, setup, late, faults>>

\* nq_process_wait and nq_process_drop consume an inert handle without a
\* system call; nq_process_terminate reports invalid_input and leaves it.
ConsumeInert ==
  /\ pc = "idle" /\ handle = "inert"
  /\ handle' = "moved"
  /\ UNCHANGED <<osVars, st, fr, pc, setup, late, faults>>

(***************************************************************************)
(* nq_process_signal_owned, called by the pump and by a cleanup attempt.   *)
(***************************************************************************)
OwnedDone == Goto(IF fr.caller = "pump" THEN "mark" ELSE "st_probe")

\* The child has exited, and not from a signal of the runtime.
ExitedUnsignalled == fr.early \/ (child = "zombie" /\ ~st.signalled)

SignalOwnedProbe ==
  /\ pc = "so_probe"
  /\ \E err, pid, exited \in BOOLEAN :
       /\ Probed(FALSE, err, pid, exited)
       /\ st' = [st EXCEPT !.pid = pid]
       /\ \/ err /\ Raise /\ UNCHANGED fr
          \/ /\ ~err
             /\ fr' = [fr EXCEPT !.exited = exited,
                                 !.early = ExitedUnsignalled]
             /\ Goto(IF ~st.group /\ ~exited THEN "so_direct" ELSE "so_group")
  /\ UNCHANGED <<handle, setup, late>>

SignalOwnedDirect ==
  /\ pc = "so_direct"
  /\ \E err \in BOOLEAN :
       /\ Killed("pid", err)
       /\ IF err THEN Raise ELSE Goto("so_group")
  /\ UNCHANGED <<handle, st, fr, setup, late>>

\* Mutant: only the group is signalled, never the child itself.
SignalOwnedGroupOnly ==
  /\ pc = "so_group"
  /\ \E err \in BOOLEAN :
       /\ Killed("group", err)
       /\ \/ err /\ Raise /\ UNCHANGED st
          \/ /\ ~err
             /\ st' = [st EXCEPT !.terminal_signalled = @ \/ fr.exited,
                                 !.signalled = TRUE]
             /\ OwnedDone
  /\ UNCHANGED <<handle, fr, setup, late>>

SignalOwnedGroup ==
  /\ pc = "so_group"
  /\ \E err \in BOOLEAN :
       /\ Killed("group", err)
       /\ \/ err /\ Raise /\ UNCHANGED st
          \/ /\ ~err /\ st.group /\ ~fr.exited
             /\ Goto("so_late") /\ UNCHANGED st
          \/ /\ ~err /\ ~(st.group /\ ~fr.exited)
             /\ st' = [st EXCEPT !.terminal_signalled = @ \/ fr.exited,
                                 !.signalled = TRUE]
             /\ OwnedDone
  /\ UNCHANGED <<handle, fr, setup, late>>

SignalOwnedLate ==
  /\ pc = "so_late"
  /\ \E err \in BOOLEAN :
       /\ Killed("pid", err)
       /\ \/ err /\ Raise /\ UNCHANGED st
          \/ ~err /\ OwnedDone /\ st' = [st EXCEPT !.signalled = TRUE]
  /\ UNCHANGED <<handle, fr, setup, late>>

(***************************************************************************)
(* nq_process_signal_terminal: wait for the child to exit without reaping  *)
(* it, then signal its group once more.                                    *)
(***************************************************************************)
TerminalDone == Goto(IF fr.caller = "pump" THEN "snap_out" ELSE "reap")

\* Mutant: the blocking probe forgets WNOWAIT and reaps the child.
SignalTerminalProbeReaps ==
  /\ pc = "st_probe"
  /\ \/ /\ st.terminal_signalled
        /\ TerminalDone
        /\ UNCHANGED <<osVars, st, faults>>
     \/ /\ ~st.terminal_signalled
        /\ \E err, pid \in BOOLEAN :
             /\ Reaped(err, pid)
             /\ IF err THEN Raise ELSE Goto("st_kill")
        /\ UNCHANGED st
  /\ UNCHANGED <<handle, fr, setup, late>>

\* Mutant: no second signal to the group once the child has exited.
SignalTerminalProbeSkips ==
  /\ pc = "st_probe"
  /\ \E err, pid, exited \in BOOLEAN :
       /\ Probed(TRUE, err, pid, exited)
       /\ st' = [st EXCEPT !.pid = pid]
       /\ IF err THEN Raise ELSE TerminalDone
  /\ UNCHANGED <<handle, fr, setup, late>>

SignalTerminalProbe ==
  /\ pc = "st_probe"
  /\ \/ /\ st.terminal_signalled
        /\ TerminalDone
        /\ UNCHANGED <<osVars, st, faults>>
     \/ /\ ~st.terminal_signalled
        /\ \E err, pid, exited \in BOOLEAN :
             /\ Probed(TRUE, err, pid, exited)
             /\ st' = [st EXCEPT !.pid = pid]
             /\ IF err THEN Raise ELSE Goto("st_kill")
  /\ UNCHANGED <<handle, fr, setup, late>>

SignalTerminalKill ==
  /\ pc = "st_kill"
  /\ \E err \in BOOLEAN :
       /\ Killed("group", err)
       /\ \/ err /\ Raise /\ UNCHANGED st
          \/ /\ ~err /\ TerminalDone
             /\ st' = [st EXCEPT !.terminal_signalled = TRUE]
  /\ UNCHANGED <<handle, fr, setup, late>>

(***************************************************************************)
(* nq_process_pump                                                         *)
(***************************************************************************)
PumpFails == Goto("cleanup")

PumpProbe ==
  /\ pc = "probe"
  /\ \E err, pid, exited \in BOOLEAN :
       /\ Probed(FALSE, err, pid, exited)
       /\ st' = [st EXCEPT !.pid = pid]
       /\ fr' = [fr EXCEPT !.exited = exited, !.expired = FALSE]
       /\ IF err THEN PumpFails ELSE Goto("clock")
  /\ UNCHANGED <<handle, setup, late>>

\* The clock is read only while the deadline can still matter.
ReadsClock == ~fr.exited /\ ~st.signalled /\ ~Cancel /\ fr.deadline

PumpClock ==
  /\ pc = "clock"
  /\ \/ /\ Works
        /\ LET expired == ReadsClock /\ late
           IN  /\ fr' = [fr EXCEPT !.expired = expired,
                                   !.early = ExitedUnsignalled]
               /\ Goto(IF ~st.signalled /\ (fr.exited \/ expired \/ Cancel)
                       THEN "so_probe" ELSE "check")
     \/ ReadsClock /\ Fault /\ PumpFails /\ UNCHANGED fr
  /\ UNCHANGED <<osVars, handle, st, setup, late>>

\* Mutant: the deadline's expiry is recorded whatever the fresh probe saw.
PumpMarkExpired ==
  /\ pc = "mark"
  /\ st' = [st EXCEPT !.timed_out = fr.expired,
                      !.cancelled = ~fr.exited /\ Cancel,
                      !.fds = @ \ {"in"}]
  /\ Goto("check")
  /\ UNCHANGED <<osVars, handle, fr, setup, late, faults>>

\* fr.exited is now the fresh observation of nq_process_signal_owned.
PumpMark ==
  /\ pc = "mark"
  /\ st' = [st EXCEPT !.timed_out = ~fr.exited /\ fr.expired,
                      !.cancelled = ~fr.exited /\ Cancel,
                      !.fds = @ \ {"in"}]
  /\ Goto("check")
  /\ UNCHANGED <<osVars, handle, fr, setup, late, faults>>

PumpCheck ==
  /\ pc = "check"
  /\ Goto(IF fr.exited /\ ~fr.draining THEN "st_probe" ELSE "finish_check")
  /\ UNCHANGED <<osVars, handle, st, fr, setup, late, faults>>

Used == Len(st.buffer["out"]) + Len(st.buffer["err"])

\* nq_process_queued: FIONREAD, or 0 for a closed descriptor.
Queued(c) == IF c \in st.fds THEN Len(pipe[c]) ELSE 0

PumpSnapshotOut ==
  /\ pc = "snap_out"
  /\ \/ /\ Works
        /\ fr' = [fr EXCEPT !.remaining["out"] = Queued("out")]
        /\ Goto("snap_err")
     \/ Fault /\ PumpFails /\ UNCHANGED fr
  /\ UNCHANGED <<osVars, handle, st, setup, late>>

PumpSnapshotErr ==
  /\ pc = "snap_err"
  /\ \/ /\ Works
        /\ LET left == [fr.remaining EXCEPT !["err"] = Queued("err")]
           IN  IF left["out"] + left["err"] > st.limit - Used
               THEN PumpFails /\ UNCHANGED <<st, fr>>
               ELSE /\ fr' = [fr EXCEPT !.remaining = left, !.draining = TRUE]
                    /\ st' = [st EXCEPT !.fds =
                                @ \ {c \in Channels : left[c] = 0}]
                    /\ Goto("finish_check")
     \/ Fault /\ PumpFails /\ UNCHANGED <<st, fr>>
  /\ UNCHANGED <<osVars, handle, setup, late>>

\* Mutant: the outcome is taken as soon as the child has exited.
PumpFinishCheckEarly ==
  /\ pc = "finish_check"
  /\ \/ fr.exited /\ Goto("finish") /\ UNCHANGED st
     \/ /\ ~fr.exited
        /\ st' = [st EXCEPT !.fds = IF st.unsent = 0 THEN @ \ {"in"} ELSE @]
        /\ Goto("poll")
  /\ UNCHANGED <<osVars, handle, fr, setup, late, faults>>

PumpFinishCheck ==
  /\ pc = "finish_check"
  /\ \/ /\ fr.exited /\ st.fds \cap Channels = {}
        /\ Goto("finish") /\ UNCHANGED st
     \/ /\ ~(fr.exited /\ st.fds \cap Channels = {})
        /\ st' = [st EXCEPT !.fds = IF st.unsent = 0 THEN @ \ {"in"} ELSE @]
        /\ Goto("poll")
  /\ UNCHANGED <<osVars, handle, fr, setup, late, faults>>

Eof(c) == NoHolder(c)
Readable(c) == pipe[c] # <<>> \/ Eof(c)

\* Standard input is reported when its pipe has room or has no reader left.
PumpPoll ==
  /\ pc = "poll"
  /\ \/ /\ Works
        /\ \E in \in SUBSET (st.fds \cap {"in"}) :
             /\ "in" \in st.fds /\ NoHolder("in") => in = {"in"}
             /\ fr' = [fr EXCEPT !.revents =
                         in \cup {c \in Channels \cap st.fds : Readable(c)}]
        /\ Goto("read_out")
     \/ /\ Fault /\ UNCHANGED fr
        /\ Goto("probe") \/ PumpFails
  /\ UNCHANGED <<osVars, handle, st, setup, late>>

AfterRead(c) == IF c = "out" THEN "read_err" ELSE "write_in"
Least(a, b) == IF a < b THEN a ELSE b

\* nq_process_read_output, first when read or the buffer's growth fails ...
ReadFails(c) ==
  /\ Fault
  /\ Goto(AfterRead(c)) \/ PumpFails
  /\ UNCHANGED <<osVars, st, fr>>

\* ... when there is nothing to read: end of file, or EAGAIN ...
ReadNothing(c) ==
  /\ pipe[c] = <<>>
  /\ Works
  /\ IF fr.draining
     THEN PumpFails /\ UNCHANGED st
     ELSE /\ st' = [st EXCEPT !.fds = IF Eof(c) THEN @ \ {c} ELSE @]
          /\ Goto(AfterRead(c))
  /\ UNCHANGED <<osVars, fr>>

\* ... and when bytes arrive.
ReadBytes(c) ==
  LET amount == IF fr.draining THEN Least(Chunk, fr.remaining[c]) ELSE Chunk
      count  == Least(amount, Len(pipe[c]))
      left   == fr.remaining[c] - count
  IN  /\ count > 0
      /\ Works
      /\ Consume(c, count)
      /\ IF count > st.limit - Used
         THEN PumpFails /\ UNCHANGED <<st, fr>>
         ELSE /\ st' = [st EXCEPT
                   !.buffer[c] = @ \o SubSeq(pipe[c], 1, count),
                   !.fds = IF fr.draining /\ left = 0 THEN @ \ {c} ELSE @]
              /\ fr' = IF fr.draining THEN [fr EXCEPT !.remaining[c] = left]
                                      ELSE fr
              /\ Goto(AfterRead(c))

ReadOutput(c) == ReadFails(c) \/ ReadNothing(c) \/ ReadBytes(c)

PumpRead(c) ==
  /\ pc = IF c = "out" THEN "read_out" ELSE "read_err"
  /\ \/ c \in fr.revents /\ ReadOutput(c)
     \/ /\ c \notin fr.revents
        /\ Goto(AfterRead(c))
        /\ UNCHANGED <<osVars, st, fr, faults>>
  /\ UNCHANGED <<handle, setup, late>>

\* nq_process_write_input: EPIPE closes the pipe, EAGAIN and EINTR do not
\* count, any other failure ends the pump.
WriteInput ==
  \/ /\ NoHolder("in") /\ Works
     /\ st' = [st EXCEPT !.fds = @ \ {"in"}]
     /\ Goto("probe")
  \/ /\ ~NoHolder("in") /\ Works
     /\ \E count \in 0..Least(Chunk, st.unsent) :
          st' = [st EXCEPT !.unsent = @ - count]
     /\ Goto("probe")
  \/ Fault /\ PumpFails /\ UNCHANGED st

PumpWrite ==
  /\ pc = "write_in"
  /\ \/ "in" \in fr.revents /\ WriteInput
     \/ "in" \notin fr.revents /\ Goto("probe") /\ UNCHANGED <<st, faults>>
  /\ UNCHANGED <<osVars, handle, fr, setup, late>>

\* nq_process_finish: reap, then hand the buffers over to the outcome, which
\* may fail to allocate after the child is gone.
PumpFinish ==
  /\ pc = "finish"
  /\ \/ \E err, pid \in BOOLEAN :
          /\ Reaped(err, pid)
          /\ \/ err /\ PumpFails /\ st' = [st EXCEPT !.pid = pid]
             \/ /\ ~err /\ Goto("pump_ok")
                /\ st' = [st EXCEPT !.pid = pid, !.ready = TRUE,
                                    !.fds = @ \ {"in"}, !.unsent = 0]
     \/ /\ Reap /\ Fault
        /\ st' = [st EXCEPT !.pid = FALSE]
        /\ PumpFails
  /\ UNCHANGED <<handle, fr, setup, late>>

\* nq_process_wait moves the outcome out and drops the handle;
\* nq_process_terminate returns and leaves the outcome in the handle.
PumpOk ==
  /\ pc = "pump_ok"
  /\ Goto(IF fr.op = "wait" THEN "cleanup" ELSE "idle")
  /\ UNCHANGED <<osVars, handle, st, fr, setup, late, faults>>

(***************************************************************************)
(* nq_process_cleanup and nq_process_drop                                  *)
(***************************************************************************)

\* nq_process_cleanup_attempt number n begins.
Attempt(n, since) ==
  /\ fr' = [fr EXCEPT !.caller = "attempt", !.attempt = n, !.since = since]
  /\ Goto(IF st.terminal_signalled THEN "reap" ELSE "so_probe")

Cleanup ==
  /\ pc = "cleanup"
  /\ IF st.pid THEN Attempt(1, faults) ELSE Goto("close") /\ UNCHANGED fr
  /\ UNCHANGED <<osVars, handle, st, setup, late, faults>>

CleanupReap ==
  /\ pc = "reap"
  /\ \E err, pid \in BOOLEAN :
       /\ Reaped(err, pid)
       /\ st' = [st EXCEPT !.pid = pid]
       /\ IF err THEN Raise ELSE Goto("close")
  /\ UNCHANGED <<handle, fr, setup, late>>

\* Mutant: a failed attempt is not tried a second time.
CleanupRetryOnce ==
  /\ pc = "retry"
  /\ \/ ~st.pid /\ Goto("close") /\ UNCHANGED fr
     \/ /\ st.pid
        /\ fr' = [fr EXCEPT !.attempt = 3]
        /\ Goto("final_probe")
  /\ UNCHANGED <<osVars, handle, st, setup, late, faults>>

\* An attempt failed: stop if the anchor is gone, else try once more, else
\* go on to the final round.
CleanupRetry ==
  /\ pc = "retry"
  /\ \/ ~st.pid /\ Goto("close") /\ UNCHANGED fr
     \/ st.pid /\ fr.attempt = 1 /\ Attempt(2, fr.since)
     \/ /\ st.pid /\ fr.attempt # 1
        /\ fr' = [fr EXCEPT !.attempt = 3]
        /\ Goto("final_probe")
  /\ UNCHANGED <<osVars, handle, st, setup, late, faults>>

CleanupFinalProbe ==
  /\ pc = "final_probe"
  /\ \E err, pid, exited \in BOOLEAN :
       /\ Probed(FALSE, err, pid, exited)
       /\ st' = [st EXCEPT !.pid = pid]
       /\ \/ /\ ~err /\ exited
             /\ fr' = [fr EXCEPT !.caller = "final"]
             /\ Goto("st_probe")
          \/ /\ err /\ pid /\ fr.attempt = 3
             /\ fr' = [fr EXCEPT !.attempt = 4]
             /\ UNCHANGED pc
          \/ /\ (~err /\ ~exited) \/ (err /\ ~(pid /\ fr.attempt = 3))
             /\ Goto("last_probe") /\ UNCHANGED fr
  /\ UNCHANGED <<handle, setup, late>>

\* Mutant: after the last probe the call returns although the child is owned.
CleanupLastProbeReturns ==
  /\ pc = "last_probe"
  /\ Goto("close")
  /\ UNCHANGED <<osVars, handle, st, fr, setup, late, faults>>

\* The last probe may still find the child gone; otherwise the runtime exits
\* with status 1 rather than return while it owns a process.
CleanupLastProbe ==
  /\ pc = "last_probe"
  /\ \/ ~st.pid /\ Goto("close") /\ UNCHANGED <<osVars, st, faults>>
     \/ /\ st.pid
        /\ \E err, pid, exited \in BOOLEAN :
             /\ Probed(FALSE, err, pid, exited)
             /\ st' = [st EXCEPT !.pid = pid]
             /\ Goto(IF pid THEN "aborted" ELSE "close")
  /\ UNCHANGED <<handle, fr, setup, late>>

\* Close the descriptors, free the buffers and the record.
CleanupClose ==
  /\ pc = "close"
  /\ st' = Blank
  /\ handle' = CASE fr.op = "start" -> "none"
                 [] fr.op = "terminate" -> "inert"
                 [] OTHER -> "moved"
  /\ Goto("idle")
  /\ UNCHANGED <<osVars, fr, setup, late, faults>>

------------------------------------------------------------------------------

Runtime ==
  \/ StartFork \/ StartSetpgid \/ StartHandshake \/ StartRelease
  \/ SignalOwnedProbe \/ SignalOwnedDirect \/ SignalOwnedGroup
  \/ SignalOwnedLate \/ SignalTerminalProbe \/ SignalTerminalKill
  \/ PumpProbe \/ PumpClock \/ PumpMark \/ PumpCheck
  \/ PumpSnapshotOut \/ PumpSnapshotErr \/ PumpFinishCheck \/ PumpPoll
  \/ PumpRead("out") \/ PumpRead("err") \/ PumpWrite \/ PumpFinish \/ PumpOk
  \/ Cleanup \/ CleanupReap \/ CleanupRetry \/ CleanupFinalProbe
  \/ CleanupLastProbe \/ CleanupClose

Caller == StartRejected \/ Start \/ Wait \/ Terminate \/ Drop \/ ConsumeInert

runtimeVars == <<handle, st, fr, pc, setup, late, faults>>

DeadlineReached ==
  /\ ~late
  /\ late' = TRUE
  /\ UNCHANGED <<osVars, handle, st, fr, pc, setup, faults>>

Environment ==
  \/ (ChildSetup \/ ProgramStep \/ ChildDies) /\ UNCHANGED runtimeVars
  \/ DeadlineReached

\* Nothing is left to do: the handle was consumed or the runtime has exited.
Finished ==
  /\ pc = "aborted" \/ (pc = "idle" /\ handle = "moved")
  /\ UNCHANGED vars

Next == Runtime \/ Caller \/ Environment \/ Finished

Spec == Init /\ [][Next]_vars

Live == pc \notin {"idle", "aborted"}

\* The runtime takes its next step, the child reacts to SIGKILL and gets
\* through its setup code, and the clock advances.
FairSpec ==
  /\ Spec
  /\ WF_vars(Runtime)
  /\ WF_vars(ChildSetup /\ UNCHANGED runtimeVars)
  /\ WF_vars(ChildDies /\ UNCHANGED runtimeVars)
  /\ WF_vars(DeadlineReached)

------------------------------------------------------------------------------
(***************************************************************************)
(* Properties                                                              *)
(***************************************************************************)

\* Every kill of nq_process_signal_owned and nq_process_signal_terminal is
\* issued while the pid anchor is held and, unless something else has just
\* reaped the child, while the number still belongs to it: no call signals a
\* pid that the runtime itself has given up or, with pid 0, its own group.
SignalsOnlyOwned ==
  pc \in KillSites => st.pid /\ (child \in Unreaped \/ child = "lost")

\* When the runtime reaps the direct child (in finish or in cleanup, whatever
\* failed before), no descendant is left alive in the owned group.
ReapedGroupEmpty == child = "reaped" => desc # "group"

\* A call that returns without a live handle, or with a ready outcome, leaves
\* no child unreaped, no anchor and no descriptor behind, on every error
\* path of start, wait, terminate and drop.
ReturnsOwnNothing ==
  /\ pc = "idle" /\ (handle # "live" \/ st.ready) => child \in Gone /\ ~st.pid
  /\ pc = "idle" /\ handle # "live" => st.fds = {}
  /\ pc = "idle" => setup = {}

\* An outcome does not hide that the runtime killed the child: if SIGKILL
\* reached it before it exited, the outcome says timed_out or cancelled.
KillIsReported == st.ready /\ killed => st.timed_out \/ st.cancelled

\* A fresh observation wins over a deadline or a cancellation: a child that
\* had exited when the pump checked the deadline, or between that check and
\* the probe of nq_process_signal_owned, is reported neither timed out nor
\* cancelled.
NaturalExitWins == st.ready /\ fr.early => ~st.timed_out /\ ~st.cancelled

\* The two sides of the race between a signal and an exit: a kill that
\* reached the child is in the outcome, and an exit before the runtime's last
\* look is not taken for one.  An exit after that look and before the kill is
\* reported as the kill it raced with.
OutcomeGenuine == KillIsReported /\ NaturalExitWins

CountOf(w, s) == Cardinality({i \in DOMAIN s : s[i] = w})

\* A ready outcome holds every byte the direct child wrote, and no more than
\* the capture limit: output is never truncated silently, also when an
\* escaped descendant keeps the pipe open and writes to it.
CaptureComplete ==
  st.ready => /\ Used <= st.limit
              /\ \A c \in Channels :
                   CountOf("child", st.buffer[c]) = wrote["child"][c]

\* One transient failure during cleanup is recovered: the runtime gives up
\* with _exit(1) only after two failures in that cleanup.
AbortNeedsTwoFaults == pc = "aborted" => faults >= fr.since + 2

\* Every call returns (or exits the runtime) if it is start, terminate, drop
\* or a wait with a deadline, or if the child has exited, even while an
\* escaped descendant holds the pipes open.
CallsReturn ==
  Live /\ (fr.op # "wait" \/ fr.deadline \/ child = "zombie") ~> ~Live

------------------------------------------------------------------------------
(***************************************************************************)
(* Refinement: the handle as its caller sees it.                           *)
(***************************************************************************)
NoResult == <<>>

Phase ==
  CASE pc = "aborted" -> "exited"
    [] pc # "aborted" /\ handle = "live" -> IF st.ready THEN "ready" ELSE "active"
    [] OTHER -> handle

Outcome ==
  IF st.ready THEN <<st.buffer, st.timed_out, st.cancelled>> ELSE NoResult

Contract == INSTANCE ProcessHandle WITH
  NoOutcome <- NoResult, phase <- Phase, owned <- st.pid, outcome <- Outcome

\* The runtime implements the handle contract: an outcome appears in the step
\* that reaps the child and never changes, and the caller's handle becomes
\* inert or is consumed only when nothing is owned any more.
ImplementsContract == Contract!Spec

==============================================================================
