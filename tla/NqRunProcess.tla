---------------------------- MODULE NqRunProcess ----------------------------
(***************************************************************************)
(* nq_run_process of stdlib/runtime.c: one call that runs a program with   *)
(* its output in two temporary files, waits for it and reads them back.    *)
(* The child has no process group and no deadline, so a running child is   *)
(* waited for, and only a child whose start or wait has failed is killed.  *)
(*                                                                         *)
(* An action is one allocation or one system call that can fail; a failure *)
(* leaves what was acquired before it to the undo of its error path, which *)
(* names what it frees, closes and unlinks.  In OsProcess the two capture  *)
(* files take the place of the pipes.                                      *)
(***************************************************************************)
EXTENDS OsProcess, FiniteSets

CONSTANTS
  Args,        \* number of arguments, arg_count
  MaxFaults    \* bound on injected failures

ASSUME RunAssumption == Args \in Nat /\ MaxFaults \in Nat

VARIABLES
  pid,     \* the anchor of the child is held
  mem,     \* allocations other than the copies of the arguments
  copies,  \* arguments that have a copy in argv
  index,   \* loop counter of the copies
  files,   \* temporary files that exist
  fds,     \* descriptors the runtime has open
  text,    \* stdout_text and stderr_text
  failed,  \* setup_error # 0, child_errno # 0 and first_error # 0
  exited,  \* the result of the last probe
  attempt, \* loop counter of nq_process_legacy_wait
  result,  \* what the call has returned
  pc,      \* the next step
  faults,  \* failures so far
  since    \* failures before this call

local == <<pid, mem, copies, index, files, fds, text, failed, exited, attempt>>
vars == <<child, ingroup, desc, held, pipe, wrote, report, killed, local,
          result, pc, faults, since>>

Blocks == {"program", "cwd", "argv"}
Pipe == {"error_r", "error_w"}
Sites == {"idle", "aborted", "program", "cwd", "validate", "temp_out",
          "temp_err", "temps", "argv", "copy", "uncopy", "setup_out",
          "setup_err", "pipe", "setup_r", "setup_w", "fork", "handshake",
          "reap", "probe", "kill", "reap_killed", "last_probe",
          "again_probe", "last_reap", "again_reap", "end_probe", "read_out",
          "read_err", "done"}

\* Types of the operating system's state and of the locals of the call.
TypeOK ==
  /\ OsTypeOK
  /\ pid \in BOOLEAN /\ exited \in BOOLEAN
  /\ mem \subseteq Blocks /\ copies \subseteq 1..Args /\ index \in 0..Args
  /\ files \subseteq Channels /\ fds \subseteq Channels \cup Pipe
  /\ text \in [Channels -> Seq(Writers)]
  /\ failed \subseteq {"setup", "start", "wait"}
  /\ attempt \in 0..2
  /\ result \in {"none", "ok", "err"}
  /\ pc \in Sites
  /\ faults \in Nat /\ since \in Nat

NoText == [c \in Channels |-> <<>>]

Init ==
  /\ OsInit
  /\ pid = FALSE /\ mem = {} /\ copies = {} /\ index = 0
  /\ files = {} /\ fds = {} /\ text = NoText
  /\ failed = {} /\ exited = FALSE /\ attempt = 0
  /\ result = "none" /\ pc = "idle" /\ faults = 0 /\ since = 0

Works == faults' = faults
Fails(n) == faults + n <= MaxFaults /\ faults' = faults + n
Goto(label) == pc' = label /\ UNCHANGED <<result, since>>

\* return nq_process_err(...)
ReturnErr == pc' = "idle" /\ result' = "err" /\ UNCHANGED since

(***************************************************************************)
(* Before fork                                                             *)
(***************************************************************************)

Before == UNCHANGED <<osVars, pid, text, exited, attempt>>
Storage == <<mem, copies, index>>

Run ==
  /\ pc = "idle"
  /\ pc' = "program" /\ result' = "none" /\ since' = faults
  /\ text' = NoText /\ failed' = {} /\ attempt' = 0 /\ exited' = FALSE
  /\ index' = 0
  /\ Works
  /\ UNCHANGED <<osVars, pid, mem, copies, files, fds>>

\* The list of arguments is rejected; nq_os_string of the program and of the
\* directory: either is rejected, or its copy fails.
CopyProgram ==
  /\ pc = "program"
  /\ \/ /\ mem' = mem \cup {"program"}
        /\ Works /\ Goto("cwd")
     \/ UNCHANGED mem /\ (Works \/ Fails(1)) /\ ReturnErr
  /\ Before /\ UNCHANGED <<copies, index, files, fds, failed>>

CopyCwd ==
  /\ pc = "cwd"
  /\ \/ /\ mem' = mem \cup {"cwd"}
        /\ Works /\ Goto("validate")
     \/ mem' = mem \ {"program"} /\ (Works \/ Fails(1)) /\ ReturnErr
  /\ Before /\ UNCHANGED <<copies, index, files, fds, failed>>

\* Every argument is accepted, or one is rejected.
Validate ==
  /\ pc = "validate"
  /\ \/ UNCHANGED mem /\ Goto("temp_out")
     \/ mem' = mem \ {"program", "cwd"} /\ ReturnErr
  /\ Works
  /\ Before /\ UNCHANGED <<copies, index, files, fds, failed>>

\* mkstemp of one capture; the second is called though the first failed.
OpenTemp(c, next) ==
  \/ Works /\ files' = files \cup {c} /\ fds' = fds \cup {c} /\ Goto(next)
  \/ Fails(1) /\ UNCHANGED <<files, fds>> /\ Goto(next)

OpenTemps ==
  /\ \/ pc = "temp_out" /\ OpenTemp("out", "temp_err")
     \/ pc = "temp_err" /\ OpenTemp("err", "temps")
  /\ Before /\ UNCHANGED <<Storage, failed>>

\* Both captures are there, or the one that is there is removed.
CheckTemps ==
  /\ pc = "temps"
  /\ IF Channels \subseteq fds
     THEN Goto("argv") /\ UNCHANGED <<mem, files, fds>>
     ELSE /\ files' = files \ (fds \cap Channels)
          /\ fds' = fds \ Channels
          /\ mem' = mem \ {"program", "cwd"}
          /\ ReturnErr
  /\ Works
  /\ Before /\ UNCHANGED <<copies, index, failed>>

\* What all the error paths below end with.
DropTemps ==
  /\ fds' = fds \ (Channels \cup Pipe)
  /\ files' = files \ Channels
  /\ ReturnErr

AllocArgv ==
  /\ pc = "argv"
  /\ \/ /\ mem' = mem \cup {"argv"}
        /\ Works /\ Goto("copy")
        /\ UNCHANGED <<files, fds>>
     \/ Fails(1) /\ mem' = mem \ {"program", "cwd"} /\ DropTemps
  /\ Before /\ UNCHANGED <<copies, index, failed>>

\* One turn of the loop that copies the arguments, or its end.
CopyArg ==
  /\ pc = "copy"
  /\ \/ /\ index < Args /\ Works
        /\ copies' = copies \cup {index + 1} /\ index' = index + 1
        /\ Goto("copy")
     \/ /\ index < Args /\ Fails(1)
        /\ Goto("uncopy") /\ UNCHANGED <<copies, index>>
     \/ /\ index = Args /\ Works
        /\ Goto("setup_out") /\ UNCHANGED <<copies, index>>
  /\ Before /\ UNCHANGED <<mem, files, fds, failed>>

\* Mutant: the loop over the copies made so far stops one short.
DropCopiesShort ==
  /\ pc = "uncopy"
  /\ copies' = copies \ 2..index /\ index' = 0
  /\ mem' = mem \ Blocks
  /\ DropTemps /\ Works
  /\ Before /\ UNCHANGED failed

\* The n-th copy failed: the ones before it are freed.
DropCopies ==
  /\ pc = "uncopy"
  /\ copies' = copies \ 1..index /\ index' = 0
  /\ mem' = mem \ Blocks
  /\ DropTemps /\ Works
  /\ Before /\ UNCHANGED failed

\* nq_process_setup_fd: a descriptor that cannot be set up has been closed.
SetupFd(d, next) ==
  \/ Works /\ UNCHANGED <<fds, failed>> /\ Goto(next)
  \/ /\ Fails(1)
     /\ fds' = fds \ {d} /\ failed' = failed \cup {"setup"}
     /\ Goto(next)

\* Both of a pair are tried; the pipe is made when both captures are ready.
Prepare ==
  /\ \/ pc = "setup_out" /\ SetupFd("out", "setup_err")
     \/ pc = "setup_err" /\ SetupFd("err", "pipe")
     \/ /\ pc = "pipe" /\ failed # {}
        /\ Works /\ Goto("fork") /\ UNCHANGED <<fds, failed>>
     \/ /\ pc = "pipe" /\ failed = {}
        /\ Works /\ fds' = fds \cup Pipe
        /\ Goto("setup_r") /\ UNCHANGED failed
     \/ /\ pc = "pipe" /\ failed = {}
        /\ Fails(1) /\ failed' = {"setup"}
        /\ Goto("fork") /\ UNCHANGED fds
     \/ pc = "setup_r" /\ SetupFd("error_r", "setup_w")
     \/ pc = "setup_w" /\ SetupFd("error_w", "fork")
  /\ Before /\ UNCHANGED <<Storage, files>>

\* The release of everything before the child exists: each descriptor that
\* is open, every copy, and the captures.
Undo ==
  /\ copies' = copies \ 1..Args
  /\ mem' = mem \ Blocks
  /\ DropTemps

\* setup_error # 0, or fork fails.
PrepareFails ==
  /\ pc = "fork"
  /\ \/ failed # {} /\ Works
     \/ failed = {} /\ Fails(1)
  /\ Undo
  /\ Before /\ UNCHANGED <<index, failed>>

\* The parent closes its copies of what only the child uses.
ForkChild ==
  /\ pc = "fork" /\ failed = {}
  /\ Works
  /\ Fork(Channels)
  /\ pid' = TRUE
  /\ fds' = fds \ (Channels \cup {"error_w"})
  /\ Goto("handshake")
  /\ UNCHANGED <<Storage, files, text, failed, exited, attempt>>

(***************************************************************************)
(* The child before execve: chdir, dup2 twice, execvp                      *)
(***************************************************************************)
ChildRuns ==
  /\ child = "forked"
  /\ child' = "running" /\ report' = "exec"
  /\ UNCHANGED <<ingroup, desc, held, pipe, wrote, killed>>

(***************************************************************************)
(* From fork to the return                                                 *)
(***************************************************************************)

\* nq_process_exec_error, then the first step of nq_process_legacy_wait.
Handshake ==
  /\ pc = "handshake"
  /\ \/ /\ report = "exec" /\ Works
        /\ failed' = failed
        /\ Goto("reap")
     \/ /\ report = "error" /\ Works
        /\ failed' = {"start"}
        /\ Goto("probe")
     \/ /\ Fails(1)
        /\ failed' = {"start"}
        /\ Goto("probe")
  /\ fds' = fds \ {"error_r"}
  /\ UNCHANGED <<osVars, pid, Storage, files, text, exited, attempt>>

\* nq_process_probe_pid without blocking.
Probe(err) ==
  /\ \/ /\ child \in Unreaped /\ Works
        /\ ~err /\ pid' = pid /\ exited' = (child = "zombie")
     \/ /\ child \in Gone /\ Works
        /\ err /\ pid' = FALSE /\ UNCHANGED exited
     \/ /\ Fails(1)
        /\ err /\ UNCHANGED <<pid, exited>>
  /\ UNCHANGED osVars

\* nq_process_reap_pid.
ReapPid(err) ==
  \/ Reap /\ Works /\ ~err /\ pid' = FALSE
  \/ child \in Gone /\ Works /\ err /\ pid' = FALSE /\ UNCHANGED osVars
  \/ Fails(1) /\ err /\ pid' = pid /\ UNCHANGED osVars

Kept == UNCHANGED <<Storage, files, fds, text>>
Wrong(err) == failed' = IF err THEN failed \cup {"wait"} ELSE failed

\* The caller of nq_process_legacy_wait: the arguments are freed, and a
\* failure removes the captures before a live anchor ends the program.
Waited ==
  /\ fds' = fds
  /\ copies' = copies \ 1..Args /\ index' = Args
  /\ IF failed' # {} \/ pid'
     THEN /\ mem' = mem \ Blocks
          /\ files' = files \ Channels
          /\ IF pid' THEN pc' = "aborted" /\ UNCHANGED <<result, since>>
                     ELSE ReturnErr
     ELSE /\ mem' = mem \ {"argv"}
          /\ files' = files
          /\ Goto("read_out")
  /\ UNCHANGED text

\* Mutant: waitpid with WNOHANG takes a running child for an exited one.
FirstReapNoHang ==
  /\ pc = "reap"
  /\ pid' = FALSE /\ failed' = failed
  /\ child' = IF child = "zombie" THEN "reaped" ELSE child
  /\ UNCHANGED <<ingroup, desc, held, pipe, wrote, report, killed>>
  /\ Works /\ Waited
  /\ UNCHANGED <<exited, attempt>>

FirstReap ==
  /\ pc = "reap"
  /\ \E err \in BOOLEAN :
       /\ ReapPid(err)
       /\ Wrong(err)
       /\ IF pid' THEN Goto("probe") /\ Kept ELSE Waited
  /\ UNCHANGED <<exited, attempt>>

\* Mutant: there is one attempt.
NextAttemptOnce ==
  /\ attempt' = attempt + 1
  /\ IF ~pid' THEN Waited
     ELSE /\ Goto("last_probe")
          /\ Kept

\* The end of one turn of the loop.
NextAttempt ==
  /\ attempt' = attempt + 1
  /\ IF ~pid' THEN Waited
     ELSE /\ Goto(IF attempt = 0 THEN "probe" ELSE "last_probe")
          /\ Kept

\* Mutant: a child that has not exited is waited for without a signal.
ProbeChildTrusts ==
  /\ pc = "probe"
  /\ \E err \in BOOLEAN :
       /\ Probe(err)
       /\ Wrong(err)
       /\ IF err THEN NextAttempt
          ELSE Goto("reap_killed") /\ Kept /\ UNCHANGED attempt

ProbeChild ==
  /\ pc = "probe"
  /\ \E err \in BOOLEAN :
       /\ Probe(err)
       /\ Wrong(err)
       /\ IF err THEN NextAttempt
          ELSE /\ Goto(IF exited' THEN "reap_killed" ELSE "kill")
               /\ Kept
               /\ UNCHANGED attempt

KillChild ==
  /\ pc = "kill"
  /\ UNCHANGED <<pid, exited>>
  /\ \/ /\ KillPid /\ Works
        /\ Goto("reap_killed")
        /\ Kept
        /\ UNCHANGED <<failed, attempt>>
     \/ /\ Fails(1) /\ UNCHANGED osVars
        /\ failed' = failed \cup {"wait"}
        /\ NextAttempt

\* Mutant: success of a later attempt clears the earlier error.
ReapKilledForgets ==
  /\ pc = "reap_killed"
  /\ \E err \in BOOLEAN :
       /\ ReapPid(err)
       /\ failed' = IF err THEN failed \cup {"wait"} ELSE failed \ {"wait"}
       /\ NextAttempt
  /\ UNCHANGED exited

ReapKilled ==
  /\ pc = "reap_killed"
  /\ \E err \in BOOLEAN :
       /\ ReapPid(err)
       /\ Wrong(err)
       /\ NextAttempt
  /\ UNCHANGED exited

\* After two attempts: one more look, repeated if it fails.  Errors found
\* here are not reported; the loop has reported one.
LastProbe ==
  /\ pc \in {"last_probe", "again_probe"}
  /\ \E err \in BOOLEAN :
       /\ Probe(err)
       /\ failed' = failed
       /\ IF ~pid' THEN Waited
          ELSE /\ Goto(IF err THEN IF pc = "last_probe" THEN "again_probe"
                                                        ELSE "end_probe"
                       ELSE IF exited' THEN "last_reap" ELSE "end_probe")
               /\ Kept
  /\ UNCHANGED attempt

LastReap ==
  /\ pc \in {"last_reap", "again_reap"}
  /\ \E err \in BOOLEAN :
       /\ ReapPid(err)
       /\ failed' = failed
       /\ IF ~pid' THEN Waited
          ELSE /\ Goto(IF pc = "last_reap" THEN "again_reap" ELSE "end_probe")
               /\ Kept
  /\ UNCHANGED <<exited, attempt>>

EndProbe ==
  /\ pc = "end_probe"
  /\ \E err \in BOOLEAN : Probe(err)
  /\ failed' = failed
  /\ Waited
  /\ UNCHANGED attempt

\* nq_try_read_text_file of one capture; a failure drops what was read.
ReadText(c, next) ==
  \/ /\ Works
     /\ text' = [text EXCEPT ![c] = pipe[c]]
     /\ Goto(next)
     /\ UNCHANGED <<mem, files>>
  \/ /\ Fails(1)
     /\ text' = NoText
     /\ files' = files \ Channels
     /\ mem' = mem \ {"program", "cwd"}
     /\ ReturnErr

ReadCaptures ==
  /\ \/ pc = "read_out" /\ ReadText("out", "read_err")
     \/ pc = "read_err" /\ ReadText("err", "done")
  /\ UNCHANGED <<osVars, pid, copies, index, fds, failed, exited, attempt>>

ReturnOk ==
  /\ pc = "done"
  /\ files' = files \ Channels
  /\ mem' = mem \ {"program", "cwd"}
  /\ pc' = "idle" /\ result' = "ok" /\ UNCHANGED since
  /\ Works
  /\ UNCHANGED <<osVars, pid, copies, index, fds, text, failed, exited, attempt>>

Step ==
  \/ CopyProgram \/ CopyCwd \/ Validate
  \/ OpenTemps \/ CheckTemps \/ AllocArgv \/ CopyArg \/ DropCopies
  \/ Prepare \/ PrepareFails \/ ForkChild \/ Handshake
  \/ FirstReap \/ ProbeChild \/ KillChild \/ ReapKilled
  \/ LastProbe \/ LastReap \/ EndProbe \/ ReadCaptures \/ ReturnOk

Setup == ChildRuns \/ ChildSetupFails
Others == UNCHANGED <<local, result, pc, faults, since>>
World == (Setup \/ ChildDies \/ ProgramStep) /\ Others

Next ==
  \/ Run \/ Step \/ World
  \/ pc = "aborted" /\ UNCHANGED vars

Spec == Init /\ [][Next]_vars

\* The runtime takes its next step when it can, a forked child reaches
\* execve or fails, and a killed or exiting process becomes a zombie.
FairSpec ==
  /\ Spec
  /\ WF_vars(Step)
  /\ WF_vars(Setup /\ Others)
  /\ WF_vars(ChildDies /\ Others)

------------------------------------------------------------------------------
(***************************************************************************)
(* Properties                                                              *)
(***************************************************************************)

\* Whatever failed, a return leaves no child, no zombie, no descriptor, no
\* allocation and no capture file; the program ends rather than return with
\* a live child, and has removed the captures by then.
ReturnsClean ==
  /\ pc = "idle" =>
       /\ child \in Gone /\ ~pid
       /\ fds = {} /\ files = {} /\ mem = {} /\ copies = {}
  /\ pc = "aborted" => fds = {} /\ files = {}

\* A result is that of a program that was started, was not killed by the
\* runtime and has been reaped by it.
OkIsNatural ==
  result = "ok" => report = "exec" /\ ~killed /\ child = "reaped"

\* A result holds every byte the child itself wrote, whatever a descendant
\* does with the inherited descriptors.
Count(s, w) == Cardinality({i \in DOMAIN s : s[i] = w})
CaptureComplete ==
  result = "ok" =>
    \A c \in Channels : Count(text[c], "child") = wrote["child"][c]

\* The program is ended for a child that cannot be collected only after two
\* system calls of this run have failed.
AbortNeedsTwoFaults == pc = "aborted" => faults >= since + 2

\* The call gets as far as waiting for a running program, and once that has
\* exited it returns.
Ended == pc \in {"idle", "aborted"}
CallReturns ==
  /\ ~Ended ~> (Ended \/ (pc = "reap" /\ child = "running"))
  /\ child = "zombie" ~> Ended

==============================================================================
