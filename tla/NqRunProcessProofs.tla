------------------------- MODULE NqRunProcessProofs -------------------------
(***************************************************************************)
(* Proofs about NqRunProcess, for any number of failed system calls, with  *)
(* or without something else that reaps the child.                         *)
(***************************************************************************)
EXTENDS NqRunProcess, FiniteSetTheorems, TLAPS

Waits == {"reap", "probe", "kill", "reap_killed", "last_probe",
          "again_probe", "last_reap", "again_reap", "end_probe"}
Reads == {"read_out", "read_err", "done"}

\* The steps before fork, and those of them that have both captures.
Strings == {"program", "cwd", "validate"}
Copying == {"copy", "uncopy"}
Setups == {"setup_out", "setup_err", "pipe", "setup_r", "setup_w", "fork"}
Early == Strings \cup {"temp_out", "temp_err", "temps", "argv"} \cup Copying
           \cup Setups

\* What the call owns at each step.
SiteInv ==
  /\ pc \in {"idle"} \cup Early => ~pid /\ child \in Gone
  /\ pc \in {"idle", "temp_out"} \cup Strings => fds = {} /\ files = {}
  /\ pc \in {"idle", "program"} => mem = {}
  /\ pc = "cwd" => mem \subseteq {"program"}
  /\ pc \in {"validate", "temp_out", "temp_err", "temps", "argv"} \cup Reads =>
       mem \subseteq {"program", "cwd"}
  /\ pc # "aborted" => mem \subseteq Blocks
  /\ pc \in {"idle", "temp_out", "temp_err", "temps", "argv"} \cup Strings
              \cup Reads => copies = {}
  /\ pc \in Strings \cup {"temp_out", "temp_err", "temps", "argv"} => index = 0
  /\ pc \in Copying => index \in 0..Args /\ copies \subseteq 1..index
  /\ pc \in Setups \cup {"handshake"} \cup Waits => copies \subseteq 1..Args
  /\ pc = "temp_err" => fds = files /\ fds \subseteq {"out"}
  /\ pc = "temps" => fds = files /\ fds \subseteq Channels
  /\ pc \in {"argv"} \cup Copying => fds = Channels
  /\ pc \in Setups => fds \subseteq Channels \cup Pipe
  /\ pc = "handshake" => fds \subseteq {"error_r"}
  /\ pc \in {"argv", "handshake"} \cup Copying \cup Setups \cup Waits
              \cup Reads => files = Channels
  /\ pc \in {"handshake"} \cup Waits => pid
  /\ pc \in Waits \cup Reads => fds = {}
  /\ pc \in Reads => ~pid
  /\ pc = "aborted" => fds = {} /\ files = {}

\* Only a child whose start or wait has failed may have been killed, and
\* the failure is not forgotten.
CauseInv ==
  /\ pc \in (Early \ Setups) \cup {"setup_out", "handshake", "reap"} =>
       failed = {}
  /\ pc = "handshake" => ~killed
  /\ pc = "reap" => ~killed /\ report = "exec"
  /\ pc \in Waits \ {"reap"} => failed # {}
  /\ pc \in Reads => child = "reaped" /\ report = "exec" /\ ~killed
  /\ result = "ok" => pc = "idle"
  /\ OkIsNatural
  /\ report = "exec" => child \notin {"forked", "grouped"}

\* Every attempt to collect the child that left it behind has had a fault.
FaultInv ==
  /\ faults \in Nat /\ since \in Nat /\ attempt \in Nat /\ since <= faults
  /\ pc \in Early \cup {"handshake", "reap"} => attempt = 0
  /\ pc \in {"probe", "kill", "reap_killed"} =>
       attempt \in 0..1 /\ faults >= since + attempt
  /\ pc \in {"last_probe", "again_probe", "last_reap", "again_reap",
             "end_probe"} => faults >= since + 2
  /\ AbortNeedsTwoFaults

Inv == SiteInv /\ CauseInv /\ FaultInv

LEMMA InitInv == Init => Inv
  BY RunAssumption
  DEF Init, OsInit, Inv, SiteInv, CauseInv, FaultInv, Waits, Reads, Gone,
      Early, Strings, Copying, Setups, OkIsNatural, AbortNeedsTwoFaults

\* A step of the child or its descendant leaves the call alone, kills
\* nobody, and changes neither a child that is gone nor what it reported.
LEMMA WorldInv ==
  ASSUME Inv, World
  PROVE  Inv'
  <1>1. /\ killed' = killed
        /\ child \in Gone => child' = child /\ report' = report
        /\ report = "exec" /\ child \notin {"forked", "grouped"} =>
             report' = "exec" /\ child' \notin {"forked", "grouped"}
        /\ child' \in {"forked", "grouped"} => child \in {"forked", "grouped"}
        /\ report' = "exec" => child' \notin {"forked", "grouped"}
    BY DEF World, Setup, ChildRuns, ChildSetupFails, ChildDies, ProgramStep,
           Write, ChildCloses, ChildSpawns, ChildLeavesGroup, DescEscapes,
           DescRejoins, DescExits, ChildExits, ReapedElsewhere, Gone,
           Inv, CauseInv
  <1>2. UNCHANGED <<pid, mem, copies, index, files, fds, failed, attempt, result, pc, faults,
                    since>>
    BY DEF World, Others, local
  <1>3. SiteInv'
    BY <1>1, <1>2 DEF Inv, SiteInv
  <1>4. CauseInv'
    BY <1>1, <1>2 DEF Inv, CauseInv, OkIsNatural, Gone
  <1>5. FaultInv'
    BY <1>2 DEF Inv, FaultInv, AbortNeedsTwoFaults
  <1> QED BY <1>3, <1>4, <1>5 DEF Inv

\* What every step before fork leaves alone.
LEMMA EarlyFacts ==
  ASSUME Inv, Run \/ CopyProgram \/ CopyCwd \/ Validate \/ OpenTemps
              \/ CheckTemps \/ AllocArgv \/ CopyArg \/ DropCopies
              \/ Prepare \/ PrepareFails
  PROVE  /\ child' = child /\ killed' = killed /\ report' = report
         /\ pid' = pid /\ ~pid /\ child \in Gone
         /\ pc \in {"idle"} \cup Early
         /\ faults' = faults \/ faults' = faults + 1
         /\ faults' \in Nat /\ faults' >= faults
         /\ Run \/ (since' = since /\ attempt' = attempt /\ pc \in Early)
         /\ pc' \in Early \/ (pc' = "idle" /\ result' = "err")
         /\ pc' \in Early => result' # "ok"
  <1>1. /\ UNCHANGED osVars /\ pid' = pid /\ pc \in {"idle"} \cup Early
        /\ Works \/ Fails(1)
    BY DEF Run, CopyProgram, CopyCwd, Validate, OpenTemps, OpenTemp,
           CheckTemps, AllocArgv, CopyArg, DropCopies, Prepare, SetupFd,
           PrepareFails, Before, Early, Strings, Copying, Setups, Works
  <1>2. /\ Run \/ (since' = since /\ attempt' = attempt /\ pc \in Early)
        /\ \/ pc' \in Early /\ result' = result /\ pc # "idle"
           \/ pc' \in Early /\ Run /\ result' = "none"
           \/ pc' = "idle" /\ result' = "err"
    BY DEF Run, CopyProgram, CopyCwd, Validate, OpenTemps, OpenTemp,
           CheckTemps, AllocArgv, CopyArg, DropCopies, Prepare, SetupFd,
           PrepareFails, Undo, DropTemps, Before, Goto, ReturnErr, Early,
           Strings, Copying, Setups
  <1>3. faults \in Nat /\ ~pid /\ child \in Gone /\ (result = "ok" => pc = "idle")
    BY <1>1 DEF Inv, FaultInv, SiteInv, CauseInv
  <1> QED BY <1>1, <1>2, <1>3 DEF osVars, Works, Fails

\* A step before fork leaves nothing that its successor does not own.
LEMMA EarlySite ==
  ASSUME Inv, Run \/ CopyProgram \/ CopyCwd \/ Validate \/ OpenTemps
              \/ CheckTemps \/ AllocArgv \/ CopyArg \/ DropCopies
              \/ Prepare \/ PrepareFails
  PROVE  SiteInv'
  <1>0. /\ ~pid' /\ child' \in Gone /\ Args \in Nat
    BY EarlyFacts, RunAssumption
  <1> USE <1>0 DEF Waits, Reads, Early, Strings, Copying, Setups
  <1>1. CASE Run
    BY <1>1 DEF Inv, SiteInv, Run
  <1>2. CASE CopyProgram \/ CopyCwd \/ Validate
    BY <1>2 DEF Inv, SiteInv, CopyProgram, CopyCwd, Validate, Goto, ReturnErr,
                Blocks
  <1>3. CASE OpenTemps
    <2>1. CASE pc = "temp_out"
      BY <1>3, <2>1 DEF Inv, SiteInv, OpenTemps, OpenTemp, Goto, Storage
    <2>2. CASE pc = "temp_err"
      BY <1>3, <2>2
      DEF Inv, SiteInv, OpenTemps, OpenTemp, Goto, Storage, Channels
    <2> QED BY <1>3, <2>1, <2>2 DEF OpenTemps
  <1>4. CASE CheckTemps
    BY <1>4 DEF Inv, SiteInv, CheckTemps, Goto, ReturnErr, Blocks
  <1>5. CASE AllocArgv
    <2>1. /\ index = 0 /\ copies = {} /\ UNCHANGED <<copies, index>>
          /\ fds = Channels /\ files = Channels /\ pid' = pid
          /\ mem \subseteq {"program", "cwd"}
      BY <1>5 DEF AllocArgv, Before, Inv, SiteInv
    <2>2. CASE mem' = mem \cup {"argv"} /\ Goto("copy") /\ UNCHANGED <<files, fds>>
      BY <2>1, <2>2 DEF SiteInv, Goto, Blocks
    <2>3. CASE mem' = mem \ {"program", "cwd"} /\ DropTemps
      BY <2>1, <2>3 DEF SiteInv, DropTemps, ReturnErr, Blocks
    <2> QED BY <1>5, <2>2, <2>3 DEF AllocArgv
  <1>6. CASE CopyArg
    <2>1. /\ index \in 0..Args /\ copies \subseteq 1..index
          /\ fds = Channels /\ files = Channels /\ mem \subseteq Blocks
      BY <1>6 DEF CopyArg, Inv, SiteInv
    <2>2. CASE index < Args /\ index' = index + 1 /\ copies' = copies \cup {index + 1}
                /\ Goto("copy")
      BY <1>6, <2>1, <2>2 DEF SiteInv, CopyArg, Goto
    <2>3. CASE UNCHANGED <<copies, index>> /\ Goto("uncopy")
      BY <1>6, <2>1, <2>3 DEF SiteInv, CopyArg, Goto
    <2>4. CASE UNCHANGED <<copies, index>> /\ Goto("setup_out") /\ index = Args
      BY <1>6, <2>1, <2>4 DEF SiteInv, CopyArg, Goto
    <2> QED BY <1>6, <2>2, <2>3, <2>4 DEF CopyArg
  <1>7. CASE DropCopies
    BY <1>7 DEF Inv, SiteInv, DropCopies, DropTemps, ReturnErr, Blocks
  <1>8. CASE Prepare
    BY <1>8 DEF Inv, SiteInv, Prepare, SetupFd, Goto, Storage, Pipe
  <1>9. CASE PrepareFails
    BY <1>9 DEF Inv, SiteInv, PrepareFails, Undo, DropTemps, ReturnErr, Blocks
  <1> QED BY <1>1, <1>2, <1>3, <1>4, <1>5, <1>6, <1>7, <1>8, <1>9

LEMMA BeforeInv ==
  ASSUME Inv, Run \/ CopyProgram \/ CopyCwd \/ Validate \/ OpenTemps
              \/ CheckTemps \/ AllocArgv \/ CopyArg \/ DropCopies
              \/ Prepare \/ PrepareFails
  PROVE  Inv'
  <1>1. pc' \in (Early \ Setups) \cup {"setup_out"} => failed' = {}
    BY DEF Inv, CauseInv, Run, CopyProgram, CopyCwd, Validate, OpenTemps,
           OpenTemp, CheckTemps, AllocArgv, CopyArg, DropCopies, Prepare,
           SetupFd, PrepareFails, Undo, DropTemps, Goto, ReturnErr, Early,
           Strings, Copying, Setups
  <1>2. CauseInv'
    BY <1>1, EarlyFacts
    DEF Inv, CauseInv, OkIsNatural, Waits, Reads, Early, Strings, Copying,
        Setups
  <1>3. FaultInv'
    <2>1. CASE Run
      BY <2>1, EarlyFacts
      DEF Inv, FaultInv, Run, AbortNeedsTwoFaults, Early, Strings
    <2>2. CASE ~Run
      BY <2>2, EarlyFacts
      DEF Inv, FaultInv, AbortNeedsTwoFaults, Early, Strings, Copying, Setups
    <2> QED BY <2>1, <2>2
  <1> QED BY <1>2, <1>3, EarlySite DEF Inv

LEMMA ForkInv ==
  ASSUME Inv, ForkChild
  PROVE  Inv'
  <1>1. /\ pc = "fork" /\ failed = {} /\ Works /\ Fork(Channels) /\ pid' = TRUE
        /\ fds' = fds \ (Channels \cup {"error_w"}) /\ Goto("handshake")
        /\ UNCHANGED <<mem, copies, index, files, failed, attempt>>
    BY DEF ForkChild, Storage
  <1>2. SiteInv'
    BY <1>1
    DEF Inv, SiteInv, Goto, Channels, Pipe, Waits, Reads, Early, Strings,
        Copying, Setups
  <1>3. CauseInv'
    BY <1>1
    DEF Inv, CauseInv, Goto, Fork, Waits, Reads, Early, Strings, Copying,
        Setups, OkIsNatural
  <1>4. FaultInv'
    BY <1>1
    DEF Inv, FaultInv, Goto, Works, AbortNeedsTwoFaults, Early, Strings,
        Copying, Setups
  <1> QED BY <1>2, <1>3, <1>4 DEF Inv

LEMMA HandshakeInv ==
  ASSUME Inv, Handshake
  PROVE  Inv'
  <1>1. /\ pc = "handshake" /\ pc' \in {"reap", "probe"}
        /\ fds' = fds \ {"error_r"} /\ UNCHANGED <<result, since>>
        /\ UNCHANGED <<osVars, pid, mem, copies, files, text, exited, attempt>>
        /\ \/ pc' = "reap" /\ report = "exec" /\ failed' = failed
           \/ pc' = "probe" /\ failed' = {"start"}
        /\ Works \/ Fails(1)
    BY DEF Handshake, Goto, Storage
  <1> USE DEF Early, Strings, Copying, Setups
  <1>2. SiteInv'
    BY <1>1 DEF Inv, SiteInv, Waits, Reads, osVars
  <1>3. CauseInv'
    BY <1>1 DEF Inv, CauseInv, Waits, Reads, osVars, OkIsNatural
  <1>4. FaultInv'
    BY <1>1, RunAssumption DEF Inv, FaultInv, Works, Fails, AbortNeedsTwoFaults
  <1> QED BY <1>2, <1>3, <1>4 DEF Inv

(***************************************************************************)
(* Waiting for the child                                                   *)
(***************************************************************************)

LEMMA ReapFacts ==
  ASSUME Inv, pid, NEW err \in BOOLEAN, ReapPid(err)
  PROVE  /\ killed' = killed /\ report' = report
         /\ faults' \in Nat /\ faults' >= faults
         /\ ~err => child' = "reaped"
         /\ ~pid' => child' \in Gone
         /\ pid' => err /\ faults' = faults + 1
         /\ report' = "exec" => child' \notin {"forked", "grouped"}
  <1>1. faults \in Nat /\ (report = "exec" => child \notin {"forked", "grouped"})
    BY DEF Inv, FaultInv, CauseInv
  <1>2. CASE Reap /\ Works /\ ~err /\ pid' = FALSE
    BY <1>1, <1>2 DEF Reap, Works, Gone
  <1>3. CASE child \in Gone /\ Works /\ err /\ pid' = FALSE /\ UNCHANGED osVars
    BY <1>1, <1>3 DEF osVars, Works, Gone
  <1>4. CASE Fails(1) /\ err /\ pid' = pid /\ UNCHANGED osVars
    BY <1>1, <1>4 DEF osVars, Fails
  <1> QED BY <1>2, <1>3, <1>4 DEF ReapPid

LEMMA ProbeFacts ==
  ASSUME Inv, pid, NEW err \in BOOLEAN, Probe(err)
  PROVE  /\ killed' = killed /\ report' = report
         /\ faults' \in Nat /\ faults' >= faults
         /\ ~err => pid'
         /\ ~pid' => child' \in Gone
         /\ pid' /\ err => faults' = faults + 1
         /\ report' = "exec" => child' \notin {"forked", "grouped"}
  <1>1. faults \in Nat /\ (report = "exec" => child \notin {"forked", "grouped"})
    BY DEF Inv, FaultInv, CauseInv
  <1>2. child' = child /\ killed' = killed /\ report' = report
    BY DEF Probe, osVars
  <1>3. CASE Works /\ ~err /\ pid' = pid
    BY <1>1, <1>2, <1>3 DEF Works
  <1>4. CASE child \in Gone /\ Works /\ err /\ pid' = FALSE
    BY <1>1, <1>2, <1>4 DEF Works
  <1>5. CASE Fails(1) /\ err /\ pid' = pid
    BY <1>1, <1>2, <1>5 DEF Fails
  <1> QED BY <1>3, <1>4, <1>5 DEF Probe

\* The end of nq_process_legacy_wait.
LEMMA WaitedInv ==
  ASSUME Inv, pc \in Waits, Waited,
         faults' \in Nat, faults' >= faults, attempt' \in Nat,
         pid' => faults' >= since + 2,
         ~pid' => child' \in Gone,
         failed' = {} /\ ~pid' =>
           child' = "reaped" /\ report' = "exec" /\ ~killed',
         report' = "exec" => child' \notin {"forked", "grouped"}
  PROVE  Inv'
  <1>1. /\ mem \subseteq Blocks /\ fds = {} /\ files = Channels
        /\ copies \subseteq 1..Args /\ result # "ok"
    BY DEF Inv, SiteInv, CauseInv, Waits
  <1>2. /\ pc' \in {"idle", "aborted", "read_out"} /\ fds' = {} /\ copies' = {}
        /\ since' = since
        /\ pc' # "read_out" => mem' = {} /\ files' = {} /\ result' # "ok"
        /\ pc' = "idle" => ~pid'
        /\ pc' = "aborted" => pid'
        /\ pc' = "read_out" =>
             /\ ~pid' /\ failed' = {} /\ files' = Channels
             /\ mem' \subseteq {"program", "cwd"} /\ result' # "ok"
    BY <1>1 DEF Waited, ReturnErr, Goto, Blocks
  <1>3. SiteInv'
    BY <1>2
    DEF SiteInv, Waits, Reads, Blocks, Early, Strings, Copying, Setups
  <1>4. CauseInv'
    BY <1>2
    DEF CauseInv, Waits, Reads, OkIsNatural, Early, Strings, Copying, Setups
  <1>5. FaultInv'
    <2>1. faults \in Nat /\ since \in Nat /\ since <= faults
      BY DEF Inv, FaultInv
    <2>2. pc' = "aborted" => faults' >= since' + 2
      BY <1>2
    <2>3. since' <= faults' /\ since' \in Nat
      BY <1>2, <2>1
    <2> QED BY <1>2, <2>2, <2>3
            DEF FaultInv, AbortNeedsTwoFaults, Early, Strings, Copying, Setups
  <1> QED BY <1>3, <1>4, <1>5 DEF Inv

\* A step from one system call of nq_process_legacy_wait to the next.
LEMMA StayInv ==
  ASSUME Inv, pc \in Waits, Kept, NEW l \in Waits \ {"reap"}, Goto(l),
         pid', failed' # {}, attempt' \in Nat,
         faults' \in Nat, faults' >= faults,
         l \in {"probe", "kill", "reap_killed"} =>
           attempt' \in 0..1 /\ faults' >= since + attempt',
         l \notin {"probe", "kill", "reap_killed"} => faults' >= since + 2,
         report' = "exec" => child' \notin {"forked", "grouped"}
  PROVE  Inv'
  <1> USE DEF Early, Strings, Copying, Setups
  <1>1. pc' = l /\ UNCHANGED <<mem, copies, files, fds, result, since>>
    BY DEF Goto, Kept, Storage
  <1>2. SiteInv'
    BY <1>1 DEF Inv, SiteInv, Waits, Reads
  <1>3. CauseInv'
    BY <1>1 DEF Inv, CauseInv, Waits, Reads, OkIsNatural
  <1>4. FaultInv'
    <2>1. faults \in Nat /\ since \in Nat /\ since <= faults
      BY DEF Inv, FaultInv
    <2>2. since' <= faults' /\ since' \in Nat
      BY <1>1, <2>1
    <2>3. CASE l \in {"probe", "kill", "reap_killed"}
      BY <1>1, <2>2, <2>3 DEF FaultInv, AbortNeedsTwoFaults
    <2>4. CASE l \notin {"probe", "kill", "reap_killed"}
      BY <1>1, <2>2, <2>4 DEF FaultInv, Waits, AbortNeedsTwoFaults
    <2> QED BY <2>3, <2>4
  <1> QED BY <1>2, <1>3, <1>4 DEF Inv

LEMMA FirstReapInv ==
  ASSUME Inv, FirstReap
  PROVE  Inv'
  <1>1. PICK err \in BOOLEAN :
          /\ ReapPid(err) /\ Wrong(err)
          /\ IF pid' THEN Goto("probe") /\ Kept ELSE Waited
    BY DEF FirstReap
  <1>2. /\ pc = "reap" /\ pid /\ failed = {} /\ attempt = 0 /\ attempt' = 0
        /\ ~killed /\ report = "exec"
    BY DEF FirstReap, Inv, SiteInv, CauseInv, FaultInv, Waits
  <1>3. err <=> failed' # {}
    BY <1>1, <1>2 DEF Wrong
  <1>4. CASE pid'
    BY <1>1, <1>2, <1>3, <1>4, ReapFacts, StayInv DEF Waits, Inv, FaultInv
  <1>5. CASE ~pid'
    BY <1>1, <1>2, <1>3, <1>5, ReapFacts, WaitedInv DEF Waits
  <1> QED BY <1>4, <1>5

\* The turn of the loop ends with a failure or with the child collected.
LEMMA NextAttemptInv ==
  ASSUME Inv, pc \in {"probe", "kill", "reap_killed"}, NextAttempt,
         failed' # {}, faults' \in Nat, faults' >= faults,
         pid' => faults' = faults + 1,
         ~pid' => child' \in Gone,
         report' = "exec" => child' \notin {"forked", "grouped"}
  PROVE  Inv'
  <1>1. /\ attempt \in 0..1 /\ attempt' = attempt + 1 /\ faults \in Nat
        /\ since \in Nat /\ faults >= since + attempt
    BY DEF NextAttempt, Inv, FaultInv
  <1>2. CASE ~pid'
    BY <1>1, <1>2, WaitedInv DEF NextAttempt, Waits
  <1>3. CASE pid' /\ attempt = 0
    <2>1. Goto("probe") /\ Kept
      BY <1>3 DEF NextAttempt
    <2> QED BY <1>1, <1>3, <2>1, StayInv DEF Waits
  <1>4. CASE pid' /\ attempt = 1
    <2>1. Goto("last_probe") /\ Kept
      BY <1>4 DEF NextAttempt
    <2> QED BY <1>1, <1>4, <2>1, StayInv DEF Waits
  <1> QED BY <1>1, <1>2, <1>3, <1>4

LEMMA LoopInv ==
  ASSUME Inv, ProbeChild \/ KillChild \/ ReapKilled
  PROVE  Inv'
  <1>1. /\ pc \in {"probe", "kill", "reap_killed"} /\ pid /\ failed # {}
        /\ attempt \in 0..1 /\ faults \in Nat /\ since \in Nat
        /\ faults >= since + attempt
    BY DEF ProbeChild, KillChild, ReapKilled, Inv, SiteInv, CauseInv,
           FaultInv, Waits
  <1>2. CASE ProbeChild
    <2>1. PICK err \in BOOLEAN :
            /\ Probe(err) /\ Wrong(err)
            /\ IF err THEN NextAttempt
               ELSE /\ Goto(IF exited' THEN "reap_killed" ELSE "kill")
                    /\ Kept /\ UNCHANGED attempt
      BY <1>2 DEF ProbeChild
    <2>2. failed' # {}
      BY <1>1, <2>1 DEF Wrong
    <2>3. CASE err
      BY <1>1, <2>1, <2>2, <2>3, ProbeFacts, NextAttemptInv
    <2>4. CASE ~err
      <3>1. PICK l \in {"reap_killed", "kill"} : Goto(l) /\ Kept
        BY <2>1, <2>4
      <3> QED BY <1>1, <2>1, <2>2, <2>4, <3>1, ProbeFacts, StayInv DEF Waits
    <2> QED BY <2>3, <2>4
  <1>3. CASE KillChild
    <2>1. CASE KillPid /\ Works /\ Goto("reap_killed") /\ Kept
                 /\ UNCHANGED <<failed, attempt>>
      <3>1. report' = "exec" => child' \notin {"forked", "grouped"}
        BY <2>1 DEF KillPid, Inv, CauseInv
      <3>2. faults' = faults /\ pid' /\ failed' # {} /\ attempt' = attempt
        BY <1>1, <1>3, <2>1 DEF KillChild, Works
      <3> QED BY <1>1, <2>1, <3>1, <3>2, StayInv DEF Waits
    <2>2. CASE /\ Fails(1) /\ UNCHANGED osVars
               /\ failed' = failed \cup {"wait"} /\ NextAttempt
      <3>1. report' = "exec" => child' \notin {"forked", "grouped"}
        BY <2>2 DEF osVars, Inv, CauseInv
      <3>2. faults' = faults + 1 /\ pid' /\ failed' # {}
        BY <1>1, <1>3, <2>2 DEF KillChild, Fails
      <3> QED BY <1>1, <2>2, <3>1, <3>2, NextAttemptInv
    <2> QED BY <1>3, <2>1, <2>2 DEF KillChild
  <1>4. CASE ReapKilled
    <2>1. PICK err \in BOOLEAN : ReapPid(err) /\ Wrong(err) /\ NextAttempt
      BY <1>4 DEF ReapKilled
    <2>2. failed' # {}
      BY <1>1, <2>1 DEF Wrong
    <2> QED BY <1>1, <2>1, <2>2, ReapFacts, NextAttemptInv
  <1> QED BY <1>2, <1>3, <1>4

LEMMA LastInv ==
  ASSUME Inv, LastProbe \/ LastReap \/ EndProbe
  PROVE  Inv'
  <1> DEFINE Last == {"last_probe", "again_probe", "last_reap", "again_reap",
                      "end_probe"}
  <1>1. /\ pc \in Last /\ pid /\ failed # {} /\ failed' = failed
        /\ attempt \in Nat /\ attempt' = attempt /\ faults \in Nat
        /\ since \in Nat /\ faults >= since + 2
    BY DEF LastProbe, LastReap, EndProbe, Inv, SiteInv, CauseInv, FaultInv,
           Waits
  <1>2. /\ faults' \in Nat /\ faults' >= faults
        /\ ~pid' => child' \in Gone
        /\ report' = "exec" => child' \notin {"forked", "grouped"}
    BY <1>1, ProbeFacts, ReapFacts DEF LastProbe, LastReap, EndProbe
  <1>3. CASE Waited
    BY <1>1, <1>2, <1>3, WaitedInv DEF Waits
  <1>4. ASSUME NEW l \in Last, Goto(l), Kept, pid' PROVE Inv'
    BY <1>1, <1>2, <1>4, StayInv DEF Waits
  <1> QED BY <1>3, <1>4 DEF LastProbe, LastReap, EndProbe

LEMMA ReturnInv ==
  ASSUME Inv, ReadCaptures \/ ReturnOk
  PROVE  Inv'
  <1>1. /\ pc \in Reads /\ osVars' = osVars /\ fds' = {} /\ ~pid' /\ fds = {}
        /\ failed' = failed /\ attempt' = attempt /\ child = "reaped"
        /\ report = "exec" /\ ~killed /\ result # "ok"
        /\ mem \subseteq {"program", "cwd"} /\ files = Channels
        /\ copies = {} /\ copies' = {}
    BY DEF ReadCaptures, ReturnOk, Inv, SiteInv, CauseInv, Reads
  <1>2. /\ since' = since
        /\ \/ /\ pc' \in {"read_err", "done"} /\ mem' = mem /\ files' = files
              /\ result' = result
           \/ pc' = "idle" /\ mem' = {} /\ files' = {}
    BY <1>1 DEF ReadCaptures, ReadText, ReturnOk, Goto, ReturnErr
  <1>3. SiteInv'
    BY <1>1, <1>2
    DEF SiteInv, Reads, Waits, Blocks, Gone, osVars, Early, Strings, Copying,
        Setups
  <1>4. CauseInv'
    BY <1>1, <1>2
    DEF CauseInv, Reads, Waits, OkIsNatural, osVars, Early, Strings, Copying,
        Setups
  <1>5. FaultInv'
    <2>1. faults' \in Nat /\ faults' >= faults
      BY RunAssumption
      DEF ReadCaptures, ReadText, ReturnOk, Works, Fails, Inv, FaultInv
    <2> QED BY <1>1, <1>2, <2>1
            DEF Inv, FaultInv, AbortNeedsTwoFaults, Early, Strings, Copying,
                Setups, Reads
  <1> QED BY <1>3, <1>4, <1>5 DEF Inv

(***************************************************************************)
(* The captures                                                            *)
(***************************************************************************)

\* Appending one byte counts it for its writer alone.
LEMMA CountAppend ==
  ASSUME NEW w, NEW s \in Seq(Writers), NEW x \in Writers
  PROVE  /\ Count(s, w) \in Nat
         /\ Count(Append(s, x), w) = Count(s, w) + (IF x = w THEN 1 ELSE 0)
  <1> DEFINE A == {i \in DOMAIN s : s[i] = w}
             B == {i \in DOMAIN Append(s, x) : Append(s, x)[i] = w}
  <1>1. IsFiniteSet(A) /\ Cardinality(A) \in Nat
    <2>1. IsFiniteSet(1..Len(s)) /\ A \in SUBSET (1..Len(s))
      BY FS_Interval
    <2> QED BY ONLY <2>1, FS_Subset, FS_CardinalityType
  <1>2. Len(s) + 1 \notin A
    OBVIOUS
  <1>3. CASE x = w
    <2>1. B = A \cup {Len(s) + 1}
      BY <1>3
    <2>2. Cardinality(B) = Cardinality(A) + 1
      BY ONLY <1>1, <1>2, <2>1, FS_AddElement
    <2> QED BY <1>1, <1>3, <2>2 DEF Count
  <1>4. CASE x # w
    <2>1. B = A
      BY <1>4
    <2>2. Cardinality(A) + (IF x = w THEN 1 ELSE 0) = Cardinality(A)
      BY <1>1, <1>4
    <2> QED BY <1>1, <2>1, <2>2 DEF Count
  <1> QED BY <1>3, <1>4

Complete(c) == Count(text[c], "child") = wrote["child"][c]

\* A capture file holds every byte the child has written; what was read from
\* it after the child had been collected still does when the call returns.
BytesInv ==
  /\ pipe \in [Channels -> Seq(Writers)]
  /\ wrote \in [Writers -> [Channels -> Nat]]
  /\ DOMAIN text = Channels
  /\ \A c \in Channels : Count(pipe[c], "child") = wrote["child"][c]
  /\ pc \in {"read_err", "done"} \/ result = "ok" => Complete("out")
  /\ pc = "done" \/ result = "ok" => Complete("err")

\* Nothing was written to an empty file.
LEMMA EmptyCount == Count(<<>>, "child") = 0
  <1>1. {i \in DOMAIN <<>> : <<>>[i] = "child"} = {}
    OBVIOUS
  <1> QED BY <1>1, FS_EmptySet DEF Count

\* Before the first run nothing has been written.
LEMMA InitBytes == Init => BytesInv
  <1> SUFFICES ASSUME Init PROVE BytesInv
    OBVIOUS
  <1>1. /\ pipe = [c \in Channels |-> <<>>] /\ text = [c \in Channels |-> <<>>]
        /\ wrote = [w \in Writers |-> [c \in Channels |-> 0]]
        /\ pc = "idle" /\ result = "none"
    BY DEF Init, OsInit, NoText
  <1> QED BY <1>1, EmptyCount DEF BytesInv, Writers

\* The steps that move no byte end no read either.
LEMMA StillBytes ==
  ASSUME BytesInv, UNCHANGED <<pipe, wrote, text>>, result' # "ok",
         pc' \notin {"read_err", "done"}
  PROVE  BytesInv'
  BY DEF BytesInv

\* No step of the runtime loses a byte: the capture files are read when the
\* child has been collected, and cannot change any more for it.
LEMMA StepBytes ==
  ASSUME Inv, BytesInv, Run \/ Step
  PROVE  BytesInv'
  <1>1. pc # "idle" => result # "ok"
    BY DEF Inv, CauseInv
  <1>2. CASE Run
    <2>1. /\ UNCHANGED <<pipe, wrote>> /\ DOMAIN text' = Channels
          /\ result' # "ok" /\ pc' = "program"
      BY <1>2 DEF Run, osVars, NoText
    <2> QED BY <2>1 DEF BytesInv
  <1>3. CASE \/ CopyProgram \/ CopyCwd \/ Validate \/ OpenTemps \/ CheckTemps
             \/ AllocArgv \/ CopyArg \/ DropCopies \/ Prepare \/ PrepareFails
    <2>1. UNCHANGED <<pipe, wrote, text>>
      BY <1>3
      DEF CopyProgram, CopyCwd, Validate, OpenTemps, CheckTemps, AllocArgv,
          CopyArg, DropCopies, Prepare, PrepareFails, Before, osVars
    <2>2. result' # "ok" /\ pc' \notin {"read_err", "done"}
      BY <1>3, EarlyFacts DEF Early, Strings, Copying, Setups
    <2> QED BY <2>1, <2>2, StillBytes
  <1>8. CASE Handshake
    BY <1>1, <1>8, StillBytes DEF Handshake, Goto, osVars
  <1>4. CASE ForkChild
    <2>1. /\ pipe' = [c \in Channels |-> <<>>]
          /\ wrote' = [w \in Writers |-> [c \in Channels |-> 0]]
          /\ pc' = "handshake" /\ result' = result /\ text' = text
          /\ pc = "fork"
      BY <1>4 DEF Fork, ForkChild, Goto
    <2> QED BY <1>1, <2>1, EmptyCount DEF BytesInv, Writers
  <1>5. CASE FirstReap \/ ProbeChild \/ KillChild \/ ReapKilled \/ LastProbe
             \/ LastReap \/ EndProbe
    <2>1. UNCHANGED <<pipe, wrote>> /\ pc # "idle"
      BY <1>5
      DEF FirstReap, ProbeChild, KillChild, ReapKilled, LastProbe, LastReap,
          EndProbe, ReapPid, Probe, Reap, KillPid, osVars
    <2>2. \/ Waited
          \/ Kept /\ \E l \in Waits : Goto(l)
      BY <1>5
      DEF FirstReap, ProbeChild, KillChild, ReapKilled, LastProbe, LastReap,
          EndProbe, NextAttempt, Waits
    <2>3. /\ text' = text /\ result' # "ok"
          /\ pc' \notin {"read_err", "done"}
      BY <1>1, <2>1, <2>2 DEF Waited, Kept, Goto, ReturnErr, Waits
    <2> QED BY <2>1, <2>3, StillBytes
  <1>6. CASE ReadCaptures
    <2>1. /\ UNCHANGED <<pipe, wrote>> /\ pc \in {"read_out", "read_err"}
          /\ result # "ok"
      BY <1>1, <1>6 DEF ReadCaptures, osVars
    <2>2. CASE /\ pc = "read_out" /\ pc' = "read_err" /\ result' = result
               /\ text' = [text EXCEPT !["out"] = pipe["out"]]
      BY <2>1, <2>2 DEF BytesInv, Complete, Channels
    <2>3. CASE /\ pc = "read_err" /\ pc' = "done" /\ result' = result
               /\ text' = [text EXCEPT !["err"] = pipe["err"]]
      BY <2>1, <2>3 DEF BytesInv, Complete, Channels
    <2>4. CASE text' = NoText /\ ReturnErr
      BY <2>1, <2>4 DEF BytesInv, NoText, ReturnErr
    <2> QED BY <1>6, <2>2, <2>3, <2>4 DEF ReadCaptures, ReadText, Goto
  <1>7. CASE ReturnOk
    BY <1>7 DEF ReturnOk, BytesInv, Complete, osVars
  <1> QED BY <1>2, <1>3, <1>4, <1>5, <1>6, <1>7, <1>8 DEF Step

\* A program that has been collected writes nothing more; a descendant's
\* bytes are not the child's.
LEMMA WorldBytes ==
  ASSUME Inv, BytesInv, World
  PROVE  BytesInv'
  <1>1. UNCHANGED <<text, result, pc>>
    BY DEF World, Others, local
  <1>2. CASE UNCHANGED <<pipe, wrote>>
    BY <1>1, <1>2 DEF BytesInv, Complete
  <1>3. ASSUME NEW w \in Writers, NEW c \in Channels, Write(w, c)
        PROVE  BytesInv'
    <2>1. /\ pipe' = [pipe EXCEPT ![c] = Append(pipe[c], w)]
          /\ wrote' = [wrote EXCEPT ![w][c] = wrote[w][c] + 1]
      BY <1>3 DEF Write
    <2>2. /\ pipe' \in [Channels -> Seq(Writers)]
          /\ wrote' \in [Writers -> [Channels -> Nat]]
      BY <2>1 DEF BytesInv
    <2>3. ASSUME NEW d \in Channels
          PROVE  Count(pipe'[d], "child") = wrote'["child"][d]
      <3>1. Count(pipe[d], "child") = wrote["child"][d] /\ pipe[d] \in Seq(Writers)
        BY DEF BytesInv
      <3>2. CASE d # c
        BY <2>1, <3>1, <3>2 DEF BytesInv, Writers
      <3>3. CASE d = c
        <4>1. pipe'[d] = Append(pipe[d], w)
          BY <2>1, <3>3 DEF BytesInv
        <4>2. wrote'["child"][d] =
                wrote["child"][d] + (IF w = "child" THEN 1 ELSE 0)
          <5>1. wrote["child"][d] \in Nat
            BY DEF BytesInv, Writers
          <5> QED BY <2>1, <3>3, <5>1 DEF BytesInv, Writers
        <4> QED BY <3>1, <4>1, <4>2, CountAppend
      <3> QED BY <3>2, <3>3
    <2>4. pc \in {"read_err", "done"} \/ result = "ok" => w # "child"
      BY <1>3 DEF Inv, CauseInv, OkIsNatural, Reads, Write, CanWrite
    <2>5. w # "child" => wrote'["child"] = wrote["child"]
      BY <2>1 DEF BytesInv, Writers
    <2>6. /\ pc' \in {"read_err", "done"} \/ result' = "ok" => Complete("out")'
          /\ pc' = "done" \/ result' = "ok" => Complete("err")'
      BY <1>1, <2>4, <2>5 DEF BytesInv, Complete
    <2> QED BY <1>1, <2>2, <2>3, <2>6 DEF BytesInv
  <1> QED BY <1>2, <1>3
      DEF World, Setup, ChildRuns, ChildSetupFails, ChildDies, ProgramStep,
          ChildCloses, ChildSpawns, ChildLeavesGroup, DescEscapes, DescRejoins,
          DescExits, ChildExits, ReapedElsewhere

(***************************************************************************)
(* The theorems                                                            *)
(***************************************************************************)

LEMMA NextInv == Inv /\ [Next]_vars => Inv'
  <1> SUFFICES ASSUME Inv, [Next]_vars PROVE Inv'
    OBVIOUS
  <1>1. CASE UNCHANGED vars
    BY <1>1
    DEF vars, local, Inv, SiteInv, CauseInv, FaultInv, OkIsNatural,
        AbortNeedsTwoFaults, Early, Strings, Copying, Setups
  <1>2. CASE Run \/ Step
    BY <1>2, BeforeInv, ForkInv, HandshakeInv, FirstReapInv, LoopInv, LastInv,
       ReturnInv
    DEF Step
  <1>3. CASE World
    BY <1>3, WorldInv
  <1> QED BY <1>1, <1>2, <1>3 DEF Next

LEMMA Invariant == Spec => []Inv
  BY InitInv, NextInv, PTL DEF Spec

\* nq_run_process returns with the child collected and everything it
\* acquired released, whichever and however many of its calls fail.
THEOREM RunClean == Spec => []ReturnsClean
  <1>1. Inv => ReturnsClean
    BY DEF Inv, SiteInv, ReturnsClean
  <1> QED BY <1>1, Invariant, PTL

\* An exit code and captures are never those of a program that was not
\* started or that the runtime killed.
THEOREM ResultNatural == Spec => []OkIsNatural
  <1>1. Inv => OkIsNatural
    BY DEF Inv, CauseInv
  <1> QED BY <1>1, Invariant, PTL

\* One failure never ends the program.
THEOREM AbortFaults == Spec => []AbortNeedsTwoFaults
  <1>1. Inv => AbortNeedsTwoFaults
    BY DEF Inv, FaultInv
  <1> QED BY <1>1, Invariant, PTL

\* A successful call returns every byte the program wrote to its standard
\* output and error, whatever else had the two files open.
THEOREM RunCapture == Spec => []CaptureComplete
  <1>1. Inv /\ BytesInv /\ [Next]_vars => BytesInv'
    <2> SUFFICES ASSUME Inv, BytesInv, [Next]_vars PROVE BytesInv'
      OBVIOUS
    <2>1. CASE UNCHANGED vars
      BY <2>1 DEF vars, local, BytesInv, Complete
    <2> QED BY <2>1, StepBytes, WorldBytes DEF Next
  <1>2. BytesInv => CaptureComplete
    BY DEF BytesInv, Complete, CaptureComplete, Channels
  <1> QED BY <1>1, <1>2, InitBytes, Invariant, PTL DEF Spec

==============================================================================
