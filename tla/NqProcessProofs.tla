--------------------------- MODULE NqProcessProofs ---------------------------
(***************************************************************************)
(* Safety of the process handle, proved for every value of the constants:  *)
(* any number of faults, any limits and chunk sizes, with or without       *)
(* foreign reaping.                                                        *)
(*                                                                         *)
(* The inductive invariant says, for every place a call can be in, which   *)
(* call it is (ControlInv), whether it holds the pid anchor (AnchorInv),   *)
(* what the anchor implies about the child (OwnInv), and where the group   *)
(* has received its terminal signal (TerminalInv).                         *)
(***************************************************************************)
EXTENDS NqProcess, FiniteSetTheorems, TLAPS

StartCall == fr.op = "start" /\ handle = "none"
PumpCall  == fr.op \in {"wait", "terminate"} /\ handle = "live"
OtherCall == fr.op # "start" /\ handle = "live"

ControlInv ==
  /\ pc \in SetupSites => StartCall
  /\ pc \in PumpSites => PumpCall
  /\ pc \in SignalSites /\ fr.caller = "pump" => PumpCall
  /\ pc \in SignalSites \cup CleanupSites => StartCall \/ OtherCall
  /\ pc = "reap" => fr.caller # "pump"
  /\ pc \notin SetupSites => setup = {}

Anchored == KillSites \cup (PumpSites \ {"pump_ok"})
              \cup {"setpgid", "handshake", "so_probe", "st_probe", "reap",
                    "final_probe"}

AnchorInv ==
  /\ pc \in Anchored => st.pid
  /\ pc \in {"fork", "pump_ok", "close"} => ~st.pid
  /\ pc = "pump_ok" => st.ready
  /\ st.ready => ~st.pid /\ handle = "live"
  /\ pc \in SignalSites \cup CleanupSites /\ fr.op = "terminate" => ~st.ready
  /\ pc = "idle" /\ handle = "live" => st.pid \/ st.ready
  /\ pc = "idle" /\ handle # "live" => st = Blank

OwnInv ==
  /\ st.pid => child \in Unreaped \cup {"lost"}
  /\ ~st.pid => child \in Gone
  /\ child = "lost" => ForeignReap

Exited == {"zombie", "reaped", "lost"}

TerminalInv ==
  /\ pc = "st_kill" \/ (pc = "so_group" /\ fr.exited) => child \in Exited
  /\ pc = "so_direct" => ~fr.exited
  /\ st.terminal_signalled => child \in Exited /\ desc # "group"
  /\ pc \in {"reap", "snap_out", "snap_err", "finish"} => st.terminal_signalled
  /\ (pc # "idle" /\ fr.draining) \/ st.ready => st.terminal_signalled
  /\ pc = "finish_check" /\ fr.exited => st.terminal_signalled
  /\ pc \in SetupSites => ~st.terminal_signalled
  /\ child = "reaped" => desc # "group"

IInv == TypeOK /\ ControlInv /\ AnchorInv /\ OwnInv /\ TerminalInv

\* The steps of the runtime that change nothing outside it.
LEMMA OsQuiet ==
  ASSUME StartRejected \/ Start \/ StartHandshake \/ StartRelease \/ Wait \/
         Terminate \/ Drop \/ ConsumeInert \/ SignalOwnedProbe \/
         SignalTerminalProbe \/ PumpProbe \/ PumpClock \/ PumpMark \/
         PumpCheck \/ PumpSnapshotOut \/ PumpSnapshotErr \/ PumpFinishCheck \/
         PumpPoll \/ PumpWrite \/ PumpOk \/ Cleanup \/ CleanupRetry \/
         CleanupFinalProbe \/ CleanupLastProbe \/ CleanupClose \/
         DeadlineReached \/ Finished
  PROVE  UNCHANGED osVars
  BY DEF StartRejected, Start, StartHandshake, StartRelease, Wait, Terminate,
    Drop, ConsumeInert, SignalOwnedProbe, SignalTerminalProbe, PumpProbe,
    PumpClock, PumpMark, PumpCheck, PumpSnapshotOut, PumpSnapshotErr,
    PumpFinishCheck, PumpPoll, PumpWrite, PumpOk, Cleanup, CleanupRetry,
    CleanupFinalProbe, CleanupLastProbe, CleanupClose, DeadlineReached,
    Finished, Probed, vars, osVars

\* The operating system's state keeps its type.
LEMMA OsTypeStep ==
  ASSUME TypeOK, Next
  PROVE  OsTypeOK'
<1>1. CASE StartRejected \/ Start \/ StartHandshake \/ StartRelease \/ Wait \/
      Terminate \/ Drop \/ ConsumeInert \/ SignalOwnedProbe \/
      SignalTerminalProbe \/ PumpProbe \/ PumpClock \/ PumpMark \/ PumpCheck
      \/ PumpSnapshotOut \/ PumpSnapshotErr \/ PumpFinishCheck \/ PumpPoll \/
      PumpWrite \/ PumpOk \/ Cleanup \/ CleanupRetry \/ CleanupFinalProbe \/
      CleanupLastProbe \/ CleanupClose \/ DeadlineReached \/ Finished
  BY <1>1, OsQuiet DEF TypeOK, OsTypeOK, osVars
<1>2. CASE StartFork
  <2>1. setup \ {"exec"} \in SUBSET Ends
    BY DEF TypeOK
  <2>2. CASE Fork(setup \ {"exec"})
    <3>1. /\ child' \in Unreaped /\ ingroup' \in BOOLEAN /\ killed' \in BOOLEAN
          /\ desc' \in {"none", "group", "escaped", "dead"}
          /\ report' \in {"pending", "exec", "error"}
      BY <2>2 DEF Fork, Unreaped, Alive
    <3>2. held' \in [Writers -> SUBSET Ends]
      BY <2>1, <2>2 DEF Fork
    <3>3. pipe' \in [Channels -> Seq(Writers)]
      BY <2>2 DEF Fork
    <3>4. wrote' \in [Writers -> [Channels -> Nat]]
      BY <2>2 DEF Fork
    <3>. QED BY <3>1, <3>2, <3>3, <3>4 DEF OsTypeOK
  <2>3. CASE UNCHANGED osVars
    BY <2>3 DEF TypeOK, OsTypeOK, osVars
  <2>. QED BY <1>2, <2>2, <2>3 DEF StartFork
<1>3. CASE StartSetpgid
  BY <1>3 DEF StartSetpgid, ParentSetpgid, TypeOK, OsTypeOK, osVars, Channels,
    Ends, Writers, Alive, Unreaped, Gone
<1>4. CASE SignalOwnedDirect
  BY <1>4 DEF SignalOwnedDirect, Killed, KillPid, KillGroup, Raise, TypeOK,
    OsTypeOK, osVars, Channels, Ends, Writers, Alive, Unreaped, Gone
<1>5. CASE SignalOwnedGroup
  BY <1>5 DEF SignalOwnedGroup, Killed, KillPid, KillGroup, Raise, OwnedDone,
    TypeOK, OsTypeOK, osVars, Channels, Ends, Writers, Alive, Unreaped, Gone
<1>6. CASE SignalOwnedLate
  BY <1>6 DEF SignalOwnedLate, Killed, KillPid, KillGroup, Raise, OwnedDone,
    TypeOK, OsTypeOK, osVars, Channels, Ends, Writers, Alive, Unreaped, Gone
<1>7. CASE SignalTerminalKill
  BY <1>7 DEF SignalTerminalKill, Killed, KillPid, KillGroup, Raise,
    TerminalDone, TypeOK, OsTypeOK, osVars, Channels, Ends, Writers, Alive,
    Unreaped, Gone
<1>8. CASE PumpFinish \/ CleanupReap
  <2>1. Reap \/ UNCHANGED osVars
    BY <1>8 DEF PumpFinish, CleanupReap, Reaped
  <2>. QED BY <2>1 DEF Reap, TypeOK, OsTypeOK, osVars, Gone
<1>9. ASSUME NEW c \in Channels, PumpRead(c) PROVE  OsTypeOK'
  <2>1. CASE UNCHANGED osVars
    BY <2>1 DEF TypeOK, OsTypeOK, osVars
  <2>2. CASE \E n \in Nat : Consume(c, n)
    <3>1. PICK n \in Nat : Consume(c, n)
      BY <2>2
    <3>2. pipe[c] \in Seq(Writers)
      BY DEF TypeOK, OsTypeOK
    <3>3. SubSeq(pipe[c], n + 1, Len(pipe[c])) \in Seq(Writers)
      BY <3>2
    <3>4. pipe' \in [Channels -> Seq(Writers)]
      BY <3>1, <3>3 DEF Consume, TypeOK, OsTypeOK
    <3>. QED BY <3>1, <3>4 DEF Consume, TypeOK, OsTypeOK
  <2>3. CASE ReadBytes(c)
    <3>1. Len(pipe[c]) \in Nat
      BY DEF TypeOK, OsTypeOK
    <3>2. \E n \in Nat : Consume(c, n)
      BY <2>3, <3>1, ChunkAssumption DEF ReadBytes, Least, TypeOK, Frames
    <3>. QED BY <3>2, <2>2
  <2>. QED BY <1>9, <2>1, <2>3 DEF PumpRead, ReadOutput, ReadFails, ReadNothing
<1>10. CASE (ChildSetpgid \/ ChildExec \/ ChildSetupFails \/ ChildLeavesGroup
      \/ DescEscapes \/ DescRejoins \/ ReapedElsewhere) /\ UNCHANGED
      runtimeVars
  BY <1>10 DEF ChildSetpgid, ChildExec, ChildSetupFails, ChildLeavesGroup,
    DescEscapes, DescRejoins, ReapedElsewhere, runtimeVars, TypeOK, OsTypeOK,
    osVars, Channels, Ends, Writers, Alive, Unreaped, Gone
<1>11. CASE (ChildCloses \/ ChildSpawns) /\ UNCHANGED runtimeVars
  BY <1>11 DEF ChildCloses, ChildSpawns, runtimeVars, TypeOK, OsTypeOK,
    osVars, Channels, Ends, Writers, Alive, Unreaped, Gone
<1>12. CASE (DescExits \/ ChildExits \/ ChildDies) /\ UNCHANGED runtimeVars
  BY <1>12 DEF DescExits, ChildExits, ChildDies, runtimeVars, TypeOK,
    OsTypeOK, osVars, Channels, Ends, Writers, Alive, Unreaped, Gone
<1>13. ASSUME NEW w \in Writers, NEW c \in Channels, Write(w, c),
             UNCHANGED runtimeVars
      PROVE  OsTypeOK'
  BY <1>13 DEF Write, runtimeVars, TypeOK, OsTypeOK, osVars, Channels, Ends,
    Writers, Alive, Unreaped, Gone
<1>. QED BY <1>1, <1>2, <1>3, <1>4, <1>5, <1>6, <1>7, <1>8, <1>9, <1>10,
    <1>11, <1>12, <1>13 DEF Next, Runtime, Caller, Environment, ChildSetup,
    ProgramStep, Channels

\* NQProcessState keeps its type.
LEMMA StTypeStep ==
  ASSUME TypeOK, Next
  PROVE  st' \in States
<1>1. CASE StartRejected \/ StartRelease \/ Wait \/ Terminate \/ Drop \/
      ConsumeInert \/ SignalOwnedDirect \/ PumpClock \/ PumpCheck \/
      PumpSnapshotOut \/ PumpPoll \/ PumpOk \/ Cleanup \/ CleanupRetry \/
      DeadlineReached \/ Finished
  BY <1>1 DEF StartRejected, StartRelease, Wait, Terminate, Drop,
    ConsumeInert, SignalOwnedDirect, PumpClock, PumpCheck, PumpSnapshotOut,
    PumpPoll, PumpOk, Cleanup, CleanupRetry, DeadlineReached, Finished, vars,
    TypeOK
<1>2. CASE Start
  <2>1. PICK input \in {"none", "empty", "data"}, capture \in BOOLEAN :
          \E limit \in IF capture THEN Limits ELSE {0} :
            st' = [Blank EXCEPT
                     !.limit = limit,
                     !.unsent = IF input = "data" THEN InputLen ELSE 0]
    BY <1>2 DEF Start
  <2>2. PICK limit \in IF capture THEN Limits ELSE {0} :
            st' = [Blank EXCEPT
                     !.limit = limit,
                     !.unsent = IF input = "data" THEN InputLen ELSE 0]
    BY <2>1
  <2>3. limit \in Nat
    BY LimitsAssumption
  <2>4. (IF input = "data" THEN InputLen ELSE 0) \in Nat
    BY InputLenAssumption
  <2>5. ASSUME NEW l \in Nat, NEW u \in Nat
        PROVE  [Blank EXCEPT !.limit = l, !.unsent = u] \in States
    <3>1. Blank \in States
      BY DEF Blank, States
    <3>2. ASSUME NEW s \in States
          PROVE  [s EXCEPT !.limit = l, !.unsent = u] \in States
      BY DEF States
    <3>. QED BY <3>1, <3>2
  <2>. QED BY <2>2, <2>3, <2>4, <2>5
<1>3. CASE StartFork \/ StartSetpgid
  BY <1>3 DEF StartFork, StartSetpgid, Fork, ParentSetpgid, Ends, TypeOK,
    States
<1>4. CASE StartHandshake
  BY <1>4 DEF StartHandshake, ExecEof, Ends, TypeOK, States
<1>5. CASE SignalOwnedProbe
  BY <1>5 DEF SignalOwnedProbe, Probed, Raise, Ends, TypeOK, States
<1>6. CASE SignalOwnedGroup
  BY <1>6 DEF SignalOwnedGroup, Killed, KillPid, KillGroup, Raise, OwnedDone,
    Ends, TypeOK, States
<1>7. CASE SignalOwnedLate
  BY <1>7 DEF SignalOwnedLate, Killed, KillPid, KillGroup, Raise, OwnedDone,
    Ends, TypeOK, States
<1>8. CASE SignalTerminalProbe
  BY <1>8 DEF SignalTerminalProbe, Probed, Raise, TerminalDone, Ends, TypeOK,
    States
<1>9. CASE SignalTerminalKill
  BY <1>9 DEF SignalTerminalKill, Killed, KillPid, KillGroup, Raise,
    TerminalDone, Ends, TypeOK, States
<1>10. CASE PumpProbe
  BY <1>10 DEF PumpProbe, Probed, PumpFails, Ends, TypeOK, States
<1>11. CASE PumpMark
  BY <1>11 DEF PumpMark, Cancel, Ends, Frames, TypeOK, States
<1>12. CASE PumpSnapshotErr
  <2>1. \/ st' = st
        \/ \E gone \in SUBSET Channels : st' = [st EXCEPT !.fds = @ \ gone]
    BY <1>12 DEF PumpSnapshotErr, Channels
  <2>. QED BY <2>1 DEF TypeOK, States
<1>13. CASE PumpFinishCheck
  BY <1>13 DEF PumpFinishCheck, Ends, TypeOK, States
<1>14. CASE PumpWrite
  <2>1. \/ st' = st
        \/ st' = [st EXCEPT !.fds = @ \ {"in"}]
        \/ \E count \in 0..Least(Chunk, st.unsent) :
             st' = [st EXCEPT !.unsent = @ - count]
    BY <1>14 DEF PumpWrite, WriteInput
  <2>2. ASSUME NEW count \in 0..Least(Chunk, st.unsent)
        PROVE  st.unsent - count \in Nat
    BY ChunkAssumption DEF TypeOK, States, Least
  <2>. QED BY <2>1, <2>2 DEF TypeOK, States
<1>15. CASE PumpFinish
  <2>1. PICK pid \in BOOLEAN :
          \/ st' = [st EXCEPT !.pid = pid]
          \/ st' = [st EXCEPT !.pid = pid, !.ready = TRUE,
                              !.fds = @ \ {"in"}, !.unsent = 0]
    BY <1>15 DEF PumpFinish
  <2>2. [st EXCEPT !.pid = pid] \in States
    BY DEF TypeOK, States
  <2>3. [st EXCEPT !.pid = pid, !.ready = TRUE, !.fds = @ \ {"in"},
                   !.unsent = 0] \in States
    BY DEF TypeOK, States
  <2>. QED BY <2>1, <2>2, <2>3
<1>16. ASSUME NEW c \in Channels, PumpRead(c) PROVE  st' \in States
  <2>1. CASE ReadBytes(c)
    <3> DEFINE amount == IF fr.draining THEN Least(Chunk, fr.remaining[c])
                                        ELSE Chunk
               count  == Least(amount, Len(pipe[c]))
    <3>1. pipe[c] \in Seq(Writers) /\ st.buffer[c] \in Seq(Writers)
      BY DEF TypeOK, OsTypeOK, States
    <3>2. amount \in Nat
      BY ChunkAssumption DEF TypeOK, Frames, Least
    <3>3. count \in 0..Len(pipe[c])
      BY <3>1, <3>2 DEF Least
    <3>4. SubSeq(pipe[c], 1, count) \in Seq(Writers)
      <4>1. \A i \in 1..count : i \in 1..Len(pipe[c])
        BY <3>1, <3>3
      <4>. QED BY <3>1, <3>3, <4>1
    <3>5. st.buffer[c] \o SubSeq(pipe[c], 1, count) \in Seq(Writers)
      BY <3>1, <3>4
    <3>6. \/ st' = st
          \/ \E gone \in SUBSET Channels :
               st' = [st EXCEPT
                        !.buffer[c] = @ \o SubSeq(pipe[c], 1, count),
                        !.fds = @ \ gone]
      <4>1. \/ st' = st
            \/ st' = [st EXCEPT
                        !.buffer[c] = @ \o SubSeq(pipe[c], 1, count),
                        !.fds = IF fr.draining /\ fr.remaining[c] - count = 0
                                THEN @ \ {c} ELSE @]
        BY <2>1 DEF ReadBytes
      <4>2. st.fds \ {} = st.fds
        OBVIOUS
      <4>. QED BY <4>1, <4>2
    <3> HIDE DEF count, amount
    <3>7. ASSUME NEW s \in States, NEW b \in Seq(Writers), NEW f \in SUBSET Ends
          PROVE  [s EXCEPT !.buffer[c] = b, !.fds = f] \in States
      BY DEF States
    <3>8. \A gone \in SUBSET Channels : st.fds \ gone \in SUBSET Ends
      BY DEF TypeOK, States
    <3>9. CASE st' = st
      BY <3>9 DEF TypeOK
    <3>10. ASSUME NEW gone \in SUBSET Channels,
                  st' = [st EXCEPT
                           !.buffer[c] = @ \o SubSeq(pipe[c], 1, count),
                           !.fds = @ \ gone]
           PROVE  st' \in States
      <4>1. st \in States /\ st.fds \ gone \in SUBSET Ends
        BY <3>8 DEF TypeOK
      <4>. QED BY <3>5, <3>7, <3>10, <4>1
    <3>. QED BY <3>6, <3>9, <3>10
  <2>2. CASE ~ReadBytes(c)
    <3>1. \/ st' = st
          \/ st' = [st EXCEPT !.fds = IF Eof(c) THEN @ \ {c} ELSE @]
      BY <1>16, <2>2 DEF PumpRead, ReadOutput, ReadFails, ReadNothing
    <3>. QED BY <3>1 DEF TypeOK, States
  <2>. QED BY <2>1, <2>2
<1>17. CASE CleanupReap
  BY <1>17 DEF CleanupReap, Reaped, Reap, Raise, TypeOK, States
<1>18. CASE CleanupFinalProbe
  BY <1>18 DEF CleanupFinalProbe, Probed, TypeOK, States
<1>19. CASE CleanupLastProbe
  BY <1>19 DEF CleanupLastProbe, Probed, TypeOK, States
<1>20. CASE CleanupClose
  BY <1>20 DEF CleanupClose, Blank, Ends, TypeOK, States
<1>21. CASE (ChildSetpgid \/ ChildExec \/ ChildSetupFails \/ ChildCloses \/
      ChildSpawns \/ ChildLeavesGroup \/ DescEscapes \/ DescRejoins \/
      DescExits \/ ChildExits \/ ReapedElsewhere \/ ChildDies) /\ UNCHANGED
      runtimeVars
  BY <1>21 DEF ChildSetpgid, ChildExec, ChildSetupFails, ChildCloses,
    ChildSpawns, ChildLeavesGroup, DescEscapes, DescRejoins, DescExits,
    ChildExits, ReapedElsewhere, ChildDies, runtimeVars, TypeOK
<1>22. ASSUME NEW w \in Writers, NEW c \in Channels, Write(w, c),
             UNCHANGED runtimeVars
      PROVE  st' \in States
  BY <1>22 DEF Write, runtimeVars, TypeOK
<1>. QED BY <1>1, <1>2, <1>3, <1>4, <1>5, <1>6, <1>7, <1>8, <1>9, <1>10,
    <1>11, <1>12, <1>13, <1>14, <1>15, <1>16, <1>17, <1>18, <1>19, <1>20,
    <1>21, <1>22 DEF Next, Runtime, Caller, Environment, ChildSetup,
    ProgramStep, Channels

\* What Frame builds is a frame.
LEMMA FrameType ==
  ASSUME NEW op \in {"start", "wait", "terminate", "drop"},
         NEW deadline \in BOOLEAN
  PROVE  Frame(op, deadline) \in Frames
  BY DEF Frame, Frames

\* The history of the exit is a truth value.
LEMMA EarlyType ==
  ASSUME TypeOK
  PROVE  ExitedUnsignalled \in BOOLEAN
  BY DEF TypeOK, Frames, ExitedUnsignalled

\* What reading the clock does to the locals.
LEMMA ClockFrame ==
  ASSUME TypeOK, PumpClock
  PROVE  /\ fr'.exited = fr.exited /\ fr'.op = fr.op /\ fr'.caller = fr.caller
         /\ fr'.early \in {fr.early, ExitedUnsignalled}
         /\ pc' = "so_probe" =>
              ~st.signalled /\ (fr.exited \/ fr'.expired \/ Cancel)
         /\ fr' \in Frames
<1> DEFINE expired == ReadsClock /\ late
<1>1. expired \in BOOLEAN /\ ExitedUnsignalled \in BOOLEAN
  BY EarlyType DEF TypeOK
<1>2. \/ /\ fr' = [fr EXCEPT !.expired = expired, !.early = ExitedUnsignalled]
         /\ pc' = "so_probe" => ~st.signalled /\ (fr.exited \/ expired \/ Cancel)
      \/ fr' = fr /\ pc' = "cleanup"
  BY DEF PumpClock, Goto, PumpFails
<1> HIDE DEF expired
<1>3. ASSUME NEW x \in BOOLEAN, NEW y \in BOOLEAN,
             fr' = [fr EXCEPT !.expired = x, !.early = y]
      PROVE  /\ fr'.exited = fr.exited /\ fr'.op = fr.op
             /\ fr'.caller = fr.caller /\ fr'.early = y /\ fr'.expired = x
             /\ fr' \in Frames
  BY <1>3 DEF TypeOK, Frames
<1>. QED BY <1>1, <1>2, <1>3 DEF TypeOK

\* What the fresh probe does to the locals.
LEMMA OwnedProbeFrame ==
  ASSUME TypeOK, SignalOwnedProbe
  PROVE  /\ fr'.op = fr.op /\ fr'.caller = fr.caller
         /\ fr'.expired = fr.expired /\ fr'.attempt = fr.attempt
         /\ fr'.since = fr.since /\ fr'.draining = fr.draining
         /\ fr'.remaining = fr.remaining
         /\ fr'.early \in {fr.early, ExitedUnsignalled}
         /\ pc' = "so_direct" => ~fr'.exited
         /\ pc' \in {"so_direct", "so_group"} =>
              child \in Unreaped /\ (fr'.exited <=> child = "zombie")
         /\ fr' \in Frames
<1>1. /\ ExitedUnsignalled \in BOOLEAN
      /\ fr.caller \in {"pump", "attempt", "final"}
  BY EarlyType DEF TypeOK, Frames
<1>2. PICK exited \in BOOLEAN :
        \/ /\ fr' = [fr EXCEPT !.exited = exited, !.early = ExitedUnsignalled]
           /\ child \in Unreaped /\ (exited <=> child = "zombie")
           /\ pc' = "so_direct" => ~exited
        \/ fr' = fr /\ pc' \notin {"so_direct", "so_group"}
  <2>1. PICK err \in BOOLEAN, exited \in BOOLEAN :
          /\ \E pid \in BOOLEAN : Probed(FALSE, err, pid, exited)
          /\ \/ err /\ Raise /\ UNCHANGED fr
             \/ /\ ~err
                /\ fr' = [fr EXCEPT !.exited = exited,
                                    !.early = ExitedUnsignalled]
                /\ pc' = IF ~st.group /\ ~exited THEN "so_direct" ELSE "so_group"
    BY DEF SignalOwnedProbe, Goto
  <2>2. ~err => child \in Unreaped /\ (exited <=> child = "zombie")
    BY <2>1 DEF Probed
  <2>3. Raise => pc' \notin {"so_direct", "so_group"}
    BY <1>1 DEF Raise, Goto
  <2>. QED BY <2>1, <2>2, <2>3
<1>3. ASSUME NEW x \in BOOLEAN, NEW y \in BOOLEAN,
             fr' = [fr EXCEPT !.exited = x, !.early = y]
      PROVE  /\ fr'.op = fr.op /\ fr'.caller = fr.caller
             /\ fr'.expired = fr.expired /\ fr'.attempt = fr.attempt
             /\ fr'.since = fr.since /\ fr'.draining = fr.draining
             /\ fr'.remaining = fr.remaining
             /\ fr'.exited = x /\ fr'.early = y
             /\ fr' \in Frames
  BY <1>3 DEF TypeOK, Frames
<1>. QED BY <1>1, <1>2, <1>3 DEF TypeOK

\* The locals of the call keep their types.
LEMMA FrTypeStep ==
  ASSUME TypeOK, Next
  PROVE  fr' \in Frames
<1>1. CASE StartRejected \/ StartFork \/ StartSetpgid \/ StartHandshake \/
      StartRelease \/ ConsumeInert \/ SignalOwnedDirect \/ SignalOwnedGroup \/
      SignalOwnedLate \/ SignalTerminalProbe \/ SignalTerminalKill \/ PumpMark
      \/ PumpCheck \/ PumpFinishCheck \/ PumpWrite \/ PumpFinish \/ PumpOk \/
      CleanupReap \/ CleanupLastProbe \/ CleanupClose \/ DeadlineReached \/
      Finished
  BY <1>1 DEF StartRejected, StartFork, StartSetpgid, StartHandshake,
    StartRelease, ConsumeInert, SignalOwnedDirect, SignalOwnedGroup,
    SignalOwnedLate, SignalTerminalProbe, SignalTerminalKill, PumpMark,
    PumpCheck, PumpFinishCheck, PumpWrite, PumpFinish, PumpOk, CleanupReap,
    CleanupLastProbe, CleanupClose, DeadlineReached, Finished, vars, TypeOK
<1>2. CASE Start \/ Drop
  BY <1>2, FrameType DEF Start, Drop
<1>3. CASE Wait \/ Terminate
  <2>1. ASSUME NEW op \in {"wait", "terminate"}
        PROVE  [fr EXCEPT !.op = op] \in Frames
    BY DEF TypeOK, Frames
  <2>. QED BY <1>3, <2>1, FrameType DEF Wait, Terminate, Call
<1>4. CASE SignalOwnedProbe
  BY <1>4, OwnedProbeFrame
<1>5. CASE PumpProbe
  BY <1>5 DEF PumpProbe, Probed, PumpFails, TypeOK, Frames
<1>6. CASE PumpClock
  BY <1>6, ClockFrame
<1>7. CASE PumpSnapshotOut
  <2>1. Queued("out") \in Nat
    BY DEF Queued, TypeOK, OsTypeOK, Channels
  <2>2. fr' = fr \/ fr' = [fr EXCEPT !.remaining["out"] = Queued("out")]
    BY <1>7 DEF PumpSnapshotOut
  <2>. QED BY <2>1, <2>2 DEF TypeOK, Frames, Channels
<1>8. CASE PumpSnapshotErr
  <2>1. Queued("err") \in Nat
    BY DEF Queued, TypeOK, OsTypeOK, Channels
  <2>2. [fr.remaining EXCEPT !["err"] = Queued("err")] \in [Channels -> Nat]
    BY <2>1 DEF TypeOK, Frames, Channels
  <2>3. ASSUME NEW left \in [Channels -> Nat]
        PROVE  [fr EXCEPT !.remaining = left, !.draining = TRUE] \in Frames
    BY DEF TypeOK, Frames
  <2>4. \/ fr' = fr
        \/ fr' = [fr EXCEPT
                     !.remaining =
                        [fr.remaining EXCEPT !["err"] = Queued("err")],
                     !.draining = TRUE]
    BY <1>8 DEF PumpSnapshotErr
  <2>. QED BY <2>2, <2>3, <2>4 DEF TypeOK
<1>9. CASE PumpPoll
  BY <1>9 DEF PumpPoll, PumpFails, Readable, Eof, NoHolder, Channels, Ends,
    TypeOK, Frames
<1>10. ASSUME NEW c \in Channels, PumpRead(c) PROVE  fr' \in Frames
  <2>1. CASE ReadBytes(c)
    <3>1. fr.remaining[c] \in Nat /\ Len(pipe[c]) \in Nat
      BY DEF TypeOK, OsTypeOK, Frames
    <3>2. \/ fr' = fr
          \/ /\ fr.draining
             /\ fr' = [fr EXCEPT !.remaining[c] = fr.remaining[c]
                        - Least(Least(Chunk, fr.remaining[c]), Len(pipe[c]))]
      BY <2>1 DEF ReadBytes
    <3>3. fr.remaining[c] - Least(Least(Chunk, fr.remaining[c]), Len(pipe[c]))
            \in Nat
      BY <3>1, ChunkAssumption DEF Least
    <3>. QED BY <3>2, <3>3 DEF TypeOK, Frames
  <2>2. CASE ~ReadBytes(c)
    BY <1>10, <2>2 DEF PumpRead, ReadOutput, ReadFails, ReadNothing, TypeOK
  <2>. QED BY <2>1, <2>2
<1>11. CASE Cleanup \/ CleanupRetry
  <2>1. ASSUME NEW n \in 0..4, NEW since \in Nat
        PROVE  [fr EXCEPT !.caller = "attempt", !.attempt = n, !.since = since]
                 \in Frames
    BY DEF TypeOK, Frames
  <2>2. [fr EXCEPT !.attempt = 3] \in Frames
    BY DEF TypeOK, Frames
  <2>3. 1 \in 0..4 /\ 2 \in 0..4 /\ faults \in Nat /\ fr.since \in Nat
    BY DEF TypeOK, Frames
  <2>4. CASE Cleanup
    BY <2>1, <2>3, <2>4 DEF Cleanup, Attempt, TypeOK
  <2>5. CASE CleanupRetry
    <3>1. \/ fr' = fr
          \/ fr' = [fr EXCEPT !.attempt = 3]
          \/ fr' = [fr EXCEPT !.caller = "attempt", !.attempt = 2,
                              !.since = fr.since]
      BY <2>5 DEF CleanupRetry, Attempt
    <3>. QED BY <2>1, <2>2, <2>3, <3>1 DEF TypeOK
  <2>. QED BY <1>11, <2>4, <2>5
<1>12. CASE CleanupFinalProbe
  BY <1>12 DEF CleanupFinalProbe, Probed, TypeOK, Frames
<1>13. CASE (ChildSetpgid \/ ChildExec \/ ChildSetupFails \/ ChildCloses \/
      ChildSpawns \/ ChildLeavesGroup \/ DescEscapes \/ DescRejoins \/
      DescExits \/ ChildExits \/ ReapedElsewhere \/ ChildDies) /\ UNCHANGED
      runtimeVars
  BY <1>13 DEF ChildSetpgid, ChildExec, ChildSetupFails, ChildCloses,
    ChildSpawns, ChildLeavesGroup, DescEscapes, DescRejoins, DescExits,
    ChildExits, ReapedElsewhere, ChildDies, runtimeVars, TypeOK
<1>14. ASSUME NEW w \in Writers, NEW c \in Channels, Write(w, c),
             UNCHANGED runtimeVars
      PROVE  fr' \in Frames
  BY <1>14 DEF Write, runtimeVars, TypeOK
<1>. QED BY <1>1, <1>2, <1>3, <1>4, <1>5, <1>6, <1>7, <1>8, <1>9, <1>10,
    <1>11, <1>12, <1>13, <1>14 DEF Next, Runtime, Caller, Environment,
    ChildSetup, ProgramStep, Channels

RestTypeOK ==
  /\ pc \in Sites /\ handle \in Handles /\ late \in BOOLEAN
  /\ setup \subseteq Ends \cup {"exec"} /\ faults \in Nat

\* Control, handle, setup descriptors, clock and fault count keep their types.
LEMMA RestTypeStep ==
  ASSUME TypeOK, Next
  PROVE  RestTypeOK'
<1>. USE DEF RestTypeOK, TypeOK, Frames, Goto, Works, Fault, Sites,
    SetupSites, PumpSites, SignalSites, KillSites, CleanupSites, Handles
<1>1. CASE StartRejected
  BY <1>1 DEF StartRejected
<1>2. CASE Start
  BY <1>2 DEF Start, Frame, Blank, Ends, Channels
<1>3. CASE StartFork
  BY <1>3 DEF StartFork, Fork
<1>4. CASE StartSetpgid
  BY <1>4 DEF StartSetpgid, ParentSetpgid
<1>5. CASE StartHandshake
  BY <1>5 DEF StartHandshake, ExecEof
<1>6. CASE StartRelease
  BY <1>6 DEF StartRelease
<1>7. CASE Wait
  BY <1>7 DEF Wait, Call, Frame
<1>8. CASE Terminate
  BY <1>8 DEF Terminate, Call, Frame
<1>9. CASE Drop
  BY <1>9 DEF Drop, Frame
<1>10. CASE ConsumeInert
  BY <1>10 DEF ConsumeInert
<1>11. CASE SignalOwnedProbe
  BY <1>11 DEF SignalOwnedProbe, Probed, Raise
<1>12. CASE SignalOwnedDirect
  BY <1>12 DEF SignalOwnedDirect, Killed, KillPid, KillGroup, Raise
<1>13. CASE SignalOwnedGroup
  BY <1>13 DEF SignalOwnedGroup, Killed, KillPid, KillGroup, Raise, OwnedDone
<1>14. CASE SignalOwnedLate
  BY <1>14 DEF SignalOwnedLate, Killed, KillPid, KillGroup, Raise, OwnedDone
<1>15. CASE SignalTerminalProbe
  BY <1>15 DEF SignalTerminalProbe, Probed, Raise, TerminalDone
<1>16. CASE SignalTerminalKill
  BY <1>16 DEF SignalTerminalKill, Killed, KillPid, KillGroup, Raise,
    TerminalDone
<1>17. CASE PumpProbe
  BY <1>17 DEF PumpProbe, Probed, PumpFails
<1>18. CASE PumpClock
  BY <1>18 DEF PumpClock, PumpFails, ReadsClock, Cancel
<1>19. CASE PumpMark
  BY <1>19 DEF PumpMark, Cancel
<1>20. CASE PumpCheck
  BY <1>20 DEF PumpCheck
<1>21. CASE PumpSnapshotOut
  BY <1>21 DEF PumpSnapshotOut, PumpFails, Queued
<1>22. CASE PumpSnapshotErr
  BY <1>22 DEF PumpSnapshotErr, PumpFails, Queued
<1>23. CASE PumpFinishCheck
  BY <1>23 DEF PumpFinishCheck
<1>24. CASE PumpPoll
  BY <1>24 DEF PumpPoll, PumpFails, Readable, Eof, NoHolder
<1>25. CASE PumpWrite
  BY <1>25 DEF PumpWrite, WriteInput, PumpFails, NoHolder, Least
<1>26. CASE PumpOk
  BY <1>26 DEF PumpOk
<1>27. CASE Cleanup
  BY <1>27 DEF Cleanup, Attempt
<1>28. CASE CleanupReap
  BY <1>28 DEF CleanupReap, Reaped, Reap, Raise
<1>29. CASE CleanupRetry
  BY <1>29 DEF CleanupRetry, Attempt
<1>30. CASE CleanupFinalProbe
  BY <1>30 DEF CleanupFinalProbe, Probed
<1>31. CASE CleanupLastProbe
  BY <1>31 DEF CleanupLastProbe, Probed
<1>32. CASE CleanupClose
  BY <1>32 DEF CleanupClose, Blank
<1>33. CASE DeadlineReached
  BY <1>33 DEF DeadlineReached
<1>34. CASE Finished
  BY <1>34 DEF Finished, vars
<1>35. CASE PumpFinish
  <2>1. pc' \in {"cleanup", "pump_ok"} /\ UNCHANGED <<handle, setup, late>>
    BY <1>35 DEF PumpFinish, PumpFails, Goto
  <2>2. faults' = faults \/ faults' = faults + 1
    BY <1>35 DEF PumpFinish, Reaped, Works, Fault
  <2>. QED BY <2>1, <2>2 DEF TypeOK, Sites, PumpSites, CleanupSites
<1>36. ASSUME NEW c \in Channels, PumpRead(c) PROVE  RestTypeOK'
  BY <1>36 DEF PumpRead, ReadOutput, ReadFails, ReadNothing, ReadBytes,
    Consume, PumpFails, AfterRead, Least, Eof, NoHolder, Channels
<1>37. CASE (ChildSetpgid \/ ChildExec \/ ChildSetupFails \/ ChildCloses \/
      ChildSpawns \/ ChildLeavesGroup \/ DescEscapes \/ DescRejoins \/
      DescExits \/ ChildExits \/ ReapedElsewhere \/ ChildDies) /\ UNCHANGED
      runtimeVars
  BY <1>37 DEF ChildSetpgid, ChildExec, ChildSetupFails, ChildCloses,
    ChildSpawns, ChildLeavesGroup, DescEscapes, DescRejoins, DescExits,
    ChildExits, ReapedElsewhere, ChildDies, runtimeVars
<1>38. ASSUME NEW w \in Writers, NEW c \in Channels, Write(w, c),
             UNCHANGED runtimeVars
      PROVE  RestTypeOK'
  BY <1>38 DEF Write, runtimeVars
<1>. QED BY <1>1, <1>2, <1>3, <1>4, <1>5, <1>6, <1>7, <1>8, <1>9, <1>10,
    <1>11, <1>12, <1>13, <1>14, <1>15, <1>16, <1>17, <1>18, <1>19, <1>20,
    <1>21, <1>22, <1>23, <1>24, <1>25, <1>26, <1>27, <1>28, <1>29, <1>30,
    <1>31, <1>32, <1>33, <1>34, <1>35, <1>36, <1>37, <1>38 DEF Next, Runtime,
    Caller, Environment, ChildSetup, ProgramStep, Channels

\* What a kill changes, for the group's terminal signal.
LEMMA KilledEffect ==
  ASSUME NEW target \in {"pid", "group"}, NEW err \in BOOLEAN,
         Killed(target, err), OsTypeOK
  PROVE  /\ child' = child \/ (child \in Alive /\ child' = "dying")
         /\ desc' = "group" => desc = "group"
         /\ target = "group" /\ ~err => desc' # "group"
  BY DEF Killed, KillPid, KillGroup, osVars, OsTypeOK

\* Which call is running follows from where it is.
LEMMA ControlStep ==
  ASSUME IInv, Next
  PROVE  ControlInv'
<1>. USE DEF ControlInv, AnchorInv, StartCall, PumpCall, OtherCall, TypeOK,
    States, Frames, Goto, IInv, SetupSites, PumpSites, SignalSites, KillSites,
    CleanupSites
<1>1. CASE StartRejected \/ StartRelease \/ ConsumeInert \/ PumpCheck \/
      PumpOk \/ PumpMark \/ PumpFinishCheck \/ DeadlineReached \/ Finished
  BY <1>1 DEF StartRejected, StartRelease, ConsumeInert, PumpCheck, PumpOk,
    PumpMark, PumpFinishCheck, DeadlineReached, Finished, Cancel, vars
<1>2. CASE Start
  BY <1>2 DEF Start, Frame, Blank
<1>3. CASE StartFork \/ StartSetpgid \/ StartHandshake
  BY <1>3 DEF StartFork, StartSetpgid, StartHandshake, Fork, ParentSetpgid,
    ExecEof
<1>4. CASE Wait \/ Terminate \/ Drop
  BY <1>4 DEF Wait, Terminate, Drop, Call, Frame
<1>5. CASE PumpClock \/ PumpSnapshotOut \/ PumpSnapshotErr
  BY <1>5 DEF PumpClock, PumpSnapshotOut, PumpSnapshotErr, PumpFails,
    ReadsClock, Cancel, Queued
<1>6. CASE PumpPoll \/ PumpWrite
  BY <1>6 DEF PumpPoll, PumpWrite, PumpFails, Readable, Eof, NoHolder,
    WriteInput, Least
<1>7. CASE PumpProbe
  BY <1>7 DEF PumpProbe, Probed, PumpFails
<1>8. CASE SignalOwnedProbe
  BY <1>8 DEF SignalOwnedProbe, Probed, Raise
<1>9. CASE SignalTerminalProbe
  BY <1>9 DEF SignalTerminalProbe, Probed, Raise, TerminalDone
<1>10. CASE CleanupFinalProbe \/ CleanupLastProbe
  BY <1>10 DEF CleanupFinalProbe, CleanupLastProbe, Probed
<1>11. CASE SignalOwnedDirect
  BY <1>11 DEF SignalOwnedDirect, Killed, KillPid, KillGroup, Raise
<1>12. CASE SignalOwnedGroup
  BY <1>12 DEF SignalOwnedGroup, Killed, KillPid, KillGroup, Raise, OwnedDone
<1>13. CASE SignalOwnedLate
  BY <1>13 DEF SignalOwnedLate, Killed, KillPid, KillGroup, Raise, OwnedDone
<1>14. CASE SignalTerminalKill
  BY <1>14 DEF SignalTerminalKill, Killed, KillPid, KillGroup, Raise,
    TerminalDone
<1>15. CASE PumpFinish \/ CleanupReap
  BY <1>15 DEF PumpFinish, CleanupReap, Reaped, Reap, PumpFails, Raise
<1>16. CASE Cleanup \/ CleanupRetry \/ CleanupClose
  BY <1>16 DEF Cleanup, CleanupRetry, CleanupClose, Attempt, Blank
<1>17. ASSUME NEW c \in Channels, PumpRead(c) PROVE  ControlInv'
  BY <1>17 DEF PumpRead, ReadOutput, ReadFails, ReadNothing, ReadBytes,
    Consume, PumpFails, AfterRead, Least, Eof, NoHolder, Channels
<1>18. CASE (ChildSetpgid \/ ChildExec \/ ChildSetupFails \/ ChildCloses \/
      ChildSpawns \/ ChildLeavesGroup \/ DescEscapes \/ DescRejoins \/
      DescExits \/ ChildExits \/ ReapedElsewhere \/ ChildDies) /\ UNCHANGED
      runtimeVars
  BY <1>18 DEF ChildSetpgid, ChildExec, ChildSetupFails, ChildCloses,
    ChildSpawns, ChildLeavesGroup, DescEscapes, DescRejoins, DescExits,
    ChildExits, ReapedElsewhere, ChildDies, runtimeVars
<1>19. ASSUME NEW w \in Writers, NEW c \in Channels, Write(w, c),
             UNCHANGED runtimeVars
      PROVE  ControlInv'
  BY <1>19 DEF Write, runtimeVars
<1>. QED BY <1>1, <1>2, <1>3, <1>4, <1>5, <1>6, <1>7, <1>8, <1>9, <1>10,
    <1>11, <1>12, <1>13, <1>14, <1>15, <1>16, <1>17, <1>18, <1>19 DEF Next,
    Runtime, Caller, Environment, ChildSetup, ProgramStep, Channels

\* Where the call is decides whether it holds the pid anchor.
LEMMA AnchorStep ==
  ASSUME IInv, Next
  PROVE  AnchorInv'
<1>. USE DEF ControlInv, AnchorInv, StartCall, PumpCall, OtherCall, Anchored,
    Blank, TypeOK, States, Frames, Goto, IInv, SetupSites, PumpSites,
    SignalSites, KillSites, CleanupSites
<1>1. CASE StartRejected \/ StartRelease \/ ConsumeInert \/ PumpCheck \/
      PumpOk \/ PumpMark \/ PumpFinishCheck \/ DeadlineReached \/ Finished
  BY <1>1 DEF StartRejected, StartRelease, ConsumeInert, PumpCheck, PumpOk,
    PumpMark, PumpFinishCheck, DeadlineReached, Finished, Cancel, vars
<1>2. CASE Start
  BY <1>2 DEF Start, Frame, Blank
<1>3. CASE StartFork \/ StartSetpgid \/ StartHandshake
  BY <1>3 DEF StartFork, StartSetpgid, StartHandshake, Fork, ParentSetpgid,
    ExecEof
<1>4. CASE Wait \/ Terminate \/ Drop
  BY <1>4 DEF Wait, Terminate, Drop, Call, Frame
<1>5. CASE PumpClock \/ PumpSnapshotOut \/ PumpSnapshotErr
  BY <1>5 DEF PumpClock, PumpSnapshotOut, PumpSnapshotErr, PumpFails,
    ReadsClock, Cancel, Queued
<1>6. CASE PumpPoll \/ PumpWrite
  BY <1>6 DEF PumpPoll, PumpWrite, PumpFails, Readable, Eof, NoHolder,
    WriteInput, Least
<1>7. CASE PumpProbe
  BY <1>7 DEF PumpProbe, Probed, PumpFails
<1>8. CASE SignalOwnedProbe
  BY <1>8 DEF SignalOwnedProbe, Probed, Raise
<1>9. CASE SignalTerminalProbe
  BY <1>9 DEF SignalTerminalProbe, Probed, Raise, TerminalDone
<1>10. CASE CleanupFinalProbe \/ CleanupLastProbe
  BY <1>10 DEF CleanupFinalProbe, CleanupLastProbe, Probed
<1>11. CASE SignalOwnedDirect
  BY <1>11 DEF SignalOwnedDirect, Killed, KillPid, KillGroup, Raise
<1>12. CASE SignalOwnedGroup
  BY <1>12 DEF SignalOwnedGroup, Killed, KillPid, KillGroup, Raise, OwnedDone
<1>13. CASE SignalOwnedLate
  BY <1>13 DEF SignalOwnedLate, Killed, KillPid, KillGroup, Raise, OwnedDone
<1>14. CASE SignalTerminalKill
  BY <1>14 DEF SignalTerminalKill, Killed, KillPid, KillGroup, Raise,
    TerminalDone
<1>15. CASE PumpFinish \/ CleanupReap
  BY <1>15 DEF PumpFinish, CleanupReap, Reaped, Reap, PumpFails, Raise
<1>16. CASE Cleanup \/ CleanupRetry \/ CleanupClose
  BY <1>16 DEF Cleanup, CleanupRetry, CleanupClose, Attempt, Blank
<1>17. ASSUME NEW c \in Channels, PumpRead(c) PROVE  AnchorInv'
  BY <1>17 DEF PumpRead, ReadOutput, ReadFails, ReadNothing, ReadBytes,
    Consume, PumpFails, AfterRead, Least, Eof, NoHolder, Channels
<1>18. CASE (ChildSetpgid \/ ChildExec \/ ChildSetupFails \/ ChildCloses \/
      ChildSpawns \/ ChildLeavesGroup \/ DescEscapes \/ DescRejoins \/
      DescExits \/ ChildExits \/ ReapedElsewhere \/ ChildDies) /\ UNCHANGED
      runtimeVars
  BY <1>18 DEF ChildSetpgid, ChildExec, ChildSetupFails, ChildCloses,
    ChildSpawns, ChildLeavesGroup, DescEscapes, DescRejoins, DescExits,
    ChildExits, ReapedElsewhere, ChildDies, runtimeVars
<1>19. ASSUME NEW w \in Writers, NEW c \in Channels, Write(w, c),
             UNCHANGED runtimeVars
      PROVE  AnchorInv'
  BY <1>19 DEF Write, runtimeVars
<1>. QED BY <1>1, <1>2, <1>3, <1>4, <1>5, <1>6, <1>7, <1>8, <1>9, <1>10,
    <1>11, <1>12, <1>13, <1>14, <1>15, <1>16, <1>17, <1>18, <1>19 DEF Next,
    Runtime, Caller, Environment, ChildSetup, ProgramStep, Channels

\* The anchor and the child's life agree.
LEMMA OwnStep ==
  ASSUME IInv, Next
  PROVE  OwnInv'
<1>. USE DEF OwnInv, AnchorInv, Anchored, OsTypeOK, osVars, Alive, Unreaped,
    Gone, TypeOK, States, Frames, Goto, IInv, SetupSites, PumpSites,
    SignalSites, KillSites, CleanupSites
<1>1. CASE StartRejected \/ StartRelease \/ ConsumeInert \/ PumpCheck \/
      PumpOk \/ PumpMark \/ PumpFinishCheck \/ DeadlineReached \/ Finished
  BY <1>1 DEF StartRejected, StartRelease, ConsumeInert, PumpCheck, PumpOk,
    PumpMark, PumpFinishCheck, DeadlineReached, Finished, Cancel, vars
<1>2. CASE Start
  BY <1>2 DEF Start, Frame, Blank
<1>3. CASE StartFork \/ StartSetpgid \/ StartHandshake
  BY <1>3 DEF StartFork, StartSetpgid, StartHandshake, Fork, ParentSetpgid,
    ExecEof
<1>4. CASE Wait \/ Terminate \/ Drop
  BY <1>4 DEF Wait, Terminate, Drop, Call, Frame
<1>5. CASE PumpClock \/ PumpSnapshotOut \/ PumpSnapshotErr
  BY <1>5 DEF PumpClock, PumpSnapshotOut, PumpSnapshotErr, PumpFails,
    ReadsClock, Cancel, Queued
<1>6. CASE PumpPoll \/ PumpWrite
  BY <1>6 DEF PumpPoll, PumpWrite, PumpFails, Readable, Eof, NoHolder,
    WriteInput, Least
<1>7. CASE PumpProbe
  BY <1>7 DEF PumpProbe, Probed, PumpFails
<1>8. CASE SignalOwnedProbe
  BY <1>8 DEF SignalOwnedProbe, Probed, Raise
<1>9. CASE SignalTerminalProbe
  BY <1>9 DEF SignalTerminalProbe, Probed, Raise, TerminalDone
<1>10. CASE CleanupFinalProbe \/ CleanupLastProbe
  BY <1>10 DEF CleanupFinalProbe, CleanupLastProbe, Probed
<1>11. CASE SignalOwnedDirect
  BY <1>11 DEF SignalOwnedDirect, Killed, KillPid, KillGroup, Raise
<1>12. CASE SignalOwnedGroup
  BY <1>12 DEF SignalOwnedGroup, Killed, KillPid, KillGroup, Raise, OwnedDone
<1>13. CASE SignalOwnedLate
  BY <1>13 DEF SignalOwnedLate, Killed, KillPid, KillGroup, Raise, OwnedDone
<1>14. CASE SignalTerminalKill
  BY <1>14 DEF SignalTerminalKill, Killed, KillPid, KillGroup, Raise,
    TerminalDone
<1>15. CASE PumpFinish \/ CleanupReap
  BY <1>15 DEF PumpFinish, CleanupReap, Reaped, Reap, PumpFails, Raise
<1>16. CASE Cleanup \/ CleanupRetry \/ CleanupClose
  BY <1>16 DEF Cleanup, CleanupRetry, CleanupClose, Attempt, Blank
<1>17. ASSUME NEW c \in Channels, PumpRead(c) PROVE  OwnInv'
  BY <1>17 DEF PumpRead, ReadOutput, ReadFails, ReadNothing, ReadBytes,
    Consume, PumpFails, AfterRead, Least, Eof, NoHolder, Channels
<1>18. CASE (ChildSetpgid \/ ChildExec \/ ChildSetupFails \/ ChildCloses \/
      ChildSpawns \/ ChildLeavesGroup \/ DescEscapes \/ DescRejoins \/
      DescExits \/ ChildExits \/ ReapedElsewhere \/ ChildDies) /\ UNCHANGED
      runtimeVars
  BY <1>18 DEF ChildSetpgid, ChildExec, ChildSetupFails, ChildCloses,
    ChildSpawns, ChildLeavesGroup, DescEscapes, DescRejoins, DescExits,
    ChildExits, ReapedElsewhere, ChildDies, runtimeVars
<1>19. ASSUME NEW w \in Writers, NEW c \in Channels, Write(w, c),
             UNCHANGED runtimeVars
      PROVE  OwnInv'
  BY <1>19 DEF Write, runtimeVars
<1>. QED BY <1>1, <1>2, <1>3, <1>4, <1>5, <1>6, <1>7, <1>8, <1>9, <1>10,
    <1>11, <1>12, <1>13, <1>14, <1>15, <1>16, <1>17, <1>18, <1>19 DEF Next,
    Runtime, Caller, Environment, ChildSetup, ProgramStep, Channels

\* The group has its terminal signal wherever the child may be reaped.
LEMMA TerminalStep ==
  ASSUME IInv, Next
  PROVE  TerminalInv'
<1>. USE DEF OwnInv, AnchorInv, TerminalInv, Anchored, Exited, OsTypeOK,
    osVars, Alive, Unreaped, Gone, TypeOK, States, Frames, Goto, IInv,
    SetupSites, PumpSites, SignalSites, KillSites, CleanupSites
<1>1. CASE StartRejected \/ StartRelease \/ ConsumeInert \/ PumpCheck \/
      PumpOk
  BY <1>1 DEF StartRejected, StartRelease, ConsumeInert, PumpCheck, PumpOk
<1>2. CASE PumpMark \/ PumpFinishCheck
  BY <1>2 DEF PumpMark, PumpFinishCheck, Cancel
<1>3. CASE DeadlineReached \/ Finished
  BY <1>3 DEF DeadlineReached, Finished, vars
<1>4. CASE Start
  BY <1>4 DEF Start, Frame, Blank
<1>5. CASE StartFork \/ StartSetpgid \/ StartHandshake
  BY <1>5 DEF StartFork, StartSetpgid, StartHandshake, Fork, ParentSetpgid,
    ExecEof
<1>6. CASE Wait \/ Terminate \/ Drop
  BY <1>6 DEF Wait, Terminate, Drop, Call, Frame
<1>7. CASE PumpClock \/ PumpSnapshotOut \/ PumpSnapshotErr
  BY <1>7 DEF PumpClock, PumpSnapshotOut, PumpSnapshotErr, PumpFails,
    ReadsClock, Cancel, Queued
<1>8. CASE PumpPoll \/ PumpWrite
  BY <1>8 DEF PumpPoll, PumpWrite, PumpFails, Readable, Eof, NoHolder,
    WriteInput, Least
<1>9. CASE PumpProbe
  BY <1>9 DEF PumpProbe, Probed, PumpFails
<1>10. CASE SignalOwnedProbe
  <2>1. PICK err \in BOOLEAN, pid \in BOOLEAN, exited \in BOOLEAN :
          /\ Probed(FALSE, err, pid, exited)
          /\ st' = [st EXCEPT !.pid = pid]
          /\ \/ err /\ Raise /\ UNCHANGED fr
             \/ /\ ~err
                /\ fr' = [fr EXCEPT !.exited = exited,
                                    !.early = ExitedUnsignalled]
                /\ Goto(IF ~st.group /\ ~exited THEN "so_direct"
                                                ELSE "so_group")
    BY <1>10 DEF SignalOwnedProbe
  <2>2. /\ UNCHANGED <<child, desc>> /\ pc = "so_probe"
        /\ ~err => exited = (child = "zombie")
    BY <1>10, <2>1 DEF SignalOwnedProbe, Probed, osVars
  <2>3. /\ st'.ready = st.ready
        /\ st'.terminal_signalled = st.terminal_signalled
        /\ fr'.draining = fr.draining
    BY <2>1 DEF IInv, TypeOK, States, Frames
  <2>4. \/ err /\ pc' \in {"cleanup", "retry", "last_probe"}
        \/ ~err /\ ~exited /\ pc' = "so_direct" /\ fr'.exited = exited
        \/ ~err /\ pc' = "so_group" /\ fr'.exited = exited
    BY <2>1 DEF Raise, Goto, IInv, TypeOK, Frames
  <2>. QED BY <2>2, <2>3, <2>4 DEF IInv, TerminalInv, Exited, SetupSites
<1>11. CASE SignalTerminalProbe
  BY <1>11 DEF SignalTerminalProbe, Probed, Raise, TerminalDone
<1>12. CASE CleanupFinalProbe
  BY <1>12 DEF CleanupFinalProbe, Probed
<1>13. CASE CleanupLastProbe
  BY <1>13 DEF CleanupLastProbe, Probed
<1>14. CASE SignalOwnedDirect
  BY <1>14 DEF SignalOwnedDirect, Killed, KillPid, KillGroup, Raise
<1>15. CASE SignalOwnedGroup
  <2>1. PICK err \in BOOLEAN :
          /\ Killed("group", err)
          /\ \/ err /\ Raise /\ UNCHANGED st
             \/ /\ ~err /\ st.group /\ ~fr.exited
                /\ Goto("so_late") /\ UNCHANGED st
             \/ /\ ~err /\ OwnedDone
                /\ st' = [st EXCEPT !.terminal_signalled = @ \/ fr.exited,
                                    !.signalled = TRUE]
    BY <1>15 DEF SignalOwnedGroup
  <2>2. /\ child' = child \/ (child \in Alive /\ child' = "dying")
        /\ desc' = "group" => desc = "group"
        /\ "group" = "group" /\ ~err => desc' # "group"
    BY <2>1, KilledEffect DEF IInv, TypeOK
  <2>3. UNCHANGED fr /\ pc = "so_group"
    BY <1>15 DEF SignalOwnedGroup
  <2>4. /\ st' \in States /\ (st'.ready => st.ready)
        /\ (st'.terminal_signalled =>
               st.terminal_signalled \/ (pc = "so_group" /\ fr.exited /\ ~err))
        /\ (st.terminal_signalled => st'.terminal_signalled)
    BY <2>1, <2>3 DEF IInv, TypeOK, States
  <2>5. pc' \in {"cleanup", "retry", "last_probe", "so_late", "mark",
                 "st_probe"}
    BY <2>1 DEF Raise, OwnedDone, Goto, IInv, TypeOK, Frames
  <2>6. (pc' = "mark" => fr.caller = "pump")
    BY <2>1 DEF Raise, OwnedDone, Goto, IInv, TypeOK, Frames
  <2>. QED BY <2>2, <2>3, <2>4, <2>5, <2>6
         DEF IInv, TypeOK, OsTypeOK, AnchorInv, TerminalInv, Exited, Alive,
             PumpSites, KillSites, SetupSites, Anchored, OwnInv, Unreaped
<1>16. CASE SignalOwnedLate
  <2>1. PICK err \in BOOLEAN :
          /\ Killed("pid", err)
          /\ \/ err /\ Raise /\ UNCHANGED st
             \/ ~err /\ OwnedDone /\ st' = [st EXCEPT !.signalled = TRUE]
    BY <1>16 DEF SignalOwnedLate
  <2>2. /\ child' = child \/ (child \in Alive /\ child' = "dying")
        /\ desc' = "group" => desc = "group"
        /\ "pid" = "group" /\ ~err => desc' # "group"
    BY <2>1, KilledEffect DEF IInv, TypeOK
  <2>3. UNCHANGED fr /\ pc = "so_late"
    BY <1>16 DEF SignalOwnedLate
  <2>4. /\ st' \in States /\ (st'.ready => st.ready)
        /\ (st'.terminal_signalled =>
               st.terminal_signalled \/ (pc = "so_group" /\ fr.exited /\ ~err))
        /\ (st.terminal_signalled => st'.terminal_signalled)
    BY <2>1, <2>3 DEF IInv, TypeOK, States
  <2>5. pc' \in {"cleanup", "retry", "last_probe", "so_late", "mark",
                 "st_probe"}
    BY <2>1 DEF Raise, OwnedDone, Goto, IInv, TypeOK, Frames
  <2>6. (pc' = "mark" => fr.caller = "pump")
    BY <2>1 DEF Raise, OwnedDone, Goto, IInv, TypeOK, Frames
  <2>. QED BY <2>2, <2>3, <2>4, <2>5, <2>6
         DEF IInv, TypeOK, OsTypeOK, AnchorInv, TerminalInv, Exited, Alive,
             PumpSites, KillSites, SetupSites, Anchored, OwnInv, Unreaped
<1>17. CASE SignalTerminalKill
  BY <1>17 DEF SignalTerminalKill, Killed, KillPid, KillGroup, Raise,
    TerminalDone
<1>18. CASE PumpFinish \/ CleanupReap
  BY <1>18 DEF PumpFinish, CleanupReap, Reaped, Reap, PumpFails, Raise
<1>19. CASE Cleanup
  BY <1>19 DEF Cleanup, Attempt
<1>20. CASE CleanupRetry
  BY <1>20 DEF CleanupRetry, Attempt
<1>21. CASE CleanupClose
  BY <1>21 DEF CleanupClose, Blank
<1>22. ASSUME NEW c \in Channels, PumpRead(c) PROVE  TerminalInv'
  BY <1>22 DEF PumpRead, ReadOutput, ReadFails, ReadNothing, ReadBytes,
    Consume, PumpFails, AfterRead, Least, Eof, NoHolder, Channels
<1>23. CASE (ChildSetpgid \/ ChildExec \/ ChildSetupFails \/ ChildCloses \/
      ChildSpawns \/ ChildLeavesGroup \/ DescEscapes \/ DescRejoins \/
      DescExits \/ ChildExits \/ ReapedElsewhere \/ ChildDies) /\ UNCHANGED
      runtimeVars
  BY <1>23 DEF ChildSetpgid, ChildExec, ChildSetupFails, ChildCloses,
    ChildSpawns, ChildLeavesGroup, DescEscapes, DescRejoins, DescExits,
    ChildExits, ReapedElsewhere, ChildDies, runtimeVars
<1>24. ASSUME NEW w \in Writers, NEW c \in Channels, Write(w, c),
             UNCHANGED runtimeVars
      PROVE  TerminalInv'
  BY <1>24 DEF Write, runtimeVars
<1>. QED BY <1>1, <1>2, <1>3, <1>4, <1>5, <1>6, <1>7, <1>8, <1>9, <1>10,
    <1>11, <1>12, <1>13, <1>14, <1>15, <1>16, <1>17, <1>18, <1>19, <1>20,
    <1>21, <1>22, <1>23, <1>24 DEF Next, Runtime, Caller, Environment,
    ChildSetup, ProgramStep, Channels

\* The invariant holds initially ...
LEMMA InvInit == Init => IInv
<1>. SUFFICES ASSUME Init PROVE IInv
  OBVIOUS
<1>1. TypeOK
  <2>1. OsTypeOK
    <3>1. /\ child \in Gone /\ ingroup \in BOOLEAN /\ killed \in BOOLEAN
          /\ desc \in {"none", "group", "escaped", "dead"}
          /\ report \in {"pending", "exec", "error"}
      BY DEF Init, OsInit, Gone
    <3>2. held \in [Writers -> SUBSET Ends]
      BY DEF Init, OsInit
    <3>3. pipe \in [Channels -> Seq(Writers)]
      BY DEF Init, OsInit
    <3>4. wrote \in [Writers -> [Channels -> Nat]]
      BY DEF Init, OsInit
    <3>. QED BY <3>1, <3>2, <3>3, <3>4 DEF OsTypeOK
  <2>2. st \in States
    BY DEF Init, Blank, States
  <2>3. fr \in Frames
    BY FrameType DEF Init
  <2>. QED BY <2>1, <2>2, <2>3 DEF Init, TypeOK, Handles, Sites, Ends
<1>2. ControlInv /\ AnchorInv
  BY DEF Init, Blank, Frame, ControlInv, AnchorInv, Anchored, SetupSites,
         PumpSites, SignalSites, KillSites, CleanupSites
<1>3. OwnInv /\ TerminalInv
  BY DEF Init, OsInit, Blank, Frame, OwnInv, TerminalInv, Gone, SetupSites
<1>. QED BY <1>1, <1>2, <1>3 DEF IInv

\* Every step keeps it: first its type part alone, which needs none of the rest ...
LEMMA TypeStep ==
  ASSUME TypeOK, [Next]_vars
  PROVE  TypeOK'
<1>1. CASE Next
  BY <1>1, OsTypeStep, StTypeStep, FrTypeStep, RestTypeStep
     DEF TypeOK, RestTypeOK
<1>2. CASE UNCHANGED vars
  BY <1>2 DEF vars, TypeOK, OsTypeOK
<1>. QED BY <1>1, <1>2

\* ... then all of it.
LEMMA InvStep ==
  ASSUME IInv, [Next]_vars
  PROVE  IInv'
<1>1. TypeOK'
  BY TypeStep DEF IInv
<1>2. CASE Next
  BY <1>1, <1>2, ControlStep, AnchorStep, OwnStep, TerminalStep DEF IInv
<1>3. CASE UNCHANGED vars
  BY <1>1, <1>3 DEF vars, IInv, ControlInv, AnchorInv, OwnInv, TerminalInv,
     StartCall, PumpCall, OtherCall
<1>. QED BY <1>2, <1>3

\* The records of stdlib/runtime.c keep their types through every call,
\* fault and interleaving with the child.
THEOREM TypeCorrect == Spec => []TypeOK
<1>1. Init => TypeOK
  BY InvInit DEF IInv
<1>2. TypeOK /\ [Next]_vars => TypeOK'
  BY TypeStep
<1>. QED BY <1>1, <1>2, PTL DEF Spec

\* The inductive invariant of the process handle holds in every behaviour.
THEOREM Invariance == Spec => []IInv
<1>1. IInv /\ [Next]_vars => IInv'
  BY InvStep
<1>. QED BY InvInit, <1>1, PTL DEF Spec

\* No kill of the runtime is aimed at a pid it no longer owns: every signal
\* is sent under the anchor, and unless something else has just reaped the
\* child the number is still the child's.
THEOREM SignalSafety == Spec => []SignalsOnlyOwned
<1>1. IInv => SignalsOnlyOwned
  BY DEF IInv, AnchorInv, OwnInv, SignalsOnlyOwned, Anchored, Unreaped
<1>. QED BY Invariance, <1>1, PTL

\* The runtime never reaps the child while a descendant is alive in its
\* group: the terminal signal precedes every waitpid.
THEOREM GroupSafety == Spec => []ReapedGroupEmpty
<1>1. IInv => ReapedGroupEmpty
  BY DEF IInv, TerminalInv, ReapedGroupEmpty
<1>. QED BY Invariance, <1>1, PTL

\* start, wait, terminate and drop leave no child, anchor or descriptor
\* behind when they return without a live handle.
THEOREM ReturnSafety == Spec => []ReturnsOwnNothing
<1>1. IInv => ReturnsOwnNothing
  BY DEF IInv, ControlInv, AnchorInv, OwnInv, ReturnsOwnNothing, Blank,
     SetupSites
<1>. QED BY Invariance, <1>1, PTL

\* Every step of the runtime is a step of the contract or leaves the caller's
\* view unchanged.
LEMMA ContractStep ==
  ASSUME IInv, Next
  PROVE  [Contract!Next]_(Contract!handleVars)
<1>1. CASE StartRejected \/ StartRelease
  BY <1>1 DEF StartRejected, StartRelease, IInv, TypeOK, States, Handles,
    Goto, ControlInv, AnchorInv, Anchored, StartCall, PumpCall, OtherCall,
    SetupSites, PumpSites, SignalSites, KillSites, CleanupSites, Phase,
    Outcome, NoResult, Contract!Next, Contract!handleVars, Contract!Spawn,
    Contract!Deliver, Contract!Lose, Contract!Complete, Contract!Fail,
    Contract!Consume, Contract!Exit
<1>2. CASE ConsumeInert
  <2>1. st = Blank /\ ~st.ready /\ ~st.pid
    BY <1>2 DEF ConsumeInert, IInv, AnchorInv, Blank
  <2>2. Phase = "inert" /\ Phase' = "moved"
    BY <1>2 DEF ConsumeInert, Phase
  <2>. QED BY <1>2, <2>1, <2>2
         DEF ConsumeInert, Outcome, Contract!Next, Contract!Consume
<1>3. CASE PumpCheck
  BY <1>3 DEF PumpCheck, IInv, TypeOK, States, Handles, Goto, ControlInv,
    AnchorInv, Anchored, StartCall, PumpCall, OtherCall, SetupSites,
    PumpSites, SignalSites, KillSites, CleanupSites, Phase, Outcome, NoResult,
    Contract!Next, Contract!handleVars, Contract!Spawn, Contract!Deliver,
    Contract!Lose, Contract!Complete, Contract!Fail, Contract!Consume,
    Contract!Exit
<1>4. CASE PumpOk
  BY <1>4 DEF PumpOk, IInv, TypeOK, States, Handles, Goto, ControlInv,
    AnchorInv, Anchored, StartCall, PumpCall, OtherCall, SetupSites,
    PumpSites, SignalSites, KillSites, CleanupSites, Phase, Outcome, NoResult,
    Contract!Next, Contract!handleVars, Contract!Spawn, Contract!Deliver,
    Contract!Lose, Contract!Complete, Contract!Fail, Contract!Consume,
    Contract!Exit
<1>5. CASE PumpMark \/ PumpFinishCheck \/ DeadlineReached \/ Finished
  BY <1>5 DEF PumpMark, PumpFinishCheck, DeadlineReached, Finished, Cancel,
    vars, IInv, TypeOK, States, Handles, Goto, ControlInv, AnchorInv,
    Anchored, StartCall, PumpCall, OtherCall, SetupSites, PumpSites,
    SignalSites, KillSites, CleanupSites, Phase, Outcome, NoResult,
    Contract!Next, Contract!handleVars, Contract!Spawn, Contract!Deliver,
    Contract!Lose, Contract!Complete, Contract!Fail, Contract!Consume,
    Contract!Exit
<1>6. CASE Start
  <2>1. st = Blank /\ ~st.ready /\ ~st.pid
    BY <1>6 DEF Start, IInv, AnchorInv, Blank
  <2>2. PICK l, u : st' = [Blank EXCEPT !.limit = l, !.unsent = u]
    BY <1>6 DEF Start
  <2>3. st'.ready = FALSE /\ st'.pid = FALSE /\ st.pid = FALSE
    BY <2>1, <2>2 DEF Blank
  <2>4. UNCHANGED handle /\ pc = "idle" /\ pc' # "aborted"
    BY <1>6 DEF Start, Goto
  <2>. QED BY <2>1, <2>3, <2>4 DEF Phase, Outcome, Contract!handleVars
<1>7. CASE StartFork
  BY <1>7 DEF StartFork, Fork, IInv, TypeOK, States, Handles, Goto,
    ControlInv, AnchorInv, Anchored, StartCall, PumpCall, OtherCall,
    SetupSites, PumpSites, SignalSites, KillSites, CleanupSites, Phase,
    Outcome, NoResult, Contract!Next, Contract!handleVars, Contract!Spawn,
    Contract!Deliver, Contract!Lose, Contract!Complete, Contract!Fail,
    Contract!Consume, Contract!Exit
<1>8. CASE StartSetpgid
  BY <1>8 DEF StartSetpgid, ParentSetpgid, IInv, TypeOK, States, Handles,
    Goto, ControlInv, AnchorInv, Anchored, StartCall, PumpCall, OtherCall,
    SetupSites, PumpSites, SignalSites, KillSites, CleanupSites, Phase,
    Outcome, NoResult, Contract!Next, Contract!handleVars, Contract!Spawn,
    Contract!Deliver, Contract!Lose, Contract!Complete, Contract!Fail,
    Contract!Consume, Contract!Exit
<1>9. CASE StartHandshake
  BY <1>9 DEF StartHandshake, ExecEof, IInv, TypeOK, States, Handles, Goto,
    ControlInv, AnchorInv, Anchored, StartCall, PumpCall, OtherCall,
    SetupSites, PumpSites, SignalSites, KillSites, CleanupSites, Phase,
    Outcome, NoResult, Contract!Next, Contract!handleVars, Contract!Spawn,
    Contract!Deliver, Contract!Lose, Contract!Complete, Contract!Fail,
    Contract!Consume, Contract!Exit
<1>10. CASE Wait \/ Terminate \/ Drop
  BY <1>10 DEF Wait, Terminate, Drop, Call, Frame, IInv, TypeOK, States,
    Handles, Goto, ControlInv, AnchorInv, Anchored, StartCall, PumpCall,
    OtherCall, SetupSites, PumpSites, SignalSites, KillSites, CleanupSites,
    Phase, Outcome, NoResult, Contract!Next, Contract!handleVars,
    Contract!Spawn, Contract!Deliver, Contract!Lose, Contract!Complete,
    Contract!Fail, Contract!Consume, Contract!Exit
<1>11. CASE PumpClock \/ PumpSnapshotOut
  BY <1>11 DEF PumpClock, PumpSnapshotOut, PumpFails, ReadsClock, Cancel,
    Queued, IInv, TypeOK, States, Handles, Goto, ControlInv, AnchorInv,
    Anchored, StartCall, PumpCall, OtherCall, SetupSites, PumpSites,
    SignalSites, KillSites, CleanupSites, Phase, Outcome, NoResult,
    Contract!Next, Contract!handleVars, Contract!Spawn, Contract!Deliver,
    Contract!Lose, Contract!Complete, Contract!Fail, Contract!Consume,
    Contract!Exit
<1>12. CASE PumpSnapshotErr
  BY <1>12 DEF PumpSnapshotErr, PumpFails, Queued, IInv, TypeOK, States,
    Handles, Goto, ControlInv, AnchorInv, Anchored, StartCall, PumpCall,
    OtherCall, SetupSites, PumpSites, SignalSites, KillSites, CleanupSites,
    Phase, Outcome, NoResult, Contract!Next, Contract!handleVars,
    Contract!Spawn, Contract!Deliver, Contract!Lose, Contract!Complete,
    Contract!Fail, Contract!Consume, Contract!Exit
<1>13. CASE PumpPoll
  BY <1>13 DEF PumpPoll, PumpFails, Readable, Eof, NoHolder, IInv, TypeOK,
    States, Handles, Goto, ControlInv, AnchorInv, Anchored, StartCall,
    PumpCall, OtherCall, SetupSites, PumpSites, SignalSites, KillSites,
    CleanupSites, Phase, Outcome, NoResult, Contract!Next,
    Contract!handleVars, Contract!Spawn, Contract!Deliver, Contract!Lose,
    Contract!Complete, Contract!Fail, Contract!Consume, Contract!Exit
<1>14. CASE PumpWrite
  BY <1>14 DEF PumpWrite, WriteInput, PumpFails, NoHolder, Least, IInv,
    TypeOK, States, Handles, Goto, ControlInv, AnchorInv, Anchored, StartCall,
    PumpCall, OtherCall, SetupSites, PumpSites, SignalSites, KillSites,
    CleanupSites, Phase, Outcome, NoResult, Contract!Next,
    Contract!handleVars, Contract!Spawn, Contract!Deliver, Contract!Lose,
    Contract!Complete, Contract!Fail, Contract!Consume, Contract!Exit
<1>15. CASE PumpProbe
  BY <1>15 DEF PumpProbe, Probed, PumpFails, IInv, TypeOK, States, Handles,
    Goto, ControlInv, AnchorInv, Anchored, StartCall, PumpCall, OtherCall,
    SetupSites, PumpSites, SignalSites, KillSites, CleanupSites, Phase,
    Outcome, NoResult, Contract!Next, Contract!handleVars, Contract!Spawn,
    Contract!Deliver, Contract!Lose, Contract!Complete, Contract!Fail,
    Contract!Consume, Contract!Exit
<1>16. CASE SignalOwnedProbe
  <2>1. /\ st' = st \/ \E pid \in BOOLEAN : st' = [st EXCEPT !.pid = pid]
        /\ UNCHANGED handle
    BY <1>16 DEF SignalOwnedProbe
  <2>2. pc \in Anchored /\ pc # "aborted" /\ pc' # "aborted"
    BY <1>16
       DEF SignalOwnedProbe, Probed, Raise, Goto,
           Anchored, IInv, TypeOK, Frames
  <2>3. st.pid /\ ~st.ready
    BY <2>2 DEF IInv, AnchorInv
  <2>4. st'.ready = st.ready /\ st'.pid \in BOOLEAN
    BY <2>1 DEF IInv, TypeOK, States
  <2>5. handle \in {"none", "live"}
    BY <1>16
       DEF SignalOwnedProbe, IInv, ControlInv, StartCall, OtherCall,
           SignalSites, KillSites, CleanupSites
  <2>. QED BY <2>1, <2>2, <2>3, <2>4, <2>5
         DEF Phase, Outcome, Contract!handleVars, Contract!Next, Contract!Lose
<1>17. CASE SignalTerminalProbe
  <2>1. /\ st' = st \/ \E pid \in BOOLEAN : st' = [st EXCEPT !.pid = pid]
        /\ UNCHANGED handle
    BY <1>17 DEF SignalTerminalProbe
  <2>2. pc \in Anchored /\ pc # "aborted" /\ pc' # "aborted"
    BY <1>17
       DEF SignalTerminalProbe, Probed, Raise, TerminalDone, Goto,
           Anchored, IInv, TypeOK, Frames
  <2>3. st.pid /\ ~st.ready
    BY <2>2 DEF IInv, AnchorInv
  <2>4. st'.ready = st.ready /\ st'.pid \in BOOLEAN
    BY <2>1 DEF IInv, TypeOK, States
  <2>5. handle \in {"none", "live"}
    BY <1>17
       DEF SignalTerminalProbe, IInv, ControlInv, StartCall, OtherCall,
           SignalSites, KillSites, CleanupSites
  <2>. QED BY <2>1, <2>2, <2>3, <2>4, <2>5
         DEF Phase, Outcome, Contract!handleVars, Contract!Next, Contract!Lose
<1>18. CASE CleanupFinalProbe
  BY <1>18 DEF CleanupFinalProbe, Probed, IInv, TypeOK, States, Handles, Goto,
    ControlInv, AnchorInv, Anchored, StartCall, PumpCall, OtherCall,
    SetupSites, PumpSites, SignalSites, KillSites, CleanupSites, Phase,
    Outcome, NoResult, Contract!Next, Contract!handleVars, Contract!Spawn,
    Contract!Deliver, Contract!Lose, Contract!Complete, Contract!Fail,
    Contract!Consume, Contract!Exit
<1>19. CASE CleanupLastProbe
  BY <1>19 DEF CleanupLastProbe, Probed, IInv, TypeOK, States, Handles, Goto,
    ControlInv, AnchorInv, Anchored, StartCall, PumpCall, OtherCall,
    SetupSites, PumpSites, SignalSites, KillSites, CleanupSites, Phase,
    Outcome, NoResult, Contract!Next, Contract!handleVars, Contract!Spawn,
    Contract!Deliver, Contract!Lose, Contract!Complete, Contract!Fail,
    Contract!Consume, Contract!Exit
<1>20. CASE SignalOwnedDirect
  BY <1>20 DEF SignalOwnedDirect, Killed, KillPid, KillGroup, Raise, IInv,
    TypeOK, States, Handles, Goto, ControlInv, AnchorInv, Anchored, StartCall,
    PumpCall, OtherCall, SetupSites, PumpSites, SignalSites, KillSites,
    CleanupSites, Phase, Outcome, NoResult, Contract!Next,
    Contract!handleVars, Contract!Spawn, Contract!Deliver, Contract!Lose,
    Contract!Complete, Contract!Fail, Contract!Consume, Contract!Exit
<1>21. CASE SignalOwnedGroup
  BY <1>21 DEF SignalOwnedGroup, Killed, KillPid, KillGroup, Raise, OwnedDone,
    IInv, TypeOK, States, Handles, Goto, ControlInv, AnchorInv, Anchored,
    StartCall, PumpCall, OtherCall, SetupSites, PumpSites, SignalSites,
    KillSites, CleanupSites, Phase, Outcome, NoResult, Contract!Next,
    Contract!handleVars, Contract!Spawn, Contract!Deliver, Contract!Lose,
    Contract!Complete, Contract!Fail, Contract!Consume, Contract!Exit
<1>22. CASE SignalOwnedLate
  BY <1>22 DEF SignalOwnedLate, Killed, KillPid, KillGroup, Raise, OwnedDone,
    IInv, TypeOK, States, Handles, Goto, ControlInv, AnchorInv, Anchored,
    StartCall, PumpCall, OtherCall, SetupSites, PumpSites, SignalSites,
    KillSites, CleanupSites, Phase, Outcome, NoResult, Contract!Next,
    Contract!handleVars, Contract!Spawn, Contract!Deliver, Contract!Lose,
    Contract!Complete, Contract!Fail, Contract!Consume, Contract!Exit
<1>23. CASE SignalTerminalKill
  BY <1>23 DEF SignalTerminalKill, Killed, KillPid, KillGroup, Raise,
    TerminalDone, IInv, TypeOK, States, Handles, Goto, ControlInv, AnchorInv,
    Anchored, StartCall, PumpCall, OtherCall, SetupSites, PumpSites,
    SignalSites, KillSites, CleanupSites, Phase, Outcome, NoResult,
    Contract!Next, Contract!handleVars, Contract!Spawn, Contract!Deliver,
    Contract!Lose, Contract!Complete, Contract!Fail, Contract!Consume,
    Contract!Exit
<1>24. CASE PumpFinish
  <2>1. PICK pid \in BOOLEAN :
          \/ /\ st' = [st EXCEPT !.pid = pid]
             /\ pc' = "cleanup"
          \/ /\ st' = [st EXCEPT !.pid = pid, !.ready = TRUE,
                                 !.fds = @ \ {"in"}, !.unsent = 0]
             /\ ~pid /\ pc' = "pump_ok"
    BY <1>24 DEF PumpFinish, Reaped, PumpFails, Goto
  <2>2. pc = "finish" /\ UNCHANGED handle /\ handle = "live" /\ st.pid /\ ~st.ready
    BY <1>24 DEF PumpFinish, IInv, ControlInv, AnchorInv, Anchored, PumpSites, PumpCall
  <2>3. CASE st' = [st EXCEPT !.pid = pid] /\ pc' = "cleanup"
    <3>1. st'.pid = pid /\ st'.ready = st.ready
      BY <2>3 DEF IInv, TypeOK, States
    <3>. QED BY <2>2, <2>3, <3>1
           DEF Phase, Outcome, Contract!handleVars, Contract!Next, Contract!Lose
  <2>4. CASE /\ st' = [st EXCEPT !.pid = pid, !.ready = TRUE,
                                !.fds = @ \ {"in"}, !.unsent = 0]
             /\ ~pid /\ pc' = "pump_ok"
    <3>1. ~st'.pid /\ st'.ready
      BY <2>4 DEF IInv, TypeOK, States
    <3>. QED BY <2>2, <2>4, <3>1
           DEF Phase, Outcome, NoResult, Contract!Next, Contract!Complete
  <2>. QED BY <2>1, <2>3, <2>4
<1>25. CASE CleanupReap
  <2>1. /\ st' = st \/ \E pid \in BOOLEAN : st' = [st EXCEPT !.pid = pid]
        /\ UNCHANGED handle
    BY <1>25 DEF CleanupReap
  <2>2. pc \in Anchored /\ pc # "aborted" /\ pc' # "aborted"
    BY <1>25
       DEF CleanupReap, Reaped, Raise, Goto,
           Anchored, IInv, TypeOK, Frames
  <2>3. st.pid /\ ~st.ready
    BY <2>2 DEF IInv, AnchorInv
  <2>4. st'.ready = st.ready /\ st'.pid \in BOOLEAN
    BY <2>1 DEF IInv, TypeOK, States
  <2>5. handle \in {"none", "live"}
    BY <1>25
       DEF CleanupReap, IInv, ControlInv, StartCall, OtherCall,
           SignalSites, KillSites, CleanupSites
  <2>. QED BY <2>1, <2>2, <2>3, <2>4, <2>5
         DEF Phase, Outcome, Contract!handleVars, Contract!Next, Contract!Lose
<1>26. CASE Cleanup \/ CleanupRetry
  BY <1>26 DEF Cleanup, CleanupRetry, Attempt, IInv, TypeOK, States, Handles,
    Goto, ControlInv, AnchorInv, Anchored, StartCall, PumpCall, OtherCall,
    SetupSites, PumpSites, SignalSites, KillSites, CleanupSites, Phase,
    Outcome, NoResult, Contract!Next, Contract!handleVars, Contract!Spawn,
    Contract!Deliver, Contract!Lose, Contract!Complete, Contract!Fail,
    Contract!Consume, Contract!Exit
<1>27. CASE CleanupClose
  BY <1>27 DEF CleanupClose, Blank, IInv, TypeOK, States, Handles, Goto,
    ControlInv, AnchorInv, Anchored, StartCall, PumpCall, OtherCall,
    SetupSites, PumpSites, SignalSites, KillSites, CleanupSites, Phase,
    Outcome, NoResult, Contract!Next, Contract!handleVars, Contract!Spawn,
    Contract!Deliver, Contract!Lose, Contract!Complete, Contract!Fail,
    Contract!Consume, Contract!Exit
<1>28. ASSUME NEW c \in Channels, PumpRead(c) PROVE  [Contract!Next]_(Contract!handleVars)
  BY <1>28 DEF PumpRead, ReadOutput, ReadFails, ReadNothing, ReadBytes,
    Consume, PumpFails, AfterRead, Least, Eof, NoHolder, Channels, IInv,
    TypeOK, States, Handles, Goto, ControlInv, AnchorInv, Anchored, StartCall,
    PumpCall, OtherCall, SetupSites, PumpSites, SignalSites, KillSites,
    CleanupSites, Phase, Outcome, NoResult, Contract!Next,
    Contract!handleVars, Contract!Spawn, Contract!Deliver, Contract!Lose,
    Contract!Complete, Contract!Fail, Contract!Consume, Contract!Exit
<1>29. CASE (ChildSetpgid \/ ChildExec \/ ChildSetupFails \/ ChildCloses \/
      ChildSpawns \/ ChildLeavesGroup \/ DescEscapes \/ DescRejoins \/
      DescExits \/ ChildExits \/ ReapedElsewhere \/ ChildDies) /\ UNCHANGED
      runtimeVars
  BY <1>29 DEF ChildSetpgid, ChildExec, ChildSetupFails, ChildCloses,
    ChildSpawns, ChildLeavesGroup, DescEscapes, DescRejoins, DescExits,
    ChildExits, ReapedElsewhere, ChildDies, runtimeVars, Phase, Outcome,
    Contract!handleVars
<1>30. ASSUME NEW w \in Writers, NEW c \in Channels, Write(w, c),
             UNCHANGED runtimeVars
      PROVE  [Contract!Next]_(Contract!handleVars)
  BY <1>30 DEF Write, runtimeVars, Phase, Outcome, Contract!handleVars
<1>. QED BY <1>1, <1>2, <1>3, <1>4, <1>5, <1>6, <1>7, <1>8, <1>9, <1>10,
    <1>11, <1>12, <1>13, <1>14, <1>15, <1>16, <1>17, <1>18, <1>19, <1>20,
    <1>21, <1>22, <1>23, <1>24, <1>25, <1>26, <1>27, <1>28, <1>29, <1>30 DEF
    Next, Runtime, Caller, Environment, ChildSetup, ProgramStep, Channels

\* The runtime implements the handle contract for all values of the
\* constants.
THEOREM ContractHolds == Spec => ImplementsContract
<1>1. Init => Contract!Init
  BY DEF Init, Blank, Contract!Init, Phase, Outcome, NoResult
<1>2. IInv /\ [Next]_vars => [Contract!Next]_(Contract!handleVars)
  <2>1. ASSUME IInv, UNCHANGED vars PROVE UNCHANGED Contract!handleVars
    BY <2>1 DEF vars, Contract!handleVars, Phase, Outcome
  <2>. QED BY <2>1, ContractStep
<1>. QED BY Invariance, <1>1, <1>2, PTL DEF Spec, ImplementsContract, Contract!Spec

------------------------------------------------------------------------------
(***************************************************************************)
(* What an outcome says: a second inductive invariant, relative to IInv.   *)
(* RetryInv counts the faults of a cleanup, CauseInv and EarlyInv follow a *)
(* kill from the decision to signal to the recorded cause, CaptureInv      *)
(* follows the child's bytes from the pipe to the outcome.                 *)
(***************************************************************************)

\* The places from which an error is raised to the caller named in the frame.
CallSites == SignalSites \cup {"reap"}

\* How many faults the cleanup in progress has seen, at every place it can
\* be in: one per failed attempt before the final round begins.
RetryInv ==
  /\ pc \in PumpSites \ {"pump_ok"} => fr.caller = "pump"
  /\ pc \in CallSites /\ fr.caller = "attempt" =>
       fr.attempt \in 1..2 /\ faults >= fr.since + fr.attempt - 1
  /\ pc \in CallSites /\ fr.caller = "final" => faults >= fr.since + 2
  /\ pc = "retry" /\ st.pid =>
       fr.attempt \in 1..2 /\ faults >= fr.since + fr.attempt
  /\ pc = "final_probe" => faults >= fr.since + 2
  /\ pc = "last_probe" /\ st.pid => faults >= fr.since + 2
  /\ AbortNeedsTwoFaults

\* The pump or a signalling routine it called is running.
InPump == \/ pc \in PumpSites \ {"pump_ok"}
          \/ pc \in SignalSites /\ fr.caller = "pump"
\* The record st may still become, or is, an outcome the caller sees.
Kept == InPump \/ st.ready \/ (pc = "idle" /\ handle = "live")

\* Between the pump's decision to signal and the recording of its cause.
Owning ==
  InPump /\ pc \in {"so_probe", "so_direct", "so_group", "so_late", "mark"}

\* A kill that reached the child is on the way to be recorded, or recorded:
\* fr.exited FALSE at "mark" means that PumpMark is about to record it.
CauseInv ==
  /\ InPump /\ fr.exited => child \in Exited
  /\ Owning /\ ~fr.exited => fr.expired \/ Cancel
  /\ Owning => (st.signalled <=> pc = "mark")
  /\ pc = "idle" /\ handle = "live" /\ ~st.ready => ~st.signalled
  /\ Kept /\ ~st.signalled => ~st.timed_out /\ ~st.cancelled
  /\ Kept /\ ~st.signalled /\ killed =>
       Owning /\ pc # "so_probe" /\ ~fr.exited
  /\ Kept /\ st.signalled /\ killed =>
       IF pc = "mark" THEN ~fr.exited ELSE st.timed_out \/ st.cancelled
  /\ pc \in SetupSites =>
       ~st.ready /\ ~st.signalled /\ ~st.timed_out /\ ~st.cancelled
  /\ pc \in {"setpgid", "handshake"} => ~killed

\* A child that had exited when the pump looked is seen as exited by the fresh
\* probe of nq_process_signal_owned, so no cause is recorded.
EarlyInv ==
  /\ InPump /\ fr.early => child \in Exited
  /\ InPump /\ fr.early /\ pc \in {"so_direct", "so_group", "so_late", "mark"} =>
       fr.exited
  /\ (InPump \/ st.ready) /\ fr.early => ~st.timed_out /\ ~st.cancelled

\* What most steps leave alone, as far as these two invariants read it.
SameFr == /\ fr'.exited = fr.exited /\ fr'.expired = fr.expired
          /\ fr'.op = fr.op /\ fr'.caller = fr.caller /\ fr'.early = fr.early
SameSt == /\ st'.ready = st.ready /\ st'.signalled = st.signalled
          /\ st'.timed_out = st.timed_out /\ st'.cancelled = st.cancelled

\* A kill either reaches a child that executes instructions, or changes
\* neither the child nor the history variable killed.
KillSeen == \/ child' = child /\ (killed' <=> killed)
            \/ child \in Alive /\ child' = "dying" /\ killed'

\* Both kill targets, failing or not.
LEMMA KilledSeen ==
  ASSUME NEW target \in {"pid", "group"}, NEW err \in BOOLEAN,
         Killed(target, err), OsTypeOK
  PROVE  KillSeen
  BY DEF KillSeen, Killed, KillPid, KillGroup, osVars, OsTypeOK, Alive

\* How often a writer occurs in a sequence: a natural number, zero when no
\* position has it.
LEMMA CountType ==
  ASSUME NEW w, NEW s \in Seq(Writers)
  PROVE  /\ CountOf(w, s) \in Nat
         /\ IsFiniteSet({i \in DOMAIN s : s[i] = w})
         /\ (\A i \in DOMAIN s : s[i] # w) => CountOf(w, s) = 0
<1>1. IsFiniteSet(1..Len(s))
  BY FS_Interval
<1>2. IsFiniteSet({i \in DOMAIN s : s[i] = w})
  BY <1>1, FS_Subset
<1>3. ASSUME \A i \in DOMAIN s : s[i] # w  PROVE  CountOf(w, s) = 0
  <2>1. {i \in DOMAIN s : s[i] = w} = {}
    BY <1>3
  <2>. QED BY <2>1, FS_EmptySet DEF CountOf
<1>. QED BY <1>2, <1>3, FS_CardinalityType DEF CountOf

\* Appending counts one more when it is that writer.
LEMMA CountAppend ==
  ASSUME NEW w, NEW s \in Seq(Writers), NEW x \in Writers
  PROVE  CountOf(w, Append(s, x)) = CountOf(w, s) + IF x = w THEN 1 ELSE 0
<1> DEFINE A == {i \in DOMAIN s : s[i] = w}
           B == {i \in DOMAIN Append(s, x) : Append(s, x)[i] = w}
<1>1. IsFiniteSet(A) /\ Cardinality(A) \in Nat
  BY CountType DEF CountOf
<1>2. Len(s) + 1 \notin A
  OBVIOUS
<1>3. CASE x = w
  <2>1. B = A \cup {Len(s) + 1}
    BY <1>3
  <2>2. Cardinality(B) = Cardinality(A) + 1
    BY ONLY <1>1, <1>2, <2>1, FS_AddElement
  <2>. QED BY <1>3, <2>2 DEF CountOf
<1>4. CASE x # w
  <2>1. B = A
    BY <1>4
  <2>2. Cardinality(A) + (IF x = w THEN 1 ELSE 0) = Cardinality(A)
    BY <1>1, <1>4
  <2>. QED BY <2>1, <2>2 DEF CountOf
<1>. QED BY <1>3, <1>4

\* A concatenation counts as much as its two parts.
LEMMA CountConcat ==
  ASSUME NEW w, NEW s \in Seq(Writers), NEW t \in Seq(Writers)
  PROVE  CountOf(w, s \o t) = CountOf(w, s) + CountOf(w, t)
<1> DEFINE A == {i \in DOMAIN s : s[i] = w}
           B == {i \in DOMAIN t : t[i] = w}
           D == {Len(s) + i : i \in B}
           f == [i \in B |-> Len(s) + i]
<1>1. /\ IsFiniteSet(A) /\ Cardinality(A) \in Nat
      /\ IsFiniteSet(B) /\ Cardinality(B) \in Nat
  BY CountType DEF CountOf
<1>2. ExistsBijection(B, D)
  <2>1. f \in [B -> D]
    OBVIOUS
  <2>2. \A i, j \in B : f[i] = f[j] => i = j
    OBVIOUS
  <2>3. \A d \in D : \E i \in B : f[i] = d
    OBVIOUS
  <2>. QED BY <2>1, <2>2, <2>3
       DEF ExistsBijection, Bijection, Injection, Surjection, IsInjective
<1>3. IsFiniteSet(D) /\ Cardinality(D) = Cardinality(B)
  BY <1>1, <1>2, FS_Bijection
<1>4. {i \in DOMAIN (s \o t) : (s \o t)[i] = w} = A \cup D
  <2>1. A \cup D \subseteq {i \in DOMAIN (s \o t) : (s \o t)[i] = w}
    OBVIOUS
  <2>2. ASSUME NEW i \in DOMAIN (s \o t), (s \o t)[i] = w
        PROVE  i \in A \cup D
    <3>1. CASE i \in DOMAIN s
      BY <2>2, <3>1
    <3>2. CASE i \notin DOMAIN s
      <4>1. i - Len(s) \in DOMAIN t /\ i = Len(s) + (i - Len(s))
        BY <2>2, <3>2
      <4>2. t[i - Len(s)] = w
        BY <2>2, <3>2, <4>1
      <4>. QED BY <4>1, <4>2
    <3>. QED BY <3>1, <3>2
  <2>. QED BY <2>1, <2>2
<1>5. A \cap D = {}
  OBVIOUS
<1>6. Cardinality(A \cup D) = Cardinality(A) + Cardinality(D)
  <2>1. Cardinality(A \cap D) = 0
    BY <1>5, FS_EmptySet
  <2>2. Cardinality(A \cup D) =
          Cardinality(A) + Cardinality(D) - Cardinality(A \cap D)
    BY ONLY <1>1, <1>3, FS_Union
  <2>. HIDE DEF A, B, D
  <2>. QED BY <1>1, <1>3, <2>1, <2>2
<1>. QED BY <1>3, <1>4, <1>6 DEF CountOf

\* Bytes moved from the front of a pipe to the end of a buffer are neither
\* lost nor doubled.
LEMMA CountMove ==
  ASSUME NEW w, NEW b \in Seq(Writers), NEW s \in Seq(Writers),
         NEW n \in 0..Len(s)
  PROVE  LET moved == SubSeq(s, 1, n)
             rest  == SubSeq(s, n + 1, Len(s))
         IN  /\ moved \in Seq(Writers) /\ Len(moved) = n
             /\ rest \in Seq(Writers) /\ Len(rest) = Len(s) - n
             /\ \A i \in DOMAIN rest : i + n \in DOMAIN s /\ rest[i] = s[i + n]
             /\ CountOf(w, b \o moved) + CountOf(w, rest)
                  = CountOf(w, b) + CountOf(w, s)
<1> DEFINE moved == SubSeq(s, 1, n)
           rest  == SubSeq(s, n + 1, Len(s))
<1>1. moved \in Seq(Writers) /\ Len(moved) = n
  <2>1. \A i \in 1..n : i \in 1..Len(s)
    OBVIOUS
  <2>. QED BY <2>1
<1>2. rest \in Seq(Writers) /\ Len(rest) = Len(s) - n
  OBVIOUS
<1>3. \A i \in DOMAIN rest : i + n \in DOMAIN s /\ rest[i] = s[i + n]
  BY <1>2
<1> HIDE DEF moved, rest
<1>4. s = moved \o rest
  <2>. n + (Len(s) - n) = Len(s) /\ Len(s) \in Nat
    OBVIOUS
  <2>1. Len(moved \o rest) = Len(s) /\ moved \o rest \in Seq(Writers)
    <3>1. ASSUME NEW p \in Seq(Writers), NEW q \in Seq(Writers)
          PROVE  Len(p \o q) = Len(p) + Len(q) /\ p \o q \in Seq(Writers)
      OBVIOUS
    <3>. QED BY <1>1, <1>2, <3>1
  <2>2. ASSUME NEW i \in 1..Len(s)  PROVE  (moved \o rest)[i] = s[i]
    <3>1. CASE i <= n
      <4>1. moved[i] = s[i]
        BY <3>1 DEF moved
      <4>. QED BY <1>1, <1>2, <3>1, <4>1
    <3>2. CASE i > n
      <4>1. i - n \in DOMAIN rest /\ i - n + n = i
        BY <1>2, <3>2
      <4>2. rest[i - n] = s[i]
        BY <1>3, <4>1
      <4>3. ASSUME NEW p \in Seq(Writers), NEW q \in Seq(Writers),
                   NEW j \in DOMAIN q
            PROVE  (p \o q)[Len(p) + j] = q[j]
        OBVIOUS
      <4>4. (moved \o rest)[n + (i - n)] = rest[i - n]
        BY <1>1, <1>2, <4>1, <4>3
      <4>5. n + (i - n) = i
        OBVIOUS
      <4>. QED BY <4>2, <4>4, <4>5
    <3>3. i \in Nat /\ n \in Nat
      OBVIOUS
    <3>4. i <= n \/ i > n
      BY <3>3
    <3>. QED BY <3>1, <3>2, <3>4, Zenon
  <2>3. ASSUME NEW p \in Seq(Writers), NEW q \in Seq(Writers), Len(p) = Len(q),
               \A i \in 1..Len(p) : p[i] = q[i]
        PROVE  p = q
    BY <2>3
  <2>. QED BY <2>1, <2>2, <2>3
<1>5. CountOf(w, s) = CountOf(w, moved) + CountOf(w, rest)
  BY <1>1, <1>2, <1>4, CountConcat
<1>6. CountOf(w, b \o moved) = CountOf(w, b) + CountOf(w, moved)
  BY <1>1, CountConcat
<1>7. /\ CountOf(w, b) \in Nat /\ CountOf(w, moved) \in Nat
      /\ CountOf(w, rest) \in Nat
  BY <1>1, <1>2, CountType
<1>. QED BY <1>1, <1>2, <1>3, <1>5, <1>6, <1>7 DEF moved, rest

\* Forked, and the pipe ends still local to nq_process_start.
Starting  == pc \in {"setpgid", "handshake"}
\* There is a child whose output this record has to hold.
Capturing == Starting \/ Kept
\* The output pipes the runtime still reads.
Open == (IF Starting THEN setup ELSE st.fds) \cap Channels
\* No byte of the child is left in pipe c; none beyond position n.
Clean(c) == \A i \in DOMAIN pipe[c] : pipe[c][i] # "child"
Within(c, n) == \A i \in DOMAIN pipe[c] : pipe[c][i] = "child" => i <= n

\* Every byte the child wrote is in the buffer or still in the pipe; a pipe is
\* closed only when none is left there and none can come; and while draining,
\* the snapshot of the queue length covers all that the exited child left,
\* whatever a descendant appends.
CaptureInv ==
  /\ Used <= st.limit
  /\ pc = "fork" => st.buffer = Blank.buffer
  /\ Capturing => \A c \in Channels :
       /\ CountOf("child", st.buffer[c]) + CountOf("child", pipe[c])
            = wrote["child"][c]
       /\ c \notin Open =>
            (c \notin held["child"] \/ child \in Exited) /\ Clean(c)
  /\ InPump /\ fr.draining => \A c \in Channels : Within(c, fr.remaining[c])
  /\ pc = "snap_err" => Within("out", fr.remaining["out"])
  /\ pc = "finish" \/ st.ready => st.fds \cap Channels = {}

\* Neither reads nor writes a pipe, and gives the child no new descriptor.
OsKept == /\ UNCHANGED <<pipe, wrote>>
          /\ held'["child"] \subseteq held["child"]
          /\ child \in Exited => child' \in Exited

\* What the steps that move no byte leave alone.
SameDrain == UNCHANGED <<fr.draining, fr.remaining>>
SameBytes == /\ st'.buffer = st.buffer /\ st'.limit = st.limit
             /\ st'.ready = st.ready
             /\ st'.fds \cap Channels = st.fds \cap Channels

\* Every step of the operating system but fork, write and read is one.
LEMMA OsKeepsBytes ==
  ASSUME OsTypeOK,
         \/ UNCHANGED osVars
         \/ Reap \/ KillPid \/ KillGroup \/ ParentSetpgid
         \/ ChildSetpgid \/ ChildExec \/ ChildSetupFails \/ ChildCloses
         \/ ChildSpawns \/ ChildLeavesGroup \/ DescEscapes \/ DescRejoins
         \/ DescExits \/ ChildExits \/ ReapedElsewhere \/ ChildDies
  PROVE  OsKept
<1>. USE DEF OsKept, OsTypeOK, Exited, Alive, Unreaped, Gone, Writers
<1>1. CASE UNCHANGED osVars \/ Reap \/ KillPid \/ KillGroup \/ ParentSetpgid
  BY <1>1 DEF osVars, Reap, KillPid, KillGroup, ParentSetpgid
<1>2. CASE \/ ChildSetpgid \/ ChildExec \/ ChildSetupFails \/ ChildCloses
           \/ ChildSpawns \/ ChildLeavesGroup
  BY <1>2 DEF ChildSetpgid, ChildExec, ChildSetupFails, ChildCloses,
    ChildSpawns, ChildLeavesGroup
<1>3. CASE \/ DescEscapes \/ DescRejoins \/ DescExits \/ ChildExits
           \/ ReapedElsewhere \/ ChildDies
  BY <1>3 DEF DescEscapes, DescRejoins, DescExits, ChildExits,
    ReapedElsewhere, ChildDies
<1>. QED BY <1>1, <1>2, <1>3

\* A step that moves no byte, and opens or closes no output pipe, preserves
\* the capture invariant.
LEMMA CaptureKept ==
  ASSUME CaptureInv, OsKept, st'.buffer = st.buffer, st'.limit = st.limit,
         Capturing' => Capturing /\ Open' = Open,
         (InPump /\ fr.draining)' =>
            InPump /\ fr.draining /\ fr'.remaining = fr.remaining,
         pc' = "snap_err" => pc = "snap_err" /\ fr'.remaining = fr.remaining,
         pc' = "fork" => pc = "fork",
         pc' = "finish" \/ st'.ready =>
            \/ st'.fds \cap Channels = {}
            \/ /\ pc = "finish" \/ st.ready
               /\ st'.fds \cap Channels = st.fds \cap Channels
  PROVE  CaptureInv'
<1>1. (Used <= st.limit)'
  BY DEF CaptureInv, Used
<1>2. (pc = "fork" => st.buffer = Blank.buffer)'
  BY DEF CaptureInv, Blank
<1>3. ASSUME Capturing', NEW c \in Channels
      PROVE  /\ CountOf("child", st'.buffer[c]) + CountOf("child", pipe'[c])
                  = wrote'["child"][c]
             /\ c \notin Open' =>
                  (c \notin held'["child"] \/ child' \in Exited) /\ Clean(c)'
  <2>1. Capturing /\ Open' = Open
    BY <1>3
  <2>2. /\ CountOf("child", st.buffer[c]) + CountOf("child", pipe[c])
             = wrote["child"][c]
        /\ c \notin Open =>
             (c \notin held["child"] \/ child \in Exited) /\ Clean(c)
    BY <2>1 DEF CaptureInv
  <2>3. Clean(c)' = Clean(c) /\ pipe' = pipe /\ wrote' = wrote
    BY DEF OsKept, Clean
  <2>. QED BY <2>1, <2>2, <2>3 DEF OsKept
<1>4. ASSUME (InPump /\ fr.draining)', NEW c \in Channels
      PROVE  Within(c, fr.remaining[c])'
  <2>1. Within(c, fr.remaining[c])
    BY <1>4 DEF CaptureInv
  <2>. QED BY <1>4, <2>1 DEF Within, OsKept
<1>5. (pc = "snap_err" => Within("out", fr.remaining["out"]))'
  BY DEF CaptureInv, Within, OsKept
<1>6. (pc = "finish" \/ st.ready => st.fds \cap Channels = {})'
  BY DEF CaptureInv
<1>. QED BY <1>1, <1>2, <1>3, <1>4, <1>5, <1>6 DEF CaptureInv, Exited

\* Each failed attempt of a cleanup costs a fault: a system call that fails
\* because the child is gone gives up the anchor instead.
LEMMA RetryStep ==
  ASSUME TypeOK, RetryInv, Next
  PROVE  RetryInv'
<1>. USE DEF TypeOK, States, Frames, Goto, SetupSites, PumpSites,
    SignalSites, KillSites, CleanupSites, CallSites, RetryInv, Works, Fault,
    AbortNeedsTwoFaults
<1>1. CASE StartRejected \/ StartRelease \/ ConsumeInert \/ PumpCheck \/
      PumpOk \/ PumpMark \/ PumpFinishCheck \/ DeadlineReached \/ Finished
  BY <1>1 DEF StartRejected, StartRelease, ConsumeInert, PumpCheck, PumpOk,
    PumpMark, PumpFinishCheck, DeadlineReached, Finished, Cancel, vars, osVars
<1>2. CASE Start
  BY <1>2 DEF Start, Frame, Blank
<1>3. CASE StartFork \/ StartSetpgid \/ StartHandshake
  BY <1>3 DEF StartFork, StartSetpgid, StartHandshake, Fork, ParentSetpgid,
    ExecEof
<1>4. CASE Wait \/ Terminate \/ Drop
  BY <1>4 DEF Wait, Terminate, Drop, Call, Frame
<1>5. CASE PumpClock \/ PumpSnapshotOut \/ PumpSnapshotErr
  BY <1>5 DEF PumpClock, PumpSnapshotOut, PumpSnapshotErr, PumpFails,
    ReadsClock, Cancel, Queued
<1>6. CASE PumpPoll \/ PumpWrite
  BY <1>6 DEF PumpPoll, PumpWrite, PumpFails, Readable, Eof, NoHolder,
    WriteInput, Least
<1>7. CASE PumpProbe
  BY <1>7 DEF PumpProbe, Probed, PumpFails
<1>8. CASE SignalOwnedProbe
  <2>1. /\ fr'.caller = fr.caller /\ fr'.attempt = fr.attempt
        /\ fr'.since = fr.since /\ fr' \in Frames
    BY <1>8, OwnedProbeFrame
  <2>2. /\ pc = "so_probe" /\ faults' \in Nat
        /\ \/ /\ pc' \in {"so_direct", "so_group"} /\ faults' = faults
           \/ /\ Raise
              /\ st'.pid => faults' = faults + 1
              /\ faults' = faults \/ faults' = faults + 1
    BY <1>8 DEF SignalOwnedProbe, Probed
  <2>. QED BY <2>1, <2>2 DEF Raise
<1>9. CASE SignalTerminalProbe
  BY <1>9 DEF SignalTerminalProbe, Probed, Raise, TerminalDone
<1>10. CASE CleanupFinalProbe
  <2>1. /\ pc = "final_probe" /\ fr.since \in Nat /\ faults \in Nat
        /\ pc' \in {"st_probe", "final_probe", "last_probe"}
    BY <1>10 DEF CleanupFinalProbe
  <2>2. faults' \in Nat /\ faults' >= faults
    BY <1>10 DEF CleanupFinalProbe, Probed
  <2>3. fr'.since = fr.since
    BY <1>10 DEF CleanupFinalProbe
  <2>4. pc' = "st_probe" => fr'.caller = "final"
    BY <1>10 DEF CleanupFinalProbe
  <2>. QED BY <2>1, <2>2, <2>3, <2>4
<1>11. CASE CleanupLastProbe
  BY <1>11 DEF CleanupLastProbe, Probed
<1>12. CASE SignalOwnedDirect
  BY <1>12 DEF SignalOwnedDirect, Killed, KillPid, KillGroup, Raise
<1>13. CASE SignalOwnedGroup
  BY <1>13 DEF SignalOwnedGroup, Killed, KillPid, KillGroup, Raise,
    OwnedDone
<1>14. CASE SignalOwnedLate
  BY <1>14 DEF SignalOwnedLate, Killed, KillPid, KillGroup, Raise, OwnedDone
<1>15. CASE SignalTerminalKill
  BY <1>15 DEF SignalTerminalKill, Killed, KillPid, KillGroup, Raise,
    TerminalDone
<1>16. CASE PumpFinish
  BY <1>16 DEF PumpFinish, Reaped, Reap, PumpFails, Raise
<1>17. CASE CleanupReap
  BY <1>17 DEF CleanupReap, Reaped, Reap, Raise
<1>18. CASE Cleanup
  <2>1. faults \in Nat /\ pc = "cleanup" /\ UNCHANGED <<st, faults>>
    BY <1>18 DEF Cleanup
  <2>2. pc' \in {"reap", "so_probe", "close"}
    BY <1>18 DEF Cleanup, Attempt
  <2>3. pc' # "close" =>
          fr'.caller = "attempt" /\ fr'.attempt = 1 /\ fr'.since = faults
    BY <1>18 DEF Cleanup, Attempt
  <2>. QED BY <2>1, <2>2, <2>3
<1>19. CASE CleanupRetry
  <2>1. /\ faults \in Nat /\ fr.since \in Nat /\ fr.attempt \in 0..4
        /\ pc = "retry" /\ UNCHANGED <<st, faults>>
    BY <1>19 DEF CleanupRetry
  <2>2. CASE pc' = "close"
    BY <2>1, <2>2
  <2>3. CASE st.pid /\ fr.attempt = 1 /\ Attempt(2, fr.since)
    <3>1. /\ pc' \in {"reap", "so_probe"}
          /\ fr'.caller = "attempt" /\ fr'.attempt = 2 /\ fr'.since = fr.since
      BY <2>3 DEF Attempt
    <3>. QED BY <2>1, <2>3, <3>1
  <2>4. CASE /\ st.pid /\ fr.attempt # 1
             /\ fr' = [fr EXCEPT !.attempt = 3] /\ pc' = "final_probe"
    <3>1. fr'.since = fr.since /\ fr.attempt = 2
      BY <2>1, <2>4
    <3>. QED BY <2>1, <2>4, <3>1
  <2>. QED BY <1>19, <2>2, <2>3, <2>4 DEF CleanupRetry
<1>20. CASE CleanupClose
  BY <1>20 DEF CleanupClose, Blank
<1>21. ASSUME NEW c \in Channels, PumpRead(c) PROVE  RetryInv'
  BY <1>21 DEF PumpRead, ReadOutput, ReadFails, ReadNothing, ReadBytes,
    Consume, PumpFails, AfterRead, Least, Eof, NoHolder, Channels
<1>22. CASE (ChildSetpgid \/ ChildExec \/ ChildSetupFails \/ ChildCloses
      \/ ChildSpawns \/ ChildLeavesGroup \/ DescEscapes \/ DescRejoins \/
      DescExits \/ ChildExits \/ ReapedElsewhere \/ ChildDies) /\ UNCHANGED
      runtimeVars
  BY <1>22 DEF ChildSetpgid, ChildExec, ChildSetupFails, ChildCloses,
    ChildSpawns, ChildLeavesGroup, DescEscapes, DescRejoins, DescExits,
    ChildExits, ReapedElsewhere, ChildDies, runtimeVars
<1>23. ASSUME NEW w \in Writers, NEW c \in Channels, Write(w, c),
             UNCHANGED runtimeVars
      PROVE  RetryInv'
  BY <1>23 DEF Write, runtimeVars
<1>. QED BY <1>1, <1>2, <1>3, <1>4, <1>5, <1>6, <1>7, <1>8, <1>9, <1>10,
    <1>11, <1>12, <1>13, <1>14, <1>15, <1>16, <1>17, <1>18, <1>19, <1>20,
    <1>21, <1>22, <1>23 DEF Next, Runtime, Caller, Environment, ChildSetup,
    ProgramStep, Channels

\* No step loses the cause of a kill or invents one.
LEMMA CauseStep ==
  ASSUME IInv, IInv', pc \in PumpSites \ {"pump_ok"} => fr.caller = "pump",
         CauseInv, EarlyInv, Next
  PROVE  (CauseInv /\ EarlyInv)'
<1>. USE DEF IInv, ControlInv, AnchorInv, Anchored, StartCall, PumpCall,
    OtherCall, SetupSites, PumpSites, SignalSites, KillSites, CleanupSites,
    OwnInv, TerminalInv, Exited, Alive, Unreaped, Gone, InPump, Kept, Owning,
    CauseInv, Cancel, SameFr, SameSt, KillSeen, EarlyInv
<1>1. CASE StartRejected
  BY <1>1 DEF StartRejected, vars, osVars, TypeOK, States, Frames, Goto
<1>2. CASE StartRelease
  BY <1>2 DEF StartRelease, vars, osVars, TypeOK, States, Frames, Goto
<1>3. CASE ConsumeInert
  BY <1>3 DEF ConsumeInert, vars, osVars, TypeOK, States, Frames, Goto
<1>4. CASE PumpCheck
  BY <1>4 DEF PumpCheck, vars, osVars, TypeOK, States, Frames, Goto
<1>5. CASE PumpOk
  BY <1>5 DEF PumpOk, vars, osVars, TypeOK, States, Frames, Goto
<1>6. CASE PumpMark
  BY <1>6 DEF PumpMark, vars, osVars, TypeOK, States, Frames, Goto
<1>7. CASE PumpFinishCheck
  BY <1>7 DEF PumpFinishCheck, vars, osVars, TypeOK, States, Frames, Goto
<1>8. CASE DeadlineReached
  BY <1>8 DEF DeadlineReached, vars, osVars, TypeOK, States, Frames, Goto
<1>9. CASE Finished
  BY <1>9 DEF Finished, vars, osVars, TypeOK, States, Frames, Goto
<1>10. CASE Start
  <2>1. ~st'.ready /\ ~st'.signalled /\ ~st'.timed_out /\ ~st'.cancelled
    BY <1>10 DEF Start, Blank, TypeOK, States, Frames, Goto, IInv
  <2>2. pc = "idle" /\ pc' \in {"fork", "release"}
    BY <1>10 DEF Start, Blank, TypeOK, States, Frames, Goto, IInv
  <2>3. UNCHANGED <<child, killed, handle>>
    BY <1>10 DEF Start, Blank, TypeOK, States, Frames, Goto, IInv, osVars
  <2>4. handle = "none"
    BY <1>10 DEF Start, Blank, TypeOK, States, Frames, Goto, IInv
  <2>. QED BY <2>1, <2>2, <2>3, <2>4
<1>11. CASE StartFork
  <2>1. SameFr /\ SameSt
    BY <1>11 DEF StartFork, Fork, TypeOK, States, Frames, Goto, IInv, SameFr,
      SameSt
  <2>2. pc = "fork" /\ pc' \in {"setpgid", "release"}
    BY <1>11 DEF StartFork, Fork, TypeOK, States, Frames, Goto, IInv
  <2>3. UNCHANGED handle
    BY <1>11 DEF StartFork, Fork, TypeOK, States, Frames, Goto, IInv
  <2>4. (child' = child /\ killed' = killed) \/ (child' = "forked" /\
      ~killed')
    BY <1>11 DEF StartFork, Fork, TypeOK, States, Frames, Goto, IInv, osVars
  <2>5. pc' = "setpgid" => ~killed'
    BY <1>11 DEF StartFork, Fork, TypeOK, States, Frames, Goto, IInv, osVars
  <2>. QED BY <2>1, <2>2, <2>3, <2>4, <2>5
<1>12. CASE StartSetpgid
  <2>1. SameFr /\ SameSt
    BY <1>12 DEF StartSetpgid, ParentSetpgid, TypeOK, States, Frames, Goto,
      IInv, SameFr, SameSt
  <2>2. pc = "setpgid" /\ pc' \in {"handshake", "release"}
    BY <1>12 DEF StartSetpgid, ParentSetpgid, TypeOK, States, Frames, Goto,
      IInv
  <2>3. UNCHANGED <<child, killed, handle>>
    BY <1>12 DEF StartSetpgid, ParentSetpgid, TypeOK, States, Frames, Goto,
      IInv, osVars
  <2>. QED BY <2>1, <2>2, <2>3
<1>13. CASE StartHandshake
  <2>1. SameFr /\ SameSt
    BY <1>13 DEF StartHandshake, ExecEof, TypeOK, States, Frames, Goto, IInv,
      SameFr, SameSt
  <2>2. pc = "handshake" /\ pc' \in {"idle", "release"}
    BY <1>13 DEF StartHandshake, ExecEof, TypeOK, States, Frames, Goto, IInv
  <2>3. UNCHANGED <<child, killed>>
    BY <1>13 DEF StartHandshake, ExecEof, TypeOK, States, Frames, Goto, IInv,
      osVars
  <2>4. pc' = "idle" => handle' = "live"
    BY <1>13 DEF StartHandshake, ExecEof, TypeOK, States, Frames, Goto, IInv
  <2>5. pc' # "idle" => UNCHANGED handle
    BY <1>13 DEF StartHandshake, ExecEof, TypeOK, States, Frames, Goto, IInv
  <2>. QED BY <2>1, <2>2, <2>3, <2>4, <2>5
<1>14. CASE Wait
  <2>1. SameSt
    BY <1>14 DEF Wait, Call, Frame, TypeOK, States, Frames, Goto, IInv, SameSt
  <2>2. pc = "idle" /\ handle = "live"
    BY <1>14 DEF Wait, Call, Frame, TypeOK, States, Frames, Goto, IInv
  <2>3. UNCHANGED <<child, killed, handle>>
    BY <1>14 DEF Wait, Call, Frame, TypeOK, States, Frames, Goto, IInv, osVars
  <2>4. st.ready => pc' = "pump_ok" /\ fr'.early = fr.early
    BY <1>14 DEF Wait, Call, Frame, TypeOK, States, Frames, Goto, IInv
  <2>5. ~st.ready => pc' = "probe" /\ ~fr'.early /\ ~fr'.exited
    BY <1>14 DEF Wait, Call, Frame, TypeOK, States, Frames, Goto, IInv, osVars
  <2>. QED BY <2>1, <2>2, <2>3, <2>4, <2>5
<1>15. CASE Terminate
  <2>1. SameSt
    BY <1>15 DEF Terminate, Call, Frame, TypeOK, States, Frames, Goto, IInv,
      SameSt
  <2>2. pc = "idle" /\ handle = "live"
    BY <1>15 DEF Terminate, Call, Frame, TypeOK, States, Frames, Goto, IInv
  <2>3. UNCHANGED <<child, killed, handle>>
    BY <1>15 DEF Terminate, Call, Frame, TypeOK, States, Frames, Goto, IInv,
      osVars
  <2>4. st.ready => pc' = "pump_ok" /\ fr'.early = fr.early
    BY <1>15 DEF Terminate, Call, Frame, TypeOK, States, Frames, Goto, IInv
  <2>5. ~st.ready => pc' = "probe" /\ ~fr'.early /\ ~fr'.exited
    BY <1>15 DEF Terminate, Call, Frame, TypeOK, States, Frames, Goto, IInv,
      osVars
  <2>. QED BY <2>1, <2>2, <2>3, <2>4, <2>5
<1>16. CASE Drop
  <2>1. SameSt
    BY <1>16 DEF Drop, Frame, TypeOK, States, Frames, Goto, IInv, SameSt
  <2>2. pc = "idle" /\ pc' \in {"cleanup"}
    BY <1>16 DEF Drop, Frame, TypeOK, States, Frames, Goto, IInv
  <2>3. UNCHANGED <<child, killed, handle>>
    BY <1>16 DEF Drop, Frame, TypeOK, States, Frames, Goto, IInv, osVars
  <2>4. ~fr'.early /\ ~fr'.exited
    BY <1>16 DEF Drop, Frame, TypeOK, States, Frames, Goto, IInv
  <2>. QED BY <2>1, <2>2, <2>3, <2>4
<1>17. CASE PumpClock
  <2>1. SameSt
    BY <1>17 DEF PumpClock, PumpFails, ReadsClock, Cancel, TypeOK, States,
      Frames, Goto, IInv, SameSt
  <2>2. pc = "clock" /\ pc' \in {"so_probe", "check", "cleanup"}
    BY <1>17 DEF PumpClock, PumpFails, ReadsClock, Cancel, TypeOK, States,
      Frames, Goto, IInv
  <2>3. UNCHANGED <<child, killed, handle>>
    BY <1>17 DEF PumpClock, PumpFails, ReadsClock, Cancel, TypeOK, States,
      Frames, Goto, IInv, osVars
  <2>4. /\ fr'.exited = fr.exited /\ fr'.op = fr.op /\ fr'.caller = fr.caller
        /\ fr'.early \in {fr.early, ExitedUnsignalled}
        /\ pc' = "so_probe" =>
             ~st.signalled /\ (fr.exited \/ fr'.expired \/ Cancel)
    BY <1>17, ClockFrame DEF IInv
  <2>. QED BY <2>1, <2>2, <2>3, <2>4 DEF ExitedUnsignalled
<1>18. CASE PumpSnapshotOut
  <2>1. SameFr /\ SameSt
    BY <1>18 DEF PumpSnapshotOut, PumpFails, TypeOK, States, Frames, Goto,
      IInv, SameFr, SameSt
  <2>2. pc = "snap_out" /\ pc' \in {"snap_err", "cleanup"}
    BY <1>18 DEF PumpSnapshotOut, PumpFails, TypeOK, States, Frames, Goto, IInv
  <2>3. UNCHANGED <<child, killed, handle>>
    BY <1>18 DEF PumpSnapshotOut, PumpFails, TypeOK, States, Frames, Goto,
      IInv, osVars
  <2>. QED BY <2>1, <2>2, <2>3
<1>19. CASE PumpSnapshotErr
  <2>1. SameFr /\ SameSt
    <3>1. \/ st' = st
          \/ \E gone \in SUBSET Channels : st' = [st EXCEPT !.fds = @ \ gone]
      BY <1>19 DEF PumpSnapshotErr, Channels
    <3>2. \/ fr' = fr
          \/ fr' = [fr EXCEPT !.remaining =
                                  [fr.remaining EXCEPT !["err"] = Queued("err")],
                               !.draining = TRUE]
      BY <1>19 DEF PumpSnapshotErr
    <3>3. SameSt
      BY <3>1 DEF SameSt, IInv, TypeOK, States
    <3>4. ASSUME NEW left, fr' = [fr EXCEPT !.remaining = left, !.draining = TRUE]
          PROVE  SameFr
      BY <3>4 DEF SameFr, IInv, TypeOK, Frames
    <3>5. SameFr
      BY <3>2, <3>4 DEF SameFr
    <3>. QED BY <3>3, <3>5
  <2>2. pc = "snap_err" /\ pc' \in {"finish_check", "cleanup"}
    BY <1>19 DEF PumpSnapshotErr, PumpFails, TypeOK, States, Frames, Goto, IInv
  <2>3. UNCHANGED <<child, killed, handle>>
    BY <1>19 DEF PumpSnapshotErr, PumpFails, TypeOK, States, Frames, Goto,
      IInv, osVars
  <2>. QED BY <2>1, <2>2, <2>3
<1>20. CASE PumpPoll
  <2>1. SameFr /\ SameSt
    BY <1>20 DEF PumpPoll, PumpFails, TypeOK, States, Frames, Goto, IInv,
      SameFr, SameSt
  <2>2. pc = "poll" /\ pc' \in {"read_out", "probe", "cleanup"}
    BY <1>20 DEF PumpPoll, PumpFails, TypeOK, States, Frames, Goto, IInv
  <2>3. UNCHANGED <<child, killed, handle>>
    BY <1>20 DEF PumpPoll, PumpFails, TypeOK, States, Frames, Goto, IInv,
      osVars
  <2>. QED BY <2>1, <2>2, <2>3
<1>21. CASE PumpWrite
  <2>1. SameFr /\ SameSt
    BY <1>21 DEF PumpWrite, PumpFails, WriteInput, TypeOK, States, Frames,
      Goto, IInv, SameFr, SameSt
  <2>2. pc = "write_in" /\ pc' \in {"probe", "cleanup"}
    BY <1>21 DEF PumpWrite, PumpFails, WriteInput, TypeOK, States, Frames,
      Goto, IInv
  <2>3. UNCHANGED <<child, killed, handle>>
    BY <1>21 DEF PumpWrite, PumpFails, WriteInput, TypeOK, States, Frames,
      Goto, IInv, osVars
  <2>. QED BY <2>1, <2>2, <2>3
<1>22. CASE PumpProbe
  <2>1. SameSt
    BY <1>22 DEF PumpProbe, PumpFails, Probed, TypeOK, States, Frames, Goto,
      IInv, SameSt
  <2>2. pc = "probe" /\ pc' \in {"clock", "cleanup"}
    BY <1>22 DEF PumpProbe, PumpFails, Probed, TypeOK, States, Frames, Goto,
      IInv
  <2>3. UNCHANGED <<child, killed, handle>>
    BY <1>22 DEF PumpProbe, PumpFails, Probed, TypeOK, States, Frames, Goto,
      IInv, osVars
  <2>4. fr'.op = fr.op /\ fr'.caller = fr.caller /\ fr'.early = fr.early
    BY <1>22 DEF PumpProbe, PumpFails, Probed, TypeOK, States, Frames, Goto,
      IInv
  <2>5. fr'.exited => child = "zombie"
    BY <1>22 DEF PumpProbe, PumpFails, Probed, TypeOK, States, Frames, Goto,
      IInv, osVars
  <2>. QED BY <2>1, <2>2, <2>3, <2>4, <2>5
<1>23. CASE SignalOwnedProbe
  <2>1. SameSt
    BY <1>23 DEF SignalOwnedProbe, Raise, Probed, TypeOK, States, Frames, Goto,
      IInv, SameSt
  <2>2. pc = "so_probe"
    BY <1>23 DEF SignalOwnedProbe, Raise, Probed, TypeOK, States, Frames, Goto,
      IInv
  <2>3. UNCHANGED <<child, killed, handle>>
    BY <1>23 DEF SignalOwnedProbe, Raise, Probed, TypeOK, States, Frames, Goto,
      IInv, osVars
  <2>4. pc' \in {"so_direct", "so_group", "cleanup", "retry",
      "last_probe"}
    BY <1>23 DEF SignalOwnedProbe, Raise, Probed, TypeOK, States, Frames, Goto,
      IInv
  <2>5. /\ fr'.op = fr.op /\ fr'.caller = fr.caller
        /\ fr'.early \in {fr.early, ExitedUnsignalled}
        /\ fr'.expired = fr.expired
        /\ pc' = "so_direct" => ~fr'.exited
        /\ pc' \in {"so_direct", "so_group"} =>
             child \in Unreaped /\ (fr'.exited <=> child = "zombie")
    BY <1>23, OwnedProbeFrame DEF IInv
  <2>. QED BY <2>1, <2>2, <2>3, <2>4, <2>5 DEF ExitedUnsignalled
<1>24. CASE SignalTerminalProbe
  <2>1. SameFr /\ SameSt
    BY <1>24 DEF SignalTerminalProbe, Raise, Probed, TerminalDone, TypeOK,
      States, Frames, Goto, IInv, SameFr, SameSt
  <2>2. pc = "st_probe" /\ pc' \in {"st_kill", "snap_out", "reap",
      "cleanup", "retry", "last_probe"}
    BY <1>24 DEF SignalTerminalProbe, Raise, Probed, TerminalDone, TypeOK,
      States, Frames, Goto, IInv
  <2>3. UNCHANGED <<child, killed, handle>>
    BY <1>24 DEF SignalTerminalProbe, Raise, Probed, TerminalDone, TypeOK,
      States, Frames, Goto, IInv, osVars
  <2>4. pc' = "snap_out" => fr.caller = "pump"
    BY <1>24 DEF SignalTerminalProbe, Raise, Probed, TerminalDone, TypeOK,
      States, Frames, Goto, IInv
  <2>. QED BY <2>1, <2>2, <2>3, <2>4
<1>25. CASE CleanupFinalProbe
  <2>1. SameSt
    BY <1>25 DEF CleanupFinalProbe, Probed, TypeOK, States, Frames, Goto, IInv,
      SameSt
  <2>2. pc = "final_probe" /\ pc' \in {"st_probe", "final_probe",
      "last_probe"}
    BY <1>25 DEF CleanupFinalProbe, Probed, TypeOK, States, Frames, Goto, IInv
  <2>3. UNCHANGED <<child, killed, handle>>
    BY <1>25 DEF CleanupFinalProbe, Probed, TypeOK, States, Frames, Goto, IInv,
      osVars
  <2>4. fr'.exited = fr.exited /\ fr'.expired = fr.expired
    BY <1>25 DEF CleanupFinalProbe, Probed, TypeOK, States, Frames, Goto, IInv
  <2>5. fr'.op = fr.op /\ fr'.early = fr.early
    BY <1>25 DEF CleanupFinalProbe, Probed, TypeOK, States, Frames, Goto, IInv
  <2>6. pc' = "st_probe" => fr'.caller = "final"
    BY <1>25 DEF CleanupFinalProbe, Probed, TypeOK, States, Frames, Goto, IInv
  <2>. QED BY <2>1, <2>2, <2>3, <2>4, <2>5, <2>6
<1>26. CASE CleanupLastProbe
  <2>1. SameFr /\ SameSt
    BY <1>26 DEF CleanupLastProbe, Probed, TypeOK, States, Frames, Goto, IInv,
      SameFr, SameSt
  <2>2. pc = "last_probe" /\ pc' \in {"close", "aborted"}
    BY <1>26 DEF CleanupLastProbe, Probed, TypeOK, States, Frames, Goto, IInv
  <2>3. UNCHANGED <<child, killed, handle>>
    BY <1>26 DEF CleanupLastProbe, Probed, TypeOK, States, Frames, Goto, IInv,
      osVars
  <2>. QED BY <2>1, <2>2, <2>3
<1>27. CASE SignalOwnedDirect
  <2>1. SameFr /\ SameSt
    BY <1>27 DEF SignalOwnedDirect, Raise, Killed, KillPid, KillGroup, TypeOK,
      States, Frames, Goto, IInv, SameFr, SameSt
  <2>2. pc = "so_direct" /\ pc' \in {"so_group", "cleanup", "retry",
      "last_probe"}
    BY <1>27 DEF SignalOwnedDirect, Raise, Killed, KillPid, KillGroup, TypeOK,
      States, Frames, Goto, IInv
  <2>3. UNCHANGED handle
    BY <1>27 DEF SignalOwnedDirect, Raise, Killed, KillPid, KillGroup, TypeOK,
      States, Frames, Goto, IInv
  <2>4. KillSeen
    BY <1>27, KilledSeen DEF SignalOwnedDirect, IInv, TypeOK
  <2>. QED BY <2>1, <2>2, <2>3, <2>4
<1>28. CASE SignalOwnedGroup
  <2>1. SameFr
    BY <1>28 DEF SignalOwnedGroup, Raise, Killed, KillPid, KillGroup,
      OwnedDone, TypeOK, States, Frames, Goto, IInv, SameFr
  <2>2. pc = "so_group" /\ pc' \in {"so_late", "mark", "st_probe",
      "cleanup", "retry", "last_probe"}
    BY <1>28 DEF SignalOwnedGroup, Raise, Killed, KillPid, KillGroup,
      OwnedDone, TypeOK, States, Frames, Goto, IInv
  <2>3. UNCHANGED handle
    BY <1>28 DEF SignalOwnedGroup, Raise, Killed, KillPid, KillGroup,
      OwnedDone, TypeOK, States, Frames, Goto, IInv
  <2>4. KillSeen
    BY <1>28, KilledSeen DEF SignalOwnedGroup, IInv, TypeOK
  <2>5. st'.ready = st.ready /\ st'.timed_out = st.timed_out /\
      st'.cancelled = st.cancelled
    BY <1>28 DEF SignalOwnedGroup, Raise, Killed, KillPid, KillGroup,
      OwnedDone, TypeOK, States, Frames, Goto, IInv
  <2>6. st'.signalled = IF pc' \in {"mark", "st_probe"} THEN TRUE ELSE
      st.signalled
    BY <1>28 DEF SignalOwnedGroup, Raise, Killed, KillPid, KillGroup,
      OwnedDone, TypeOK, States, Frames, Goto, IInv
  <2>7. pc' \in {"st_probe", "mark"} => (fr.caller = "pump" <=> pc' =
      "mark")
    BY <1>28 DEF SignalOwnedGroup, Raise, Killed, KillPid, KillGroup,
      OwnedDone, TypeOK, States, Frames, Goto, IInv
  <2>8. pc' = "so_late" => ~fr.exited
    BY <1>28 DEF SignalOwnedGroup, Raise, Killed, KillPid, KillGroup,
      OwnedDone, TypeOK, States, Frames, Goto, IInv
  <2>. QED BY <2>1, <2>2, <2>3, <2>4, <2>5, <2>6, <2>7, <2>8
<1>29. CASE SignalOwnedLate
  <2>1. SameFr
    BY <1>29 DEF SignalOwnedLate, Raise, Killed, KillPid, KillGroup, OwnedDone,
      TypeOK, States, Frames, Goto, IInv, SameFr
  <2>2. pc = "so_late" /\ pc' \in {"mark", "st_probe", "cleanup", "retry",
      "last_probe"}
    BY <1>29 DEF SignalOwnedLate, Raise, Killed, KillPid, KillGroup, OwnedDone,
      TypeOK, States, Frames, Goto, IInv
  <2>3. UNCHANGED handle
    BY <1>29 DEF SignalOwnedLate, Raise, Killed, KillPid, KillGroup, OwnedDone,
      TypeOK, States, Frames, Goto, IInv
  <2>4. KillSeen
    BY <1>29, KilledSeen DEF SignalOwnedLate, IInv, TypeOK
  <2>5. st'.ready = st.ready /\ st'.timed_out = st.timed_out /\
      st'.cancelled = st.cancelled
    BY <1>29 DEF SignalOwnedLate, Raise, Killed, KillPid, KillGroup, OwnedDone,
      TypeOK, States, Frames, Goto, IInv
  <2>6. st'.signalled = IF pc' \in {"mark", "st_probe"} THEN TRUE ELSE
      st.signalled
    BY <1>29 DEF SignalOwnedLate, Raise, Killed, KillPid, KillGroup, OwnedDone,
      TypeOK, States, Frames, Goto, IInv
  <2>7. pc' \in {"st_probe", "mark"} => (fr.caller = "pump" <=> pc' =
      "mark")
    BY <1>29 DEF SignalOwnedLate, Raise, Killed, KillPid, KillGroup, OwnedDone,
      TypeOK, States, Frames, Goto, IInv
  <2>. QED BY <2>1, <2>2, <2>3, <2>4, <2>5, <2>6, <2>7
<1>30. CASE SignalTerminalKill
  <2>1. SameFr /\ SameSt
    BY <1>30 DEF SignalTerminalKill, Raise, Killed, KillPid, KillGroup,
      TerminalDone, TypeOK, States, Frames, Goto, IInv, SameFr, SameSt
  <2>2. pc = "st_kill" /\ pc' \in {"snap_out", "reap", "cleanup", "retry",
      "last_probe"}
    BY <1>30 DEF SignalTerminalKill, Raise, Killed, KillPid, KillGroup,
      TerminalDone, TypeOK, States, Frames, Goto, IInv
  <2>3. UNCHANGED handle
    BY <1>30 DEF SignalTerminalKill, Raise, Killed, KillPid, KillGroup,
      TerminalDone, TypeOK, States, Frames, Goto, IInv
  <2>4. KillSeen
    BY <1>30, KilledSeen DEF SignalTerminalKill, IInv, TypeOK
  <2>5. pc' = "snap_out" => fr.caller = "pump"
    BY <1>30 DEF SignalTerminalKill, Raise, Killed, KillPid, KillGroup,
      TerminalDone, TypeOK, States, Frames, Goto, IInv
  <2>. QED BY <2>1, <2>2, <2>3, <2>4, <2>5
<1>31. CASE PumpFinish
  <2>1. SameFr
    BY <1>31 DEF PumpFinish, PumpFails, Reaped, Reap, TypeOK, States, Frames,
      Goto, IInv, SameFr
  <2>2. pc = "finish" /\ pc' \in {"pump_ok", "cleanup"}
    BY <1>31 DEF PumpFinish, PumpFails, Reaped, Reap, TypeOK, States, Frames,
      Goto, IInv
  <2>3. UNCHANGED <<killed, handle>>
    BY <1>31 DEF PumpFinish, PumpFails, Reaped, Reap, TypeOK, States, Frames,
      Goto, IInv, osVars
  <2>4. child' = child \/ child' = "reaped"
    BY <1>31 DEF PumpFinish, PumpFails, Reaped, Reap, TypeOK, States, Frames,
      Goto, IInv, osVars
  <2>5. st'.signalled = st.signalled
    <3>1. \E pid \in BOOLEAN :
             \/ /\ pc' = "cleanup"
                /\ st' = [st EXCEPT !.pid = pid]
             \/ /\ pc' = "pump_ok"
                /\ st' = [st EXCEPT !.pid = pid, !.ready = TRUE,
                                    !.fds = @ \ {"in"}, !.unsent = 0]
      BY <1>31 DEF PumpFinish, PumpFails, Goto
    <3>. QED BY <3>1 DEF IInv, TypeOK, States
  <2>6. st'.timed_out = st.timed_out /\ st'.cancelled = st.cancelled
    <3>1. \E pid \in BOOLEAN :
             \/ /\ pc' = "cleanup"
                /\ st' = [st EXCEPT !.pid = pid]
             \/ /\ pc' = "pump_ok"
                /\ st' = [st EXCEPT !.pid = pid, !.ready = TRUE,
                                    !.fds = @ \ {"in"}, !.unsent = 0]
      BY <1>31 DEF PumpFinish, PumpFails, Goto
    <3>. QED BY <3>1 DEF IInv, TypeOK, States
  <2>7. st'.ready = IF pc' = "pump_ok" THEN TRUE ELSE st.ready
    <3>1. \E pid \in BOOLEAN :
             \/ /\ pc' = "cleanup"
                /\ st' = [st EXCEPT !.pid = pid]
             \/ /\ pc' = "pump_ok"
                /\ st' = [st EXCEPT !.pid = pid, !.ready = TRUE,
                                    !.fds = @ \ {"in"}, !.unsent = 0]
      BY <1>31 DEF PumpFinish, PumpFails, Goto
    <3>. QED BY <3>1 DEF IInv, TypeOK, States
  <2>. QED BY <2>1, <2>2, <2>3, <2>4, <2>5, <2>6, <2>7
<1>32. CASE CleanupReap
  <2>1. SameFr /\ SameSt
    BY <1>32 DEF CleanupReap, Raise, Reaped, Reap, TypeOK, States, Frames,
      Goto, IInv, SameFr, SameSt
  <2>2. pc = "reap" /\ pc' \in {"close", "cleanup", "retry", "last_probe"}
    BY <1>32 DEF CleanupReap, Raise, Reaped, Reap, TypeOK, States, Frames,
      Goto, IInv
  <2>3. UNCHANGED <<killed, handle>>
    BY <1>32 DEF CleanupReap, Raise, Reaped, Reap, TypeOK, States, Frames,
      Goto, IInv, osVars
  <2>4. child' = child \/ child' = "reaped"
    BY <1>32 DEF CleanupReap, Raise, Reaped, Reap, TypeOK, States, Frames,
      Goto, IInv, osVars
  <2>. QED BY <2>1, <2>2, <2>3, <2>4
<1>33. CASE Cleanup
  <2>1. SameSt
    BY <1>33 DEF Cleanup, Attempt, TypeOK, States, Frames, Goto, IInv, SameSt
  <2>2. pc = "cleanup" /\ pc' \in {"reap", "so_probe", "close"}
    BY <1>33 DEF Cleanup, Attempt, TypeOK, States, Frames, Goto, IInv
  <2>3. UNCHANGED <<child, killed, handle>>
    BY <1>33 DEF Cleanup, Attempt, TypeOK, States, Frames, Goto, IInv, osVars
  <2>4. fr'.exited = fr.exited /\ fr'.expired = fr.expired
    <3>1. \/ fr' = fr
          \/ fr' = [fr EXCEPT !.caller = "attempt", !.attempt = 1,
                              !.since = faults]
          \/ fr' = [fr EXCEPT !.attempt = 3]
      BY <1>33 DEF Cleanup, Attempt
    <3>. QED BY <3>1 DEF IInv, TypeOK, Frames
  <2>5. fr'.op = fr.op /\ fr'.early = fr.early
    <3>1. \/ fr' = fr
          \/ fr' = [fr EXCEPT !.caller = "attempt", !.attempt = 1,
                              !.since = faults]
          \/ fr' = [fr EXCEPT !.attempt = 3]
      BY <1>33 DEF Cleanup, Attempt
    <3>. QED BY <3>1 DEF IInv, TypeOK, Frames
  <2>6. pc' # "close" => fr'.caller = "attempt"
    BY <1>33 DEF Cleanup, Attempt, TypeOK, States, Frames, Goto, IInv
  <2>. QED BY <2>1, <2>2, <2>3, <2>4, <2>5, <2>6
<1>34. CASE CleanupRetry
  <2>1. SameSt
    BY <1>34 DEF CleanupRetry, Attempt, TypeOK, States, Frames, Goto, IInv,
      SameSt
  <2>2. pc = "retry" /\ pc' \in {"reap", "so_probe", "final_probe",
      "close"}
    BY <1>34 DEF CleanupRetry, Attempt, TypeOK, States, Frames, Goto, IInv
  <2>3. UNCHANGED <<child, killed, handle>>
    BY <1>34 DEF CleanupRetry, Attempt, TypeOK, States, Frames, Goto, IInv,
      osVars
  <2>4. fr'.exited = fr.exited /\ fr'.expired = fr.expired
    <3>1. \/ fr' = fr
          \/ fr' = [fr EXCEPT !.caller = "attempt", !.attempt = 2,
                              !.since = fr.since]
          \/ fr' = [fr EXCEPT !.attempt = 3]
      BY <1>34 DEF CleanupRetry, Attempt
    <3>. QED BY <3>1 DEF IInv, TypeOK, Frames
  <2>5. fr'.op = fr.op /\ fr'.early = fr.early
    <3>1. \/ fr' = fr
          \/ fr' = [fr EXCEPT !.caller = "attempt", !.attempt = 2,
                              !.since = fr.since]
          \/ fr' = [fr EXCEPT !.attempt = 3]
      BY <1>34 DEF CleanupRetry, Attempt
    <3>. QED BY <3>1 DEF IInv, TypeOK, Frames
  <2>6. pc' \in {"reap", "so_probe"} => fr'.caller = "attempt"
    BY <1>34 DEF CleanupRetry, Attempt, TypeOK, States, Frames, Goto, IInv
  <2>. QED BY <2>1, <2>2, <2>3, <2>4, <2>5, <2>6
<1>35. CASE CleanupClose
  <2>1. SameFr
    BY <1>35 DEF CleanupClose, Blank, TypeOK, States, Frames, Goto, IInv,
      SameFr
  <2>2. pc = "close" /\ pc' \in {"idle"}
    BY <1>35 DEF CleanupClose, Blank, TypeOK, States, Frames, Goto, IInv
  <2>3. UNCHANGED <<child, killed>>
    BY <1>35 DEF CleanupClose, Blank, TypeOK, States, Frames, Goto, IInv,
      osVars
  <2>4. handle' # "live" /\ ~st'.ready /\ ~st'.signalled
    BY <1>35 DEF CleanupClose, Blank, TypeOK, States, Frames, Goto, IInv
  <2>. QED BY <2>1, <2>2, <2>3, <2>4
<1>36. ASSUME NEW c \in Channels, PumpRead(c) PROVE  (CauseInv /\ EarlyInv)'
  <2>1. /\ pc \in {"read_out", "read_err"}
        /\ pc' \in {"read_err", "write_in", "cleanup"}
    BY <1>36 DEF PumpRead, ReadOutput, ReadFails, ReadNothing, ReadBytes,
      PumpFails, AfterRead, Goto, Channels
  <2>2. UNCHANGED <<child, killed, handle>>
    BY <1>36 DEF PumpRead, ReadOutput, ReadFails, ReadNothing, ReadBytes,
      Consume, osVars
  <2>3. SameSt
    <3>1. ASSUME NEW b, NEW f,
                 \/ st' = [st EXCEPT !.fds = f]
                 \/ st' = [st EXCEPT !.buffer[c] = b, !.fds = f]
          PROVE  SameSt
      BY <3>1 DEF SameSt, IInv, TypeOK, States
    <3>2. CASE ReadBytes(c)
      <4> DEFINE amount == IF fr.draining THEN Least(Chunk, fr.remaining[c])
                                          ELSE Chunk
                 count  == Least(amount, Len(pipe[c]))
                 b      == st.buffer[c] \o SubSeq(pipe[c], 1, count)
                 f      == IF fr.draining /\ fr.remaining[c] - count = 0
                           THEN st.fds \ {c} ELSE st.fds
      <4>1. st' = st \/ st' = [st EXCEPT !.buffer[c] = b, !.fds = f]
        BY <3>2 DEF ReadBytes
      <4>. HIDE DEF b, f
      <4>2. CASE st' = [st EXCEPT !.buffer[c] = b, !.fds = f]
        BY ONLY <3>1, <4>2
      <4>. QED BY <4>1, <4>2 DEF SameSt
    <3>3. CASE ~ReadBytes(c)
      <4>1. \/ st' = st
            \/ st' = [st EXCEPT !.fds = IF Eof(c) THEN st.fds \ {c} ELSE st.fds]
        BY <1>36, <3>3 DEF PumpRead, ReadOutput, ReadFails, ReadNothing
      <4>. QED BY <3>1, <4>1 DEF SameSt
    <3>. QED BY <3>2, <3>3
  <2>4. SameFr
    <3>1. fr' = fr \/ \E n : fr' = [fr EXCEPT !.remaining[c] = n]
      BY <1>36 DEF PumpRead, ReadOutput, ReadFails, ReadNothing, ReadBytes
    <3>. QED BY <3>1 DEF SameFr, IInv, TypeOK, Frames
  <2>. QED BY <2>1, <2>2, <2>3, <2>4
<1>37. CASE (ChildSetpgid \/ ChildExec \/ ChildSetupFails \/ ChildCloses
      \/ ChildSpawns \/ ChildLeavesGroup \/ DescEscapes \/ DescRejoins \/
      DescExits \/ ChildExits \/ ReapedElsewhere \/ ChildDies) /\ UNCHANGED
      runtimeVars
  BY <1>37 DEF ChildSetpgid, ChildExec, ChildSetupFails, ChildCloses,
    ChildSpawns, ChildLeavesGroup, DescEscapes, DescRejoins, DescExits,
    ChildExits, ReapedElsewhere, ChildDies, runtimeVars
<1>38. ASSUME NEW w \in Writers, NEW c \in Channels, Write(w, c),
             UNCHANGED runtimeVars
      PROVE  (CauseInv /\ EarlyInv)'
  BY <1>38 DEF Write, runtimeVars
<1>. QED BY <1>1, <1>2, <1>3, <1>4, <1>5, <1>6, <1>7, <1>8, <1>9, <1>10,
    <1>11, <1>12, <1>13, <1>14, <1>15, <1>16, <1>17, <1>18, <1>19, <1>20,
    <1>21, <1>22, <1>23, <1>24, <1>25, <1>26, <1>27, <1>28, <1>29, <1>30,
    <1>31, <1>32, <1>33, <1>34, <1>35, <1>36, <1>37, <1>38 DEF Next, Runtime,
    Caller, Environment, ChildSetup, ProgramStep, Channels

\* No step loses or doubles a byte of the child.
LEMMA CaptureStep ==
  ASSUME IInv, IInv', pc \in PumpSites \ {"pump_ok"} => fr.caller = "pump",
         CaptureInv, Next
  PROVE  CaptureInv'
<1>1. CASE StartRejected
  <2>1. UNCHANGED <<pc, st, fr, handle, setup>>
    BY <1>1 DEF StartRejected, Fault, TypeOK, States, Frames, Goto, IInv
  <2>2. pc = "idle"
    BY <1>1 DEF StartRejected, Fault, TypeOK, States, Frames, Goto, IInv
  <2>3. OsKept
    BY <1>1, OsQuiet, OsKeepsBytes DEF IInv, TypeOK
  <2>. QED BY <2>1, <2>2, <2>3, CaptureKept DEF IInv, ControlInv, AnchorInv,
    Anchored, StartCall, PumpCall, OtherCall, SetupSites, PumpSites,
    SignalSites, KillSites, CleanupSites, InPump, Kept, Starting, Capturing,
    Open, SameDrain, SameBytes
<1>2. CASE StartRelease
  <2>1. pc = "release" /\ pc' \in {"cleanup"}
    BY <1>2 DEF StartRelease, TypeOK, States, Frames, Goto, IInv
  <2>2. UNCHANGED <<st, fr, handle>>
    BY <1>2 DEF StartRelease, TypeOK, States, Frames, Goto, IInv
  <2>3. OsKept
    BY <1>2, OsQuiet, OsKeepsBytes DEF IInv, TypeOK
  <2>. QED BY <2>1, <2>2, <2>3, CaptureKept DEF IInv, ControlInv, AnchorInv,
    Anchored, StartCall, PumpCall, OtherCall, SetupSites, PumpSites,
    SignalSites, KillSites, CleanupSites, InPump, Kept, Starting, Capturing,
    Open, SameDrain, SameBytes
<1>3. CASE ConsumeInert
  <2>1. UNCHANGED <<pc, st, fr>>
    BY <1>3 DEF ConsumeInert, TypeOK, States, Frames, Goto, IInv
  <2>2. pc = "idle" /\ handle' = "moved"
    BY <1>3 DEF ConsumeInert, TypeOK, States, Frames, Goto, IInv
  <2>3. OsKept
    BY <1>3, OsQuiet, OsKeepsBytes DEF IInv, TypeOK
  <2>. QED BY <2>1, <2>2, <2>3, CaptureKept DEF IInv, ControlInv, AnchorInv,
    Anchored, StartCall, PumpCall, OtherCall, SetupSites, PumpSites,
    SignalSites, KillSites, CleanupSites, InPump, Kept, Starting, Capturing,
    Open, SameDrain, SameBytes
<1>4. CASE PumpCheck
  <2>1. pc = "check" /\ pc' \in {"st_probe", "finish_check"}
    BY <1>4 DEF PumpCheck, TypeOK, States, Frames, Goto, IInv
  <2>2. UNCHANGED <<st, fr, handle, setup>>
    BY <1>4 DEF PumpCheck, TypeOK, States, Frames, Goto, IInv
  <2>3. OsKept
    BY <1>4, OsQuiet, OsKeepsBytes DEF IInv, TypeOK
  <2>. QED BY <2>1, <2>2, <2>3, CaptureKept DEF IInv, ControlInv, AnchorInv,
    Anchored, StartCall, PumpCall, OtherCall, SetupSites, PumpSites,
    SignalSites, KillSites, CleanupSites, InPump, Kept, Starting, Capturing,
    Open, SameDrain, SameBytes
<1>5. CASE PumpOk
  <2>1. pc = "pump_ok" /\ pc' \in {"cleanup", "idle"}
    BY <1>5 DEF PumpOk, TypeOK, States, Frames, Goto, IInv
  <2>2. UNCHANGED <<st, fr, handle, setup>>
    BY <1>5 DEF PumpOk, TypeOK, States, Frames, Goto, IInv
  <2>3. OsKept
    BY <1>5, OsQuiet, OsKeepsBytes DEF IInv, TypeOK
  <2>. QED BY <2>1, <2>2, <2>3, CaptureKept DEF IInv, ControlInv, AnchorInv,
    Anchored, StartCall, PumpCall, OtherCall, SetupSites, PumpSites,
    SignalSites, KillSites, CleanupSites, InPump, Kept, Starting, Capturing,
    Open, SameDrain, SameBytes
<1>6. CASE PumpMark
  <2>1. pc = "mark" /\ pc' \in {"check"}
    BY <1>6 DEF PumpMark, TypeOK, States, Frames, Goto, IInv
  <2>2. SameBytes
    BY <1>6 DEF PumpMark, TypeOK, States, Frames, Goto, IInv, Channels,
      SameBytes
  <2>3. UNCHANGED <<fr, handle, setup>>
    BY <1>6 DEF PumpMark, TypeOK, States, Frames, Goto, IInv
  <2>4. OsKept
    BY <1>6, OsQuiet, OsKeepsBytes DEF IInv, TypeOK
  <2>. QED BY <2>1, <2>2, <2>3, <2>4, CaptureKept DEF IInv, ControlInv,
    AnchorInv, Anchored, StartCall, PumpCall, OtherCall, SetupSites,
    PumpSites, SignalSites, KillSites, CleanupSites, InPump, Kept, Starting,
    Capturing, Open, SameDrain, SameBytes
<1>7. CASE PumpFinishCheck
  <2>1. pc = "finish_check" /\ pc' \in {"finish", "poll"}
    BY <1>7 DEF PumpFinishCheck, TypeOK, States, Frames, Goto, IInv
  <2>2. SameBytes
    BY <1>7 DEF PumpFinishCheck, TypeOK, States, Frames, Goto, IInv, Channels,
      SameBytes
  <2>3. pc' = "finish" => st'.fds \cap Channels = {}
    BY <1>7 DEF PumpFinishCheck, TypeOK, States, Frames, Goto, IInv, Channels
  <2>4. UNCHANGED <<fr, handle, setup>>
    BY <1>7 DEF PumpFinishCheck, TypeOK, States, Frames, Goto, IInv
  <2>5. OsKept
    BY <1>7, OsQuiet, OsKeepsBytes DEF IInv, TypeOK
  <2>. QED BY <2>1, <2>2, <2>3, <2>4, <2>5, CaptureKept DEF IInv,
    ControlInv, AnchorInv, Anchored, StartCall, PumpCall, OtherCall,
    SetupSites, PumpSites, SignalSites, KillSites, CleanupSites, InPump, Kept,
    Starting, Capturing, Open, SameDrain, SameBytes
<1>8. CASE DeadlineReached
  <2>1. UNCHANGED <<pc, st, fr, handle, setup>>
    BY <1>8 DEF DeadlineReached, TypeOK, States, Frames, Goto, IInv
  <2>2. OsKept
    BY <1>8, OsQuiet, OsKeepsBytes DEF IInv, TypeOK
  <2>. QED BY <2>1, <2>2, CaptureKept DEF IInv, ControlInv, AnchorInv,
    Anchored, StartCall, PumpCall, OtherCall, SetupSites, PumpSites,
    SignalSites, KillSites, CleanupSites, InPump, Kept, Starting, Capturing,
    Open, SameDrain, SameBytes
<1>9. CASE Finished
  <2>1. UNCHANGED <<pc, st, fr, handle, setup>>
    BY <1>9 DEF Finished, vars, TypeOK, States, Frames, Goto, IInv
  <2>2. OsKept
    BY <1>9, OsQuiet, OsKeepsBytes DEF IInv, TypeOK
  <2>. QED BY <2>1, <2>2, CaptureKept DEF IInv, ControlInv, AnchorInv,
    Anchored, StartCall, PumpCall, OtherCall, SetupSites, PumpSites,
    SignalSites, KillSites, CleanupSites, InPump, Kept, Starting, Capturing,
    Open, SameDrain, SameBytes
<1>10. CASE Start
  <2>1. PICK l, u : st' = [Blank EXCEPT !.limit = l, !.unsent = u] /\ l \in Nat
    <3>1. {0} \subseteq Nat
      OBVIOUS
    <3>. QED BY <1>10, <3>1, LimitsAssumption DEF Start
  <2>2. /\ st'.buffer = Blank.buffer /\ st'.limit = l /\ ~st'.ready
    BY <2>1 DEF Blank
  <2>3. Used' = 0
    BY <2>2 DEF Used, Blank, Channels
  <2>4. pc' \in {"fork", "release"}
    BY <1>10 DEF Start, Goto
  <2>5. ~Capturing' /\ ~InPump'
    BY <2>2, <2>4 DEF Capturing, Starting, Kept, InPump, PumpSites,
      SignalSites, KillSites
  <2>. QED BY <2>1, <2>2, <2>3, <2>4, <2>5 DEF CaptureInv
<1>11. CASE StartFork
  <2>1. /\ pc = "fork" /\ UNCHANGED <<handle, fr, setup>> /\ ~st.ready
        /\ handle = "none"
    BY <1>11 DEF StartFork, IInv, ControlInv, AnchorInv, StartCall, SetupSites
  <2>2. CASE Fork(setup \ {"exec"}) /\ st' = [st EXCEPT !.pid = TRUE]
             /\ pc' = "setpgid"
    <3>1. /\ st'.buffer = st.buffer /\ st'.limit = st.limit
          /\ ~InPump' /\ ~st'.ready
      BY <2>1, <2>2 DEF IInv, TypeOK, States, InPump, PumpSites, SignalSites,
        KillSites
    <3>2. ASSUME NEW c \in Channels
          PROVE  /\ CountOf("child", st'.buffer[c]) + CountOf("child", pipe'[c])
                      = wrote'["child"][c]
                 /\ c \notin Open' =>
                      (c \notin held'["child"] \/ child' \in Exited) /\ Clean(c)'
      <4>1. pipe'[c] = <<>> /\ wrote'["child"][c] = 0 /\ st'.buffer[c] = <<>>
        BY <2>1, <2>2, <3>1 DEF Fork, CaptureInv, Blank, Writers
      <4>2. CountOf("child", <<>>) = 0
        <5>1. <<>> \in Seq(Writers) /\ DOMAIN <<>> = {}
          OBVIOUS
        <5>. QED BY <5>1, CountType
      <4>3. Clean(c)'
        BY <4>1 DEF Clean
      <4>4. held'["child"] = setup \ {"exec"} /\ Open' = setup \cap Channels
        BY <2>1, <2>2 DEF Fork, Writers, Open, Starting
      <4>. QED BY <4>1, <4>2, <4>3, <4>4
    <3>3. (Used <= st.limit)'
      BY <3>1 DEF CaptureInv, Used
    <3>. QED BY <2>2, <3>1, <3>2, <3>3 DEF CaptureInv
  <2>3. CASE UNCHANGED <<osVars, st>> /\ pc' = "release"
    <3>1. OsKept
      BY <2>3, OsKeepsBytes DEF IInv, TypeOK
    <3>. QED BY <2>1, <2>3, <3>1, CaptureKept
           DEF InPump, Kept, Starting, Capturing, Open, PumpSites, SignalSites,
               KillSites
  <2>. QED BY <1>11, <2>2, <2>3 DEF StartFork, Goto
<1>12. CASE StartSetpgid
  <2>1. pc = "setpgid" /\ pc' \in {"handshake", "release"}
    BY <1>12 DEF StartSetpgid, TypeOK, States, Frames, Goto, IInv
  <2>2. SameBytes
    BY <1>12 DEF StartSetpgid, TypeOK, States, Frames, Goto, IInv, Channels,
      SameBytes
  <2>3. UNCHANGED <<fr, handle, setup>>
    BY <1>12 DEF StartSetpgid, TypeOK, States, Frames, Goto, IInv
  <2>4. OsKept
    BY <1>12, OsKeepsBytes DEF StartSetpgid, IInv, TypeOK
  <2>. QED BY <2>1, <2>2, <2>3, <2>4, CaptureKept DEF IInv, ControlInv,
    AnchorInv, Anchored, StartCall, PumpCall, OtherCall, SetupSites,
    PumpSites, SignalSites, KillSites, CleanupSites, InPump, Kept, Starting,
    Capturing, Open, SameDrain, SameBytes
<1>13. CASE StartHandshake
  <2>1. pc = "handshake" /\ pc' \in {"idle", "release"}
    BY <1>13 DEF StartHandshake, TypeOK, States, Frames, Goto, IInv
  <2>2. UNCHANGED fr
    BY <1>13 DEF StartHandshake, TypeOK, States, Frames, Goto, IInv
  <2>3. st'.buffer = st.buffer /\ st'.limit = st.limit
    BY <1>13 DEF StartHandshake, TypeOK, States, Frames, Goto, IInv
  <2>4. st'.ready = st.ready
    BY <1>13 DEF StartHandshake, TypeOK, States, Frames, Goto, IInv
  <2>5. pc' = "idle" => st'.fds \cap Channels = setup \cap Channels
    BY <1>13 DEF StartHandshake, TypeOK, States, Frames, Goto, IInv, Channels
  <2>6. pc' # "idle" => UNCHANGED <<handle, setup, st>>
    BY <1>13 DEF StartHandshake, TypeOK, States, Frames, Goto, IInv
  <2>7. OsKept
    BY <1>13, OsQuiet, OsKeepsBytes DEF IInv, TypeOK
  <2>. QED BY <2>1, <2>2, <2>3, <2>4, <2>5, <2>6, <2>7, CaptureKept DEF
    IInv, ControlInv, AnchorInv, Anchored, StartCall, PumpCall, OtherCall,
    SetupSites, PumpSites, SignalSites, KillSites, CleanupSites, InPump, Kept,
    Starting, Capturing, Open, SameDrain, SameBytes
<1>14. CASE Wait
  <2>1. pc = "idle" /\ handle = "live"
    BY <1>14 DEF Wait, Call, Frame, TypeOK, States, Frames, Goto, IInv
  <2>2. UNCHANGED <<st, handle, setup>>
    BY <1>14 DEF Wait, Call, Frame, TypeOK, States, Frames, Goto, IInv
  <2>3. st.ready => pc' = "pump_ok"
    BY <1>14 DEF Wait, Call, Frame, TypeOK, States, Frames, Goto, IInv
  <2>4. ~st.ready => pc' = "probe" /\ ~fr'.draining
    BY <1>14 DEF Wait, Call, Frame, TypeOK, States, Frames, Goto, IInv
  <2>5. OsKept
    BY <1>14, OsQuiet, OsKeepsBytes DEF IInv, TypeOK
  <2>. QED BY <2>1, <2>2, <2>3, <2>4, <2>5, CaptureKept DEF IInv,
    ControlInv, AnchorInv, Anchored, StartCall, PumpCall, OtherCall,
    SetupSites, PumpSites, SignalSites, KillSites, CleanupSites, InPump, Kept,
    Starting, Capturing, Open, SameDrain, SameBytes
<1>15. CASE Terminate
  <2>1. pc = "idle" /\ handle = "live"
    BY <1>15 DEF Terminate, Call, Frame, TypeOK, States, Frames, Goto, IInv
  <2>2. UNCHANGED <<st, handle, setup>>
    BY <1>15 DEF Terminate, Call, Frame, TypeOK, States, Frames, Goto, IInv
  <2>3. st.ready => pc' = "pump_ok"
    BY <1>15 DEF Terminate, Call, Frame, TypeOK, States, Frames, Goto, IInv
  <2>4. ~st.ready => pc' = "probe" /\ ~fr'.draining
    BY <1>15 DEF Terminate, Call, Frame, TypeOK, States, Frames, Goto, IInv
  <2>5. OsKept
    BY <1>15, OsQuiet, OsKeepsBytes DEF IInv, TypeOK
  <2>. QED BY <2>1, <2>2, <2>3, <2>4, <2>5, CaptureKept DEF IInv,
    ControlInv, AnchorInv, Anchored, StartCall, PumpCall, OtherCall,
    SetupSites, PumpSites, SignalSites, KillSites, CleanupSites, InPump, Kept,
    Starting, Capturing, Open, SameDrain, SameBytes
<1>16. CASE Drop
  <2>1. pc = "idle" /\ pc' \in {"cleanup"}
    BY <1>16 DEF Drop, Frame, TypeOK, States, Frames, Goto, IInv
  <2>2. UNCHANGED <<st, handle, setup>>
    BY <1>16 DEF Drop, Frame, TypeOK, States, Frames, Goto, IInv
  <2>3. OsKept
    BY <1>16, OsQuiet, OsKeepsBytes DEF IInv, TypeOK
  <2>. QED BY <2>1, <2>2, <2>3, CaptureKept DEF IInv, ControlInv, AnchorInv,
    Anchored, StartCall, PumpCall, OtherCall, SetupSites, PumpSites,
    SignalSites, KillSites, CleanupSites, InPump, Kept, Starting, Capturing,
    Open, SameDrain, SameBytes
<1>17. CASE PumpClock
  <2>1. pc = "clock" /\ pc' \in {"so_probe", "check", "cleanup"}
    BY <1>17 DEF PumpClock, PumpFails, TypeOK, States, Frames, Goto, IInv
  <2>2. SameDrain /\ fr'.caller = fr.caller
    BY <1>17 DEF PumpClock, PumpFails, TypeOK, States, Frames, Goto, IInv,
      SameDrain
  <2>3. UNCHANGED <<st, handle, setup>>
    BY <1>17 DEF PumpClock, PumpFails, TypeOK, States, Frames, Goto, IInv
  <2>4. OsKept
    BY <1>17, OsQuiet, OsKeepsBytes DEF IInv, TypeOK
  <2>. QED BY <2>1, <2>2, <2>3, <2>4, CaptureKept DEF IInv, ControlInv,
    AnchorInv, Anchored, StartCall, PumpCall, OtherCall, SetupSites,
    PumpSites, SignalSites, KillSites, CleanupSites, InPump, Kept, Starting,
    Capturing, Open, SameDrain, SameBytes
<1>18. CASE PumpSnapshotOut
  <2>1. /\ pc = "snap_out" /\ UNCHANGED <<osVars, st, handle, setup>>
        /\ InPump /\ Capturing /\ ~Starting /\ ~st.ready
    BY <1>18 DEF PumpSnapshotOut, Capturing, Kept, Starting, InPump, PumpSites,
      IInv, AnchorInv, Anchored
  <2>2. ASSUME NEW c \in Channels  PROVE  Within(c, Queued(c))
    <3>1. CASE c \in st.fds
      <4>1. pipe[c] \in Seq(Writers)
        BY DEF IInv, TypeOK, OsTypeOK
      <4>. QED BY <3>1, <4>1 DEF Within, Queued
    <3>2. CASE c \notin st.fds
      <4>1. Clean(c)
        BY <2>1, <3>2 DEF CaptureInv, Open
      <4>. QED BY <4>1 DEF Within, Clean
    <3>. QED BY <3>1, <3>2
  <2>3. CASE fr' = [fr EXCEPT !.remaining["out"] = Queued("out")]
             /\ pc' = "snap_err"
    <3>1. fr'.draining = fr.draining /\ fr'.remaining["out"] = Queued("out")
          /\ fr'.caller = fr.caller
      BY <2>3 DEF IInv, TypeOK, Frames, Channels
    <3>2. Within("out", fr.remaining["out"])'
      BY <2>1, <2>2, <3>1 DEF Within, Channels, osVars
    <3>3. \A c \in Channels :
            fr.draining /\ c = "err" /\ Within(c, fr.remaining[c])
              => Within(c, fr.remaining[c])'
      BY <2>1, <2>3 DEF Within, Channels, osVars, IInv, TypeOK, Frames
    <3>4. (InPump /\ fr.draining => \A c \in Channels : Within(c, fr.remaining[c]))'
      BY <2>1, <3>1, <3>2, <3>3 DEF CaptureInv, Channels
    <3>5. OsKept
      BY <2>1, OsKeepsBytes DEF IInv, TypeOK
    <3>6. \A c \in Channels : Clean(c)' = Clean(c)
      BY <3>5 DEF OsKept, Clean
    <3>7. Open' = Open /\ Used' = Used
      BY <2>1, <2>3 DEF Open, Starting, Used
    <3>. QED BY <2>1, <2>3, <3>2, <3>4, <3>5, <3>6, <3>7 DEF CaptureInv, OsKept
  <2>4. CASE UNCHANGED fr /\ pc' = "cleanup"
    <3>1. OsKept
      BY <2>1, OsKeepsBytes DEF IInv, TypeOK
    <3>. QED BY <2>1, <2>4, <3>1, CaptureKept
           DEF InPump, Kept, Starting, Capturing, Open, PumpSites, SignalSites,
               KillSites
  <2>. QED BY <1>18, <2>3, <2>4 DEF PumpSnapshotOut, PumpFails, Goto
<1>19. CASE PumpSnapshotErr
  <2> DEFINE left == [fr.remaining EXCEPT !["err"] = Queued("err")]
             drained == {c \in Channels : left[c] = 0}
  <2>1. /\ pc = "snap_err" /\ UNCHANGED <<osVars, handle, setup>>
        /\ InPump /\ Capturing /\ ~Starting /\ ~st.ready
        /\ child \in Exited
    BY <1>19 DEF PumpSnapshotErr, Capturing, Kept, Starting, InPump, PumpSites,
      IInv, AnchorInv, Anchored, TerminalInv
  <2>2. ASSUME NEW c \in Channels  PROVE  Within(c, Queued(c))
    <3>1. CASE c \in st.fds
      <4>1. pipe[c] \in Seq(Writers)
        BY DEF IInv, TypeOK, OsTypeOK
      <4>. QED BY <3>1, <4>1 DEF Within, Queued
    <3>2. CASE c \notin st.fds
      <4>1. Clean(c)
        BY <2>1, <3>2 DEF CaptureInv, Open
      <4>. QED BY <4>1 DEF Within, Clean
    <3>. QED BY <3>1, <3>2
  <2>3. CASE /\ fr' = [fr EXCEPT !.remaining = left, !.draining = TRUE]
             /\ st' = [st EXCEPT !.fds = @ \ drained]
             /\ pc' = "finish_check"
    <3>1. fr'.remaining = left
      BY <2>3 DEF IInv, TypeOK, Frames
    <3>2. /\ st'.buffer = st.buffer /\ st'.limit = st.limit
          /\ st'.fds = st.fds \ drained /\ st'.ready = st.ready
      BY <2>3 DEF IInv, TypeOK, States
    <3>3. ASSUME NEW c \in Channels  PROVE  Within(c, left[c])
      <4>1. CASE c = "err"
        <5>1. left[c] = Queued(c)
          BY <4>1 DEF IInv, TypeOK, Frames
        <5>. QED BY <2>2, <5>1
      <4>2. CASE c = "out"
        <5>1. left[c] = fr.remaining[c]
          BY <4>2 DEF IInv, TypeOK, Frames
        <5>. QED BY <2>1, <4>2, <5>1 DEF CaptureInv
      <4>. QED BY <4>1, <4>2 DEF Channels
    <3>4. ASSUME NEW c \in Channels, c \in drained  PROVE  Clean(c)
      <4>1. pipe[c] \in Seq(Writers)
        BY DEF IInv, TypeOK, OsTypeOK
      <4>. QED BY <3>3, <3>4, <4>1 DEF Within, Clean
    <3> HIDE DEF left, drained
    <3>5. Open' = Open \ drained
      BY <2>1, <2>3, <3>2 DEF Open, Starting
    <3>6. Used' = Used /\ UNCHANGED <<pipe, wrote, held, child>>
      BY <2>1, <3>2 DEF Used, osVars
    <3>7. \A c \in Channels : Clean(c)' = Clean(c)
      BY <3>6 DEF Clean
    <3>8. \A c \in Channels : Within(c, fr.remaining[c])'
      BY <3>1, <3>3, <3>6 DEF Within
    <3>9. ASSUME NEW c \in Channels
          PROVE  /\ CountOf("child", st'.buffer[c]) + CountOf("child", pipe'[c])
                      = wrote'["child"][c]
                 /\ c \notin Open' =>
                      (c \notin held'["child"] \/ child' \in Exited) /\ Clean(c)'
      BY <2>1, <3>2, <3>4, <3>5, <3>6, <3>7 DEF CaptureInv
    <3>. QED BY <2>1, <2>3, <3>2, <3>6, <3>8, <3>9 DEF CaptureInv
  <2>4. CASE UNCHANGED <<st, fr>> /\ pc' = "cleanup"
    <3>1. OsKept
      BY <2>1, OsKeepsBytes DEF IInv, TypeOK
    <3>. QED BY <2>1, <2>4, <3>1, CaptureKept
           DEF InPump, Kept, Starting, Capturing, Open, PumpSites, SignalSites,
               KillSites
  <2>. QED BY <1>19, <2>3, <2>4 DEF PumpSnapshotErr, PumpFails, Goto
<1>20. CASE PumpPoll
  <2>1. pc = "poll" /\ pc' \in {"read_out", "probe", "cleanup"}
    BY <1>20 DEF PumpPoll, PumpFails, TypeOK, States, Frames, Goto, IInv
  <2>2. SameDrain /\ fr'.caller = fr.caller
    BY <1>20 DEF PumpPoll, PumpFails, TypeOK, States, Frames, Goto, IInv,
      SameDrain
  <2>3. UNCHANGED <<st, handle, setup>>
    BY <1>20 DEF PumpPoll, PumpFails, TypeOK, States, Frames, Goto, IInv
  <2>4. OsKept
    BY <1>20, OsQuiet, OsKeepsBytes DEF IInv, TypeOK
  <2>. QED BY <2>1, <2>2, <2>3, <2>4, CaptureKept DEF IInv, ControlInv,
    AnchorInv, Anchored, StartCall, PumpCall, OtherCall, SetupSites,
    PumpSites, SignalSites, KillSites, CleanupSites, InPump, Kept, Starting,
    Capturing, Open, SameDrain, SameBytes
<1>21. CASE PumpWrite
  <2>1. pc = "write_in" /\ pc' \in {"probe", "cleanup"}
    BY <1>21 DEF PumpWrite, PumpFails, WriteInput, TypeOK, States, Frames,
      Goto, IInv
  <2>2. SameBytes
    BY <1>21 DEF PumpWrite, PumpFails, WriteInput, TypeOK, States, Frames,
      Goto, IInv, Channels, SameBytes
  <2>3. UNCHANGED <<fr, handle, setup>>
    BY <1>21 DEF PumpWrite, PumpFails, WriteInput, TypeOK, States, Frames,
      Goto, IInv
  <2>4. OsKept
    BY <1>21, OsQuiet, OsKeepsBytes DEF IInv, TypeOK
  <2>. QED BY <2>1, <2>2, <2>3, <2>4, CaptureKept DEF IInv, ControlInv,
    AnchorInv, Anchored, StartCall, PumpCall, OtherCall, SetupSites,
    PumpSites, SignalSites, KillSites, CleanupSites, InPump, Kept, Starting,
    Capturing, Open, SameDrain, SameBytes
<1>22. CASE PumpProbe
  <2>1. pc = "probe" /\ pc' \in {"clock", "cleanup"}
    BY <1>22 DEF PumpProbe, PumpFails, TypeOK, States, Frames, Goto, IInv
  <2>2. SameDrain /\ fr'.caller = fr.caller
    BY <1>22 DEF PumpProbe, PumpFails, TypeOK, States, Frames, Goto, IInv,
      SameDrain
  <2>3. SameBytes
    BY <1>22 DEF PumpProbe, PumpFails, TypeOK, States, Frames, Goto, IInv,
      Channels, SameBytes
  <2>4. UNCHANGED <<handle, setup>>
    BY <1>22 DEF PumpProbe, PumpFails, TypeOK, States, Frames, Goto, IInv
  <2>5. OsKept
    BY <1>22, OsQuiet, OsKeepsBytes DEF IInv, TypeOK
  <2>. QED BY <2>1, <2>2, <2>3, <2>4, <2>5, CaptureKept DEF IInv,
    ControlInv, AnchorInv, Anchored, StartCall, PumpCall, OtherCall,
    SetupSites, PumpSites, SignalSites, KillSites, CleanupSites, InPump, Kept,
    Starting, Capturing, Open, SameDrain, SameBytes
<1>23. CASE SignalOwnedProbe
  <2>1. pc = "so_probe" /\ pc' \in {"so_direct", "so_group", "cleanup",
      "retry", "last_probe"}
    BY <1>23 DEF SignalOwnedProbe, Raise, TypeOK, States, Frames, Goto, IInv
  <2>2. SameDrain /\ fr'.caller = fr.caller
    BY <1>23 DEF SignalOwnedProbe, Raise, TypeOK, States, Frames, Goto, IInv,
      SameDrain
  <2>3. SameBytes
    BY <1>23 DEF SignalOwnedProbe, Raise, TypeOK, States, Frames, Goto, IInv,
      Channels, SameBytes
  <2>4. UNCHANGED <<handle, setup>>
    BY <1>23 DEF SignalOwnedProbe, Raise, TypeOK, States, Frames, Goto, IInv
  <2>5. OsKept
    BY <1>23, OsQuiet, OsKeepsBytes DEF IInv, TypeOK
  <2>. QED BY <2>1, <2>2, <2>3, <2>4, <2>5, CaptureKept DEF IInv,
    ControlInv, AnchorInv, Anchored, StartCall, PumpCall, OtherCall,
    SetupSites, PumpSites, SignalSites, KillSites, CleanupSites, InPump, Kept,
    Starting, Capturing, Open, SameDrain, SameBytes
<1>24. CASE SignalTerminalProbe
  <2>1. pc = "st_probe" /\ pc' \in {"st_kill", "snap_out", "reap",
      "cleanup", "retry", "last_probe"}
    BY <1>24 DEF SignalTerminalProbe, Raise, TerminalDone, TypeOK, States,
      Frames, Goto, IInv
  <2>2. SameBytes
    BY <1>24 DEF SignalTerminalProbe, Raise, TerminalDone, TypeOK, States,
      Frames, Goto, IInv, Channels, SameBytes
  <2>3. UNCHANGED <<fr, handle, setup>>
    BY <1>24 DEF SignalTerminalProbe, Raise, TerminalDone, TypeOK, States,
      Frames, Goto, IInv
  <2>4. pc' = "snap_out" => fr.caller = "pump"
    BY <1>24 DEF SignalTerminalProbe, Raise, TerminalDone, TypeOK, States,
      Frames, Goto, IInv
  <2>5. OsKept
    BY <1>24, OsQuiet, OsKeepsBytes DEF IInv, TypeOK
  <2>. QED BY <2>1, <2>2, <2>3, <2>4, <2>5, CaptureKept DEF IInv,
    ControlInv, AnchorInv, Anchored, StartCall, PumpCall, OtherCall,
    SetupSites, PumpSites, SignalSites, KillSites, CleanupSites, InPump, Kept,
    Starting, Capturing, Open, SameDrain, SameBytes
<1>25. CASE CleanupFinalProbe
  <2>1. pc = "final_probe" /\ pc' \in {"st_probe", "final_probe",
      "last_probe"}
    BY <1>25 DEF CleanupFinalProbe, TypeOK, States, Frames, Goto, IInv
  <2>2. SameBytes
    BY <1>25 DEF CleanupFinalProbe, TypeOK, States, Frames, Goto, IInv,
      Channels, SameBytes
  <2>3. UNCHANGED <<handle, setup>>
    BY <1>25 DEF CleanupFinalProbe, TypeOK, States, Frames, Goto, IInv
  <2>4. pc' = "st_probe" => fr'.caller = "final"
    BY <1>25 DEF CleanupFinalProbe, TypeOK, States, Frames, Goto, IInv
  <2>5. OsKept
    BY <1>25, OsQuiet, OsKeepsBytes DEF IInv, TypeOK
  <2>. QED BY <2>1, <2>2, <2>3, <2>4, <2>5, CaptureKept DEF IInv,
    ControlInv, AnchorInv, Anchored, StartCall, PumpCall, OtherCall,
    SetupSites, PumpSites, SignalSites, KillSites, CleanupSites, InPump, Kept,
    Starting, Capturing, Open, SameDrain, SameBytes
<1>26. CASE CleanupLastProbe
  <2>1. pc = "last_probe" /\ pc' \in {"close", "aborted"}
    BY <1>26 DEF CleanupLastProbe, TypeOK, States, Frames, Goto, IInv
  <2>2. SameBytes
    BY <1>26 DEF CleanupLastProbe, TypeOK, States, Frames, Goto, IInv,
      Channels, SameBytes
  <2>3. UNCHANGED <<fr, handle, setup>>
    BY <1>26 DEF CleanupLastProbe, TypeOK, States, Frames, Goto, IInv
  <2>4. OsKept
    BY <1>26, OsQuiet, OsKeepsBytes DEF IInv, TypeOK
  <2>. QED BY <2>1, <2>2, <2>3, <2>4, CaptureKept DEF IInv, ControlInv,
    AnchorInv, Anchored, StartCall, PumpCall, OtherCall, SetupSites,
    PumpSites, SignalSites, KillSites, CleanupSites, InPump, Kept, Starting,
    Capturing, Open, SameDrain, SameBytes
<1>27. CASE SignalOwnedDirect
  <2>1. pc = "so_direct" /\ pc' \in {"so_group", "cleanup", "retry",
      "last_probe"}
    BY <1>27 DEF SignalOwnedDirect, Raise, TypeOK, States, Frames, Goto, IInv
  <2>2. UNCHANGED <<st, fr, handle, setup>>
    BY <1>27 DEF SignalOwnedDirect, Raise, TypeOK, States, Frames, Goto, IInv
  <2>3. OsKept
    BY <1>27, OsKeepsBytes DEF SignalOwnedDirect, Killed, IInv, TypeOK
  <2>. QED BY <2>1, <2>2, <2>3, CaptureKept DEF IInv, ControlInv, AnchorInv,
    Anchored, StartCall, PumpCall, OtherCall, SetupSites, PumpSites,
    SignalSites, KillSites, CleanupSites, InPump, Kept, Starting, Capturing,
    Open, SameDrain, SameBytes
<1>28. CASE SignalOwnedGroup
  <2>1. pc = "so_group" /\ pc' \in {"so_late", "mark", "st_probe",
      "cleanup", "retry", "last_probe"}
    BY <1>28 DEF SignalOwnedGroup, Raise, OwnedDone, TypeOK, States, Frames,
      Goto, IInv
  <2>2. SameBytes
    BY <1>28 DEF SignalOwnedGroup, Raise, OwnedDone, TypeOK, States, Frames,
      Goto, IInv, Channels, SameBytes
  <2>3. UNCHANGED <<fr, handle, setup>>
    BY <1>28 DEF SignalOwnedGroup, Raise, OwnedDone, TypeOK, States, Frames,
      Goto, IInv
  <2>4. pc' = "mark" => fr.caller = "pump"
    BY <1>28 DEF SignalOwnedGroup, Raise, OwnedDone, TypeOK, States, Frames,
      Goto, IInv
  <2>5. OsKept
    BY <1>28, OsKeepsBytes DEF SignalOwnedGroup, Killed, IInv, TypeOK
  <2>. QED BY <2>1, <2>2, <2>3, <2>4, <2>5, CaptureKept DEF IInv,
    ControlInv, AnchorInv, Anchored, StartCall, PumpCall, OtherCall,
    SetupSites, PumpSites, SignalSites, KillSites, CleanupSites, InPump, Kept,
    Starting, Capturing, Open, SameDrain, SameBytes
<1>29. CASE SignalOwnedLate
  <2>1. pc = "so_late" /\ pc' \in {"mark", "st_probe", "cleanup", "retry",
      "last_probe"}
    BY <1>29 DEF SignalOwnedLate, Raise, OwnedDone, TypeOK, States, Frames,
      Goto, IInv
  <2>2. SameBytes
    BY <1>29 DEF SignalOwnedLate, Raise, OwnedDone, TypeOK, States, Frames,
      Goto, IInv, Channels, SameBytes
  <2>3. UNCHANGED <<fr, handle, setup>>
    BY <1>29 DEF SignalOwnedLate, Raise, OwnedDone, TypeOK, States, Frames,
      Goto, IInv
  <2>4. pc' = "mark" => fr.caller = "pump"
    BY <1>29 DEF SignalOwnedLate, Raise, OwnedDone, TypeOK, States, Frames,
      Goto, IInv
  <2>5. OsKept
    BY <1>29, OsKeepsBytes DEF SignalOwnedLate, Killed, IInv, TypeOK
  <2>. QED BY <2>1, <2>2, <2>3, <2>4, <2>5, CaptureKept DEF IInv,
    ControlInv, AnchorInv, Anchored, StartCall, PumpCall, OtherCall,
    SetupSites, PumpSites, SignalSites, KillSites, CleanupSites, InPump, Kept,
    Starting, Capturing, Open, SameDrain, SameBytes
<1>30. CASE SignalTerminalKill
  <2>1. pc = "st_kill" /\ pc' \in {"snap_out", "reap", "cleanup", "retry",
      "last_probe"}
    BY <1>30 DEF SignalTerminalKill, Raise, TerminalDone, TypeOK, States,
      Frames, Goto, IInv
  <2>2. SameBytes
    BY <1>30 DEF SignalTerminalKill, Raise, TerminalDone, TypeOK, States,
      Frames, Goto, IInv, Channels, SameBytes
  <2>3. UNCHANGED <<fr, handle, setup>>
    BY <1>30 DEF SignalTerminalKill, Raise, TerminalDone, TypeOK, States,
      Frames, Goto, IInv
  <2>4. pc' = "snap_out" => fr.caller = "pump"
    BY <1>30 DEF SignalTerminalKill, Raise, TerminalDone, TypeOK, States,
      Frames, Goto, IInv
  <2>5. OsKept
    BY <1>30, OsKeepsBytes DEF SignalTerminalKill, Killed, IInv, TypeOK
  <2>. QED BY <2>1, <2>2, <2>3, <2>4, <2>5, CaptureKept DEF IInv,
    ControlInv, AnchorInv, Anchored, StartCall, PumpCall, OtherCall,
    SetupSites, PumpSites, SignalSites, KillSites, CleanupSites, InPump, Kept,
    Starting, Capturing, Open, SameDrain, SameBytes
<1>31. CASE PumpFinish
  <2>1. pc = "finish" /\ pc' \in {"pump_ok", "cleanup"}
    BY <1>31 DEF PumpFinish, PumpFails, TypeOK, States, Frames, Goto, IInv
  <2>2. st'.buffer = st.buffer /\ st'.limit = st.limit /\ st'.fds \cap
      Channels = st.fds \cap Channels
    <3>1. \E pid \in BOOLEAN :
             \/ st' = [st EXCEPT !.pid = pid]
             \/ st' = [st EXCEPT !.pid = pid, !.ready = TRUE,
                                 !.fds = @ \ {"in"}, !.unsent = 0]
      BY <1>31 DEF PumpFinish
    <3>. QED BY <3>1 DEF IInv, TypeOK, States, Channels
  <2>3. UNCHANGED <<fr, handle, setup>>
    BY <1>31 DEF PumpFinish, PumpFails, TypeOK, States, Frames, Goto, IInv
  <2>4. pc' = "cleanup" => st'.ready = st.ready
    <3>1. \E pid \in BOOLEAN :
             \/ st' = [st EXCEPT !.pid = pid]
             \/ pc' = "pump_ok"
      BY <1>31 DEF PumpFinish, Goto
    <3>. QED BY <3>1 DEF IInv, TypeOK, States
  <2>5. OsKept
    BY <1>31, OsKeepsBytes DEF PumpFinish, Reaped, IInv, TypeOK
  <2>. QED BY <2>1, <2>2, <2>3, <2>4, <2>5, CaptureKept DEF IInv,
    ControlInv, AnchorInv, Anchored, StartCall, PumpCall, OtherCall,
    SetupSites, PumpSites, SignalSites, KillSites, CleanupSites, InPump, Kept,
    Starting, Capturing, Open, SameDrain, SameBytes
<1>32. CASE CleanupReap
  <2>1. pc = "reap" /\ pc' \in {"close", "cleanup", "retry", "last_probe"}
    BY <1>32 DEF CleanupReap, Raise, TypeOK, States, Frames, Goto, IInv
  <2>2. SameBytes
    BY <1>32 DEF CleanupReap, Raise, TypeOK, States, Frames, Goto, IInv,
      Channels, SameBytes
  <2>3. UNCHANGED <<fr, handle, setup>>
    BY <1>32 DEF CleanupReap, Raise, TypeOK, States, Frames, Goto, IInv
  <2>4. OsKept
    BY <1>32, OsKeepsBytes DEF CleanupReap, Reaped, IInv, TypeOK
  <2>. QED BY <2>1, <2>2, <2>3, <2>4, CaptureKept DEF IInv, ControlInv,
    AnchorInv, Anchored, StartCall, PumpCall, OtherCall, SetupSites,
    PumpSites, SignalSites, KillSites, CleanupSites, InPump, Kept, Starting,
    Capturing, Open, SameDrain, SameBytes
<1>33. CASE Cleanup
  <2>1. pc = "cleanup" /\ pc' \in {"reap", "so_probe", "close"}
    BY <1>33 DEF Cleanup, Attempt, TypeOK, States, Frames, Goto, IInv
  <2>2. UNCHANGED <<st, handle, setup>>
    BY <1>33 DEF Cleanup, Attempt, TypeOK, States, Frames, Goto, IInv
  <2>3. pc' # "close" => fr'.caller = "attempt"
    BY <1>33 DEF Cleanup, Attempt, TypeOK, States, Frames, Goto, IInv
  <2>4. OsKept
    BY <1>33, OsQuiet, OsKeepsBytes DEF IInv, TypeOK
  <2>. QED BY <2>1, <2>2, <2>3, <2>4, CaptureKept DEF IInv, ControlInv,
    AnchorInv, Anchored, StartCall, PumpCall, OtherCall, SetupSites,
    PumpSites, SignalSites, KillSites, CleanupSites, InPump, Kept, Starting,
    Capturing, Open, SameDrain, SameBytes
<1>34. CASE CleanupRetry
  <2>1. pc = "retry" /\ pc' \in {"reap", "so_probe", "final_probe",
      "close"}
    BY <1>34 DEF CleanupRetry, Attempt, TypeOK, States, Frames, Goto, IInv
  <2>2. UNCHANGED <<st, handle, setup>>
    BY <1>34 DEF CleanupRetry, Attempt, TypeOK, States, Frames, Goto, IInv
  <2>3. pc' \in {"reap", "so_probe"} => fr'.caller = "attempt"
    BY <1>34 DEF CleanupRetry, Attempt, TypeOK, States, Frames, Goto, IInv
  <2>4. OsKept
    BY <1>34, OsQuiet, OsKeepsBytes DEF IInv, TypeOK
  <2>. QED BY <2>1, <2>2, <2>3, <2>4, CaptureKept DEF IInv, ControlInv,
    AnchorInv, Anchored, StartCall, PumpCall, OtherCall, SetupSites,
    PumpSites, SignalSites, KillSites, CleanupSites, InPump, Kept, Starting,
    Capturing, Open, SameDrain, SameBytes
<1>35. CASE CleanupClose
  <2>1. st' = Blank /\ pc' = "idle" /\ handle' # "live"
    BY <1>35 DEF CleanupClose, Goto
  <2>2. Used' = 0 /\ st'.limit = 0 /\ ~st'.ready
    BY <2>1 DEF Used, Blank, Channels
  <2>3. ~Capturing' /\ ~InPump'
    BY <2>1, <2>2 DEF Capturing, Starting, Kept, InPump, PumpSites,
      SignalSites, KillSites
  <2>. QED BY <2>1, <2>2, <2>3 DEF CaptureInv
<1>36. ASSUME NEW c \in Channels, PumpRead(c) PROVE  CaptureInv'
  <2>1. /\ pc \in {"read_out", "read_err"} /\ UNCHANGED <<handle, setup>>
        /\ InPump /\ Capturing /\ ~Starting /\ ~st.ready
        /\ fr.draining => child \in Exited
    BY <1>36 DEF PumpRead, Channels, Capturing, Kept, Starting, InPump, PumpSites,
      IInv, TerminalInv, AnchorInv, Anchored
  <2>2. /\ \A d \in Channels : /\ pipe[d] \in Seq(Writers)
                               /\ st.buffer[d] \in Seq(Writers)
                               /\ fr.remaining[d] \in Nat
        /\ pipe \in [Channels -> Seq(Writers)]
    BY DEF IInv, TypeOK, OsTypeOK, States, Frames
  <2>3. AfterRead(c) \in {"read_err", "write_in"}
    BY DEF AfterRead
  <2>4. CASE /\ UNCHANGED <<osVars, st, fr>>
             /\ pc' \in {"read_err", "write_in", "cleanup"}
    <3>1. OsKept
      BY <2>4, OsKeepsBytes DEF IInv, TypeOK
    <3>. QED BY <2>1, <2>4, <3>1, CaptureKept
           DEF InPump, Kept, Starting, Capturing, Open, PumpSites, SignalSites,
               KillSites
  <2>5. CASE /\ UNCHANGED <<osVars, fr>> /\ pc' \in {"read_err", "write_in"}
             /\ pipe[c] = <<>> /\ NoHolder(c)
             /\ st' = [st EXCEPT !.fds = @ \ {c}]
    <3>1. /\ st'.buffer = st.buffer /\ st'.limit = st.limit
          /\ st'.fds = st.fds \ {c} /\ st'.ready = st.ready
      BY <2>5 DEF IInv, TypeOK, States
    <3>2. Open' = Open \ {c} /\ Used' = Used
      BY <2>1, <2>5, <3>1 DEF Open, Starting, Used
    <3>3. Clean(c) /\ c \notin held["child"]
      BY <2>5 DEF Clean, NoHolder, Writers
    <3>4. UNCHANGED <<pipe, wrote, held, child>>
      BY <2>5 DEF osVars
    <3>5. \A d \in Channels : \A n :
            Clean(d)' = Clean(d) /\ Within(d, n)' = Within(d, n)
      BY <3>4 DEF Clean, Within
    <3>6. ASSUME NEW d \in Channels
          PROVE  /\ CountOf("child", st'.buffer[d]) + CountOf("child", pipe'[d])
                      = wrote'["child"][d]
                 /\ d \notin Open' =>
                      (d \notin held'["child"] \/ child' \in Exited) /\ Clean(d)'
      BY <2>1, <3>1, <3>2, <3>3, <3>4, <3>5 DEF CaptureInv
    <3>7. (fr.draining => \A d \in Channels : Within(d, fr.remaining[d]))'
      BY <2>1, <2>5, <3>4 DEF CaptureInv, Within
    <3>. QED BY <2>1, <2>5, <3>1, <3>2, <3>6, <3>7 DEF CaptureInv
  <2> DEFINE amount == IF fr.draining THEN Least(Chunk, fr.remaining[c])
                                      ELSE Chunk
             count  == Least(amount, Len(pipe[c]))
             left   == fr.remaining[c] - count
             moved  == SubSeq(pipe[c], 1, count)
             closed == IF fr.draining /\ left = 0 THEN {c} ELSE {}
  <2>6. /\ count \in 0..Len(pipe[c])
        /\ fr.draining => count <= fr.remaining[c]
    BY <2>2, ChunkAssumption DEF Least
  <2>7. CASE /\ Consume(c, count) /\ UNCHANGED <<st, fr>> /\ pc' = "cleanup"
    <3>1. ~Capturing' /\ ~InPump' /\ Used' = Used
      BY <2>1, <2>7 DEF Capturing, Starting, Kept, InPump, PumpSites,
        SignalSites, KillSites, Used
    <3>. QED BY <2>1, <2>7, <3>1 DEF CaptureInv
  <2>8. ASSUME Consume(c, count), count <= st.limit - Used,
               st' = [st EXCEPT !.buffer[c] = @ \o moved, !.fds = @ \ closed],
               fr.draining => fr' = [fr EXCEPT !.remaining[c] = left],
               ~fr.draining => UNCHANGED fr,
               pc' \in {"read_err", "write_in"}
        PROVE  CaptureInv'
    <3>1. /\ moved \in Seq(Writers) /\ Len(moved) = count
          /\ pipe'[c] = SubSeq(pipe[c], count + 1, Len(pipe[c]))
          /\ \A i \in DOMAIN pipe'[c] :
               i + count \in DOMAIN pipe[c] /\ pipe'[c][i] = pipe[c][i + count]
          /\ CountOf("child", st.buffer[c] \o moved) + CountOf("child", pipe'[c])
               = CountOf("child", st.buffer[c]) + CountOf("child", pipe[c])
      <4>1. /\ pipe[c] \in Seq(Writers) /\ st.buffer[c] \in Seq(Writers)
            /\ count \in 0..Len(pipe[c])
        BY <2>2, <2>6
      <4>2. pipe'[c] = SubSeq(pipe[c], count + 1, Len(pipe[c]))
        BY <2>2, <2>8 DEF Consume
      <4>. HIDE DEF amount, count
      <4>. QED BY <4>1, <4>2, CountMove
    <3>2. \A d \in Channels : d # c => pipe'[d] = pipe[d]
      BY <2>2, <2>8 DEF Consume
    <3>3. /\ st'.limit = st.limit /\ st'.fds = st.fds \ closed
          /\ st'.ready = st.ready
          /\ st'.buffer = [st.buffer EXCEPT ![c] = @ \o moved]
      BY <2>8 DEF IInv, TypeOK, States
    <3>4. /\ st'.buffer[c] = st.buffer[c] \o moved
          /\ \A d \in Channels : d # c => st'.buffer[d] = st.buffer[d]
      BY <3>3 DEF IInv, TypeOK, States
    <3>5. /\ fr'.draining = fr.draining
          /\ fr.draining => fr'.remaining[c] = left
          /\ \A d \in Channels : d # c => fr'.remaining[d] = fr.remaining[d]
      BY <2>8 DEF IInv, TypeOK, Frames
    <3>6. UNCHANGED <<wrote, held, child>>
      BY <2>8 DEF Consume
    <3>7. count \in Nat /\ (fr.draining => left \in Nat)
          /\ closed \subseteq {c} /\ (closed # {} => fr.draining /\ left = 0)
      BY <2>2, <2>6
    <3>8. left = fr.remaining[c] - count
      OBVIOUS
    <3> HIDE DEF amount, count, left, moved, closed
    <3>9. Used' = Used + count /\ Used \in Nat
      <4>. DEFINE L(d) == Len(st.buffer[d])
      <4>1. L(c)' = L(c) + count
        <5>1. ASSUME NEW p \in Seq(Writers), NEW q \in Seq(Writers)
              PROVE  Len(p \o q) = Len(p) + Len(q)
          OBVIOUS
        <5>. QED BY <2>2, <3>1, <3>4, <5>1
      <4>2. L("out") \in Nat /\ L("err") \in Nat
        BY <2>2 DEF Channels
      <4>3. /\ c # "out" => L("out")' = L("out")
            /\ c # "err" => L("err")' = L("err")
        BY <3>4 DEF Channels
      <4>4. Used = L("out") + L("err") /\ Used' = L("out")' + L("err")'
        BY DEF Used
      <4>. HIDE DEF L
      <4>5. CASE c = "out"
        BY <3>7, <4>1, <4>2, <4>3, <4>4, <4>5
      <4>6. CASE c = "err"
        BY <3>7, <4>1, <4>2, <4>3, <4>4, <4>6
      <4>. QED BY <4>5, <4>6 DEF Channels
    <3>10. (Used <= st.limit)'
      BY <2>8, <3>3, <3>7, <3>9 DEF IInv, TypeOK, States
    <3>11. Open' = Open \ closed
      BY <2>1, <2>8, <3>3 DEF Open, Starting
    <3>12. ASSUME NEW d \in Channels, Clean(d)  PROVE  Clean(d)'
      <4>1. CASE d = c
        BY <3>1, <3>12, <4>1 DEF Clean
      <4>2. CASE d # c
        BY <3>2, <3>12, <4>2 DEF Clean
      <4>. QED BY <4>1, <4>2
    <3>13. ASSUME fr.draining, NEW d \in Channels
           PROVE  Within(d, fr.remaining[d])'
      <4>1. Within(d, fr.remaining[d])
        BY <2>1, <3>13 DEF CaptureInv
      <4>2. CASE d # c
        BY <3>2, <3>5, <4>1, <4>2 DEF Within
      <4>3. CASE d = c
        <5>1. ASSUME NEW i \in DOMAIN pipe'[c], pipe'[c][i] = "child"
              PROVE  i <= left
          <6>1. i + count <= fr.remaining[c]
            BY <3>1, <4>1, <4>3, <5>1 DEF Within
          <6>2. pipe'[c] \in Seq(Writers)
            BY <2>2, <2>6, <3>1, CountMove
          <6>. QED BY <2>2, <3>7, <3>8, <6>1, <6>2
        <5>. QED BY <3>5, <3>13, <4>3, <5>1 DEF Within
      <4>. QED BY <4>2, <4>3
    <3>14. ASSUME closed # {}  PROVE  Clean(c)' /\ child \in Exited
      <4>1. Within(c, 0)'
        BY <3>5, <3>7, <3>13, <3>14 DEF Within
      <4>2. pipe'[c] \in Seq(Writers)
        BY <2>2, <2>6, <3>1, CountMove
      <4>. QED BY <2>1, <3>7, <3>14, <4>1, <4>2 DEF Within, Clean
    <3>15. ASSUME NEW d \in Channels
           PROVE  CountOf("child", st'.buffer[d]) + CountOf("child", pipe'[d])
                    = wrote'["child"][d]
      <4>1. CountOf("child", st.buffer[d]) + CountOf("child", pipe[d])
              = wrote["child"][d]
        BY <2>1 DEF CaptureInv
      <4>2. CASE d = c
        BY <3>1, <3>4, <3>6, <4>1, <4>2
      <4>3. CASE d # c
        BY <3>2, <3>4, <3>6, <4>1, <4>3
      <4>. QED BY <4>2, <4>3
    <3>16. ASSUME NEW d \in Channels, d \notin Open'
           PROVE  (d \notin held'["child"] \/ child' \in Exited) /\ Clean(d)'
      <4>1. CASE d \notin Open
        BY <2>1, <3>6, <3>12, <4>1 DEF CaptureInv
      <4>2. CASE d \in closed
        BY <3>6, <3>7, <3>14, <4>2
      <4>. QED BY <3>11, <3>16, <4>1, <4>2
    <3>. QED BY <2>1, <2>8, <3>3, <3>5, <3>10, <3>13, <3>15, <3>16 DEF CaptureInv
  <2>9. CASE c \in fr.revents /\ ReadBytes(c)
    <3>1. /\ Consume(c, count)
          /\ \/ UNCHANGED <<st, fr>> /\ pc' = "cleanup"
             \/ /\ ~(count > st.limit - Used)
                /\ st' = [st EXCEPT
                            !.buffer[c] = @ \o moved,
                            !.fds = IF fr.draining /\ left = 0
                                    THEN @ \ {c} ELSE @]
                /\ fr' = IF fr.draining THEN [fr EXCEPT !.remaining[c] = left]
                                        ELSE fr
                /\ pc' \in {"read_err", "write_in"}
      BY <2>3, <2>9 DEF ReadBytes, PumpFails, Goto
    <3>2. (IF fr.draining /\ left = 0 THEN st.fds \ {c} ELSE st.fds)
            = st.fds \ closed
      OBVIOUS
    <3>3. ~(count > st.limit - Used) => count <= st.limit - Used
      <4>1. Used \in Nat
        <5>1. Len(st.buffer["out"]) \in Nat /\ Len(st.buffer["err"]) \in Nat
          BY <2>2 DEF Channels
        <5>2. \A a, b \in Nat : a + b \in Nat
          OBVIOUS
        <5>. QED BY <5>1, <5>2 DEF Used
      <4>2. st.limit \in Nat /\ count \in Nat
        BY <2>2, <2>6 DEF IInv, TypeOK, States
      <4>. HIDE DEF count
      <4>. QED BY <4>1, <4>2
    <3> HIDE DEF amount, count, left, moved, closed
    <3>. QED BY <2>7, <2>8, <3>1, <3>2, <3>3
  <2>10. CASE c \in fr.revents /\ ReadNothing(c)
    <3>1. UNCHANGED <<osVars, fr>>
      BY <2>10 DEF ReadNothing
    <3>2. CASE ~fr.draining /\ Eof(c)
      BY <2>3, <2>5, <2>10, <3>1, <3>2 DEF ReadNothing, Eof, Goto
    <3>3. CASE ~(~fr.draining /\ Eof(c))
      <4>1. st' = st
        <5>1. CASE fr.draining
          BY <2>10, <5>1 DEF ReadNothing
        <5>2. CASE ~fr.draining /\ ~Eof(c)
          <6>1. st' = [st EXCEPT !.fds = @]
            BY <2>10, <5>2 DEF ReadNothing
          <6>. QED BY <6>1 DEF IInv, TypeOK, States
        <5>. QED BY <3>3, <5>1, <5>2
      <4>. QED BY <2>3, <2>4, <2>10, <3>1, <4>1 DEF ReadNothing, PumpFails, Goto
    <3>. QED BY <3>2, <3>3
  <2>11. CASE c \in fr.revents /\ ReadFails(c)
    BY <2>3, <2>4, <2>11 DEF ReadFails, PumpFails, Goto
  <2>12. CASE c \notin fr.revents
    BY <1>36, <2>3, <2>4, <2>12 DEF PumpRead, Goto
  <2>. QED BY <1>36, <2>9, <2>10, <2>11, <2>12 DEF PumpRead, ReadOutput
<1>37. CASE (ChildSetpgid \/ ChildExec \/ ChildSetupFails \/ ChildCloses
      \/ ChildSpawns \/ ChildLeavesGroup \/ DescEscapes \/ DescRejoins \/
      DescExits \/ ChildExits \/ ReapedElsewhere \/ ChildDies) /\ UNCHANGED
      runtimeVars
  <2>1. OsKept
    BY <1>37, OsKeepsBytes DEF IInv, TypeOK
  <2>. QED BY <1>37, <2>1, CaptureKept DEF runtimeVars, InPump, Kept, Starting,
         Capturing, Open
<1>38. ASSUME NEW w \in Writers, NEW c \in Channels, Write(w, c),
             UNCHANGED runtimeVars
      PROVE  CaptureInv'
  <2>1. /\ pipe' = [pipe EXCEPT ![c] = Append(pipe[c], w)]
        /\ wrote' = [wrote EXCEPT ![w][c] = wrote[w][c] + 1]
        /\ UNCHANGED <<child, held, handle, st, fr, pc, setup>>
        /\ c \in held[w] /\ (w = "child" => child \notin Exited)
    BY <1>38 DEF Write, runtimeVars, CanWrite, Exited
  <2>2. \A d \in Channels : pipe[d] \in Seq(Writers) /\ st.buffer[d] \in Seq(Writers)
    BY DEF IInv, TypeOK, OsTypeOK, States
  <2>3. /\ UNCHANGED <<Capturing, Open, InPump, Used>>
    BY <2>1 DEF Capturing, Open, InPump, Starting, Kept, Used
  <2>4. ASSUME NEW d \in Channels, w = "child" => d # c
        PROVE  /\ \A i \in DOMAIN pipe'[d] : pipe'[d][i] = "child" =>
                    i \in DOMAIN pipe[d] /\ pipe[d][i] = "child"
               /\ CountOf("child", pipe'[d]) = CountOf("child", pipe[d])
               /\ wrote'["child"][d] = wrote["child"][d]
    <3>1. CASE d # c
      BY <2>1, <3>1 DEF IInv, TypeOK, OsTypeOK, Writers
    <3>2. CASE d = c
      <4>1. w # "child"
        BY <2>4, <3>2
      <4>2. pipe'[d] = Append(pipe[d], w)
        BY <2>1, <3>2 DEF IInv, TypeOK, OsTypeOK
      <4>3. CountOf("child", Append(pipe[d], w)) = CountOf("child", pipe[d])
        <5>1. CountOf("child", pipe[d]) \in Nat
          BY <2>2, CountType
        <5>. QED BY <2>2, <4>1, <5>1, CountAppend
      <4>4. \A i \in DOMAIN Append(pipe[d], w) : Append(pipe[d], w)[i] = "child" =>
              i \in DOMAIN pipe[d] /\ pipe[d][i] = "child"
        BY <2>2, <4>1
      <4>5. wrote'["child"][d] = wrote["child"][d]
        BY <2>1, <4>1 DEF IInv, TypeOK, OsTypeOK, Writers
      <4>. QED BY <4>2, <4>3, <4>4, <4>5
    <3>. QED BY <3>1, <3>2
  <2>5. ASSUME w = "child"
        PROVE  /\ CountOf("child", pipe'[c]) = CountOf("child", pipe[c]) + 1
               /\ wrote'["child"][c] = wrote["child"][c] + 1
    <3>1. pipe'[c] = Append(pipe[c], "child")
      BY <2>1, <2>5 DEF IInv, TypeOK, OsTypeOK
    <3>2. CountOf("child", pipe'[c]) = CountOf("child", pipe[c]) + 1
      BY <2>2, <3>1, CountAppend DEF Writers
    <3>. QED BY <2>1, <2>5, <3>2 DEF IInv, TypeOK, OsTypeOK
  <2>6. ASSUME NEW d \in Channels, Capturing
        PROVE  CountOf("child", st.buffer[d]) + CountOf("child", pipe'[d])
                 = wrote'["child"][d]
    <3>1. CountOf("child", st.buffer[d]) + CountOf("child", pipe[d])
            = wrote["child"][d]
      BY <2>6 DEF CaptureInv
    <3>2. /\ CountOf("child", st.buffer[d]) \in Nat
          /\ CountOf("child", pipe[d]) \in Nat
      BY <2>2, CountType
    <3>3. CASE w = "child" /\ d = c
      BY <2>5, <3>1, <3>2, <3>3
    <3>4. CASE w = "child" => d # c
      BY <2>4, <3>1, <3>4
    <3>. QED BY <3>3, <3>4
  <2>7. ASSUME NEW d \in Channels, Capturing, d \notin Open
        PROVE  (d \notin held["child"] \/ child \in Exited) /\ Clean(d)'
    <3>1. (d \notin held["child"] \/ child \in Exited) /\ Clean(d)
      BY <2>7 DEF CaptureInv
    <3>2. w = "child" => d # c
      BY <2>1, <3>1
    <3>. QED BY <2>4, <3>1, <3>2 DEF Clean
  <2>8. ASSUME NEW d \in Channels, NEW n, child \in Exited, Within(d, n)
        PROVE  Within(d, n)'
    <3>1. w = "child" => d # c
      BY <2>1, <2>8
    <3>. QED BY <2>4, <2>8, <3>1 DEF Within
  <2>9. (InPump /\ fr.draining) \/ pc = "snap_err" => child \in Exited
    BY DEF IInv, TerminalInv, InPump, PumpSites, SignalSites, KillSites
  <2>10. (InPump /\ fr.draining => \A d \in Channels : Within(d, fr.remaining[d]))'
    <3>1. ASSUME InPump, fr.draining, NEW d \in Channels
          PROVE  Within(d, fr.remaining[d])'
      <4>1. Within(d, fr.remaining[d])
        BY <3>1 DEF CaptureInv
      <4>. QED BY <2>1, <2>8, <2>9, <3>1, <4>1 DEF Within
    <3>. QED BY <2>1, <2>3, <3>1
  <2>11. (pc = "snap_err" => Within("out", fr.remaining["out"]))'
    <3>1. ASSUME pc = "snap_err"  PROVE  Within("out", fr.remaining["out"])'
      <4>1. Within("out", fr.remaining["out"])
        BY <3>1 DEF CaptureInv
      <4>. QED BY <2>1, <2>8, <2>9, <3>1, <4>1 DEF Within, Channels
    <3>. QED BY <2>1, <3>1
  <2>. QED BY <2>1, <2>3, <2>6, <2>7, <2>10, <2>11 DEF CaptureInv
<1>. QED BY <1>1, <1>2, <1>3, <1>4, <1>5, <1>6, <1>7, <1>8, <1>9, <1>10,
    <1>11, <1>12, <1>13, <1>14, <1>15, <1>16, <1>17, <1>18, <1>19, <1>20,
    <1>21, <1>22, <1>23, <1>24, <1>25, <1>26, <1>27, <1>28, <1>29, <1>30,
    <1>31, <1>32, <1>33, <1>34, <1>35, <1>36, <1>37, <1>38 DEF Next, Runtime,
    Caller, Environment, ChildSetup, ProgramStep, Channels

StrongInv == IInv /\ RetryInv /\ CauseInv /\ EarlyInv /\ CaptureInv

\* Before the first call all of it holds.
LEMMA StrongInit == Init => StrongInv
<1>. SUFFICES ASSUME Init PROVE StrongInv
  OBVIOUS
<1>1. IInv
  BY InvInit
<1>2. /\ pc = "idle" /\ handle = "none" /\ ~st.ready /\ st = Blank
      /\ faults = 0
  BY DEF Init, Blank
<1>3. ~InPump /\ ~Kept /\ ~Capturing /\ ~Owning
  BY <1>2 DEF InPump, Kept, Capturing, Starting, Owning, PumpSites,
    SignalSites, KillSites
<1>4. RetryInv
  BY <1>2 DEF RetryInv, CallSites, PumpSites, SignalSites, KillSites,
    AbortNeedsTwoFaults
<1>5. CauseInv /\ EarlyInv
  BY <1>2, <1>3 DEF CauseInv, EarlyInv, SetupSites
<1>6. Used = 0 /\ st.limit = 0
  BY <1>2 DEF Used, Blank, Channels
<1>7. CaptureInv
  BY <1>2, <1>3, <1>6 DEF CaptureInv
<1>. QED BY <1>1, <1>4, <1>5, <1>7 DEF StrongInv

\* Every step preserves all of it.
LEMMA StrongStep ==
  ASSUME StrongInv, [Next]_vars
  PROVE  StrongInv'
<1>1. CASE Next
  <2>1. IInv /\ IInv' /\ TypeOK
    BY <1>1, InvStep DEF StrongInv, IInv
  <2>2. pc \in PumpSites \ {"pump_ok"} => fr.caller = "pump"
    BY DEF StrongInv, RetryInv
  <2>3. RetryInv'
    BY <1>1, <2>1, RetryStep DEF StrongInv
  <2>4. (CauseInv /\ EarlyInv)'
    BY <1>1, <2>1, <2>2, CauseStep DEF StrongInv
  <2>5. CaptureInv'
    BY <1>1, <2>1, <2>2, CaptureStep DEF StrongInv
  <2>. QED BY <2>1, <2>3, <2>4, <2>5 DEF StrongInv
<1>2. CASE UNCHANGED vars
  <2>1. IInv'
    BY <1>2, InvStep DEF StrongInv
  <2>2. RetryInv' /\ CauseInv' /\ EarlyInv'
    BY <1>2 DEF StrongInv, vars, RetryInv, AbortNeedsTwoFaults, CauseInv,
      EarlyInv, InPump, Kept, Owning, Cancel
  <2>3. CaptureInv'
    BY <1>2 DEF StrongInv, vars, CaptureInv, Used, Capturing, Starting, Kept,
      InPump, Open, Clean, Within
  <2>. QED BY <2>1, <2>2, <2>3 DEF StrongInv
<1>. QED BY <1>1, <1>2

\* The strengthened invariant holds for all values of the constants.
THEOREM StrongInvariance == Spec => []StrongInv
<1>. QED BY StrongInit, StrongStep, PTL DEF Spec

\* The runtime exits with status 1 only after two failures in one cleanup:
\* nq_process_cleanup recovers from a single transient one.
THEOREM AbortSafety == Spec => []AbortNeedsTwoFaults
<1>1. StrongInv => AbortNeedsTwoFaults
  BY DEF StrongInv, RetryInv
<1>. QED BY <1>1, StrongInvariance, PTL

\* A ready outcome reports every kill that reached the child, and none for a
\* child that had exited when the runtime last looked before it signalled.
THEOREM OutcomeSafety == Spec => []OutcomeGenuine
<1>1. StrongInv => OutcomeGenuine
  <2>1. ASSUME StrongInv, st.ready  PROVE  ~Owning /\ pc # "mark" /\ Kept
    BY <2>1 DEF StrongInv, IInv, AnchorInv, Anchored, Owning, Kept, KillSites,
      PumpSites
  <2>2. ASSUME StrongInv  PROVE  KillIsReported
    BY <2>1, <2>2 DEF StrongInv, CauseInv, KillIsReported
  <2>3. ASSUME StrongInv  PROVE  NaturalExitWins
    BY <2>3 DEF StrongInv, EarlyInv, NaturalExitWins
  <2>. QED BY <2>2, <2>3 DEF OutcomeGenuine
<1>. QED BY <1>1, StrongInvariance, PTL

\* A ready outcome holds every byte the child wrote, within the limit, also
\* when an escaped descendant keeps writing to the same pipe.
THEOREM CaptureSafety == Spec => []CaptureComplete
<1>1. StrongInv => CaptureComplete
  <2>1. SUFFICES ASSUME StrongInv, st.ready
                 PROVE  /\ Used <= st.limit
                        /\ \A c \in Channels :
                             CountOf("child", st.buffer[c]) = wrote["child"][c]
    BY DEF CaptureComplete
  <2>2. Used <= st.limit
    BY <2>1 DEF StrongInv, CaptureInv
  <2>3. ~Starting /\ Capturing /\ Open = {}
    BY <2>1 DEF StrongInv, CaptureInv, IInv, AnchorInv, Anchored, Starting,
      Capturing, Kept, Open
  <2>4. ASSUME NEW c \in Channels
        PROVE  CountOf("child", st.buffer[c]) = wrote["child"][c]
    <3>1. /\ CountOf("child", st.buffer[c]) + CountOf("child", pipe[c])
               = wrote["child"][c]
          /\ Clean(c)
      BY <2>1, <2>3 DEF StrongInv, CaptureInv
    <3>2. st.buffer[c] \in Seq(Writers) /\ pipe[c] \in Seq(Writers)
      BY <2>1 DEF StrongInv, IInv, TypeOK, OsTypeOK, States
    <3>3. CountOf("child", pipe[c]) = 0 /\ CountOf("child", st.buffer[c]) \in Nat
      BY <3>1, <3>2, CountType DEF Clean
    <3>. QED BY <3>1, <3>3
  <2>. QED BY <2>2, <2>4
<1>. QED BY <1>1, StrongInvariance, PTL

==============================================================================
