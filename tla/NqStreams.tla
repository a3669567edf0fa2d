----------------------------- MODULE NqStreams -----------------------------
(***************************************************************************)
(* Standard output of a compiled program: the checked calls stdout_write   *)
(* and stdout_flush, the legacy print_line, and the end of the program,    *)
(* over a stdio buffer and a pipe whose reader may go away.  stderr is     *)
(* written by the same functions.                                          *)
(*                                                                         *)
(* stdio belongs to the C library: a failing drain sets the error flag of  *)
(* the stream, and keeps or discards what was in the buffer.               *)
(***************************************************************************)
EXTENDS Naturals

CONSTANTS
  Capacity,   \* bytes the stdio buffer holds
  Codes       \* exit codes of a program

ASSUME StreamBounds == Capacity \in Nat \ {0} /\ Codes \subseteq 0 .. 255

VARIABLES
  program,    \* "none", "running", "ended"
  code,       \* exit status of the program as its parent sees it
  call,       \* "none", or the checked call in progress: "write", "flush"
  stdout,     \* the stream: bytes buffered, whether bytes were discarded
  sigpipe,    \* disposition of SIGPIPE: "default" or "ignored"
  inherited,  \* the disposition the program was started with
  reader,     \* whether the pipe still has a reader
  evidence    \* what the results of the calls say: "sound" when all were Ok,
              \* "flushed" when the last was a flush too, "broken" otherwise

streamVars == <<program, code, call, stdout, sigpipe, inherited, reader, evidence>>

Fresh == [buffered |-> 0, lost |-> FALSE]

StreamsInit ==
  /\ program = "none" /\ code = 0 /\ call = "none"
  /\ stdout = Fresh /\ evidence = "sound"
  /\ inherited = "default" /\ sigpipe = "default" /\ reader = TRUE

-----------------------------------------------------------------------------
(* write(2) of the buffer: all of it is delivered, or the call fails. *)
Drained(s) == IF s.buffered = 0 \/ reader THEN {[s EXCEPT !.buffered = 0]} ELSE {}

(* Without a reader it fails with EPIPE; any device may fail otherwise. *)
Failed(s) ==
  IF s.buffered = 0 THEN {}
  ELSE {s, [s EXCEPT !.buffered = 0, !.lost = TRUE]}

(* SIGPIPE ends the program in a write(2) without a reader. *)
Fatal(s) == s.buffered > 0 /\ ~reader /\ sigpipe = "default"

(* A program starts with the disposition of its parent. *)
Starts ==
  /\ program' = "running" /\ call' = "none"
  /\ inherited' \in {"default", "ignored"} /\ sigpipe' = inherited'
  /\ UNCHANGED <<code, stdout, reader, evidence>>

(* Stream and disposition end with the program. *)
Gone ==
  /\ call' = "none" /\ stdout' = Fresh /\ evidence' = "sound"
  /\ inherited' = "default" /\ sigpipe' = "default" /\ reader' = TRUE

EndsWith(c) == program' = "ended" /\ code' = c /\ Gone

Killed(signal) == EndsWith(128 + signal)

SIGPIPE == 13

-----------------------------------------------------------------------------
(* A checked call ignores SIGPIPE first. *)
Begin(op) ==
  /\ program = "running" /\ call = "none"
  /\ call' = op
  /\ sigpipe' = "ignored"
  /\ UNCHANGED <<program, code, stdout, inherited, reader, evidence>>

Evidence(ok, flush) ==
  IF ~ok \/ evidence = "broken" THEN "broken" ELSE IF flush THEN "flushed" ELSE "sound"

(* Mutant: the error path of nq_write_stream returns at once. *)
ReturnKeeps(ok, flush) ==
  /\ call' = "none"
  /\ sigpipe' = IF ok THEN inherited ELSE sigpipe
  /\ evidence' = Evidence(ok, flush)
  /\ UNCHANGED <<program, code, inherited, reader>>

(* It restores the disposition on both of its ways out. *)
Return(ok, flush) ==
  /\ call' = "none"
  /\ sigpipe' = inherited
  /\ evidence' = Evidence(ok, flush)
  /\ UNCHANGED <<program, code, inherited, reader>>

(* fwrite drains a full buffer before it takes more.  ferror also fails a  *)
(* call for what failed before it, when the evidence is broken already.    *)
Write ==
  /\ call = "write"
  /\ \/ \E room \in IF stdout.buffered < Capacity THEN {stdout} ELSE Drained(stdout) :
          /\ stdout' = [room EXCEPT !.buffered = @ + 1]
          /\ Return(TRUE, FALSE)
     \/ /\ stdout.buffered = Capacity
        /\ stdout' \in Failed(stdout)
        /\ Return(FALSE, FALSE)

(* Mutant: the result of fflush is not looked at. *)
FlushIgnores ==
  /\ call = "flush"
  /\ stdout' \in Drained(stdout) \cup Failed(stdout)
  /\ Return(TRUE, TRUE)

(* fflush of an empty buffer succeeds, whatever failed before. *)
Flush ==
  /\ call = "flush"
  /\ \/ stdout' \in Drained(stdout) /\ Return(TRUE, TRUE)
     \/ stdout' \in Failed(stdout) /\ Return(FALSE, TRUE)

(* print_line writes and flushes under the program's own disposition, and  *)
(* drops both results; a full buffer takes no more of the line.            *)
PrintLine ==
  /\ program = "running" /\ call = "none"
  /\ LET full == [stdout EXCEPT !.buffered = IF @ < Capacity THEN @ + 1 ELSE @] IN
       \/ Fatal(full) /\ Killed(SIGPIPE)
       \/ /\ ~Fatal(full)
          /\ stdout' \in Drained(full) \cup Failed(full)
          /\ evidence' = "broken"
          /\ UNCHANGED <<program, code, call, sigpipe, inherited, reader>>

(* exit(3) drains the stream, and drops the result: the code is the same. *)
Exit(c) ==
  /\ program = "running" /\ call = "none"
  /\ \/ Fatal(stdout) /\ Killed(SIGPIPE)
     \/ ~Fatal(stdout) /\ EndsWith(c)

ReaderCloses ==
  /\ program = "running" /\ reader
  /\ reader' = FALSE
  /\ UNCHANGED <<program, code, call, stdout, sigpipe, inherited, evidence>>

ProgramStep ==
  \/ \E op \in {"write", "flush"} : Begin(op)
  \/ Write \/ Flush \/ PrintLine \/ ReaderCloses

-----------------------------------------------------------------------------
(***************************************************************************)
(* A program that looks at both results has evidence of delivery: when     *)
(* every checked call succeeded and the last one was a flush, nothing is   *)
(* left in the buffer and nothing was discarded.  A print_line, which may  *)
(* fail, discard the buffer and say nothing, takes the evidence away.      *)
(***************************************************************************)
DeliveryEvidence ==
  evidence = "flushed" => stdout.buffered = 0 /\ ~stdout.lost

(***************************************************************************)
(* Checked calls restore the disposition of SIGPIPE on every path, so that *)
(* the program's own writes behave as before them; and no checked call     *)
(* runs under a disposition that lets SIGPIPE end the program.             *)
(***************************************************************************)
DispositionKept ==
  program = "running" => IF call = "none" THEN sigpipe = inherited ELSE sigpipe = "ignored"

=============================================================================
