------------------------------ MODULE NqBudget ------------------------------
(***************************************************************************)
(* scripts/run_budgeted.sh: one command under GNU timeout.  A shell runs   *)
(* the command, stores its exit code in a receipt, and exits with the same *)
(* code; the script reads the status of timeout and the receipt, and says  *)
(* whether the command or the budget failed.                               *)
(*                                                                         *)
(* timeout is external: when the time is up it sends TERM to the group of  *)
(* the shell and exits with 124, whatever the shell exits with; five       *)
(* seconds later it sends KILL to the group it is itself a member of.      *)
(***************************************************************************)
EXTENDS NqStreams

VARIABLES
  shell,      \* step of the shell that runs the command
  own,        \* the shell's variable code: exit code of the command
  receipt,    \* exit code in the published receipt, or Unpublished
  fired,      \* what timeout has sent: "no", "term", "kill"
  status,     \* exit code of timeout
  verdict     \* what the script reports

budgetVars == <<shell, own, receipt, fired, status, verdict>>

Unpublished == 256     \* not an exit code

SIGKILL == 9
SIGTERM == 15

BudgetInit ==
  /\ shell = "none" /\ own = Unpublished
  /\ receipt = Unpublished /\ fired = "no"
  /\ status = 0
  /\ verdict = "none"

ShellLives == shell \in {"starting", "waiting", "recording", "moving", "leaving"}

-----------------------------------------------------------------------------
(* A new receipt is empty.  The shell checks how to run the command. *)
StartBudget ==
  /\ shell = "none"
  /\ shell' = "starting" /\ own' = Unpublished
  /\ receipt' = Unpublished /\ fired' = "no"
  /\ status' = 0 /\ verdict' = "pending"
  /\ UNCHANGED streamVars

(* trap : TERM.  The trap is reset in the command. *)
RunCommand ==
  /\ shell = "starting"
  /\ shell' = "waiting"
  /\ Starts
  /\ UNCHANGED <<own, receipt, fired, status, verdict>>

Collect ==
  /\ shell = "waiting" /\ program = "ended"
  /\ shell' = "recording" /\ own' = code
  /\ program' = "none" /\ code' = 0
  /\ UNCHANGED <<call, stdout, sigpipe, inherited, reader, evidence, receipt, fired, status, verdict>>

(* The receipt is written next to its place; the write may fail. *)
WriteReceipt ==
  /\ shell = "recording"
  /\ shell' \in {"moving", "leaving"}
  /\ UNCHANGED <<own, receipt, fired, status, verdict, streamVars>>

(* mv is a process of the group: it fails, or TERM ends it. *)
MoveReceipt ==
  /\ shell = "moving"
  /\ receipt' \in {own, Unpublished}
  /\ shell' = "leaving"
  /\ UNCHANGED <<own, fired, status, verdict, streamVars>>

LeaveShell ==
  /\ shell = "leaving"
  /\ shell' = "ended"
  /\ UNCHANGED <<own, receipt, fired, status, verdict, streamVars>>

-----------------------------------------------------------------------------
(* Before the trap TERM ends the shell; after it, only the command and mv. *)
TimerFires ==
  /\ ShellLives \/ shell = "ended"
  /\ fired = "no"
  /\ fired' = "term"
  /\ \/ shell = "starting" /\ shell' = "ended" /\ UNCHANGED streamVars
     \/ shell # "starting" /\ UNCHANGED <<shell, streamVars>>
     \/ program = "running" /\ Killed(SIGTERM) /\ UNCHANGED shell
  /\ UNCHANGED <<own, receipt, status, verdict>>

KillAfter ==
  /\ ShellLives /\ fired = "term"
  /\ fired' = "kill"
  /\ shell' = "reaped" /\ status' = 128 + SIGKILL
  /\ program' = "none" /\ code' = 0 /\ Gone
  /\ UNCHANGED <<own, receipt, verdict>>

TimeoutExits ==
  /\ shell = "ended"
  /\ shell' = "reaped"
  /\ status' = IF fired # "no" THEN 124 ELSE own
  /\ UNCHANGED <<own, receipt, fired, verdict, streamVars>>

-----------------------------------------------------------------------------
(* timeout_fired=true *)
TimeoutFired == status = 124 /\ receipt # Unpublished /\ receipt # 124

(* Mutant: the receipt is not looked at. *)
ClassifyByStatus ==
  /\ shell = "reaped"
  /\ shell' = "none"
  /\ verdict' \in {"infrastructure",
                   IF status = 124 THEN "wall_time" ELSE IF status # 0 THEN "command" ELSE "ok"}
                  \cup (IF status = 0 THEN {"peak_rss"} ELSE {})
  /\ UNCHANGED <<own, receipt, fired, status, streamVars>>

(* The peak of memory is over its limit, or not; the metrics may be bad. *)
Classify ==
  /\ shell = "reaped"
  /\ shell' = "none"
  /\ verdict' \in IF status = 0 /\ receipt = Unpublished THEN {"infrastructure"}
                  ELSE {"infrastructure",
                        IF TimeoutFired THEN "wall_time" ELSE IF status # 0 THEN "command" ELSE "ok"}
                       \cup (IF status = 0 THEN {"peak_rss"} ELSE {})
  /\ UNCHANGED <<own, receipt, fired, status, streamVars>>

-----------------------------------------------------------------------------
(***************************************************************************)
(* The verdict is about the right actor, however the end of the command,   *)
(* its receipt and the two signals of timeout interleave: a phase is ok    *)
(* only when its command ended with 0 before the time was up, and the      *)
(* budget is blamed only when the timer fired; a command that exits with   *)
(* 124 by itself is a failing command.                                     *)
(***************************************************************************)
VerdictGenuine ==
  /\ verdict \in {"ok", "peak_rss"} => own = 0 /\ fired = "no"
  /\ verdict = "wall_time" => fired # "no" /\ own # 124
  /\ verdict = "command" => own # 0 \/ fired # "no"

=============================================================================
