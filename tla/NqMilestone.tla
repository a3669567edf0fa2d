---------------------------- MODULE NqMilestone ----------------------------
(***************************************************************************)
(* scripts/check_milestone.sh and the attestation of its candidate         *)
(* (scripts/milestone_attestation.sh): the gate records the state of the   *)
(* work tree, runs every phase under its budget, records the state again,  *)
(* publishes an attestation when nothing has changed, and verifies it.     *)
(* Nothing keeps somebody from editing and staging files meanwhile, and    *)
(* the gate may be killed and started again.                               *)
(*                                                                         *)
(* The content of a file is the number of its version, 0 when there is     *)
(* none.  An edit makes a version that never was before: states are        *)
(* compared by content, so a change that is taken back is not seen.        *)
(***************************************************************************)
EXTENDS NqBudget

CONSTANTS
  Files,      \* files of the work tree that git does not ignore
  MaxEdits,   \* bound: edits
  MaxRuns     \* bound: starts of the gate

ASSUME MilestoneBounds == MaxEdits \in Nat /\ MaxRuns \in Nat

VARIABLES
  work,         \* version of each file in the work tree
  index,        \* version of each file in the index, 0 when untracked
  edits,        \* edits so far
  gate,         \* "idle", or what the gate does: "begin", "phases", "finish", "verify"
  step,         \* step of attest_candidate_state: "list" ... "done"
  todo,         \* files the step has left
  scan,         \* candidate_state: index listed, untracked files, tree, candidate
  start,        \* milestone-start-v1.json
  attestation,  \* milestone-attestation-v1.json
  gateRun,      \* number of the current start of the gate
  seen          \* file versions the phases of this start have read

gateVars == <<gate, step, todo, scan, start, attestation, gateRun, seen>>
treeVars == <<work, index, edits>>
vars == <<gateVars, treeVars, budgetVars, streamVars>>

Absent == [f \in Files |-> 0]
NoScan == [listed |-> Absent, others |-> {}, tree |-> Absent, candidate |-> Absent]
NoFile == [run |-> 0, tree |-> Absent, candidate |-> Absent]

Init ==
  /\ work \in [Files -> 0 .. 1] /\ index \in [Files -> 0 .. 1]
  /\ \A f \in Files : index[f] <= work[f]
  /\ edits = 0
  /\ gate = "idle" /\ step = "list" /\ todo = {} /\ scan = NoScan
  /\ start = NoFile /\ attestation = NoFile
  /\ gateRun = 0 /\ seen = {}
  /\ StreamsInit /\ BudgetInit

-----------------------------------------------------------------------------
(* The editor. *)

Edit(f) ==
  /\ edits < MaxEdits
  /\ edits' = edits + 1
  /\ work' = [work EXCEPT ![f] = edits + 2]
  /\ UNCHANGED <<index, gateVars, budgetVars, streamVars>>

Stage(f) ==
  /\ index[f] # work[f]
  /\ index' = [index EXCEPT ![f] = work[f]]
  /\ UNCHANGED <<work, edits, gateVars, budgetVars, streamVars>>

-----------------------------------------------------------------------------
(* attest_candidate_state *)

Scanning == gate \in {"begin", "finish", "verify"}

StartScan == step' = "list" /\ todo' = {} /\ scan' = NoScan

Tracked(files) == {f \in Files : files[f] # 0}

GateOnly == UNCHANGED <<gate, start, attestation, gateRun, seen, treeVars, budgetVars, streamVars>>

(* git ls-files --stage *)
ListIndex ==
  /\ Scanning /\ step = "list"
  /\ step' = "compare" /\ todo' = Tracked(index)
  /\ scan' = [scan EXCEPT !.listed = index]
  /\ GateOnly

(* git hash-object of each tracked file.  A file that differs ends the gate. *)
CompareFile(f) ==
  /\ Scanning /\ step = "compare" /\ f \in todo
  /\ work[f] = scan.listed[f]
  /\ todo' = todo \ {f}
  /\ UNCHANGED <<step, scan>>
  /\ GateOnly

(* git ls-files --others *)
ListOthers ==
  /\ Scanning /\ step = "compare" /\ todo = {}
  /\ step' = "tree"
  /\ scan' = [scan EXCEPT !.others = Tracked(work) \ Tracked(index)]
  /\ UNCHANGED todo
  /\ GateOnly

(* git write-tree *)
WriteTree ==
  /\ Scanning /\ step = "tree"
  /\ step' = "hash"
  /\ todo' = Tracked(scan.listed) \cup scan.others
  /\ scan' = [scan EXCEPT !.tree = index]
  /\ GateOnly

(* prov_files_digest *)
HashFile(f) ==
  /\ Scanning /\ step = "hash" /\ f \in todo
  /\ todo' = todo \ {f}
  /\ scan' = [scan EXCEPT !.candidate[f] = work[f]]
  /\ UNCHANGED step
  /\ GateOnly

Scanned == Scanning /\ step = "hash" /\ todo = {}

State == [run |-> gateRun, tree |-> scan.tree, candidate |-> scan.candidate]

-----------------------------------------------------------------------------
(* check_milestone.sh *)

(* attest_begin removes what an earlier start has published. *)
StartGate ==
  /\ gate = "idle" /\ gateRun < MaxRuns
  /\ gate' = "begin" /\ StartScan
  /\ attestation' = NoFile
  /\ gateRun' = gateRun + 1 /\ seen' = {}
  /\ UNCHANGED <<start, treeVars, budgetVars, streamVars>>

BeginDone ==
  /\ gate = "begin" /\ Scanned
  /\ start' = State
  /\ gate' = "phases" /\ StartScan
  /\ UNCHANGED <<attestation, gateRun, seen, treeVars, budgetVars, streamVars>>

(* run_phase *)
StartPhase ==
  /\ gate = "phases" /\ verdict = "none"
  /\ StartBudget
  /\ UNCHANGED <<gateVars, treeVars>>

(* Steps of the phase under its budget. *)
PhaseStep ==
  /\ gate = "phases"
  /\ \/ RunCommand \/ Collect \/ WriteReceipt \/ MoveReceipt \/ LeaveShell
     \/ TimerFires \/ KillAfter \/ TimeoutExits \/ Classify
     \/ (ProgramStep \/ \E c \in Codes : Exit(c)) /\ UNCHANGED budgetVars
  /\ UNCHANGED <<gateVars, treeVars>>

(* The command of a phase reads a file of the work tree. *)
PhaseReads(f) ==
  /\ gate = "phases" /\ program = "running"
  /\ work[f] # 0
  /\ seen' = seen \cup {<<f, work[f]>>}
  /\ UNCHANGED <<gate, step, todo, scan, start, attestation, gateRun>>
  /\ UNCHANGED <<treeVars, budgetVars, streamVars>>

(* The next phase, or the attestation after the last one: the seven phases *)
(* of the script stand for any number of them.                             *)
PhasePasses ==
  /\ gate = "phases" /\ verdict = "ok"
  /\ verdict' = "none"
  /\ \/ UNCHANGED <<gate, step, todo, scan>>
     \/ gate' = "finish" /\ StartScan
  /\ UNCHANGED <<start, attestation, gateRun, seen, treeVars>>
  /\ UNCHANGED <<shell, own, receipt, fired, status, streamVars>>

(* Mutant: only the tree of the index is compared. *)
UnchangedTree(s) == s.tree = start.tree

Unchanged(s) == s.tree = start.tree /\ s.candidate = start.candidate

(* attest_finish *)
FinishDone ==
  /\ gate = "finish" /\ Scanned
  /\ Unchanged(State)
  /\ attestation' = State
  /\ gate' = "verify" /\ StartScan
  /\ UNCHANGED <<start, gateRun, seen, treeVars, budgetVars, streamVars>>

(* attest_verify compares the attestation with a state it reads afresh. *)
VerifyDone ==
  /\ gate = "verify" /\ Scanned
  /\ State.tree = attestation.tree /\ State.candidate = attestation.candidate
  /\ gate' = "idle" /\ StartScan
  /\ UNCHANGED <<start, attestation, gateRun, seen, treeVars, budgetVars, streamVars>>

(* set -e, or a signal: the session ends, and all it has started with it. *)
GateEnds ==
  /\ gate # "idle"
  /\ gate' = "idle" /\ StartScan
  /\ shell' = "none" /\ own' = Unpublished /\ receipt' = Unpublished
  /\ fired' = "no" /\ status' = 0 /\ verdict' = "none"
  /\ program' = "none" /\ code' = 0 /\ Gone
  /\ UNCHANGED <<start, attestation, gateRun, seen, treeVars>>

Next ==
  \/ \E f \in Files : \/ Edit(f) \/ Stage(f) \/ CompareFile(f) \/ HashFile(f) \/ PhaseReads(f)
  \/ ListIndex \/ ListOthers \/ WriteTree
  \/ StartGate \/ BeginDone \/ StartPhase \/ PhaseStep \/ PhasePasses
  \/ FinishDone \/ VerifyDone \/ GateEnds

Spec == Init /\ [][Next]_vars

-----------------------------------------------------------------------------
(***************************************************************************)
(* What is attested is what was tested: an attestation is the work of the  *)
(* latest start of the gate, every file version that a phase of that start *)
(* has read, at any time, is the version in it, and every tracked file is  *)
(* attested as it is in the attested tree -- though states are read file   *)
(* by file, twice, while files are edited, created and staged, and a start *)
(* may be killed anywhere.                                                 *)
(***************************************************************************)
AttestedWasTested ==
  attestation # NoFile =>
    /\ attestation.run = gateRun
    /\ \A read \in seen : attestation.candidate[read[1]] = read[2]
    /\ \A f \in Tracked(attestation.tree) : attestation.candidate[f] = attestation.tree[f]

=============================================================================
