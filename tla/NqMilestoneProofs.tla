------------------------- MODULE NqMilestoneProofs -------------------------
(***************************************************************************)
(* Proofs about the gate, for any files, edits and starts, any buffer and  *)
(* any exit codes.  Streams, budget and gate have an invariant each; that  *)
(* of the gate says that versions only grow, so that what was read         *)
(* between two equal readings is equal to both.                            *)
(***************************************************************************)
EXTENDS NqMilestone, TLAPS

-----------------------------------------------------------------------------
(* Streams. *)

StreamInv ==
  /\ stdout \in [buffered : Nat, lost : BOOLEAN]
  /\ evidence # "broken" => ~stdout.lost
  /\ program # "running" => call = "none"
  /\ DeliveryEvidence
  /\ DispositionKept

(* Steps of the gate that leave the program alone. *)
LEMMA ProgramIdle ==
  ASSUME Next
  PROVE  \/ UNCHANGED streamVars
         \/ ProgramStep \/ \E c \in Codes : Exit(c)
         \/ Starts
         \/ program = "ended" /\ program' = "none" /\ UNCHANGED <<call, stdout, sigpipe, inherited, reader, evidence>>
         \/ program' # "running" /\ Gone
<1>1. CASE \E f \in Files : Edit(f) \/ Stage(f) \/ CompareFile(f) \/ HashFile(f) \/ PhaseReads(f)
  BY <1>1 DEF Edit, Stage, CompareFile, HashFile, PhaseReads, GateOnly
<1>2. CASE ListIndex \/ ListOthers \/ WriteTree
  BY <1>2 DEF ListIndex, ListOthers, WriteTree, GateOnly
<1>3. CASE StartGate \/ BeginDone \/ StartPhase \/ PhasePasses \/ FinishDone \/ VerifyDone
  BY <1>3 DEF StartGate, BeginDone, StartPhase, StartBudget, PhasePasses, FinishDone, VerifyDone
<1>4. CASE GateEnds
  BY <1>4 DEF GateEnds
<1>5. CASE PhaseStep
  <2>1. CASE RunCommand \/ Collect \/ KillAfter
    BY <2>1 DEF RunCommand, Collect, KillAfter
  <2>2. CASE WriteReceipt \/ MoveReceipt \/ LeaveShell \/ TimeoutExits \/ Classify
    BY <2>2 DEF WriteReceipt, MoveReceipt, LeaveShell, TimeoutExits, Classify
  <2>3. CASE TimerFires
    BY <2>3 DEF TimerFires, Killed, EndsWith
  <2>4. CASE ProgramStep \/ \E c \in Codes : Exit(c)
    BY <2>4
  <2> QED
    BY <1>5, <2>1, <2>2, <2>3, <2>4 DEF PhaseStep
<1> QED
  BY <1>1, <1>2, <1>3, <1>4, <1>5 DEF Next

LEMMA StreamStart == Init => StreamInv
BY StreamBounds DEF Init, StreamsInit, StreamInv, Fresh, DeliveryEvidence, DispositionKept

(* A program that has gone leaves nothing to say. *)
LEMMA StreamGone ==
  ASSUME program' # "running", Gone
  PROVE  StreamInv'
BY DEF Gone, StreamInv, Fresh, DeliveryEvidence, DispositionKept

(* write(2) empties the buffer or fails, and then the stream is as before  *)
(* or has lost what it had.                                                *)
LEMMA StreamAfterWrite ==
  ASSUME NEW s \in [buffered : Nat, lost : BOOLEAN],
         NEW t
  PROVE  /\ t \in Drained(s) => /\ t \in [buffered : Nat, lost : BOOLEAN]
                               /\ t.buffered = 0 /\ t.lost = s.lost
         /\ t \in Failed(s) => t \in [buffered : Nat, lost : BOOLEAN]
<1>1. ASSUME t \in Drained(s)
      PROVE  /\ t \in [buffered : Nat, lost : BOOLEAN]
             /\ t.buffered = 0 /\ t.lost = s.lost
  <2>1. Drained(s) \subseteq {[s EXCEPT !.buffered = 0]}
    BY Zenon DEF Drained
  <2> QED
    BY <1>1, <2>1
<1>2. ASSUME t \in Failed(s)
      PROVE  t \in [buffered : Nat, lost : BOOLEAN]
  <2>1. Failed(s) \subseteq {s, [s EXCEPT !.buffered = 0, !.lost = TRUE]}
    BY Zenon DEF Failed
  <2>2. [s EXCEPT !.buffered = 0, !.lost = TRUE] \in [buffered : Nat, lost : BOOLEAN]
    OBVIOUS
  <2> QED
    BY <1>2, <2>1, <2>2
<1> QED
  BY <1>1, <1>2

LEMMA StreamKept == StreamInv /\ [Next]_vars => StreamInv'
<1> SUFFICES ASSUME StreamInv, [Next]_vars
             PROVE  StreamInv'
  OBVIOUS
<1>1. CASE UNCHANGED streamVars
  BY <1>1 DEF StreamInv, streamVars, DeliveryEvidence, DispositionKept
<1>2. CASE Starts
  BY <1>2 DEF StreamInv, Starts, DeliveryEvidence, DispositionKept
<1>3. CASE program = "ended" /\ program' = "none" /\ UNCHANGED <<call, stdout, sigpipe, inherited, reader, evidence>>
  BY <1>3 DEF StreamInv, DeliveryEvidence, DispositionKept
<1>4. CASE program' # "running" /\ Gone
  BY <1>4, StreamGone
<1>5. CASE \E op \in {"write", "flush"} : Begin(op)
  BY <1>5 DEF StreamInv, Begin, DeliveryEvidence, DispositionKept
<1>6. CASE Write
  <2>1. stdout' \in [buffered : Nat, lost : BOOLEAN] /\ (evidence' # "broken" => stdout'.lost = stdout.lost)
    <3>1. CASE stdout' \in Failed(stdout) /\ Return(FALSE, FALSE)
      BY <3>1, StreamAfterWrite DEF StreamInv, Return, Evidence
    <3>2. ASSUME NEW room \in IF stdout.buffered < Capacity THEN {stdout} ELSE Drained(stdout),
                 stdout' = [room EXCEPT !.buffered = @ + 1]
          PROVE  stdout' \in [buffered : Nat, lost : BOOLEAN] /\ stdout'.lost = stdout.lost
      <4>1. room \in [buffered : Nat, lost : BOOLEAN] /\ room.lost = stdout.lost
        BY StreamAfterWrite DEF StreamInv
      <4> QED
        BY <3>2, <4>1
    <3> QED
      BY <1>6, <3>1, <3>2 DEF Write
  <2>2. program' = program /\ call' = "none" /\ sigpipe' = inherited /\ inherited' = inherited
    BY <1>6 DEF Write, Return
  <2>3. evidence' # "flushed" /\ (evidence' # "broken" => evidence # "broken")
    BY <1>6 DEF Write, Return, Evidence
  <2> QED
    BY <2>1, <2>2, <2>3 DEF StreamInv, DeliveryEvidence, DispositionKept
<1>7. CASE Flush
  <2>1. program' = program /\ call' = "none" /\ sigpipe' = inherited /\ inherited' = inherited
    BY <1>7 DEF Flush, Return
  <2>2. CASE stdout' \in Drained(stdout) /\ Return(TRUE, TRUE)
    BY <2>1, <2>2, StreamAfterWrite DEF StreamInv, Return, Evidence, DeliveryEvidence, DispositionKept
  <2>3. CASE stdout' \in Failed(stdout) /\ Return(FALSE, TRUE)
    BY <2>1, <2>3, StreamAfterWrite DEF StreamInv, Return, Evidence, DeliveryEvidence, DispositionKept
  <2> QED
    BY <1>7, <2>2, <2>3 DEF Flush
<1>8. CASE PrintLine
  <2>1. CASE Killed(SIGPIPE)
    BY <2>1, StreamGone DEF Killed, EndsWith
  <2>2. CASE ~Killed(SIGPIPE)
    <3> DEFINE full == [stdout EXCEPT !.buffered = IF @ < Capacity THEN @ + 1 ELSE @]
    <3>1. full \in [buffered : Nat, lost : BOOLEAN]
      BY DEF StreamInv
    <3> HIDE DEF full
    <3>2. stdout' \in Drained(full) \cup Failed(full) /\ evidence' = "broken"
      BY <1>8, <2>2 DEF PrintLine, full
    <3>3. program' = program /\ UNCHANGED <<call, sigpipe, inherited>>
      BY <1>8, <2>2 DEF PrintLine
    <3> QED
      BY <3>1, <3>2, <3>3, StreamAfterWrite DEF StreamInv, DeliveryEvidence, DispositionKept
  <2> QED
    BY <2>1, <2>2
<1>9. CASE \E c \in Codes : Exit(c)
  BY <1>9, StreamGone DEF Exit, Killed, EndsWith
<1>10. CASE ReaderCloses
  BY <1>10 DEF StreamInv, ReaderCloses, DeliveryEvidence, DispositionKept
<1> QED
  BY ProgramIdle, <1>1, <1>2, <1>3, <1>4, <1>5, <1>6, <1>7, <1>8, <1>9, <1>10 DEF ProgramStep, vars

(***************************************************************************)
(* Checked calls that all succeeded and end with a flush have delivered    *)
(* every byte, for every size of the buffer.                               *)
(***************************************************************************)
THEOREM EvidenceHolds == Spec => []DeliveryEvidence
<1>1. StreamInv => DeliveryEvidence
  BY DEF StreamInv
<1> QED
  BY <1>1, StreamStart, StreamKept, PTL DEF Spec

(***************************************************************************)
(* Every checked call puts the program's disposition of SIGPIPE back.      *)
(***************************************************************************)
THEOREM DispositionHolds == Spec => []DispositionKept
<1>1. StreamInv => DispositionKept
  BY DEF StreamInv
<1> QED
  BY <1>1, StreamStart, StreamKept, PTL DEF Spec

-----------------------------------------------------------------------------
(* Budgets. *)

(* timeout tells its own end from that of the shell by its status alone,   *)
(* which may be the same.                                                  *)
BudgetInv ==
  /\ receipt \in {own, Unpublished}
  /\ shell = "starting" => own = Unpublished
  /\ shell = "waiting" => receipt = Unpublished
  /\ ShellLives \/ shell = "ended" => fired \in {"no", "term"}
  /\ shell = "reaped" =>
       \/ fired = "no" /\ status = own
       \/ fired = "term" /\ status = 124
       \/ fired = "kill" /\ status = 128 + SIGKILL
  /\ shell \notin {"none"} => verdict = "pending"
  /\ VerdictGenuine

LEMMA BudgetStart == Init => BudgetInv
BY DEF Init, BudgetInit, BudgetInv, ShellLives, VerdictGenuine

LEMMA BudgetKept == BudgetInv /\ [Next]_vars => BudgetInv'
<1> SUFFICES ASSUME BudgetInv, [Next]_vars
             PROVE  BudgetInv'
  OBVIOUS
<1> USE DEF BudgetInv, ShellLives, VerdictGenuine
<1>1. CASE UNCHANGED budgetVars
  BY <1>1 DEF budgetVars
<1>2. CASE StartPhase
  BY <1>2 DEF StartPhase, StartBudget, Unpublished
<1>3. CASE RunCommand
  BY <1>3 DEF RunCommand
<1>4. CASE Collect
  BY <1>4 DEF Collect
<1>5. CASE WriteReceipt
  BY <1>5 DEF WriteReceipt
<1>6. CASE MoveReceipt
  BY <1>6 DEF MoveReceipt
<1>7. CASE LeaveShell
  BY <1>7 DEF LeaveShell
<1>8. CASE TimerFires
  BY <1>8 DEF TimerFires
<1>9. CASE KillAfter
  BY <1>9 DEF KillAfter
<1>10. CASE TimeoutExits
  BY <1>10 DEF TimeoutExits
<1>11. CASE Classify
  BY <1>11 DEF Classify, TimeoutFired, SIGKILL, Unpublished
<1>12. CASE PhasePasses
  BY <1>12 DEF PhasePasses
<1>13. CASE GateEnds
  BY <1>13 DEF GateEnds
<1>14. CASE \E f \in Files : Edit(f) \/ Stage(f) \/ CompareFile(f) \/ HashFile(f) \/ PhaseReads(f)
  BY <1>1, <1>14 DEF Edit, Stage, CompareFile, HashFile, PhaseReads, GateOnly
<1>15. CASE ListIndex \/ ListOthers \/ WriteTree \/ StartGate \/ BeginDone \/ FinishDone \/ VerifyDone
  BY <1>1, <1>15 DEF ListIndex, ListOthers, WriteTree, GateOnly, StartGate, BeginDone, FinishDone, VerifyDone
<1>16. CASE UNCHANGED vars
  BY <1>1, <1>16 DEF vars
<1> QED
  BY <1>1, <1>2, <1>3, <1>4, <1>5, <1>6, <1>7, <1>8, <1>9, <1>10, <1>11, <1>12, <1>13, <1>14, <1>15, <1>16
     DEF Next, PhaseStep

(***************************************************************************)
(* A phase is ok only when its command ended with 0 in time, and the       *)
(* budget is blamed only when the timer fired, for every exit code.        *)
(***************************************************************************)
THEOREM VerdictsGenuine == Spec => []VerdictGenuine
<1>1. BudgetInv => VerdictGenuine
  BY DEF BudgetInv
<1> QED
  BY <1>1, BudgetStart, BudgetKept, PTL DEF Spec

-----------------------------------------------------------------------------
(* The gate. *)

Versions == [Files -> Nat]
Scans == [listed : Versions, others : SUBSET Files, tree : Versions, candidate : Versions]
Attestations == [run : Nat, tree : Versions, candidate : Versions]

TreeType ==
  /\ work \in Versions /\ index \in Versions /\ edits \in Nat
  /\ \A f \in Files : index[f] <= work[f] /\ work[f] <= edits + 1

GateType ==
  /\ gate \in {"idle", "begin", "phases", "finish", "verify"}
  /\ step \in {"list", "compare", "tree", "hash"}
  /\ todo \in SUBSET Files
  /\ scan \in Scans
  /\ start \in Attestations /\ attestation \in Attestations
  /\ gateRun \in Nat
  /\ seen \in SUBSET (Files \X (Nat \ {0}))

(* What has been read is not newer than what there is. *)
Older ==
  /\ \A f \in Files :
       scan.listed[f] <= index[f] /\ scan.tree[f] <= index[f] /\ scan.candidate[f] <= work[f]
  /\ \A read \in seen : read[2] <= work[read[1]]

(* The phases read what is there when the first state is recorded, or later. *)
Started ==
  gate \in {"phases", "finish"} =>
    /\ \A f \in Files : start.tree[f] <= index[f] /\ start.candidate[f] <= work[f]
    /\ \A read \in seen : start.candidate[read[1]] <= read[2]

(* The versions of file f that phases have read. *)
Reads(f) == {n \in Nat : <<f, n>> \in seen}

Hashed(f) == scan.listed[f] # 0 \/ f \in scan.others

Compared(f) == step \in {"tree", "hash"} \/ (step = "compare" /\ f \notin todo)

(* The second state is not older than the first one and than any reading   *)
(* of a phase.                                                             *)
Later(f) ==
  /\ start.tree[f] <= scan.listed[f]
  /\ Compared(f) /\ scan.listed[f] # 0 => start.candidate[f] <= scan.listed[f]
  /\ step \in {"tree", "hash"} /\ ~Hashed(f) /\ Reads(f) # {} => index[f] # 0
  /\ step = "hash" =>
       /\ scan.listed[f] <= scan.tree[f]
       /\ ~Hashed(f) /\ Reads(f) # {} => scan.tree[f] # 0
       /\ Hashed(f) /\ f \notin todo =>
            /\ scan.listed[f] <= scan.candidate[f]
            /\ \A n \in Reads(f) : n <= scan.candidate[f]

Finishing == gate = "finish" /\ step # "list" => \A f \in Files : Later(f)

Unattested ==
  /\ gate \in {"begin", "phases", "finish"} => attestation = NoFile
  /\ gate = "begin" => seen = {}

GateInv ==
  /\ TreeType /\ GateType
  /\ Older /\ Started /\ Finishing /\ Unattested
  /\ AttestedWasTested

LEMMA GateStart == Init => GateInv
BY DEF Init, GateInv, TreeType, GateType, Older, Started, Finishing, Unattested, AttestedWasTested,
       Versions, Scans, Attestations, NoScan, NoFile, Absent

LEMMA KeptByEdit ==
  ASSUME GateInv, NEW f \in Files, Edit(f)
  PROVE  GateInv'
<1> USE DEF GateInv
<1>1. TreeType'
  BY DEF Edit, TreeType, Versions
<1>2. GateType'
  BY DEF Edit, gateVars, GateType
<1>3. Older'
  BY DEF Edit, gateVars, Older, GateType, TreeType, Versions, Scans
<1>4. Started'
  BY DEF Edit, gateVars, Started, Older, GateType, TreeType, Versions, Scans, Attestations
<1>5. Finishing'
  <2> SUFFICES ASSUME gate = "finish", step' # "list", NEW g \in Files
               PROVE  Later(g)'
    BY DEF Finishing, Edit, gateVars
  <2>1. Later(g) /\ UNCHANGED <<index, step, todo, scan, start, seen>>
    BY DEF Edit, gateVars, Finishing
  <2> QED
    BY <2>1 DEF Later, Compared, Hashed, Reads
<1>6. Unattested'
  BY DEF Edit, gateVars, Unattested
<1>7. AttestedWasTested'
  BY DEF Edit, gateVars, AttestedWasTested
<1> QED
  BY <1>1, <1>2, <1>3, <1>4, <1>5, <1>6, <1>7

LEMMA KeptByStage ==
  ASSUME GateInv, NEW f \in Files, Stage(f)
  PROVE  GateInv'
<1> USE DEF GateInv
<1>1. TreeType'
  BY DEF Stage, TreeType, Versions
<1>2. GateType'
  BY DEF Stage, gateVars, GateType
<1>3. Older'
  BY DEF Stage, gateVars, Older, GateType, TreeType, Versions, Scans
<1>4. Started'
  BY DEF Stage, gateVars, Started, Older, GateType, TreeType, Versions, Scans, Attestations
<1>5. Finishing'
  <2> SUFFICES ASSUME gate = "finish", step' # "list", NEW g \in Files
               PROVE  Later(g)'
    BY DEF Finishing, Stage, gateVars
  <2>1. Later(g) /\ UNCHANGED <<step, todo, scan, start, seen>>
    BY DEF Stage, gateVars, Finishing
  <2>2. index[g] # 0 => index'[g] # 0
    BY DEF Stage, TreeType, Versions
  <2> QED
    BY <2>1, <2>2 DEF Later, Compared, Hashed, Reads
<1>6. Unattested'
  BY DEF Stage, gateVars, Unattested
<1>7. AttestedWasTested'
  BY DEF Stage, gateVars, AttestedWasTested
<1> QED
  BY <1>1, <1>2, <1>3, <1>4, <1>5, <1>6, <1>7

LEMMA KeptByListIndex ==
  ASSUME GateInv, ListIndex
  PROVE  GateInv'
<1> USE DEF GateInv
<1>1. TreeType'
  BY DEF ListIndex, GateOnly, treeVars, TreeType
<1>2. GateType'
  BY DEF ListIndex, GateOnly, Tracked, GateType, TreeType, Versions, Scans, Attestations
<1>3. Older'
  BY DEF ListIndex, GateOnly, treeVars, Tracked, Older, GateType, TreeType, Versions, Scans
<1>4. Started'
  BY DEF ListIndex, GateOnly, treeVars, Started
<1>5. Finishing'
  BY DEF ListIndex, GateOnly, treeVars, Tracked, Finishing, Later, Older, Started, GateType, TreeType, Versions, Scans, Attestations, Reads, Hashed, Compared
<1>6. Unattested'
  BY DEF ListIndex, GateOnly, Unattested
<1>7. AttestedWasTested'
  BY DEF ListIndex, GateOnly, AttestedWasTested
<1> QED
  BY <1>1, <1>2, <1>3, <1>4, <1>5, <1>6, <1>7

LEMMA KeptByCompareFile ==
  ASSUME GateInv, NEW f \in Files, CompareFile(f)
  PROVE  GateInv'
<1> USE DEF GateInv
<1>1. TreeType'
  BY DEF CompareFile, GateOnly, treeVars, TreeType
<1>2. GateType'
  BY DEF CompareFile, GateOnly, GateType, TreeType, Versions, Scans, Attestations
<1>3. Older'
  BY DEF CompareFile, GateOnly, treeVars, Older, GateType, TreeType, Versions, Scans
<1>4. Started'
  BY DEF CompareFile, GateOnly, treeVars, Started
<1>5. Finishing'
  BY DEF CompareFile, GateOnly, treeVars, Finishing, Later, Older, Started, GateType, TreeType, Versions, Scans, Attestations, Reads, Hashed, Compared
<1>6. Unattested'
  BY DEF CompareFile, GateOnly, Unattested
<1>7. AttestedWasTested'
  BY DEF CompareFile, GateOnly, AttestedWasTested
<1> QED
  BY <1>1, <1>2, <1>3, <1>4, <1>5, <1>6, <1>7

LEMMA KeptByListOthers ==
  ASSUME GateInv, ListOthers
  PROVE  GateInv'
<1> USE DEF GateInv
<1>1. TreeType'
  BY DEF ListOthers, GateOnly, treeVars, TreeType
<1>2. GateType'
  BY DEF ListOthers, GateOnly, Tracked, GateType, TreeType, Versions, Scans, Attestations
<1>3. Older'
  BY DEF ListOthers, GateOnly, treeVars, Tracked, Older, GateType, TreeType, Versions, Scans
<1>4. Started'
  BY DEF ListOthers, GateOnly, treeVars, Started
<1>5. Finishing'
  <2> SUFFICES ASSUME gate = "finish", step' # "list", NEW g \in Files
               PROVE  Later(g)'
    BY DEF Finishing, ListOthers, GateOnly
  <2>1. Later(g) /\ step = "compare" /\ todo = {} /\ step' = "tree" /\ UNCHANGED <<start, seen, index>>
    BY DEF ListOthers, GateOnly, treeVars, Finishing
  <2>2. scan'.listed = scan.listed /\ scan'.others = Tracked(work) \ Tracked(index)
    BY DEF ListOthers, GateType, Scans
  <2>3. Reads(g) # {} => work[g] # 0
    <3> SUFFICES ASSUME NEW n \in Reads(g)
                 PROVE  work[g] # 0
      OBVIOUS
    <3>1. <<g, n>> \in seen /\ n \in Nat \ {0}
      BY DEF Reads, GateType
    <3>2. n <= work[g]
      BY <3>1 DEF Older
    <3> QED
      BY <3>1, <3>2 DEF TreeType, Versions
  <2>4. Reads(g)' = Reads(g)
    BY <2>1 DEF Reads
  <2> QED
    BY <2>1, <2>2, <2>3, <2>4 DEF Later, Compared, Hashed, Tracked
<1>6. Unattested'
  BY DEF ListOthers, GateOnly, Unattested
<1>7. AttestedWasTested'
  BY DEF ListOthers, GateOnly, AttestedWasTested
<1> QED
  BY <1>1, <1>2, <1>3, <1>4, <1>5, <1>6, <1>7

LEMMA KeptByWriteTree ==
  ASSUME GateInv, WriteTree
  PROVE  GateInv'
<1> USE DEF GateInv
<1>1. TreeType'
  BY DEF WriteTree, GateOnly, treeVars, TreeType
<1>2. GateType'
  BY DEF WriteTree, GateOnly, Tracked, GateType, TreeType, Versions, Scans, Attestations
<1>3. Older'
  BY DEF WriteTree, GateOnly, treeVars, Tracked, Older, GateType, TreeType, Versions, Scans
<1>4. Started'
  BY DEF WriteTree, GateOnly, treeVars, Started
<1>5. Finishing'
  BY DEF WriteTree, GateOnly, treeVars, Tracked, Finishing, Later, Older, Started, GateType, TreeType, Versions, Scans, Attestations, Reads, Hashed, Compared
<1>6. Unattested'
  BY DEF WriteTree, GateOnly, Unattested
<1>7. AttestedWasTested'
  BY DEF WriteTree, GateOnly, AttestedWasTested
<1> QED
  BY <1>1, <1>2, <1>3, <1>4, <1>5, <1>6, <1>7

LEMMA KeptByHashFile ==
  ASSUME GateInv, NEW f \in Files, HashFile(f)
  PROVE  GateInv'
<1> USE DEF GateInv
<1>1. TreeType'
  BY DEF HashFile, GateOnly, treeVars, TreeType
<1>2. GateType'
  BY DEF HashFile, GateOnly, GateType, TreeType, Versions, Scans, Attestations
<1>3. Older'
  BY DEF HashFile, GateOnly, treeVars, Older, GateType, TreeType, Versions, Scans
<1>4. Started'
  BY DEF HashFile, GateOnly, treeVars, Started
<1>5. Finishing'
  <2> SUFFICES ASSUME gate = "finish", step' # "list", NEW g \in Files
               PROVE  Later(g)'
    BY DEF Finishing, HashFile, GateOnly
  <2>1. Later(g) /\ step = "hash" /\ UNCHANGED <<step, start, seen, index, work>>
    BY DEF HashFile, GateOnly, treeVars, Finishing
  <2>2. /\ UNCHANGED <<scan.listed, scan.others, scan.tree>>
        /\ scan'.candidate[g] = IF g = f THEN work[f] ELSE scan.candidate[g]
    BY DEF HashFile, GateType, Scans, Versions
  <2>3. Reads(g)' = Reads(g) /\ (Hashed(g)' <=> Hashed(g)) /\ (Compared(g)' <=> Compared(g))
    BY <2>1, <2>2 DEF Reads, Hashed, Compared
  <2>4. todo' = todo \ {f}
    BY DEF HashFile
  <2>5. scan.listed[g] <= work[g] /\ \A n \in Reads(g) : n <= work[g]
    BY DEF Older, Reads, TreeType, GateType, Versions, Scans
  <2> QED
    BY <2>1, <2>2, <2>3, <2>4, <2>5 DEF Later
<1>6. Unattested'
  BY DEF HashFile, GateOnly, Unattested
<1>7. AttestedWasTested'
  BY DEF HashFile, GateOnly, AttestedWasTested
<1> QED
  BY <1>1, <1>2, <1>3, <1>4, <1>5, <1>6, <1>7

LEMMA KeptByStartGate ==
  ASSUME GateInv, StartGate
  PROVE  GateInv'
<1> USE DEF GateInv
<1>1. TreeType'
  BY DEF StartGate, treeVars, TreeType
<1>2. GateType'
  BY DEF StartGate, StartScan, NoScan, NoFile, Absent, GateType, TreeType, Versions, Scans, Attestations
<1>3. Older'
  BY DEF StartGate, StartScan, NoScan, NoFile, Absent, treeVars, Older, GateType, TreeType, Versions, Scans
<1>4. Started'
  BY DEF StartGate, Started
<1>5. Finishing'
  BY DEF StartGate, Finishing
<1>6. Unattested'
  BY DEF StartGate, Unattested
<1>7. AttestedWasTested'
  BY DEF StartGate, AttestedWasTested
<1> QED
  BY <1>1, <1>2, <1>3, <1>4, <1>5, <1>6, <1>7

LEMMA KeptByBeginDone ==
  ASSUME GateInv, BeginDone
  PROVE  GateInv'
<1> USE DEF GateInv
<1>1. TreeType'
  BY DEF BeginDone, treeVars, TreeType
<1>2. GateType'
  BY DEF BeginDone, StartScan, Scanned, State, NoScan, Absent, GateType, TreeType, Versions, Scans, Attestations
<1>3. Older'
  BY DEF BeginDone, StartScan, Scanned, State, NoScan, Absent, treeVars, Older, GateType, TreeType, Versions, Scans
<1>4. Started'
  <2>1. start'.tree = scan.tree /\ start'.candidate = scan.candidate
    BY DEF BeginDone, State
  <2>2. UNCHANGED treeVars /\ seen' = {}
    BY DEF BeginDone, Unattested
  <2> QED
    BY <2>1, <2>2 DEF Started, Older, treeVars
<1>5. Finishing'
  BY DEF BeginDone, Finishing
<1>6. Unattested'
  BY DEF BeginDone, Unattested
<1>7. AttestedWasTested'
  BY DEF BeginDone, AttestedWasTested
<1> QED
  BY <1>1, <1>2, <1>3, <1>4, <1>5, <1>6, <1>7

LEMMA KeptByPhaseReads ==
  ASSUME GateInv, NEW f \in Files, PhaseReads(f)
  PROVE  GateInv'
<1> USE DEF GateInv
<1>1. TreeType'
  BY DEF PhaseReads, treeVars, TreeType
<1>2. GateType'
  BY DEF PhaseReads, GateType, TreeType, Versions, Scans, Attestations
<1>3. Older'
  BY DEF PhaseReads, treeVars, Older, GateType, TreeType, Versions, Scans
<1>4. Started'
  BY DEF PhaseReads, treeVars, Started, Older, GateType, TreeType, Versions, Scans, Attestations
<1>5. Finishing'
  BY DEF PhaseReads, Finishing
<1>6. Unattested'
  BY DEF PhaseReads, Unattested
<1>7. AttestedWasTested'
  BY DEF PhaseReads, Unattested, AttestedWasTested
<1> QED
  BY <1>1, <1>2, <1>3, <1>4, <1>5, <1>6, <1>7

LEMMA KeptByPhasePasses ==
  ASSUME GateInv, PhasePasses
  PROVE  GateInv'
<1> USE DEF GateInv
<1>1. TreeType'
  BY DEF PhasePasses, treeVars, TreeType
<1>2. GateType'
  BY DEF PhasePasses, StartScan, NoScan, Absent, GateType, TreeType, Versions, Scans, Attestations
<1>3. Older'
  BY DEF PhasePasses, StartScan, NoScan, Absent, treeVars, Older, GateType, TreeType, Versions, Scans
<1>4. Started'
  BY DEF PhasePasses, treeVars, Started
<1>5. Finishing'
  BY DEF PhasePasses, StartScan, Finishing
<1>6. Unattested'
  BY DEF PhasePasses, Unattested
<1>7. AttestedWasTested'
  BY DEF PhasePasses, AttestedWasTested
<1> QED
  BY <1>1, <1>2, <1>3, <1>4, <1>5, <1>6, <1>7

LEMMA KeptByFinishDone ==
  ASSUME GateInv, FinishDone
  PROVE  GateInv'
<1> USE DEF GateInv
<1>1. TreeType'
  BY DEF FinishDone, treeVars, TreeType
<1>2. GateType'
  BY DEF FinishDone, StartScan, Scanned, State, Unchanged, NoScan, Absent, GateType, TreeType, Versions, Scans, Attestations
<1>3. Older'
  BY DEF FinishDone, StartScan, Scanned, State, Unchanged, NoScan, Absent, treeVars, Older, GateType, TreeType, Versions, Scans
<1>4. Started'
  BY DEF FinishDone, Started
<1>5. Finishing'
  BY DEF FinishDone, Finishing
<1>6. Unattested'
  BY DEF FinishDone, Unattested
<1>7. AttestedWasTested'
  <2>1. /\ gate = "finish" /\ step = "hash" /\ todo = {} /\ seen' = seen
        /\ scan.tree = start.tree /\ scan.candidate = start.candidate
        /\ attestation'.tree = scan.tree /\ attestation'.candidate = scan.candidate
        /\ attestation'.run = gateRun'
    BY DEF FinishDone, Scanned, State, Unchanged
  <2>2. ASSUME NEW f \in Files
        PROVE  Later(f) /\ scan.listed[f] \in Nat /\ scan.tree[f] \in Nat /\ scan.candidate[f] \in Nat
    BY <2>1 DEF Finishing, GateType, Scans, Versions
  <2>3. ASSUME NEW read \in seen
        PROVE  scan.candidate[read[1]] = read[2]
    <3> DEFINE f == read[1]  n == read[2]
    <3>1. f \in Files /\ n \in Nat /\ n \in Reads(f)
      BY DEF GateType, Reads
    <3>2. scan.candidate[f] <= n
      BY <2>1 DEF Started
    <3> HIDE DEF f, n
    <3>3. Hashed(f)
      BY <2>1, <2>2, <3>1 DEF Later, Hashed
    <3>4. n <= scan.candidate[f]
      BY <2>1, <2>2, <3>1, <3>3 DEF Later
    <3> QED
      BY <2>2, <3>1, <3>2, <3>4 DEF f, n
  <2>4. ASSUME NEW f \in Files, scan.tree[f] # 0
        PROVE  scan.candidate[f] = scan.tree[f]
    BY <2>1, <2>2, <2>4 DEF Later, Hashed, Compared
  <2> QED
    BY <2>1, <2>3, <2>4 DEF AttestedWasTested, Tracked
<1> QED
  BY <1>1, <1>2, <1>3, <1>4, <1>5, <1>6, <1>7

LEMMA KeptByVerifyDone ==
  ASSUME GateInv, VerifyDone
  PROVE  GateInv'
<1> USE DEF GateInv
<1>1. TreeType'
  BY DEF VerifyDone, treeVars, TreeType
<1>2. GateType'
  BY DEF VerifyDone, StartScan, NoScan, Absent, GateType, TreeType, Versions, Scans, Attestations
<1>3. Older'
  BY DEF VerifyDone, StartScan, NoScan, Absent, treeVars, Older, GateType, TreeType, Versions, Scans
<1>4. Started'
  BY DEF VerifyDone, Started
<1>5. Finishing'
  BY DEF VerifyDone, Finishing
<1>6. Unattested'
  BY DEF VerifyDone, Unattested
<1>7. AttestedWasTested'
  BY DEF VerifyDone, AttestedWasTested
<1> QED
  BY <1>1, <1>2, <1>3, <1>4, <1>5, <1>6, <1>7

LEMMA KeptByGateEnds ==
  ASSUME GateInv, GateEnds
  PROVE  GateInv'
<1> USE DEF GateInv
<1>1. TreeType'
  BY DEF GateEnds, treeVars, TreeType
<1>2. GateType'
  BY DEF GateEnds, StartScan, NoScan, Absent, GateType, TreeType, Versions, Scans, Attestations
<1>3. Older'
  BY DEF GateEnds, StartScan, NoScan, Absent, treeVars, Older, GateType, TreeType, Versions, Scans
<1>4. Started'
  BY DEF GateEnds, Started
<1>5. Finishing'
  BY DEF GateEnds, Finishing
<1>6. Unattested'
  BY DEF GateEnds, Unattested
<1>7. AttestedWasTested'
  BY DEF GateEnds, AttestedWasTested
<1> QED
  BY <1>1, <1>2, <1>3, <1>4, <1>5, <1>6, <1>7

LEMMA GateKept == GateInv /\ [Next]_vars => GateInv'
<1> SUFFICES ASSUME GateInv, [Next]_vars
             PROVE  GateInv'
  OBVIOUS
<1>1. CASE UNCHANGED <<gateVars, treeVars>>
  BY <1>1 DEF gateVars, treeVars, GateInv, TreeType, GateType, Older, Started, Finishing, Later,
              Hashed, Compared, Reads, Unattested, AttestedWasTested, Tracked
<1>2. CASE StartPhase \/ PhaseStep \/ UNCHANGED vars
  BY <1>1, <1>2 DEF StartPhase, PhaseStep, vars
<1> QED
  BY <1>2, KeptByEdit, KeptByStage, KeptByListIndex, KeptByCompareFile, KeptByListOthers, KeptByWriteTree,
     KeptByHashFile, KeptByStartGate, KeptByBeginDone, KeptByPhaseReads, KeptByPhasePasses,
     KeptByFinishDone, KeptByVerifyDone, KeptByGateEnds DEF Next

(***************************************************************************)
(* What is attested is what was tested, for any files, however they are    *)
(* edited and staged while the gate reads them twice and tests them, and   *)
(* however often it is killed and started again.                           *)
(***************************************************************************)
THEOREM TestedIsAttested == Spec => []AttestedWasTested
<1>1. GateInv => AttestedWasTested
  BY DEF GateInv
<1> QED
  BY <1>1, GateStart, GateKept, PTL DEF Spec

=============================================================================
