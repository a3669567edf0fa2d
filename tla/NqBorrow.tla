------------------------------ MODULE NqBorrow ------------------------------
(***************************************************************************)
(* The move and borrow analysis of selfhost/borrow.nq, and what the bodies *)
(* that it accepts do when the C emitted for them runs (NqEmit).           *)
(*                                                                         *)
(* The compiler analyses a body once (Check); an accepted body is then     *)
(* run, a rejected one is not.                                             *)
(***************************************************************************)
EXTENDS NqEmit

CONSTANTS
  WalkArgs(_, _, _, _),   \* the recursive procedures of the analysis: see
  LoopEntry(_, _, _),     \* WalkRest, GrowEntry and CheckStmts
  CheckBlock(_, _)

VARIABLES
  verdict,    \* "unchecked", "accepted" or "rejected"
  gap         \* history: the analysis ignored a move or a borrow (see Check)

checkedVars == <<vars, verdict, gap>>

-----------------------------------------------------------------------------
(* value_plan.nq: a binding used where the value is consumed is moved, any *)
(* other use only reads it.                                                *)
Moves(e, consume) == e.e = "name" /\ consume

-----------------------------------------------------------------------------
(***************************************************************************)
(* The analysis.  Its state holds the bindings that may have been moved    *)
(* and the diagnostics so far.  The code keeps no more; the other fields   *)
(* are history: touched are the bindings moved, replaced or mutably        *)
(* borrowed, jumped those moved where a break or continue leaves its loop, *)
(* and gap says that one of three things happened which the code does not  *)
(* look at:                                                                *)
(*   - a binding is moved at a jump and not at the head of the loop, since  *)
(*     it is reset behind the jump, before the back edge;                  *)
(*   - an argument moves what an earlier argument of the call borrows;     *)
(*   - a for loop touches the list it goes through.                        *)
(***************************************************************************)
Start(moved) == [moved |-> moved, diags |-> {}, touched |-> {}, jumped |-> {}, gap |-> FALSE]

Reset(st, b) == [st EXCEPT !.moved = @ \ {b}, !.touched = @ \cup {b}]

Report(st, cond, code) == IF cond THEN [st EXCEPT !.diags = @ \cup {code}] ELSE st

(* What two paths leave: moved on one of them is moved. *)
Merge(s, t) ==
  [moved |-> s.moved \cup t.moved, diags |-> s.diags \cup t.diags,
   touched |-> s.touched \cup t.touched, jumped |-> s.jumped \cup t.jumped,
   gap |-> s.gap \/ t.gap]

(* A mutable borrow excludes any other borrow of the same binding. *)
ConflictsLast(b, kind, borrowed) == <<b, "mutref">> \in borrowed   \* Mutant

Conflicts(b, kind, borrowed) ==
  \/ <<b, "mutref">> \in borrowed
  \/ kind = "mutref" /\ <<b, "ref">> \in borrowed

UseName(e, st, consume) ==
  IF e.b \in st.moved THEN Report(st, TRUE, "NQ-BORROW-001")
  ELSE IF Moves(e, consume)
       THEN [st EXCEPT !.moved = @ \cup {e.b}, !.touched = @ \cup {e.b}]
       ELSE st

UseBorrow(e, st) ==
  [Report(st, e.b \in st.moved, "NQ-BORROW-003")
     EXCEPT !.touched = IF e.e = "mutref" THEN @ \cup {e.b} ELSE @]

Walk(e, st, consume) ==
  CASE e.e = "name" -> UseName(e, st, consume)
    [] Borrows(e) -> UseBorrow(e, st)
    [] e.e = "call" -> WalkArgs(e.args, st, {}, {})
    [] OTHER -> st

(* What is reported of an argument, before it is walked itself, and what   *)
(* the arguments so far borrow and consume.                                *)
JudgeArg(e, st, borrowed, consumed) ==
  IF Borrows(e)
  THEN Report(Report(st, Conflicts(e.b, e.e, borrowed), "NQ-BORROW-006"),
              e.b \in consumed, "NQ-BORROW-007")
  ELSE Report(st, Moves(e, TRUE) /\ \E k \in {"ref", "mutref"} : <<e.b, k>> \in borrowed,
              "NQ-BORROW-007")

WithBorrow(e, borrowed) == IF Borrows(e) THEN borrowed \cup {<<e.b, e.e>>} ELSE borrowed

WithMove(e, consumed) == IF Moves(e, TRUE) THEN consumed \cup {e.b} ELSE consumed

WalkRest(args, st, borrowed, consumed) ==
  IF args = <<>>
  THEN [st EXCEPT !.gap = @ \/ \E p \in borrowed : p[1] \in st.moved]
  ELSE LET e == Head(args)
           judged == JudgeArg(e, st, borrowed, consumed)
       IN  WalkArgs(Tail(args), Walk(e, judged, ~Borrows(e)),
                    WithBorrow(e, borrowed), WithMove(e, consumed))

(* History: the locals of a block are gone once it is left. *)
Scoped(block, st) ==
  LET inner == CheckBlock(block, [st EXCEPT !.jumped = {}])
  IN  [inner EXCEPT !.jumped = st.jumped \cup (@ \ Locals(block))]

(* The state at the head of a loop: grown by the end of the body until it  *)
(* is stable.                                                              *)
LoopEntryOnce(s, before, entry) == entry   \* Mutant: no fixpoint

(* What may have been moved when the loop begins anew. *)
Round(s, before, entry) ==
  before \cup CheckBlock(s.body, Walk(s.x, Start(entry), FALSE)).moved

GrowEntry(s, before, entry) ==
  LET next == Round(s, before, entry)
  IN  IF next = entry THEN entry ELSE LoopEntry(s, before, next)

(* The loop is left in the state after its condition.  Locals of the body  *)
(* are declared anew in every iteration.                                   *)
CheckLoop(s, entry, cond) ==
  LET end == Scoped(s.body, [cond EXCEPT !.touched = {}, !.jumped = {}])
  IN  [end EXCEPT !.moved = cond.moved, !.touched = @ \cup cond.touched,
                  !.jumped = cond.jumped,
                  !.gap = \/ @
                          \/ ~(end.jumped \subseteq entry)
                          \/ s.s = "for" /\ s.x.b \in end.touched]

CheckWhile(s, st) ==
  LET entry == LoopEntry(s, st.moved, st.moved)
  IN  CheckLoop(s, entry, Walk(s.x, [st EXCEPT !.moved = entry], FALSE))

(* The list is evaluated once, before the first iteration. *)
CheckFor(s, st) ==
  LET first == Walk(s.x, st, FALSE)
      entry == LoopEntry([s EXCEPT !.x = [e |-> "opaque"]], first.moved, first.moved)
  IN  CheckLoop(s, entry, [first EXCEPT !.moved = entry])

CheckIf(s, st) ==
  LET cond == Walk(s.x, st, FALSE)
  IN  Merge(Scoped(s.then, cond), Scoped(s.else, cond))

(* The scrutinee is moved; the payload binding is fresh in its arm. *)
CheckMatch(s, st) ==
  LET taken == Walk(s.x, st, TRUE)
      ok == Scoped(s.ok, Reset([taken EXCEPT !.jumped = {}], s.b))
  IN  Merge(taken, Merge([ok EXCEPT !.jumped = @ \ {s.b}], Scoped(s.err, taken)))

(* The else block leaves the statement: what it moves is ignored. *)
CheckLetElse(s, st) ==
  LET taken == Walk(s.x, st, TRUE)
      else == Scoped(s.else, taken)
  IN  Reset([else EXCEPT !.moved = taken.moved], s.b)

CheckStmt(s, st) ==
  CASE s.s \in {"let", "assign", "propagate"} -> Reset(Walk(s.x, st, TRUE), s.b)
    [] s.s = "if" -> CheckIf(s, st)
    [] s.s = "while" -> CheckWhile(s, st)
    [] s.s = "for" -> CheckFor(s, st)
    [] s.s = "match" -> CheckMatch(s, st)
    [] s.s = "letelse" -> CheckLetElse(s, st)
    [] s.s = "return" -> Walk(s.x, st, TRUE)
    [] s.s \in {"break", "continue"} -> [st EXCEPT !.jumped = @ \cup st.moved]
    [] OTHER -> Walk(s.x, st, FALSE)

CheckStmts(block, st) ==
  IF block = <<>> THEN st ELSE CheckBlock(Tail(block), CheckStmt(Head(block), st))

Check ==
  /\ verdict = "unchecked"
  /\ LET st == CheckBlock(body, Start({})) IN
       /\ verdict' = IF st.diags = {} THEN "accepted" ELSE "rejected"
       /\ gap' = st.gap
  /\ UNCHANGED vars

-----------------------------------------------------------------------------
(* The emitted C of an accepted body. *)
Run == verdict = "accepted" /\ Next /\ UNCHANGED <<verdict, gap>>

Finished ==
  /\ verdict = "rejected" \/ stack = <<>>
  /\ UNCHANGED checkedVars

CheckedInit == Init /\ verdict = "unchecked" /\ gap = FALSE

CheckedNext == Check \/ Run \/ Finished

CheckedSpec == CheckedInit /\ [][CheckedNext]_checkedVars

-----------------------------------------------------------------------------
(***************************************************************************)
(* An accepted body never uses a zeroed binding and a for loop never reads *)
(* storage that is gone: check_block's states, merged at branches and      *)
(* grown at loops, cover every path of the emitted C, except for the three *)
(* patterns that gap describes.                                            *)
(***************************************************************************)
ReadsOnlyLive == verdict = "accepted" /\ ~gap => faults \cap {"moved", "freed"} = {}

(* No call of an accepted body gets a binding twice, one time of them      *)
(* mutably or by value: NQ-BORROW-006 and 007 of walk_expr catch them all. *)
CallsExclusive == verdict = "accepted" => "alias" \notin faults

(* SPEC.md 833 and 847: using a moved non-copy value is a compile error.   *)
(* walk_expr and check_block are to reject every body that does.           *)
MovedNeverUsed == verdict = "accepted" => "moved" \notin faults

=============================================================================
