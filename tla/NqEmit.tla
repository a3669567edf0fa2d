------------------------------- MODULE NqEmit -------------------------------
(***************************************************************************)
(* The ownership discipline of the C that selfhost/c_emit.nq emits.        *)
(*                                                                         *)
(* A body is a sequence of statements over bindings of move-only types.    *)
(* A move leaves a zeroed binding, an assignment drops the old value, and  *)
(* blocks, jumps and returns drop what they leave.  Conditions and the     *)
(* loops' lengths are any, and a callee that borrows mutably may or may    *)
(* not move the storage.  Bindings of copy types are cloned on use and are *)
(* left out.                                                               *)
(*                                                                         *)
(* Any body may be emitted that resolve.nq, parser.nq and typecheck.nq     *)
(* accept, and any other stops where they would reject it: a binding is    *)
(* declared once on every path, by a local of the block being run, which   *)
(* has a name of its own, is used only while its scope is open, and is     *)
(* given owned values only; jumps are in a loop, and the else block of a   *)
(* let-else is left by one or by a return.  What the borrow check says of  *)
(* the body plays no part here.                                            *)
(***************************************************************************)
EXTENDS Integers, FiniteSets, Sequences

CONSTANTS
  Bindings,   \* the bindings of the body
  Params,     \* those that hold a value when the body starts
  Programs,   \* the bodies to compile
  Lists,      \* the argument lists of calls
  Blocks,     \* the blocks: sequences of statements
  Size(_)     \* of a list or a block, larger than that of its parts

ASSUME BindingsFinite == IsFiniteSet(Bindings) /\ Params \subseteq Bindings

-----------------------------------------------------------------------------
(***************************************************************************)
(* The syntax of bodies.  The handoff's tables of expressions, statements, *)
(* arms and blocks refer to each other by number; here a part is in the    *)
(* whole, and Size says that no block is a part of itself.                 *)
(***************************************************************************)
Exprs(lists) ==
  [e : {"name", "ref", "mutref"}, b : Bindings] \cup [e : {"new", "opaque"}]
    \cup [e : {"call"}, args : lists]

Stmts(exprs, blocks) ==
  [s : {"expr", "return"}, x : exprs]
    \cup [s : {"let", "assign", "propagate"}, b : Bindings, x : exprs]
    \cup [s : {"break", "continue"}]
    \cup [s : {"if"}, x : exprs, then : blocks, else : blocks]
    \cup [s : {"while", "for"}, x : exprs, body : blocks]
    \cup [s : {"match"}, x : exprs, b : Bindings, ok : blocks, err : blocks]
    \cup [s : {"letelse"}, x : exprs, b : Bindings, else : blocks]

Expr == Exprs(Lists)
Statements == Stmts(Expr, Blocks)

(* The list of a call and the blocks of a statement. *)
Args(e) == IF e.e = "call" THEN {e.args} ELSE {}

Parts(s) ==
  CASE s.s = "if" -> {s.then, s.else}
    [] s.s \in {"while", "for"} -> {s.body}
    [] s.s = "match" -> {s.ok, s.err}
    [] s.s = "letelse" -> {s.else}
    [] OTHER -> {}

ASSUME ProgramsParsed ==
  /\ \A part \in Lists \cup Blocks : Size(part) \in Nat
  /\ \A args \in Lists :
       /\ args \in Seq(Expr)
       /\ args # <<>> => /\ Tail(args) \in Lists
                         /\ \A part \in {Tail(args)} \cup Args(Head(args)) :
                              Size(part) < Size(args)
  /\ \A block \in Blocks :
       /\ block \in Seq(Statements)
       /\ block # <<>> => /\ Tail(block) \in Blocks
                          /\ \A part \in {Tail(block)} \cup Parts(Head(block)) :
                               Size(part) < Size(block)
  /\ Programs \subseteq Blocks

-----------------------------------------------------------------------------
VARIABLES
  body,       \* the statements of the function
  stack,      \* blocks being run, the innermost first
  calls,      \* calls whose arguments are being lowered, the innermost first
  called,     \* the call that is the statement's expression has returned
  mem,        \* the value each C local owns, 0 when zeroed
  live,       \* the values that have storage
  result,     \* the value in the return temporary
  faults      \* history: "moved", "freed", "alias", "twice"

vars == <<body, stack, calls, called, mem, live, result, faults>>

-----------------------------------------------------------------------------
Borrows(e) == e.e \in {"ref", "mutref"}

(* The bindings declared in a block. *)
Locals(block) ==
  {b \in Bindings : \E i \in DOMAIN block :
                      /\ block[i].s \in {"let", "letelse", "propagate"}
                      /\ block[i].b = b}

(***************************************************************************)
(* The emitted C.  A machine record m holds mem, live and faults while a   *)
(* statement is evaluated; pinned are the values a for loop goes through.  *)
(***************************************************************************)
Pinned == {stack[i].todo[1].items :
             i \in {j \in DOMAIN stack : stack[j].todo # <<>> /\ stack[j].todo[1].s = "each"}}

Machine == [mem |-> mem, live |-> live, faults |-> faults]

Fault(m, cond, f) == IF cond THEN [m EXCEPT !.faults = @ \cup {f}] ELSE m

(* An allocation returns storage that no local owns or goes through. *)
Alloc(m) ==
  LET used == m.live \cup Pinned
  IN  CHOOSE id \in 1 .. Cardinality(used) + 1 : id \notin used

(* Dropping a zeroed value does nothing. *)
Drop(m, id) ==
  IF id = 0 THEN m ELSE Fault([m EXCEPT !.live = @ \ {id}], id \notin m.live, "twice")

DropAll(m, ids) ==
  Fault([m EXCEPT !.live = @ \ ids], ~(ids \ {0} \subseteq m.live), "twice")

(* Drops every local of a set and zeroes it. *)
DropLocals(m, owned) ==
  LET dropped == DropAll(m, {m.mem[b] : b \in owned})
  IN  [dropped EXCEPT !.mem = [b \in Bindings |-> IF b \in owned THEN 0 ELSE @[b]]]

(* The helper _move(&x): the value leaves the local zeroed. *)
TakeLocal(m, b) == Fault([m EXCEPT !.mem[b] = 0], m.mem[b] = 0, "moved")

(* A callee that got a mutable borrow and moves the storage. *)
Regrow(m, b) ==
  LET freed == Drop(m, m.mem[b])
      id == Alloc(m)
  IN  [freed EXCEPT !.live = @ \cup {id}, !.mem[b] = id]

-----------------------------------------------------------------------------
(***************************************************************************)
(* Frames.  A frame is a block being run: what is left of it, the locals   *)
(* it owns, those of them that have been declared and, in a match arm or   *)
(* the else block of a let-else, the temporary with the rest of the        *)
(* scrutinee.  A loop stays the first statement of its block until it is   *)
(* left.                                                                   *)
(***************************************************************************)
Frame(kind, block, declared, temp) ==
  [kind |-> kind, todo |-> block, owns |-> Locals(block) \cup declared,
   scope |-> declared, temp |-> temp]

Stmt == Head(stack).todo[1]

Past(frames, declared) ==
  <<[Head(frames) EXCEPT !.todo = Tail(@), !.scope = @ \cup declared]>> \o Tail(frames)

Temps == {stack[i].temp : i \in DOMAIN stack}

OwnedBy(frames) == UNION {frames[i].owns : i \in DOMAIN frames}

ScopeOf(frames) == UNION {frames[i].scope : i \in DOMAIN frames}

(* What resolution lets a statement declare, in its block or in an arm, and *)
(* the blocks it lets a statement enter: their locals are none in scope.    *)
Declares(b) == b \in Head(stack).owns \ ScopeOf(stack)
Binds(b) == b \in Bindings \ ScopeOf(stack)
Fresh(block) == Locals(block) \cap ScopeOf(stack) = {}

-----------------------------------------------------------------------------
(* The expression of a statement.  A call has been made, step by step,     *)
(* before the statement itself runs.                                       *)
At(kind) == stack # <<>> /\ Head(stack).todo # <<>> /\ Stmt.s = kind

HasCall == /\ stack # <<>> /\ Head(stack).todo # <<>>
           /\ "x" \in DOMAIN Stmt /\ Stmt.x.e = "call"

Evaluable(e) ==
  /\ e.e = "call" => called
  /\ e.e = "name" => e.b \in ScopeOf(stack)

(* What a binding of a move-only type can be given. *)
Storable(e) == Evaluable(e) /\ e.e \in {"name", "new", "call"}

(* The machine after an expression that is consumed, and the value it      *)
(* yields: what a call returns is new.                                     *)
Eval(m, e) ==
  CASE e.e = "name" -> [m |-> TakeLocal(m, e.b), value |-> m.mem[e.b]]
    [] e.e \in {"new", "call"} ->
                      LET id == Alloc(m)
                      IN  [m |-> [m EXCEPT !.live = @ \cup {id}], value |-> id]
    [] OTHER -> [m |-> m, value |-> 0]

(* An expression that is not consumed: a name is only read, and what the   *)
(* expression makes is dropped at once.                                    *)
Inspect(m, e) == Fault(m, e.e = "name" /\ m.mem[e.b] = 0, "moved")

Apply(m) == mem' = m.mem /\ live' = m.live /\ faults' = m.faults

(* The end of a statement. *)
EndStatement == called' = FALSE /\ UNCHANGED <<body, calls>>

-----------------------------------------------------------------------------
(* Calls: the arguments are lowered from left to right into statements of  *)
(* their own, each of a nested call before the next of the outer one.      *)
Opened(e) == [args |-> e.args, todo |-> e.args]

BeginCall ==
  /\ HasCall /\ ~called /\ calls = <<>>
  /\ calls' = <<Opened(Stmt.x)>>
  /\ UNCHANGED <<body, stack, called, mem, live, result, faults>>

Argument == Head(Head(calls).todo)

NextArgument == <<[Head(calls) EXCEPT !.todo = Tail(@)]>> \o Tail(calls)

(* A moved argument is the callee's, which drops it before it returns. *)
PassArgument ==
  /\ calls # <<>> /\ Head(calls).todo # <<>>
  /\ Argument.e = "name" => Argument.b \in ScopeOf(stack)
  /\ calls' = IF Argument.e = "call" THEN <<Opened(Argument)>> \o NextArgument ELSE NextArgument
  /\ Apply(IF Argument.e = "name"
           THEN Drop(TakeLocal(Machine, Argument.b), mem[Argument.b])
           ELSE Machine)
  /\ UNCHANGED <<body, stack, called, result>>

(* Borrowed arguments are addresses: the callee sees what they hold when   *)
(* it runs.  One that borrows mutably may move the storage.                *)
RunCall ==
  /\ calls # <<>> /\ Head(calls).todo = <<>>
  /\ LET args == Head(calls).args
         refs == {i \in DOMAIN args : Borrows(args[i])}
         shared == \E i \in refs, j \in DOMAIN args :
                     /\ i # j /\ args[j].e \in {"name", "ref", "mutref"}
                     /\ args[i].b = args[j].b
                     /\ ~(args[i].e = "ref" /\ args[j].e = "ref")
         seen == Fault(Fault(Machine, \E i \in refs : mem[args[i].b] = 0, "moved"),
                       shared, "alias")
     IN  /\ \A i \in refs : args[i].b \in ScopeOf(stack)
         /\ \/ Apply(seen)
            \/ \E i \in refs : args[i].e = "mutref" /\ Apply(Regrow(seen, args[i].b))
  /\ calls' = Tail(calls)
  /\ called' = (Len(calls) = 1)
  /\ UNCHANGED <<body, stack, result>>

-----------------------------------------------------------------------------
(* Statements. *)
ExprStep ==
  /\ At("expr") /\ Evaluable(Stmt.x)
  /\ Apply(Inspect(Machine, Stmt.x))
  /\ stack' = Past(stack, {})
  /\ EndStatement /\ UNCHANGED result

(* Nothing is dropped: the local of a let is zeroed when it is reached. *)
LetStep ==
  /\ At("let") /\ Storable(Stmt.x) /\ Declares(Stmt.b)
  /\ LET v == Eval(Machine, Stmt.x)
     IN  Apply([v.m EXCEPT !.mem[Stmt.b] = v.value])
  /\ stack' = Past(stack, {Stmt.b})
  /\ EndStatement /\ UNCHANGED result

(* The new value is made before the old one is dropped. *)
AssignStep ==
  /\ At("assign") /\ Storable(Stmt.x) /\ Stmt.b \in ScopeOf(stack)
  /\ LET v == Eval(Machine, Stmt.x)
     IN  Apply([DropLocals(v.m, {Stmt.b}) EXCEPT !.mem[Stmt.b] = v.value])
  /\ stack' = Past(stack, {})
  /\ EndStatement /\ UNCHANGED result

IfStep ==
  /\ At("if") /\ Evaluable(Stmt.x)
  /\ Apply(Inspect(Machine, Stmt.x))
  /\ \E branch \in {Stmt.then, Stmt.else} :
       /\ Fresh(branch)
       /\ stack' = <<Frame("block", branch, {}, 0)>> \o Past(stack, {})
  /\ EndStatement /\ UNCHANGED result

WhileStep ==
  /\ At("while") /\ Evaluable(Stmt.x)
  /\ Apply(Inspect(Machine, Stmt.x))
  /\ \/ Fresh(Stmt.body) /\ stack' = <<Frame("loop", Stmt.body, {}, 0)>> \o stack
     \/ stack' = Past(stack, {})
  /\ EndStatement /\ UNCHANGED result

(* nq_for_items is a copy of the list's header: it shares the storage. *)
ForStep ==
  /\ At("for") /\ Evaluable(Stmt.x) /\ Stmt.x.e = "name"
  /\ Apply(Inspect(Machine, Stmt.x))
  /\ stack' = <<[Head(stack) EXCEPT !.todo =
                   <<[s |-> "each", items |-> mem[Stmt.x.b], body |-> Stmt.body]>> \o Tail(@)]>>
                \o Tail(stack)
  /\ EndStatement /\ UNCHANGED result

(* The next turn reads an item; the last one does not. *)
EachStep ==
  /\ At("each")
  /\ \/ /\ Fresh(Stmt.body) /\ stack' = <<Frame("loop", Stmt.body, {}, 0)>> \o stack
        /\ Apply(Fault(Machine, Stmt.items \notin live \cup {0}, "freed"))
     \/ /\ stack' = Past(stack, {})
        /\ UNCHANGED <<mem, live, faults>>
  /\ EndStatement /\ UNCHANGED result

(* The scrutinee is moved to a temporary.  The payload of Ok is moved on   *)
(* to its binding; in the other arm the temporary keeps what it holds.     *)
MatchStep ==
  /\ At("match") /\ Storable(Stmt.x) /\ Binds(Stmt.b)
  /\ LET v == Eval(Machine, Stmt.x) IN
       \/ /\ Fresh(Stmt.ok) /\ Apply([v.m EXCEPT !.mem[Stmt.b] = v.value])
          /\ stack' = <<Frame("match", Stmt.ok, {Stmt.b}, 0)>> \o Past(stack, {})
       \/ /\ Fresh(Stmt.err) /\ Apply(v.m)
          /\ stack' = <<Frame("match", Stmt.err, {}, v.value)>> \o Past(stack, {})
  /\ EndStatement /\ UNCHANGED result

LetElseStep ==
  /\ At("letelse") /\ Storable(Stmt.x) /\ Declares(Stmt.b)
  /\ LET v == Eval(Machine, Stmt.x)
         emptied == DropLocals(v.m, {Stmt.b})
     IN  \/ /\ Apply([emptied EXCEPT !.mem[Stmt.b] = v.value])
            /\ stack' = Past(stack, {Stmt.b})
         \/ /\ Fresh(Stmt.else) /\ Apply(emptied)
            /\ stack' = <<Frame("else", Stmt.else, {}, v.value)>> \o Past(stack, {})
  /\ EndStatement /\ UNCHANGED result

-----------------------------------------------------------------------------
(* Leaving blocks.  A jump or return first drops the temporaries of all    *)
(* matches around it, those outside of the loop too, which leaves them     *)
(* zeroed; then the locals of the blocks it leaves.                        *)

(* The frames a jump leaves: up to the body of the innermost loop. *)
InLoop == \E k \in DOMAIN stack : stack[k].kind = "loop"

ExitDepth == CHOOSE k \in DOMAIN stack :
  stack[k].kind = "loop" /\ \A i \in 1 .. k - 1 : stack[i].kind # "loop"

(* Mutant: the locals of the loop's body are forgotten. *)
LeftShort == SubSeq(stack, 1, ExitDepth - 1)

Left == SubSeq(stack, 1, ExitDepth)

JumpStep ==
  /\ At("break") \/ At("continue")
  /\ InLoop
  /\ Apply(DropLocals(DropAll(Machine, Temps), OwnedBy(Left)))
  /\ LET outer == SubSeq(stack, ExitDepth + 1, Len(stack))
         kept == [i \in DOMAIN outer |-> [outer[i] EXCEPT !.temp = 0]]
     IN  stack' = IF Stmt.s = "break" THEN Past(kept, {}) ELSE kept
  /\ EndStatement /\ UNCHANGED result

(* What a return leaves behind: the value in the return temporary. *)
Finish(m, value) ==
  /\ Apply(DropLocals(DropAll(m, Temps), OwnedBy(stack)))
  /\ result' = value
  /\ stack' = <<>>

ReturnStep ==
  /\ At("return") /\ Evaluable(Stmt.x)
  /\ LET v == Eval(Machine, Stmt.x) IN Finish(v.m, v.value)
  /\ EndStatement

(* An Err goes to the return temporary, an Ok to the binding. *)
PropagateStep ==
  /\ At("propagate") /\ Storable(Stmt.x) /\ Declares(Stmt.b)
  /\ LET v == Eval(Machine, Stmt.x)
         emptied == DropLocals(v.m, {Stmt.b})
     IN  \/ Finish(emptied, v.value)
         \/ /\ Apply([emptied EXCEPT !.mem[Stmt.b] = v.value])
            /\ stack' = Past(stack, {Stmt.b})
            /\ UNCHANGED result
  /\ EndStatement

(* The end of a block, and of the function for the outermost.  The else    *)
(* block of a let-else has to exit before (NQ-PARSE-003).                  *)
EndBlock ==
  /\ stack # <<>> /\ Head(stack).todo = <<>> /\ Head(stack).kind # "else"
  /\ Apply(Drop(DropLocals(Machine, Head(stack).owns), Head(stack).temp))
  /\ stack' = Tail(stack)
  /\ EndStatement /\ UNCHANGED result

-----------------------------------------------------------------------------
(* Parameters are the function's own: it drops them. *)
Init ==
  /\ body \in Programs
  /\ stack = <<Frame("root", body, Params, 0)>>
  /\ calls = <<>> /\ called = FALSE
  /\ mem = CHOOSE f \in [Bindings -> 0 .. Cardinality(Params)] :
             /\ \A b \in Bindings : f[b] = 0 <=> b \notin Params
             /\ \A b, c \in Params : f[b] = f[c] => b = c
  /\ live = {mem[b] : b \in Params}
  /\ result = 0
  /\ faults = {}

Next ==
  \/ BeginCall \/ PassArgument \/ RunCall
  \/ ExprStep \/ LetStep \/ AssignStep \/ IfStep \/ WhileStep \/ ForStep \/ EachStep
  \/ MatchStep \/ LetElseStep \/ PropagateStep \/ JumpStep \/ ReturnStep \/ EndBlock

Spec == Init /\ [][Next]_vars

-----------------------------------------------------------------------------
(***************************************************************************)
(* Whatever the body, the emitted C drops each value once: a value has one *)
(* owner on every path, and nothing but the result is left when the        *)
(* function returns.                                                       *)
(***************************************************************************)
Owners(id) ==
  Cardinality({b \in Bindings : mem[b] = id}) + Cardinality({i \in DOMAIN stack : stack[i].temp = id})

OwnedOnce ==
  /\ "twice" \notin faults
  /\ stack # <<>> => \A id \in live : Owners(id) = 1
  /\ stack = <<>> => live = {result} \ {0}

=============================================================================
