----------------------------- MODULE MCNqBorrow -----------------------------
(***************************************************************************)
(* NqBorrow for TLC: all bodies of a few grammars, up to a size that       *)
(* counts statements.  The bindings keep their roles: x and y are owned    *)
(* values or lists, r is an option or result that only matches and         *)
(* propagations take apart, t is a local.                                  *)
(***************************************************************************)
EXTENDS NqBorrow, FiniteSetsExt

CONSTANTS x, y, r, t,
          FlowSize, ScopeSize, ListSize, MovedSize

Name(b) == [e |-> "name", b |-> b]
Ref(b) == [e |-> "ref", b |-> b]
MutRef(b) == [e |-> "mutref", b |-> b]
New == [e |-> "new"]
Opaque == [e |-> "opaque"]
CallOf(args) == [e |-> "call", args |-> args]

ExprStmt(e) == [s |-> "expr", x |-> e]
Let(b, e) == [s |-> "let", b |-> b, x |-> e]
Assign(b, e) == [s |-> "assign", b |-> b, x |-> e]
Return(e) == [s |-> "return", x |-> e]
Break == [s |-> "break"]
Continue == [s |-> "continue"]
If(e, a, b) == [s |-> "if", x |-> e, then |-> a, else |-> b]
While(e, b) == [s |-> "while", x |-> e, body |-> b]
For(b, block) == [s |-> "for", x |-> Name(b), body |-> block]
Match(e, b, a1, a2) == [s |-> "match", x |-> e, b |-> b, ok |-> a1, err |-> a2]
LetElse(b, e, block) == [s |-> "letelse", b |-> b, x |-> e, else |-> block]
Propagate(b, e) == [s |-> "propagate", b |-> b, x |-> e]

Use(b) == ExprStmt(CallOf(<<Ref(b)>>))
Eat(b) == ExprStmt(CallOf(<<Name(b)>>))
Set(b) == Assign(b, New)

-----------------------------------------------------------------------------
(* The recursive procedures of the analysis: each is its own body.  TLC's   *)
(* statistics would expand a body that is no LET within itself for ever.    *)
WalkArguments(args, st, borrowed, consumed) == LET end == WalkRest(args, st, borrowed, consumed) IN end
LoopHead(s, before, entry) == LET head == GrowEntry(s, before, entry) IN head
CheckStatements(block, st) == LET end == CheckStmts(block, st) IN end

-----------------------------------------------------------------------------
(* A block of size n is a statement of size k and a block of size n - k, or *)
(* a jump that ends it.  Of(levels, k) are the blocks of size k.            *)
Of(levels, k) == levels[k + 1]

Empty == <<{<<>>}>>

Extend(levels, stmts, ends) ==
  LET n == Len(levels)
      longer == UNION {{<<s>> \o rest : s \in stmts[k], rest \in Of(levels, n - k)} : k \in 1 .. n}
  IN  Append(levels, longer \cup {<<e>> : e \in IF n = 1 THEN ends ELSE {}})

Ifs(levels, n) ==
  UNION {{If(Opaque, a, b) : a \in Of(levels, k), b \in Of(levels, n - 1 - k)} : k \in 1 .. n - 1}

Whiles(levels, conds, n) == {While(c, b) : c \in conds, b \in Of(levels, n - 1)}

UpTo(levels) == UNION {levels[i] : i \in 2 .. Len(levels)}

RECURSIVE FlowBlocks(_), LocalBlocks(_), ScopeBlocks(_, _), ListBlocks(_), MovedBlocks(_)

(* Moves of x in a loop, through branches, inner loops and every exit. *)
Conditions == {Opaque, CallOf(<<Name(x)>>)}

FlowBlocks(n) ==
  IF n = 0 THEN Empty
  ELSE LET levels == FlowBlocks(n - 1)
           stmts == [k \in 1 .. n |->
                       IF k = 1 THEN {Use(x), Eat(x), Set(x)}
                       ELSE Ifs(levels, k) \cup Whiles(levels, Conditions, k)]
       IN  Extend(levels, stmts, {Break, Continue, Return(Opaque)})

FlowPrograms ==
  {<<While(c, b)>> \o post : c \in Conditions, b \in UpTo(FlowBlocks(FlowSize)),
                             post \in {<<>>, <<Use(x)>>}}

(* Blocks in which t is declared, and blocks that may declare it: by a let, *)
(* a let-else, a propagation or as the payload of a match.                  *)
LocalBlocks(n) ==
  IF n = 0 THEN Empty
  ELSE LET levels == LocalBlocks(n - 1)
           stmts == [k \in 1 .. n |-> IF k = 1 THEN {Use(t), Eat(t), Assign(x, Name(t))}
                                      ELSE Ifs(levels, k)]
       IN  Extend(levels, stmts, {Break, Continue, Return(Name(x)), Return(Name(t))})

Declarations ==
  {Let(t, Name(x)), Let(t, CallOf(<<Ref(x)>>)), Propagate(t, Name(r))}
    \cup {LetElse(t, Name(r), <<e>>) : e \in {Break, Continue, Return(Name(x))}}

ScopeBlocks(n, locals) ==
  IF n = 0 THEN Empty
  ELSE LET levels == ScopeBlocks(n - 1, locals)
           matches(k) == UNION {{Match(Name(r), t, a, b) : a \in Of(locals, j),
                                                           b \in Of(levels, k - 1 - j)} :
                                  j \in 0 .. k - 1}
           stmts == [k \in 1 .. n |->
                       IF k = 1 THEN {Use(x), Assign(r, New)} \cup matches(1)
                       ELSE Ifs(levels, k) \cup Whiles(levels, {Opaque}, k) \cup matches(k)]
           declared == {<<d>> \o b : d \in Declarations, b \in Of(locals, n - 1)}
           more == Extend(levels, stmts, {Break, Continue, Return(Name(x))})
       IN  [more EXCEPT ![n + 1] = @ \cup declared]

ScopePrograms ==
  {<<While(Opaque, b)>> : b \in UpTo(ScopeBlocks(ScopeSize, LocalBlocks(ScopeSize)))}

(* Loops over a list that their body may touch. *)
ListBlocks(n) ==
  IF n = 0 THEN Empty
  ELSE LET levels == ListBlocks(n - 1)
           stmts == [k \in 1 .. n |->
                       IF k = 1 THEN {Use(x), Eat(x), Set(x), ExprStmt(CallOf(<<MutRef(x)>>))}
                       ELSE Ifs(levels, k) \cup {For(x, b) : b \in Of(levels, k - 1)}
                              \cup Whiles(levels, {CallOf(<<MutRef(x)>>)}, k)]
       IN  Extend(levels, stmts, {Break, Continue})

ListPrograms ==
  {<<For(x, b)>> \o post : b \in UpTo(ListBlocks(ListSize)), post \in {<<>>, <<Use(x)>>}}

(* Calls with up to three arguments, one of which may be a call itself. *)
Arguments ==
  {Name(b) : b \in {x, y}} \cup {Ref(b) : b \in {x, y}} \cup {MutRef(b) : b \in {x, y}}
    \cup {CallOf(<<a>>) : a \in {Name(x), Ref(x), MutRef(x)}}

CallPrograms ==
  UNION {{<<ExprStmt(CallOf(args)), Use(x)>> : args \in [1 .. n -> Arguments]} : n \in 1 .. 3}

(* A set with its elements in TLC's order, to which others are added fast. *)
Sorted(set) == {e \in set : TRUE}

AllPrograms ==
  Sorted(FlowPrograms) \cup (Sorted(ListPrograms) \cup (ScopePrograms \cup CallPrograms))

(* Bodies in which a loop may be left in the middle. *)
MovedBlocks(n) ==
  IF n = 0 THEN Empty
  ELSE LET levels == MovedBlocks(n - 1)
           stmts == [k \in 1 .. n |-> IF k = 1 THEN {Eat(x), Set(x)} ELSE Ifs(levels, k)]
       IN  Extend(levels, stmts, {Break})

MovedPrograms == {<<While(Opaque, b), Use(x)>> : b \in UpTo(MovedBlocks(MovedSize))}

-----------------------------------------------------------------------------
(* What the programs are made of: all their blocks and argument lists, and *)
(* how many statements or arguments deep one is.  TLC keeps the value of a *)
(* definition, but not that of a constant: hence the two names of a set.   *)
BlockSet ==
  Sorted(Programs) \cup
    (Sorted(UpTo(FlowBlocks(FlowSize))) \cup
       (Sorted(UpTo(ListBlocks(ListSize))) \cup
          (UpTo(ScopeBlocks(ScopeSize, LocalBlocks(ScopeSize))) \cup
             (UpTo(LocalBlocks(ScopeSize)) \cup (UpTo(MovedBlocks(MovedSize)) \cup {<<>>})))))

ListSet == UNION {[1 .. n -> Arguments \cup {Name(t), Ref(t)}] : n \in 0 .. 3}

ProgramBlocks == BlockSet
ProgramLists == ListSet

RECURSIVE Depth(_)

Depth(nodes) ==
  IF nodes = <<>> THEN 0
  ELSE LET parts == IF "e" \in DOMAIN nodes[1] THEN Args(nodes[1]) ELSE Parts(nodes[1])
       IN  1 + Max({Depth(part) : part \in {Tail(nodes)} \cup parts})

=============================================================================
