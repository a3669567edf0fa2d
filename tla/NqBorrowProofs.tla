--------------------------- MODULE NqBorrowProofs ---------------------------
(***************************************************************************)
(* For every body: the C emitted for it drops each value once (Spec), and  *)
(* if borrow.nq accepts the body, that C reads nothing that is gone and    *)
(* passes nothing twice (CheckedSpec).                                     *)
(*                                                                         *)
(* Ownership.  The machine and the frames are treated apart.  Good says of *)
(* a machine that its live values are those of the bindings in scope, of   *)
(* the temporaries and of a loose value that a statement is about to       *)
(* store, all different.  FramesOK says what blocks own and declare.       *)
(*                                                                         *)
(* The borrow check.  First what the analysis computes, by induction over  *)
(* the size of lists and blocks: it only adds to its state, it is monotone *)
(* in what has been moved, and the state at the head of a loop is a        *)
(* fixpoint.  Then the invariant: each frame of the stack runs what is     *)
(* left of a block of which the analysis, from some state, reports         *)
(* nothing (Shape); the end of a frame and the jumps out of it reach the   *)
(* frames around (Chain); the storage a for loop goes through belongs to a *)
(* binding that its body does not touch (Pins); the calls being lowered    *)
(* stand where the analysis walked their arguments (Walking); and what is  *)
(* zeroed has been moved there (Covers).  The states of the analysis that  *)
(* belong to the frames are src, at, cat, bor and con.                     *)
(***************************************************************************)
EXTENDS NqBorrow, FiniteSetTheorems, WellFoundedInduction, TLAPS

-----------------------------------------------------------------------------
(* The machine and the frames *)

Machines ==
  [mem : [Bindings -> Nat], live : SUBSET (Nat \ {0}),
   faults : SUBSET {"moved", "freed", "alias"}]

Good(m, temps, scope, v) ==
  /\ m \in Machines /\ IsFiniteSet(m.live)
  /\ temps \subseteq Nat \ {0} /\ v \in Nat \ temps
  /\ \A b, c \in Bindings : m.mem[b] = m.mem[c] /\ m.mem[b] # 0 => b = c
  /\ \A b \in Bindings : m.mem[b] # 0 =>
       b \in scope /\ m.mem[b] \notin temps /\ m.mem[b] # v
  /\ m.live = ({m.mem[b] : b \in Bindings} \cup temps \cup {v}) \ {0}

Kinds == {"root", "block", "loop", "match", "else"}

Frames(todos) ==
  [kind : Kinds, todo : todos, owns : SUBSET Bindings,
   scope : SUBSET Bindings, temp : Nat]

TempsOf(frames) == {frames[i].temp : i \in DOMAIN frames} \ {0}

FramesOK(frames) ==
  /\ \E todos : frames \in Seq(Frames(todos))
  /\ \A i \in DOMAIN frames : frames[i].scope \subseteq frames[i].owns
  /\ \A i, j \in DOMAIN frames :
       frames[i].temp = frames[j].temp /\ frames[i].temp # 0 => i = j
  /\ frames # <<>> => frames[Len(frames)].kind # "loop"

Inv ==
  /\ FramesOK(stack)
  /\ Good(Machine, TempsOf(stack), ScopeOf(stack), result)
  /\ stack # <<>> => result = 0

-----------------------------------------------------------------------------
(* Machines *)

\* A fault other than a double drop does not change what is owned.
LEMMA FaultGood ==
  ASSUME NEW m, NEW temps, NEW scope, NEW v, Good(m, temps, scope, v),
         NEW cond, NEW f \in {"moved", "freed", "alias"}
  PROVE  /\ Good(Fault(m, cond, f), temps, scope, v)
         /\ Fault(m, cond, f).mem = m.mem /\ Fault(m, cond, f).live = m.live
  <1> DEFINE n == Fault(m, cond, f)
  <1>1. n \in Machines /\ n.mem = m.mem /\ n.live = m.live
    BY DEF Good, Machines, Fault
  <1> HIDE DEF n
  <1>2. Good(n, temps, scope, v)
    BY <1>1 DEF Good
  <1> QED BY <1>1, <1>2 DEF n

\* A binding that is taken is zeroed and its value becomes the loose one.
LEMMA TakeGood ==
  ASSUME NEW m, NEW temps, NEW scope, Good(m, temps, scope, 0),
         NEW b \in Bindings
  PROVE  Good(TakeLocal(m, b), temps, scope, m.mem[b])
  <1> DEFINE n == [m EXCEPT !.mem[b] = 0]
  <1>1. /\ n \in Machines /\ n.live = m.live
        /\ n.mem = [m.mem EXCEPT ![b] = 0]
    BY DEF Good, Machines
  <1>2. m.mem \in [Bindings -> Nat]
    BY DEF Good, Machines
  <1> HIDE DEF n
  <1>3. /\ n.mem \in [Bindings -> Nat] /\ n.mem[b] = 0
        /\ \A c \in Bindings \ {b} : n.mem[c] = m.mem[c]
    BY <1>1, <1>2
  <1>4. {n.mem[c] : c \in Bindings} \cup {m.mem[b]} = {m.mem[c] : c \in Bindings} \cup {0}
    BY <1>3
  <1>5. Good(n, temps, scope, m.mem[b])
    BY <1>1, <1>2, <1>3, <1>4 DEF Good
  <1> QED BY <1>5, FaultGood DEF TakeLocal, n

\* A loose value is dropped once.
LEMMA DropGood ==
  ASSUME NEW m, NEW temps, NEW scope, NEW v, Good(m, temps, scope, v)
  PROVE  /\ Good(Drop(m, v), temps, scope, 0)
         /\ Drop(m, v).mem = m.mem
  <1>1. CASE v = 0
    BY <1>1 DEF Drop
  <1>2. CASE v # 0
    <2> DEFINE n == [m EXCEPT !.live = @ \ {v}]
    <2>1. v \in m.live
      BY <1>2 DEF Good
    <2>2. Drop(m, v) = n
      BY <1>2, <2>1 DEF Drop, Fault
    <2>3. n \in Machines /\ n.live = m.live \ {v} /\ n.mem = m.mem
      BY DEF Good, Machines
    <2> HIDE DEF n
    <2>4. IsFiniteSet(n.live)
      BY <2>3, FS_RemoveElement DEF Good
    <2>5. n.live = ({n.mem[b] : b \in Bindings} \cup temps \cup {0}) \ {0}
      BY <1>2, <2>3 DEF Good
    <2>6. Good(n, temps, scope, 0)
      BY <2>3, <2>4, <2>5 DEF Good
    <2> QED BY <2>2, <2>3, <2>6
  <1> QED BY <1>1, <1>2

\* Locals are dropped once and zeroed, all others are left alone.
LEMMA LocalsGood ==
  ASSUME NEW m, NEW temps, NEW scope, NEW v, Good(m, temps, scope, v),
         NEW owned \in SUBSET Bindings
  PROVE  /\ Good(DropLocals(m, owned), temps, scope, v)
         /\ \A b \in owned : DropLocals(m, owned).mem[b] = 0
         /\ \A b \in Bindings \ owned : DropLocals(m, owned).mem[b] = m.mem[b]
  <1> DEFINE ids == {m.mem[b] : b \in owned}
             n == DropLocals(m, owned)
  <1>1. m.mem \in [Bindings -> Nat] /\ m \in Machines
    BY DEF Good, Machines
  <1>2. ids \ {0} \subseteq m.live
    BY DEF Good
  <1>3. DropAll(m, ids) = [m EXCEPT !.live = @ \ ids]
    BY <1>2 DEF DropAll, Fault
  <1> DEFINE r == [m EXCEPT !.live = @ \ ids]
             f == [b \in Bindings |-> IF b \in owned THEN 0 ELSE m.mem[b]]
  <1>4. /\ r \in Machines /\ r.mem = m.mem /\ r.live = m.live \ ids
        /\ f \in [Bindings -> Nat]
    BY <1>1 DEF Machines
  <1>5. n \in Machines /\ n.live = m.live \ ids /\ n.mem = f
    <2>1. n = [r EXCEPT !.mem = [b \in Bindings |-> IF b \in owned THEN 0 ELSE r.mem[b]]]
      BY <1>3 DEF DropLocals
    <2> HIDE DEF r, n
    <2>2. n = [r EXCEPT !.mem = f]
      BY <1>4, <2>1
    <2> HIDE DEF f
    <2> QED BY <1>4, <2>2 DEF Machines
  <1> HIDE DEF n
  <1>6. /\ \A b \in owned : n.mem[b] = 0
        /\ \A b \in Bindings \ owned : n.mem[b] = m.mem[b]
    BY <1>5
  <1>7. IsFiniteSet(n.live)
    <2>1. IsFiniteSet(m.live)
      BY DEF Good
    <2> HIDE DEF ids
    <2>2. IsFiniteSet(m.live \ ids)
      BY <2>1, FS_Difference
    <2> QED BY <1>5, <2>2
  <1>8. n.live = ({n.mem[b] : b \in Bindings} \cup temps \cup {v}) \ {0}
    <2>1. ASSUME NEW id \in m.live \ ids
          PROVE  id \in {n.mem[b] : b \in Bindings} \cup temps \cup {v}
      BY <1>6 DEF Good
    <2>2. ASSUME NEW b \in Bindings, n.mem[b] # 0
          PROVE  n.mem[b] \in m.live \ ids
      <3>1. b \notin owned /\ n.mem[b] = m.mem[b] /\ m.mem[b] \in m.live
        BY <1>6, <2>2 DEF Good
      <3> QED BY <2>2, <3>1 DEF Good
    <2>3. ASSUME NEW id \in temps \cup {v}, id # 0
          PROVE  id \in m.live \ ids
      <3>1. id \in m.live
        BY <2>3 DEF Good
      <3>2. \A b \in owned : m.mem[b] # id
        BY <2>3 DEF Good
      <3> QED BY <3>1, <3>2
    <2>4. 0 \notin m.live
      BY <1>1 DEF Machines
    <2> QED BY <1>5, <2>1, <2>2, <2>3, <2>4
  <1>9. Good(n, temps, scope, v)
    BY <1>5, <1>6, <1>7, <1>8 DEF Good
  <1> QED BY <1>6, <1>9 DEF n

\* All temporaries are dropped once.
LEMMA TempsGood ==
  ASSUME NEW m, NEW temps, NEW scope, NEW v, Good(m, temps, scope, v),
         NEW ids, ids \ {0} = temps
  PROVE  Good(DropAll(m, ids), {}, scope, v)
  <1> DEFINE n == [m EXCEPT !.live = @ \ ids]
  <1>1. DropAll(m, ids) = n
    BY DEF DropAll, Fault, Good
  <1>2. n \in Machines /\ n.live = m.live \ ids /\ n.mem = m.mem
    BY DEF Good, Machines
  <1> HIDE DEF n
  <1>3. IsFiniteSet(n.live)
    <2>1. IsFiniteSet(m.live)
      BY DEF Good
    <2>2. IsFiniteSet(m.live \ ids)
      BY <2>1, FS_Difference
    <2> QED BY <1>2, <2>2
  <1>4. n.live = ({n.mem[b] : b \in Bindings} \cup {} \cup {v}) \ {0}
    BY <1>2 DEF Good
  <1> QED BY <1>1, <1>2, <1>3, <1>4 DEF Good

\* The loose value is stored in a zeroed binding.
LEMMA PutGood ==
  ASSUME NEW m, NEW temps, NEW scope, NEW v, Good(m, temps, scope, v),
         NEW b \in Bindings, m.mem[b] = 0
  PROVE  Good([m EXCEPT !.mem[b] = v], temps, scope \cup {b}, 0)
  <1> DEFINE n == [m EXCEPT !.mem[b] = v]
  <1>1. m.mem \in [Bindings -> Nat] /\ v \in Nat
    BY DEF Good, Machines
  <1>2. /\ n \in Machines /\ n.live = m.live
        /\ n.mem = [m.mem EXCEPT ![b] = v]
    BY <1>1 DEF Good, Machines
  <1> HIDE DEF n
  <1>3. /\ n.mem \in [Bindings -> Nat] /\ n.mem[b] = v
        /\ \A c \in Bindings \ {b} : n.mem[c] = m.mem[c]
    BY <1>1, <1>2
  <1>4. {n.mem[c] : c \in Bindings} \cup {0} = {m.mem[c] : c \in Bindings} \cup {v} \cup {0}
    BY <1>3
  <1>5. n.live = ({n.mem[c] : c \in Bindings} \cup temps \cup {0}) \ {0}
    BY <1>2, <1>4 DEF Good
  <1>6. Good(n, temps, scope \cup {b}, 0)
    BY <1>1, <1>2, <1>3, <1>5 DEF Good
  <1> QED BY <1>6 DEF n

\* The loose value is stored in a new temporary, or taken from one.
LEMMA TempGood ==
  ASSUME NEW m, NEW temps, NEW scope, NEW v, Good(m, temps, scope, v)
  PROVE  Good(m, temps \cup ({v} \ {0}), scope, 0)
  BY DEF Good

LEMMA LooseGood ==
  ASSUME NEW m, NEW temps, NEW scope, Good(m, temps, scope, 0), NEW v \in temps
  PROVE  Good(m, temps \ {v}, scope, v)
  <1>1. v \in Nat \ {0}
    BY DEF Good
  <1>2. (temps \ {v}) \cup {v} = temps
    OBVIOUS
  <1>3. m.live = ({m.mem[b] : b \in Bindings} \cup (temps \ {v}) \cup {v}) \ {0}
    BY <1>1, <1>2 DEF Good
  <1> QED BY <1>1, <1>3 DEF Good

\* Only bindings that hold something have to be in scope.
LEMMA ScopeGood ==
  ASSUME NEW m, NEW temps, NEW scope, NEW v, Good(m, temps, scope, v),
         NEW rest, \A b \in Bindings \cap scope : m.mem[b] = 0 \/ b \in rest
  PROVE  Good(m, temps, rest, v)
  BY DEF Good

-----------------------------------------------------------------------------
(* Storage *)

LEMMA PinnedFinite ==
  ASSUME FramesOK(stack)
  PROVE  IsFiniteSet(Pinned)
  <1> DEFINE loops == {j \in DOMAIN stack : stack[j].todo # <<>> /\ stack[j].todo[1].s = "each"}
             f == [i \in loops |-> stack[i].todo[1].items]
  <1>1. IsFiniteSet(loops)
    <2>1. PICK todos : stack \in Seq(Frames(todos))
      BY DEF FramesOK
    <2>2. Len(stack) \in Nat /\ DOMAIN stack = 1 .. Len(stack)
      BY <2>1
    <2>3. IsFiniteSet(1 .. Len(stack))
      BY <2>2, FS_Interval
    <2> QED BY <2>2, <2>3, FS_Subset
  <1>2. Pinned = {f[i] : i \in loops}
    BY DEF Pinned
  <1> HIDE DEF loops, f
  <1>3. f \in Surjection(loops, Pinned)
    <2>1. f = [i \in loops |-> f[i]]
      BY DEF f
    <2> QED BY <1>2, <2>1 DEF Surjection
  <1> QED BY <1>1, <1>3, FS_Surjection

\* An allocation is new: neither owned by a local nor gone through by a loop.
LEMMA AllocFresh ==
  ASSUME NEW m, IsFiniteSet(m.live), IsFiniteSet(Pinned)
  PROVE  Alloc(m) \in Nat \ {0} /\ Alloc(m) \notin m.live
  <1> DEFINE used == m.live \cup Pinned
             n == Cardinality(used)
  <1>1. IsFiniteSet(used)
    BY FS_Union
  <1>2. n \in Nat
    BY <1>1, FS_CardinalityType
  <1>3. Alloc(m) = CHOOSE id \in 1 .. n + 1 : id \notin used
    BY DEF Alloc
  <1>4. \E id \in 1 .. n + 1 : id \notin used
    <2> HIDE DEF used
    <2>1. SUFFICES ASSUME 1 .. n + 1 \subseteq used PROVE FALSE
      OBVIOUS
    <2>2. Cardinality(1 .. n + 1) <= n
      BY <1>1, <2>1, FS_Subset
    <2> HIDE DEF n
    <2>3. Cardinality(1 .. n + 1) = n + 1
      BY <1>2, FS_Interval
    <2> QED BY <1>2, <2>2, <2>3
  <1> HIDE DEF n
  <1>5. Alloc(m) \in 1 .. n + 1 /\ Alloc(m) \notin used
    BY <1>3, <1>4
  <1> QED BY <1>2, <1>5

\* New storage belongs to the loose value.
LEMMA NewGood ==
  ASSUME NEW m, NEW temps, NEW scope, Good(m, temps, scope, 0), FramesOK(stack),
         NEW id, id = Alloc(m)
  PROVE  Good([m EXCEPT !.live = @ \cup {id}], temps, scope, id)
  <1> DEFINE n == [m EXCEPT !.live = @ \cup {id}]
  <1>1. id \in Nat \ {0} /\ id \notin m.live
    BY PinnedFinite, AllocFresh DEF Good
  <1>2. n \in Machines /\ n.live = m.live \cup {id} /\ n.mem = m.mem
    BY <1>1 DEF Good, Machines
  <1> HIDE DEF n
  <1>3. IsFiniteSet(n.live)
    <2>1. IsFiniteSet(m.live)
      BY DEF Good
    <2> QED BY <1>2, <2>1, FS_AddElement
  <1>4. id \notin temps /\ \A b \in Bindings : m.mem[b] # id
    BY <1>1 DEF Good
  <1>5. n.live = ({n.mem[b] : b \in Bindings} \cup temps \cup {id}) \ {0}
    BY <1>1, <1>2 DEF Good
  <1>6. Good(n, temps, scope, id)
    BY <1>1, <1>2, <1>3, <1>4, <1>5 DEF Good
  <1> QED BY <1>6 DEF n

\* A callee that moves the storage of a binding frees the old one.
LEMMA RegrowGood ==
  ASSUME NEW m, NEW temps, NEW scope, Good(m, temps, scope, 0), FramesOK(stack),
         NEW b \in Bindings, b \in scope
  PROVE  Good(Regrow(m, b), temps, scope, 0)
  <1> DEFINE freed == Drop(m, m.mem[b])
             id == Alloc(m)
             n == Regrow(m, b)
             old == m.mem[b]
  <1>1. id \in Nat \ {0} /\ id \notin m.live
    BY PinnedFinite, AllocFresh DEF Good
  <1>2. m \in Machines /\ m.mem \in [Bindings -> Nat]
    BY DEF Good, Machines
  <1>3. /\ freed \in Machines /\ freed.mem = m.mem
        /\ freed.live = m.live \ {old}
    <2>1. CASE old = 0
      BY <1>2, <2>1 DEF Drop, Machines
    <2>2. CASE old # 0
      <3>1. old \in m.live
        BY <1>2, <2>2 DEF Good
      <3>2. freed = [m EXCEPT !.live = @ \ {old}]
        BY <2>2, <3>1 DEF Drop, Fault
      <3> QED BY <1>2, <3>2 DEF Machines
    <2> QED BY <2>1, <2>2
  <1>4. n = [freed EXCEPT !.live = @ \cup {id}, !.mem[b] = id]
    BY DEF Regrow
  <1> HIDE DEF freed, id, n
  <1>5. /\ n \in Machines /\ n.live = (m.live \ {old}) \cup {id}
        /\ n.mem = [m.mem EXCEPT ![b] = id]
    BY <1>1, <1>2, <1>3, <1>4 DEF Machines
  <1>6. /\ n.mem \in [Bindings -> Nat] /\ n.mem[b] = id
        /\ \A c \in Bindings \ {b} : n.mem[c] = m.mem[c]
    BY <1>1, <1>2, <1>5
  <1>7. IsFiniteSet(n.live)
    <2>1. IsFiniteSet(m.live)
      BY DEF Good
    <2>2. IsFiniteSet(m.live \ {old})
      BY <2>1, FS_Difference
    <2> QED BY <1>5, <2>2, FS_AddElement
  <1>8. id \notin temps /\ \A c \in Bindings : m.mem[c] # id
    BY <1>1 DEF Good
  <1>9. n.live = ({n.mem[c] : c \in Bindings} \cup temps \cup {0}) \ {0}
    <2>1. ASSUME NEW x \in n.live
          PROVE  x # 0 /\ x \in {n.mem[c] : c \in Bindings} \cup temps
      <3>1. CASE x = id
        BY <1>1, <1>6, <3>1
      <3>2. CASE x \in m.live /\ x # old
        <4>1. x # 0 /\ (x \in temps \/ \E c \in Bindings : x = m.mem[c])
          BY <3>2 DEF Good
        <4> QED BY <1>6, <3>2, <4>1
      <3> QED BY <1>5, <2>1, <3>1, <3>2
    <2>2. ASSUME NEW c \in Bindings, n.mem[c] # 0
          PROVE  n.mem[c] \in n.live
      <3>1. CASE c = b
        BY <1>5, <1>6, <3>1
      <3>2. CASE c # b
        <4>1. n.mem[c] = m.mem[c] /\ m.mem[c] \in m.live /\ m.mem[c] # old
          BY <1>6, <2>2, <3>2 DEF Good
        <4> QED BY <1>5, <4>1
      <3> QED BY <3>1, <3>2
    <2>3. ASSUME NEW x \in temps
          PROVE  x # 0 /\ x \in n.live
      <3>1. x # 0 /\ x \in m.live /\ x # old
        BY <2>3, <1>2 DEF Good
      <3> QED BY <1>5, <3>1
    <2> QED BY <2>1, <2>2, <2>3
  <1>10. Good(n, temps, scope, 0)
    <2>1. \A c, d \in Bindings : n.mem[c] = n.mem[d] /\ n.mem[c] # 0 => c = d
      BY <1>6, <1>8 DEF Good
    <2>2. \A c \in Bindings : n.mem[c] # 0 => c \in scope /\ n.mem[c] \notin temps
      BY <1>6, <1>8 DEF Good
    <2> QED BY <1>5, <1>7, <1>9, <2>1, <2>2 DEF Good
  <1> QED BY <1>10 DEF n

\* An expression leaves its value loose.
LEMMA EvalGood ==
  ASSUME NEW m, NEW temps, NEW scope, Good(m, temps, scope, 0), FramesOK(stack),
         NEW e, e.e = "name" => e.b \in Bindings
  PROVE  Good(Eval(m, e).m, temps, scope, Eval(m, e).value)
  <1>1. CASE e.e = "name"
    <2>1. Eval(m, e) = [m |-> TakeLocal(m, e.b), value |-> m.mem[e.b]]
      BY <1>1 DEF Eval
    <2> QED BY <1>1, <2>1, TakeGood
  <1>2. CASE e.e \in {"new", "call"}
    <2> DEFINE id == Alloc(m)
    <2>1. Eval(m, e) = [m |-> [m EXCEPT !.live = @ \cup {id}], value |-> id]
      BY <1>2 DEF Eval
    <2> HIDE DEF id
    <2>2. Good([m EXCEPT !.live = @ \cup {id}], temps, scope, id)
      BY NewGood DEF id
    <2> QED BY <2>1, <2>2
  <1>3. CASE e.e \notin {"name", "new", "call"}
    BY <1>3 DEF Eval
  <1> QED BY <1>1, <1>2, <1>3

-----------------------------------------------------------------------------
(* Frames *)

\* The frames below the innermost one.
LEMMA TailOK ==
  ASSUME NEW frames, FramesOK(frames), frames # <<>>
  PROVE  /\ FramesOK(Tail(frames))
         /\ ScopeOf(frames) = Head(frames).scope \cup ScopeOf(Tail(frames))
         /\ TempsOf(frames) = ({Head(frames).temp} \cup TempsOf(Tail(frames))) \ {0}
         /\ Head(frames).temp \notin TempsOf(Tail(frames))
         /\ Head(frames).scope \subseteq Head(frames).owns
         /\ \E todos : Head(frames) \in Frames(todos)
         /\ Tail(frames) = <<>> => Head(frames).kind # "loop"
  <1> DEFINE h == Head(frames)
             rest == Tail(frames)
  <1>1. PICK todos : frames \in Seq(Frames(todos))
    BY DEF FramesOK
  <1>2. /\ Len(frames) \in Nat \ {0} /\ DOMAIN frames = 1 .. Len(frames)
        /\ h = frames[1] /\ h \in Frames(todos)
        /\ rest \in Seq(Frames(todos)) /\ Len(rest) = Len(frames) - 1
        /\ DOMAIN rest = 1 .. Len(frames) - 1
        /\ \A i \in DOMAIN rest : rest[i] = frames[i + 1]
    BY <1>1
  <1> HIDE DEF h, rest
  <1>3. \A i \in DOMAIN frames : i = 1 \/ (i - 1 \in DOMAIN rest /\ frames[i] = rest[i - 1])
    BY <1>2
  <1>4. \A i \in DOMAIN rest : i + 1 \in DOMAIN frames
    BY <1>2
  <1>5. FramesOK(rest)
    <2>1. \A i \in DOMAIN rest : rest[i].scope \subseteq rest[i].owns
      BY <1>2, <1>4 DEF FramesOK
    <2>2. \A i, j \in DOMAIN rest : rest[i].temp = rest[j].temp /\ rest[i].temp # 0 => i = j
      <3> SUFFICES ASSUME NEW i \in DOMAIN rest, NEW j \in DOMAIN rest,
                          rest[i].temp = rest[j].temp, rest[i].temp # 0
                   PROVE  i = j
        OBVIOUS
      <3>1. i + 1 = j + 1
        BY <1>2, <1>4 DEF FramesOK
      <3> QED BY <1>2, <3>1
    <2>3. rest # <<>> => rest[Len(rest)].kind # "loop"
      <3> SUFFICES ASSUME rest # <<>> PROVE rest[Len(rest)].kind # "loop"
        OBVIOUS
      <3>1. Len(rest) \in DOMAIN rest /\ Len(rest) + 1 = Len(frames)
        BY <1>2
      <3> QED BY <1>2, <3>1 DEF FramesOK
    <2> QED BY <1>2, <2>1, <2>2, <2>3 DEF FramesOK
  <1>6. ScopeOf(frames) = h.scope \cup ScopeOf(rest)
    BY <1>2, <1>3, <1>4 DEF ScopeOf
  <1>7. TempsOf(frames) = ({h.temp} \cup TempsOf(rest)) \ {0}
    BY <1>2, <1>3, <1>4 DEF TempsOf
  <1>8. h.temp \notin TempsOf(rest)
    <2> SUFFICES ASSUME NEW i \in DOMAIN rest, rest[i].temp = h.temp, h.temp # 0
                 PROVE  FALSE
      BY DEF TempsOf
    <2>1. i + 1 \in DOMAIN frames /\ frames[i + 1].temp = frames[1].temp /\ 1 \in DOMAIN frames
      BY <1>2, <1>4
    <2>2. i + 1 = 1
      BY <1>2, <2>1 DEF FramesOK
    <2> QED BY <1>2, <2>2
  <1>9. h.scope \subseteq h.owns
    BY <1>2 DEF FramesOK
  <1>10. rest = <<>> => h.kind # "loop"
    <2> SUFFICES ASSUME rest = <<>> PROVE h.kind # "loop"
      OBVIOUS
    <2>1. Len(rest) = 0
      OBVIOUS
    <2>2. Len(frames) = 1
      <3>1. Len(frames) \in Nat /\ Len(frames) - 1 = 0
        BY <1>2, <2>1
      <3> QED BY <3>1
    <2> QED BY <1>2, <2>2 DEF FramesOK
  <1> QED BY <1>2, <1>5, <1>6, <1>7, <1>8, <1>9, <1>10 DEF h, rest

\* A frame on top of others.
LEMMA PushOK ==
  ASSUME NEW frames, FramesOK(frames), NEW todos, NEW top \in Frames(todos),
         top.scope \subseteq top.owns, top.temp \notin TempsOf(frames),
         frames = <<>> => top.kind # "loop"
  PROVE  /\ FramesOK(<<top>> \o frames) /\ <<top>> \o frames # <<>>
         /\ ScopeOf(<<top>> \o frames) = top.scope \cup ScopeOf(frames)
         /\ TempsOf(<<top>> \o frames) = ({top.temp} \cup TempsOf(frames)) \ {0}
         /\ Head(<<top>> \o frames) = top
  <1> DEFINE new == <<top>> \o frames
  <1>1. PICK others : frames \in Seq(Frames(others))
    BY DEF FramesOK
  <1> DEFINE all == Frames(todos \cup others)
  <1>2. Frames(todos) \subseteq all /\ Frames(others) \subseteq all
    BY DEF Frames
  <1> HIDE DEF all
  <1>3. top \in all /\ frames \in Seq(all)
    BY <1>1, <1>2
  <1>4. /\ Len(frames) \in Nat /\ DOMAIN frames = 1 .. Len(frames)
        /\ new \in Seq(all) /\ Len(new) = Len(frames) + 1
        /\ DOMAIN new = 1 .. Len(frames) + 1 /\ new[1] = top
        /\ \A i \in DOMAIN frames : new[i + 1] = frames[i]
    BY <1>3
  <1> HIDE DEF new
  <1>5. \A i \in DOMAIN new :
          i = 1 \/ (i - 1 \in DOMAIN frames /\ new[i] = frames[i - 1])
    BY <1>4
  <1>6. \A i \in DOMAIN frames : i + 1 \in DOMAIN new
    BY <1>4
  <1>7. FramesOK(new)
    <2>1. \A i \in DOMAIN new : new[i].scope \subseteq new[i].owns
      BY <1>4, <1>5 DEF FramesOK
    <2>2. \A i, j \in DOMAIN new : new[i].temp = new[j].temp /\ new[i].temp # 0 => i = j
      <3> SUFFICES ASSUME NEW i \in DOMAIN new, NEW j \in DOMAIN new,
                          new[i].temp = new[j].temp, new[i].temp # 0
                   PROVE  i = j
        OBVIOUS
      <3>1. ASSUME NEW k \in DOMAIN new, k # 1, new[k].temp # 0
            PROVE  new[k].temp # top.temp
        BY <1>5, <3>1 DEF TempsOf
      <3>2. CASE i = 1 \/ j = 1
        BY <1>4, <3>1, <3>2
      <3>3. CASE i # 1 /\ j # 1
        <4>1. i - 1 = j - 1
          BY <1>5, <3>3 DEF FramesOK
        <4> QED BY <1>4, <4>1
      <3> QED BY <3>2, <3>3
    <2>3. new[Len(new)].kind # "loop"
      <3>1. CASE frames = <<>>
        BY <1>4, <3>1
      <3>2. CASE frames # <<>>
        <4>1. Len(frames) \in DOMAIN frames
          BY <1>3, <1>4, <3>2
        <4> QED BY <1>4, <3>2, <4>1 DEF FramesOK
      <3> QED BY <3>1, <3>2
    <2> QED BY <1>4, <2>1, <2>2, <2>3 DEF FramesOK, all
  <1>8. ScopeOf(new) = top.scope \cup ScopeOf(frames)
    <2>1. ASSUME NEW b \in ScopeOf(new)
          PROVE  b \in top.scope \cup ScopeOf(frames)
      <3>1. PICK i \in DOMAIN new : b \in new[i].scope
        BY DEF ScopeOf
      <3> QED BY <1>4, <1>5, <3>1 DEF ScopeOf
    <2>2. ASSUME NEW i \in DOMAIN frames
          PROVE  frames[i].scope \subseteq ScopeOf(new)
      BY <1>4, <1>6 DEF ScopeOf
    <2>3. top.scope \subseteq ScopeOf(new)
      <3>1. 1 \in DOMAIN new
        BY <1>4
      <3> QED BY <1>4, <3>1 DEF ScopeOf
    <2>4. ScopeOf(frames) \subseteq ScopeOf(new)
      BY <2>2 DEF ScopeOf
    <2> QED BY <2>1, <2>3, <2>4
  <1>9. TempsOf(new) = ({top.temp} \cup TempsOf(frames)) \ {0}
    BY <1>4, <1>5, <1>6 DEF TempsOf
  <1>10. new # <<>> /\ Head(new) = top
    BY <1>4
  <1> QED BY <1>7, <1>8, <1>9, <1>10 DEF new

\* The innermost frame replaced by one that owns the same and declares more.
LEMMA ReplaceOK ==
  ASSUME NEW frames, FramesOK(frames), frames # <<>>,
         NEW todos, NEW top \in Frames(todos),
         top.temp = Head(frames).temp, top.kind = Head(frames).kind,
         Head(frames).scope \subseteq top.scope, top.scope \subseteq top.owns
  PROVE  /\ FramesOK(<<top>> \o Tail(frames)) /\ <<top>> \o Tail(frames) # <<>>
         /\ ScopeOf(<<top>> \o Tail(frames)) = ScopeOf(frames) \cup top.scope
         /\ TempsOf(<<top>> \o Tail(frames)) = TempsOf(frames)
  <1> DEFINE rest == Tail(frames)
  <1>1. /\ FramesOK(rest)
        /\ ScopeOf(frames) = Head(frames).scope \cup ScopeOf(rest)
        /\ TempsOf(frames) = ({top.temp} \cup TempsOf(rest)) \ {0}
        /\ top.temp \notin TempsOf(rest)
        /\ rest = <<>> => top.kind # "loop"
    BY TailOK
  <1> HIDE DEF rest
  <1>2. /\ FramesOK(<<top>> \o rest) /\ <<top>> \o rest # <<>>
        /\ ScopeOf(<<top>> \o rest) = top.scope \cup ScopeOf(rest)
        /\ TempsOf(<<top>> \o rest) = ({top.temp} \cup TempsOf(rest)) \ {0}
    BY <1>1, PushOK
  <1> QED BY <1>1, <1>2 DEF rest

\* A block goes on behind its first statement, which may have declared
\* some of its locals.
LEMMA PastOK ==
  ASSUME NEW frames, FramesOK(frames), frames # <<>>,
         NEW declared, declared \subseteq Head(frames).owns
  PROVE  /\ FramesOK(Past(frames, declared)) /\ Past(frames, declared) # <<>>
         /\ ScopeOf(Past(frames, declared)) = ScopeOf(frames) \cup declared
         /\ TempsOf(Past(frames, declared)) = TempsOf(frames)
  <1> DEFINE h == Head(frames)
             top == [h EXCEPT !.todo = Tail(@), !.scope = @ \cup declared]
  <1>1. PICK todos : h \in Frames(todos)
    BY TailOK
  <1>2. /\ top \in Frames({Tail(h.todo)})
        /\ top.scope = h.scope \cup declared /\ top.owns = h.owns
        /\ top.temp = h.temp /\ top.kind = h.kind
    BY <1>1 DEF Frames
  <1>3. Past(frames, declared) = <<top>> \o Tail(frames)
    BY DEF Past
  <1>4. h.scope \subseteq h.owns /\ h.scope \subseteq ScopeOf(frames)
    BY TailOK
  <1> HIDE DEF top
  <1>5. /\ FramesOK(<<top>> \o Tail(frames)) /\ <<top>> \o Tail(frames) # <<>>
        /\ ScopeOf(<<top>> \o Tail(frames)) = ScopeOf(frames) \cup top.scope
        /\ TempsOf(<<top>> \o Tail(frames)) = TempsOf(frames)
    BY <1>2, <1>4, ReplaceOK
  <1> QED BY <1>2, <1>3, <1>4, <1>5

\* A jump out of a loop: the temporaries around it are zeroed, and what was
\* in scope is owned by a block it leaves or still in scope behind it.
LEMMA JumpOK ==
  ASSUME NEW frames, FramesOK(frames), NEW k \in DOMAIN frames,
         frames[k].kind = "loop"
  PROVE  LET outer == SubSeq(frames, k + 1, Len(frames))
             kept == [i \in DOMAIN outer |-> [outer[i] EXCEPT !.temp = 0]]
             inner == SubSeq(frames, 1, k)
         IN  /\ FramesOK(kept) /\ kept # <<>> /\ TempsOf(kept) = {}
             /\ ScopeOf(frames) \subseteq OwnedBy(inner) \cup ScopeOf(kept)
             /\ OwnedBy(inner) \subseteq Bindings
  <1> DEFINE outer == SubSeq(frames, k + 1, Len(frames))
             kept == [i \in DOMAIN outer |-> [outer[i] EXCEPT !.temp = 0]]
             inner == SubSeq(frames, 1, k)
             n == Len(frames)
  <1>1. PICK todos : frames \in Seq(Frames(todos))
    BY DEF FramesOK
  <1>2. /\ n \in Nat /\ DOMAIN frames = 1 .. n /\ k \in 1 .. n
        /\ \A i \in 1 .. n : frames[i] \in Frames(todos)
    BY <1>1
  <1>3. k # n
    BY <1>1, <1>2 DEF FramesOK
  <1>4. /\ DOMAIN outer = 1 .. n - k
        /\ \A i \in 1 .. n - k : i + k \in 1 .. n /\ outer[i] = frames[i + k]
    BY <1>1, <1>2
  <1>5. /\ DOMAIN inner = 1 .. k
        /\ \A i \in 1 .. k : i \in 1 .. n /\ inner[i] = frames[i]
    BY <1>1, <1>2
  <1>6. kept = [i \in 1 .. n - k |-> [frames[i + k] EXCEPT !.temp = 0]]
    BY <1>4
  <1> HIDE DEF outer, inner, kept
  <1>7. \A i \in 1 .. n - k :
          /\ kept[i] \in Frames(todos) /\ kept[i].temp = 0
          /\ kept[i].scope = frames[i + k].scope /\ kept[i].owns = frames[i + k].owns
          /\ kept[i].kind = frames[i + k].kind
    <2> SUFFICES ASSUME NEW i \in 1 .. n - k
                 PROVE  /\ kept[i] \in Frames(todos) /\ kept[i].temp = 0
                        /\ kept[i].scope = frames[i + k].scope
                        /\ kept[i].owns = frames[i + k].owns
                        /\ kept[i].kind = frames[i + k].kind
      OBVIOUS
    <2> DEFINE h == frames[i + k]
    <2>1. h \in Frames(todos)
      BY <1>2, <1>4
    <2>2. kept[i] = [h EXCEPT !.temp = 0]
      BY <1>6
    <2> HIDE DEF h
    <2>3. /\ kept[i] \in Frames(todos) /\ kept[i].temp = 0
          /\ kept[i].scope = h.scope /\ kept[i].owns = h.owns /\ kept[i].kind = h.kind
      BY <2>1, <2>2 DEF Frames
    <2> QED BY <2>3 DEF h
  <1> HIDE DEF n
  <1>8. n - k \in Nat \ {0} /\ k \in Nat
    BY <1>2, <1>3
  <1>9. kept \in Seq(Frames(todos)) /\ DOMAIN kept = 1 .. n - k /\ Len(kept) = n - k
    <2> DEFINE l == n - k
    <2>1. kept = [i \in 1 .. l |-> kept[i]]
      BY <1>6
    <2>2. \A i \in 1 .. l : kept[i] \in Frames(todos)
      BY <1>7
    <2>3. l \in Nat
      BY <1>8
    <2> HIDE DEF l
    <2>4. kept \in [1 .. l -> Frames(todos)]
      BY <2>1, <2>2
    <2>5. kept \in Seq(Frames(todos)) /\ DOMAIN kept = 1 .. l /\ Len(kept) = l
      BY <2>3, <2>4
    <2> QED BY <2>5 DEF l
  <1>10. FramesOK(kept)
    <2>1. \A i \in DOMAIN kept : kept[i].scope \subseteq kept[i].owns
      <3> SUFFICES ASSUME NEW i \in 1 .. n - k PROVE kept[i].scope \subseteq kept[i].owns
        BY <1>9
      <3>1. i + k \in DOMAIN frames
        BY <1>2, <1>4 DEF n
      <3>2. frames[i + k].scope \subseteq frames[i + k].owns
        BY <3>1 DEF FramesOK
      <3> QED BY <1>7, <3>2
    <2>2. kept[Len(kept)].kind # "loop"
      <3>1. n - k \in 1 .. n - k /\ (n - k) + k = n
        BY <1>2, <1>8
      <3>2. frames # <<>>
        BY <1>2, <1>8 DEF n
      <3> QED BY <1>7, <1>9, <3>1, <3>2 DEF FramesOK, n
    <2> QED BY <1>7, <1>9, <2>1, <2>2 DEF FramesOK
  <1>11. kept # <<>>
    BY <1>8, <1>9
  <1>12. TempsOf(kept) = {}
    BY <1>7, <1>9 DEF TempsOf
  <1>13. ScopeOf(frames) \subseteq OwnedBy(inner) \cup ScopeOf(kept)
    <2> SUFFICES ASSUME NEW i \in 1 .. n, NEW b \in frames[i].scope
                 PROVE  b \in OwnedBy(inner) \cup ScopeOf(kept)
      BY <1>2 DEF ScopeOf
    <2>1. CASE i <= k
      <3>1. i \in 1 .. k /\ b \in inner[i].owns
        BY <1>2, <1>5, <1>8, <2>1 DEF FramesOK
      <3> QED BY <1>5, <3>1 DEF OwnedBy
    <2>2. CASE i > k
      <3>1. i - k \in 1 .. n - k /\ (i - k) + k = i
        BY <1>2, <1>8, <2>2
      <3>2. b \in kept[i - k].scope
        BY <1>7, <3>1
      <3> QED BY <1>9, <3>1, <3>2 DEF ScopeOf
    <2>3. i \in Int /\ k \in Int
      BY <1>2
    <2> QED BY <2>1, <2>2, <2>3
  <1>14. OwnedBy(inner) \subseteq Bindings
    <2>1. \A i \in 1 .. k : inner[i].owns \subseteq Bindings
      BY <1>2, <1>5 DEF Frames
    <2> QED BY <1>5, <2>1 DEF OwnedBy
  <1> QED BY <1>10, <1>11, <1>12, <1>13, <1>14 DEF outer, kept, inner

\* All blocks together own bindings only, and all that is in scope.
LEMMA OwnedOK ==
  ASSUME NEW frames, FramesOK(frames)
  PROVE  ScopeOf(frames) \subseteq OwnedBy(frames) /\ OwnedBy(frames) \subseteq Bindings
  <1>1. PICK todos : frames \in Seq(Frames(todos))
    BY DEF FramesOK
  <1>2. \A i \in DOMAIN frames : frames[i] \in Frames(todos)
    BY <1>1
  <1>3. \A i \in DOMAIN frames : frames[i].owns \subseteq Bindings
    BY <1>2 DEF Frames
  <1> QED BY <1>3 DEF FramesOK, ScopeOf, OwnedBy

\* The loop a jump leaves is one of the frames.
LEMMA ExitFrame ==
  ASSUME FramesOK(stack), InLoop
  PROVE  /\ ExitDepth \in DOMAIN stack /\ stack[ExitDepth].kind = "loop"
         /\ \A i \in 1 .. ExitDepth - 1 : stack[i].kind # "loop"
  <1> DEFINE loops == {k \in DOMAIN stack : stack[k].kind = "loop"}
  <1>1. PICK todos : stack \in Seq(Frames(todos))
    BY DEF FramesOK
  <1>2. Len(stack) \in Nat /\ DOMAIN stack = 1 .. Len(stack)
    BY <1>1
  <1>3. loops \in SUBSET Nat /\ loops # {}
    BY <1>2 DEF InLoop
  <1>4. PICK k \in loops : \A i \in loops : <<i, k>> \notin OpToRel(<, Nat)
    BY <1>3, NatLessThanWellFounded, WFMin, Zenon
  <1>5. \A i \in 1 .. k - 1 : stack[i].kind # "loop"
    <2> SUFFICES ASSUME NEW i \in 1 .. k - 1, stack[i].kind = "loop" PROVE FALSE
      OBVIOUS
    <2>1. k \in 1 .. Len(stack)
      BY <1>2, <1>4
    <2>2. i \in loops /\ i < k /\ i \in Nat /\ k \in Nat
      BY <1>2, <2>1
    <2> HIDE DEF loops
    <2> QED BY <1>4, <2>2 DEF OpToRel
  <1> QED BY <1>4, <1>5 DEF ExitDepth

-----------------------------------------------------------------------------
(* Steps *)

\* While a body runs nothing is loose between its steps.
LEMMA Running ==
  ASSUME Inv, stack # <<>>
  PROVE  /\ FramesOK(stack) /\ result = 0
         /\ Good(Machine, TempsOf(stack), ScopeOf(stack), 0)
         /\ ScopeOf(stack) \subseteq Bindings
         /\ Head(stack).owns \subseteq Bindings
         /\ Machine.mem = mem
  <1>1. PICK todos : Head(stack) \in Frames(todos)
    BY TailOK DEF Inv
  <1> QED BY <1>1, OwnedOK DEF Inv, Frames, Machine

\* What a step that applies a machine has to show.
LEMMA Applied ==
  ASSUME NEW m, Apply(m), FramesOK(stack'),
         Good(m, TempsOf(stack'), ScopeOf(stack'), result'),
         stack' # <<>> => result' = 0
  PROVE  Inv'
  <1>1. m = [mem |-> m.mem, live |-> m.live, faults |-> m.faults]
    BY DEF Good, Machines
  <1>2. Machine' = m
    BY <1>1 DEF Apply, Machine
  <1>3. Good(Machine', TempsOf(stack'), ScopeOf(stack'), result')
    BY <1>2
  <1> QED BY <1>3 DEF Inv

\* The expression of a statement leaves its value loose.
LEMMA Evaluated ==
  ASSUME Inv, stack # <<>>, NEW e, Evaluable(e)
  PROVE  Good(Eval(Machine, e).m, TempsOf(stack), ScopeOf(stack), Eval(Machine, e).value)
  BY Running, EvalGood DEF Evaluable

\* A binding out of scope holds nothing.
LEMMA Undeclared ==
  ASSUME NEW m, NEW temps, NEW scope, NEW v, Good(m, temps, scope, v),
         NEW b \in Bindings \ scope
  PROVE  m.mem[b] = 0
  BY DEF Good

\* The loose value replaces what a binding holds.
LEMMA ReplaceGood ==
  ASSUME NEW m, NEW temps, NEW scope, NEW v, Good(m, temps, scope, v),
         NEW b \in Bindings
  PROVE  /\ Good(DropLocals(m, {b}), temps, scope, v)
         /\ Good([DropLocals(m, {b}) EXCEPT !.mem[b] = v], temps, scope \cup {b}, 0)
  <1>1. /\ Good(DropLocals(m, {b}), temps, scope, v)
        /\ DropLocals(m, {b}).mem[b] = 0
    BY LocalsGood
  <1> QED BY <1>1, PutGood

\* Lowering a call: arguments are moved and dropped, borrowed storage may be
\* replaced.
LEMMA CallInv ==
  ASSUME Inv, BeginCall \/ PassArgument \/ RunCall
  PROVE  Inv'
  <1>1. CASE BeginCall
    <2>1. UNCHANGED <<stack, mem, live, faults, result>>
      BY <1>1 DEF BeginCall
    <2> QED BY <2>1 DEF Inv, Machine, FramesOK, Good, TempsOf, ScopeOf
  <1>2. CASE PassArgument
    <2>1. UNCHANGED <<stack, result>>
      BY <1>2 DEF PassArgument
    <2>2. CASE Argument.e = "name"
      <3> DEFINE b == Argument.b
      <3>1. /\ b \in ScopeOf(stack)
            /\ Apply(Drop(TakeLocal(Machine, b), mem[b]))
        BY <1>2, <2>2 DEF PassArgument
      <3> HIDE DEF b
      <3>2. stack # <<>>
        BY <3>1 DEF ScopeOf
      <3>3. Good(TakeLocal(Machine, b), TempsOf(stack), ScopeOf(stack), mem[b])
        BY <3>1, <3>2, Running, TakeGood
      <3>4. Good(Drop(TakeLocal(Machine, b), mem[b]), TempsOf(stack), ScopeOf(stack), 0)
        BY <3>3, DropGood
      <3>5. FramesOK(stack) /\ result = 0
        BY <3>2, Running
      <3> QED BY <2>1, <3>1, <3>4, <3>5, Applied
    <2>3. CASE Argument.e # "name"
      <3>1. Apply(Machine)
        BY <1>2, <2>3 DEF PassArgument
      <3> QED BY <2>1, <3>1, Applied DEF Inv
    <2> QED BY <2>2, <2>3
  <1>3. CASE RunCall
    <2>1. UNCHANGED <<stack, result>>
      BY <1>3 DEF RunCall
    <2>2. PICK seen, b, moved, shared :
            /\ seen = Fault(Fault(Machine, moved, "moved"), shared, "alias")
            /\ \/ Apply(seen)
               \/ b \in ScopeOf(stack) /\ Apply(Regrow(seen, b))
      BY <1>3 DEF RunCall
    <2>3. Good(seen, TempsOf(stack), ScopeOf(stack), result)
      BY <2>2, FaultGood DEF Inv
    <2>4. CASE Apply(seen)
      BY <2>1, <2>3, <2>4, Applied DEF Inv
    <2>5. CASE b \in ScopeOf(stack) /\ Apply(Regrow(seen, b))
      <3>1. stack # <<>>
        BY <2>5 DEF ScopeOf
      <3>2. FramesOK(stack) /\ result = 0 /\ b \in Bindings
        BY <2>5, <3>1, Running
      <3>3. Good(Regrow(seen, b), TempsOf(stack), ScopeOf(stack), 0)
        BY <2>3, <2>5, <3>2, RegrowGood
      <3> QED BY <2>1, <2>5, <3>2, <3>3, Applied
    <2> QED BY <2>2, <2>4, <2>5
  <1> QED BY <1>1, <1>2, <1>3

\* A block goes on behind its first statement, which declared nothing.
LEMMA Onwards ==
  ASSUME NEW frames, FramesOK(frames), frames # <<>>
  PROVE  /\ FramesOK(Past(frames, {})) /\ Past(frames, {}) # <<>>
         /\ ScopeOf(Past(frames, {})) = ScopeOf(frames)
         /\ TempsOf(Past(frames, {})) = TempsOf(frames)
  <1>1. {} \subseteq Head(frames).owns
    OBVIOUS
  <1>2. /\ FramesOK(Past(frames, {})) /\ Past(frames, {}) # <<>>
        /\ ScopeOf(Past(frames, {})) = ScopeOf(frames) \cup {}
        /\ TempsOf(Past(frames, {})) = TempsOf(frames)
    BY <1>1, PastOK
  <1>3. ScopeOf(frames) \cup {} = ScopeOf(frames)
    OBVIOUS
  <1> QED BY <1>2, <1>3

\* A block goes on behind a statement that declared a binding.
LEMMA Declared ==
  ASSUME Inv, stack # <<>>, NEW b, Declares(b)
  PROVE  /\ b \in Bindings \ ScopeOf(stack)
         /\ FramesOK(Past(stack, {b})) /\ Past(stack, {b}) # <<>>
         /\ ScopeOf(Past(stack, {b})) = ScopeOf(stack) \cup {b}
         /\ TempsOf(Past(stack, {b})) = TempsOf(stack)
  <1>1. b \in Head(stack).owns /\ b \notin ScopeOf(stack)
    BY DEF Declares
  <1>2. FramesOK(stack) /\ b \in Bindings
    BY <1>1, Running
  <1>3. {b} \subseteq Head(stack).owns
    BY <1>1
  <1> QED BY <1>1, <1>2, <1>3, PastOK

\* A block without declarations and without a temporary is entered.
LEMMA BlockOK ==
  ASSUME NEW frames, FramesOK(frames), frames # <<>>, NEW kind \in Kinds, NEW block
  PROVE  /\ FramesOK(<<Frame(kind, block, {}, 0)>> \o frames)
         /\ TempsOf(<<Frame(kind, block, {}, 0)>> \o frames) = TempsOf(frames)
         /\ ScopeOf(<<Frame(kind, block, {}, 0)>> \o frames) = ScopeOf(frames)
  <1> DEFINE top == Frame(kind, block, {}, 0)
  <1>1. /\ top \in Frames({block}) /\ top.scope \subseteq top.owns
        /\ top.scope = {} /\ top.temp = 0
    BY DEF Frame, Frames, Locals
  <1> HIDE DEF top
  <1>2. top.temp \notin TempsOf(frames)
    BY <1>1 DEF TempsOf
  <1>3. /\ FramesOK(<<top>> \o frames)
        /\ ScopeOf(<<top>> \o frames) = top.scope \cup ScopeOf(frames)
        /\ TempsOf(<<top>> \o frames) = ({top.temp} \cup TempsOf(frames)) \ {0}
    BY <1>1, <1>2, PushOK
  <1>4. /\ ScopeOf(<<top>> \o frames) = ScopeOf(frames)
        /\ TempsOf(<<top>> \o frames) = TempsOf(frames)
    BY <1>1, <1>2, <1>3 DEF TempsOf
  <1> QED BY <1>3, <1>4 DEF top

\* Statements that only read, and enter or leave blocks without temporaries.
LEMMA ReadInv ==
  ASSUME Inv, ExprStep \/ IfStep \/ WhileStep \/ ForStep \/ EachStep
  PROVE  Inv'
  <1> DEFINE T == TempsOf(stack)
             S == ScopeOf(stack)
  <1>1. stack # <<>> /\ result' = result
    BY DEF ExprStep, IfStep, WhileStep, ForStep, EachStep, At
  <1>2. FramesOK(stack) /\ result = 0 /\ Good(Machine, T, S, 0)
    BY <1>1, Running
  <1>3. /\ FramesOK(Past(stack, {})) /\ Past(stack, {}) # <<>>
        /\ ScopeOf(Past(stack, {})) = S /\ TempsOf(Past(stack, {})) = T
    BY <1>1, <1>2, Onwards
  <1>4. PICK m : Apply(m) /\ Good(m, T, S, 0)
    <2>1. \A e : Good(Inspect(Machine, e), T, S, 0)
      BY <1>2, FaultGood DEF Inspect
    <2>2. CASE EachStep
      <3>1. Apply(Fault(Machine, Stmt.items \notin live \cup {0}, "freed")) \/ Apply(Machine)
        BY <2>2 DEF EachStep, Apply, Machine
      <3> QED BY <1>2, <3>1, FaultGood
    <2> QED BY <2>1, <2>2 DEF ExprStep, IfStep, WhileStep, ForStep
  <1>5. FramesOK(stack') /\ TempsOf(stack') = T /\ ScopeOf(stack') = S
    <2>1. CASE stack' = Past(stack, {})
      BY <1>3, <2>1
    <2>2. CASE \E block : stack' = <<Frame("block", block, {}, 0)>> \o Past(stack, {})
      <3>1. PICK block : stack' = <<Frame("block", block, {}, 0)>> \o Past(stack, {})
        BY <2>2
      <3>2. "block" \in Kinds
        BY DEF Kinds
      <3> QED BY <1>3, <3>1, <3>2, BlockOK
    <2>3. CASE \E block : stack' = <<Frame("loop", block, {}, 0)>> \o stack
      <3>1. PICK block : stack' = <<Frame("loop", block, {}, 0)>> \o stack
        BY <2>3
      <3>2. "loop" \in Kinds
        BY DEF Kinds
      <3> QED BY <1>1, <1>2, <3>1, <3>2, BlockOK
    <2>4. CASE ForStep
      <3> DEFINE h == Head(stack)
                 todo == <<[s |-> "each", items |-> mem[Stmt.x.b], body |-> Stmt.body]>>
                           \o Tail(h.todo)
                 top == [h EXCEPT !.todo = todo]
      <3>1. stack' = <<top>> \o Tail(stack)
        BY <2>4 DEF ForStep
      <3>2. /\ \E todos : Head(stack) \in Frames(todos)
            /\ Head(stack).scope \subseteq Head(stack).owns
            /\ S = Head(stack).scope \cup ScopeOf(Tail(stack))
        BY <1>1, <1>2, TailOK
      <3>3. PICK todos : h \in Frames(todos)
        BY <3>2
      <3> HIDE DEF todo
      <3>4. /\ top \in Frames({todo}) /\ top.temp = Head(stack).temp
            /\ top.kind = Head(stack).kind
            /\ top.scope = Head(stack).scope /\ top.owns = Head(stack).owns
        BY <3>3 DEF Frames
      <3> HIDE DEF top, h
      <3>5. /\ FramesOK(<<top>> \o Tail(stack))
            /\ ScopeOf(<<top>> \o Tail(stack)) = S \cup top.scope
            /\ TempsOf(<<top>> \o Tail(stack)) = T
        BY <1>1, <1>2, <3>2, <3>4, ReplaceOK
      <3> QED BY <3>1, <3>2, <3>4, <3>5
    <2> QED BY <2>1, <2>2, <2>3, <2>4 DEF ExprStep, IfStep, WhileStep, EachStep
  <1> QED BY <1>1, <1>2, <1>4, <1>5, Applied

\* Statements that store what their expression yields.
LEMMA StoreInv ==
  ASSUME Inv, LetStep \/ AssignStep
  PROVE  Inv'
  <1> DEFINE T == TempsOf(stack)
             S == ScopeOf(stack)
             b == Stmt.b
             v == Eval(Machine, Stmt.x)
  <1>1. stack # <<>> /\ result' = result /\ Evaluable(Stmt.x)
    BY DEF LetStep, AssignStep, At, Storable
  <1>2. FramesOK(stack) /\ result = 0 /\ S \subseteq Bindings
    BY <1>1, Running
  <1>3. Good(v.m, T, S, v.value)
    BY <1>1, Evaluated
  <1>4. CASE LetStep
    <2>1. /\ Declares(b) /\ stack' = Past(stack, {b})
          /\ Apply([v.m EXCEPT !.mem[b] = v.value])
      BY <1>4 DEF LetStep
    <2> HIDE DEF b, v
    <2>2. /\ b \in Bindings \ S /\ FramesOK(stack')
          /\ ScopeOf(stack') = S \cup {b} /\ TempsOf(stack') = T
      BY <1>1, <2>1, Declared
    <2>3. v.m.mem[b] = 0
      BY <1>3, <2>2, Undeclared
    <2>4. Good([v.m EXCEPT !.mem[b] = v.value], T, S \cup {b}, 0)
      BY <1>3, <2>2, <2>3, PutGood
    <2> QED BY <1>1, <1>2, <2>1, <2>2, <2>4, Applied
  <1>5. CASE AssignStep
    <2>1. /\ b \in S /\ stack' = Past(stack, {})
          /\ Apply([DropLocals(v.m, {b}) EXCEPT !.mem[b] = v.value])
      BY <1>5 DEF AssignStep
    <2> HIDE DEF b, v
    <2>2. FramesOK(stack') /\ ScopeOf(stack') = S /\ TempsOf(stack') = T
      BY <1>1, <1>2, <2>1, Onwards
    <2>3. b \in Bindings /\ S \cup {b} = S
      BY <1>2, <2>1
    <2>4. Good([DropLocals(v.m, {b}) EXCEPT !.mem[b] = v.value], T, S \cup {b}, 0)
      BY <1>3, <2>3, ReplaceGood
    <2> QED BY <1>1, <1>2, <2>1, <2>2, <2>3, <2>4, Applied
  <1> QED BY <1>4, <1>5

\* The rest of a scrutinee goes to the temporary of the arm that is entered.
LEMMA ArmInv ==
  ASSUME Inv, stack # <<>>, result' = result,
         NEW m, NEW v, Good(m, TempsOf(stack), ScopeOf(stack), v), Apply(m), NEW block,
         NEW kind \in {"match", "else"},
         stack' = <<Frame(kind, block, {}, v)>> \o Past(stack, {})
  PROVE  Inv'
  <1> DEFINE below == Past(stack, {})
  <1>1. FramesOK(stack) /\ result = 0
    BY Running
  <1>2. /\ FramesOK(below) /\ below # <<>>
        /\ ScopeOf(below) = ScopeOf(stack) /\ TempsOf(below) = TempsOf(stack)
    BY <1>1, Onwards
  <1> DEFINE top == Frame(kind, block, {}, v)
  <1>3. /\ top \in Frames({block}) /\ top.scope \subseteq top.owns
        /\ top.scope = {} /\ top.temp = v
    <2>1. v \in Nat /\ {} \in SUBSET Bindings /\ kind \in Kinds
      BY DEF Good, Kinds
    <2> QED BY <2>1 DEF Frame, Frames, Locals
  <1>4. stack' = <<top>> \o below
    OBVIOUS
  <1> HIDE DEF below, top
  <1>5. /\ FramesOK(stack') /\ ScopeOf(stack') = top.scope \cup ScopeOf(below)
        /\ TempsOf(stack') = ({top.temp} \cup TempsOf(below)) \ {0}
    <2>1. top.temp \notin TempsOf(below)
      BY <1>2, <1>3 DEF Good
    <2> QED BY <1>2, <1>3, <1>4, <2>1, PushOK
  <1>6. Good(m, TempsOf(stack) \cup ({v} \ {0}), ScopeOf(stack), 0)
    BY TempGood
  <1>7. /\ TempsOf(stack') = TempsOf(stack) \cup ({v} \ {0})
        /\ ScopeOf(stack') = ScopeOf(stack)
    BY <1>2, <1>3, <1>5 DEF TempsOf
  <1> QED BY <1>1, <1>5, <1>6, <1>7, Applied

\* The arms of a match and of a let-else.
LEMMA MatchInv ==
  ASSUME Inv, MatchStep \/ LetElseStep
  PROVE  Inv'
  <1> DEFINE T == TempsOf(stack)
             S == ScopeOf(stack)
             b == Stmt.b
             v == Eval(Machine, Stmt.x)
             emptied == DropLocals(v.m, {b})
  <1>1. stack # <<>> /\ result' = result /\ Evaluable(Stmt.x)
    BY DEF MatchStep, LetElseStep, At, Storable
  <1>2. FramesOK(stack) /\ result = 0
    BY <1>1, Running
  <1>3. Good(v.m, T, S, v.value)
    BY <1>1, Evaluated
  <1>4. CASE MatchStep
    <2>1. /\ b \in Bindings \ S
          /\ \/ /\ Apply([v.m EXCEPT !.mem[b] = v.value])
                /\ stack' = <<Frame("match", Stmt.ok, {b}, 0)>> \o Past(stack, {})
             \/ /\ Apply(v.m)
                /\ stack' = <<Frame("match", Stmt.err, {}, v.value)>> \o Past(stack, {})
      BY <1>4 DEF MatchStep, Binds
    <2> DEFINE ok == Stmt.ok
               err == Stmt.err
               below == Past(stack, {})
    <2>2. CASE /\ Apply([v.m EXCEPT !.mem[b] = v.value])
               /\ stack' = <<Frame("match", ok, {b}, 0)>> \o below
      <3> HIDE DEF b, v, ok
      <3>1. v.m.mem[b] = 0
        BY <1>3, <2>1, Undeclared
      <3>2. Good([v.m EXCEPT !.mem[b] = v.value], T, S \cup {b}, 0)
        BY <1>3, <2>1, <3>1, PutGood
      <3>3. /\ FramesOK(below) /\ below # <<>>
            /\ ScopeOf(below) = S /\ TempsOf(below) = T
        BY <1>1, <1>2, Onwards
      <3> DEFINE top == Frame("match", ok, {b}, 0)
      <3>4. /\ stack' = <<top>> \o below
            /\ top \in Frames({ok}) /\ top.scope \subseteq top.owns
            /\ top.scope = {b} /\ top.temp = 0
        <4>1. {b} \in SUBSET Bindings /\ "match" \in Kinds
          BY <2>1 DEF Kinds
        <4> QED BY <2>2, <4>1 DEF Frame, Frames, Locals
      <3> HIDE DEF below, top
      <3>5. /\ FramesOK(stack') /\ ScopeOf(stack') = top.scope \cup ScopeOf(below)
            /\ TempsOf(stack') = ({top.temp} \cup TempsOf(below)) \ {0}
        <4>1. top.temp \notin TempsOf(below)
          BY <3>4 DEF TempsOf
        <4> QED BY <3>3, <3>4, <4>1, PushOK
      <3>6. TempsOf(stack') = T /\ ScopeOf(stack') = S \cup {b}
        BY <3>3, <3>4, <3>5 DEF TempsOf
      <3> QED BY <1>1, <1>2, <2>2, <3>2, <3>5, <3>6, Applied
    <2>3. CASE /\ Apply(v.m)
               /\ stack' = <<Frame("match", err, {}, v.value)>> \o below
      <3> HIDE DEF v, err
      <3> QED BY <1>1, <1>3, <2>3, ArmInv
    <2> QED BY <2>1, <2>2, <2>3
  <1>5. CASE LetElseStep
    <2> DEFINE else == Stmt.else
    <2>1. /\ Declares(b)
          /\ \/ /\ Apply([emptied EXCEPT !.mem[b] = v.value])
                /\ stack' = Past(stack, {b})
             \/ /\ Apply(emptied)
                /\ stack' = <<Frame("else", else, {}, v.value)>> \o Past(stack, {})
      BY <1>5 DEF LetElseStep
    <2> HIDE DEF b, v, else
    <2>2. /\ b \in Bindings \ S /\ FramesOK(Past(stack, {b}))
          /\ ScopeOf(Past(stack, {b})) = S \cup {b} /\ TempsOf(Past(stack, {b})) = T
      BY <1>1, <2>1, Declared
    <2>3. /\ Good(emptied, T, S, v.value)
          /\ Good([emptied EXCEPT !.mem[b] = v.value], T, S \cup {b}, 0)
      BY <1>3, <2>2, ReplaceGood
    <2> HIDE DEF emptied
    <2>4. CASE /\ Apply([emptied EXCEPT !.mem[b] = v.value])
               /\ stack' = Past(stack, {b})
      BY <1>1, <1>2, <2>2, <2>3, <2>4, Applied
    <2>5. CASE /\ Apply(emptied)
               /\ stack' = <<Frame("else", else, {}, v.value)>> \o Past(stack, {})
      BY <1>1, <2>3, <2>5, ArmInv
    <2> QED BY <2>1, <2>4, <2>5
  <1> QED BY <1>4, <1>5

\* Nothing runs and nothing is in scope when the function has returned.
LEMMA EmptyOK == FramesOK(<<>>) /\ TempsOf(<<>>) = {} /\ ScopeOf(<<>>) = {}
  BY DEF FramesOK, TempsOf, ScopeOf

\* A return drops all temporaries and all locals and keeps the loose value.
LEMMA FinishInv ==
  ASSUME Inv, stack # <<>>, NEW m, NEW v,
         Good(m, TempsOf(stack), ScopeOf(stack), v), Finish(m, v)
  PROVE  Inv'
  <1> DEFINE emptied == DropAll(m, Temps)
             owned == OwnedBy(stack)
             n == DropLocals(emptied, owned)
  <1>1. Apply(n) /\ result' = v /\ stack' = <<>>
    BY DEF Finish
  <1>2. Temps \ {0} = TempsOf(stack)
    BY DEF Temps, TempsOf
  <1>3. Good(emptied, {}, ScopeOf(stack), v)
    BY <1>2, TempsGood
  <1>4. ScopeOf(stack) \subseteq owned /\ owned \in SUBSET Bindings
    BY OwnedOK DEF Inv
  <1> HIDE DEF emptied, owned
  <1>5. Good(n, {}, ScopeOf(stack), v) /\ \A b \in owned : n.mem[b] = 0
    BY <1>3, <1>4, LocalsGood
  <1> HIDE DEF n
  <1>6. \A b \in Bindings \cap ScopeOf(stack) : n.mem[b] = 0 \/ b \in {}
    BY <1>4, <1>5
  <1>7. Good(n, {}, {}, v)
    BY <1>5, <1>6, ScopeGood
  <1>8. FramesOK(stack') /\ TempsOf(stack') = {} /\ ScopeOf(stack') = {}
    BY <1>1, EmptyOK
  <1> QED BY <1>1, <1>7, <1>8, Applied

\* Statements that may return.
LEMMA ReturnInv ==
  ASSUME Inv, ReturnStep \/ PropagateStep
  PROVE  Inv'
  <1> DEFINE T == TempsOf(stack)
             S == ScopeOf(stack)
             b == Stmt.b
             v == Eval(Machine, Stmt.x)
             emptied == DropLocals(v.m, {b})
  <1>1. stack # <<>> /\ Evaluable(Stmt.x)
    BY DEF ReturnStep, PropagateStep, At, Storable
  <1>2. FramesOK(stack) /\ result = 0
    BY <1>1, Running
  <1>3. Good(v.m, T, S, v.value)
    BY <1>1, Evaluated
  <1>4. CASE ReturnStep
    <2>1. Finish(v.m, v.value)
      BY <1>4 DEF ReturnStep
    <2> HIDE DEF v
    <2> QED BY <1>1, <1>3, <2>1, FinishInv
  <1>5. CASE PropagateStep
    <2>1. /\ Declares(b)
          /\ \/ Finish(emptied, v.value)
             \/ /\ Apply([emptied EXCEPT !.mem[b] = v.value])
                /\ stack' = Past(stack, {b}) /\ result' = result
      BY <1>5 DEF PropagateStep
    <2> HIDE DEF b, v
    <2>2. /\ b \in Bindings \ S /\ FramesOK(Past(stack, {b}))
          /\ ScopeOf(Past(stack, {b})) = S \cup {b} /\ TempsOf(Past(stack, {b})) = T
      BY <1>1, <2>1, Declared
    <2>3. /\ Good(emptied, T, S, v.value)
          /\ Good([emptied EXCEPT !.mem[b] = v.value], T, S \cup {b}, 0)
      BY <1>3, <2>2, ReplaceGood
    <2> HIDE DEF emptied
    <2>4. CASE Finish(emptied, v.value)
      BY <1>1, <2>3, <2>4, FinishInv
    <2>5. CASE /\ Apply([emptied EXCEPT !.mem[b] = v.value])
               /\ stack' = Past(stack, {b}) /\ result' = result
      BY <1>2, <2>2, <2>3, <2>5, Applied
    <2> QED BY <2>1, <2>4, <2>5
  <1> QED BY <1>4, <1>5

\* A jump drops all temporaries, those outside of the loop too, and the
\* locals of the blocks it leaves.
LEMMA JumpInv ==
  ASSUME Inv, JumpStep
  PROVE  Inv'
  <1> DEFINE k == ExitDepth
             outer == SubSeq(stack, k + 1, Len(stack))
             kept == [i \in DOMAIN outer |-> [outer[i] EXCEPT !.temp = 0]]
             inner == SubSeq(stack, 1, k)
             emptied == DropAll(Machine, Temps)
             owned == OwnedBy(inner)
             n == DropLocals(emptied, owned)
             S == ScopeOf(stack)
  <1>1. /\ stack # <<>> /\ InLoop /\ result' = result /\ Apply(n)
        /\ stack' = Past(kept, {}) \/ stack' = kept
    BY DEF JumpStep, At, Left
  <1>2. FramesOK(stack) /\ result = 0 /\ Good(Machine, TempsOf(stack), S, 0)
    BY <1>1, Running
  <1>3. k \in DOMAIN stack /\ stack[k].kind = "loop"
    BY <1>1, <1>2, ExitFrame
  <1> HIDE DEF k
  <1>4. /\ FramesOK(kept) /\ kept # <<>> /\ TempsOf(kept) = {}
        /\ S \subseteq owned \cup ScopeOf(kept)
        /\ owned \in SUBSET Bindings
    BY <1>2, <1>3, JumpOK
  <1>5. Temps \ {0} = TempsOf(stack)
    BY DEF Temps, TempsOf
  <1>6. Good(emptied, {}, S, 0)
    BY <1>2, <1>5, TempsGood
  <1> HIDE DEF emptied, owned, kept
  <1>7. Good(n, {}, S, 0) /\ \A b \in owned : n.mem[b] = 0
    BY <1>4, <1>6, LocalsGood
  <1> HIDE DEF n
  <1>8. \A b \in Bindings \cap S : n.mem[b] = 0 \/ b \in ScopeOf(kept)
    BY <1>4, <1>7
  <1>9. Good(n, {}, ScopeOf(kept), 0)
    BY <1>7, <1>8, ScopeGood
  <1>10. FramesOK(stack') /\ TempsOf(stack') = {} /\ ScopeOf(stack') = ScopeOf(kept)
    BY <1>1, <1>4, Onwards
  <1> QED BY <1>1, <1>2, <1>9, <1>10, Applied

\* The end of a block drops its locals and its temporary.
LEMMA EndInv ==
  ASSUME Inv, EndBlock
  PROVE  Inv'
  <1> DEFINE rest == Tail(stack)
             owned == Head(stack).owns
             temp == Head(stack).temp
             emptied == DropLocals(Machine, owned)
             n == Drop(emptied, temp)
             S == ScopeOf(stack)
             T == TempsOf(rest)
  <1>1. stack # <<>> /\ stack' = rest /\ result' = result /\ Apply(n)
    BY DEF EndBlock
  <1>2. /\ FramesOK(stack) /\ result = 0 /\ Good(Machine, TempsOf(stack), S, 0)
        /\ owned \in SUBSET Bindings
    BY <1>1, Running
  <1>3. /\ FramesOK(rest) /\ S \subseteq owned \cup ScopeOf(rest)
        /\ TempsOf(stack) = ({temp} \cup T) \ {0} /\ temp \notin T
    BY <1>1, <1>2, TailOK
  <1> HIDE DEF owned, temp
  <1>4. Good(Machine, T, S, temp)
    <2>1. 0 \notin T
      BY DEF TempsOf
    <2>2. CASE temp = 0
      <3>1. TempsOf(stack) = T
        BY <1>3, <2>1, <2>2
      <3> QED BY <1>2, <2>2, <3>1
    <2>3. CASE temp # 0
      <3>1. temp \in TempsOf(stack) /\ TempsOf(stack) \ {temp} = T
        BY <1>3, <2>1, <2>3
      <3>2. Good(Machine, TempsOf(stack) \ {temp}, S, temp)
        BY <1>2, <3>1, LooseGood
      <3> QED BY <3>1, <3>2
    <2> QED BY <2>2, <2>3
  <1>5. Good(emptied, T, S, temp) /\ \A b \in owned : emptied.mem[b] = 0
    BY <1>2, <1>4, LocalsGood
  <1> HIDE DEF emptied
  <1>6. Good(n, T, S, 0) /\ n.mem = emptied.mem
    BY <1>5, DropGood
  <1> HIDE DEF n
  <1>7. \A b \in Bindings \cap S : n.mem[b] = 0 \/ b \in ScopeOf(rest)
    BY <1>3, <1>5, <1>6
  <1>8. Good(n, T, ScopeOf(rest), 0)
    BY <1>6, <1>7, ScopeGood
  <1> QED BY <1>1, <1>2, <1>3, <1>8, Applied

-----------------------------------------------------------------------------
(* The specification *)

\* The parameters can be given values of their own.
LEMMA ParamsNumbered ==
  LET n == Cardinality(Params)
  IN  /\ IsFiniteSet(Params) /\ n \in Nat
      /\ \E f \in [Bindings -> 0 .. n] :
           /\ \A b \in Bindings : f[b] = 0 <=> b \notin Params
           /\ \A b, c \in Params : f[b] = f[c] => b = c
  <1> DEFINE n == Cardinality(Params)
  <1>1. IsFiniteSet(Params) /\ Params \subseteq Bindings
    BY BindingsFinite, FS_Subset
  <1>2. n \in Nat /\ ExistsBijection(1 .. n, Params)
    BY <1>1, FS_CardinalityType
  <1>3. PICK g \in Bijection(1 .. n, Params) : TRUE
    BY <1>2 DEF ExistsBijection
  <1> HIDE DEF n
  <1>4. \A b \in Params : \E i \in 1 .. n : g[i] = b
    BY <1>3 DEF Bijection, Surjection
  <1> DEFINE number(b) == CHOOSE i \in 1 .. n : g[i] = b
             f == [b \in Bindings |-> IF b \in Params THEN number(b) ELSE 0]
  <1>5. \A b \in Params : number(b) \in 1 .. n /\ g[number(b)] = b
    BY <1>4
  <1> HIDE DEF number
  <1>6. \A b \in Params : number(b) \in 0 .. n /\ number(b) # 0
    BY <1>2, <1>5
  <1>7. f \in [Bindings -> 0 .. n]
    BY <1>2, <1>6
  <1>8. \A b \in Bindings : f[b] = 0 <=> b \notin Params
    BY <1>6
  <1>9. \A b, c \in Params : f[b] = f[c] => b = c
    <2> SUFFICES ASSUME NEW b \in Params, NEW c \in Params, f[b] = f[c] PROVE b = c
      OBVIOUS
    <2>1. number(b) = number(c)
      BY <1>1
    <2> QED BY <1>5, <2>1
  <1> HIDE DEF f
  <1>10. \E h \in [Bindings -> 0 .. n] :
           /\ \A b \in Bindings : h[b] = 0 <=> b \notin Params
           /\ \A b, c \in Params : h[b] = h[c] => b = c
    BY <1>7, <1>8, <1>9
  <1> QED BY <1>1, <1>2, <1>10 DEF n

\* A body starts with its parameters, each with a value of its own.
LEMMA InitInv == Init => Inv
  <1> SUFFICES ASSUME Init PROVE Inv
    OBVIOUS
  <1> DEFINE n == Cardinality(Params)
  <1>1. IsFiniteSet(Params) /\ n \in Nat /\ Params \subseteq Bindings
    BY ParamsNumbered, BindingsFinite
  <1>2. /\ mem \in [Bindings -> 0 .. n]
        /\ \A b \in Bindings : mem[b] = 0 <=> b \notin Params
        /\ \A b, c \in Params : mem[b] = mem[c] => b = c
    BY ParamsNumbered DEF Init
  <1> HIDE DEF n
  <1>3. mem \in [Bindings -> Nat]
    BY <1>1, <1>2
  <1>4. /\ live = {mem[b] : b \in Params} /\ result = 0 /\ faults = {}
        /\ stack = <<Frame("root", body, Params, 0)>>
    BY DEF Init
  <1>5. IsFiniteSet(live)
    <2> DEFINE f == [b \in Params |-> mem[b]]
    <2>1. f \in Surjection(Params, live)
      BY <1>4 DEF Surjection
    <2> QED BY <1>1, <2>1, FS_Surjection
  <1>6. /\ Machine \in Machines /\ Machine.mem = mem /\ Machine.live = live
    BY <1>1, <1>2, <1>3, <1>4 DEF Machine, Machines
  <1>7. live = ({mem[b] : b \in Bindings} \cup {} \cup {0}) \ {0}
    BY <1>1, <1>2, <1>4
  <1>8. Good(Machine, {}, Params, 0)
    BY <1>2, <1>5, <1>6, <1>7 DEF Good
  <1>9. FramesOK(stack) /\ ScopeOf(stack) = Params /\ TempsOf(stack) = {}
    <2> DEFINE top == Frame("root", body, Params, 0)
    <2>1. /\ top \in Frames({body}) /\ top.scope \subseteq top.owns
          /\ top.scope = Params /\ top.temp = 0 /\ top.kind # "loop"
      BY <1>1 DEF Frame, Frames, Locals, Kinds
    <2>2. <<top>> \o <<>> = stack
      BY <1>4
    <2> HIDE DEF top
    <2>3. /\ FramesOK(<<top>> \o <<>>)
          /\ ScopeOf(<<top>> \o <<>>) = top.scope \cup ScopeOf(<<>>)
          /\ TempsOf(<<top>> \o <<>>) = ({top.temp} \cup TempsOf(<<>>)) \ {0}
      <3>1. FramesOK(<<>>) /\ top.temp \notin TempsOf(<<>>)
        BY EmptyOK
      <3> QED BY <2>1, <3>1, PushOK
    <2> QED BY <2>1, <2>2, <2>3, EmptyOK
  <1> QED BY <1>4, <1>8, <1>9 DEF Inv

\* A step, or none, keeps the invariant.
LEMMA NextInv == Inv /\ [Next]_vars => Inv'
  <1> SUFFICES ASSUME Inv, [Next]_vars PROVE Inv'
    OBVIOUS
  <1>1. CASE UNCHANGED vars
    <2>1. UNCHANGED <<stack, result>> /\ Machine' = Machine
      BY <1>1 DEF vars, Machine
    <2> QED BY <2>1 DEF Inv
  <1>2. CASE BeginCall \/ PassArgument \/ RunCall
    BY <1>2, CallInv
  <1>3. CASE ExprStep \/ IfStep \/ WhileStep \/ ForStep \/ EachStep
    BY <1>3, ReadInv
  <1>4. CASE LetStep \/ AssignStep
    BY <1>4, StoreInv
  <1>5. CASE MatchStep \/ LetElseStep
    BY <1>5, MatchInv
  <1>6. CASE ReturnStep \/ PropagateStep
    BY <1>6, ReturnInv
  <1>7. CASE JumpStep
    BY <1>7, JumpInv
  <1>8. CASE EndBlock
    BY <1>8, EndInv
  <1> QED BY <1>1, <1>2, <1>3, <1>4, <1>5, <1>6, <1>7, <1>8 DEF Next

\* A live value is that of one binding or of one temporary, not of both.
LEMMA InvOwned == Inv => OwnedOnce
  <1> SUFFICES ASSUME Inv PROVE OwnedOnce
    OBVIOUS
  <1>1. /\ Machine \in Machines /\ Machine.mem = mem /\ Machine.live = live
        /\ Machine.faults = faults
    BY DEF Inv, Good, Machine
  <1>2. "twice" \notin faults
    BY <1>1 DEF Machines
  <1>3. ASSUME stack # <<>>, NEW id \in live
        PROVE  Owners(id) = 1
    <2> DEFINE holders == {b \in Bindings : mem[b] = id}
               temps == {i \in DOMAIN stack : stack[i].temp = id}
    <2>0. Owners(id) = Cardinality(holders) + Cardinality(temps)
      BY DEF Owners
    <2>1. /\ FramesOK(stack) /\ Good(Machine, TempsOf(stack), ScopeOf(stack), 0)
      BY <1>3, Running
    <2>2. /\ live = ({mem[b] : b \in Bindings} \cup TempsOf(stack) \cup {0}) \ {0}
          /\ \A b, c \in Bindings : mem[b] = mem[c] /\ mem[b] # 0 => b = c
          /\ \A b \in Bindings : mem[b] # 0 => mem[b] \notin TempsOf(stack)
      BY <1>1, <2>1 DEF Good
    <2>3. CASE id \in TempsOf(stack)
      <3>1. PICK i \in DOMAIN stack : stack[i].temp = id /\ id # 0
        BY <2>3 DEF TempsOf
      <3>2. temps = {i}
        BY <2>1, <3>1 DEF FramesOK
      <3>3. holders = {}
        BY <2>2, <2>3, <3>1
      <3>4. Cardinality({i}) = 1 /\ Cardinality({}) = 0
        BY FS_Singleton, FS_EmptySet
      <3> HIDE DEF holders, temps
      <3> QED BY <2>0, <3>2, <3>3, <3>4
    <2>4. CASE id \notin TempsOf(stack)
      <3>1. PICK b \in Bindings : mem[b] = id /\ id # 0
        BY <1>3, <2>2, <2>4
      <3>2. holders = {b}
        BY <2>2, <3>1
      <3>3. temps = {}
        BY <2>4, <3>1 DEF TempsOf
      <3>4. Cardinality({b}) = 1 /\ Cardinality({}) = 0
        BY FS_Singleton, FS_EmptySet
      <3> HIDE DEF holders, temps
      <3> QED BY <2>0, <3>2, <3>3, <3>4
    <2> QED BY <2>3, <2>4
  <1>4. ASSUME stack = <<>>
        PROVE  live = {result} \ {0}
    <2>1. Good(Machine, {}, {}, result)
      BY <1>4, EmptyOK DEF Inv
    <2>2. /\ live = ({mem[b] : b \in Bindings} \cup {} \cup {result}) \ {0}
          /\ \A b \in Bindings : mem[b] = 0
      BY <1>1, <2>1 DEF Good
    <2> QED BY <2>2
  <1> QED BY <1>2, <1>3, <1>4 DEF OwnedOnce

\* The emitted code drops every value once on every path, whatever the body
\* and whatever the borrow check says of it.
THEOREM OwnedSafety == Spec => []OwnedOnce
  <1>1. Init => Inv
    BY InitInv
  <1>2. Inv /\ [Next]_vars => Inv'
    BY NextInv
  <1>3. Inv => OwnedOnce
    BY InvOwned
  <1> QED BY <1>1, <1>2, <1>3, PTL DEF Spec

-----------------------------------------------------------------------------
(* The states of the analysis *)

\* The syntax of programs, in the form that inductions use.
Smaller(set, all) == {part \in set : Size(part) < Size(all)}

Grammar ==
  /\ \A part \in Lists \cup Blocks : Size(part) \in Nat
  /\ \A args \in Lists :
       /\ args \in Seq(Expr)
       /\ args # <<>> => /\ Head(args) \in Exprs(Smaller(Lists, args))
                         /\ Tail(args) \in Smaller(Lists, args)
  /\ \A block \in Blocks :
       /\ block \in Seq(Statements)
       /\ block # <<>> => /\ Head(block) \in Stmts(Expr, Smaller(Blocks, block))
                          /\ Tail(block) \in Smaller(Blocks, block)

\* What the programs are made of meets it.
LEMMA ParsedGrammar == Grammar
  <1>1. ASSUME NEW args \in Lists, args # <<>>
        PROVE  Head(args) \in Exprs(Smaller(Lists, args)) /\ Tail(args) \in Smaller(Lists, args)
    <2> DEFINE e == Head(args)
               rest == Tail(args)
    <2>1. /\ args \in Seq(Expr) /\ rest \in Lists
          /\ \A part \in {rest} \cup Args(e) : Size(part) < Size(args)
      BY <1>1, ProgramsParsed
    <2>2. e \in Expr
      BY <1>1, <2>1
    <2> HIDE DEF e, rest
    <2>3. rest \in Smaller(Lists, args)
      BY <2>1 DEF Smaller
    <2>4. CASE e.e = "call"
      <3>1. e.args \in Smaller(Lists, args)
        BY <2>1, <2>2, <2>4 DEF Args, Expr, Exprs, Smaller
      <3> QED BY <2>2, <2>3, <2>4, <3>1 DEF Expr, Exprs, e, rest
    <2>5. CASE e.e # "call"
      BY <2>2, <2>3, <2>5 DEF Expr, Exprs, e, rest
    <2> QED BY <2>4, <2>5
  <1>2. ASSUME NEW block \in Blocks, block # <<>>
        PROVE  /\ Head(block) \in Stmts(Expr, Smaller(Blocks, block))
               /\ Tail(block) \in Smaller(Blocks, block)
    <2> DEFINE s == Head(block)
               rest == Tail(block)
               smaller == Smaller(Blocks, block)
    <2>1. /\ block \in Seq(Statements) /\ rest \in Blocks
          /\ \A part \in {rest} \cup Parts(s) : Size(part) < Size(block)
      BY <1>2, ProgramsParsed
    <2>2. s \in Stmts(Expr, Blocks)
      BY <1>2, <2>1 DEF Statements
    <2> HIDE DEF s, rest
    <2>3. \A part \in Blocks : Size(part) < Size(block) => part \in smaller
      BY DEF Smaller
    <2>4. rest \in smaller
      BY <2>1, <2>3
    <2> HIDE DEF smaller
    <2>5. CASE s.s = "if"
      <3>1. Parts(s) = {s.then, s.else}
        BY <2>5 DEF Parts
      <3>2. s \in [s : {"if"}, x : Expr, then : Blocks, else : Blocks]
        BY <2>2, <2>5 DEF Stmts
      <3>3. s \in [s : {"if"}, x : Expr, then : smaller, else : smaller]
        BY <2>1, <2>3, <3>1, <3>2
      <3> QED BY <2>4, <3>3 DEF Stmts, s, rest, smaller
    <2>6. CASE s.s \in {"while", "for"}
      <3>1. Parts(s) = {s.body}
        BY <2>6 DEF Parts
      <3>2. s \in [s : {"while", "for"}, x : Expr, body : Blocks]
        BY <2>2, <2>6 DEF Stmts
      <3>3. s \in [s : {"while", "for"}, x : Expr, body : smaller]
        BY <2>1, <2>3, <3>1, <3>2
      <3> QED BY <2>4, <3>3 DEF Stmts, s, rest, smaller
    <2>7. CASE s.s = "match"
      <3>1. Parts(s) = {s.ok, s.err}
        BY <2>7 DEF Parts
      <3>2. s \in [s : {"match"}, x : Expr, b : Bindings, ok : Blocks, err : Blocks]
        BY <2>2, <2>7 DEF Stmts
      <3>3. s \in [s : {"match"}, x : Expr, b : Bindings, ok : smaller, err : smaller]
        BY <2>1, <2>3, <3>1, <3>2
      <3> QED BY <2>4, <3>3 DEF Stmts, s, rest, smaller
    <2>8. CASE s.s = "letelse"
      <3>1. Parts(s) = {s.else}
        BY <2>8 DEF Parts
      <3>2. s \in [s : {"letelse"}, x : Expr, b : Bindings, else : Blocks]
        BY <2>2, <2>8 DEF Stmts
      <3>3. s \in [s : {"letelse"}, x : Expr, b : Bindings, else : smaller]
        BY <2>1, <2>3, <3>1, <3>2
      <3> QED BY <2>4, <3>3 DEF Stmts, s, rest, smaller
    <2>9. CASE s.s \notin {"if", "while", "for", "match", "letelse"}
      <3>1. s \in Stmts(Expr, smaller)
        BY <2>2, <2>9 DEF Stmts
      <3> QED BY <2>4, <3>1 DEF s, rest, smaller
    <2> QED BY <2>5, <2>6, <2>7, <2>8, <2>9
  <1> QED BY <1>1, <1>2, ProgramsParsed DEF Grammar

Codes == {"NQ-BORROW-001", "NQ-BORROW-003", "NQ-BORROW-006", "NQ-BORROW-007"}

States ==
  [moved : SUBSET Bindings, diags : SUBSET Codes, touched : SUBSET Bindings,
   jumped : SUBSET Bindings, gap : BOOLEAN]

Borrowings == SUBSET (Bindings \X {"ref", "mutref"})

Loops == {s \in Statements : s.s \in {"while", "for"}}

\* The recursive procedures of the analysis do what their bodies say.  A loop's
\* head state is grown from one that its first round contains, and at most as
\* often as there are bindings, so that each of them ends.
Procedures ==
  /\ \A args \in Lists, st \in States, borrowed \in Borrowings, consumed \in SUBSET Bindings :
       WalkArgs(args, st, borrowed, consumed) = WalkRest(args, st, borrowed, consumed)
  /\ \A s \in Loops, before, entry \in SUBSET Bindings :
       entry \subseteq Round(s, before, entry) =>
         LoopEntry(s, before, entry) = GrowEntry(s, before, entry)
  /\ \A block \in Blocks, st \in States :
       CheckBlock(block, st) = CheckStmts(block, st)

-----------------------------------------------------------------------------
Grows(st, r) ==
  /\ r \in States
  /\ st.diags \subseteq r.diags /\ st.touched \subseteq r.touched
  /\ st.jumped \subseteq r.jumped /\ (st.gap => r.gap)

Walked(st, r) == Grows(st, r) /\ st.moved \subseteq r.moved

RegularList(args) ==
  \A st \in States, borrowed \in Borrowings, consumed \in SUBSET Bindings :
    /\ Walked(st, WalkArgs(args, st, borrowed, consumed))
    /\ \A more \in States, bo \in Borrowings, co \in SUBSET Bindings :
         st.moved \subseteq more.moved =>
           WalkArgs(args, st, borrowed, consumed).moved
             \subseteq WalkArgs(args, more, bo, co).moved

RegularExpr(e) ==
  \A st \in States, consume \in BOOLEAN :
    /\ Walked(st, Walk(e, st, consume))
    /\ \A more \in States : st.moved \subseteq more.moved =>
         Walk(e, st, consume).moved \subseteq Walk(e, more, consume).moved

RegularStmt(s) ==
  \A st \in States :
    /\ Grows(st, CheckStmt(s, st))
    /\ \A more \in States : st.moved \subseteq more.moved =>
         CheckStmt(s, st).moved \subseteq CheckStmt(s, more).moved

RegularBlock(block) ==
  \A st \in States :
    /\ Grows(st, CheckBlock(block, st))
    /\ \A more \in States : st.moved \subseteq more.moved =>
         CheckBlock(block, st).moved \subseteq CheckBlock(block, more).moved

\* Reports only add to the diagnostics.
LEMMA ReportFacts ==
  ASSUME NEW st \in States, NEW cond \in BOOLEAN, NEW code \in Codes
  PROVE  /\ Walked(st, Report(st, cond, code))
         /\ Report(st, cond, code).moved = st.moved
         /\ Report(st, cond, code).touched = st.touched
         /\ Report(st, cond, code).diags = {} <=> (st.diags = {} /\ ~cond)
         /\ Report(st, cond, code).gap = st.gap
  BY DEF Report, States, Walked, Grows

LEMMA NameFacts ==
  ASSUME NEW st \in States, NEW e, e.b \in Bindings, e.e = "name", NEW consume \in BOOLEAN
  PROVE  /\ Walked(st, UseName(e, st, consume))
         /\ UseName(e, st, consume).moved = IF consume THEN st.moved \cup {e.b} ELSE st.moved
  BY DEF UseName, Report, States, Walked, Grows, Moves, Codes

LEMMA BorrowFacts ==
  ASSUME NEW st \in States, NEW e, e.b \in Bindings
  PROVE  /\ Walked(st, UseBorrow(e, st))
         /\ UseBorrow(e, st).moved = st.moved
  BY DEF UseBorrow, Report, States, Walked, Grows, Codes

LEMMA WalkedTrans ==
  ASSUME NEW r, NEW s, NEW t, Walked(r, s), Walked(s, t)
  PROVE  Walked(r, t)
  BY DEF Walked, Grows

LEMMA GrowsTrans ==
  ASSUME NEW r, NEW s, NEW t, Grows(r, s), Grows(s, t)
  PROVE  Grows(r, t)
  BY DEF Grows

\* An expression, when its arguments are known to be regular.
LEMMA ExprRegular ==
  ASSUME NEW lists, NEW e \in Exprs(lists), e.e = "call" => RegularList(e.args)
  PROVE  RegularExpr(e)
  <1>1. e.e = "name" \/ Borrows(e) => e.b \in Bindings
    BY DEF Exprs, Borrows
  <1>2. SUFFICES ASSUME NEW st \in States, NEW consume \in BOOLEAN
                 PROVE  /\ Walked(st, Walk(e, st, consume))
                        /\ \A more \in States : st.moved \subseteq more.moved =>
                             Walk(e, st, consume).moved \subseteq Walk(e, more, consume).moved
    BY DEF RegularExpr
  <1>3. CASE e.e = "name"
    <2>1. \A t : Walk(e, t, consume) = UseName(e, t, consume)
      BY <1>3 DEF Walk, Borrows
    <2>2. \A t \in States : /\ Walked(t, UseName(e, t, consume))
                           /\ UseName(e, t, consume).moved =
                                IF consume THEN t.moved \cup {e.b} ELSE t.moved
      BY <1>1, <1>3, NameFacts
    <2> QED BY <2>1, <2>2
  <1>4. CASE Borrows(e)
    <2>1. \A t : Walk(e, t, consume) = UseBorrow(e, t)
      BY <1>4 DEF Walk, Borrows
    <2> QED BY <1>1, <1>4, <2>1, BorrowFacts
  <1>5. CASE e.e = "call"
    <2>1. \A t : Walk(e, t, consume) = WalkArgs(e.args, t, {}, {})
      BY <1>5 DEF Walk, Borrows
    <2>2. {} \in Borrowings /\ {} \in SUBSET Bindings
      BY DEF Borrowings
    <2> QED BY <1>5, <2>1, <2>2 DEF RegularList
  <1>6. CASE e.e \notin {"name", "ref", "mutref", "call"}
    <2>1. \A t : Walk(e, t, consume) = t
      BY <1>6 DEF Walk, Borrows
    <2> QED BY <2>1 DEF Walked, Grows
  <1> QED BY <1>3, <1>4, <1>5, <1>6 DEF Borrows

\* What is reported of an argument.
LEMMA JudgeFacts ==
  ASSUME NEW st \in States, NEW lists, NEW e \in Exprs(lists), NEW borrowed \in Borrowings,
         NEW consumed \in SUBSET Bindings
  PROVE  /\ Walked(st, JudgeArg(e, st, borrowed, consumed))
         /\ JudgeArg(e, st, borrowed, consumed).moved = st.moved
         /\ WithBorrow(e, borrowed) \in Borrowings
         /\ WithMove(e, consumed) \in SUBSET Bindings
  <1>1. e.e = "name" \/ Borrows(e) => e.b \in Bindings
    BY DEF Exprs, Borrows
  <1>2. /\ Walked(st, JudgeArg(e, st, borrowed, consumed))
        /\ JudgeArg(e, st, borrowed, consumed).moved = st.moved
    <2>1. CASE Borrows(e)
      <3> DEFINE conflict == Conflicts(e.b, e.e, borrowed)
                 first == Report(st, conflict, "NQ-BORROW-006")
                 second == Report(first, e.b \in consumed, "NQ-BORROW-007")
      <3>1. conflict \in BOOLEAN
        BY DEF Conflicts
      <3> HIDE DEF conflict
      <3>2. Walked(st, first) /\ first.moved = st.moved
        BY <3>1, ReportFacts DEF Codes
      <3> HIDE DEF first
      <3>3. first \in States
        BY <3>2 DEF Walked, Grows
      <3> DEFINE twice == e.b \in consumed
      <3>4. Walked(first, second) /\ second.moved = first.moved
        <4>1. twice \in BOOLEAN /\ "NQ-BORROW-007" \in Codes
          BY DEF Codes
        <4> HIDE DEF twice
        <4> QED BY <3>3, <4>1, ReportFacts DEF twice
      <3> HIDE DEF second
      <3>5. Walked(st, second) /\ second.moved = st.moved
        BY <3>2, <3>4, WalkedTrans
      <3> QED BY <2>1, <3>5 DEF JudgeArg, first, second, conflict
    <2>2. CASE ~Borrows(e)
      <3> DEFINE clash == Moves(e, TRUE) /\ \E k \in {"ref", "mutref"} : <<e.b, k>> \in borrowed
      <3>1. clash \in BOOLEAN
        OBVIOUS
      <3> HIDE DEF clash
      <3>2. /\ Walked(st, Report(st, clash, "NQ-BORROW-007"))
            /\ Report(st, clash, "NQ-BORROW-007").moved = st.moved
        BY <3>1, ReportFacts DEF Codes
      <3> QED BY <2>2, <3>2 DEF JudgeArg, clash
    <2> QED BY <2>1, <2>2
  <1>3. WithBorrow(e, borrowed) \in Borrowings
    BY <1>1 DEF WithBorrow, Borrows, Borrowings
  <1>4. WithMove(e, consumed) \in SUBSET Bindings
    BY <1>1 DEF WithMove, Moves
  <1> QED BY <1>2, <1>3, <1>4

\* A list whose parts are regular.
LEMMA RestRegular ==
  ASSUME Grammar, Procedures, NEW args \in Lists,
         \A part \in Smaller(Lists, args) : RegularList(part)
  PROVE  RegularList(args)
  <1> SUFFICES ASSUME NEW st \in States, NEW borrowed \in Borrowings,
                      NEW consumed \in SUBSET Bindings
               PROVE  /\ Walked(st, WalkArgs(args, st, borrowed, consumed))
                      /\ \A more \in States, bo \in Borrowings, co \in SUBSET Bindings :
                           st.moved \subseteq more.moved =>
                             WalkArgs(args, st, borrowed, consumed).moved
                               \subseteq WalkArgs(args, more, bo, co).moved
    BY DEF RegularList
  <1>1. \A t \in States, bo \in Borrowings, co \in SUBSET Bindings :
          WalkArgs(args, t, bo, co) = WalkRest(args, t, bo, co)
    BY DEF Procedures
  <1>2. CASE args = <<>>
    <2>1. ASSUME NEW t \in States, NEW bo \in Borrowings, NEW co \in SUBSET Bindings
          PROVE  /\ Walked(t, WalkArgs(args, t, bo, co))
                 /\ WalkArgs(args, t, bo, co).moved = t.moved
      <3> DEFINE late == \E p \in bo : p[1] \in t.moved
      <3>1. WalkArgs(args, t, bo, co) = [t EXCEPT !.gap = t.gap \/ late]
        BY <1>1, <1>2 DEF WalkRest
      <3>2. late \in BOOLEAN
        OBVIOUS
      <3> HIDE DEF late
      <3> QED BY <3>1, <3>2 DEF States, Walked, Grows
    <2> QED BY <2>1
  <1>3. CASE args # <<>>
    <2> DEFINE e == Head(args)
               rest == Tail(args)
    <2>1. e \in Exprs(Smaller(Lists, args)) /\ rest \in Smaller(Lists, args)
      BY <1>3 DEF Grammar
    <2>2. e.e = "call" => RegularList(e.args)
      BY <2>1 DEF Exprs
    <2>3. RegularExpr(e) /\ RegularList(rest)
      BY <2>1, <2>2, ExprRegular
    <2> DEFINE judged(t, bo, co) == JudgeArg(e, t, bo, co)
               consume == ~Borrows(e)
               walked(t, bo, co) == Walk(e, judged(t, bo, co), consume)
    <2>4. \A t \in States, bo \in Borrowings, co \in SUBSET Bindings :
            WalkArgs(args, t, bo, co) =
              WalkArgs(rest, walked(t, bo, co), WithBorrow(e, bo), WithMove(e, co))
      BY <1>1, <1>3 DEF WalkRest
    <2> HIDE DEF e, rest
    <2>5. \A t \in States, bo \in Borrowings, co \in SUBSET Bindings :
            /\ Walked(t, judged(t, bo, co)) /\ judged(t, bo, co).moved = t.moved
            /\ judged(t, bo, co) \in States
            /\ WithBorrow(e, bo) \in Borrowings /\ WithMove(e, co) \in SUBSET Bindings
      BY <2>1, JudgeFacts DEF Walked, Grows
    <2>6. consume \in BOOLEAN
      BY DEF Borrows
    <2> HIDE DEF judged, consume
    <2>7. \A t \in States, bo \in Borrowings, co \in SUBSET Bindings :
            /\ Walked(judged(t, bo, co), walked(t, bo, co))
            /\ \A more \in States, bo2 \in Borrowings, co2 \in SUBSET Bindings :
                 t.moved \subseteq more.moved =>
                   walked(t, bo, co).moved \subseteq walked(more, bo2, co2).moved
      <3> SUFFICES ASSUME NEW t \in States, NEW bo \in Borrowings, NEW co \in SUBSET Bindings
                   PROVE  /\ Walked(judged(t, bo, co), walked(t, bo, co))
                          /\ \A more \in States, bo2 \in Borrowings, co2 \in SUBSET Bindings :
                               t.moved \subseteq more.moved =>
                                 walked(t, bo, co).moved \subseteq walked(more, bo2, co2).moved
        OBVIOUS
      <3>1. \A j \in States : Walked(j, Walk(e, j, consume))
        BY <2>3, <2>6 DEF RegularExpr
      <3>2. \A j, k \in States : j.moved \subseteq k.moved =>
              Walk(e, j, consume).moved \subseteq Walk(e, k, consume).moved
        BY <2>3, <2>6 DEF RegularExpr
      <3>3. Walked(judged(t, bo, co), walked(t, bo, co))
        BY <2>5, <3>1
      <3>4. ASSUME NEW more \in States, NEW bo2 \in Borrowings, NEW co2 \in SUBSET Bindings,
                   t.moved \subseteq more.moved
            PROVE  walked(t, bo, co).moved \subseteq walked(more, bo2, co2).moved
        <4>1. /\ judged(t, bo, co) \in States /\ judged(more, bo2, co2) \in States
              /\ judged(t, bo, co).moved \subseteq judged(more, bo2, co2).moved
          BY <2>5, <3>4
        <4> QED BY <3>2, <4>1
      <3> QED BY <3>3, <3>4
    <2> HIDE DEF walked
    <2>8. \A t \in States, bo \in Borrowings, co \in SUBSET Bindings :
            Walked(t, walked(t, bo, co)) /\ walked(t, bo, co) \in States
      BY <2>5, <2>7, WalkedTrans DEF Walked, Grows
    <2>9. \A t \in States, bo \in Borrowings, co \in SUBSET Bindings :
            Walked(walked(t, bo, co), WalkArgs(args, t, bo, co))
      BY <2>3, <2>4, <2>5, <2>8 DEF RegularList
    <2>10. Walked(st, WalkArgs(args, st, borrowed, consumed))
      BY <2>8, <2>9, WalkedTrans
    <2>11. ASSUME NEW more \in States, NEW bo \in Borrowings, NEW co \in SUBSET Bindings,
                  st.moved \subseteq more.moved
           PROVE  WalkArgs(args, st, borrowed, consumed).moved
                    \subseteq WalkArgs(args, more, bo, co).moved
      <3> DEFINE w1 == walked(st, borrowed, consumed)
                 w2 == walked(more, bo, co)
      <3>1. w1 \in States /\ w2 \in States /\ w1.moved \subseteq w2.moved
        BY <2>7, <2>8, <2>11
      <3>2. /\ WalkArgs(args, st, borrowed, consumed) =
                 WalkArgs(rest, w1, WithBorrow(e, borrowed), WithMove(e, consumed))
            /\ WalkArgs(args, more, bo, co) =
                 WalkArgs(rest, w2, WithBorrow(e, bo), WithMove(e, co))
        BY <2>4
      <3>3. /\ WithBorrow(e, borrowed) \in Borrowings /\ WithMove(e, consumed) \in SUBSET Bindings
            /\ WithBorrow(e, bo) \in Borrowings /\ WithMove(e, co) \in SUBSET Bindings
        BY <2>5
      <3> HIDE DEF w1, w2
      <3> QED BY <2>3, <3>1, <3>2, <3>3 DEF RegularList
    <2> QED BY <2>10, <2>11
  <1> QED BY <1>2, <1>3

\* Every list is regular: there is no smallest one that is not.
LEMMA ListRegular ==
  ASSUME Grammar, Procedures, NEW args \in Lists
  PROVE  RegularList(args)
  <1> DEFINE bad == {l \in Lists : ~RegularList(l)}
             sizes == {Size(l) : l \in bad}
  <1> SUFFICES ASSUME args \in bad PROVE FALSE
    OBVIOUS
  <1>1. sizes \in SUBSET Nat /\ sizes # {}
    BY DEF Grammar
  <1>2. PICK n \in sizes : \A m \in sizes : <<m, n>> \notin OpToRel(<, Nat)
    BY <1>1, NatLessThanWellFounded, WFMin, Zenon
  <1>3. PICK l \in bad : Size(l) = n
    BY <1>2
  <1>4. ASSUME NEW part \in Smaller(Lists, l)
        PROVE  RegularList(part)
    <2> SUFFICES ASSUME part \in bad PROVE FALSE
      BY DEF Smaller
    <2>1. Size(part) \in sizes /\ Size(part) < n /\ Size(part) \in Nat /\ n \in Nat
      BY <1>1, <1>3 DEF Smaller
    <2> HIDE DEF sizes, bad
    <2> QED BY <1>2, <2>1 DEF OpToRel
  <1> QED BY <1>3, <1>4, RestRegular

\* Every expression is.
LEMMA WalkRegular ==
  ASSUME Grammar, Procedures, NEW e \in Expr
  PROVE  RegularExpr(e)
  <1>1. e.e = "call" => e.args \in Lists
    BY DEF Expr, Exprs
  <1> QED BY <1>1, ListRegular, ExprRegular DEF Expr

-----------------------------------------------------------------------------
(* Loops *)

LEMMA StartTyped ==
  ASSUME NEW moved \in SUBSET Bindings
  PROVE  Start(moved) \in States /\ Start(moved).moved = moved
  BY DEF Start, States

\* A round covers what was moved before, and is monotone.
LEMMA RoundFacts ==
  ASSUME Grammar, Procedures, NEW s \in Loops, RegularBlock(s.body),
         NEW before \in SUBSET Bindings, NEW more \in SUBSET Bindings, before \subseteq more,
         NEW entry \in SUBSET Bindings, NEW later \in SUBSET Bindings, entry \subseteq later
  PROVE  /\ Round(s, before, entry) \in SUBSET Bindings
         /\ before \subseteq Round(s, before, entry)
         /\ Round(s, before, entry) \subseteq Round(s, more, later)
  <1>1. s.x \in Expr
    BY DEF Loops, Statements, Stmts
  <1>2. RegularExpr(s.x)
    BY <1>1, WalkRegular
  <1> DEFINE walked(set) == Walk(s.x, Start(set), FALSE)
             end(set) == CheckBlock(s.body, walked(set))
  <1>3. ASSUME NEW set \in SUBSET Bindings
        PROVE  walked(set) \in States /\ end(set).moved \in SUBSET Bindings
    <2>1. Start(set) \in States /\ FALSE \in BOOLEAN
      BY StartTyped
    <2>2. walked(set) \in States
      BY <1>2, <2>1 DEF RegularExpr, Walked, Grows
    <2>3. end(set) \in States
      BY <2>2 DEF RegularBlock, Grows
    <2> QED BY <2>2, <2>3 DEF States
  <1>4. walked(entry).moved \subseteq walked(later).moved
    <2>1. /\ Start(entry) \in States /\ Start(later) \in States
          /\ Start(entry).moved \subseteq Start(later).moved /\ FALSE \in BOOLEAN
      BY StartTyped
    <2> QED BY <1>2, <2>1 DEF RegularExpr
  <1>5. Round(s, before, entry) = before \cup end(entry).moved
    BY DEF Round
  <1>6. Round(s, more, later) = more \cup end(later).moved
    BY DEF Round
  <1> HIDE DEF walked
  <1>7. end(entry).moved \subseteq end(later).moved
    BY <1>3, <1>4 DEF RegularBlock
  <1> QED BY <1>3, <1>5, <1>6, <1>7

\* What LoopEntry promises, begun at an entry.
Stable(s, before, entry, l) ==
  /\ l \in SUBSET Bindings /\ entry \subseteq l /\ Round(s, before, l) = l
  /\ \A more, closed \in SUBSET Bindings :
       before \subseteq more /\ entry \subseteq closed /\ Round(s, more, closed) \subseteq closed
         => l \subseteq closed

\* LoopEntry ends in a state that another round does not change, and in the
\* least one: each round that is not the last adds a binding.
LEMMA EntryStable ==
  ASSUME Grammar, Procedures, NEW s \in Loops, RegularBlock(s.body),
         NEW before \in SUBSET Bindings, NEW start \in SUBSET Bindings,
         start \subseteq Round(s, before, start)
  PROVE  Stable(s, before, start, LoopEntry(s, before, start))
  <1> DEFINE good(entry) == Stable(s, before, entry, LoopEntry(s, before, entry))
             bad == {entry \in SUBSET Bindings :
                       entry \subseteq Round(s, before, entry) /\ ~good(entry)}
             left(entry) == Cardinality(Bindings \ entry)
             sizes == {left(entry) : entry \in bad}
  <1> SUFFICES ASSUME start \in bad PROVE FALSE
    OBVIOUS
  <1>1. ASSUME NEW entry \in SUBSET Bindings
        PROVE  left(entry) \in Nat /\ IsFiniteSet(Bindings \ entry)
    BY BindingsFinite, FS_Difference, FS_CardinalityType
  <1>2. sizes \in SUBSET Nat /\ sizes # {}
    BY <1>1
  <1>3. PICK n \in sizes : \A m \in sizes : <<m, n>> \notin OpToRel(<, Nat)
    BY <1>2, NatLessThanWellFounded, WFMin, Zenon
  <1>4. PICK entry \in bad : left(entry) = n
    BY <1>3
  <1> DEFINE next == Round(s, before, entry)
  <1>5. /\ entry \in SUBSET Bindings /\ entry \subseteq next /\ ~good(entry)
        /\ next \in SUBSET Bindings
    BY <1>4, RoundFacts
  <1>6. LoopEntry(s, before, entry) =
          IF next = entry THEN entry ELSE LoopEntry(s, before, next)
    BY <1>5 DEF Procedures, GrowEntry
  <1> HIDE DEF next
  <1>7. CASE next = entry
    <2>1. \A more, closed \in SUBSET Bindings :
            before \subseteq more /\ entry \subseteq closed /\ Round(s, more, closed) \subseteq closed
              => entry \subseteq closed
      OBVIOUS
    <2> QED BY <1>5, <1>6, <1>7, <2>1 DEF Stable, next
  <1>8. CASE next # entry
    <2>1. next \subseteq Round(s, before, next)
      BY <1>5, RoundFacts DEF next
    <2>2. left(next) < left(entry)
      <3>1. PICK b \in next : b \notin entry
        BY <1>5, <1>8
      <3>2. /\ Bindings \ next \subseteq Bindings \ entry
            /\ Bindings \ next # Bindings \ entry
        BY <1>5, <3>1
      <3>3. /\ Cardinality(Bindings \ next) <= Cardinality(Bindings \ entry)
            /\ Cardinality(Bindings \ next) = Cardinality(Bindings \ entry)
                 => Bindings \ next = Bindings \ entry
        BY <1>1, <1>5, <3>2, FS_Subset
      <3>4. left(next) \in Nat /\ left(entry) \in Nat
        BY <1>1, <1>5
      <3> QED BY <3>2, <3>3, <3>4
    <2>3. good(next)
      <3> SUFFICES ASSUME next \in bad PROVE FALSE
        BY <1>5, <2>1
      <3>1. left(next) \in sizes /\ left(next) < n /\ left(next) \in Nat /\ n \in Nat
        BY <1>1, <1>4, <1>5, <2>2
      <3> HIDE DEF sizes, bad, left
      <3> QED BY <1>3, <3>1 DEF OpToRel
    <2> DEFINE l == LoopEntry(s, before, next)
    <2>4. Stable(s, before, next, l) /\ LoopEntry(s, before, entry) = l
      BY <1>6, <1>8, <2>3
    <2> HIDE DEF l
    <2>5. ASSUME NEW more \in SUBSET Bindings, NEW closed \in SUBSET Bindings,
                 before \subseteq more, entry \subseteq closed, Round(s, more, closed) \subseteq closed
          PROVE  l \subseteq closed
      <3>1. next \subseteq Round(s, more, closed)
        BY <1>5, <2>5, RoundFacts DEF next
      <3>2. next \subseteq closed
        BY <2>5, <3>1
      <3> QED BY <2>4, <2>5, <3>2 DEF Stable
    <2>6. Stable(s, before, entry, l)
      BY <1>5, <2>4, <2>5 DEF Stable
    <2> QED BY <1>5, <2>4, <2>6
  <1> QED BY <1>7, <1>8

\* The entry of a loop: it covers what was moved before, a round does not
\* leave it, and it is monotone.
LEMMA EntryFacts ==
  ASSUME Grammar, Procedures, NEW s \in Loops, RegularBlock(s.body),
         NEW before \in SUBSET Bindings, NEW more \in SUBSET Bindings, before \subseteq more
  PROVE  LET l == LoopEntry(s, before, before)
         IN  /\ l \in SUBSET Bindings /\ before \subseteq l /\ Round(s, before, l) = l
             /\ l \subseteq LoopEntry(s, more, more)
  <1> DEFINE l == LoopEntry(s, before, before)
             k == LoopEntry(s, more, more)
  <1>1. before \subseteq Round(s, before, before) /\ more \subseteq Round(s, more, more)
    BY RoundFacts
  <1>2. Stable(s, before, before, l) /\ Stable(s, more, more, k)
    BY <1>1, EntryStable
  <1> HIDE DEF l, k
  <1>3. l \subseteq k
    BY <1>2 DEF Stable
  <1> QED BY <1>2, <1>3 DEF Stable, l, k

-----------------------------------------------------------------------------
(* Statements *)

LEMMA MergeFacts ==
  ASSUME NEW r \in States, NEW t \in States
  PROVE  /\ Grows(r, Merge(r, t)) /\ Grows(t, Merge(r, t))
         /\ r.moved \subseteq Merge(r, t).moved /\ t.moved \subseteq Merge(r, t).moved
  BY DEF Merge, Grows, States

LEMMA MergeMonotone ==
  ASSUME NEW r \in States, NEW t \in States, NEW u \in States, NEW v \in States,
         r.moved \subseteq u.moved, t.moved \subseteq v.moved
  PROVE  Merge(r, t).moved \subseteq Merge(u, v).moved
  BY DEF Merge, States

LEMMA ResetFacts ==
  ASSUME NEW st \in States, NEW b \in Bindings
  PROVE  /\ Grows(st, Reset(st, b))
         /\ \A c : c \in Reset(st, b).moved <=> c \in st.moved /\ c # b
         /\ b \in Reset(st, b).touched
  BY DEF Reset, States, Grows

\* The state in which a block of a statement is analysed.
Inner(st) == [st EXCEPT !.jumped = {}]

LEMMA InnerFacts ==
  ASSUME NEW st \in States
  PROVE  /\ Inner(st) \in States /\ Inner(st).moved = st.moved
         /\ Inner(st).touched = st.touched /\ Inner(st).diags = st.diags
         /\ Inner(st).gap = st.gap /\ Inner(st).jumped = {}
  BY DEF Inner, States

\* A block within a statement.
LEMMA ScopedFacts ==
  ASSUME NEW block, RegularBlock(block), NEW st \in States
  PROVE  /\ Grows(st, Scoped(block, st))
         /\ CheckBlock(block, Inner(st)) \in States
         /\ Scoped(block, st).moved = CheckBlock(block, Inner(st)).moved
         /\ Scoped(block, st).diags = CheckBlock(block, Inner(st)).diags
         /\ Scoped(block, st).touched = CheckBlock(block, Inner(st)).touched
         /\ Scoped(block, st).gap = CheckBlock(block, Inner(st)).gap
         /\ CheckBlock(block, Inner(st)).jumped \ Locals(block) \subseteq Scoped(block, st).jumped
         /\ \A more \in States : st.moved \subseteq more.moved =>
              Scoped(block, st).moved \subseteq Scoped(block, more).moved
  <1> DEFINE end(t) == CheckBlock(block, Inner(t))
             kept(t) == t.jumped \cup (end(t).jumped \ Locals(block))
  <1>1. \A t \in States : Grows(Inner(t), end(t)) /\ end(t) \in States
    BY InnerFacts DEF RegularBlock, Grows
  <1>2. \A t : Scoped(block, t) = [end(t) EXCEPT !.jumped = kept(t)]
    BY DEF Scoped, Inner
  <1>3. \A t \in States : kept(t) \in SUBSET Bindings
    BY <1>1 DEF States
  <1>4. \A t, more \in States : t.moved \subseteq more.moved => end(t).moved \subseteq end(more).moved
    BY InnerFacts DEF RegularBlock
  <1>5. st.jumped \subseteq kept(st) /\ end(st).jumped \ Locals(block) \subseteq kept(st)
    OBVIOUS
  <1> HIDE DEF end, kept
  <1>6. \A t \in States :
          /\ Scoped(block, t) \in States
          /\ Scoped(block, t).moved = end(t).moved /\ Scoped(block, t).diags = end(t).diags
          /\ Scoped(block, t).touched = end(t).touched /\ Scoped(block, t).gap = end(t).gap
          /\ Scoped(block, t).jumped = kept(t)
    BY <1>1, <1>2, <1>3 DEF States
  <1>7. Grows(st, Scoped(block, st))
    BY <1>1, <1>5, <1>6, InnerFacts DEF Grows
  <1>8. \A more \in States : st.moved \subseteq more.moved =>
          Scoped(block, st).moved \subseteq Scoped(block, more).moved
    BY <1>4, <1>6
  <1> QED BY <1>1, <1>5, <1>6, <1>7, <1>8 DEF end

\* A binding that is stored.
LEMMA StoreRegular ==
  ASSUME Grammar, Procedures, NEW s \in Statements, s.s \in {"let", "assign", "propagate"}
  PROVE  RegularStmt(s)
  <1>1. s.x \in Expr /\ s.b \in Bindings
    BY DEF Statements, Stmts
  <1>2. RegularExpr(s.x)
    BY <1>1, WalkRegular
  <1> DEFINE walked(t) == Walk(s.x, t, TRUE)
  <1>3. \A t : CheckStmt(s, t) = Reset(walked(t), s.b)
    BY DEF CheckStmt
  <1>4. \A t \in States : Grows(t, walked(t)) /\ walked(t) \in States
    BY <1>2 DEF RegularExpr, Walked, Grows
  <1>5. \A t, more \in States : t.moved \subseteq more.moved => walked(t).moved \subseteq walked(more).moved
    BY <1>2 DEF RegularExpr
  <1> HIDE DEF walked
  <1>6. ASSUME NEW t \in States
        PROVE  /\ Grows(t, CheckStmt(s, t))
               /\ \A c : c \in CheckStmt(s, t).moved <=> c \in walked(t).moved /\ c # s.b
    <2>1. /\ Grows(walked(t), Reset(walked(t), s.b))
          /\ \A c : c \in Reset(walked(t), s.b).moved <=> c \in walked(t).moved /\ c # s.b
      BY <1>1, <1>4, ResetFacts
    <2>2. Grows(t, Reset(walked(t), s.b))
      BY <1>4, <2>1, GrowsTrans
    <2> QED BY <1>3, <2>1, <2>2
  <1> QED BY <1>5, <1>6 DEF RegularStmt

LEMMA IfRegular ==
  ASSUME Grammar, Procedures, NEW s \in Statements, s.s = "if",
         RegularBlock(s.then), RegularBlock(s.else)
  PROVE  RegularStmt(s)
  <1>1. s.x \in Expr
    BY DEF Statements, Stmts
  <1>2. RegularExpr(s.x)
    BY <1>1, WalkRegular
  <1> DEFINE cond(t) == Walk(s.x, t, FALSE)
             left(t) == Scoped(s.then, cond(t))
             right(t) == Scoped(s.else, cond(t))
  <1>3. \A t : CheckStmt(s, t) = Merge(left(t), right(t))
    BY DEF CheckStmt, CheckIf
  <1>4. \A t \in States : Grows(t, cond(t)) /\ cond(t) \in States
    BY <1>2 DEF RegularExpr, Walked, Grows
  <1>5. \A t, more \in States : t.moved \subseteq more.moved => cond(t).moved \subseteq cond(more).moved
    BY <1>2 DEF RegularExpr
  <1> HIDE DEF cond
  <1>6. ASSUME NEW t \in States
        PROVE  /\ Grows(cond(t), left(t)) /\ left(t) \in States /\ right(t) \in States
    BY <1>4, ScopedFacts DEF Grows
  <1>7. ASSUME NEW t \in States, NEW more \in States, t.moved \subseteq more.moved
        PROVE  left(t).moved \subseteq left(more).moved /\ right(t).moved \subseteq right(more).moved
    BY <1>4, <1>5, <1>7, ScopedFacts
  <1> HIDE DEF left, right
  <1>8. \A t \in States : Grows(t, CheckStmt(s, t))
    <2> SUFFICES ASSUME NEW t \in States PROVE Grows(t, Merge(left(t), right(t)))
      BY <1>3
    <2>1. Grows(left(t), Merge(left(t), right(t)))
      BY <1>6, MergeFacts
    <2>2. Grows(t, left(t))
      BY <1>4, <1>6, GrowsTrans
    <2> QED BY <2>1, <2>2, GrowsTrans
  <1>9. \A t, more \in States : t.moved \subseteq more.moved =>
          CheckStmt(s, t).moved \subseteq CheckStmt(s, more).moved
    BY <1>3, <1>6, <1>7, MergeMonotone
  <1> QED BY <1>8, <1>9 DEF RegularStmt

LEMMA LetElseRegular ==
  ASSUME Grammar, Procedures, NEW s \in Statements, s.s = "letelse", RegularBlock(s.else)
  PROVE  RegularStmt(s)
  <1>1. s.x \in Expr /\ s.b \in Bindings
    BY DEF Statements, Stmts
  <1>2. RegularExpr(s.x)
    BY <1>1, WalkRegular
  <1> DEFINE taken(t) == Walk(s.x, t, TRUE)
             else(t) == Scoped(s.else, taken(t))
             after(t) == [else(t) EXCEPT !.moved = taken(t).moved]
  <1>3. \A t : CheckStmt(s, t) = Reset(after(t), s.b)
    BY DEF CheckStmt, CheckLetElse
  <1>4. \A t \in States : Grows(t, taken(t)) /\ taken(t) \in States
    BY <1>2 DEF RegularExpr, Walked, Grows
  <1>5. \A t, more \in States : t.moved \subseteq more.moved => taken(t).moved \subseteq taken(more).moved
    BY <1>2 DEF RegularExpr
  <1> HIDE DEF taken
  <1>6. \A t \in States : Grows(taken(t), else(t)) /\ else(t) \in States
    BY <1>4, ScopedFacts DEF Grows
  <1> HIDE DEF else
  <1>7. \A t \in States : /\ Grows(taken(t), after(t)) /\ after(t) \in States
                          /\ after(t).moved = taken(t).moved
    BY <1>4, <1>6 DEF Grows, States
  <1> HIDE DEF after
  <1>8. ASSUME NEW t \in States
        PROVE  /\ Grows(t, CheckStmt(s, t))
               /\ \A c : c \in CheckStmt(s, t).moved <=> c \in taken(t).moved /\ c # s.b
    <2>1. /\ Grows(after(t), Reset(after(t), s.b))
          /\ \A c : c \in Reset(after(t), s.b).moved <=> c \in after(t).moved /\ c # s.b
      BY <1>1, <1>7, ResetFacts
    <2>2. Grows(t, after(t))
      BY <1>4, <1>7, GrowsTrans
    <2>3. Grows(t, Reset(after(t), s.b))
      BY <2>1, <2>2, GrowsTrans
    <2> QED BY <1>3, <1>7, <2>1, <2>3
  <1> QED BY <1>5, <1>8 DEF RegularStmt

LEMMA MatchRegular ==
  ASSUME Grammar, Procedures, NEW s \in Statements, s.s = "match",
         RegularBlock(s.ok), RegularBlock(s.err)
  PROVE  RegularStmt(s)
  <1>1. s.x \in Expr /\ s.b \in Bindings
    BY DEF Statements, Stmts
  <1>2. RegularExpr(s.x)
    BY <1>1, WalkRegular
  <1> DEFINE taken(t) == Walk(s.x, t, TRUE)
             bound(t) == Reset(Inner(taken(t)), s.b)
             ok(t) == Scoped(s.ok, bound(t))
             left(t) == [ok(t) EXCEPT !.jumped = @ \ {s.b}]
             right(t) == Scoped(s.err, taken(t))
  <1>3. \A t : CheckStmt(s, t) = Merge(taken(t), Merge(left(t), right(t)))
    BY DEF CheckStmt, CheckMatch, Inner
  <1>4. \A t \in States : Grows(t, taken(t)) /\ taken(t) \in States
    BY <1>2 DEF RegularExpr, Walked, Grows
  <1>5. \A t, more \in States : t.moved \subseteq more.moved => taken(t).moved \subseteq taken(more).moved
    BY <1>2 DEF RegularExpr
  <1> HIDE DEF taken
  <1>6. ASSUME NEW t \in States
        PROVE  /\ bound(t) \in States
               /\ \A c : c \in bound(t).moved <=> c \in taken(t).moved /\ c # s.b
    BY <1>1, <1>4, InnerFacts, ResetFacts DEF Grows
  <1>7. \A t, more \in States : t.moved \subseteq more.moved => bound(t).moved \subseteq bound(more).moved
    BY <1>5, <1>6
  <1> HIDE DEF bound
  <1>8. \A t \in States : ok(t) \in States /\ right(t) \in States
    BY <1>4, <1>6, ScopedFacts DEF Grows
  <1>9. ASSUME NEW t \in States, NEW more \in States, t.moved \subseteq more.moved
        PROVE  ok(t).moved \subseteq ok(more).moved /\ right(t).moved \subseteq right(more).moved
    BY <1>4, <1>5, <1>6, <1>7, <1>9, ScopedFacts
  <1> HIDE DEF ok, right
  <1>10. \A t \in States : left(t) \in States /\ left(t).moved = ok(t).moved
    BY <1>8 DEF States
  <1> HIDE DEF left
  <1> DEFINE arms(t) == Merge(left(t), right(t))
  <1>11. \A t \in States : arms(t) \in States
    BY <1>8, <1>10, MergeFacts DEF Grows
  <1>12. \A t, more \in States : t.moved \subseteq more.moved => arms(t).moved \subseteq arms(more).moved
    BY <1>8, <1>9, <1>10, MergeMonotone
  <1> HIDE DEF arms
  <1>13. \A t \in States : Grows(t, CheckStmt(s, t))
    <2> SUFFICES ASSUME NEW t \in States PROVE Grows(t, Merge(taken(t), arms(t)))
      BY <1>3 DEF arms
    <2>1. Grows(taken(t), Merge(taken(t), arms(t)))
      BY <1>4, <1>11, MergeFacts
    <2> QED BY <1>4, <2>1, GrowsTrans
  <1>14. \A t, more \in States : t.moved \subseteq more.moved =>
           CheckStmt(s, t).moved \subseteq CheckStmt(s, more).moved
    <2>1. \A t \in States : CheckStmt(s, t) = Merge(taken(t), arms(t))
      BY <1>3 DEF arms
    <2> SUFFICES ASSUME NEW t \in States, NEW more \in States, t.moved \subseteq more.moved
                 PROVE  Merge(taken(t), arms(t)).moved \subseteq Merge(taken(more), arms(more)).moved
      BY <2>1
    <2> QED BY <1>4, <1>5, <1>11, <1>12, MergeMonotone
  <1> QED BY <1>13, <1>14 DEF RegularStmt

\* The state in which the body of a loop is analysed.
Begun(cond) == [cond EXCEPT !.touched = {}, !.jumped = {}]

\* What the analysis of a loop leaves, from its entry and the state after
\* its condition.
LEMMA LoopFacts ==
  ASSUME NEW s \in Loops, RegularBlock(s.body), NEW entry \in SUBSET Bindings,
         NEW cond \in States
  PROVE  /\ Begun(cond) \in States /\ Begun(cond).moved = cond.moved /\ Begun(cond).touched = {}
         /\ Begun(cond).jumped = {}
         /\ Grows(cond, CheckLoop(s, entry, cond)) /\ CheckLoop(s, entry, cond).moved = cond.moved
         /\ CheckBlock(s.body, Begun(cond)) \in States
         /\ CheckBlock(s.body, Begun(cond)).diags \subseteq CheckLoop(s, entry, cond).diags
         /\ CheckBlock(s.body, Begun(cond)).touched \subseteq CheckLoop(s, entry, cond).touched
         /\ CheckBlock(s.body, Begun(cond)).gap => CheckLoop(s, entry, cond).gap
         /\ ~CheckLoop(s, entry, cond).gap =>
              /\ CheckBlock(s.body, Begun(cond)).jumped \ Locals(s.body) \subseteq entry
              /\ s.s = "for" => s.x.b \notin CheckBlock(s.body, Begun(cond)).touched
  <1> DEFINE begun == Begun(cond)
             end == CheckBlock(s.body, begun)
             scoped == Scoped(s.body, begun)
             lost == \/ scoped.gap
                     \/ ~(scoped.jumped \subseteq entry)
                     \/ s.s = "for" /\ s.x.b \in scoped.touched
             r == CheckLoop(s, entry, cond)
  <1>1. /\ begun \in States /\ begun.moved = cond.moved /\ begun.touched = {}
        /\ begun.diags = cond.diags /\ begun.gap = cond.gap /\ Inner(begun) = begun
        /\ begun.jumped = {}
    BY DEF States, Inner, Begun
  <1>2. r = [scoped EXCEPT !.moved = cond.moved, !.touched = scoped.touched \cup cond.touched,
                           !.jumped = cond.jumped, !.gap = lost]
    BY DEF CheckLoop, Begun
  <1> HIDE DEF begun
  <1>3. /\ Grows(begun, scoped) /\ scoped.diags = end.diags /\ scoped.touched = end.touched
        /\ scoped.gap = end.gap /\ end.jumped \ Locals(s.body) \subseteq scoped.jumped
        /\ end \in States /\ scoped \in States
    BY <1>1, ScopedFacts DEF Grows
  <1> HIDE DEF scoped, end
  <1>4. lost \in BOOLEAN
    BY <1>3 DEF States
  <1>5. /\ scoped.gap => lost
        /\ ~lost => scoped.jumped \subseteq entry /\ (s.s = "for" => s.x.b \notin scoped.touched)
    OBVIOUS
  <1> HIDE DEF lost, r
  <1>6. /\ r \in States /\ r.moved = cond.moved /\ r.diags = scoped.diags
        /\ r.touched = scoped.touched \cup cond.touched /\ r.jumped = cond.jumped
        /\ r.gap = lost
    BY <1>2, <1>3, <1>4 DEF States
  <1>7. Grows(cond, r)
    BY <1>1, <1>3, <1>5, <1>6 DEF Grows
  <1> QED BY <1>1, <1>3, <1>5, <1>6, <1>7 DEF r, end, begun

\* The statement that a for loop repeats: its list is evaluated before.
Repeated(s) == [s EXCEPT !.x = [e |-> "opaque"]]

LEMMA RepeatedFacts ==
  ASSUME NEW s \in Loops, s.s = "for"
  PROVE  Repeated(s) \in Loops /\ Repeated(s).body = s.body /\ Repeated(s).x = [e |-> "opaque"]
  <1>1. s \in [s : {"while", "for"}, x : Expr, body : Blocks]
    BY DEF Loops, Statements, Stmts
  <1>2. [e |-> "opaque"] \in Expr
    BY DEF Expr, Exprs
  <1>3. /\ Repeated(s) \in [s : {"while", "for"}, x : Expr, body : Blocks]
        /\ Repeated(s).body = s.body /\ Repeated(s).x = [e |-> "opaque"]
    BY <1>1, <1>2 DEF Repeated
  <1> QED BY <1>3 DEF Loops, Statements, Stmts

\* The entry of a loop that is reached in a state, and the state in which
\* its condition has been evaluated.
Entry(s, st) ==
  IF s.s = "while" THEN LoopEntry(s, st.moved, st.moved)
  ELSE LET first == Walk(s.x, st, FALSE)
       IN  LoopEntry(Repeated(s), first.moved, first.moved)

Cond(s, st) ==
  IF s.s = "while" THEN Walk(s.x, [st EXCEPT !.moved = Entry(s, st)], FALSE)
  ELSE [Walk(s.x, st, FALSE) EXCEPT !.moved = Entry(s, st)]

\* A loop: its entry covers what was moved before, and the end of a body
\* that begins after the condition.
LEMMA CondFacts ==
  ASSUME Grammar, Procedures, NEW s \in Loops, RegularBlock(s.body), NEW st \in States
  PROVE  /\ Entry(s, st) \in SUBSET Bindings
         /\ st.moved \subseteq Entry(s, st)
         /\ Cond(s, st) \in States /\ Grows(st, Cond(s, st))
         /\ Entry(s, st) \subseteq Cond(s, st).moved
         /\ CheckStmt(s, st) = CheckLoop(s, Entry(s, st), Cond(s, st))
         /\ \A begun \in States : begun.moved = Cond(s, st).moved =>
              CheckBlock(s.body, begun).moved \subseteq Entry(s, st)
         /\ \A more \in States : st.moved \subseteq more.moved =>
              Cond(s, st).moved \subseteq Cond(s, more).moved
  <1>1. s.x \in Expr /\ s.s \in {"while", "for"}
    BY DEF Loops, Statements, Stmts
  <1>2. RegularExpr(s.x) /\ FALSE \in BOOLEAN
    BY <1>1, WalkRegular
  <1> DEFINE walked(t) == Walk(s.x, t, FALSE)
  <1>3. \A t \in States : /\ Grows(t, walked(t)) /\ walked(t) \in States
                          /\ t.moved \subseteq walked(t).moved /\ walked(t).moved \in SUBSET Bindings
    BY <1>2 DEF RegularExpr, Walked, Grows, States
  <1>4. \A t, more \in States : t.moved \subseteq more.moved => walked(t).moved \subseteq walked(more).moved
    BY <1>2 DEF RegularExpr
  <1>5. CASE s.s = "while"
    <2> DEFINE entry(t) == LoopEntry(s, t.moved, t.moved)
               begin(t) == [t EXCEPT !.moved = entry(t)]
    <2>1. \A t : Entry(s, t) = entry(t) /\ Cond(s, t) = walked(begin(t))
      BY <1>5 DEF Entry, Cond
    <2>2. CheckStmt(s, st) = CheckLoop(s, entry(st), walked(begin(st)))
      BY <1>5 DEF CheckStmt, CheckWhile
    <2> HIDE DEF walked
    <2>3. ASSUME NEW t \in States
          PROVE  /\ entry(t) \in SUBSET Bindings /\ t.moved \subseteq entry(t)
                 /\ Round(s, t.moved, entry(t)) = entry(t)
                 /\ \A more \in States : t.moved \subseteq more.moved => entry(t) \subseteq entry(more)
      BY EntryFacts DEF States
    <2> HIDE DEF entry
    <2>4. \A t \in States : begin(t) \in States /\ begin(t).moved = entry(t) /\ Grows(t, begin(t))
      BY <2>3 DEF States, Grows
    <2> HIDE DEF begin
    <2>5. \A t, more \in States : t.moved \subseteq more.moved =>
            walked(begin(t)).moved \subseteq walked(begin(more)).moved
      BY <1>4, <2>3, <2>4
    <2>6. Grows(st, walked(begin(st)))
      BY <1>3, <2>4, GrowsTrans
    <2>7. ASSUME NEW begun \in States, begun.moved = walked(begin(st)).moved
          PROVE  CheckBlock(s.body, begun).moved \subseteq entry(st)
      <3> DEFINE start == Start(entry(st))
      <3>1. start \in States /\ start.moved = begin(st).moved
        BY <2>3, <2>4, StartTyped
      <3> HIDE DEF start
      <3>2. walked(start) \in States /\ begun.moved \subseteq walked(start).moved
        BY <1>3, <1>4, <2>4, <2>7, <3>1
      <3>3. CheckBlock(s.body, begun).moved \subseteq CheckBlock(s.body, walked(start)).moved
        BY <2>7, <3>2 DEF RegularBlock
      <3>4. Round(s, st.moved, entry(st)) = st.moved \cup CheckBlock(s.body, walked(start)).moved
        BY DEF Round, walked, start
      <3> QED BY <2>3, <3>3, <3>4
    <2>8. entry(st) \subseteq walked(begin(st)).moved /\ walked(begin(st)) \in States
      BY <1>3, <2>4
    <2> QED BY <2>1, <2>2, <2>3, <2>5, <2>6, <2>7, <2>8
  <1>6. CASE s.s = "for"
    <2> DEFINE r == Repeated(s)
               entry(t) == LoopEntry(r, walked(t).moved, walked(t).moved)
               cond(t) == [walked(t) EXCEPT !.moved = entry(t)]
    <2>1. \A t : Entry(s, t) = entry(t) /\ Cond(s, t) = cond(t)
      BY <1>6 DEF Entry, Cond
    <2>2. CheckStmt(s, st) = CheckLoop(s, entry(st), cond(st))
      BY <1>6 DEF CheckStmt, CheckFor, Repeated
    <2>3. r \in Loops /\ r.body = s.body /\ r.x = [e |-> "opaque"] /\ RegularBlock(r.body)
      BY <1>6, RepeatedFacts
    <2> HIDE DEF walked, r
    <2>4. ASSUME NEW t \in States
          PROVE  /\ entry(t) \in SUBSET Bindings /\ walked(t).moved \subseteq entry(t)
                 /\ Round(r, walked(t).moved, entry(t)) = entry(t)
                 /\ \A more \in States : t.moved \subseteq more.moved => entry(t) \subseteq entry(more)
      <3>1. \A more \in States : t.moved \subseteq more.moved =>
              /\ walked(t).moved \subseteq walked(more).moved
              /\ walked(more).moved \in SUBSET Bindings
        BY <1>3, <1>4
      <3> QED BY <1>3, <2>3, <3>1, EntryFacts
    <2> HIDE DEF entry
    <2>5. \A t \in States : cond(t) \in States /\ cond(t).moved = entry(t) /\ Grows(t, cond(t))
      BY <1>3, <2>4 DEF States, Grows
    <2> HIDE DEF cond
    <2>6. \A t, more \in States : t.moved \subseteq more.moved =>
            cond(t).moved \subseteq cond(more).moved
      BY <2>4, <2>5
    <2>7. ASSUME NEW begun \in States, begun.moved = cond(st).moved
          PROVE  CheckBlock(s.body, begun).moved \subseteq entry(st)
      <3> DEFINE start == Start(entry(st))
      <3>1. start \in States /\ begun.moved \subseteq start.moved
        BY <2>4, <2>5, <2>7, StartTyped
      <3>2. Walk(r.x, start, FALSE) = start
        BY <2>3 DEF Walk, Borrows
      <3> HIDE DEF start
      <3>3. CheckBlock(s.body, begun).moved \subseteq CheckBlock(s.body, start).moved
        BY <2>7, <3>1 DEF RegularBlock
      <3>4. Round(r, walked(st).moved, entry(st)) =
              walked(st).moved \cup CheckBlock(s.body, start).moved
        BY <2>3, <3>2 DEF Round, start
      <3> QED BY <2>4, <3>3, <3>4
    <2>8. st.moved \subseteq entry(st)
      BY <1>3, <2>4
    <2> QED BY <2>1, <2>2, <2>4, <2>5, <2>6, <2>7, <2>8
  <1> QED BY <1>1, <1>5, <1>6

LEMMA LoopRegular ==
  ASSUME Grammar, Procedures, NEW s \in Loops, RegularBlock(s.body)
  PROVE  RegularStmt(s)
  <1>1. ASSUME NEW t \in States
        PROVE  Grows(t, CheckStmt(s, t)) /\ CheckStmt(s, t).moved = Cond(s, t).moved
    <2> DEFINE entry == Entry(s, t)
               cond == Cond(s, t)
    <2>1. /\ entry \in SUBSET Bindings /\ cond \in States /\ Grows(t, cond)
          /\ CheckStmt(s, t) = CheckLoop(s, entry, cond)
      BY CondFacts
    <2> HIDE DEF entry, cond
    <2>2. /\ Grows(cond, CheckLoop(s, entry, cond))
          /\ CheckLoop(s, entry, cond).moved = cond.moved
      <3>1. \A en \in SUBSET Bindings, co \in States :
              /\ Grows(co, CheckLoop(s, en, co))
              /\ CheckLoop(s, en, co).moved = co.moved
        <4> TAKE en \in SUBSET Bindings, co \in States
        <4> QED BY LoopFacts
      <3> QED BY <2>1, <3>1
    <2>3. Grows(t, CheckLoop(s, entry, cond))
      BY <2>1, <2>2, GrowsTrans
    <2> QED BY <2>1, <2>2, <2>3 DEF cond
  <1>2. \A t, more \in States : t.moved \subseteq more.moved => Cond(s, t).moved \subseteq Cond(s, more).moved
    BY CondFacts
  <1> QED BY <1>1, <1>2 DEF RegularStmt

\* Statements without a block that store nothing.
LEMMA PlainRegular ==
  ASSUME Grammar, Procedures, NEW s \in Statements, s.s \in {"expr", "return"}
  PROVE  RegularStmt(s)
  <1>1. s.x \in Expr
    BY DEF Statements, Stmts
  <1> DEFINE consume == s.s = "return"
  <1>2. RegularExpr(s.x) /\ consume \in BOOLEAN
    BY <1>1, WalkRegular
  <1>3. \A t : CheckStmt(s, t) = Walk(s.x, t, consume)
    <2>1. CASE s.s = "return"
      <3>1. consume = TRUE
        BY <2>1
      <3> HIDE DEF consume
      <3> QED BY <2>1, <3>1 DEF CheckStmt
    <2>2. CASE s.s = "expr"
      <3>1. consume = FALSE
        BY <2>2
      <3> HIDE DEF consume
      <3> QED BY <2>2, <3>1 DEF CheckStmt
    <2> QED BY <2>1, <2>2
  <1> HIDE DEF consume
  <1> QED BY <1>2, <1>3 DEF RegularExpr, RegularStmt, Walked

LEMMA JumpFacts ==
  ASSUME NEW s \in Statements, s.s \in {"break", "continue"}, NEW st \in States
  PROVE  /\ Grows(st, CheckStmt(s, st)) /\ CheckStmt(s, st).moved = st.moved
         /\ st.moved \subseteq CheckStmt(s, st).jumped
  <1>1. CheckStmt(s, st) = [st EXCEPT !.jumped = @ \cup st.moved]
    BY DEF CheckStmt
  <1> QED BY <1>1 DEF States, Grows

LEMMA StmtRegular ==
  ASSUME Grammar, Procedures, NEW s \in Statements, \A part \in Parts(s) : RegularBlock(part)
  PROVE  RegularStmt(s)
  <1>1. CASE s.s \in {"let", "assign", "propagate"}
    BY <1>1, StoreRegular
  <1>2. CASE s.s = "if"
    BY <1>2, IfRegular DEF Parts
  <1>3. CASE s.s \in {"while", "for"}
    <2>1. s \in Loops /\ Parts(s) = {s.body}
      BY <1>3 DEF Loops, Parts
    <2> QED BY <2>1, LoopRegular
  <1>4. CASE s.s = "match"
    <2>1. Parts(s) = {s.ok, s.err}
      BY <1>4 DEF Parts
    <2> QED BY <1>4, <2>1, MatchRegular
  <1>5. CASE s.s = "letelse"
    <2>1. Parts(s) = {s.else}
      BY <1>5 DEF Parts
    <2> QED BY <1>5, <2>1, LetElseRegular
  <1>6. CASE s.s \in {"expr", "return"}
    BY <1>6, PlainRegular
  <1>7. CASE s.s \in {"break", "continue"}
    BY <1>7, JumpFacts DEF RegularStmt
  <1> QED BY <1>1, <1>2, <1>3, <1>4, <1>5, <1>6, <1>7 DEF Statements, Stmts

\* The parts of a block are smaller blocks.
LEMMA BlockParts ==
  ASSUME Grammar, NEW block \in Blocks, block # <<>>
  PROVE  /\ Head(block) \in Statements /\ Tail(block) \in Smaller(Blocks, block)
         /\ Parts(Head(block)) \subseteq Smaller(Blocks, block)
  <1> DEFINE s == Head(block)
             smaller == Smaller(Blocks, block)
  <1>1. s \in Stmts(Expr, smaller) /\ Tail(block) \in smaller
    BY DEF Grammar
  <1>2. block \in Seq(Statements)
    BY DEF Grammar
  <1>3. s \in Statements
    BY <1>2
  <1> HIDE DEF s, smaller
  <1>4. CASE s.s = "if"
    <2>1. Parts(s) = {s.then, s.else}
      BY <1>4 DEF Parts
    <2> QED BY <1>1, <1>3, <1>4, <2>1 DEF Stmts, s, smaller
  <1>5. CASE s.s \in {"while", "for"}
    <2>1. Parts(s) = {s.body}
      BY <1>5 DEF Parts
    <2> QED BY <1>1, <1>3, <1>5, <2>1 DEF Stmts, s, smaller
  <1>6. CASE s.s = "match"
    <2>1. Parts(s) = {s.ok, s.err}
      BY <1>6 DEF Parts
    <2> QED BY <1>1, <1>3, <1>6, <2>1 DEF Stmts, s, smaller
  <1>7. CASE s.s = "letelse"
    <2>1. Parts(s) = {s.else}
      BY <1>7 DEF Parts
    <2> QED BY <1>1, <1>3, <1>7, <2>1 DEF Stmts, s, smaller
  <1>8. CASE s.s \notin {"if", "while", "for", "match", "letelse"}
    <2>1. Parts(s) = {}
      BY <1>8 DEF Parts
    <2> QED BY <1>1, <1>3, <2>1 DEF s, smaller
  <1> QED BY <1>4, <1>5, <1>6, <1>7, <1>8

LEMMA StmtsRegular ==
  ASSUME Grammar, Procedures, NEW block \in Blocks,
         \A part \in Smaller(Blocks, block) : RegularBlock(part)
  PROVE  RegularBlock(block)
  <1>1. \A t \in States : CheckBlock(block, t) = CheckStmts(block, t)
    BY DEF Procedures
  <1>2. CASE block = <<>>
    <2>1. \A t \in States : CheckBlock(block, t) = t
      BY <1>1, <1>2 DEF CheckStmts
    <2> QED BY <2>1 DEF RegularBlock, Grows
  <1>3. CASE block # <<>>
    <2> DEFINE s == Head(block)
               rest == Tail(block)
               after(t) == CheckStmt(s, t)
    <2>1. \A t \in States : CheckBlock(block, t) = CheckBlock(rest, after(t))
      BY <1>1, <1>3 DEF CheckStmts
    <2>2. RegularBlock(rest) /\ RegularStmt(s)
      <3>1. /\ s \in Statements /\ rest \in Smaller(Blocks, block)
            /\ Parts(s) \subseteq Smaller(Blocks, block)
        BY <1>3, BlockParts
      <3> HIDE DEF s, rest
      <3> QED BY <3>1, StmtRegular
    <2> HIDE DEF s, rest
    <2>3. /\ \A t \in States : Grows(t, after(t)) /\ after(t) \in States
          /\ \A t, more \in States : t.moved \subseteq more.moved =>
               after(t).moved \subseteq after(more).moved
      BY <2>2 DEF RegularStmt, Grows
    <2> HIDE DEF after
    <2>4. ASSUME NEW t \in States
          PROVE  Grows(t, CheckBlock(block, t))
      <3>1. Grows(after(t), CheckBlock(rest, after(t)))
        BY <2>2, <2>3 DEF RegularBlock
      <3> QED BY <2>1, <2>3, <3>1, GrowsTrans
    <2>5. ASSUME NEW t \in States, NEW more \in States, t.moved \subseteq more.moved
          PROVE  CheckBlock(block, t).moved \subseteq CheckBlock(block, more).moved
      BY <2>1, <2>2, <2>3, <2>5 DEF RegularBlock
    <2> QED BY <2>4, <2>5 DEF RegularBlock
  <1> QED BY <1>2, <1>3

\* Every block is regular: there is no smallest one that is not.
LEMMA BlockRegular ==
  ASSUME Grammar, Procedures, NEW block \in Blocks
  PROVE  RegularBlock(block)
  <1> DEFINE bad == {l \in Blocks : ~RegularBlock(l)}
             sizes == {Size(l) : l \in bad}
  <1> SUFFICES ASSUME block \in bad PROVE FALSE
    OBVIOUS
  <1>1. sizes \in SUBSET Nat /\ sizes # {}
    BY DEF Grammar
  <1>2. PICK n \in sizes : \A m \in sizes : <<m, n>> \notin OpToRel(<, Nat)
    BY <1>1, NatLessThanWellFounded, WFMin, Zenon
  <1>3. PICK l \in bad : Size(l) = n
    BY <1>2
  <1>4. ASSUME NEW part \in Smaller(Blocks, l)
        PROVE  RegularBlock(part)
    <2> SUFFICES ASSUME part \in bad PROVE FALSE
      BY DEF Smaller
    <2>1. Size(part) \in sizes /\ Size(part) < n /\ Size(part) \in Nat /\ n \in Nat
      BY <1>1, <1>3 DEF Smaller
    <2> HIDE DEF sizes, bad
    <2> QED BY <1>2, <2>1 DEF OpToRel
  <1> QED BY <1>3, <1>4, StmtsRegular

-----------------------------------------------------------------------------
(* The points of a statement *)

\* Statements that consume the value of their expression.
Consumes(s) == s.s \in {"let", "assign", "propagate", "match", "letelse", "return"}

\* The states in which the analysis walks the expression of a statement, and
\* that in which it leaves it.
Before(s, st) == IF s.s = "while" THEN [st EXCEPT !.moved = Entry(s, st)] ELSE st

After(s, st) == Walk(s.x, Before(s, st), Consumes(s))

Jumps == {"break", "continue"}

\* Every statement and every block in it is regular.
LEMMA AllRegular ==
  ASSUME Grammar, Procedures, NEW s \in Statements
  PROVE  /\ RegularStmt(s)
         /\ \A part \in Parts(s) : part \in Blocks /\ RegularBlock(part)
         /\ s.s \notin Jumps => s.x \in Expr /\ RegularExpr(s.x)
         /\ s.s \in {"let", "assign", "propagate", "match", "letelse"} => s.b \in Bindings
  <1>1. \A part \in Parts(s) : part \in Blocks
    <2>1. CASE s.s = "if"
      <3>1. Parts(s) = {s.then, s.else}
        BY <2>1 DEF Parts
      <3> QED BY <2>1, <3>1 DEF Statements, Stmts
    <2>2. CASE s.s \in {"while", "for"}
      <3>1. Parts(s) = {s.body}
        BY <2>2 DEF Parts
      <3> QED BY <2>2, <3>1 DEF Statements, Stmts
    <2>3. CASE s.s = "match"
      <3>1. Parts(s) = {s.ok, s.err}
        BY <2>3 DEF Parts
      <3> QED BY <2>3, <3>1 DEF Statements, Stmts
    <2>4. CASE s.s = "letelse"
      <3>1. Parts(s) = {s.else}
        BY <2>4 DEF Parts
      <3> QED BY <2>4, <3>1 DEF Statements, Stmts
    <2>5. CASE s.s \notin {"if", "while", "for", "match", "letelse"}
      <3>1. Parts(s) = {}
        BY <2>5 DEF Parts
      <3> QED BY <3>1
    <2> QED BY <2>1, <2>2, <2>3, <2>4, <2>5
  <1>2. \A part \in Parts(s) : RegularBlock(part)
    BY <1>1, BlockRegular
  <1>3. s.s \notin Jumps => s.x \in Expr
    BY DEF Statements, Stmts, Jumps
  <1>4. s.s \in {"let", "assign", "propagate", "match", "letelse"} => s.b \in Bindings
    BY DEF Statements, Stmts
  <1> QED BY <1>1, <1>2, <1>3, <1>4, StmtRegular, WalkRegular

LEMMA LoopParts ==
  ASSUME Grammar, Procedures, NEW s \in Loops
  PROVE  /\ s \in Statements /\ s.s \in {"while", "for"} /\ s.body \in Blocks
         /\ RegularBlock(s.body) /\ s.x \in Expr
  <1>1. s \in Statements /\ s.s \in {"while", "for"} /\ Parts(s) = {s.body} /\ s.s \notin Jumps
    BY DEF Loops, Parts, Jumps
  <1> QED BY <1>1, AllRegular

LEMMA BeforeFacts ==
  ASSUME Grammar, Procedures, NEW s \in Statements, NEW st \in States
  PROVE  /\ Before(s, st) \in States /\ Grows(st, Before(s, st))
         /\ st.moved \subseteq Before(s, st).moved
         /\ Before(s, st).diags = st.diags /\ Before(s, st).touched = st.touched
         /\ s.s # "while" => Before(s, st) = st
  <1>1. CASE s.s # "while"
    BY <1>1 DEF Before, Grows
  <1>2. CASE s.s = "while"
    <2>1. s \in Loops
      BY <1>2 DEF Loops
    <2>2. Entry(s, st) \in SUBSET Bindings /\ st.moved \subseteq Entry(s, st)
      BY <2>1, LoopParts, CondFacts
    <2> DEFINE entry == Entry(s, st)
    <2> HIDE DEF entry
    <2>3. LET r == [st EXCEPT !.moved = entry]
          IN  r \in States /\ Grows(st, r) /\ r.moved = entry /\ r.diags = st.diags /\ r.touched = st.touched
      BY <2>2 DEF States, Grows, entry
    <2> QED BY <1>2, <2>2, <2>3 DEF Before, entry
  <1> QED BY <1>1, <1>2

\* What the analysis of a statement leaves covers what it was before its
\* blocks.
LEMMA AfterFacts ==
  ASSUME Grammar, Procedures, NEW s \in Statements, s.s \notin Jumps, NEW st \in States
  PROVE  /\ After(s, st) \in States /\ Walked(Before(s, st), After(s, st))
         /\ Grows(After(s, st), CheckStmt(s, st))
  <1> DEFINE w == After(s, st)
             all == CheckStmt(s, st)
  <1>1. Before(s, st) \in States
    BY BeforeFacts
  <1>2. Consumes(s) \in BOOLEAN
    BY DEF Consumes
  <1>3. Walked(Before(s, st), w)
    BY <1>1, <1>2, AllRegular DEF RegularExpr, After
  <1>4. w \in States
    BY <1>3 DEF Walked, Grows
  <1> SUFFICES Grows(w, all)
    BY <1>3, <1>4
  <1>5. CASE s.s \in {"let", "assign", "propagate"}
    <2>1. Consumes(s) = TRUE /\ Before(s, st) = st /\ s.b \in Bindings
      BY <1>5, BeforeFacts, AllRegular DEF Consumes
    <2>2. all = Reset(w, s.b)
      BY <1>5, <2>1 DEF CheckStmt, After
    <2> HIDE DEF w, all
    <2> QED BY <1>4, <2>1, <2>2, ResetFacts
  <1>6. CASE s.s \in {"expr", "return"}
    <2>1. Before(s, st) = st
      BY <1>6, BeforeFacts
    <2>2. all = w
      <3>1. CASE s.s = "return"
        <4>1. Consumes(s) = TRUE
          BY <3>1 DEF Consumes
        <4> QED BY <2>1, <3>1, <4>1 DEF CheckStmt, After
      <3>2. CASE s.s = "expr"
        <4>1. Consumes(s) = FALSE
          BY <3>2 DEF Consumes
        <4> QED BY <2>1, <3>2, <4>1 DEF CheckStmt, After
      <3> QED BY <1>6, <3>1, <3>2
    <2> QED BY <1>4, <2>2 DEF Grows
  <1>7. CASE s.s = "if"
    <2>1. Consumes(s) = FALSE /\ Before(s, st) = st
      BY <1>7, BeforeFacts DEF Consumes
    <2>2. all = Merge(Scoped(s.then, w), Scoped(s.else, w))
      BY <1>7, <2>1 DEF CheckStmt, CheckIf, After
    <2>3. RegularBlock(s.then) /\ RegularBlock(s.else)
      BY <1>7, AllRegular DEF Parts
    <2> HIDE DEF w, all
    <2> DEFINE then == Scoped(s.then, w)
               else == Scoped(s.else, w)
    <2>4. Grows(w, then) /\ then \in States /\ else \in States
      BY <1>4, <2>3, ScopedFacts DEF Grows
    <2> HIDE DEF then, else
    <2>5. Grows(then, all)
      BY <2>2, <2>4, MergeFacts DEF then, else
    <2> QED BY <2>4, <2>5, GrowsTrans
  <1>8. CASE s.s \in {"while", "for"}
    <2>1. s \in Loops
      BY <1>8 DEF Loops
    <2>2. /\ Cond(s, st) \in States /\ all = CheckLoop(s, Entry(s, st), Cond(s, st))
          /\ Entry(s, st) \in SUBSET Bindings
      BY <2>1, LoopParts, CondFacts
    <2>3. Consumes(s) = FALSE
      BY <1>8 DEF Consumes
    <2>4. Grows(w, Cond(s, st))
      <3>1. CASE s.s = "while"
        BY <1>4, <2>3, <3>1 DEF Cond, After, Before, Grows
      <3>2. CASE s.s = "for"
        <4> DEFINE entry == Entry(s, st)
        <4>1. Cond(s, st) = [w EXCEPT !.moved = entry]
          BY <2>3, <3>2 DEF Cond, After, Before
        <4> HIDE DEF entry, w
        <4> QED BY <1>4, <2>2, <4>1 DEF States, Grows
      <3> QED BY <1>8, <3>1, <3>2
    <2> DEFINE cond == Cond(s, st)
               entry == Entry(s, st)
    <2>5. Grows(cond, all)
      <3>1. \A en \in SUBSET Bindings, co \in States : Grows(co, CheckLoop(s, en, co))
        <4> TAKE en \in SUBSET Bindings, co \in States
        <4> QED BY <2>1, LoopParts, LoopFacts
      <3> QED BY <2>2, <3>1
    <2> QED BY <2>4, <2>5, GrowsTrans
  <1>9. CASE s.s = "match"
    <2>1. Consumes(s) = TRUE /\ Before(s, st) = st
      BY <1>9, BeforeFacts DEF Consumes
    <2> DEFINE ok == Scoped(s.ok, Reset(Inner(w), s.b))
               left == [ok EXCEPT !.jumped = @ \ {s.b}]
               arms == Merge(left, Scoped(s.err, w))
    <2>2. all = Merge(w, arms)
      BY <1>9, <2>1 DEF CheckStmt, CheckMatch, After, Inner
    <2>3. RegularBlock(s.ok) /\ RegularBlock(s.err) /\ s.b \in Bindings
      <3>1. Parts(s) = {s.ok, s.err}
        BY <1>9 DEF Parts
      <3> QED BY <1>9, <3>1, AllRegular
    <2> HIDE DEF w, all
    <2>4. Reset(Inner(w), s.b) \in States
      BY <1>4, <2>3, InnerFacts, ResetFacts DEF Grows
    <2>5. ok \in States /\ Scoped(s.err, w) \in States
      BY <1>4, <2>3, <2>4, ScopedFacts DEF Grows
    <2> HIDE DEF ok
    <2>6. left \in States
      BY <2>5 DEF States
    <2> HIDE DEF left
    <2>7. arms \in States
      BY <2>5, <2>6, MergeFacts DEF Grows
    <2> HIDE DEF arms
    <2> QED BY <1>4, <2>2, <2>7, MergeFacts
  <1>10. CASE s.s = "letelse"
    <2>1. Consumes(s) = TRUE /\ Before(s, st) = st
      BY <1>10, BeforeFacts DEF Consumes
    <2> DEFINE else == Scoped(s.else, w)
               after == [else EXCEPT !.moved = w.moved]
    <2>2. all = Reset(after, s.b)
      BY <1>10, <2>1 DEF CheckStmt, CheckLetElse, After
    <2>3. RegularBlock(s.else) /\ s.b \in Bindings
      <3>1. Parts(s) = {s.else}
        BY <1>10 DEF Parts
      <3> QED BY <1>10, <3>1, AllRegular
    <2> HIDE DEF w, all
    <2>4. Grows(w, else)
      BY <1>4, <2>3, ScopedFacts
    <2> HIDE DEF else
    <2>5. Grows(w, after) /\ after \in States
      BY <1>4, <2>4 DEF Grows, States
    <2> HIDE DEF after
    <2>6. Grows(after, all)
      BY <2>2, <2>3, <2>5, ResetFacts
    <2> QED BY <2>5, <2>6, GrowsTrans
  <1> QED BY <1>5, <1>6, <1>7, <1>8, <1>9, <1>10 DEF Statements, Stmts, Jumps

\* What a statement leaves when it is passed.
LEMMA PassFacts ==
  ASSUME Grammar, Procedures, NEW s \in Statements, NEW st \in States
  PROVE  /\ s.s = "expr" => CheckStmt(s, st).moved = After(s, st).moved
         /\ s.s \in {"let", "assign", "propagate", "letelse"} =>
              \A c : c \in CheckStmt(s, st).moved <=> c \in After(s, st).moved /\ c # s.b
         /\ s.s = "assign" => s.b \in CheckStmt(s, st).touched
         /\ s.s \in {"while", "for"} => Entry(s, st) \subseteq CheckStmt(s, st).moved
         /\ s.s = "while" => After(s, st).moved = CheckStmt(s, st).moved
         /\ s.s = "while" => Before(s, st).moved = Entry(s, st)
  <1> DEFINE w == After(s, st)
             all == CheckStmt(s, st)
  <1>1. s.s \notin Jumps => w \in States
    BY AfterFacts
  <1>2. CASE s.s \in {"let", "assign", "propagate"}
    <2>1. Consumes(s) = TRUE /\ Before(s, st) = st /\ s.b \in Bindings /\ s.s \notin Jumps
      BY <1>2, BeforeFacts, AllRegular DEF Consumes, Jumps
    <2>2. all = Reset(w, s.b)
      BY <1>2, <2>1 DEF CheckStmt, After
    <2> HIDE DEF w
    <2>3. /\ \A c : c \in all.moved <=> c \in w.moved /\ c # s.b
          /\ s.b \in all.touched
      BY <1>1, <2>1, <2>2, ResetFacts
    <2> HIDE DEF all
    <2> QED BY <1>2, <2>3 DEF all, w
  <1>3. CASE s.s = "expr"
    <2>1. Before(s, st) = st /\ Consumes(s) = FALSE
      BY <1>3, BeforeFacts DEF Consumes
    <2>2. all = w
      BY <1>3, <2>1 DEF CheckStmt, After
    <2> QED BY <1>3, <2>2
  <1>4. CASE s.s = "letelse"
    <2>1. Consumes(s) = TRUE /\ Before(s, st) = st /\ s.s \notin Jumps
      BY <1>4, BeforeFacts DEF Consumes, Jumps
    <2> DEFINE else == Scoped(s.else, w)
               after == [else EXCEPT !.moved = w.moved]
    <2>2. all = Reset(after, s.b)
      BY <1>4, <2>1 DEF CheckStmt, CheckLetElse, After
    <2>3. RegularBlock(s.else) /\ s.b \in Bindings
      <3>1. Parts(s) = {s.else}
        BY <1>4 DEF Parts
      <3> QED BY <1>4, <3>1, AllRegular
    <2> HIDE DEF w, all
    <2>4. else \in States
      BY <1>1, <2>1, <2>3, ScopedFacts DEF Grows
    <2> HIDE DEF else
    <2>5. after \in States /\ after.moved = w.moved
      BY <1>1, <2>1, <2>4 DEF States
    <2> HIDE DEF after
    <2>6. \A c : c \in all.moved <=> c \in w.moved /\ c # s.b
      BY <2>2, <2>3, <2>5, ResetFacts
    <2> QED BY <1>4, <2>6 DEF all, w
  <1>5. CASE s.s \in {"while", "for"}
    <2>1. s \in Loops
      BY <1>5 DEF Loops
    <2>2. /\ Cond(s, st) \in States /\ all = CheckLoop(s, Entry(s, st), Cond(s, st))
          /\ Entry(s, st) \in SUBSET Bindings /\ Entry(s, st) \subseteq Cond(s, st).moved
      BY <2>1, LoopParts, CondFacts
    <2>3. all.moved = Cond(s, st).moved
      <3>1. \A en \in SUBSET Bindings, co \in States : CheckLoop(s, en, co).moved = co.moved
        <4> TAKE en \in SUBSET Bindings, co \in States
        <4> QED BY <2>1, LoopParts, LoopFacts
      <3> QED BY <2>2, <3>1
    <2>4. s.s = "while" => Cond(s, st) = w
      <3>1. s.s = "while" => Consumes(s) = FALSE
        BY DEF Consumes
      <3> QED BY <3>1 DEF Cond, After, Before
    <2>5. s.s = "while" => Before(s, st).moved = Entry(s, st)
      <3> DEFINE entry == Entry(s, st)
      <3>1. s.s = "while" => Before(s, st) = [st EXCEPT !.moved = entry]
        BY DEF Before
      <3> HIDE DEF entry
      <3>2. [st EXCEPT !.moved = entry].moved = entry
        BY DEF States
      <3> QED BY <3>1, <3>2 DEF entry
    <2> QED BY <1>5, <2>2, <2>3, <2>4, <2>5
  <1>6. CASE s.s \notin {"let", "assign", "propagate", "letelse", "expr", "while", "for"}
    BY <1>6
  <1> QED BY <1>2, <1>3, <1>4, <1>5, <1>6

\* A block that the analysis of a statement goes through, begun in a state:
\* the statement keeps what is reported of the block, and touched in it.
Within(s, st, block, t) ==
  /\ block \in Blocks /\ t \in States /\ CheckBlock(block, t) \in States
  /\ CheckBlock(block, t).diags \subseteq CheckStmt(s, st).diags
  /\ CheckBlock(block, t).touched \subseteq CheckStmt(s, st).touched
  /\ CheckBlock(block, t).gap => CheckStmt(s, st).gap

\* A block that is not a loop's: what is moved where it jumps is kept too.
Branch(s, st, block, t, owned) ==
  /\ Within(s, st, block, t)
  /\ \A b \in CheckBlock(block, t).jumped : b \in owned \/ b \in CheckStmt(s, st).jumped

LEMMA MergeBranch ==
  ASSUME Grammar, Procedures, NEW s \in Statements, NEW st \in States, NEW r \in States, NEW u \in States,
         CheckStmt(s, st) = Merge(r, u) \/ CheckStmt(s, st) = Merge(u, r)
  PROVE  Grows(r, CheckStmt(s, st)) /\ r.moved \subseteq CheckStmt(s, st).moved
  BY MergeFacts

LEMMA ScopedBranch ==
  ASSUME Grammar, Procedures, NEW s \in Statements, NEW st \in States, NEW block \in Blocks,
         NEW t \in States, Grows(Scoped(block, t), CheckStmt(s, st))
  PROVE  /\ Branch(s, st, block, Inner(t), Locals(block))
         /\ Inner(t).moved = t.moved
         /\ Scoped(block, t).moved = CheckBlock(block, Inner(t)).moved
  <1>1. RegularBlock(block)
    BY BlockRegular
  <1> DEFINE end == CheckBlock(block, Inner(t))
             sc == Scoped(block, t)
             all == CheckStmt(s, st)
  <1>2. /\ end \in States /\ sc.moved = end.moved /\ sc.diags = end.diags
        /\ sc.touched = end.touched /\ sc.gap = end.gap
        /\ end.jumped \ Locals(block) \subseteq sc.jumped
    BY <1>1, ScopedFacts
  <1>3. Inner(t) \in States /\ Inner(t).moved = t.moved
    BY InnerFacts
  <1>4. /\ sc.diags \subseteq all.diags /\ sc.touched \subseteq all.touched
        /\ sc.jumped \subseteq all.jumped /\ (sc.gap => all.gap)
    BY DEF Grows
  <1> HIDE DEF end, sc, all
  <1>5. \A b \in end.jumped : b \in Locals(block) \/ b \in all.jumped
    BY <1>2, <1>4
  <1> QED BY <1>2, <1>3, <1>4, <1>5 DEF Branch, Within, end, sc, all

LEMMA IfBranch ==
  ASSUME Grammar, Procedures, NEW s \in Statements, s.s = "if", NEW st \in States,
         NEW block \in {s.then, s.else}
  PROVE  /\ Branch(s, st, block, Inner(After(s, st)), Locals(block))
         /\ Inner(After(s, st)).moved = After(s, st).moved
         /\ CheckBlock(block, Inner(After(s, st))).moved \subseteq CheckStmt(s, st).moved
  <1> DEFINE w == After(s, st)
             then == Scoped(s.then, w)
             else == Scoped(s.else, w)
             all == CheckStmt(s, st)
  <1>1. w \in States
    BY AfterFacts DEF Jumps
  <1>2. Consumes(s) = FALSE /\ Before(s, st) = st
    BY BeforeFacts DEF Consumes
  <1>3. all = Merge(then, else)
    BY <1>2 DEF CheckStmt, CheckIf, After
  <1>4. /\ s.then \in Blocks /\ s.else \in Blocks
        /\ RegularBlock(s.then) /\ RegularBlock(s.else)
    BY AllRegular DEF Parts
  <1> HIDE DEF w
  <1>5. then \in States /\ else \in States
    BY <1>1, <1>4, ScopedFacts DEF Grows
  <1> HIDE DEF then, else
  <1>6. /\ Grows(then, all) /\ then.moved \subseteq all.moved
        /\ Grows(else, all) /\ else.moved \subseteq all.moved
    BY <1>3, <1>5, MergeFacts
  <1>7. Grows(Scoped(block, w), all) /\ Scoped(block, w).moved \subseteq all.moved
    BY <1>6 DEF then, else
  <1>8. block \in Blocks
    BY <1>4
  <1> HIDE DEF all
  <1>9. /\ Branch(s, st, block, Inner(w), Locals(block)) /\ Inner(w).moved = w.moved
        /\ Scoped(block, w).moved = CheckBlock(block, Inner(w)).moved
    BY <1>1, <1>7, <1>8, ScopedBranch DEF all
  <1> QED BY <1>7, <1>9 DEF w, all

LEMMA ElseBranch ==
  ASSUME Grammar, Procedures, NEW s \in Statements, s.s = "letelse", NEW st \in States
  PROVE  /\ Branch(s, st, s.else, Inner(After(s, st)), Locals(s.else))
         /\ Inner(After(s, st)).moved = After(s, st).moved
  <1> DEFINE w == After(s, st)
             else == Scoped(s.else, w)
             after == [else EXCEPT !.moved = w.moved]
             all == CheckStmt(s, st)
  <1>1. w \in States
    BY AfterFacts DEF Jumps
  <1>2. Consumes(s) = TRUE /\ Before(s, st) = st
    BY BeforeFacts DEF Consumes
  <1>3. all = Reset(after, s.b)
    BY <1>2 DEF CheckStmt, CheckLetElse, After
  <1>4. RegularBlock(s.else) /\ s.b \in Bindings /\ s.else \in Blocks
    <2>1. Parts(s) = {s.else}
      BY DEF Parts
    <2> QED BY <2>1, AllRegular
  <1> HIDE DEF w, all
  <1>5. else \in States
    BY <1>1, <1>4, ScopedFacts DEF Grows
  <1> HIDE DEF else
  <1>6. Grows(else, after) /\ after \in States
    BY <1>1, <1>5 DEF Grows, States
  <1> HIDE DEF after
  <1>7. Grows(after, all)
    BY <1>3, <1>4, <1>6, ResetFacts
  <1>8. Grows(Scoped(s.else, w), CheckStmt(s, st))
    BY <1>6, <1>7, GrowsTrans DEF else, all
  <1>9. Branch(s, st, s.else, Inner(w), Locals(s.else)) /\ Inner(w).moved = w.moved
    BY <1>1, <1>4, <1>8, ScopedBranch
  <1> QED BY <1>9 DEF w

\* The state in which the arm of an Ok is analysed: its payload is fresh.
Bound(s, st) == Reset(Inner(After(s, st)), s.b)

LEMMA MatchBranch ==
  ASSUME Grammar, Procedures, NEW s \in Statements, s.s = "match", NEW st \in States
  PROVE  /\ Branch(s, st, s.err, Inner(After(s, st)), Locals(s.err))
         /\ Inner(After(s, st)).moved = After(s, st).moved
         /\ CheckBlock(s.err, Inner(After(s, st))).moved \subseteq CheckStmt(s, st).moved
         /\ Branch(s, st, s.ok, Inner(Bound(s, st)), Locals(s.ok) \cup {s.b})
         /\ \A c : c \in Inner(Bound(s, st)).moved <=> c \in After(s, st).moved /\ c # s.b
         /\ CheckBlock(s.ok, Inner(Bound(s, st))).moved \subseteq CheckStmt(s, st).moved
  <1> DEFINE w == After(s, st)
             bound == Bound(s, st)
             ok == Scoped(s.ok, bound)
             left == [ok EXCEPT !.jumped = @ \ {s.b}]
             right == Scoped(s.err, w)
             arms == Merge(left, right)
             all == CheckStmt(s, st)
  <1>1. w \in States
    BY AfterFacts DEF Jumps
  <1>2. Consumes(s) = TRUE /\ Before(s, st) = st
    BY BeforeFacts DEF Consumes
  <1>3. all = Merge(w, arms)
    BY <1>2 DEF CheckStmt, CheckMatch, After, Inner, Bound
  <1>4. /\ RegularBlock(s.ok) /\ RegularBlock(s.err) /\ s.b \in Bindings
        /\ s.ok \in Blocks /\ s.err \in Blocks
    <2>1. Parts(s) = {s.ok, s.err}
      BY DEF Parts
    <2> QED BY <2>1, AllRegular
  <1>5. bound \in States /\ \A c : c \in bound.moved <=> c \in w.moved /\ c # s.b
    <2>1. bound = Reset(Inner(w), s.b)
      BY DEF Bound
    <2> HIDE DEF bound, w
    <2>2. Inner(w) \in States /\ Inner(w).moved = w.moved
      BY <1>1, InnerFacts
    <2> QED BY <1>4, <2>1, <2>2, ResetFacts DEF Grows
  <1> HIDE DEF w, bound, all
  <1> DEFINE end == CheckBlock(s.ok, Inner(bound))
  <1>6. /\ ok \in States /\ right \in States
        /\ end \in States /\ ok.moved = end.moved /\ ok.diags = end.diags
        /\ ok.touched = end.touched /\ ok.gap = end.gap
        /\ end.jumped \ Locals(s.ok) \subseteq ok.jumped
    BY <1>1, <1>4, <1>5, ScopedFacts DEF Grows
  <1> HIDE DEF ok, right, end
  <1>7. /\ left \in States /\ left.moved = ok.moved /\ left.diags = ok.diags
        /\ left.touched = ok.touched /\ left.gap = ok.gap
        /\ left.jumped = ok.jumped \ {s.b}
    BY <1>6 DEF States
  <1> HIDE DEF left
  <1>8. /\ arms \in States /\ Grows(left, arms) /\ Grows(right, arms)
        /\ left.moved \subseteq arms.moved /\ right.moved \subseteq arms.moved
    BY <1>6, <1>7, MergeFacts DEF Grows
  <1> HIDE DEF arms
  <1>9. Grows(arms, all) /\ arms.moved \subseteq all.moved
    BY <1>1, <1>3, <1>8, MergeFacts
  <1>10. Grows(left, all) /\ Grows(right, all)
    BY <1>8, <1>9, GrowsTrans
  <1>11. /\ Branch(s, st, s.err, Inner(w), Locals(s.err)) /\ Inner(w).moved = w.moved
         /\ right.moved = CheckBlock(s.err, Inner(w)).moved
    BY <1>1, <1>4, <1>10, ScopedBranch DEF right, all
  <1>12. Inner(bound) \in States /\ Inner(bound).moved = bound.moved
    BY <1>5, InnerFacts
  <1>13. Branch(s, st, s.ok, Inner(bound), Locals(s.ok) \cup {s.b})
    <2>1. /\ end.diags \subseteq all.diags /\ end.touched \subseteq all.touched
          /\ (end.gap => all.gap) /\ ok.jumped \ {s.b} \subseteq all.jumped
      BY <1>6, <1>7, <1>10 DEF Grows
    <2>2. \A b \in end.jumped : b \in Locals(s.ok) \cup {s.b} \/ b \in all.jumped
      BY <1>6, <2>1
    <2> QED BY <1>4, <1>6, <1>12, <2>1, <2>2 DEF Branch, Within, end, all
  <1>14. end.moved \subseteq all.moved /\ right.moved \subseteq all.moved
    BY <1>6, <1>7, <1>8, <1>9
  <1>15. \A c : c \in Inner(bound).moved <=> c \in w.moved /\ c # s.b
    BY <1>5, <1>12
  <1> QED BY <1>11, <1>13, <1>14, <1>15 DEF w, bound, all, end

LEMMA LoopBranch ==
  ASSUME Grammar, Procedures, NEW s \in Loops, NEW st \in States
  PROVE  /\ Within(s, st, s.body, Begun(Cond(s, st)))
         /\ Entry(s, st) \subseteq Begun(Cond(s, st)).moved
         /\ s.s = "while" => Begun(Cond(s, st)).moved = After(s, st).moved
         /\ CheckBlock(s.body, Begun(Cond(s, st))).moved \subseteq Entry(s, st)
         /\ ~CheckStmt(s, st).gap =>
              /\ \A b \in CheckBlock(s.body, Begun(Cond(s, st))).jumped :
                   b \in Locals(s.body) \/ b \in Entry(s, st)
              /\ s.s = "for" => s.x.b \notin CheckBlock(s.body, Begun(Cond(s, st))).touched
  <1> DEFINE cond == Cond(s, st)
             entry == Entry(s, st)
             begun == Begun(cond)
             end == CheckBlock(s.body, begun)
             all == CheckStmt(s, st)
  <1>1. s \in Statements /\ s.body \in Blocks /\ RegularBlock(s.body)
    BY LoopParts
  <1>2. /\ entry \in SUBSET Bindings /\ cond \in States
        /\ all = CheckLoop(s, entry, cond)
        /\ entry \subseteq cond.moved
        /\ \A t \in States : t.moved = cond.moved =>
             CheckBlock(s.body, t).moved \subseteq entry
    BY <1>1, CondFacts
  <1>3. s.s = "while" => cond = After(s, st)
    <2>1. s.s = "while" => Consumes(s) = FALSE
      BY DEF Consumes
    <2> QED BY <2>1 DEF Cond, After, Before
  <1> HIDE DEF cond, entry, all
  <1>4. /\ begun \in States /\ begun.moved = cond.moved
        /\ end \in States
        /\ end.diags \subseteq all.diags /\ end.touched \subseteq all.touched
        /\ end.gap => all.gap
        /\ ~all.gap => /\ end.jumped \ Locals(s.body) \subseteq entry
                       /\ s.s = "for" => s.x.b \notin end.touched
    <2>1. \A en \in SUBSET Bindings, co \in States :
            LET be == Begun(co)
                e == CheckBlock(s.body, be)
                r == CheckLoop(s, en, co)
            IN  /\ be \in States /\ be.moved = co.moved /\ e \in States
                /\ e.diags \subseteq r.diags /\ e.touched \subseteq r.touched /\ (e.gap => r.gap)
                /\ ~r.gap => /\ e.jumped \ Locals(s.body) \subseteq en
                             /\ s.s = "for" => s.x.b \notin e.touched
      <3> TAKE en \in SUBSET Bindings, co \in States
      <3> QED BY <1>1, LoopFacts
    <2> QED BY <1>2, <2>1
  <1> HIDE DEF begun, end
  <1>5. end.moved \subseteq entry
    BY <1>2, <1>4 DEF end
  <1>6. ~all.gap => \A b \in end.jumped : b \in Locals(s.body) \/ b \in entry
    BY <1>4
  <1> QED BY <1>1, <1>2, <1>3, <1>4, <1>5, <1>6 DEF Within, cond, entry, begun, end, all

\* A name that is used and of which nothing is reported has not been moved.
LEMMA UseFacts ==
  ASSUME Grammar, Procedures, NEW e \in Expr, NEW st \in States, NEW consume \in BOOLEAN,
         Walk(e, st, consume).diags = {}, e.e = "name"
  PROVE  /\ e.b \in Bindings /\ e.b \notin st.moved
         /\ consume => e.b \in Walk(e, st, consume).moved /\ e.b \in Walk(e, st, consume).touched
         /\ ~consume => Walk(e, st, consume) = st
  <1>1. e.b \in Bindings
    BY DEF Expr, Exprs
  <1>2. Walk(e, st, consume) = UseName(e, st, consume)
    BY DEF Walk, Borrows
  <1>3. e.b \notin st.moved
    BY <1>2 DEF UseName, Report, States
  <1> QED BY <1>1, <1>2, <1>3 DEF UseName, Moves, States

-----------------------------------------------------------------------------
(* The arguments of a call *)

\* The analysis of the first argument of a list.
Judged(args, st, borrowed, consumed) == JudgeArg(Head(args), st, borrowed, consumed)

Passed(args, st, borrowed, consumed) ==
  Walk(Head(args), Judged(args, st, borrowed, consumed), ~Borrows(Head(args)))

LEMMA RestFacts ==
  ASSUME Grammar, Procedures, NEW args \in Lists, args # <<>>, NEW st \in States,
         NEW borrowed \in Borrowings, NEW consumed \in SUBSET Bindings
  PROVE  /\ Head(args) \in Exprs(Smaller(Lists, args)) /\ Head(args) \in Expr
         /\ Tail(args) \in Smaller(Lists, args) /\ Tail(args) \in Lists
         /\ Judged(args, st, borrowed, consumed) \in States
         /\ Walked(st, Judged(args, st, borrowed, consumed))
         /\ Judged(args, st, borrowed, consumed).moved = st.moved
         /\ Passed(args, st, borrowed, consumed) \in States
         /\ Walked(Judged(args, st, borrowed, consumed), Passed(args, st, borrowed, consumed))
         /\ WithBorrow(Head(args), borrowed) \in Borrowings
         /\ WithMove(Head(args), consumed) \in SUBSET Bindings
         /\ WalkArgs(args, st, borrowed, consumed) =
              WalkArgs(Tail(args), Passed(args, st, borrowed, consumed),
                       WithBorrow(Head(args), borrowed), WithMove(Head(args), consumed))
         /\ Walked(Passed(args, st, borrowed, consumed), WalkArgs(args, st, borrowed, consumed))
  <1> DEFINE e == Head(args)
             rest == Tail(args)
             judged == Judged(args, st, borrowed, consumed)
             passed == Passed(args, st, borrowed, consumed)
             bo == WithBorrow(e, borrowed)
             co == WithMove(e, consumed)
  <1>1. /\ e \in Exprs(Smaller(Lists, args)) /\ rest \in Smaller(Lists, args)
        /\ e \in Expr
    BY DEF Grammar
  <1>2. /\ rest \in Lists /\ RegularList(rest) /\ RegularExpr(e)
    BY <1>1, ListRegular, WalkRegular DEF Smaller
  <1>3. WalkArgs(args, st, borrowed, consumed) = WalkArgs(rest, passed, bo, co)
    BY DEF Procedures, WalkRest, Passed, Judged
  <1>4. /\ Walked(st, judged) /\ judged.moved = st.moved
        /\ bo \in Borrowings /\ co \in SUBSET Bindings
    BY <1>1, JudgeFacts DEF Judged
  <1> DEFINE consume == ~Borrows(e)
  <1>5. passed = Walk(e, judged, consume) /\ consume \in BOOLEAN
    BY DEF Passed, Borrows
  <1> HIDE DEF e, rest, judged, passed, bo, co, consume
  <1>6. judged \in States
    BY <1>4 DEF Walked, Grows
  <1>7. Walked(judged, passed)
    BY <1>2, <1>5, <1>6 DEF RegularExpr
  <1>8. passed \in States
    BY <1>7 DEF Walked, Grows
  <1>9. Walked(passed, WalkArgs(rest, passed, bo, co))
    BY <1>2, <1>4, <1>8 DEF RegularList
  <1> QED BY <1>1, <1>2, <1>3, <1>4, <1>6, <1>7, <1>8, <1>9 DEF e, rest, judged, passed, bo, co

\* Nothing is reported of an argument.
LEMMA JudgedClear ==
  ASSUME NEW lists, NEW e \in Exprs(lists), NEW st \in States, NEW borrowed \in Borrowings,
         NEW consumed \in SUBSET Bindings, JudgeArg(e, st, borrowed, consumed).diags = {}
  PROVE  /\ Borrows(e) => ~Conflicts(e.b, e.e, borrowed) /\ e.b \notin consumed
         /\ e.e = "name" => \A k \in {"ref", "mutref"} : <<e.b, k>> \notin borrowed
  <1>1. CASE Borrows(e)
    <2> DEFINE conflict == Conflicts(e.b, e.e, borrowed)
               twice == e.b \in consumed
               first == Report(st, conflict, "NQ-BORROW-006")
    <2>1. conflict \in BOOLEAN /\ twice \in BOOLEAN
      BY DEF Conflicts
    <2>2. Report(first, twice, "NQ-BORROW-007").diags = {}
      BY <1>1 DEF JudgeArg
    <2> HIDE DEF conflict, twice
    <2>3. first.diags = {} <=> (st.diags = {} /\ ~conflict)
      BY <2>1, ReportFacts DEF Codes
    <2>4. first \in States
      BY <2>1, ReportFacts DEF Codes, Walked, Grows
    <2> HIDE DEF first
    <2>5. first.diags = {} /\ ~twice
      BY <2>1, <2>2, <2>4, ReportFacts DEF Codes
    <2>6. ~conflict /\ ~twice
      BY <2>3, <2>5
    <2> QED BY <1>1, <2>6 DEF conflict, twice, Borrows
  <1>2. CASE ~Borrows(e)
    <2> DEFINE clash == Moves(e, TRUE) /\ \E k \in {"ref", "mutref"} : <<e.b, k>> \in borrowed
    <2>1. clash \in BOOLEAN
      OBVIOUS
    <2>2. Report(st, clash, "NQ-BORROW-007").diags = {}
      BY <1>2 DEF JudgeArg
    <2> HIDE DEF clash
    <2>3. ~clash
      BY <2>1, <2>2, ReportFacts DEF Codes
    <2> QED BY <1>2, <2>3 DEF clash, Moves
  <1> QED BY <1>1, <1>2

\* Two arguments that name the same binding, one of them a borrow.
Both(one, other) ==
  /\ Borrows(one) /\ other.e \in {"name", "ref", "mutref"} /\ one.b = other.b

ClearList(args) ==
  \A st \in States, borrowed \in Borrowings, consumed \in SUBSET Bindings :
    WalkArgs(args, st, borrowed, consumed).diags = {} =>
      /\ \A j \in DOMAIN args :
           /\ Borrows(args[j]) =>
                ~Conflicts(args[j].b, args[j].e, borrowed) /\ args[j].b \notin consumed
           /\ args[j].e = "name" => \A k \in {"ref", "mutref"} : <<args[j].b, k>> \notin borrowed
      /\ \A i, j \in DOMAIN args :
           i # j /\ Both(args[i], args[j]) => args[i].e = "ref" /\ args[j].e = "ref"

\* A list of which nothing is reported: each argument is judged against all
\* those before it.
LEMMA RestClear ==
  ASSUME Grammar, Procedures, NEW args \in Lists,
         \A part \in Smaller(Lists, args) : ClearList(part)
  PROVE  ClearList(args)
  <1> SUFFICES ASSUME NEW st \in States, NEW borrowed \in Borrowings,
                      NEW consumed \in SUBSET Bindings,
                      WalkArgs(args, st, borrowed, consumed).diags = {}
               PROVE  /\ \A j \in DOMAIN args :
                           /\ Borrows(args[j]) =>
                                /\ ~Conflicts(args[j].b, args[j].e, borrowed)
                                /\ args[j].b \notin consumed
                           /\ args[j].e = "name" =>
                                \A k \in {"ref", "mutref"} : <<args[j].b, k>> \notin borrowed
                      /\ \A i, j \in DOMAIN args :
                           i # j /\ Both(args[i], args[j]) =>
                             args[i].e = "ref" /\ args[j].e = "ref"
    BY DEF ClearList
  <1>1. args \in Seq(Expr)
    BY DEF Grammar
  <1>2. CASE args = <<>>
    BY <1>2
  <1>3. CASE args # <<>>
    <2> DEFINE e == Head(args)
               rest == Tail(args)
               judged == Judged(args, st, borrowed, consumed)
               passed == Passed(args, st, borrowed, consumed)
               bo == WithBorrow(e, borrowed)
               co == WithMove(e, consumed)
    <2>1. /\ e = args[1] /\ DOMAIN args = 1 .. Len(args) /\ Len(args) \in Nat
          /\ DOMAIN rest = 1 .. Len(args) - 1
          /\ \A i \in 1 .. Len(args) : i # 1 => i - 1 \in DOMAIN rest /\ args[i] = rest[i - 1]
      BY <1>1, <1>3
    <2>2. /\ e \in Exprs(Smaller(Lists, args)) /\ rest \in Smaller(Lists, args)
          /\ judged \in States /\ passed \in States /\ Walked(judged, passed)
          /\ bo \in Borrowings /\ co \in SUBSET Bindings
          /\ WalkArgs(args, st, borrowed, consumed) = WalkArgs(rest, passed, bo, co)
          /\ Walked(passed, WalkArgs(rest, passed, bo, co))
      BY <1>3, RestFacts
    <2>3. judged.diags = {} /\ WalkArgs(rest, passed, bo, co).diags = {}
      BY <2>2 DEF Walked, Grows
    <2>4. /\ Borrows(e) => ~Conflicts(e.b, e.e, borrowed) /\ e.b \notin consumed
          /\ e.e = "name" => \A k \in {"ref", "mutref"} : <<e.b, k>> \notin borrowed
      BY <2>2, <2>3, JudgedClear DEF Judged
    <2>5. bo = IF Borrows(e) THEN borrowed \cup {<<e.b, e.e>>} ELSE borrowed
      BY DEF WithBorrow
    <2>6. co = IF e.e = "name" THEN consumed \cup {e.b} ELSE consumed
      BY DEF WithMove, Moves
    <2>7. /\ \A j \in DOMAIN rest :
               /\ Borrows(rest[j]) =>
                    ~Conflicts(rest[j].b, rest[j].e, bo) /\ rest[j].b \notin co
               /\ rest[j].e = "name" => \A k \in {"ref", "mutref"} : <<rest[j].b, k>> \notin bo
          /\ \A i, j \in DOMAIN rest :
               i # j /\ Both(rest[i], rest[j]) => rest[i].e = "ref" /\ rest[j].e = "ref"
      BY <2>2, <2>3 DEF ClearList
    <2> HIDE DEF e, rest, judged, passed, bo, co
    <2>8. ASSUME NEW j \in DOMAIN args
          PROVE  /\ Borrows(args[j]) =>
                      ~Conflicts(args[j].b, args[j].e, borrowed) /\ args[j].b \notin consumed
                 /\ args[j].e = "name" => \A k \in {"ref", "mutref"} : <<args[j].b, k>> \notin borrowed
      <3>1. CASE j = 1
        BY <2>1, <2>4, <3>1
      <3>2. CASE j # 1
        <4>1. j - 1 \in DOMAIN rest /\ args[j] = rest[j - 1]
          BY <2>1, <3>2
        <4>2. borrowed \subseteq bo /\ consumed \subseteq co
          BY <2>5, <2>6
        <4> QED BY <2>7, <4>1, <4>2 DEF Conflicts
      <3> QED BY <3>1, <3>2
    <2>9. ASSUME NEW j \in DOMAIN rest
          PROVE  /\ Both(e, rest[j]) => e.e = "ref" /\ rest[j].e = "ref"
                 /\ Both(rest[j], e) => e.e = "ref" /\ rest[j].e = "ref"
      <3>1. /\ Borrows(rest[j]) => ~Conflicts(rest[j].b, rest[j].e, bo) /\ rest[j].b \notin co
            /\ rest[j].e = "name" => \A k \in {"ref", "mutref"} : <<rest[j].b, k>> \notin bo
        BY <2>7
      <3>2. Borrows(e) => <<e.b, e.e>> \in bo
        BY <2>5
      <3>3. e.e = "name" => e.b \in co
        BY <2>6
      <3> QED BY <3>1, <3>2, <3>3 DEF Both, Borrows, Conflicts
    <2>10. ASSUME NEW i \in DOMAIN args, NEW j \in DOMAIN args, i # j, Both(args[i], args[j])
           PROVE  args[i].e = "ref" /\ args[j].e = "ref"
      <3>1. CASE i = 1
        BY <2>1, <2>9, <2>10, <3>1
      <3>2. CASE j = 1
        BY <2>1, <2>9, <2>10, <3>2
      <3>3. CASE i # 1 /\ j # 1
        <4>1. /\ i - 1 \in DOMAIN rest /\ args[i] = rest[i - 1]
              /\ j - 1 \in DOMAIN rest /\ args[j] = rest[j - 1]
              /\ i - 1 # j - 1
          BY <2>1, <2>10, <3>3
        <4> QED BY <2>7, <2>10, <4>1
      <3> QED BY <3>1, <3>2, <3>3
    <2> QED BY <2>8, <2>10
  <1> QED BY <1>2, <1>3

LEMMA ListClear ==
  ASSUME Grammar, Procedures, NEW args \in Lists
  PROVE  ClearList(args)
  <1> DEFINE bad == {l \in Lists : ~ClearList(l)}
             sizes == {Size(l) : l \in bad}
  <1> SUFFICES ASSUME args \in bad PROVE FALSE
    OBVIOUS
  <1>1. sizes \in SUBSET Nat /\ sizes # {}
    BY DEF Grammar
  <1>2. PICK n \in sizes : \A m \in sizes : <<m, n>> \notin OpToRel(<, Nat)
    BY <1>1, NatLessThanWellFounded, WFMin, Zenon
  <1>3. PICK l \in bad : Size(l) = n
    BY <1>2
  <1>4. ASSUME NEW part \in Smaller(Lists, l)
        PROVE  ClearList(part)
    <2> SUFFICES ASSUME part \in bad PROVE FALSE
      BY DEF Smaller
    <2>1. Size(part) \in sizes /\ Size(part) < n /\ Size(part) \in Nat /\ n \in Nat
      BY <1>1, <1>3 DEF Smaller
    <2> HIDE DEF sizes, bad
    <2> QED BY <1>2, <2>1 DEF OpToRel
  <1> QED BY <1>3, <1>4, RestClear

\* The end of a list: a binding that was borrowed and has been moved since is
\* a gap.
LEMMA EndFacts ==
  ASSUME Grammar, Procedures, NEW args \in Lists, args = <<>>, NEW st \in States,
         NEW borrowed \in Borrowings, NEW consumed \in SUBSET Bindings
  PROVE  /\ WalkArgs(args, st, borrowed, consumed).moved = st.moved
         /\ ~WalkArgs(args, st, borrowed, consumed).gap =>
              \A p \in borrowed : p[1] \notin st.moved
  <1> DEFINE late == \E p \in borrowed : p[1] \in st.moved
             new == st.gap \/ late
  <1>1. WalkArgs(args, st, borrowed, consumed) = [st EXCEPT !.gap = new]
    BY DEF Procedures, WalkRest
  <1>2. new \in BOOLEAN
    BY DEF States
  <1>3. ~new => \A p \in borrowed : p[1] \notin st.moved
    OBVIOUS
  <1> HIDE DEF new
  <1>4. [st EXCEPT !.gap = new].moved = st.moved /\ [st EXCEPT !.gap = new].gap = new
    BY DEF States
  <1> QED BY <1>1, <1>3, <1>4

-----------------------------------------------------------------------------
(* Frames and the blocks they run *)

\* An element of a stack, counted from the outermost.
Nth(seq, d) == seq[Len(seq) + 1 - d]

Alike(f, g) == f.kind = g.kind /\ f.todo = g.todo /\ f.owns = g.owns /\ f.scope = g.scope

\* The first frames of both stacks do the same.
Agree(fs, gs, m) == \A d \in 1 .. m : Alike(Nth(fs, d), Nth(gs, d))

LEMMA NthPush ==
  ASSUME NEW S, NEW seq \in Seq(S), NEW top
  PROVE  /\ Len(<<top>> \o seq) = Len(seq) + 1
         /\ Nth(<<top>> \o seq, Len(seq) + 1) = top
         /\ \A d \in 1 .. Len(seq) : Nth(<<top>> \o seq, d) = Nth(seq, d)
         /\ <<top>> \o seq \in Seq(S \cup {top})
  <1> DEFINE all == S \cup {top}
             new == <<top>> \o seq
             n == Len(seq)
  <1>1. seq \in Seq(all) /\ top \in all
    OBVIOUS
  <1> HIDE DEF all
  <1>2. /\ n \in Nat /\ new \in Seq(all) /\ Len(new) = n + 1 /\ new[1] = top
        /\ \A i \in 1 .. n : new[i + 1] = seq[i]
    BY <1>1
  <1> HIDE DEF n, new
  <1>3. Nth(new, n + 1) = top
    <2>1. (n + 1) + 1 - (n + 1) = 1
      BY <1>2
    <2> QED BY <1>2, <2>1 DEF Nth
  <1>4. ASSUME NEW d \in 1 .. n
        PROVE  Nth(new, d) = Nth(seq, d)
    <2>1. (n + 1) + 1 - d = (n + 1 - d) + 1 /\ n + 1 - d \in 1 .. n
      BY <1>2
    <2> QED BY <1>2, <2>1 DEF Nth, n
  <1> QED BY <1>2, <1>3, <1>4 DEF n, new, all

LEMMA NthTail ==
  ASSUME NEW S, NEW seq \in Seq(S), seq # <<>>
  PROVE  /\ Len(seq) \in Nat /\ Len(seq) >= 1
         /\ Len(Tail(seq)) = Len(seq) - 1
         /\ Nth(seq, Len(seq)) = Head(seq)
         /\ \A d \in 1 .. Len(seq) - 1 : Nth(Tail(seq), d) = Nth(seq, d)
         /\ Tail(seq) \in Seq(S)
  <1> DEFINE n == Len(seq)
             rest == Tail(seq)
  <1>1. /\ n \in Nat /\ n >= 1 /\ rest \in Seq(S) /\ Len(rest) = n - 1 /\ Head(seq) = seq[1]
        /\ \A i \in 1 .. n - 1 : rest[i] = seq[i + 1]
    OBVIOUS
  <1> HIDE DEF n, rest
  <1>2. n + 1 - n = 1
    BY <1>1
  <1>3. ASSUME NEW d \in 1 .. n - 1
        PROVE  Nth(rest, d) = Nth(seq, d)
    <2>1. (n - 1) + 1 - d \in 1 .. n - 1 /\ (n - 1) + 1 - d + 1 = n + 1 - d
      BY <1>1
    <2> QED BY <1>1, <2>1 DEF Nth, n
  <1> QED BY <1>1, <1>2, <1>3 DEF n, rest, Nth

\* A frame runs what is left of a block; the list of a for loop may have been
\* evaluated.
Turned(f, block) ==
  /\ block # <<>> /\ Head(block).s = "for" /\ Head(block).x.e = "name"
  /\ \E items : f.todo = <<[s |-> "each", items |-> items, body |-> Head(block).body]>> \o Tail(block)

Follows(f, block) == f.todo = block \/ Turned(f, block)

Repeats(block) == block # <<>> /\ Head(block).s \in {"while", "for"}

Fin(src, at, d) == CheckBlock(src[d], at[d])

\* src and at are the rest of the block that each frame runs and the state
\* the analysis had there: nothing is reported of it.
Shape(fs, src, at) ==
  /\ src \in [Nat -> Blocks] /\ at \in [Nat -> States]
  /\ \A d \in 1 .. Len(fs) : Follows(Nth(fs, d), src[d]) /\ Fin(src, at, d).diags = {}
  /\ \A d \in 2 .. Len(fs) : Nth(fs, d).kind = "loop" => Repeats(src[d - 1])

\* What the end of a frame, and its jumps, leave to the frame around it.
Link(f, parent, block, st, fin) ==
  IF f.kind = "loop"
  THEN LET s == Head(block)
       IN  /\ fin.moved \subseteq Entry(s, st)
           /\ \A b \in fin.jumped : b \in f.owns \/ b \in Entry(s, st)
           /\ s.s = "for" => parent.todo # block /\ s.x.b \notin fin.touched
  ELSE /\ parent.todo = block
       /\ f.kind # "else" => fin.moved \subseteq st.moved

Links(fs, src, at) ==
  \A d \in 2 .. Len(fs) :
    Link(Nth(fs, d), Nth(fs, d - 1), src[d - 1], at[d - 1], Fin(src, at, d))

\* What is touched in a frame is touched in those around it.
Touches(fs, src, at) ==
  \A c, d \in 1 .. Len(fs) : c <= d => Fin(src, at, d).touched \subseteq Fin(src, at, c).touched

\* What has been moved at a jump reaches the frames around it, up to a loop,
\* or is dropped on the way.
Escapes(fs, src, at) ==
  \A c, d \in 1 .. Len(fs) :
    c <= d /\ (\A e \in c + 1 .. d : Nth(fs, e).kind # "loop") =>
      \A b \in Fin(src, at, d).jumped :
        b \in Fin(src, at, c).jumped \/ \E e \in c + 1 .. d : b \in Nth(fs, e).owns

\* A frame owns nothing that the frames around it have in scope.
Apart(fs) ==
  \A c, d \in 1 .. Len(fs) : c < d => Nth(fs, c).scope \cap Nth(fs, d).owns = {}

Chain(fs, src, at) ==
  /\ \A d \in 1 .. Len(fs) : ~Fin(src, at, d).gap
  /\ Links(fs, src, at) /\ Touches(fs, src, at) /\ Escapes(fs, src, at) /\ Apart(fs)

LEMMA FollowsAlike ==
  ASSUME NEW f, NEW g, Alike(f, g), NEW block, Follows(f, block)
  PROVE  Follows(g, block)
  BY DEF Alike, Follows, Turned

\* The outer frames of a stack.
LEMMA LeaveChain ==
  ASSUME NEW fs, NEW gs, NEW src, NEW at, Shape(fs, src, at),
         Len(fs) \in Nat, Len(gs) \in Nat, Len(gs) <= Len(fs), Agree(fs, gs, Len(gs))
  PROVE  /\ Shape(gs, src, at)
         /\ Chain(fs, src, at) => Chain(gs, src, at)
  <1> DEFINE n == Len(fs)
             m == Len(gs)
  <1>1. \A d \in 1 .. m : d \in 1 .. n /\ Alike(Nth(fs, d), Nth(gs, d))
    BY DEF Agree
  <1>2. \A d \in 2 .. m : d \in 2 .. n /\ d \in 1 .. m /\ d - 1 \in 1 .. m
    OBVIOUS
  <1> HIDE DEF n, m
  <1>3. Shape(gs, src, at)
    BY <1>1, <1>2 DEF Shape, Follows, Turned, Alike, n, m
  <1>4. ASSUME Chain(fs, src, at)
        PROVE  Chain(gs, src, at)
    <2>1. Links(gs, src, at)
      <3> SUFFICES ASSUME NEW d \in 2 .. m
                   PROVE  Link(Nth(gs, d), Nth(gs, d - 1), src[d - 1], at[d - 1], Fin(src, at, d))
        BY DEF Links, m
      <3>1. Link(Nth(fs, d), Nth(fs, d - 1), src[d - 1], at[d - 1], Fin(src, at, d))
        BY <1>2, <1>4 DEF Chain, Links, n
      <3>2. Alike(Nth(fs, d), Nth(gs, d)) /\ Alike(Nth(fs, d - 1), Nth(gs, d - 1))
        BY <1>1, <1>2
      <3> QED BY <3>1, <3>2 DEF Link, Alike
    <2>2. Touches(gs, src, at)
      BY <1>1, <1>4 DEF Chain, Touches, n, m
    <2>3. Escapes(gs, src, at)
      <3> SUFFICES ASSUME NEW c \in 1 .. m, NEW d \in 1 .. m, c <= d,
                          \A e \in c + 1 .. d : Nth(gs, e).kind # "loop",
                          NEW b \in Fin(src, at, d).jumped
                   PROVE  b \in Fin(src, at, c).jumped \/ \E e \in c + 1 .. d : b \in Nth(gs, e).owns
        BY DEF Escapes, m
      <3>1. \A e \in c + 1 .. d : e \in 1 .. m
        BY DEF m
      <3>2. \A e \in c + 1 .. d : Nth(fs, e).kind # "loop" /\ Nth(fs, e).owns = Nth(gs, e).owns
        BY <1>1, <3>1 DEF Alike
      <3>3. c \in 1 .. n /\ d \in 1 .. n
        BY <1>1
      <3>4. b \in Fin(src, at, c).jumped \/ \E e \in c + 1 .. d : b \in Nth(fs, e).owns
        BY <1>4, <3>2, <3>3 DEF Chain, Escapes, n
      <3> QED BY <3>2, <3>4
    <2>4. Apart(gs)
      BY <1>1, <1>4 DEF Chain, Apart, Alike, n, m
    <2> QED BY <1>1, <1>4, <2>1, <2>2, <2>3, <2>4 DEF Chain, n, m
  <1> QED BY <1>3, <1>4

\* What is left of a block whose first statement has been analysed.
LEMMA BlockRest ==
  ASSUME Grammar, Procedures, NEW block \in Blocks, block # <<>>, NEW st \in States
  PROVE  /\ Head(block) \in Statements /\ Tail(block) \in Blocks
         /\ CheckStmt(Head(block), st) \in States
         /\ CheckBlock(Tail(block), CheckStmt(Head(block), st)) = CheckBlock(block, st)
         /\ Grows(CheckStmt(Head(block), st), CheckBlock(block, st))
         /\ Grows(st, CheckBlock(block, st))
  <1> DEFINE s == Head(block)
             rest == Tail(block)
             next == CheckStmt(s, st)
  <1>1. s \in Statements /\ rest \in Blocks
    BY BlockParts DEF Smaller
  <1>2. CheckBlock(block, st) = CheckBlock(rest, next)
    BY DEF Procedures, CheckStmts
  <1> HIDE DEF s, rest
  <1>3. Grows(st, next) /\ next \in States
    BY <1>1, AllRegular DEF RegularStmt, Grows
  <1> HIDE DEF next
  <1>4. Grows(next, CheckBlock(rest, next))
    BY <1>1, <1>3, BlockRegular DEF RegularBlock
  <1>5. Grows(st, CheckBlock(rest, next))
    BY <1>3, <1>4, GrowsTrans
  <1> QED BY <1>1, <1>2, <1>3, <1>4, <1>5 DEF s, rest, next

\* The innermost frame passes its first statement.
Advances(fs, gs, src, at, n, src2, at2) ==
  /\ Shape(fs, src, at) /\ n \in Nat \ {0} /\ Len(fs) = n /\ Len(gs) = n
  /\ Agree(fs, gs, n - 1) /\ src[n] # <<>>
  /\ Nth(gs, n).todo = Tail(Nth(fs, n).todo) /\ Nth(gs, n).kind = Nth(fs, n).kind
  /\ Nth(gs, n).owns = Nth(fs, n).owns
  /\ src2 = [src EXCEPT ![n] = Tail(src[n])]
  /\ at2 = [at EXCEPT ![n] = CheckStmt(Head(src[n]), at[n])]

LEMMA AdvanceChain ==
  ASSUME Grammar, Procedures, NEW fs, NEW gs, NEW src, NEW at, NEW n, NEW src2, NEW at2,
         Advances(fs, gs, src, at, n, src2, at2)
  PROVE  /\ Shape(gs, src2, at2)
         /\ Nth(gs, n).todo = src2[n]
         /\ Fin(src2, at2, n) = Fin(src, at, n)
         /\ \A d \in 1 .. n : Fin(src2, at2, d) = Fin(src, at, d)
         /\ Chain(fs, src, at) => Chain(gs, src2, at2)
  <1> USE DEF Advances
  <1>1. /\ src \in [Nat -> Blocks] /\ at \in [Nat -> States] /\ n \in 1 .. n
        /\ Follows(Nth(fs, n), src[n])
    BY DEF Shape
  <1>2. /\ Tail(src[n]) \in Blocks /\ CheckStmt(Head(src[n]), at[n]) \in States
        /\ CheckBlock(Tail(src[n]), CheckStmt(Head(src[n]), at[n])) = CheckBlock(src[n], at[n])
    BY <1>1, BlockRest
  <1>3. /\ src2 \in [Nat -> Blocks] /\ at2 \in [Nat -> States]
        /\ src2[n] = Tail(src[n]) /\ at2[n] = CheckStmt(Head(src[n]), at[n])
        /\ \A d \in 1 .. n - 1 : src2[d] = src[d] /\ at2[d] = at[d]
    BY <1>1, <1>2
  <1>4. \A d \in 1 .. n : d = n \/ d \in 1 .. n - 1
    OBVIOUS
  <1>5. \A d \in 1 .. n : Fin(src2, at2, d) = Fin(src, at, d)
    BY <1>2, <1>3, <1>4 DEF Fin
  <1>6. Nth(gs, n).todo = src2[n]
    <2>1. CASE Nth(fs, n).todo = src[n]
      BY <1>3, <2>1
    <2>2. CASE Turned(Nth(fs, n), src[n])
      <3>1. PICK each : Nth(fs, n).todo = <<each>> \o Tail(src[n])
        BY <2>2 DEF Turned
      <3>2. Tail(src[n]) \in Seq(Statements)
        BY <1>2 DEF Grammar
      <3>3. Tail(<<each>> \o Tail(src[n])) = Tail(src[n])
        BY <3>2
      <3> QED BY <1>3, <3>1, <3>3
    <2> QED BY <1>1, <2>1, <2>2 DEF Follows
  <1>7. \A d \in 1 .. n - 1 : Alike(Nth(fs, d), Nth(gs, d))
    BY DEF Agree
  <1>8. \A d \in 1 .. n : Nth(gs, d).kind = Nth(fs, d).kind /\ Nth(gs, d).owns = Nth(fs, d).owns
    BY <1>4, <1>7 DEF Alike
  <1>9. \A d \in 2 .. n : d \in 1 .. n /\ d - 1 \in 1 .. n - 1
    OBVIOUS
  <1>10. Shape(gs, src2, at2)
    <2>1. ASSUME NEW d \in 1 .. n
          PROVE  Follows(Nth(gs, d), src2[d]) /\ Fin(src2, at2, d).diags = {}
      <3>1. Fin(src2, at2, d).diags = {}
        BY <1>5 DEF Shape
      <3>2. CASE d = n
        BY <1>6, <3>1, <3>2 DEF Follows
      <3>3. CASE d \in 1 .. n - 1
        <4>1. Alike(Nth(fs, d), Nth(gs, d)) /\ Follows(Nth(fs, d), src[d])
          BY <1>7, <3>3 DEF Shape
        <4>2. Follows(Nth(gs, d), src[d])
          BY <4>1, FollowsAlike
        <4> QED BY <1>3, <3>1, <3>3, <4>2
      <3> QED BY <1>4, <3>2, <3>3
    <2>2. ASSUME NEW d \in 2 .. n, Nth(gs, d).kind = "loop"
          PROVE  Repeats(src2[d - 1])
      BY <1>3, <1>8, <1>9, <2>2 DEF Shape
    <2> QED BY <1>3, <2>1, <2>2 DEF Shape
  <1>11. ASSUME Chain(fs, src, at)
         PROVE  Chain(gs, src2, at2)
    <2>1. Links(gs, src2, at2)
      <3> SUFFICES ASSUME NEW d \in 2 .. n
                   PROVE  Link(Nth(gs, d), Nth(gs, d - 1), src2[d - 1], at2[d - 1], Fin(src2, at2, d))
        BY DEF Links
      <3>1. Link(Nth(fs, d), Nth(fs, d - 1), src[d - 1], at[d - 1], Fin(src, at, d))
        BY <1>11 DEF Chain, Links
      <3>2. /\ Nth(gs, d).kind = Nth(fs, d).kind /\ Nth(gs, d).owns = Nth(fs, d).owns
            /\ Nth(gs, d - 1).todo = Nth(fs, d - 1).todo
            /\ src2[d - 1] = src[d - 1] /\ at2[d - 1] = at[d - 1]
            /\ Fin(src2, at2, d) = Fin(src, at, d)
        BY <1>3, <1>5, <1>7, <1>8, <1>9 DEF Alike
      <3> QED BY <3>1, <3>2 DEF Link
    <2>2. Touches(gs, src2, at2)
      BY <1>5, <1>11 DEF Chain, Touches
    <2>3. Escapes(gs, src2, at2)
      <3> SUFFICES ASSUME NEW c \in 1 .. n, NEW d \in 1 .. n, c <= d,
                          \A e \in c + 1 .. d : Nth(gs, e).kind # "loop",
                          NEW b \in Fin(src2, at2, d).jumped
                   PROVE  b \in Fin(src2, at2, c).jumped \/ \E e \in c + 1 .. d : b \in Nth(gs, e).owns
        BY DEF Escapes
      <3>1. \A e \in c + 1 .. d : e \in 1 .. n
        OBVIOUS
      <3>2. \A e \in c + 1 .. d : Nth(fs, e).kind # "loop" /\ Nth(fs, e).owns = Nth(gs, e).owns
        BY <1>8, <3>1
      <3>3. b \in Fin(src, at, c).jumped \/ \E e \in c + 1 .. d : b \in Nth(fs, e).owns
        BY <1>5, <1>11, <3>2 DEF Chain, Escapes
      <3> QED BY <1>5, <3>2, <3>3
    <2>4. Apart(gs)
      <3> SUFFICES ASSUME NEW c \in 1 .. n, NEW d \in 1 .. n, c < d
                   PROVE  Nth(gs, c).scope \cap Nth(gs, d).owns = {}
        BY DEF Apart
      <3>1. c \in 1 .. n - 1
        OBVIOUS
      <3> QED BY <1>7, <1>8, <1>11, <3>1 DEF Chain, Apart, Alike
    <2>5. \A d \in 1 .. n : ~Fin(src2, at2, d).gap
      BY <1>5, <1>11 DEF Chain
    <2> QED BY <2>1, <2>2, <2>3, <2>4, <2>5 DEF Chain
  <1>12. Fin(src2, at2, n) = Fin(src, at, n)
    BY <1>1, <1>5
  <1> QED BY <1>5, <1>6, <1>10, <1>11, <1>12

\* A frame is entered.
Enters(fs, gs, src, at, n, block, t, src2, at2) ==
  /\ Shape(fs, src, at) /\ n \in Nat \ {0} /\ Len(fs) = n /\ Len(gs) = n + 1
  /\ Agree(fs, gs, n) /\ block \in Blocks /\ t \in States /\ Nth(gs, n + 1).todo = block
  /\ CheckBlock(block, t).diags = {}
  /\ Nth(gs, n + 1).kind = "loop" => Repeats(src[n])
  /\ src2 = [src EXCEPT ![n + 1] = block] /\ at2 = [at EXCEPT ![n + 1] = t]

\* What the analysis of the block leaves reaches the frame around it.
Joins(fs, top, src, at, n, block, t) ==
  /\ Chain(fs, src, at) /\ ~CheckBlock(block, t).gap
  /\ Link(top, Nth(fs, n), src[n], at[n], CheckBlock(block, t))
  /\ CheckBlock(block, t).touched \subseteq Fin(src, at, n).touched
  /\ top.kind # "loop" =>
       \A b \in CheckBlock(block, t).jumped : b \in top.owns \/ b \in Fin(src, at, n).jumped
  /\ \A d \in 1 .. n : Nth(fs, d).scope \cap top.owns = {}

LEMMA EnterChain ==
  ASSUME Grammar, Procedures, NEW fs, NEW gs, NEW src, NEW at, NEW n, NEW block, NEW t,
         NEW src2, NEW at2, Enters(fs, gs, src, at, n, block, t, src2, at2)
  PROVE  /\ Shape(gs, src2, at2)
         /\ src2[n + 1] = block /\ at2[n + 1] = t
         /\ \A d \in 1 .. n : src2[d] = src[d]
         /\ Joins(fs, Nth(gs, n + 1), src, at, n, block, t) => Chain(gs, src2, at2)
  <1> USE DEF Enters
  <1> DEFINE m == n + 1
             fin == CheckBlock(block, t)
             top == Nth(gs, m)
  <1>1. /\ src \in [Nat -> Blocks] /\ at \in [Nat -> States] /\ m \in Nat
    BY DEF Shape
  <1>2. /\ src2 \in [Nat -> Blocks] /\ at2 \in [Nat -> States]
        /\ src2[m] = block /\ at2[m] = t
        /\ \A d \in 1 .. n : src2[d] = src[d] /\ at2[d] = at[d]
    BY <1>1
  <1>3. \A d \in 1 .. m : d = m \/ d \in 1 .. n
    OBVIOUS
  <1>4. Fin(src2, at2, m) = fin /\ \A d \in 1 .. n : Fin(src2, at2, d) = Fin(src, at, d)
    BY <1>2 DEF Fin
  <1>5. \A d \in 1 .. n : Alike(Nth(fs, d), Nth(gs, d))
    BY DEF Agree
  <1>6. \A d \in 2 .. m : d \in 1 .. m /\ d - 1 \in 1 .. n /\ (d = m \/ d \in 2 .. n)
    OBVIOUS
  <1>7. m = n + 1 /\ m - 1 = n /\ n \in 1 .. n
    OBVIOUS
  <1> HIDE DEF m, fin, top
  <1>8. Shape(gs, src2, at2)
    <2>1. ASSUME NEW d \in 1 .. m
          PROVE  Follows(Nth(gs, d), src2[d]) /\ Fin(src2, at2, d).diags = {}
      <3>1. CASE d = m
        BY <1>2, <1>4, <3>1 DEF Follows, m, fin
      <3>2. CASE d \in 1 .. n
        <4>1. Alike(Nth(fs, d), Nth(gs, d)) /\ Follows(Nth(fs, d), src[d])
          BY <1>5, <3>2 DEF Shape
        <4>2. Follows(Nth(gs, d), src[d])
          BY <4>1, FollowsAlike
        <4> QED BY <1>2, <1>4, <3>2, <4>2 DEF Shape
      <3> QED BY <1>3, <3>1, <3>2
    <2>2. ASSUME NEW d \in 2 .. m, Nth(gs, d).kind = "loop"
          PROVE  Repeats(src2[d - 1])
      <3>1. CASE d = m
        BY <1>2, <1>7, <2>2, <3>1
      <3>2. CASE d \in 2 .. n
        <4>1. d \in 1 .. n /\ d - 1 \in 1 .. n
          BY <1>6, <3>2
        <4> QED BY <1>2, <1>5, <2>2, <3>2, <4>1 DEF Shape, Alike
      <3> QED BY <1>6, <3>1, <3>2
    <2> QED BY <1>2, <2>1, <2>2 DEF Shape, m
  <1>9. ASSUME Chain(fs, src, at), ~fin.gap, Link(top, Nth(fs, n), src[n], at[n], fin),
               fin.touched \subseteq Fin(src, at, n).touched,
               top.kind # "loop" => \A b \in fin.jumped : b \in top.owns \/ b \in Fin(src, at, n).jumped,
               \A d \in 1 .. n : Nth(fs, d).scope \cap top.owns = {}
        PROVE  Chain(gs, src2, at2)
    <2>1. Links(gs, src2, at2)
      <3> SUFFICES ASSUME NEW d \in 2 .. m
                   PROVE  Link(Nth(gs, d), Nth(gs, d - 1), src2[d - 1], at2[d - 1], Fin(src2, at2, d))
        BY DEF Links, m
      <3>1. CASE d = m
        <4>1. Nth(gs, n).todo = Nth(fs, n).todo
          BY <1>5, <1>7 DEF Alike
        <4>2. /\ Fin(src2, at2, m) = fin /\ src2[n] = src[n] /\ at2[n] = at[n]
          BY <1>2, <1>4, <1>7
        <4>3. Link(top, Nth(gs, n), src[n], at[n], fin)
          BY <1>9, <4>1 DEF Link
        <4>4. Link(Nth(gs, m), Nth(gs, m - 1), src2[m - 1], at2[m - 1], Fin(src2, at2, m))
          BY <1>7, <4>2, <4>3 DEF top
        <4> QED BY <3>1, <4>4
      <3>2. CASE d \in 2 .. n
        <4>1. d \in 1 .. n /\ d - 1 \in 1 .. n
          BY <1>6, <3>2
        <4>2. Link(Nth(fs, d), Nth(fs, d - 1), src[d - 1], at[d - 1], Fin(src, at, d))
          BY <1>9, <3>2 DEF Chain, Links
        <4>3. Alike(Nth(fs, d), Nth(gs, d)) /\ Alike(Nth(fs, d - 1), Nth(gs, d - 1))
          BY <1>5, <4>1
        <4> QED BY <1>2, <1>4, <4>1, <4>2, <4>3 DEF Link, Alike
      <3> QED BY <1>6, <3>1, <3>2
    <2>2. Touches(gs, src2, at2)
      <3> SUFFICES ASSUME NEW c \in 1 .. m, NEW d \in 1 .. m, c <= d
                   PROVE  Fin(src2, at2, d).touched \subseteq Fin(src2, at2, c).touched
        BY DEF Touches, m
      <3>1. CASE d \in 1 .. n
        <4>1. c \in 1 .. n
          BY <3>1
        <4> QED BY <1>4, <1>9, <3>1, <4>1 DEF Chain, Touches
      <3>2. CASE d = m /\ c \in 1 .. n
        <4>1. Fin(src, at, n).touched \subseteq Fin(src, at, c).touched
          BY <1>7, <1>9, <3>2 DEF Chain, Touches
        <4> QED BY <1>4, <1>9, <3>2, <4>1
      <3> QED BY <1>3, <3>1, <3>2
    <2>3. Escapes(gs, src2, at2)
      <3> SUFFICES ASSUME NEW c \in 1 .. m, NEW d \in 1 .. m, c <= d,
                          \A e \in c + 1 .. d : Nth(gs, e).kind # "loop",
                          NEW b \in Fin(src2, at2, d).jumped
                   PROVE  b \in Fin(src2, at2, c).jumped \/ \E e \in c + 1 .. d : b \in Nth(gs, e).owns
        BY DEF Escapes, m
      <3>1. CASE d \in 1 .. n
        <4>1. c \in 1 .. n /\ \A e \in c + 1 .. d : e \in 1 .. n
          BY <3>1
        <4>2. \A e \in c + 1 .. d : Nth(fs, e).kind # "loop" /\ Nth(fs, e).owns = Nth(gs, e).owns
          BY <1>5, <4>1 DEF Alike
        <4>3. b \in Fin(src, at, c).jumped \/ \E e \in c + 1 .. d : b \in Nth(fs, e).owns
          BY <1>4, <1>9, <3>1, <4>1, <4>2 DEF Chain, Escapes
        <4> QED BY <1>4, <4>1, <4>2, <4>3
      <3>2. CASE d = m /\ c \in 1 .. n
        <4>1. /\ m \in c + 1 .. m
              /\ \A e \in c + 1 .. n : e \in c + 1 .. m /\ e \in 1 .. n
          BY <1>7, <3>2
        <4>2. b \in top.owns \/ b \in Fin(src, at, n).jumped
          BY <1>4, <1>9, <3>2, <4>1 DEF top
        <4>3. \A e \in c + 1 .. n : Nth(fs, e).kind # "loop" /\ Nth(fs, e).owns = Nth(gs, e).owns
          BY <1>5, <3>2, <4>1 DEF Alike
        <4>4. b \in Fin(src, at, n).jumped =>
                b \in Fin(src, at, c).jumped \/ \E e \in c + 1 .. n : b \in Nth(fs, e).owns
          BY <1>7, <1>9, <3>2, <4>3 DEF Chain, Escapes
        <4> QED BY <1>4, <3>2, <4>1, <4>2, <4>3, <4>4 DEF top
      <3>3. CASE d = m /\ c = m
        BY <3>3
      <3> QED BY <1>3, <3>1, <3>2, <3>3
    <2>4. Apart(gs)
      <3> SUFFICES ASSUME NEW c \in 1 .. m, NEW d \in 1 .. m, c < d
                   PROVE  Nth(gs, c).scope \cap Nth(gs, d).owns = {}
        BY DEF Apart, m
      <3>1. c \in 1 .. n /\ Nth(gs, c).scope = Nth(fs, c).scope
        BY <1>5, <1>7 DEF Alike
      <3>2. CASE d = m
        BY <1>9, <3>1, <3>2 DEF top
      <3>3. CASE d \in 1 .. n
        BY <1>5, <1>9, <3>1, <3>3 DEF Chain, Apart, Alike
      <3> QED BY <1>3, <3>2, <3>3
    <2>5. \A d \in 1 .. m : ~Fin(src2, at2, d).gap
      BY <1>3, <1>4, <1>9 DEF Chain
    <2> QED BY <2>1, <2>2, <2>3, <2>4, <2>5 DEF Chain, m
  <1> QED BY <1>2, <1>8, <1>9 DEF m, fin, top, Joins

\* What is in scope, frame by frame.
LEMMA ScopeNth ==
  ASSUME NEW fs, NEW S, fs \in Seq(S)
  PROVE  \A b : b \in ScopeOf(fs) <=> \E d \in 1 .. Len(fs) : b \in Nth(fs, d).scope
  <1> DEFINE n == Len(fs)
  <1>1. n \in Nat /\ DOMAIN fs = 1 .. n
    OBVIOUS
  <1>2. \A i \in 1 .. n : n + 1 - i \in 1 .. n /\ n + 1 - (n + 1 - i) = i
    BY <1>1
  <1>3. ASSUME NEW b, NEW i \in 1 .. n, b \in fs[i].scope
        PROVE  \E d \in 1 .. n : b \in Nth(fs, d).scope
    <2>1. Nth(fs, n + 1 - i) = fs[i]
      BY <1>2 DEF Nth
    <2> QED BY <1>2, <1>3, <2>1
  <1>4. ASSUME NEW b, NEW d \in 1 .. n, b \in Nth(fs, d).scope
        PROVE  \E i \in 1 .. n : b \in fs[i].scope
    BY <1>2, <1>4 DEF Nth
  <1> QED BY <1>1, <1>3, <1>4 DEF ScopeOf

\* A for loop that is running goes through the storage of its list, which the
\* binding of the list still holds.
Pinning(fs, src, memory, d) ==
  Nth(fs, d).todo # src[d] =>
    /\ memory[Head(src[d]).x.b] = Nth(fs, d).todo[1].items
    /\ \E c \in 1 .. d : Head(src[d]).x.b \in Nth(fs, c).scope

Pins(fs, src, memory) == \A d \in 1 .. Len(fs) : Pinning(fs, src, memory, d)

\* Nothing that runs in a for loop touches its list.
LEMMA PinUntouched ==
  ASSUME NEW fs, NEW src, NEW at, Shape(fs, src, at), Chain(fs, src, at),
         NEW n \in Nat, Len(fs) = n, NEW d \in 1 .. n - 1, Nth(fs, d).todo # src[d]
  PROVE  Head(src[d]).x.b \notin Fin(src, at, n).touched
  <1>1. d \in 1 .. n /\ d + 1 \in 2 .. n /\ d + 1 \in 1 .. n /\ n \in 1 .. n /\ (d + 1) - 1 = d
    OBVIOUS
  <1>2. Head(src[d]).s = "for"
    BY <1>1 DEF Shape, Follows, Turned
  <1>3. Link(Nth(fs, d + 1), Nth(fs, d), src[d], at[d], Fin(src, at, d + 1))
    BY <1>1 DEF Chain, Links
  <1>4. Head(src[d]).x.b \notin Fin(src, at, d + 1).touched
    BY <1>2, <1>3 DEF Link
  <1>5. Fin(src, at, n).touched \subseteq Fin(src, at, d + 1).touched
    BY <1>1 DEF Chain, Touches
  <1> QED BY <1>4, <1>5

Keeps(fs, src, at, memory, n, gs, src2, memory2, m) ==
  /\ Shape(fs, src, at) /\ Chain(fs, src, at) /\ Pins(fs, src, memory)
  /\ n \in Nat /\ Len(fs) = n /\ Len(gs) \in Nat /\ m \in 0 .. n /\ Agree(fs, gs, m)
  /\ \A d \in 1 .. m : src2[d] = src[d]
  /\ \A c \in 1 .. m : \A b \in Nth(fs, c).scope :
       memory2[b] = memory[b] \/ (m < n /\ b \in Fin(src, at, n).touched)
  /\ \A d \in 1 .. Len(gs) : d \in 1 .. m \/ Nth(gs, d).todo = src2[d]

LEMMA PinsKept ==
  ASSUME NEW fs, NEW src, NEW at, NEW memory, NEW n, NEW gs, NEW src2, NEW memory2, NEW m,
         Keeps(fs, src, at, memory, n, gs, src2, memory2, m)
  PROVE  Pins(gs, src2, memory2)
  <1> USE DEF Keeps
  <1> SUFFICES ASSUME NEW d \in 1 .. Len(gs) PROVE Pinning(gs, src2, memory2, d)
    BY DEF Pins
  <1> SUFFICES ASSUME Nth(gs, d).todo # src2[d] PROVE Pinning(gs, src2, memory2, d)
    BY DEF Pinning
  <1>1. d \in 1 .. m /\ d \in 1 .. n
    OBVIOUS
  <1>2. src2[d] = src[d] /\ \A c \in 1 .. d : c \in 1 .. m /\ Alike(Nth(fs, c), Nth(gs, c))
    BY <1>1 DEF Agree
  <1>3. Nth(gs, d).todo = Nth(fs, d).todo /\ Nth(fs, d).todo # src[d]
    BY <1>1, <1>2 DEF Alike
  <1> DEFINE b == Head(src[d]).x.b
  <1>4. Pinning(fs, src, memory, d)
    BY <1>1 DEF Pins
  <1>5. memory[b] = Nth(fs, d).todo[1].items
    BY <1>3, <1>4 DEF Pinning
  <1>6. PICK c \in 1 .. d : b \in Nth(fs, c).scope
    BY <1>3, <1>4 DEF Pinning
  <1>7. memory2[b] = memory[b]
    <2>1. CASE m < n
      <3>1. d \in 1 .. n - 1
        BY <1>1, <2>1
      <3>2. b \notin Fin(src, at, n).touched
        BY <1>3, <3>1, PinUntouched
      <3> QED BY <1>2, <1>6, <3>2
    <2>2. CASE ~(m < n)
      BY <1>2, <1>6, <2>2
    <2> QED BY <2>1, <2>2
  <1>8. b \in Nth(gs, c).scope
    BY <1>2, <1>6 DEF Alike
  <1> QED BY <1>2, <1>3, <1>5, <1>6, <1>7, <1>8 DEF Pinning

-----------------------------------------------------------------------------
(* What steps do to the machine *)

\* The faults after a step are those before it and some of a set.
Adds(m, some) == m.faults \subseteq faults \cup some

LEMMA MemTyped ==
  ASSUME Inv
  PROVE  /\ mem \in [Bindings -> Nat] /\ Machine.mem = mem /\ Machine.live = live
         /\ Machine.faults = faults /\ IsFiniteSet(live) /\ Machine \in Machines
         /\ \A b \in Bindings : mem[b] # 0 => mem[b] \in live
  BY DEF Inv, Good, Machines, Machine

\* The value of an expression that is consumed: only a name is zeroed.
LEMMA EvalEffect ==
  ASSUME Inv, stack # <<>>, NEW e, Evaluable(e)
  PROVE  /\ \A b \in Bindings :
              Eval(Machine, e).m.mem[b] = IF e.e = "name" /\ b = e.b THEN 0 ELSE mem[b]
         /\ Adds(Eval(Machine, e).m, {"moved"})
         /\ (e.e = "name" => mem[e.b] # 0) =>
              /\ Adds(Eval(Machine, e).m, {})
              /\ Storable(e) => Eval(Machine, e).value # 0
  <1>1. /\ mem \in [Bindings -> Nat] /\ Machine.mem = mem /\ Machine.faults = faults
        /\ FramesOK(stack) /\ IsFiniteSet(Machine.live) /\ Machine \in Machines
    BY MemTyped, Running
  <1>2. CASE e.e = "name"
    <2>1. e.b \in Bindings
      BY <1>2, Running DEF Evaluable
    <2> DEFINE n == [Machine EXCEPT !.mem[e.b] = 0]
    <2>2. /\ n.faults = faults /\ n.mem = [mem EXCEPT ![e.b] = 0]
          /\ n \in Machines
      BY <1>1, <2>1 DEF Machines
    <2> HIDE DEF n
    <2> DEFINE gone == mem[e.b] = 0
    <2>3. TakeLocal(Machine, e.b) = Fault(n, gone, "moved")
      BY <1>1 DEF TakeLocal, n
    <2>4. /\ Fault(n, gone, "moved").mem = n.mem
          /\ Fault(n, gone, "moved").faults \subseteq faults \cup {"moved"}
          /\ ~gone => Fault(n, gone, "moved").faults = faults
      BY <2>2 DEF Fault, Machines
    <2>5. Eval(Machine, e).m = Fault(n, gone, "moved") /\ Eval(Machine, e).value = mem[e.b]
      BY <1>1, <1>2, <2>3 DEF Eval
    <2>6. \A b \in Bindings : n.mem[b] = IF b = e.b THEN 0 ELSE mem[b]
      BY <1>1, <2>1, <2>2
    <2> QED BY <1>2, <2>4, <2>5, <2>6 DEF Adds
  <1>3. CASE e.e \in {"new", "call"}
    <2> DEFINE id == Alloc(Machine)
               n == [Machine EXCEPT !.live = @ \cup {id}]
    <2>1. id \in Nat \ {0}
      BY <1>1, PinnedFinite, AllocFresh
    <2>2. Eval(Machine, e).m = n /\ Eval(Machine, e).value = id
      BY <1>3 DEF Eval
    <2> HIDE DEF id
    <2>3. n.mem = mem /\ n.faults = faults
      BY <1>1 DEF Machines
    <2> HIDE DEF n
    <2> QED BY <1>3, <2>1, <2>2, <2>3 DEF Adds
  <1>4. CASE e.e \notin {"name", "new", "call"}
    <2>1. Eval(Machine, e).m = Machine /\ ~Storable(e)
      BY <1>4 DEF Eval, Storable
    <2> QED BY <1>1, <1>4, <2>1 DEF Adds
  <1> QED BY <1>2, <1>3, <1>4

LEMMA InspectEffect ==
  ASSUME Inv, NEW e
  PROVE  /\ Inspect(Machine, e).mem = mem
         /\ Adds(Inspect(Machine, e), {"moved"})
         /\ (e.e = "name" => mem[e.b] # 0) => Adds(Inspect(Machine, e), {})
  <1>1. Machine.mem = mem /\ Machine.faults = faults /\ Machine \in Machines
    BY MemTyped
  <1> QED BY <1>1 DEF Inspect, Fault, Adds, Machines

\* Dropping locals zeroes them and is no use of a moved binding.
LEMMA LocalsEffect ==
  ASSUME NEW m, NEW temps, NEW scope, NEW v, Good(m, temps, scope, v),
         NEW owned \in SUBSET Bindings, NEW some, Adds(m, some)
  PROVE  /\ \A b \in owned : DropLocals(m, owned).mem[b] = 0
         /\ \A b \in Bindings \ owned : DropLocals(m, owned).mem[b] = m.mem[b]
         /\ Adds(DropLocals(m, owned), some)
  <1> DEFINE ids == {m.mem[b] : b \in owned}
             n == [m EXCEPT !.live = @ \ ids]
             f == [b \in Bindings |-> IF b \in owned THEN 0 ELSE n.mem[b]]
  <1>1. DropAll(m, ids) = n
    BY DEF DropAll, Fault, Good
  <1>2. DropLocals(m, owned) = [n EXCEPT !.mem = f]
    BY <1>1 DEF DropLocals
  <1> HIDE DEF f
  <1>3. [n EXCEPT !.mem = f].faults = m.faults
    BY DEF Good, Machines
  <1>4. /\ \A b \in owned : DropLocals(m, owned).mem[b] = 0
        /\ \A b \in Bindings \ owned : DropLocals(m, owned).mem[b] = m.mem[b]
    BY LocalsGood
  <1>5. Adds(DropLocals(m, owned), some)
    BY <1>2, <1>3 DEF Adds
  <1> QED BY <1>4, <1>5

\* A value is stored.
Put(m, b, v) == [m EXCEPT !.mem[b] = v]

LEMMA PutEffect ==
  ASSUME NEW m, m \in Machines, NEW b \in Bindings, NEW v
  PROVE  /\ Put(m, b, v).mem[b] = v
         /\ \A c \in Bindings \ {b} : Put(m, b, v).mem[c] = m.mem[c]
         /\ Put(m, b, v).faults = m.faults
  BY DEF Machines, Put

-----------------------------------------------------------------------------
(* What the analysis says of a body that runs *)

CallFrames == [args : Lists, todo : Lists]

\* The analysis of the arguments that a call has not passed yet.
Rest(seq, cat, bor, con, c) == WalkArgs(Nth(seq, c).todo, cat[c], bor[c], con[c])

\* Calls whose arguments are being passed: nothing is reported of them.
Lowering(seq, cat, bor, con) ==
  /\ seq \in Seq(CallFrames)
  /\ cat \in [Nat -> States] /\ bor \in [Nat -> Borrowings] /\ con \in [Nat -> SUBSET Bindings]
  /\ \A c \in 1 .. Len(seq) :
       /\ Rest(seq, cat, bor, con, c).diags = {}
       /\ \E st \in States : WalkArgs(Nth(seq, c).args, st, {}, {}).diags = {}

\* A borrowed argument is still to be passed, or is noted.
Noted(e, todo, borrowed, st) ==
  Borrows(e) =>
    \/ \E j \in DOMAIN todo : todo[j] = e
    \/ <<e.b, e.e>> \in borrowed /\ (e.e = "mutref" => e.b \in st.touched)

\* The innermost call leads, call by call, to what the analysis has behind
\* the expression.
Leading(seq, cat, bor, con, after) ==
  /\ Rest(seq, cat, bor, con, 1) = after
  /\ \A c \in 2 .. Len(seq) : Rest(seq, cat, bor, con, c) = cat[c - 1]

NotedAll(seq, cat, bor) ==
  \A c \in 1 .. Len(seq) : \A i \in DOMAIN Nth(seq, c).args :
    Noted(Nth(seq, c).args[i], Nth(seq, c).todo, bor[c], cat[c])

Walking(seq, cat, bor, con, after, fin) ==
  /\ Leading(seq, cat, bor, con, after)
  /\ NotedAll(seq, cat, bor)
  /\ \A c \in 1 .. Len(seq) :
       ~Rest(seq, cat, bor, con, c).gap /\ Rest(seq, cat, bor, con, c).touched \subseteq fin.touched

\* The bindings that may have been moved where a frame has arrived.
Point(f, block, st, done) ==
  IF block = <<>> THEN st.moved
  ELSE IF f.todo # block THEN Entry(Head(block), st)
  ELSE IF done THEN After(Head(block), st).moved ELSE Before(Head(block), st).moved

Reached(src, at, cat) ==
  IF calls # <<>> THEN cat[Len(calls)].moved
  ELSE Point(Nth(stack, Len(stack)), src[Len(stack)], at[Len(stack)], called)

\* The parts of the invariant: what holds of an accepted body, and what
\* holds too when the analysis had no gap.
Witness(src, at, cat, bor, con) ==
  /\ Shape(stack, src, at)
  /\ Lowering(calls, cat, bor, con)
  /\ called \in BOOLEAN
  /\ calls # <<>> => ~called
  /\ calls # <<>> \/ called => HasCall
  /\ "alias" \notin faults

Covers(src, at, cat, bor, con) ==
  /\ Chain(stack, src, at)
  /\ Pins(stack, src, mem)
  /\ calls # <<>> =>
       Walking(calls, cat, bor, con, After(Head(src[Len(stack)]), at[Len(stack)]),
               Fin(src, at, Len(stack)))
  /\ \A b \in ScopeOf(stack) : mem[b] = 0 => b \in Reached(src, at, cat)
  /\ faults \cap {"moved", "freed"} = {}

\* The stack is a sequence of frames.
LEMMA StackSeq ==
  ASSUME Inv
  PROVE  /\ \E S : stack \in Seq(S)
         /\ Len(stack) \in Nat
         /\ stack # <<>> => Len(stack) \in Nat \ {0} /\ Nth(stack, Len(stack)) = Head(stack)
  <1>1. PICK todos : stack \in Seq(Frames(todos))
    BY DEF Inv, FramesOK
  <1>2. Len(stack) \in Nat /\ \E S : stack \in Seq(S)
    BY <1>1
  <1>3. ASSUME stack # <<>>
        PROVE  Len(stack) \in Nat \ {0} /\ Nth(stack, Len(stack)) = Head(stack)
    BY <1>1, <1>3, NthTail
  <1> QED BY <1>2, <1>3

\* The first statement of the innermost frame is that of its block.
LEMMA Here ==
  ASSUME Grammar, Procedures, Inv, NEW src, NEW at, Shape(stack, src, at),
         stack # <<>>, Head(stack).todo # <<>>, Stmt.s # "each"
  PROVE  /\ Len(stack) \in Nat \ {0} /\ Nth(stack, Len(stack)) = Head(stack)
         /\ src[Len(stack)] \in Blocks /\ at[Len(stack)] \in States
         /\ src[Len(stack)] # <<>> /\ Head(stack).todo = src[Len(stack)]
         /\ Stmt = Head(src[Len(stack)]) /\ Stmt \in Statements
         /\ CheckStmt(Stmt, at[Len(stack)]).diags = {}
         /\ Grows(CheckStmt(Stmt, at[Len(stack)]), Fin(src, at, Len(stack)))
  <1> DEFINE n == Len(stack)
  <1>1. n \in Nat \ {0} /\ Nth(stack, n) = Head(stack)
    BY StackSeq
  <1>2. /\ src[n] \in Blocks /\ at[n] \in States /\ Follows(Head(stack), src[n])
        /\ Fin(src, at, n).diags = {}
    BY <1>1 DEF Shape
  <1> HIDE DEF n
  <1>3. Head(stack).todo = src[n]
    <2> SUFFICES ASSUME Turned(Head(stack), src[n]) PROVE FALSE
      BY <1>2 DEF Follows
    <2>1. PICK items : Head(stack).todo =
                         <<[s |-> "each", items |-> items, body |-> Head(src[n]).body]>> \o Tail(src[n])
      BY DEF Turned
    <2> DEFINE each == [s |-> "each", items |-> items, body |-> Head(src[n]).body]
    <2>2. Tail(src[n]) \in Seq(Statements) /\ src[n] # <<>>
      BY <1>2 DEF Turned, Grammar, Smaller
    <2>3. each.s = "each"
      OBVIOUS
    <2> HIDE DEF each
    <2>4. (<<each>> \o Tail(src[n]))[1] = each
      BY <2>2
    <2>5. Stmt = each
      BY <2>1, <2>4 DEF Stmt, each
    <2> QED BY <2>3, <2>5
  <1>4. src[n] # <<>> /\ src[n] \in Seq(Statements)
    BY <1>2, <1>3 DEF Grammar
  <1>5. Stmt = Head(src[n])
    BY <1>3, <1>4 DEF Stmt
  <1>6. /\ Head(src[n]) \in Statements
        /\ Grows(CheckStmt(Head(src[n]), at[n]), Fin(src, at, n))
    BY <1>2, <1>4, BlockRest DEF Fin
  <1>7. CheckStmt(Stmt, at[n]).diags = {}
    BY <1>2, <1>5, <1>6 DEF Grows
  <1> QED BY <1>1, <1>2, <1>3, <1>4, <1>5, <1>6, <1>7 DEF n

\* A for loop that is running.
LEMMA HereEach ==
  ASSUME Grammar, Procedures, Inv, NEW src, NEW at, Shape(stack, src, at), At("each")
  PROVE  /\ Len(stack) \in Nat \ {0} /\ Nth(stack, Len(stack)) = Head(stack)
         /\ src[Len(stack)] \in Blocks /\ at[Len(stack)] \in States
         /\ src[Len(stack)] # <<>> /\ Head(stack).todo # src[Len(stack)]
         /\ Head(src[Len(stack)]) \in Loops /\ Head(src[Len(stack)]).s = "for"
         /\ Stmt.body = Head(src[Len(stack)]).body /\ DOMAIN Stmt = {"s", "items", "body"}
         /\ CheckStmt(Head(src[Len(stack)]), at[Len(stack)]).diags = {}
         /\ Grows(CheckStmt(Head(src[Len(stack)]), at[Len(stack)]), Fin(src, at, Len(stack)))
  <1> DEFINE n == Len(stack)
  <1>0. stack # <<>> /\ Head(stack).todo # <<>> /\ Stmt.s = "each"
    BY DEF At
  <1>1. n \in Nat \ {0} /\ Nth(stack, n) = Head(stack)
    BY <1>0, StackSeq
  <1>2. /\ src[n] \in Blocks /\ at[n] \in States /\ Follows(Head(stack), src[n])
        /\ Fin(src, at, n).diags = {}
    BY <1>1 DEF Shape
  <1> HIDE DEF n
  <1>3. src[n] \in Seq(Statements)
    BY <1>2 DEF Grammar
  <1>4. Head(stack).todo # src[n]
    <2> SUFFICES ASSUME Head(stack).todo = src[n] PROVE FALSE
      OBVIOUS
    <2>1. Stmt \in Statements
      BY <1>0, <1>3 DEF Stmt
    <2> QED BY <1>0, <2>1 DEF Statements, Stmts
  <1>5. Turned(Head(stack), src[n])
    BY <1>2, <1>4 DEF Follows
  <1>6. PICK items : Head(stack).todo =
                       <<[s |-> "each", items |-> items, body |-> Head(src[n]).body]>> \o Tail(src[n])
    BY <1>5 DEF Turned
  <1> DEFINE each == [s |-> "each", items |-> items, body |-> Head(src[n]).body]
  <1>7. src[n] # <<>> /\ Tail(src[n]) \in Seq(Statements)
    BY <1>2, <1>5 DEF Turned, Grammar, Smaller
  <1>8. each.body = Head(src[n]).body /\ DOMAIN each = {"s", "items", "body"}
    OBVIOUS
  <1> HIDE DEF each
  <1>9. (<<each>> \o Tail(src[n]))[1] = each
    BY <1>7
  <1>10. Stmt = each
    BY <1>6, <1>9 DEF Stmt, each
  <1>11. /\ Head(src[n]) \in Statements
         /\ Grows(CheckStmt(Head(src[n]), at[n]), Fin(src, at, n))
    BY <1>2, <1>7, BlockRest DEF Fin
  <1>12. CheckStmt(Head(src[n]), at[n]).diags = {}
    BY <1>2, <1>11 DEF Grows
  <1>13. Head(src[n]) \in Loops /\ Head(src[n]).s = "for"
    BY <1>5, <1>11 DEF Turned, Loops
  <1> QED BY <1>1, <1>2, <1>4, <1>7, <1>8, <1>10, <1>11, <1>12, <1>13 DEF n

\* A statement runs only when no call is being lowered.
LEMMA Idle ==
  ASSUME Grammar, Procedures, Inv, NEW src, NEW at, NEW cat, NEW bor, NEW con,
         Witness(src, at, cat, bor, con), stack # <<>>,
         \/ Head(stack).todo = <<>>
         \/ At("each")
         \/ At("break") \/ At("continue")
         \/ Head(stack).todo # <<>> /\ Stmt.s # "each" /\ Evaluable(Stmt.x)
  PROVE  calls = <<>>
  <1> SUFFICES ASSUME calls # <<>> PROVE FALSE
    OBVIOUS
  <1>1. HasCall /\ ~called /\ Shape(stack, src, at)
    BY DEF Witness
  <1>2. "x" \in DOMAIN Stmt /\ Stmt.x.e = "call" /\ Head(stack).todo # <<>>
    BY <1>1 DEF HasCall
  <1>3. CASE At("each")
    BY <1>1, <1>2, <1>3, HereEach
  <1>4. CASE At("break") \/ At("continue")
    <2>1. Stmt \in Statements /\ Stmt.s \in {"break", "continue"}
      BY <1>1, <1>4, Here DEF At
    <2>2. Stmt \in [s : {"break", "continue"}]
      BY <2>1 DEF Statements, Stmts
    <2>3. DOMAIN Stmt = {"s"}
      BY <2>2
    <2> QED BY <1>2, <2>3
  <1>5. CASE Evaluable(Stmt.x)
    BY <1>1, <1>2, <1>5 DEF Evaluable
  <1> QED BY <1>2, <1>3, <1>4, <1>5

-----------------------------------------------------------------------------
(* Statements that run *)

Sound(src, at, cat, bor, con) ==
  Witness(src, at, cat, bor, con) /\ (~gap => Covers(src, at, cat, bor, con))

\* A frame that has passed its first statement.
LEMMA PastNth ==
  ASSUME NEW S, NEW fs \in Seq(S), fs # <<>>, NEW declared
  PROVE  /\ Len(fs) \in Nat \ {0} /\ Len(Past(fs, declared)) = Len(fs)
         /\ \A d \in 1 .. Len(fs) - 1 : Nth(Past(fs, declared), d) = Nth(fs, d)
         /\ Nth(Past(fs, declared), Len(fs)) =
              [Head(fs) EXCEPT !.todo = Tail(@), !.scope = @ \cup declared]
         /\ Nth(fs, Len(fs)) = Head(fs)
         /\ \E T : Past(fs, declared) \in Seq(T)
  <1> DEFINE top == [Head(fs) EXCEPT !.todo = Tail(@), !.scope = @ \cup declared]
             rest == Tail(fs)
             n == Len(fs)
  <1>1. /\ n \in Nat /\ n >= 1 /\ Len(rest) = n - 1 /\ rest \in Seq(S)
        /\ Nth(fs, n) = Head(fs)
        /\ \A d \in 1 .. n - 1 : Nth(rest, d) = Nth(fs, d)
    BY NthTail
  <1>2. Past(fs, declared) = <<top>> \o rest
    BY DEF Past
  <1> HIDE DEF top, rest, n
  <1>3. /\ Len(<<top>> \o rest) = Len(rest) + 1
        /\ Nth(<<top>> \o rest, Len(rest) + 1) = top
        /\ \A d \in 1 .. Len(rest) : Nth(<<top>> \o rest, d) = Nth(rest, d)
        /\ <<top>> \o rest \in Seq(S \cup {top})
    BY <1>1, NthPush
  <1>4. Len(rest) + 1 = n /\ n \in Nat \ {0}
    BY <1>1
  <1> QED BY <1>1, <1>2, <1>3, <1>4 DEF n, top

\* The state of a statement that is passed reaches the next point.
LEMMA PointFacts ==
  ASSUME Grammar, Procedures, NEW f, NEW block \in Blocks, f.todo = block, NEW st \in States
  PROVE  st.moved \subseteq Point(f, block, st, FALSE)
  <1>1. CASE block = <<>>
    BY <1>1 DEF Point
  <1>2. CASE block # <<>>
    <2>1. Head(block) \in Statements
      BY <1>2, BlockRest
    <2>2. Point(f, block, st, FALSE) = Before(Head(block), st).moved
      BY <1>2 DEF Point
    <2> QED BY <2>1, <2>2, BeforeFacts
  <1> QED BY <1>1, <1>2

\* A step that ends a statement, and the machine after it.
Ends == calls = <<>> /\ calls' = calls /\ called' = FALSE /\ gap' = gap

Leaves(all, declared) ==
  /\ faults' \cap {"moved", "freed"} = {}
  /\ \A b \in ScopeOf(stack) \cup declared : mem'[b] = 0 => b \in all.moved
  /\ \A b \in ScopeOf(stack) : mem'[b] = mem[b] \/ b \in all.touched

\* A statement is passed.
LEMMA Advanced ==
  ASSUME Grammar, Procedures, Inv, NEW src, NEW at, NEW cat, NEW bor, NEW con,
         Sound(src, at, cat, bor, con), Ends, NEW n, n = Len(stack), stack # <<>>, src[n] # <<>>,
         NEW declared, stack' = Past(stack, declared), "alias" \notin faults',
         NEW all, all = CheckStmt(Head(src[n]), at[n]),
         Covers(src, at, cat, bor, con) => Leaves(all, declared),
         ScopeOf(stack') = ScopeOf(stack) \cup declared
  PROVE  \E src2, at2 : Sound(src2, at2, cat, bor, con)'
  <1> USE DEF Ends, Leaves
  <1>1. PICK S : stack \in Seq(S)
    BY StackSeq
  <1>2. /\ n \in Nat \ {0} /\ Len(stack') = n
        /\ \A d \in 1 .. n - 1 : Nth(stack', d) = Nth(stack, d)
        /\ Nth(stack', n) = [Head(stack) EXCEPT !.todo = Tail(@), !.scope = @ \cup declared]
        /\ Nth(stack, n) = Head(stack)
    <2> DEFINE gs == Past(stack, declared)
    <2>1. /\ Len(stack) \in Nat \ {0} /\ Len(gs) = Len(stack)
          /\ \A d \in 1 .. Len(stack) - 1 : Nth(gs, d) = Nth(stack, d)
          /\ Nth(gs, Len(stack)) = [Head(stack) EXCEPT !.todo = Tail(@), !.scope = @ \cup declared]
          /\ Nth(stack, Len(stack)) = Head(stack)
      BY <1>1, PastNth
    <2> HIDE DEF gs
    <2>2. stack' = gs
      BY DEF gs
    <2> QED BY <2>1, <2>2
  <1>3. /\ Nth(stack', n).todo = Tail(Nth(stack, n).todo)
        /\ Nth(stack', n).kind = Nth(stack, n).kind
        /\ Nth(stack', n).owns = Nth(stack, n).owns
    <2>1. PICK todos : Head(stack) \in Frames(todos)
      BY TailOK DEF Inv
    <2> QED BY <1>2, <2>1 DEF Frames
  <1>4. Agree(stack, stack', n - 1)
    BY <1>2 DEF Agree, Alike
  <1>5. Shape(stack, src, at)
    BY DEF Sound, Witness
  <1>6. PICK src2 : src2 = [src EXCEPT ![n] = Tail(src[n])]
    OBVIOUS
  <1>7. PICK at2 : at2 = [at EXCEPT ![n] = all]
    OBVIOUS
  <1>8. /\ Shape(stack', src2, at2) /\ Nth(stack', n).todo = src2[n]
        /\ Chain(stack, src, at) => Chain(stack', src2, at2)
    <2>1. at2 = [at EXCEPT ![n] = CheckStmt(Head(src[n]), at[n])]
      BY <1>7
    <2>2. Advances(stack, stack', src, at, n, src2, at2)
      BY <1>2, <1>3, <1>4, <1>5, <1>6, <2>1 DEF Advances
    <2> QED BY <2>2, AdvanceChain
  <1>9. Witness(src2, at2, cat, bor, con)'
    BY <1>8 DEF Sound, Witness
  <1>10. ASSUME Covers(src, at, cat, bor, con)
         PROVE  Covers(src2, at2, cat, bor, con)'
    <2>1. Chain(stack, src, at) /\ Pins(stack, src, mem)
      BY <1>10 DEF Covers
    <2>2. /\ src \in [Nat -> Blocks] /\ at \in [Nat -> States] /\ n \in 1 .. n
          /\ src2[n] \in Blocks /\ at2[n] = all /\ all \in States
          /\ \A d \in 1 .. n - 1 : src2[d] = src[d]
      BY <1>2, <1>5, <1>6, <1>7, BlockRest DEF Shape
    <2>3. all.touched \subseteq Fin(src, at, n).touched
      BY <2>2, BlockRest DEF Fin, Grows
    <2>4. \A c \in 1 .. n - 1 : \A b \in Nth(stack, c).scope :
            mem'[b] = mem[b] \/ (n - 1 < n /\ b \in Fin(src, at, n).touched)
      <3>1. \A c \in 1 .. n - 1 : c \in 1 .. Len(stack)
        BY <1>2
      <3>2. \A c \in 1 .. n - 1 : \A b \in Nth(stack, c).scope : b \in ScopeOf(stack)
        BY <1>1, <3>1, ScopeNth
      <3>3. n - 1 < n
        BY <1>2
      <3> QED BY <1>10, <2>3, <3>2, <3>3
    <2>5. Pins(stack', src2, mem')
      <3>1. n - 1 \in 0 .. n /\ n \in Nat /\ Len(stack) = n /\ Len(stack') \in Nat
        BY <1>2
      <3>2. \A d \in 1 .. Len(stack') : d \in 1 .. n - 1 \/ Nth(stack', d).todo = src2[d]
        <4>1. \A d \in 1 .. n : d = n \/ d \in 1 .. n - 1
          BY <1>2
        <4> QED BY <1>2, <1>8, <4>1
      <3>3. Len(stack') = n
        BY <1>2
      <3>4. Keeps(stack, src, at, mem, n, stack', src2, mem', n - 1)
        BY <1>4, <1>5, <2>1, <2>2, <2>4, <3>1, <3>2 DEF Keeps
      <3> QED BY <3>4, PinsKept
    <2>6. Reached(src2, at2, cat)' = Point(Nth(stack', n), src2[n], at2[n], FALSE)
      BY <1>2 DEF Reached
    <2>7. all.moved \subseteq Reached(src2, at2, cat)'
      <3> DEFINE f == Nth(stack', n)
      <3>1. f.todo = src2[n] /\ src2[n] \in Blocks /\ at2[n] \in States
        BY <1>8, <2>2
      <3> HIDE DEF f
      <3>2. at2[n].moved \subseteq Point(f, src2[n], at2[n], FALSE)
        BY <3>1, PointFacts
      <3> QED BY <2>2, <2>6, <3>2 DEF f
    <2> QED BY <1>8, <1>10, <2>1, <2>5, <2>7 DEF Covers
  <1> QED BY <1>9, <1>10 DEF Sound

\* Where a statement evaluates its expression, what has been moved is what
\* the analysis says.
LEMMA Valued ==
  ASSUME Grammar, Procedures, Inv, NEW src, NEW at, NEW cat, NEW bor, NEW con,
         Witness(src, at, cat, bor, con), Covers(src, at, cat, bor, con), calls = <<>>,
         stack # <<>>, Head(stack).todo # <<>>, Stmt.s # "each", Stmt.s \notin Jumps,
         Evaluable(Stmt.x)
  PROVE  /\ Stmt.x.e = "name" => mem[Stmt.x.b] # 0
         /\ \A b \in ScopeOf(stack) :
              mem[b] = 0 => b \in After(Stmt, at[Len(stack)]).moved
         /\ Stmt.x.e = "name" /\ Consumes(Stmt) =>
              /\ Stmt.x.b \in After(Stmt, at[Len(stack)]).moved
              /\ Stmt.x.b \in CheckStmt(Stmt, at[Len(stack)]).touched
  <1> DEFINE n == Len(stack)
             s == Stmt
             st == at[n]
             w == After(s, st)
  <1>1. Shape(stack, src, at)
    BY DEF Witness
  <1>2. /\ n \in Nat \ {0} /\ Nth(stack, n) = Head(stack) /\ src[n] # <<>> /\ Head(stack).todo = src[n]
        /\ s = Head(src[n]) /\ s \in Statements /\ st \in States
        /\ CheckStmt(s, st).diags = {}
    BY <1>1, Here
  <1> HIDE DEF n, s, st
  <1>3. Reached(src, at, cat) = IF called THEN w.moved ELSE Before(s, st).moved
    BY <1>2 DEF Reached, Point, n, st
  <1>4. w = Walk(s.x, Before(s, st), Consumes(s)) /\ Consumes(s) \in BOOLEAN
    BY DEF After, Consumes
  <1> HIDE DEF w
  <1>5. /\ w \in States /\ Walked(Before(s, st), w) /\ Grows(w, CheckStmt(s, st))
        /\ Before(s, st) \in States /\ s.x \in Expr
    BY <1>2, AfterFacts, BeforeFacts, AllRegular DEF w, s
  <1>6. w.diags = {} /\ Before(s, st).moved \subseteq w.moved
    BY <1>2, <1>5 DEF Grows, Walked
  <1>7. \A b \in ScopeOf(stack) : mem[b] = 0 => b \in w.moved
    BY <1>3, <1>6 DEF Covers
  <1>8. ASSUME s.x.e = "name"
        PROVE  /\ mem[s.x.b] # 0
               /\ Consumes(s) => s.x.b \in w.moved /\ s.x.b \in CheckStmt(s, st).touched
    <2>1. ~called
      BY <1>8 DEF Witness, HasCall, s
    <2>2. /\ s.x.b \notin Before(s, st).moved
          /\ Consumes(s) => s.x.b \in w.moved /\ s.x.b \in w.touched
      BY <1>4, <1>5, <1>6, <1>8, UseFacts
    <2>3. s.x.b \in ScopeOf(stack)
      BY <1>8 DEF Evaluable, s
    <2>4. mem[s.x.b] # 0
      BY <1>3, <2>1, <2>2, <2>3 DEF Covers
    <2>5. w.touched \subseteq CheckStmt(s, st).touched
      BY <1>5 DEF Grows
    <2> QED BY <2>2, <2>4, <2>5
  <1> QED BY <1>7, <1>8 DEF n, s, st, w

LEMMA ExprSound ==
  ASSUME Grammar, Procedures, Inv, NEW src, NEW at, NEW cat, NEW bor, NEW con,
         Sound(src, at, cat, bor, con), ExprStep, gap' = gap
  PROVE  \E src2, at2 : Sound(src2, at2, cat, bor, con)'
  <1> DEFINE n == Len(stack)
             all == CheckStmt(Stmt, at[n])
             m == Inspect(Machine, Stmt.x)
  <1>1. /\ stack # <<>> /\ Head(stack).todo # <<>> /\ Stmt.s = "expr" /\ Evaluable(Stmt.x)
        /\ Apply(m) /\ stack' = Past(stack, {}) /\ called' = FALSE /\ calls' = calls
    BY DEF ExprStep, At, EndStatement
  <1>2. Shape(stack, src, at) /\ Witness(src, at, cat, bor, con) /\ (~gap => Covers(src, at, cat, bor, con))
    BY DEF Sound, Witness
  <1>3. calls = <<>>
    BY <1>1, <1>2, Idle
  <1>4. /\ src[n] # <<>> /\ Stmt = Head(src[n]) /\ Stmt \in Statements /\ at[n] \in States
    BY <1>1, <1>2, Here
  <1>5. mem' = mem /\ Adds(m, {"moved"}) /\ faults' = m.faults
    BY <1>1, InspectEffect DEF Apply
  <1>6. "alias" \notin faults'
    BY <1>2, <1>5 DEF Witness, Adds
  <1>7. ASSUME Covers(src, at, cat, bor, con)
        PROVE  Leaves(all, {})
    <2>1. /\ Stmt.x.e = "name" => mem[Stmt.x.b] # 0
          /\ \A b \in ScopeOf(stack) : mem[b] = 0 => b \in After(Stmt, at[n]).moved
      BY <1>1, <1>2, <1>3, <1>7, Valued DEF Jumps
    <2>2. Adds(m, {})
      BY <2>1, InspectEffect
    <2>3. all.moved = After(Stmt, at[n]).moved
      BY <1>1, <1>4, PassFacts
    <2> QED BY <1>5, <1>7, <2>1, <2>2, <2>3 DEF Adds, Covers, Leaves
  <1>8. ScopeOf(stack') = ScopeOf(stack) \cup {}
    BY <1>1, Onwards DEF Inv
  <1>9. Ends /\ all = CheckStmt(Head(src[n]), at[n])
    BY <1>1, <1>3, <1>4 DEF Ends
  <1> HIDE DEF all
  <1> QED BY <1>1, <1>4, <1>6, <1>7, <1>8, <1>9, Advanced

\* A step that gives a value to the binding of its statement.
Stores(declared, v) ==
  /\ v = Eval(Machine, Stmt.x) /\ declared \subseteq {Stmt.b} /\ stack' = Past(stack, declared)
  /\ ScopeOf(stack') = ScopeOf(stack) \cup declared
  /\ mem'[Stmt.b] = v.value /\ \A c \in Bindings \ {Stmt.b} : mem'[c] = v.m.mem[c]
  /\ \A some : Adds(v.m, some) => faults' \subseteq faults \cup some

\* A statement that gives its value to a binding.
LEMMA StoreSound ==
  ASSUME Grammar, Procedures, Inv, NEW src, NEW at, NEW cat, NEW bor, NEW con,
         Sound(src, at, cat, bor, con), gap' = gap, calls' = calls, called' = FALSE,
         stack # <<>>, Head(stack).todo # <<>>,
         Stmt.s \in {"let", "assign", "propagate", "letelse"}, Storable(Stmt.x),
         Stmt.b \in ScopeOf(stack) => Stmt.s = "assign",
         NEW declared, NEW v, Stores(declared, v)
  PROVE  \E src2, at2 : Sound(src2, at2, cat, bor, con)'
  <1> USE DEF Stores
  <1> DEFINE n == Len(stack)
             all == CheckStmt(Stmt, at[n])
             w == After(Stmt, at[n])
  <1>1. Stmt.s # "each" /\ Stmt.s \notin Jumps /\ Evaluable(Stmt.x) /\ Consumes(Stmt)
    BY DEF Jumps, Storable, Consumes
  <1>2. Shape(stack, src, at) /\ Witness(src, at, cat, bor, con) /\ (~gap => Covers(src, at, cat, bor, con))
    BY DEF Sound, Witness
  <1>3. calls = <<>>
    BY <1>1, <1>2, Idle
  <1>4. /\ src[n] # <<>> /\ Stmt = Head(src[n]) /\ Stmt \in Statements /\ at[n] \in States
    BY <1>1, <1>2, Here
  <1>5. /\ \A c \in Bindings : v.m.mem[c] = IF Stmt.x.e = "name" /\ c = Stmt.x.b THEN 0 ELSE mem[c]
        /\ Adds(v.m, {"moved"})
        /\ (Stmt.x.e = "name" => mem[Stmt.x.b] # 0) => Adds(v.m, {}) /\ v.value # 0
    BY <1>1, EvalEffect
  <1>6. "alias" \notin faults'
    BY <1>2, <1>5 DEF Witness
  <1>7. ScopeOf(stack) \subseteq Bindings
    BY Running
  <1>8. ASSUME Covers(src, at, cat, bor, con)
        PROVE  Leaves(all, declared)
    <2>1. /\ Stmt.x.e = "name" => mem[Stmt.x.b] # 0
          /\ \A b \in ScopeOf(stack) : mem[b] = 0 => b \in w.moved
          /\ Stmt.x.e = "name" => Stmt.x.b \in w.moved /\ Stmt.x.b \in all.touched
      BY <1>1, <1>2, <1>3, <1>8, Valued
    <2>2. Adds(v.m, {}) /\ v.value # 0
      BY <1>5, <2>1
    <2>3. /\ \A c : c \in all.moved <=> c \in w.moved /\ c # Stmt.b
          /\ Stmt.s = "assign" => Stmt.b \in all.touched
      BY <1>4, PassFacts
    <2> HIDE DEF w, all
    <2>4. faults' \subseteq faults
      BY <2>2
    <2>5. ASSUME NEW b \in ScopeOf(stack) \cup declared, mem'[b] = 0
          PROVE  b \in all.moved
      <3>1. b # Stmt.b
        BY <2>2, <2>5
      <3>2. b \in ScopeOf(stack) /\ mem'[b] = v.m.mem[b]
        BY <1>7, <2>5, <3>1
      <3>3. b \in w.moved
        BY <1>5, <1>7, <2>1, <2>5, <3>2
      <3> QED BY <2>3, <3>1, <3>3
    <2>6. ASSUME NEW b \in ScopeOf(stack)
          PROVE  mem'[b] = mem[b] \/ b \in all.touched
      <3>1. CASE b = Stmt.b
        BY <2>3, <3>1
      <3>2. CASE b # Stmt.b
        BY <1>5, <1>7, <2>1, <3>2
      <3> QED BY <3>1, <3>2
    <2>7. Leaves(all, declared)
      BY <1>8, <2>4, <2>5, <2>6 DEF Covers, Leaves
    <2> QED BY <2>7 DEF all
  <1>9. Ends /\ all = CheckStmt(Head(src[n]), at[n])
    BY <1>3, <1>4 DEF Ends
  <1> HIDE DEF all
  <1> QED BY <1>4, <1>6, <1>8, <1>9, Advanced

\* The machine after an expression.
LEMMA ValueGood ==
  ASSUME Inv, stack # <<>>, Evaluable(Stmt.x), NEW v, v = Eval(Machine, Stmt.x)
  PROVE  Good(v.m, TempsOf(stack), ScopeOf(stack), v.value) /\ v.m \in Machines
  <1>1. Good(v.m, TempsOf(stack), ScopeOf(stack), v.value)
    BY Evaluated
  <1> QED BY <1>1 DEF Good

\* A binding is emptied.
LEMMA Emptied ==
  ASSUME NEW m, NEW temps, NEW scope, NEW v, Good(m, temps, scope, v), NEW b \in Bindings
  PROVE  /\ DropLocals(m, {b}) \in Machines /\ Good(DropLocals(m, {b}), temps, scope, v)
         /\ \A c \in Bindings \ {b} : DropLocals(m, {b}).mem[c] = m.mem[c]
         /\ \A some : Adds(m, some) => Adds(DropLocals(m, {b}), some)
  <1> DEFINE one == {b}
  <1>1. one \in SUBSET Bindings
    OBVIOUS
  <1> HIDE DEF one
  <1>2. /\ \A c \in Bindings \ one : DropLocals(m, one).mem[c] = m.mem[c]
        /\ \A some : Adds(m, some) => Adds(DropLocals(m, one), some)
    <2>1. \A c \in Bindings \ one : DropLocals(m, one).mem[c] = m.mem[c]
      BY <1>1, LocalsGood
    <2>2. ASSUME NEW some, Adds(m, some)
          PROVE  Adds(DropLocals(m, one), some)
      BY <1>1, <2>2, LocalsEffect
    <2> QED BY <2>1, <2>2
  <1>3. Good(DropLocals(m, one), temps, scope, v)
    BY <1>1, LocalsGood
  <1> QED BY <1>2, <1>3 DEF one, Good

LEMMA LetSound ==
  ASSUME Grammar, Procedures, Inv, NEW src, NEW at, NEW cat, NEW bor, NEW con,
         Sound(src, at, cat, bor, con), LetStep, gap' = gap
  PROVE  \E src2, at2 : Sound(src2, at2, cat, bor, con)'
  <1> DEFINE v == Eval(Machine, Stmt.x)
             m == Put(v.m, Stmt.b, v.value)
  <1>1. /\ stack # <<>> /\ Head(stack).todo # <<>> /\ Stmt.s = "let" /\ Storable(Stmt.x)
        /\ Declares(Stmt.b) /\ Apply(m) /\ stack' = Past(stack, {Stmt.b})
        /\ called' = FALSE /\ calls' = calls
    BY DEF LetStep, At, EndStatement, Put
  <1>2. Stmt.b \in Bindings \ ScopeOf(stack) /\ ScopeOf(stack') = ScopeOf(stack) \cup {Stmt.b}
    BY <1>1, Declared
  <1>3. v.m \in Machines
    BY <1>1, ValueGood DEF Storable
  <1>4. mem' = m.mem /\ faults' = m.faults
    BY <1>1 DEF Apply
  <1> HIDE DEF v
  <1>5. /\ mem'[Stmt.b] = v.value /\ faults' = v.m.faults
        /\ \A c \in Bindings \ {Stmt.b} : mem'[c] = v.m.mem[c]
    BY <1>2, <1>3, <1>4, PutEffect
  <1>6. \A some : Adds(v.m, some) => faults' \subseteq faults \cup some
    BY <1>5 DEF Adds
  <1>7. Stores({Stmt.b}, v)
    BY <1>1, <1>2, <1>5, <1>6 DEF Stores, v
  <1> QED BY <1>1, <1>2, <1>7, StoreSound

\* A binding is given a value in place of what it holds.
LEMMA RenewSound ==
  ASSUME Grammar, Procedures, Inv, NEW src, NEW at, NEW cat, NEW bor, NEW con,
         Sound(src, at, cat, bor, con), gap' = gap, EndStatement,
         stack # <<>>, Head(stack).todo # <<>>,
         Stmt.s \in {"assign", "propagate", "letelse"}, Storable(Stmt.x),
         Stmt.b \in Bindings, Stmt.b \in ScopeOf(stack) => Stmt.s = "assign",
         NEW declared, declared \subseteq {Stmt.b}, stack' = Past(stack, declared),
         ScopeOf(stack') = ScopeOf(stack) \cup declared,
         NEW v, v = Eval(Machine, Stmt.x),
         Apply(Put(DropLocals(v.m, {Stmt.b}), Stmt.b, v.value))
  PROVE  \E src2, at2 : Sound(src2, at2, cat, bor, con)'
  <1> DEFINE d == DropLocals(v.m, {Stmt.b})
             m == Put(d, Stmt.b, v.value)
  <1>1. called' = FALSE /\ calls' = calls
    BY DEF EndStatement
  <1>2. Good(v.m, TempsOf(stack), ScopeOf(stack), v.value)
    BY ValueGood DEF Storable
  <1>3. mem' = m.mem /\ faults' = m.faults
    BY DEF Apply
  <1>4. /\ \A c \in Bindings \ {Stmt.b} : d.mem[c] = v.m.mem[c]
        /\ \A some : Adds(v.m, some) => Adds(d, some)
        /\ d \in Machines
    BY <1>2, Emptied
  <1> HIDE DEF d
  <1>5. /\ mem'[Stmt.b] = v.value /\ faults' = d.faults
        /\ \A c \in Bindings \ {Stmt.b} : mem'[c] = d.mem[c]
    BY <1>3, <1>4, PutEffect
  <1>6. /\ \A c \in Bindings \ {Stmt.b} : mem'[c] = v.m.mem[c]
        /\ \A some : Adds(v.m, some) => faults' \subseteq faults \cup some
    BY <1>4, <1>5 DEF Adds
  <1>7. Stmt.s \in {"let", "assign", "propagate", "letelse"}
    OBVIOUS
  <1>8. Stores(declared, v)
    BY <1>5, <1>6 DEF Stores
  <1> QED BY <1>1, <1>7, <1>8, StoreSound

LEMMA AssignSound ==
  ASSUME Grammar, Procedures, Inv, NEW src, NEW at, NEW cat, NEW bor, NEW con,
         Sound(src, at, cat, bor, con), AssignStep, gap' = gap
  PROVE  \E src2, at2 : Sound(src2, at2, cat, bor, con)'
  <1> DEFINE v == Eval(Machine, Stmt.x)
  <1>1. /\ stack # <<>> /\ Head(stack).todo # <<>> /\ Stmt.s = "assign" /\ Storable(Stmt.x)
        /\ Stmt.b \in ScopeOf(stack) /\ stack' = Past(stack, {}) /\ EndStatement
        /\ Apply(Put(DropLocals(v.m, {Stmt.b}), Stmt.b, v.value))
    BY DEF AssignStep, At, Put
  <1>2. Stmt.b \in Bindings /\ ScopeOf(stack') = ScopeOf(stack) \cup {}
    BY <1>1, Running, Onwards
  <1> HIDE DEF v
  <1> QED BY <1>1, <1>2, RenewSound DEF v

\* The function is left.
LEMMA EmptySound ==
  ASSUME NEW src, NEW at, NEW cat, NEW bor, NEW con, Sound(src, at, cat, bor, con),
         Ends, stack' = <<>>, "alias" \notin faults',
         Covers(src, at, cat, bor, con) => faults' \cap {"moved", "freed"} = {}
  PROVE  Sound(src, at, cat, bor, con)'
  <1>1. Len(stack') = 0 /\ \A d \in 1 .. 0 : FALSE
    BY DEF Ends
  <1>2. \A d \in 2 .. 0 : FALSE
    OBVIOUS
  <1>3. Shape(stack', src, at)
    BY <1>1, <1>2 DEF Sound, Witness, Shape
  <1>4. Witness(src, at, cat, bor, con)'
    BY <1>3 DEF Sound, Witness, Ends
  <1>5. Chain(stack', src, at) /\ Pins(stack', src, mem')
    BY <1>1, <1>2 DEF Chain, Links, Touches, Escapes, Apart, Pins
  <1>6. ScopeOf(stack') = {}
    BY EmptyOK
  <1> QED BY <1>4, <1>5, <1>6 DEF Sound, Covers, Ends

\* Dropping temporaries is no use of a moved binding.
LEMMA TempsEffect ==
  ASSUME NEW m, NEW temps, NEW scope, NEW v, Good(m, temps, scope, v),
         NEW ids, ids \ {0} = temps
  PROVE  DropAll(m, ids).mem = m.mem /\ DropAll(m, ids).faults = m.faults
  <1> DEFINE n == [m EXCEPT !.live = @ \ ids]
  <1>1. DropAll(m, ids) = n
    BY DEF DropAll, Fault, Good
  <1>2. n.mem = m.mem /\ n.faults = m.faults
    BY DEF Good, Machines
  <1> QED BY <1>1, <1>2

LEMMA FinishSound ==
  ASSUME Grammar, Procedures, Inv, NEW src, NEW at, NEW cat, NEW bor, NEW con,
         Sound(src, at, cat, bor, con), gap' = gap, EndStatement,
         stack # <<>>, Head(stack).todo # <<>>, Stmt.s \in {"return", "propagate"},
         Evaluable(Stmt.x), NEW v, v = Eval(Machine, Stmt.x), NEW m, NEW value,
         Good(m, TempsOf(stack), ScopeOf(stack), v.value),
         \A some : Adds(v.m, some) => Adds(m, some), Finish(m, value)
  PROVE  \E src2, at2 : Sound(src2, at2, cat, bor, con)'
  <1> DEFINE emptied == DropAll(m, Temps)
             owned == OwnedBy(stack)
             n == DropLocals(emptied, owned)
  <1>1. Apply(n) /\ stack' = <<>>
    BY DEF Finish
  <1>2. Stmt.s # "each" /\ Stmt.s \notin Jumps
    BY DEF Jumps
  <1>3. Witness(src, at, cat, bor, con) /\ (~gap => Covers(src, at, cat, bor, con))
    BY DEF Sound
  <1>4. Ends
    BY <1>2, <1>3, Idle DEF EndStatement, Ends
  <1>5. Temps \ {0} = TempsOf(stack)
    BY DEF Temps, TempsOf
  <1>6. Good(emptied, {}, ScopeOf(stack), v.value) /\ emptied.faults = m.faults
    BY <1>5, TempsGood, TempsEffect
  <1>7. owned \in SUBSET Bindings
    BY OwnedOK DEF Inv
  <1> HIDE DEF emptied, owned
  <1>8. ASSUME NEW some, Adds(v.m, some)
        PROVE  faults' \subseteq faults \cup some
    <2>1. Adds(emptied, some)
      BY <1>6, <1>8 DEF Adds
    <2>2. Adds(n, some)
      BY <1>6, <1>7, <2>1, LocalsEffect
    <2> QED BY <1>1, <2>2 DEF Adds, Apply
  <1>9. /\ Adds(v.m, {"moved"})
        /\ (Stmt.x.e = "name" => mem[Stmt.x.b] # 0) => Adds(v.m, {})
    BY EvalEffect
  <1>10. "alias" \notin faults'
    BY <1>3, <1>8, <1>9 DEF Witness
  <1>11. ASSUME Covers(src, at, cat, bor, con)
         PROVE  faults' \cap {"moved", "freed"} = {}
    <2>1. Adds(v.m, {})
      BY <1>2, <1>3, <1>4, <1>9, <1>11, Valued DEF Ends
    <2> QED BY <1>8, <1>11, <2>1 DEF Covers
  <1>12. Sound(src, at, cat, bor, con)'
    BY <1>1, <1>4, <1>10, <1>11, EmptySound
  <1> QED BY <1>12

LEMMA ReturnSound ==
  ASSUME Grammar, Procedures, Inv, NEW src, NEW at, NEW cat, NEW bor, NEW con,
         Sound(src, at, cat, bor, con), ReturnStep \/ PropagateStep, gap' = gap
  PROVE  \E src2, at2 : Sound(src2, at2, cat, bor, con)'
  <1> DEFINE v == Eval(Machine, Stmt.x)
             emptied == DropLocals(v.m, {Stmt.b})
  <1>1. stack # <<>> /\ Head(stack).todo # <<>> /\ Evaluable(Stmt.x) /\ EndStatement
    BY DEF ReturnStep, PropagateStep, At, Storable
  <1>2. Good(v.m, TempsOf(stack), ScopeOf(stack), v.value)
    BY <1>1, ValueGood
  <1>3. CASE ReturnStep
    <2>1. Finish(v.m, v.value) /\ Stmt.s \in {"return", "propagate"}
      BY <1>3 DEF ReturnStep, At
    <2> HIDE DEF v
    <2> QED BY <1>1, <1>2, <2>1, FinishSound DEF v
  <1>4. CASE PropagateStep
    <2>1. /\ Storable(Stmt.x) /\ Declares(Stmt.b)
          /\ Stmt.s \in {"return", "propagate"} /\ Stmt.s \in {"assign", "propagate", "letelse"}
          /\ \/ Finish(emptied, v.value)
             \/ Apply(Put(emptied, Stmt.b, v.value)) /\ stack' = Past(stack, {Stmt.b})
      BY <1>4 DEF PropagateStep, At, Put
    <2>2. /\ Stmt.b \in Bindings \ ScopeOf(stack)
          /\ ScopeOf(Past(stack, {Stmt.b})) = ScopeOf(stack) \cup {Stmt.b}
      BY <1>1, <2>1, Declared
    <2> HIDE DEF v
    <2>3. CASE Finish(emptied, v.value)
      <3>1. /\ Good(emptied, TempsOf(stack), ScopeOf(stack), v.value)
            /\ \A some : Adds(v.m, some) => Adds(emptied, some)
        BY <1>2, <2>2, Emptied
      <3> HIDE DEF emptied
      <3> QED BY <1>1, <2>1, <2>3, <3>1, FinishSound DEF v
    <2>4. CASE Apply(Put(emptied, Stmt.b, v.value)) /\ stack' = Past(stack, {Stmt.b})
      <3>1. ScopeOf(stack') = ScopeOf(stack) \cup {Stmt.b}
        BY <2>2, <2>4
      <3> QED BY <1>1, <2>1, <2>2, <2>4, <3>1, RenewSound DEF v
    <2> QED BY <2>1, <2>3, <2>4
  <1> QED BY <1>3, <1>4

\* The frames of the stack have in scope what the stack has.
LEMMA ScopeApart ==
  ASSUME Inv, NEW owned, owned \cap ScopeOf(stack) = {}
  PROVE  \A d \in 1 .. Len(stack) : Nth(stack, d).scope \cap owned = {}
  <1>1. PICK S : stack \in Seq(S)
    BY StackSeq
  <1>2. \A d \in 1 .. Len(stack) : \A b \in Nth(stack, d).scope : b \in ScopeOf(stack)
    BY <1>1, ScopeNth
  <1> QED BY <1>2

\* A frame is entered.
Pushes(fs, top, gs) == (\E S : fs \in Seq(S)) /\ gs = <<top>> \o fs

LEMMA PushedNth ==
  ASSUME NEW fs, NEW top, NEW gs, Pushes(fs, top, gs)
  PROVE  /\ Len(gs) = Len(fs) + 1 /\ Nth(gs, Len(fs) + 1) = top
         /\ \A d \in 1 .. Len(fs) : Nth(gs, d) = Nth(fs, d)
  <1>0. PICK S : fs \in Seq(S)
    BY DEF Pushes
  <1>1. /\ Len(<<top>> \o fs) = Len(fs) + 1
        /\ Nth(<<top>> \o fs, Len(fs) + 1) = top
        /\ \A d \in 1 .. Len(fs) : Nth(<<top>> \o fs, d) = Nth(fs, d)
        /\ <<top>> \o fs \in Seq(S \cup {top})
    BY <1>0, NthPush
  <1> QED BY <1>1 DEF Pushes

\* The body of a loop is entered.
Begins(src, at, n, s) ==
  /\ n = Len(stack) /\ stack # <<>> /\ src[n] # <<>> /\ s = Head(src[n]) /\ s \in Loops
  /\ CheckStmt(s, at[n]).diags = {} /\ Grows(CheckStmt(s, at[n]), Fin(src, at, n))
  /\ s.s = "for" => Head(stack).todo # src[n]
  /\ Fresh(s.body) /\ stack' = <<Frame("loop", s.body, {}, 0)>> \o stack
  /\ mem' = mem /\ "alias" \notin faults'

LEMMA LoopSound ==
  ASSUME Grammar, Procedures, Inv, NEW src, NEW at, NEW cat, NEW bor, NEW con,
         Sound(src, at, cat, bor, con), Ends, NEW n, NEW s, Begins(src, at, n, s),
         Covers(src, at, cat, bor, con) =>
           /\ faults' \cap {"moved", "freed"} = {}
           /\ \A b \in ScopeOf(stack) : mem[b] = 0 => b \in Begun(Cond(s, at[n])).moved
  PROVE  \E src2, at2 : Sound(src2, at2, cat, bor, con)'
  <1> USE DEF Begins
  <1> DEFINE block == s.body
             t == Begun(Cond(s, at[n]))
             top == Frame("loop", block, {}, 0)
             all == CheckStmt(s, at[n])
  <1>1. PICK S : stack \in Seq(S)
    BY StackSeq
  <1>2. Shape(stack, src, at) /\ n \in Nat \ {0} /\ Nth(stack, n) = Head(stack)
    BY StackSeq DEF Sound, Witness
  <1>3. at[n] \in States
    BY <1>2 DEF Shape
  <1>4. /\ Within(s, at[n], block, t)
        /\ CheckBlock(block, t).moved \subseteq Entry(s, at[n])
        /\ ~all.gap => /\ \A b \in CheckBlock(block, t).jumped : b \in Locals(block) \/ b \in Entry(s, at[n])
                       /\ s.s = "for" => s.x.b \notin CheckBlock(block, t).touched
    BY <1>3, LoopBranch
  <1> HIDE DEF t, top
  <1>5. top.kind = "loop" /\ top.todo = block /\ top.owns = Locals(block) \cup {} /\ top.scope = {}
    BY DEF top, Frame
  <1>6. /\ Len(stack') = n + 1 /\ Nth(stack', n + 1) = top
        /\ \A d \in 1 .. n : Nth(stack', d) = Nth(stack, d)
    <2>1. Pushes(stack, top, stack')
      BY <1>1 DEF top, Pushes
    <2>2. /\ Len(stack') = Len(stack) + 1 /\ Nth(stack', Len(stack) + 1) = top
          /\ \A d \in 1 .. Len(stack) : Nth(stack', d) = Nth(stack, d)
      BY <1>1, <2>1, PushedNth
    <2> QED BY <2>2
  <1>7. Agree(stack, stack', n)
    BY <1>6 DEF Agree, Alike
  <1>8. Repeats(src[n])
    BY DEF Loops, Repeats
  <1>9. CheckBlock(block, t).diags = {} /\ block \in Blocks /\ t \in States
    BY <1>4 DEF Within
  <1>10. PICK src2 : src2 = [src EXCEPT ![n + 1] = block]
    OBVIOUS
  <1>11. PICK at2 : at2 = [at EXCEPT ![n + 1] = t]
    OBVIOUS
  <1>12. Enters(stack, stack', src, at, n, block, t, src2, at2)
    BY <1>2, <1>5, <1>6, <1>7, <1>8, <1>9, <1>10, <1>11 DEF Enters
  <1>13. /\ Shape(stack', src2, at2) /\ src2[n + 1] = block /\ at2[n + 1] = t
         /\ \A d \in 1 .. n : src2[d] = src[d]
         /\ Joins(stack, top, src, at, n, block, t) => Chain(stack', src2, at2)
    BY <1>6, <1>12, EnterChain
  <1>14. Witness(src2, at2, cat, bor, con)'
    BY <1>13 DEF Sound, Witness, Ends
  <1>15. ASSUME Covers(src, at, cat, bor, con)
         PROVE  Covers(src2, at2, cat, bor, con)'
    <2>1. Chain(stack, src, at) /\ Pins(stack, src, mem)
      BY <1>15 DEF Covers
    <2>2. ~Fin(src, at, n).gap
      BY <1>2, <2>1 DEF Chain
    <2>3. ~all.gap /\ all.touched \subseteq Fin(src, at, n).touched
      BY <2>2 DEF Grows
    <2>4. Joins(stack, top, src, at, n, block, t)
      <3>1. ~CheckBlock(block, t).gap /\ CheckBlock(block, t).touched \subseteq Fin(src, at, n).touched
        BY <1>4, <2>3 DEF Within
      <3>2. Link(top, Nth(stack, n), src[n], at[n], CheckBlock(block, t))
        BY <1>2, <1>4, <1>5, <2>3 DEF Link
      <3>3. \A d \in 1 .. n : Nth(stack, d).scope \cap top.owns = {}
        BY <1>5, ScopeApart DEF Fresh
      <3> QED BY <1>5, <2>1, <3>1, <3>2, <3>3 DEF Joins
    <2>5. Pins(stack', src2, mem')
      <3>1. \A d \in 1 .. n + 1 : d \in 1 .. n \/ d = n + 1
        BY <1>2
      <3>2. \A d \in 1 .. Len(stack') : d \in 1 .. n \/ Nth(stack', d).todo = src2[d]
        BY <1>5, <1>6, <1>13, <3>1
      <3>3. n \in 0 .. n /\ n \in Nat /\ Len(stack') \in Nat
        BY <1>2, <1>6
      <3>4. Keeps(stack, src, at, mem, n, stack', src2, mem', n)
        BY <1>2, <1>7, <1>13, <2>1, <3>2, <3>3 DEF Keeps
      <3> QED BY <3>4, PinsKept
    <2>6. Reached(src2, at2, cat)' = Point(top, block, t, FALSE)
      BY <1>6, <1>13 DEF Reached, Ends
    <2>7. t.moved \subseteq Reached(src2, at2, cat)'
      <3> HIDE DEF block
      <3>1. t.moved \subseteq Point(top, block, t, FALSE)
        BY <1>5, <1>9, PointFacts
      <3> QED BY <2>6, <3>1
    <2>8. ScopeOf(stack') = ScopeOf(stack)
      BY BlockOK DEF Inv, Kinds
    <2> QED BY <1>13, <1>15, <2>4, <2>5, <2>7, <2>8 DEF Covers, Ends, t
  <1> QED BY <1>14, <1>15 DEF Sound, Ends

LEMMA WhileSound ==
  ASSUME Grammar, Procedures, Inv, NEW src, NEW at, NEW cat, NEW bor, NEW con,
         Sound(src, at, cat, bor, con), WhileStep, gap' = gap
  PROVE  \E src2, at2 : Sound(src2, at2, cat, bor, con)'
  <1> DEFINE n == Len(stack)
             s == Head(src[n])
             all == CheckStmt(s, at[n])
             m == Inspect(Machine, Stmt.x)
  <1>1. /\ stack # <<>> /\ Head(stack).todo # <<>> /\ Stmt.s = "while" /\ Evaluable(Stmt.x)
        /\ Apply(m) /\ called' = FALSE /\ calls' = calls
        /\ \/ Fresh(Stmt.body) /\ stack' = <<Frame("loop", Stmt.body, {}, 0)>> \o stack
           \/ stack' = Past(stack, {})
    BY DEF WhileStep, At, EndStatement
  <1>2. Shape(stack, src, at) /\ Witness(src, at, cat, bor, con) /\ (~gap => Covers(src, at, cat, bor, con))
    BY DEF Sound, Witness
  <1>3. Ends
    BY <1>1, <1>2, Idle DEF Ends
  <1>4. /\ src[n] # <<>> /\ Stmt = s /\ s \in Statements /\ at[n] \in States
        /\ all.diags = {} /\ Grows(all, Fin(src, at, n))
    BY <1>1, <1>2, Here
  <1>5. mem' = mem /\ Adds(m, {"moved"}) /\ faults' = m.faults
    BY <1>1, InspectEffect DEF Apply
  <1>6. "alias" \notin faults'
    BY <1>2, <1>5 DEF Witness, Adds
  <1>7. s \in Loops
    BY <1>1, <1>4 DEF Loops
  <1>8. /\ all.moved = After(s, at[n]).moved
        /\ Begun(Cond(s, at[n])).moved = After(s, at[n]).moved
    BY <1>1, <1>4, <1>7, PassFacts, LoopBranch
  <1>9. ASSUME Covers(src, at, cat, bor, con)
        PROVE  /\ faults' \cap {"moved", "freed"} = {}
               /\ \A b \in ScopeOf(stack) : mem[b] = 0 => b \in After(s, at[n]).moved
    <2>1. /\ Stmt.x.e = "name" => mem[Stmt.x.b] # 0
          /\ \A b \in ScopeOf(stack) : mem[b] = 0 => b \in After(Stmt, at[n]).moved
      BY <1>1, <1>2, <1>3, <1>9, Valued DEF Jumps, Ends
    <2>2. Adds(m, {})
      BY <2>1, InspectEffect
    <2> QED BY <1>4, <1>5, <1>9, <2>1, <2>2 DEF Adds, Covers
  <1>10. CASE Fresh(Stmt.body) /\ stack' = <<Frame("loop", Stmt.body, {}, 0)>> \o stack
    <2>1. s.s # "for"
      BY <1>1, <1>4
    <2>2. Begins(src, at, n, s)
      BY <1>1, <1>4, <1>5, <1>6, <1>7, <1>10, <2>1 DEF Begins
    <2> HIDE DEF n, s
    <2> QED BY <1>3, <1>8, <1>9, <2>2, LoopSound
  <1>11. CASE stack' = Past(stack, {})
    <2>1. ScopeOf(stack') = ScopeOf(stack) \cup {}
      BY <1>1, <1>11, Onwards DEF Inv
    <2>2. ASSUME Covers(src, at, cat, bor, con)
          PROVE  Leaves(all, {})
      BY <1>5, <1>8, <1>9, <2>2 DEF Leaves
    <2>3. all = CheckStmt(Head(src[n]), at[n])
      OBVIOUS
    <2> HIDE DEF all, n
    <2> QED BY <1>1, <1>3, <1>4, <1>6, <1>11, <2>1, <2>2, <2>3, Advanced DEF n
  <1> QED BY <1>1, <1>10, <1>11

\* The storage that a for loop goes through is there.
LEMMA PinLive ==
  ASSUME Inv, NEW src, Pins(stack, src, mem), NEW n \in Nat \ {0}, n = Len(stack),
         Nth(stack, n) = Head(stack), Head(stack).todo # src[n]
  PROVE  Head(stack).todo[1].items \in live \cup {0}
  <1> DEFINE b == Head(src[n]).x.b
  <1>1. n \in 1 .. Len(stack)
    OBVIOUS
  <1>2. Pinning(stack, src, mem, n)
    BY <1>1 DEF Pins
  <1>3. mem[b] = Head(stack).todo[1].items /\ \E c \in 1 .. n : b \in Nth(stack, c).scope
    BY <1>2 DEF Pinning
  <1>4. b \in ScopeOf(stack)
    <2>1. PICK S : stack \in Seq(S)
      BY StackSeq
    <2> HIDE DEF b
    <2> QED BY <1>3, <2>1, ScopeNth
  <1>5. stack # <<>>
    OBVIOUS
  <1>6. b \in Bindings
    BY <1>4, <1>5, Running
  <1> QED BY <1>3, <1>6, MemTyped

LEMMA EachSound ==
  ASSUME Grammar, Procedures, Inv, NEW src, NEW at, NEW cat, NEW bor, NEW con,
         Sound(src, at, cat, bor, con), EachStep, gap' = gap
  PROVE  \E src2, at2 : Sound(src2, at2, cat, bor, con)'
  <1> DEFINE n == Len(stack)
             s == Head(src[n])
             all == CheckStmt(s, at[n])
             gone == Stmt.items \notin live \cup {0}
             m == Fault(Machine, gone, "freed")
  <1>1. /\ stack # <<>> /\ Head(stack).todo # <<>> /\ Stmt.s = "each" /\ At("each")
        /\ called' = FALSE /\ calls' = calls
        /\ \/ /\ Fresh(Stmt.body) /\ stack' = <<Frame("loop", Stmt.body, {}, 0)>> \o stack
              /\ Apply(m)
           \/ stack' = Past(stack, {}) /\ UNCHANGED <<mem, faults>>
    BY DEF EachStep, At, EndStatement
  <1>2. Shape(stack, src, at) /\ Witness(src, at, cat, bor, con) /\ (~gap => Covers(src, at, cat, bor, con))
    BY DEF Sound, Witness
  <1>3. Ends
    BY <1>1, <1>2, Idle DEF Ends
  <1>4. /\ n \in Nat \ {0} /\ Nth(stack, n) = Head(stack)
        /\ src[n] # <<>> /\ s \in Loops /\ s.s = "for" /\ at[n] \in States /\ Stmt.body = s.body
        /\ Head(stack).todo # src[n] /\ all.diags = {} /\ Grows(all, Fin(src, at, n))
        /\ DOMAIN Stmt = {"s", "items", "body"}
    BY <1>1, <1>2, HereEach
  <1>5. ~called
    BY <1>2, <1>4 DEF Witness, HasCall
  <1>6. ASSUME Covers(src, at, cat, bor, con)
        PROVE  /\ ~gone
               /\ \A b \in ScopeOf(stack) : mem[b] = 0 => b \in Entry(s, at[n])
               /\ faults \cap {"moved", "freed"} = {}
    <2>1. Stmt.items \in live \cup {0}
      BY <1>4, <1>6, PinLive DEF Covers, Stmt
    <2>2. Reached(src, at, cat) = Entry(s, at[n])
      BY <1>3, <1>4 DEF Reached, Point, Ends
    <2> QED BY <1>6, <2>1, <2>2 DEF Covers
  <1>7. "alias" \notin faults
    BY <1>2 DEF Witness
  <1>8. CASE /\ Fresh(Stmt.body) /\ stack' = <<Frame("loop", Stmt.body, {}, 0)>> \o stack
             /\ Apply(m)
    <2>1. /\ mem' = mem /\ "alias" \notin faults'
          /\ ~gone => faults' = faults
      <3> HIDE DEF gone
      <3>1. Machine \in Machines /\ Machine.mem = mem /\ Machine.faults = faults
        BY MemTyped
      <3>2. /\ m.mem = mem /\ m.faults \subseteq faults \cup {"freed"} /\ (~gone => m.faults = faults)
        BY <3>1 DEF Fault, Machines
      <3> QED BY <1>7, <1>8, <3>2 DEF Apply
    <2>2. Begins(src, at, n, s)
      BY <1>1, <1>4, <1>8, <2>1 DEF Begins
    <2>3. Entry(s, at[n]) \subseteq Begun(Cond(s, at[n])).moved
      BY <1>4, LoopBranch
    <2>4. Covers(src, at, cat, bor, con) =>
            /\ faults' \cap {"moved", "freed"} = {}
            /\ \A b \in ScopeOf(stack) : mem[b] = 0 => b \in Begun(Cond(s, at[n])).moved
      BY <1>6, <2>1, <2>3
    <2> HIDE DEF n, s
    <2> QED BY <1>3, <2>2, <2>4, LoopSound
  <1>9. CASE stack' = Past(stack, {}) /\ UNCHANGED <<mem, faults>>
    <2>1. ScopeOf(stack') = ScopeOf(stack) \cup {}
      BY <1>1, <1>9, Onwards DEF Inv
    <2>2. Entry(s, at[n]) \subseteq all.moved
      <3>1. s \in Statements
        BY <1>4 DEF Loops
      <3> QED BY <1>4, <3>1, PassFacts
    <2>3. Covers(src, at, cat, bor, con) => Leaves(all, {})
      BY <1>6, <1>9, <2>2 DEF Leaves
    <2>4. all = CheckStmt(Head(src[n]), at[n])
      OBVIOUS
    <2> HIDE DEF all, n
    <2> QED BY <1>1, <1>3, <1>4, <1>7, <1>9, <2>1, <2>3, <2>4, Advanced DEF n
  <1> QED BY <1>1, <1>8, <1>9

\* A block that is not a loop's is entered, and the statement is passed.
Arm(src, at, n, block, t, kind, bound, temp) ==
  /\ n = Len(stack) /\ stack # <<>> /\ src[n] # <<>>
  /\ Grows(CheckStmt(Head(src[n]), at[n]), Fin(src, at, n))
  /\ CheckStmt(Head(src[n]), at[n]).diags = {}
  /\ Branch(Head(src[n]), at[n], block, t, Locals(block) \cup bound)
  /\ kind # "loop"
  /\ kind # "else" => CheckBlock(block, t).moved \subseteq CheckStmt(Head(src[n]), at[n]).moved
  /\ (Locals(block) \cup bound) \cap ScopeOf(stack) = {}
  /\ stack' = <<Frame(kind, block, bound, temp)>> \o Past(stack, {})
  /\ ScopeOf(stack') = ScopeOf(stack) \cup bound
  /\ "alias" \notin faults'

\* What the machine has after the expression.
Opens(all, t, bound) ==
  /\ faults' \cap {"moved", "freed"} = {}
  /\ \A b \in ScopeOf(stack) \cup bound : mem'[b] = 0 => b \in t.moved
  /\ \A b \in ScopeOf(stack) : mem'[b] = mem[b] \/ b \in all.touched

LEMMA ArmSound ==
  ASSUME Grammar, Procedures, Inv, NEW src, NEW at, NEW cat, NEW bor, NEW con,
         Sound(src, at, cat, bor, con), Ends, NEW n, NEW block, NEW t, NEW kind, NEW bound,
         NEW temp, Arm(src, at, n, block, t, kind, bound, temp),
         Covers(src, at, cat, bor, con) => Opens(CheckStmt(Head(src[n]), at[n]), t, bound)
  PROVE  \E src2, at2 : Sound(src2, at2, cat, bor, con)'
  <1> USE DEF Arm, Opens
  <1> DEFINE s == Head(src[n])
             top == Frame(kind, block, bound, temp)
             fs == Past(stack, {})
             all == CheckStmt(s, at[n])
  <1>1. PICK S : stack \in Seq(S)
    BY StackSeq
  <1>2. Shape(stack, src, at) /\ n \in Nat \ {0} /\ Nth(stack, n) = Head(stack)
    BY StackSeq DEF Sound, Witness
  <1>3. src \in [Nat -> Blocks] /\ at \in [Nat -> States] /\ n \in 1 .. n /\ at[n] \in States
    BY <1>2 DEF Shape
  <1>4. top.kind = kind /\ top.todo = block /\ top.owns = Locals(block) \cup bound /\ top.scope = bound
    BY DEF top, Frame
  <1>5. stack' = <<top>> \o fs
    OBVIOUS
  <1> HIDE DEF top, fs
  <1>6. /\ Len(fs) = n /\ \A d \in 1 .. n - 1 : Nth(fs, d) = Nth(stack, d)
        /\ Nth(fs, n).todo = Tail(Head(stack).todo) /\ Nth(fs, n).kind = Head(stack).kind
        /\ Nth(fs, n).owns = Head(stack).owns /\ Nth(fs, n).scope = Head(stack).scope
        /\ \E T : fs \in Seq(T)
    <2>1. /\ Len(fs) = Len(stack) /\ \A d \in 1 .. Len(stack) - 1 : Nth(fs, d) = Nth(stack, d)
          /\ Nth(fs, Len(stack)) = [Head(stack) EXCEPT !.todo = Tail(@), !.scope = @ \cup {}]
          /\ \E T : fs \in Seq(T)
      BY <1>1, PastNth DEF fs
    <2>2. PICK todos : Head(stack) \in Frames(todos)
      BY TailOK DEF Inv
    <2> QED BY <2>1, <2>2 DEF Frames
  <1>7. /\ Len(stack') = n + 1 /\ Nth(stack', n + 1) = top
        /\ \A d \in 1 .. n : Nth(stack', d) = Nth(fs, d)
    <2>1. Pushes(fs, top, stack')
      BY <1>5, <1>6 DEF Pushes
    <2>2. /\ Len(stack') = Len(fs) + 1 /\ Nth(stack', Len(fs) + 1) = top
          /\ \A d \in 1 .. Len(fs) : Nth(stack', d) = Nth(fs, d)
      BY ONLY <2>1, PushedNth
    <2> QED BY <1>6, <2>2
  <1>8. Agree(stack, fs, n - 1) /\ Agree(fs, stack', n) /\ Agree(stack, stack', n - 1)
    <2>1. \A d \in 1 .. n - 1 : d \in 1 .. n
      BY <1>2
    <2> QED BY <1>6, <1>7, <2>1 DEF Agree, Alike
  <1>9. PICK src1 : src1 = [src EXCEPT ![n] = Tail(src[n])]
    OBVIOUS
  <1>10. PICK at1 : at1 = [at EXCEPT ![n] = all]
    OBVIOUS
  <1>11. Advances(stack, fs, src, at, n, src1, at1)
    BY <1>2, <1>6, <1>8, <1>9, <1>10 DEF Advances
  <1>12. /\ Shape(fs, src1, at1) /\ Nth(fs, n).todo = src1[n] /\ Fin(src1, at1, n) = Fin(src, at, n)
         /\ Chain(stack, src, at) => Chain(fs, src1, at1)
    BY <1>11, AdvanceChain
  <1>13. /\ at1[n] = all /\ \A d \in 1 .. n - 1 : src1[d] = src[d]
    BY <1>3, <1>9, <1>10
  <1>14. PICK src2 : src2 = [src1 EXCEPT ![n + 1] = block]
    OBVIOUS
  <1>15. PICK at2 : at2 = [at1 EXCEPT ![n + 1] = t]
    OBVIOUS
  <1>16. block \in Blocks /\ t \in States /\ CheckBlock(block, t).diags = {}
    BY DEF Branch, Within
  <1>17. Enters(fs, stack', src1, at1, n, block, t, src2, at2)
    BY <1>2, <1>4, <1>6, <1>7, <1>8, <1>12, <1>14, <1>15, <1>16 DEF Enters
  <1>18. /\ Shape(stack', src2, at2) /\ src2[n + 1] = block /\ at2[n + 1] = t
         /\ \A d \in 1 .. n : src2[d] = src1[d]
         /\ Joins(fs, top, src1, at1, n, block, t) => Chain(stack', src2, at2)
    BY <1>7, <1>17, EnterChain
  <1>19. Witness(src2, at2, cat, bor, con)'
    BY <1>18 DEF Sound, Witness, Ends
  <1>20. ASSUME Covers(src, at, cat, bor, con)
         PROVE  Covers(src2, at2, cat, bor, con)'
    <2>1. Chain(stack, src, at) /\ Pins(stack, src, mem)
      BY <1>20 DEF Covers
    <2>2. ~Fin(src, at, n).gap
      BY <1>2, <2>1 DEF Chain
    <2>3. /\ ~all.gap /\ all.touched \subseteq Fin(src, at, n).touched
          /\ all.jumped \subseteq Fin(src, at, n).jumped
      BY <2>2 DEF Grows
    <2>4. Joins(fs, top, src1, at1, n, block, t)
      <3>1. ~CheckBlock(block, t).gap /\ CheckBlock(block, t).touched \subseteq Fin(src1, at1, n).touched
        BY <1>12, <2>3 DEF Branch, Within
      <3>2. Link(top, Nth(fs, n), src1[n], at1[n], CheckBlock(block, t))
        BY <1>4, <1>12, <1>13 DEF Link
      <3>3. \A b \in CheckBlock(block, t).jumped : b \in top.owns \/ b \in Fin(src1, at1, n).jumped
        BY <1>4, <1>12, <2>3 DEF Branch
      <3>4. \A d \in 1 .. n : Nth(fs, d).scope \cap top.owns = {}
        <4>1. \A d \in 1 .. n : Nth(stack, d).scope \cap top.owns = {}
          BY <1>4, ScopeApart
        <4>2. \A d \in 1 .. n : d = n \/ d \in 1 .. n - 1
          BY <1>2
        <4> QED BY <1>2, <1>3, <1>6, <4>1, <4>2
      <3> QED BY <1>12, <2>1, <3>1, <3>2, <3>3, <3>4 DEF Joins
    <2>5. Pins(stack', src2, mem')
      <3>1. \A d \in 1 .. n + 1 : d \in 1 .. n - 1 \/ d = n \/ d = n + 1
        BY <1>2
      <3>2. \A d \in 1 .. Len(stack') : d \in 1 .. n - 1 \/ Nth(stack', d).todo = src2[d]
        BY <1>3, <1>4, <1>7, <1>12, <1>18, <3>1
      <3>3. n - 1 \in 0 .. n /\ n \in Nat /\ Len(stack') \in Nat /\ n - 1 < n
        BY <1>2, <1>7
      <3>4. \A d \in 1 .. n - 1 : src2[d] = src[d] /\ d \in 1 .. n
        BY <1>2, <1>13, <1>18
      <3>5. \A c \in 1 .. n - 1 : \A b \in Nth(stack, c).scope :
              mem'[b] = mem[b] \/ (n - 1 < n /\ b \in Fin(src, at, n).touched)
        <4>1. \A c \in 1 .. n - 1 : \A b \in Nth(stack, c).scope : b \in ScopeOf(stack)
          BY <1>1, <3>4, ScopeNth
        <4> QED BY <1>20, <2>3, <3>3, <4>1
      <3>6. Keeps(stack, src, at, mem, n, stack', src2, mem', n - 1)
        BY <1>2, <1>8, <2>1, <3>2, <3>3, <3>4, <3>5 DEF Keeps
      <3> QED BY <3>6, PinsKept
    <2>6. Reached(src2, at2, cat)' = Point(top, block, t, FALSE)
      BY <1>7, <1>18 DEF Reached, Ends
    <2>7. t.moved \subseteq Reached(src2, at2, cat)'
      <3>1. t.moved \subseteq Point(top, block, t, FALSE)
        BY <1>4, <1>16, PointFacts
      <3> QED BY <2>6, <3>1
    <2>8. \A b \in ScopeOf(stack)' : mem'[b] = 0 => b \in Reached(src2, at2, cat)'
      BY <1>20, <2>7
    <2> QED BY <1>18, <1>20, <2>4, <2>5, <2>8 DEF Covers, Ends
  <1> QED BY <1>19, <1>20 DEF Sound, Ends

LEMMA ScopePush ==
  ASSUME NEW fs, NEW top, NEW gs, Pushes(fs, top, gs)
  PROVE  \A b : b \in ScopeOf(gs) <=> b \in top.scope \/ b \in ScopeOf(fs)
  <1>1. PICK S : fs \in Seq(S)
    BY DEF Pushes
  <1>2. /\ Len(gs) = Len(fs) + 1 /\ Nth(gs, Len(fs) + 1) = top
        /\ \A d \in 1 .. Len(fs) : Nth(gs, d) = Nth(fs, d)
    BY ONLY Pushes(fs, top, gs), PushedNth
  <1>3. gs \in Seq(S \cup {top}) /\ Len(fs) \in Nat
    BY <1>1 DEF Pushes
  <1>4. /\ \A d \in 1 .. Len(gs) : d = Len(fs) + 1 \/ d \in 1 .. Len(fs)
        /\ \A d \in 1 .. Len(fs) : d \in 1 .. Len(gs)
        /\ Len(fs) + 1 \in 1 .. Len(gs)
    BY <1>2, <1>3
  <1>5. \A b : b \in ScopeOf(gs) <=> \E d \in 1 .. Len(gs) : b \in Nth(gs, d).scope
    BY <1>3, ScopeNth
  <1>6. \A b : b \in ScopeOf(fs) <=> \E d \in 1 .. Len(fs) : b \in Nth(fs, d).scope
    BY <1>1, ScopeNth
  <1> QED BY <1>2, <1>4, <1>5, <1>6

\* The scope of a block that is entered.
LEMMA ScopeArm ==
  ASSUME Inv, stack # <<>>, NEW kind, NEW block, NEW bound, NEW temp,
         stack' = <<Frame(kind, block, bound, temp)>> \o Past(stack, {})
  PROVE  ScopeOf(stack') = ScopeOf(stack) \cup bound
  <1> DEFINE top == Frame(kind, block, bound, temp)
             fs == Past(stack, {})
  <1>1. FramesOK(fs) /\ ScopeOf(fs) = ScopeOf(stack)
    BY Onwards DEF Inv
  <1>2. \E S : fs \in Seq(S)
    BY <1>1 DEF FramesOK
  <1>3. top.scope = bound
    BY DEF Frame
  <1> HIDE DEF fs, top
  <1>4. Pushes(fs, top, stack')
    BY <1>2 DEF Pushes, fs, top
  <1>5. \A b : b \in ScopeOf(stack') <=> b \in top.scope \/ b \in ScopeOf(fs)
    BY ONLY <1>4, ScopePush
  <1> QED BY <1>1, <1>3, <1>5

LEMMA IfSound ==
  ASSUME Grammar, Procedures, Inv, NEW src, NEW at, NEW cat, NEW bor, NEW con,
         Sound(src, at, cat, bor, con), IfStep, gap' = gap
  PROVE  \E src2, at2 : Sound(src2, at2, cat, bor, con)'
  <1> DEFINE n == Len(stack)
             s == Head(src[n])
             all == CheckStmt(s, at[n])
             m == Inspect(Machine, Stmt.x)
             t == Inner(After(s, at[n]))
  <1>1. /\ stack # <<>> /\ Head(stack).todo # <<>> /\ Stmt.s = "if" /\ Evaluable(Stmt.x)
        /\ Apply(m) /\ called' = FALSE /\ calls' = calls
    BY DEF IfStep, At, EndStatement
  <1>2. PICK block \in {Stmt.then, Stmt.else} :
          Fresh(block) /\ stack' = <<Frame("block", block, {}, 0)>> \o Past(stack, {})
    BY DEF IfStep
  <1>3. Shape(stack, src, at) /\ Witness(src, at, cat, bor, con) /\ (~gap => Covers(src, at, cat, bor, con))
    BY DEF Sound, Witness
  <1>4. Ends
    BY <1>1, <1>3, Idle DEF Ends
  <1>5. /\ src[n] # <<>> /\ Stmt = s /\ s \in Statements /\ at[n] \in States
        /\ all.diags = {} /\ Grows(all, Fin(src, at, n))
    BY <1>1, <1>3, Here
  <1>6. mem' = mem /\ Adds(m, {"moved"}) /\ faults' = m.faults
    BY <1>1, InspectEffect DEF Apply
  <1>7. "alias" \notin faults'
    BY <1>3, <1>6 DEF Witness, Adds
  <1>8. /\ Branch(s, at[n], block, t, Locals(block)) /\ t.moved = After(s, at[n]).moved
        /\ CheckBlock(block, t).moved \subseteq all.moved
    BY <1>1, <1>2, <1>5, IfBranch
  <1>9. ASSUME Covers(src, at, cat, bor, con)
        PROVE  Opens(all, t, {})
    <2>1. /\ Stmt.x.e = "name" => mem[Stmt.x.b] # 0
          /\ \A b \in ScopeOf(stack) : mem[b] = 0 => b \in After(Stmt, at[n]).moved
      BY <1>1, <1>3, <1>4, <1>9, Valued DEF Jumps, Ends
    <2>2. Adds(m, {})
      BY <2>1, InspectEffect
    <2> HIDE DEF all, t
    <2> QED BY <1>5, <1>6, <1>8, <1>9, <2>1, <2>2 DEF Adds, Covers, Opens
  <1>10. ScopeOf(stack') = ScopeOf(stack) \cup {}
    BY <1>1, <1>2, ScopeArm
  <1>11. Locals(block) \cup {} = Locals(block)
    OBVIOUS
  <1>12. Arm(src, at, n, block, t, "block", {}, 0)
    BY <1>1, <1>2, <1>5, <1>7, <1>8, <1>10, <1>11 DEF Arm, Fresh
  <1> HIDE DEF n, t
  <1> QED BY <1>4, <1>9, <1>12, ArmSound

\* What the machine has after an expression that is consumed.
LEMMA Consumed ==
  ASSUME Grammar, Procedures, Inv, NEW src, NEW at, NEW cat, NEW bor, NEW con,
         Witness(src, at, cat, bor, con), Covers(src, at, cat, bor, con), calls = <<>>,
         stack # <<>>, Head(stack).todo # <<>>, Stmt.s # "each", Stmt.s \notin Jumps,
         Consumes(Stmt), Storable(Stmt.x), NEW v, v = Eval(Machine, Stmt.x)
  PROVE  /\ Adds(v.m, {}) /\ v.value # 0
         /\ \A b \in ScopeOf(stack) :
              /\ v.m.mem[b] = 0 => b \in After(Stmt, at[Len(stack)]).moved
              /\ v.m.mem[b] = mem[b] \/ b \in CheckStmt(Stmt, at[Len(stack)]).touched
  <1>1. Evaluable(Stmt.x)
    BY DEF Storable
  <1>2. /\ Stmt.x.e = "name" => mem[Stmt.x.b] # 0
        /\ \A b \in ScopeOf(stack) : mem[b] = 0 => b \in After(Stmt, at[Len(stack)]).moved
        /\ Stmt.x.e = "name" => /\ Stmt.x.b \in After(Stmt, at[Len(stack)]).moved
                                /\ Stmt.x.b \in CheckStmt(Stmt, at[Len(stack)]).touched
    BY <1>1, Valued
  <1>3. /\ \A c \in Bindings : v.m.mem[c] = IF Stmt.x.e = "name" /\ c = Stmt.x.b THEN 0 ELSE mem[c]
        /\ Adds(v.m, {}) /\ v.value # 0
    BY <1>1, <1>2, EvalEffect
  <1>4. ScopeOf(stack) \subseteq Bindings
    BY Running
  <1> QED BY <1>2, <1>3, <1>4

LEMMA MatchSound ==
  ASSUME Grammar, Procedures, Inv, NEW src, NEW at, NEW cat, NEW bor, NEW con,
         Sound(src, at, cat, bor, con), MatchStep, gap' = gap
  PROVE  \E src2, at2 : Sound(src2, at2, cat, bor, con)'
  <1> DEFINE n == Len(stack)
             s == Head(src[n])
             all == CheckStmt(s, at[n])
             v == Eval(Machine, Stmt.x)
  <1>1. /\ stack # <<>> /\ Head(stack).todo # <<>> /\ Stmt.s = "match" /\ Storable(Stmt.x)
        /\ Evaluable(Stmt.x) /\ Binds(Stmt.b) /\ called' = FALSE /\ calls' = calls
        /\ \/ /\ Fresh(Stmt.ok) /\ Apply(Put(v.m, Stmt.b, v.value))
              /\ stack' = <<Frame("match", Stmt.ok, {Stmt.b}, 0)>> \o Past(stack, {})
           \/ /\ Fresh(Stmt.err) /\ Apply(v.m)
              /\ stack' = <<Frame("match", Stmt.err, {}, v.value)>> \o Past(stack, {})
    BY DEF MatchStep, At, EndStatement, Put, Storable
  <1>2. Stmt.s # "each" /\ Stmt.s \notin Jumps /\ Consumes(Stmt)
    BY <1>1 DEF Jumps, Consumes
  <1>3. Shape(stack, src, at) /\ Witness(src, at, cat, bor, con) /\ (~gap => Covers(src, at, cat, bor, con))
    BY DEF Sound, Witness
  <1>4. Ends
    BY <1>1, <1>2, <1>3, Idle DEF Ends
  <1>5. /\ src[n] # <<>> /\ Stmt = s /\ s \in Statements /\ at[n] \in States
        /\ all.diags = {} /\ Grows(all, Fin(src, at, n))
    BY <1>1, <1>2, <1>3, Here
  <1>6. v.m \in Machines
    BY <1>1, ValueGood
  <1>7. Adds(v.m, {"moved"})
    BY <1>1, EvalEffect
  <1>8. Stmt.b \in Bindings /\ Stmt.b \notin ScopeOf(stack) /\ ScopeOf(stack) \subseteq Bindings
    BY <1>1, Running DEF Binds
  <1> HIDE DEF v
  <1>9. ASSUME Covers(src, at, cat, bor, con)
        PROVE  /\ Adds(v.m, {}) /\ v.value # 0
               /\ \A b \in ScopeOf(stack) :
                    /\ v.m.mem[b] = 0 => b \in After(Stmt, at[n]).moved
                    /\ v.m.mem[b] = mem[b] \/ b \in CheckStmt(Stmt, at[n]).touched
    BY <1>1, <1>2, <1>3, <1>4, <1>9, Consumed DEF v, Ends
  <1>10. CASE /\ Fresh(Stmt.ok) /\ Apply(Put(v.m, Stmt.b, v.value))
              /\ stack' = <<Frame("match", Stmt.ok, {Stmt.b}, 0)>> \o Past(stack, {})
    <2> DEFINE t == Inner(Bound(s, at[n]))
    <2>1. /\ Branch(s, at[n], s.ok, t, Locals(s.ok) \cup {s.b})
          /\ \A c : c \in t.moved <=> c \in After(s, at[n]).moved /\ c # s.b
          /\ CheckBlock(s.ok, t).moved \subseteq all.moved
      BY <1>1, <1>5, MatchBranch
    <2>2. /\ mem'[Stmt.b] = v.value /\ faults' = v.m.faults
          /\ \A c \in Bindings \ {Stmt.b} : mem'[c] = v.m.mem[c]
      BY <1>6, <1>8, <1>10, PutEffect DEF Apply
    <2>3. "alias" \notin faults'
      BY <1>3, <1>7, <2>2 DEF Witness, Adds
    <2>4. ScopeOf(stack') = ScopeOf(stack) \cup {Stmt.b}
      BY <1>1, <1>10, ScopeArm
    <2>5. (Locals(Stmt.ok) \cup {Stmt.b}) \cap ScopeOf(stack) = {}
      BY <1>8, <1>10 DEF Fresh
    <2>6. Arm(src, at, n, s.ok, t, "match", {s.b}, 0)
      BY <1>1, <1>5, <1>10, <2>1, <2>3, <2>4, <2>5 DEF Arm
    <2>7. ASSUME Covers(src, at, cat, bor, con)
          PROVE  Opens(all, t, {s.b})
      <3>1. faults' \cap {"moved", "freed"} = {}
        BY <1>9, <2>2, <2>7 DEF Adds, Covers
      <3>2. ASSUME NEW b \in ScopeOf(stack) \cup {s.b}, mem'[b] = 0
            PROVE  b \in t.moved
        <4>1. b # s.b
          BY <1>5, <1>9, <2>2, <2>7, <3>2
        <4>2. b \in ScopeOf(stack) /\ v.m.mem[b] = 0
          BY <1>5, <1>8, <2>2, <3>2, <4>1
        <4> QED BY <1>5, <1>9, <2>1, <2>7, <4>1, <4>2
      <3>3. \A b \in ScopeOf(stack) : mem'[b] = mem[b] \/ b \in all.touched
        <4>1. \A b \in ScopeOf(stack) : b # Stmt.b /\ mem'[b] = v.m.mem[b]
          BY <1>8, <2>2
        <4> QED BY <1>5, <1>9, <2>7, <4>1
      <3> QED BY <3>1, <3>2, <3>3 DEF Opens
    <2> DEFINE block == s.ok
               bound == {s.b}
    <2>8. Arm(src, at, n, block, t, "match", bound, 0)
      BY <2>6
    <2>9. Covers(src, at, cat, bor, con) => Opens(CheckStmt(Head(src[n]), at[n]), t, bound)
      BY <2>7
    <2> HIDE DEF n, t, block, bound
    <2> QED BY <1>4, <2>8, <2>9, ArmSound
  <1>11. CASE /\ Fresh(Stmt.err) /\ Apply(v.m)
              /\ stack' = <<Frame("match", Stmt.err, {}, v.value)>> \o Past(stack, {})
    <2> DEFINE t == Inner(After(s, at[n]))
    <2>1. /\ Branch(s, at[n], s.err, t, Locals(s.err))
          /\ t.moved = After(s, at[n]).moved
          /\ CheckBlock(s.err, t).moved \subseteq all.moved
      BY <1>1, <1>5, MatchBranch
    <2>2. mem' = v.m.mem /\ faults' = v.m.faults
      BY <1>11 DEF Apply
    <2>3. "alias" \notin faults'
      BY <1>3, <1>7, <2>2 DEF Witness, Adds
    <2>4. ScopeOf(stack') = ScopeOf(stack) \cup {}
      BY <1>1, <1>11, ScopeArm
    <2>5. Locals(s.err) \cup {} = Locals(s.err) /\ (Locals(s.err) \cup {}) \cap ScopeOf(stack) = {}
      BY <1>5, <1>11 DEF Fresh
    <2>6. Arm(src, at, n, s.err, t, "match", {}, v.value)
      BY <1>1, <1>5, <1>11, <2>1, <2>3, <2>4, <2>5 DEF Arm
    <2>7. ASSUME Covers(src, at, cat, bor, con)
          PROVE  Opens(all, t, {})
      BY <1>5, <1>9, <2>1, <2>2, <2>7 DEF Opens, Adds, Covers
    <2> DEFINE block == s.err
    <2>8. Arm(src, at, n, block, t, "match", {}, v.value)
      BY <2>6
    <2>9. Covers(src, at, cat, bor, con) => Opens(CheckStmt(Head(src[n]), at[n]), t, {})
      BY <2>7
    <2> HIDE DEF n, t, block
    <2> QED BY <1>4, <2>8, <2>9, ArmSound
  <1> QED BY <1>1, <1>10, <1>11 DEF v

LEMMA LetElseSound ==
  ASSUME Grammar, Procedures, Inv, NEW src, NEW at, NEW cat, NEW bor, NEW con,
         Sound(src, at, cat, bor, con), LetElseStep, gap' = gap
  PROVE  \E src2, at2 : Sound(src2, at2, cat, bor, con)'
  <1> DEFINE n == Len(stack)
             s == Head(src[n])
             all == CheckStmt(s, at[n])
             v == Eval(Machine, Stmt.x)
             emptied == DropLocals(v.m, {Stmt.b})
  <1>1. /\ stack # <<>> /\ Head(stack).todo # <<>> /\ Stmt.s = "letelse" /\ Storable(Stmt.x)
        /\ Evaluable(Stmt.x) /\ Declares(Stmt.b) /\ called' = FALSE /\ calls' = calls /\ EndStatement
        /\ \/ Apply(Put(emptied, Stmt.b, v.value)) /\ stack' = Past(stack, {Stmt.b})
           \/ /\ Fresh(Stmt.else) /\ Apply(emptied)
              /\ stack' = <<Frame("else", Stmt.else, {}, v.value)>> \o Past(stack, {})
    BY DEF LetElseStep, At, EndStatement, Put, Storable
  <1>2. /\ Stmt.s # "each" /\ Stmt.s \notin Jumps /\ Consumes(Stmt)
        /\ Stmt.s \in {"assign", "propagate", "letelse"}
    BY <1>1 DEF Jumps, Consumes
  <1>3. Shape(stack, src, at) /\ Witness(src, at, cat, bor, con) /\ (~gap => Covers(src, at, cat, bor, con))
    BY DEF Sound, Witness
  <1>4. Ends
    BY <1>1, <1>2, <1>3, Idle DEF Ends
  <1>5. /\ src[n] # <<>> /\ Stmt = s /\ s \in Statements /\ at[n] \in States
        /\ all.diags = {} /\ Grows(all, Fin(src, at, n))
    BY <1>1, <1>2, <1>3, Here
  <1>6. Good(v.m, TempsOf(stack), ScopeOf(stack), v.value)
    BY <1>1, ValueGood
  <1>7. Adds(v.m, {"moved"})
    BY <1>1, EvalEffect
  <1>8. /\ Stmt.b \in Bindings /\ Stmt.b \notin ScopeOf(stack)
        /\ ScopeOf(Past(stack, {Stmt.b})) = ScopeOf(stack) \cup {Stmt.b}
        /\ ScopeOf(stack) \subseteq Bindings
    BY <1>1, Declared, Running
  <1> HIDE DEF v
  <1>9. ASSUME Covers(src, at, cat, bor, con)
        PROVE  /\ Adds(v.m, {}) /\ v.value # 0
               /\ \A b \in ScopeOf(stack) :
                    /\ v.m.mem[b] = 0 => b \in After(Stmt, at[n]).moved
                    /\ v.m.mem[b] = mem[b] \/ b \in CheckStmt(Stmt, at[n]).touched
    BY <1>1, <1>2, <1>3, <1>4, <1>9, Consumed DEF v, Ends
  <1>10. CASE Apply(Put(emptied, Stmt.b, v.value)) /\ stack' = Past(stack, {Stmt.b})
    <2>1. ScopeOf(stack') = ScopeOf(stack) \cup {Stmt.b}
      BY <1>8, <1>10
    <2> QED BY <1>1, <1>2, <1>8, <1>10, <2>1, RenewSound DEF v
  <1>11. CASE /\ Fresh(Stmt.else) /\ Apply(emptied)
              /\ stack' = <<Frame("else", Stmt.else, {}, v.value)>> \o Past(stack, {})
    <2> DEFINE t == Inner(After(s, at[n]))
    <2>1. /\ Branch(s, at[n], s.else, t, Locals(s.else))
          /\ t.moved = After(s, at[n]).moved
      BY <1>1, <1>5, ElseBranch
    <2>2. /\ \A c \in Bindings \ {Stmt.b} : mem'[c] = v.m.mem[c]
          /\ \A some : Adds(v.m, some) => faults' \subseteq faults \cup some
      <3>1. /\ \A c \in Bindings \ {Stmt.b} : emptied.mem[c] = v.m.mem[c]
            /\ \A some : Adds(v.m, some) => Adds(emptied, some)
        BY <1>6, <1>8, Emptied
      <3> HIDE DEF emptied
      <3> QED BY <1>11, <3>1 DEF Apply, Adds
    <2>3. "alias" \notin faults'
      BY <1>3, <1>7, <2>2 DEF Witness
    <2>4. ScopeOf(stack') = ScopeOf(stack) \cup {}
      BY <1>1, <1>11, ScopeArm
    <2>5. Locals(s.else) \cup {} = Locals(s.else) /\ (Locals(s.else) \cup {}) \cap ScopeOf(stack) = {}
      BY <1>5, <1>11 DEF Fresh
    <2>6. Arm(src, at, n, s.else, t, "else", {}, v.value)
      BY <1>1, <1>5, <1>11, <2>1, <2>3, <2>4, <2>5 DEF Arm
    <2>7. ASSUME Covers(src, at, cat, bor, con)
          PROVE  Opens(all, t, {})
      <3>1. \A b \in ScopeOf(stack) : mem'[b] = v.m.mem[b]
        BY <1>8, <2>2
      <3> QED BY <1>5, <1>9, <2>1, <2>2, <2>7, <3>1 DEF Opens, Covers
    <2> DEFINE block == s.else
    <2>8. Arm(src, at, n, block, t, "else", {}, v.value)
      BY <2>6
    <2>9. Covers(src, at, cat, bor, con) => Opens(CheckStmt(Head(src[n]), at[n]), t, {})
      BY <2>7
    <2> HIDE DEF n, t, block
    <2> QED BY <1>4, <2>8, <2>9, ArmSound
  <1> QED BY <1>1, <1>10, <1>11 DEF v

\* The list of a for loop has been evaluated.
Turns(fs, gs, src, at, n) ==
  /\ Shape(fs, src, at) /\ n \in Nat \ {0} /\ Len(fs) = n /\ Len(gs) = n /\ Agree(fs, gs, n - 1)
  /\ Follows(Nth(gs, n), src[n]) /\ Nth(gs, n).kind = Nth(fs, n).kind
  /\ Nth(gs, n).owns = Nth(fs, n).owns /\ Nth(gs, n).scope = Nth(fs, n).scope

LEMMA TurnChain ==
  ASSUME NEW fs, NEW gs, NEW src, NEW at, NEW n, Turns(fs, gs, src, at, n)
  PROVE  /\ Shape(gs, src, at)
         /\ Chain(fs, src, at) => Chain(gs, src, at)
  <1> USE DEF Turns
  <1>1. \A d \in 1 .. n : d = n \/ d \in 1 .. n - 1
    OBVIOUS
  <1>2. \A d \in 1 .. n - 1 : Alike(Nth(fs, d), Nth(gs, d))
    BY DEF Agree
  <1>3. \A d \in 1 .. n : /\ Nth(gs, d).kind = Nth(fs, d).kind /\ Nth(gs, d).owns = Nth(fs, d).owns
                          /\ Nth(gs, d).scope = Nth(fs, d).scope
    BY <1>1, <1>2 DEF Alike
  <1>4. \A d \in 2 .. n : d \in 1 .. n /\ d - 1 \in 1 .. n - 1
    OBVIOUS
  <1>5. Shape(gs, src, at)
    <2>1. ASSUME NEW d \in 1 .. n
          PROVE  Follows(Nth(gs, d), src[d]) /\ Fin(src, at, d).diags = {}
      <3>1. Fin(src, at, d).diags = {} /\ Follows(Nth(fs, d), src[d])
        BY DEF Shape
      <3>2. CASE d \in 1 .. n - 1
        BY <1>2, <3>1, <3>2, FollowsAlike
      <3> QED BY <1>1, <3>1, <3>2
    <2>2. ASSUME NEW d \in 2 .. n, Nth(gs, d).kind = "loop"
          PROVE  Repeats(src[d - 1])
      BY <1>3, <1>4, <2>2 DEF Shape
    <2> QED BY <2>1, <2>2 DEF Shape
  <1>6. ASSUME Chain(fs, src, at)
        PROVE  Chain(gs, src, at)
    <2>1. Links(gs, src, at)
      <3> SUFFICES ASSUME NEW d \in 2 .. n
                   PROVE  Link(Nth(gs, d), Nth(gs, d - 1), src[d - 1], at[d - 1], Fin(src, at, d))
        BY DEF Links
      <3>1. Link(Nth(fs, d), Nth(fs, d - 1), src[d - 1], at[d - 1], Fin(src, at, d))
        BY <1>6 DEF Chain, Links
      <3>2. /\ Nth(gs, d).kind = Nth(fs, d).kind /\ Nth(gs, d).owns = Nth(fs, d).owns
            /\ Nth(gs, d - 1).todo = Nth(fs, d - 1).todo
        BY <1>2, <1>3, <1>4 DEF Alike
      <3> QED BY <3>1, <3>2 DEF Link
    <2>2. Touches(gs, src, at)
      BY <1>6 DEF Chain, Touches
    <2>3. Escapes(gs, src, at)
      <3> SUFFICES ASSUME NEW c \in 1 .. n, NEW d \in 1 .. n, c <= d,
                          \A e \in c + 1 .. d : Nth(gs, e).kind # "loop",
                          NEW b \in Fin(src, at, d).jumped
                   PROVE  b \in Fin(src, at, c).jumped \/ \E e \in c + 1 .. d : b \in Nth(gs, e).owns
        BY DEF Escapes
      <3>1. \A e \in c + 1 .. d : e \in 1 .. n
        OBVIOUS
      <3>2. \A e \in c + 1 .. d : Nth(fs, e).kind # "loop" /\ Nth(fs, e).owns = Nth(gs, e).owns
        BY <1>3, <3>1
      <3> QED BY <1>6, <3>2 DEF Chain, Escapes
    <2>4. Apart(gs)
      BY <1>3, <1>6 DEF Chain, Apart
    <2> QED BY <1>6, <2>1, <2>2, <2>3, <2>4 DEF Chain
  <1> QED BY <1>5, <1>6

LEMMA ForSound ==
  ASSUME Grammar, Procedures, Inv, NEW src, NEW at, NEW cat, NEW bor, NEW con,
         Sound(src, at, cat, bor, con), ForStep, gap' = gap
  PROVE  \E src2, at2 : Sound(src2, at2, cat, bor, con)'
  <1> DEFINE n == Len(stack)
             s == Head(src[n])
             m == Inspect(Machine, Stmt.x)
             each == [s |-> "each", items |-> mem[Stmt.x.b], body |-> Stmt.body]
             top == [Head(stack) EXCEPT !.todo = <<each>> \o Tail(@)]
             rest == Tail(stack)
  <1>1. /\ stack # <<>> /\ Head(stack).todo # <<>> /\ Stmt.s = "for" /\ Evaluable(Stmt.x)
        /\ Stmt.x.e = "name" /\ Apply(m) /\ called' = FALSE /\ calls' = calls
        /\ stack' = <<top>> \o rest
    BY DEF ForStep, At, EndStatement
  <1>2. Shape(stack, src, at) /\ Witness(src, at, cat, bor, con) /\ (~gap => Covers(src, at, cat, bor, con))
    BY DEF Sound, Witness
  <1>3. Ends
    BY <1>1, <1>2, Idle DEF Ends
  <1>4. /\ n \in Nat \ {0} /\ Nth(stack, n) = Head(stack) /\ src[n] # <<>> /\ Stmt = s
        /\ Head(stack).todo = src[n] /\ s \in Statements /\ src[n] \in Blocks /\ at[n] \in States
    BY <1>1, <1>2, Here
  <1>5. mem' = mem /\ Adds(m, {"moved"}) /\ faults' = m.faults
    BY <1>1, InspectEffect DEF Apply
  <1>6. "alias" \notin faults'
    BY <1>2, <1>5 DEF Witness, Adds
  <1>7. src[n] \in Seq(Statements) /\ Tail(src[n]) \in Seq(Statements)
    BY <1>4 DEF Grammar
  <1> DEFINE new == <<each>> \o Tail(src[n])
  <1>8. /\ new[1] = each /\ each.items = mem[s.x.b]
        /\ \E items : new = <<[s |-> "each", items |-> items, body |-> s.body]>> \o Tail(src[n])
    <2>1. each.items = mem[s.x.b]
      BY <1>4
    <2>2. \E items : new = <<[s |-> "each", items |-> items, body |-> s.body]>> \o Tail(src[n])
      BY <1>4
    <2>3. PICK tl : tl = Tail(src[n]) /\ tl \in Seq(Statements)
      BY <1>7
    <2> HIDE DEF each
    <2>4. (<<each>> \o tl)[1] = each
      BY <2>3
    <2> QED BY <2>1, <2>2, <2>3, <2>4
  <1>9. /\ top.todo = new /\ top.kind = Head(stack).kind /\ top.owns = Head(stack).owns
        /\ top.scope = Head(stack).scope /\ top.temp = Head(stack).temp
    <2>1. PICK todos : Head(stack) \in Frames(todos)
      BY <1>1, TailOK DEF Inv
    <2> HIDE DEF each
    <2> QED BY <1>4, <2>1 DEF Frames
  <1> HIDE DEF new, each, top
  <1>10. PICK S : stack \in Seq(S)
    BY StackSeq
  <1>11. /\ Len(rest) = n - 1 /\ \A d \in 1 .. n - 1 : Nth(rest, d) = Nth(stack, d)
         /\ \E T : rest \in Seq(T)
    BY <1>1, <1>10, NthTail
  <1> HIDE DEF rest
  <1>12. Pushes(rest, top, stack')
    BY <1>1, <1>11 DEF Pushes
  <1>13. /\ Len(stack') = n /\ Nth(stack', n) = top
         /\ \A d \in 1 .. n - 1 : Nth(stack', d) = Nth(stack, d)
    <2>1. /\ Len(stack') = Len(rest) + 1 /\ Nth(stack', Len(rest) + 1) = top
          /\ \A d \in 1 .. Len(rest) : Nth(stack', d) = Nth(rest, d)
      BY ONLY <1>12, PushedNth
    <2> QED BY <1>4, <1>11, <2>1
  <1>14. Agree(stack, stack', n - 1)
    BY <1>13 DEF Agree, Alike
  <1>15. Follows(top, src[n])
    BY <1>1, <1>4, <1>8, <1>9 DEF Follows, Turned
  <1>16. Turns(stack, stack', src, at, n)
    BY <1>2, <1>4, <1>9, <1>13, <1>14, <1>15 DEF Turns
  <1>17. Shape(stack', src, at) /\ (Chain(stack, src, at) => Chain(stack', src, at))
    BY ONLY <1>16, TurnChain
  <1>18. Witness(src, at, cat, bor, con)'
    BY <1>3, <1>6, <1>17 DEF Sound, Witness, Ends
  <1>19. ASSUME Covers(src, at, cat, bor, con)
         PROVE  Covers(src, at, cat, bor, con)'
    <2>1. Chain(stack, src, at) /\ Pins(stack, src, mem)
      BY <1>19 DEF Covers
    <2>2. mem[Stmt.x.b] # 0
      BY <1>1, <1>2, <1>3, <1>19, Valued DEF Jumps, Ends
    <2>3. Adds(m, {})
      BY <2>2, InspectEffect
    <2>4. \A b : b \in ScopeOf(stack') <=> b \in ScopeOf(stack)
      <3>1. \A b : b \in ScopeOf(stack') <=> b \in top.scope \/ b \in ScopeOf(rest)
        BY ONLY <1>12, ScopePush
      <3>2. ScopeOf(stack) = Head(stack).scope \cup ScopeOf(rest)
        BY <1>1, TailOK DEF Inv, rest
      <3> QED BY <1>9, <3>1, <3>2
    <2>5. Pins(stack', src, mem')
      <3> SUFFICES ASSUME NEW d \in 1 .. n, Nth(stack', d).todo # src[d]
                   PROVE  /\ mem[Head(src[d]).x.b] = Nth(stack', d).todo[1].items
                          /\ \E c \in 1 .. d : Head(src[d]).x.b \in Nth(stack', c).scope
        BY <1>5, <1>13 DEF Pins, Pinning
      <3>1. CASE d = n
        <4>1. mem[s.x.b] = top.todo[1].items
          BY <1>8, <1>9
        <4>2. s.x.b \in ScopeOf(stack)
          BY <1>1, <1>4 DEF Evaluable
        <4>3. \E c \in 1 .. n : s.x.b \in Nth(stack, c).scope
          BY <1>10, <4>2, ScopeNth
        <4>4. \A c \in 1 .. n : Nth(stack', c).scope = Nth(stack, c).scope
          <5>1. \A c \in 1 .. n : c = n \/ c \in 1 .. n - 1
            BY <1>4
          <5> QED BY <1>4, <1>9, <1>13, <5>1
        <4> QED BY <1>13, <3>1, <4>1, <4>3, <4>4
      <3>2. CASE d \in 1 .. n - 1
        <4>1. \A c \in 1 .. d : c \in 1 .. n - 1
          BY <3>2
        <4>2. Nth(stack, d).todo # src[d] /\ Pinning(stack, src, mem, d)
          BY <1>13, <2>1, <3>2 DEF Pins
        <4> QED BY <1>13, <3>2, <4>1, <4>2 DEF Pinning
      <3> QED BY <1>4, <3>1, <3>2
    <2>6. /\ Reached(src, at, cat) = at[n].moved
          /\ Reached(src, at, cat)' = Entry(s, at[n])
      <3>1. ~called
        BY <1>1, <1>2 DEF Witness, HasCall
      <3>2. top.todo # src[n]
        <4> SUFFICES ASSUME new = src[n] PROVE FALSE
          BY <1>9
        <4>1. new[1] \in Statements
          BY <1>4, <1>7
        <4> QED BY <1>8, <4>1 DEF Statements, Stmts, each
      <3>3. Before(s, at[n]) = at[n]
        BY <1>1, <1>4 DEF Before
      <3>4. Reached(src, at, cat) = at[n].moved
        BY <1>3, <1>4, <3>1, <3>3 DEF Reached, Point, Ends
      <3>5. Reached(src, at, cat)' = Entry(s, at[n])
        BY <1>3, <1>4, <1>13, <3>2 DEF Reached, Point, Ends
      <3> QED BY <3>4, <3>5
    <2>7. at[n].moved \subseteq Entry(s, at[n])
      <3>1. s \in Loops
        BY <1>1, <1>4 DEF Loops
      <3> QED BY <1>4, <3>1, LoopParts, CondFacts
    <2> QED BY <1>3, <1>5, <1>17, <1>19, <2>1, <2>3, <2>4, <2>5, <2>6, <2>7 DEF Covers, Ends, Adds
  <1>20. Sound(src, at, cat, bor, con)'
    BY <1>3, <1>18, <1>19 DEF Sound, Ends
  <1> QED BY <1>20

\* Where a loop begins anew.
LEMMA LoopPoint ==
  ASSUME Grammar, Procedures, NEW parent, NEW block \in Blocks, NEW st \in States, Repeats(block),
         Head(block).s = "for" => parent.todo # block
  PROVE  Point(parent, block, st, FALSE) = Entry(Head(block), st)
  <1>1. block # <<>> /\ Head(block) \in Statements
    BY BlockRest DEF Repeats
  <1>2. CASE parent.todo # block
    BY <1>1, <1>2 DEF Point
  <1>3. CASE parent.todo = block
    <2>1. Head(block).s = "while"
      BY <1>3 DEF Repeats
    <2>2. Point(parent, block, st, FALSE) = Before(Head(block), st).moved
      BY <1>1, <1>3 DEF Point
    <2> QED BY <1>1, <2>1, <2>2, PassFacts
  <1> QED BY <1>2, <1>3

\* What has been moved at the end of a block is what the analysis says of the
\* frame around it.
LEMMA LinkPoint ==
  ASSUME Grammar, Procedures, NEW f, NEW parent, NEW block \in Blocks, NEW st \in States, NEW fin,
         Link(f, parent, block, st, fin), f.kind = "loop" => Repeats(block), f.kind # "else"
  PROVE  fin.moved \subseteq Point(parent, block, st, FALSE)
  <1>1. CASE f.kind = "loop"
    <2>1. /\ fin.moved \subseteq Entry(Head(block), st)
          /\ Head(block).s = "for" => parent.todo # block
      BY <1>1 DEF Link
    <2> QED BY <1>1, <2>1, LoopPoint
  <1>2. CASE f.kind # "loop"
    <2>1. parent.todo = block /\ fin.moved \subseteq st.moved
      BY <1>2 DEF Link
    <2> QED BY <2>1, PointFacts
  <1> QED BY <1>1, <1>2

\* Dropping a value is no use of a binding.
LEMMA DropEffect ==
  ASSUME NEW m \in Machines, NEW id
  PROVE  Drop(m, id).mem = m.mem /\ Drop(m, id).faults \subseteq m.faults \cup {"twice"}
  BY DEF Drop, Fault, Machines

LEMMA EndSound ==
  ASSUME Grammar, Procedures, Inv, NEW src, NEW at, NEW cat, NEW bor, NEW con,
         Sound(src, at, cat, bor, con), EndBlock, gap' = gap
  PROVE  \E src2, at2 : Sound(src2, at2, cat, bor, con)'
  <1> DEFINE n == Len(stack)
             rest == Tail(stack)
             owned == Head(stack).owns
             temp == Head(stack).temp
             emptied == DropLocals(Machine, owned)
             m == Drop(emptied, temp)
  <1>1. /\ stack # <<>> /\ Head(stack).todo = <<>> /\ Head(stack).kind # "else" /\ Apply(m)
        /\ stack' = rest /\ called' = FALSE /\ calls' = calls
    BY DEF EndBlock, EndStatement
  <1>2. Shape(stack, src, at) /\ Witness(src, at, cat, bor, con) /\ (~gap => Covers(src, at, cat, bor, con))
    BY DEF Sound, Witness
  <1>3. Ends
    BY <1>1, <1>2, Idle DEF Ends
  <1>4. PICK S : stack \in Seq(S)
    BY StackSeq
  <1>5. /\ n \in Nat \ {0} /\ Len(rest) = n - 1 /\ Nth(stack, n) = Head(stack)
        /\ \A d \in 1 .. n - 1 : Nth(rest, d) = Nth(stack, d)
        /\ rest \in Seq(S)
    BY <1>1, <1>4, NthTail
  <1>6. src[n] = <<>>
    <2>1. Follows(Head(stack), src[n]) /\ src[n] \in Blocks
      BY <1>5 DEF Sound, Witness, Shape
    <2> SUFFICES ASSUME Turned(Head(stack), src[n]) PROVE FALSE
      BY <1>1, <2>1 DEF Follows
    <2>2. PICK each : Head(stack).todo = <<each>> \o Tail(src[n])
      BY DEF Turned
    <2>3. Tail(src[n]) \in Blocks
      BY <2>1 DEF Turned, Grammar, Smaller
    <2>4. PICK tl : tl = Tail(src[n]) /\ tl \in Seq(Statements)
      BY <2>3 DEF Grammar
    <2>5. <<each>> \o tl # <<>>
      BY <2>4
    <2> QED BY <1>1, <2>2, <2>4, <2>5
  <1>7. Fin(src, at, n) = at[n] /\ src[n] \in Blocks /\ at[n] \in States
    <2>1. src[n] \in Blocks /\ at[n] \in States
      BY <1>2, <1>5 DEF Shape
    <2> QED BY <1>6, <2>1 DEF Fin, Procedures, CheckStmts
  <1>8. /\ owned \in SUBSET Bindings /\ ScopeOf(stack) \subseteq Bindings
        /\ Good(Machine, TempsOf(stack), ScopeOf(stack), 0)
    BY <1>1, Running
  <1>9. /\ \A b \in Bindings \ owned : mem'[b] = mem[b]
        /\ faults' \subseteq faults \cup {"twice"}
    <2>1. Machine.mem = mem /\ Machine.faults = faults
      BY DEF Machine
    <2>2. Adds(Machine, {})
      BY <2>1 DEF Adds
    <2>3. \A b \in Bindings \ owned : emptied.mem[b] = Machine.mem[b]
      BY <1>8, LocalsGood
    <2>4. Adds(emptied, {})
      BY <1>8, <2>2, LocalsEffect
    <2>5. emptied \in Machines
      <3>1. Good(emptied, TempsOf(stack), ScopeOf(stack), 0)
        BY <1>8, LocalsGood
      <3> QED BY <3>1 DEF Good
    <2> HIDE DEF emptied
    <2>6. m.mem = emptied.mem /\ m.faults \subseteq emptied.faults \cup {"twice"}
      BY <2>5, DropEffect
    <2> QED BY <1>1, <2>1, <2>3, <2>4, <2>6 DEF Apply, Adds
  <1> HIDE DEF m, emptied
  <1>10. "alias" \notin faults' /\ (faults \cap {"moved", "freed"} = {} => faults' \cap {"moved", "freed"} = {})
    BY <1>2, <1>9 DEF Witness
  <1>11. CASE n = 1
    <2>1. stack' = <<>>
      BY <1>1, <1>5, <1>11
    <2>2. Sound(src, at, cat, bor, con)'
      BY <1>3, <1>10, <2>1, EmptySound DEF Covers
    <2> QED BY <2>2
  <1>12. CASE n > 1
    <2> HIDE DEF n, rest, owned
    <2>1. /\ n - 1 \in Nat /\ n - 1 \in 1 .. n - 1 /\ n \in 2 .. n /\ Len(stack') = n - 1 /\ n \in Nat
          /\ \A d \in 1 .. n - 1 : Nth(stack', d) = Nth(stack, d)
      BY <1>1, <1>5, <1>12
    <2>2. Agree(stack, stack', n - 1)
      BY <2>1 DEF Agree, Alike
    <2>3. /\ Shape(stack', src, at)
          /\ Chain(stack, src, at) => Chain(stack', src, at)
      <3>1. Len(stack) = n
        BY DEF n
      <3>2. Len(stack) \in Nat /\ Len(stack') \in Nat /\ Len(stack') <= Len(stack)
            /\ Agree(stack, stack', Len(stack'))
        BY <2>1, <2>2, <3>1
      <3> QED BY <1>2, <3>2, LeaveChain
    <2>4. Witness(src, at, cat, bor, con)'
      BY <1>3, <1>10, <2>3 DEF Sound, Witness, Ends
    <2>5. ASSUME Covers(src, at, cat, bor, con)
          PROVE  Covers(src, at, cat, bor, con)'
      <3>1. Chain(stack, src, at) /\ Pins(stack, src, mem)
        BY <2>5 DEF Covers
      <3>2. ASSUME NEW c \in 1 .. n - 1, NEW b \in Nth(stack, c).scope
            PROVE  b \in ScopeOf(stack) /\ mem'[b] = mem[b]
        <4>1. c \in 1 .. n /\ n \in 1 .. n /\ c < n
          BY <2>1
        <4>2. b \in ScopeOf(stack)
          BY <1>4, <4>1, ScopeNth DEF n
        <4>3. b \notin owned
          BY <1>5, <3>1, <4>1 DEF Chain, Apart, n, owned
        <4> QED BY <1>8, <1>9, <4>2, <4>3
      <3>3. Pins(stack', src, mem')
        <4>1. Keeps(stack, src, at, mem, n, stack', src, mem', n - 1)
          <5>1. n - 1 \in 0 .. n /\ Len(stack) = n
            BY <2>1 DEF n
          <5> QED BY <1>2, <2>1, <2>2, <3>1, <3>2, <5>1 DEF Keeps
        <4> QED BY <4>1, PinsKept
      <3>4. ASSUME NEW b \in ScopeOf(stack'), mem'[b] = 0
            PROVE  b \in Reached(src, at, cat)'
        <4>1. PICK c \in 1 .. n - 1 : b \in Nth(stack, c).scope
          <5>1. stack' \in Seq(S)
            BY <1>1, <1>5
          <5>2. \E c \in 1 .. Len(stack') : b \in Nth(stack', c).scope
            BY <3>4, <5>1, ScopeNth
          <5> QED BY <2>1, <5>2
        <4>2. b \in ScopeOf(stack) /\ mem[b] = 0
          BY <3>2, <3>4, <4>1
        <4>3. Reached(src, at, cat) = Fin(src, at, n).moved
          BY <1>3, <1>6, <1>7 DEF Reached, Point, Ends, n
        <4>4. b \in Fin(src, at, n).moved
          BY <2>5, <4>2, <4>3 DEF Covers
        <4> DEFINE f == Nth(stack, n)
                   parent == Nth(stack, n - 1)
                   block == src[n - 1]
                   st == at[n - 1]
                   fin == Fin(src, at, n)
        <4>5. block \in Blocks /\ st \in States
          BY <1>2, <2>1 DEF Shape
        <4>6. f.kind = "loop" => Repeats(block)
          BY <1>2, <2>1 DEF Shape, n
        <4>7. Link(f, parent, block, st, fin)
          BY <2>1, <3>1 DEF Chain, Links, n
        <4>8. f.kind # "else"
          BY <1>1, <1>5
        <4>9. Reached(src, at, cat)' = Point(parent, block, st, FALSE)
          BY <1>3, <2>1 DEF Reached, Ends
        <4>10. b \in fin.moved
          BY <4>4
        <4> HIDE DEF f, parent, block, st, fin
        <4> QED BY <4>5, <4>6, <4>7, <4>8, <4>9, <4>10, LinkPoint
      <3> QED BY <1>3, <1>10, <2>3, <2>5, <3>1, <3>3, <3>4 DEF Covers, Ends
    <2>6. Sound(src, at, cat, bor, con)'
      BY <1>3, <2>4, <2>5 DEF Sound, Ends
    <2> QED BY <2>6
  <1> QED BY <1>5, <1>11, <1>12

\* The frames that a jump leaves running: their temporaries are dropped.
Outer(frames, k) == SubSeq(frames, k + 1, Len(frames))
Kept(frames, k) == [i \in DOMAIN Outer(frames, k) |-> [Outer(frames, k)[i] EXCEPT !.temp = 0]]

LEMMA KeptNth ==
  ASSUME NEW frames, FramesOK(frames), NEW k \in DOMAIN frames, FramesOK(Kept(frames, k))
  PROVE  /\ Len(frames) \in Nat /\ k \in 1 .. Len(frames) /\ Len(Kept(frames, k)) = Len(frames) - k
         /\ \A d \in 1 .. Len(frames) - k : Alike(Nth(frames, d), Nth(Kept(frames, k), d))
         /\ \A d \in Len(frames) + 1 - k .. Len(frames) :
              Nth(frames, d).owns \subseteq OwnedBy(SubSeq(frames, 1, k))
         /\ \A b \in OwnedBy(SubSeq(frames, 1, k)) :
              \E d \in Len(frames) + 1 - k .. Len(frames) : b \in Nth(frames, d).owns
  <1> DEFINE n == Len(frames)
             inner == SubSeq(frames, 1, k)
             outer == Outer(frames, k)
             kept == Kept(frames, k)
  <1>1. PICK todos : frames \in Seq(Frames(todos))
    BY DEF FramesOK
  <1>2. /\ n \in Nat /\ DOMAIN frames = 1 .. n /\ k \in 1 .. n
        /\ \A i \in 1 .. n : frames[i] \in Frames(todos)
    BY <1>1
  <1>3. /\ DOMAIN outer = 1 .. n - k
        /\ \A i \in 1 .. n - k : i + k \in 1 .. n /\ outer[i] = frames[i + k]
    BY <1>1, <1>2 DEF Outer
  <1>4. /\ DOMAIN inner = 1 .. k
        /\ \A i \in 1 .. k : inner[i] = frames[i]
    BY <1>1, <1>2
  <1>5. /\ DOMAIN kept = 1 .. n - k
        /\ \A i \in 1 .. n - k : kept[i] = [outer[i] EXCEPT !.temp = 0]
    BY <1>3 DEF Kept
  <1> HIDE DEF outer, inner, kept
  <1>6. Len(kept) = n - k
    <2>1. PICK more : kept \in Seq(Frames(more))
      BY DEF FramesOK, kept
    <2>2. Len(kept) \in Nat /\ DOMAIN kept = 1 .. Len(kept)
      BY <2>1
    <2> HIDE DEF n
    <2> QED BY <1>2, <1>5, <2>2
  <1>7. ASSUME NEW d \in 1 .. n - k
        PROVE  Alike(Nth(frames, d), Nth(kept, d))
    <2>1. n - k + 1 - d \in 1 .. n - k /\ n - k + 1 - d + k = n + 1 - d /\ n + 1 - d \in 1 .. n
      BY <1>2
    <2> DEFINE i == n - k + 1 - d
    <2>2. kept[i] = [outer[i] EXCEPT !.temp = 0] /\ outer[i] = frames[n + 1 - d]
      <3>1. i \in 1 .. n - k /\ i + k = n + 1 - d
        BY <2>1
      <3> HIDE DEF i, n
      <3>2. outer[i] = frames[i + k]
        BY <1>3, <3>1
      <3> QED BY <1>5, <3>1, <3>2
    <2>4. Nth(kept, d) = kept[i]
      BY <1>6 DEF Nth
    <2>3. Nth(frames, d) = frames[n + 1 - d] /\ frames[n + 1 - d] \in Frames(todos)
      BY <1>2, <2>1 DEF Nth
    <2> HIDE DEF n, i
    <2> QED BY <2>2, <2>3, <2>4 DEF Alike, Frames
  <1>8. ASSUME NEW d \in n + 1 - k .. n
        PROVE  Nth(frames, d).owns \subseteq OwnedBy(inner)
    <2>1. n + 1 - d \in 1 .. k
      BY <1>2
    <2>2. Nth(frames, d) = inner[n + 1 - d]
      BY <1>4, <2>1 DEF Nth
    <2> HIDE DEF n
    <2> QED BY <1>4, <2>1, <2>2 DEF OwnedBy
  <1>9. ASSUME NEW b \in OwnedBy(inner)
        PROVE  \E d \in n + 1 - k .. n : b \in Nth(frames, d).owns
    <2>1. PICK i \in 1 .. k : b \in frames[i].owns
      BY <1>4 DEF OwnedBy
    <2>2. n + 1 - i \in n + 1 - k .. n /\ n + 1 - (n + 1 - i) = i
      BY <1>2
    <2>3. Nth(frames, n + 1 - i) = frames[i]
      BY <2>2 DEF Nth
    <2> HIDE DEF n
    <2> QED BY <2>1, <2>2, <2>3
  <1> QED BY <1>2, <1>6, <1>7, <1>8, <1>9 DEF n, inner, kept

LEMMA JumpSound ==
  ASSUME Grammar, Procedures, Inv, NEW src, NEW at, NEW cat, NEW bor, NEW con,
         Sound(src, at, cat, bor, con), JumpStep, gap' = gap
  PROVE  \E src2, at2 : Sound(src2, at2, cat, bor, con)'
  <1> DEFINE n == Len(stack)
             k == ExitDepth
             m == n - k
             kept == Kept(stack, k)
             emptied == DropAll(Machine, Temps)
             owned == OwnedBy(SubSeq(stack, 1, k))
             left == DropLocals(emptied, owned)
             s == Head(src[m])
             entry == Entry(s, at[m])
  <1>1. /\ stack # <<>> /\ Head(stack).todo # <<>> /\ Stmt.s \in {"break", "continue"}
        /\ At("break") \/ At("continue")
        /\ InLoop /\ Apply(left) /\ stack' = IF Stmt.s = "break" THEN Past(kept, {}) ELSE kept
        /\ called' = FALSE /\ calls' = calls
    BY DEF JumpStep, At, EndStatement, Left, Kept, Outer
  <1>2. Shape(stack, src, at) /\ Witness(src, at, cat, bor, con) /\ (~gap => Covers(src, at, cat, bor, con))
    BY DEF Sound, Witness
  <1>3. Ends
    BY <1>1, <1>2, Idle DEF Ends
  <1>4. /\ n \in Nat \ {0} /\ Nth(stack, n) = Head(stack) /\ src[n] # <<>> /\ Head(stack).todo = src[n]
        /\ Stmt = Head(src[n]) /\ Stmt \in Statements /\ at[n] \in States
        /\ Grows(CheckStmt(Stmt, at[n]), Fin(src, at, n))
    BY <1>1, <1>2, Here
  <1>5. /\ FramesOK(stack) /\ Good(Machine, TempsOf(stack), ScopeOf(stack), 0)
        /\ ScopeOf(stack) \subseteq Bindings
    BY <1>1, Running
  <1>6. /\ k \in DOMAIN stack /\ stack[k].kind = "loop"
        /\ \A i \in 1 .. k - 1 : stack[i].kind # "loop"
    BY <1>1, <1>5, ExitFrame
  <1> HIDE DEF k
  <1>7. FramesOK(kept) /\ kept # <<>> /\ owned \in SUBSET Bindings
    BY <1>5, <1>6, JumpOK DEF Kept, Outer
  <1>8. /\ k \in 1 .. n /\ Len(kept) = m
        /\ \A d \in 1 .. m : Alike(Nth(stack, d), Nth(kept, d))
        /\ \A d \in m + 1 .. n : Nth(stack, d).owns \subseteq owned
        /\ \A b \in owned : \E d \in m + 1 .. n : b \in Nth(stack, d).owns
    <2>1. n + 1 - k = m + 1
      <3>1. n \in Nat /\ k \in 1 .. n
        BY <1>5, <1>6, <1>7, KeptNth
      <3> QED BY <3>1
    <2> QED BY <1>5, <1>6, <1>7, <2>1, KeptNth
  <1>9. PICK S, T : stack \in Seq(S) /\ kept \in Seq(T)
    BY <1>5, <1>7 DEF FramesOK
  <1>10. m \in Nat \ {0}
    <2>1. Len(kept) \in Nat \ {0}
      BY <1>7, <1>9
    <2> QED BY <1>8, <2>1
  <1> HIDE DEF kept
  <1>11. /\ m + 1 \in 2 .. n /\ m + 1 - 1 = m /\ m \in 1 .. n - 1 /\ m <= n
         /\ Nth(stack, m + 1).kind = "loop"
         /\ \A e \in m + 1 + 1 .. n : Nth(stack, e).kind # "loop"
    <2>1. m + 1 \in 2 .. n /\ m + 1 - 1 = m /\ n + 1 - (m + 1) = k /\ m \in 1 .. n - 1 /\ m <= n
      BY <1>4, <1>8, <1>10
    <2>2. \A e \in m + 1 + 1 .. n : n + 1 - e \in 1 .. k - 1
      BY <1>4, <1>8
    <2>3. Nth(stack, m + 1) = stack[k]
      BY <2>1 DEF Nth
    <2> HIDE DEF m
    <2> QED BY <1>6, <2>1, <2>2, <2>3 DEF Nth
  <1>12. /\ \A b \in Bindings \ owned : mem'[b] = mem[b]
         /\ faults' \subseteq faults
    <2>1. Temps \ {0} = TempsOf(stack)
      BY DEF Temps, TempsOf
    <2>2. Good(emptied, {}, ScopeOf(stack), 0) /\ emptied.mem = mem /\ emptied.faults = faults
      BY <1>5, <2>1, TempsGood, TempsEffect DEF Machine
    <2> HIDE DEF emptied, owned
    <2>3. Adds(emptied, {})
      BY <2>2 DEF Adds
    <2>4. /\ \A b \in Bindings \ owned : left.mem[b] = emptied.mem[b]
          /\ Adds(left, {})
      BY <1>7, <2>2, <2>3, LocalsEffect
    <2> QED BY <1>1, <2>2, <2>4 DEF Apply, Adds
  <1> HIDE DEF n, m, emptied, left, owned
  <1>13. /\ src[m] \in Blocks /\ at[m] \in States /\ Repeats(src[m])
         /\ src[m] # <<>> /\ s \in Statements /\ s.s \in {"while", "for"}
    <2>1. m \in 1 .. n /\ m \in Nat
      BY <1>10, <1>11
    <2>2. src[m] \in Blocks /\ at[m] \in States /\ Repeats(src[m])
      BY <1>2, <1>11, <2>1 DEF Shape, n
    <2> QED BY <2>2, BlockRest DEF Repeats
  <1>14. Agree(stack, kept, m) /\ Shape(kept, src, at) /\ (Chain(stack, src, at) => Chain(kept, src, at))
    <2>1. Agree(stack, kept, m)
      BY <1>8 DEF Agree
    <2>2. Len(stack) \in Nat /\ Len(kept) \in Nat /\ Len(kept) <= Len(stack)
          /\ Agree(stack, kept, Len(kept))
      BY <1>4, <1>8, <1>10, <1>11, <2>1 DEF n
    <2> QED BY <1>2, <2>1, <2>2, LeaveChain
  <1>15. ScopeOf(stack') = ScopeOf(kept)
    BY <1>1, <1>7, Onwards
  \* What is in scope behind the jump is left alone, and the loop expects
  \* what of it has been moved.
  <1>16. ASSUME Covers(src, at, cat, bor, con)
         PROVE  /\ \A c \in 1 .. m : \A b \in Nth(stack, c).scope : mem'[b] = mem[b]
                /\ \A b \in ScopeOf(stack') : mem'[b] = 0 => b \in entry
                /\ s.s = "for" => Nth(stack, m).todo # src[m]
    <2>1. Chain(stack, src, at) /\ Pins(stack, src, mem)
      BY <1>16 DEF Covers
    <2>2. ASSUME NEW c \in 1 .. m, NEW b \in Nth(stack, c).scope
          PROVE  /\ b \in ScopeOf(stack) /\ b \notin owned /\ mem'[b] = mem[b]
                 /\ \A e \in m + 1 .. n : b \notin Nth(stack, e).owns
      <3>1. c \in 1 .. n /\ \A e \in m + 1 .. n : e \in 1 .. n /\ c < e
        BY <1>4, <1>10, <1>11
      <3>2. b \in ScopeOf(stack)
        BY <1>9, <3>1, ScopeNth DEF n
      <3>3. \A e \in m + 1 .. n : b \notin Nth(stack, e).owns
        BY <2>1, <3>1 DEF Chain, Apart, n
      <3>4. b \notin owned
        BY <1>8, <3>3
      <3> QED BY <1>5, <1>12, <3>2, <3>3, <3>4
    <2>3. Link(Nth(stack, m + 1), Nth(stack, m), src[m], at[m], Fin(src, at, m + 1))
      BY <1>11, <2>1 DEF Chain, Links, n
    <2>4. /\ s.s = "for" => Nth(stack, m).todo # src[m]
          /\ \A b \in Fin(src, at, m + 1).jumped : b \in Nth(stack, m + 1).owns \/ b \in entry
      BY <1>11, <2>3 DEF Link
    <2>5. ASSUME NEW b \in ScopeOf(stack'), mem'[b] = 0
          PROVE  b \in entry
      <3>1. PICK c \in 1 .. m : b \in Nth(stack, c).scope
        <4>1. \E c \in 1 .. Len(kept) : b \in Nth(kept, c).scope
          BY <1>9, <1>15, <2>5, ScopeNth
        <4> QED BY <1>8, <4>1 DEF Alike
      <3>2. b \in ScopeOf(stack) /\ mem[b] = 0 /\ \A e \in m + 1 .. n : b \notin Nth(stack, e).owns
        BY <2>2, <2>5, <3>1
      <3>3. Reached(src, at, cat) = at[n].moved
        <4>1. Stmt \in [s : {"break", "continue"}]
          BY <1>1, <1>4 DEF Statements, Stmts
        <4>2. DOMAIN Stmt = {"s"}
          BY <4>1
        <4>3. ~called
          BY <1>2, <4>2 DEF Witness, HasCall, Ends
        <4>4. Before(Stmt, at[n]) = at[n]
          BY <1>1 DEF Before
        <4>5. called = FALSE
          BY <1>2, <4>3 DEF Witness
        <4> QED BY <1>3, <1>4, <4>4, <4>5 DEF Reached, Point, Ends, n
      <3>4. b \in Fin(src, at, n).jumped
        <4>1. b \in at[n].moved
          BY <1>16, <3>2, <3>3 DEF Covers
        <4>2. at[n].moved \subseteq CheckStmt(Stmt, at[n]).jumped
          BY <1>1, <1>4, JumpFacts
        <4> QED BY <1>4, <4>1, <4>2 DEF Grows
      <3>5. b \in Fin(src, at, m + 1).jumped
        <4>1. m + 1 \in 1 .. n /\ n \in 1 .. n /\ m + 1 <= n
              /\ \A e \in m + 1 + 1 .. n : e \in m + 1 .. n
          BY <1>4, <1>10, <1>11
        <4>2. b \in Fin(src, at, m + 1).jumped \/ \E e \in m + 1 + 1 .. n : b \in Nth(stack, e).owns
          BY <1>11, <2>1, <3>4, <4>1 DEF Chain, Escapes, n
        <4> QED BY <3>2, <4>1, <4>2
      <3>6. m + 1 \in m + 1 .. n
        BY <1>4, <1>10, <1>11
      <3> QED BY <2>4, <3>2, <3>5, <3>6
    <2> QED BY <2>2, <2>4, <2>5
  <1> HIDE DEF s, entry
  <1>17. CASE Stmt.s = "continue"
    <2>1. stack' = kept
      BY <1>1, <1>17
    <2>2. Witness(src, at, cat, bor, con)'
      BY <1>2, <1>3, <1>12, <1>14, <2>1 DEF Witness, Ends
    <2>3. ASSUME Covers(src, at, cat, bor, con)
          PROVE  Covers(src, at, cat, bor, con)'
      <3>1. Chain(stack, src, at) /\ Pins(stack, src, mem)
        BY <2>3 DEF Covers
      <3>2. Keeps(stack, src, at, mem, n, stack', src, mem', m)
        <4>1. n \in Nat /\ Len(stack) = n /\ m \in 0 .. n /\ Len(stack') = m /\ m \in Nat
          BY <1>4, <1>8, <1>10, <1>11, <2>1 DEF n
        <4> QED BY <1>2, <1>14, <1>16, <2>1, <2>3, <3>1, <4>1 DEF Keeps
      <3>3. Reached(src, at, cat)' = Point(Nth(stack', m), src[m], at[m], FALSE)
        BY <1>3, <1>8, <2>1 DEF Reached, Ends
      <3>4. Nth(stack', m).todo = Nth(stack, m).todo
        <4>1. m \in 1 .. m
          BY <1>10
        <4> QED BY <1>8, <2>1, <4>1 DEF Alike
      <3> DEFINE parent == Nth(stack', m)
      <3>5. Head(src[m]).s = "for" => parent.todo # src[m]
        BY <1>16, <2>3, <3>4 DEF s
      <3> HIDE DEF parent
      <3>6. Point(parent, src[m], at[m], FALSE) = entry
        BY <1>13, <3>5, LoopPoint DEF entry, s
      <3>7. Reached(src, at, cat)' = entry
        BY <3>3, <3>6 DEF parent
      <3>8. Pins(stack', src, mem')
        BY <3>2, PinsKept
      <3> QED BY <1>3, <1>12, <1>14, <1>16, <2>1, <2>3, <3>1, <3>7, <3>8 DEF Covers, Ends
    <2>4. Sound(src, at, cat, bor, con)'
      BY <1>2, <1>3, <2>2, <2>3 DEF Sound, Ends
    <2> QED BY <2>4
  <1>18. CASE Stmt.s = "break"
    <2>1. stack' = Past(kept, {})
      BY <1>1, <1>18
    <2>2. /\ Len(stack') = m
          /\ \A d \in 1 .. m - 1 : Nth(stack', d) = Nth(kept, d)
          /\ Nth(stack', m) = [Head(kept) EXCEPT !.todo = Tail(@), !.scope = @ \cup {}]
          /\ Nth(kept, m) = Head(kept)
      <3> DEFINE gs == Past(kept, {})
      <3>1. /\ Len(gs) = Len(kept)
            /\ \A d \in 1 .. Len(kept) - 1 : Nth(gs, d) = Nth(kept, d)
            /\ Nth(gs, Len(kept)) = [Head(kept) EXCEPT !.todo = Tail(@), !.scope = @ \cup {}]
            /\ Nth(kept, Len(kept)) = Head(kept)
        BY <1>7, <1>9, PastNth
      <3> HIDE DEF gs
      <3>2. stack' = gs
        BY <2>1 DEF gs
      <3> QED BY <1>8, <3>1, <3>2
    <2>3. /\ Nth(stack', m).todo = Tail(Nth(kept, m).todo)
          /\ Nth(stack', m).kind = Nth(kept, m).kind
          /\ Nth(stack', m).owns = Nth(kept, m).owns
      <3>1. PICK todos : Head(kept) \in Frames(todos)
        BY <1>7, TailOK
      <3> QED BY <2>2, <3>1 DEF Frames
    <2>4. Agree(kept, stack', m - 1) /\ Agree(stack, stack', m - 1)
      <3>1. \A d \in 1 .. m - 1 : d \in 1 .. m
        BY <1>10
      <3> QED BY <1>8, <2>2, <3>1 DEF Agree, Alike
    <2>5. PICK src2 : src2 = [src EXCEPT ![m] = Tail(src[m])]
      OBVIOUS
    <2>6. PICK at2 : at2 = [at EXCEPT ![m] = CheckStmt(s, at[m])]
      OBVIOUS
    <2>7. /\ Shape(stack', src2, at2) /\ Nth(stack', m).todo = src2[m]
          /\ Chain(kept, src, at) => Chain(stack', src2, at2)
      <3>1. Advances(kept, stack', src, at, m, src2, at2)
        BY <1>8, <1>10, <1>13, <1>14, <2>2, <2>3, <2>4, <2>5, <2>6 DEF Advances, s
      <3> QED BY <3>1, AdvanceChain
    <2>8. Witness(src2, at2, cat, bor, con)'
      BY <1>2, <1>3, <1>12, <2>7 DEF Witness, Ends
    <2>9. ASSUME Covers(src, at, cat, bor, con)
          PROVE  Covers(src2, at2, cat, bor, con)'
      <3>1. Chain(stack, src, at) /\ Pins(stack, src, mem)
        BY <2>9 DEF Covers
      <3>2. /\ src2[m] \in Blocks /\ at2[m] = CheckStmt(s, at[m]) /\ at2[m] \in States
            /\ \A d \in 1 .. m - 1 : src2[d] = src[d]
        <4>1. Tail(src[m]) \in Blocks /\ CheckStmt(s, at[m]) \in States
          BY <1>13, BlockRest DEF s
        <4>2. src \in [Nat -> Blocks] /\ at \in [Nat -> States]
          BY <1>2 DEF Shape
        <4> QED BY <1>10, <2>5, <2>6, <4>1, <4>2
      <3>3. Pins(stack', src2, mem')
        <4>1. /\ n \in Nat /\ Len(stack) = n /\ m - 1 \in 0 .. n /\ Len(stack') = m /\ m \in Nat
              /\ \A c \in 1 .. m - 1 : c \in 1 .. m
              /\ \A d \in 1 .. m : d \in 1 .. m - 1 \/ d = m
          BY <1>4, <1>10, <1>11, <2>2 DEF n
        <4>2. \A d \in 1 .. Len(stack') : d \in 1 .. m - 1 \/ Nth(stack', d).todo = src2[d]
          BY <2>7, <4>1
        <4>3. Keeps(stack, src, at, mem, n, stack', src2, mem', m - 1)
          BY <1>2, <1>16, <2>4, <2>9, <3>1, <3>2, <4>1, <4>2 DEF Keeps
        <4> QED BY <4>3, PinsKept
      <3>4. Reached(src2, at2, cat)' = Point(Nth(stack', m), src2[m], at2[m], FALSE)
        BY <1>3, <2>2 DEF Reached, Ends
      <3>5. entry \subseteq Reached(src2, at2, cat)'
        <4> DEFINE f == Nth(stack', m)
        <4>1. f.todo = src2[m]
          BY <2>7
        <4> HIDE DEF f
        <4>2. at2[m].moved \subseteq Point(f, src2[m], at2[m], FALSE)
          BY <3>2, <4>1, PointFacts
        <4>3. entry \subseteq CheckStmt(s, at[m]).moved
          BY <1>13, PassFacts DEF entry
        <4> QED BY <3>2, <3>4, <4>2, <4>3 DEF f
      <3> QED BY <1>3, <1>12, <1>14, <1>16, <2>7, <2>9, <3>1, <3>3, <3>5 DEF Covers, Ends
    <2>10. Sound(src2, at2, cat, bor, con)'
      BY <1>2, <1>3, <2>8, <2>9 DEF Sound, Ends
    <2> QED BY <2>10
  <1> QED BY <1>1, <1>17, <1>18

-----------------------------------------------------------------------------
(* Calls *)

\* The statement whose call is made.
LEMMA HereCall ==
  ASSUME Grammar, Procedures, Inv, NEW src, NEW at, Shape(stack, src, at), HasCall
  PROVE  /\ Len(stack) \in Nat \ {0} /\ Nth(stack, Len(stack)) = Head(stack)
         /\ stack # <<>> /\ src[Len(stack)] # <<>> /\ Head(stack).todo = src[Len(stack)]
         /\ Stmt = Head(src[Len(stack)]) /\ Stmt.x.args \in Lists
         /\ Before(Stmt, at[Len(stack)]) \in States
         /\ After(Stmt, at[Len(stack)]) =
              WalkArgs(Stmt.x.args, Before(Stmt, at[Len(stack)]), {}, {})
         /\ After(Stmt, at[Len(stack)]).diags = {}
         /\ Grows(After(Stmt, at[Len(stack)]), Fin(src, at, Len(stack)))
  <1> DEFINE n == Len(stack)
             s == Stmt
             st == at[n]
             w == After(s, st)
  <1>1. /\ stack # <<>> /\ Head(stack).todo # <<>>
        /\ "x" \in DOMAIN s /\ s.x.e = "call"
    BY DEF HasCall
  <1>2. s.s # "each"
    <2> SUFFICES ASSUME s.s = "each" PROVE FALSE
      OBVIOUS
    <2>1. At("each")
      BY <1>1 DEF At
    <2> QED BY <1>1, <2>1, HereEach
  <1>3. /\ n \in Nat \ {0} /\ Nth(stack, n) = Head(stack) /\ src[n] # <<>> /\ Head(stack).todo = src[n]
        /\ s = Head(src[n]) /\ s \in Statements /\ st \in States
        /\ CheckStmt(s, st).diags = {} /\ Grows(CheckStmt(s, st), Fin(src, at, n))
    BY <1>1, <1>2, Here
  <1> HIDE DEF n, s, st
  <1>4. s.s \notin Jumps
    <2> SUFFICES ASSUME s.s \in {"break", "continue"} PROVE FALSE
      BY DEF Jumps
    <2>1. s \in [s : {"break", "continue"}]
      BY <1>3 DEF Statements, Stmts
    <2>2. DOMAIN s = {"s"}
      BY <2>1
    <2> QED BY <1>1, <2>2
  <1>5. s.x \in Expr
    BY <1>3, <1>4, AllRegular
  <1>6. s.x.args \in Lists /\ ~Borrows(s.x)
    BY <1>1, <1>5 DEF Expr, Exprs, Borrows
  <1>7. w = WalkArgs(s.x.args, Before(s, st), {}, {})
    BY <1>1, <1>6 DEF After, Walk
  <1>8. /\ Before(s, st) \in States /\ w \in States /\ Grows(w, CheckStmt(s, st))
    BY <1>3, <1>4, AfterFacts, BeforeFacts
  <1> HIDE DEF w
  <1>9. w.diags = {} /\ Grows(w, Fin(src, at, n))
    <2>1. w.diags = {}
      BY <1>3, <1>8 DEF Grows
    <2> QED BY <1>3, <1>8, <2>1, GrowsTrans
  <1> QED BY <1>1, <1>3, <1>6, <1>7, <1>8, <1>9 DEF n, s, st, w

\* A step of a call: the stack stays.
CallStep(src, at, cat2, bor2, con2) ==
  /\ stack' = stack /\ gap' = gap /\ HasCall
  /\ Lowering(calls', cat2, bor2, con2)
  /\ called' \in BOOLEAN /\ (calls' # <<>> => ~called')
  /\ "alias" \notin faults'

Lasts(src, at, cat2, bor2, con2) ==
  /\ faults' \cap {"moved", "freed"} = {}
  /\ \A b \in ScopeOf(stack) : mem'[b] = mem[b] \/ b \in Fin(src, at, Len(stack)).touched
  /\ IF calls' # <<>>
     THEN /\ Walking(calls', cat2, bor2, con2, After(Stmt, at[Len(stack)]), Fin(src, at, Len(stack)))
          /\ \A b \in ScopeOf(stack) : mem'[b] = 0 => b \in cat2[Len(calls')].moved
     ELSE /\ called' = TRUE
          /\ \A b \in ScopeOf(stack) : mem'[b] = 0 => b \in After(Stmt, at[Len(stack)]).moved

LEMMA CallSound ==
  ASSUME Grammar, Procedures, Inv, NEW src, NEW at, NEW cat, NEW bor, NEW con,
         Sound(src, at, cat, bor, con), NEW cat2, NEW bor2, NEW con2,
         CallStep(src, at, cat2, bor2, con2),
         Covers(src, at, cat, bor, con) => Lasts(src, at, cat2, bor2, con2)
  PROVE  Sound(src, at, cat2, bor2, con2)'
  <1> USE DEF CallStep, Lasts
  <1> DEFINE n == Len(stack)
  <1>1. Shape(stack, src, at)
    BY DEF Sound, Witness
  <1>2. /\ n \in Nat \ {0} /\ Nth(stack, n) = Head(stack) /\ src[n] # <<>>
        /\ Head(stack).todo = src[n] /\ Stmt = Head(src[n])
    BY <1>1, HereCall
  <1>3. HasCall'
    BY DEF HasCall, Stmt
  <1>4. Witness(src, at, cat2, bor2, con2)'
    BY <1>1, <1>3 DEF Witness
  <1>5. ASSUME Covers(src, at, cat, bor, con)
        PROVE  Covers(src, at, cat2, bor2, con2)'
    <2>1. Chain(stack, src, at) /\ Pins(stack, src, mem)
      BY <1>5 DEF Covers
    <2>2. Pins(stack, src, mem')
      <3>1. PICK S : stack \in Seq(S)
        BY StackSeq
      <3> HIDE DEF n
      <3>2. /\ n \in Nat /\ Len(stack) = n /\ n - 1 \in 0 .. n /\ n - 1 < n
            /\ \A d \in 1 .. n : d \in 1 .. n - 1 \/ d = n
            /\ \A d \in 1 .. n - 1 : d \in 1 .. n
        BY <1>2 DEF n
      <3>3. \A c \in 1 .. n - 1 : \A b \in Nth(stack, c).scope :
              mem'[b] = mem[b] \/ (n - 1 < n /\ b \in Fin(src, at, n).touched)
        <4>1. \A c \in 1 .. n - 1 : \A b \in Nth(stack, c).scope : b \in ScopeOf(stack)
          BY <3>1, <3>2, ScopeNth
        <4> QED BY <1>5, <3>2, <4>1
      <3>4. Agree(stack, stack, n - 1)
        BY DEF Agree, Alike
      <3>5. \A d \in 1 .. n : d \in 1 .. n - 1 \/ Nth(stack, d).todo = src[d]
        BY <1>2, <3>2
      <3>6. Keeps(stack, src, at, mem, n, stack, src, mem', n - 1)
        BY <1>1, <2>1, <3>2, <3>3, <3>4, <3>5 DEF Keeps
      <3> QED BY <3>6, PinsKept
    <2>3. calls' = <<>> => Reached(src, at, cat2)' = After(Stmt, at[n]).moved
      BY <1>2, <1>5 DEF Reached, Point
    <2>4. calls' # <<>> => Reached(src, at, cat2)' = cat2[Len(calls')].moved
      BY DEF Reached
    <2> QED BY <1>2, <1>5, <2>1, <2>2, <2>3, <2>4 DEF Covers
  <1> QED BY <1>4, <1>5 DEF Sound

\* A call is opened within the others.
Calling(seq, cat, bor, con, k, args, st, seq2, cat2, bor2, con2) ==
  /\ Lowering(seq, cat, bor, con) /\ k \in Nat /\ Len(seq) = k
  /\ args \in Lists /\ st \in States /\ WalkArgs(args, st, {}, {}).diags = {}
  /\ seq2 = <<[args |-> args, todo |-> args]>> \o seq
  /\ cat2 = [cat EXCEPT ![k + 1] = st] /\ bor2 = [bor EXCEPT ![k + 1] = {}]
  /\ con2 = [con EXCEPT ![k + 1] = {}]

\* What the analysis of its arguments leads to.
Leaders(seq, cat, bor, con, k, args, st, after, fin) ==
  /\ IF k = 0 THEN WalkArgs(args, st, {}, {}) = after
     ELSE Walking(seq, cat, bor, con, after, fin) /\ WalkArgs(args, st, {}, {}) = cat[k]
  /\ ~WalkArgs(args, st, {}, {}).gap /\ WalkArgs(args, st, {}, {}).touched \subseteq fin.touched

LEMMA OpenCalls ==
  ASSUME NEW seq, NEW cat, NEW bor, NEW con, NEW k, NEW args, NEW st,
         NEW seq2, NEW cat2, NEW bor2, NEW con2, NEW after, NEW fin,
         Calling(seq, cat, bor, con, k, args, st, seq2, cat2, bor2, con2)
  PROVE  /\ Lowering(seq2, cat2, bor2, con2)
         /\ Len(seq2) = k + 1 /\ seq2 # <<>> /\ cat2[k + 1] = st
         /\ Leaders(seq, cat, bor, con, k, args, st, after, fin) =>
              Walking(seq2, cat2, bor2, con2, after, fin)
  <1> USE DEF Calling
  <1> DEFINE top == [args |-> args, todo |-> args]
  <1>1. seq \in Seq(CallFrames) /\ top \in CallFrames
    BY DEF Lowering, CallFrames
  <1>2. top.args = args /\ top.todo = args
    OBVIOUS
  <1> HIDE DEF top
  <1>3. seq2 = <<top>> \o seq
    BY DEF top
  <1>4. /\ Len(<<top>> \o seq) = Len(seq) + 1
        /\ Nth(<<top>> \o seq, Len(seq) + 1) = top
        /\ \A d \in 1 .. Len(seq) : Nth(<<top>> \o seq, d) = Nth(seq, d)
        /\ <<top>> \o seq \in Seq(CallFrames \cup {top})
    BY <1>1, NthPush
  <1>5. /\ Len(seq2) = k + 1 /\ Nth(seq2, k + 1) = top
        /\ \A c \in 1 .. k : Nth(seq2, c) = Nth(seq, c)
        /\ seq2 \in Seq(CallFrames)
    <2>1. CallFrames \cup {top} = CallFrames
      BY <1>1
    <2> QED BY <1>3, <1>4, <2>1
  <1>6. /\ cat2 \in [Nat -> States] /\ bor2 \in [Nat -> Borrowings] /\ con2 \in [Nat -> SUBSET Bindings]
        /\ cat2[k + 1] = st /\ bor2[k + 1] = {} /\ con2[k + 1] = {}
        /\ \A c \in 1 .. k : cat2[c] = cat[c] /\ bor2[c] = bor[c] /\ con2[c] = con[c]
    BY DEF Lowering, Borrowings
  <1>7. \A c \in 1 .. k + 1 : c \in 1 .. k \/ c = k + 1
    OBVIOUS
  <1>8. /\ Rest(seq2, cat2, bor2, con2, k + 1) = WalkArgs(args, st, {}, {})
        /\ \A c \in 1 .. k : Rest(seq2, cat2, bor2, con2, c) = Rest(seq, cat, bor, con, c)
    BY <1>2, <1>5, <1>6 DEF Rest
  <1>9. Lowering(seq2, cat2, bor2, con2)
    <2>1. ASSUME NEW c \in 1 .. Len(seq2)
          PROVE  /\ Rest(seq2, cat2, bor2, con2, c).diags = {}
                 /\ \E t \in States : WalkArgs(Nth(seq2, c).args, t, {}, {}).diags = {}
      <3>1. CASE c = k + 1
        BY <1>2, <1>5, <1>8, <3>1
      <3>2. CASE c \in 1 .. k
        BY <1>5, <1>8, <3>2 DEF Lowering
      <3> QED BY <1>5, <1>7, <3>1, <3>2
    <2> QED BY <1>5, <1>6, <2>1 DEF Lowering
  <1>10. ASSUME Leaders(seq, cat, bor, con, k, args, st, after, fin)
         PROVE  Walking(seq2, cat2, bor2, con2, after, fin)
    <2> USE <1>10 DEF Leaders
    <2>1. Rest(seq2, cat2, bor2, con2, 1) = after
      <3>1. CASE k = 0
        BY <1>8, <3>1
      <3>2. CASE k # 0
        <4>1. 1 \in 1 .. k
          BY <3>2
        <4> QED BY <1>8, <3>2, <4>1 DEF Walking, Leading
      <3> QED BY <3>1, <3>2
    <2>2. ASSUME NEW c \in 2 .. k + 1
          PROVE  Rest(seq2, cat2, bor2, con2, c) = cat2[c - 1]
      <3>1. CASE c = k + 1
        <4>1. k # 0 /\ k \in 1 .. k /\ c - 1 = k
          BY <3>1
        <4> QED BY <1>6, <1>8, <3>1, <4>1
      <3>2. CASE c \in 2 .. k
        <4>1. c \in 1 .. k /\ c - 1 \in 1 .. k /\ k # 0
          BY <3>2
        <4>2. Rest(seq, cat, bor, con, c) = cat[c - 1]
          BY <3>2, <4>1 DEF Walking, Leading
        <4> QED BY <1>6, <1>8, <4>1, <4>2
      <3>3. c = k + 1 \/ c \in 2 .. k
        OBVIOUS
      <3> QED BY <3>1, <3>2, <3>3
    <2>3. ASSUME NEW c \in 1 .. k + 1
          PROVE  /\ \A i \in DOMAIN Nth(seq2, c).args :
                      Noted(Nth(seq2, c).args[i], Nth(seq2, c).todo, bor2[c], cat2[c])
                 /\ ~Rest(seq2, cat2, bor2, con2, c).gap
                 /\ Rest(seq2, cat2, bor2, con2, c).touched \subseteq fin.touched
      <3>1. CASE c = k + 1
        BY <1>2, <1>5, <1>8, <3>1 DEF Noted
      <3>2. CASE c \in 1 .. k
        <4>1. k # 0 /\ Walking(seq, cat, bor, con, after, fin)
          BY <3>2
        <4> QED BY <1>5, <1>6, <1>8, <3>2, <4>1 DEF Walking, NotedAll
      <3> QED BY <1>7, <3>1, <3>2
    <2> QED BY <1>5, <2>1, <2>2, <2>3 DEF Walking, Leading, NotedAll
  <1>11. seq2 # <<>>
    BY <1>3, <1>1
  <1> QED BY <1>5, <1>6, <1>9, <1>10, <1>11

LEMMA BeginSound ==
  ASSUME Grammar, Procedures, Inv, NEW src, NEW at, NEW cat, NEW bor, NEW con,
         Sound(src, at, cat, bor, con), BeginCall, gap' = gap
  PROVE  \E cat2, bor2, con2 : Sound(src, at, cat2, bor2, con2)'
  <1> DEFINE n == Len(stack)
             st == Before(Stmt, at[n])
             w == After(Stmt, at[n])
             args == Stmt.x.args
             fin == Fin(src, at, n)
  <1>1. /\ HasCall /\ ~called /\ calls = <<>> /\ calls' = <<[args |-> args, todo |-> args]>>
        /\ UNCHANGED <<stack, called, mem, faults>>
    BY DEF BeginCall, Opened
  <1>2. Shape(stack, src, at) /\ Witness(src, at, cat, bor, con)
    BY DEF Sound, Witness
  <1>3. /\ args \in Lists /\ st \in States /\ w = WalkArgs(args, st, {}, {}) /\ w.diags = {}
        /\ Grows(w, fin) /\ src[n] # <<>> /\ Head(stack).todo = src[n]
        /\ Stmt = Head(src[n]) /\ Nth(stack, n) = Head(stack)
    BY <1>1, <1>2, HereCall
  <1>4. PICK cat2 : cat2 = [cat EXCEPT ![1] = st]
    OBVIOUS
  <1>5. PICK bor2 : bor2 = [bor EXCEPT ![1] = {}]
    OBVIOUS
  <1>6. PICK con2 : con2 = [con EXCEPT ![1] = {}]
    OBVIOUS
  <1> HIDE DEF st, w, args, fin
  <1>7. Calling(calls, cat, bor, con, 0, args, st, calls', cat2, bor2, con2)
    <2>1. Lowering(calls, cat, bor, con) /\ Len(calls) = 0 /\ 0 + 1 = 1
      BY <1>1 DEF Sound, Witness
    <2>2. calls' = <<[args |-> args, todo |-> args]>> \o calls
      BY <1>1
    <2> QED BY <1>3, <1>4, <1>5, <1>6, <2>1, <2>2 DEF Calling
  <1>8. /\ Lowering(calls', cat2, bor2, con2)
        /\ Len(calls') = 1 /\ calls' # <<>> /\ cat2[1] = st
        /\ Leaders(calls, cat, bor, con, 0, args, st, w, fin) =>
             Walking(calls', cat2, bor2, con2, w, fin)
    <2>1. /\ Lowering(calls', cat2, bor2, con2)
          /\ Len(calls') = 0 + 1 /\ calls' # <<>> /\ cat2[0 + 1] = st
          /\ Leaders(calls, cat, bor, con, 0, args, st, w, fin) =>
               Walking(calls', cat2, bor2, con2, w, fin)
      BY ONLY <1>7, OpenCalls
    <2> QED BY <2>1
  <1>9. CallStep(src, at, cat2, bor2, con2)
    BY <1>1, <1>2, <1>8 DEF CallStep, Witness
  <1>10. ASSUME Covers(src, at, cat, bor, con)
         PROVE  Lasts(src, at, cat2, bor2, con2)
    <2>1. ~fin.gap
      <3>1. n \in 1 .. n
        BY <1>1, <1>2, HereCall
      <3> QED BY <1>10, <3>1 DEF Covers, Chain, fin
    <2>2. Leaders(calls, cat, bor, con, 0, args, st, w, fin)
      BY <1>3, <2>1 DEF Leaders, Grows
    <2>3. Reached(src, at, cat) = st.moved
      BY <1>1, <1>2, <1>3 DEF Reached, Point, Witness, st
    <2> QED BY <1>1, <1>8, <1>10, <2>2, <2>3 DEF Lasts, Covers, w, fin
  <1>11. Sound(src, at, cat2, bor2, con2)'
    BY <1>9, <1>10, CallSound
  <1> QED BY <1>11

\* The innermost call passes its first argument.
Passes(seq, cat, bor, con, k, seq2, cat2, bor2, con2) ==
  /\ Lowering(seq, cat, bor, con) /\ seq # <<>> /\ Len(seq) = k /\ Head(seq).todo # <<>>
  /\ seq2 = <<[Head(seq) EXCEPT !.todo = Tail(@)]>> \o Tail(seq)
  /\ cat2 = [cat EXCEPT ![k] = Passed(Head(seq).todo, cat[k], bor[k], con[k])]
  /\ bor2 = [bor EXCEPT ![k] = WithBorrow(Head(Head(seq).todo), bor[k])]
  /\ con2 = [con EXCEPT ![k] = WithMove(Head(Head(seq).todo), con[k])]

\* A call that is being lowered.
LEMMA CallFacts ==
  ASSUME Grammar, Procedures, NEW seq, NEW cat, NEW bor, NEW con,
         Lowering(seq, cat, bor, con), seq # <<>>
  PROVE  /\ Len(seq) \in Nat \ {0} /\ Nth(seq, Len(seq)) = Head(seq) /\ Head(seq) \in CallFrames
         /\ Head(seq).todo \in Lists /\ Head(seq).args \in Lists
         /\ cat[Len(seq)] \in States /\ bor[Len(seq)] \in Borrowings
         /\ con[Len(seq)] \in SUBSET Bindings
         /\ Rest(seq, cat, bor, con, Len(seq)) =
              WalkArgs(Head(seq).todo, cat[Len(seq)], bor[Len(seq)], con[Len(seq)])
         /\ Rest(seq, cat, bor, con, Len(seq)).diags = {}
  <1> DEFINE k == Len(seq)
  <1>1. seq \in Seq(CallFrames)
    BY DEF Lowering
  <1>2. k \in Nat \ {0} /\ Nth(seq, k) = Head(seq) /\ Head(seq) \in CallFrames
    BY <1>1, NthTail
  <1> HIDE DEF k
  <1>3. Head(seq).todo \in Lists /\ Head(seq).args \in Lists
    BY <1>2 DEF CallFrames
  <1>4. Rest(seq, cat, bor, con, k).diags = {}
    BY <1>2 DEF Lowering, k
  <1>5. cat[k] \in States /\ bor[k] \in Borrowings /\ con[k] \in SUBSET Bindings
    BY <1>2 DEF Lowering
  <1> QED BY <1>2, <1>3, <1>4, <1>5 DEF Rest, k

\* Borrowed arguments are noted once they are passed.
LEMMA NotedPassed ==
  ASSUME Grammar, Procedures, NEW todo \in Lists, todo # <<>>, NEW st \in States,
         NEW bo \in Borrowings, NEW co \in SUBSET Bindings, NEW e, Noted(e, todo, bo, st)
  PROVE  Noted(e, Tail(todo), WithBorrow(Head(todo), bo), Passed(todo, st, bo, co))
  <1> DEFINE h == Head(todo)
             judged == Judged(todo, st, bo, co)
             passed == Passed(todo, st, bo, co)
  <1>1. /\ h \in Expr /\ judged \in States /\ passed \in States
        /\ st.touched \subseteq judged.touched /\ judged.touched \subseteq passed.touched
        /\ passed = Walk(h, judged, ~Borrows(h))
    BY RestFacts DEF Walked, Grows, Passed
  <1> HIDE DEF judged, passed
  <1> SUFFICES ASSUME Borrows(e)
               PROVE  \/ \E j \in DOMAIN Tail(todo) : Tail(todo)[j] = e
                      \/ /\ <<e.b, e.e>> \in WithBorrow(h, bo)
                         /\ e.e = "mutref" => e.b \in passed.touched
    BY DEF Noted, passed
  <1>2. CASE <<e.b, e.e>> \in bo /\ (e.e = "mutref" => e.b \in st.touched)
    BY <1>1, <1>2 DEF WithBorrow
  <1>3. CASE \E j \in DOMAIN todo : todo[j] = e
    <2>1. todo \in Seq(Expr)
      BY DEF Grammar
    <2>2. PICK j \in DOMAIN todo : todo[j] = e
      BY <1>3
    <2>3. CASE j = 1
      <3>1. h = e
        BY <2>1, <2>2, <2>3
      <3>2. <<e.b, e.e>> \in WithBorrow(h, bo)
        BY <3>1 DEF WithBorrow
      <3>3. ASSUME e.e = "mutref"
            PROVE  e.b \in passed.touched
        <4>1. passed = UseBorrow(e, judged) /\ e.b \in Bindings
          BY <1>1, <3>1, <3>3 DEF Walk, Borrows, Expr, Exprs
        <4>2. [Report(judged, e.b \in judged.moved, "NQ-BORROW-003")
                 EXCEPT !.touched = @ \cup {e.b}].touched
                = Report(judged, e.b \in judged.moved, "NQ-BORROW-003").touched \cup {e.b}
          BY <1>1 DEF Report, States
        <4> QED BY <3>3, <4>1, <4>2 DEF UseBorrow
      <3> QED BY <3>2, <3>3
    <2>4. CASE j # 1
      <3>1. j - 1 \in DOMAIN Tail(todo) /\ Tail(todo)[j - 1] = todo[j]
        BY <2>1, <2>2, <2>4
      <3> QED BY <2>2, <3>1
    <2> QED BY <2>3, <2>4
  <1> QED BY <1>2, <1>3 DEF Noted

LEMMA PassCalls ==
  ASSUME Grammar, Procedures, NEW seq, NEW cat, NEW bor, NEW con, NEW k,
         NEW seq2, NEW cat2, NEW bor2, NEW con2, NEW after, NEW fin,
         Passes(seq, cat, bor, con, k, seq2, cat2, bor2, con2)
  PROVE  /\ Lowering(seq2, cat2, bor2, con2) /\ seq2 # <<>> /\ Len(seq2) = k
         /\ cat2[k] = Passed(Head(seq).todo, cat[k], bor[k], con[k])
         /\ Walking(seq, cat, bor, con, after, fin) => Walking(seq2, cat2, bor2, con2, after, fin)
  <1> USE DEF Passes
  <1> DEFINE h == Head(seq)
             todo == h.todo
             e == Head(todo)
             passed == Passed(todo, cat[k], bor[k], con[k])
             top == [h EXCEPT !.todo = Tail(@)]
             rest == Tail(seq)
  <1>1. /\ k \in Nat \ {0} /\ Nth(seq, k) = h /\ h \in CallFrames /\ todo \in Lists
        /\ cat[k] \in States /\ bor[k] \in Borrowings /\ con[k] \in SUBSET Bindings
        /\ Rest(seq, cat, bor, con, k) = WalkArgs(todo, cat[k], bor[k], con[k])
        /\ Rest(seq, cat, bor, con, k).diags = {}
    BY CallFacts
  <1>2. /\ Tail(todo) \in Lists /\ passed \in States
        /\ WithBorrow(e, bor[k]) \in Borrowings /\ WithMove(e, con[k]) \in SUBSET Bindings
        /\ WalkArgs(todo, cat[k], bor[k], con[k]) =
             WalkArgs(Tail(todo), passed, WithBorrow(e, bor[k]), WithMove(e, con[k]))
    BY <1>1, RestFacts
  <1>3. top \in CallFrames /\ top.todo = Tail(todo) /\ top.args = h.args
    BY <1>1, <1>2 DEF CallFrames
  <1>4. /\ Len(rest) = k - 1 /\ rest \in Seq(CallFrames)
        /\ \A d \in 1 .. k - 1 : Nth(rest, d) = Nth(seq, d)
    BY NthTail DEF Lowering
  <1> HIDE DEF top, rest, passed, h
  <1>5. seq2 = <<top>> \o rest
    BY DEF top, rest, h
  <1>6. /\ Len(<<top>> \o rest) = Len(rest) + 1
        /\ Nth(<<top>> \o rest, Len(rest) + 1) = top
        /\ \A d \in 1 .. Len(rest) : Nth(<<top>> \o rest, d) = Nth(rest, d)
        /\ <<top>> \o rest \in Seq(CallFrames \cup {top})
    BY <1>4, NthPush
  <1>7. /\ Len(seq2) = k /\ Nth(seq2, k) = top
        /\ \A c \in 1 .. k - 1 : Nth(seq2, c) = Nth(seq, c)
        /\ seq2 \in Seq(CallFrames)
    <2>1. CallFrames \cup {top} = CallFrames
      BY <1>3
    <2>2. Len(rest) + 1 = k
      BY <1>1, <1>4
    <2> QED BY <1>4, <1>5, <1>6, <2>1, <2>2
  <1>8. /\ cat2 \in [Nat -> States] /\ bor2 \in [Nat -> Borrowings] /\ con2 \in [Nat -> SUBSET Bindings]
        /\ cat2[k] = passed /\ bor2[k] = WithBorrow(e, bor[k]) /\ con2[k] = WithMove(e, con[k])
        /\ \A c \in 1 .. k - 1 : cat2[c] = cat[c] /\ bor2[c] = bor[c] /\ con2[c] = con[c]
    <2>1. cat \in [Nat -> States] /\ bor \in [Nat -> Borrowings] /\ con \in [Nat -> SUBSET Bindings]
      BY DEF Lowering
    <2>2. cat2 = [cat EXCEPT ![k] = passed]
      BY DEF passed, h
    <2>3. bor2 = [bor EXCEPT ![k] = WithBorrow(e, bor[k])] /\ con2 = [con EXCEPT ![k] = WithMove(e, con[k])]
      BY DEF h
    <2> HIDE DEF e, Passes
    <2> QED BY <1>1, <1>2, <2>1, <2>2, <2>3
  <1>9. \A c \in 1 .. k : c \in 1 .. k - 1 \/ c = k
    OBVIOUS
  <1>10. \A c \in 1 .. k : Rest(seq2, cat2, bor2, con2, c) = Rest(seq, cat, bor, con, c)
    <2>1. Rest(seq2, cat2, bor2, con2, k) = Rest(seq, cat, bor, con, k)
      BY <1>1, <1>2, <1>3, <1>7, <1>8 DEF Rest
    <2>2. \A c \in 1 .. k - 1 : Rest(seq2, cat2, bor2, con2, c) = Rest(seq, cat, bor, con, c)
      BY <1>7, <1>8 DEF Rest
    <2> QED BY <1>9, <2>1, <2>2
  <1>11. \A c \in 1 .. k : Nth(seq2, c).args = Nth(seq, c).args
    BY <1>1, <1>3, <1>7, <1>9
  <1>12. Lowering(seq2, cat2, bor2, con2)
    BY <1>7, <1>8, <1>10, <1>11 DEF Lowering
  <1>13. ASSUME Walking(seq, cat, bor, con, after, fin)
         PROVE  Walking(seq2, cat2, bor2, con2, after, fin)
    <2>1. 1 \in 1 .. k
      BY <1>1
    <2>2. \A c \in 2 .. k : c \in 1 .. k /\ c - 1 \in 1 .. k - 1
      BY <1>1
    <2>3. Leading(seq2, cat2, bor2, con2, after)
      BY <1>7, <1>8, <1>10, <1>13, <2>1, <2>2 DEF Walking, Leading
    <2>4. ASSUME NEW c \in 1 .. k, NEW i \in DOMAIN Nth(seq2, c).args
          PROVE  Noted(Nth(seq2, c).args[i], Nth(seq2, c).todo, bor2[c], cat2[c])
      <3>1. Noted(Nth(seq, c).args[i], Nth(seq, c).todo, bor[c], cat[c])
        BY <1>11, <1>13, <2>4 DEF Walking, NotedAll
      <3>2. CASE c = k
        <4> DEFINE a == Nth(seq, c).args[i]
        <4>1. Noted(a, todo, bor[k], cat[k])
          BY <1>1, <3>1, <3>2
        <4> HIDE DEF a, todo, e
        <4>2. todo # <<>> /\ e = Head(todo) /\ passed = Passed(todo, cat[k], bor[k], con[k])
          BY DEF h, todo, e, passed
        <4>3. Noted(a, Tail(todo), WithBorrow(Head(todo), bor[k]), Passed(todo, cat[k], bor[k], con[k]))
          BY <1>1, <4>1, <4>2, NotedPassed DEF todo
        <4> QED BY <1>3, <1>7, <1>8, <1>11, <3>2, <4>2, <4>3 DEF a, todo
      <3>3. CASE c \in 1 .. k - 1
        BY <1>7, <1>8, <3>1, <3>3
      <3> QED BY <1>9, <3>2, <3>3
    <2>5. NotedAll(seq2, cat2, bor2)
      BY <1>7, <2>4 DEF NotedAll
    <2> QED BY <1>7, <1>10, <1>13, <2>3, <2>5 DEF Walking
  <1>14. seq2 # <<>>
    BY <1>1, <1>7
  <1> QED BY <1>7, <1>8, <1>12, <1>13, <1>14 DEF passed, h

\* A moved argument is taken from its local and dropped by the callee.
LEMMA TakeEffect ==
  ASSUME Inv, NEW b \in Bindings, NEW m, m = Drop(TakeLocal(Machine, b), mem[b])
  PROVE  /\ m.mem[b] = 0 /\ \A c \in Bindings \ {b} : m.mem[c] = mem[c]
         /\ m.faults \subseteq faults \cup {"moved", "twice"}
         /\ mem[b] # 0 => m.faults \subseteq faults \cup {"twice"}
  <1> DEFINE z == [Machine EXCEPT !.mem[b] = 0]
             t == TakeLocal(Machine, b)
  <1>1. Machine \in Machines /\ Machine.mem = mem /\ Machine.faults = faults
        /\ mem \in [Bindings -> Nat]
    BY MemTyped
  <1>2. z.mem[b] = 0 /\ (\A c \in Bindings \ {b} : z.mem[c] = mem[c]) /\ z.faults = faults
        /\ z \in Machines
    BY <1>1 DEF Machines
  <1>3. t = Fault(z, mem[b] = 0, "moved")
    BY <1>1 DEF TakeLocal
  <1> HIDE DEF z
  <1>4. t \in Machines /\ t.mem = z.mem /\ t.faults \subseteq faults \cup {"moved"}
        /\ (mem[b] # 0 => t.faults = faults)
    BY <1>2, <1>3 DEF Fault, Machines
  <1> HIDE DEF t
  <1>5. m = Drop(t, mem[b])
    BY DEF t
  <1>6. Drop(t, mem[b]).mem = t.mem /\ Drop(t, mem[b]).faults \subseteq t.faults \cup {"twice"}
    BY <1>4, DropEffect
  <1> QED BY <1>2, <1>4, <1>5, <1>6

LEMMA PassSound ==
  ASSUME Grammar, Procedures, Inv, NEW src, NEW at, NEW cat, NEW bor, NEW con,
         Sound(src, at, cat, bor, con), PassArgument, gap' = gap
  PROVE  \E cat2, bor2, con2 : Sound(src, at, cat2, bor2, con2)'
  <1> DEFINE n == Len(stack)
             k == Len(calls)
             todo == Head(calls).todo
             e == Argument
             judged == Judged(todo, cat[k], bor[k], con[k])
             passed == Passed(todo, cat[k], bor[k], con[k])
             w == After(Stmt, at[n])
             fin == Fin(src, at, n)
  <1>1. /\ calls # <<>> /\ todo # <<>> /\ e = Head(todo)
        /\ e.e = "name" => e.b \in ScopeOf(stack)
        /\ calls' = IF e.e = "call" THEN <<Opened(e)>> \o NextArgument ELSE NextArgument
        /\ stack' = stack /\ called' = called
        /\ Apply(IF e.e = "name" THEN Drop(TakeLocal(Machine, e.b), mem[e.b]) ELSE Machine)
    BY DEF PassArgument, Argument
  <1>2. Shape(stack, src, at) /\ Witness(src, at, cat, bor, con) /\ HasCall /\ ~called
    BY <1>1 DEF Sound, Witness
  <1>3. /\ stack # <<>> /\ Grows(w, fin) /\ n \in 1 .. n
    BY <1>2, HereCall
  <1>4. ScopeOf(stack) \subseteq Bindings
    BY <1>3, Running
  <1>5. Lowering(calls, cat, bor, con)
    BY DEF Sound, Witness
  <1>6. /\ k \in Nat \ {0} /\ todo \in Lists /\ cat[k] \in States /\ bor[k] \in Borrowings
        /\ con[k] \in SUBSET Bindings
        /\ Rest(calls, cat, bor, con, k) = WalkArgs(todo, cat[k], bor[k], con[k])
        /\ Rest(calls, cat, bor, con, k).diags = {}
    BY <1>1, <1>5, CallFacts
  <1>7. /\ e \in Expr /\ judged \in States /\ judged.moved = cat[k].moved
        /\ passed \in States /\ Walked(judged, passed)
        /\ Walked(passed, Rest(calls, cat, bor, con, k))
    BY <1>1, <1>6, RestFacts
  <1>8. passed = Walk(e, judged, ~Borrows(e))
    BY <1>1 DEF Passed
  <1>9. PICK cat2 : cat2 = [cat EXCEPT ![k] = passed]
    OBVIOUS
  <1>10. PICK bor2 : bor2 = [bor EXCEPT ![k] = WithBorrow(Head(todo), bor[k])]
    OBVIOUS
  <1>11. PICK con2 : con2 = [con EXCEPT ![k] = WithMove(Head(todo), con[k])]
    OBVIOUS
  <1>12. Passes(calls, cat, bor, con, k, NextArgument, cat2, bor2, con2)
    BY <1>1, <1>5, <1>9, <1>10, <1>11 DEF Passes, NextArgument
  <1>13. /\ Lowering(NextArgument, cat2, bor2, con2) /\ NextArgument # <<>> /\ Len(NextArgument) = k
         /\ cat2[k] = passed
         /\ Walking(calls, cat, bor, con, w, fin) => Walking(NextArgument, cat2, bor2, con2, w, fin)
    BY <1>12, PassCalls
  <1> HIDE DEF k, todo, judged, passed, w, fin
  <1>14. passed.diags = {} /\ judged.diags = {}
    BY <1>6, <1>7 DEF Walked, Grows
  \* What the analysis says before the argument is passed.
  <1>15. ASSUME Covers(src, at, cat, bor, con)
         PROVE  /\ Walking(calls, cat, bor, con, w, fin)
                /\ \A b \in ScopeOf(stack) : mem[b] = 0 => b \in judged.moved
                /\ faults \cap {"moved", "freed"} = {}
                /\ ~passed.gap /\ passed.touched \subseteq fin.touched
    <2>1. Stmt = Head(src[n])
      BY <1>2, HereCall
    <2>2. Walking(calls, cat, bor, con, w, fin)
      BY <1>1, <1>15, <2>1 DEF Covers, w, fin
    <2>3. ~Rest(calls, cat, bor, con, k).gap /\ Rest(calls, cat, bor, con, k).touched \subseteq fin.touched
      <3>1. k \in 1 .. Len(calls)
        BY <1>6 DEF k
      <3> QED BY <2>2, <3>1 DEF Walking
    <2>4. Reached(src, at, cat) = judged.moved
      BY <1>1, <1>7 DEF Reached, k
    <2>5. ~passed.gap /\ passed.touched \subseteq fin.touched
      BY <1>7, <2>3 DEF Walked, Grows
    <2> QED BY <1>15, <2>2, <2>4, <2>5 DEF Covers
  <1>16. CASE e.e = "call"
    <2> DEFINE args == e.args
               top == [args |-> args, todo |-> args]
    <2>1. /\ calls' = <<top>> \o NextArgument
          /\ mem' = mem /\ faults' = faults
      BY <1>1, <1>16 DEF Opened, Apply, Machine
    <2>2. args \in Lists /\ WalkArgs(args, judged, {}, {}) = passed
      BY <1>7, <1>8, <1>16 DEF Expr, Exprs, Walk, Borrows
    <2> HIDE DEF args, top
    <2>3. PICK cat3 : cat3 = [cat2 EXCEPT ![k + 1] = judged]
      OBVIOUS
    <2>4. PICK bor3 : bor3 = [bor2 EXCEPT ![k + 1] = {}]
      OBVIOUS
    <2>5. PICK con3 : con3 = [con2 EXCEPT ![k + 1] = {}]
      OBVIOUS
    <2>6. Calling(NextArgument, cat2, bor2, con2, k, args, judged, calls', cat3, bor3, con3)
      BY <1>6, <1>7, <1>13, <1>14, <2>1, <2>2, <2>3, <2>4, <2>5 DEF Calling, top
    <2>7. /\ Lowering(calls', cat3, bor3, con3)
          /\ Len(calls') = k + 1 /\ calls' # <<>> /\ cat3[k + 1] = judged
          /\ Leaders(NextArgument, cat2, bor2, con2, k, args, judged, w, fin) =>
               Walking(calls', cat3, bor3, con3, w, fin)
      BY ONLY <2>6, OpenCalls
    <2>8. CallStep(src, at, cat3, bor3, con3)
      BY <1>1, <1>2, <2>1, <2>7 DEF CallStep, Witness
    <2>9. ASSUME Covers(src, at, cat, bor, con)
          PROVE  Lasts(src, at, cat3, bor3, con3)
      <3>1. Leaders(NextArgument, cat2, bor2, con2, k, args, judged, w, fin)
        BY <1>6, <1>13, <1>15, <2>2, <2>9 DEF Leaders
      <3> QED BY <1>15, <2>1, <2>7, <2>9, <3>1 DEF Lasts, w, fin
    <2>10. Sound(src, at, cat3, bor3, con3)'
      BY <2>8, <2>9, CallSound
    <2> QED BY <2>10
  <1>17. CASE e.e # "call"
    <2>1. calls' = NextArgument
      BY <1>1, <1>17
    <2>2. ASSUME e.e = "name"
          PROVE  /\ e.b \in Bindings /\ e.b \in ScopeOf(stack) /\ e.b \notin judged.moved
                 /\ e.b \in passed.moved /\ e.b \in passed.touched
                 /\ mem'[e.b] = 0 /\ \A c \in Bindings \ {e.b} : mem'[c] = mem[c]
                 /\ faults' \subseteq faults \cup {"moved", "twice"}
                 /\ mem[e.b] # 0 => faults' \subseteq faults \cup {"twice"}
      <3>1. passed = Walk(e, judged, TRUE)
        BY <1>8, <2>2 DEF Borrows
      <3>2. /\ e.b \in Bindings /\ e.b \notin judged.moved
            /\ e.b \in passed.moved /\ e.b \in passed.touched
        BY <1>7, <1>14, <2>2, <3>1, UseFacts
      <3> DEFINE m == Drop(TakeLocal(Machine, e.b), mem[e.b])
      <3>3. mem' = m.mem /\ faults' = m.faults
        BY <1>1, <2>2 DEF Apply
      <3>4. /\ m.mem[e.b] = 0 /\ \A c \in Bindings \ {e.b} : m.mem[c] = mem[c]
            /\ m.faults \subseteq faults \cup {"moved", "twice"}
            /\ mem[e.b] # 0 => m.faults \subseteq faults \cup {"twice"}
        BY <3>2, TakeEffect
      <3> HIDE DEF m
      <3> QED BY <1>1, <2>2, <3>2, <3>3, <3>4
    <2>3. e.e # "name" => mem' = mem /\ faults' = faults
      BY <1>1 DEF Apply, Machine
    <2>4. "alias" \notin faults'
      BY <1>2, <2>2, <2>3 DEF Witness
    <2>5. CallStep(src, at, cat2, bor2, con2)
      BY <1>1, <1>2, <1>13, <2>1, <2>4 DEF CallStep, Witness
    <2>6. judged.moved \subseteq passed.moved
      BY <1>7 DEF Walked
    <2>7. ASSUME Covers(src, at, cat, bor, con)
          PROVE  Lasts(src, at, cat2, bor2, con2)
      <3>1. /\ faults' \cap {"moved", "freed"} = {}
            /\ \A b \in ScopeOf(stack) : mem'[b] = mem[b] \/ b \in fin.touched
            /\ \A b \in ScopeOf(stack) : mem'[b] = 0 => b \in passed.moved
        <4>1. CASE e.e = "name"
          <5>1. mem[e.b] # 0
            BY <1>15, <2>2, <2>7, <4>1
          <5>2. faults' \subseteq faults \cup {"twice"}
            BY <2>2, <4>1, <5>1
          <5>3. ASSUME NEW b \in ScopeOf(stack)
                PROVE  /\ mem'[b] = mem[b] \/ b \in fin.touched
                       /\ mem'[b] = 0 => b \in passed.moved
            <6>1. CASE b = e.b
              BY <1>15, <2>2, <2>7, <4>1, <6>1
            <6>2. CASE b # e.b
              BY <1>4, <1>15, <2>2, <2>6, <2>7, <4>1, <6>2
            <6> QED BY <6>1, <6>2
          <5> QED BY <1>15, <2>7, <5>2, <5>3
        <4>2. CASE e.e # "name"
          BY <1>15, <2>3, <2>6, <2>7, <4>2
        <4> QED BY <4>1, <4>2
      <3> QED BY <1>13, <1>15, <2>1, <2>7, <3>1 DEF Lasts, w, fin
    <2>8. Sound(src, at, cat2, bor2, con2)'
      BY <2>5, <2>7, CallSound
    <2> QED BY <2>8
  <1> QED BY <1>16, <1>17

\* The innermost call returns.
LEMMA ReturnCalls ==
  ASSUME NEW seq, NEW cat, NEW bor, NEW con, NEW after, NEW fin,
         Lowering(seq, cat, bor, con), seq # <<>>
  PROVE  /\ Lowering(Tail(seq), cat, bor, con)
         /\ Len(seq) \in Nat \ {0} /\ Len(Tail(seq)) = Len(seq) - 1
         /\ Walking(seq, cat, bor, con, after, fin) => Walking(Tail(seq), cat, bor, con, after, fin)
              \/ Tail(seq) = <<>>
  <1> DEFINE rest == Tail(seq)
             k == Len(seq)
  <1>1. /\ k \in Nat \ {0} /\ Len(rest) = k - 1 /\ rest \in Seq(CallFrames)
        /\ \A c \in 1 .. k - 1 : Nth(rest, c) = Nth(seq, c)
    BY NthTail DEF Lowering
  <1> HIDE DEF rest, k
  <1>2. \A c \in 1 .. k - 1 : c \in 1 .. k /\ Rest(rest, cat, bor, con, c) = Rest(seq, cat, bor, con, c)
    BY <1>1 DEF Rest
  <1>3. Lowering(rest, cat, bor, con)
    BY <1>1, <1>2 DEF Lowering, k
  <1>4. ASSUME Walking(seq, cat, bor, con, after, fin), rest # <<>>
        PROVE  Walking(rest, cat, bor, con, after, fin)
    <2>1. 1 \in 1 .. k - 1 /\ \A c \in 2 .. k - 1 : c \in 2 .. k /\ c \in 1 .. k - 1
      BY <1>1, <1>4
    <2>2. Leading(rest, cat, bor, con, after)
      BY <1>1, <1>2, <1>4, <2>1 DEF Walking, Leading, k
    <2>3. NotedAll(rest, cat, bor)
      BY <1>1, <1>2, <1>4 DEF Walking, NotedAll, k
    <2> QED BY <1>1, <1>2, <1>4, <2>2, <2>3 DEF Walking, k
  <1> QED BY <1>1, <1>3, <1>4 DEF rest, k

\* A callee that moves the storage of a borrowed binding.
LEMMA RegrowEffect ==
  ASSUME NEW m, NEW temps, NEW scope, Good(m, temps, scope, 0), FramesOK(stack),
         NEW b \in Bindings
  PROVE  /\ Regrow(m, b).mem[b] # 0 /\ \A c \in Bindings \ {b} : Regrow(m, b).mem[c] = m.mem[c]
         /\ Regrow(m, b).faults \subseteq m.faults \cup {"twice"}
  <1> DEFINE freed == Drop(m, m.mem[b])
             id == Alloc(m)
  <1>1. id \in Nat \ {0}
    BY PinnedFinite, AllocFresh DEF Good
  <1>2. m \in Machines
    BY DEF Good
  <1>3. freed.mem = m.mem /\ freed.faults \subseteq m.faults \cup {"twice"}
    BY <1>2, DropEffect
  <1>4. m.mem \in [Bindings -> Nat] /\ {"mem", "live", "faults"} \subseteq DOMAIN freed
    BY <1>2 DEF Machines, Drop, Fault
  <1>5. Regrow(m, b) = [freed EXCEPT !.live = @ \cup {id}, !.mem[b] = id]
    BY DEF Regrow
  <1> HIDE DEF freed, id
  <1>6. /\ Regrow(m, b).mem = [freed.mem EXCEPT ![b] = id]
        /\ Regrow(m, b).faults = freed.faults
    BY <1>4, <1>5
  <1> QED BY <1>1, <1>3, <1>4, <1>6

\* A call of which nothing is reported gets no binding twice.
LEMMA NotShared ==
  ASSUME Grammar, Procedures, NEW args \in Lists, NEW st \in States,
         WalkArgs(args, st, {}, {}).diags = {}, NEW i \in DOMAIN args, NEW j \in DOMAIN args,
         i # j, Both(args[i], args[j])
  PROVE  args[i].e = "ref" /\ args[j].e = "ref"
  <1>1. {} \in Borrowings /\ {} \in SUBSET Bindings
    BY DEF Borrowings
  <1> QED BY <1>1, ListClear DEF ClearList

LEMMA RunSound ==
  ASSUME Grammar, Procedures, Inv, NEW src, NEW at, NEW cat, NEW bor, NEW con,
         Sound(src, at, cat, bor, con), RunCall, gap' = gap
  PROVE  \E cat2, bor2, con2 : Sound(src, at, cat2, bor2, con2)'
  <1> DEFINE n == Len(stack)
             k == Len(calls)
             args == Head(calls).args
             refs == {i \in DOMAIN args : Borrows(args[i])}
             shared == \E i \in refs, j \in DOMAIN args :
                         /\ i # j /\ args[j].e \in {"name", "ref", "mutref"}
                         /\ args[i].b = args[j].b
                         /\ ~(args[i].e = "ref" /\ args[j].e = "ref")
             zeroed == \E i \in refs : mem[args[i].b] = 0
             seen == Fault(Fault(Machine, zeroed, "moved"), shared, "alias")
             w == After(Stmt, at[n])
             fin == Fin(src, at, n)
  <1>1. /\ calls # <<>> /\ Head(calls).todo = <<>> /\ stack' = stack
        /\ \A i \in refs : args[i].b \in ScopeOf(stack)
        /\ Apply(seen) \/ \E i \in refs : args[i].e = "mutref" /\ Apply(Regrow(seen, args[i].b))
        /\ calls' = Tail(calls) /\ called' = (k = 1)
    BY DEF RunCall
  <1>2. Shape(stack, src, at) /\ Witness(src, at, cat, bor, con) /\ HasCall /\ ~called
    BY <1>1 DEF Sound, Witness
  <1>3. /\ stack # <<>> /\ Stmt = Head(src[n])
    BY <1>2, HereCall
  <1>4. /\ ScopeOf(stack) \subseteq Bindings /\ FramesOK(stack)
        /\ Good(Machine, TempsOf(stack), ScopeOf(stack), 0)
    BY <1>3, Running
  <1>5. Lowering(calls, cat, bor, con)
    BY DEF Sound, Witness
  <1>6. /\ k \in Nat \ {0} /\ Nth(calls, k) = Head(calls) /\ Head(calls).todo \in Lists /\ args \in Lists
        /\ cat[k] \in States /\ bor[k] \in Borrowings /\ con[k] \in SUBSET Bindings
        /\ Rest(calls, cat, bor, con, k) = WalkArgs(Head(calls).todo, cat[k], bor[k], con[k])
    BY <1>1, <1>5, CallFacts
  <1>7. /\ Lowering(calls', cat, bor, con) /\ Len(calls') = k - 1
        /\ Walking(calls, cat, bor, con, w, fin) =>
             Walking(calls', cat, bor, con, w, fin) \/ calls' = <<>>
    BY <1>1, <1>5, ReturnCalls
  <1>8. ~shared
    <2>1. k \in 1 .. k
      BY <1>6
    <2>2. PICK st \in States : WalkArgs(args, st, {}, {}).diags = {}
      BY <1>5, <1>6, <2>1 DEF Lowering
    <2> HIDE DEF args
    <2> SUFFICES ASSUME NEW i \in refs, NEW j \in DOMAIN args,
                        i # j, args[j].e \in {"name", "ref", "mutref"},
                        args[i].b = args[j].b, ~(args[i].e = "ref" /\ args[j].e = "ref")
                 PROVE  FALSE
      OBVIOUS
    <2>3. Both(args[i], args[j])
      BY DEF Both
    <2> QED BY <1>6, <2>2, <2>3, NotShared
  <1>9. /\ Good(seen, TempsOf(stack), ScopeOf(stack), 0)
        /\ seen.mem = mem /\ seen.faults \subseteq faults \cup {"moved"}
        /\ ~zeroed => seen.faults = faults
    <2> HIDE DEF zeroed, shared
    <2>1. Good(seen, TempsOf(stack), ScopeOf(stack), 0)
      BY <1>4, FaultGood
    <2>2. seen = Fault(Machine, zeroed, "moved")
      BY <1>8 DEF Fault
    <2> QED BY <2>1, <2>2 DEF Fault, Machine
  <1> HIDE DEF k, args, w, fin, shared, seen
  \* What the call does to the machine.
  <1>10. /\ faults' \subseteq faults \cup {"moved", "twice"}
         /\ ~zeroed => faults' \subseteq faults \cup {"twice"}
         /\ \A b \in Bindings :
              \/ mem'[b] = mem[b]
              \/ mem'[b] # 0 /\ \E i \in refs : args[i].e = "mutref" /\ args[i].b = b
    <2> HIDE DEF zeroed
    <2>1. CASE Apply(seen)
      BY <1>9, <2>1 DEF Apply
    <2>2. CASE \E i \in refs : args[i].e = "mutref" /\ Apply(Regrow(seen, args[i].b))
      <3>1. PICK i \in refs : args[i].e = "mutref" /\ Apply(Regrow(seen, args[i].b))
        BY <2>2
      <3> DEFINE b == args[i].b
                 m == Regrow(seen, b)
      <3>2. b \in Bindings /\ mem' = m.mem /\ faults' = m.faults
        BY <1>1, <1>4, <3>1 DEF Apply
      <3> HIDE DEF b
      <3>3. /\ m.mem[b] # 0 /\ \A c \in Bindings \ {b} : m.mem[c] = seen.mem[c]
            /\ m.faults \subseteq seen.faults \cup {"twice"}
        BY <1>4, <1>9, <3>2, RegrowEffect
      <3> HIDE DEF m
      <3>4. args[i].b = b
        BY DEF b
      <3> QED BY <1>9, <3>1, <3>2, <3>3, <3>4
    <2> QED BY <1>1, <2>1, <2>2
  <1>11. "alias" \notin faults'
    BY <1>2, <1>10 DEF Witness
  <1>12. CallStep(src, at, cat, bor, con)
    <2>1. calls' # <<>> => k # 1
      <3>1. Len(calls') = 0 => calls' = <<>>
        BY <1>7 DEF Lowering
      <3> QED BY <1>7, <3>1
    <2> QED BY <1>1, <1>2, <1>7, <1>11, <2>1 DEF CallStep
  <1>13. ASSUME Covers(src, at, cat, bor, con)
         PROVE  Lasts(src, at, cat, bor, con)
    <2>1. Walking(calls, cat, bor, con, w, fin)
      BY <1>1, <1>3, <1>13 DEF Covers, w, fin
    <2>2. k \in 1 .. k /\ Len(calls) = k /\ Len(calls) \in 1 .. Len(calls)
      BY <1>6 DEF k
    <2> DEFINE r == Rest(calls, cat, bor, con, k)
    <2>3. ~r.gap /\ r.touched \subseteq fin.touched
      BY <2>1, <2>2 DEF Walking
    <2>4. r = WalkArgs(Head(calls).todo, cat[k], bor[k], con[k])
      BY <1>6
    <2> HIDE DEF r
    <2>5. r.moved = cat[k].moved /\ \A p \in bor[k] : p[1] \notin cat[k].moved
      BY <1>1, <1>6, <2>3, <2>4, EndFacts
    <2>6. cat[k].touched \subseteq r.touched
      BY <1>6, <2>4, ListRegular DEF RegularList, Walked, Grows
    <2>7. ASSUME NEW i \in refs
          PROVE  /\ args[i].b \notin cat[k].moved
                 /\ args[i].e = "mutref" => args[i].b \in fin.touched
      <3>1. Noted(args[i], <<>>, bor[k], cat[k])
        BY <1>1, <1>6, <2>1, <2>2 DEF Walking, NotedAll, args
      <3>2. <<args[i].b, args[i].e>> \in bor[k] /\ (args[i].e = "mutref" => args[i].b \in cat[k].touched)
        BY <3>1 DEF Noted
      <3> QED BY <2>3, <2>5, <2>6, <3>2
    <2>8. \A b \in ScopeOf(stack) : mem[b] = 0 => b \in cat[k].moved
      <3>1. Reached(src, at, cat) = cat[k].moved
        BY <1>1 DEF Reached, k
      <3> QED BY <1>13, <3>1 DEF Covers
    <2>9. ~zeroed
      BY <1>1, <2>7, <2>8
    <2>10. faults' \cap {"moved", "freed"} = {}
      BY <1>10, <1>13, <2>9 DEF Covers
    <2>11. ASSUME NEW b \in ScopeOf(stack)
           PROVE  /\ mem'[b] = mem[b] \/ b \in fin.touched
                  /\ mem'[b] = 0 => b \in r.moved
      <3>1. \/ mem'[b] = mem[b]
            \/ mem'[b] # 0 /\ \E i \in refs : args[i].e = "mutref" /\ args[i].b = b
        BY <1>4, <1>10
      <3> HIDE DEF refs
      <3> QED BY <2>5, <2>7, <2>8, <3>1
    <2>12. CASE k = 1
      <3>1. r = w
        BY <2>1, <2>12 DEF Walking, Leading, r
      <3>2. calls' = <<>>
        BY <1>7, <2>12 DEF Lowering
      <3> QED BY <1>1, <2>10, <2>11, <2>12, <3>1, <3>2 DEF Lasts, w, fin
    <2>13. CASE k # 1
      <3>1. k \in 2 .. k
        BY <1>6, <2>13
      <3>2. r = cat[k - 1]
        BY <2>1, <2>2, <3>1 DEF Walking, Leading, r
      <3>3. calls' # <<>>
        BY <1>6, <1>7, <2>13
      <3>4. Walking(calls', cat, bor, con, w, fin)
        BY <1>7, <2>1, <3>3
      <3>5. \A b \in ScopeOf(stack) : mem'[b] = 0 => b \in cat[Len(calls')].moved
        BY <1>7, <2>11, <3>2
      <3> QED BY <2>10, <2>11, <3>3, <3>4, <3>5 DEF Lasts, w, fin
    <2> QED BY <2>12, <2>13
  <1>14. Sound(src, at, cat, bor, con)'
    BY <1>12, <1>13, CallSound
  <1> QED BY <1>14

-----------------------------------------------------------------------------
(* The specification *)

\* Every step of an accepted body keeps to what the analysis said.
LEMMA NextSound ==
  ASSUME Grammar, Procedures, Inv, NEW src, NEW at, NEW cat, NEW bor, NEW con,
         Sound(src, at, cat, bor, con), Next, gap' = gap
  PROVE  \E src2, at2, cat2, bor2, con2 : Sound(src2, at2, cat2, bor2, con2)'
  <1>1. CASE BeginCall
    <2>1. \E cat2, bor2, con2 : Sound(src, at, cat2, bor2, con2)'
      BY <1>1, BeginSound
    <2> QED BY <2>1
  <1>2. CASE PassArgument
    <2>1. \E cat2, bor2, con2 : Sound(src, at, cat2, bor2, con2)'
      BY <1>2, PassSound
    <2> QED BY <2>1
  <1>3. CASE RunCall
    <2>1. \E cat2, bor2, con2 : Sound(src, at, cat2, bor2, con2)'
      BY <1>3, RunSound
    <2> QED BY <2>1
  <1>4. ASSUME \E src2, at2 : Sound(src2, at2, cat, bor, con)'
        PROVE  \E src2, at2, cat2, bor2, con2 : Sound(src2, at2, cat2, bor2, con2)'
    BY <1>4
  <1>5. CASE ExprStep
    BY <1>4, <1>5, ExprSound
  <1>6. CASE LetStep
    BY <1>4, <1>6, LetSound
  <1>7. CASE AssignStep
    BY <1>4, <1>7, AssignSound
  <1>8. CASE IfStep
    BY <1>4, <1>8, IfSound
  <1>9. CASE WhileStep
    BY <1>4, <1>9, WhileSound
  <1>10. CASE ForStep
    BY <1>4, <1>10, ForSound
  <1>11. CASE EachStep
    BY <1>4, <1>11, EachSound
  <1>12. CASE MatchStep
    BY <1>4, <1>12, MatchSound
  <1>13. CASE LetElseStep
    BY <1>4, <1>13, LetElseSound
  <1>14. CASE ReturnStep \/ PropagateStep
    BY <1>4, <1>14, ReturnSound
  <1>15. CASE JumpStep
    BY <1>4, <1>15, JumpSound
  <1>16. CASE EndBlock
    BY <1>4, <1>16, EndSound
  <1> QED BY <1>1, <1>2, <1>3, <1>5, <1>6, <1>7, <1>8, <1>9, <1>10, <1>11, <1>12, <1>13,
             <1>14, <1>15, <1>16 DEF Next

\* A body that has not been analysed has not run.
Waiting ==
  /\ body \in Blocks /\ stack = <<Frame("root", body, Params, 0)>>
  /\ calls = <<>> /\ called = FALSE /\ faults = {}
  /\ \A b \in Params : mem[b] # 0

CheckedInv ==
  /\ Inv
  /\ verdict = "unchecked" => Waiting
  /\ verdict = "accepted" => \E src, at, cat, bor, con : Sound(src, at, cat, bor, con)

LEMMA CheckedInitInv ==
  ASSUME CheckedInit
  PROVE  CheckedInv
  <1>1. Init /\ verdict = "unchecked"
    BY DEF CheckedInit
  <1>2. Inv
    BY <1>1, InitInv
  <1>3. \A b \in Bindings : mem[b] = 0 <=> b \notin Params
    BY <1>1, ParamsNumbered DEF Init
  <1>4. Waiting
    BY <1>1, <1>3, BindingsFinite, ProgramsParsed DEF Init, Waiting
  <1> QED BY <1>1, <1>2, <1>4 DEF CheckedInv

\* The analysis of a body that it accepts covers its first state.
LEMMA AcceptSound ==
  ASSUME Grammar, Procedures, Waiting, UNCHANGED vars, NEW end,
         end = CheckBlock(body, Start({})), end.diags = {}, gap' = end.gap
  PROVE  \E src, at, cat, bor, con : Sound(src, at, cat, bor, con)'
  <1> DEFINE start == Start({})
             top == Frame("root", body, Params, 0)
  <1>1. start \in States /\ start.moved = {}
    BY StartTyped
  <1>2. PICK src : src = [i \in Nat |-> body]
    OBVIOUS
  <1>3. PICK at : at = [i \in Nat |-> start]
    OBVIOUS
  <1>4. PICK bor : bor = [i \in Nat |-> {}]
    OBVIOUS
  <1>5. /\ body \in Blocks /\ stack = <<top>> /\ stack' = stack /\ body' = body
        /\ calls = <<>> /\ calls' = calls /\ called' = FALSE /\ faults' = {} /\ mem' = mem
        /\ \A b \in Params : mem[b] # 0
    BY DEF Waiting, vars
  <1>6. top.todo = body /\ top.kind = "root" /\ top.scope = Params
    BY DEF Frame
  <1> HIDE DEF start, top
  <1>7. /\ Len(stack') = 1 /\ Nth(stack', 1) = top /\ stack' \in Seq({top})
        /\ \A d \in 1 .. 1 : d = 1
        /\ \A d \in 2 .. 1 : FALSE
    BY <1>5 DEF Nth
  <1>8. /\ src \in [Nat -> Blocks] /\ at \in [Nat -> States]
        /\ src[1] = body /\ at[1] = start
    BY <1>1, <1>2, <1>3, <1>5
  <1>9. Fin(src, at, 1) = end
    BY <1>8 DEF Fin, start
  <1>10. Shape(stack', src, at)
    BY <1>6, <1>7, <1>8, <1>9 DEF Shape, Follows
  <1>11. Lowering(calls', at, bor, bor)
    <2>1. bor \in [Nat -> Borrowings] /\ bor \in [Nat -> SUBSET Bindings]
      BY <1>4 DEF Borrowings
    <2> QED BY <1>5, <1>8, <2>1 DEF Lowering
  <1>12. Witness(src, at, at, bor, bor)'
    BY <1>5, <1>10, <1>11 DEF Witness
  <1>13. ASSUME ~gap'
         PROVE  Covers(src, at, at, bor, bor)'
    <2>1. Links(stack', src, at) /\ Touches(stack', src, at) /\ Apart(stack')
      BY <1>7 DEF Links, Touches, Apart
    <2>2. Escapes(stack', src, at)
      <3> SUFFICES ASSUME NEW c \in 1 .. 1, NEW d \in 1 .. 1
                   PROVE  Fin(src, at, d).jumped \subseteq Fin(src, at, c).jumped
        BY <1>7 DEF Escapes
      <3> QED BY <1>7
    <2>3. Chain(stack', src, at)
      BY <1>7, <1>9, <1>13, <2>1, <2>2 DEF Chain
    <2>4. Pins(stack', src, mem')
      BY <1>6, <1>7, <1>8 DEF Pins, Pinning
    <2>5. \A b \in ScopeOf(stack') : mem'[b] # 0
      <3>1. ASSUME NEW b \in ScopeOf(stack')
            PROVE  b \in Params
        BY <1>6, <1>7, <3>1, ScopeNth
      <3> QED BY <1>5, <3>1
    <2> QED BY <1>5, <2>3, <2>4, <2>5 DEF Covers
  <1> QED BY <1>12, <1>13 DEF Sound

LEMMA CheckedNextInv ==
  ASSUME Grammar, Procedures, CheckedInv, [CheckedNext]_checkedVars
  PROVE  CheckedInv'
  <1>1. CASE Check
    <2> DEFINE end == CheckBlock(body, Start({}))
    <2>1. /\ Waiting /\ verdict' = IF end.diags = {} THEN "accepted" ELSE "rejected"
          /\ gap' = end.gap /\ UNCHANGED vars
      BY <1>1 DEF Check, CheckedInv
    <2>2. Inv'
      BY <2>1, NextInv DEF CheckedInv
    <2> HIDE DEF end
    <2>3. CASE end.diags = {}
      <3>1. \E src, at, cat, bor, con : Sound(src, at, cat, bor, con)'
        BY <2>1, <2>3, AcceptSound DEF end
      <3> QED BY <2>1, <2>2, <2>3, <3>1 DEF CheckedInv
    <2>4. CASE end.diags # {}
      BY <2>1, <2>2, <2>4 DEF CheckedInv
    <2> QED BY <2>3, <2>4
  <1>2. CASE Run
    <2>1. verdict = "accepted" /\ verdict' = verdict /\ gap' = gap /\ Next
      BY <1>2 DEF Run
    <2>2. Inv /\ Inv'
      BY <2>1, NextInv DEF CheckedInv
    <2>3. PICK src, at, cat, bor, con : Sound(src, at, cat, bor, con)
      BY <2>1 DEF CheckedInv
    <2>4. \E src2, at2, cat2, bor2, con2 : Sound(src2, at2, cat2, bor2, con2)'
      BY <2>1, <2>2, <2>3, NextSound
    <2> QED BY <2>1, <2>2, <2>4 DEF CheckedInv
  <1>3. CASE UNCHANGED checkedVars
    <2>1. UNCHANGED vars /\ verdict' = verdict /\ gap' = gap
      BY <1>3 DEF checkedVars
    <2>2. Inv'
      BY <2>1, NextInv DEF CheckedInv
    <2>3. ASSUME NEW src, NEW at, NEW cat, NEW bor, NEW con, Sound(src, at, cat, bor, con)
          PROVE  Sound(src, at, cat, bor, con)'
      <3>1. /\ stack' = stack /\ calls' = calls /\ called' = called /\ mem' = mem
            /\ faults' = faults
        BY <2>1 DEF vars
      <3>2. HasCall' = HasCall /\ Reached(src, at, cat)' = Reached(src, at, cat)
        BY <3>1 DEF HasCall, Stmt, Reached
      <3> QED BY <2>1, <2>3, <3>1, <3>2 DEF Sound, Witness, Covers
    <2>4. Waiting => Waiting'
      BY <2>1 DEF Waiting, vars
    <2> QED BY <2>1, <2>2, <2>3, <2>4 DEF CheckedInv
  <1> QED BY <1>1, <1>2, <1>3 DEF CheckedNext, Finished

\* The emitted C of an accepted body never uses a binding that has been moved
\* out of, and a for loop never reads storage that is gone, whatever the body,
\* as long as the analysis met none of the three patterns it ignores.
THEOREM AcceptedLive ==
  ASSUME Procedures
  PROVE  CheckedSpec => []ReadsOnlyLive
  <1>1. CheckedInit => CheckedInv
    BY CheckedInitInv
  <1>2. CheckedInv /\ [CheckedNext]_checkedVars => CheckedInv'
    BY ParsedGrammar, CheckedNextInv
  <1>3. CheckedInv => ReadsOnlyLive
    BY DEF CheckedInv, ReadsOnlyLive, Sound, Covers
  <1> QED BY <1>1, <1>2, <1>3, PTL DEF CheckedSpec

\* No call of an accepted body gets a binding twice, one time of them mutably
\* or by value, whatever the body: walk_expr judges each argument against all
\* those before it.
THEOREM AcceptedExclusive ==
  ASSUME Procedures
  PROVE  CheckedSpec => []CallsExclusive
  <1>1. CheckedInit => CheckedInv
    BY CheckedInitInv
  <1>2. CheckedInv /\ [CheckedNext]_checkedVars => CheckedInv'
    BY ParsedGrammar, CheckedNextInv
  <1>3. CheckedInv => CallsExclusive
    BY DEF CheckedInv, CallsExclusive, Sound, Witness
  <1> QED BY <1>1, <1>2, <1>3, PTL DEF CheckedSpec

\* Check only decides whether the body runs: what does run is the emitted C,
\* so that a body drops every value once behind the check too.
THEOREM CheckedOwned == CheckedSpec => []OwnedOnce
  <1>1. CheckedInit => Init
    BY DEF CheckedInit
  <1>2. [CheckedNext]_checkedVars => [Next]_vars
    BY DEF CheckedNext, Check, Run, Finished, checkedVars
  <1>3. CheckedSpec => Spec
    BY <1>1, <1>2, PTL DEF CheckedSpec, Spec
  <1> QED BY <1>3, OwnedSafety, PTL

=============================================================================
