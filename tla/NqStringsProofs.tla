-------------------------- MODULE NqStringsProofs --------------------------
(***************************************************************************)
(* Proofs about NqStrings, for any number of owners, variables, lists and  *)
(* errors, any sequence limit and any width of the reference count.        *)
(***************************************************************************)
EXTENDS NqStrings, FiniteSetTheorems, TLAPS

USE OwnerAssumption, BoundsAssumption

(***************************************************************************)
(* Counting holders                                                        *)
(***************************************************************************)

LEMMA Triples ==
  ASSUME NEW tag, NEW S, NEW T, IsFiniteSet(S), IsFiniteSet(T)
  PROVE  IsFiniteSet({tag} \X S \X T)
  <1> DEFINE f == [x \in S \X T |-> <<tag, x[1], x[2]>>]
  <1>1. IsFiniteSet(S \X T)
    BY FS_Product
  <1>2. f \in Surjection(S \X T, {tag} \X S \X T)
    <2>1. f \in [S \X T -> {tag} \X S \X T]
      OBVIOUS
    <2>2. \A t \in {tag} \X S \X T : \E x \in S \X T : f[x] = t
      <3> SUFFICES ASSUME NEW t \in {tag} \X S \X T
                   PROVE  \E x \in S \X T : f[x] = t
        OBVIOUS
      <3>1. <<t[2], t[3]>> \in S \X T
        OBVIOUS
      <3>2. f[<<t[2], t[3]>>] = t
        BY <3>1
      <3> QED BY <3>1, <3>2
    <2> QED BY <2>1, <2>2 DEF Surjection
  <1> QED BY <1>1, <1>2, FS_Surjection

LEMMA PlacesFinite == IsFiniteSet(Places)
  <1>1. IsFiniteSet({0}) /\ IsFiniteSet({<<"name", NoOwner, 0>>})
    BY FS_Singleton
  <1>2. IsFiniteSet(0..Limit - 1) /\ IsFiniteSet(1..NFields)
    BY FS_Interval
  <1>3. IsFiniteSet({"var"} \X Vars \X {0})
    BY <1>1, Triples, FiniteAssumption
  <1>4. IsFiniteSet({"list"} \X Lists \X (0..Limit - 1))
    BY <1>2, Triples, FiniteAssumption
  <1>5. IsFiniteSet({"err"} \X Errs \X (1..NFields))
    BY <1>2, Triples, FiniteAssumption
  <1> QED BY <1>1, <1>3, <1>4, <1>5, FS_Union DEF Places

Typed ==
  /\ ref \in [Owners -> 0..MaxRef]
  /\ hold \in [Places -> Owners \cup {NoOwner}]

Counts == \A o \in Owners : ref[o] = Cardinality(Holders(o))

LEMMA HoldersFinite ==
  \A o : IsFiniteSet(Holders(o)) /\ Cardinality(Holders(o)) \in Nat
  <1> SUFFICES ASSUME NEW o
               PROVE  IsFiniteSet(Holders(o)) /\ Cardinality(Holders(o)) \in Nat
    OBVIOUS
  <1>1. Holders(o) \in SUBSET Places
    BY DEF Holders
  <1> QED BY <1>1, PlacesFinite, FS_Subset, FS_CardinalityType

\* Only the places in P may have changed.
Only(P) == \A q \in Places : q \notin P => hold'[q] = hold[q]

LEMMA TakeCounts ==
  ASSUME Typed, Counts, NEW p \in Places, ~Owned(p), NEW j, Take(p, j)
  PROVE  Typed' /\ Counts' /\ Only({p}) /\ Owned(p)' /\ job' = j
  <1>1. PICK o \in Owners :
          /\ ref[o] = 0
          /\ ref' = [ref EXCEPT ![o] = 1]
          /\ hold' = [hold EXCEPT ![p] = o]
    BY DEF Take
  <1>2. Typed'
    BY <1>1 DEF Typed
  <1>3. Only({p}) /\ hold'[p] = o
    BY <1>1 DEF Only, Typed
  <1>4. Counts'
    <2> SUFFICES ASSUME NEW x \in Owners
                 PROVE  ref'[x] = Cardinality(Holders(x)')
      BY DEF Counts
    <2>1. CASE x = o
      <3>1. Holders(o)' = Holders(o) \cup {p}
        BY <1>3 DEF Holders, Only
      <3>2. p \notin Holders(o)
        BY DEF Holders, Owned
      <3>3. Cardinality(Holders(o)) = 0
        BY <1>1 DEF Counts
      <3>4. Cardinality(Holders(o) \cup {p}) = Cardinality(Holders(o)) + 1
        BY <3>2, HoldersFinite, FS_AddElement
      <3>5. Cardinality(Holders(o)') = 1
        BY <3>1, <3>3, <3>4
      <3> QED BY <1>1, <2>1, <3>5 DEF Typed
    <2>2. CASE x # o
      <3>1. Holders(x)' = Holders(x)
        BY <1>3, <2>2 DEF Holders, Only, Owned
      <3> QED BY <1>1, <2>2, <3>1 DEF Typed, Counts
    <2> QED BY <2>1, <2>2
  <1> QED BY <1>2, <1>3, <1>4 DEF Take, Then, Owned

LEMMA CloneCounts ==
  ASSUME Typed, Counts, NEW p \in Places, NEW q \in Places, ~Owned(q),
         NEW j, Clone(p, q, j)
  PROVE  /\ Typed' /\ Counts' /\ Only({q})
         /\ \/ job' = j /\ (Owned(q)' <=> Owned(p)) /\ hold'[q] = hold[p]
            \/ job' = Exited /\ hold' = hold
  <1>1. CASE ~Owned(p)
    <2>1. hold' = hold /\ ref' = ref /\ job' = j
      BY <1>1 DEF Clone, Then
    <2>2. hold[p] = NoOwner /\ hold[q] = NoOwner
      BY <1>1 DEF Typed, Owned
    <2> QED BY <1>1, <2>1, <2>2 DEF Typed, Counts, Holders, Only, Owned
  <1>2. CASE Owned(p) /\ ref[hold[p]] = MaxRef
    <2>1. hold' = hold /\ ref' = ref /\ job' = Exited
      BY <1>2 DEF Clone, Then
    <2> QED BY <2>1 DEF Typed, Counts, Holders, Only
  <1>3. CASE Owned(p) /\ ref[hold[p]] # MaxRef
    <2>0. PICK o \in Owners : o = hold[p]
      BY <1>3 DEF Owned
    <2>1. /\ ref' = [ref EXCEPT ![o] = @ + 1]
          /\ hold' = [hold EXCEPT ![q] = o]
          /\ job' = j /\ ref[o] < MaxRef /\ o \in Owners
      BY <1>3, <2>0 DEF Clone, Then, Owned
    <2>2. ref[o] + 1 \in 0..MaxRef /\ ref[o] \in Nat
      BY <2>1 DEF Typed
    <2>3. Typed' /\ ref'[o] = ref[o] + 1
      BY <2>1, <2>2 DEF Typed
    <2>4. Only({q}) /\ hold'[q] = o
      BY <2>1 DEF Only, Typed
    <2>5. Counts'
      <3> SUFFICES ASSUME NEW x \in Owners
                   PROVE  ref'[x] = Cardinality(Holders(x)')
        BY DEF Counts
      <3>1. CASE x = o
        <4>1. Holders(o)' = Holders(o) \cup {q}
          BY <2>4 DEF Holders, Only
        <4>2. q \notin Holders(o)
          BY <2>1 DEF Holders, Owned
        <4>3. Cardinality(Holders(o)') = Cardinality(Holders(o)) + 1
          BY <4>1, <4>2, HoldersFinite, FS_AddElement
        <4> QED BY <2>1, <2>3, <3>1, <4>3 DEF Counts
      <3>2. CASE x # o
        <4>1. Holders(x)' = Holders(x)
          BY <2>4, <3>2 DEF Holders, Only, Owned
        <4> QED BY <2>1, <3>2, <4>1 DEF Typed, Counts
      <3> QED BY <3>1, <3>2
    <2> QED BY <1>3, <2>0, <2>1, <2>3, <2>4, <2>5 DEF Owned
  <1> QED BY <1>1, <1>2, <1>3

\* A held owner has a positive count, so no drop aborts.
LEMMA HeldCounted ==
  ASSUME Typed, Counts, NEW p \in Places, Owned(p)
  PROVE  ref[hold[p]] > 0
  <1>1. hold[p] \in Owners /\ p \in Holders(hold[p])
    BY DEF Owned, Holders
  <1>2. Cardinality(Holders(hold[p])) # 0
    BY <1>1, HoldersFinite, FS_EmptySet
  <1> QED BY <1>1, <1>2, HoldersFinite DEF Counts, Typed

LEMMA ReleaseCounts ==
  ASSUME Typed, Counts, NEW p \in Places, NEW j, Release(p, j)
  PROVE  Typed' /\ Counts' /\ Only({p}) /\ ~Owned(p)' /\ job' = j
  <1>1. CASE ~Owned(p)
    <2>1. hold' = hold /\ ref' = ref /\ job' = j
      BY <1>1 DEF Release, Then
    <2> QED BY <1>1, <2>1 DEF Typed, Counts, Holders, Only, Owned
  <1>2. CASE Owned(p)
    <2>0. PICK o \in Owners : o = hold[p]
      BY <1>2 DEF Owned
    <2>1. /\ ref' = [ref EXCEPT ![o] = @ - 1]
          /\ hold' = [hold EXCEPT ![p] = NoOwner]
          /\ job' = j /\ ref[o] > 0 /\ o \in Owners
      BY <1>2, <2>0, HeldCounted DEF Release, Then, Owned
    <2>2. ref[o] - 1 \in 0..MaxRef /\ ref[o] \in Nat
      BY <2>1 DEF Typed
    <2>3. Typed' /\ ref'[o] = ref[o] - 1
      BY <2>1, <2>2 DEF Typed
    <2>4. Only({p}) /\ hold'[p] = NoOwner
      BY <2>1 DEF Only, Typed
    <2>5. Counts'
      <3> SUFFICES ASSUME NEW x \in Owners
                   PROVE  ref'[x] = Cardinality(Holders(x)')
        BY DEF Counts
      <3>1. CASE x = o
        <4>1. Holders(o)' = Holders(o) \ {p}
          BY <2>1, <2>4 DEF Holders, Only
        <4>2. p \in Holders(o)
          BY <2>0 DEF Holders
        <4>3. Cardinality(Holders(o)') = Cardinality(Holders(o)) - 1
          BY <4>1, <4>2, HoldersFinite, FS_RemoveElement
        <4> QED BY <2>1, <2>3, <3>1, <4>3 DEF Counts
      <3>2. CASE x # o
        <4>1. Holders(x)' = Holders(x)
          BY <2>0, <2>4, <3>2 DEF Holders, Only
        <4> QED BY <2>1, <3>2, <4>1 DEF Typed, Counts
      <3> QED BY <3>1, <3>2
    <2> QED BY <2>1, <2>3, <2>4, <2>5 DEF Owned
  <1> QED BY <1>1, <1>2

\* Exchanging the strings of two places keeps every count; a move is such an
\* exchange with a place that owns nothing.
LEMMA SwapCounts ==
  ASSUME Typed, Counts, NEW p \in Places, NEW q \in Places, p # q,
         hold' = [hold EXCEPT ![p] = hold[q], ![q] = hold[p]], ref' = ref
  PROVE  Typed' /\ Counts' /\ Only({p, q})
           /\ hold'[p] = hold[q] /\ hold'[q] = hold[p]
  <1>1. Typed'
    BY DEF Typed
  <1>2. Only({p, q}) /\ hold'[p] = hold[q] /\ hold'[q] = hold[p]
    BY DEF Only, Typed
  <1>3. Counts'
    <2> SUFFICES ASSUME NEW o \in Owners
                 PROVE  Cardinality(Holders(o)') = Cardinality(Holders(o))
      BY DEF Counts
    <2> DEFINE H == Holders(o)
    <2>1. IsFiniteSet(H) /\ Cardinality(H) \in Nat
      BY HoldersFinite
    <2>2. CASE p \in H /\ q \notin H
      <3>1. Holders(o)' = (H \ {p}) \cup {q}
        BY <1>2, <2>2 DEF Holders, Only
      <3>2. IsFiniteSet(H \ {p}) /\ Cardinality(H \ {p}) = Cardinality(H) - 1
        BY <2>1, <2>2, FS_RemoveElement
      <3>3. Cardinality((H \ {p}) \cup {q}) = Cardinality(H \ {p}) + 1
        BY <2>2, <3>2, FS_AddElement
      <3> QED BY <2>1, <3>1, <3>2, <3>3
    <2>3. CASE q \in H /\ p \notin H
      <3>1. Holders(o)' = (H \ {q}) \cup {p}
        BY <1>2, <2>3 DEF Holders, Only
      <3>2. IsFiniteSet(H \ {q}) /\ Cardinality(H \ {q}) = Cardinality(H) - 1
        BY <2>1, <2>3, FS_RemoveElement
      <3>3. Cardinality((H \ {q}) \cup {p}) = Cardinality(H \ {q}) + 1
        BY <2>3, <3>2, FS_AddElement
      <3> QED BY <2>1, <3>1, <3>2, <3>3
    <2>4. CASE p \in H <=> q \in H
      <3>1. Holders(o)' = H
        BY <1>2, <2>4 DEF Holders, Only
      <3> QED BY <3>1
    <2> QED BY <2>2, <2>3, <2>4
  <1> QED BY <1>1, <1>2, <1>3

LEMMA MoveCounts ==
  ASSUME Typed, Counts, NEW p \in Places, NEW q \in Places, p # q, ~Owned(q),
         Move(p, q)
  PROVE  Typed' /\ Counts' /\ Only({p, q})
           /\ hold'[q] = hold[p] /\ ~Owned(p)'
  <1>1. hold[q] = NoOwner
    BY DEF Typed, Owned
  <1>2. hold' = [hold EXCEPT ![p] = hold[q], ![q] = hold[p]] /\ ref' = ref
    BY <1>1 DEF Move, Typed
  <1> QED BY <1>1, <1>2, SwapCounts DEF Owned

(***************************************************************************)
(* The inductive invariant                                                 *)
(***************************************************************************)

ListOps == {"from_array", "drop_list", "read_dir", "push_name", "drop_name"}
ErrOps == {"make_err", "drop_err", "clone_err"}

\* What the loop variables are in each function.
JobInv ==
  /\ job # Aborted
  /\ job.op = "idle" => job = Idle
  /\ job.op = "exit" => job = Exited
  /\ job.op \in ListOps => job.x \in Lists
  /\ job.op \in ErrOps => job.x \in Errs /\ job.k \in 1..NFields
  /\ job.op = "from_array" =>
       /\ job.k < job.n /\ job.n <= Limit
       /\ len[job.x] = job.k /\ cap[job.x] = job.n
  /\ job.op = "drop_list" => job.k <= len[job.x]
  /\ job.op \in {"read_dir", "push_name", "drop_name"} => job.k = 0
  /\ job.op = "make_err" => job.n \in NRequired..NFields /\ job.k <= job.n
  /\ job.op = "clone_err" => job.y \in Errs /\ job.y # job.x
  /\ job.op # "abort"

\* The places that own nothing.
SlotInv ==
  /\ \A l \in Lists, i \in 0..Limit - 1 : i >= len[l] => ~Owned(Slot(l, i))
  /\ job.op = "drop_list" =>
       \A i \in 0..Limit - 1 : i < job.k => ~Owned(Slot(job.x, i))
NameInv == Owned(Name) => job.op \in {"push_name", "drop_name"}
FieldInv ==
  job.op \in {"make_err", "clone_err"} =>
    \A k \in 1..NFields : k >= job.k => ~Owned(Field(job.x, k))

\* An error that no loop is at work on is whole; one in progress is whole up
\* to the field the loop has reached.
Whole(e) ==
  \A k \in 1..NFields, r \in 1..NRequired :
    Owned(Field(e, k)) => Owned(Field(e, r))
WholeInv ==
  job.op # "exit" =>
    /\ \A e \in Errs : ~(job.op \in ErrOps /\ job.x = e) => Whole(e)
    /\ \A k \in 1..NFields :
         k < job.k =>
           /\ job.op = "make_err" => Owned(Field(job.x, k))
           /\ job.op = "drop_err" => ~Owned(Field(job.x, k))
           /\ job.op = "clone_err" =>
                (Owned(Field(job.x, k)) <=> Owned(Field(job.y, k)))

Inv == /\ TypeOK /\ Counts /\ JobInv /\ SlotInv /\ NameInv /\ FieldInv
       /\ WholeInv /\ ListBounds

LEMMA PlaceFacts ==
  /\ \A v \in Vars : Var(v) \in Places
  /\ \A l \in Lists, i \in 0..Limit - 1 : Slot(l, i) \in Places
  /\ \A e \in Errs, k \in 1..NFields : Field(e, k) \in Places
  /\ Name \in Places
  /\ \A v, w : Var(v) = Var(w) => v = w
  /\ \A l, i, m, j : Slot(l, i) = Slot(m, j) => l = m /\ i = j
  /\ \A e, k, f, j : Field(e, k) = Field(f, j) => e = f /\ k = j
  /\ \A v, l, i : Var(v) # Slot(l, i)
  /\ \A v, e, k : Var(v) # Field(e, k)
  /\ \A l, i, e, k : Slot(l, i) # Field(e, k)
  /\ \A v : Var(v) # Name
  /\ \A l, i : Slot(l, i) # Name
  /\ \A e, k : Field(e, k) # Name
  BY DEF Var, Slot, Field, Name, Places

LEMMA IdleFacts ==
  /\ Idle \in Loops /\ Exited \in Loops
  /\ Idle.op = "idle" /\ Exited.op = "exit" /\ Idle # Aborted
  /\ Exited # Aborted /\ Idle.k = 0
  BY DEF Idle, Exited, Aborted, Loop, Loops

LEMMA InvTyped == Inv => Typed /\ Counts
  BY DEF Inv, TypeOK, Typed

LEMMA InitInv == Init => Inv
  <1> SUFFICES ASSUME Init PROVE Inv OBVIOUS
  <1>1. TypeOK
    BY IdleFacts DEF Init, TypeOK
  <1>2. \A p \in Places : ~Owned(p)
    BY DEF Init, Owned
  <1>3. Counts
    <2>1. \A o \in Owners : Holders(o) = {}
      BY <1>2 DEF Holders, Owned
    <2> QED BY <2>1, FS_EmptySet DEF Init, Counts
  <1>4. JobInv /\ ListBounds
    BY IdleFacts DEF Init, JobInv, ListOps, ErrOps, ListBounds
  <1>5. SlotInv /\ NameInv /\ FieldInv
    BY <1>2, IdleFacts, PlaceFacts DEF Init, SlotInv, NameInv, FieldInv
  <1>6. WholeInv
    <2>1. \A e \in Errs : Whole(e)
      BY <1>2, PlaceFacts DEF Whole
    <2> QED BY <2>1, IdleFacts DEF Init, WholeInv
  <1> QED BY <1>1, <1>3, <1>4, <1>5, <1>6 DEF Inv

\* An operation that changes variables only.
LEMMA VarsOnly ==
  ASSUME Inv, job = Idle, Typed', Counts', Only({Var(v) : v \in Vars}),
         UNCHANGED <<len, cap>>, job' = Idle \/ job' = Exited
  PROVE  Inv'
  <1>1. /\ \A l \in Lists, i \in 0..Limit - 1 :
             hold'[Slot(l, i)] = hold[Slot(l, i)]
        /\ \A e \in Errs, k \in 1..NFields :
             hold'[Field(e, k)] = hold[Field(e, k)]
        /\ hold'[Name] = hold[Name]
    BY PlaceFacts DEF Only
  <1>2. TypeOK'
    BY IdleFacts DEF Inv, TypeOK, Typed
  <1>3. JobInv' /\ ListBounds'
    BY IdleFacts DEF Inv, JobInv, ListOps, ErrOps, ListBounds
  <1>4. SlotInv' /\ NameInv' /\ FieldInv'
    BY <1>1, IdleFacts DEF Inv, SlotInv, NameInv, FieldInv, Owned
  <1>5. WholeInv'
    <2>1. \A e \in Errs : Whole(e)
      BY IdleFacts DEF Inv, WholeInv, ErrOps
    <2>2. \A e \in Errs : Whole(e)'
      BY <1>1, <2>1 DEF Whole, Owned
    <2> QED BY <2>2, IdleFacts DEF WholeInv
  <1> QED BY <1>2, <1>3, <1>4, <1>5 DEF Inv

LEMMA VarSteps ==
  ASSUME Inv,
         \/ \E v \in Vars : NewStr(v) \/ DropStr(v)
         \/ \E v, w \in Vars : CloneStr(v, w)
         \/ \E l \in Lists, i \in 0..Limit, w \in Vars : ListGet(l, i, w)
         \/ \E e \in Errs, k \in 1..NFields, w \in Vars : ErrField(e, k, w)
  PROVE  Inv'
  <1> USE InvTyped, PlaceFacts
  <1>1. ASSUME NEW v \in Vars, NewStr(v) PROVE Inv'
    <2>1. CASE Take(Var(v), Idle) /\ Lengths
      <3>1. Typed' /\ Counts' /\ Only({Var(v)}) /\ job' = Idle
        BY <1>1, <2>1, TakeCounts DEF NewStr
      <3>2. Only({Var(w) : w \in Vars})
        BY <3>1 DEF Only
      <3> QED BY <1>1, <2>1, <3>1, <3>2, VarsOnly DEF NewStr, Lengths
    <2>2. CASE Fails
      <3>1. Typed' /\ Counts' /\ Only({Var(w) : w \in Vars}) /\ job' = Exited
        BY <2>2 DEF Fails, Then, Typed, Counts, Holders, Only
      <3> QED BY <1>1, <2>2, <3>1, VarsOnly DEF NewStr, Fails
    <2> QED BY <1>1, <2>1, <2>2 DEF NewStr
  <1>2. ASSUME NEW v \in Vars, DropStr(v) PROVE Inv'
    <2>1. Typed' /\ Counts' /\ Only({Var(v)}) /\ job' = Idle
      BY <1>2, ReleaseCounts DEF DropStr
    <2>2. Only({Var(w) : w \in Vars})
      BY <2>1 DEF Only
    <2> QED BY <1>2, <2>1, <2>2, VarsOnly DEF DropStr, Lengths
  <1>3. ASSUME NEW p \in Places, NEW w \in Vars, job = Idle, ~Owned(Var(w)),
               Clone(p, Var(w), Idle), Lengths
        PROVE  Inv'
    <2>1. Typed' /\ Counts' /\ Only({Var(w)}) /\ (job' = Idle \/ job' = Exited)
      BY <1>3, CloneCounts
    <2>2. Only({Var(v) : v \in Vars})
      BY <2>1 DEF Only
    <2> QED BY <1>3, <2>1, <2>2, VarsOnly DEF Lengths
  <1>4. ASSUME NEW l \in Lists, NEW i \in 0..Limit, NEW w \in Vars,
               ListGet(l, i, w)
        PROVE  Inv'
    <2>1. i \in 0..Limit - 1
      BY <1>4 DEF ListGet, Inv, TypeOK
    <2> QED BY <1>3, <1>4, <2>1 DEF ListGet
  <1>5. ASSUME NEW v \in Vars, NEW w \in Vars, CloneStr(v, w) PROVE Inv'
    BY <1>3, <1>5 DEF CloneStr
  <1>6. ASSUME NEW e \in Errs, NEW k \in 1..NFields, NEW w \in Vars,
               ErrField(e, k, w)
        PROVE  Inv'
    BY <1>3, <1>6 DEF ErrField
  <1> QED BY <1>1, <1>2, <1>4, <1>5, <1>6

\* Steps of a list leave the errors alone, and steps of an error the lists.
LEMMA ListSide ==
  ASSUME Inv, job.op \notin ErrOps \cup {"exit"}, job'.op \notin ErrOps,
         \A e \in Errs, k \in 1..NFields :
           hold'[Field(e, k)] = hold[Field(e, k)]
  PROVE  FieldInv' /\ WholeInv'
  <1>1. FieldInv'
    BY DEF FieldInv, ErrOps
  <1>2. \A e \in Errs : Whole(e)
    BY DEF Inv, WholeInv
  <1>3. \A e \in Errs : Whole(e)'
    BY <1>2 DEF Whole, Owned
  <1>4. WholeInv'
    BY <1>3 DEF WholeInv, ErrOps
  <1> QED BY <1>1, <1>4

LEMMA ErrSide ==
  ASSUME Inv, job.op \notin ListOps, job'.op \notin ListOps,
         UNCHANGED <<len, cap>>, NEW P, Only(P),
         \A p \in P : \E e, k : p = Field(e, k)
  PROVE  SlotInv' /\ NameInv' /\ ListBounds'
  <1>1. /\ \A l \in Lists, i \in 0..Limit - 1 :
             hold'[Slot(l, i)] = hold[Slot(l, i)]
        /\ hold'[Name] = hold[Name]
    BY PlaceFacts DEF Only
  <1>2. SlotInv'
    BY <1>1 DEF Inv, SlotInv, Owned, ListOps
  <1>3. NameInv'
    BY <1>1 DEF Inv, NameInv, Owned, ListOps
  <1> QED BY <1>2, <1>3 DEF Inv, ListBounds

\* A function starts its loop, or a program ends.
LEMMA StartSteps ==
  ASSUME Inv,
         \/ \E l \in Lists : \/ \E n \in 0..Limit + 1 : FromArray(l, n)
                             \/ ListDrop(l) \/ ReadDir(l)
         \/ ReadDirEnd \/ ListDropFree
         \/ \E l \in Lists, v \in Vars : ListPush(l, v) /\ Fails
         \/ \E e \in Errs : \/ DropErr(e)
                            \/ \E n \in NRequired..NFields : MakeErr(e, n)
                            \/ \E f \in Errs : CloneErr(e, f)
  PROVE  Inv'
  <1> USE InvTyped, PlaceFacts
  <1>1. hold' = hold /\ ref' = ref
    BY DEF FromArray, Fails, ListDrop, ReadDir, ReadDirEnd, ListDropFree,
           DropErr, MakeErr, CloneErr
  <1>2. Counts'
    BY <1>1 DEF Counts, Holders
  <1>3. ASSUME NEW l \in Lists, NEW n \in 0..Limit + 1, FromArray(l, n), ~Fails
        PROVE  Inv'
    <2> DEFINE j == Loop("from_array", l, NoOwner, 0, n)
    <2>1. /\ n \in 0..Limit /\ job = Idle /\ cap[l] = 0
          /\ cap' = [cap EXCEPT ![l] = n] /\ len' = len
          /\ (n = 0 /\ job' = Idle) \/ (n > 0 /\ job' = j)
      BY <1>3 DEF FromArray, Then
    <2>2. len[l] = 0
      BY <2>1 DEF Inv, ListBounds, TypeOK
    <2>3. /\ j \in Loops /\ j.op = "from_array" /\ j.x = l /\ j.k = 0 /\ j.n = n
          /\ j # Aborted
      BY <2>1 DEF Loop, Loops, Aborted
    <2> HIDE DEF j
    <2>4. TypeOK'
      BY <1>1, <2>1, <2>3, IdleFacts DEF Inv, TypeOK
    <2>5. JobInv'
      BY <2>1, <2>2, <2>3, IdleFacts DEF JobInv, ListOps, ErrOps, Inv, TypeOK
    <2>6. SlotInv' /\ NameInv' /\ ListBounds'
      BY <1>1, <2>1, <2>2, <2>3, IdleFacts
      DEF Inv, SlotInv, NameInv, ListBounds, Owned, TypeOK
    <2>7. FieldInv' /\ WholeInv'
      BY <1>1, <2>1, <2>3, IdleFacts, ListSide DEF ErrOps
    <2> QED BY <1>2, <2>4, <2>5, <2>6, <2>7 DEF Inv
  <1>4. ASSUME job = Idle, Fails PROVE Inv'
    <2>1. job' = Exited /\ len' = len /\ cap' = cap
      BY <1>4 DEF Fails, Then
    <2>2. Only({Var(v) : v \in Vars})
      BY <1>1 DEF Only
    <2> QED BY <1>1, <1>2, <1>4, <2>1, <2>2, VarsOnly DEF Typed
  <1>5. ASSUME NEW l \in Lists, ListDrop(l) \/ ReadDir(l) PROVE Inv'
    <2>1. PICK op \in {"drop_list", "read_dir"} :
            job' = Loop(op, l, NoOwner, 0, 0)
      BY <1>5 DEF ListDrop, ReadDir, Then
    <2> DEFINE j == Loop(op, l, NoOwner, 0, 0)
    <2>2. j \in Loops /\ j.op = op /\ j.x = l /\ j.k = 0 /\ j # Aborted
      BY DEF Loop, Loops, Aborted
    <2> HIDE DEF j
    <2>3. job' = j /\ len' = len /\ cap' = cap /\ job = Idle
      BY <1>5, <2>1 DEF ListDrop, ReadDir, j
    <2>4. TypeOK'
      BY <1>1, <2>2, <2>3 DEF Inv, TypeOK
    <2>5. JobInv'
      BY <2>2, <2>3 DEF JobInv, ListOps, ErrOps, Inv, TypeOK
    <2>6. SlotInv' /\ NameInv' /\ ListBounds'
      BY <1>1, <2>2, <2>3, IdleFacts
      DEF Inv, SlotInv, NameInv, ListBounds, Owned
    <2>7. FieldInv' /\ WholeInv'
      BY <1>1, <2>2, <2>3, IdleFacts, ListSide DEF ErrOps
    <2> QED BY <1>2, <2>4, <2>5, <2>6, <2>7 DEF Inv
  <1>6. CASE ReadDirEnd
    <2> DEFINE j == [job EXCEPT !.op = "drop_list"]
    <2>1. job.op = "read_dir" /\ (job' = Idle \/ job' = j)
            /\ len' = len /\ cap' = cap
      BY <1>6 DEF ReadDirEnd, Then
    <2>2. j \in Loops /\ j.op = "drop_list" /\ j.x = job.x /\ j.k = job.k
            /\ j # Aborted /\ job.k = 0 /\ job.x \in Lists
      BY <2>1 DEF Inv, TypeOK, JobInv, Loops, ListOps, Aborted, Loop
    <2> HIDE DEF j
    <2>4. TypeOK'
      BY <1>1, <2>1, <2>2, IdleFacts DEF Inv, TypeOK
    <2>5. JobInv'
      BY <2>1, <2>2, IdleFacts DEF JobInv, ListOps, ErrOps, Inv, TypeOK
    <2>6. SlotInv' /\ NameInv' /\ ListBounds'
      BY <1>1, <2>1, <2>2, IdleFacts
      DEF Inv, SlotInv, NameInv, ListBounds, Owned
    <2>7. FieldInv' /\ WholeInv'
      BY <1>1, <2>1, <2>2, IdleFacts, ListSide DEF ErrOps
    <2> QED BY <1>2, <2>4, <2>5, <2>6, <2>7 DEF Inv
  <1>7. CASE ListDropFree
    <2>1. /\ job.op = "drop_list" /\ job' = Idle
          /\ job.x \in Lists /\ job.k <= len[job.x] /\ job.k >= len[job.x]
      BY <1>7 DEF ListDropFree, Then, Inv, JobInv, ListOps
    <2>2. PICK l \in Lists : l = job.x
      BY <2>1
    <2>3. /\ len' = [len EXCEPT ![l] = 0] /\ cap' = [cap EXCEPT ![l] = 0]
          /\ len[l] \in Nat /\ job.k \in Nat
      BY <1>7, <2>2 DEF ListDropFree, Inv, TypeOK, Loops
    <2>4. \A i \in 0..Limit - 1 : ~Owned(Slot(l, i))
      <3> SUFFICES ASSUME NEW i \in 0..Limit - 1 PROVE ~Owned(Slot(l, i))
        OBVIOUS
      <3>1. CASE i < job.k
        BY <2>1, <2>2, <3>1 DEF Inv, SlotInv
      <3>2. CASE ~(i < job.k)
        BY <2>1, <2>2, <2>3, <3>2 DEF Inv, SlotInv
      <3> QED BY <3>1, <3>2
    <2>5. TypeOK'
      BY <1>1, <2>1, <2>3, IdleFacts DEF Inv, TypeOK
    <2>6. JobInv'
      BY <2>1, IdleFacts DEF JobInv, ListOps, ErrOps
    <2>7. SlotInv'
      <3>1. ASSUME NEW m \in Lists, NEW i \in 0..Limit - 1, i >= len'[m]
            PROVE  ~Owned(Slot(m, i))'
        <4>1. CASE m = l
          BY <1>1, <2>4, <4>1 DEF Owned
        <4>2. CASE m # l
          BY <1>1, <2>3, <3>1, <4>2 DEF Inv, SlotInv, Owned, TypeOK
        <4> QED BY <4>1, <4>2
      <3> QED BY <2>1, <3>1, IdleFacts DEF SlotInv
    <2>8. NameInv'
      BY <1>1, <2>1 DEF Inv, NameInv, Owned
    <2>9. ListBounds'
      BY <2>3 DEF Inv, ListBounds, TypeOK
    <2>10. FieldInv' /\ WholeInv'
      BY <1>1, <2>1, IdleFacts, ListSide DEF ErrOps
    <2> QED BY <1>2, <2>5, <2>6, <2>7, <2>8, <2>9, <2>10 DEF Inv
  <1>8. ASSUME NEW e \in Errs, NEW j \in Loops, job = Idle, job' = j,
               len' = len, cap' = cap, j.op \in ErrOps, j.x = e, j.k = 1,
               j.op # "drop_err" => \A k \in 1..NFields : ~Owned(Field(e, k)),
               j.op = "make_err" => j.n \in NRequired..NFields,
               j.op = "clone_err" => j.y \in Errs /\ j.y # e
        PROVE  Inv'
    <2>1. j # Aborted BY <1>8 DEF ErrOps, Aborted, Loop
    <2>2. 1 \in 1..NFields /\ \A n \in NRequired..NFields : 1 <= n
      OBVIOUS
    <2>3. TypeOK'
      BY <1>1, <1>8 DEF Inv, TypeOK
    <2>4. JobInv'
      BY <1>8, <2>1, <2>2 DEF JobInv, ErrOps, ListOps
    <2>5. SlotInv' /\ NameInv' /\ ListBounds'
      <3>1. Only({}) BY <1>1 DEF Only
      <3>2. \A p \in {} : \E f, k : p = Field(f, k) OBVIOUS
      <3> QED BY <1>8, <3>1, <3>2, ErrSide, IdleFacts DEF ErrOps, ListOps
    <2>6. FieldInv'
      BY <1>1, <1>8 DEF FieldInv, Owned
    <2>7. WholeInv'
      <3>1. \A f \in Errs : Whole(f)
        BY <1>8, IdleFacts DEF Inv, WholeInv, ErrOps
      <3>2. \A f \in Errs : Whole(f)'
        BY <1>1, <3>1 DEF Whole, Owned
      <3>3. \A k \in 1..NFields : ~(k < job'.k)
        BY <1>8
      <3> QED BY <3>2, <3>3 DEF WholeInv
    <2> QED BY <1>2, <2>3, <2>4, <2>5, <2>6, <2>7 DEF Inv
  <1>9. ASSUME NEW e \in Errs, DropErr(e) PROVE Inv'
    <2> DEFINE j == Loop("drop_err", e, NoOwner, 1, 0)
    <2>1. j \in Loops /\ j.op = "drop_err" /\ j.x = e /\ j.k = 1
      BY DEF Loop, Loops
    <2>2. job = Idle /\ job' = j /\ len' = len /\ cap' = cap
      BY <1>9 DEF DropErr, Then
    <2> HIDE DEF j
    <2> QED BY <1>8, <2>1, <2>2 DEF ErrOps
  <1>10. ASSUME NEW e \in Errs, NEW n \in NRequired..NFields, MakeErr(e, n)
         PROVE  Inv'
    <2> DEFINE j == Loop("make_err", e, NoOwner, 1, n)
    <2>1. j \in Loops /\ j.op = "make_err" /\ j.x = e /\ j.k = 1 /\ j.n = n
      BY DEF Loop, Loops
    <2>2. /\ job = Idle /\ job' = j /\ len' = len /\ cap' = cap
          /\ \A k \in 1..NFields : ~Owned(Field(e, k))
      BY <1>10 DEF MakeErr, Then
    <2> HIDE DEF j
    <2> QED BY <1>8, <2>1, <2>2 DEF ErrOps
  <1>11. ASSUME NEW e \in Errs, NEW f \in Errs, CloneErr(e, f) PROVE Inv'
    <2> DEFINE j == Loop("clone_err", f, e, 1, 0)
    <2>1. j \in Loops /\ j.op = "clone_err" /\ j.x = f /\ j.k = 1 /\ j.y = e
      BY DEF Loop, Loops
    <2>2. /\ job = Idle /\ job' = j /\ len' = len /\ cap' = cap /\ e # f
          /\ \A k \in 1..NFields : ~Owned(Field(f, k))
      BY <1>11 DEF CloneErr, Then
    <2> HIDE DEF j
    <2> QED BY <1>8, <2>1, <2>2 DEF ErrOps
  <1> QED
    BY <1>3, <1>4, <1>5, <1>6, <1>7, <1>9, <1>10, <1>11
    DEF FromArray, ListPush

(***************************************************************************)
(* Steps of the list functions                                             *)
(***************************************************************************)

\* What one more item in list l keeps, wherever it comes from.
LEMMA PushKeeps ==
  ASSUME Inv, NEW l \in Lists, len[l] < Limit, job.op # "drop_list",
         NEW p \in Places,
         (\E v \in Vars : p = Var(v)) \/ p = Name,
         Move(p, Slot(l, len[l])),
         len' = [len EXCEPT ![l] = @ + 1],
         cap' \in [Lists -> 0..Limit], cap'[l] >= len[l] + 1,
         \A m \in Lists : m # l => cap'[m] = cap[m]
  PROVE  /\ Typed' /\ Counts' /\ ListBounds' /\ ~Owned(p)'
         /\ len' \in [Lists -> 0..Limit] /\ len'[l] = len[l] + 1
         /\ \A m \in Lists : m # l => len'[m] = len[m]
         /\ \A m \in Lists, i \in 0..Limit - 1 :
              i >= len'[m] => ~Owned(Slot(m, i))'
         /\ \A e \in Errs, k \in 1..NFields :
              hold'[Field(e, k)] = hold[Field(e, k)]
         /\ p # Name => hold'[Name] = hold[Name]
  <1> USE InvTyped, PlaceFacts
  <1>1. PICK n \in 0..Limit - 1 : n = len[l]
    BY DEF Inv, TypeOK
  <1>2. Slot(l, n) \in Places /\ ~Owned(Slot(l, n)) /\ p # Slot(l, n)
    BY <1>1 DEF Inv, SlotInv
  <1>3. Typed' /\ Counts' /\ Only({p, Slot(l, n)}) /\ ~Owned(p)'
    BY <1>1, <1>2, MoveCounts
  <1>4. /\ len' \in [Lists -> 0..Limit] /\ len'[l] = n + 1
        /\ \A m \in Lists : m # l => len'[m] = len[m]
    BY <1>1 DEF Inv, TypeOK
  <1>5. ListBounds'
    BY <1>1, <1>4 DEF Inv, ListBounds
  <1>6. ASSUME NEW m \in Lists, NEW i \in 0..Limit - 1, i >= len'[m]
        PROVE  ~Owned(Slot(m, i))'
    <2>1. i >= len[m] /\ Slot(m, i) # Slot(l, n)
      BY <1>1, <1>4, <1>6 DEF Inv, TypeOK
    <2>2. hold'[Slot(m, i)] = hold[Slot(m, i)]
      BY <1>3, <2>1 DEF Only
    <2> QED BY <2>1, <2>2 DEF Inv, SlotInv, Owned
  <1>7. \A e \in Errs, k \in 1..NFields :
          hold'[Field(e, k)] = hold[Field(e, k)]
    BY <1>3 DEF Only
  <1>8. p # Name => hold'[Name] = hold[Name]
    BY <1>3 DEF Only
  <1> QED BY <1>1, <1>3, <1>4, <1>5, <1>6, <1>7, <1>8

LEMMA FromArrayStep ==
  ASSUME Inv, NEW v \in Vars, FromArrayItem(v)
  PROVE  Inv'
  <1>1. /\ job.op = "from_array" /\ job.x \in Lists /\ job.k = len[job.x]
        /\ job.k \in Nat /\ job.n \in Nat /\ job.k < job.n /\ job.n <= Limit
        /\ cap[job.x] = job.n
    BY DEF FromArrayItem, Inv, JobInv, ListOps, TypeOK, Loops
  <1>2. PICK l \in Lists : l = job.x
    BY <1>1
  <1>3. /\ Move(Var(v), Slot(l, len[l])) /\ len' = [len EXCEPT ![l] = @ + 1]
        /\ cap' = cap /\ len[l] < Limit /\ cap'[l] >= len[l] + 1
    BY <1>1, <1>2 DEF FromArrayItem
  <1>4. /\ Typed' /\ Counts' /\ ListBounds'
        /\ len' \in [Lists -> 0..Limit] /\ len'[l] = len[l] + 1
        /\ \A m \in Lists, i \in 0..Limit - 1 :
             i >= len'[m] => ~Owned(Slot(m, i))'
        /\ \A e \in Errs, k \in 1..NFields :
             hold'[Field(e, k)] = hold[Field(e, k)]
        /\ hold'[Name] = hold[Name]
    BY <1>1, <1>3, PushKeeps, PlaceFacts DEF Inv, TypeOK
  <1> DEFINE j == [job EXCEPT !.k = job.k + 1]
  <1>5. /\ j \in Loops /\ j.op = "from_array" /\ j.x = l /\ j.n = job.n
        /\ j.k = job.k + 1 /\ j # Aborted
    BY <1>1, <1>2 DEF Inv, TypeOK, Loops, Aborted, Loop
  <1>6. (job' = Idle) \/ (job' = j /\ job.k + 1 # job.n)
    BY DEF FromArrayItem, Then, Step
  <1> HIDE DEF j
  <1>7. TypeOK'
    BY <1>3, <1>4, <1>5, <1>6, IdleFacts DEF Inv, TypeOK, Typed
  <1>8. JobInv'
    BY <1>1, <1>2, <1>3, <1>4, <1>5, <1>6, IdleFacts
    DEF JobInv, ListOps, ErrOps
  <1>9. SlotInv' /\ NameInv'
    BY <1>1, <1>4, <1>5, <1>6, IdleFacts DEF Inv, SlotInv, NameInv, Owned
  <1>10. FieldInv' /\ WholeInv'
    BY <1>1, <1>4, <1>5, <1>6, IdleFacts, ListSide DEF ErrOps
  <1> QED BY <1>4, <1>7, <1>8, <1>9, <1>10 DEF Inv

\* nq_list_capacity leaves room for one more item within the limit.
LEMMA CapacityFits ==
  ASSUME TypeOK, NEW l \in Lists, Fits(l)
  PROVE  len[l] < Limit /\ NextCap(l) \in (len[l] + 1)..Limit
  <1>1. len[l] \in 0..Limit /\ cap[l] \in 0..Limit
    BY DEF TypeOK
  <1>2. len[l] + 1 \in 0..Limit
    BY <1>1 DEF Fits
  <1>3. Grow(cap[l], len[l] + 1) \in (len[l] + 1)..Limit
    BY <1>1, <1>2, GrowAssumption, Zenon
  <1> QED BY <1>1, <1>3 DEF NextCap, Fits

LEMMA PushStep ==
  ASSUME Inv, NEW l \in Lists, NEW p \in Places, NEW j, Push(l, p, j),
         job.op # "drop_list", (\E v \in Vars : p = Var(v)) \/ p = Name
  PROVE  /\ Typed' /\ Counts' /\ ListBounds' /\ ~Owned(p)' /\ job' = j
         /\ len' \in [Lists -> 0..Limit] /\ cap' \in [Lists -> 0..Limit]
         /\ \A m \in Lists, i \in 0..Limit - 1 :
              i >= len'[m] => ~Owned(Slot(m, i))'
         /\ \A e \in Errs, k \in 1..NFields :
              hold'[Field(e, k)] = hold[Field(e, k)]
         /\ p # Name => hold'[Name] = hold[Name]
  <1>1. len[l] < Limit /\ NextCap(l) \in (len[l] + 1)..Limit /\ len[l] \in Nat
    BY CapacityFits DEF Push, Inv, TypeOK
  <1>2. /\ cap' \in [Lists -> 0..Limit] /\ cap'[l] >= len[l] + 1
        /\ \A m \in Lists : m # l => cap'[m] = cap[m]
    <2>1. NextCap(l) \in 0..Limit
      BY <1>1
    <2> QED BY <1>1, <2>1 DEF Push, Inv, TypeOK
  <1> QED BY <1>1, <1>2, PushKeeps DEF Push, Then

LEMMA ListPushStep ==
  ASSUME Inv, NEW l \in Lists, NEW v \in Vars, ListPush(l, v)
  PROVE  Inv'
  <1>1. CASE Fails
    BY <1>1, StartSteps
  <1>2. CASE Push(l, Var(v), Idle)
    <2>1. job = Idle
      BY DEF ListPush
    <2>2. /\ Typed' /\ Counts' /\ ListBounds' /\ job' = Idle
          /\ len' \in [Lists -> 0..Limit] /\ cap' \in [Lists -> 0..Limit]
          /\ \A m \in Lists, i \in 0..Limit - 1 :
               i >= len'[m] => ~Owned(Slot(m, i))'
          /\ \A e \in Errs, k \in 1..NFields :
               hold'[Field(e, k)] = hold[Field(e, k)]
          /\ hold'[Name] = hold[Name]
      BY <1>2, <2>1, PushStep, PlaceFacts, IdleFacts
    <2>3. TypeOK'
      BY <2>2, IdleFacts DEF TypeOK, Typed
    <2>4. JobInv'
      BY <2>2, IdleFacts DEF JobInv, ListOps, ErrOps
    <2>5. SlotInv' /\ NameInv'
      BY <2>1, <2>2, IdleFacts DEF Inv, SlotInv, NameInv, Owned
    <2>6. FieldInv' /\ WholeInv'
      BY <2>1, <2>2, IdleFacts, ListSide DEF ErrOps
    <2> QED BY <2>2, <2>3, <2>4, <2>5, <2>6 DEF Inv
  <1> QED BY <1>1, <1>2 DEF ListPush

LEMMA ListPopStep ==
  ASSUME Inv, NEW l \in Lists, NEW w \in Vars, ListPop(l, w)
  PROVE  Inv'
  <1> USE InvTyped, PlaceFacts
  <1>1. /\ job = Idle /\ job' = Idle /\ cap' = cap /\ ~Owned(Var(w))
        /\ Move(Slot(l, len[l] - 1), Var(w))
        /\ len' = [len EXCEPT ![l] = @ - 1]
    BY DEF ListPop
  <1>2. PICK n \in 0..Limit - 1 : len[l] = n + 1 /\ n = len[l] - 1
    BY DEF ListPop, Inv, TypeOK
  <1>3. /\ Typed' /\ Counts' /\ Only({Slot(l, n), Var(w)})
        /\ ~Owned(Slot(l, n))'
    BY <1>1, <1>2, MoveCounts
  <1>4. /\ len' \in [Lists -> 0..Limit] /\ len'[l] = n
        /\ \A m \in Lists : m # l => len'[m] = len[m]
    BY <1>1, <1>2 DEF Inv, TypeOK
  <1>5. TypeOK' /\ ListBounds'
    BY <1>1, <1>2, <1>3, <1>4 DEF Inv, TypeOK, Typed, ListBounds
  <1>6. JobInv'
    BY <1>1, IdleFacts DEF JobInv, ListOps, ErrOps
  <1>7. ASSUME NEW m \in Lists, NEW i \in 0..Limit - 1, i >= len'[m]
        PROVE  ~Owned(Slot(m, i))'
    <2>1. CASE m = l /\ i = n
      BY <1>3, <2>1
    <2>2. CASE ~(m = l /\ i = n)
      <3>1. i >= len[m] /\ hold'[Slot(m, i)] = hold[Slot(m, i)]
        BY <1>2, <1>3, <1>4, <1>7, <2>2 DEF Only, Inv, TypeOK
      <3> QED BY <3>1 DEF Inv, SlotInv, Owned
    <2> QED BY <2>1, <2>2
  <1>8. SlotInv'
    BY <1>1, <1>7, IdleFacts DEF SlotInv
  <1>9. NameInv'
    BY <1>1, <1>3 DEF Inv, NameInv, Owned, Only
  <1>10. \A e \in Errs, k \in 1..NFields :
           hold'[Field(e, k)] = hold[Field(e, k)]
    BY <1>3 DEF Only
  <1>11. FieldInv' /\ WholeInv'
    BY <1>1, <1>10, IdleFacts, ListSide DEF ErrOps
  <1> QED BY <1>3, <1>5, <1>6, <1>8, <1>9, <1>11 DEF Inv

LEMMA ListReplaceStep ==
  ASSUME Inv, NEW l \in Lists, NEW i \in 0..Limit, NEW v \in Vars,
         ListReplace(l, i, v)
  PROVE  Inv'
  <1> USE InvTyped, PlaceFacts
  <1>1. job = Idle /\ len' = len /\ cap' = cap
    BY DEF ListReplace, Lengths
  <1>2. CASE i >= len[l] /\ Release(Var(v), Idle)
    <2>1. Typed' /\ Counts' /\ Only({Var(v)}) /\ job' = Idle
      BY <1>2, ReleaseCounts
    <2>2. Only({Var(w) : w \in Vars})
      BY <2>1 DEF Only
    <2> QED BY <1>1, <2>1, <2>2, VarsOnly
  <1>3. CASE /\ i < len[l] /\ ref' = ref /\ job' = job
             /\ hold' = [hold EXCEPT ![Slot(l, i)] = hold[Var(v)],
                                     ![Var(v)] = hold[Slot(l, i)]]
    <2>1. i \in 0..Limit - 1
      BY <1>3 DEF Inv, TypeOK
    <2>2. Typed' /\ Counts' /\ Only({Slot(l, i), Var(v)})
      BY <1>3, <2>1, SwapCounts
    <2>3. TypeOK' /\ JobInv' /\ ListBounds'
      BY <1>1, <1>3, <2>2, IdleFacts
      DEF Inv, TypeOK, Typed, JobInv, ListBounds, ListOps, ErrOps
    <2>4. ASSUME NEW m \in Lists, NEW k \in 0..Limit - 1, k >= len[m]
          PROVE  ~Owned(Slot(m, k))'
      <3>1. ~(m = l /\ k = i)
        BY <1>3, <2>1, <2>4 DEF Inv, TypeOK
      <3>2. hold'[Slot(m, k)] = hold[Slot(m, k)]
        BY <2>2, <3>1 DEF Only
      <3> QED BY <2>4, <3>2 DEF Inv, SlotInv, Owned
    <2>5. SlotInv'
      BY <1>1, <1>3, <2>4, IdleFacts DEF SlotInv
    <2>6. NameInv'
      BY <1>1, <1>3, <2>2 DEF Inv, NameInv, Owned, Only
    <2>7. \A e \in Errs, k \in 1..NFields :
            hold'[Field(e, k)] = hold[Field(e, k)]
      BY <2>2 DEF Only
    <2>8. FieldInv' /\ WholeInv'
      BY <1>1, <1>3, <2>7, IdleFacts, ListSide DEF ErrOps
    <2> QED BY <2>2, <2>3, <2>5, <2>6, <2>8 DEF Inv
  <1> QED BY <1>2, <1>3 DEF ListReplace

\* What a step keeps that empties or fills only the slot the loop is at, or
\* the runtime's local.
LEMMA PlaceStep ==
  ASSUME Inv, job.op \in {"drop_list", "read_dir", "push_name", "drop_name"},
         Typed', Counts', len' = len, cap' = cap,
         NEW p \in Places, Only({p}), NEW j \in Loops, job' = j,
         j.op \in {"drop_list", "read_dir", "push_name", "drop_name"},
         j.x = job.x, j # Aborted,
         p = Name \/ ~Owned(p)',
         p = Name \/ \E l \in Lists, i \in 0..Limit - 1 : p = Slot(l, i),
         Owned(Name)' => j.op \in {"push_name", "drop_name"},
         j.op = "drop_list" =>
           /\ j.k <= len[j.x]
           /\ \A i \in 0..Limit - 1 : i < j.k => ~Owned(Slot(j.x, i))',
         j.op # "drop_list" => j.k = 0
  PROVE  Inv'
  <1> USE PlaceFacts
  <1>1. job.x \in Lists
    BY DEF Inv, JobInv, ListOps
  <1>2. TypeOK' /\ ListBounds'
    BY DEF Inv, TypeOK, Typed, ListBounds
  <1>3. JobInv'
    BY <1>1 DEF JobInv, ListOps, ErrOps
  <1>4. \A l \in Lists, i \in 0..Limit - 1 :
          hold'[Slot(l, i)] = hold[Slot(l, i)] \/ ~Owned(Slot(l, i))'
    BY DEF Only
  <1>5. SlotInv'
    <2>1. \A l \in Lists, i \in 0..Limit - 1 :
            i >= len'[l] => ~Owned(Slot(l, i))'
      BY <1>4 DEF Inv, SlotInv, Owned
    <2> QED BY <2>1 DEF SlotInv
  <1>6. NameInv'
    BY DEF NameInv
  <1>7. \A e \in Errs, k \in 1..NFields :
          hold'[Field(e, k)] = hold[Field(e, k)]
    BY DEF Only
  <1>8. FieldInv' /\ WholeInv'
    BY <1>7, ListSide DEF ErrOps
  <1> QED BY <1>2, <1>3, <1>5, <1>6, <1>8 DEF Inv

LEMMA DropItemStep ==
  ASSUME Inv, ListDropItem
  PROVE  Inv'
  <1> USE InvTyped, PlaceFacts
  <1>1. /\ job.op = "drop_list" /\ job.x \in Lists /\ job.k < len[job.x]
        /\ job.k \in Nat /\ len[job.x] \in 0..Limit
    BY DEF ListDropItem, Inv, JobInv, ListOps, TypeOK, Loops
  <1>2. PICK l \in Lists : l = job.x
    BY <1>1
  <1>3. PICK n \in 0..Limit - 1 : n = job.k
    BY <1>1
  <1> DEFINE j == [job EXCEPT !.k = n + 1]
  <1>4. /\ j \in Loops /\ j.op = "drop_list" /\ j.x = l /\ j.k = n + 1
        /\ j # Aborted
    BY <1>1, <1>2 DEF Inv, TypeOK, Loops, Aborted, Loop
  <1>5. Release(Slot(l, n), j) /\ len' = len /\ cap' = cap
    BY <1>2, <1>3 DEF ListDropItem, Step, Lengths
  <1> HIDE DEF j
  <1>6. Typed' /\ Counts' /\ Only({Slot(l, n)}) /\ ~Owned(Slot(l, n))' /\ job' = j
    BY <1>5, ReleaseCounts
  <1>7. ASSUME NEW i \in 0..Limit - 1, i < n + 1
        PROVE  ~Owned(Slot(l, i))'
    <2>1. CASE i = n
      BY <1>6, <2>1
    <2>2. CASE i # n
      <3>1. i < n /\ hold'[Slot(l, i)] = hold[Slot(l, i)]
        BY <1>6, <1>7, <2>2 DEF Only
      <3> QED BY <1>1, <1>2, <1>3, <3>1 DEF Inv, SlotInv, Owned
    <2> QED BY <2>1, <2>2
  <1>8. ~Owned(Name)'
    BY <1>1, <1>6 DEF Inv, NameInv, Owned, Only
  <1>9. j.k <= len[l]
    BY <1>1, <1>2, <1>3, <1>4
  <1> QED BY <1>1, <1>2, <1>4, <1>5, <1>6, <1>7, <1>8, <1>9, PlaceStep

LEMMA ReadDirSteps ==
  ASSUME Inv, ReadDirName \/ ReadDirPush \/ ReadDirDropName
  PROVE  Inv'
  <1> USE InvTyped, PlaceFacts
  <1>1. /\ job.op \in {"read_dir", "push_name", "drop_name"} /\ job.k = 0
        /\ job.x \in Lists
    BY DEF ReadDirName, ReadDirPush, ReadDirDropName, Inv, JobInv, ListOps
  <1>2. PICK l \in Lists : l = job.x
    BY <1>1
  <1> DEFINE j(op) == [job EXCEPT !.op = op]
  <1>3. \A op \in {"drop_list", "read_dir", "push_name", "drop_name"} :
          /\ j(op) \in Loops /\ j(op).op = op /\ j(op).x = l /\ j(op).k = 0
          /\ j(op) # Aborted
    BY <1>1, <1>2 DEF Inv, TypeOK, Loops, Aborted, Loop
  <1>4. CASE ReadDirName
    <2>1. job.op = "read_dir" /\ len' = len /\ cap' = cap /\ ~Owned(Name)
      BY <1>4 DEF ReadDirName, Lengths, Inv, NameInv
    <2>2. CASE Take(Name, j("push_name"))
      <3> HIDE DEF j
      <3>1. Typed' /\ Counts' /\ Only({Name}) /\ job' = j("push_name")
        BY <2>1, <2>2, TakeCounts
      <3> QED BY <1>1, <1>2, <1>3, <2>1, <3>1, PlaceStep
    <2>3. CASE job' = j("drop_name") /\ UNCHANGED <<ref, hold>>
      <3> HIDE DEF j
      <3>1. Typed' /\ Counts' /\ Only({Name}) /\ ~Owned(Name)'
        BY <2>1, <2>3 DEF Typed, Counts, Holders, Only, Owned
      <3> QED BY <1>1, <1>2, <1>3, <2>1, <2>3, <3>1, PlaceStep
    <2> QED BY <1>4, <2>2, <2>3 DEF ReadDirName, Then
  <1>5. CASE ReadDirPush
    <2>1. job.op = "push_name"
      BY <1>5 DEF ReadDirPush
    <2>2. CASE Push(l, Name, j("read_dir"))
      <3> HIDE DEF j
      <3>1. /\ Typed' /\ Counts' /\ ListBounds' /\ ~Owned(Name)'
            /\ job' = j("read_dir")
            /\ len' \in [Lists -> 0..Limit] /\ cap' \in [Lists -> 0..Limit]
            /\ \A m \in Lists, i \in 0..Limit - 1 :
                 i >= len'[m] => ~Owned(Slot(m, i))'
            /\ \A e \in Errs, k \in 1..NFields :
                 hold'[Field(e, k)] = hold[Field(e, k)]
        BY <2>1, <2>2, PushStep
      <3>2. TypeOK'
        BY <1>3, <3>1 DEF TypeOK, Typed
      <3>3. JobInv'
        BY <1>2, <1>3, <3>1 DEF JobInv, ListOps, ErrOps
      <3>4. SlotInv' /\ NameInv'
        BY <1>3, <3>1 DEF SlotInv, NameInv
      <3>5. FieldInv' /\ WholeInv'
        BY <1>3, <2>1, <3>1, ListSide DEF ErrOps
      <3> QED BY <3>1, <3>2, <3>3, <3>4, <3>5 DEF Inv
    <2>3. CASE job' = j("drop_name") /\ UNCHANGED <<ref, hold, len, cap>>
      <3> HIDE DEF j
      <3>1. Typed' /\ Counts' /\ Only({Name})
        BY <2>3 DEF Typed, Counts, Holders, Only
      <3> QED BY <1>1, <1>2, <1>3, <2>3, <3>1, PlaceStep
    <2> QED BY <1>2, <1>5, <2>2, <2>3 DEF ReadDirPush, Then
  <1>6. CASE ReadDirDropName
    <2>1. /\ job.op = "drop_name" /\ len' = len /\ cap' = cap
          /\ Release(Name, j("drop_list"))
      BY <1>6 DEF ReadDirDropName, Lengths
    <2> HIDE DEF j
    <2>2. /\ Typed' /\ Counts' /\ Only({Name}) /\ ~Owned(Name)'
          /\ job' = j("drop_list")
      BY <2>1, ReleaseCounts
    <2>3. 0 <= len[l]
      BY DEF Inv, TypeOK
    <2> QED BY <1>1, <1>2, <1>3, <2>1, <2>2, <2>3, PlaceStep
  <1> QED BY <1>4, <1>5, <1>6

(***************************************************************************)
(* Steps of the error functions                                            *)
(***************************************************************************)

\* What a step keeps that changes only the field the loop is at.
LEMMA FieldStep ==
  ASSUME Inv, job.op \in ErrOps, Typed', Counts', len' = len, cap' = cap,
         Only({Field(job.x, job.k)})
  PROVE  /\ job'.op \notin ListOps => SlotInv' /\ NameInv' /\ ListBounds'
         /\ job' \in Loops => TypeOK'
         /\ \A e \in Errs, k \in 1..NFields :
              ~(e = job.x /\ k = job.k) => hold'[Field(e, k)] = hold[Field(e, k)]
         /\ \A e \in Errs : e # job.x => Whole(e)'
  <1>1. \A p \in {Field(job.x, job.k)} : \E e, k : p = Field(e, k)
    OBVIOUS
  <1>2. job'.op \notin ListOps => SlotInv' /\ NameInv' /\ ListBounds'
    BY <1>1, ErrSide DEF ErrOps, ListOps
  <1>3. job' \in Loops => TypeOK'
    BY DEF Inv, TypeOK, Typed
  <1>4. \A e \in Errs, k \in 1..NFields :
          ~(e = job.x /\ k = job.k) => hold'[Field(e, k)] = hold[Field(e, k)]
    BY PlaceFacts DEF Only
  <1>5. \A e \in Errs : e # job.x => Whole(e)
    BY DEF Inv, WholeInv, ErrOps
  <1>6. \A e \in Errs : e # job.x => Whole(e)'
    BY <1>4, <1>5 DEF Whole, Owned
  <1> QED BY <1>2, <1>3, <1>4, <1>6

LEMMA MakeErrStep ==
  ASSUME Inv, MakeErrField
  PROVE  Inv'
  <1> USE InvTyped, PlaceFacts
  <1>1. /\ job.op = "make_err" /\ job.x \in Errs /\ job.k \in 1..NFields
        /\ job.n \in NRequired..NFields /\ job.k <= job.n
        /\ len' = len /\ cap' = cap
    BY DEF MakeErrField, Inv, JobInv, ErrOps, Lengths
  <1>2. PICK x \in Errs, k \in 1..NFields : x = job.x /\ k = job.k
    BY <1>1
  <1>3. ~Owned(Field(x, k))
    BY <1>1, <1>2 DEF Inv, FieldInv
  <1> DEFINE j == [job EXCEPT !.k = k + 1]
  <1> DEFINE d == Loop("drop_err", x, NoOwner, 1, 0)
  <1>4. /\ j \in Loops /\ j.op = "make_err" /\ j.x = x /\ j.k = k + 1
        /\ j.n = job.n /\ j # Aborted
    BY <1>1, <1>2 DEF Inv, TypeOK, Loops, Aborted, Loop
  <1>5. d \in Loops /\ d.op = "drop_err" /\ d.x = x /\ d.k = 1 /\ d # Aborted
    BY DEF Loops, Aborted, Loop
  <1> DEFINE i == IF k = job.n THEN Idle ELSE j
  <1>6. \/ Take(Field(x, k), i)
        \/ job' = d /\ UNCHANGED <<ref, hold>>
    BY <1>2 DEF MakeErrField, Then, Step
  <1>i. i = IF k = job.n THEN Idle ELSE j
    OBVIOUS
  <1> HIDE DEF i, j, d
  <1>7. CASE job' = d /\ UNCHANGED <<ref, hold>>
    <2>1. Typed' /\ Counts' /\ Only({Field(job.x, job.k)})
      BY <1>7 DEF Typed, Counts, Holders, Only
    <2>2. /\ SlotInv' /\ NameInv' /\ ListBounds' /\ TypeOK'
          /\ \A e \in Errs : e # job.x => Whole(e)'
      BY <1>1, <1>5, <1>7, <2>1, FieldStep DEF ErrOps, ListOps
    <2>3. JobInv' /\ FieldInv'
      BY <1>5, <1>7 DEF JobInv, FieldInv, ErrOps, ListOps
    <2>4. WholeInv'
      BY <1>2, <1>5, <1>7, <2>2 DEF WholeInv, ErrOps
    <2> QED BY <2>1, <2>2, <2>3, <2>4 DEF Inv
  <1>8. CASE Take(Field(x, k), i)
    <2>1. /\ Typed' /\ Counts' /\ Only({Field(x, k)}) /\ Owned(Field(x, k))'
          /\ job' = IF k = job.n THEN Idle ELSE j
      <3>1. /\ Typed' /\ Counts' /\ Only({Field(x, k)}) /\ Owned(Field(x, k))'
            /\ job' = i
        BY <1>3, <1>8, TakeCounts
      <3> QED BY <3>1, <1>i
    <2>2. /\ SlotInv' /\ NameInv' /\ ListBounds' /\ TypeOK'
          /\ \A e \in Errs, m \in 1..NFields :
               ~(e = x /\ m = k) => hold'[Field(e, m)] = hold[Field(e, m)]
          /\ \A e \in Errs : e # x => Whole(e)'
      BY <1>1, <1>2, <1>4, <2>1, FieldStep, IdleFacts DEF ErrOps, ListOps
    <2>3. \A m \in 1..NFields : m <= k => Owned(Field(x, m))'
      <3>1. \A m \in 1..NFields : m < k => Owned(Field(x, m))
        BY <1>1, <1>2 DEF Inv, WholeInv
      <3> QED BY <2>1, <2>2, <3>1 DEF Owned
    <2>4. CASE k = job.n
      <3>1. Whole(x)'
        BY <1>1, <2>3, <2>4 DEF Whole
      <3>2. WholeInv' /\ FieldInv' /\ JobInv'
        BY <2>1, <2>2, <2>4, <3>1, IdleFacts
        DEF WholeInv, FieldInv, JobInv, ErrOps, ListOps
      <3> QED BY <2>1, <2>2, <3>2 DEF Inv
    <2>5. CASE k # job.n
      <3>1. job' = j /\ k + 1 <= job.n /\ k + 1 \in 1..NFields
        BY <1>1, <1>2, <2>1, <2>5
      <3>2. JobInv'
        BY <1>1, <1>4, <3>1 DEF JobInv, ErrOps, ListOps
      <3>3. FieldInv'
        <4>1. \A m \in 1..NFields : m >= k => ~Owned(Field(x, m))
          BY <1>1, <1>2 DEF Inv, FieldInv
        <4>2. \A m \in 1..NFields : m >= k + 1 => ~Owned(Field(x, m))'
          BY <2>2, <4>1 DEF Owned
        <4> QED BY <1>4, <3>1, <4>2 DEF FieldInv
      <3>4. WholeInv'
        <4>1. \A m \in 1..NFields : m < k + 1 => Owned(Field(x, m))'
          BY <2>3
        <4> QED BY <1>4, <2>2, <3>1, <4>1 DEF WholeInv, ErrOps
      <3> QED BY <2>1, <2>2, <3>2, <3>3, <3>4 DEF Inv
    <2> QED BY <2>4, <2>5
  <1> QED BY <1>6, <1>7, <1>8

LEMMA DropErrStep ==
  ASSUME Inv, DropErrField
  PROVE  Inv'
  <1> USE InvTyped, PlaceFacts
  <1>1. /\ job.op = "drop_err" /\ job.x \in Errs /\ job.k \in 1..NFields
        /\ len' = len /\ cap' = cap
    BY DEF DropErrField, Inv, JobInv, ErrOps, Lengths
  <1>2. PICK x \in Errs, k \in 1..NFields : x = job.x /\ k = job.k
    BY <1>1
  <1> DEFINE j == [job EXCEPT !.k = k + 1]
  <1>3. /\ j \in Loops /\ j.op = "drop_err" /\ j.x = x /\ j.k = k + 1
        /\ j # Aborted
    BY <1>1, <1>2 DEF Inv, TypeOK, Loops, Aborted, Loop
  <1> DEFINE i == IF k = NFields THEN Idle ELSE j
  <1>4. Release(Field(x, k), i)
    BY <1>2 DEF DropErrField, Step
  <1>i. i = IF k = NFields THEN Idle ELSE j
    OBVIOUS
  <1> HIDE DEF i, j
  <1>5. /\ Typed' /\ Counts' /\ Only({Field(x, k)}) /\ ~Owned(Field(x, k))'
        /\ job' = IF k = NFields THEN Idle ELSE j
    <2>1. /\ Typed' /\ Counts' /\ Only({Field(x, k)}) /\ ~Owned(Field(x, k))'
          /\ job' = i
      BY <1>4, ReleaseCounts
    <2> QED BY <2>1, <1>i
  <1>6. /\ SlotInv' /\ NameInv' /\ ListBounds' /\ TypeOK'
        /\ \A e \in Errs, m \in 1..NFields :
             ~(e = x /\ m = k) => hold'[Field(e, m)] = hold[Field(e, m)]
        /\ \A e \in Errs : e # x => Whole(e)'
    BY <1>1, <1>2, <1>3, <1>5, FieldStep, IdleFacts DEF ErrOps, ListOps
  <1>7. \A m \in 1..NFields : m <= k => ~Owned(Field(x, m))'
    <2>1. \A m \in 1..NFields : m < k => ~Owned(Field(x, m))
      BY <1>1, <1>2 DEF Inv, WholeInv
    <2> QED BY <1>5, <1>6, <2>1 DEF Owned
  <1>8. CASE k = NFields
    <2>1. Whole(x)'
      BY <1>7, <1>8 DEF Whole
    <2>2. WholeInv' /\ FieldInv' /\ JobInv'
      BY <1>5, <1>6, <1>8, <2>1, IdleFacts
      DEF WholeInv, FieldInv, JobInv, ErrOps, ListOps
    <2> QED BY <1>5, <1>6, <2>2 DEF Inv
  <1>9. CASE k # NFields
    <2>1. job' = j /\ k + 1 \in 1..NFields
      BY <1>5, <1>9
    <2>2. JobInv' /\ FieldInv'
      BY <1>3, <2>1 DEF JobInv, FieldInv, ErrOps, ListOps
    <2>3. WholeInv'
      <3>1. \A m \in 1..NFields : m < k + 1 => ~Owned(Field(x, m))'
        BY <1>7
      <3> QED BY <1>3, <1>6, <2>1, <3>1 DEF WholeInv, ErrOps
    <2> QED BY <1>5, <1>6, <2>2, <2>3 DEF Inv
  <1> QED BY <1>8, <1>9

LEMMA CloneErrStep ==
  ASSUME Inv, CloneErrField
  PROVE  Inv'
  <1> USE InvTyped, PlaceFacts
  <1>1. /\ job.op = "clone_err" /\ job.x \in Errs /\ job.k \in 1..NFields
        /\ job.y \in Errs /\ job.y # job.x /\ len' = len /\ cap' = cap
    BY DEF CloneErrField, Inv, JobInv, ErrOps, Lengths
  <1>2. PICK x \in Errs, y \in Errs, k \in 1..NFields :
          x = job.x /\ y = job.y /\ k = job.k /\ x # y
    BY <1>1
  <1>3. ~Owned(Field(x, k))
    BY <1>1, <1>2 DEF Inv, FieldInv
  <1> DEFINE j == [job EXCEPT !.k = k + 1]
  <1>4. /\ j \in Loops /\ j.op = "clone_err" /\ j.x = x /\ j.y = y
        /\ j.k = k + 1 /\ j # Aborted
    BY <1>1, <1>2 DEF Inv, TypeOK, Loops, Aborted, Loop
  <1> DEFINE i == IF k = NFields THEN Idle ELSE j
  <1>5. Clone(Field(y, k), Field(x, k), i)
    BY <1>2 DEF CloneErrField, Step
  <1>6. i = IF k = NFields THEN Idle ELSE j
    OBVIOUS
  <1> HIDE DEF i, j
  <1>7. /\ Typed' /\ Counts' /\ Only({Field(x, k)})
        /\ \/ /\ job' = i /\ (Owned(Field(x, k))' <=> Owned(Field(y, k)))
           \/ job' = Exited /\ hold' = hold
    BY <1>3, <1>5, CloneCounts
  <1>8. job' \in {Idle, j, Exited}
    BY <1>6, <1>7
  <1>9. /\ SlotInv' /\ NameInv' /\ ListBounds' /\ TypeOK'
        /\ \A e \in Errs, m \in 1..NFields :
             ~(e = x /\ m = k) => hold'[Field(e, m)] = hold[Field(e, m)]
        /\ \A e \in Errs : e # x => Whole(e)'
    BY <1>1, <1>2, <1>4, <1>7, <1>8, FieldStep, IdleFacts DEF ErrOps, ListOps
  <1>10. CASE job' = Exited
    <2>1. WholeInv' /\ FieldInv' /\ JobInv'
      BY <1>10, IdleFacts DEF WholeInv, FieldInv, JobInv, ErrOps, ListOps
    <2> QED BY <1>7, <1>9, <2>1 DEF Inv
  <1>11. CASE job' # Exited
    <2>1. job' = i /\ (Owned(Field(x, k))' <=> Owned(Field(y, k)))
      BY <1>7, <1>11
    <2>2. \A m \in 1..NFields :
            m <= k => (Owned(Field(x, m))' <=> Owned(Field(y, m))')
      <3>1. \A m \in 1..NFields :
              m < k => (Owned(Field(x, m)) <=> Owned(Field(y, m)))
        BY <1>1, <1>2 DEF Inv, WholeInv
      <3>2. \A m \in 1..NFields : Owned(Field(y, m))' <=> Owned(Field(y, m))
        BY <1>2, <1>9 DEF Owned
      <3>3. \A m \in 1..NFields :
              m # k => (Owned(Field(x, m))' <=> Owned(Field(x, m)))
        BY <1>9 DEF Owned
      <3> QED BY <2>1, <3>1, <3>2, <3>3
    <2>3. CASE k = NFields
      <3>1. Whole(x)'
        <4>1. Whole(y)'
          BY <1>2, <1>9
        <4> QED BY <2>2, <2>3, <4>1 DEF Whole
      <3>2. WholeInv' /\ FieldInv' /\ JobInv'
        BY <1>6, <1>9, <2>1, <2>3, <3>1, IdleFacts
        DEF WholeInv, FieldInv, JobInv, ErrOps, ListOps
      <3> QED BY <1>7, <1>9, <3>2 DEF Inv
    <2>4. CASE k # NFields
      <3>1. job' = j /\ k + 1 \in 1..NFields
        BY <1>6, <2>1, <2>4
      <3>2. JobInv'
        BY <1>2, <1>4, <3>1 DEF JobInv, ErrOps, ListOps
      <3>3. FieldInv'
        <4>1. \A m \in 1..NFields : m >= k => ~Owned(Field(x, m))
          BY <1>1, <1>2 DEF Inv, FieldInv
        <4>2. \A m \in 1..NFields : m >= k + 1 => ~Owned(Field(x, m))'
          BY <1>9, <4>1 DEF Owned
        <4> QED BY <1>4, <3>1, <4>2 DEF FieldInv
      <3>4. WholeInv'
        <4>1. \A m \in 1..NFields :
                m < k + 1 => (Owned(Field(x, m))' <=> Owned(Field(y, m))')
          BY <2>2
        <4> QED BY <1>4, <1>9, <3>1, <4>1 DEF WholeInv, ErrOps
      <3> QED BY <1>7, <1>9, <3>2, <3>3, <3>4 DEF Inv
    <2> QED BY <2>3, <2>4
  <1> QED BY <1>10, <1>11

(***************************************************************************)
(* The theorems                                                            *)
(***************************************************************************)

LEMMA StutterInv == Inv /\ UNCHANGED vars => Inv'
  BY DEF vars, Inv, TypeOK, Counts, Holders, JobInv, SlotInv, NameInv,
         FieldInv, WholeInv, Whole, ListBounds, Owned

LEMMA NextInv == Inv /\ [Next]_vars => Inv'
  <1> SUFFICES ASSUME Inv, [Next]_vars PROVE Inv'
    OBVIOUS
  <1>1. ASSUME NEW v \in Vars, NewStr(v) \/ DropStr(v) \/ FromArrayItem(v)
        PROVE  Inv'
    BY <1>1, VarSteps, FromArrayStep
  <1>2. ASSUME NEW v \in Vars, NEW w \in Vars, CloneStr(v, w) PROVE Inv'
    BY <1>2, VarSteps
  <1>3. ASSUME NEW l \in Lists, NEW n \in 0..Limit + 1, FromArray(l, n)
        PROVE  Inv'
    BY <1>3, StartSteps
  <1>4. ASSUME NEW l \in Lists, ListDrop(l) \/ ReadDir(l) PROVE Inv'
    BY <1>4, StartSteps
  <1>5. ASSUME NEW l \in Lists, NEW v \in Vars, ListPush(l, v) \/ ListPop(l, v)
        PROVE  Inv'
    BY <1>5, ListPushStep, ListPopStep
  <1>6. ASSUME NEW l \in Lists, NEW v \in Vars, NEW i \in 0..Limit,
               ListGet(l, i, v) \/ ListReplace(l, i, v)
        PROVE  Inv'
    BY <1>6, VarSteps, ListReplaceStep
  <1>7. CASE ListDropItem \/ ListDropFree
    BY <1>7, DropItemStep, StartSteps
  <1>8. CASE ReadDirName \/ ReadDirPush \/ ReadDirDropName \/ ReadDirEnd
    BY <1>8, ReadDirSteps, StartSteps
  <1>9. ASSUME NEW e \in Errs,
               \/ DropErr(e) \/ \E n \in NRequired..NFields : MakeErr(e, n)
               \/ \E f \in Errs : CloneErr(e, f)
        PROVE  Inv'
    BY <1>9, StartSteps
  <1>10. ASSUME NEW e \in Errs, NEW k \in 1..NFields, NEW w \in Vars,
                ErrField(e, k, w)
         PROVE  Inv'
    BY <1>10, VarSteps
  <1>11. CASE MakeErrField \/ DropErrField \/ CloneErrField
    BY <1>11, MakeErrStep, DropErrStep, CloneErrStep
  <1>12. CASE UNCHANGED vars
    BY <1>12, StutterInv
  <1> QED
    BY <1>1, <1>2, <1>3, <1>4, <1>5, <1>6, <1>7, <1>8, <1>9, <1>10, <1>11,
       <1>12
    DEF Next

LEMMA Invariant == Spec => []Inv
  BY InitInv, NextInv, PTL DEF Spec

\* The counts, the places, the lists and the loops keep their types: no
\* reference count leaves 0..SIZE_MAX.
THEOREM TypeCorrect == Spec => []TypeOK
  <1>1. Inv => TypeOK
    BY DEF Inv
  <1> QED BY <1>1, Invariant, PTL

\* For any number of strings, lists and errors the reference count of an
\* owner is the number of places that hold it, in the middle of every loop
\* of the runtime too, and nq_str_drop never finds a count of 0.
THEOREM Refcounts == Spec => []RefcountExact
  <1>1. Inv => RefcountExact
    BY DEF Inv, Counts, JobInv, RefcountExact
  <1> QED BY <1>1, Invariant, PTL

\* When no function of the runtime is in progress, no string is left in its
\* locals or in the unused slots of a list.
THEOREM NoHiddenString == Spec => []NothingHidden
  <1>1. Inv => NothingHidden
    BY IdleFacts DEF Inv, SlotInv, NameInv, NothingHidden
  <1> QED BY <1>1, Invariant, PTL

\* For every growth policy that returns a capacity between what is needed
\* and the limit, a list never has more items than room.
THEOREM ListsFit == Spec => []ListBounds
  <1>1. Inv => ListBounds
    BY DEF Inv
  <1> QED BY <1>1, Invariant, PTL

\* For any number of fields, an io_err has its required ones or none.
THEOREM WholeErrors == Spec => []ErrorsWhole
  <1>1. Inv => ErrorsWhole
    BY IdleFacts DEF Inv, WholeInv, Whole, ErrOps, ErrorsWhole
  <1> QED BY <1>1, Invariant, PTL

==============================================================================
