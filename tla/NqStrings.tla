----------------------------- MODULE NqStrings -----------------------------
(***************************************************************************)
(* Ownership of strings in stdlib/runtime.c.  An NQStr points to a counted *)
(* owner (NQStrOwner) or to none, when it is a literal or empty.  The      *)
(* places that can hold an NQStr are the variables of the program, the     *)
(* slots of list<str>, the fields of io_err and the runtime's own local    *)
(* in read_dir.  Moving a string copies the pointer and forgets the        *)
(* source; the count changes only in nq_str_clone and nq_str_drop.         *)
(*                                                                         *)
(* The runtime's loops are taken one string at a time, so that a failed    *)
(* allocation can stop each of them half way.                              *)
(***************************************************************************)
EXTENDS Naturals, FiniteSets

CONSTANTS
  Owners,       \* addresses of NQStrOwner
  NoOwner,      \* the owner field is NULL
  Vars,         \* str variables of the program
  Lists, Errs,  \* its list<str> and io_err variables
  NFields,      \* strings in an io_err; the code has 5,
  NRequired,    \* of which the first 3 are always allocated
  Limit,        \* nq_sequence_limit
  MaxRef,       \* SIZE_MAX
  Grow(_, _)    \* nq_growth, for a capacity and what is needed

ASSUME FiniteAssumption ==
  IsFiniteSet(Vars) /\ IsFiniteSet(Lists) /\ IsFiniteSet(Errs)
ASSUME OwnerAssumption == NoOwner \notin Owners
ASSUME BoundsAssumption ==
  /\ NFields \in Nat /\ NRequired \in 1..NFields
  /\ Limit \in Nat \ {0} /\ MaxRef \in Nat \ {0}
ASSUME GrowAssumption ==
  \A c \in 0..Limit, need \in 0..Limit :
    /\ Grow(c, need) \in need..Limit
    /\ need <= c => Grow(c, need) = c

VARIABLES
  ref,   \* ref_count of each owner, 0 when it is not allocated
  hold,  \* the owner each place holds
  len,   \* len and cap of each list
  cap,
  job    \* the runtime function in progress

vars == <<ref, hold, len, cap, job>>

Places ==
  ({"var"} \X Vars \X {0}) \cup ({"list"} \X Lists \X (0..Limit - 1))
    \cup ({"err"} \X Errs \X (1..NFields)) \cup {<<"name", NoOwner, 0>>}

Var(v) == <<"var", v, 0>>
Slot(l, i) == <<"list", l, i>>
Field(e, k) == <<"err", e, k>>
Name == <<"name", NoOwner, 0>>

Holders(o) == {p \in Places : hold[p] = o}

\* A function of the runtime that works on the list or error x, has reached
\* k of n, and copies from y.
Loop(op, x, y, k, n) == [op |-> op, x |-> x, y |-> y, k |-> k, n |-> n]
Idle == Loop("idle", NoOwner, NoOwner, 0, 0)
Exited == Loop("exit", NoOwner, NoOwner, 0, 0)
Aborted == Loop("abort", NoOwner, NoOwner, 0, 0)

Loops == [op : {"idle", "exit", "abort", "from_array", "drop_list", "read_dir",
                "push_name", "drop_name", "make_err", "drop_err", "clone_err"},
          x : Lists \cup Errs \cup {NoOwner}, y : Errs \cup {NoOwner},
          k : Nat, n : Nat]

\* Types of the counts, the places, the lists and the control.
TypeOK ==
  /\ ref \in [Owners -> 0..MaxRef]
  /\ hold \in [Places -> Owners \cup {NoOwner}]
  /\ len \in [Lists -> 0..Limit] /\ cap \in [Lists -> 0..Limit]
  /\ job \in Loops

Init ==
  /\ ref = [o \in Owners |-> 0]
  /\ hold = [p \in Places |-> NoOwner]
  /\ len = [l \in Lists |-> 0] /\ cap = [l \in Lists |-> 0]
  /\ job = Idle

Owned(p) == hold[p] \in Owners
Then(j) == job' = j
Step(k) == [job EXCEPT !.k = k]

(***************************************************************************)
(* What happens to one string                                              *)
(***************************************************************************)

\* nq_try_str_take: a new owner with one reference, held by p.
Take(p, j) ==
  /\ \E o \in Owners :
       /\ ref[o] = 0
       /\ ref' = [ref EXCEPT ![o] = 1]
       /\ hold' = [hold EXCEPT ![p] = o]
  /\ Then(j)

\* Mutant: the count wraps around.
CloneWraps(p, q, j) ==
  IF Owned(p)
  THEN /\ ref' = [ref EXCEPT ![hold[p]] = (@ + 1) % (MaxRef + 1)]
       /\ hold' = [hold EXCEPT ![q] = hold[p]]
       /\ Then(j)
  ELSE Then(j) /\ UNCHANGED <<ref, hold>>

\* nq_str_clone from p to q; a saturated count ends the program.
Clone(p, q, j) ==
  \/ /\ Owned(p) /\ ref[hold[p]] < MaxRef
     /\ ref' = [ref EXCEPT ![hold[p]] = @ + 1]
     /\ hold' = [hold EXCEPT ![q] = hold[p]]
     /\ Then(j)
  \/ /\ Owned(p) /\ ref[hold[p]] = MaxRef
     /\ Then(Exited)
     /\ UNCHANGED <<ref, hold>>
  \/ /\ ~Owned(p)
     /\ Then(j)
     /\ UNCHANGED <<ref, hold>>

\* nq_str_drop of p; a count of 0 aborts.
Release(p, j) ==
  \/ /\ Owned(p) /\ ref[hold[p]] > 0
     /\ ref' = [ref EXCEPT ![hold[p]] = @ - 1]
     /\ hold' = [hold EXCEPT ![p] = NoOwner]
     /\ Then(j)
  \/ /\ Owned(p) /\ ref[hold[p]] = 0
     /\ Then(Aborted)
     /\ UNCHANGED <<ref, hold>>
  \/ /\ ~Owned(p)
     /\ Then(j)
     /\ UNCHANGED <<ref, hold>>

\* The string in p moves to q, which holds none.
Move(p, q) ==
  /\ hold' = [hold EXCEPT ![q] = hold[p], ![p] = NoOwner]
  /\ UNCHANGED ref

\* nq_alloc_fail and nq_size_fail end the program.
Fails == Then(Exited) /\ UNCHANGED <<ref, hold, len, cap>>

Lengths == UNCHANGED <<len, cap>>

(***************************************************************************)
(* Strings in variables.  The compiler assigns only to a variable that     *)
(* owns nothing.                                                           *)
(***************************************************************************)

\* nq_owned_str_copy, nq_str_concat, nq_str_join, nq_str_from_bytes.
NewStr(v) ==
  /\ job = Idle /\ ~Owned(Var(v))
  /\ (Take(Var(v), Idle) /\ Lengths) \/ Fails

CloneStr(v, w) ==
  /\ job = Idle /\ ~Owned(Var(w)) /\ v # w
  /\ Clone(Var(v), Var(w), Idle) /\ Lengths

DropStr(v) ==
  /\ job = Idle
  /\ Release(Var(v), Idle) /\ Lengths

(***************************************************************************)
(* list<str>                                                               *)
(***************************************************************************)

\* nq_list_capacity; an item count above the limit is refused.
Fits(l) == len[l] + 1 <= Limit

NextCap(l) == Grow(cap[l], len[l] + 1)

\* nq_list__str_from_array into a list that owns nothing, item by item.
FromArray(l, n) ==
  /\ job = Idle /\ cap[l] = 0
  /\ \/ /\ n <= Limit
        /\ cap' = [cap EXCEPT ![l] = n]
        /\ Then(IF n = 0 THEN Idle ELSE Loop("from_array", l, NoOwner, 0, n))
        /\ UNCHANGED <<ref, hold, len>>
     \/ n > 0 /\ Fails

FromArrayItem(v) ==
  /\ job.op = "from_array"
  /\ Move(Var(v), Slot(job.x, job.k))
  /\ len' = [len EXCEPT ![job.x] = @ + 1]
  /\ Then(IF job.k + 1 = job.n THEN Idle ELSE Step(job.k + 1))
  /\ UNCHANGED cap

\* nq_try_list_str_push moves p into the list, or reports a failure.
Push(l, p, j) ==
  /\ Fits(l)
  /\ Move(p, Slot(l, len[l]))
  /\ len' = [len EXCEPT ![l] = @ + 1]
  /\ cap' = [cap EXCEPT ![l] = NextCap(l)]
  /\ Then(j)
PushFails(l) == Fits(l) => NextCap(l) # cap[l]

ListPush(l, v) ==
  /\ job = Idle
  /\ Push(l, Var(v), Idle) \/ (PushFails(l) /\ Fails)

\* Out of range it returns None and nothing is cloned.
ListGet(l, i, w) ==
  /\ job = Idle /\ i < len[l] /\ ~Owned(Var(w))
  /\ Clone(Slot(l, i), Var(w), Idle) /\ Lengths

\* nq_list__str_replace gives back the old item; a value that finds no
\* place is dropped.
ListReplace(l, i, v) ==
  /\ job = Idle
  /\ \/ /\ i < len[l]
        /\ hold' = [hold EXCEPT ![Slot(l, i)] = hold[Var(v)],
                                ![Var(v)] = hold[Slot(l, i)]]
        /\ UNCHANGED <<ref, job>>
     \/ i >= len[l] /\ Release(Var(v), Idle)
  /\ Lengths

ListPop(l, w) ==
  /\ job = Idle /\ len[l] > 0 /\ ~Owned(Var(w))
  /\ Move(Slot(l, len[l] - 1), Var(w))
  /\ len' = [len EXCEPT ![l] = @ - 1]
  /\ UNCHANGED <<cap, job>>

ListDrop(l) ==
  /\ job = Idle /\ cap[l] > 0
  /\ Then(Loop("drop_list", l, NoOwner, 0, 0))
  /\ UNCHANGED <<ref, hold, len, cap>>

ListDropItem ==
  /\ job.op = "drop_list" /\ job.k < len[job.x]
  /\ Release(Slot(job.x, job.k), Step(job.k + 1))
  /\ Lengths

ListDropFree ==
  /\ job.op = "drop_list" /\ job.k >= len[job.x]
  /\ len' = [len EXCEPT ![job.x] = 0] /\ cap' = [cap EXCEPT ![job.x] = 0]
  /\ Then(Idle)
  /\ UNCHANGED <<ref, hold>>

(***************************************************************************)
(* nq_read_dir fills a list with new strings, or frees it and fails        *)
(***************************************************************************)
ReadDir(l) ==
  /\ job = Idle /\ cap[l] = 0
  /\ Then(Loop("read_dir", l, NoOwner, 0, 0))
  /\ UNCHANGED <<ref, hold, len, cap>>

\* One entry: the capacity is checked and the name copied before the push.
ReadDirName ==
  /\ job.op = "read_dir"
  /\ \/ Fits(job.x) /\ Take(Name, [job EXCEPT !.op = "push_name"])
     \/ Then([job EXCEPT !.op = "drop_name"]) /\ UNCHANGED <<ref, hold>>
  /\ Lengths

\* Mutant: a failed push keeps the list that was built so far.
ReadDirPushLeaks ==
  /\ job.op = "push_name"
  /\ \/ Push(job.x, Name, [job EXCEPT !.op = "read_dir"])
     \/ PushFails(job.x) /\ Then(Idle) /\ UNCHANGED <<ref, hold, len, cap>>

ReadDirPush ==
  /\ job.op = "push_name"
  /\ \/ Push(job.x, Name, [job EXCEPT !.op = "read_dir"])
     \/ /\ PushFails(job.x)
        /\ Then([job EXCEPT !.op = "drop_name"])
        /\ UNCHANGED <<ref, hold, len, cap>>

ReadDirDropName ==
  /\ job.op = "drop_name"
  /\ Release(Name, [job EXCEPT !.op = "drop_list"])
  /\ Lengths

\* The end of the directory; an error of readdir or closedir frees the list.
ReadDirEnd ==
  /\ job.op = "read_dir"
  /\ Then(Idle) \/ Then([job EXCEPT !.op = "drop_list"])
  /\ UNCHANGED <<ref, hold, len, cap>>

(***************************************************************************)
(* io_err                                                                  *)
(***************************************************************************)

\* nq_make_io_err_details with none, one or two of the optional paths.
MakeErr(e, n) ==
  /\ job = Idle
  /\ \A k \in 1..NFields : ~Owned(Field(e, k))
  /\ Then(Loop("make_err", e, NoOwner, 1, n))
  /\ UNCHANGED <<ref, hold, len, cap>>

\* Mutant: a failed copy returns without dropping the earlier fields.
MakeErrFieldLeaks ==
  /\ job.op = "make_err"
  /\ \/ Take(Field(job.x, job.k),
             IF job.k = job.n THEN Idle ELSE Step(job.k + 1))
     \/ Then(Idle) /\ UNCHANGED <<ref, hold>>
  /\ Lengths

\* The fields are copied in order; after a failure all are dropped and the
\* static allocation error is returned.
MakeErrField ==
  /\ job.op = "make_err"
  /\ \/ Take(Field(job.x, job.k),
             IF job.k = job.n THEN Idle ELSE Step(job.k + 1))
     \/ Then(Loop("drop_err", job.x, NoOwner, 1, 0)) /\ UNCHANGED <<ref, hold>>
  /\ Lengths

DropErr(e) ==
  /\ job = Idle
  /\ Then(Loop("drop_err", e, NoOwner, 1, 0))
  /\ UNCHANGED <<ref, hold, len, cap>>

DropErrField ==
  /\ job.op = "drop_err"
  /\ Release(Field(job.x, job.k),
             IF job.k = NFields THEN Idle ELSE Step(job.k + 1))
  /\ Lengths

CloneErr(e, f) ==
  /\ job = Idle /\ e # f
  /\ \A k \in 1..NFields : ~Owned(Field(f, k))
  /\ Then(Loop("clone_err", f, e, 1, 0))
  /\ UNCHANGED <<ref, hold, len, cap>>

CloneErrField ==
  /\ job.op = "clone_err"
  /\ Clone(Field(job.y, job.k), Field(job.x, job.k),
           IF job.k = NFields THEN Idle ELSE Step(job.k + 1))
  /\ Lengths

\* nq_io_err_text, _kind, _operation, _path and _other_path.
ErrField(e, k, w) ==
  /\ job = Idle /\ ~Owned(Var(w))
  /\ Clone(Field(e, k), Var(w), Idle) /\ Lengths

------------------------------------------------------------------------------

Next ==
  \/ \E v \in Vars : NewStr(v) \/ DropStr(v) \/ FromArrayItem(v)
  \/ \E v, w \in Vars : CloneStr(v, w)
  \/ \E l \in Lists :
       \/ \E n \in 0..Limit + 1 : FromArray(l, n)
       \/ ListDrop(l) \/ ReadDir(l)
       \/ \E v \in Vars :
            \/ ListPush(l, v) \/ ListPop(l, v)
            \/ \E i \in 0..Limit : ListGet(l, i, v) \/ ListReplace(l, i, v)
  \/ ListDropItem \/ ListDropFree
  \/ ReadDirName \/ ReadDirPush \/ ReadDirDropName \/ ReadDirEnd
  \/ \E e \in Errs :
       \/ DropErr(e)
       \/ \E n \in NRequired..NFields : MakeErr(e, n)
       \/ \E f \in Errs : CloneErr(e, f)
       \/ \E k \in 1..NFields, w \in Vars : ErrField(e, k, w)
  \/ MakeErrField \/ DropErrField \/ CloneErrField
  \/ job = Exited /\ UNCHANGED vars

Spec == Init /\ [][Next]_vars

------------------------------------------------------------------------------
(***************************************************************************)
(* Properties                                                              *)
(***************************************************************************)

\* The reference count is the number of places that hold the owner: nothing
\* is freed while it is held, nothing held is forgotten, and the "invalid
\* string reference count" abort is unreachable.
RefcountExact ==
  /\ \A o \in Owners : ref[o] = Cardinality(Holders(o))
  /\ job # Aborted

\* Between two operations only the program's own values hold strings: the
\* runtime's local holds none, nor does a list beyond its length.
NothingHidden ==
  job = Idle =>
    /\ ~Owned(Name)
    /\ \A l \in Lists, i \in 0..Limit - 1 : i >= len[l] => ~Owned(Slot(l, i))

\* An io_err is whole or holds nothing: an allocation that fails while the
\* fields are copied leaves none of them behind.
ErrorsWhole ==
  job = Idle =>
    \A e \in Errs, k \in 1..NFields, r \in 1..NRequired :
      Owned(Field(e, k)) => Owned(Field(e, r))

\* No push writes past the storage of its list.
ListBounds == \A l \in Lists : len[l] <= cap[l]

==============================================================================
