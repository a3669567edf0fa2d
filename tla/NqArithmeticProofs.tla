------------------------ MODULE NqArithmeticProofs --------------------------
(***************************************************************************)
(* Proofs about the sizes of growing storage (NqBuffer), for every width   *)
(* of size_t, every limit, initial capacity, chunk and element size, and   *)
(* about numbers and time (NqNumbers), for every width and every length of *)
(* the second: nothing is formed that its type cannot hold, limits and     *)
(* results are exact up to both ends of the range.                         *)
(***************************************************************************)
EXTENDS NqBuffer, NqNumbers, TLAPS

-----------------------------------------------------------------------------
(* Growing storage *)

Reading == op \in {"line", "text", "bytes", "list"}

\* The limit that each operation passes; a line that ends needs one more.
LineMax == BufferMax(IF FitsSum(StrLimit, 1, SizeMax) THEN StrLimit + 1
                                                      ELSE SizeMax)
MaxOf(o, l) ==
  CASE o = "line" -> IF l = "eof" THEN LineMax ELSE BufferMax(StrLimit)
    [] o = "text" -> BufferMax(StrLimit)
    [] o = "bytes" -> BufferMax(BytesLimit)
    [] o = "list" -> Least(StrLimit, AllocLimit \div Item)
    [] o = "cwd" -> CwdLimit
    [] OTHER -> 0

\* Which operations are at which step.
ControlInv ==
  /\ pc \in {"input", "store", "finish"} => Reading
  /\ pc \in {"grow", "alloc"} => Reading \/ op = "cwd"
  /\ pc = "getcwd" => op = "cwd"
  /\ pc \in {"text", "unterminated"} => op = "text"
  /\ pc = "failed" => Reading \/ op = "cwd"
  /\ pc = "take" => op \in {"line", "text", "cwd"}
  /\ pc = "input" => last = "no"
  /\ pc = "finish" => op # "list"
  /\ op = "list" => last = "no"
  /\ pc \in {"grow", "alloc", "store"} /\ op = "line" => last # "error"

\* The block holds the capacity, and the capacity what is stored and is
\* within the limit of the operation.
RoomInv ==
  Reading /\ pc \in {"input", "grow", "alloc", "store", "finish", "text"} =>
    len <= cap /\ cap <= MaxOf(op, last) /\ block = cap * Width

\* A reservation is for what does not fit yet, and growth stays within the
\* limit and ahead of the capacity.
GrowInv ==
  /\ pc \in {"grow", "alloc"} =>
       /\ limit = MaxOf(op, last)
       /\ next \in 1..limit
       /\ cap > 0 => cap < needed
       /\ cap > 0 => next = cap \/ next >= 2 * cap \/ next = limit
       /\ pc = "alloc" /\ cap > 0 => next >= needed
  /\ pc = "grow" => needed <= limit /\ needed > cap
  /\ pc = "alloc" /\ Reading => next >= needed
  /\ pc \in {"grow", "alloc", "store"} /\ Reading => needed = len + extra
  /\ pc = "store" => needed <= cap
  /\ pc \in {"grow", "alloc", "store"} /\ op = "line" => extra = 1
  /\ pc \in {"grow", "alloc", "store"} /\ Reading => extra >= 1

\* Every item of the input is stored or about to be; the terminator of a
\* line is one item more.
CountInv ==
  /\ pc \in {"input", "finish", "text", "take"} => len = taken
  /\ pc \in {"grow", "alloc", "store"} /\ Reading =>
       len + extra = IF op = "line" /\ last = "eof" THEN taken + 1 ELSE taken
  /\ pc = "finish" /\ op = "line" => len + 1 <= cap
  /\ pc = "take" => len + 1 <= block

\* current_dir between two calls of getcwd: its buffer is the capacity, or
\* released before the next.
CwdInv ==
  /\ op = "cwd" /\ pc \in {"grow", "alloc"} => block = 0 /\ len = 0
  /\ op = "cwd" => limit = CwdLimit
  /\ pc = "getcwd" => block = cap /\ cap \in 1..limit /\ len = 0

\* Until it returns, an operation holds the block that its pointer names and
\* no other; what it returns with is in Owned.
HeldInv == pc # "idle" => held = IF block = 0 THEN 0 ELSE 1

\* A caller that is told of a failure still has to free; the next buffer of
\* current_dir is not there yet.
FailInv ==
  pc \in {"failed", "unterminated"} =>
    /\ out \in {"size", "oom"}
    /\ out = "size" => TooLong(op, taken)
    /\ op = "cwd" => block = 0

Inv ==
  /\ TypeOK /\ ControlInv /\ RoomInv /\ GrowInv /\ CountInv /\ CwdInv
  /\ HeldInv /\ FailInv /\ LimitsExact /\ NothingLeaks

(***************************************************************************)
(* Arithmetic                                                              *)
(***************************************************************************)

LEMMA WrapSmall == \A n \in Size : Wrap(n) = n
  BY SizeAssumption, SMT DEF Wrap, Size

LEMMA WrapSize == \A n \in Int : Wrap(n) \in Size
  BY SizeAssumption, SMT DEF Wrap, Size

\* A limit on bytes is a limit on items.
LEMMA DivBound ==
  ASSUME NEW a \in Nat, NEW b \in Nat \ {0}, NEW x \in Nat
  PROVE  x <= a \div b <=> x * b <= a
  <1>1. a \div b \in Nat
    BY SMT
  <1>2. (a \div b) * b <= a /\ a < ((a \div b) + 1) * b
    BY SMT
  <1>3. ASSUME x <= a \div b PROVE x * b <= a
    BY <1>1, <1>2, <1>3, SMT
  <1>4. ASSUME ~(x <= a \div b) PROVE ~(x * b <= a)
    BY <1>1, <1>2, <1>4, SMT
  <1>5. QED BY <1>3, <1>4

LEMMA Monotone ==
  ASSUME NEW x \in Nat, NEW y \in Nat, NEW b \in Nat, x <= y
  PROVE  x * b <= y * b
  BY SMT


\* Every limit is a size that can be allocated.
LEMMA MaxFacts ==
  /\ \A o, l : MaxOf(o, l) \in Size /\ MaxOf(o, l) <= AllocLimit
  /\ MaxOf("list", "no") * Item <= AllocLimit
  /\ \A o, l : MaxOf(o, "no") <= MaxOf(o, l)
  /\ CwdLimit \in 1..AllocLimit
  <1>1. AllocLimit \div Item \in Nat /\ AllocLimit \div Item <= AllocLimit
    BY SizeAssumption, SMT
  <1>2. MaxOf("list", "no") \in Nat /\ MaxOf("list", "no") <= AllocLimit \div Item
    BY <1>1, SizeAssumption DEF MaxOf, Least
  <1>3. MaxOf("list", "no") * Item <= AllocLimit
    BY <1>2, DivBound, SizeAssumption
  <1>4. CwdLimit \in 1..AllocLimit
    BY SizeAssumption DEF CwdLimit, FitsSum
  <1>5. \A o, l : MaxOf(o, l) \in Size /\ MaxOf(o, l) <= AllocLimit
    BY <1>1, <1>4, SizeAssumption
    DEF MaxOf, LineMax, BufferMax, Least, Size, FitsSum
  <1>6. ASSUME NEW o, NEW l PROVE MaxOf(o, "no") <= MaxOf(o, l)
    <2>1. CASE o = "line"
      BY <2>1, SizeAssumption DEF MaxOf, LineMax, BufferMax, Least, FitsSum
    <2>2. CASE o # "line"
      <3>1. MaxOf(o, "no") = MaxOf(o, l)
        BY <2>2 DEF MaxOf
      <3> QED BY <1>5, <3>1, SizeAssumption DEF Size
    <2> QED BY <2>1, <2>2
  <1> QED BY <1>3, <1>4, <1>5, <1>6

\* An input is too long exactly when it exceeds the limit of its operation.
LEMMA TooLongMax ==
  ASSUME NEW o, NEW l, NEW n \in Nat
  PROVE  /\ o \in {"text", "bytes", "list"} \/ (o = "line" /\ l # "eof") =>
              (n > MaxOf(o, l) => TooLong(o, n))
         /\ o = "line" /\ l = "eof" => (n + 1 > MaxOf(o, l) => TooLong(o, n))
         /\ o = "cwd" => (n + 1 > CwdLimit => TooLong(o, n))
         /\ o \in {"bytes", "list"} /\ n <= MaxOf(o, l) => ~TooLong(o, n)
  <1>1. CASE o = "list"
    <2>1. AllocLimit \div Item \in Nat
      BY SizeAssumption, SMT
    <2>2. n <= AllocLimit \div Item <=> n * Item <= AllocLimit
      BY DivBound, SizeAssumption
    <2>3. MaxOf(o, l) = Least(StrLimit, AllocLimit \div Item)
      BY <1>1 DEF MaxOf
    <2>4. TooLong(o, n) <=> n > StrLimit \/ n * Item > AllocLimit
      BY <1>1 DEF TooLong
    <2>5. n * Item \in Nat
      BY SizeAssumption
    <2> QED BY <1>1, <2>1, <2>2, <2>3, <2>4, <2>5, SizeAssumption DEF Least
  <1>2. CASE o \in {"line", "text", "bytes"}
    BY <1>2, SizeAssumption
    DEF TooLong, MaxOf, LineMax, BufferMax, Least, FitsSum
  <1>3. CASE o = "cwd"
    BY <1>3, SizeAssumption DEF TooLong, CwdLimit, FitsSum
  <1>4. CASE o \notin {"line", "text", "bytes", "list", "cwd"}
    BY <1>4
  <1> QED BY <1>1, <1>2, <1>3, <1>4

(***************************************************************************)
(* The invariant                                                           *)
(***************************************************************************)

LEMMA InitInv == Init => Inv
  BY SizeAssumption
  DEF Init, Inv, TypeOK, ControlInv, RoomInv, GrowInv, CountInv, CwdInv,
      HeldInv, FailInv, LimitsExact, NothingLeaks, Owned, Size, Reading

\* An operation that frees its block and returns without a value holds
\* nothing.
LEMMA ReturnInv ==
  ASSUME Inv, pc # "idle",
         NEW r \in {"empty", "size", "oom", "error"}, FreeAndReturn(r),
         op' = op, taken' \in Nat, last' \in {"no", "eof", "error"},
         op = "list" => last' = "no",
         extra' \in Size, needed' \in Size, next' \in Size, limit' = limit,
         r = "size" => TooLong(op, taken')
  PROVE  Inv'
  <1>1. /\ pc' = "idle" /\ out' = r
        /\ block' = block /\ len' = len /\ cap' = cap
    BY DEF FreeAndReturn
  <1>2. held' = 0
    BY DEF FreeAndReturn, Free, Inv, HeldInv
  <1>3. TypeOK'
    BY <1>1, <1>2, SizeAssumption DEF Inv, TypeOK
  <1>4. ControlInv' /\ RoomInv' /\ GrowInv' /\ CountInv' /\ CwdInv'
    BY <1>1 DEF Inv, ControlInv, RoomInv, GrowInv, CountInv, CwdInv
  <1>5. HeldInv' /\ FailInv' /\ LimitsExact' /\ NothingLeaks'
    BY <1>1, <1>2 DEF HeldInv, FailInv, LimitsExact, NothingLeaks, Owned
  <1> QED BY <1>3, <1>4, <1>5 DEF Inv

\* What an action that returns leaves alone, in the form that ReturnInv
\* asks for.
LEMMA Kept ==
  ASSUME Inv, UNCHANGED <<op, taken, last, extra, needed, limit, next>>
  PROVE  /\ extra' \in Size /\ needed' \in Size /\ next' \in Size
         /\ limit' = limit /\ op' = op
         /\ taken' \in Nat /\ last' \in {"no", "eof", "error"}
         /\ op = "list" => last' = "no"
  BY DEF Inv, TypeOK, ControlInv

\* A reservation made with the limit of the operation.
LEMMA ReserveInv ==
  ASSUME Inv, pc = "input", NEW n \in Size, n >= 1, op' = op,
         last' \in {"no", "eof", "error"},
         op = "list" => last' = "no",
         op = "line" => last' # "error",
         taken' = IF op = "line" /\ last' = "eof" THEN taken ELSE taken + n,
         op = "line" => n = 1,
         Reserve(n, MaxOf(op, last'))
  PROVE  Inv'
  <1> DEFINE m == MaxOf(op, last')
  <1>1. /\ m \in Size /\ m <= AllocLimit
        /\ MaxOf(op, "no") <= m
        /\ m = MaxOf(op', last')
    BY MaxFacts
  <1>2. /\ Reading /\ last = "no" /\ len = taken
        /\ len <= cap /\ cap <= MaxOf(op, last) /\ block = cap * Width
        /\ len \in Nat /\ cap \in Nat /\ block \in 0..AllocLimit
        /\ taken \in Nat /\ m \in Nat /\ n \in Nat
        /\ MaxOf(op, "no") \in Nat
    BY MaxFacts, SizeAssumption DEF Inv, TypeOK, ControlInv, RoomInv, CountInv, Size
  <1>3. cap <= m
    <2> HIDE DEF m
    <2> QED BY <1>1, <1>2
  <1>4. taken' \in Nat
    BY <1>2 DEF Size
  <1>5. CASE ~FitsSum(len, n, m)
    <2>1. /\ pc' = "failed" /\ out' = "size"
          /\ UNCHANGED <<len, cap, block, held, extra, needed, limit, next>>
      BY <1>5 DEF Reserve, data, locals
    <2>2. len + n > m
      BY <1>1, <1>2, <1>3, <1>5 DEF FitsSum, Size
    <2>3. TooLong(op, taken')
      <3>1. CASE op = "line" /\ last' = "eof"
        <4>1. taken + 1 > m
          BY <1>2, <2>2, <3>1
        <4>2. taken' + 1 > MaxOf(op', last')
          BY <1>1, <4>1, <3>1
        <4> QED BY <1>1, <1>4, <3>1, <4>2, TooLongMax
      <3>2. CASE ~(op = "line" /\ last' = "eof")
        <4>1. taken' > MaxOf(op', last')
          BY <1>1, <1>2, <2>2, <3>2
        <4>2. op \in {"text", "bytes", "list"} \/ (op = "line" /\ last' # "eof")
          BY <1>2, <3>2 DEF Reading
        <4> QED BY <1>1, <1>4, <4>1, <4>2, TooLongMax
      <3> QED BY <3>1, <3>2
    <2>4. TypeOK' /\ ControlInv' /\ RoomInv' /\ GrowInv' /\ CountInv'
      BY <1>2, <1>4, <2>1
      DEF Inv, TypeOK, ControlInv, RoomInv, GrowInv, CountInv, Reading
    <2>5. CwdInv' /\ HeldInv' /\ FailInv'
      BY <1>2, <2>1, <2>3
      DEF Inv, CwdInv, HeldInv, FailInv, Reading
    <2>6. LimitsExact' /\ NothingLeaks'
      BY <2>1 DEF LimitsExact, NothingLeaks
    <2> QED BY <2>4, <2>5, <2>6 DEF Inv
  <1>6. CASE FitsSum(len, n, m)
    <2>1. /\ extra' = n /\ limit' = m /\ needed' = Wrap(len + n)
          /\ IF needed' <= cap
             THEN pc' = "store" /\ next' = cap
             ELSE pc' = "grow" /\ next' = First(m)
          /\ UNCHANGED <<data, out>>
      BY <1>1, <1>2, <1>3, <1>6, SizeAssumption DEF Reserve, Size
    <2>2. len + n <= m /\ len + n \in Size
      <3> HIDE DEF m
      <3>1. m <= SizeMax
        BY <1>1, SizeAssumption DEF Size
      <3> QED BY <1>2, <1>6, <3>1, SizeAssumption DEF FitsSum, Size
    <2>3. needed' = len + n
      BY <2>1, <2>2, WrapSmall
    <2>4. /\ len' = len /\ cap' = cap /\ block' = block /\ held' = held
          /\ out' = out
      BY <2>1 DEF data
    <2>5. needed' > cap => First(m) \in 1..m /\ (cap > 0 => First(m) = cap)
      BY <1>1, <1>2, <1>3, <2>2, <2>3, SizeAssumption DEF First, Least, Size
    <2>6. pc' \in {"store", "grow"} /\ next' \in Size
      BY <1>1, <1>2, <1>3, <2>1, <2>3, <2>5, SizeAssumption DEF Size
    <2>7. TypeOK'
      BY <1>1, <1>2, <1>4, <2>1, <2>2, <2>3, <2>4, <2>6 DEF Inv, TypeOK
    <2>8. ControlInv'
      BY <1>2, <2>6 DEF ControlInv, Reading
    <2>9. RoomInv'
      <3>1. Width' = Width
        BY DEF Width
      <3> QED BY <1>1, <1>2, <1>3, <2>4, <3>1 DEF RoomInv
    <2>10. GrowInv'
      BY <1>1, <1>2, <2>1, <2>2, <2>3, <2>4, <2>5, <2>6 DEF GrowInv, Size
    <2>11. CountInv'
      BY <1>2, <2>1, <2>4, <2>6 DEF CountInv
    <2>12. CwdInv' /\ HeldInv' /\ FailInv'
      BY <1>2, <2>4, <2>6 DEF Inv, CwdInv, HeldInv, FailInv, Reading
    <2>13. LimitsExact' /\ NothingLeaks'
      BY <2>6 DEF LimitsExact, NothingLeaks
    <2> QED BY <2>7, <2>8, <2>9, <2>10, <2>11, <2>12, <2>13 DEF Inv
  <1> QED BY <1>5, <1>6

LEMMA InputInv ==
  ASSUME Inv, GetByte \/ LineEnd \/ ReadChunk \/ Push
  PROVE  Inv'
  <1>0. taken \in Nat /\ 1 \in Size /\ limit \in Size
    BY SizeAssumption DEF Inv, TypeOK, Size
  <1>1. CASE GetByte
    <2>1. last = "no" /\ last' = "no" /\ op = "line" /\ op' = op
      BY <1>1 DEF GetByte, Inv, ControlInv
    <2>2. MaxOf(op, last') = BufferMax(StrLimit)
      BY <2>1 DEF MaxOf
    <2> QED BY <1>0, <1>1, <2>1, <2>2, ReserveInv DEF GetByte
  <1>2. CASE LineEnd
    <2>1. pc = "input" /\ op = "line" /\ op' = op /\ taken' = taken
      BY <1>2 DEF LineEnd
    <2>2. CASE FreeAndReturn("empty") /\ UNCHANGED <<locals, last>>
      BY <1>0, <2>1, <2>2, ReturnInv DEF locals, Inv, TypeOK
    <2>3. CASE ~(FreeAndReturn("empty") /\ UNCHANGED <<locals, last>>)
      <3>1. last' = "eof" /\ Reserve(1, LineMax)
        BY <1>2, <2>3 DEF LineEnd, LineMax
      <3>2. MaxOf(op, last') = LineMax
        BY <2>1, <3>1 DEF MaxOf
      <3> QED BY <1>0, <2>1, <3>1, <3>2, ReserveInv
    <2> QED BY <2>2, <2>3
  <1>3. CASE ReadChunk
    <2>0. PICK n \in 1..Chunk :
            /\ taken' = taken + n
            /\ last' \in IF n = Chunk THEN {"no"} ELSE {"eof", "error"}
            /\ Reserve(n, BufferMax(IF op = "text" THEN StrLimit
                                                   ELSE BytesLimit))
      BY <1>3 DEF ReadChunk
    <2>1. pc = "input" /\ op \in {"text", "bytes"} /\ op' = op
      BY <1>3 DEF ReadChunk
    <2>2. MaxOf(op, last') = BufferMax(IF op = "text" THEN StrLimit
                                                      ELSE BytesLimit)
      BY <2>1 DEF MaxOf
    <2>3. n \in Size /\ n >= 1
      BY SizeAssumption DEF Size
    <2> QED BY <1>0, <2>0, <2>1, <2>2, <2>3, ReserveInv
  <1>4. CASE Push
    <2>1. last = "no" /\ last' = "no" /\ op = "list" /\ op' = op
      BY <1>4 DEF Push, Inv, ControlInv
    <2>2. MaxOf(op, last') = Least(StrLimit, AllocLimit \div Item)
      BY <2>1 DEF MaxOf
    <2> QED BY <1>0, <1>4, <2>1, <2>2, ReserveInv DEF Push
  <1> QED BY <1>1, <1>2, <1>3, <1>4

\* The start of an operation, and the steps that end the input.
LEMMA EndsInv ==
  ASSUME Inv,
         \/ \E o \in {"line", "text", "bytes", "list"} : Begin(o)
         \/ BeginCwd \/ ReadNothing \/ LineError \/ NameFails \/ PushEnd
  PROVE  Inv'
  <1>1. CASE \E o \in {"line", "text", "bytes", "list"} : Begin(o)
    <2>0. PICK o \in {"line", "text", "bytes", "list"} : Begin(o)
      BY <1>1
    <2>1. /\ op' = o /\ pc' = "input" /\ out' = "none" /\ last' = "no"
          /\ len' = 0 /\ cap' = 0 /\ block' = 0 /\ held' = 0 /\ taken' = 0
          /\ UNCHANGED <<extra, needed, limit, next>>
      BY <2>0 DEF Begin, locals
    <2>2. TypeOK'
      BY <2>1, SizeAssumption DEF Inv, TypeOK, Size
    <2>3. RoomInv'
      <3>1. MaxOf(op', last') \in Nat /\ Width' \in Nat
        BY MaxFacts, SizeAssumption DEF Size, Width
      <3>2. 0 * Width' = 0 /\ 0 <= MaxOf(op', last')
        <4>1. \A w \in Nat : 0 * w = 0 /\ 0 <= w
          OBVIOUS
        <4> HIDE DEF Width, MaxOf
        <4> QED BY <3>1, <4>1, Zenon
      <3>3. MaxOf(op, last)' = MaxOf(op', last')
        OBVIOUS
      <3> HIDE DEF Width
      <3> QED BY <2>1, <3>2, <3>3 DEF RoomInv
    <2>4. /\ ControlInv' /\ GrowInv' /\ CountInv' /\ CwdInv' /\ HeldInv'
          /\ FailInv'
      BY <2>1 DEF ControlInv, GrowInv, CountInv, CwdInv, HeldInv, FailInv, Reading
    <2>5. LimitsExact' /\ NothingLeaks'
      BY <2>1 DEF LimitsExact, NothingLeaks
    <2> QED BY <2>2, <2>3, <2>4, <2>5 DEF Inv
  <1>2. CASE BeginCwd
    <2>1. /\ op' = "cwd" /\ pc' = "alloc" /\ out' = "none" /\ last' = "eof"
          /\ len' = 0 /\ cap' = 0 /\ block' = 0 /\ held' = 0
          /\ taken' \in 1..MaxInput
          /\ limit' = CwdLimit /\ next' = Least(CwdLimit, Initial)
          /\ extra' = extra /\ needed' = needed
      BY <1>2 DEF BeginCwd
    <2>2. CwdLimit \in 1..AllocLimit /\ next' \in 1..CwdLimit
      BY <2>1, MaxFacts, SizeAssumption DEF Least
    <2>3. MaxOf(op', last') = CwdLimit
      BY <2>1 DEF MaxOf
    <2>4. TypeOK'
      BY <2>1, <2>2, SizeAssumption DEF Inv, TypeOK, Size
    <2>5. /\ ControlInv' /\ RoomInv' /\ GrowInv' /\ CountInv' /\ CwdInv'
          /\ HeldInv' /\ FailInv'
      BY <2>1, <2>2, <2>3
      DEF ControlInv, RoomInv, GrowInv, CountInv, CwdInv, HeldInv, FailInv, Reading
    <2>6. LimitsExact' /\ NothingLeaks'
      BY <2>1 DEF LimitsExact, NothingLeaks
    <2> QED BY <2>4, <2>5, <2>6 DEF Inv
  <1>3. CASE ReadNothing
    <2>1. /\ pc = "input" /\ op \in {"text", "bytes"}
          /\ last' \in {"eof", "error"} /\ pc' = "finish" /\ last = "no"
          /\ UNCHANGED <<op, len, cap, block, held, taken, extra, needed, limit, next,
                         out>>
      BY <1>3 DEF ReadNothing, data, locals, Inv, ControlInv
    <2>2. /\ TypeOK' /\ ControlInv' /\ GrowInv' /\ CountInv' /\ CwdInv'
          /\ HeldInv' /\ FailInv'
      BY <2>1
      DEF Inv, TypeOK, ControlInv, GrowInv, CountInv, CwdInv, HeldInv, FailInv,
          Reading
    <2>3. RoomInv'
      <3>1. MaxOf(op', last') = MaxOf(op, last)
        BY <2>1 DEF MaxOf
      <3>2. Width' = Width
        BY <2>1 DEF Width
      <3> QED BY <2>1, <3>1, <3>2 DEF Inv, RoomInv, Reading
    <2>4. LimitsExact' /\ NothingLeaks'
      BY <2>1 DEF LimitsExact, NothingLeaks
    <2> QED BY <2>2, <2>3, <2>4 DEF Inv
  <1>4. CASE LineError \/ NameFails
    <2>1. /\ pc # "idle" /\ UNCHANGED <<op, taken, last, extra, needed, limit, next>>
          /\ FreeAndReturn("error") \/ FreeAndReturn("oom")
      BY <1>4 DEF LineError, NameFails, input, locals
    <2> QED BY <2>1, Kept, ReturnInv
  <1>5. CASE PushEnd /\ FreeAndReturn("error")
    <2>1. pc # "idle" /\ UNCHANGED <<op, taken, last, extra, needed, limit, next>>
      BY <1>5 DEF PushEnd, input, locals
    <2> QED BY <1>5, <2>1, Kept, ReturnInv
  <1>6. CASE PushEnd /\ ~FreeAndReturn("error")
    <2>1. /\ pc = "input" /\ op = "list" /\ pc' = "idle" /\ out' = "ok"
          /\ UNCHANGED <<op, len, cap, block, held, taken, last, extra, needed,
                         limit, next>>
      BY <1>6 DEF PushEnd, data, input, locals
    <2>2. /\ TypeOK' /\ ControlInv' /\ RoomInv' /\ GrowInv' /\ CountInv'
          /\ CwdInv' /\ HeldInv' /\ FailInv'
      BY <2>1
      DEF Inv, TypeOK, ControlInv, RoomInv, GrowInv, CountInv, CwdInv, HeldInv,
          FailInv
    <2>3. len = taken /\ taken <= MaxOf(op, last) /\ taken \in Nat
      <3>1. MaxOf(op, last) \in Nat /\ len \in Nat /\ cap \in Nat
        BY MaxFacts, SizeAssumption DEF Size, Inv, TypeOK
      <3> QED BY <2>1, <3>1
              DEF Inv, TypeOK, RoomInv, CountInv, Reading
    <2>4. ~TooLong(op, taken)
      BY <2>1, <2>3, TooLongMax
    <2>5. LimitsExact' /\ NothingLeaks'
      BY <2>1, <2>3, <2>4 DEF Inv, HeldInv, LimitsExact, NothingLeaks, Owned
    <2> QED BY <2>2, <2>5 DEF Inv
  <1> QED BY <1>1, <1>2, <1>3, <1>4, <1>5, <1>6

\* A turn of the loop keeps the next capacity within the limit, and it is
\* twice the last one or the limit.
LEMMA GrowStepInv ==
  ASSUME Inv, GrowStep
  PROVE  Inv'
  <1>1. /\ pc = "grow"
        /\ UNCHANGED <<op, len, cap, block, held, taken, last, extra, needed, limit,
                       out>>
    BY DEF GrowStep, data, input
  <1>2. /\ limit = MaxOf(op, last) /\ limit \in Size /\ next \in 1..limit
        /\ needed <= limit /\ needed > cap /\ cap \in Nat /\ needed \in Nat
        /\ next \in Nat /\ limit \in Nat /\ limit <= SizeMax
        /\ cap > 0 => next = cap \/ next >= 2 * cap \/ next = limit
    BY <1>1, SizeAssumption DEF Inv, TypeOK, GrowInv, Size
  <1>3. \/ /\ next < needed /\ pc' = "grow"
           /\ next' = IF next > limit - next THEN limit ELSE next * 2
        \/ next >= needed /\ pc' = "alloc" /\ next' = next
    <2>1. Wrap(limit - next) = limit - next
      <3>1. limit - next \in Size
        BY <1>2, SizeAssumption DEF Size
      <3> QED BY <3>1, WrapSmall
    <2>2. CASE next < needed /\ ~(next > limit - next)
      <3>1. next * 2 \in Size
        BY <1>2, <2>2, SizeAssumption DEF Size
      <3>2. Wrap(next * 2) = next * 2
        BY <3>1, WrapSmall
      <3> QED BY <2>1, <2>2, <3>2 DEF GrowStep
    <2>3. CASE ~(next < needed) \/ next > limit - next
      BY <1>2, <2>1, <2>3 DEF GrowStep
    <2> QED BY <2>2, <2>3
  <1>4. /\ next' \in 1..limit
        /\ cap > 0 => next' = cap \/ next' >= 2 * cap \/ next' = limit
    BY <1>2, <1>3
  <1>5. TypeOK'
    BY <1>1, <1>2, <1>3, <1>4, SizeAssumption DEF Inv, TypeOK, Size
  <1>6. ControlInv' /\ CountInv' /\ CwdInv' /\ HeldInv' /\ FailInv'
    BY <1>1, <1>3
    DEF Inv, ControlInv, CountInv, CwdInv, HeldInv, FailInv, Reading
  <1>7. RoomInv'
    <2>1. MaxOf(op, last)' = MaxOf(op, last) /\ Width' = Width
      BY <1>1 DEF MaxOf, Width
    <2> QED BY <1>1, <1>3, <2>1 DEF Inv, RoomInv, Reading
  <1>8. GrowInv'
    <2>1. MaxOf(op, last)' = limit'
      BY <1>1, <1>2 DEF MaxOf
    <2> QED BY <1>1, <1>2, <1>3, <1>4, <2>1 DEF Inv, GrowInv, Reading
  <1>9. LimitsExact' /\ NothingLeaks'
    BY <1>3 DEF LimitsExact, NothingLeaks
  <1> QED BY <1>5, <1>6, <1>7, <1>8, <1>9 DEF Inv

\* The allocation is for the next capacity, which the limit keeps from
\* being rejected for its size.
LEMMA AllocInv ==
  ASSUME Inv, Alloc
  PROVE  Inv'
  <1>1. /\ pc = "alloc"
        /\ UNCHANGED <<op, len, taken, last, extra, needed, limit, next>>
        /\ cap' = IF pc' = "failed" THEN cap ELSE next
        /\ Realloc(Wrap(next * Width),
                   IF op = "cwd" THEN "getcwd" ELSE "store", "failed")
    BY DEF Alloc, input, locals
  <1>2. /\ limit = MaxOf(op, last) /\ next \in 1..limit /\ next \in Nat
        /\ limit \in Nat
        /\ Reading => next >= needed /\ needed = len + extra /\ len <= cap
        /\ Reading \/ op = "cwd"
        /\ op = "list" => last = "no"
        /\ len \in Nat /\ extra \in Nat /\ needed \in Nat /\ cap \in Nat
    BY <1>1, SizeAssumption
    DEF Inv, TypeOK, GrowInv, RoomInv, ControlInv, Size
  <1>3. Wrap(next * Width) = next * Width /\ next * Width <= AllocLimit
    <2>1. CASE op = "list"
      <3>1. Width = Item /\ limit * Item <= AllocLimit
        BY <1>2, <2>1, MaxFacts DEF Width
      <3>2. next * Item <= limit * Item
        BY <1>2, Monotone, SizeAssumption
      <3>3. next * Item \in Nat /\ limit * Item \in Nat
        BY <1>2, SizeAssumption
      <3>4. next * Item \in Size
        BY <3>1, <3>2, <3>3, SizeAssumption DEF Size
      <3> QED BY <3>1, <3>2, <3>3, <3>4, WrapSmall, SizeAssumption
    <2>2. CASE op # "list"
      <3>1. Width = 1 /\ next * 1 = next /\ limit <= AllocLimit
        BY <1>2, <2>2, MaxFacts DEF Width
      <3>2. next \in Size /\ next <= AllocLimit
        BY <1>2, <3>1, SizeAssumption DEF Size
      <3> QED BY <3>1, <3>2, WrapSmall
    <2> QED BY <2>1, <2>2
  <1>0. next * Width \in Nat /\ next * Width >= 1
    BY <1>2, SizeAssumption DEF Width
  <1>4. CASE pc' = "failed"
    <2>1. out' = "oom" /\ block' = block /\ held' = held /\ cap' = cap
      BY <1>0, <1>1, <1>3, <1>4, SizeAssumption DEF Realloc
    <2>2. /\ TypeOK' /\ ControlInv' /\ RoomInv' /\ GrowInv' /\ CountInv'
          /\ CwdInv' /\ HeldInv' /\ FailInv'
      BY <1>1, <1>2, <1>4, <2>1
      DEF Inv, TypeOK, ControlInv, RoomInv, GrowInv, CountInv, CwdInv, HeldInv,
          FailInv, Reading
    <2>3. LimitsExact' /\ NothingLeaks'
      BY <1>4 DEF LimitsExact, NothingLeaks
    <2> QED BY <2>2, <2>3 DEF Inv
  <1>5. CASE pc' # "failed"
    <2>1. /\ block' = next * Width
          /\ held' = IF block = 0 THEN held + 1 ELSE held
          /\ pc' = (IF op = "cwd" THEN "getcwd" ELSE "store")
          /\ cap' = next /\ len' = len /\ out' = out
      BY <1>0, <1>1, <1>3, <1>5, SizeAssumption DEF Realloc
    <2>10. held' = 1
      BY <1>1, <2>1 DEF Inv, HeldInv
    <2>2. next * Width \in 0..AllocLimit
      <3>1. next * Width \in Nat
        BY <1>2, SizeAssumption DEF Width
      <3> QED BY <1>3, <3>1, SizeAssumption
    <2>3. op = "list" => next <= StrLimit
      BY <1>2, SizeAssumption DEF MaxOf, Least
    <2>4. TypeOK'
      BY <1>1, <1>2, <2>1, <2>2, <2>3, <2>10 DEF Inv, TypeOK
    <2>5. ControlInv' /\ CountInv'
      BY <1>1, <1>2, <2>1 DEF Inv, ControlInv, CountInv, Reading
    <2>6. RoomInv'
      <3>1. MaxOf(op, last)' = MaxOf(op, last) /\ Width' = Width
        BY <1>1 DEF MaxOf, Width
      <3>2. Reading' => len <= next
        BY <1>1, <1>2 DEF Reading
      <3> QED BY <1>2, <2>1, <3>1, <3>2 DEF RoomInv
    <2>7. GrowInv'
      BY <1>1, <1>2, <2>1 DEF Inv, GrowInv, Reading
    <2>8. CwdInv'
      <3>1. op = "cwd" => next * Width = next
        BY <1>2 DEF Width
      <3> QED BY <1>1, <1>2, <2>1, <3>1 DEF Inv, CwdInv, Reading
    <2>9. HeldInv' /\ FailInv' /\ LimitsExact' /\ NothingLeaks'
      BY <1>0, <2>1, <2>10 DEF HeldInv, FailInv, LimitsExact, NothingLeaks
    <2> QED BY <2>4, <2>5, <2>6, <2>7, <2>8, <2>9 DEF Inv
  <1> QED BY <1>4, <1>5

LEMMA StoreInv ==
  ASSUME Inv, Store
  PROVE  Inv'
  <1>1. /\ pc = "store" /\ pc' = (IF last = "no" THEN "input" ELSE "finish")
        /\ len' = (IF op = "line" /\ last = "eof" THEN len
                                                   ELSE Wrap(len + extra))
        /\ UNCHANGED <<op, cap, block, held, taken, last, extra, needed, limit, next,
                       out>>
    BY DEF Store, input, locals
  <1>2. /\ Reading /\ needed = len + extra /\ needed <= cap /\ cap \in Size
        /\ len \in Nat /\ extra \in Nat /\ cap \in Nat /\ needed \in Nat
        /\ needed \in Size
        /\ op = "list" => last = "no"
        /\ op = "line" => last # "error"
    BY <1>1, SizeAssumption DEF Inv, TypeOK, ControlInv, GrowInv, Size
  <1>3. len' \in Size /\ len' <= cap /\ len' = taken
    <2>1. Wrap(len + extra) = len + extra
      BY <1>2, WrapSmall
    <2>2. len + extra = IF op = "line" /\ last = "eof" THEN taken + 1 ELSE taken
      BY <1>1, <1>2 DEF Inv, CountInv
    <2>3. taken \in Nat /\ len \in Size
      BY DEF Inv, TypeOK
    <2>4. CASE op = "line" /\ last = "eof"
      <3>1. len + extra = taken + 1 /\ len' = len
        BY <1>1, <2>2, <2>4
      <3>2. extra = 1
        BY <1>1, <1>2, <2>4 DEF Inv, GrowInv
      <3> QED BY <1>2, <2>3, <3>1, <3>2
    <2>5. CASE ~(op = "line" /\ last = "eof")
      BY <1>1, <1>2, <2>1, <2>2, <2>3, <2>5
    <2> QED BY <2>4, <2>5
  <1>4. TypeOK'
    BY <1>1, <1>3 DEF Inv, TypeOK
  <1>5. ControlInv' /\ GrowInv' /\ CwdInv'
    BY <1>1, <1>2, <1>3
    DEF Inv, ControlInv, GrowInv, CwdInv, Reading
  <1>10. CountInv'
    <2>1. last # "no" /\ op = "line" => last = "eof"
      BY <1>2 DEF Inv, TypeOK
    <2>2. op = "line" => extra = 1
      BY <1>1 DEF Inv, GrowInv
    <2> QED BY <1>1, <1>2, <1>3, <2>1, <2>2 DEF CountInv
  <1>6. RoomInv'
    <2>1. MaxOf(op, last)' = MaxOf(op, last) /\ Width' = Width
      BY <1>1 DEF MaxOf, Width
    <2> QED BY <1>1, <1>2, <1>3, <2>1 DEF Inv, RoomInv, Reading
  <1>7. HeldInv' /\ FailInv' /\ LimitsExact' /\ NothingLeaks'
    BY <1>1 DEF Inv, HeldInv, FailInv, LimitsExact, NothingLeaks
  <1> QED BY <1>4, <1>5, <1>6, <1>7, <1>10 DEF Inv

LEMMA FinishInv ==
  ASSUME Inv, Finish
  PROVE  Inv'
  <1>1. /\ pc = "finish"
        /\ UNCHANGED <<op, taken, last, extra, needed, limit, next>>
    BY DEF Finish, input, locals
  <1>2. /\ op \in {"line", "text", "bytes"} /\ len = taken /\ taken \in Nat
        /\ len <= cap /\ cap <= MaxOf(op, last) /\ block = cap * Width
        /\ len \in Nat /\ cap \in Nat
    BY <1>1, SizeAssumption
    DEF Inv, TypeOK, ControlInv, RoomInv, CountInv, Reading, Size
  <1>3. CASE last = "error"
    <2>1. FreeAndReturn("error")
      BY <1>3 DEF Finish
    <2> QED BY <1>1, <2>1, Kept, ReturnInv
  <1>4. CASE last # "error"
    <2>1. /\ op = "line" => pc' = "take"
          /\ op = "text" => pc' = "text"
          /\ op = "bytes" => pc' = "idle"
          /\ out' = (IF op = "bytes" THEN "ok" ELSE out)
          /\ len' = len /\ cap' = cap /\ block' = block /\ held' = held
      BY <1>2, <1>4 DEF Finish, data
    <2>2. TypeOK'
      BY <1>1, <1>2, <2>1 DEF Inv, TypeOK
    <2>3. ControlInv' /\ GrowInv' /\ CwdInv' /\ HeldInv' /\ FailInv'
      BY <1>1, <1>2, <2>1
      DEF Inv, ControlInv, GrowInv, CwdInv, HeldInv, FailInv, Reading
    <2>4. RoomInv'
      <3>1. MaxOf(op, last)' = MaxOf(op, last) /\ Width' = Width
        BY <1>1 DEF MaxOf, Width
      <3> QED BY <1>1, <1>2, <2>1, <3>1 DEF RoomInv, Reading
    <2>5. CountInv'
      <3>1. op = "line" => len + 1 <= block
        <4>1. ASSUME op = "line" PROVE len + 1 <= block
          <5>1. block = cap
            BY <1>2, <4>1 DEF Width
          <5>2. len + 1 <= cap
            BY <1>1, <4>1 DEF Inv, CountInv
          <5> QED BY <5>1, <5>2
        <4> QED BY <4>1
      <3> QED BY <1>1, <1>2, <2>1, <3>1 DEF CountInv, Reading
    <2>6. LimitsExact' /\ NothingLeaks'
      <3>1. CASE op = "bytes"
        <4>1. taken <= MaxOf(op, last)
          <5>1. MaxOf(op, last) \in Nat
            BY MaxFacts, SizeAssumption DEF Size
          <5> QED BY <1>2, <5>1
        <4>2. ~TooLong(op, taken)
          BY <1>2, <3>1, <4>1, TooLongMax
        <4> QED BY <1>1, <1>2, <2>1, <3>1, <4>2
                DEF Inv, HeldInv, LimitsExact, NothingLeaks, Owned
      <3>2. CASE op # "bytes"
        BY <1>2, <2>1, <3>2 DEF LimitsExact, NothingLeaks
      <3> QED BY <3>1, <3>2
    <2> QED BY <2>2, <2>3, <2>4, <2>5, <2>6 DEF Inv
  <1> QED BY <1>3, <1>4

LEMMA IntoStrInv ==
  ASSUME Inv, IntoStr
  PROVE  Inv'
  <1>1. /\ pc = "text" /\ op = "text"
        /\ UNCHANGED <<op, taken, last, extra, needed, limit, next>>
    BY DEF IntoStr, input, locals, Inv, ControlInv
  <1>2. len = taken /\ taken \in Nat /\ len \in Nat /\ cap \in Size
    BY <1>1 DEF Inv, TypeOK, CountInv, Size
  <1>3. CASE len > StrLimit \/ ~FitsSum(len, 1, AllocLimit)
    <2>1. FreeAndReturn("size")
      BY <1>3 DEF IntoStr
    <2>2. TooLong(op, taken')
      BY <1>1, <1>2, <1>3, SizeAssumption DEF TooLong, FitsSum
    <2> QED BY <1>1, <2>1, <2>2, Kept, ReturnInv
  <1>4. CASE ~(len > StrLimit \/ ~FitsSum(len, 1, AllocLimit))
    <2>1. /\ Realloc(Wrap(len + 1), "take", "unterminated")
          /\ len' = len /\ cap' = cap
      BY <1>4 DEF IntoStr
    <2>2. len + 1 \in 1..AllocLimit /\ Wrap(len + 1) = len + 1
      <3>1. len + 1 \in 1..AllocLimit /\ len + 1 \in Size
        BY <1>2, <1>4, SizeAssumption DEF FitsSum, Size
      <3> QED BY <3>1, WrapSmall
    <2>3. CASE pc' = "unterminated"
      <3>1. out' = "oom" /\ block' = block /\ held' = held
        BY <1>2, <2>1, <2>2, <2>3, SizeAssumption DEF Realloc
      <3>2. /\ TypeOK' /\ ControlInv' /\ RoomInv' /\ GrowInv' /\ CountInv'
            /\ CwdInv' /\ HeldInv' /\ FailInv'
        BY <1>1, <2>1, <2>3, <3>1
        DEF Inv, TypeOK, ControlInv, RoomInv, GrowInv, CountInv, CwdInv,
            HeldInv, FailInv
      <3>3. LimitsExact' /\ NothingLeaks'
        BY <2>3 DEF LimitsExact, NothingLeaks
      <3> QED BY <3>2, <3>3 DEF Inv
    <2>4. CASE pc' # "unterminated"
      <3>1. block' = len + 1 /\ pc' = "take" /\ len' = len /\ out' = out
        BY <1>2, <2>1, <2>2, <2>4, SizeAssumption DEF Realloc
      <3>2. cap' = cap /\ held' = 1
        BY <1>1, <2>1, <2>4, <3>1 DEF Realloc, Inv, HeldInv
      <3>3. TypeOK'
        BY <1>1, <2>2, <3>1, <3>2 DEF Inv, TypeOK
      <3>4. /\ ControlInv' /\ RoomInv' /\ GrowInv' /\ CwdInv' /\ HeldInv'
            /\ FailInv'
        BY <1>1, <1>2, <2>2, <3>1, <3>2
        DEF Inv, ControlInv, RoomInv, GrowInv, CwdInv, HeldInv, FailInv, Reading
      <3>5. CountInv'
        BY <1>1, <1>2, <3>1 DEF CountInv
      <3>6. LimitsExact' /\ NothingLeaks'
        BY <3>1 DEF LimitsExact, NothingLeaks
      <3> QED BY <3>3, <3>4, <3>5, <3>6 DEF Inv
    <2> QED BY <2>3, <2>4
  <1> QED BY <1>3, <1>4

LEMMA TakeInv ==
  ASSUME Inv, Take
  PROVE  Inv'
  <1>1. /\ pc = "take"
        /\ UNCHANGED <<op, taken, last, extra, needed, limit, next>>
    BY DEF Take, input, locals
  <1>2. /\ op \in {"line", "text", "cwd"} /\ len = taken /\ taken \in Nat
    BY <1>1 DEF Inv, TypeOK, ControlInv, CountInv
  <1>3. TooLong(op, taken) <=> len > StrLimit \/ len >= AllocLimit
    BY <1>2 DEF TooLong
  <1>4. CASE len > StrLimit \/ len >= AllocLimit
    <2>1. FreeAndReturn("size") /\ TooLong(op, taken')
      BY <1>1, <1>3, <1>4 DEF Take
    <2> QED BY <1>1, <2>1, Kept, ReturnInv
  <1>5. CASE ~(len > StrLimit \/ len >= AllocLimit)
    <2>1. CASE FreeAndReturn("oom")
      BY <1>1, <2>1, Kept, ReturnInv
    <2>2. CASE ~FreeAndReturn("oom")
      <3>1. /\ pc' = "idle" /\ out' = "ok" /\ held' = held + 1
            /\ len' = len /\ cap' = cap /\ block' = block
        BY <1>5, <2>2 DEF Take
      <3>4. held' = 2
        <4>1. len + 1 <= block /\ len \in Nat
          BY <1>1, <1>2 DEF Inv, CountInv
        <4>2. block # 0
          BY <4>1
        <4> QED BY <1>1, <3>1, <4>2 DEF Inv, HeldInv
      <3>2. /\ TypeOK' /\ ControlInv' /\ RoomInv' /\ GrowInv' /\ CountInv'
            /\ CwdInv' /\ HeldInv' /\ FailInv'
        BY <1>1, <3>1, <3>4
        DEF Inv, TypeOK, ControlInv, RoomInv, GrowInv, CountInv, CwdInv, HeldInv,
            FailInv
      <3>3. LimitsExact' /\ NothingLeaks'
        BY <1>1, <1>2, <1>3, <1>5, <3>1, <3>4
        DEF LimitsExact, NothingLeaks, Owned
      <3> QED BY <3>2, <3>3 DEF Inv
    <2> QED BY <2>1, <2>2
  <1> QED BY <1>4, <1>5

LEMMA GetCwdInv ==
  ASSUME Inv, GetCwd
  PROVE  Inv'
  <1>1. pc = "getcwd" /\ op = "cwd" /\ UNCHANGED <<op, taken, last>>
    BY DEF GetCwd, input, Inv, ControlInv
  <1>2. /\ limit = CwdLimit /\ cap \in 1..limit /\ block = cap /\ len = 0
        /\ taken \in Nat /\ limit \in Size /\ limit \in Nat /\ limit <= SizeMax
        /\ cap \in Nat
    BY <1>1, SizeAssumption DEF Inv, TypeOK, CwdInv, Size
  <1>3. CASE /\ taken + 1 <= cap
             /\ pc' = "take" /\ len' = taken
             /\ UNCHANGED <<cap, block, held, locals, out>>
    <2>1. UNCHANGED <<extra, needed, limit, next>>
      BY <1>3 DEF locals
    <2>2. taken \in Size
      BY <1>2, <1>3, SizeAssumption DEF Size
    <2>3. TypeOK'
      BY <1>1, <1>3, <2>1, <2>2 DEF Inv, TypeOK
    <2>4. /\ ControlInv' /\ RoomInv' /\ GrowInv' /\ CwdInv' /\ HeldInv'
          /\ FailInv'
      BY <1>1, <1>2, <1>3, <2>1
      DEF Inv, ControlInv, RoomInv, GrowInv, CwdInv, HeldInv, FailInv, Reading
    <2>5. CountInv'
      BY <1>1, <1>2, <1>3 DEF CountInv
    <2>6. LimitsExact' /\ NothingLeaks'
      BY <1>3 DEF LimitsExact, NothingLeaks
    <2> QED BY <2>3, <2>4, <2>5, <2>6 DEF Inv
  <1>4. CASE FreeAndReturn("error") /\ UNCHANGED locals
    BY <1>1, <1>4, Kept, ReturnInv DEF locals
  <1>5. CASE /\ taken + 1 > cap /\ cap = limit
             /\ FreeAndReturn("size") /\ UNCHANGED locals
    <2>1. TooLong(op, taken')
      BY <1>1, <1>2, <1>5, TooLongMax
    <2> QED BY <1>1, <1>5, <2>1, Kept, ReturnInv DEF locals
  <1>6. CASE /\ taken + 1 > cap /\ cap # limit
             /\ Free /\ block' = 0
             /\ needed' = Wrap(cap + 1) /\ next' = cap /\ pc' = "grow"
             /\ UNCHANGED <<len, cap, extra, limit, out>>
    <2>1. needed' = cap + 1 /\ cap + 1 <= limit
      <3>1. cap + 1 \in Size /\ cap + 1 <= limit
        BY <1>2, <1>6, SizeAssumption DEF Size
      <3> QED BY <1>6, <3>1, WrapSmall
    <2>2. MaxOf(op, last)' = limit'
      BY <1>1, <1>2, <1>6 DEF MaxOf
    <2>7. held' = 0
      BY <1>1, <1>6 DEF Free, Inv, HeldInv
    <2>3. TypeOK'
      BY <1>1, <1>2, <1>6, <2>1, <2>7, SizeAssumption DEF Inv, TypeOK, Size
    <2>4. /\ ControlInv' /\ RoomInv' /\ CountInv' /\ CwdInv' /\ HeldInv'
          /\ FailInv'
      BY <1>1, <1>2, <1>6, <2>7
      DEF Inv, ControlInv, RoomInv, CountInv, CwdInv, HeldInv, FailInv, Reading
    <2>5. GrowInv'
      BY <1>1, <1>2, <1>6, <2>1, <2>2 DEF GrowInv, Reading
    <2>6. LimitsExact' /\ NothingLeaks'
      BY <1>6 DEF LimitsExact, NothingLeaks
    <2> QED BY <2>3, <2>4, <2>5, <2>6 DEF Inv
  <1> QED BY <1>3, <1>4, <1>5, <1>6 DEF GetCwd

\* A caller that was told of a failure frees what it holds; current_dir
\* holds nothing then.
LEMMA FailsInv ==
  ASSUME Inv,
         \/ PushFails \/ TerminatorFails \/ ReadFails \/ DirFails
         \/ IntoStrFails \/ CwdFails
  PROVE  Inv'
  <1>1. /\ pc \in {"failed", "unterminated"}
        /\ UNCHANGED <<op, taken, last, extra, needed, limit, next>>
    BY DEF PushFails, TerminatorFails, ReadFails, DirFails, IntoStrFails,
           CwdFails, input, locals
  <1>2. out \in {"size", "oom"} /\ (out = "size" => TooLong(op, taken'))
    BY <1>1 DEF Inv, FailInv
  <1>3. CASE FreeAndReturn(out)
    BY <1>1, <1>2, <1>3, Kept, ReturnInv
  <1>4. CASE CwdFails
    <2>1. /\ pc' = "idle" /\ op = "cwd"
          /\ UNCHANGED <<len, cap, block, held, out>>
      BY <1>4 DEF CwdFails, data
    <2>2. held = 0
      BY <1>1, <2>1 DEF Inv, HeldInv, FailInv
    <2>3. /\ TypeOK' /\ ControlInv' /\ RoomInv' /\ GrowInv' /\ CountInv'
          /\ CwdInv' /\ HeldInv' /\ FailInv'
      BY <1>1, <2>1
      DEF Inv, TypeOK, ControlInv, RoomInv, GrowInv, CountInv, CwdInv, HeldInv,
          FailInv
    <2>4. LimitsExact' /\ NothingLeaks'
      BY <1>1, <1>2, <2>1, <2>2 DEF LimitsExact, NothingLeaks, Owned
    <2> QED BY <2>3, <2>4 DEF Inv
  <1> QED BY <1>3, <1>4
          DEF PushFails, TerminatorFails, ReadFails, DirFails, IntoStrFails

LEMMA StutterInv == Inv /\ UNCHANGED vars => Inv'
  <1> SUFFICES ASSUME Inv, UNCHANGED vars PROVE Inv'
    OBVIOUS
  <1>1. UNCHANGED <<op, pc, len, cap, block, held, taken, last, extra, needed,
                    limit, next, out>>
    BY DEF vars, data, input, locals
  <1>2. MaxOf(op, last)' = MaxOf(op, last) /\ Width' = Width
    BY <1>1 DEF MaxOf, Width
  <1>3. TypeOK' /\ ControlInv' /\ CountInv' /\ CwdInv' /\ HeldInv' /\ FailInv'
    BY <1>1
    DEF Inv, TypeOK, ControlInv, CountInv, CwdInv, HeldInv, FailInv, Reading
  <1>4. RoomInv' /\ GrowInv'
    BY <1>1, <1>2 DEF Inv, RoomInv, GrowInv, Reading
  <1>5. LimitsExact' /\ NothingLeaks'
    BY <1>1 DEF Inv, LimitsExact, NothingLeaks, Owned
  <1> QED BY <1>3, <1>4, <1>5 DEF Inv

THEOREM Invariance == Spec => []Inv
  <1>1. ASSUME Inv, [Next]_vars PROVE Inv'
    <2>1. CASE Next
      BY <1>1, <2>1, InputInv, EndsInv, GrowStepInv, AllocInv, StoreInv,
         FinishInv, IntoStrInv, TakeInv, GetCwdInv, FailsInv DEF Next, Compute
    <2>2. CASE UNCHANGED vars
      BY <1>1, <2>2, StutterInv
    <2> QED BY <1>1, <2>1, <2>2
  <1> QED BY InitInv, <1>1, PTL DEF Spec

(***************************************************************************)
(* Results                                                                 *)
(***************************************************************************)

\* Sizes stay within size_t, blocks within the allocation limit and lists
\* within int32_t, for all limits and initial capacities.
THEOREM TypeCorrect == Spec => []TypeOK
  <1>1. Inv => TypeOK
    BY DEF Inv
  <1> QED BY Invariance, <1>1, PTL

\* No write goes beyond the bytes that were allocated, or to a block that
\* is freed.
THEOREM WritesFit == Spec => []NoOverrun
  <1>1. ASSUME Inv PROVE NoOverrun
    <2>1. pc = "store" => (len + extra) * Width <= block
      <3> SUFFICES ASSUME pc = "store" PROVE (len + extra) * Width <= block
        OBVIOUS
      <3>1. /\ len + extra <= cap /\ block = cap * Width
            /\ len + extra \in Nat /\ cap \in Nat
        BY <1>1, SizeAssumption
        DEF Inv, TypeOK, ControlInv, RoomInv, GrowInv, Size
      <3>2. Width \in Nat
        BY SizeAssumption DEF Width
      <3> QED BY <3>1, <3>2, Monotone
    <2>2. pc = "getcwd" => cap <= block
      BY <1>1, SizeAssumption DEF Inv, CwdInv, TypeOK, Size
    <2>3. pc = "take" => len + 1 <= block
      BY <1>1 DEF Inv, CountInv
    <2>4. pc \in {"store", "getcwd", "take"} => held = 1
      <3>1. pc = "store" => block # 0
        <4> SUFFICES ASSUME pc = "store" PROVE block # 0
          OBVIOUS
        <4>1. /\ len + extra <= cap /\ block = cap * Width /\ extra >= 1
              /\ len \in Nat /\ extra \in Nat /\ cap \in Nat
          BY <1>1, SizeAssumption
          DEF Inv, TypeOK, ControlInv, RoomInv, GrowInv, Size
        <4>2. cap \in Nat \ {0} /\ Width \in Nat \ {0}
          BY <4>1, SizeAssumption DEF Width
        <4>3. cap * Width # 0
          BY <4>2
        <4> QED BY <4>1, <4>3
      <3>2. pc = "getcwd" => block # 0
        BY <1>1 DEF Inv, CwdInv, TypeOK, Size
      <3>3. pc = "take" => block # 0
        BY <1>1, SizeAssumption DEF Inv, CountInv, TypeOK, Size
      <3> QED BY <1>1, <3>1, <3>2, <3>3 DEF Inv, HeldInv
    <2> QED BY <2>1, <2>2, <2>3, <2>4 DEF NoOverrun
  <1> QED BY Invariance, <1>1, PTL

\* A value is complete and within the limits, and a size error is returned
\* only for an input beyond them.
THEOREM LimitsHold == Spec => []LimitsExact
  <1>1. Inv => LimitsExact
    BY DEF Inv
  <1> QED BY Invariance, <1>1, PTL

\* An operation that fails has freed what it allocated, and nothing twice:
\* a failed reallocation leaves the old block to its caller, and a string
\* that is not taken is freed by nq_try_str_take and by no caller.
THEOREM NoLeak == Spec => []NothingLeaks
  <1>1. Inv => NothingLeaks
    BY DEF Inv
  <1> QED BY Invariance, <1>1, PTL

\* A capacity that grows at least doubles or reaches its limit.
THEOREM Doubles == Spec => GrowthDoubles
  <1>1. ASSUME Inv, [Next]_vars, cap' > cap, cap > 0
        PROVE  cap' >= 2 * cap \/ cap' = limit
    <2>1. cap \in Nat /\ limit \in Nat /\ next \in Nat /\ needed \in Nat
      BY <1>1, SizeAssumption DEF Inv, TypeOK, Size
    <2>2. Alloc /\ cap' = next
      <3>1. ASSUME NEW n, NEW m, Reserve(n, m) PROVE cap' = cap
        BY <3>1 DEF Reserve, data
      <3>2. ASSUME NEW r, FreeAndReturn(r) PROVE cap' = cap
        BY <3>2 DEF FreeAndReturn
      <3>3. cap' # 0 /\ cap' # cap
        BY <1>1, <2>1
      <3>4. ~(GetByte \/ LineEnd \/ ReadChunk \/ Push)
        BY <3>1, <3>2, <3>3 DEF GetByte, LineEnd, ReadChunk, Push
      <3>5. ~(\E o \in {"line", "text", "bytes", "list"} : Begin(o))
        BY <3>3 DEF Begin
      <3>6. ~(BeginCwd \/ ReadNothing \/ LineError \/ NameFails \/ PushEnd
              \/ GrowStep)
        BY <3>2, <3>3 DEF BeginCwd, ReadNothing, LineError, NameFails, PushEnd,
                          GrowStep, data
      <3>10. ~(PushFails \/ TerminatorFails \/ ReadFails \/ DirFails
               \/ IntoStrFails \/ CwdFails)
        BY <3>2, <3>3 DEF PushFails, TerminatorFails, ReadFails, DirFails,
                          IntoStrFails, CwdFails, data
      <3>7. ~(Store \/ Finish \/ IntoStr \/ Take \/ GetCwd)
        BY <3>2, <3>3 DEF Store, Finish, IntoStr, Take, GetCwd, data
      <3>8. ~(UNCHANGED vars)
        BY <3>3 DEF vars, data
      <3>9. Alloc
        BY <1>1, <3>4, <3>5, <3>6, <3>7, <3>8, <3>10 DEF Next, Compute
      <3> QED BY <3>3, <3>9 DEF Alloc
    <2>3. /\ next = cap \/ next >= 2 * cap \/ next = limit
      BY <1>1, <2>2 DEF Alloc, Inv, GrowInv
    <2>4. limit' = limit
      BY <2>2 DEF Alloc, locals
    <2> QED BY <1>1, <2>1, <2>2, <2>3, <2>4
  <1>2. Inv /\ [Next]_vars =>
          [cap' > cap /\ cap > 0 => cap' >= 2 * cap \/ cap' = limit]_vars
    BY <1>1
  <1> QED BY Invariance, <1>2, PTL DEF Spec, GrowthDoubles

-----------------------------------------------------------------------------
(* Numbers and time *)

\* Truncating division by a positive number, whose quotient is the largest
\* number of divisors that fit.
LEMMA DivFacts ==
  ASSUME NEW a \in Nat, NEW b \in Nat \ {0}
  PROVE  /\ a \div b \in Nat /\ (a \div b) * b \in Nat
         /\ (a \div b) * b <= a /\ a < (a \div b) * b + b
         /\ a \div b <= a
         /\ b >= 2 /\ a > 0 => a \div b < a
  <1>1. a \div b \in Nat
    BY SMT
  <1>2. (a \div b) * b <= a /\ a < ((a \div b) + 1) * b
    BY SMT
  <1>3. ((a \div b) + 1) * b = (a \div b) * b + b
    BY <1>1, SMT
  <1> DEFINE m == a \div b
  <1>4. m \in Nat /\ m * b \in Nat
    BY <1>1, SMT
  <1>5. m <= m * b /\ (b >= 2 => 2 * m <= m * b)
    <2>1. m * 1 <= m * b
      BY <1>4, SMT
    <2>2. b >= 2 => m * 2 <= m * b
      BY <1>4, SMT
    <2>3. QED BY <1>4, <2>1, <2>2, SMT
  <1>6. QED BY <1>2, <1>3, <1>4, <1>5, SMT

\* Where the guard of the divisions allows it, quotient and remainder are
\* representable.
LEMMA DivisionFits ==
  ASSUME NEW a \in Signed, NEW b \in Signed, ~BadDivisor(a, b)
  PROVE  Quotient(a, b) \in Signed /\ Remainder(a, b) \in Signed
  <1> DEFINE x == Magnitude(a)
             y == Magnitude(b)
             m == x \div y
  <1>1. /\ Half \in Nat /\ a \in Int /\ b \in Int /\ b # 0
        /\ x \in Nat /\ x <= Half /\ y \in Nat \ {0}
        /\ a >= 0 => x = a /\ x < Half
        /\ a < 0 => x = -a
        /\ b >= 0 => y = b
        /\ b < 0 => y = -b
        /\ ~(a = -Half /\ b = -1)
    BY NumberAssumption, SMT DEF Signed, Magnitude, BadDivisor
  <1>2. /\ m \in Nat /\ m * y \in Nat /\ m * y <= x /\ m <= x
        /\ y >= 2 /\ x > 0 => m < x
    BY <1>1, DivFacts
  <1>3. Quotient(a, b) = IF (a < 0) # (b < 0) THEN -m ELSE m
    BY DEF Quotient
  <1> HIDE DEF x, y, m
  <1>4. Quotient(a, b) \in Signed
    <2>1. CASE (a < 0) # (b < 0)
      BY <1>1, <1>2, <1>3, <2>1, SMT DEF Signed
    <2>2. CASE ~((a < 0) # (b < 0))
      <3>1. CASE a >= 0
        BY <1>1, <1>2, <1>3, <2>2, <3>1, SMT DEF Signed
      <3>2. CASE a < 0
        <4>1. b < 0
          BY <1>1, <2>2, <3>2, SMT
        <4>2. m < Half
          <5>1. CASE y >= 2
            BY <1>1, <1>2, <3>2, <5>1, SMT
          <5>2. CASE y < 2
            <6>1. b = -1 /\ a # -Half
              BY <1>1, <4>1, <5>2, SMT
            <6>2. QED BY <1>1, <1>2, <3>2, <6>1, SMT DEF Signed
          <5>3. QED BY <1>1, <5>1, <5>2, SMT
        <4>3. QED BY <1>1, <1>2, <1>3, <2>2, <4>2, SMT DEF Signed
      <3>3. QED BY <1>1, <3>1, <3>2, SMT
    <2>3. QED BY <2>1, <2>2
  <1>5. b * Quotient(a, b) = IF a < 0 THEN -(m * y) ELSE m * y
    <2>1. CASE b < 0
      <3>1. b = -y
        BY <1>1, <2>1, SMT
      <3>2. b * m = -(m * y) /\ b * (-m) = m * y
        BY <1>1, <1>2, <3>1, SMT
      <3>3. QED BY <1>3, <2>1, <3>2, <1>1, <1>2, SMT
    <2>2. CASE b >= 0
      <3>1. b = y
        BY <1>1, <2>2, SMT
      <3>2. b * m = m * y /\ b * (-m) = -(m * y)
        BY <1>1, <1>2, <3>1, SMT
      <3>3. QED BY <1>3, <2>2, <3>2, <1>1, <1>2, SMT
    <2>3. QED BY <1>1, <2>1, <2>2, SMT
  <1>6. Remainder(a, b) \in Signed
    <2> DEFINE p == m * y
               r == b * Quotient(a, b)
    <2>1. p \in Nat /\ p <= x /\ r = IF a < 0 THEN -p ELSE p
      BY <1>2, <1>5
    <2>2. Remainder(a, b) = a - r
      BY DEF Remainder
    <2> HIDE DEF p, r
    <2>3. QED BY <1>1, <2>1, <2>2, SMT DEF Signed
  <1>7. QED BY <1>4, <1>6

\* Whatever the word, the signed values formed of it are representable.
LEMMA BitsFit ==
  ASSUME NEW u \in Int, 0 <= u, u < Full
  PROVE  ConstBits(u) \subseteq Signed
  <1>1. Half \in Nat /\ Half > 0
    BY NumberAssumption, SMT
  <1>2. CASE u < Half
    <2>1. Low(u) = u /\ High(u) = 0
      BY <1>1, <1>2, SMT DEF Low, High
    <2>2. QED BY <1>1, <1>2, <2>1, SMT DEF ConstBits, Signed
  <1>3. CASE u >= Half
    <2>1. Low(u) = u - Half /\ High(u) = -Half
      BY <1>1, <1>3, SMT DEF Low, High, Full
    <2>2. QED BY <1>1, <1>3, <2>1, SMT DEF ConstBits, Signed, Full
  <1>4. QED BY <1>1, <1>2, <1>3, SMT

LEMMA WordRange ==
  ASSUME NEW o \in {"add", "sub", "mul"}, NEW a \in Signed, NEW b \in Signed
  PROVE  Word(o, a, b) \in Int /\ 0 <= Word(o, a, b) /\ Word(o, a, b) < Full
  <1> DEFINE x == Unsigned(a)
             y == Unsigned(b)
  <1>1. Full \in Nat /\ Full > 0 /\ a \in Int /\ b \in Int
    BY NumberAssumption, SMT DEF Full, Signed
  <1>2. x \in Nat /\ y \in Nat
    BY <1>1, SMT DEF Unsigned
  <1>3. Word(o, a, b) \in {(x + y) % Full, (x - y) % Full, (x * y) % Full}
    BY DEF Word
  <1> HIDE DEF x, y
  <1>4. x + y \in Int /\ x - y \in Int /\ x * y \in Int
    BY <1>2, SMT
  <1>5. \A i \in Int : i % Full \in Int /\ 0 <= i % Full /\ i % Full < Full
    BY <1>1, SMT
  <1>6. QED BY <1>3, <1>4, <1>5

\* The first and the last representable nanosecond, in seconds.
LEMMA TimeLimits ==
  /\ Half \in Nat /\ Billion \in Nat \ {0}
  /\ MaxSeconds \in Nat /\ MinSeconds \in Int
  /\ Remainder(Half - 1, Billion) \in 0..Billion - 1
  /\ MaxSeconds * Billion \in Nat
  /\ MaxSeconds * Billion + Remainder(Half - 1, Billion) = Half - 1
  /\ MinNanoseconds \in 1..Billion
  /\ MinSeconds * Billion \in Int
  /\ MinSeconds * Billion + MinNanoseconds = -Half
  <1>1. Half \in Nat /\ Half > 0 /\ Billion \in Nat \ {0}
    BY NumberAssumption, SMT
  <1> DEFINE p == (Half - 1) \div Billion
             q == Half \div Billion
  <1>2. /\ p \in Nat /\ p * Billion \in Nat
        /\ p * Billion <= Half - 1 /\ Half - 1 < p * Billion + Billion
    BY <1>1, Half - 1 \in Nat, DivFacts
  <1>3. /\ q \in Nat /\ q * Billion \in Nat
        /\ q * Billion <= Half /\ Half < q * Billion + Billion
    BY <1>1, DivFacts
  <1>4. Quotient(Half - 1, Billion) = p
    BY <1>1, SMT DEF Quotient, Magnitude
  <1>5. Quotient(-Half, Billion) = -q
    BY <1>1, SMT DEF Quotient, Magnitude
  <1> HIDE DEF p, q
  <1>6. Billion * p = p * Billion /\ Billion * (-q) = -(q * Billion)
    BY <1>1, <1>2, <1>3, SMT
  <1>7. Remainder(Half - 1, Billion) = Half - 1 - p * Billion
    BY <1>4, <1>6 DEF Remainder
  <1>8. Remainder(-Half, Billion) = -Half + q * Billion
    <2>1. Remainder(-Half, Billion) = -Half - (-(q * Billion))
      BY <1>5, <1>6 DEF Remainder
    <2>2. QED BY <1>1, <1>3, <2>1, SMT
  <1>9. MinSeconds * Billion = -(q * Billion) - Billion
    <2>1. MinSeconds = -q - 1
      BY <1>5 DEF MinSeconds
    <2>2. QED BY <1>1, <1>3, <2>1, SMT
  <1>10. MinNanoseconds = Billion - Half + q * Billion
    BY <1>1, <1>3, <1>8, SMT DEF MinNanoseconds
  <1>11. MaxSeconds = p /\ MinSeconds \in Int
    BY <1>3, <1>4, <1>5, SMT DEF MaxSeconds, MinSeconds
  <1> DEFINE s == p * Billion
             t == q * Billion
  <1> HIDE DEF s, t
  <1>12. QED
    BY <1>1, <1>2, <1>3, <1>7, <1>9, <1>10, <1>11, SMT

\* A timestamp is computed without overflow, exactly when it is representable.
LEMMA TimestampCorrect ==
  ASSUME NEW s \in Signed, NEW ns \in Signed
  PROVE  /\ Timestamp(s, ns).formed \subseteq Signed
         /\ Timestamp(s, ns).value =
              IF Valid(s, ns) THEN <<Time(s, ns)>> ELSE <<>>
  <1> DEFINE r == Remainder(Half - 1, Billion)
             x == s * Billion
             lo == MinSeconds * Billion
             hi == MaxSeconds * Billion
  <1>1. /\ Half \in Nat /\ Billion \in Nat \ {0} /\ s \in Int /\ ns \in Int
        /\ MaxSeconds \in Nat /\ MinSeconds \in Int /\ x \in Int
        /\ r \in 0..Billion - 1 /\ hi \in Nat /\ hi + r = Half - 1
        /\ MinNanoseconds \in 1..Billion /\ lo \in Int
        /\ lo + MinNanoseconds = -Half
    BY TimeLimits, SMT DEF Signed
  <1>2. s < MinSeconds => x <= lo - Billion
    BY <1>1, SMT
  <1>3. s > MaxSeconds => x >= hi + Billion
    BY <1>1, SMT
  <1>4. s > MinSeconds => x >= lo + Billion
    BY <1>1, SMT
  <1>5. s < MaxSeconds => x <= hi - Billion
    BY <1>1, SMT
  <1>6. (s = MinSeconds => x = lo) /\ (s = MaxSeconds => x = hi)
    OBVIOUS
  <1>7. Valid(s, ns) <=> /\ ns \in 0..Billion - 1
                         /\ -Half <= x + ns /\ x + ns <= Half - 1
    BY <1>1, SMT DEF Valid, Time, Signed
  <1>8. Time(s, ns) = x + ns
    BY DEF Time
  <1> DEFINE bad == \/ ns < 0 \/ ns >= Billion
                    \/ s < MinSeconds \/ s > MaxSeconds
                    \/ s = MaxSeconds /\ ns > r
                    \/ s = MinSeconds /\ ns < MinNanoseconds
             first == -Half + (ns - MinNanoseconds)
  <1>9. Timestamp(s, ns) =
          IF bad THEN [value |-> <<>>, formed |-> {}]
          ELSE IF s = MinSeconds
          THEN [value |-> <<first>>, formed |-> {first}]
          ELSE [value |-> <<x + ns>>, formed |-> {x, x + ns}]
    BY DEF Timestamp
  <1> HIDE DEF r, x, lo, hi
  <1>10. CASE bad
    <2>1. ~Valid(s, ns)
      BY <1>1, <1>2, <1>3, <1>6, <1>7, <1>10, SMT
    <2>2. QED BY <1>9, <1>10, <2>1
  <1>11. CASE ~bad
    <2>1. /\ ns >= 0 /\ ns < Billion /\ s >= MinSeconds /\ s <= MaxSeconds
          /\ s = MaxSeconds => ns <= r
          /\ s = MinSeconds => ns >= MinNanoseconds
      BY <1>1, <1>11, SMT
    <2>2. x + ns <= Half - 1
      BY <1>1, <1>5, <1>6, <2>1, SMT
    <2>3. x + ns >= -Half
      BY <1>1, <1>4, <1>6, <2>1, SMT
    <2>4. Valid(s, ns)
      BY <1>1, <1>7, <2>1, <2>2, <2>3, SMT
    <2> HIDE DEF bad
    <2>5. CASE s = MinSeconds
      <3>1. first = x + ns /\ first \in Signed
        BY <1>1, <1>6, <2>2, <2>3, <2>5, SMT DEF Signed
      <3>2. Timestamp(s, ns) = [value |-> <<first>>, formed |-> {first}]
        BY <1>9, <1>11, <2>5
      <3> HIDE DEF first
      <3>3. QED BY <1>8, <2>4, <3>1, <3>2
    <2>6. CASE s # MinSeconds
      <3>1. x \in Signed /\ x + ns \in Signed
        BY <1>1, <1>4, <2>1, <2>2, <2>3, <2>6, SMT DEF Signed
      <3>2. Timestamp(s, ns) = [value |-> <<x + ns>>, formed |-> {x, x + ns}]
        BY <1>9, <1>11, <2>6
      <3>3. QED BY <1>8, <2>4, <3>1, <3>2
    <2>7. QED BY <2>5, <2>6
  <1>12. QED BY <1>10, <1>11

LEMMA TimestampRange ==
  ASSUME NEW s \in Signed, NEW ns \in Signed
  PROVE  /\ Readable(Timestamp(s, ns)) <=> Valid(s, ns)
         /\ Valid(s, ns) => /\ Timestamp(s, ns).value[1] = Time(s, ns)
                            /\ Time(s, ns) \in Signed
  <1>1. Timestamp(s, ns).value = IF Valid(s, ns) THEN <<Time(s, ns)>> ELSE <<>>
    BY TimestampCorrect
  <1> DEFINE x == Time(s, ns)
  <1>2. <<x>> # <<>> /\ <<x>>[1] = x
    BY SMT
  <1>3. Valid(s, ns) => x \in Signed
    BY DEF Valid
  <1> HIDE DEF x
  <1>4. QED BY <1>1, <1>2, <1>3 DEF Readable, x

\* A deadline is computed without overflow, exactly when it can be reached.
LEMMA DeadlineCorrect ==
  ASSUME NEW delay \in Durations, NEW s \in Signed, NEW ns \in Signed
  PROVE  LET d == Deadline(delay, Timestamp(s, ns))
         IN  /\ d.formed \subseteq Signed
             /\ d.value = IF Reachable(<<delay, s, ns>>)
                          THEN <<Due(<<delay, s, ns>>)>> ELSE <<>>
             /\ Reachable(<<delay, s, ns>>) => Due(<<delay, s, ns>>) \in Durations
  <1> DEFINE t == Timestamp(s, ns)
             now == t.value[1]
  <1>1. Half \in Nat /\ delay \in Nat /\ delay < Half /\ ~(delay < 0)
    BY NumberAssumption, SMT DEF Durations
  <1>2. t.formed \subseteq Signed
    BY TimestampCorrect
  <1>3. Reachable(<<delay, s, ns>>) <=>
          Valid(s, ns) /\ Time(s, ns) >= 0 /\ Time(s, ns) + delay < Half
    BY DEF Reachable, Due
  <1>4. Due(<<delay, s, ns>>) = Time(s, ns) + delay
    BY DEF Due
  <1>5. CASE ~Valid(s, ns)
    <2>1. Deadline(delay, t) = [value |-> <<>>, formed |-> t.formed]
      BY <1>1, <1>5, TimestampRange DEF Deadline
    <2>2. QED BY <1>2, <1>3, <1>5, <2>1
  <1>6. CASE Valid(s, ns)
    <2>1. Readable(t) /\ now = Time(s, ns) /\ now \in Int /\ now < Half
      BY <1>1, <1>6, TimestampRange, SMT DEF Signed
    <2> HIDE DEF t
    <2> DEFINE room == Half - 1 - now
    <2>2. Deadline(delay, t) =
            IF now < 0 THEN [value |-> <<>>, formed |-> t.formed]
            ELSE IF delay > room
            THEN [value |-> <<>>, formed |-> t.formed \cup {room}]
            ELSE [value |-> <<now + delay>>,
                  formed |-> t.formed \cup {room, now + delay}]
      BY <1>1, <2>1 DEF Deadline
    <2> HIDE DEF now
    <2>3. CASE now < 0
      <3>1. ~Reachable(<<delay, s, ns>>)
        BY <1>3, <2>1, <2>3, SMT
      <3>2. QED BY <1>2, <2>2, <2>3, <3>1 DEF t
    <2>4. CASE now >= 0 /\ delay > room
      <3>1. ~Reachable(<<delay, s, ns>>) /\ room \in Signed /\ ~(now < 0)
        BY <1>1, <1>3, <2>1, <2>4, SMT DEF Signed
      <3>2. Deadline(delay, t) = [value |-> <<>>, formed |-> t.formed \cup {room}]
        BY <2>2, <2>4, <3>1
      <3> HIDE DEF room
      <3>3. QED BY <1>2, <3>1, <3>2 DEF t
    <2>5. CASE now >= 0 /\ ~(delay > room)
      <3>1. /\ Reachable(<<delay, s, ns>>) /\ room \in Signed /\ ~(now < 0)
            /\ now + delay \in Signed /\ now + delay \in Durations
        BY <1>1, <1>3, <1>6, <2>1, <2>5, SMT DEF Signed, Durations
      <3>2. Deadline(delay, t) = [value |-> <<now + delay>>,
                                  formed |-> t.formed \cup {room, now + delay}]
        BY <2>2, <2>5, <3>1
      <3>3. Due(<<delay, s, ns>>) = now + delay
        BY <1>4, <2>1
      <3> HIDE DEF room
      <3>4. QED BY <1>2, <3>1, <3>2, <3>3 DEF t
    <2>6. QED BY <2>1, <2>3, <2>4, <2>5, SMT
  <1>7. QED BY <1>5, <1>6

\* What every call establishes.
NumberInv == NoUndefined /\ TimestampExact /\ DeadlineExact

LEMMA NumberInitInv == NumberInit => NumberInv
  BY SMT DEF NumberInit, NumberInv, NoUndefined, TimestampExact, DeadlineExact

LEMMA Forms ==
  ASSUME NEW o, NEW a, NEW r, NEW f, Call(o, a, r, f),
         o \notin {"wall", "deadline", "sleep", "now", "between"},
         f \subseteq Signed
  PROVE  NumberInv'
  BY SMT DEF Call, NumberInv, NoUndefined, TimestampExact, DeadlineExact

LEMMA TakeResultInv ==
  ASSUME TakeResult
  PROVE  NumberInv'
  BY SMT DEF TakeResult, NumberInv, NoUndefined, TimestampExact, DeadlineExact

LEMMA RingInv ==
  ASSUME Ring
  PROVE  NumberInv'
  <1>1. PICK o \in {"add", "sub", "mul"}, a, b \in Signed :
          LET u == Word(o, a, b)
          IN  Call(o, <<a, b>>, <<Low(u) + High(u)>>, ConstBits(u))
    BY DEF Ring
  <1>2. ConstBits(Word(o, a, b)) \subseteq Signed
    BY WordRange, BitsFit
  <1>3. QED BY <1>1, <1>2, Forms

LEMMA DivideInv ==
  ASSUME Divide
  PROVE  NumberInv'
  <1>1. PICK o \in {"div", "rem"}, a, b \in Signed :
          IF BadDivisor(a, b) THEN Call(o, <<a, b>>, <<>>, {})
          ELSE Call(o, <<a, b>>, <<Result(o, a, b)>>,
                    {Quotient(a, b), Remainder(a, b)})
    BY DEF Divide
  <1>2. CASE BadDivisor(a, b)
    BY <1>1, <1>2, Forms
  <1>3. CASE ~BadDivisor(a, b)
    <2>1. {Quotient(a, b), Remainder(a, b)} \subseteq Signed
      BY <1>3, DivisionFits
    <2>2. QED BY <1>1, <1>3, <2>1, Forms
  <1>4. QED BY <1>2, <1>3

LEMMA ConstDivideInv ==
  ASSUME ConstDivide
  PROVE  NumberInv'
  <1>1. PICK o \in {"const_div", "const_rem"}, a, b \in Signed :
          LET d == IF BadDivisor(a, b) THEN 1 ELSE b
          IN  Call(o, <<a, b>>, <<Result(o, a, d)>>,
                   {Quotient(a, d), Remainder(a, d)})
    BY DEF ConstDivide
  <1> DEFINE d == IF BadDivisor(a, b) THEN 1 ELSE b
  <1>2. d \in Signed /\ ~BadDivisor(a, d)
    <2>1. 1 \in Signed /\ ~BadDivisor(a, 1)
      BY NumberAssumption, SMT DEF Signed, BadDivisor
    <2>2. QED BY <2>1
  <1>3. Call(o, <<a, b>>, <<Result(o, a, d)>>, {Quotient(a, d), Remainder(a, d)})
    BY <1>1
  <1> HIDE DEF d
  <1>4. {Quotient(a, d), Remainder(a, d)} \subseteq Signed
    BY <1>2, DivisionFits
  <1>5. QED BY <1>3, <1>4, Forms

LEMMA WallTimeInv ==
  ASSUME WallTime
  PROVE  NumberInv'
  <1>1. PICK s, ns \in Signed :
          Call("wall", <<s, ns>>, Timestamp(s, ns).value, Timestamp(s, ns).formed)
    BY DEF WallTime
  <1>2. NoUndefined'
    BY <1>1, TimestampCorrect DEF Call, NoUndefined
  <1>3. TimestampExact'
    BY <1>1, TimestampCorrect DEF Call, TimestampExact
  <1>4. DeadlineExact'
    BY <1>1 DEF Call, DeadlineExact
  <1>5. QED BY <1>2, <1>3, <1>4 DEF NumberInv

LEMMA MonotonicNowInv ==
  ASSUME MonotonicNow
  PROVE  NumberInv'
  <1>1. PICK s, ns \in Signed :
          LET t == Timestamp(s, ns)
              shown == Readable(t) /\ t.value[1] >= 0
          IN  Call("now", <<s, ns>>, IF shown THEN t.value ELSE <<>>, t.formed)
    BY DEF MonotonicNow
  <1> DEFINE t == Timestamp(s, ns)
             o == IF Readable(t) /\ t.value[1] >= 0 THEN t.value ELSE <<>>
  <1>2. Call("now", <<s, ns>>, o, t.formed)
    BY <1>1
  <1>3. NoUndefined'
    BY <1>2, TimestampCorrect DEF Call, NoUndefined
  <1>4. TimestampExact'
    BY <1>2 DEF Call, TimestampExact
  <1>5. o # <<>> => o[1] \in Instants
    <2>1. CASE Readable(t) /\ t.value[1] >= 0
      <3>1. t.value[1] \in Signed
        BY <2>1, TimestampRange
      <3>2. \A i \in Signed : i >= 0 => i \in Instants
        BY NumberAssumption, SMT DEF Signed, Instants
      <3>3. QED BY <2>1, <3>1, <3>2
    <2>2. QED BY <2>1
  <1> HIDE DEF o
  <1>6. DeadlineExact'
    BY <1>2, <1>5 DEF Call, DeadlineExact
  <1>7. QED BY <1>3, <1>4, <1>6 DEF NumberInv

LEMMA DeadlineAfterInv ==
  ASSUME DeadlineAfter
  PROVE  NumberInv'
  <1>1. PICK delay \in Durations, s, ns \in Signed :
          LET d == Deadline(delay, Timestamp(s, ns))
          IN  Call("deadline", <<delay, s, ns>>, d.value, d.formed)
    BY DEF DeadlineAfter
  <1> DEFINE d == Deadline(delay, Timestamp(s, ns))
             a == <<delay, s, ns>>
             due == Due(a)
  <1>2. Call("deadline", a, d.value, d.formed)
    BY <1>1
  <1>3. /\ d.formed \subseteq Signed
        /\ d.value = IF Reachable(a) THEN <<due>> ELSE <<>>
    BY DeadlineCorrect
  <1> HIDE DEF d, a, due
  <1>4. NoUndefined'
    BY <1>2, <1>3 DEF Call, NoUndefined
  <1>5. TimestampExact'
    BY <1>2 DEF Call, TimestampExact
  <1>6. <<due>> # <<>> /\ <<due>>[1] = due
    BY SMT
  <1>7. function' = "deadline" /\ args' = a /\ returned' = d.value
    BY <1>2 DEF Call
  <1>8. (returned' # <<>> <=> Reachable(args')) /\ (returned' # <<>> => returned'[1] = Due(args'))
    BY <1>3, <1>6, <1>7 DEF due
  <1>9. DeadlineExact'
    BY <1>7, <1>8 DEF DeadlineExact
  <1>10. QED BY <1>4, <1>5, <1>9 DEF NumberInv

LEMMA SleepForInv ==
  ASSUME SleepFor
  PROVE  NumberInv'
  <1>1. PICK delay \in Durations, s, ns \in Signed :
          LET d == Deadline(delay, Timestamp(s, ns))
          IN  Call("sleep", <<delay, s, ns>>,
                   IF Readable(d) THEN <<Quotient(d.value[1], Billion),
                                         Remainder(d.value[1], Billion)>>
                                  ELSE <<>>,
                   d.formed)
    BY DEF SleepFor
  <1> DEFINE d == Deadline(delay, Timestamp(s, ns))
             a == <<delay, s, ns>>
             due == Due(a)
             q == Quotient(due, Billion)
             r == Remainder(due, Billion)
  <1>2. /\ d.formed \subseteq Signed
        /\ d.value = IF Reachable(a) THEN <<due>> ELSE <<>>
        /\ Reachable(a) => due \in Durations
    BY DeadlineCorrect
  <1> HIDE DEF due
  <1>3. <<due>> # <<>> /\ <<due>>[1] = due
    BY SMT
  <1>4. Readable(d) <=> Reachable(a)
    BY <1>2, <1>3 DEF Readable
  <1>5. Reachable(a) => d.value[1] = due
    BY <1>2, <1>3
  <1>6. Call("sleep", a, IF Reachable(a) THEN <<q, r>> ELSE <<>>, d.formed)
    <2>1. CASE Reachable(a)
      BY <1>1, <1>4, <1>5, <2>1
    <2>2. CASE ~Reachable(a)
      BY <1>1, <1>4, <2>2
    <2>3. QED BY <2>1, <2>2
  <1>7. Reachable(a) => Time(q, r) = due /\ r \in 0..Billion - 1
    <2> SUFFICES ASSUME Reachable(a) PROVE Time(q, r) = due /\ r \in 0..Billion - 1
      OBVIOUS
    <2>1. Billion \in Nat \ {0} /\ due \in Nat
      BY <1>2, NumberAssumption, SMT DEF Durations
    <2> DEFINE m == due \div Billion
    <2>2. /\ m \in Nat /\ m * Billion \in Nat
          /\ m * Billion <= due /\ due < m * Billion + Billion
      BY <2>1, DivFacts
    <2>3. q = m
      BY <2>1, SMT DEF Quotient, Magnitude
    <2> HIDE DEF m
    <2>4. r = due - Billion * m
      BY <2>3 DEF Remainder
    <2>5. Billion * m = m * Billion
      BY <2>1, <2>2, SMT
    <2>6. Time(q, r) = m * Billion + r
      BY <2>3 DEF Time
    <2> HIDE DEF q, r
    <2>7. QED BY <2>1, <2>2, <2>4, <2>5, <2>6, SMT
  <1> HIDE DEF d, a, q, r
  <1>8. <<q, r>> # <<>> /\ <<q, r>>[1] = q /\ <<q, r>>[2] = r
    BY SMT
  <1>9. function' = "sleep" /\ args' = a /\ formed' = d.formed
    BY <1>6 DEF Call
  <1>10. returned' = IF Reachable(a) THEN <<q, r>> ELSE <<>>
    BY <1>6 DEF Call
  <1>11. NoUndefined'
    BY <1>2, <1>9 DEF NoUndefined
  <1>12. TimestampExact'
    BY <1>9 DEF TimestampExact
  <1>13. /\ returned' # <<>> <=> Reachable(args')
         /\ returned' # <<>> =>
              Time(returned'[1], returned'[2]) = Due(args') /\ returned'[2] \in 0..Billion - 1
    BY <1>7, <1>8, <1>9, <1>10 DEF due
  <1>14. DeadlineExact'
    BY <1>9, <1>13 DEF DeadlineExact
  <1>15. QED BY <1>11, <1>12, <1>14 DEF NumberInv

LEMMA DurationBetweenInv ==
  ASSUME DurationBetween
  PROVE  NumberInv'
  <1>1. PICK start, end \in Instants :
          IF end < start \/ (start < 0 /\ end > Half - 1 + start)
          THEN Call("between", <<start, end>>, <<>>, {})
          ELSE Call("between", <<start, end>>,
                    IF end - start < 0 THEN <<>> ELSE <<end - start>>,
                    {end - start})
    BY DEF DurationBetween
  <1>2. Half \in Nat /\ start \in 0..Half - 1 /\ end \in 0..Half - 1
    BY NumberAssumption, SMT DEF Instants
  <1> DEFINE a == <<start, end>>
             x == end - start
  <1>3. CASE end < start
    <2>1. Call("between", a, <<>>, {})
      BY <1>1, <1>3
    <2> HIDE DEF a
    <2>2. QED
      BY <2>1 DEF Call, NumberInv, NoUndefined, TimestampExact, DeadlineExact
  <1>4. CASE ~(end < start)
    <2>1. x \in Signed /\ x \in Durations /\ start + x = end /\ ~(x < 0)
      BY <1>2, <1>4, SMT DEF Signed, Durations
    <2>2. ~(start < 0)
      BY <1>2, SMT
    <2>3. Call("between", a, <<x>>, {x})
      BY <1>1, <1>4, <2>1, <2>2
    <2>4. a[1] = start /\ a[2] = end /\ <<x>>[1] = x
      BY SMT
    <2> HIDE DEF a, x
    <2>5. function' = "between" /\ args' = a /\ returned' = <<x>> /\ formed' = {x}
      BY <2>3 DEF Call
    <2>6. DeadlineExact'
      BY <2>1, <2>4, <2>5 DEF DeadlineExact
    <2>7. NoUndefined' /\ TimestampExact'
      BY <2>1, <2>5 DEF NoUndefined, TimestampExact
    <2>8. QED BY <2>6, <2>7 DEF NumberInv
  <1>5. QED BY <1>3, <1>4

LEMMA NumberNextInv ==
  ASSUME NumberInv, [NumberNext]_numberVars
  PROVE  NumberInv'
  <1>1. CASE UNCHANGED numberVars
    BY <1>1 DEF numberVars, NumberInv, NoUndefined, TimestampExact, DeadlineExact
  <1>2. CASE NumberNext
    BY <1>2, TakeResultInv, RingInv, DivideInv, ConstDivideInv, WallTimeInv,
       MonotonicNowInv, DeadlineAfterInv, SleepForInv, DurationBetweenInv DEF NumberNext
  <1>3. QED BY <1>1, <1>2

LEMMA NumberSpecInv == NumberSpec => []NumberInv
  <1>1. QED BY NumberInitInv, NumberNextInv, PTL DEF NumberSpec

\* No addition, multiplication, negation, division, remainder, constant macro
\* or time computation of the runtime forms a signed value outside its type.
THEOREM Defined == NumberSpec => []NoUndefined
  <1>1. NumberInv => NoUndefined
    BY DEF NumberInv
  <1>2. QED BY NumberSpecInv, <1>1, PTL

\* nq_timestamp_to_i64_ns refuses exactly what is not representable, and its
\* special case for the first second returns the same nanoseconds.
THEOREM TimestampsExact == NumberSpec => []TimestampExact
  <1>1. NumberInv => TimestampExact
    BY DEF NumberInv
  <1>2. QED BY NumberSpecInv, <1>1, PTL

\* Deadlines, sleeps, instants and durations are exact or refused.
THEOREM DeadlinesExact == NumberSpec => []DeadlineExact
  <1>1. NumberInv => DeadlineExact
    BY DEF NumberInv
  <1>2. QED BY NumberSpecInv, <1>1, PTL

\* The word of a result is congruent to the exact result.
LEMMA WordExact ==
  ASSUME NEW o \in {"add", "sub", "mul"}, NEW a \in Signed, NEW b \in Signed
  PROVE  \E k \in Int : Exact(o, a, b) = Word(o, a, b) + k * Full
  <1> DEFINE x == Unsigned(a)
             y == Unsigned(b)
  <1>1. Full \in Nat /\ Full > 0 /\ a \in Int /\ b \in Int
    BY NumberAssumption, SMT DEF Full, Signed
  <1>2. \A i \in Int : \E k \in Int : i = (i % Full) + k * Full
    <2> TAKE i \in Int
    <2>1. i \div Full \in Int /\ i = (i % Full) + (i \div Full) * Full
      BY <1>1, SMT
    <2>2. QED BY <2>1
  <1>3. PICK i \in Int : a = x + i * Full
    BY <1>1, <1>2 DEF Unsigned
  <1>4. PICK j \in Int : b = y + j * Full
    BY <1>1, <1>2 DEF Unsigned
  <1>5. x \in Int /\ y \in Int
    BY <1>1, SMT DEF Unsigned
  <1>6. CASE o = "add"
    <2>1. PICK k \in Int : x + y = ((x + y) % Full) + k * Full
      <3>1. x + y \in Int
        BY <1>5, SMT
      <3>2. QED BY <1>2, <3>1
    <2>2. Word(o, a, b) = (x + y) % Full /\ Exact(o, a, b) = a + b
      BY <1>6 DEF Word, Exact
    <2> DEFINE w == (x + y) % Full
    <2>3. w \in Int
      BY <1>1, <1>5, SMT
    <2> HIDE DEF x, y, w
    <2>4. a + b = w + (k + i + j) * Full
      BY <1>1, <1>3, <1>4, <1>5, <2>1, <2>3, SMT DEF w
    <2>5. QED BY <2>2, <2>4, k + i + j \in Int DEF w
  <1>7. CASE o = "sub"
    <2>1. PICK k \in Int : x - y = ((x - y) % Full) + k * Full
      <3>1. x - y \in Int
        BY <1>5, SMT
      <3>2. QED BY <1>2, <3>1
    <2>2. Word(o, a, b) = (x - y) % Full /\ Exact(o, a, b) = a - b
      BY <1>7 DEF Word, Exact
    <2> DEFINE w == (x - y) % Full
    <2>3. w \in Int
      BY <1>1, <1>5, SMT
    <2> HIDE DEF x, y, w
    <2>4. a - b = w + (k + i - j) * Full
      BY <1>1, <1>3, <1>4, <1>5, <2>1, <2>3, SMT DEF w
    <2>5. QED BY <2>2, <2>4, k + i - j \in Int DEF w
  <1>8. CASE o = "mul"
    <2>1. x * y \in Int
      BY <1>5, SMT
    <2>2. PICK k \in Int : x * y = ((x * y) % Full) + k * Full
      BY <1>2, <2>1
    <2>3. Word(o, a, b) = (x * y) % Full /\ Exact(o, a, b) = a * b
      BY <1>8 DEF Word, Exact
    <2> DEFINE w == (x * y) % Full
               l == k + x * j + i * y + i * (j * Full)
    <2>4. w \in Int /\ l \in Int
      BY <1>1, <1>5, SMT
    <2>5. a * b = w + l * Full
      <3> HIDE DEF x, y, w
      <3>1. (x + i * Full) * (y + j * Full) =
              x * y + (x * j + i * y + i * (j * Full)) * Full
        BY <1>1, <1>5, SMT
      <3>2. (k + (x * j + i * y + i * (j * Full))) * Full =
              k * Full + (x * j + i * y + i * (j * Full)) * Full
        BY <1>1, <1>5, SMT
      <3>3. l = k + (x * j + i * y + i * (j * Full))
        BY <1>1, <1>5, SMT
      <3> DEFINE t == (x * j + i * y + i * (j * Full)) * Full
      <3>4. t \in Int /\ k * Full \in Int /\ w \in Int
        BY <1>1, <1>5, <2>4, SMT
      <3>5. a * b = x * y + t /\ l * Full = k * Full + t /\ x * y = w + k * Full
        BY <1>3, <1>4, <2>2, <3>1, <3>2, <3>3 DEF w
      <3> HIDE DEF t, l
      <3>6. QED BY <3>4, <3>5, SMT
    <2> HIDE DEF l, w
    <2>6. QED BY <2>3, <2>4, <2>5 DEF w
  <1>9. QED BY <1>6, <1>7, <1>8

\* So is the signed value made of it, which is representable.
LEMMA BitsExact ==
  ASSUME NEW u \in Int, 0 <= u, u < Full
  PROVE  /\ Low(u) + High(u) \in Signed
         /\ \E k \in {0, 1} : u = Low(u) + High(u) + k * Full
  <1>1. Half \in Nat /\ Half > 0
    BY NumberAssumption, SMT
  <1>2. CASE u < Half
    <2>1. Low(u) = u /\ High(u) = 0
      BY <1>1, <1>2, SMT DEF Low, High
    <2>2. u = Low(u) + High(u) + 0 * Full /\ Low(u) + High(u) \in Signed
      BY <1>1, <1>2, <2>1, SMT DEF Signed, Full
    <2>3. QED BY <2>2
  <1>3. CASE u >= Half
    <2>1. Low(u) = u - Half /\ High(u) = -Half
      BY <1>1, <1>3, SMT DEF Low, High, Full
    <2>2. u = Low(u) + High(u) + 1 * Full /\ Low(u) + High(u) \in Signed
      BY <1>1, <1>3, <2>1, SMT DEF Signed, Full
    <2>3. QED BY <2>2
  <1>4. QED BY <1>1, <1>2, <1>3, SMT

\* The factor is small, because the exact result is.
LEMMA FactorBound ==
  ASSUME NEW o \in {"add", "sub", "mul"}, NEW a \in Signed, NEW b \in Signed,
         NEW r \in Signed, NEW k \in Int, Exact(o, a, b) = r + k * Full
  PROVE  k \in -Full..Full
  <1> DEFINE e == Exact(o, a, b)
             h == Half * Half
             f == k * Full
             g == Full * Full
  <1>1. /\ Half \in Nat /\ Half > 0 /\ Full = 2 * Half
        /\ a \in Int /\ -Half <= a /\ a < Half
        /\ b \in Int /\ -Half <= b /\ b < Half
        /\ r \in Int /\ -Half <= r /\ r < Half
    BY NumberAssumption, SMT DEF Signed, Full
  <1>2. h \in Nat /\ Half <= h
    <2>1. Half * 1 <= Half * Half
      BY <1>1, SMT
    <2>2. QED BY <1>1, <2>1, SMT
  <1>3. g = 4 * h
    BY <1>1, SMT
  <1>4. -h <= a * b /\ a * b <= h /\ a * b \in Int
    <2>1. \A x \in Int, y \in Nat : -Half <= x /\ x <= Half /\ y <= Half
             => -h <= x * y /\ x * y <= h
      <3> TAKE x \in Int, y \in Nat
      <3> HAVE -Half <= x /\ x <= Half /\ y <= Half
      <3>1. x * y <= Half * y /\ (-Half) * y <= x * y
        BY <1>1, SMT
      <3>2. Half * y <= Half * Half
        BY <1>1, SMT
      <3>3. (-Half) * y = -(Half * y) /\ Half * y \in Nat /\ x * y \in Int
        BY <1>1, SMT
      <3>4. QED BY <1>2, <3>1, <3>2, <3>3, SMT
    <2>2. CASE b >= 0
      BY <1>1, <2>1, <2>2, SMT
    <2>3. CASE b < 0
      <3>1. -h <= a * (-b) /\ a * (-b) <= h
        BY <1>1, <2>1, <2>3, SMT
      <3>2. a * (-b) = -(a * b) /\ a * b \in Int
        BY <1>1, SMT
      <3>3. QED BY <1>2, <3>1, <3>2, SMT
    <2>4. QED BY <1>1, <2>2, <2>3, SMT
  <1>5. e \in {a + b, a - b, a * b}
    BY DEF Exact
  <1>6. f \in Int /\ e = r + f
    BY <1>1, SMT
  <1>7. k > Full => f >= g + Full
    <2>1. k > Full => (Full + 1) * Full <= k * Full
      BY <1>1, SMT
    <2>2. (Full + 1) * Full = g + Full
      BY <1>1, SMT
    <2>3. QED BY <2>1, <2>2, <1>1, <1>6, SMT
  <1>8. k < -Full => f <= -g - Full
    <2>1. k < -Full => k * Full <= (-Full - 1) * Full
      BY <1>1, SMT
    <2>2. (-Full - 1) * Full = -g - Full
      BY <1>1, SMT
    <2>3. QED BY <2>1, <2>2, <1>1, <1>6, SMT
  <1> HIDE DEF e, h, f, g
  <1>9. -h - 2 * Half <= e /\ e <= h + 2 * Half /\ e \in Int
    BY <1>1, <1>2, <1>4, <1>5, SMT
  <1>10. QED BY <1>1, <1>2, <1>3, <1>6, <1>7, <1>8, <1>9, SMT

LEMMA RingWraps ==
  ASSUME Ring
  PROVE  WrapsExactly'
  <1>1. PICK o \in {"add", "sub", "mul"}, a, b \in Signed :
          LET u == Word(o, a, b)
          IN  Call(o, <<a, b>>, <<Low(u) + High(u)>>, ConstBits(u))
    BY DEF Ring
  <1> DEFINE u == Word(o, a, b)
             r == Low(u) + High(u)
             arg == <<a, b>>
  <1>2. u \in Int /\ 0 <= u /\ u < Full
    BY WordRange
  <1>3. r \in Signed /\ \E k \in {0, 1} : u = r + k * Full
    BY <1>2, BitsExact
  <1>4. PICK i \in {0, 1} : u = r + i * Full
    BY <1>3
  <1>5. PICK j \in Int : Exact(o, a, b) = u + j * Full
    BY WordExact
  <1>6. Call(o, arg, <<r>>, ConstBits(u))
    BY <1>1
  <1> HIDE DEF u, r
  <1>7. Exact(o, a, b) = r + (i + j) * Full
    <2>1. r \in Int /\ Full \in Int
      BY <1>3, NumberAssumption, SMT DEF Signed, Full
    <2>2. QED BY <1>4, <1>5, <2>1, SMT
  <1>8. i + j \in -Full..Full
    BY <1>3, <1>7, FactorBound, i + j \in Int
  <1>9. function' = o /\ args' = arg /\ returned' = <<r>>
    BY <1>6 DEF Call
  <1>10. arg[1] = a /\ arg[2] = b /\ <<r>>[1] = r
    BY SMT
  <1> HIDE DEF arg
  <1>11. QED BY <1>3, <1>7, <1>8, <1>9, <1>10 DEF WrapsExactly

LEMMA OthersWrap ==
  ASSUME NEW o, NEW a, NEW r, NEW f, Call(o, a, r, f),
         o \notin {"add", "sub", "mul"}
  PROVE  WrapsExactly'
  BY DEF Call, WrapsExactly

\* Addition, subtraction and multiplication return the representable integer
\* that is congruent to the exact result, for every width.
THEOREM ArithmeticWraps == NumberSpec => []WrapsExactly
  <1>1. NumberInit => WrapsExactly
    BY SMT DEF NumberInit, WrapsExactly
  <1>2. ASSUME WrapsExactly, [NumberNext]_numberVars PROVE WrapsExactly'
    <2>1. CASE UNCHANGED numberVars
      BY <1>2, <2>1 DEF numberVars, WrapsExactly
    <2>2. CASE TakeResult
      BY <2>2, SMT DEF TakeResult, WrapsExactly
    <2>3. CASE Ring
      BY <2>3, RingWraps
    <2>4. CASE Divide
      BY <2>4, OthersWrap, SMT DEF Divide
    <2>5. CASE ConstDivide
      BY <2>5, OthersWrap, SMT DEF ConstDivide
    <2>6. CASE WallTime
      BY <2>6, OthersWrap DEF WallTime
    <2>7. CASE MonotonicNow
      BY <2>7, OthersWrap DEF MonotonicNow
    <2>8. CASE DeadlineAfter
      BY <2>8, OthersWrap DEF DeadlineAfter
    <2>9. CASE SleepFor
      BY <2>9, OthersWrap DEF SleepFor
    <2>10. CASE DurationBetween
      BY <2>10, OthersWrap DEF DurationBetween
    <2>11. QED
      BY <1>2, <2>1, <2>2, <2>3, <2>4, <2>5, <2>6, <2>7, <2>8, <2>9, <2>10
      DEF NumberNext
  <1>3. QED BY <1>1, <1>2, PTL DEF NumberSpec

=============================================================================
