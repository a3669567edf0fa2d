------------------------------ MODULE NqBuffer ------------------------------
(***************************************************************************)
(* Growing storage in stdlib/runtime.c: the buffers of stdin_read_line,    *)
(* stdin_read, read_file and their byte variants, the storage of a list,   *)
(* and the retries of current_dir.  All of them grow by nq_growth, under a *)
(* limit on sequences and a limit on allocations, with sizes in size_t.    *)
(*                                                                         *)
(* A size computed by the code is taken modulo SizeMax + 1.  The contents  *)
(* are left out; what counts is how much was asked for, allocated and      *)
(* written, and which blocks are held.  One step is one item or chunk of   *)
(* input, one turn of the loop of nq_growth, one allocation, or what a     *)
(* caller does about one that failed: a rejected or failed reallocation    *)
(* keeps the old block, and each caller frees its own.                     *)
(*                                                                         *)
(* The list is the one of read_dir, where a failure is an error like any   *)
(* other; a push by the program ends it.  The names in it are NqStrings'.  *)
(***************************************************************************)
EXTENDS Integers

CONSTANTS
  SizeMax,     \* SIZE_MAX
  AllocLimit,  \* nq_allocation_limit()
  StrLimit,    \* nq_str_limit(), also the longest list
  BytesLimit,  \* nq_bytes_limit()
  Initial,     \* first capacity: 4096 for a buffer, 4 for a list, 256 for cwd
  Chunk,       \* size of one fread
  Item,        \* sizeof of a list element
  MaxInput     \* bound on the input

ASSUME SizeAssumption ==
  /\ SizeMax \in Nat \ {0}
  /\ AllocLimit \in 1..SizeMax /\ StrLimit \in 1..SizeMax
  /\ BytesLimit \in 1..AllocLimit
  /\ Initial \in Nat \ {0} /\ Chunk \in Nat \ {0} /\ Item \in Nat \ {0}
  /\ MaxInput \in Nat
  /\ Chunk <= SizeMax

VARIABLES
  op,      \* the operation in progress or returned from
  pc,
  len,     \* items stored
  cap,     \* items the storage is taken to hold
  block,   \* bytes of the block that the pointer names, 0 for NULL
  held,    \* blocks the operation has allocated and not freed
  taken,   \* items of input so far; for cwd the length of the path
  last,    \* the chunk ends the input
  extra,   \* locals of the reservation in progress: what is asked for,
  needed,  \* nq_growth's needed, limit and next
  limit,
  next,
  out      \* what the last operation returned

data == <<len, cap, block, held>>
input == <<taken, last>>
locals == <<extra, needed, limit, next>>
vars == <<op, pc, data, input, locals, out>>

Size == 0..SizeMax
Wrap(n) == n % (SizeMax + 1)
Least(a, b) == IF a <= b THEN a ELSE b

\* Types of the sizes and of the control.
TypeOK ==
  /\ op \in {"none", "line", "text", "bytes", "list", "cwd"}
  /\ pc \in {"idle", "input", "grow", "alloc", "store", "finish", "getcwd",
             "text", "take", "failed", "unterminated"}
  /\ len \in Size /\ cap \in Size /\ block \in 0..AllocLimit
  /\ held \in 0..2                      \* the storage and its owner
  /\ op = "list" => cap <= StrLimit     \* an int32_t
  /\ taken \in Nat /\ last \in {"no", "eof", "error"}
  /\ extra \in Size /\ needed \in Size /\ limit \in Size /\ next \in Size
  /\ out \in {"none", "ok", "empty", "size", "oom", "error"}

Init ==
  /\ op = "none" /\ pc = "idle"
  /\ len = 0 /\ cap = 0 /\ block = 0 /\ held = 0
  /\ taken = 0 /\ last = "no"
  /\ extra = 0 /\ needed = 0 /\ limit = 0 /\ next = 0
  /\ out = "none"

Width == IF op = "list" THEN Item ELSE 1

\* Mutant: the sum is formed before it is compared.
FitsSumOver(a, b, max) == Wrap(a + b) <= max

\* nq_size_add accepts the sum.
FitsSum(a, b, max) == a <= max /\ b <= max - a

\* free: of NULL nothing; the pointer still names the block.
Free == held' = IF block = 0 THEN held ELSE held - 1

\* free, and the way out of the operation with a result.
FreeAndReturn(result) ==
  /\ Free /\ UNCHANGED <<len, cap, block>>
  /\ pc' = "idle" /\ out' = result

(***************************************************************************)
(* Reservation                                                             *)
(***************************************************************************)

\* The start of nq_growth.
First(max) == IF cap = 0 THEN Least(Initial, max) ELSE cap

\* nq_buffer_reserve and nq_list_capacity, up to the loop of nq_growth.
Reserve(n, max) ==
  IF cap > max \/ len > cap \/ ~FitsSum(len, n, max)
  THEN pc' = "failed" /\ out' = "size" /\ UNCHANGED <<data, locals>>
  ELSE /\ extra' = n /\ limit' = max /\ needed' = Wrap(len + n)
       /\ IF needed' <= cap
          THEN pc' = "store" /\ next' = cap
          ELSE pc' = "grow" /\ next' = First(max)
       /\ UNCHANGED <<data, out>>

\* Mutant: doubling without a look at the limit.
GrowStepWraps ==
  /\ pc = "grow"
  /\ IF next < needed
     THEN next' = Wrap(next * 2) /\ pc' = pc
     ELSE pc' = "alloc" /\ next' = next
  /\ UNCHANGED <<op, data, input, extra, needed, limit, out>>

\* One turn of the loop of nq_growth.
GrowStep ==
  /\ pc = "grow"
  /\ IF next < needed
     THEN /\ next' = IF next > Wrap(limit - next) THEN limit
                                                  ELSE Wrap(next * 2)
          /\ pc' = pc
     ELSE pc' = "alloc" /\ next' = next
  /\ UNCHANGED <<op, data, input, extra, needed, limit, out>>

\* nq_try_realloc to n bytes; when it is rejected or fails, the caller gets
\* the status and still has the old block.
Realloc(n, done, failed) ==
  \/ /\ pc' = failed
     /\ out' = IF n > AllocLimit THEN "size" ELSE "oom"
     /\ UNCHANGED <<block, held>>
  \/ /\ n <= AllocLimit
     /\ block' = n /\ held' = IF block = 0 THEN held + 1 ELSE held
     /\ pc' = done /\ out' = out

\* The end of nq_buffer_reserve and of nq_try_list_str_push; nq_current_dir
\* allocates a new buffer.
Alloc ==
  /\ pc = "alloc"
  /\ Realloc(Wrap(next * Width), IF op = "cwd" THEN "getcwd" ELSE "store",
             "failed")
  /\ cap' = IF pc' = "failed" THEN cap ELSE next
  /\ UNCHANGED <<op, len, input, locals>>

(***************************************************************************)
(* Reading into a buffer, pushing to a list                                *)
(***************************************************************************)

Begin(o) ==
  /\ pc = "idle"
  /\ op' = o /\ pc' = "input" /\ out' = "none"
  /\ len' = 0 /\ cap' = 0 /\ block' = 0 /\ held' = 0
  /\ taken' = 0 /\ last' = "no"
  /\ UNCHANGED locals

BufferMax(max) == Least(max, AllocLimit)

\* One byte of a line, nq_buffer_push.
GetByte ==
  /\ pc = "input" /\ op = "line" /\ taken < MaxInput
  /\ taken' = taken + 1 /\ last' = last
  /\ Reserve(1, BufferMax(StrLimit))
  /\ op' = op

\* Mutant: the terminator has to fit in the limit of the text.
LineEndShort ==
  /\ pc = "input" /\ op = "line"
  /\ \/ /\ taken = 0
        /\ FreeAndReturn("empty") /\ UNCHANGED <<locals, last>>
     \/ /\ last' = "eof"
        /\ Reserve(1, BufferMax(StrLimit))
  /\ UNCHANGED <<op, taken>>

\* End of the line or of the input: the terminator needs one more byte.
LineEnd ==
  /\ pc = "input" /\ op = "line"
  /\ \/ /\ taken = 0                   \* end of file before any byte
        /\ FreeAndReturn("empty") /\ UNCHANGED <<locals, last>>
     \/ /\ last' = "eof"
        /\ Reserve(1, BufferMax(IF FitsSum(StrLimit, 1, SizeMax)
                                THEN StrLimit + 1 ELSE SizeMax))
  /\ UNCHANGED <<op, taken>>

\* The input fails before the end of the line.
LineError ==
  /\ pc = "input" /\ op = "line"
  /\ FreeAndReturn("error")
  /\ UNCHANGED <<op, input, locals>>

\* A byte, or the terminator, for which there was no room.
PushFails ==
  /\ pc = "failed" /\ op = "line" /\ last = "no"
  /\ FreeAndReturn(out)
  /\ UNCHANGED <<op, input, locals>>

\* Mutant: the text is not freed when there is no room for its terminator.
TerminatorFailsKeeps ==
  /\ pc = "failed" /\ op = "line" /\ last = "eof"
  /\ pc' = "idle"
  /\ UNCHANGED <<op, data, input, locals, out>>

TerminatorFails ==
  /\ pc = "failed" /\ op = "line" /\ last = "eof"
  /\ FreeAndReturn(out)
  /\ UNCHANGED <<op, input, locals>>

\* A full chunk goes on; a short one is the last, with or without an error.
ReadChunk ==
  /\ pc = "input" /\ op \in {"text", "bytes"}
  /\ \E n \in 1..Chunk :
       /\ taken + n <= MaxInput
       /\ taken' = taken + n
       /\ last' \in IF n = Chunk THEN {"no"} ELSE {"eof", "error"}
       /\ Reserve(n, BufferMax(IF op = "text" THEN StrLimit ELSE BytesLimit))
  /\ op' = op

\* fread returns nothing, at the end of the input or for an error.
ReadNothing ==
  /\ pc = "input" /\ op \in {"text", "bytes"}
  /\ last' \in {"eof", "error"} /\ pc' = "finish"
  /\ UNCHANGED <<op, data, taken, locals, out>>

ReadFails ==
  /\ pc = "failed" /\ op \in {"text", "bytes"}
  /\ FreeAndReturn(out)
  /\ UNCHANGED <<op, input, locals>>

\* An entry of the directory; the capacity of a list is limited by its
\* bytes.
Push ==
  /\ pc = "input" /\ op = "list" /\ taken < MaxInput
  /\ taken' = taken + 1 /\ last' = last
  /\ Reserve(1, Least(StrLimit, AllocLimit \div Item))
  /\ op' = op

\* The list does not grow: it is dropped.
DirFails ==
  /\ pc = "failed" /\ op = "list"
  /\ FreeAndReturn(out)
  /\ UNCHANGED <<op, input, locals>>

\* Likewise when the name of the entry is not copied.
NameFails ==
  /\ pc = "input" /\ op = "list"
  /\ FreeAndReturn("oom")
  /\ UNCHANGED <<op, input, locals>>

\* The last entry; readdir or closedir may have failed.
PushEnd ==
  /\ pc = "input" /\ op = "list"
  /\ \/ FreeAndReturn("error")
     \/ pc' = "idle" /\ out' = "ok" /\ UNCHANGED data
  /\ UNCHANGED <<op, input, locals>>

\* What was reserved is written; the terminator of a line is not counted.
Store ==
  /\ pc = "store"
  /\ len' = IF op = "line" /\ last = "eof" THEN len ELSE Wrap(len + extra)
  /\ pc' = IF last = "no" THEN "input" ELSE "finish"
  /\ UNCHANGED <<op, cap, block, held, input, locals, out>>

\* The end of the input, or an error behind what was read.
Finish ==
  /\ pc = "finish"
  /\ IF last = "error" THEN FreeAndReturn("error")
     ELSE /\ pc' = CASE op = "line" -> "take"
                     [] op = "text" -> "text"
                     [] OTHER -> "idle"
          /\ out' = IF op = "bytes" THEN "ok" ELSE out
          /\ UNCHANGED data
  /\ UNCHANGED <<op, input, locals>>

\* nq_bytes_result_into_str: the bytes read become a terminated string.
IntoStr ==
  /\ pc = "text"
  /\ IF len > StrLimit \/ ~FitsSum(len, 1, AllocLimit)
     THEN FreeAndReturn("size")
     ELSE Realloc(Wrap(len + 1), "take", "unterminated") /\ UNCHANGED <<len, cap>>
  /\ UNCHANGED <<op, input, locals>>

\* No room for the terminator: the bytes are still there.
IntoStrFails ==
  /\ pc = "unterminated"
  /\ FreeAndReturn(out)
  /\ UNCHANGED <<op, input, locals>>

\* nq_try_str_take: the owner is allocated or the storage released; the
\* callers free nothing.
Take ==
  /\ pc = "take"
  /\ IF len > StrLimit \/ len >= AllocLimit
     THEN FreeAndReturn("size")
     ELSE \/ FreeAndReturn("oom")
          \/ /\ pc' = "idle" /\ out' = "ok"
             /\ held' = held + 1
             /\ UNCHANGED <<len, cap, block>>
  /\ UNCHANGED <<op, input, locals>>

(***************************************************************************)
(* current_dir                                                             *)
(***************************************************************************)
CwdLimit ==
  IF FitsSum(StrLimit, 1, AllocLimit) THEN StrLimit + 1 ELSE AllocLimit

BeginCwd ==
  /\ pc = "idle"
  /\ op' = "cwd" /\ pc' = "alloc" /\ out' = "none"
  /\ len' = 0 /\ cap' = 0 /\ block' = 0 /\ held' = 0
  /\ taken' \in 1..MaxInput /\ last' = "eof"
  /\ limit' = CwdLimit /\ next' = Least(CwdLimit, Initial)
  /\ UNCHANGED <<extra, needed>>

\* There is no buffer yet, or none any more.
CwdFails ==
  /\ pc = "failed" /\ op = "cwd"
  /\ pc' = "idle"
  /\ UNCHANGED <<op, data, input, locals, out>>

\* getcwd succeeds, or the buffer is freed: it fails, or finds the buffer
\* too small for a path that needs one byte more than its length.
GetCwd ==
  /\ pc = "getcwd"
  /\ \/ /\ taken + 1 <= cap
        /\ pc' = "take" /\ len' = taken
        /\ UNCHANGED <<cap, block, held, locals, out>>
     \/ FreeAndReturn("error") /\ UNCHANGED locals
     \/ /\ taken + 1 > cap /\ cap = limit
        /\ FreeAndReturn("size") /\ UNCHANGED locals
     \/ /\ taken + 1 > cap /\ cap # limit
        /\ Free /\ block' = 0
        /\ needed' = Wrap(cap + 1) /\ next' = cap /\ pc' = "grow"
        /\ UNCHANGED <<len, cap, extra, limit, out>>
  /\ UNCHANGED <<op, input>>

Compute ==
  \/ GrowStep \/ Alloc \/ Store \/ Finish \/ IntoStr \/ Take \/ GetCwd
  \/ PushFails \/ TerminatorFails \/ ReadFails \/ DirFails \/ IntoStrFails
  \/ CwdFails

Next ==
  \/ \E o \in {"line", "text", "bytes", "list"} : Begin(o)
  \/ BeginCwd
  \/ GetByte \/ LineEnd \/ LineError \/ ReadChunk \/ ReadNothing
  \/ Push \/ NameFails \/ PushEnd
  \/ Compute

Spec == Init /\ [][Next]_vars

\* The runtime takes its next step, except that input may never come.
FairSpec == Spec /\ WF_vars(Compute)

------------------------------------------------------------------------------
(***************************************************************************)
(* Properties                                                              *)
(***************************************************************************)

\* Every write of nq_read_stream, nq_buffer_push, stdin_read_line, the list
\* pushes and getcwd stays within the bytes that were allocated, in a block
\* that is not freed.
NoOverrun ==
  /\ pc = "store" => (len + extra) * Width <= block
  /\ pc = "getcwd" => cap <= block
  /\ pc = "take" => len + 1 <= block
  /\ pc \in {"store", "getcwd", "take"} => held = 1

\* An operation returns a value only with all of its input and within the
\* limits, and a size error only when the input is beyond them, so that a
\* capacity rounded up never rejects what would fit.
TooLong(o, n) ==
  CASE o \in {"line", "text", "cwd"} -> n > StrLimit \/ n >= AllocLimit
    [] o = "bytes" -> n > BytesLimit
    [] o = "list" -> n > StrLimit \/ n * Item > AllocLimit
    [] OTHER -> FALSE
LimitsExact ==
  pc = "idle" =>
    /\ out = "ok" => len = taken /\ ~TooLong(op, taken)
    /\ out = "size" => TooLong(op, taken)

\* An operation that fails, or returns no line, has freed what it allocated
\* once, whichever of reserve, realloc, take and their callers found the
\* failure; a value has its storage and, for a string, its owner.
Owned ==
  IF out # "ok" THEN 0
  ELSE IF op \in {"line", "text", "cwd"} THEN 2
  ELSE IF block = 0 THEN 0 ELSE 1
NothingLeaks == pc = "idle" => held = Owned

\* A capacity at least doubles or reaches its limit, so that reading costs
\* time in proportion to the input.
GrowthDoubles ==
  [][cap' > cap /\ cap > 0 => cap' >= 2 * cap \/ cap' = limit]_vars

\* The loop of nq_growth and the retries of current_dir end: an operation
\* returns or waits for input.
Waiting == pc \in {"idle", "input"}
OperationsEnd == ~Waiting ~> Waiting

==============================================================================
