# A TLA+ model of Nauqtype

Nauqtype is a small language with a self-hosted compiler (`selfhost/*.nq`), a
native runtime in C (`stdlib/runtime.c`, `stdlib/runtime.h`) and shell scripts
that build, verify and release it. Most of the compiler is a sequential program over
text. What is hard to test lives elsewhere:

- in the runtime, where a process handle shares a child, its descendants, two
  pipes and the clock with the kernel, where files are replaced under readers
  and crashes, and where every allocation, system call and size may be at its
  limit;
- in `scripts/fast_concurrent.sh`, where a shell process owns a systemd scope
  with four groups of checks in it, may be interrupted between any two commands,
  and must not give back a lock or report a result that it cannot vouch for;
- in `scripts/check_milestone.sh` and the scripts it calls, which attest to a work tree
  that anybody may edit meanwhile;
- in the one phase of the compiler whose mistakes no test of the compiler shows:
  `borrow.nq`, which has to know on every path who owns a value, and
  `c_emit.nq`, which has to drop it there once.

These are modelled here, checked with TLC on small instances, and the safety
properties that matter most are proved with TLAPS for every value of the
constants. All paths below are relative to the root of the repository.

## 1. Inventory

| Part | Source | State | Operations | What is hard | Here |
| --- | --- | --- | --- | --- | --- |
| Process handles | `stdlib/runtime.c` 2775-3311 | `NQProcessState`: pid anchor, group flag, descriptors, two capture buffers, limit, outcome flags; the caller's handle | `process_start`, `_wait`, `_terminate`, `_drop` | child, descendant and clock between any two system calls; retries of a failing cleanup; pid reuse; end of file that never comes | `NqProcess` |
| One-call launch | `runtime.c` 2236-2615 | pid anchor, temporaries, descriptors, copies of arguments | `run_process` | undo after the n-th failure; the child that was started although the handshake failed | `NqRunProcess` |
| Files | `runtime.c` 1080-1136, 1298-1360, 1774-2016 | the directory, inodes, one call per process | read, write, atomic write, create temporaries | crash, short write, failing close, replacement under a reader | `NqFiles` |
| Strings, lists, errors | `runtime.c` 177-193, 327-384, 572-995, 1646-1711 | reference counts, list storage, fields of `io_err` | clone, drop, list operations, `read_dir`, construction of errors | a loop that fails half way; the count at `SIZE_MAX`; values moved into a failing call | `NqStrings` |
| Growing storage | `runtime.c` 76-142, 1053-1210, 1412-1447 | length, capacity, block | line, text and byte reads, list pushes, `current_dir` | sizes next to `SIZE_MAX` and to the limits; partial failure | `NqBuffer` |
| Integers and time | `runtime.h` 48-107, `runtime.c` 474-500, 2617-2713 | none | wrapping arithmetic, division, timestamps, deadlines, durations | signed overflow is undefined in C and defined in the language | `NqNumbers` |
| Concurrent tier | `scripts/fast_concurrent.sh`, lock of `scripts/check_fast.sh` | waiter's flags, pinned descriptors, tier lock; the control group with coordinator, workers and detached processes | start, bind, GO, FINISHED, freeze, ACK, drain, kill, exit, signal | signals anywhere, a path that names another unit, two reads that are not one observation, a killed waiter | `FastScope`, `FastConcurrent` |
| Standard streams | `runtime.c` 1165-1296 | stdio buffers, SIGPIPE disposition | read line, read all, write, flush | a broken pipe; bytes that are lost at exit | `NqStreams`, reads in `NqBuffer` |
| Directories, metadata, paths, args, env | `runtime.c` 1362-1772, 2018-2070 | none of its own | one system call each; `create_dir_all` | races with other processes | `read_dir`, `current_dir`; the rest planned |
| Floating point text, slices | `runtime.c` 3313-3681 | none | exact decimal conversion, `str_slice` | arithmetic on large ranges | not modelled |
| Borrow check, owned values in C | `selfhost/borrow.nq`, `value_plan.nq`, `c_emit.nq` | moved bindings per path; locals and temporaries of the emitted C | walk a body, merge, iterate loops; move, replace, drop, clean up | branches, loops and exits in any nesting; the analysis and the code it admits are two programs | `NqEmit`, `NqBorrow` |
| Rest of the compiler | `selfhost/*.nq` | facts of one program | lex, parse, resolve, typecheck, handoff, IR, text of the C | pure functions over text | not modelled |
| Budgeted runs | `scripts/run_budgeted.sh` | the receipt, status of `timeout` | run, publish, classify | the limit against the end of the command and its receipt | `NqBudget` |
| Milestone gate | `scripts/check_milestone.sh`, `milestone_attestation.sh` | start and attestation files | begin, phases, finish, verify | files that change while they are read; kills and restarts | `NqMilestone` |
| Stage1 cache, seed manifest, release | `scripts/*.sh` | cache records, manifests | derive, check, install | inputs that change between two hashes | not modelled |
| Seed, archived compiler, examples, tests | `bootstrap/`, `compiler/`, `examples/`, `tests/` | | | generated, retired, or fixtures | not modelled |

**Interaction.** Compiled programs call the runtime. The compiler's test and proof
runners use the same runtime calls as any other program: they start the host
C compiler and the compiled programs through `run_process` and the process
handles, and publish their artifacts through `atomic_write_file`.
`NqProcess` and `NqRunProcess` share one model of the kernel's side of a child,
`OsProcess`. All runtime calls obtain memory by the policy of `NqBuffer`:
the growth function that `NqStrings` takes as a parameter, with its assumption
`GrowAssumption`, is the one `NqBuffer` models. Durations and deadlines that a
handle waits for come from the operations in `NqNumbers`. `check_fast.sh` takes the
tier lock and passes it to `fast_concurrent.sh`, which starts the coordinator
by `systemd-run`; the two talk through two pipes (READY, GO, FINISHED, ACK)
and through the control group. `check_milestone.sh` runs each phase by
`run_budgeted.sh`, which runs a compiled program or a script under `timeout`: `NqMilestone` extends `NqBudget`,
which extends `NqStreams`, so that one behaviour has the editor, the gate, the timer, the shell
and a program with its pipe. `borrow.nq` decides on a body (`NqBorrow`), and the C of
an accepted one relies on it (`NqEmit`, which `NqBorrow` extends).

`PROJECT.json` lists the hazards, each at its line and with the properties that
would catch it.

## 2. Modules

Mutated operators (`...Leaks`, `...Trusts`, and so on, marked *Mutant*) stand before
the operator they vary. They are in no behaviour of the specifications; each is
a plausible bug for which one of the properties fails.

### OsProcess, NqProcess, ProcessHandle

`OsProcess` is what the kernel holds of a child: its state (`child`: forked,
running, zombie, reaped, ...), whether it is in its own group (`ingroup`), one descendant
(`desc`), who holds the write ends of the pipes (`held`) and what is queued in them
(`pipe`), the error pipe (`report`), and whether SIGKILL was delivered (`killed`).
Bytes are marked by their writer. The descendant may leave the group and come back as
long as the child runs in it (section 5).

`NqProcess` has one action per system call of the runtime. `st` is
`NQProcessState`, `fr` the locals of the call in progress, `pc` the next system call.
The actions are named for the functions: `SignalOwnedProbe`, `SignalOwnedDirect`,
`SignalOwnedGroup`, `SignalOwnedLate` are the four calls of
`nq_process_signal_owned`; `PumpProbe` ... `PumpFinish` one turn of `nq_process_pump`;
`Attempt` ... `CleanupClose` is `nq_process_cleanup` with its retries; and so on. EINTR is
retried by the code and not visible, except in `poll` and `read`, where the code goes round
its loop. Every other failure is a fault, at most `MaxFaults` of them.
`ForeignReap` lets something else in the program collect the child. `fr.early` is history: whether the child
had exited, unsignalled, when the runtime last looked before it signals, which is the fresh probe of
`nq_process_signal_owned` (or before, when the pump has read the clock). `Drop` is also `nq_process_wait` with an invalid deadline option, which
drops the handle.

`ProcessHandle` is the contract a caller sees: a handle is absent, active, ready,
inert or consumed; the outcome appears in the one step that gives up the child and
never changes. `ImplementsContract` is the refinement, under the mapping at
the end of `NqProcess`.

### NqRunProcess

`nq_run_process` on Linux. One action is one allocation, one copy of an argument or one system call, so what
each error path undoes is what the steps before it have acquired: the texts of program and directory, the two capture files (the
second is tried when the first has failed), the vector and the copies made so far, and four descriptors,
each of which may fail to be set up. Two arguments (`Args`) are enough for a copy that fails behind one that did not. The capture files stand in the place of the pipes.

### AtomicFile, NqFiles

Several processes call `nq_atomic_write_file`, `nq_write_file`, `nq_read_file` and the
creation of temporaries on one path, one system or stdio call per
action. An entry names an inode; an inode holds a prefix of one value or a mixture.
A process may be killed between two calls. `AtomicFile` says what an
atomic write promises: the path changes in one step, once for an Ok and never for an error.
What a power failure does to a disk is not modelled; the documentation promises
visibility, not durability (`SPEC.md` 327, `NQTYPE_LIBRARIES_UPSTREAM_RESPONSE.md` 160-172).

### NqStrings

Places (variables, list slots, error fields, a local of `read_dir`) hold counted owners.
Loops of the runtime are taken one string at a time. A saturated count aborts. The contents of strings
are left out.

### NqBuffer

Sizes are taken modulo `SizeMax + 1`, as `size_t` does. One step is an item or chunk
of input, one turn of the loop of `nq_growth`, or one allocation. `held` counts the blocks that are allocated. A reallocation
that fails leaves the old block where it is and hands a status to its caller; the free is that caller's own step
(`PushFails`, `TerminatorFails`, `ReadFails`, `IntoStrFails`, `DirFails`, ...), except in
`nq_try_str_take`, which frees what it is given. Lists are those of `read_dir`, which drops its list. Contents are left out.

### NqNumbers

Each action is a call; `formed` is the set of signed values its
evaluation forms, macros in unevaluated operands included. `Half` stands for
2^31 or 2^63. A negative duration is refused before anything is formed.

### FastScope, FastConcurrent

`FastScope` is everything that runs beside the waiter: the launcher, the coordinator
(`_nqfc_scope_entry`), a worker for each group (`_nqfc_worker`), detached processes
(in the scope's own group or in a child group), and what the kernel and the manager do
to the control group: freeze, kill, out-of-memory kill, lifetime limit,
removal, and the reuse of its path by another unit. `FastConcurrent` is the waiter:
`w.at` is the place in `_nqfc_run` or in `_nqfc_on_exit`, the other fields of `w` are
the script's variables (`_nqfc_signal`, `_nqfc_infra`, `_nqfc_pinned`,
`_nqfc_launched`, `_nqfc_drained`, `_nqfc_result`) and `w.pin` is the group whose directory is open.
The trap `_nqfc_on_signal` may run between any two steps.

There is no clock: an observation may fail and a deadline may pass at
any place (`Fail`), so whatever the limits are, the properties hold. READY and FINISHED records are
genuine, since only the coordinator writes the pipe and the nonce is
fresh; validation of environment, of exports and of manager properties can only
fail. `TakeLock` and `CheckCache` are the part of `check_fast.sh` that comes first; its serial route is left out.

### NqStreams, NqBudget, NqMilestone

`NqStreams` is a program and its standard output: a stdio buffer (`stdout`), a
pipe whose reader may go away, the disposition of SIGPIPE, the checked calls, `print_line`
and `exit`. `Return` is both ways out of `nq_write_stream` and `nq_stdout_flush`.
`evidence` is what a program that looks at its results knows. stdio is external: a
drain that fails may keep or discard the buffer.

`NqBudget` is `run_budgeted.sh`: `shell` is the place in the `/bin/sh -c` that runs the
command, `receipt` the file it publishes, `fired` what GNU `timeout` (external) has sent.
TERM reaches the command or `mv`, KILL everything. `Classify` is the part after `timeout` has
returned.

`NqMilestone` is the gate: `step`, `todo` and `scan` are `attest_candidate_state`, which
lists the index, compares and hashes one file at a time and writes the tree; `start` and `attestation` are the
two JSON files; `work` and `index` belong to an editor that edits and stages at any time. The
gate may end at any step (`set -e`, a signal) and start again. The number of phases is any.

### NqEmit

The C that `c_emit.nq` emits for a function body, run one statement at a time, a call one argument
at a time (`lower_expr_value` writes each as a statement of its own). Branches, lengths of loops and what a callee does to
a mutable borrow are open. `stack` holds the blocks that are being run, each with the locals it owns, those of them that
are in scope and, in an arm of a match or the else of a let-else, the temporary of its scrutinee.
`mem` and `live` say which local owns which storage. `faults` is history:
a zeroed binding was used (`moved`), a loop read freed storage (`freed`), a call got a binding twice
(`alias`), something was dropped twice (`twice`).

A body is a finite tree: `Programs`, its blocks (`Blocks`) and the argument lists of its calls (`Lists`) are constants,
`Expr` and `Statements` say what they are made of, and `ProgramsParsed` says that each part of a block or list is one
itself, and smaller (`Size`). TLC evaluates this assumption for every block and list of the runs.

The bodies that run are those the phases before the emitter let through: names refer to bindings in scope (`ScopeOf`), a
binding has one declaration, in a block that is not being run yet (`Declares`, `Binds`, `Fresh`), what is stored is owned
(`Storable`), jumps are in loops (`InLoop`), and the else block of a let-else exits (`EndBlock`, `NQ-PARSE-003`). A body that breaks one of these
stops. Nothing is assumed of the borrow check.

### NqBorrow

One behaviour is one function body: `Check` is the analysis, and when it accepts, `Run` runs the C as `NqEmit` does.

`walk_expr` and `check_block` call themselves and each other, and the head of a loop is found by iteration. Each of the
three recursions is a constant operator (`WalkArgs`, `CheckBlock`, `LoopEntry`) with a body that calls it
(`WalkRest`, `CheckStmts`, `GrowEntry`). The configurations give the operator its own body
(`WalkArgs <- WalkArguments`, which is `WalkRest`): this is the recursive procedure. The proofs use only that operator and body agree
(section 4). `MCNqBorrow` gives the bodies: everything that four small grammars derive. The operators of the
analysis were also compared with the compiler itself: about 2,500 bodies drawn from such grammars,
written as programs, get the same verdict from `nauqc check`.

Three things the analysis does not look at are marked by `gap`, and `ReadsOnlyLive` is about all other bodies:

- a binding that is moved at a `break` or `continue` and not at the head of the loop, because something behind the jump
  resets it before the back edge (the finding below);
- an argument that moves what an earlier argument of the same call borrows, inside a nested call:
  `both(ref x, eat(x))` is accepted (`walk_expr` remembers borrows per call);
- a `for` loop that replaces, moves or mutably borrows the list it goes through, in its body or in a condition there: `nq_for_items` is a copy of the header,
  and the items are read from freed storage. `SPEC.md` 688 says that the iterable is
  evaluated once, and nothing of what a body may do to it.

## 3. Runs

| Run | Instance | Shows |
| --- | --- | --- |
| `process_ownership` | no output, one input byte, three faults, foreign reaping | signals reach only what is owned; the group is empty before the child is collected; every return without a live handle owns nothing; a kill is never reported as a natural end, and a child that had exited by the fresh probe is never reported as timed out or cancelled, so that an exit between the deadline check and that probe counts as natural (`OutcomeGenuine`); one fault never ends the program; the handle contract |
| `process_wait` | a limit of one byte, pipes of one, one input byte, child and descendant write; fairness | an outcome has all of the child's output within the limit; calls return |
| `files_atomic` | two processes, a value of two bytes and one of one, two temporary names, four inodes, two faults per call | atomic visibility, snapshots, orphans, the atomic file |
| `files_plain` | one in-place writer beside another process | Ok means stored |
| `strings` | four owners, two variables, one list of at most three, two errors with two of three fields required, counts up to three | counts, hidden holders, whole errors |
| `run_process` | six faults over the calls of a sequence, a descendant, foreign reaping, two arguments | clean returns from each failure before and after `fork`, genuine results, complete captures, aborts, termination |
| `buffers` | `SIZE_MAX` 31, byte limit 31, string and list limit 11, first capacity 4, inputs up to 34 | no overrun, exact limits, no leak from any caller that finds a failure, progress |
| `numbers` | words of 32 values, a second of five nanoseconds, all operands | no undefined value, exact wrapping, exact times |
| `concurrent` | two groups with codes 0 and 124, all failures, signals, crash; fairness | lock, kill, result; the tier ends |
| `borrow` | 32,144 bodies in 661,795 states: moves of one binding in a loop, four statements deep; scopes with let, let-else, propagation and match, three deep; loops over a list that the body or an inner condition touches, four deep; calls with up to three arguments | an accepted body reads nothing that is gone, outside of the three patterns; calls are exclusive; every value is dropped once |
| `borrow_moved` | loops that are left by `break` | the finding: a moved value is used |
| `milestone` | two files, two edits, two starts, exit codes 0 and 124, a buffer of one byte; files are symmetric | SIGPIPE disposition, evidence of delivery, verdict of a budgeted run, attestation |

Type invariants and the list bounds are not spent on runs: they are proved (section 4).

**Finding.** `check_block` goes on after a loop with the state of the loop's condition
(`borrow.nq` 2162), and the head of a loop takes in the state at the end of its body (2138), but nothing is
kept of the state at a `break`. A move before a `break` survives only if it is still a move when the body ends. When
a statement between the `break` and the end of the body resets the binding, it is forgotten:

    while c {
        if d { eat(x); break; }
        x = new;
    }
    use(ref x);

The use behind the loop is accepted, although `SPEC.md` 833 and 847 say that using a moved value is a compile
error. Without the reset `x` is moved at the end of the body, hence at the head, and both `eat(x)`
and the use are reported (NQ-BORROW-001, NQ-BORROW-003). `continue` loses a move in the same way. The
compiler built from this commit gives these verdicts on both programs. `x` is zeroed, so the program reads an
empty value; there is no double drop (`OwnedOnce` holds for all bodies, section 4).

**Why the bounds are enough.** *Faults*: the cleanup gives up after two failures, so three reach
each retry, a further failure and the abort; the six of `run_process` are shared
by successive calls, and the abort compares with the count at the start of the call. *Output*:
child and descendant write a byte to each channel, so a limit of 1 is met, and exceeded when both write; a pipe of
one byte is full and blocks its writers until it is read. *Files*: a two-byte value can be
written short and mixed with another; four inodes are the target, two temporaries and one
still open for reading. *Strings*: four owners and a count that saturates at three meet both
exhaustion of memory and saturation; a list of at most three starts with two and grows
once, to a limit that is not a power of two. *Buffers*: 31 is all ones like `SIZE_MAX`; 11 is no
power of two times 4, and the lists are limited by bytes as well as by length;
inputs exceed every limit. *Numbers*: words of 32 values contain every carry, both ends and every quotient sign;
the length of the second does not divide the range. *Tier*: two groups are needed for "first failing" and for a worker
that outlives another; a signal or a failure is possible everywhere. 124 is both a
result of a group and a status of `timeout`. *Bodies*: four statements nest two loops with a branch and an exit,
which is as far as a merge, a fixpoint and a cleanup can be from one another; two iterations
of the fixpoint are the most that one moved binding needs. *Milestone*: one file can change while the other
is read, an edit before and one after a reading of it are two, a second start finds what the first has left; a buffer of one byte
is full after one write.

Deadlock is checked in all runs but that of the tier, which runs once and stops, and that of the gate, which
may be idle with all edits and starts used.

**Fairness**, each with its reason. `process_wait`: the runtime takes its next step;
a forked child gets through the few system calls before `execve`; SIGKILL is delivered;
time passes. Nothing is assumed of the program that was started or of its descendant.
`run_process`: the same without the clock, so a call may wait
for ever for a program that runs for ever; `CallReturns` says exactly that. `buffers`: the
runtime computes; input need not come. `concurrent`: the shell takes its next step;
SIGKILL that the kernel has accepted is delivered; the manager enforces `RuntimeMaxSec=300s`
on the scope; the launcher ends when its command has (or `timeout`'s 320 s end it when there is no scope). Nothing is
assumed of coordinator, workers or detached processes.

## 4. Proofs

All theorems are of the form `Spec => []P` or `Spec => Abstract!Spec`, for every value of
the constants that satisfies the assumptions named in the modules. Each proof module
states an inductive invariant, proves it step by step in lemmas of one group of actions
each, and derives the properties.

- **NqProcessProofs**: `IInv`. `ControlInv` says what is known at each place of a
  call, `AnchorInv` that the anchor is held while the child may have to be signalled or collected,
  `OwnInv` what is owned when a call returns, `TerminalInv` that after the
  last group signal no descendant is in the group. Without `AnchorInv` the safety of a
  signal does not follow from the place of the call, since the cleanup retries
  it. Theorems: types, `SignalsOnlyOwned`, `ReapedGroupEmpty`, `ReturnsOwnNothing`, the refinement of `ProcessHandle`.
  `StrongInv` adds what the other properties need, with any number of faults, any limit and
  pipe size. `RetryInv` counts the faults an attempt of the cleanup has behind it,
  since the abort is reached through the retry (`AbortSafety`). `CauseInv` follows a SIGKILL
  from the decision to the mark in the record, over the window in which the child is killed and not yet marked, and
  `EarlyInv` says that for a child that had exited when the clock was read or at the probe inside
  the signalling routine this probe's answer is what the marks are made from (`OutcomeSafety`). An exit between the probe and the kill is
  reported as the timeout or cancellation it raced with, and nothing is claimed about it. `CaptureInv` is a balance: the
  bytes of the child in a buffer and in its pipe are those it wrote; a pipe is closed only when
  none of them is left in it; and the length of the queue at the snapshot, taken after the child has exited,
  covers all of them, however much a descendant appends (`CaptureSafety`).
  The lemmas on `CountOf` (append, concatenation, moving a prefix) carry it through reads and writes.
- **NqFilesProofs**: `Inv`. `ShapeInv` relates a call to its descriptor and temporary,
  `DirInv` says that two calls never share a temporary inode, `WriteInv`
  that what a writer has written is a prefix of its value. `ReadInv` and `StoredOf` are the same for
  readers and buffered writers. The refinement maps the rename to the commit.
- **NqStringsProofs**: counts equal holders (`Counts`), with the shape of each loop
  (`JobInv`), of list slots (`SlotInv`), the local (`NameInv`) and error fields (`FieldInv`,
  `WholeInv`). The growth function is any that satisfies `GrowAssumption`.
- **NqRunProcessProofs**: `SiteInv` says what is held at each place, down to the copies and descriptors a loop or a
  setup has got to, `CauseInv` what a
  kill or a result was caused by, `FaultInv` counts failures, `BytesInv` that a capture file holds
  what the child has written and a text read from it after the child was collected still does (`RunCapture`).
- **NqArithmeticProofs**, about `NqBuffer`: `RoomInv` and `GrowInv` bound what is added before it is added, so that
  no sum wraps; the limits are exact because a capacity is rounded up only to the limit. `Doubles` is an action property:
  reading is linear in the input. `HeldInv` says how many blocks are allocated at each place of a call, the places
  between a failed reallocation and the caller's free among them (`NoLeak`). About `NqNumbers`: facts on truncated division, that both parts of a reconstructed
  word and their sum are in range, and the range of each partial result of the time functions.
  Any base `Half` and any `Billion` below it. The two modules share no state and one proof module.
- **NqBorrowProofs**, for every body, of any size and nesting, over any finite set of bindings, in two parts.
  *Ownership* (`OwnedSafety`; `CheckedOwned` behind the check): each value is dropped once. `Good` says of the machine that what is
  live is what the bindings in scope, the
  temporaries and one loose value hold, all different; `FramesOK` that blocks own what they have declared, that
  temporaries differ and that the outermost block is no loop's. A lemma for each operation of the machine (take, drop, drop locals,
  put, new, regrow) and of the frames (past, push, replace, jump) lets each statement be proved as the sequence it
  is: evaluate, which makes a value loose; store it in a zeroed binding, a temporary or the result; enter or leave
  blocks. The scope is needed because a block drops what it owns, not what is in scope.
  *The borrow check* (`AcceptedLive`, `AcceptedExclusive`): see below.
- **FastConcurrentProofs**: `ScopeInv` (nothing runs before GO, FINISHED implies
  that all workers ended as their status says), `PinInv` (once bound, the right group is pinned until nothing is left
  to kill), `DrainInv` (what is drained stays empty, because an ended coordinator and
  an empty group cannot come to life), `LockInv`, `ResultInv` (what has
  been established at each step towards a result). `ScopeMoves` is what no step of the scope
  undoes; with it the steps beside the waiter are one lemma.

- **NqMilestoneProofs**: `StreamInv` says what disposition and evidence hold in a call, `BudgetInv` relates the
  place of the shell to receipt, timer and status. `GateInv` is the argument of the attestation: versions only
  grow, so what the first state recorded of a file is at most what any phase reads, and that is at
  most what the second state records; when the two states are equal, all three are. `Later` and `Unattested`
  keep this through half-read states, kills and restarts.

**The soundness of the borrow check.** The analysis is one pass over the tree of a body; the C takes any path
through it, as often as loops turn. `CheckedInv` relates the two. First, what the analysis computes, by induction
on `Size`, as the argument of a smallest counterexample (a set of numbers has a least element, so that no
theorem with an operator parameter is needed; `RegularList`, `RegularBlock` and what follows them):
it only adds to its diagnostics and history; more moved before a statement leaves no less moved behind it; and `LoopEntry`
is a fixpoint that contains what it was started with, since it grows within the finite `Bindings`. Then the invariant, for some
states of the analysis `at`, one for each frame of the stack:

- `Shape`: each frame runs what is left of a block, `src[d]`, and the analysis of this rest from `at[d]` reports nothing.
- `Chain`: the state in which the analysis leaves a frame is within what the frame around it goes on with, and for the
  body of a loop within the state at its head (`Links`); what has been moved at a jump inside reaches the frames around it up to
  the loop, or is dropped on the way (`Escapes`), and is within the head of the loop, which is where `gap` is needed;
  what is touched inside is touched outside (`Touches`).
- `Pins`: the storage a `for` loop goes through is still that of its binding, which its body does not touch, so it is live
  at the next turn.
- `Lowering` and `Walking`: each call that is being lowered stands in its argument list where `WalkRest` stands in the analysis, with
  what was borrowed and consumed so far; what it borrows is not moved before the callee runs (`gap` again).
- `Covers`: all of these, and a binding in scope that is zeroed is in the moved set where the innermost frame or call has arrived.

None is inductive alone: a step that leaves blocks needs `Chain` for all of them at once, and the moved sets after a
jump follow from the state recorded at the frame it arrives in. `CallsExclusive` needs `Shape` and `Lowering` only, and holds
with a gap too (`Witness`). One of the patterns behind `gap`, a `while` condition
that borrows the list of a `for` loop around it, is a case of the third that the history had missed: the step had no
reason to preserve `Pins`, and TLC found the body once the grammar contained such conditions.

*From what it is proved.* `ProgramsParsed`, which TLC evaluates, and `BindingsFinite`; and for the theorems on the check the hypothesis
`Procedures`: the operators `WalkArgs`, `LoopEntry` and `CheckBlock` satisfy the equations of their bodies, on the
blocks and lists of `Programs` and on analysis states. This is what a recursive definition means, and the configurations make it
true by giving each operator its body as value. The equation of `LoopEntry` is required only where the first round contains the
entry, as in every call of it: elsewhere the iteration need not end. It is a hypothesis because the provers
have neither recursive operators nor the library's theorems on recursive functions.

**Only model-checked**: liveness (`CallsReturn`, `CallReturns`, `OperationsEnd`, `TierEnds`),
which the proof system cannot treat under fairness. Every invariant and refinement that a passing run checks is a theorem.

## 5. Assumptions

- No process joins the child's group once the child has exited (`DescRejoins`), be it collected or not. A process of
  the same session could: between the last group signal and the collection nothing in the runtime would reach it.
- One handle and one caller at a time; the runtime starts no threads.
- `execve` and the pipes are those of Linux; the Windows branches are left out.
- In `NqProcess` and `NqRunProcess` faults are bounded by `MaxFaults` in a run, and by
  any number in the proofs.
- The allocation limit of `NqBuffer` is at least the size of the header of a string;
  times read from the monotonic clock are not negative, which the code checks.
- `time_t` has the width of `int64_t`, as on the supported platform: the round trip of `nq_sleep_for` (`runtime.c`
  2704) never fails, and is left out.
- In `FastConcurrent` one tier is modelled against one lock, another holder is an initial state;
  a process that SIGKILL has reached does not fork any more; a unit other than
  ours appears under the path only after ours was removed.
- In `NqMilestone` an edit makes a version that never was before, and files are not
  deleted. A change that is taken back between the two states is not seen by the scripts either, which compare contents.
  The end of the gate ends what it has started.
- In `NqEmit` bindings are of move-only types and hold one storage each; a callee drops
  what is moved to it, and what it returns is new. The drop is taken when the argument is lowered, where the binding is zeroed, and not
  after all arguments, when the callee runs: nothing else names the storage in between; conditions, iterables and discarded expressions only read
  the names in them, and a `for` loop goes through a list that has a name. `Bindings` is finite (`BindingsFinite`).
- `signal` and the C library's stdio behave as POSIX says; after a failed drain a
  stream may report the failure again, when the evidence is broken already.

## 6. Not modelled

Contents of text (strings, logs, error messages), the Windows branches,
floating point conversion, path text, the compiler's
phases apart from the borrow check and the ownership of its C, and the evidence formats. The list with reasons is
in `PROJECT.json` under `components`. Of what is modelled in part:

- `NqEmit`, `NqBorrow`: field accesses and assignments, struct and variant constructors, copy types, borrowed
  parameters and their forwarding, `try` and match expressions, ranges.
- `NqMilestone`: the close of a milestone, hashes of artifacts and tools, the second
  digest of untracked files, two gates that overlap (nothing locks `build/verification`; the
  scripts are meant to be run one at a time).
- Thin wrappers of one system call: `create_dir_all`, removal, rename, copy, metadata.

The generated seed compiler (`bootstrap/seed/nauqc-seed.c`) has 120,000 of the repository's
128,000 lines of C. It is the output of `c_emit.nq` for the compiler itself, so there
is nothing in it to model beside its source.

Observations that are no disagreement with a document, and have no run: `stdout_write` Ok, a `print_line` that fails,
then `stdout_flush` Ok is possible without delivery, since `print_line` discards
its results and `fflush` of an emptied buffer succeeds; `NQTYPE_LIBRARIES_UPSTREAM_RESPONSE.md`
147-149 asks to check the results of both checked calls. `DeliveryEvidence` is stated for what it promises, and a
`print_line` takes the evidence away. A jump drops the temporaries of matches outside of its
loop early; they are zeroed and dropped again later, which does nothing.

## 7. Plan

1. `stage1_cache.sh` and the close of a milestone: the same readers of changing inputs as `NqMilestone`.
2. `create_dir_all`, removal and rename under interference, as actions of `NqFiles`' directory.
3. Field moves and aggregates in `NqEmit` and `NqBorrow`.
4. Variants of loops as action properties, as `Doubles` is one for `NqBuffer`: what each turn of a cleanup, of a drain and of
   a capture gets nearer to its end. They are the safety half of the liveness that is only model-checked.
