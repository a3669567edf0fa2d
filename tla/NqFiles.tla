------------------------------ MODULE NqFiles ------------------------------
(***************************************************************************)
(* The file operations of stdlib/runtime.c on one path, by several         *)
(* processes at once: nq_atomic_write_file, nq_write_file (and _bytes),    *)
(* nq_read_file (and _bytes), nq_create_temp_file and nq_create_temp_dir.  *)
(* One action is one system call or stdio call with the code up to the     *)
(* next one; a process may be killed between any two.                      *)
(*                                                                         *)
(* A directory entry names an inode.  An inode holds a prefix of one of    *)
(* the values being written, or a mixture of several.  Memory failures     *)
(* and failed calls are Faults, at most MaxFaults of them in one call.     *)
(***************************************************************************)
EXTENDS Naturals

CONSTANTS
  Procs,       \* processes using the path
  PlainProcs,  \* those that also write it with nq_write_file
  Values,      \* values written
  Length,      \* their lengths in bytes
  TempNames,   \* names mkstemp can choose
  Inodes,
  None,        \* no inode, no name or no value
  Mixed,       \* marks the content of an inode written by two calls
  MaxFaults

ASSUME PlainAssumption == PlainProcs \subseteq Procs
ASSUME LengthAssumption == Length \in [Values -> Nat]
ASSUME NoneAssumption ==
  None \notin Values \cup TempNames \cup Inodes /\ Mixed \notin Values
ASSUME TargetAssumption == "target" \notin TempNames
ASSUME MixedAssumption == Mixed # None
ASSUME FaultsAssumption == MaxFaults \in Nat

VARIABLES
  dir,      \* directory entries: the path itself and the temporary names
  content,  \* what each inode holds
  proc      \* the call each process is in

vars == <<dir, content, proc>>

Names == TempNames \cup {"target"}

Content == [of : Values \cup {Mixed}, len : Nat]
Whole(v) == [of |-> v, len |-> Length[v]]
IsWhole(c) == c.of \in Values /\ c.len = Length[c.of]

OpNames == {"none", "atomic", "plain", "read", "temp_file", "temp_dir"}
Steps == {"idle", "dead", "take", "mkstemp", "chmod", "write", "close",
          "rename", "unlink", "open", "stream", "fclose", "return"}

\* val is the value to write, or what a read has returned so far; stored is
\* how much of a buffered stream has reached the inode; failed is history.
Rest == [op |-> "none", pc |-> "idle", val |-> None, name |-> None,
         inode |-> None, offset |-> 0, stored |-> 0, res |-> "ok",
         failed |-> 0]

Proc == [op : OpNames, pc : Steps, val : Values \cup {None, Mixed},
         name : TempNames \cup {None}, inode : Inodes \cup {None},
         offset : Nat, stored : Nat, res : {"ok", "err"}, failed : Nat]

\* Types of the directory, the inodes and the calls.
TypeOK ==
  /\ dir \in [Names -> Inodes \cup {None}]
  /\ content \in [Inodes -> Content]
  /\ proc \in [Procs -> Proc]

\* The path is absent, or names a file some earlier write completed.
Init ==
  /\ \E target \in Inodes \cup {None} :
       dir = [n \in Names |-> IF n = "target" THEN target ELSE None]
  /\ \E v \in Values : content = [i \in Inodes |-> Whole(v)]
  /\ proc = [p \in Procs |-> Rest]

Fresh(i) ==
  /\ \A n \in Names : dir[n] # i
  /\ \A p \in Procs : proc[p].inode # i

At(p, label) == proc[p].pc = label
CanFail(p) == proc[p].failed < MaxFaults

\* Continue with new fields, at a label, or there with an error.
Become(p, r) == proc' = [proc EXCEPT ![p] = r]
Goto(p, label) == Become(p, [proc[p] EXCEPT !.pc = label])
Fail(p, label) ==
  /\ CanFail(p)
  /\ Become(p, [proc[p] EXCEPT !.pc = label, !.res = "err",
                               !.failed = @ + 1])

(***************************************************************************)
(* The call and its return                                                 *)
(***************************************************************************)
FirstStep(op) ==
  CASE op = "atomic" -> "mkstemp"
    [] op \in {"temp_file", "temp_dir"} -> "take"
    [] OTHER -> "open"

Begin(p, op, v) ==
  /\ At(p, "idle")
  /\ op = "plain" => p \in PlainProcs
  /\ (v = None) = (op \notin {"atomic", "plain"})
  /\ Become(p, [Rest EXCEPT !.op = op, !.val = v,
                            !.pc = FirstStep(op)])
  /\ UNCHANGED <<dir, content>>

\* Validation or an allocation fails before anything is opened.
Reject(p) ==
  /\ proc[p].pc \in {"mkstemp", "take", "open"}
  /\ Fail(p, "return")
  /\ UNCHANGED <<dir, content>>

Return(p) ==
  /\ At(p, "return")
  /\ Become(p, Rest)
  /\ UNCHANGED <<dir, content>>

\* The process is killed: its descriptors close, buffered data is lost.
Crash(p) ==
  /\ ~At(p, "dead")
  /\ Become(p, [Rest EXCEPT !.pc = "dead"])
  /\ UNCHANGED <<dir, content>>

(***************************************************************************)
(* Temporary entries: nq_create_temp_file, nq_create_temp_dir and the      *)
(* first half of nq_atomic_write_file                                      *)
(***************************************************************************)

\* The string that will carry the name is allocated before the file exists.
Take(p) ==
  /\ At(p, "take")
  /\ Goto(p, "mkstemp")
  /\ UNCHANGED <<dir, content>>

AfterTemp(p) ==
  IF proc[p].op # "atomic" THEN "chmod"
  ELSE IF Length[proc[p].val] = 0 THEN "close" ELSE "write"

MakeTemp(p) ==
  /\ At(p, "mkstemp")
  /\ \E n \in TempNames, i \in Inodes :
       /\ dir[n] = None
       /\ Fresh(i)
       /\ dir' = [dir EXCEPT ![n] = i]
       /\ content' = [content EXCEPT ![i] =
            [of |-> IF proc[p].op = "atomic" THEN proc[p].val ELSE Mixed,
             len |-> 0]]
       /\ Become(p, [proc[p] EXCEPT !.name = n, !.inode = i,
                                    !.pc = AfterTemp(p)])

\* Mutant: a failed chmod returns without removing the entry.
ChmodLeaves(p) ==
  /\ At(p, "chmod")
  /\ \/ Goto(p, IF proc[p].op = "temp_file" THEN "close" ELSE "return")
     \/ Fail(p, "return")
  /\ UNCHANGED <<dir, content>>

\* fchmod or chmod; on a failure the entry is removed again.
Chmod(p) ==
  /\ At(p, "chmod")
  /\ \/ Goto(p, IF proc[p].op = "temp_file" THEN "close" ELSE "return")
     \/ Fail(p, "unlink")
  /\ UNCHANGED <<dir, content>>

(***************************************************************************)
(* nq_atomic_write_file                                                    *)
(***************************************************************************)

\* An inode after k bytes of v are written to it at an offset.
Written(c, v, offset, k) ==
  IF c.len = offset /\ (c.of = v \/ c.len = 0)
  THEN [of |-> v, len |-> offset + k]
  ELSE [of |-> Mixed, len |-> IF c.len > offset + k THEN c.len ELSE offset + k]

\* Mutant: a short write is taken for a complete one.
WriteTempOnce(p) ==
  /\ At(p, "write")
  /\ LET v == proc[p].val  i == proc[p].inode  off == proc[p].offset
     IN  \/ /\ \E k \in 1..Length[v] - off :
                 /\ content' =
                      [content EXCEPT ![i] = Written(@, v, off, k)]
                 /\ Become(p, [proc[p] EXCEPT !.offset = off + k,
                                              !.pc = "close"])
         \/ Fail(p, "unlink") /\ UNCHANGED content
  /\ UNCHANGED dir

WriteTemp(p) ==
  /\ At(p, "write")
  /\ LET v == proc[p].val  i == proc[p].inode  off == proc[p].offset
     IN  \/ /\ \E k \in 1..Length[v] - off :
                 /\ content' =
                      [content EXCEPT ![i] = Written(@, v, off, k)]
                 /\ Become(p, [proc[p] EXCEPT !.offset = off + k,
                                              !.pc = IF off + k = Length[v]
                                                     THEN "close" ELSE "write"])
         \/ Fail(p, "unlink") /\ UNCHANGED content
  /\ UNCHANGED dir

CloseTemp(p) ==
  /\ At(p, "close")
  /\ \/ Goto(p, IF proc[p].op = "atomic" THEN "rename" ELSE "return")
     \/ Fail(p, "unlink")
  /\ UNCHANGED <<dir, content>>

\* Mutant: the target is removed before the temporary is renamed.
RenameTempAfterUnlink(p) ==
  /\ At(p, "rename")
  /\ \/ /\ dir["target"] # None
        /\ dir' = [dir EXCEPT !["target"] = None]
        /\ UNCHANGED proc
     \/ /\ dir["target"] = None
        /\ dir' = [dir EXCEPT !["target"] = proc[p].inode,
                              ![proc[p].name] = None]
        /\ Goto(p, "return")
  /\ UNCHANGED content

RenameTemp(p) ==
  /\ At(p, "rename")
  /\ \/ /\ dir' = [dir EXCEPT !["target"] = dir[proc[p].name],
                              ![proc[p].name] = None]
        /\ Goto(p, "return")
     \/ Fail(p, "unlink") /\ UNCHANGED dir
  /\ UNCHANGED content

\* The error paths remove the temporary; the code ignores a failure here.
Unlink(p) ==
  /\ At(p, "unlink")
  /\ \/ /\ dir' = [dir EXCEPT ![proc[p].name] = None]
        /\ Goto(p, "return")
     \/ Fail(p, "return") /\ UNCHANGED dir
  /\ UNCHANGED content

(***************************************************************************)
(* nq_write_file_data: fopen "wb", nq_write_stream, fclose                 *)
(***************************************************************************)
OpenWrite(p) ==
  /\ At(p, "open") /\ proc[p].op = "plain"
  /\ \E i \in IF dir["target"] = None THEN {j \in Inodes : Fresh(j)}
                                      ELSE {dir["target"]} :
       /\ dir' = [dir EXCEPT !["target"] = i]
       /\ content' = [content EXCEPT ![i] = [of |-> proc[p].val, len |-> 0]]
       /\ Become(p, [proc[p] EXCEPT !.inode = i,
                                    !.pc = IF Length[proc[p].val] = 0
                                           THEN "fclose" ELSE "stream"])

\* fwrite accepts bytes; the stream stores some of them at once.
WriteStream(p) ==
  /\ At(p, "stream") /\ proc[p].op = "plain"
  /\ LET v == proc[p].val  i == proc[p].inode  off == proc[p].offset
         st == proc[p].stored
     IN  \/ /\ \E k \in 1..Length[v] - off, s \in 0..Length[v] - st :
                 /\ st + s <= off + k
                 /\ content' = IF s = 0 THEN content ELSE
                      [content EXCEPT ![i] = Written(@, v, st, s)]
                 /\ Become(p, [proc[p] EXCEPT !.offset = off + k,
                                              !.stored = st + s,
                                              !.pc = IF off + k = Length[v]
                                                     THEN "fclose" ELSE "stream"])
         \/ Fail(p, "fclose") /\ UNCHANGED content
  /\ UNCHANGED dir

\* Mutant: the result of fclose is ignored.
CloseWriteIgnores(p) ==
  /\ At(p, "fclose") /\ proc[p].op = "plain"
  /\ LET v == proc[p].val  i == proc[p].inode  st == proc[p].stored
         rest == proc[p].offset - st
     IN  \/ /\ content' = IF rest = 0 THEN content ELSE
                 [content EXCEPT ![i] = Written(@, v, st, rest)]
            /\ Goto(p, "return")
         \/ Goto(p, "return") /\ UNCHANGED content
  /\ UNCHANGED dir

\* fclose stores what is still buffered, or fails; its failure replaces a
\* success and never an earlier error.
CloseWrite(p) ==
  /\ At(p, "fclose") /\ proc[p].op = "plain"
  /\ LET v == proc[p].val  i == proc[p].inode  st == proc[p].stored
         rest == proc[p].offset - st
     IN  \/ /\ content' = IF rest = 0 THEN content ELSE
                 [content EXCEPT ![i] = Written(@, v, st, rest)]
            /\ Goto(p, "return")
         \/ Fail(p, "return") /\ UNCHANGED content
  /\ UNCHANGED dir

(***************************************************************************)
(* nq_read_file_bytes_operation: fopen "rb", nq_read_stream, fclose        *)
(***************************************************************************)
OpenRead(p) ==
  /\ At(p, "open") /\ proc[p].op = "read"
  /\ Become(p, IF dir["target"] = None
               THEN [proc[p] EXCEPT !.pc = "return", !.res = "err"]
               ELSE [proc[p] EXCEPT !.inode = dir["target"],
                                    !.pc = "stream"])
  /\ UNCHANGED <<dir, content>>

\* Mutant: the path is looked up again for every chunk.
ReadStreamReopens(p) ==
  /\ At(p, "stream") /\ proc[p].op = "read"
  /\ dir["target"] # None
  /\ LET c == content[dir["target"]]  off == proc[p].offset
     IN  \/ /\ \E k \in 1..c.len - off :
                 Become(p, [proc[p] EXCEPT
                   !.offset = off + k,
                   !.val = IF off = 0 \/ @ = c.of THEN c.of ELSE Mixed])
         \/ off >= c.len /\ Goto(p, "fclose")
         \/ Fail(p, "fclose")
  /\ UNCHANGED <<dir, content>>

\* fread until it comes up short; growing the buffer may fail.
ReadStream(p) ==
  /\ At(p, "stream") /\ proc[p].op = "read"
  /\ LET c == content[proc[p].inode]  off == proc[p].offset
     IN  \/ /\ \E k \in 1..c.len - off :
                 Become(p, [proc[p] EXCEPT
                   !.offset = off + k,
                   !.val = IF off = 0 \/ @ = c.of THEN c.of ELSE Mixed])
         \/ off >= c.len /\ Goto(p, "fclose")
         \/ Fail(p, "fclose")
  /\ UNCHANGED <<dir, content>>

CloseRead(p) ==
  /\ At(p, "fclose") /\ proc[p].op = "read"
  /\ Goto(p, "return") \/ Fail(p, "return")
  /\ UNCHANGED <<dir, content>>

------------------------------------------------------------------------------

Step(p) ==
  \/ \E op \in OpNames \ {"none"}, v \in Values \cup {None} : Begin(p, op, v)
  \/ Reject(p) \/ Return(p) \/ Crash(p)
  \/ Take(p) \/ MakeTemp(p) \/ Chmod(p)
  \/ WriteTemp(p) \/ CloseTemp(p) \/ RenameTemp(p) \/ Unlink(p)
  \/ OpenWrite(p) \/ WriteStream(p) \/ CloseWrite(p)
  \/ OpenRead(p) \/ ReadStream(p) \/ CloseRead(p)

AllDead == (\A p \in Procs : At(p, "dead")) /\ UNCHANGED vars

Next == (\E p \in Procs : Step(p)) \/ AllDead

Spec == Init /\ [][Next]_vars

------------------------------------------------------------------------------
(***************************************************************************)
(* Properties                                                              *)
(***************************************************************************)

\* Atomic visibility: while only nq_atomic_write_file writes the path, it
\* never names a partial or mixed file, whoever crashes and whatever fails.
AtomicVisibility ==
  PlainProcs = {} /\ dir["target"] # None => IsWhole(content[dir["target"]])

\* Under the same condition a read that succeeds has returned one complete
\* version, also when the path is replaced while it is being read.
ReadIsSnapshot ==
  \A p \in Procs :
    LET r == proc[p]
    IN  PlainProcs = {} /\ r.op = "read" /\ r.pc = "return" /\ r.res = "ok" =>
          /\ IsWhole(content[r.inode])
          /\ r.offset = content[r.inode].len
          /\ r.offset > 0 => r.val = content[r.inode].of

\* "OOM cannot orphan it": a call that reports an error leaves a temporary
\* entry behind only if its removal failed too.
OrphanNeedsTwoFailures ==
  \A p \in Procs :
    LET r == proc[p]
    IN  r.pc = "return" /\ r.res = "err" /\ r.name # None /\ r.failed < 2
          => dir[r.name] # r.inode

\* A buffered write that reports success has stored every byte: no failure of
\* the stream or of fclose is lost, given that no other call writes in place.
OkMeansStored ==
  \A p \in Procs :
    LET r == proc[p]
    IN  /\ PlainProcs = {p}
        /\ r.op = "plain" /\ r.pc = "return" /\ r.res = "ok"
        => content[r.inode] = Whole(r.val)

(***************************************************************************)
(* Refinement: the path as its users see it.                               *)
(***************************************************************************)
File ==
  IF dir["target"] = None THEN None
  ELSE IF IsWhole(content[dir["target"]]) THEN content[dir["target"]].of
  ELSE Mixed

Writing(p) ==
  CASE proc[p].pc = "dead" -> <<"dead">>
    [] proc[p].pc # "dead" /\ proc[p].op = "atomic" ->
         IF proc[p].pc = "return" /\ proc[p].res = "ok"
         THEN <<"committed", proc[p].val>> ELSE <<"pending", proc[p].val>>
    [] OTHER -> <<"idle">>

Atomic == INSTANCE AtomicFile WITH
  file <- File, call <- [p \in Procs |-> Writing(p)]

\* The calls of nq_atomic_write_file implement an atomic file: the path
\* changes in the one step in which a call commits, an Ok result is preceded
\* by exactly one such step and an error by none (PlainProcs empty).
ImplementsAtomicFile == Atomic!Spec

==============================================================================
