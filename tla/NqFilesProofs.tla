--------------------------- MODULE NqFilesProofs ---------------------------
(***************************************************************************)
(* Proofs about NqFiles, for any number of processes, values, names and    *)
(* inodes and any number of failures.                                      *)
(***************************************************************************)
EXTENDS NqFiles, TLAPS

\* The steps at which a process has a temporary entry of its own.
TempSteps == {"chmod", "write", "close", "rename", "unlink"}
InTemp(p) == proc[p].pc \in TempSteps

\* What a call's fields are at each of its steps.
ShapeOf(r) ==
  /\ r.pc \in {"idle", "dead"} <=> r.op = "none"
  /\ r.pc \in {"take", "chmod"} => r.op \in {"temp_file", "temp_dir"}
  /\ r.pc \in {"mkstemp", "close", "unlink"} =>
       r.op \in {"atomic", "temp_file", "temp_dir"}
  /\ r.pc \in {"write", "rename"} => r.op = "atomic"
  /\ r.pc \in {"open", "stream", "fclose"} => r.op \in {"plain", "read"}
  /\ r.op \in {"plain", "read", "none"} => r.name = None
  /\ r.op \in {"atomic", "plain"} => r.val \in Values
  /\ r.pc \in {"idle", "dead", "take", "mkstemp", "open"} =>
       /\ r.name = None /\ r.inode = None
       /\ r.offset = 0 /\ r.stored = 0 /\ r.failed = 0 /\ r.res = "ok"
  /\ r.pc \in {"stream", "fclose"} => r.inode # None
  /\ r.pc = "stream" => r.res = "ok"
  /\ r.pc \in TempSteps => r.name # None /\ r.inode # None
  /\ r.pc \in TempSteps \ {"unlink"} => r.failed = 0 /\ r.res = "ok"
  /\ r.pc = "unlink" => r.failed > 0 /\ r.res = "err"
  /\ r.name # None => r.inode # None
  /\ r.op \in {"atomic", "plain", "read"} /\ r.pc = "return" /\ r.res = "ok"
       => r.inode # None
  /\ r.stored <= r.offset

ShapeInv == \A p \in Procs :
  ShapeOf(proc[p]) /\ (proc[p].op = "plain" => p \in PlainProcs)

\* Every inode has one name, and a process in a temporary step is alone with
\* the inode that its temporary name denotes.
DirInv ==
  /\ \A m, n \in Names : m # n /\ dir[m] = dir[n] => dir[m] = None
  /\ \A p \in Procs : InTemp(p) => dir[proc[p].name] = proc[p].inode
  /\ \A p, q \in Procs :
       InTemp(p) /\ p # q => proc[q].inode # proc[p].inode

\* What the inode of an atomic write holds.
WriteInv == \A p \in Procs :
  LET r == proc[p]
  IN  r.op = "atomic" =>
        /\ r.pc = "write" => /\ r.offset < Length[r.val]
                             /\ content[r.inode].of = r.val
                             /\ content[r.inode].len = r.offset
        /\ r.pc \in {"close", "rename"} => content[r.inode] = Whole(r.val)

Inv == TypeOK /\ ShapeInv /\ DirInv /\ WriteInv

USE PlainAssumption, LengthAssumption, NoneAssumption, TargetAssumption,
    MixedAssumption, FaultsAssumption

LEMMA InitInv == Init => Inv
  <1> SUFFICES ASSUME Init PROVE Inv OBVIOUS
  <1>1. TypeOK
    BY DEF Init, TypeOK, Names, Content, Proc, Rest, Whole, OpNames, Steps
  <1>2. ShapeInv
    <2>1. ShapeOf(Rest)
      BY DEF ShapeOf, Rest, TempSteps
    <2>2. Rest.op # "plain"
      BY DEF Rest
    <2> QED BY <2>1, <2>2 DEF Init, ShapeInv
  <1>3. DirInv
    BY DEF Init, DirInv, InTemp, Rest, TempSteps, Names
  <1>4. WriteInv
    BY DEF Init, WriteInv, Rest
  <1> QED BY <1>1, <1>2, <1>3, <1>4 DEF Inv

USE DEF At

LEMMA Frame ==
  ASSUME TypeOK, NEW p \in Procs, NEW r \in Proc, Become(p, r)
  PROVE  /\ proc' \in [Procs -> Proc]
         /\ proc'[p] = r
         /\ \A q \in Procs : q # p => proc'[q] = proc[q]
  BY DEF TypeOK, Become

LEMMA ProcTyped == ASSUME TypeOK, NEW p \in Procs PROVE proc[p] \in Proc
  BY DEF TypeOK

\* Continuing and failing keep the type of a call.
LEMMA GoTyped ==
  ASSUME NEW s \in Proc, NEW label \in Steps
  PROVE  /\ [s EXCEPT !.pc = label] \in Proc
         /\ [s EXCEPT !.pc = label, !.res = "err", !.failed = @ + 1] \in Proc
  <1>1. [s EXCEPT !.pc = label] \in Proc
    BY DEF Proc
  <1>2. s.failed + 1 \in Nat
    BY DEF Proc
  <1>3. \A n \in Nat :
          [s EXCEPT !.pc = label, !.res = "err", !.failed = n] \in Proc
    BY DEF Proc
  <1> QED BY <1>1, <1>2, <1>3

\* A process moves on without touching the directory or an inode: it keeps
\* or leaves its temporary entry, and opens at most the target.
Moves(p, r) ==
  /\ r \in Proc /\ ShapeOf(r) /\ (r.op = "plain" => p \in PlainProcs)
  /\ r.pc \in TempSteps =>
       InTemp(p) /\ r.name = proc[p].name /\ r.inode = proc[p].inode
  /\ r.inode \in {None, proc[p].inode, dir["target"]}
  /\ r.op = "atomic" /\ r.pc \in {"write", "close", "rename"} =>
       proc[p].op = "atomic" /\ r.val = proc[p].val /\ proc[p].pc = "close"
         /\ r.pc = "rename"

LEMMA MovesInv ==
  ASSUME Inv, NEW p \in Procs, NEW r, Moves(p, r), Become(p, r),
         UNCHANGED <<dir, content>>
  PROVE  Inv'
  <1>1. /\ proc' \in [Procs -> Proc] /\ proc'[p] = r /\ r \in Proc
        /\ \A q \in Procs : q # p => proc'[q] = proc[q]
    BY Frame DEF Inv, Moves
  <1>2. TypeOK'
    BY <1>1 DEF Inv, TypeOK
  <1>3. ShapeInv'
    BY <1>1 DEF Inv, ShapeInv, Moves
  <1>4. DirInv'
    <2>1. \A q \in Procs : InTemp(q)' =>
            /\ InTemp(q)
            /\ proc'[q].name = proc[q].name /\ proc'[q].inode = proc[q].inode
      BY <1>1 DEF Moves, InTemp
    <2>2. \A q \in Procs : InTemp(q) =>
            proc[q].inode # dir["target"] /\ proc[q].inode # None
      BY DEF Inv, DirInv, ShapeInv, ShapeOf, InTemp, TypeOK, Proc, Names
    <2>3. \A q \in Procs :
            proc'[q].inode \in {None, proc[q].inode, dir["target"]}
      BY <1>1 DEF Moves
    <2> QED BY <2>1, <2>2, <2>3 DEF Inv, DirInv
  <1>5. WriteInv'
    BY <1>1 DEF Inv, WriteInv, Moves, TempSteps, InTemp, Whole
  <1> QED BY <1>2, <1>3, <1>4, <1>5 DEF Inv

\* Every quiet step moves its process in that way.
Quiet(p) ==
  \/ Reject(p) \/ Return(p) \/ Crash(p) \/ Take(p) \/ Chmod(p)
  \/ CloseTemp(p) \/ OpenRead(p) \/ ReadStream(p) \/ CloseRead(p)
  \/ \E op \in OpNames \ {"none"}, v \in Values \cup {None} : Begin(p, op, v)

LEMMA QuietMoves ==
  ASSUME Inv, NEW p \in Procs, Quiet(p)
  PROVE  \E r : Moves(p, r) /\ Become(p, r) /\ UNCHANGED <<dir, content>>
  <1> DEFINE s == proc[p]
  <1>1. s \in Proc /\ ShapeOf(s) /\ (s.op = "plain" => p \in PlainProcs)
    BY ProcTyped DEF Inv, ShapeInv
  <1>2. dir["target"] \in Inodes \cup {None}
    BY DEF Inv, TypeOK, Names
  <1>3. UNCHANGED <<dir, content>>
    BY DEF Quiet, Reject, Return, Crash, Take, Chmod, CloseTemp, OpenRead,
           ReadStream, CloseRead, Begin
  <1>4. \A label : label \in Steps =>
          /\ [s EXCEPT !.pc = label] \in Proc
          /\ [s EXCEPT !.pc = label, !.res = "err", !.failed = @ + 1] \in Proc
    BY <1>1, GoTyped
  <1>6. CASE Reject(p)
    <2> DEFINE r == [s EXCEPT !.pc = "return", !.res = "err", !.failed = @ + 1]
    <2>1. r \in Proc BY <1>4 DEF Steps
    <2>2. Become(p, r) BY <1>6 DEF Reject, Fail
    <2>3. Moves(p, r)
      BY <1>1, <1>6, <2>1 DEF Moves, Reject, ShapeOf, TempSteps, Proc
    <2> QED BY <1>3, <2>2, <2>3
  <1>7. CASE Return(p) \/ Crash(p)
    <2>1. PICK label \in {"idle", "dead"} : Become(p, [Rest EXCEPT !.pc = label])
      BY <1>7 DEF Return, Crash, Rest
    <2> DEFINE r == [Rest EXCEPT !.pc = label]
    <2>2. Moves(p, r)
      BY DEF Moves, Rest, ShapeOf, TempSteps, Proc, Steps, OpNames
    <2> QED BY <1>3, <2>1, <2>2
  <1> DEFINE Go(label) == [s EXCEPT !.pc = label]
             No(label) == [s EXCEPT !.pc = label, !.res = "err",
                                    !.failed = @ + 1]
  <1>8. CASE Take(p)
    <2>1. Go("mkstemp") \in Proc BY <1>4 DEF Steps
    <2>2. Become(p, Go("mkstemp")) BY <1>8 DEF Take, Goto
    <2>3. Moves(p, Go("mkstemp"))
      BY <1>1, <1>8, <2>1 DEF Moves, Take, ShapeOf, TempSteps, Proc
    <2> QED BY <1>3, <2>2, <2>3
  <1>9. CASE Chmod(p)
    <2>1. Go("close") \in Proc /\ Go("return") \in Proc /\ No("unlink") \in Proc
      BY <1>4 DEF Steps
    <2>2. \/ s.op = "temp_file" /\ Become(p, Go("close"))
          \/ s.op = "temp_dir" /\ Become(p, Go("return"))
          \/ Become(p, No("unlink"))
      BY <1>1, <1>9 DEF Chmod, Goto, Fail, ShapeOf
    <2>3. s.op = "temp_file" => Moves(p, Go("close"))
      BY <1>1, <1>9, <2>1 DEF Moves, Chmod, ShapeOf, TempSteps, InTemp, Proc
    <2>4. s.op = "temp_dir" => Moves(p, Go("return"))
      BY <1>1, <1>9, <2>1 DEF Moves, Chmod, ShapeOf, TempSteps, Proc
    <2>5. Moves(p, No("unlink"))
      BY <1>1, <1>9, <2>1 DEF Moves, Chmod, ShapeOf, TempSteps, InTemp, Proc
    <2> QED BY <1>3, <2>2, <2>3, <2>4, <2>5
  <1>10. CASE CloseTemp(p)
    <2>1. Go("rename") \in Proc /\ Go("return") \in Proc /\ No("unlink") \in Proc
      BY <1>4 DEF Steps
    <2>2. \/ s.op = "atomic" /\ Become(p, Go("rename"))
          \/ s.op # "atomic" /\ Become(p, Go("return"))
          \/ Become(p, No("unlink"))
      BY <1>1, <1>10 DEF CloseTemp, Goto, Fail, ShapeOf
    <2>3. s.op = "atomic" => Moves(p, Go("rename"))
      BY <1>1, <1>10, <2>1 DEF Moves, CloseTemp, ShapeOf, TempSteps, InTemp, Proc
    <2>4. s.op # "atomic" => Moves(p, Go("return"))
      BY <1>1, <1>10, <2>1 DEF Moves, CloseTemp, ShapeOf, TempSteps, Proc
    <2>5. Moves(p, No("unlink"))
      BY <1>1, <1>10, <2>1 DEF Moves, CloseTemp, ShapeOf, TempSteps, InTemp, Proc
    <2> QED BY <1>3, <2>2, <2>3, <2>4, <2>5
  <1>11. CASE CloseRead(p)
    <2>1. Go("return") \in Proc /\ No("return") \in Proc
      BY <1>4 DEF Steps
    <2>2. Become(p, Go("return")) \/ Become(p, No("return"))
      BY <1>11 DEF CloseRead, Goto, Fail
    <2>3. Moves(p, Go("return"))
      BY <1>1, <1>11, <2>1 DEF Moves, CloseRead, ShapeOf, TempSteps, Proc
    <2>4. Moves(p, No("return"))
      BY <1>1, <1>11, <2>1 DEF Moves, CloseRead, ShapeOf, TempSteps, Proc
    <2> QED BY <1>3, <2>2, <2>3, <2>4
  <1>12. CASE OpenRead(p)
    <2> DEFINE a == [s EXCEPT !.pc = "return", !.res = "err"]
               b == [s EXCEPT !.inode = dir["target"], !.pc = "stream"]
    <2>1. a \in Proc /\ b \in Proc BY <1>1, <1>2 DEF Proc, Steps
    <2>2. \/ dir["target"] = None /\ Become(p, a)
          \/ dir["target"] # None /\ Become(p, b)
      BY <1>12 DEF OpenRead
    <2>3. Moves(p, a)
      BY <1>1, <1>12, <2>1 DEF Moves, OpenRead, ShapeOf, TempSteps, Proc
    <2>4. dir["target"] # None => Moves(p, b)
      BY <1>1, <1>12, <2>1 DEF Moves, OpenRead, ShapeOf, TempSteps, Proc
    <2> QED BY <1>3, <2>2, <2>3, <2>4
  <1>13. CASE ReadStream(p)
    <2> DEFINE c == content[s.inode]
               b(k) == [s EXCEPT !.offset = s.offset + k,
                          !.val = IF s.offset = 0 \/ @ = c.of
                                  THEN c.of ELSE Mixed]
    <2>1. s.inode \in Inodes /\ c.len \in Nat /\ c.of \in Values \cup {Mixed}
      BY <1>1, <1>13 DEF ReadStream, ShapeOf, Proc, Inv, TypeOK, Content
    <2>2. Go("fclose") \in Proc /\ No("fclose") \in Proc
      BY <1>4 DEF Steps
    <2>3. \/ \E k \in 1..c.len - s.offset : Become(p, b(k))
          \/ Become(p, Go("fclose")) \/ Become(p, No("fclose"))
      BY <1>13 DEF ReadStream, Goto, Fail
    <2>4. \A k \in 1..c.len - s.offset : Moves(p, b(k))
      <3> SUFFICES ASSUME NEW k \in 1..c.len - s.offset PROVE Moves(p, b(k))
        OBVIOUS
      <3>1. b(k) \in Proc
        <4>1. s.offset + k \in Nat
          BY <1>1, <2>1 DEF Proc
        <4>2. (IF s.offset = 0 \/ s.val = c.of THEN c.of ELSE Mixed)
                \in Values \cup {None, Mixed}
          BY <2>1
        <4>3. \A n, v : n \in Nat /\ v \in Values \cup {None, Mixed} =>
                [s EXCEPT !.offset = n, !.val = v] \in Proc
          BY <1>1 DEF Proc
        <4> QED BY <4>1, <4>2, <4>3
      <3>2. b(k).stored <= b(k).offset
        <4>1. s.stored <= s.offset /\ s.stored \in Nat /\ s.offset \in Nat
          BY <1>1 DEF ShapeOf, Proc
        <4>2. b(k).stored = s.stored /\ b(k).offset = s.offset + k /\ k \in Nat
          BY <1>1, <2>1, <4>1 DEF Proc
        <4> QED BY <4>1, <4>2
      <3> QED
        BY <1>1, <1>13, <3>1, <3>2
        DEF Moves, ReadStream, ShapeOf, TempSteps, Proc
    <2>5. Moves(p, Go("fclose")) /\ Moves(p, No("fclose"))
      BY <1>1, <1>13, <2>2 DEF Moves, ReadStream, ShapeOf, TempSteps, Proc
    <2> QED BY <1>3, <2>3, <2>4, <2>5
  <1>14. CASE \E op \in OpNames \ {"none"}, v \in Values \cup {None} :
                Begin(p, op, v)
    <2>1. PICK op \in OpNames \ {"none"}, v \in Values \cup {None} :
            Begin(p, op, v)
      BY <1>14
    <2> DEFINE r == [Rest EXCEPT !.op = op, !.val = v, !.pc = FirstStep(op)]
    <2>2. Become(p, r) BY <2>1 DEF Begin
    <2>3. FirstStep(op) \in {"mkstemp", "take", "open"}
      BY <2>1 DEF FirstStep
    <2>4. r \in Proc
      BY <2>1, <2>3 DEF Proc, Rest, OpNames, Steps
    <2>5. Moves(p, r)
      BY <2>1, <2>4 DEF Moves, Begin, ShapeOf, TempSteps, Rest, FirstStep,
                        OpNames
    <2> QED BY <1>3, <2>2, <2>5
  <1> QED
    BY <1>6, <1>7, <1>8, <1>9, <1>10, <1>11, <1>12, <1>13, <1>14 DEF Quiet

LEMMA MakeTempInv ==
  ASSUME Inv, NEW p \in Procs, MakeTemp(p)
  PROVE  Inv'
  <1> DEFINE s == proc[p]
  <1>1. PICK n \in TempNames, i \in Inodes :
          /\ dir[n] = None /\ Fresh(i)
          /\ dir' = [dir EXCEPT ![n] = i]
          /\ content' = [content EXCEPT ![i] =
               [of |-> IF s.op = "atomic" THEN s.val ELSE Mixed, len |-> 0]]
          /\ Become(p, [s EXCEPT !.name = n, !.inode = i, !.pc = AfterTemp(p)])
    BY DEF MakeTemp
  <1> DEFINE r == [s EXCEPT !.name = n, !.inode = i, !.pc = AfterTemp(p)]
  <1>2. s \in Proc /\ ShapeOf(s) /\ s.pc = "mkstemp"
    BY ProcTyped DEF Inv, ShapeInv, MakeTemp
  <1>3. AfterTemp(p) \in {"chmod", "write", "close"}
    BY DEF AfterTemp
  <1>4. r \in Proc
    BY <1>2, <1>3 DEF Proc, Steps
  <1>5. /\ proc' \in [Procs -> Proc] /\ proc'[p] = r
        /\ \A q \in Procs : q # p => proc'[q] = proc[q]
    BY <1>1, <1>4, Frame DEF Inv
  <1>6. TypeOK'
    <2>1. s.op = "atomic" => s.val \in Values
      BY <1>2 DEF ShapeOf
    <2> QED BY <1>1, <1>5, <2>1 DEF Inv, TypeOK, Content, Names
  <1>7. ShapeOf(r)
    BY <1>2, <1>3, <1>4 DEF ShapeOf, AfterTemp, TempSteps, Proc
  <1>8. ShapeInv'
    <2>1. r.op # "plain"
      BY <1>2 DEF ShapeOf, Proc
    <2> QED BY <1>5, <1>7, <2>1 DEF Inv, ShapeInv
  <1>9. DirInv'
    <2>1. \A m \in Names : dir'[m] = IF m = n THEN i ELSE dir[m]
      BY <1>1 DEF Inv, TypeOK, Names
    <2>2. \A m \in Names : dir[m] # i
      BY <1>1 DEF Fresh
    <2>3. \A q \in Procs : proc[q].inode # i
      BY <1>1 DEF Fresh
    <2>4. \A q \in Procs : q # p /\ InTemp(q)' =>
            /\ InTemp(q) /\ proc'[q].inode = proc[q].inode
            /\ proc'[q].name = proc[q].name
      BY <1>5 DEF InTemp
    <2>5. \A q \in Procs : InTemp(q) =>
            /\ proc[q].name \in TempNames /\ proc[q].inode # None
            /\ proc[q].name # n
      BY <1>1 DEF Inv, DirInv, ShapeInv, ShapeOf, TypeOK, Proc, InTemp
    <2>6. proc'[p].inode = i /\ proc'[p].name = n
      BY <1>2, <1>5 DEF Proc
    <2>7. \A m, k \in Names : m # k /\ dir'[m] = dir'[k] => dir'[m] = None
      BY <2>1, <2>2 DEF Inv, DirInv
    <2>8. \A q \in Procs : InTemp(q)' => dir'[proc'[q].name] = proc'[q].inode
      BY <2>1, <2>4, <2>5, <2>6 DEF Inv, DirInv, Names
    <2>9. \A q, t \in Procs :
            InTemp(q)' /\ q # t => proc'[t].inode # proc'[q].inode
      <3> SUFFICES ASSUME NEW q \in Procs, NEW t \in Procs, InTemp(q)', q # t
                   PROVE  proc'[t].inode # proc'[q].inode
        OBVIOUS
      <3>1. CASE q = p
        BY <1>5, <2>3, <2>6, <3>1
      <3>2. CASE t = p
        BY <2>3, <2>4, <2>6, <3>2
      <3>3. CASE q # p /\ t # p
        BY <1>5, <2>4, <3>3 DEF Inv, DirInv
      <3> QED BY <3>1, <3>2, <3>3
    <2> QED BY <2>7, <2>8, <2>9 DEF DirInv
  <1>10. WriteInv'
    <2> SUFFICES ASSUME NEW q \in Procs, proc'[q].op = "atomic"
                 PROVE  /\ proc'[q].pc = "write" =>
                             /\ proc'[q].offset < Length[proc'[q].val]
                             /\ content'[proc'[q].inode].of = proc'[q].val
                             /\ content'[proc'[q].inode].len = proc'[q].offset
                        /\ proc'[q].pc \in {"close", "rename"} =>
                             content'[proc'[q].inode] = Whole(proc'[q].val)
      BY DEF WriteInv, Whole
    <2>1. CASE q = p
      <3>1. s.op = "atomic" /\ s.val \in Values /\ s.offset = 0
        BY <1>2, <1>5, <2>1 DEF Proc, ShapeOf
      <3>2. content'[i] = [of |-> s.val, len |-> 0]
        BY <1>1, <3>1 DEF Inv, TypeOK
      <3>3. r.val = s.val /\ r.inode = i /\ r.offset = 0 /\ r.pc = AfterTemp(p)
        BY <1>2, <3>1 DEF Proc
      <3>4. Length[s.val] \in Nat
        BY <3>1
      <3>5. AfterTemp(p) = IF Length[s.val] = 0 THEN "close" ELSE "write"
        BY <3>1 DEF AfterTemp
      <3>6. proc'[q] = r
        BY <1>5, <2>1
      <3> HIDE DEF r, s
      <3> QED BY <3>2, <3>3, <3>4, <3>5, <3>6 DEF Whole
    <2>2. CASE q # p
      <3>1. proc[q].inode # i
        BY <1>1 DEF Fresh
      <3>2. proc'[q] = proc[q] BY <1>5, <2>2
      <3>3. proc[q].pc \in {"write", "close", "rename"} =>
              proc[q].inode \in Inodes
        BY DEF Inv, ShapeInv, ShapeOf, TempSteps, TypeOK, Proc
      <3>4. proc[q].inode \in Inodes =>
              content'[proc[q].inode] = content[proc[q].inode]
        BY <1>1, <3>1 DEF Inv, TypeOK
      <3> QED BY <3>2, <3>3, <3>4 DEF Inv, WriteInv
    <2> QED BY <2>1, <2>2
  <1> QED BY <1>6, <1>8, <1>9, <1>10 DEF Inv

\* A process writes to its own inode and stays where it is in the directory.
LEMMA OwnWriteInv ==
  ASSUME Inv, NEW p \in Procs, NEW r \in Proc, NEW c \in Content,
         Become(p, r), ShapeOf(r), r.op = proc[p].op, r.val = proc[p].val,
         r.name = proc[p].name, r.inode = proc[p].inode, r.inode \in Inodes,
         r.pc \in TempSteps => InTemp(p),
         content' = content \/ content' = [content EXCEPT ![r.inode] = c],
         dir' = dir,
         \A q \in Procs : q # p /\ InTemp(q) => proc[q].inode # r.inode,
         r.op = "atomic" =>
           /\ content'[r.inode] = [of |-> r.val, len |-> r.offset]
           /\ r.pc = "write" => r.offset < Length[r.val]
           /\ r.pc \in {"close", "rename"} => r.offset = Length[r.val]
  PROVE  Inv'
  <1>1. /\ proc' \in [Procs -> Proc] /\ proc'[p] = r
        /\ \A q \in Procs : q # p => proc'[q] = proc[q]
    BY Frame DEF Inv
  <1>2. TypeOK'
    BY <1>1 DEF Inv, TypeOK
  <1>3. ShapeInv'
    BY <1>1 DEF Inv, ShapeInv
  <1>4. DirInv'
    <2>1. \A q \in Procs : InTemp(q)' => InTemp(q)
      BY <1>1 DEF InTemp
    <2>2. \A q \in Procs : proc'[q].inode = proc[q].inode
                             /\ proc'[q].name = proc[q].name
      BY <1>1
    <2> QED BY <2>1, <2>2 DEF Inv, DirInv
  <1>5. WriteInv'
    <2> SUFFICES ASSUME NEW q \in Procs, proc'[q].op = "atomic"
                 PROVE  /\ proc'[q].pc = "write" =>
                             /\ proc'[q].offset < Length[proc'[q].val]
                             /\ content'[proc'[q].inode].of = proc'[q].val
                             /\ content'[proc'[q].inode].len = proc'[q].offset
                        /\ proc'[q].pc \in {"close", "rename"} =>
                             content'[proc'[q].inode] = Whole(proc'[q].val)
      BY DEF WriteInv, Whole
    <2>1. CASE q = p
      BY <1>1, <2>1 DEF Whole
    <2>2. CASE q # p
      <3>1. proc[q].pc \in {"write", "close", "rename"} =>
              proc[q].inode \in Inodes /\ proc[q].inode # r.inode
        BY <2>2 DEF Inv, ShapeInv, ShapeOf, TempSteps, InTemp, TypeOK, Proc
      <3>2. proc[q].pc \in {"write", "close", "rename"} =>
              content'[proc[q].inode] = content[proc[q].inode]
        BY <3>1 DEF Inv, TypeOK
      <3>3. proc'[q] = proc[q] BY <1>1, <2>2
      <3> QED BY <3>2, <3>3 DEF Inv, WriteInv
    <2> QED BY <2>1, <2>2
  <1> QED BY <1>2, <1>3, <1>4, <1>5 DEF Inv

LEMMA WriteTempInv ==
  ASSUME Inv, NEW p \in Procs, WriteTemp(p)
  PROVE  Inv'
  <1> DEFINE s == proc[p]
  <1>1. s \in Proc /\ ShapeOf(s) /\ s.pc = "write" /\ s.op = "atomic"
    BY ProcTyped DEF Inv, ShapeInv, ShapeOf, WriteTemp
  <1>2. s.inode \in Inodes /\ s.val \in Values /\ Length[s.val] \in Nat
    BY <1>1 DEF ShapeOf, TempSteps, Proc
  <1>3. content[s.inode].of = s.val /\ content[s.inode].len = s.offset
    BY <1>1 DEF Inv, WriteInv
  <1>4. CASE Fail(p, "unlink") /\ UNCHANGED content
    <2> DEFINE r == [s EXCEPT !.pc = "unlink", !.res = "err", !.failed = @ + 1]
    <2>1. r \in Proc
      BY <1>1, GoTyped DEF Steps
    <2>2. Moves(p, r)
      BY <1>1, <2>1 DEF Moves, ShapeOf, TempSteps, InTemp, Proc
    <2>3. Become(p, r) /\ UNCHANGED <<dir, content>>
      BY <1>4 DEF WriteTemp, Fail
    <2> QED BY <2>2, <2>3, MovesInv
  <1>5. CASE \E k \in 1..Length[s.val] - s.offset :
               /\ content' = [content EXCEPT ![s.inode] =
                                Written(@, s.val, s.offset, k)]
               /\ Become(p, [s EXCEPT !.offset = s.offset + k,
                               !.pc = IF s.offset + k = Length[s.val]
                                      THEN "close" ELSE "write"])
    <2>1. PICK k \in 1..Length[s.val] - s.offset :
               /\ content' = [content EXCEPT ![s.inode] =
                                Written(@, s.val, s.offset, k)]
               /\ Become(p, [s EXCEPT !.offset = s.offset + k,
                               !.pc = IF s.offset + k = Length[s.val]
                                      THEN "close" ELSE "write"])
      BY <1>5
    <2> DEFINE label == IF s.offset + k = Length[s.val]
                        THEN "close" ELSE "write"
               r == [s EXCEPT !.offset = s.offset + k, !.pc = label]
               c == [of |-> s.val, len |-> s.offset + k]
    <2>2. s.offset + k \in Nat /\ s.offset + k <= Length[s.val]
      BY <1>1, <1>2 DEF Proc
    <2>3. Written(content[s.inode], s.val, s.offset, k) = c
      BY <1>3 DEF Written
    <2>4. content' = [content EXCEPT ![s.inode] = c]
      BY <2>1, <2>3
    <2>5. label \in {"close", "write"}
      OBVIOUS
    <2>6. r \in Proc /\ c \in Content
      BY <1>1, <1>2, <2>2, <2>5 DEF Proc, Steps, Content
    <2>7. /\ r.op = s.op /\ r.val = s.val /\ r.name = s.name
          /\ r.inode = s.inode /\ r.offset = s.offset + k /\ r.pc = label
          /\ r.res = s.res /\ r.failed = s.failed /\ r.stored = s.stored
      BY <1>1 DEF Proc
    <2>8. ShapeOf(r)
      <3>1. r.stored <= r.offset
        BY <1>1, <2>2, <2>7 DEF ShapeOf, Proc
      <3> HIDE DEF r, label
      <3> QED BY <1>1, <2>5, <2>7, <3>1 DEF ShapeOf, TempSteps
    <2>9. \A q \in Procs : q # p /\ InTemp(q) => proc[q].inode # r.inode
      BY <2>7 DEF Inv, DirInv
    <2>10. content'[r.inode] = [of |-> r.val, len |-> r.offset]
      BY <1>2, <2>4, <2>7 DEF Inv, TypeOK
    <2>11. /\ r.pc = "write" => r.offset < Length[r.val]
           /\ r.pc \in {"close", "rename"} => r.offset = Length[r.val]
      BY <1>2, <2>2, <2>7
    <2>12. InTemp(p) /\ dir' = dir /\ Become(p, r)
      BY <1>1, <2>1 DEF InTemp, TempSteps, WriteTemp
    <2>13. content' = [content EXCEPT ![r.inode] = c] /\ r.inode \in Inodes
      BY <1>2, <2>4, <2>7
    <2> HIDE DEF r, c, label
    <2> QED
      BY <2>6, <2>7, <2>8, <2>9, <2>10, <2>11, <2>12, <2>13, OwnWriteInv
  <1> QED BY <1>4, <1>5 DEF WriteTemp

LEMMA RenameTempInv ==
  ASSUME Inv, NEW p \in Procs, RenameTemp(p) \/ Unlink(p)
  PROVE  Inv'
  <1> DEFINE s == proc[p]
             Go == [s EXCEPT !.pc = "return"]
             No(label) == [s EXCEPT !.pc = label, !.res = "err",
                                    !.failed = @ + 1]
  <1>1. s \in Proc /\ ShapeOf(s) /\ s.pc \in {"rename", "unlink"}
    BY ProcTyped DEF Inv, ShapeInv, RenameTemp, Unlink
  <1>2. s.inode \in Inodes /\ s.name \in TempNames /\ InTemp(p)
    BY <1>1 DEF ShapeOf, TempSteps, Proc, InTemp
  <1>3. Go \in Proc /\ No("return") \in Proc /\ No("unlink") \in Proc
    BY <1>1, GoTyped DEF Steps
  <1>4. content' = content
    BY DEF RenameTemp, Unlink
  <1>5. dir[s.name] = s.inode
    BY <1>2 DEF Inv, DirInv
  <1>6. CASE dir' = dir
    <2>1. \/ s.pc = "rename" /\ Become(p, No("unlink"))
          \/ s.pc = "unlink" /\ Become(p, No("return"))
      <3>1. "target" \in Names /\ s.name \in Names /\ s.name # "target"
        BY <1>2 DEF Names
      <3>2. dir # [dir EXCEPT !["target"] = dir[s.name], ![s.name] = None]
        BY <1>2, <1>5, <3>1 DEF Inv, TypeOK
      <3>3. dir # [dir EXCEPT ![s.name] = None]
        BY <1>2, <1>5, <3>1 DEF Inv, TypeOK
      <3> QED BY <1>6, <3>2, <3>3 DEF RenameTemp, Unlink, Fail
    <2>2. s.pc = "rename" => Moves(p, No("unlink"))
      BY <1>1, <1>2, <1>3 DEF Moves, ShapeOf, TempSteps, Proc, InTemp
    <2>3. s.pc = "unlink" => Moves(p, No("return"))
      BY <1>1, <1>2, <1>3 DEF Moves, ShapeOf, TempSteps, Proc, InTemp
    <2> HIDE DEF No
    <2> QED BY <1>4, <1>6, <2>1, <2>2, <2>3, MovesInv
  <1>7. CASE Become(p, Go) /\ \/ dir' = [dir EXCEPT ![s.name] = None]
                              \/ dir' = [dir EXCEPT !["target"] = s.inode,
                                                    ![s.name] = None]
    <2>1. /\ proc' \in [Procs -> Proc] /\ proc'[p] = Go
          /\ \A q \in Procs : q # p => proc'[q] = proc[q]
      BY <1>3, <1>7, Frame DEF Inv
    <2>2. TypeOK'
      BY <1>2, <1>4, <1>7, <2>1 DEF Inv, TypeOK, Names
    <2>3. ShapeOf(Go) /\ (Go.op = "plain" => p \in PlainProcs)
      BY <1>1, <1>3 DEF ShapeOf, TempSteps, Proc
    <2>4. ShapeInv'
      BY <2>1, <2>3 DEF Inv, ShapeInv
    <2>5. DirInv'
      <3>1. \A q \in Procs : InTemp(q)' => InTemp(q) /\ q # p
        BY <1>1, <2>1 DEF InTemp, TempSteps, Proc
      <3>2. \A q \in Procs : /\ proc'[q].inode = proc[q].inode
                             /\ proc'[q].name = proc[q].name
        BY <1>1, <2>1 DEF Proc
      <3>3. \A m \in Names :
              \/ dir'[m] = dir[m] /\ m # s.name
              \/ m = "target" /\ m # s.name /\ dir'[m] = s.inode
              \/ m = s.name /\ dir'[m] = None
        BY <1>2, <1>7 DEF Inv, TypeOK, Names
      <3>4. \A m \in Names : m # s.name => dir[m] # s.inode
        BY <1>2, <1>5 DEF Inv, DirInv, Names
      <3>5. \A m, n \in Names : m # n /\ dir'[m] = dir'[n] => dir'[m] = None
        BY <3>3, <3>4 DEF Inv, DirInv
      <3>6. \A q \in Procs : InTemp(q) /\ q # p =>
              proc[q].name \in TempNames /\ proc[q].name # s.name
        BY <1>2, <1>5 DEF Inv, DirInv, ShapeInv, ShapeOf, InTemp, TypeOK, Proc
      <3>7. \A q \in Procs : InTemp(q)' => dir'[proc'[q].name] = proc'[q].inode
        BY <3>1, <3>2, <3>3, <3>6 DEF Inv, DirInv, Names
      <3>8. \A q, t \in Procs :
              InTemp(q)' /\ q # t => proc'[t].inode # proc'[q].inode
        BY <3>1, <3>2 DEF Inv, DirInv
      <3> QED BY <3>5, <3>7, <3>8 DEF DirInv
    <2>6. WriteInv'
      <3>1. Go.pc = "return" BY <1>1 DEF Proc
      <3> SUFFICES ASSUME NEW q \in Procs, q # p
                   PROVE  LET r == proc'[q]
                          IN  r.op = "atomic" =>
                            /\ r.pc = "write" =>
                                 /\ r.offset < Length[r.val]
                                 /\ content'[r.inode].of = r.val
                                 /\ content'[r.inode].len = r.offset
                            /\ r.pc \in {"close", "rename"} =>
                                 content'[r.inode] = Whole(r.val)
        BY <2>1, <3>1 DEF WriteInv, Whole
      <3>2. proc'[q] = proc[q] BY <2>1
      <3> HIDE DEF Go
      <3> QED BY <1>4, <3>2 DEF Inv, WriteInv
    <2> QED BY <2>2, <2>4, <2>5, <2>6 DEF Inv
  <1> QED BY <1>5, <1>6, <1>7 DEF RenameTemp, Unlink, Goto

LEMMA OpenWriteInv ==
  ASSUME Inv, NEW p \in Procs, OpenWrite(p)
  PROVE  Inv'
  <1> DEFINE s == proc[p]
  <1>1. s \in Proc /\ ShapeOf(s) /\ s.pc = "open" /\ s.op = "plain"
          /\ p \in PlainProcs /\ s.val \in Values
    BY ProcTyped DEF Inv, ShapeInv, ShapeOf, OpenWrite
  <1>2. dir["target"] \in Inodes \cup {None}
    BY DEF Inv, TypeOK, Names
  <1>3. PICK i \in Inodes :
          /\ i = dir["target"] \/ (dir["target"] = None /\ Fresh(i))
          /\ dir' = [dir EXCEPT !["target"] = i]
          /\ content' = [content EXCEPT ![i] = [of |-> s.val, len |-> 0]]
          /\ Become(p, [s EXCEPT !.inode = i,
                          !.pc = IF Length[s.val] = 0
                                 THEN "fclose" ELSE "stream"])
    BY <1>2 DEF OpenWrite
  <1> DEFINE label == IF Length[s.val] = 0 THEN "fclose" ELSE "stream"
             r == [s EXCEPT !.inode = i, !.pc = label]
  <1>4. label \in {"fclose", "stream"}
    OBVIOUS
  <1>5. r \in Proc
    BY <1>1, <1>4 DEF Proc, Steps
  <1>6. /\ r.op = "plain" /\ r.val = s.val /\ r.name = s.name /\ r.inode = i
        /\ r.offset = s.offset /\ r.pc = label
        /\ r.res = s.res /\ r.failed = s.failed /\ r.stored = s.stored
    BY <1>1 DEF Proc
  <1>7. /\ proc' \in [Procs -> Proc] /\ proc'[p] = r
        /\ \A q \in Procs : q # p => proc'[q] = proc[q]
    BY <1>3, <1>5, Frame DEF Inv
  <1>8. TypeOK'
    BY <1>1, <1>3, <1>7 DEF Inv, TypeOK, Content, Names
  <1>9. ShapeOf(r)
    BY <1>1, <1>4, <1>6 DEF ShapeOf, TempSteps
  <1>10. ShapeInv'
    BY <1>1, <1>7, <1>9 DEF Inv, ShapeInv
  <1>11. \A q \in Procs : InTemp(q) =>
           proc[q].inode # i /\ proc[q].name \in TempNames /\ q # p
             /\ proc[q].inode \in Inodes
    <2>1. \A q \in Procs : InTemp(q) =>
            proc[q].name \in TempNames /\ proc[q].inode \in Inodes
      BY DEF Inv, ShapeInv, ShapeOf, TypeOK, Proc, InTemp
    <2>2. \A q \in Procs : InTemp(q) => proc[q].inode # i
      BY <1>3, <2>1 DEF Inv, DirInv, Fresh, Names
    <2>3. ~InTemp(p)
      BY <1>1 DEF InTemp, TempSteps
    <2> QED BY <2>1, <2>2, <2>3
  <1>12. \A q \in Procs : InTemp(q)' => InTemp(q) /\ proc'[q] = proc[q]
    <2>1. proc'[p].pc \notin TempSteps
      <3>1. r.pc \notin TempSteps BY <1>4, <1>6 DEF TempSteps
      <3> QED BY <1>7, <3>1
    <2> HIDE DEF r
    <2> QED BY <1>7, <2>1 DEF InTemp
  <1>13. DirInv'
    <2>1. \A m \in Names : dir'[m] = IF m = "target" THEN i ELSE dir[m]
      BY <1>3 DEF Inv, TypeOK, Names
    <2>2. \A m \in Names : m # "target" => dir[m] # i
      BY <1>3 DEF Inv, DirInv, Fresh, Names
    <2>3. \A m, n \in Names : m # n /\ dir'[m] = dir'[n] => dir'[m] = None
      BY <2>1, <2>2 DEF Inv, DirInv
    <2>4. \A q \in Procs : InTemp(q)' => dir'[proc'[q].name] = proc'[q].inode
      BY <1>11, <1>12, <2>1 DEF Inv, DirInv, Names
    <2>5. \A q, t \in Procs :
            InTemp(q)' /\ q # t => proc'[t].inode # proc'[q].inode
      <3> SUFFICES ASSUME NEW q \in Procs, NEW t \in Procs, InTemp(q)', q # t
                   PROVE  proc'[t].inode # proc'[q].inode
        OBVIOUS
      <3>1. CASE t = p
        <4>1. proc'[p].inode = i
          BY <1>6, <1>7
        <4> HIDE DEF r
        <4> QED BY <1>11, <1>12, <3>1, <4>1
      <3>2. CASE t # p
        BY <1>7, <1>12, <3>2 DEF Inv, DirInv
      <3> QED BY <3>1, <3>2
    <2> QED BY <2>3, <2>4, <2>5 DEF DirInv
  <1>14. WriteInv'
    <2>1. \A q \in Procs : q # p => proc'[q] = proc[q]
      BY <1>7
    <2>2. proc'[p].op = "plain"
      BY <1>6, <1>7
    <2>3. \A q \in Procs : proc[q].pc \in {"write", "close", "rename"} =>
            content'[proc[q].inode] = content[proc[q].inode]
      BY <1>3, <1>11 DEF InTemp, TempSteps, Inv, TypeOK
    <2> SUFFICES ASSUME NEW q \in Procs, q # p
                 PROVE  LET t == proc'[q]
                        IN  t.op = "atomic" =>
                          /\ t.pc = "write" =>
                               /\ t.offset < Length[t.val]
                               /\ content'[t.inode].of = t.val
                               /\ content'[t.inode].len = t.offset
                          /\ t.pc \in {"close", "rename"} =>
                               content'[t.inode] = Whole(t.val)
      BY <2>2 DEF WriteInv, Whole
    <2>4. proc'[q] = proc[q] BY <2>1
    <2> HIDE DEF r, label
    <2> QED BY <2>3, <2>4 DEF Inv, WriteInv
  <1> QED BY <1>8, <1>10, <1>13, <1>14 DEF Inv

LEMMA WrittenTyped ==
  ASSUME NEW c \in Content, NEW v \in Values, NEW n \in Nat, NEW k \in Nat
  PROVE  Written(c, v, n, k) \in Content
  BY DEF Written, Content

LEMMA StreamInv ==
  ASSUME Inv, NEW p \in Procs, WriteStream(p) \/ CloseWrite(p)
  PROVE  Inv'
  <1> DEFINE s == proc[p]
  <1>1. /\ s \in Proc /\ ShapeOf(s) /\ s.op = "plain" /\ p \in PlainProcs
        /\ s.pc \in {"stream", "fclose"} /\ s.val \in Values
        /\ s.inode \in Inodes
    BY ProcTyped DEF Inv, ShapeInv, ShapeOf, WriteStream, CloseWrite, Proc
  <1>2. \A q \in Procs : q # p /\ InTemp(q) => proc[q].inode # s.inode
    BY DEF Inv, DirInv
  <1>3. dir' = dir
    BY DEF WriteStream, CloseWrite
  <1>4. content[s.inode] \in Content /\ s.offset \in Nat /\ s.stored \in Nat
          /\ s.stored <= s.offset /\ Length[s.val] \in Nat
    BY <1>1 DEF Inv, TypeOK, Proc, ShapeOf
  <1>5. ~InTemp(p)
    BY <1>1 DEF InTemp, TempSteps
  <1>6. \E r \in Proc, c \in Content :
          /\ Become(p, r) /\ ShapeOf(r)
          /\ r.op = s.op /\ r.val = s.val /\ r.name = s.name
          /\ r.inode = s.inode /\ r.pc \notin TempSteps
          /\ content' = content \/ content' = [content EXCEPT ![s.inode] = c]
    <2> DEFINE Go(label) == [s EXCEPT !.pc = label]
               No(label) == [s EXCEPT !.pc = label, !.res = "err",
                                      !.failed = @ + 1]
    <2>1. CASE WriteStream(p) /\ Fail(p, "fclose") /\ content' = content
      <3>1. Become(p, No("fclose")) /\ No("fclose") \in Proc
        BY <1>1, <2>1, GoTyped DEF Fail, Steps
      <3>2. /\ ShapeOf(No("fclose")) /\ No("fclose").op = s.op
            /\ No("fclose").val = s.val /\ No("fclose").name = s.name
            /\ No("fclose").inode = s.inode /\ No("fclose").pc \notin TempSteps
        BY <1>1, <3>1 DEF ShapeOf, TempSteps, Proc
      <3> HIDE DEF No
      <3> QED BY <1>4, <2>1, <3>1, <3>2
    <2>2. CASE CloseWrite(p)
      <3>1. \/ /\ Become(p, Go("return"))
               /\ \/ content' = content
                  \/ content' = [content EXCEPT ![s.inode] =
                       Written(@, s.val, s.stored, s.offset - s.stored)]
            \/ Become(p, No("return")) /\ content' = content
        BY <2>2 DEF CloseWrite, Goto, Fail
      <3>2. Go("return") \in Proc /\ No("return") \in Proc
        BY <1>1, GoTyped DEF Steps
      <3>3. /\ ShapeOf(Go("return")) /\ Go("return").op = s.op
            /\ Go("return").val = s.val /\ Go("return").name = s.name
            /\ Go("return").inode = s.inode /\ Go("return").pc \notin TempSteps
        BY <1>1, <3>2 DEF ShapeOf, TempSteps, Proc
      <3>4. /\ ShapeOf(No("return")) /\ No("return").op = s.op
            /\ No("return").val = s.val /\ No("return").name = s.name
            /\ No("return").inode = s.inode /\ No("return").pc \notin TempSteps
        BY <1>1, <3>2 DEF ShapeOf, TempSteps, Proc
      <3>5. Written(content[s.inode], s.val, s.stored, s.offset - s.stored)
              \in Content
        BY <1>1, <1>4, WrittenTyped
      <3> HIDE DEF No, Go
      <3> QED BY <1>4, <3>1, <3>2, <3>3, <3>4, <3>5
    <2>3. CASE WriteStream(p) /\ ~(Fail(p, "fclose") /\ content' = content)
      <3> DEFINE Label(k) == IF s.offset + k = Length[s.val]
                             THEN "fclose" ELSE "stream"
                 R(k, n) == [s EXCEPT !.offset = s.offset + k,
                                      !.stored = s.stored + n, !.pc = Label(k)]
      <3>1. PICK k \in 1..Length[s.val] - s.offset,
                 n \in 0..Length[s.val] - s.stored :
              /\ \/ content' = content
                 \/ content' = [content EXCEPT ![s.inode] =
                                  Written(@, s.val, s.stored, n)]
              /\ Become(p, R(k, n))
              /\ s.stored + n <= s.offset + k
        BY <2>3 DEF WriteStream
      <3> DEFINE r == R(k, n)
      <3>2. s.offset + k \in Nat /\ s.stored + n \in Nat /\ n \in Nat
        BY <1>4
      <3>3. Label(k) \in {"fclose", "stream"}
        OBVIOUS
      <3>4. r \in Proc
        BY <1>1, <3>2, <3>3 DEF Proc, Steps
      <3>5. /\ r.op = s.op /\ r.val = s.val /\ r.name = s.name
            /\ r.inode = s.inode /\ r.pc = Label(k) /\ r.res = s.res
        BY <1>1 DEF Proc
      <3>6. s.pc = "stream"
        BY <2>3 DEF WriteStream
      <3>7. ShapeOf(r) /\ r.pc \notin TempSteps
        <4>1. r.stored <= r.offset
          BY <1>1, <3>1 DEF Proc
        <4> HIDE DEF R, Label
        <4> QED BY <1>1, <3>3, <3>5, <3>6, <4>1 DEF ShapeOf, TempSteps
      <3>8. Written(content[s.inode], s.val, s.stored, n) \in Content
        BY <1>1, <1>4, <3>2, WrittenTyped
      <3> HIDE DEF R, Label
      <3> QED BY <1>4, <3>1, <3>4, <3>5, <3>7, <3>8
    <2> QED BY <2>1, <2>2, <2>3
  <1>7. PICK r \in Proc, c \in Content :
          /\ Become(p, r) /\ ShapeOf(r)
          /\ r.op = s.op /\ r.val = s.val /\ r.name = s.name
          /\ r.inode = s.inode /\ r.pc \notin TempSteps
          /\ content' = content \/ content' = [content EXCEPT ![s.inode] = c]
    BY <1>6
  <1>8. r.op # "atomic" /\ r.inode \in Inodes
          /\ (content' = content \/ content' = [content EXCEPT ![r.inode] = c])
          /\ \A q \in Procs : q # p /\ InTemp(q) => proc[q].inode # r.inode
    BY <1>1, <1>2, <1>7
  <1> QED BY <1>3, <1>7, <1>8, OwnWriteInv

LEMMA NextInv == Inv /\ [Next]_vars => Inv'
  <1> SUFFICES ASSUME Inv, [Next]_vars PROVE Inv' OBVIOUS
  <1>1. CASE UNCHANGED vars
    BY <1>1 DEF vars, Inv, TypeOK, ShapeInv, DirInv, InTemp, WriteInv
  <1>2. ASSUME NEW p \in Procs, Step(p) PROVE Inv'
    <2>1. CASE Quiet(p)
      BY <2>1, QuietMoves, MovesInv
    <2>2. CASE MakeTemp(p)
      BY <2>2, MakeTempInv
    <2>3. CASE WriteTemp(p)
      BY <2>3, WriteTempInv
    <2>4. CASE RenameTemp(p) \/ Unlink(p)
      BY <2>4, RenameTempInv
    <2>5. CASE OpenWrite(p)
      BY <2>5, OpenWriteInv
    <2>6. CASE WriteStream(p) \/ CloseWrite(p)
      BY <2>6, StreamInv
    <2> QED BY <1>2, <2>1, <2>2, <2>3, <2>4, <2>5, <2>6 DEF Step, Quiet
  <1> QED BY <1>1, <1>2 DEF Next, AllDead

\* The structural invariant: a call at a temporary step is alone with the
\* inode its temporary name denotes, and an inode has one name at most.
THEOREM Structure == Spec => []Inv
  BY InitInv, NextInv, PTL DEF Spec

\* Types hold in every reachable state, for any constants.
THEOREM TypeCorrect == Spec => []TypeOK
  <1>1. Inv => TypeOK BY DEF Inv
  <1> QED BY <1>1, Structure, PTL

(***************************************************************************)
(* Atomic visibility: no call writes in place.                             *)
(***************************************************************************)

\* What a call of read_file knows of the inode it opened.
Reader(r) ==
  r.op = "read" /\ r.inode # None =>
    /\ IsWhole(content[r.inode])
    /\ r.offset <= content[r.inode].len
    /\ r.offset > 0 => r.val = content[r.inode].of
    /\ r.pc \in {"fclose", "return"} /\ r.res = "ok" =>
         r.offset = content[r.inode].len

ReadInv == \A p \in Procs : Reader(proc[p])

\* An inode that the path names, or that a reader has open, is not written.
LEMMA ContentKept ==
  ASSUME Inv, PlainProcs = {}, NEW p \in Procs, Step(p), NEW i \in Inodes,
         \/ dir["target"] = i
         \/ \E q \in Procs : proc[q].op = "read" /\ proc[q].inode = i
  PROVE  content'[i] = content[i]
  <1>1. CASE MakeTemp(p)
    BY <1>1 DEF MakeTemp, Fresh, Names, Inv, TypeOK
  <1>2. CASE WriteTemp(p)
    <2>1. InTemp(p) /\ proc[p].op = "atomic" /\ proc[p].inode \in Inodes
            /\ proc[p].name \in TempNames
      BY <1>2, ProcTyped DEF WriteTemp, Inv, ShapeInv, ShapeOf, InTemp,
                             TempSteps, Proc
    <2>2. proc[p].inode # i
      BY <2>1 DEF Inv, DirInv, Names
    <2> QED BY <1>2, <2>2 DEF WriteTemp, Inv, TypeOK
  <1>3. CASE ~MakeTemp(p) /\ ~WriteTemp(p)
    <2>1. proc[p].op # "plain"
      BY DEF Inv, ShapeInv
    <2> QED
      BY <1>3, <2>1
      DEF Step, Reject, Return, Crash, Take, Chmod, CloseTemp, OpenRead,
          ReadStream, CloseRead, Begin, RenameTemp, Unlink, OpenWrite,
          WriteStream, CloseWrite
  <1> QED BY <1>1, <1>2, <1>3

\* The path changes only when a complete temporary is renamed to it.
LEMMA TargetStep ==
  ASSUME Inv, PlainProcs = {}, NEW p \in Procs, Step(p)
  PROVE  \/ dir'["target"] = dir["target"]
         \/ /\ At(p, "rename") /\ proc[p].op = "atomic"
            /\ dir'["target"] = proc[p].inode /\ proc[p].inode \in Inodes
            /\ content' = content
            /\ content[proc[p].inode] = Whole(proc[p].val)
            /\ Goto(p, "return")
  <1>1. proc[p].op # "plain"
    BY DEF Inv, ShapeInv
  <1>2. CASE MakeTemp(p)
    BY <1>2 DEF MakeTemp, Inv, TypeOK, Names
  <1>3. CASE RenameTemp(p) \/ Unlink(p)
    <2>1. /\ InTemp(p) /\ proc[p].inode \in Inodes /\ proc[p].name \in TempNames
          /\ dir[proc[p].name] = proc[p].inode
      BY <1>3, ProcTyped DEF RenameTemp, Unlink, Inv, ShapeInv, ShapeOf, InTemp,
                             TempSteps, Proc, DirInv
    <2>2. CASE Unlink(p)
      BY <2>1, <2>2 DEF Unlink, Fail, Inv, TypeOK, Names
    <2>3. CASE RenameTemp(p)
      <3>1. /\ proc[p].op = "atomic"
            /\ content[proc[p].inode] = Whole(proc[p].val)
        BY <2>3 DEF RenameTemp, Inv, ShapeInv, ShapeOf, WriteInv
      <3> QED BY <2>1, <2>3, <3>1 DEF RenameTemp, Inv, TypeOK, Names
    <2> QED BY <1>3, <2>2, <2>3
  <1>4. CASE ~(MakeTemp(p) \/ RenameTemp(p) \/ Unlink(p))
    BY <1>1, <1>4
    DEF Step, Reject, Return, Crash, Take, Chmod, CloseTemp, OpenRead,
        ReadStream, CloseRead, Begin, WriteTemp, OpenWrite,
        WriteStream, CloseWrite
  <1> QED BY <1>2, <1>3, <1>4

LEMMA VisibleStep ==
  ASSUME Inv, PlainProcs = {}, AtomicVisibility, NEW p \in Procs, Step(p)
  PROVE  AtomicVisibility'
  <1>1. dir["target"] \in Inodes \cup {None}
    BY DEF Inv, TypeOK, Names
  <1>2. CASE dir'["target"] = dir["target"]
    BY <1>1, <1>2, ContentKept DEF AtomicVisibility, IsWhole
  <1>3. CASE dir'["target"] # dir["target"]
    <2>1. proc[p].val \in Values
      BY <1>3, TargetStep DEF Inv, ShapeInv, ShapeOf
    <2>2. content'[dir'["target"]] = Whole(proc[p].val)
      BY <1>3, TargetStep
    <2>3. IsWhole(Whole(proc[p].val))
      BY <2>1 DEF IsWhole, Whole
    <2> QED BY <2>2, <2>3 DEF AtomicVisibility, IsWhole
  <1> QED BY <1>2, <1>3

LEMMA ReaderStep ==
  ASSUME Inv, PlainProcs = {}, AtomicVisibility, ReadInv,
         NEW p \in Procs, Step(p)
  PROVE  ReadInv'
  <1> DEFINE s == proc[p]
  <1>1. s \in Proc /\ ShapeOf(s) /\ Reader(s) /\ s.op # "plain"
    BY ProcTyped DEF Inv, ShapeInv, ReadInv
  <1>2. ASSUME NEW q \in Procs, proc'[q] = proc[q] PROVE Reader(proc[q])'
    <2>1. proc[q] \in Proc BY ProcTyped DEF Inv
    <2>2. proc[q].op = "read" /\ proc[q].inode # None =>
            content'[proc[q].inode] = content[proc[q].inode]
      BY <2>1, ContentKept DEF Proc
    <2> QED BY <1>2, <2>2 DEF ReadInv, Reader, IsWhole
  <1>3. \A q \in Procs : q # p => proc'[q] = proc[q]
    BY <1>1
    DEF Step, Reject, Return, Crash, Take, Chmod, CloseTemp, OpenRead,
        ReadStream, CloseRead, Begin, WriteTemp, OpenWrite, WriteStream,
        CloseWrite, MakeTemp, RenameTemp, Unlink, Become, Goto, Fail,
        Inv, TypeOK
  <1>4. Reader(proc[p])'
    <2> DEFINE Go(label) == [s EXCEPT !.pc = label]
               No(label) == [s EXCEPT !.pc = label, !.res = "err",
                                      !.failed = @ + 1]
    <2>1. ASSUME NEW r, Become(p, r),
                 r.op # "read" \/ r.inode = None
          PROVE  Reader(proc[p])'
      <3>1. proc'[p] = r BY <2>1 DEF Become, Inv, TypeOK
      <3> QED BY <2>1, <3>1 DEF Reader
    <2>2. CASE s.op = "read" /\ s.pc = "open"
      <3>1. OpenRead(p) \/ Reject(p) \/ Crash(p)
        BY <2>2
        DEF Step, Return, Take, Chmod, CloseTemp, ReadStream, CloseRead, Begin,
            WriteTemp, OpenWrite, WriteStream, CloseWrite, MakeTemp,
            RenameTemp, Unlink
      <3>2. CASE Reject(p)
        <4>1. Become(p, No("return")) BY <3>2 DEF Reject, Fail
        <4>2. No("return").inode = None BY <1>1, <2>2 DEF ShapeOf, Proc
        <4> QED BY <2>1, <4>1, <4>2
      <3>3. CASE Crash(p)
        <4>1. Become(p, [Rest EXCEPT !.pc = "dead"]) BY <3>3 DEF Crash
        <4>2. [Rest EXCEPT !.pc = "dead"].op # "read" BY DEF Rest
        <4> QED BY <2>1, <4>1, <4>2
      <3>4. CASE OpenRead(p) /\ dir["target"] = None
        <4> DEFINE r == [s EXCEPT !.pc = "return", !.res = "err"]
        <4>1. Become(p, r) BY <3>4 DEF OpenRead
        <4>2. r.inode = None BY <1>1, <2>2 DEF ShapeOf, Proc
        <4> QED BY <2>1, <4>1, <4>2
      <3>5. CASE OpenRead(p) /\ dir["target"] # None
        <4> DEFINE r == [s EXCEPT !.inode = dir["target"], !.pc = "stream"]
        <4>1. Become(p, r) /\ content' = content BY <3>5 DEF OpenRead
        <4>2. proc'[p] = r BY <4>1 DEF Become, Inv, TypeOK
        <4>3. r.inode = dir["target"] /\ r.offset = 0 /\ r.pc = "stream"
          BY <1>1, <2>2 DEF ShapeOf, Proc
        <4>4. content[dir["target"]].len \in Nat
          BY <3>5 DEF Inv, TypeOK, Names, Content
        <4>5. IsWhole(content[dir["target"]])
          BY <3>5 DEF AtomicVisibility
        <4> HIDE DEF r
        <4> QED BY <4>1, <4>2, <4>3, <4>4, <4>5 DEF Reader, IsWhole
      <3> QED BY <3>1, <3>2, <3>3, <3>4, <3>5
    <2>3. CASE s.op = "read" /\ s.pc = "stream"
      <3>1. ReadStream(p) \/ Crash(p)
        BY <2>3
        DEF Step, Return, Reject, Take, Chmod, CloseTemp, OpenRead, CloseRead,
            Begin, WriteTemp, OpenWrite, WriteStream, CloseWrite, MakeTemp,
            RenameTemp, Unlink
      <3>2. CASE Crash(p)
        <4>1. Become(p, [Rest EXCEPT !.pc = "dead"]) BY <3>2 DEF Crash
        <4>2. [Rest EXCEPT !.pc = "dead"].op # "read" BY DEF Rest
        <4> QED BY <2>1, <4>1, <4>2
      <3>3. CASE ReadStream(p)
        <4> DEFINE c == content[s.inode]
                   b(k) == [s EXCEPT !.offset = s.offset + k,
                              !.val = IF s.offset = 0 \/ @ = c.of
                                      THEN c.of ELSE Mixed]
        <4>1. /\ s.inode \in Inodes /\ s.inode # None /\ IsWhole(c)
              /\ s.offset <= c.len /\ (s.offset > 0 => s.val = c.of)
              /\ s.offset \in Nat /\ c.len \in Nat
          BY <1>1, <2>3 DEF ShapeOf, Proc, Reader, Inv, TypeOK, Content
        <4>2. content' = content BY <3>3 DEF ReadStream
        <4>3. CASE \E k \in 1..c.len - s.offset : Become(p, b(k))
          <5>1. PICK k \in 1..c.len - s.offset : Become(p, b(k)) BY <4>3
          <5>2. proc'[p] = b(k) BY <5>1 DEF Become, Inv, TypeOK
          <5>3. b(k).offset = s.offset + k /\ b(k).pc = "stream"
                  /\ b(k).inode = s.inode /\ b(k).val = c.of
            BY <1>1, <2>3, <4>1 DEF Proc
          <5>4. s.offset + k <= c.len BY <4>1
          <5> HIDE DEF b
          <5> QED BY <4>1, <4>2, <5>2, <5>3, <5>4 DEF Reader, IsWhole
        <4>4. CASE s.offset >= c.len /\ Become(p, Go("fclose"))
          <5>1. proc'[p] = Go("fclose") BY <4>4 DEF Become, Inv, TypeOK
          <5>2. Go("fclose").inode = s.inode /\ Go("fclose").val = s.val
                  /\ Go("fclose").offset = s.offset
            BY <1>1 DEF Proc
          <5>3. s.offset = c.len BY <4>1, <4>4
          <5> HIDE DEF Go
          <5> QED BY <4>1, <4>2, <5>1, <5>2, <5>3 DEF Reader, IsWhole
        <4>5. CASE Become(p, No("fclose"))
          <5>1. proc'[p] = No("fclose") BY <4>5 DEF Become, Inv, TypeOK
          <5>2. No("fclose").inode = s.inode /\ No("fclose").val = s.val
                  /\ No("fclose").offset = s.offset /\ No("fclose").res = "err"
            BY <1>1 DEF Proc
          <5> HIDE DEF No
          <5> QED BY <4>1, <4>2, <5>1, <5>2 DEF Reader, IsWhole
        <4> QED BY <3>3, <4>3, <4>4, <4>5 DEF ReadStream, Goto, Fail
      <3> QED BY <3>1, <3>2, <3>3
    <2>4. CASE s.op = "read" /\ s.pc \in {"fclose", "return"}
      <3>1. CloseRead(p) \/ Crash(p) \/ Return(p)
        BY <2>4
        DEF Step, Reject, Take, Chmod, CloseTemp, OpenRead, ReadStream,
            Begin, WriteTemp, OpenWrite, WriteStream, CloseWrite, MakeTemp,
            RenameTemp, Unlink
      <3>2. CASE Crash(p) \/ Return(p)
        <4>1. Become(p, [Rest EXCEPT !.pc = "dead"]) \/ Become(p, Rest)
          BY <3>2 DEF Crash, Return
        <4>2. [Rest EXCEPT !.pc = "dead"].op # "read" /\ Rest.op # "read"
          BY DEF Rest
        <4> QED BY <2>1, <4>1, <4>2
      <3>3. CASE CloseRead(p)
        <4>1. /\ content' = content /\ s.pc = "fclose"
              /\ Become(p, Go("return")) \/ Become(p, No("return"))
          BY <3>3 DEF CloseRead, Goto, Fail
        <4>2. proc'[p] = Go("return") \/ proc'[p] = No("return")
          BY <4>1 DEF Become, Inv, TypeOK
        <4>3. Go("return").inode = s.inode /\ Go("return").val = s.val
                /\ Go("return").offset = s.offset /\ Go("return").res = s.res
                /\ Go("return").op = s.op
          BY <1>1 DEF Proc
        <4>4. No("return").inode = s.inode /\ No("return").val = s.val
                /\ No("return").offset = s.offset /\ No("return").res = "err"
                /\ No("return").op = s.op
          BY <1>1 DEF Proc
        <4> HIDE DEF Go, No
        <4> QED BY <1>1, <4>1, <4>2, <4>3, <4>4 DEF Reader, IsWhole
      <3> QED BY <3>1, <3>2, <3>3
    <2>5. CASE s.op # "read"
      <3>1. CASE \E op \in OpNames \ {"none"}, v \in Values \cup {None} :
                   Begin(p, op, v)
        <4>1. PICK op \in OpNames \ {"none"}, v \in Values \cup {None} :
                Become(p, [Rest EXCEPT !.op = op, !.val = v,
                                       !.pc = FirstStep(op)])
          BY <3>1 DEF Begin
        <4>2. [Rest EXCEPT !.op = op, !.val = v, !.pc = FirstStep(op)].inode
                = None
          BY DEF Rest
        <4> QED BY <2>1, <4>1, <4>2
      <3>2. CASE Crash(p) \/ Return(p)
        <4>1. Become(p, [Rest EXCEPT !.pc = "dead"]) \/ Become(p, Rest)
          BY <3>2 DEF Crash, Return
        <4>2. [Rest EXCEPT !.pc = "dead"].op # "read" /\ Rest.op # "read"
          BY DEF Rest
        <4> QED BY <2>1, <4>1, <4>2
      <3>3. CASE ~(Crash(p) \/ Return(p)) /\
                 ~(\E op \in OpNames \ {"none"}, v \in Values \cup {None} :
                     Begin(p, op, v))
        <4>1. proc'[p].op = s.op
          <5>1. \A label : Goto(p, label) \/ Fail(p, label)
                             => proc'[p].op = s.op
            <6>1. \A r : Become(p, r) => proc'[p] = r
              BY DEF Become, Inv, TypeOK
            <6>2. \A label : /\ [s EXCEPT !.pc = label].op = s.op
                             /\ [s EXCEPT !.pc = label, !.res = "err",
                                          !.failed = @ + 1].op = s.op
              BY <1>1 DEF Proc
            <6> QED BY <6>1, <6>2 DEF Goto, Fail
          <5>2. CASE MakeTemp(p)
            <6>1. PICK n, i : Become(p, [s EXCEPT !.name = n, !.inode = i,
                                                  !.pc = AfterTemp(p)])
              BY <5>2 DEF MakeTemp
            <6>2. proc'[p] = [s EXCEPT !.name = n, !.inode = i,
                                       !.pc = AfterTemp(p)]
              BY <6>1 DEF Become, Inv, TypeOK
            <6> QED BY <1>1, <6>2 DEF Proc
          <5>3. CASE WriteTemp(p)
            <6>1. \/ Fail(p, "unlink")
                  \/ \E k, label : Become(p, [s EXCEPT !.offset = k,
                                                       !.pc = label])
              BY <5>3 DEF WriteTemp
            <6>2. CASE Fail(p, "unlink")
              BY <5>1, <6>2
            <6>3. ASSUME NEW k, NEW label,
                         Become(p, [s EXCEPT !.offset = k, !.pc = label])
                  PROVE  proc'[p].op = s.op
              <7>1. proc'[p] = [s EXCEPT !.offset = k, !.pc = label]
                BY <6>3 DEF Become, Inv, TypeOK
              <7> QED BY <1>1, <7>1 DEF Proc
            <6> QED BY <6>1, <6>2, <6>3
          <5> QED
            BY <1>1, <2>5, <3>3, <5>1, <5>2, <5>3
            DEF Step, Reject, Take, Chmod, CloseTemp, OpenRead, ReadStream,
                CloseRead, OpenWrite, WriteStream, CloseWrite, RenameTemp,
                Unlink
        <4> QED BY <2>5, <4>1 DEF Reader
      <3> QED BY <3>1, <3>2, <3>3
    <2>6. s.op = "read" => s.pc \in {"open", "stream", "fclose", "return"}
      BY <1>1 DEF ShapeOf, Proc, Steps
    <2> QED BY <2>2, <2>3, <2>4, <2>5, <2>6
  <1> QED BY <1>2, <1>3, <1>4 DEF ReadInv

LEMMA NextVisible ==
  Inv /\ [Next]_vars /\ PlainProcs = {} /\ AtomicVisibility /\ ReadInv
    => AtomicVisibility' /\ ReadInv'
  <1> SUFFICES ASSUME Inv, [Next]_vars, PlainProcs = {}, AtomicVisibility,
                      ReadInv
               PROVE  AtomicVisibility' /\ ReadInv'
    OBVIOUS
  <1>1. CASE UNCHANGED vars
    BY <1>1 DEF vars, AtomicVisibility, ReadInv, Reader, IsWhole
  <1>2. ASSUME NEW p \in Procs, Step(p)
        PROVE  AtomicVisibility' /\ ReadInv'
    BY <1>2, VisibleStep, ReaderStep
  <1> QED BY <1>1, <1>2 DEF Next, AllDead

LEMMA InitVisible == Init => AtomicVisibility /\ ReadInv
  <1> SUFFICES ASSUME Init PROVE AtomicVisibility /\ ReadInv OBVIOUS
  <1>1. PICK target \in Inodes \cup {None} :
          dir = [n \in Names |-> IF n = "target" THEN target ELSE None]
    BY DEF Init
  <1>2. PICK v \in Values : content = [i \in Inodes |-> Whole(v)]
    BY DEF Init
  <1>3. dir["target"] = target /\ IsWhole(Whole(v))
    BY <1>1 DEF Names, IsWhole, Whole
  <1>4. AtomicVisibility
    BY <1>2, <1>3 DEF AtomicVisibility
  <1>5. ReadInv
    BY DEF Init, ReadInv, Reader, Rest
  <1> QED BY <1>4, <1>5

\* If nobody writes the path in place, it never names a partial or mixed
\* file, whatever fails and whoever is killed between two system calls.
THEOREM AtomicVisible ==
  ASSUME PlainProcs = {}
  PROVE  Spec => [](AtomicVisibility /\ ReadInv)
  <1>1. Init => AtomicVisibility /\ ReadInv
    BY InitVisible
  <1>2. Inv /\ [Next]_vars /\ AtomicVisibility /\ ReadInv
          => AtomicVisibility' /\ ReadInv'
    BY NextVisible
  <1> QED BY <1>1, <1>2, Structure, PTL DEF Spec

\* A successful read has returned exactly one version of the file.
THEOREM ReadsSnapshot ==
  ASSUME PlainProcs = {}
  PROVE  Spec => []ReadIsSnapshot
  <1>1. Inv /\ ReadInv => ReadIsSnapshot
    <2> SUFFICES ASSUME Inv, ReadInv, NEW p \in Procs,
                        proc[p].op = "read", proc[p].pc = "return",
                        proc[p].res = "ok"
                 PROVE  /\ IsWhole(content[proc[p].inode])
                        /\ proc[p].offset = content[proc[p].inode].len
                        /\ proc[p].offset > 0 =>
                             proc[p].val = content[proc[p].inode].of
      BY DEF ReadIsSnapshot
    <2>1. proc[p].inode # None
      BY DEF Inv, ShapeInv, ShapeOf
    <2> QED BY <2>1 DEF ReadInv, Reader
  <1> QED BY <1>1, Structure, AtomicVisible, PTL

(***************************************************************************)
(* Orphaned temporaries                                                    *)
(***************************************************************************)

\* A step gives no name an inode that another process holds.
LEMMA NamesStep ==
  ASSUME Inv, NEW p \in Procs, Step(p), NEW n \in TempNames, NEW i \in Inodes,
         dir[n] # i, \E q \in Procs : proc[q].inode = i
  PROVE  dir'[n] # i
  <1>1. CASE MakeTemp(p)
    BY <1>1 DEF MakeTemp, Fresh, Inv, TypeOK, Names
  <1>2. CASE RenameTemp(p) \/ Unlink(p) \/ OpenWrite(p)
    <2>1. \/ dir' = dir
          \/ dir' = [dir EXCEPT !["target"] = dir[proc[p].name],
                                ![proc[p].name] = None]
          \/ dir' = [dir EXCEPT ![proc[p].name] = None]
          \/ \E j : dir' = [dir EXCEPT !["target"] = j]
      BY <1>2 DEF RenameTemp, Unlink, OpenWrite
    <2> QED BY <2>1 DEF Inv, TypeOK, Names
  <1>3. CASE ~(MakeTemp(p) \/ RenameTemp(p) \/ Unlink(p) \/ OpenWrite(p))
    BY <1>3
    DEF Step, Reject, Return, Crash, Take, Chmod, CloseTemp, OpenRead,
        ReadStream, CloseRead, Begin, WriteTemp, WriteStream, CloseWrite
  <1> QED BY <1>1, <1>2, <1>3

LEMMA OthersStand ==
  ASSUME Inv, NEW p \in Procs, Step(p), NEW q \in Procs, q # p
  PROVE  proc'[q] = proc[q]
  <1>1. \E r : Become(p, r)
    BY DEF Step, Reject, Return, Crash, Take, Chmod, CloseTemp, OpenRead,
           ReadStream, CloseRead, Begin, WriteTemp, OpenWrite, WriteStream,
           CloseWrite, MakeTemp, RenameTemp, Unlink, Goto, Fail
  <1> QED BY <1>1 DEF Become, Inv, TypeOK

OrphanOf(r) ==
  r.pc = "return" /\ r.res = "err" /\ r.name # None /\ r.failed < 2
    => dir[r.name] # r.inode

LEMMA OrphanStep ==
  ASSUME Inv, OrphanNeedsTwoFailures, NEW p \in Procs, Step(p)
  PROVE  OrphanNeedsTwoFailures'
  <1> DEFINE s == proc[p]
             No(label) == [s EXCEPT !.pc = label, !.res = "err",
                                    !.failed = @ + 1]
  <1>1. s \in Proc /\ ShapeOf(s)
    BY ProcTyped DEF Inv, ShapeInv
  <1>2. ASSUME NEW q \in Procs, q # p PROVE OrphanOf(proc[q])'
    <2>1. proc'[q] = proc[q] /\ proc[q] \in Proc /\ ShapeOf(proc[q])
      BY <1>2, OthersStand, ProcTyped DEF Inv, ShapeInv
    <2>2. OrphanOf(proc[q])
      BY DEF OrphanNeedsTwoFailures, OrphanOf
    <2>3. proc[q].name # None =>
            proc[q].name \in TempNames /\ proc[q].inode \in Inodes
      BY <2>1 DEF ShapeOf, Proc
    <2> QED BY <2>1, <2>2, <2>3, NamesStep DEF OrphanOf
  <1>3. OrphanOf(proc[p])'
    <2>1. \A r : Become(p, r) => proc'[p] = r
      BY DEF Become, Inv, TypeOK
    <2>2. CASE Unlink(p)
      <3>1. /\ s.name \in TempNames /\ s.inode \in Inodes /\ s.failed > 0
            /\ s.failed \in Nat
        BY <1>1, <2>2 DEF Unlink, ShapeOf, TempSteps, Proc
      <3>2. CASE Become(p, No("return"))
        <4>1. No("return").failed = s.failed + 1
          BY <1>1 DEF Proc
        <4> HIDE DEF No
        <4> QED BY <2>1, <3>1, <3>2, <4>1 DEF OrphanOf
      <3>3. CASE /\ dir' = [dir EXCEPT ![s.name] = None]
                 /\ Become(p, [s EXCEPT !.pc = "return"])
        <4>1. [s EXCEPT !.pc = "return"].name = s.name
                /\ [s EXCEPT !.pc = "return"].inode = s.inode
          BY <1>1 DEF Proc
        <4>2. dir'[s.name] = None
          BY <3>1, <3>3 DEF Inv, TypeOK, Names
        <4> QED BY <2>1, <3>1, <3>3, <4>1, <4>2 DEF OrphanOf
      <3> QED BY <2>2, <3>2, <3>3 DEF Unlink, Fail, Goto
    <2>3. CASE Quiet(p)
      <3>1. PICK r : Moves(p, r) /\ Become(p, r)
        BY <2>3, QuietMoves
      <3>2. CASE Reject(p)
        <4>1. proc'[p] = No("return") BY <2>1, <3>2 DEF Reject, Fail
        <4>2. No("return").name = None
          BY <1>1, <3>2 DEF Reject, ShapeOf, Proc
        <4> QED BY <4>1, <4>2 DEF OrphanOf
      <3>3. CASE Chmod(p) \/ CloseTemp(p)
        <4>1. s.res = "ok"
          BY <1>1, <3>3 DEF Chmod, CloseTemp, ShapeOf, TempSteps
        <4>2. PICK label : \/ label # "return" /\ Become(p, No(label))
                           \/ Become(p, [s EXCEPT !.pc = label])
          BY <3>3 DEF Chmod, CloseTemp, Goto, Fail
        <4>3. [s EXCEPT !.pc = label].res = "ok" /\ No(label).pc = label
          BY <1>1, <4>1 DEF Proc
        <4> HIDE DEF No
        <4> QED BY <2>1, <4>2, <4>3 DEF OrphanOf
      <3>4. CASE ~(Reject(p) \/ Chmod(p) \/ CloseTemp(p))
        <4>1. proc'[p].name = None \/ proc'[p].pc # "return"
          <5>1. proc'[p] = r /\ ShapeOf(r) BY <2>1, <3>1 DEF Moves
          <5>2. CASE \/ OpenRead(p) \/ ReadStream(p) \/ CloseRead(p)
            <6>1. s.op = "read" /\ s.name = None
              BY <1>1, <5>2 DEF OpenRead, ReadStream, CloseRead, ShapeOf
            <6>2. \A label : [s EXCEPT !.pc = label].name = None
                               /\ No(label).name = None
              BY <1>1, <6>1 DEF Proc
            <6>3. \A k, v : [s EXCEPT !.offset = k, !.val = v].name = None
              BY <1>1, <6>1 DEF Proc
            <6>4. CASE OpenRead(p)
              <7> DEFINE A == [s EXCEPT !.pc = "return", !.res = "err"]
                         B == [s EXCEPT !.inode = dir["target"],
                                        !.pc = "stream"]
              <7>1. Become(p, A) \/ Become(p, B)
                BY <6>4 DEF OpenRead
              <7>2. A.name = None /\ B.name = None
                BY <1>1, <6>1 DEF Proc
              <7> HIDE DEF A, B
              <7> QED BY <2>1, <7>1, <7>2
            <6>5. CASE ReadStream(p)
              <7> DEFINE B(k, v) == [s EXCEPT !.offset = k, !.val = v]
                         Go(label) == [s EXCEPT !.pc = label]
              <7>1. \/ \E k, v : Become(p, B(k, v))
                    \/ \E label : Become(p, Go(label))
                    \/ \E label : Become(p, No(label))
                BY <6>5 DEF ReadStream, Goto, Fail
              <7>2. /\ \A k, v : B(k, v).name = None
                    /\ \A label : Go(label).name = None /\ No(label).name = None
                BY <6>2, <6>3
              <7> HIDE DEF No, B, Go
              <7> QED BY <2>1, <7>1, <7>2
            <6>6. CASE CloseRead(p)
              <7>1. \/ \E label : Become(p, [s EXCEPT !.pc = label])
                    \/ \E label : Become(p, No(label))
                BY <6>6 DEF CloseRead, Goto, Fail
              <7> HIDE DEF No
              <7> QED BY <2>1, <6>2, <7>1
            <6> QED BY <5>2, <6>4, <6>5, <6>6
          <5>3. CASE Return(p) \/ Crash(p)
            <6>1. proc'[p] = Rest \/ proc'[p] = [Rest EXCEPT !.pc = "dead"]
              BY <2>1, <5>3 DEF Return, Crash
            <6> QED BY <6>1 DEF Rest
          <5>4. CASE Take(p)
            <6>1. proc'[p] = [s EXCEPT !.pc = "mkstemp"]
              BY <2>1, <5>4 DEF Take, Goto
            <6> QED BY <1>1, <6>1 DEF Proc
          <5>5. CASE \E op \in OpNames \ {"none"}, v \in Values \cup {None} :
                       Begin(p, op, v)
            <6>1. PICK op, v : Become(p, [Rest EXCEPT !.op = op, !.val = v,
                                                      !.pc = FirstStep(op)])
              BY <5>5 DEF Begin
            <6>2. [Rest EXCEPT !.op = op, !.val = v, !.pc = FirstStep(op)].name
                    = None
              BY DEF Rest
            <6> QED BY <2>1, <6>1, <6>2
          <5> QED BY <2>3, <3>4, <5>2, <5>3, <5>4, <5>5 DEF Quiet
        <4> QED BY <4>1 DEF OrphanOf
      <3> QED BY <3>2, <3>3, <3>4
    <2>4. CASE MakeTemp(p) \/ WriteTemp(p) \/ RenameTemp(p)
      <3>1. s.res = "ok"
        BY <1>1, <2>4 DEF MakeTemp, WriteTemp, RenameTemp, ShapeOf, TempSteps
      <3> DEFINE A(n, i, label) == [s EXCEPT !.name = n, !.inode = i,
                                             !.pc = label]
                 B(k, label) == [s EXCEPT !.offset = k, !.pc = label]
                 Go == [s EXCEPT !.pc = "return"]
      <3>2. \/ \E n, i, label : Become(p, A(n, i, label))
            \/ \E k, label : Become(p, B(k, label))
            \/ Become(p, Go)
            \/ Become(p, No("unlink"))
        BY <2>4 DEF MakeTemp, WriteTemp, RenameTemp, Goto, Fail
      <3>3. /\ \A n, i, label : A(n, i, label).res = "ok"
            /\ \A k, label : B(k, label).res = "ok"
            /\ Go.res = "ok" /\ No("unlink").pc = "unlink"
        BY <1>1, <3>1 DEF Proc
      <3> HIDE DEF No, A, B, Go
      <3> QED BY <2>1, <3>2, <3>3 DEF OrphanOf
    <2>5. CASE OpenWrite(p) \/ WriteStream(p) \/ CloseWrite(p)
      <3>1. s.name = None
        BY <1>1, <2>5 DEF OpenWrite, WriteStream, CloseWrite, ShapeOf
      <3> DEFINE A(i, label) == [s EXCEPT !.inode = i, !.pc = label]
                 B(k, n, label) == [s EXCEPT !.offset = k, !.stored = n,
                                             !.pc = label]
                 Go(label) == [s EXCEPT !.pc = label]
      <3>2. \/ \E i, label : Become(p, A(i, label))
            \/ \E k, n, label : Become(p, B(k, n, label))
            \/ \E label : Become(p, Go(label))
            \/ \E label : Become(p, No(label))
        BY <2>5 DEF OpenWrite, WriteStream, CloseWrite, Goto, Fail
      <3>3. /\ \A i, label : A(i, label).name = None
            /\ \A k, n, label : B(k, n, label).name = None
            /\ \A label : Go(label).name = None /\ No(label).name = None
        BY <1>1, <3>1 DEF Proc
      <3> HIDE DEF No, A, B, Go
      <3> QED BY <2>1, <3>2, <3>3 DEF OrphanOf
    <2> QED BY <2>2, <2>3, <2>4, <2>5 DEF Step, Quiet
  <1> QED BY <1>2, <1>3 DEF OrphanNeedsTwoFailures, OrphanOf

\* A call that reports an error after one failure has left no temporary
\* entry behind, for any number of callers sharing the directory.
THEOREM NoOrphan == Spec => []OrphanNeedsTwoFailures
  <1>1. Init => OrphanNeedsTwoFailures
    BY DEF Init, OrphanNeedsTwoFailures, Rest
  <1>2. Inv /\ [Next]_vars /\ OrphanNeedsTwoFailures
          => OrphanNeedsTwoFailures'
    <2> SUFFICES ASSUME Inv, [Next]_vars, OrphanNeedsTwoFailures
                 PROVE  OrphanNeedsTwoFailures'
      OBVIOUS
    <2>1. CASE UNCHANGED vars
      BY <2>1 DEF vars, OrphanNeedsTwoFailures
    <2>2. ASSUME NEW p \in Procs, Step(p) PROVE OrphanNeedsTwoFailures'
      BY <2>2, OrphanStep
    <2> QED BY <2>1, <2>2 DEF Next, AllDead
  <1> QED BY <1>1, <1>2, Structure, PTL DEF Spec

(***************************************************************************)
(* The refinement of AtomicFile                                            *)
(***************************************************************************)

\* The abstract call of a process, from its record alone.
CallOf(r) ==
  CASE r.pc = "dead" -> <<"dead">>
    [] r.pc # "dead" /\ r.op = "atomic" ->
         IF r.pc = "return" /\ r.res = "ok"
         THEN <<"committed", r.val>> ELSE <<"pending", r.val>>
    [] OTHER -> <<"idle">>

LEMMA FileKept ==
  ASSUME Inv, PlainProcs = {}, NEW p \in Procs, Step(p),
         dir'["target"] = dir["target"]
  PROVE  File' = File
  <1>1. dir["target"] \in Inodes \cup {None}
    BY DEF Inv, TypeOK, Names
  <1> QED BY <1>1, ContentKept DEF File, IsWhole

LEMMA CallKept ==
  ASSUME NEW p \in Procs, NEW r, TypeOK, Become(p, r)
  PROVE  [q \in Procs |-> Writing(q)]' =
           [[q \in Procs |-> Writing(q)] EXCEPT ![p] = CallOf(r)]
  <1>1. /\ proc'[p] = r
        /\ \A q \in Procs : q # p => proc'[q] = proc[q]
    BY DEF TypeOK, Become
  <1>2. \A q \in Procs : Writing(q)' = CallOf(proc'[q])
                           /\ Writing(q) = CallOf(proc[q])
    BY DEF Writing, CallOf
  <1>3. \A q \in Procs :
          Writing(q)' = IF q = p THEN CallOf(r) ELSE Writing(q)
    BY <1>1, <1>2
  <1> HIDE DEF Writing, CallOf
  <1> QED BY <1>3

\* A step inside a call, as the abstract file sees it: nothing happens.
Silent(s, r) ==
  /\ s.pc # "dead" /\ r.pc # "dead" /\ r.op = s.op
  /\ s.op = "atomic" =>
       /\ r.val = s.val
       /\ s.pc # "return" /\ (r.pc = "return" => r.res = "err")

LEMMA SilentKeeps == \A s, r : Silent(s, r) => CallOf(r) = CallOf(s)
  BY DEF Silent, CallOf

Inner(p) ==
  \/ Reject(p) \/ Take(p) \/ Chmod(p) \/ CloseTemp(p) \/ OpenRead(p)
  \/ ReadStream(p) \/ CloseRead(p) \/ MakeTemp(p) \/ WriteTemp(p) \/ Unlink(p)
  \/ OpenWrite(p) \/ WriteStream(p) \/ CloseWrite(p)
  \/ (RenameTemp(p) /\ dir' = dir)

LEMMA InnerSilent ==
  ASSUME Inv, NEW p \in Procs, Inner(p)
  PROVE  \E r : Become(p, r) /\ Silent(proc[p], r)
  <1> DEFINE s == proc[p]
             No(label) == [s EXCEPT !.pc = label, !.res = "err",
                                    !.failed = @ + 1]
             Go(label) == [s EXCEPT !.pc = label]
  <1>1. s \in Proc /\ ShapeOf(s)
    BY ProcTyped DEF Inv, ShapeInv
  <1>2. /\ \A label : /\ No(label).op = s.op /\ No(label).val = s.val
                      /\ No(label).pc = label /\ No(label).res = "err"
        /\ \A label : /\ Go(label).op = s.op /\ Go(label).val = s.val
                      /\ Go(label).pc = label /\ Go(label).res = s.res
    BY <1>1 DEF Proc
  <1>3. CASE Reject(p) \/ Take(p) \/ Chmod(p) \/ CloseTemp(p) \/ CloseRead(p)
    <2>1. \E label \in Steps \ {"dead"} :
            \/ Become(p, No(label))
            \/ Become(p, Go(label)) /\ (s.op = "atomic" => label # "return")
      BY <1>1, <1>3 DEF Reject, Take, Chmod, CloseTemp, CloseRead, Goto, Fail,
                        Steps, ShapeOf
    <2>2. s.pc \notin {"dead", "return"}
      BY <1>3 DEF Reject, Take, Chmod, CloseTemp, CloseRead
    <2> HIDE DEF Go, No
    <2> QED BY <1>2, <2>1, <2>2 DEF Silent
  <1>4. CASE Unlink(p) \/ (RenameTemp(p) /\ dir' = dir)
    <2>1. s.pc \in {"unlink", "rename"} /\ s.name \in TempNames
            /\ s.inode \in Inodes /\ dir[s.name] = s.inode
            /\ (s.pc = "unlink" => s.res = "err")
      BY <1>1, <1>4 DEF Unlink, RenameTemp, ShapeOf, TempSteps, Proc, Inv,
                        DirInv, InTemp
    <2>2. dir # [dir EXCEPT !["target"] = dir[s.name], ![s.name] = None]
      BY <2>1 DEF Inv, TypeOK, Names
    <2>3. \/ Become(p, No("return")) \/ Become(p, No("unlink"))
          \/ s.pc = "unlink" /\ Become(p, Go("return"))
      BY <1>4, <2>2 DEF Unlink, RenameTemp, Goto, Fail
    <2> HIDE DEF Go, No
    <2> QED BY <1>2, <2>1, <2>3 DEF Silent
  <1>5. CASE MakeTemp(p)
    <2> DEFINE A(n, i) == [s EXCEPT !.name = n, !.inode = i,
                                    !.pc = AfterTemp(p)]
    <2>1. \E n, i : Become(p, A(n, i))
      BY <1>5 DEF MakeTemp
    <2>2. \A n, i : /\ A(n, i).op = s.op /\ A(n, i).val = s.val
                    /\ A(n, i).pc = AfterTemp(p)
      BY <1>1 DEF Proc
    <2>3. AfterTemp(p) \in {"chmod", "write", "close"} /\ s.pc = "mkstemp"
      BY <1>5 DEF MakeTemp, AfterTemp
    <2> HIDE DEF A
    <2> QED BY <2>1, <2>2, <2>3 DEF Silent
  <1>6. CASE WriteTemp(p)
    <2> DEFINE B(k, label) == [s EXCEPT !.offset = k, !.pc = label]
    <2>1. \/ \E k, label : Become(p, B(k, label)) /\ label \in {"close", "write"}
          \/ Become(p, No("unlink"))
      BY <1>6 DEF WriteTemp, Fail
    <2>2. \A k, label : /\ B(k, label).op = s.op /\ B(k, label).val = s.val
                        /\ B(k, label).pc = label
      BY <1>1 DEF Proc
    <2>3. s.pc = "write" BY <1>6 DEF WriteTemp
    <2> HIDE DEF B, No, Go
    <2> QED BY <1>2, <2>1, <2>2, <2>3 DEF Silent
  <1>7. CASE OpenRead(p) \/ ReadStream(p) \/ OpenWrite(p) \/ WriteStream(p)
             \/ CloseWrite(p)
    <2> DEFINE A(i, label) == [s EXCEPT !.inode = i, !.pc = label]
               B(k, n, label) == [s EXCEPT !.offset = k, !.stored = n,
                                           !.pc = label]
               D(k, v) == [s EXCEPT !.offset = k, !.val = v]
               E == [s EXCEPT !.pc = "return", !.res = "err"]
    <2>1. s.op \in {"read", "plain"} /\ s.pc \notin {"dead", "return"}
      BY <1>7 DEF OpenRead, ReadStream, OpenWrite, WriteStream, CloseWrite
    <2>2. /\ \A i, label : A(i, label).op = s.op /\ A(i, label).pc = label
          /\ \A k, n, label : /\ B(k, n, label).op = s.op
                              /\ B(k, n, label).pc = label
          /\ \A k, v : D(k, v).op = s.op /\ D(k, v).pc = s.pc
          /\ E.op = s.op /\ E.pc = "return"
      BY <1>1 DEF Proc
    <2>3. CASE OpenRead(p)
      <3>1. Become(p, E) \/ Become(p, A(dir["target"], "stream"))
        BY <2>3 DEF OpenRead
      <3> HIDE DEF A, E
      <3> QED BY <2>1, <2>2, <3>1 DEF Silent
    <2>4. CASE ReadStream(p)
      <3>1. \/ \E k, v : Become(p, D(k, v))
            \/ Become(p, Go("fclose")) \/ Become(p, No("fclose"))
        BY <2>4 DEF ReadStream, Goto, Fail
      <3> HIDE DEF D, Go, No
      <3> QED BY <1>2, <2>1, <2>2, <3>1 DEF Silent
    <2>5. CASE OpenWrite(p)
      <3>1. \E i, label : Become(p, A(i, label)) /\ label \in {"fclose", "stream"}
        <4>1. PICK i :
                Become(p, A(i, IF Length[s.val] = 0 THEN "fclose" ELSE "stream"))
          BY <2>5 DEF OpenWrite
        <4> HIDE DEF A
        <4> QED BY <4>1
      <3> HIDE DEF A
      <3> QED BY <2>1, <2>2, <3>1 DEF Silent
    <2>6. CASE WriteStream(p)
      <3>1. \/ \E k, n, label :
                 Become(p, B(k, n, label)) /\ label \in {"fclose", "stream"}
            \/ Become(p, No("fclose"))
        BY <2>6 DEF WriteStream, Fail
      <3> HIDE DEF B, No
      <3> QED BY <1>2, <2>1, <2>2, <3>1 DEF Silent
    <2>7. CASE CloseWrite(p)
      <3>1. Become(p, Go("return")) \/ Become(p, No("return"))
        BY <2>7 DEF CloseWrite, Goto, Fail
      <3> HIDE DEF Go, No
      <3> QED BY <1>2, <2>1, <3>1 DEF Silent
    <2> QED BY <1>7, <2>3, <2>4, <2>5, <2>6, <2>7
  <1> QED BY <1>3, <1>4, <1>5, <1>6, <1>7 DEF Inner

LEMMA AbstractStep ==
  ASSUME Inv, PlainProcs = {}, NEW p \in Procs, Step(p)
  PROVE  [Atomic!Next]_(Atomic!fileVars)
  <1> DEFINE s == proc[p]
             call == [q \in Procs |-> Writing(q)]
  <1>1. s \in Proc /\ ShapeOf(s) /\ Writing(p) = CallOf(s) /\ TypeOK
    BY ProcTyped DEF Inv, ShapeInv, Writing, CallOf
  <1>2. \A r : Become(p, r) => call' = [call EXCEPT ![p] = CallOf(r)]
    BY <1>1, CallKept
  <1>3. CASE Inner(p)
    <2>1. dir'["target"] = dir["target"]
      <3>1. CASE ~At(p, "rename") BY <3>1, TargetStep
      <3>2. CASE At(p, "rename")
        BY <1>3, <3>2
        DEF Inner, Reject, Take, Chmod, CloseTemp, OpenRead, ReadStream,
            CloseRead, MakeTemp, WriteTemp, Unlink, OpenWrite, WriteStream,
            CloseWrite
      <3> QED BY <3>1, <3>2
    <2>2. File' = File BY <2>1, FileKept
    <2>3. call' = call
      <3>1. PICK r : Become(p, r) /\ CallOf(r) = CallOf(s)
        BY <1>3, InnerSilent, SilentKeeps
      <3>2. call' = [call EXCEPT ![p] = call[p]]
        BY <1>1, <1>2, <3>1
      <3> QED BY <3>2
    <2> QED BY <2>2, <2>3 DEF Atomic!fileVars
  <1>4. CASE Crash(p)
    <2> DEFINE r == [Rest EXCEPT !.pc = "dead"]
    <2>1. Become(p, r) /\ s.pc # "dead" /\ dir' = dir
      BY <1>4 DEF Crash
    <2>2. CallOf(r) = <<"dead">> BY DEF Rest, CallOf
    <2>3. CallOf(s) # <<"dead">> BY <2>1 DEF CallOf
    <2>4. File' = File BY <2>1, FileKept
    <2>5. Atomic!Die(p)
      BY <1>1, <1>2, <2>1, <2>2, <2>3, <2>4 DEF Atomic!Die, Atomic!Dead
    <2> QED BY <2>5 DEF Atomic!Next
  <1>5. CASE Return(p)
    <2>1. Become(p, Rest) /\ s.pc = "return" /\ dir' = dir
      BY <1>5 DEF Return
    <2>2. CallOf(Rest) = <<"idle">> BY DEF Rest, CallOf
    <2>3. File' = File BY <2>1, FileKept
    <2>4. call' = [call EXCEPT ![p] = <<"idle">>]
      BY <1>2, <2>1, <2>2
    <2>5. CASE s.op # "atomic"
      <3>1. CallOf(s) = <<"idle">> BY <2>1, <2>5 DEF CallOf
      <3>2. call' = call BY <1>1, <2>4, <3>1
      <3> QED BY <2>3, <3>2 DEF Atomic!fileVars
    <2>6. CASE s.op = "atomic" /\ s.res = "ok"
      <3>1. CallOf(s) = <<"committed", s.val>> BY <2>1, <2>6 DEF CallOf
      <3>2. s.val \in Values BY <1>1, <2>6 DEF ShapeOf
      <3>3. Atomic!ReturnOk(p, s.val)
        BY <1>1, <2>3, <2>4, <3>1
        DEF Atomic!ReturnOk, Atomic!Committed, Atomic!Idle
      <3> QED BY <3>2, <3>3 DEF Atomic!Next
    <2>7. CASE s.op = "atomic" /\ s.res = "err"
      <3>1. CallOf(s) = <<"pending", s.val>> BY <2>1, <2>7 DEF CallOf
      <3>2. s.val \in Values BY <1>1, <2>7 DEF ShapeOf
      <3>3. Atomic!ReturnErr(p, s.val)
        BY <1>1, <2>3, <2>4, <3>1
        DEF Atomic!ReturnErr, Atomic!Pending, Atomic!Idle
      <3> QED BY <3>2, <3>3 DEF Atomic!Next
    <2>8. s.res \in {"ok", "err"} BY <1>1 DEF Proc
    <2> QED BY <2>5, <2>6, <2>7, <2>8
  <1>6. CASE \E op \in OpNames \ {"none"}, v \in Values \cup {None} :
               Begin(p, op, v)
    <2>1. PICK op \in OpNames \ {"none"}, v \in Values \cup {None} :
            Begin(p, op, v)
      BY <1>6
    <2> DEFINE r == [Rest EXCEPT !.op = op, !.val = v, !.pc = FirstStep(op)]
    <2>2. Become(p, r) /\ s.pc = "idle" /\ dir' = dir
      BY <2>1 DEF Begin
    <2>3. r.pc \in {"mkstemp", "take", "open"} /\ r.op = op /\ r.val = v
      BY DEF Rest, FirstStep
    <2>4. CallOf(s) = <<"idle">>
      BY <1>1, <2>2 DEF CallOf, ShapeOf
    <2>5. File' = File BY <2>2, FileKept
    <2>6. CASE op = "atomic"
      <3>1. v \in Values BY <2>1, <2>6 DEF Begin
      <3>2. CallOf(r) = <<"pending", v>>
        BY <2>3, <2>6 DEF CallOf
      <3>3. Atomic!Request(p, v)
        BY <1>1, <1>2, <2>2, <2>4, <2>5, <3>2
        DEF Atomic!Request, Atomic!Pending, Atomic!Idle
      <3> QED BY <3>1, <3>3 DEF Atomic!Next
    <2>7. CASE op # "atomic"
      <3>1. CallOf(r) = <<"idle">>
        BY <2>3, <2>7 DEF CallOf
      <3>2. call' = call BY <1>1, <1>2, <2>2, <2>4, <3>1
      <3> QED BY <2>5, <3>2 DEF Atomic!fileVars
    <2> QED BY <2>6, <2>7
  <1>7. CASE RenameTemp(p) /\ dir' # dir
    <2> DEFINE r == [s EXCEPT !.pc = "return"]
    <2>1. /\ s.name \in TempNames /\ s.inode \in Inodes
          /\ s.op = "atomic" /\ s.val \in Values /\ s.res = "ok"
          /\ s.pc = "rename" /\ dir[s.name] = s.inode
          /\ content[s.inode] = Whole(s.val)
      BY <1>1, <1>7 DEF RenameTemp, ShapeOf, TempSteps, Proc, Inv, DirInv,
                        InTemp, WriteInv
    <2>2. /\ dir' = [dir EXCEPT !["target"] = s.inode, ![s.name] = None]
          /\ Become(p, r) /\ content' = content
      BY <1>7, <2>1 DEF RenameTemp, Goto
    <2>3. dir'["target"] = s.inode
      BY <2>1, <2>2 DEF Inv, TypeOK, Names
    <2>4. IsWhole(Whole(s.val)) /\ Whole(s.val).of = s.val
      BY <2>1 DEF IsWhole, Whole
    <2>5. s.inode # None
      BY <2>1
    <2>6. File' = s.val
      <3>1. IsWhole(content'[dir'["target"]]) /\
            content'[dir'["target"]].of = s.val /\ dir'["target"] # None
        BY <2>1, <2>2, <2>3, <2>4, <2>5
      <3> QED BY <3>1 DEF File, IsWhole
    <2>7. CallOf(s) = <<"pending", s.val>>
      BY <2>1 DEF CallOf
    <2>8. CallOf(r) = <<"committed", s.val>>
      <3>1. r.pc = "return" /\ r.op = "atomic" /\ r.res = "ok" /\ r.val = s.val
        BY <1>1, <2>1 DEF Proc
      <3> HIDE DEF r
      <3> QED BY <3>1 DEF CallOf
    <2>9. Atomic!Commit(p, s.val)
      BY <1>1, <1>2, <2>2, <2>6, <2>7, <2>8
      DEF Atomic!Commit, Atomic!Pending, Atomic!Committed
    <2> QED BY <2>1, <2>9 DEF Atomic!Next
  <1> QED BY <1>3, <1>4, <1>5, <1>6, <1>7 DEF Step, Inner

\* The calls of nq_atomic_write_file implement an atomic file.
THEOREM RefinesAtomicFile ==
  ASSUME PlainProcs = {}
  PROVE  Spec => ImplementsAtomicFile
  <1>1. Init => Atomic!Init
    <2> SUFFICES ASSUME Init PROVE Atomic!Init OBVIOUS
    <2>1. \A p \in Procs : Writing(p) = <<"idle">>
      BY DEF Init, Writing, Rest
    <2> QED BY <2>1 DEF Atomic!Init, Atomic!Idle
  <1>2. Inv /\ [Next]_vars => [Atomic!Next]_(Atomic!fileVars)
    <2> SUFFICES ASSUME Inv, [Next]_vars
                 PROVE  [Atomic!Next]_(Atomic!fileVars)
      OBVIOUS
    <2>1. CASE UNCHANGED vars
      <3>1. File' = File BY <2>1 DEF vars, File, IsWhole
      <3>2. [q \in Procs |-> Writing(q)]' = [q \in Procs |-> Writing(q)]
        BY <2>1 DEF vars, Writing
      <3> QED BY <3>1, <3>2 DEF Atomic!fileVars
    <2>2. ASSUME NEW p \in Procs, Step(p)
          PROVE  [Atomic!Next]_(Atomic!fileVars)
      BY <2>2, AbstractStep
    <2> QED BY <2>1, <2>2 DEF Next, AllDead
  <1> QED BY <1>1, <1>2, Structure, PTL DEF Spec, ImplementsAtomicFile,
             Atomic!Spec

(***************************************************************************)
(* Buffered writes by one process                                          *)
(***************************************************************************)

\* The inode of a buffered write holds what the stream has stored, and a
\* stream that reaches fclose without an error has accepted everything.
StoredOf(r) ==
  r.op = "plain" =>
    /\ r.pc \in {"stream", "fclose"} =>
         content[r.inode] = [of |-> r.val, len |-> r.stored]
    /\ r.pc = "fclose" /\ r.res = "ok" => r.offset = Length[r.val]
    /\ r.pc = "return" /\ r.res = "ok" => content[r.inode] = Whole(r.val)

\* Another process writes only an inode that this one does not hold.
LEMMA OthersContent ==
  ASSUME Inv, NEW p \in Procs, PlainProcs = {p}, NEW q \in Procs, q # p,
         Step(q), proc[p].inode \in Inodes
  PROVE  content'[proc[p].inode] = content[proc[p].inode]
  <1>1. proc[q].op # "plain"
    BY DEF Inv, ShapeInv
  <1>2. CASE MakeTemp(q)
    BY <1>2 DEF MakeTemp, Fresh, Inv, TypeOK
  <1>3. CASE WriteTemp(q)
    <2>1. InTemp(q) BY <1>3 DEF WriteTemp, InTemp, TempSteps
    <2>2. proc[q].inode # proc[p].inode BY <2>1 DEF Inv, DirInv
    <2> QED BY <1>3, <2>2 DEF WriteTemp, Inv, TypeOK
  <1>4. CASE ~MakeTemp(q) /\ ~WriteTemp(q)
    BY <1>1, <1>4
    DEF Step, Reject, Return, Crash, Take, Chmod, CloseTemp, OpenRead,
        ReadStream, CloseRead, Begin, RenameTemp, Unlink, OpenWrite,
        WriteStream, CloseWrite
  <1> QED BY <1>2, <1>3, <1>4

LEMMA StoredStep ==
  ASSUME Inv, NEW p \in Procs, StoredOf(proc[p]), Step(p)
  PROVE  StoredOf(proc[p])'
  <1> DEFINE s == proc[p]
             No(label) == [s EXCEPT !.pc = label, !.res = "err",
                                    !.failed = @ + 1]
             Go(label) == [s EXCEPT !.pc = label]
  <1>1. s \in Proc /\ ShapeOf(s) /\ StoredOf(s)
    BY ProcTyped DEF Inv, ShapeInv
  <1>2. \A r : Become(p, r) => proc'[p] = r
    BY DEF Become, Inv, TypeOK
  <1>3. /\ \A label : /\ No(label).op = s.op /\ No(label).val = s.val
                      /\ No(label).pc = label /\ No(label).res = "err"
                      /\ No(label).inode = s.inode
                      /\ No(label).stored = s.stored
        /\ \A label : /\ Go(label).op = s.op /\ Go(label).val = s.val
                      /\ Go(label).pc = label /\ Go(label).res = s.res
                      /\ Go(label).inode = s.inode
    BY <1>1 DEF Proc
  <1>4. CASE s.op = "plain" /\ s.pc \in {"stream", "fclose"} /\ ~Crash(p)
    <2>1. /\ s.inode \in Inodes /\ s.val \in Values /\ Length[s.val] \in Nat
          /\ s.offset \in Nat /\ s.stored \in Nat /\ s.stored <= s.offset
          /\ content[s.inode] = [of |-> s.val, len |-> s.stored]
      BY <1>1, <1>4 DEF ShapeOf, Proc, StoredOf
    <2>2. \A k \in Nat : Written(content[s.inode], s.val, s.stored, k) =
                           [of |-> s.val, len |-> s.stored + k]
      BY <2>1 DEF Written
    <2>3. CASE s.pc = "fclose"
      <3>1. CloseWrite(p)
        BY <1>4, <2>3
        DEF Step, Reject, Return, Take, Chmod, CloseTemp, OpenRead, Begin,
            ReadStream, CloseRead, RenameTemp, Unlink, OpenWrite, WriteStream,
            MakeTemp, WriteTemp
      <3>2. CASE Become(p, No("return"))
        <4> HIDE DEF No, Go
        <4> QED BY <1>2, <1>3, <3>2 DEF StoredOf
      <3>3. CASE /\ content' = IF s.offset - s.stored = 0 THEN content ELSE
                      [content EXCEPT ![s.inode] =
                         Written(@, s.val, s.stored, s.offset - s.stored)]
                 /\ Become(p, Go("return"))
        <4>1. content'[s.inode] = [of |-> s.val, len |-> s.offset]
          <5>1. CASE s.offset - s.stored = 0
            BY <2>1, <3>3, <5>1
          <5>2. CASE s.offset - s.stored # 0
            <6>1. s.offset - s.stored \in Nat
                    /\ s.stored + (s.offset - s.stored) = s.offset
              BY <2>1
            <6>2. content' = [content EXCEPT ![s.inode] =
                                [of |-> s.val, len |-> s.offset]]
              BY <2>2, <3>3, <5>2, <6>1
            <6> QED BY <2>1, <6>2 DEF Inv, TypeOK
          <5> QED BY <5>1, <5>2
        <4>2. s.res = "ok" => s.offset = Length[s.val]
          BY <1>1, <1>4, <2>3 DEF StoredOf
        <4>3. proc'[p] = Go("return") BY <1>2, <3>3
        <4> HIDE DEF No, Go
        <4> QED BY <1>3, <4>1, <4>2, <4>3 DEF StoredOf, Whole
      <3> QED BY <3>1, <3>2, <3>3 DEF CloseWrite, Goto, Fail
    <2>4. CASE s.pc = "stream"
      <3>1. WriteStream(p)
        BY <1>4, <2>4
        DEF Step, Reject, Return, Take, Chmod, CloseTemp, OpenRead, Begin,
            ReadStream, CloseRead, RenameTemp, Unlink, OpenWrite, CloseWrite,
            MakeTemp, WriteTemp
      <3>2. CASE Become(p, No("fclose")) /\ content' = content
        <4> HIDE DEF No, Go
        <4> QED BY <1>2, <1>3, <2>1, <3>2 DEF StoredOf
      <3>3. CASE ~(Become(p, No("fclose")) /\ content' = content)
        <4> DEFINE R(k, n) == [s EXCEPT
                     !.offset = s.offset + k, !.stored = s.stored + n,
                     !.pc = IF s.offset + k = Length[s.val]
                            THEN "fclose" ELSE "stream"]
        <4>1. PICK k \in 1..Length[s.val] - s.offset,
                   n \in 0..Length[s.val] - s.stored :
                /\ content' = IF n = 0 THEN content ELSE
                     [content EXCEPT ![s.inode] =
                        Written(@, s.val, s.stored, n)]
                /\ Become(p, R(k, n))
          BY <3>1, <3>3 DEF WriteStream, Fail
        <4>2. content'[s.inode] = [of |-> s.val, len |-> s.stored + n]
          <5>1. CASE n = 0
            <6>1. s.stored + n = s.stored BY <2>1, <5>1
            <6> QED BY <2>1, <4>1, <5>1, <6>1
          <5>2. CASE n # 0
            <6>1. content' = [content EXCEPT ![s.inode] =
                     Written(content[s.inode], s.val, s.stored, n)]
              BY <4>1, <5>2
            <6>2. n \in Nat BY <2>1
            <6>3. Written(content[s.inode], s.val, s.stored, n) =
                    [of |-> s.val, len |-> s.stored + n]
              BY <2>2, <6>2
            <6> QED BY <2>1, <6>1, <6>3 DEF Inv, TypeOK
          <5> QED BY <5>1, <5>2
        <4>3. /\ R(k, n).op = s.op /\ R(k, n).val = s.val
              /\ R(k, n).inode = s.inode /\ R(k, n).stored = s.stored + n
              /\ R(k, n).offset = s.offset + k
              /\ R(k, n).pc = IF s.offset + k = Length[s.val]
                              THEN "fclose" ELSE "stream"
          BY <1>1 DEF Proc
        <4>4. proc'[p] = R(k, n) BY <1>2, <4>1
        <4> HIDE DEF R, No, Go
        <4> QED BY <4>2, <4>3, <4>4 DEF StoredOf
      <3> QED BY <3>2, <3>3
    <2> QED BY <1>4, <2>3, <2>4
  <1>5. CASE s.op = "plain" /\ s.pc = "open" /\ ~Crash(p)
    <2>1. OpenWrite(p) \/ Reject(p)
      BY <1>5
      DEF Step, Return, Take, Chmod, CloseTemp, OpenRead, Begin,
          ReadStream, CloseRead, RenameTemp, Unlink, WriteStream, CloseWrite,
          MakeTemp, WriteTemp
    <2>2. CASE Reject(p)
      <3>1. Become(p, No("return")) BY <2>2 DEF Reject, Fail
      <3> HIDE DEF No, Go
      <3> QED BY <1>2, <1>3, <3>1 DEF StoredOf
    <2>3. CASE OpenWrite(p)
      <3> DEFINE label == IF Length[s.val] = 0 THEN "fclose" ELSE "stream"
                 R(i) == [s EXCEPT !.inode = i, !.pc = label]
      <3>1. dir["target"] \in Inodes \cup {None}
        BY DEF Inv, TypeOK, Names
      <3>2. PICK i \in Inodes :
              /\ content' = [content EXCEPT ![i] = [of |-> s.val, len |-> 0]]
              /\ Become(p, R(i))
        BY <2>3, <3>1 DEF OpenWrite
      <3>3. /\ R(i).op = s.op /\ R(i).val = s.val /\ R(i).inode = i
            /\ R(i).pc = label /\ R(i).offset = 0 /\ R(i).stored = 0
        BY <1>1, <1>5 DEF Proc, ShapeOf
      <3>4. content'[i] = [of |-> s.val, len |-> 0]
        BY <3>2 DEF Inv, TypeOK
      <3>5. label = "stream" \/ (label = "fclose" /\ Length[s.val] = 0)
        OBVIOUS
      <3>6. proc'[p] = R(i) BY <1>2, <3>2
      <3> HIDE DEF R, label
      <3> QED BY <3>3, <3>4, <3>5, <3>6 DEF StoredOf
    <2> QED BY <2>1, <2>2, <2>3
  <1>6. CASE s.op # "plain" \/ s.pc = "return" \/ Crash(p)
    <2>1. CASE Return(p) \/ Crash(p)
      <3>1. proc'[p] = Rest \/ proc'[p] = [Rest EXCEPT !.pc = "dead"]
        BY <1>2, <2>1 DEF Return, Crash
      <3>2. Rest.op = "none" /\ [Rest EXCEPT !.pc = "dead"].op = "none"
        BY DEF Rest
      <3> QED BY <3>1, <3>2 DEF StoredOf
    <2>2. CASE \E op \in OpNames \ {"none"}, v \in Values \cup {None} :
                 Begin(p, op, v)
      <3> DEFINE R(op, v) == [Rest EXCEPT !.op = op, !.val = v,
                                          !.pc = FirstStep(op)]
      <3>1. PICK op, v : Become(p, R(op, v)) BY <2>2 DEF Begin
      <3>2. R(op, v).pc \in {"mkstemp", "take", "open"}
        BY DEF Rest, FirstStep
      <3>3. proc'[p] = R(op, v) BY <1>2, <3>1
      <3> HIDE DEF R
      <3> QED BY <3>2, <3>3 DEF StoredOf
    <2>3. CASE Inner(p) /\ s.op # "plain"
      <3>1. PICK r : Become(p, r) /\ Silent(s, r)
        BY <2>3, InnerSilent
      <3> QED BY <1>2, <2>3, <3>1 DEF Silent, StoredOf
    <2>4. CASE RenameTemp(p)
      <3>1. \/ Become(p, Go("return")) \/ Become(p, No("unlink"))
        BY <2>4 DEF RenameTemp, Goto, Fail
      <3>2. s.op = "atomic" BY <1>1, <2>4 DEF RenameTemp, ShapeOf
      <3> HIDE DEF Go, No
      <3> QED BY <1>2, <1>3, <3>1, <3>2 DEF StoredOf
    <2>5. CASE s.pc = "return" /\ ~Return(p) /\ ~Crash(p)
      BY <2>5
      DEF Step, Reject, Take, Chmod, CloseTemp, OpenRead, Begin,
          ReadStream, CloseRead, RenameTemp, Unlink, WriteStream, CloseWrite,
          MakeTemp, WriteTemp, OpenWrite
    <2> QED BY <1>6, <2>1, <2>2, <2>3, <2>4, <2>5 DEF Step, Inner
  <1>7. s.op = "plain" => s.pc \in {"open", "stream", "fclose", "return"}
    BY <1>1 DEF ShapeOf, Proc, Steps
  <1> QED BY <1>4, <1>5, <1>6, <1>7

\* A buffered write that reports success has stored every byte, if its
\* process is the only one that writes the path in place.
THEOREM WritesStored == Spec => []OkMeansStored
  <1> DEFINE J == \A p \in Procs : PlainProcs = {p} => StoredOf(proc[p])
  <1>1. Init => J
    BY DEF Init, Rest, StoredOf
  <1>2. Inv /\ [Next]_vars /\ J => J'
    <2> SUFFICES ASSUME Inv, [Next]_vars, J, NEW p \in Procs, PlainProcs = {p}
                 PROVE  StoredOf(proc[p])'
      OBVIOUS
    <2>1. StoredOf(proc[p]) OBVIOUS
    <2>2. CASE UNCHANGED vars
      BY <2>1, <2>2 DEF vars, StoredOf, Whole
    <2>3. CASE Step(p)
      BY <2>1, <2>3, StoredStep
    <2>4. ASSUME NEW q \in Procs, q # p, Step(q) PROVE StoredOf(proc[p])'
      <3>1. proc'[p] = proc[p] BY <2>4, OthersStand
      <3>2. proc[p] \in Proc /\ ShapeOf(proc[p])
        BY ProcTyped DEF Inv, ShapeInv
      <3>3. /\ proc[p].op = "plain"
            /\ \/ proc[p].pc \in {"stream", "fclose"}
               \/ proc[p].pc = "return" /\ proc[p].res = "ok"
            => proc[p].inode \in Inodes
        BY <3>2 DEF ShapeOf, Proc
      <3>4. proc[p].inode \in Inodes =>
              content'[proc[p].inode] = content[proc[p].inode]
        BY <2>4, OthersContent
      <3>5. CASE proc[p].inode \in Inodes
        <4>1. content'[proc'[p].inode] = content[proc[p].inode]
          BY <3>1, <3>4, <3>5
        <4> QED BY <2>1, <3>1, <4>1 DEF StoredOf, Whole
      <3>6. CASE proc[p].inode \notin Inodes
        <4>1. \/ proc'[p].op # "plain"
              \/ /\ proc'[p].pc \notin {"stream", "fclose"}
                 /\ ~(proc'[p].pc = "return" /\ proc'[p].res = "ok")
          BY <3>1, <3>3, <3>6
        <4> QED BY <4>1 DEF StoredOf
      <3> QED BY <3>5, <3>6
    <2> QED BY <2>2, <2>3, <2>4 DEF Next, AllDead
  <1>3. J => OkMeansStored
    BY DEF StoredOf, OkMeansStored
  <1> QED BY <1>1, <1>2, <1>3, Structure, PTL DEF Spec

==============================================================================
