------------------------ MODULE FastConcurrentProofs ------------------------
(***************************************************************************)
(* Proofs about FastConcurrent, for any number of groups and any set of    *)
(* exit codes.                                                             *)
(***************************************************************************)
EXTENDS FastConcurrent, WellFoundedInduction, TLAPS

Unlaunched == {"lock", "cache", "prepare", "launch"}
Unbound == {"ready", "manager", "open", "identify", "members", "confirm"}
Bound == {"baseline", "go"}
Collected == {"freeze", "frozen", "procs", "children", "capture"}
               \cup CapturedSites

Finished(g) == work[g] = "ended" /\ status[g] = <<exit[g], 0>>

\* What the scope can be doing.
ScopeInv ==
  /\ launcher = "none" => coord.at = "none"
  /\ launcher \in {"ended", "reaped"} => coord.at \in {"none", "ended"}
  /\ coord.at = "none" <=> unit.at = "none"
  /\ unit.at = "gone" => NoProcess
  /\ ~chan.go => /\ stray = {} /\ \A g \in Group : work[g] = "idle"
                 /\ coord.at \in {"none", "boot", "go", "ended"}
  /\ chan.go => coord.at # "none"
  /\ \A g \in Group : work[g] = "published" => status[g] \in Codes \X {0, 1}
  /\ coord.at = "reap" /\ ~coord.error =>
       \A g \in Group : g < coord.next => Finished(g)
  /\ chan.finished => /\ coord.at \in {"ack", "ended"}
                      /\ \A g \in Group : Finished(g)

\* The waiter has pinned the right group when it lets the groups run, and
\* keeps it until nothing is left to kill.
PinInv ==
  /\ w.pinned => Identified
  /\ Identified => unit.at # "none"
  /\ w.at \in {"members", "confirm"} => Identified
  /\ w.at \in Bound \cup {"finished", "join", "x_kill", "x_drain"}
               \cup Collected => w.pinned
  /\ w.at \in Unlaunched \cup Unbound => ~w.pinned
  /\ w.at \in Unlaunched \cup Unbound \cup Bound => ~chan.go
  /\ chan.go /\ w.at \notin Over =>
       w.pinned \/ (w.at = "x_code" /\ NoProcess)
  /\ other # "killed"

\* What it has drained stays empty.
DrainInv ==
  /\ w.at \notin Over /\ ~w.launched => launcher = "none"
  /\ w.at \in Unlaunched \cup Unbound \cup Bound
               \cup (Collected \ {"replay"}) \cup {"finished", "join"} =>
       ~w.drained
  /\ w.at \in Unlaunched => ~w.launched
  /\ w.drained => NoProcess /\ (coord.at = "ended" \/ launcher = "none")

LockInv ==
  /\ w.at \notin {"lock", "x_code"} \cup Over => lock = "mine"
  /\ lock = "other" => w.at \in {"lock", "failed"}
  /\ lock = "mine" => w.at # "lock"
  /\ ReleasedMeansEmpty

Genuine(code) ==
  NoProcess /\ chan.finished /\ ~unit.oom /\ code = FirstFailure(exit)

\* What has been established about the result.
ResultInv ==
  /\ w.at \in Collected => chan.finished /\ w.result = FirstFailure(exit)
  /\ w.at \in {"frozen", "procs", "children"} => unit.freeze
  /\ w.at \in {"procs", "children"} => unit.frozen
  /\ w.at = "children" => "scope" \notin stray
  /\ w.at \in {"capture"} \cup CapturedSites => stray = {}
  /\ w.at \in CapturedSites => ~unit.oom
  /\ w.at = "replay" => w.drained
  /\ w.at \in ExitSites => w.infra \/ Genuine(w.code)
  /\ w.at = "x_code" => w.infra \/ lock = "free"
  /\ w.at = "ended" /\ w.code \notin {Infra, Interrupted} =>
       lock = "free" /\ Genuine(w.code)

Inv == TypeOK /\ ScopeInv /\ PinInv /\ DrainInv /\ LockInv /\ ResultInv

(***************************************************************************)
(* Types                                                                   *)
(***************************************************************************)
\* The first failure is one of the codes, or 0.
LEMMA FirstFailureType ==
  ASSUME NEW code \in [Group -> 0 .. 255]
  PROVE  FirstFailure(code) \in 0 .. 255
  <1> DEFINE failed == {g \in Group : code[g] # 0}
             first == CHOOSE g \in failed : \A h \in failed : g <= h
  <1>1. CASE failed = {}
    BY <1>1 DEF FirstFailure
  <1>2. CASE failed # {}
    <2>1. failed \in SUBSET Nat
      BY ScopeAssumption, SMT DEF Group
    <2>2. PICK g \in failed : \A h \in failed : <<h, g>> \notin OpToRel(<, Nat)
      BY <1>2, <2>1, NatLessThanWellFounded, WFMin, Zenon
    <2>3. \A h \in failed : g <= h
      <3> SUFFICES ASSUME NEW h \in failed PROVE g <= h
        OBVIOUS
      <3>1. h \in Nat /\ g \in Nat
        BY <2>1, <2>2
      <3>2. ~(h < g)
        BY <2>2, <3>1 DEF OpToRel
      <3> HIDE DEF failed
      <3> QED BY <3>1, <3>2
    <2>4. first \in failed
      BY <2>2, <2>3
    <2>5. FirstFailure(code) = code[first]
      BY <1>2 DEF FirstFailure
    <2> QED BY <2>4, <2>5
  <1> QED BY <1>1, <1>2


\* What the updates of the coordinator do to its fields.
LEMMA CoordUpdate ==
  ASSUME NEW c \in Coords
  PROVE  /\ \A a \in {"boot", "go", "spawn", "ack"} :
              LET d == [c EXCEPT !.at = a] IN d \in Coords /\ d.at = a
         /\ \A n \in 0 .. N :
              LET d == [c EXCEPT !.next = n] IN d \in Coords /\ d.at = c.at
         /\ \A n \in 0 .. N, e \in BOOLEAN :
              LET d == [c EXCEPT !.next = n, !.error = e]
              IN  d \in Coords /\ d.at = c.at /\ d.next = n /\ d.error = e
         /\ \A n \in 0 .. N, e \in BOOLEAN :
              LET d == [c EXCEPT !.at = "reap", !.next = n, !.error = e]
              IN  d \in Coords /\ d.at = "reap" /\ d.next = n /\ d.error = e
         /\ LET d == [c EXCEPT !.signalled = TRUE]
            IN  /\ d \in Coords /\ d.at = c.at /\ d.next = c.next
                /\ d.error = c.error
  BY DEF Coords

LEMMA CoordEnded ==
  ASSUME coord \in Coords, NEW n \in 0 .. 255, CoordEnds(n)
  PROVE  coord' \in Coords /\ coord'.at = "ended"
  BY DEF Coords, CoordEnds

LEMMA UnitUpdate ==
  ASSUME NEW u \in Units
  PROVE  /\ LET v == [u EXCEPT !.at = "live"]
            IN  /\ v \in Units /\ v.at = "live" /\ v.freeze = u.freeze
                /\ v.frozen = u.frozen /\ v.oom = u.oom
         /\ LET v == [u EXCEPT !.at = "gone"]
            IN  /\ v \in Units /\ v.at = "gone" /\ v.freeze = u.freeze
                /\ v.frozen = u.frozen /\ v.oom = u.oom
         /\ \A b \in BOOLEAN :
              LET v == [u EXCEPT !.doomed = b]
              IN  /\ v \in Units /\ v.at = u.at /\ v.freeze = u.freeze
                  /\ v.frozen = u.frozen /\ v.oom = u.oom
         /\ LET v == [u EXCEPT !.oom = TRUE, !.doomed = TRUE]
            IN  /\ v \in Units /\ v.at = u.at /\ v.freeze = u.freeze
                /\ v.frozen = u.frozen
         /\ \A b \in BOOLEAN :
              LET v == [u EXCEPT !.frozen = b]
              IN  /\ v \in Units /\ v.at = u.at /\ v.freeze = u.freeze
                  /\ v.frozen = b /\ v.oom = u.oom
         /\ \A b \in BOOLEAN :
              LET v == [u EXCEPT !.freeze = b]
              IN  /\ v \in Units /\ v.at = u.at /\ v.freeze = b
                  /\ v.frozen = u.frozen /\ v.oom = u.oom
  BY DEF Units

LEMMA ChanUpdate ==
  ASSUME NEW c \in Chans
  PROVE  /\ \A b \in BOOLEAN :
              LET d == [c EXCEPT !.open = b]
              IN  d \in Chans /\ d.go = c.go /\ d.finished = c.finished
         /\ LET d == [c EXCEPT !.ready = TRUE]
            IN  d \in Chans /\ d.go = c.go /\ d.finished = c.finished
         /\ LET d == [c EXCEPT !.go = TRUE]
            IN  d \in Chans /\ d.go /\ d.finished = c.finished
         /\ LET d == [c EXCEPT !.finished = TRUE]
            IN  d \in Chans /\ d.go = c.go /\ d.finished
         /\ LET d == [c EXCEPT !.ack = TRUE]
            IN  d \in Chans /\ d.go = c.go /\ d.finished = c.finished
  BY DEF Chans

(***************************************************************************)
(* Steps of the scope                                                      *)
(***************************************************************************)
\* What no step of the scope undoes.
ScopeMoves ==
  /\ unit.at # "none" => unit'.at # "none"
  /\ unit'.freeze = unit.freeze
  /\ unit.frozen /\ unit.freeze => unit'.frozen
  /\ NoPayload /\ ~unit.oom => ~unit'.oom
  /\ chan'.go = chan.go /\ (chan.finished => chan'.finished)
  /\ launcher' = launcher \/ (launcher = "run" /\ launcher' = "ended")
  /\ coord.at = "ended" => coord'.at = "ended"
  /\ NoProcess /\ (coord.at = "ended" \/ launcher # "run") => NoProcess'
  /\ chan.finished => exit' = exit
  /\ chan.finished /\ stray = {} => stray' = {}
  /\ unit.frozen => stray' \subseteq stray
  /\ other # "killed" => other' # "killed"

ScopeGoal == ScopeTypeOK' /\ ScopeInv' /\ ScopeMoves

LEMMA CoordMoves ==
  ASSUME ScopeTypeOK, ScopeInv,
         ScopeStarts \/ CoordGivesUp \/ CoordReady \/ CoordGo
         \/ CoordSignalled
  PROVE  ScopeGoal
  <1> USE DEF ScopeGoal, NoProcess, NoPayload, Coordinating, Working
  <1>1. CASE ScopeStarts
    <2>a. coord' \in Coords /\ coord'.at = "boot"
      BY <1>1, CoordUpdate DEF ScopeStarts, ScopeTypeOK
    <2>b. /\ unit' \in Units /\ unit'.at = "live"
          /\ unit'.freeze = unit.freeze /\ unit'.frozen = unit.frozen
          /\ unit'.oom = unit.oom
      BY <1>1, UnitUpdate DEF ScopeStarts, ScopeTypeOK
    <2>1. coord' \in Coords /\ coord'.at = "boot" /\ unit' \in Units
          /\ unit'.at = "live" /\ unit'.freeze = unit.freeze
          /\ unit'.frozen = unit.frozen /\ unit'.oom = unit.oom
      BY <2>a, <2>b
    <2>2. ScopeTypeOK'
      BY <1>1, <2>1 DEF ScopeTypeOK, ScopeStarts
    <2>3. ScopeInv'
      BY <1>1, <2>1 DEF ScopeInv, Finished, ScopeStarts, Thawed
    <2>4. ScopeMoves
      BY <1>1, <2>1 DEF ScopeInv, ScopeMoves, ScopeStarts, Thawed
    <2> QED BY <2>2, <2>3, <2>4
  <1>2. CASE CoordGivesUp
    <2>1. coord' \in Coords /\ coord'.at = "ended"
      <3>1. coord \in Coords /\ Infra \in 0 .. 255
        BY DEF ScopeTypeOK, Infra
      <3>2. CoordEnds(Infra)
        BY <1>2 DEF CoordGivesUp
      <3> QED BY <3>1, <3>2, CoordEnded
    <2>2. ScopeTypeOK'
      BY <1>2, <2>1 DEF ScopeTypeOK, CoordGivesUp
    <2>3. ScopeInv'
      BY <1>2, <2>1 DEF ScopeInv, Finished, CoordGivesUp, Thawed
    <2>4. ScopeMoves
      BY <1>2, <2>1 DEF ScopeInv, ScopeMoves, CoordGivesUp, Thawed
    <2> QED BY <2>2, <2>3, <2>4
  <1>3. CASE CoordReady
    <2>1. coord' \in Coords /\ coord'.at = "go" /\ chan' \in Chans
          /\ chan'.go = chan.go /\ chan'.finished = chan.finished
      BY <1>3, CoordUpdate, ChanUpdate DEF CoordReady, ScopeTypeOK
    <2>2. ScopeTypeOK'
      BY <1>3, <2>1 DEF ScopeTypeOK, CoordReady
    <2>3. ScopeInv'
      BY <1>3, <2>1 DEF ScopeInv, Finished, CoordReady, Thawed
    <2>4. ScopeMoves
      BY <1>3, <2>1 DEF ScopeInv, ScopeMoves, CoordReady, Thawed
    <2> QED BY <2>2, <2>3, <2>4
  <1>4. CASE CoordGo
    <2>1. coord' \in Coords /\ coord'.at = "spawn"
      BY <1>4, CoordUpdate DEF CoordGo, ScopeTypeOK
    <2>2. ScopeTypeOK'
      BY <1>4, <2>1 DEF ScopeTypeOK, CoordGo
    <2>3. ScopeInv'
      BY <1>4, <2>1 DEF ScopeInv, Finished, CoordGo, Thawed
    <2>4. ScopeMoves
      BY <1>4, <2>1 DEF ScopeInv, ScopeMoves, CoordGo, Thawed
    <2> QED BY <2>2, <2>3, <2>4
  <1>5. CASE CoordSignalled
    <2>1. /\ coord' \in Coords /\ coord'.at = coord.at
          /\ coord'.next = coord.next /\ coord'.error = coord.error
      BY <1>5, CoordUpdate DEF CoordSignalled, ScopeTypeOK
    <2>2. ScopeTypeOK'
      BY <1>5, <2>1 DEF ScopeTypeOK, CoordSignalled
    <2>3. ScopeInv'
      BY <1>5, <2>1 DEF ScopeInv, Finished, CoordSignalled, Thawed
    <2>4. ScopeMoves
      BY <1>5, <2>1 DEF ScopeInv, ScopeMoves, CoordSignalled, Thawed
    <2> QED BY <2>2, <2>3, <2>4
  <1> QED BY <1>1, <1>2, <1>3, <1>4, <1>5

LEMMA SystemMoves ==
  ASSUME ScopeTypeOK, ScopeInv,
         LaunchFails \/ LauncherEnds \/ RuntimeMax \/ OutOfMemory
         \/ Freezes \/ Retires \/ Replaced
  PROVE  ScopeGoal
  <1> USE DEF ScopeGoal, NoProcess, NoPayload, Coordinating, Working
  <1>1. CASE LaunchFails
    <2>2. ScopeTypeOK'
      BY <1>1 DEF ScopeTypeOK, LaunchFails
    <2>3. ScopeInv'
      BY <1>1 DEF ScopeInv, Finished, LaunchFails
    <2>4. ScopeMoves
      BY <1>1 DEF ScopeInv, ScopeMoves, LaunchFails
    <2> QED BY <2>2, <2>3, <2>4
  <1>2. CASE LauncherEnds
    <2>2. ScopeTypeOK'
      BY <1>2 DEF ScopeTypeOK, LauncherEnds
    <2>3. ScopeInv'
      BY <1>2 DEF ScopeInv, Finished, LauncherEnds
    <2>4. ScopeMoves
      BY <1>2 DEF ScopeInv, ScopeMoves, LauncherEnds
    <2> QED BY <2>2, <2>3, <2>4
  <1>3. CASE RuntimeMax
    <2>1. /\ unit' \in Units /\ unit'.at = unit.at /\ unit'.freeze = unit.freeze
          /\ unit'.frozen = unit.frozen /\ unit'.oom = unit.oom
      BY <1>3, UnitUpdate DEF RuntimeMax, ScopeTypeOK
    <2>2. ScopeTypeOK'
      BY <1>3, <2>1 DEF ScopeTypeOK, RuntimeMax
    <2>3. ScopeInv'
      BY <1>3, <2>1 DEF ScopeInv, Finished, RuntimeMax, Thawed
    <2>4. ScopeMoves
      BY <1>3, <2>1 DEF ScopeInv, ScopeMoves, RuntimeMax, Thawed
    <2> QED BY <2>2, <2>3, <2>4
  <1>4. CASE OutOfMemory
    <2>1. /\ unit' \in Units /\ unit'.at = unit.at /\ unit'.freeze = unit.freeze
          /\ unit'.frozen = unit.frozen
      BY <1>4, UnitUpdate DEF OutOfMemory, ScopeTypeOK
    <2>2. ScopeTypeOK'
      BY <1>4, <2>1 DEF ScopeTypeOK, OutOfMemory
    <2>3. ScopeInv'
      BY <1>4, <2>1 DEF ScopeInv, Finished, OutOfMemory, Thawed
    <2>4. ScopeMoves
      BY <1>4, <2>1 DEF ScopeInv, ScopeMoves, OutOfMemory, Thawed
    <2> QED BY <2>2, <2>3, <2>4
  <1>5. CASE Freezes
    <2>0. unit \in Units /\ unit.freeze \in BOOLEAN
      BY DEF ScopeTypeOK, Units
    <2>1. /\ unit' \in Units /\ unit'.at = unit.at /\ unit'.freeze = unit.freeze
          /\ unit'.frozen = unit.freeze /\ unit'.oom = unit.oom
      BY <1>5, <2>0 DEF Freezes, Units
    <2>2. ScopeTypeOK'
      BY <1>5, <2>1 DEF ScopeTypeOK, Freezes
    <2>3. ScopeInv'
      BY <1>5, <2>1 DEF ScopeInv, Finished, Freezes, Thawed
    <2>4. ScopeMoves
      BY <1>5, <2>1 DEF ScopeInv, ScopeMoves, Freezes, Thawed
    <2> QED BY <2>2, <2>3, <2>4
  <1>6. CASE Retires
    <2>1. /\ unit' \in Units /\ unit'.at = "gone" /\ unit'.freeze = unit.freeze
          /\ unit'.frozen = unit.frozen /\ unit'.oom = unit.oom
      BY <1>6, UnitUpdate DEF Retires, ScopeTypeOK
    <2>2. ScopeTypeOK'
      BY <1>6, <2>1 DEF ScopeTypeOK, Retires
    <2>3. ScopeInv'
      BY <1>6, <2>1 DEF ScopeInv, Finished, Retires, Thawed
    <2>4. ScopeMoves
      BY <1>6, <2>1 DEF ScopeInv, ScopeMoves, Retires, Thawed
    <2> QED BY <2>2, <2>3, <2>4
  <1>7. CASE Replaced
    <2>2. ScopeTypeOK'
      BY <1>7 DEF ScopeTypeOK, Replaced
    <2>3. ScopeInv'
      BY <1>7 DEF ScopeInv, Finished, Replaced
    <2>4. ScopeMoves
      BY <1>7 DEF ScopeInv, ScopeMoves, Replaced
    <2> QED BY <2>2, <2>3, <2>4
  <1> QED BY <1>1, <1>2, <1>3, <1>4, <1>5, <1>6, <1>7

LEMMA WorkMoves ==
  ASSUME ScopeTypeOK, ScopeInv, NEW g \in Group,
         WorkerPublish(g) \/ WorkerExits(g) \/ StraysMove
  PROVE  ScopeGoal
  <1> USE DEF ScopeGoal, NoProcess, NoPayload, Coordinating, Working
  <1>1. CASE WorkerPublish(g)
    <2>6. ~chan.finished /\ ~NoPayload
      BY <1>1 DEF ScopeInv, Finished, WorkerPublish
    <2>1. Infra \in 0 .. 255
      BY DEF Infra
    <2>2. status' \in [Group -> {<<>>} \cup (Codes \X {0, 1})]
      <3>1. CASE UNCHANGED status
        BY <3>1 DEF ScopeTypeOK
      <3>2. ASSUME NEW p \in Codes, NEW l \in {0, 1},
                   status' = [status EXCEPT ![g] = <<p, l>>]
            PROVE  status' \in [Group -> {<<>>} \cup (Codes \X {0, 1})]
        <4>1. <<p, l>> \in {<<>>} \cup (Codes \X {0, 1})
          OBVIOUS
        <4> QED BY <3>2, <4>1, Zenon DEF ScopeTypeOK
      <3> QED BY <1>1, <3>1, <3>2 DEF WorkerPublish
    <2>3. work' \in [Group -> {"idle", "run", "published", "ended"}]
      BY <1>1 DEF ScopeTypeOK, WorkerPublish
    <2>4. exit' \in [Group -> 0 .. 255]
      BY <1>1, <2>1, Zenon DEF ScopeTypeOK, WorkerPublish
    <2>7. ScopeTypeOK'
      BY <1>1, <2>2, <2>3, <2>4 DEF ScopeTypeOK, WorkerPublish
    <2>8. ScopeInv'
      BY <1>1 DEF ScopeInv, ScopeTypeOK, Finished, Thawed, WorkerPublish
    <2>9. ScopeMoves
      BY <1>1, <2>6 DEF ScopeMoves, Thawed, WorkerPublish
    <2> QED BY <2>7, <2>8, <2>9
  <1>2. CASE WorkerExits(g)
    <2>6. ~chan.finished /\ ~NoPayload
      BY <1>2 DEF ScopeInv, Finished, WorkerExits
    <2>1. status[g] \in Codes \X {0, 1}
      BY <1>2 DEF WorkerExits, ScopeInv
    <2>2. (IF status[g][2] = 0 THEN status[g][1] ELSE Infra) \in 0 .. 255
      <3>1. status[g][1] \in Codes
        BY <2>1
      <3>2. status[g][1] \in 0 .. 255
        BY <3>1, ScopeAssumption, Zenon
      <3>3. Infra \in 0 .. 255
        BY DEF Infra
      <3> QED BY <3>2, <3>3
    <2>3. exit' \in [Group -> 0 .. 255]
      BY <1>2, <2>2, Zenon DEF WorkerExits, ScopeTypeOK
    <2>7. ScopeTypeOK'
      BY <1>2, <2>3 DEF ScopeTypeOK, WorkerExits
    <2>8. ScopeInv'
      BY <1>2 DEF ScopeInv, ScopeTypeOK, Finished, Thawed, WorkerExits
    <2>9. ScopeMoves
      BY <1>2, <2>6 DEF ScopeMoves, Thawed, WorkerExits
    <2> QED BY <2>7, <2>8, <2>9
  <1>3. CASE StraysMove
    <2>6. ~NoPayload /\ (chan.finished => stray # {})
      BY <1>3 DEF ScopeInv, Finished, StraysMove
    <2>7. ScopeTypeOK'
      BY <1>3 DEF ScopeTypeOK, StraysMove
    <2>8. ScopeInv'
      BY <1>3 DEF ScopeInv, ScopeTypeOK, Finished, Thawed, StraysMove
    <2>9. ScopeMoves
      BY <1>3, <2>6 DEF ScopeMoves, Thawed, StraysMove
    <2> QED BY <2>7, <2>8, <2>9
  <1> QED BY <1>1, <1>2, <1>3

LEMMA DeathMoves ==
  ASSUME ScopeTypeOK, ScopeInv, Dies
  PROVE  ScopeGoal
  <1> USE DEF ScopeGoal, NoProcess, NoPayload, Coordinating, Working
  <1>0. Killed \in 0 .. 255
    BY DEF Killed
  <1>1. CASE /\ Coordinating /\ CoordEnds(Killed)
             /\ UNCHANGED <<work, exit, stray>>
    <2>1. coord' \in Coords /\ coord'.at = "ended"
      BY <1>0, <1>1, CoordEnded DEF ScopeTypeOK
    <2>6. ~NoProcess
      BY <1>1, <2>1 DEF ScopeInv, Finished, Dies
    <2>7. ScopeTypeOK'
      BY <1>1, <2>1 DEF ScopeTypeOK, Dies
    <2>8. ScopeInv'
      BY <1>1, <2>1 DEF ScopeInv, ScopeTypeOK, Finished, Thawed, Dies
    <2>9. ScopeMoves
      BY <1>1, <2>1, <2>6 DEF ScopeMoves, Thawed, Dies
    <2> QED BY <2>7, <2>8, <2>9
  <1>2. ASSUME NEW g \in Group, Working(g),
               work' = [work EXCEPT ![g] = "ended"],
               exit' = [exit EXCEPT ![g] = Killed],
               UNCHANGED <<coord, stray>>
        PROVE  ScopeGoal
    <2>6. ~chan.finished /\ ~NoPayload
      BY <1>0, <1>2 DEF ScopeInv, Finished, Dies
    <2>7. ScopeTypeOK'
      BY <1>0, <1>2 DEF ScopeTypeOK, Dies
    <2>8. ScopeInv'
      BY <1>0, <1>2 DEF ScopeInv, ScopeTypeOK, Finished, Thawed, Dies
    <2>9. ScopeMoves
      BY <1>0, <1>2, <2>6 DEF ScopeMoves, Thawed, Dies
    <2> QED BY <2>7, <2>8, <2>9
  <1>3. CASE stray # {} /\ stray' = {} /\ UNCHANGED <<coord, work, exit>>
    <2>6. ~NoPayload
      BY <1>3 DEF ScopeInv, Finished, Dies
    <2>7. ScopeTypeOK'
      BY <1>3 DEF ScopeTypeOK, Dies
    <2>8. ScopeInv'
      BY <1>3 DEF ScopeInv, ScopeTypeOK, Finished, Thawed, Dies
    <2>9. ScopeMoves
      BY <1>3, <2>6 DEF ScopeMoves, Thawed, Dies
    <2> QED BY <2>7, <2>8, <2>9
  <1> QED BY <1>1, <1>2, <1>3 DEF Dies

LEMMA LoopMoves ==
  ASSUME ScopeTypeOK, ScopeInv,
         CoordSpawn \/ CoordReap \/ CoordFinish \/ CoordAck
  PROVE  ScopeGoal
  <1> USE DEF ScopeGoal, NoProcess, NoPayload, Coordinating, Working
  <1>0. /\ coord \in Coords /\ coord.next \in 0 .. N /\ coord.error \in BOOLEAN
        /\ N \in Nat \ {0}
    BY ScopeAssumption DEF ScopeTypeOK, Coords
  <1>1. CASE CoordSpawn
    <2>1. CASE coord.signalled \/ coord.next = N
      <3>1. coord' = [coord EXCEPT !.at = "reap", !.next = 0,
                                   !.error = coord.next # N]
        BY <1>1, <2>1 DEF CoordSpawn
      <3> DEFINE e == coord.next # N
      <3>a. e \in BOOLEAN /\ 0 \in 0 .. N
        BY <1>0
      <3>b. coord' = [coord EXCEPT !.at = "reap", !.next = 0, !.error = e]
        BY <3>1
      <3> HIDE DEF e
      <3>2. coord' \in Coords /\ coord'.at = "reap" /\ coord'.next = 0
        BY <1>0, <3>a, <3>b DEF Coords
      <3>3. UNCHANGED work /\ coord.at = "spawn"
        BY <1>1, <2>1 DEF CoordSpawn
      <3>7. ScopeTypeOK'
        BY <1>0, <1>1, <3>2, <3>3 DEF ScopeTypeOK, CoordSpawn
      <3>8. ScopeInv'
        BY <1>0, <1>1, <3>2, <3>3 DEF ScopeInv, ScopeTypeOK, Finished, Thawed, CoordSpawn
      <3>9. ScopeMoves
        BY <1>0, <1>1, <3>2, <3>3 DEF ScopeInv, ScopeMoves, Thawed, CoordSpawn
      <3> QED BY <3>7, <3>8, <3>9
    <2>2. CASE ~(coord.signalled \/ coord.next = N)
      <3>1. coord' = [coord EXCEPT !.next = @ + 1]
        BY <1>1, <2>2 DEF CoordSpawn
      <3>2. coord' \in Coords /\ coord'.at = "spawn"
        BY <1>0, <1>1, <2>2, <3>1 DEF Coords, CoordSpawn
      <3>3. work' = [work EXCEPT ![coord.next] = "run"] /\ coord.at = "spawn"
        BY <1>1, <2>2 DEF CoordSpawn
      <3>7. ScopeTypeOK'
        BY <1>0, <1>1, <3>2, <3>3 DEF ScopeTypeOK, CoordSpawn
      <3>8. ScopeInv'
        BY <1>0, <1>1, <3>2, <3>3 DEF ScopeInv, ScopeTypeOK, Finished, Thawed, CoordSpawn
      <3>9. ScopeMoves
        BY <1>0, <1>1, <3>2, <3>3 DEF ScopeInv, ScopeMoves, Thawed, CoordSpawn
      <3> QED BY <3>7, <3>8, <3>9
    <2> QED BY <2>1, <2>2
  <1>2. CASE CoordReap
    <2>1. PICK readable \in BOOLEAN :
            coord' = [coord EXCEPT !.next = coord.next + 1,
                        !.error = @ \/ ~readable \/ work[coord.next] = "idle"
                           \/ status[coord.next] # <<exit[coord.next], 0>>]
      BY <1>2 DEF CoordReap
    <2>2. coord.next + 1 \in 0 .. N /\ coord.next \in Group
      <3>1. coord.next < N
        BY <1>2, Zenon DEF CoordReap
      <3>2. coord.next \in 0 .. N /\ N \in Nat
        BY <1>0
      <3> QED BY <3>1, <3>2 DEF Group
    <2> DEFINE e == coord.error \/ ~readable \/ work[coord.next] = "idle"
                      \/ status[coord.next] # <<exit[coord.next], 0>>
    <2>3. e \in BOOLEAN /\ coord' = [coord EXCEPT !.next = coord.next + 1,
                                                  !.error = e]
      BY <2>1
    <2>4. ~e => ~coord.error /\ Finished(coord.next)
      BY <1>2, <2>2 DEF CoordReap, Finished, ScopeTypeOK
    <2> HIDE DEF e
    <2>5. /\ coord' \in Coords /\ coord'.at = "reap" /\ coord.at = "reap"
          /\ coord'.next = coord.next + 1 /\ coord'.error = e
      BY <1>0, <1>2, <2>2, <2>3 DEF Coords, CoordReap
    <2>6. \A g \in Group : g < coord.next + 1 => g < coord.next \/ g = coord.next
      BY <1>0 DEF Group
    <2>7. ScopeTypeOK'
      BY <1>2, <2>5 DEF ScopeTypeOK, CoordReap
    <2>8. ScopeInv'
      BY <1>2, <2>4, <2>5, <2>6 DEF ScopeInv, Finished, CoordReap, Thawed
    <2>9. ScopeMoves
      BY <1>2, <2>5 DEF ScopeInv, ScopeMoves, CoordReap
    <2> QED BY <2>7, <2>8, <2>9
  <1>3. CASE CoordFinish
    <2>1. CASE coord.signalled \/ coord.error \/ ~chan.open
      <3>1. CoordEnds(Infra) /\ UNCHANGED chan /\ Infra \in 0 .. 255
        BY <1>3, <2>1 DEF CoordFinish, Infra
      <3>2. coord' \in Coords /\ coord'.at = "ended"
        BY <1>0, <3>1, CoordEnded
      <3>7. ScopeTypeOK'
        BY <1>3, <3>1, <3>2 DEF ScopeTypeOK, CoordFinish
      <3>8. ScopeInv'
        BY <1>3, <3>1, <3>2 DEF ScopeInv, ScopeTypeOK, Finished, Thawed, CoordFinish
      <3>9. ScopeMoves
        BY <1>3, <3>1, <3>2 DEF ScopeInv, ScopeMoves, Thawed, CoordFinish
      <3> QED BY <3>7, <3>8, <3>9
    <2>2. CASE ~(coord.signalled \/ coord.error \/ ~chan.open)
      <3>1. /\ chan' = [chan EXCEPT !.finished = TRUE]
            /\ coord' = [coord EXCEPT !.at = "ack"]
        BY <1>3, <2>2 DEF CoordFinish
      <3>2. coord' \in Coords /\ coord'.at = "ack"
        BY <1>0, <3>1 DEF Coords
      <3>3. chan' \in Chans /\ chan'.go = chan.go /\ chan'.finished
        BY <3>1, ChanUpdate DEF ScopeTypeOK
      <3>4. coord.at = "reap" /\ coord.next = N /\ ~coord.error
        BY <1>3, <2>2 DEF CoordFinish
      <3>5. \A g \in Group : Finished(g)
        BY <1>0, <3>4 DEF ScopeInv, Group
      <3>7. ScopeTypeOK'
        BY <1>3, <3>2, <3>3, <3>4, <3>5 DEF ScopeTypeOK, CoordFinish
      <3>8. ScopeInv'
        BY <1>3, <3>2, <3>3, <3>4, <3>5 DEF ScopeInv, ScopeTypeOK, Finished, Thawed, CoordFinish
      <3>9. ScopeMoves
        BY <1>3, <3>2, <3>3, <3>4, <3>5 DEF ScopeInv, ScopeMoves, Thawed, CoordFinish
      <3> QED BY <3>7, <3>8, <3>9
    <2> QED BY <2>1, <2>2
  <1>4. CASE CoordAck
    <2>1. CoordEnds(FirstFailure(exit)) /\ FirstFailure(exit) \in 0 .. 255
      BY <1>4, FirstFailureType DEF CoordAck, ScopeTypeOK
    <2>2. coord' \in Coords /\ coord'.at = "ended"
      BY <1>0, <2>1, CoordEnded
    <2>7. ScopeTypeOK'
      BY <1>4, <2>2 DEF ScopeTypeOK, CoordAck
    <2>8. ScopeInv'
      BY <1>4, <2>2 DEF ScopeInv, ScopeTypeOK, Finished, Thawed, CoordAck
    <2>9. ScopeMoves
      BY <1>4, <2>2 DEF ScopeInv, ScopeMoves, Thawed, CoordAck
    <2> QED BY <2>7, <2>8, <2>9
  <1> QED BY <1>1, <1>2, <1>3, <1>4

LEMMA ScopeStepMoves ==
  ASSUME ScopeTypeOK, ScopeInv, ScopeStep
  PROVE  ScopeGoal
  <1>1. CASE \/ ScopeStarts \/ CoordGivesUp \/ CoordReady \/ CoordGo
             \/ CoordSignalled
    BY <1>1, CoordMoves
  <1>2. CASE CoordSpawn \/ CoordReap \/ CoordFinish \/ CoordAck
    BY <1>2, LoopMoves
  <1>3. CASE \E g \in Group : WorkerPublish(g) \/ WorkerExits(g)
    BY <1>3, WorkMoves
  <1>4. CASE StraysMove
    <2>1. 0 \in Group
      BY ScopeAssumption DEF Group
    <2> QED BY <1>4, <2>1, WorkMoves
  <1>5. CASE Dies
    BY <1>5, DeathMoves
  <1>6. CASE \/ LaunchFails \/ LauncherEnds \/ RuntimeMax \/ OutOfMemory
             \/ Freezes \/ Retires \/ Replaced
    BY <1>6, SystemMoves
  <1> QED
    BY <1>1, <1>2, <1>3, <1>4, <1>5, <1>6, Zenon DEF ScopeStep

(***************************************************************************)
(* What the scope does while the waiter stands still                       *)
(***************************************************************************)
LEMMA ScopeKeeps ==
  ASSUME Inv, ScopeStep, UNCHANGED <<w, lock>>
  PROVE  Inv'
  <1>1. ScopeTypeOK' /\ ScopeInv' /\ ScopeMoves
    BY ScopeStepMoves DEF Inv, TypeOK, ScopeGoal
  <1>2. TypeOK'
    BY <1>1 DEF Inv, TypeOK
  <1>3. PinInv'
    BY <1>1 DEF Inv, PinInv, ScopeInv, ScopeMoves, Identified, NoProcess,
                Coordinating
  <1>4. DrainInv'
    BY <1>1 DEF Inv, DrainInv, ScopeMoves
  <1>5. LockInv'
    BY <1>1 DEF Inv, LockInv, ReleasedMeansEmpty, Joined, ScopeMoves
  <1>6. ResultInv'
    <2>1. Genuine(w.code) => Genuine(w.code)'
      BY <1>1 DEF Inv, ScopeInv, Genuine, ScopeMoves, NoProcess, Coordinating
    <2>2. /\ w.at \in Collected => /\ chan'.finished
                                   /\ w.result = FirstFailure(exit')
          /\ w.at \in {"frozen", "procs", "children"} => unit'.freeze
          /\ w.at \in {"procs", "children"} => unit'.frozen
          /\ w.at = "children" => "scope" \notin stray'
      BY <1>1 DEF Inv, ResultInv, ScopeMoves, Collected
    <2>3. /\ w.at \in {"capture"} \cup CapturedSites => stray' = {}
          /\ w.at \in CapturedSites => ~unit'.oom
      BY <1>1 DEF Inv, ResultInv, ScopeMoves, ScopeInv, NoPayload, Finished,
                  Working, Collected
    <2> QED
      BY <2>1, <2>2, <2>3 DEF Inv, ResultInv
  <1> QED BY <1>1, <1>2, <1>3, <1>4, <1>5, <1>6 DEF Inv

(***************************************************************************)
(* Steps of the waiter                                                     *)
(***************************************************************************)
\* The waiter's variables other than its place.
Kept ==
  /\ w'.signal = w.signal /\ w'.infra = w.infra /\ w'.pin = w.pin
  /\ w'.pinned = w.pinned /\ w'.launched = w.launched
  /\ w'.drained = w.drained /\ w'.result = w.result /\ w'.code = w.code

LEMMA StepKeeps ==
  ASSUME w \in Waiters, NEW from, NEW to \in Sites, Step(from, to)
  PROVE  w' \in Waiters /\ w.at = from /\ w'.at = to /\ Kept
  BY DEF Waiters, Step, Kept

LEMMA AbandonKeeps ==
  ASSUME w \in Waiters, w' = Abandoned
  PROVE  /\ w' \in Waiters /\ w'.at = "x_close" /\ w'.infra
         /\ w'.signal = w.signal /\ w'.pin = w.pin /\ w'.pinned = w.pinned
         /\ w'.launched = w.launched /\ w'.drained = w.drained
  <1>1. "x_close" \in Sites /\ Infra \in 0 .. 255
    BY DEF Sites, ExitSites, Infra
  <1> HIDE DEF Infra
  <1> QED BY <1>1 DEF Waiters, Abandoned

\* A step that only observes may go where what it has observed, and what is
\* known at the step, is enough.
Links(from, to) ==
  \/ from = "prepare" /\ to = "launch"
  \/ from = "ready" /\ to = "manager"
  \/ from = "manager" /\ to = "open"
  \/ from = "identify" /\ to = "members" /\ Identified
  \/ from = "members" /\ to = "confirm"
  \/ from = "baseline" /\ to = "go"
  \/ from = "frozen" /\ to = "procs" /\ unit.frozen
  \/ from = "procs" /\ to = "children" /\ "scope" \notin stray
  \/ from = "children" /\ to = "capture" /\ "child" \notin stray
  \/ from = "capture" /\ to = "ack" /\ ~unit.oom

LEMMA QuietStep ==
  ASSUME Inv, UNCHANGED <<scope, lock>>, w' \in Waiters, Kept,
         Links(w.at, w'.at)
  PROVE  Inv'
  <1> USE DEF Kept, Links, scope
  <1>1. TypeOK' /\ ScopeInv'
    BY DEF Inv, TypeOK, ScopeTypeOK, ScopeInv, Finished, NoProcess, NoPayload,
           Coordinating, Working
  <1>2. PinInv'
    BY DEF Inv, PinInv, Identified, NoProcess, NoPayload, Coordinating,
           Working, Collected, CapturedSites, Unlaunched, Unbound, Bound, Over
  <1>3. DrainInv'
    BY DEF Inv, DrainInv, NoProcess, NoPayload, Coordinating, Working,
           Collected, CapturedSites, Unlaunched, Unbound, Bound, Over
  <1>4. LockInv'
    BY DEF Inv, LockInv, ReleasedMeansEmpty, NoProcess, NoPayload,
           Coordinating, Working, Joined, Over
  <1>5. ResultInv'
    BY DEF Inv, TypeOK, ScopeTypeOK, ResultInv, Collected, CapturedSites,
           ExitSites
  <1> QED BY <1>1, <1>2, <1>3, <1>4, <1>5 DEF Inv

\* The steps that only observe.
LEMMA ObserveSteps ==
  ASSUME Inv,
         \/ Prepare
         \/ ReadReady
         \/ CheckManager("manager", "open")
         \/ Identify
         \/ CheckMembers
         \/ Baseline
         \/ AwaitFrozen
         \/ ReadProcs
         \/ ReadChildren
         \/ CaptureResources
  PROVE  Inv'
  <1>0. w \in Waiters
    BY DEF Inv, TypeOK
  <1>1. CASE Prepare
    <2>1. "launch" \in Sites
      BY DEF Sites, RunSites
    <2>2. /\ w' \in Waiters /\ w.at = "prepare" /\ w'.at = "launch" /\ Kept
          /\ UNCHANGED <<scope, lock>>
      BY <1>0, <1>1, <2>1, StepKeeps DEF Prepare
    <2> QED
      BY <1>1, <2>2, QuietStep DEF Prepare, Links
  <1>2. CASE ReadReady
    <2>1. "manager" \in Sites
      BY DEF Sites, RunSites
    <2>2. /\ w' \in Waiters /\ w.at = "ready" /\ w'.at = "manager" /\ Kept
          /\ UNCHANGED <<scope, lock>>
      BY <1>0, <1>2, <2>1, StepKeeps DEF ReadReady
    <2> QED
      BY <1>2, <2>2, QuietStep DEF ReadReady, Links
  <1>3. CASE CheckManager("manager", "open")
    <2>1. "open" \in Sites
      BY DEF Sites, RunSites
    <2>2. /\ w' \in Waiters /\ w.at = "manager" /\ w'.at = "open" /\ Kept
          /\ UNCHANGED <<scope, lock>>
      BY <1>0, <1>3, <2>1, StepKeeps DEF CheckManager
    <2> QED
      BY <1>3, <2>2, QuietStep DEF CheckManager, Links
  <1>4. CASE Identify
    <2>1. "members" \in Sites
      BY DEF Sites, RunSites
    <2>2. /\ w' \in Waiters /\ w.at = "identify" /\ w'.at = "members" /\ Kept
          /\ UNCHANGED <<scope, lock>>
      BY <1>0, <1>4, <2>1, StepKeeps DEF Identify
    <2> QED
      BY <1>4, <2>2, QuietStep DEF Identify, Links
  <1>5. CASE CheckMembers
    <2>1. "confirm" \in Sites
      BY DEF Sites, RunSites
    <2>2. /\ w' \in Waiters /\ w.at = "members" /\ w'.at = "confirm" /\ Kept
          /\ UNCHANGED <<scope, lock>>
      BY <1>0, <1>5, <2>1, StepKeeps DEF CheckMembers
    <2> QED
      BY <1>5, <2>2, QuietStep DEF CheckMembers, Links
  <1>6. CASE Baseline
    <2>1. "go" \in Sites
      BY DEF Sites, RunSites
    <2>2. /\ w' \in Waiters /\ w.at = "baseline" /\ w'.at = "go" /\ Kept
          /\ UNCHANGED <<scope, lock>>
      BY <1>0, <1>6, <2>1, StepKeeps DEF Baseline
    <2> QED
      BY <1>6, <2>2, QuietStep DEF Baseline, Links
  <1>7. CASE AwaitFrozen
    <2>1. "procs" \in Sites
      BY DEF Sites, RunSites
    <2>2. /\ w' \in Waiters /\ w.at = "frozen" /\ w'.at = "procs" /\ Kept
          /\ UNCHANGED <<scope, lock>>
      BY <1>0, <1>7, <2>1, StepKeeps DEF AwaitFrozen
    <2> QED
      BY <1>7, <2>2, QuietStep DEF AwaitFrozen, Links
  <1>8. CASE ReadProcs
    <2>1. "children" \in Sites
      BY DEF Sites, RunSites
    <2>2. /\ w' \in Waiters /\ w.at = "procs" /\ w'.at = "children" /\ Kept
          /\ UNCHANGED <<scope, lock>>
      BY <1>0, <1>8, <2>1, StepKeeps DEF ReadProcs
    <2> QED
      BY <1>8, <2>2, QuietStep DEF ReadProcs, Links
  <1>9. CASE ReadChildren
    <2>1. "capture" \in Sites
      BY DEF Sites, RunSites
    <2>2. /\ w' \in Waiters /\ w.at = "children" /\ w'.at = "capture" /\ Kept
          /\ UNCHANGED <<scope, lock>>
      BY <1>0, <1>9, <2>1, StepKeeps DEF ReadChildren
    <2> QED
      BY <1>9, <2>2, QuietStep DEF ReadChildren, Links
  <1>10. CASE CaptureResources
    <2>1. "ack" \in Sites
      BY DEF Sites, RunSites
    <2>2. /\ w' \in Waiters /\ w.at = "capture" /\ w'.at = "ack" /\ Kept
          /\ UNCHANGED <<scope, lock>>
      BY <1>0, <1>10, <2>1, StepKeeps DEF CaptureResources
    <2> QED
      BY <1>10, <2>2, QuietStep DEF CaptureResources, Links
  <1> QED BY <1>1, <1>2, <1>3, <1>4, <1>5, <1>6, <1>7, <1>8, <1>9, <1>10

LEMMA WaiterFacts ==
  ASSUME NEW at \in Sites, NEW code \in 0 .. 255, w' = Waiter(at, code)
  PROVE  /\ w' \in Waiters /\ w'.at = at /\ w'.code = code /\ w'.pin = "none"
         /\ ~w'.signal /\ ~w'.infra /\ ~w'.pinned /\ ~w'.launched
         /\ ~w'.drained
  BY DEF Waiter, Waiters

\* The steps before the scope is started.
LEMMA BeginSteps ==
  ASSUME Inv, TakeLock \/ CheckCache
  PROVE  Inv'
  <1> USE DEF NoProcess, NoPayload, Coordinating, Working
  <1>0. w \in Waiters /\ Infra \in 0 .. 255 /\ 1 \in 0 .. 255
    BY DEF Inv, TypeOK, Infra
  <1>c. (Codes \cup {Infra}) \ {0} \subseteq 0 .. 255
    BY <1>0, ScopeAssumption
  <1>s. {"failed", "cache", "prepare", "ready"} \subseteq Sites
    BY DEF Sites, RunSites, Over
  <1>1. CASE TakeLock
    <2>1. CASE lock = "free"
      <3>1. /\ w' \in Waiters /\ w'.at = "cache" /\ Kept
            /\ w.at = "lock" /\ lock' = "mine" /\ UNCHANGED scope
        BY <1>0, <1>s, <1>1, <2>1 DEF TakeLock, Waiters, Kept
      <3>5. TypeOK' /\ ScopeInv'
        BY <3>1 DEF Inv, TypeOK, ScopeTypeOK, ScopeInv, Finished, Kept, scope
      <3>6. PinInv'
        BY <3>1 DEF Inv, PinInv, Identified, Collected, CapturedSites,
           Unlaunched, Unbound, Bound, Over, Kept, scope
      <3>7. DrainInv'
        BY <3>1 DEF Inv, DrainInv, Collected, CapturedSites, Unlaunched,
           Unbound, Bound, Over, Kept, scope
      <3>8. LockInv'
        BY <3>1 DEF Inv, LockInv, ReleasedMeansEmpty, Joined, Over, Kept, scope
      <3>9. ResultInv'
        BY <3>1 DEF Inv, TypeOK, ScopeTypeOK, ResultInv, Collected,
           CapturedSites, ExitSites, RunSites, Genuine, Kept, scope
      <3> QED BY <3>5, <3>6, <3>7, <3>8, <3>9 DEF Inv
    <2>2. CASE lock # "free"
      <3>1. w' = Waiter("failed", 1) /\ UNCHANGED <<scope, lock>>
        BY <1>1, <2>2 DEF TakeLock
      <3>a. /\ w' \in Waiters /\ w'.at = "failed" /\ ~w'.pinned /\ ~w'.drained
            /\ ~w'.launched /\ w'.pin = "none"
        <4>1. "failed" \in Sites
          BY <1>s
        <4> QED BY <1>0, <3>1, <4>1, WaiterFacts
      <3>2. w.at = "lock" /\ lock = "other"
        BY <1>1, <2>2 DEF TakeLock, Inv, TypeOK, LockInv
      <3>5. TypeOK' /\ ScopeInv'
        BY <3>1, <3>a, <3>2 DEF Inv, TypeOK, ScopeTypeOK, ScopeInv, Finished, scope
      <3>6. PinInv'
        BY <3>1, <3>a, <3>2 DEF Inv, PinInv, Identified, Collected, CapturedSites,
           Unlaunched, Unbound, Bound, Over, scope
      <3>7. DrainInv'
        BY <3>1, <3>a, <3>2 DEF Inv, DrainInv, Collected, CapturedSites, Unlaunched,
           Unbound, Bound, Over, scope
      <3>8. LockInv'
        BY <3>1, <3>a, <3>2 DEF Inv, LockInv, ReleasedMeansEmpty, Joined, Over, scope
      <3>9. ResultInv'
        BY <3>1, <3>a, <3>2 DEF Inv, TypeOK, ScopeTypeOK, ResultInv, Collected,
           CapturedSites, ExitSites, RunSites, Genuine, scope
      <3> QED BY <3>5, <3>6, <3>7, <3>8, <3>9 DEF Inv
    <2> QED BY <2>1, <2>2
  <1>2. CASE CheckCache
    <2>1. CASE w' = [w EXCEPT !.at = "prepare"]
      <3>1. /\ w' \in Waiters /\ w'.at = "prepare" /\ Kept
            /\ w.at = "cache" /\ UNCHANGED <<scope, lock>>
        BY <1>0, <1>s, <1>2, <2>1 DEF CheckCache, Waiters, Kept
      <3>5. TypeOK' /\ ScopeInv'
        BY <3>1 DEF Inv, TypeOK, ScopeTypeOK, ScopeInv, Finished, Kept, scope
      <3>6. PinInv'
        BY <3>1 DEF Inv, PinInv, Identified, Collected, CapturedSites,
           Unlaunched, Unbound, Bound, Over, Kept, scope
      <3>7. DrainInv'
        BY <3>1 DEF Inv, DrainInv, Collected, CapturedSites, Unlaunched,
           Unbound, Bound, Over, Kept, scope
      <3>8. LockInv'
        BY <3>1 DEF Inv, LockInv, ReleasedMeansEmpty, Joined, Over, Kept, scope
      <3>9. ResultInv'
        BY <3>1 DEF Inv, TypeOK, ScopeTypeOK, ResultInv, Collected,
           CapturedSites, ExitSites, RunSites, Genuine, Kept, scope
      <3> QED BY <3>5, <3>6, <3>7, <3>8, <3>9 DEF Inv
    <2>2. CASE \E code \in (Codes \cup {Infra}) \ {0} :
                 w' = Waiter("failed", code)
      <3>0. PICK code \in (Codes \cup {Infra}) \ {0} :
              w' = Waiter("failed", code)
        BY <2>2
      <3>a. /\ w' \in Waiters /\ w'.at = "failed" /\ ~w'.pinned /\ ~w'.drained
            /\ ~w'.launched /\ w'.pin = "none"
        <4>1. "failed" \in Sites /\ code \in 0 .. 255
          BY <1>c, <1>s
        <4> QED BY <3>0, <4>1, WaiterFacts
      <3>1. w.at = "cache" /\ UNCHANGED <<scope, lock>>
        BY <1>2 DEF CheckCache
      <3>5. TypeOK' /\ ScopeInv'
        BY <3>1, <3>a DEF Inv, TypeOK, ScopeTypeOK, ScopeInv, Finished, scope
      <3>6. PinInv'
        BY <3>1, <3>a DEF Inv, PinInv, Identified, Collected, CapturedSites,
           Unlaunched, Unbound, Bound, Over, scope
      <3>7. DrainInv'
        BY <3>1, <3>a DEF Inv, DrainInv, Collected, CapturedSites, Unlaunched,
           Unbound, Bound, Over, scope
      <3>8. LockInv'
        BY <3>1, <3>a DEF Inv, LockInv, ReleasedMeansEmpty, Joined, Over, scope
      <3>9. ResultInv'
        BY <3>1, <3>a DEF Inv, TypeOK, ScopeTypeOK, ResultInv, Collected,
           CapturedSites, ExitSites, RunSites, Genuine, scope
      <3> QED BY <3>5, <3>6, <3>7, <3>8, <3>9 DEF Inv
    <2> QED BY <1>2, <2>1, <2>2 DEF CheckCache
  <1> QED BY <1>1, <1>2

LEMMA BindSteps ==
  ASSUME Inv, Launch \/ OpenDirectory \/ Confirm \/ Go
  PROVE  Inv'
  <1> USE DEF NoProcess, NoPayload, Coordinating, Working
  <1>0. w \in Waiters /\ chan \in Chans
    BY DEF Inv, TypeOK, ScopeTypeOK
  <1>s. {"ready", "identify", "baseline", "finished"} \subseteq Sites
    BY DEF Sites, RunSites
  <1>1. CASE Launch
    <2>0. w.at = "launch" /\ launcher = "none" /\ coord.at = "none"
      BY <1>1 DEF Launch, Inv, DrainInv, ScopeInv, Unlaunched, Over
    <2>1. CASE launcher' = "run"
      <3>1. /\ w' = [w EXCEPT !.at = "ready", !.launched = TRUE]
            /\ chan' = [chan EXCEPT !.open = TRUE]
            /\ UNCHANGED <<unit, coord, work, status, exit, stray, other, lock>>
        BY <1>1, <2>0, <2>1 DEF Launch
      <3>2. /\ w' \in Waiters /\ w'.at = "ready" /\ w'.launched
            /\ w'.pin = w.pin /\ w'.pinned = w.pinned /\ w'.drained = w.drained
        BY <1>0, <1>s, <3>1 DEF Waiters
      <3>3. chan' \in Chans /\ chan'.go = chan.go /\ chan'.finished = chan.finished
        BY <1>0, <3>1 DEF Chans
      <3>5. TypeOK' /\ ScopeInv'
        BY <2>0, <2>1, <3>1, <3>2, <3>3 DEF Inv, TypeOK, ScopeTypeOK, ScopeInv, Finished, scope
      <3>6. PinInv'
        BY <2>0, <2>1, <3>1, <3>2, <3>3 DEF Inv, PinInv, Identified, Collected, CapturedSites,
           Unlaunched, Unbound, Bound, Over, scope
      <3>7. DrainInv'
        BY <2>0, <2>1, <3>1, <3>2, <3>3 DEF Inv, DrainInv, Collected, CapturedSites, Unlaunched,
           Unbound, Bound, Over, scope
      <3>8. LockInv'
        BY <2>0, <2>1, <3>1, <3>2, <3>3 DEF Inv, LockInv, ReleasedMeansEmpty, Joined, Over, scope
      <3>9. ResultInv'
        BY <2>0, <2>1, <3>1, <3>2, <3>3 DEF Inv, TypeOK, ScopeTypeOK, ResultInv, Collected,
           CapturedSites, ExitSites, RunSites, Genuine, scope
      <3> QED BY <3>5, <3>6, <3>7, <3>8, <3>9 DEF Inv
    <2>2. CASE launcher' # "run"
      <3>1. /\ w' = [Abandoned EXCEPT !.launched = TRUE]
            /\ UNCHANGED <<scope, lock>>
        BY <1>1, <2>2 DEF Launch, scope
      <3>2. /\ w' \in Waiters /\ w'.at = "x_close" /\ w'.infra
            /\ w'.pin = w.pin /\ w'.pinned = w.pinned /\ w'.launched
            /\ w'.drained = w.drained
        <4>1. "x_close" \in Sites /\ Infra \in 0 .. 255
          BY DEF Sites, ExitSites, Infra
        <4> HIDE DEF Infra
        <4> QED BY <1>0, <3>1, <4>1 DEF Waiters, Abandoned
      <3>5. TypeOK' /\ ScopeInv'
        BY <2>0, <3>1, <3>2 DEF Inv, TypeOK, ScopeTypeOK, ScopeInv, Finished, scope
      <3>6. PinInv'
        BY <2>0, <3>1, <3>2 DEF Inv, PinInv, Identified, Collected, CapturedSites,
           Unlaunched, Unbound, Bound, Over, scope
      <3>7. DrainInv'
        BY <2>0, <3>1, <3>2 DEF Inv, DrainInv, Collected, CapturedSites, Unlaunched,
           Unbound, Bound, Over, scope
      <3>8. LockInv'
        BY <2>0, <3>1, <3>2 DEF Inv, LockInv, ReleasedMeansEmpty, Joined, Over, scope
      <3>9. ResultInv'
        BY <2>0, <3>1, <3>2 DEF Inv, TypeOK, ScopeTypeOK, ResultInv, Collected,
           CapturedSites, ExitSites, RunSites, Genuine, scope
      <3> QED BY <3>5, <3>6, <3>7, <3>8, <3>9 DEF Inv
    <2> QED BY <2>1, <2>2
  <1>2. CASE OpenDirectory
    <2>1. PICK p \in {"own", "other"} :
            /\ w' = [w EXCEPT !.at = "identify", !.pin = p]
            /\ p = "own" => unit.at = "live"
      BY <1>2 DEF OpenDirectory
    <2>2. /\ w' \in Waiters /\ w.at = "open" /\ w'.at = "identify" /\ w'.pin = p
          /\ w'.pinned = w.pinned /\ w'.launched = w.launched
          /\ w'.drained = w.drained /\ UNCHANGED <<scope, lock>>
      BY <1>0, <1>s, <1>2, <2>1 DEF Waiters, OpenDirectory
    <2>5. TypeOK' /\ ScopeInv'
      BY <2>1, <2>2 DEF Inv, TypeOK, ScopeTypeOK, ScopeInv, Finished, scope
    <2>6. PinInv'
      BY <2>1, <2>2 DEF Inv, PinInv, Identified, Collected, CapturedSites,
         Unlaunched, Unbound, Bound, Over, scope
    <2>7. DrainInv'
      BY <2>1, <2>2 DEF Inv, DrainInv, Collected, CapturedSites, Unlaunched,
         Unbound, Bound, Over, scope
    <2>8. LockInv'
      BY <2>1, <2>2 DEF Inv, LockInv, ReleasedMeansEmpty, Joined, Over, scope
    <2>9. ResultInv'
      BY <2>1, <2>2 DEF Inv, TypeOK, ScopeTypeOK, ResultInv, Collected,
         CapturedSites, ExitSites, RunSites, Genuine, scope
    <2> QED BY <2>5, <2>6, <2>7, <2>8, <2>9 DEF Inv
  <1>3. CASE Confirm
    <2>1. /\ w' \in Waiters /\ w.at = "confirm" /\ w'.at = "baseline"
          /\ w'.pin = w.pin /\ w'.pinned /\ w'.launched = w.launched
          /\ w'.drained = w.drained /\ UNCHANGED <<scope, lock>>
      BY <1>0, <1>s, <1>3 DEF Waiters, Confirm
    <2>5. TypeOK' /\ ScopeInv'
      BY <2>1 DEF Inv, TypeOK, ScopeTypeOK, ScopeInv, Finished, scope
    <2>6. PinInv'
      BY <2>1 DEF Inv, PinInv, Identified, Collected, CapturedSites,
         Unlaunched, Unbound, Bound, Over, scope
    <2>7. DrainInv'
      BY <2>1 DEF Inv, DrainInv, Collected, CapturedSites, Unlaunched,
         Unbound, Bound, Over, scope
    <2>8. LockInv'
      BY <2>1 DEF Inv, LockInv, ReleasedMeansEmpty, Joined, Over, scope
    <2>9. ResultInv'
      BY <2>1 DEF Inv, TypeOK, ScopeTypeOK, ResultInv, Collected,
         CapturedSites, ExitSites, RunSites, Genuine, scope
    <2> QED BY <2>5, <2>6, <2>7, <2>8, <2>9 DEF Inv
  <1>4. CASE Go
    <2>0. "finished" \in Sites
      BY <1>s
    <2>1. /\ w' \in Waiters /\ w.at = "go" /\ w'.at = "finished" /\ Kept
      BY <1>0, <1>4, <2>0, StepKeeps DEF Go
    <2>2. chan' \in Chans /\ chan'.go /\ chan'.finished = chan.finished
      BY <1>0, <1>4, ChanUpdate DEF Go
    <2>3. /\ UNCHANGED <<unit, coord, work, status, exit, stray, launcher, other>>
          /\ UNCHANGED lock /\ Coordinating
      BY <1>4 DEF Go
    <2>5. TypeOK' /\ ScopeInv'
      BY <2>1, <2>2, <2>3 DEF Inv, TypeOK, ScopeTypeOK, ScopeInv, Finished, Kept, scope
    <2>6. PinInv'
      BY <2>1, <2>2, <2>3 DEF Inv, PinInv, Identified, Collected, CapturedSites,
         Unlaunched, Unbound, Bound, Over, Kept, scope
    <2>7. DrainInv'
      BY <2>1, <2>2, <2>3 DEF Inv, DrainInv, Collected, CapturedSites, Unlaunched,
         Unbound, Bound, Over, Kept, scope
    <2>8. LockInv'
      BY <2>1, <2>2, <2>3 DEF Inv, LockInv, ReleasedMeansEmpty, Joined, Over, Kept, scope
    <2>9. ResultInv'
      BY <2>1, <2>2, <2>3 DEF Inv, TypeOK, ScopeTypeOK, ResultInv, Collected,
         CapturedSites, ExitSites, RunSites, Genuine, Kept, scope
    <2> QED BY <2>5, <2>6, <2>7, <2>8, <2>9 DEF Inv
  <1> QED BY <1>1, <1>2, <1>3, <1>4

LEMMA CollectSteps ==
  ASSUME Inv,
         \/ ReadFinished \/ Freeze("freeze", "frozen", TRUE)
         \/ Freeze("thaw", "join", FALSE) \/ SendAck
  PROVE  Inv'
  <1> USE DEF NoProcess, NoPayload, Coordinating, Working
  <1>0. w \in Waiters /\ chan \in Chans /\ unit \in Units
    BY DEF Inv, TypeOK, ScopeTypeOK
  <1>s. {"freeze", "frozen", "join", "thaw"} \subseteq Sites
    BY DEF Sites, RunSites
  <1>1. CASE ReadFinished
    <2>1. FirstFailure(exit) \in 0 .. 255
      BY FirstFailureType DEF Inv, TypeOK, ScopeTypeOK
    <2>2. /\ w.at = "finished" /\ chan.finished /\ UNCHANGED <<scope, lock>>
          /\ w' = [w EXCEPT !.at = "freeze", !.result = FirstFailure(exit)]
      BY <1>1 DEF ReadFinished
    <2>3. /\ w' \in Waiters /\ w'.at = "freeze" /\ w'.result = FirstFailure(exit)
          /\ w'.pin = w.pin /\ w'.pinned = w.pinned
          /\ w'.launched = w.launched /\ w'.drained = w.drained
      BY <1>0, <1>s, <2>1, <2>2 DEF Waiters
    <2>5. TypeOK' /\ ScopeInv'
      BY <2>2, <2>3 DEF Inv, TypeOK, ScopeTypeOK, ScopeInv, Finished, scope
    <2>6. PinInv'
      BY <2>2, <2>3 DEF Inv, PinInv, Identified, Collected, CapturedSites,
         Unlaunched, Unbound, Bound, Over, scope
    <2>7. DrainInv'
      BY <2>2, <2>3 DEF Inv, DrainInv, Collected, CapturedSites, Unlaunched,
         Unbound, Bound, Over, scope
    <2>8. LockInv'
      BY <2>2, <2>3 DEF Inv, LockInv, ReleasedMeansEmpty, Joined, Over, scope
    <2>9. ResultInv'
      BY <2>2, <2>3 DEF Inv, TypeOK, ScopeTypeOK, ResultInv, Collected,
         CapturedSites, ExitSites, RunSites, Genuine, scope
    <2> QED BY <2>5, <2>6, <2>7, <2>8, <2>9 DEF Inv
  <1>2. CASE Freeze("freeze", "frozen", TRUE)
    <2>0. "frozen" \in Sites
      BY <1>s
    <2>1. w' \in Waiters /\ w.at = "freeze" /\ w'.at = "frozen" /\ Kept
      BY <1>0, <1>2, <2>0, StepKeeps DEF Freeze
    <2>2. /\ unit' \in Units /\ unit'.at = unit.at /\ unit'.freeze = TRUE
          /\ unit'.frozen = unit.frozen /\ unit'.oom = unit.oom
      BY <1>0, <1>2 DEF Freeze, Units
    <2>3. /\ UNCHANGED <<coord, work, status, exit, stray, launcher, chan>>
          /\ UNCHANGED <<other, lock>>
      BY <1>2 DEF Freeze
    <2>5. TypeOK' /\ ScopeInv'
      BY <2>1, <2>2, <2>3 DEF Inv, TypeOK, ScopeTypeOK, ScopeInv, Finished, Kept
    <2>6. PinInv'
      BY <2>1, <2>2, <2>3 DEF Inv, PinInv, Identified, Collected, CapturedSites,
         Unlaunched, Unbound, Bound, Over, Kept
    <2>7. DrainInv'
      BY <2>1, <2>2, <2>3 DEF Inv, DrainInv, Collected, CapturedSites, Unlaunched,
         Unbound, Bound, Over, Kept
    <2>8. LockInv'
      BY <2>1, <2>2, <2>3 DEF Inv, LockInv, ReleasedMeansEmpty, Joined, Over, Kept
    <2>9. ResultInv'
      BY <2>1, <2>2, <2>3 DEF Inv, TypeOK, ScopeTypeOK, ResultInv, Collected,
         CapturedSites, ExitSites, RunSites, Genuine, Kept
    <2> QED BY <2>5, <2>6, <2>7, <2>8, <2>9 DEF Inv
  <1>3. CASE Freeze("thaw", "join", FALSE)
    <2>0. "join" \in Sites
      BY <1>s
    <2>1. w' \in Waiters /\ w.at = "thaw" /\ w'.at = "join" /\ Kept
      BY <1>0, <1>3, <2>0, StepKeeps DEF Freeze
    <2>2. /\ unit' \in Units /\ unit'.at = unit.at /\ unit'.freeze = FALSE
          /\ unit'.frozen = unit.frozen /\ unit'.oom = unit.oom
      BY <1>0, <1>3 DEF Freeze, Units
    <2>3. /\ UNCHANGED <<coord, work, status, exit, stray, launcher, chan>>
          /\ UNCHANGED <<other, lock>>
      BY <1>3 DEF Freeze
    <2>5. TypeOK' /\ ScopeInv'
      BY <2>1, <2>2, <2>3 DEF Inv, TypeOK, ScopeTypeOK, ScopeInv, Finished, Kept
    <2>6. PinInv'
      BY <2>1, <2>2, <2>3 DEF Inv, PinInv, Identified, Collected, CapturedSites,
         Unlaunched, Unbound, Bound, Over, Kept
    <2>7. DrainInv'
      BY <2>1, <2>2, <2>3 DEF Inv, DrainInv, Collected, CapturedSites, Unlaunched,
         Unbound, Bound, Over, Kept
    <2>8. LockInv'
      BY <2>1, <2>2, <2>3 DEF Inv, LockInv, ReleasedMeansEmpty, Joined, Over, Kept
    <2>9. ResultInv'
      BY <2>1, <2>2, <2>3 DEF Inv, TypeOK, ScopeTypeOK, ResultInv, Collected,
         CapturedSites, ExitSites, RunSites, Genuine, Kept
    <2> QED BY <2>5, <2>6, <2>7, <2>8, <2>9 DEF Inv
  <1>4. CASE SendAck
    <2>0. "thaw" \in Sites
      BY <1>s
    <2>1. w' \in Waiters /\ w.at = "ack" /\ w'.at = "thaw" /\ Kept
      BY <1>0, <1>4, <2>0, StepKeeps DEF SendAck
    <2>2. chan' \in Chans /\ chan'.go = chan.go /\ chan'.finished = chan.finished
      BY <1>0, <1>4, ChanUpdate DEF SendAck
    <2>3. /\ UNCHANGED <<unit, coord, work, status, exit, stray, launcher>>
          /\ UNCHANGED <<other, lock>>
      BY <1>4 DEF SendAck
    <2>5. TypeOK' /\ ScopeInv'
      BY <2>1, <2>2, <2>3 DEF Inv, TypeOK, ScopeTypeOK, ScopeInv, Finished, Kept
    <2>6. PinInv'
      BY <2>1, <2>2, <2>3 DEF Inv, PinInv, Identified, Collected, CapturedSites,
         Unlaunched, Unbound, Bound, Over, Kept
    <2>7. DrainInv'
      BY <2>1, <2>2, <2>3 DEF Inv, DrainInv, Collected, CapturedSites, Unlaunched,
         Unbound, Bound, Over, Kept
    <2>8. LockInv'
      BY <2>1, <2>2, <2>3 DEF Inv, LockInv, ReleasedMeansEmpty, Joined, Over, Kept
    <2>9. ResultInv'
      BY <2>1, <2>2, <2>3 DEF Inv, TypeOK, ScopeTypeOK, ResultInv, Collected,
         CapturedSites, ExitSites, RunSites, Genuine, Kept
    <2> QED BY <2>5, <2>6, <2>7, <2>8, <2>9 DEF Inv
  <1> QED BY <1>1, <1>2, <1>3, <1>4

LEMMA FinalSteps ==
  ASSUME Inv, WaitLauncher \/ Drain \/ Replay \/ Fail
  PROVE  Inv'
  <1> USE DEF NoProcess, NoPayload, Coordinating, Working
  <1>0. w \in Waiters /\ chan \in Chans /\ unit \in Units
    BY DEF Inv, TypeOK, ScopeTypeOK
  <1>s. {"drain", "replay", "x_close"} \subseteq Sites
    BY DEF Sites, RunSites, ExitSites
  <1>1. CASE WaitLauncher
    <2>0. /\ w.at = "join" /\ launcher = "ended" /\ launcher' = "reaped"
          /\ UNCHANGED <<unit, coord, work, status, exit, stray, chan, other>>
          /\ UNCHANGED lock
      BY <1>1 DEF WaitLauncher
    <2>1. CASE w' = [w EXCEPT !.at = "drain"]
      <3>1. w' \in Waiters /\ w'.at = "drain" /\ Kept
        BY <1>0, <1>s, <2>1 DEF Waiters, Kept
      <3>5. TypeOK' /\ ScopeInv'
        BY <2>0, <3>1 DEF Inv, TypeOK, ScopeTypeOK, ScopeInv, Finished, Kept
      <3>6. PinInv'
        BY <2>0, <3>1 DEF Inv, PinInv, Identified, Collected, CapturedSites,
           Unlaunched, Unbound, Bound, Over, Kept
      <3>7. DrainInv'
        BY <2>0, <3>1 DEF Inv, DrainInv, Collected, CapturedSites, Unlaunched,
           Unbound, Bound, Over, Kept
      <3>8. LockInv'
        BY <2>0, <3>1 DEF Inv, LockInv, ReleasedMeansEmpty, Joined, Over, Kept
      <3>9. ResultInv'
        BY <2>0, <3>1 DEF Inv, TypeOK, ScopeTypeOK, ResultInv, Collected,
           CapturedSites, ExitSites, RunSites, Genuine, Kept
      <3> QED BY <3>5, <3>6, <3>7, <3>8, <3>9 DEF Inv
    <2>2. CASE w' = Abandoned
      <3>1. /\ w' \in Waiters /\ w'.at = "x_close" /\ w'.infra
            /\ w'.signal = w.signal /\ w'.pin = w.pin /\ w'.pinned = w.pinned
            /\ w'.launched = w.launched /\ w'.drained = w.drained
        BY <1>0, <2>2, AbandonKeeps
      <3>5. TypeOK' /\ ScopeInv'
        BY <2>0, <3>1 DEF Inv, TypeOK, ScopeTypeOK, ScopeInv, Finished, Joined
      <3>6. PinInv'
        BY <2>0, <3>1 DEF Inv, PinInv, Identified, Collected, CapturedSites,
           Unlaunched, Unbound, Bound, Over, Joined
      <3>7. DrainInv'
        BY <2>0, <3>1 DEF Inv, DrainInv, Collected, CapturedSites, Unlaunched,
           Unbound, Bound, Over, Joined
      <3>8. LockInv'
        BY <2>0, <3>1 DEF Inv, LockInv, ReleasedMeansEmpty, Joined, Over, Joined
      <3>9. ResultInv'
        BY <2>0, <3>1 DEF Inv, TypeOK, ScopeTypeOK, ResultInv, Collected,
           CapturedSites, ExitSites, RunSites, Genuine, Joined
      <3> QED BY <3>5, <3>6, <3>7, <3>8, <3>9 DEF Inv
    <2> QED BY <1>1, <2>1, <2>2 DEF WaitLauncher
  <1>2. CASE Drain
    <2>1. /\ w' \in Waiters /\ w.at = "drain" /\ w'.at = "replay" /\ w'.drained
          /\ w'.pin = w.pin /\ w'.pinned = w.pinned
          /\ w'.launched = w.launched /\ w'.result = w.result
          /\ UNCHANGED <<scope, lock>>
      BY <1>0, <1>s, <1>2 DEF Waiters, Drain
    <2>2. NoProcess /\ coord.at = "ended"
      BY <1>2 DEF Drain, Empty, Identified, Inv, PinInv, ScopeInv
    <2>5. TypeOK' /\ ScopeInv'
      BY <2>1, <2>2 DEF Inv, TypeOK, ScopeTypeOK, ScopeInv, Finished, scope
    <2>6. PinInv'
      BY <2>1, <2>2 DEF Inv, PinInv, Identified, Collected, CapturedSites,
         Unlaunched, Unbound, Bound, Over, scope
    <2>7. DrainInv'
      BY <2>1, <2>2 DEF Inv, DrainInv, Collected, CapturedSites, Unlaunched,
         Unbound, Bound, Over, scope
    <2>8. LockInv'
      BY <2>1, <2>2 DEF Inv, LockInv, ReleasedMeansEmpty, Joined, Over, scope
    <2>9. ResultInv'
      BY <2>1, <2>2 DEF Inv, TypeOK, ScopeTypeOK, ResultInv, Collected,
         CapturedSites, ExitSites, RunSites, Genuine, scope
    <2> QED BY <2>5, <2>6, <2>7, <2>8, <2>9 DEF Inv
  <1>3. CASE Replay
    <2>1. /\ w' \in Waiters /\ w.at = "replay" /\ w'.at = "x_close"
          /\ w'.pin = w.pin /\ w'.pinned = w.pinned /\ w'.drained = w.drained
          /\ w'.launched = w.launched /\ w'.code = w.result
          /\ UNCHANGED <<scope, lock>>
      BY <1>0, <1>s, <1>3 DEF Waiters, Replay
    <2>2. Genuine(w.result)
      BY <2>1 DEF Inv, ResultInv, DrainInv, Genuine, Collected, CapturedSites
    <2>5. TypeOK' /\ ScopeInv'
      BY <2>1, <2>2 DEF Inv, TypeOK, ScopeTypeOK, ScopeInv, Finished, scope
    <2>6. PinInv'
      BY <2>1, <2>2 DEF Inv, PinInv, Identified, Collected, CapturedSites,
         Unlaunched, Unbound, Bound, Over, scope
    <2>7. DrainInv'
      BY <2>1, <2>2 DEF Inv, DrainInv, Collected, CapturedSites, Unlaunched,
         Unbound, Bound, Over, scope
    <2>8. LockInv'
      BY <2>1, <2>2 DEF Inv, LockInv, ReleasedMeansEmpty, Joined, Over, scope
    <2>9. ResultInv'
      BY <2>1, <2>2 DEF Inv, TypeOK, ScopeTypeOK, ResultInv, Collected,
         CapturedSites, ExitSites, RunSites, Genuine, scope
    <2> QED BY <2>5, <2>6, <2>7, <2>8, <2>9 DEF Inv
  <1>4. CASE Fail
    <2>1. /\ w' \in Waiters /\ w'.at = "x_close" /\ w'.infra
          /\ w'.signal = w.signal /\ w'.pin = w.pin /\ w'.pinned = w.pinned
          /\ w'.launched = w.launched /\ w'.drained = w.drained
      BY <1>0, <1>4, AbandonKeeps DEF Fail
    <2>2. w.at \in RunSites /\ UNCHANGED <<scope, lock>>
      BY <1>4 DEF Fail
    <2>3. w.at \notin {"lock", "x_code"} \cup Over
      BY <2>2 DEF RunSites, Over
    <2>5. TypeOK' /\ ScopeInv'
      BY <2>1, <2>2, <2>3 DEF Inv, TypeOK, ScopeTypeOK, ScopeInv, Finished, scope
    <2>6. PinInv'
      BY <2>1, <2>2, <2>3 DEF Inv, PinInv, Identified, Collected, CapturedSites,
         Unlaunched, Unbound, Bound, Over, scope
    <2>7. DrainInv'
      BY <2>1, <2>2, <2>3 DEF Inv, DrainInv, Collected, CapturedSites, Unlaunched,
         Unbound, Bound, Over, scope
    <2>8. LockInv'
      BY <2>1, <2>2, <2>3 DEF Inv, LockInv, ReleasedMeansEmpty, Joined, Over, scope
    <2>9. ResultInv'
      BY <2>1, <2>2, <2>3 DEF Inv, TypeOK, ScopeTypeOK, ResultInv, Collected,
         CapturedSites, ExitSites, RunSites, Genuine, scope
    <2> QED BY <2>5, <2>6, <2>7, <2>8, <2>9 DEF Inv
  <1> QED BY <1>1, <1>2, <1>3, <1>4

\* A kill through the pinned descriptor reaches the own scope only.
LEMMA KillMoves ==
  ASSUME Inv, w.pinned, KillWrite
  PROVE  /\ unit' \in Units /\ unit'.at = unit.at
         /\ unit'.freeze = unit.freeze /\ unit'.frozen = unit.frozen
         /\ unit'.oom = unit.oom /\ other' = other
  <1>1. unit \in Units /\ w.pin = "own"
    BY DEF Inv, TypeOK, ScopeTypeOK, PinInv, Identified
  <1> DEFINE d == ~NoProcess
  <1>2. d \in BOOLEAN /\ unit' = [unit EXCEPT !.doomed = d] /\ other' = other
    BY <1>1 DEF KillWrite, NoProcess
  <1> HIDE DEF d
  <1> QED BY <1>1, <1>2 DEF Units

LEMMA HangUpMoves ==
  ASSUME chan \in Chans, HangUp
  PROVE  /\ chan' \in Chans /\ chan'.go = chan.go
         /\ chan'.finished = chan.finished
  BY DEF Chans, HangUp

LEMMA ExitSteps ==
  ASSUME Inv,
         CloseControls \/ KillOwned \/ DrainKilled \/ JoinLauncher
  PROVE  Inv'
  <1> USE DEF NoProcess, NoPayload, Coordinating, Working
  <1>0. w \in Waiters /\ chan \in Chans /\ unit \in Units
    BY DEF Inv, TypeOK, ScopeTypeOK
  <1>s. {"x_kill", "x_drain", "x_wait", "x_release"} \subseteq Sites
    BY DEF Sites, ExitSites
  <1>b. w.infra \in BOOLEAN /\ w.drained \in BOOLEAN
    BY <1>0 DEF Waiters
  <1>1. CASE CloseControls
    <2>1. /\ w.at = "x_close"
          /\ UNCHANGED <<unit, coord, work, status, exit, stray, launcher>>
          /\ UNCHANGED <<other, lock>>
      BY <1>1 DEF CloseControls
    <2>2. /\ chan' \in Chans /\ chan'.go = chan.go
          /\ chan'.finished = chan.finished
      BY <1>0, <1>1, HangUpMoves DEF CloseControls
    <2> DEFINE a == IF w.pinned /\ ~w.drained THEN "x_kill" ELSE "x_wait"
               d == w.drained \/ (~w.pinned /\ ~w.launched)
    <2>3. /\ a \in Sites /\ d \in BOOLEAN /\ a \in {"x_kill", "x_wait"}
          /\ a = "x_kill" => w.pinned
          /\ d => w.drained \/ ~w.launched
      BY <1>s, <1>b
    <2>4. w' = [w EXCEPT !.at = a, !.drained = d]
      BY <1>1 DEF CloseControls
    <2> HIDE DEF a, d
    <2>a. /\ w' \in Waiters /\ w'.at = a /\ w'.drained = d /\ w'.pin = w.pin
          /\ w'.pinned = w.pinned /\ w'.launched = w.launched
          /\ w'.infra = w.infra /\ w'.code = w.code
      BY <1>0, <2>3, <2>4 DEF Waiters
    <2>b. launcher = "none" => NoProcess
      BY <2>1 DEF Inv, ScopeInv, DrainInv, PinInv, Over
    <2>5. TypeOK' /\ ScopeInv'
      BY <2>1, <2>2, <2>3, <2>a, <2>b DEF Inv, TypeOK, ScopeTypeOK, ScopeInv, Finished, scope
    <2>6. PinInv'
      BY <2>1, <2>2, <2>3, <2>a, <2>b DEF Inv, PinInv, Identified, Collected, CapturedSites,
         Unlaunched, Unbound, Bound, Over, scope
    <2>7. DrainInv'
      BY <2>1, <2>2, <2>3, <2>a, <2>b DEF Inv, DrainInv, Collected, CapturedSites, Unlaunched,
         Unbound, Bound, Over, scope
    <2>8. LockInv'
      BY <2>1, <2>2, <2>3, <2>a, <2>b DEF Inv, LockInv, ReleasedMeansEmpty, Joined, Over, scope
    <2>9. ResultInv'
      BY <2>1, <2>2, <2>3, <2>a, <2>b DEF Inv, TypeOK, ScopeTypeOK, ResultInv, Collected,
         CapturedSites, ExitSites, RunSites, Genuine, scope
    <2> QED BY <2>5, <2>6, <2>7, <2>8, <2>9 DEF Inv
  <1>2. CASE KillOwned
    <2>1. /\ w.at = "x_kill" /\ w.pinned
          /\ UNCHANGED <<coord, work, status, exit, stray, launcher, chan>>
          /\ UNCHANGED lock
      BY <1>2 DEF KillOwned, Inv, PinInv
    <2>2. /\ unit' \in Units /\ unit'.at = unit.at
          /\ unit'.freeze = unit.freeze /\ unit'.frozen = unit.frozen
          /\ unit'.oom = unit.oom /\ other' = other
      <3>1. CASE UNCHANGED <<unit, other>>
        BY <1>0, <3>1
      <3>2. CASE KillWrite
        BY <2>1, <3>2, KillMoves
      <3> QED BY <1>2, <3>1, <3>2 DEF KillOwned
    <2>3. PICK i \in BOOLEAN : /\ w' = [w EXCEPT !.at = "x_drain", !.infra = i]
                               /\ w.infra => i
      <3>1. CASE w' = [w EXCEPT !.at = "x_drain"]
        <4>1. w' = [w EXCEPT !.at = "x_drain", !.infra = w.infra]
          BY <1>0, <3>1 DEF Waiters
        <4> QED BY <1>b, <4>1
      <3>2. ASSUME NEW retired \in {FALSE, Identified /\ unit.at = "gone"},
                   w' = [w EXCEPT !.at = "x_drain", !.infra = @ \/ ~retired]
            PROVE  \E i \in BOOLEAN :
                     /\ w' = [w EXCEPT !.at = "x_drain", !.infra = i]
                     /\ w.infra => i
        <4>1. (w.infra \/ ~retired) \in BOOLEAN
          OBVIOUS
        <4> QED BY <3>2, <4>1
      <3> QED BY <1>2, <3>1, <3>2 DEF KillOwned
    <2>4. /\ w' \in Waiters /\ w'.at = "x_drain" /\ w'.drained = w.drained
          /\ w'.pin = w.pin /\ w'.pinned = w.pinned
          /\ w'.launched = w.launched /\ w'.infra = i /\ w'.code = w.code
      BY <1>0, <1>s, <2>3 DEF Waiters
    <2>5. TypeOK' /\ ScopeInv'
      BY <2>1, <2>2, <2>3, <2>4 DEF Inv, TypeOK, ScopeTypeOK, ScopeInv, Finished, scope
    <2>6. PinInv'
      BY <2>1, <2>2, <2>3, <2>4 DEF Inv, PinInv, Identified, Collected, CapturedSites,
         Unlaunched, Unbound, Bound, Over, scope
    <2>7. DrainInv'
      BY <2>1, <2>2, <2>3, <2>4 DEF Inv, DrainInv, Collected, CapturedSites, Unlaunched,
         Unbound, Bound, Over, scope
    <2>8. LockInv'
      BY <2>1, <2>2, <2>3, <2>4 DEF Inv, LockInv, ReleasedMeansEmpty, Joined, Over, scope
    <2>9. ResultInv'
      BY <2>1, <2>2, <2>3, <2>4 DEF Inv, TypeOK, ScopeTypeOK, ResultInv, Collected,
         CapturedSites, ExitSites, RunSites, Genuine, scope
    <2> QED BY <2>5, <2>6, <2>7, <2>8, <2>9 DEF Inv
  <1>3. CASE DrainKilled
    <2>1. /\ w.at = "x_drain" /\ w.pinned /\ UNCHANGED <<scope, lock>>
      BY <1>3 DEF DrainKilled, Inv, PinInv
    <2>2. CASE Empty /\ w' = [w EXCEPT !.at = "x_wait", !.drained = TRUE]
      <3>1. NoProcess /\ coord.at = "ended"
        BY <2>2 DEF Empty, Identified, Inv, PinInv, ScopeInv
      <3>2. /\ w' \in Waiters /\ w'.at = "x_wait" /\ w'.drained
            /\ w'.pin = w.pin /\ w'.pinned = w.pinned
            /\ w'.launched = w.launched /\ w'.infra = w.infra
            /\ w'.code = w.code
        BY <1>0, <1>s, <2>2 DEF Waiters
      <3>5. TypeOK' /\ ScopeInv'
        BY <2>1, <3>1, <3>2 DEF Inv, TypeOK, ScopeTypeOK, ScopeInv, Finished, scope
      <3>6. PinInv'
        BY <2>1, <3>1, <3>2 DEF Inv, PinInv, Identified, Collected, CapturedSites,
           Unlaunched, Unbound, Bound, Over, scope
      <3>7. DrainInv'
        BY <2>1, <3>1, <3>2 DEF Inv, DrainInv, Collected, CapturedSites, Unlaunched,
           Unbound, Bound, Over, scope
      <3>8. LockInv'
        BY <2>1, <3>1, <3>2 DEF Inv, LockInv, ReleasedMeansEmpty, Joined, Over, scope
      <3>9. ResultInv'
        BY <2>1, <3>1, <3>2 DEF Inv, TypeOK, ScopeTypeOK, ResultInv, Collected,
           CapturedSites, ExitSites, RunSites, Genuine, scope
      <3> QED BY <3>5, <3>6, <3>7, <3>8, <3>9 DEF Inv
    <2>3. CASE w' = [w EXCEPT !.at = "x_wait", !.infra = TRUE]
      <3>1. /\ w' \in Waiters /\ w'.at = "x_wait" /\ w'.drained = w.drained
            /\ w'.pin = w.pin /\ w'.pinned = w.pinned
            /\ w'.launched = w.launched /\ w'.infra
        BY <1>0, <1>s, <2>3 DEF Waiters
      <3>5. TypeOK' /\ ScopeInv'
        BY <2>1, <3>1 DEF Inv, TypeOK, ScopeTypeOK, ScopeInv, Finished, scope
      <3>6. PinInv'
        BY <2>1, <3>1 DEF Inv, PinInv, Identified, Collected, CapturedSites,
           Unlaunched, Unbound, Bound, Over, scope
      <3>7. DrainInv'
        BY <2>1, <3>1 DEF Inv, DrainInv, Collected, CapturedSites, Unlaunched,
           Unbound, Bound, Over, scope
      <3>8. LockInv'
        BY <2>1, <3>1 DEF Inv, LockInv, ReleasedMeansEmpty, Joined, Over, scope
      <3>9. ResultInv'
        BY <2>1, <3>1 DEF Inv, TypeOK, ScopeTypeOK, ResultInv, Collected,
           CapturedSites, ExitSites, RunSites, Genuine, scope
      <3> QED BY <3>5, <3>6, <3>7, <3>8, <3>9 DEF Inv
    <2> QED BY <1>3, <2>2, <2>3 DEF DrainKilled
  <1>4. CASE JoinLauncher
    <2>0. "x_release" \in Sites
      BY <1>s
    <2>1. w' \in Waiters /\ w.at = "x_wait" /\ w'.at = "x_release" /\ Kept
      BY <1>0, <1>4, <2>0, StepKeeps DEF JoinLauncher, Waiters, Kept
    <2>2. /\ chan' \in Chans /\ chan'.go = chan.go
          /\ chan'.finished = chan.finished
      BY <1>0, <1>4, HangUpMoves DEF JoinLauncher
    <2>3. /\ UNCHANGED <<unit, coord, work, status, exit, stray, other, lock>>
          /\ launcher # "run" /\ launcher' \in {"none", "reaped"}
          /\ launcher' = "none" <=> launcher = "none"
      BY <1>4 DEF JoinLauncher, Joined, Inv, TypeOK, ScopeTypeOK
    <2>5. TypeOK' /\ ScopeInv'
      BY <2>1, <2>2, <2>3 DEF Inv, TypeOK, ScopeTypeOK, ScopeInv, Finished, Kept
    <2>6. PinInv'
      BY <2>1, <2>2, <2>3 DEF Inv, PinInv, Identified, Collected, CapturedSites,
         Unlaunched, Unbound, Bound, Over, Kept
    <2>7. DrainInv'
      BY <2>1, <2>2, <2>3 DEF Inv, DrainInv, Collected, CapturedSites, Unlaunched,
         Unbound, Bound, Over, Kept
    <2>8. LockInv'
      BY <2>1, <2>2, <2>3 DEF Inv, LockInv, ReleasedMeansEmpty, Joined, Over, Kept
    <2>9. ResultInv'
      BY <2>1, <2>2, <2>3 DEF Inv, TypeOK, ScopeTypeOK, ResultInv, Collected,
         CapturedSites, ExitSites, RunSites, Genuine, Kept
    <2> QED BY <2>5, <2>6, <2>7, <2>8, <2>9 DEF Inv
  <1> QED BY <1>1, <1>2, <1>3, <1>4

LEMMA LastSteps ==
  ASSUME Inv, Release \/ Exit \/ Crash
  PROVE  Inv'
  <1> USE DEF NoProcess, NoPayload, Coordinating, Working
  <1>0. w \in Waiters /\ chan \in Chans
    BY DEF Inv, TypeOK, ScopeTypeOK
  <1>1. CASE Release
    <2>0. "x_code" \in Sites /\ w.infra \in BOOLEAN
      BY <1>0 DEF Sites, ExitSites, Waiters
    <2>1. CASE w.drained /\ Joined
      <3>1. PICK removed \in BOOLEAN, clean \in BOOLEAN :
              /\ lock' = IF removed THEN "free" ELSE lock
              /\ w' = [w EXCEPT !.at = "x_code", !.pinned = FALSE,
                         !.pin = "none", !.infra = @ \/ ~removed \/ ~clean]
        BY <1>1, <2>1 DEF Release
      <3> DEFINE b == w.infra \/ ~removed \/ ~clean
      <3>2. b \in BOOLEAN /\ (b \/ lock' = "free") /\ (w.infra => b)
        BY <2>0, <3>1
      <3>3. w' = [w EXCEPT !.at = "x_code", !.pinned = FALSE,
                           !.pin = "none", !.infra = b]
        BY <3>1
      <3> HIDE DEF b
      <3>4. /\ w' \in Waiters /\ w'.at = "x_code" /\ w'.drained = w.drained
            /\ w'.pin = "none" /\ ~w'.pinned /\ w'.launched = w.launched
            /\ w'.infra = b /\ w'.code = w.code
        BY <1>0, <2>0, <3>2, <3>3 DEF Waiters
      <3>a. /\ w.at = "x_release" /\ UNCHANGED scope
            /\ lock = "mine" /\ lock' \in {"free", "mine"}
        BY <1>1, <3>1 DEF Release, Inv, LockInv, Over
      <3>b. NoProcess
        BY <2>1 DEF Inv, DrainInv
      <3>5. TypeOK' /\ ScopeInv'
        BY <2>1, <3>2, <3>4, <3>a, <3>b DEF Inv, TypeOK, ScopeTypeOK, ScopeInv, Finished, scope
      <3>6. PinInv'
        BY <2>1, <3>2, <3>4, <3>a, <3>b DEF Inv, PinInv, Identified, Collected, CapturedSites,
           Unlaunched, Unbound, Bound, Over, scope
      <3>7. DrainInv'
        BY <2>1, <3>2, <3>4, <3>a, <3>b DEF Inv, DrainInv, Collected, CapturedSites, Unlaunched,
           Unbound, Bound, Over, scope
      <3>8. LockInv'
        BY <2>1, <3>2, <3>4, <3>a, <3>b DEF Inv, LockInv, ReleasedMeansEmpty, Joined, Over, scope
      <3>9. ResultInv'
        BY <2>1, <3>2, <3>4, <3>a, <3>b DEF Inv, TypeOK, ScopeTypeOK, ResultInv, Collected,
           CapturedSites, ExitSites, RunSites, Genuine, scope
      <3> QED BY <3>5, <3>6, <3>7, <3>8, <3>9 DEF Inv
    <2>2. CASE ~(w.drained /\ Joined)
      <3>1. /\ w.at = "x_release" /\ UNCHANGED <<scope, lock>>
            /\ w' = [w EXCEPT !.at = "x_code", !.infra = TRUE]
        BY <1>1, <2>2 DEF Release
      <3>2. /\ w' \in Waiters /\ w'.at = "x_code" /\ w'.drained = w.drained
            /\ w'.pin = w.pin /\ w'.pinned = w.pinned
            /\ w'.launched = w.launched /\ w'.infra
        BY <1>0, <2>0, <3>1 DEF Waiters
      <3>5. TypeOK' /\ ScopeInv'
        BY <3>1, <3>2 DEF Inv, TypeOK, ScopeTypeOK, ScopeInv, Finished, scope
      <3>6. PinInv'
        BY <3>1, <3>2 DEF Inv, PinInv, Identified, Collected, CapturedSites,
           Unlaunched, Unbound, Bound, Over, scope
      <3>7. DrainInv'
        BY <3>1, <3>2 DEF Inv, DrainInv, Collected, CapturedSites, Unlaunched,
           Unbound, Bound, Over, scope
      <3>8. LockInv'
        BY <3>1, <3>2 DEF Inv, LockInv, ReleasedMeansEmpty, Joined, Over, scope
      <3>9. ResultInv'
        BY <3>1, <3>2 DEF Inv, TypeOK, ScopeTypeOK, ResultInv, Collected,
           CapturedSites, ExitSites, RunSites, Genuine, scope
      <3> QED BY <3>5, <3>6, <3>7, <3>8, <3>9 DEF Inv
    <2> QED BY <2>1, <2>2
  <1>2. CASE Exit
    <2>0. PICK written \in BOOLEAN :
            w' = Waiter("ended", IF w.signal THEN Interrupted
                                 ELSE IF w.infra \/ ~written THEN Infra
                                 ELSE w.code)
      BY <1>2 DEF Exit
    <2> DEFINE c == IF w.signal THEN Interrupted
                    ELSE IF w.infra \/ ~written THEN Infra ELSE w.code
    <2>1. /\ w.at = "x_code" /\ UNCHANGED <<scope, lock>>
          /\ w' = Waiter("ended", c)
      BY <1>2, <2>0 DEF Exit
    <2>2. "ended" \in Sites /\ c \in 0 .. 255
      BY <1>0 DEF Sites, Over, Waiters, Interrupted, Infra
    <2>3. c \notin {Infra, Interrupted} => ~w.infra /\ c = w.code
      OBVIOUS
    <2> HIDE DEF c
    <2>4. /\ w' \in Waiters /\ w'.at = "ended" /\ w'.code = c /\ w'.pin = "none"
          /\ ~w'.pinned /\ ~w'.launched /\ ~w'.drained
      BY <2>1, <2>2, WaiterFacts
    <2>5. TypeOK' /\ ScopeInv'
      BY <2>1, <2>3, <2>4 DEF Inv, TypeOK, ScopeTypeOK, ScopeInv, Finished, scope
    <2>6. PinInv'
      BY <2>1, <2>3, <2>4 DEF Inv, PinInv, Identified, Collected, CapturedSites,
         Unlaunched, Unbound, Bound, Over, scope
    <2>7. DrainInv'
      BY <2>1, <2>3, <2>4 DEF Inv, DrainInv, Collected, CapturedSites, Unlaunched,
         Unbound, Bound, Over, scope
    <2>8. LockInv'
      BY <2>1, <2>3, <2>4 DEF Inv, LockInv, ReleasedMeansEmpty, Joined, Over, scope
    <2>9. ResultInv'
      BY <2>1, <2>3, <2>4 DEF Inv, TypeOK, ScopeTypeOK, ResultInv, Collected,
         CapturedSites, ExitSites, RunSites, Genuine, scope
    <2> QED BY <2>5, <2>6, <2>7, <2>8, <2>9 DEF Inv
  <1>3. CASE Crash
    <2>1. /\ w' = Waiter("crashed", 0) /\ w.at \notin {"lock"} \cup Over
          /\ UNCHANGED <<unit, coord, work, status, exit, stray, launcher>>
          /\ UNCHANGED <<other, lock>>
      BY <1>3 DEF Crash, Trapping, RunSites, ExitSites, Over
    <2>2. /\ chan' \in Chans /\ chan'.go = chan.go
          /\ chan'.finished = chan.finished
      BY <1>0, <1>3, HangUpMoves DEF Crash
    <2>3. /\ w' \in Waiters /\ w'.at = "crashed" /\ w'.pin = "none"
          /\ ~w'.pinned /\ ~w'.launched /\ ~w'.drained
      <3>1. "crashed" \in Sites /\ 0 \in 0 .. 255
        BY DEF Sites, Over
      <3> QED BY <2>1, <3>1, WaiterFacts
    <2>5. TypeOK' /\ ScopeInv'
      BY <2>1, <2>2, <2>3 DEF Inv, TypeOK, ScopeTypeOK, ScopeInv, Finished, scope
    <2>6. PinInv'
      BY <2>1, <2>2, <2>3 DEF Inv, PinInv, Identified, Collected, CapturedSites,
         Unlaunched, Unbound, Bound, Over, scope
    <2>7. DrainInv'
      BY <2>1, <2>2, <2>3 DEF Inv, DrainInv, Collected, CapturedSites, Unlaunched,
         Unbound, Bound, Over, scope
    <2>8. LockInv'
      BY <2>1, <2>2, <2>3 DEF Inv, LockInv, ReleasedMeansEmpty, Joined, Over, scope
    <2>9. ResultInv'
      BY <2>1, <2>2, <2>3 DEF Inv, TypeOK, ScopeTypeOK, ResultInv, Collected,
         CapturedSites, ExitSites, RunSites, Genuine, scope
    <2> QED BY <2>5, <2>6, <2>7, <2>8, <2>9 DEF Inv
  <1> QED BY <1>1, <1>2, <1>3

\* A signal changes no place, and kills at most the own scope.
LEMMA SignalStep ==
  ASSUME Inv, OnSignal
  PROVE  Inv'
  <1> USE DEF NoProcess, NoPayload, Coordinating, Working
  <1>0. w \in Waiters /\ unit \in Units
    BY DEF Inv, TypeOK, ScopeTypeOK
  <1>1. /\ UNCHANGED <<coord, work, status, exit, stray, launcher, chan, lock>>
        /\ w.at \notin {"lock"} \cup Over
    BY DEF OnSignal, Trapping, RunSites, ExitSites, Over
  <1>2. /\ unit' \in Units /\ unit'.at = unit.at
        /\ unit'.freeze = unit.freeze /\ unit'.frozen = unit.frozen
        /\ unit'.oom = unit.oom /\ other' = other
    <2>1. CASE UNCHANGED <<unit, other>>
      BY <1>0, <2>1
    <2>2. CASE w.pinned /\ KillWrite
      BY <2>2, KillMoves
    <2> QED BY <2>1, <2>2 DEF OnSignal
  <1>3. \/ w' = [w EXCEPT !.signal = TRUE]
        \/ w' = [w EXCEPT !.signal = TRUE, !.infra = TRUE]
    BY DEF OnSignal
  <1>4. /\ w' \in Waiters /\ w'.at = w.at /\ w'.drained = w.drained
        /\ w'.pin = w.pin /\ w'.pinned = w.pinned
        /\ w'.launched = w.launched /\ (w.infra => w'.infra)
        /\ w'.code = w.code /\ w'.result = w.result
    BY <1>0, <1>3 DEF Waiters
  <1>5. TypeOK' /\ ScopeInv'
    BY <1>1, <1>2, <1>4 DEF Inv, TypeOK, ScopeTypeOK, ScopeInv, Finished, scope
  <1>6. PinInv'
    BY <1>1, <1>2, <1>4 DEF Inv, PinInv, Identified, Collected, CapturedSites,
       Unlaunched, Unbound, Bound, Over, scope
  <1>7. DrainInv'
    BY <1>1, <1>2, <1>4 DEF Inv, DrainInv, Collected, CapturedSites, Unlaunched,
       Unbound, Bound, Over, scope
  <1>8. LockInv'
    BY <1>1, <1>2, <1>4 DEF Inv, LockInv, ReleasedMeansEmpty, Joined, Over, scope
  <1>9. ResultInv'
    BY <1>1, <1>2, <1>4 DEF Inv, TypeOK, ScopeTypeOK, ResultInv, Collected,
       CapturedSites, ExitSites, RunSites, Genuine, scope
  <1> QED BY <1>5, <1>6, <1>7, <1>8, <1>9 DEF Inv
(***************************************************************************)
(* The invariant and what follows from it                                  *)
(***************************************************************************)
LEMMA InitInv == Init => Inv
  <1> SUFFICES ASSUME Init PROVE Inv
    OBVIOUS
  <1> USE DEF Init, ScopeInit, NoProcess, NoPayload, Coordinating, Working
  <1>1. /\ w \in Waiters /\ w.at = "lock" /\ ~w.pinned /\ ~w.drained
        /\ w.pin = "none" /\ ~w.launched
    BY DEF Waiter, Waiters, Sites
  <1>2. ScopeTypeOK
    BY ScopeAssumption DEF ScopeTypeOK, Units, Coords, Chans, Group
  <1>3. TypeOK
    BY <1>1, <1>2 DEF TypeOK
  <1>4. ScopeInv
    BY DEF ScopeInv, Finished
  <1>5. PinInv
    BY <1>1 DEF PinInv, Identified, Collected, CapturedSites, Unlaunched,
       Unbound, Bound, Over
  <1>6. DrainInv
    BY <1>1 DEF DrainInv, Collected, CapturedSites, Unlaunched, Unbound,
       Bound, Over
  <1>7. LockInv
    BY <1>1 DEF LockInv, ReleasedMeansEmpty, Over
  <1>8. ResultInv
    BY <1>1 DEF ResultInv, Collected, CapturedSites, ExitSites
  <1> QED BY <1>3, <1>4, <1>5, <1>6, <1>7, <1>8 DEF Inv

LEMMA NextInv == Inv /\ [Next]_vars => Inv'
  <1> SUFFICES ASSUME Inv, [Next]_vars PROVE Inv'
    OBVIOUS
  <1>1. CASE WaiterStep
    BY <1>1, BeginSteps, ObserveSteps, BindSteps, CollectSteps, FinalSteps,
       ExitSteps, LastSteps DEF WaiterStep
  <1>2. CASE OnSignal
    BY <1>2, SignalStep
  <1>3. CASE Crash
    BY <1>3, LastSteps
  <1>4. CASE ScopeStep /\ UNCHANGED <<w, lock>>
    BY <1>4, ScopeKeeps
  <1>5. CASE UNCHANGED vars
    BY <1>5 DEF vars, scope, Inv, TypeOK, ScopeTypeOK, ScopeInv, PinInv,
       DrainInv, LockInv, ResultInv, ReleasedMeansEmpty, Joined, Genuine,
       Identified, Finished, NoProcess, NoPayload, Coordinating, Working
  <1> QED BY <1>1, <1>2, <1>3, <1>4, <1>5 DEF Next

LEMMA Invariant == Spec => []Inv
  BY InitInv, NextInv, PTL DEF Spec

\* The tier stays in states that the scripts, systemd and the kernel know,
\* for any number of groups and any exit codes.
THEOREM TypeCorrect == Spec => []TypeOK
  <1>1. Inv => TypeOK
    BY DEF Inv
  <1> QED BY <1>1, Invariant, PTL

\* _nqfc_on_exit gives the tier lock back only when the control group is
\* empty and the launcher has been waited for.
THEOREM ReleaseSafe == Spec => []ReleasedMeansEmpty
  <1>1. Inv => ReleasedMeansEmpty
    BY DEF Inv, LockInv
  <1> QED BY <1>1, Invariant, PTL

\* _nqfc_kill_owned kills only the scope that READY named, and _nqfc_run
\* sends GO only when it can.
THEOREM KillSafe == Spec => []KillPower
  <1>1. Inv => KillPower
    <2> SUFFICES ASSUME Inv PROVE KillPower
      OBVIOUS
    <2>1. ~NoPayload => chan.go
      BY DEF Inv, ScopeInv, NoPayload, Working
    <2> QED BY <2>1 DEF Inv, PinInv, KillPower, Over, NoProcess
  <1> QED BY <1>1, Invariant, PTL

\* The code with which the tier ends is that of the first failing group of a
\* complete and undisturbed run, and the resources were read when only the
\* coordinator was left.
THEOREM ResultSound == Spec => []ResultIsGenuine
  <1>1. Inv => ResultIsGenuine
    <2> SUFFICES ASSUME Inv PROVE ResultIsGenuine
      OBVIOUS
    <2>1. chan.finished => \A g \in Group : Finished(g)
      BY DEF Inv, ScopeInv
    <2>2. w.at \in CapturedSites => NoPayload
      BY <2>1 DEF Inv, ResultInv, Collected, CapturedSites, NoPayload,
         Working, Finished
    <2>3. w.at = "ended" /\ w.code \notin {Infra, Interrupted} =>
            lock = "free" /\ Genuine(w.code)
      BY DEF Inv, ResultInv
    <2> QED BY <2>1, <2>2, <2>3 DEF ResultIsGenuine, Genuine, Finished
  <1> QED BY <1>1, Invariant, PTL
=============================================================================
