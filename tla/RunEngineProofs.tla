-------------------------- MODULE RunEngineProofs --------------------------
(***************************************************************************)
(* Proofs about RunEngine for every set of Runs and every bound.           *)
(***************************************************************************)
EXTENDS RunEngine, TLAPS

-----------------------------------------------------------------------------
(* The records a transition writes are well-typed.                         *)

LEMMA MetaTypes ==
  /\ NoMeta \in Meta
  /\ \A m \in Meta : /\ ToPending(m) \in Meta
                     /\ ToRunning(m) \in Meta
                     /\ ToFailed(m) \in Meta
                     /\ \A w \in Waits : ToBlocked(m, w) \in Meta
                     /\ ToDone(m) \in Meta
                     /\ ToSkipped(m) \in Meta
                     /\ NoAttempts(m) \in Meta
                     /\ m.attempts < MaxAttempts => OneMoreAttempt(m) \in Meta
<1> USE EngineAssumption DEF Meta, Statuses, Waits
<1>1. NoMeta \in Meta
  BY DEF NoMeta
<1>2. ASSUME NEW m \in Meta
      PROVE  /\ ToPending(m) \in Meta
             /\ ToRunning(m) \in Meta
             /\ ToFailed(m) \in Meta
             /\ \A w \in Waits : ToBlocked(m, w) \in Meta
  BY <1>2 DEF ToPending, ToRunning, ToFailed, ToBlocked
<1>3. ASSUME NEW m \in Meta
      PROVE  /\ ToDone(m) \in Meta
             /\ ToSkipped(m) \in Meta
  BY <1>3 DEF ToDone, ToSkipped
<1>4. ASSUME NEW m \in Meta, m.attempts < MaxAttempts
      PROVE  OneMoreAttempt(m) \in Meta
  <2>1. m.attempts + 1 \in 0..MaxAttempts
    BY <1>4
  <2> QED
    BY <2>1 DEF OneMoreAttempt
<1>5. ASSUME NEW m \in Meta
      PROVE  NoAttempts(m) \in Meta
  <2>1. 0 \in 0..MaxAttempts
    OBVIOUS
  <2> QED
    BY <2>1 DEF NoAttempts
<1> QED
  BY <1>1, <1>2, <1>3, <1>4, <1>5

LEMMA OpTypes ==
  ASSUME NEW r \in Runs
  PROVE  /\ \A m \in Meta : MetaWrite(r, m) \in DiskOp
         /\ \A s \in Statuses \cup {"same"} : EventAppend(r, s) \in DiskOp
  BY DEF MetaWrite, EventAppend, DiskOp

LEMMA TransitionTypes ==
  ASSUME TypeOK, NEW r \in Runs
  PROVE  /\ Created(r) \in Seq(DiskOp)
         /\ Started(r) \in Seq(DiskOp)
         /\ Failed(r) \in Seq(DiskOp)
         /\ \A w \in Waits : Blocked(r, w) \in Seq(DiskOp)
         /\ Reopened(r) \in Seq(DiskOp)
         /\ ReopenedFromScratch(r) \in Seq(DiskOp)
         /\ Done(r) \in Seq(DiskOp)
         /\ Skipped(r) \in Seq(DiskOp)
         /\ meta[r].attempts < MaxAttempts => AttemptStarted(r) \in Seq(DiskOp)
         /\ <<EventAppend(r, "same")>> \in Seq(DiskOp)
<1>1. meta[r] \in Meta
  BY DEF TypeOK
<1>2. \A s \in {"pending", "running", "blocked", "failed", "done", "skipped", "same"} :
        EventAppend(r, s) \in DiskOp
  BY OpTypes DEF Statuses
<1>3. \A m \in Meta : MetaWrite(r, m) \in DiskOp
  BY OpTypes
<1> QED
  BY <1>1, <1>2, <1>3, MetaTypes
     DEF Created, Started, Failed, Blocked, Reopened, ReopenedFromScratch, Done, Skipped,
         AttemptStarted

LEMMA LineTypes ==
  ASSUME NEW tl \in Timeline, NEW s \in Statuses \cup {"same"}
  PROVE  AppendLine(tl, s) \in Timeline /\ TearLine(tl) \in Timeline
  BY DEF Timeline, Statuses, AppendLine, TearLine, Damaged

-----------------------------------------------------------------------------
(* Type correctness.                                                       *)

LEMMA TypeInit == Init => TypeOK
  BY EngineAssumption DEF Init, TypeOK, Meta, NoMeta, Timeline, Statuses, Waits, DiskOp

LEMMA EnqueueType ==
  ASSUME TypeOK, NEW r \in Runs, Enqueue(r)
  PROVE  active' \subseteq Runs /\ queue' \in Seq(Runs)
<1>1. queue \in Seq(Runs) /\ active \subseteq Runs
  BY DEF TypeOK
<1>2. Append(queue, r) \in Seq(Runs)
  BY <1>1
<1> QED
  BY <1>1, <1>2 DEF Enqueue

LEMMA TypeStep == TypeOK /\ [Next]_vars => TypeOK'
<1> SUFFICES ASSUME TypeOK, [Next]_vars PROVE TypeOK'
  OBVIOUS
<1> USE EngineAssumption
<1>1. ASSUME NEW r \in Runs, Request(r) \/ RecoverRun(r) PROVE TypeOK'
  <2>1. io' \in Seq(DiskOp)
    BY <1>1, TransitionTypes
       DEF Request, StartRun, RetryRun, RefuseRetry, ReenterRun, ResumeRun, RecoverRun
  <2>2. active' \subseteq Runs /\ queue' \in Seq(Runs)
    BY <1>1, EnqueueType
       DEF Request, StartRun, RetryRun, RefuseRetry, ReenterRun, ResumeRun, RecoverRun,
           volatile, TypeOK
  <2> QED
    BY <1>1, <2>1, <2>2
       DEF Request, StartRun, RetryRun, RefuseRetry, ReenterRun, ResumeRun, RecoverRun,
           volatile, TypeOK
<1>2. ASSUME NEW r \in Runs, ClockTick(r) PROVE TypeOK'
  <2>1. [meta[r] EXCEPT !.wait = "due"] \in Meta
    BY DEF TypeOK, Meta, Waits
  <2> QED
    BY <1>2, <2>1 DEF ClockTick, TypeOK, volatile
<1>3. CASE Execute
  BY <1>3 DEF Execute, TypeOK, Turn
<1>4. CASE ModuleStep
  <2>1. io' \in Seq(DiskOp)
    <3>1. exec \in Runs \/ UNCHANGED io
      BY <1>4 DEF ModuleStep, EnterStage, ModuleEvent, Attempt, LeaveStage, FailStage, WaitInStage,
         FinishRun, StopOutsideStage, Unwind, InModule, TypeOK
    <3> QED
      BY <1>4, <3>1, TransitionTypes
         DEF ModuleStep, EnterStage, ModuleEvent, Attempt, LeaveStage, FailStage, WaitInStage,
             FinishRun, StopOutsideStage, Unwind, InModule, TypeOK, Waits
  <2> QED
    BY <1>4, <2>1
       DEF ModuleStep, EnterStage, ModuleEvent, Attempt, LeaveStage, FailStage, WaitInStage,
           FinishRun, StopOutsideStage, Unwind, InModule, TypeOK, Release
<1>5. CASE DiskWrite
  <2> DEFINE op == Head(io)
  <2>1. op \in DiskOp /\ io' \in Seq(DiskOp)
    BY <1>5 DEF DiskWrite, TypeOK
  <2>2. CASE op.kind = "meta"
    <3>1. op.run \in Runs /\ op.to \in Meta
      BY <2>1, <2>2 DEF DiskOp
    <3> QED
      BY <1>5, <2>1, <2>2, <3>1 DEF DiskWrite, TypeOK, volatile
  <2>3. CASE op.kind # "meta"
    <3>1. op.run \in Runs /\ op.says \in Statuses \cup {"same"}
      BY <2>1, <2>3 DEF DiskOp
    <3>2. AppendLine(timeline[op.run], op.says) \in Timeline
      BY <3>1, LineTypes DEF TypeOK
    <3> QED
      BY <1>5, <2>1, <2>3, <3>1, <3>2 DEF DiskWrite, TypeOK, volatile
  <2> QED
    BY <2>2, <2>3
<1>6. CASE Crash
  <2>1. timeline' \in [Runs -> Timeline]
    <3>1. ASSUME io # <<>>, Head(io).kind = "event"
          PROVE  Head(io).run \in Runs
      BY <3>1 DEF TypeOK, DiskOp
    <3>2. \A tl \in Timeline : TearLine(tl) \in Timeline
      BY DEF TearLine, Timeline
    <3> QED
      BY <1>6, <3>1, <3>2 DEF Crash, TypeOK
  <2>2. /\ active' \subseteq Runs /\ queue' \in Seq(Runs) /\ io' \in Seq(DiskOp)
        /\ exec' \in Runs \cup {NoRun} /\ steps' \in 0..MaxSteps
    BY <1>6 DEF Crash
  <2> QED
    BY <1>6, <2>1, <2>2 DEF Crash, TypeOK
<1>7. CASE Restart
  BY <1>7 DEF Restart, TypeOK, volatile
<1>8. CASE SetupChanges
  BY <1>8 DEF SetupChanges, TypeOK, volatile
<1>9. CASE UNCHANGED vars
  BY <1>9 DEF vars, TypeOK
<1> QED
  BY <1>1, <1>2, <1>3, <1>4, <1>5, <1>6, <1>7, <1>8, <1>9 DEF Next

\* Every reachable state of the engine is well-typed.
THEOREM TypeCorrect == Spec => []TypeOK
  BY TypeInit, TypeStep, PTL DEF Spec

-----------------------------------------------------------------------------
(* Runner.active is exact.                                                 *)

LEMMA EnqueueExact ==
  ASSUME TypeOK, ActiveExact, NEW r \in Runs, Enqueue(r), UNCHANGED exec
  PROVE  ActiveExact'
<1>1. CASE r \in active
  BY <1>1 DEF Enqueue, ActiveExact
<1>2. CASE r \notin active
  <2>1. /\ queue' = Append(queue, r) /\ active' = active \cup {r}
        /\ queue \in Seq(Runs)
    BY <1>2 DEF Enqueue, TypeOK
  <2>2. /\ DOMAIN queue = 1..Len(queue) /\ Len(queue) \in Nat
        /\ DOMAIN queue' = 1..(Len(queue) + 1)
        /\ queue'[Len(queue) + 1] = r
        /\ \A i \in DOMAIN queue : queue'[i] = queue[i]
    BY <2>1
  <2>3. /\ r # exec
        /\ \A i \in DOMAIN queue : queue[i] # r
    BY <1>2, EngineAssumption DEF ActiveExact
  <2>4. \A i \in DOMAIN queue' : i \in DOMAIN queue \/ i = Len(queue) + 1
    BY <2>2
  <2>5. {queue'[i] : i \in DOMAIN queue'} = {queue[i] : i \in DOMAIN queue} \cup {r}
    BY <2>2, <2>4
  <2>6. \A i, j \in DOMAIN queue' : i # j => queue'[i] # queue'[j]
    BY <2>2, <2>3, <2>4 DEF ActiveExact
  <2>7. \A i \in DOMAIN queue' : queue'[i] # exec
    BY <2>2, <2>3, <2>4 DEF ActiveExact
  <2> QED
    BY <2>1, <2>5, <2>6, <2>7 DEF ActiveExact
<1> QED
  BY <1>1, <1>2

LEMMA ExactStep == TypeOK /\ ActiveExact /\ [Next]_vars => ActiveExact'
<1> SUFFICES ASSUME TypeOK, ActiveExact, [Next]_vars PROVE ActiveExact'
  OBVIOUS
<1>1. ASSUME NEW r \in Runs, Request(r) \/ RecoverRun(r) PROVE ActiveExact'
  <2>1. CASE RefuseRetry(r)
    BY <2>1 DEF RefuseRetry, volatile, ActiveExact
  <2>2. CASE ~RefuseRetry(r)
    <3>1. Enqueue(r) /\ UNCHANGED exec
      BY <1>1, <2>2 DEF Request, StartRun, RetryRun, ReenterRun, ResumeRun, RecoverRun
    <3> QED
      BY <3>1, EnqueueExact
  <2> QED
    BY <2>1, <2>2
<1>2. CASE Execute
  <2>1. /\ exec = NoRun /\ queue # <<>> /\ queue' = Tail(queue) /\ queue \in Seq(Runs)
        /\ \/ exec' = Head(queue) /\ active' = active
           \/ exec' = exec /\ active' = active \ {Head(queue)}
    BY <1>2 DEF Execute, TypeOK
  <2>2. /\ DOMAIN queue = 1..Len(queue) /\ Len(queue) \in Nat /\ Len(queue) # 0
        /\ Head(queue) = queue[1] /\ Head(queue) \in Runs
        /\ DOMAIN queue' = 1..(Len(queue) - 1)
        /\ \A i \in DOMAIN queue' : i + 1 \in DOMAIN queue /\ queue'[i] = queue[i + 1]
    BY <2>1
  <2>3. \A i \in DOMAIN queue : i = 1 \/ (i - 1 \in DOMAIN queue' /\ queue[i] = queue'[i - 1])
    BY <2>2
  <2>4. \A i \in DOMAIN queue' : queue'[i] # queue[1]
    BY <2>2 DEF ActiveExact
  <2>5. {queue[i] : i \in DOMAIN queue} = {queue'[i] : i \in DOMAIN queue'} \cup {queue[1]}
    BY <2>2, <2>3
  <2>6. \A i, j \in DOMAIN queue' : i # j => queue'[i] # queue'[j]
    BY <2>2 DEF ActiveExact
  <2>7. \A i \in DOMAIN queue' : queue'[i] # exec'
    BY <2>1, <2>2, <2>4 DEF ActiveExact
  <2>8. active = {queue'[i] : i \in DOMAIN queue'} \cup {queue[1]}
    BY <2>1, <2>5 DEF ActiveExact
  <2>9. queue[1] # NoRun
    BY <2>2, EngineAssumption
  <2>10. active' = {queue'[i] : i \in DOMAIN queue'} \cup ({exec'} \ {NoRun})
    BY <2>1, <2>2, <2>4, <2>8, <2>9
  <2> QED
    BY <2>6, <2>7, <2>10 DEF ActiveExact
<1>3. CASE ModuleStep
  <2>1. CASE Release
    <3>1. /\ active' = active \ {exec} /\ exec' = NoRun /\ queue' = queue
          /\ queue \in Seq(Runs)
      BY <2>1 DEF Release, TypeOK
    <3>2. \A i \in DOMAIN queue : queue[i] # NoRun
      BY <3>1, EngineAssumption
    <3> QED
      BY <3>1, <3>2 DEF ActiveExact
  <2>2. CASE ~Release
    BY <1>3, <2>2 DEF ModuleStep, EnterStage, ModuleEvent, Attempt, LeaveStage, FailStage,
       WaitInStage, FinishRun, StopOutsideStage, Unwind, ActiveExact
  <2> QED
    BY <2>1, <2>2
<1>4. CASE Crash
  BY <1>4 DEF Crash, ActiveExact
<1>5. CASE (\E r \in Runs : ClockTick(r)) \/ DiskWrite \/ Restart \/ SetupChanges
  BY <1>5 DEF ClockTick, DiskWrite, Restart, SetupChanges, volatile, ActiveExact
<1>6. CASE UNCHANGED vars
  BY <1>6 DEF vars, ActiveExact
<1> QED
  BY <1>1, <1>2, <1>3, <1>4, <1>5, <1>6 DEF Next

\* No Run is chained or executed twice at the same time, and Runner.active
\* forgets none that is.
THEOREM ActiveIsExact == Spec => []ActiveExact
<1>1. Init => ActiveExact
  BY EngineAssumption DEF Init, ActiveExact
<1> QED
  BY <1>1, TypeCorrect, ExactStep, PTL DEF Spec

-----------------------------------------------------------------------------
(* The record.  What the writes still owed to the disk will do is part of   *)
(* the inductive invariant: io is the rest of one transition.               *)

\* The record of r, once ops are performed, has a status in S.
EndsIn(ops, m, r, S) ==
  \/ /\ \A i \in DOMAIN ops : ops[i].kind = "event"
     /\ m[r].status \in S
  \/ \E i \in DOMAIN ops :
       /\ ops[i].kind = "meta" /\ ops[i].run = r /\ ops[i].to.status \in S
       /\ \A j \in DOMAIN ops : j > i => ops[j].kind = "event"
  \/ /\ \A i \in DOMAIN ops : ops[i].run # r
     /\ m[r].status \in S

\* Owed records are coherent, each is a legal change of the record on disk,
\* and only the last of them changes its status.
Legal(from, to) ==
  \/ from = to
  \/ from \in {"absent", "running", "blocked", "failed", "done", "skipped"} /\ to = "pending"
  \/ from = "pending" /\ to = "running"
  \/ from = "running" /\ to \in {"blocked", "failed"}
  \/ from \in {"pending", "running"} /\ to \in {"done", "skipped"}

OwedOk(ops, m) ==
  \A i \in DOMAIN ops : ops[i].kind = "meta" =>
    /\ Coherent(ops[i].to)
    /\ Legal(m[ops[i].run].status, ops[i].to.status)
    /\ \A j \in DOMAIN ops : j > i /\ ops[j].kind = "meta" =>
         ops[i].to.status = m[ops[i].run].status

Live == {"pending", "running"}

\* The Run being executed has the status its place in module.run implies, and
\* queued Runs are pending or running.
PlaceOk ==
  /\ phase = "idle" <=> exec = NoRun
  /\ phase = "between" => EndsIn(io, meta, exec, Live)
  /\ phase = "stage" => EndsIn(io, meta, exec, {"running"})
  /\ \A i \in DOMAIN queue : EndsIn(io, meta, queue[i], Live)

RecordInv == /\ TypeOK /\ ActiveExact
             /\ MetaCoherent /\ OwedOk(io, meta) /\ PlaceOk

\* Status and coherence of what each transition writes.
LEMMA WrittenRecords ==
  ASSUME NEW m \in Meta, Coherent(m)
  PROVE  /\ ToPending(m).status = "pending" /\ Coherent(ToPending(m))
         /\ ToFailed(m).status = "failed" /\ Coherent(ToFailed(m))
         /\ ToDone(m).status = "done" /\ Coherent(ToDone(m))
         /\ ToRunning(m).status = "running"
         /\ ToSkipped(m).status = "skipped"
         /\ m.status \in Live => Coherent(ToRunning(m)) /\ Coherent(ToSkipped(m))
         /\ \A w \in Waits : ToBlocked(m, w).status = "blocked"
         /\ m.status = "running" => \A w \in {"none", "at"} : Coherent(ToBlocked(m, w))
         /\ NoAttempts(m).status = m.status /\ Coherent(NoAttempts(m))
         /\ OneMoreAttempt(m).status = m.status /\ Coherent(OneMoreAttempt(m))
<1> USE DEF Meta, Statuses, Waits, Coherent
<1>1. /\ ToPending(m).status = "pending" /\ Coherent(ToPending(m))
      /\ ToFailed(m).status = "failed" /\ Coherent(ToFailed(m))
      /\ ToDone(m).status = "done" /\ Coherent(ToDone(m))
  BY DEF ToPending, ToFailed, ToDone
<1>2. /\ ToRunning(m).status = "running"
      /\ ToSkipped(m).status = "skipped"
      /\ m.status \in Live => Coherent(ToRunning(m)) /\ Coherent(ToSkipped(m))
  BY DEF ToRunning, ToSkipped, Live
<1>3. /\ \A w \in Waits : ToBlocked(m, w).status = "blocked"
      /\ m.status = "running" => \A w \in {"none", "at"} : Coherent(ToBlocked(m, w))
  BY DEF ToBlocked
<1>4. /\ NoAttempts(m).status = m.status /\ Coherent(NoAttempts(m))
      /\ OneMoreAttempt(m).status = m.status /\ Coherent(OneMoreAttempt(m))
  BY DEF NoAttempts, OneMoreAttempt
<1> QED
  BY <1>1, <1>2, <1>3, <1>4

\* A transition of r that writes one record and appends up to two events.
LEMMA OneRecord ==
  ASSUME NEW r \in Runs, NEW m \in Meta, NEW disk,
         Coherent(m), Legal(disk[r].status, m.status),
         NEW a, NEW b,
         NEW ops \in {<<MetaWrite(r, m)>>,
                      <<MetaWrite(r, m), EventAppend(r, a)>>,
                      <<MetaWrite(r, m), EventAppend(r, a), EventAppend(r, b)>>}
  PROVE  /\ OwedOk(ops, disk)
         /\ \A S : m.status \in S => EndsIn(ops, disk, r, S)
         /\ \A q, S : q # r /\ disk[q].status \in S => EndsIn(ops, disk, q, S)
<1>1. /\ 1 \in DOMAIN ops /\ DOMAIN ops \subseteq 1..3
      /\ ops[1] = MetaWrite(r, m)
      /\ \A j \in DOMAIN ops : j > 1 => ops[j].kind = "event"
      /\ \A j \in DOMAIN ops : ops[j].run = r
  BY DEF MetaWrite, EventAppend
<1>2. ops[1].kind = "meta" /\ ops[1].run = r /\ ops[1].to = m
  BY <1>1 DEF MetaWrite
<1>3. \A j \in DOMAIN ops : j = 1 \/ j > 1
  BY <1>1
<1> QED
  BY <1>1, <1>2, <1>3 DEF OwedOk, EndsIn

\* A transition that rewrites the record twice, changing its status last.
LEMMA TwoRecords ==
  ASSUME NEW r \in Runs, NEW l \in Meta, NEW m \in Meta, NEW disk,
         Coherent(l), Coherent(m), l.status = disk[r].status,
         Legal(disk[r].status, m.status), NEW a,
         NEW ops, ops = <<MetaWrite(r, l), MetaWrite(r, m), EventAppend(r, a)>>
  PROVE  /\ OwedOk(ops, disk)
         /\ \A S : m.status \in S => EndsIn(ops, disk, r, S)
         /\ \A q, S : q # r /\ disk[q].status \in S => EndsIn(ops, disk, q, S)
<1>1. /\ DOMAIN ops = 1..3
      /\ ops[1] = MetaWrite(r, l) /\ ops[2] = MetaWrite(r, m) /\ ops[3] = EventAppend(r, a)
  OBVIOUS
<1>2. /\ ops[1].kind = "meta" /\ ops[1].run = r /\ ops[1].to = l
      /\ ops[2].kind = "meta" /\ ops[2].run = r /\ ops[2].to = m
      /\ ops[3].kind = "event" /\ ops[3].run = r
  BY <1>1 DEF MetaWrite, EventAppend
<1>3. OwedOk(ops, disk)
  BY <1>1, <1>2 DEF OwedOk, Legal
<1>4. \A S : m.status \in S => EndsIn(ops, disk, r, S)
  BY <1>1, <1>2 DEF EndsIn
<1>5. \A q, S : q # r /\ disk[q].status \in S => EndsIn(ops, disk, q, S)
  BY <1>1, <1>2 DEF EndsIn
<1> QED
  BY <1>3, <1>4, <1>5

\* Nothing owed, or a bare event.
LEMMA NoRecord ==
  ASSUME NEW r, NEW disk, NEW a, NEW ops \in {<< >>, <<EventAppend(r, a)>>}
  PROVE  /\ OwedOk(ops, disk)
         /\ \A q, S : EndsIn(ops, disk, q, S) <=> disk[q].status \in S
<1>1. DOMAIN ops \subseteq {1} /\ \A i \in DOMAIN ops : ops[i].kind = "event"
  BY DEF EventAppend
<1> QED
  BY <1>1 DEF OwedOk, EndsIn

\* Performing the first owed write keeps what the rest promises.
LEMMA DiskWriteKeeps ==
  ASSUME RecordInv, DiskWrite
  PROVE  /\ MetaCoherent' /\ OwedOk(io', meta')
         /\ \A r \in Runs : \A S : EndsIn(io, meta, r, S) => EndsIn(io', meta', r, S)
<1> DEFINE op == Head(io)
<1>1. /\ io \in Seq(DiskOp) /\ io # << >> /\ io' = Tail(io)
      /\ op \in DiskOp /\ meta \in [Runs -> Meta]
  BY DEF RecordInv, TypeOK, DiskWrite
<1>2. /\ DOMAIN io = 1..Len(io) /\ Len(io) \in Nat /\ Len(io) # 0
      /\ op = io[1]
      /\ DOMAIN io' = 1..(Len(io) - 1)
      /\ \A i \in DOMAIN io' : i + 1 \in DOMAIN io /\ i + 1 > 1 /\ io'[i] = io[i + 1]
      /\ \A i \in DOMAIN io : i = 1 \/ (i - 1 \in DOMAIN io' /\ io[i] = io'[i - 1])
  BY <1>1
<1>3. CASE op.kind = "meta"
  <2>1. /\ op.run \in Runs /\ op.to \in Meta
        /\ meta' = [meta EXCEPT ![op.run] = op.to]
    BY <1>1, <1>3 DEF DiskOp, DiskWrite
  <2>2. Coherent(op.to)
    BY <1>2, <1>3 DEF RecordInv, OwedOk
  <2>3. MetaCoherent'
    BY <1>1, <2>1, <2>2 DEF RecordInv, MetaCoherent
  <2>4. OwedOk(io', meta')
    <3>1. SUFFICES ASSUME NEW i \in DOMAIN io', io'[i].kind = "meta"
                   PROVE  /\ Coherent(io'[i].to)
                          /\ Legal(meta'[io'[i].run].status, io'[i].to.status)
                          /\ \A j \in DOMAIN io' : j > i /\ io'[j].kind = "meta" =>
                               io'[i].to.status = meta'[io'[i].run].status
      BY DEF OwedOk
    <3>2. /\ i + 1 \in DOMAIN io /\ i + 1 > 1 /\ io'[i] = io[i + 1] /\ 1 \in DOMAIN io
      BY <1>2
    <3>3. op.to.status = meta[op.run].status
      BY <1>2, <1>3, <3>1, <3>2 DEF RecordInv, OwedOk
    <3>4. \A q \in Runs : meta'[q].status = meta[q].status
      BY <1>1, <2>1, <3>3
    <3>5. io[i + 1] \in DiskOp /\ io[i + 1].run \in Runs
      BY <1>1, <3>2 DEF DiskOp
    <3>6. \A j \in DOMAIN io' : j > i => j + 1 > i + 1 /\ j + 1 \in DOMAIN io /\ io'[j] = io[j + 1]
      BY <1>2, <3>2
    <3> QED
      BY <3>1, <3>2, <3>4, <3>5, <3>6 DEF RecordInv, OwedOk
  <2>5. ASSUME NEW r \in Runs, NEW S, EndsIn(io, meta, r, S)
        PROVE  EndsIn(io', meta', r, S)
    <3>1. CASE /\ \A i \in DOMAIN io : io[i].run # r
               /\ meta[r].status \in S
      BY <1>1, <1>2, <2>1, <3>1 DEF EndsIn
    <3>2. ASSUME NEW i \in DOMAIN io,
                 io[i].kind = "meta", io[i].run = r, io[i].to.status \in S,
                 \A j \in DOMAIN io : j > i => io[j].kind = "event"
          PROVE  EndsIn(io', meta', r, S)
      <4>1. CASE i = 1
        <5>1. meta'[r].status \in S
          BY <1>1, <1>2, <2>1, <3>2, <4>1
        <5>2. \A j \in DOMAIN io' : io'[j].kind = "event"
          BY <1>2, <3>2, <4>1
        <5> QED
          BY <5>1, <5>2 DEF EndsIn
      <4>2. CASE i # 1
        <5>1. i - 1 \in DOMAIN io' /\ io[i] = io'[i - 1]
          BY <1>2, <4>2
        <5>2. \A j \in DOMAIN io' : j > i - 1 => io'[j].kind = "event"
          BY <1>2, <3>2
        <5> QED
          BY <3>2, <5>1, <5>2 DEF EndsIn
      <4> QED
        BY <4>1, <4>2
    <3>3. ~ \A i \in DOMAIN io : io[i].kind = "event"
      BY <1>2, <1>3
    <3> QED
      BY <2>5, <3>1, <3>2, <3>3 DEF EndsIn
  <2> QED
    BY <2>3, <2>4, <2>5
<1>4. CASE op.kind # "meta"
  <2>1. meta' = meta
    BY <1>4 DEF DiskWrite
  <2>2. MetaCoherent'
    BY <2>1 DEF RecordInv, MetaCoherent
  <2>3. OwedOk(io', meta')
    <3>1. SUFFICES ASSUME NEW i \in DOMAIN io', io'[i].kind = "meta"
                   PROVE  /\ Coherent(io'[i].to)
                          /\ Legal(meta[io'[i].run].status, io'[i].to.status)
                          /\ \A j \in DOMAIN io' : j > i /\ io'[j].kind = "meta" =>
                               io'[i].to.status = meta[io'[i].run].status
      BY <2>1 DEF OwedOk
    <3>2. i + 1 \in DOMAIN io /\ io'[i] = io[i + 1]
      BY <1>2
    <3>3. \A j \in DOMAIN io' : j > i => j + 1 > i + 1 /\ j + 1 \in DOMAIN io /\ io'[j] = io[j + 1]
      BY <1>2, <3>2
    <3> QED
      BY <3>1, <3>2, <3>3 DEF RecordInv, OwedOk
  <2>4. ASSUME NEW r \in Runs, NEW S, EndsIn(io, meta, r, S)
        PROVE  EndsIn(io', meta', r, S)
    <3>1. CASE meta[r].status \in S /\ \A i \in DOMAIN io : io[i].kind = "event"
      BY <1>2, <2>1, <3>1 DEF EndsIn
    <3>2. CASE meta[r].status \in S /\ \A i \in DOMAIN io : io[i].run # r
      BY <1>2, <2>1, <3>2 DEF EndsIn
    <3>3. ASSUME NEW i \in DOMAIN io,
                 io[i].kind = "meta", io[i].run = r, io[i].to.status \in S,
                 \A j \in DOMAIN io : j > i => io[j].kind = "event"
          PROVE  EndsIn(io', meta', r, S)
      <4>1. i - 1 \in DOMAIN io' /\ io[i] = io'[i - 1]
        BY <1>2, <1>4, <3>3
      <4>2. \A j \in DOMAIN io' : j > i - 1 => io'[j].kind = "event"
        BY <1>2, <3>3
      <4> QED
        BY <3>3, <4>1, <4>2 DEF EndsIn
    <3> QED
      BY <2>4, <3>1, <3>2, <3>3 DEF EndsIn
  <2> QED
    BY <2>2, <2>3, <2>4
<1> QED
  BY <1>3, <1>4

\* A request that reopens (or creates) a Run nobody works on, or one that is
\* unwinding, leaves every other Run's place alone.
LEMMA RequestKeeps ==
  ASSUME RecordInv, NEW r \in Runs, Request(r) \/ RecoverRun(r)
  PROVE  OwedOk(io', meta') /\ PlaceOk' /\ MetaCoherent'
<1>1. /\ io = << >> /\ UNCHANGED <<meta, exec, phase>>
      /\ meta[r] \in Meta /\ Coherent(meta[r])
      /\ TypeOK /\ ActiveExact /\ PlaceOk /\ MetaCoherent
  BY DEF RecordInv, TypeOK, MetaCoherent, Request, StartRun, RetryRun, RefuseRetry, ReenterRun,
         ResumeRun, RecoverRun, Turn, volatile
<1>2. MetaCoherent'
  BY <1>1 DEF MetaCoherent
<1>3. \A q, S : EndsIn(io, meta, q, S) <=> meta[q].status \in S
  BY <1>1, NoRecord
<1>4. CASE RefuseRetry(r)
  <2>1. io' = <<EventAppend(r, "same")>> /\ UNCHANGED queue
    BY <1>4 DEF RefuseRetry, volatile
  <2>2. OwedOk(io', meta) /\ \A q, S : EndsIn(io', meta, q, S) <=> meta[q].status \in S
    BY <2>1, NoRecord
  <2> QED
    BY <1>1, <1>2, <1>3, <2>1, <2>2 DEF PlaceOk
<1>5. CASE ~RefuseRetry(r)
  <2>1. /\ Enqueue(r)
        /\ io' \in {Created(r), Reopened(r), ReopenedFromScratch(r)}
        /\ \/ meta[r].status \notin Live
           \/ r \notin active
    <3>1. CASE RecoverRun(r)
      BY <3>1 DEF RecoverRun, Created, Reopened
    <3>2. CASE StartRun(r)
      BY <3>2 DEF StartRun, Live
    <3>3. CASE RetryRun(r)
      BY <3>3 DEF RetryRun, Live
    <3>4. CASE ReenterRun(r) \/ ResumeRun(r)
      BY <3>4 DEF ReenterRun, ResumeRun, Live
    <3> QED
      BY <1>1, <1>5, <3>1, <3>2, <3>3, <3>4 DEF Request
  <2>2. /\ OwedOk(io', meta)
        /\ EndsIn(io', meta, r, Live)
        /\ \A q, S : q # r /\ meta[q].status \in S => EndsIn(io', meta, q, S)
    <3>1. "pending" \in Live
      BY DEF Live
    <3>2. meta[r].status \in Statuses \cup {"absent"}
      BY <1>1 DEF Meta
    <3>3. Legal(meta[r].status, "pending")
      BY <3>2 DEF Legal, Statuses
    <3>4. CASE io' = Created(r)
      <4>1. /\ NoMeta \in Meta /\ Coherent(NoMeta)
        BY MetaTypes DEF NoMeta, Coherent
      <4>2. /\ ToPending(NoMeta) \in Meta /\ ToPending(NoMeta).status = "pending"
            /\ Coherent(ToPending(NoMeta))
        BY <4>1, MetaTypes, WrittenRecords
      <4> QED
        BY <3>1, <3>3, <3>4, <4>2, OneRecord DEF Created
    <3>5. CASE io' = Reopened(r)
      <4>1. /\ ToPending(meta[r]) \in Meta /\ ToPending(meta[r]).status = "pending"
            /\ Coherent(ToPending(meta[r]))
        BY <1>1, MetaTypes, WrittenRecords
      <4> QED
        BY <3>1, <3>3, <3>5, <4>1, OneRecord DEF Reopened
    <3>6. CASE io' = ReopenedFromScratch(r)
      <4> DEFINE l == NoAttempts(meta[r])
      <4>1. l \in Meta /\ l.status = meta[r].status /\ Coherent(l)
        BY <1>1, MetaTypes, WrittenRecords
      <4>2. /\ ToPending(l) \in Meta /\ ToPending(l).status = "pending" /\ Coherent(ToPending(l))
        BY <4>1, MetaTypes, WrittenRecords
      <4>3. io' = <<MetaWrite(r, l), MetaWrite(r, ToPending(l)), EventAppend(r, "pending")>>
        BY <3>6 DEF ReopenedFromScratch
      <4> HIDE DEF l
      <4> QED
        BY <3>1, <3>3, <4>1, <4>2, <4>3, TwoRecords
    <3> QED
      BY <2>1, <3>4, <3>5, <3>6
  <2>4. phase = "between" => EndsIn(io', meta, exec, Live)
    BY <1>1, <1>3, <2>2 DEF PlaceOk
  <2>5. phase = "stage" => EndsIn(io', meta, exec, {"running"})
    <3>1. ASSUME phase = "stage" PROVE exec # r
      <4>1. meta[exec].status = "running" /\ exec # NoRun
        BY <1>1, <1>3, <3>1 DEF PlaceOk
      <4>2. exec \in active
        BY <1>1, <4>1 DEF ActiveExact, TypeOK
      <4> QED
        BY <2>1, <4>1, <4>2 DEF Live
    <3> QED
      BY <1>1, <1>3, <2>2, <3>1 DEF PlaceOk
  <2>6. ASSUME NEW i \in DOMAIN queue' PROVE EndsIn(io', meta, queue'[i], Live)
    <3>1. queue'[i] = r \/ \E j \in DOMAIN queue : queue'[i] = queue[j]
      <4>1. CASE queue' = queue
        BY <4>1, <2>6
      <4>2. CASE queue' = Append(queue, r)
        <5>1. queue \in Seq(Runs)
          BY <1>1 DEF TypeOK
        <5> QED
          BY <4>2, <5>1, <2>6
      <4> QED
        BY <2>1, <4>1, <4>2 DEF Enqueue
    <3> QED
      BY <1>1, <1>3, <2>2, <3>1 DEF PlaceOk
  <2> QED
    BY <1>1, <1>2, <2>2, <2>4, <2>5, <2>6 DEF PlaceOk
<1> QED
  BY <1>4, <1>5

\* A step of module.run writes what its place allows.
LEMMA ModuleStepKeeps ==
  ASSUME RecordInv, ModuleStep
  PROVE  OwedOk(io', meta') /\ PlaceOk' /\ MetaCoherent'
<1>1. /\ io = << >> /\ UNCHANGED <<meta, queue>>
      /\ exec \in Runs /\ meta[exec] \in Meta /\ Coherent(meta[exec])
      /\ TypeOK /\ ActiveExact /\ PlaceOk /\ MetaCoherent
  BY DEF RecordInv, TypeOK, MetaCoherent, ModuleStep, EnterStage, ModuleEvent, Attempt, LeaveStage,
         FailStage, WaitInStage, FinishRun, StopOutsideStage, Unwind, Release, InModule, Turn
<1>2. MetaCoherent'
  BY <1>1 DEF MetaCoherent
<1>3. \A q, S : EndsIn(io, meta, q, S) <=> meta[q].status \in S
  BY <1>1, NoRecord
<1>4. /\ phase = "between" => meta[exec].status \in Live
      /\ phase = "stage" => meta[exec].status = "running"
      /\ \A i \in DOMAIN queue : meta[queue[i]].status \in Live /\ queue[i] # exec
      /\ exec # NoRun
  BY <1>1, <1>3, EngineAssumption DEF PlaceOk, ActiveExact
\* The steps that write the record: its new value m, and where exec goes.
<1>5. ASSUME NEW m \in Meta, Coherent(m), Legal(meta[exec].status, m.status),
             NEW a, NEW b,
             io' \in {<<MetaWrite(exec, m)>>,
                     <<MetaWrite(exec, m), EventAppend(exec, a)>>,
                     <<MetaWrite(exec, m), EventAppend(exec, a), EventAppend(exec, b)>>},
             \/ exec' = NoRun /\ phase' = "idle"
             \/ exec' = exec /\ phase' = "unwind"
             \/ exec' = exec /\ phase' = "stage" /\ m.status = "running"
      PROVE  OwedOk(io', meta') /\ PlaceOk'
  <2>1. /\ OwedOk(io', meta)
        /\ \A S : m.status \in S => EndsIn(io', meta, exec, S)
        /\ \A q, S : q # exec /\ meta[q].status \in S => EndsIn(io', meta, q, S)
    BY <1>1, <1>5, OneRecord
  <2>2. \A i \in DOMAIN queue' : EndsIn(io', meta', queue'[i], Live)
    BY <1>1, <1>4, <2>1
  <2> QED
    BY <1>1, <1>4, <1>5, <2>1, <2>2 DEF PlaceOk
\* The steps that do not.
<1>6. ASSUME io' \in {<< >>, <<EventAppend(exec, "same")>>},
             \/ exec' = NoRun /\ phase' = "idle"
             \/ exec' = exec /\ phase' = phase
             \/ exec' = exec /\ phase = "stage" /\ phase' = "between"
      PROVE  OwedOk(io', meta') /\ PlaceOk'
  <2>1. OwedOk(io', meta) /\ \A q, S : EndsIn(io', meta, q, S) <=> meta[q].status \in S
    BY <1>6, NoRecord
  <2> QED
    BY <1>1, <1>3, <1>4, <1>6, <2>1 DEF PlaceOk, Live
<1>7. CASE EnterStage
  <2>1. /\ ToRunning(meta[exec]) \in Meta /\ Coherent(ToRunning(meta[exec]))
        /\ ToRunning(meta[exec]).status = "running" /\ Legal(meta[exec].status, "running")
    BY <1>1, <1>4, <1>7, MetaTypes, WrittenRecords DEF EnterStage, InModule, Legal, Live
  <2>2. /\ io' = <<MetaWrite(exec, ToRunning(meta[exec])), EventAppend(exec, "running")>>
        /\ exec' = exec /\ phase' = "stage"
    BY <1>7 DEF EnterStage, Started
  <2> QED
    BY <1>2, <1>5, <2>1, <2>2
<1>8. CASE Attempt
  <2>1. /\ OneMoreAttempt(meta[exec]) \in Meta /\ Coherent(OneMoreAttempt(meta[exec]))
        /\ OneMoreAttempt(meta[exec]).status = "running" /\ Legal(meta[exec].status, "running")
    BY <1>1, <1>4, <1>8, MetaTypes, WrittenRecords DEF Attempt, InModule, Legal
  <2>2. /\ io' = <<MetaWrite(exec, OneMoreAttempt(meta[exec]))>>
        /\ exec' = exec /\ phase' = "stage"
    BY <1>8 DEF Attempt, AttemptStarted, InModule
  <2> QED
    BY <1>2, <1>5, <2>1, <2>2
<1>9. CASE FailStage
  <2>1. /\ ToFailed(meta[exec]) \in Meta /\ Coherent(ToFailed(meta[exec]))
        /\ ToFailed(meta[exec]).status = "failed" /\ Legal(meta[exec].status, "failed")
    BY <1>1, <1>4, <1>9, MetaTypes, WrittenRecords DEF FailStage, InModule, Legal
  <2>2. /\ io' = <<MetaWrite(exec, ToFailed(meta[exec])), EventAppend(exec, "same"),
                  EventAppend(exec, "failed")>>
        /\ exec' = exec /\ phase' = "unwind"
    BY <1>9 DEF FailStage, Failed
  <2> QED
    BY <1>2, <1>5, <2>1, <2>2
<1>10. CASE WaitInStage
  <2>1. PICK w \in {"none", "at"} : io' = Blocked(exec, w)
    BY <1>10 DEF WaitInStage
  <2>2. /\ ToBlocked(meta[exec], w) \in Meta /\ Coherent(ToBlocked(meta[exec], w))
        /\ ToBlocked(meta[exec], w).status = "blocked" /\ Legal(meta[exec].status, "blocked")
    <3>1. meta[exec].status = "running" /\ w \in Waits
      BY <1>4, <1>10 DEF WaitInStage, InModule, Waits
    <3>2. ToBlocked(meta[exec], w) \in Meta
      BY <1>1, <3>1, MetaTypes
    <3>3. Coherent(ToBlocked(meta[exec], w)) /\ ToBlocked(meta[exec], w).status = "blocked"
      BY <1>1, <3>1, WrittenRecords
    <3> QED
      BY <3>1, <3>2, <3>3 DEF Legal
  <2>3. /\ io' = <<MetaWrite(exec, ToBlocked(meta[exec], w)), EventAppend(exec, "blocked")>>
        /\ exec' = exec /\ phase' = "unwind"
    BY <1>10, <2>1 DEF WaitInStage, Blocked
  <2> QED
    BY <1>2, <1>5, <2>2, <2>3
<1>11. CASE FinishRun
  <2>1. /\ ToDone(meta[exec]) \in Meta /\ Coherent(ToDone(meta[exec]))
        /\ ToSkipped(meta[exec]) \in Meta /\ Coherent(ToSkipped(meta[exec]))
        /\ ToDone(meta[exec]).status = "done" /\ Legal(meta[exec].status, "done")
        /\ ToSkipped(meta[exec]).status = "skipped" /\ Legal(meta[exec].status, "skipped")
    BY <1>1, <1>4, <1>11, MetaTypes, WrittenRecords DEF FinishRun, InModule, Legal, Live
  <2>2. exec' = NoRun /\ phase' = "idle"
    BY <1>11 DEF FinishRun, Release
  <2>3. CASE io' = Done(exec)
    BY <1>2, <1>5, <2>1, <2>2, <2>3 DEF Done
  <2>4. CASE io' = Skipped(exec)
    BY <1>2, <1>5, <2>1, <2>2, <2>4 DEF Skipped
  <2> QED
    BY <1>11, <2>3, <2>4 DEF FinishRun
<1>12. CASE ModuleEvent \/ LeaveStage \/ StopOutsideStage \/ Unwind
  <2>1. /\ io' \in {<< >>, <<EventAppend(exec, "same")>>}
        /\ \/ exec' = NoRun /\ phase' = "idle"
           \/ exec' = exec /\ phase' = phase
           \/ exec' = exec /\ phase = "stage" /\ phase' = "between"
    BY <1>1, <1>12 DEF ModuleEvent, LeaveStage, StopOutsideStage, Unwind, Release, InModule
  <2> QED
    BY <1>2, <1>6, <2>1
<1> QED
  BY <1>7, <1>8, <1>9, <1>10, <1>11, <1>12 DEF ModuleStep

LEMMA RecordInit == Init => RecordInv
<1> SUFFICES ASSUME Init PROVE RecordInv
  OBVIOUS
<1>1. TypeOK /\ ActiveExact
  BY TypeInit, EngineAssumption DEF Init, ActiveExact
<1>2. MetaCoherent
  BY DEF Init, MetaCoherent, Coherent, NoMeta
<1>3. OwedOk(io, meta)
  BY NoRecord DEF Init
<1>4. PlaceOk
  BY DEF Init, PlaceOk
<1> QED
  BY <1>1, <1>2, <1>3, <1>4 DEF RecordInv

LEMMA RecordStep == RecordInv /\ [Next]_vars => RecordInv'
<1> SUFFICES ASSUME RecordInv, [Next]_vars PROVE RecordInv'
  OBVIOUS
<1>1. TypeOK' /\ ActiveExact'
  BY TypeStep, ExactStep DEF RecordInv
<1> SUFFICES OwedOk(io', meta') /\ PlaceOk' /\ MetaCoherent'
  BY <1>1 DEF RecordInv
<1>2. CASE \E r \in Runs : Request(r) \/ RecoverRun(r)
  BY <1>2, RequestKeeps
<1>3. CASE ModuleStep
  BY <1>3, ModuleStepKeeps
<1>4. CASE DiskWrite
  <2>1. UNCHANGED <<queue, exec, phase>>
    BY <1>4 DEF DiskWrite, volatile
  <2>2. /\ exec \in Runs \/ phase = "idle"
        /\ queue \in Seq(Runs)
    BY DEF RecordInv, TypeOK, PlaceOk
  <2>3. PlaceOk'
    BY <1>4, <2>1, <2>2, DiskWriteKeeps DEF RecordInv, PlaceOk
  <2> QED
    BY <1>4, <2>3, DiskWriteKeeps
<1>5. ASSUME NEW r \in Runs, ClockTick(r) PROVE OwedOk(io', meta') /\ PlaceOk' /\ MetaCoherent'
  <2>1. /\ io = << >> /\ io' = << >> /\ UNCHANGED <<queue, exec, phase>>
        /\ meta[r].wait = "at" /\ meta' = [meta EXCEPT ![r].wait = "due"]
        /\ meta \in [Runs -> Meta] /\ queue \in Seq(Runs) /\ exec \in Runs \cup {NoRun}
    BY <1>5 DEF ClockTick, volatile, RecordInv, TypeOK
  <2>2. \A q \in Runs : /\ meta'[q].status = meta[q].status
                        /\ Coherent(meta[q]) => Coherent(meta'[q])
    BY <2>1 DEF Meta, Coherent
  <2>3. \A q, S : /\ EndsIn(io, meta, q, S) <=> meta[q].status \in S
                  /\ EndsIn(io', meta', q, S) <=> meta'[q].status \in S
    BY <2>1, NoRecord
  <2>4. MetaCoherent' /\ OwedOk(io', meta')
    BY <2>1, <2>2, NoRecord DEF RecordInv, MetaCoherent
  <2>5. exec \in Runs \/ phase = "idle"
    BY <2>1 DEF RecordInv, PlaceOk
  <2>6. PlaceOk'
    <3>1. \A i \in DOMAIN queue : queue[i] \in Runs
      BY <2>1
    <3>2. \A q \in Runs, S \in {Live, {"running"}} :
            EndsIn(io, meta, q, S) => EndsIn(io', meta', q, S)
      BY <2>2, <2>3
    <3>3. PlaceOk /\ UNCHANGED <<queue, exec, phase>>
      BY <2>1 DEF RecordInv
    <3> QED
      BY <2>5, <3>1, <3>2, <3>3 DEF PlaceOk
  <2> QED
    BY <2>4, <2>6
<1>6. CASE Execute
  <2>1. /\ UNCHANGED <<meta, io>> /\ exec = NoRun /\ queue # << >> /\ queue' = Tail(queue)
        /\ queue \in Seq(Runs)
        /\ \/ exec' = Head(queue) /\ phase' = "between"
           \/ UNCHANGED <<exec, phase>>
    BY <1>6 DEF Execute, RecordInv, TypeOK
  <2>2. /\ 1 \in DOMAIN queue /\ Head(queue) = queue[1] /\ Head(queue) \in Runs
        /\ \A i \in DOMAIN queue' : i + 1 \in DOMAIN queue /\ queue'[i] = queue[i + 1]
    BY <2>1
  <2>3. \A i \in DOMAIN queue : EndsIn(io, meta, queue[i], Live)
    BY DEF RecordInv, PlaceOk
  <2>4. PlaceOk'
    BY <2>1, <2>2, <2>3, EngineAssumption DEF RecordInv, PlaceOk
  <2>5. OwedOk(io', meta') /\ MetaCoherent'
    BY <2>1 DEF RecordInv, MetaCoherent
  <2> QED
    BY <2>4, <2>5
<1>7. CASE Crash
  <2>1. /\ io' = << >> /\ queue' = << >> /\ exec' = NoRun /\ phase' = "idle" /\ meta' = meta
    BY <1>7 DEF Crash
  <2> QED
    <3>1. OwedOk(io', meta')
      BY <2>1, NoRecord
    <3>2. PlaceOk'
      BY <2>1 DEF PlaceOk
    <3> QED
      BY <2>1, <3>1, <3>2 DEF RecordInv, MetaCoherent
<1>8. CASE Restart \/ SetupChanges \/ UNCHANGED vars
  <2>1. UNCHANGED <<meta, io, queue, exec, phase>>
    BY <1>8 DEF Restart, SetupChanges, vars, volatile
  <2> QED
    BY <2>1 DEF RecordInv, MetaCoherent, PlaceOk
<1> QED
  BY <1>2, <1>3, <1>4, <1>5, <1>6, <1>7, <1>8 DEF Next

LEMMA RecordCorrect == Spec => []RecordInv
  BY RecordInit, RecordStep, PTL DEF Spec

\* A wait stands exactly while a Run is blocked and a failed Stage exactly
\* while it is failed, whatever interleaving and whatever crash.
THEOREM MetaIsCoherent == Spec => []MetaCoherent
<1>1. RecordInv => MetaCoherent
  BY DEF RecordInv
<1> QED
  BY <1>1, RecordCorrect, PTL

\* The engine implements the abstract lifecycle: every step changes the status
\* on disk of at most one Run, along an edge RunLifecycle allows.
THEOREM ImplementsLifecycle == Spec => LifecycleHolds
<1>1. Init => Lifecycle!Init
  BY DEF Init, Lifecycle!Init, NoMeta
<1>2. RecordInv /\ [Next]_vars => [Lifecycle!Next]_([r \in Runs |-> meta[r].status])
  <2> SUFFICES ASSUME RecordInv, [Next]_vars
               PROVE  \/ Lifecycle!Next
                      \/ [r \in Runs |-> meta[r].status]' = [r \in Runs |-> meta[r].status]
    OBVIOUS
  <2>1. CASE DiskWrite
    <3> DEFINE op == Head(io)
    <3>1. /\ io \in Seq(DiskOp) /\ io # << >> /\ op \in DiskOp /\ meta \in [Runs -> Meta]
          /\ op = io[1] /\ 1 \in DOMAIN io
      BY <2>1 DEF RecordInv, TypeOK, DiskWrite
    <3>2. CASE op.kind = "meta"
      <4>1. /\ op.run \in Runs /\ op.to \in Meta
            /\ meta' = [meta EXCEPT ![op.run] = op.to]
        BY <2>1, <3>1, <3>2 DEF DiskOp, DiskWrite
      <4>2. Legal(meta[op.run].status, op.to.status)
        BY <3>1, <3>2 DEF RecordInv, OwedOk
      <4> DEFINE st == [r \in Runs |-> meta[r].status]
      <4>3. [r \in Runs |-> meta'[r].status] = [st EXCEPT ![op.run] = op.to.status]
        BY <3>1, <4>1
      <4>4. st[op.run] = meta[op.run].status
        BY <4>1
      <4>5. CASE op.to.status = meta[op.run].status
        BY <4>1, <4>3, <4>4, <4>5
      <4>6. CASE op.to.status # meta[op.run].status
        BY <4>1, <4>2, <4>3, <4>4, <4>6
           DEF Legal, Lifecycle!Next, Lifecycle!Create, Lifecycle!Start, Lifecycle!Stop,
               Lifecycle!Finish, Lifecycle!Reopen, Lifecycle!Settled
      <4> QED
        BY <4>5, <4>6
    <3>3. CASE op.kind # "meta"
      BY <2>1, <3>3 DEF DiskWrite
    <3> QED
      BY <3>2, <3>3
  <2>2. ASSUME NEW r \in Runs, ClockTick(r)
        PROVE  [q \in Runs |-> meta[q].status]' = [q \in Runs |-> meta[q].status]
    <3>1. meta \in [Runs -> Meta] /\ meta' = [meta EXCEPT ![r].wait = "due"]
      BY <2>2 DEF RecordInv, TypeOK, ClockTick
    <3>2. \A q \in Runs : meta'[q].status = meta[q].status
      BY <3>1 DEF Meta
    <3> QED
      BY <3>2
  <2>3. CASE ~DiskWrite /\ ~(\E r \in Runs : ClockTick(r))
    <3>1. meta' = meta
      BY <2>3 DEF Next, Request, StartRun, RetryRun, RefuseRetry, ReenterRun, ResumeRun, RecoverRun,
         Execute, ModuleStep, EnterStage, ModuleEvent, Attempt, LeaveStage, FailStage, WaitInStage,
         FinishRun, StopOutsideStage, Unwind, Crash, Restart, SetupChanges, vars
    <3> QED
      BY <3>1
  <2> QED
    BY <2>1, <2>2, <2>3
<1> QED
  BY <1>1, <1>2, RecordCorrect, PTL DEF Spec, LifecycleHolds, Lifecycle!Spec

-----------------------------------------------------------------------------
(* The timeline.  A transition changes the record before it announces the   *)
(* change, so between the two the timeline is behind: the invariant says    *)
(* that what io still appends catches up with what io still writes.         *)

\* After ops the timeline tl of r announces the status its record then has:
\* the last announcement owed names it, or none is owed and tl names it
\* already - unless tl is damaged, or will be by a line behind a torn one.
LineOk(ops, r, m, tl) ==
  \/ tl.damaged
  \/ tl.torn /\ \E i \in DOMAIN ops : ops[i].kind = "event" /\ ops[i].run = r
  \/ \E i \in DOMAIN ops :
       /\ ops[i].kind = "event" /\ ops[i].run = r /\ ops[i].says # "same"
       /\ \A j \in DOMAIN ops : j > i /\ ops[j].kind = "event" => ops[j].says = "same"
       /\ EndsIn(ops, m, r, {ops[i].says})
  \/ /\ \A i \in DOMAIN ops : ops[i].kind = "event" /\ ops[i].run = r => ops[i].says = "same"
     /\ EndsIn(ops, m, r, {tl.says})

LinesOk == \A r \in active : LineOk(io, r, meta, timeline[r])

\* With nothing owed the timeline agrees or is damaged.
LEMMA NothingOwed ==
  ASSUME NEW r, NEW m, NEW tl
  PROVE  LineOk(<< >>, r, m, tl) <=> tl.damaged \/ m[r].status = tl.says
<1>1. EndsIn(<< >>, m, r, {tl.says}) <=> m[r].status = tl.says
  BY DEF EndsIn
<1> QED
  BY <1>1 DEF LineOk

\* What one Run is owed leaves the timelines of the others in agreement.
LEMMA OthersLines ==
  ASSUME NEW q, NEW r, r # q, NEW ops, \A i \in DOMAIN ops : ops[i].run = q,
         NEW m, NEW tl, tl.damaged \/ m[r].status = tl.says
  PROVE  LineOk(ops, r, m, tl)
  BY DEF LineOk, EndsIn

\* A transition to a status s that ends by announcing s.
LEMMA AnnouncedLines ==
  ASSUME NEW r, NEW m, NEW s, s # "same", m.status = s, NEW disk, NEW tl
  PROVE  /\ LineOk(<<MetaWrite(r, m), EventAppend(r, s)>>, r, disk, tl)
         /\ LineOk(<<MetaWrite(r, m), EventAppend(r, "same"), EventAppend(r, s)>>, r, disk, tl)
         /\ \A l : LineOk(<<MetaWrite(r, l), MetaWrite(r, m), EventAppend(r, s)>>, r, disk, tl)
<1> USE DEF MetaWrite, EventAppend
<1>1. ASSUME NEW ops, ops = <<MetaWrite(r, m), EventAppend(r, s)>>
      PROVE  LineOk(ops, r, disk, tl)
  <2>1. /\ DOMAIN ops = 1..2
        /\ ops[1].kind = "meta" /\ ops[1].run = r /\ ops[1].to.status = s
        /\ ops[2].kind = "event" /\ ops[2].run = r /\ ops[2].says = s
    BY <1>1
  <2>2. EndsIn(ops, disk, r, {s})
    BY <2>1 DEF EndsIn
  <2> QED
    BY <2>1, <2>2 DEF LineOk
<1>2. ASSUME NEW ops, ops = <<MetaWrite(r, m), EventAppend(r, "same"), EventAppend(r, s)>>
      PROVE  LineOk(ops, r, disk, tl)
  <2>1. /\ DOMAIN ops = 1..3
        /\ ops[1].kind = "meta" /\ ops[1].run = r /\ ops[1].to.status = s
        /\ ops[2].kind = "event" /\ ops[2].run = r
        /\ ops[3].kind = "event" /\ ops[3].run = r /\ ops[3].says = s
    BY <1>2
  <2>2. EndsIn(ops, disk, r, {s})
    BY <2>1 DEF EndsIn
  <2> QED
    BY <2>1, <2>2 DEF LineOk
<1>3. ASSUME NEW ops, NEW l, ops = <<MetaWrite(r, l), MetaWrite(r, m), EventAppend(r, s)>>
      PROVE  LineOk(ops, r, disk, tl)
  <2>1. /\ DOMAIN ops = 1..3
        /\ ops[1].kind = "meta" /\ ops[1].run = r
        /\ ops[2].kind = "meta" /\ ops[2].run = r /\ ops[2].to.status = s
        /\ ops[3].kind = "event" /\ ops[3].run = r /\ ops[3].says = s
    BY <1>3
  <2>2. EndsIn(ops, disk, r, {s})
    BY <2>1 DEF EndsIn
  <2> QED
    BY <2>1, <2>2 DEF LineOk
<1> QED
  BY <1>1, <1>2, <1>3

\* A line that announces nothing, or a record that keeps its status.
LEMMA QuietLines ==
  ASSUME NEW r, NEW disk, NEW tl, tl.damaged \/ disk[r].status = tl.says
  PROVE  /\ LineOk(<< >>, r, disk, tl)
         /\ LineOk(<<EventAppend(r, "same")>>, r, disk, tl)
         /\ \A m : m.status = disk[r].status => LineOk(<<MetaWrite(r, m)>>, r, disk, tl)
<1>1. LineOk(<< >>, r, disk, tl)
  BY NothingOwed
<1>2. ASSUME NEW ops, ops = <<EventAppend(r, "same")>> PROVE LineOk(ops, r, disk, tl)
  <2>1. /\ DOMAIN ops = {1} /\ ops[1].run = r /\ ops[1].says = "same" /\ ops[1].kind = "event"
    BY <1>2 DEF EventAppend
  <2> QED
    BY <2>1 DEF LineOk, EndsIn
<1>3. ASSUME NEW ops, NEW m, ops = <<MetaWrite(r, m)>>, m.status = disk[r].status
      PROVE  LineOk(ops, r, disk, tl)
  <2>1. /\ DOMAIN ops = {1} /\ ops[1].run = r /\ ops[1].kind = "meta"
        /\ ops[1].to.status = disk[r].status
    BY <1>3 DEF MetaWrite
  <2> QED
    BY <2>1 DEF LineOk, EndsIn
<1> QED
  BY <1>1, <1>2, <1>3

\* Performing the first owed write keeps every timeline's promise.
LEMMA DiskWriteLines ==
  ASSUME RecordInv, DiskWrite, NEW r \in Runs, LineOk(io, r, meta, timeline[r])
  PROVE  LineOk(io', r, meta', timeline'[r])
<1> DEFINE op == Head(io)
<1>1. /\ io \in Seq(DiskOp) /\ io # << >> /\ io' = Tail(io) /\ op \in DiskOp
      /\ timeline \in [Runs -> Timeline]
  BY DEF RecordInv, TypeOK, DiskWrite
<1>2. /\ op = io[1] /\ 1 \in DOMAIN io
      /\ \A i \in DOMAIN io' : i + 1 \in DOMAIN io /\ i + 1 > 1 /\ io'[i] = io[i + 1]
      /\ \A i \in DOMAIN io : i \in Nat /\ (i = 1 \/ (i - 1 \in DOMAIN io' /\ io[i] = io'[i - 1]))
      /\ DOMAIN io' \subseteq Nat
  BY <1>1
<1>3. \A S : EndsIn(io, meta, r, S) => EndsIn(io', meta', r, S)
  BY DiskWriteKeeps
<1>4. timeline'[r] = IF op.kind # "meta" /\ op.run = r THEN AppendLine(timeline[r], op.says)
                     ELSE timeline[r]
  BY <1>1 DEF DiskWrite
<1>5. op.kind \in {"meta", "event"}
  BY <1>1 DEF DiskOp
<1> HIDE DEF op
<1>6. CASE timeline[r].damaged
  BY <1>4, <1>6 DEF LineOk, AppendLine, Damaged
<1>7. CASE ~timeline[r].damaged /\ timeline[r].torn
           /\ \E i \in DOMAIN io : io[i].kind = "event" /\ io[i].run = r
  <2>1. PICK i \in DOMAIN io : io[i].kind = "event" /\ io[i].run = r
    BY <1>7
  <2>2. CASE op.kind = "event" /\ op.run = r
    BY <1>4, <1>7, <2>2 DEF LineOk, AppendLine, Damaged
  <2>3. CASE ~(op.kind = "event" /\ op.run = r)
    <3>1. i # 1 /\ timeline'[r] = timeline[r]
      BY <1>2, <1>4, <1>5, <2>1, <2>3
    <3>2. i - 1 \in DOMAIN io' /\ io'[i - 1].kind = "event" /\ io'[i - 1].run = r
      BY <1>2, <2>1, <3>1
    <3> QED
      BY <1>7, <3>1, <3>2 DEF LineOk
  <2> QED
    BY <2>2, <2>3
<1>8. ASSUME NEW i \in DOMAIN io,
             io[i].kind = "event", io[i].run = r, io[i].says # "same",
             \A j \in DOMAIN io : j > i /\ io[j].kind = "event" => io[j].says = "same",
             EndsIn(io, meta, r, {io[i].says}), ~timeline[r].damaged
      PROVE  LineOk(io', r, meta', timeline'[r])
  <2>1. CASE i = 1
    <3>1. op.kind # "meta" /\ op.run = r /\ op.says = io[i].says
      BY <1>2, <1>8, <2>1
    <3>2. timeline'[r] = AppendLine(timeline[r], io[i].says)
      BY <1>4, <3>1
    <3>3. CASE timeline[r].torn
      BY <3>2, <3>3 DEF LineOk, AppendLine, Damaged
    <3>4. CASE ~timeline[r].torn
      <4>1. timeline'[r].says = io[i].says
        BY <1>1, <1>8, <3>2, <3>4 DEF AppendLine, Timeline
      <4>2. \A j \in DOMAIN io' : io'[j].kind = "event" => io'[j].says = "same"
        BY <1>2, <1>8, <2>1
      <4>3. EndsIn(io', meta', r, {timeline'[r].says})
        BY <1>3, <1>8, <4>1
      <4> QED
        BY <4>2, <4>3 DEF LineOk
    <3> QED
      BY <3>3, <3>4
  <2>2. CASE i # 1
    <3>1. i - 1 \in DOMAIN io' /\ io'[i - 1] = io[i]
      BY <1>2, <2>2
    <3>2. \A j \in DOMAIN io' : j > i - 1 /\ io'[j].kind = "event" => io'[j].says = "same"
      BY <1>2, <1>8
    <3>3. EndsIn(io', meta', r, {io'[i - 1].says})
      BY <1>3, <1>8, <3>1
    <3> QED
      BY <1>8, <3>1, <3>2, <3>3 DEF LineOk
  <2> QED
    BY <2>1, <2>2
<1>9. CASE /\ \A i \in DOMAIN io : io[i].kind = "event" /\ io[i].run = r => io[i].says = "same"
           /\ EndsIn(io, meta, r, {timeline[r].says})
           /\ ~timeline[r].damaged
  <2>1. timeline'[r].damaged \/ timeline'[r] = timeline[r]
    BY <1>2, <1>4, <1>5, <1>9 DEF AppendLine, Damaged
  <2>2. \A i \in DOMAIN io' : io'[i].kind = "event" /\ io'[i].run = r => io'[i].says = "same"
    BY <1>2, <1>9
  <2>3. EndsIn(io', meta', r, {timeline[r].says})
    BY <1>3, <1>9
  <2> QED
    BY <2>1, <2>2, <2>3 DEF LineOk
<1> QED
  BY <1>6, <1>7, <1>8, <1>9 DEF LineOk

\* A turn of run q begins: what it owes to q's timeline is owed in full, and
\* every other timeline in hand agreed before and is left alone.
LEMMA TurnLines ==
  ASSUME LinesOk, io = << >>, UNCHANGED <<meta, timeline>>, NEW q,
         active' \subseteq active \cup {q},
         \A i \in DOMAIN io' : io'[i].run = q,
         q \in active' => LineOk(io', q, meta, timeline[q])
  PROVE  LinesOk'
<1> SUFFICES ASSUME NEW r \in active' PROVE LineOk(io', r, meta, timeline[r])
  BY DEF LinesOk
<1>1. CASE r = q
  BY <1>1
<1>2. CASE r # q
  <2>1. r \in active /\ LineOk(<< >>, r, meta, timeline[r])
    BY <1>2 DEF LinesOk
  <2>2. timeline[r].damaged \/ meta[r].status = timeline[r].says
    BY <2>1, NothingOwed
  <2> QED
    BY <1>2, <2>2, OthersLines
<1> QED
  BY <1>1, <1>2

\* Requests and the recovery sweep.
LEMMA RequestLines ==
  ASSUME RecordInv, LinesOk, NEW r \in Runs, Request(r) \/ RecoverRun(r)
  PROVE  LinesOk'
<1>1. /\ io = << >> /\ UNCHANGED <<meta, timeline>> /\ active' \subseteq active \cup {r}
      /\ meta[r] \in Meta /\ Coherent(meta[r])
  BY DEF RecordInv, TypeOK, MetaCoherent, Request, StartRun, RetryRun, RefuseRetry, ReenterRun,
         ResumeRun, RecoverRun, Turn, Enqueue, volatile
<1>2. CASE RefuseRetry(r)
  <2>1. io' = <<EventAppend(r, "same")>> /\ active' = active
    BY <1>2 DEF RefuseRetry, volatile
  <2>2. \A i \in DOMAIN io' : io'[i].run = r
    BY <2>1 DEF EventAppend
  <2>3. ASSUME r \in active PROVE LineOk(io', r, meta, timeline[r])
    <3>1. timeline[r].damaged \/ meta[r].status = timeline[r].says
      BY <1>1, <2>3, NothingOwed DEF LinesOk
    <3> QED
      BY <2>1, <3>1, QuietLines
  <2> QED
    BY <1>1, <2>1, <2>2, <2>3, TurnLines
<1>3. CASE ~RefuseRetry(r)
  <2>1. io' \in {Created(r), Reopened(r), ReopenedFromScratch(r)}
    BY <1>3 DEF Request, StartRun, RetryRun, ReenterRun, ResumeRun, RecoverRun
  <2>2. /\ ToPending(NoMeta).status = "pending"
        /\ ToPending(meta[r]).status = "pending"
        /\ ToPending(NoAttempts(meta[r])).status = "pending"
    BY <1>1 DEF ToPending, NoAttempts, NoMeta, Meta
  <2>r. \A i \in DOMAIN io' : io'[i].run = r
    BY <2>1 DEF Created, Reopened, ReopenedFromScratch, MetaWrite, EventAppend
  <2>3. LineOk(io', r, meta, timeline[r])
    <3>1. CASE io' = Created(r)
      BY <2>2, <3>1, AnnouncedLines DEF Created
    <3>2. CASE io' = Reopened(r)
      BY <2>2, <3>2, AnnouncedLines DEF Reopened
    <3>3. CASE io' = ReopenedFromScratch(r)
      BY <2>2, <3>3, AnnouncedLines DEF ReopenedFromScratch
    <3> QED
      BY <2>1, <3>1, <3>2, <3>3
  <2> QED
    BY <1>1, <2>r, <2>3, TurnLines
<1> QED
  BY <1>2, <1>3

\* Steps of module.run.
LEMMA ModuleLines ==
  ASSUME RecordInv, LinesOk, ModuleStep
  PROVE  LinesOk'
<1>1. /\ io = << >> /\ UNCHANGED <<meta, timeline>> /\ active' \subseteq active \cup {exec}
      /\ exec \in Runs /\ meta[exec] \in Meta /\ Coherent(meta[exec])
  BY DEF RecordInv, TypeOK, MetaCoherent, ModuleStep, EnterStage, ModuleEvent, Attempt, LeaveStage,
         FailStage, WaitInStage, FinishRun, StopOutsideStage, Unwind, Release, InModule, Turn
<1>2. exec \in active
  BY <1>1, EngineAssumption DEF RecordInv, ActiveExact
<1>3. timeline[exec].damaged \/ meta[exec].status = timeline[exec].says
  BY <1>1, <1>2, NothingOwed DEF LinesOk
<1>r. \A i \in DOMAIN io' : io'[i].run = exec
  BY <1>1 DEF ModuleStep, EnterStage, ModuleEvent, Attempt, LeaveStage, FailStage, WaitInStage,
     FinishRun, StopOutsideStage, Unwind, Started, Failed, Blocked, Done, Skipped, AttemptStarted,
     MetaWrite, EventAppend
<1>4. LineOk(io', exec, meta, timeline[exec])
  <2>1. CASE EnterStage
    <3>1. ToRunning(meta[exec]).status = "running"
      BY <1>1, WrittenRecords
    <3>2. io' = <<MetaWrite(exec, ToRunning(meta[exec])), EventAppend(exec, "running")>>
      BY <2>1 DEF EnterStage, Started
    <3> QED
      BY <3>1, <3>2, AnnouncedLines
  <2>2. CASE FailStage
    <3>1. ToFailed(meta[exec]).status = "failed"
      BY <1>1, WrittenRecords
    <3>2. io' = <<MetaWrite(exec, ToFailed(meta[exec])), EventAppend(exec, "same"),
                  EventAppend(exec, "failed")>>
      BY <2>2 DEF FailStage, Failed
    <3> QED
      BY <3>1, <3>2, AnnouncedLines
  <2>3. CASE WaitInStage
    <3>1. PICK w \in {"none", "at"} : io' = Blocked(exec, w)
      BY <2>3 DEF WaitInStage
    <3>2. ToBlocked(meta[exec], w).status = "blocked"
      BY <1>1, WrittenRecords DEF Waits
    <3>3. io' = <<MetaWrite(exec, ToBlocked(meta[exec], w)), EventAppend(exec, "blocked")>>
      BY <3>1 DEF Blocked
    <3> QED
      BY <3>2, <3>3, AnnouncedLines
  <2>4. CASE FinishRun
    <3>1. ToDone(meta[exec]).status = "done" /\ ToSkipped(meta[exec]).status = "skipped"
      BY <1>1, WrittenRecords
    <3>2. CASE io' = Done(exec)
      BY <3>1, <3>2, AnnouncedLines DEF Done
    <3>3. CASE io' = Skipped(exec)
      BY <3>1, <3>3, AnnouncedLines DEF Skipped
    <3> QED
      BY <2>4, <3>2, <3>3 DEF FinishRun
  <2>5. CASE Attempt
    <3>1. OneMoreAttempt(meta[exec]).status = meta[exec].status
      BY <1>1, WrittenRecords
    <3>2. io' = <<MetaWrite(exec, OneMoreAttempt(meta[exec]))>>
      BY <2>5 DEF Attempt, AttemptStarted
    <3> QED
      BY <1>3, <3>1, <3>2, QuietLines
  <2>6. CASE ModuleEvent \/ LeaveStage \/ StopOutsideStage \/ Unwind
    <3>1. io' = << >> \/ io' = <<EventAppend(exec, "same")>>
      BY <1>1, <2>6 DEF ModuleEvent, LeaveStage, StopOutsideStage, Unwind
    <3> QED
      BY <1>3, <3>1, QuietLines
  <2> QED
    BY <2>1, <2>2, <2>3, <2>4, <2>5, <2>6 DEF ModuleStep
<1> QED
  BY <1>1, <1>r, <1>4, TurnLines

\* Every step keeps the promises of the timelines in hand.
LEMMA LinesStep == RecordInv /\ LinesOk /\ [Next]_vars => LinesOk'
<1> SUFFICES ASSUME RecordInv, LinesOk, [Next]_vars PROVE LinesOk'
  OBVIOUS
<1>1. CASE \E r \in Runs : Request(r) \/ RecoverRun(r)
  BY <1>1, RequestLines
<1>2. CASE ModuleStep
  BY <1>2, ModuleLines
<1>3. CASE DiskWrite
  <2>1. active' = active /\ active \subseteq Runs
    BY <1>3 DEF DiskWrite, volatile, RecordInv, TypeOK
  <2> QED
    BY <1>3, <2>1, DiskWriteLines DEF LinesOk
<1>4. ASSUME NEW q \in Runs, ClockTick(q) PROVE LinesOk'
  <2>1. /\ io = << >> /\ io' = << >> /\ active' = active /\ timeline' = timeline
        /\ meta' = [meta EXCEPT ![q].wait = "due"] /\ meta \in [Runs -> Meta]
        /\ active \subseteq Runs
    BY <1>4 DEF ClockTick, volatile, RecordInv, TypeOK
  <2>2. \A r \in Runs : meta'[r].status = meta[r].status
    BY <2>1 DEF Meta
  <2>3. ASSUME NEW r \in active PROVE LineOk(<< >>, r, meta', timeline[r])
    <3>1. timeline[r].damaged \/ meta[r].status = timeline[r].says
      BY <2>1, NothingOwed DEF LinesOk
    <3>2. timeline[r].damaged \/ meta'[r].status = timeline[r].says
      BY <2>1, <2>2, <3>1
    <3> QED
      BY <3>2, NothingOwed
  <2> QED
    BY <2>1, <2>3 DEF LinesOk
<1>5. CASE Execute
  <2>1. active' \subseteq active /\ UNCHANGED <<meta, timeline, io>>
    BY <1>5 DEF Execute
  <2> QED
    BY <2>1 DEF LinesOk
<1>6. CASE Crash
  BY <1>6 DEF Crash, LinesOk
<1>7. CASE Restart \/ SetupChanges \/ UNCHANGED vars
  <2>1. UNCHANGED <<meta, timeline, io, active>>
    BY <1>7 DEF Restart, SetupChanges, vars, volatile
  <2> QED
    BY <2>1 DEF LinesOk
<1> QED
  BY <1>1, <1>2, <1>3, <1>4, <1>5, <1>6, <1>7 DEF Next

\* Between turns the timeline of every Run in hand announces the status its
\* record holds, whatever crash cut an earlier transition after its record and
\* before its events (RunHandleImpl.transition).
THEOREM TimelinesAgree == Spec => []LiveTimelineAgrees
<1>1. Init => LinesOk
  BY DEF Init, LinesOk
<1>2. Spec => []LinesOk
  BY <1>1, LinesStep, RecordCorrect, PTL DEF Spec
<1>3. LinesOk => LiveTimelineAgrees
  <2> SUFFICES ASSUME LinesOk, io = << >>, NEW r \in active
               PROVE  timeline[r].says = meta[r].status \/ ~Readable(timeline[r])
    BY DEF LiveTimelineAgrees
  <2>1. timeline[r].damaged \/ meta[r].status = timeline[r].says
    BY NothingOwed DEF LinesOk
  <2> QED
    BY <2>1 DEF Readable
<1> QED
  BY <1>2, <1>3, PTL
=============================================================================
