------------------------ MODULE BriefDeliveryProofs ------------------------
(***************************************************************************)
(* Proofs about BriefDelivery, for every set of owner requests.            *)
(*                                                                         *)
(* DeliveryInv carries the types, which Run status an attempt in flight    *)
(* goes with, and that every receipt recorded or about to be written is    *)
(* backed by a message.  OneMessage and NoUnaskedMessage each add what     *)
(* they need on top of it.                                                 *)
(***************************************************************************)
EXTENDS BriefDelivery, SequenceTheorems, TLAPS

Receipts == {"sent", "reconciled"}

Receipt(op) ==
  \/ op.file = "delivery" /\ op.to.status \in Receipts
  \/ op.file = "result" /\ op.to \in Receipts

\* The writes that are true of a mailbox with n messages.
TrueOps(n) == {op \in Op : Receipt(op) => n > 0}

\* An attempt of the Stage belongs to a running Run, an owner request to a
\* completed one.
PlaceOk ==
  /\ at[Stage] # "idle" => run = "running"
  /\ \A m \in Manuals : at[m] # "idle" => run = "done"

BackedOk ==
  /\ \A w \in Workers : at[w] = "accepted" => messages > 0
  /\ io \in Seq(TrueOps(messages))

DeliveryInv == TypeOK /\ PlaceOk /\ BackedOk /\ ReceiptsAreTrue

-----------------------------------------------------------------------------
\* The writes of persistDelivery: true of every mailbox unless they are a
\* receipt, and then of every mailbox that holds the message.
LEMMA PersistTrue ==
  ASSUME NEW s \in Statuses, NEW q \in BOOLEAN, NEW n \in Nat, s \in Receipts => n > 0
  PROVE  Persist(s, q) \in Seq(TrueOps(n))
<1> DEFINE d == [file |-> "delivery", to |-> [status |-> s, quiet |-> q]]
           r == [file |-> "result", to |-> s]
<1>1. d \in TrueOps(n)
  BY DEF TrueOps, Receipt, Op, Delivery
<1>2. r \in TrueOps(n)
  BY DEF TrueOps, Receipt, Op
<1>3. <<d, r>> \in Seq(TrueOps(n))
  <2> HIDE DEF d, r
  <2> QED BY <1>1, <1>2
<1> QED
  BY <1>3 DEF Persist

LEMMA BlockedTrue ==
  ASSUME NEW n \in Nat
  PROVE  BlockedByProfile \in Seq(TrueOps(n))
<1> DEFINE b == [file |-> "refresh"]
<1>1. b \in TrueOps(n)
  BY DEF TrueOps, Receipt, Op
<1>2. <<b>> \in Seq(TrueOps(n))
  <2> HIDE DEF b
  <2> QED BY <1>1
<1> QED
  BY <1>2 DEF BlockedByProfile

LEMMA PlainTrue ==
  ASSUME NEW n \in Nat
  PROVE  /\ \A s \in {"pending", "failed", "skipped", "superseded"} : \A q \in BOOLEAN :
              Persist(s, q) \in Seq(TrueOps(n))
         /\ <<>> \in Seq(TrueOps(n))
<1>1. ASSUME NEW s \in {"pending", "failed", "skipped", "superseded"}, NEW q \in BOOLEAN
      PROVE  Persist(s, q) \in Seq(TrueOps(n))
  <2>1. s \in Statuses /\ s \notin Receipts
    BY DEF Statuses, Receipts
  <2> QED
    BY <2>1, PersistTrue
<1>2. <<>> \in Seq(TrueOps(n))
  BY EmptySeq
<1> QED
  BY <1>1, <1>2

\* Where a turn of attempt w may leave it: at the send only from the search, with
\* an empty mailbox and leave to send.
Moves(w) ==
  \E c \in (Awaits \cup Outcomes) \ {"accepted"} :
    /\ at' = [at EXCEPT ![w] = c]
    /\ c = "send" => at[w] = "find" /\ messages = 0 /\ MaySend(w)

\* What such a turn leaves behind: w elsewhere, true writes, the world as it was.
TurnOf(w) ==
  /\ Moves(w)
  /\ io' \in Seq(TrueOps(messages))
  /\ UNCHANGED world

LEMMA EndsSomewhere ==
  ASSUME NEW w \in Workers, NEW o \in Outcomes, End(w, o)
  PROVE  Moves(w)
<1> DEFINE c == IF w = Stage THEN o ELSE "idle"
<1>1. c \in (Awaits \cup Outcomes) \ {"accepted", "send"}
  BY DEF Awaits, Outcomes
<1>2. at' = [at EXCEPT ![w] = c]
  BY DEF End
<1> HIDE DEF c
<1> QED
  BY <1>1, <1>2 DEF Moves

LEMMA GoesSomewhere ==
  ASSUME NEW w \in Workers, NEW c \in {"read", "find"}, GoOn(w, c)
  PROVE  Moves(w)
  BY DEF GoOn, Awaits, Moves

LEMMA FailTurn ==
  ASSUME NEW w \in Workers, messages \in Nat, Fail(w), UNCHANGED world
  PROVE  TurnOf(w)
<1>1. io' \in Seq(TrueOps(messages))
  BY PlainTrue DEF Fail
<1>2. "failed" \in Outcomes
  BY DEF Outcomes
<1> QED
  BY <1>1, <1>2, EndsSomewhere DEF Fail, TurnOf

LEMMA BeginTurn ==
  ASSUME NEW w \in Workers, messages \in Nat, Turn, Begin(w), UNCHANGED world
  PROVE  TurnOf(w)
<1>1. CASE confirmed
  <2>1. io' \in Seq(TrueOps(messages))
    BY <1>1, PlainTrue, EmptySeq DEF Begin, Turn
  <2> QED
    BY <1>1, <2>1, GoesSomewhere DEF Begin, TurnOf
<1>2. CASE ~confirmed
  BY <1>2, FailTurn DEF Begin
<1> QED
  BY <1>1, <1>2

LEMMA RecheckTurn ==
  ASSUME NEW w \in Workers, NEW read, NEW before \in Seq(TrueOps(messages)),
         messages \in Nat, Recheck(w, read, before), UNCHANGED world
  PROVE  TurnOf(w)
<1> DEFINE S == TrueOps(messages)
<1>1. \A s \in {"pending", "failed", "skipped", "superseded"} : before \o Persist(s, FALSE) \in Seq(S)
  BY PlainTrue, ConcatProperties
<1>2. io' \in Seq(S)
  BY <1>1, PlainTrue DEF Recheck
<1>3. {"failed", "skipped", "done"} \subseteq Outcomes
  BY DEF Outcomes
<1>4. Moves(w)
  BY <1>3, EndsSomewhere, GoesSomewhere DEF Recheck
<1> QED
  BY <1>2, <1>4 DEF TurnOf

LEMMA AfterReadTurn ==
  ASSUME NEW w \in Workers, messages \in Nat, AfterRead(w)
  PROVE  TurnOf(w) /\ UNCHANGED <<durable, asked>>
<1>1. PersistQuietWait \in Seq(TrueOps(messages)) /\ <<>> \in Seq(TrueOps(messages))
  BY PlainTrue, EmptySeq DEF PersistQuietWait
<1>2. PICK read \in {calendar, "empty", "error"} : \E far \in Far(read) :
        IF MustWait(far)
        THEN IF w = Stage
             THEN io' = PersistQuietWait /\ End(w, "blocked")
             ELSE Recheck(w, read, PersistQuietWait)
        ELSE Recheck(w, read, <<>>)
  BY DEF AfterRead
<1>6. PICK far \in Far(read) :
        IF MustWait(far)
        THEN IF w = Stage
             THEN io' = PersistQuietWait /\ End(w, "blocked")
             ELSE Recheck(w, read, PersistQuietWait)
        ELSE Recheck(w, read, <<>>)
  BY <1>2
<1>3. UNCHANGED world /\ UNCHANGED <<durable, asked>>
  BY DEF AfterRead, history
<1>4. CASE MustWait(far) /\ w = Stage
  <2>1. "blocked" \in Outcomes
    BY DEF Outcomes
  <2> QED
    BY <1>1, <1>6, <1>3, <1>4, <2>1, EndsSomewhere DEF TurnOf
<1>5. CASE ~(MustWait(far) /\ w = Stage)
  <2>1. Recheck(w, read, PersistQuietWait) \/ Recheck(w, read, <<>>)
    BY <1>6, <1>5
  <2> QED
    BY <1>1, <1>3, <2>1, RecheckTurn
<1> QED
  BY <1>4, <1>5

LEMMA AfterFindTurn ==
  ASSUME NEW w \in Workers, messages \in Nat, AfterFind(w)
  PROVE  TurnOf(w) /\ UNCHANGED <<durable, asked>>
<1>1. UNCHANGED world /\ UNCHANGED <<durable, asked>>
  BY DEF AfterFind
<1>2. PICK found \in FoundByDeliveryId :
       \/ found \in {"ambiguous", "unreadable"} /\ Fail(w)
       \/ found = "found" /\ io' = Persist("reconciled", FALSE) /\ End(w, "done")
       \/ /\ found = "none" /\ stale
          /\ io' = Persist("failed", FALSE) \o BlockedByProfile /\ End(w, "failed")
       \/ /\ found = "none" /\ ~stale /\ ~MaySend(w)
          /\ io' = Persist("pending", FALSE) /\ End(w, "done")
       \/ found = "none" /\ ~stale /\ MaySend(w) /\ ~confirmed /\ Fail(w)
       \/ found = "none" /\ ~stale /\ MaySend(w) /\ confirmed /\ GoOn(w, "send") /\ UNCHANGED io
  BY DEF AfterFind
<1>3. "failed" \in Outcomes /\ "done" \in Outcomes
  BY DEF Outcomes
<1>4. CASE Fail(w)
  BY <1>1, <1>4, FailTurn
<1>5. CASE found = "found" /\ io' = Persist("reconciled", FALSE) /\ End(w, "done")
  <2>1. messages > 0
    BY <1>5 DEF FoundByDeliveryId
  <2>2. "reconciled" \in Statuses
    BY DEF Statuses
  <2>3. io' \in Seq(TrueOps(messages))
    BY <1>5, <2>1, <2>2, PersistTrue
  <2> QED
    BY <1>1, <1>3, <1>5, <2>3, EndsSomewhere DEF TurnOf
<1>6. CASE io' = Persist("failed", FALSE) \o BlockedByProfile /\ End(w, "failed")
  <2>1. io' \in Seq(TrueOps(messages))
    BY <1>6, PlainTrue, BlockedTrue, ConcatProperties
  <2> QED
    BY <1>1, <1>3, <1>6, <2>1, EndsSomewhere DEF TurnOf
<1>7. CASE io' = Persist("pending", FALSE) /\ End(w, "done")
  <2>1. io' \in Seq(TrueOps(messages))
    BY <1>7, PlainTrue
  <2> QED
    BY <1>1, <1>3, <1>7, <2>1, EndsSomewhere DEF TurnOf
<1>8. CASE found = "none" /\ MaySend(w) /\ GoOn(w, "send") /\ UNCHANGED io
  <2>1. messages = 0 /\ at[w] = "find"
    BY <1>8 DEF FoundByDeliveryId, AfterFind
  <2>2. io' \in Seq(TrueOps(messages))
    BY <1>8, PlainTrue, EmptySeq DEF AfterFind, Turn
  <2>3. Moves(w)
    BY <1>8, <2>1, <2>2 DEF Moves, GoOn, Awaits
  <2> QED
    BY <1>1, <2>2, <2>3 DEF TurnOf
<1> QED
  BY <1>2, <1>4, <1>5, <1>6, <1>7, <1>8

LEMMA AfterSendTurn ==
  ASSUME NEW w \in Workers, messages \in Nat, messages > 0, AfterSend(w)
  PROVE  TurnOf(w) /\ UNCHANGED <<durable, asked>>
<1>1. "done" \in Outcomes /\ "sent" \in Statuses
  BY DEF Outcomes, Statuses
<1>2. io' \in Seq(TrueOps(messages))
  BY <1>1, PersistTrue DEF AfterSend
<1> QED
  BY <1>1, <1>2, EndsSomewhere DEF AfterSend, TurnOf, history

LEMMA SendFailsTurn ==
  ASSUME NEW w \in Workers, messages \in Nat, SendFails(w)
  PROVE  TurnOf(w) /\ UNCHANGED <<durable, asked>>
  BY FailTurn DEF SendFails, history

\* Every turn of an attempt but Gmail's own step.
LEMMA AttemptTurn ==
  ASSUME DeliveryInv, NEW w \in Workers, Attempt(w), ~GmailAccepts(w)
  PROVE  TurnOf(w) /\ UNCHANGED <<durable, asked>> /\ at[w] # "idle"
<1>1. messages \in Nat
  BY DeliveryAssumption DEF DeliveryInv, TypeOK
<1>2. at[w] = "accepted" => messages > 0
  BY DEF DeliveryInv, BackedOk
<1>3. AfterRead(w) \/ AfterFind(w) \/ AfterSend(w) \/ SendFails(w)
  BY DEF Attempt
<1>4. at[w] # "idle"
  BY <1>3 DEF AfterRead, AfterFind, AfterSend, SendFails
<1>5. AfterSend(w) => messages > 0
  BY <1>2 DEF AfterSend
<1> QED
  BY <1>1, <1>3, <1>4, <1>5, AfterReadTurn, AfterFindTurn, AfterSendTurn, SendFailsTurn

-----------------------------------------------------------------------------
(* DeliveryInv is inductive                                                *)

\* A turn of an attempt that belongs to the Run's status keeps DeliveryInv.
LEMMA TurnKeeps ==
  ASSUME DeliveryInv, NEW w \in Workers, TurnOf(w),
         UNCHANGED <<delivery, intent, refresh>>, asked' \in BOOLEAN, together' \in BOOLEAN,
         result' \in {result, "pending"},
         run' \in {"pending", "running"} \cup Outcomes,
         w = Stage => run' = "running" /\ run # "done",
         w # Stage => run' = run /\ run = "done"
  PROVE  DeliveryInv'
<1> USE DEF DeliveryInv
<1>1. PICK c \in (Awaits \cup Outcomes) \ {"accepted"} : at' = [at EXCEPT ![w] = c]
  BY DEF TurnOf, Moves
<1>2. io' \in Seq(TrueOps(messages)) /\ UNCHANGED world
  BY DEF TurnOf
<1>3. TrueOps(messages) \subseteq Op
  BY DEF TrueOps
<1>4. io' \in Seq(Op)
  BY <1>2, <1>3, SeqMonotonic
<1>5. result' \in Statuses
  BY DEF TypeOK, Statuses
<1>6. TypeOK'
  BY <1>1, <1>2, <1>4, <1>5 DEF TypeOK, world
<1>7. PlaceOk'
  <2>1. \A v \in Workers : v # w => at'[v] = at[v]
    BY <1>1 DEF TypeOK
  <2>2. CASE w = Stage
    <3>1. \A m \in Manuals : at[m] = "idle"
      BY <2>2 DEF PlaceOk
    <3>2. \A m \in Manuals : m \in Workers /\ m # w
      BY <2>2, DeliveryAssumption DEF Workers
    <3> QED
      BY <2>1, <2>2, <3>1, <3>2 DEF PlaceOk
  <2>3. CASE w # Stage
    <3>1. at'[Stage] = "idle"
      BY <2>1, <2>3 DEF PlaceOk, Workers
    <3> QED
      BY <2>3, <3>1 DEF PlaceOk
  <2> QED
    BY <2>2, <2>3
<1>8. BackedOk'
  <2>1. \A v \in Workers : at'[v] = "accepted" => at[v] = "accepted"
    BY <1>1 DEF TypeOK
  <2> QED
    BY <1>2, <2>1 DEF BackedOk, world
<1>9. ReceiptsAreTrue'
  BY <1>2 DEF ReceiptsAreTrue, world
<1> QED
  BY <1>6, <1>7, <1>8, <1>9

\* Steps that touch neither the artifacts nor the writes under way, and leave
\* the attempts where they are.
LEMMA StillKeeps ==
  ASSUME DeliveryInv, TypeOK', UNCHANGED <<delivery, result, at, io, messages>>, PlaceOk'
  PROVE  DeliveryInv'
  BY DEF DeliveryInv, BackedOk, ReceiptsAreTrue

LEMMA AttemptKeeps ==
  ASSUME DeliveryInv, NEW w \in Workers, Attempt(w)
  PROVE  DeliveryInv'
<1>1. CASE GmailAccepts(w)
  <2> USE DEF DeliveryInv
  <2>1. messages \in Nat /\ messages' = messages + 1 /\ messages' \in 0..MaxMessages
    BY <1>1, DeliveryAssumption DEF GmailAccepts, TypeOK
  <2>2. at' = [at EXCEPT ![w] = "accepted"] /\ "accepted" \in Awaits \cup Outcomes
    BY <1>1 DEF GmailAccepts, GoOn, Awaits
  <2>3. TypeOK'
    BY <1>1, <2>1, <2>2 DEF GmailAccepts, TypeOK, durable, history
  <2>4. PlaceOk'
    <3>1. at[w] # "idle" /\ run' = run
      BY <1>1 DEF GmailAccepts, durable
    <3>2. \A v \in Workers : at'[v] # "idle" => at[v] # "idle"
      BY <2>2, <3>1 DEF TypeOK
    <3> QED
      BY <3>1, <3>2 DEF PlaceOk, Workers
  <2>5. BackedOk'
    <3>1. TrueOps(messages) \subseteq TrueOps(messages')
      BY <2>1 DEF TrueOps
    <3>2. io' \in Seq(TrueOps(messages'))
      BY <1>1, <3>1, SeqMonotonic DEF GmailAccepts, BackedOk
    <3> QED
      BY <2>1, <3>2 DEF BackedOk
  <2>6. ReceiptsAreTrue'
    BY <1>1, <2>1 DEF ReceiptsAreTrue, GmailAccepts, durable
  <2> QED
    BY <2>3, <2>4, <2>5, <2>6
<1>2. CASE ~GmailAccepts(w)
  <2>1. TurnOf(w) /\ UNCHANGED <<durable, asked>> /\ at[w] # "idle"
    BY <1>2, AttemptTurn
  <2>2. w = Stage => run = "running"
    BY <2>1 DEF DeliveryInv, PlaceOk
  <2>3. w # Stage => run = "done"
    BY <2>1 DEF DeliveryInv, PlaceOk, Workers
  <2>4. UNCHANGED <<run, delivery, result, intent, refresh, asked>>
    BY <2>1 DEF durable
  <2>5. run' \in {"pending", "running"} \cup Outcomes /\ asked' \in BOOLEAN
    BY <2>4 DEF DeliveryInv, TypeOK
  <2>6. together' \in BOOLEAN
    BY <1>2 DEF Attempt, AfterRead, AfterFind, AfterSend, SendFails, history, DeliveryInv, TypeOK
  <2> QED
    BY <2>1, <2>2, <2>3, <2>4, <2>5, <2>6, TurnKeeps
<1> QED
  BY <1>1, <1>2

LEMMA RunStepKeeps ==
  ASSUME DeliveryInv, RunStep \/ RetryFailed
  PROVE  DeliveryInv'
<1> USE DEF DeliveryInv
<1>0. messages \in Nat /\ Stage \in Workers
  BY DeliveryAssumption DEF TypeOK, Workers
<1>1. CASE StageDelivers \/ StageGenerates
  <2>1. Turn /\ Begin(Stage) /\ UNCHANGED world /\ run = "pending" /\ run' = "running"
    BY <1>1 DEF StageDelivers, StageGenerates
  <2>2. UNCHANGED <<delivery, intent, refresh>> /\ result' \in {result, "pending"}
    BY <1>1 DEF StageDelivers, StageGenerates
  <2>3. asked' \in BOOLEAN /\ together' \in BOOLEAN
    BY <1>1 DEF StageDelivers, StageGenerates, TypeOK, history
  <2> QED
    BY <1>0, <2>1, <2>2, <2>3, BeginTurn, TurnKeeps
<1>2. CASE GenerateFails
  <2>1. TypeOK'
    BY <1>2 DEF GenerateFails, TypeOK, world, history, Outcomes
  <2>2. PlaceOk'
    BY <1>2 DEF GenerateFails, PlaceOk
  <2> QED
    BY <1>2, <2>1, <2>2, StillKeeps DEF GenerateFails, world
<1>3. CASE StageEnds
  <2>1. at' = [at EXCEPT ![Stage] = "idle"] /\ run' = at[Stage] /\ at[Stage] \in Outcomes
    BY <1>3 DEF StageEnds, GoOn
  <2>2. TypeOK'
    BY <1>0, <1>3, <2>1 DEF StageEnds, TypeOK, world, history, Awaits
  <2>3. at[Stage] # "idle"
    BY <2>1 DEF Outcomes
  <2>4. PlaceOk'
    BY <1>0, <2>1, <2>3, DeliveryAssumption DEF PlaceOk, TypeOK, Workers
  <2>5. BackedOk'
    <3>1. \A v \in Workers : at'[v] = "accepted" => at[v] = "accepted"
      BY <2>1 DEF TypeOK
    <3> QED
      BY <1>3, <3>1 DEF StageEnds, BackedOk, world
  <2>6. ReceiptsAreTrue'
    BY <1>3 DEF StageEnds, ReceiptsAreTrue, world
  <2> QED
    BY <2>2, <2>4, <2>5, <2>6
<1>4. CASE QuietWaitOver
  <2>1. TypeOK'
    BY <1>4 DEF QuietWaitOver, TypeOK, world, history
  <2>2. PlaceOk'
    BY <1>4 DEF QuietWaitOver, PlaceOk
  <2> QED
    BY <1>4, <2>1, <2>2, StillKeeps DEF QuietWaitOver, world
<1>5. CASE Recover
  <2>1. TypeOK'
    BY <1>5 DEF Recover, TypeOK, world, history
  <2>2. PlaceOk'
    BY <1>5 DEF Recover, PlaceOk
  <2> QED
    BY <1>5, <2>1, <2>2, StillKeeps DEF Recover, world
<1>6. CASE RetryFailed
  <2>1. intent' \in BOOLEAN /\ run' \in {"pending", "running"} \cup Outcomes
    BY <1>6 DEF RetryFailed, Outcomes
  <2>2. TypeOK'
    BY <1>6, <2>1 DEF RetryFailed, TypeOK, world, history
  <2>3. PlaceOk'
    BY <1>6 DEF RetryFailed, PlaceOk
  <2> QED
    BY <1>6, <2>2, <2>3, StillKeeps DEF RetryFailed, world
<1> QED
  BY <1>1, <1>2, <1>3, <1>4, <1>5, <1>6 DEF RunStep

LEMMA SendDeferredKeeps ==
  ASSUME DeliveryInv, NEW m \in Manuals, SendDeferred(m)
  PROVE  DeliveryInv'
<1>1. messages \in Nat /\ m \in Workers /\ m # Stage
  BY DeliveryAssumption DEF DeliveryInv, TypeOK, Workers
<1>2. UNCHANGED <<run, delivery, result, intent, refresh>> /\ UNCHANGED world /\ asked'
  BY DEF SendDeferred, durable
<1>3. Turn /\ Begin(m) /\ run = "done"
  BY DEF SendDeferred
<1>4. run' \in {"pending", "running"} \cup Outcomes
  BY <1>2 DEF DeliveryInv, TypeOK
<1>5. asked' \in BOOLEAN /\ together' \in BOOLEAN
  BY DEF SendDeferred, DeliveryInv, TypeOK
<1> QED
  BY <1>1, <1>2, <1>3, <1>4, <1>5, BeginTurn, TurnKeeps

LEMMA WriteKeeps ==
  ASSUME DeliveryInv, WriteArtifact
  PROVE  DeliveryInv'
<1> USE DEF DeliveryInv
<1>1. /\ Head(io) \in TrueOps(messages)
      /\ Tail(io) \in Seq(TrueOps(messages))
      /\ Tail(io) \in Seq(Op)
  BY HeadTailProperties DEF WriteArtifact, BackedOk, TypeOK
<1>2. PICK op \in TrueOps(messages) :
        /\ delivery' = IF op.file = "delivery" THEN op.to ELSE delivery
        /\ result' = IF op.file = "result" /\ result # "absent" THEN op.to ELSE result
        /\ refresh' = (refresh \/ op.file = "refresh")
  BY <1>1 DEF WriteArtifact
<1>3. io' = Tail(io) /\ UNCHANGED <<run, intent, at, world, asked, together>>
  BY DEF WriteArtifact, history
<1>4. op \in Op /\ (Receipt(op) => messages > 0)
  BY <1>2 DEF TrueOps
<1>5. delivery' \in Delivery /\ result' \in Statuses
  BY <1>2, <1>4 DEF Op, TypeOK
<1>6. TypeOK'
  BY <1>1, <1>2, <1>3, <1>5 DEF TypeOK, world
<1>7. PlaceOk' /\ BackedOk'
  BY <1>1, <1>3 DEF PlaceOk, BackedOk, world
<1>8. ReceiptsAreTrue'
  <2>1. CASE delivery'.status \in Receipts
    BY <1>2, <1>3, <1>4, <2>1 DEF ReceiptsAreTrue, Receipt, Receipts, world
  <2>2. CASE result' \in Receipts
    BY <1>2, <1>3, <1>4, <2>2 DEF ReceiptsAreTrue, Receipt, Receipts, world
  <2> QED
    BY <2>1, <2>2 DEF ReceiptsAreTrue, Receipts
<1> QED
  BY <1>6, <1>7, <1>8

LEMMA CrashKeeps ==
  ASSUME DeliveryInv, Crash
  PROVE  DeliveryInv'
<1> USE DEF DeliveryInv
<1>1. io' \in Seq(Op) /\ io' \in Seq(TrueOps(messages))
  BY EmptySeq DEF Crash
<1>2. at' = [w \in Workers |-> "idle"] /\ "idle" \in Awaits
  BY DEF Crash, Awaits
<1>3. TypeOK'
  BY <1>1, <1>2 DEF Crash, TypeOK, durable, world, history
<1>4. PlaceOk' /\ BackedOk'
  BY <1>1, <1>2 DEF Crash, PlaceOk, BackedOk, Workers, world
<1>5. ReceiptsAreTrue'
  BY DEF Crash, ReceiptsAreTrue, durable, world
<1> QED
  BY <1>3, <1>4, <1>5

LEMMA EnvironmentKeeps ==
  ASSUME DeliveryInv, Environment
  PROVE  DeliveryInv'
<1>1. UNCHANGED <<run, delivery, result, at, io, messages>>
  BY DEF Environment, CalendarChanges, StartDraws, OwnerConfirmationChanges, ProfileChanges, durable
<1>2. UNCHANGED <<intent, refresh, asked, together, revision>>
  BY DEF Environment, CalendarChanges, StartDraws, OwnerConfirmationChanges, ProfileChanges,
         durable, history
<1>3. calendar' \in Occurrences /\ near' \in BOOLEAN /\ confirmed' \in BOOLEAN /\ stale' \in BOOLEAN
  BY DEF Environment, CalendarChanges, StartDraws, OwnerConfirmationChanges, ProfileChanges,
         DeliveryInv, TypeOK
<1>4. TypeOK'
  BY <1>1, <1>2, <1>3 DEF DeliveryInv, TypeOK
<1>5. PlaceOk'
  BY <1>1 DEF DeliveryInv, PlaceOk
<1> QED
  BY <1>1, <1>4, <1>5, StillKeeps

LEMMA InitDelivery ==
  Init => DeliveryInv
<1> SUFFICES ASSUME Init PROVE DeliveryInv
  OBVIOUS
<1>1. \A S : io \in Seq(S)
  BY EmptySeq DEF Init
<1>2. TypeOK
  <2>1. delivery \in Delivery /\ result \in Statuses
    BY DEF Init, Delivery, Statuses
  <2>2. at \in [Workers -> Awaits \cup Outcomes]
    BY DEF Init, Awaits
  <2>3. messages \in 0..MaxMessages
    BY DeliveryAssumption DEF Init
  <2>4. intent \in BOOLEAN /\ refresh \in BOOLEAN /\ stale \in BOOLEAN
        /\ asked \in BOOLEAN /\ together \in BOOLEAN
    BY DEF Init
  <2>5. run \in {"pending", "running"} \cup Outcomes /\ calendar \in Occurrences
    BY DEF Init, Occurrences
  <2> QED
    BY <1>1, <2>1, <2>2, <2>3, <2>4, <2>5 DEF Init, TypeOK
<1>3. PlaceOk /\ BackedOk /\ ReceiptsAreTrue
  BY <1>1 DEF Init, PlaceOk, BackedOk, ReceiptsAreTrue, Workers
<1> QED
  BY <1>2, <1>3 DEF DeliveryInv

LEMMA NextDelivery ==
  DeliveryInv /\ [Next]_vars => DeliveryInv'
<1> SUFFICES ASSUME DeliveryInv, [Next]_vars PROVE DeliveryInv'
  OBVIOUS
<1>1. CASE UNCHANGED vars
  BY <1>1 DEF DeliveryInv, TypeOK, PlaceOk, BackedOk, ReceiptsAreTrue,
              vars, durable, world, history
<1> QED
  BY <1>1, AttemptKeeps, RunStepKeeps, SendDeferredKeeps, WriteKeeps, CrashKeeps, EnvironmentKeeps
     DEF Next

LEMMA DeliveryInvariant == Spec => []DeliveryInv
  BY InitDelivery, NextDelivery, PTL DEF Spec

\* Every reachable state of a delivery is well-typed, for every set of owner
\* requests in flight (deliver.ts, host.ts).
THEOREM DeliveryTypes == Spec => []TypeOK
<1>1. DeliveryInv => TypeOK
  BY DEF DeliveryInv
<1> QED
  BY <1>1, DeliveryInvariant, PTL

\* Whatever attempts overlap, a receipt is recorded only for a message Gmail
\* accepted: no lost acknowledgement, crash or retry forges one.
THEOREM ReceiptsTrue == Spec => []ReceiptsAreTrue
<1>1. DeliveryInv => ReceiptsAreTrue
  BY DEF DeliveryInv
<1> QED
  BY <1>1, DeliveryInvariant, PTL

-----------------------------------------------------------------------------
(* One message                                                             *)

\* An empty search stays true until the send it allowed, unless a rival's message
\* came between; rivals are remembered.
SendOk ==
  /\ Rivals => together
  /\ \A w \in Workers : at[w] = "send" /\ messages > 0 => together
  /\ OneMessage

LEMMA TurnSends ==
  ASSUME DeliveryInv, SendOk, NEW w \in Workers, TurnOf(w),
         together => together', at[w] = "find" => (Rivals' => together')
  PROVE  SendOk'
<1>1. PICK c \in (Awaits \cup Outcomes) \ {"accepted"} :
        at' = [at EXCEPT ![w] = c] /\ (c = "send" => at[w] = "find" /\ messages = 0)
  BY DEF TurnOf, Moves
<1>2. messages' = messages /\ messages \in Nat
  BY DeliveryAssumption DEF TurnOf, world, DeliveryInv, TypeOK
<1>3. \A v \in Workers : at'[v] = "send" /\ c # "send" => at[v] = "send"
  BY <1>1 DEF DeliveryInv, TypeOK
<1>4. Rivals' => together'
  BY <1>1, <1>3 DEF SendOk, Rivals, Workers
<1>5. \A v \in Workers : at'[v] = "send" /\ messages' > 0 => together'
  BY <1>1, <1>2, <1>3 DEF SendOk
<1> QED
  BY <1>2, <1>4, <1>5 DEF SendOk, OneMessage

LEMMA AcceptSends ==
  ASSUME DeliveryInv, SendOk, NEW w \in Workers, GmailAccepts(w)
  PROVE  SendOk'
<1>1. /\ at[w] = "send" /\ messages' = messages + 1 /\ messages \in Nat
      /\ at' = [at EXCEPT ![w] = "accepted"] /\ together' = together
  BY DeliveryAssumption DEF GmailAccepts, GoOn, history, DeliveryInv, TypeOK
<1>2. \A v \in Workers : at'[v] = "send" => v # w /\ at[v] = "send"
  BY <1>1 DEF DeliveryInv, TypeOK
<1>3. Rivals' => together'
  BY <1>1, <1>2 DEF SendOk, Rivals, Workers
<1>4. \A v \in Workers : v # w /\ at[v] = "send" => together
  BY <1>1 DEF SendOk, Rivals, Workers, DeliveryInv, PlaceOk
<1>5. messages' > 1 => together'
  BY <1>1 DEF SendOk
<1> QED
  BY <1>1, <1>2, <1>3, <1>4, <1>5 DEF SendOk, OneMessage

LEMMA NextSend ==
  ASSUME DeliveryInv, SendOk, [Next]_vars
  PROVE  SendOk'
<1>0. messages \in Nat /\ Stage \in Workers /\ Manuals \subseteq Workers
  BY DeliveryAssumption DEF DeliveryInv, TypeOK, Workers
<1>1. ASSUME NEW w \in Workers, Attempt(w), ~GmailAccepts(w)
      PROVE  SendOk'
  <2>1. together => together'
    BY <1>1 DEF Attempt, AfterRead, AfterFind, AfterSend, SendFails, history
  <2>2. at[w] = "find" => (Rivals' => together')
    BY <1>1 DEF Attempt, AfterRead, AfterFind, AfterSend, SendFails
  <2> QED
    BY <1>1, <2>1, <2>2, AttemptTurn, TurnSends
<1>2. CASE StageDelivers \/ StageGenerates
  <2>1. Turn /\ Begin(Stage) /\ UNCHANGED world /\ together' = together /\ at[Stage] = "idle"
    BY <1>2 DEF StageDelivers, StageGenerates, history
  <2> QED
    BY <1>0, <2>1, BeginTurn, TurnSends
<1>3. ASSUME NEW m \in Manuals, SendDeferred(m)
      PROVE  SendOk'
  <2>1. Turn /\ Begin(m) /\ UNCHANGED world /\ together' = together /\ at[m] = "idle"
    BY <1>3 DEF SendDeferred
  <2> QED
    BY <1>0, <2>1, BeginTurn, TurnSends
<1>4. CASE StageEnds \/ Crash
  <2>1. UNCHANGED <<messages, together>>
    BY <1>4 DEF StageEnds, Crash, world, history
  <2>2. \A v \in Workers : at'[v] = "send" => at[v] = "send"
    BY <1>4 DEF StageEnds, Crash, GoOn, DeliveryInv, TypeOK
  <2> QED
    BY <2>1, <2>2 DEF SendOk, OneMessage, Rivals, Workers
<1>5. CASE GenerateFails \/ QuietWaitOver \/ Recover \/ RetryFailed \/ WriteArtifact \/ Environment
           \/ UNCHANGED vars
  <2>1. UNCHANGED <<at, messages, together>>
    BY <1>5 DEF GenerateFails, QuietWaitOver, Recover, RetryFailed, WriteArtifact, Environment,
                CalendarChanges, StartDraws, OwnerConfirmationChanges, ProfileChanges, world, vars,
                history
  <2> QED
    BY <2>1 DEF SendOk, OneMessage, Rivals
<1> QED
  BY <1>1, <1>2, <1>3, <1>4, <1>5, AcceptSends DEF Next, RunStep

\* Crashes, lost acknowledgements, retries, resumed waits and any number of
\* overlapping owner requests: a second message with the delivery identity means
\* that two owner requests stood in the send at once (deliver.ts,
\* findByDeliveryId before send).
THEOREM OneMessageSent == Spec => []OneMessage
<1>1. Init => SendOk
  BY DEF Init, SendOk, OneMessage, Rivals, Workers
<1>2. DeliveryInv /\ SendOk /\ [Next]_vars => SendOk'
  BY NextSend
<1>3. SendOk => OneMessage
  BY DEF SendOk
<1> QED
  BY <1>1, <1>2, <1>3, DeliveryInvariant, PTL DEF Spec

-----------------------------------------------------------------------------
(* Nothing unasked                                                         *)

UnaskedOk ==
  ~AutoSend /\ ~asked =>
    /\ messages = 0 /\ ~intent
    /\ \A m \in Manuals : at[m] = "idle"
    /\ at[Stage] \notin {"send", "accepted"}

LEMMA NextUnasked ==
  ASSUME DeliveryInv, UnaskedOk, [Next]_vars
  PROVE  UnaskedOk'
<1>0. messages \in Nat /\ Stage \in Workers /\ Manuals \subseteq Workers /\ Stage \notin Manuals
  BY DeliveryAssumption DEF DeliveryInv, TypeOK, Workers
<1> SUFFICES ASSUME ~AutoSend, ~asked' PROVE UnaskedOk'
  BY DEF UnaskedOk
<1>1. ASSUME TurnOf(Stage), UNCHANGED <<intent, asked>>
      PROVE  UnaskedOk'
  <2>1. PICK c \in (Awaits \cup Outcomes) \ {"accepted"} :
          at' = [at EXCEPT ![Stage] = c] /\ (c = "send" => MaySend(Stage))
    BY <1>1 DEF TurnOf, Moves
  <2>2. ~MaySend(Stage)
    BY <1>1 DEF UnaskedOk, MaySend
  <2>3. at'[Stage] \notin {"send", "accepted"} /\ \A m \in Manuals : at'[m] = at[m]
    BY <1>0, <2>1, <2>2 DEF DeliveryInv, TypeOK
  <2> QED
    BY <1>1, <2>3 DEF UnaskedOk, TurnOf, world
<1>2. ASSUME NEW w \in Workers, Attempt(w)
      PROVE  UnaskedOk'
  <2>1. asked' = asked /\ intent' = intent
    BY <1>2 DEF Attempt, AfterRead, AfterFind, GmailAccepts, AfterSend, SendFails, durable, history
  <2>2. at[w] # "idle"
    BY <1>2 DEF Attempt, AfterRead, AfterFind, GmailAccepts, AfterSend, SendFails
  <2>3. w = Stage /\ at[Stage] \notin {"send", "accepted"}
    BY <2>1, <2>2 DEF UnaskedOk, Workers
  <2>4. ~GmailAccepts(w)
    BY <2>3 DEF GmailAccepts
  <2> QED
    BY <1>1, <1>2, <2>1, <2>3, <2>4, AttemptTurn
<1>3. CASE StageDelivers \/ StageGenerates
  <2>1. Turn /\ Begin(Stage) /\ UNCHANGED world /\ UNCHANGED <<intent, asked>>
    BY <1>3 DEF StageDelivers, StageGenerates, history
  <2> QED
    BY <1>0, <1>1, <2>1, BeginTurn
<1>4. CASE StageEnds
  <2>1. at' = [at EXCEPT ![Stage] = "idle"] /\ UNCHANGED <<messages, intent, asked>>
    BY <1>4 DEF StageEnds, GoOn, world, history
  <2>2. at'[Stage] = "idle" /\ \A m \in Manuals : at'[m] = at[m]
    BY <1>0, <2>1 DEF DeliveryInv, TypeOK
  <2> QED
    BY <2>1, <2>2 DEF UnaskedOk
<1>5. CASE Crash
  BY <1>0, <1>5 DEF Crash, UnaskedOk, world, durable, history
<1>6. CASE GenerateFails \/ QuietWaitOver \/ Recover \/ WriteArtifact \/ Environment
           \/ UNCHANGED vars
  <2>1. UNCHANGED <<at, messages, intent, asked>>
    BY <1>6 DEF GenerateFails, QuietWaitOver, Recover, WriteArtifact, Environment, CalendarChanges,
                StartDraws, OwnerConfirmationChanges, ProfileChanges, world, vars, durable,
                history
  <2> QED
    BY <2>1 DEF UnaskedOk
<1>7. ~RetryFailed /\ \A m \in Manuals : ~SendDeferred(m)
  BY DEF RetryFailed, SendDeferred
<1> QED
  BY <1>2, <1>3, <1>4, <1>5, <1>6, <1>7 DEF Next, RunStep

\* With per-Brief auto-send off, no preparation, recovery or resumed wait ever
\* mails a Brief the owner did not ask for (isManualSendAllowed).
THEOREM NothingUnasked == Spec => []NoUnaskedMessage
<1>1. Init => UnaskedOk
  BY DEF Init, UnaskedOk, Workers
<1>2. DeliveryInv /\ UnaskedOk /\ [Next]_vars => UnaskedOk'
  BY NextUnasked
<1>3. UnaskedOk => NoUnaskedMessage
  BY DEF UnaskedOk, NoUnaskedMessage
<1> QED
  BY <1>1, <1>2, <1>3, DeliveryInvariant, PTL DEF Spec

-----------------------------------------------------------------------------
(* Settled deliveries                                                      *)

\* Every turn of an attempt takes it elsewhere.
LEMMA AttemptGoesOn ==
  ASSUME TypeOK, NEW w \in Workers, Attempt(w)
  PROVE  /\ at[w] # "idle" /\ at'[w] # at[w]
         /\ \A x \in Workers : x # w => at'[x] = at[x]
<1>1. at \in [Workers -> Awaits \cup Outcomes]
  BY DEF TypeOK
<1>2. CASE AfterRead(w)
  BY <1>1, <1>2 DEF AfterRead, Recheck, End, GoOn
<1>3. CASE AfterFind(w)
  BY <1>1, <1>3 DEF AfterFind, Fail, End, GoOn
<1>4. CASE GmailAccepts(w)
  BY <1>1, <1>4 DEF GmailAccepts, GoOn
<1>5. CASE AfterSend(w) \/ SendFails(w)
  BY <1>1, <1>5 DEF AfterSend, SendFails, Fail, End
<1> QED
  BY <1>2, <1>3, <1>4, <1>5 DEF Attempt

LEMMA SettledStep ==
  ASSUME DeliveryInv, [Next]_vars, Settled
  PROVE  /\ UNCHANGED <<run, delivery, result>>
         /\ \A w \in Workers : at[w] = "idle" => at'[w] = "idle"
         /\ UNCHANGED <<io, messages>> \/ \E m \in Manuals : at[m] # "idle" /\ at'[m] # at[m]
<1>1. /\ run \in {"done", "skipped"} /\ io = <<>>
      /\ result \notin {"pending", "failed"}
  BY DEF Settled
<1>2. at[Stage] = "idle" /\ at \in [Workers -> Awaits \cup Outcomes]
  BY <1>1 DEF DeliveryInv, PlaceOk, TypeOK
<1>3. ~RunStep /\ ~RetryFailed
  BY <1>1, <1>2 DEF RunStep, RetryFailed, StageDelivers, StageGenerates, GenerateFails, StageEnds,
                    QuietWaitOver, Recover, Outcomes
<1>4. ~WriteArtifact /\ \A m \in Manuals : ~SendDeferred(m)
  BY <1>1 DEF WriteArtifact, SendDeferred
<1>5. ASSUME NEW w \in Workers, Attempt(w)
      PROVE  /\ UNCHANGED <<run, delivery, result>>
             /\ \A x \in Workers : at[x] = "idle" => at'[x] = "idle"
             /\ w \in Manuals /\ at[w] # "idle" /\ at'[w] # at[w]
  <2>1. at[w] # "idle" /\ UNCHANGED <<run, delivery, result>>
    BY <1>5 DEF Attempt, AfterRead, AfterFind, GmailAccepts, AfterSend, SendFails, durable
  <2>2. w \in Manuals
    BY <1>2, <2>1 DEF Workers
  <2>3. at'[w] # at[w] /\ \A x \in Workers : x # w => at'[x] = at[x]
    BY <1>5, AttemptGoesOn DEF DeliveryInv
  <2> QED
    BY <2>1, <2>2, <2>3
<1>6. CASE Crash
  BY <1>1, <1>6 DEF Crash, durable, world
<1>7. CASE Environment \/ UNCHANGED vars
  BY <1>7 DEF Environment, CalendarChanges, StartDraws, OwnerConfirmationChanges,
              ProfileChanges, vars, durable, world
<1> QED
  BY <1>3, <1>4, <1>5, <1>6, <1>7 DEF Next

\* A settled delivery of a finished Run is final: the Stage, the sweep, recovery,
\* later owner requests and restarts change neither its records nor the mailbox
\* and begin no attempt; only an owner request already under way when it settled
\* goes on (retryRun, sendDeferredBriefEmail).
THEOREM SettledIsFinal == Spec => SettledStays
<1>1. DeliveryInv /\ [Next]_vars
        => [Settled =>
              /\ UNCHANGED <<run, delivery, result>>
              /\ \A w \in Workers : at[w] = "idle" => at'[w] = "idle"
              /\ \/ UNCHANGED <<io, messages>>
                 \/ \E m \in Manuals : at[m] # "idle" /\ at'[m] # at[m]]_vars
  BY SettledStep
<1> QED
  BY <1>1, DeliveryInvariant, PTL DEF Spec, SettledStays
=============================================================================
