----------------------------- MODULE ModelCalls -----------------------------
(***************************************************************************)
(* Model calls under the Shell's admission and budgets: complete() of      *)
(* makeCompleteJson (llm/providers.ts), ModelAdmissionService              *)
(* (llm/admission.ts) and ModelBudgetLedger (llm/budget.ts).               *)
(*                                                                         *)
(* A call reserves its estimate, waits for a slot, goes on the wire, may    *)
(* back off once without its slot, and settles.  pump() is the loop at the  *)
(* end of every turn that touches slots or queues: one step per iteration,  *)
(* and no other turn begins while it runs.                                  *)
(***************************************************************************)
EXTENDS Integers, Sequences, FiniteSets, FiniteSetsExt

CONSTANTS
  Calls,          \* completions that may be under way at the same time
  Ops,            \* operations with a budget
  NoOp,           \* the operation of a call without one: nothing is reserved
  Campaign,       \* the account every operation is charged to as well
  MaxActive,      \* maxActiveAttempts
  Threshold,      \* starvationThresholdConsecutive
  Estimate,       \* what a call reserves
  Costs,          \* what a provider may bill for it
  Extension,      \* dollars the owner adds to an operation at a time
  Allowance,      \* [Ops \cup {Campaign} -> Nat]: what each account starts with
  MaxExtensions   \* bound on the owner's extensions

Accounts == Ops \cup {Campaign}

ASSUME CallsAssumption ==
  /\ IsFiniteSet(Calls) /\ IsFiniteSet(Ops)
  /\ NoOp \notin Accounts /\ Campaign \notin Ops
  /\ MaxActive \in Nat \ {0} /\ Threshold \in Nat \ {0}
  /\ Estimate \in Nat /\ Costs \subseteq Nat
  /\ Allowance \in [Accounts -> Nat]
  /\ Extension \in Nat /\ MaxExtensions \in Nat

VARIABLES
  call,        \* the calls: where they stand and what they hold
  normal,      \* normalQueue
  urgent,      \* timeSensitiveQueue
  active,      \* activeLeases: the n-th lease of a call
  streak,      \* consecutiveTimeSensitive, as far as it is looked at
  pumping,     \* pump() is running
  book,        \* the ledger: allowed, spent, reserved and remaining dollars
  orphans,     \* reservations whose call is gone
  extensions,  \* how often an operation was extended
  passed,      \* history: urgent grants since a normal request is the next one
  overrun      \* history: what was billed above the estimates

admission == <<normal, urgent, active, streak, pumping>>
ledger == <<book, orphans, extensions, overrun>>
vars == <<call, admission, ledger, passed>>

Steps == {"idle", "queued", "wire", "asleep", "requeued", "failing"}
Ages == {"fresh", "aged", "expired"}

\* age: how long its request is queued; leases: how many it was granted; bound:
\* the one its release() gives back.
Call == [step : Steps, op : Ops \cup {NoOp}, urgent : BOOLEAN, age : Ages,
         leases : Nat, bound : Nat]
Idle == [step |-> "idle", op |-> NoOp, urgent |-> FALSE, age |-> "fresh",
         leases |-> 0, bound |-> 0]

Statuses == {"absent", "active", "cancelled"}
Account == [status : Statuses, allowed : Nat, spent : Nat, reserved : Nat, remaining : Nat]

-----------------------------------------------------------------------------
(* The ledger                                                              *)

NonNegative(n) == IF n < 0 THEN 0 ELSE n
AccountsOf(o) == IF o = NoOp THEN {} ELSE {o, Campaign}

\* Mutant of Reserved: what is reserved does not lower what remains.
ReservedFreely(a) == [a EXCEPT !.status = "active", !.reserved = @ + Estimate]

\* reserve, once the checks are passed, in an account.
Reserved(a) ==
  [a EXCEPT !.status = "active", !.reserved = @ + Estimate,
            !.remaining = NonNegative(a.allowed - (a.spent + a.reserved + Estimate))]

\* Mutant of Settled: the reservation stays.
SettledStillReserved(a, cost) ==
  [a EXCEPT !.spent = @ + cost,
            !.remaining = NonNegative(a.allowed - (a.spent + cost + a.reserved))]

\* settle, in an account.
Settled(a, cost) ==
  LET reserved == NonNegative(a.reserved - Estimate) IN
  [a EXCEPT !.spent = @ + cost, !.reserved = reserved,
            !.remaining = NonNegative(a.allowed - (a.spent + cost + reserved))]

\* A call of o is billed: with what its provider reports, or with the estimate.
Settle(o, cost) ==
  /\ book' = [a \in Accounts |-> IF a \in AccountsOf(o) THEN Settled(book[a], cost) ELSE book[a]]
  /\ overrun' = [a \in Accounts |->
       IF a \in AccountsOf(o) THEN overrun[a] + NonNegative(cost - Estimate) ELSE overrun[a]]
  /\ UNCHANGED <<orphans, extensions>>

-----------------------------------------------------------------------------
(* Queues and slots                                                        *)

Turn == ~pumping

Enqueue(c, isUrgent) ==
  /\ IF isUrgent THEN urgent' = Append(urgent, c) /\ UNCHANGED normal
     ELSE normal' = Append(normal, c) /\ UNCHANGED urgent
  /\ pumping' = TRUE
  /\ UNCHANGED <<active, streak>>

\* A queue once the requests of S are filtered out, the others in their order.
Without(queue, S) ==
  LET Kept[i \in 0..Len(queue)] ==
        IF i = 0 THEN <<>>
        ELSE IF queue[i] \in S THEN Kept[i - 1] ELSE Append(Kept[i - 1], queue[i])
  IN  Kept[Len(queue)]

\* Mutant of Release: the slot is given back and nobody is told.
ReleaseQuietly(c) ==
  /\ active' = active \ {<<c, call[c].bound>>}
  /\ UNCHANGED <<normal, urgent, streak, pumping>>

\* lease.release: of a lease already gone, nothing but the pump.
Release(c) ==
  /\ active' = active \ {<<c, call[c].bound>>}
  /\ pumping' = TRUE
  /\ UNCHANGED <<normal, urgent, streak>>

Full == Cardinality(active) >= MaxActive

\* Mutant of NextUp: priorities without the starvation guard.
UrgentFirst == IF urgent # <<>> THEN "urgent" ELSE "normal"

\* selectNextRequest: an aged normal request, then the normal one a streak of
\* urgent ones has held up, then urgent before normal.
NextUp ==
  IF normal # <<>> /\ call[Head(normal)].age # "fresh" THEN "normal"
  ELSE IF normal # <<>> /\ urgent # <<>> /\ streak >= Threshold THEN "normal"
  ELSE IF urgent # <<>> THEN "urgent"
  ELSE "normal"

Selected == IF NextUp = "urgent" THEN Head(urgent) ELSE Head(normal)

\* One iteration takes the selected request off its queue.
Shift ==
  /\ pumping /\ ~Full
  /\ normal # <<>> \/ urgent # <<>>
  /\ IF NextUp = "urgent"
     THEN /\ urgent' = Tail(urgent) /\ UNCHANGED normal
          /\ streak' = IF streak < Threshold THEN streak + 1 ELSE streak
     ELSE /\ normal' = Tail(normal) /\ UNCHANGED urgent
          /\ streak' = 0
  /\ UNCHANGED pumping

\* The lease the call gives back in the end: the backoff of the first lease
\* replaces it by the fresh one, the backoff of a fresh lease would not.
BoundAfterGrant(k) == IF k.bound < 2 THEN k.leases + 1 ELSE k.bound

PumpGrants ==
  /\ Shift
  /\ LET c == Selected IN
       /\ call[c].age # "expired"
       /\ active' = active \cup {<<c, call[c].leases + 1>>}
       /\ call' = [call EXCEPT ![c].step = "wire", ![c].age = "fresh", ![c].leases = @ + 1,
                               ![c].bound = BoundAfterGrant(call[c])]
  /\ passed' = IF NextUp = "urgent" /\ normal # <<>> THEN passed + 1 ELSE 0
  /\ UNCHANGED ledger

\* A request that waited too long is rejected: before its first slot nothing
\* settles the reservation, after a backoff the call fails.
PumpExpires ==
  /\ Shift
  /\ LET c == Selected IN
       /\ call[c].age = "expired"
       /\ IF call[c].step = "queued"
          THEN /\ call' = [call EXCEPT ![c] = Idle]
               /\ orphans' = [o \in Ops |-> IF o = call[c].op THEN orphans[o] + 1 ELSE orphans[o]]
          ELSE call' = [call EXCEPT ![c].step = "failing", ![c].age = "fresh"] /\ UNCHANGED orphans
  /\ passed' = IF NextUp = "urgent" /\ normal # <<>> THEN passed ELSE 0
  /\ UNCHANGED <<active, book, extensions, overrun>>

PumpEnds ==
  /\ pumping
  /\ Full \/ (normal = <<>> /\ urgent = <<>>)
  /\ pumping' = FALSE
  /\ UNCHANGED <<call, normal, urgent, active, streak, ledger, passed>>

-----------------------------------------------------------------------------
(* A call                                                                  *)

\* complete() up to the admission queue: the estimate is reserved with the
\* operation and with the campaign before a slot is asked for.
Complete(c, o, isUrgent) ==
  /\ Turn /\ call[c].step = "idle"
  /\ \A a \in AccountsOf(o) : book[a].status # "cancelled" /\ book[a].remaining >= Estimate
  /\ book' = [a \in Accounts |-> IF a \in AccountsOf(o) THEN Reserved(book[a]) ELSE book[a]]
  /\ call' = [call EXCEPT ![c] = [Idle EXCEPT !.step = "queued", !.op = o, !.urgent = isUrgent]]
  /\ Enqueue(c, isUrgent)
  /\ UNCHANGED <<orphans, extensions, overrun, passed>>

\* A refused call leaves the operation's record behind.
CompleteRefused(o) ==
  /\ Turn
  /\ book[o].status = "absent"
  /\ \E a \in AccountsOf(o) : book[a].remaining < Estimate
  /\ book' = [book EXCEPT ![o].status = "active"]
  /\ UNCHANGED <<call, admission, orphans, extensions, passed, overrun>>

\* The provider answers, with or without usage.
Answered(c, cost) ==
  /\ Turn /\ call[c].step = "wire"
  /\ Release(c)
  /\ Settle(call[c].op, cost)
  /\ call' = [call EXCEPT ![c] = Idle]
  /\ UNCHANGED passed

\* The attempt or the call fails for good, its ceiling included.
Fails(c) ==
  /\ Turn /\ call[c].step \in {"wire", "failing"}
  /\ Release(c)
  /\ Settle(call[c].op, Estimate)
  /\ call' = [call EXCEPT ![c] = Idle]
  /\ UNCHANGED passed

\* Mutant of BacksOff: a call may back off again.
BacksOffAgain(c) ==
  /\ Turn /\ call[c].step = "wire"
  /\ active' = active \ {<<c, call[c].leases>>}
  /\ call' = [call EXCEPT ![c].step = "asleep"]
  /\ pumping' = TRUE
  /\ UNCHANGED <<normal, urgent, streak, ledger, passed>>

\* lease.backoff: one same-binding retry per call; the slot is free meanwhile.
BacksOff(c) ==
  /\ Turn /\ call[c].step = "wire"
  /\ call[c].leases = 1
  /\ active' = active \ {<<c, call[c].leases>>}
  /\ call' = [call EXCEPT ![c].step = "asleep"]
  /\ pumping' = TRUE
  /\ UNCHANGED <<normal, urgent, streak, ledger, passed>>

\* The delay is over: a fresh lease is asked for, at the end of the queue.
WakesUp(c) ==
  /\ Turn /\ call[c].step = "asleep"
  /\ call' = [call EXCEPT ![c].step = "requeued"]
  /\ Enqueue(c, call[c].urgent)
  /\ UNCHANGED <<ledger, passed>>

\* The call's ceiling passes during the backoff: the sleep, or the request for
\* the fresh lease, is aborted.
CeilingInBackoff(c) ==
  /\ Turn /\ call[c].step \in {"asleep", "requeued"}
  /\ normal' = Without(normal, {c}) /\ urgent' = Without(urgent, {c})
  /\ call' = [call EXCEPT ![c].step = "failing", ![c].age = "fresh"]
  /\ passed' = IF normal' = <<>> THEN 0 ELSE passed
  /\ UNCHANGED <<active, streak, pumping, ledger>>

-----------------------------------------------------------------------------
(* Owner, clock and process                                                *)

Queued(o) == {c \in Calls : call[c].op = o /\ call[c].step \in {"queued", "requeued"}}

\* Both services are told: queued requests of the operation are rejected and
\* its record, if there is one, is marked.  Attempts under way do not listen to
\* their lease's signal and go on.
Cancel(o) ==
  /\ Turn
  /\ normal' = Without(normal, Queued(o)) /\ urgent' = Without(urgent, Queued(o))
  /\ call' = [c \in Calls |->
       IF c \notin Queued(o) THEN call[c]
       ELSE IF call[c].step = "queued" THEN Idle ELSE [call[c] EXCEPT !.step = "failing", !.age = "fresh"]]
  /\ orphans' = [orphans EXCEPT ![o] = @ + Cardinality({c \in Queued(o) : call[c].step = "queued"})]
  /\ book' = [book EXCEPT ![o].status = IF @ = "absent" THEN @ ELSE "cancelled"]
  /\ passed' = IF normal' = <<>> THEN 0 ELSE passed
  /\ pumping' = TRUE
  /\ UNCHANGED <<active, streak, extensions, overrun>>

\* extendOperation adds to what remains, whatever was overspent before.
Extend(o) ==
  /\ Turn
  /\ book[o].status # "absent" /\ extensions < MaxExtensions
  /\ extensions' = extensions + 1
  /\ book' = [book EXCEPT ![o].allowed = @ + Extension, ![o].remaining = @ + Extension]
  /\ UNCHANGED <<call, admission, orphans, passed, overrun>>

Older(age) == IF age = "fresh" THEN "aged" ELSE "expired"

\* Time passes for a request, those ahead of it in its queue first.
Waits(c) ==
  /\ Turn
  /\ call[c].age # "expired"
  /\ \E queue \in {normal, urgent} : \E i \in DOMAIN queue :
       queue[i] = c /\ \A j \in 1..(i - 1) : call[queue[j]].age \notin {call[c].age, "fresh"}
  /\ call' = [call EXCEPT ![c].age = Older(@)]
  /\ UNCHANGED <<admission, ledger, passed>>

\* The process dies: calls, queues and slots are gone, the ledger stays.
Crash ==
  /\ call' = [c \in Calls |-> Idle]
  /\ normal' = <<>> /\ urgent' = <<>> /\ active' = {} /\ streak' = 0 /\ pumping' = FALSE
  /\ orphans' = [o \in Ops |->
       orphans[o] + Cardinality({c \in Calls : call[c].op = o})]
  /\ passed' = 0
  /\ UNCHANGED <<book, extensions, overrun>>

-----------------------------------------------------------------------------
Init ==
  /\ call = [c \in Calls |-> Idle]
  /\ normal = <<>> /\ urgent = <<>> /\ active = {} /\ streak = 0 /\ pumping = FALSE
  /\ book = [a \in Accounts |->
       [status |-> IF a = Campaign THEN "active" ELSE "absent", allowed |-> Allowance[a],
        spent |-> 0, reserved |-> 0, remaining |-> Allowance[a]]]
  /\ orphans = [o \in Ops |-> 0] /\ extensions = 0
  /\ passed = 0 /\ overrun = [a \in Accounts |-> 0]

Pump == PumpGrants \/ PumpExpires \/ PumpEnds

CallStep(c) ==
  \/ \E cost \in Costs \cup {Estimate} : Answered(c, cost)
  \/ Fails(c) \/ BacksOff(c) \/ WakesUp(c) \/ CeilingInBackoff(c)

Next ==
  \/ Pump
  \/ \E c \in Calls : CallStep(c) \/ Waits(c)
  \/ \E c \in Calls, o \in Ops \cup {NoOp}, u \in BOOLEAN : Complete(c, o, u)
  \/ \E o \in Ops : CompleteRefused(o) \/ Cancel(o) \/ Extend(o)
  \/ Crash

Spec == Init /\ [][Next]_vars

-----------------------------------------------------------------------------
(* Properties                                                              *)

\* Every variable holds a value of its type; no account remains below zero.
TypeOK ==
  /\ call \in [Calls -> Call]
  /\ normal \in Seq(Calls) /\ urgent \in Seq(Calls)
  /\ active \subseteq Calls \X Nat
  /\ streak \in 0..Threshold /\ pumping \in BOOLEAN
  /\ book \in [Accounts -> Account]
  /\ orphans \in [Ops -> Nat] /\ extensions \in 0..MaxExtensions
  /\ passed \in Nat /\ overrun \in [Accounts -> Nat]

\* Slots are neither leaked nor exceeded: every attempt on the wire has the
\* lease its call will release, every lease is one of those, and there are at
\* most maxActiveAttempts, whatever backoffs, ceilings, expiries and
\* cancellations come together.
SlotsExact ==
  /\ \A c \in Calls : call[c].step = "wire" => <<c, call[c].bound>> \in active
  /\ \A l \in active : call[l[1]].step = "wire" /\ call[l[1]].bound = l[2]
  /\ Cardinality(active) <= MaxActive

\* Between turns no slot is free while a request waits.
NoIdleSlot == Turn => Full \/ (normal = <<>> /\ urgent = <<>>)

\* ADR-0087: at most three consecutive time-sensitive admissions while normal
\* work waits.
NormalIsNext == passed <= Threshold

Open(o) == {c \in Calls : call[c].op = o}

\* What an operation has reserved is what its calls and the orphans reserved,
\* and the campaign's account is the sum of the operations'.
LedgerExact ==
  /\ \A o \in Ops : book[o].reserved = Estimate * (Cardinality(Open(o)) + orphans[o])
  /\ book[Campaign].reserved = MapThenSumSet(LAMBDA o : book[o].reserved, Ops)
  /\ book[Campaign].spent = MapThenSumSet(LAMBDA o : book[o].spent, Ops)

\* Allowances are exceeded by no more than what providers billed above the
\* estimates: however many calls are under way, extended, cancelled or cut off
\* by crashes, what is spent and reserved stays within what was allowed.
AllowanceHolds ==
  \A a \in Accounts : book[a].spent + book[a].reserved <= book[a].allowed + overrun[a]
=============================================================================
