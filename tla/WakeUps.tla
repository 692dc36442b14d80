------------------------------ MODULE WakeUps ------------------------------
(***************************************************************************)
(* Calendar pushes on their way to the Shell: Google's channels, the relay  *)
(* that buffers their messages in memory (relay/src), the Shell's pollers   *)
(* (relay/poller.ts, relay/routes.ts) and the watch that replaces channels  *)
(* before they expire (meeting-brief-generator/intake.ts,                   *)
(* google/calendar.ts).                                                     *)
(*                                                                         *)
(* Every request to Google or to the relay is a step of its own, and may    *)
(* fail; callers of the watch overlap.                                      *)
(***************************************************************************)
EXTENDS Naturals, FiniteSets

CONSTANTS
  Channels,     \* channel ids; an id without a trace left stands for a new one
  Callers,      \* what may run at once, of "loop", "owner" and "tick"
  MaxChanges,   \* bound on the changes of the Calendar
  MaxFaults     \* bound on failed requests, crashes and relay restarts

Pollers == {"loop", "owner"}
NoChannel == "none"

ASSUME WakeUpsAssumption ==
  /\ IsFiniteSet(Channels) /\ NoChannel \notin Channels
  /\ Callers \subseteq Pollers \cup {"tick"}
  /\ MaxChanges \in Nat /\ MaxFaults \in Nat

VARIABLES
  version,    \* changes of the Calendar so far
  live,       \* channels open at Google
  age,        \* how near each channel's expiration is
  sent,       \* pushes on their way from Google
  known,      \* channels the relay accepts pushes of
  buffer,     \* the changes whose messages the relay holds unacknowledged
  stored,     \* the channel in the Shell's Calendar state
  caller,     \* what each caller is doing
  seen,       \* the change the Intake has read up to
  faults

vars == <<version, live, age, sent, known, buffer, stored, caller, seen, faults>>
google == <<version, live, age, sent>>
relay == <<known, buffer>>

Change == 1..MaxChanges
Message == [channel : Channels, change : Change]

Steps == {"idle", "watch", "register", "open", "confirm", "stop", "store", "read", "ack"}
Caller == [step : Steps, old : Channels \cup {NoChannel}, new : Channels \cup {NoChannel},
           batch : SUBSET Change]
Idle == [step |-> "idle", old |-> NoChannel, new |-> NoChannel, batch |-> {}]

Fault == faults < MaxFaults /\ faults' = faults + 1

At(x, step) == caller[x].step = step
GoTo(x, step) == caller' = [caller EXCEPT ![x].step = step]

\* What a caller does once the watch is seen to: a poller reads the Calendar.
Watched(x) ==
  caller' = [caller EXCEPT ![x] = IF x \in Pollers
    THEN [@ EXCEPT !.step = "read", !.old = NoChannel, !.new = NoChannel] ELSE Idle]

\* Ids nothing refers to, or at most a registration no push will use again.
Unused ==
  {c \in Channels \ (live \cup {stored}) :
     /\ \A m \in sent : m.channel # c
     /\ \A x \in Callers : c \notin {caller[x].old, caller[x].new}}

-----------------------------------------------------------------------------
(* Google and the relay's push handler                                     *)

CalendarChanges ==
  /\ version < MaxChanges
  /\ version' = version + 1
  /\ sent' = sent \cup {[channel |-> c, change |-> version + 1] : c \in live}
  /\ UNCHANGED <<live, age, relay, stored, caller, seen, faults>>

\* A push arrives, for the first time or again: Google repeats itself, and two
\* channels announce the same change. Unknown and expired channels are refused.
Push(m) ==
  /\ m \in sent
  /\ m.channel \in known
  /\ buffer' = buffer \cup {m.change}
  /\ UNCHANGED <<google, known, stored, caller, seen, faults>>

\* The last of a push: it arrived before, or Google gives up on it.
Lose(m) ==
  /\ m \in sent
  /\ sent' = sent \ {m}
  /\ UNCHANGED <<version, live, age, known, buffer, stored, caller, seen, faults>>

\* pruneExpired, after seven days.
MessageExpires(n) ==
  /\ Fault
  /\ n \in buffer
  /\ buffer' = buffer \ {n}
  /\ UNCHANGED <<google, known, stored, caller, seen>>

\* Channels age, and expire at Google and at the relay; no caller takes as long
\* as the life of the channel it opens.
Ages(c) ==
  /\ c \in live
  /\ \/ /\ age[c] = "fresh"
        /\ age' = [age EXCEPT ![c] = "soon"]
        /\ UNCHANGED <<live, known>>
     \/ /\ age[c] = "soon" /\ \A x \in Callers : caller[x].new # c
        /\ age' = [age EXCEPT ![c] = "expired"]
        /\ live' = live \ {c} /\ known' = known \ {c}
  /\ UNCHANGED <<version, sent, buffer, stored, caller, seen, faults>>

\* The relay keeps everything in memory.
RelayRestarts ==
  /\ Fault
  /\ known' = {} /\ buffer' = {}
  /\ UNCHANGED <<google, stored, caller, seen>>

-----------------------------------------------------------------------------
(* pollOnce, and the poll route                                            *)

\* The relay answers a poll with what it holds. Nothing comes of a poll that is
\* refused, as after a relay restart, or finds nothing.
Poll(x) ==
  /\ x \in Pollers
  /\ At(x, "idle")
  /\ buffer # {}
  /\ caller' = [caller EXCEPT ![x].step = "watch", ![x].batch = buffer]
  /\ UNCHANGED <<google, relay, stored, seen, faults>>

\* reconcileCalendar: the Calendar is read as it now is.
ReadCalendar(x) ==
  /\ At(x, "read")
  /\ seen' = version
  /\ GoTo(x, "ack")
  /\ UNCHANGED <<google, relay, stored, faults>>

\* Mutant of Acknowledged: only what came while the poll was processed is.
AcknowledgedRest(x) == buffer \ caller[x].batch

\* The messages of this poll, if they are still there.
Acknowledged(x) == caller[x].batch \cap buffer

Ack(x) ==
  /\ At(x, "ack")
  /\ buffer' = buffer \ Acknowledged(x)
  /\ caller' = [caller EXCEPT ![x] = Idle]
  /\ UNCHANGED <<google, known, stored, seen, faults>>

\* Mutant of AfterFailure: a Calendar that could not be read does not keep the
\* messages from being acknowledged.
AfterFailureGoOn(x) ==
  IF At(x, "read") THEN [caller[x] EXCEPT !.step = "ack"] ELSE Idle

\* Any of these requests fails: the poll is over, the messages stay with the relay.
AfterFailure(x) == Idle

PollFails(x) ==
  /\ Fault
  /\ caller[x].step \in {"read", "ack"}
  /\ caller' = [caller EXCEPT ![x] = AfterFailure(x)]
  /\ UNCHANGED <<google, relay, stored, seen>>

-----------------------------------------------------------------------------
(* ensureCalendarWatch, over the provider's watchChannel and stopChannel   *)

\* existing && !needsRenewal: the stored channel has an hour or more to live.
NeedsRenewal == stored \notin {c \in Channels : age[c] = "fresh"}

KeepChannel(x) ==
  /\ At(x, "watch") /\ ~NeedsRenewal
  /\ Watched(x)
  /\ UNCHANGED <<google, relay, stored, seen, faults>>

\* A poller's wake-up, the maintenance tick every thirty seconds or the recovery
\* at boot finds that a new channel is due. Which unused id it gets is the same.
NewChannel(x) ==
  /\ At(x, IF x \in Pollers THEN "watch" ELSE "idle")
  /\ NeedsRenewal
  /\ Unused # {}
  /\ LET c == CHOOSE c \in Unused : TRUE IN
     /\ caller' = [caller EXCEPT ![x].step = "register", ![x].old = stored, ![x].new = c]
     /\ known' = known \ {c}
  /\ UNCHANGED <<google, buffer, stored, seen, faults>>

\* Mutant of AfterRegistering: the old channel goes first.
AfterRegisteringStop(x) == IF caller[x].old = NoChannel THEN "open" ELSE "stop"

\* Mutant of AfterRegistering: Google is not asked.
AfterRegisteringStore(x) == "store"

AfterRegistering(x) == "open"

\* registerChannel at the relay, with the installation: first so that the
\* channel's pushes are accepted, then with the expiration Google gave it.
Register(x) ==
  /\ At(x, "register") \/ At(x, "confirm")
  /\ known' = known \cup {caller[x].new}
  /\ GoTo(x, IF At(x, "register") THEN AfterRegistering(x)
             ELSE IF caller[x].old = NoChannel THEN "store" ELSE "stop")
  /\ UNCHANGED <<google, buffer, stored, seen, faults>>

Open(x) ==
  /\ At(x, "open")
  /\ live' = live \cup {caller[x].new}
  /\ age' = [age EXCEPT ![caller[x].new] = "fresh"]
  /\ GoTo(x, "confirm")
  /\ UNCHANGED <<version, sent, relay, stored, seen, faults>>

\* A request fails, that to Google perhaps with the channel open. Once it is
\* registered the relay is told to forget it, a request that may fail as well.
OpenFails(x) ==
  /\ Fault
  /\ \/ At(x, "register") /\ UNCHANGED <<live, age, known>>
     \/ /\ At(x, "open") \/ At(x, "confirm")
        /\ \/ UNCHANGED <<live, age>>
           \/ At(x, "open") /\ live' = live \cup {caller[x].new}
              /\ age' = [age EXCEPT ![caller[x].new] = "fresh"]
        /\ known' \in {known \ {caller[x].new}, known}
  /\ Watched(x)
  /\ UNCHANGED <<version, sent, buffer, stored, seen>>

\* stopChannel, at Google and then at the relay; neither need succeed.
StopOld(x) ==
  /\ At(x, "stop")
  /\ live' \in {live \ {caller[x].old}, live}
  /\ known' \in {known \ {caller[x].old}, known}
  /\ GoTo(x, "store")
  /\ UNCHANGED <<version, age, sent, buffer, stored, seen, faults>>

StoreChannel(x) ==
  /\ At(x, "store")
  /\ stored' = caller[x].new
  /\ Watched(x)
  /\ UNCHANGED <<google, relay, seen, faults>>

\* The Shell stops; what it had stored is all that remains of its calls.
ShellRestarts ==
  /\ Fault
  /\ caller' = [x \in Callers |-> Idle]
  /\ UNCHANGED <<google, relay, stored, seen>>

-----------------------------------------------------------------------------
Init ==
  /\ version = 0 /\ seen = 0
  /\ live = {} /\ age = [c \in Channels |-> "expired"] /\ sent = {}
  /\ known = {} /\ buffer = {}
  /\ stored = NoChannel
  /\ caller = [x \in Callers |-> Idle]
  /\ faults = 0

WatchStep(x) ==
  \/ KeepChannel(x) \/ NewChannel(x) \/ Register(x) \/ Open(x)
  \/ StopOld(x) \/ StoreChannel(x)

CallerStep(x) == Poll(x) \/ WatchStep(x) \/ ReadCalendar(x) \/ Ack(x)

Next ==
  \/ CalendarChanges
  \/ \E m \in Message : Push(m) \/ Lose(m)
  \/ \E n \in Change : MessageExpires(n)
  \/ \E c \in Channels : Ages(c)
  \/ \E x \in Callers : CallerStep(x) \/ PollFails(x) \/ OpenFails(x)
  \/ RelayRestarts \/ ShellRestarts

Spec == Init /\ [][Next]_vars

\* The loop polls and the tick ticks for ever and their requests are answered or
\* fail, channels age, and Google does not send a message for ever. A new id is
\* always to be had; the model's few may all be taken for a while, hence SF.
Fairness ==
  /\ \A x \in Callers \ {"owner"} : WF_vars(CallerStep(x)) /\ SF_vars(NewChannel(x))
  /\ \A c \in Channels : WF_vars(Ages(c))
  /\ \A m \in Message : WF_vars(Lose(m))

FairSpec == Spec /\ Fairness

-----------------------------------------------------------------------------
(* Properties                                                              *)

\* Every variable holds a value of its type.
TypeOK ==
  /\ version \in 0..MaxChanges /\ seen \in 0..MaxChanges
  /\ live \subseteq Channels /\ known \subseteq Channels
  /\ age \in [Channels -> {"fresh", "soon", "expired"}]
  /\ sent \subseteq Message /\ buffer \subseteq Change
  /\ stored \in Channels \cup {NoChannel}
  /\ caller \in [Callers -> Caller]
  /\ \A x \in Callers :
       /\ At(x, "stop") => caller[x].old \in Channels
       /\ caller[x].step \in {"register", "open", "confirm", "stop", "store"} <=>
            caller[x].new \in Channels
  /\ faults \in 0..MaxFaults

\* A wake-up is acknowledged only after the Calendar was read as late as the
\* change it announces: no overlap of polls and no failure loses the change.
AckedIsRead ==
  [][\A n \in buffer \ buffer' : n <= seen \/ faults' > faults]_vars

\* Some channel is open at Google whose pushes the relay takes.
Works(c) == c \in live \cap known
Covered == \E c \in Channels : Works(c)

\* Replacing a channel that works never leaves the Shell without one, whichever
\* calls overlap, fail or die: only the relay's restart does, or the expiration
\* of that channel.
ReplacementKeepsCoverage ==
  [][Works(stored) => Covered' \/ RelayRestarts \/ Ages(stored)]_vars

\* What the relay has accepted is read and acknowledged in the end.
WakeUpsAreRead == \A n \in Change : n \in buffer ~> n \notin buffer

\* After relay restarts, failures and crashes there is a working channel again.
CoverageReturns == []<>Covered
=============================================================================
