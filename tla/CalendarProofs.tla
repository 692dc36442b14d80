--------------------------- MODULE CalendarProofs ---------------------------
(***************************************************************************)
(* Proofs about the Calendar's way into the Shell.                          *)
(*                                                                          *)
(* First the pushes (WakeUps), for any number of channels, changes and      *)
(* faults: its types, that nothing unread is acknowledged, and that a       *)
(* replacement of the channel never opens a gap.                            *)
(*                                                                          *)
(* Then the Intake of Meeting Briefs (BriefIntake, as I), for any number of *)
(* versions, Runs and faults: however reads, Runs and crashes interleave, a *)
(* later Run never holds an older version of the event than an earlier one  *)
(* (BriefRuns).  Nothing the Intake holds is newer than Calendar            *)
(* (KnownVersions), so a Run that freezes the event as Calendar has it      *)
(* cannot be behind.  An earlier Run could still freeze after a later one;  *)
(* but a Run is created only when none is at work, so an earlier Run that   *)
(* is not frozen has failed, and only the owner's retry takes it up again   *)
(* (OneUnfrozen).  The constants satisfy I!IntakeConstants, the assumption  *)
(* BriefIntake states of them.                                              *)
(***************************************************************************)
EXTENDS WakeUps, BriefRuns, SequenceTheorems, TLAPS

-----------------------------------------------------------------------------
(* The pushes                                                              *)

\* What was announced has happened, and what is about to be acknowledged was
\* read: a batch is taken from the buffer before the Calendar is read.
ReadBeforeAck ==
  /\ seen <= version
  /\ \A m \in sent : m.change <= version
  /\ \A n \in buffer : n <= version
  /\ \A x \in Callers :
       /\ \A n \in caller[x].batch : n <= version
       /\ At(x, "ack") => \A n \in caller[x].batch : n <= seen

\* The channel a caller is opening is nobody else's: not the stored one, not one
\* somebody is about to stop, not one of another caller.
IdsApart ==
  \A x \in Callers : caller[x].new \in Channels =>
    /\ caller[x].new # stored
    /\ \A y \in Callers : caller[x].new # caller[y].old
    /\ \A y \in Callers \ {x} : caller[x].new # caller[y].new

\* Before the old channel is stopped the new one is open, and taken by the relay
\* unless the relay has forgotten the old one as well.
NewIsOpen ==
  \A x \in Callers :
    /\ At(x, "confirm") \/ At(x, "stop") => caller[x].new \in live
    /\ At(x, "stop") => caller[x].new \in known \/ caller[x].old \notin known

WakeInv == TypeOK /\ ReadBeforeAck /\ IdsApart /\ NewIsOpen

-----------------------------------------------------------------------------
(* What the steps of a caller make of its record                           *)

LEMMA IdleType == Idle \in Caller
  BY DEF Idle, Caller, Steps

LEMMA Replaced ==
  ASSUME TypeOK, NEW x \in Callers, NEW r \in Caller, caller' = [caller EXCEPT ![x] = r]
  PROVE  /\ caller' \in [Callers -> Caller]
         /\ \A y \in Callers : caller'[y] = IF y = x THEN r ELSE caller[y]
  BY DEF TypeOK

\* GoTo changes the step and nothing else.
LEMMA Stepped ==
  ASSUME TypeOK, NEW x \in Callers, NEW s \in Steps, GoTo(x, s)
  PROVE  /\ caller' \in [Callers -> Caller]
         /\ \A y \in Callers :
              /\ caller'[y].step = IF y = x THEN s ELSE caller[y].step
              /\ caller'[y].old = caller[y].old
              /\ caller'[y].new = caller[y].new
              /\ caller'[y].batch = caller[y].batch
  BY DEF TypeOK, GoTo, Caller

\* Watched leaves a caller that reads or is idle and knows no channel.
LEMMA WatchedCaller ==
  ASSUME TypeOK, NEW x \in Callers, Watched(x)
  PROVE  /\ caller' \in [Callers -> Caller]
         /\ \A y \in Callers \ {x} : caller'[y] = caller[y]
         /\ caller'[x].step \in {"read", "idle"}
         /\ caller'[x].old = NoChannel /\ caller'[x].new = NoChannel
         /\ caller'[x].batch \subseteq caller[x].batch
  BY IdleType DEF TypeOK, Watched, Caller, Idle, Steps

-----------------------------------------------------------------------------
(* The parts of the invariant when the callers stand still                 *)

LEMMA CallersKept ==
  ASSUME WakeInv, caller' = caller, stored' = stored
  PROVE  IdsApart'
  BY DEF WakeInv, IdsApart

LEMMA CalendarChangesInv == ASSUME WakeInv, CalendarChanges PROVE WakeInv'
<1>1. TypeOK'
  BY WakeUpsAssumption, SMTT(30) DEF WakeInv, TypeOK, CalendarChanges, relay, Message, Change, Caller, At
<1>2. ReadBeforeAck'
  BY DEF WakeInv, TypeOK, ReadBeforeAck, CalendarChanges, relay, Message, Change, Caller, At
<1>3. IdsApart'
  BY CallersKept DEF CalendarChanges, relay
<1>4. NewIsOpen'
  BY DEF WakeInv, NewIsOpen, CalendarChanges, relay, At
<1> QED
  BY <1>1, <1>2, <1>3, <1>4 DEF WakeInv

LEMMA DeliveryInv ==
  ASSUME WakeInv, NEW m \in Message, Push(m) \/ Lose(m)
  PROVE  WakeInv'
<1>1. TypeOK'
  BY DEF WakeInv, TypeOK, Push, Lose, google, Message, Change, At
<1>2. ReadBeforeAck'
  <2>1. CASE Push(m)
    <3>1. m.change <= version
      BY <2>1 DEF WakeInv, ReadBeforeAck, Push
    <3>2. version' = version /\ seen' = seen /\ sent' = sent /\ caller' = caller
          /\ buffer' = buffer \cup {m.change}
      BY <2>1 DEF Push, google
    <3> QED
      BY <3>1, <3>2 DEF WakeInv, ReadBeforeAck, At
  <2>2. CASE Lose(m)
    BY <2>2 DEF WakeInv, ReadBeforeAck, Lose, At
  <2> QED
    BY <2>1, <2>2
<1>3. IdsApart'
  BY CallersKept DEF Push, Lose
<1>4. NewIsOpen'
  BY DEF WakeInv, NewIsOpen, Push, Lose, google, At
<1> QED
  BY <1>1, <1>2, <1>3, <1>4 DEF WakeInv

LEMMA MessageExpiresInv ==
  ASSUME WakeInv, NEW n \in Change, MessageExpires(n)
  PROVE  WakeInv'
<1>1. TypeOK'
  BY WakeUpsAssumption DEF WakeInv, TypeOK, MessageExpires, Fault, google, At
<1>2. ReadBeforeAck'
  BY DEF WakeInv, ReadBeforeAck, MessageExpires, google, At
<1>3. IdsApart'
  BY CallersKept DEF MessageExpires
<1>4. NewIsOpen'
  BY DEF WakeInv, NewIsOpen, MessageExpires, google, At
<1> QED
  BY <1>1, <1>2, <1>3, <1>4 DEF WakeInv

LEMMA RelayRestartsInv == ASSUME WakeInv, RelayRestarts PROVE WakeInv'
<1>1. TypeOK'
  BY WakeUpsAssumption DEF WakeInv, TypeOK, RelayRestarts, Fault, google, At
<1>2. ReadBeforeAck'
  BY DEF WakeInv, ReadBeforeAck, RelayRestarts, google, At
<1>3. IdsApart'
  BY CallersKept DEF RelayRestarts
<1>4. NewIsOpen'
  BY DEF WakeInv, NewIsOpen, RelayRestarts, google, At
<1> QED
  BY <1>1, <1>2, <1>3, <1>4 DEF WakeInv

LEMMA AgesInv == ASSUME WakeInv, NEW c \in Channels, Ages(c) PROVE WakeInv'
<1>1. TypeOK'
  BY DEF WakeInv, TypeOK, Ages, At
<1>2. ReadBeforeAck'
  BY DEF WakeInv, ReadBeforeAck, Ages, At
<1>3. IdsApart'
  BY CallersKept DEF Ages
<1>4. NewIsOpen'
  BY DEF WakeInv, NewIsOpen, Ages, At
<1> QED
  BY <1>1, <1>2, <1>3, <1>4 DEF WakeInv

-----------------------------------------------------------------------------
(* The steps of the pollers                                                *)

LEMMA PollInv == ASSUME WakeInv, NEW x \in Callers, Poll(x) PROVE WakeInv'
<1>1. /\ caller' \in [Callers -> Caller]
      /\ \A y \in Callers : /\ caller'[y].old = caller[y].old
                            /\ caller'[y].new = caller[y].new
      /\ \A y \in Callers \ {x} : caller'[y] = caller[y]
      /\ caller'[x].step = "watch" /\ caller'[x].batch = buffer
      /\ caller[x].step = "idle"
  BY DEF WakeInv, TypeOK, Poll, Caller, Steps, At
<1>2. TypeOK'
  BY <1>1 DEF WakeInv, TypeOK, Poll, google, relay, At
<1>3. ReadBeforeAck'
  BY <1>1 DEF WakeInv, ReadBeforeAck, Poll, google, relay, At
<1>4. IdsApart'
  BY <1>1 DEF WakeInv, IdsApart, Poll
<1>5. NewIsOpen'
  BY <1>1 DEF WakeInv, NewIsOpen, Poll, google, relay, At
<1> QED
  BY <1>2, <1>3, <1>4, <1>5 DEF WakeInv

LEMMA ReadCalendarInv == ASSUME WakeInv, NEW x \in Callers, ReadCalendar(x) PROVE WakeInv'
<1> USE DEF ReadCalendar, google, relay
<1>1. "ack" \in Steps /\ GoTo(x, "ack") /\ TypeOK
  BY DEF Steps, WakeInv
<1>2. /\ caller' \in [Callers -> Caller]
      /\ \A y \in Callers :
           /\ caller'[y].step = IF y = x THEN "ack" ELSE caller[y].step
           /\ caller'[y].old = caller[y].old
           /\ caller'[y].new = caller[y].new
           /\ caller'[y].batch = caller[y].batch
  BY <1>1, Stepped
<1>3. TypeOK'
  BY <1>2 DEF WakeInv, TypeOK, At
<1>4. ReadBeforeAck'
  BY <1>2 DEF WakeInv, TypeOK, ReadBeforeAck, At, Caller, Change
<1>5. IdsApart'
  BY <1>2 DEF WakeInv, IdsApart
<1>6. NewIsOpen'
  BY <1>2 DEF WakeInv, NewIsOpen, At
<1> QED
  BY <1>3, <1>4, <1>5, <1>6 DEF WakeInv

\* A caller that becomes idle gives up what it was doing.
LEMMA BecomesIdle ==
  ASSUME WakeInv, NEW x \in Callers, caller' = [caller EXCEPT ![x] = Idle],
         UNCHANGED <<version, live, age, sent, known, stored, seen>>,
         buffer' \subseteq buffer, faults' \in 0..MaxFaults
  PROVE  WakeInv'
<1>1. /\ caller' \in [Callers -> Caller]
      /\ \A y \in Callers : caller'[y] = IF y = x THEN Idle ELSE caller[y]
  BY IdleType, Replaced DEF WakeInv
<1>2. TypeOK'
  BY <1>1, WakeUpsAssumption DEF WakeInv, TypeOK, At, Idle
<1>3. ReadBeforeAck'
  BY <1>1 DEF WakeInv, ReadBeforeAck, At, Idle
<1>4. IdsApart'
  BY <1>1, WakeUpsAssumption DEF WakeInv, IdsApart, Idle
<1>5. NewIsOpen'
  BY <1>1 DEF WakeInv, NewIsOpen, At, Idle
<1> QED
  BY <1>2, <1>3, <1>4, <1>5 DEF WakeInv

LEMMA PollEndsInv ==
  ASSUME WakeInv, NEW x \in Callers, Ack(x) \/ PollFails(x)
  PROVE  WakeInv'
<1>1. faults' \in 0..MaxFaults
  BY WakeUpsAssumption DEF WakeInv, TypeOK, Ack, PollFails, Fault
<1>2. buffer' \subseteq buffer
  BY DEF Ack, PollFails, relay
<1> QED
  BY <1>1, <1>2, BecomesIdle DEF Ack, PollFails, AfterFailure, google, relay

-----------------------------------------------------------------------------
(* The steps of the watch                                                  *)

\* The caller is through with the watch; nothing became less open or accepted
\* except the channel it was opening.
LEMMA LeavesWatch ==
  ASSUME WakeInv, NEW x \in Callers, Watched(x),
         UNCHANGED <<version, sent, buffer, seen>>,
         live' \in SUBSET Channels, live \subseteq live',
         known' \in {known, known \ {caller[x].new}},
         age' \in [Channels -> {"fresh", "soon", "expired"}],
         stored' \in {stored, caller[x].new}, stored' \in Channels \cup {NoChannel},
         faults' \in 0..MaxFaults
  PROVE  WakeInv'
<1>1. /\ caller' \in [Callers -> Caller]
      /\ \A y \in Callers \ {x} : caller'[y] = caller[y]
      /\ caller'[x].step \in {"read", "idle"}
      /\ caller'[x].old = NoChannel /\ caller'[x].new = NoChannel
      /\ caller'[x].batch \subseteq caller[x].batch
  BY WatchedCaller DEF WakeInv
<1>2. TypeOK'
  <2>1. \A y \in Callers :
          /\ caller'[y].step = "stop" => caller'[y].old \in Channels
          /\ caller'[y].step \in {"register", "open", "confirm", "stop", "store"} <=>
               caller'[y].new \in Channels
    BY <1>1, WakeUpsAssumption DEF WakeInv, TypeOK, At
  <2> QED
    BY <1>1, <2>1 DEF WakeInv, TypeOK, At
<1>3. ReadBeforeAck'
  <2>1. \A y \in Callers :
          /\ \A n \in caller'[y].batch : n <= version
          /\ caller'[y].step = "ack" => \A n \in caller'[y].batch : n <= seen
    BY <1>1 DEF WakeInv, ReadBeforeAck, At
  <2> QED
    BY <2>1 DEF WakeInv, ReadBeforeAck, At
<1>4. IdsApart'
  BY <1>1, WakeUpsAssumption DEF WakeInv, IdsApart
<1>5. NewIsOpen'
  <2>1. \A y \in Callers \ {x} : caller[y].step = "stop" => caller[y].new # caller[x].new
    BY DEF WakeInv, TypeOK, IdsApart, At
  <2> QED
    BY <1>1, <2>1 DEF WakeInv, NewIsOpen, At
<1> QED
  BY <1>2, <1>3, <1>4, <1>5 DEF WakeInv

LEMMA KeepChannelInv == ASSUME WakeInv, NEW x \in Callers, KeepChannel(x) PROVE WakeInv'
  BY LeavesWatch DEF KeepChannel, WakeInv, TypeOK, google, relay

LEMMA StoreChannelInv == ASSUME WakeInv, NEW x \in Callers, StoreChannel(x) PROVE WakeInv'
<1>1. caller[x].new \in Channels
  BY DEF WakeInv, TypeOK, StoreChannel, At
<1> QED
  BY <1>1, LeavesWatch DEF StoreChannel, WakeInv, TypeOK, google, relay

LEMMA OpenFailsInv == ASSUME WakeInv, NEW x \in Callers, OpenFails(x) PROVE WakeInv'
<1>1. caller[x].new \in Channels
  BY DEF WakeInv, TypeOK, OpenFails, At
<1>2. faults' \in 0..MaxFaults
  BY WakeUpsAssumption DEF WakeInv, TypeOK, OpenFails, Fault
<1>3. /\ live' \in SUBSET Channels /\ live \subseteq live'
      /\ age' \in [Channels -> {"fresh", "soon", "expired"}]
      /\ known' \in {known, known \ {caller[x].new}}
  BY <1>1 DEF WakeInv, TypeOK, OpenFails
<1> QED
  BY <1>2, <1>3, LeavesWatch DEF OpenFails, WakeInv, TypeOK

LEMMA NewChannelInv == ASSUME WakeInv, NEW x \in Callers, NewChannel(x) PROVE WakeInv'
<1> DEFINE c == CHOOSE c \in Unused : TRUE
<1>1. c \in Unused
  BY Zenon DEF NewChannel
<1>2. /\ c \in Channels /\ c \notin live /\ c # stored
      /\ \A y \in Callers : c # caller[y].old /\ c # caller[y].new
  BY <1>1 DEF Unused
<1>3. /\ caller' = [caller EXCEPT ![x].step = "register", ![x].old = stored, ![x].new = c]
      /\ known' = known \ {c}
      /\ UNCHANGED <<version, live, age, sent, buffer, stored, seen, faults>>
  BY Zenon DEF NewChannel, google
<1> HIDE DEF c
<1>4. /\ caller' \in [Callers -> Caller]
      /\ \A y \in Callers \ {x} : caller'[y] = caller[y]
      /\ caller'[x].step = "register" /\ caller'[x].old = stored /\ caller'[x].new = c
      /\ caller'[x].batch = caller[x].batch
  BY <1>2, <1>3 DEF WakeInv, TypeOK, Caller, Steps
<1>5. TypeOK'
  BY <1>2, <1>3, <1>4 DEF WakeInv, TypeOK, At
<1>6. ReadBeforeAck'
  BY <1>3, <1>4 DEF WakeInv, ReadBeforeAck, At
<1>7. IdsApart'
  BY <1>2, <1>3, <1>4 DEF WakeInv, IdsApart
<1>8. NewIsOpen'
  BY <1>2, <1>3, <1>4 DEF WakeInv, NewIsOpen, At
<1> QED
  BY <1>5, <1>6, <1>7, <1>8 DEF WakeInv

LEMMA RegisterInv == ASSUME WakeInv, NEW x \in Callers, Register(x) PROVE WakeInv'
<1> DEFINE s == IF At(x, "register") THEN AfterRegistering(x)
                ELSE IF caller[x].old = NoChannel THEN "store" ELSE "stop"
<1>1. /\ s \in Steps /\ GoTo(x, s)
      /\ s = "stop" => At(x, "confirm") /\ caller[x].old # NoChannel
      /\ s \in {"open", "stop", "store"} /\ caller[x].step \in {"register", "confirm"}
  BY DEF Register, AfterRegistering, Steps, At
<1>2. /\ caller' \in [Callers -> Caller]
      /\ \A y \in Callers :
           /\ caller'[y].step = IF y = x THEN s ELSE caller[y].step
           /\ caller'[y].old = caller[y].old
           /\ caller'[y].new = caller[y].new
           /\ caller'[y].batch = caller[y].batch
  BY <1>1, Stepped DEF WakeInv
<1>3. caller[x].new \in Channels /\ caller[x].old \in Channels \cup {NoChannel}
  BY <1>1 DEF WakeInv, TypeOK, Caller
<1>4. known' = known \cup {caller[x].new} /\ UNCHANGED <<version, live, age, sent, buffer, stored, seen, faults>>
  BY DEF Register, google
<1> HIDE DEF s
<1>5. TypeOK'
  BY <1>1, <1>2, <1>3, <1>4 DEF WakeInv, TypeOK, At
<1>6. ReadBeforeAck'
  BY <1>1, <1>2, <1>4 DEF WakeInv, ReadBeforeAck, At
<1>7. IdsApart'
  BY <1>2, <1>4 DEF WakeInv, IdsApart
<1>8. NewIsOpen'
  BY <1>1, <1>2, <1>3, <1>4 DEF WakeInv, NewIsOpen, IdsApart, At
<1> QED
  BY <1>5, <1>6, <1>7, <1>8 DEF WakeInv

LEMMA OpenInv == ASSUME WakeInv, NEW x \in Callers, Open(x) PROVE WakeInv'
<1>1. "confirm" \in Steps /\ GoTo(x, "confirm") /\ caller[x].step = "open"
  BY DEF Open, Steps, At
<1>2. /\ caller' \in [Callers -> Caller]
      /\ \A y \in Callers :
           /\ caller'[y].step = IF y = x THEN "confirm" ELSE caller[y].step
           /\ caller'[y].old = caller[y].old
           /\ caller'[y].new = caller[y].new
           /\ caller'[y].batch = caller[y].batch
  BY <1>1, Stepped DEF WakeInv
<1>3. caller[x].new \in Channels
  BY <1>1 DEF WakeInv, TypeOK
<1>4. TypeOK'
  BY <1>1, <1>2, <1>3 DEF WakeInv, TypeOK, Open, relay, At
<1>5. ReadBeforeAck'
  BY <1>2 DEF WakeInv, ReadBeforeAck, Open, relay, At
<1>6. IdsApart'
  BY <1>2 DEF WakeInv, IdsApart, Open
<1>7. NewIsOpen'
  BY <1>1, <1>2 DEF WakeInv, NewIsOpen, Open, relay, At
<1> QED
  BY <1>4, <1>5, <1>6, <1>7 DEF WakeInv

LEMMA StopOldInv == ASSUME WakeInv, NEW x \in Callers, StopOld(x) PROVE WakeInv'
<1>1. "store" \in Steps /\ GoTo(x, "store") /\ caller[x].step = "stop"
  BY DEF StopOld, Steps, At
<1>2. /\ caller' \in [Callers -> Caller]
      /\ \A y \in Callers :
           /\ caller'[y].step = IF y = x THEN "store" ELSE caller[y].step
           /\ caller'[y].old = caller[y].old
           /\ caller'[y].new = caller[y].new
           /\ caller'[y].batch = caller[y].batch
  BY <1>1, Stepped DEF WakeInv
<1>3. TypeOK'
  BY <1>1, <1>2 DEF WakeInv, TypeOK, StopOld, At
<1>4. ReadBeforeAck'
  BY <1>2 DEF WakeInv, ReadBeforeAck, StopOld, At
<1>5. IdsApart'
  BY <1>2 DEF WakeInv, IdsApart, StopOld
<1>6. NewIsOpen'
  <2>1. \A y \in Callers : caller[y].step \in {"confirm", "stop"} => caller[y].new # caller[x].old
    BY DEF WakeInv, TypeOK, IdsApart
  <2> QED
    BY <1>1, <1>2, <2>1 DEF WakeInv, NewIsOpen, StopOld, At
<1> QED
  BY <1>3, <1>4, <1>5, <1>6 DEF WakeInv

LEMMA ShellRestartsInv == ASSUME WakeInv, ShellRestarts PROVE WakeInv'
<1>1. caller' \in [Callers -> Caller] /\ \A y \in Callers : caller'[y] = Idle
  BY IdleType DEF ShellRestarts
<1>2. faults' \in 0..MaxFaults
  BY WakeUpsAssumption DEF WakeInv, TypeOK, ShellRestarts, Fault
<1>3. TypeOK'
  BY <1>1, <1>2, WakeUpsAssumption DEF WakeInv, TypeOK, ShellRestarts, google, relay, At, Idle
<1>4. ReadBeforeAck' /\ IdsApart' /\ NewIsOpen'
  BY <1>1, WakeUpsAssumption DEF WakeInv, ReadBeforeAck, IdsApart, NewIsOpen, ShellRestarts, google, relay, At, Idle
<1> QED
  BY <1>3, <1>4 DEF WakeInv

-----------------------------------------------------------------------------
(* The invariant and what follows from it                                  *)

LEMMA WakeInit == Init => WakeInv
<1> SUFFICES ASSUME Init PROVE WakeInv
  OBVIOUS
<1>1. caller \in [Callers -> Caller] /\ \A y \in Callers : caller[y] = Idle
  BY IdleType DEF Init
<1>2. \A x \in Callers : ~At(x, "stop") /\ caller[x].new \notin Channels
      /\ caller[x].step \notin {"register", "open", "confirm", "stop", "store"}
  BY <1>1, WakeUpsAssumption DEF At, Idle
<1>3. TypeOK
  BY <1>1, <1>2, WakeUpsAssumption DEF Init, TypeOK
<1>4. ReadBeforeAck /\ IdsApart /\ NewIsOpen
  BY <1>1, WakeUpsAssumption DEF Init, ReadBeforeAck, IdsApart, NewIsOpen, At, Idle
<1> QED
  BY <1>3, <1>4 DEF WakeInv

LEMMA WakeNext == WakeInv /\ [Next]_vars => WakeInv'
<1> SUFFICES ASSUME WakeInv, [Next]_vars PROVE WakeInv'
  OBVIOUS
<1>1. CASE CalendarChanges
  BY <1>1, CalendarChangesInv
<1>2. CASE \E m \in Message : Push(m) \/ Lose(m)
  BY <1>2, DeliveryInv
<1>3. CASE \E n \in Change : MessageExpires(n)
  BY <1>3, MessageExpiresInv
<1>4. CASE \E c \in Channels : Ages(c)
  BY <1>4, AgesInv
<1>5. CASE \E x \in Callers : CallerStep(x) \/ PollFails(x) \/ OpenFails(x)
  <2> PICK x \in Callers : CallerStep(x) \/ PollFails(x) \/ OpenFails(x)
    BY <1>5
  <2> QED
    BY PollInv, ReadCalendarInv, PollEndsInv, KeepChannelInv, NewChannelInv, RegisterInv,
       OpenInv, OpenFailsInv, StopOldInv, StoreChannelInv
    DEF CallerStep, WatchStep
<1>6. CASE RelayRestarts
  BY <1>6, RelayRestartsInv
<1>7. CASE ShellRestarts
  BY <1>7, ShellRestartsInv
<1>8. CASE UNCHANGED vars
  BY <1>8 DEF vars, WakeInv, TypeOK, ReadBeforeAck, IdsApart, NewIsOpen, At
<1> QED
  BY <1>1, <1>2, <1>3, <1>4, <1>5, <1>6, <1>7, <1>8 DEF Next

LEMMA WakeInvariant == Spec => []WakeInv
  BY WakeInit, WakeNext, PTL DEF Spec

\* Types, with a caller's channels where its step needs them, for any number of
\* callers at once.
THEOREM WakeUpsTypes == Spec => []TypeOK
<1>1. WakeInv => TypeOK
  BY DEF WakeInv
<1> QED
  BY <1>1, WakeInvariant, PTL

\* However polls overlap and fail, no message leaves the relay by an
\* acknowledgement before the Calendar was read as late as its change.
THEOREM NothingUnreadIsAcked == Spec => AckedIsRead
<1>1. WakeInv /\ [Next]_vars => [\A n \in buffer \ buffer' : n <= seen \/ faults' > faults]_vars
  <2> SUFFICES ASSUME WakeInv, Next, NEW n \in buffer, n \notin buffer'
               PROVE  n <= seen \/ faults' > faults
    BY DEF vars
  <2>1. CASE \E x \in Callers : Ack(x)
    BY <2>1 DEF Ack, Acknowledged, WakeInv, ReadBeforeAck, At
  <2>2. CASE RelayRestarts \/ \E k \in Change : MessageExpires(k)
    BY <2>2 DEF RelayRestarts, MessageExpires, Fault, WakeInv, TypeOK
  <2>3. CASE UNCHANGED buffer \/ \E m \in Message : Push(m)
    BY <2>3 DEF Push
  <2> QED
    BY <2>1, <2>2, <2>3
    DEF Next, CallerStep, WatchStep, CalendarChanges, Lose, Ages, Poll, ReadCalendar, PollFails,
        KeepChannel, NewChannel, Register, Open, OpenFails, StopOld, StoreChannel, ShellRestarts,
        relay
<1> QED
  BY <1>1, WakeInvariant, PTL DEF Spec, AckedIsRead

\* Whichever callers replace the stored channel at once, fail or die, one that
\* works is left: the new channel is open and accepted before the old one goes.
THEOREM NoGapInReplacement == Spec => ReplacementKeepsCoverage
<1>1. WakeInv /\ [Next]_vars =>
       [Works(stored) => Covered' \/ RelayRestarts \/ Ages(stored)]_vars
  <2> SUFFICES ASSUME WakeInv, Next, ~RelayRestarts, ~Ages(stored),
                      stored \in live, stored \in known
               PROVE  \E c \in Channels : c \in live' /\ c \in known'
    BY DEF vars, Works, Covered
  <2>1. stored \in Channels
    BY DEF WakeInv, TypeOK
  <2>2. CASE stored \in live' /\ stored \in known'
    BY <2>1, <2>2
  <2>3. ASSUME NEW x \in Callers, NewChannel(x)
        PROVE  stored \in live' /\ stored \in known'
    <3>1. (CHOOSE c \in Unused : TRUE) \in Unused
      BY <2>3, Zenon DEF NewChannel
    <3>2. \A c \in Unused : c # stored
      BY DEF Unused
    <3>3. live' = live /\ known' = known \ {CHOOSE c \in Unused : TRUE}
      BY <2>3, Zenon DEF NewChannel, google
    <3> QED
      BY <3>1, <3>2, <3>3
  <2>4. ASSUME NEW x \in Callers, OpenFails(x)
        PROVE  stored \in live' /\ stored \in known'
    <3>1. caller[x].new # stored
      BY <2>4 DEF OpenFails, WakeInv, TypeOK, IdsApart, At
    <3> QED
      BY <2>4, <3>1 DEF OpenFails
  <2>5. ASSUME NEW x \in Callers, StopOld(x)
        PROVE  \E c \in Channels : c \in live' /\ c \in known'
    <3>1. CASE caller[x].old # stored
      BY <2>1, <2>5, <3>1 DEF StopOld
    <3>2. CASE caller[x].old = stored
      <4>1. /\ caller[x].new \in Channels /\ caller[x].new # caller[x].old
            /\ caller[x].new \in live /\ caller[x].new \in known
        BY <2>5, <3>2 DEF StopOld, WakeInv, TypeOK, IdsApart, NewIsOpen, At
      <4> QED
        BY <2>5, <4>1 DEF StopOld
    <3> QED
      BY <3>1, <3>2
  <2>6. ASSUME NEW c \in Channels, Ages(c)
        PROVE  stored \in live' /\ stored \in known'
    <3>1. c # stored
      BY <2>6
    <3> QED
      BY <2>6, <3>1 DEF Ages
  <2>7. ASSUME NEW x \in Callers, Register(x) \/ Open(x)
        PROVE  stored \in live' /\ stored \in known'
    BY <2>7 DEF Register, Open, google, relay
  <2>8. ASSUME UNCHANGED <<live, known>>
        PROVE  stored \in live' /\ stored \in known'
    BY <2>8
  <2> QED
    BY <2>2, <2>3, <2>4, <2>5, <2>6, <2>7, <2>8
    DEF Next, CallerStep, WatchStep, CalendarChanges, Push, Lose, MessageExpires, Poll,
        ReadCalendar, Ack, PollFails, KeepChannel, StoreChannel, ShellRestarts, google, relay
<1> QED
  BY <1>1, WakeInvariant, PTL DEF Spec, ReplacementKeepsCoverage

-----------------------------------------------------------------------------
(* The Intake                                                              *)

CONSTANTS Materials, MaxVersions, Relayed, MaxRuns

VARIABLES calendar, token, schedule, cancelled, readers

I == INSTANCE BriefIntake

KnownVersions ==
  /\ schedule.version <= calendar.version
  /\ \A r \in I!Readers : readers[r].seen.version <= calendar.version
  /\ \A i \in DOMAIN runs : /\ runs[i].input.version <= calendar.version
                            /\ runs[i].snapshot.version <= calendar.version
  /\ calendar.kind # "absent" => calendar.version > 0

OneUnfrozen ==
  \A i \in DOMAIN runs : ~I!Frozen(i) =>
    /\ runs[i].input.version > 0
    /\ runs[i].status \in {"working", "failed"}
    /\ i < Len(runs) => runs[i].status = "failed" \/ runs[i].retried

IntakeInv == I!TypeOK /\ KnownVersions /\ OneUnfrozen /\ I!RevisionsGoForward

-----------------------------------------------------------------------------
(* Types of the values the actions build                                   *)

LEMMA NoEventType ==
  ASSUME I!IntakeConstants
  PROVE  I!NoEvent \in I!Event /\ I!NoEvent.version = 0 /\ I!NoEvent.kind = "absent"
<1>1. I!AnyMaterial \in Materials
  BY DEF I!AnyMaterial, I!IntakeConstants
<1> QED
  BY <1>1 DEF I!NoEvent, I!Event, I!Kinds, I!IntakeConstants

LEMMA IdleReaderType ==
  ASSUME I!IntakeConstants
  PROVE  I!IdleReader \in I!Reader
  BY NoEventType DEF I!IdleReader, I!Reader, I!Reads, I!IntakeConstants

LEMMA AskingType ==
  ASSUME I!IntakeConstants, I!TypeOK, NEW read \in I!Reads
  PROVE  I!Asking(read) \in I!Reader /\ I!Asking(read).seen = I!NoEvent
  BY IdleReaderType DEF I!TypeOK, I!Asking, I!IdleReader, I!Reader, I!IntakeConstants

LEMMA AfterReadingType ==
  ASSUME I!IntakeConstants, NEW r
  PROVE  I!AfterReading(r) \in I!Reader /\ I!AfterReading(r).seen = I!NoEvent
  BY IdleReaderType DEF I!AfterReading, I!IdleReader, I!Reader

\* Replacing one Run leaves the others where they are.
LEMMA ReplacedRun ==
  ASSUME NEW s \in Seq(I!Run), NEW i \in DOMAIN s, NEW new \in I!Run,
         NEW t, t = [s EXCEPT ![i] = new]
  PROVE  /\ t \in Seq(I!Run) /\ Len(t) = Len(s) /\ DOMAIN t = DOMAIN s
         /\ \A j \in DOMAIN s : t[j] = IF j = i THEN new ELSE s[j]
<1>1. i \in 1..Len(s) /\ DOMAIN s = 1..Len(s)
  BY LenProperties
<1>2. t \in Seq(I!Run) /\ Len(t) = Len(s) /\ \A j \in 1..Len(s) : t[j] = IF j = i THEN new ELSE s[j]
  BY <1>1, ExceptSeq
<1>3. DOMAIN t = 1..Len(t)
  BY <1>2, LenProperties
<1> QED
  BY <1>1, <1>2, <1>3

-----------------------------------------------------------------------------
(* Steps that leave the Runs alone                                         *)

\* The parts of the invariant about Runs carry over when no Run changes and
\* Calendar only moves forward.
LEMMA RunsKept ==
  ASSUME I!IntakeConstants, IntakeInv, UNCHANGED runs, calendar' \in I!Event,
         calendar.version <= calendar'.version
  PROVE  /\ OneUnfrozen' /\ I!RevisionsGoForward'
         /\ \A i \in DOMAIN runs' : /\ runs'[i].input.version <= calendar'.version
                                    /\ runs'[i].snapshot.version <= calendar'.version
<1>1. \A i \in DOMAIN runs : runs[i] \in I!Run
  BY ElementOfSeq, LenProperties DEF IntakeInv, I!TypeOK
<1>2. OneUnfrozen' /\ I!RevisionsGoForward'
  BY DEF IntakeInv, OneUnfrozen, I!RevisionsGoForward, I!Frozen
<1>3. \A i \in DOMAIN runs' : /\ runs'[i].input.version <= calendar'.version
                              /\ runs'[i].snapshot.version <= calendar'.version
  BY <1>1 DEF IntakeInv, I!TypeOK, KnownVersions, I!Event, I!Run, I!IntakeConstants
<1> QED
  BY <1>2, <1>3

\* Calendar moves on by itself.
LEMMA CalendarSteps ==
  ASSUME I!IntakeConstants, IntakeInv,
         (\E kind \in I!Kinds, m \in Materials : I!CalendarChanges(kind, m)) \/ I!WeekTurns
  PROVE  IntakeInv'
<1> USE DEF I!IntakeConstants
<1>1. calendar' \in I!Event /\ calendar.version <= calendar'.version
      /\ (calendar'.kind # "absent" => calendar'.version > 0)
  BY DEF IntakeInv, I!TypeOK, KnownVersions, I!Event, I!Kinds, I!CalendarChanges, I!WeekTurns
<1>2. UNCHANGED <<token, schedule, cancelled, readers, runs, faults>>
  BY DEF I!CalendarChanges, I!WeekTurns
<1>3. I!TypeOK'
  BY <1>1, <1>2 DEF IntakeInv, I!TypeOK
<1>4. schedule'.version <= calendar'.version
  BY <1>1, <1>2 DEF IntakeInv, I!TypeOK, KnownVersions, I!Event
<1>5. \A r \in I!Readers : readers'[r].seen.version <= calendar'.version
  BY <1>1, <1>2 DEF IntakeInv, I!TypeOK, KnownVersions, I!Event, I!Reader
<1> QED
  BY <1>1, <1>2, <1>3, <1>4, <1>5, RunsKept DEF IntakeInv, KnownVersions

\* One reader moves on to a state that knows of no version Calendar has not
\* had, with a schedule, token and cancellation mark that do not either.
LEMMA ReaderSteps ==
  ASSUME I!IntakeConstants, IntakeInv, NEW r \in I!Readers, NEW new \in I!Reader,
         new.seen.version <= calendar.version,
         readers' = [readers EXCEPT ![r] = new],
         token' \in 0..MaxVersions, schedule' \in I!Event,
         schedule'.version <= calendar.version, cancelled' \in BOOLEAN,
         faults' \in 0..MaxFaults, UNCHANGED <<calendar, runs>>
  PROVE  IntakeInv'
<1>1. I!TypeOK'
  BY DEF IntakeInv, I!TypeOK
<1>2. \A q \in I!Readers : readers'[q].seen.version <= calendar'.version
  BY DEF IntakeInv, I!TypeOK, KnownVersions
<1>3. calendar.version <= calendar'.version
  BY DEF IntakeInv, I!TypeOK, I!Event, I!IntakeConstants
<1> QED
  BY <1>1, <1>2, <1>3, RunsKept DEF IntakeInv, I!TypeOK, KnownVersions

LEMMA FaultType ==
  ASSUME I!IntakeConstants, I!TypeOK, I!Fault PROVE faults' \in 0..MaxFaults
  BY DEF I!TypeOK, I!Fault, I!IntakeConstants

\* The process starts anew and nothing durable changes but the token.
LEMMA RebootSteps ==
  ASSUME I!IntakeConstants, IntakeInv, I!Reboot, token' \in 0..MaxVersions,
         faults' \in 0..MaxFaults,
         UNCHANGED <<calendar, schedule, cancelled, runs>>
  PROVE  IntakeInv'
<1>1. I!Asking("full") \in I!Reader /\ I!Asking("full").seen = I!NoEvent
  BY AskingType DEF IntakeInv, I!Reads
<1>2. readers' \in [I!Readers -> I!Reader] /\ \A r \in I!Readers : readers'[r].seen = I!NoEvent
  BY <1>1, IdleReaderType DEF I!Reboot, I!IdleReader
<1>3. I!TypeOK'
  BY <1>2 DEF IntakeInv, I!TypeOK
<1>4. calendar.version <= calendar'.version /\ 0 <= calendar.version
  BY DEF IntakeInv, I!TypeOK, I!Event, I!IntakeConstants
<1> QED
  BY <1>2, <1>3, <1>4, RunsKept, NoEventType DEF IntakeInv, I!TypeOK, KnownVersions

-----------------------------------------------------------------------------
(* Steps of the readers                                                    *)

LEMMA ReadsBegin ==
  ASSUME I!IntakeConstants, IntakeInv,
         I!RelayWakes \/ I!TickSweeps \/ I!TickReads \/ I!TickOnlyStarts
  PROVE  IntakeInv'
<1>1. PICK r \in I!Readers, new \in I!Reader :
        /\ readers' = [readers EXCEPT ![r] = new]
        /\ new.seen.version <= calendar.version
  <2>1. \A read \in I!Reads : I!Asking(read) \in I!Reader /\ I!Asking(read).seen.version <= calendar.version
    <3>1. \A read \in I!Reads : I!Asking(read) \in I!Reader /\ I!Asking(read).seen = I!NoEvent
      BY AskingType DEF IntakeInv
    <3> QED
      BY <3>1, NoEventType DEF IntakeInv, I!TypeOK, I!Event, I!IntakeConstants
  <2>2. I!Reads = {"changes", "full", "sweep"} /\ {"relay", "tick"} \subseteq I!Readers
    BY DEF I!Reads, I!Readers
  <2>3. CASE I!RelayWakes \/ I!TickSweeps \/ I!TickReads
    BY <2>1, <2>2, <2>3 DEF I!RelayWakes, I!TickSweeps, I!TickReads
  <2>4. CASE I!TickOnlyStarts
    <3> DEFINE new == [readers["tick"] EXCEPT !.step = "due"]
    <3>1. "tick" \in I!Readers
      BY DEF I!Readers
    <3>2. new \in I!Reader /\ new.seen = readers["tick"].seen
      BY <3>1 DEF IntakeInv, I!TypeOK, I!Reader
    <3>3. readers' = [readers EXCEPT !["tick"] = new]
      BY <2>4, <3>1 DEF I!TickOnlyStarts, IntakeInv, I!TypeOK
    <3> HIDE DEF new
    <3> QED
      BY <3>1, <3>2, <3>3 DEF IntakeInv, KnownVersions
  <2> QED
    BY <2>3, <2>4
<1>2. UNCHANGED <<calendar, token, schedule, cancelled, runs, faults>>
  BY DEF I!RelayWakes, I!TickSweeps, I!TickReads, I!TickOnlyStarts
<1> QED
  BY <1>1, <1>2, ReaderSteps DEF IntakeInv, I!TypeOK, KnownVersions

LEMMA ReadIsAnswered ==
  ASSUME I!IntakeConstants, IntakeInv, NEW r \in I!Readers,
         I!CalendarAnswers(r) \/ I!TokenExpires(r) \/ I!ReadFails(r)
  PROVE  IntakeInv'
<1> USE DEF I!IntakeConstants
<1>1. CASE I!CalendarAnswers(r)
  <2>1. PICK event \in {calendar, I!NoEvent} :
          readers' = [readers EXCEPT ![r].step = "answered", ![r].seen = event,
                                     ![r].next = calendar.version]
    BY <1>1 DEF I!CalendarAnswers
  <2> DEFINE new == [readers[r] EXCEPT !.step = "answered", !.seen = event,
                                       !.next = calendar.version]
  <2>2. event \in I!Event /\ event.version <= calendar.version
    BY NoEventType DEF IntakeInv, I!TypeOK, I!Event
  <2>3. new \in I!Reader /\ new.seen = event
    BY <2>2 DEF IntakeInv, I!TypeOK, I!Reader, I!Event
  <2>4. readers' = [readers EXCEPT ![r] = new]
    BY <2>1 DEF IntakeInv, I!TypeOK
  <2> HIDE DEF new
  <2> QED
    BY <1>1, <2>2, <2>3, <2>4, ReaderSteps DEF I!CalendarAnswers, IntakeInv, I!TypeOK, KnownVersions
<1>2. CASE I!TokenExpires(r)
  <2> DEFINE new == [readers[r] EXCEPT !.read = "full", !.token = 0]
  <2>1. new \in I!Reader /\ new.seen = readers[r].seen
    <3>1. readers[r] \in I!Reader /\ 0 \in 0..MaxVersions /\ "full" \in I!Reads
      BY DEF IntakeInv, I!TypeOK, I!Reads
    <3> QED
      BY <3>1 DEF I!Reader
  <2>2. readers' = [readers EXCEPT ![r] = new]
    BY <1>2 DEF I!TokenExpires, IntakeInv, I!TypeOK
  <2> HIDE DEF new
  <2> QED
    BY <1>2, <2>1, <2>2, ReaderSteps DEF I!TokenExpires, IntakeInv, I!TypeOK, KnownVersions
<1>3. CASE I!ReadFails(r)
  <2>1. I!AfterReading(r) \in I!Reader /\ I!AfterReading(r).seen.version <= calendar.version
    BY AfterReadingType, NoEventType DEF IntakeInv, I!TypeOK, I!Event
  <2>2. faults' \in 0..MaxFaults
    <3>1. (UNCHANGED faults) \/ I!Fault
      BY <1>3 DEF I!ReadFails
    <3>2. I!TypeOK /\ faults \in 0..MaxFaults
      BY DEF IntakeInv, I!TypeOK
    <3> QED
      BY <3>1, <3>2, FaultType
  <2> QED
    BY <1>3, <2>1, <2>2, ReaderSteps DEF I!ReadFails, IntakeInv, I!TypeOK, KnownVersions
<1> QED
  BY <1>1, <1>2, <1>3

LEMMA NextTokenType ==
  ASSUME I!TypeOK, NEW r \in I!Readers PROVE I!NextToken(readers[r]) \in 0..MaxVersions
  BY DEF I!TypeOK, I!NextToken, I!Reader

LEMMA ReconcileSteps ==
  ASSUME I!IntakeConstants, IntakeInv, NEW r \in I!Readers, I!Reconcile(r)
  PROVE  IntakeInv'
<1> DEFINE rd == readers[r]
<1>1. rd \in I!Reader /\ rd.seen.version <= calendar.version
  BY DEF IntakeInv, I!TypeOK, KnownVersions
<1>2. token' \in 0..MaxVersions
  BY NextTokenType DEF I!Reconcile, IntakeInv
<1>3. schedule' \in I!Event /\ schedule'.version <= calendar.version
  <2>1. schedule' \in {schedule, rd.seen, I!NoEvent}
    BY DEF I!Reconcile, I!ScheduleAfter
  <2>2. rd.seen \in I!Event /\ 0 <= calendar.version
    BY <1>1 DEF I!Reader, IntakeInv, I!TypeOK, I!Event, I!IntakeConstants
  <2> HIDE DEF rd
  <2> QED
    BY <1>1, <2>1, <2>2, NoEventType DEF IntakeInv, I!TypeOK, KnownVersions
<1>4. cancelled' \in BOOLEAN
  <2>1. cancelled' = I!CancelledAfter(rd)
    BY DEF I!Reconcile
  <2> HIDE DEF rd
  <2> QED
    BY <2>1, Zenon DEF I!CancelledAfter, IntakeInv, I!TypeOK
<1>5. PICK new \in I!Reader : /\ readers' = [readers EXCEPT ![r] = new]
                            /\ new.seen = I!NoEvent
  BY AfterReadingType, AskingType DEF I!Reconcile, IntakeInv, I!Reads
<1>6. new.seen.version <= calendar.version
  BY <1>5, NoEventType DEF IntakeInv, I!TypeOK, I!Event, I!IntakeConstants
<1> HIDE DEF rd
<1> QED
  BY <1>2, <1>3, <1>4, <1>5, <1>6, ReaderSteps DEF I!Reconcile, IntakeInv, I!TypeOK

LEMMA CrashSteps ==
  ASSUME I!IntakeConstants, IntakeInv, I!Crash \/ \E r \in I!Readers : I!CrashInReconcile(r)
  PROVE  IntakeInv'
<1>1. CASE I!Crash
  BY <1>1, RebootSteps, FaultType DEF I!Crash, IntakeInv, I!TypeOK
<1>2. ASSUME NEW r \in I!Readers, I!CrashInReconcile(r) PROVE IntakeInv'
  BY <1>2, RebootSteps, FaultType, NextTokenType DEF I!CrashInReconcile, IntakeInv
<1> QED
  BY <1>1, <1>2

-----------------------------------------------------------------------------
(* Steps of the Runs                                                       *)

\* A Run that keeps its event and snapshot, and is not taken up again by
\* anybody but the owner before it is frozen.
LEMMA StatusSteps ==
  ASSUME I!IntakeConstants, IntakeInv, NEW i \in DOMAIN runs, NEW new \in I!Run,
         runs' = [runs EXCEPT ![i] = new],
         new.input = runs[i].input, new.snapshot = runs[i].snapshot,
         runs[i].retried => new.retried,
         runs[i].status = "skipped" => new.status = "skipped",
         ~I!Frozen(i) => new.status = "failed" \/ (new.status = "working" /\ new.retried),
         UNCHANGED <<calendar, token, schedule, cancelled, readers>>, faults' \in 0..MaxFaults
  PROVE  IntakeInv'
<1>1. /\ runs' \in Seq(I!Run) /\ Len(runs') = Len(runs) /\ DOMAIN runs' = DOMAIN runs
      /\ \A j \in DOMAIN runs : runs'[j] = IF j = i THEN new ELSE runs[j]
  BY ReplacedRun DEF IntakeInv, I!TypeOK
<1>2. I!TypeOK'
  BY <1>1 DEF IntakeInv, I!TypeOK
<1>3. KnownVersions'
  BY <1>1 DEF IntakeInv, KnownVersions
<1>4. OneUnfrozen'
  BY <1>1 DEF IntakeInv, OneUnfrozen, I!Frozen
<1>5. I!RevisionsGoForward'
  BY <1>1 DEF IntakeInv, I!RevisionsGoForward, I!Frozen
<1> QED
  BY <1>2, <1>3, <1>4, <1>5 DEF IntakeInv

\* The snapshot Stage: what a Run freezes is what Calendar has, so no earlier
\* Run is ahead; a later Run exists only if this one was retried.
LEMMA SnapshotSteps ==
  ASSUME I!IntakeConstants, IntakeInv, NEW i, I!Snapshot(i)
  PROVE  IntakeInv'
<1> USE DEF I!IntakeConstants
<1>1. i \in DOMAIN runs /\ runs[i] \in I!Run /\ runs[i].status = "working" /\ ~I!Frozen(i)
  BY ElementOfSeq, LenProperties DEF IntakeInv, I!TypeOK, I!Snapshot, I!Working
<1> DEFINE status == IF calendar.kind \in {"absent", "cancelled"} THEN "skipped" ELSE "working"
           new == [runs[i] EXCEPT !.snapshot = I!SnapshotOf(i), !.input = I!NoEvent, !.status = status]
<1>2. /\ I!SnapshotOf(i) \in I!Event
      /\ I!SnapshotOf(i).version > 0 /\ I!SnapshotOf(i).version <= calendar.version
      /\ status # "skipped" => I!SnapshotOf(i) = calendar
  <2>1. /\ runs[i].input \in I!Event /\ runs[i].input.version > 0
        /\ runs[i].input.version <= calendar.version
    BY <1>1 DEF IntakeInv, KnownVersions, OneUnfrozen, I!Run
  <2>2. calendar \in I!Event /\ calendar.version \in Nat /\ (calendar.kind # "absent" => calendar.version > 0)
    BY DEF IntakeInv, I!TypeOK, KnownVersions, I!Event
  <2> QED
    BY <2>1, <2>2 DEF I!SnapshotOf
<1>3. /\ new \in I!Run /\ new.snapshot = I!SnapshotOf(i) /\ new.input = I!NoEvent
      /\ new.status = status /\ new.retried = runs[i].retried
  BY <1>1, <1>2, NoEventType DEF I!Run, I!Statuses
<1>4. runs' = [runs EXCEPT ![i] = new]
  BY <1>1 DEF I!Snapshot, IntakeInv, I!TypeOK
<1>5. UNCHANGED <<calendar, token, schedule, cancelled, readers, faults>>
  BY DEF I!Snapshot
<1> HIDE DEF new, status
<1>6. /\ runs' \in Seq(I!Run) /\ Len(runs') = Len(runs) /\ DOMAIN runs' = DOMAIN runs
      /\ \A j \in DOMAIN runs : runs'[j] = IF j = i THEN new ELSE runs[j]
  BY <1>1, <1>3, <1>4, ReplacedRun DEF IntakeInv, I!TypeOK
<1>7. I!TypeOK'
  BY <1>5, <1>6 DEF IntakeInv, I!TypeOK
<1>8. KnownVersions'
  BY <1>2, <1>3, <1>5, <1>6, NoEventType DEF IntakeInv, I!TypeOK, KnownVersions, I!Event
<1>9. OneUnfrozen'
  BY <1>2, <1>3, <1>6 DEF IntakeInv, OneUnfrozen, I!Frozen
<1>10. I!RevisionsGoForward'
  <2> SUFFICES ASSUME NEW j \in DOMAIN runs, NEW k \in DOMAIN runs, j < k,
                      I!Frozen(j)', I!Frozen(k)', ~runs'[j].retried, runs'[k].status # "skipped"
               PROVE  runs'[j].snapshot.version <= runs'[k].snapshot.version
    BY <1>6 DEF I!RevisionsGoForward
  <2>1. DOMAIN runs = 1..Len(runs) /\ Len(runs) \in Nat
    BY LenProperties DEF IntakeInv, I!TypeOK
  <2>2. CASE j = i
    <3>1. i < Len(runs)
      BY <2>1, <2>2
    <3>2. runs[i].retried
      BY <1>1, <3>1 DEF IntakeInv, OneUnfrozen
    <3> QED
      BY <1>3, <1>6, <2>2, <3>2
  <2>3. CASE k = i
    BY <1>2, <1>3, <1>6, <2>1, <2>3 DEF IntakeInv, KnownVersions
  <2>4. CASE j # i /\ k # i
    BY <1>6, <2>4 DEF IntakeInv, I!RevisionsGoForward, I!Frozen
  <2> QED
    BY <2>2, <2>3, <2>4
<1> QED
  BY <1>7, <1>8, <1>9, <1>10 DEF IntakeInv

LEMMA RunProceeds ==
  ASSUME I!IntakeConstants, IntakeInv, NEW i,
         I!Rest(i) \/ I!Resume(i) \/ I!Finish(i) \/ I!StageFails(i) \/ I!OwnerRetries(i)
  PROVE  IntakeInv'
<1>1. i \in DOMAIN runs /\ runs[i] \in I!Run
  <2>1. i \in DOMAIN runs
    BY DEF I!Rest, I!Resume, I!Finish, I!StageFails, I!OwnerRetries, I!Working
  <2> QED
    BY <2>1, ElementOfSeq, LenProperties DEF IntakeInv, I!TypeOK
<1>2. faults' \in 0..MaxFaults
  <2>1. (UNCHANGED faults) \/ I!Fault
    BY DEF I!Rest, I!Resume, I!Finish, I!StageFails, I!OwnerRetries
  <2>2. I!TypeOK /\ faults \in 0..MaxFaults
    BY DEF IntakeInv, I!TypeOK
  <2> QED
    BY <2>1, <2>2, FaultType
<1>3. UNCHANGED <<calendar, token, schedule, cancelled, readers>>
  BY DEF I!Rest, I!Resume, I!Finish, I!StageFails, I!OwnerRetries
<1>4. ~I!Frozen(i) => runs[i].status \in {"working", "failed"}
  BY <1>1 DEF IntakeInv, OneUnfrozen
<1>5. runs \in [DOMAIN runs -> I!Run]
  BY LenProperties DEF IntakeInv, I!TypeOK
<1>6. CASE I!Rest(i)
  <2> DEFINE new == [runs[i] EXCEPT !.status = "quiet", !.rests = FALSE]
  <2>1. /\ new \in I!Run /\ new.input = runs[i].input /\ new.snapshot = runs[i].snapshot
        /\ new.status = "quiet" /\ new.retried = runs[i].retried
    BY <1>1 DEF I!Run, I!Statuses
  <2>2. runs' = [runs EXCEPT ![i] = new]
    BY <1>1, <1>5, <1>6 DEF I!Rest
  <2>3. runs[i].status = "working" /\ I!Frozen(i)
    BY <1>1, <1>4, <1>6 DEF I!Rest, I!Working
  <2> HIDE DEF new
  <2> QED
    BY <1>1, <1>2, <1>3, <2>1, <2>2, <2>3, StatusSteps
<1>7. CASE I!Resume(i)
  <2> DEFINE new == [runs[i] EXCEPT !.status = "working"]
  <2>1. /\ new \in I!Run /\ new.input = runs[i].input /\ new.snapshot = runs[i].snapshot
        /\ new.status = "working" /\ new.retried = runs[i].retried
    BY <1>1 DEF I!Run, I!Statuses
  <2>2. runs' = [runs EXCEPT ![i] = new]
    BY <1>1, <1>5, <1>7 DEF I!Resume
  <2>3. runs[i].status = "quiet" /\ I!Frozen(i)
    BY <1>1, <1>4, <1>7 DEF I!Resume, I!Working
  <2> HIDE DEF new
  <2> QED
    BY <1>1, <1>2, <1>3, <2>1, <2>2, <2>3, StatusSteps
<1>8. CASE I!Finish(i)
  <2> DEFINE new == [runs[i] EXCEPT !.status =
                       IF calendar.kind \in {"absent", "cancelled"} THEN "skipped" ELSE "done"]
  <2>1. /\ new \in I!Run /\ new.input = runs[i].input /\ new.snapshot = runs[i].snapshot
        /\ new.retried = runs[i].retried
    BY <1>1 DEF I!Run, I!Statuses
  <2>2. runs' = [runs EXCEPT ![i] = new]
    BY <1>1, <1>5, <1>8 DEF I!Finish
  <2>3. runs[i].status = "working" /\ I!Frozen(i)
    BY <1>1, <1>4, <1>8 DEF I!Finish, I!Working
  <2> HIDE DEF new
  <2> QED
    BY <1>1, <1>2, <1>3, <2>1, <2>2, <2>3, StatusSteps
<1>9. CASE I!StageFails(i)
  <2> DEFINE new == [runs[i] EXCEPT !.status = "failed"]
  <2>1. /\ new \in I!Run /\ new.input = runs[i].input /\ new.snapshot = runs[i].snapshot
        /\ new.status = "failed" /\ new.retried = runs[i].retried
    BY <1>1 DEF I!Run, I!Statuses
  <2>2. runs' = [runs EXCEPT ![i] = new]
    BY <1>1, <1>5, <1>9 DEF I!StageFails
  <2>3. runs[i].status = "working"
    BY <1>1, <1>4, <1>9 DEF I!StageFails, I!Working
  <2> HIDE DEF new
  <2> QED
    BY <1>1, <1>2, <1>3, <2>1, <2>2, <2>3, StatusSteps
<1>10. CASE I!OwnerRetries(i)
  <2> DEFINE new == [runs[i] EXCEPT !.status = "working", !.retried = TRUE]
  <2>1. /\ new \in I!Run /\ new.input = runs[i].input /\ new.snapshot = runs[i].snapshot
        /\ new.status = "working" /\ new.retried
    BY <1>1 DEF I!Run, I!Statuses
  <2>2. runs' = [runs EXCEPT ![i] = new]
    BY <1>1, <1>5, <1>10 DEF I!OwnerRetries
  <2>3. runs[i].status = "failed"
    BY <1>1, <1>4, <1>10 DEF I!OwnerRetries, I!Working
  <2> HIDE DEF new
  <2> QED
    BY <1>1, <1>2, <1>3, <2>1, <2>2, <2>3, StatusSteps
<1> QED
  BY <1>6, <1>7, <1>8, <1>9, <1>10

-----------------------------------------------------------------------------
(* A new Run                                                               *)

\* A Run is created only when none is at work: then every earlier Run that is
\* not frozen has failed.
LEMMA NewRunSteps ==
  ASSUME I!IntakeConstants, IntakeInv, schedule.version > 0, ~I!Deferred(schedule),
         ~I!Spent(schedule),
         Len(runs) < MaxRuns, runs' = Append(runs, I!NewRun(schedule)), UNCHANGED calendar
  PROVE  /\ runs' \in Seq(I!Run) /\ Len(runs') <= MaxRuns
         /\ OneUnfrozen' /\ I!RevisionsGoForward'
         /\ \A i \in DOMAIN runs' : /\ runs'[i].input.version <= calendar'.version
                                    /\ runs'[i].snapshot.version <= calendar'.version
<1> DEFINE new == I!NewRun(schedule)
<1>1. /\ new \in I!Run /\ new.input = schedule /\ new.snapshot = I!NoEvent
      /\ new.status = "working" /\ new.snapshot.version = 0
  BY NoEventType DEF I!NewRun, I!Run, I!Statuses, IntakeInv, I!TypeOK
<1>2. runs \in Seq(I!Run) /\ Len(runs) \in Nat /\ DOMAIN runs = 1..Len(runs)
  BY LenProperties DEF IntakeInv, I!TypeOK
<1>3. runs' = Append(runs, new)
  OBVIOUS
<1> HIDE DEF new
<1>4. /\ runs' \in Seq(I!Run) /\ Len(runs') = Len(runs) + 1
      /\ \A j \in 1..Len(runs) : runs'[j] = runs[j]
      /\ runs'[Len(runs) + 1] = new
  BY <1>1, <1>2, <1>3, AppendProperties
<1>5. DOMAIN runs' = 1..(Len(runs) + 1)
  BY <1>4, LenProperties
<1>6. \A j \in DOMAIN runs : runs[j].status # "working"
  BY DEF I!Deferred, I!Spent, I!Active
<1>7. Len(runs') <= MaxRuns
  BY <1>2, <1>4 DEF I!IntakeConstants
<1>8. OneUnfrozen'
  BY <1>1, <1>2, <1>4, <1>5, <1>6 DEF IntakeInv, OneUnfrozen, I!Frozen
<1>9. I!RevisionsGoForward'
  BY <1>1, <1>2, <1>4, <1>5 DEF IntakeInv, I!RevisionsGoForward, I!Frozen
<1>10. \A i \in DOMAIN runs' : /\ runs'[i].input.version <= calendar'.version
                               /\ runs'[i].snapshot.version <= calendar'.version
  BY <1>1, <1>2, <1>4, <1>5 DEF IntakeInv, I!TypeOK, KnownVersions, I!Event, I!IntakeConstants
<1> QED
  BY <1>4, <1>7, <1>8, <1>9, <1>10

LEMMA StartSteps ==
  ASSUME I!IntakeConstants, IntakeInv, I!StartBrief,
         UNCHANGED <<calendar, token, cancelled, faults>>,
         readers' \in [I!Readers -> I!Reader],
         \A r \in I!Readers : readers'[r].seen.version <= calendar.version
  PROVE  IntakeInv'
<1>1. schedule' \in {schedule, I!NoEvent}
  BY DEF I!StartBrief
<1>2. schedule' \in I!Event /\ schedule'.version <= calendar'.version
  BY <1>1, NoEventType DEF IntakeInv, I!TypeOK, KnownVersions, I!Event, I!IntakeConstants
<1>3. /\ runs' \in Seq(I!Run) /\ Len(runs') <= MaxRuns
      /\ OneUnfrozen' /\ I!RevisionsGoForward'
      /\ \A i \in DOMAIN runs' : /\ runs'[i].input.version <= calendar'.version
                                 /\ runs'[i].snapshot.version <= calendar'.version
  <2>1. CASE UNCHANGED runs
    <3>1. calendar' \in I!Event /\ calendar.version <= calendar'.version
      BY DEF IntakeInv, I!TypeOK, I!Event, I!IntakeConstants
    <3> QED
      BY <2>1, <3>1, RunsKept DEF IntakeInv, I!TypeOK
  <2>2. CASE /\ schedule.version > 0 /\ ~I!Deferred(schedule) /\ ~I!Spent(schedule)
             /\ Len(runs) < MaxRuns /\ runs' = Append(runs, I!NewRun(schedule))
    BY <2>2, NewRunSteps
  <2> QED
    BY <2>1, <2>2 DEF I!StartBrief
<1> QED
  BY <1>2, <1>3 DEF IntakeInv, I!TypeOK, KnownVersions

LEMMA ScheduleIsDue ==
  ASSUME I!IntakeConstants, IntakeInv,
         I!PrepareNow \/ \E r \in I!Readers : I!ProcessDue(r) \/ I!CrashInStart(r)
  PROVE  IntakeInv'
<1>1. CASE I!PrepareNow
  BY <1>1, StartSteps DEF I!PrepareNow, IntakeInv, I!TypeOK, KnownVersions
<1>2. ASSUME NEW r \in I!Readers, I!ProcessDue(r) PROVE IntakeInv'
  <2>1. readers' = [readers EXCEPT ![r] = I!IdleReader] /\ readers \in [I!Readers -> I!Reader]
    BY <1>2 DEF I!ProcessDue, IntakeInv, I!TypeOK
  <2>2. I!IdleReader.seen.version <= calendar.version
    BY NoEventType DEF I!IdleReader, IntakeInv, I!TypeOK, I!Event, I!IntakeConstants
  <2>3. /\ readers' \in [I!Readers -> I!Reader]
        /\ \A q \in I!Readers : readers'[q].seen.version <= calendar.version
    BY <2>1, <2>2, IdleReaderType DEF IntakeInv, KnownVersions
  <2> QED
    BY <1>2, <2>3, StartSteps DEF I!ProcessDue
<1>3. ASSUME NEW r \in I!Readers, I!CrashInStart(r) PROVE IntakeInv'
  <2>1. I!Asking("full") \in I!Reader /\ I!Asking("full").seen = I!NoEvent
    BY AskingType DEF IntakeInv, I!Reads
  <2>2. readers' \in [I!Readers -> I!Reader] /\ \A q \in I!Readers : readers'[q].seen = I!NoEvent
    BY <1>3, <2>1, IdleReaderType DEF I!CrashInStart, I!Reboot, I!IdleReader
  <2>3. /\ runs' \in Seq(I!Run) /\ Len(runs') <= MaxRuns
        /\ OneUnfrozen' /\ I!RevisionsGoForward'
        /\ \A i \in DOMAIN runs' : /\ runs'[i].input.version <= calendar'.version
                                   /\ runs'[i].snapshot.version <= calendar'.version
    BY <1>3, NewRunSteps DEF I!CrashInStart
  <2>4. faults' \in 0..MaxFaults
    BY <1>3, FaultType DEF I!CrashInStart, IntakeInv
  <2>5. I!TypeOK'
    BY <1>3, <2>2, <2>3, <2>4 DEF I!CrashInStart, IntakeInv, I!TypeOK
  <2>6. 0 <= calendar.version
    BY DEF IntakeInv, I!TypeOK, I!Event, I!IntakeConstants
  <2>7. KnownVersions'
    BY <1>3, <2>2, <2>3, <2>6, NoEventType DEF I!CrashInStart, IntakeInv, KnownVersions
  <2> QED
    BY <2>3, <2>5, <2>7 DEF IntakeInv
<1> QED
  BY <1>1, <1>2, <1>3

-----------------------------------------------------------------------------
(* The inductive invariant                                                 *)

LEMMA IntakeInvInit ==
  ASSUME I!IntakeConstants
  PROVE  I!Init => IntakeInv
<1> SUFFICES ASSUME I!Init PROVE IntakeInv
  OBVIOUS
<1>1. runs \in Seq(I!Run) /\ Len(runs) = 0 /\ DOMAIN runs = {}
  BY EmptySeq DEF I!Init
<1>2. I!TypeOK
  <2>1. readers \in [I!Readers -> I!Reader]
    BY IdleReaderType DEF I!Init
  <2>2. calendar \in I!Event /\ schedule \in I!Event /\ cancelled \in BOOLEAN
    BY NoEventType DEF I!Init
  <2>3. token \in 0..MaxVersions /\ faults \in 0..MaxFaults /\ Len(runs) <= MaxRuns
    BY <1>1 DEF I!Init, I!IntakeConstants
  <2> QED
    BY <1>1, <2>1, <2>2, <2>3 DEF I!TypeOK
<1>3. KnownVersions
  BY <1>1, NoEventType DEF I!Init, KnownVersions, I!IdleReader
<1>4. OneUnfrozen /\ I!RevisionsGoForward
  BY <1>1 DEF OneUnfrozen, I!RevisionsGoForward
<1> QED
  BY <1>2, <1>3, <1>4 DEF IntakeInv

LEMMA IntakeInvStep ==
  ASSUME I!IntakeConstants
  PROVE  IntakeInv /\ [I!Next]_(I!vars) => IntakeInv'
<1> SUFFICES ASSUME IntakeInv, [I!Next]_(I!vars) PROVE IntakeInv'
  OBVIOUS
<1>1. CASE UNCHANGED I!vars
  <2>1. I!TypeOK' /\ KnownVersions'
    BY <1>1 DEF I!vars, IntakeInv, I!TypeOK, KnownVersions
  <2>2. OneUnfrozen' /\ I!RevisionsGoForward'
    BY <1>1 DEF I!vars, IntakeInv, OneUnfrozen, I!RevisionsGoForward, I!Frozen
  <2> QED
    BY <2>1, <2>2 DEF IntakeInv
<1>2. CASE (\E kind \in I!Kinds, m \in Materials : I!CalendarChanges(kind, m)) \/ I!WeekTurns
  BY <1>2, CalendarSteps
<1>3. CASE I!RelayWakes \/ I!TickSweeps \/ I!TickReads \/ I!TickOnlyStarts
  BY <1>3, ReadsBegin
<1>4. ASSUME NEW r \in I!Readers, I!CalendarAnswers(r) \/ I!TokenExpires(r) \/ I!ReadFails(r)
      PROVE  IntakeInv'
  BY <1>4, ReadIsAnswered
<1>5. ASSUME NEW r \in I!Readers, I!Reconcile(r) PROVE IntakeInv'
  BY <1>5, ReconcileSteps
<1>6. CASE I!Crash \/ \E r \in I!Readers : I!CrashInReconcile(r)
  BY <1>6, CrashSteps
<1>7. CASE I!PrepareNow \/ \E r \in I!Readers : I!ProcessDue(r) \/ I!CrashInStart(r)
  BY <1>7, ScheduleIsDue
<1>8. ASSUME NEW i \in 1..MaxRuns, I!RunStep(i) \/ I!StageFails(i) \/ I!OwnerRetries(i)
      PROVE  IntakeInv'
  BY <1>8, SnapshotSteps, RunProceeds DEF I!RunStep
<1> QED
  BY <1>1, <1>2, <1>3, <1>4, <1>5, <1>6, <1>7, <1>8 DEF I!Next

\* The Intake never knows of a version Calendar has not had, and an earlier Run
\* that is not frozen has failed: the invariant the theorems below rest on.
THEOREM IntakeInvariant ==
  ASSUME I!IntakeConstants
  PROVE  I!Spec => []IntakeInv
  BY IntakeInvInit, IntakeInvStep, PTL DEF I!Spec

\* Every variable of the Intake holds a value of its type, after any
\* interleaving of Calendar reads, Runs, owner requests and crashes.
THEOREM IntakeTypes ==
  ASSUME I!IntakeConstants
  PROVE  I!Spec => []I!TypeOK
<1>1. IntakeInv => I!TypeOK
  BY DEF IntakeInv
<1> QED
  BY <1>1, IntakeInvariant, PTL

\* startBriefForSchedule and the snapshot Stage together: a Brief is never
\* superseded by one of an older version of its event, however late the read
\* that scheduled it was answered and wherever the process died.
THEOREM RevisionsForward ==
  ASSUME I!IntakeConstants
  PROVE  I!Spec => []RevisionsGoForward
<1>1. IntakeInv => RevisionsGoForward
  BY DEF IntakeInv, I!RevisionsGoForward, RevisionsGoForward, I!Frozen, Frozen
<1> QED
  BY <1>1, IntakeInvariant, PTL
=============================================================================
