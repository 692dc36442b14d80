-------------------------- MODULE ModelCallsProofs --------------------------
(***************************************************************************)
(* Model calls, for any number of calls, operations and slots:             *)
(*                                                                         *)
(*  - no operation and no campaign goes past its allowance by more than     *)
(*    providers bill above the estimates.  What remains of an account is at *)
(*    most what is allowed (and overrun) less what is spent and reserved,   *)
(*    and settling a call finds its reservation in every account it was     *)
(*    charged to, because an account reserves at least one estimate for     *)
(*    each call it is charged with;                                         *)
(*  - slots are neither leaked nor exceeded, and none is free between turns *)
(*    while a request waits.  The queues hold calls that wait, each once,   *)
(*    so a grant finds a call without a lease;                              *)
(*  - urgent work passes normal work at most Threshold times;               *)
(*  - the books are exact: an operation has reserved what its calls and     *)
(*    orphans reserved, and the campaign's account is the operations' sum.  *)
(*                                                                         *)
(* What the filter of a queue keeps and how a sum over the operations moves *)
(* are proved by induction, from the fact that a set of numbers has a least *)
(* element.                                                                 *)
(***************************************************************************)
EXTENDS ModelCalls, FiniteSetTheorems, WellFoundedInduction, TLAPS

\* The calls that are under way and charged to an account.
Charging(a) == {c \in Calls : a \in AccountsOf(call[c].op)}

Covered(a) == book[a].reserved >= Estimate * Cardinality(Charging(a))

Within(a) == book[a].remaining + book[a].spent + book[a].reserved <= book[a].allowed + overrun[a]

IdleFree == \A c \in Calls : call[c].step = "idle" => call[c].op = NoOp

LedgerTypes ==
  /\ call \in [Calls -> Call]
  /\ book \in [Accounts -> Account]
  /\ overrun \in [Accounts -> Nat]

LedgerInv ==
  /\ LedgerTypes
  /\ IdleFree
  /\ \A a \in Accounts : Covered(a) /\ Within(a)

-----------------------------------------------------------------------------
\* reserve, where enough remains, keeps an account within its allowance.
LEMMA ReserveKeeps ==
  ASSUME NEW a \in Account, NEW over \in Nat,
         a.remaining >= Estimate,
         a.remaining + a.spent + a.reserved <= a.allowed + over
  PROVE  /\ Reserved(a) \in Account
         /\ Reserved(a).reserved = a.reserved + Estimate
         /\ Reserved(a).remaining + Reserved(a).spent + Reserved(a).reserved
              <= Reserved(a).allowed + over
<1> DEFINE remaining == NonNegative(a.allowed - (a.spent + a.reserved + Estimate))
<1>1. /\ a.allowed \in Nat /\ a.spent \in Nat /\ a.reserved \in Nat /\ a.remaining \in Nat
      /\ Estimate \in Nat
  BY CallsAssumption DEF Account
<1>2. remaining \in Nat /\ remaining + a.spent + (a.reserved + Estimate) <= a.allowed + over
  BY <1>1 DEF NonNegative
<1>3. Reserved(a) = [a EXCEPT !.status = "active", !.reserved = a.reserved + Estimate,
                              !.remaining = remaining]
  BY DEF Reserved
<1> HIDE DEF remaining
<1>4. Reserved(a) = [status |-> "active", allowed |-> a.allowed, spent |-> a.spent,
                     reserved |-> a.reserved + Estimate, remaining |-> remaining]
  BY <1>3 DEF Account
<1>5. Reserved(a) \in Account
  BY <1>1, <1>2, <1>4 DEF Account, Statuses
<1> QED BY <1>2, <1>4, <1>5

\* settle, where the reservation is still there, keeps an account within its
\* allowance and what was overrun.
LEMMA SettleKeeps ==
  ASSUME NEW a \in Account, NEW over \in Nat, NEW cost \in Nat,
         a.reserved >= Estimate,
         a.remaining + a.spent + a.reserved <= a.allowed + over
  PROVE  /\ Settled(a, cost) \in Account
         /\ Settled(a, cost).reserved = a.reserved - Estimate
         /\ over + NonNegative(cost - Estimate) \in Nat
         /\ Settled(a, cost).remaining + Settled(a, cost).spent + Settled(a, cost).reserved
              <= Settled(a, cost).allowed + (over + NonNegative(cost - Estimate))
<1> DEFINE reserved == NonNegative(a.reserved - Estimate)
           remaining == NonNegative(a.allowed - (a.spent + cost + reserved))
<1>1. /\ a.allowed \in Nat /\ a.spent \in Nat /\ a.reserved \in Nat /\ a.remaining \in Nat
      /\ Estimate \in Nat
  BY CallsAssumption DEF Account
<1>2. reserved \in Nat /\ reserved = a.reserved - Estimate
  BY <1>1 DEF NonNegative
<1>3. /\ over + NonNegative(cost - Estimate) \in Nat
      /\ cost <= Estimate + NonNegative(cost - Estimate)
  BY <1>1 DEF NonNegative
<1>4. /\ remaining \in Nat
      /\ remaining + (a.spent + cost) + reserved
           <= a.allowed + (over + NonNegative(cost - Estimate))
  BY <1>1, <1>2, <1>3 DEF NonNegative
<1>5. Settled(a, cost) = [a EXCEPT !.spent = a.spent + cost, !.reserved = reserved,
                                   !.remaining = remaining]
  BY DEF Settled
<1> HIDE DEF remaining, reserved
<1>6. Settled(a, cost) = [status |-> a.status, allowed |-> a.allowed, spent |-> a.spent + cost,
                          reserved |-> reserved, remaining |-> remaining]
  BY <1>5 DEF Account
<1>7. Settled(a, cost) \in Account
  BY <1>1, <1>2, <1>4, <1>6 DEF Account, Statuses
<1> QED BY <1>2, <1>3, <1>4, <1>6, <1>7

\* The calls charged to an account can be counted.
LEMMA ChargingFinite ==
  ASSUME NEW S \in SUBSET Calls
  PROVE  IsFiniteSet(S) /\ Cardinality(S) \in Nat
BY CallsAssumption, FS_Subset, FS_CardinalityType

\* Fewer calls need no more cover.
LEMMA CoverShrinks ==
  ASSUME NEW S \in SUBSET Calls, NEW T \in SUBSET S
  PROVE  Estimate * Cardinality(T) <= Estimate * Cardinality(S)
<1>1. /\ IsFiniteSet(S) /\ Cardinality(S) \in Nat
      /\ IsFiniteSet(T) /\ Cardinality(T) \in Nat
  BY ChargingFinite
<1>2. Cardinality(T) <= Cardinality(S)
  BY <1>1, FS_Subset
<1>3. \A e, m, n \in Nat : m <= n => e * m <= e * n
  OBVIOUS
<1> QED BY <1>1, <1>2, <1>3, CallsAssumption

\* One call more or less is one estimate more or less.
LEMMA CoverByOne ==
  ASSUME NEW S \in SUBSET Calls, NEW c \in Calls
  PROVE  /\ c \notin S => Estimate * Cardinality(S \cup {c}) = Estimate * Cardinality(S) + Estimate
         /\ c \in S => Estimate * Cardinality(S) = Estimate * Cardinality(S \ {c}) + Estimate
         /\ c \in S => Estimate * Cardinality(S) >= Estimate
<1>1. IsFiniteSet(S) /\ Cardinality(S) \in Nat /\ Cardinality(S \ {c}) \in Nat
  BY ChargingFinite, S \ {c} \in SUBSET Calls
<1>2. c \notin S => Cardinality(S \cup {c}) = Cardinality(S) + 1
  BY <1>1, FS_AddElement
<1>3. c \in S => Cardinality(S) = Cardinality(S \ {c}) + 1
  <2>1. c \in S => Cardinality(S \ {c}) = Cardinality(S) - 1
    BY <1>1, FS_RemoveElement
  <2> QED BY <1>1, <2>1
<1>4. ASSUME NEW e \in Nat, NEW n \in Nat PROVE e * (n + 1) = e * n + e
  BY SMTT(30)
<1>5. \A e, n \in Nat : e * n >= 0
  OBVIOUS
<1> QED BY <1>1, <1>2, <1>3, <1>4, <1>5, CallsAssumption

-----------------------------------------------------------------------------
\* At the start every account is whole.
LEMMA InitLedger == Init => LedgerInv
<1> SUFFICES ASSUME Init PROVE LedgerInv
  OBVIOUS
<1>1. LedgerTypes
  BY CallsAssumption DEF Init, LedgerTypes, Call, Idle, Steps, Ages, Account, Statuses
<1>2. IdleFree
  BY DEF Init, IdleFree, Idle
<1>3. \A a \in Accounts : Covered(a)
  <2> TAKE a \in Accounts
  <2>1. Charging(a) = {}
    BY DEF Init, Charging, Idle, AccountsOf
  <2> QED BY <2>1, FS_EmptySet, CallsAssumption DEF Init, Covered
<1>4. \A a \in Accounts : Within(a)
  BY CallsAssumption DEF Init, Within
<1> QED BY <1>1, <1>2, <1>3, <1>4 DEF LedgerInv

\* A step that leaves the ledger alone and lets calls only drop their
\* operation keeps the invariant.
LEMMA CallsMayDrop ==
  ASSUME LedgerInv,
         call' \in [Calls -> Call],
         \A c \in Calls : call'[c].op \in {call[c].op, NoOp},
         \A c \in Calls : call'[c].step = "idle" => call'[c].op = NoOp,
         book' \in [Accounts -> Account],
         \A a \in Accounts : /\ book'[a].reserved = book[a].reserved
                             /\ book'[a].spent = book[a].spent
                             /\ book'[a].allowed - book'[a].remaining
                                  = book[a].allowed - book[a].remaining,
         overrun' = overrun
  PROVE  LedgerInv'
<1>1. LedgerTypes' /\ IdleFree'
  BY DEF LedgerInv, LedgerTypes, IdleFree
<1>2. ASSUME NEW a \in Accounts PROVE Covered(a)'
  <2>1. Charging(a)' \in SUBSET Charging(a) /\ Charging(a) \in SUBSET Calls
    BY DEF Charging, AccountsOf
  <2>2. Estimate * Cardinality(Charging(a)') <= Estimate * Cardinality(Charging(a))
    BY <2>1, CoverShrinks
  <2>3. Cardinality(Charging(a)) \in Nat /\ Cardinality(Charging(a)') \in Nat
    BY <2>1, ChargingFinite
  <2>4. \A x, y, z \in Int : x >= y /\ z <= y => x >= z
    OBVIOUS
  <2>5. /\ book[a].reserved \in Int
        /\ Estimate * Cardinality(Charging(a)) \in Int
        /\ Estimate * Cardinality(Charging(a)') \in Int
    BY <2>3, CallsAssumption DEF LedgerInv, LedgerTypes, Account
  <2>6. book[a].reserved >= Estimate * Cardinality(Charging(a))
    BY DEF LedgerInv, Covered
  <2>7. book'[a].reserved >= Estimate * Cardinality(Charging(a)')
    BY <2>2, <2>4, <2>5, <2>6
  <2> QED BY <2>7 DEF Covered
<1>3. ASSUME NEW a \in Accounts PROVE Within(a)'
  BY DEF LedgerInv, LedgerTypes, Within, Account
<1> QED BY <1>1, <1>2, <1>3 DEF LedgerInv

-----------------------------------------------------------------------------
\* A call charged to an account finds its estimate reserved there.
LEMMA ChargedEnough ==
  ASSUME LedgerInv, NEW c \in Calls, NEW a \in Accounts, a \in AccountsOf(call[c].op)
  PROVE  book[a].reserved >= Estimate
<1>1. Charging(a) \in SUBSET Calls /\ c \in Charging(a)
  BY DEF Charging
<1>2. Estimate * Cardinality(Charging(a)) >= Estimate
  BY <1>1, CoverByOne
<1>3. Cardinality(Charging(a)) \in Nat /\ Estimate \in Nat
  BY <1>1, ChargingFinite, CallsAssumption
<1>4. book[a].reserved >= Estimate * Cardinality(Charging(a))
  BY DEF LedgerInv, Covered
<1>5. book[a].reserved \in Nat /\ Estimate * Cardinality(Charging(a)) \in Nat
  BY <1>3 DEF LedgerInv, LedgerTypes, Account
<1> QED BY <1>2, <1>3, <1>4, <1>5

\* A call that ends with its attempt: its reservation is turned into spending
\* in each account it was charged to.
LEMMA SettleStep ==
  ASSUME LedgerInv, NEW c \in Calls, NEW cost \in Nat,
         Settle(call[c].op, cost),
         call' = [call EXCEPT ![c] = Idle]
  PROVE  LedgerInv'
<1> DEFINE charged(a) == a \in AccountsOf(call[c].op)
<1>1. LedgerTypes /\ IdleFree /\ \A a \in Accounts : Covered(a) /\ Within(a)
  BY DEF LedgerInv
<1>2. /\ book' = [a \in Accounts |-> IF charged(a) THEN Settled(book[a], cost) ELSE book[a]]
      /\ overrun' = [a \in Accounts |->
           IF charged(a) THEN overrun[a] + NonNegative(cost - Estimate) ELSE overrun[a]]
  BY DEF Settle
<1>3. call' \in [Calls -> Call] /\ IdleFree'
  BY <1>1 DEF LedgerTypes, IdleFree, Call, Idle, Steps, Ages
<1>4. ASSUME NEW a \in Accounts
      PROVE  /\ Charging(a) \in SUBSET Calls
             /\ charged(a) => c \in Charging(a) /\ Charging(a)' = Charging(a) \ {c}
             /\ ~charged(a) => Charging(a)' = Charging(a)
  BY <1>1 DEF Charging, LedgerTypes, Idle, AccountsOf
<1>5. ASSUME NEW a \in Accounts, charged(a)
      PROVE  /\ Settled(book[a], cost) \in Account
             /\ Settled(book[a], cost).reserved = book[a].reserved - Estimate
             /\ overrun[a] + NonNegative(cost - Estimate) \in Nat
             /\ Settled(book[a], cost).remaining + Settled(book[a], cost).spent
                  + Settled(book[a], cost).reserved
                  <= Settled(book[a], cost).allowed + (overrun[a] + NonNegative(cost - Estimate))
  <2>1. book[a] \in Account /\ overrun[a] \in Nat
    BY <1>1 DEF LedgerTypes
  <2>2. book[a].reserved >= Estimate
    BY <1>5, ChargedEnough
  <2>3. book[a].remaining + book[a].spent + book[a].reserved <= book[a].allowed + overrun[a]
    BY <1>1 DEF Within
  <2> QED BY <2>1, <2>2, <2>3, SettleKeeps
<1>6. LedgerTypes'
  BY <1>1, <1>2, <1>3, <1>5 DEF LedgerTypes
<1>7. ASSUME NEW a \in Accounts PROVE Covered(a)' /\ Within(a)'
  <2>1. CASE ~charged(a)
    BY <1>1, <1>2, <1>4, <1>7, <2>1 DEF Covered, Within
  <2>2. CASE charged(a)
    <3>1. book'[a] = Settled(book[a], cost) /\ overrun'[a] = overrun[a] + NonNegative(cost - Estimate)
      BY <1>2, <2>2
    <3>2. Within(a)'
      BY <1>5, <2>2, <3>1 DEF Within
    <3>3. Estimate * Cardinality(Charging(a)) = Estimate * Cardinality(Charging(a)') + Estimate
      BY <1>4, <2>2, CoverByOne
    <3>4. /\ Cardinality(Charging(a)) \in Nat /\ Cardinality(Charging(a)') \in Nat
          /\ Estimate \in Nat
      BY <1>4, <2>2, ChargingFinite, CallsAssumption
    <3>5. book[a].reserved \in Nat
      BY <1>1 DEF LedgerTypes, Account
    <3>6. book[a].reserved >= Estimate * Cardinality(Charging(a))
      BY <1>1 DEF Covered
    <3>7. book'[a].reserved = book[a].reserved - Estimate
      BY <1>5, <2>2, <3>1
    <3>8. /\ Estimate * Cardinality(Charging(a)) \in Nat
          /\ Estimate * Cardinality(Charging(a)') \in Nat
      BY <3>4
    <3>9. \A r, x, y, e \in Int : r >= x /\ x = y + e => r - e >= y
      OBVIOUS
    <3>10. book'[a].reserved >= Estimate * Cardinality(Charging(a)')
      BY <3>3, <3>4, <3>5, <3>6, <3>7, <3>8, <3>9
    <3> QED BY <3>2, <3>10 DEF Covered
  <2> QED BY <2>1, <2>2
<1> QED BY <1>3, <1>6, <1>7 DEF LedgerInv

\* A call that begins reserves its estimate in each account it is charged to.
LEMMA CompleteStep ==
  ASSUME LedgerInv, NEW c \in Calls, NEW o \in Ops \cup {NoOp}, NEW u \in BOOLEAN,
         Complete(c, o, u)
  PROVE  LedgerInv'
<1> DEFINE charged(a) == a \in AccountsOf(o)
<1>1. LedgerTypes /\ IdleFree /\ \A a \in Accounts : Covered(a) /\ Within(a)
  BY DEF LedgerInv
<1>2. /\ book' = [a \in Accounts |-> IF charged(a) THEN Reserved(book[a]) ELSE book[a]]
      /\ overrun' = overrun
      /\ \A a \in AccountsOf(o) : book[a].remaining >= Estimate
      /\ call[c].step = "idle"
      /\ call' = [call EXCEPT ![c] = [Idle EXCEPT !.step = "queued", !.op = o, !.urgent = u]]
  BY DEF Complete
<1>3. call' \in [Calls -> Call] /\ IdleFree' /\ call'[c].op = o
  BY <1>1, <1>2 DEF LedgerTypes, IdleFree, Call, Idle, Steps, Ages
<1>4. ASSUME NEW a \in Accounts
      PROVE  /\ Charging(a) \in SUBSET Calls /\ c \notin Charging(a)
             /\ charged(a) => Charging(a)' = Charging(a) \cup {c}
             /\ ~charged(a) => Charging(a)' = Charging(a)
  <2>1. call[c].op = NoOp
    BY <1>1, <1>2 DEF IdleFree
  <2>2. \A d \in Calls : d # c => call'[d] = call[d]
    BY <1>1, <1>2 DEF LedgerTypes
  <2> QED BY <1>3, <2>1, <2>2 DEF Charging, AccountsOf
<1>5. ASSUME NEW a \in Accounts, charged(a)
      PROVE  /\ Reserved(book[a]) \in Account
             /\ Reserved(book[a]).reserved = book[a].reserved + Estimate
             /\ Reserved(book[a]).remaining + Reserved(book[a]).spent + Reserved(book[a]).reserved
                  <= Reserved(book[a]).allowed + overrun[a]
  BY <1>1, <1>2, <1>5, ReserveKeeps DEF LedgerTypes, Within
<1>6. LedgerTypes'
  BY <1>1, <1>2, <1>3, <1>5 DEF LedgerTypes
<1>7. ASSUME NEW a \in Accounts PROVE Covered(a)' /\ Within(a)'
  <2>1. CASE ~charged(a)
    BY <1>1, <1>2, <1>4, <1>7, <2>1 DEF Covered, Within
  <2>2. CASE charged(a)
    <3>1. book'[a] = Reserved(book[a]) /\ overrun'[a] = overrun[a]
      BY <1>2, <2>2
    <3>2. Within(a)'
      BY <1>5, <2>2, <3>1 DEF Within
    <3>3. Estimate * Cardinality(Charging(a)') = Estimate * Cardinality(Charging(a)) + Estimate
      BY <1>4, <2>2, CoverByOne
    <3>4. Cardinality(Charging(a)) \in Nat /\ Estimate \in Nat
      BY <1>4, ChargingFinite, CallsAssumption
    <3>5. book[a].reserved \in Nat
      BY <1>1 DEF LedgerTypes, Account
    <3>6. book[a].reserved >= Estimate * Cardinality(Charging(a))
      BY <1>1 DEF Covered
    <3>7. book'[a].reserved = book[a].reserved + Estimate
      BY <1>5, <2>2, <3>1
    <3>8. Estimate * Cardinality(Charging(a)) \in Nat
      BY <3>4
    <3>9. \A r, x, e \in Int : r >= x => r + e >= x + e
      OBVIOUS
    <3>10. book'[a].reserved >= Estimate * Cardinality(Charging(a)')
      BY <3>3, <3>4, <3>5, <3>6, <3>7, <3>8, <3>9
    <3> QED BY <3>2, <3>10 DEF Covered
  <2> QED BY <2>1, <2>2
<1> QED BY <1>3, <1>6, <1>7 DEF LedgerInv

-----------------------------------------------------------------------------
\* Steps that touch no account but may end calls without settling them.
LEMMA CallsOnly ==
  ASSUME LedgerInv,
         call' \in [Calls -> Call],
         \A c \in Calls : call'[c] = Idle \/ (call'[c].op = call[c].op /\ call'[c].step # "idle")
                         \/ call'[c] = call[c],
         UNCHANGED <<book, overrun>>
  PROVE  LedgerInv'
<1>1. LedgerTypes /\ IdleFree
  BY DEF LedgerInv
<1>2. \A c \in Calls : call'[c].op \in {call[c].op, NoOp}
  BY DEF Idle
<1>3. \A c \in Calls : call'[c].step = "idle" => call'[c].op = NoOp
  BY <1>1 DEF Idle, IdleFree
<1>4. book' = book /\ overrun' = overrun /\ book' \in [Accounts -> Account]
  BY <1>1 DEF LedgerTypes
<1> QED BY <1>2, <1>3, <1>4, CallsMayDrop

\* Every step keeps the ledger's invariant.
LEMMA NextLedger == LedgerInv /\ [Next]_vars => LedgerInv'
<1> SUFFICES ASSUME LedgerInv, [Next]_vars PROVE LedgerInv'
  OBVIOUS
<1> USE DEF Steps, Ages
<1>t. LedgerTypes /\ IdleFree /\ Idle \in Call
  BY DEF LedgerInv, Idle, Call
<1>1. CASE PumpGrants
  <2>1. UNCHANGED <<book, overrun>>
    BY <1>1 DEF PumpGrants, ledger
  <2>2. PICK k : call' = [call EXCEPT ![k].step = "wire", ![k].age = "fresh", ![k].leases = @ + 1,
                                      ![k].bound = BoundAfterGrant(call[k])]
    BY <1>1 DEF PumpGrants
  <2>3. call' \in [Calls -> Call]
    <3>1. CASE k \notin Calls
      BY <1>t, <2>2, <3>1 DEF LedgerTypes
    <3>2. CASE k \in Calls
      <4>1. /\ call[k].op \in Ops \cup {NoOp} /\ call[k].urgent \in BOOLEAN
            /\ call[k].leases \in Nat /\ call[k].bound \in Nat
        BY <1>t, <3>2 DEF LedgerTypes, Call
      <4>2. BoundAfterGrant(call[k]) \in Nat /\ call[k].leases + 1 \in Nat
        BY <4>1 DEF BoundAfterGrant
      <4>3. call'[k] = [step |-> "wire", op |-> call[k].op, urgent |-> call[k].urgent,
                        age |-> "fresh", leases |-> call[k].leases + 1,
                        bound |-> BoundAfterGrant(call[k])]
        BY <1>t, <2>2, <3>2 DEF LedgerTypes, Call
      <4>4. call'[k] \in Call
        BY <4>1, <4>2, <4>3 DEF Call
      <4>5. \A d \in Calls : d # k => call'[d] = call[d]
        BY <1>t, <2>2 DEF LedgerTypes
      <4>6. call' = [d \in Calls |-> call'[d]]
        BY <1>t, <2>2 DEF LedgerTypes
      <4> QED BY <1>t, <4>4, <4>5, <4>6 DEF LedgerTypes
    <3> QED BY <3>1, <3>2
  <2>4. \A c \in Calls : (call'[c].op = call[c].op /\ call'[c].step # "idle") \/ call'[c] = call[c]
    BY <1>t, <2>2 DEF LedgerTypes, Call
  <2> QED BY <2>1, <2>3, <2>4, CallsOnly
<1>2. CASE PumpExpires
  <2>1. UNCHANGED <<book, overrun>>
    BY <1>2 DEF PumpExpires
  <2>2. PICK k : \/ call' = [call EXCEPT ![k] = Idle]
                 \/ call' = [call EXCEPT ![k].step = "failing", ![k].age = "fresh"]
    BY <1>2 DEF PumpExpires
  <2>3. call' \in [Calls -> Call]
    BY <1>t, <2>2 DEF LedgerTypes, Call
  <2>4. \A c \in Calls : \/ call'[c] = Idle \/ call'[c] = call[c]
                         \/ call'[c].op = call[c].op /\ call'[c].step # "idle"
    BY <1>t, <2>2 DEF LedgerTypes, Call
  <2> QED BY <2>1, <2>3, <2>4, CallsOnly
<1>3. CASE PumpEnds
  BY <1>t, <1>3, CallsOnly DEF PumpEnds, ledger, LedgerTypes
<1>4. ASSUME NEW c \in Calls, CallStep(c) PROVE LedgerInv'
  <2>1. ASSUME NEW cost \in Costs \cup {Estimate}, Answered(c, cost) PROVE LedgerInv'
    BY <2>1, SettleStep, CallsAssumption DEF Answered
  <2>2. CASE Fails(c)
    BY <2>2, SettleStep, CallsAssumption DEF Fails
  <2>3. CASE BacksOff(c)
    <3>1. call' = [call EXCEPT ![c].step = "asleep"] /\ UNCHANGED <<book, overrun>>
      BY <2>3 DEF BacksOff, ledger
    <3>2. call' \in [Calls -> Call]
      BY <1>t, <3>1 DEF LedgerTypes, Call
    <3>3. \A d \in Calls : (call'[d].op = call[d].op /\ call'[d].step # "idle") \/ call'[d] = call[d]
      BY <1>t, <3>1 DEF LedgerTypes, Call
    <3> QED BY <3>1, <3>2, <3>3, CallsOnly
  <2>4. CASE WakesUp(c)
    <3>1. call' = [call EXCEPT ![c].step = "requeued"] /\ UNCHANGED <<book, overrun>>
      BY <2>4 DEF WakesUp, ledger
    <3>2. call' \in [Calls -> Call]
      BY <1>t, <3>1 DEF LedgerTypes, Call
    <3>3. \A d \in Calls : (call'[d].op = call[d].op /\ call'[d].step # "idle") \/ call'[d] = call[d]
      BY <1>t, <3>1 DEF LedgerTypes, Call
    <3> QED BY <3>1, <3>2, <3>3, CallsOnly
  <2>5. CASE CeilingInBackoff(c)
    <3>1. /\ call' = [call EXCEPT ![c].step = "failing", ![c].age = "fresh"]
          /\ UNCHANGED <<book, overrun>>
      BY <2>5 DEF CeilingInBackoff, ledger
    <3>2. call' \in [Calls -> Call]
      BY <1>t, <3>1 DEF LedgerTypes, Call
    <3>3. \A d \in Calls : (call'[d].op = call[d].op /\ call'[d].step # "idle") \/ call'[d] = call[d]
      BY <1>t, <3>1 DEF LedgerTypes, Call
    <3> QED BY <3>1, <3>2, <3>3, CallsOnly
  <2> QED BY <1>4, <2>1, <2>2, <2>3, <2>4, <2>5 DEF CallStep
<1>5. ASSUME NEW c \in Calls, Waits(c) PROVE LedgerInv'
  <2>1. call' = [call EXCEPT ![c].age = Older(@)] /\ UNCHANGED <<book, overrun>>
    BY <1>5 DEF Waits, ledger
  <2>2. call' \in [Calls -> Call]
    BY <1>t, <2>1 DEF LedgerTypes, Call, Older
  <2>3. \A d \in Calls : call'[d].op = call[d].op /\ call'[d].step = call[d].step
    BY <1>t, <2>1 DEF LedgerTypes, Call
  <2>4. \A d \in Calls : call'[d].step = "idle" => call'[d].op = NoOp
    BY <1>t, <2>3 DEF IdleFree
  <2>5. book' = book /\ overrun' = overrun /\ book' \in [Accounts -> Account]
    BY <1>t, <2>1 DEF LedgerTypes
  <2> QED BY <2>2, <2>3, <2>4, <2>5, CallsMayDrop
<1>6. ASSUME NEW c \in Calls, NEW o \in Ops \cup {NoOp}, NEW u \in BOOLEAN, Complete(c, o, u)
      PROVE  LedgerInv'
  BY <1>6, CompleteStep
<1>7. ASSUME NEW o \in Ops, CompleteRefused(o) PROVE LedgerInv'
  <2>1. book' = [book EXCEPT ![o].status = "active"] /\ overrun' = overrun /\ call' = call
    BY <1>7 DEF CompleteRefused
  <2>2. book' \in [Accounts -> Account]
    BY <1>t, <2>1 DEF LedgerTypes, Account, Statuses
  <2>3. \A a \in Accounts : /\ book'[a].reserved = book[a].reserved
                             /\ book'[a].spent = book[a].spent
                             /\ book'[a].allowed = book[a].allowed
                             /\ book'[a].remaining = book[a].remaining
    BY <1>t, <2>1 DEF LedgerTypes, Account
  <2> QED BY <1>t, <2>1, <2>2, <2>3, CallsMayDrop DEF LedgerTypes, IdleFree
<1>8. ASSUME NEW o \in Ops, Cancel(o) PROVE LedgerInv'
  <2>1. /\ book' = [book EXCEPT ![o].status = IF @ = "absent" THEN @ ELSE "cancelled"]
        /\ overrun' = overrun
        /\ call' = [c \in Calls |->
             IF c \notin Queued(o) THEN call[c]
             ELSE IF call[c].step = "queued" THEN Idle
             ELSE [call[c] EXCEPT !.step = "failing", !.age = "fresh"]]
    BY <1>8 DEF Cancel
  <2>2. book' \in [Accounts -> Account]
    BY <1>t, <2>1 DEF LedgerTypes, Account, Statuses
  <2>3. \A a \in Accounts : /\ book'[a].reserved = book[a].reserved
                             /\ book'[a].spent = book[a].spent
                             /\ book'[a].allowed = book[a].allowed
                             /\ book'[a].remaining = book[a].remaining
    BY <1>t, <2>1 DEF LedgerTypes, Account
  <2>4. call' \in [Calls -> Call]
    BY <1>t, <2>1 DEF LedgerTypes, Call
  <2>5. \A c \in Calls : call'[c].op \in {call[c].op, NoOp}
    BY <1>t, <2>1 DEF LedgerTypes, Call, Idle
  <2>6. \A c \in Calls : call'[c].step = "idle" => call'[c].op = NoOp
    BY <1>t, <2>1 DEF LedgerTypes, Call, Idle, IdleFree
  <2> QED BY <2>1, <2>2, <2>3, <2>4, <2>5, <2>6, CallsMayDrop
<1>9. ASSUME NEW o \in Ops, Extend(o) PROVE LedgerInv'
  <2>1. /\ book' = [book EXCEPT ![o].allowed = @ + Extension, ![o].remaining = @ + Extension]
        /\ overrun' = overrun /\ call' = call
    BY <1>9 DEF Extend
  <2>2. book' \in [Accounts -> Account]
    <3>1. o \in Accounts /\ book[o] \in Account
      BY <1>t DEF LedgerTypes, Accounts
    <3>2. book[o].allowed + Extension \in Nat /\ book[o].remaining + Extension \in Nat
      BY <3>1, CallsAssumption DEF Account
    <3>3. book'[o] = [status |-> book[o].status, allowed |-> book[o].allowed + Extension,
                      spent |-> book[o].spent, reserved |-> book[o].reserved,
                      remaining |-> book[o].remaining + Extension]
      BY <1>t, <2>1, <3>1 DEF LedgerTypes, Account
    <3>4. book'[o] \in Account
      BY <3>1, <3>2, <3>3 DEF Account
    <3>5. \A a \in Accounts : a # o => book'[a] = book[a]
      BY <1>t, <2>1 DEF LedgerTypes
    <3>6. book' = [a \in Accounts |-> book'[a]]
      BY <1>t, <2>1 DEF LedgerTypes
    <3> QED BY <1>t, <3>4, <3>5, <3>6 DEF LedgerTypes
  <2>3. \A a \in Accounts : /\ book'[a].reserved = book[a].reserved
                             /\ book'[a].spent = book[a].spent
                             /\ book'[a].allowed - book'[a].remaining
                                  = book[a].allowed - book[a].remaining
    BY <1>t, <2>1, CallsAssumption DEF LedgerTypes, Account
  <2> QED BY <1>t, <2>1, <2>2, <2>3, CallsMayDrop DEF LedgerTypes, IdleFree
<1>10. CASE Crash
  <2>1. call' = [c \in Calls |-> Idle] /\ UNCHANGED <<book, overrun>>
    BY <1>10 DEF Crash
  <2> QED BY <1>t, <2>1, CallsOnly
<1>11. CASE UNCHANGED vars
  BY <1>t, <1>11, CallsOnly DEF vars, ledger, LedgerTypes
<1> QED BY <1>1, <1>2, <1>3, <1>4, <1>5, <1>6, <1>7, <1>8, <1>9, <1>10, <1>11 DEF Next, Pump

\* Allowances hold: what is spent and reserved exceeds what was allowed by no
\* more than providers billed above the estimates, whatever calls overlap,
\* fail, are cancelled, extended or cut off by a crash.
THEOREM AllowancesHold == Spec => []AllowanceHolds
<1>1. LedgerInv => AllowanceHolds
  BY DEF LedgerInv, LedgerTypes, Within, Account, AllowanceHolds
<1> QED BY <1>1, InitLedger, NextLedger, PTL DEF Spec

-----------------------------------------------------------------------------
(* Induction                                                               *)

\* A set of numbers has a least one.
LEMMA LeastElement ==
  ASSUME NEW T \in SUBSET Nat, T # {}
  PROVE  \E x \in T : \A y \in T : x <= y
<1> DEFINE R == OpToRel(<, Nat)
<1>1. \E x \in T : \A y \in T : ~ (<<y, x>> \in R)
  <2>1. IsWellFoundedOn(R, Nat)
    BY NatLessThanWellFounded
  <2> HIDE DEF R
  <2> QED BY <2>1, WFMin
<1>2. R = {xy \in Nat \X Nat : xy[1] < xy[2]}
  BY DEF OpToRel
<1> HIDE DEF R
<1>3. PICK x \in T : \A y \in T : ~ (<<y, x>> \in R)
  BY <1>1
<1>4. \A y \in T : ~(y < x)
  BY <1>2, <1>3
<1>5. \A y \in T : x <= y
  BY <1>4
<1> QED BY <1>5

\* Induction up to a bound, over a set of numbers.
LEMMA UpTo ==
  ASSUME NEW n \in Nat, NEW P, 0 \in P,
         \A i \in 1..n : (i - 1) \in P => i \in P
  PROVE  n \in P
<1> SUFFICES ASSUME n \notin P PROVE FALSE
  OBVIOUS
<1> DEFINE T == {i \in 0..n : i \notin P}
<1>1. T \in SUBSET Nat /\ T # {}
  OBVIOUS
<1>2. PICK x \in T : \A y \in T : x <= y
  BY <1>1, LeastElement
<1>3. x \in 1..n /\ (x - 1) \in 0..n /\ ~(x <= x - 1)
  OBVIOUS
<1>4. (x - 1) \in P
  BY <1>2, <1>3
<1> QED BY <1>3, <1>4

-----------------------------------------------------------------------------
(* What a queue holds once requests are filtered out                       *)

\* f holds what the first n steps of the filter keep.
Keeping(s, X, n, f) ==
  f = [i \in 0..n |-> IF i = 0 THEN <<>>
                      ELSE IF s[i] \in X THEN f[i - 1] ELSE Append(f[i - 1], s[i])]

\* The recursion of the filter has a solution.
LEMMA KeepingExists ==
  ASSUME NEW S, NEW s \in Seq(S), NEW X
  PROVE  \E f : Keeping(s, X, Len(s), f)
<1> DEFINE P == {n \in Nat : \E f : Keeping(s, X, n, f)}
<1>1. 0 \in P
  <2> DEFINE f == [i \in 0..0 |-> <<>>]
  <2>1. Keeping(s, X, 0, f)
    BY DEF Keeping
  <2> QED BY <2>1
<1>2. ASSUME NEW n \in 1..Len(s), (n - 1) \in P PROVE n \in P
  <2>1. PICK f : Keeping(s, X, n - 1, f)
    BY <1>2
  <2> DEFINE last == IF s[n] \in X THEN f[n - 1] ELSE Append(f[n - 1], s[n])
             g == [i \in 0..n |-> IF i < n THEN f[i] ELSE last]
             h == [i \in 0..n |-> IF i = 0 THEN <<>>
                                  ELSE IF s[i] \in X THEN g[i - 1] ELSE Append(g[i - 1], s[i])]
  <2>2. \A i \in 0..(n - 1) : f[i] = IF i = 0 THEN <<>>
                                     ELSE IF s[i] \in X THEN f[i - 1] ELSE Append(f[i - 1], s[i])
    BY <2>1 DEF Keeping
  <2>3. \A i \in 0..n : g[i] = h[i]
    <3> TAKE i \in 0..n
    <3>1. CASE i = n
      BY <3>1
    <3>2. CASE i < n /\ i # 0
      <4>1. i \in 0..(n - 1) /\ i - 1 \in 0..n /\ i - 1 < n
        BY <3>2
      <4>2. g[i] = f[i] /\ g[i - 1] = f[i - 1]
        BY <3>2, <4>1
      <4> QED BY <4>1, <4>2, <2>2, <3>2
    <3>3. CASE i = 0
      BY <2>2, <3>3
    <3> QED BY <3>1, <3>2, <3>3
  <2>4. g = [i \in 0..n |-> g[i]] /\ h = [i \in 0..n |-> h[i]]
    OBVIOUS
  <2>5. Keeping(s, X, n, g)
    <3> HIDE DEF last
    <3>1. g = h
      <4> HIDE DEF g, h
      <4> QED BY <2>3, <2>4
    <3> HIDE DEF g
    <3> QED BY <3>1 DEF Keeping
  <2> HIDE DEF g
  <2> QED BY <2>5
<1> HIDE DEF P
<1>3. Len(s) \in P
  BY <1>1, <1>2, UpTo
<1> QED BY <1>3 DEF P

Distinct(s) == \A i, j \in DOMAIN s : s[i] = s[j] => i = j

\* What is left is in the queue, is not filtered, and comes up once if it did.
LEMMA WithoutKeeps ==
  ASSUME NEW S, NEW s \in Seq(S), NEW X
  PROVE  /\ Without(s, X) \in Seq(S)
         /\ \A i \in DOMAIN Without(s, X) :
              Without(s, X)[i] \notin X /\ \E j \in DOMAIN s : Without(s, X)[i] = s[j]
         /\ Distinct(s) => Distinct(Without(s, X))
         /\ s = <<>> => Without(s, X) = <<>>
<1> DEFINE k == CHOOSE f : Keeping(s, X, Len(s), f)
<1>1. Keeping(s, X, Len(s), k)
  BY KeepingExists
<1>2. Without(s, X) = k[Len(s)]
  BY DEF Without, Keeping
<1> HIDE DEF k
<1>3. \A i \in 0..Len(s) : k[i] = IF i = 0 THEN <<>>
                                  ELSE IF s[i] \in X THEN k[i - 1] ELSE Append(k[i - 1], s[i])
  BY <1>1 DEF Keeping
<1> DEFINE Good(n) == /\ k[n] \in Seq(S)
                      /\ \A i \in 1..Len(k[n]) :
                           k[n][i] \notin X /\ \E j \in 1..n : k[n][i] = s[j]
                      /\ Distinct(s) => \A i, j \in 1..Len(k[n]) : k[n][i] = k[n][j] => i = j
           P == {n \in 0..Len(s) : Good(n)}
<1>4. 0 \in P
  <2>1. k[0] = <<>> /\ 0 \in 0..Len(s)
    BY <1>3
  <2>2. Good(0)
    BY <2>1
  <2> QED BY <2>1, <2>2
<1>5. ASSUME NEW n \in 1..Len(s), (n - 1) \in P PROVE n \in P
  <2>1. Good(n - 1) /\ n - 1 \in 0..Len(s) /\ s[n] \in S
    BY <1>5
  <2>2. CASE s[n] \in X
    <3>1. k[n] = k[n - 1]
      BY <1>3, <2>2
    <3>2. \A j \in 1..(n - 1) : j \in 1..n
      OBVIOUS
    <3> QED BY <2>1, <3>1, <3>2
  <2>3. CASE s[n] \notin X
    <3> DEFINE q == k[n - 1]
    <3>1. k[n] = Append(q, s[n]) /\ q \in Seq(S)
      <4>1. n \in 0..Len(s) /\ n # 0
        OBVIOUS
      <4>2. k[n] = Append(k[n - 1], s[n])
        BY <1>3, <2>3, <4>1
      <4> QED BY <2>1, <4>2
    <3> HIDE DEF q
    <3>2. /\ k[n] \in Seq(S) /\ Len(k[n]) = Len(q) + 1 /\ Len(q) \in Nat
          /\ k[n][Len(q) + 1] = s[n]
          /\ \A i \in 1..Len(q) : k[n][i] = q[i]
      BY <2>1, <3>1
    <3>3. \A i \in 1..Len(q) : q[i] \notin X /\ \E j \in 1..(n - 1) : q[i] = s[j]
      BY <2>1 DEF q
    <3>4. \A i \in 1..Len(k[n]) : i = Len(q) + 1 \/ i \in 1..Len(q)
      BY <3>2
    <3>5. \A i \in 1..Len(k[n]) : k[n][i] \notin X /\ \E j \in 1..n : k[n][i] = s[j]
      <4> TAKE i \in 1..Len(k[n])
      <4>1. CASE i = Len(q) + 1
        BY <2>3, <3>2, <4>1
      <4>2. CASE i \in 1..Len(q)
        <5>1. PICK j \in 1..(n - 1) : q[i] = s[j]
          BY <3>3, <4>2
        <5>2. j \in 1..n /\ k[n][i] = s[j]
          BY <3>2, <4>2, <5>1
        <5> QED BY <3>2, <3>3, <4>2, <5>2
      <4> QED BY <3>4, <4>1, <4>2
    <3>6. ASSUME Distinct(s) PROVE \A i, j \in 1..Len(k[n]) : k[n][i] = k[n][j] => i = j
      <4>1. \A i \in 1..Len(q) : q[i] # s[n]
        <5> TAKE i \in 1..Len(q)
        <5>1. PICK j \in 1..(n - 1) : q[i] = s[j]
          BY <3>3
        <5>2. j \in DOMAIN s /\ n \in DOMAIN s /\ j # n
          OBVIOUS
        <5> QED BY <3>6, <5>1, <5>2 DEF Distinct
      <4>2. \A i, j \in 1..Len(q) : q[i] = q[j] => i = j
        BY <2>1, <3>6 DEF q
      <4> QED BY <3>2, <3>4, <4>1, <4>2
    <3> QED BY <3>2, <3>5, <3>6
  <2> QED BY <2>2, <2>3
<1> HIDE DEF P
<1>6. Len(s) \in P
  BY <1>4, <1>5, UpTo
<1>7. Good(Len(s))
  BY <1>6 DEF P
<1>8. s = <<>> => k[Len(s)] = <<>>
  BY <1>3
<1>9. k[Len(s)] \in Seq(S) => DOMAIN k[Len(s)] = 1..Len(k[Len(s)])
  OBVIOUS
<1>10. DOMAIN s = 1..Len(s)
  OBVIOUS
<1> QED BY <1>2, <1>7, <1>8, <1>9, <1>10 DEF Distinct

-----------------------------------------------------------------------------
(* The queues                                                              *)

Waiting(k) == k.step \in {"queued", "requeued"}

\* A queue holds calls that wait, each once.
Lined(q, cl) ==
  /\ q \in Seq(Calls) /\ Distinct(q)
  /\ \A i \in DOMAIN q : Waiting(cl[q[i]])

Apart(q, r) == \A i \in DOMAIN q, j \in DOMAIN r : q[i] # r[j]

\* Both queues hold calls that wait, and no call is in them twice.
QueuesOK == Lined(normal, call) /\ Lined(urgent, call) /\ Apart(normal, urgent)

\* A call that did not wait joins a queue.
LEMMA JoinLine ==
  ASSUME NEW cl, NEW dl, NEW q, NEW r, Lined(q, cl), Lined(r, cl), Apart(q, r),
         NEW c \in Calls, ~Waiting(cl[c]), Waiting(dl[c]),
         \A d \in Calls \ {c} : dl[d].step = cl[d].step
  PROVE  /\ Lined(Append(q, c), dl) /\ Lined(r, dl)
         /\ Apart(Append(q, c), r) /\ Apart(r, Append(q, c))
<1>1. /\ q \in Seq(Calls) /\ r \in Seq(Calls)
      /\ \A i \in DOMAIN q : q[i] \in Calls /\ q[i] # c
      /\ \A i \in DOMAIN r : r[i] \in Calls /\ r[i] # c
  BY DEF Lined
<1>2. /\ Append(q, c) \in Seq(Calls)
      /\ \A i \in DOMAIN Append(q, c) :
           \/ i \in DOMAIN q /\ Append(q, c)[i] = q[i]
           \/ i = Len(q) + 1 /\ Append(q, c)[i] = c
  BY <1>1
<1>3. \A d \in Calls : Waiting(cl[d]) => Waiting(dl[d])
  BY DEF Waiting
<1>4. Lined(r, dl)
  BY <1>1, <1>3 DEF Lined
<1>5. Distinct(Append(q, c))
  BY <1>1, <1>2 DEF Lined, Distinct
<1>6. \A i \in DOMAIN Append(q, c) : Waiting(dl[Append(q, c)[i]])
  BY <1>1, <1>2, <1>3 DEF Lined
<1>7. \A i \in DOMAIN Append(q, c), j \in DOMAIN r : Append(q, c)[i] # r[j]
  BY <1>1, <1>2 DEF Apart
<1> QED BY <1>2, <1>4, <1>5, <1>6, <1>7 DEF Lined, Apart

\* The head of a queue leaves it.
LEMMA LeaveLine ==
  ASSUME NEW cl, NEW dl, NEW q, NEW r, Lined(q, cl), Lined(r, cl), Apart(q, r), q # <<>>,
         \A d \in Calls \ {Head(q)} : dl[d].step = cl[d].step
  PROVE  /\ Head(q) \in Calls /\ Waiting(cl[Head(q)])
         /\ Lined(Tail(q), dl) /\ Lined(r, dl)
         /\ Apart(Tail(q), r) /\ Apart(r, Tail(q))
<1>1. /\ q \in Seq(Calls) /\ r \in Seq(Calls)
      /\ Head(q) = q[1] /\ 1 \in DOMAIN q /\ Head(q) \in Calls
  BY DEF Lined
<1>2. /\ Tail(q) \in Seq(Calls)
      /\ \A i \in DOMAIN Tail(q) : i + 1 \in DOMAIN q /\ Tail(q)[i] = q[i + 1] /\ i + 1 # 1 /\ i \in Nat
  BY <1>1
<1>3. \A i \in DOMAIN Tail(q) : Tail(q)[i] \in Calls /\ Tail(q)[i] # Head(q)
  BY <1>1, <1>2 DEF Lined, Distinct
<1>4. \A i \in DOMAIN r : r[i] \in Calls /\ r[i] # Head(q)
  BY <1>1 DEF Apart
<1>5. \A i \in DOMAIN Tail(q) : Waiting(dl[Tail(q)[i]])
  BY <1>2, <1>3 DEF Lined, Waiting
<1>6. Distinct(Tail(q))
  BY <1>2 DEF Lined, Distinct
<1>7. Lined(r, dl)
  BY <1>4 DEF Lined, Waiting
<1>8. \A i \in DOMAIN Tail(q), j \in DOMAIN r : Tail(q)[i] # r[j]
  BY <1>2 DEF Apart
<1> QED BY <1>1, <1>2, <1>5, <1>6, <1>7, <1>8 DEF Lined, Apart

\* Requests are filtered out of both queues.
LEMMA FilterLine ==
  ASSUME NEW cl, NEW dl, NEW q, NEW r, Lined(q, cl), Lined(r, cl), Apart(q, r), NEW X,
         \A d \in Calls \ X : dl[d].step = cl[d].step
  PROVE  Lined(Without(q, X), dl) /\ Lined(Without(r, X), dl) /\ Apart(Without(q, X), Without(r, X))
<1>1. ASSUME NEW s, Lined(s, cl)
      PROVE  /\ Lined(Without(s, X), dl)
             /\ \A i \in DOMAIN Without(s, X) : \E j \in DOMAIN s : Without(s, X)[i] = s[j]
  <2>1. s \in Seq(Calls) /\ Distinct(s) /\ \A i \in DOMAIN s : s[i] \in Calls
    BY <1>1 DEF Lined
  <2>2. /\ Without(s, X) \in Seq(Calls)
        /\ \A i \in DOMAIN Without(s, X) :
             Without(s, X)[i] \notin X /\ \E j \in DOMAIN s : Without(s, X)[i] = s[j]
        /\ Distinct(Without(s, X))
    BY <2>1, WithoutKeeps
  <2>3. \A i \in DOMAIN Without(s, X) : Waiting(dl[Without(s, X)[i]])
    <3> TAKE i \in DOMAIN Without(s, X)
    <3>1. PICK j \in DOMAIN s : Without(s, X)[i] = s[j]
      BY <2>2
    <3>2. s[j] \in Calls \ X
      BY <2>1, <2>2, <3>1
    <3> QED BY <1>1, <3>1, <3>2 DEF Lined, Waiting
  <2> QED BY <2>2, <2>3 DEF Lined
<1>2. Lined(Without(q, X), dl) /\ Lined(Without(r, X), dl)
  BY <1>1
<1>3. /\ \A i \in DOMAIN Without(q, X) : \E j \in DOMAIN q : Without(q, X)[i] = q[j]
      /\ \A i \in DOMAIN Without(r, X) : \E j \in DOMAIN r : Without(r, X)[i] = r[j]
  BY <1>1
<1>4. Apart(Without(q, X), Without(r, X))
  BY <1>3 DEF Apart
<1> QED BY <1>2, <1>4

\* Nothing but steps of calls that do not wait changes.
LEMMA StandInLine ==
  ASSUME NEW cl, NEW dl, NEW q, Lined(q, cl),
         \A d \in Calls : Waiting(cl[d]) => Waiting(dl[d])
  PROVE  Lined(q, dl)
<1>1. \A i \in DOMAIN q : q[i] \in Calls
  BY DEF Lined
<1> QED BY <1>1 DEF Lined

\* An iteration of the pump takes a call that waits, and keeps both queues.
LEMMA ShiftKeepsQueues ==
  ASSUME QueuesOK, Shift,
         \A d \in Calls \ {Selected} : call'[d].step = call[d].step
  PROVE  Selected \in Calls /\ Waiting(call[Selected]) /\ QueuesOK'
<1>1. CASE NextUp = "urgent"
  <2>1. urgent # <<>>
    BY <1>1 DEF NextUp
  <2>2. Selected = Head(urgent) /\ urgent' = Tail(urgent) /\ normal' = normal
    BY <1>1 DEF Selected, Shift
  <2>3. Lined(urgent, call) /\ Lined(normal, call) /\ Apart(urgent, normal)
    BY DEF QueuesOK, Apart
  <2>4. /\ Head(urgent) \in Calls /\ Waiting(call[Head(urgent)])
        /\ Lined(Tail(urgent), call') /\ Lined(normal, call') /\ Apart(normal, Tail(urgent))
    BY <2>1, <2>2, <2>3, LeaveLine
  <2> QED BY <2>2, <2>4 DEF QueuesOK
<1>2. CASE NextUp # "urgent"
  <2>1. normal # <<>>
    BY <1>2 DEF NextUp, Shift
  <2>2. Selected = Head(normal) /\ normal' = Tail(normal) /\ urgent' = urgent
    BY <1>2 DEF Selected, Shift
  <2>3. Lined(urgent, call) /\ Lined(normal, call) /\ Apart(normal, urgent)
    BY DEF QueuesOK
  <2>4. /\ Head(normal) \in Calls /\ Waiting(call[Head(normal)])
        /\ Lined(Tail(normal), call') /\ Lined(urgent, call') /\ Apart(Tail(normal), urgent)
    BY <2>1, <2>2, <2>3, LeaveLine
  <2> QED BY <2>2, <2>4 DEF QueuesOK
<1> QED BY <1>1, <1>2

\* A call that did not wait is enqueued.
LEMMA EnqueueKeepsQueues ==
  ASSUME QueuesOK, NEW c \in Calls, NEW u, Enqueue(c, u),
         ~Waiting(call[c]), Waiting(call'[c]),
         \A d \in Calls \ {c} : call'[d].step = call[d].step
  PROVE  QueuesOK'
<1>1. Lined(urgent, call) /\ Lined(normal, call) /\ Apart(normal, urgent) /\ Apart(urgent, normal)
  BY DEF QueuesOK, Apart
<1>2. CASE u
  <2>1. urgent' = Append(urgent, c) /\ normal' = normal
    BY <1>2 DEF Enqueue
  <2>2. Lined(Append(urgent, c), call') /\ Lined(normal, call') /\ Apart(normal, Append(urgent, c))
    BY <1>1, JoinLine
  <2> QED BY <2>1, <2>2 DEF QueuesOK
<1>3. CASE ~u
  <2>1. normal' = Append(normal, c) /\ urgent' = urgent
    BY <1>3 DEF Enqueue
  <2>2. Lined(Append(normal, c), call') /\ Lined(urgent, call') /\ Apart(Append(normal, c), urgent)
    BY <1>1, JoinLine
  <2> QED BY <2>1, <2>2 DEF QueuesOK
<1> QED BY <1>2, <1>3

\* Requests are taken out of both queues wherever they stand.
LEMMA FilterKeepsQueues ==
  ASSUME QueuesOK, NEW X, normal' = Without(normal, X), urgent' = Without(urgent, X),
         \A d \in Calls \ X : call'[d].step = call[d].step
  PROVE  QueuesOK'
BY FilterLine DEF QueuesOK

\* The queues stand, and so do the calls that wait.
LEMMA StandingQueues ==
  ASSUME QueuesOK, UNCHANGED <<normal, urgent>>,
         \A d \in Calls : Waiting(call[d]) => Waiting(call'[d])
  PROVE  QueuesOK'
BY StandInLine DEF QueuesOK, Apart

\* The slots and who holds them.  bound is the lease of an attempt on the wire,
\* and of a call that will be granted another the one that grant replaces.
Shaped(k) ==
  /\ k.step \in {"queued", "requeued", "asleep"} => k.bound < 2
  /\ k.step = "wire" => k.bound = k.leases

SlotsOK ==
  /\ \A c \in Calls : Shaped(call[c])
  /\ active \subseteq Calls \X Nat /\ IsFiniteSet(active)
  /\ SlotsExact

\* Leases of a call that leaves the wire, or was not on it, are given back.
LEMMA OffTheWire ==
  ASSUME SlotsOK, call \in [Calls -> Call], NEW c \in Calls,
         active' = active \ {<<c, call[c].bound>>},
         \A d \in Calls \ {c} : call'[d] = call[d],
         Shaped(call'[c]), call'[c].step # "wire"
  PROVE  SlotsOK'
<1>1. /\ active' \subseteq active /\ active' \subseteq Calls \X Nat /\ IsFiniteSet(active')
      /\ Cardinality(active') <= Cardinality(active)
  BY FS_Subset DEF SlotsOK
<1>2. \A l \in active' : l[1] \in Calls /\ l[1] # c
  BY <1>1 DEF SlotsOK, SlotsExact
<1>3. Cardinality(active') <= MaxActive
  BY <1>1, FS_CardinalityType, CallsAssumption DEF SlotsOK, SlotsExact
<1>4. \A d \in Calls : call'[d].step = "wire" => <<d, call'[d].bound>> \in active'
  BY <1>1 DEF SlotsOK, SlotsExact
<1>5. \A l \in active' : call'[l[1]].step = "wire" /\ call'[l[1]].bound = l[2]
  BY <1>1, <1>2 DEF SlotsOK, SlotsExact
<1>6. \A d \in Calls : Shaped(call'[d])
  BY DEF SlotsOK
<1> QED BY <1>1, <1>3, <1>4, <1>5, <1>6 DEF SlotsOK, SlotsExact

\* Steps of calls that are not on the wire, before and after, move no slot.
LEMMA WireStands ==
  ASSUME SlotsOK, active' = active,
         \A d \in Calls : \/ call'[d] = call[d]
                           \/ /\ call[d].step # "wire" /\ call'[d].step # "wire"
                              /\ Shaped(call'[d])
                           \/ /\ call'[d].step = call[d].step /\ call'[d].bound = call[d].bound
                              /\ call'[d].leases = call[d].leases
  PROVE  SlotsOK'
<1>1. \A l \in active : l[1] \in Calls
  BY DEF SlotsOK
<1>2. \A d \in Calls : Shaped(call'[d])
  BY DEF SlotsOK, Shaped
<1>3. \A d \in Calls : call'[d].step = "wire" => call[d].step = "wire" /\ call'[d].bound = call[d].bound
  OBVIOUS
<1>4. \A d \in Calls : call[d].step = "wire" => call'[d].step = "wire" /\ call'[d].bound = call[d].bound
  OBVIOUS
<1> QED BY <1>1, <1>2, <1>3, <1>4 DEF SlotsOK, SlotsExact

\* A call that waited is granted a free slot.
LEMMA OnTheWire ==
  ASSUME SlotsOK, call \in [Calls -> Call], NEW c \in Calls, Waiting(call[c]), ~Full,
         active' = active \cup {<<c, call[c].leases + 1>>},
         \A d \in Calls \ {c} : call'[d] = call[d],
         call'[c].step = "wire", call'[c].leases = call[c].leases + 1,
         call'[c].bound = BoundAfterGrant(call[c])
  PROVE  SlotsOK'
<1>1. call[c].leases \in Nat /\ call[c].bound < 2
  BY DEF Call, SlotsOK, Shaped, Waiting
<1>2. call'[c].bound = call[c].leases + 1 /\ call[c].leases + 1 \in Nat
  BY <1>1 DEF BoundAfterGrant
<1>3. <<c, call[c].leases + 1>> \notin active /\ call[c].step # "wire"
  BY DEF SlotsOK, SlotsExact, Waiting
<1>4. /\ IsFiniteSet(active') /\ Cardinality(active') = Cardinality(active) + 1
      /\ Cardinality(active) \in Nat
  BY <1>3, FS_AddElement, FS_CardinalityType DEF SlotsOK
<1>5. Cardinality(active') <= MaxActive
  BY <1>4, CallsAssumption DEF Full
<1>6. active' \subseteq Calls \X Nat
  BY <1>2 DEF SlotsOK
<1>7. \A d \in Calls : call'[d].step = "wire" => <<d, call'[d].bound>> \in active'
  BY <1>2 DEF SlotsOK, SlotsExact
<1>8. \A l \in active : l[1] \in Calls /\ l[1] # c
  BY <1>3 DEF SlotsOK, SlotsExact
<1>9. \A l \in active' : call'[l[1]].step = "wire" /\ call'[l[1]].bound = l[2]
  BY <1>2, <1>8 DEF SlotsOK, SlotsExact
<1>10. \A d \in Calls : Shaped(call'[d])
  BY <1>2 DEF SlotsOK, Shaped
<1> QED BY <1>4, <1>5, <1>6, <1>7, <1>9, <1>10 DEF SlotsOK, SlotsExact

-----------------------------------------------------------------------------
\* Every step keeps the queues and the slots.
LEMMA NextQueuesAndSlots ==
  ASSUME LedgerInv, QueuesOK, SlotsOK, [Next]_vars
  PROVE  QueuesOK' /\ SlotsOK'
<1>t. call \in [Calls -> Call]
  BY DEF LedgerInv, LedgerTypes
<1>f. \A c \in Calls : call[c] = [step |-> call[c].step, op |-> call[c].op,
        urgent |-> call[c].urgent, age |-> call[c].age, leases |-> call[c].leases,
        bound |-> call[c].bound]
  BY <1>t DEF Call
<1>i. Idle.step = "idle" /\ Shaped(Idle)
  BY DEF Idle, Shaped
<1>1. CASE PumpGrants
  <2> DEFINE c == Selected
  <2>1. /\ Shift /\ active' = active \cup {<<c, call[c].leases + 1>>}
        /\ call' = [call EXCEPT ![c].step = "wire", ![c].age = "fresh", ![c].leases = @ + 1,
                                ![c].bound = BoundAfterGrant(call[c])]
    BY <1>1 DEF PumpGrants
  <2> HIDE DEF c
  <2>2. \A d \in Calls \ {c} : call'[d] = call[d]
    BY <1>t, <2>1
  <2>3. c \in Calls /\ Waiting(call[c]) /\ QueuesOK'
    BY <2>1, <2>2, ShiftKeepsQueues DEF c
  <2>4. /\ call'[c].step = "wire" /\ call'[c].leases = call[c].leases + 1
        /\ call'[c].bound = BoundAfterGrant(call[c])
    BY <1>t, <1>f, <2>1, <2>3
  <2>5. ~Full
    BY <2>1 DEF Shift
  <2> QED BY <1>t, <2>1, <2>2, <2>3, <2>4, <2>5, OnTheWire
<1>2. CASE PumpExpires
  <2> DEFINE c == Selected
  <2>1. /\ Shift /\ active' = active
        /\ \/ call' = [call EXCEPT ![c] = Idle]
           \/ call' = [call EXCEPT ![c].step = "failing", ![c].age = "fresh"]
    BY <1>2 DEF PumpExpires
  <2> HIDE DEF c
  <2>2. \A d \in Calls \ {c} : call'[d] = call[d]
    BY <1>t, <2>1
  <2>3. c \in Calls /\ Waiting(call[c]) /\ QueuesOK'
    BY <2>1, <2>2, ShiftKeepsQueues DEF c
  <2>4. call'[c].step \in {"idle", "failing"}
    BY <1>t, <1>f, <1>i, <2>1, <2>3
  <2>5. call[c].step # "wire" /\ call'[c].step # "wire" /\ Shaped(call'[c])
    BY <2>3, <2>4 DEF Waiting, Shaped
  <2>6. SlotsOK'
    BY <2>1, <2>2, <2>5, WireStands
  <2> QED BY <2>3, <2>6
<1>3. CASE PumpEnds
  <2>1. UNCHANGED <<call, normal, urgent, active>>
    BY <1>3 DEF PumpEnds
  <2> QED BY <2>1, StandingQueues, WireStands
<1>4. ASSUME NEW c \in Calls, CallStep(c) PROVE QueuesOK' /\ SlotsOK'
  <2>1. CASE Fails(c) \/ \E cost \in Costs \cup {Estimate} : Answered(c, cost)
    <3>1. /\ active' = active \ {<<c, call[c].bound>>} /\ UNCHANGED <<normal, urgent>>
          /\ call' = [call EXCEPT ![c] = Idle] /\ call[c].step \in {"wire", "failing"}
      BY <2>1 DEF Fails, Answered, Release
    <3>2. call'[c] = Idle /\ \A d \in Calls \ {c} : call'[d] = call[d]
      BY <1>t, <3>1
    <3>3. QueuesOK'
      BY <3>1, <3>2, StandingQueues DEF Waiting
    <3>4. SlotsOK'
      BY <1>t, <1>i, <3>1, <3>2, OffTheWire
    <3> QED BY <3>3, <3>4
  <2>2. CASE BacksOff(c)
    <3>1. /\ active' = active \ {<<c, call[c].leases>>} /\ UNCHANGED <<normal, urgent>>
          /\ call' = [call EXCEPT ![c].step = "asleep"]
          /\ call[c].step = "wire" /\ call[c].leases = 1
      BY <2>2 DEF BacksOff
    <3>2. /\ call'[c].step = "asleep" /\ call'[c].bound = call[c].bound
          /\ \A d \in Calls \ {c} : call'[d] = call[d]
      BY <1>t, <1>f, <3>1
    <3>3. call[c].bound = 1
      BY <3>1 DEF SlotsOK, Shaped
    <3>4. Shaped(call'[c])
      BY <3>2, <3>3 DEF Shaped
    <3>5. QueuesOK'
      BY <3>1, <3>2, StandingQueues DEF Waiting
    <3>6. SlotsOK'
      BY <1>t, <3>1, <3>2, <3>3, <3>4, OffTheWire
    <3> QED BY <3>5, <3>6
  <2>3. CASE WakesUp(c)
    <3>1. /\ Enqueue(c, call[c].urgent) /\ active' = active
          /\ call' = [call EXCEPT ![c].step = "requeued"] /\ call[c].step = "asleep"
      BY <2>3 DEF WakesUp, Enqueue
    <3>2. /\ call'[c].step = "requeued" /\ call'[c].bound = call[c].bound
          /\ \A d \in Calls \ {c} : call'[d] = call[d]
      BY <1>t, <1>f, <3>1
    <3>3. Shaped(call'[c])
      BY <3>1, <3>2 DEF SlotsOK, Shaped
    <3>4. QueuesOK'
      BY <3>1, <3>2, EnqueueKeepsQueues DEF Waiting
    <3>5. SlotsOK'
      BY <3>1, <3>2, <3>3, WireStands
    <3> QED BY <3>4, <3>5
  <2>4. CASE CeilingInBackoff(c)
    <3>1. /\ normal' = Without(normal, {c}) /\ urgent' = Without(urgent, {c}) /\ active' = active
          /\ call' = [call EXCEPT ![c].step = "failing", ![c].age = "fresh"]
          /\ call[c].step # "wire"
      BY <2>4 DEF CeilingInBackoff
    <3>2. call'[c].step = "failing" /\ \A d \in Calls \ {c} : call'[d] = call[d]
      BY <1>t, <1>f, <3>1
    <3>3. Shaped(call'[c])
      BY <3>2 DEF Shaped
    <3>4. QueuesOK'
      BY <3>1, <3>2, FilterKeepsQueues
    <3>5. SlotsOK'
      BY <3>1, <3>2, <3>3, WireStands
    <3> QED BY <3>4, <3>5
  <2> QED BY <1>4, <2>1, <2>2, <2>3, <2>4 DEF CallStep
<1>5. ASSUME NEW c \in Calls, Waits(c) PROVE QueuesOK' /\ SlotsOK'
  <2>1. UNCHANGED <<normal, urgent, active>> /\ call' = [call EXCEPT ![c].age = Older(@)]
    BY <1>5 DEF Waits, admission
  <2>2. \A d \in Calls : /\ call'[d].step = call[d].step /\ call'[d].bound = call[d].bound
                          /\ call'[d].leases = call[d].leases
    BY <1>t, <1>f, <2>1
  <2>3. QueuesOK'
    BY <2>1, <2>2, StandingQueues DEF Waiting
  <2>4. SlotsOK'
    BY <2>1, <2>2, WireStands
  <2> QED BY <2>3, <2>4
<1>6. ASSUME NEW c \in Calls, NEW o \in Ops \cup {NoOp}, NEW u \in BOOLEAN, Complete(c, o, u)
      PROVE  QueuesOK' /\ SlotsOK'
  <2>1. /\ Enqueue(c, u) /\ active' = active /\ call[c].step = "idle"
        /\ call' = [call EXCEPT ![c] = [Idle EXCEPT !.step = "queued", !.op = o, !.urgent = u]]
    BY <1>6 DEF Complete, Enqueue
  <2>2. /\ call'[c].step = "queued" /\ call'[c].bound = 0
        /\ \A d \in Calls \ {c} : call'[d] = call[d]
    BY <1>t, <2>1 DEF Idle
  <2>3. Shaped(call'[c])
    BY <2>2 DEF Shaped
  <2>4. QueuesOK'
    BY <2>1, <2>2, EnqueueKeepsQueues DEF Waiting
  <2>5. SlotsOK'
    BY <2>1, <2>2, <2>3, WireStands
  <2> QED BY <2>4, <2>5
<1>7. ASSUME NEW o \in Ops, CompleteRefused(o) \/ Extend(o) PROVE QueuesOK' /\ SlotsOK'
  <2>1. UNCHANGED <<call, normal, urgent, active>>
    BY <1>7 DEF CompleteRefused, Extend, admission
  <2> QED BY <2>1, StandingQueues, WireStands
<1>8. ASSUME NEW o \in Ops, Cancel(o) PROVE QueuesOK' /\ SlotsOK'
  <2>1. /\ normal' = Without(normal, Queued(o)) /\ urgent' = Without(urgent, Queued(o))
        /\ active' = active
        /\ call' = [c \in Calls |->
             IF c \notin Queued(o) THEN call[c]
             ELSE IF call[c].step = "queued" THEN Idle
             ELSE [call[c] EXCEPT !.step = "failing", !.age = "fresh"]]
    BY <1>8 DEF Cancel
  <2>2. \A d \in Calls \ Queued(o) : call'[d] = call[d]
    BY <2>1
  <2>3. \A d \in Queued(o) : d \in Calls /\ Waiting(call[d]) /\ call'[d].step \in {"idle", "failing"}
    <3> TAKE d \in Queued(o)
    <3>1. d \in Calls /\ Waiting(call[d])
      BY DEF Queued, Waiting
    <3>2. call'[d] = IF call[d].step = "queued" THEN Idle
                     ELSE [call[d] EXCEPT !.step = "failing", !.age = "fresh"]
      BY <2>1, <3>1
    <3>3. [call[d] EXCEPT !.step = "failing", !.age = "fresh"].step = "failing"
      BY <1>t, <3>1 DEF Call
    <3> QED BY <1>i, <3>1, <3>2, <3>3
  <2>4. \A d \in Queued(o) : /\ call[d].step # "wire" /\ call'[d].step # "wire"
                              /\ Shaped(call'[d])
    BY <2>3 DEF Waiting, Shaped
  <2>5. QueuesOK'
    BY <2>1, <2>2, FilterKeepsQueues
  <2>6. SlotsOK'
    BY <2>1, <2>2, <2>4, WireStands
  <2> QED BY <2>5, <2>6
<1>9. CASE Crash
  <2>1. /\ call' = [c \in Calls |-> Idle] /\ normal' = <<>> /\ urgent' = <<>> /\ active' = {}
    BY <1>9 DEF Crash
  <2>2. QueuesOK'
    BY <2>1 DEF QueuesOK, Lined, Apart, Distinct
  <2>3. SlotsOK'
    BY <1>i, <2>1, FS_EmptySet, CallsAssumption DEF SlotsOK, SlotsExact
  <2> QED BY <2>2, <2>3
<1>10. CASE UNCHANGED vars
  <2>1. UNCHANGED <<call, normal, urgent, active>>
    BY <1>10 DEF vars, admission
  <2> QED BY <2>1, StandingQueues, WireStands
<1> QED BY <1>1, <1>2, <1>3, <1>4, <1>5, <1>6, <1>7, <1>8, <1>9, <1>10 DEF Next, Pump

\* At the start nobody waits and no slot is taken.
LEMMA InitQueuesAndSlots == Init => QueuesOK /\ SlotsOK
<1> SUFFICES ASSUME Init PROVE QueuesOK /\ SlotsOK
  OBVIOUS
<1>1. call = [c \in Calls |-> Idle] /\ normal = <<>> /\ urgent = <<>> /\ active = {}
  BY DEF Init
<1>2. QueuesOK
  BY <1>1 DEF QueuesOK, Lined, Apart, Distinct
<1>3. SlotsOK
  BY <1>1, FS_EmptySet, CallsAssumption DEF SlotsOK, SlotsExact, Idle, Shaped
<1> QED BY <1>2, <1>3

\* Slots are neither leaked nor exceeded, for any number of calls and slots.
THEOREM SlotsStayExact == Spec => []SlotsExact
<1>1. Init => QueuesOK /\ SlotsOK
  BY InitQueuesAndSlots
<1>2. SlotsOK => SlotsExact
  BY DEF SlotsOK
<1>3. LedgerInv /\ QueuesOK /\ SlotsOK /\ [Next]_vars => QueuesOK' /\ SlotsOK'
  BY NextQueuesAndSlots
<1> QED BY <1>1, <1>2, <1>3, InitLedger, NextLedger, PTL DEF Spec

-----------------------------------------------------------------------------
(* Turns and priorities                                                    *)

\* Between turns every slot is taken or nobody waits: a turn that leaves a slot
\* or a request behind leaves the pump running, and the two that do not only
\* take requests away.
THEOREM NoSlotIdles == Spec => [](pumping \in BOOLEAN /\ NoIdleSlot)
<1> DEFINE Inv == pumping \in BOOLEAN /\ NoIdleSlot
<1>1. Init => Inv
  BY DEF Init, NoIdleSlot
<1>2. ASSUME QueuesOK, Inv, [Next]_vars PROVE Inv'
  <2> USE DEF Turn
  <2>w. \A X : /\ normal = <<>> => Without(normal, X) = <<>>
               /\ urgent = <<>> => Without(urgent, X) = <<>>
    BY <1>2, WithoutKeeps DEF QueuesOK, Lined
  <2>1. CASE Pump
    BY <1>2, <2>1 DEF Pump, PumpGrants, PumpExpires, PumpEnds, Shift, NoIdleSlot, Full
  <2>2. ASSUME NEW c \in Calls, CallStep(c) PROVE Inv'
    <3>1. CASE CeilingInBackoff(c)
      BY <1>2, <2>w, <3>1 DEF CeilingInBackoff, NoIdleSlot, Full
    <3>2. CASE ~CeilingInBackoff(c)
      <4>1. pumping' = TRUE
        BY <2>2, <3>2 DEF CallStep, Answered, Fails, Release, BacksOff, WakesUp, Enqueue
      <4> QED BY <4>1 DEF NoIdleSlot
    <3> QED BY <3>1, <3>2
  <2>3. ASSUME NEW c \in Calls, NEW o, NEW u, Complete(c, o, u) PROVE Inv'
    BY <2>3 DEF Complete, Enqueue, NoIdleSlot
  <2>4. ASSUME NEW o \in Ops, Cancel(o) PROVE Inv'
    BY <2>4 DEF Cancel, NoIdleSlot
  <2>5. CASE Crash
    BY <2>5 DEF Crash, NoIdleSlot
  <2>6. CASE \/ UNCHANGED vars
             \/ \E c \in Calls : Waits(c)
             \/ \E o \in Ops : CompleteRefused(o) \/ Extend(o)
    <3>1. UNCHANGED admission
      BY <2>6 DEF vars, Waits, CompleteRefused, Extend
    <3> QED BY <1>2, <3>1 DEF admission, NoIdleSlot, Full
  <2> QED BY <1>2, <2>1, <2>2, <2>3, <2>4, <2>5, <2>6 DEF Next
<1>3. Init => QueuesOK /\ SlotsOK
  BY InitQueuesAndSlots
<1>4. LedgerInv /\ QueuesOK /\ SlotsOK /\ [Next]_vars => QueuesOK' /\ SlotsOK'
  BY NextQueuesAndSlots
<1> QED BY <1>1, <1>2, <1>3, <1>4, InitLedger, NextLedger, PTL DEF Spec

\* As long as normal work waits, the streak counts every urgent grant.
StreakCounts == streak \in 0..Threshold /\ passed \in Nat /\ passed <= streak

\* At most starvationThresholdConsecutive urgent requests pass a normal one.
THEOREM NormalComesNext == Spec => [](StreakCounts /\ NormalIsNext)
<1>1. Init => StreakCounts
  BY CallsAssumption DEF Init, StreakCounts
<1>2. ASSUME StreakCounts, [Next]_vars PROVE StreakCounts'
  <2>1. CASE PumpGrants
    <3>1. CASE NextUp = "urgent" /\ normal # <<>>
      <4>1. streak < Threshold
        BY <3>1, CallsAssumption, <1>2 DEF NextUp, StreakCounts
      <4>2. streak' = streak + 1 /\ passed' = passed + 1
        BY <2>1, <3>1, <4>1 DEF PumpGrants, Shift
      <4> QED BY <1>2, <4>1, <4>2, CallsAssumption DEF StreakCounts
    <3>2. CASE ~(NextUp = "urgent" /\ normal # <<>>)
      <4>1. passed' = 0 /\ streak' \in 0..Threshold
        BY <1>2, <2>1, <3>2, CallsAssumption DEF PumpGrants, Shift, StreakCounts
      <4> QED BY <4>1 DEF StreakCounts
    <3> QED BY <3>1, <3>2
  <2>2. CASE PumpExpires
    <3>1. CASE NextUp = "urgent" /\ normal # <<>>
      BY <1>2, <2>2, <3>1, CallsAssumption DEF PumpExpires, Shift, StreakCounts
    <3>2. CASE ~(NextUp = "urgent" /\ normal # <<>>)
      <4>1. passed' = 0 /\ streak' \in 0..Threshold
        BY <1>2, <2>2, <3>2, CallsAssumption DEF PumpExpires, Shift, StreakCounts
      <4> QED BY <4>1 DEF StreakCounts
    <3> QED BY <3>1, <3>2
  <2>3. CASE Crash
    BY <2>3, CallsAssumption DEF Crash, StreakCounts
  <2>4. CASE ~(PumpGrants \/ PumpExpires \/ Crash)
    <3>1. streak' = streak /\ (passed' = passed \/ passed' = 0)
      BY <1>2, <2>4 DEF Next, vars, admission, Pump, PumpEnds, CallStep, Answered, Fails, Release,
            BacksOff, WakesUp, Enqueue, CeilingInBackoff, Waits, Complete, CompleteRefused,
            Cancel, Extend
    <3> QED BY <1>2, <3>1 DEF StreakCounts
  <2> QED BY <2>1, <2>2, <2>3, <2>4
<1>3. StreakCounts => NormalIsNext
  BY CallsAssumption DEF StreakCounts, NormalIsNext
<1> QED BY <1>1, <1>2, <1>3, PTL DEF Spec

-----------------------------------------------------------------------------
(* Sums over the operations                                                *)

Some(s) == CHOOSE x \in s : TRUE

\* f holds the sum of g over every set of Sets.
Totals(g, Sets, f) ==
  f = [s \in Sets |-> IF s = {} THEN 0 ELSE g[Some(s)] + f[s \ {Some(s)}]]

\* A set without one of its elements is smaller.
LEMMA OneLess ==
  ASSUME NEW S, IsFiniteSet(S), NEW s \in SUBSET S
  PROVE  /\ IsFiniteSet(s) /\ Cardinality(s) \in Nat /\ Cardinality(s) <= Cardinality(S)
         /\ Cardinality(s) = 0 <=> s = {}
         /\ s # {} => /\ Some(s) \in s /\ s \ {Some(s)} \in SUBSET S
                      /\ Cardinality(s \ {Some(s)}) = Cardinality(s) - 1
<1>1. IsFiniteSet(s) /\ Cardinality(s) \in Nat /\ Cardinality(s) <= Cardinality(S)
  BY FS_Subset, FS_CardinalityType
<1>2. Cardinality(s) = 0 <=> s = {}
  BY <1>1, FS_EmptySet
<1>3. s # {} => Some(s) \in s
  BY DEF Some
<1>4. s # {} => Cardinality(s \ {Some(s)}) = Cardinality(s) - 1
  BY <1>1, <1>3, FS_RemoveElement
<1> QED BY <1>1, <1>2, <1>3, <1>4

\* The recursion of a sum over a finite set has a solution.
LEMMA TotalsExist ==
  ASSUME NEW S, IsFiniteSet(S), NEW g
  PROVE  \E f : Totals(g, SUBSET S, f)
<1> DEFINE Small(n) == {s \in SUBSET S : Cardinality(s) <= n}
           P == {n \in Nat : \E f : Totals(g, Small(n), f)}
<1>c. Cardinality(S) \in Nat
  BY FS_CardinalityType
<1>1. 0 \in P
  <2> DEFINE f == [s \in Small(0) |-> 0]
  <2>1. ASSUME NEW s \in Small(0) PROVE s = {}
    <3>1. s \in SUBSET S /\ Cardinality(s) <= 0
      OBVIOUS
    <3>2. Cardinality(s) \in Nat /\ (Cardinality(s) = 0 <=> s = {})
      BY <3>1, OneLess
    <3> QED BY <3>1, <3>2
  <2>2. Totals(g, Small(0), f)
    <3>1. [s \in Small(0) |-> IF s = {} THEN 0 ELSE g[Some(s)] + f[s \ {Some(s)}]] = f
      BY <2>1
    <3> QED BY <3>1 DEF Totals
  <2> QED BY <2>2
<1>2. ASSUME NEW n \in 1..Cardinality(S), (n - 1) \in P PROVE n \in P
  <2>1. PICK f : Totals(g, Small(n - 1), f)
    BY <1>2
  <2> DEFINE next(s) == g[Some(s)] + f[s \ {Some(s)}]
             k == [s \in Small(n) |-> IF Cardinality(s) < n THEN f[s] ELSE next(s)]
             h == [s \in Small(n) |-> IF s = {} THEN 0 ELSE g[Some(s)] + k[s \ {Some(s)}]]
  <2>2. \A s \in Small(n - 1) : f[s] = IF s = {} THEN 0 ELSE next(s)
    BY <2>1 DEF Totals
  <2>3. ASSUME NEW s \in Small(n) PROVE k[s] = h[s]
    <3>1. n \in Nat /\ n # 0 /\ Cardinality(s) \in Nat /\ Cardinality(s) <= n /\ s \in SUBSET S
      <4>1. s \in SUBSET S /\ Cardinality(s) <= n
        BY <2>3
      <4>2. Cardinality(s) \in Nat
        BY <4>1, OneLess
      <4> QED BY <1>c, <4>1, <4>2
    <3>2. CASE s = {}
      <4>1. Cardinality(s) = 0
        BY <3>1, <3>2, OneLess
      <4>2. s \in Small(n - 1) /\ Cardinality(s) < n
        BY <3>1, <4>1
      <4> QED BY <2>2, <3>2, <4>2
    <3>3. CASE s # {}
      <4>1. /\ s \ {Some(s)} \in SUBSET S /\ Cardinality(s \ {Some(s)}) = Cardinality(s) - 1
        BY <3>1, <3>3, OneLess
      <4>2. s \ {Some(s)} \in Small(n) /\ Cardinality(s \ {Some(s)}) < n
        BY <3>1, <4>1
      <4>3. k[s \ {Some(s)}] = f[s \ {Some(s)}]
        BY <4>2
      <4>4. h[s] = next(s)
        BY <3>3, <4>3
      <4>5. CASE Cardinality(s) < n
        <5>1. s \in Small(n - 1)
          BY <3>1, <4>5
        <5>2. f[s] = next(s)
          BY <2>2, <3>3, <5>1
        <5> HIDE DEF next, h
        <5> QED BY <4>4, <4>5, <5>2
      <4>6. CASE ~(Cardinality(s) < n)
        <5> HIDE DEF next, h
        <5> QED BY <4>4, <4>6
      <4> QED BY <4>5, <4>6
    <3> QED BY <3>2, <3>3
  <2>4. k = [s \in Small(n) |-> k[s]] /\ h = [s \in Small(n) |-> h[s]]
    OBVIOUS
  <2>5. Totals(g, Small(n), k)
    <3> HIDE DEF next
    <3>1. k = h
      <4> HIDE DEF k, h
      <4> QED BY <2>3, <2>4
    <3> HIDE DEF k
    <3> QED BY <3>1 DEF Totals
  <2> HIDE DEF k, Small
  <2> QED BY <1>c, <2>5
<1>3. Small(Cardinality(S)) = SUBSET S
  BY OneLess
<1> HIDE DEF P
<1>4. Cardinality(S) \in P
  BY <1>c, <1>1, <1>2, UpTo
<1> QED BY <1>3, <1>4 DEF P

Shifted(g, h, S, o, delta) == \A x \in S : h[x] = IF x = o THEN g[x] + delta ELSE g[x]

\* A sum moves with the one term that moves.
LEMMA TotalMoves ==
  ASSUME NEW S, IsFiniteSet(S), NEW g \in [S -> Int], NEW h \in [S -> Int],
         NEW f, Totals(g, SUBSET S, f), NEW k, Totals(h, SUBSET S, k),
         NEW o, NEW delta \in Int,
         Shifted(g, h, S, o, delta)
  PROVE  f[S] \in Int /\ k[S] = IF o \in S THEN f[S] + delta ELSE f[S]
<1> DEFINE Moved(s) == f[s] \in Int /\ k[s] = IF o \in s THEN f[s] + delta ELSE f[s]
           P == {n \in Nat : \A s \in SUBSET S : Cardinality(s) <= n => Moved(s)}
<1>1. \A s \in SUBSET S : /\ f[s] = IF s = {} THEN 0 ELSE g[Some(s)] + f[s \ {Some(s)}]
                          /\ k[s] = IF s = {} THEN 0 ELSE h[Some(s)] + k[s \ {Some(s)}]
  BY DEF Totals
<1>e. Moved({})
  <2>1. f[{}] = 0 /\ k[{}] = 0
    BY <1>1
  <2> QED BY <2>1
<1>2. 0 \in P
  <2>1. ASSUME NEW s \in SUBSET S, Cardinality(s) <= 0 PROVE s = {}
    <3>1. Cardinality(s) \in Nat /\ (Cardinality(s) = 0 <=> s = {})
      BY OneLess
    <3> QED BY <2>1, <3>1
  <2> HIDE DEF Moved
  <2> QED BY <1>e, <2>1
<1>3. ASSUME NEW n \in 1..Cardinality(S), (n - 1) \in P PROVE n \in P
  <2>1. ASSUME NEW s \in SUBSET S, Cardinality(s) <= n PROVE Moved(s)
    <3>1. CASE s = {}
      BY <1>e, <3>1
    <3>2. CASE s # {}
      <4> DEFINE x == Some(s)
                 r == s \ {x}
      <4>1. x \in s /\ r \in SUBSET S /\ Cardinality(r) = Cardinality(s) - 1 /\ Cardinality(s) \in Nat
        BY <3>2, OneLess
      <4>2. Moved(r)
        <5>1. Cardinality(r) <= n - 1
          BY <2>1, <4>1
        <5> HIDE DEF r, Moved
        <5> QED BY <1>3, <4>1, <5>1
      <4>3. f[s] = g[x] + f[r] /\ k[s] = h[x] + k[r]
        BY <1>1, <3>2
      <4>4. g[x] \in Int /\ h[x] = IF x = o THEN g[x] + delta ELSE g[x]
        BY <4>1 DEF Shifted
      <4>5. (o \in s <=> x = o \/ o \in r) /\ ~(x = o /\ o \in r)
        BY <4>1
      <4> HIDE DEF x, r
      <4> QED BY <4>2, <4>3, <4>4, <4>5
    <3> QED BY <3>1, <3>2
  <2> QED BY <2>1
<1>4. Cardinality(S) \in Nat
  BY FS_CardinalityType
<1> HIDE DEF P, Moved
<1>5. Cardinality(S) \in P
  BY <1>2, <1>3, <1>4, UpTo
<1>6. Moved(S)
  BY <1>4, <1>5 DEF P
<1> QED BY <1>6 DEF Moved

ReservedSum(b) == MapThenSumSet(LAMBDA o : b[o].reserved, Ops)
SpentSum(b) == MapThenSumSet(LAMBDA o : b[o].spent, Ops)

\* The campaign's sums over the operations are such sums.
LEMMA CampaignSums ==
  ASSUME NEW b
  PROVE  /\ \E f : /\ Totals([o \in Ops |-> b[o].reserved], SUBSET Ops, f)
                   /\ ReservedSum(b) = f[Ops]
         /\ \E f : /\ Totals([o \in Ops |-> b[o].spent], SUBSET Ops, f)
                   /\ SpentSum(b) = f[Ops]
<1>1. \E f : /\ Totals([o \in Ops |-> b[o].reserved], SUBSET Ops, f)
             /\ ReservedSum(b) = f[Ops]
  <2> DEFINE g == [o \in Ops |-> b[o].reserved]
             raw(f) == f = [s \in SUBSET Ops |->
                 IF s = {} THEN 0 ELSE b[Some(s)].reserved + f[s \ {Some(s)}]]
             k == CHOOSE f : raw(f)
  <2>1. \A f : [s \in SUBSET Ops |-> IF s = {} THEN 0 ELSE g[Some(s)] + f[s \ {Some(s)}]]
               = [s \in SUBSET Ops |-> IF s = {} THEN 0 ELSE b[Some(s)].reserved + f[s \ {Some(s)}]]
    <3>1. \A s \in SUBSET Ops : s # {} => g[Some(s)] = b[Some(s)].reserved
      BY OneLess, CallsAssumption
    <3> HIDE DEF g
    <3> QED BY <3>1
  <2>2. \A f : raw(f) <=> Totals(g, SUBSET Ops, f)
    BY <2>1 DEF Totals
  <2>3. PICK f : Totals(g, SUBSET Ops, f)
    BY TotalsExist, CallsAssumption
  <2>4. raw(k)
    <3>1. raw(f)
      BY <2>2, <2>3
    <3> HIDE DEF raw
    <3> QED BY <3>1
  <2>5. ReservedSum(b) = k[Ops]
    BY DEF ReservedSum, MapThenSumSet, MapThenFoldSet, Some
  <2> HIDE DEF raw, k, g
  <2>6. Totals(g, SUBSET Ops, k)
    BY <2>2, <2>4
  <2> QED BY <2>5, <2>6 DEF g
<1>2. \E f : /\ Totals([o \in Ops |-> b[o].spent], SUBSET Ops, f)
             /\ SpentSum(b) = f[Ops]
  <2> DEFINE g == [o \in Ops |-> b[o].spent]
             raw(f) == f = [s \in SUBSET Ops |->
                 IF s = {} THEN 0 ELSE b[Some(s)].spent + f[s \ {Some(s)}]]
             k == CHOOSE f : raw(f)
  <2>1. \A f : [s \in SUBSET Ops |-> IF s = {} THEN 0 ELSE g[Some(s)] + f[s \ {Some(s)}]]
               = [s \in SUBSET Ops |-> IF s = {} THEN 0 ELSE b[Some(s)].spent + f[s \ {Some(s)}]]
    <3>1. \A s \in SUBSET Ops : s # {} => g[Some(s)] = b[Some(s)].spent
      BY OneLess, CallsAssumption
    <3> HIDE DEF g
    <3> QED BY <3>1
  <2>2. \A f : raw(f) <=> Totals(g, SUBSET Ops, f)
    BY <2>1 DEF Totals
  <2>3. PICK f : Totals(g, SUBSET Ops, f)
    BY TotalsExist, CallsAssumption
  <2>4. raw(k)
    <3>1. raw(f)
      BY <2>2, <2>3
    <3> HIDE DEF raw
    <3> QED BY <3>1
  <2>5. SpentSum(b) = k[Ops]
    BY DEF SpentSum, MapThenSumSet, MapThenFoldSet, Some
  <2> HIDE DEF raw, k, g
  <2>6. Totals(g, SUBSET Ops, k)
    BY <2>2, <2>4
  <2> QED BY <2>5, <2>6 DEF g
<1> QED BY <1>1, <1>2

-----------------------------------------------------------------------------
(* The books                                                               *)

Sums(b) ==
  /\ b[Campaign].reserved = ReservedSum(b)
  /\ b[Campaign].spent = SpentSum(b)

Booked(o) == book[o].reserved = Estimate * (Cardinality(Open(o)) + orphans[o])

\* The reservations of an operation are those of its calls and its orphans, and
\* the campaign's account is the sum of the operations'.
BooksInv ==
  /\ orphans \in [Ops -> Nat]
  /\ \A o \in Ops : Booked(o)
  /\ Sums(book)

\* The campaign's account moves with the operation's.
LEMMA SumsMove ==
  ASSUME NEW b \in [Accounts -> Account], NEW d \in [Accounts -> Account], Sums(b),
         NEW o \in Ops \cup {NoOp}, NEW dr \in Int, NEW ds \in Int,
         \A a \in Accounts :
           /\ d[a].reserved = IF a \in AccountsOf(o) THEN b[a].reserved + dr ELSE b[a].reserved
           /\ d[a].spent = IF a \in AccountsOf(o) THEN b[a].spent + ds ELSE b[a].spent
  PROVE  Sums(d)
<1>0. IsFiniteSet(Ops)
  BY CallsAssumption
<1>1. \A x \in Ops : x \in AccountsOf(o) <=> x = o
  BY CallsAssumption DEF AccountsOf, Accounts
<1>2. Campaign \in AccountsOf(o) <=> o \in Ops
  BY CallsAssumption DEF AccountsOf, Accounts
<1>3. /\ Campaign \in Accounts /\ \A x \in Ops : x \in Accounts
      /\ \A a \in Accounts : /\ b[a].reserved \in Int /\ b[a].spent \in Int
                             /\ d[a].reserved \in Int /\ d[a].spent \in Int
  BY DEF Accounts, Account
<1>4. d[Campaign].reserved = ReservedSum(d)
  <2> DEFINE g == [x \in Ops |-> b[x].reserved]
             h == [x \in Ops |-> d[x].reserved]
  <2>1. PICK f : Totals(g, SUBSET Ops, f) /\ ReservedSum(b) = f[Ops]
    BY CampaignSums
  <2>2. PICK k : Totals(h, SUBSET Ops, k) /\ ReservedSum(d) = k[Ops]
    BY CampaignSums
  <2>3. g \in [Ops -> Int] /\ h \in [Ops -> Int]
    BY <1>3
  <2>4. Shifted(g, h, Ops, o, dr)
    BY <1>1, <1>3 DEF Shifted
  <2> HIDE DEF g, h
  <2>5. k[Ops] = IF o \in Ops THEN f[Ops] + dr ELSE f[Ops]
    BY <1>0, <2>1, <2>2, <2>3, <2>4, TotalMoves
  <2>6. b[Campaign].reserved = f[Ops]
    BY <2>1 DEF Sums
  <2>7. d[Campaign].reserved = IF o \in Ops THEN b[Campaign].reserved + dr ELSE b[Campaign].reserved
    BY <1>2, <1>3
  <2> QED BY <2>2, <2>5, <2>6, <2>7
<1>5. d[Campaign].spent = SpentSum(d)
  <2> DEFINE g == [x \in Ops |-> b[x].spent]
             h == [x \in Ops |-> d[x].spent]
  <2>1. PICK f : Totals(g, SUBSET Ops, f) /\ SpentSum(b) = f[Ops]
    BY CampaignSums
  <2>2. PICK k : Totals(h, SUBSET Ops, k) /\ SpentSum(d) = k[Ops]
    BY CampaignSums
  <2>3. g \in [Ops -> Int] /\ h \in [Ops -> Int]
    BY <1>3
  <2>4. Shifted(g, h, Ops, o, ds)
    BY <1>1, <1>3 DEF Shifted
  <2> HIDE DEF g, h
  <2>5. k[Ops] = IF o \in Ops THEN f[Ops] + ds ELSE f[Ops]
    BY <1>0, <2>1, <2>2, <2>3, <2>4, TotalMoves
  <2>6. b[Campaign].spent = f[Ops]
    BY <2>1 DEF Sums
  <2>7. d[Campaign].spent = IF o \in Ops THEN b[Campaign].spent + ds ELSE b[Campaign].spent
    BY <1>2, <1>3
  <2> QED BY <2>2, <2>5, <2>6, <2>7
<1> QED BY <1>4, <1>5 DEF Sums

\* Calls of an operation are turned into orphans, or neither moves.
LEMMA BooksStand ==
  ASSUME LedgerInv, LedgerInv', BooksInv, orphans' \in [Ops -> Nat],
         \A a \in Accounts : book'[a].reserved = book[a].reserved /\ book'[a].spent = book[a].spent,
         \A o \in Ops : Cardinality(Open(o)') + orphans'[o] = Cardinality(Open(o)) + orphans[o]
  PROVE  BooksInv'
<1>1. book \in [Accounts -> Account] /\ book' \in [Accounts -> Account]
  BY DEF LedgerInv, LedgerTypes
<1>2. Sums(book')
  <2>1. \A a \in Accounts : /\ book[a].reserved \in Int /\ book[a].spent \in Int
    BY <1>1 DEF Account
  <2>2. PICK z \in Int : z = 0
    OBVIOUS
  <2>3. \A a \in Accounts :
          /\ book'[a].reserved = IF a \in AccountsOf(NoOp) THEN book[a].reserved + z
                                 ELSE book[a].reserved
          /\ book'[a].spent = IF a \in AccountsOf(NoOp) THEN book[a].spent + z ELSE book[a].spent
    BY <2>1, <2>2
  <2>4. Sums(book) /\ NoOp \in Ops \cup {NoOp}
    BY DEF BooksInv
  <2> QED BY <1>1, <2>3, <2>4, SumsMove
<1>3. \A o \in Ops : o \in Accounts
  BY DEF Accounts
<1>4. \A o \in Ops : Booked(o)'
  BY <1>3 DEF BooksInv, Booked
<1> QED BY <1>2, <1>4 DEF BooksInv, Sums

\* One call more or less of an operation.
LEMMA OpenByOne ==
  ASSUME NEW S \in SUBSET Calls, NEW c \in Calls, NEW n \in Nat
  PROVE  /\ Cardinality(S) \in Nat
         /\ c \notin S => Estimate * (Cardinality(S \cup {c}) + n)
                            = Estimate * (Cardinality(S) + n) + Estimate
         /\ c \in S => Estimate * (Cardinality(S \ {c}) + n)
                         = Estimate * (Cardinality(S) + n) - Estimate
         /\ c \in S => Cardinality(S \ {c}) + (n + 1) = Cardinality(S) + n
<1>1. IsFiniteSet(S) /\ Cardinality(S) \in Nat /\ Cardinality(S \ {c}) \in Nat
  BY ChargingFinite, S \ {c} \in SUBSET Calls
<1>2. c \notin S => Cardinality(S \cup {c}) = Cardinality(S) + 1
  BY <1>1, FS_AddElement
<1>3. c \in S => Cardinality(S) = Cardinality(S \ {c}) + 1
  <2>1. c \in S => Cardinality(S \ {c}) = Cardinality(S) - 1
    BY <1>1, FS_RemoveElement
  <2> QED BY <1>1, <2>1
<1>4. ASSUME NEW e \in Nat, NEW m \in Nat
      PROVE  e * ((m + 1) + n) = e * (m + n) + e /\ e * (m + n) \in Nat
  BY SMTT(30)
<1>5. ASSUME c \notin S
      PROVE Estimate * (Cardinality(S \cup {c}) + n) = Estimate * (Cardinality(S) + n) + Estimate
  BY <1>1, <1>2, <1>4, <1>5, CallsAssumption
<1>6. ASSUME c \in S
      PROVE Estimate * (Cardinality(S \ {c}) + n) = Estimate * (Cardinality(S) + n) - Estimate
  <2>1. Estimate * (Cardinality(S) + n) = Estimate * (Cardinality(S \ {c}) + n) + Estimate
    BY <1>1, <1>3, <1>4, <1>6, CallsAssumption
  <2>2. Estimate * (Cardinality(S \ {c}) + n) \in Nat /\ Estimate \in Nat
    BY <1>1, <1>4, CallsAssumption
  <2>3. \A x, y, e \in Int : x = y + e => y = x - e
    OBVIOUS
  <2> QED BY <2>1, <2>2, <2>3
<1>7. c \in S => Cardinality(S \ {c}) + (n + 1) = Cardinality(S) + n
  BY <1>1, <1>3
<1> QED BY <1>1, <1>5, <1>6, <1>7

\* A call that ends gives its estimate back where it was reserved.
LEMMA BooksSettle ==
  ASSUME LedgerInv, LedgerInv', BooksInv, NEW c \in Calls, NEW cost \in Nat,
         Settle(call[c].op, cost), call' = [call EXCEPT ![c] = Idle]
  PROVE  BooksInv'
<1> DEFINE o == call[c].op
<1>1. /\ book \in [Accounts -> Account] /\ book' \in [Accounts -> Account]
      /\ call \in [Calls -> Call] /\ o \in Ops \cup {NoOp} /\ Estimate \in Nat
      /\ \A x \in Ops : x \in Accounts
  BY CallsAssumption DEF LedgerInv, LedgerTypes, Call, Accounts
<1>2. orphans' = orphans
      /\ book' = [a \in Accounts |-> IF a \in AccountsOf(o) THEN Settled(book[a], cost) ELSE book[a]]
  BY DEF Settle
<1>3. ASSUME NEW a \in Accounts
      PROVE  /\ book'[a].reserved = IF a \in AccountsOf(o) THEN book[a].reserved + (0 - Estimate)
                                    ELSE book[a].reserved
             /\ book'[a].spent = IF a \in AccountsOf(o) THEN book[a].spent + cost ELSE book[a].spent
  <2>1. CASE a \in AccountsOf(o)
    <3>1. book[a] \in Account /\ book[a].reserved >= Estimate /\ book[a].reserved \in Nat
      BY <1>1, <2>1, ChargedEnough DEF Account
    <3>2. /\ Settled(book[a], cost).reserved = NonNegative(book[a].reserved - Estimate)
          /\ Settled(book[a], cost).spent = book[a].spent + cost
      BY <3>1 DEF Settled, Account
    <3>3. NonNegative(book[a].reserved - Estimate) = book[a].reserved + (0 - Estimate)
      BY <1>1, <3>1 DEF NonNegative
    <3> QED BY <1>2, <2>1, <3>2, <3>3
  <2>2. CASE a \notin AccountsOf(o)
    BY <1>2, <2>2
  <2> QED BY <2>1, <2>2
<1> HIDE DEF o
<1>4. Sums(book')
  <2>1. cost \in Int /\ 0 - Estimate \in Int
    BY <1>1
  <2> QED BY <1>1, <1>3, <2>1, SumsMove DEF BooksInv
<1>5. ASSUME NEW x \in Ops PROVE Booked(x)'
  <2>1. Open(x) \in SUBSET Calls /\ orphans[x] \in Nat
    BY DEF Open, BooksInv
  <2>2. book[x].reserved = Estimate * (Cardinality(Open(x)) + orphans[x])
    BY DEF BooksInv, Booked
  <2>3. x \in AccountsOf(o) <=> x = o
    BY CallsAssumption DEF AccountsOf, Accounts
  <2>4. CASE x = o
    <3>1. c \in Open(x) /\ Open(x)' = Open(x) \ {c}
      BY <1>1, <2>4, CallsAssumption DEF Open, Idle, o, Accounts
    <3>2. Estimate * (Cardinality(Open(x) \ {c}) + orphans[x])
            = Estimate * (Cardinality(Open(x)) + orphans[x]) - Estimate
      BY <2>1, <3>1, OpenByOne
    <3>3. book'[x].reserved = book[x].reserved + (0 - Estimate)
      BY <1>1, <1>3, <2>3, <2>4
    <3>4. book[x].reserved \in Nat
      BY <1>1 DEF Account
    <3>5. \A r, e \in Int : r + (0 - e) = r - e
      OBVIOUS
    <3>6. book'[x].reserved = Estimate * (Cardinality(Open(x) \ {c}) + orphans[x])
      BY <1>1, <2>2, <3>2, <3>3, <3>4, <3>5
    <3> QED BY <1>2, <3>1, <3>6 DEF Booked
  <2>5. CASE x # o
    <3>1. Open(x)' = Open(x)
      BY <1>1, <2>5, CallsAssumption DEF Open, Idle, o, Accounts
    <3>2. book'[x].reserved = book[x].reserved
      BY <1>1, <1>3, <2>3, <2>5
    <3> QED BY <1>2, <2>2, <3>1, <3>2 DEF Booked
  <2> QED BY <2>4, <2>5
<1> QED BY <1>2, <1>4, <1>5 DEF BooksInv, Sums

\* A call that begins reserves with its operation and with the campaign.
LEMMA BooksComplete ==
  ASSUME LedgerInv, LedgerInv', BooksInv, NEW c \in Calls, NEW o \in Ops \cup {NoOp}, NEW u \in BOOLEAN,
         Complete(c, o, u)
  PROVE  BooksInv'
<1>1. /\ book \in [Accounts -> Account] /\ book' \in [Accounts -> Account]
      /\ call \in [Calls -> Call] /\ Estimate \in Nat
      /\ \A x \in Ops : x \in Accounts
  BY CallsAssumption DEF LedgerInv, LedgerTypes, Call, Accounts
<1>2. /\ orphans' = orphans /\ call[c].op = NoOp
      /\ book' = [a \in Accounts |-> IF a \in AccountsOf(o) THEN Reserved(book[a]) ELSE book[a]]
      /\ call' = [call EXCEPT ![c] = [Idle EXCEPT !.step = "queued", !.op = o, !.urgent = u]]
  BY DEF Complete, LedgerInv, IdleFree
<1>z. PICK z \in Int : z = 0
  OBVIOUS
<1>3. ASSUME NEW a \in Accounts
      PROVE  /\ book'[a].reserved = IF a \in AccountsOf(o) THEN book[a].reserved + Estimate
                                    ELSE book[a].reserved
             /\ book'[a].spent = IF a \in AccountsOf(o) THEN book[a].spent + z ELSE book[a].spent
  <2>1. book[a] \in Account /\ book[a].spent \in Nat
    BY <1>1 DEF Account
  <2>2. /\ Reserved(book[a]).reserved = book[a].reserved + Estimate
        /\ Reserved(book[a]).spent = book[a].spent
    BY <2>1 DEF Reserved, Account
  <2> QED BY <1>z, <1>2, <2>1, <2>2
<1>4. Sums(book')
  <2>1. Sums(book) /\ Estimate \in Int
    BY <1>1 DEF BooksInv
  <2> QED BY <1>1, <1>3, <2>1, SumsMove
<1>5. /\ call'[c].op = o
      /\ \A d \in Calls : d # c => call'[d] = call[d]
  BY <1>1, <1>2 DEF Idle
<1>6. ASSUME NEW x \in Ops PROVE Booked(x)'
  <2>1. Open(x) \in SUBSET Calls /\ orphans[x] \in Nat /\ c \notin Open(x)
    BY <1>2, CallsAssumption DEF Open, BooksInv, Accounts
  <2>2. book[x].reserved = Estimate * (Cardinality(Open(x)) + orphans[x])
    BY DEF BooksInv, Booked
  <2>3. x \in AccountsOf(o) <=> x = o
    BY CallsAssumption DEF AccountsOf, Accounts
  <2>4. CASE x = o
    <3>1. Open(x)' = Open(x) \cup {c}
      BY <1>5, <2>4 DEF Open
    <3>2. Estimate * (Cardinality(Open(x) \cup {c}) + orphans[x])
            = Estimate * (Cardinality(Open(x)) + orphans[x]) + Estimate
      BY <2>1, OpenByOne
    <3>3. book'[x].reserved = book[x].reserved + Estimate
      BY <1>1, <1>3, <2>3, <2>4
    <3> QED BY <1>2, <2>2, <3>1, <3>2, <3>3 DEF Booked
  <2>5. CASE x # o
    <3>1. Open(x)' = Open(x)
      BY <1>5, <2>1, <2>5 DEF Open
    <3>2. book'[x].reserved = book[x].reserved
      BY <1>1, <1>3, <2>3, <2>5
    <3> QED BY <1>2, <2>2, <3>1, <3>2 DEF Booked
  <2> QED BY <2>4, <2>5
<1> QED BY <1>2, <1>4, <1>6 DEF BooksInv, Sums

\* Steps that leave the accounts' sums and the operation of every call alone.
LEMMA SameOpsStand ==
  ASSUME LedgerInv, LedgerInv', BooksInv, orphans' = orphans,
         \A a \in Accounts : book'[a].reserved = book[a].reserved /\ book'[a].spent = book[a].spent,
         \A c \in Calls : call'[c].op = call[c].op
  PROVE  BooksInv'
<1>1. \A o \in Ops : Open(o)' = Open(o)
  BY DEF Open
<1>2. orphans' \in [Ops -> Nat]
  BY DEF BooksInv
<1> QED BY <1>1, <1>2, BooksStand

\* Every step keeps the books.
LEMMA NextBooks ==
  ASSUME LedgerInv, LedgerInv', QueuesOK, BooksInv, [Next]_vars
  PROVE  BooksInv'
<1>t. /\ call \in [Calls -> Call] /\ book \in [Accounts -> Account] /\ orphans \in [Ops -> Nat]
      /\ \A x \in Ops : x \in Accounts /\ x # NoOp
  BY CallsAssumption DEF LedgerInv, LedgerTypes, BooksInv, Accounts
<1>i. Idle.op = NoOp
  BY DEF Idle
<1>1. CASE PumpGrants
  <2> DEFINE c == Selected
  <2>1. /\ call' = [call EXCEPT ![c].step = "wire", ![c].age = "fresh", ![c].leases = @ + 1,
                                ![c].bound = BoundAfterGrant(call[c])]
        /\ UNCHANGED <<book, orphans>>
    BY <1>1 DEF PumpGrants, ledger
  <2> HIDE DEF c
  <2>2. \A d \in Calls : call'[d].op = call[d].op
    BY <1>t, <2>1 DEF Call
  <2> QED BY <2>1, <2>2, SameOpsStand
<1>2. CASE PumpExpires
  <2> DEFINE c == Selected
  <2>1. /\ Shift /\ book' = book
        /\ \/ /\ call' = [call EXCEPT ![c] = Idle]
              /\ orphans' = [o \in Ops |-> IF o = call[c].op THEN orphans[o] + 1 ELSE orphans[o]]
           \/ call' = [call EXCEPT ![c].step = "failing", ![c].age = "fresh"] /\ orphans' = orphans
    BY <1>2 DEF PumpExpires
  <2>2. \A d \in Calls \ {c} : call'[d] = call[d]
    BY <1>t, <2>1
  <2>3. c \in Calls
    BY <2>1, <2>2, ShiftKeepsQueues
  <2> HIDE DEF c
  <2>4. CASE call' = [call EXCEPT ![c].step = "failing", ![c].age = "fresh"] /\ orphans' = orphans
    <3>1. \A d \in Calls : call'[d].op = call[d].op
      BY <1>t, <2>4 DEF Call
    <3> QED BY <2>1, <2>4, <3>1, SameOpsStand
  <2>5. CASE /\ call' = [call EXCEPT ![c] = Idle]
             /\ orphans' = [o \in Ops |-> IF o = call[c].op THEN orphans[o] + 1 ELSE orphans[o]]
    <3>1. orphans' \in [Ops -> Nat] /\ call'[c].op = NoOp
      BY <1>t, <1>i, <2>3, <2>5
    <3>2. ASSUME NEW o \in Ops
          PROVE Cardinality(Open(o)') + orphans'[o] = Cardinality(Open(o)) + orphans[o]
      <4>1. Open(o) \in SUBSET Calls /\ orphans[o] \in Nat
        BY <1>t DEF Open
      <4>2. CASE o = call[c].op
        <5>1. c \in Open(o) /\ Open(o)' = Open(o) \ {c} /\ orphans'[o] = orphans[o] + 1
          BY <1>t, <2>2, <2>3, <2>5, <3>1, <4>2 DEF Open
        <5> QED BY <2>3, <4>1, <5>1, OpenByOne
      <4>3. CASE o # call[c].op
        <5>1. Open(o)' = Open(o) /\ orphans'[o] = orphans[o]
          BY <1>t, <2>2, <2>3, <2>5, <3>1, <4>3 DEF Open
        <5> QED BY <5>1
      <4> QED BY <4>2, <4>3
    <3> QED BY <2>1, <3>1, <3>2, BooksStand
  <2> QED BY <2>1, <2>4, <2>5
<1>3. CASE PumpEnds
  BY <1>3, SameOpsStand DEF PumpEnds, ledger
<1>4. ASSUME NEW c \in Calls, CallStep(c) PROVE BooksInv'
  <2>1. ASSUME NEW cost \in Costs \cup {Estimate}, Answered(c, cost) PROVE BooksInv'
    BY <2>1, BooksSettle, CallsAssumption DEF Answered
  <2>2. CASE Fails(c)
    BY <2>2, BooksSettle, CallsAssumption DEF Fails
  <2>3. CASE BacksOff(c) \/ WakesUp(c) \/ CeilingInBackoff(c)
    <3>1. /\ UNCHANGED <<book, orphans>>
          /\ \/ call' = [call EXCEPT ![c].step = "asleep"]
             \/ call' = [call EXCEPT ![c].step = "requeued"]
             \/ call' = [call EXCEPT ![c].step = "failing", ![c].age = "fresh"]
      BY <2>3 DEF BacksOff, WakesUp, CeilingInBackoff, ledger
    <3>2. \A d \in Calls : call'[d].op = call[d].op
      BY <1>t, <3>1 DEF Call
    <3> QED BY <3>1, <3>2, SameOpsStand
  <2> QED BY <1>4, <2>1, <2>2, <2>3 DEF CallStep
<1>5. ASSUME NEW c \in Calls, Waits(c) PROVE BooksInv'
  <2>1. call' = [call EXCEPT ![c].age = Older(@)] /\ UNCHANGED <<book, orphans>>
    BY <1>5 DEF Waits, ledger
  <2>2. \A d \in Calls : call'[d].op = call[d].op
    BY <1>t, <2>1 DEF Call
  <2> QED BY <2>1, <2>2, SameOpsStand
<1>6. ASSUME NEW c \in Calls, NEW o \in Ops \cup {NoOp}, NEW u \in BOOLEAN, Complete(c, o, u)
      PROVE  BooksInv'
  BY <1>6, BooksComplete
<1>7. ASSUME NEW o \in Ops, CompleteRefused(o) PROVE BooksInv'
  <2>1. book' = [book EXCEPT ![o].status = "active"] /\ orphans' = orphans /\ call' = call
    BY <1>7 DEF CompleteRefused
  <2>2. \A a \in Accounts : book'[a].reserved = book[a].reserved /\ book'[a].spent = book[a].spent
    BY <1>t, <2>1 DEF Account
  <2> QED BY <2>1, <2>2, SameOpsStand
<1>8. ASSUME NEW o \in Ops, Cancel(o) PROVE BooksInv'
  <2> DEFINE Gone == {c \in Queued(o) : call[c].step = "queued"}
  <2>1. /\ book' = [book EXCEPT ![o].status = IF @ = "absent" THEN @ ELSE "cancelled"]
        /\ orphans' = [orphans EXCEPT ![o] = @ + Cardinality(Gone)]
        /\ call' = [c \in Calls |->
             IF c \notin Queued(o) THEN call[c]
             ELSE IF call[c].step = "queued" THEN Idle
             ELSE [call[c] EXCEPT !.step = "failing", !.age = "fresh"]]
    BY <1>8 DEF Cancel
  <2>2. \A a \in Accounts : book'[a].reserved = book[a].reserved /\ book'[a].spent = book[a].spent
    BY <1>t, <2>1 DEF Account
  <2>3. /\ Gone \in SUBSET Open(o) /\ Open(o) \in SUBSET Calls
        /\ \A c \in Gone : call'[c].op = NoOp
        /\ \A c \in Calls \ Gone : call'[c].op = call[c].op
    <3>1. Gone \in SUBSET Open(o) /\ Open(o) \in SUBSET Calls
      BY DEF Queued, Open
    <3>2. ASSUME NEW c \in Gone PROVE call'[c].op = NoOp
      BY <1>i, <2>1, <3>1
    <3>3. ASSUME NEW c \in Calls \ Gone PROVE call'[c].op = call[c].op
      <4>1. [call[c] EXCEPT !.step = "failing", !.age = "fresh"].op = call[c].op
        BY <1>t DEF Call
      <4> QED BY <2>1, <4>1
    <3> QED BY <3>1, <3>2, <3>3
  <2> HIDE DEF Gone
  <2>4. /\ IsFiniteSet(Open(o)) /\ IsFiniteSet(Gone) /\ Cardinality(Gone) \in Nat
        /\ Cardinality(Open(o)) \in Nat
    BY <2>3, ChargingFinite
  <2>5. orphans' \in [Ops -> Nat]
    <3>1. orphans[o] + Cardinality(Gone) \in Nat
      BY <1>t, <2>4
    <3> QED BY <1>t, <2>1, <3>1
  <2>6. Open(o)' = Open(o) \ Gone
    BY <1>t, <2>3 DEF Open
  <2>7. Cardinality(Open(o) \ Gone) = Cardinality(Open(o)) - Cardinality(Gone)
    BY <2>3, <2>4, FS_Difference, Open(o) \cap Gone = Gone
  <2>8. ASSUME NEW x \in Ops
        PROVE Cardinality(Open(x)') + orphans'[x] = Cardinality(Open(x)) + orphans[x]
    <3>1. CASE x = o
      <4>1. orphans'[o] = orphans[o] + Cardinality(Gone) /\ orphans[o] \in Nat
        BY <1>t, <2>1
      <4>2. Cardinality(Open(o)') = Cardinality(Open(o)) - Cardinality(Gone)
        BY <2>6, <2>7
      <4>3. \A m, n, k \in Int : (m - n) + (k + n) = m + k
        OBVIOUS
      <4> QED BY <2>4, <3>1, <4>1, <4>2, <4>3
    <3>2. CASE x # o
      <4>1. Open(x)' = Open(x)
        BY <1>t, <2>3, <3>2 DEF Open
      <4>2. orphans'[x] = orphans[x]
        BY <1>t, <2>1, <3>2
      <4> QED BY <4>1, <4>2
    <3> QED BY <3>1, <3>2
  <2> QED BY <2>2, <2>5, <2>8, BooksStand
<1>9. ASSUME NEW o \in Ops, Extend(o) PROVE BooksInv'
  <2>1. /\ book' = [book EXCEPT ![o].allowed = @ + Extension, ![o].remaining = @ + Extension]
        /\ orphans' = orphans /\ call' = call
    BY <1>9 DEF Extend
  <2>2. \A a \in Accounts : book'[a].reserved = book[a].reserved /\ book'[a].spent = book[a].spent
    BY <1>t, <2>1 DEF Account
  <2> QED BY <2>1, <2>2, SameOpsStand
<1>10. CASE Crash
  <2>1. /\ call' = [c \in Calls |-> Idle] /\ book' = book
        /\ orphans' = [o \in Ops |-> orphans[o] + Cardinality(Open(o))]
    BY <1>10 DEF Crash, Open
  <2>2. ASSUME NEW o \in Ops
        PROVE /\ Cardinality(Open(o)) \in Nat /\ Cardinality(Open(o)') = 0
              /\ orphans[o] \in Nat
    <3>1. Open(o) \in SUBSET Calls
      BY DEF Open
    <3>2. Open(o)' = {}
      BY <1>t, <1>i, <2>1 DEF Open
    <3> QED BY <1>t, <3>1, <3>2, ChargingFinite, FS_EmptySet
  <2>3. orphans' \in [Ops -> Nat]
    BY <1>t, <2>1, <2>2
  <2>4. \A o \in Ops : Cardinality(Open(o)') + orphans'[o] = Cardinality(Open(o)) + orphans[o]
    BY <2>1, <2>2
  <2> QED BY <2>1, <2>3, <2>4, BooksStand
<1>11. CASE UNCHANGED vars
  BY <1>11, SameOpsStand DEF vars, ledger
<1> QED BY <1>1, <1>2, <1>3, <1>4, <1>5, <1>6, <1>7, <1>8, <1>9, <1>10, <1>11 DEF Next, Pump

\* At the start nothing is reserved or spent.
LEMMA InitBooks == Init => BooksInv
<1> SUFFICES ASSUME Init PROVE BooksInv
  OBVIOUS
<1>1. /\ call = [c \in Calls |-> Idle] /\ orphans = [o \in Ops |-> 0]
      /\ \A a \in Accounts : book[a].reserved = 0 /\ book[a].spent = 0
  BY DEF Init
<1>2. Campaign \in Accounts /\ \A o \in Ops : o \in Accounts /\ o # NoOp
  BY CallsAssumption DEF Accounts
<1>3. ASSUME NEW o \in Ops PROVE Booked(o)
  <2>1. Open(o) = {}
    BY <1>1, <1>2 DEF Open, Idle
  <2> QED BY <1>1, <1>2, <2>1, FS_EmptySet, CallsAssumption DEF Booked
<1>4. ASSUME NEW g \in [Ops -> Int], NEW f, Totals(g, SUBSET Ops, f), \A o \in Ops : g[o] = 0
      PROVE  f[Ops] = 0
  <2> DEFINE P == {n \in Nat : \A s \in SUBSET Ops : Cardinality(s) <= n => f[s] = 0}
  <2>f. IsFiniteSet(Ops) /\ Cardinality(Ops) \in Nat
    BY CallsAssumption, FS_CardinalityType
  <2>1. \A s \in SUBSET Ops : f[s] = IF s = {} THEN 0 ELSE g[Some(s)] + f[s \ {Some(s)}]
    BY <1>4 DEF Totals
  <2>e. f[{}] = 0
    BY <2>1
  <2>2. 0 \in P
    <3>1. ASSUME NEW s \in SUBSET Ops, Cardinality(s) <= 0 PROVE s = {}
      <4>1. Cardinality(s) \in Nat /\ (Cardinality(s) = 0 <=> s = {})
        BY <2>f, OneLess
      <4> QED BY <3>1, <4>1
    <3> QED BY <2>e, <3>1
  <2>3. ASSUME NEW n \in 1..Cardinality(Ops), (n - 1) \in P PROVE n \in P
    <3>1. ASSUME NEW s \in SUBSET Ops, Cardinality(s) <= n PROVE f[s] = 0
      <4>1. CASE s = {}
        BY <2>e, <4>1
      <4>2. CASE s # {}
        <5> DEFINE x == Some(s)
                   r == s \ {x}
        <5>1. /\ x \in Ops /\ r \in SUBSET Ops
              /\ Cardinality(r) = Cardinality(s) - 1 /\ Cardinality(s) \in Nat
          BY <2>f, <4>2, OneLess
        <5>2. f[s] = g[x] + f[r]
          BY <2>1, <4>2
        <5> HIDE DEF x, r
        <5>3. f[r] = 0
          <6>1. Cardinality(r) <= n - 1
            BY <3>1, <5>1
          <6> QED BY <2>3, <5>1, <6>1
        <5>4. g[x] = 0
          BY <1>4, <5>1
        <5> QED BY <5>2, <5>3, <5>4
      <4> QED BY <4>1, <4>2
    <3> QED BY <2>f, <3>1
  <2> HIDE DEF P
  <2>4. Cardinality(Ops) \in P
    BY <2>f, <2>2, <2>3, UpTo
  <2> QED BY <2>f, <2>4 DEF P
<1>5. ReservedSum(book) = 0 /\ SpentSum(book) = 0
  <2>1. PICK f : /\ Totals([o \in Ops |-> book[o].reserved], SUBSET Ops, f)
                 /\ ReservedSum(book) = f[Ops]
    BY CampaignSums
  <2>2. PICK k : /\ Totals([o \in Ops |-> book[o].spent], SUBSET Ops, k)
                 /\ SpentSum(book) = k[Ops]
    BY CampaignSums
  <2>3. f[Ops] = 0
    <3> DEFINE g == [o \in Ops |-> book[o].reserved]
    <3>1. g \in [Ops -> Int] /\ \A o \in Ops : g[o] = 0
      BY <1>1, <1>2
    <3> HIDE DEF g
    <3> QED BY <1>4, <2>1, <3>1 DEF g
  <2>4. k[Ops] = 0
    <3> DEFINE g == [o \in Ops |-> book[o].spent]
    <3>1. g \in [Ops -> Int] /\ \A o \in Ops : g[o] = 0
      BY <1>1, <1>2
    <3> HIDE DEF g
    <3> QED BY <1>4, <2>2, <3>1 DEF g
  <2> QED BY <2>1, <2>2, <2>3, <2>4
<1>6. orphans \in [Ops -> Nat]
  BY <1>1
<1> QED BY <1>1, <1>2, <1>3, <1>5, <1>6 DEF BooksInv, Sums

\* What an operation has reserved is what its calls and orphans reserved, and
\* the campaign's account is the sum of the operations', whatever is settled,
\* expired, cancelled or cut off by a crash.
THEOREM LedgerStaysExact == Spec => []LedgerExact
<1>1. BooksInv => LedgerExact
  <2> SUFFICES ASSUME BooksInv PROVE LedgerExact
    OBVIOUS
  <2>1. book[Campaign].reserved = ReservedSum(book) /\ book[Campaign].spent = SpentSum(book)
    BY DEF BooksInv, Sums
  <2>2. book[Campaign].reserved = MapThenSumSet(LAMBDA o : book[o].reserved, Ops)
    BY <2>1 DEF ReservedSum
  <2>3. book[Campaign].spent = MapThenSumSet(LAMBDA o : book[o].spent, Ops)
    BY <2>1 DEF SpentSum
  <2>4. \A o \in Ops : book[o].reserved = Estimate * (Cardinality(Open(o)) + orphans[o])
    BY DEF BooksInv, Booked
  <2> QED BY <2>2, <2>3, <2>4 DEF LedgerExact
<1>2. Init => QueuesOK /\ SlotsOK
  BY InitQueuesAndSlots
<1>3. LedgerInv /\ QueuesOK /\ SlotsOK /\ [Next]_vars => QueuesOK' /\ SlotsOK'
  BY NextQueuesAndSlots
<1>4. LedgerInv /\ LedgerInv' /\ QueuesOK /\ BooksInv /\ [Next]_vars => BooksInv'
  BY NextBooks
<1> QED BY <1>1, <1>2, <1>3, <1>4, InitBooks, InitLedger, NextLedger, PTL DEF Spec

-----------------------------------------------------------------------------
\* Every variable holds a value of its type, for every value of the constants.
THEOREM TypesHold == Spec => []TypeOK
<1> DEFINE Counted == extensions \in 0..MaxExtensions
<1>1. Init => Counted
  BY CallsAssumption DEF Init
<1>2. ASSUME Counted, [Next]_vars PROVE Counted'
  <2>1. CASE \E o \in Ops : Extend(o)
    BY <1>2, <2>1, CallsAssumption DEF Extend
  <2>2. CASE ~\E o \in Ops : Extend(o)
    <3>1. extensions' = extensions
      BY <1>2, <2>2 DEF Next, vars, ledger, Pump, PumpGrants, PumpExpires, PumpEnds, CallStep,
            Answered, Fails, Settle, BacksOff, WakesUp, CeilingInBackoff, Waits, Complete,
            CompleteRefused, Cancel, Crash
    <3> QED BY <1>2, <3>1
  <2> QED BY <2>1, <2>2
<1>3. /\ LedgerInv /\ QueuesOK /\ SlotsOK /\ BooksInv
      /\ pumping \in BOOLEAN /\ StreakCounts /\ Counted
      => TypeOK
  BY DEF LedgerInv, LedgerTypes, QueuesOK, Lined, SlotsOK, BooksInv, StreakCounts, TypeOK
<1>4. Init => QueuesOK /\ SlotsOK
  BY InitQueuesAndSlots
<1>5. LedgerInv /\ QueuesOK /\ SlotsOK /\ [Next]_vars => QueuesOK' /\ SlotsOK'
  BY NextQueuesAndSlots
<1>6. LedgerInv /\ LedgerInv' /\ QueuesOK /\ BooksInv /\ [Next]_vars => BooksInv'
  BY NextBooks
<1> QED BY <1>1, <1>2, <1>3, <1>4, <1>5, <1>6, InitBooks, InitLedger, NextLedger, NoSlotIdles,
           NormalComesNext, PTL DEF Spec
=============================================================================
