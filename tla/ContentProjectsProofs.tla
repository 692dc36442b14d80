----------------------- MODULE ContentProjectsProofs -----------------------
(***************************************************************************)
(* Proofs about Content Projects, for any number of authors, targets,       *)
(* revisions and calls in flight.                                           *)
(*                                                                          *)
(* Lineage is about what a provider was prompted with before an await and   *)
(* what the project holds after it.  The invariant adds what makes it       *)
(* inductive: evidence is frozen before the first charter (Grounded), the   *)
(* calls in flight have the one target their kind has (CallFits), and the   *)
(* record numbers bound the lists (Counted).  Each step then does one of    *)
(* three things to the revisions (Changed): nothing, one revision stored in *)
(* place of the last, or one pushed after it.                               *)
(***************************************************************************)
EXTENDS ContentProjects, FiniteSetTheorems, SequenceTheorems, WellFoundedInduction, TLAPS

\* What the work of a revision rests on: frozen evidence once there is a charter,
\* and approvals of what it has.
Grounded(rev) ==
  /\ rev.charters # <<>> => rev.frozen
  /\ \A c \in DOMAIN rev.charters : rev.charters[c] \subseteq rev.evidence
  /\ rev.approvals \subseteq DOMAIN rev.charters
  /\ \A t \in Targets : rev.chosen[t] \subseteq DOMAIN rev.outlines[t]

\* With m records in all, a target has at most m Outlines: their places are Places.
Counted(rev, m) == \A t \in Targets : Len(rev.outlines[t]) <= m

\* Lineage, of the n-th revision alone.
Lined(rev, n) ==
  \A t \in Targets :
    /\ \A k \in DOMAIN rev.outlines[t] :
         LET o == rev.outlines[t][k] IN
         /\ o.charter \in rev.approvals /\ o.prompted = <<n, o.charter>>
         /\ rev.frozen /\ o.cites \subseteq rev.evidence
    /\ \A k \in DOMAIN rev.drafts[t] :
         LET d == rev.drafts[t][k] IN
         /\ d.outline \in rev.chosen[t] /\ d.prompted = <<n, d.outline>>

Fits(rev, n, m) == rev \in Revision /\ Grounded(rev) /\ Counted(rev, m) /\ Lined(rev, n)

\* One target per Outline and Draft.
CallFits(c) ==
  c \in Call /\ (c.kind \in {"outline", "draft"} => \E t \in Targets : c.targets = {t})

\* The revisions, with m records in all.
Revisions(m) ==
  /\ revisions \in Seq(Revision) /\ revisions # <<>> /\ Len(revisions) <= MaxRevisions
  /\ \A n \in DOMAIN revisions : Fits(revisions[n], n, m)

\* The inductive invariant.
ProjectInv == TypeOK /\ Revisions(records) /\ \A s \in Slots : CallFits(call[s])

\* What may become of a revision that is the last one.
Stands(new, old) ==
  /\ new.intent = old.intent
  /\ old.frozen => new.frozen /\ new.evidence = old.evidence /\ new.review = old.review
  /\ Extends(new.charters, old.charters) /\ old.approvals \subseteq new.approvals
  /\ \A t \in Targets : /\ Extends(new.outlines[t], old.outlines[t])
                        /\ Extends(new.drafts[t], old.drafts[t])
                        /\ old.chosen[t] \subseteq new.chosen[t]

Stood ==
  /\ Len(revisions') >= Number
  /\ \A n \in 1..(Number - 1) : revisions'[n] = revisions[n]
  /\ Stands(revisions'[Number], Current)
  /\ revisions'[Number] # Current => Len(revisions') = Number

\* The three things a step may do to the revisions.
Changed ==
  /\ records' \in 0..MaxRecords /\ records <= records'
  /\ \/ revisions' = revisions
     \/ \E rev : Store(rev) /\ Fits(rev, Number, records') /\ Stands(rev, Current)
     \/ \E rev : Push(rev) /\ Fits(rev, Number + 1, records')

-----------------------------------------------------------------------------
LEMMA ExtendsSelf ==
  ASSUME NEW S, NEW s \in Seq(S)
  PROVE  Extends(s, s)
BY DEF Extends

LEMMA ExtendsAppend ==
  ASSUME NEW S, NEW s \in Seq(S), NEW x \in S
  PROVE  Extends(Append(s, x), s)
<1>1. Append(s, x) \in Seq(S) /\ Len(Append(s, x)) = Len(s) + 1 /\ Len(s) \in Nat
  OBVIOUS
<1>2. SubSeq(Append(s, x), 1, Len(s)) \in Seq(S) /\ Len(SubSeq(Append(s, x), 1, Len(s))) = Len(s)
  BY <1>1
<1>3. \A i \in 1..Len(s) : SubSeq(Append(s, x), 1, Len(s))[i] = s[i]
  BY <1>1
<1>4. SubSeq(Append(s, x), 1, Len(s)) = s
  BY <1>2, <1>3, SeqEqual
<1> QED
  BY <1>1, <1>4 DEF Extends

LEMMA StandsSelf ==
  ASSUME NEW rev \in Revision
  PROVE  Stands(rev, rev)
<1>1. rev.charters \in Seq(SUBSET Items)
  BY DEF Revision
<1>2. \A t \in Targets : rev.outlines[t] \in Seq(Outline) /\ rev.drafts[t] \in Seq(Draft)
  BY DEF Revision
<1> QED
  BY <1>1, <1>2, ExtendsSelf DEF Stands

LEMMA BuiltFits ==
  ASSUME NEW intent \in Intent, NEW reviewed \in BOOLEAN, NEW review \in SUBSET Items, NEW n,
         NEW m \in Nat
  PROVE  Fits(Built(intent, reviewed, review), n, m)
<1> DEFINE rev == Built(intent, reviewed, review)
<1>1. /\ <<>> \in Seq(SUBSET Items) /\ <<>> \in Seq(Outline) /\ <<>> \in Seq(Draft)
      /\ DOMAIN <<>> = {} /\ Len(<<>>) = 0
  OBVIOUS
<1>2. rev \in Revision
  BY <1>1 DEF Built, Revision
<1>3. /\ rev.charters = <<>> /\ rev.approvals = {}
      /\ \A t \in Targets : rev.outlines[t] = <<>> /\ rev.chosen[t] = {} /\ rev.drafts[t] = <<>>
  BY DEF Built
<1> HIDE DEF rev
<1>4. Fits(rev, n, m)
  BY <1>1, <1>2, <1>3 DEF Fits, Grounded, Counted, Lined
<1> QED
  BY <1>4 DEF rev

LEMMA FitsMore ==
  ASSUME NEW rev, NEW n, NEW m \in Nat, NEW k \in Nat, m <= k, Fits(rev, n, m)
  PROVE  Fits(rev, n, k)
<1>1. \A t \in Targets : Len(rev.outlines[t]) \in Nat
  BY DEF Fits, Revision
<1> QED
  BY <1>1 DEF Fits, Counted

-----------------------------------------------------------------------------
(* From what a step does to the revisions                                  *)

LEMMA InvFacts ==
  ASSUME ProjectInv
  PROVE  /\ Number \in Nat \ {0} /\ DOMAIN revisions = 1..Number /\ Number \in DOMAIN revisions
         /\ Number <= MaxRevisions /\ revisions \in Seq(Revision)
         /\ Current \in Revision /\ Fits(Current, Number, records)
         /\ records \in Nat /\ records \in 0..MaxRecords /\ MaxRecords \in Nat /\ MaxRevisions \in Nat
         /\ call \in [Slots -> Call]
<1>1. /\ revisions \in Seq(Revision) /\ revisions # <<>> /\ Len(revisions) <= MaxRevisions
      /\ \A n \in DOMAIN revisions : Fits(revisions[n], n, records)
  BY DEF ProjectInv, Revisions
<1>2. Number \in Nat \ {0} /\ DOMAIN revisions = 1..Number
  BY <1>1, EmptySeq, LenProperties DEF Number
<1> QED
  BY <1>1, <1>2, ProjectAssumption DEF ProjectInv, TypeOK, Current, Number

LEMMA ChangedRevisions ==
  ASSUME ProjectInv, Changed
  PROVE  Revisions(records)' /\ Stood
<1>1. /\ Number \in Nat \ {0} /\ DOMAIN revisions = 1..Number /\ Number \in DOMAIN revisions
      /\ Number <= MaxRevisions /\ revisions \in Seq(Revision)
      /\ Current \in Revision /\ Fits(Current, Number, records)
      /\ records \in Nat /\ MaxRecords \in Nat /\ MaxRevisions \in Nat
  BY InvFacts
<1>2. records' \in Nat /\ records <= records'
  BY <1>1 DEF Changed
<1>3. \A n \in 1..Number : Fits(revisions[n], n, records')
  BY <1>1, <1>2, FitsMore DEF ProjectInv, Revisions
<1>4. Stands(Current, Current)
  BY <1>1, StandsSelf
<1>5. CASE revisions' = revisions
  <2>1. Revisions(records)'
    BY <1>1, <1>3, <1>5 DEF Revisions, ProjectInv
  <2> QED
    BY <1>1, <1>4, <1>5, <2>1 DEF Stood, Number, Current
<1>6. ASSUME NEW rev, Store(rev), Fits(rev, Number, records'), Stands(rev, Current)
      PROVE  Revisions(records)' /\ Stood
  <2>1. rev \in Revision
    BY <1>6 DEF Fits
  <2>2. /\ revisions' \in Seq(Revision) /\ Len(revisions') = Number
        /\ \A n \in 1..Number : revisions'[n] = IF n = Number THEN rev ELSE revisions[n]
    BY <1>1, <1>6, <2>1, ExceptSeq DEF Store, Number
  <2>3. DOMAIN revisions' = 1..Number /\ revisions' # <<>>
    BY <1>1, <2>2
  <2>4. \A n \in 1..Number : Fits(revisions'[n], n, records')
    BY <1>3, <1>6, <2>2
  <2>5. Revisions(records)'
    BY <1>1, <2>2, <2>3, <2>4 DEF Revisions
  <2> QED
    BY <1>1, <1>6, <2>2, <2>5 DEF Stood
<1>7. ASSUME NEW rev, Push(rev), Fits(rev, Number + 1, records')
      PROVE  Revisions(records)' /\ Stood
  <2>1. rev \in Revision
    BY <1>7 DEF Fits
  <2>2. /\ revisions' \in Seq(Revision) /\ Len(revisions') = Number + 1
        /\ \A n \in 1..(Number + 1) : revisions'[n] = IF n = Number + 1 THEN rev ELSE revisions[n]
    BY <1>1, <1>7, <2>1 DEF Push, Number
  <2>3. DOMAIN revisions' = 1..(Number + 1) /\ revisions' # <<>>
    BY <1>1, <2>2
  <2>4. \A n \in 1..(Number + 1) : Fits(revisions'[n], n, records')
    BY <1>1, <1>3, <1>7, <2>2
  <2>5. Revisions(records)'
    BY <1>1, <1>7, <2>2, <2>3, <2>4 DEF Revisions, Push
  <2>6. \A n \in 1..Number : revisions'[n] = revisions[n]
    BY <1>1, <2>2
  <2> QED
    BY <1>1, <1>4, <2>2, <2>5, <2>6 DEF Stood, Current
<1> QED
  BY <1>5, <1>6, <1>7 DEF Changed

-----------------------------------------------------------------------------
(* The latest of a set of places                                           *)

LEMMA SmallestOf ==
  ASSUME NEW T \in SUBSET Nat, T # {}
  PROVE  \E x \in T : \A y \in T : x <= y
<1> DEFINE R == OpToRel(<, Nat)
<1>1. IsWellFoundedOn(R, Nat) /\ R = {p \in Nat \X Nat : p[1] < p[2]}
  BY NatLessThanWellFounded DEF OpToRel
<1> HIDE DEF R
<1>2. PICK x \in T : \A y \in T : ~(<<y, x>> \in R)
  BY <1>1, WFMin
<1>3. \A y \in T : ~(y < x)
  BY <1>1, <1>2
<1> QED
  BY <1>3

LEMMA LatestOf ==
  ASSUME NEW K \in Nat, NEW S \in SUBSET (1..K), S # {}
  PROVE  Latest(S) \in S
<1> DEFINE T == {K - i : i \in S}
<1>1. T \in SUBSET Nat /\ T # {}
  OBVIOUS
<1> HIDE DEF T
<1>2. PICK x \in T : \A y \in T : x <= y
  BY <1>1, SmallestOf
<1>3. PICK i \in S : x = K - i
  BY DEF T
<1>4. \A j \in S : j <= i
  <2> TAKE j \in S
  <2>1. K - i <= K - j
    BY <1>2, <1>3 DEF T
  <2> QED
    BY <2>1
<1> QED
  BY <1>4 DEF Latest

\* The plans name what is approved.
LEMMA CharterOf ==
  ASSUME ProjectInv, Chartered(Current)
  PROVE  /\ Charter(Current) \in Current.approvals /\ Charter(Current) \in Places
         /\ Charter(Current) \in DOMAIN Current.charters
         /\ Current.charters[Charter(Current)] \subseteq Current.evidence
         /\ Current.charters[Charter(Current)] \in SUBSET Items
         /\ Current.frozen
<1>1. Current \in Revision /\ Grounded(Current) /\ MaxRecords \in Nat
  BY InvFacts DEF Fits
<1>2. Current.approvals \in SUBSET (1..MaxRecords) /\ Current.approvals # {}
  BY <1>1 DEF Revision, Places, Chartered
<1>3. Charter(Current) \in Current.approvals
  BY <1>1, <1>2, LatestOf DEF Charter
<1>4. Charter(Current) \in DOMAIN Current.charters /\ Current.charters \in Seq(SUBSET Items)
  BY <1>1, <1>3 DEF Grounded, Revision
<1>5. Current.charters # <<>>
  BY <1>4
<1> QED
  BY <1>1, <1>2, <1>3, <1>4, <1>5 DEF Grounded, Places

LEMMA SourceOf ==
  ASSUME ProjectInv, NEW t \in Targets, Outlined(Current, t)
  PROVE  Source(Current, t) \in Current.chosen[t] /\ Source(Current, t) \in Places
<1>1. Current \in Revision /\ MaxRecords \in Nat
  BY InvFacts
<1>2. Current.chosen[t] \in SUBSET (1..MaxRecords) /\ Current.chosen[t] # {}
  BY <1>1 DEF Revision, Places, Outlined
<1>3. Source(Current, t) \in Current.chosen[t]
  BY <1>1, <1>2, LatestOf DEF Source
<1> QED
  BY <1>2, <1>3 DEF Places

-----------------------------------------------------------------------------
(* The owner's requests                                                    *)

\* A revision that differs from the last in fields no work rests on.
Fields(new, old) ==
  /\ new.intent = old.intent
  /\ new.charters = old.charters /\ new.approvals = old.approvals
  /\ new.outlines = old.outlines /\ new.chosen = old.chosen /\ new.drafts = old.drafts

LEMMA ReviseIntentChanges ==
  ASSUME ProjectInv, NEW i \in Intent, ReviseIntent(i)
  PROVE  Changed
<1> DEFINE rev == Built(i, FALSE, {})
<1>1. Fits(rev, Number + 1, records)
  BY InvFacts, BuiltFits
<1>2. Push(rev) /\ records' = records
  BY DEF ReviseIntent
<1> HIDE DEF rev
<1> QED
  BY <1>1, <1>2, InvFacts DEF Changed

LEMMA AttachEvidenceChanges ==
  ASSUME ProjectInv, NEW S \in SUBSET Items, AttachEvidence(S)
  PROVE  Changed
<1>1. /\ Current \in Revision /\ Fits(Current, Number, records) /\ records \in Nat
      /\ records \in 0..MaxRecords /\ records' = records
  BY InvFacts DEF AttachEvidence
<1>2. CASE Settled(Current)
  <2> DEFINE rev == Built(Current.intent, TRUE, S)
  <2>1. Fits(rev, Number + 1, records)
    BY <1>1, BuiltFits DEF Revision
  <2>2. Push(rev)
    BY <1>2 DEF AttachEvidence
  <2> HIDE DEF rev
  <2> QED
    BY <1>1, <2>1, <2>2 DEF Changed
<1>3. CASE ~Settled(Current)
  <2> DEFINE rev == [Current EXCEPT !.reviewed = TRUE, !.review = S]
  <2>1. rev \in Revision
    BY <1>1 DEF Revision
  <2>2. Fields(rev, Current) /\ rev.frozen = Current.frozen /\ rev.evidence = Current.evidence
    BY <1>1 DEF Revision, Fields
  <2>3. Store(rev)
    BY <1>3 DEF AttachEvidence
  <2> HIDE DEF rev
  <2>4. Fits(rev, Number, records)
    BY <1>1, <2>1, <2>2 DEF Fits, Fields, Grounded, Counted, Lined
  <2>5. Stands(rev, Current)
    BY <1>1, <1>3, <2>2, StandsSelf DEF Stands, Fields, Settled
  <2> QED
    BY <1>1, <2>3, <2>4, <2>5 DEF Changed
<1> QED
  BY <1>2, <1>3

LEMMA FreezeEvidenceChanges ==
  ASSUME ProjectInv, NEW S \in SUBSET Items, FreezeEvidence(S)
  PROVE  Changed
<1>1. /\ Current \in Revision /\ Fits(Current, Number, records) /\ records \in Nat
      /\ records \in 0..MaxRecords /\ records' = records
  BY InvFacts DEF FreezeEvidence
<1>2. CASE Current.frozen
  <2> DEFINE old == Built(Current.intent, Current.reviewed, Current.review)
             rev == Frozen(old, S)
  <2>1. Fits(old, Number + 1, records)
    BY <1>1, BuiltFits DEF Revision
  <2>2. /\ old.charters = <<>>
        /\ \A t \in Targets : old.outlines[t] = <<>>
    BY DEF Built
  <2>3. Push(rev)
    BY <1>2 DEF FreezeEvidence
  <2> HIDE DEF old
  <2>4. rev \in Revision /\ Fields(rev, old)
    BY <2>1 DEF Frozen, Revision, Fits, Fields
  <2> HIDE DEF rev
  <2>5. Fits(rev, Number + 1, records)
    BY <2>1, <2>2, <2>4 DEF Fits, Fields, Grounded, Counted, Lined
  <2> QED
    BY <1>1, <2>3, <2>5 DEF Changed
<1>3. CASE ~Current.frozen
  <2> DEFINE rev == Frozen(Current, S)
  <2>1. rev \in Revision /\ Fields(rev, Current) /\ rev.frozen
    BY <1>1 DEF Frozen, Revision, Fields
  <2>2. Store(rev)
    BY <1>3 DEF FreezeEvidence
  <2> HIDE DEF rev
  <2>3. /\ Current.charters = <<>> /\ DOMAIN Current.charters = {}
        /\ \A t \in Targets : \A k \in DOMAIN Current.outlines[t] : FALSE
    BY <1>1, <1>3 DEF Fits, Grounded, Lined
  <2>4. Fits(rev, Number, records)
    BY <1>1, <2>1, <2>3 DEF Fits, Fields, Grounded, Counted, Lined
  <2>5. Stands(rev, Current)
    BY <1>1, <1>3, <2>1, StandsSelf DEF Stands, Fields
  <2> QED
    BY <1>1, <2>2, <2>4, <2>5 DEF Changed
<1> QED
  BY <1>2, <1>3

LEMMA ProposeChanges ==
  ASSUME ProjectInv, NEW S \in SUBSET Items, ProposeOutlineCharter(S)
  PROVE  Changed
<1>1. /\ Current \in Revision /\ Fits(Current, Number, records) /\ records \in Nat
      /\ records' \in 0..MaxRecords /\ records <= records' /\ records' \in Nat
  BY InvFacts DEF ProposeOutlineCharter, Record
<1> DEFINE rev == [Current EXCEPT !.charters = Append(Current.charters, S)]
<1>2. Current.charters \in Seq(SUBSET Items) /\ Append(Current.charters, S) \in Seq(SUBSET Items)
  BY <1>1 DEF Revision
<1>3. rev \in Revision
  BY <1>1, <1>2 DEF Revision
<1>4. /\ rev.charters = Append(Current.charters, S) /\ rev.frozen = Current.frozen
      /\ rev.evidence = Current.evidence /\ rev.review = Current.review
      /\ rev.intent = Current.intent /\ rev.approvals = Current.approvals
      /\ rev.outlines = Current.outlines /\ rev.chosen = Current.chosen /\ rev.drafts = Current.drafts
  BY <1>1 DEF Revision
<1>5. Store(rev) /\ Current.frozen /\ S \subseteq Current.evidence
  BY DEF ProposeOutlineCharter, Ready
<1> HIDE DEF rev
<1>6. Fits(Current, Number, records')
  BY <1>1, FitsMore
<1>7. /\ DOMAIN rev.charters = 1..(Len(Current.charters) + 1)
      /\ DOMAIN Current.charters = 1..Len(Current.charters)
      /\ \A c \in DOMAIN rev.charters :
           rev.charters[c] = IF c <= Len(Current.charters) THEN Current.charters[c] ELSE S
      /\ Len(Current.charters) \in Nat
  BY <1>2, <1>4
<1>8. Grounded(rev)
  BY <1>4, <1>5, <1>6, <1>7 DEF Fits, Grounded
<1>9. Fits(rev, Number, records')
  BY <1>3, <1>4, <1>6, <1>8 DEF Fits, Counted, Lined
<1>10. Extends(rev.charters, Current.charters)
  BY <1>2, <1>4, ExtendsAppend
<1>11. Stands(rev, Current)
  BY <1>1, <1>4, <1>10, StandsSelf DEF Stands
<1> QED
  BY <1>1, <1>5, <1>9, <1>11 DEF Changed

LEMMA ApproveCharterChanges ==
  ASSUME ProjectInv, NEW c \in 1..MaxRecords, ApproveOutlineCharter(c)
  PROVE  Changed
<1>1. /\ Current \in Revision /\ Fits(Current, Number, records) /\ records \in Nat
      /\ records \in 0..MaxRecords /\ records' = records
  BY InvFacts DEF ApproveOutlineCharter
<1> DEFINE rev == [Current EXCEPT !.approvals = Current.approvals \cup {c}]
<1>2. rev \in Revision
  BY <1>1 DEF Revision, Places
<1>3. /\ rev.charters = Current.charters /\ rev.frozen = Current.frozen
      /\ rev.evidence = Current.evidence /\ rev.review = Current.review
      /\ rev.intent = Current.intent /\ rev.approvals = Current.approvals \cup {c}
      /\ rev.outlines = Current.outlines /\ rev.chosen = Current.chosen /\ rev.drafts = Current.drafts
  BY <1>1 DEF Revision
<1>4. Store(rev) /\ c \in DOMAIN Current.charters
  BY DEF ApproveOutlineCharter
<1> HIDE DEF rev
<1>5. Fits(rev, Number, records)
  BY <1>1, <1>2, <1>3, <1>4 DEF Fits, Grounded, Counted, Lined
<1>6. Stands(rev, Current)
  BY <1>1, <1>3, StandsSelf DEF Stands
<1> QED
  BY <1>1, <1>4, <1>5, <1>6 DEF Changed

LEMMA ApproveOutlineChanges ==
  ASSUME ProjectInv, NEW t \in Targets, ApproveOutline(t)
  PROVE  Changed
<1>1. /\ Current \in Revision /\ Fits(Current, Number, records) /\ records \in Nat
      /\ records \in 0..MaxRecords /\ records' = records /\ MaxRecords \in Nat
  BY InvFacts DEF ApproveOutline
<1> DEFINE k == Len(Current.outlines[t])
           rev == [Current EXCEPT !.chosen[t] = Current.chosen[t] \cup {k}]
<1>2. k \in Places /\ k \in DOMAIN Current.outlines[t]
  <2>1. Current.outlines[t] \in Seq(Outline) /\ Current.outlines[t] # <<>>
    BY <1>1 DEF Revision, ApproveOutline
  <2>2. k \in Nat \ {0} /\ k <= records
    BY <1>1, <2>1, EmptySeq DEF Fits, Counted
  <2> QED
    BY <1>1, <2>1, <2>2 DEF Places
<1>3. Store(rev)
  BY DEF ApproveOutline
<1> HIDE DEF k
<1>4. rev \in Revision
  BY <1>1, <1>2 DEF Revision
<1>5. /\ rev.charters = Current.charters /\ rev.frozen = Current.frozen
      /\ rev.evidence = Current.evidence /\ rev.review = Current.review
      /\ rev.intent = Current.intent /\ rev.approvals = Current.approvals
      /\ rev.outlines = Current.outlines /\ rev.drafts = Current.drafts
      /\ \A u \in Targets : rev.chosen[u] = IF u = t THEN Current.chosen[u] \cup {k} ELSE Current.chosen[u]
  BY <1>1 DEF Revision
<1> HIDE DEF rev
<1>6. Fits(rev, Number, records)
  <2>1. Grounded(rev) /\ Counted(rev, records)
    BY <1>1, <1>2, <1>5 DEF Fits, Grounded, Counted
  <2>2. \A u \in Targets : Current.chosen[u] \subseteq rev.chosen[u]
    BY <1>5
  <2>3. Lined(rev, Number)
    BY <1>1, <1>5, <2>2 DEF Fits, Lined
  <2> QED
    BY <1>4, <2>1, <2>3 DEF Fits
<1>7. Stands(rev, Current)
  BY <1>1, <1>5, StandsSelf DEF Stands
<1> QED
  BY <1>1, <1>3, <1>6, <1>7 DEF Changed

-----------------------------------------------------------------------------
(* Calls                                                                   *)

CallsFit == call \in [Slots -> Call] /\ \A s \in Slots : CallFits(call[s])

LEMMA IdleFits == CallFits(Idle)
BY DEF Idle, CallFits, Call

LEMMA BeginFits ==
  ASSUME CallsFit, NEW s \in Slots, NEW c, CallFits(c), call' = [call EXCEPT ![s] = c]
  PROVE  CallsFit'
BY DEF CallsFit, CallFits

LEMMA EndFits ==
  ASSUME CallsFit, NEW s \in Slots, End(s)
  PROVE  CallsFit'
BY BeginFits, IdleFits DEF End

LEMMA WorkFits ==
  ASSUME NEW kind \in {"outline", "set", "draft"}, NEW targets \in SUBSET Targets,
         NEW from \in Prompt, kind # "set" => \E t \in Targets : targets = {t}
  PROVE  CallFits([kind |-> kind, targets |-> targets, from |-> from])
BY DEF CallFits, Call

LEMMA CallsBegin ==
  ASSUME ProjectInv, CallsFit, NEW s \in Slots, Calls(s)
  PROVE  CallsFit'
<1>1. Number \in 1..MaxRevisions /\ Current \in Revision
  BY InvFacts
<1>2. ASSUME NEW p \in Places PROVE <<Number, p>> \in Prompt
  BY <1>1, <1>2 DEF Prompt
<1>3. ASSUME NEW t \in Targets, GenerateOutline(s, t) PROVE CallsFit'
  <2>1. Charter(Current) \in Places
    BY <1>3, CharterOf DEF GenerateOutline
  <2>2. CallFits([kind |-> "outline", targets |-> {t}, from |-> <<Number, Charter(Current)>>])
    BY <1>2, <2>1, WorkFits
  <2> QED
    BY <1>3, <2>2, BeginFits DEF GenerateOutline, Begin
<1>4. ASSUME NEW t \in Targets, GenerateDraft(s, t) PROVE CallsFit'
  <2>1. Source(Current, t) \in Places
    BY <1>4, SourceOf DEF GenerateDraft
  <2>2. CallFits([kind |-> "draft", targets |-> {t}, from |-> <<Number, Source(Current, t)>>])
    BY <1>2, <2>1, WorkFits
  <2> QED
    BY <1>4, <2>2, BeginFits DEF GenerateDraft, Begin
<1>5. ASSUME GenerateOutlineSet(s) PROVE CallsFit'
  <2>1. Charter(Current) \in Places
    BY <1>5, CharterOf DEF GenerateOutlineSet
  <2>2. Pending(Current) \in SUBSET Targets
    BY <1>1 DEF Pending, Revision, Intent
  <2>3. CallFits([kind |-> "set", targets |-> Pending(Current), from |-> <<Number, Charter(Current)>>])
    BY <1>2, <2>1, <2>2, WorkFits
  <2> QED
    BY <1>5, <2>3, BeginFits DEF GenerateOutlineSet, Begin
<1>6. ASSUME RunResearchRequest(s) PROVE CallsFit'
  <2>1. Current.intent.subject \in Subjects
    BY <1>1 DEF Revision, Intent
  <2>2. CallFits([kind |-> "research", subject |-> Current.intent.subject])
    BY <2>1 DEF CallFits, Call
  <2> QED
    BY <1>6, <2>2, BeginFits DEF RunResearchRequest, Begin
<1> QED
  BY <1>3, <1>4, <1>5, <1>6 DEF Calls

\* Outlines of the approved charter are added for some targets.
LEMMA OutlinesAdded ==
  ASSUME ProjectInv, NEW c \in Call, StillChartered(c.from), c.from \in Prompt,
         NEW cites \in SUBSET Items, cites \in Citable, NEW ok \in SUBSET Targets,
         records' \in 0..MaxRecords, records <= records', ok # {} => records + 1 <= records',
         Store([Current EXCEPT !.outlines =
           [t \in Targets |-> IF t \in ok THEN NewOutline(Current.outlines[t], c, cites)
                              ELSE Current.outlines[t]]])
  PROVE  Changed
<1>1. /\ Current \in Revision /\ Fits(Current, Number, records) /\ records \in Nat /\ records' \in Nat
  BY InvFacts
<1>2. /\ Charter(Current) \in Current.approvals /\ Charter(Current) \in Places
      /\ cites \subseteq Current.evidence /\ Current.frozen
      /\ c.from = <<Number, Charter(Current)>>
  BY CharterOf DEF StillChartered, Citable
<1> DEFINE o == [charter |-> Charter(Current), cites |-> cites, prompted |-> c.from]
           lists == [t \in Targets |-> IF t \in ok THEN NewOutline(Current.outlines[t], c, cites)
                                       ELSE Current.outlines[t]]
           rev == [Current EXCEPT !.outlines = lists]
<1>3. /\ o \in Outline /\ o.charter = Charter(Current) /\ o.cites = cites
      /\ o.prompted = <<Number, Charter(Current)>>
  BY <1>2 DEF Outline
<1>4. \A t \in Targets : lists[t] = IF t \in ok THEN Append(Current.outlines[t], o)
                                    ELSE Current.outlines[t]
  BY DEF NewOutline
<1>5. Store(rev)
  OBVIOUS
<1>6. lists = [t \in Targets |-> lists[t]]
  OBVIOUS
<1> HIDE DEF o, lists
<1>7. ASSUME NEW t \in Targets
      PROVE  /\ lists[t] \in Seq(Outline) /\ Len(lists[t]) <= records'
             /\ DOMAIN Current.outlines[t] \subseteq DOMAIN lists[t]
             /\ \A k \in DOMAIN lists[t] : \/ lists[t][k] = o
                                           \/ /\ k \in DOMAIN Current.outlines[t]
                                              /\ lists[t][k] = Current.outlines[t][k]
             /\ Extends(lists[t], Current.outlines[t])
  <2>1. /\ Current.outlines[t] \in Seq(Outline) /\ Len(Current.outlines[t]) <= records
        /\ Len(Current.outlines[t]) \in Nat
    BY <1>1 DEF Revision, Fits, Counted
  <2>2. CASE t \notin ok
    BY <1>1, <1>4, <2>1, <2>2, ExtendsSelf
  <2>3. CASE t \in ok
    <3>1. lists[t] = Append(Current.outlines[t], o)
      BY <1>4, <2>3
    <3>2. Extends(lists[t], Current.outlines[t])
      BY <1>3, <2>1, <3>1, ExtendsAppend
    <3>3. lists[t] \in Seq(Outline) /\ Len(lists[t]) = Len(Current.outlines[t]) + 1
      BY <1>3, <2>1, <3>1
    <3>4. \A k \in 1..(Len(Current.outlines[t]) + 1) :
            lists[t][k] = IF k <= Len(Current.outlines[t]) THEN Current.outlines[t][k] ELSE o
      BY <1>3, <2>1, <3>1
    <3>5. /\ DOMAIN lists[t] = 1..(Len(Current.outlines[t]) + 1)
          /\ DOMAIN Current.outlines[t] = 1..Len(Current.outlines[t])
      BY <2>1, <3>3, LenProperties
    <3>6. Len(lists[t]) <= records'
      BY <1>1, <2>1, <2>3, <3>3
    <3> QED
      BY <2>1, <3>2, <3>3, <3>4, <3>5, <3>6
  <2> QED
    BY <2>2, <2>3
<1>8. lists \in [Targets -> Seq(Outline)]
  BY <1>6, <1>7
<1>9. rev \in Revision
  BY <1>1, <1>8 DEF Revision
<1>10. /\ rev.charters = Current.charters /\ rev.frozen = Current.frozen
       /\ rev.evidence = Current.evidence /\ rev.review = Current.review
       /\ rev.intent = Current.intent /\ rev.approvals = Current.approvals
       /\ rev.outlines = lists /\ rev.chosen = Current.chosen /\ rev.drafts = Current.drafts
  BY <1>1 DEF Revision
<1> HIDE DEF rev
<1>11. Grounded(rev) /\ Counted(rev, records')
  <2>1. \A t \in Targets : rev.chosen[t] \subseteq DOMAIN rev.outlines[t]
    BY <1>1, <1>7, <1>10 DEF Fits, Grounded
  <2> QED
    BY <1>1, <1>7, <1>10, <2>1 DEF Fits, Grounded, Counted
<1>12. Lined(rev, Number)
  <2>1. ASSUME NEW t \in Targets, NEW k \in DOMAIN lists[t]
        PROVE  /\ lists[t][k].charter \in Current.approvals
               /\ lists[t][k].prompted = <<Number, lists[t][k].charter>>
               /\ Current.frozen /\ lists[t][k].cites \subseteq Current.evidence
    <3>1. CASE lists[t][k] = o
      BY <1>2, <1>3, <3>1
    <3>2. CASE k \in DOMAIN Current.outlines[t] /\ lists[t][k] = Current.outlines[t][k]
      BY <1>1, <3>2 DEF Fits, Lined
    <3> QED
      BY <1>7, <3>1, <3>2
  <2> QED
    BY <1>1, <1>10, <2>1 DEF Fits, Lined
<1>13. Stands(rev, Current)
  BY <1>1, <1>7, <1>10, StandsSelf DEF Stands
<1> QED
  BY <1>5, <1>9, <1>11, <1>12, <1>13 DEF Changed, Fits

LEMMA OutlineLandsChanges ==
  ASSUME ProjectInv, NEW s \in Slots, NEW cites \in SUBSET Items, OutlineLands(s, cites)
  PROVE  Changed
<1>1. /\ call[s] \in Call /\ CallFits(call[s]) /\ call[s].kind = "outline"
  BY InvFacts DEF ProjectInv, OutlineLands, InFlight
<1>2. PICK u \in Targets : call[s].targets = {u}
  BY <1>1 DEF CallFits
<1>3. call[s].from \in Prompt
  BY <1>1 DEF Call, Idle
<1>4. /\ records' \in 0..MaxRecords /\ records <= records' /\ records + 1 <= records'
  BY InvFacts DEF OutlineLands, Record
<1> DEFINE ok == call[s].targets
<1>5. Store([Current EXCEPT !.outlines =
        [t \in Targets |-> IF t \in ok THEN NewOutline(Current.outlines[t], call[s], cites)
                           ELSE Current.outlines[t]]])
  BY DEF OutlineLands
<1>6. ok \in SUBSET Targets /\ StillChartered(call[s].from) /\ cites \in Citable
  BY <1>2 DEF OutlineLands
<1> HIDE DEF ok
<1> QED
  BY <1>1, <1>3, <1>4, <1>5, <1>6, OutlinesAdded

LEMMA SetLandsChanges ==
  ASSUME ProjectInv, NEW s \in Slots, InFlight(s, "set"), NEW ok \in SUBSET call[s].targets,
         NEW cites \in SUBSET Items, SetLands(s, ok, cites)
  PROVE  Changed
<1>1. /\ call[s] \in Call /\ call[s].kind = "set"
  BY InvFacts DEF InFlight
<1>2. call[s].from \in Prompt /\ ok \in SUBSET Targets
  BY <1>1 DEF Call, Idle
<1>3. Cardinality(ok) \in Nat /\ (ok # {} => Cardinality(ok) # 0)
  <2>1. IsFiniteSet(ok)
    BY <1>2, ProjectAssumption, FS_Subset
  <2> QED
    BY <2>1, FS_CardinalityType, FS_EmptySet
<1>4. /\ records' \in 0..MaxRecords /\ records <= records' /\ (ok # {} => records + 1 <= records')
  BY <1>3, InvFacts DEF SetLands, Record
<1>5. Store([Current EXCEPT !.outlines =
        [t \in Targets |-> IF t \in ok THEN NewOutline(Current.outlines[t], call[s], cites)
                           ELSE Current.outlines[t]]])
  BY DEF SetLands
<1> QED
  BY <1>1, <1>2, <1>4, <1>5, OutlinesAdded DEF SetLands

LEMMA DraftLandsChanges ==
  ASSUME ProjectInv, NEW s \in Slots, DraftLands(s)
  PROVE  Changed
<1>1. /\ call[s] \in Call /\ CallFits(call[s]) /\ call[s].kind = "draft"
  BY InvFacts DEF ProjectInv, DraftLands, InFlight
<1>2. PICK t \in Targets : call[s].targets = {t}
  BY <1>1 DEF CallFits
<1>3. call[s].from \in Prompt
  BY <1>1 DEF Call, Idle
<1> DEFINE d == [outline |-> Source(Current, t), prompted |-> call[s].from]
           rev == [Current EXCEPT !.drafts[t] = Append(Current.drafts[t], d)]
<1>4. Outlined(Current, t) /\ <<Number, Source(Current, t)>> = call[s].from /\ Store(rev)
  BY <1>2 DEF DraftLands
<1>5. /\ Current \in Revision /\ Fits(Current, Number, records) /\ records \in Nat
      /\ records' \in 0..MaxRecords /\ records <= records' /\ records' \in Nat
  BY InvFacts DEF DraftLands, Record
<1>6. Source(Current, t) \in Current.chosen[t] /\ Source(Current, t) \in Places
  BY <1>4, SourceOf
<1>7. /\ d \in Draft /\ d.outline = Source(Current, t) /\ d.prompted = <<Number, Source(Current, t)>>
  BY <1>3, <1>4, <1>6 DEF Draft
<1> HIDE DEF d
<1>8. Current.drafts \in [Targets -> Seq(Draft)] /\ Append(Current.drafts[t], d) \in Seq(Draft)
  BY <1>5, <1>7 DEF Revision
<1>9. rev \in Revision
  BY <1>5, <1>8 DEF Revision
<1>10. /\ rev.charters = Current.charters /\ rev.frozen = Current.frozen
       /\ rev.evidence = Current.evidence /\ rev.review = Current.review
       /\ rev.intent = Current.intent /\ rev.approvals = Current.approvals
       /\ rev.outlines = Current.outlines /\ rev.chosen = Current.chosen
       /\ \A u \in Targets : rev.drafts[u] = IF u = t THEN Append(Current.drafts[u], d)
                                             ELSE Current.drafts[u]
  BY <1>5 DEF Revision
<1> HIDE DEF rev
<1>11. Fits(Current, Number, records')
  BY <1>5, FitsMore
<1>12. Lined(rev, Number)
  <2>1. ASSUME NEW u \in Targets, NEW k \in DOMAIN rev.drafts[u]
        PROVE  /\ rev.drafts[u][k].outline \in Current.chosen[u]
               /\ rev.drafts[u][k].prompted = <<Number, rev.drafts[u][k].outline>>
    <3>1. CASE k \in DOMAIN Current.drafts[u] /\ rev.drafts[u][k] = Current.drafts[u][k]
      BY <1>11, <3>1 DEF Fits, Lined
    <3>2. CASE u = t /\ rev.drafts[u][k] = d
      BY <1>6, <1>7, <3>2
    <3>3. Current.drafts[u] \in Seq(Draft)
      BY <1>8
    <3>4. CASE u = t
      <4>0. rev.drafts[u] = Append(Current.drafts[u], d)
        BY <1>10, <3>4
      <4>1. /\ k \in 1..(Len(Current.drafts[u]) + 1)
            /\ DOMAIN Current.drafts[u] = 1..Len(Current.drafts[u])
        <5>1. DOMAIN Append(Current.drafts[u], d) = 1..(Len(Current.drafts[u]) + 1)
          BY <1>7, <3>3
        <5> QED
          BY <3>3, <4>0, <5>1, LenProperties
      <4>2. rev.drafts[u][k] = IF k <= Len(Current.drafts[u]) THEN Current.drafts[u][k] ELSE d
        BY <1>7, <3>3, <4>0, <4>1
      <4> QED
        BY <3>1, <3>2, <3>3, <3>4, <4>1, <4>2
    <3> QED
      BY <1>10, <3>1, <3>4
  <2> QED
    BY <1>10, <1>11, <2>1 DEF Fits, Lined
<1>13. Grounded(rev) /\ Counted(rev, records')
  BY <1>10, <1>11 DEF Fits, Grounded, Counted
<1>14. \A u \in Targets : Extends(rev.drafts[u], Current.drafts[u])
  BY <1>7, <1>8, <1>10, ExtendsSelf, ExtendsAppend
<1>15. Stands(rev, Current)
  BY <1>5, <1>10, <1>14, StandsSelf DEF Stands
<1> QED
  BY <1>4, <1>5, <1>9, <1>12, <1>13, <1>15 DEF Changed, Fits

LEMMA ResearchLandsChanges ==
  ASSUME ProjectInv, NEW s \in Slots, NEW found \in SUBSET Items, ResearchLands(s, found)
  PROVE  Changed
<1>1. /\ Current \in Revision /\ Fits(Current, Number, records) /\ records \in Nat
      /\ records \in 0..MaxRecords /\ records' = records /\ call[s] \in Call /\ call[s].kind = "research"
  BY InvFacts DEF ResearchLands, InFlight
<1>2. call[s].subject \in Subjects
  BY <1>1 DEF Call, Idle
<1> DEFINE old == Built(Current.intent, TRUE, Current.review \cup found)
           rev == [old EXCEPT !.request = {call[s].subject}]
           used == Settled(Current) \/ Current.reviewed \/ Current.request # {}
<1>3. Push(rev) \/ (~Settled(Current) /\ Store(rev))
  BY DEF ResearchLands
<1>4. \A n : Fits(old, n, records)
  BY <1>1, BuiltFits DEF Revision
<1>5. /\ old.intent = Current.intent /\ old.charters = <<>> /\ old.approvals = {}
      /\ \A t \in Targets : old.outlines[t] = <<>> /\ old.chosen[t] = {} /\ old.drafts[t] = <<>>
  BY DEF Built
<1> HIDE DEF old
<1>6. rev \in Revision /\ Fields(rev, old) /\ rev.frozen = old.frozen /\ rev.evidence = old.evidence
  BY <1>2, <1>4 DEF Fits, Revision, Fields
<1> HIDE DEF rev
<1>7. \A n : Fits(rev, n, records)
  <2>1. DOMAIN <<>> = {} /\ Len(<<>>) = 0
    OBVIOUS
  <2> QED
    BY <1>1, <1>5, <1>6, <2>1 DEF Fits, Fields, Grounded, Counted, Lined
<1>8. CASE Push(rev)
  BY <1>1, <1>7, <1>8 DEF Changed
<1>9. CASE ~Settled(Current) /\ Store(rev)
  <2>1. ~Current.frozen /\ Current.charters = <<>> /\ Current.approvals = {}
    BY <1>9 DEF Settled
  <2>2. ASSUME NEW t \in Targets
        PROVE  Current.outlines[t] = <<>> /\ Current.drafts[t] = <<>> /\ Current.chosen[t] = {}
    <3>1. /\ Current.outlines[t] \in Seq(Outline) /\ Current.drafts[t] \in Seq(Draft)
          /\ Current.chosen[t] \subseteq DOMAIN Current.outlines[t]
      BY <1>1 DEF Fits, Grounded, Revision
    <3>2. \A k \in DOMAIN Current.outlines[t] : FALSE
      BY <1>1, <2>1 DEF Fits, Lined
    <3>0. \A S : \A q \in Seq(S) : (\A k \in DOMAIN q : FALSE) => q = <<>>
      <4> TAKE S
      <4> TAKE q \in Seq(S)
      <4> HAVE \A k \in DOMAIN q : FALSE
      <4>1. q # <<>> => 1 \in DOMAIN q
        BY EmptySeq, LenProperties
      <4> QED
        BY <4>1
    <3>3. Current.outlines[t] = <<>> /\ Current.chosen[t] = {}
      BY <3>0, <3>1, <3>2
    <3>4. \A k \in DOMAIN Current.drafts[t] : FALSE
      BY <1>1, <3>3 DEF Fits, Lined
    <3> QED
      BY <3>0, <3>1, <3>3, <3>4
  <2>3. Extends(<<>>, <<>>)
    <3>1. <<>> \in Seq(Items)
      OBVIOUS
    <3> QED
      BY <3>1, ExtendsSelf
  <2>4. Stands(rev, Current)
    BY <1>5, <1>6, <2>1, <2>2, <2>3 DEF Stands, Fields
  <2> QED
    BY <1>1, <1>7, <1>9, <2>4 DEF Changed
<1> QED
  BY <1>3, <1>8, <1>9

-----------------------------------------------------------------------------
LEMMA NextChanges ==
  ASSUME ProjectInv, [Next]_vars
  PROVE  Changed
<1>1. ASSUME revisions' = revisions, records' = records PROVE Changed
  BY <1>1, InvFacts DEF Changed
<1>2. CASE Requests
  BY <1>2, ReviseIntentChanges, AttachEvidenceChanges, FreezeEvidenceChanges, ProposeChanges,
     ApproveCharterChanges, ApproveOutlineChanges DEF Requests
<1>3. ASSUME NEW s \in Slots, Calls(s) PROVE Changed
  BY <1>1, <1>3 DEF Calls, GenerateOutline, GenerateDraft, GenerateOutlineSet, RunResearchRequest
<1>4. ASSUME NEW s \in Slots, Landings(s) PROVE Changed
  <2>1. ASSUME CallFails(s) PROVE Changed
    BY <1>1, <2>1 DEF CallFails
  <2> QED
    BY <1>4, <2>1, OutlineLandsChanges, SetLandsChanges, DraftLandsChanges, ResearchLandsChanges
    DEF Landings
<1>5. CASE Surroundings
  BY <1>1, <1>5 DEF Surroundings, ConnectionChanges, AuthorizeAuthor, ApproveContentVoice,
                    ConfirmBrand
<1>6. CASE UNCHANGED vars
  BY <1>1, <1>6 DEF vars
<1> QED
  BY <1>2, <1>3, <1>4, <1>5, <1>6 DEF Next

LEMMA CallsStep ==
  ASSUME ProjectInv, [Next]_vars
  PROVE  CallsFit'
<1>1. CallsFit
  BY InvFacts DEF ProjectInv, CallsFit
<1>2. ASSUME call' = call PROVE CallsFit'
  BY <1>1, <1>2 DEF CallsFit
<1>3. CASE Requests
  BY <1>2, <1>3 DEF Requests, ReviseIntent, AttachEvidence, FreezeEvidence, ProposeOutlineCharter,
     ApproveOutlineCharter, ApproveOutline
<1>4. ASSUME NEW s \in Slots, Calls(s) PROVE CallsFit'
  BY <1>1, <1>4, CallsBegin
<1>5. ASSUME NEW s \in Slots, Landings(s) PROVE CallsFit'
  <2>1. End(s)
    BY <1>5 DEF Landings, OutlineLands, SetLands, DraftLands, ResearchLands, CallFails
  <2> QED
    BY <1>1, <2>1, EndFits
<1>6. CASE Surroundings
  BY <1>2, <1>6 DEF Surroundings, ConnectionChanges, AuthorizeAuthor, ApproveContentVoice,
                    ConfirmBrand
<1>7. CASE UNCHANGED vars
  BY <1>2, <1>7 DEF vars
<1> QED
  BY <1>3, <1>4, <1>5, <1>6, <1>7 DEF Next

LEMMA WorkspaceStep ==
  ASSUME TypeOK, [Next]_vars
  PROVE  /\ owner' \in Authors \cup {NoOwner} /\ brand' \in BOOLEAN
         /\ authorized' \subseteq Authors /\ voiced' \subseteq Authors
<1>1. CASE UNCHANGED workspace
  BY <1>1 DEF workspace, TypeOK
<1>2. CASE Surroundings
  BY <1>2 DEF TypeOK, Surroundings, ConnectionChanges, AuthorizeAuthor, ApproveContentVoice,
              ConfirmBrand
<1>3. CASE Requests
  BY <1>1, <1>3 DEF Requests, ReviseIntent, AttachEvidence, FreezeEvidence, ProposeOutlineCharter,
     ApproveOutlineCharter, ApproveOutline
<1>4. ASSUME NEW s \in Slots, Calls(s) \/ Landings(s) PROVE UNCHANGED workspace
  BY <1>4 DEF Calls, GenerateOutline, GenerateDraft, GenerateOutlineSet, RunResearchRequest,
     Landings, OutlineLands, SetLands, DraftLands, ResearchLands, CallFails
<1>5. CASE UNCHANGED vars
  BY <1>1, <1>5 DEF vars, workspace
<1> QED
  BY <1>1, <1>2, <1>3, <1>4, <1>5 DEF Next

LEMMA ProjectStep == ProjectInv /\ [Next]_vars => ProjectInv' /\ Stood
<1> SUFFICES ASSUME ProjectInv, [Next]_vars PROVE ProjectInv' /\ Stood
  OBVIOUS
<1>1. Changed
  BY NextChanges
<1>2. Revisions(records)' /\ Stood
  BY <1>1, ChangedRevisions
<1>3. CallsFit'
  BY CallsStep
<1>4. /\ owner' \in Authors \cup {NoOwner} /\ brand' \in BOOLEAN
      /\ authorized' \subseteq Authors /\ voiced' \subseteq Authors
  BY WorkspaceStep DEF ProjectInv
<1>5. TypeOK'
  BY <1>1, <1>2, <1>3, <1>4 DEF TypeOK, Changed, Revisions, CallsFit
<1> QED
  BY <1>2, <1>3, <1>5 DEF ProjectInv, CallsFit

LEMMA ProjectInit == Init => ProjectInv
<1> SUFFICES ASSUME Init PROVE ProjectInv
  OBVIOUS
<1>1. PICK i \in Intent : revisions = <<Built(i, FALSE, {})>>
  BY DEF Init
<1> DEFINE rev == Built(i, FALSE, {})
<1>2. \A n : Fits(rev, n, 0)
  BY BuiltFits
<1>3. revisions = <<rev>>
  BY <1>1
<1> HIDE DEF rev
<1>4. /\ revisions \in Seq(Revision) /\ revisions # <<>> /\ Len(revisions) = 1
      /\ DOMAIN revisions = {1} /\ revisions[1] = rev
  BY <1>2, <1>3 DEF Fits
<1>5. records = 0 /\ MaxRevisions \in Nat \ {0} /\ MaxRecords \in Nat
  BY ProjectAssumption DEF Init
<1>6. Revisions(records)
  BY <1>2, <1>4, <1>5 DEF Revisions
<1>7. CallsFit
  BY IdleFits DEF Init, CallsFit, CallFits
<1>8. /\ owner \in Authors \cup {NoOwner} /\ brand \in BOOLEAN
      /\ authorized \subseteq Authors /\ voiced \subseteq Authors
  BY DEF Init
<1>9. TypeOK
  BY <1>4, <1>5, <1>7, <1>8 DEF TypeOK, CallsFit
<1> QED
  BY <1>6, <1>7, <1>9 DEF ProjectInv, CallsFit

\* Every variable of a Content Project holds a value of its type, whatever calls
\* are in flight and however they are answered or lost.
THEOREM ProjectTypes == Spec => []TypeOK
<1>1. ProjectInv => TypeOK
  BY DEF ProjectInv
<1> QED
  BY <1>1, ProjectInit, ProjectStep, PTL DEF Spec

\* generateOutline, generateOutlineSet and generateDraft plan again after their
\* provider answered: no answer that comes late, after a new revision or another
\* approval, is recorded under a charter or Outline it was not made from.
THEOREM LineageHolds == Spec => []Lineage
<1>1. ProjectInv => Lineage
  BY DEF ProjectInv, Revisions, Fits, Lined, Lineage
<1> QED
  BY <1>1, ProjectInit, ProjectStep, PTL DEF Spec

\* Every method writes the whole Project back; none changes a superseded revision,
\* frozen evidence, or a charter, Outline, Draft or approval recorded before it.
THEOREM RecordsAreKept == Spec => RecordsStand
<1>1. ProjectInv /\ [Next]_vars => Stood
  BY ProjectStep
<1> QED
  BY <1>1, ProjectInit, ProjectStep, PTL DEF Spec, RecordsStand, Stood, Stands
=============================================================================
