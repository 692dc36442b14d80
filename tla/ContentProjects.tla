--------------------------- MODULE ContentProjects ---------------------------
(***************************************************************************)
(* One Content Project (content-projects/projects.ts): revisions of its     *)
(* intent, evidence reviewed and frozen, Outline Charters, Platform         *)
(* Outlines and Drafts, each approved before the next is generated.         *)
(*                                                                         *)
(* Every method reads projects.json, changes it and writes it back in one   *)
(* turn, by a rename; Projects of one file do not meet.  Four methods yield *)
(* to providers - the Research Request, one Outline, a set of Outlines, one *)
(* Draft - and read the Project again before they write: each is a call     *)
(* begun and a call that lands, with whatever the owner did between.        *)
(***************************************************************************)
EXTENDS Naturals, Sequences, FiniteSets

CONSTANTS
  Modes,         \* research modes
  Slots,         \* requests that may be under way together
  Targets,       \* platform and format targets
  Items,         \* Source Items
  Subjects,      \* Topics and Person Profiles a Project may be about
  Authors,       \* Profiles that may be authors
  MaxRevisions,  \* bound on revisions
  MaxRecords     \* bound on charters, Outlines and Drafts of the Project

NoOwner == "none"

ASSUME ProjectAssumption ==
  /\ Modes \subseteq {"null", "none", "existing", "fresh"}
  /\ Authors # {} /\ NoOwner \notin Authors
  /\ IsFiniteSet(Targets)
  /\ MaxRevisions \in Nat \ {0} /\ MaxRecords \in Nat

VARIABLES
  revisions,   \* project.revisions
  call,        \* what each request waits for
  owner,       \* the Profile confirmed for the connected identity, or NoOwner
  authorized,  \* authorPolicies
  voiced,      \* Profiles with an approved Content Voice
  brand,       \* there is a Brand Profile
  records      \* how many charters, Outlines and Drafts there are

vars == <<revisions, call, records, owner, authorized, voiced, brand>>
workspace == <<owner, authorized, voiced, brand>>

\* Charters, and the Outlines and Drafts of one target, are known by their place
\* in their lists, which is also their version; prompted is a history of what the
\* provider was given: the charter, or the Outline, of which revision.
Places == 1..MaxRecords
Prompt == (1..MaxRevisions) \X Places
Outline == [charter : Places, cites : SUBSET Items, prompted : Prompt]
Draft == [outline : Places, prompted : Prompt]

Intent == [subject : Subjects, author : Authors, targets : SUBSET Targets, mode : Modes]

\* reviewed, review: evidenceReview; request: the subject its Research Request
\* asked about, if any; frozen, evidence: frozenEvidence; charters: each is the
\* Source Items of its evidence map; chosen: the approved Outlines of a target.
Built(intent, reviewed, review) ==
  [intent |-> intent, reviewed |-> reviewed, review |-> review, request |-> {},
   frozen |-> FALSE, evidence |-> {}, charters |-> <<>>, approvals |-> {},
   outlines |-> [t \in Targets |-> <<>>], chosen |-> [t \in Targets |-> {}],
   drafts |-> [t \in Targets |-> <<>>]]

Idle == [kind |-> "idle"]

Number == Len(revisions)
Current == revisions[Number]

-----------------------------------------------------------------------------
(* Gates and plans                                                         *)

\* missingGates is empty.  The frozen evidence brings both voices and the
\* acknowledgement with it.
Ready(rev) ==
  /\ owner # NoOwner
  /\ rev.intent.author = owner \/ rev.intent.author \in authorized
  /\ rev.intent.mode # "null" /\ rev.frozen /\ rev.intent.targets # {}

Latest(S) == CHOOSE i \in S : \A j \in S : j <= i

\* plannedOutlineGeneration, for one target or for a set: the latest approved
\* charter of a ready revision.
Chartered(rev) == rev.approvals # {}
Charter(rev) == Latest(rev.approvals)

\* plannedOutlineSet: targets without an Outline of that charter.
Pending(rev) ==
  {t \in rev.intent.targets :
     \A k \in DOMAIN rev.outlines[t] : rev.outlines[t][k].charter # Charter(rev)}

\* plannedDraftGeneration: the latest approved Outline of the target.
Outlined(rev, t) == rev.chosen[t] # {}
Source(rev, t) == Latest(rev.chosen[t])

\* selectAuthor for a Profile: the confirmed owner, or an authorized author
\* with a Content Voice.
Selectable(a) == a = owner \/ a \in authorized \cap voiced

-----------------------------------------------------------------------------
(* The owner's requests                                                    *)

Store(rev) == revisions' = [revisions EXCEPT ![Number] = rev]
Push(rev) == Number < MaxRevisions /\ revisions' = Append(revisions, rev)
Record(n) == records + n <= MaxRecords /\ records' = records + n

\* reviseIntent: a revision with nothing of the former one but its intent.
ReviseIntent(intent) ==
  /\ Selectable(intent.author)
  /\ Push(Built(intent, FALSE, {}))
  /\ UNCHANGED <<call, records, workspace>>

\* Mutant of Settled: frozen evidence is forgotten.
SettledByCharter(rev) == rev.charters # <<>> \/ rev.approvals # {}

\* Work of the revision rests on its evidence.
Settled(rev) == rev.frozen \/ rev.charters # <<>> \/ rev.approvals # {}

AttachEvidence(S) ==
  /\ IF Settled(Current) THEN Push(Built(Current.intent, TRUE, S))
     ELSE Store([Current EXCEPT !.reviewed = TRUE, !.review = S])
  /\ UNCHANGED <<call, records, workspace>>

\* missingFreezeGates and the rules of the research mode; without research the
\* owner's acknowledgement comes with the request.
Freezable(rev, S) ==
  /\ brand /\ rev.intent.author \in voiced
  /\ rev.intent.mode # "null"
  /\ rev.intent.mode = "none" => S = {} /\ rev.review = {}
  /\ rev.intent.mode # "none" => S # {}
  /\ S \subseteq rev.review

Frozen(rev, S) == [rev EXCEPT !.frozen = TRUE, !.evidence = S]

\* A frozen selection is replaced in a revision of its own.
FreezeEvidence(S) ==
  /\ Freezable(Current, S)
  /\ IF Current.frozen
     THEN Push(Frozen(Built(Current.intent, Current.reviewed, Current.review), S))
     ELSE Store(Frozen(Current, S))
  /\ UNCHANGED <<call, records, workspace>>

ProposeOutlineCharter(S) ==
  /\ Ready(Current)
  /\ S \subseteq Current.evidence
  /\ Record(1)
  /\ Store([Current EXCEPT !.charters = Append(@, S)])
  /\ UNCHANGED <<call, workspace>>

ApproveOutlineCharter(c) ==
  /\ Ready(Current)
  /\ c \in DOMAIN Current.charters
  /\ Store([Current EXCEPT !.approvals = @ \cup {c}])
  /\ UNCHANGED <<call, records, workspace>>

\* The latest Outline of the target, whichever it is by now.
ApproveOutline(t) ==
  /\ Current.outlines[t] # <<>>
  /\ Store([Current EXCEPT !.chosen[t] = @ \cup {Len(Current.outlines[t])}])
  /\ UNCHANGED <<call, records, workspace>>

-----------------------------------------------------------------------------
(* Calls to providers                                                      *)

Free(s) == call[s] = Idle
Begin(s, c) == Free(s) /\ call' = [call EXCEPT ![s] = c]
End(s) == call' = [call EXCEPT ![s] = Idle]
InFlight(s, kind) == call[s].kind = kind

GenerateOutline(s, t) ==
  /\ Ready(Current) /\ Chartered(Current) /\ t \in Current.intent.targets
  /\ Begin(s, [kind |-> "outline", targets |-> {t}, from |-> <<Number, Charter(Current)>>])
  /\ UNCHANGED <<revisions, records, workspace>>

GenerateOutlineSet(s) ==
  /\ Ready(Current) /\ Chartered(Current) /\ Pending(Current) # {}
  /\ Begin(s, [kind |-> "set", targets |-> Pending(Current), from |-> <<Number, Charter(Current)>>])
  /\ UNCHANGED <<revisions, records, workspace>>

GenerateDraft(s, t) ==
  /\ Ready(Current) /\ Outlined(Current, t) /\ t \in Current.intent.targets
  /\ Begin(s, [kind |-> "draft", targets |-> {t}, from |-> <<Number, Source(Current, t)>>])
  /\ UNCHANGED <<revisions, records, workspace>>

RunResearchRequest(s) ==
  /\ Current.intent.mode = "fresh"
  /\ Begin(s, [kind |-> "research", subject |-> Current.intent.subject])
  /\ UNCHANGED <<revisions, records, workspace>>

\* Mutant of StillChartered: any approved charter will do.
CharteredAnyhow(from) == Chartered(Current)

\* The call lands on the approved charter it was planned from.
StillChartered(from) == Chartered(Current) /\ <<Number, Charter(Current)>> = from

\* buildOutline: what a provider cites is checked against the charter.
NewOutline(list, c, cites) ==
  Append(list, [charter |-> Charter(Current), cites |-> cites, prompted |-> c.from])
Citable == SUBSET Current.charters[Charter(Current)]

\* The plan is made again, gates included, and must be the same.
OutlineLands(s, cites) ==
  /\ InFlight(s, "outline")
  /\ Ready(Current) /\ StillChartered(call[s].from)
  /\ cites \in Citable
  /\ call[s].targets \subseteq Current.intent.targets
  /\ Record(1)
  /\ Store([Current EXCEPT !.outlines =
       [t \in Targets |-> IF t \in call[s].targets THEN NewOutline(@[t], call[s], cites) ELSE @[t]]])
  /\ End(s)
  /\ UNCHANGED workspace

\* The siblings that succeeded, ok; neither the gates nor what the set's targets
\* hold by now are looked at.
SetLands(s, ok, cites) ==
  /\ InFlight(s, "set")
  /\ StillChartered(call[s].from)
  /\ cites \in Citable
  /\ Record(Cardinality(ok))
  /\ Store([Current EXCEPT !.outlines =
       [t \in Targets |-> IF t \in ok THEN NewOutline(@[t], call[s], cites) ELSE @[t]]])
  /\ End(s)
  /\ UNCHANGED workspace

DraftLands(s) ==
  /\ InFlight(s, "draft")
  /\ Ready(Current)
  /\ \A t \in call[s].targets :
       /\ Outlined(Current, t) /\ <<Number, Source(Current, t)>> = call[s].from
       /\ t \in Current.intent.targets
       /\ Store([Current EXCEPT !.drafts[t] = Append(@,
            [outline |-> Source(Current, t), prompted |-> call[s].from])])
  /\ Record(1)
  /\ End(s)
  /\ UNCHANGED workspace

\* What providers found is added to the review, in another revision if this one
\* has a review, a request or more already.
ResearchLands(s, found) ==
  /\ InFlight(s, "research")
  /\ Current.intent.mode = "fresh"
  /\ LET rev == [Built(Current.intent, TRUE, Current.review \cup found)
                   EXCEPT !.request = {call[s].subject}]
         used == Settled(Current) \/ Current.reviewed \/ Current.request # {}
     IN IF used THEN Push(rev) ELSE Store(rev)
  /\ End(s)
  /\ UNCHANGED <<records, workspace>>

\* A provider fails, its answer is refused, the Project changed, or the process
\* died, which leaves nothing but the file.
CallFails(s) ==
  /\ ~Free(s)
  /\ End(s)
  /\ UNCHANGED <<revisions, records, workspace>>

-----------------------------------------------------------------------------
(* The Workspace around the Project                                        *)

\* The connected identity goes or comes back, or becomes another Profile's.
ConnectionChanges ==
  /\ owner' \in (Authors \cup {NoOwner}) \ {owner}
  /\ UNCHANGED <<revisions, call, records, authorized, voiced, brand>>

AuthorizeAuthor(a) ==
  /\ authorized' = authorized \cup {a}
  /\ UNCHANGED <<revisions, call, records, owner, voiced, brand>>

ApproveContentVoice(a) ==
  /\ a = owner \/ a \in authorized
  /\ voiced' = voiced \cup {a}
  /\ UNCHANGED <<revisions, call, records, owner, authorized, brand>>

ConfirmBrand ==
  /\ ~brand /\ brand' = TRUE
  /\ UNCHANGED <<revisions, call, records, owner, authorized, voiced>>

-----------------------------------------------------------------------------
\* create: the owner is the default author.
Init ==
  /\ owner \in Authors
  /\ revisions \in {<<Built(i, FALSE, {})>> : i \in {i \in Intent : i.author = owner}}
  /\ call = [s \in Slots |-> Idle]
  /\ authorized = {} /\ voiced = {} /\ brand = FALSE
  /\ records = 0

Requests ==
  \/ \E i \in Intent : ReviseIntent(i)
  \/ \E S \in SUBSET Items : AttachEvidence(S) \/ FreezeEvidence(S) \/ ProposeOutlineCharter(S)
  \/ \E c \in 1..MaxRecords : ApproveOutlineCharter(c)
  \/ \E t \in Targets : ApproveOutline(t)

Calls(s) ==
  \/ \E t \in Targets : GenerateOutline(s, t) \/ GenerateDraft(s, t)
  \/ GenerateOutlineSet(s) \/ RunResearchRequest(s)

Landings(s) ==
  \/ \E S \in SUBSET Items : OutlineLands(s, S) \/ ResearchLands(s, S)
  \/ InFlight(s, "set") /\ \E ok \in SUBSET call[s].targets, S \in SUBSET Items : SetLands(s, ok, S)
  \/ DraftLands(s) \/ CallFails(s)

Surroundings ==
  \/ ConnectionChanges \/ ConfirmBrand
  \/ \E a \in Authors : AuthorizeAuthor(a) \/ ApproveContentVoice(a)

Next == Requests \/ (\E s \in Slots : Calls(s) \/ Landings(s)) \/ Surroundings

Spec == Init /\ [][Next]_vars

-----------------------------------------------------------------------------
(* Properties                                                              *)

Revision == [intent : Intent, reviewed : BOOLEAN, review : SUBSET Items,
             request : SUBSET Subjects, frozen : BOOLEAN, evidence : SUBSET Items,
             charters : Seq(SUBSET Items), approvals : SUBSET Places,
             outlines : [Targets -> Seq(Outline)], chosen : [Targets -> SUBSET Places],
             drafts : [Targets -> Seq(Draft)]]
Call == {Idle} \cup [kind : {"research"}, subject : Subjects]
        \cup [kind : {"outline", "set", "draft"}, targets : SUBSET Targets, from : Prompt]

\* Every variable holds a value of its type.
TypeOK ==
  /\ revisions \in Seq(Revision) /\ revisions # <<>>
  /\ call \in [Slots -> Call]
  /\ owner \in Authors \cup {NoOwner} /\ brand \in BOOLEAN
  /\ authorized \subseteq Authors /\ voiced \subseteq Authors
  /\ records \in 0..MaxRecords

\* Whatever calls overlapped and whatever changed under them: an Outline cites an
\* approved charter of its own revision, which is the one its provider was
\* given, and only frozen evidence; a Draft likewise descends from an approved
\* Outline of its target, the one its provider was given.
Lineage ==
  \A n \in DOMAIN revisions, t \in Targets :
    LET rev == revisions[n] IN
    /\ \A k \in DOMAIN rev.outlines[t] :
         LET o == rev.outlines[t][k] IN
         /\ o.charter \in rev.approvals /\ o.prompted = <<n, o.charter>>
         /\ rev.frozen /\ o.cites \subseteq rev.evidence
    /\ \A k \in DOMAIN rev.drafts[t] :
         LET d == rev.drafts[t][k] IN
         /\ d.outline \in rev.chosen[t] /\ d.prompted = <<n, d.outline>>

Extends(list, old) == Len(old) <= Len(list) /\ SubSeq(list, 1, Len(old)) = old

\* Nothing that was recorded is ever changed: not a revision that has a
\* successor, and in the last one neither its intent nor frozen evidence, a
\* charter, an Outline, a Draft or an approval.
RecordsStand ==
  [][/\ Len(revisions') >= Number
     /\ \A n \in 1..(Number - 1) : revisions'[n] = revisions[n]
     /\ LET old == Current  new == revisions'[Number] IN
        /\ new.intent = old.intent
        /\ old.frozen => new.frozen /\ new.evidence = old.evidence /\ new.review = old.review
        /\ Extends(new.charters, old.charters) /\ old.approvals \subseteq new.approvals
        /\ \A t \in Targets : /\ Extends(new.outlines[t], old.outlines[t])
                              /\ Extends(new.drafts[t], old.drafts[t])
                              /\ old.chosen[t] \subseteq new.chosen[t]
        /\ new # old => Len(revisions') = Number]_vars

=============================================================================
