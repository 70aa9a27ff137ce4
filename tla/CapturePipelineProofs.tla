----------------------- MODULE CapturePipelineProofs -----------------------
(***************************************************************************)
(* For any number of claims, any tellings and verbs, any faults: the types  *)
(* hold; as long as a page deletion overlaps no other work nothing said is  *)
(* lost, what was retired stays retired and no claim folds into itself; and *)
(* as long as no verb overlaps a round either, closures, wishes and         *)
(* subjects stay with their claim and every trail ends.                     *)
(***************************************************************************)
EXTENDS CapturePipeline, FiniteSetTheorems, WellFoundedInduction, NaturalsInduction, TLAPS

---------------------------------------------------------------------------
(* The inductive invariant.                                                *)

\* A verb in flight names a claim.
EditShape == edit.step # "idle" => edit.target \in Ids

\* An id nobody has been handed has no row, and a fact row that is not there
\* is neither forgotten nor superseded.
Blank ==
    /\ \A i \in Ids : i > minted => ~Buffered(i) /\ ~facts[i].exists
    /\ \A i \in Ids : ~facts[i].exists => ~facts[i].deleted /\ facts[i].by = 0

\* What the round works on was filed; the claims it is screening still wait, and
\* the one it is writing has its fact.
RoundShape ==
    /\ round.todo \subseteq 1..minted
    /\ round.step = "screen" => /\ round.rows \cup round.todo \subseteq Waiting
                                /\ round.rows \cap round.todo = {}
    /\ round.step \in {"stamp", "mark"} => round.cur \in Ids /\ facts[round.cur].exists

\* While a page is being deleted nothing else is in flight, and the facts it
\* has still to move stand as they were listed.
DeletionShape ==
    deletion.step # "idle" =>
        /\ round.step = "idle" /\ edit.step = "idle"
        /\ deletion.ids \subseteq Active
        /\ deletion.step = "commit" => deletion.cur \in Active \ deletion.ids

TypeInv == TypeOK /\ EditShape
Shape == Blank /\ RoundShape /\ DeletionShape
IInv == TypeInv /\ Shape /\ NothingLost

---------------------------------------------------------------------------

\* A non-empty set of naturals has a least element.
LEMMA LeastNatural ==
    ASSUME NEW S \in SUBSET Nat, S # {}
    PROVE  \E m \in S : \A n \in S : m <= n
<1>1. \E m \in S : \A n \in S : <<n, m>> \notin OpToRel(<, Nat)
  BY NatLessThanWellFounded, WFMin
<1>2. PICK m \in S : \A n \in S : <<n, m>> \notin OpToRel(<, Nat)
  BY <1>1
<1>3. \A n \in S : ~(n < m)
  BY <1>2 DEF OpToRel
<1> QED
  BY <1>3

\* The queue has a head: Earliest picks a member of any non-empty set of rows.
LEMMA EarliestIsOne ==
    ASSUME TypeOK, NEW S \in SUBSET Ids, S # {}
    PROVE  Earliest(S) \in S
<1> DEFINE times == {buffer[i].at : i \in S}
<1>1. \A i \in Ids : buffer[i].at \in Nat
  BY DEF TypeOK, BufferRows
<1>2. times \in SUBSET Nat /\ times # {}
  BY <1>1
<1>3. \E m \in times : \A n \in times : m <= n
  BY <1>2, LeastNatural
<1>4. \E i \in S : \A j \in S : buffer[i].at <= buffer[j].at
  BY <1>3
<1> QED
  BY <1>4 DEF Earliest

\* The contents of a row nobody has written are contents.
LEMMA NothingIsContents == Nothing \in Contents
<1>1. {} \in Senders
  BY FS_EmptySet DEF Senders
<1>2. (CHOOSE w \in Words : TRUE) \in Words /\ (CHOOSE m \in Media : TRUE) \in Media
  BY PipelineAssumption
<1> QED
  BY <1>1, <1>2 DEF Nothing, Contents, Kinds, Reasons, Principals

\* captured_at of a new row.
LEMMA NowIsNatural == Now \in Nat
<1> DEFINE filed == {i \in Ids : buffer[i].status # "absent"}
<1>1. IsFiniteSet(Ids)
  BY PipelineAssumption, FS_Interval DEF Ids
<1>2. Cardinality(filed) \in Nat
  BY <1>1, FS_Subset, FS_CardinalityType
<1> QED
  BY <1>2 DEF Now
---------------------------------------------------------------------------
(* The types.                                                              *)

\* Contents with its readers, or its end and its reason, rewritten.
LEMMA ReadersEdited ==
    ASSUME NEW c \in Contents, NEW allow \in SUBSET Principals,
           NEW excluded \in SUBSET Principals
    PROVE  /\ [c EXCEPT !.allow = allow] \in Contents
           /\ [c EXCEPT !.allow = allow, !.excluded = excluded] \in Contents
  BY DEF Contents

LEMMA EndEdited ==
    ASSUME NEW c \in Contents, NEW why \in Reasons
    PROVE  /\ [c EXCEPT !.ended = TRUE, !.why = why] \in Contents
           /\ [c EXCEPT !.why = why] \in Contents
  BY DEF Contents

\* Freezing an audience turns it into people.
LEMMA FrozenArePeople ==
    ASSUME NEW allow \in SUBSET Principals, NEW excluded, excluded # {}, NEW roster \in Rosters
    PROVE  audience_without_the_excluded(allow, excluded, roster) \subseteq Users \cup {Removed}
<1>1. \A p \in Principals : Expand(p, roster) \subseteq Users \cup {Removed}
  BY DEF Expand, Principals, Rosters
<1>2. UNION {Expand(p, roster) : p \in allow \ {Global}} \subseteq Users \cup {Removed}
  BY <1>1
<1> QED
  BY <1>2 DEF audience_without_the_excluded

\* Freezing an audience yields principals.
LEMMA FrozenArePrincipals ==
    ASSUME NEW allow \in SUBSET Principals, NEW excluded, NEW roster \in Rosters
    PROVE  audience_without_the_excluded(allow, excluded, roster) \in SUBSET Principals
<1>1. CASE excluded = {}
  BY <1>1 DEF audience_without_the_excluded
<1>2. CASE excluded # {}
  BY <1>2, FrozenArePeople DEF Principals
<1> QED
  BY <1>1, <1>2

\* A fold leaves rows rows: restrict_to with the readers of either rule.
LEMMA RestrictTypes ==
    ASSUME TypeOK, NEW f \in Ids, NEW readers \in SUBSET Principals,
           NEW excluded \in SUBSET Principals, NEW c \in Contents,
           restrict_to(f, readers, excluded, c)
    PROVE  facts' \in [Ids -> FactRows] /\ kept' \in [Ids -> SUBSET Principals]
<1>1. facts[f] \in FactRows /\ facts[f].c \in Contents /\ facts[f].c.excluded \in SUBSET Principals
  BY DEF TypeOK, FactRows, Contents
<1>2. [facts[f].c EXCEPT !.allow = readers, !.excluded = @ \cup excluded] \in Contents
  BY <1>1, ReadersEdited
<1>3. facts' \in [Ids -> FactRows]
  BY <1>1, <1>2 DEF TypeOK, restrict_to, FactRows
<1>4. kept' \in [Ids -> SUBSET Principals]
  BY DEF TypeOK, restrict_to, Contents
<1> QED
  BY <1>3, <1>4

\* The types hold at the start.
LEMMA TypesStart == Init => TypeInv
<1> SUFFICES ASSUME Init PROVE TypeInv
  OBVIOUS
<1>1. NoCapture \in BufferRows /\ NoFact \in FactRows
  BY NothingIsContents, PipelineAssumption DEF NoCapture, NoFact, BufferRows, FactRows
<1>2. Resting \in Rounds
  BY NothingIsContents, PipelineAssumption DEF Resting, Rounds
<1>3. NoEdit \in Edits /\ NoDeletion \in Deletions
  BY NothingIsContents, PipelineAssumption DEF NoEdit, Edits, NoDeletion, Deletions, Principals
<1> QED
  BY <1>1, <1>2, <1>3, PipelineAssumption DEF Init, TypeInv, TypeOK, EditShape, NoEdit

\* Filing a claim, in the queue or straight through.
LEMMA FilingTypes ==
    ASSUME TypeInv, (\E t \in Tellings : Say(t)) \/ (\E t \in LiveTellings : CaptureLive(t))
    PROVE  TypeInv'
<1> USE DEF TypeInv
<1>1. ASSUME NEW t \in Tellings, Say(t)
      PROVE  TypeInv'
  <2>1. t \in Contents /\ t.excluded \in SUBSET Principals /\ minted + 1 \in Ids
    BY <1>1, PipelineAssumption DEF Contents, Say, TypeOK, Ids
  <2>2. [status |-> "buffered", c |-> t, resolved |-> 0, at |-> Now] \in BufferRows
    BY <2>1, NowIsNatural, PipelineAssumption DEF BufferRows
  <2>3. buffer' \in [Ids -> BufferRows] /\ kept' \in [Ids -> SUBSET Principals]
    BY <1>1, <2>1, <2>2 DEF Say, TypeOK
  <2> QED
    BY <1>1, <2>1, <2>3 DEF Say, TypeOK, EditShape, Ids
<1>2. ASSUME NEW t \in LiveTellings, CaptureLive(t)
      PROVE  TypeInv'
  <2>1. t \in Contents /\ t.excluded \in SUBSET Principals
    BY PipelineAssumption DEF Contents
  <2>2. facts' \in [Ids -> FactRows] /\ kept' \in [Ids -> SUBSET Principals]
        /\ minted' \in 0..MaxClaims /\ faults' \in 0..MaxFaults
    <3>1. ASSUME NEW f \in Fences(t), UNCHANGED <<minted, faults>>,
                 restrict_to(f, frozen_readers(t, facts[f].c, Roster), t.excluded, t)
          PROVE  /\ facts' \in [Ids -> FactRows] /\ kept' \in [Ids -> SUBSET Principals]
                 /\ minted' \in 0..MaxClaims /\ faults' \in 0..MaxFaults
      <4>1. f \in Ids /\ facts[f].c.allow \in SUBSET Principals
        BY <3>1 DEF Fences, Near, Active, TypeOK, FactRows, Contents
      <4>2. frozen_readers(t, facts[f].c, Roster) \in SUBSET Principals
        BY <4>1, FrozenArePrincipals, PipelineAssumption DEF frozen_readers
      <4> QED
        BY <2>1, <3>1, <4>1, <4>2, RestrictTypes DEF TypeOK
    <3>2. ASSUME minted < MaxClaims, minted' = minted + 1,
                 kept' = [kept EXCEPT ![minted + 1] = t.excluded],
                 NEW failed \in BOOLEAN,
                 faults' = faults + IF failed THEN 1 ELSE 0, faults' <= MaxFaults,
                 facts' = [facts EXCEPT ![minted + 1] =
                     [exists |-> TRUE, c |-> t, by |-> 0, deleted |-> failed]]
          PROVE  /\ facts' \in [Ids -> FactRows] /\ kept' \in [Ids -> SUBSET Principals]
                 /\ minted' \in 0..MaxClaims /\ faults' \in 0..MaxFaults
      <4>1. [exists |-> TRUE, c |-> t, by |-> 0, deleted |-> failed] \in FactRows
        BY <2>1, PipelineAssumption DEF FactRows
      <4> QED
        BY <2>1, <3>2, <4>1, PipelineAssumption DEF TypeOK, Ids
    <3> QED
      BY <1>2, <3>1, <3>2 DEF CaptureLive
  <2> QED
    BY <1>2, <2>2 DEF CaptureLive, TypeOK, EditShape
<1> QED
  BY <1>1, <1>2

\* The claim a round has in hand is one it read.
LEMMA HeadTypes ==
    ASSUME TypeOK, round.todo # {}
    PROVE  Next1 \in round.todo /\ Next1 \in Ids /\ Claim \in Contents
           /\ Claim.excluded \in SUBSET Principals
<1>1. round.todo \in SUBSET Ids
  BY DEF TypeOK, Rounds
<1>2. Next1 \in round.todo
  BY <1>1, EarliestIsOne DEF Next1
<1>3. round.snap \in [Ids -> Contents]
  BY DEF TypeOK, Rounds
<1> QED
  BY <1>1, <1>2, <1>3 DEF Claim, Contents

\* Marking a claim as folded, and taking it off the round's list.
LEMMA SkipTypes ==
    ASSUME TypeOK, NEW i \in Ids, NEW into \in Ids, SkipDup(i, into)
    PROVE  buffer' \in [Ids -> BufferRows]
<1>1. [buffer[i] EXCEPT !.status = "skipped_dup", !.resolved = into] \in BufferRows
  <2>1. buffer[i] \in BufferRows /\ into \in 0..MaxClaims
    BY PipelineAssumption DEF TypeOK, Ids
  <2> QED
    BY <2>1 DEF BufferRows
<1> QED
  BY <1>1 DEF TypeOK, SkipDup

LEMMA ScreenedTypes ==
    ASSUME TypeOK, NEW rows \in SUBSET Ids, Screened(rows)
    PROVE  round' \in Rounds
<1>1. round \in Rounds /\ round.todo \ {Next1} \in SUBSET Ids
  BY DEF TypeOK, Rounds
<1>2. round' = [round EXCEPT !.todo = round.todo \ {Next1}, !.rows = rows]
  BY DEF Screened
<1> QED
  BY <1>1, <1>2 DEF Rounds

\* A fold onto a fact, whichever rule chose it.
LEMMA FoldTypes ==
    ASSUME TypeInv, round.todo # {}, NEW f \in Active,
           NEW readers \in SUBSET Principals, NEW excluded \in SUBSET Principals,
           restrict_to(f, readers, excluded, Claim), SkipDup(Next1, f), Screened(round.rows),
           UNCHANGED <<minted, edit, deletion, faults, edits, deletions, closed>>
    PROVE  TypeInv'
<1>1. TypeOK /\ EditShape /\ f \in Ids
  BY DEF TypeInv, Active
<1>2. buffer' \in [Ids -> BufferRows]
  BY <1>1, HeadTypes, SkipTypes
<1>3. facts' \in [Ids -> FactRows] /\ kept' \in [Ids -> SUBSET Principals]
  BY <1>1, HeadTypes, RestrictTypes
<1>4. round' \in Rounds
  BY <1>1, ScreenedTypes DEF TypeOK, Rounds
<1> QED
  BY <1>1, <1>2, <1>3, <1>4 DEF TypeInv, TypeOK, EditShape

\* Screening, up to the plan.
LEMMA ScreeningTypes ==
    ASSUME TypeInv,
           FoldIntoTwin \/ FoldFence \/ FoldCopy \/ FoldAudience \/ Accept \/ ScreenFails
    PROVE  TypeInv'
<1>1. TypeOK /\ EditShape
  BY DEF TypeInv
<1>2. round.todo # {}
  BY DEF FoldIntoTwin, FoldFence, FoldCopy, FoldAudience, Accept, ScreenFails, PastDedup, Screening
<1>3. round.rows \in SUBSET Ids
  BY <1>1 DEF TypeOK, Rounds
<1>4. Next1 \in Ids /\ Claim \in Contents /\ Claim.excluded \in SUBSET Principals
      /\ Claim.allow \in SUBSET Principals
  BY <1>1, <1>2, HeadTypes DEF Contents
<1>5. ASSUME NEW into \in Ids, SkipDup(Next1, into), Screened(round.rows),
             UNCHANGED <<facts, minted, edit, deletion, faults, edits, deletions, closed, kept>>
      PROVE  TypeInv'
  <2>1. buffer' \in [Ids -> BufferRows] /\ round' \in Rounds
    BY <1>1, <1>3, <1>4, <1>5, SkipTypes, ScreenedTypes
  <2> QED
    BY <1>1, <1>5, <2>1 DEF TypeInv, TypeOK, EditShape
<1>6. CASE FoldIntoTwin
  <2>1. Twins(Claim) \in SUBSET Ids /\ Twins(Claim) # {}
    BY <1>3, <1>6 DEF FoldIntoTwin, Twins
  <2>2. Earliest(Twins(Claim)) \in Ids
    BY <1>1, <2>1, EarliestIsOne
  <2> QED
    BY <1>5, <1>6, <2>2 DEF FoldIntoTwin
<1>7. CASE FoldFence
  <2>1. PICK f \in Fences(Claim) :
            /\ restrict_to(f, frozen_readers(Claim, facts[f].c, Roster), Claim.excluded, Claim)
            /\ SkipDup(Next1, f)
    BY <1>7 DEF FoldFence
  <2>2. f \in Active /\ facts[f].c.allow \in SUBSET Principals
    BY <1>1 DEF Fences, Near, Active, TypeOK, FactRows, Contents
  <2>3. frozen_readers(Claim, facts[f].c, Roster) \in SUBSET Principals
    BY <2>2, FrozenArePrincipals, PipelineAssumption DEF frozen_readers
  <2> QED
    BY <1>2, <1>4, <1>7, <2>1, <2>2, <2>3, FoldTypes DEF FoldFence
<1>8. CASE FoldCopy
  BY <1>5, <1>8 DEF FoldCopy, Copies, Near, Active
<1>9. CASE FoldAudience
  <2>1. PICK f \in Kin(Claim) :
            /\ restrict_to(f, settled_readers(Claim, facts[f].c, Roster),
                           settled_excluded(Claim, facts[f].c), Claim)
            /\ SkipDup(Next1, f)
    BY <1>9 DEF FoldAudience
  <2>2. f \in Active /\ facts[f].c.allow \in SUBSET Principals
        /\ facts[f].c.excluded \in SUBSET Principals
    BY <1>1 DEF Kin, Near, Active, TypeOK, FactRows, Contents
  <2>3. settled_excluded(Claim, facts[f].c) \in SUBSET Principals
    BY <1>4, <2>2 DEF settled_excluded
  <2>4. facts[f].c.allow \cup Claim.allow \in SUBSET Principals
    BY <1>4, <2>2
  <2>5. settled_readers(Claim, facts[f].c, Roster) \in SUBSET Principals
    BY <2>4, FrozenArePrincipals, PipelineAssumption DEF settled_readers
  <2> QED
    BY <1>2, <1>9, <2>1, <2>2, <2>3, <2>5, FoldTypes DEF FoldAudience
<1>10. CASE Accept
  <2>1. round' \in Rounds
    BY <1>1, <1>3, <1>4, <1>10, ScreenedTypes DEF Accept
  <2> QED
    BY <1>1, <1>10, <2>1 DEF Accept, TypeInv, TypeOK, EditShape
<1>11. CASE ScreenFails
  <2>1. round' \in Rounds
    BY <1>1, <1>3, <1>11, ScreenedTypes DEF ScreenFails
  <2> QED
    BY <1>1, <1>11, <2>1, PipelineAssumption DEF ScreenFails, TypeInv, TypeOK, EditShape
<1> QED
  BY <1>6, <1>7, <1>8, <1>9, <1>10, <1>11

\* The rest of a round, its start included.
LEMMA WritingTypes ==
    ASSUME TypeInv,
           \/ \E pass \in {"light", "closing"} : StartRound(pass)
           \/ Plan \/ InsertFact \/ StampReason \/ MarkPromoted \/ WriteFails \/ EndRound
    PROVE  TypeInv'
<1>1. TypeOK /\ EditShape /\ round \in Rounds
  BY DEF TypeInv, TypeOK
<1>2. Resting \in Rounds
  BY NothingIsContents, PipelineAssumption DEF Resting, Rounds
<1>3. round.todo \in SUBSET Ids /\ round.rows \in SUBSET Ids
      /\ round.snap \in [Ids -> Contents] /\ round.cur \in 0..MaxClaims
  BY <1>1 DEF Rounds
<1>0. [round EXCEPT !.step = "write", !.cur = 0] \in Rounds
  <2>1. 0 \in 0..MaxClaims
    BY PipelineAssumption
  <2> QED
    BY <1>1, <2>1 DEF Rounds
<1>4. ASSUME NEW pass \in {"light", "closing"}, StartRound(pass)
      PROVE  TypeInv'
  <2> DEFINE read == {i \in Waiting : Cardinality({j \in Waiting : buffer[j].at < buffer[i].at})
                                          < MaxPromotions}
             snap == [i \in Ids |-> IF i \in read THEN buffer[i].c ELSE Nothing]
  <2>1. read \in SUBSET Ids
    BY DEF Waiting
  <2>2. \A i \in Ids : buffer[i].c \in Contents
    BY <1>1 DEF TypeOK, BufferRows
  <2>3. snap \in [Ids -> Contents]
    BY <2>2, NothingIsContents
  <2>4. round' = [Resting EXCEPT !.step = "screen", !.pass = pass, !.todo = read, !.snap = snap]
    BY <1>4 DEF StartRound
  <2> HIDE DEF read, snap
  <2>5. round' \in Rounds
    BY <1>2, <2>1, <2>3, <2>4 DEF Rounds
  <2> QED
    BY <1>1, <1>4, <2>5 DEF StartRound, TypeInv, TypeOK, EditShape
<1>5. CASE Plan
  <2>1. PICK placed \in SUBSET round.rows :
            round' = [round EXCEPT !.step = "write", !.todo = placed]
    BY <1>5 DEF Plan
  <2>2. round' \in Rounds
    BY <1>1, <1>3, <2>1 DEF Rounds
  <2> QED
    BY <1>1, <1>5, <2>2 DEF Plan, TypeInv, TypeOK, EditShape
<1>6. CASE InsertFact
  <2>1. Next1 \in Ids /\ Claim \in Contents /\ Claim = round.snap[Next1]
    BY <1>1, <1>6, HeadTypes DEF InsertFact, Claim
  <2>2. FromCapture(Claim) \in Contents
    BY <2>1, EndEdited DEF FromCapture, Reasons
  <2>3. insert_if_absent(facts[Next1], FromCapture(Claim)) \in FactRows
    BY <1>1, <2>1, <2>2, PipelineAssumption DEF TypeOK, FactRows, insert_if_absent
  <2>4. facts' \in [Ids -> FactRows]
    BY <1>1, <1>6, <2>1, <2>3 DEF InsertFact, TypeOK
  <2>5. Next1 \in 0..MaxClaims
    BY <2>1, PipelineAssumption DEF Ids
  <2>6. round' \in Rounds
    <3>1. PICK step \in {"mark", "stamp"} :
              round' = [round EXCEPT !.step = step, !.todo = round.todo \ {Next1}, !.cur = Next1]
      BY <1>6 DEF InsertFact
    <3>2. round.todo \ {Next1} \in SUBSET Ids
      BY <1>3
    <3> QED
      BY <1>1, <2>5, <3>1, <3>2 DEF Rounds
  <2> QED
    BY <1>1, <1>6, <2>4, <2>6 DEF InsertFact, TypeInv, TypeOK, EditShape
<1>7. CASE StampReason
  <2>1. round' \in Rounds
    BY <1>1, <1>7 DEF StampReason, Rounds
  <2>2. facts' \in [Ids -> FactRows]
    <3>1. ASSUME round.cur \in Ids
          PROVE  facts' \in [Ids -> FactRows]
      <4>1. facts[round.cur] \in FactRows /\ facts[round.cur].c \in Contents
        BY <1>1, <3>1 DEF TypeOK, FactRows
      <4>2. facts[round.cur].c.why \in Reasons /\ round.snap[round.cur].why \in Reasons
        BY <1>3, <3>1, <4>1 DEF Contents
      <4>3. PICK why \in Reasons : facts' = [facts EXCEPT ![round.cur].c.why = why]
        BY <1>7, <4>2 DEF StampReason
      <4>4. [facts[round.cur].c EXCEPT !.why = why] \in Contents
        BY <4>1, EndEdited
      <4> QED
        BY <1>1, <3>1, <4>1, <4>3, <4>4 DEF TypeOK, FactRows
    <3>2. ASSUME round.cur \notin Ids
          PROVE  facts' \in [Ids -> FactRows]
      BY <1>1, <1>7, <3>2 DEF StampReason, TypeOK
    <3> QED
      BY <3>1, <3>2
  <2> QED
    BY <1>1, <1>7, <2>1, <2>2 DEF StampReason, TypeInv, TypeOK, EditShape
<1>8. CASE MarkPromoted
  <2>1. round' \in Rounds
    BY <1>0, <1>8 DEF MarkPromoted
  <2>2. buffer' \in [Ids -> BufferRows]
    <3>1. \A row \in BufferRows :
              [row EXCEPT !.status = "promoted", !.resolved = round.cur] \in BufferRows
      BY <1>3 DEF BufferRows
    <3> QED
      BY <1>1, <1>8, <3>1 DEF MarkPromoted, TypeOK
  <2> QED
    BY <1>1, <1>8, <2>1, <2>2 DEF MarkPromoted, TypeInv, TypeOK, EditShape
<1>9. CASE WriteFails
  <2>1. round' \in Rounds
    <3>1. CASE round' = [round EXCEPT !.todo = round.todo \ {Next1}]
      <4>1. round.todo \ {Next1} \in SUBSET Ids
        BY <1>3
      <4> QED
        BY <1>1, <3>1, <4>1 DEF Rounds
    <3>2. CASE round' = [round EXCEPT !.step = "write", !.cur = 0]
      BY <1>0, <3>2
    <3> QED
      BY <1>9, <3>1, <3>2 DEF WriteFails
  <2> QED
    BY <1>1, <1>9, <2>1, PipelineAssumption DEF WriteFails, TypeInv, TypeOK, EditShape
<1>10. CASE EndRound
  BY <1>1, <1>2, <1>10, PipelineAssumption DEF EndRound, TypeInv, TypeOK, EditShape
<1> QED
  BY <1>4, <1>5, <1>6, <1>7, <1>8, <1>9, <1>10

\* A verb meets the fact store, and misses.
LEMMA MissedTypes ==
    ASSUME NEW v \in Verbs, NEW i \in Ids, NEW s \in Principals, Missed(v, i, s)
    PROVE  edit' \in Edits /\ EditShape'
<1>1. v.kind \in {"close", "reshare", "weld"} /\ v.allow \in SUBSET Principals
      /\ v.excluded \in SUBSET SUBSET Principals
  BY PipelineAssumption
<1>2. i \in 0..MaxClaims /\ 0 \in 0..MaxClaims
  BY PipelineAssumption DEF Ids
<1> QED
  BY <1>1, <1>2 DEF Missed, Edits, EditShape

\* Whoever a verb makes the subject is a principal.
LEMMA SubjectTypes ==
    ASSUME TypeOK, NEW v \in Verbs, NEW i \in Ids
    PROVE  /\ Row(i).subject \in Principals
           /\ NewSubject(v.subject, Row(i).subject) \in Principals
<1>1. v.subject \in SUBSET Principals
  BY PipelineAssumption
<1>2. facts[i].c \in Contents /\ buffer[i].c \in Contents
  BY DEF TypeOK, FactRows, BufferRows
<1>3. Row(i).subject \in Principals
  BY <1>2 DEF Row, Contents
<1> QED
  BY <1>1, <1>3 DEF NewSubject

\* The wish a message states is a list of principals.
LEMMA WishTypes ==
    ASSUME NEW wish \in SUBSET SUBSET Principals, NEW now \in SUBSET Principals
    PROVE  Wish(wish, now) \in SUBSET Principals
  BY DEF Wish

\* A re-share gives a claim another subject, other readers, perhaps other
\* exclusions, and leaves the rest of it as it is.
LEMMA ResharedTypes ==
    ASSUME NEW c \in Contents, NEW s \in Principals, NEW allow \in SUBSET Principals,
           NEW wish \in SUBSET SUBSET Principals
    PROVE  /\ set_acl(c, s, allow, wish) \in Contents
           /\ set_acl(c, s, allow, wish).subject = s
           /\ set_acl(c, s, allow, wish).excluded = Wish(wish, c.excluded)
           /\ set_acl(c, s, allow, wish).ended = c.ended
           /\ set_acl(c, s, allow, wish).why = c.why
           /\ set_acl(c, s, allow, wish).sender = c.sender
<1>1. Wish(wish, c.excluded) \in SUBSET Principals
  BY WishTypes DEF Contents
<1>2. [c EXCEPT !.subject = s] \in Contents
  BY DEF Contents
<1> QED
  BY <1>1, <1>2 DEF set_acl, Contents

\* The verbs that change a claim already filed.
LEMMA VerbTypes ==
    ASSUME TypeInv,
           \E v \in Verbs, i \in Ids : CloseFact(v, i) \/ ReshareFact(v, i) \/ Inherit(v, i)
    PROVE  TypeInv'
<1>1. PICK v \in Verbs, i \in Ids : CloseFact(v, i) \/ ReshareFact(v, i) \/ Inherit(v, i)
  OBVIOUS
<1>2. TypeOK /\ EditShape
  BY DEF TypeInv
<1>3. v.allow \in SUBSET Principals /\ v.excluded \in SUBSET SUBSET Principals
  BY PipelineAssumption
<1>4. facts[i] \in FactRows /\ facts[i].c \in Contents /\ facts[i].c.excluded \in SUBSET Principals
  BY <1>2 DEF TypeOK, FactRows, Contents
<1>5. edits' \in 0..MaxEdits
  BY <1>1, <1>2, PipelineAssumption DEF CloseFact, ReshareFact, Inherit, StartEdit, TypeOK
<1>6. CASE CloseFact(v, i)
  <2>1. CASE Standing(i)
    <3>1. [facts[i].c EXCEPT !.ended = TRUE, !.why = "retracted"] \in Contents
      BY <1>4, EndEdited DEF Reasons
    <3>2. facts' \in [Ids -> FactRows]
      <4>1. facts' = [facts EXCEPT ![i].c.ended = TRUE, ![i].c.why = "retracted"]
        BY <1>6, <2>1 DEF CloseFact
      <4> QED
        BY <1>2, <1>4, <3>1, <4>1 DEF TypeOK, FactRows
    <3> QED
      BY <1>2, <1>5, <1>6, <2>1, <3>2 DEF CloseFact, TypeInv, TypeOK, EditShape
  <2>2. CASE ~Standing(i)
    <3>1. edit' \in Edits /\ EditShape'
      BY <1>2, <1>6, <2>2, MissedTypes, SubjectTypes DEF CloseFact
    <3> QED
      BY <1>2, <1>5, <1>6, <2>2, <3>1 DEF CloseFact, TypeInv, TypeOK
  <2> QED
    BY <2>1, <2>2
<1>7. CASE ReshareFact(v, i)
  <2> DEFINE s == NewSubject(v.subject, Row(i).subject)
  <2>0. IF Standing(i)
        THEN /\ facts' = [facts EXCEPT ![i].c = set_acl(@, s, v.allow, v.excluded)]
             /\ kept' = [kept EXCEPT ![i] = Wish(v.excluded, @)]
             /\ UNCHANGED edit
        ELSE Missed(v, i, s) /\ UNCHANGED <<facts, kept>>
    BY <1>7 DEF ReshareFact
  <2>s. s \in Principals
    BY <1>2, SubjectTypes
  <2> HIDE DEF s
  <2>1. CASE Standing(i)
    <3>1. set_acl(facts[i].c, s, v.allow, v.excluded) \in Contents
      BY <1>3, <1>4, <2>s, ResharedTypes
    <3>3. facts' \in [Ids -> FactRows]
      BY <1>2, <1>4, <2>0, <2>1, <3>1 DEF TypeOK, FactRows
    <3>4. kept' \in [Ids -> SUBSET Principals]
      <4>1. Wish(v.excluded, kept[i]) \in SUBSET Principals
        BY <1>2, <1>3, WishTypes DEF TypeOK
      <4> QED
        BY <1>2, <2>0, <2>1, <4>1 DEF TypeOK
    <3> QED
      BY <1>2, <1>5, <1>7, <2>0, <2>1, <3>3, <3>4 DEF ReshareFact, TypeInv, TypeOK, EditShape
  <2>2. CASE ~Standing(i)
    <3>1. edit' \in Edits /\ EditShape'
      BY <2>0, <2>s, <2>2, MissedTypes
    <3> QED
      BY <1>2, <1>5, <1>7, <2>0, <2>2, <3>1 DEF ReshareFact, TypeInv, TypeOK
  <2> QED
    BY <2>1, <2>2
<1>8. CASE Inherit(v, i)
  <2> DEFINE heirs == Row(i).allow \ {v.by, Global}
  <2>1. minted \in Ids /\ minted \in 0..MaxClaims /\ i \in 0..MaxClaims
    BY <1>2, <1>8, PipelineAssumption DEF Inherit, TypeOK, Ids
  <2>2. heirs \in SUBSET Principals
    BY <1>2, <1>4 DEF Row, TypeOK, BufferRows, Contents
  <2>3. /\ facts' = IF heirs # {} /\ Standing(minted)
                    THEN [facts EXCEPT ![minted].c.allow = heirs] ELSE facts
        /\ buffer' = IF heirs # {} /\ ~Standing(minted)
                     THEN [buffer EXCEPT ![minted].c.allow = heirs] ELSE buffer
        /\ edit' = [NoEdit EXCEPT !.step = "weld", !.kind = "weld", !.target = i,
                                  !.successor = minted]
    BY <1>8 DEF Inherit
  <2> HIDE DEF heirs
  <2>4. facts[minted].c \in Contents /\ buffer[minted].c \in Contents
    BY <1>2, <2>1 DEF TypeOK, FactRows, BufferRows
  <2>5. [facts[minted].c EXCEPT !.allow = heirs] \in Contents
        /\ [buffer[minted].c EXCEPT !.allow = heirs] \in Contents
    BY <2>2, <2>4 DEF Contents
  <2>6. facts' \in [Ids -> FactRows]
    BY <1>2, <2>1, <2>3, <2>5 DEF TypeOK, FactRows
  <2>7. buffer' \in [Ids -> BufferRows]
    BY <1>2, <2>1, <2>3, <2>5 DEF TypeOK, BufferRows
  <2>8. edit' \in Edits /\ EditShape'
    <3>1. edit' = [step |-> "weld", kind |-> "weld", target |-> i, successor |-> minted,
                   subject |-> Removed, allow |-> {}, excluded |-> {}]
      BY <2>3 DEF NoEdit
    <3> QED
      BY <2>1, <3>1 DEF Edits, EditShape, Principals
  <2> QED
    BY <1>2, <1>5, <1>8, <2>6, <2>7, <2>8 DEF Inherit, TypeInv, TypeOK
<1> QED
  BY <1>1, <1>6, <1>7, <1>8

\* A superseded row is a row.
LEMMA SupersededTypes ==
    ASSUME NEW row \in FactRows, NEW j \in 0..MaxClaims
    PROVE  mark_superseded(row, j) \in FactRows
<1> DEFINE c == [row.c EXCEPT !.ended = TRUE, !.why = Contradicted(row.c.why)]
<1>1. row.c \in Contents /\ row.c.why \in Reasons
  BY DEF FactRows, Contents
<1>2. Contradicted(row.c.why) \in Reasons
  BY <1>1 DEF Contradicted, Reasons
<1>3. c \in Contents
  BY <1>1, <1>2, EndEdited
<1>4. mark_superseded(row, j) = [row EXCEPT !.by = j, !.c = c]
  BY DEF mark_superseded
<1> HIDE DEF c
<1> QED
  BY <1>3, <1>4 DEF FactRows

\* The verb in flight lands, in the fact store or in the buffer, or is dropped.
LEMMA LandingTypes ==
    ASSUME TypeInv, Weld \/ EditBuffered \/ DropEdit
    PROVE  TypeInv'
<1>1. TypeOK /\ EditShape /\ edit \in Edits
  BY DEF TypeInv, TypeOK
<1>2. edit.target \in Ids
  BY <1>1 DEF EditShape, Weld, EditBuffered, DropEdit
<1>3. NoEdit \in Edits /\ NoEdit.step = "idle"
  BY PipelineAssumption DEF NoEdit, Edits, Principals
<1>4. edit.subject \in Principals /\ edit.allow \in SUBSET Principals /\ edit.excluded \in SUBSET SUBSET Principals
      /\ edit.successor \in 0..MaxClaims
  BY <1>1 DEF Edits
<1>5. CASE Weld
  <2>1. CASE edit.target \in Active
    <3>1. facts[edit.target] \in FactRows
      BY <1>1, <1>2 DEF TypeOK
    <3>2. mark_superseded(facts[edit.target], edit.successor) \in FactRows
      BY <1>4, <3>1, SupersededTypes
    <3>3. facts' \in [Ids -> FactRows]
      BY <1>1, <1>5, <2>1, <3>2 DEF Weld, TypeOK
    <3> QED
      BY <1>1, <1>3, <1>5, <2>1, <3>3 DEF Weld, TypeInv, TypeOK, EditShape
  <2>2. CASE edit.target \notin Active
    <3>1. edit' = [edit EXCEPT !.step = "missed"]
      BY <1>5, <2>2 DEF Weld
    <3>2. edit' \in Edits /\ EditShape'
      BY <1>1, <1>2, <3>1 DEF Edits, EditShape
    <3> QED
      BY <1>1, <1>5, <2>2, <3>2 DEF Weld, TypeInv, TypeOK
  <2> QED
    BY <2>1, <2>2
<1>6. CASE EditBuffered
  <2> DEFINE i == edit.target
  <2>1. buffer[i] \in BufferRows /\ buffer[i].c \in Contents
    BY <1>1, <1>2 DEF TypeOK, BufferRows
  <2>2. PICK c \in Contents : buffer' = [buffer EXCEPT ![i].c = c]
    <3>1. [buffer[i].c EXCEPT !.ended = TRUE, !.why = "retracted"] \in Contents
          /\ [buffer[i].c EXCEPT !.ended = TRUE, !.why = "contradicted"] \in Contents
      BY <2>1, EndEdited DEF Reasons
    <3>2. set_acl(buffer[i].c, edit.subject, edit.allow, {}) \in Contents
      BY <1>4, <2>1, ResharedTypes
    <3>3. edit.kind \in {"close", "reshare", "weld"}
      BY <1>1 DEF Edits
    <3> QED
      BY <1>6, <3>1, <3>2, <3>3 DEF EditBuffered
  <2>3. buffer' \in [Ids -> BufferRows]
    BY <1>1, <1>2, <2>1, <2>2 DEF TypeOK, BufferRows
  <2>4. closed' \in SUBSET Ids
    BY <1>1, <1>2, <1>6 DEF EditBuffered, TypeOK
  <2>5. kept' \in [Ids -> SUBSET Principals]
    <3>1. Wish(edit.excluded, kept[i]) \in SUBSET Principals
      BY <1>1, <1>2, <1>4, WishTypes DEF TypeOK
    <3> QED
      BY <1>1, <1>2, <1>6, <3>1 DEF EditBuffered, TypeOK
  <2> QED
    BY <1>1, <1>3, <1>6, <2>3, <2>4, <2>5 DEF EditBuffered, TypeInv, TypeOK, EditShape
<1>7. CASE DropEdit
  BY <1>1, <1>3, <1>7 DEF DropEdit, TypeInv, TypeOK, EditShape
<1> QED
  BY <1>5, <1>6, <1>7

\* Forgetting a fact, deleting a page, and dying.
LEMMA RemovalTypes ==
    ASSUME TypeInv,
           \/ \E i \in Ids : Forget(i) \/ DeleteNext(i)
           \/ \E who \in Deleters, ids \in SUBSET Ids, all \in BOOLEAN : StartDelete(who, ids, all)
           \/ Rebuffer \/ EndDelete \/ Crash
    PROVE  TypeInv'
<1>1. TypeOK /\ EditShape /\ deletion \in Deletions
  BY DEF TypeInv, TypeOK
<1>2. deletion.ids \in SUBSET Ids /\ deletion.row \in Contents /\ deletion.cur \in 0..MaxClaims
  BY <1>1 DEF Deletions
<1>3. NoDeletion \in Deletions /\ NoEdit \in Edits /\ NoEdit.step = "idle" /\ Resting \in Rounds
  BY NothingIsContents, PipelineAssumption
     DEF NoEdit, Edits, NoDeletion, Deletions, Principals, Resting, Rounds
<1>4. ASSUME NEW i \in Ids, Forget(i)
      PROVE  TypeInv'
  <2>1. facts' \in [Ids -> FactRows]
    BY <1>1, <1>4 DEF Forget, TypeOK, FactRows
  <2> QED
    BY <1>1, <1>4, <2>1, PipelineAssumption DEF Forget, TypeInv, TypeOK, EditShape
<1>5. ASSUME NEW i \in Ids, DeleteNext(i)
      PROVE  TypeInv'
  <2>1. deletion.ids \ {i} \in SUBSET Ids /\ facts[i] \in FactRows /\ facts[i].c \in Contents
        /\ i \in 0..MaxClaims
    BY <1>1, <1>2, PipelineAssumption DEF TypeOK, FactRows, Ids
  <2>2. [deletion EXCEPT !.ids = deletion.ids \ {i}] \in Deletions
    BY <1>1, <2>1 DEF Deletions
  <2>3. [deletion EXCEPT !.step = "commit", !.ids = deletion.ids \ {i},
                         !.cur = i, !.row = facts[i].c] \in Deletions
    BY <1>1, <2>1 DEF Deletions
  <2>4. deletion' \in Deletions
    BY <1>5, <2>2, <2>3 DEF DeleteNext
  <2>5. facts' \in [Ids -> FactRows]
    <3>1. (facts[i].deleted \/ facts[i].exists) \in BOOLEAN
      OBVIOUS
    <3>2. facts' = facts \/ facts' = [facts EXCEPT ![i].deleted = @ \/ facts[i].exists]
      BY <1>5 DEF DeleteNext
    <3> QED
      BY <1>1, <2>1, <3>1, <3>2 DEF TypeOK, FactRows
  <2> QED
    BY <1>1, <1>5, <2>4, <2>5 DEF DeleteNext, TypeInv, TypeOK, EditShape
<1>6. ASSUME NEW who \in Deleters, NEW ids \in SUBSET Ids, NEW all \in BOOLEAN,
             StartDelete(who, ids, all)
      PROVE  TypeInv'
  <2>1. who \in Principals
    BY PipelineAssumption
  <2>2. deletion' = [NoDeletion EXCEPT !.step = "next", !.who = who, !.ids = ids, !.all = all]
    BY <1>6 DEF StartDelete
  <2>3. deletion' \in Deletions
    BY <1>3, <2>1, <2>2 DEF Deletions
  <2>4. deletions' \in 0..MaxDeletions
    <3>1. deletions \in 0..MaxDeletions /\ deletions < MaxDeletions /\ deletions' = deletions + 1
      BY <1>1, <1>6 DEF StartDelete, TypeOK
    <3> QED
      BY <3>1, PipelineAssumption
  <2> QED
    BY <1>1, <1>6, <2>3, <2>4 DEF StartDelete, TypeInv, TypeOK, EditShape
<1>7. CASE Rebuffer
  <2>1. 0 \in 0..MaxClaims /\ NoFact \in FactRows
    BY NothingIsContents, PipelineAssumption DEF NoFact, FactRows
  <2>2. deletion' \in Deletions
    BY <1>1, <1>7, <2>1, NothingIsContents DEF Rebuffer, Deletions
  <2>3. \A row \in BufferRows : Requeue(row, deletion.row) \in BufferRows
    BY <1>2, <2>1, NowIsNatural DEF Requeue, BufferRows
  <2>4. buffer' \in [Ids -> BufferRows] /\ facts' \in [Ids -> FactRows]
    BY <1>1, <1>7, <2>1, <2>3 DEF Rebuffer, TypeOK
  <2> QED
    BY <1>1, <1>7, <2>2, <2>4 DEF Rebuffer, TypeInv, TypeOK, EditShape
<1>8. CASE EndDelete
  BY <1>1, <1>3, <1>8 DEF EndDelete, TypeInv, TypeOK, EditShape
<1>9. CASE Crash
  BY <1>1, <1>3, <1>9, PipelineAssumption DEF Crash, TypeInv, TypeOK, EditShape
<1> QED
  BY <1>4, <1>5, <1>6, <1>7, <1>8, <1>9

LEMMA TypesStep == TypeInv /\ [Next]_vars => TypeInv'
<1> SUFFICES ASSUME TypeInv, [Next]_vars PROVE TypeInv'
  OBVIOUS
<1>1. CASE UNCHANGED vars
  BY <1>1 DEF vars, TypeInv, TypeOK, EditShape
<1>2. CASE Next
  BY <1>2, FilingTypes, ScreeningTypes, WritingTypes, VerbTypes, LandingTypes, RemovalTypes
     DEF Next, RoundStep
<1> QED
  BY <1>1, <1>2

\* Every row of both stores, and every piece of work in flight, stays what its
\* table and its task say it is, for any claims, verbs, faults and overlap.
THEOREM TypesHold == Spec => []TypeOK
<1>1. TypeInv => TypeOK
  BY DEF TypeInv
<1> QED
  BY TypesStart, TypesStep, <1>1, PTL DEF Spec

---------------------------------------------------------------------------
(* Nothing is lost and what was retired stays retired.                     *)

\* A step that leaves the standing of every fact, and of every claim in the
\* queue, as it was: it may rewrite what a row says and who reads it.
SteadyFacts == \A i \in Ids : /\ facts'[i].exists <=> facts[i].exists
                              /\ facts'[i].deleted <=> facts[i].deleted
                              /\ facts'[i].by = facts[i].by
SteadyQueue == \A i \in Ids : /\ buffer'[i].status = buffer[i].status
                              /\ buffer'[i].resolved = buffer[i].resolved

Accounted(i) == \/ buffer'[i].status = "buffered" \/ facts'[i].exists
                \/ /\ i \in 1..minted
                   /\ ~Lives(i)
                   /\ buffer'[i].resolved = buffer[i].resolved
                \/ \E j \in Ids : buffer'[i].resolved = j /\ Lives(j)'

\* Nothing is lost in a step after which every claim lives, or is gone as it
\* was, or points at one that lives.
LEMMA AllAccounted ==
    ASSUME NothingLost, \A i \in 1..minted' : Accounted(i)
    PROVE  NothingLost'
<1> SUFFICES ASSUME NEW S \in SUBSET (1..minted'), S # {}
             PROVE  \E i \in S : Lives(i)' \/ buffer'[i].resolved \notin S \cup {0}
  BY DEF NothingLost
<1>1. CASE \E i \in S : Lives(i)'
  BY <1>1
<1>2. CASE \E i \in S : \E j \in Ids : buffer'[i].resolved = j /\ Lives(j)'
  <2>1. PICK i \in S, j \in Ids : buffer'[i].resolved = j /\ Lives(j)'
    BY <1>2
  <2>2. j # 0
    BY PipelineAssumption DEF Ids
  <2> QED
    BY <1>1, <2>1, <2>2
<1>3. CASE \A i \in S : i \in 1..minted /\ ~Lives(i) /\ buffer'[i].resolved = buffer[i].resolved
  <2>1. S \in SUBSET (1..minted)
    BY <1>3
  <2>2. PICK i \in S : Lives(i) \/ buffer[i].resolved \notin S \cup {0}
    BY <2>1 DEF NothingLost
  <2> QED
    BY <1>3, <2>2
<1> QED
  BY <1>1, <1>2, <1>3 DEF Accounted, Lives, Buffered

LEMMA SteadyIsSafe ==
    ASSUME TypeOK, Blank, NothingLost, SteadyFacts, SteadyQueue, minted' = minted
    PROVE  /\ Blank' /\ NothingLost' /\ StayRetired
           /\ Active' = Active /\ Waiting' = Waiting
<1>1. Blank'
  BY DEF Blank, SteadyFacts, SteadyQueue, Buffered
<1>2. Active' = Active /\ Waiting' = Waiting
  BY DEF Active, Waiting, Standing, Buffered, SteadyFacts, SteadyQueue
<1>3. \A i \in 1..minted : i \in Ids
  BY PipelineAssumption DEF TypeOK, Ids
<1>4. \A i \in 1..minted' : Accounted(i)
  BY <1>3 DEF Accounted, Lives, Buffered, SteadyFacts, SteadyQueue
<1> QED
  BY <1>1, <1>2, <1>4, AllAccounted DEF StayRetired, SteadyFacts

\* The steps of a round that decide and touch neither store.
LEMMA DecidingIsSafe ==
    ASSUME IInv, "deletion" \in Alone,
           \/ \E pass \in {"light", "closing"} : StartRound(pass)
           \/ Accept \/ ScreenFails \/ Plan \/ WriteFails \/ EndRound
    PROVE  Shape' /\ NothingLost' /\ StayRetired
<1>1. TypeOK /\ Blank /\ RoundShape /\ DeletionShape /\ NothingLost
  BY DEF IInv, TypeInv, Shape
<1>2. UNCHANGED <<buffer, facts, minted, edit, deletion>>
  BY DEF StartRound, Accept, ScreenFails, Plan, WriteFails, EndRound
<1>3. SteadyFacts /\ SteadyQueue
  BY <1>2 DEF SteadyFacts, SteadyQueue
<1>4. Blank' /\ NothingLost' /\ StayRetired /\ Active' = Active /\ Waiting' = Waiting
  BY <1>1, <1>2, <1>3, SteadyIsSafe
<1>5. deletion.step = "idle"
  BY <1>1 DEF DeletionShape, StartRound, MayRound, Accept, PastDedup, ScreenFails, Screening,
              Plan, WriteFails, EndRound
<1>6. DeletionShape'
  BY <1>2, <1>5 DEF DeletionShape
<1>7. round.todo \in SUBSET Ids /\ round.rows \in SUBSET Ids /\ round \in Rounds
  BY <1>1 DEF TypeOK, Rounds
<1>8. ASSUME NEW pass \in {"light", "closing"}, StartRound(pass)
      PROVE  RoundShape'
  <2>1. round'.step = "screen" /\ round'.rows = {} /\ round'.todo \subseteq Waiting
    BY <1>8 DEF StartRound, Resting
  <2>2. Waiting \subseteq 1..minted
    BY <1>1, PipelineAssumption DEF Blank, Waiting, TypeOK, Ids
  <2> QED
    BY <1>2, <1>4, <2>1, <2>2 DEF RoundShape
<1>9. ASSUME Accept PROVE RoundShape'
  <2>1. Next1 \in round.todo /\ round.step = "screen"
    BY <1>1, <1>9, HeadTypes DEF Accept, PastDedup, Screening
  <2>2. PICK rows \in {round.rows, round.rows \cup {Next1}} :
            round' = [round EXCEPT !.todo = round.todo \ {Next1}, !.rows = rows]
    BY <1>9 DEF Accept, Screened
  <2>3. round'.step = "screen" /\ round'.todo = round.todo \ {Next1} /\ round'.rows = rows
    BY <1>7, <2>1, <2>2 DEF Rounds
  <2> QED
    BY <1>1, <1>2, <1>4, <2>1, <2>3 DEF RoundShape
<1>10. ASSUME ScreenFails PROVE RoundShape'
  <2>1. round.step = "screen" /\ round' = [round EXCEPT !.todo = round.todo \ {Next1},
                                                       !.rows = round.rows]
    BY <1>10 DEF ScreenFails, Screening, Screened
  <2>2. round'.step = "screen" /\ round'.todo = round.todo \ {Next1} /\ round'.rows = round.rows
    BY <1>7, <2>1 DEF Rounds
  <2> QED
    BY <1>1, <1>2, <1>4, <2>1, <2>2 DEF RoundShape
<1>11. ASSUME Plan PROVE RoundShape'
  <2>1. round.step = "screen"
    BY <1>11 DEF Plan
  <2>2. PICK placed \in SUBSET round.rows : round' = [round EXCEPT !.step = "write", !.todo = placed]
    BY <1>11 DEF Plan
  <2>3. round'.step = "write" /\ round'.todo = placed
    BY <1>7, <2>2 DEF Rounds
  <2>4. Waiting \subseteq 1..minted
    BY <1>1, PipelineAssumption DEF Blank, Waiting, TypeOK, Ids
  <2> QED
    BY <1>1, <1>2, <2>1, <2>3, <2>4 DEF RoundShape
<1>12. ASSUME WriteFails PROVE RoundShape'
  <2>1. round'.step = "write" /\ round'.todo \subseteq round.todo
    BY <1>7, <1>12 DEF WriteFails, Rounds
  <2> QED
    BY <1>1, <1>2, <2>1 DEF RoundShape
<1>13. ASSUME EndRound PROVE RoundShape'
  <2>1. round'.step = "idle" /\ round'.todo = {}
    BY <1>13 DEF EndRound, Resting
  <2> QED
    BY <2>1 DEF RoundShape
<1> QED
  BY <1>4, <1>6, <1>8, <1>9, <1>10, <1>11, <1>12, <1>13 DEF Shape

\* Rewriting who reads a fact leaves its standing alone.
LEMMA RestrictIsSteady ==
    ASSUME TypeOK, NEW f \in Ids, NEW readers, NEW excluded, NEW c,
           restrict_to(f, readers, excluded, c)
    PROVE  SteadyFacts
  BY DEF TypeOK, restrict_to, SteadyFacts, FactRows

\* A claim is folded into a live fact or into one accepted earlier in the pass,
\* and either of them lives on.
LEMMA FoldingIsSafe ==
    ASSUME IInv, Screening, NEW into \in Active \cup round.rows,
           SkipDup(Next1, into), SteadyFacts, Screened(round.rows),
           UNCHANGED <<minted, edit, deletion>>
    PROVE  Shape' /\ NothingLost' /\ StayRetired
<1>1. TypeOK /\ Blank /\ RoundShape /\ DeletionShape /\ NothingLost
  BY DEF IInv, TypeInv, Shape
<1>2. round \in Rounds /\ round.todo \in SUBSET Ids /\ round.rows \in SUBSET Ids
  BY <1>1 DEF TypeOK, Rounds
<1>3. Next1 \in round.todo /\ Next1 \in Ids /\ into \in Ids /\ round.step = "screen"
  BY <1>1, <1>2, HeadTypes DEF Screening, Active
<1>4. Next1 \in Waiting /\ Next1 \notin round.rows
  BY <1>1, <1>3 DEF RoundShape
<1>5. /\ \A i \in Ids \ {Next1} : buffer'[i] = buffer[i]
      /\ buffer'[Next1].status = "skipped_dup" /\ buffer'[Next1].resolved = into
  BY <1>1, <1>3, <1>4 DEF SkipDup, Waiting, Buffered, TypeOK, BufferRows
<1>6. Lives(into)'
  <2>1. CASE into \in Active
    BY <1>3, <2>1 DEF Active, Standing, Lives, SteadyFacts
  <2>2. CASE into \in round.rows
    BY <1>1, <1>3, <1>4, <1>5, <2>2 DEF RoundShape, Waiting, Lives, Buffered
  <2> QED
    BY <2>1, <2>2
<1>7. \A i \in 1..minted' : Accounted(i)
  <2>1. \A i \in 1..minted : i \in Ids
    BY <1>1, PipelineAssumption DEF TypeOK, Ids
  <2>2. Accounted(Next1)
    BY <1>3, <1>5, <1>6 DEF Accounted
  <2>3. \A i \in 1..minted \ {Next1} : Accounted(i)
    BY <1>5, <2>1 DEF Accounted, Lives, Buffered, SteadyFacts
  <2> QED
    BY <2>2, <2>3
<1>8. Blank'
  BY <1>1, <1>3, <1>4, <1>5 DEF Blank, SteadyFacts, Buffered, Waiting
<1>9. RoundShape'
  <2>1. round' = [round EXCEPT !.todo = round.todo \ {Next1}, !.rows = round.rows]
    BY DEF Screened
  <2>2. round'.step = "screen" /\ round'.todo = round.todo \ {Next1} /\ round'.rows = round.rows
    BY <1>2, <1>3, <2>1 DEF Rounds
  <2>3. Waiting \ {Next1} \subseteq Waiting'
    BY <1>5 DEF Waiting, Buffered
  <2> QED
    BY <1>1, <1>3, <1>4, <2>2, <2>3 DEF RoundShape
<1>10. DeletionShape'
  BY <1>1, <1>3 DEF DeletionShape
<1> QED
  BY <1>1, <1>7, <1>8, <1>9, <1>10, AllAccounted DEF Shape, StayRetired, SteadyFacts

LEMMA FoldsAreSafe ==
    ASSUME IInv, FoldIntoTwin \/ FoldFence \/ FoldCopy \/ FoldAudience
    PROVE  Shape' /\ NothingLost' /\ StayRetired
<1>1. TypeOK /\ round.rows \in SUBSET Ids
  BY DEF IInv, TypeInv, TypeOK, Rounds
<1>2. Screening /\ Screened(round.rows) /\ UNCHANGED <<minted, edit, deletion>>
  BY DEF FoldIntoTwin, FoldFence, FoldCopy, FoldAudience, PastDedup
<1>3. CASE FoldIntoTwin
  <2>1. Twins(Claim) \in SUBSET Ids /\ Twins(Claim) # {}
    BY <1>1, <1>3 DEF FoldIntoTwin, Twins
  <2>2. Earliest(Twins(Claim)) \in round.rows
    BY <1>1, <2>1, EarliestIsOne DEF Twins
  <2>3. SkipDup(Next1, Earliest(Twins(Claim))) /\ SteadyFacts
    BY <1>3 DEF FoldIntoTwin, SteadyFacts
  <2> QED
    BY <1>2, <2>2, <2>3, FoldingIsSafe
<1>4. CASE FoldFence
  <2>1. PICK f \in Fences(Claim) :
            /\ restrict_to(f, frozen_readers(Claim, facts[f].c, Roster), Claim.excluded, Claim)
            /\ SkipDup(Next1, f)
    BY <1>4 DEF FoldFence
  <2>2. f \in Active /\ f \in Ids
    BY DEF Fences, Near, Active
  <2>3. SteadyFacts
    BY <1>1, <2>1, <2>2, RestrictIsSteady
  <2> QED
    BY <1>2, <2>1, <2>2, <2>3, FoldingIsSafe
<1>5. CASE FoldCopy
  <2>1. PICK f \in Copies(Claim) \ {Next1} : SkipDup(Next1, f)
    BY <1>5 DEF FoldCopy
  <2>2. f \in Active /\ SteadyFacts
    BY <1>5 DEF FoldCopy, Copies, Near, SteadyFacts
  <2> QED
    BY <1>2, <2>1, <2>2, FoldingIsSafe
<1>6. CASE FoldAudience
  <2>1. PICK f \in Kin(Claim) :
            /\ restrict_to(f, settled_readers(Claim, facts[f].c, Roster),
                           settled_excluded(Claim, facts[f].c), Claim)
            /\ SkipDup(Next1, f)
    BY <1>6 DEF FoldAudience
  <2>2. f \in Active /\ f \in Ids
    BY DEF Kin, Near, Active
  <2>3. SteadyFacts
    BY <1>1, <2>1, <2>2, RestrictIsSteady
  <2> QED
    BY <1>2, <2>1, <2>2, <2>3, FoldingIsSafe
<1> QED
  BY <1>3, <1>4, <1>5, <1>6

\* Filing a claim gives an unused id a row.
LEMMA FilingIsSafe ==
    ASSUME IInv, (\E t \in Tellings : Say(t)) \/ (\E t \in LiveTellings : CaptureLive(t))
    PROVE  Shape' /\ NothingLost' /\ StayRetired
<1>1. TypeOK /\ Blank /\ RoundShape /\ DeletionShape /\ NothingLost
  BY DEF IInv, TypeInv, Shape
<1>2. minted \in 0..MaxClaims /\ UNCHANGED <<round, edit, deletion>>
  BY <1>1 DEF TypeOK, Say, CaptureLive
<1>3. \A i \in 1..minted : i \in Ids
  BY <1>2, PipelineAssumption DEF Ids
<1>4. ASSUME NEW t, Say(t)
      PROVE  Shape' /\ NothingLost' /\ StayRetired
  <2>1. /\ minted + 1 \in Ids /\ minted' = minted + 1 /\ facts' = facts
        /\ buffer'[minted + 1].status = "buffered"
        /\ \A i \in Ids \ {minted + 1} : buffer'[i] = buffer[i]
    BY <1>1, <1>2, <1>4, PipelineAssumption DEF Say, TypeOK, Ids
  <2>2. \A i \in 1..minted' : Accounted(i)
    <3>1. Accounted(minted + 1)
      BY <2>1 DEF Accounted, Lives, Buffered
    <3>2. \A i \in 1..minted : i \in Ids \ {minted + 1}
      BY <1>2, <1>3
    <3>3. \A i \in 1..minted : Accounted(i)
      BY <2>1, <3>2 DEF Accounted, Lives, Buffered
    <3>4. \A i \in 1..minted' : i \in 1..minted \/ i = minted + 1
      BY <1>2, <2>1
    <3> QED
      BY <3>1, <3>3, <3>4
  <2>3. Blank'
    <3>1. \A i \in Ids : i > minted' => i > minted /\ i # minted + 1
      BY <1>2, <2>1, PipelineAssumption DEF Ids
    <3> QED
      BY <1>1, <2>1, <3>1 DEF Blank, Buffered
  <2>4. Active' = Active /\ Waiting \subseteq Waiting'
    BY <2>1 DEF Active, Standing, Waiting, Buffered
  <2>5. RoundShape' /\ DeletionShape'
    <3>1. 1..minted \subseteq 1..minted'
      BY <1>2, <2>1
    <3> QED
      BY <1>1, <1>2, <2>1, <2>4, <3>1 DEF RoundShape, DeletionShape
  <2> QED
    BY <1>1, <2>1, <2>2, <2>3, <2>5, AllAccounted DEF Shape, StayRetired
<1>5. ASSUME NEW t, CaptureLive(t)
      PROVE  Shape' /\ NothingLost' /\ StayRetired
  <2>1. CASE \E f \in Fences(t) :
               /\ restrict_to(f, frozen_readers(t, facts[f].c, Roster), t.excluded, t)
               /\ UNCHANGED <<minted, faults>>
    <3>1. PICK f \in Fences(t) :
               /\ restrict_to(f, frozen_readers(t, facts[f].c, Roster), t.excluded, t)
               /\ UNCHANGED <<minted, faults>>
      BY <2>1
    <3>2. f \in Ids
      BY DEF Fences, Near, Active
    <3>3. SteadyFacts /\ SteadyQueue /\ minted' = minted
      BY <1>1, <1>5, <3>1, <3>2, RestrictIsSteady DEF SteadyQueue, CaptureLive
    <3>4. Blank' /\ NothingLost' /\ StayRetired /\ Active' = Active /\ Waiting' = Waiting
      BY <1>1, <3>3, SteadyIsSafe
    <3>5. RoundShape' /\ DeletionShape'
      BY <1>1, <1>2, <3>3, <3>4 DEF RoundShape, DeletionShape, SteadyFacts
    <3> QED
      BY <3>4, <3>5 DEF Shape
  <2>2. ASSUME minted < MaxClaims, minted' = minted + 1, NEW failed \in BOOLEAN,
               facts' = [facts EXCEPT ![minted + 1] =
                   [exists |-> TRUE, c |-> t, by |-> 0, deleted |-> failed]]
        PROVE  Shape' /\ NothingLost' /\ StayRetired
    <3>1. /\ minted + 1 \in Ids /\ minted' = minted + 1 /\ buffer' = buffer
          /\ facts'[minted + 1].exists
          /\ \A i \in Ids \ {minted + 1} : facts'[i] = facts[i]
      BY <1>1, <1>2, <1>5, <2>2, PipelineAssumption DEF CaptureLive, TypeOK, Ids
    <3>2. ~facts[minted + 1].exists /\ ~facts[minted + 1].deleted /\ facts[minted + 1].by = 0
      BY <1>1, <1>2, <3>1 DEF Blank
    <3>3. \A i \in 1..minted' : Accounted(i)
      <4>1. Accounted(minted + 1)
        BY <3>1 DEF Accounted, Lives
      <4>2. \A i \in 1..minted : i \in Ids \ {minted + 1}
        BY <1>2, <1>3
      <4>3. \A i \in 1..minted : Accounted(i)
        BY <3>1, <4>2 DEF Accounted, Lives, Buffered
      <4>4. \A i \in 1..minted' : i \in 1..minted \/ i = minted + 1
        BY <1>2, <3>1
      <4> QED
        BY <4>1, <4>3, <4>4
    <3>4. Blank'
      <4>1. \A i \in Ids : i > minted' => i > minted /\ i # minted + 1
        BY <1>2, <3>1, PipelineAssumption DEF Ids
      <4> QED
        BY <1>1, <3>1, <4>1 DEF Blank, Buffered
    <3>5. Active \subseteq Active' /\ Waiting' = Waiting
      BY <3>1, <3>2 DEF Active, Standing, Waiting, Buffered
    <3>6. RoundShape' /\ DeletionShape'
      <4>1. 1..minted \subseteq 1..minted'
        BY <1>2, <3>1
      <4>2. \A i \in Ids : facts[i].exists => facts'[i].exists
        BY <3>1
      <4>3. RoundShape'
        BY <1>1, <1>2, <3>5, <4>1, <4>2 DEF RoundShape
      <4>4. DeletionShape'
        BY <1>1, <1>2, <3>5 DEF DeletionShape
      <4> QED
        BY <4>3, <4>4
    <3>7. StayRetired
      BY <3>1, <3>2 DEF StayRetired
    <3> QED
      BY <1>1, <3>3, <3>4, <3>6, <3>7, AllAccounted DEF Shape
  <2> QED
    BY <1>5, <2>1, <2>2 DEF CaptureLive
<1> QED
  BY <1>4, <1>5

\* write_placed: the fact is there before the claim is marked, and a row that is
\* already there is left as it is.
LEMMA WritingIsSafe ==
    ASSUME IInv, InsertFact \/ StampReason \/ MarkPromoted
    PROVE  Shape' /\ NothingLost' /\ StayRetired
<1>1. TypeOK /\ Blank /\ RoundShape /\ DeletionShape /\ NothingLost
  BY DEF IInv, TypeInv, Shape
<1>2. round \in Rounds /\ minted \in 0..MaxClaims /\ UNCHANGED <<minted, edit, deletion>>
  BY <1>1 DEF TypeOK, InsertFact, StampReason, MarkPromoted
<1>3. \A i \in 1..minted : i \in Ids
  BY <1>2, PipelineAssumption DEF Ids
<1>4. DeletionShape'
  BY <1>1, <1>2 DEF DeletionShape, InsertFact, StampReason, MarkPromoted
<1>5. CASE InsertFact
  <2>1. Next1 \in round.todo /\ Next1 \in Ids /\ Next1 \in 1..minted
    BY <1>1, <1>5, HeadTypes DEF InsertFact, RoundShape
  <2>2. /\ buffer' = buffer
        /\ facts' = [facts EXCEPT ![Next1] = insert_if_absent(@, FromCapture(round.snap[Next1]))]
    BY <1>5 DEF InsertFact
  <2>3. /\ \A i \in Ids \ {Next1} : facts'[i] = facts[i]
        /\ facts'[Next1].exists
        /\ facts[Next1].exists => facts'[Next1] = facts[Next1]
        /\ ~facts[Next1].exists => ~facts'[Next1].deleted /\ facts'[Next1].by = 0
    BY <1>1, <2>1, <2>2 DEF TypeOK, insert_if_absent
  <2>4. Blank'
    BY <1>1, <1>2, <2>1, <2>2, <2>3 DEF Blank, Buffered
  <2>5. \A i \in 1..minted' : Accounted(i)
    BY <1>2, <1>3, <2>2, <2>3 DEF Accounted, Lives, Buffered
  <2>6. StayRetired
    BY <1>1, <2>1, <2>3 DEF Blank, StayRetired
  <2>7. RoundShape'
    <3>1. PICK step \in {"mark", "stamp"} :
              round' = [round EXCEPT !.step = step, !.todo = round.todo \ {Next1}, !.cur = Next1]
      BY <1>5 DEF InsertFact
    <3>2. round'.step = step /\ round'.todo = round.todo \ {Next1} /\ round'.cur = Next1
      BY <1>2, <3>1 DEF Rounds
    <3> QED
      BY <1>1, <1>2, <2>1, <2>3, <3>2 DEF RoundShape
  <2> QED
    BY <1>1, <1>4, <2>4, <2>5, <2>6, <2>7, AllAccounted DEF Shape
<1>6. CASE StampReason
  <2>1. round.cur \in Ids
    BY <1>1, <1>6 DEF StampReason, RoundShape
  <2>2. PICK why : facts' = [facts EXCEPT ![round.cur].c.why = why]
    BY <1>6 DEF StampReason
  <2>3. SteadyFacts /\ SteadyQueue
    BY <1>1, <1>6, <2>1, <2>2 DEF StampReason, SteadyFacts, SteadyQueue, TypeOK, FactRows
  <2>4. Blank' /\ NothingLost' /\ StayRetired
    BY <1>1, <1>2, <2>3, SteadyIsSafe
  <2>5. round'.step = "mark" /\ round'.todo = round.todo /\ round'.cur = round.cur
        /\ round.step = "stamp"
    BY <1>2, <1>6 DEF StampReason, Rounds
  <2>6. RoundShape'
    BY <1>1, <1>2, <2>1, <2>3, <2>5 DEF RoundShape, SteadyFacts
  <2> QED
    BY <1>4, <2>4, <2>6 DEF Shape
<1>7. CASE MarkPromoted
  <2>1. round.cur \in Ids /\ facts[round.cur].exists
    BY <1>1, <1>7 DEF MarkPromoted, RoundShape
  <2>2. /\ facts' = facts
        /\ \A i \in Ids \ {round.cur} : buffer'[i] = buffer[i]
        /\ buffer'[round.cur].status = "buffered" => buffer[round.cur].status = "buffered"
    BY <1>1, <1>7, <2>1 DEF MarkPromoted, TypeOK, BufferRows
  <2>3. Blank'
    BY <1>1, <1>2, <2>2 DEF Blank, Buffered
  <2>4. \A i \in 1..minted' : Accounted(i)
    BY <1>2, <1>3, <2>1, <2>2 DEF Accounted, Lives, Buffered
  <2>5. round'.step = "write" /\ round'.todo = round.todo
    BY <1>2, <1>7 DEF MarkPromoted, Rounds
  <2>6. RoundShape'
    BY <1>1, <1>2, <2>5 DEF RoundShape
  <2> QED
    BY <1>1, <1>4, <2>2, <2>3, <2>4, <2>6, AllAccounted DEF Shape, StayRetired
<1> QED
  BY <1>5, <1>6, <1>7

\* A verb rewrites a row, and a weld retires a live fact and no other.
LEMMA VerbsAreSafe ==
    ASSUME IInv, "deletion" \in Alone,
           \/ \E v \in Verbs, i \in Ids : CloseFact(v, i) \/ ReshareFact(v, i) \/ Inherit(v, i)
           \/ Weld \/ EditBuffered \/ DropEdit
    PROVE  Shape' /\ NothingLost' /\ StayRetired
<1>1. TypeOK /\ Blank /\ RoundShape /\ DeletionShape /\ NothingLost /\ EditShape
  BY DEF IInv, TypeInv, Shape
<1>2. UNCHANGED <<minted, round, deletion>>
  BY DEF CloseFact, ReshareFact, Inherit, Weld, EditBuffered, DropEdit
<1>3. deletion.step = "idle"
  BY <1>1 DEF DeletionShape, CloseFact, ReshareFact, Inherit, StartEdit, MayEdit,
              Weld, EditBuffered, DropEdit
<1>4. DeletionShape'
  BY <1>2, <1>3 DEF DeletionShape
<1>5. ASSUME SteadyFacts, SteadyQueue
      PROVE  Shape' /\ NothingLost' /\ StayRetired
  <2>1. Blank' /\ NothingLost' /\ StayRetired /\ Waiting' = Waiting
    BY <1>1, <1>2, <1>5, SteadyIsSafe
  <2>2. RoundShape'
    BY <1>1, <1>2, <1>5, <2>1 DEF RoundShape, SteadyFacts
  <2> QED
    BY <1>4, <2>1, <2>2 DEF Shape
<1>6. ASSUME NEW v \in Verbs, NEW i \in Ids, CloseFact(v, i)
      PROVE  Shape' /\ NothingLost' /\ StayRetired
  <2>1. \/ facts' = facts
        \/ facts' = [facts EXCEPT ![i].c.ended = TRUE, ![i].c.why = "retracted"]
    BY <1>6 DEF CloseFact
  <2>2. SteadyFacts
    BY <1>1, <2>1 DEF SteadyFacts, TypeOK, FactRows
  <2>3. SteadyQueue
    BY <1>6 DEF SteadyQueue, CloseFact
  <2> QED
    BY <1>5, <2>2, <2>3
<1>7. ASSUME NEW v \in Verbs, NEW i \in Ids, ReshareFact(v, i)
      PROVE  Shape' /\ NothingLost' /\ StayRetired
  <2>1. \/ facts' = facts
        \/ facts' = [facts EXCEPT ![i].c =
                         set_acl(@, NewSubject(v.subject, Row(i).subject), v.allow, v.excluded)]
    BY <1>7 DEF ReshareFact
  <2>2. SteadyFacts
    BY <1>1, <2>1 DEF SteadyFacts, TypeOK, FactRows
  <2>3. SteadyQueue
    BY <1>7 DEF SteadyQueue, ReshareFact
  <2> QED
    BY <1>5, <2>2, <2>3
<1>8. ASSUME NEW v \in Verbs, NEW i \in Ids, Inherit(v, i)
      PROVE  Shape' /\ NothingLost' /\ StayRetired
  <2>1. PICK heirs :
            /\ facts' = facts \/ facts' = [facts EXCEPT ![minted].c.allow = heirs]
            /\ buffer' = buffer \/ buffer' = [buffer EXCEPT ![minted].c.allow = heirs]
    BY <1>8 DEF Inherit
  <2>2. SteadyFacts
    BY <1>1, <2>1 DEF SteadyFacts, TypeOK, FactRows
  <2>3. SteadyQueue
    BY <1>1, <2>1 DEF SteadyQueue, TypeOK, BufferRows
  <2> QED
    BY <1>5, <2>2, <2>3
<1>9. CASE Weld
  <2>1. CASE edit.target \in Active
    <3>1. edit.target \in Ids /\ facts[edit.target].exists /\ ~facts[edit.target].deleted
          /\ facts[edit.target].by = 0
      BY <2>1 DEF Active, Standing
    <3>2. facts' = [facts EXCEPT ![edit.target] = mark_superseded(@, edit.successor)]
          /\ buffer' = buffer
      BY <1>9, <2>1 DEF Weld
    <3>3. /\ \A i \in Ids \ {edit.target} : facts'[i] = facts[i]
          /\ facts'[edit.target].exists /\ ~facts'[edit.target].deleted
      BY <1>1, <3>1, <3>2 DEF TypeOK, FactRows, mark_superseded
    <3>4. Blank'
      BY <1>1, <1>2, <3>1, <3>2, <3>3 DEF Blank, Buffered
    <3>5. \A i \in 1..minted' : Accounted(i)
      <4>1. \A i \in 1..minted : i \in Ids
        BY <1>1, PipelineAssumption DEF TypeOK, Ids
      <4> QED
        BY <1>2, <3>2, <3>3, <4>1 DEF Accounted, Lives, Buffered
    <3>6. StayRetired
      BY <3>1, <3>3 DEF StayRetired
    <3>7. Waiting' = Waiting /\ \A i \in Ids : facts[i].exists => facts'[i].exists
      BY <3>2, <3>3 DEF Waiting, Buffered
    <3>8. RoundShape'
      BY <1>1, <1>2, <3>7 DEF RoundShape
    <3> QED
      BY <1>1, <1>4, <3>4, <3>5, <3>6, <3>8, AllAccounted DEF Shape
  <2>2. CASE edit.target \notin Active
    BY <1>5, <1>9, <2>2 DEF Weld, SteadyFacts, SteadyQueue
  <2> QED
    BY <2>1, <2>2
<1>10. CASE EditBuffered
  <2>1. PICK c : buffer' = [buffer EXCEPT ![edit.target].c = c]
    BY <1>10 DEF EditBuffered
  <2>2. SteadyQueue
    BY <1>1, <2>1 DEF SteadyQueue, TypeOK, BufferRows
  <2> QED
    BY <1>5, <1>10, <2>2 DEF EditBuffered, SteadyFacts
<1>11. CASE DropEdit
  BY <1>5, <1>11 DEF DropEdit, SteadyFacts, SteadyQueue
<1> QED
  BY <1>6, <1>7, <1>8, <1>9, <1>10, <1>11

\* A page deletion that overlaps no other work meets the facts as it listed
\* them: what it sends back to the queue was active, so no retirement is undone.
LEMMA RemovalIsSafe ==
    ASSUME IInv, "deletion" \in Alone,
           \/ \E i \in Ids : Forget(i) \/ DeleteNext(i)
           \/ \E who \in Deleters, ids \in SUBSET Ids, all \in BOOLEAN : StartDelete(who, ids, all)
           \/ Rebuffer \/ EndDelete \/ Crash
    PROVE  Shape' /\ NothingLost' /\ StayRetired
<1>1. TypeOK /\ Blank /\ RoundShape /\ DeletionShape /\ NothingLost
  BY DEF IInv, TypeInv, Shape
<1>2. minted' = minted /\ deletion \in Deletions /\ deletion.ids \in SUBSET Ids
  BY <1>1 DEF TypeOK, Deletions, Forget, DeleteNext, StartDelete, Rebuffer, EndDelete, Crash
<1>3. \A i \in 1..minted : i \in Ids
  BY <1>1, PipelineAssumption DEF TypeOK, Ids
<1>4. ASSUME UNCHANGED <<buffer, facts>>
      PROVE  Blank' /\ NothingLost' /\ StayRetired /\ Active' = Active /\ Waiting' = Waiting
  BY <1>1, <1>2, <1>4, SteadyIsSafe DEF SteadyFacts, SteadyQueue
<1>5. ASSUME NEW i \in Ids, buffer' = buffer, facts[i].exists,
             facts' = [facts EXCEPT ![i].deleted = TRUE]
      PROVE  /\ Blank' /\ NothingLost' /\ StayRetired
             /\ Active' = Active \ {i} /\ Waiting' = Waiting
  <2>1. /\ facts'[i].exists /\ facts'[i].deleted /\ facts'[i].by = facts[i].by
        /\ \A j \in Ids \ {i} : facts'[j] = facts[j]
    BY <1>1, <1>5 DEF TypeOK, FactRows
  <2>2. \A j \in 1..minted' : Accounted(j)
    BY <1>2, <1>3, <1>5, <2>1 DEF Accounted, Lives, Buffered
  <2>3. Blank'
    BY <1>1, <1>2, <1>5, <2>1 DEF Blank, Buffered
  <2>4. Active' = Active \ {i}
    BY <2>1 DEF Active, Standing
  <2> QED
    BY <1>1, <1>5, <2>1, <2>2, <2>3, <2>4, AllAccounted DEF StayRetired, Waiting, Buffered
<1>6. ASSUME NEW i \in Ids, Forget(i)
      PROVE  Shape' /\ NothingLost' /\ StayRetired
  <2>1. deletion.step = "idle" /\ UNCHANGED <<buffer, round, deletion>> /\ facts[i].exists
    BY <1>6 DEF Forget, MayEdit, Standing
  <2>2. facts' = [facts EXCEPT ![i].deleted = TRUE]
    BY <1>6 DEF Forget
  <2>3. Blank' /\ NothingLost' /\ StayRetired /\ Waiting' = Waiting
    BY <1>5, <2>1, <2>2
  <2>4. \A j \in Ids : facts'[j].exists <=> facts[j].exists
    BY <1>1, <2>2 DEF TypeOK, FactRows
  <2>5. RoundShape' /\ DeletionShape'
    BY <1>1, <1>2, <2>1, <2>3, <2>4 DEF RoundShape, DeletionShape
  <2> QED
    BY <2>3, <2>5 DEF Shape
<1>7. ASSUME NEW who, NEW ids \in SUBSET Ids, NEW all \in BOOLEAN,
             StartDelete(who, ids, all)
      PROVE  Shape' /\ NothingLost' /\ StayRetired
  <2>1. /\ UNCHANGED <<buffer, facts, round, edit>>
        /\ round.step = "idle" /\ edit.step = "idle" /\ ids \subseteq Active
        /\ deletion'.step = "next" /\ deletion'.ids = ids
    BY <1>7 DEF StartDelete, MayDelete, Listed, NoDeletion
  <2>2. Blank' /\ NothingLost' /\ StayRetired /\ Active' = Active /\ Waiting' = Waiting
    BY <1>4, <2>1
  <2>3. RoundShape' /\ DeletionShape'
    BY <1>1, <1>2, <2>1, <2>2 DEF RoundShape, DeletionShape
  <2> QED
    BY <2>2, <2>3 DEF Shape
<1>8. ASSUME NEW i \in Ids, DeleteNext(i)
      PROVE  Shape' /\ NothingLost' /\ StayRetired
  <2>1. /\ deletion.step = "next" /\ i \in deletion.ids /\ i \in Active
        /\ UNCHANGED <<buffer, round, edit>>
        /\ round.step = "idle" /\ edit.step = "idle" /\ deletion.ids \subseteq Active
    BY <1>1, <1>8 DEF DeleteNext, DeletionShape
  <2>2. Standing(i) /\ facts[i].exists
    BY <2>1 DEF Active, Standing
  <2>3. CASE ~deletion.all /\ Evacuates(facts[i].c, deletion.who)
    <3>1. /\ facts' = facts
          /\ deletion' = [deletion EXCEPT !.step = "commit", !.ids = deletion.ids \ {i},
                                          !.cur = i, !.row = facts[i].c]
      BY <1>8, <2>2, <2>3 DEF DeleteNext
    <3>2. deletion'.step = "commit" /\ deletion'.ids = deletion.ids \ {i} /\ deletion'.cur = i
      BY <1>2, <3>1 DEF Deletions
    <3>3. Blank' /\ NothingLost' /\ StayRetired /\ Active' = Active /\ Waiting' = Waiting
      BY <1>4, <2>1, <3>1
    <3>4. RoundShape' /\ DeletionShape'
      BY <1>1, <1>2, <2>1, <3>1, <3>2, <3>3 DEF RoundShape, DeletionShape
    <3> QED
      BY <3>3, <3>4 DEF Shape
  <2>4. CASE ~(~deletion.all /\ Evacuates(facts[i].c, deletion.who))
    <3>1. /\ facts' = [facts EXCEPT ![i].deleted = @ \/ facts[i].exists]
          /\ deletion' = [deletion EXCEPT !.ids = deletion.ids \ {i}]
      BY <1>8, <2>4 DEF DeleteNext
    <3>2. facts' = [facts EXCEPT ![i].deleted = TRUE]
      BY <2>2, <3>1
    <3>3. deletion'.step = "next" /\ deletion'.ids = deletion.ids \ {i}
      BY <1>2, <2>1, <3>1 DEF Deletions
    <3>4. Blank' /\ NothingLost' /\ StayRetired /\ Active' = Active \ {i} /\ Waiting' = Waiting
      BY <1>5, <2>1, <2>2, <3>2
    <3>5. RoundShape' /\ DeletionShape'
      BY <1>1, <1>2, <2>1, <3>3, <3>4 DEF RoundShape, DeletionShape
    <3> QED
      BY <3>4, <3>5 DEF Shape
  <2> QED
    BY <2>3, <2>4
<1>9. CASE Rebuffer
  <2>1. /\ UNCHANGED <<round, edit>> /\ round.step = "idle" /\ edit.step = "idle"
        /\ deletion.ids \subseteq Active /\ deletion.cur \in Active \ deletion.ids
    BY <1>1, <1>9 DEF Rebuffer, DeletionShape
  <2>2. deletion.cur \in Ids /\ facts[deletion.cur].exists /\ ~facts[deletion.cur].deleted
        /\ facts[deletion.cur].by = 0
    BY <2>1 DEF Active, Standing
  <2>3. /\ \A i \in Ids \ {deletion.cur} : facts'[i] = facts[i] /\ buffer'[i] = buffer[i]
        /\ facts'[deletion.cur] = NoFact /\ buffer'[deletion.cur].status = "buffered"
    <3>1. Requeue(buffer[deletion.cur], deletion.row).status = "buffered"
      BY <1>1, <2>2 DEF Requeue, TypeOK, BufferRows
    <3> QED
      BY <1>1, <1>9, <2>2, <3>1 DEF Rebuffer, TypeOK
  <2>4. \A i \in 1..minted' : Accounted(i)
    BY <1>2, <1>3, <2>2, <2>3 DEF Accounted, Lives, Buffered
  <2>5. Blank'
    BY <1>1, <1>2, <2>2, <2>3 DEF Blank, Buffered, NoFact
  <2>6. StayRetired
    BY <2>2, <2>3 DEF StayRetired
  <2>7. RoundShape'
    BY <1>1, <1>2, <2>1 DEF RoundShape
  <2>8. deletion'.step = "next" /\ deletion'.ids = deletion.ids
    BY <1>2, <1>9 DEF Rebuffer, Deletions
  <2>9. deletion.ids \subseteq Active'
    BY <2>1, <2>3 DEF Active, Standing
  <2>10. DeletionShape'
    BY <2>1, <2>8, <2>9 DEF DeletionShape
  <2> QED
    BY <1>1, <2>4, <2>5, <2>6, <2>7, <2>10, AllAccounted DEF Shape
<1>10. CASE EndDelete
  <2>1. UNCHANGED <<buffer, facts, round>> /\ deletion'.step = "idle"
    BY <1>10 DEF EndDelete, NoDeletion
  <2>2. Blank' /\ NothingLost' /\ StayRetired /\ Waiting' = Waiting
    BY <1>4, <2>1
  <2>3. RoundShape' /\ DeletionShape'
    BY <1>1, <1>2, <2>1, <2>2 DEF RoundShape, DeletionShape
  <2> QED
    BY <2>2, <2>3 DEF Shape
<1>11. CASE Crash
  <2>1. /\ UNCHANGED <<buffer, facts>> /\ deletion'.step = "idle"
        /\ round'.step = "idle" /\ round'.todo = {}
    BY <1>11 DEF Crash, NoDeletion, Resting
  <2>2. Blank' /\ NothingLost' /\ StayRetired
    BY <1>4, <2>1
  <2>3. RoundShape' /\ DeletionShape'
    BY <2>1 DEF RoundShape, DeletionShape
  <2> QED
    BY <2>2, <2>3 DEF Shape
<1> QED
  BY <1>6, <1>7, <1>8, <1>9, <1>10, <1>11

LEMMA SafeStart == Init => IInv
<1> SUFFICES ASSUME Init PROVE IInv
  OBVIOUS
<1>1. TypeInv
  BY TypesStart
<1>2. Blank
  BY DEF Init, Blank, NoCapture, NoFact, Buffered
<1>3. RoundShape /\ DeletionShape
  BY DEF Init, RoundShape, DeletionShape, Resting, NoDeletion
<1>4. NothingLost
  <2>1. 1..minted = {}
    BY DEF Init
  <2> QED
    BY <2>1 DEF NothingLost
<1> QED
  BY <1>1, <1>2, <1>3, <1>4 DEF IInv, Shape

LEMMA SafeStep ==
    ASSUME "deletion" \in Alone
    PROVE  IInv /\ [Next]_vars => IInv' /\ StayRetired
<1> SUFFICES ASSUME IInv, [Next]_vars PROVE IInv' /\ StayRetired
  OBVIOUS
<1>1. TypeInv'
  BY TypesStep DEF IInv
<1>2. CASE UNCHANGED vars
  <2>1. NothingLost'
    BY <1>2 DEF IInv, vars, NothingLost, Lives, Buffered
  <2>2. Shape'
    BY <1>2 DEF IInv, vars, Shape, Blank, RoundShape, DeletionShape, Active, Standing,
                Waiting, Buffered
  <2>3. StayRetired
    BY <1>2 DEF vars, StayRetired
  <2> QED
    BY <1>1, <2>1, <2>2, <2>3 DEF IInv
<1>3. CASE Next
  <2>1. Shape' /\ NothingLost' /\ StayRetired
    BY <1>3, FilingIsSafe, DecidingIsSafe, FoldsAreSafe, WritingIsSafe, VerbsAreSafe,
       RemovalIsSafe DEF Next, RoundStep
  <2> QED
    BY <1>1, <2>1 DEF IInv
<1> QED
  BY <1>2, <1>3

\* As long as a page deletion overlaps no other work, nothing said is lost: not
\* by a round, a fold, a verb, a forgotten fact, a failed write or a crash,
\* however turns and rounds interleave (write_placed, mark_skipped_dup,
\* rebuffer_fact).
THEOREM NothingSaidIsLost ==
    ASSUME "deletion" \in Alone
    PROVE  Spec => []NothingLost
<1>1. IInv => NothingLost
  BY DEF IInv
<1> QED
  BY SafeStart, SafeStep, <1>1, PTL DEF Spec

\* Under the same proviso a forgotten fact stays forgotten and a superseded one
\* superseded (insert_if_absent, mark_superseded, rebuffer_fact).
THEOREM RetirementIsFinal ==
    ASSUME "deletion" \in Alone
    PROVE  Spec => RetiredFactsStayRetired
<1>1. IInv /\ [Next]_vars => [StayRetired]_vars
  BY SafeStep
<1> QED
  BY SafeStart, SafeStep, <1>1, PTL DEF Spec, RetiredFactsStayRetired

---------------------------------------------------------------------------
(* A claim does not fold into itself.                                      *)

\* An audience written with an exclusion is frozen to the people in it.
IsFrozen(c) ==
    c.excluded # {} => audience_without_the_excluded(c.allow, c.excluded, Roster) = c.allow

\* The row keeps out whom the claim keeps out, and settling the claim's readers
\* onto it would add nobody.
Covers(row, c) ==
    /\ c.excluded \subseteq row.excluded
    /\ IF row.excluded = {} THEN c.allow \subseteq row.allow
       ELSE audience_without_the_excluded(c.allow, row.excluded, Roster)
                \subseteq {row.subject} \cup row.allow

SameReaders(a, b) == a.allow = b.allow /\ a.excluded = b.excluded

\* The claims a round has before it, screened or not: they were filed.
Work == round.todo \cup round.rows
WorkShape == (round.step = "idle" => Work = {}) /\ Work \subseteq 1..minted

\* A claim a partial run already wrote is covered by its own fact.
Own ==
    /\ WorkShape
    /\ \A i \in Work : SameReaders(round.snap[i], buffer[i].c)
    /\ edit.kind = "close" /\ edit.step # "weld"
    /\ IsFrozen(deletion.row)
    /\ \A i \in Ids : IsFrozen(buffer[i].c) /\ IsFrozen(facts[i].c)
    /\ \A i \in Ids : Buffered(i) /\ facts[i].exists => Covers(facts[i].c, buffer[i].c)
    /\ NoClaimFoldsIntoItself

\* What ingest hands over: audience_without_the_excluded has run.
FrozenTellings == \A t \in Tellings \cup LiveTellings : IsFrozen(t)

\* Verbs that only end a claim's validity.
OnlyClosings == \A v \in Verbs : v.kind = "close"

\* Freezing, taken apart: people stay, groups are expanded, and a second
\* exclusion only subtracts.
LEMMA FreezingLaws ==
    ASSUME NEW a \in SUBSET Principals, NEW b \in SUBSET Principals,
           NEW x \in SUBSET Principals, x # {}, NEW y \in SUBSET Principals, x \subseteq y
    PROVE  /\ audience_without_the_excluded(a \cup b, x, Roster)
                = audience_without_the_excluded(a, x, Roster)
                    \cup audience_without_the_excluded(b, x, Roster)
           /\ audience_without_the_excluded(a, y, Roster)
                = audience_without_the_excluded(a, x, Roster) \ y
           /\ audience_without_the_excluded(audience_without_the_excluded(a, x, Roster), y, Roster)
                = audience_without_the_excluded(a, y, Roster)
<1> DEFINE Frozen(s, e) == audience_without_the_excluded(s, e, Roster)
<1>1. y # {} /\ Roster \in Rosters
  BY PipelineAssumption
<1>2. \A s, e : e # {} => Frozen(s, e) = (UNION {Expand(p, Roster) : p \in s \ {Global}}) \ e
  BY DEF audience_without_the_excluded
<1>3. Frozen(a \cup b, x) = Frozen(a, x) \cup Frozen(b, x)
  <2>1. UNION {Expand(p, Roster) : p \in (a \cup b) \ {Global}}
          = (UNION {Expand(p, Roster) : p \in a \ {Global}})
              \cup (UNION {Expand(p, Roster) : p \in b \ {Global}})
    OBVIOUS
  <2> QED
    BY <1>2, <2>1
<1>4. Frozen(a, y) = Frozen(a, x) \ y
  BY <1>1, <1>2
<1>5. Frozen(a, x) \subseteq Users \cup {Removed}
  BY <1>1, FrozenArePeople
<1>6. \A p \in Users \cup {Removed} : p # Global /\ Expand(p, Roster) = {p}
  BY AclAssumption DEF Expand
<1>7. \A s \in SUBSET (Users \cup {Removed}) : UNION {Expand(p, Roster) : p \in s \ {Global}} = s
  <2> SUFFICES ASSUME NEW s \in SUBSET (Users \cup {Removed})
               PROVE  UNION {Expand(p, Roster) : p \in s \ {Global}} = s
    OBVIOUS
  <2>1. \A p \in s : p # Global /\ Expand(p, Roster) = {p}
    BY <1>6
  <2> QED
    BY <2>1
<1>8. Frozen(Frozen(a, x), y) = Frozen(a, x) \ y
  BY <1>1, <1>2, <1>5, <1>7
<1> QED
  BY <1>3, <1>4, <1>8

\* A frozen row that covers a claim neither takes its exclusion nor settles
\* its audience.
LEMMA CoveredIsSettled ==
    ASSUME NEW c \in Contents, NEW row \in Contents, IsFrozen(row), Covers(row, c)
    PROVE  ~takes_exclusion(c, row, Roster) /\ ~carries_audience(c, row, Roster)
<1>1. ~takes_exclusion(c, row, Roster)
  BY DEF takes_exclusion, restricts, Covers
<1>2. settled_excluded(c, row) = row.excluded
  BY DEF settled_excluded, Covers
<1>3. {row.subject} \cup settled_readers(c, row, Roster) = {row.subject} \cup row.allow
  <2>1. CASE row.excluded = {}
    BY <1>2, <2>1 DEF settled_readers, audience_without_the_excluded, Covers
  <2>2. CASE row.excluded # {}
    <3>1. row.allow \in SUBSET Principals /\ c.allow \in SUBSET Principals
          /\ row.excluded \in SUBSET Principals
      BY DEF Contents
    <3>2. settled_readers(c, row, Roster) =
              audience_without_the_excluded(row.allow, row.excluded, Roster)
                \cup audience_without_the_excluded(c.allow, row.excluded, Roster)
      BY <1>2, <2>2, <3>1, FreezingLaws DEF settled_readers
    <3> QED
      BY <2>2, <3>2 DEF IsFrozen, Covers
  <2> QED
    BY <2>1, <2>2
<1>4. ~the_audience_once_settled(c, row, Roster)
  BY <1>2, <1>3 DEF the_audience_once_settled, reader_set
<1> QED
  BY <1>1, <1>4 DEF carries_audience

\* Restricting a row keeps it frozen and keeps what it covers covered.
LEMMA RestrictingCovers ==
    ASSUME NEW row \in Contents, IsFrozen(row), NEW new \in Contents,
           NEW a \in SUBSET Principals, row.allow \subseteq a,
           row.excluded \subseteq new.excluded, new.subject = row.subject,
           new.allow = audience_without_the_excluded(a, new.excluded, Roster)
    PROVE  /\ IsFrozen(new)
           /\ \A c \in Contents : Covers(row, c) => Covers(new, c)
<1> DEFINE x == new.excluded
           Frozen(s, e) == audience_without_the_excluded(s, e, Roster)
<1>1. x \in SUBSET Principals /\ row.allow \in SUBSET Principals /\ row.excluded \in SUBSET Principals
  BY DEF Contents
<1>2. CASE x = {}
  <2>1. new.allow = a /\ row.excluded = {}
    BY <1>2 DEF audience_without_the_excluded
  <2> QED
    BY <1>2, <2>1 DEF IsFrozen, Covers
<1>3. CASE x # {}
  <2>1. IsFrozen(new)
    BY <1>1, <1>3, FreezingLaws DEF IsFrozen
  <2>2. Frozen(row.allow, x) \subseteq new.allow
    <3>1. Frozen(row.allow \cup a, x) = Frozen(row.allow, x) \cup Frozen(a, x)
      BY <1>1, <1>3, FreezingLaws
    <3>2. row.allow \cup a = a
      OBVIOUS
    <3> QED
      BY <3>1, <3>2
  <2>3. ASSUME NEW c \in Contents, Covers(row, c) PROVE Covers(new, c)
    <3>1. c.excluded \subseteq x /\ c.allow \in SUBSET Principals
      BY <2>3 DEF Covers, Contents
    <3>2. CASE row.excluded = {}
      <4>1. c.allow \subseteq row.allow
        BY <2>3, <3>2 DEF Covers
      <4>2. Frozen(c.allow \cup row.allow, x) = Frozen(c.allow, x) \cup Frozen(row.allow, x)
        BY <1>1, <1>3, <3>1, FreezingLaws
      <4>3. c.allow \cup row.allow = row.allow
        BY <4>1
      <4>4. Frozen(c.allow, x) \subseteq Frozen(row.allow, x)
        BY <4>2, <4>3
      <4> QED
        BY <1>3, <2>2, <3>1, <4>4 DEF Covers
    <3>3. CASE row.excluded # {}
      <4>1. Frozen(c.allow, x) = Frozen(c.allow, row.excluded) \ x
        BY <1>1, <3>1, <3>3, FreezingLaws
      <4>2. Frozen(row.allow, x) = Frozen(row.allow, row.excluded) \ x
        BY <1>1, <3>3, FreezingLaws
      <4>3. Frozen(row.allow, row.excluded) = row.allow
        BY <3>3 DEF IsFrozen
      <4>4. Frozen(c.allow, row.excluded) \subseteq {row.subject} \cup row.allow
        BY <2>3, <3>3 DEF Covers
      <4>5. Frozen(c.allow, x) \subseteq {new.subject} \cup new.allow
        BY <2>2, <4>1, <4>2, <4>3, <4>4
      <4> QED
        BY <1>3, <3>1, <4>5 DEF Covers
    <3> QED
      BY <3>2, <3>3
  <2> QED
    BY <2>1, <2>3
<1> QED
  BY <1>2, <1>3

\* A round reads the queue once, at its start, and then only narrows its work.
LEMMA WorkStep ==
    ASSUME IInv, WorkShape, Next
    PROVE  /\ WorkShape'
           /\ \A i \in Work' : \/ i \in Work /\ round'.snap[i] = round.snap[i]
                               \/ round'.snap[i] = buffer[i].c /\ buffer' = buffer
<1>1. TypeOK /\ Blank /\ minted \in 0..MaxClaims
  BY DEF IInv, TypeInv, Shape, TypeOK
<1>2. round \in Rounds /\ round.todo \in SUBSET Ids /\ round.rows \in SUBSET Ids
  BY <1>1 DEF TypeOK, Rounds
<1>3. minted' \in {minted, minted + 1}
  BY DEF Next, RoundStep, Say, CaptureLive, StartRound, FoldIntoTwin, FoldFence, FoldCopy,
         FoldAudience, Accept, ScreenFails, Plan, InsertFact, StampReason, MarkPromoted,
         WriteFails, EndRound, CloseFact, ReshareFact, Inherit, Weld, EditBuffered, DropEdit,
         Forget, StartDelete, DeleteNext, Rebuffer, EndDelete, Crash
<1>4. 1..minted \subseteq 1..minted'
  BY <1>1, <1>3
<1>5. CASE UNCHANGED round
  BY <1>4, <1>5 DEF WorkShape, Work
<1>6. ASSUME round'.todo \subseteq round.todo \cup round.rows,
             round'.rows \subseteq round.todo \cup round.rows,
             round'.snap = round.snap, round'.step # "idle"
      PROVE  /\ WorkShape'
             /\ \A i \in Work' : i \in Work /\ round'.snap[i] = round.snap[i]
  BY <1>4, <1>6 DEF WorkShape, Work
<1>7. ASSUME NEW pass \in {"light", "closing"}, StartRound(pass)
      PROVE  /\ WorkShape'
             /\ \A i \in Work' : round'.snap[i] = buffer[i].c /\ buffer' = buffer
  <2>1. /\ buffer' = buffer /\ round'.rows = {} /\ round'.todo \subseteq Waiting
        /\ round'.step = "screen" /\ \A i \in round'.todo : round'.snap[i] = buffer[i].c
    BY <1>7 DEF StartRound, Resting, Waiting
  <2>2. Waiting \subseteq 1..minted
    BY <1>1, PipelineAssumption DEF Blank, Waiting, TypeOK, Ids
  <2> QED
    BY <1>4, <2>1, <2>2 DEF WorkShape, Work
<1>8. ASSUME NEW rows, Screening, Screened(rows), rows \in {round.rows, round.rows \cup {Next1}}
      PROVE  /\ WorkShape'
             /\ \A i \in Work' : i \in Work /\ round'.snap[i] = round.snap[i]
  <2>1. Next1 \in round.todo /\ round.step = "screen"
    BY <1>1, <1>8, HeadTypes DEF Screening
  <2>2. round' = [round EXCEPT !.todo = round.todo \ {Next1}, !.rows = rows]
    BY <1>8 DEF Screened
  <2>3. /\ round'.todo = round.todo \ {Next1} /\ round'.rows = rows
        /\ round'.snap = round.snap /\ round'.step = "screen"
    BY <1>2, <2>1, <2>2 DEF Rounds
  <2> QED
    BY <1>6, <1>8, <2>1, <2>3
<1>9. CASE FoldIntoTwin \/ FoldFence \/ FoldCopy \/ FoldAudience \/ Accept \/ ScreenFails
  <2>1. Screening /\ (Screened(round.rows) \/ Screened(round.rows \cup {Next1}))
    BY <1>9 DEF FoldIntoTwin, FoldFence, FoldCopy, FoldAudience, Accept, ScreenFails, PastDedup
  <2> QED
    BY <1>8, <2>1
<1>10. CASE Plan
  <2>1. PICK placed \in SUBSET round.rows : round' = [round EXCEPT !.step = "write", !.todo = placed]
    BY <1>10 DEF Plan
  <2> QED
    BY <1>2, <1>6, <2>1 DEF Rounds
<1>11. CASE InsertFact \/ StampReason \/ MarkPromoted \/ WriteFails
  <2>1. /\ round'.todo \subseteq round.todo /\ round'.rows = round.rows
        /\ round'.snap = round.snap /\ round'.step # "idle"
    BY <1>2, <1>11 DEF InsertFact, StampReason, MarkPromoted, WriteFails, Rounds
  <2> QED
    BY <1>6, <2>1
<1>12. CASE EndRound \/ Crash
  <2>1. round'.todo = {} /\ round'.rows = {}
    BY <1>12 DEF EndRound, Crash, Resting
  <2> QED
    BY <2>1 DEF WorkShape, Work
<1>13. CASE \/ (\E t \in Tellings : Say(t)) \/ (\E t \in LiveTellings : CaptureLive(t))
            \/ \E v \in Verbs, i \in Ids : CloseFact(v, i) \/ ReshareFact(v, i) \/ Inherit(v, i)
            \/ Weld \/ EditBuffered \/ DropEdit
            \/ \E i \in Ids : Forget(i) \/ DeleteNext(i)
            \/ \E who \in Deleters, ids \in SUBSET Ids, all \in BOOLEAN : StartDelete(who, ids, all)
            \/ Rebuffer \/ EndDelete
  <2>1. UNCHANGED round
    BY <1>13 DEF Say, CaptureLive, CloseFact, ReshareFact, Inherit, Weld, EditBuffered, DropEdit,
                 Forget, DeleteNext, StartDelete, Rebuffer, EndDelete
  <2> QED
    BY <1>5, <2>1
<1> QED
  BY <1>7, <1>9, <1>10, <1>11, <1>12, <1>13 DEF Next, RoundStep

\* A step that leaves every row its readers and folds no claim into itself.
SteadyReaders ==
    /\ \A i \in Ids : SameReaders(buffer'[i].c, buffer[i].c) /\ SameReaders(facts'[i].c, facts[i].c)
    /\ \A i \in Ids : facts'[i].c.subject = facts[i].c.subject
    /\ \A i \in Ids : Buffered(i)' /\ facts'[i].exists => Buffered(i) /\ facts[i].exists
    /\ \A i \in Ids : buffer'[i].status = "skipped_dup" =>
          \/ buffer'[i].resolved # i
          \/ buffer[i].status = "skipped_dup" /\ buffer[i].resolved = i
    /\ edit'.kind = "close" /\ edit'.step # "weld"
    /\ IsFrozen(deletion'.row)

LEMMA SteadyReadersOwn ==
    ASSUME IInv, Own, Next, SteadyReaders
    PROVE  Own'
<1>1. WorkShape
  BY DEF Own
<1>2. Work \subseteq Ids /\ Work' \subseteq Ids
  <2>1. TypeInv /\ TypeInv'
    BY TypesStep DEF IInv
  <2> QED
    BY <2>1 DEF TypeInv, TypeOK, Rounds, Work
<1>3. WorkShape' /\ \A i \in Work' : SameReaders(round'.snap[i], buffer'[i].c)
  BY <1>1, <1>2, WorkStep DEF Own, SteadyReaders, SameReaders
<1>4. \A i \in Ids : IsFrozen(buffer'[i].c) /\ IsFrozen(facts'[i].c)
  BY DEF Own, SteadyReaders, SameReaders, IsFrozen
<1>5. \A i \in Ids : Buffered(i)' /\ facts'[i].exists => Covers(facts'[i].c, buffer'[i].c)
  BY DEF Own, SteadyReaders, SameReaders, Covers
<1>6. NoClaimFoldsIntoItself'
  BY DEF Own, SteadyReaders, NoClaimFoldsIntoItself
<1> QED
  BY <1>3, <1>4, <1>5, <1>6 DEF Own, SteadyReaders

\* The steps that touch no audience.
LEMMA QuietOwn ==
    ASSUME IInv, Own, Next, OnlyClosings,
           \/ \E pass \in {"light", "closing"} : StartRound(pass)
           \/ Accept \/ ScreenFails \/ Plan \/ StampReason \/ MarkPromoted \/ WriteFails \/ EndRound
           \/ \E v \in Verbs, i \in Ids : CloseFact(v, i) \/ ReshareFact(v, i) \/ Inherit(v, i)
           \/ Weld \/ EditBuffered \/ DropEdit
           \/ \E i \in Ids : Forget(i) \/ DeleteNext(i)
           \/ \E who \in Deleters, ids \in SUBSET Ids, all \in BOOLEAN : StartDelete(who, ids, all)
           \/ EndDelete \/ Crash
    PROVE  Own'
<1>1. TypeOK /\ edit.kind = "close" /\ edit.step # "weld" /\ IsFrozen(deletion.row)
  BY DEF IInv, TypeInv, Own
<1>2. IsFrozen(Nothing)
  BY DEF IsFrozen, Nothing
<1>3. \A j \in Ids : facts[j] \in FactRows /\ facts[j].c \in Contents
                     /\ buffer[j] \in BufferRows /\ buffer[j].c \in Contents
  BY <1>1 DEF TypeOK, FactRows, BufferRows
<1>4. ASSUME edit'.kind = "close", edit'.step # "weld", IsFrozen(deletion'.row),
             \A j \in Ids : /\ SameReaders(buffer'[j].c, buffer[j].c)
                            /\ buffer'[j].status = buffer[j].status
                            /\ buffer'[j].resolved = buffer[j].resolved,
             \A j \in Ids : /\ SameReaders(facts'[j].c, facts[j].c)
                            /\ facts'[j].c.subject = facts[j].c.subject
                            /\ facts'[j].exists = facts[j].exists
      PROVE  Own'
  BY <1>4, SteadyReadersOwn DEF SteadyReaders, Buffered
<1>5. CASE \/ \E pass \in {"light", "closing"} : StartRound(pass)
           \/ Accept \/ ScreenFails \/ Plan \/ WriteFails \/ EndRound
  <2>1. UNCHANGED <<buffer, facts, edit, deletion>>
    BY <1>5 DEF StartRound, Accept, ScreenFails, Plan, WriteFails, EndRound
  <2> QED
    BY <1>1, <1>4, <2>1 DEF SameReaders
<1>6. CASE StampReason
  <2>1. PICK why : facts' = [facts EXCEPT ![round.cur].c.why = why]
    BY <1>6 DEF StampReason
  <2>2. \A j \in Ids : /\ SameReaders(facts'[j].c, facts[j].c)
                       /\ facts'[j].c.subject = facts[j].c.subject
                       /\ facts'[j].exists = facts[j].exists
    BY <1>1, <2>1 DEF TypeOK, FactRows, Contents, SameReaders
  <2>3. UNCHANGED <<buffer, edit, deletion>>
    BY <1>6 DEF StampReason
  <2> QED
    BY <1>1, <1>4, <2>2, <2>3 DEF SameReaders
<1>7. CASE MarkPromoted
  <2>1. \A i \in Ids : \/ buffer'[i] = buffer[i]
                       \/ buffer'[i].status = "promoted" /\ buffer'[i].c = buffer[i].c
    BY <1>1, <1>7 DEF MarkPromoted, TypeOK, BufferRows
  <2>2. UNCHANGED <<facts, edit, deletion>>
    BY <1>7 DEF MarkPromoted
  <2> QED
    BY <1>1, <2>1, <2>2, SteadyReadersOwn DEF SteadyReaders, SameReaders, Buffered
<1>8. ASSUME NEW v \in Verbs, NEW i \in Ids, CloseFact(v, i) \/ ReshareFact(v, i) \/ Inherit(v, i)
      PROVE  Own'
  <2>1. CloseFact(v, i)
    BY <1>8 DEF OnlyClosings, ReshareFact, Inherit
  <2>2. v.kind = "close" /\ UNCHANGED <<buffer, deletion>>
    BY <2>1 DEF CloseFact
  <2>3. edit'.kind = "close" /\ edit'.step # "weld"
    BY <1>1, <2>1, <2>2 DEF CloseFact, Missed, NoEdit
  <2>4. facts' = facts \/ facts' = [facts EXCEPT ![i].c.ended = TRUE, ![i].c.why = "retracted"]
    BY <2>1 DEF CloseFact
  <2>5. \A j \in Ids : /\ SameReaders(facts'[j].c, facts[j].c)
                       /\ facts'[j].c.subject = facts[j].c.subject
                       /\ facts'[j].exists = facts[j].exists
    BY <1>1, <2>4 DEF TypeOK, FactRows, Contents, SameReaders
  <2> QED
    BY <1>1, <1>4, <2>2, <2>3, <2>5 DEF SameReaders
<1>9. CASE EditBuffered
  <2> DEFINE i == edit.target
             c == [buffer[i].c EXCEPT !.ended = TRUE, !.why = "retracted"]
  <2>1. facts' = facts /\ deletion' = deletion /\ edit' = NoEdit
        /\ buffer' = [buffer EXCEPT ![i].c = c]
    BY <1>1, <1>9 DEF EditBuffered
  <2>2. \A j \in Ids : /\ SameReaders(buffer'[j].c, buffer[j].c)
                       /\ buffer'[j].status = buffer[j].status
                       /\ buffer'[j].resolved = buffer[j].resolved
    BY <1>1, <2>1 DEF TypeOK, BufferRows, Contents, SameReaders
  <2>3. edit'.kind = "close" /\ edit'.step # "weld"
    BY <2>1 DEF NoEdit
  <2> QED
    BY <1>1, <1>4, <2>1, <2>2, <2>3 DEF SameReaders
<1>10. CASE Weld
  BY <1>1, <1>10 DEF Weld
<1>11. CASE DropEdit
  <2>1. UNCHANGED <<buffer, facts, deletion>> /\ edit'.kind = "close" /\ edit'.step # "weld"
    BY <1>11 DEF DropEdit, NoEdit
  <2> QED
    BY <1>1, <1>4, <2>1 DEF SameReaders
<1>12. ASSUME NEW i \in Ids, Forget(i) PROVE Own'
  <2>1. \A j \in Ids : facts'[j].exists = facts[j].exists /\ facts'[j].c = facts[j].c
    BY <1>1, <1>12 DEF Forget, TypeOK, FactRows
  <2>2. UNCHANGED <<buffer, edit, deletion>>
    BY <1>12 DEF Forget
  <2> QED
    BY <1>1, <1>4, <2>1, <2>2 DEF SameReaders
<1>13. ASSUME NEW i \in Ids, DeleteNext(i) PROVE Own'
  <2>1. facts' = facts \/ facts' = [facts EXCEPT ![i].deleted = @ \/ facts[i].exists]
    BY <1>13 DEF DeleteNext
  <2>2. \A j \in Ids : facts'[j].exists = facts[j].exists /\ facts'[j].c = facts[j].c
    BY <1>1, <2>1 DEF TypeOK, FactRows
  <2>3. deletion'.row \in {deletion.row, facts[i].c}
    BY <1>1, <1>13 DEF DeleteNext, TypeOK, Deletions
  <2>4. IsFrozen(deletion'.row)
    BY <1>1, <2>3 DEF Own
  <2>5. UNCHANGED <<buffer, edit>>
    BY <1>13 DEF DeleteNext
  <2> QED
    BY <1>1, <1>4, <2>2, <2>4, <2>5 DEF SameReaders
<1>14. ASSUME NEW who, NEW ids, NEW all, StartDelete(who, ids, all) PROVE Own'
  <2>1. UNCHANGED <<buffer, facts, edit>> /\ deletion'.row = Nothing
    BY <1>14 DEF StartDelete, NoDeletion
  <2> QED
    BY <1>1, <1>2, <1>4, <2>1 DEF SameReaders
<1>15. CASE EndDelete \/ Crash
  <2>1. /\ UNCHANGED <<buffer, facts>> /\ deletion'.row = Nothing
        /\ edit'.kind = "close" /\ edit'.step # "weld"
    BY <1>1, <1>15 DEF EndDelete, Crash, NoDeletion, NoEdit
  <2> QED
    BY <1>2, <1>4, <2>1 DEF SameReaders
<1> QED
  BY <1>5, <1>6, <1>7, <1>8, <1>9, <1>10, <1>11, <1>12, <1>13, <1>14, <1>15

\* A row restricted by a fold of any other claim, or by its own turn.
LEMMA RestrictedOwn ==
    ASSUME TypeOK, TypeOK', Own, NEW f \in Ids, NEW a \in SUBSET Principals, facts[f].c.allow \subseteq a,
           NEW x \in SUBSET Principals, NEW c, facts[f].c.excluded \subseteq x,
           restrict_to(f, audience_without_the_excluded(a, x, Roster), x, c)
    PROVE  /\ \A i \in Ids : IsFrozen(facts'[i].c)
           /\ \A i \in Ids : facts'[i].exists = facts[i].exists
           /\ \A i \in Ids : \A d \in Contents : Covers(facts[i].c, d) => Covers(facts'[i].c, d)
<1>1. /\ facts[f].c \in Contents /\ facts'[f].c \in Contents
      /\ \A i \in Ids \ {f} : facts'[i] = facts[i]
      /\ facts'[f].exists = facts[f].exists
      /\ facts'[f].c.subject = facts[f].c.subject
      /\ facts'[f].c.allow = audience_without_the_excluded(a, x, Roster)
      /\ facts'[f].c.excluded = facts[f].c.excluded \cup x
  <2>1. facts \in [Ids -> FactRows] /\ facts' \in [Ids -> FactRows]
    BY DEF TypeOK
  <2>2. PICK r : /\ r = audience_without_the_excluded(a, x, Roster)
                 /\ facts' = [facts EXCEPT ![f].c.allow = r, ![f].c.excluded = @ \cup x]
    BY DEF restrict_to
  <2>3. /\ \A i \in Ids \ {f} : facts'[i] = facts[i]
        /\ facts'[f] = [facts[f] EXCEPT !.c.allow = r, !.c.excluded = @ \cup x]
    BY <2>1, <2>2
  <2>4. facts[f] \in FactRows /\ facts'[f] \in FactRows /\ facts[f].c \in Contents /\ facts'[f].c \in Contents
    BY <2>1 DEF FactRows
  <2>5. /\ facts'[f].exists = facts[f].exists
        /\ facts'[f].c.subject = facts[f].c.subject
        /\ facts'[f].c.allow = r
        /\ facts'[f].c.excluded = facts[f].c.excluded \cup x
    BY <2>3, <2>4 DEF FactRows, Contents
  <2> QED
    BY <2>2, <2>3, <2>4, <2>5
<1>2. facts'[f].c.excluded = x
  BY <1>1
<1>3. /\ IsFrozen(facts'[f].c)
      /\ \A d \in Contents : Covers(facts[f].c, d) => Covers(facts'[f].c, d)
  BY <1>1, <1>2, RestrictingCovers DEF Own
<1> QED
  BY <1>1, <1>3 DEF Own

\* A fold: into a twin, or onto a fact that is not the claim's own.
LEMMA FoldingOwn ==
    ASSUME IInv, Own, Next, TypeOK', Screening, NEW f \in Ids, f # Next1,
           SkipDup(Next1, f), Screened(round.rows),
           \A i \in Ids : IsFrozen(facts'[i].c),
           \A i \in Ids : facts'[i].exists = facts[i].exists,
           \A i \in Ids : \A d \in Contents : Covers(facts[i].c, d) => Covers(facts'[i].c, d),
           UNCHANGED <<edit, deletion>>
    PROVE  Own'
<1>1. TypeOK /\ WorkShape /\ Next1 \in Ids
  BY HeadTypes DEF IInv, TypeInv, Own, Screening
<1>2. \A i \in Ids : \/ buffer'[i] = buffer[i]
                     \/ /\ i = Next1 /\ buffer'[i].c = buffer[i].c
                        /\ buffer'[i].status = "skipped_dup" /\ buffer'[i].resolved = f
  BY <1>1 DEF SkipDup, TypeOK, BufferRows
<1>3. \A i \in Ids : buffer[i].c \in Contents
  BY <1>1 DEF TypeOK, BufferRows
<1>4. Work' \subseteq Ids
  BY DEF TypeOK, Rounds, Work
<1>5. WorkShape' /\ \A i \in Work' : SameReaders(round'.snap[i], buffer'[i].c)
  BY <1>1, <1>2, <1>4, WorkStep DEF Own, SameReaders
<1>6. \A i \in Ids : IsFrozen(buffer'[i].c)
  BY <1>2 DEF Own
<1>7. \A i \in Ids : Buffered(i)' /\ facts'[i].exists => Covers(facts'[i].c, buffer'[i].c)
  BY <1>2, <1>3 DEF Own, Buffered
<1>8. NoClaimFoldsIntoItself'
  BY <1>2 DEF Own, NoClaimFoldsIntoItself
<1> QED
  BY <1>5, <1>6, <1>7, <1>8 DEF Own

LEMMA FoldsOwn ==
    ASSUME IInv, Own, Next, FoldIntoTwin \/ FoldFence \/ FoldCopy \/ FoldAudience
    PROVE  Own'
<1>1. TypeInv /\ TypeInv' /\ TypeOK /\ TypeOK'
  BY TypesStep DEF IInv, TypeInv
<1>2. Screening /\ Screened(round.rows) /\ UNCHANGED <<edit, deletion>>
  BY DEF FoldIntoTwin, FoldFence, FoldCopy, FoldAudience, PastDedup
<1>3. /\ Next1 \in round.todo /\ Next1 \in Ids /\ Claim \in Contents
      /\ Next1 \in Waiting /\ Next1 \notin round.rows
  BY <1>1, <1>2, HeadTypes DEF IInv, Shape, RoundShape, Screening
<1>4. SameReaders(Claim, buffer[Next1].c)
  BY <1>3 DEF Own, Work, Claim
<1>5. facts[Next1].exists => ~takes_exclusion(Claim, facts[Next1].c, Roster)
                             /\ ~carries_audience(Claim, facts[Next1].c, Roster)
  <2> SUFFICES ASSUME facts[Next1].exists
               PROVE  ~takes_exclusion(Claim, facts[Next1].c, Roster)
                      /\ ~carries_audience(Claim, facts[Next1].c, Roster)
    OBVIOUS
  <2>1. facts[Next1].c \in Contents /\ IsFrozen(facts[Next1].c)
    BY <1>1, <1>3 DEF TypeOK, FactRows, Own
  <2>2. Covers(facts[Next1].c, Claim)
    BY <1>3, <1>4 DEF Own, Waiting, Covers, SameReaders
  <2> QED
    BY <1>3, <2>1, <2>2, CoveredIsSettled
<1>6. Claim.allow \in SUBSET Principals /\ Claim.excluded \in SUBSET Principals
  BY <1>3 DEF Contents
<1>7. \A f \in Active : /\ f \in Ids /\ facts[f].exists /\ facts[f].c.allow \in SUBSET Principals
                        /\ facts[f].c.excluded \in SUBSET Principals
  BY <1>1 DEF Active, Standing, TypeOK, FactRows, Contents
<1>8. CASE FoldIntoTwin
  <2>1. Twins(Claim) \in SUBSET Ids /\ Twins(Claim) # {}
    BY <1>1, <1>8 DEF FoldIntoTwin, Twins, TypeOK, Rounds
  <2>2. Earliest(Twins(Claim)) \in round.rows /\ Earliest(Twins(Claim)) \in Ids
    BY <1>1, <2>1, EarliestIsOne DEF Twins
  <2>3. SkipDup(Next1, Earliest(Twins(Claim))) /\ facts' = facts
    BY <1>8 DEF FoldIntoTwin
  <2>4. Earliest(Twins(Claim)) # Next1
    BY <1>3, <2>2
  <2> QED
    BY <1>1, <1>2, <2>2, <2>3, <2>4, FoldingOwn DEF Own
<1>9. CASE FoldFence
  <2>1. PICK f \in Fences(Claim) :
            /\ restrict_to(f, frozen_readers(Claim, facts[f].c, Roster), Claim.excluded, Claim)
            /\ SkipDup(Next1, f)
    BY <1>9 DEF FoldFence
  <2>2. f \in Active /\ takes_exclusion(Claim, facts[f].c, Roster)
    BY DEF Fences, Near
  <2>3. f # Next1 /\ facts[f].c.excluded \subseteq Claim.excluded
    BY <1>5, <1>7, <2>2 DEF takes_exclusion, restricts
  <2>4. /\ \A i \in Ids : IsFrozen(facts'[i].c)
        /\ \A i \in Ids : facts'[i].exists = facts[i].exists
        /\ \A i \in Ids : \A d \in Contents : Covers(facts[i].c, d) => Covers(facts'[i].c, d)
    BY <1>1, <1>6, <1>7, <2>1, <2>2, <2>3, RestrictedOwn DEF frozen_readers
  <2> QED
    BY <1>1, <1>2, <1>7, <2>1, <2>2, <2>3, <2>4, FoldingOwn
<1>10. CASE FoldCopy
  <2>1. PICK f \in Copies(Claim) \ {Next1} : SkipDup(Next1, f)
    BY <1>10 DEF FoldCopy
  <2>2. f \in Ids /\ f # Next1 /\ facts' = facts
    BY <1>10 DEF FoldCopy, Copies, Near, Active
  <2> QED
    BY <1>1, <1>2, <2>1, <2>2, FoldingOwn DEF Own
<1>11. CASE FoldAudience
  <2>1. PICK f \in Kin(Claim) :
            /\ carries_audience(Claim, facts[f].c, Roster)
            /\ restrict_to(f, settled_readers(Claim, facts[f].c, Roster),
                           settled_excluded(Claim, facts[f].c), Claim)
            /\ SkipDup(Next1, f)
    BY <1>11 DEF FoldAudience
  <2>2. f \in Active
    BY DEF Kin, Near
  <2>3. f # Next1 /\ facts[f].c.excluded \subseteq settled_excluded(Claim, facts[f].c)
        /\ settled_excluded(Claim, facts[f].c) \in SUBSET Principals
    BY <1>5, <1>6, <1>7, <2>1, <2>2 DEF settled_excluded
  <2>4. facts[f].c.allow \cup Claim.allow \in SUBSET Principals
    BY <1>6, <1>7, <2>2
  <2>5. restrict_to(f, audience_without_the_excluded(facts[f].c.allow \cup Claim.allow,
                           settled_excluded(Claim, facts[f].c), Roster),
                    settled_excluded(Claim, facts[f].c), Claim)
    BY <2>1 DEF settled_readers
  <2>6. /\ \A i \in Ids : IsFrozen(facts'[i].c)
        /\ \A i \in Ids : facts'[i].exists = facts[i].exists
        /\ \A i \in Ids : \A d \in Contents : Covers(facts[i].c, d) => Covers(facts'[i].c, d)
    BY <1>1, <1>7, <2>2, <2>3, <2>4, <2>5, RestrictedOwn
  <2> QED
    BY <1>1, <1>2, <1>7, <2>1, <2>2, <2>3, <2>6, FoldingOwn
<1> QED
  BY <1>8, <1>9, <1>10, <1>11

\* Filing, promoting, and sending back to the queue.
LEMMA MovingOwn ==
    ASSUME IInv, Own, Next, "deletion" \in Alone, FrozenTellings,
           \/ (\E t \in Tellings : Say(t)) \/ (\E t \in LiveTellings : CaptureLive(t))
           \/ InsertFact \/ Rebuffer
    PROVE  Own'
<1>1. TypeInv /\ TypeInv' /\ TypeOK /\ TypeOK' /\ Blank /\ WorkShape /\ RoundShape /\ DeletionShape
  BY TypesStep DEF IInv, TypeInv, Own, Shape
<1>2. minted \in 0..MaxClaims /\ Work' \subseteq Ids
  BY <1>1 DEF TypeOK, Rounds, Work
<1>3. ASSUME \A i \in 1..minted : buffer'[i].c = buffer[i].c
      PROVE  WorkShape' /\ \A i \in Work' : SameReaders(round'.snap[i], buffer'[i].c)
  BY <1>1, <1>3, WorkStep DEF Own, WorkShape, SameReaders
<1>4. ASSUME NEW t \in Tellings, Say(t) PROVE Own'
  <2> DEFINE n == minted + 1
  <2>1. n \in Ids /\ UNCHANGED <<facts, edit, deletion>> /\ ~facts[n].exists
    BY <1>1, <1>2, <1>4, PipelineAssumption DEF Say, Ids, Blank
  <2>2. /\ \A i \in Ids \ {n} : buffer'[i] = buffer[i]
        /\ buffer'[n].c = t /\ buffer'[n].status = "buffered"
    BY <1>1, <1>4, <2>1 DEF Say, TypeOK
  <2>3. \A i \in 1..minted : i \in Ids \ {n}
    BY <1>2, PipelineAssumption DEF Ids
  <2>4. IsFrozen(t)
    BY DEF FrozenTellings
  <2> HIDE DEF n
  <2>5. \A i \in Ids : IsFrozen(buffer'[i].c)
    BY <2>2, <2>4 DEF Own
  <2>6. \A i \in Ids : Buffered(i)' /\ facts'[i].exists => Covers(facts'[i].c, buffer'[i].c)
    BY <2>1, <2>2 DEF Own, Buffered
  <2>7. NoClaimFoldsIntoItself'
    BY <2>2 DEF Own, NoClaimFoldsIntoItself
  <2> QED
    BY <1>3, <2>1, <2>2, <2>3, <2>5, <2>6, <2>7 DEF Own
<1>5. ASSUME NEW t \in LiveTellings, CaptureLive(t) PROVE Own'
  <2>1. UNCHANGED <<buffer, edit, deletion>>
    BY <1>5 DEF CaptureLive
  <2>2. t \in Contents /\ t.excluded \in SUBSET Principals /\ IsFrozen(t)
    BY PipelineAssumption DEF Contents, FrozenTellings
  <2>3. CASE \E f \in Fences(t) : restrict_to(f, frozen_readers(t, facts[f].c, Roster), t.excluded, t)
    <3>1. PICK f \in Fences(t) : restrict_to(f, frozen_readers(t, facts[f].c, Roster), t.excluded, t)
      BY <2>3
    <3>2. f \in Ids /\ facts[f].c.excluded \subseteq t.excluded
      BY DEF Fences, Near, Active, takes_exclusion, restricts
    <3>3. facts[f].c.allow \in SUBSET Principals
      BY <1>1, <3>2 DEF TypeOK, FactRows, Contents
    <3>4. /\ \A i \in Ids : IsFrozen(facts'[i].c)
          /\ \A i \in Ids : facts'[i].exists = facts[i].exists
          /\ \A i \in Ids : \A d \in Contents : Covers(facts[i].c, d) => Covers(facts'[i].c, d)
      BY <1>1, <2>2, <3>1, <3>2, <3>3, RestrictedOwn DEF frozen_readers
    <3>5. \A i \in Ids : buffer[i].c \in Contents
      BY <1>1 DEF TypeOK, BufferRows
    <3>6. \A i \in Ids : Buffered(i)' /\ facts'[i].exists => Covers(facts'[i].c, buffer'[i].c)
      BY <2>1, <3>4, <3>5 DEF Own, Buffered
    <3>7. NoClaimFoldsIntoItself'
      BY <2>1 DEF Own, NoClaimFoldsIntoItself
    <3> QED
      BY <1>3, <2>1, <3>4, <3>6, <3>7 DEF Own
  <2>4. ASSUME minted < MaxClaims, NEW failed \in BOOLEAN,
               facts' = [facts EXCEPT ![minted + 1] =
                   [exists |-> TRUE, c |-> t, by |-> 0, deleted |-> failed]]
        PROVE  Own'
    <3> DEFINE n == minted + 1
    <3>1. n \in Ids
      BY <1>2, <2>4, PipelineAssumption DEF Ids
    <3>2. ~Buffered(n)
      BY <1>1, <1>2, <3>1 DEF Blank
    <3>3. facts'[n].c = t /\ \A i \in Ids \ {n} : facts'[i] = facts[i]
      BY <1>1, <2>4, <3>1 DEF TypeOK
    <3> HIDE DEF n
    <3>4. \A i \in Ids : IsFrozen(facts'[i].c)
      BY <2>2, <3>3 DEF Own
    <3>5. \A i \in Ids : Buffered(i)' /\ facts'[i].exists => Covers(facts'[i].c, buffer'[i].c)
      BY <2>1, <3>2, <3>3 DEF Own, Buffered
    <3>6. NoClaimFoldsIntoItself'
      BY <2>1 DEF Own, NoClaimFoldsIntoItself
    <3> QED
      BY <1>3, <2>1, <3>4, <3>5, <3>6 DEF Own
  <2> QED
    BY <1>5, <2>3, <2>4 DEF CaptureLive
<1>6. CASE InsertFact
  <2> DEFINE i == Next1
             c == round.snap[i]
  <2>1. i \in round.todo /\ i \in Ids /\ c \in Contents /\ UNCHANGED <<buffer, edit, deletion>>
    BY <1>1, <1>6, HeadTypes DEF InsertFact, Claim
  <2>2. SameReaders(c, buffer[i].c) /\ IsFrozen(buffer[i].c)
    BY <2>1 DEF Own, Work
  <2>3. /\ \A j \in Ids \ {i} : facts'[j] = facts[j]
        /\ facts'[i] = insert_if_absent(facts[i], FromCapture(c))
    BY <1>1, <1>6, <2>1 DEF InsertFact, TypeOK
  <2>4. SameReaders(FromCapture(c), buffer[i].c)
    BY <2>1, <2>2 DEF FromCapture, SameReaders, Contents
  <2>5. facts[i].exists => facts'[i] = facts[i]
    BY <2>3 DEF insert_if_absent
  <2>6. ~facts[i].exists => SameReaders(facts'[i].c, buffer[i].c)
    BY <2>3, <2>4 DEF insert_if_absent
  <2> HIDE DEF i, c
  <2>7. ~facts[i].exists => IsFrozen(facts'[i].c) /\ Covers(facts'[i].c, buffer[i].c)
    BY <2>2, <2>6 DEF SameReaders, IsFrozen, Covers
  <2>8. \A j \in Ids : IsFrozen(facts'[j].c)
    BY <2>3, <2>5, <2>7 DEF Own
  <2>9. \A j \in Ids : Buffered(j)' /\ facts'[j].exists => Covers(facts'[j].c, buffer'[j].c)
    BY <2>1, <2>3, <2>5, <2>7 DEF Own, Buffered
  <2>10. NoClaimFoldsIntoItself'
    BY <2>1 DEF Own, NoClaimFoldsIntoItself
  <2> QED
    BY <1>3, <2>1, <2>8, <2>9, <2>10 DEF Own
<1>7. CASE Rebuffer
  <2> DEFINE i == deletion.cur
  <2>1. round.step = "idle" /\ i \in Ids /\ UNCHANGED <<round, edit>>
    BY <1>1, <1>7 DEF Rebuffer, DeletionShape, Active
  <2>2. Work' = {}
    BY <1>1, <2>1 DEF WorkShape, Work
  <2>3. \A j \in Ids \ {i} : facts'[j] = facts[j] /\ buffer'[j] = buffer[j]
    BY <1>1, <1>7 DEF Rebuffer, TypeOK
  <2>4. facts'[i] = NoFact /\ buffer'[i] = Requeue(buffer[i], deletion.row)
    BY <1>1, <1>7, <2>1 DEF Rebuffer, TypeOK
  <2>5. buffer'[i].c \in {buffer[i].c, deletion.row} /\ buffer'[i].status = "buffered"
    BY <1>1, <2>1, <2>4 DEF Requeue, TypeOK, BufferRows
  <2>6. ~facts'[i].exists /\ facts'[i].c.excluded = {}
    BY <2>4 DEF NoFact, Nothing
  <2>7. IsFrozen(deletion'.row)
    <3>1. deletion'.row = Nothing
      BY <1>1, <1>7 DEF Rebuffer, TypeOK, Deletions
    <3> QED
      BY <3>1 DEF IsFrozen, Nothing
  <2> HIDE DEF i
  <2>8. \A j \in Ids : IsFrozen(facts'[j].c) /\ IsFrozen(buffer'[j].c)
    BY <2>3, <2>5, <2>6 DEF Own, IsFrozen
  <2>9. \A j \in Ids : Buffered(j)' /\ facts'[j].exists => Covers(facts'[j].c, buffer'[j].c)
    BY <2>3, <2>6 DEF Own, Buffered
  <2>10. NoClaimFoldsIntoItself'
    BY <2>3, <2>5 DEF Own, NoClaimFoldsIntoItself
  <2>11. WorkShape'
    BY <1>1, WorkStep
  <2> QED
    BY <2>1, <2>2, <2>7, <2>8, <2>9, <2>10, <2>11 DEF Own
<1> QED
  BY <1>4, <1>5, <1>6, <1>7

\* A claim a partial run already wrote is never folded into its own fact by the
\* pass that finishes the job, after any number of crashes, failed writes and
\* page deletions, as long as the only verbs close claims: the fact was written
\* with the claim's readers and folds of other claims only add to them, so the
\* claim settles nothing on it (screen_one, write_placed, restrict_to).
THEOREM NothingFoldsIntoItself ==
    ASSUME "deletion" \in Alone, OnlyClosings, FrozenTellings
    PROVE  Spec => []NoClaimFoldsIntoItself
<1>1. Init => Own
  <2> SUFFICES ASSUME Init PROVE Own
    OBVIOUS
  <2>1. WorkShape /\ Work = {}
    BY DEF Init, WorkShape, Work, Resting
  <2>2. IsFrozen(Nothing)
    BY DEF IsFrozen, Nothing
  <2>3. \A i \in Ids : buffer[i] = NoCapture /\ facts[i] = NoFact
    BY DEF Init
  <2> QED
    BY <2>1, <2>2, <2>3 DEF Init, Own, NoCapture, NoFact, NoEdit, NoDeletion, Buffered,
                            NoClaimFoldsIntoItself
<1>2. ASSUME IInv, Own, [Next]_vars PROVE Own'
  <2>1. CASE UNCHANGED vars
    BY <1>2, <2>1 DEF vars, Own, WorkShape, Work, Buffered, NoClaimFoldsIntoItself
  <2>2. CASE Next
    BY <1>2, <2>2, QuietOwn, FoldsOwn, MovingOwn DEF Next, RoundStep
  <2> QED
    BY <1>2, <2>1, <2>2
<1>3. Own => NoClaimFoldsIntoItself
  BY DEF Own
<1> QED
  BY <1>1, <1>2, <1>3, SafeStart, SafeStep, PTL DEF Spec

---------------------------------------------------------------------------
(* Verbs and page deletions on their own.                                  *)

\* The round holds the rows as the queue has them, and what it has still to
\* write waits; no verb is in flight beside it.
Fresh ==
    /\ WorkShape
    /\ round.step # "idle" => edit.step = "idle"
    /\ \A i \in Work : round.snap[i] = buffer[i].c
    /\ round.todo \subseteq Waiting
    /\ round.step \in {"stamp", "mark"} => round.cur \notin round.todo

\* A verb that missed the fact store names a claim that waits, or one whose fact
\* is gone.
Missing ==
    /\ edit.step # "idle" => edit.target \in 1..minted
    /\ edit.step = "weld" =>
          edit.target \in Active \/ Buffered(edit.target) \/ ~Standing(edit.target)
    /\ edit.step = "missed" =>
          ~Standing(edit.target) \/ (Buffered(edit.target) /\ facts[edit.target].by # 0)

Serial == "edit" \in Alone /\ "deletion" \in Alone

\* What may happen beside a verb in flight, and beside a round.
LEMMA BesideAVerb ==
    ASSUME Serial, IInv, Fresh, edit.step # "idle", Next
    PROVE  /\ round.step = "idle" /\ Work = {}
           /\ \/ (\E t \in Tellings : Say(t)) \/ (\E t \in LiveTellings : CaptureLive(t))
              \/ Weld \/ EditBuffered \/ DropEdit
              \/ \E i \in Ids : Forget(i)
              \/ Crash
<1>1. round.step = "idle" /\ Work = {}
  BY DEF Fresh, WorkShape
<1>2. deletion.step = "idle"
  BY DEF IInv, Shape, DeletionShape
<1>3. ~(\E pass \in {"light", "closing"} : StartRound(pass))
  BY DEF StartRound, MayRound, Serial
<1>4. ~RoundStep
  BY <1>1 DEF RoundStep, FoldIntoTwin, FoldFence, FoldCopy, FoldAudience, Accept, ScreenFails,
              PastDedup, Screening, Plan, InsertFact, StampReason, MarkPromoted, WriteFails, EndRound
<1>5. ~(\E v \in Verbs, i \in Ids : CloseFact(v, i) \/ ReshareFact(v, i) \/ Inherit(v, i))
  BY DEF CloseFact, ReshareFact, Inherit, StartEdit
<1>6. ~(\E who \in Deleters, ids \in SUBSET Ids, all \in BOOLEAN : StartDelete(who, ids, all))
  BY DEF StartDelete, MayDelete, Serial
<1>7. ~(\E i \in Ids : DeleteNext(i)) /\ ~Rebuffer /\ ~EndDelete
  BY <1>2 DEF DeleteNext, Rebuffer, EndDelete
<1> QED
  BY <1>1, <1>3, <1>4, <1>5, <1>6, <1>7 DEF Next

LEMMA BesideARound ==
    ASSUME Serial, IInv, Fresh, round.step # "idle", Next
    PROVE  /\ edit.step = "idle"
           /\ \/ (\E t \in Tellings : Say(t)) \/ (\E t \in LiveTellings : CaptureLive(t))
              \/ RoundStep \/ Crash
<1>1. edit.step = "idle" /\ deletion.step = "idle"
  BY DEF Fresh, IInv, Shape, DeletionShape
<1>2. ~(\E pass \in {"light", "closing"} : StartRound(pass))
  BY DEF StartRound
<1>3. ~(\E v \in Verbs, i \in Ids : CloseFact(v, i) \/ ReshareFact(v, i) \/ Inherit(v, i))
      /\ ~Weld /\ ~EditBuffered /\ ~DropEdit /\ ~(\E i \in Ids : Forget(i))
  BY <1>1 DEF CloseFact, ReshareFact, Inherit, StartEdit, MayEdit, Weld, EditBuffered, DropEdit,
              Forget, Serial
<1>4. ~(\E who \in Deleters, ids \in SUBSET Ids, all \in BOOLEAN : StartDelete(who, ids, all))
  BY DEF StartDelete, MayDelete, Serial
<1>5. ~(\E i \in Ids : DeleteNext(i)) /\ ~Rebuffer /\ ~EndDelete
  BY <1>1 DEF DeleteNext, Rebuffer, EndDelete
<1> QED
  BY <1>1, <1>2, <1>3, <1>4, <1>5 DEF Next

\* Filing leaves the claims already filed as they are.
LEMMA FilingKeeps ==
    ASSUME IInv, (\E t \in Tellings : Say(t)) \/ (\E t \in LiveTellings : CaptureLive(t))
    PROVE  /\ UNCHANGED <<round, edit, deletion, closed>>
           /\ \A i \in 1..minted : /\ i \in Ids /\ buffer'[i] = buffer[i]
                                   /\ facts'[i].exists = facts[i].exists
                                   /\ facts'[i].deleted = facts[i].deleted
                                   /\ facts'[i].by = facts[i].by
                                   /\ facts'[i].c.ended = facts[i].c.ended
           /\ 1..minted \subseteq 1..minted'
           /\ minted' \in 0..MaxClaims
<1>1. TypeOK /\ Blank /\ minted \in 0..MaxClaims
  BY DEF IInv, TypeInv, Shape, TypeOK
<1>2. UNCHANGED <<round, edit, deletion, closed>>
  BY DEF Say, CaptureLive
<1>3. TypeOK'
  <2>1. Next
    BY DEF Next
  <2> QED
    BY <2>1, TypesStep DEF IInv, TypeInv
<1>4. minted' \in 0..MaxClaims
  BY <1>3 DEF TypeOK
<1>5. minted' \in {minted, minted + 1}
  BY DEF Say, CaptureLive
<1>6. \A i \in 1..minted : i \in Ids /\ i # minted + 1
  BY <1>1, PipelineAssumption DEF Ids
<1>7. \A i \in 1..minted : buffer'[i] = buffer[i]
  BY <1>1, <1>6 DEF Say, CaptureLive, TypeOK
<1>8. ASSUME NEW i \in 1..minted
      PROVE  /\ facts'[i].exists = facts[i].exists
             /\ facts'[i].deleted = facts[i].deleted
             /\ facts'[i].by = facts[i].by
             /\ facts'[i].c.ended = facts[i].c.ended
  <2>1. CASE facts' = facts
    BY <2>1
  <2>2. CASE \E t \in LiveTellings : CaptureLive(t)
    <3>1. PICK t \in LiveTellings : CaptureLive(t)
      BY <2>2
    <3>2. CASE \E f \in Fences(t) : restrict_to(f, frozen_readers(t, facts[f].c, Roster), t.excluded, t)
      BY <1>1, <1>6, <3>2 DEF restrict_to, TypeOK, FactRows, Contents
    <3>3. CASE \E failed \in BOOLEAN : facts' = [facts EXCEPT ![minted + 1] =
                       [exists |-> TRUE, c |-> t, by |-> 0, deleted |-> failed]]
      BY <1>1, <1>6, <3>3 DEF TypeOK
    <3> QED
      BY <3>1, <3>2, <3>3 DEF CaptureLive
  <2> QED
    BY <2>1, <2>2 DEF Say
<1> QED
  BY <1>1, <1>2, <1>4, <1>5, <1>6, <1>7, <1>8

LEMMA FreshStep ==
    ASSUME Serial, IInv, Fresh, Next
    PROVE  Fresh'
<1>1. TypeOK /\ RoundShape /\ WorkShape /\ WorkShape' /\ round \in Rounds
  BY WorkStep DEF IInv, TypeInv, Shape, Fresh, TypeOK
<1>2. round.todo \in SUBSET Ids /\ round.rows \in SUBSET Ids
  BY <1>1 DEF TypeOK, Rounds
<1>3. ASSUME \A i \in Work : buffer'[i].c = buffer[i].c
      PROVE  \A i \in Work' : round'.snap[i] = buffer'[i].c
  BY <1>1, <1>3, WorkStep DEF Fresh
<1>4. CASE (\E t \in Tellings : Say(t)) \/ (\E t \in LiveTellings : CaptureLive(t))
  <2>1. \A i \in 1..minted : i \in Ids /\ buffer'[i] = buffer[i]
    BY <1>4, FilingKeeps
  <2>2. UNCHANGED <<round, edit>>
    BY <1>4, FilingKeeps
  <2>3. Work \subseteq 1..minted /\ round.todo \subseteq 1..minted
    BY <1>1 DEF WorkShape, Work
  <2>4. round.todo \subseteq Waiting'
    BY <2>1, <2>3 DEF Fresh, Waiting, Buffered
  <2> QED
    BY <1>1, <1>3, <2>1, <2>2, <2>3, <2>4 DEF Fresh
<1>5. CASE Crash
  <2>1. round'.step = "idle" /\ round'.todo = {} /\ Work' = {}
    BY <1>5 DEF Crash, Resting, Work
  <2> QED
    BY <1>1, <2>1 DEF Fresh
<1>6. CASE edit.step # "idle" /\ ~Crash
  <2>1. round.step = "idle" /\ Work = {} /\ round.todo = {}
    BY <1>6, BesideAVerb DEF Work
  <2>2. CASE (\E t \in Tellings : Say(t)) \/ (\E t \in LiveTellings : CaptureLive(t))
    BY <1>4, <2>2
  <2>3. CASE Weld \/ EditBuffered \/ DropEdit \/ \E i \in Ids : Forget(i)
    <3>1. UNCHANGED round
      BY <2>3 DEF Weld, EditBuffered, DropEdit, Forget
    <3> QED
      BY <1>1, <2>1, <3>1 DEF Fresh, Work
  <2> QED
    BY <1>6, <2>2, <2>3, BesideAVerb
<1>7. CASE round.step # "idle" /\ RoundStep
  <2>1. edit.step = "idle" /\ edit' = edit
    BY <1>7 DEF Fresh, RoundStep, FoldIntoTwin, FoldFence, FoldCopy, FoldAudience, Accept,
                ScreenFails, Plan, InsertFact, StampReason, MarkPromoted, WriteFails, EndRound
  <2>2. CASE FoldIntoTwin \/ FoldFence \/ FoldCopy \/ FoldAudience
    <3>1. Screening /\ Screened(round.rows) /\ \E f : SkipDup(Next1, f)
      BY <2>2 DEF FoldIntoTwin, FoldFence, FoldCopy, FoldAudience, PastDedup
    <3>2. Next1 \in round.todo /\ Next1 \in Ids
      BY <1>1, <3>1, HeadTypes DEF Screening
    <3>3. \A i \in Ids : buffer'[i].c = buffer[i].c /\ (i # Next1 => buffer'[i] = buffer[i])
      BY <1>1, <3>1, <3>2 DEF SkipDup, TypeOK, BufferRows
    <3>4. round'.todo = round.todo \ {Next1} /\ round'.step = "screen"
      BY <1>1, <3>1 DEF Screened, Screening, Rounds
    <3>5. round'.todo \subseteq Waiting'
      BY <1>2, <3>3, <3>4 DEF Fresh, Waiting, Buffered
    <3>6. \A i \in Work : buffer'[i].c = buffer[i].c
      BY <1>2, <3>3 DEF Work
    <3> QED
      BY <1>1, <1>3, <2>1, <3>4, <3>5, <3>6 DEF Fresh
  <2>3. CASE Accept \/ ScreenFails
    <3>1. Screening /\ buffer' = buffer /\ \E rows : Screened(rows)
      BY <2>3 DEF Accept, ScreenFails, PastDedup
    <3>2. round'.todo \subseteq round.todo /\ round'.step = "screen"
      BY <1>1, <3>1 DEF Screened, Screening, Rounds
    <3> QED
      BY <1>1, <1>3, <2>1, <3>1, <3>2 DEF Fresh, Waiting, Buffered
  <2>4. CASE Plan
    <3>1. PICK placed \in SUBSET round.rows : round' = [round EXCEPT !.step = "write", !.todo = placed]
      BY <2>4 DEF Plan
    <3>2. round'.todo \subseteq round.rows /\ round'.step = "write" /\ buffer' = buffer
      BY <1>1, <2>4, <3>1 DEF Plan, Rounds
    <3>3. round.rows \subseteq Waiting
      BY <1>1, <2>4 DEF Plan, RoundShape
    <3> QED
      BY <1>1, <1>3, <2>1, <3>2, <3>3 DEF Fresh, Waiting, Buffered
  <2>5. CASE InsertFact
    <3>1. round'.todo = round.todo \ {Next1} /\ round'.cur = Next1 /\ buffer' = buffer
      BY <1>1, <2>5 DEF InsertFact, Rounds
    <3> QED
      BY <1>1, <1>3, <2>1, <3>1 DEF Fresh, Waiting, Buffered
  <2>6. CASE StampReason \/ WriteFails
    <3>1. /\ round'.todo \subseteq round.todo /\ buffer' = buffer
          /\ (round'.step = "write" \/ (round.step \in {"stamp", "mark"} /\ round'.cur = round.cur))
      BY <1>1, <2>6 DEF StampReason, WriteFails, Rounds
    <3> QED
      BY <1>1, <1>3, <2>1, <3>1 DEF Fresh, Waiting, Buffered
  <2>7. CASE MarkPromoted
    <3>1. round'.todo = round.todo /\ round'.step = "write" /\ round.cur \notin round.todo
      BY <1>1, <2>7 DEF MarkPromoted, Rounds, Fresh
    <3>2. \A i \in Ids : buffer'[i].c = buffer[i].c /\ (i # round.cur => buffer'[i] = buffer[i])
      BY <1>1, <2>7 DEF MarkPromoted, TypeOK, BufferRows
    <3>3. round'.todo \subseteq Waiting'
      BY <1>2, <3>1, <3>2 DEF Fresh, Waiting, Buffered
    <3>4. \A i \in Work : buffer'[i].c = buffer[i].c
      BY <1>2, <3>2 DEF Work
    <3> QED
      BY <1>1, <1>3, <2>1, <3>1, <3>3, <3>4 DEF Fresh
  <2>8. CASE EndRound
    <3>1. round'.step = "idle" /\ round'.todo = {} /\ Work' = {}
      BY <2>8 DEF EndRound, Resting, Work
    <3> QED
      BY <1>1, <3>1 DEF Fresh
  <2> QED
    BY <1>7, <2>2, <2>3, <2>4, <2>5, <2>6, <2>7, <2>8 DEF RoundStep
<1>8. CASE round.step = "idle" /\ edit.step = "idle"
  <2>1. Work = {} /\ round.todo = {}
    BY <1>1, <1>8 DEF WorkShape, Work
  <2>2. CASE \E pass \in {"light", "closing"} : StartRound(pass)
    <3>1. /\ UNCHANGED <<buffer, edit>> /\ round'.todo \subseteq Waiting
          /\ round'.step = "screen"
      BY <2>2 DEF StartRound, Resting, Waiting
    <3> QED
      BY <1>1, <1>3, <1>8, <3>1 DEF Fresh, Waiting, Buffered
  <2>3. CASE UNCHANGED round
    BY <1>1, <1>8, <2>1, <2>3 DEF Fresh, Work
  <2>4. ~RoundStep
    BY <1>8 DEF RoundStep, FoldIntoTwin, FoldFence, FoldCopy, FoldAudience, Accept, ScreenFails,
                PastDedup, Screening, Plan, InsertFact, StampReason, MarkPromoted, WriteFails, EndRound
  <2> QED
    BY <1>4, <1>5, <2>2, <2>3, <2>4
       DEF Next, CloseFact, ReshareFact, Inherit, Weld, EditBuffered, DropEdit, Forget,
           StartDelete, DeleteNext, Rebuffer, EndDelete
<1> QED
  BY <1>4, <1>5, <1>6, <1>7, <1>8, BesideARound DEF Fresh

LEMMA SerialStart == Init => Fresh /\ Missing
<1> SUFFICES ASSUME Init PROVE Fresh /\ Missing
  OBVIOUS
<1>1. WorkShape /\ Work = {} /\ round.step = "idle" /\ round.todo = {} /\ edit.step = "idle"
  BY DEF Init, WorkShape, Work, Resting, NoEdit
<1> QED
  BY <1>1 DEF Fresh, Missing

LEMMA MissingStep ==
    ASSUME Serial, IInv, Fresh, Missing, Next
    PROVE  Missing'
<1>1. TypeOK /\ Blank /\ minted \in 0..MaxClaims /\ edit \in Edits
  BY DEF IInv, TypeInv, Shape, TypeOK
<1>2. CASE edit'.step = "idle"
  BY <1>2 DEF Missing
<1>3. CASE edit.step # "idle" /\ edit'.step # "idle"
  <2>1. edit.target \in 1..minted /\ edit.target \in Ids
    BY <1>1, <1>3, PipelineAssumption DEF Missing, Ids
  <2>2. CASE (\E t \in Tellings : Say(t)) \/ (\E t \in LiveTellings : CaptureLive(t))
    BY <1>3, <2>1, <2>2, FilingKeeps DEF Missing, Active, Standing, Buffered
  <2>3. CASE \E i \in Ids : Forget(i)
    <3>1. PICK i \in Ids : Forget(i)
      BY <2>3
    <3>2. facts'[i].deleted /\ \A j \in Ids : j # i => facts'[j] = facts[j]
      BY <1>1, <3>1 DEF Forget, TypeOK, FactRows
    <3>3. UNCHANGED <<edit, minted, buffer>>
      BY <3>1 DEF Forget
    <3> QED
      BY <1>3, <2>1, <3>2, <3>3 DEF Missing, Active, Standing, Buffered
  <2>4. CASE Weld
    <3>1. edit.target \notin Active /\ edit' = [edit EXCEPT !.step = "missed"]
          /\ UNCHANGED <<facts, buffer, minted>>
      BY <1>3, <2>4 DEF Weld, NoEdit
    <3>2. edit'.step = "missed" /\ edit'.target = edit.target
      BY <1>1, <3>1 DEF Edits
    <3> QED
      BY <2>1, <2>4, <3>1, <3>2 DEF Missing, Weld, Active, Standing, Buffered
  <2>5. CASE EditBuffered \/ DropEdit \/ Crash
    BY <1>3, <2>5 DEF EditBuffered, DropEdit, Crash, NoEdit
  <2> QED
    BY <1>3, <2>2, <2>3, <2>4, <2>5, BesideAVerb
<1>4. CASE edit.step = "idle" /\ edit'.step # "idle"
  <2>1. PICK v \in Verbs, i \in Ids : CloseFact(v, i) \/ ReshareFact(v, i) \/ Inherit(v, i)
    <3>1. ~(\E t \in Tellings : Say(t)) /\ ~(\E t \in LiveTellings : CaptureLive(t))
      BY <1>4 DEF Say, CaptureLive
    <3>2. ~(\E pass \in {"light", "closing"} : StartRound(pass)) /\ ~RoundStep
      BY <1>4 DEF StartRound, RoundStep, FoldIntoTwin, FoldFence, FoldCopy, FoldAudience, Accept,
                  ScreenFails, Plan, InsertFact, StampReason, MarkPromoted, WriteFails, EndRound
    <3>3. ~Weld /\ ~EditBuffered /\ ~DropEdit /\ ~Crash /\ ~(\E i \in Ids : Forget(i))
      BY <1>4 DEF Weld, EditBuffered, DropEdit, Forget, Crash, NoEdit
    <3>4. /\ ~(\E who \in Deleters, ids \in SUBSET Ids, all \in BOOLEAN : StartDelete(who, ids, all))
          /\ ~(\E i \in Ids : DeleteNext(i)) /\ ~Rebuffer /\ ~EndDelete
      BY <1>4 DEF StartDelete, DeleteNext, Rebuffer, EndDelete
    <3> QED
      BY <3>1, <3>2, <3>3, <3>4 DEF Next
  <2>2. i \in 1..minted
    BY <1>1, <2>1, PipelineAssumption
       DEF CloseFact, ReshareFact, Inherit, Recalled, Active, Waiting, Standing, Blank, Ids
  <2>3. CASE CloseFact(v, i) \/ ReshareFact(v, i)
    <3>1. /\ ~Standing(i) /\ edit'.step = "missed" /\ edit'.target = i
          /\ UNCHANGED <<facts, buffer, minted>>
      BY <1>4, <2>3 DEF CloseFact, ReshareFact, Missed
    <3> QED
      BY <2>2, <3>1 DEF Missing, Standing, Buffered
  <2>4. CASE Inherit(v, i)
    <3>1. edit'.step = "weld" /\ edit'.target = i /\ minted' = minted
      BY <2>4 DEF Inherit, NoEdit
    <3>2. \A j \in Ids : buffer'[j].status = buffer[j].status
      BY <1>1, <2>4 DEF Inherit, TypeOK, BufferRows
    <3>3. \A j \in Ids : /\ facts'[j].exists = facts[j].exists
                         /\ facts'[j].deleted = facts[j].deleted
                         /\ facts'[j].by = facts[j].by
      BY <1>1, <2>4 DEF Inherit, TypeOK, FactRows
    <3>4. i \in Active \/ Buffered(i)
      BY <2>4 DEF Inherit, Recalled, Waiting
    <3> QED
      BY <2>2, <3>1, <3>2, <3>3, <3>4 DEF Missing, Active, Standing, Buffered
  <2> QED
    BY <2>1, <2>3, <2>4
<1> QED
  BY <1>2, <1>3, <1>4

\* The parts hold together: what follows rests on them.
LEMMA SerialStep ==
    ASSUME Serial
    PROVE  IInv /\ Fresh /\ Missing /\ [Next]_vars => IInv' /\ Fresh' /\ Missing'
<1> SUFFICES ASSUME IInv, Fresh, Missing, [Next]_vars PROVE IInv' /\ Fresh' /\ Missing'
  OBVIOUS
<1>1. IInv'
  BY SafeStep DEF Serial
<1>2. CASE Next
  BY <1>1, <1>2, FreshStep, MissingStep
<1>3. CASE UNCHANGED vars
  BY <1>1, <1>3 DEF vars, Fresh, Missing, WorkShape, Work, Waiting, Active, Standing, Buffered
<1> QED
  BY <1>2, <1>3

---------------------------------------------------------------------------
(* Closures and wishes.                                                    *)

\* A closure is on the row the claim now has, and a superseded fact is closed.
Ended ==
    /\ deletion.step = "idle"
    /\ closed \subseteq 1..minted
    /\ \A i \in Ids : facts[i].by # 0 => facts[i].c.ended
    /\ \A i \in closed : IF facts[i].exists THEN facts[i].deleted \/ facts[i].c.ended
                                            ELSE buffer[i].c.ended

\* A step that takes no end from a row; a new fact row has its claim's.
KeepsEnds ==
    /\ \A i \in Ids : facts'[i].by # 0 =>
          facts'[i].c.ended \/ (facts[i].by # 0 /\ facts'[i].c.ended = facts[i].c.ended)
    /\ \A i \in 1..minted :
          /\ facts[i].exists => facts'[i].exists
          /\ facts[i].deleted => facts'[i].deleted
          /\ facts[i].exists /\ facts[i].c.ended => facts'[i].c.ended
          /\ buffer[i].c.ended => buffer'[i].c.ended
          /\ ~facts[i].exists /\ facts'[i].exists => facts'[i].c.ended = buffer[i].c.ended

SteadyEnds == \A i \in Ids : /\ facts'[i].exists = facts[i].exists
                             /\ facts'[i].deleted = facts[i].deleted
                             /\ facts'[i].by = facts[i].by
                             /\ facts'[i].c.ended = facts[i].c.ended
                             /\ buffer'[i].c.ended = buffer[i].c.ended

LEMMA EndsAreKept ==
    ASSUME TypeOK, Ended, KeepsEnds, minted' \in {minted, minted + 1}, UNCHANGED <<closed, deletion>>
    PROVE  Ended'
<1>1. closed \subseteq 1..minted /\ 1..minted \subseteq 1..minted'
  BY DEF TypeOK, Ended
<1>2. \A i \in Ids : facts'[i].by # 0 => facts'[i].c.ended
  BY DEF Ended, KeepsEnds
<1>3. \A i \in closed : IF facts'[i].exists THEN facts'[i].deleted \/ facts'[i].c.ended
                                            ELSE buffer'[i].c.ended
  BY <1>1 DEF Ended, KeepsEnds
<1> QED
  BY <1>1, <1>2, <1>3 DEF Ended

\* A page is deleted by somebody.
LEMMA NobodyDeletes ==
    ASSUME Deleters = {}, deletion.step = "idle", Next
    PROVE  /\ deletion'.step = "idle"
           /\ \/ (\E t \in Tellings : Say(t)) \/ (\E t \in LiveTellings : CaptureLive(t))
              \/ \E pass \in {"light", "closing"} : StartRound(pass)
              \/ RoundStep
              \/ \E v \in Verbs, i \in Ids : CloseFact(v, i) \/ ReshareFact(v, i) \/ Inherit(v, i)
              \/ Weld \/ EditBuffered \/ DropEdit
              \/ \E i \in Ids : Forget(i)
              \/ Crash
<1>1. ~(\E i \in Ids : DeleteNext(i)) /\ ~Rebuffer /\ ~EndDelete
      /\ ~(\E who \in Deleters, ids \in SUBSET Ids, all \in BOOLEAN : StartDelete(who, ids, all))
  BY DEF DeleteNext, Rebuffer, EndDelete
<1>2. \/ (\E t \in Tellings : Say(t)) \/ (\E t \in LiveTellings : CaptureLive(t))
      \/ \E pass \in {"light", "closing"} : StartRound(pass)
      \/ RoundStep
      \/ \E v \in Verbs, i \in Ids : CloseFact(v, i) \/ ReshareFact(v, i) \/ Inherit(v, i)
      \/ Weld \/ EditBuffered \/ DropEdit
      \/ \E i \in Ids : Forget(i)
      \/ Crash
  BY <1>1 DEF Next
<1>3. CASE UNCHANGED deletion
  BY <1>2, <1>3
<1>4. CASE Crash
  BY <1>2, <1>4 DEF Crash, NoDeletion
<1>5. CASE RoundStep
  BY <1>2, <1>3, <1>5 DEF RoundStep, FoldIntoTwin, FoldFence, FoldCopy, FoldAudience, Accept,
                ScreenFails, Plan, InsertFact, StampReason, MarkPromoted, WriteFails, EndRound
<1> QED
  BY <1>2, <1>3, <1>4, <1>5 DEF Say, CaptureLive, StartRound, CloseFact, ReshareFact, Inherit, Weld,
                          EditBuffered, DropEdit, Forget

\* restrict_to changes who reads a row and nothing else of it.
LEMMA RestrictKeepsEnds ==
    ASSUME TypeOK, NEW f \in Ids, NEW readers, NEW excluded, NEW c,
           restrict_to(f, readers, excluded, c)
    PROVE  \A i \in Ids : /\ facts'[i].exists = facts[i].exists
                          /\ facts'[i].deleted = facts[i].deleted
                          /\ facts'[i].by = facts[i].by
                          /\ facts'[i].c.ended = facts[i].c.ended
  BY DEF restrict_to, TypeOK, FactRows, Contents

\* What a round does to the rows: folds rewrite readers, writes copy the claim.
LEMMA RoundKeepsEnds ==
    ASSUME IInv, Fresh, RoundStep
    PROVE  KeepsEnds /\ UNCHANGED <<minted, closed, deletion>>
<1>1. TypeOK /\ Blank /\ RoundShape /\ minted \in 0..MaxClaims /\ round \in Rounds
  BY DEF IInv, TypeInv, Shape, TypeOK
<1>2. \A i \in 1..minted : i \in Ids
  BY <1>1, PipelineAssumption DEF Ids
<1>3. UNCHANGED <<minted, closed, deletion>>
  BY DEF RoundStep, FoldIntoTwin, FoldFence, FoldCopy, FoldAudience, Accept, ScreenFails, Plan,
         InsertFact, StampReason, MarkPromoted, WriteFails, EndRound
<1> SUFFICES KeepsEnds
  BY <1>3
<1>4. SteadyEnds => KeepsEnds
  BY <1>2 DEF KeepsEnds, SteadyEnds
<1>5. CASE FoldIntoTwin \/ FoldFence \/ FoldCopy \/ FoldAudience
  <2>1. Screening /\ \E f : SkipDup(Next1, f)
    BY <1>5 DEF FoldIntoTwin, FoldFence, FoldCopy, FoldAudience, PastDedup
  <2>2. Next1 \in Ids
    BY <1>1, <2>1, HeadTypes DEF Screening
  <2>3. \A i \in Ids : buffer'[i].c = buffer[i].c
    BY <1>1, <2>1, <2>2 DEF SkipDup, TypeOK, BufferRows
  <2>4. CASE facts' = facts
    BY <1>4, <2>3, <2>4 DEF SteadyEnds
  <2>5. CASE \E f \in Ids : \E readers, excluded, c : restrict_to(f, readers, excluded, c)
    BY <1>1, <1>4, <2>3, <2>5, RestrictKeepsEnds DEF SteadyEnds
  <2>6. CASE FoldFence
    BY <2>5, <2>6 DEF FoldFence, Fences, Near, Active
  <2>7. CASE FoldAudience
    BY <2>5, <2>7 DEF FoldAudience, Kin, Near, Active
  <2> QED
    BY <1>5, <2>4, <2>6, <2>7 DEF FoldIntoTwin, FoldCopy
<1>6. CASE Accept \/ ScreenFails \/ Plan \/ WriteFails \/ EndRound
  <2>1. UNCHANGED <<buffer, facts>>
    BY <1>6 DEF Accept, ScreenFails, Plan, WriteFails, EndRound
  <2> QED
    BY <1>4, <2>1 DEF SteadyEnds
<1>7. CASE InsertFact
  <2>1. Next1 \in round.todo /\ Next1 \in Ids /\ buffer' = buffer
    BY <1>1, <1>7, HeadTypes DEF InsertFact
  <2>2. round.snap[Next1] = buffer[Next1].c /\ buffer[Next1].c \in Contents
    BY <1>1, <2>1 DEF Fresh, Work, TypeOK, BufferRows
  <2>3. FromCapture(round.snap[Next1]).ended = buffer[Next1].c.ended
    BY <2>2 DEF FromCapture, Contents
  <2>4. facts'[Next1] = insert_if_absent(facts[Next1], FromCapture(round.snap[Next1]))
        /\ \A i \in Ids : i # Next1 => facts'[i] = facts[i]
    BY <1>1, <1>7, <2>1 DEF InsertFact, TypeOK
  <2>5. CASE facts[Next1].exists
    BY <1>4, <2>1, <2>4, <2>5 DEF SteadyEnds, insert_if_absent
  <2>6. CASE ~facts[Next1].exists
    <3>1. /\ facts'[Next1].exists /\ facts'[Next1].by = 0 /\ ~facts'[Next1].deleted
          /\ facts'[Next1].c.ended = buffer[Next1].c.ended /\ ~facts[Next1].deleted
      BY <1>1, <2>1, <2>3, <2>4, <2>6 DEF insert_if_absent, Blank
    <3> QED
      BY <1>2, <2>1, <2>4, <2>6, <3>1 DEF KeepsEnds
  <2> QED
    BY <2>5, <2>6
<1>8. CASE StampReason
  <2>1. round.cur \in Ids
    BY <1>1, <1>8 DEF StampReason, RoundShape
  <2>2. \A i \in Ids : /\ facts'[i].exists = facts[i].exists
                       /\ facts'[i].deleted = facts[i].deleted
                       /\ facts'[i].by = facts[i].by
                       /\ facts'[i].c.ended = facts[i].c.ended
    BY <1>1, <1>8, <2>1 DEF StampReason, TypeOK, FactRows, Contents
  <2> QED
    BY <1>4, <1>8, <2>2 DEF SteadyEnds, StampReason
<1>9. CASE MarkPromoted
  <2>1. \A i \in Ids : buffer'[i].c = buffer[i].c
    BY <1>1, <1>9 DEF MarkPromoted, TypeOK, BufferRows
  <2> QED
    BY <1>4, <1>9, <2>1 DEF SteadyEnds, MarkPromoted
<1> QED
  BY <1>5, <1>6, <1>7, <1>8, <1>9 DEF RoundStep

LEMMA EndedStep ==
    ASSUME Serial, Deleters = {}, IInv, Fresh, Missing, Ended, Next
    PROVE  Ended'
<1>1. TypeOK /\ Blank /\ minted \in 0..MaxClaims /\ edit \in Edits /\ deletion'.step = "idle"
  BY NobodyDeletes DEF IInv, TypeInv, Shape, TypeOK, Ended
<1>2. \A i \in 1..minted : i \in Ids
  BY <1>1, PipelineAssumption DEF Ids
<1>3. ASSUME SteadyEnds, minted' = minted, closed' = closed
      PROVE  Ended'
  BY <1>1, <1>2, <1>3 DEF Ended, SteadyEnds
<1>4. CASE (\E t \in Tellings : Say(t)) \/ (\E t \in LiveTellings : CaptureLive(t))
  <2>1. \A i \in Ids : facts'[i].by # 0 =>
            facts[i].by # 0 /\ facts'[i].c.ended = facts[i].c.ended
    <3>1. CASE facts' = facts
      BY <3>1
    <3>2. CASE \E t \in LiveTellings : CaptureLive(t)
      <4>1. PICK t \in LiveTellings : CaptureLive(t)
        BY <3>2
      <4>2. CASE \E f \in Ids : \E readers, excluded, c : restrict_to(f, readers, excluded, c)
        BY <1>1, <4>2, RestrictKeepsEnds
      <4>3. CASE \E failed \in BOOLEAN : facts' = [facts EXCEPT ![minted + 1] =
                         [exists |-> TRUE, c |-> t, by |-> 0, deleted |-> failed]]
        BY <1>1, <4>3 DEF TypeOK
      <4> QED
        BY <4>1, <4>2, <4>3 DEF CaptureLive, Fences, Near, Active
    <3> QED
      BY <1>4, <3>1, <3>2 DEF Say
  <2>2. KeepsEnds
    BY <1>4, <2>1, FilingKeeps DEF KeepsEnds
  <2>3. UNCHANGED <<closed, deletion>> /\ minted' \in {minted, minted + 1}
    BY <1>4 DEF Say, CaptureLive
  <2> QED
    BY <1>1, <2>2, <2>3, EndsAreKept
<1>5. CASE RoundStep
  BY <1>1, <1>5, RoundKeepsEnds, EndsAreKept
<1>6. CASE (\E pass \in {"light", "closing"} : StartRound(pass)) \/ DropEdit \/ Crash
  BY <1>3, <1>6 DEF StartRound, DropEdit, Crash, SteadyEnds
<1>7. CASE \E i \in Ids : Forget(i)
  <2>1. PICK f \in Ids : Forget(f)
    BY <1>7
  <2>2. UNCHANGED <<buffer, minted, closed>>
    BY <2>1 DEF Forget
  <2>3. \A i \in Ids : /\ facts'[i].exists = facts[i].exists
                       /\ facts[i].deleted => facts'[i].deleted
                       /\ facts'[i].by = facts[i].by
                       /\ facts'[i].c.ended = facts[i].c.ended
    BY <1>1, <2>1 DEF Forget, TypeOK, FactRows, Contents, Standing
  <2>4. \A i \in closed : IF facts'[i].exists THEN facts'[i].deleted \/ facts'[i].c.ended
                                              ELSE buffer'[i].c.ended
    BY <1>2, <2>2, <2>3 DEF Ended
  <2>5. \A i \in Ids : facts'[i].by # 0 => facts'[i].c.ended
    BY <2>3 DEF Ended
  <2> QED
    BY <1>1, <2>2, <2>4, <2>5 DEF Ended
<1>8. CASE \E v \in Verbs, i \in Ids : CloseFact(v, i) \/ ReshareFact(v, i) \/ Inherit(v, i)
  <2>1. PICK v \in Verbs, t \in Ids : CloseFact(v, t) \/ ReshareFact(v, t) \/ Inherit(v, t)
    BY <1>8
  <2>2. CASE CloseFact(v, t)
    <3>1. UNCHANGED <<buffer, minted>>
      BY <2>2 DEF CloseFact
    <3>2. CASE ~Standing(t)
      BY <1>3, <2>2, <3>1, <3>2 DEF CloseFact, SteadyEnds
    <3>3. CASE Standing(t)
      <4>1. facts' = [facts EXCEPT ![t].c.ended = TRUE, ![t].c.why = "retracted"]
            /\ closed' = closed \cup {t}
        BY <2>2, <3>3 DEF CloseFact
      <4>2. /\ facts'[t].c.ended
            /\ \A i \in Ids : /\ facts'[i].exists = facts[i].exists
                              /\ facts'[i].deleted = facts[i].deleted
                              /\ facts'[i].by = facts[i].by
                              /\ facts[i].c.ended => facts'[i].c.ended
        BY <1>1, <4>1 DEF TypeOK, FactRows, Contents
      <4>3. t \in 1..minted /\ facts[t].exists
        BY <1>1, <3>3, PipelineAssumption DEF Standing, Blank, Ids
      <4>4. \A i \in closed' : IF facts'[i].exists THEN facts'[i].deleted \/ facts'[i].c.ended
                                                   ELSE buffer'[i].c.ended
        BY <1>2, <3>1, <4>1, <4>2, <4>3 DEF Ended
      <4>5. \A i \in Ids : facts'[i].by # 0 => facts'[i].c.ended
        BY <4>2 DEF Ended
      <4> QED
        BY <1>1, <3>1, <4>1, <4>3, <4>4, <4>5 DEF Ended
    <3> QED
      BY <3>2, <3>3
  <2>3. CASE ReshareFact(v, t)
    <3>1. UNCHANGED <<buffer, minted, closed>>
      BY <2>3 DEF ReshareFact
    <3>2. \A i \in Ids : /\ facts'[i].exists = facts[i].exists
                         /\ facts'[i].deleted = facts[i].deleted
                         /\ facts'[i].by = facts[i].by
                         /\ facts'[i].c.ended = facts[i].c.ended
      <4>1. CASE ~Standing(t)
        BY <2>3, <4>1 DEF ReshareFact
      <4>2. CASE Standing(t)
        <5> DEFINE new == set_acl(facts[t].c, NewSubject(v.subject, Row(t).subject),
                                  v.allow, v.excluded)
        <5>1. v.allow \in SUBSET Principals /\ v.excluded \in SUBSET SUBSET Principals
              /\ facts[t].c \in Contents
          BY <1>1, PipelineAssumption DEF TypeOK, FactRows
        <5>2. new.ended = facts[t].c.ended
          BY <1>1, <5>1, SubjectTypes, ResharedTypes
        <5>3. facts' = [facts EXCEPT ![t].c = new]
          BY <2>3, <4>2 DEF ReshareFact
        <5> HIDE DEF new
        <5> QED
          BY <1>1, <5>2, <5>3 DEF TypeOK, FactRows
      <4> QED
        BY <4>1, <4>2
    <3> QED
      BY <1>3, <3>1, <3>2 DEF SteadyEnds
  <2>4. CASE Inherit(v, t)
    <3>1. UNCHANGED <<minted, closed>>
      BY <2>4 DEF Inherit
    <3>2. \A i \in Ids : /\ facts'[i].exists = facts[i].exists
                         /\ facts'[i].deleted = facts[i].deleted
                         /\ facts'[i].by = facts[i].by
                         /\ facts'[i].c.ended = facts[i].c.ended
      BY <1>1, <2>4 DEF Inherit, TypeOK, FactRows, Contents
    <3>3. \A i \in Ids : buffer'[i].c.ended = buffer[i].c.ended
      BY <1>1, <2>4 DEF Inherit, TypeOK, BufferRows, Contents
    <3> QED
      BY <1>3, <3>1, <3>2, <3>3 DEF SteadyEnds
  <2> QED
    BY <2>1, <2>2, <2>3, <2>4
<1>9. CASE Weld
  <2>1. UNCHANGED <<buffer, minted, closed>>
    BY <1>9 DEF Weld
  <2>2. CASE facts' = facts
    BY <1>3, <2>1, <2>2 DEF SteadyEnds
  <2>3. CASE facts' = [facts EXCEPT ![edit.target] = mark_superseded(@, edit.successor)]
    <3>1. \A i \in Ids : /\ facts'[i].exists = facts[i].exists
                         /\ facts'[i].deleted = facts[i].deleted
                         /\ facts'[i] = facts[i] \/ facts'[i].c.ended
      BY <1>1, <2>3 DEF mark_superseded, TypeOK, FactRows, Contents
    <3> QED
      BY <1>1, <1>2, <2>1, <3>1 DEF Ended
  <2> QED
    BY <1>9, <2>2, <2>3 DEF Weld
<1>10. CASE EditBuffered
  <2>1. edit.target \in 1..minted /\ edit.target \in Ids /\ UNCHANGED <<facts, minted>>
    BY <1>2, <1>10 DEF EditBuffered, Missing
  <2>2. facts[edit.target].exists => facts[edit.target].deleted \/ facts[edit.target].c.ended
    BY <1>10, <2>1 DEF EditBuffered, Missing, Standing, Ended
  <2>3. \A i \in Ids : i # edit.target => buffer'[i] = buffer[i]
    BY <1>1, <1>10 DEF EditBuffered, TypeOK
  <2>4. CASE edit.kind = "reshare"
    <3>1. closed' = closed /\ buffer'[edit.target].c.ended = buffer[edit.target].c.ended
      <4> DEFINE new == set_acl(buffer[edit.target].c, edit.subject, edit.allow, {})
      <4>1. buffer[edit.target].c \in Contents /\ edit.subject \in Principals
            /\ edit.allow \in SUBSET Principals
        BY <1>1, <2>1 DEF TypeOK, BufferRows, Edits
      <4>2. new.ended = buffer[edit.target].c.ended
        BY <4>1, ResharedTypes
      <4>3. closed' = closed /\ buffer' = [buffer EXCEPT ![edit.target].c = new]
        BY <1>10, <2>4 DEF EditBuffered
      <4> HIDE DEF new
      <4> QED
        BY <1>1, <2>1, <4>2, <4>3 DEF TypeOK, BufferRows
    <3> QED
      BY <1>3, <2>1, <2>3, <3>1 DEF SteadyEnds
  <2>5. CASE edit.kind # "reshare"
    <3>1. closed' = closed \cup {edit.target}
      BY <1>10, <2>5 DEF EditBuffered
    <3>2. edit.kind \in {"close", "weld"}
      BY <1>1, <2>5 DEF Edits
    <3>3. buffer'[edit.target].c.ended
      BY <1>1, <1>10, <2>1, <3>2 DEF EditBuffered, TypeOK, BufferRows, Contents
    <3> QED
      BY <1>1, <1>2, <2>1, <2>2, <2>3, <3>1, <3>3 DEF Ended
  <2> QED
    BY <2>4, <2>5
<1> QED
  BY <1>4, <1>5, <1>6, <1>7, <1>8, <1>9, <1>10, NobodyDeletes DEF Ended

\* As long as verbs overlap no round and no page is deleted, a closure the turn
\* acknowledged is still there wherever the claim now lives, whatever crash or
\* failed write comes between the two stores (close_validity, write_placed).
\* Both provisos are needed: a round writes the claim as it read it, and a claim
\* that goes back to the queue takes up the row it left there.
THEOREM ClosuresAreKept ==
    ASSUME Serial, Deleters = {}
    PROVE  Spec => []ClosuresStick
<1>1. Init => Ended
  BY DEF Init, Ended, NoDeletion, NoFact
<1>2. ASSUME IInv, Fresh, Missing, Ended, [Next]_vars PROVE Ended'
  <2>1. CASE UNCHANGED vars
    BY <1>2, <2>1 DEF vars, Ended
  <2> QED
    BY <1>2, <2>1, EndedStep
<1>3. Ended => ClosuresStick
  BY DEF Ended, ClosuresStick
<1> QED
  BY <1>1, <1>2, <1>3, SafeStart, SerialStart, SerialStep, PTL DEF Spec

---------------------------------------------------------------------------
\* Whom a claim is to be kept from is on the row it now has; no verb in flight
\* names anybody else.
Wished ==
    /\ deletion.step = "idle"
    /\ edit.step # "idle" => UNION edit.excluded = {}
    /\ \A i \in Ids : IF facts[i].exists THEN facts[i].deleted \/ kept[i] \subseteq facts[i].c.excluded
                                         ELSE kept[i] \subseteq buffer[i].c.excluded

\* Re-shares name nobody to keep the claim from: the queue's set_acl has no
\* column for it.
NoNamesInReshares == \A v \in Verbs : UNION v.excluded = {}

\* A step that asks for nothing new and takes nobody off an exclusion list; a
\* new fact row has its claim's.
SteadyWishes ==
    \A i \in Ids : /\ kept'[i] \subseteq kept[i]
                   /\ facts[i].exists => facts'[i].exists
                   /\ facts[i].deleted => facts'[i].deleted
                   /\ facts[i].exists => facts[i].c.excluded \subseteq facts'[i].c.excluded
                   /\ ~facts[i].exists /\ facts'[i].exists =>
                          buffer[i].c.excluded \subseteq facts'[i].c.excluded
                   /\ buffer[i].c.excluded \subseteq buffer'[i].c.excluded

LEMMA WishesAreKept ==
    ASSUME Wished, SteadyWishes, edit'.step # "idle" => UNION edit'.excluded = {},
           deletion'.step = "idle"
    PROVE  Wished'
<1>1. ASSUME NEW i \in Ids
      PROVE  IF facts'[i].exists THEN facts'[i].deleted \/ kept'[i] \subseteq facts'[i].c.excluded
                                 ELSE kept'[i] \subseteq buffer'[i].c.excluded
  <2>1. IF facts[i].exists THEN facts[i].deleted \/ kept[i] \subseteq facts[i].c.excluded
                           ELSE kept[i] \subseteq buffer[i].c.excluded
    BY DEF Wished
  <2> QED
    BY <2>1 DEF SteadyWishes
<1> QED
  BY <1>1 DEF Wished

\* restrict_to adds the claim's exclusions to the row's, and remembers them.
LEMMA RestrictKeepsWishes ==
    ASSUME TypeOK, Wished, NEW f \in Active, NEW readers, NEW excluded, NEW c \in Contents,
           c.excluded \subseteq excluded, restrict_to(f, readers, excluded, c),
           UNCHANGED <<edit, deletion>>, \A i \in Ids : buffer'[i].c = buffer[i].c
    PROVE  Wished'
<1>1. f \in Ids /\ facts[f].exists /\ ~facts[f].deleted
  BY DEF Active, Standing
<1>2. /\ facts'[f].exists
      /\ facts'[f].c.excluded = facts[f].c.excluded \cup excluded
      /\ kept'[f] = kept[f] \cup c.excluded
      /\ \A i \in Ids : i # f => facts'[i] = facts[i] /\ kept'[i] = kept[i]
  BY <1>1 DEF restrict_to, TypeOK, FactRows, Contents
<1>3. kept[f] \subseteq facts[f].c.excluded
  BY <1>1 DEF Wished
<1>4. kept'[f] \subseteq facts'[f].c.excluded
  BY <1>2, <1>3
<1>5. ASSUME NEW i \in Ids
      PROVE  IF facts'[i].exists THEN facts'[i].deleted \/ kept'[i] \subseteq facts'[i].c.excluded
                                 ELSE kept'[i] \subseteq buffer'[i].c.excluded
  BY <1>2, <1>4 DEF Wished
<1> QED
  BY <1>5 DEF Wished

LEMMA RoundKeepsWishes ==
    ASSUME IInv, Fresh, Wished, RoundStep
    PROVE  Wished'
<1>1. TypeOK /\ Blank /\ RoundShape /\ round \in Rounds
  BY DEF IInv, TypeInv, Shape, TypeOK
<1>2. UNCHANGED <<edit, deletion>>
  BY DEF RoundStep, FoldIntoTwin, FoldFence, FoldCopy, FoldAudience, Accept, ScreenFails, Plan,
         InsertFact, StampReason, MarkPromoted, WriteFails, EndRound
<1>3. SteadyWishes => Wished'
  BY <1>2, WishesAreKept DEF Wished
<1>4. CASE FoldIntoTwin \/ FoldFence \/ FoldCopy \/ FoldAudience
  <2>1. Screening /\ \E f : SkipDup(Next1, f)
    BY <1>4 DEF FoldIntoTwin, FoldFence, FoldCopy, FoldAudience, PastDedup
  <2>2. Next1 \in Ids /\ Claim \in Contents
    BY <1>1, <2>1, HeadTypes DEF Screening, Claim, Rounds
  <2>3. \A i \in Ids : buffer'[i].c = buffer[i].c
    BY <1>1, <2>1, <2>2 DEF SkipDup, TypeOK, BufferRows
  <2>4. CASE UNCHANGED <<facts, kept>>
    BY <1>3, <2>3, <2>4 DEF SteadyWishes
  <2>5. CASE FoldFence
    <3>1. PICK f \in Fences(Claim) :
              restrict_to(f, frozen_readers(Claim, facts[f].c, Roster), Claim.excluded, Claim)
      BY <2>5 DEF FoldFence
    <3> QED
      BY <1>1, <1>2, <2>2, <2>3, <3>1, RestrictKeepsWishes DEF Fences, Near
  <2>6. CASE FoldAudience
    <3>1. PICK f \in Kin(Claim) :
              restrict_to(f, settled_readers(Claim, facts[f].c, Roster),
                          settled_excluded(Claim, facts[f].c), Claim)
      BY <2>6 DEF FoldAudience
    <3>2. Claim.excluded \subseteq settled_excluded(Claim, facts[f].c)
      BY DEF settled_excluded
    <3> QED
      BY <1>1, <1>2, <2>2, <2>3, <3>1, <3>2, RestrictKeepsWishes DEF Kin, Near
  <2> QED
    BY <1>4, <2>4, <2>5, <2>6 DEF FoldIntoTwin, FoldCopy
<1>5. CASE Accept \/ ScreenFails \/ Plan \/ WriteFails \/ EndRound
  <2>1. UNCHANGED <<buffer, facts, kept>>
    BY <1>5 DEF Accept, ScreenFails, Plan, WriteFails, EndRound
  <2> QED
    BY <1>3, <2>1 DEF SteadyWishes
<1>6. CASE InsertFact
  <2>1. Next1 \in round.todo /\ Next1 \in Ids /\ UNCHANGED <<buffer, kept>>
    BY <1>1, <1>6, HeadTypes DEF InsertFact
  <2>2. round.snap[Next1] = buffer[Next1].c /\ buffer[Next1].c \in Contents
    BY <1>1, <2>1 DEF Fresh, Work, TypeOK, BufferRows
  <2>3. FromCapture(round.snap[Next1]).excluded = buffer[Next1].c.excluded
    BY <2>2 DEF FromCapture, Contents
  <2>4. facts'[Next1] = insert_if_absent(facts[Next1], FromCapture(round.snap[Next1]))
        /\ \A i \in Ids : i # Next1 => facts'[i] = facts[i]
    BY <1>1, <1>6, <2>1 DEF InsertFact, TypeOK
  <2>5. CASE facts[Next1].exists
    BY <1>3, <2>1, <2>4, <2>5 DEF SteadyWishes, insert_if_absent
  <2>6. CASE ~facts[Next1].exists
    <3>1. /\ facts'[Next1].exists
          /\ facts'[Next1].c.excluded = buffer[Next1].c.excluded /\ ~facts[Next1].deleted
      BY <1>1, <2>1, <2>3, <2>4, <2>6 DEF insert_if_absent, Blank
    <3> QED
      BY <1>3, <2>1, <2>4, <2>6, <3>1 DEF SteadyWishes
  <2> QED
    BY <2>5, <2>6
<1>7. CASE StampReason
  <2>1. round.cur \in Ids /\ UNCHANGED <<buffer, kept>>
    BY <1>1, <1>7 DEF StampReason, RoundShape
  <2>2. \A i \in Ids : /\ facts'[i].exists = facts[i].exists
                       /\ facts'[i].deleted = facts[i].deleted
                       /\ facts'[i].c.excluded = facts[i].c.excluded
    BY <1>1, <1>7, <2>1 DEF StampReason, TypeOK, FactRows, Contents
  <2> QED
    BY <1>3, <2>1, <2>2 DEF SteadyWishes
<1>8. CASE MarkPromoted
  <2>1. \A i \in Ids : buffer'[i].c = buffer[i].c
    BY <1>1, <1>8 DEF MarkPromoted, TypeOK, BufferRows
  <2> QED
    BY <1>3, <1>8, <2>1 DEF SteadyWishes, MarkPromoted
<1> QED
  BY <1>4, <1>5, <1>6, <1>7, <1>8 DEF RoundStep

\* A new wish stands alone or names nobody.
LEMMA WishesShrink ==
    ASSUME NEW wish, NEW now, UNION wish = {}
    PROVE  Wish(wish, now) \in {now, {}}
  BY DEF Wish

LEMMA WishedStep ==
    ASSUME Deleters = {}, NoNamesInReshares, IInv, Fresh, Missing, Wished, Next
    PROVE  Wished'
<1>1. TypeOK /\ Blank /\ minted \in 0..MaxClaims /\ edit \in Edits /\ deletion'.step = "idle"
  BY NobodyDeletes DEF IInv, TypeInv, Shape, TypeOK, Wished
<1>2. ASSUME SteadyWishes, edit'.step # "idle" => UNION edit'.excluded = {}
      PROVE  Wished'
  BY <1>1, <1>2, WishesAreKept
<1>3. CASE \E t \in Tellings : Say(t)
  <2>1. PICK t \in Tellings : Say(t)
    BY <1>3
  <2>2. minted + 1 \in Ids /\ UNCHANGED <<facts, edit>> /\ ~facts[minted + 1].exists
    BY <1>1, <2>1, PipelineAssumption DEF Say, Ids, Blank
  <2>3. /\ kept'[minted + 1] = t.excluded /\ buffer'[minted + 1].c = t
        /\ \A i \in Ids : i # minted + 1 => buffer'[i] = buffer[i] /\ kept'[i] = kept[i]
    BY <1>1, <2>1, <2>2 DEF Say, TypeOK
  <2>4. ASSUME NEW i \in Ids
        PROVE  IF facts'[i].exists THEN facts'[i].deleted \/ kept'[i] \subseteq facts'[i].c.excluded
                                   ELSE kept'[i] \subseteq buffer'[i].c.excluded
    BY <2>2, <2>3 DEF Wished
  <2> QED
    BY <1>1, <2>2, <2>4 DEF Wished
<1>4. CASE \E t \in LiveTellings : CaptureLive(t)
  <2>1. PICK t \in LiveTellings : CaptureLive(t)
    BY <1>4
  <2>2. UNCHANGED <<buffer, edit, deletion>> /\ t \in Contents
    BY <2>1, PipelineAssumption DEF CaptureLive
  <2>3. CASE \E f \in Fences(t) : restrict_to(f, frozen_readers(t, facts[f].c, Roster), t.excluded, t)
    BY <1>1, <2>2, <2>3, RestrictKeepsWishes DEF Fences, Near
  <2>4. CASE /\ minted < MaxClaims
             /\ kept' = [kept EXCEPT ![minted + 1] = t.excluded]
             /\ \E failed \in BOOLEAN : facts' = [facts EXCEPT ![minted + 1] =
                       [exists |-> TRUE, c |-> t, by |-> 0, deleted |-> failed]]
    <3>1. minted + 1 \in Ids
      BY <1>1, <2>4, PipelineAssumption DEF Ids
    <3>2. /\ kept'[minted + 1] = t.excluded /\ facts'[minted + 1].c = t /\ facts'[minted + 1].exists
          /\ \A i \in Ids : i # minted + 1 => facts'[i] = facts[i] /\ kept'[i] = kept[i]
      BY <1>1, <2>4, <3>1 DEF TypeOK
    <3>3. ASSUME NEW i \in Ids
          PROVE  IF facts'[i].exists THEN facts'[i].deleted \/ kept'[i] \subseteq facts'[i].c.excluded
                                     ELSE kept'[i] \subseteq buffer'[i].c.excluded
      BY <2>2, <3>2 DEF Wished
    <3> QED
      BY <1>1, <2>2, <3>3 DEF Wished
  <2> QED
    BY <2>1, <2>3, <2>4 DEF CaptureLive
<1>5. CASE (\E pass \in {"light", "closing"} : StartRound(pass)) \/ DropEdit \/ Crash
  <2>1. UNCHANGED <<buffer, facts, kept>> /\ (edit' = edit \/ edit'.step = "idle")
    BY <1>5 DEF StartRound, DropEdit, Crash, NoEdit
  <2> QED
    BY <1>2, <2>1 DEF SteadyWishes, Wished
<1>6. CASE \E i \in Ids : Forget(i)
  <2>1. PICK f \in Ids : Forget(f)
    BY <1>6
  <2>2. UNCHANGED <<buffer, edit, kept>>
    BY <2>1 DEF Forget
  <2>3. \A i \in Ids : /\ facts'[i].exists = facts[i].exists
                       /\ facts[i].deleted => facts'[i].deleted
                       /\ facts'[i].c = facts[i].c
    BY <1>1, <2>1 DEF Forget, TypeOK, FactRows
  <2> QED
    BY <1>2, <2>2, <2>3 DEF SteadyWishes, Wished
<1>7. CASE \E v \in Verbs, i \in Ids : CloseFact(v, i) \/ ReshareFact(v, i) \/ Inherit(v, i)
  <2>1. PICK v \in Verbs, t \in Ids : CloseFact(v, t) \/ ReshareFact(v, t) \/ Inherit(v, t)
    BY <1>7
  <2>2. UNION v.excluded = {}
    BY DEF NoNamesInReshares
  <2>3. edit'.step # "idle" => UNION edit'.excluded = {}
    <3>1. CASE edit' = edit
      BY <3>1 DEF Wished
    <3>2. CASE edit'.excluded = v.excluded
      BY <2>2, <3>2
    <3>3. CASE edit'.excluded = {}
      BY <3>3
    <3>4. CloseFact(v, t) => edit' = edit \/ edit'.excluded = v.excluded
      BY DEF CloseFact, Missed
    <3>5. ReshareFact(v, t) => edit' = edit \/ edit'.excluded = v.excluded
      BY DEF ReshareFact, Missed
    <3>6. Inherit(v, t) => edit'.excluded = {}
      BY DEF Inherit, NoEdit
    <3> QED
      BY <2>1, <3>1, <3>2, <3>3, <3>4, <3>5, <3>6
  <2>4. CASE CloseFact(v, t)
    <3>1. UNCHANGED <<buffer, kept>>
      BY <2>4 DEF CloseFact
    <3>2. \A i \in Ids : /\ facts'[i].exists = facts[i].exists
                         /\ facts'[i].deleted = facts[i].deleted
                         /\ facts'[i].c.excluded = facts[i].c.excluded
      BY <1>1, <2>4 DEF CloseFact, TypeOK, FactRows, Contents
    <3> QED
      BY <1>2, <2>3, <3>1, <3>2 DEF SteadyWishes
  <2>5. CASE ReshareFact(v, t)
    <3>1. UNCHANGED buffer
      BY <2>5 DEF ReshareFact
    <3>2. CASE ~Standing(t)
      <4>1. UNCHANGED <<facts, kept>>
        BY <2>5, <3>2 DEF ReshareFact
      <4> QED
        BY <1>2, <2>3, <3>1, <4>1 DEF SteadyWishes
    <3>3. CASE Standing(t)
      <4>1. /\ facts' = [facts EXCEPT ![t].c =
                   set_acl(@, NewSubject(v.subject, Row(t).subject), v.allow, v.excluded)]
            /\ kept' = [kept EXCEPT ![t] = Wish(v.excluded, @)]
        BY <2>5, <3>3 DEF ReshareFact
      <4>2. /\ facts'[t].c.excluded = Wish(v.excluded, facts[t].c.excluded)
            /\ kept'[t] = Wish(v.excluded, kept[t])
            /\ \A i \in Ids : i # t => facts'[i] = facts[i] /\ kept'[i] = kept[i]
        <5> DEFINE new == set_acl(facts[t].c, NewSubject(v.subject, Row(t).subject),
                                  v.allow, v.excluded)
        <5>1. v.allow \in SUBSET Principals /\ v.excluded \in SUBSET SUBSET Principals
              /\ facts[t].c \in Contents
          BY <1>1, PipelineAssumption DEF TypeOK, FactRows
        <5>2. new.excluded = Wish(v.excluded, facts[t].c.excluded)
          BY <1>1, <5>1, SubjectTypes, ResharedTypes
        <5>3. facts' = [facts EXCEPT ![t].c = new]
          BY <4>1
        <5> HIDE DEF new
        <5>4. facts'[t].c = new /\ \A i \in Ids : i # t => facts'[i] = facts[i]
          BY <1>1, <5>3 DEF TypeOK, FactRows
        <5> QED
          BY <1>1, <4>1, <5>2, <5>4 DEF TypeOK
      <4>3. kept[t] \subseteq facts[t].c.excluded /\ facts'[t].exists
        BY <1>1, <3>3, <4>1 DEF Wished, Standing, TypeOK, FactRows
      <4>4. kept'[t] \subseteq facts'[t].c.excluded
        BY <2>2, <4>2, <4>3 DEF Wish
      <4>5. ASSUME NEW i \in Ids
            PROVE  IF facts'[i].exists THEN facts'[i].deleted \/ kept'[i] \subseteq facts'[i].c.excluded
                                       ELSE kept'[i] \subseteq buffer'[i].c.excluded
        BY <3>1, <4>2, <4>3, <4>4 DEF Wished
      <4> QED
        BY <1>1, <2>3, <4>5 DEF Wished
    <3> QED
      BY <3>2, <3>3
  <2>6. CASE Inherit(v, t)
    <3>1. \A i \in Ids : /\ facts'[i].exists = facts[i].exists
                         /\ facts'[i].deleted = facts[i].deleted
                         /\ facts'[i].c.excluded = facts[i].c.excluded
      BY <1>1, <2>6 DEF Inherit, TypeOK, FactRows, Contents
    <3>2. \A i \in Ids : buffer'[i].c.excluded = buffer[i].c.excluded
      BY <1>1, <2>6 DEF Inherit, TypeOK, BufferRows, Contents
    <3>3. kept' = kept
      BY <2>6 DEF Inherit
    <3> QED
      BY <1>2, <2>3, <3>1, <3>2, <3>3 DEF SteadyWishes
  <2> QED
    BY <2>1, <2>4, <2>5, <2>6
<1>8. CASE Weld
  <2>1. UNCHANGED <<buffer, kept>>
    BY <1>8 DEF Weld
  <2>2. edit'.step # "idle" => UNION edit'.excluded = {}
    BY <1>1, <1>8 DEF Weld, NoEdit, Wished, Edits
  <2>3. \A i \in Ids : /\ facts'[i].exists = facts[i].exists
                       /\ facts'[i].deleted = facts[i].deleted
                       /\ facts'[i].c.excluded = facts[i].c.excluded
    <3>1. CASE facts' = facts
      BY <3>1
    <3>2. CASE facts' = [facts EXCEPT ![edit.target] = mark_superseded(@, edit.successor)]
      BY <1>1, <3>2 DEF mark_superseded, TypeOK, FactRows, Contents
    <3> QED
      BY <1>8, <3>1, <3>2 DEF Weld
  <2> QED
    BY <1>2, <2>1, <2>2, <2>3 DEF SteadyWishes
<1>9. CASE EditBuffered
  <2>1. edit.target \in Ids /\ facts' = facts /\ edit'.step = "idle" /\ UNION edit.excluded = {}
    BY <1>9 DEF EditBuffered, NoEdit, Wished, IInv, TypeInv, EditShape
  <2>2. edit.kind \in {"close", "weld", "reshare"}
    BY <1>1 DEF Edits
  <2>3. \A i \in Ids : buffer'[i].c.excluded = buffer[i].c.excluded
    <3>1. CASE edit.kind = "reshare"
      <4> DEFINE new == set_acl(buffer[edit.target].c, edit.subject, edit.allow, {})
      <4>1. buffer[edit.target].c \in Contents /\ edit.subject \in Principals
            /\ edit.allow \in SUBSET Principals
        BY <1>1, <2>1 DEF TypeOK, BufferRows, Edits
      <4>2. new.excluded = buffer[edit.target].c.excluded
        <5>1. new.excluded = Wish({}, buffer[edit.target].c.excluded)
          BY <4>1, ResharedTypes
        <5> QED
          BY <5>1 DEF Wish
      <4>3. buffer' = [buffer EXCEPT ![edit.target].c = new]
        BY <1>9, <3>1 DEF EditBuffered
      <4> HIDE DEF new
      <4> QED
        BY <1>1, <2>1, <4>2, <4>3 DEF TypeOK, BufferRows
    <3>2. CASE edit.kind \in {"close", "weld"}
      BY <1>1, <1>9, <2>1, <3>2 DEF EditBuffered, TypeOK, BufferRows, Contents
    <3> QED
      BY <2>2, <3>1, <3>2
  <2>4. \A i \in Ids : kept'[i] \in {kept[i], {}}
    BY <1>1, <1>9, <2>1, WishesShrink DEF EditBuffered, TypeOK
  <2> QED
    BY <1>2, <2>1, <2>3, <2>4 DEF SteadyWishes
<1> QED
  BY <1>3, <1>4, <1>5, <1>6, <1>7, <1>8, <1>9, RoundKeepsWishes, NobodyDeletes DEF Wished

\* As long as verbs overlap no round, no page is deleted and no re-share names
\* anybody to keep the claim from, whoever a claim was asked to be kept from is
\* on its exclusion list wherever it now lives, through every fold, write,
\* crash and change of readers (restrict_to, write_placed, set_acl).
THEOREM WishesAreHeard ==
    ASSUME Serial, Deleters = {}, NoNamesInReshares
    PROVE  Spec => []WishesStick
<1>1. Init => Wished
  <2> SUFFICES ASSUME Init PROVE Wished
    OBVIOUS
  <2> QED
    BY DEF Init, Wished, NoDeletion, NoEdit, NoFact
<1>2. ASSUME IInv, Fresh, Missing, Wished, [Next]_vars PROVE Wished'
  <2>1. CASE UNCHANGED vars
    BY <1>2, <2>1 DEF vars, Wished
  <2> QED
    BY <1>2, <2>1, WishedStep
<1>3. Wished => WishesStick
  BY DEF Wished, WishesStick
<1> QED
  BY <1>1, <1>2, <1>3, SafeStart, SerialStart, SerialStep, PTL DEF Spec

---------------------------------------------------------------------------
(* Whom a claim is about.                                                  *)

SteadySubjects == \A i \in 1..minted : /\ facts'[i].exists = facts[i].exists
                                       /\ facts'[i].c.subject = facts[i].c.subject
                                       /\ buffer'[i].c.subject = buffer[i].c.subject

SubjectsKept == \A i \in 1..minted : Said(i)'.subject = Said(i).subject

LEMMA SteadySubjectsAreKept == SteadySubjects => SubjectsKept
  BY DEF SteadySubjects, SubjectsKept, Said

\* restrict_to leaves the subject of every row alone.
LEMMA RestrictKeepsSubjects ==
    ASSUME TypeOK, NEW f \in Ids, NEW readers, NEW excluded, NEW c,
           restrict_to(f, readers, excluded, c)
    PROVE  \A i \in Ids : /\ facts'[i].exists = facts[i].exists
                          /\ facts'[i].c.subject = facts[i].c.subject
  BY DEF restrict_to, TypeOK, FactRows, Contents

\* A round writes the claim as the queue has it, under an id with no fact yet.
LEMMA RoundKeepsSubjects ==
    ASSUME IInv, Fresh, RoundStep
    PROVE  SubjectsKept
<1>1. TypeOK /\ RoundShape /\ minted \in 0..MaxClaims /\ round \in Rounds
  BY DEF IInv, TypeInv, Shape, TypeOK
<1>2. \A i \in 1..minted : i \in Ids
  BY <1>1, PipelineAssumption DEF Ids
<1>5. CASE FoldIntoTwin \/ FoldFence \/ FoldCopy \/ FoldAudience
  <2>1. Screening /\ \E f : SkipDup(Next1, f)
    BY <1>5 DEF FoldIntoTwin, FoldFence, FoldCopy, FoldAudience, PastDedup
  <2>2. Next1 \in Ids
    BY <1>1, <2>1, HeadTypes DEF Screening
  <2>3. \A i \in Ids : buffer'[i].c = buffer[i].c
    BY <1>1, <2>1, <2>2 DEF SkipDup, TypeOK, BufferRows
  <2>4. CASE facts' = facts
    BY <1>2, <2>3, <2>4, SteadySubjectsAreKept DEF SteadySubjects
  <2>5. CASE \E f \in Ids : \E readers, excluded, c : restrict_to(f, readers, excluded, c)
    BY <1>1, <1>2, <2>3, <2>5, RestrictKeepsSubjects, SteadySubjectsAreKept DEF SteadySubjects
  <2>6. CASE FoldFence
    BY <2>5, <2>6 DEF FoldFence, Fences, Near, Active
  <2>7. CASE FoldAudience
    BY <2>5, <2>7 DEF FoldAudience, Kin, Near, Active
  <2> QED
    BY <1>5, <2>4, <2>6, <2>7 DEF FoldIntoTwin, FoldCopy
<1>6. CASE Accept \/ ScreenFails \/ Plan \/ WriteFails \/ EndRound
  <2>1. UNCHANGED <<buffer, facts>>
    BY <1>6 DEF Accept, ScreenFails, Plan, WriteFails, EndRound
  <2> QED
    BY <2>1 DEF SubjectsKept, Said
<1>7. CASE InsertFact
  <2>1. Next1 \in round.todo /\ Next1 \in Ids /\ buffer' = buffer
    BY <1>1, <1>7, HeadTypes DEF InsertFact
  <2>2. round.snap[Next1] = buffer[Next1].c /\ buffer[Next1].c \in Contents
    BY <1>1, <2>1 DEF Fresh, Work, TypeOK, BufferRows
  <2>3. FromCapture(round.snap[Next1]).subject = buffer[Next1].c.subject
    BY <2>2 DEF FromCapture, Contents
  <2>4. facts'[Next1] = insert_if_absent(facts[Next1], FromCapture(round.snap[Next1]))
        /\ \A i \in Ids : i # Next1 => facts'[i] = facts[i]
    BY <1>1, <1>7, <2>1 DEF InsertFact, TypeOK
  <2>5. ASSUME NEW i \in 1..minted PROVE Said(i)'.subject = Said(i).subject
    <3>1. CASE i # Next1 \/ facts[Next1].exists
      BY <1>2, <2>1, <2>4, <3>1 DEF Said, insert_if_absent
    <3>2. CASE i = Next1 /\ ~facts[Next1].exists
      BY <2>1, <2>3, <2>4, <3>2 DEF Said, insert_if_absent
    <3> QED
      BY <3>1, <3>2
  <2> QED
    BY <2>5 DEF SubjectsKept
<1>8. CASE StampReason
  <2>1. round.cur \in Ids
    BY <1>1, <1>8 DEF StampReason, RoundShape
  <2>2. \A i \in Ids : /\ facts'[i].exists = facts[i].exists
                       /\ facts'[i].c.subject = facts[i].c.subject
    BY <1>1, <1>8, <2>1 DEF StampReason, TypeOK, FactRows, Contents
  <2> QED
    BY <1>2, <1>8, <2>2, SteadySubjectsAreKept DEF SteadySubjects, StampReason
<1>9. CASE MarkPromoted
  <2>1. \A i \in Ids : buffer'[i].c = buffer[i].c
    BY <1>1, <1>9 DEF MarkPromoted, TypeOK, BufferRows
  <2> QED
    BY <1>2, <1>9, <2>1, SteadySubjectsAreKept DEF SteadySubjects, MarkPromoted
<1> QED
  BY <1>5, <1>6, <1>7, <1>8, <1>9 DEF RoundStep

\* Filing a claim, closing or welding one, forgetting one and dying move no
\* subject either; a re-share moves the subject of its target alone.
LEMMA TurnsMoveOneSubject ==
    ASSUME IInv,
           \/ \E t \in Tellings : Say(t)
           \/ \E t \in LiveTellings : CaptureLive(t)
           \/ \E pass \in {"light", "closing"} : StartRound(pass)
           \/ \E v \in Verbs, j \in Ids : CloseFact(v, j) \/ ReshareFact(v, j) \/ Inherit(v, j)
           \/ Weld \/ EditBuffered \/ DropEdit
           \/ \E j \in Ids : Forget(j)
           \/ Crash,
           NEW i \in 1..minted
    PROVE  Said(i)'.subject # Said(i).subject => Reshares(i)
<1>1. TypeOK /\ minted \in 0..MaxClaims /\ EditShape /\ edit \in Edits
  BY DEF IInv, TypeInv, TypeOK
<1>2. i \in Ids /\ i # minted + 1
  BY <1>1, PipelineAssumption DEF Ids
<1>3. facts[i] \in FactRows /\ facts[i].c \in Contents /\ buffer[i] \in BufferRows
      /\ buffer[i].c \in Contents
  BY <1>1, <1>2 DEF TypeOK, FactRows, BufferRows
<1> DEFINE Steady == /\ facts'[i].exists = facts[i].exists
                     /\ facts'[i].c.subject = facts[i].c.subject
                     /\ buffer'[i].c.subject = buffer[i].c.subject
<1>4. Steady => Said(i)'.subject = Said(i).subject
  BY DEF Said
<1> HIDE DEF Steady
<1>5. CASE \/ \E pass \in {"light", "closing"} : StartRound(pass)
           \/ DropEdit \/ Crash
  <2>1. UNCHANGED <<buffer, facts>>
    BY <1>5 DEF StartRound, DropEdit, Crash
  <2> QED
    BY <1>4, <2>1 DEF Steady
<1>6. CASE \E t \in Tellings : Say(t)
  BY <1>1, <1>2, <1>4, <1>6 DEF Steady, Say, TypeOK
<1>7. CASE \E t \in LiveTellings : CaptureLive(t)
  <2>1. PICK t \in LiveTellings : CaptureLive(t)
    BY <1>7
  <2>2. buffer' = buffer
    BY <2>1 DEF CaptureLive
  <2>3. CASE \E f \in Ids : \E readers, excluded, c : restrict_to(f, readers, excluded, c)
    BY <1>1, <1>2, <1>4, <2>2, <2>3, RestrictKeepsSubjects DEF Steady
  <2>4. CASE \E row : facts' = [facts EXCEPT ![minted + 1] = row]
    BY <1>1, <1>2, <1>4, <2>2, <2>4 DEF Steady, TypeOK
  <2>5. \/ \E f \in Ids : \E readers, excluded, c : restrict_to(f, readers, excluded, c)
        \/ \E row : facts' = [facts EXCEPT ![minted + 1] = row]
    BY <2>1 DEF CaptureLive, Fences, Near, Active
  <2> QED
    BY <2>3, <2>4, <2>5
<1>8. CASE \E v \in Verbs, j \in Ids : CloseFact(v, j) \/ ReshareFact(v, j) \/ Inherit(v, j)
  <2>1. PICK v \in Verbs, j \in Ids : CloseFact(v, j) \/ ReshareFact(v, j) \/ Inherit(v, j)
    BY <1>8
  <2>2. CASE CloseFact(v, j)
    <3>1. \/ facts' = facts
          \/ facts' = [facts EXCEPT ![j].c.ended = TRUE, ![j].c.why = "retracted"]
      BY <2>2 DEF CloseFact
    <3>2. facts'[i].exists = facts[i].exists /\ facts'[i].c.subject = facts[i].c.subject
      <4>1. CASE facts' = facts
        BY <4>1
      <4>2. CASE facts' = [facts EXCEPT ![j].c.ended = TRUE, ![j].c.why = "retracted"]
        BY <1>1, <1>2, <4>2 DEF TypeOK, FactRows, Contents
      <4> QED
        BY <3>1, <4>1, <4>2
    <3> QED
      BY <1>4, <2>2, <3>2 DEF CloseFact, Steady
  <2>3. CASE ReshareFact(v, j)
    <3>1. CASE j = i
      BY <2>3, <3>1 DEF Reshares
    <3>2. CASE j # i
      <4>1. facts'[i] = facts[i] /\ buffer' = buffer
        <5>1. CASE Standing(j)
          <6>1. facts' = [facts EXCEPT ![j].c =
                    set_acl(@, NewSubject(v.subject, Row(j).subject), v.allow, v.excluded)]
                /\ buffer' = buffer
            BY <2>3, <5>1 DEF ReshareFact
          <6> QED
            BY <1>1, <1>2, <3>2, <6>1 DEF TypeOK
        <5>2. CASE ~Standing(j)
          BY <2>3, <5>2 DEF ReshareFact
        <5> QED
          BY <5>1, <5>2
      <4> QED
        BY <1>4, <4>1 DEF Steady
    <3> QED
      BY <3>1, <3>2
  <2>4. CASE Inherit(v, j)
    <3>1. PICK heirs : /\ facts' = facts \/ facts' = [facts EXCEPT ![minted].c.allow = heirs]
                       /\ buffer' = buffer \/ buffer' = [buffer EXCEPT ![minted].c.allow = heirs]
      BY <2>4 DEF Inherit
    <3>2. facts'[i].exists = facts[i].exists /\ facts'[i].c.subject = facts[i].c.subject
      <4>1. CASE facts' = facts
        BY <4>1
      <4>2. CASE facts' = [facts EXCEPT ![minted].c.allow = heirs]
        BY <1>1, <1>2, <4>2 DEF TypeOK, FactRows, Contents
      <4> QED
        BY <3>1, <4>1, <4>2
    <3>3. buffer'[i].c.subject = buffer[i].c.subject
      <4>1. CASE buffer' = buffer
        BY <4>1
      <4>2. CASE buffer' = [buffer EXCEPT ![minted].c.allow = heirs]
        BY <1>1, <1>2, <4>2 DEF TypeOK, BufferRows, Contents
      <4> QED
        BY <3>1, <4>1, <4>2
    <3> QED
      BY <1>4, <3>2, <3>3 DEF Steady
  <2> QED
    BY <2>1, <2>2, <2>3, <2>4
<1>9. CASE Weld
  <2>1. \/ facts' = facts
        \/ facts' = [facts EXCEPT ![edit.target] = mark_superseded(@, edit.successor)]
    BY <1>9 DEF Weld
  <2>2. facts'[i].exists = facts[i].exists /\ facts'[i].c.subject = facts[i].c.subject
    <3>1. CASE facts' = facts
      BY <3>1
    <3>2. CASE facts' = [facts EXCEPT ![edit.target] = mark_superseded(@, edit.successor)]
      BY <1>1, <1>2, <3>2 DEF mark_superseded, TypeOK, FactRows, Contents
    <3> QED
      BY <2>1, <3>1, <3>2
  <2> QED
    BY <1>4, <1>9, <2>2 DEF Weld, Steady
<1>10. CASE EditBuffered
  <2>1. edit.target \in Ids /\ facts' = facts /\ edit.kind \in {"close", "reshare", "weld"}
    BY <1>1, <1>10 DEF EditBuffered, EditShape, Edits
  <2>2. CASE edit.target # i
    <3>1. buffer'[i] = buffer[i]
      BY <1>1, <1>2, <1>10, <2>2 DEF EditBuffered, TypeOK
    <3> QED
      BY <1>4, <2>1, <3>1 DEF Steady
  <2>3. CASE edit.target = i /\ edit.kind = "reshare"
    BY <1>10, <2>3 DEF Reshares
  <2>4. CASE edit.target = i /\ edit.kind \in {"close", "weld"}
    <3>1. \/ buffer' = [buffer EXCEPT ![i].c = [@ EXCEPT !.ended = TRUE, !.why = "retracted"]]
          \/ buffer' = [buffer EXCEPT ![i].c = [@ EXCEPT !.ended = TRUE, !.why = "contradicted"]]
      BY <1>10, <2>4 DEF EditBuffered
    <3>2. buffer'[i].c.subject = buffer[i].c.subject
      <4>1. ASSUME NEW why,
                   buffer' = [buffer EXCEPT ![i].c = [@ EXCEPT !.ended = TRUE, !.why = why]]
            PROVE  buffer'[i].c.subject = buffer[i].c.subject
        BY <1>1, <1>2, <1>3, <4>1 DEF TypeOK, BufferRows, Contents
      <4> QED
        BY <3>1, <4>1
    <3> QED
      BY <1>4, <2>1, <3>2 DEF Steady
  <2> QED
    BY <2>1, <2>2, <2>3, <2>4
<1>11. CASE \E j \in Ids : Forget(j)
  <2>1. PICK j \in Ids : Forget(j)
    BY <1>11
  <2>2. facts'[i].exists = facts[i].exists /\ facts'[i].c = facts[i].c /\ buffer' = buffer
    BY <1>1, <1>2, <1>3, <2>1 DEF Forget, TypeOK, FactRows
  <2> QED
    BY <1>4, <2>2 DEF Steady
<1> QED
  BY <1>5, <1>6, <1>7, <1>8, <1>9, <1>10, <1>11

\* Whom a claim is about moves only when a turn moves it: the round writes the
\* subject the queue has, a retry of a half-done promotion leaves the fact's own
\* in place however it was re-shared meanwhile, and folds, closures, welds and
\* restarts touch none (write_placed, insert_if_absent, set_acl).  A verb must not
\* overlap the round, which writes what it read, and no page is deleted, which
\* brings back the row as it was filed (rebuffer_fact).
THEOREM SubjectsStayAsAsked ==
    ASSUME Serial, Deleters = {}
    PROVE  Spec => SubjectsMoveOnlyWhenAsked
<1> DEFINE Quiet == deletion.step = "idle"
           Moves == \A i \in 1..minted : Said(i)'.subject # Said(i).subject => Reshares(i)
<1>1. Init => Quiet
  BY DEF Init, NoDeletion
<1>2. ASSUME Quiet, [Next]_vars PROVE Quiet'
  BY <1>2, NobodyDeletes DEF vars
<1>3. ASSUME IInv, Fresh, Quiet, Next PROVE Moves
  <2>1. CASE RoundStep
    BY <1>3, <2>1, RoundKeepsSubjects DEF SubjectsKept
  <2>2. CASE ~RoundStep
    BY <1>3, <2>2, NobodyDeletes, TurnsMoveOneSubject
  <2> QED
    BY <2>1, <2>2
<1>4. ASSUME IInv, Fresh, Quiet, [Next]_vars PROVE [Moves]_vars
  BY <1>3, <1>4
<1> HIDE DEF Quiet
<1>5. Spec => [](IInv /\ Fresh /\ Missing)
  BY SafeStart, SerialStart, SerialStep, PTL DEF Spec
<1>6. Spec => []Quiet
  BY <1>1, <1>2, PTL DEF Spec
<1> QED
  BY <1>4, <1>5, <1>6, PTL DEF Spec, SubjectsMoveOnlyWhenAsked

---------------------------------------------------------------------------
(* Where a retired claim went.                                             *)

Lively(i) == Buffered(i) \/ i \in Active \/ facts[i].deleted

\* Every trail of superseded_by and resolved_fact_id ends.
TrailsEnd == \A S \in SUBSET (1..minted) :
                 S # {} => \E i \in S : Lively(i) \/ Followed(i) \notin S \cup {0}

\* Without a fault: a claim waits and has its fact only while the round is
\* between the two statements, a fact is superseded by a later claim, and a
\* successor about to be welded to is there.
Trails ==
    /\ \A i \in Ids : Buffered(i) /\ facts[i].exists =>
                          round.step \in {"stamp", "mark"} /\ round.cur = i
    /\ round.step \in {"stamp", "mark"} => round.cur \in Active
    /\ \A i \in Ids : facts[i].by # 0 => i < facts[i].by /\ facts[i].by <= minted
    /\ edit.step = "weld" => /\ edit.successor \in 1..minted /\ edit.target < edit.successor
                             /\ Lively(edit.successor)
    /\ TrailsEnd

Chain == faults = 0 => Trails

\* A claim a step leaves lively, or gone as it was, or following a lively one.
Carried(i) == \/ Lively(i)'
              \/ i \in 1..minted /\ ~Lively(i) /\ Followed(i)' = Followed(i)
              \/ \E j \in Ids : Followed(i)' = j /\ Lively(j)'

LEMMA AllCarried ==
    ASSUME TrailsEnd, \A i \in 1..minted' : Carried(i)
    PROVE  TrailsEnd'
<1> SUFFICES ASSUME NEW S \in SUBSET (1..minted'), S # {}
             PROVE  \E i \in S : Lively(i)' \/ Followed(i)' \notin S \cup {0}
  BY DEF TrailsEnd
<1>1. CASE \E i \in S : Lively(i)'
  BY <1>1
<1>2. CASE \E i \in S : \E j \in Ids : Followed(i)' = j /\ Lively(j)'
  <2>1. PICK i \in S, j \in Ids : Followed(i)' = j /\ Lively(j)'
    BY <1>2
  <2>2. j # 0
    BY PipelineAssumption DEF Ids
  <2> QED
    BY <1>1, <2>1, <2>2
<1>3. CASE \A i \in S : i \in 1..minted /\ ~Lively(i) /\ Followed(i)' = Followed(i)
  <2>1. S \in SUBSET (1..minted)
    BY <1>3
  <2>2. PICK i \in S : Lively(i) \/ Followed(i) \notin S \cup {0}
    BY <2>1 DEF TrailsEnd
  <2> QED
    BY <1>3, <2>2
<1> QED
  BY <1>1, <1>2, <1>3 DEF Carried

\* A step that moves no claim moves no trail.
LEMMA SteadyTrails ==
    ASSUME TypeOK, SteadyFacts, SteadyQueue, minted' = minted, TrailsEnd
    PROVE  /\ TrailsEnd' /\ \A i \in Ids : Lively(i)' <=> Lively(i)
           /\ Active' = Active
<1>1. Active' = Active
  BY DEF Active, Standing, SteadyFacts
<1>2. \A i \in Ids : Lively(i)' <=> Lively(i)
  BY <1>1 DEF Lively, Buffered, SteadyFacts, SteadyQueue
<1>3. \A i \in Ids : Followed(i)' = Followed(i)
  BY DEF Followed, SteadyFacts, SteadyQueue
<1>4. \A i \in 1..minted' : i \in Ids
  BY PipelineAssumption DEF TypeOK, Ids
<1>5. \A i \in 1..minted' : Carried(i)
  BY <1>2, <1>3, <1>4 DEF Carried
<1> QED
  BY <1>1, <1>2, <1>5, AllCarried

\* A fault is counted and never taken back.
LEMMA FaultsCount ==
    ASSUME TypeOK, Next, faults' = 0
    PROVE  faults = 0 /\ ~Crash /\ ~ScreenFails /\ ~WriteFails
<1>1. faults \in Nat
  BY PipelineAssumption DEF TypeOK
<1>2. ~Crash /\ ~ScreenFails /\ ~WriteFails
  BY <1>1 DEF Crash, ScreenFails, WriteFails
<1>3. CASE faults' = faults
  BY <1>2, <1>3
<1>4. CASE \E t \in LiveTellings : CaptureLive(t)
  <2>1. CASE \E failed \in BOOLEAN : faults' = faults + IF failed THEN 1 ELSE 0
    <3>1. PICK failed \in BOOLEAN : faults' = faults + IF failed THEN 1 ELSE 0
      BY <2>1
    <3>2. CASE failed
      BY <1>1, <3>1, <3>2
    <3>3. CASE ~failed
      BY <1>1, <1>2, <3>1, <3>3
    <3> QED
      BY <3>2, <3>3
  <2> QED
    BY <1>3, <1>4, <2>1 DEF CaptureLive
<1>5. CASE RoundStep
  <2>1. CASE EndRound
    BY <1>1, <1>2, <2>1 DEF EndRound
  <2>2. CASE FoldIntoTwin \/ FoldFence \/ FoldCopy \/ FoldAudience
    BY <1>3, <2>2 DEF FoldIntoTwin, FoldFence, FoldCopy, FoldAudience
  <2>3. CASE Accept \/ Plan \/ InsertFact \/ StampReason \/ MarkPromoted
    BY <1>3, <2>3 DEF Accept, Plan, InsertFact, StampReason, MarkPromoted
  <2> QED
    BY <1>2, <1>5, <2>1, <2>2, <2>3 DEF RoundStep
<1>6. CASE (\E t \in Tellings : Say(t)) \/ \E pass \in {"light", "closing"} : StartRound(pass)
  BY <1>3, <1>6 DEF Say, StartRound
<1>7. CASE \/ \E v \in Verbs, i \in Ids : CloseFact(v, i) \/ ReshareFact(v, i) \/ Inherit(v, i)
           \/ Weld \/ EditBuffered \/ DropEdit
           \/ \E i \in Ids : Forget(i)
  BY <1>3, <1>7 DEF CloseFact, ReshareFact, Inherit, StartEdit, Weld, EditBuffered, DropEdit, Forget
<1>8. CASE \/ \E who \in Deleters, ids \in SUBSET Ids, all \in BOOLEAN : StartDelete(who, ids, all)
           \/ \E i \in Ids : DeleteNext(i)
           \/ Rebuffer \/ EndDelete
  BY <1>3, <1>8 DEF StartDelete, DeleteNext, Rebuffer, EndDelete
<1> QED
  BY <1>2, <1>4, <1>5, <1>6, <1>7, <1>8 DEF Next

\* The round is between the two statements of a write.
Writing == round.step \in {"stamp", "mark"}

LEMMA QuietTrails ==
    ASSUME TypeOK, Trails, SteadyFacts, SteadyQueue, minted' = minted,
           Writing' <=> Writing, Writing => round'.cur = round.cur,
           edit'.step = "weld" => edit' = edit
    PROVE  Trails'
<1>1. TrailsEnd' /\ (\A i \in Ids : Lively(i)' <=> Lively(i)) /\ Active' = Active
  BY SteadyTrails DEF Trails
<1>2. \A i \in Ids : (Buffered(i) /\ facts[i].exists)' =>
                         round'.step \in {"stamp", "mark"} /\ round'.cur = i
  BY DEF Trails, Writing, SteadyFacts, SteadyQueue, Buffered
<1>3. round'.step \in {"stamp", "mark"} => round'.cur \in Active'
  BY <1>1 DEF Trails, Writing
<1>4. \A i \in Ids : facts'[i].by # 0 => i < facts'[i].by /\ facts'[i].by <= minted'
  BY DEF Trails, SteadyFacts
<1>5. (edit.step = "weld" => /\ edit.successor \in 1..minted /\ edit.target < edit.successor
                             /\ Lively(edit.successor))'
  <2>1. \A i \in 1..minted : i \in Ids
    BY PipelineAssumption DEF TypeOK, Ids
  <2>2. CASE edit'.step = "weld"
    <3>1. edit' = edit /\ edit.successor \in 1..minted /\ edit.target < edit.successor
      BY <2>2 DEF Trails
    <3>2. Lively(edit.successor)
      BY <2>2, <3>1 DEF Trails
    <3>3. Lively(edit.successor)'
      BY <1>1, <2>1, <3>1, <3>2 DEF Lively, Buffered
    <3> QED
      BY <3>1, <3>3
  <2> QED
    BY <2>2
<1> QED
  BY <1>1, <1>2, <1>3, <1>4, <1>5 DEF Trails

\* A step that moves claim m and no other.
OthersSteady(m) ==
    \A i \in Ids \ {m} : /\ facts'[i].exists <=> facts[i].exists
                         /\ facts'[i].deleted <=> facts[i].deleted
                         /\ facts'[i].by = facts[i].by
                         /\ buffer'[i].status = buffer[i].status
                         /\ buffer'[i].resolved = buffer[i].resolved

\* The trails still end when m stays lively, or goes and leaves a trail to a
\* claim that is.
LEMMA MovedTrails ==
    ASSUME TypeOK, TrailsEnd, NEW m \in Ids, OthersSteady(m),
           minted' = minted \/ (minted' = minted + 1 /\ m = minted + 1),
           Lively(m)' \/ \E j \in Ids \ {m} : Followed(m)' = j /\ Lively(j)
    PROVE  TrailsEnd' /\ \A i \in Ids \ {m} : Lively(i)' <=> Lively(i)
<1>1. \A i \in Ids \ {m} : Lively(i)' <=> Lively(i)
  BY DEF Lively, Active, Standing, Buffered, OthersSteady
<1>2. \A i \in Ids \ {m} : Followed(i)' = Followed(i)
  BY DEF Followed, OthersSteady
<1>3. \A i \in 1..minted' : i = m \/ (i \in 1..minted /\ i \in Ids)
  BY PipelineAssumption DEF TypeOK, Ids
<1>4. Carried(m)
  <2>1. CASE Lively(m)'
    BY <2>1 DEF Carried
  <2>2. CASE \E j \in Ids \ {m} : Followed(m)' = j /\ Lively(j)
    BY <1>1, <2>2 DEF Carried
  <2> QED
    BY <2>1, <2>2
<1>5. \A i \in 1..minted' : Carried(i)
  BY <1>1, <1>2, <1>3, <1>4 DEF Carried
<1> QED
  BY <1>1, <1>5, AllCarried

\* Filing: the new claim waits, or has its fact.
LEMMA FilingTrails ==
    ASSUME IInv, Trails, faults = 0, faults' = 0,
           (\E t \in Tellings : Say(t)) \/ (\E t \in LiveTellings : CaptureLive(t))
    PROVE  Trails'
<1>1. TypeOK /\ Blank /\ minted \in 0..MaxClaims
  BY DEF IInv, TypeInv, Shape, TypeOK
<1>2. UNCHANGED <<round, edit>>
  BY DEF Say, CaptureLive
<1>3. CASE \E t \in LiveTellings : \E f \in Fences(t) :
               /\ restrict_to(f, frozen_readers(t, facts[f].c, Roster), t.excluded, t)
               /\ UNCHANGED <<buffer, minted>>
  <2>1. SteadyFacts
    BY <1>1, <1>3, RestrictIsSteady DEF Fences, Near, Active
  <2>2. SteadyQueue /\ minted' = minted
    BY <1>3 DEF SteadyQueue
  <2> QED
    BY <1>1, <1>2, <2>1, <2>2, QuietTrails DEF Writing
<1>4. CASE minted' = minted + 1 /\ minted < MaxClaims
  <2>0. PICK n \in Ids : n = minted + 1
    BY <1>1, <1>4, PipelineAssumption DEF Ids
  <2>1. n = minted + 1 /\ ~Buffered(n) /\ ~facts[n].exists
    BY <1>1, <2>0 DEF Blank
  <2>2. OthersSteady(n) /\ facts'[n].by = 0 /\ Lively(n)'
        /\ ~(Buffered(n) /\ facts[n].exists)'
    <3>1. CASE \E t \in Tellings : Say(t)
      <4>1. PICK t \in Tellings : Say(t)
        BY <3>1
      <4>2. facts' = facts /\ buffer'[n].status = "buffered"
            /\ \A i \in Ids \ {n} : buffer'[i] = buffer[i]
        BY <1>1, <2>1, <4>1 DEF Say, TypeOK
      <4> QED
        BY <1>1, <2>1, <4>2 DEF OthersSteady, Lively, Buffered, Blank
    <3>2. CASE \E t \in LiveTellings : CaptureLive(t)
      <4>1. PICK t \in LiveTellings, failed \in BOOLEAN :
                /\ faults' = faults + IF failed THEN 1 ELSE 0
                /\ facts' = [facts EXCEPT ![minted + 1] =
                       [exists |-> TRUE, c |-> t, by |-> 0, deleted |-> failed]]
                /\ buffer' = buffer
        <5>1. PICK t \in LiveTellings : CaptureLive(t)
          BY <3>2
        <5>2. minted' # minted
          BY <1>1, <1>4
        <5> QED
          BY <5>1, <5>2 DEF CaptureLive
      <4>2. ~failed
        BY <4>1
      <4>3. facts'[n].exists /\ ~facts'[n].deleted /\ facts'[n].by = 0
            /\ \A i \in Ids \ {n} : facts'[i] = facts[i]
        BY <1>1, <2>1, <4>1, <4>2 DEF TypeOK
      <4> QED
        BY <2>1, <4>1, <4>3 DEF OthersSteady, Lively, Buffered, Active, Standing
    <3> QED
      BY <3>1, <3>2
  <2>3. TrailsEnd' /\ \A i \in Ids \ {n} : Lively(i)' <=> Lively(i)
    BY <1>1, <1>4, <2>1, <2>2, MovedTrails DEF Trails
  <2>4. \A i \in Ids : (Buffered(i) /\ facts[i].exists)' =>
                           round'.step \in {"stamp", "mark"} /\ round'.cur = i
    BY <1>2, <2>2 DEF Trails, OthersSteady, Buffered
  <2>5. round'.step \in {"stamp", "mark"} => round'.cur \in Active'
    BY <1>2, <2>1, <2>2 DEF Trails, OthersSteady, Active, Standing
  <2>6. \A i \in Ids : facts'[i].by # 0 => i < facts'[i].by /\ facts'[i].by <= minted'
    <3> SUFFICES ASSUME NEW i \in Ids, facts'[i].by # 0
                 PROVE  i < facts'[i].by /\ facts'[i].by <= minted'
      OBVIOUS
    <3>1. facts'[i].by = facts[i].by /\ facts[i].by \in 0..MaxClaims
      BY <1>1, <2>2 DEF OthersSteady, TypeOK, FactRows
    <3>2. i < facts[i].by /\ facts[i].by <= minted
      BY <3>1 DEF Trails
    <3> QED
      BY <1>1, <1>4, <3>1, <3>2, PipelineAssumption
  <2>7. (edit.step = "weld" => /\ edit.successor \in 1..minted /\ edit.target < edit.successor
                               /\ Lively(edit.successor))'
    <3>1. CASE edit.step = "weld"
      <4>1. edit.successor \in 1..minted /\ edit.target < edit.successor /\ Lively(edit.successor)
        BY <3>1 DEF Trails
      <4>2. edit.successor \in Ids \ {n} /\ edit.successor \in 1..minted'
        BY <1>1, <1>4, <2>1, <4>1, PipelineAssumption DEF Ids
      <4>3. Lively(edit.successor)'
        BY <1>2, <2>2, <4>1, <4>2 DEF OthersSteady, Lively, Buffered, Active, Standing
      <4> QED
        BY <1>2, <4>1, <4>2, <4>3
    <3> QED
      BY <1>2, <3>1
  <2> QED
    BY <2>3, <2>4, <2>5, <2>6, <2>7 DEF Trails
<1> QED
  BY <1>3, <1>4 DEF Say, CaptureLive

\* A verb in flight beside a claim that moves elsewhere, or stays lively.
LEMMA WeldingOn ==
    ASSUME TypeOK, Trails, NEW m \in Ids, OthersSteady(m), minted' = minted,
           edit'.step = "weld" => edit' = edit,
           edit.step = "weld" /\ edit.successor = m => Lively(m)'
    PROVE  (edit.step = "weld" => /\ edit.successor \in 1..minted /\ edit.target < edit.successor
                                  /\ Lively(edit.successor))'
<1>1. CASE edit'.step = "weld"
  <2>1. edit' = edit /\ edit.successor \in 1..minted /\ edit.target < edit.successor
        /\ Lively(edit.successor)
    BY <1>1 DEF Trails
  <2>2. PICK s \in Ids : s = edit.successor
    BY <2>1, PipelineAssumption DEF TypeOK, Ids
  <2>3. Lively(s)'
    BY <1>1, <2>1, <2>2 DEF OthersSteady, Lively, Buffered, Active, Standing
  <2>4. Lively(edit.successor)'
    BY <2>1, <2>2, <2>3 DEF Lively, Buffered
  <2> QED
    BY <2>1, <2>4
<1> QED
  BY <1>1

\* The round: a fold leads to a live fact or to a claim that waits, and a write
\* turns a claim that waits into a live fact.
LEMMA FoldTrails ==
    ASSUME IInv, Trails, Screening, NEW j \in Ids, Lively(j), j \notin round.todo \/ facts[j].exists,
           SkipDup(Next1, j), Screened(round.rows), SteadyFacts, UNCHANGED <<edit, minted>>,
           edit.step = "idle"
    PROVE  Trails'
<1>1. TypeOK /\ Blank /\ RoundShape /\ round \in Rounds
  BY DEF IInv, TypeInv, Shape, TypeOK
<1>2. PICK m \in Ids : m = Next1
  BY <1>1, HeadTypes DEF Screening
<1>3. m \in round.todo /\ Buffered(m) /\ round.step = "screen"
  BY <1>1, <1>2, HeadTypes DEF Screening, RoundShape, Waiting
<1>4. ~facts[m].exists /\ j # m
  BY <1>3 DEF Trails
<1>5. buffer'[m].resolved = j /\ buffer'[m].status = "skipped_dup"
      /\ \A i \in Ids \ {m} : buffer'[i] = buffer[i]
  BY <1>1, <1>2, <1>3 DEF SkipDup, TypeOK, BufferRows, Buffered
<1>6. OthersSteady(m)
  BY <1>5 DEF OthersSteady, SteadyFacts
<1>7. Followed(m)' = j
  BY <1>4, <1>5 DEF Followed, SteadyFacts
<1>8. TrailsEnd'
  BY <1>1, <1>4, <1>6, <1>7, MovedTrails DEF Trails
<1>9. round'.step = "screen"
  BY <1>1, <1>3 DEF Screened, Rounds
<1>10. \A i \in Ids : ~(Buffered(i) /\ facts[i].exists)'
  BY <1>3, <1>5 DEF Trails, SteadyFacts, Buffered
<1>11. \A i \in Ids : facts'[i].by # 0 => i < facts'[i].by /\ facts'[i].by <= minted'
  BY DEF Trails, SteadyFacts
<1> QED
  BY <1>8, <1>9, <1>10, <1>11 DEF Trails

LEMMA RoundTrails ==
    ASSUME IInv, Fresh, Trails, RoundStep, ~ScreenFails, ~WriteFails
    PROVE  Trails'
<1>1. TypeOK /\ Blank /\ RoundShape /\ round \in Rounds
  BY DEF IInv, TypeInv, Shape, TypeOK
<1>2. round.step # "idle" /\ edit.step = "idle" /\ UNCHANGED <<edit, minted>>
  <2>1. round.step # "idle"
    BY DEF RoundStep, FoldIntoTwin, FoldFence, FoldCopy, FoldAudience, Accept, ScreenFails,
           PastDedup, Screening, Plan, InsertFact, StampReason, MarkPromoted, WriteFails, EndRound
  <2>2. UNCHANGED <<edit, minted>>
    BY DEF RoundStep, FoldIntoTwin, FoldFence, FoldCopy, FoldAudience, Accept, ScreenFails, Plan,
           InsertFact, StampReason, MarkPromoted, WriteFails, EndRound
  <2> QED
    BY <2>1, <2>2 DEF Fresh
<1>3. CASE FoldIntoTwin
  <2>1. Screening /\ SkipDup(Next1, Earliest(Twins(Claim))) /\ Screened(round.rows) /\ facts' = facts
    BY <1>3 DEF FoldIntoTwin
  <2>2. Twins(Claim) \in SUBSET Ids /\ Twins(Claim) # {}
    BY <1>1, <1>3 DEF FoldIntoTwin, Twins, Rounds
  <2>3. PICK j \in Ids : j = Earliest(Twins(Claim)) /\ j \in round.rows
    BY <1>1, <2>2, EarliestIsOne DEF Twins
  <2>4. Lively(j) /\ j \notin round.todo
    BY <1>1, <2>1, <2>3 DEF RoundShape, Screening, Waiting, Lively
  <2> QED
    BY <1>2, <2>1, <2>3, <2>4, FoldTrails DEF SteadyFacts
<1>4. CASE FoldFence \/ FoldCopy \/ FoldAudience
  <2>1. Screening /\ Screened(round.rows)
    BY <1>4 DEF FoldFence, FoldCopy, FoldAudience, PastDedup
  <2>2. PICK f \in Active : SkipDup(Next1, f) /\ SteadyFacts
    <3>1. \A f \in Active : f \in Ids
      BY DEF Active
    <3>2. CASE FoldFence
      <4>1. PICK f \in Fences(Claim) :
                /\ restrict_to(f, frozen_readers(Claim, facts[f].c, Roster), Claim.excluded, Claim)
                /\ SkipDup(Next1, f)
        BY <3>2 DEF FoldFence
      <4>2. f \in Active
        BY DEF Fences, Near
      <4> QED
        BY <1>1, <3>1, <4>1, <4>2, RestrictIsSteady
    <3>3. CASE FoldAudience
      <4>1. PICK f \in Kin(Claim) :
                /\ restrict_to(f, settled_readers(Claim, facts[f].c, Roster),
                               settled_excluded(Claim, facts[f].c), Claim)
                /\ SkipDup(Next1, f)
        BY <3>3 DEF FoldAudience
      <4>2. f \in Active
        BY DEF Kin, Near
      <4> QED
        BY <1>1, <3>1, <4>1, <4>2, RestrictIsSteady
    <3>4. CASE FoldCopy
      BY <3>4 DEF FoldCopy, Copies, Near, SteadyFacts
    <3> QED
      BY <1>4, <3>2, <3>3, <3>4
  <2>3. f \in Ids /\ Lively(f) /\ facts[f].exists
    BY DEF Active, Standing, Lively
  <2> QED
    BY <1>2, <2>1, <2>2, <2>3, FoldTrails
<1>5. CASE Accept \/ Plan \/ EndRound
  <2>1. UNCHANGED <<buffer, facts>> /\ ~Writing /\ ~Writing'
    <3>1. CASE Accept
      <4>1. PICK rows : Screened(rows)
        BY <3>1 DEF Accept
      <4> QED
        BY <1>1, <3>1, <4>1 DEF Accept, PastDedup, Screening, Screened, Writing, Rounds
    <3>2. CASE Plan
      BY <1>1, <3>2 DEF Plan, Writing, Rounds
    <3>3. CASE EndRound
      BY <3>3 DEF EndRound, Resting, Writing
    <3> QED
      BY <1>5, <3>1, <3>2, <3>3
  <2> QED
    BY <1>1, <1>2, <2>1, QuietTrails DEF SteadyFacts, SteadyQueue
<1>6. CASE StampReason
  <2>1. Writing /\ Writing' /\ round'.cur = round.cur /\ buffer' = buffer /\ round.cur \in Ids
    BY <1>1, <1>6 DEF StampReason, Writing, Rounds, RoundShape
  <2>2. SteadyFacts
    BY <1>1, <1>6, <2>1 DEF StampReason, SteadyFacts, TypeOK, FactRows
  <2> QED
    BY <1>1, <1>2, <2>1, <2>2, QuietTrails DEF SteadyQueue
<1>7. CASE InsertFact
  <2>1. PICK m \in Ids : m = Next1 /\ m \in round.todo
    BY <1>1, <1>7, HeadTypes DEF InsertFact
  <2>2. Buffered(m) /\ round.step = "write" /\ buffer' = buffer
    BY <1>7, <2>1 DEF Fresh, Waiting, InsertFact
  <2>3. ~facts[m].exists
    BY <2>2 DEF Trails
  <2>4. facts'[m].exists /\ ~facts'[m].deleted /\ facts'[m].by = 0
        /\ \A i \in Ids \ {m} : facts'[i] = facts[i]
    BY <1>1, <1>7, <2>1, <2>3 DEF InsertFact, insert_if_absent, TypeOK
  <2>5. round'.step \in {"stamp", "mark"} /\ round'.cur = m
    BY <1>1, <1>7, <2>1 DEF InsertFact, Rounds
  <2>6. OthersSteady(m) /\ m \in Active' /\ Lively(m)'
    BY <2>2, <2>4 DEF OthersSteady, Active, Standing, Lively
  <2>7. TrailsEnd'
    BY <1>1, <1>2, <2>6, MovedTrails DEF Trails
  <2>8. \A i \in Ids : (Buffered(i) /\ facts[i].exists)' => round'.cur = i
    BY <2>2, <2>4, <2>5 DEF Trails, Buffered
  <2>9. \A i \in Ids : facts'[i].by # 0 => i < facts'[i].by /\ facts'[i].by <= minted'
    BY <1>2, <2>4 DEF Trails
  <2> QED
    BY <1>2, <2>5, <2>6, <2>7, <2>8, <2>9 DEF Trails
<1>8. CASE MarkPromoted
  <2>1. PICK m \in Ids : m = round.cur /\ m \in Active
    BY <1>1, <1>8 DEF MarkPromoted, RoundShape, Trails
  <2>2. facts' = facts /\ buffer'[m].status # "buffered"
        /\ \A i \in Ids \ {m} : buffer'[i] = buffer[i]
    BY <1>1, <1>8, <2>1 DEF MarkPromoted, TypeOK, BufferRows
  <2>3. OthersSteady(m) /\ Active' = Active /\ Lively(m)'
    BY <2>1, <2>2 DEF OthersSteady, Active, Standing, Lively
  <2>4. TrailsEnd'
    BY <1>1, <1>2, <2>3, MovedTrails DEF Trails
  <2>5. \A i \in Ids : ~(Buffered(i) /\ facts[i].exists)'
    BY <2>1, <2>2 DEF Trails, Buffered
  <2>6. round'.step = "write"
    BY <1>1, <1>8 DEF MarkPromoted, Rounds
  <2> QED
    BY <1>2, <2>2, <2>4, <2>5, <2>6 DEF Trails
<1> QED
  BY <1>3, <1>4, <1>5, <1>6, <1>7, <1>8 DEF RoundStep

\* A verb: the weld leads to a successor that is there.
LEMMA VerbTrails ==
    ASSUME IInv, Fresh, Missing, Trails, Serial,
           \/ \E v \in Verbs, i \in Ids : CloseFact(v, i) \/ ReshareFact(v, i) \/ Inherit(v, i)
           \/ Weld \/ EditBuffered \/ DropEdit
           \/ \E i \in Ids : Forget(i)
    PROVE  Trails'
<1>1. TypeOK /\ Blank /\ minted \in 0..MaxClaims /\ edit \in Edits
  BY DEF IInv, TypeInv, Shape, TypeOK
<1>2. UNCHANGED <<round, minted>>
  BY DEF CloseFact, ReshareFact, Inherit, Weld, EditBuffered, DropEdit, Forget
<1>3. \A i \in 1..minted : i \in Ids
  BY <1>1, PipelineAssumption DEF Ids
<1>4. CASE \E v \in Verbs, i \in Ids : CloseFact(v, i) \/ ReshareFact(v, i)
  <2>1. PICK v \in Verbs, t \in Ids : CloseFact(v, t) \/ ReshareFact(v, t)
    BY <1>4
  <2>2. SteadyFacts
    BY <1>1, <2>1 DEF CloseFact, ReshareFact, SteadyFacts, TypeOK, FactRows
  <2>3. SteadyQueue /\ (edit' = edit \/ edit'.step = "missed")
    BY <2>1 DEF CloseFact, ReshareFact, SteadyQueue, Missed, NoEdit
  <2> QED
    BY <1>1, <1>2, <2>2, <2>3, QuietTrails DEF Writing
<1>5. CASE \E v \in Verbs, i \in Ids : Inherit(v, i)
  <2>1. PICK v \in Verbs, t \in Ids : Inherit(v, t)
    BY <1>5
  <2>2. SteadyFacts /\ SteadyQueue
    <3>1. SteadyFacts
      BY <1>1, <2>1 DEF Inherit, SteadyFacts, TypeOK, FactRows
    <3>2. SteadyQueue
      BY <1>1, <2>1 DEF Inherit, SteadyQueue, TypeOK, BufferRows
    <3> QED
      BY <3>1, <3>2
  <2>3. TrailsEnd' /\ (\A i \in Ids : Lively(i)' <=> Lively(i)) /\ Active' = Active
    BY <1>1, <1>2, <2>2, SteadyTrails DEF Trails
  <2>4. t < minted /\ minted \in Ids /\ minted \in 1..minted
        /\ (facts[minted].exists \/ Buffered(minted))
    <3>1. t < minted /\ (facts[minted].exists \/ Buffered(minted))
      BY <2>1 DEF Inherit, successor_exists, takes_audience, Standing
    <3>2. t \in 1..MaxClaims
      BY DEF Ids
    <3>3. minted \in 1..MaxClaims /\ minted \in 1..minted
      BY <1>1, <3>1, <3>2, PipelineAssumption
    <3> QED
      BY <3>1, <3>3 DEF Ids
  <2>5. facts[minted].by = 0
    <3>1. facts[minted].by \in 0..MaxClaims
      BY <1>1, <2>4 DEF TypeOK, FactRows
    <3> QED
      BY <1>1, <2>4, <3>1, PipelineAssumption DEF Trails
  <2>6. Lively(minted)
    BY <2>4, <2>5 DEF Lively, Active, Standing
  <2>7. edit'.successor = minted /\ edit'.target = t
    BY <2>1 DEF Inherit, NoEdit
  <2>8. PICK s \in Ids : s = minted
    BY <2>4
  <2>9. Lively(s)'
    BY <2>3, <2>6, <2>8
  <2>10. Lively(edit.successor)'
    BY <2>7, <2>8, <2>9 DEF Lively, Buffered
  <2>11. \A i \in Ids : (Buffered(i) /\ facts[i].exists)' =>
                            round'.step \in {"stamp", "mark"} /\ round'.cur = i
    BY <1>2, <2>2 DEF Trails, SteadyFacts, SteadyQueue, Buffered
  <2>12. \A i \in Ids : facts'[i].by # 0 => i < facts'[i].by /\ facts'[i].by <= minted'
    BY <1>2, <2>2 DEF Trails, SteadyFacts
  <2> QED
    BY <1>2, <2>3, <2>4, <2>7, <2>10, <2>11, <2>12 DEF Trails
<1>6. CASE DropEdit \/ EditBuffered
  <2>1. SteadyFacts /\ edit'.step = "idle"
    BY <1>6 DEF DropEdit, EditBuffered, SteadyFacts, NoEdit
  <2>2. SteadyQueue
    BY <1>1, <1>6 DEF DropEdit, EditBuffered, SteadyQueue, TypeOK, BufferRows
  <2> QED
    BY <1>1, <1>2, <2>1, <2>2, QuietTrails DEF Writing
<1>7. CASE Weld /\ edit.target \notin Active
  <2>1. UNCHANGED <<facts, buffer>> /\ edit'.step = "missed"
    BY <1>1, <1>7 DEF Weld, Edits
  <2> QED
    BY <1>1, <1>2, <2>1, QuietTrails DEF Writing, SteadyFacts, SteadyQueue
<1>8. CASE Weld /\ edit.target \in Active
  <2>1. PICK m \in Ids, s \in Ids : m = edit.target /\ s = edit.successor
    BY <1>3, <1>8 DEF Weld, Trails, Active
  <2>2. Lively(s) /\ m < s /\ s \in 1..minted /\ m \in Active
    BY <1>8, <2>1 DEF Weld, Trails
  <2>3. facts'[m] = mark_superseded(facts[m], s) /\ buffer' = buffer
        /\ (\A i \in Ids \ {m} : facts'[i] = facts[i]) /\ edit'.step = "idle"
    BY <1>1, <1>8, <2>1 DEF Weld, TypeOK, NoEdit
  <2>4. facts'[m].by = s /\ facts'[m].exists /\ ~facts'[m].deleted
    BY <1>1, <2>2, <2>3 DEF mark_superseded, TypeOK, FactRows, Active, Standing
  <2>5. OthersSteady(m) /\ Followed(m)' = s /\ s # m
    BY <1>1, <2>2, <2>3, <2>4 DEF OthersSteady, Followed, Ids
  <2>6. TrailsEnd'
    BY <1>1, <1>2, <2>2, <2>5, MovedTrails DEF Trails
  <2>7. round.step = "idle"
    BY <1>8 DEF Weld, Fresh
  <2>8. \A i \in Ids : ~(Buffered(i) /\ facts[i].exists)'
    BY <2>2, <2>3, <2>7 DEF Trails, Buffered, Active, Standing
  <2>9. \A i \in Ids : facts'[i].by # 0 => i < facts'[i].by /\ facts'[i].by <= minted'
    BY <1>1, <1>2, <2>2, <2>3, <2>4 DEF Trails
  <2> QED
    BY <1>2, <2>3, <2>6, <2>7, <2>8, <2>9 DEF Trails
<1>9. CASE \E i \in Ids : Forget(i)
  <2>1. PICK m \in Ids : Forget(m)
    BY <1>9
  <2>2. UNCHANGED <<buffer, edit>> /\ round.step = "idle"
    BY <2>1 DEF Forget, MayEdit, Serial
  <2>3. facts'[m].deleted /\ facts'[m].exists = facts[m].exists /\ facts'[m].by = facts[m].by
        /\ \A i \in Ids \ {m} : facts'[i] = facts[i]
    BY <1>1, <2>1 DEF Forget, TypeOK, FactRows
  <2>4. OthersSteady(m) /\ Lively(m)'
    BY <2>2, <2>3 DEF OthersSteady, Lively
  <2>5. TrailsEnd'
    BY <1>1, <1>2, <2>4, MovedTrails DEF Trails
  <2>6. \A i \in Ids : ~(Buffered(i) /\ facts[i].exists)'
    BY <2>2, <2>3 DEF Trails, Buffered
  <2>7. \A i \in Ids : facts'[i].by # 0 => i < facts'[i].by /\ facts'[i].by <= minted'
    BY <1>2, <2>3 DEF Trails
  <2>8. (edit.step = "weld" => /\ edit.successor \in 1..minted /\ edit.target < edit.successor
                               /\ Lively(edit.successor))'
    BY <1>1, <1>2, <2>2, <2>4, WeldingOn
  <2> QED
    BY <1>2, <2>2, <2>5, <2>6, <2>7, <2>8 DEF Trails
<1> QED
  BY <1>4, <1>5, <1>6, <1>7, <1>8, <1>9

\* A page deletion: a fact of the page is forgotten or waits again.
LEMMA RemovalTrails ==
    ASSUME IInv, Trails,
           \/ \E who \in Deleters, ids \in SUBSET Ids, all \in BOOLEAN : StartDelete(who, ids, all)
           \/ \E i \in Ids : DeleteNext(i)
           \/ Rebuffer \/ EndDelete
    PROVE  Trails'
<1>1. TypeOK /\ Blank /\ DeletionShape /\ deletion \in Deletions
  BY DEF IInv, TypeInv, Shape, TypeOK
<1>2. UNCHANGED <<round, edit, minted>>
  BY DEF StartDelete, DeleteNext, Rebuffer, EndDelete
<1>3. CASE UNCHANGED <<buffer, facts>>
  BY <1>1, <1>2, <1>3, QuietTrails DEF Writing, SteadyFacts, SteadyQueue
<1>4. CASE \E i \in Ids : DeleteNext(i) /\ facts' # facts
  <2>1. PICK m \in Ids : DeleteNext(m) /\ facts' # facts
    BY <1>4
  <2>2. m \in Active /\ round.step = "idle" /\ edit.step = "idle"
    BY <1>1, <2>1 DEF DeleteNext, DeletionShape
  <2>3. facts' = [facts EXCEPT ![m].deleted = @ \/ facts[m].exists] /\ buffer' = buffer
    BY <2>1 DEF DeleteNext
  <2>4. facts'[m].deleted /\ facts'[m].exists = facts[m].exists /\ facts'[m].by = facts[m].by
        /\ \A i \in Ids \ {m} : facts'[i] = facts[i]
    BY <1>1, <2>2, <2>3 DEF TypeOK, FactRows, Active, Standing
  <2>5. OthersSteady(m) /\ Lively(m)'
    BY <2>3, <2>4 DEF OthersSteady, Lively
  <2>6. TrailsEnd'
    BY <1>1, <1>2, <2>5, MovedTrails DEF Trails
  <2>7. \A i \in Ids : ~(Buffered(i) /\ facts[i].exists)'
    BY <2>2, <2>3, <2>4 DEF Trails, Buffered
  <2>8. \A i \in Ids : facts'[i].by # 0 => i < facts'[i].by /\ facts'[i].by <= minted'
    BY <1>2, <2>4 DEF Trails
  <2> QED
    BY <1>2, <2>2, <2>6, <2>7, <2>8 DEF Trails
<1>5. CASE Rebuffer
  <2>1. PICK m \in Ids : m = deletion.cur /\ m \in Active
    BY <1>1, <1>5 DEF Rebuffer, DeletionShape, Active
  <2>2. round.step = "idle" /\ edit.step = "idle"
    BY <1>1, <1>5 DEF Rebuffer, DeletionShape
  <2>3. facts'[m] = NoFact /\ buffer'[m] = Requeue(buffer[m], deletion.row)
        /\ \A i \in Ids \ {m} : facts'[i] = facts[i] /\ buffer'[i] = buffer[i]
    BY <1>1, <1>5, <2>1 DEF Rebuffer, TypeOK
  <2>4. buffer'[m].status = "buffered"
    BY <1>1, <2>3 DEF Requeue, TypeOK, BufferRows
  <2>5. OthersSteady(m) /\ Lively(m)'
    BY <2>3, <2>4 DEF OthersSteady, Lively, Buffered
  <2>6. TrailsEnd'
    BY <1>1, <1>2, <2>5, MovedTrails DEF Trails
  <2>7. \A i \in Ids : ~(Buffered(i) /\ facts[i].exists)'
    BY <2>2, <2>3 DEF Trails, Buffered, NoFact
  <2>8. \A i \in Ids : facts'[i].by # 0 => i < facts'[i].by /\ facts'[i].by <= minted'
    BY <1>2, <2>3 DEF Trails, NoFact
  <2> QED
    BY <1>2, <2>2, <2>6, <2>7, <2>8 DEF Trails
<1> QED
  BY <1>3, <1>4, <1>5 DEF StartDelete, DeleteNext, EndDelete

\* As long as verbs and page deletions overlap no round, a claim is only ever
\* retired onto something until a fault strikes: following superseded_by and
\* resolved_fact_id reaches a claim that waits, stands unsuperseded or was
\* deliberately forgotten, however often claims are folded, welded, forgotten
\* and sent back to the queue (mark_skipped_dup, weld_with_audience,
\* mark_superseded, rebuffer_fact).
THEOREM TrailsLeadSomewhere ==
    ASSUME Serial
    PROVE  Spec => []RetiredOntoSomething
<1>1. Init => Chain
  <2> SUFFICES ASSUME Init PROVE Trails
    BY DEF Chain
  <2>1. 1..minted = {}
    BY DEF Init
  <2>2. TrailsEnd
    BY <2>1 DEF TrailsEnd
  <2> QED
    BY <2>2 DEF Init, Trails, NoCapture, NoFact, NoEdit, Resting, Buffered
<1>2. ASSUME IInv, Fresh, Missing, Chain, [Next]_vars PROVE Chain'
  <2>1. CASE UNCHANGED vars
    BY <1>2, <2>1 DEF vars, Chain, Trails, TrailsEnd, Lively, Followed, Active, Standing, Buffered
  <2>2. CASE Next
    <3> SUFFICES ASSUME faults' = 0 PROVE Trails'
      BY DEF Chain
    <3>1. faults = 0 /\ ~Crash /\ ~ScreenFails /\ ~WriteFails /\ Trails
      BY <1>2, <2>2, FaultsCount DEF Chain, IInv, TypeInv
    <3>2. CASE (\E t \in Tellings : Say(t)) \/ (\E t \in LiveTellings : CaptureLive(t))
      BY <1>2, <3>1, <3>2, FilingTrails
    <3>3. CASE RoundStep
      BY <1>2, <3>1, <3>3, RoundTrails
    <3>4. CASE \E pass \in {"light", "closing"} : StartRound(pass)
      <4>1. UNCHANGED <<buffer, facts, minted, edit>> /\ ~Writing /\ ~Writing'
        BY <3>4 DEF StartRound, Resting, Writing
      <4> QED
        BY <1>2, <3>1, <4>1, QuietTrails DEF SteadyFacts, SteadyQueue, IInv, TypeInv
    <3> QED
      BY <1>2, <2>2, <3>1, <3>2, <3>3, <3>4, VerbTrails, RemovalTrails DEF Next
  <2> QED
    BY <1>2, <2>1, <2>2
<1>3. Chain => RetiredOntoSomething
  BY DEF Chain, Trails, TrailsEnd, Lively, RetiredOntoSomething
<1> QED
  BY <1>1, <1>2, <1>3, SafeStart, SerialStart, SerialStep, PTL DEF Spec
============================================================================
