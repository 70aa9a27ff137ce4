-------------------------- MODULE CapturePipeline --------------------------
(***************************************************************************)
(* From a thing said to a memory: the capture buffer, the fact index, and   *)
(* the dream round that moves claims from one to the other.                 *)
(*                                                                          *)
(* A claim waits in `buffer` under an id that will be its fact's id.  A     *)
(* round reads the oldest waiting claims once, screens each of them, plans  *)
(* the pages, and writes the placed ones row by row; it works from the rows *)
(* it read, not from the rows as they are.  Beside it, with no lock between *)
(* them, a turn closes, re-shares or supersedes a claim (the fact store is  *)
(* probed first, the buffer second), a user forgets a fact, and an operator *)
(* deletes a page, which sends its facts back to the queue.  The process    *)
(* may die between any two statements.                                      *)
(***************************************************************************)
EXTENDS Acl

CONSTANTS MaxClaims,       \* bound on the claims ever filed
          MaxPromotions,   \* LightPolicy::max_promotions_per_cycle
          MaxFaults,       \* bound on crashes and failed writes
          MaxEdits,        \* bound on edits and on forgotten facts
          MaxDeletions,    \* bound on page deletions
          Words, Media,    \* what a claim says and what it links
          Tellings,        \* claims that reach the queue
          LiveTellings,    \* claims written straight through, in their turn
          Verbs,           \* what a turn may ask of a claim already filed
          Homes,           \* principals with a wiki on disk
          Agents,          \* those of them that are agents
          Deleters,        \* who may delete a page
          Roster,          \* the groups' members
          Alone,           \* the work that overlaps with no other: "edit", "deletion"
          Bag              \* the models wired: "full", "no_cronista" or "none"

Ids == 1..MaxClaims
Reasons == {"none", "retracted", "contradicted"}
Kinds == {"card", "topic", "bare"}

\* What a row says and who reads it.  `kind` is what placement can do with the
\* claim: a card always takes it, its topic can name a page for it, or neither.
\* `ended` is a valid_to, `why` its decay reason.
Contents == [words : Words, media : Media, kind : Kinds,
             subject : Principals, sender : Senders,
             allow : SUBSET Principals, excluded : SUBSET Principals,
             ended : BOOLEAN, why : Reasons]

ASSUME PipelineAssumption ==
    /\ MaxClaims \in Nat \ {0}
    /\ MaxPromotions \in Nat /\ MaxFaults \in Nat /\ MaxEdits \in Nat /\ MaxDeletions \in Nat
    /\ Words # {} /\ Media # {}
    /\ Tellings \subseteq Contents /\ LiveTellings \subseteq Contents
    /\ Verbs \subseteq [kind : {"close", "reshare", "weld"}, by : Users, subject : SUBSET Principals,
                        allow : SUBSET Principals, excluded : SUBSET SUBSET Principals]
    /\ Homes \subseteq Principals /\ Agents \subseteq Homes
    /\ Deleters \subseteq Principals
    /\ Roster \in Rosters
    /\ Alone \subseteq {"edit", "deletion"}
    /\ Bag \in {"full", "no_cronista", "none"}

VARIABLES buffer,    \* capture_buffer
          facts,     \* fact_index
          minted,    \* ids handed out so far
          round,     \* the dream round, one at a time behind the dream gate
          edit,      \* the verb a turn has in flight
          deletion,  \* the page deletion in flight
          faults, edits, deletions,   \* how much of each bound is used
          closed,    \* history: claims whose closure was acknowledged
          kept       \* history: whom each claim was asked to be kept from

vars == <<buffer, facts, minted, round, edit, deletion,
          faults, edits, deletions, closed, kept>>

Nothing == [words |-> CHOOSE w \in Words : TRUE, media |-> CHOOSE m \in Media : TRUE,
            kind |-> "bare", subject |-> Removed, sender |-> {},
            allow |-> {}, excluded |-> {}, ended |-> FALSE, why |-> "none"]

BufferRows == [status : {"absent", "buffered", "promoted", "skipped_dup"},
               c : Contents, resolved : 0..MaxClaims, at : Nat]

FactRows == [exists : BOOLEAN, c : Contents, by : 0..MaxClaims, deleted : BOOLEAN]

NoCapture == [status |-> "absent", c |-> Nothing, resolved |-> 0, at |-> 0]
NoFact == [exists |-> FALSE, c |-> Nothing, by |-> 0, deleted |-> FALSE]

Rounds == [step : {"idle", "screen", "write", "stamp", "mark"},
           pass : {"light", "closing"}, todo : SUBSET Ids, rows : SUBSET Ids,
           snap : [Ids -> Contents], cur : 0..MaxClaims]

Resting == [step |-> "idle", pass |-> "light", todo |-> {}, rows |-> {},
            snap |-> [i \in Ids |-> Nothing], cur |-> 0]

Edits == [step : {"idle", "weld", "missed"}, kind : {"close", "reshare", "weld"},
          target : 0..MaxClaims, successor : 0..MaxClaims, subject : Principals,
          allow : SUBSET Principals, excluded : SUBSET SUBSET Principals]

NoEdit == [step |-> "idle", kind |-> "close", target |-> 0, successor |-> 0,
           subject |-> Removed, allow |-> {}, excluded |-> {}]

Deletions == [step : {"idle", "next", "commit"}, who : Principals, all : BOOLEAN,
              ids : SUBSET Ids, cur : 0..MaxClaims, row : Contents]

NoDeletion == [step |-> "idle", who |-> Removed, all |-> FALSE, ids |-> {}, cur |-> 0,
               row |-> Nothing]

Buffered(i) == buffer[i].status = "buffered"
Waiting == {i \in Ids : Buffered(i)}
Standing(i) == facts[i].exists /\ ~facts[i].deleted
Active == {i \in Ids : Standing(i) /\ facts[i].by = 0}

\* The queue's order: captured_at, which a claim keeps for as long as it has
\* a buffer row.  A row's captured_at is later than every earlier one's.
Now == 1 + Cardinality({i \in Ids : buffer[i].status # "absent"})
Earliest(S) == CHOOSE i \in S : \A j \in S : buffer[i].at <= buffer[j].at

\* Nothing in the code keeps these apart; a configuration that wants to see
\* one kind of work on its own asks for it with Alone.
MayRound == /\ "edit" \in Alone => edit.step = "idle"
            /\ "deletion" \in Alone => deletion.step = "idle"
MayEdit == /\ "edit" \in Alone => round.step = "idle"
           /\ "deletion" \in Alone => deletion.step = "idle"
MayDelete == "deletion" \in Alone => round.step = "idle" /\ edit.step = "idle"

Init == /\ buffer = [i \in Ids |-> NoCapture]
        /\ facts = [i \in Ids |-> NoFact]
        /\ minted = 0
        /\ round = Resting
        /\ edit = NoEdit
        /\ deletion = NoDeletion
        /\ faults = 0 /\ edits = 0 /\ deletions = 0
        /\ closed = {}
        /\ kept = [i \in Ids |-> {}]

---------------------------------------------------------------------------
(* A turn files a claim.                                                   *)

\* buffer_capture: a fresh id, waiting.
Say(t) ==
    /\ minted < MaxClaims
    /\ minted' = minted + 1
    /\ buffer' = [buffer EXCEPT ![minted + 1] =
           [status |-> "buffered", c |-> t, resolved |-> 0, at |-> Now]]
    /\ kept' = [kept EXCEPT ![minted + 1] = t.excluded]
    /\ UNCHANGED <<facts, round, edit, deletion, faults, edits, deletions, closed>>

\* The active rows that say what claim c says about the same subject.
Near(c) == {f \in Active : facts[f].c.words = c.words /\ facts[f].c.subject = c.subject}
Fences(c) == {f \in Near(c) : takes_exclusion(c, facts[f].c, Roster)}
Copies(c) == {f \in Near(c) : same_as_row(c, facts[f].c)}
Kin(c) == {f \in Near(c) : facts[f].c.sender = c.sender}

\* fact_index::restrict_to on a row a claim folds into, here in one step (Retelling splits
\* it), with the claim's own wish remembered.
restrict_to(f, readers, excluded, c) ==
    /\ facts' = [facts EXCEPT ![f].c.allow = readers, ![f].c.excluded = @ \cup excluded]
    /\ kept' = [kept EXCEPT ![f] = @ \cup c.excluded]

\* wiki_capture_with_source: a claim written straight through takes its
\* exclusion to a row already there, or is dropped as a copy of one, or
\* becomes a fact with no buffer row.  Which of several rows is the nearest in
\* words is left open.  A page write that fails tombstones the new row.
CaptureLive(t) ==
    /\ \/ \E f \in Fences(t) :
             /\ restrict_to(f, frozen_readers(t, facts[f].c, Roster), t.excluded, t)
             /\ UNCHANGED <<minted, faults>>
       \/ /\ Fences(t) = {}
          /\ Copies(t) = {} \/ \E f \in Copies(t) : facts[f].c.media # t.media
          /\ minted < MaxClaims
          /\ minted' = minted + 1
          /\ kept' = [kept EXCEPT ![minted + 1] = t.excluded]
          /\ \E failed \in BOOLEAN :
                /\ faults' = faults + IF failed THEN 1 ELSE 0
                /\ faults' <= MaxFaults
                /\ facts' = [facts EXCEPT ![minted + 1] =
                       [exists |-> TRUE, c |-> t, by |-> 0, deleted |-> failed]]
    /\ UNCHANGED <<buffer, round, edit, deletion, edits, deletions, closed>>

---------------------------------------------------------------------------
(* The dream round.                                                        *)

\* run_light and run_closing_pass: with nothing waiting there is no round; a
\* bag without a prose writer compiles nothing, and only a full bag has the
\* strong model of the closing pass.
StartRound(pass) ==
    /\ round.step = "idle"
    /\ MayRound
    /\ Waiting # {}
    /\ Bag # "no_cronista"
    /\ pass = "closing" => Bag = "full"
    /\ LET read == {i \in Waiting : Cardinality({j \in Waiting : buffer[j].at < buffer[i].at})
                                        < MaxPromotions}
       IN  round' = [Resting EXCEPT !.step = "screen", !.pass = pass, !.todo = read,
                         !.snap = [i \in Ids |-> IF i \in read THEN buffer[i].c ELSE Nothing]]
    /\ UNCHANGED <<buffer, facts, minted, edit, deletion, faults, edits, deletions, closed, kept>>

Next1 == Earliest(round.todo)
Claim == round.snap[Next1]

\* same_audience: one set of readers each, the author among them.
same_audience(a, b) ==
    reader_set(a.subject, a.allow, a.sender, a.excluded)
        = reader_set(b.subject, b.allow, b.sender, b.excluded)

Twins(c) == {j \in round.rows : /\ same_audience(round.snap[j], c)
                                /\ round.snap[j].words = c.words
                                /\ round.snap[j].media = c.media}

SkipDup_NoSurvivor(i, into) ==
    buffer' = [buffer EXCEPT ![i] =
        IF @.status = "buffered" THEN [@ EXCEPT !.status = "skipped_dup"] ELSE @]

\* mark_skipped_dup, which touches a waiting row only.
SkipDup(i, into) ==
    buffer' = [buffer EXCEPT ![i] =
        IF @.status = "buffered" THEN [@ EXCEPT !.status = "skipped_dup", !.resolved = into] ELSE @]

Screening == round.step = "screen" /\ round.todo # {}
Screened(rows) == round' = [round EXCEPT !.todo = @ \ {Next1}, !.rows = rows]

\* screen_queue: the same claim was accepted earlier in this pass.
FoldIntoTwin ==
    /\ Screening
    /\ Twins(Claim) # {}
    /\ SkipDup(Next1, Earliest(Twins(Claim)))
    /\ Screened(round.rows)
    /\ UNCHANGED <<facts, minted, edit, deletion, faults, edits, deletions, closed, kept>>

\* screen_one: the claim's exclusion goes to the fact already there.
FoldFence ==
    /\ Screening
    /\ Twins(Claim) = {}
    /\ \E f \in Fences(Claim) :
          /\ restrict_to(f, frozen_readers(Claim, facts[f].c, Roster), Claim.excluded, Claim)
          /\ SkipDup(Next1, f)
    /\ Screened(round.rows)
    /\ UNCHANGED <<minted, edit, deletion, faults, edits, deletions, closed>>

FoldCopy_OnItself ==
    /\ Screening
    /\ Twins(Claim) = {} /\ Fences(Claim) = {}
    /\ \E f \in Copies(Claim) :
          /\ facts[f].c.media = Claim.media
          /\ SkipDup(Next1, f)
    /\ Screened(round.rows)
    /\ UNCHANGED <<facts, minted, edit, deletion, faults, edits, deletions, closed, kept>>

\* screen_one: the ordinary dedup hit, never on the claim's own fact.  The
\* media is compared on the nearest row alone.
FoldCopy ==
    /\ Screening
    /\ Twins(Claim) = {} /\ Fences(Claim) = {}
    /\ \E f \in Copies(Claim) \ {Next1} :
          /\ facts[f].c.media = Claim.media
          /\ SkipDup(Next1, f)
    /\ Screened(round.rows)
    /\ UNCHANGED <<facts, minted, edit, deletion, faults, edits, deletions, closed, kept>>

\* No row the dedup scan may have picked as the nearest has the claim's media.
PastDedup ==
    /\ Screening
    /\ Twins(Claim) = {} /\ Fences(Claim) = {}
    /\ LET copies == Copies(Claim) \ {Next1}
       IN  copies = {} \/ \E f \in copies : facts[f].c.media # Claim.media

\* screen_one: said to a different room, the claim settles who reads the fact.
FoldAudience ==
    /\ PastDedup
    /\ \E f \in Kin(Claim) :
          /\ carries_audience(Claim, facts[f].c, Roster)
          /\ restrict_to(f, settled_readers(Claim, facts[f].c, Roster),
                      settled_excluded(Claim, facts[f].c), Claim)
          /\ SkipDup(Next1, f)
    /\ Screened(round.rows)
    /\ UNCHANGED <<minted, edit, deletion, faults, edits, deletions, closed>>

\* home_wiki: the subject's own wiki, else the author's unless an agent's.
home_wiki(c) == c.subject \in Homes \/ c.sender \cap (Homes \ Agents) # {}

\* screen_one: the claim survives, or has no wiki to be born in and waits.
Accept ==
    /\ PastDedup
    /\ Kin(Claim) = {} \/ \E f \in Kin(Claim) : ~carries_audience(Claim, facts[f].c, Roster)
    /\ Screened(IF home_wiki(Claim) THEN round.rows \cup {Next1} ELSE round.rows)
    /\ UNCHANGED <<buffer, facts, minted, edit, deletion, faults, edits, deletions, closed, kept>>

\* A claim whose screening failed is left waiting.
ScreenFails ==
    /\ Screening
    /\ faults < MaxFaults
    /\ faults' = faults + 1
    /\ Screened(round.rows)
    /\ UNCHANGED <<buffer, facts, minted, edit, deletion, edits, deletions, closed, kept>>

MustPlace_CardsOnly == {i \in round.rows : round.snap[i].kind = "card"}

\* What the plan has to place: a claim a card holds always has its card, and
\* the closing pass names a page after the topic of any other.
MustPlace == {i \in round.rows : \/ round.snap[i].kind = "card"
                                 \/ round.pass = "closing" /\ round.snap[i].kind = "topic"}

\* build_wiki_plan: without a model only the card fallback places anything;
\* with one, the model may place any other claim too.
Plan ==
    /\ round.step = "screen"
    /\ round.todo = {}
    /\ \E placed \in SUBSET round.rows :
          /\ MustPlace \subseteq placed
          /\ Bag = "none" => placed = MustPlace
          /\ round' = [round EXCEPT !.step = "write", !.todo = placed]
    /\ UNCHANGED <<buffer, facts, minted, edit, deletion, faults, edits, deletions, closed, kept>>

FromCapture_NoEnd(c) == [c EXCEPT !.why = "none", !.ended = FALSE]
FromCapture_NoExclusion(c) == [c EXCEPT !.why = "none", !.excluded = {}]

\* The new row write_placed builds: the claim as it was read, its reason aside.
FromCapture(c) == [c EXCEPT !.why = "none"]

insert_if_absent_Replaces(row, c) == [exists |-> TRUE, c |-> c, by |-> 0, deleted |-> FALSE]

\* The conflict is on the id, whatever the row there has become.
insert_if_absent(row, c) ==
    IF row.exists THEN row ELSE [exists |-> TRUE, c |-> c, by |-> 0, deleted |-> FALSE]

\* write_placed, first statement: insert_if_absent of the claim as it was read.
InsertFact ==
    /\ round.step = "write"
    /\ round.todo # {}
    /\ LET c == round.snap[Next1]
       IN  /\ facts' = [facts EXCEPT ![Next1] = insert_if_absent(@, FromCapture(c))]
           /\ round' = [round EXCEPT !.step = IF c.why = "none" THEN "mark" ELSE "stamp",
                                     !.todo = @ \ {Next1}, !.cur = Next1]
    /\ UNCHANGED <<buffer, minted, edit, deletion, faults, edits, deletions, closed, kept>>

\* write_placed: stamp_decay_reason.
StampReason ==
    /\ round.step = "stamp"
    /\ facts' = [facts EXCEPT ![round.cur].c.why = IF Standing(round.cur)
                                                   THEN round.snap[round.cur].why ELSE @]
    /\ round' = [round EXCEPT !.step = "mark"]
    /\ UNCHANGED <<buffer, minted, edit, deletion, faults, edits, deletions, closed, kept>>

\* write_placed, last statement: mark_promoted, which touches a waiting row only.
MarkPromoted ==
    /\ round.step = "mark"
    /\ buffer' = [buffer EXCEPT ![round.cur] =
           IF @.status = "buffered" THEN [@ EXCEPT !.status = "promoted", !.resolved = round.cur]
           ELSE @]
    /\ round' = [round EXCEPT !.step = "write", !.cur = 0]
    /\ UNCHANGED <<facts, minted, edit, deletion, faults, edits, deletions, closed, kept>>

\* A claim whose write failed is left where the failure found it.
WriteFails ==
    /\ \/ round.step = "write" /\ round.todo # {}
          /\ round' = [round EXCEPT !.todo = @ \ {Next1}]
       \/ round.step \in {"stamp", "mark"}
          /\ round' = [round EXCEPT !.step = "write", !.cur = 0]
    /\ faults < MaxFaults
    /\ faults' = faults + 1
    /\ UNCHANGED <<buffer, facts, minted, edit, deletion, edits, deletions, closed, kept>>

\* The round is over, or an error outside the claims (the plan's) ends it.
EndRound ==
    /\ \/ round.step = "write" /\ round.todo = {} /\ UNCHANGED faults
       \/ round.step = "screen" /\ faults < MaxFaults /\ faults' = faults + 1
    /\ round' = Resting
    /\ UNCHANGED <<buffer, facts, minted, edit, deletion, edits, deletions, closed, kept>>

RoundStep == \/ FoldIntoTwin \/ FoldFence \/ FoldCopy \/ FoldAudience \/ Accept \/ ScreenFails
             \/ Plan \/ InsertFact \/ StampReason \/ MarkPromoted \/ WriteFails \/ EndRound

---------------------------------------------------------------------------
(* A turn changes a claim already filed.                                   *)

\* The claim as recall showed it to the turn: the live fact, or the waiting row.
Recalled(i) == i \in Active \cup Waiting
Row(i) == IF Standing(i) THEN facts[i].c ELSE buffer[i].c
GroupsIn(u) == GroupsOf(u, Roster)

\* What the claim says wherever it now lives, the fact store first.
Said(i) == IF facts[i].exists THEN facts[i].c ELSE buffer[i].c

StartEdit(v) ==
    /\ edit.step = "idle"
    /\ MayEdit
    /\ edits < MaxEdits
    /\ edits' = edits + 1
    /\ v \in Verbs

\* The verb found no fact of that id: the buffer is asked next.
Missed(v, i, s) ==
    edit' = [step |-> "missed", kind |-> v.kind, target |-> i, successor |-> 0,
             subject |-> s, allow |-> v.allow, excluded |-> v.excluded]

\* The exclusions move only when the message names some.
Wish(wish, now) == IF wish = {} THEN now ELSE UNION wish

\* apply_plan_closures, the fact half: whoever may retract ends the window.
CloseFact(v, i) ==
    /\ StartEdit(v)
    /\ v.kind = "close"
    /\ Recalled(i)
    /\ sender_may_retract(Row(i), v.by, GroupsIn(v.by))
    /\ IF Standing(i)
       THEN /\ facts' = [facts EXCEPT ![i].c.ended = TRUE, ![i].c.why = "retracted"]
            /\ closed' = closed \cup {i}
            /\ UNCHANGED edit
       ELSE Missed(v, i, Row(i).subject) /\ UNCHANGED <<facts, closed>>
    /\ UNCHANGED <<buffer, minted, round, deletion, faults, deletions, kept>>

\* The subject moves only when the message names another.
NewSubject(asked, now) == IF asked = {} THEN now ELSE CHOOSE s \in asked : TRUE

set_acl(c, subject, allow, wish) ==
    [c EXCEPT !.subject = subject, !.allow = allow, !.excluded = Wish(wish, @)]

\* apply_plan_acl_changes, the fact half: only the subject changes who reads,
\* and may give the fact another subject.
ReshareFact(v, i) ==
    /\ StartEdit(v)
    /\ v.kind = "reshare"
    /\ Recalled(i)
    /\ sender_is_subject(Row(i).subject, v.by, GroupsIn(v.by))
    /\ LET subject == NewSubject(v.subject, Row(i).subject)
       IN  IF Standing(i)
           THEN /\ facts' = [facts EXCEPT ![i].c = set_acl(@, subject, v.allow, v.excluded)]
                /\ kept' = [kept EXCEPT ![i] = Wish(v.excluded, @)]
                /\ UNCHANGED edit
           ELSE Missed(v, i, subject) /\ UNCHANGED <<facts, kept>>
    /\ UNCHANGED <<buffer, minted, round, deletion, faults, deletions, closed>>

successor_exists_Assumed(j) == TRUE

\* The successor has a row to be welded to: a fact, a forgotten one included,
\* or a waiting claim.
successor_exists(j) == facts[j].exists \/ Buffered(j)

\* inherit_audience landed: on a live fact or on a waiting claim.
takes_audience(j) == Standing(j) \/ Buffered(j)

\* weld_with_audience up to the weld: the claim the turn has just filed takes
\* over the readers of the one it corrects (the sender and `global` aside),
\* in whichever store it is; with nobody to carry it only has to exist.
Inherit(v, i) ==
    /\ StartEdit(v)
    /\ v.kind = "weld"
    /\ Recalled(i)
    /\ i < minted
    /\ Said(minted).sender = {v.by}
    /\ sender_may_rewrite(Row(i), v.by, GroupsIn(v.by))
    /\ LET heirs == Row(i).allow \ {v.by, Global}
       IN  /\ IF heirs = {} THEN successor_exists(minted) ELSE takes_audience(minted)
           /\ facts' = IF heirs # {} /\ Standing(minted)
                       THEN [facts EXCEPT ![minted].c.allow = heirs] ELSE facts
           /\ buffer' = IF heirs # {} /\ ~Standing(minted)
                        THEN [buffer EXCEPT ![minted].c.allow = heirs] ELSE buffer
    /\ edit' = [NoEdit EXCEPT !.step = "weld", !.kind = "weld", !.target = i, !.successor = minted]
    /\ UNCHANGED <<minted, round, deletion, faults, deletions, closed, kept>>

Contradicted_Unlisted(why) == "superseded"

\* The reason already there stands.
Contradicted(why) == IF why = "none" THEN "contradicted" ELSE why

mark_superseded(row, successor) ==
    [row EXCEPT !.by = successor,
                !.c = [row.c EXCEPT !.ended = TRUE, !.why = Contradicted(row.c.why)]]

\* weld_supersede, the fact half: mark_superseded.
Weld ==
    /\ edit.step = "weld"
    /\ IF edit.target \in Active
       THEN /\ facts' = [facts EXCEPT ![edit.target] = mark_superseded(@, edit.successor)]
            /\ edit' = NoEdit
       ELSE edit' = [edit EXCEPT !.step = "missed"] /\ UNCHANGED facts
    /\ UNCHANGED <<buffer, minted, round, deletion, faults, edits, deletions, closed, kept>>

\* The buffer half of all three: a waiting row takes the change.  The buffer's
\* set_acl has no column for the exclusions, which the turn reports as applied.
EditBuffered ==
    /\ edit.step = "missed"
    /\ LET i == edit.target
       IN  /\ Buffered(i)
           /\ buffer' = [buffer EXCEPT ![i].c =
                  CASE edit.kind = "close"   -> [@ EXCEPT !.ended = TRUE, !.why = "retracted"]
                    [] edit.kind = "reshare" -> set_acl(@, edit.subject, edit.allow, {})
                    [] edit.kind = "weld"    -> [@ EXCEPT !.ended = TRUE, !.why = "contradicted"]]
           /\ closed' = IF edit.kind = "reshare" THEN closed ELSE closed \cup {i}
           /\ kept' = IF edit.kind = "reshare"
                      THEN [kept EXCEPT ![i] = Wish(edit.excluded, @)] ELSE kept
    /\ edit' = NoEdit
    /\ UNCHANGED <<facts, minted, round, deletion, faults, edits, deletions>>

\* Neither store knows the id: the turn drops the change.
DropEdit ==
    /\ edit.step = "missed"
    /\ ~Buffered(edit.target)
    /\ edit' = NoEdit
    /\ UNCHANGED <<buffer, facts, minted, round, deletion, faults, edits, deletions, closed, kept>>

\* mark_forgotten, from wiki_forget or an answered forget request.
Forget(i) ==
    /\ MayEdit
    /\ edits < MaxEdits
    /\ edits' = edits + 1
    /\ Standing(i)
    /\ facts' = [facts EXCEPT ![i].deleted = TRUE]
    /\ UNCHANGED <<buffer, minted, round, edit, deletion, faults, deletions, closed, kept>>

---------------------------------------------------------------------------
(* A page is deleted.                                                      *)

\* find_active_by_source_path: any of the active facts may be on the page.
Listed(ids) == ids # {} /\ ids \subseteq Active

\* delete_page_direct: the rows of the page are listed once.  With `all` (the
\* admin's TombstoneAll) nothing goes back to the queue.
StartDelete(who, ids, all) ==
    /\ deletion.step = "idle"
    /\ MayDelete
    /\ deletions < MaxDeletions
    /\ deletions' = deletions + 1
    /\ Listed(ids)
    /\ deletion' = [NoDeletion EXCEPT !.step = "next", !.who = who, !.ids = ids, !.all = all]
    /\ UNCHANGED <<buffer, facts, minted, round, edit, faults, edits, closed, kept>>

\* decide: the deleter's own facts are forgotten, another's go back to the
\* queue if its author, or else its subject, has a wiki to be placed in.
Evacuates(c, who) ==
    /\ c.sender # {who} /\ (c.sender = {} => c.subject # who)
    /\ \/ c.sender \cap Homes # {}
       \/ c.sender = {} /\ c.subject \in Homes
       \/ c.subject # who /\ c.subject \in Homes

\* One listed fact: forgotten, or read for its way back (rebuffer_fact's check).
DeleteNext(i) ==
    /\ deletion.step = "next"
    /\ i \in deletion.ids
    /\ IF ~deletion.all /\ Evacuates(facts[i].c, deletion.who)
       THEN /\ deletion' = IF Standing(i)
                           THEN [deletion EXCEPT !.step = "commit", !.ids = @ \ {i},
                                                 !.cur = i, !.row = facts[i].c]
                           ELSE [deletion EXCEPT !.ids = @ \ {i}]
            /\ UNCHANGED facts
       ELSE /\ facts' = [facts EXCEPT ![i].deleted = @ \/ facts[i].exists]
            /\ deletion' = [deletion EXCEPT !.ids = @ \ {i}]
    /\ UNCHANGED <<buffer, minted, round, edit, faults, edits, deletions, closed, kept>>

\* The queue row of a fact that goes back: a new one, or the one still there,
\* which keeps what it says.
Requeue(row, c) ==
    IF row.status = "absent"
    THEN [status |-> "buffered", c |-> c, resolved |-> 0, at |-> Now]
    ELSE [row EXCEPT !.status = "buffered", !.resolved = 0]

\* rebuffer_fact's transaction: the claim waits again under its own id and the
\* fact row is gone.
Rebuffer ==
    /\ deletion.step = "commit"
    /\ LET i == deletion.cur
       IN  /\ buffer' = [buffer EXCEPT ![i] = Requeue(@, deletion.row)]
           /\ facts' = [facts EXCEPT ![i] = NoFact]
    /\ deletion' = [deletion EXCEPT !.step = "next", !.cur = 0, !.row = Nothing]
    /\ UNCHANGED <<minted, round, edit, faults, edits, deletions, closed, kept>>

EndDelete ==
    /\ deletion.step = "next"
    /\ deletion.ids = {}
    /\ deletion' = NoDeletion
    /\ UNCHANGED <<buffer, facts, minted, round, edit, faults, edits, deletions, closed, kept>>

---------------------------------------------------------------------------
\* The process dies and restarts: the two tables are all that is left.
Crash ==
    /\ faults < MaxFaults
    /\ faults' = faults + 1
    /\ round' = Resting /\ edit' = NoEdit /\ deletion' = NoDeletion
    /\ UNCHANGED <<buffer, facts, minted, edits, deletions, closed, kept>>

Next ==
    \/ \E t \in Tellings : Say(t)
    \/ \E t \in LiveTellings : CaptureLive(t)
    \/ \E pass \in {"light", "closing"} : StartRound(pass)
    \/ RoundStep
    \/ \E v \in Verbs, i \in Ids : CloseFact(v, i) \/ ReshareFact(v, i) \/ Inherit(v, i)
    \/ Weld \/ EditBuffered \/ DropEdit
    \/ \E i \in Ids : Forget(i)
    \/ \E who \in Deleters, ids \in SUBSET Ids, all \in BOOLEAN : StartDelete(who, ids, all)
    \/ \E i \in Ids : DeleteNext(i)
    \/ Rebuffer \/ EndDelete
    \/ Crash

Spec == Init /\ [][Next]_vars

\* The scheduler: a round that started goes on, an hourly round starts again,
\* and the night's closing pass gets the gate however often the hour takes it.
FairSpec == Spec /\ WF_vars(RoundStep) /\ WF_vars(StartRound("light"))
                 /\ SF_vars(StartRound("closing"))

---------------------------------------------------------------------------
(* Properties.                                                             *)

\* Type correctness of the two tables and of the round, the verb and the
\* deletion in flight.
TypeOK ==
    /\ buffer \in [Ids -> BufferRows]
    /\ facts \in [Ids -> FactRows]
    /\ minted \in 0..MaxClaims
    /\ round \in Rounds
    /\ edit \in Edits
    /\ deletion \in Deletions
    /\ faults \in 0..MaxFaults /\ edits \in 0..MaxEdits /\ deletions \in 0..MaxDeletions
    /\ closed \in SUBSET Ids
    /\ kept \in [Ids -> SUBSET Principals]

Lives(i) == Buffered(i) \/ facts[i].exists

\* Nothing said is lost: the trail of resolved_fact_id from any filed claim
\* leads to one that still waits or has its fact row.  (No set of claims can be
\* gone while they only point at one another.)
NothingLost ==
    \A S \in SUBSET (1..minted) :
        S # {} => \E i \in S : Lives(i) \/ buffer[i].resolved \notin S \cup {0}

\* A step that revives no forgotten fact and changes no supersession.
StayRetired ==
    \A i \in Ids : /\ facts[i].deleted => facts'[i].deleted
                   /\ facts[i].by # 0 => facts'[i].by = facts[i].by

\* A forgotten fact stays forgotten and a superseded one superseded, whatever
\* the round, a page deletion or a restart does (mark_forgotten, mark_superseded).
RetiredFactsStayRetired == [][StayRetired]_vars

\* Where a claim that no longer stands went: the successor it was welded to, or
\* the claim it was folded into.
Followed(i) == IF facts[i].exists THEN facts[i].by ELSE buffer[i].resolved

\* A claim is only ever retired onto something: following superseded_by and
\* resolved_fact_id from any claim reaches one that waits, stands unsuperseded
\* or was deliberately forgotten (weld_with_audience).  A pass that fails after
\* a fold may still break this, so it is claimed until a fault strikes.
RetiredOntoSomething ==
    faults = 0 =>
        \A S \in SUBSET (1..minted) :
            S # {} => \E i \in S : \/ Buffered(i) \/ i \in Active \/ facts[i].deleted
                                   \/ Followed(i) \notin S \cup {0}

\* A closure the turn acknowledged is still there wherever the claim now lives
\* (capture_buffer::close_validity: promotion carries it onto the fact).
ClosuresStick ==
    \A i \in closed : IF facts[i].exists THEN facts[i].deleted \/ facts[i].c.ended
                                         ELSE Buffered(i) => buffer[i].c.ended

\* Whoever a claim was asked to be kept from is still on its exclusion list
\* wherever the claim now lives, the wait included (rebuffer_fact, set_acl).
WishesStick ==
    \A i \in Ids : IF facts[i].exists THEN facts[i].deleted \/ kept[i] \subseteq facts[i].c.excluded
                                      ELSE Buffered(i) => kept[i] \subseteq buffer[i].c.excluded

\* A claim a partial run already wrote is never folded into its own fact by
\* the pass that finishes the job (screen_one).
NoClaimFoldsIntoItself ==
    \A i \in Ids : buffer[i].status = "skipped_dup" => buffer[i].resolved # i

\* A claim is folded only into one about the same subject by the same author
\* (same_audience, Audience::same_as_row).
FoldsKeepWhoseItIs ==
    [][\A i \in Ids :
          (Buffered(i) /\ buffer'[i].status = "skipped_dup") =>
              LET into == Said(buffer'[i].resolved)
              IN  into.subject = buffer[i].c.subject /\ into.sender = buffer[i].c.sender]_vars

\* A turn re-shares claim i, in one table or the other.
Reshares(i) == \/ \E v \in Verbs : ReshareFact(v, i)
               \/ EditBuffered /\ edit.kind = "reshare" /\ edit.target = i

\* Whom a claim is about moves only when a turn moves it (set_acl): promotion, a
\* retry of a half-done one, a fold and a restart carry the subject last asked for
\* (write_placed, insert_if_absent).
SubjectsMoveOnlyWhenAsked ==
    [][\A i \in 1..minted : Said(i)'.subject # Said(i).subject => Reshares(i)]_vars

\* The subject is the one thing about a fact that never moves (screen_one).
SubjectsNeverMove ==
    [][\A i \in Ids : (Standing(i) /\ facts'[i].exists)
                          => facts'[i].c.subject = facts[i].c.subject]_vars

\* A turn gives up on a change only when the claim really is in neither store
\* (apply_plan_closures).
NoEditIsDropped == [][DropEdit => ~Standing(edit.target)]_vars

\* The queue drains: a claim some pass is able to place stops waiting.
Drained ==
    \A i \in Ids : (Buffered(i) /\ buffer[i].c.kind # "bare" /\ home_wiki(buffer[i].c))
                       ~> ~Buffered(i)
===========================================================================
