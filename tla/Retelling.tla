----------------------------- MODULE Retelling -----------------------------
(***************************************************************************)
(* One claim, said again and again by its author to different rooms, and   *)
(* the fact rows that carry it.  A telling either folds into a row that is  *)
(* already there, possibly changing who reads it, or becomes a row of its   *)
(* own.  Two roads ask the question: a live turn (wiki_capture) and the     *)
(* hourly round (screen_one), which alone also carries a wider audience.    *)
(* The write both end in, fact_index::restrict_to, reads the row and then   *)
(* updates it in a second statement, with no transaction and no lock        *)
(* between the roads.  Meanwhile people join and leave groups, and the      *)
(* subject changes the audience with the permissions verb.                  *)
(***************************************************************************)
EXTENDS Acl

CONSTANTS MaxFacts,      \* bound on fact rows of this claim
          MaxSaid,       \* bound on tellings
          Turns,         \* live turns that may run beside the round
          Round,         \* the hourly round, one at a time behind its gate
          Subject,       \* who the claim is about
          Author,        \* who says it
          Tellings,      \* rooms the author may say it to: [allow, excluded]
          Reshares,      \* permission changes: [allow, excluded : {} or {list}]
          FirstRoster,   \* the groups as they are enrolled at the start
          Movers         \* bound: the people whose groups the operator edits

Actors == Turns \cup {Round}
Ids == 1..MaxFacts

ASSUME RetellingAssumption ==
    /\ MaxFacts \in Nat \ {0} /\ MaxSaid \in Nat
    /\ Round \notin Turns
    /\ Subject \in Users /\ Author \in Users
    /\ Tellings \subseteq [allow : SUBSET Principals, excluded : SUBSET Principals]
    /\ Reshares \subseteq [allow : SUBSET Principals, excluded : SUBSET SUBSET Principals]
    /\ \A r \in Reshares : Cardinality(r.excluded) <= 1
    /\ FirstRoster \in Rosters /\ Movers \subseteq Users

VARIABLES roster,   \* enrollment_groups
          facts,    \* the rows, in the order they were created
          queue,    \* the claims waiting in capture_buffer
          jobs,     \* what each road has in flight
          said,     \* tellings so far
          kept,     \* history: whom somebody asked to keep each row from
          told,     \* history: the people a processed telling named since the
                    \* subject last wrote an audience over one
          written,  \* history: rows whose audience the subject wrote over
          raced,    \* history: rows written between the two statements of
                    \* somebody else's restrict_to
          crossed   \* history: somebody decided about the claim while a road
                    \* had work in flight

vars == <<roster, facts, queue, jobs, said, kept, told, written, raced, crossed>>

Rows == [status : {"absent", "active"}, subject : Principals, sender : {{Author}},
         allow : SUBSET Principals, excluded : SUBSET Principals]

Claims == [subject : Principals, sender : {{Author}},
           allow : SUBSET Principals, excluded : SUBSET Principals]

NoClaim == [subject |-> Subject, sender |-> {Author}, allow |-> {}, excluded |-> {}]

Absent == [status |-> "absent", subject |-> Subject, sender |-> {Author},
           allow |-> {}, excluded |-> {}]

Jobs == [step : {"idle", "chosen", "read", "insert"}, claim : Claims, row : Ids,
         add : SUBSET Principals, readers : SUBSET Principals, union : SUBSET Principals]

Idle == [step |-> "idle", claim |-> NoClaim, row |-> 1,
         add |-> {}, readers |-> {}, union |-> {}]

Active == {i \in Ids : facts[i].status = "active"}

AllIdle == \A a \in Actors : jobs[a].step = "idle"

\* Nothing but the scheduler's luck keeps the roads apart.
Crosses == crossed' = (crossed \/ ~AllIdle)

Oldest(S) == CHOOSE i \in S : \A j \in S : i <= j

Init == /\ roster = FirstRoster
        /\ facts = [i \in Ids |-> Absent]
        /\ queue = {}
        /\ jobs = [a \in Actors |-> Idle]
        /\ said = 0
        /\ kept = [i \in Ids |-> {}]
        /\ told = {}
        /\ written = {}
        /\ raced = {}
        /\ crossed = FALSE

---------------------------------------------------------------------------
ClaimOf_Anonymous(t) == [NoClaim EXCEPT !.sender = {}, !.allow = t.allow, !.excluded = t.excluded]

\* The plan freezes an audience with an exclusion before the claim is filed.
ClaimOf(t) ==
    [NoClaim EXCEPT !.allow = audience_without_the_excluded(t.allow, t.excluded, roster),
                    !.excluded = t.excluded]

\* A classified claim joins the queue (two that are told alike fold there).
Say(t) ==
    /\ said < MaxSaid
    /\ said' = said + 1
    /\ queue' = queue \cup {ClaimOf(t)}
    /\ UNCHANGED <<roster, facts, jobs, kept, told, written, raced, crossed>>

\* What a road decides about claim c from one read of the active rows: take
\* the exclusion, fold as a duplicate, (the round only) carry the audience of
\* the oldest row of the claim, or file a row of its own.
Decide(a, c) ==
    LET fenced == {i \in Active : takes_exclusion(c, facts[i], roster)}
        same   == {i \in Active : same_as_row(c, facts[i])}
        claim  == {i \in Active : facts[i].subject = c.subject /\ facts[i].sender = c.sender}
        wider  == {i \in claim : i = Oldest(claim) /\ carries_audience(c, facts[i], roster)}
        restrict(i, add, readers) ==
            [Idle EXCEPT !.step = "chosen", !.claim = c, !.row = i, !.add = add, !.readers = readers]
    IN  jobs' = [jobs EXCEPT ![a] =
            IF fenced # {}
            THEN restrict(Oldest(fenced), c.excluded, frozen_readers(c, facts[Oldest(fenced)], roster))
            ELSE IF same # {} THEN Idle
            ELSE IF a = Round /\ wider # {}
            THEN restrict(Oldest(wider), settled_excluded(c, facts[Oldest(wider)]),
                          settled_readers(c, facts[Oldest(wider)], roster))
            ELSE [Idle EXCEPT !.step = "insert", !.claim = c]]

\* screen_one: the round takes the next waiting claim.
Screen(c) ==
    /\ jobs[Round].step = "idle"
    /\ c \in queue
    /\ queue' = queue \ {c}
    /\ told' = told \cup (c.allow \cap Users)
    /\ Decide(Round, c)
    /\ Crosses
    /\ UNCHANGED <<roster, facts, said, kept, written, raced>>

\* wiki_capture_with_source: a claim written straight through in its turn.
Tell(a, t) ==
    /\ a \in Turns
    /\ jobs[a].step = "idle"
    /\ said < MaxSaid
    /\ said' = said + 1
    /\ told' = told \cup (ClaimOf(t).allow \cap Users)
    /\ Decide(a, ClaimOf(t))
    /\ Crosses
    /\ UNCHANGED <<roster, facts, queue, kept, written, raced>>

\* The row is born with the claim's own audience.
Insert(a) ==
    /\ jobs[a].step = "insert"
    /\ Active # Ids
    /\ LET i == Oldest(Ids \ Active)
           c == jobs[a].claim
       IN  /\ facts' = [facts EXCEPT ![i] =
                  [status |-> "active", subject |-> c.subject, sender |-> c.sender,
                   allow |-> c.allow, excluded |-> c.excluded]]
           /\ kept' = [kept EXCEPT ![i] = c.excluded]
    /\ jobs' = [jobs EXCEPT ![a] = Idle]
    /\ UNCHANGED <<roster, queue, said, told, written, raced, crossed>>

\* Mutant of ReadRow: the caller's own list is written, no union is taken.
ReadRow_AsDecided(a) ==
    /\ jobs[a].step = "chosen"
    /\ jobs' = [jobs EXCEPT ![a].step = "read", ![a].union = jobs[a].add]
    /\ UNCHANGED <<roster, facts, queue, said, kept, told, written, raced, crossed>>

\* restrict_to, first statement: the union is taken against the row as read.
ReadRow(a) ==
    /\ jobs[a].step = "chosen"
    /\ jobs' = [jobs EXCEPT ![a].step = "read",
                            ![a].union = facts[jobs[a].row].excluded \cup jobs[a].add]
    /\ UNCHANGED <<roster, facts, queue, said, kept, told, written, raced, crossed>>

\* Row i is written while one of these roads holds what it read of it.
Races(i, others) ==
    raced' = IF \E b \in others : jobs[b].step = "read" /\ jobs[b].row = i
             THEN raced \cup {i} ELSE raced

\* restrict_to, second statement: both columns move together.
WriteRow(a) ==
    /\ jobs[a].step = "read"
    /\ LET j == jobs[a]
       IN  /\ facts' = [facts EXCEPT ![j.row].excluded = j.union, ![j.row].allow = j.readers]
           /\ kept' = [kept EXCEPT ![j.row] = @ \cup j.claim.excluded]
    /\ Races(jobs[a].row, Actors \ {a})
    /\ jobs' = [jobs EXCEPT ![a] = Idle]
    /\ UNCHANGED <<roster, queue, said, told, written, crossed>>

\* apply_plan_acl_changes / acl_change_operator on a stored fact: the audience
\* is overwritten as written; the exclusions move only when the message says so.
Reshare(i, r) ==
    /\ i \in Active
    /\ facts' = [facts EXCEPT ![i].allow = r.allow,
                              ![i].excluded = IF r.excluded = {} THEN @ ELSE UNION r.excluded]
    /\ kept' = [kept EXCEPT ![i] = IF r.excluded = {} THEN @ ELSE UNION r.excluded]
    /\ told' = {}
    /\ written' = written \cup {i}
    /\ Races(i, Actors)
    /\ Crosses
    /\ UNCHANGED <<roster, queue, jobs, said>>

\* The operator edits a group in the enrollment.
Join(u, g) ==
    /\ u \notin roster[g]
    /\ roster' = [roster EXCEPT ![g] = @ \cup {u}]
    /\ UNCHANGED <<facts, queue, jobs, said, kept, told, written, raced, crossed>>

Leave(u, g) ==
    /\ u \in roster[g]
    /\ roster' = [roster EXCEPT ![g] = @ \ {u}]
    /\ UNCHANGED <<facts, queue, jobs, said, kept, told, written, raced, crossed>>

Next ==
    \/ \E t \in Tellings : Say(t)
    \/ \E c \in queue : Screen(c)
    \/ \E a \in Turns, t \in Tellings : Tell(a, t)
    \/ \E a \in Actors : Insert(a) \/ ReadRow(a) \/ WriteRow(a)
    \/ \E i \in Ids, r \in Reshares : Reshare(i, r)
    \/ \E u \in Movers, g \in Groups \ {Global} : Join(u, g) \/ Leave(u, g)

Spec == Init /\ [][Next]_vars

---------------------------------------------------------------------------
(* Properties.                                                             *)

\* Type correctness; a row and a claim always have their one author.
TypeOK ==
    /\ roster \in Rosters
    /\ facts \in [Ids -> Rows]
    /\ queue \in SUBSET Claims
    /\ jobs \in [Actors -> Jobs]
    /\ said \in 0..MaxSaid
    /\ kept \in [Ids -> SUBSET Principals]
    /\ told \in SUBSET Users
    /\ written \in SUBSET Ids
    /\ raced \in SUBSET Ids
    /\ crossed \in BOOLEAN

\* Whoever somebody asked to keep a row from stays on its exclusion list until
\* somebody lifts the wish by name, through every fold and change of audience
\* of roads that run beside each other, on every row but those that were
\* written between the two statements of another restrict_to: the union is
\* taken inside it, so what landed since the caller decided is kept.
FencesStand == \A i \in Active \ raced : kept[i] \subseteq facts[i].excluded

\* "The exclusion can only ever narrow, and that is enforced HERE" (restrict_to):
\* what it writes drops nobody the row excludes.  Refuted: the union is taken
\* over a read the second statement does not repeat, so of two roads that
\* restrict one row the first one's exclusion is written over.
ExclusionsOnlyNarrow ==
    [][\A a \in Actors, i \in Active :
          WriteRow(a) => facts[i].excluded \subseteq facts'[i].excluded]_vars

\* Nobody comes to read a fenced row by joining a group: carrying an exclusion
\* freezes the readers to named people (audience_without_the_excluded), unless
\* the subject wrote a group over them since, or what was written had been
\* decided before somebody else's write.
JoiningReachesNoFencedFact ==
    [][\A u \in Users, g \in Groups, i \in Ids :
          /\ Join(u, g)
          /\ i \in Active \ written /\ ~crossed
          /\ facts[i].excluded # {}
          /\ can_read(facts[i], u, GroupsOf(u, roster'))
          => can_read(facts[i], u, GroupsOf(u, roster))]_vars

\* Whoever a processed telling named, and nobody asked to keep out, reads some
\* row of the claim once no road has work in flight: folding a claim takes the
\* union of the audiences and loses nobody, as long as nobody decided about
\* the claim beside a road that was still to write.
EveryRoomIsHeard ==
    AllIdle /\ ~crossed =>
        \A u \in told \ UNION {Expand(p, roster) : p \in UNION {kept[i] : i \in Ids}} :
            \E i \in Active : can_read(facts[i], u, GroupsOf(u, roster))

\* The predicate the store's queries pre-filter with answers every reader as
\* the row check that follows it does (readable_by_sql mirrors can_read).
QueriesAgreeWithTheRowCheck ==
    \A i \in Active, u \in Users :
        LET groups == GroupsOf(u, roster)
        IN  readable_by_sql(facts[i], reader_principals(u, groups))
                <=> can_read(facts[i], u, groups)

\* The electorate a forget request is put to is made of people who may read
\* the fact, and of all of them when the fact is not public.  A fact kept from
\* `global` itself is kept from everybody, a case acl::audience does not treat.
ElectorsAreTheReaders ==
    \A i \in Active : Global \notin facts[i].excluded =>
        LET f == facts[i]
            readers == {u \in Users : can_read(f, u, GroupsOf(u, roster))}
        IN  /\ audience(f, roster) \subseteq readers
            /\ ~is_public(f) => readers \subseteq audience(f, roster)
===========================================================================
