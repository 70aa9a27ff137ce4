------------------------------ MODULE Erasure ------------------------------
(***************************************************************************)
(* The erasure of a person: forget_user (gdpr.rs) walks the fact index,    *)
(* the capture buffer, the pages, the enrollment and the person's wiki in  *)
(* a fixed order, one statement or file at a time, with no lock.  Turns    *)
(* buffer claims, rounds place them and render pages, another erasure may  *)
(* run, and the process may die between any two steps; the operator then   *)
(* asks again, which does nothing once the enrollment row is gone.         *)
(*                                                                         *)
(* Every person has one home wiki, named after them; a page is the set of  *)
(* claims whose region it holds.                                           *)
(***************************************************************************)
EXTENDS Naturals, FiniteSets

CONSTANTS
    People,
    Members,    \* enrolled at the start, each with a home wiki
    Admin,      \* the deployment admin, whom nobody may forget
    Claims,
    About,      \* whom each claim is about: a person, or Global
    By,         \* who says it
    Rules,      \* claims filed on a rules page
    Cards,      \* claims parked for the owner of an identity card
    Global,     \* the group everybody is in: no home wiki
    Removed,    \* removed_sender: the author nobody answers to
    Nobody,
    Overlap,    \* which of "turn", "round", "erasure" run during an erasure
    MaxSaid,    \* bound: claims made
    MaxFaults   \* bound: crashes and failed page writes

ASSUME ErasureAssumption ==
    /\ Admin \in Members /\ Members \subseteq People /\ {Global, Removed, Nobody} \cap People = {}
    /\ About \in [Claims -> People \cup {Global}]
    /\ By \in [Claims -> People]
    /\ Rules \subseteq Claims /\ Cards \subseteq Claims
    /\ Overlap \subseteq {"turn", "round", "erasure"}
    /\ MaxSaid \in Nat /\ MaxFaults \in Nat

Subjects == People \cup {Global}
Senders == People \cup {Removed}

VARIABLES
    fact,      \* fact_index, by claim; "shown" is a row with region offsets
    buffer,    \* capture_buffer, by claim
    prose,     \* <<claim, wiki>>: the region is on a page of the wiki
    wikis,     \* home wikis on disk
    enrolled,  \* enrollment_users
    spent,     \* forgotten_user_ids
    forms,     \* ids a creation form has checked and not yet inserted
    job,       \* the forget_user running for each person
    round,     \* the claim a round has read from the buffer, and as whose
    faults,
    asked,     \* history: people somebody asked to forget
    said       \* history: claims somebody made

vars == <<fact, buffer, prose, wikis, enrolled, spent, job, round, faults, asked, said, forms>>

Rows == [subject : Subjects, sender : Senders, wiki : People,
         state : {"none", "active", "retired"}, shown : BOOLEAN]
Captures == [subject : Subjects, sender : Senders,
             status : {"none", "buffered", "processed", "held"}]
Stages == {"idle", "facts", "strip", "erase", "senders", "list", "relocate",
           "dest", "source", "rebuffer", "held", "own", "handover", "disown",
           "spend", "remove", "net", "husk"}

Views == [claim : Claims, subject : Subjects, sender : Senders, wiki : People]
Jobs == [pc : Stages, todo : SUBSET Views, cur : Claims \cup {Nobody}]

NoRow(c) == [subject |-> About[c], sender |-> By[c], wiki |-> By[c],
             state |-> "none", shown |-> FALSE]
NoCapture(c) == [subject |-> About[c], sender |-> By[c], status |-> "none"]
IdleJob == [pc |-> "idle", todo |-> {}, cur |-> Nobody]
IdleRound == [claim |-> Nobody, subject |-> Global, sender |-> Removed]

(* Type correctness: a row is about somebody who could be enrolled, never  *)
(* about the removed author, and an erasure works on one fact at a time.   *)
TypeOK ==
    /\ fact \in [Claims -> Rows]
    /\ buffer \in [Claims -> Captures]
    /\ prose \subseteq Claims \X People
    /\ wikis \subseteq People /\ enrolled \subseteq People /\ spent \subseteq People
    /\ forms \subseteq People
    /\ job \in [People -> Jobs]
    /\ round \in [claim : Claims \cup {Nobody}, subject : Subjects, sender : Senders]
    /\ faults \in 0 .. MaxFaults
    /\ asked \subseteq People /\ said \subseteq Claims

Init ==
    /\ fact = [c \in Claims |-> NoRow(c)]
    /\ buffer = [c \in Claims |-> NoCapture(c)]
    /\ prose = {} /\ wikis = Members /\ enrolled = Members /\ spent = {} /\ forms = {}
    /\ job = [p \in People |-> IdleJob]
    /\ round = IdleRound
    /\ faults = 0 /\ asked = {} /\ said = {}

Erasing == {p \in People : job[p].pc # "idle"}
MayRun(who) == Erasing # {} => who \in Overlap
Fault == faults < MaxFaults /\ faults' = faults + 1

------------------------------------------------------------------------------
(* What goes on around an erasure *)

(* A turn of an enrolled speaker buffers a claim about somebody enrolled;  *)
(* a disputed card value is parked.                                        *)
Say(c) ==
    /\ MayRun("turn")
    /\ buffer[c].status = "none" /\ fact[c].state = "none"
    /\ By[c] \in enrolled /\ About[c] \in enrolled \cup {Global}
    /\ said' = said \cup {c} /\ Cardinality(said') <= MaxSaid
    /\ buffer' = [buffer EXCEPT ![c].status = IF c \in Cards THEN "held" ELSE "buffered"]
    /\ UNCHANGED <<fact, prose, wikis, enrolled, spent, job, round, faults, asked, forms>>

(* The owner of the card takes the parked value. *)
Release(c) ==
    /\ MayRun("turn") /\ buffer[c].status = "held"
    /\ buffer' = [buffer EXCEPT ![c].status = "buffered"]
    /\ UNCHANGED <<fact, prose, wikis, enrolled, spent, job, round, faults, asked, said, forms>>

(* A round reads a waiting claim ... *)
RoundRead(c) ==
    /\ MayRun("round") /\ round = IdleRound
    /\ buffer[c].status = "buffered"
    /\ round' = [claim |-> c, subject |-> buffer[c].subject, sender |-> buffer[c].sender]
    /\ UNCHANGED <<fact, buffer, prose, wikis, enrolled, spent, job, faults, asked, said, forms>>

(* ... and places what it read on some wiki, to be rendered, then settles  *)
(* the buffer row, if it is still there.                                   *)
RoundPlace(w) ==
    /\ MayRun("round") /\ round # IdleRound
    /\ w \in wikis
    /\ fact[round.claim].state = "none"
    /\ fact' = [fact EXCEPT ![round.claim] =
                  [subject |-> round.subject, sender |-> round.sender, wiki |-> w,
                   state |-> "active", shown |-> FALSE]]
    /\ buffer' = [buffer EXCEPT ![round.claim].status =
                    IF @ = "none" THEN "none" ELSE "processed"]
    /\ round' = IdleRound
    /\ UNCHANGED <<prose, wikis, enrolled, spent, job, faults, asked, said, forms>>

(* compile_dirty_pages rewrites the pages of a wiki from the active rows   *)
(* filed there.                                                            *)
Compile(w) ==
    /\ MayRun("round") /\ w \in wikis
    /\ LET mine == {c \in Claims : fact[c].state = "active" /\ fact[c].wiki = w} IN
       /\ prose' = {r \in prose : r[2] # w} \cup (mine \X {w})
       /\ fact' = [c \in Claims |-> IF c \in mine THEN [fact[c] EXCEPT !.shown = TRUE]
                                                  ELSE fact[c]]
    /\ <<prose, fact>>' # <<prose, fact>>
    /\ UNCHANGED <<buffer, wikis, enrolled, spent, job, round, faults, asked, said, forms>>

(* The form that creates a user asks whether the id is taken and whether   *)
(* it is spent (reject_if_forgotten) ...                                   *)
validate_user_id_for_create(p) ==
    /\ p \notin enrolled \cup spent
    /\ forms' = forms \cup {p}
    /\ UNCHANGED <<fact, buffer, prose, wikis, enrolled, spent, job, round, faults, asked, said>>

(* ... and inserts the row in a transaction of its own, where only the     *)
(* primary key may refuse it.  Another form that was sent with the same id *)
(* may be as far.                                                          *)
Enrol(p) ==
    /\ p \in forms \ enrolled
    /\ enrolled' = enrolled \cup {p} /\ wikis' = wikis \cup {p}
    /\ forms' \in {forms, forms \ {p}}
    /\ UNCHANGED <<fact, buffer, prose, spent, job, round, faults, asked, said>>

(* The process dies: every erasure, the round and every form with it. *)
Crash ==
    /\ Fault
    /\ Erasing # {} \/ round # IdleRound
    /\ job' = [p \in People |-> IdleJob] /\ round' = IdleRound /\ forms' = {}
    /\ UNCHANGED <<fact, buffer, prose, wikis, enrolled, spent, asked, said>>

------------------------------------------------------------------------------
(* forget_user, step by step *)

Go(p, pc) == job' = [job EXCEPT ![p].pc = pc]
Seen(c) == [claim |-> c, subject |-> fact[c].subject, sender |-> fact[c].sender, wiki |-> fact[c].wiki]

(* find_active_by_subject: the rows as they are now. *)
Start(p) ==
    /\ p \in enrolled \ {Admin} /\ job[p].pc = "idle"
    /\ MayRun("erasure")
    /\ round # IdleRound => "round" \in Overlap
    /\ asked' = asked \cup {p}
    /\ job' = [job EXCEPT ![p] =
                 [pc |-> "facts", cur |-> Nobody,
                  todo |-> {Seen(c) : c \in {d \in Claims : fact[d].state = "active"
                                                            /\ fact[d].subject = p}}]]
    /\ UNCHANGED <<fact, buffer, prose, wikis, enrolled, spent, round, faults, said, forms>>

(* A rule goes, and so does what only the person or nobody said: the rest  *)
(* is the speaker's to keep.                                               *)
fate_of(p, row) ==
    IF row.claim \in Rules \/ row.sender \in {p, Removed} THEN "destroy" ELSE "hand over"

(* Step 1: a row the speaker keeps changes hands ... *)
retarget_subject(p, row) ==
    /\ job[p].pc = "facts" /\ row \in job[p].todo
    /\ fate_of(p, row) = "hand over"
    /\ fact' = IF fact[row.claim].state = "active"
               THEN [fact EXCEPT ![row.claim].subject = row.sender] ELSE fact
    /\ job' = [job EXCEPT ![p].todo = @ \ {row}]
    /\ UNCHANGED <<buffer, prose, wikis, enrolled, spent, round, faults, asked, said, forms>>

(* Mutant of mark_forgotten: every page is taken to be one of theirs. *)
mark_forgotten_NoStrip(p, row) ==
    /\ job[p].pc = "facts" /\ row \in job[p].todo
    /\ fate_of(p, row) = "destroy"
    /\ fact' = IF fact[row.claim].state = "active"
               THEN [fact EXCEPT ![row.claim].state = "retired"] ELSE fact
    /\ job' = [job EXCEPT ![p] = [pc |-> "erase", todo |-> @.todo \ {row}, cur |-> row.claim]]
    /\ UNCHANGED <<buffer, prose, wikis, enrolled, spent, round, faults, asked, said, forms>>

(* ... and the others are retired, ... *)
mark_forgotten(p, row) ==
    /\ job[p].pc = "facts" /\ row \in job[p].todo
    /\ fate_of(p, row) = "destroy"
    /\ fact' = IF fact[row.claim].state = "active"
               THEN [fact EXCEPT ![row.claim].state = "retired"] ELSE fact
    /\ job' = [job EXCEPT ![p] = [pc |-> IF row.wiki = p THEN "erase" ELSE "strip",
                                  todo |-> @.todo \ {row}, cur |-> row.claim]]
    /\ UNCHANGED <<buffer, prose, wikis, enrolled, spent, round, faults, asked, said, forms>>

(* ... their region cut out of the page, which a row with no offsets has   *)
(* none to cut and a page write may fail: then the row stays retired, ...  *)
strip_fact_region(p) ==
    LET c == job[p].cur IN
    /\ job[p].pc = "strip"
    /\ \/ /\ fact[c].state = "retired" /\ fact[c].shown
          /\ prose' = prose \ {<<c, fact[c].wiki>>}
          /\ fact' = [fact EXCEPT ![c].shown = FALSE]
          /\ Go(p, "erase") /\ UNCHANGED faults
       \/ /\ ~(fact[c].state = "retired" /\ fact[c].shown)
          /\ Go(p, "facts") /\ UNCHANGED <<prose, fact, faults>>
       \/ Fault /\ Go(p, "facts") /\ UNCHANGED <<prose, fact>>
    /\ UNCHANGED <<buffer, wikis, enrolled, spent, round, asked, said, forms>>

(* ... and only then deleted. *)
erase(p) ==
    /\ job[p].pc = "erase"
    /\ fact' = [fact EXCEPT ![job[p].cur] = NoRow(job[p].cur)]
    /\ Go(p, "facts")
    /\ UNCHANGED <<buffer, prose, wikis, enrolled, spent, round, faults, asked, said, forms>>

FactsDone(p) ==
    /\ job[p].pc = "facts" /\ job[p].todo = {}
    /\ Go(p, "senders")
    /\ UNCHANGED <<fact, buffer, prose, wikis, enrolled, spent, round, faults, asked, said, forms>>

(* Step 2: what they said of others keeps no author. *)
replace_sender(p) ==
    /\ job[p].pc = "senders"
    /\ fact' = [c \in Claims |-> IF fact[c].state = "active" /\ fact[c].sender = p
                                 THEN [fact[c] EXCEPT !.sender = Removed] ELSE fact[c]]
    /\ Go(p, "list")
    /\ UNCHANGED <<buffer, prose, wikis, enrolled, spent, round, faults, asked, said, forms>>

(* Mutant of find_active_in_wiki: only the rows of people are moved out. *)
find_active_in_wiki_OfPeople(p) ==
    /\ job[p].pc = "list"
    /\ job' = [job EXCEPT ![p] =
                 [pc |-> "relocate", cur |-> Nobody,
                  todo |-> {Seen(c) : c \in {d \in Claims : fact[d].state = "active"
                                    /\ fact[d].wiki = p /\ fact[d].subject # Global}}]]
    /\ UNCHANGED <<fact, buffer, prose, wikis, enrolled, spent, round, faults, asked, said, forms>>

(* Step 4: the rows still alive in their wiki, ... *)
find_active_in_wiki(p) ==
    /\ job[p].pc = "list"
    /\ job' = [job EXCEPT ![p] =
                 [pc |-> "relocate", cur |-> Nobody,
                  todo |-> {Seen(c) : c \in {d \in Claims : fact[d].state = "active"
                                                            /\ fact[d].wiki = p}}]]
    /\ UNCHANGED <<fact, buffer, prose, wikis, enrolled, spent, round, faults, asked, said, forms>>

destination_wiki(p, row) ==
    IF row.subject \in wikis \ {p} THEN row.subject ELSE Nobody

(* ... each refiled in the wiki of whoever it now belongs to, row first, ...*)
RefileRow(p, row) ==
    LET c == row.claim IN
    /\ job[p].pc = "relocate" /\ row \in job[p].todo
    /\ destination_wiki(p, row) # Nobody
    /\ IF fact[c].state = "active" /\ fact[c].wiki = p /\ <<c, p>> \in prose
       THEN /\ fact' = [fact EXCEPT ![c].wiki = destination_wiki(p, row), ![c].shown = FALSE]
            /\ job' = [job EXCEPT ![p] = [pc |-> "dest", todo |-> @.todo \ {row}, cur |-> c]]
       ELSE /\ job' = [job EXCEPT ![p] = [pc |-> "rebuffer", todo |-> @.todo \ {row}, cur |-> c]]
            /\ UNCHANGED fact
    /\ UNCHANGED <<buffer, prose, wikis, enrolled, spent, round, faults, asked, said, forms>>

(* (the row goes back when a page will not be written, and to the queue)   *)
RefileBack(p) ==
    /\ Fault /\ Go(p, "rebuffer")
    /\ fact' = [fact EXCEPT ![job[p].cur].wiki = p, ![job[p].cur].shown = TRUE]

(* ... its region written there, ... *)
RefileDest(p) ==
    LET c == job[p].cur IN
    /\ job[p].pc = "dest"
    /\ \/ /\ prose' = prose \cup {<<c, fact[c].wiki>>}
          /\ Go(p, "source") /\ UNCHANGED <<fact, faults>>
       \/ RefileBack(p) /\ UNCHANGED prose
    /\ UNCHANGED <<buffer, wikis, enrolled, spent, round, asked, said, forms>>

(* ... and cut here, ... *)
RefileSource(p) ==
    LET c == job[p].cur IN
    /\ job[p].pc = "source"
    /\ \/ /\ prose' = prose \ {<<c, p>>}
          /\ fact' = [fact EXCEPT ![c].shown = TRUE]
          /\ Go(p, "relocate") /\ UNCHANGED faults
       \/ RefileBack(p) /\ UNCHANGED prose
    /\ UNCHANGED <<buffer, wikis, enrolled, spent, round, asked, said, forms>>

(* rebuffer_fact: the buffer row the claim came from is reopened as it was *)
(* written, or one is copied from the fact; the fact row goes with it.     *)
Requeued(c) ==
    IF buffer[c].status # "none" THEN [buffer[c] EXCEPT !.status = "buffered"]
    ELSE [subject |-> fact[c].subject, sender |-> fact[c].sender, status |-> "buffered"]

rebuffer(c) ==
    IF fact[c].state = "active"
    THEN /\ buffer' = [buffer EXCEPT ![c] = Requeued(c)]
         /\ fact' = [fact EXCEPT ![c] = NoRow(c)]
    ELSE UNCHANGED <<buffer, fact>>

(* ... or freed into the queue when there is no wiki to go to or the       *)
(* refile was refused.                                                     *)
RebufferUnplaced(p, row) ==
    /\ job[p].pc = "relocate" /\ row \in job[p].todo
    /\ destination_wiki(p, row) = Nobody
    /\ rebuffer(row.claim)
    /\ job' = [job EXCEPT ![p].todo = @ \ {row}]
    /\ UNCHANGED <<prose, wikis, enrolled, spent, round, faults, asked, said, forms>>

RebufferRefused(p) ==
    /\ job[p].pc = "rebuffer"
    /\ rebuffer(job[p].cur) /\ Go(p, "relocate")
    /\ UNCHANGED <<prose, wikis, enrolled, spent, round, faults, asked, said, forms>>

RelocateDone(p) ==
    /\ job[p].pc = "relocate" /\ job[p].todo = {}
    /\ Go(p, "held")
    /\ UNCHANGED <<fact, buffer, prose, wikis, enrolled, spent, round, faults, asked, said, forms>>

(* Step 5, forget_captures: parked claims that name them go, ... *)
DropHeld(p) ==
    /\ job[p].pc = "held"
    /\ buffer' = [c \in Claims |->
                    IF buffer[c].status = "held" /\ p \in {buffer[c].subject, buffer[c].sender}
                    THEN NoCapture(c) ELSE buffer[c]]
    /\ Go(p, "own")
    /\ UNCHANGED <<fact, prose, wikis, enrolled, spent, round, faults, asked, said, forms>>

(* Mutant of DropOwn: the rows a round has settled are left. *)
DropOwn_Waiting(p) ==
    /\ job[p].pc = "own"
    /\ buffer' = [c \in Claims |->
                    IF buffer[c].subject = p /\ buffer[c].sender \in {p, Removed}
                       /\ buffer[c].status = "buffered"
                    THEN NoCapture(c) ELSE buffer[c]]
    /\ Go(p, "handover")
    /\ UNCHANGED <<fact, prose, wikis, enrolled, spent, round, faults, asked, said, forms>>

(* ... and what only they or nobody said of them, whatever its status, ... *)
DropOwn(p) ==
    /\ job[p].pc = "own"
    /\ buffer' = [c \in Claims |->
                    IF buffer[c].subject = p /\ buffer[c].sender \in {p, Removed}
                    THEN NoCapture(c) ELSE buffer[c]]
    /\ Go(p, "handover")
    /\ UNCHANGED <<fact, prose, wikis, enrolled, spent, round, faults, asked, said, forms>>

(* ... what others said of them changes hands, ... *)
HandOver(p) ==
    /\ job[p].pc = "handover"
    /\ buffer' = [c \in Claims |->
                    IF buffer[c].status # "none" /\ buffer[c].subject = p
                       /\ buffer[c].sender \notin {p, Removed}
                    THEN [buffer[c] EXCEPT !.subject = buffer[c].sender] ELSE buffer[c]]
    /\ Go(p, "disown")
    /\ UNCHANGED <<fact, prose, wikis, enrolled, spent, round, faults, asked, said, forms>>

(* Mutant of Disown: remove_user comes before record_forgotten_id. *)
Disown_RemovedFirst(p) ==
    /\ job[p].pc = "disown"
    /\ buffer' = [c \in Claims |->
                    IF buffer[c].status # "none" /\ buffer[c].sender = p
                    THEN [buffer[c] EXCEPT !.sender = Removed] ELSE buffer[c]]
    /\ enrolled' = enrolled \ {p} /\ Go(p, "spend")
    /\ UNCHANGED <<fact, prose, wikis, spent, round, faults, asked, said, forms>>

(* ... and what they said of others keeps no author. *)
Disown(p) ==
    /\ job[p].pc = "disown"
    /\ buffer' = [c \in Claims |->
                    IF buffer[c].status # "none" /\ buffer[c].sender = p
                    THEN [buffer[c] EXCEPT !.sender = Removed] ELSE buffer[c]]
    /\ Go(p, "spend")
    /\ UNCHANGED <<fact, prose, wikis, enrolled, spent, round, faults, asked, said, forms>>

(* Step 9: the id is spent, before ... *)
record_forgotten_id(p) ==
    /\ job[p].pc = "spend"
    /\ spent' = spent \cup {p} /\ Go(p, "remove")
    /\ UNCHANGED <<fact, buffer, prose, wikis, enrolled, round, faults, asked, said, forms>>

(* ... step 10, the enrollment row: past it there is no retry. *)
remove_user(p) ==
    /\ job[p].pc = "remove"
    /\ enrolled' = enrolled \ {p} /\ Go(p, "net")
    /\ UNCHANGED <<fact, buffer, prose, wikis, spent, round, faults, asked, said, forms>>

(* Step 11, delete_wiki_subtree: whatever stayed in the wiki is retired,   *)
(* and then ...                                                            *)
mark_forgotten_in_wiki(p) ==
    /\ job[p].pc = "net"
    /\ fact' = [c \in Claims |-> IF fact[c].state = "active" /\ fact[c].wiki = p
                                 THEN [fact[c] EXCEPT !.state = "retired"] ELSE fact[c]]
    /\ Go(p, "husk")
    /\ UNCHANGED <<buffer, prose, wikis, enrolled, spent, round, faults, asked, said, forms>>

(* ... the directory is erased. *)
HuskErase(p) ==
    /\ job[p].pc = "husk"
    /\ wikis' = wikis \ {p}
    /\ prose' = {r \in prose : r[2] # p}
    /\ job' = [job EXCEPT ![p] = IdleJob]
    /\ UNCHANGED <<fact, buffer, enrolled, spent, round, faults, asked, said, forms>>

Step(p) ==
    \/ \E row \in job[p].todo :
         retarget_subject(p, row) \/ mark_forgotten(p, row)
         \/ RefileRow(p, row) \/ RebufferUnplaced(p, row)
    \/ strip_fact_region(p) \/ erase(p) \/ FactsDone(p)
    \/ replace_sender(p) \/ find_active_in_wiki(p)
    \/ RefileDest(p) \/ RefileSource(p) \/ RebufferRefused(p) \/ RelocateDone(p)
    \/ DropHeld(p) \/ DropOwn(p) \/ HandOver(p) \/ Disown(p)
    \/ record_forgotten_id(p) \/ remove_user(p)
    \/ mark_forgotten_in_wiki(p) \/ HuskErase(p)

Next ==
    \/ \E c \in Claims : Say(c) \/ Release(c) \/ RoundRead(c)
    \/ \E w \in People : RoundPlace(w) \/ Compile(w) \/ validate_user_id_for_create(w) \/ Enrol(w)
    \/ \E p \in People : Start(p) \/ Step(p)
    \/ Crash

Spec == Init /\ [][Next]_vars

------------------------------------------------------------------------------
Erased == asked \ enrolled

Live(c) == fact[c].state = "active" \/ buffer[c].status \in {"buffered", "held"}

(* What forget_user is for: once the person is no longer enrolled, and so   *)
(* past every retry, no live fact and no row of the queue names them as     *)
(* its subject or its author, however often the erasure died and was asked  *)
(* again (forget_user steps 1, 2, 5 and 10).                                *)
NothingNamesTheErased ==
    \A p \in Erased, c \in Claims :
      /\ fact[c].state = "active" => p \notin {fact[c].subject, fact[c].sender}
      /\ buffer[c].status # "none" => p \notin {buffer[c].subject, buffer[c].sender}

(* "Erasing alice must not erase it" (gdpr.rs): a claim is lost only when   *)
(* everybody it is about or from asked to be forgotten, or it was a rule or *)
(* a card value of somebody who did; the subtree deletion at the end never  *)
(* finds a fact of anybody else.                                            *)
OthersKeepTheirs ==
    \A c \in said :
      \/ Live(c)
      \/ {About[c], By[c]} \subseteq asked
      \/ c \in Rules /\ About[c] \in asked
      \/ c \in Cards /\ {About[c], By[c]} \cap asked # {}

(* tombstone_fact deletes a row only when its prose is off the page: no     *)
(* destroyed claim is left readable in the wiki of somebody who stays, with *)
(* no row to find it by.                                                    *)
NoProseWithoutARow ==
    \A r \in prose :
      r[2] \notin asked => Live(r[1]) \/ fact[r[1]].state = "retired"

(* The id is spent before the person is removed, so no crash and no retry   *)
(* leaves a moment in which it is neither (record_forgotten_id before       *)
(* remove_user): once somebody is erased no form with their id passes its   *)
(* check again, and nobody is enrolled under it but by a form that had      *)
(* passed before.                                                          *)
SpentIdsPassNoCheck ==
    [][\A p \in Erased \ forms : p \notin enrolled' \cup forms']_vars

(* "so nobody is enrolled under it again" (enrollment.rs).  Refuted: the    *)
(* insert does not ask again, and a second form with the id that was        *)
(* checked before the erasure began inserts it when it is over.             *)
TheIdDoesNotComeBack == [][\A p \in Erased : p \notin enrolled']_vars
=============================================================================
