--------------------------- MODULE ErasureProofs ---------------------------
(***************************************************************************)
(* For any people, any claims, any crashes and failed writes: the types     *)
(* hold and a spent id does not come back, whatever runs beside an erasure. *)
(* When an erasure runs alone, nothing names who was erased, what others    *)
(* said is kept, and no destroyed claim stays readable in the wiki of       *)
(* somebody who stays.                                                      *)
(***************************************************************************)
EXTENDS Erasure, TLAPS

---------------------------------------------------------------------------
(* Types and ids, whatever overlaps.                                       *)

\* The stages that work on one claim have one.
CurIsAClaim ==
    \A p \in People : job[p].pc \in {"strip", "erase", "dest", "source", "rebuffer"}
                        => job[p].cur \in Claims

TypeInv == TypeOK /\ CurIsAClaim

\* Who was asked for is enrolled still, or their id is spent.
IdsInv ==
    /\ asked \subseteq enrolled \cup spent
    /\ \A p \in People : /\ job[p].pc # "idle" => p \in asked
                         /\ job[p].pc \in {"remove", "net", "husk"} => p \in spent

LEMMA Beginnings ==
    /\ IdleJob \in Jobs
    /\ IdleRound \in [claim : Claims \cup {Nobody}, subject : Subjects, sender : Senders]
    /\ \A c \in Claims : NoRow(c) \in Rows /\ NoCapture(c) \in Captures
<1>1. IdleJob \in Jobs
  BY DEF IdleJob, Jobs, Stages
<1>2. IdleRound \in [claim : Claims \cup {Nobody}, subject : Subjects, sender : Senders]
  BY DEF IdleRound, Subjects, Senders
<1>3. ASSUME NEW c \in Claims PROVE NoRow(c) \in Rows /\ NoCapture(c) \in Captures
  <2>1. About[c] \in Subjects /\ By[c] \in People /\ By[c] \in Senders
    BY ErasureAssumption DEF Subjects, Senders
  <2> QED
    BY <2>1 DEF NoRow, Rows, NoCapture, Captures
<1> QED
  BY <1>1, <1>2, <1>3

LEMMA RowFields ==
    ASSUME TypeOK, NEW c \in Claims
    PROVE  /\ fact[c] \in Rows /\ buffer[c] \in Captures
           /\ fact[c].subject \in Subjects /\ fact[c].sender \in Senders /\ fact[c].wiki \in People
           /\ fact[c].state \in {"none", "active", "retired"} /\ fact[c].shown \in BOOLEAN
           /\ buffer[c].subject \in Subjects /\ buffer[c].sender \in Senders
           /\ buffer[c].status \in {"none", "buffered", "processed", "held"}
<1>1. fact[c] \in Rows /\ buffer[c] \in Captures
  BY DEF TypeOK
<1> QED
  BY <1>1 DEF Rows, Captures

LEMMA SeenType ==
    ASSUME TypeOK, NEW c \in Claims
    PROVE  Seen(c) \in Views
  BY RowFields DEF Seen, Views

LEMMA ListType ==
    ASSUME TypeOK, NEW S \in SUBSET Claims
    PROVE  {Seen(c) : c \in S} \in SUBSET Views
  BY SeenType

\* One job moves to another stage; the others stand.
LEMMA GoMoves ==
    ASSUME TypeOK, NEW p \in People, NEW s \in Stages, Go(p, s)
    PROVE  /\ job' \in [People -> Jobs]
           /\ job'[p].pc = s /\ job'[p].todo = job[p].todo /\ job'[p].cur = job[p].cur
           /\ \A q \in People : q # p => job'[q] = job[q]
<1>1. job \in [People -> Jobs] /\ job[p] \in Jobs
  BY DEF TypeOK
<1>2. job' = [job EXCEPT ![p] = [@ EXCEPT !.pc = s]]
  BY DEF Go
<1>3. [job[p] EXCEPT !.pc = s] \in Jobs
  BY <1>1 DEF Jobs
<1>4. /\ [job[p] EXCEPT !.pc = s].pc = s
      /\ [job[p] EXCEPT !.pc = s].todo = job[p].todo
      /\ [job[p] EXCEPT !.pc = s].cur = job[p].cur
  BY <1>1 DEF Jobs
<1>5. \A q \in People : job'[q] = IF q = p THEN [job[p] EXCEPT !.pc = s] ELSE job[q]
  BY <1>1, <1>2
<1> QED
  BY <1>1, <1>2, <1>3, <1>4, <1>5

\* A job is replaced; the others stand.
LEMMA JobReplaced ==
    ASSUME TypeOK, NEW p \in People, NEW j \in Jobs, job' = [job EXCEPT ![p] = j]
    PROVE  job' \in [People -> Jobs] /\ job'[p] = j /\ \A q \in People : q # p => job'[q] = job[q]
  BY DEF TypeOK

\* A row of the list is dealt with.
LEMMA RowDone ==
    ASSUME TypeOK, NEW p \in People, NEW row, job' = [job EXCEPT ![p].todo = @ \ {row}]
    PROVE  /\ job' \in [People -> Jobs]
           /\ job'[p].pc = job[p].pc /\ job'[p].todo = job[p].todo \ {row} /\ job'[p].cur = job[p].cur
           /\ \A q \in People : q # p => job'[q] = job[q]
<1>1. job \in [People -> Jobs] /\ job[p] \in Jobs
  BY DEF TypeOK
<1> DEFINE j == [job[p] EXCEPT !.todo = @ \ {row}]
<1>2. j \in Jobs /\ j.pc = job[p].pc /\ j.todo = job[p].todo \ {row} /\ j.cur = job[p].cur
  BY <1>1 DEF Jobs
<1>3. \A q \in People : job'[q] = IF q = p THEN j ELSE job[q]
  BY <1>1
<1> HIDE DEF j
<1>4. job' = [job EXCEPT ![p] = j]
  BY DEF j
<1> QED
  BY <1>1, <1>2, <1>3, <1>4

\* The rows a job has listed, and what it makes of one, are rows of claims.
LEMMA JobFields ==
    ASSUME TypeOK, NEW p \in People
    PROVE  /\ job[p] \in Jobs /\ job[p].pc \in Stages /\ job[p].todo \in SUBSET Views
           /\ job[p].cur \in Claims \cup {Nobody}
           /\ \A row \in job[p].todo : /\ row.claim \in Claims /\ row.subject \in Subjects
                                       /\ row.sender \in Senders /\ row.wiki \in People
<1>1. job[p] \in Jobs
  BY DEF TypeOK
<1>2. job[p].todo \in SUBSET Views
  BY <1>1 DEF Jobs
<1> QED
  BY <1>1, <1>2 DEF Jobs, Views

\* A claim's row is replaced by another.
LEMMA FactReplaced ==
    ASSUME TypeOK, NEW c \in Claims, NEW r \in Rows, fact' = [fact EXCEPT ![c] = r]
    PROVE  fact' \in [Claims -> Rows] /\ fact'[c] = r /\ \A d \in Claims : d # c => fact'[d] = fact[d]
  BY DEF TypeOK

LEMMA BufferReplaced ==
    ASSUME TypeOK, NEW c \in Claims, NEW r \in Captures, buffer' = [buffer EXCEPT ![c] = r]
    PROVE  /\ buffer' \in [Claims -> Captures] /\ buffer'[c] = r
           /\ \A d \in Claims : d # c => buffer'[d] = buffer[d]
  BY DEF TypeOK

LEMMA AroundTypes ==
    ASSUME TypeInv,
           \/ \E c \in Claims : Say(c) \/ Release(c) \/ RoundRead(c)
           \/ \E w \in People : RoundPlace(w) \/ Compile(w) \/ validate_user_id_for_create(w) \/ Enrol(w)
           \/ Crash
    PROVE  TypeInv'
<1>0. TypeOK /\ CurIsAClaim
  BY DEF TypeInv
<1>1. ASSUME NEW c \in Claims, Say(c) PROVE TypeInv'
  <2>1. buffer' \in [Claims -> Captures]
    BY <1>0, <1>1 DEF Say, TypeOK, Captures
  <2> QED
    BY <1>0, <1>1, <2>1 DEF Say, TypeInv, TypeOK, CurIsAClaim
<1>2. ASSUME NEW c \in Claims, Release(c) PROVE TypeInv'
  <2>1. buffer' \in [Claims -> Captures]
    BY <1>0, <1>2 DEF Release, TypeOK, Captures
  <2> QED
    BY <1>0, <1>2, <2>1 DEF Release, TypeInv, TypeOK, CurIsAClaim
<1>3. ASSUME NEW c \in Claims, RoundRead(c) PROVE TypeInv'
  <2>1. round' \in [claim : Claims \cup {Nobody}, subject : Subjects, sender : Senders]
    BY <1>0, <1>3, RowFields DEF RoundRead
  <2> QED
    BY <1>0, <1>3, <2>1 DEF RoundRead, TypeInv, TypeOK, CurIsAClaim
<1>4. ASSUME NEW w \in People, RoundPlace(w) PROVE TypeInv'
  <2>1. round.subject \in Subjects /\ round.sender \in Senders
    BY <1>0 DEF TypeOK
  <2>2. [subject |-> round.subject, sender |-> round.sender, wiki |-> w,
         state |-> "active", shown |-> FALSE] \in Rows
    BY <2>1 DEF Rows
  <2>3. fact' \in [Claims -> Rows]
    BY <1>0, <1>4, <2>2 DEF RoundPlace, TypeOK
  <2>4. buffer' \in [Claims -> Captures]
    BY <1>0, <1>4 DEF RoundPlace, TypeOK, Captures
  <2> QED
    BY <1>0, <1>4, <2>3, <2>4, Beginnings DEF RoundPlace, TypeInv, TypeOK, CurIsAClaim
<1>5. ASSUME NEW w \in People, Compile(w) PROVE TypeInv'
  <2> DEFINE mine == {c \in Claims : fact[c].state = "active" /\ fact[c].wiki = w}
  <2>1. /\ prose' = {r \in prose : r[2] # w} \cup (mine \X {w})
        /\ fact' = [c \in Claims |-> IF c \in mine THEN [fact[c] EXCEPT !.shown = TRUE] ELSE fact[c]]
    BY <1>5 DEF Compile
  <2>2. mine \X {w} \subseteq Claims \X People
    OBVIOUS
  <2>3. \A c \in Claims : [fact[c] EXCEPT !.shown = TRUE] \in Rows /\ fact[c] \in Rows
    BY <1>0, RowFields DEF Rows
  <2> HIDE DEF mine
  <2>4. fact' \in [Claims -> Rows]
    BY <2>1, <2>3
  <2>5. prose' \subseteq Claims \X People
    BY <1>0, <2>1, <2>2 DEF TypeOK
  <2> QED
    BY <1>0, <1>5, <2>4, <2>5 DEF Compile, TypeInv, TypeOK, CurIsAClaim
<1>6. ASSUME NEW w \in People, validate_user_id_for_create(w) \/ Enrol(w) PROVE TypeInv'
  BY <1>0, <1>6 DEF validate_user_id_for_create, Enrol, TypeInv, TypeOK, CurIsAClaim
<1>7. CASE Crash
  <2>1. faults' \in 0..MaxFaults
    BY <1>0, <1>7, ErasureAssumption DEF Crash, Fault, TypeOK
  <2>2. job' \in [People -> Jobs] /\ \A p \in People : job'[p].pc = "idle"
    BY <1>7, Beginnings DEF Crash, IdleJob
  <2> QED
    BY <1>0, <1>7, <2>1, <2>2, Beginnings DEF Crash, TypeInv, TypeOK, CurIsAClaim
<1> QED
  BY <1>1, <1>2, <1>3, <1>4, <1>5, <1>6, <1>7

\* What an action does to the types when it moves one job and little else.
LEMMA JobMoved ==
    ASSUME TypeInv, NEW p \in People, job' \in [People -> Jobs],
           \A q \in People : q # p => job'[q] = job[q],
           job'[p].pc \in {"strip", "erase", "dest", "source", "rebuffer"} => job'[p].cur \in Claims,
           fact' \in [Claims -> Rows], buffer' \in [Claims -> Captures],
           prose' \subseteq Claims \X People, wikis' \subseteq People, enrolled' \subseteq People,
           spent' \subseteq People, round' = round, faults' \in 0..MaxFaults,
           asked' \subseteq People, said' = said, forms' = forms
    PROVE  TypeInv'
  BY DEF TypeInv, TypeOK, CurIsAClaim

LEMMA FactsTypes ==
    ASSUME TypeInv, NEW p \in People,
           \/ \E row \in job[p].todo : retarget_subject(p, row) \/ mark_forgotten(p, row)
           \/ strip_fact_region(p) \/ erase(p) \/ FactsDone(p) \/ replace_sender(p)
           \/ Start(p)
    PROVE  TypeInv'
<1>0. TypeOK /\ CurIsAClaim
  BY DEF TypeInv
<1>1. /\ fact \in [Claims -> Rows] /\ buffer \in [Claims -> Captures] /\ prose \subseteq Claims \X People
      /\ wikis \subseteq People /\ enrolled \subseteq People /\ spent \subseteq People
      /\ faults \in 0..MaxFaults /\ asked \subseteq People
  BY <1>0 DEF TypeOK
<1>2. ASSUME NEW row \in job[p].todo, retarget_subject(p, row) PROVE TypeInv'
  <2>1. row.claim \in Claims /\ row.sender \in Senders
    BY <1>0, JobFields
  <2>2. row.sender \in Subjects
    BY <1>2, <2>1 DEF retarget_subject, fate_of, Senders, Subjects
  <2>3. [fact[row.claim] EXCEPT !.subject = row.sender] \in Rows
    BY <1>0, <2>1, <2>2, RowFields DEF Rows
  <2>4. fact' \in [Claims -> Rows]
    BY <1>1, <1>2, <2>3 DEF retarget_subject
  <2>5. /\ job' = [job EXCEPT ![p].todo = @ \ {row}] /\ job[p].pc = "facts"
        /\ UNCHANGED <<buffer, prose, wikis, enrolled, spent, round, faults, asked, said, forms>>
    BY <1>2 DEF retarget_subject
  <2>6. /\ job' \in [People -> Jobs] /\ job'[p].pc = "facts"
        /\ \A q \in People : q # p => job'[q] = job[q]
    BY <1>0, <2>5, RowDone
  <2> QED
    BY <1>1, <2>4, <2>5, <2>6, JobMoved
<1>3. ASSUME NEW row \in job[p].todo, mark_forgotten(p, row) PROVE TypeInv'
  <2>1. row.claim \in Claims
    BY <1>0, JobFields
  <2>2. [fact[row.claim] EXCEPT !.state = "retired"] \in Rows
    BY <1>0, <2>1, RowFields DEF Rows
  <2>3. fact' \in [Claims -> Rows]
    BY <1>1, <1>3, <2>2 DEF mark_forgotten
  <2> DEFINE j == [pc |-> IF row.wiki = p THEN "erase" ELSE "strip",
                   todo |-> job[p].todo \ {row}, cur |-> row.claim]
  <2>4. j \in Jobs /\ j.cur \in Claims
    BY <1>0, <2>1, JobFields DEF Jobs, Stages
  <2>5. job' = [job EXCEPT ![p] = j]
    BY <1>3 DEF mark_forgotten
  <2> HIDE DEF j
  <2>6. job' \in [People -> Jobs] /\ job'[p] = j /\ \A q \in People : q # p => job'[q] = job[q]
    BY <1>0, <2>4, <2>5, JobReplaced
  <2> QED
    BY <1>1, <1>3, <2>3, <2>4, <2>6, JobMoved DEF mark_forgotten
<1>4. CASE strip_fact_region(p)
  <2>1. job[p].cur \in Claims
    BY <1>0, <1>4 DEF strip_fact_region, CurIsAClaim
  <2>2. [fact[job[p].cur] EXCEPT !.shown = FALSE] \in Rows
    BY <1>0, <2>1, RowFields DEF Rows
  <2>3. fact' \in [Claims -> Rows] /\ prose' \subseteq Claims \X People
    BY <1>1, <1>4, <2>2 DEF strip_fact_region
  <2>4. faults' \in 0..MaxFaults
    BY <1>1, <1>4, ErasureAssumption DEF strip_fact_region, Fault
  <2>5. PICK s \in Stages : Go(p, s)
    BY <1>4 DEF strip_fact_region, Stages
  <2>6. job' \in [People -> Jobs] /\ job'[p].cur \in Claims /\ \A q \in People : q # p => job'[q] = job[q]
    BY <1>0, <2>1, <2>5, GoMoves
  <2> QED
    BY <1>1, <1>4, <2>3, <2>4, <2>6, JobMoved DEF strip_fact_region
<1>5. CASE erase(p)
  <2>1. job[p].cur \in Claims
    BY <1>0, <1>5 DEF erase, CurIsAClaim
  <2>2. fact' \in [Claims -> Rows]
    BY <1>1, <1>5, <2>1, Beginnings DEF erase
  <2>3. /\ job' \in [People -> Jobs] /\ job'[p].pc = "facts"
        /\ \A q \in People : q # p => job'[q] = job[q]
    BY <1>0, <1>5, GoMoves DEF erase, Stages
  <2> QED
    BY <1>1, <1>5, <2>2, <2>3, JobMoved DEF erase
<1>6. CASE FactsDone(p)
  <2>1. /\ job' \in [People -> Jobs] /\ job'[p].pc = "senders"
        /\ \A q \in People : q # p => job'[q] = job[q]
    BY <1>0, <1>6, GoMoves DEF FactsDone, Stages
  <2> QED
    BY <1>1, <1>6, <2>1, JobMoved DEF FactsDone
<1>7. CASE replace_sender(p)
  <2>1. \A c \in Claims : [fact[c] EXCEPT !.sender = Removed] \in Rows /\ fact[c] \in Rows
    BY <1>0, RowFields DEF Rows, Senders
  <2>2. fact' \in [Claims -> Rows]
    BY <1>7, <2>1 DEF replace_sender
  <2>3. /\ job' \in [People -> Jobs] /\ job'[p].pc = "list"
        /\ \A q \in People : q # p => job'[q] = job[q]
    BY <1>0, <1>7, GoMoves DEF replace_sender, Stages
  <2> QED
    BY <1>1, <1>7, <2>2, <2>3, JobMoved DEF replace_sender
<1>8. CASE Start(p)
  <2> DEFINE all == {Seen(c) : c \in {d \in Claims : fact[d].state = "active" /\ fact[d].subject = p}}
             j == [pc |-> "facts", cur |-> Nobody, todo |-> all]
  <2>1. all \in SUBSET Views
    BY <1>0, ListType
  <2>2. job' = [job EXCEPT ![p] = j]
    BY <1>8 DEF Start
  <2> HIDE DEF all
  <2>3. j \in Jobs /\ j.pc = "facts"
    BY <2>1 DEF Jobs, Stages
  <2> HIDE DEF j
  <2>4. job' \in [People -> Jobs] /\ job'[p] = j /\ \A q \in People : q # p => job'[q] = job[q]
    BY <1>0, <2>2, <2>3, JobReplaced
  <2> QED
    BY <1>1, <1>8, <2>3, <2>4, JobMoved DEF Start
<1> QED
  BY <1>2, <1>3, <1>4, <1>5, <1>6, <1>7, <1>8

\* rebuffer frees a claim into the queue and takes its fact row away.
LEMMA RebufferTypes ==
    ASSUME TypeOK, NEW c \in Claims, rebuffer(c)
    PROVE  fact' \in [Claims -> Rows] /\ buffer' \in [Claims -> Captures]
<1>1. Requeued(c) \in Captures
  BY RowFields DEF Requeued, Captures
<1>2. CASE fact[c].state = "active"
  BY <1>1, <1>2, Beginnings DEF rebuffer, TypeOK
<1>3. CASE fact[c].state # "active"
  BY <1>3 DEF rebuffer, TypeOK
<1> QED
  BY <1>2, <1>3

LEMMA MoveTypes ==
    ASSUME TypeInv, NEW p \in People,
           \/ \E row \in job[p].todo : RefileRow(p, row) \/ RebufferUnplaced(p, row)
           \/ find_active_in_wiki(p) \/ RefileDest(p) \/ RefileSource(p)
           \/ RebufferRefused(p) \/ RelocateDone(p)
    PROVE  TypeInv'
<1>0. TypeOK /\ CurIsAClaim
  BY DEF TypeInv
<1>1. /\ fact \in [Claims -> Rows] /\ buffer \in [Claims -> Captures] /\ prose \subseteq Claims \X People
      /\ wikis \subseteq People /\ enrolled \subseteq People /\ spent \subseteq People
      /\ faults \in 0..MaxFaults /\ asked \subseteq People
  BY <1>0 DEF TypeOK
<1>2. ASSUME NEW row \in job[p].todo, RefileRow(p, row) PROVE TypeInv'
  <2>1. row.claim \in Claims
    BY <1>0, JobFields
  <2>2. destination_wiki(p, row) \in People
    BY <1>1, <1>2 DEF RefileRow, destination_wiki
  <2>3. [fact[row.claim] EXCEPT !.wiki = destination_wiki(p, row), !.shown = FALSE] \in Rows
    BY <1>0, <2>1, <2>2, RowFields DEF Rows
  <2>4. fact' \in [Claims -> Rows]
    BY <1>1, <1>2, <2>3 DEF RefileRow
  <2>5. PICK s \in {"dest", "rebuffer"} :
          job' = [job EXCEPT ![p] = [pc |-> s, todo |-> job[p].todo \ {row}, cur |-> row.claim]]
    BY <1>2 DEF RefileRow
  <2>6. [pc |-> s, todo |-> job[p].todo \ {row}, cur |-> row.claim] \in Jobs
    BY <1>0, <2>1, JobFields DEF Jobs, Stages
  <2>7. /\ job' \in [People -> Jobs] /\ job'[p].cur \in Claims
        /\ \A q \in People : q # p => job'[q] = job[q]
    BY <1>0, <2>1, <2>5, <2>6, JobReplaced
  <2> QED
    BY <1>1, <1>2, <2>4, <2>7, JobMoved DEF RefileRow
<1>3. ASSUME NEW row \in job[p].todo, RebufferUnplaced(p, row) PROVE TypeInv'
  <2>1. row.claim \in Claims
    BY <1>0, JobFields
  <2>2. fact' \in [Claims -> Rows] /\ buffer' \in [Claims -> Captures]
    BY <1>0, <1>3, <2>1, RebufferTypes DEF RebufferUnplaced
  <2>3. /\ job' = [job EXCEPT ![p].todo = @ \ {row}] /\ job[p].pc = "relocate"
        /\ UNCHANGED <<prose, wikis, enrolled, spent, round, faults, asked, said, forms>>
    BY <1>3 DEF RebufferUnplaced
  <2>4. /\ job' \in [People -> Jobs] /\ job'[p].pc = "relocate"
        /\ \A q \in People : q # p => job'[q] = job[q]
    BY <1>0, <2>3, RowDone
  <2> QED
    BY <1>1, <2>2, <2>3, <2>4, JobMoved
<1>4. CASE find_active_in_wiki(p)
  <2> DEFINE all == {Seen(c) : c \in {d \in Claims : fact[d].state = "active" /\ fact[d].wiki = p}}
             j == [pc |-> "relocate", cur |-> Nobody, todo |-> all]
  <2>1. all \in SUBSET Views
    BY <1>0, ListType
  <2>2. job' = [job EXCEPT ![p] = j]
    BY <1>4 DEF find_active_in_wiki
  <2> HIDE DEF all
  <2>3. j \in Jobs /\ j.pc = "relocate"
    BY <2>1 DEF Jobs, Stages
  <2> HIDE DEF j
  <2>4. job' \in [People -> Jobs] /\ job'[p] = j /\ \A q \in People : q # p => job'[q] = job[q]
    BY <1>0, <2>2, <2>3, JobReplaced
  <2> QED
    BY <1>1, <1>4, <2>3, <2>4, JobMoved DEF find_active_in_wiki
<1>5. ASSUME RefileDest(p) \/ RefileSource(p) PROVE TypeInv'
  <2>1. job[p].cur \in Claims
    BY <1>0, <1>5 DEF RefileDest, RefileSource, CurIsAClaim
  <2>2. /\ [fact[job[p].cur] EXCEPT !.wiki = p, !.shown = TRUE] \in Rows
        /\ [fact[job[p].cur] EXCEPT !.shown = TRUE] \in Rows
    BY <1>0, <2>1, RowFields DEF Rows
  <2>3. fact' \in [Claims -> Rows]
    BY <1>1, <1>5, <2>2 DEF RefileDest, RefileSource, RefileBack
  <2>4. prose' \subseteq Claims \X People
    BY <1>0, <1>1, <1>5, <2>1, RowFields DEF RefileDest, RefileSource
  <2>5. faults' \in 0..MaxFaults
    BY <1>1, <1>5, ErasureAssumption DEF RefileDest, RefileSource, RefileBack, Fault
  <2>6. PICK s \in Stages : Go(p, s)
    BY <1>5 DEF RefileDest, RefileSource, RefileBack, Stages
  <2>7. job' \in [People -> Jobs] /\ job'[p].cur \in Claims /\ \A q \in People : q # p => job'[q] = job[q]
    BY <1>0, <2>1, <2>6, GoMoves
  <2> QED
    BY <1>1, <1>5, <2>3, <2>4, <2>5, <2>7, JobMoved DEF RefileDest, RefileSource
<1>6. CASE RebufferRefused(p)
  <2>1. job[p].cur \in Claims
    BY <1>0, <1>6 DEF RebufferRefused, CurIsAClaim
  <2>2. fact' \in [Claims -> Rows] /\ buffer' \in [Claims -> Captures]
    BY <1>0, <1>6, <2>1, RebufferTypes DEF RebufferRefused
  <2>3. /\ job' \in [People -> Jobs] /\ job'[p].pc = "relocate"
        /\ \A q \in People : q # p => job'[q] = job[q]
    BY <1>0, <1>6, GoMoves DEF RebufferRefused, Stages
  <2> QED
    BY <1>1, <1>6, <2>2, <2>3, JobMoved DEF RebufferRefused
<1>7. CASE RelocateDone(p)
  <2>1. /\ job' \in [People -> Jobs] /\ job'[p].pc = "held"
        /\ \A q \in People : q # p => job'[q] = job[q]
    BY <1>0, <1>7, GoMoves DEF RelocateDone, Stages
  <2> QED
    BY <1>1, <1>7, <2>1, JobMoved DEF RelocateDone
<1> QED
  BY <1>2, <1>3, <1>4, <1>5, <1>6, <1>7

LEMMA QueueTypes ==
    ASSUME TypeInv, NEW p \in People,
           \/ DropHeld(p) \/ DropOwn(p) \/ HandOver(p) \/ Disown(p)
           \/ record_forgotten_id(p) \/ remove_user(p)
           \/ mark_forgotten_in_wiki(p) \/ HuskErase(p)
    PROVE  TypeInv'
<1>0. TypeOK /\ CurIsAClaim
  BY DEF TypeInv
<1>1. /\ fact \in [Claims -> Rows] /\ buffer \in [Claims -> Captures] /\ prose \subseteq Claims \X People
      /\ wikis \subseteq People /\ enrolled \subseteq People /\ spent \subseteq People
      /\ faults \in 0..MaxFaults /\ asked \subseteq People
  BY <1>0 DEF TypeOK
<1>2. ASSUME DropHeld(p) \/ DropOwn(p) \/ HandOver(p) \/ Disown(p) PROVE TypeInv'
  <2>1. \A c \in Claims : NoCapture(c) \in Captures /\ buffer[c] \in Captures
    BY <1>0, Beginnings, RowFields
  <2>2. \A c \in Claims : [buffer[c] EXCEPT !.sender = Removed] \in Captures
    BY <2>1 DEF Captures, Senders
  <2>3. \A c \in Claims : buffer[c].sender # Removed =>
                            [buffer[c] EXCEPT !.subject = buffer[c].sender] \in Captures
    BY <2>1 DEF Captures, Senders, Subjects
  <2>4. buffer' \in [Claims -> Captures]
    <3>1. CASE DropHeld(p)
      BY <2>1, <3>1 DEF DropHeld
    <3>2. CASE DropOwn(p)
      BY <2>1, <3>2 DEF DropOwn
    <3>3. CASE HandOver(p)
      BY <2>1, <2>3, <3>3 DEF HandOver
    <3>4. CASE Disown(p)
      BY <2>1, <2>2, <3>4 DEF Disown
    <3> QED
      BY <1>2, <3>1, <3>2, <3>3, <3>4
  <2>5. PICK s \in {"own", "handover", "disown", "spend"} : Go(p, s)
    BY <1>2 DEF DropHeld, DropOwn, HandOver, Disown
  <2>6. job' \in [People -> Jobs] /\ job'[p].pc = s /\ \A q \in People : q # p => job'[q] = job[q]
    BY <1>0, <2>5, GoMoves DEF Stages
  <2>7. UNCHANGED <<fact, prose, wikis, enrolled, spent, round, faults, asked, said, forms>>
    BY <1>2 DEF DropHeld, DropOwn, HandOver, Disown
  <2> QED
    BY <1>1, <2>4, <2>6, <2>7, JobMoved
<1>3. ASSUME record_forgotten_id(p) \/ remove_user(p) PROVE TypeInv'
  <2>1. PICK s \in {"remove", "net"} : Go(p, s)
    BY <1>3 DEF record_forgotten_id, remove_user
  <2>2. job' \in [People -> Jobs] /\ job'[p].pc = s /\ \A q \in People : q # p => job'[q] = job[q]
    BY <1>0, <2>1, GoMoves DEF Stages
  <2>3. spent' \subseteq People /\ enrolled' \subseteq People
    BY <1>1, <1>3 DEF record_forgotten_id, remove_user
  <2>4. UNCHANGED <<fact, buffer, prose, wikis, round, faults, asked, said, forms>>
    BY <1>3 DEF record_forgotten_id, remove_user
  <2> QED
    BY <1>1, <2>2, <2>3, <2>4, JobMoved
<1>4. CASE mark_forgotten_in_wiki(p)
  <2>1. \A c \in Claims : [fact[c] EXCEPT !.state = "retired"] \in Rows /\ fact[c] \in Rows
    BY <1>0, RowFields DEF Rows
  <2>2. fact' \in [Claims -> Rows]
    BY <1>4, <2>1 DEF mark_forgotten_in_wiki
  <2>3. /\ job' \in [People -> Jobs] /\ job'[p].pc = "husk"
        /\ \A q \in People : q # p => job'[q] = job[q]
    BY <1>0, <1>4, GoMoves DEF mark_forgotten_in_wiki, Stages
  <2> QED
    BY <1>1, <1>4, <2>2, <2>3, JobMoved DEF mark_forgotten_in_wiki
<1>5. CASE HuskErase(p)
  <2>1. /\ job' \in [People -> Jobs] /\ job'[p] = IdleJob
        /\ \A q \in People : q # p => job'[q] = job[q]
    BY <1>0, <1>5, Beginnings, JobReplaced DEF HuskErase
  <2>2. job'[p].pc = "idle"
    BY <2>1 DEF IdleJob
  <2>3. prose' \subseteq Claims \X People /\ wikis' \subseteq People
    BY <1>1, <1>5 DEF HuskErase
  <2> QED
    BY <1>1, <1>5, <2>1, <2>2, <2>3, JobMoved DEF HuskErase
<1> QED
  BY <1>2, <1>3, <1>4, <1>5

LEMMA TypeStep == TypeInv /\ [Next]_vars => TypeInv'
<1> SUFFICES ASSUME TypeInv, [Next]_vars PROVE TypeInv'
  OBVIOUS
<1>1. CASE UNCHANGED vars
  BY <1>1 DEF vars, TypeInv, TypeOK, CurIsAClaim
<1>2. ASSUME NEW p \in People, Start(p) \/ Step(p) PROVE TypeInv'
  BY <1>2, FactsTypes, MoveTypes, QueueTypes DEF Step
<1> QED
  BY <1>1, <1>2, AroundTypes DEF Next

LEMMA TypeInit == Init => TypeInv
<1> SUFFICES ASSUME Init PROVE TypeInv
  OBVIOUS
<1>1. \A p \in People : job[p].pc = "idle"
  BY DEF Init, IdleJob
<1>2. TypeOK
  BY Beginnings, ErasureAssumption DEF Init, TypeOK
<1> QED
  BY <1>1, <1>2 DEF TypeInv, CurIsAClaim

\* Type correctness of forget_user and of what goes on around it: no row is
\* ever about the removed author, wherever an erasure dies and whatever
\* overlaps it.
THEOREM TypesHold == Spec => []TypeOK
<1>1. TypeInv => TypeOK
  BY DEF TypeInv
<1> QED
  BY <1>1, TypeInit, TypeStep, PTL DEF Spec

LEMMA TypeInvHolds == Spec => []TypeInv
  BY TypeInit, TypeStep, PTL DEF Spec

---------------------------------------------------------------------------
(* Spent ids.                                                              *)

\* Every stage of a job but the first follows from the one before.
LEMMA StepStages ==
    ASSUME TypeInv, NEW p \in People, Step(p)
    PROVE  /\ job[p].pc # "idle" /\ asked' = asked
           /\ \A q \in People : q # p => job'[q] = job[q]
           /\ \/ job'[p].pc \notin {"remove", "net", "husk"} /\ spent' = spent /\ enrolled' = enrolled
              \/ record_forgotten_id(p) /\ job'[p].pc = "remove"
              \/ remove_user(p) /\ job[p].pc = "remove"
              \/ job[p].pc \in {"net", "husk"} /\ spent' = spent /\ enrolled' = enrolled
<1>0. TypeOK
  BY DEF TypeInv
<1>1. ASSUME NEW row \in job[p].todo, retarget_subject(p, row) \/ RebufferUnplaced(p, row)
      PROVE  /\ job[p].pc \in {"facts", "relocate"} /\ job'[p].pc = job[p].pc
             /\ \A q \in People : q # p => job'[q] = job[q]
  BY <1>0, <1>1, RowDone DEF retarget_subject, RebufferUnplaced
<1>2. ASSUME NEW row \in job[p].todo, mark_forgotten(p, row) \/ RefileRow(p, row)
      PROVE  /\ job[p].pc \in {"facts", "relocate"}
             /\ job'[p].pc \in {"erase", "strip", "dest", "rebuffer"}
             /\ \A q \in People : q # p => job'[q] = job[q]
  <2>1. job \in [People -> Jobs]
    BY <1>0 DEF TypeOK
  <2> QED
    BY <1>2, <2>1 DEF mark_forgotten, RefileRow
<1>3. ASSUME NEW s \in Stages, Go(p, s)
      PROVE  job'[p].pc = s /\ \A q \in People : q # p => job'[q] = job[q]
  BY <1>0, <1>3, GoMoves
<1>4. CASE find_active_in_wiki(p) \/ HuskErase(p)
  <2>1. job \in [People -> Jobs]
    BY <1>0 DEF TypeOK
  <2> QED
    BY <1>4, <2>1 DEF find_active_in_wiki, HuskErase, IdleJob
<1>5. CASE strip_fact_region(p) \/ erase(p) \/ FactsDone(p) \/ replace_sender(p)
  BY <1>3, <1>5 DEF strip_fact_region, erase, FactsDone, replace_sender, Stages
<1>6. CASE RefileDest(p) \/ RefileSource(p) \/ RebufferRefused(p) \/ RelocateDone(p)
  BY <1>3, <1>6 DEF RefileDest, RefileSource, RefileBack, RebufferRefused, RelocateDone, Stages
<1>7. CASE DropHeld(p) \/ DropOwn(p) \/ HandOver(p) \/ Disown(p)
  BY <1>3, <1>7 DEF DropHeld, DropOwn, HandOver, Disown, Stages
<1>8. CASE record_forgotten_id(p) \/ remove_user(p) \/ mark_forgotten_in_wiki(p)
  BY <1>3, <1>8 DEF record_forgotten_id, remove_user, mark_forgotten_in_wiki, Stages
<1>9. ASSUME NEW row \in job[p].todo,
             \/ retarget_subject(p, row) \/ mark_forgotten(p, row)
             \/ RefileRow(p, row) \/ RebufferUnplaced(p, row)
      PROVE  asked' = asked /\ spent' = spent /\ enrolled' = enrolled
  BY <1>9 DEF retarget_subject, mark_forgotten, RefileRow, RebufferUnplaced
<1> QED
  BY <1>1, <1>2, <1>4, <1>5, <1>6, <1>7, <1>8, <1>9 DEF Step

LEMMA IdsStep == TypeInv /\ IdsInv /\ [Next]_vars => IdsInv'
<1> SUFFICES ASSUME TypeInv, IdsInv, [Next]_vars PROVE IdsInv'
  OBVIOUS
<1>1. ASSUME UNCHANGED <<enrolled, spent, job, asked>> PROVE IdsInv'
  BY <1>1 DEF IdsInv
<1>2. ASSUME NEW c \in Claims, Say(c) \/ Release(c) \/ RoundRead(c) PROVE IdsInv'
  BY <1>1, <1>2 DEF Say, Release, RoundRead
<1>3. ASSUME NEW w \in People, RoundPlace(w) \/ Compile(w) PROVE IdsInv'
  BY <1>1, <1>3 DEF RoundPlace, Compile
<1>4. ASSUME NEW w \in People, validate_user_id_for_create(w) \/ Enrol(w) PROVE IdsInv'
  BY <1>4 DEF validate_user_id_for_create, Enrol, IdsInv
<1>5. CASE Crash
  BY <1>5 DEF Crash, IdsInv, IdleJob
<1>6. ASSUME NEW p \in People, Start(p) PROVE IdsInv'
  <2>1. job \in [People -> Jobs]
    BY DEF TypeInv, TypeOK
  <2>2. job'[p].pc = "facts" /\ \A q \in People : q # p => job'[q] = job[q]
    BY <1>6, <2>1 DEF Start
  <2>3. asked' = asked \cup {p} /\ p \in enrolled /\ UNCHANGED <<enrolled, spent>>
    BY <1>6 DEF Start
  <2> QED
    BY <2>2, <2>3 DEF IdsInv
<1>7. ASSUME NEW p \in People, Step(p) PROVE IdsInv'
  <2>1. /\ job[p].pc # "idle" /\ asked' = asked
        /\ \A q \in People : q # p => job'[q] = job[q]
    BY <1>7, StepStages
  <2>2. p \in asked
    BY <2>1 DEF IdsInv
  <2>3. CASE job'[p].pc \notin {"remove", "net", "husk"} /\ spent' = spent /\ enrolled' = enrolled
    BY <2>1, <2>2, <2>3 DEF IdsInv
  <2>4. CASE record_forgotten_id(p) /\ job'[p].pc = "remove"
    BY <2>1, <2>2, <2>4 DEF record_forgotten_id, IdsInv
  <2>5. CASE remove_user(p) /\ job[p].pc = "remove"
    BY <2>1, <2>2, <2>5 DEF remove_user, IdsInv
  <2>6. CASE job[p].pc \in {"net", "husk"} /\ spent' = spent /\ enrolled' = enrolled
    BY <2>1, <2>2, <2>6 DEF IdsInv
  <2> QED
    BY <1>7, <2>3, <2>4, <2>5, <2>6, StepStages
<1>8. CASE UNCHANGED vars
  BY <1>1, <1>8 DEF vars
<1> QED
  BY <1>2, <1>3, <1>4, <1>5, <1>6, <1>7, <1>8 DEF Next

LEMMA IdsInvHolds == Spec => []IdsInv
<1>1. Init => IdsInv
  BY DEF Init, IdsInv, IdleJob
<1> QED
  BY <1>1, IdsStep, TypeInvHolds, PTL DEF Spec

\* No step but the two of a creation form touches the forms, or enrols.
LEMMA FormsStand ==
    ASSUME TypeInv, [Next]_vars,
           ~ \E w \in People : validate_user_id_for_create(w) \/ Enrol(w)
    PROVE  forms' \subseteq forms /\ enrolled' \subseteq enrolled
<1>1. ASSUME NEW q \in People, NEW row \in job[q].todo,
             \/ retarget_subject(q, row) \/ mark_forgotten(q, row)
             \/ RefileRow(q, row) \/ RebufferUnplaced(q, row)
      PROVE  forms' = forms /\ enrolled' = enrolled
  BY <1>1 DEF retarget_subject, mark_forgotten, RefileRow, RebufferUnplaced
<1>2. ASSUME NEW q \in People,
             \/ strip_fact_region(q) \/ erase(q) \/ FactsDone(q) \/ replace_sender(q)
             \/ find_active_in_wiki(q) \/ RefileDest(q) \/ RefileSource(q)
             \/ RebufferRefused(q) \/ RelocateDone(q)
      PROVE  forms' = forms /\ enrolled' = enrolled
  BY <1>2 DEF strip_fact_region, erase, FactsDone, replace_sender, find_active_in_wiki, RefileDest,
              RefileSource, RebufferRefused, RelocateDone
<1>3. ASSUME NEW q \in People,
             \/ DropHeld(q) \/ DropOwn(q) \/ HandOver(q) \/ Disown(q) \/ record_forgotten_id(q)
             \/ remove_user(q) \/ mark_forgotten_in_wiki(q) \/ HuskErase(q)
      PROVE  forms' = forms /\ enrolled' \subseteq enrolled
  BY <1>3 DEF DropHeld, DropOwn, HandOver, Disown, record_forgotten_id, remove_user,
              mark_forgotten_in_wiki, HuskErase
<1>4. ASSUME NEW q \in People, Step(q) PROVE forms' = forms /\ enrolled' \subseteq enrolled
  BY <1>1, <1>2, <1>3, <1>4 DEF Step
<1> QED
  BY <1>4 DEF Next, vars, Say, Release, RoundRead, RoundPlace, Compile, Start, Crash

\* record_forgotten_id comes before remove_user, and reject_if_forgotten asks:
\* once somebody is erased no form with their id passes its check, and only a
\* form that passed before may enrol it, wherever the erasure died and
\* whatever ran beside it.
THEOREM SpentIdsStaySpent == Spec => SpentIdsPassNoCheck
<1>1. ASSUME IdsInv, TypeInv, [Next]_vars, NEW p \in Erased \ forms
      PROVE  p \notin enrolled' \cup forms'
  <2>1. p \in spent /\ p \notin enrolled /\ p \notin forms
    BY <1>1 DEF IdsInv, Erased
  <2>2. ASSUME NEW w \in People, validate_user_id_for_create(w) PROVE p \notin enrolled' \cup forms'
    BY <2>1, <2>2 DEF validate_user_id_for_create
  <2>3. ASSUME NEW w \in People, Enrol(w) PROVE p \notin enrolled' \cup forms'
    BY <2>1, <2>3 DEF Enrol
  <2> QED
    BY <1>1, <2>1, <2>2, <2>3, FormsStand
<1>2. IdsInv /\ TypeInv /\ [Next]_vars => [\A p \in Erased \ forms : p \notin enrolled' \cup forms']_vars
  BY <1>1
<1> QED
  BY <1>2, IdsInvHolds, TypeInvHolds, PTL DEF Spec, SpentIdsPassNoCheck

---------------------------------------------------------------------------
(* The inductive invariant of an erasure that runs alone.                  *)

\* Whom a row of claim c may name: those who made the claim and whom it is
\* about, or the ones who stand in for somebody who asked to be forgotten.
From(c, subject, sender) ==
    /\ subject = About[c] \/ (About[c] \in asked /\ subject = By[c])
    /\ sender = By[c] \/ (sender = Removed /\ By[c] \in asked)

\* A claim that may be gone.
Excused(c) ==
    \/ {About[c], By[c]} \subseteq asked
    \/ c \in Rules /\ About[c] \in asked
    \/ c \in Cards /\ {About[c], By[c]} \cap asked # {}

\* A claim waits in the queue or has a row, not both; both agree on whom a rule
\* is about.
Filed(c) ==
    /\ buffer[c].status = "none" => buffer[c] = NoCapture(c)
    /\ buffer[c].status = "held" => c \in Cards
    /\ fact[c].state # "none" => buffer[c].status \in {"none", "processed"}
    /\ fact[c].state # "none" => From(c, fact[c].subject, fact[c].sender)
    /\ buffer[c].status # "none" => From(c, buffer[c].subject, buffer[c].sender)
    /\ c \in Rules /\ fact[c].state = "active" /\ buffer[c].status # "none"
         => fact[c].subject = buffer[c].subject

Saved(c) == c \in said => Live(c) \/ Excused(c)

\* Where the region of a claim may be: with its row, in the wiki of somebody
\* who asked to be forgotten, or left behind by a refile that failed, in the
\* wiki of the one whose claim it is.
Housed(c, w) ==
    \/ w \in asked
    \/ fact[c].state # "none" /\ fact[c].wiki = w
    \/ /\ Live(c) /\ buffer[c].status # "held"
       /\ w \in {About[c], By[c]}
       /\ c \in Rules => /\ fact[c].state = "active" => fact[c].subject = w
                         /\ buffer[c].status # "none" => buffer[c].subject = w

Shelved(c) == \A w \in People : <<c, w>> \in prose => Housed(c, w)

Good(c) == Filed(c) /\ Saved(c) /\ Shelved(c)

\* Nothing of this claim names somebody past retry.
Clean(c) ==
    \A p \in Erased :
      /\ fact[c].state = "active" => p \notin {fact[c].subject, fact[c].sender}
      /\ buffer[c].status # "none" => p \notin {buffer[c].subject, buffer[c].sender}

\* One erasure at a time, and no round beside it.
Alone ==
    /\ \A p, q \in People : job[p].pc # "idle" /\ job[q].pc # "idle" => p = q
    /\ round # IdleRound => \A p \in People : job[p].pc = "idle"

\* The claim a round has read still waits as it was read.
RoundInv ==
    round # IdleRound =>
      /\ round.claim \in Claims
      /\ buffer[round.claim].status = "buffered"
      /\ buffer[round.claim].subject = round.subject /\ buffer[round.claim].sender = round.sender

FromSpend == {"spend", "remove", "net", "husk"}
FromDisown == FromSpend \cup {"disown"}
FromHandOver == FromDisown \cup {"handover"}
FromHeld == FromHandOver \cup {"held", "own"}
Moving == {"relocate", "dest", "source", "rebuffer"}
FromList == FromHeld \cup Moving \cup {"list"}
FromSenders == FromList \cup {"senders"}
InFacts == {"facts", "strip", "erase"}

\* The rows a job has still to deal with stand as it listed them.
Listed(p) ==
    \A row \in job[p].todo : fact[row.claim].state = "active" /\ row = Seen(row.claim)

\* Step 1 and 2: what is left of theirs is on the list, then nothing is.
FactStage(p) ==
    /\ job[p].pc \in InFacts =>
         /\ \A c \in Claims : fact[c].state = "active" /\ fact[c].subject = p => Seen(c) \in job[p].todo
         /\ Listed(p) /\ \A row \in job[p].todo : row.subject = p
    /\ job[p].pc \in {"strip", "erase"} => fact[job[p].cur].state = "retired"
    /\ job[p].pc = "erase" => \A w \in People : <<job[p].cur, w>> \in prose => w \in asked
    /\ job[p].pc \in FromSenders => \A c \in Claims : fact[c].state = "active" => fact[c].subject # p
    /\ job[p].pc \in FromList => \A c \in Claims : fact[c].state = "active" => fact[c].sender # p

\* Step 4: what is left in their wiki is on the list or in hand, then nothing is.
MoveStage(p) ==
    /\ job[p].pc \in Moving =>
         /\ \A c \in Claims : fact[c].state = "active" /\ fact[c].wiki = p
               => Seen(c) \in job[p].todo \/ (job[p].pc = "rebuffer" /\ job[p].cur = c)
         /\ Listed(p) /\ \A row \in job[p].todo : row.wiki = p
    /\ job[p].pc \in {"dest", "source"} =>
         /\ fact[job[p].cur].state = "active"
         /\ fact[job[p].cur].wiki = fact[job[p].cur].subject
    /\ job[p].pc = "rebuffer" =>
         /\ fact[job[p].cur].state = "active" /\ fact[job[p].cur].wiki = p
         /\ \A row \in job[p].todo : row.claim # job[p].cur
    /\ job[p].pc \in FromHeld => \A c \in Claims : fact[c].state = "active" => fact[c].wiki # p

\* Step 5: what each statement over the queue leaves.
QueueStage(p) ==
    \A c \in Claims : buffer[c].status # "none" =>
      /\ job[p].pc \in FromHandOver => ~(buffer[c].subject = p /\ buffer[c].sender \in {p, Removed})
      /\ job[p].pc \in FromDisown => buffer[c].subject # p
      /\ job[p].pc \in FromSpend => buffer[c].sender # p

Progress(p) == FactStage(p) /\ MoveStage(p) /\ QueueStage(p)

IInv ==
    /\ TypeInv /\ IdsInv /\ Alone /\ RoundInv
    /\ \A c \in Claims : Good(c) /\ Clean(c)
    /\ \A p \in People : Progress(p)

---------------------------------------------------------------------------
(* Frames.                                                                 *)

\* A claim nothing touches stays good: its regions may only go away or lie in
\* the wiki of somebody who asked to be forgotten.
LEMMA GoodSame ==
    ASSUME NEW c \in Claims, Good(c), fact'[c] = fact[c], buffer'[c] = buffer[c],
           asked \subseteq asked', c \in said' => c \in said,
           \A w \in People : <<c, w>> \in prose' => <<c, w>> \in prose \/ w \in asked'
    PROVE  Good(c)'
<1>1. Filed(c)'
  BY DEF Good, Filed, From, NoCapture
<1>2. Saved(c)'
  BY DEF Good, Saved, Live, Excused
<1>3. Shelved(c)'
  BY DEF Good, Shelved, Housed, Live
<1> QED
  BY <1>1, <1>2, <1>3 DEF Good

LEMMA CleanSame ==
    ASSUME NEW c \in Claims, Clean(c), fact'[c] = fact[c], buffer'[c] = buffer[c], Erased' \subseteq Erased
    PROVE  Clean(c)'
  BY DEF Clean

LEMMA ErasedSame == UNCHANGED <<asked, enrolled>> => Erased' = Erased
  BY DEF Erased

LEMMA SeenSame ==
    ASSUME NEW c, fact'[c] = fact[c]
    PROVE  Seen(c)' = Seen(c)
  BY DEF Seen

LEMMA SeenFields ==
    ASSUME NEW c
    PROVE  /\ Seen(c).claim = c /\ Seen(c).subject = fact[c].subject
           /\ Seen(c).sender = fact[c].sender /\ Seen(c).wiki = fact[c].wiki
  BY DEF Seen

\* A job that is running runs alone.
LEMMA Solo ==
    ASSUME IInv, NEW p \in People, job[p].pc # "idle"
    PROVE  /\ TypeInv /\ TypeOK /\ p \in asked /\ p # Removed /\ round = IdleRound
           /\ FactStage(p) /\ MoveStage(p) /\ QueueStage(p)
           /\ \A q \in People : q # p => job[q].pc = "idle"
<1>1. TypeInv /\ TypeOK /\ p \in asked /\ Progress(p)
  BY DEF IInv, IdsInv, TypeInv
<1>2. round = IdleRound /\ \A q \in People : q # p => job[q].pc = "idle"
  BY DEF IInv, Alone
<1>3. p # Removed
  BY ErasureAssumption
<1> QED
  BY <1>1, <1>2, <1>3 DEF Progress

\* A step of a job owes what it does to the claims and to its own progress.
LEMMA StepKeeps ==
    ASSUME IInv, NEW p \in People, Step(p), Next, round' = round,
           \A c \in Claims : Good(c)' /\ Clean(c)', Progress(p)'
    PROVE  IInv'
<1>1. TypeInv' /\ IdsInv'
  BY TypeStep, IdsStep DEF IInv
<1>2. /\ job[p].pc # "idle"
      /\ \A q \in People : q # p => job'[q] = job[q]
  BY StepStages DEF IInv
<1>3. round = IdleRound /\ \A q \in People : q # p => job[q].pc = "idle"
  BY <1>2, Solo
<1>4. \A q \in People : q # p => job'[q].pc = "idle"
  BY <1>2, <1>3
<1>5. Alone' /\ RoundInv'
  BY <1>3, <1>4 DEF Alone, RoundInv, IdleRound
<1>6. ASSUME NEW q \in People, q # p PROVE Progress(q)'
  <2>1. job'[q].pc = "idle"
    BY <1>4, <1>6
  <2> QED
    BY <2>1 DEF Progress, FactStage, MoveStage, QueueStage, InFacts, FromSenders, FromList, Moving,
                FromHeld, FromHandOver, FromDisown, FromSpend
<1> QED
  BY <1>1, <1>5, <1>6 DEF IInv

---------------------------------------------------------------------------
(* What goes on around an erasure.                                         *)

\* With nothing allowed to overlap, turns and rounds find no erasure running.
LEMMA Quiet ==
    ASSUME IInv, Overlap = {}, NEW who, MayRun(who)
    PROVE  \A p \in People : job[p].pc = "idle"
  BY DEF MayRun, Erasing

LEMMA QuietKeeps ==
    ASSUME IInv, [Next]_vars, \A p \in People : job'[p].pc = "idle", RoundInv',
           \A c \in Claims : Good(c)' /\ Clean(c)'
    PROVE  IInv'
<1>1. TypeInv' /\ IdsInv'
  BY TypeStep, IdsStep DEF IInv
<1>2. Alone'
  BY DEF Alone
<1>3. ASSUME NEW p \in People PROVE Progress(p)'
  BY DEF Progress, FactStage, MoveStage, QueueStage, InFacts, FromSenders, FromList, Moving,
         FromHeld, FromHandOver, FromDisown, FromSpend
<1> QED
  BY <1>1, <1>2, <1>3 DEF IInv

LEMMA SayKeeps ==
    ASSUME IInv, Overlap = {}, NEW c \in Claims, Say(c), Next
    PROVE  IInv'
<1>0. TypeOK /\ \A p \in People : job[p].pc = "idle"
  BY Quiet DEF IInv, TypeInv, Say
<1>1. /\ buffer[c].status = "none" /\ fact[c].state = "none"
      /\ By[c] \in enrolled /\ About[c] \in enrolled \cup {Global}
      /\ UNCHANGED <<fact, prose, wikis, enrolled, spent, job, round, faults, asked>>
  BY DEF Say
<1>2. PICK st \in {"held", "buffered"} :
        /\ buffer' = [buffer EXCEPT ![c] = [@ EXCEPT !.status = st]]
        /\ st = "held" => c \in Cards
  BY DEF Say
<1>3. /\ buffer'[c].status = st /\ buffer'[c].subject = buffer[c].subject
      /\ buffer'[c].sender = buffer[c].sender
      /\ \A d \in Claims : d # c => buffer'[d] = buffer[d]
  <2>1. buffer[c] \in Captures
    BY <1>0, RowFields
  <2> QED
    BY <1>0, <1>2, <2>1 DEF TypeOK, Captures
<1>4. said' = said \cup {c}
  BY DEF Say
<1>5. Good(c) /\ buffer[c].subject = About[c] /\ buffer[c].sender = By[c]
  BY <1>1 DEF IInv, Good, Filed, NoCapture
<1>6. Good(c)'
  <2>1. Filed(c)'
    BY <1>1, <1>2, <1>3, <1>5 DEF Good, Filed, From
  <2>2. Saved(c)'
    BY <1>2, <1>3 DEF Saved, Live
  <2>3. Shelved(c)'
    BY <1>1, <1>5 DEF Good, Shelved, Housed, Live
  <2> QED
    BY <2>1, <2>2, <2>3 DEF Good
<1>7. Clean(c)'
  <2>1. \A q \in Erased' : q \notin enrolled /\ q # Global
    <3>1. asked \subseteq People
      BY <1>0 DEF TypeOK
    <3> QED
      BY <1>1, <3>1, ErasureAssumption DEF Erased
  <2> QED
    BY <1>1, <1>3, <1>5, <2>1 DEF Clean
<1>8. ASSUME NEW d \in Claims, d # c PROVE Good(d)' /\ Clean(d)'
  <2>1. Good(d) /\ Clean(d)
    BY DEF IInv
  <2>2. Erased' = Erased
    BY <1>1, ErasedSame
  <2> QED
    BY <1>1, <1>3, <1>4, <1>8, <2>1, <2>2, GoodSame, CleanSame
<1>9. RoundInv'
  BY <1>1, <1>3 DEF IInv, RoundInv
<1> QED
  BY <1>0, <1>1, <1>6, <1>7, <1>8, <1>9, QuietKeeps

LEMMA ReleaseKeeps ==
    ASSUME IInv, Overlap = {}, NEW c \in Claims, Release(c), Next
    PROVE  IInv'
<1>0. TypeOK /\ \A p \in People : job[p].pc = "idle"
  BY Quiet DEF IInv, TypeInv, Release
<1>1. /\ buffer[c].status = "held" /\ buffer' = [buffer EXCEPT ![c] = [@ EXCEPT !.status = "buffered"]]
      /\ UNCHANGED <<fact, prose, wikis, enrolled, spent, job, round, faults, asked, said, forms>>
  BY DEF Release
<1>2. /\ buffer'[c].status = "buffered" /\ buffer'[c].subject = buffer[c].subject
      /\ buffer'[c].sender = buffer[c].sender
      /\ \A d \in Claims : d # c => buffer'[d] = buffer[d]
  <2>1. buffer[c] \in Captures
    BY <1>0, RowFields
  <2> QED
    BY <1>0, <1>1, <2>1 DEF TypeOK, Captures
<1>3. Good(c) /\ Clean(c) /\ Erased' = Erased
  BY <1>1, ErasedSame DEF IInv
<1>4. Good(c)'
  <2>1. Filed(c)'
    BY <1>1, <1>2, <1>3 DEF Good, Filed, From
  <2>2. Saved(c)'
    BY <1>2 DEF Saved, Live
  <2>3. Shelved(c)'
    BY <1>1, <1>3 DEF Good, Filed, Shelved, Housed, Live
  <2> QED
    BY <2>1, <2>2, <2>3 DEF Good
<1>5. Clean(c)'
  BY <1>1, <1>2, <1>3 DEF Clean
<1>6. ASSUME NEW d \in Claims, d # c PROVE Good(d)' /\ Clean(d)'
  <2>1. Good(d) /\ Clean(d)
    BY DEF IInv
  <2> QED
    BY <1>1, <1>2, <1>3, <1>6, <2>1, GoodSame, CleanSame
<1>7. RoundInv'
  BY <1>1, <1>2 DEF IInv, RoundInv
<1> QED
  BY <1>0, <1>1, <1>4, <1>5, <1>6, <1>7, QuietKeeps

LEMMA RoundReadKeeps ==
    ASSUME IInv, Overlap = {}, NEW c \in Claims, RoundRead(c), Next
    PROVE  IInv'
<1>0. \A p \in People : job[p].pc = "idle"
  BY Quiet DEF RoundRead
<1>1. /\ buffer[c].status = "buffered"
      /\ round' = [claim |-> c, subject |-> buffer[c].subject, sender |-> buffer[c].sender]
      /\ UNCHANGED <<fact, buffer, prose, wikis, enrolled, spent, job, faults, asked, said, forms>>
  BY DEF RoundRead
<1>2. RoundInv'
  BY <1>1 DEF RoundInv
<1>3. Erased' = Erased
  BY <1>1, ErasedSame
<1>4. ASSUME NEW d \in Claims PROVE Good(d)' /\ Clean(d)'
  <2>1. Good(d) /\ Clean(d)
    BY DEF IInv
  <2> QED
    BY <1>1, <1>3, <2>1, GoodSame, CleanSame
<1> QED
  BY <1>0, <1>1, <1>2, <1>4, QuietKeeps

LEMMA RoundPlaceKeeps ==
    ASSUME IInv, Overlap = {}, NEW w \in People, RoundPlace(w), Next
    PROVE  IInv'
<1>0. TypeOK /\ \A p \in People : job[p].pc = "idle"
  BY Quiet DEF IInv, TypeInv, RoundPlace
<1>1. PICK c \in Claims : c = round.claim
  BY DEF IInv, RoundInv, RoundPlace
<1>2. /\ buffer[c].status = "buffered"
      /\ buffer[c].subject = round.subject /\ buffer[c].sender = round.sender
  BY <1>1 DEF IInv, RoundInv, RoundPlace
<1>3. /\ fact[c].state = "none"
      /\ fact' = [fact EXCEPT ![c] = [subject |-> round.subject, sender |-> round.sender, wiki |-> w,
                                      state |-> "active", shown |-> FALSE]]
      /\ buffer' = [buffer EXCEPT ![c] = [@ EXCEPT !.status = "processed"]]
      /\ round' = IdleRound
      /\ UNCHANGED <<prose, wikis, enrolled, spent, job, faults, asked, said, forms>>
  BY <1>1, <1>2 DEF RoundPlace
<1>4. /\ buffer'[c].status = "processed" /\ buffer'[c].subject = buffer[c].subject
      /\ buffer'[c].sender = buffer[c].sender
      /\ \A d \in Claims : d # c => buffer'[d] = buffer[d] /\ fact'[d] = fact[d]
      /\ fact'[c].subject = buffer[c].subject /\ fact'[c].sender = buffer[c].sender
      /\ fact'[c].wiki = w /\ fact'[c].state = "active"
  <2>1. buffer[c] \in Captures
    BY <1>0, RowFields
  <2> QED
    BY <1>0, <1>2, <1>3, <2>1 DEF TypeOK, Captures
<1>5. Good(c) /\ Clean(c) /\ Erased' = Erased
  BY <1>3, ErasedSame DEF IInv
<1>6. Good(c)'
  <2>1. Filed(c)'
    BY <1>2, <1>3, <1>4, <1>5 DEF Good, Filed, From
  <2>2. Saved(c)'
    BY <1>4 DEF Saved, Live
  <2>3. Shelved(c)'
    BY <1>2, <1>3, <1>4, <1>5 DEF Good, Shelved, Housed, Live
  <2> QED
    BY <2>1, <2>2, <2>3 DEF Good
<1>7. Clean(c)'
  BY <1>2, <1>4, <1>5 DEF Clean
<1>8. ASSUME NEW d \in Claims, d # c PROVE Good(d)' /\ Clean(d)'
  <2>1. Good(d) /\ Clean(d)
    BY DEF IInv
  <2> QED
    BY <1>3, <1>4, <1>5, <1>8, <2>1, GoodSame, CleanSame
<1>9. RoundInv'
  BY <1>3 DEF RoundInv, IdleRound
<1> QED
  BY <1>0, <1>3, <1>6, <1>7, <1>8, <1>9, QuietKeeps

LEMMA CompileKeeps ==
    ASSUME IInv, Overlap = {}, NEW w \in People, Compile(w), Next
    PROVE  IInv'
<1>0. TypeOK /\ \A p \in People : job[p].pc = "idle"
  BY Quiet DEF IInv, TypeInv, Compile
<1> DEFINE mine == {c \in Claims : fact[c].state = "active" /\ fact[c].wiki = w}
<1>1. /\ prose' = {r \in prose : r[2] # w} \cup (mine \X {w})
      /\ fact' = [c \in Claims |-> IF c \in mine THEN [fact[c] EXCEPT !.shown = TRUE] ELSE fact[c]]
      /\ UNCHANGED <<buffer, wikis, enrolled, spent, job, round, faults, asked, said, forms>>
  BY DEF Compile
<1>2. ASSUME NEW c \in Claims, NEW v \in People, <<c, v>> \in prose'
      PROVE  <<c, v>> \in prose \/ (fact[c].state = "active" /\ fact[c].wiki = v)
  BY <1>1, <1>2
<1>3. ASSUME NEW c \in Claims
      PROVE  /\ fact'[c].subject = fact[c].subject /\ fact'[c].sender = fact[c].sender
             /\ fact'[c].wiki = fact[c].wiki /\ fact'[c].state = fact[c].state
  <2>1. fact[c] \in Rows
    BY <1>0, RowFields
  <2> QED
    BY <1>1, <2>1 DEF Rows
<1> HIDE DEF mine
<1>4. Erased' = Erased
  BY <1>1, ErasedSame
<1>5. ASSUME NEW c \in Claims PROVE Good(c)' /\ Clean(c)'
  <2>0. Good(c) /\ Clean(c)
    BY DEF IInv
  <2>1. Filed(c)'
    BY <1>1, <1>3, <2>0 DEF Good, Filed, From, NoCapture
  <2>2. Saved(c)'
    BY <1>1, <1>3, <2>0 DEF Good, Saved, Live, Excused
  <2>3. Shelved(c)'
    <3> SUFFICES ASSUME NEW v \in People, <<c, v>> \in prose' PROVE Housed(c, v)'
      BY DEF Shelved
    <3>1. Housed(c, v)
      BY <1>2, <2>0 DEF Good, Shelved, Housed
    <3> QED
      BY <1>1, <1>3, <3>1 DEF Housed, Live
  <2>4. Clean(c)'
    BY <1>1, <1>3, <1>4, <2>0 DEF Clean
  <2> QED
    BY <2>1, <2>2, <2>3, <2>4 DEF Good
<1>6. RoundInv'
  BY <1>1 DEF IInv, RoundInv
<1> QED
  BY <1>0, <1>1, <1>5, <1>6, QuietKeeps

\* An admin enrols people while an erasure runs, too: nothing of it is touched.
LEMMA EnrolKeeps ==
    ASSUME IInv, NEW w \in People, validate_user_id_for_create(w) \/ Enrol(w), Next
    PROVE  IInv'
<1>1. /\ enrolled \subseteq enrolled'
      /\ UNCHANGED <<fact, buffer, prose, spent, job, round, faults, asked, said>>
  BY DEF validate_user_id_for_create, Enrol
<1>2. TypeInv' /\ IdsInv'
  BY TypeStep, IdsStep DEF IInv
<1>3. Erased' \subseteq Erased
  BY <1>1 DEF Erased
<1>4. ASSUME NEW c \in Claims PROVE Good(c)' /\ Clean(c)'
  <2>1. Good(c) /\ Clean(c)
    BY DEF IInv
  <2> QED
    BY <1>1, <1>3, <2>1, GoodSame, CleanSame
<1>5. ASSUME NEW p \in People PROVE Progress(p)'
  <2>1. Progress(p)
    BY DEF IInv
  <2> QED
    BY <1>1, <2>1 DEF Progress, FactStage, MoveStage, QueueStage, Listed, Seen
<1>6. Alone' /\ RoundInv'
  BY <1>1 DEF IInv, Alone, RoundInv
<1> QED
  BY <1>2, <1>4, <1>5, <1>6 DEF IInv

LEMMA CrashKeeps ==
    ASSUME IInv, Crash, Next
    PROVE  IInv'
<1>1. /\ job' = [p \in People |-> IdleJob] /\ round' = IdleRound
      /\ UNCHANGED <<fact, buffer, prose, wikis, enrolled, spent, asked, said>>
  BY DEF Crash
<1>2. \A p \in People : job'[p].pc = "idle"
  BY <1>1 DEF IdleJob
<1>3. RoundInv' /\ Erased' = Erased
  BY <1>1, ErasedSame DEF RoundInv
<1>4. ASSUME NEW c \in Claims PROVE Good(c)' /\ Clean(c)'
  <2>1. Good(c) /\ Clean(c)
    BY DEF IInv
  <2> QED
    BY <1>1, <1>3, <2>1, GoodSame, CleanSame
<1> QED
  BY <1>2, <1>3, <1>4, QuietKeeps

LEMMA StartKeeps ==
    ASSUME IInv, Overlap = {}, NEW p \in People, Start(p), Next
    PROVE  IInv'
<1>0. TypeOK /\ \A q \in People : job[q].pc = "idle"
  BY Quiet DEF IInv, TypeInv, Start
<1> DEFINE all == {Seen(c) : c \in {d \in Claims : fact[d].state = "active" /\ fact[d].subject = p}}
<1>1. /\ round = IdleRound /\ p \in enrolled /\ asked' = asked \cup {p}
      /\ job' = [job EXCEPT ![p] = [pc |-> "facts", cur |-> Nobody, todo |-> all]]
      /\ UNCHANGED <<fact, buffer, prose, wikis, enrolled, spent, round, faults, said, forms>>
  BY DEF Start
<1>2. job'[p].pc = "facts" /\ job'[p].todo = all /\ \A q \in People : q # p => job'[q] = job[q]
  BY <1>0, <1>1 DEF TypeOK
<1>3. /\ \A c \in Claims : fact[c].state = "active" /\ fact[c].subject = p => Seen(c) \in all
      /\ \A row \in all : \E c \in Claims : row = Seen(c) /\ fact[c].state = "active" /\ fact[c].subject = p
  OBVIOUS
<1> HIDE DEF all
<1>4. TypeInv' /\ IdsInv'
  BY TypeStep, IdsStep DEF IInv
<1>5. Erased' = Erased
  BY <1>1 DEF Erased
<1>6. ASSUME NEW c \in Claims PROVE Good(c)' /\ Clean(c)'
  <2>1. Good(c) /\ Clean(c)
    BY DEF IInv
  <2> QED
    BY <1>1, <1>5, <2>1, GoodSame, CleanSame
<1>7. Progress(p)'
  <2>1. \A row \in all : /\ fact'[row.claim].state = "active" /\ row.subject = p
                         /\ row = Seen(row.claim)'
    BY <1>1, <1>3, SeenFields, SeenSame
  <2>2. \A c \in Claims : fact'[c].state = "active" /\ fact'[c].subject = p => Seen(c)' \in all
    BY <1>1, <1>3, SeenSame
  <2>3. FactStage(p)'
    BY <1>2, <2>1, <2>2 DEF FactStage, Listed, InFacts, FromSenders, FromList, Moving, FromHeld,
                            FromHandOver, FromDisown, FromSpend
  <2>4. MoveStage(p)' /\ QueueStage(p)'
    BY <1>2 DEF MoveStage, QueueStage, Moving, FromHeld, FromHandOver, FromDisown, FromSpend
  <2> QED
    BY <2>3, <2>4 DEF Progress
<1>8. ASSUME NEW q \in People, q # p PROVE Progress(q)'
  <2>1. job'[q].pc = "idle"
    BY <1>0, <1>2, <1>8
  <2> QED
    BY <2>1 DEF Progress, FactStage, MoveStage, QueueStage, InFacts, FromSenders, FromList, Moving,
                FromHeld, FromHandOver, FromDisown, FromSpend
<1>9. Alone' /\ RoundInv'
  BY <1>0, <1>1, <1>2 DEF Alone, RoundInv
<1> QED
  BY <1>4, <1>6, <1>7, <1>8, <1>9 DEF IInv

---------------------------------------------------------------------------
(* forget_user, step by step.                                              *)

\* A step that moves the job and leaves the claims alone.
LEMMA ClaimsStand ==
    ASSUME IInv, UNCHANGED <<fact, buffer, enrolled, asked, said, forms>>, prose' \subseteq prose
    PROVE  \A c \in Claims : Good(c)' /\ Clean(c)'
<1> SUFFICES ASSUME NEW c \in Claims PROVE Good(c)' /\ Clean(c)'
  OBVIOUS
<1>1. Good(c) /\ Clean(c) /\ Erased' = Erased
  BY ErasedSame DEF IInv
<1> QED
  BY <1>1, GoodSame, CleanSame

\* A step that touches one claim leaves the others good.
LEMMA OthersStand ==
    ASSUME IInv, NEW c, \A d \in Claims : d # c => fact'[d] = fact[d] /\ buffer'[d] = buffer[d],
           \A d \in Claims : d # c => \A w \in People : <<d, w>> \in prose' => <<d, w>> \in prose,
           UNCHANGED <<enrolled, asked, said, forms>>,
           c \in Claims => Good(c)' /\ Clean(c)'
    PROVE  \A d \in Claims : Good(d)' /\ Clean(d)'
<1> SUFFICES ASSUME NEW d \in Claims, d # c PROVE Good(d)' /\ Clean(d)'
  OBVIOUS
<1>1. Good(d) /\ Clean(d) /\ Erased' = Erased
  BY ErasedSame DEF IInv
<1> QED
  BY <1>1, GoodSame, CleanSame

LEMMA retarget_subjectKeeps ==
    ASSUME IInv, NEW p \in People, NEW row \in job[p].todo, retarget_subject(p, row)
    PROVE  (\A c \in Claims : Good(c)' /\ Clean(c)') /\ Progress(p)'
<1>1. /\ job[p].pc = "facts" /\ fate_of(p, row) = "hand over"
      /\ job' = [job EXCEPT ![p].todo = @ \ {row}]
      /\ UNCHANGED <<buffer, prose, wikis, enrolled, spent, round, faults, asked, said, forms>>
  BY DEF retarget_subject
<1>2. TypeOK /\ p \in asked /\ FactStage(p)
  BY <1>1, Solo
<1>3. PICK c \in Claims : c = row.claim
  BY <1>2, JobFields
<1>4. /\ fact[c].state = "active" /\ row = Seen(c) /\ row.subject = p /\ row.sender = fact[c].sender
      /\ fact[c].subject = p
  <2>1. fact[c].state = "active" /\ row = Seen(c) /\ row.subject = p
    BY <1>1, <1>2, <1>3 DEF FactStage, Listed, InFacts
  <2> QED
    BY <2>1, SeenFields
<1>5. c \notin Rules /\ fact[c].sender \notin {p, Removed}
  BY <1>1, <1>3, <1>4 DEF fate_of
<1>6. fact' = [fact EXCEPT ![c] = [@ EXCEPT !.subject = fact[c].sender]]
  BY <1>3, <1>4 DEF retarget_subject
<1>7. /\ fact'[c].subject = fact[c].sender /\ fact'[c].sender = fact[c].sender
      /\ fact'[c].wiki = fact[c].wiki /\ fact'[c].state = "active"
      /\ \A d \in Claims : d # c => fact'[d] = fact[d]
  <2>1. fact[c] \in Rows
    BY <1>2, RowFields
  <2> QED
    BY <1>2, <1>4, <1>6, <2>1 DEF TypeOK, Rows
<1>8. Good(c) /\ Clean(c) /\ Erased' = Erased
  BY <1>1, ErasedSame DEF IInv
<1>9. Good(c)'
  <2>1. fact[c].sender = By[c] /\ About[c] \in asked
    BY <1>2, <1>4, <1>5, <1>8 DEF Good, Filed, From
  <2>2. Filed(c)'
    BY <1>1, <1>4, <1>5, <1>7, <1>8, <2>1 DEF Good, Filed, From, NoCapture
  <2>3. Saved(c)'
    BY <1>7 DEF Saved, Live
  <2>4. Shelved(c)'
    BY <1>1, <1>4, <1>5, <1>7, <1>8 DEF Good, Shelved, Housed, Live
  <2> QED
    BY <2>2, <2>3, <2>4 DEF Good
<1>10. Clean(c)'
  BY <1>1, <1>4, <1>7, <1>8 DEF Clean
<1>11. \A d \in Claims : Good(d)' /\ Clean(d)'
  BY <1>1, <1>7, <1>9, <1>10, OthersStand
<1>12. job'[p].pc = "facts" /\ job'[p].todo = job[p].todo \ {row}
  BY <1>1, <1>2, RowDone
<1>13. ASSUME NEW d \in Claims, fact'[d].state = "active", fact'[d].subject = p
       PROVE  Seen(d)' \in job[p].todo \ {row}
  <2>1. d # c
    BY <1>5, <1>7, <1>13
  <2>2. fact'[d] = fact[d] /\ Seen(d)' = Seen(d)
    BY <1>7, <2>1, SeenSame
  <2>3. Seen(d) \in job[p].todo
    BY <1>1, <1>2, <1>13, <2>2 DEF FactStage, InFacts
  <2>4. Seen(d) # row
    BY <1>4, <2>1, SeenFields
  <2> QED
    BY <2>2, <2>3, <2>4
<1>14. ASSUME NEW r \in job[p].todo \ {row}
       PROVE  fact'[r.claim].state = "active" /\ r = Seen(r.claim)' /\ r.subject = p
  <2>1. r.claim \in Claims /\ fact[r.claim].state = "active" /\ r = Seen(r.claim) /\ r.subject = p
    BY <1>1, <1>2, JobFields DEF FactStage, Listed, InFacts
  <2>2. r.claim # c
    BY <1>4, <1>14, <2>1
  <2> QED
    BY <1>7, <2>1, <2>2, SeenSame
<1>15. Progress(p)'
  <2>1. FactStage(p)'
    BY <1>12, <1>13, <1>14 DEF FactStage, Listed, InFacts, FromSenders, FromList, Moving, FromHeld,
                               FromHandOver, FromDisown, FromSpend
  <2>2. MoveStage(p)' /\ QueueStage(p)'
    BY <1>12 DEF MoveStage, QueueStage, Moving, FromHeld, FromHandOver, FromDisown, FromSpend
  <2> QED
    BY <2>1, <2>2 DEF Progress
<1> QED
  BY <1>11, <1>15

LEMMA mark_forgottenKeeps ==
    ASSUME IInv, NEW p \in People, NEW row \in job[p].todo, mark_forgotten(p, row)
    PROVE  (\A c \in Claims : Good(c)' /\ Clean(c)') /\ Progress(p)'
<1>1. /\ job[p].pc = "facts" /\ fate_of(p, row) = "destroy"
      /\ job' = [job EXCEPT ![p] = [pc |-> IF row.wiki = p THEN "erase" ELSE "strip",
                                    todo |-> job[p].todo \ {row}, cur |-> row.claim]]
      /\ UNCHANGED <<buffer, prose, wikis, enrolled, spent, round, faults, asked, said, forms>>
  BY DEF mark_forgotten
<1>2. TypeOK /\ p \in asked /\ FactStage(p)
  BY <1>1, Solo
<1>3. PICK c \in Claims : c = row.claim
  BY <1>2, JobFields
<1>4. /\ fact[c].state = "active" /\ row = Seen(c) /\ row.subject = p
      /\ row.sender = fact[c].sender /\ row.wiki = fact[c].wiki /\ fact[c].subject = p
  <2>1. fact[c].state = "active" /\ row = Seen(c) /\ row.subject = p
    BY <1>1, <1>2, <1>3 DEF FactStage, Listed, InFacts
  <2> QED
    BY <2>1, SeenFields
<1>5. c \in Rules \/ fact[c].sender \in {p, Removed}
  BY <1>1, <1>3, <1>4 DEF fate_of
<1>6. fact' = [fact EXCEPT ![c] = [@ EXCEPT !.state = "retired"]]
  BY <1>3, <1>4 DEF mark_forgotten
<1>7. /\ fact'[c].subject = fact[c].subject /\ fact'[c].sender = fact[c].sender
      /\ fact'[c].wiki = fact[c].wiki /\ fact'[c].state = "retired"
      /\ \A d \in Claims : d # c => fact'[d] = fact[d]
  <2>1. fact[c] \in Rows
    BY <1>2, RowFields
  <2> QED
    BY <1>2, <1>4, <1>6, <2>1 DEF TypeOK, Rows
<1>8. Good(c) /\ Clean(c) /\ Erased' = Erased
  BY <1>1, ErasedSame DEF IInv
<1>9. About[c] \in asked /\ (c \notin Rules => By[c] \in asked)
  <2>1. By[c] # Removed
    BY ErasureAssumption
  <2> QED
    BY <1>2, <1>4, <1>5, <1>8, <2>1 DEF Good, Filed, From
<1>10. Good(c)'
  <2>1. Filed(c)'
    BY <1>1, <1>4, <1>7, <1>8 DEF Good, Filed, From, NoCapture
  <2>2. Saved(c)'
    BY <1>1, <1>9 DEF Saved, Excused
  <2>3. Shelved(c)'
    BY <1>1, <1>2, <1>4, <1>7, <1>8, <1>9 DEF Good, Shelved, Housed, Live
  <2> QED
    BY <2>1, <2>2, <2>3 DEF Good
<1>11. Clean(c)'
  BY <1>1, <1>7, <1>8 DEF Clean
<1>12. \A d \in Claims : Good(d)' /\ Clean(d)'
  BY <1>1, <1>7, <1>10, <1>11, OthersStand
<1>13. /\ job'[p].pc = (IF row.wiki = p THEN "erase" ELSE "strip")
       /\ job'[p].todo = job[p].todo \ {row} /\ job'[p].cur = c
  BY <1>1, <1>2, <1>3 DEF TypeOK
<1>14. ASSUME NEW d \in Claims, fact'[d].state = "active", fact'[d].subject = p
       PROVE  Seen(d)' \in job[p].todo \ {row}
  <2>1. d # c
    BY <1>7, <1>14
  <2>2. fact'[d] = fact[d] /\ Seen(d)' = Seen(d)
    BY <1>7, <2>1, SeenSame
  <2>3. Seen(d) \in job[p].todo
    BY <1>1, <1>2, <1>14, <2>2 DEF FactStage, InFacts
  <2>4. Seen(d) # row
    BY <1>4, <2>1, SeenFields
  <2> QED
    BY <2>2, <2>3, <2>4
<1>15. ASSUME NEW r \in job[p].todo \ {row}
       PROVE  fact'[r.claim].state = "active" /\ r = Seen(r.claim)' /\ r.subject = p
  <2>1. r.claim \in Claims /\ fact[r.claim].state = "active" /\ r = Seen(r.claim) /\ r.subject = p
    BY <1>1, <1>2, JobFields DEF FactStage, Listed, InFacts
  <2>2. r.claim # c
    BY <1>4, <1>15, <2>1
  <2> QED
    BY <1>7, <2>1, <2>2, SeenSame
<1>16. job'[p].pc = "erase" => \A w \in People : <<c, w>> \in prose' => w \in asked'
  <2> SUFFICES ASSUME fact[c].wiki = p, NEW w \in People, <<c, w>> \in prose' PROVE w \in asked'
    BY <1>4, <1>13
  <2>1. Housed(c, w)'
    BY <1>10 DEF Good, Shelved
  <2>2. ~Live(c)'
    BY <1>1, <1>4, <1>7, <1>8 DEF Good, Filed, Live
  <2> QED
    BY <1>1, <1>2, <1>7, <2>1, <2>2 DEF Housed
<1>17. Progress(p)'
  <2>1. FactStage(p)'
    BY <1>7, <1>13, <1>14, <1>15, <1>16
    DEF FactStage, Listed, InFacts, FromSenders, FromList, Moving, FromHeld, FromHandOver,
        FromDisown, FromSpend
  <2>2. MoveStage(p)' /\ QueueStage(p)'
    BY <1>13 DEF MoveStage, QueueStage, Moving, FromHeld, FromHandOver, FromDisown, FromSpend
  <2> QED
    BY <2>1, <2>2 DEF Progress
<1> QED
  BY <1>12, <1>17

\* Step 1 goes on with the rest of its list when the claim in hand is retired.
LEMMA BackToTheList ==
    ASSUME IInv, NEW p \in People, job[p].pc \in {"strip", "erase"}, NEW s \in InFacts, Go(p, s),
           \A d \in Claims : d # job[p].cur => fact'[d] = fact[d],
           fact'[job[p].cur].state # "active",
           s = "strip" \/ s = "erase" => fact'[job[p].cur].state = "retired",
           s = "erase" => \A w \in People : <<job[p].cur, w>> \in prose' => w \in asked'
    PROVE  Progress(p)'
<1>1. TypeOK /\ FactStage(p)
  BY Solo
<1>2. job'[p].pc = s /\ job'[p].todo = job[p].todo /\ job'[p].cur = job[p].cur
  BY <1>1, GoMoves DEF InFacts, Stages
<1>3. PICK c : c = job[p].cur
  OBVIOUS
<1>4. fact[c].state = "retired"
  BY <1>1, <1>3 DEF FactStage
<1>5. ASSUME NEW d \in Claims, fact'[d].state = "active", fact'[d].subject = p
      PROVE  Seen(d)' \in job[p].todo
  <2>1. fact'[d] = fact[d] /\ Seen(d)' = Seen(d)
    BY <1>3, <1>5, SeenSame
  <2> QED
    BY <1>1, <1>5, <2>1 DEF FactStage, InFacts
<1>6. ASSUME NEW r \in job[p].todo
      PROVE  fact'[r.claim].state = "active" /\ r = Seen(r.claim)' /\ r.subject = p
  <2>1. r.claim \in Claims /\ fact[r.claim].state = "active" /\ r = Seen(r.claim) /\ r.subject = p
    BY <1>1, JobFields DEF FactStage, Listed, InFacts
  <2> QED
    BY <1>3, <1>4, <2>1, SeenSame
<1>7. FactStage(p)'
  BY <1>2, <1>3, <1>5, <1>6
  DEF FactStage, Listed, InFacts, FromSenders, FromList, Moving, FromHeld, FromHandOver,
      FromDisown, FromSpend
<1>8. MoveStage(p)' /\ QueueStage(p)'
  BY <1>2 DEF MoveStage, QueueStage, InFacts, Moving, FromHeld, FromHandOver, FromDisown, FromSpend
<1> QED
  BY <1>7, <1>8 DEF Progress

LEMMA strip_fact_regionKeeps ==
    ASSUME IInv, NEW p \in People, strip_fact_region(p)
    PROVE  (\A c \in Claims : Good(c)' /\ Clean(c)') /\ Progress(p)'
<1>1. job[p].pc = "strip" /\ UNCHANGED <<buffer, wikis, enrolled, spent, round, asked, said, forms>>
  BY DEF strip_fact_region
<1>2. TypeOK /\ CurIsAClaim /\ p \in asked /\ FactStage(p)
  BY <1>1, Solo DEF TypeInv
<1>3. PICK c \in Claims : c = job[p].cur
  BY <1>1, <1>2 DEF CurIsAClaim
<1>4. fact[c].state = "retired" /\ Good(c) /\ Clean(c) /\ Erased' = Erased
  BY <1>1, <1>2, <1>3, ErasedSame DEF FactStage, IInv
<1>5. CASE /\ prose' = prose \ {<<c, fact[c].wiki>>}
           /\ fact' = [fact EXCEPT ![c] = [@ EXCEPT !.shown = FALSE]]
           /\ Go(p, "erase")
  <2>1. /\ fact'[c].subject = fact[c].subject /\ fact'[c].sender = fact[c].sender
        /\ fact'[c].wiki = fact[c].wiki /\ fact'[c].state = "retired"
        /\ \A d \in Claims : d # c => fact'[d] = fact[d]
    <3>1. fact[c] \in Rows
      BY <1>2, RowFields
    <3> QED
      BY <1>2, <1>4, <1>5, <3>1 DEF TypeOK, Rows
  <2>2. \A w \in People : <<c, w>> \in prose' => w \in asked
    <3> SUFFICES ASSUME NEW w \in People, <<c, w>> \in prose' PROVE w \in asked
      OBVIOUS
    <3>1. <<c, w>> \in prose /\ w # fact[c].wiki
      BY <1>5
    <3>2. Housed(c, w) /\ ~Live(c)
      BY <1>4, <3>1 DEF Good, Shelved, Filed, Live
    <3> QED
      BY <3>1, <3>2 DEF Housed
  <2>3. Good(c)'
    <3>1. Filed(c)'
      BY <1>1, <1>4, <2>1 DEF Good, Filed, From, NoCapture
    <3>2. Saved(c)'
      BY <1>1, <1>4, <2>1 DEF Good, Saved, Live, Excused
    <3>3. Shelved(c)'
      BY <1>1, <2>2 DEF Shelved, Housed
    <3> QED
      BY <3>1, <3>2, <3>3 DEF Good
  <2>4. Clean(c)'
    BY <1>1, <1>4, <2>1 DEF Clean
  <2>5. \A d \in Claims : Good(d)' /\ Clean(d)'
    BY <1>1, <1>5, <2>1, <2>3, <2>4, OthersStand
  <2>6. Progress(p)'
    BY <1>1, <1>3, <1>5, <2>1, <2>2, BackToTheList DEF InFacts
  <2> QED
    BY <2>5, <2>6
<1>6. CASE Go(p, "facts") /\ UNCHANGED <<prose, fact>>
  <2>1. \A d \in Claims : Good(d)' /\ Clean(d)'
    BY <1>1, <1>6, ClaimsStand
  <2>2. Progress(p)'
    BY <1>1, <1>3, <1>4, <1>6, BackToTheList DEF InFacts
  <2> QED
    BY <2>1, <2>2
<1> QED
  BY <1>3, <1>5, <1>6 DEF strip_fact_region

LEMMA eraseKeeps ==
    ASSUME IInv, NEW p \in People, erase(p)
    PROVE  (\A c \in Claims : Good(c)' /\ Clean(c)') /\ Progress(p)'
<1>1. /\ job[p].pc = "erase" /\ Go(p, "facts")
      /\ UNCHANGED <<buffer, prose, wikis, enrolled, spent, round, faults, asked, said, forms>>
  BY DEF erase
<1>2. TypeOK /\ CurIsAClaim /\ p \in asked /\ FactStage(p)
  BY <1>1, Solo DEF TypeInv
<1>3. PICK c \in Claims : c = job[p].cur
  BY <1>1, <1>2 DEF CurIsAClaim
<1>4. /\ fact[c].state = "retired" /\ Good(c) /\ Clean(c) /\ Erased' = Erased
      /\ \A w \in People : <<c, w>> \in prose => w \in asked
  BY <1>1, <1>2, <1>3, ErasedSame DEF FactStage, IInv
<1>5. fact'[c].state = "none" /\ \A d \in Claims : d # c => fact'[d] = fact[d]
  BY <1>2, <1>3 DEF erase, TypeOK, NoRow
<1>6. Good(c)'
  <2>1. Filed(c)'
    BY <1>1, <1>4, <1>5 DEF Good, Filed, From, NoCapture
  <2>2. Saved(c)'
    BY <1>1, <1>4 DEF Good, Filed, Saved, Live, Excused
  <2>3. Shelved(c)'
    BY <1>1, <1>4 DEF Shelved, Housed
  <2> QED
    BY <2>1, <2>2, <2>3 DEF Good
<1>7. Clean(c)'
  BY <1>1, <1>4, <1>5 DEF Clean
<1>8. \A d \in Claims : Good(d)' /\ Clean(d)'
  BY <1>1, <1>5, <1>6, <1>7, OthersStand
<1>9. Progress(p)'
  BY <1>1, <1>3, <1>5, BackToTheList DEF InFacts
<1> QED
  BY <1>8, <1>9

LEMMA FactsDoneKeeps ==
    ASSUME IInv, NEW p \in People, FactsDone(p)
    PROVE  (\A c \in Claims : Good(c)' /\ Clean(c)') /\ Progress(p)'
<1>1. /\ job[p].pc = "facts" /\ job[p].todo = {} /\ Go(p, "senders")
      /\ UNCHANGED <<fact, buffer, prose, wikis, enrolled, spent, round, faults, asked, said, forms>>
  BY DEF FactsDone
<1>2. TypeOK /\ FactStage(p)
  BY <1>1, Solo
<1>3. \A c \in Claims : fact[c].state = "active" => fact[c].subject # p
  BY <1>1, <1>2 DEF FactStage, InFacts
<1>4. job'[p].pc = "senders"
  BY <1>1, <1>2, GoMoves DEF Stages
<1>5. Progress(p)'
  BY <1>1, <1>3, <1>4 DEF Progress, FactStage, MoveStage, QueueStage, InFacts, FromSenders, FromList,
                          Moving, FromHeld, FromHandOver, FromDisown, FromSpend
<1> QED
  BY <1>1, <1>5, ClaimsStand

LEMMA replace_senderKeeps ==
    ASSUME IInv, NEW p \in People, replace_sender(p)
    PROVE  (\A c \in Claims : Good(c)' /\ Clean(c)') /\ Progress(p)'
<1>1. /\ job[p].pc = "senders" /\ Go(p, "list")
      /\ UNCHANGED <<buffer, prose, wikis, enrolled, spent, round, faults, asked, said, forms>>
  BY DEF replace_sender
<1>2. TypeOK /\ p \in asked /\ p # Removed /\ FactStage(p)
  BY <1>1, Solo
<1>3. ASSUME NEW c \in Claims
      PROVE  /\ fact'[c].subject = fact[c].subject /\ fact'[c].wiki = fact[c].wiki
             /\ fact'[c].state = fact[c].state
             /\ fact'[c].sender = IF fact[c].state = "active" /\ fact[c].sender = p
                                  THEN Removed ELSE fact[c].sender
  <2>1. fact[c] \in Rows
    BY <1>2, RowFields
  <2> QED
    BY <2>1 DEF replace_sender, Rows
<1>4. ASSUME NEW c \in Claims PROVE Good(c)' /\ Clean(c)'
  <2>0. Good(c) /\ Clean(c) /\ Erased' = Erased
    BY <1>1, ErasedSame DEF IInv
  <2>1. Filed(c)'
    BY <1>1, <1>2, <1>3, <2>0 DEF Good, Filed, From, NoCapture
  <2>2. Saved(c)'
    BY <1>1, <1>3, <2>0 DEF Good, Saved, Live, Excused
  <2>3. Shelved(c)'
    BY <1>1, <1>3, <2>0 DEF Good, Shelved, Housed, Live
  <2>4. Removed \notin Erased
    BY <1>2, ErasureAssumption DEF TypeOK, Erased
  <2>5. Clean(c)'
    BY <1>1, <1>3, <2>0, <2>4 DEF Clean
  <2> QED
    BY <2>1, <2>2, <2>3, <2>5 DEF Good
<1>5. job'[p].pc = "list"
  BY <1>1, <1>2, GoMoves DEF Stages
<1>6. \A c \in Claims : fact'[c].state = "active" => fact'[c].subject # p /\ fact'[c].sender # p
  BY <1>1, <1>2, <1>3 DEF FactStage, FromSenders
<1>7. Progress(p)'
  BY <1>5, <1>6 DEF Progress, FactStage, MoveStage, QueueStage, InFacts, FromSenders, FromList,
                    Moving, FromHeld, FromHandOver, FromDisown, FromSpend
<1> QED
  BY <1>4, <1>7

LEMMA find_active_in_wikiKeeps ==
    ASSUME IInv, NEW p \in People, find_active_in_wiki(p)
    PROVE  (\A c \in Claims : Good(c)' /\ Clean(c)') /\ Progress(p)'
<1> DEFINE all == {Seen(c) : c \in {d \in Claims : fact[d].state = "active" /\ fact[d].wiki = p}}
<1>1. /\ job[p].pc = "list"
      /\ job' = [job EXCEPT ![p] = [pc |-> "relocate", cur |-> Nobody, todo |-> all]]
      /\ UNCHANGED <<fact, buffer, prose, wikis, enrolled, spent, round, faults, asked, said, forms>>
  BY DEF find_active_in_wiki
<1>2. TypeOK /\ FactStage(p)
  BY <1>1, Solo
<1>3. /\ \A c \in Claims : fact[c].state = "active" /\ fact[c].wiki = p => Seen(c) \in all
      /\ \A row \in all : \E c \in Claims : row = Seen(c) /\ fact[c].state = "active" /\ fact[c].wiki = p
  OBVIOUS
<1>4. job'[p].pc = "relocate" /\ job'[p].todo = all
  BY <1>1, <1>2 DEF TypeOK
<1> HIDE DEF all
<1>5. \A row \in all : /\ fact'[row.claim].state = "active" /\ row.wiki = p
                       /\ row = Seen(row.claim)'
  BY <1>1, <1>3, SeenFields, SeenSame
<1>6. \A c \in Claims : fact'[c].state = "active" /\ fact'[c].wiki = p => Seen(c)' \in all
  BY <1>1, <1>3, SeenSame
<1>7. \A c \in Claims : fact'[c].state = "active" => fact'[c].subject # p /\ fact'[c].sender # p
  BY <1>1, <1>2 DEF FactStage, FromSenders, FromList
<1>8. FactStage(p)' /\ QueueStage(p)'
  BY <1>4, <1>7 DEF FactStage, QueueStage, InFacts, FromHandOver, FromDisown, FromSpend
<1>9. MoveStage(p)'
  BY <1>4, <1>5, <1>6 DEF MoveStage, Listed, FromHeld, FromHandOver, FromDisown, FromSpend
<1> QED
  BY <1>1, <1>8, <1>9, ClaimsStand DEF Progress

\* The facts of step 1 and 2 hold through step 4: no active row names them.
LEMMA UnnamedStays ==
    ASSUME IInv, NEW p \in People, job[p].pc \in Moving,
           \A c \in Claims : fact'[c].state = "active" =>
              fact[c].state = "active" /\ fact'[c].subject = fact[c].subject
              /\ fact'[c].sender = fact[c].sender,
           job'[p].pc \in Moving \cup {"held"}
    PROVE  FactStage(p)' /\ QueueStage(p)'
<1>1. FactStage(p)
  BY Solo DEF Moving
<1>2. \A c \in Claims : fact'[c].state = "active" => fact'[c].subject # p /\ fact'[c].sender # p
  BY <1>1 DEF FactStage, FromSenders, FromList
<1> QED
  BY <1>2 DEF FactStage, QueueStage, InFacts, Moving, FromHandOver, FromDisown, FromSpend

LEMMA RefileRowKeeps ==
    ASSUME IInv, NEW p \in People, NEW row \in job[p].todo, RefileRow(p, row)
    PROVE  (\A c \in Claims : Good(c)' /\ Clean(c)') /\ Progress(p)'
<1>1. /\ job[p].pc = "relocate" /\ destination_wiki(p, row) # Nobody
      /\ UNCHANGED <<buffer, prose, wikis, enrolled, spent, round, faults, asked, said, forms>>
  BY DEF RefileRow
<1>2. TypeOK /\ p \in asked /\ FactStage(p) /\ MoveStage(p)
  BY <1>1, Solo
<1>3. PICK c \in Claims : c = row.claim
  BY <1>2, JobFields
<1>4. /\ fact[c].state = "active" /\ row = Seen(c) /\ fact[c].wiki = p /\ row.subject = fact[c].subject
  <2>1. fact[c].state = "active" /\ row = Seen(c) /\ row.wiki = p
    BY <1>1, <1>2, <1>3 DEF MoveStage, Listed, Moving
  <2> QED
    BY <2>1, SeenFields
<1>5. destination_wiki(p, row) = fact[c].subject /\ fact[c].subject # p
  BY <1>1, <1>4 DEF destination_wiki
<1>6. Good(c) /\ Clean(c) /\ Erased' = Erased
  BY <1>1, ErasedSame DEF IInv
<1>7. ASSUME NEW r \in job[p].todo \ {row}
      PROVE  r.claim \in Claims /\ fact[r.claim].state = "active" /\ r = Seen(r.claim)
             /\ r.wiki = p /\ r.claim # c
  <2>1. r.claim \in Claims /\ fact[r.claim].state = "active" /\ r = Seen(r.claim) /\ r.wiki = p
    BY <1>1, <1>2, JobFields DEF MoveStage, Listed, Moving
  <2> QED
    BY <1>4, <1>7, <2>1
<1>8. ASSUME NEW d \in Claims, d # c, fact[d].state = "active", fact[d].wiki = p
      PROVE  Seen(d) \in job[p].todo \ {row}
  <2>1. Seen(d) \in job[p].todo
    BY <1>1, <1>2, <1>8 DEF MoveStage, Moving
  <2>2. Seen(d) # row
    BY <1>4, <1>8, SeenFields
  <2> QED
    BY <2>1, <2>2
<1>9. CASE /\ fact' = [fact EXCEPT ![c] = [@ EXCEPT !.wiki = fact[c].subject, !.shown = FALSE]]
           /\ job' = [job EXCEPT ![p] = [pc |-> "dest", todo |-> job[p].todo \ {row}, cur |-> c]]
  <2>1. /\ fact'[c].subject = fact[c].subject /\ fact'[c].sender = fact[c].sender
        /\ fact'[c].wiki = fact[c].subject /\ fact'[c].state = "active"
        /\ \A d \in Claims : d # c => fact'[d] = fact[d]
    <3>1. fact[c] \in Rows
      BY <1>2, RowFields
    <3> QED
      BY <1>2, <1>4, <1>9, <3>1 DEF TypeOK, Rows
  <2>2. Good(c)'
    <3>1. Filed(c)'
      BY <1>1, <1>4, <1>6, <2>1 DEF Good, Filed, From, NoCapture
    <3>2. Saved(c)'
      BY <2>1 DEF Saved, Live
    <3>3. Shelved(c)'
      BY <1>1, <1>2, <1>4, <1>6, <2>1 DEF Good, Shelved, Housed, Live
    <3> QED
      BY <3>1, <3>2, <3>3 DEF Good
  <2>3. Clean(c)'
    BY <1>1, <1>4, <1>6, <2>1 DEF Clean
  <2>4. \A d \in Claims : Good(d)' /\ Clean(d)'
    BY <1>1, <2>1, <2>2, <2>3, OthersStand
  <2>5. job'[p].pc = "dest" /\ job'[p].todo = job[p].todo \ {row} /\ job'[p].cur = c
    BY <1>2, <1>9 DEF TypeOK
  <2>6. FactStage(p)' /\ QueueStage(p)'
    BY <1>1, <1>4, <2>1, <2>5, UnnamedStays DEF Moving
  <2>7. \A r \in job[p].todo \ {row} : fact'[r.claim].state = "active" /\ r = Seen(r.claim)' /\ r.wiki = p
    BY <1>7, <2>1, SeenSame
  <2>8. \A d \in Claims : fact'[d].state = "active" /\ fact'[d].wiki = p
                            => Seen(d)' \in job[p].todo \ {row}
    BY <1>5, <1>8, <2>1, SeenSame
  <2>9. MoveStage(p)'
    BY <2>1, <2>5, <2>7, <2>8 DEF MoveStage, Listed, FromHeld, FromHandOver, FromDisown, FromSpend
  <2> QED
    BY <2>4, <2>6, <2>9 DEF Progress
<1>10. CASE /\ job' = [job EXCEPT ![p] = [pc |-> "rebuffer", todo |-> job[p].todo \ {row}, cur |-> c]]
            /\ UNCHANGED fact
  <2>1. job'[p].pc = "rebuffer" /\ job'[p].todo = job[p].todo \ {row} /\ job'[p].cur = c
    BY <1>2, <1>10 DEF TypeOK
  <2>2. FactStage(p)' /\ QueueStage(p)'
    BY <1>1, <1>10, <2>1, UnnamedStays DEF Moving
  <2>3. \A r \in job[p].todo \ {row} :
          fact'[r.claim].state = "active" /\ r = Seen(r.claim)' /\ r.wiki = p /\ r.claim # c
    BY <1>7, <1>10, SeenSame
  <2>4. \A d \in Claims : fact'[d].state = "active" /\ fact'[d].wiki = p
                            => Seen(d)' \in job[p].todo \ {row} \/ d = c
    BY <1>8, <1>10, SeenSame
  <2>5. MoveStage(p)'
    BY <1>4, <1>10, <2>1, <2>3, <2>4
    DEF MoveStage, Listed, FromHeld, FromHandOver, FromDisown, FromSpend
  <2> QED
    BY <1>1, <1>10, <2>2, <2>5, ClaimsStand DEF Progress
<1> QED
  BY <1>3, <1>5, <1>9, <1>10 DEF RefileRow

\* A refile that cannot write a page puts the row back, and may leave a copy of
\* the region in the wiki of the claim's subject.
LEMMA RefileBackKeeps ==
    ASSUME IInv, NEW p \in People, job[p].pc \in {"dest", "source"}, RefileBack(p),
           UNCHANGED <<buffer, prose, wikis, enrolled, spent, round, asked, said, forms>>
    PROVE  (\A c \in Claims : Good(c)' /\ Clean(c)') /\ Progress(p)'
<1>1. TypeOK /\ CurIsAClaim /\ p \in asked /\ FactStage(p) /\ MoveStage(p)
  BY Solo DEF TypeInv
<1>2. PICK c \in Claims : c = job[p].cur
  BY <1>1 DEF CurIsAClaim
<1>3. fact[c].state = "active" /\ fact[c].wiki = fact[c].subject /\ fact[c].subject # p
  BY <1>1, <1>2 DEF MoveStage, FactStage, FromSenders, FromList, Moving
<1>4. /\ Go(p, "rebuffer")
      /\ fact' = [fact EXCEPT ![c] = [@ EXCEPT !.wiki = p, !.shown = TRUE]]
  BY <1>2 DEF RefileBack
<1>5. /\ fact'[c].subject = fact[c].subject /\ fact'[c].sender = fact[c].sender
      /\ fact'[c].wiki = p /\ fact'[c].state = "active"
      /\ \A d \in Claims : d # c => fact'[d] = fact[d]
  <2>1. fact[c] \in Rows
    BY <1>1, RowFields
  <2> QED
    BY <1>1, <1>3, <1>4, <2>1 DEF TypeOK, Rows
<1>6. Good(c) /\ Clean(c) /\ Erased' = Erased
  BY ErasedSame DEF IInv
<1>7. Good(c)'
  <2>1. Filed(c)'
    BY <1>3, <1>5, <1>6 DEF Good, Filed, From, NoCapture
  <2>2. Saved(c)'
    BY <1>5 DEF Saved, Live
  <2>3. Shelved(c)'
    <3> SUFFICES ASSUME NEW w \in People, <<c, w>> \in prose PROVE Housed(c, w)'
      BY DEF Shelved
    <3>1. Housed(c, w)
      BY <1>6 DEF Good, Shelved
    <3>2. CASE w # fact[c].wiki
      BY <1>3, <1>5, <3>1, <3>2 DEF Housed, Live
    <3>3. CASE w = fact[c].wiki
      <4>1. w \in asked \/ w \in {About[c], By[c]}
        BY <1>3, <1>6, <3>3 DEF Good, Filed, From
      <4>2. /\ buffer[c].status # "held"
            /\ c \in Rules /\ buffer[c].status # "none" => buffer[c].subject = w
        BY <1>3, <1>6, <3>3 DEF Good, Filed
      <4> QED
        BY <1>3, <1>5, <3>3, <4>1, <4>2 DEF Housed, Live
    <3> QED
      BY <3>2, <3>3
  <2> QED
    BY <2>1, <2>2, <2>3 DEF Good
<1>8. Clean(c)'
  BY <1>3, <1>5, <1>6 DEF Clean
<1>9. \A d \in Claims : Good(d)' /\ Clean(d)'
  BY <1>5, <1>7, <1>8, OthersStand
<1>10. job'[p].pc = "rebuffer" /\ job'[p].todo = job[p].todo /\ job'[p].cur = c
  BY <1>1, <1>2, <1>4, GoMoves DEF Stages
<1>11. FactStage(p)' /\ QueueStage(p)'
  BY <1>3, <1>5, <1>10, UnnamedStays DEF Moving
<1>12. \A r \in job[p].todo :
         fact'[r.claim].state = "active" /\ r = Seen(r.claim)' /\ r.wiki = p /\ r.claim # c
  <2> SUFFICES ASSUME NEW r \in job[p].todo
               PROVE  fact'[r.claim].state = "active" /\ r = Seen(r.claim)' /\ r.wiki = p /\ r.claim # c
    OBVIOUS
  <2>1. r.claim \in Claims /\ fact[r.claim].state = "active" /\ r = Seen(r.claim) /\ r.wiki = p
    BY <1>1, JobFields DEF MoveStage, Listed, Moving
  <2>2. r.claim # c
    BY <1>3, <2>1, SeenFields
  <2> QED
    BY <1>5, <2>1, <2>2, SeenSame
<1>13. \A d \in Claims : fact'[d].state = "active" /\ fact'[d].wiki = p
                           => Seen(d)' \in job[p].todo \/ d = c
  <2>1. \A d \in Claims : fact[d].state = "active" /\ fact[d].wiki = p => Seen(d) \in job[p].todo
    BY <1>1 DEF MoveStage, Moving
  <2> QED
    BY <1>5, <2>1, SeenSame
<1>14. MoveStage(p)'
  BY <1>5, <1>10, <1>12, <1>13 DEF MoveStage, Listed, FromHeld, FromHandOver, FromDisown, FromSpend
<1> QED
  BY <1>9, <1>11, <1>14 DEF Progress

\* A refile that goes on: the row in hand stays where it was filed.
LEMMA RefileGoesOn ==
    ASSUME IInv, NEW p \in People, job[p].pc \in {"dest", "source"},
           NEW s \in {"source", "relocate"}, Go(p, s),
           \A c \in Claims : /\ fact'[c].subject = fact[c].subject /\ fact'[c].sender = fact[c].sender
                             /\ fact'[c].wiki = fact[c].wiki /\ fact'[c].state = fact[c].state
    PROVE  Progress(p)'
<1>1. TypeOK /\ CurIsAClaim /\ MoveStage(p)
  BY Solo DEF TypeInv
<1>2. job'[p].pc = s /\ job'[p].todo = job[p].todo /\ job'[p].cur = job[p].cur
  BY <1>1, GoMoves DEF Stages
<1>3. FactStage(p)' /\ QueueStage(p)'
  BY <1>2, UnnamedStays DEF Moving
<1>4. \A c \in Claims : Seen(c)' = Seen(c)
  BY DEF Seen
<1>5. \A r \in job[p].todo : fact'[r.claim].state = "active" /\ r = Seen(r.claim)' /\ r.wiki = p
  BY <1>1, <1>4, JobFields DEF MoveStage, Listed, Moving
<1>6. \A d \in Claims : fact'[d].state = "active" /\ fact'[d].wiki = p => Seen(d)' \in job[p].todo
  BY <1>1, <1>4 DEF MoveStage, Moving
<1>7. job[p].cur \in Claims
  BY <1>1 DEF CurIsAClaim
<1>8. fact'[job[p].cur].state = "active" /\ fact'[job[p].cur].wiki = fact'[job[p].cur].subject
  BY <1>1, <1>7 DEF MoveStage
<1>9. MoveStage(p)'
  BY <1>2, <1>5, <1>6, <1>8 DEF MoveStage, Listed, FromHeld, FromHandOver, FromDisown, FromSpend
<1> QED
  BY <1>3, <1>9 DEF Progress

LEMMA RefileDestKeeps ==
    ASSUME IInv, NEW p \in People, RefileDest(p)
    PROVE  (\A c \in Claims : Good(c)' /\ Clean(c)') /\ Progress(p)'
<1>1. job[p].pc = "dest" /\ UNCHANGED <<buffer, wikis, enrolled, spent, round, asked, said, forms>>
  BY DEF RefileDest
<1>2. CASE RefileBack(p) /\ UNCHANGED prose
  BY <1>1, <1>2, RefileBackKeeps
<1>3. CASE /\ prose' = prose \cup {<<job[p].cur, fact[job[p].cur].wiki>>}
           /\ Go(p, "source") /\ UNCHANGED <<fact, faults>>
  <2>1. TypeOK /\ CurIsAClaim /\ MoveStage(p)
    BY <1>1, Solo DEF TypeInv
  <2>2. PICK c \in Claims : c = job[p].cur
    BY <1>1, <2>1 DEF CurIsAClaim
  <2>3. fact[c].state = "active" /\ Good(c) /\ Clean(c) /\ Erased' = Erased
    BY <1>1, <2>1, <2>2, ErasedSame DEF MoveStage, IInv
  <2>4. Good(c)'
    <3>1. Filed(c)' /\ Saved(c)'
      BY <1>1, <1>3, <2>3 DEF Good, Filed, From, NoCapture, Saved, Live, Excused
    <3>2. Shelved(c)'
      BY <1>1, <1>3, <2>2, <2>3 DEF Good, Shelved, Housed, Live
    <3> QED
      BY <3>1, <3>2 DEF Good
  <2>5. Clean(c)'
    BY <1>1, <1>3, <2>3, CleanSame
  <2>6. \A d \in Claims : d # c => \A w \in People : <<d, w>> \in prose' => <<d, w>> \in prose
    BY <1>3, <2>2
  <2>7. \A d \in Claims : Good(d)' /\ Clean(d)'
    BY <1>1, <1>3, <2>4, <2>5, <2>6, OthersStand
  <2>8. Progress(p)'
    BY <1>1, <1>3, RefileGoesOn
  <2> QED
    BY <2>7, <2>8
<1> QED
  BY <1>2, <1>3 DEF RefileDest

LEMMA RefileSourceKeeps ==
    ASSUME IInv, NEW p \in People, RefileSource(p)
    PROVE  (\A c \in Claims : Good(c)' /\ Clean(c)') /\ Progress(p)'
<1>1. job[p].pc = "source" /\ UNCHANGED <<buffer, wikis, enrolled, spent, round, asked, said, forms>>
  BY DEF RefileSource
<1>2. CASE RefileBack(p) /\ UNCHANGED prose
  BY <1>1, <1>2, RefileBackKeeps
<1>3. CASE /\ prose' = prose \ {<<job[p].cur, p>>}
           /\ fact' = [fact EXCEPT ![job[p].cur].shown = TRUE]
           /\ Go(p, "relocate")
  <2>1. TypeOK
    BY <1>1, Solo
  <2>2. ASSUME NEW c \in Claims
        PROVE  /\ fact'[c].subject = fact[c].subject /\ fact'[c].sender = fact[c].sender
               /\ fact'[c].wiki = fact[c].wiki /\ fact'[c].state = fact[c].state
    <3>1. fact[c] \in Rows
      BY <2>1, RowFields
    <3> QED
      BY <1>3, <2>1, <3>1 DEF TypeOK, Rows
  <2>3. ASSUME NEW c \in Claims PROVE Good(c)' /\ Clean(c)'
    <3>1. Good(c) /\ Clean(c) /\ Erased' = Erased
      BY <1>1, ErasedSame DEF IInv
    <3>2. Filed(c)'
      BY <1>1, <2>2, <3>1 DEF Good, Filed, From, NoCapture
    <3>3. Saved(c)'
      BY <1>1, <2>2, <3>1 DEF Good, Saved, Live, Excused
    <3>4. Shelved(c)'
      BY <1>1, <1>3, <2>2, <3>1 DEF Good, Shelved, Housed, Live
    <3>5. Clean(c)'
      BY <1>1, <2>2, <3>1 DEF Clean
    <3> QED
      BY <3>2, <3>3, <3>4, <3>5 DEF Good
  <2>4. Progress(p)'
    BY <1>1, <1>3, <2>2, RefileGoesOn
  <2> QED
    BY <2>3, <2>4
<1> QED
  BY <1>2, <1>3 DEF RefileSource

\* A claim of the person's wiki that is freed into the queue is kept, and names
\* nobody past retry.
LEMMA RebufferKeeps ==
    ASSUME IInv, NEW p \in asked, NEW c \in Claims, rebuffer(c),
           fact[c].state = "active", fact[c].wiki = p,
           UNCHANGED <<prose, enrolled, asked, said, forms>>
    PROVE  /\ \A d \in Claims : Good(d)' /\ Clean(d)'
           /\ fact'[c].state = "none" /\ \A d \in Claims : d # c => fact'[d] = fact[d]
<1>0. TypeOK
  BY DEF IInv, TypeInv
<1>1. Good(c) /\ Clean(c) /\ Erased' = Erased
  BY ErasedSame DEF IInv
<1>2. /\ buffer' = [buffer EXCEPT ![c] = Requeued(c)] /\ fact' = [fact EXCEPT ![c] = NoRow(c)]
  BY DEF rebuffer
<1>3. /\ fact'[c].state = "none" /\ buffer'[c] = Requeued(c)
      /\ \A d \in Claims : d # c => fact'[d] = fact[d] /\ buffer'[d] = buffer[d]
  BY <1>0, <1>2 DEF TypeOK, NoRow
<1>4. /\ buffer'[c].status = "buffered"
      /\ buffer[c].status # "none" => /\ buffer'[c].subject = buffer[c].subject
                                      /\ buffer'[c].sender = buffer[c].sender
      /\ buffer[c].status = "none" => /\ buffer'[c].subject = fact[c].subject
                                      /\ buffer'[c].sender = fact[c].sender
  <2>1. buffer[c] \in Captures
    BY <1>0, RowFields
  <2> QED
    BY <1>3, <2>1 DEF Requeued, Captures
<1>5. Good(c)'
  <2>1. Filed(c)'
    BY <1>1, <1>3, <1>4 DEF Good, Filed, From
  <2>2. Saved(c)'
    BY <1>4 DEF Saved, Live
  <2>3. Shelved(c)'
    BY <1>1, <1>3, <1>4 DEF Good, Shelved, Housed, Live
  <2> QED
    BY <2>1, <2>2, <2>3 DEF Good
<1>6. Clean(c)'
  BY <1>1, <1>3, <1>4 DEF Clean
<1>7. \A d \in Claims : Good(d)' /\ Clean(d)'
  BY <1>3, <1>5, <1>6, OthersStand
<1> QED
  BY <1>3, <1>7

LEMMA RebufferUnplacedKeeps ==
    ASSUME IInv, NEW p \in People, NEW row \in job[p].todo, RebufferUnplaced(p, row)
    PROVE  (\A c \in Claims : Good(c)' /\ Clean(c)') /\ Progress(p)'
<1>1. /\ job[p].pc = "relocate" /\ rebuffer(row.claim)
      /\ job' = [job EXCEPT ![p].todo = @ \ {row}]
      /\ UNCHANGED <<prose, wikis, enrolled, spent, round, faults, asked, said, forms>>
  BY DEF RebufferUnplaced
<1>2. TypeOK /\ p \in asked /\ MoveStage(p)
  BY <1>1, Solo
<1>3. PICK c \in Claims : c = row.claim
  BY <1>2, JobFields
<1>4. fact[c].state = "active" /\ row = Seen(c) /\ fact[c].wiki = p
  <2>1. fact[c].state = "active" /\ row = Seen(c) /\ row.wiki = p
    BY <1>1, <1>2, <1>3 DEF MoveStage, Listed, Moving
  <2> QED
    BY <2>1, SeenFields
<1>5. /\ \A d \in Claims : Good(d)' /\ Clean(d)'
      /\ fact'[c].state = "none" /\ \A d \in Claims : d # c => fact'[d] = fact[d]
  BY <1>1, <1>2, <1>3, <1>4, RebufferKeeps
<1>6. job'[p].pc = "relocate" /\ job'[p].todo = job[p].todo \ {row}
  BY <1>1, <1>2, RowDone
<1>7. FactStage(p)' /\ QueueStage(p)'
  BY <1>1, <1>5, <1>6, UnnamedStays DEF Moving
<1>8. \A r \in job[p].todo \ {row} : fact'[r.claim].state = "active" /\ r = Seen(r.claim)' /\ r.wiki = p
  <2> SUFFICES ASSUME NEW r \in job[p].todo \ {row}
               PROVE  fact'[r.claim].state = "active" /\ r = Seen(r.claim)' /\ r.wiki = p
    OBVIOUS
  <2>1. r.claim \in Claims /\ fact[r.claim].state = "active" /\ r = Seen(r.claim) /\ r.wiki = p
    BY <1>1, <1>2, JobFields DEF MoveStage, Listed, Moving
  <2>2. r.claim # c
    BY <1>4, <2>1
  <2> QED
    BY <1>5, <2>1, <2>2, SeenSame
<1>9. \A d \in Claims : fact'[d].state = "active" /\ fact'[d].wiki = p
                          => Seen(d)' \in job[p].todo \ {row}
  <2> SUFFICES ASSUME NEW d \in Claims, fact'[d].state = "active", fact'[d].wiki = p
               PROVE  Seen(d)' \in job[p].todo \ {row}
    OBVIOUS
  <2>1. d # c /\ fact'[d] = fact[d] /\ Seen(d)' = Seen(d)
    BY <1>5, SeenSame
  <2>2. Seen(d) \in job[p].todo
    BY <1>1, <1>2, <2>1 DEF MoveStage, Moving
  <2>3. Seen(d) # row
    BY <1>4, <2>1, SeenFields
  <2> QED
    BY <2>1, <2>2, <2>3
<1>10. MoveStage(p)'
  BY <1>6, <1>8, <1>9 DEF MoveStage, Listed, FromHeld, FromHandOver, FromDisown, FromSpend
<1> QED
  BY <1>5, <1>7, <1>10 DEF Progress

LEMMA RebufferRefusedKeeps ==
    ASSUME IInv, NEW p \in People, RebufferRefused(p)
    PROVE  (\A c \in Claims : Good(c)' /\ Clean(c)') /\ Progress(p)'
<1>1. /\ job[p].pc = "rebuffer" /\ rebuffer(job[p].cur) /\ Go(p, "relocate")
      /\ UNCHANGED <<prose, wikis, enrolled, spent, round, faults, asked, said, forms>>
  BY DEF RebufferRefused
<1>2. TypeOK /\ CurIsAClaim /\ p \in asked /\ MoveStage(p)
  BY <1>1, Solo DEF TypeInv
<1>3. PICK c \in Claims : c = job[p].cur
  BY <1>1, <1>2 DEF CurIsAClaim
<1>4. fact[c].state = "active" /\ fact[c].wiki = p /\ \A r \in job[p].todo : r.claim # c
  BY <1>1, <1>2, <1>3 DEF MoveStage
<1>5. /\ \A d \in Claims : Good(d)' /\ Clean(d)'
      /\ fact'[c].state = "none" /\ \A d \in Claims : d # c => fact'[d] = fact[d]
  BY <1>1, <1>2, <1>3, <1>4, RebufferKeeps
<1>6. job'[p].pc = "relocate" /\ job'[p].todo = job[p].todo
  BY <1>1, <1>2, GoMoves DEF Stages
<1>7. FactStage(p)' /\ QueueStage(p)'
  BY <1>1, <1>5, <1>6, UnnamedStays DEF Moving
<1>8. \A r \in job[p].todo : fact'[r.claim].state = "active" /\ r = Seen(r.claim)' /\ r.wiki = p
  <2> SUFFICES ASSUME NEW r \in job[p].todo
               PROVE  fact'[r.claim].state = "active" /\ r = Seen(r.claim)' /\ r.wiki = p
    OBVIOUS
  <2>1. r.claim \in Claims /\ fact[r.claim].state = "active" /\ r = Seen(r.claim) /\ r.wiki = p
    BY <1>1, <1>2, JobFields DEF MoveStage, Listed, Moving
  <2> QED
    BY <1>4, <1>5, <2>1, SeenSame
<1>9. \A d \in Claims : fact'[d].state = "active" /\ fact'[d].wiki = p => Seen(d)' \in job[p].todo
  BY <1>1, <1>2, <1>3, <1>5, SeenSame DEF MoveStage, Moving
<1>10. MoveStage(p)'
  BY <1>6, <1>8, <1>9 DEF MoveStage, Listed, FromHeld, FromHandOver, FromDisown, FromSpend
<1> QED
  BY <1>5, <1>7, <1>10 DEF Progress

LEMMA RelocateDoneKeeps ==
    ASSUME IInv, NEW p \in People, RelocateDone(p)
    PROVE  (\A c \in Claims : Good(c)' /\ Clean(c)') /\ Progress(p)'
<1>1. /\ job[p].pc = "relocate" /\ job[p].todo = {} /\ Go(p, "held")
      /\ UNCHANGED <<fact, buffer, prose, wikis, enrolled, spent, round, faults, asked, said, forms>>
  BY DEF RelocateDone
<1>2. TypeOK /\ MoveStage(p)
  BY <1>1, Solo
<1>3. \A c \in Claims : fact[c].state = "active" => fact[c].wiki # p
  BY <1>1, <1>2 DEF MoveStage, Moving
<1>4. job'[p].pc = "held"
  BY <1>1, <1>2, GoMoves DEF Stages
<1>5. FactStage(p)' /\ QueueStage(p)'
  BY <1>1, <1>4, UnnamedStays DEF Moving
<1>6. MoveStage(p)'
  BY <1>1, <1>3, <1>4 DEF MoveStage, Moving
<1> QED
  BY <1>1, <1>5, <1>6, ClaimsStand DEF Progress

\* From step 5 on no active row names the person or lies in their wiki.
LEMMA LateStages ==
    ASSUME IInv, NEW p \in People, job[p].pc \in FromHeld, job'[p].pc \in FromHeld, fact' = fact
    PROVE  FactStage(p)' /\ MoveStage(p)'
<1>1. FactStage(p) /\ MoveStage(p)
  BY Solo DEF FromHeld, FromHandOver, FromDisown, FromSpend
<1>2. \A c \in Claims : fact'[c].state = "active" =>
                          fact'[c].subject # p /\ fact'[c].sender # p /\ fact'[c].wiki # p
  BY <1>1 DEF FactStage, MoveStage, FromSenders, FromList
<1> QED
  BY <1>2 DEF FactStage, MoveStage, InFacts, Moving, FromHeld, FromHandOver, FromDisown, FromSpend

\* A queue row that is dropped, when its claim may be gone or has its fact.
LEMMA DropKeeps ==
    ASSUME NEW c \in Claims, Good(c), Clean(c), UNCHANGED <<fact, prose, enrolled, asked, said, forms>>,
           buffer'[c] = NoCapture(c),
           fact[c].state = "active" \/ Excused(c),
           fact[c].state = "active" \/ buffer[c].status = "held" \/ {About[c], By[c]} \subseteq asked
    PROVE  Good(c)' /\ Clean(c)'
<1>1. buffer'[c].status = "none" /\ Erased' = Erased
  BY ErasedSame DEF NoCapture
<1>2. Filed(c)'
  BY <1>1 DEF Good, Filed, From, NoCapture
<1>3. Saved(c)'
  BY <1>1 DEF Saved, Live, Excused
<1>4. Shelved(c)'
  BY <1>1 DEF Good, Shelved, Housed, Live
<1>5. Clean(c)'
  BY <1>1 DEF Clean
<1> QED
  BY <1>2, <1>3, <1>4, <1>5 DEF Good

LEMMA DropHeldKeeps ==
    ASSUME IInv, NEW p \in People, DropHeld(p)
    PROVE  (\A c \in Claims : Good(c)' /\ Clean(c)') /\ Progress(p)'
<1>1. /\ job[p].pc = "held" /\ Go(p, "own")
      /\ UNCHANGED <<fact, prose, wikis, enrolled, spent, round, faults, asked, said, forms>>
  BY DEF DropHeld
<1>2. TypeOK /\ p \in asked /\ p # Removed
  BY <1>1, Solo
<1>3. ASSUME NEW c \in Claims PROVE Good(c)' /\ Clean(c)'
  <2>0. Good(c) /\ Clean(c) /\ Erased' = Erased
    BY <1>1, ErasedSame DEF IInv
  <2>1. CASE buffer[c].status = "held" /\ p \in {buffer[c].subject, buffer[c].sender}
    <3>1. buffer'[c] = NoCapture(c)
      BY <2>1 DEF DropHeld
    <3>2. c \in Cards /\ p \in {About[c], By[c]}
      BY <1>2, <2>0, <2>1 DEF Good, Filed, From
    <3>3. Excused(c)
      BY <1>2, <3>2 DEF Excused
    <3> QED
      BY <1>1, <2>0, <2>1, <3>1, <3>3, DropKeeps
  <2>2. CASE ~(buffer[c].status = "held" /\ p \in {buffer[c].subject, buffer[c].sender})
    <3>1. buffer'[c] = buffer[c]
      BY <2>2 DEF DropHeld
    <3> QED
      BY <1>1, <2>0, <3>1, GoodSame, CleanSame
  <2> QED
    BY <2>1, <2>2
<1>4. job'[p].pc = "own"
  BY <1>1, <1>2, GoMoves DEF Stages
<1>5. FactStage(p)' /\ MoveStage(p)'
  BY <1>1, <1>4, LateStages DEF FromHeld
<1>6. QueueStage(p)'
  BY <1>4 DEF QueueStage, FromHandOver, FromDisown, FromSpend
<1> QED
  BY <1>3, <1>5, <1>6 DEF Progress

LEMMA DropOwnKeeps ==
    ASSUME IInv, NEW p \in People, DropOwn(p)
    PROVE  (\A c \in Claims : Good(c)' /\ Clean(c)') /\ Progress(p)'
<1>1. /\ job[p].pc = "own" /\ Go(p, "handover")
      /\ UNCHANGED <<fact, prose, wikis, enrolled, spent, round, faults, asked, said, forms>>
  BY DEF DropOwn
<1>2. TypeOK /\ p \in asked /\ p # Removed
  BY <1>1, Solo
<1>3. ASSUME NEW c \in Claims PROVE Good(c)' /\ Clean(c)'
  <2>0. Good(c) /\ Clean(c) /\ Erased' = Erased
    BY <1>1, ErasedSame DEF IInv
  <2>1. CASE buffer[c].subject = p /\ buffer[c].sender \in {p, Removed} /\ buffer[c].status # "none"
    <3>1. buffer'[c] = NoCapture(c)
      BY <2>1 DEF DropOwn
    <3>2. By[c] # Removed
      BY ErasureAssumption
    <3>3. {About[c], By[c]} \subseteq asked
      BY <1>2, <2>0, <2>1, <3>2 DEF Good, Filed, From
    <3>4. Excused(c)
      BY <3>3 DEF Excused
    <3> QED
      BY <1>1, <2>0, <3>1, <3>3, <3>4, DropKeeps
  <2>2. CASE ~(buffer[c].subject = p /\ buffer[c].sender \in {p, Removed}) \/ buffer[c].status = "none"
    <3>1. buffer'[c] = buffer[c]
      BY <2>0, <2>2 DEF DropOwn, Good, Filed
    <3> QED
      BY <1>1, <2>0, <3>1, GoodSame, CleanSame
  <2> QED
    BY <2>1, <2>2
<1>4. job'[p].pc = "handover"
  BY <1>1, <1>2, GoMoves DEF Stages
<1>5. FactStage(p)' /\ MoveStage(p)'
  BY <1>1, <1>4, LateStages DEF FromHeld, FromHandOver
<1>6. \A c \in Claims : buffer'[c].status # "none" => ~(buffer'[c].subject = p /\ buffer'[c].sender \in {p, Removed})
  BY DEF DropOwn, NoCapture
<1>7. QueueStage(p)'
  BY <1>4, <1>6 DEF QueueStage, FromDisown, FromSpend
<1> QED
  BY <1>3, <1>5, <1>7 DEF Progress

LEMMA HandOverKeeps ==
    ASSUME IInv, NEW p \in People, HandOver(p)
    PROVE  (\A c \in Claims : Good(c)' /\ Clean(c)') /\ Progress(p)'
<1>1. /\ job[p].pc = "handover" /\ Go(p, "disown")
      /\ UNCHANGED <<fact, prose, wikis, enrolled, spent, round, faults, asked, said, forms>>
  BY DEF HandOver
<1>2. TypeOK /\ p \in asked /\ p # Removed /\ FactStage(p) /\ QueueStage(p)
  BY <1>1, Solo
<1>3. ASSUME NEW c \in Claims
      PROVE  /\ buffer'[c].status = buffer[c].status /\ buffer'[c].sender = buffer[c].sender
             /\ buffer'[c].subject = IF buffer[c].status # "none" /\ buffer[c].subject = p
                                        /\ buffer[c].sender \notin {p, Removed}
                                     THEN buffer[c].sender ELSE buffer[c].subject
             /\ buffer[c].status = "none" => buffer'[c] = buffer[c]
  <2>1. buffer[c] \in Captures
    BY <1>2, RowFields
  <2> QED
    BY <2>1 DEF HandOver, Captures
<1>4. ASSUME NEW c \in Claims PROVE Good(c)' /\ Clean(c)'
  <2>0. Good(c) /\ Clean(c) /\ Erased' = Erased
    BY <1>1, ErasedSame DEF IInv
  <2>1. CASE buffer'[c].subject = buffer[c].subject
    <3>1. Filed(c)'
      BY <1>1, <1>3, <2>0, <2>1 DEF Good, Filed, From, NoCapture
    <3>2. Saved(c)' /\ Shelved(c)'
      BY <1>1, <1>3, <2>0, <2>1 DEF Good, Saved, Shelved, Housed, Live, Excused
    <3>3. Clean(c)'
      BY <1>1, <1>3, <2>0, <2>1 DEF Clean
    <3> QED
      BY <3>1, <3>2, <3>3 DEF Good
  <2>2. CASE /\ buffer[c].status # "none" /\ buffer[c].subject = p
             /\ buffer[c].sender \notin {p, Removed} /\ buffer'[c].subject = buffer[c].sender
    <3>1. buffer[c].sender = By[c] /\ About[c] \in asked
      BY <1>2, <2>0, <2>2 DEF Good, Filed, From
    <3>2. c \in Rules => fact[c].state # "active"
      BY <1>1, <1>2, <2>0, <2>2 DEF Good, Filed, FactStage, FromSenders, FromList, FromHeld, FromHandOver
    <3>3. Filed(c)'
      BY <1>1, <1>3, <2>0, <2>2, <3>1, <3>2 DEF Good, Filed, From
    <3>4. Saved(c)'
      BY <1>1, <1>3, <2>0 DEF Good, Saved, Live, Excused
    <3>5. Shelved(c)'
      BY <1>1, <1>2, <1>3, <2>0, <2>2, <3>2 DEF Good, Shelved, Housed, Live
    <3>6. Clean(c)'
      BY <1>1, <1>3, <2>0, <2>2 DEF Clean
    <3> QED
      BY <3>3, <3>4, <3>5, <3>6 DEF Good
  <2> QED
    BY <1>3, <2>1, <2>2
<1>5. job'[p].pc = "disown"
  BY <1>1, <1>2, GoMoves DEF Stages
<1>6. FactStage(p)' /\ MoveStage(p)'
  BY <1>1, <1>5, LateStages DEF FromHeld, FromHandOver, FromDisown
<1>7. \A c \in Claims : buffer'[c].status # "none" => buffer'[c].subject # p
  BY <1>1, <1>2, <1>3 DEF QueueStage, FromHandOver
<1>8. QueueStage(p)'
  BY <1>5, <1>7 DEF QueueStage, FromSpend
<1> QED
  BY <1>4, <1>6, <1>8 DEF Progress

LEMMA DisownKeeps ==
    ASSUME IInv, NEW p \in People, Disown(p)
    PROVE  (\A c \in Claims : Good(c)' /\ Clean(c)') /\ Progress(p)'
<1>1. /\ job[p].pc = "disown" /\ Go(p, "spend")
      /\ UNCHANGED <<fact, prose, wikis, enrolled, spent, round, faults, asked, said, forms>>
  BY DEF Disown
<1>2. TypeOK /\ p \in asked /\ p # Removed /\ QueueStage(p)
  BY <1>1, Solo
<1>3. ASSUME NEW c \in Claims
      PROVE  /\ buffer'[c].status = buffer[c].status /\ buffer'[c].subject = buffer[c].subject
             /\ buffer'[c].sender = IF buffer[c].status # "none" /\ buffer[c].sender = p
                                    THEN Removed ELSE buffer[c].sender
             /\ buffer[c].status = "none" => buffer'[c] = buffer[c]
  <2>1. buffer[c] \in Captures
    BY <1>2, RowFields
  <2> QED
    BY <2>1 DEF Disown, Captures
<1>4. ASSUME NEW c \in Claims PROVE Good(c)' /\ Clean(c)'
  <2>0. Good(c) /\ Clean(c) /\ Erased' = Erased
    BY <1>1, ErasedSame DEF IInv
  <2>1. Removed \notin Erased
    BY <1>2, ErasureAssumption DEF TypeOK, Erased
  <2>2. Filed(c)'
    BY <1>1, <1>2, <1>3, <2>0 DEF Good, Filed, From, NoCapture
  <2>3. Saved(c)' /\ Shelved(c)'
    BY <1>1, <1>3, <2>0 DEF Good, Saved, Shelved, Housed, Live, Excused
  <2>4. Clean(c)'
    BY <1>1, <1>3, <2>0, <2>1 DEF Clean
  <2> QED
    BY <2>2, <2>3, <2>4 DEF Good
<1>5. job'[p].pc = "spend"
  BY <1>1, <1>2, GoMoves DEF Stages
<1>6. FactStage(p)' /\ MoveStage(p)'
  BY <1>1, <1>5, LateStages DEF FromHeld, FromHandOver, FromDisown, FromSpend
<1>7. \A c \in Claims : buffer'[c].status # "none" => buffer'[c].subject # p /\ buffer'[c].sender # p
  BY <1>1, <1>2, <1>3 DEF QueueStage, FromDisown
<1>8. QueueStage(p)'
  BY <1>7 DEF QueueStage
<1> QED
  BY <1>4, <1>6, <1>8 DEF Progress

LEMMA record_forgotten_idKeeps ==
    ASSUME IInv, NEW p \in People, record_forgotten_id(p)
    PROVE  (\A c \in Claims : Good(c)' /\ Clean(c)') /\ Progress(p)'
<1>1. /\ job[p].pc = "spend" /\ Go(p, "remove")
      /\ UNCHANGED <<fact, buffer, prose, wikis, enrolled, round, faults, asked, said, forms>>
  BY DEF record_forgotten_id
<1>2. TypeOK /\ QueueStage(p)
  BY <1>1, Solo
<1>3. job'[p].pc = "remove"
  BY <1>1, <1>2, GoMoves DEF Stages
<1>4. FactStage(p)' /\ MoveStage(p)'
  BY <1>1, <1>3, LateStages DEF FromHeld, FromHandOver, FromDisown, FromSpend
<1>5. QueueStage(p)'
  BY <1>1, <1>2 DEF QueueStage, FromHandOver, FromDisown, FromSpend
<1> QED
  BY <1>1, <1>4, <1>5, ClaimsStand DEF Progress

LEMMA remove_userKeeps ==
    ASSUME IInv, NEW p \in People, remove_user(p)
    PROVE  (\A c \in Claims : Good(c)' /\ Clean(c)') /\ Progress(p)'
<1>1. /\ job[p].pc = "remove" /\ Go(p, "net") /\ enrolled' = enrolled \ {p}
      /\ UNCHANGED <<fact, buffer, prose, wikis, spent, round, faults, asked, said, forms>>
  BY DEF remove_user
<1>2. TypeOK /\ FactStage(p) /\ QueueStage(p)
  BY <1>1, Solo
<1>3. job'[p].pc = "net"
  BY <1>1, <1>2, GoMoves DEF Stages
<1>4. FactStage(p)' /\ MoveStage(p)'
  BY <1>1, <1>3, LateStages DEF FromHeld, FromHandOver, FromDisown, FromSpend
<1>5. QueueStage(p)'
  BY <1>1, <1>2 DEF QueueStage, FromHandOver, FromDisown, FromSpend
<1>6. ASSUME NEW c \in Claims PROVE Good(c)' /\ Clean(c)'
  <2>1. Good(c) /\ Clean(c)
    BY DEF IInv
  <2>2. Good(c)'
    BY <1>1, <2>1, GoodSame
  <2>3. Erased' \subseteq Erased \cup {p}
    BY <1>1 DEF Erased
  <2>4. /\ fact[c].state = "active" => p \notin {fact[c].subject, fact[c].sender}
        /\ buffer[c].status # "none" => p \notin {buffer[c].subject, buffer[c].sender}
    BY <1>1, <1>2 DEF FactStage, QueueStage, FromSenders, FromList, FromHeld, FromHandOver,
                      FromDisown, FromSpend
  <2>5. Clean(c)'
    BY <1>1, <2>1, <2>3, <2>4 DEF Clean
  <2> QED
    BY <2>2, <2>5
<1> QED
  BY <1>4, <1>5, <1>6 DEF Progress

\* The net of step 11 finds nothing: no active row is left in the wiki.
LEMMA mark_forgotten_in_wikiKeeps ==
    ASSUME IInv, NEW p \in People, mark_forgotten_in_wiki(p)
    PROVE  (\A c \in Claims : Good(c)' /\ Clean(c)') /\ Progress(p)'
<1>1. /\ job[p].pc = "net" /\ Go(p, "husk")
      /\ UNCHANGED <<buffer, prose, wikis, enrolled, spent, round, faults, asked, said, forms>>
  BY DEF mark_forgotten_in_wiki
<1>2. TypeOK /\ MoveStage(p) /\ QueueStage(p)
  BY <1>1, Solo
<1>3. fact' = fact
  <2>1. \A c \in Claims : fact[c].state = "active" => fact[c].wiki # p
    BY <1>1, <1>2 DEF MoveStage, FromHeld, FromHandOver, FromDisown, FromSpend
  <2>2. fact' = [c \in Claims |-> fact[c]]
    BY <2>1 DEF mark_forgotten_in_wiki
  <2> QED
    BY <1>2, <2>2 DEF TypeOK
<1>4. job'[p].pc = "husk"
  BY <1>1, <1>2, GoMoves DEF Stages
<1>5. FactStage(p)' /\ MoveStage(p)'
  BY <1>1, <1>3, <1>4, LateStages DEF FromHeld, FromHandOver, FromDisown, FromSpend
<1>6. QueueStage(p)'
  BY <1>1, <1>2 DEF QueueStage, FromHandOver, FromDisown, FromSpend
<1> QED
  BY <1>1, <1>3, <1>5, <1>6, ClaimsStand DEF Progress

LEMMA HuskEraseKeeps ==
    ASSUME IInv, NEW p \in People, HuskErase(p)
    PROVE  (\A c \in Claims : Good(c)' /\ Clean(c)') /\ Progress(p)'
<1>1. /\ job' = [job EXCEPT ![p] = IdleJob] /\ prose' = {r \in prose : r[2] # p}
      /\ UNCHANGED <<fact, buffer, enrolled, spent, round, faults, asked, said, forms>>
  BY DEF HuskErase
<1>2. job'[p].pc = "idle"
  BY <1>1 DEF IInv, TypeInv, TypeOK, IdleJob
<1>3. Progress(p)'
  BY <1>2 DEF Progress, FactStage, MoveStage, QueueStage, InFacts, FromSenders, FromList, Moving,
              FromHeld, FromHandOver, FromDisown, FromSpend
<1> QED
  BY <1>1, <1>3, ClaimsStand

---------------------------------------------------------------------------
(* The theorems.                                                           *)

LEMMA InitIInv == Init => IInv
<1> SUFFICES ASSUME Init PROVE IInv
  OBVIOUS
<1>1. TypeInv /\ IdsInv
  BY TypeInit DEF Init, IdsInv, IdleJob
<1>2. \A p \in People : job[p].pc = "idle"
  BY DEF Init, IdleJob
<1>3. Alone /\ RoundInv
  BY <1>2 DEF Init, Alone, RoundInv
<1>4. \A p \in People : Progress(p)
  BY <1>2 DEF Progress, FactStage, MoveStage, QueueStage, InFacts, FromSenders, FromList, Moving,
              FromHeld, FromHandOver, FromDisown, FromSpend
<1>5. ASSUME NEW c \in Claims PROVE Good(c) /\ Clean(c)
  <2>1. buffer[c] = NoCapture(c) /\ buffer[c].status = "none" /\ fact[c].state = "none"
    BY DEF Init, NoCapture, NoRow
  <2>2. Filed(c)
    BY <2>1 DEF Filed
  <2>3. Saved(c) /\ Shelved(c) /\ Clean(c)
    BY DEF Init, Saved, Shelved, Clean, Erased
  <2> QED
    BY <2>2, <2>3 DEF Good
<1> QED
  BY <1>1, <1>3, <1>4, <1>5 DEF IInv

LEMMA StepIsKept ==
    ASSUME IInv, NEW p \in People, Step(p), Next
    PROVE  IInv'
<1>1. (\A c \in Claims : Good(c)' /\ Clean(c)') /\ Progress(p)'
  BY retarget_subjectKeeps, mark_forgottenKeeps, RefileRowKeeps, RebufferUnplacedKeeps,
     strip_fact_regionKeeps, eraseKeeps, FactsDoneKeeps, replace_senderKeeps,
     find_active_in_wikiKeeps, RefileDestKeeps, RefileSourceKeeps, RebufferRefusedKeeps,
     RelocateDoneKeeps, DropHeldKeeps, DropOwnKeeps, HandOverKeeps, DisownKeeps,
     record_forgotten_idKeeps, remove_userKeeps, mark_forgotten_in_wikiKeeps, HuskEraseKeeps
  DEF Step
<1>2. round' = round
  BY DEF Step, retarget_subject, mark_forgotten, RefileRow, RebufferUnplaced, strip_fact_region,
         erase, FactsDone, replace_sender, find_active_in_wiki, RefileDest, RefileSource,
         RebufferRefused, RelocateDone, DropHeld, DropOwn, HandOver, Disown, record_forgotten_id,
         remove_user, mark_forgotten_in_wiki, HuskErase
<1> QED
  BY <1>1, <1>2, StepKeeps

LEMMA IInvStep == ASSUME Overlap = {} PROVE IInv /\ [Next]_vars => IInv'
<1> SUFFICES ASSUME IInv, [Next]_vars PROVE IInv'
  OBVIOUS
<1>1. CASE UNCHANGED vars
  <2>1. TypeInv' /\ IdsInv'
    BY <1>1, TypeStep, IdsStep DEF IInv
  <2>2. \A c \in Claims : Good(c)' /\ Clean(c)'
    BY <1>1, ClaimsStand DEF vars
  <2>3. \A p \in People : Progress(p)'
    BY <1>1 DEF vars, IInv, Progress, FactStage, MoveStage, QueueStage, Listed, Seen
  <2>4. Alone' /\ RoundInv'
    BY <1>1 DEF vars, IInv, Alone, RoundInv
  <2> QED
    BY <2>1, <2>2, <2>3, <2>4 DEF IInv
<1>2. CASE Next
  BY <1>2, SayKeeps, ReleaseKeeps, RoundReadKeeps, RoundPlaceKeeps, CompileKeeps, EnrolKeeps,
     CrashKeeps, StartKeeps, StepIsKept DEF Next
<1> QED
  BY <1>1, <1>2

LEMMA IInvHolds == ASSUME Overlap = {} PROVE Spec => []IInv
  BY InitIInv, IInvStep, PTL DEF Spec

\* What forget_user is for: once the enrollment row is gone, no live fact and
\* no row of the queue names the person, however often the erasure died.
THEOREM ErasedAreUnnamed == ASSUME Overlap = {} PROVE Spec => []NothingNamesTheErased
<1>1. IInv => NothingNamesTheErased
  BY DEF IInv, Clean, NothingNamesTheErased
<1> QED
  BY <1>1, IInvHolds, PTL

\* Erasing one person erases nothing of anybody else's: a claim is lost only
\* when everybody it is about or from asked, or it was a rule about or a card
\* value of somebody who did.
THEOREM OthersAreKept == ASSUME Overlap = {} PROVE Spec => []OthersKeepTheirs
<1>1. IInv => OthersKeepTheirs
  <2> SUFFICES ASSUME IInv, NEW c \in said PROVE Live(c) \/ Excused(c)
    BY DEF OthersKeepTheirs, Excused
  <2>1. c \in Claims
    BY DEF IInv, TypeInv, TypeOK
  <2> QED
    BY <2>1 DEF IInv, Good, Saved
<1> QED
  BY <1>1, IInvHolds, PTL

\* tombstone_fact takes the region off the page before the row: no destroyed
\* claim is left readable in the wiki of somebody who stays.
THEOREM ProseHasItsRow == ASSUME Overlap = {} PROVE Spec => []NoProseWithoutARow
<1>1. IInv => NoProseWithoutARow
  <2> SUFFICES ASSUME IInv, NEW r \in prose, r[2] \notin asked
               PROVE  Live(r[1]) \/ fact[r[1]].state = "retired"
    BY DEF NoProseWithoutARow
  <2>1. PICK c \in Claims, w \in People : r = <<c, w>>
    BY DEF IInv, TypeInv, TypeOK
  <2>2. Housed(c, w) /\ TypeOK
    BY <2>1 DEF IInv, Good, Shelved, TypeInv
  <2>3. fact[c].state \in {"none", "active", "retired"}
    BY <2>2, RowFields
  <2> QED
    BY <2>1, <2>2, <2>3 DEF Housed, Live
<1> QED
  BY <1>1, IInvHolds, PTL
============================================================================
