----------------------------- MODULE ForgetVote -----------------------------
(***************************************************************************)
(* The vote on forgetting a fact (votes.rs) and the two ways it is closed   *)
(* (proposals.rs).  Somebody the fact is about, who did not write it, opens *)
(* a request; its readers vote; a NO-majority expires the request, a full   *)
(* count or silence past the deadline forgets the fact.  cast_vote and the  *)
(* nightly sweep each read, count, tombstone and flip the request in        *)
(* separate statements on one database, with no transaction around them,    *)
(* and any of them may fail or die with the process in between.             *)
(***************************************************************************)
EXTENDS Acl

CONSTANTS Requests,    \* forget requests that may be opened on the fact
          Callers,     \* dashboard or agent calls that may be in flight at once
          Sweep,       \* the nightly auto-apply and expire sweeps
          Facts,       \* audiences the fact may have been filed with
          Roster,      \* the groups
          Admins,      \* the operators
          Hands,       \* who calls structure_proposal_apply on a request
          Prompt,      \* a call on a request ends before its deadline passes
          MaxFaults    \* bound on crashes and failed statements

Actors == Callers \cup {Sweep}

ASSUME ForgetVoteAssumption ==
    /\ IsFiniteSet(Users)
    /\ Sweep \notin Callers
    /\ Facts \subseteq Audiences
    /\ Roster \in Rosters
    /\ Admins \subseteq Users /\ Hands \subseteq Users
    /\ Prompt \in BOOLEAN
    /\ MaxFaults \in Nat
    /\ "live" \notin Requests /\ "direct" \notin Requests

VARIABLES row,       \* the fact's audience, as filed
          fact,      \* "live", or whose tombstone it carries
          status,    \* structure_proposals.status, "none" before the row
          asked,     \* context.requester and context.eligible_voters
          votes,     \* structure_proposal_votes, one vote per person
          age,       \* 0 before timeout_at, 1 past it, 2 past the grace
          jobs,      \* what each actor has in flight
          sweeping,  \* the sweep is between its listing and its expiry
          todo,      \* the candidates the sweep has listed
          hands,     \* history: requests whose effect a hand has applied
          faults

vars == <<row, fact, status, asked, votes, age, jobs, sweeping, todo, hands, faults>>

Stages == {"idle", "opening", "voting", "counting", "deciding",
           "rejecting", "applying", "hand", "tombstone", "flip"}

IdleJob == [stage |-> "idle"]

Jobs == {IdleJob} \cup
        [stage : Stages \ {"idle"}, req : Requests, who : Users, vote : {"yes", "no"}, no : Nat]

NobodyAsked == [by |-> Removed, electors |-> {}]

InFlight(a, q) == jobs[a].stage # "idle" /\ jobs[a].req = q

Rest(a) == jobs' = [jobs EXCEPT ![a] = IdleJob]

Goto(a, s) == jobs' = [jobs EXCEPT ![a].stage = s]

Job(s, q, u, x) == [stage |-> s, req |-> q, who |-> u, vote |-> x, no |-> 0]

Voted(q, x) == {u \in Users : votes[q][u] = x}

Init ==
    /\ row \in Facts
    /\ fact = "live"
    /\ status = [q \in Requests |-> "none"]
    /\ asked = [q \in Requests |-> NobodyAsked]
    /\ votes = [q \in Requests |-> [u \in Users |-> "none"]]
    /\ age = [q \in Requests |-> 0]
    /\ jobs = [a \in Actors |-> IdleJob]
    /\ sweeping = FALSE
    /\ todo = {}
    /\ hands = {}
    /\ faults = 0

---------------------------------------------------------------------------
(* Opening a request.                                                      *)

\* The subject, or a member of the group that is the subject; `global`
\* authorises nobody.
subject_authorizes(subject, u) == sender_is_subject(subject, u, GroupsOf(u, Roster))

\* open_forget_request up to its write: the refusals, on one read of the fact.
open_forget_request(a, q, u) ==
    /\ jobs[a].stage = "idle"
    /\ status[q] = "none"
    /\ \A b \in Callers : ~InFlight(b, q)
    /\ fact = "live"
    /\ row.sender # {u}
    /\ u \in Admins \/ subject_authorizes(row.subject, u)
    /\ jobs' = [jobs EXCEPT ![a] = Job("opening", q, u, "yes")]
    /\ UNCHANGED <<row, fact, status, asked, votes, age, sweeping, todo, hands, faults>>

eligible(u) == audience(row, Roster) \ {u}

\* The proposal is emitted pending; nothing looks for one already open, and
\* nothing asks again whether the fact is still there.
EmitRequest(a) ==
    LET q == jobs[a].req
        u == jobs[a].who
    IN  /\ jobs[a].stage = "opening"
        /\ eligible(u) # {}
        /\ status' = [status EXCEPT ![q] = "pending"]
        /\ asked' = [asked EXCEPT ![q] = [by |-> u, electors |-> eligible(u)]]
        /\ Rest(a)
        /\ UNCHANGED <<row, fact, votes, age, sweeping, todo, hands, faults>>

\* fact_index::mark_forgotten: a row that carries a tombstone keeps it.
mark_forgotten(reason) == fact' = IF fact = "live" THEN reason ELSE fact

\* Nobody else reads it, so there is nobody to ask.
ForgetAsSoleReader(a) ==
    /\ jobs[a].stage = "opening"
    /\ eligible(jobs[a].who) = {}
    /\ mark_forgotten("direct")
    /\ Rest(a)
    /\ UNCHANGED <<row, status, asked, votes, age, sweeping, todo, hands, faults>>

\* The author or an operator deletes the fact directly (acl::can_delete).
DeleteDirectly ==
    /\ \E u \in Users : can_delete(row, u, u \in Admins)
    /\ fact = "live"
    /\ mark_forgotten("direct")
    /\ UNCHANGED <<row, status, asked, votes, age, jobs, sweeping, todo, hands, faults>>

---------------------------------------------------------------------------
(* cast_vote.                                                              *)

\* The checks: on one read of the proposal and the clock, and on the vote the
\* caller may have cast already.
cast_vote(a, q, u, x) ==
    /\ jobs[a].stage = "idle"
    /\ status[q] = "pending"
    /\ age[q] = 0
    /\ u \in asked[q].electors
    /\ votes[q][u] = "none"
    /\ jobs' = [jobs EXCEPT ![a] = Job("voting", q, u, x)]
    /\ UNCHANGED <<row, fact, status, asked, votes, age, sweeping, todo, hands, faults>>

InsertVote_Overwrite(a) ==
    LET j == jobs[a]
    IN  /\ j.stage = "voting"
        /\ votes' = [votes EXCEPT ![j.req][j.who] = j.vote]
        /\ Goto(a, "counting")
        /\ UNCHANGED <<row, fact, status, asked, age, sweeping, todo, hands, faults>>

\* A vote that got in between is left alone by the key of the table.
InsertVote(a) ==
    LET j == jobs[a]
    IN  /\ j.stage = "voting"
        /\ IF votes[j.req][j.who] = "none"
           THEN /\ votes' = [votes EXCEPT ![j.req][j.who] = j.vote]
                /\ Goto(a, "counting")
           ELSE Rest(a) /\ UNCHANGED votes
        /\ UNCHANGED <<row, fact, status, asked, age, sweeping, todo, hands, faults>>

\* tally, first count.
CountNo(a) ==
    /\ jobs[a].stage = "counting"
    /\ jobs' = [jobs EXCEPT ![a].stage = "deciding",
                            ![a].no = Cardinality(Voted(jobs[a].req, "no"))]
    /\ UNCHANGED <<row, fact, status, asked, votes, age, sweeping, todo, hands, faults>>

\* tally, second count, and what the two say.
Verdict(no, yes, n) ==
    IF 2 * no > n THEN "rejecting" ELSE IF no + yes >= n THEN "applying" ELSE "idle"

Decide(a) ==
    LET q == jobs[a].req
        v == Verdict(jobs[a].no, Cardinality(Voted(q, "yes")), Cardinality(asked[q].electors))
    IN  /\ jobs[a].stage = "deciding"
        /\ IF v = "idle" THEN Rest(a) ELSE Goto(a, v)
        /\ UNCHANGED <<row, fact, status, asked, votes, age, sweeping, todo, hands, faults>>

---------------------------------------------------------------------------
(* Closing a request.                                                      *)

FlipIfPending_Rejected(q, s) ==
    status' = [status EXCEPT ![q] = IF @ = "pending"
                                    THEN IF s = "expired" THEN "rejected" ELSE s
                                    ELSE @]

\* Flip q out of pending if it is still there: the conditional UPDATE.
FlipIfPending(q, s) == status' = [status EXCEPT ![q] = IF @ = "pending" THEN s ELSE @]

expire_pending_proposal(a) ==
    /\ jobs[a].stage = "rejecting"
    /\ FlipIfPending(jobs[a].req, "expired")
    /\ Rest(a)
    /\ UNCHANGED <<row, fact, asked, votes, age, sweeping, todo, hands, faults>>

apply_fact_forget_now_FlipsFirst(a) ==
    /\ jobs[a].stage = "applying"
    /\ IF status[jobs[a].req] = "pending" THEN Goto(a, "tombstone") ELSE Rest(a)
    /\ FlipIfPending(jobs[a].req, "applied")
    /\ UNCHANGED <<row, fact, asked, votes, age, sweeping, todo, hands, faults>>

\* apply_fact_forget_now: only a pending request is applied.
apply_fact_forget_now(a) ==
    /\ jobs[a].stage = "applying"
    /\ IF status[jobs[a].req] = "pending" THEN Goto(a, "tombstone") ELSE Rest(a)
    /\ UNCHANGED <<row, fact, status, asked, votes, age, sweeping, todo, hands, faults>>

\* structure_proposal_apply: recipient_can_act admits the requester the row is
\* addressed to, or an operator with the lens on, whatever the votes say.
apply_proposal(a, q, u) ==
    /\ jobs[a].stage = "idle"
    /\ status[q] = "pending"
    /\ u \in Hands
    /\ u = asked[q].by \/ u \in Admins
    /\ jobs' = [jobs EXCEPT ![a] = Job("hand", q, u, "yes")]
    /\ UNCHANGED <<row, fact, status, asked, votes, age, sweeping, todo, hands, faults>>

\* Whose doing the effect is: a hand's, once it takes place.
ByHand(a) == hands' = IF jobs[a].stage = "hand" THEN hands \cup {jobs[a].req} ELSE hands

apply_fact_forget_RetriesAtOnce(a) ==
    /\ jobs[a].stage \in {"hand", "tombstone"}
    /\ ByHand(a)
    /\ mark_forgotten(jobs[a].req)
    /\ IF fact = "live"
       THEN Goto(a, "flip") /\ UNCHANGED todo
       ELSE Rest(a) /\ todo' = IF a = Sweep THEN todo \cup {jobs[a].req} ELSE todo
    /\ UNCHANGED <<row, status, asked, votes, age, sweeping, faults>>

\* dispatch_apply_kind: the effect comes first ...
apply_fact_forget(a) ==
    /\ jobs[a].stage \in {"hand", "tombstone"}
    /\ ByHand(a)
    /\ mark_forgotten(jobs[a].req)
    /\ Goto(a, "flip")
    /\ UNCHANGED <<row, status, asked, votes, age, sweeping, todo, faults>>

\* ... and the flip after it.
mark_applied(a) ==
    /\ jobs[a].stage = "flip"
    /\ FlipIfPending(jobs[a].req, "applied")
    /\ Rest(a)
    /\ UNCHANGED <<row, fact, asked, votes, age, sweeping, todo, hands, faults>>

---------------------------------------------------------------------------
(* The nightly sweeps, one after the other.                                *)

\* auto_apply_overdue_proposals: the candidates are listed once.
ListOverdue ==
    /\ ~sweeping
    /\ sweeping' = TRUE
    /\ todo' = {q \in Requests : status[q] = "pending" /\ age[q] > 0}
    /\ UNCHANGED <<row, fact, status, asked, votes, age, jobs, hands, faults>>

resolve_overdue_fact_forget_Always(q) ==
    /\ jobs[Sweep].stage = "idle"
    /\ q \in todo
    /\ todo' = todo \ {q}
    /\ jobs' = [jobs EXCEPT ![Sweep] = Job("applying", q, asked[q].by, "yes")]
    /\ UNCHANGED <<row, fact, status, asked, votes, age, sweeping, hands, faults>>

\* A recorded NO-majority expires the request, silence applies it.
resolve_overdue_fact_forget(q) ==
    /\ jobs[Sweep].stage = "idle"
    /\ q \in todo
    /\ todo' = todo \ {q}
    /\ jobs' = [jobs EXCEPT ![Sweep] =
           Job(IF 2 * Cardinality(Voted(q, "no")) > Cardinality(asked[q].electors)
               THEN "rejecting" ELSE "applying",
               q, asked[q].by, "yes")]
    /\ UNCHANGED <<row, fact, status, asked, votes, age, sweeping, hands, faults>>

\* expire_overdue_proposals: what is still pending past the grace is given up.
expire_overdue_proposals ==
    /\ sweeping
    /\ todo = {}
    /\ jobs[Sweep].stage = "idle"
    /\ sweeping' = FALSE
    /\ status' = [q \in Requests |->
                     IF status[q] = "pending" /\ age[q] = 2 THEN "expired" ELSE status[q]]
    /\ UNCHANGED <<row, fact, asked, votes, age, jobs, todo, hands, faults>>

---------------------------------------------------------------------------
(* Time, failures and restarts.                                            *)

\* VOTE_WINDOW elapses, then EXPIRE_GRACE_PERIOD.
Elapse(q) ==
    /\ status[q] # "none"
    /\ age[q] < 2
    /\ Prompt => \A a \in Callers : ~InFlight(a, q)
    /\ age' = [age EXCEPT ![q] = @ + 1]
    /\ UNCHANGED <<row, fact, status, asked, votes, jobs, sweeping, todo, hands, faults>>

\* A statement fails: the call ends there, the sweep notes it and goes on.
Fail(a) ==
    /\ faults < MaxFaults
    /\ jobs[a].stage # "idle"
    /\ faults' = faults + 1
    /\ Rest(a)
    /\ UNCHANGED <<row, fact, status, asked, votes, age, sweeping, todo, hands>>

\* The process dies; only the database is left.
Crash ==
    /\ faults < MaxFaults
    /\ faults' = faults + 1
    /\ jobs' = [a \in Actors |-> IdleJob]
    /\ sweeping' = FALSE
    /\ todo' = {}
    /\ UNCHANGED <<row, fact, status, asked, votes, age, hands>>

---------------------------------------------------------------------------
\* A job in flight takes its next statement.
Step(a) ==
    \/ EmitRequest(a) \/ ForgetAsSoleReader(a)
    \/ InsertVote(a) \/ CountNo(a) \/ Decide(a)
    \/ expire_pending_proposal(a)
    \/ apply_fact_forget_now(a) \/ apply_fact_forget(a) \/ mark_applied(a)

SweepStep ==
    \/ ListOverdue
    \/ \E q \in Requests : resolve_overdue_fact_forget(q)
    \/ Step(Sweep)
    \/ expire_overdue_proposals

Call(a) ==
    \E q \in Requests, u \in Users :
        \/ open_forget_request(a, q, u)
        \/ \E x \in {"yes", "no"} : cast_vote(a, q, u, x)
        \/ apply_proposal(a, q, u)

Next ==
    \/ \E a \in Callers : Call(a) \/ Step(a)
    \/ SweepStep
    \/ DeleteDirectly
    \/ \E q \in Requests : Elapse(q)
    \/ \E a \in Actors : Fail(a)
    \/ Crash

Spec == Init /\ [][Next]_vars

\* A call that was started runs on, time passes, and the night comes round.
Fairness ==
    /\ \A a \in Callers : WF_vars(Step(a))
    /\ \A q \in Requests : WF_vars(Elapse(q))
    /\ WF_vars(SweepStep)

FairSpec == Spec /\ Fairness

---------------------------------------------------------------------------
(* Properties.                                                             *)

\* Type correctness; a request never leaves the states of ProposalStatus.
TypeOK ==
    /\ row \in Facts
    /\ fact \in {"live", "direct"} \cup Requests
    /\ status \in [Requests -> {"none", "pending", "applied", "expired"}]
    /\ asked \in [Requests -> [by : Users \cup {Removed}, electors : SUBSET Users]]
    /\ votes \in [Requests -> [Users -> {"none", "yes", "no"}]]
    /\ age \in [Requests -> 0..2]
    /\ jobs \in [Actors -> Jobs]
    /\ sweeping \in BOOLEAN
    /\ todo \in SUBSET Requests
    /\ hands \in SUBSET Requests
    /\ faults \in 0..MaxFaults

NoMajority(q) == 2 * Cardinality(Voted(q, "no")) > Cardinality(asked[q].electors)

\* A fact is never forgotten by a request a NO-majority of its electorate is
\* on record against, unless a hand did it (structure_proposal_apply): neither
\* the two counts of cast_vote, taken apart while others vote, nor the sweep,
\* nor a retry after a crash reads a majority as consent.
NoMajorityNeverForgets == \A q \in Requests \ hands : fact = q => ~NoMajority(q)

\* A request that says it was applied has its fact gone, however many requests
\* and deletions were under way (the effect precedes the flip).
AppliedMeansForgotten == \A q \in Requests : status[q] = "applied" => fact # "live"

\* Every request is closed in the end, by its voters, by silence or by the
\* engine giving up.
Resolved == \A q \in Requests : status[q] = "pending" ~> status[q] # "pending"

\* What a reader of the request sees: how it stands as a ballot.
Standing(q) ==
    IF q \in hands THEN "overruled"
    ELSE IF fact = q \/ status[q] = "applied" THEN "forgotten"
    ELSE IF status[q] = "expired" THEN "kept"
    ELSE IF status[q] = "pending" THEN "open" ELSE "none"

Ballots == INSTANCE Ballot WITH
    Voters   <- Users,
    state    <- [q \in Requests |-> Standing(q)],
    electors <- [q \in Requests |-> asked[q].electors],
    ballots  <- votes,
    window   <- age

\* The requests are ballots in the sense of Ballot.tla: whatever the
\* interleaving of calls and sweeps, failures and restarts, each is decided
\* as that module allows.
RequestsAreBallots == Ballots!Spec
=============================================================================
