------------------------- MODULE ForgetVoteProofs -------------------------
(***************************************************************************)
(* For any number of requests, people, calls and faults: types hold, an     *)
(* applied request has its fact gone, and, as long as a call ends before    *)
(* the deadline of its request passes, a majority against is never read as  *)
(* consent and every request is a ballot in the sense of Ballot.            *)
(***************************************************************************)
EXTENDS ForgetVote, FiniteSetTheorems, TLAPS

---------------------------------------------------------------------------
(* The inductive invariant.                                                *)

Counted(q) == asked[q].electors \subseteq Voted(q, "no") \cup Voted(q, "yes")

\* Nothing that may still happen puts a majority against q on record.
Settled(q) == ~NoMajority(q) /\ (Counted(q) \/ age[q] > 0)

\* Before its row is there, nothing is known of a request.
Unasked ==
    \A q \in Requests : status[q] = "none" =>
        asked[q].electors = {} /\ age[q] = 0 /\ q \notin hands /\ fact # q

VotersAreElectors ==
    \A q \in Requests, u \in Users : votes[q][u] # "none" => u \in asked[q].electors

\* A request is opened by one call, and never by the sweep.
Openers ==
    \A a \in Actors : jobs[a].stage = "opening" =>
        /\ a # Sweep
        /\ \A b \in Actors : jobs[b].stage = "opening" /\ jobs[b].req = jobs[a].req => a = b

\* What a job in flight still knows to be true, however old its reads are.
Knows(a) ==
    LET j == jobs[a]
        q == j.req
    IN  /\ j.stage = "opening" <=> status[q] = "none"
        /\ j.stage = "voting" => j.who \in asked[q].electors
        /\ j.stage = "deciding" => j.no <= Cardinality(Voted(q, "no"))
        /\ j.stage = "rejecting" => NoMajority(q)
        /\ j.stage \in {"applying", "tombstone", "flip"} => q \in hands \/ Settled(q)
        /\ j.stage \in {"tombstone", "flip"} => q \in hands \/ status[q] # "expired"

\* Past the deadline only the sweep and the hand are at work.
Late(a) ==
    LET j == jobs[a]
    IN  /\ a = Sweep => age[j.req] > 0 /\ j.stage \in {"rejecting", "applying", "tombstone", "flip"}
        /\ a # Sweep /\ age[j.req] > 0 => j.stage = "hand" \/ (j.req \in hands /\ j.stage = "flip")

InFlightInv == \A a \in Actors : jobs[a].stage # "idle" => Knows(a) /\ Late(a)

ListedAreOverdue == \A q \in todo : age[q] > 0

ForgottenAreSettled == \A q \in Requests \ hands : fact = q => Settled(q)

\* The effect precedes the flip.
EffectFirst ==
    /\ AppliedMeansForgotten
    /\ \A a \in Actors : jobs[a].stage = "flip" => fact # "live"

\* Type correctness is not inductive: the sweep acts for whoever asked.
Requesters ==
    /\ \A q \in Requests : status[q] # "none" => asked[q].by \in Users
    /\ \A q \in todo : status[q] # "none"

TypeInv == TypeOK /\ Requesters

\* What the database holds.
Records == Unasked /\ VotersAreElectors /\ ListedAreOverdue /\ ForgottenAreSettled

IInv == TypeInv /\ Records /\ Openers /\ InFlightInv

---------------------------------------------------------------------------
(* Types.                                                                  *)

LEMMA JobTypes ==
    ASSUME NEW j \in Jobs, j.stage # "idle"
    PROVE  /\ j \in [stage : Stages \ {"idle"}, req : Requests, who : Users,
                     vote : {"yes", "no"}, no : Nat]
           /\ \A s \in Stages \ {"idle"} : [j EXCEPT !.stage = s] \in Jobs
           /\ \A s \in Stages \ {"idle"}, n \in Nat : [j EXCEPT !.stage = s, !.no = n] \in Jobs
<1>1. j \in [stage : Stages \ {"idle"}, req : Requests, who : Users, vote : {"yes", "no"}, no : Nat]
  BY DEF Jobs, IdleJob
<1>2. ASSUME NEW s \in Stages \ {"idle"} PROVE [j EXCEPT !.stage = s] \in Jobs
  BY <1>1 DEF Jobs
<1>3. ASSUME NEW s \in Stages \ {"idle"}, NEW n \in Nat
      PROVE  [j EXCEPT !.stage = s, !.no = n] \in Jobs
  BY <1>1 DEF Jobs
<1> QED
  BY <1>1, <1>2, <1>3

LEMMA JobFields ==
    ASSUME NEW j \in Jobs, j.stage # "idle"
    PROVE  j.stage \in Stages /\ j.req \in Requests /\ j.who \in Users /\ j.vote \in {"yes", "no"} /\ j.no \in Nat
  BY DEF Jobs, IdleJob

LEMMA NewJobTypes ==
    ASSUME NEW s \in Stages \ {"idle"}, NEW q \in Requests, NEW u \in Users, NEW x \in {"yes", "no"}
    PROVE  Job(s, q, u, x) \in Jobs
  BY DEF Job, Jobs

\* What taking the next statement, ending and starting do to the jobs.
LEMMA Goes ==
    ASSUME jobs \in [Actors -> Jobs], NEW a \in Actors, jobs[a].stage # "idle", NEW s, Goto(a, s)
    PROVE  /\ jobs'[a].stage = s /\ jobs'[a].req = jobs[a].req /\ jobs'[a].who = jobs[a].who
           /\ jobs'[a].no = jobs[a].no
           /\ \A b \in Actors \ {a} : jobs'[b] = jobs[b]
<1>1. jobs[a] \in [stage : Stages \ {"idle"}, req : Requests, who : Users, vote : {"yes", "no"}, no : Nat]
  BY JobTypes
<1>2. jobs'[a] = [jobs[a] EXCEPT !.stage = s] /\ \A b \in Actors \ {a} : jobs'[b] = jobs[b]
  BY DEF Goto
<1> QED
  BY <1>1, <1>2

LEMMA Rests ==
    ASSUME jobs \in [Actors -> Jobs], NEW a \in Actors, Rest(a)
    PROVE  jobs'[a].stage = "idle" /\ \A b \in Actors \ {a} : jobs'[b] = jobs[b]
  BY DEF Rest, IdleJob

LEMMA Starts ==
    ASSUME jobs \in [Actors -> Jobs], NEW a \in Actors, NEW s, NEW q, NEW u, NEW x,
           jobs' = [jobs EXCEPT ![a] = Job(s, q, u, x)]
    PROVE  /\ jobs'[a].stage = s /\ jobs'[a].req = q /\ jobs'[a].who = u
           /\ \A b \in Actors \ {a} : jobs'[b] = jobs[b]
  BY DEF Job

\* A request is put to enrolled people.
LEMMA EligibleAreUsers ==
    ASSUME TypeOK, NEW u
    PROVE  eligible(u) \subseteq Users
<1>1. row \in Audiences /\ Roster \in Rosters
  BY ForgetVoteAssumption DEF TypeOK
<1>2. \A p \in ({row.subject} \cup row.allow \cup row.sender) \ {Global, Removed} :
          p \in Principals \ {Removed}
  BY <1>1 DEF Audiences, Senders
<1>3. \A p \in Principals \ {Removed} : Expand(p, Roster) \subseteq Users
  BY <1>1 DEF Expand, Principals, Rosters
<1>4. \A v \in audience(row, Roster) :
          \E p \in ({row.subject} \cup row.allow \cup row.sender) \ {Global, Removed} :
              v \in Expand(p, Roster)
  BY Zenon DEF audience
<1> QED
  BY <1>2, <1>3, <1>4 DEF eligible

LEMMA VotesAreFinite ==
    ASSUME TypeOK, NEW q \in Requests
    PROVE  /\ \A x : IsFiniteSet(Voted(q, x)) /\ Cardinality(Voted(q, x)) \in Nat
           /\ IsFiniteSet(asked[q].electors) /\ Cardinality(asked[q].electors) \in Nat
<1>1. asked[q].electors \subseteq Users
  BY DEF TypeOK
<1>2. \A x : Voted(q, x) \subseteq Users
  BY DEF Voted
<1> QED
  BY <1>1, <1>2, ForgetVoteAssumption, FS_Subset, FS_CardinalityType

LEMMA TypesStart == Init => TypeInv
<1> SUFFICES ASSUME Init PROVE TypeInv
  OBVIOUS
<1>1. NobodyAsked \in [by : Users \cup {Removed}, electors : SUBSET Users]
  BY DEF NobodyAsked
<1>2. asked \in [Requests -> [by : Users \cup {Removed}, electors : SUBSET Users]]
  BY <1>1 DEF Init
<1>3. jobs \in [Actors -> Jobs]
  BY DEF Init, Jobs
<1>4. /\ row \in Facts /\ fact \in {"live", "direct"} \cup Requests
      /\ todo \in SUBSET Requests /\ hands \in SUBSET Requests
  BY DEF Init
<1>5. /\ status \in [Requests -> {"none", "pending", "applied", "expired"}]
      /\ votes \in [Requests -> [Users -> {"none", "yes", "no"}]]
      /\ age \in [Requests -> 0..2]
      /\ faults \in 0..MaxFaults
  BY ForgetVoteAssumption DEF Init
<1>6. sweeping \in BOOLEAN
  BY DEF Init
<1>7. Requesters
  BY DEF Init, Requesters
<1> QED
  BY <1>2, <1>3, <1>4, <1>5, <1>6, <1>7 DEF TypeOK, TypeInv

LEMMA TypesStep == TypeInv /\ [Next]_vars => TypeInv'
<1> SUFFICES ASSUME TypeInv, [Next]_vars PROVE TypeInv'
  OBVIOUS
<1> USE DEF TypeInv, Requesters
<1> USE DEF TypeOK
<1>1. IdleJob \in Jobs
  BY DEF Jobs
<1>2. \A a \in Actors : jobs[a] \in Jobs
  OBVIOUS
<1>3. \A a \in Actors : jobs[a].stage # "idle" =>
          jobs[a].req \in Requests /\ jobs[a].who \in Users /\ jobs[a].vote \in {"yes", "no"}
  BY <1>2, JobTypes
<1>4. ASSUME NEW a \in Callers, Call(a) PROVE TypeInv'
  <2> PICK q \in Requests, u \in Users :
          \/ open_forget_request(a, q, u)
          \/ \E x \in {"yes", "no"} : cast_vote(a, q, u, x)
          \/ apply_proposal(a, q, u)
    BY <1>4 DEF Call
  <2>1. CASE open_forget_request(a, q, u)
    BY <2>1, NewJobTypes DEF open_forget_request, Stages
  <2>2. ASSUME NEW x \in {"yes", "no"}, cast_vote(a, q, u, x) PROVE TypeInv'
    BY <2>2, NewJobTypes DEF cast_vote, Stages
  <2>3. CASE apply_proposal(a, q, u)
    BY <2>3, NewJobTypes DEF apply_proposal, Stages
  <2> QED
    BY <2>1, <2>2, <2>3
<1>5. ASSUME NEW a \in Actors, Step(a) PROVE TypeInv'
  <2> DEFINE q == jobs[a].req
  <2>1. CASE EmitRequest(a)
    <3>1. jobs[a].stage # "idle" /\ q \in Requests /\ jobs[a].who \in Users
      BY <1>3, <2>1 DEF EmitRequest
    <3>2. eligible(jobs[a].who) \subseteq Users
      BY EligibleAreUsers
    <3> QED
      BY <2>1, <3>1, <3>2, <1>1 DEF EmitRequest, Rest
  <2>2. CASE ForgetAsSoleReader(a)
    BY <2>2, <1>1 DEF ForgetAsSoleReader, Rest, mark_forgotten
  <2>3. CASE InsertVote(a)
    <3>1. jobs[a].stage = "voting"
      BY <2>3 DEF InsertVote
    <3>2. [jobs[a] EXCEPT !.stage = "counting"] \in Jobs
      BY <1>2, <3>1, JobTypes DEF Stages
    <3>3. votes' \in [Requests -> [Users -> {"none", "yes", "no"}]]
      <4>1. q \in Requests /\ jobs[a].who \in Users /\ jobs[a].vote \in {"none", "yes", "no"}
        BY <1>3, <3>1
      <4>2. \/ votes' = [votes EXCEPT ![q][jobs[a].who] = jobs[a].vote]
            \/ votes' = votes
        BY <2>3 DEF InsertVote
      <4>3. [votes[q] EXCEPT ![jobs[a].who] = jobs[a].vote] \in [Users -> {"none", "yes", "no"}]
        BY <4>1
      <4>4. CASE votes' = [votes EXCEPT ![q][jobs[a].who] = jobs[a].vote]
        BY <4>1, <4>3, <4>4
      <4> QED
        BY <4>2, <4>4
    <3>4. jobs' \in [Actors -> Jobs]
      BY <2>3, <3>2, <1>1 DEF InsertVote, Goto, Rest
    <3> QED
      BY <2>3, <3>3, <3>4 DEF InsertVote
  <2>4. CASE CountNo(a)
    <3>1. jobs[a].stage = "counting" /\ q \in Requests
      BY <2>4, <1>3 DEF CountNo
    <3>2. Cardinality(Voted(q, "no")) \in Nat
      BY <3>1, VotesAreFinite
    <3>3. [jobs[a] EXCEPT !.stage = "deciding", !.no = Cardinality(Voted(q, "no"))] \in Jobs
      BY <1>2, <3>1, <3>2, JobTypes DEF Stages
    <3> QED
      BY <2>4, <3>3 DEF CountNo
  <2>5. CASE Decide(a)
    <3>1. jobs[a].stage = "deciding"
      BY <2>5 DEF Decide
    <3>2. \A s \in {"rejecting", "applying"} : [jobs[a] EXCEPT !.stage = s] \in Jobs
      BY <1>2, <3>1, JobTypes DEF Stages
    <3> QED
      BY <2>5, <3>2, <1>1 DEF Decide, Rest, Goto, Verdict
  <2>6. CASE expire_pending_proposal(a)
    BY <2>6, <1>1 DEF expire_pending_proposal, FlipIfPending, Rest
  <2>7. CASE apply_fact_forget_now(a)
    <3>1. jobs[a].stage = "applying"
      BY <2>7 DEF apply_fact_forget_now
    <3>2. [jobs[a] EXCEPT !.stage = "tombstone"] \in Jobs
      BY <1>2, <3>1, JobTypes DEF Stages
    <3> QED
      BY <2>7, <3>2, <1>1 DEF apply_fact_forget_now, Rest, Goto
  <2>8. CASE apply_fact_forget(a)
    <3>1. jobs[a].stage \in {"hand", "tombstone"} /\ q \in Requests
      BY <2>8, <1>3 DEF apply_fact_forget
    <3>2. [jobs[a] EXCEPT !.stage = "flip"] \in Jobs
      BY <1>2, <3>1, JobTypes DEF Stages
    <3> QED
      BY <2>8, <3>1, <3>2 DEF apply_fact_forget, Goto, mark_forgotten, ByHand
  <2>9. CASE mark_applied(a)
    BY <2>9, <1>1 DEF mark_applied, FlipIfPending, Rest
  <2> QED
    BY <1>5, <2>1, <2>2, <2>3, <2>4, <2>5, <2>6, <2>7, <2>8, <2>9 DEF Step
<1>6. CASE ListOverdue
  BY <1>6 DEF ListOverdue
<1>7. ASSUME NEW q \in Requests, resolve_overdue_fact_forget(q) PROVE TypeInv'
  <2>1. asked[q].by \in Users
    BY <1>7 DEF resolve_overdue_fact_forget
  <2>2. \A s \in {"rejecting", "applying"} : Job(s, q, asked[q].by, "yes") \in Jobs
    BY <2>1, NewJobTypes DEF Stages
  <2> QED
    BY <1>7, <2>2 DEF resolve_overdue_fact_forget
<1>8. CASE expire_overdue_proposals
  BY <1>8 DEF expire_overdue_proposals
<1>9. CASE DeleteDirectly
  BY <1>9 DEF DeleteDirectly, mark_forgotten
<1>10. ASSUME NEW q \in Requests, Elapse(q) PROVE TypeInv'
  BY <1>10 DEF Elapse
<1>11. ASSUME NEW a \in Actors, Fail(a) PROVE TypeInv'
  BY <1>11, <1>1, ForgetVoteAssumption DEF Fail, Rest
<1>12. CASE Crash
  <2>1. jobs' \in [Actors -> Jobs] /\ sweeping' \in BOOLEAN /\ todo' = {}
    BY <1>12, <1>1 DEF Crash
  <2>2. faults' \in 0..MaxFaults
    BY <1>12, ForgetVoteAssumption DEF Crash
  <2> QED
    BY <1>12, <2>1, <2>2 DEF Crash
<1>13. CASE UNCHANGED vars
  BY <1>13 DEF vars
<1> QED
  BY <1>4, <1>5, <1>6, <1>7, <1>8, <1>9, <1>10, <1>11, <1>12, <1>13 DEF Next, SweepStep, Actors

\* Types are preserved by every step of the calls and the sweep.
THEOREM TypesHold == Spec => []TypeOK
<1> QED
  BY TypesStart, TypesStep, PTL DEF Spec, TypeInv

---------------------------------------------------------------------------
(* The effect precedes the flip.                                           *)

LEMMA TombstonesStay ==
    ASSUME [Next]_vars, fact # "live"
    PROVE  fact' # "live"
<1>1. \A a : Call(a) => fact' = fact
  BY DEF Call, open_forget_request, cast_vote, apply_proposal
<1>2. \A a : Step(a) => fact' # "live"
  BY DEF Step, EmitRequest, ForgetAsSoleReader, InsertVote, CountNo, Decide,
     expire_pending_proposal, apply_fact_forget_now, apply_fact_forget, mark_applied, mark_forgotten
<1>3. SweepStep => fact' # "live"
  BY <1>2 DEF SweepStep, ListOverdue, resolve_overdue_fact_forget, expire_overdue_proposals
<1>4. DeleteDirectly \/ (\E q \in Requests : Elapse(q)) \/ (\E a \in Actors : Fail(a)) \/ Crash
          \/ UNCHANGED vars => fact' # "live"
  BY DEF DeleteDirectly, Elapse, Fail, Crash, vars, mark_forgotten
<1> QED
  BY <1>1, <1>2, <1>3, <1>4 DEF Next

LEMMA EffectFirstStep == TypeInv /\ EffectFirst /\ [Next]_vars => EffectFirst'
<1> SUFFICES ASSUME TypeInv, EffectFirst, [Next]_vars PROVE EffectFirst'
  OBVIOUS
<1> USE DEF EffectFirst, AppliedMeansForgotten
<1>1. jobs \in [Actors -> Jobs] /\ status \in [Requests -> {"none", "pending", "applied", "expired"}]
  BY DEF TypeInv, TypeOK
<1>2. fact # "live" => fact' # "live"
  BY TombstonesStay
<1>3. IdleJob.stage = "idle" /\ \A s, q, u, x : Job(s, q, u, x).stage = s
  BY DEF IdleJob, Job
<1>4. ASSUME NEW a \in Callers, Call(a) PROVE EffectFirst'
  BY <1>1, <1>3, <1>4 DEF Call, open_forget_request, cast_vote, apply_proposal, Actors
<1>5. ASSUME NEW a \in Actors, Step(a) PROVE EffectFirst'
  <2>1. CASE EmitRequest(a)
    BY <1>1, <1>3, <2>1 DEF EmitRequest, Rest
  <2>2. CASE ForgetAsSoleReader(a)
    BY <1>1, <1>2, <1>3, <2>2 DEF ForgetAsSoleReader, Rest
  <2>3. CASE InsertVote(a)
    <3>1. jobs[a].stage # "idle" /\ (Goto(a, "counting") \/ Rest(a)) /\ UNCHANGED <<fact, status>>
      BY <2>3 DEF InsertVote
    <3> QED
      BY <1>1, <3>1, Goes, Rests
  <2>4. CASE CountNo(a)
    <3>1. jobs[a] \in [stage : Stages \ {"idle"}, req : Requests, who : Users, vote : {"yes", "no"}, no : Nat]
      BY <1>1, <2>4, JobTypes DEF CountNo
    <3>2. jobs'[a].stage = "deciding" /\ \A b \in Actors \ {a} : jobs'[b] = jobs[b]
      BY <1>1, <2>4, <3>1 DEF CountNo
    <3> QED
      BY <2>4, <3>2 DEF CountNo
  <2>5. CASE Decide(a)
    <3>1. /\ jobs[a].stage # "idle" /\ UNCHANGED <<fact, status>>
          /\ Goto(a, "rejecting") \/ Goto(a, "applying") \/ Rest(a)
      BY <2>5 DEF Decide, Verdict
    <3> QED
      BY <1>1, <3>1, Goes, Rests
  <2>6. CASE expire_pending_proposal(a)
    BY <1>1, <1>3, <2>6 DEF expire_pending_proposal, FlipIfPending, Rest
  <2>7. CASE apply_fact_forget_now(a)
    <3>1. jobs[a].stage # "idle" /\ (Goto(a, "tombstone") \/ Rest(a)) /\ UNCHANGED <<fact, status>>
      BY <2>7 DEF apply_fact_forget_now
    <3> QED
      BY <1>1, <3>1, Goes, Rests
  <2>8. CASE apply_fact_forget(a)
    <3>1. fact' # "live"
      <4>1. jobs[a].req \in Requests
        BY <1>1, <2>8, JobFields DEF apply_fact_forget
      <4> QED
        BY <4>1, <2>8, ForgetVoteAssumption DEF apply_fact_forget, mark_forgotten
    <3> QED
      BY <3>1
  <2>9. CASE mark_applied(a)
    BY <1>1, <1>3, <2>9 DEF mark_applied, FlipIfPending, Rest
  <2> QED
    BY <1>5, <2>1, <2>2, <2>3, <2>4, <2>5, <2>6, <2>7, <2>8, <2>9 DEF Step
<1>6. ASSUME NEW q \in Requests, resolve_overdue_fact_forget(q) PROVE EffectFirst'
  BY <1>1, <1>3, <1>6 DEF resolve_overdue_fact_forget
<1>7. CASE ListOverdue \/ expire_overdue_proposals
  BY <1>1, <1>7 DEF ListOverdue, expire_overdue_proposals
<1>8. CASE DeleteDirectly \/ UNCHANGED vars
  BY <1>1, <1>2, <1>8 DEF DeleteDirectly, vars
<1>9. CASE (\E q \in Requests : Elapse(q)) \/ (\E a \in Actors : Fail(a)) \/ Crash
  BY <1>1, <1>3, <1>9 DEF Elapse, Fail, Crash, Rest
<1> QED
  BY <1>4, <1>5, <1>6, <1>7, <1>8, <1>9 DEF Next, SweepStep, Actors

\* A request that says it was applied has its fact gone, whatever calls,
\* sweeps, failures and crashes came in between, and however late a call is:
\* every way to `applied` passes a tombstone first.
THEOREM AppliedIsForgotten == Spec => []AppliedMeansForgotten
<1>1. Init => EffectFirst
  BY DEF Init, EffectFirst, AppliedMeansForgotten, IdleJob
<1> QED
  BY <1>1, TypesStart, TypesStep, EffectFirstStep, PTL DEF Spec, EffectFirst

---------------------------------------------------------------------------
(* What a job knows stays true.                                            *)

\* A step leaves the request r as it was.
SameRequest(r) ==
    status'[r] = status[r] /\ asked'[r] = asked[r] /\ votes'[r] = votes[r] /\ age'[r] = age[r]

LEMMA SameCount ==
    ASSUME NEW r, SameRequest(r)
    PROVE  /\ \A x : Voted(r, x)' = Voted(r, x)
           /\ NoMajority(r)' <=> NoMajority(r)
           /\ Counted(r)' <=> Counted(r)
           /\ Settled(r)' <=> Settled(r)
<1>1. \A x : Voted(r, x)' = Voted(r, x)
  BY DEF SameRequest, Voted
<1>2. NoMajority(r)' <=> NoMajority(r)
  BY <1>1 DEF SameRequest, NoMajority
<1>3. Counted(r)' <=> Counted(r)
  BY <1>1 DEF SameRequest, Counted
<1> QED
  BY <1>1, <1>2, <1>3 DEF SameRequest, Settled

LEMMA OthersKnow ==
    ASSUME NEW b, Knows(b), Late(b), jobs'[b] = jobs[b], SameRequest(jobs[b].req), hands \subseteq hands'
    PROVE  (Knows(b) /\ Late(b))'
<1> DEFINE r == jobs[b].req
<1>1. /\ Voted(r, "no")' = Voted(r, "no")
      /\ NoMajority(r)' <=> NoMajority(r)
      /\ Settled(r)' <=> Settled(r)
  BY SameCount
<1>2. Knows(b)'
  BY <1>1 DEF Knows, SameRequest
<1>3. Late(b)'
  BY DEF Late, SameRequest
<1> QED
  BY <1>2, <1>3

\* A step of one actor: the others are told nothing, or nothing they mind.
LEMMA InFlightFrame ==
    ASSUME InFlightInv, NEW a \in Actors, hands \subseteq hands',
           \A b \in Actors \ {a} : jobs'[b] = jobs[b],
           \A b \in Actors \ {a} : jobs[b].stage # "idle" =>
               SameRequest(jobs[b].req) \/ (Knows(b) /\ Late(b))',
           jobs'[a].stage # "idle" => (Knows(a) /\ Late(a))'
    PROVE  InFlightInv'
<1> SUFFICES ASSUME NEW b \in Actors, jobs'[b].stage # "idle" PROVE (Knows(b) /\ Late(b))'
  BY DEF InFlightInv
<1>1. CASE b = a
  BY <1>1
<1>2. CASE b # a /\ SameRequest(jobs[b].req)
  BY <1>2, OthersKnow DEF InFlightInv
<1> QED
  BY <1>1, <1>2

LEMMA OpenersFrame ==
    ASSUME Openers, NEW a \in Actors, \A b \in Actors \ {a} : jobs'[b] = jobs[b],
           jobs'[a].stage # "opening"
    PROVE  Openers'
  BY DEF Openers

\* The records are as good as they were when only jobs and hands moved.
LEMMA RecordsFrame ==
    ASSUME TypeInv, Records, UNCHANGED <<fact, status, asked, votes, age, hands>>, todo' \subseteq todo
    PROVE  Records'
<1>1. \A q : SameRequest(q)
  BY DEF SameRequest
<1>2. \A q : Settled(q)' <=> Settled(q)
  BY <1>1, SameCount
<1>3. ForgottenAreSettled'
  BY <1>2 DEF Records, ForgottenAreSettled
<1> QED
  BY <1>3 DEF Records, Unasked, VotersAreElectors, ListedAreOverdue

---------------------------------------------------------------------------
(* The invariant, operation by operation.                                  *)

Held == Records /\ Openers /\ InFlightInv

LEMMA CallsHold ==
    ASSUME IInv, NEW a \in Callers, Call(a)
    PROVE  Held'
<1>0. a \in Actors /\ a # Sweep
  BY ForgetVoteAssumption DEF Actors
<1> USE DEF IInv
<1>1. jobs \in [Actors -> Jobs]
  BY DEF TypeInv, TypeOK
<1> PICK q \in Requests, u \in Users :
        \/ open_forget_request(a, q, u)
        \/ \E x \in {"yes", "no"} : cast_vote(a, q, u, x)
        \/ apply_proposal(a, q, u)
  BY DEF Call
<1>2. CASE open_forget_request(a, q, u)
  <2>1. /\ jobs'[a].stage = "opening" /\ jobs'[a].req = q
        /\ \A b \in Actors \ {a} : jobs'[b] = jobs[b]
    BY <1>0, <1>1, <1>2, Starts DEF open_forget_request
  <2>2. UNCHANGED <<fact, status, asked, votes, age, hands, todo>> /\ status[q] = "none"
    BY <1>2 DEF open_forget_request
  <2>3. age[q] = 0
    BY <2>2 DEF Records, Unasked
  <2>4. Knows(a)' /\ Late(a)'
    BY <1>0, <2>1, <2>2, <2>3 DEF Knows, Late
  <2>5. InFlightInv'
    BY <1>0, <2>1, <2>2, <2>4, InFlightFrame DEF SameRequest
  <2>6. \A b \in Actors \ {a} : jobs[b].stage = "opening" => jobs[b].req # q /\ b # Sweep
    BY <1>2 DEF open_forget_request, InFlight, Actors, Openers
  <2>7. Openers'
    BY <1>0, <2>1, <2>6 DEF Openers
  <2> QED
    BY <2>2, <2>5, <2>7, RecordsFrame DEF Held
<1>3. ASSUME NEW x \in {"yes", "no"}, cast_vote(a, q, u, x) PROVE Held'
  <2>1. /\ jobs'[a].stage = "voting" /\ jobs'[a].req = q /\ jobs'[a].who = u
        /\ \A b \in Actors \ {a} : jobs'[b] = jobs[b]
    BY <1>0, <1>1, <1>3, Starts DEF cast_vote
  <2>2. /\ UNCHANGED <<fact, status, asked, votes, age, hands, todo>>
        /\ status[q] = "pending" /\ age[q] = 0 /\ u \in asked[q].electors
    BY <1>3 DEF cast_vote
  <2>3. Knows(a)' /\ Late(a)'
    BY <1>0, <2>1, <2>2 DEF Knows, Late
  <2>4. InFlightInv'
    BY <1>0, <2>1, <2>2, <2>3, InFlightFrame DEF SameRequest
  <2> QED
    BY <1>0, <2>1, <2>2, <2>4, RecordsFrame, OpenersFrame DEF Held
<1>4. CASE apply_proposal(a, q, u)
  <2>1. /\ jobs'[a].stage = "hand" /\ jobs'[a].req = q
        /\ \A b \in Actors \ {a} : jobs'[b] = jobs[b]
    BY <1>0, <1>1, <1>4, Starts DEF apply_proposal
  <2>2. UNCHANGED <<fact, status, asked, votes, age, hands, todo>> /\ status[q] = "pending"
    BY <1>4 DEF apply_proposal
  <2>3. Knows(a)' /\ Late(a)'
    BY <1>0, <2>1, <2>2 DEF Knows, Late
  <2>4. InFlightInv'
    BY <1>0, <2>1, <2>2, <2>3, InFlightFrame DEF SameRequest
  <2> QED
    BY <1>0, <2>1, <2>2, <2>4, RecordsFrame, OpenersFrame DEF Held
<1> QED
  BY <1>2, <1>3, <1>4

\* Only the caller that opens a request knows of it.
LEMMA EmitHolds ==
    ASSUME IInv, NEW a \in Actors, EmitRequest(a)
    PROVE  Held'
<1> USE DEF IInv
<1> DEFINE q == jobs[a].req
<1>1. jobs \in [Actors -> Jobs] /\ jobs[a].stage = "opening" /\ q \in Requests
  BY JobFields DEF TypeInv, TypeOK, EmitRequest
<1>2. status[q] = "none" /\ asked[q].electors = {} /\ fact # q
  BY <1>1 DEF InFlightInv, Knows, Records, Unasked
<1>3. jobs'[a].stage = "idle" /\ \A b \in Actors \ {a} : jobs'[b] = jobs[b]
  BY <1>1, Rests DEF EmitRequest
<1>4. /\ UNCHANGED <<fact, votes, age, hands, todo>>
      /\ status' = [status EXCEPT ![q] = "pending"]
      /\ \E e : asked' = [asked EXCEPT ![q] = e]
  BY DEF EmitRequest
<1>5. \A r \in Requests \ {q} : SameRequest(r)
  BY <1>1, <1>4 DEF SameRequest, TypeInv, TypeOK
<1>6. \A b \in Actors \ {a} : jobs[b].stage # "idle" => jobs[b].req \in Requests \ {q}
  BY <1>1, <1>2, JobFields DEF InFlightInv, Knows, Openers
<1>7. InFlightInv'
  BY <1>3, <1>4, <1>5, <1>6, InFlightFrame
<1>8. \A r \in Requests \ {q} : Settled(r)' <=> Settled(r)
  BY <1>5, SameCount
<1>9. VotersAreElectors'
  BY <1>2, <1>4, <1>5 DEF Records, VotersAreElectors, SameRequest
<1>10. Unasked' /\ ListedAreOverdue'
  BY <1>1, <1>4, <1>5 DEF Records, Unasked, ListedAreOverdue, SameRequest, TypeInv, TypeOK
<1>11. ForgottenAreSettled'
  BY <1>2, <1>4, <1>8 DEF Records, ForgottenAreSettled
<1> QED
  BY <1>3, <1>7, <1>9, <1>10, <1>11, OpenersFrame DEF Held, Records

\* A fact that loses its last reader, or is deleted, is nobody's request.
LEMMA DirectHolds ==
    ASSUME IInv, mark_forgotten("direct"), UNCHANGED <<status, asked, votes, age, todo, hands>>
    PROVE  Records'
<1> USE DEF IInv
<1>1. \A q : Settled(q)' <=> Settled(q)
  BY SameCount DEF SameRequest
<1>2. \A q \in Requests : fact' = q => fact = q
  BY ForgetVoteAssumption DEF mark_forgotten
<1> QED
  BY <1>1, <1>2 DEF Records, Unasked, VotersAreElectors, ListedAreOverdue, ForgottenAreSettled

\* A vote falls in while its request is open to votes, so nothing was settled.
LEMMA VoteHolds ==
    ASSUME IInv, NEW a \in Actors, InsertVote(a)
    PROVE  Held'
<1> USE DEF IInv
<1>0. TypeOK
  BY DEF TypeInv
<1>a. /\ jobs \in [Actors -> Jobs] /\ jobs[a].stage = "voting"
      /\ jobs[a].req \in Requests /\ jobs[a].who \in Users /\ jobs[a].vote \in {"yes", "no"}
  BY JobFields DEF TypeInv, TypeOK, InsertVote
<1> PICK q \in Requests, who \in Users : q = jobs[a].req /\ who = jobs[a].who
  BY <1>a
<1>1. /\ jobs \in [Actors -> Jobs] /\ jobs[a].stage = "voting"
      /\ jobs[a].req = q /\ jobs[a].who = who /\ jobs[a].vote \in {"yes", "no"}
  BY <1>a
<1>2. Knows(a) /\ Late(a)
  BY <1>1 DEF InFlightInv
<1>3. a # Sweep /\ age[q] = 0 /\ who \in asked[q].electors /\ status[q] # "none"
  <2>1. age[q] \in 0..2
    BY <1>0 DEF TypeOK
  <2> QED
    BY <1>1, <1>2, <2>1 DEF Knows, Late
<1>4. UNCHANGED <<fact, status, asked, age, hands, todo>>
  BY DEF InsertVote
<1>5. CASE votes[q][who] # "none"
  <2>1. Rest(a) /\ UNCHANGED votes
    BY <1>1, <1>5 DEF InsertVote
  <2>2. jobs'[a].stage = "idle" /\ \A b \in Actors \ {a} : jobs'[b] = jobs[b]
    BY <1>1, <2>1, Rests
  <2>3. InFlightInv'
    BY <1>4, <2>1, <2>2, InFlightFrame DEF SameRequest
  <2> QED
    BY <1>4, <2>1, <2>2, <2>3, RecordsFrame, OpenersFrame DEF Held
<1>6. CASE votes[q][who] = "none"
  <2>1. Goto(a, "counting") /\ votes' = [votes EXCEPT ![q][who] = jobs[a].vote]
    BY <1>1, <1>6 DEF InsertVote
  <2>2. /\ jobs'[a].stage = "counting" /\ jobs'[a].req = q
        /\ \A b \in Actors \ {a} : jobs'[b] = jobs[b]
    BY <1>1, <2>1, Goes
  <2>3. ~Settled(q)
    BY <1>3, <1>6 DEF Settled, Counted, Voted
  <2>4. /\ votes[q] \in [Users -> {"none", "yes", "no"}] /\ q \in DOMAIN votes
        /\ votes'[q] = [votes[q] EXCEPT ![who] = jobs[a].vote]
    BY <1>0, <1>1, <2>1 DEF TypeOK
  <2>5. Voted(q, "no") \subseteq Voted(q, "no")'
    BY <1>1, <1>6, <2>4 DEF Voted
  <2>6. Voted(q, "no")' \subseteq Users /\ IsFiniteSet(Voted(q, "no")')
    BY ForgetVoteAssumption, FS_Subset DEF Voted
  <2>7. Cardinality(Voted(q, "no")) <= Cardinality(Voted(q, "no")')
    BY <2>5, <2>6, FS_Subset
  <2>8. /\ Cardinality(Voted(q, "no")) \in Nat /\ Cardinality(asked[q].electors) \in Nat
        /\ Cardinality(Voted(q, "no")') \in Nat
    BY <1>0, <1>1, <2>6, VotesAreFinite, FS_CardinalityType
  <2>9. NoMajority(q) => NoMajority(q)'
    BY <1>4, <2>7, <2>8 DEF NoMajority
  <2>10. \A r \in Requests \ {q} : SameRequest(r)
    BY <1>0, <1>1, <1>4, <2>1 DEF SameRequest, TypeOK
  <2>11. ASSUME NEW b \in Actors \ {a}, jobs[b].stage # "idle", jobs[b].req = q
         PROVE  (Knows(b) /\ Late(b))'
    <3>1. Knows(b) /\ Late(b) /\ jobs'[b] = jobs[b] /\ jobs[b].no \in Nat
      BY <1>1, <2>2, <2>11, JobFields DEF InFlightInv
    <3>2. jobs[b].stage = "deciding" => jobs[b].no <= Cardinality(Voted(q, "no")')
      BY <2>7, <2>8, <2>11, <3>1 DEF Knows
    <3>3. Knows(b)'
      BY <1>4, <2>3, <2>9, <2>11, <3>1, <3>2 DEF Knows
    <3>4. Late(b)'
      BY <1>4, <3>1 DEF Late
    <3> QED
      BY <3>3, <3>4
  <2>12. (Knows(a) /\ Late(a))'
    BY <1>3, <1>4, <2>2 DEF Knows, Late
  <2>13. \A b \in Actors \ {a} : jobs[b].stage # "idle" =>
             SameRequest(jobs[b].req) \/ (Knows(b) /\ Late(b))'
    BY <1>1, <2>10, <2>11, JobFields
  <2>14. InFlightInv'
    BY <1>4, <2>2, <2>12, <2>13, InFlightFrame
  <2>15. VotersAreElectors'
    BY <1>0, <1>1, <1>3, <1>4, <2>4, <2>10 DEF Records, VotersAreElectors, SameRequest
  <2>16. \A r \in Requests \ {q} : Settled(r)' <=> Settled(r)
    BY <2>10, SameCount
  <2>17. ForgottenAreSettled'
    BY <1>4, <2>3, <2>16 DEF Records, ForgottenAreSettled
  <2> QED
    BY <1>4, <2>2, <2>14, <2>15, <2>17, OpenersFrame
    DEF Held, Records, Unasked, ListedAreOverdue
<1> QED
  BY <1>5, <1>6

\* The first count can only be behind.
LEMMA CountHolds ==
    ASSUME IInv, NEW a \in Actors, CountNo(a)
    PROVE  Held'
<1> USE DEF IInv
<1>a. jobs \in [Actors -> Jobs] /\ jobs[a].stage = "counting" /\ jobs[a].req \in Requests
  BY JobFields DEF TypeInv, TypeOK, CountNo
<1> PICK q \in Requests : q = jobs[a].req
  BY <1>a
<1> PICK n : n = Cardinality(Voted(q, "no"))
  OBVIOUS
<1>1. jobs \in [Actors -> Jobs] /\ jobs[a].stage = "counting" /\ jobs[a].req = q
  BY <1>a
<1>2. jobs[a] \in [stage : Stages \ {"idle"}, req : Requests, who : Users, vote : {"yes", "no"}, no : Nat]
  BY <1>1, JobTypes
<1>3. jobs'[a] = [jobs[a] EXCEPT !.stage = "deciding", !.no = n] /\ \A b \in Actors \ {a} : jobs'[b] = jobs[b]
  BY <1>1 DEF CountNo
<1>4. jobs'[a].stage = "deciding" /\ jobs'[a].req = q /\ jobs'[a].no = n
  BY <1>2, <1>3
<1>5. UNCHANGED <<fact, status, asked, votes, age, hands, todo>>
  BY DEF CountNo
<1>6. Voted(q, "no")' = Voted(q, "no") /\ n \in Nat
  BY <1>1, <1>5, VotesAreFinite DEF Voted, TypeInv
<1>7. Knows(a) /\ Late(a)
  BY <1>1 DEF InFlightInv
<1>8. (Knows(a) /\ Late(a))'
  BY <1>1, <1>4, <1>5, <1>6, <1>7 DEF Knows, Late
<1>9. InFlightInv'
  BY <1>3, <1>5, <1>8, InFlightFrame DEF SameRequest
<1> QED
  BY <1>3, <1>4, <1>5, <1>9, RecordsFrame, OpenersFrame DEF Held

\* Counted in two parts, the votes are never more than the electors ...
LEMMA TallyBounds ==
    ASSUME TypeOK, VotersAreElectors, NEW q \in Requests
    PROVE  LET no == Cardinality(Voted(q, "no"))
               yes == Cardinality(Voted(q, "yes"))
               n == Cardinality(asked[q].electors)
           IN  /\ no \in Nat /\ yes \in Nat /\ n \in Nat
               /\ no + yes <= n
               /\ no + yes = n => Counted(q)
<1> DEFINE N == Voted(q, "no")
           Y == Voted(q, "yes")
           E == asked[q].electors
<1>1. IsFiniteSet(N) /\ IsFiniteSet(Y) /\ IsFiniteSet(E)
  BY VotesAreFinite
<1>2. Cardinality(N) \in Nat /\ Cardinality(Y) \in Nat /\ Cardinality(E) \in Nat
  BY VotesAreFinite
<1>3. N \cap Y = {} /\ N \cup Y \subseteq E
  BY DEF Voted, VotersAreElectors
<1>4. Cardinality(N \cup Y) = Cardinality(N) + Cardinality(Y)
  <2>1. Cardinality(N \cap Y) = 0
    BY <1>3, FS_EmptySet
  <2>2. Cardinality(N \cup Y) = Cardinality(N) + Cardinality(Y) - Cardinality(N \cap Y)
    BY <1>1, FS_Union
  <2> HIDE DEF N, Y
  <2> QED
    BY <1>2, <2>1, <2>2
<1>5. /\ Cardinality(N \cup Y) <= Cardinality(E)
      /\ Cardinality(N \cup Y) = Cardinality(E) => N \cup Y = E
  BY <1>1, <1>3, FS_Subset
<1> QED
  BY <1>2, <1>4, <1>5 DEF Counted

\* ... so a first count that is behind can leave the tally short, never wrong.
LEMMA DecideHolds ==
    ASSUME IInv, NEW a \in Actors, Decide(a)
    PROVE  Held'
<1> USE DEF IInv
<1>0. TypeOK /\ VotersAreElectors
  BY DEF TypeInv, Records
<1>a. /\ jobs \in [Actors -> Jobs] /\ jobs[a].stage = "deciding"
      /\ jobs[a].req \in Requests /\ jobs[a].no \in Nat
  BY <1>0, JobFields DEF TypeOK, Decide
<1> PICK q \in Requests, no \in Nat : q = jobs[a].req /\ no = jobs[a].no
  BY <1>a
<1>1. /\ jobs \in [Actors -> Jobs] /\ jobs[a].stage = "deciding"
      /\ jobs[a].req = q /\ jobs[a].no = no
  BY <1>a
<1>2. UNCHANGED <<fact, status, asked, votes, age, hands, todo>>
  BY DEF Decide
<1>3. Knows(a) /\ Late(a)
  BY <1>1 DEF InFlightInv
<1>4. no <= Cardinality(Voted(q, "no")) /\ status[q] # "none"
  BY <1>1, <1>3 DEF Knows
<1>5. a # Sweep /\ ~(age[q] > 0)
  BY <1>1, <1>3 DEF Late
<1>6. CASE Rest(a)
  <2>1. jobs'[a].stage = "idle" /\ \A b \in Actors \ {a} : jobs'[b] = jobs[b]
    BY <1>1, <1>6, Rests
  <2>2. InFlightInv'
    BY <1>2, <2>1, InFlightFrame DEF SameRequest
  <2> QED
    BY <1>2, <2>1, <2>2, RecordsFrame, OpenersFrame DEF Held
<1>7. ASSUME NEW v, Goto(a, v), v = "rejecting" => NoMajority(q), v = "applying" => Settled(q),
             v \in {"rejecting", "applying"}
      PROVE  Held'
  <2>1. /\ jobs'[a].stage = v /\ jobs'[a].req = q
        /\ \A b \in Actors \ {a} : jobs'[b] = jobs[b]
    BY <1>1, <1>7, Goes
  <2>2. (NoMajority(q)' <=> NoMajority(q)) /\ (Settled(q)' <=> Settled(q))
    BY <1>2, SameCount DEF SameRequest
  <2>3. (Knows(a) /\ Late(a))'
    BY <1>2, <1>4, <1>5, <1>7, <2>1, <2>2 DEF Knows, Late
  <2>4. InFlightInv'
    BY <1>2, <2>1, <2>3, InFlightFrame DEF SameRequest
  <2> QED
    BY <1>2, <1>7, <2>1, <2>4, RecordsFrame, OpenersFrame DEF Held
<1> DEFINE yes == Cardinality(Voted(q, "yes"))
           n == Cardinality(asked[q].electors)
<1>8. CASE 2 * no > n
  <2>1. NoMajority(q)
    BY <1>0, <1>4, <1>8, TallyBounds DEF NoMajority
  <2>2. Goto(a, "rejecting")
    BY <1>1, <1>8 DEF Decide, Verdict
  <2> QED
    BY <1>7, <2>1, <2>2
<1>9. CASE ~(2 * no > n) /\ no + yes >= n
  <2>1. Settled(q)
    <3> DEFINE c == Cardinality(Voted(q, "no"))
    <3>a. /\ c \in Nat /\ yes \in Nat /\ n \in Nat /\ c + yes <= n
          /\ c + yes = n => Counted(q)
      BY <1>0, TallyBounds
    <3>b. no <= c
      BY <1>4
    <3>1. no = Cardinality(Voted(q, "no")) /\ Counted(q)
      <4> HIDE DEF c, yes, n
      <4>1. no = c /\ c + yes = n
        BY <1>9, <3>a, <3>b
      <4> QED
        BY <3>a, <4>1 DEF c
    <3> QED
      BY <1>9, <3>1 DEF Settled, NoMajority
  <2>2. Goto(a, "applying")
    BY <1>1, <1>9 DEF Decide, Verdict
  <2> QED
    BY <1>7, <2>1, <2>2
<1>10. CASE ~(2 * no > n) /\ ~(no + yes >= n)
  BY <1>1, <1>6, <1>10 DEF Decide, Verdict
<1> QED
  BY <1>8, <1>9, <1>10

\* A majority against is on record, and no one else thinks the request settled.
LEMMA ExpireHolds ==
    ASSUME IInv, NEW a \in Actors, expire_pending_proposal(a)
    PROVE  Held'
<1> USE DEF IInv
<1>0. TypeOK
  BY DEF TypeInv
<1>a. jobs \in [Actors -> Jobs] /\ jobs[a].stage = "rejecting" /\ jobs[a].req \in Requests
  BY <1>0, JobFields DEF TypeOK, expire_pending_proposal
<1> PICK q \in Requests : q = jobs[a].req
  BY <1>a
<1>1. jobs \in [Actors -> Jobs] /\ jobs[a].stage = "rejecting" /\ jobs[a].req = q
  BY <1>a
<1>2. /\ UNCHANGED <<fact, asked, votes, age, hands, todo>>
      /\ status' = [status EXCEPT ![q] = IF @ = "pending" THEN "expired" ELSE @]
  BY <1>1 DEF expire_pending_proposal, FlipIfPending
<1>3. jobs'[a].stage = "idle" /\ \A b \in Actors \ {a} : jobs'[b] = jobs[b]
  BY <1>1, Rests DEF expire_pending_proposal
<1>4. NoMajority(q) /\ ~Settled(q) /\ status[q] # "none"
  BY <1>1 DEF InFlightInv, Knows, Settled
<1>5. /\ Voted(q, "no")' = Voted(q, "no")
      /\ NoMajority(q)' <=> NoMajority(q)
      /\ Settled(q)' <=> Settled(q)
  BY <1>2 DEF Voted, NoMajority, Settled, Counted
<1>6. \A r \in Requests \ {q} : SameRequest(r)
  BY <1>0, <1>2 DEF SameRequest, TypeOK
<1>7. status'[q] # "none"
  BY <1>0, <1>2, <1>4 DEF TypeOK
<1>8. ASSUME NEW b \in Actors \ {a}, jobs[b].stage # "idle", jobs[b].req = q
      PROVE  (Knows(b) /\ Late(b))'
  <2>1. Knows(b) /\ Late(b) /\ jobs'[b] = jobs[b]
    BY <1>3, <1>8 DEF InFlightInv
  <2>2. Knows(b)'
    BY <1>2, <1>4, <1>5, <1>7, <1>8, <2>1 DEF Knows
  <2>3. Late(b)'
    BY <1>2, <2>1 DEF Late
  <2> QED
    BY <2>2, <2>3
<1>9. \A b \in Actors \ {a} : jobs[b].stage # "idle" =>
             SameRequest(jobs[b].req) \/ (Knows(b) /\ Late(b))'
  BY <1>1, <1>6, <1>8, JobFields
<1>10. InFlightInv'
  BY <1>2, <1>3, <1>9, InFlightFrame
<1>11. \A r \in Requests : Settled(r)' <=> Settled(r)
  BY <1>5, <1>6, SameCount
<1>12. Records'
  BY <1>2, <1>6, <1>7, <1>11
  DEF Records, Unasked, VotersAreElectors, ListedAreOverdue, ForgottenAreSettled, SameRequest
<1> QED
  BY <1>3, <1>10, <1>12, OpenersFrame DEF Held

LEMMA ApplyHolds ==
    ASSUME IInv, NEW a \in Actors,
           apply_fact_forget_now(a) \/ apply_fact_forget(a) \/ mark_applied(a)
    PROVE  Held'
<1> USE DEF IInv
<1>0. TypeOK
  BY DEF TypeInv
<1>a. /\ jobs \in [Actors -> Jobs] /\ jobs[a].stage \in {"applying", "hand", "tombstone", "flip"}
      /\ jobs[a].req \in Requests
  BY <1>0, JobFields DEF TypeOK, apply_fact_forget_now, apply_fact_forget, mark_applied
<1> PICK q \in Requests : q = jobs[a].req
  BY <1>a
<1>1. /\ jobs \in [Actors -> Jobs] /\ jobs[a].stage \in {"applying", "hand", "tombstone", "flip"}
      /\ jobs[a].req = q
  BY <1>a
<1>2. Knows(a) /\ Late(a)
  BY <1>1 DEF InFlightInv
<1>3. status[q] # "none" /\ (jobs[a].stage = "hand" \/ q \in hands \/ Settled(q))
  BY <1>1, <1>2 DEF Knows
<1>4. CASE apply_fact_forget_now(a)
  <2>1. UNCHANGED <<fact, status, asked, votes, age, hands, todo>> /\ jobs[a].stage = "applying"
    BY <1>4 DEF apply_fact_forget_now
  <2>2. \A r : SameRequest(r) /\ (Settled(r)' <=> Settled(r))
    BY <2>1, SameCount DEF SameRequest
  <2>3. CASE status[q] = "pending"
    <3>1. /\ jobs'[a].stage = "tombstone" /\ jobs'[a].req = q
          /\ \A b \in Actors \ {a} : jobs'[b] = jobs[b]
      BY <1>1, <1>4, <2>3, Goes DEF apply_fact_forget_now
    <3>2. (Knows(a) /\ Late(a))'
      BY <1>1, <1>2, <1>3, <2>1, <2>2, <2>3, <3>1 DEF Knows, Late
    <3>3. InFlightInv'
      BY <2>1, <2>2, <3>1, <3>2, InFlightFrame
    <3> QED
      BY <2>1, <3>1, <3>3, RecordsFrame, OpenersFrame DEF Held
  <2>4. CASE status[q] # "pending"
    <3>1. jobs'[a].stage = "idle" /\ \A b \in Actors \ {a} : jobs'[b] = jobs[b]
      BY <1>1, <1>4, <2>4, Rests DEF apply_fact_forget_now
    <3>2. InFlightInv'
      BY <2>1, <2>2, <3>1, InFlightFrame
    <3> QED
      BY <2>1, <3>1, <3>2, RecordsFrame, OpenersFrame DEF Held
  <2> QED
    BY <2>3, <2>4
<1>5. CASE apply_fact_forget(a)
  <2>1. /\ UNCHANGED <<status, asked, votes, age, todo>> /\ jobs[a].stage \in {"hand", "tombstone"}
        /\ fact' = IF fact = "live" THEN q ELSE fact
        /\ hands' = IF jobs[a].stage = "hand" THEN hands \cup {q} ELSE hands
    BY <1>1, <1>5 DEF apply_fact_forget, mark_forgotten, ByHand
  <2>2. /\ jobs'[a].stage = "flip" /\ jobs'[a].req = q
        /\ \A b \in Actors \ {a} : jobs'[b] = jobs[b]
    BY <1>1, <1>5, Goes DEF apply_fact_forget
  <2>3. \A r : SameRequest(r) /\ (Settled(r)' <=> Settled(r))
    BY <2>1, SameCount DEF SameRequest
  <2>a. ASSUME jobs[a].stage = "hand" PROVE (Knows(a) /\ Late(a))'
    BY <1>1, <1>2, <1>3, <2>1, <2>2, <2>3, <2>a DEF Knows, Late
  <2>b. ASSUME jobs[a].stage = "tombstone" PROVE (Knows(a) /\ Late(a))'
    BY <1>1, <1>2, <1>3, <2>1, <2>2, <2>3, <2>b DEF Knows, Late
  <2>4. (Knows(a) /\ Late(a))'
    BY <2>1, <2>a, <2>b
  <2>5. InFlightInv'
    BY <2>1, <2>2, <2>3, <2>4, InFlightFrame
  <2>6. Records'
    BY <1>3, <2>1, <2>3 DEF Records, Unasked, VotersAreElectors, ListedAreOverdue, ForgottenAreSettled
  <2> QED
    BY <2>2, <2>5, <2>6, OpenersFrame DEF Held
<1>6. CASE mark_applied(a)
  <2>1. /\ UNCHANGED <<fact, asked, votes, age, hands, todo>>
        /\ status' = [status EXCEPT ![q] = IF @ = "pending" THEN "applied" ELSE @]
    BY <1>1, <1>6 DEF mark_applied, FlipIfPending
  <2>2. jobs'[a].stage = "idle" /\ \A b \in Actors \ {a} : jobs'[b] = jobs[b]
    BY <1>1, <1>6, Rests DEF mark_applied
  <2>3. \A r \in Requests \ {q} : SameRequest(r)
    BY <1>0, <2>1 DEF SameRequest, TypeOK
  <2>4. /\ Voted(q, "no")' = Voted(q, "no")
        /\ NoMajority(q)' <=> NoMajority(q)
        /\ Settled(q)' <=> Settled(q)
    BY <2>1 DEF Voted, NoMajority, Settled, Counted
  <2>5. status'[q] # "none" /\ (status'[q] = "expired" => status[q] = "expired")
    BY <1>0, <1>3, <2>1 DEF TypeOK
  <2>6. ASSUME NEW b \in Actors \ {a}, jobs[b].stage # "idle", jobs[b].req = q
        PROVE  (Knows(b) /\ Late(b))'
    <3>1. Knows(b) /\ Late(b) /\ jobs'[b] = jobs[b]
      BY <2>2, <2>6 DEF InFlightInv
    <3>2. Knows(b)'
      BY <1>3, <2>1, <2>4, <2>5, <2>6, <3>1 DEF Knows
    <3>3. Late(b)'
      BY <2>1, <3>1 DEF Late
    <3> QED
      BY <3>2, <3>3
  <2>7. \A b \in Actors \ {a} : jobs[b].stage # "idle" =>
             SameRequest(jobs[b].req) \/ (Knows(b) /\ Late(b))'
    BY <1>1, <2>3, <2>6, JobFields
  <2>8. InFlightInv'
    BY <2>1, <2>2, <2>7, InFlightFrame
  <2>9. \A r \in Requests : Settled(r)' <=> Settled(r)
    BY <2>3, <2>4, SameCount
  <2>10. Records'
    BY <2>1, <2>3, <2>5, <2>9
    DEF Records, Unasked, VotersAreElectors, ListedAreOverdue, ForgottenAreSettled, SameRequest
  <2> QED
    BY <2>2, <2>8, <2>10, OpenersFrame DEF Held
<1> QED
  BY <1>4, <1>5, <1>6

LEMMA StepHolds ==
    ASSUME IInv, NEW a \in Actors, Step(a)
    PROVE  Held'
<1>1. CASE ForgetAsSoleReader(a)
  <2>1. jobs \in [Actors -> Jobs] /\ InFlightInv /\ Openers
    BY DEF IInv, TypeInv, TypeOK
  <2>2. UNCHANGED <<status, asked, votes, age, todo, hands>> /\ mark_forgotten("direct")
    BY <1>1 DEF ForgetAsSoleReader
  <2>3. jobs'[a].stage = "idle" /\ \A b \in Actors \ {a} : jobs'[b] = jobs[b]
    BY <1>1, <2>1, Rests DEF ForgetAsSoleReader
  <2>4. InFlightInv'
    BY <2>1, <2>2, <2>3, InFlightFrame DEF SameRequest
  <2> QED
    BY <2>1, <2>2, <2>3, <2>4, DirectHolds, OpenersFrame DEF Held
<1> QED
  BY <1>1, EmitHolds, VoteHolds, CountHolds, DecideHolds, ExpireHolds, ApplyHolds DEF Step

LEMMA SweepHolds ==
    ASSUME IInv, ListOverdue \/ (\E q \in Requests : resolve_overdue_fact_forget(q)) \/ expire_overdue_proposals
    PROVE  Held'
<1> USE DEF IInv
<1>0. TypeOK /\ Sweep \in Actors
  BY DEF TypeInv, Actors
<1>1. jobs \in [Actors -> Jobs]
  BY <1>0 DEF TypeOK
<1>2. CASE ListOverdue
  <2>1. UNCHANGED <<fact, status, asked, votes, age, jobs, hands>> /\ \A q \in todo' : age[q] > 0
    BY <1>2 DEF ListOverdue
  <2>2. \A r : SameRequest(r) /\ (Settled(r)' <=> Settled(r))
    BY <2>1, SameCount DEF SameRequest
  <2>3. Records'
    BY <2>1, <2>2 DEF Records, Unasked, VotersAreElectors, ListedAreOverdue, ForgottenAreSettled
  <2>4. InFlightInv'
    BY <1>0, <2>1, <2>2, OthersKnow DEF InFlightInv
  <2> QED
    BY <2>1, <2>3, <2>4 DEF Held, Openers
<1>3. ASSUME NEW q \in Requests, resolve_overdue_fact_forget(q) PROVE Held'
  <2>1. UNCHANGED <<fact, status, asked, votes, age, hands>> /\ q \in todo /\ todo' \subseteq todo
    BY <1>3 DEF resolve_overdue_fact_forget
  <2>2. age[q] > 0 /\ status[q] # "none"
    BY <2>1 DEF Records, ListedAreOverdue, TypeInv, Requesters
  <2>3. PICK s \in {"rejecting", "applying"} :
            /\ jobs' = [jobs EXCEPT ![Sweep] = Job(s, q, asked[q].by, "yes")]
            /\ s = "rejecting" <=> NoMajority(q)
    BY <1>3 DEF resolve_overdue_fact_forget, NoMajority
  <2>4. /\ jobs'[Sweep].stage = s /\ jobs'[Sweep].req = q
        /\ \A b \in Actors \ {Sweep} : jobs'[b] = jobs[b]
    BY <1>0, <1>1, <2>3, Starts
  <2>5. \A r : SameRequest(r) /\ (NoMajority(r)' <=> NoMajority(r)) /\ (Settled(r)' <=> Settled(r))
    BY <2>1, SameCount DEF SameRequest
  <2>6. (Knows(Sweep) /\ Late(Sweep))'
    BY <2>1, <2>2, <2>3, <2>4, <2>5 DEF Knows, Late, Settled
  <2>7. InFlightInv'
    BY <1>0, <2>1, <2>4, <2>5, <2>6, InFlightFrame
  <2> QED
    BY <1>0, <2>1, <2>3, <2>4, <2>7, RecordsFrame, OpenersFrame DEF Held
<1>4. CASE expire_overdue_proposals
  <2>1. /\ UNCHANGED <<fact, asked, votes, age, jobs, todo, hands>> /\ jobs[Sweep].stage = "idle"
        /\ \A r \in Requests : status'[r] = IF status[r] = "pending" /\ age[r] = 2
                                            THEN "expired" ELSE status[r]
    BY <1>4 DEF expire_overdue_proposals
  <2>a. \A r : Voted(r, "no")' = Voted(r, "no") /\ (NoMajority(r)' <=> NoMajority(r)) /\ (Counted(r)' <=> Counted(r))
    BY <2>1 DEF Voted, NoMajority, Counted
  <2>2. \A r : Settled(r)' <=> Settled(r)
    BY <2>1, <2>a DEF Settled
  <2>b. \A r \in Requests : status'[r] = "none" <=> status[r] = "none"
    BY <2>1
  <2>3. ASSUME NEW b \in Actors, jobs[b].stage # "idle" PROVE (Knows(b) /\ Late(b))'
    <3>1. PICK r \in Requests : r = jobs[b].req
      BY <1>1, <2>3, JobFields
    <3>2. Knows(b) /\ Late(b) /\ b # Sweep
      BY <2>1, <2>3 DEF InFlightInv
    <3>3. age[r] > 0 => jobs[b].stage = "hand" \/ r \in hands
      BY <3>1, <3>2 DEF Late
    <3>4. /\ status'[r] = "none" <=> status[r] = "none"
          /\ status'[r] = "expired" => status[r] = "expired" \/ jobs[b].stage = "hand" \/ r \in hands
      BY <2>1, <3>3
    <3>5. Knows(b)'
      <4>1. /\ Voted(r, "no")' = Voted(r, "no") /\ (NoMajority(r)' <=> NoMajority(r))
            /\ Settled(r)' <=> Settled(r)
        BY <2>a, <2>2
      <4> QED
        BY <2>1, <3>1, <3>2, <3>4, <4>1 DEF Knows
    <3>6. Late(b)'
      BY <2>1, <3>2 DEF Late
    <3> QED
      BY <3>5, <3>6
  <2>4. InFlightInv'
    BY <2>1, <2>3 DEF InFlightInv
  <2>5. Records'
    BY <2>1, <2>2, <2>b DEF Records, Unasked, VotersAreElectors, ListedAreOverdue, ForgottenAreSettled
  <2> QED
    BY <2>1, <2>4, <2>5 DEF Held, Openers
<1> QED
  BY <1>2, <1>3, <1>4

\* A deadline that passes finds only the sweep on its request.
LEMMA ElapseHolds ==
    ASSUME IInv, Prompt, NEW q \in Requests, Elapse(q)
    PROVE  Held'
<1> USE DEF IInv
<1>0. TypeOK
  BY DEF TypeInv
<1>1. /\ UNCHANGED <<fact, status, asked, votes, jobs, todo, hands>> /\ status[q] # "none"
      /\ age' = [age EXCEPT ![q] = @ + 1]
  BY DEF Elapse
<1>2. \A a \in Callers : jobs[a].stage # "idle" => jobs[a].req # q
  BY DEF Elapse, InFlight
<1>3. age[q] \in 0..2 /\ age'[q] = age[q] + 1
  BY <1>0, <1>1 DEF TypeOK
<1>4. \A r \in Requests \ {q} : SameRequest(r)
  BY <1>0, <1>1 DEF SameRequest, TypeOK
<1>5. \A r : Voted(r, "no")' = Voted(r, "no") /\ (NoMajority(r)' <=> NoMajority(r)) /\ (Counted(r)' <=> Counted(r))
  BY <1>1 DEF Voted, NoMajority, Counted
<1>6. \A r \in Requests : Settled(r) => Settled(r)'
  BY <1>3, <1>4, <1>5 DEF Settled, SameRequest
<1>7. ASSUME NEW b \in Actors, jobs[b].stage # "idle" PROVE (Knows(b) /\ Late(b))'
  <2>1. Knows(b) /\ Late(b) /\ jobs[b].req \in Requests /\ jobs'[b] = jobs[b]
    BY <1>0, <1>1, <1>7, JobFields DEF InFlightInv, TypeOK
  <2>2. CASE jobs[b].req # q
    BY <1>1, <1>4, <2>1, <2>2, OthersKnow
  <2>3. CASE jobs[b].req = q
    <3>1. b = Sweep
      BY <1>2, <1>7, <2>3 DEF Actors
    <3>2. Knows(b)'
      BY <1>1, <1>5, <1>6, <2>1, <2>3 DEF Knows
    <3>3. Late(b)'
      BY <1>1, <1>3, <2>1, <2>3, <3>1 DEF Late
    <3> QED
      BY <3>2, <3>3
  <2> QED
    BY <2>2, <2>3
<1>8. InFlightInv'
  BY <1>1, <1>7 DEF InFlightInv
<1>9. ListedAreOverdue'
  BY <1>0, <1>1, <1>3, <1>4 DEF Records, ListedAreOverdue, SameRequest, TypeOK
<1>10. Unasked' /\ VotersAreElectors' /\ ForgottenAreSettled'
  BY <1>1, <1>4, <1>6 DEF Records, Unasked, VotersAreElectors, ForgottenAreSettled, SameRequest
<1> QED
  BY <1>1, <1>8, <1>9, <1>10 DEF Held, Records, Openers

LEMMA HeldStep == Prompt /\ IInv /\ [Next]_vars => Held'
<1> SUFFICES ASSUME Prompt, IInv, [Next]_vars PROVE Held'
  OBVIOUS
<1>1. jobs \in [Actors -> Jobs] /\ Held
  BY DEF IInv, TypeInv, TypeOK, Held
<1>2. CASE DeleteDirectly
  <2>1. UNCHANGED <<status, asked, votes, age, jobs, todo, hands>> /\ mark_forgotten("direct")
    BY <1>2 DEF DeleteDirectly
  <2>2. InFlightInv'
    BY <1>1, <2>1, OthersKnow DEF Held, InFlightInv, SameRequest
  <2> QED
    BY <1>1, <2>1, <2>2, DirectHolds DEF Held, Openers
<1>3. ASSUME NEW a \in Actors, Fail(a) PROVE Held'
  <2>1. jobs'[a].stage = "idle" /\ \A b \in Actors \ {a} : jobs'[b] = jobs[b]
    BY <1>1, <1>3, Rests DEF Fail
  <2>2. UNCHANGED <<fact, status, asked, votes, age, todo, hands>>
    BY <1>3 DEF Fail
  <2>3. InFlightInv'
    BY <1>1, <2>1, <2>2, InFlightFrame DEF Held, SameRequest
  <2> QED
    BY <1>1, <2>1, <2>2, <2>3, RecordsFrame, OpenersFrame DEF Held, IInv
<1>4. CASE Crash
  <2>1. /\ UNCHANGED <<fact, status, asked, votes, age, hands>> /\ todo' \subseteq todo
        /\ \A a \in Actors : jobs'[a].stage = "idle"
    BY <1>4 DEF Crash, IdleJob
  <2> QED
    BY <1>1, <2>1, RecordsFrame DEF Held, IInv, InFlightInv, Openers
<1>5. CASE UNCHANGED vars
  <2>1. UNCHANGED <<fact, status, asked, votes, age, jobs, todo, hands>>
    BY <1>5 DEF vars
  <2>2. InFlightInv'
    BY <1>1, <2>1, OthersKnow DEF Held, InFlightInv, SameRequest
  <2> QED
    BY <1>1, <2>1, <2>2, RecordsFrame DEF Held, IInv, Openers
<1> QED
  BY <1>2, <1>3, <1>4, <1>5, CallsHold, StepHolds, SweepHolds, ElapseHolds DEF Next, SweepStep, Actors

LEMMA InvStart == Init => IInv
<1> SUFFICES ASSUME Init PROVE IInv
  OBVIOUS
<1>1. \A a \in Actors : jobs[a].stage = "idle"
  BY DEF Init, IdleJob
<1>2. Openers /\ InFlightInv
  BY <1>1 DEF Openers, InFlightInv
<1>3. Records
  BY ForgetVoteAssumption
  DEF Init, Records, Unasked, VotersAreElectors, ListedAreOverdue, ForgottenAreSettled, NobodyAsked
<1> QED
  BY <1>2, <1>3, TypesStart DEF IInv

LEMMA InvStep == Prompt /\ IInv /\ [Next]_vars => IInv'
  BY TypesStep, HeldStep DEF IInv, Held

\* No fact is forgotten by a request a majority is on record against, unless
\* it was applied by hand: the two counts of cast_vote, taken apart while
\* others vote, the sweep, a retry after a crash and a request opened twice
\* included, as long as a call ends before its request's deadline passes.
THEOREM MajorityIsRespected ==
    ASSUME Prompt
    PROVE  Spec => []NoMajorityNeverForgets
<1>1. IInv => NoMajorityNeverForgets
  BY DEF IInv, Records, ForgottenAreSettled, NoMajorityNeverForgets, Settled
<1>2. IInv /\ [Next]_vars => IInv'
  BY InvStep
<1> QED
  BY <1>1, <1>2, InvStart, PTL DEF Spec

---------------------------------------------------------------------------
(* Requests are ballots.                                                   *)

KeepsVotes(q) == asked'[q].electors = asked[q].electors /\ votes'[q] = votes[q]

\* The steps of Ballot, read off the request.
Opens(q) ==
    /\ Standing(q) = "none" /\ Standing(q)' = "open"
    /\ asked'[q].electors \subseteq Users /\ asked'[q].electors # {}
    /\ votes'[q] = votes[q] /\ age'[q] = age[q]

TakesVote(q) ==
    /\ age[q] = 0
    /\ \E u \in asked[q].electors, x \in {"yes", "no"} :
          votes[q][u] = "none" /\ votes'[q] = [votes[q] EXCEPT ![u] = x]
    /\ Standing(q)' = Standing(q) /\ asked'[q].electors = asked[q].electors /\ age'[q] = age[q]

Ages(q) ==
    /\ Standing(q) # "none" /\ age[q] < 2 /\ age'[q] = age[q] + 1
    /\ Standing(q)' = Standing(q) /\ KeepsVotes(q)

IsKept(q) ==
    /\ Standing(q) = "open" /\ Standing(q)' = "kept" /\ (NoMajority(q) \/ age[q] = 2)
    /\ KeepsVotes(q) /\ age'[q] = age[q]

IsForgotten(q) ==
    /\ Standing(q) = "open" /\ Standing(q)' = "forgotten" /\ Settled(q)
    /\ KeepsVotes(q) /\ age'[q] = age[q]

IsOverruled(q) ==
    /\ Standing(q) \in {"open", "kept", "forgotten"} /\ Standing(q)' = "overruled"
    /\ KeepsVotes(q) /\ age'[q] = age[q]

Waits(q) == Standing(q)' = Standing(q) /\ KeepsVotes(q) /\ age'[q] = age[q]

Moves(q) ==
    \/ Opens(q) \/ TakesVote(q) \/ Ages(q) \/ IsKept(q)
    \/ IsForgotten(q) \/ IsOverruled(q) \/ Waits(q)

LEMMA MovesAreBallotSteps ==
    ASSUME NEW q \in Requests, Moves(q)
    PROVE  \/ Ballots!Open(q) \/ Ballots!Vote(q) \/ Ballots!Elapse(q) \/ Ballots!Keep(q)
           \/ Ballots!Forget(q) \/ Ballots!Overrule(q) \/ Ballots!Rest(q)
<1>1. \A x : Ballots!Cast(q, x) = Voted(q, x)
  BY DEF Ballots!Cast, Voted
<1>a. \A S : Ballots!Cardinality(S) = Cardinality(S)
  BY DEF Ballots!Cardinality, Cardinality
<1>2. Ballots!NoMajority(q) <=> NoMajority(q)
  BY <1>1, <1>a DEF Ballots!NoMajority, NoMajority
<1>3. Ballots!Counted(q) <=> Counted(q)
  BY <1>1 DEF Ballots!Counted, Counted
<1>4. Ballots!KeepsBallot(q) <=> KeepsVotes(q)
  BY DEF Ballots!KeepsBallot, KeepsVotes
<1>5. Opens(q) => Ballots!Open(q)
  BY DEF Opens, Ballots!Open
<1>6. TakesVote(q) => Ballots!Vote(q)
  BY DEF TakesVote, Ballots!Vote
<1>7. Ages(q) => Ballots!Elapse(q)
  BY <1>4 DEF Ages, Ballots!Elapse
<1>8. IsKept(q) => Ballots!Keep(q)
  BY <1>2, <1>4 DEF IsKept, Ballots!Keep
<1>9. IsForgotten(q) => Ballots!Forget(q)
  BY <1>2, <1>3, <1>4 DEF IsForgotten, Ballots!Forget, Settled
<1>10. IsOverruled(q) => Ballots!Overrule(q)
  BY <1>4 DEF IsOverruled, Ballots!Overrule
<1>11. Waits(q) => Ballots!Rest(q)
  BY <1>4 DEF Waits, Ballots!Rest
<1> QED
  BY <1>5, <1>6, <1>7, <1>8, <1>9, <1>10, <1>11 DEF Moves

LEMMA NothingMovesWaits ==
    ASSUME UNCHANGED <<fact, status, asked, votes, age, hands>>
    PROVE  \A q \in Requests : Moves(q)
  BY DEF Moves, Waits, Standing, KeepsVotes

LEMMA CallsMove ==
    ASSUME IInv, NEW a \in Callers, Call(a), NEW q \in Requests
    PROVE  Moves(q)
<1> PICK r \in Requests, u \in Users :
        \/ open_forget_request(a, r, u)
        \/ \E x \in {"yes", "no"} : cast_vote(a, r, u, x)
        \/ apply_proposal(a, r, u)
  BY DEF Call
<1>1. CASE open_forget_request(a, r, u)
  BY <1>1, NothingMovesWaits DEF open_forget_request
<1>2. ASSUME NEW x \in {"yes", "no"}, cast_vote(a, r, u, x) PROVE Moves(q)
  BY <1>2, NothingMovesWaits DEF cast_vote
<1>3. CASE apply_proposal(a, r, u)
  BY <1>3, NothingMovesWaits DEF apply_proposal
<1> QED
  BY <1>1, <1>2, <1>3

LEMMA DirectMoves ==
    ASSUME mark_forgotten("direct"), UNCHANGED <<status, asked, votes, age, hands>>, NEW q \in Requests
    PROVE  Moves(q)
<1>1. fact' = q <=> fact = q
  BY ForgetVoteAssumption DEF mark_forgotten
<1> QED
  BY <1>1 DEF Moves, Waits, Standing, KeepsVotes

LEMMA StepMoves ==
    ASSUME IInv, NEW a \in Actors, Step(a), NEW q \in Requests
    PROVE  Moves(q)
<1> USE DEF IInv
<1>0. TypeOK
  BY DEF TypeInv
<1>1. jobs[a].stage # "idle"
  BY DEF Step, EmitRequest, ForgetAsSoleReader, InsertVote, CountNo, Decide, expire_pending_proposal,
     apply_fact_forget_now, apply_fact_forget, mark_applied
<1>2. Knows(a) /\ Late(a) /\ jobs[a].req \in Requests /\ jobs[a].who \in Users /\ jobs[a].vote \in {"yes", "no"}
  BY <1>0, <1>1, JobFields DEF InFlightInv, TypeOK
<1> PICK r \in Requests : r = jobs[a].req
  BY <1>2
<1>3. CASE EmitRequest(a)
  <2>1. /\ UNCHANGED <<fact, votes, age, hands>> /\ status' = [status EXCEPT ![r] = "pending"]
        /\ asked' = [asked EXCEPT ![r] = [by |-> jobs[a].who, electors |-> eligible(jobs[a].who)]]
        /\ jobs[a].stage = "opening" /\ eligible(jobs[a].who) # {}
    BY <1>3 DEF EmitRequest
  <2>2. status[r] = "none" /\ r \notin hands /\ fact # r
    BY <1>2, <2>1 DEF Knows, Records, Unasked
  <2>3. CASE q = r
    <3>1. status'[r] = "pending" /\ asked'[r].electors = eligible(jobs[a].who)
      BY <1>0, <2>1 DEF TypeOK
    <3>2. eligible(jobs[a].who) \subseteq Users
      BY <1>0, EligibleAreUsers
    <3>3. Standing(r) = "none" /\ Standing(r)' = "open"
      BY <2>1, <2>2, <3>1 DEF Standing
    <3> QED
      BY <2>1, <2>3, <3>1, <3>2, <3>3 DEF Moves, Opens
  <2>4. CASE q # r
    BY <1>0, <2>1, <2>4 DEF Moves, Waits, Standing, KeepsVotes, TypeOK
  <2> QED
    BY <2>3, <2>4
<1>4. CASE ForgetAsSoleReader(a)
  BY <1>4, DirectMoves DEF ForgetAsSoleReader
<1>5. CASE InsertVote(a)
  <2>1. UNCHANGED <<fact, status, asked, age, hands>> /\ jobs[a].stage = "voting"
    BY <1>5 DEF InsertVote
  <2>2. age[r] \in 0..2
    BY <1>0 DEF TypeOK
  <2>3. age[r] = 0 /\ jobs[a].who \in asked[r].electors
    BY <1>2, <2>1, <2>2 DEF Late, Knows
  <2>4. CASE votes' = votes
    BY <2>1, <2>4, NothingMovesWaits
  <2>5. CASE votes[r][jobs[a].who] = "none" /\ votes' = [votes EXCEPT ![r][jobs[a].who] = jobs[a].vote]
    <3>1. \A p \in Requests : Standing(p)' = Standing(p)
      BY <2>1 DEF Standing
    <3>2. CASE q = r
      <4>1. votes'[r] = [votes[r] EXCEPT ![jobs[a].who] = jobs[a].vote]
        BY <1>0, <2>5 DEF TypeOK
      <4> QED
        BY <1>2, <2>1, <2>3, <2>5, <3>1, <3>2, <4>1 DEF Moves, TakesVote
    <3>3. CASE q # r
      BY <1>0, <2>1, <2>5, <3>1, <3>3 DEF Moves, Waits, KeepsVotes, TypeOK
    <3> QED
      BY <3>2, <3>3
  <2> QED
    BY <1>5, <2>4, <2>5 DEF InsertVote
<1>6. CASE CountNo(a) \/ Decide(a) \/ apply_fact_forget_now(a)
  BY <1>6, NothingMovesWaits DEF CountNo, Decide, apply_fact_forget_now
<1>7. CASE expire_pending_proposal(a)
  <2>1. /\ UNCHANGED <<fact, asked, votes, age, hands>> /\ jobs[a].stage = "rejecting"
        /\ status' = [status EXCEPT ![r] = IF @ = "pending" THEN "expired" ELSE @]
    BY <1>7 DEF expire_pending_proposal, FlipIfPending
  <2>2. NoMajority(r)
    BY <1>2, <2>1 DEF Knows
  <2>3. CASE q = r
    BY <1>0, <2>1, <2>2, <2>3 DEF Moves, Waits, IsKept, Standing, KeepsVotes, TypeOK
  <2>4. CASE q # r
    BY <1>0, <2>1, <2>4 DEF Moves, Waits, Standing, KeepsVotes, TypeOK
  <2> QED
    BY <2>3, <2>4
<1>8. CASE apply_fact_forget(a)
  <2>1. /\ UNCHANGED <<status, asked, votes, age>> /\ jobs[a].stage \in {"hand", "tombstone"}
        /\ fact' = IF fact = "live" THEN r ELSE fact
        /\ hands' = IF jobs[a].stage = "hand" THEN hands \cup {r} ELSE hands
    BY <1>8 DEF apply_fact_forget, mark_forgotten, ByHand
  <2>2. CASE q = r /\ jobs[a].stage = "hand"
    <3>1. status[r] \in {"pending", "applied", "expired"}
      BY <1>0, <1>2, <2>2 DEF Knows, TypeOK
    <3> QED
      BY <2>1, <2>2, <3>1 DEF Moves, Waits, IsOverruled, Standing, KeepsVotes
  <2>3. CASE q = r /\ jobs[a].stage = "tombstone"
    <3>1. status[r] # "none" /\ (r \in hands \/ (Settled(r) /\ status[r] # "expired"))
      BY <1>2, <2>3 DEF Knows
    <3> QED
      BY <1>0, <2>1, <2>3, <3>1 DEF Moves, Waits, IsForgotten, Standing, KeepsVotes, TypeOK
  <2>4. CASE q # r
    <3>1. (fact' = q <=> fact = q) /\ (q \in hands' <=> q \in hands)
      BY <2>1, <2>4, ForgetVoteAssumption
    <3> QED
      BY <2>1, <3>1 DEF Moves, Waits, Standing, KeepsVotes
  <2> QED
    BY <2>1, <2>2, <2>3, <2>4
<1>9. CASE mark_applied(a)
  <2>1. /\ UNCHANGED <<fact, asked, votes, age, hands>> /\ jobs[a].stage = "flip"
        /\ status' = [status EXCEPT ![r] = IF @ = "pending" THEN "applied" ELSE @]
    BY <1>9 DEF mark_applied, FlipIfPending
  <2>2. r \in hands \/ Settled(r)
    BY <1>2, <2>1 DEF Knows
  <2>3. CASE q = r
    BY <1>0, <2>1, <2>2, <2>3 DEF Moves, Waits, IsForgotten, Standing, KeepsVotes, TypeOK
  <2>4. CASE q # r
    BY <1>0, <2>1, <2>4 DEF Moves, Waits, Standing, KeepsVotes, TypeOK
  <2> QED
    BY <2>3, <2>4
<1> QED
  BY <1>3, <1>4, <1>5, <1>6, <1>7, <1>8, <1>9 DEF Step

LEMMA EverythingMoves ==
    ASSUME IInv, [Next]_vars, NEW q \in Requests
    PROVE  Moves(q)
<1>0. TypeOK
  BY DEF IInv, TypeInv
<1>1. CASE ListOverdue \/ (\E r \in Requests : resolve_overdue_fact_forget(r))
           \/ (\E a \in Actors : Fail(a)) \/ Crash \/ UNCHANGED vars
  BY <1>1, NothingMovesWaits DEF ListOverdue, resolve_overdue_fact_forget, Fail, Crash, vars
<1>2. CASE DeleteDirectly
  BY <1>2, DirectMoves DEF DeleteDirectly
<1>3. CASE expire_overdue_proposals
  BY <1>3 DEF expire_overdue_proposals, Moves, Waits, IsKept, Standing, KeepsVotes
<1>4. ASSUME NEW r \in Requests, Elapse(r) PROVE Moves(q)
  <2>1. /\ UNCHANGED <<fact, status, asked, votes, hands>> /\ status[r] # "none" /\ age[r] < 2
        /\ age' = [age EXCEPT ![r] = @ + 1]
    BY <1>4 DEF Elapse
  <2>2. \A p \in Requests : Standing(p)' = Standing(p)
    BY <2>1 DEF Standing
  <2>3. CASE q = r
    <3>1. Standing(r) # "none"
      BY <1>0, <2>1 DEF Standing, TypeOK
    <3>2. age'[r] = age[r] + 1
      BY <1>0, <2>1 DEF TypeOK
    <3> QED
      BY <2>1, <2>2, <2>3, <3>1, <3>2 DEF Moves, Ages, KeepsVotes
  <2>4. CASE q # r
    BY <1>0, <2>1, <2>2, <2>4 DEF Moves, Waits, KeepsVotes, TypeOK
  <2> QED
    BY <2>3, <2>4
<1> QED
  BY <1>1, <1>2, <1>3, <1>4, CallsMove, StepMoves DEF Next, SweepStep, Actors

\* Every request is a ballot as Ballot.tla describes it: it is decided once,
\* on the votes of its own electorate, each cast once and in its window, or on
\* silence, or by a hand it is addressed to; whatever the interleaving of calls
\* and sweeps, failures and restarts, and however many requests are open.
THEOREM RequestsImplementBallots ==
    ASSUME Prompt
    PROVE  Spec => RequestsAreBallots
<1>1. Init => Ballots!Init
  <2> SUFFICES ASSUME Init PROVE Ballots!Init
    OBVIOUS
  <2>1. \A q \in Requests : Standing(q) = "none" /\ asked[q].electors = {}
    BY ForgetVoteAssumption DEF Init, NobodyAsked, Standing
  <2> QED
    BY <2>1 DEF Init, Ballots!Init
<1>2. IInv /\ [Next]_vars => [Ballots!Next]_(Ballots!ballotVars)
  <2>1. IInv /\ [Next]_vars => Ballots!Next
    BY EverythingMoves, MovesAreBallotSteps DEF Ballots!Next
  <2> QED
    BY <2>1
<1>3. IInv /\ [Next]_vars => IInv'
  BY InvStep
<1> QED
  BY <1>1, <1>2, <1>3, InvStart, PTL DEF Spec, RequestsAreBallots, Ballots!Spec
============================================================================
