-------------------------- MODULE RetellingProofs --------------------------
(***************************************************************************)
(* What the audience predicates of Acl guarantee for every set of users and *)
(* groups, every roster and every audience; and, for any household, any     *)
(* tellings and changes of audience and any number of live turns: the types *)
(* hold, the store's queries agree with the row check, and fences stand     *)
(* where no two writes of a row overlap.                                   *)
(* When no road decides while another has work in flight, joining a group   *)
(* opens no fenced fact, and every room is heard.                          *)
(***************************************************************************)
EXTENDS Retelling, FiniteSetTheorems, WellFoundedInduction, TLAPS

---------------------------------------------------------------------------
(* The audience predicates of Acl, for every roster and every audience.    *)

\* The predicate the store's queries evaluate answers every reader as the row
\* check does: readable_by_sql bound to reader_principals is can_read.
THEOREM QueryIsTheRowCheck ==
    ASSUME NEW a, NEW u, NEW groups
    PROVE  readable_by_sql(a, reader_principals(u, groups)) <=> can_read(a, u, groups)
<1> DEFINE mine == reader_principals(u, groups)
<1>1. \A p : p \in mine <=> principal_matches(p, u, groups)
  BY DEF reader_principals, principal_matches
<1>2. a.excluded \cap mine = {} <=> \A p \in a.excluded : ~principal_matches(p, u, groups)
  BY <1>1
<1>3. (a.subject \in mine \/ a.sender \cap mine # {} \/ a.allow \cap mine # {})
        <=> \E p \in {a.subject} \cup a.allow \cup a.sender : principal_matches(p, u, groups)
  BY <1>1
<1> QED
  BY <1>2, <1>3 DEF readable_by_sql, can_read

\* Whom a principal of an audience stands for in an electorate: the person, or
\* the members of the group on the day.
LEMMA ExpandIsWhoItMatches ==
    ASSUME NEW roster0 \in Rosters, NEW p \in Principals \ {Global}, NEW u \in Users
    PROVE  u \in Expand(p, roster0) <=> principal_matches(p, u, GroupsOf(u, roster0))
<1>1. CASE p \in Groups
  BY <1>1, AclAssumption DEF Expand, principal_matches, GroupsOf
<1>2. CASE p \notin Groups
  BY <1>2, AclAssumption DEF Expand, principal_matches, GroupsOf
<1> QED
  BY <1>1, <1>2

\* An electorate is made of enrolled people (nobody polls the forgotten author).
LEMMA ExpandsToUsers ==
    ASSUME NEW roster0 \in Rosters, NEW p \in Principals \ {Removed}
    PROVE  Expand(p, roster0) \subseteq Users
<1>1. CASE p \in Groups
  BY <1>1 DEF Expand, Rosters
<1>2. CASE p \notin Groups
  BY <1>2 DEF Expand, Principals
<1> QED
  BY <1>1, <1>2

\* Membership in an electorate, with the union taken apart.
LEMMA ElectorsUnfolded ==
    ASSUME NEW a, NEW roster0, NEW u
    PROVE  u \in audience(a, roster0) <=>
             /\ \E p \in ({a.subject} \cup a.allow \cup a.sender) \ {Global, Removed} :
                    u \in Expand(p, roster0)
             /\ \A p \in a.excluded : u \notin Expand(p, roster0)
  BY Zenon DEF audience

\* The electorate acl::audience puts a forget request to: everybody in it may
\* read the fact, and everybody who may read a fact that is not public is in it.
THEOREM ElectorateIsTheReaders ==
    ASSUME NEW a \in Audiences, NEW roster0 \in Rosters, Global \notin a.excluded
    PROVE  /\ \A u \in audience(a, roster0) : u \in Users /\ can_read(a, u, GroupsOf(u, roster0))
           /\ ~is_public(a) => \A u \in Users : can_read(a, u, GroupsOf(u, roster0))
                                                  => u \in audience(a, roster0)
<1> DEFINE grants == {a.subject} \cup a.allow \cup a.sender
<1>1. grants \subseteq Principals /\ a.excluded \subseteq Principals
  <2>1. a.sender \in Senders /\ a.subject \in Principals /\ a.allow \subseteq Principals
        /\ a.excluded \subseteq Principals
    BY DEF Audiences
  <2>2. a.sender \subseteq Principals
    BY <2>1 DEF Senders
  <2> QED
    BY <2>1, <2>2
<1>2. ASSUME NEW u \in audience(a, roster0)
      PROVE  u \in Users /\ can_read(a, u, GroupsOf(u, roster0))
  <2>1. PICK p \in grants \ {Global, Removed} : u \in Expand(p, roster0)
    BY <1>2, ElectorsUnfolded
  <2>2. u \in Users
    BY <1>1, <2>1, ExpandsToUsers
  <2>3. principal_matches(p, u, GroupsOf(u, roster0))
    BY <1>1, <2>1, <2>2, ExpandIsWhoItMatches
  <2>4. ASSUME NEW q \in a.excluded
        PROVE  ~principal_matches(q, u, GroupsOf(u, roster0))
    <3>1. u \notin Expand(q, roster0)
      BY <1>2, ElectorsUnfolded
    <3> QED
      BY <1>1, <2>2, <3>1, ExpandIsWhoItMatches
  <2> QED
    BY <2>1, <2>2, <2>3, <2>4 DEF can_read
<1>3. ASSUME ~is_public(a), NEW u \in Users, can_read(a, u, GroupsOf(u, roster0))
      PROVE  u \in audience(a, roster0)
  <2>1. PICK p \in grants : principal_matches(p, u, GroupsOf(u, roster0))
    BY <1>3 DEF can_read
  <2>2. p # Global
    BY <1>3, <2>1 DEF is_public
  <2>3. p # Removed
    BY <1>3, <2>1, <2>2, AclAssumption DEF principal_matches, GroupsOf
  <2>4. u \in Expand(p, roster0)
    BY <1>1, <2>1, <2>2, ExpandIsWhoItMatches
  <2>5. \A q \in a.excluded : u \notin Expand(q, roster0)
    BY <1>1, <1>3, ExpandIsWhoItMatches DEF can_read
  <2> QED
    BY <2>1, <2>2, <2>3, <2>4, <2>5, ElectorsUnfolded
<1> QED
  BY <1>2, <1>3

\* Carrying an exclusion turns an audience into people: no group is left in it,
\* and nobody it is kept from (audience_without_the_excluded).
THEOREM FrozenAudienceNamesPeople ==
    ASSUME NEW allow \in SUBSET Principals, NEW excluded, excluded # {}, NEW roster0 \in Rosters
    PROVE  /\ audience_without_the_excluded(allow, excluded, roster0) \subseteq Users \cup {Removed}
           /\ audience_without_the_excluded(allow, excluded, roster0) \cap excluded = {}
<1>1. \A p \in Principals : Expand(p, roster0) \subseteq Users \cup {Removed}
  <2>1. Expand(Removed, roster0) = {Removed}
    BY AclAssumption DEF Expand
  <2> QED
    BY <2>1, ExpandsToUsers
<1>2. UNION {Expand(p, roster0) : p \in allow \ {Global}} \subseteq Users \cup {Removed}
  BY <1>1
<1> QED
  BY <1>2 DEF audience_without_the_excluded

\* A row whose readers are people is out of reach of the groups one joins: being
\* in more groups makes nobody a reader of it.
THEOREM JoiningGrantsNothing ==
    ASSUME NEW a, {a.subject} \cup a.allow \cup a.sender \subseteq Users \cup {Removed},
           NEW u, NEW before, NEW after \in SUBSET Groups, before \subseteq after,
           can_read(a, u, after)
    PROVE  can_read(a, u, before)
<1>1. \A p \in a.excluded : ~principal_matches(p, u, before)
  BY DEF can_read, principal_matches
<1>2. PICK p \in {a.subject} \cup a.allow \cup a.sender : principal_matches(p, u, after)
  BY DEF can_read
<1>3. principal_matches(p, u, before)
  BY <1>2, AclAssumption DEF principal_matches
<1> QED
  BY <1>1, <1>2, <1>3 DEF can_read

---------------------------------------------------------------------------
(* The inductive invariant.                                                *)

People == Users \cup {Removed}

\* Nobody is asked to keep a claim from the group everybody is in (a telling
\* excludes people, never groups: read_exclusions).
GlobalIsNotKeptOut ==
    /\ \A t \in Tellings : Global \notin t.excluded
    /\ \A r \in Reshares : Global \notin UNION r.excluded

\* A claim is about the subject, and one that keeps somebody out is told to
\* people by name.
Plain(c) ==
    /\ c.subject = Subject
    /\ c.excluded # {} => c.allow \subseteq People
    /\ GlobalIsNotKeptOut => Global \notin c.excluded

QueueInv == \A c \in queue : Plain(c)

\* One road at a time has work in flight.
OneRoad == \A a, b \in Actors : jobs[a].step # "idle" /\ jobs[b].step # "idle" => a = b

\* A row keeps out exactly those somebody asked to keep out, and is open to
\* people by name when it keeps out anybody, unless the subject wrote over it.
Fenced(i) ==
    /\ facts[i].subject = Subject
    /\ kept[i] = facts[i].excluded
    /\ facts[i].status = "absent" => kept[i] = {}
    /\ facts[i].status = "active" /\ i \notin written /\ facts[i].excluded # {}
         => facts[i].allow \subseteq People
    /\ GlobalIsNotKeptOut => Global \notin kept[i]

RowsInv == \A i \in Ids : Fenced(i)

\* What a road is about to write: the exclusions of the row and of the claim,
\* and readers among whom nobody the row named is missing.
Pending(j) ==
    /\ j.step # "idle" => Plain(j.claim)
    /\ j.step \in {"chosen", "read"} =>
         /\ j.row \in Active
         /\ j.add = facts[j.row].excluded \cup j.claim.excluded
         /\ j.add # {} => j.readers \subseteq People
         /\ facts[j.row].allow \cap Users \subseteq j.readers \cup j.add
    /\ j.step = "read" => j.union = j.add

PendingInv == \A a \in Actors : Pending(jobs[a])

\* Where somebody a telling named is to be found, while roads have work in
\* flight: kept out by name, on a row, or in what a road is about to write.
Placed(u) ==
    \/ \E i \in Ids : u \in kept[i]
    \/ \E i \in Active : u \in {Subject} \cup facts[i].allow
    \/ \E a \in Actors : jobs[a].step = "insert" /\ u \in {Subject} \cup jobs[a].claim.allow
    \/ \E a \in Actors : jobs[a].step \in {"chosen", "read"} /\ u \in jobs[a].readers \cup jobs[a].add

Heard == \A u \in told : Placed(u)

IInv == TypeOK /\ QueueInv /\ OneRoad /\ RowsInv /\ PendingInv /\ Heard

---------------------------------------------------------------------------
(* Operators.                                                              *)

\* The oldest of some rows is one of them.
LEMMA OldestIsOne ==
    ASSUME NEW S \in SUBSET Ids, S # {}
    PROVE  Oldest(S) \in S
<1>0. S \subseteq Nat
  BY RetellingAssumption DEF Ids
<1>1. \E m \in S : \A n \in S : <<n, m>> \notin OpToRel(<, Nat)
  BY <1>0, NatLessThanWellFounded, WFMin
<1>2. PICK m \in S : \A n \in S : <<n, m>> \notin OpToRel(<, Nat)
  BY <1>1
<1>3. \A n \in S : ~(n < m)
  BY <1>0, <1>2 DEF OpToRel
<1>4. \A n \in S : m <= n
  BY <1>0, <1>3
<1> QED
  BY <1>4 DEF Oldest

\* Freezing an audience loses nobody it names but those it is kept from.
LEMMA FreezingKeepsTheNamed ==
    ASSUME NEW roster0 \in Rosters, NEW allow \in SUBSET Principals, NEW excluded
    PROVE  /\ audience_without_the_excluded(allow, excluded, roster0) \subseteq Principals
           /\ allow \cap Users \subseteq
                audience_without_the_excluded(allow, excluded, roster0) \cup excluded
           /\ excluded # {} => audience_without_the_excluded(allow, excluded, roster0) \subseteq People
<1> DEFINE frozen == audience_without_the_excluded(allow, excluded, roster0)
<1>1. CASE excluded = {}
  BY <1>1 DEF audience_without_the_excluded
<1>2. CASE excluded # {}
  <2>1. frozen \subseteq People
    BY <1>2, FrozenAudienceNamesPeople DEF People
  <2>2. frozen = (UNION {Expand(p, roster0) : p \in allow \ {Global}}) \ excluded
    BY <1>2 DEF audience_without_the_excluded
  <2>3. ASSUME NEW u \in allow \cap Users, u \notin excluded PROVE u \in frozen
    <3>1. u \in allow \ {Global} /\ u \in Expand(u, roster0)
      BY <2>3, AclAssumption DEF Expand
    <3> QED
      BY <2>2, <2>3, <3>1
  <2>4. People \subseteq Principals
    BY DEF People, Principals
  <2> QED
    BY <2>1, <2>3, <2>4
<1> QED
  BY <1>1, <1>2

\* What a road may decide about a claim: it is there already, it is filed, or
\* a row takes both exclusions and loses nobody else who was named.
Verdict(c, j) ==
    \/ j = Idle /\ \E i \in Active : same_as_row(c, facts[i])
    \/ j = [Idle EXCEPT !.step = "insert", !.claim = c]
    \/ \E i \in Active, readers \in SUBSET Principals :
         /\ j = [Idle EXCEPT !.step = "chosen", !.claim = c, !.row = i,
                             !.add = facts[i].excluded \cup c.excluded, !.readers = readers]
         /\ facts[i].excluded \cup c.excluded # {} => readers \subseteq People
         /\ facts[i].allow \cap Users \subseteq readers \cup facts[i].excluded \cup c.excluded
         /\ c.allow \cap Users \subseteq
              {c.subject} \cup readers \cup facts[i].excluded \cup c.excluded

LEMMA RowFields ==
    ASSUME TypeOK, NEW i \in Ids
    PROVE  /\ facts[i] \in Rows
           /\ facts[i].allow \in SUBSET Principals /\ facts[i].excluded \in SUBSET Principals
           /\ facts[i].subject \in Principals /\ facts[i].sender = {Author}
           /\ facts[i].status \in {"absent", "active"}
<1>1. facts[i] \in Rows
  BY DEF TypeOK
<1> QED
  BY <1>1 DEF Rows

\* Decide reaches one of these verdicts.
LEMMA DecideGivesAVerdict ==
    ASSUME TypeOK, NEW a \in Actors, NEW c \in Claims, Decide(a, c)
    PROVE  \E j : Verdict(c, j) /\ jobs' = [jobs EXCEPT ![a] = j]
<1> DEFINE fenced == {i \in Active : takes_exclusion(c, facts[i], roster)}
           same   == {i \in Active : same_as_row(c, facts[i])}
           claim  == {i \in Active : facts[i].subject = c.subject /\ facts[i].sender = c.sender}
           wider  == {i \in claim : i = Oldest(claim) /\ carries_audience(c, facts[i], roster)}
           restrict(i, add, readers) ==
             [Idle EXCEPT !.step = "chosen", !.claim = c, !.row = i, !.add = add, !.readers = readers]
<1>0. c.allow \in SUBSET Principals /\ c.excluded \in SUBSET Principals /\ roster \in Rosters
      /\ Active \subseteq Ids
  BY DEF Claims, TypeOK, Active
<1>1. CASE fenced # {}
  <2> DEFINE o == Oldest(fenced)
             readers == frozen_readers(c, facts[o], roster)
  <2>1. o \in fenced
    BY <1>0, <1>1, OldestIsOne
  <2>2. o \in Active /\ o \in Ids /\ takes_exclusion(c, facts[o], roster)
    BY <1>0, <2>1
  <2>3. jobs' = [jobs EXCEPT ![a] = restrict(o, c.excluded, readers)]
    BY <1>1 DEF Decide
  <2>4. facts[o].allow \in SUBSET Principals /\ facts[o].excluded \in SUBSET Principals
    BY <2>2, RowFields
  <2>5. facts[o].excluded \cup c.excluded = c.excluded /\ c.excluded # {}
    BY <2>2 DEF takes_exclusion, restricts
  <2>6. /\ readers \subseteq Principals /\ readers \subseteq People
        /\ facts[o].allow \cap Users \subseteq readers \cup c.excluded
    <3>1. readers = audience_without_the_excluded(facts[o].allow, c.excluded, roster)
      BY DEF frozen_readers
    <3> HIDE DEF readers, o
    <3> QED
      BY <1>0, <2>4, <2>5, <3>1, FreezingKeepsTheNamed
  <2>7. c.allow \cap Users \subseteq {c.subject} \cup readers \cup c.excluded
    <3>1. {facts[o].subject} \cup readers
            = {c.subject} \cup audience_without_the_excluded(c.allow, c.excluded, roster)
      BY <2>2 DEF takes_exclusion, the_same_readers_once_frozen
    <3>2. facts[o].subject = c.subject
      BY <2>2 DEF takes_exclusion, restricts
    <3>3. c.allow \cap Users \subseteq
            audience_without_the_excluded(c.allow, c.excluded, roster) \cup c.excluded
      BY <1>0, FreezingKeepsTheNamed
    <3> HIDE DEF readers, o
    <3> QED
      BY <3>1, <3>2, <3>3
  <2> HIDE DEF readers, o
  <2>8. Verdict(c, restrict(o, c.excluded, readers))
    <3>1. restrict(o, c.excluded, readers) = restrict(o, facts[o].excluded \cup c.excluded, readers)
      BY <2>5
    <3> QED
      BY <2>2, <2>5, <2>6, <2>7, <3>1 DEF Verdict
  <2> QED
    BY <2>3, <2>8
<1>2. CASE fenced = {} /\ same # {}
  <2>1. jobs' = [jobs EXCEPT ![a] = Idle]
    BY <1>2 DEF Decide
  <2> QED
    BY <1>2, <2>1 DEF Verdict
<1>3. CASE fenced = {} /\ same = {} /\ a = Round /\ wider # {}
  <2> DEFINE o == Oldest(wider)
             readers == settled_readers(c, facts[o], roster)
             out == facts[o].excluded \cup c.excluded
  <2>1. o \in wider
    BY <1>0, <1>3, OldestIsOne
  <2>2. o \in Active /\ o \in Ids
    BY <1>0, <2>1
  <2>3. jobs' = [jobs EXCEPT ![a] = restrict(o, settled_excluded(c, facts[o]), readers)]
    BY <1>3 DEF Decide
  <2>4. facts[o].allow \in SUBSET Principals /\ facts[o].excluded \in SUBSET Principals
    BY <2>2, RowFields
  <2>5. /\ readers \subseteq Principals
        /\ out # {} => readers \subseteq People
        /\ (facts[o].allow \cup c.allow) \cap Users \subseteq readers \cup out
    <3>1. readers = audience_without_the_excluded(facts[o].allow \cup c.allow, out, roster)
      BY DEF settled_readers, settled_excluded
    <3>2. facts[o].allow \cup c.allow \in SUBSET Principals
      BY <1>0, <2>4
    <3> HIDE DEF readers, o, out
    <3> QED
      BY <1>0, <3>1, <3>2, FreezingKeepsTheNamed
  <2>6. settled_excluded(c, facts[o]) = out
    BY DEF settled_excluded
  <2> HIDE DEF readers, o
  <2>7. Verdict(c, restrict(o, out, readers))
    BY <2>2, <2>5 DEF Verdict
  <2> QED
    BY <2>3, <2>6, <2>7
<1>4. CASE fenced = {} /\ same = {} /\ ~(a = Round /\ wider # {})
  <2>1. jobs' = [jobs EXCEPT ![a] = [Idle EXCEPT !.step = "insert", !.claim = c]]
    BY <1>4 DEF Decide
  <2> QED
    BY <2>1 DEF Verdict
<1> QED
  BY <1>1, <1>2, <1>3, <1>4

---------------------------------------------------------------------------
(* Types.                                                                  *)

LEMMA Beginnings == NoClaim \in Claims /\ Idle \in Jobs /\ Absent \in Rows /\ 1 \in Ids
<1>1. Subject \in Principals
  BY RetellingAssumption DEF Principals
<1>2. NoClaim \in Claims
  BY <1>1 DEF NoClaim, Claims
<1>3. 1 \in Ids
  BY RetellingAssumption DEF Ids
<1>4. Idle \in Jobs
  BY <1>2, <1>3 DEF Idle, Jobs
<1>5. Absent \in Rows
  BY <1>1 DEF Absent, Rows
<1> QED
  BY <1>2, <1>3, <1>4, <1>5

\* A telling becomes a claim of the subject's, frozen if it keeps anybody out.
LEMMA TellingsBecomeClaims ==
    ASSUME TypeOK, NEW t \in Tellings
    PROVE  ClaimOf(t) \in Claims /\ Plain(ClaimOf(t))
<1> DEFINE frozen == audience_without_the_excluded(t.allow, t.excluded, roster)
<1>1. t.allow \in SUBSET Principals /\ t.excluded \in SUBSET Principals
  BY RetellingAssumption
<1>2. roster \in Rosters
  BY DEF TypeOK
<1>3. frozen \subseteq Principals /\ (t.excluded # {} => frozen \subseteq People)
  BY <1>1, <1>2, FreezingKeepsTheNamed
<1>9. ClaimOf(t) = [NoClaim EXCEPT !.allow = frozen, !.excluded = t.excluded]
  BY DEF ClaimOf
<1> HIDE DEF frozen
<1>4. ClaimOf(t) = [subject |-> Subject, sender |-> {Author}, allow |-> frozen,
                    excluded |-> t.excluded]
  BY <1>9 DEF NoClaim
<1>5. Subject \in Principals
  BY RetellingAssumption DEF Principals
<1>6. ClaimOf(t) \in Claims
  BY <1>1, <1>3, <1>4, <1>5 DEF Claims
<1>7. Plain(ClaimOf(t))
  BY <1>3, <1>4 DEF Plain, GlobalIsNotKeptOut
<1> QED
  BY <1>6, <1>7

LEMMA VerdictsAreJobs ==
    ASSUME TypeOK, NEW c \in Claims, NEW j, Verdict(c, j)
    PROVE  j \in Jobs
<1>1. CASE j = Idle
  BY <1>1, Beginnings
<1>2. CASE j = [Idle EXCEPT !.step = "insert", !.claim = c]
  BY <1>2, Beginnings DEF Jobs, Idle
<1>3. ASSUME NEW i \in Active, NEW readers \in SUBSET Principals,
             j = [Idle EXCEPT !.step = "chosen", !.claim = c, !.row = i,
                              !.add = facts[i].excluded \cup c.excluded, !.readers = readers]
      PROVE  j \in Jobs
  <2>1. i \in Ids
    BY DEF Active
  <2>2. facts[i].excluded \cup c.excluded \in SUBSET Principals
    BY <2>1, RowFields DEF Claims
  <2> QED
    BY <1>3, <2>1, <2>2 DEF Jobs, Idle
<1> QED
  BY <1>1, <1>2, <1>3 DEF Verdict

LEMMA JobFields ==
    ASSUME TypeOK, NEW a \in Actors
    PROVE  /\ jobs[a] \in Jobs /\ jobs[a].claim \in Claims /\ jobs[a].row \in Ids
           /\ jobs[a].step \in {"idle", "chosen", "read", "insert"}
           /\ jobs[a].add \in SUBSET Principals /\ jobs[a].readers \in SUBSET Principals
           /\ jobs[a].union \in SUBSET Principals
<1>1. jobs[a] \in Jobs
  BY DEF TypeOK
<1> QED
  BY <1>1 DEF Jobs

\* Every step keeps the types, whichever roads overlap.
\* What has crossed has crossed.
LEMMA CrossedStays ==
    ASSUME TypeOK, [Next]_vars PROVE crossed' \in BOOLEAN /\ (crossed => crossed')
<1>1. crossed \in BOOLEAN
  BY DEF TypeOK
<1>2. crossed' = crossed \/ Crosses
  BY DEF Next, vars, Say, Screen, Tell, Insert, ReadRow, WriteRow, Reshare, Join, Leave
<1>3. CASE crossed' = crossed
  BY <1>1, <1>3
<1>4. CASE Crosses
  BY <1>1, <1>4 DEF Crosses
<1> QED
  BY <1>2, <1>3, <1>4

LEMMA TypeStep == TypeOK /\ [Next]_vars => TypeOK'
<1> SUFFICES ASSUME TypeOK, [Next]_vars PROVE TypeOK'
  OBVIOUS
<1>0. crossed' \in BOOLEAN
  BY CrossedStays
<1>1. ASSUME NEW t \in Tellings, Say(t) PROVE TypeOK'
  <2>1. ClaimOf(t) \in Claims
    BY TellingsBecomeClaims
  <2>2. said' \in 0..MaxSaid
    BY <1>1, RetellingAssumption DEF Say, TypeOK
  <2> QED
    BY <1>0, <1>1, <2>1, <2>2 DEF Say, TypeOK
<1>2. ASSUME NEW a \in Actors, NEW c \in Claims, Decide(a, c) PROVE jobs' \in [Actors -> Jobs]
  <2>1. PICK j : Verdict(c, j) /\ jobs' = [jobs EXCEPT ![a] = j]
    BY <1>2, DecideGivesAVerdict
  <2>2. j \in Jobs
    BY <2>1, VerdictsAreJobs
  <2> QED
    BY <2>1, <2>2 DEF TypeOK
<1>3. ASSUME NEW c \in queue, Screen(c) PROVE TypeOK'
  <2>1. c \in Claims /\ Round \in Actors
    BY DEF TypeOK, Actors
  <2>2. jobs' \in [Actors -> Jobs]
    BY <1>2, <1>3, <2>1 DEF Screen
  <2> QED
    BY <1>0, <1>3, <2>2 DEF Screen, TypeOK
<1>4. ASSUME NEW a \in Turns, NEW t \in Tellings, Tell(a, t) PROVE TypeOK'
  <2>1. ClaimOf(t) \in Claims /\ a \in Actors
    BY TellingsBecomeClaims DEF Actors
  <2>2. jobs' \in [Actors -> Jobs]
    BY <1>2, <1>4, <2>1 DEF Tell
  <2>3. said' \in 0..MaxSaid
    BY <1>4, RetellingAssumption DEF Tell, TypeOK
  <2> QED
    BY <1>0, <1>4, <2>2, <2>3 DEF Tell, TypeOK
<1>5. ASSUME NEW a \in Actors, Insert(a) PROVE TypeOK'
  <2> DEFINE i == Oldest(Ids \ Active)
  <2>1. i \in Ids
    BY <1>5, OldestIsOne DEF Insert, Active
  <2> HIDE DEF i
  <2>2. PICK c \in Claims : c = jobs[a].claim
    BY JobFields
  <2>3. /\ facts' = [facts EXCEPT ![i] =
              [status |-> "active", subject |-> c.subject, sender |-> c.sender,
               allow |-> c.allow, excluded |-> c.excluded]]
        /\ kept' = [kept EXCEPT ![i] = c.excluded]
        /\ jobs' = [jobs EXCEPT ![a] = Idle]
        /\ UNCHANGED <<roster, queue, said, told, written, raced>>
    BY <1>5, <2>2 DEF Insert, i
  <2>4. [status |-> "active", subject |-> c.subject, sender |-> c.sender,
         allow |-> c.allow, excluded |-> c.excluded] \in Rows /\ c.excluded \in SUBSET Principals
    BY DEF Claims, Rows
  <2> QED
    BY <1>0, <2>1, <2>3, <2>4, Beginnings DEF TypeOK
<1>6. ASSUME NEW a \in Actors, ReadRow(a) PROVE TypeOK'
  <2>1. facts[jobs[a].row].excluded \cup jobs[a].add \in SUBSET Principals
    BY JobFields, RowFields
  <2>2. jobs \in [Actors -> Jobs]
    BY DEF TypeOK
  <2>3. jobs' \in [Actors -> Jobs]
    BY <1>6, <2>1, <2>2 DEF ReadRow, Jobs
  <2> QED
    BY <1>0, <1>6, <2>3 DEF ReadRow, TypeOK
<1>7. ASSUME NEW a \in Actors, WriteRow(a) PROVE TypeOK'
  <2>1. PICK j \in Jobs : j = jobs[a]
    BY JobFields
  <2>2. j.row \in Ids /\ j.readers \in SUBSET Principals /\ j.union \in SUBSET Principals
        /\ j.claim.excluded \in SUBSET Principals
    BY DEF Jobs, Claims
  <2>3. /\ facts' = [facts EXCEPT ![j.row] = [@ EXCEPT !.excluded = j.union, !.allow = j.readers]]
        /\ kept' = [kept EXCEPT ![j.row] = @ \cup j.claim.excluded]
        /\ jobs' = [jobs EXCEPT ![a] = Idle]
        /\ raced' \in {raced, raced \cup {j.row}}
        /\ UNCHANGED <<roster, queue, said, told, written>>
    BY <1>7, <2>1 DEF WriteRow, Races
  <2>4. [facts[j.row] EXCEPT !.excluded = j.union, !.allow = j.readers] \in Rows
    BY <2>2, RowFields DEF Rows
  <2>5. facts' \in [Ids -> Rows]
    BY <2>2, <2>3, <2>4 DEF TypeOK
  <2>6. kept' \in [Ids -> SUBSET Principals]
    BY <2>2, <2>3 DEF TypeOK
  <2> QED
    BY <1>0, <2>3, <2>5, <2>6, Beginnings DEF TypeOK
<1>8. ASSUME NEW i \in Ids, NEW r \in Reshares, Reshare(i, r) PROVE TypeOK'
  <2>1. r.allow \in SUBSET Principals /\ UNION r.excluded \in SUBSET Principals
    BY RetellingAssumption
  <2>2. PICK out \in SUBSET Principals :
          /\ facts' = [facts EXCEPT ![i] = [@ EXCEPT !.allow = r.allow, !.excluded = out]]
    <3>1. facts[i].excluded \in SUBSET Principals
      BY RowFields
    <3>2. CASE r.excluded = {}
      BY <1>8, <3>1, <3>2 DEF Reshare
    <3>3. CASE r.excluded # {}
      BY <1>8, <2>1, <3>3 DEF Reshare
    <3> QED
      BY <3>2, <3>3
  <2>3. [facts[i] EXCEPT !.allow = r.allow, !.excluded = out] \in Rows
    BY <2>1, RowFields DEF Rows
  <2>4. facts' \in [Ids -> Rows]
    BY <2>2, <2>3 DEF TypeOK
  <2>5. kept' \in [Ids -> SUBSET Principals]
    BY <1>8, <2>1 DEF Reshare, TypeOK
  <2> QED
    BY <1>0, <1>8, <2>4, <2>5 DEF Reshare, Races, TypeOK
<1>9. ASSUME NEW u \in Users, NEW g \in Groups \ {Global}, Join(u, g) \/ Leave(u, g) PROVE TypeOK'
  <2>1. roster' \in Rosters
    BY <1>9 DEF Join, Leave, TypeOK, Rosters
  <2> QED
    BY <1>0, <1>9, <2>1 DEF Join, Leave, TypeOK
<1>10. CASE UNCHANGED vars
  BY <1>10 DEF TypeOK, vars
<1> QED
  BY <1>1, <1>3, <1>4, <1>5, <1>6, <1>7, <1>8, <1>9, <1>10, RetellingAssumption DEF Next

LEMMA TypeInit == Init => TypeOK
<1> SUFFICES ASSUME Init PROVE TypeOK
  OBVIOUS
<1>1. crossed \in BOOLEAN
  BY DEF Init
<1>2. jobs \in [Actors -> Jobs] /\ facts \in [Ids -> Rows]
  BY Beginnings DEF Init
<1>3. said \in 0..MaxSaid
  BY RetellingAssumption DEF Init
<1> QED
  BY <1>1, <1>2, <1>3, RetellingAssumption DEF Init, TypeOK

\* Type correctness of the two roads: what a road has in flight is a claim of
\* one author and a row of the claim.
THEOREM TypesHold == Spec => []TypeOK
  BY TypeInit, TypeStep, PTL DEF Spec

\* readable_by_sql answers every reader of every row as can_read does, whatever
\* the roads did to the audiences before.
THEOREM QueriesAgree == Spec => []QueriesAgreeWithTheRowCheck
<1>1. QueriesAgreeWithTheRowCheck
  BY QueryIsTheRowCheck DEF QueriesAgreeWithTheRowCheck
<1> QED
  BY <1>1, PTL

\* The electorate of every row is made of its readers, and of all of them when
\* the row is not public, wherever folds and changes of audience left it.
THEOREM ElectorsRead == Spec => []ElectorsAreTheReaders
<1>1. TypeOK => ElectorsAreTheReaders
  <2> SUFFICES ASSUME TypeOK, NEW i \in Active, Global \notin facts[i].excluded
               PROVE  /\ \A u \in audience(facts[i], roster) :
                           u \in Users /\ can_read(facts[i], u, GroupsOf(u, roster))
                      /\ ~is_public(facts[i]) =>
                           \A u \in Users : can_read(facts[i], u, GroupsOf(u, roster))
                                              => u \in audience(facts[i], roster)
    BY DEF ElectorsAreTheReaders
  <2> DEFINE a == [subject |-> facts[i].subject, allow |-> facts[i].allow,
                   sender |-> facts[i].sender, excluded |-> facts[i].excluded]
  <2>1. i \in Ids
    BY DEF Active
  <2>2. {Author} \in Senders
    <3>1. Cardinality({Author}) = 1
      BY FS_Singleton
    <3> QED
      BY <3>1, RetellingAssumption DEF Senders, Principals
  <2>3. a \in Audiences
    BY <2>1, <2>2, RowFields DEF Audiences
  <2>4. /\ a.subject = facts[i].subject /\ a.allow = facts[i].allow
        /\ a.sender = facts[i].sender /\ a.excluded = facts[i].excluded
    OBVIOUS
  <2> HIDE DEF a
  <2>5. roster \in Rosters
    BY DEF TypeOK
  <2>6. /\ audience(a, roster) = audience(facts[i], roster) /\ is_public(a) = is_public(facts[i])
        /\ \A u : can_read(a, u, GroupsOf(u, roster)) = can_read(facts[i], u, GroupsOf(u, roster))
    BY <2>4 DEF audience, is_public, can_read
  <2> QED
    BY <2>3, <2>4, <2>5, <2>6, ElectorateIsTheReaders
<1> QED
  BY <1>1, TypesHold, PTL

---------------------------------------------------------------------------
(* Exclusions, whichever roads overlap.                                    *)

\* What a road has chosen or read of a row: the row is there, the claim's own
\* exclusions are in what it will add, and on a row nobody wrote since, in
\* the union with all the row excludes.
Holds(j) ==
    j.step \in {"chosen", "read"} =>
        /\ j.row \in Active
        /\ j.claim.excluded \subseteq j.add
        /\ j.step = "read" => j.add \subseteq j.union
        /\ j.step = "read" /\ j.row \notin raced => facts[j.row].excluded \subseteq j.union

FenceInv == FencesStand /\ \A a \in Actors : Holds(jobs[a])

LEMMA HoldsStand ==
    ASSUME FenceInv, UNCHANGED <<facts, raced>>, NEW a \in Actors, jobs'[a] = jobs[a]
    PROVE  Holds(jobs[a])'
  BY DEF FenceInv, Holds, Active

LEMMA DecideHolds ==
    ASSUME TypeOK, FenceInv, NEW a \in Actors, NEW c \in Claims, Decide(a, c),
           UNCHANGED <<facts, kept, raced>>
    PROVE  FenceInv'
<1>1. PICK j : Verdict(c, j) /\ jobs' = [jobs EXCEPT ![a] = j]
  BY DecideGivesAVerdict
<1>2. jobs'[a] = j /\ \A b \in Actors : b # a => jobs'[b] = jobs[b]
  BY <1>1 DEF TypeOK
<1>3. ASSUME Holds(jobs[a])' PROVE FenceInv'
  BY <1>2, <1>3, HoldsStand DEF FenceInv, FencesStand, Active
<1>4. ASSUME j.step \notin {"chosen", "read"} PROVE FenceInv'
  BY <1>2, <1>4, <1>3 DEF Holds
<1>5. ASSUME NEW i \in Active, NEW readers,
             j = [Idle EXCEPT !.step = "chosen", !.claim = c, !.row = i,
                              !.add = facts[i].excluded \cup c.excluded, !.readers = readers]
      PROVE  FenceInv'
  <2>1. /\ j.step = "chosen" /\ j.claim = c /\ j.row = i
        /\ j.add = facts[i].excluded \cup c.excluded
    BY <1>5 DEF Idle
  <2>2. Holds(jobs[a])'
    BY <1>2, <2>1 DEF Holds, Active
  <2> QED
    BY <1>3, <2>2
<1>6. CASE j = Idle
  <2>1. j.step = "idle"
    BY <1>6 DEF Idle
  <2> QED
    BY <1>4, <2>1
<1>7. CASE j = [Idle EXCEPT !.step = "insert", !.claim = c]
  <2>1. j.step = "insert"
    BY <1>7 DEF Idle
  <2> QED
    BY <1>4, <2>1
<1> QED
  BY <1>1, <1>5, <1>6, <1>7 DEF Verdict

LEMMA InsertHolds ==
    ASSUME TypeOK, FenceInv, NEW a \in Actors, Insert(a)
    PROVE  FenceInv'
<1> DEFINE i == Oldest(Ids \ Active)
<1>1. i \in Ids /\ i \notin Active
  BY OldestIsOne DEF Insert, Active
<1> HIDE DEF i
<1>2. PICK c \in Claims : c = jobs[a].claim
  BY JobFields
<1>3. /\ facts' = [facts EXCEPT ![i] =
            [status |-> "active", subject |-> c.subject, sender |-> c.sender,
             allow |-> c.allow, excluded |-> c.excluded]]
      /\ kept' = [kept EXCEPT ![i] = c.excluded]
      /\ jobs' = [jobs EXCEPT ![a] = Idle]
      /\ raced' = raced
  BY <1>2 DEF Insert, i
<1>4. /\ facts'[i].status = "active" /\ facts'[i].excluded = c.excluded /\ kept'[i] = c.excluded
      /\ \A k \in Ids : k # i => facts'[k] = facts[k] /\ kept'[k] = kept[k]
  BY <1>1, <1>3 DEF TypeOK
<1>5. Active \subseteq Active' /\ Active' \subseteq Active \cup {i} /\ Active \subseteq Ids
  BY <1>1, <1>4 DEF Active
<1>6. FencesStand'
  BY <1>3, <1>4, <1>5 DEF FenceInv, FencesStand
<1>7. ASSUME NEW b \in Actors PROVE Holds(jobs[b])'
  <2>1. jobs'[b] = IF b = a THEN Idle ELSE jobs[b]
    BY <1>3 DEF TypeOK
  <2>2. CASE b = a
    BY <2>1, <2>2 DEF Holds, Idle
  <2>3. CASE b # a
    <3>1. Holds(jobs[b]) /\ jobs'[b] = jobs[b]
      BY <2>1, <2>3 DEF FenceInv
    <3>2. jobs[b].row \in Active => facts'[jobs[b].row] = facts[jobs[b].row]
      BY <1>1, <1>4, <1>5
    <3> QED
      BY <1>3, <1>5, <3>1, <3>2 DEF Holds
  <2> QED
    BY <2>2, <2>3
<1> QED
  BY <1>6, <1>7 DEF FenceInv

LEMMA ReadRowHolds ==
    ASSUME TypeOK, FenceInv, NEW a \in Actors, ReadRow(a)
    PROVE  FenceInv'
<1>1. PICK j \in Jobs : j = jobs[a]
  BY JobFields
<1>2. /\ jobs' = [jobs EXCEPT ![a] = [j EXCEPT !.step = "read",
                                            !.union = facts[j.row].excluded \cup j.add]]
      /\ UNCHANGED <<facts, kept, raced>> /\ j.step = "chosen" /\ Holds(j)
  BY <1>1 DEF ReadRow, FenceInv
<1> DEFINE k == [j EXCEPT !.step = "read", !.union = facts[j.row].excluded \cup j.add]
<1>3. /\ k.step = "read" /\ k.union = facts[j.row].excluded \cup j.add
      /\ k.row = j.row /\ k.add = j.add /\ k.claim = j.claim
  BY DEF Jobs
<1> HIDE DEF k
<1>4. jobs'[a] = k /\ \A b \in Actors : b # a => jobs'[b] = jobs[b]
  BY <1>2 DEF TypeOK, k
<1>5. Holds(jobs[a])'
  BY <1>2, <1>3, <1>4 DEF Holds, Active
<1> QED
  BY <1>2, <1>4, <1>5, HoldsStand DEF FenceInv, FencesStand, Active

\* A row's audience is written: every road that had read it makes it a raced
\* row, and every other road reads it anew.
LEMMA WrittenHolds ==
    ASSUME TypeOK, FenceInv, NEW i \in Active, NEW others \in SUBSET Actors,
           Races(i, others), facts'[i].status = "active",
           \A k \in Ids : k # i => facts'[k] = facts[k],
           \A b \in Actors : (b \in others /\ jobs'[b] = jobs[b]) \/ jobs'[b] = Idle
    PROVE  Active' = Active /\ raced \subseteq raced' /\ \A b \in Actors : Holds(jobs[b])'
<1>1. Active' = Active /\ Active \subseteq Ids /\ raced \subseteq raced'
  BY DEF Active, Races
<1>2. ASSUME NEW b \in others, jobs'[b] = jobs[b] PROVE Holds(jobs[b])'
  <2>1. Holds(jobs[b])
    BY DEF FenceInv
  <2>2. CASE jobs[b].row = i
    BY <1>1, <1>2, <2>1, <2>2 DEF Holds, Races
  <2>3. CASE jobs[b].row # i
    BY <1>1, <1>2, <2>1, <2>3 DEF Holds
  <2> QED
    BY <2>2, <2>3
<1>3. ASSUME NEW b \in Actors, jobs'[b] = Idle PROVE Holds(jobs[b])'
  BY <1>3 DEF Holds, Idle
<1> QED
  BY <1>1, <1>2, <1>3

LEMMA WriteRowHolds ==
    ASSUME TypeOK, FenceInv, NEW a \in Actors, WriteRow(a)
    PROVE  FenceInv'
<1>1. PICK j \in Jobs : j = jobs[a]
  BY JobFields
<1>2. /\ facts' = [facts EXCEPT ![j.row] = [@ EXCEPT !.excluded = j.union, !.allow = j.readers]]
      /\ kept' = [kept EXCEPT ![j.row] = @ \cup j.claim.excluded]
      /\ jobs' = [jobs EXCEPT ![a] = Idle]
      /\ Races(j.row, Actors \ {a})
      /\ j.step = "read" /\ Holds(j)
  BY <1>1 DEF WriteRow, FenceInv
<1>3. j.row \in Active /\ j.row \in Ids /\ j.claim.excluded \subseteq j.union
  BY <1>2 DEF Holds, Active
<1>4. facts[j.row] \in Rows /\ facts[j.row].status = "active"
  BY <1>3, RowFields DEF Active
<1>5. facts'[j.row].status = "active" /\ facts'[j.row].excluded = j.union
  BY <1>2, <1>3, <1>4 DEF TypeOK, Rows
<1>6. kept'[j.row] = kept[j.row] \cup j.claim.excluded
  BY <1>2, <1>3 DEF TypeOK
<1>7. \A k \in Ids : k # j.row => facts'[k] = facts[k] /\ kept'[k] = kept[k]
  BY <1>2, <1>3 DEF TypeOK
<1>8. \A b \in Actors : (b \in Actors \ {a} /\ jobs'[b] = jobs[b]) \/ jobs'[b] = Idle
  BY <1>2 DEF TypeOK
<1>9. Active' = Active /\ raced \subseteq raced' /\ \A b \in Actors : Holds(jobs[b])'
  BY <1>2, <1>3, <1>5, <1>7, <1>8, WrittenHolds
<1>10. ASSUME NEW k \in Active' \ raced' PROVE kept'[k] \subseteq facts'[k].excluded
  <2>1. k \in Active \ raced /\ k \in Ids /\ kept[k] \subseteq facts[k].excluded
    BY <1>9, <1>10 DEF FenceInv, FencesStand, Active
  <2>2. CASE k = j.row
    BY <1>2, <1>3, <1>5, <1>6, <2>1, <2>2 DEF Holds
  <2>3. CASE k # j.row
    BY <1>7, <2>1, <2>3
  <2> QED
    BY <2>2, <2>3
<1> QED
  BY <1>9, <1>10 DEF FenceInv, FencesStand

LEMMA ReshareHolds ==
    ASSUME TypeOK, FenceInv, NEW i \in Ids, NEW r \in Reshares, Reshare(i, r)
    PROVE  FenceInv'
<1>1. i \in Active /\ Races(i, Actors) /\ jobs' = jobs
  BY DEF Reshare
<1>2. facts[i] \in Rows /\ facts[i].status = "active"
  BY <1>1, RowFields DEF Active
<1>3. PICK out, was :
        /\ facts' = [facts EXCEPT ![i] = [@ EXCEPT !.allow = r.allow, !.excluded = out]]
        /\ kept' = [kept EXCEPT ![i] = was]
        /\ (was = out \/ (was = kept[i] /\ out = facts[i].excluded))
  <2>1. CASE r.excluded = {}
    BY <2>1 DEF Reshare
  <2>2. CASE r.excluded # {}
    BY <2>2 DEF Reshare
  <2> QED
    BY <2>1, <2>2
<1>4. facts'[i].status = "active" /\ facts'[i].excluded = out /\ kept'[i] = was
  BY <1>2, <1>3 DEF TypeOK, Rows
<1>5. \A k \in Ids : k # i => facts'[k] = facts[k] /\ kept'[k] = kept[k]
  BY <1>3 DEF TypeOK
<1>6. Active' = Active /\ raced \subseteq raced' /\ \A b \in Actors : Holds(jobs[b])'
  BY <1>1, <1>4, <1>5, WrittenHolds
<1>7. ASSUME NEW k \in Active' \ raced' PROVE kept'[k] \subseteq facts'[k].excluded
  <2>1. k \in Active \ raced /\ k \in Ids /\ kept[k] \subseteq facts[k].excluded
    BY <1>6, <1>7 DEF FenceInv, FencesStand, Active
  <2> QED
    BY <1>3, <1>4, <1>5, <2>1
<1> QED
  BY <1>6, <1>7 DEF FenceInv, FencesStand

LEMMA FenceInvStep == TypeOK /\ FenceInv /\ [Next]_vars => FenceInv'
<1> SUFFICES ASSUME TypeOK, FenceInv, [Next]_vars PROVE FenceInv'
  OBVIOUS
<1>1. ASSUME UNCHANGED <<facts, jobs, kept, raced>> PROVE FenceInv'
  BY <1>1, HoldsStand DEF FenceInv, FencesStand, Active
<1>2. ASSUME NEW c \in queue, Screen(c) PROVE FenceInv'
  BY <1>2, DecideHolds DEF Screen, TypeOK, Actors
<1>3. ASSUME NEW a \in Turns, NEW t \in Tellings, Tell(a, t) PROVE FenceInv'
  BY <1>3, DecideHolds, TellingsBecomeClaims DEF Tell, Actors
<1>4. ASSUME NEW a \in Actors, Insert(a) \/ ReadRow(a) \/ WriteRow(a) PROVE FenceInv'
  BY <1>4, InsertHolds, ReadRowHolds, WriteRowHolds
<1>5. ASSUME NEW i \in Ids, NEW r \in Reshares, Reshare(i, r) PROVE FenceInv'
  BY <1>5, ReshareHolds
<1> QED
  BY <1>1, <1>2, <1>3, <1>4, <1>5 DEF Next, vars, Say, Join, Leave

\* restrict_to takes the union inside it: whoever somebody asked to keep a row
\* from stays on its list until it is lifted by name, whatever roads run side
\* by side, on every row no two writes of which overlapped.
THEOREM ExclusionsNarrow == Spec => []FencesStand
<1>1. Init => FenceInv
  BY DEF Init, FenceInv, FencesStand, Active, Absent, Holds, Idle
<1>2. FenceInv => FencesStand
  BY DEF FenceInv
<1> QED
  BY <1>1, <1>2, FenceInvStep, TypesHold, PTL DEF Spec

---------------------------------------------------------------------------
(* The invariant is kept when no road decides over another's shoulder.     *)

LEMMA InitIInv == Init => IInv
<1> SUFFICES ASSUME Init PROVE IInv
  OBVIOUS
<1>1. TypeOK
  BY TypeInit
<1>2. QueueInv /\ Heard
  BY DEF Init, QueueInv, Heard
<1>3. \A a \in Actors : jobs[a].step = "idle"
  BY DEF Init, Idle
<1>4. OneRoad /\ PendingInv
  BY <1>3 DEF OneRoad, PendingInv, Pending
<1>5. RowsInv
  BY DEF Init, RowsInv, Fenced, Absent
<1> QED
  BY <1>1, <1>2, <1>4, <1>5 DEF IInv

\* A road that decides with nothing else in flight has one job after it, and
\* whoever the claim names has a place.
LEMMA DecideStep ==
    ASSUME IInv, AllIdle, NEW a \in Actors, NEW c \in Claims, Plain(c), Decide(a, c),
           told' = told \cup (c.allow \cap Users), UNCHANGED <<roster, facts, kept, written>>
    PROVE  OneRoad' /\ RowsInv' /\ PendingInv' /\ Heard'
<1>0. TypeOK
  BY DEF IInv
<1>1. PICK j : Verdict(c, j) /\ jobs' = [jobs EXCEPT ![a] = j]
  BY <1>0, DecideGivesAVerdict
<1>2. \A b \in Actors : jobs'[b] = IF b = a THEN j ELSE jobs[b]
  BY <1>0, <1>1 DEF TypeOK
<1>3. \A b \in Actors : b # a => jobs'[b].step = "idle"
  BY <1>2 DEF AllIdle
<1>4. jobs'[a] = j
  BY <1>2
<1>5. OneRoad'
  BY <1>3 DEF OneRoad
<1>6. RowsInv'
  BY DEF IInv, RowsInv, Fenced
<1>7. Active' = Active /\ Active \subseteq Ids /\ \A i \in Ids : facts[i].subject = Subject
  BY DEF Active, IInv, RowsInv, Fenced
<1>8. c.subject = Subject
  BY DEF Plain
<1>9. ASSUME NEW u \in told PROVE Placed(u)'
  <2>1. (\E i \in Ids : u \in kept[i]) \/ (\E i \in Active : u \in {Subject} \cup facts[i].allow)
    BY DEF IInv, Heard, Placed, AllIdle
  <2> QED
    BY <1>7, <2>1 DEF Placed
<1>10. PendingInv' /\ \A u \in c.allow \cap Users : Placed(u)'
  <2>1. ASSUME j = Idle, NEW i \in Active, same_as_row(c, facts[i])
        PROVE  PendingInv' /\ \A u \in c.allow \cap Users : Placed(u)'
    <3>1. \A b \in Actors : jobs'[b].step = "idle"
      BY <1>3, <1>4, <2>1 DEF Idle
    <3>2. {c.subject} \cup c.allow = {facts[i].subject} \cup facts[i].allow
      BY <2>1 DEF same_as_row, same_read_set_as, reader_set
    <3>3. \A u \in c.allow : u \in {Subject} \cup facts'[i].allow
      BY <1>7, <3>2
    <3> QED
      BY <1>7, <3>1, <3>3 DEF PendingInv, Pending, Placed
  <2>2. ASSUME j = [Idle EXCEPT !.step = "insert", !.claim = c]
        PROVE  PendingInv' /\ \A u \in c.allow \cap Users : Placed(u)'
    <3>1. jobs'[a].step = "insert" /\ jobs'[a].claim = c
      BY <1>4, <2>2 DEF Idle
    <3>2. PendingInv'
      BY <1>3, <3>1 DEF PendingInv, Pending, Plain
    <3> QED
      BY <3>1, <3>2 DEF Placed
  <2>3. ASSUME NEW i \in Active, NEW readers \in SUBSET Principals,
               j = [Idle EXCEPT !.step = "chosen", !.claim = c, !.row = i,
                                !.add = facts[i].excluded \cup c.excluded, !.readers = readers],
               facts[i].excluded \cup c.excluded # {} => readers \subseteq People,
               facts[i].allow \cap Users \subseteq readers \cup facts[i].excluded \cup c.excluded,
               c.allow \cap Users \subseteq
                 {c.subject} \cup readers \cup facts[i].excluded \cup c.excluded
        PROVE  PendingInv' /\ \A u \in c.allow \cap Users : Placed(u)'
    <3>1. /\ jobs'[a].step = "chosen" /\ jobs'[a].claim = c /\ jobs'[a].row = i
          /\ jobs'[a].add = facts[i].excluded \cup c.excluded /\ jobs'[a].readers = readers
      BY <1>4, <2>3 DEF Idle
    <3>2. Pending(jobs[a])'
      BY <1>7, <2>3, <3>1 DEF Pending, Plain
    <3>3. PendingInv'
      BY <1>3, <3>2 DEF PendingInv, Pending
    <3>4. ASSUME NEW u \in c.allow \cap Users PROVE Placed(u)'
      <4>1. CASE u = Subject
        BY <1>7, <4>1 DEF Placed
      <4>2. CASE u # Subject
        <5>1. u \in jobs'[a].readers \cup jobs'[a].add
          BY <1>8, <2>3, <3>1, <4>2
        <5> QED
          BY <3>1, <5>1 DEF Placed
      <4> QED
        BY <4>1, <4>2
    <3> QED
      BY <3>3, <3>4
  <2> QED
    BY <1>1, <2>1, <2>2, <2>3 DEF Verdict
<1>11. Heard'
  BY <1>9, <1>10 DEF Heard
<1> QED
  BY <1>5, <1>6, <1>10, <1>11

\* The job of a road that ends leaves every road idle.
LEMMA RoadEnds ==
    ASSUME IInv, NEW a \in Actors, jobs[a].step # "idle", jobs' = [jobs EXCEPT ![a] = Idle]
    PROVE  (\A b \in Actors : jobs'[b].step = "idle") /\ \A b \in Actors : b # a => jobs[b].step = "idle"
<1>1. \A b \in Actors : b # a => jobs[b].step = "idle"
  BY DEF IInv, OneRoad
<1>2. \A b \in Actors : jobs'[b] = IF b = a THEN Idle ELSE jobs[b]
  BY DEF IInv, TypeOK
<1> QED
  BY <1>1, <1>2 DEF Idle

LEMMA InsertStep ==
    ASSUME IInv, NEW a \in Actors, Insert(a)
    PROVE  OneRoad' /\ RowsInv' /\ PendingInv' /\ Heard'
<1> DEFINE i == Oldest(Ids \ Active)
<1>0. TypeOK
  BY DEF IInv
<1>1. i \in Ids /\ i \notin Active
  BY OldestIsOne DEF Insert, Active
<1> HIDE DEF i
<1>2. PICK c \in Claims : c = jobs[a].claim
  BY <1>0, JobFields
<1>3. /\ facts' = [facts EXCEPT ![i] =
            [status |-> "active", subject |-> c.subject, sender |-> c.sender,
             allow |-> c.allow, excluded |-> c.excluded]]
      /\ kept' = [kept EXCEPT ![i] = c.excluded]
      /\ jobs' = [jobs EXCEPT ![a] = Idle]
      /\ UNCHANGED <<roster, queue, said, told, written>>
      /\ jobs[a].step = "insert"
  BY <1>2 DEF Insert, i
<1>4. /\ \A b \in Actors : jobs'[b].step = "idle"
      /\ \A b \in Actors : b # a => jobs[b].step = "idle"
  BY <1>3, RoadEnds
<1>5. OneRoad' /\ PendingInv'
  BY <1>4 DEF OneRoad, PendingInv, Pending
<1>6. Plain(c)
  BY <1>2, <1>3 DEF IInv, PendingInv, Pending
<1>7. /\ facts'[i].status = "active" /\ facts'[i].subject = c.subject /\ facts'[i].allow = c.allow
      /\ facts'[i].excluded = c.excluded /\ kept'[i] = c.excluded
      /\ \A k \in Ids : k # i => facts'[k] = facts[k] /\ kept'[k] = kept[k]
  BY <1>0, <1>1, <1>3 DEF TypeOK
<1>8. RowsInv'
  <2> SUFFICES ASSUME NEW k \in Ids PROVE Fenced(k)'
    BY DEF RowsInv
  <2>1. CASE k = i
    BY <1>6, <1>7, <2>1 DEF Fenced, Plain
  <2>2. CASE k # i
    BY <1>3, <1>7, <2>2 DEF Fenced, IInv, RowsInv
  <2> QED
    BY <2>1, <2>2
<1>9. facts[i].status = "absent" /\ kept[i] = {}
  BY <1>0, <1>1, RowFields DEF Active, IInv, RowsInv, Fenced
<1>10. Heard'
  <2> SUFFICES ASSUME NEW u \in told PROVE Placed(u)'
    BY <1>3 DEF Heard
  <2>1. Active' = Active \cup {i}
    BY <1>1, <1>7 DEF Active
  <2>2. Placed(u)
    BY DEF IInv, Heard
  <2>3. CASE \E k \in Ids : u \in kept[k]
    BY <1>7, <1>9, <2>3 DEF Placed
  <2>4. CASE \E k \in Active : u \in {Subject} \cup facts[k].allow
    BY <1>1, <1>7, <2>1, <2>4 DEF Placed, Active
  <2>5. CASE \E b \in Actors : jobs[b].step = "insert" /\ u \in {Subject} \cup jobs[b].claim.allow
    <3>1. u \in {Subject} \cup c.allow
      BY <1>2, <1>4, <2>5
    <3> QED
      BY <1>7, <2>1, <3>1 DEF Placed
  <2>6. CASE \E b \in Actors : jobs[b].step \in {"chosen", "read"} /\ u \in jobs[b].readers \cup jobs[b].add
    BY <1>3, <1>4, <2>6
  <2> QED
    BY <2>2, <2>3, <2>4, <2>5, <2>6 DEF Placed
<1> QED
  BY <1>5, <1>8, <1>10

LEMMA ReadRowStep ==
    ASSUME IInv, NEW a \in Actors, ReadRow(a)
    PROVE  OneRoad' /\ RowsInv' /\ PendingInv' /\ Heard'
<1>1. /\ jobs[a].step = "chosen"
      /\ jobs' = [jobs EXCEPT ![a] = [@ EXCEPT !.step = "read", !.union = facts[jobs[a].row].excluded \cup jobs[a].add]]
      /\ UNCHANGED <<roster, facts, queue, said, kept, told, written>>
  BY DEF ReadRow
<1>2. TypeOK /\ jobs[a] \in Jobs /\ Pending(jobs[a])
  BY JobFields DEF IInv, PendingInv
<1>3. /\ jobs'[a].step = "read" /\ jobs'[a].union = facts[jobs[a].row].excluded \cup jobs[a].add
      /\ jobs'[a].claim = jobs[a].claim /\ jobs'[a].row = jobs[a].row
      /\ jobs'[a].add = jobs[a].add /\ jobs'[a].readers = jobs[a].readers
      /\ \A b \in Actors : b # a => jobs'[b] = jobs[b]
  BY <1>1, <1>2 DEF TypeOK, Jobs
<1>4. OneRoad'
  BY <1>1, <1>3 DEF IInv, OneRoad
<1>5. RowsInv'
  BY <1>1 DEF IInv, RowsInv, Fenced
<1>6. Active' = Active
  BY <1>1 DEF Active
<1>7. Pending(jobs[a])'
  BY <1>1, <1>2, <1>3, <1>6 DEF Pending, Plain
<1>8. ASSUME NEW b \in Actors, b # a PROVE Pending(jobs[b])'
  BY <1>1, <1>3, <1>6, <1>8 DEF IInv, PendingInv, Pending, Plain
<1>9. Heard'
  <2> SUFFICES ASSUME NEW u \in told PROVE Placed(u)'
    BY <1>1 DEF Heard
  <2>1. Placed(u)
    BY DEF IInv, Heard
  <2>2. CASE \E b \in Actors : jobs[b].step = "insert" /\ u \in {Subject} \cup jobs[b].claim.allow
    BY <1>1, <1>3, <2>2 DEF Placed
  <2>3. CASE \E b \in Actors : jobs[b].step \in {"chosen", "read"} /\ u \in jobs[b].readers \cup jobs[b].add
    BY <1>1, <1>3, <2>3 DEF Placed
  <2>4. CASE (\E i \in Ids : u \in kept[i]) \/ (\E i \in Active : u \in {Subject} \cup facts[i].allow)
    BY <1>1, <1>6, <2>4 DEF Placed
  <2> QED
    BY <2>1, <2>2, <2>3, <2>4 DEF Placed
<1> QED
  BY <1>4, <1>5, <1>7, <1>8, <1>9 DEF PendingInv

LEMMA WriteRowStep ==
    ASSUME IInv, NEW a \in Actors, WriteRow(a)
    PROVE  OneRoad' /\ RowsInv' /\ PendingInv' /\ Heard'
<1>0. TypeOK
  BY DEF IInv
<1>1. PICK j \in Jobs : j = jobs[a]
  BY <1>0, JobFields
<1>2. /\ facts' = [facts EXCEPT ![j.row] = [@ EXCEPT !.excluded = j.union, !.allow = j.readers]]
      /\ kept' = [kept EXCEPT ![j.row] = @ \cup j.claim.excluded]
      /\ jobs' = [jobs EXCEPT ![a] = Idle]
      /\ UNCHANGED <<roster, queue, said, told, written>>
      /\ j.step = "read"
  BY <1>1 DEF WriteRow
<1>3. Pending(j) /\ j.row \in Ids
  BY <1>0, <1>1, JobFields DEF IInv, PendingInv
<1>4. PICK i \in Ids : i = j.row
  BY <1>3
<1>5. /\ Plain(j.claim) /\ i \in Active /\ j.union = j.add
      /\ j.add = facts[i].excluded \cup j.claim.excluded
      /\ j.add # {} => j.readers \subseteq People
      /\ facts[i].allow \cap Users \subseteq j.readers \cup j.add
  BY <1>2, <1>3, <1>4 DEF Pending
<1>6. /\ \A b \in Actors : jobs'[b].step = "idle"
      /\ \A b \in Actors : b # a => jobs[b].step = "idle"
  BY <1>1, <1>2, RoadEnds
<1>7. OneRoad' /\ PendingInv'
  BY <1>6 DEF OneRoad, PendingInv, Pending
<1>8. /\ facts'[i].status = "active" /\ facts'[i].subject = facts[i].subject
      /\ facts'[i].allow = j.readers
      /\ facts'[i].excluded = j.add /\ kept'[i] = kept[i] \cup j.claim.excluded
      /\ \A k \in Ids : k # i => facts'[k] = facts[k] /\ kept'[k] = kept[k]
  <2>1. facts[i] \in Rows /\ facts[i].status = "active"
    BY <1>0, <1>5, RowFields DEF Active
  <2> QED
    BY <1>0, <1>2, <1>4, <1>5, <2>1 DEF TypeOK, Rows
<1>9. Fenced(i)
  BY DEF IInv, RowsInv
<1>10. kept'[i] = j.add
  BY <1>5, <1>8, <1>9 DEF Fenced
<1>11. Fenced(i)'
  BY <1>2, <1>5, <1>8, <1>9, <1>10 DEF Fenced, Plain
<1>12. RowsInv'
  <2> SUFFICES ASSUME NEW k \in Ids, k # i PROVE Fenced(k)'
    BY <1>11 DEF RowsInv
  <2> QED
    BY <1>2, <1>8 DEF Fenced, IInv, RowsInv
<1>13. Heard'
  <2> SUFFICES ASSUME NEW u \in told PROVE Placed(u)'
    BY <1>2 DEF Heard
  <2>0. u \in Users
    BY <1>0 DEF TypeOK
  <2>1. Active' = Active
    BY <1>5, <1>8 DEF Active
  <2>2. Placed(u)
    BY DEF IInv, Heard
  <2>3. CASE \E k \in Ids : u \in kept[k]
    BY <1>8, <2>3 DEF Placed
  <2>4. CASE u \in j.readers \cup j.add
    BY <1>5, <1>8, <1>10, <2>1, <2>4 DEF Placed
  <2>5. ASSUME NEW k \in Active, u \in {Subject} \cup facts[k].allow PROVE Placed(u)'
    <3>1. CASE k # i \/ u = Subject
      BY <1>8, <2>1, <2>5, <3>1 DEF Placed, Active
    <3>2. CASE k = i /\ u # Subject
      BY <1>5, <2>0, <2>4, <2>5, <3>2
    <3> QED
      BY <3>1, <3>2
  <2>6. CASE \E b \in Actors : jobs[b].step = "insert" /\ u \in {Subject} \cup jobs[b].claim.allow
    BY <1>1, <1>2, <1>6, <2>6
  <2>7. CASE \E b \in Actors : jobs[b].step \in {"chosen", "read"} /\ u \in jobs[b].readers \cup jobs[b].add
    BY <1>1, <1>6, <2>4, <2>7
  <2> QED
    BY <2>2, <2>3, <2>5, <2>6, <2>7 DEF Placed
<1> QED
  BY <1>7, <1>12, <1>13

LEMMA ReshareStep ==
    ASSUME IInv, AllIdle, NEW i \in Ids, NEW r \in Reshares, Reshare(i, r)
    PROVE  OneRoad' /\ RowsInv' /\ PendingInv' /\ Heard'
<1> DEFINE out == IF r.excluded = {} THEN facts[i].excluded ELSE UNION r.excluded
<1>0. TypeOK /\ Fenced(i)
  BY DEF IInv, RowsInv
<1>1. facts[i] \in Rows /\ facts[i].status = "active"
  BY <1>0, RowFields DEF Reshare, Active
<1>2. /\ facts'[i].status = "active" /\ facts'[i].subject = facts[i].subject
      /\ facts'[i].excluded = out /\ kept'[i] = out
      /\ \A k \in Ids : k # i => facts'[k] = facts[k] /\ kept'[k] = kept[k]
  BY <1>0, <1>1 DEF Reshare, TypeOK, Rows, Fenced
<1> HIDE DEF out
<1>3. jobs' = jobs /\ told' = {} /\ written' = written \cup {i}
  BY DEF Reshare
<1>4. OneRoad' /\ PendingInv' /\ Heard'
  BY <1>3 DEF AllIdle, OneRoad, PendingInv, Pending, Heard
<1>5. GlobalIsNotKeptOut => Global \notin out
  BY <1>0 DEF out, GlobalIsNotKeptOut, Fenced
<1>6. Fenced(i)'
  BY <1>0, <1>2, <1>3, <1>5 DEF Fenced
<1>7. ASSUME NEW k \in Ids, k # i PROVE Fenced(k)'
  BY <1>2, <1>3, <1>7 DEF Fenced, IInv, RowsInv
<1> QED
  BY <1>4, <1>6, <1>7 DEF RowsInv

LEMMA IInvStep == IInv /\ [Next]_vars /\ ~crossed' => IInv'
<1> SUFFICES ASSUME IInv, [Next]_vars, ~crossed' PROVE IInv'
  OBVIOUS
<1>a. ASSUME Crosses PROVE AllIdle
  BY <1>a DEF Crosses
<1>0. TypeOK /\ TypeOK'
  BY TypeStep DEF IInv
<1> DEFINE Rest == OneRoad /\ RowsInv /\ PendingInv /\ Heard
<1>1. ASSUME UNCHANGED <<facts, jobs, kept, told, written>> PROVE Rest'
  BY <1>1 DEF IInv, Rest, OneRoad, RowsInv, Fenced, PendingInv, Pending, Plain, Heard, Placed, Active
<1>2. ASSUME NEW t \in Tellings, Say(t) PROVE IInv'
  <2>1. Plain(ClaimOf(t))
    BY <1>0, TellingsBecomeClaims
  <2>2. QueueInv'
    BY <1>2, <2>1 DEF Say, IInv, QueueInv, Plain
  <2>3. Rest'
    BY <1>1, <1>2 DEF Say
  <2> QED
    BY <1>0, <2>2, <2>3 DEF IInv, Rest
<1>3. ASSUME NEW c \in queue, Screen(c) PROVE IInv'
  <2>1. c \in Claims /\ Plain(c) /\ Round \in Actors /\ AllIdle
    BY <1>0, <1>3, <1>a DEF TypeOK, IInv, QueueInv, Actors, Screen
  <2>2. Rest'
    BY <1>3, <2>1, DecideStep DEF Screen, Rest
  <2>3. QueueInv'
    BY <1>3 DEF Screen, IInv, QueueInv, Plain
  <2> QED
    BY <1>0, <2>2, <2>3 DEF IInv, Rest
<1>4. ASSUME NEW a \in Turns, NEW t \in Tellings, Tell(a, t) PROVE IInv'
  <2>1. ClaimOf(t) \in Claims /\ Plain(ClaimOf(t)) /\ a \in Actors /\ AllIdle
    BY <1>0, <1>4, <1>a, TellingsBecomeClaims DEF Actors, Tell
  <2>2. Rest'
    BY <1>4, <2>1, DecideStep DEF Tell, Rest
  <2>3. QueueInv'
    BY <1>4 DEF Tell, IInv, QueueInv, Plain
  <2> QED
    BY <1>0, <2>2, <2>3 DEF IInv, Rest
<1>5. ASSUME NEW a \in Actors, Insert(a) \/ ReadRow(a) \/ WriteRow(a) PROVE IInv'
  <2>1. Rest'
    BY <1>5, InsertStep, ReadRowStep, WriteRowStep DEF Rest
  <2>2. QueueInv'
    BY <1>5 DEF Insert, ReadRow, WriteRow, IInv, QueueInv, Plain
  <2> QED
    BY <1>0, <2>1, <2>2 DEF IInv, Rest
<1>6. ASSUME NEW i \in Ids, NEW r \in Reshares, Reshare(i, r) PROVE IInv'
  <2>1. AllIdle
    BY <1>6, <1>a DEF Reshare
  <2>2. Rest'
    BY <1>6, <2>1, ReshareStep DEF Rest
  <2>3. QueueInv'
    BY <1>6 DEF Reshare, IInv, QueueInv, Plain
  <2> QED
    BY <1>0, <2>2, <2>3 DEF IInv, Rest
<1>7. ASSUME UNCHANGED <<facts, queue, jobs, kept, told, written>> PROVE IInv'
  <2>1. QueueInv'
    BY <1>7 DEF IInv, QueueInv, Plain
  <2> QED
    BY <1>0, <1>1, <1>7, <2>1 DEF IInv, Rest
<1>8. ASSUME NEW u \in Users, NEW g \in Groups \ {Global}, Join(u, g) \/ Leave(u, g) PROVE IInv'
  BY <1>7, <1>8 DEF Join, Leave
<1>9. CASE UNCHANGED vars
  BY <1>7, <1>9 DEF vars
<1> QED
  BY <1>2, <1>3, <1>4, <1>5, <1>6, <1>8, <1>9, RetellingAssumption DEF Next

LEMMA IInvHolds == Spec => [](~crossed => IInv)
<1>1. Init => (~crossed => IInv)
  BY InitIInv
<1>2. TypeOK /\ (~crossed => IInv) /\ [Next]_vars => (~crossed => IInv)'
  BY CrossedStays, IInvStep
<1> QED
  BY <1>1, <1>2, TypesHold, PTL DEF Spec

\* Carrying an exclusion freezes the readers (audience_without_the_excluded),
\* so that nobody comes to read a fenced row by joining a group, until somebody
\* decided beside a road that was still to write.
THEOREM JoiningOpensNothing == Spec => JoiningReachesNoFencedFact
<1>1. ASSUME IInv, TypeOK',
             NEW u \in Users, NEW g \in Groups, NEW i \in Ids, Join(u, g), i \in Active \ written,
             facts[i].excluded # {}, can_read(facts[i], u, GroupsOf(u, roster'))
      PROVE  can_read(facts[i], u, GroupsOf(u, roster))
  <2>1. TypeOK /\ Fenced(i) /\ facts[i].status = "active"
    BY <1>1 DEF IInv, RowsInv, Active
  <2>2. facts[i].subject = Subject /\ facts[i].allow \subseteq People /\ facts[i].sender = {Author}
    BY <1>1, <2>1, RowFields DEF Fenced
  <2>3. {facts[i].subject} \cup facts[i].allow \cup facts[i].sender \subseteq Users \cup {Removed}
    BY <2>2, RetellingAssumption DEF People
  <2>4. \A h \in Groups : roster[h] \subseteq roster'[h]
    BY <1>1, <2>1 DEF Join, TypeOK, Rosters
  <2>5. GroupsOf(u, roster) \subseteq GroupsOf(u, roster') /\ GroupsOf(u, roster') \in SUBSET Groups
    BY <2>4 DEF GroupsOf
  <2> QED
    BY <1>1, <2>3, <2>5, JoiningGrantsNothing
<1>2. (~crossed => IInv) /\ TypeOK' /\ [Next]_vars =>
        [\A u \in Users, g \in Groups, i \in Ids :
           /\ Join(u, g)
           /\ i \in Active \ written /\ ~crossed
           /\ facts[i].excluded # {}
           /\ can_read(facts[i], u, GroupsOf(u, roster'))
           => can_read(facts[i], u, GroupsOf(u, roster))]_vars
  BY <1>1
<1> QED
  BY <1>2, IInvHolds, TypesHold, PTL DEF Spec, JoiningReachesNoFencedFact

\* Folding a claim takes the union of the audiences: whoever a telling named
\* and nobody keeps out reads a row of the claim once the roads are idle, if
\* nobody decided beside a road that was still to write.
THEOREM EveryoneNamedReads ==
    ASSUME GlobalIsNotKeptOut PROVE Spec => []EveryRoomIsHeard
<1>1. ASSUME IInv, AllIdle, NEW u \in told,
             \A i \in Ids : \A p \in kept[i] : u \notin Expand(p, roster)
      PROVE  \E i \in Active : can_read(facts[i], u, GroupsOf(u, roster))
  <2>1. TypeOK /\ u \in Users
    BY <1>1 DEF IInv, TypeOK
  <2>2. \A i \in Ids : u \notin kept[i]
    <3>1. u \in Expand(u, roster)
      BY <2>1, AclAssumption DEF Expand
    <3> QED
      BY <1>1, <3>1
  <2>3. Placed(u)
    BY <1>1 DEF IInv, Heard
  <2>4. PICK i \in Active : u \in {Subject} \cup facts[i].allow
    BY <1>1, <2>2, <2>3 DEF Placed, AllIdle
  <2>5. i \in Ids /\ Fenced(i)
    BY <1>1 DEF Active, IInv, RowsInv
  <2>6. ASSUME NEW p \in facts[i].excluded
        PROVE  ~principal_matches(p, u, GroupsOf(u, roster))
    <3>1. p \in kept[i] /\ p # Global /\ p \in Principals
      BY <2>1, <2>5, RowFields DEF Fenced
    <3>2. u \notin Expand(p, roster)
      BY <1>1, <2>5, <3>1
    <3>3. roster \in Rosters
      BY <2>1 DEF TypeOK
    <3> QED
      BY <2>1, <3>1, <3>2, <3>3, ExpandIsWhoItMatches
  <2>7. u \in {facts[i].subject} \cup facts[i].allow \cup facts[i].sender
    BY <2>4, <2>5 DEF Fenced
  <2>8. principal_matches(u, u, GroupsOf(u, roster))
    BY DEF principal_matches
  <2> QED
    BY <2>6, <2>7, <2>8 DEF can_read
<1>2. ASSUME NEW u, u \notin UNION {Expand(p, roster) : p \in UNION {kept[i] : i \in Ids}}
      PROVE  \A i \in Ids : \A p \in kept[i] : u \notin Expand(p, roster)
  BY <1>2, Zenon
<1>3. (~crossed => IInv) => EveryRoomIsHeard
  BY <1>1, <1>2 DEF EveryRoomIsHeard
<1> QED
  BY <1>3, IInvHolds, PTL
============================================================================
