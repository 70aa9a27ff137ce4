------------------------------- MODULE Acl -------------------------------
(***************************************************************************)
(* Who may read a fact, who may change it, and how two audiences compare:   *)
(* the pure predicates of acl.rs, the audience arithmetic of ingest.rs and  *)
(* the fold rules of capture.rs.  A principal is a user or a group; a       *)
(* region's reporter ("sender") is an Option in the code and a set of at    *)
(* most one principal here.  A fact row or a claim carries its audience in  *)
(* the fields subject, allow, sender and excluded.  A roster maps every     *)
(* group to its members of the day (enrollment::members_for).               *)
(***************************************************************************)
EXTENDS FiniteSets, Integers

CONSTANTS Users,    \* the people enrolled
          Groups,   \* the groups, the builtin one among them
          Global,   \* the builtin group everybody is in
          Removed   \* the author a forgotten person's facts are left with

\* No user is a group, and nobody can enrol as the forgotten author.
ASSUME AclAssumption ==
    /\ Global \in Groups
    /\ Users \cap Groups = {}
    /\ Removed \notin Users \cup Groups

Principals == Users \cup Groups \cup {Removed}

Rosters == [Groups -> SUBSET Users]

Senders == {s \in SUBSET Principals : Cardinality(s) <= 1}

Audiences == [subject : Principals, allow : SUBSET Principals, sender : Senders,
              excluded : SUBSET Principals]

GroupsOf(u, roster) == {g \in Groups : u \in roster[g]}

---------------------------------------------------------------------------
(* Reading.                                                                *)

principal_matches(p, u, groups) == p = u \/ p = Global \/ p \in groups

\* The exclusion is subtracted first; each of the other three terms grants.
can_read(a, u, groups) ==
    /\ \A p \in a.excluded : ~principal_matches(p, u, groups)
    /\ \E p \in {a.subject} \cup a.allow \cup a.sender : principal_matches(p, u, groups)

\* The principals a reader answers to, the other side of principal_matches.
reader_principals(u, groups) == {Global, u} \cup groups

readable_by_sql_NoExclusion(a, principals) ==
    ({a.subject} \cup a.sender \cup a.allow) \cap principals # {}

\* The predicate the store's queries evaluate, bound to reader_principals.
readable_by_sql(a, principals) ==
    /\ a.excluded \cap principals = {}
    /\ \/ a.subject \in principals
       \/ a.sender \cap principals # {}
       \/ a.allow \cap principals # {}

is_public(a) == Global \in {a.subject} \cup a.allow \cup a.sender

\* The comparable form of "who reads this"; groups are not expanded.  The
\* code's `not:` prefix keeps the excluded apart from the principals that
\* grant, which the second field does here.
reader_set(subject, allow, sender, excluded) ==
    [grants |-> {subject} \cup allow \cup sender, not |-> excluded]

Expand(p, roster) == IF p \in Groups THEN roster[p] ELSE {p}

audience_TheExcludedByName(a, roster) ==
    (UNION {Expand(p, roster) : p \in ({a.subject} \cup a.allow \cup a.sender) \ {Global, Removed}})
        \ a.excluded

\* The finite electorate of a forget request: `global` and the forgotten
\* author are dropped before the groups are expanded, the excluded after.
audience(a, roster) ==
    (UNION {Expand(p, roster) : p \in ({a.subject} \cup a.allow \cup a.sender) \ {Global, Removed}})
        \ (UNION {Expand(p, roster) : p \in a.excluded})

---------------------------------------------------------------------------
(* Authority.                                                              *)

can_delete(a, caller, is_admin) == is_admin \/ (caller \in Users /\ a.sender = {caller})

sender_is_subject(p, u, groups) == p = u \/ (p # Global /\ p \in groups)

sender_may_rewrite(a, u, groups) ==
    \E p \in {a.subject} \cup a.sender : sender_is_subject(p, u, groups)

sender_may_retract(a, u, groups) ==
    \E p \in {a.subject} \cup a.sender \cup a.allow : sender_is_subject(p, u, groups)

widens(oldSubject, oldAllow, newSubject, newAllow) ==
    ~(({newSubject} \cup newAllow) \subseteq ({oldSubject} \cup oldAllow))

---------------------------------------------------------------------------
(* Freezing an audience from which somebody is kept out.                   *)

audience_without_the_excluded_KeepsGroups(allow, excluded, roster) ==
    IF excluded = {} THEN allow ELSE allow \ (excluded \cup {Global})

\* With nobody excluded the audience stands as written.  Otherwise `global`
\* goes, every other group becomes the people in it today, and the excluded
\* are taken out by name.
audience_without_the_excluded(allow, excluded, roster) ==
    IF excluded = {}
    THEN allow
    ELSE (UNION {Expand(p, roster) : p \in allow \ {Global}}) \ excluded

---------------------------------------------------------------------------
(* The three fold rules: may this claim be folded into that stored row?    *)
(* Words are compared by the caller; every rule here is about audiences.    *)

same_read_set_as(c, row) ==
    reader_set(c.subject, c.allow, {}, c.excluded)
        = reader_set(row.subject, row.allow, {}, row.excluded)

same_as_row(c, row) == same_read_set_as(c, row) /\ row.sender = c.sender

restricts(c, row) ==
    /\ row.subject = c.subject
    /\ row.sender = c.sender
    /\ row.excluded \subseteq c.excluded
    /\ c.excluded # row.excluded

\* The row's readers once both audiences are frozen under the claim's
\* exclusion; the rule applies only when the two reach the same people.
frozen_readers(c, row, roster) ==
    audience_without_the_excluded(row.allow, c.excluded, roster)

the_same_readers_once_frozen(c, row, roster) ==
    {row.subject} \cup frozen_readers(c, row, roster)
        = {c.subject} \cup audience_without_the_excluded(c.allow, c.excluded, roster)

\* The speaker of a claim: its reporter, or its subject when it has none.
speakers(c) == IF c.sender = {} THEN {c.subject} ELSE c.sender

\* apply_exclusion_to_the_fact_already_there: this row may take the claim's
\* exclusion.  The authority test is asked with no groups.
takes_exclusion(c, row, roster) ==
    /\ c.excluded # {}
    /\ speakers(c) \subseteq Users
    /\ restricts(c, row)
    /\ the_same_readers_once_frozen(c, row, roster)
    /\ \A u \in speakers(c) : sender_may_rewrite(row, u, {})

\* What the claim settles about who reads the row: the union of the two
\* audiences, less everybody either side keeps it from.
settled_excluded(c, row) == row.excluded \cup c.excluded

settled_readers_ClaimOnly(c, row, roster) ==
    audience_without_the_excluded(c.allow, settled_excluded(c, row), roster)

settled_readers(c, row, roster) ==
    audience_without_the_excluded(row.allow \cup c.allow, settled_excluded(c, row), roster)

the_audience_once_settled(c, row, roster) ==
    reader_set(row.subject, settled_readers(c, row, roster), {}, settled_excluded(c, row))
        # reader_set(row.subject, row.allow, {}, row.excluded)

\* carry_the_new_audience_onto_the_fact_it_folds_into: this row may take the
\* settled audience.
carries_audience(c, row, roster) ==
    /\ speakers(c) \subseteq Users
    /\ row.subject = c.subject
    /\ row.sender = c.sender
    /\ the_audience_once_settled(c, row, roster)
    /\ \A u \in speakers(c) : sender_may_rewrite(row, u, {})
===========================================================================
