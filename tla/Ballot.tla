------------------------------- MODULE Ballot -------------------------------
(***************************************************************************)
(* What the vote on forget requests promises (votes.rs, module docs): a     *)
(* request is decided once; a NO-majority of the people it was put to keeps *)
(* the fact; silence, or a full count without one, forgets it; nobody votes *)
(* twice or after the window.  The only other ways out are that somebody    *)
(* the row is addressed to applies it by hand, having found it open, or     *)
(* that the engine gives up once the grace after the window is over.  Requests move independently,   *)
(* several of them possibly in one step.                                    *)
(***************************************************************************)
EXTENDS FiniteSets, Integers

CONSTANTS Requests, Voters

VARIABLES state,      \* how each request stands
          electors,   \* who may vote on it
          ballots,    \* the vote each of them has cast
          window      \* 0 while votes are taken, 1 after that, 2 past the grace

ballotVars == <<state, electors, ballots, window>>

Cast(q, x) == {u \in Voters : ballots[q][u] = x}

NoMajority(q) == 2 * Cardinality(Cast(q, "no")) > Cardinality(electors[q])

Counted(q) == electors[q] \subseteq Cast(q, "no") \cup Cast(q, "yes")

Init ==
    /\ state = [q \in Requests |-> "none"]
    /\ electors = [q \in Requests |-> {}]
    /\ ballots = [q \in Requests |-> [u \in Voters |-> "none"]]
    /\ window = [q \in Requests |-> 0]

KeepsBallot(q) == electors'[q] = electors[q] /\ ballots'[q] = ballots[q]

Open(q) ==
    /\ state[q] = "none" /\ state'[q] = "open"
    /\ electors'[q] \subseteq Voters /\ electors'[q] # {}
    /\ ballots'[q] = ballots[q] /\ window'[q] = window[q]

Vote(q) ==
    /\ window[q] = 0
    /\ \E u \in electors[q], x \in {"yes", "no"} :
          /\ ballots[q][u] = "none"
          /\ ballots'[q] = [ballots[q] EXCEPT ![u] = x]
    /\ state'[q] = state[q] /\ electors'[q] = electors[q] /\ window'[q] = window[q]

Elapse(q) ==
    /\ state[q] # "none" /\ window[q] < 2
    /\ window'[q] = window[q] + 1
    /\ state'[q] = state[q] /\ KeepsBallot(q)

Keep(q) ==
    /\ state[q] = "open" /\ state'[q] = "kept"
    /\ NoMajority(q) \/ window[q] = 2
    /\ KeepsBallot(q) /\ window'[q] = window[q]

Forget(q) ==
    /\ state[q] = "open" /\ state'[q] = "forgotten"
    /\ ~NoMajority(q)
    /\ Counted(q) \/ window[q] > 0
    /\ KeepsBallot(q) /\ window'[q] = window[q]

Overrule(q) ==
    /\ state[q] \in {"open", "kept", "forgotten"} /\ state'[q] = "overruled"
    /\ KeepsBallot(q) /\ window'[q] = window[q]

Rest(q) == state'[q] = state[q] /\ KeepsBallot(q) /\ window'[q] = window[q]

Next ==
    \A q \in Requests :
        Open(q) \/ Vote(q) \/ Elapse(q) \/ Keep(q) \/ Forget(q) \/ Overrule(q) \/ Rest(q)

Spec == Init /\ [][Next]_ballotVars
=============================================================================
