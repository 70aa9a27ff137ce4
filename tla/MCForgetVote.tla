---------------------------- MODULE MCForgetVote ----------------------------
(* A fact about alice that bob filed; carl and dora may read it too.        *)
EXTENDS ForgetVote

CONSTANTS alice, bob, carl, dora

MCUsers == {alice, bob, carl, dora}
MCRoster == [g \in {Global} |-> {}]

\* Read by three others, or by nobody else.
MCFacts ==
    {[subject |-> alice, allow |-> {carl, dora}, sender |-> {bob}, excluded |-> {}],
     [subject |-> alice, allow |-> {}, sender |-> {}, excluded |-> {}]}
=============================================================================
