---------------------------- MODULE MCRetelling ----------------------------
(* A household of four: alice speaks about herself, bob and zoe are the     *)
(* parents, carl may join them.                                             *)
EXTENDS Retelling

CONSTANTS alice, bob, zoe, carl, parents

MCUsers == {alice, bob, zoe, carl}
MCGroups == {parents, Global}
MCRoster == [g \in MCGroups |-> IF g = parents THEN {bob, zoe} ELSE {}]

\* Said to the parents, to the parents but not to zoe, to bob alone, and to
\* bob and carl by name.
MCTellings ==
    {[allow |-> {parents}, excluded |-> {}],
     [allow |-> {parents}, excluded |-> {zoe}],
     [allow |-> {bob}, excluded |-> {}],
     [allow |-> {parents, carl}, excluded |-> {bob}]}

\* Open it to everyone, and to everyone but the parents.
MCReshares ==
    {[allow |-> {Global}, excluded |-> {}],
     [allow |-> {Global, bob, carl}, excluded |-> {{parents}}]}
============================================================================
