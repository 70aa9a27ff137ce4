------------------------- MODULE MCCapturePipeline -------------------------
(* A household: alice and bob are its people and have a wiki each, fam is    *)
(* their group, carl is a guest with no wiki.                                *)
EXTENDS CapturePipeline

CONSTANTS alice, bob, carl, fam, w1, w2, none, photo

MCUsers == {alice, bob, carl}
MCGroups == {fam, Global}
MCRoster == [g \in MCGroups |-> IF g = fam THEN {alice, bob} ELSE {}]
MCHomes == {alice, bob}

Told(words, kind, subject, sender, allow, excluded) ==
    [words |-> words, media |-> none, kind |-> kind, subject |-> subject, sender |-> {sender},
     allow |-> allow, excluded |-> excluded, ended |-> FALSE, why |-> "none"]

\* alice about herself, to the family; the same kept from bob; the same with a
\* photo; and to nobody else.
Shared == Told(w1, "card", alice, alice, {fam}, {})
KeptFromBob == Told(w1, "card", alice, alice, {alice}, {bob})
WithPhoto == [Shared EXCEPT !.media = photo]
Private == Told(w1, "topic", alice, alice, {}, {})
\* bob about alice, and the guest about himself.
ByBob == Told(w1, "topic", alice, bob, {}, {})
ByGuest == Told(w2, "topic", carl, carl, {}, {})
\* The same words about one another, and something nobody can name a page for.
AliceOnBob == Told(w1, "card", bob, alice, {}, {})
BobOnAlice == Told(w1, "card", alice, bob, {}, {})
Wordless == Told(w2, "bare", alice, alice, {}, {})

MCRound == {Shared, KeptFromBob, WithPhoto, Private}
MCCore == {KeptFromBob, Private}
MCLive == {Shared, ByBob}
MCMixed == {Shared, KeptFromBob, ByBob, ByGuest}
MCOne == {Shared}
MCFenceLater == {Shared, KeptFromBob}
\* For the changed configurations README lists.
MCTopic == {Private}
MCHead == {Wordless, Private}
MCSwapped == {AliceOnBob, BobOnAlice}

MCClose == {[kind |-> "close", by |-> alice, subject |-> {}, allow |-> {}, excluded |-> {}]}
MCNarrow == {[kind |-> "reshare", by |-> alice, subject |-> {}, allow |-> {}, excluded |-> {}]}
MCKeep == {[kind |-> "reshare", by |-> alice, subject |-> {}, allow |-> {fam}, excluded |-> {{bob}}]}
MCWeld == {[kind |-> "weld", by |-> alice, subject |-> {}, allow |-> {}, excluded |-> {}]}
\* alice gives bob what was filed about her.
MCGive == {[kind |-> "reshare", by |-> alice, subject |-> {bob}, allow |-> {alice}, excluded |-> {}]}
MCVerbs == MCClose \cup MCWeld
MCAll == MCClose \cup MCWeld \cup MCGive
============================================================================
