----------------------------- MODULE MCErasure -----------------------------
(* Two people who may be forgotten and speak of each other, of themselves    *)
(* and of everybody, and an admin one of them speaks of.                     *)
EXTENDS Erasure, TLC

CONSTANTS ann, ben, cam, own, told, rule, card, news

MCAbout == own :> ann @@ told :> ann @@ news :> Global @@ rule :> ann @@ card :> cam
MCBy == own :> ann @@ told :> ben @@ news :> ann @@ rule :> ben @@ card :> ann
MCAboutIn == [c \in Claims |-> MCAbout[c]]
MCByIn == [c \in Claims |-> MCBy[c]]
=============================================================================
