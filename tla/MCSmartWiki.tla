----------------------------- MODULE MCSmartWiki -----------------------------
(* Two devices of one user, a laptop that is careful and a phone that is not. *)
EXTENDS SmartWiki

CONSTANTS laptop, phone, p, q

MCRequests == {[pages |-> {p}, deletes |-> {}, describe |-> TRUE],
               [pages |-> {q}, deletes |-> {p}, describe |-> FALSE]}

\* For the leases one push is like another.
MCPush == {[pages |-> {p}, deletes |-> {}, describe |-> FALSE]}
==============================================================================
