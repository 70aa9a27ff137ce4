--------------------------- MODULE MCSlotConflict ---------------------------
(* Two turns: the same value twice, or a value beside a claim that was       *)
(* filed before its replacement was refused.                                 *)
EXTENDS SlotConflict

CONSTANTS t1, t2, v1, v2

MCTurns == {t1, t2}
MCSayings == {[t \in MCTurns |-> IF t = t1 THEN v1 ELSE x] : x \in {v1, Filed}}
=============================================================================
