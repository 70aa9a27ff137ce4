---------------------------- MODULE SlotConflict ----------------------------
(***************************************************************************)
(* One box of somebody's identity card, the value stored in it, and the    *)
(* turns that claim another value without the standing to replace it.      *)
(*                                                                         *)
(* ask_the_owner_of_the_slot (ingest.rs) puts the disagreement to the      *)
(* owner of the card as a pending proposal and parks the refused claim in  *)
(* the capture buffer; apply_slot_conflict (proposals.rs) settles it for   *)
(* the owner, or for the nightly sweep when nobody answers; the expiry and *)
(* the hourly orphan sweep collect what is left over.  Every statement is  *)
(* its own transaction, so turns, answers and sweeps interleave between    *)
(* any two of them, and the process may die there.                         *)
(***************************************************************************)
EXTENDS Naturals

CONSTANTS
    Turns,      \* turns that refill the box, each asking at most one question
    Values,     \* folded values a turn may claim for the box
    Sayings,    \* what the turns may claim, each a value, NoKey or Filed
    NoKey,      \* the claim of a turn that wrote no bare value
    Filed,      \* a claim that was written before the replacement was refused
                \* (the reconciliation road): the question names it as successor
    Callers,    \* dashboard or agent calls that may be answering at once
    Sweep,      \* the nightly auto-apply and expiry sweep
    Nobody,
    MaxFaults   \* bound: crashes and failed statements

ASSUME SlotConflictAssumption ==
    /\ NoKey \notin Values /\ Filed \notin Values \cup {NoKey}
    /\ Sayings \subseteq [Turns -> Values \cup {NoKey, Filed}]
    /\ Sweep \notin Callers
    /\ Nobody \notin Turns
    /\ MaxFaults \in Nat

Actors == Callers \cup {Sweep}

VARIABLES
    said,     \* what each turn claims
    many,     \* the box may hold more than one value
    card,     \* the stored value: "holds", or "retired"
    turn,     \* how far each turn has come
    status,   \* structure_proposals.status of the question each turn opens
    claim,    \* the refused claim: its capture_buffer row or stored fact
    age,      \* of each question and its claim: 1 past PARKED_CLAIM_GRACE, 2
              \* past timeout_at, 3 past EXPIRE_GRACE_PERIOD
    jobs,     \* what each actor is applying
    doomed,   \* parked claims the expiry has read and not yet dropped
    expiry,   \* where the expiry is
    faults,
    answers,  \* the answer recorded on each applied question
    word,     \* history: questions a person answered with a retirement
    mishap    \* history: questions answered by two at once, before their
              \* claim was parked, or around a fault

vars == <<said, many, card, turn, status, claim, age, jobs, doomed, expiry,
          faults, answers, word, mishap>>

Verdicts == {"keep", "retire", "both"}
Idle == [q |-> Nobody, verdict |-> "keep", stage |-> "idle"]

(* Type correctness of the state above. *)
TypeOK ==
    /\ said \in Sayings
    /\ many \in BOOLEAN
    /\ card \in {"holds", "retired"}
    /\ turn \in [Turns -> {"idle", "claiming", "asking", "parking", "done"}]
    /\ status \in [Turns -> {"none", "pending", "applied", "expired"}]
    /\ claim \in [Turns -> {"none", "held", "queued", "stored", "dropped"}]
    /\ age \in [Turns -> 0 .. 3]
    /\ jobs \in [Actors -> [q : Turns \cup {Nobody}, verdict : Verdicts,
                            stage : {"idle", "loaded", "closed", "flip"}]]
    /\ doomed \subseteq Turns
    /\ expiry \in {"idle", "read", "flipped"}
    /\ faults \in 0 .. MaxFaults
    /\ answers \in [Turns -> Verdicts \cup {"none"}]
    /\ word \subseteq Turns
    /\ mishap \subseteq Turns

(* The reconciler words its slot freely, and such a slot holds one value. *)
Init ==
    /\ said \in Sayings
    /\ many \in BOOLEAN
    /\ many => \A t \in Turns : said[t] # Filed
    /\ card = "holds"
    /\ turn = [t \in Turns |-> "idle"]
    /\ status = [t \in Turns |-> "none"]
    /\ claim = [t \in Turns |-> IF said[t] = Filed THEN "stored" ELSE "none"]
    /\ age = [t \in Turns |-> 0]
    /\ jobs = [a \in Actors |-> Idle]
    /\ doomed = {} /\ expiry = "idle"
    /\ faults = 0
    /\ answers = [t \in Turns |-> "none"]
    /\ word = {}
    /\ mishap = {}

(* Only a claim with a bare value has a key. *)
Key(t) == IF said[t] = Filed THEN NoKey ELSE said[t]

Fault == faults < MaxFaults /\ faults' = faults + 1

------------------------------------------------------------------------------
(* A turn: ask_the_owner_of_the_slot *)

(* The identity core the turn was shown holds a value in the box. *)
Claim(t) ==
    /\ turn[t] = "idle" /\ card = "holds"
    /\ turn' = [turn EXCEPT ![t] = "claiming"]
    /\ UNCHANGED <<said, many, card, status, claim, age, jobs, doomed, expiry, faults, answers, word, mishap>>

(* A key that either side did not write tells no two questions apart. *)
pending_slot_conflict(t) ==
    \E q \in Turns : status[q] = "pending" /\ (Key(q) = Key(t) \/ NoKey \in {Key(q), Key(t)})

(* The lookup; when it fails the turn asks anyway. *)
LookUp(t) ==
    /\ turn[t] = "claiming"
    /\ \/ turn' = [turn EXCEPT ![t] = IF pending_slot_conflict(t) THEN "done" ELSE "asking"]
          /\ UNCHANGED faults
       \/ turn' = [turn EXCEPT ![t] = "asking"] /\ Fault
    /\ UNCHANGED <<said, many, card, status, claim, age, jobs, doomed, expiry, answers, word, mishap>>

\* Faulty variant: the lookup is trusted and no index stands under it.
AlreadyPending_NoIndex(t) == FALSE

(* idx_slot_conflict_one_question: pending questions of one key; rows      *)
(* without a key are distinct to the index.                                *)
AlreadyPending(t) == Key(t) # NoKey /\ \E q \in Turns : status[q] = "pending" /\ Key(q) = Key(t)

(* The question is written before the row it names. *)
emit_slot_conflict(t) ==
    /\ turn[t] = "asking"
    /\ \/ /\ ~AlreadyPending(t)
          /\ status' = [status EXCEPT ![t] = "pending"]
          /\ turn' = [turn EXCEPT ![t] = IF said[t] = Filed THEN "done" ELSE "parking"]
          /\ UNCHANGED faults
       \/ /\ turn' = [turn EXCEPT ![t] = "done"]
          /\ IF AlreadyPending(t) THEN UNCHANGED faults ELSE Fault
          /\ UNCHANGED status
    /\ UNCHANGED <<said, many, card, claim, age, jobs, doomed, expiry, answers, word, mishap>>

(* The claim waits in the buffer, out of every queue.  When it cannot be   *)
(* parked the question stands.                                             *)
park_capture(t) ==
    /\ turn[t] = "parking"
    /\ turn' = [turn EXCEPT ![t] = "done"]
    /\ \/ /\ claim' = [claim EXCEPT ![t] = "held"]
          /\ UNCHANGED <<faults, mishap>>
       \/ Fault /\ mishap' = mishap \cup {t} /\ UNCHANGED claim
    /\ UNCHANGED <<said, many, card, status, age, jobs, doomed, expiry, answers, word>>

------------------------------------------------------------------------------
(* An answer: apply_proposal or auto_apply_proposal, apply_slot_conflict *)

Applying(t) == \E a \in Actors : jobs[a].q = t

\* Faulty variant: whatever was answered.
Verdict_AsAnswered(v) == v

(* "Both" is honoured only where the box may hold two; anything that is    *)
(* not a retirement keeps.                                                 *)
Verdict(v) == IF v = "both" /\ ~many THEN "keep" ELSE v

Load(a, t, v) ==
    /\ jobs[a] = Idle /\ status[t] = "pending"
    /\ jobs' = [jobs EXCEPT ![a] = [q |-> t, verdict |-> Verdict(v), stage |-> "loaded"]]
    /\ mishap' = IF Applying(t) \/ turn[t] # "done" THEN mishap \cup {t} ELSE mishap
    /\ UNCHANGED <<said, many, card, turn, status, claim, age, doomed, expiry, faults, answers>>

(* The owner, or the operator with the lens on. *)
apply_proposal(a, t, v) ==
    /\ Load(a, t, v)
    /\ word' = IF v = "retire" THEN word \cup {t} ELSE word

Recommended == IF many THEN "both" ELSE "keep"

auto_apply_overdue(t) ==
    /\ age[t] >= 2 /\ expiry = "idle"
    /\ Load(Sweep, t, Recommended)
    /\ UNCHANGED word

Working(a, s, v) == jobs[a].stage = s /\ jobs[a].verdict = v

Step(a, s) == jobs' = [jobs EXCEPT ![a].stage = s]

(* Best effort: when the statement fails the verdict goes on without it. *)
discard_held(t) == claim' = [claim EXCEPT ![t] = IF @ = "held" THEN "dropped" ELSE @]
release_held(t) == claim' = [claim EXCEPT ![t] = IF @ = "held" THEN "queued" ELSE @]

BestEffort(A, t) ==
    \/ A /\ UNCHANGED <<faults, mishap>>
    \/ Fault /\ mishap' = mishap \cup {t} /\ UNCHANGED claim

KeepStored(a) ==
    /\ Working(a, "loaded", "keep")
    /\ BestEffort(discard_held(jobs[a].q), jobs[a].q)
    /\ Step(a, "flip")
    /\ UNCHANGED <<said, many, card, turn, status, age, doomed, expiry, answers, word>>

\* Faulty variant: the answer ends with the stored value.
Retire_AndDone(a) ==
    /\ Working(a, "loaded", "retire")
    /\ card' = "retired"
    /\ Step(a, "flip")
    /\ UNCHANGED <<said, many, turn, status, claim, age, doomed, expiry, faults, answers, word, mishap>>

(* mark_superseded onto the filed claim, or close_validity: the stored     *)
(* value stops being asserted first, the claim is released after.          *)
Retire(a) ==
    /\ Working(a, "loaded", "retire")
    /\ card' = "retired"
    /\ Step(a, "closed")
    /\ UNCHANGED <<said, many, turn, status, claim, age, doomed, expiry, faults, answers, word, mishap>>

Release(a) ==
    /\ Working(a, "closed", "retire") \/ Working(a, "loaded", "both")
    /\ BestEffort(release_held(jobs[a].q), jobs[a].q)
    /\ Step(a, "flip")
    /\ UNCHANGED <<said, many, card, turn, status, age, doomed, expiry, answers, word>>

(* mark_applied and mark_auto_applied: only a pending row is flipped; the  *)
(* loser of a race is told so, its effects already made.                   *)
Flip(a) ==
    /\ jobs[a].stage = "flip"
    /\ IF status[jobs[a].q] = "pending"
         THEN /\ status' = [status EXCEPT ![jobs[a].q] = "applied"]
              /\ answers' = [answers EXCEPT ![jobs[a].q] = jobs[a].verdict]
         ELSE UNCHANGED <<status, answers>>
    /\ jobs' = [jobs EXCEPT ![a] = Idle]
    /\ UNCHANGED <<said, many, card, turn, claim, age, doomed, expiry, faults, word, mishap>>

(* A statement of the apply fails: the question stays pending, with what   *)
(* the steps before it did.                                                *)
ApplyFails(a) ==
    /\ jobs[a].stage \in {"loaded", "flip"}
    /\ Fault
    /\ mishap' = mishap \cup {jobs[a].q}
    /\ jobs' = [jobs EXCEPT ![a] = Idle]
    /\ UNCHANGED <<said, many, card, turn, status, claim, age, doomed, expiry, answers, word>>

------------------------------------------------------------------------------
(* The sweeps *)

Overdue == {t \in Turns : status[t] = "pending" /\ age[t] = 3}

(* expire_overdue_proposals: the parked ids first, then the flip, then the *)
(* claims.                                                                 *)
ExpireRead ==
    /\ expiry = "idle" /\ jobs[Sweep] = Idle /\ Overdue # {}
    /\ doomed' = {t \in Overdue : said[t] # Filed}
    /\ expiry' = "read"
    /\ UNCHANGED <<said, many, card, turn, status, claim, age, jobs, faults, answers, word, mishap>>

ExpireFlip ==
    /\ expiry = "read"
    /\ status' = [t \in Turns |-> IF t \in Overdue THEN "expired" ELSE status[t]]
    /\ expiry' = IF doomed = {} THEN "idle" ELSE "flipped"
    /\ UNCHANGED <<said, many, card, turn, claim, age, jobs, doomed, faults, answers, word, mishap>>

ExpireDrop(t) ==
    /\ expiry = "flipped" /\ t \in doomed
    /\ BestEffort(discard_held(t), t)
    /\ doomed' = doomed \ {t}
    /\ expiry' = IF doomed' = {} THEN "idle" ELSE "flipped"
    /\ UNCHANGED <<said, many, card, turn, status, age, jobs, answers, word>>

\* Faulty variants: any question that was ever written spares its claim; a
\* claim past its grace is an orphan.
Orphans_NeverAsked == {t \in Turns : claim[t] = "held" /\ age[t] >= 1 /\ status[t] = "none"}
Orphans_ByAge == {t \in Turns : claim[t] = "held" /\ age[t] >= 1}

(* The parked claims past their grace whose question is not pending. *)
Orphans == {t \in Turns : claim[t] = "held" /\ age[t] >= 1 /\ status[t] # "pending"}

(* Ahead of every light round. *)
sweep_orphan_held ==
    /\ Orphans # {}
    /\ claim' = [t \in Turns |-> IF t \in Orphans THEN "dropped" ELSE claim[t]]
    /\ UNCHANGED <<said, many, card, turn, status, age, jobs, doomed, expiry, faults, answers, word, mishap>>

(* The round writes a queued claim onto the card like any other. *)
Promote(t) ==
    /\ claim[t] = "queued"
    /\ claim' = [claim EXCEPT ![t] = "stored"]
    /\ UNCHANGED <<said, many, card, turn, status, age, jobs, doomed, expiry, faults, answers, word, mishap>>

(* Time: a turn ends within the hour, a question waits a day. *)
Age(t) ==
    /\ turn[t] = "done" /\ age[t] < 3
    /\ status[t] = "pending" \/ (claim[t] = "held" /\ age[t] < 1)
    /\ age' = [age EXCEPT ![t] = @ + 1]
    /\ UNCHANGED <<said, many, card, turn, status, claim, jobs, doomed, expiry, faults, answers, word, mishap>>

(* The process dies: turns, answers and sweeps stop where they are. *)
Crash ==
    /\ Fault
    /\ turn' = [t \in Turns |-> IF turn[t] = "idle" THEN "idle" ELSE "done"]
    /\ mishap' = mishap \cup {t \in Turns : turn[t] = "parking" \/ Applying(t)}
    /\ jobs' = [a \in Actors |-> Idle]
    /\ doomed' = {} /\ expiry' = "idle"
    /\ UNCHANGED <<said, many, card, status, claim, age, answers, word>>

------------------------------------------------------------------------------

TurnStep(t) == Claim(t) \/ LookUp(t) \/ emit_slot_conflict(t) \/ park_capture(t)

ApplyStep(a) == KeepStored(a) \/ Retire(a) \/ Release(a) \/ Flip(a) \/ ApplyFails(a)

NightStep ==
    \/ \E t \in Turns : auto_apply_overdue(t) \/ ExpireDrop(t)
    \/ ExpireRead \/ ExpireFlip
    \/ ApplyStep(Sweep)

Next ==
    \/ \E t \in Turns : TurnStep(t) \/ Promote(t) \/ Age(t)
    \/ \E a \in Callers, t \in Turns, v \in Verdicts : apply_proposal(a, t, v)
    \/ \E a \in Callers : ApplyStep(a)
    \/ NightStep
    \/ sweep_orphan_held
    \/ Crash

Spec == Init /\ [][Next]_vars

(* Time passes, the nightly cycle and the hourly round come again, and a   *)
(* turn or an answer under way goes on.  Nobody has to answer.             *)
FairSpec ==
    /\ Spec
    /\ \A t \in Turns : WF_vars(TurnStep(t)) /\ WF_vars(Age(t))
    /\ \A a \in Callers : WF_vars(ApplyStep(a))
    /\ WF_vars(NightStep)
    /\ WF_vars(sweep_orphan_held)

------------------------------------------------------------------------------
(* Properties *)

(* Two turns that claim one value while its question is open share that    *)
(* question, even when both looked before either asked.                    *)
OneQuestionPerDisagreement ==
    \A p, q \in Turns :
        status[p] = "pending" /\ status[q] = "pending" /\ Key(p) = Key(q) /\ Key(p) # NoKey => p = q

(* While a question waits for an answer that nobody has begun to apply, no *)
(* sweep takes the claim away that the answer would release.               *)
OpenQuestionsKeepTheirClaim ==
    \A t \in Turns \ mishap :
        /\ status[t] = "pending" /\ turn[t] = "done" /\ ~Applying(t)
        /\ said[t] # Filed
        => claim[t] = "held"

(* The stored value stops being asserted only on a person's word, and a    *)
(* refused claim reaches the card only on one too, except that silence     *)
(* lets it stand beside the stored value in a box that may hold two.       *)
SilenceKeepsTheCard ==
    /\ card = "retired" => word # {}
    /\ \A t \in Turns : claim[t] \in {"queued", "stored"} => said[t] = Filed \/ many \/ t \in word

(* Once the recorded answer is that the stored value is wrong, the value   *)
(* the owner called right is in the memory or on its way there, unless     *)
(* answers to the question overlapped, came before its claim was parked or *)
(* were cut short by a fault.                                              *)
RetiredIsReplaced ==
    \A t \in Turns \ mishap :
        answers[t] = "retire" => card = "retired" /\ claim[t] \in {"queued", "stored"}

(* A parked claim does not stay parked for ever, whether its question was  *)
(* answered, expired or lost half-way.                                     *)
HeldLeaves == \A t \in Turns : claim[t] = "held" ~> claim[t] # "held"

(* proposals.rs, apply_slot_conflict: "An answer that retires the old      *)
(* value without writing the new one is half an answer".                   *)
NoHalfAnswer ==
    /\ card = "retired"
    /\ \A t \in Turns : turn[t] \in {"idle", "done"} /\ status[t] # "pending" /\ ~Applying(t)
    => \E t \in Turns : claim[t] \in {"queued", "stored"}

==============================================================================
