------------------------ MODULE SlotConflictProofs ------------------------
(***************************************************************************)
(* For any number of turns, values, callers and faults: one question per    *)
(* disagreement, the claim an answer would release is there as long as the  *)
(* question waits, silence changes nothing on the card, and a retirement    *)
(* brings the value that replaces it.                                       *)
(***************************************************************************)
EXTENDS SlotConflict, TLAPS

---------------------------------------------------------------------------
(* The inductive invariant.                                                *)

\* The claim is where an answer finds it.
Waiting(t) == IF said[t] = Filed THEN claim[t] = "stored" ELSE claim[t] = "held"

\* A turn asks before it parks, and nobody answers in between unnoticed.
TurnInv ==
    \A t \in Turns :
        /\ turn[t] \in {"idle", "claiming", "asking"} => status[t] = "none"
        /\ turn[t] # "done" => t \in mishap \/ (answers[t] = "none" /\ ~Applying(t))
        /\ said[t] = Filed => claim[t] = "stored" /\ turn[t] # "parking"

\* The expiry drops only claims whose question it has closed.
ExpiryInv ==
    /\ expiry = "idle" => doomed = {}
    /\ \A t \in doomed : status[t] # "none" /\ age[t] = 3
    /\ expiry = "flipped" => \A t \in doomed : status[t] # "pending"

\* Two answers to one question are a mishap.
Alone == \A a, b \in Actors : a # b /\ jobs[a].q = jobs[b].q /\ jobs[a].q # Nobody => jobs[a].q \in mishap

\* What an answer under way has done and may still rely on.
Answer(a) ==
    LET t == jobs[a].q
        v == jobs[a].verdict
        s == jobs[a].stage
    IN  /\ t \in Turns
        /\ v = "retire" => t \in word
        /\ v = "both" => many
        /\ s = "closed" => v = "retire"
        /\ v = "retire" /\ s \in {"closed", "flip"} => card = "retired"
        /\ t \notin mishap /\ status[t] = "pending" =>
              /\ s \in {"loaded", "closed"} => Waiting(t)
              /\ v = "retire" /\ s = "flip" => claim[t] \in {"queued", "stored"}

AnswersInv == \A a \in Actors : IF jobs[a].stage = "idle" THEN jobs[a] = Idle ELSE Answer(a)

Promises ==
    /\ OneQuestionPerDisagreement /\ OpenQuestionsKeepTheirClaim
    /\ SilenceKeepsTheCard /\ RetiredIsReplaced

IInv == TypeOK /\ TurnInv /\ ExpiryInv /\ Alone /\ AnswersInv /\ Promises

---------------------------------------------------------------------------
(* Helpers.                                                                *)

JobSet == [q : Turns \cup {Nobody}, verdict : Verdicts, stage : {"idle", "loaded", "closed", "flip"}]

LEMMA IdleTypes == Idle \in JobSet /\ Idle.q = Nobody /\ Idle.stage = "idle" /\ Idle.verdict = "keep"
  BY DEF Idle, JobSet, Verdicts

\* What taking the next statement and ending do to the answers under way.
LEMMA Steps ==
    ASSUME jobs \in [Actors -> JobSet], NEW a \in Actors, NEW s, Step(a, s)
    PROVE  /\ jobs'[a].stage = s /\ jobs'[a].q = jobs[a].q /\ jobs'[a].verdict = jobs[a].verdict
           /\ \A b \in Actors \ {a} : jobs'[b] = jobs[b]
           /\ s \in {"loaded", "closed", "flip"} => jobs' \in [Actors -> JobSet]
<1>1. jobs[a] \in JobSet
  OBVIOUS
<1>2. jobs' = [jobs EXCEPT ![a] = [jobs[a] EXCEPT !.stage = s]]
  BY DEF Step
<1>3. /\ [jobs[a] EXCEPT !.stage = s].stage = s /\ [jobs[a] EXCEPT !.stage = s].q = jobs[a].q
      /\ [jobs[a] EXCEPT !.stage = s].verdict = jobs[a].verdict
      /\ s \in {"loaded", "closed", "flip"} => [jobs[a] EXCEPT !.stage = s] \in JobSet
  BY <1>1 DEF JobSet
<1> QED
  BY <1>2, <1>3

LEMMA Ends ==
    ASSUME jobs \in [Actors -> JobSet], NEW a \in Actors, jobs' = [jobs EXCEPT ![a] = Idle]
    PROVE  jobs'[a] = Idle /\ (\A b \in Actors \ {a} : jobs'[b] = jobs[b]) /\ jobs' \in [Actors -> JobSet]
  BY IdleTypes

\* An answer minds only its own question, and there only what is not a mishap.
Undisturbed(t) ==
    \/ t \in mishap' \/ status'[t] # "pending"
    \/ /\ status'[t] = status[t]
       /\ claim'[t] = claim[t] \/ (claim[t] = "queued" /\ claim'[t] = "stored")

LEMMA AnswerFrame ==
    ASSUME NEW a, Answer(a), jobs'[a] = jobs[a], UNCHANGED <<said, many>>,
           card = "retired" => card' = "retired", word \subseteq word', mishap \subseteq mishap',
           Undisturbed(jobs[a].q)
    PROVE  Answer(a)'
  BY DEF Answer, Waiting, Undisturbed

Fits(a) == IF jobs[a].stage = "idle" THEN jobs[a] = Idle ELSE Answer(a)

LEMMA Stands ==
    ASSUME NEW b, Fits(b), jobs'[b] = jobs[b] \/ jobs'[b] = Idle,
           UNCHANGED <<said, many>>,
           card = "retired" => card' = "retired", word \subseteq word', mishap \subseteq mishap',
           jobs[b].q \in Turns => Undisturbed(jobs[b].q)
    PROVE  Fits(b)'
<1>1. CASE jobs'[b] = Idle
  BY <1>1, IdleTypes DEF Fits
<1>2. CASE jobs'[b] = jobs[b] /\ jobs[b].stage = "idle"
  BY <1>2 DEF Fits
<1>3. CASE jobs'[b] = jobs[b] /\ jobs[b].stage # "idle"
  <2>1. Answer(b) /\ jobs[b].q \in Turns
    BY <1>3 DEF Fits, Answer
  <2> QED
    BY <1>3, <2>1, AnswerFrame DEF Fits
<1> QED
  BY <1>1, <1>2, <1>3

LEMMA AnswersStand ==
    ASSUME AnswersInv, \A b \in Actors : jobs'[b] = jobs[b] \/ jobs'[b] = Idle,
           UNCHANGED <<said, many>>,
           card = "retired" => card' = "retired", word \subseteq word', mishap \subseteq mishap',
           \A b \in Actors : jobs[b].q \in Turns => Undisturbed(jobs[b].q)
    PROVE  AnswersInv'
<1>1. \A b \in Actors : Fits(b)
  BY DEF AnswersInv, Fits
<1>2. \A b \in Actors : Fits(b)'
  BY <1>1, Stands
<1> QED
  BY <1>2 DEF AnswersInv, Fits

LEMMA AnswersMove ==
    ASSUME AnswersInv, NEW a, \A b \in Actors \ {a} : jobs'[b] = jobs[b],
           UNCHANGED <<said, many>>,
           card = "retired" => card' = "retired", word \subseteq word', mishap \subseteq mishap',
           \A b \in Actors \ {a} : jobs[b].q \in Turns => Undisturbed(jobs[b].q),
           jobs'[a].stage # "idle", Answer(a)'
    PROVE  AnswersInv'
<1>1. \A b \in Actors : Fits(b)
  BY DEF AnswersInv, Fits
<1>2. \A b \in Actors \ {a} : Fits(b)'
  BY <1>1, Stands
<1>3. Fits(a)'
  BY DEF Fits
<1> QED
  BY <1>2, <1>3 DEF AnswersInv, Fits

\* Silence keeps the card as it was when no claim is released.
LEMMA SilenceFrame ==
    ASSUME SilenceKeepsTheCard, UNCHANGED <<said, many, card>>, word \subseteq word',
           \A t \in Turns : claim'[t] \in {"queued", "stored"} => claim[t] \in {"queued", "stored"}
    PROVE  SilenceKeepsTheCard'
  BY DEF SilenceKeepsTheCard

LEMMA OneQuestionFrame ==
    ASSUME OneQuestionPerDisagreement, UNCHANGED said,
           \A t \in Turns : status'[t] = "pending" => status[t] = "pending"
    PROVE  OneQuestionPerDisagreement'
  BY DEF OneQuestionPerDisagreement, Key

---------------------------------------------------------------------------
(* The turns.                                                              *)

\* Claim and LookUp only move their turn along.
LEMMA LookingHolds ==
    ASSUME IInv, NEW t \in Turns, Claim(t) \/ LookUp(t)
    PROVE  IInv'
<1> USE DEF IInv
<1>1. /\ UNCHANGED <<said, many, card, status, claim, age, jobs, doomed, expiry, answers, word, mishap>>
      /\ turn[t] \in {"idle", "claiming"} /\ status[t] = "none"
      /\ \E x \in {"claiming", "asking", "done"} : turn' = [turn EXCEPT ![t] = x]
      /\ faults' \in 0 .. MaxFaults
  BY SlotConflictAssumption DEF Claim, LookUp, Fault, TypeOK, TurnInv
<1>2. turn' \in [Turns -> {"idle", "claiming", "asking", "parking", "done"}]
  BY <1>1 DEF TypeOK
<1>3. TypeOK'
  BY <1>1, <1>2 DEF TypeOK
<1>4. \A q \in Turns \ {t} : turn'[q] = turn[q]
  BY <1>1 DEF TypeOK
<1>5. turn[t] # "done" /\ turn'[t] \in {"claiming", "asking", "done"}
  BY <1>1 DEF TypeOK
<1>6. \A q : Applying(q)' <=> Applying(q)
  BY <1>1 DEF Applying
<1>7. TurnInv'
  BY <1>1, <1>4, <1>5, <1>6 DEF TurnInv
<1>8. ExpiryInv' /\ Alone'
  BY <1>1 DEF ExpiryInv, Alone
<1>9. AnswersInv'
  BY <1>1, AnswersStand DEF Undisturbed
<1>10. Promises'
  BY <1>1, <1>4, <1>6, SilenceFrame, OneQuestionFrame
  DEF Promises, OpenQuestionsKeepTheirClaim, RetiredIsReplaced
<1> QED
  BY <1>3, <1>7, <1>8, <1>9, <1>10

LEMMA EmitHolds ==
    ASSUME IInv, NEW t \in Turns, emit_slot_conflict(t)
    PROVE  IInv'
<1> USE DEF IInv
<1>1. /\ UNCHANGED <<said, many, card, claim, age, jobs, doomed, expiry, answers, word, mishap>>
      /\ turn[t] = "asking" /\ status[t] = "none" /\ faults' \in 0 .. MaxFaults
  BY SlotConflictAssumption DEF emit_slot_conflict, Fault, TypeOK, TurnInv
<1>2. \A q : Applying(q)' <=> Applying(q)
  BY <1>1 DEF Applying
<1>3. /\ (answers[t] = "none" /\ ~Applying(t)) \/ t \in mishap
      /\ t \notin doomed
  BY <1>1 DEF TurnInv, ExpiryInv
<1>4. CASE turn' = [turn EXCEPT ![t] = "done"] /\ UNCHANGED status
  <2>1. turn' \in [Turns -> {"idle", "claiming", "asking", "parking", "done"}] /\ turn'[t] = "done"
        /\ \A q \in Turns \ {t} : turn'[q] = turn[q]
    BY <1>4 DEF TypeOK
  <2>2. TypeOK'
    BY <1>1, <1>4, <2>1 DEF TypeOK
  <2>3. TurnInv' /\ ExpiryInv' /\ Alone'
    BY <1>1, <1>2, <1>4, <2>1 DEF TurnInv, ExpiryInv, Alone
  <2>4. AnswersInv'
    BY <1>1, <1>4, AnswersStand DEF Undisturbed
  <2>5. Promises'
    BY <1>1, <1>2, <1>4, <2>1, SilenceFrame, OneQuestionFrame
    DEF Promises, OpenQuestionsKeepTheirClaim, RetiredIsReplaced
  <2> QED
    BY <2>2, <2>3, <2>4, <2>5
<1>5. CASE /\ ~AlreadyPending(t) /\ status' = [status EXCEPT ![t] = "pending"]
           /\ turn' = [turn EXCEPT ![t] = IF said[t] = Filed THEN "done" ELSE "parking"]
  <2>1. /\ turn' \in [Turns -> {"idle", "claiming", "asking", "parking", "done"}]
        /\ turn'[t] = IF said[t] = Filed THEN "done" ELSE "parking"
        /\ \A q \in Turns \ {t} : turn'[q] = turn[q]
    BY <1>5 DEF TypeOK
  <2>2. /\ status' \in [Turns -> {"none", "pending", "applied", "expired"}] /\ status'[t] = "pending"
        /\ \A q \in Turns \ {t} : status'[q] = status[q]
    BY <1>5 DEF TypeOK
  <2>3. TypeOK'
    BY <1>1, <2>1, <2>2 DEF TypeOK
  <2>4. TurnInv'
    BY <1>1, <1>2, <2>1, <2>2 DEF TurnInv
  <2>5. ExpiryInv' /\ Alone'
    BY <1>1, <1>3, <2>2 DEF ExpiryInv, Alone, TypeOK
  <2>6. AnswersInv'
    <3>1. \A b \in Actors : jobs[b].q \in Turns => Undisturbed(jobs[b].q)
      BY <1>1, <1>3, <2>2 DEF Undisturbed, Applying
    <3> QED
      BY <1>1, <3>1, AnswersStand
  <2>7. OneQuestionPerDisagreement'
    BY <1>1, <1>5, <2>2 DEF Promises, OneQuestionPerDisagreement, AlreadyPending, Key
  <2>8. OpenQuestionsKeepTheirClaim'
    BY <1>1, <1>2, <2>1, <2>2 DEF Promises, OpenQuestionsKeepTheirClaim
  <2>9. SilenceKeepsTheCard' /\ RetiredIsReplaced'
    BY <1>1, SilenceFrame DEF Promises, RetiredIsReplaced
  <2> QED
    BY <2>3, <2>4, <2>5, <2>6, <2>7, <2>8, <2>9 DEF Promises
<1> QED
  BY <1>4, <1>5 DEF emit_slot_conflict

LEMMA ParkHolds ==
    ASSUME IInv, NEW t \in Turns, park_capture(t)
    PROVE  IInv'
<1> USE DEF IInv
<1>1. /\ UNCHANGED <<said, many, card, status, age, jobs, doomed, expiry, answers, word>>
      /\ turn[t] = "parking" /\ said[t] # Filed /\ turn' = [turn EXCEPT ![t] = "done"]
  BY DEF park_capture, TurnInv
<1>2. \A q : Applying(q)' <=> Applying(q)
  BY <1>1 DEF Applying
<1>3. t \in mishap \/ (answers[t] = "none" /\ ~Applying(t))
  BY <1>1 DEF TurnInv
<1>4. /\ turn' \in [Turns -> {"idle", "claiming", "asking", "parking", "done"}] /\ turn'[t] = "done"
      /\ \A q \in Turns \ {t} : turn'[q] = turn[q]
  BY <1>1 DEF TypeOK
<1>5. /\ faults' \in 0 .. MaxFaults /\ mishap' \subseteq Turns /\ mishap \subseteq mishap'
      /\ claim' \in [Turns -> {"none", "held", "queued", "stored", "dropped"}]
      /\ \A q \in Turns \ {t} : claim'[q] = claim[q] /\ (q \in mishap' <=> q \in mishap)
      /\ claim'[t] = "held" \/ (claim'[t] = claim[t] /\ t \in mishap')
  BY SlotConflictAssumption DEF park_capture, Fault, TypeOK
<1>6. TypeOK'
  BY <1>1, <1>4, <1>5 DEF TypeOK
<1>7. TurnInv' /\ ExpiryInv' /\ Alone'
  BY <1>1, <1>2, <1>4, <1>5 DEF TurnInv, ExpiryInv, Alone
<1>8. AnswersInv'
  <2>1. \A b \in Actors : jobs[b].q \in Turns => Undisturbed(jobs[b].q)
    BY <1>1, <1>3, <1>5 DEF Undisturbed, Applying
  <2> QED
    BY <1>1, <1>5, <2>1, AnswersStand
<1>9. SilenceKeepsTheCard' /\ OneQuestionPerDisagreement'
  BY <1>1, <1>5, SilenceFrame, OneQuestionFrame DEF Promises
<1>10. OpenQuestionsKeepTheirClaim'
  BY <1>1, <1>2, <1>4, <1>5 DEF Promises, OpenQuestionsKeepTheirClaim
<1>11. RetiredIsReplaced'
  BY <1>1, <1>3, <1>5 DEF Promises, RetiredIsReplaced
<1> QED
  BY <1>6, <1>7, <1>8, <1>9, <1>10, <1>11 DEF Promises

---------------------------------------------------------------------------
(* The answers.                                                            *)

\* An answer that begins finds the claim waiting, or is a mishap.
LEMMA LoadHolds ==
    ASSUME IInv, NEW a \in Actors, NEW t \in Turns, NEW v \in Verdicts, Load(a, t, v),
           word \subseteq word', word' \subseteq Turns, v = "retire" => t \in word'
    PROVE  IInv'
<1> USE DEF IInv
<1>1. /\ UNCHANGED <<said, many, card, turn, status, claim, age, doomed, expiry, faults, answers>>
      /\ jobs[a] = Idle /\ status[t] = "pending"
      /\ mishap \subseteq mishap' /\ mishap' \subseteq mishap \cup {t}
      /\ Applying(t) \/ turn[t] # "done" => t \in mishap'
  BY DEF Load
<1>2. PICK w \in Verdicts : /\ jobs' = [jobs EXCEPT ![a] = [q |-> t, verdict |-> w, stage |-> "loaded"]]
                            /\ w = "both" => many
                            /\ w = "retire" => t \in word'
  BY DEF Load, Verdict, Verdicts
<1>3. jobs \in [Actors -> JobSet] /\ [q |-> t, verdict |-> w, stage |-> "loaded"] \in JobSet
  BY DEF TypeOK, JobSet
<1>4. /\ jobs' \in [Actors -> JobSet]
      /\ jobs'[a].q = t /\ jobs'[a].verdict = w /\ jobs'[a].stage = "loaded"
      /\ \A b \in Actors \ {a} : jobs'[b] = jobs[b]
  BY <1>2, <1>3
<1>5. jobs[a].q = Nobody /\ Nobody \notin Turns
  BY <1>1, IdleTypes, SlotConflictAssumption
<1>6. Applying(t)' /\ \A r \in Turns \ {t} : Applying(r)' <=> Applying(r)
  BY <1>4, <1>5 DEF Applying
<1>7. TypeOK'
  BY <1>1, <1>4 DEF TypeOK, JobSet
<1>8. TurnInv'
  BY <1>1, <1>6 DEF TurnInv
<1>9. ExpiryInv'
  BY <1>1 DEF ExpiryInv
<1>10. Alone'
  <2>1. \A b \in Actors \ {a} : jobs[b].q = t => t \in mishap'
    BY <1>1 DEF Applying
  <2> QED
    BY <1>1, <1>4, <2>1 DEF Alone
<1>11. Answer(a)'
  <2>1. t \notin mishap' => Waiting(t)
    BY <1>1 DEF Promises, OpenQuestionsKeepTheirClaim, Waiting, TurnInv
  <2> QED
    BY <1>1, <1>2, <1>4, <2>1 DEF Answer, Waiting
<1>12. AnswersInv'
  <2>1. \A r \in Turns : Undisturbed(r)
    BY <1>1 DEF Undisturbed
  <2> QED
    BY <1>1, <1>4, <1>11, <2>1, AnswersMove
<1>13. SilenceKeepsTheCard' /\ OneQuestionPerDisagreement'
  BY <1>1, SilenceFrame, OneQuestionFrame DEF Promises
<1>14. OpenQuestionsKeepTheirClaim' /\ RetiredIsReplaced'
  BY <1>1, <1>6 DEF Promises, OpenQuestionsKeepTheirClaim, RetiredIsReplaced
<1> QED
  BY <1>7, <1>8, <1>9, <1>10, <1>12, <1>13, <1>14 DEF Promises

\* The claim is dropped or released once, by the one answer at work.
LEMMA ClaimHolds ==
    ASSUME IInv, NEW a \in Actors, KeepStored(a) \/ Release(a)
    PROVE  IInv'
<1> USE DEF IInv
<1>0. jobs \in [Actors -> JobSet] /\ jobs[a].stage \in {"loaded", "closed"}
  BY DEF TypeOK, JobSet, KeepStored, Release, Working
<1>1. Answer(a)
  BY <1>0 DEF AnswersInv
<1> PICK t \in Turns : t = jobs[a].q
  BY <1>1 DEF Answer
<1>2. UNCHANGED <<said, many, card, turn, status, age, doomed, expiry, answers, word>>
  BY DEF KeepStored, Release
<1>3. /\ jobs'[a].stage = "flip" /\ jobs'[a].q = t /\ jobs'[a].verdict = jobs[a].verdict
      /\ \A b \in Actors \ {a} : jobs'[b] = jobs[b]
      /\ jobs' \in [Actors -> JobSet]
  BY <1>0, Steps DEF KeepStored, Release
<1>4. PICK y \in {"dropped", "queued"} :
          /\ \/ claim' = [claim EXCEPT ![t] = IF @ = "held" THEN y ELSE @] /\ UNCHANGED <<faults, mishap>>
             \/ Fault /\ mishap' = mishap \cup {t} /\ UNCHANGED claim
          /\ y = "dropped" => jobs[a].verdict = "keep"
          /\ y = "queued" => \/ jobs[a].stage = "closed" /\ jobs[a].verdict = "retire"
                             \/ jobs[a].verdict = "both"
  BY DEF KeepStored, Release, BestEffort, discard_held, release_held, Working
<1>5. /\ claim' \in [Turns -> {"none", "held", "queued", "stored", "dropped"}]
      /\ \A r \in Turns \ {t} : claim'[r] = claim[r] /\ (r \in mishap' <=> r \in mishap)
      /\ claim'[t] = (IF claim[t] = "held" THEN y ELSE claim[t]) \/ (claim'[t] = claim[t] /\ t \in mishap')
      /\ mishap \subseteq mishap' /\ mishap' \subseteq Turns /\ faults' \in 0 .. MaxFaults
  BY <1>4, SlotConflictAssumption DEF TypeOK, Fault
<1>6. \A r : Applying(r)' <=> Applying(r)
  BY <1>3 DEF Applying
<1>7. Applying(t)
  BY DEF Applying
<1>8. TypeOK'
  BY <1>2, <1>3, <1>5 DEF TypeOK, JobSet
<1>9. TurnInv' /\ ExpiryInv'
  BY <1>2, <1>5, <1>6 DEF TurnInv, ExpiryInv
<1>10. Alone'
  BY <1>3, <1>5 DEF Alone
<1>11. Answer(a)'
  <2>1. jobs[a].verdict = "retire" /\ t \notin mishap' /\ status[t] = "pending" => claim'[t] \in {"queued", "stored"}
    BY <1>0, <1>1, <1>4, <1>5 DEF Answer, Waiting
  <2>2. jobs[a].verdict = "retire" => card = "retired"
    BY <1>1, <1>4 DEF Answer
  <2> QED
    BY <1>1, <1>2, <1>3, <2>1, <2>2 DEF Answer
<1>12. AnswersInv'
  <2>1. \A b \in Actors \ {a} : jobs[b].q \in Turns => Undisturbed(jobs[b].q)
    <3> SUFFICES ASSUME NEW b \in Actors \ {a}, jobs[b].q \in Turns PROVE Undisturbed(jobs[b].q)
      OBVIOUS
    <3>1. CASE jobs[b].q = t
      <4>1. t \in mishap
        BY <3>1, SlotConflictAssumption DEF Alone
      <4> QED
        BY <1>5, <3>1, <4>1 DEF Undisturbed
    <3>2. CASE jobs[b].q # t
      BY <1>2, <1>5, <3>2 DEF Undisturbed
    <3> QED
      BY <3>1, <3>2
  <2> QED
    BY <1>2, <1>3, <1>5, <1>11, <2>1, AnswersMove
<1>13. OneQuestionPerDisagreement'
  BY <1>2, OneQuestionFrame DEF Promises
<1>14. SilenceKeepsTheCard'
  <2>1. y = "queued" => many \/ t \in word
    BY <1>1, <1>4 DEF Answer
  <2> QED
    BY <1>2, <1>5, <2>1 DEF Promises, SilenceKeepsTheCard
<1>15. OpenQuestionsKeepTheirClaim' /\ RetiredIsReplaced'
  BY <1>2, <1>5, <1>6, <1>7 DEF Promises, OpenQuestionsKeepTheirClaim, RetiredIsReplaced
<1> QED
  BY <1>8, <1>9, <1>10, <1>12, <1>13, <1>14, <1>15 DEF Promises

LEMMA RetireHolds ==
    ASSUME IInv, NEW a \in Actors, Retire(a)
    PROVE  IInv'
<1> USE DEF IInv
<1>0. /\ jobs \in [Actors -> JobSet] /\ jobs[a].stage = "loaded" /\ jobs[a].verdict = "retire"
      /\ UNCHANGED <<said, many, turn, status, claim, age, doomed, expiry, faults, answers, word, mishap>>
      /\ card' = "retired"
  BY DEF TypeOK, JobSet, Retire, Working
<1>1. Answer(a)
  BY <1>0 DEF AnswersInv
<1>2. /\ jobs'[a].stage = "closed" /\ jobs'[a].q = jobs[a].q /\ jobs'[a].verdict = jobs[a].verdict
      /\ \A b \in Actors \ {a} : jobs'[b] = jobs[b]
      /\ jobs' \in [Actors -> JobSet]
  BY <1>0, Steps DEF Retire
<1>3. \A r : Applying(r)' <=> Applying(r)
  BY <1>2 DEF Applying
<1>4. TypeOK'
  BY <1>0, <1>2 DEF TypeOK, JobSet
<1>5. TurnInv' /\ ExpiryInv' /\ Alone'
  BY <1>0, <1>2, <1>3 DEF TurnInv, ExpiryInv, Alone
<1>6. Answer(a)'
  BY <1>0, <1>1, <1>2 DEF Answer, Waiting
<1>7. AnswersInv'
  BY <1>0, <1>2, <1>6, AnswersMove DEF Undisturbed
<1>8. Promises'
  <2>1. word # {}
    BY <1>0, <1>1 DEF Answer
  <2> QED
    BY <1>0, <1>3, <2>1, OneQuestionFrame
    DEF Promises, SilenceKeepsTheCard, OpenQuestionsKeepTheirClaim, RetiredIsReplaced
<1> QED
  BY <1>4, <1>5, <1>7, <1>8

\* The answer recorded is the one that was carried out.
LEMMA EndHolds ==
    ASSUME IInv, NEW a \in Actors, Flip(a) \/ ApplyFails(a)
    PROVE  IInv'
<1> USE DEF IInv
<1>0. jobs \in [Actors -> JobSet] /\ jobs[a].stage # "idle"
  BY DEF TypeOK, JobSet, Flip, ApplyFails
<1>1. Answer(a)
  BY <1>0 DEF AnswersInv
<1> PICK t \in Turns : t = jobs[a].q
  BY <1>1 DEF Answer
<1>2. UNCHANGED <<said, many, card, turn, claim, age, doomed, expiry, word>>
  BY DEF Flip, ApplyFails
<1>3. jobs'[a] = Idle /\ (\A b \in Actors \ {a} : jobs'[b] = jobs[b]) /\ jobs' \in [Actors -> JobSet]
  BY <1>0, Ends DEF Flip, ApplyFails
<1>4. /\ status' \in [Turns -> {"none", "pending", "applied", "expired"}]
      /\ answers' \in [Turns -> Verdicts \cup {"none"}]
      /\ \A r \in Turns \ {t} : status'[r] = status[r] /\ answers'[r] = answers[r] /\ (r \in mishap' <=> r \in mishap)
      /\ faults' \in 0 .. MaxFaults /\ mishap' \subseteq Turns /\ mishap \subseteq mishap'
  <2>1. jobs[a].verdict \in Verdicts
    BY <1>0 DEF JobSet
  <2> QED
    BY <2>1, SlotConflictAssumption DEF Flip, ApplyFails, Fault, TypeOK
<1>5. /\ t \in mishap' \/ status'[t] # "pending"
      /\ status[t] # "pending" => status'[t] = status[t] /\ answers'[t] = answers[t]
      /\ status'[t] = "none" <=> status[t] = "none"
      /\ t \in mishap' \/ answers'[t] = answers[t]
            \/ (answers'[t] = jobs[a].verdict /\ jobs[a].stage = "flip" /\ status[t] = "pending")
  BY DEF Flip, ApplyFails, TypeOK
<1>6. \A r \in Turns \ {t} : Applying(r)' <=> Applying(r)
  BY <1>3, IdleTypes, SlotConflictAssumption DEF Applying
<1>7. Applying(t)
  BY DEF Applying
<1>8. TypeOK'
  BY <1>2, <1>3, <1>4 DEF TypeOK, JobSet
<1>9. TurnInv'
  BY <1>2, <1>4, <1>5, <1>6, <1>7 DEF TurnInv
<1>10. ExpiryInv'
  <2>1. \A r \in Turns : (status'[r] = "none" => status[r] = "none") /\ (status'[r] = "pending" => status[r] = "pending")
    BY <1>4, <1>5
  <2> QED
    BY <1>2, <2>1 DEF ExpiryInv, TypeOK
<1>11. Alone'
  BY <1>3, <1>4, IdleTypes DEF Alone
<1>12. AnswersInv'
  <2>1. \A r \in Turns : Undisturbed(r)
    BY <1>2, <1>4, <1>5 DEF Undisturbed
  <2> QED
    BY <1>2, <1>3, <1>4, <2>1, AnswersStand
<1>13. SilenceKeepsTheCard' /\ OneQuestionPerDisagreement'
  <2>1. \A r \in Turns : status'[r] = "pending" => status[r] = "pending"
    BY <1>4, <1>5
  <2> QED
    BY <1>2, <2>1, SilenceFrame, OneQuestionFrame DEF Promises
<1>14. OpenQuestionsKeepTheirClaim'
  BY <1>2, <1>4, <1>5, <1>6 DEF Promises, OpenQuestionsKeepTheirClaim
<1>15. RetiredIsReplaced'
  BY <1>1, <1>2, <1>4, <1>5 DEF Promises, RetiredIsReplaced, Answer
<1> QED
  BY <1>8, <1>9, <1>10, <1>11, <1>12, <1>13, <1>14, <1>15 DEF Promises

---------------------------------------------------------------------------
(* The sweeps, time and crashes.                                           *)

LEMMA ExpireHolds ==
    ASSUME IInv, ExpireRead \/ ExpireFlip
    PROVE  IInv'
<1> USE DEF IInv
<1>1. UNCHANGED <<said, many, card, turn, claim, age, jobs, faults, answers, word, mishap>>
  BY DEF ExpireRead, ExpireFlip
<1>2. \A r : Applying(r)' <=> Applying(r)
  BY <1>1 DEF Applying
<1>3. /\ status' \in [Turns -> {"none", "pending", "applied", "expired"}]
      /\ doomed' \subseteq Turns /\ expiry' \in {"idle", "read", "flipped"}
      /\ \A r \in Turns : /\ status'[r] = status[r] \/ (status[r] = "pending" /\ status'[r] = "expired")
  BY DEF ExpireRead, ExpireFlip, TypeOK, Overdue
<1>4. TypeOK'
  BY <1>1, <1>3 DEF TypeOK
<1>5. TurnInv' /\ Alone'
  BY <1>1, <1>2, <1>3 DEF TurnInv, Alone
<1>6. ExpiryInv'
  <2>1. CASE ExpireRead
    BY <1>1, <2>1 DEF ExpireRead, ExpiryInv, Overdue
  <2>2. CASE ExpireFlip
    <3>1. \A r \in doomed : status'[r] \notin {"none", "pending"} /\ age[r] = 3 /\ r \in Turns
      BY <2>2 DEF ExpireFlip, ExpiryInv, Overdue, TypeOK
    <3> QED
      BY <1>1, <2>2, <3>1 DEF ExpireFlip, ExpiryInv
  <2> QED
    BY <2>1, <2>2
<1>7. AnswersInv'
  BY <1>1, <1>3, AnswersStand DEF Undisturbed
<1>8. SilenceKeepsTheCard' /\ OneQuestionPerDisagreement'
  BY <1>1, <1>3, SilenceFrame, OneQuestionFrame DEF Promises
<1>9. OpenQuestionsKeepTheirClaim' /\ RetiredIsReplaced'
  BY <1>1, <1>2, <1>3 DEF Promises, OpenQuestionsKeepTheirClaim, RetiredIsReplaced
<1> QED
  BY <1>4, <1>5, <1>6, <1>7, <1>8, <1>9 DEF Promises

\* Claims are dropped by a sweep only behind questions that are not pending.
LEMMA DropHolds ==
    ASSUME IInv, (\E t \in Turns : ExpireDrop(t)) \/ sweep_orphan_held
    PROVE  IInv'
<1> USE DEF IInv
<1>1. UNCHANGED <<said, many, card, turn, status, age, jobs, answers, word>>
  BY DEF ExpireDrop, sweep_orphan_held
<1>2. \A r : Applying(r)' <=> Applying(r)
  BY <1>1 DEF Applying
<1>3. /\ claim' \in [Turns -> {"none", "held", "queued", "stored", "dropped"}]
      /\ \A r \in Turns : claim'[r] = claim[r] \/ (claim[r] = "held" /\ claim'[r] = "dropped" /\ status[r] # "pending")
      /\ mishap \subseteq mishap' /\ mishap' \subseteq Turns /\ faults' \in 0 .. MaxFaults
      /\ doomed' \subseteq doomed /\ expiry' \in {"idle", "read", "flipped"}
      /\ expiry' = "idle" => doomed' = {}
      /\ expiry' = "flipped" => expiry = "flipped"
  <2>1. ASSUME NEW t \in Turns, ExpireDrop(t)
        PROVE  /\ status[t] # "pending" /\ doomed' = doomed \ {t} /\ expiry = "flipped"
               /\ expiry' = IF doomed' = {} THEN "idle" ELSE "flipped"
               /\ \/ claim' = [claim EXCEPT ![t] = IF @ = "held" THEN "dropped" ELSE @] /\ UNCHANGED <<faults, mishap>>
                  \/ Fault /\ mishap' = mishap \cup {t} /\ UNCHANGED claim
    BY <2>1 DEF ExpireDrop, ExpiryInv, BestEffort, discard_held
  <2>2. CASE \E t \in Turns : ExpireDrop(t)
    <3> PICK t \in Turns : ExpireDrop(t)
      BY <2>2
    <3>1. mishap \subseteq mishap' /\ mishap' \subseteq Turns /\ faults' \in 0 .. MaxFaults
      BY <2>1, SlotConflictAssumption DEF Fault, TypeOK
    <3>2. /\ claim' \in [Turns -> {"none", "held", "queued", "stored", "dropped"}]
          /\ \A r \in Turns : claim'[r] = claim[r] \/ (claim[r] = "held" /\ claim'[r] = "dropped" /\ status[r] # "pending")
      BY <2>1 DEF TypeOK
    <3> QED
      BY <2>1, <3>1, <3>2
  <2>3. CASE sweep_orphan_held
    BY <2>3 DEF sweep_orphan_held, Orphans, TypeOK, ExpiryInv
  <2> QED
    BY <2>2, <2>3
<1>4. TypeOK'
  BY <1>1, <1>3 DEF TypeOK
<1>5. TurnInv' /\ Alone'
  BY <1>1, <1>2, <1>3 DEF TurnInv, Alone
<1>6. ExpiryInv'
  BY <1>1, <1>3 DEF ExpiryInv
<1>7. AnswersInv'
  BY <1>1, <1>3, AnswersStand DEF Undisturbed
<1>8. SilenceKeepsTheCard' /\ OneQuestionPerDisagreement'
  BY <1>1, <1>3, SilenceFrame, OneQuestionFrame DEF Promises
<1>9. OpenQuestionsKeepTheirClaim' /\ RetiredIsReplaced'
  BY <1>1, <1>2, <1>3 DEF Promises, OpenQuestionsKeepTheirClaim, RetiredIsReplaced
<1> QED
  BY <1>4, <1>5, <1>6, <1>7, <1>8, <1>9 DEF Promises

LEMMA TimeHolds ==
    ASSUME IInv, NEW t \in Turns, Promote(t) \/ Age(t)
    PROVE  IInv'
<1> USE DEF IInv
<1>1. UNCHANGED <<said, many, card, turn, status, jobs, doomed, expiry, faults, answers, word, mishap>>
  BY DEF Promote, Age
<1>2. \A r : Applying(r)' <=> Applying(r)
  BY <1>1 DEF Applying
<1>3. /\ claim' \in [Turns -> {"none", "held", "queued", "stored", "dropped"}]
      /\ \A r \in Turns : claim'[r] = claim[r] \/ (claim[r] = "queued" /\ claim'[r] = "stored")
      /\ age' \in [Turns -> 0 .. 3] /\ \A r \in Turns : age[r] = 3 => age'[r] = 3
  <2>1. CASE Promote(t)
    BY <2>1 DEF Promote, TypeOK
  <2>2. CASE Age(t)
    <3>1. age \in [Turns -> 0 .. 3] /\ age[t] < 3 /\ age' = [age EXCEPT ![t] = @ + 1] /\ UNCHANGED claim
      BY <2>2 DEF Age, TypeOK
    <3> QED
      BY <3>1 DEF TypeOK
  <2> QED
    BY <2>1, <2>2
<1>4. TypeOK'
  BY <1>1, <1>3 DEF TypeOK
<1>5. TurnInv' /\ Alone'
  BY <1>1, <1>2, <1>3 DEF TurnInv, Alone
<1>6. ExpiryInv'
  BY <1>1, <1>3 DEF ExpiryInv, TypeOK
<1>7. AnswersInv'
  BY <1>1, <1>3, AnswersStand DEF Undisturbed
<1>8. SilenceKeepsTheCard' /\ OneQuestionPerDisagreement'
  BY <1>1, <1>3, SilenceFrame, OneQuestionFrame DEF Promises
<1>9. OpenQuestionsKeepTheirClaim' /\ RetiredIsReplaced'
  BY <1>1, <1>2, <1>3 DEF Promises, OpenQuestionsKeepTheirClaim, RetiredIsReplaced
<1> QED
  BY <1>4, <1>5, <1>6, <1>7, <1>8, <1>9 DEF Promises

LEMMA CrashHolds ==
    ASSUME IInv, Crash
    PROVE  IInv'
<1> USE DEF IInv
<1>1. /\ UNCHANGED <<said, many, card, status, claim, age, answers, word>>
      /\ faults' \in 0 .. MaxFaults /\ doomed' = {} /\ expiry' = "idle"
  BY SlotConflictAssumption DEF Crash, Fault, TypeOK
<1>2. jobs' \in [Actors -> JobSet] /\ \A b \in Actors : jobs'[b] = Idle
  BY IdleTypes DEF Crash
<1>3. /\ turn' \in [Turns -> {"idle", "claiming", "asking", "parking", "done"}]
      /\ \A r \in Turns : turn'[r] = (IF turn[r] = "idle" THEN "idle" ELSE "done")
  BY DEF Crash
<1>4. /\ mishap \subseteq mishap' /\ mishap' \subseteq Turns
      /\ \A r \in Turns : turn[r] = "parking" \/ Applying(r) => r \in mishap'
  BY DEF Crash, TypeOK
<1>5. \A r \in Turns : ~Applying(r)'
  BY <1>2, IdleTypes, SlotConflictAssumption DEF Applying
<1>6. TypeOK'
  BY <1>1, <1>2, <1>3, <1>4 DEF TypeOK, JobSet
<1>7. TurnInv'
  BY <1>1, <1>3, <1>4, <1>5 DEF TurnInv
<1>8. ExpiryInv' /\ Alone'
  BY <1>1, <1>2, IdleTypes DEF ExpiryInv, Alone
<1>9. AnswersInv'
  BY <1>1, <1>2, <1>4, AnswersStand DEF Undisturbed
<1>10. SilenceKeepsTheCard' /\ OneQuestionPerDisagreement'
  BY <1>1, SilenceFrame, OneQuestionFrame DEF Promises
<1>11. OpenQuestionsKeepTheirClaim'
  <2> SUFFICES ASSUME NEW r \in Turns, r \notin mishap', status[r] = "pending", turn'[r] = "done", said[r] # Filed
               PROVE  claim[r] = "held"
    BY <1>1 DEF OpenQuestionsKeepTheirClaim
  <2>1. turn[r] = "done" /\ ~Applying(r) /\ r \notin mishap
    BY <1>3, <1>4 DEF TurnInv, TypeOK
  <2> QED
    BY <2>1 DEF Promises, OpenQuestionsKeepTheirClaim
<1>12. RetiredIsReplaced'
  BY <1>1, <1>4 DEF Promises, RetiredIsReplaced
<1> QED
  BY <1>6, <1>7, <1>8, <1>9, <1>10, <1>11, <1>12 DEF Promises

LEMMA InvStart == Init => IInv
<1> SUFFICES ASSUME Init PROVE IInv
  OBVIOUS
<1>1. jobs \in [Actors -> JobSet] /\ \A a \in Actors : jobs[a] = Idle
  BY IdleTypes DEF Init
<1>2. \A t \in Turns : ~Applying(t)
  BY <1>1, IdleTypes, SlotConflictAssumption DEF Applying
<1>3. many \in BOOLEAN
  BY DEF Init
<1>4. TypeOK
  BY <1>1, <1>3, SlotConflictAssumption DEF Init, TypeOK, JobSet
<1>5. TurnInv
  BY <1>2 DEF Init, TurnInv
<1>6. ExpiryInv /\ Alone /\ AnswersInv
  BY <1>1, IdleTypes DEF Init, ExpiryInv, Alone, AnswersInv
<1>7. Promises
  BY DEF Init, Promises, OneQuestionPerDisagreement, OpenQuestionsKeepTheirClaim, SilenceKeepsTheCard,
     RetiredIsReplaced
<1> QED
  BY <1>4, <1>5, <1>6, <1>7 DEF IInv

LEMMA InvStep == IInv /\ [Next]_vars => IInv'
<1> SUFFICES ASSUME IInv, [Next]_vars PROVE IInv'
  OBVIOUS
<1>1. ASSUME NEW a \in Callers, NEW t \in Turns, NEW v \in Verdicts, apply_proposal(a, t, v) PROVE IInv'
  <2>1. word \subseteq word' /\ word' \subseteq Turns /\ (v = "retire" => t \in word')
    BY <1>1 DEF apply_proposal, IInv, TypeOK
  <2> QED
    BY <1>1, <2>1, LoadHolds DEF apply_proposal, Actors
<1>2. ASSUME NEW t \in Turns, auto_apply_overdue(t) PROVE IInv'
  <2>1. word' = word /\ word \subseteq Turns
    BY <1>2 DEF auto_apply_overdue, IInv, TypeOK
  <2>2. PICK v \in Verdicts : v # "retire" /\ Load(Sweep, t, v)
    BY <1>2 DEF auto_apply_overdue, Recommended, Verdicts
  <2> QED
    BY <2>1, <2>2, LoadHolds DEF Actors
<1>3. ASSUME NEW a \in Actors, ApplyStep(a) PROVE IInv'
  BY <1>3, ClaimHolds, RetireHolds, EndHolds DEF ApplyStep
<1>4. CASE UNCHANGED vars
  <2>1. UNCHANGED <<said, many, card, turn, status, claim, age, jobs, doomed, expiry, faults, answers, word, mishap>>
    BY <1>4 DEF vars
  <2>2. \A r : Applying(r)' <=> Applying(r)
    BY <2>1 DEF Applying
  <2>3. TypeOK' /\ TurnInv' /\ ExpiryInv' /\ Alone'
    BY <2>1, <2>2 DEF IInv, TypeOK, TurnInv, ExpiryInv, Alone
  <2>4. AnswersInv'
    BY <2>1, AnswersStand DEF IInv, Undisturbed
  <2>5. Promises'
    BY <2>1, <2>2, SilenceFrame, OneQuestionFrame
    DEF IInv, Promises, OpenQuestionsKeepTheirClaim, RetiredIsReplaced
  <2> QED
    BY <2>3, <2>4, <2>5 DEF IInv
<1> QED
  BY <1>1, <1>2, <1>3, <1>4, LookingHolds, EmitHolds, ParkHolds, ExpireHolds, DropHolds, TimeHolds, CrashHolds
  DEF Next, TurnStep, NightStep, Actors

LEMMA Invariance == Spec => []IInv
<1> QED
  BY InvStart, InvStep, PTL DEF Spec

---------------------------------------------------------------------------

\* Types are preserved by turns, answers and sweeps.
THEOREM TypesHold == Spec => []TypeOK
<1> QED
  BY Invariance, PTL DEF IInv

\* At most one question about a value is pending, however many turns claimed
\* it and looked before any of them asked: the unique index closes the race
\* that the lookup of ask_the_owner_of_the_slot leaves open.
THEOREM QuestionsAreNotDoubled == Spec => []OneQuestionPerDisagreement
<1> QED
  BY Invariance, PTL DEF IInv, Promises

\* Neither the expiry nor the orphan sweep takes away the claim of a question
\* that still waits for its answer, whatever their interleaving.
THEOREM ClaimsWait == Spec => []OpenQuestionsKeepTheirClaim
<1> QED
  BY Invariance, PTL DEF IInv, Promises

\* Only a person's word retires the stored value or lets a refused claim take
\* its place; the nightly sweep lets it in only where two values may stand.
THEOREM SilenceChangesNothing == Spec => []SilenceKeepsTheCard
<1> QED
  BY Invariance, PTL DEF IInv, Promises

\* An answer recorded as a retirement has brought the value that replaces the
\* retired one, unless answers overlapped or a fault cut one short.
THEOREM RetirementsReplace == Spec => []RetiredIsReplaced
<1> QED
  BY Invariance, PTL DEF IInv, Promises
============================================================================
