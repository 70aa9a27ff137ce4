-------------------------- MODULE SmartWikiProofs ---------------------------
(***************************************************************************)
(* Why a push of a careful device overwrites nothing it has not seen and an  *)
(* undo takes back only its own push, for any devices, pages, requests and   *)
(* failures, when one operation runs at a time; and why a lease gives way    *)
(* only to another lease, whatever overlaps.                                 *)
(***************************************************************************)
EXTENDS SmartWiki, FiniteSetTheorems, WellFoundedInduction, TLAPS

\* An operation under way knows the row of the log or of the leases it is about.
Placed(j) ==
    /\ j.stage = "acquire" => j.op \in 0..MaxLeases
    /\ j.stage = "record" => j.op \in 0..MaxOps
    /\ j.stage \in {"restore", "undo"} =>
          j.op \in DOMAIN log /\ j.todo \subseteq DOMAIN log[j.op].touched

TypeInv == TypeOK /\ log \in Seq(LogRows) /\ \A a \in Actors : Placed(jobs[a])

\* One operation at a time.
Alone == \A a, b \in Actors : jobs[a] # Idle /\ jobs[b] # Idle => a = b

-----------------------------------------------------------------------------
(* Leases.                                                                  *)

\* MAX_TTL_SECS is 300 and EXPIRER_CLEANUP_GRACE_SECS 3600: the expirer releases
\* no lease that acquire found active before the window acquire grants is over.
GraceIsLong == Ttl <= Grace + 2

\* A device that has time left on a grant has it on a lease that stands.
Granted(e) ==
    told[e].left > 0 =>
        /\ told[e].id \in Active /\ held_by(told[e].id, e)
        /\ told[e].left <= leases[told[e].id].left

\* A row about to be extended is the caller's while it is there, and the expirer
\* passes over it as long as the new window has not gone by.
Extending(d) ==
    jobs[d].stage = "acquire" /\ jobs[d].op # 0 =>
        /\ leases[jobs[d].op].holder \in {d, Operator}
        /\ jobs[d].left > 0 =>
              /\ held_by(jobs[d].op, d) /\ ~leases[jobs[d].op].released
              /\ jobs[d].left - Ttl < leases[jobs[d].op].left

Leased == \A d \in Devices : Granted(d) /\ Extending(d)

LeaseInv == TypeInv /\ Leased

-----------------------------------------------------------------------------
(* Pushes, pulls and undo.                                                  *)

\* Bodies of pushes before push v.
Below(f, v) == \A p \in DOMAIN f : -v < f[p] /\ f[p] < v
LogBelow(v) == \A n \in DOMAIN log : Below(log[n].touched, v) /\ Below(log[n].after, v)

\* A row of the log is about the pages it holds the pre-images of, and a push
\* changed each of them.
Rows == \A n \in Writes :
    /\ DOMAIN log[n].after = DOMAIN log[n].touched
    /\ log[n].by # Operator => \A p \in DOMAIN log[n].touched : log[n].touched[p] # log[n].after[p]

\* A careful device has seen every page that is as its last write left it, when
\* the head it holds covers that write.
Seen == \A d \in Careful, p \in Pages : \A n \in LastWrite(p) :
            n <= head[d] /\ log[n].after[p] = disk[p] => SameBody(disk[p], seen[d][p])

\* No body is newer than the last push, and no head newer than the log.
LogOK ==
    /\ Rows /\ Seen /\ LogBelow(minted + 1) /\ Below(disk, minted + 1)
    /\ \A d \in Devices : head[d] <= Len(log)
    /\ ~meta => log = <<>>

\* A push is newer than everything before it, and has read what it overwrites;
\* that of a careful device has seen the whole log.
Pushing(d, j) ==
    /\ j.stage \in {"forge", "gate", "snapshot", "write"} =>
          j.ver = minted /\ j.ver > 0 /\ LogBelow(j.ver)
    /\ j.stage \in {"forge", "gate", "snapshot"} => Below(disk, j.ver)
    /\ j.stage = "forge" => j.todo = j.pages /\ j.deletes = {} /\ log = <<>>
    /\ j.stage = "write" => Below(j.touched, j.ver) /\ DOMAIN j.touched = j.pages \cup j.deletes
    /\ j.stage \in {"gate", "snapshot", "write"} => meta
    /\ d \in Careful =>
          /\ j.stage = "gate" => j.op = head[d] /\ j.op # 0
          /\ j.stage \in {"snapshot", "write"} => \A n \in Writes : n <= head[d]

\* A pull of a careful device holds the pages as they are.
Pulling(d, j) ==
    /\ j.stage \in {"head", "record"} => meta
    /\ j.stage = "record" => j.op <= Len(log)
    /\ d \in Careful /\ j.stage \in {"head", "record"} => j.touched = disk

\* An undo is of the last write of each of its pages.
Undoing(j) ==
    j.stage \in {"restore", "undo"} =>
        /\ j.op \in Writes /\ log[j.op].by # Operator
        /\ \A m \in Writes : m > j.op => DOMAIN log[m].touched \cap DOMAIN log[j.op].touched = {}
        /\ j.stage = "undo" => DOMAIN j.touched = DOMAIN log[j.op].touched

Fits(a, j) ==
    /\ Below(j.touched, minted + 1)
    /\ a \in Devices => Pushing(a, j) /\ Pulling(a, j)
    /\ a = Operator => Undoing(j)

LogInv == TypeInv /\ Alone /\ LogOK /\ \A a \in Actors : Fits(a, jobs[a])

-----------------------------------------------------------------------------
(* Types.                                                                   *)

LEMMA ActorsAre == Operator \in Actors /\ Devices \subseteq Actors /\ Operator \notin Devices
BY SmartWikiAssumption DEF Actors

LEMMA NoPreImage == <<>> \in PreImages /\ DOMAIN <<>> = {}
<1>1. DOMAIN <<>> = {} /\ <<>> \in [{} -> Bodies]
  OBVIOUS
<1> QED
  BY <1>1 DEF PreImages

LEMMA PreImagesAre ==
    /\ \A S \in SUBSET Pages : \A f \in [S -> Bodies] : f \in PreImages
    /\ \A f \in PreImages : DOMAIN f \subseteq Pages /\ \A p \in DOMAIN f : f[p] \in Bodies
BY DEF PreImages

LEMMA IdleIsAJob ==
    /\ Idle \in Jobs /\ Idle.stage = "idle" /\ Idle.mode = "none" /\ Idle.left = 0
    /\ Idle.touched = <<>> /\ Idle.todo = {}
BY NoPreImage, SmartWikiAssumption DEF Idle, Jobs, Stages

LEMMA ZeroIsABody == 0 \in Bodies
BY SmartWikiAssumption DEF Bodies

\* The log with a row more.
LEMMA LogGrows ==
    ASSUME log \in Seq(LogRows), NEW row \in LogRows, log' = Append(log, row)
    PROVE  /\ log' \in Seq(LogRows) /\ Len(log') = Len(log) + 1
           /\ DOMAIN log' = DOMAIN log \cup {Len(log) + 1} /\ Len(log) + 1 \notin DOMAIN log
           /\ \A n \in DOMAIN log : log'[n] = log[n]
           /\ log'[Len(log) + 1] = row
OBVIOUS

\* The log with fewer pre-images to undo with.
LEMMA LogDrops ==
    ASSUME log \in Seq(LogRows), NEW n \in DOMAIN log, DropUndo(n)
    PROVE  /\ log' \in Seq(LogRows) /\ Len(log') = Len(log) /\ DOMAIN log' = DOMAIN log
           /\ \A m \in DOMAIN log : /\ log'[m].kind = log[m].kind /\ log'[m].by = log[m].by
                                    /\ log'[m].touched = log[m].touched /\ log'[m].after = log[m].after
<1> DEFINE cut(m) == IF m <= n THEN [log[m] EXCEPT !.undo = FALSE] ELSE log[m]
<1>1. log' = [m \in DOMAIN log |-> cut(m)] /\ DOMAIN log = 1..Len(log) /\ Len(log) \in Nat
  BY DEF DropUndo
<1>2. ASSUME NEW m \in DOMAIN log
      PROVE  /\ cut(m) \in LogRows /\ cut(m).kind = log[m].kind /\ cut(m).by = log[m].by
             /\ cut(m).touched = log[m].touched /\ cut(m).after = log[m].after
  <2>1. log[m] \in LogRows
    OBVIOUS
  <2> QED
    BY <2>1 DEF LogRows
<1> HIDE DEF cut
<1>3. log' \in Seq(LogRows) /\ Len(log') = Len(log)
  BY <1>1, <1>2
<1> QED
  BY <1>1, <1>2, <1>3

\* An operation goes on, and the log is as it was.
LEMMA JobTypes ==
    ASSUME TypeInv, NEW a \in Actors, NEW j \in Jobs, Does(a, j), UNCHANGED log,
           Placed(j)
    PROVE  /\ jobs' \in [Actors -> Jobs] /\ \A b \in Actors : Placed(jobs[b])'
           /\ log' \in Seq(LogRows) /\ Len(log') <= MaxOps /\ \A n \in DOMAIN log' : log'[n] \in LogRows
<1>1. jobs' \in [Actors -> Jobs] /\ jobs'[a] = j /\ \A b \in Actors \ {a} : jobs'[b] = jobs[b]
  BY DEF TypeInv, TypeOK, Does
<1>2. ASSUME NEW b \in Actors PROVE Placed(jobs[b])'
  <2>1. Placed(jobs'[b])
    BY <1>1 DEF TypeInv
  <2> QED
    BY <2>1 DEF Placed
<1> QED
  BY <1>1, <1>2 DEF TypeInv, TypeOK

\* An operation ends with a row of the log, and whoever is in an undo still has
\* its row.
LEMMA RecordTypes ==
    ASSUME TypeInv, NEW a \in Actors, Does(a, Idle),
           NEW kind \in {"push", "pull"}, NEW by \in Actors, NEW undo \in BOOLEAN,
           NEW touched \in PreImages, NEW after \in PreImages,
           Record(kind, by, undo, touched, after)
    PROVE  /\ jobs' \in [Actors -> Jobs] /\ \A b \in Actors : Placed(jobs[b])'
           /\ log' \in Seq(LogRows) /\ Len(log') <= MaxOps /\ \A n \in DOMAIN log' : log'[n] \in LogRows
           /\ Len(log) + 1 \in 0..MaxOps
<1> DEFINE row == [kind |-> kind, by |-> by, undo |-> undo, touched |-> touched, after |-> after]
<1>1. row \in LogRows /\ log' = Append(log, row) /\ Len(log) < MaxOps /\ MaxOps \in Nat /\ log \in Seq(LogRows)
  BY SmartWikiAssumption DEF LogRows, Record, TypeInv
<1> HIDE DEF row
<1>2. /\ log' \in Seq(LogRows) /\ Len(log') = Len(log) + 1 /\ DOMAIN log \subseteq DOMAIN log'
      /\ \A n \in DOMAIN log : log'[n] = log[n]
  BY <1>1, LogGrows
<1>3. jobs' \in [Actors -> Jobs] /\ jobs'[a] = Idle /\ \A b \in Actors \ {a} : jobs'[b] = jobs[b]
  BY IdleIsAJob DEF TypeInv, TypeOK, Does
<1>4. ASSUME NEW b \in Actors PROVE Placed(jobs[b])'
  <2>1. CASE b = a
    BY <1>3, <2>1, IdleIsAJob DEF Placed
  <2>2. CASE b # a
    BY <1>2, <1>3, <2>2 DEF Placed, TypeInv
  <2> QED
    BY <2>1, <2>2
<1>5. Len(log) \in Nat
  BY <1>1
<1> QED
  BY <1>1, <1>2, <1>3, <1>4, <1>5

\* Of some leases one is the latest.
LEMMA LatestExists ==
    ASSUME NEW N \in Nat, NEW A \in SUBSET (1..N), A # {}
    PROVE  \E n \in A : \A m \in A : m <= n
<1> DEFINE B == {k \in Nat : N - k \in A}
<1>1. PICK n \in A : TRUE
  OBVIOUS
<1>2. N - n \in Nat /\ N - (N - n) = n
  BY <1>1
<1>3. N - n \in B
  BY <1>1, <1>2
<1>4. B \subseteq Nat
  OBVIOUS
<1>5. PICK k \in B : \A l \in B : <<l, k>> \notin OpToRel(<, Nat)
  <2> HIDE DEF B
  <2> QED
    BY <1>3, <1>4, NatLessThanWellFounded, WFMin
<1>6. \A l \in B : ~(l < k)
  BY <1>5 DEF OpToRel
<1>7. ASSUME NEW m \in A PROVE m <= N - k
  <2>1. m \in 1..N /\ N - m \in Nat /\ N - (N - m) = m
    OBVIOUS
  <2>2. N - m \in B
    BY <2>1
  <2>3. ~(N - m < k) /\ k \in Nat
    BY <1>6, <2>2
  <2> QED
    BY <2>1, <2>3
<1> QED
  BY <1>5, <1>7

\* The lease a push or an acquire goes by is an active one.
LEMMA ActiveLeaseIsActive ==
    ASSUME MaxLeases \in Nat
    PROVE  /\ active_lease_for = 0 <=> Active = {}
           /\ active_lease_for # 0 => active_lease_for \in Active
<1>1. CASE Active = {}
  BY <1>1 DEF active_lease_for
<1>2. CASE Active # {}
  <2>1. Active \in SUBSET (1..MaxLeases)
    BY DEF Active
  <2>2. \E n \in Active : \A m \in Active : m <= n
    BY <1>2, <2>1, LatestExists
  <2>3. (CHOOSE n \in Active : \A m \in Active : m <= n) \in Active
    BY <2>2
  <2>4. \A m \in Active : m # 0
    BY DEF Active
  <2> QED
    BY <1>2, <2>3, <2>4 DEF active_lease_for
<1> QED
  BY <1>1, <1>2

\* An acquire extends the row it read, if it is there, or inserts one under an
\* id nobody refers to.
LEMMA AcquireWrites ==
    ASSUME NEW d \in Devices, MaxLeases \in Nat, jobs[d].op \in 0..MaxLeases, AcquireWrite(d)
    PROVE  \E n \in 1..MaxLeases :
              /\ told' = [told EXCEPT ![d] = [id |-> n, left |-> jobs[d].left]]
              /\ \/ n = jobs[d].op /\ leases[n] = Free /\ leases' = leases
                 \/ n = jobs[d].op /\ leases' = [leases EXCEPT ![n].left = jobs[d].left]
                 \/ /\ jobs[d].op = 0 /\ ~Taken(n)
                    /\ leases' = [leases EXCEPT ![n] = [holder |-> d, left |-> jobs[d].left, released |-> FALSE]]
<1>1. CASE jobs[d].op # 0
  BY <1>1 DEF AcquireWrite
<1>2. CASE jobs[d].op = 0
  <2>1. PICK n \in 1..MaxLeases :
            /\ NewLease(n)
            /\ leases' = [leases EXCEPT ![n] = [holder |-> d, left |-> jobs[d].left, released |-> FALSE]]
            /\ told' = [told EXCEPT ![d] = [id |-> n, left |-> jobs[d].left]]
    BY <1>2 DEF AcquireWrite
  <2>2. n \in n..MaxLeases
    BY <2>1
  <2> QED
    BY <1>2, <2>1, <2>2 DEF NewLease
<1> QED
  BY <1>1, <1>2

\* What the push of a device is about stays as it was sent.
SamePush(new, j) ==
    new.mode = j.mode /\ new.ver = j.ver /\ new.pages = j.pages /\ new.deletes = j.deletes

LEMMA JobFacts ==
    ASSUME TypeInv, NEW a \in Actors
    PROVE  /\ jobs[a] \in Jobs /\ Placed(jobs[a])
           /\ jobs[a].ver \in Bodies /\ -jobs[a].ver \in Bodies /\ jobs[a].ver \in Nat
           /\ jobs[a].pages \subseteq Pages /\ jobs[a].deletes \subseteq Pages /\ jobs[a].todo \subseteq Pages
           /\ jobs[a].touched \in PreImages
           /\ \A p \in Pages : disk[p] \in Bodies
           /\ minted \in 0..MaxPushes /\ MaxPushes \in Nat
           /\ Len(log) \in 0..MaxOps /\ MaxOps \in Nat /\ MaxLeases \in Nat
<1>1. jobs[a] \in Jobs /\ Placed(jobs[a]) /\ minted \in 0..MaxPushes /\ log \in Seq(LogRows)
      /\ Len(log) <= MaxOps /\ \A p \in Pages : disk[p] \in Bodies
  BY DEF TypeInv, TypeOK
<1>2. Len(log) \in Nat
  BY <1>1
<1>3. jobs[a].ver \in Bodies /\ -jobs[a].ver \in Bodies /\ jobs[a].ver \in Nat
  BY <1>1, SmartWikiAssumption DEF Jobs, Bodies
<1> QED
  BY <1>1, <1>2, <1>3, SmartWikiAssumption DEF Jobs

LEMMA CreateStarts ==
    ASSUME TypeInv, NEW d \in Devices, NEW r \in Requests, CreateStart(d, r)
    PROVE  /\ \E new \in Jobs :
                 /\ Does(d, new) /\ Placed(new) /\ new.stage = "forge" /\ new.mode = "create"
                 /\ new.ver = minted + 1 /\ new.todo = new.pages /\ new.deletes = {} /\ new.touched = <<>>
           /\ MayStart(d) /\ ~meta /\ minted' = minted + 1 /\ minted + 1 \in 0..MaxPushes
           /\ UNCHANGED <<wiki, leases, device, faults>>
<1> DEFINE flag == IF r.describe THEN 1 ELSE 0
           v == minted + 1
           P == r.pages
           new == [Idle EXCEPT !.stage = "forge", !.mode = "create", !.ver = v,
                               !.pages = P, !.todo = P, !.op = flag]
<1>1. Does(d, new) /\ MayStart(d) /\ ~meta /\ minted' = minted + 1 /\ minted < MaxPushes /\ Len(log) < MaxOps
      /\ UNCHANGED <<wiki, leases, device, faults>>
  BY DEF CreateStart, MayPush
<1>2. P \in SUBSET Pages /\ v \in 0..MaxPushes /\ flag \in 0..(MaxOps + MaxLeases)
  BY <1>1, JobFacts, ActorsAre, SmartWikiAssumption
<1>3. v = minted + 1
  OBVIOUS
<1> HIDE DEF flag, v, P
<1>4. new = [Idle EXCEPT !.stage = "forge", !.mode = "create", !.ver = v,
                         !.pages = P, !.todo = P, !.op = flag]
  OBVIOUS
<1> HIDE DEF new
<1>5. /\ new \in Jobs /\ Placed(new) /\ new.stage = "forge" /\ new.mode = "create" /\ new.ver = v
      /\ new.pages = P /\ new.todo = P /\ new.deletes = {} /\ new.touched = <<>>
  <2> DEFINE x == [Idle EXCEPT !.stage = "forge", !.mode = "create", !.ver = v]
  <2>1. Idle \in Jobs /\ Idle.deletes = {} /\ Idle.touched = <<>>
    BY IdleIsAJob DEF Idle
  <2>2. /\ x \in Jobs /\ x.stage = "forge" /\ x.mode = "create" /\ x.ver = v
        /\ x.deletes = {} /\ x.touched = <<>>
    BY <1>2, <2>1 DEF Jobs, Stages
  <2>3. new = [x EXCEPT !.pages = P, !.todo = P, !.op = flag]
    BY <1>4
  <2>4. P \in SUBSET Pages
    BY <1>2
  <2> HIDE DEF x
  <2>5. new \in Jobs /\ new.stage = "forge" /\ new.mode = "create" /\ new.ver = v
        /\ new.pages = P /\ new.todo = P /\ new.deletes = {} /\ new.touched = <<>>
    BY <1>2, <2>2, <2>3, <2>4 DEF Jobs
  <2> QED
    BY <2>5 DEF Placed
<1> QED
  BY <1>1, <1>2, <1>3, <1>5

LEMMA PushStarts ==
    ASSUME TypeInv, NEW d \in Devices, NEW r \in Requests, NEW g \in BOOLEAN, PushStart(d, r, g)
    PROVE  /\ \E new \in Jobs :
                 /\ Does(d, new) /\ Placed(new) /\ new.stage = "gate" /\ new.mode = "upsert"
                 /\ new.ver = minted + 1 /\ new.touched = <<>>
                 /\ d \in Careful => new.op = head[d] /\ head[d] # 0
           /\ MayStart(d) /\ meta /\ ~LockedOut(d) /\ minted' = minted + 1 /\ minted + 1 \in 0..MaxPushes
           /\ scope' \in {d, scope} /\ UNCHANGED <<meta, disk, log, leases, device, faults>>
<1> DEFINE expected == IF g THEN head[d] ELSE 0
           v == minted + 1
           P == r.pages
           D == r.deletes
           new == [Idle EXCEPT !.stage = "gate", !.mode = "upsert", !.ver = v, !.op = expected,
                               !.pages = P, !.deletes = D, !.todo = P \cup D]
<1>1. /\ Does(d, new) /\ MayStart(d) /\ meta /\ ~LockedOut(d) /\ minted' = minted + 1 /\ minted < MaxPushes
      /\ scope' \in {d, scope} /\ UNCHANGED <<meta, disk, log, leases, device, faults>>
      /\ d \in Careful => expected = head[d] /\ head[d] # 0
  BY DEF PushStart, MayPush, Described
<1>2. /\ P \in SUBSET Pages /\ D \in SUBSET Pages /\ v \in 0..MaxPushes
      /\ expected \in 0..(MaxOps + MaxLeases)
  <2>1. P \in SUBSET Pages /\ D \in SUBSET Pages
    BY SmartWikiAssumption
  <2>2. minted \in 0..MaxPushes /\ MaxPushes \in Nat /\ MaxOps \in Nat /\ MaxLeases \in Nat
    BY SmartWikiAssumption DEF TypeInv, TypeOK
  <2>3. v \in 0..MaxPushes
    BY <1>1, <2>2
  <2>4. head[d] \in 0..MaxOps
    BY DEF TypeInv, TypeOK
  <2>5. expected \in 0..(MaxOps + MaxLeases)
    BY <2>2, <2>4
  <2> QED
    BY <2>1, <2>3, <2>5
<1>3. v = minted + 1
  OBVIOUS
<1> HIDE DEF expected, v, P, D
<1>4. new = [Idle EXCEPT !.stage = "gate", !.mode = "upsert", !.ver = v, !.op = expected,
                         !.pages = P, !.deletes = D, !.todo = P \cup D]
  OBVIOUS
<1> HIDE DEF new
<1>5. /\ new \in Jobs /\ Placed(new) /\ new.stage = "gate" /\ new.mode = "upsert" /\ new.ver = v
      /\ new.op = expected /\ new.touched = <<>>
  <2> DEFINE x == [Idle EXCEPT !.stage = "gate", !.mode = "upsert", !.ver = v]
  <2>1. Idle \in Jobs /\ Idle.deletes = {} /\ Idle.touched = <<>>
    BY IdleIsAJob DEF Idle
  <2>2. /\ x \in Jobs /\ x.stage = "gate" /\ x.mode = "upsert" /\ x.ver = v
        /\ x.deletes = {} /\ x.touched = <<>>
    BY <1>2, <2>1 DEF Jobs, Stages
  <2>3. new = [x EXCEPT !.op = expected, !.pages = P, !.deletes = D, !.todo = P \cup D]
    BY <1>4
  <2>4. P \cup D \in SUBSET Pages
    BY <1>2
  <2> HIDE DEF x
  <2>5. new \in Jobs /\ new.stage = "gate" /\ new.mode = "upsert" /\ new.ver = v
        /\ new.op = expected /\ new.touched = <<>>
    BY <1>2, <2>2, <2>3, <2>4 DEF Jobs
  <2> QED
    BY <2>5 DEF Placed
<1> QED
  BY <1>1, <1>2, <1>3, <1>5

LEMMA MetaIsWritten ==
    ASSUME TypeInv, NEW d \in Devices, CreateMeta(d)
    PROVE  /\ \E new \in Jobs :
                 /\ Does(d, new) /\ Placed(new) /\ new.stage = "write" /\ SamePush(new, jobs[d])
                 /\ new.touched = [p \in jobs[d].todo |-> 0]
           /\ jobs[d].stage = "forge" /\ meta' = TRUE /\ scope' \in {d, Operator}
           /\ UNCHANGED <<disk, log, leases, device, minted, faults>>
<1> DEFINE j == jobs[d]
           image == [p \in j.todo |-> 0]
           new == [j EXCEPT !.stage = "write", !.op = 0, !.touched = image]
<1>1. Does(d, new) /\ meta' = TRUE /\ scope' \in {d, Operator} /\ j.stage = "forge"
      /\ UNCHANGED <<disk, log, leases, device, minted, faults>>
  BY DEF CreateMeta
<1>2. j \in Jobs /\ j.todo \in SUBSET Pages /\ 0 \in 0..(MaxOps + MaxLeases)
  BY JobFacts, ActorsAre
<1>3. image \in PreImages
  BY <1>2, ZeroIsABody, PreImagesAre
<1> HIDE DEF image, j
<1>4. new \in Jobs /\ new.stage = "write" /\ SamePush(new, j) /\ new.touched = image
  BY <1>2, <1>3 DEF Jobs, Stages, SamePush
<1> HIDE DEF new
<1>5. Placed(new)
  BY <1>4 DEF Placed
<1> QED
  BY <1>1, <1>4, <1>5 DEF image, j

LEMMA GateIsPassed ==
    ASSUME TypeInv, NEW d \in Devices, PushGate(d)
    PROVE  /\ \E new \in Jobs :
                 /\ Does(d, new) /\ Placed(new)
                 /\ \/ new = Idle
                    \/ /\ new.stage = "snapshot" /\ SamePush(new, jobs[d]) /\ ~ConflictingHead(jobs[d].op)
                       /\ new.touched = jobs[d].touched
           /\ jobs[d].stage = "gate" /\ UNCHANGED <<wiki, leases, device, minted, faults>>
<1> DEFINE j == jobs[d]
           new == [j EXCEPT !.stage = "snapshot"]
<1>1. Placed(Idle) /\ Idle \in Jobs
  BY IdleIsAJob DEF Placed
<1>2. new \in Jobs /\ new.stage = "snapshot" /\ SamePush(new, j) /\ new.touched = j.touched
  BY JobFacts, ActorsAre DEF Jobs, Stages, SamePush
<1>3. Does(d, IF ConflictingHead(j.op) THEN Idle ELSE new) /\ j.stage = "gate"
      /\ UNCHANGED <<wiki, leases, device, minted, faults>>
  BY DEF PushGate
<1> HIDE DEF new
<1>4. Placed(new)
  BY <1>2 DEF Placed
<1>5. CASE ConflictingHead(j.op)
  BY <1>1, <1>3, <1>5
<1>6. CASE ~ConflictingHead(j.op)
  BY <1>2, <1>3, <1>4, <1>6
<1> QED
  BY <1>5, <1>6

LEMMA PreImageIsTaken ==
    ASSUME TypeInv, NEW d \in Devices, PushSnapshot(d)
    PROVE  /\ \E new \in Jobs :
                 /\ Does(d, new) /\ Placed(new) /\ new.stage = "write" /\ SamePush(new, jobs[d])
                 /\ new.touched = [p \in jobs[d].pages \cup jobs[d].deletes |-> disk[p]]
           /\ jobs[d].stage = "snapshot" /\ UNCHANGED <<wiki, leases, device, minted, faults>>
<1> DEFINE j == jobs[d]
           image == [p \in j.pages \cup j.deletes |-> disk[p]]
           new == [j EXCEPT !.stage = "write", !.op = 0, !.touched = image]
<1>1. Does(d, new) /\ j.stage = "snapshot" /\ UNCHANGED <<wiki, leases, device, minted, faults>>
  BY DEF PushSnapshot, snapshot_pre_image
<1>2. j \in Jobs /\ j.pages \cup j.deletes \in SUBSET Pages /\ 0 \in 0..(MaxOps + MaxLeases)
      /\ \A p \in Pages : disk[p] \in Bodies
  BY JobFacts, ActorsAre
<1>3. image \in PreImages
  BY <1>2, PreImagesAre
<1> HIDE DEF image, j
<1>4. new \in Jobs /\ new.stage = "write" /\ SamePush(new, j) /\ new.touched = image
  BY <1>2, <1>3 DEF Jobs, Stages, SamePush
<1> HIDE DEF new
<1>5. Placed(new)
  BY <1>4 DEF Placed
<1> QED
  BY <1>1, <1>4, <1>5 DEF image, j

LEMMA PageIsPut ==
    ASSUME TypeInv, NEW d \in Devices, NEW p \in Pages, PushWrite(d, p) \/ PushDelete(d, p)
    PROVE  /\ \E new \in Jobs :
                 /\ Does(d, new) /\ Placed(new)
                 /\ new = Idle \/ (new.stage = "write" /\ SamePush(new, jobs[d]) /\ new.touched = jobs[d].touched)
           /\ jobs[d].stage = "write"
           /\ disk' \in {disk, [disk EXCEPT ![p] = jobs[d].ver], [disk EXCEPT ![p] = -jobs[d].ver]}
           /\ UNCHANGED <<meta, scope, log, leases, device, minted, faults>>
<1> DEFINE j == jobs[d]
           new == [j EXCEPT !.todo = @ \ {p}]
<1>1. Placed(Idle) /\ Idle \in Jobs
  BY IdleIsAJob DEF Placed
<1>2. j.stage = "write" /\ UNCHANGED <<meta, scope, log, leases, device, minted, faults>>
  BY DEF PushWrite, PushDelete
<1>3. new \in Jobs /\ new.stage = "write" /\ SamePush(new, j) /\ new.touched = j.touched
  BY <1>2, JobFacts, ActorsAre DEF Jobs, SamePush
<1>4. Does(d, Idle) \/ Does(d, new)
  BY DEF PushWrite, PushDelete
<1>5. disk' \in {disk, [disk EXCEPT ![p] = j.ver], [disk EXCEPT ![p] = -j.ver]}
  BY DEF PushWrite, PushDelete
<1> HIDE DEF new
<1>6. Placed(new)
  BY <1>3 DEF Placed
<1> QED
  BY <1>1, <1>2, <1>3, <1>4, <1>5, <1>6

LEMMA PushTypes ==
    ASSUME TypeInv, NEW d \in Devices, Push(d)
    PROVE  TypeInv'
<1> DEFINE j == jobs[d]
<1>0. /\ d \in Actors /\ TypeOK /\ disk \in [Pages -> Bodies]
      /\ j.ver \in Bodies /\ -j.ver \in Bodies /\ j.touched \in PreImages
      /\ j.pages \subseteq Pages /\ j.deletes \subseteq Pages
  BY ActorsAre, JobFacts DEF TypeInv, TypeOK
<1>1. ASSUME NEW r \in Requests, CreateStart(d, r) PROVE TypeInv'
  <2>1. PICK new \in Jobs : Does(d, new) /\ Placed(new)
    BY <1>1, CreateStarts
  <2>2. UNCHANGED <<wiki, leases, device, faults>> /\ minted' \in 0..MaxPushes
    BY <1>1, CreateStarts
  <2> QED
    BY <1>0, <2>1, <2>2, JobTypes DEF TypeInv, TypeOK, wiki, device
<1>2. CASE CreateMeta(d)
  <2>1. PICK new \in Jobs : Does(d, new) /\ Placed(new)
    BY <1>2, MetaIsWritten
  <2>2. /\ UNCHANGED <<disk, log, leases, device, minted, faults>>
        /\ meta' = TRUE /\ scope' \in {d, Operator}
    BY <1>2, MetaIsWritten
  <2> QED
    BY <1>0, <2>1, <2>2, JobTypes, ActorsAre DEF TypeInv, TypeOK, device
<1>3. ASSUME NEW r \in Requests, NEW g \in BOOLEAN, PushStart(d, r, g) PROVE TypeInv'
  <2>1. PICK new \in Jobs : Does(d, new) /\ Placed(new)
    BY <1>3, PushStarts
  <2>2. /\ UNCHANGED <<meta, disk, log, leases, device, faults>> /\ minted' = minted + 1
        /\ minted + 1 \in 0..MaxPushes /\ scope' \in {d, scope}
    BY <1>3, PushStarts
  <2>3. minted' \in 0..MaxPushes /\ scope' \in Actors
    <3>1. scope \in Actors
      BY <1>0 DEF TypeOK
    <3> QED
      BY <1>0, <2>2, <3>1
  <2> QED
    BY <1>0, <2>1, <2>2, <2>3, JobTypes DEF TypeInv, TypeOK, device
<1>4. CASE PushGate(d)
  <2>1. PICK new \in Jobs : Does(d, new) /\ Placed(new)
    BY <1>4, GateIsPassed
  <2>2. UNCHANGED <<wiki, leases, device, minted, faults>>
    BY <1>4, GateIsPassed
  <2> QED
    BY <1>0, <2>1, <2>2, JobTypes DEF TypeInv, TypeOK, wiki, device
<1>5. CASE PushSnapshot(d)
  <2>1. PICK new \in Jobs : Does(d, new) /\ Placed(new)
    BY <1>5, PreImageIsTaken
  <2>2. UNCHANGED <<wiki, leases, device, minted, faults>>
    BY <1>5, PreImageIsTaken
  <2> QED
    BY <1>0, <2>1, <2>2, JobTypes DEF TypeInv, TypeOK, wiki, device
<1>6. ASSUME NEW p \in Pages, PushWrite(d, p) \/ PushDelete(d, p) PROVE TypeInv'
  <2>1. disk' \in [Pages -> Bodies]
    BY <1>0, <1>6, PageIsPut
  <2> QED
    BY <1>0, <1>6, <2>1, PageIsPut, JobTypes DEF TypeInv, TypeOK, device
<1> HIDE DEF j
<1>7. CASE PushLog(d)
  <2>1. Sent(j) \in PreImages
    BY <1>0, PreImagesAre DEF Sent
  <2>2. Copies(d, Sent(j)) \in [Pages -> Bodies]
    <3>1. \A p \in DOMAIN Sent(j) : Sent(j)[p] \in Bodies
      BY <2>1, PreImagesAre
    <3>2. \A p \in Pages : seen[d][p] \in Bodies
      BY <1>0 DEF TypeOK
    <3> QED
      BY <3>1, <3>2 DEF Copies
  <2>3. /\ Does(d, Idle) /\ Record("push", d, j.mode = "upsert", j.touched, Sent(j))
        /\ head' = [head EXCEPT ![d] = Len(log) + 1]
        /\ seen' = [seen EXCEPT ![d] = Copies(d, Sent(j))]
        /\ UNCHANGED <<meta, scope, disk, leases, told, minted, faults>>
    BY <1>7 DEF PushLog, j
  <2>4. (j.mode = "upsert") \in BOOLEAN
    OBVIOUS
  <2> HIDE DEF j
  <2>5. /\ jobs' \in [Actors -> Jobs] /\ \A b \in Actors : Placed(jobs[b])'
        /\ log' \in Seq(LogRows) /\ Len(log') <= MaxOps /\ \A n \in DOMAIN log' : log'[n] \in LogRows
        /\ Len(log) + 1 \in 0..MaxOps
    BY <1>0, <2>1, <2>3, <2>4, RecordTypes
  <2> QED
    BY <1>0, <2>2, <2>3, <2>5 DEF TypeInv, TypeOK
<1> QED
  BY <1>1, <1>2, <1>3, <1>4, <1>5, <1>6, <1>7 DEF Push

LEMMA PullTypes ==
    ASSUME TypeInv, NEW d \in Devices, Pull(d)
    PROVE  TypeInv'
<1> DEFINE j == jobs[d]
<1>0. /\ d \in Actors /\ j \in Jobs /\ Placed(j) /\ TypeOK /\ MaxOps \in Nat /\ MaxLeases \in Nat
      /\ Len(log) \in 0..MaxOps /\ \A p \in Pages : disk[p] \in Bodies
  <2>1. d \in Actors /\ TypeOK /\ log \in Seq(LogRows) /\ MaxOps \in Nat /\ MaxLeases \in Nat
    BY ActorsAre, SmartWikiAssumption DEF TypeInv
  <2>2. Len(log) \in Nat
    BY <2>1
  <2> QED
    BY <2>1, <2>2 DEF TypeInv, TypeOK
<1> HIDE DEF j
<1>1. ASSUME NEW S \in Reads, PullRead(d, S) PROVE TypeInv'
  <2> DEFINE image == [p \in S |-> disk[p]]
             new == [Idle EXCEPT !.stage = "head", !.touched = image]
  <2>1. Does(d, new) /\ UNCHANGED <<wiki, leases, device, minted, faults>>
    BY <1>1 DEF PullRead
  <2>2. image \in PreImages
    BY <1>0, PreImagesAre, SmartWikiAssumption
  <2> HIDE DEF image
  <2>3. new \in Jobs /\ Placed(new)
    BY <2>2, IdleIsAJob DEF Jobs, Stages, Placed
  <2> HIDE DEF new
  <2> QED
    BY <1>0, <2>1, <2>3, JobTypes DEF TypeInv, TypeOK, wiki, device
<1>2. CASE PullHead(d)
  <2> DEFINE new == [j EXCEPT !.stage = "record", !.op = Len(log)]
  <2>1. Does(d, new) /\ UNCHANGED <<wiki, leases, device, minted, faults>>
    BY <1>2 DEF PullHead, j
  <2>2. new \in Jobs /\ Placed(new)
    <3> DEFINE n == Len(log)
    <3>1. n \in 0..MaxOps /\ n \in 0..(MaxOps + MaxLeases)
      BY <1>0
    <3> HIDE DEF n
    <3>2. [j EXCEPT !.stage = "record", !.op = n] \in Jobs /\ Placed([j EXCEPT !.stage = "record", !.op = n])
      BY <1>0, <3>1 DEF Jobs, Stages, Placed
    <3> QED
      BY <3>2 DEF n
  <2> HIDE DEF new
  <2> QED
    BY <1>0, <2>1, <2>2, JobTypes DEF TypeInv, TypeOK, wiki, device
<1>3. CASE PullLog(d)
  <2>1. j.touched \in PreImages /\ j.op \in 0..MaxOps
    BY <1>0, <1>3 DEF Jobs, PullLog, Placed, j
  <2>2. Copies(d, j.touched) \in [Pages -> Bodies]
    <3>1. \A p \in DOMAIN j.touched : j.touched[p] \in Bodies
      BY <2>1, PreImagesAre
    <3>2. \A p \in Pages : seen[d][p] \in Bodies
      BY <1>0 DEF TypeOK
    <3> QED
      BY <3>1, <3>2 DEF Copies
  <2>3. /\ Does(d, Idle) /\ Record("pull", d, FALSE, <<>>, <<>>)
        /\ head' = [head EXCEPT ![d] = j.op]
        /\ seen' = [seen EXCEPT ![d] = Copies(d, j.touched)]
        /\ UNCHANGED <<meta, scope, disk, leases, told, minted, faults>>
    BY <1>3 DEF PullLog, j
  <2>5. /\ jobs' \in [Actors -> Jobs] /\ \A b \in Actors : Placed(jobs[b])'
        /\ log' \in Seq(LogRows) /\ Len(log') <= MaxOps /\ \A n \in DOMAIN log' : log'[n] \in LogRows
    BY <1>0, <2>3, RecordTypes, NoPreImage
  <2> QED
    BY <1>0, <2>1, <2>2, <2>3, <2>5 DEF TypeInv, TypeOK
<1> QED
  BY <1>1, <1>2, <1>3 DEF Pull

LEMMA LeaseTypes ==
    ASSUME TypeInv, NEW d \in Devices, Lease(d)
    PROVE  TypeInv'
<1> DEFINE j == jobs[d]
<1>0. /\ d \in Actors /\ j \in Jobs /\ Placed(j) /\ TypeOK /\ j.left \in 0..Ttl
      /\ MaxOps \in Nat /\ MaxLeases \in Nat /\ Ttl \in Nat /\ Grace \in Nat
      /\ leases \in [1..MaxLeases -> Leases]
  <2>1. d \in Actors /\ TypeOK
    BY ActorsAre DEF TypeInv
  <2> QED
    BY <2>1, SmartWikiAssumption DEF TypeInv, TypeOK, Jobs
<1> HIDE DEF j
<1>1. CASE AcquireRead(d)
  <2> DEFINE n == active_lease_for
             new == [Idle EXCEPT !.stage = "acquire", !.op = n, !.left = Ttl]
  <2>1. Does(d, new) /\ UNCHANGED <<wiki, leases, device, minted, faults>>
    BY <1>1 DEF AcquireRead
  <2>2. n \in 0..MaxLeases /\ n \in 0..(MaxOps + MaxLeases)
    <3>1. \A m \in Active : m \in 1..MaxLeases
      BY DEF Active
    <3>2. n = 0 \/ n \in Active
      BY <1>0, ActiveLeaseIsActive
    <3> QED
      BY <1>0, <3>1, <3>2
  <2> HIDE DEF n
  <2>3. new \in Jobs /\ new.stage = "acquire" /\ new.op = n
    <3>1. Ttl \in 0..Ttl
      BY <1>0
    <3> QED
      BY <2>2, <3>1, IdleIsAJob DEF Jobs, Stages
  <2> HIDE DEF new
  <2>4. Placed(new)
    BY <2>2, <2>3 DEF Placed
  <2> QED
    BY <1>0, <2>1, <2>3, <2>4, JobTypes DEF TypeInv, TypeOK, wiki, device
<1>2. CASE AcquireWrite(d)
  <2>1. j.op \in 0..MaxLeases /\ Does(d, Idle) /\ UNCHANGED <<wiki, head, seen, minted, faults>>
    BY <1>0, <1>2 DEF AcquireWrite, Placed, j
  <2>2. \A n \in 1..MaxLeases : leases[n].left \in -(Grace + 1)..Ttl /\ [leases[n] EXCEPT !.left = j.left] \in Leases
    BY <1>0 DEF Leases
  <2>3. [holder |-> d, left |-> j.left, released |-> FALSE] \in Leases
    BY <1>0 DEF Leases
  <2>4. PICK n \in 1..MaxLeases :
            /\ told' = [told EXCEPT ![d] = [id |-> n, left |-> j.left]]
            /\ \/ leases' = leases
               \/ leases' = [leases EXCEPT ![n].left = j.left]
               \/ leases' = [leases EXCEPT ![n] = [holder |-> d, left |-> j.left, released |-> FALSE]]
    BY <1>0, <1>2, <2>1, AcquireWrites DEF j
  <2>5. leases' \in [1..MaxLeases -> Leases]
    BY <1>0, <2>2, <2>3, <2>4
  <2>6. told' \in [Devices -> [id : 0..MaxLeases, left : 0..Ttl]]
    <3>1. [id |-> n, left |-> j.left] \in [id : 0..MaxLeases, left : 0..Ttl]
      BY <1>0
    <3> QED
      BY <1>0, <2>4, <3>1 DEF TypeOK
  <2>7. Placed(Idle)
    BY IdleIsAJob DEF Placed
  <2> QED
    BY <1>0, <2>1, <2>5, <2>6, <2>7, JobTypes, IdleIsAJob DEF TypeInv, TypeOK, wiki
<1>3. CASE release(d)
  <2>1. leases' \in [1..MaxLeases -> Leases]
    <3>1. \A n \in 1..MaxLeases : [leases[n] EXCEPT !.released = TRUE] \in Leases
      BY <1>0 DEF Leases
    <3>2. told[d].id \in 1..MaxLeases
      BY <1>0, <1>3 DEF TypeOK, release
    <3> QED
      BY <1>0, <1>3, <3>1, <3>2 DEF release
  <2>2. told' \in [Devices -> [id : 0..MaxLeases, left : 0..Ttl]]
    BY <1>0, <1>3 DEF TypeOK, release, NoGrant
  <2>3. UNCHANGED <<wiki, jobs, head, seen, minted, faults>>
    BY <1>3 DEF release
  <2> QED
    BY <1>0, <2>1, <2>2, <2>3 DEF TypeInv, TypeOK, wiki, Placed
<1> QED
  BY <1>1, <1>2, <1>3 DEF Lease

LEMMA ClockTypes ==
    ASSUME TypeInv, expire_stale \/ Tick
    PROVE  TypeInv'
<1>0. /\ TypeOK /\ MaxLeases \in Nat /\ Ttl \in Nat /\ Grace \in Nat
      /\ \A n \in 1..MaxLeases : leases[n] \in Leases
  BY SmartWikiAssumption DEF TypeInv, TypeOK
<1>1. CASE expire_stale
  <2>1. Free \in Leases
    BY <1>0, ActorsAre DEF Free, Leases
  <2>2. \A n \in 1..MaxLeases : [leases[n] EXCEPT !.released = @ \/ (leases[n] # Free /\ leases[n].left < -Grace)] \in Leases
    BY <1>0 DEF Leases
  <2>3. leases' \in [1..MaxLeases -> Leases]
    BY <1>1, <2>1, <2>2 DEF expire_stale, over
  <2>4. UNCHANGED <<wiki, jobs, device, minted, faults>>
    BY <1>1 DEF expire_stale
  <2> QED
    BY <1>0, <2>3, <2>4 DEF TypeInv, TypeOK, wiki, device, Placed
<1>2. CASE Tick
  <2>1. leases' \in [1..MaxLeases -> Leases]
    <3>1. ASSUME NEW n \in 1..MaxLeases, leases[n].left > -(Grace + 1)
          PROVE  [leases[n] EXCEPT !.left = @ - 1] \in Leases
      BY <1>0, <3>1 DEF Leases
    <3> QED
      BY <1>0, <1>2, <3>1 DEF Tick
  <2>2. told' \in [Devices -> [id : 0..MaxLeases, left : 0..Ttl]]
    <3>1. ASSUME NEW d \in Devices, told[d].left > 1
          PROVE  [told[d] EXCEPT !.left = @ - 1] \in [id : 0..MaxLeases, left : 0..Ttl]
      <4>1. told[d] \in [id : 0..MaxLeases, left : 0..Ttl]
        BY <1>0 DEF TypeOK
      <4>2. told[d].left - 1 \in 0..Ttl
        BY <1>0, <3>1, <4>1
      <4> QED
        BY <4>1, <4>2
    <3>2. NoGrant \in [id : 0..MaxLeases, left : 0..Ttl]
      BY <1>0 DEF NoGrant
    <3> QED
      BY <1>2, <3>1, <3>2 DEF Tick
  <2>3. \A a \in Actors : jobs[a] \in Jobs
    BY <1>0 DEF TypeOK
  <2>4. ASSUME NEW a \in Actors
        PROVE  LET j == jobs'[a] IN /\ j \in Jobs /\ j.stage = jobs[a].stage /\ j.op = jobs[a].op
                                    /\ j.todo = jobs[a].todo
    <3> DEFINE l == IF jobs[a].left > 0 THEN jobs[a].left - 1 ELSE 0
    <3>1. jobs'[a] = [jobs[a] EXCEPT !.left = l]
      BY <1>2 DEF Tick
    <3>2. l \in 0..Ttl
      BY <1>0, <2>3 DEF Jobs
    <3> HIDE DEF l
    <3> QED
      BY <2>3, <3>1, <3>2 DEF Jobs
  <2>5. jobs' \in [Actors -> Jobs]
    <3>1. jobs' = [a \in Actors |-> jobs'[a]]
      BY <1>2 DEF Tick
    <3> QED
      BY <2>4, <3>1
  <2>6. UNCHANGED <<wiki, head, seen, minted, faults>>
    BY <1>2 DEF Tick
  <2>7. \A a \in Actors : Placed(jobs[a])'
    BY <2>4, <2>6 DEF TypeInv, Placed, wiki
  <2> QED
    BY <1>0, <2>1, <2>2, <2>5, <2>6, <2>7 DEF TypeInv, TypeOK, wiki
<1> QED
  BY <1>1, <1>2

LEMMA RevertTypes ==
    ASSUME TypeInv, Revert
    PROVE  TypeInv'
<1> DEFINE j == jobs[Operator]
<1>0. /\ Operator \in Actors /\ j \in Jobs /\ Placed(j) /\ TypeOK /\ log \in Seq(LogRows)
      /\ MaxOps \in Nat /\ MaxLeases \in Nat /\ Len(log) \in 0..MaxOps /\ DOMAIN log = 1..Len(log)
      /\ \A p \in Pages : disk[p] \in Bodies
      /\ \A n \in DOMAIN log : log[n].touched \in PreImages /\ log[n].after \in PreImages
  <2>1. Operator \in Actors /\ TypeOK /\ log \in Seq(LogRows) /\ MaxOps \in Nat /\ MaxLeases \in Nat
    BY ActorsAre, SmartWikiAssumption DEF TypeInv
  <2>2. Len(log) \in Nat /\ DOMAIN log = 1..Len(log)
    BY <2>1
  <2>3. \A n \in DOMAIN log : log[n].touched \in PreImages /\ log[n].after \in PreImages
    BY <2>1 DEF TypeOK, LogRows
  <2> QED
    BY <2>1, <2>2, <2>3 DEF TypeInv, TypeOK
<1> HIDE DEF j
<1>1. ASSUME NEW n \in DOMAIN log, RevertStart(n) PROVE TypeInv'
  <2> DEFINE new == [Idle EXCEPT !.stage = "restore", !.op = n]
  <2>1. Does(Operator, new) /\ UNCHANGED <<wiki, leases, device, minted, faults>>
    BY <1>1 DEF RevertStart
  <2>2. new \in Jobs /\ new.stage = "restore" /\ new.op = n /\ new.todo = {}
    <3>1. n \in 0..(MaxOps + MaxLeases)
      BY <1>0
    <3> QED
      BY <3>1, IdleIsAJob DEF Jobs, Stages
  <2> HIDE DEF new
  <2>3. Placed(new)
    BY <2>2 DEF Placed
  <2> QED
    BY <1>0, <2>1, <2>2, <2>3, JobTypes DEF TypeInv, TypeOK, wiki, device
<1>2. CASE RevertSnapshot
  <2> DEFINE pages == DOMAIN log[j.op].touched
             image == [p \in pages |-> disk[p]]
             new == [j EXCEPT !.stage = "undo", !.todo = pages, !.touched = image]
  <2>1. j.stage = "restore" /\ Does(Operator, new) /\ UNCHANGED <<wiki, leases, device, minted, faults>>
    BY <1>2 DEF RevertSnapshot, j
  <2>2. j.op \in DOMAIN log
    BY <1>0, <2>1 DEF Placed
  <2>3. pages \in SUBSET Pages
    BY <1>0, <2>2, PreImagesAre
  <2>4. image \in PreImages
    BY <1>0, <2>3, PreImagesAre
  <2>5. pages = DOMAIN log[j.op].touched
    OBVIOUS
  <2> HIDE DEF pages, image
  <2>6. new \in Jobs /\ new.stage = "undo" /\ new.op = j.op /\ new.todo = pages
    BY <1>0, <2>3, <2>4 DEF Jobs, Stages
  <2> HIDE DEF new
  <2>7. Placed(new)
    BY <2>2, <2>5, <2>6 DEF Placed
  <2> QED
    BY <1>0, <2>1, <2>6, <2>7, JobTypes DEF TypeInv, TypeOK, wiki, device
<1>3. ASSUME NEW p \in Pages, RestorePage(p) PROVE TypeInv'
  <2> DEFINE new == [j EXCEPT !.todo = @ \ {p}]
  <2>1. /\ j.stage = "undo" /\ p \in j.todo /\ Does(Operator, new)
        /\ disk' = [disk EXCEPT ![p] = log[j.op].touched[p]]
        /\ UNCHANGED <<meta, scope, log, leases, device, minted, faults>>
    BY <1>3 DEF RestorePage, j
  <2>2. j.op \in DOMAIN log /\ j.todo \subseteq DOMAIN log[j.op].touched
    BY <1>0, <2>1 DEF Placed
  <2>3. log[j.op].touched[p] \in Bodies
    BY <1>0, <2>1, <2>2, PreImagesAre
  <2>4. new \in Jobs /\ new.stage = "undo" /\ new.op = j.op /\ new.todo \subseteq j.todo
    BY <1>0, <2>1 DEF Jobs
  <2> HIDE DEF new
  <2>5. Placed(new)
    BY <2>2, <2>4 DEF Placed
  <2> QED
    BY <1>0, <2>1, <2>3, <2>4, <2>5, JobTypes DEF TypeInv, TypeOK, device
<1>4. CASE RevertLog
  <2>1. /\ j.stage = "undo" /\ Does(Operator, Idle)
        /\ Record("push", Operator, TRUE, j.touched, log[j.op].touched)
        /\ UNCHANGED <<meta, scope, disk, leases, device, minted, faults>>
    BY <1>4 DEF RevertLog, j
  <2>2. j.touched \in PreImages /\ log[j.op].touched \in PreImages
    BY <1>0, <2>1 DEF Placed, Jobs
  <2>3. /\ jobs' \in [Actors -> Jobs] /\ \A b \in Actors : Placed(jobs[b])'
        /\ log' \in Seq(LogRows) /\ Len(log') <= MaxOps /\ \A n \in DOMAIN log' : log'[n] \in LogRows
    BY <1>0, <2>1, <2>2, RecordTypes
  <2> QED
    BY <1>0, <2>1, <2>3 DEF TypeInv, TypeOK, device
<1>5. ASSUME NEW n \in DOMAIN log, DropUndo(n) PROVE TypeInv'
  <2>1. /\ log' \in Seq(LogRows) /\ Len(log') = Len(log) /\ DOMAIN log' = DOMAIN log
        /\ \A m \in DOMAIN log : log'[m].touched = log[m].touched
    BY <1>0, <1>5, LogDrops
  <2>2. UNCHANGED <<meta, scope, disk, leases, jobs, device, minted, faults>>
    BY <1>5 DEF DropUndo
  <2>3. \A m \in DOMAIN log' : log'[m] \in LogRows
    BY <2>1
  <2>4. \A a \in Actors : Placed(jobs[a])'
    BY <2>1, <2>2 DEF TypeInv, Placed
  <2> QED
    BY <1>0, <2>1, <2>2, <2>3, <2>4 DEF TypeInv, TypeOK, device
<1> QED
  BY <1>1, <1>2, <1>3, <1>4, <1>5 DEF Revert

LEMMA FaultTypes ==
    ASSUME TypeInv, Crash \/ \E a \in Actors : Fails(a)
    PROVE  TypeInv'
<1>1. Placed(Idle)
  BY IdleIsAJob DEF Placed
<1>2. CASE Crash
  <2>1. jobs' \in [Actors -> Jobs] /\ \A a \in Actors : jobs'[a] = Idle
    BY <1>2, IdleIsAJob DEF Crash
  <2>2. UNCHANGED <<wiki, leases, device, minted>> /\ faults' \in 0..MaxFaults
    BY <1>2, SmartWikiAssumption DEF Crash, TypeInv, TypeOK
  <2>3. \A a \in Actors : Placed(jobs[a])'
    BY <2>1, IdleIsAJob DEF Placed
  <2> QED
    BY <2>1, <2>2, <2>3 DEF TypeInv, TypeOK, wiki, device
<1>3. ASSUME NEW a \in Actors, Fails(a) PROVE TypeInv'
  <2>1. Does(a, Idle) /\ UNCHANGED <<wiki, leases, device, minted>> /\ faults' \in 0..MaxFaults
    BY <1>3, SmartWikiAssumption DEF Fails, TypeInv, TypeOK
  <2> QED
    BY <1>1, <2>1, JobTypes, IdleIsAJob DEF TypeInv, TypeOK, wiki, device
<1> QED
  BY <1>2, <1>3

LEMMA TypeInit == Init => TypeInv
<1> SUFFICES ASSUME Init PROVE TypeInv
  OBVIOUS
<1>1. Free \in Leases
  BY ActorsAre, SmartWikiAssumption DEF Free, Leases
<1>2. jobs \in [Actors -> Jobs] /\ \A a \in Actors : Placed(jobs[a])
  BY IdleIsAJob DEF Init, Placed
<1>3. log = <<>> /\ log \in Seq(LogRows) /\ Len(log) = 0 /\ DOMAIN log = {}
  BY DEF Init
<1>4. told \in [Devices -> [id : 0..MaxLeases, left : 0..Ttl]]
  BY SmartWikiAssumption DEF Init, NoGrant
<1>5. disk \in [Pages -> Bodies] /\ seen \in [Devices -> [Pages -> Bodies]]
  BY ZeroIsABody DEF Init
<1>6. head \in [Devices -> 0..MaxOps] /\ minted \in 0..MaxPushes /\ faults \in 0..MaxFaults /\ 0 <= MaxOps
  BY SmartWikiAssumption DEF Init
<1>7. meta \in BOOLEAN /\ scope \in Actors /\ leases \in [1..MaxLeases -> Leases]
  BY <1>1, ActorsAre DEF Init
<1> QED
  BY <1>2, <1>3, <1>4, <1>5, <1>6, <1>7 DEF TypeInv, TypeOK

LEMMA TypeStep == TypeInv /\ [Next]_vars => TypeInv'
<1> SUFFICES ASSUME TypeInv, [Next]_vars PROVE TypeInv'
  OBVIOUS
<1>1. CASE UNCHANGED vars
  BY <1>1 DEF vars, TypeInv, TypeOK, Placed
<1> QED
  BY <1>1, PushTypes, PullTypes, LeaseTypes, RevertTypes, ClockTypes, FaultTypes DEF Next

\* The wiki, its log and leases and what every device holds stay well formed,
\* whatever pushes, pulls, undos and failures overlap (wiki_admin.rs).
THEOREM TypesHold == Spec => []TypeOK
<1>1. TypeInv => TypeOK
  BY DEF TypeInv
<1> QED
  BY <1>1, TypeInit, TypeStep, PTL DEF Spec

-----------------------------------------------------------------------------
(* Operations under way.                                                    *)

LEMMA OthersIdle ==
    ASSUME TypeInv, Alone, ~Overlap, NEW a \in Actors, jobs[a] # Idle \/ MayStart(a),
           NEW j, Does(a, j)
    PROVE  /\ jobs'[a] = j
           /\ \A b \in Actors \ {a} : jobs[b] = Idle /\ jobs'[b] = Idle
           /\ Alone'
<1>1. jobs'[a] = j /\ \A b \in Actors \ {a} : jobs'[b] = jobs[b]
  BY DEF Does, TypeInv, TypeOK
<1>2. ASSUME NEW b \in Actors \ {a} PROVE jobs[b] = Idle
  <2>1. CASE jobs[a] # Idle
    BY <2>1 DEF Alone
  <2>2. CASE MayStart(a)
    BY <2>2 DEF MayStart
  <2> QED
    BY <2>1, <2>2
<1>3. Alone'
  BY <1>1, <1>2 DEF Alone
<1> QED
  BY <1>1, <1>2, <1>3

\* The clock leaves an operation where it is.
LEMMA TickedJob ==
    ASSUME TypeInv, Tick, NEW a \in Actors
    PROVE  /\ jobs'[a] = [jobs[a] EXCEPT !.left = jobs'[a].left]
           /\ jobs'[a].left = IF jobs[a].left > 0 THEN jobs[a].left - 1 ELSE 0
           /\ jobs'[a] # Idle => jobs[a] # Idle
<1> DEFINE l == IF jobs[a].left > 0 THEN jobs[a].left - 1 ELSE 0
<1>1. jobs'[a] = [jobs[a] EXCEPT !.left = l] /\ jobs[a] \in Jobs
  BY DEF Tick, TypeInv, TypeOK
<1>2. jobs'[a].left = l
  BY <1>1 DEF Jobs
<1>3. ASSUME jobs[a] = Idle PROVE jobs'[a] = Idle
  <2>1. l = 0
    BY <1>3, IdleIsAJob
  <2> HIDE DEF l
  <2> QED
    BY <1>1, <1>3, <2>1, IdleIsAJob DEF Idle
<1> QED
  BY <1>1, <1>2, <1>3

LEMMA AloneStep ==
    ASSUME TypeInv, Alone, ~Overlap, [Next]_vars
    PROVE  Alone'
<1>1. ASSUME NEW a \in Actors, NEW j, Does(a, j), jobs[a] # Idle \/ MayStart(a) PROVE Alone'
  BY <1>1, OthersIdle
<1>2. CASE UNCHANGED jobs
  BY <1>2 DEF Alone
<1>3. ASSUME NEW a \in Actors, jobs[a].stage # "idle" PROVE jobs[a] # Idle
  BY <1>3, IdleIsAJob
<1>4. ASSUME NEW d \in Devices, Push(d) PROVE Alone'
  <2>1. d \in Actors
    BY ActorsAre
  <2>2. MayStart(d) \/ jobs[d].stage # "idle"
    BY <1>4 DEF Push, CreateStart, PushStart, MayPush, CreateMeta, PushGate, PushSnapshot, PushWrite, PushDelete, PushLog
  <2>3. \E j : Does(d, j)
    BY <1>4 DEF Push, CreateStart, PushStart, CreateMeta, PushGate, PushSnapshot, PushWrite, PushDelete, PushLog
  <2> QED
    BY <1>1, <1>3, <2>1, <2>2, <2>3
<1>5. ASSUME NEW d \in Devices, Pull(d) PROVE Alone'
  <2>1. d \in Actors
    BY ActorsAre
  <2>2. (MayStart(d) \/ jobs[d].stage # "idle") /\ \E j : Does(d, j)
    BY <1>5 DEF Pull, PullRead, PullHead, PullLog
  <2> QED
    BY <1>1, <1>3, <2>1, <2>2
<1>6. ASSUME NEW d \in Devices, Lease(d) PROVE Alone'
  <2>1. d \in Actors
    BY ActorsAre
  <2>2. ((MayStart(d) \/ jobs[d].stage # "idle") /\ \E j : Does(d, j)) \/ UNCHANGED jobs
    BY <1>6 DEF Lease, AcquireRead, AcquireWrite, release
  <2> QED
    BY <1>1, <1>2, <1>3, <2>1, <2>2
<1>7. CASE Revert
  <2>1. ((MayStart(Operator) \/ jobs[Operator].stage # "idle") /\ \E j : Does(Operator, j)) \/ UNCHANGED jobs
    BY <1>7 DEF Revert, RevertStart, DropUndo, RevertSnapshot, RevertLog, RestorePage
  <2> QED
    BY <1>1, <1>2, <1>3, <2>1, ActorsAre
<1>8. CASE expire_stale
  BY <1>2, <1>8 DEF expire_stale
<1>9. CASE Tick
  BY <1>9, TickedJob DEF Alone
<1>10. CASE Crash
  BY <1>10 DEF Crash, Alone
<1>11. ASSUME NEW a \in Actors, Fails(a) PROVE Alone'
  <2>1. jobs[a].stage # "idle" /\ Does(a, Idle)
    BY <1>11 DEF Fails
  <2> QED
    BY <1>1, <1>3, <2>1
<1>12. CASE UNCHANGED vars
  BY <1>2, <1>12 DEF vars
<1> QED
  BY <1>4, <1>5, <1>6, <1>7, <1>8, <1>9, <1>10, <1>11, <1>12 DEF Next

-----------------------------------------------------------------------------
(* Leases: who holds them.                                                  *)

\* A step that leaves the leases and the grants alone and starts no acquire.
LEMMA LeasesRest ==
    ASSUME Leased, UNCHANGED <<leases, told>>,
           \A d \in Devices : jobs'[d].stage = "acquire" => jobs'[d] = jobs[d]
    PROVE  Leased'
<1>1. Active' = Active /\ \A n, e : held_by(n, e)' <=> held_by(n, e)
  BY DEF Active, held_by
<1>2. ASSUME NEW d \in Devices PROVE Granted(d)'
  BY <1>1 DEF Leased, Granted, held_by
<1>3. ASSUME NEW d \in Devices PROVE Extending(d)'
  BY <1>1 DEF Leased, Extending, held_by
<1> QED
  BY <1>2, <1>3 DEF Leased

\* One operation moves on, and it is no acquire.
LEMMA LeasedWhileOneMoves ==
    ASSUME TypeInv, Leased, NEW a \in Actors, NEW j, Does(a, j), j.stage # "acquire",
           UNCHANGED <<leases, told>>
    PROVE  Leased'
<1>1. jobs'[a] = j /\ \A b \in Actors \ {a} : jobs'[b] = jobs[b]
  BY DEF Does, TypeInv, TypeOK
<1> QED
  BY <1>1, ActorsAre, LeasesRest

LEMMA LeasedWhilePushing ==
    ASSUME TypeInv, Leased, NEW d \in Devices, Push(d)
    PROVE  Leased'
<1>0. d \in Actors /\ UNCHANGED <<leases, told>>
  BY ActorsAre DEF Push, CreateStart, PushStart, CreateMeta, PushGate, PushSnapshot, PushWrite,
     PushDelete, PushLog, device
<1>1. ASSUME NEW r \in Requests, CreateStart(d, r) PROVE \E new : Does(d, new) /\ new.stage # "acquire"
  BY <1>1, CreateStarts
<1>2. ASSUME NEW r \in Requests, NEW g \in BOOLEAN, PushStart(d, r, g)
      PROVE  \E new : Does(d, new) /\ new.stage # "acquire"
  BY <1>2, PushStarts
<1>3. ASSUME NEW p \in Pages, PushWrite(d, p) \/ PushDelete(d, p)
      PROVE  \E new : Does(d, new) /\ new.stage # "acquire"
  BY <1>3, PageIsPut, IdleIsAJob
<1>4. \E new : Does(d, new) /\ new.stage # "acquire"
  <2>1. CASE CreateMeta(d)
    BY <2>1, MetaIsWritten
  <2>2. CASE PushGate(d)
    BY <2>2, GateIsPassed, IdleIsAJob
  <2>3. CASE PushSnapshot(d)
    BY <2>3, PreImageIsTaken
  <2>4. CASE PushLog(d)
    BY <2>4, IdleIsAJob DEF PushLog
  <2> QED
    BY <1>1, <1>2, <1>3, <2>1, <2>2, <2>3, <2>4 DEF Push
<1> QED
  BY <1>0, <1>4, LeasedWhileOneMoves

LEMMA LeasedOtherwise ==
    ASSUME TypeInv, Leased, (\E d \in Devices : Pull(d)) \/ Revert \/ Crash \/ (\E a \in Actors : Fails(a))
    PROVE  Leased'
<1>1. ASSUME NEW d \in Devices, Pull(d) PROVE Leased'
  <2>0. d \in Actors /\ jobs[d] \in Jobs /\ UNCHANGED <<leases, told>>
    BY <1>1, ActorsAre, JobFacts DEF Pull, PullRead, PullHead, PullLog, device
  <2>1. ASSUME NEW S \in Reads, PullRead(d, S) PROVE Leased'
    <3> DEFINE image == [p \in S |-> disk[p]]
               j == [Idle EXCEPT !.stage = "head", !.touched = image]
    <3>1. Does(d, j)
      BY <2>1 DEF PullRead
    <3> HIDE DEF image
    <3>2. j.stage = "head"
      BY DEF Idle
    <3> HIDE DEF j
    <3> QED
      BY <2>0, <3>1, <3>2, LeasedWhileOneMoves
  <2>2. CASE PullHead(d)
    <3> DEFINE j == [jobs[d] EXCEPT !.stage = "record", !.op = Len(log)]
    <3>1. Does(d, j)
      BY <2>2 DEF PullHead
    <3>2. j.stage = "record"
      BY <2>0 DEF Jobs
    <3> HIDE DEF j
    <3> QED
      BY <2>0, <3>1, <3>2, LeasedWhileOneMoves
  <2>3. CASE PullLog(d)
    BY <2>0, <2>3, IdleIsAJob, LeasedWhileOneMoves DEF PullLog
  <2> QED
    BY <1>1, <2>1, <2>2, <2>3 DEF Pull
<1>2. CASE Revert
  <2>0. Operator \in Actors /\ UNCHANGED <<leases, told>>
    BY <1>2, ActorsAre DEF Revert, RevertStart, DropUndo, RevertSnapshot, RevertLog, RestorePage, device
  <2>1. UNCHANGED jobs \/ \E j : Does(Operator, j)
    BY <1>2 DEF Revert, RevertStart, DropUndo, RevertSnapshot, RevertLog, RestorePage
  <2>2. \A d \in Devices : jobs'[d] = jobs[d]
    BY <2>0, <2>1, ActorsAre DEF Does, TypeInv, TypeOK
  <2> QED
    BY <2>0, <2>2, LeasesRest
<1>3. CASE Crash
  <2>1. UNCHANGED <<leases, told>> /\ \A d \in Devices : jobs'[d] = Idle
    BY <1>3, ActorsAre DEF Crash, device
  <2> QED
    BY <2>1, IdleIsAJob, LeasesRest
<1>4. ASSUME NEW a \in Actors, Fails(a) PROVE Leased'
  <2>1. Does(a, Idle) /\ UNCHANGED <<leases, told>>
    BY <1>4 DEF Fails, device
  <2> QED
    BY <2>1, IdleIsAJob, LeasedWhileOneMoves
<1> QED
  BY <1>1, <1>2, <1>3, <1>4

LEMMA LeaseFacts ==
    ASSUME TypeInv
    PROVE  /\ MaxLeases \in Nat /\ Ttl \in Nat /\ Grace \in Nat /\ Devices \subseteq Actors
           /\ leases \in [1..MaxLeases -> Leases]
           /\ \A n \in 1..MaxLeases : leases[n] \in Leases /\ leases[n].left \in Int
           /\ told \in [Devices -> [id : 0..MaxLeases, left : 0..Ttl]]
           /\ \A e \in Devices : told[e].left \in Nat /\ told[e] \in [id : 0..MaxLeases, left : 0..Ttl]
           /\ \A d \in Devices : jobs[d] \in Jobs /\ jobs[d].left \in Nat /\ jobs[d].left <= Ttl
           /\ \A d \in Devices : jobs[d].stage = "acquire" => jobs[d].op \in 0..MaxLeases
           /\ \A n \in Active : n \in 1..MaxLeases
<1>1. /\ leases \in [1..MaxLeases -> Leases] /\ jobs \in [Actors -> Jobs]
      /\ told \in [Devices -> [id : 0..MaxLeases, left : 0..Ttl]]
      /\ \A a \in Actors : Placed(jobs[a])
  BY DEF TypeInv, TypeOK
<1>2. MaxLeases \in Nat /\ Ttl \in Nat /\ Grace \in Nat /\ Devices \subseteq Actors
  BY ActorsAre, SmartWikiAssumption
<1>3. \A n \in 1..MaxLeases : leases[n] \in Leases /\ leases[n].left \in Int
  BY <1>1, <1>2 DEF Leases
<1>4. \A e \in Devices : told[e].left \in Nat /\ told[e] \in [id : 0..MaxLeases, left : 0..Ttl]
  BY <1>1, <1>2
<1>5. \A d \in Devices : jobs[d] \in Jobs /\ Placed(jobs[d])
  BY <1>1, <1>2
<1>6. \A d \in Devices : jobs[d].left \in Nat /\ jobs[d].left <= Ttl
  BY <1>2, <1>5 DEF Jobs
<1> QED
  BY <1>1, <1>2, <1>3, <1>4, <1>5, <1>6 DEF Placed, Active

\* The expirer takes no lease that stands, and none that is about to.
LEMMA LeasedWhenSwept ==
    ASSUME TypeInv, Leased, GraceIsLong, expire_stale
    PROVE  Leased'
<1>0. /\ MaxLeases \in Nat /\ Ttl \in Nat /\ Grace \in Nat
      /\ \A n \in 1..MaxLeases : leases[n] \in Leases /\ leases[n].left \in Int
      /\ \A d \in Devices : jobs[d].left \in Nat
      /\ \A d \in Devices : jobs[d].stage = "acquire" => jobs[d].op \in 0..MaxLeases
  BY LeaseFacts
<1>1. UNCHANGED <<jobs, told>>
  BY DEF expire_stale, device
<1>2. ASSUME NEW n \in 1..MaxLeases
      PROVE  /\ leases'[n].holder \in {leases[n].holder, Operator}
             /\ ~leases[n].released /\ leases[n].left >= -Grace => leases'[n] = leases[n]
  <2>1. PICK old \in SUBSET {m \in 1..MaxLeases : leases[m].released} :
            leases' = [m \in 1..MaxLeases |->
                          IF m \in old THEN Free
                          ELSE [leases[m] EXCEPT !.released = @ \/ (leases[m] # Free /\ over(leases[m].left))]]
    BY DEF expire_stale
  <2>2. leases'[n] = IF n \in old THEN Free
                     ELSE [leases[n] EXCEPT !.released = @ \/ (leases[n] # Free /\ over(leases[n].left))]
    BY <2>1
  <2>3. leases[n] \in Leases
    BY <1>0
  <2>4. CASE n \in old
    BY <2>1, <2>2, <2>4 DEF Free
  <2>5. CASE n \notin old
    <3> DEFINE x == leases[n].released \/ (leases[n] # Free /\ over(leases[n].left))
    <3>1. leases'[n] = [leases[n] EXCEPT !.released = x]
      BY <2>2, <2>5
    <3>2. ~leases[n].released /\ leases[n].left >= -Grace => x = FALSE
      BY <1>0 DEF over
    <3> HIDE DEF x
    <3> QED
      BY <2>3, <3>1, <3>2 DEF Leases
  <2> QED
    BY <2>4, <2>5
<1>3. \A n \in Active : leases'[n] = leases[n] /\ n \in Active'
  <2>1. \A n \in Active : leases'[n] = leases[n]
    BY <1>0, <1>2 DEF Active
  <2> QED
    BY <2>1 DEF Active
<1>4. ASSUME NEW d \in Devices PROVE Granted(d)'
  BY <1>1, <1>3 DEF Leased, Granted, held_by
<1>5. ASSUME NEW d \in Devices, jobs[d].stage = "acquire", jobs[d].op # 0
      PROVE  /\ leases'[jobs[d].op].holder \in {d, Operator}
             /\ jobs[d].left > 0 => leases'[jobs[d].op] = leases[jobs[d].op]
  <2> DEFINE n == jobs[d].op
  <2>1. n \in 1..MaxLeases
    BY <1>0, <1>5
  <2>2. /\ leases[n].holder \in {d, Operator}
        /\ jobs[d].left > 0 => ~leases[n].released /\ jobs[d].left - Ttl < leases[n].left
    BY <1>5 DEF Leased, Extending
  <2> HIDE DEF n
  <2>3. jobs[d].left > 0 => leases[n].left >= -Grace
    BY <1>0, <2>1, <2>2 DEF GraceIsLong
  <2>4. leases'[n].holder \in {d, Operator} /\ (jobs[d].left > 0 => leases'[n] = leases[n])
    BY <1>2, <2>1, <2>2, <2>3
  <2> QED
    BY <2>4 DEF n
<1>6. ASSUME NEW d \in Devices PROVE Extending(d)'
  BY <1>1, <1>5 DEF Leased, Extending, held_by
<1> QED
  BY <1>4, <1>6 DEF Leased

\* The time on a lease, on the grant of it and on a renewal go together.
LEMMA LeasedOnTheClock ==
    ASSUME TypeInv, Leased, Tick
    PROVE  Leased'
<1>0. /\ MaxLeases \in Nat /\ Ttl \in Nat /\ Grace \in Nat /\ Devices \subseteq Actors
      /\ \A n \in 1..MaxLeases : leases[n] \in Leases /\ leases[n].left \in Int
      /\ \A e \in Devices : told[e].left \in Nat /\ told[e] \in [id : 0..MaxLeases, left : 0..Ttl]
      /\ \A d \in Devices : jobs[d] \in Jobs /\ jobs[d].left \in Nat
      /\ \A d \in Devices : jobs[d].stage = "acquire" => jobs[d].op \in 0..MaxLeases
  BY LeaseFacts
<1>1. ASSUME NEW n \in 1..MaxLeases
      PROVE  /\ leases'[n].holder = leases[n].holder /\ leases'[n].released = leases[n].released
             /\ leases[n].left - 1 <= leases'[n].left /\ leases'[n].left \in Int
             /\ leases[n].holder # Operator /\ leases[n].left > 0 => leases'[n].left = leases[n].left - 1
  <2>1. leases[n] \in Leases /\ leases'[n] = IF leases[n] # Free /\ leases[n].left > -(Grace + 1)
                       THEN [leases[n] EXCEPT !.left = @ - 1] ELSE leases[n]
    BY <1>0 DEF Tick
  <2>2. CASE leases[n] # Free /\ leases[n].left > -(Grace + 1)
    <3>1. leases'[n] = [leases[n] EXCEPT !.left = @ - 1]
      BY <2>1, <2>2
    <3> QED
      BY <1>0, <2>1, <3>1 DEF Leases
  <2>3. CASE ~(leases[n] # Free /\ leases[n].left > -(Grace + 1))
    <3>1. leases'[n] = leases[n]
      BY <2>1, <2>3
    <3>2. Free.holder = Operator
      BY DEF Free
    <3> QED
      BY <1>0, <2>3, <3>1, <3>2
  <2> QED
    BY <2>2, <2>3
<1>2. ASSUME NEW e \in Devices, told'[e].left > 0
      PROVE  told[e].left > 1 /\ told'[e].id = told[e].id /\ told'[e].left = told[e].left - 1
  <2>1. told'[e] = IF told[e].left > 1 THEN [told[e] EXCEPT !.left = @ - 1] ELSE NoGrant
    BY <1>2 DEF Tick
  <2>2. told[e].left > 1
    BY <1>2, <2>1 DEF NoGrant
  <2> QED
    BY <1>0, <2>1, <2>2
<1>3. ASSUME NEW d \in Devices
      PROVE  /\ jobs'[d].stage = jobs[d].stage /\ jobs'[d].op = jobs[d].op
             /\ jobs'[d].left > 0 => jobs[d].left > 0 /\ jobs'[d].left = jobs[d].left - 1
  <2>1. d \in Actors /\ jobs[d] \in Jobs /\ jobs[d].left \in Nat
    BY <1>0
  <2>2. /\ jobs'[d] = [jobs[d] EXCEPT !.left = jobs'[d].left]
        /\ jobs'[d].left = IF jobs[d].left > 0 THEN jobs[d].left - 1 ELSE 0
    BY <2>1, TickedJob
  <2>3. \A l : LET k == [jobs[d] EXCEPT !.left = l] IN k.stage = jobs[d].stage /\ k.op = jobs[d].op
    BY <2>1 DEF Jobs
  <2>4. jobs'[d].stage = jobs[d].stage /\ jobs'[d].op = jobs[d].op
    BY <2>2, <2>3
  <2>5. jobs'[d].left > 0 => jobs[d].left > 0 /\ jobs'[d].left = jobs[d].left - 1
    BY <2>1, <2>2
  <2> QED
    BY <2>4, <2>5
<1>4. ASSUME NEW e \in Devices PROVE Granted(e)'
  <2>1. SUFFICES ASSUME told'[e].left > 0
                 PROVE  /\ told'[e].id \in Active' /\ leases'[told'[e].id].holder = e
                        /\ told'[e].left <= leases'[told'[e].id].left
    BY DEF Granted, held_by
  <2> DEFINE n == told[e].id
  <2>2. told[e].left > 1 /\ told'[e].id = n /\ told'[e].left = told[e].left - 1
    BY <1>2, <2>1
  <2>3. n \in Active /\ leases[n].holder = e /\ told[e].left <= leases[n].left
    BY <1>0, <2>2 DEF Leased, Granted, held_by
  <2>4. n \in 1..MaxLeases /\ leases[n].left > 0 /\ leases[n].holder # Operator /\ ~leases[n].released
    BY <2>3 DEF Active
  <2> HIDE DEF n
  <2>5. leases'[n].left = leases[n].left - 1 /\ leases'[n].holder = e /\ ~leases'[n].released
    BY <1>1, <2>3, <2>4
  <2>6. told[e].left - 1 <= leases'[n].left /\ leases'[n].left > 0
    BY <1>0, <2>2, <2>3, <2>4, <2>5
  <2>7. n \in Active'
    BY <2>3, <2>4, <2>5, <2>6 DEF Active
  <2> QED
    BY <2>2, <2>5, <2>6, <2>7
<1>5. ASSUME NEW d \in Devices PROVE Extending(d)'
  <2>1. SUFFICES ASSUME jobs'[d].stage = "acquire", jobs'[d].op # 0
                 PROVE  /\ leases'[jobs'[d].op].holder \in {d, Operator}
                        /\ jobs'[d].left > 0 =>
                              /\ leases'[jobs'[d].op].holder = d /\ ~leases'[jobs'[d].op].released
                              /\ jobs'[d].left - Ttl < leases'[jobs'[d].op].left
    BY DEF Extending, held_by
  <2> DEFINE n == jobs[d].op
  <2>2. jobs[d].stage = "acquire" /\ jobs'[d].op = n /\ n # 0 /\ n \in 1..MaxLeases
    BY <1>0, <1>3, <2>1
  <2>3. leases'[n].holder \in {d, Operator}
    BY <1>1, <2>2 DEF Leased, Extending
  <2>4. ASSUME jobs'[d].left > 0
        PROVE  leases'[n].holder = d /\ ~leases'[n].released /\ jobs'[d].left - Ttl < leases'[n].left
    <3>1. jobs[d].left > 0 /\ jobs'[d].left = jobs[d].left - 1
      BY <1>3, <2>4
    <3>2. leases[n].holder = d /\ ~leases[n].released /\ jobs[d].left - Ttl < leases[n].left
      BY <2>2, <3>1 DEF Leased, Extending, held_by
    <3>3. leases'[n].holder = d /\ ~leases'[n].released /\ leases[n].left - 1 <= leases'[n].left
          /\ leases'[n].left \in Int /\ leases[n].left \in Int
      BY <1>0, <1>1, <2>2, <3>2
    <3> HIDE DEF n
    <3> QED
      BY <1>0, <3>1, <3>2, <3>3
  <2> QED
    BY <2>2, <2>3, <2>4
<1> QED
  BY <1>4, <1>5 DEF Leased

LEMMA LeasedWhileLeasing ==
    ASSUME TypeInv, Leased, NEW d \in Devices, Lease(d)
    PROVE  Leased'
<1> DEFINE j == jobs[d]
<1>0. /\ d \in Actors /\ d # Operator /\ j \in Jobs /\ j.left \in Nat /\ Ttl \in Nat /\ MaxLeases \in Nat
      /\ Devices \subseteq Actors /\ leases \in [1..MaxLeases -> Leases] /\ jobs \in [Actors -> Jobs]
      /\ \A n \in 1..MaxLeases : leases[n] \in Leases /\ leases[n].left \in Int
      /\ \A e \in Devices : told[e].left \in Nat
      /\ told \in [Devices -> [id : 0..MaxLeases, left : 0..Ttl]]
      /\ \A e \in Devices : jobs[e].stage = "acquire" => jobs[e].op \in 0..MaxLeases
      /\ \A e \in Devices : e # Operator
  BY LeaseFacts, ActorsAre DEF TypeInv, TypeOK
<1>1. CASE AcquireRead(d)
  <2> DEFINE n == active_lease_for
             new == [Idle EXCEPT !.stage = "acquire", !.op = n, !.left = Ttl]
  <2>1. ~LockedOut(d) /\ Does(d, new) /\ UNCHANGED <<leases, told>>
    BY <1>1 DEF AcquireRead, device
  <2>2. n # 0 => n \in Active /\ held_by(n, d)
    BY <1>0, <2>1, ActiveLeaseIsActive DEF LockedOut
  <2>3. n # 0 => n \in 1..MaxLeases /\ ~leases[n].released /\ leases[n].left > 0 /\ leases[n].holder = d
    BY <2>2 DEF Active, held_by
  <2> HIDE DEF n
  <2>4. new.stage = "acquire" /\ new.op = n /\ new.left = Ttl
    BY IdleIsAJob DEF Jobs
  <2> HIDE DEF new
  <2>5. jobs'[d] = new /\ \A b \in Actors \ {d} : jobs'[b] = jobs[b]
    BY <1>0, <2>1 DEF Does
  <2>6. Active' = Active
    BY <2>1 DEF Active
  <2>7. ASSUME NEW e \in Devices PROVE Granted(e)'
    BY <2>1, <2>6 DEF Leased, Granted, held_by
  <2>8. Extending(d)'
    <3>1. Ttl - Ttl = 0
      BY <1>0
    <3> QED
      BY <2>1, <2>3, <2>4, <2>5, <3>1 DEF Extending, held_by
  <2>9. ASSUME NEW e \in Devices \ {d} PROVE Extending(e)'
    BY <1>0, <2>1, <2>5 DEF Leased, Extending, held_by
  <2> QED
    BY <2>7, <2>8, <2>9 DEF Leased
<1>2. CASE AcquireWrite(d)
  <2>1. j.stage = "acquire" /\ j.op \in 0..MaxLeases /\ Does(d, Idle)
    BY <1>0, <1>2, JobFacts DEF AcquireWrite, Placed
  <2>2. jobs'[d] = Idle /\ \A b \in Actors \ {d} : jobs'[b] = jobs[b]
    BY <1>0, <2>1 DEF Does
  <2>3. PICK n \in 1..MaxLeases :
            /\ told' = [told EXCEPT ![d] = [id |-> n, left |-> j.left]]
            /\ \/ n = j.op /\ leases[n] = Free /\ leases' = leases
               \/ n = j.op /\ leases' = [leases EXCEPT ![n].left = j.left]
               \/ /\ j.op = 0 /\ ~Taken(n)
                  /\ leases' = [leases EXCEPT ![n] = [holder |-> d, left |-> j.left, released |-> FALSE]]
    BY <1>0, <1>2, <2>1, AcquireWrites
  <2>4. told'[d].id = n /\ told'[d].left = j.left /\ \A e \in Devices \ {d} : told'[e] = told[e]
    BY <1>0, <2>3
  <2>5. \A m \in 1..MaxLeases \ {n} : leases'[m] = leases[m]
    BY <1>0, <2>3
  <2>6. /\ leases'[n].holder \in {d, Operator}
        /\ j.left > 0 => leases'[n].holder = d /\ ~leases'[n].released /\ leases'[n].left = j.left
    <3>1. n = j.op => /\ leases[n].holder \in {d, Operator}
                      /\ j.left > 0 => leases[n].holder = d /\ ~leases[n].released
      BY <2>1, <2>3 DEF Leased, Extending, held_by
    <3>2. CASE n = j.op /\ leases[n] = Free /\ leases' = leases
      BY <1>0, <3>1, <3>2 DEF Free
    <3>3. CASE n = j.op /\ leases' = [leases EXCEPT ![n].left = j.left]
      <4>1. leases'[n] = [leases[n] EXCEPT !.left = j.left] /\ leases[n] \in Leases
        BY <1>0, <3>3
      <4> QED
        BY <3>1, <3>3, <4>1 DEF Leases
    <3>4. CASE leases' = [leases EXCEPT ![n] = [holder |-> d, left |-> j.left, released |-> FALSE]]
      BY <1>0, <3>4
    <3> QED
      BY <2>3, <3>2, <3>3, <3>4
  <2>7. ASSUME NEW e \in Devices \ {d} PROVE told[e].left > 0 => told[e].id # n
    <3>1. CASE n = j.op
      <4>1. leases[n].holder \in {d, Operator}
        BY <2>1, <2>3, <3>1 DEF Leased, Extending
      <4> QED
        BY <1>0, <4>1 DEF Leased, Granted, held_by
    <3>2. CASE ~Taken(n)
      BY <3>2 DEF Taken
    <3> QED
      BY <2>3, <3>1, <3>2
  <2>8. ASSUME NEW e \in Devices \ {d}, jobs[e].stage = "acquire", jobs[e].op # 0
        PROVE  /\ leases'[jobs[e].op].holder \in {e, Operator}
               /\ jobs[e].left > 0 => leases'[jobs[e].op] = leases[jobs[e].op]
    <3> DEFINE m == jobs[e].op
    <3>1. m \in 1..MaxLeases /\ leases[m].holder \in {e, Operator}
          /\ (jobs[e].left > 0 => leases[m].holder = e)
      BY <1>0, <2>8 DEF Leased, Extending, held_by
    <3>2. CASE m # n
      BY <2>5, <3>1, <3>2
    <3>3. CASE m = n /\ n = j.op
      <4>1. leases[n].holder \in {d, Operator}
        BY <2>1, <2>3, <3>3 DEF Leased, Extending
      <4>2. leases[n].holder = Operator /\ ~(jobs[e].left > 0) /\ ~(j.left > 0)
        <5>1. j.left > 0 => leases[n].holder = d
          BY <2>1, <2>3, <3>3 DEF Leased, Extending, held_by
        <5> QED
          BY <1>0, <3>1, <3>3, <4>1, <5>1
      <4>3. leases'[n].holder = leases[n].holder
        <5>1. leases[n] \in Leases /\ (leases' = leases \/ leases' = [leases EXCEPT ![n].left = j.left])
          BY <1>0, <2>3, <3>3
        <5>2. [leases[n] EXCEPT !.left = j.left].holder = leases[n].holder
          BY <5>1 DEF Leases
        <5> QED
          BY <1>0, <5>1, <5>2
      <4> QED
        BY <3>3, <4>2, <4>3
    <3>4. CASE m = n /\ ~Taken(n)
      BY <2>8, <3>4 DEF Taken
    <3> QED
      BY <2>3, <3>2, <3>3, <3>4
  <2>9. Granted(d)'
    <3>1. j.left > 0 => n \in Active'
      BY <1>0, <2>3, <2>6 DEF Active
    <3>2. j.left <= j.left
      BY <1>0
    <3> QED
      BY <2>4, <2>6, <3>1, <3>2 DEF Granted, held_by
  <2>10. ASSUME NEW e \in Devices \ {d} PROVE Granted(e)'
    <3>1. SUFFICES ASSUME told[e].left > 0
                   PROVE  /\ told[e].id \in Active' /\ leases'[told[e].id].holder = e
                          /\ told[e].left <= leases'[told[e].id].left
      BY <2>4 DEF Granted, held_by
    <3>2. told[e].id \in Active /\ leases[told[e].id].holder = e /\ told[e].left <= leases[told[e].id].left
      BY <3>1 DEF Leased, Granted, held_by
    <3>3. told[e].id \in 1..MaxLeases /\ leases'[told[e].id] = leases[told[e].id]
      BY <2>5, <2>7, <3>1, <3>2 DEF Active
    <3> QED
      BY <3>2, <3>3 DEF Active
  <2>11. ASSUME NEW e \in Devices PROVE Extending(e)'
    <3>1. CASE e = d
      BY <2>2, <3>1, IdleIsAJob DEF Extending
    <3>2. CASE e # d
      <4>1. jobs'[e] = jobs[e] /\ Extending(e)
        BY <1>0, <2>2, <3>2 DEF Leased
      <4> QED
        BY <2>8, <3>2, <4>1 DEF Extending, held_by
    <3> QED
      BY <3>1, <3>2
  <2> QED
    BY <2>9, <2>10, <2>11 DEF Leased
<1>3. CASE release(d)
  <2>1. j = Idle /\ UNCHANGED jobs /\ told[d].id \in 1..MaxLeases /\ told' = [told EXCEPT ![d] = NoGrant]
    BY <1>0, <1>3 DEF release
  <2>2. \A n \in 1..MaxLeases : /\ leases'[n].holder = leases[n].holder /\ leases'[n].left = leases[n].left
                                /\ leases[n].holder # d => leases'[n] = leases[n]
    <3> DEFINE m == told[d].id
    <3>1. m \in 1..MaxLeases /\ leases' \in {leases, [leases EXCEPT ![m].released = TRUE]}
          /\ (leases' # leases => leases[m].holder = d)
      BY <1>3, <2>1 DEF release
    <3>2. leases[m] \in Leases
      BY <1>0, <3>1
    <3> HIDE DEF m
    <3>3. CASE leases' = leases
      BY <3>3
    <3>4. CASE leases' = [leases EXCEPT ![m].released = TRUE] /\ leases' # leases
      <4>1. leases'[m] = [leases[m] EXCEPT !.released = TRUE] /\ \A n \in 1..MaxLeases \ {m} : leases'[n] = leases[n]
        BY <1>0, <3>1, <3>4
      <4>2. leases'[m].holder = leases[m].holder /\ leases'[m].left = leases[m].left
        BY <3>2, <4>1 DEF Leases
      <4> QED
        BY <3>1, <3>4, <4>1, <4>2
    <3> QED
      BY <3>1, <3>3, <3>4
  <2>3. told'[d].left = 0 /\ \A e \in Devices \ {d} : told'[e] = told[e]
    BY <1>0, <2>1 DEF NoGrant
  <2>4. Granted(d)'
    BY <2>3 DEF Granted
  <2>5. ASSUME NEW e \in Devices \ {d} PROVE Granted(e)'
    <3>1. SUFFICES ASSUME told[e].left > 0
                   PROVE  /\ told[e].id \in Active' /\ leases'[told[e].id].holder = e
                          /\ told[e].left <= leases'[told[e].id].left
      BY <2>3 DEF Granted, held_by
    <3>2. told[e].id \in Active /\ leases[told[e].id].holder = e /\ told[e].left <= leases[told[e].id].left
      BY <3>1 DEF Leased, Granted, held_by
    <3>3. told[e].id \in 1..MaxLeases /\ leases'[told[e].id] = leases[told[e].id]
      BY <2>2, <3>2 DEF Active
    <3> QED
      BY <3>2, <3>3 DEF Active
  <2>6. ASSUME NEW e \in Devices PROVE Extending(e)'
    <3>1. CASE e = d
      BY <2>1, <3>1, IdleIsAJob DEF Extending
    <3>2. CASE e # d
      <4>1. SUFFICES ASSUME jobs[e].stage = "acquire", jobs[e].op # 0
                     PROVE  /\ leases'[jobs[e].op].holder = leases[jobs[e].op].holder
                            /\ jobs[e].left > 0 => leases'[jobs[e].op] = leases[jobs[e].op]
        BY <2>1 DEF Leased, Extending, held_by
      <4>2. jobs[e].op \in 1..MaxLeases
        BY <1>0, <4>1
      <4>3. jobs[e].left > 0 => leases[jobs[e].op].holder = e
        BY <4>1 DEF Leased, Extending, held_by
      <4> QED
        BY <2>2, <3>2, <4>2, <4>3
    <3> QED
      BY <3>1, <3>2
  <2> QED
    BY <2>4, <2>5, <2>6 DEF Leased
<1> QED
  BY <1>1, <1>2, <1>3 DEF Lease

LEMMA LeaseInit == Init => LeaseInv
<1> SUFFICES ASSUME Init PROVE LeaseInv
  OBVIOUS
<1>1. TypeInv
  BY TypeInit
<1>2. \A d \in Devices : jobs[d] = Idle /\ told[d].left = 0
  BY ActorsAre DEF Init, NoGrant
<1> QED
  BY <1>1, <1>2, IdleIsAJob DEF LeaseInv, Leased, Granted, Extending

LEMMA LeaseStep == GraceIsLong => (LeaseInv /\ [Next]_vars => LeaseInv')
<1> SUFFICES ASSUME GraceIsLong, LeaseInv, [Next]_vars PROVE LeaseInv'
  OBVIOUS
<1>1. TypeInv /\ Leased /\ TypeInv'
  BY TypeStep DEF LeaseInv
<1>2. CASE UNCHANGED vars
  BY <1>1, <1>2, LeasesRest DEF vars, LeaseInv
<1>3. CASE Next
  <2>1. Leased'
    BY <1>1, <1>3, LeasedWhilePushing, LeasedWhileLeasing, LeasedOtherwise, LeasedWhenSwept,
       LeasedOnTheClock DEF Next
  <2> QED
    BY <1>1, <2>1 DEF LeaseInv
<1> QED
  BY <1>2, <1>3

\* Whatever overlaps, a push is let in beside a device that still has time on
\* its grant only when two devices' leases stand at once: what acquire told a
\* device stands in the table until then, whatever is released, expires, is
\* swept or extended late (active_lease_for, held_by, expire_stale).
THEOREM LeasesYieldOnlyToLeases ==
    ASSUME GraceIsLong
    PROVE  Spec => GrantsYieldOnlyToALease
<1>1. ASSUME LeaseInv, NEW d \in Devices, NEW e \in Devices, LetInBeside(d, e) PROVE TwoHolders
  <2>1. d # e /\ told[e].left > 0 /\ ~LockedOut(d)
    BY <1>1 DEF LetInBeside, PushBegins, PushStart
  <2>2. told[e].id \in Active /\ leases[told[e].id].holder = e
    BY <1>1, <2>1 DEF LeaseInv, Leased, Granted, held_by
  <2>3. active_lease_for \in Active /\ leases[active_lease_for].holder = d
    BY <2>1, <2>2, ActiveLeaseIsActive, SmartWikiAssumption DEF LockedOut, held_by
  <2> QED
    BY <2>1, <2>2, <2>3 DEF TwoHolders
<1>2. LeaseInv /\ [Next]_vars => [\A d, e \in Devices : LetInBeside(d, e) => TwoHolders]_vars
  BY <1>1
<1>3. LeaseInv /\ [Next]_vars => LeaseInv'
  BY LeaseStep
<1> QED
  BY <1>2, <1>3, LeaseInit, PTL DEF Spec, GrantsYieldOnlyToALease

-----------------------------------------------------------------------------
(* Pushes, pulls and undo: the log.                                         *)

LEMMA LogFacts ==
    ASSUME TypeInv
    PROVE  /\ log \in Seq(LogRows) /\ Len(log) \in Nat /\ DOMAIN log = 1..Len(log)
           /\ minted \in Nat /\ \A p \in Pages : disk[p] \in Int
           /\ disk \in [Pages -> Bodies] /\ DOMAIN disk = Pages
           /\ \A n \in DOMAIN log :
                 /\ log[n].touched \in PreImages /\ log[n].after \in PreImages
                 /\ DOMAIN log[n].touched \subseteq Pages /\ DOMAIN log[n].after \subseteq Pages
           /\ Careful \subseteq Devices /\ \A d \in Devices : head[d] \in Nat
<1>1. log \in Seq(LogRows) /\ disk \in [Pages -> Bodies] /\ minted \in 0..MaxPushes
      /\ head \in [Devices -> 0..MaxOps]
  BY DEF TypeInv, TypeOK
<1>2. Len(log) \in Nat /\ DOMAIN log = 1..Len(log)
  BY <1>1
<1>3. \A n \in DOMAIN log : log[n].touched \in PreImages /\ log[n].after \in PreImages
  BY DEF TypeInv, TypeOK, LogRows
<1>4. \A p \in Pages : disk[p] \in Int
  BY <1>1, SmartWikiAssumption DEF Bodies
<1>5. Careful \subseteq Devices /\ \A d \in Devices : head[d] \in Nat
  BY <1>1, SmartWikiAssumption
<1> QED
  BY <1>1, <1>2, <1>3, <1>4, <1>5, PreImagesAre, SmartWikiAssumption

LEMMA RowFacts ==
    ASSUME TypeInv, NEW n \in DOMAIN log
    PROVE  /\ \A p \in DOMAIN log[n].touched : log[n].touched[p] \in Int
           /\ \A p \in DOMAIN log[n].after : log[n].after[p] \in Int
<1>1. log[n].touched \in PreImages /\ log[n].after \in PreImages
  BY LogFacts
<1>2. \A x \in Bodies : x \in Int
  BY SmartWikiAssumption DEF Bodies
<1> QED
  BY <1>1, <1>2, PreImagesAre

\* The last write of a page, once the log has a row more.
LEMMA LastWriteGrows ==
    ASSUME TypeInv, NEW row \in LogRows, log' = Append(log, row), NEW q, NEW n \in LastWrite(q)'
    PROVE  \/ n = Len(log) + 1 /\ row.kind = "push" /\ q \in DOMAIN row.after /\ log'[n] = row
           \/ /\ n \in LastWrite(q) /\ n \in DOMAIN log /\ log'[n] = log[n]
              /\ row.kind = "push" => q \notin DOMAIN row.after
<1>1. /\ DOMAIN log' = DOMAIN log \cup {Len(log) + 1} /\ Len(log) + 1 \notin DOMAIN log
      /\ \A m \in DOMAIN log : log'[m] = log[m]
      /\ log'[Len(log) + 1] = row
  BY LogFacts, LogGrows
<1>2. Len(log) \in Nat /\ DOMAIN log = 1..Len(log)
  BY LogFacts
<1>3. /\ n \in DOMAIN log' /\ log'[n].kind = "push" /\ q \in DOMAIN log'[n].after
      /\ \A m \in DOMAIN log' : log'[m].kind = "push" /\ q \in DOMAIN log'[m].after => m <= n
  BY DEF LastWrite, Writes
<1>4. CASE n = Len(log) + 1
  BY <1>1, <1>3, <1>4
<1>5. CASE n # Len(log) + 1
  <2>1. n \in DOMAIN log /\ log'[n] = log[n] /\ n <= Len(log)
    BY <1>1, <1>2, <1>3, <1>5
  <2>2. \A m \in DOMAIN log : log[m].kind = "push" /\ q \in DOMAIN log[m].after => m <= n
    BY <1>1, <1>3
  <2>3. n \in LastWrite(q)
    BY <1>3, <2>1, <2>2 DEF LastWrite, Writes
  <2>4. row.kind = "push" /\ q \in DOMAIN row.after => Len(log) + 1 <= n
    BY <1>1, <1>3
  <2>5. ~(Len(log) + 1 <= n)
    BY <1>2, <2>1
  <2> QED
    BY <2>1, <2>3, <2>4, <2>5
<1> QED
  BY <1>4, <1>5

\* What a step that leaves the pages, the log and the devices alone leaves.
LEMMA LogRests ==
    ASSUME TypeInv, LogOK, UNCHANGED <<disk, log, head, seen>>,
           minted' \in {minted, minted + 1}, meta' \in {meta, TRUE}
    PROVE  LogOK'
<1>1. Rows' /\ Seen'
  BY DEF LogOK, Rows, Seen, Writes, LastWrite, SameBody, Present
<1>2. LogBelow(minted + 1)'
  <2>1. ASSUME NEW n \in DOMAIN log
        PROVE  Below(log[n].touched, minted' + 1) /\ Below(log[n].after, minted' + 1)
    BY LogFacts, RowFacts DEF LogOK, LogBelow, Below
  <2> QED
    BY <2>1 DEF LogBelow, Below
<1>3. Below(disk, minted + 1)'
  BY LogFacts DEF LogOK, Below
<1> QED
  BY <1>1, <1>2, <1>3 DEF LogOK

\* What a write of one page leaves, when it is not the last logged write.
LEMMA LogPuts ==
    ASSUME TypeInv, LogOK, NEW q \in Pages, NEW x \in Int, disk' = [disk EXCEPT ![q] = x],
           UNCHANGED <<log, head, seen, minted, meta>>, -(minted + 1) < x, x < minted + 1,
           \A n \in LastWrite(q) : log[n].after[q] # x
    PROVE  LogOK'
<1>1. Rows' /\ LogBelow(minted + 1)'
  BY DEF LogOK, Rows, Writes, LogBelow, Below
<1>2. disk'[q] = x /\ DOMAIN disk' = Pages /\ \A p \in Pages \ {q} : disk'[p] = disk[p]
  BY LogFacts
<1>3. Below(disk, minted + 1)'
  BY <1>2, LogFacts DEF LogOK, Below
<1>4. Seen'
  <2> SUFFICES ASSUME NEW d \in Careful, NEW p \in Pages, NEW n \in LastWrite(p),
                      n <= head[d], log[n].after[p] = disk'[p]
               PROVE  SameBody(disk'[p], seen[d][p])
    BY DEF Seen, LastWrite, Writes, SameBody, Present
  <2>1. p # q
    BY <1>2
  <2>2. disk'[p] = disk[p]
    BY <1>2, <2>1
  <2> QED
    BY <2>2 DEF LogOK, Seen
<1> QED
  BY <1>1, <1>3, <1>4 DEF LogOK

\* What a new row leaves, but for what the devices have seen.
LEMMA LogRecords ==
    ASSUME TypeInv, LogOK, meta, NEW row \in LogRows, log' = Append(log, row),
           UNCHANGED <<disk, minted, meta>>,
           Below(row.touched, minted + 1), Below(row.after, minted + 1),
           row.kind = "push" =>
               /\ DOMAIN row.after = DOMAIN row.touched
               /\ row.by # Operator => \A p \in DOMAIN row.touched : row.touched[p] # row.after[p],
           \A d \in Devices : head'[d] \in Nat /\ head'[d] <= Len(log) + 1,
           Seen'
    PROVE  LogOK'
<1>1. /\ DOMAIN log' = DOMAIN log \cup {Len(log) + 1} /\ Len(log') = Len(log) + 1
      /\ \A m \in DOMAIN log : log'[m] = log[m]
      /\ log'[Len(log) + 1] = row
  BY LogFacts, LogGrows
<1>2. Rows'
  <2> SUFFICES ASSUME NEW n \in DOMAIN log', log'[n].kind = "push"
               PROVE  /\ DOMAIN log'[n].after = DOMAIN log'[n].touched
                      /\ log'[n].by # Operator =>
                            \A p \in DOMAIN log'[n].touched : log'[n].touched[p] # log'[n].after[p]
    BY DEF Rows, Writes
  <2>1. CASE n \in DOMAIN log
    BY <1>1, <2>1 DEF LogOK, Rows, Writes
  <2>2. CASE n = Len(log) + 1
    BY <1>1, <2>2
  <2> QED
    BY <1>1, <2>1, <2>2
<1>3. LogBelow(minted + 1)'
  <2>1. ASSUME NEW n \in DOMAIN log'
        PROVE  Below(log'[n].touched, minted + 1) /\ Below(log'[n].after, minted + 1)
    <3>1. CASE n \in DOMAIN log
      BY <1>1, <3>1 DEF LogOK, LogBelow
    <3>2. CASE n = Len(log) + 1
      BY <1>1, <3>2
    <3> QED
      BY <1>1, <3>1, <3>2
  <2> QED
    BY <2>1 DEF LogBelow, Below
<1> QED
  BY <1>1, <1>2, <1>3 DEF LogOK, Below

-----------------------------------------------------------------------------
(* Pushes, pulls and undo: the operations under way.                        *)

\* What is neither a push, nor a pull, nor an undo.
LEMMA RestFits ==
    ASSUME NEW a, NEW j, j.stage \in {"idle", "acquire"}, j.touched = <<>>
    PROVE  Fits(a, j) /\ Fits(a, j)'
BY NoPreImage DEF Fits, Pushing, Pulling, Undoing, Below

\* One operation moves on and the others have not begun.
LEMMA OneMoves ==
    ASSUME TypeInv, Alone, ~Overlap, NEW a \in Actors, jobs[a] # Idle \/ MayStart(a),
           NEW new \in Jobs, Does(a, new), Fits(a, new)'
    PROVE  \A b \in Actors : Fits(b, jobs[b])'
<1>1. jobs'[a] = new /\ \A b \in Actors \ {a} : jobs'[b] = Idle
  BY OthersIdle
<1>2. Fits(a, jobs[a])'
  BY <1>1 DEF Fits, Pushing, Pulling, Undoing, Below
<1>3. ASSUME NEW b \in Actors \ {a} PROVE Fits(b, jobs[b])'
  <2>1. jobs'[b].stage = "idle" /\ jobs'[b].touched = <<>>
    BY <1>1, IdleIsAJob
  <2> QED
    BY <2>1, NoPreImage DEF Fits, Pushing, Pulling, Undoing, Below
<1> QED
  BY <1>2, <1>3

\* An operation that the step is not about, while the wiki stays as it is.
LEMMA StillFits ==
    ASSUME UNCHANGED <<meta, disk, log, head, minted>>, NEW a, NEW j, NEW k, Fits(a, j),
           k.stage = j.stage, k.ver = j.ver, k.op = j.op, k.pages = j.pages, k.todo = j.todo,
           k.deletes = j.deletes, k.touched = j.touched
    PROVE  Fits(a, k)'
<1>1. Below(k.touched, minted + 1)'
  BY DEF Fits, Below
<1>2. a \in Devices => Pushing(a, k)'
  BY DEF Fits, Pushing, Below, LogBelow, Writes
<1>3. a \in Devices => Pulling(a, k)'
  BY DEF Fits, Pulling
<1>4. a = Operator => Undoing(k)'
  BY DEF Fits, Undoing, Writes
<1> QED
  BY <1>1, <1>2, <1>3, <1>4 DEF Fits

LEMMA PushesFit ==
    ASSUME LogInv, ~Overlap, NEW d \in Devices, Push(d)
    PROVE  \A b \in Actors : Fits(b, jobs[b])'
<1> DEFINE j == jobs[d]
<1>0. d \in Actors /\ d # Operator /\ j \in Jobs /\ TypeInv /\ Alone /\ LogOK /\ Fits(d, j)
      /\ Pushing(d, j) /\ j.ver \in Nat /\ minted \in Nat /\ j.op \in Nat
      /\ Below(j.touched, minted + 1)
  <2>1. d \in Actors /\ d # Operator /\ TypeInv /\ Alone /\ LogOK /\ Fits(d, j)
    BY ActorsAre DEF LogInv
  <2>2. j \in Jobs /\ j.ver \in Nat /\ MaxOps \in Nat /\ MaxLeases \in Nat
    BY <2>1, JobFacts
  <2>3. j.op \in 0..(MaxOps + MaxLeases)
    BY <2>2 DEF Jobs
  <2> QED
    BY <2>1, <2>2, <2>3, LogFacts DEF Fits
<1>1. \A a \in Actors : jobs[a].stage # "idle" => jobs[a] # Idle
  BY IdleIsAJob
<1>2. CASE Does(d, Idle) /\ j.stage # "idle"
  <2>1. Fits(d, Idle)'
    BY RestFits, IdleIsAJob
  <2> QED
    BY <1>0, <1>1, <1>2, <2>1, OneMoves, IdleIsAJob
<1>3. ASSUME NEW r \in Requests, CreateStart(d, r) PROVE \A b \in Actors : Fits(b, jobs[b])'
  <2>1. PICK new \in Jobs :
            /\ Does(d, new) /\ new.stage = "forge"
            /\ new.ver = minted + 1 /\ new.todo = new.pages /\ new.deletes = {} /\ new.touched = <<>>
    BY <1>0, <1>3, CreateStarts
  <2>2. MayStart(d) /\ ~meta /\ minted' = minted + 1 /\ UNCHANGED <<disk, log, head>>
    BY <1>0, <1>3, CreateStarts DEF wiki, device
  <2>3. log = <<>> /\ LogBelow(minted + 1) /\ Below(disk, minted + 1)
    BY <1>0, <2>2 DEF LogOK
  <2>4. Pushing(d, new)'
    <3>1. LogBelow(new.ver)' /\ Below(disk', new.ver)
      BY <2>1, <2>2, <2>3 DEF LogBelow, Below
    <3>2. new.ver > 0 /\ new.ver = minted'
      BY <1>0, <2>1, <2>2
    <3> QED
      BY <2>1, <2>2, <2>3, <3>1, <3>2 DEF Pushing, Below
  <2>5. Fits(d, new)'
    BY <1>0, <2>1, <2>4, NoPreImage DEF Fits, Pulling, Below
  <2> QED
    BY <1>0, <2>1, <2>2, <2>5, OneMoves
<1>4. ASSUME NEW r \in Requests, NEW g \in BOOLEAN, PushStart(d, r, g)
      PROVE  \A b \in Actors : Fits(b, jobs[b])'
  <2>1. PICK new \in Jobs :
            /\ Does(d, new) /\ new.stage = "gate" /\ new.ver = minted + 1 /\ new.touched = <<>>
            /\ d \in Careful => new.op = head[d] /\ head[d] # 0
    BY <1>0, <1>4, PushStarts
  <2>2. MayStart(d) /\ meta /\ minted' = minted + 1 /\ UNCHANGED <<meta, disk, log, head>>
    BY <1>0, <1>4, PushStarts DEF device
  <2>3. LogBelow(minted + 1) /\ Below(disk, minted + 1)
    BY <1>0 DEF LogOK
  <2>4. Pushing(d, new)'
    <3>1. LogBelow(new.ver)' /\ Below(disk', new.ver)
      BY <2>1, <2>2, <2>3 DEF LogBelow, Below
    <3>2. new.ver > 0 /\ new.ver = minted'
      BY <1>0, <2>1, <2>2
    <3> QED
      BY <2>1, <2>2, <3>1, <3>2 DEF Pushing, Below
  <2>5. Fits(d, new)'
    BY <1>0, <2>1, <2>4, NoPreImage DEF Fits, Pulling, Below
  <2> QED
    BY <1>0, <2>1, <2>2, <2>5, OneMoves
<1>5. CASE CreateMeta(d)
  <2>1. PICK new \in Jobs :
            /\ Does(d, new) /\ new.stage = "write" /\ SamePush(new, j)
            /\ new.touched = [p \in j.todo |-> 0]
    BY <1>0, <1>5, MetaIsWritten
  <2>2. j.stage = "forge" /\ meta' = TRUE /\ UNCHANGED <<disk, log, head, minted>>
    BY <1>0, <1>5, MetaIsWritten DEF device
  <2>3. /\ j.ver = minted /\ j.ver > 0 /\ LogBelow(j.ver) /\ log = <<>>
        /\ j.todo = j.pages /\ j.deletes = {}
    BY <1>0, <2>2 DEF Pushing
  <2>4. new.ver = j.ver /\ DOMAIN new.touched = new.pages \cup new.deletes
        /\ \A p \in DOMAIN new.touched : new.touched[p] = 0
    BY <2>1, <2>3 DEF SamePush
  <2>5. Below(new.touched, new.ver) /\ Below(new.touched, minted + 1)
    BY <1>0, <2>3, <2>4 DEF Below
  <2>6. LogBelow(new.ver)' /\ Writes' = {}
    BY <2>2, <2>3, <2>4 DEF LogBelow, Below, Writes
  <2>7. Pushing(d, new)'
    BY <2>1, <2>2, <2>3, <2>4, <2>5, <2>6 DEF Pushing, Below
  <2>8. Fits(d, new)'
    BY <1>0, <2>1, <2>2, <2>5, <2>7 DEF Fits, Pulling, Below
  <2> QED
    BY <1>0, <1>1, <2>1, <2>2, <2>8, OneMoves
<1>6. CASE PushGate(d)
  <2>1. PICK new \in Jobs :
            /\ Does(d, new)
            /\ \/ new = Idle
               \/ /\ new.stage = "snapshot" /\ SamePush(new, j) /\ ~ConflictingHead(j.op)
                  /\ new.touched = j.touched
    BY <1>0, <1>6, GateIsPassed
  <2>2. j.stage = "gate" /\ UNCHANGED <<meta, disk, log, head, minted>>
    BY <1>0, <1>6, GateIsPassed DEF wiki, device
  <2>3. CASE new = Idle
    BY <1>2, <2>1, <2>2, <2>3
  <2>4. CASE new.stage = "snapshot" /\ SamePush(new, j) /\ ~ConflictingHead(j.op)
             /\ new.touched = j.touched
    <3>1. j.ver = minted /\ j.ver > 0 /\ LogBelow(j.ver) /\ Below(disk, j.ver) /\ meta
          /\ (d \in Careful => j.op = head[d] /\ j.op # 0)
      BY <1>0, <2>2 DEF Pushing
    <3>2. d \in Careful => \A n \in Writes : n <= head[d]
      <4>1. \A n \in Writes : n \in Int
        BY <1>0, LogFacts DEF Writes
      <4> QED
        BY <1>0, <2>4, <3>1, <4>1 DEF ConflictingHead
    <3>3. new.ver = j.ver
      BY <2>4 DEF SamePush
    <3>4. LogBelow(new.ver)' /\ Below(disk', new.ver) /\ Writes' = Writes
      BY <2>2, <3>1, <3>3 DEF LogBelow, Below, Writes
    <3>5. Pushing(d, new)'
      BY <2>2, <2>4, <3>1, <3>2, <3>3, <3>4 DEF Pushing, Below
    <3>6. Fits(d, new)'
      BY <1>0, <2>2, <2>4, <3>5 DEF Fits, Pulling, Below
    <3> QED
      BY <1>0, <1>1, <2>1, <2>2, <3>6, OneMoves
  <2> QED
    BY <2>1, <2>3, <2>4
<1>7. CASE PushSnapshot(d)
  <2>1. PICK new \in Jobs :
            /\ Does(d, new) /\ new.stage = "write" /\ SamePush(new, j)
            /\ new.touched = [p \in j.pages \cup j.deletes |-> disk[p]]
    BY <1>0, <1>7, PreImageIsTaken
  <2>2. j.stage = "snapshot" /\ UNCHANGED <<meta, disk, log, head, minted>>
    BY <1>0, <1>7, PreImageIsTaken DEF wiki, device
  <2>3. j.ver = minted /\ j.ver > 0 /\ LogBelow(j.ver) /\ Below(disk, j.ver) /\ meta
        /\ (d \in Careful => \A n \in Writes : n <= head[d])
    BY <1>0, <2>2 DEF Pushing
  <2>4. new.ver = j.ver /\ DOMAIN new.touched = new.pages \cup new.deletes
        /\ \A p \in DOMAIN new.touched : p \in Pages /\ new.touched[p] = disk[p]
    BY <1>0, <2>1, JobFacts DEF SamePush
  <2>5. Below(new.touched, new.ver) /\ Below(new.touched, minted + 1)
    BY <1>0, <2>3, <2>4, LogFacts DEF Below
  <2>6. LogBelow(new.ver)' /\ Writes' = Writes
    BY <2>2, <2>3, <2>4 DEF LogBelow, Below, Writes
  <2>7. Pushing(d, new)'
    BY <2>1, <2>2, <2>3, <2>4, <2>5, <2>6 DEF Pushing, Below
  <2>8. Fits(d, new)'
    BY <1>0, <2>1, <2>2, <2>5, <2>7 DEF Fits, Pulling, Below
  <2> QED
    BY <1>0, <1>1, <2>1, <2>2, <2>8, OneMoves
<1>8. ASSUME NEW p \in Pages, PushWrite(d, p) \/ PushDelete(d, p)
      PROVE  \A b \in Actors : Fits(b, jobs[b])'
  <2>1. PICK new \in Jobs :
            /\ Does(d, new)
            /\ new = Idle \/ (new.stage = "write" /\ SamePush(new, j) /\ new.touched = j.touched)
    BY <1>0, <1>8, PageIsPut
  <2>2. j.stage = "write" /\ UNCHANGED <<meta, log, head, minted>>
    BY <1>0, <1>8, PageIsPut DEF device
  <2>3. CASE new = Idle
    BY <1>2, <2>1, <2>2, <2>3
  <2>4. CASE new.stage = "write" /\ SamePush(new, j) /\ new.touched = j.touched
    <3>1. j.ver = minted /\ j.ver > 0 /\ LogBelow(j.ver) /\ meta /\ Below(j.touched, j.ver)
          /\ DOMAIN j.touched = j.pages \cup j.deletes
          /\ (d \in Careful => \A n \in Writes : n <= head[d])
      BY <1>0, <2>2 DEF Pushing
    <3>2. new.ver = j.ver /\ DOMAIN new.touched = new.pages \cup new.deletes /\ Below(new.touched, new.ver)
      BY <2>4, <3>1 DEF SamePush
    <3>3. LogBelow(new.ver)' /\ Writes' = Writes
      BY <2>2, <3>1, <3>2 DEF LogBelow, Below, Writes
    <3>4. Pushing(d, new)'
      BY <2>2, <2>4, <3>1, <3>2, <3>3 DEF Pushing, Below
    <3>5. Fits(d, new)'
      BY <1>0, <2>2, <2>4, <3>4 DEF Fits, Pulling, Below
    <3> QED
      BY <1>0, <1>1, <2>1, <2>2, <3>5, OneMoves
  <2> QED
    BY <2>1, <2>3, <2>4
<1>9. CASE PushLog(d)
  <2>1. Does(d, Idle) /\ j.stage # "idle"
    BY <1>9 DEF PushLog
  <2> QED
    BY <1>2, <2>1
<1> QED
  BY <1>3, <1>4, <1>5, <1>6, <1>7, <1>8, <1>9 DEF Push

\* Of a push, only a page write and the row at the end reach the pages or the log.
LEMMA PushesKeepTheLog ==
    ASSUME LogInv, ~Overlap, NEW d \in Devices, Push(d)
    PROVE  LogOK'
<1> DEFINE j == jobs[d]
<1>0. d \in Actors /\ d # Operator /\ j \in Jobs /\ TypeInv /\ LogOK /\ Pushing(d, j)
      /\ j.ver \in Nat /\ minted \in Nat /\ Below(j.touched, minted + 1)
  BY ActorsAre, JobFacts, LogFacts DEF LogInv, Fits
<1>1. ASSUME NEW r \in Requests, CreateStart(d, r) PROVE LogOK'
  <2>1. UNCHANGED <<disk, log, head, seen, meta>> /\ minted' = minted + 1
    BY <1>0, <1>1, CreateStarts DEF wiki, device
  <2> QED
    BY <1>0, <2>1, LogRests
<1>2. ASSUME NEW r \in Requests, NEW g \in BOOLEAN, PushStart(d, r, g) PROVE LogOK'
  <2>1. UNCHANGED <<disk, log, head, seen, meta>> /\ minted' = minted + 1
    BY <1>0, <1>2, PushStarts DEF device
  <2> QED
    BY <1>0, <2>1, LogRests
<1>3. CASE CreateMeta(d) \/ PushGate(d) \/ PushSnapshot(d)
  <2>1. UNCHANGED <<disk, log, head, seen, minted>> /\ meta' \in {meta, TRUE}
    BY <1>3 DEF CreateMeta, PushGate, PushSnapshot, wiki, device
  <2> QED
    BY <1>0, <2>1, LogRests
<1>4. ASSUME NEW p \in Pages, PushWrite(d, p) \/ PushDelete(d, p) PROVE LogOK'
  <2>1. /\ j.stage = "write" /\ UNCHANGED <<meta, log, head, seen, minted>>
        /\ disk' \in {disk, [disk EXCEPT ![p] = j.ver], [disk EXCEPT ![p] = -j.ver]}
    BY <1>0, <1>4, PageIsPut DEF device
  <2>2. CASE disk' = disk
    BY <1>0, <2>1, <2>2, LogRests
  <2>3. ASSUME NEW x \in {j.ver, -j.ver}, disk' = [disk EXCEPT ![p] = x] PROVE LogOK'
    <3>1. j.ver = minted /\ j.ver > 0 /\ LogBelow(j.ver)
      BY <1>0, <2>1 DEF Pushing
    <3>2. x \in Int /\ -(minted + 1) < x /\ x < minted + 1
      BY <1>0, <3>1
    <3>3. ASSUME NEW n \in LastWrite(p) PROVE log[n].after[p] # x
      <4>1. n \in DOMAIN log /\ p \in DOMAIN log[n].after
        BY DEF LastWrite, Writes
      <4>2. -j.ver < log[n].after[p] /\ log[n].after[p] < j.ver
        BY <3>1, <4>1 DEF LogBelow, Below
      <4>3. log[n].after[p] \in Int
        BY <1>0, <4>1, RowFacts
      <4> HIDE DEF j
      <4> QED
        BY <1>0, <4>2, <4>3
    <3> QED
      BY <1>0, <2>1, <2>3, <3>2, <3>3, LogPuts
  <2> QED
    BY <2>1, <2>2, <2>3
<1>5. CASE PushLog(d)
  <2> DEFINE sent == Sent(j)
             undo == (j.mode = "upsert")
             row == [kind |-> "push", by |-> d, undo |-> undo, touched |-> j.touched, after |-> sent]
  <2>1. /\ j.stage = "write" /\ log' = Append(log, row)
        /\ head' = [head EXCEPT ![d] = Len(log) + 1]
        /\ seen' = [seen EXCEPT ![d] = Copies(d, sent)]
        /\ UNCHANGED <<meta, disk, minted>>
    BY <1>5 DEF PushLog, Record
  <2>2. /\ j.ver = minted /\ j.ver > 0 /\ LogBelow(j.ver) /\ meta /\ Below(j.touched, j.ver)
        /\ DOMAIN j.touched = j.pages \cup j.deletes
        /\ (d \in Careful => \A n \in Writes : n <= head[d])
    BY <1>0, <2>1 DEF Pushing
  <2>3. /\ j.touched \in PreImages /\ j.pages \subseteq Pages /\ j.deletes \subseteq Pages
        /\ j.ver \in Bodies /\ -j.ver \in Bodies
    BY <1>0, JobFacts
  <2>4. /\ DOMAIN sent = j.pages \cup j.deletes /\ sent \in PreImages
        /\ \A p \in DOMAIN sent : sent[p] \in {j.ver, -j.ver}
    BY <2>3, PreImagesAre DEF Sent
  <2>5. undo \in BOOLEAN
    OBVIOUS
  <2> HIDE DEF sent, undo
  <2>6. /\ row \in LogRows /\ row.kind = "push" /\ row.by = d /\ row.touched = j.touched
        /\ row.after = sent
    BY <1>0, <2>3, <2>4, <2>5 DEF LogRows
  <2> HIDE DEF row
  <2>7. Below(row.after, minted + 1) /\ Below(row.touched, minted + 1)
    BY <1>0, <2>2, <2>4, <2>6 DEF Below
  <2>8. DOMAIN row.after = DOMAIN row.touched
        /\ \A p \in DOMAIN row.touched : row.touched[p] # row.after[p]
    <3>1. ASSUME NEW p \in DOMAIN j.touched PROVE j.touched[p] # sent[p]
      <4>1. -j.ver < j.touched[p] /\ j.touched[p] < j.ver /\ j.touched[p] \in Bodies
        BY <2>2, <2>3, PreImagesAre DEF Below
      <4>2. sent[p] \in {j.ver, -j.ver}
        BY <2>2, <2>4
      <4>3. j.touched[p] \in Int
        BY <4>1, SmartWikiAssumption DEF Bodies
      <4> HIDE DEF j
      <4> QED
        BY <1>0, <4>1, <4>2, <4>3
    <3> QED
      BY <2>2, <2>4, <2>6, <3>1
  <2>9. \A e \in Devices : head'[e] \in Nat /\ head'[e] <= Len(log) + 1
    <3>1. head \in [Devices -> 0..MaxOps] /\ Len(log) \in Nat
          /\ \A e \in Devices : head[e] \in Nat /\ head[e] <= Len(log)
      BY <1>0, LogFacts DEF TypeInv, TypeOK, LogOK
    <3> QED
      BY <2>1, <3>1
  <2>10. Seen'
    <3> SUFFICES ASSUME NEW e \in Careful, NEW p \in Pages, NEW n \in LastWrite(p)',
                        n <= head'[e], log'[n].after[p] = disk[p]
                 PROVE  SameBody(disk[p], seen'[e][p])
      BY <2>1 DEF Seen, SameBody, Present
    <3>0. /\ e \in Devices /\ Len(log) \in Nat /\ head \in [Devices -> 0..MaxOps]
          /\ head[e] <= Len(log) /\ head[e] \in Nat /\ seen \in [Devices -> [Pages -> Bodies]]
      BY <1>0, LogFacts DEF TypeInv, TypeOK, LogOK
    <3>1. CASE n = Len(log) + 1 /\ p \in DOMAIN row.after /\ log'[n] = row
      <4>1. e = d
        BY <2>1, <3>0, <3>1
      <4>2. seen'[e][p] = sent[p]
        BY <2>1, <2>6, <3>0, <3>1, <4>1 DEF Copies
      <4> QED
        BY <2>6, <3>1, <4>2 DEF SameBody
    <3>2. CASE n \in LastWrite(p) /\ n \in DOMAIN log /\ log'[n] = log[n] /\ p \notin DOMAIN row.after
      <4>1. n <= head[e] /\ seen'[e][p] = seen[e][p]
        <5>1. CASE e = d
          <6>1. n \in Writes
            BY <3>2 DEF LastWrite
          <6>2. seen'[e][p] = seen[e][p]
            BY <2>1, <2>6, <3>0, <3>2, <5>1 DEF Copies
          <6> QED
            BY <2>2, <5>1, <6>1, <6>2
        <5>2. CASE e # d
          BY <2>1, <3>0, <5>2
        <5> QED
          BY <5>1, <5>2
      <4> QED
        BY <1>0, <3>2, <4>1 DEF LogOK, Seen
    <3>3. \/ n = Len(log) + 1 /\ p \in DOMAIN row.after /\ log'[n] = row
          \/ n \in LastWrite(p) /\ n \in DOMAIN log /\ log'[n] = log[n] /\ p \notin DOMAIN row.after
      BY <1>0, <2>1, <2>6, LastWriteGrows
    <3> QED
      BY <3>1, <3>2, <3>3
  <2> QED
    BY <1>0, <2>1, <2>2, <2>6, <2>7, <2>8, <2>9, <2>10, LogRecords
<1> QED
  BY <1>1, <1>2, <1>3, <1>4, <1>5 DEF Push

LEMMA PullsKeepTheLog ==
    ASSUME LogInv, ~Overlap, NEW d \in Devices, Pull(d)
    PROVE  LogOK' /\ \A b \in Actors : Fits(b, jobs[b])'
<1> DEFINE j == jobs[d]
<1>0. d \in Actors /\ d # Operator /\ j \in Jobs /\ TypeInv /\ Alone /\ LogOK /\ Pulling(d, j)
      /\ minted \in Nat /\ Below(j.touched, minted + 1) /\ Len(log) \in Nat
  BY ActorsAre, JobFacts, LogFacts DEF LogInv, Fits
<1>1. \A a \in Actors : jobs[a].stage # "idle" => jobs[a] # Idle
  BY IdleIsAJob
<1>2. ASSUME NEW S \in Reads, PullRead(d, S) PROVE LogOK' /\ \A b \in Actors : Fits(b, jobs[b])'
  <2>1. /\ MayStart(d) /\ meta /\ UNCHANGED <<meta, disk, log, head, seen, minted>>
        /\ Does(d, [Idle EXCEPT !.stage = "head", !.touched = [p \in S |-> disk[p]]])
        /\ d \in Careful => S = Pages
    BY <1>2 DEF PullRead, wiki, device
  <2>2. PICK new \in Jobs : Does(d, new) /\ new.stage = "head" /\ new.touched = [p \in S |-> disk[p]]
    <3> DEFINE image == [p \in S |-> disk[p]]
               k == [Idle EXCEPT !.stage = "head", !.touched = image]
    <3>0. S \in SUBSET Pages /\ disk \in [Pages -> Bodies]
      BY <1>0, LogFacts, SmartWikiAssumption
    <3>1. image \in PreImages
      <4>1. image \in [S -> Bodies]
        BY <3>0
      <4> QED
        BY <3>0, <4>1, PreImagesAre
    <3> HIDE DEF image
    <3>2. k \in Jobs /\ k.stage = "head" /\ k.touched = image
      BY <3>1, IdleIsAJob DEF Jobs, Stages
    <3>3. Does(d, k)
      BY <2>1 DEF image
    <3> HIDE DEF k
    <3> QED
      BY <3>2, <3>3 DEF image
  <2>3. d \in Careful => new.touched = disk
    BY <1>0, <2>1, <2>2, LogFacts
  <2>4. Below(new.touched, minted + 1)
    <3>1. S \subseteq Pages
      BY SmartWikiAssumption
    <3> QED
      BY <1>0, <2>2, <3>1, LogFacts DEF LogOK, Below
  <2>5. Fits(d, new)'
    BY <1>0, <2>1, <2>2, <2>3, <2>4 DEF Fits, Pushing, Pulling, Below
  <2> QED
    BY <1>0, <2>1, <2>2, <2>5, OneMoves, LogRests
<1>3. CASE PullHead(d)
  <2>1. /\ j.stage = "head" /\ UNCHANGED <<meta, disk, log, head, seen, minted>>
        /\ Does(d, [j EXCEPT !.stage = "record", !.op = Len(log)])
    BY <1>3 DEF PullHead, wiki, device
  <2>2. PICK new \in Jobs : Does(d, new) /\ new.stage = "record" /\ new.op = Len(log) /\ new.touched = j.touched
    <3> DEFINE n == Len(log)
               k == [j EXCEPT !.stage = "record", !.op = n]
    <3>1. n \in 0..(MaxOps + MaxLeases)
      BY <1>0, JobFacts
    <3> HIDE DEF n
    <3>2. k \in Jobs /\ k.stage = "record" /\ k.op = n /\ k.touched = j.touched
      BY <1>0, <3>1 DEF Jobs, Stages
    <3>3. Does(d, k)
      BY <2>1 DEF n
    <3> HIDE DEF k
    <3> QED
      BY <3>2, <3>3 DEF n
  <2>3. meta /\ (d \in Careful => j.touched = disk)
    BY <1>0, <2>1 DEF Pulling
  <2>4. new.op <= Len(log')
    BY <1>0, <2>1, <2>2
  <2>5. Fits(d, new)'
    BY <1>0, <2>1, <2>2, <2>3, <2>4 DEF Fits, Pushing, Pulling, Below
  <2> QED
    BY <1>0, <1>1, <2>1, <2>2, <2>5, OneMoves, LogRests
<1>4. CASE PullLog(d)
  <2> DEFINE row == [kind |-> "pull", by |-> d, undo |-> FALSE, touched |-> <<>>, after |-> <<>>]
  <2>1. /\ j.stage = "record" /\ log' = Append(log, row) /\ Does(d, Idle)
        /\ head' = [head EXCEPT ![d] = j.op]
        /\ seen' = [seen EXCEPT ![d] = Copies(d, j.touched)]
        /\ UNCHANGED <<meta, disk, minted>>
    BY <1>4 DEF PullLog, Record
  <2>2. meta /\ j.op <= Len(log) /\ (d \in Careful => j.touched = disk)
    BY <1>0, <2>1 DEF Pulling
  <2>3. j.op \in Nat
    <3>1. j.op \in 0..(MaxOps + MaxLeases) /\ MaxOps \in Nat /\ MaxLeases \in Nat
      BY <1>0, JobFacts DEF Jobs
    <3> QED
      BY <3>1
  <2>4. /\ row \in LogRows /\ row.kind = "pull" /\ row.touched = <<>> /\ row.after = <<>>
    BY <1>0, NoPreImage DEF LogRows
  <2> HIDE DEF row
  <2>5. Below(row.after, minted + 1) /\ Below(row.touched, minted + 1)
    BY <2>4, NoPreImage DEF Below
  <2>6. /\ head \in [Devices -> 0..MaxOps] /\ seen \in [Devices -> [Pages -> Bodies]]
        /\ \A e \in Devices : head[e] \in Nat /\ head[e] <= Len(log)
    BY <1>0, LogFacts DEF TypeInv, TypeOK, LogOK
  <2>7. \A e \in Devices : head'[e] \in Nat /\ head'[e] <= Len(log) + 1
    BY <1>0, <2>1, <2>2, <2>3, <2>6
  <2>8. Seen'
    <3> SUFFICES ASSUME NEW e \in Careful, NEW p \in Pages, NEW n \in LastWrite(p)',
                        n <= head'[e], log'[n].after[p] = disk[p]
                 PROVE  SameBody(disk[p], seen'[e][p])
      BY <2>1 DEF Seen, SameBody, Present
    <3>0. e \in Devices
      BY SmartWikiAssumption
    <3>1. n \in LastWrite(p) /\ log'[n] = log[n]
      BY <1>0, <2>1, <2>4, LastWriteGrows
    <3>2. CASE e = d
      <4>1. seen'[e][p] = disk[p]
        BY <1>0, <2>1, <2>2, <2>6, <3>0, <3>2, LogFacts DEF Copies
      <4> QED
        BY <4>1 DEF SameBody
    <3>3. CASE e # d
      <4>1. head'[e] = head[e] /\ seen'[e] = seen[e]
        BY <2>1, <2>6, <3>0, <3>3
      <4> QED
        BY <1>0, <3>1, <4>1 DEF LogOK, Seen
    <3> QED
      BY <3>2, <3>3
  <2>9. LogOK'
    BY <1>0, <2>1, <2>2, <2>4, <2>5, <2>7, <2>8, LogRecords
  <2>10. Fits(d, Idle)'
    BY RestFits, IdleIsAJob
  <2> QED
    BY <1>0, <1>1, <2>1, <2>9, <2>10, OneMoves, IdleIsAJob
<1> QED
  BY <1>2, <1>3, <1>4 DEF Pull

\* An undo is of the last write of the page it restores.
LEMMA UndoIsOfTheLast ==
    ASSUME LogInv, NEW p \in Pages, RestorePage(p)
    PROVE  /\ LastWrite(p) = {jobs[Operator].op} /\ jobs[Operator].op \in DOMAIN log
           /\ p \in DOMAIN log[jobs[Operator].op].touched
           /\ log[jobs[Operator].op].touched[p] # log[jobs[Operator].op].after[p]
<1> DEFINE j == jobs[Operator]
           n == j.op
<1>0. Operator \in Actors /\ TypeInv /\ LogOK /\ Rows /\ Undoing(j)
  BY ActorsAre DEF LogInv, Fits, LogOK
<1>1. j.stage = "undo" /\ p \in j.todo
  BY DEF RestorePage
<1>2. /\ n \in Writes /\ log[n].by # Operator
      /\ \A m \in Writes : m > n => DOMAIN log[m].touched \cap DOMAIN log[n].touched = {}
  BY <1>0, <1>1 DEF Undoing
<1>3. j.todo \subseteq DOMAIN log[n].touched
  BY <1>0, <1>1, JobFacts DEF Placed
<1>4. p \in DOMAIN log[n].touched /\ p \in DOMAIN log[n].after
      /\ log[n].touched[p] # log[n].after[p]
  BY <1>0, <1>1, <1>2, <1>3 DEF Rows
<1>5. Writes \subseteq DOMAIN log /\ \A m \in Writes : m \in Int
  BY <1>0, LogFacts DEF Writes
<1> HIDE DEF n
<1>6. ASSUME NEW m \in Writes, p \in DOMAIN log[m].after PROVE m <= n
  <2>1. p \in DOMAIN log[m].touched
    BY <1>0, <1>6 DEF Rows
  <2>2. ~(m > n)
    BY <1>2, <1>4, <2>1
  <2> QED
    BY <1>2, <1>5, <2>2
<1>7. n \in LastWrite(p)
  BY <1>2, <1>4, <1>6 DEF LastWrite
<1>8. ASSUME NEW m \in LastWrite(p) PROVE m = n
  <2>1. m \in Writes /\ m <= n /\ n <= m
    BY <1>2, <1>4, <1>6 DEF LastWrite
  <2> QED
    BY <1>2, <1>5, <2>1
<1>9. LastWrite(p) = {n}
  BY <1>7, <1>8
<1> QED
  BY <1>2, <1>4, <1>5, <1>9 DEF n

LEMMA UndoKeepsTheLog ==
    ASSUME LogInv, ~Overlap, Revert
    PROVE  LogOK' /\ \A b \in Actors : Fits(b, jobs[b])'
<1> DEFINE j == jobs[Operator]
<1>0. /\ Operator \in Actors /\ Operator \notin Devices /\ j \in Jobs /\ TypeInv /\ Alone /\ LogOK
      /\ Undoing(j) /\ minted \in Nat /\ Below(j.touched, minted + 1) /\ Len(log) \in Nat
  BY ActorsAre, JobFacts, LogFacts DEF LogInv, Fits
<1>1. \A a \in Actors : jobs[a].stage # "idle" => jobs[a] # Idle
  BY IdleIsAJob
<1>2. ASSUME NEW n \in DOMAIN log, RevertStart(n) PROVE LogOK' /\ \A b \in Actors : Fits(b, jobs[b])'
  <2>1. /\ MayStart(Operator) /\ n \in Writes /\ log[n].by # Operator
        /\ UNCHANGED <<meta, disk, log, head, seen, minted>>
        /\ Does(Operator, [Idle EXCEPT !.stage = "restore", !.op = n])
    BY <1>2 DEF RevertStart, wiki, device
  <2>2. \A m \in Writes : m > n => DOMAIN log[m].touched \cap DOMAIN log[n].touched = {}
    BY <1>2 DEF RevertStart, Touches
  <2>3. PICK new \in Jobs : Does(Operator, new) /\ new.stage = "restore" /\ new.op = n /\ new.touched = <<>>
    <3> DEFINE k == [Idle EXCEPT !.stage = "restore", !.op = n]
    <3>1. n \in 0..(MaxOps + MaxLeases)
      BY <1>0, JobFacts, LogFacts
    <3>2. k \in Jobs /\ k.stage = "restore" /\ k.op = n /\ k.touched = <<>>
      BY <3>1, IdleIsAJob DEF Jobs, Stages
    <3>3. Does(Operator, k)
      BY <2>1
    <3> HIDE DEF k
    <3> QED
      BY <3>2, <3>3
  <2>4. Undoing(new)'
    BY <2>1, <2>2, <2>3 DEF Undoing, Writes
  <2>5. Fits(Operator, new)'
    BY <1>0, <2>3, <2>4, NoPreImage DEF Fits, Below
  <2> QED
    BY <1>0, <2>1, <2>3, <2>5, OneMoves, LogRests
<1>3. CASE RevertSnapshot
  <2> DEFINE pages == DOMAIN log[j.op].touched
             image == [p \in pages |-> disk[p]]
             k == [j EXCEPT !.stage = "undo", !.todo = pages, !.touched = image]
  <2>1. j.stage = "restore" /\ Does(Operator, k) /\ UNCHANGED <<meta, disk, log, head, seen, minted>>
    BY <1>3 DEF RevertSnapshot, wiki, device
  <2>2. /\ j.op \in Writes /\ log[j.op].by # Operator
        /\ \A m \in Writes : m > j.op => DOMAIN log[m].touched \cap DOMAIN log[j.op].touched = {}
    BY <1>0, <2>1 DEF Undoing
  <2>3. pages \in SUBSET Pages
    BY <1>0, <2>2, LogFacts DEF Writes
  <2>4. DOMAIN image = pages /\ image \in PreImages /\ Below(image, minted + 1)
    <3>1. \A p \in pages : disk[p] \in Bodies
      BY <1>0, <2>3, LogFacts
    <3>2. image \in [pages -> Bodies]
      BY <3>1
    <3>3. Below(image, minted + 1)
      BY <1>0, <2>3, LogFacts DEF LogOK, Below
    <3> QED
      BY <2>3, <3>2, <3>3, PreImagesAre
  <2>5. pages = DOMAIN log[j.op].touched
    OBVIOUS
  <2> HIDE DEF pages, image
  <2>6. k \in Jobs /\ k.stage = "undo" /\ k.op = j.op /\ k.touched = image
    BY <1>0, <2>3, <2>4 DEF Jobs, Stages
  <2> HIDE DEF k
  <2>7. PICK new \in Jobs : /\ Does(Operator, new) /\ new.stage = "undo" /\ new.op = j.op
                            /\ DOMAIN new.touched = DOMAIN log[j.op].touched /\ Below(new.touched, minted + 1)
    BY <2>1, <2>4, <2>5, <2>6
  <2>8. Undoing(new)'
    BY <2>1, <2>2, <2>7 DEF Undoing, Writes
  <2>9. Fits(Operator, new)'
    BY <1>0, <2>1, <2>7, <2>8 DEF Fits, Below
  <2> QED
    BY <1>0, <1>1, <2>1, <2>7, <2>9, OneMoves, LogRests
<1>4. ASSUME NEW p \in Pages, RestorePage(p) PROVE LogOK' /\ \A b \in Actors : Fits(b, jobs[b])'
  <2> DEFINE n == j.op
             x == log[n].touched[p]
             k == [j EXCEPT !.todo = @ \ {p}]
  <2>1. /\ j.stage = "undo" /\ Does(Operator, k) /\ disk' = [disk EXCEPT ![p] = x]
        /\ UNCHANGED <<meta, log, head, seen, minted>>
    BY <1>4 DEF RestorePage, device
  <2>2. /\ LastWrite(p) = {n} /\ n \in DOMAIN log /\ p \in DOMAIN log[n].touched /\ x # log[n].after[p]
    BY <1>4, UndoIsOfTheLast
  <2>3. x \in Int /\ -(minted + 1) < x /\ x < minted + 1
    BY <1>0, <2>2, RowFacts DEF LogOK, LogBelow, Below
  <2>4. \A m \in LastWrite(p) : log[m].after[p] # x
    BY <2>2
  <2>5. k \in Jobs /\ k.stage = "undo" /\ k.op = n /\ k.touched = j.touched
    BY <1>0, <2>1 DEF Jobs
  <2> HIDE DEF x, k
  <2>6. LogOK'
    BY <1>0, <2>1, <2>3, <2>4, LogPuts
  <2>7. PICK new \in Jobs : Does(Operator, new) /\ new.stage = "undo" /\ new.op = j.op /\ new.touched = j.touched
    BY <2>1, <2>5
  <2>8. Undoing(new)'
    BY <1>0, <2>1, <2>7 DEF Undoing, Writes
  <2>9. Fits(Operator, new)'
    BY <1>0, <2>1, <2>7, <2>8 DEF Fits, Below
  <2> QED
    BY <1>0, <1>1, <2>1, <2>6, <2>7, <2>9, OneMoves
<1>5. CASE RevertLog
  <2> DEFINE image == log[j.op].touched
             row == [kind |-> "push", by |-> Operator, undo |-> TRUE, touched |-> j.touched, after |-> image]
  <2>1. /\ j.stage = "undo" /\ log' = Append(log, row) /\ Does(Operator, Idle)
        /\ UNCHANGED <<meta, disk, minted, head, seen>>
    BY <1>5 DEF RevertLog, Record, device
  <2>2. j.op \in DOMAIN log /\ DOMAIN j.touched = DOMAIN image
    BY <1>0, <2>1 DEF Undoing, Writes
  <2>3. image \in PreImages /\ j.touched \in PreImages /\ Below(image, minted + 1)
    BY <1>0, <2>2, LogFacts, JobFacts DEF LogOK, LogBelow
  <2>4. meta
    <3>1. log # <<>>
      BY <2>2
    <3> QED
      BY <1>0, <3>1 DEF LogOK, TypeInv, TypeOK
  <2> HIDE DEF image
  <2>5. /\ row \in LogRows /\ row.kind = "push" /\ row.by = Operator /\ row.touched = j.touched
        /\ row.after = image
    BY <1>0, <2>3 DEF LogRows
  <2> HIDE DEF row
  <2>6. /\ head \in [Devices -> 0..MaxOps]
        /\ \A e \in Devices : head[e] \in Nat /\ head[e] <= Len(log)
    BY <1>0, LogFacts DEF TypeInv, TypeOK, LogOK
  <2>7. \A e \in Devices : head'[e] \in Nat /\ head'[e] <= Len(log) + 1
    BY <1>0, <2>1, <2>6
  <2>8. Seen'
    <3> SUFFICES ASSUME NEW e \in Careful, NEW p \in Pages, NEW n \in LastWrite(p)',
                        n <= head[e], log'[n].after[p] = disk[p]
                 PROVE  SameBody(disk[p], seen[e][p])
      BY <2>1 DEF Seen, SameBody, Present
    <3>0. e \in Devices /\ head[e] \in Nat /\ head[e] <= Len(log)
      BY <2>6, SmartWikiAssumption
    <3>1. n # Len(log) + 1
      BY <1>0, <3>0
    <3>2. n \in LastWrite(p) /\ log'[n] = log[n]
      BY <1>0, <2>1, <2>5, <3>1, LastWriteGrows
    <3> QED
      BY <1>0, <3>2 DEF LogOK, Seen
  <2>9. LogOK'
    BY <1>0, <2>1, <2>2, <2>3, <2>4, <2>5, <2>7, <2>8, LogRecords
  <2>10. Fits(Operator, Idle)'
    BY RestFits, IdleIsAJob
  <2> QED
    BY <1>0, <1>1, <2>1, <2>9, <2>10, OneMoves, IdleIsAJob
<1>6. ASSUME NEW n \in DOMAIN log, DropUndo(n) PROVE LogOK' /\ \A b \in Actors : Fits(b, jobs[b])'
  <2>1. UNCHANGED <<meta, disk, jobs, head, seen, minted>>
    BY <1>6 DEF DropUndo, device
  <2>2. /\ Len(log') = Len(log) /\ DOMAIN log' = DOMAIN log
        /\ \A m \in DOMAIN log : /\ log'[m].kind = log[m].kind /\ log'[m].by = log[m].by
                                 /\ log'[m].touched = log[m].touched /\ log'[m].after = log[m].after
    BY <1>0, <1>6, LogFacts, LogDrops
  <2>3. Writes' = Writes /\ \A p : LastWrite(p)' = LastWrite(p)
    <3>1. Writes' = Writes /\ Writes \subseteq DOMAIN log
      BY <2>2 DEF Writes
    <3> QED
      BY <2>2, <3>1 DEF LastWrite
  <2>4. \A m \in Writes : m \in DOMAIN log
    BY DEF Writes
  <2>5. log # <<>>
    <3>1. DOMAIN log # {} /\ DOMAIN <<>> = {}
      OBVIOUS
    <3> QED
      BY <3>1
  <2>6. LogOK'
    <3>1. Rows'
      BY <1>0, <2>2, <2>3, <2>4 DEF LogOK, Rows
    <3>2. LogBelow(minted + 1)' /\ Below(disk, minted + 1)'
      BY <1>0, <2>1, <2>2 DEF LogOK, LogBelow, Below
    <3>3. Seen'
      <4> SUFFICES ASSUME NEW e \in Careful, NEW p \in Pages, NEW m \in LastWrite(p),
                          m <= head[e], log'[m].after[p] = disk[p]
                   PROVE  SameBody(disk[p], seen[e][p])
        BY <2>1, <2>3 DEF Seen, SameBody, Present
      <4>1. m \in DOMAIN log
        BY <2>4 DEF LastWrite
      <4> QED
        BY <1>0, <2>2, <4>1 DEF LogOK, Seen
    <3>4. ~meta' => log' = <<>>
      BY <1>0, <2>1, <2>5 DEF LogOK
    <3> QED
      BY <1>0, <2>1, <2>2, <3>1, <3>2, <3>3, <3>4 DEF LogOK
  <2>7. ASSUME NEW b \in Actors PROVE Fits(b, jobs[b])'
    <3>1. Fits(b, jobs[b])
      BY DEF LogInv
    <3>2. \A v : LogBelow(v) => LogBelow(v)'
      BY <2>2 DEF LogBelow, Below
    <3>3. ASSUME b \in Devices PROVE Pushing(b, jobs[b])'
      BY <2>1, <2>3, <2>5, <3>1, <3>2, <3>3 DEF Fits, Pushing, Below
    <3>4. ASSUME b \in Devices PROVE Pulling(b, jobs[b])'
      BY <2>1, <2>2, <3>1, <3>4 DEF Fits, Pulling
    <3>5. ASSUME b = Operator PROVE Undoing(jobs[b])'
      BY <2>1, <2>2, <2>3, <2>4, <3>1, <3>5 DEF Fits, Undoing
    <3> QED
      BY <2>1, <3>1, <3>3, <3>4, <3>5 DEF Fits, Below
  <2> QED
    BY <2>6, <2>7
<1> QED
  BY <1>2, <1>3, <1>4, <1>5, <1>6 DEF Revert

\* The leases, the clock and failures do not touch the pages or the log.
LEMMA OthersKeepTheLog ==
    ASSUME LogInv, ~Overlap,
           (\E d \in Devices : Lease(d)) \/ expire_stale \/ Tick \/ Crash \/ (\E a \in Actors : Fails(a))
    PROVE  LogOK' /\ \A b \in Actors : Fits(b, jobs[b])'
<1>0. TypeInv /\ Alone /\ LogOK /\ (\A a \in Actors : Fits(a, jobs[a])) /\ Devices \subseteq Actors
      /\ UNCHANGED <<meta, disk, log, head, seen, minted>>
  BY ActorsAre DEF LogInv, Lease, AcquireRead, AcquireWrite, release, expire_stale, Tick, Crash, Fails, wiki, device
<1>1. LogOK'
  BY <1>0, LogRests
<1>2. CASE UNCHANGED jobs
  <2>1. ASSUME NEW b \in Actors PROVE Fits(b, jobs[b])'
    <3>1. PICK k : k = jobs[b] /\ k = jobs'[b]
      BY <1>2
    <3>2. Fits(b, k)'
      BY <1>0, <3>1, StillFits
    <3> QED
      BY <3>1, <3>2 DEF Fits, Pushing, Pulling, Undoing, Below
  <2> QED
    BY <1>1, <2>1
<1>3. CASE Tick
  <2>1. ASSUME NEW b \in Actors PROVE Fits(b, jobs[b])'
    <3>1. jobs[b] \in Jobs /\ jobs'[b] = [jobs[b] EXCEPT !.left = jobs'[b].left]
      BY <1>0, <1>3, <2>1, TickedJob, JobFacts
    <3>2. \A l : LET k == [jobs[b] EXCEPT !.left = l]
                 IN  /\ k.stage = jobs[b].stage /\ k.ver = jobs[b].ver /\ k.op = jobs[b].op
                     /\ k.pages = jobs[b].pages /\ k.todo = jobs[b].todo
                     /\ k.deletes = jobs[b].deletes /\ k.touched = jobs[b].touched
      BY <3>1 DEF Jobs
    <3>3. /\ jobs'[b].stage = jobs[b].stage /\ jobs'[b].ver = jobs[b].ver /\ jobs'[b].op = jobs[b].op
          /\ jobs'[b].pages = jobs[b].pages /\ jobs'[b].todo = jobs[b].todo
          /\ jobs'[b].deletes = jobs[b].deletes /\ jobs'[b].touched = jobs[b].touched
      BY <3>1, <3>2
    <3> PICK k : k = jobs'[b]
      OBVIOUS
    <3>4. Fits(b, jobs[b])
      BY <1>0
    <3>5. Fits(b, k)'
      BY <1>0, <3>3, <3>4, StillFits
    <3> QED
      BY <3>3, <3>5 DEF Fits, Pushing, Pulling, Undoing, Below
  <2> QED
    BY <1>1, <2>1
<1>4. ASSUME NEW a \in Actors, jobs[a].stage # "idle", Does(a, Idle)
      PROVE  \A b \in Actors : Fits(b, jobs[b])'
  <2>1. Fits(a, Idle)' /\ jobs[a] # Idle
    BY <1>4, RestFits, IdleIsAJob
  <2> QED
    BY <1>0, <1>4, <2>1, OneMoves, IdleIsAJob
<1>5. ASSUME NEW d \in Devices, AcquireRead(d) PROVE \A b \in Actors : Fits(b, jobs[b])'
  <2>1. MayStart(d) /\ d \in Actors
        /\ Does(d, [Idle EXCEPT !.stage = "acquire", !.op = active_lease_for, !.left = Ttl])
    BY <1>0, <1>5 DEF AcquireRead
  <2>2. PICK new \in Jobs : Does(d, new) /\ new.stage = "acquire" /\ new.touched = <<>>
    <3> DEFINE n == active_lease_for
               k == [Idle EXCEPT !.stage = "acquire", !.op = n, !.left = Ttl]
    <3>1. n \in 0..(MaxOps + MaxLeases) /\ Ttl \in 0..Ttl
      BY ActiveLeaseIsActive, SmartWikiAssumption DEF Active
    <3>2. Does(d, k)
      BY <2>1
    <3> HIDE DEF n
    <3>3. k \in Jobs /\ k.stage = "acquire" /\ k.touched = <<>>
      BY <3>1, IdleIsAJob DEF Jobs, Stages
    <3> HIDE DEF k
    <3> QED
      BY <3>2, <3>3
  <2>3. Fits(d, new)'
    BY <2>2, RestFits
  <2> QED
    BY <1>0, <2>1, <2>2, <2>3, OneMoves
<1>6. ASSUME NEW d \in Devices, AcquireWrite(d) PROVE \A b \in Actors : Fits(b, jobs[b])'
  <2>1. d \in Actors /\ jobs[d].stage # "idle" /\ Does(d, Idle)
    BY <1>0, <1>6 DEF AcquireWrite
  <2> QED
    BY <1>4, <2>1
<1>7. CASE Crash
  <2>1. ASSUME NEW b \in Actors PROVE Fits(b, jobs[b])'
    <3>1. jobs'[b].stage = "idle" /\ jobs'[b].touched = <<>>
      BY <1>7, IdleIsAJob DEF Crash
    <3> QED
      BY <3>1, NoPreImage DEF Fits, Pushing, Pulling, Undoing, Below
  <2> QED
    BY <1>1, <2>1
<1>8. ASSUME NEW a \in Actors, Fails(a) PROVE \A b \in Actors : Fits(b, jobs[b])'
  <2>1. jobs[a].stage # "idle" /\ Does(a, Idle)
    BY <1>8 DEF Fails
  <2> QED
    BY <1>4, <2>1
<1>9. (\E d \in Devices : release(d)) \/ expire_stale => UNCHANGED jobs
  BY DEF release, expire_stale
<1> QED
  BY <1>1, <1>2, <1>3, <1>5, <1>6, <1>7, <1>8, <1>9 DEF Lease

LEMMA LogInit == Init => LogInv
<1> SUFFICES ASSUME Init PROVE LogInv
  OBVIOUS
<1>1. TypeInv /\ Alone
  BY TypeInit DEF Init, Alone
<1>2. /\ log = <<>> /\ DOMAIN log = {} /\ Writes = {} /\ minted = 0 /\ disk = [p \in Pages |-> 0]
      /\ Len(log) = 0
  BY DEF Init, Writes
<1>3. \A p : LastWrite(p) = {}
  BY <1>2 DEF LastWrite
<1>4. LogOK
  <2>1. Rows /\ Seen /\ LogBelow(minted + 1)
    BY <1>2, <1>3 DEF Rows, Seen, LogBelow
  <2>2. Below(disk, minted + 1)
    BY <1>2 DEF Below
  <2>3. \A d \in Devices : head[d] <= Len(log)
    BY <1>2 DEF Init
  <2> QED
    BY <1>2, <2>1, <2>2, <2>3 DEF LogOK
<1>5. ASSUME NEW a \in Actors PROVE Fits(a, jobs[a])
  <2>1. jobs[a].stage = "idle" /\ jobs[a].touched = <<>>
    BY IdleIsAJob DEF Init
  <2> QED
    BY <2>1, NoPreImage DEF Fits, Pushing, Pulling, Undoing, Below
<1> QED
  BY <1>1, <1>4, <1>5 DEF LogInv

LEMMA LogStep == ~Overlap => (LogInv /\ [Next]_vars => LogInv')
<1> SUFFICES ASSUME ~Overlap, LogInv, [Next]_vars PROVE LogInv'
  OBVIOUS
<1>1. TypeInv' /\ Alone'
  BY TypeStep, AloneStep DEF LogInv
<1>2. LogOK' /\ \A b \in Actors : Fits(b, jobs[b])'
  <2>1. CASE UNCHANGED vars
    <3>1. UNCHANGED <<meta, disk, log, jobs, head, seen, minted>>
      BY <2>1 DEF vars
    <3>2. LogOK'
      BY <3>1, LogRests DEF LogInv
    <3>3. ASSUME NEW b \in Actors PROVE Fits(b, jobs[b])'
      <4>1. PICK k : k = jobs[b] /\ k = jobs'[b]
        BY <3>1
      <4>2. Fits(b, k)'
        BY <3>1, <4>1, StillFits DEF LogInv
      <4> QED
        BY <4>1, <4>2 DEF Fits, Pushing, Pulling, Undoing, Below
    <3> QED
      BY <3>2, <3>3
  <2>2. CASE Next
    BY <2>2, PushesFit, PushesKeepTheLog, PullsKeepTheLog, UndoKeepsTheLog, OthersKeepTheLog DEF Next
  <2> QED
    BY <2>1, <2>2
<1> QED
  BY <1>1, <1>2 DEF LogInv

\* When one operation runs at a time, a device that always sends back the head
\* it last received overwrites or deletes no acknowledged body it has not seen,
\* whatever the other devices, undos, failures and crashes did in between:
\* expected_op_log_head is enough, although a push that failed half way leaves
\* pages behind that no row of the log speaks of.
THEOREM CarefulPushesOverwriteOnlySeen ==
    ASSUME ~Overlap
    PROVE  Spec => NoUnseenOverwrite
<1>1. LogInv /\ [Next]_vars =>
        [\A d \in Careful, p \in Pages :
           (jobs[d].mode = "upsert" /\ Puts(d) /\ disk'[p] # disk[p])
               => SameBody(disk[p], seen[d][p]) \/ ~Acknowledged(p)]_vars
  <2> SUFFICES ASSUME LogInv, NEW d \in Careful, NEW p \in Pages, Puts(d), Acknowledged(p)
               PROVE  SameBody(disk[p], seen[d][p])
    OBVIOUS
  <2>1. d \in Devices /\ d \in Actors
    BY ActorsAre, SmartWikiAssumption
  <2>2. jobs[d].stage = "write"
    BY DEF Puts, PushWrite, PushDelete
  <2>3. \A n \in Writes : n <= head[d]
    BY <2>1, <2>2 DEF LogInv, Fits, Pushing
  <2>4. PICK n \in LastWrite(p) : log[n].after[p] = disk[p]
    BY DEF Acknowledged
  <2>5. n <= head[d]
    BY <2>3, <2>4 DEF LastWrite
  <2> QED
    BY <2>4, <2>5 DEF LogInv, LogOK, Seen
<1>2. LogInv /\ [Next]_vars => LogInv'
  BY LogStep
<1> QED
  BY <1>1, <1>2, LogInit, PTL DEF Spec, NoUnseenOverwrite

\* When one operation runs at a time, every page an undo writes was last written
\* by the very push it takes back: what was logged since, or before, is not
\* overwritten (the strict conflict policy of op_revert).
THEOREM UndoIsNarrow ==
    ASSUME ~Overlap
    PROVE  Spec => UndoTakesBackOnlyItsOwn
<1>1. LogInv /\ [Next]_vars =>
        [\A p \in Pages :
           (RestorePage(p) /\ disk'[p] # disk[p])
               => ~Acknowledged(p) \/ LastWrite(p) = {jobs[Operator].op}]_vars
  BY UndoIsOfTheLast
<1>2. LogInv /\ [Next]_vars => LogInv'
  BY LogStep
<1> QED
  BY <1>1, <1>2, LogInit, PTL DEF Spec, UndoTakesBackOnlyItsOwn

=============================================================================
