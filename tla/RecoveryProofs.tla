-------------------------- MODULE RecoveryProofs --------------------------
(***************************************************************************)
(* For any retention and any number of versions, snapshots, requests and    *)
(* crashes: the database and the readable files a recovery cleared away are *)
(* kept, a boot reports what it did, and the last good automatic snapshot   *)
(* outlives every prune.                                                    *)
(***************************************************************************)
EXTENDS Recovery, FiniteSetTheorems, TLAPS

---------------------------------------------------------------------------
(* The inductive invariant.                                                *)

\* The safety snapshot this boot is writing, once it has begun one.
Current == <<"safety", count.safety>>

\* A snapshot is begun under a name nothing was ever written to.
Numbering ==
    /\ \A n \in 1 .. MaxAuto : n > count.auto => snaps[<<"auto", n>>].db = Absent
    /\ \A n \in 1 .. MaxRequests : n > count.safety => snaps[<<"safety", n>>].db = Absent
    /\ job # Nobody => count.auto >= 1 /\ job = <<"auto", count.auto>>

\* A prune follows a snapshot that completed, which is then the newest.
Reported ==
    /\ lastGood.at # Nobody => /\ is_snapshot_dir(lastGood.at) /\ lastGood.at[1] = "auto"
                              /\ snaps[lastGood.at] = lastGood.copy
    /\ ran = "ok" => lastGood.at = Nobody \/ lastGood.at = <<"auto", count.auto>>
    /\ job # Nobody => lastGood.at # job

\* The safety snapshot of this boot holds what the boot found.
Held == /\ count.safety >= 1
        /\ snaps[Current] = [db |-> found[1], tree |-> found[2]]

\* What the boot has and has not touched at each stage.
Progress ==
    /\ stage \in {"check", "safety", "safety_tree", "tables"} => workdir = found
    /\ stage \in {"check", "safety", "safety_tree"} => req \in Requests
    /\ stage \in {"clear", "copy"} => req \in Snapshots
    /\ stage \in {"tables", "files", "scaffold"} => req = Reset
    /\ stage \in {"files", "scaffold"} => db = Cleared
    /\ stage = "safety_tree" => db # Absent /\ count.safety >= 1 /\ snaps[Current].db = db
    /\ stage \in {"clear", "copy"} => rest \ {"stray"} = found[3] \ {"stray"}
    /\ stage = "copy" => "stray" \notin rest
    /\ stage = "scaffold" => rest = {}
    /\ stage \in {"clear", "copy", "tables", "files", "scaffold"} => found[1] = Absent \/ Held

\* Kept where its report says, which is not the snapshot being written.
Safe(d) == /\ d.at \in Snapshots /\ d.at[1] = "safety"
           /\ snaps[d.at] = d.copy /\ d.copy.db # Absent
           /\ stage = "safety_tree" => d.at # Current

DisplacedAreSafe == \A d \in displaced : Safe(d)

IInv == TypeOK /\ Numbering /\ Reported /\ Progress /\ DisplacedAreSafe /\ OutcomeTellsTheTruth

---------------------------------------------------------------------------
(* Helpers.                                                                *)

Counts == [version : Versions, auto : 0 .. MaxAuto, safety : 0 .. MaxRequests,
           request : 0 .. MaxRequests, crash : 0 .. MaxCrashes]

LEMMA Bounds ==
    /\ MaxVersion \in Nat /\ MaxAuto \in Nat /\ MaxRequests \in Nat /\ MaxCrashes \in Nat
    /\ Keep \in Nat /\ Keep >= 1
  BY RecoveryAssumption

LEMMA Bumps ==
    ASSUME count \in Counts
    PROVE  /\ count.version < MaxVersion => Bump("version") \in Counts
           /\ count.auto < MaxAuto => Bump("auto") \in Counts
           /\ count.safety < MaxRequests => Bump("safety") \in Counts
           /\ count.request < MaxRequests => Bump("request") \in Counts
           /\ count.crash < MaxCrashes => Bump("crash") \in Counts
           /\ Bump("version").version = count.version + 1
           /\ Bump("auto").auto = count.auto + 1 /\ Bump("safety").safety = count.safety + 1
           /\ \A c \in {"version", "safety", "request", "crash"} : Bump(c).auto = count.auto
           /\ \A c \in {"version", "auto", "request", "crash"} : Bump(c).safety = count.safety
<1> USE Bounds DEF Counts, Versions
<1>1. /\ Bump("version") = [count EXCEPT !.version = count.version + 1]
      /\ Bump("auto") = [count EXCEPT !.auto = count.auto + 1]
      /\ Bump("safety") = [count EXCEPT !.safety = count.safety + 1]
      /\ Bump("request") = [count EXCEPT !.request = count.request + 1]
      /\ Bump("crash") = [count EXCEPT !.crash = count.crash + 1]
  BY DEF Bump
<1> QED
  BY <1>1

\* The names of snapshots.
LEMMA Names ==
    /\ \A n \in 1 .. MaxAuto : <<"auto", n>> \in Snapshots
    /\ \A n \in 1 .. MaxRequests : <<"safety", n>> \in Snapshots
    /\ \A s \in Snapshots : /\ s[1] \in {"auto", "safety"} /\ s[2] \in Nat /\ s = <<s[1], s[2]>>
                            /\ s[1] = "auto" => s[2] \in 1 .. MaxAuto
                            /\ s[1] = "safety" => s[2] \in 1 .. MaxRequests
  BY Bounds DEF Snapshots

\* What the writers of snapshots do to them.
LEMMA Writers ==
    ASSUME TypeOK, NEW s \in Snapshots
    PROVE  /\ vacuum_into(s) => /\ snaps' \in [Snapshots -> Copies]
                                /\ snaps'[s].db = db
                                /\ \A t \in Snapshots \ {s} : snaps'[t] = snaps[t]
           /\ copy_tree(s) => /\ snaps' \in [Snapshots -> Copies]
                              /\ snaps'[s].db = snaps[s].db
                              /\ snaps[s].db # Absent => snaps'[s] = [db |-> snaps[s].db, tree |-> tree]
                              /\ \A t \in Snapshots \ {s} : snaps'[t] = snaps[t]
           /\ discard_partial(s) => /\ snaps' \in [Snapshots -> Copies]
                                    /\ snaps'[s].db = Absent
                                    /\ \A t \in Snapshots \ {s} : snaps'[t] = snaps[t]
<1>1. snaps \in [Snapshots -> Copies] /\ db \in Dbs /\ tree \in Trees
  BY DEF TypeOK
<1>2. Torn \in Trees /\ Absent \in Dbs
  BY DEF Dbs, Trees
<1>3. [db |-> db, tree |-> Torn] \in Copies /\ NoSnapshot \in Copies
  BY <1>1, <1>2 DEF NoSnapshot, Copies
<1>4. vacuum_into(s) => /\ snaps' \in [Snapshots -> Copies]
                        /\ snaps'[s].db = db
                        /\ \A t \in Snapshots \ {s} : snaps'[t] = snaps[t]
  BY <1>1, <1>3 DEF vacuum_into
<1>5. discard_partial(s) => /\ snaps' \in [Snapshots -> Copies]
                            /\ snaps'[s].db = Absent
                            /\ \A t \in Snapshots \ {s} : snaps'[t] = snaps[t]
  BY <1>1, <1>3 DEF discard_partial, NoSnapshot
<1>6. ASSUME copy_tree(s)
      PROVE  /\ snaps' \in [Snapshots -> Copies]
             /\ snaps'[s].db = snaps[s].db
             /\ snaps[s].db # Absent => snaps'[s] = [db |-> snaps[s].db, tree |-> tree]
             /\ \A t \in Snapshots \ {s} : snaps'[t] = snaps[t]
  <2>1. PICK x \in Trees : /\ snaps[s].db # Absent => x = tree
                           /\ snaps' = [snaps EXCEPT ![s] = [snaps[s] EXCEPT !.tree = x]]
    BY <1>1, <1>2, <1>6 DEF copy_tree, is_snapshot_dir
  <2>2. snaps[s] \in [db : Dbs, tree : Trees]
    BY <1>1 DEF Copies
  <2>3. [snaps[s] EXCEPT !.tree = x] = [db |-> snaps[s].db, tree |-> x]
    BY <2>2
  <2>4. [db |-> snaps[s].db, tree |-> x] \in Copies
    BY <2>1, <2>2 DEF Copies
  <2> QED
    BY <1>1, <2>1, <2>3, <2>4
<1> QED
  BY <1>4, <1>5, <1>6

\* Content is safe as long as nothing writes over the safety snapshots.
LEMMA SafeFrame ==
    ASSUME \A s \in Snapshots : s[1] = "safety" => snaps'[s] = snaps[s],
           stage' # "safety_tree", NEW d, Safe(d)
    PROVE  Safe(d)'
  BY DEF Safe

---------------------------------------------------------------------------
(* The serving process.                                                    *)

LEMMA ServingHolds ==
    ASSUME IInv, Work \/ (\E r \in Requests : schedule(r)) \/ cancel_pending
    PROVE  IInv'
<1> USE DEF IInv
<1>0. count \in Counts
  BY DEF TypeOK, Counts
<1>1. /\ UNCHANGED <<snaps, stage, req, outcome, job, ran, found, displaced, lastGood, midApply>>
      /\ stage = "serving"
  BY DEF Work, schedule, cancel_pending, Serving, ghosts
<1>2. count' \in Counts /\ count'.auto = count.auto /\ count'.safety = count.safety
  BY <1>0, Bumps DEF Work, schedule, cancel_pending
<1>3. db' \in Dbs /\ tree' \in Trees /\ rest' \subseteq Uncarried
  <2>1. CASE Work
    <3>1. count'.version \in Versions
      BY <1>2 DEF Counts
    <3>2. rest' \subseteq Uncarried
      BY <2>1 DEF Work, TypeOK
    <3> QED
      BY <2>1, <3>1, <3>2 DEF Work, Dbs, Trees
  <2> QED
    BY <2>1 DEF schedule, cancel_pending, workdir, TypeOK
<1>4. marker' \in Requests \cup {Malformed, Unreadable, NoMarker}
  BY DEF Work, schedule, cancel_pending, TypeOK
<1>5. TypeOK'
  BY <1>1, <1>2, <1>3, <1>4 DEF TypeOK, Counts
<1>6. Numbering' /\ Reported'
  BY <1>1, <1>2 DEF Numbering, Reported, is_snapshot_dir
<1>7. Progress' /\ OutcomeTellsTheTruth'
  BY <1>1 DEF Progress, OutcomeTellsTheTruth
<1>8. DisplacedAreSafe'
  BY <1>1, SafeFrame DEF DisplacedAreSafe
<1> QED
  BY <1>5, <1>6, <1>7, <1>8

\* The scheduler writes under the newest automatic name only.
LEMMA SchedulerHolds ==
    ASSUME IInv, SnapshotBegins \/ SnapshotCompletes \/ SnapshotFails
    PROVE  IInv'
<1> USE DEF IInv
<1>0. count \in Counts /\ snaps \in [Snapshots -> Copies]
  BY DEF TypeOK, Counts
<1>1. /\ UNCHANGED <<db, tree, rest, marker, stage, req, outcome, found, displaced, midApply>>
      /\ stage = "serving"
  BY DEF SnapshotBegins, SnapshotCompletes, SnapshotFails, Serving, ghosts, workdir
<1>2. Progress' /\ OutcomeTellsTheTruth'
  BY <1>1 DEF Progress, OutcomeTellsTheTruth
<1>3. ASSUME NEW n \in 1 .. MaxAuto, \A t \in Snapshots \ {<<"auto", n>>} : snaps'[t] = snaps[t]
      PROVE  DisplacedAreSafe'
  <2>1. \A t \in Snapshots : t[1] = "safety" => snaps'[t] = snaps[t]
    BY <1>3
  <2> QED
    BY <1>1, <2>1, SafeFrame DEF DisplacedAreSafe
<1>4. CASE SnapshotBegins
  <2>1. /\ count.auto < MaxAuto /\ count' = Bump("auto") /\ job' = <<"auto", count'.auto>>
        /\ vacuum_into(job') /\ UNCHANGED <<ran, lastGood>> /\ ran = "nothing"
    BY <1>4 DEF SnapshotBegins, ghosts
  <2>2. count' \in Counts /\ count'.auto = count.auto + 1 /\ count'.safety = count.safety
    BY <1>0, <2>1, Bumps
  <2>3. PICK n \in 1 .. MaxAuto : n = count'.auto
    BY <1>0, <2>1, <2>2, Bounds DEF Counts
  <2>4. job' = <<"auto", n>> /\ job' \in Snapshots
    BY <2>1, <2>3, Names
  <2>5. /\ snaps' \in [Snapshots -> Copies]
        /\ \A t \in Snapshots \ {<<"auto", n>>} : snaps'[t] = snaps[t]
    BY <2>1, <2>4, Writers
  <2>6. TypeOK'
    BY <1>1, <2>1, <2>2, <2>4, <2>5 DEF TypeOK, Counts
  <2>7. lastGood.at # <<"auto", n>>
    <3>1. snaps[<<"auto", n>>].db = Absent
      BY <1>0, <2>2, <2>3 DEF Numbering, Counts
    <3> QED
      BY <2>4, <3>1, RecoveryAssumption DEF Reported, is_snapshot_dir
  <2>8. Reported'
    <3>1. lastGood.at # Nobody => lastGood.at \in Snapshots \ {<<"auto", n>>}
      BY <2>7 DEF TypeOK
    <3> QED
      BY <2>1, <2>4, <2>5, <2>7, <3>1 DEF Reported, is_snapshot_dir
  <2>9. Numbering'
    <3>1. ASSUME NEW m \in 1 .. MaxAuto, m > count'.auto PROVE snaps'[<<"auto", m>>].db = Absent
      <4>1. <<"auto", m>> \in Snapshots \ {<<"auto", n>>} /\ m > count.auto
        BY <1>0, <2>2, <2>3, <3>1, Names DEF Counts
      <4> QED
        BY <2>5, <4>1 DEF Numbering
    <3>2. ASSUME NEW m \in 1 .. MaxRequests, m > count'.safety PROVE snaps'[<<"safety", m>>].db = Absent
      <4>1. <<"safety", m>> \in Snapshots \ {<<"auto", n>>}
        BY Names
      <4> QED
        BY <2>2, <2>5, <3>2, <4>1 DEF Numbering
    <3> QED
      BY <2>1, <2>3, <3>1, <3>2 DEF Numbering
  <2> QED
    BY <1>2, <1>3, <2>5, <2>6, <2>8, <2>9
<1>5. CASE SnapshotCompletes \/ SnapshotFails
  <2>1. job # Nobody /\ job' = Nobody /\ UNCHANGED count
    BY <1>5 DEF SnapshotCompletes, SnapshotFails
  <2>2. PICK n \in 1 .. MaxAuto : n = count.auto
    BY <1>0, <2>1 DEF Numbering, Counts
  <2>3. job = <<"auto", n>> /\ job \in Snapshots
    BY <2>1, <2>2, Names DEF Numbering
  <2>4. /\ snaps' \in [Snapshots -> Copies]
        /\ \A t \in Snapshots \ {<<"auto", n>>} : snaps'[t] = snaps[t]
        /\ snaps'[job].db # snaps[job].db => snaps'[job].db = Absent
    BY <1>0, <1>5, <2>3, Writers DEF SnapshotCompletes, SnapshotFails
  <2>5. ran' \in {"nothing", "ok"} /\ lastGood' \in [at : Snapshots \cup {Nobody}, copy : Copies]
    <3>1. NoBackup \in [at : Snapshots \cup {Nobody}, copy : Copies]
      BY DEF NoBackup, NoSnapshot, Copies, Dbs, Trees
    <3>2. [db |-> snaps[job].db, tree |-> tree] \in Copies
      BY <1>0, <2>3 DEF TypeOK, Copies
    <3> QED
      BY <1>5, <2>3, <3>1, <3>2 DEF SnapshotCompletes, SnapshotFails, ghosts, TypeOK
  <2>6. TypeOK'
    BY <1>1, <2>1, <2>4, <2>5 DEF TypeOK
  <2>7. Numbering'
    <3>1. ASSUME NEW m \in 1 .. MaxAuto, m > count'.auto PROVE snaps'[<<"auto", m>>].db = Absent
      <4>1. <<"auto", m>> \in Snapshots \ {<<"auto", n>>} /\ m > count.auto
        BY <2>1, <2>2, <3>1, Names
      <4> QED
        BY <2>4, <4>1 DEF Numbering
    <3>2. ASSUME NEW m \in 1 .. MaxRequests, m > count'.safety PROVE snaps'[<<"safety", m>>].db = Absent
      <4>1. <<"safety", m>> \in Snapshots \ {<<"auto", n>>}
        BY Names
      <4> QED
        BY <2>1, <2>4, <3>2, <4>1 DEF Numbering
    <3> QED
      BY <2>1, <3>1, <3>2 DEF Numbering
  <2>8. Reported'
    <3>1. CASE SnapshotCompletes
      <4>1. /\ lastGood' = IF is_snapshot_dir(job)
                           THEN [at |-> job, copy |-> [db |-> snaps[job].db, tree |-> tree]] ELSE NoBackup
            /\ is_snapshot_dir(job) => snaps'[job] = [db |-> snaps[job].db, tree |-> tree]
        BY <2>3, <3>1, Writers DEF SnapshotCompletes, is_snapshot_dir
      <4>2. CASE is_snapshot_dir(job)
        <5>1. /\ lastGood'.at = job /\ lastGood'.copy = snaps'[job] /\ snaps'[job].db # Absent
              /\ job[1] = "auto"
          BY <2>3, <4>1, <4>2 DEF is_snapshot_dir
        <5> QED
          BY <2>1, <2>2, <2>3, <5>1 DEF Reported, is_snapshot_dir
      <4>3. CASE ~is_snapshot_dir(job)
        <5>1. lastGood'.at = Nobody
          BY <4>1, <4>3 DEF NoBackup
        <5> QED
          BY <2>1, <5>1 DEF Reported
      <4> QED
        BY <4>2, <4>3
    <3>2. CASE SnapshotFails
      <4>1. UNCHANGED <<lastGood, ran>>
        BY <3>2 DEF SnapshotFails, ghosts
      <4>2. lastGood.at # Nobody => lastGood.at \in Snapshots \ {<<"auto", n>>}
        BY <2>1, <2>3 DEF Reported, TypeOK
      <4> QED
        BY <2>1, <2>4, <4>1, <4>2 DEF Reported, is_snapshot_dir
    <3> QED
      BY <1>5, <3>1, <3>2
  <2> QED
    BY <1>2, <1>3, <2>4, <2>6, <2>7, <2>8
<1> QED
  BY <1>4, <1>5

\* Nothing automatic is newer than the snapshot a prune follows.
LEMMA PruneHolds ==
    ASSUME IInv, Prune
    PROVE  IInv'
<1> USE DEF IInv
<1>0. count \in Counts /\ snaps \in [Snapshots -> Copies]
  BY DEF TypeOK, Counts
<1>1. /\ UNCHANGED <<db, tree, rest, marker, stage, req, outcome, job, count, found, displaced, lastGood, midApply>>
      /\ stage = "serving" /\ ran = "ok" /\ ran' = "nothing"
  BY DEF Prune, Serving, ghosts, workdir
<1>2. \A s \in Snapshots : snaps'[s] = IF s \in Surplus(Keep) THEN NoSnapshot ELSE snaps[s]
  BY DEF Prune, prune_auto_snapshots
<1>3. NoSnapshot \in Copies /\ NoSnapshot.db = Absent
  BY DEF NoSnapshot, Copies, Dbs, Trees
<1>4. snaps' \in [Snapshots -> Copies]
  BY <1>0, <1>3 DEF Prune, prune_auto_snapshots
<1>5. \A s \in Snapshots : s[1] = "safety" => snaps'[s] = snaps[s]
  BY <1>2 DEF Surplus
<1>6. lastGood.at # Nobody => lastGood.at \in Snapshots /\ lastGood.at \notin Surplus(Keep)
  <2> SUFFICES ASSUME lastGood.at # Nobody, lastGood.at \in Surplus(Keep) PROVE FALSE
    BY DEF TypeOK
  <2>1. lastGood.at = <<"auto", count.auto>>
    BY <1>1 DEF Reported
  <2>2. \A t \in list_snapshots : t[1] = "auto" => ~(t[2] > count.auto)
    <3> SUFFICES ASSUME NEW t \in Snapshots, is_snapshot_dir(t), t[1] = "auto", t[2] > count.auto PROVE FALSE
      BY DEF list_snapshots
    <3>1. t[2] \in 1 .. MaxAuto /\ t = <<"auto", t[2]>>
      BY Names
    <3> QED
      BY <3>1 DEF Numbering, is_snapshot_dir
  <2>3. {t \in list_snapshots : t[1] = "auto" /\ t[2] > lastGood.at[2]} = {}
    BY <2>1, <2>2
  <2>4. Cardinality({t \in list_snapshots : t[1] = "auto" /\ t[2] > lastGood.at[2]}) = 0
    BY <2>3, FS_EmptySet
  <2> QED
    BY <2>4, Bounds DEF Surplus
<1>7. TypeOK'
  BY <1>1, <1>4 DEF TypeOK
<1>8. Numbering'
  <2>1. \A s \in Snapshots : snaps[s].db = Absent => snaps'[s].db = Absent
    BY <1>2, <1>3
  <2> QED
    BY <1>1, <2>1, Names DEF Numbering
<1>9. Reported'
  BY <1>1, <1>2, <1>6 DEF Reported, is_snapshot_dir
<1>10. Progress' /\ OutcomeTellsTheTruth'
  BY <1>1 DEF Progress, OutcomeTellsTheTruth
<1>11. DisplacedAreSafe'
  BY <1>1, <1>5, SafeFrame DEF DisplacedAreSafe
<1> QED
  BY <1>7, <1>8, <1>9, <1>10, <1>11

LEMMA DeleteHolds ==
    ASSUME IInv, NEW s \in Snapshots, delete_snapshot(s)
    PROVE  IInv'
<1> USE DEF IInv
<1>1. /\ UNCHANGED <<db, tree, rest, marker, stage, req, outcome, job, ran, count, found, midApply>>
      /\ stage = "serving" /\ displaced' = {d \in displaced : d.at # s}
      /\ lastGood' = IF lastGood.at = s THEN NoBackup ELSE lastGood
      /\ discard_partial(s)
  BY DEF delete_snapshot, Serving, workdir
<1>2. /\ snaps' \in [Snapshots -> Copies]
      /\ snaps'[s].db = Absent
      /\ \A t \in Snapshots \ {s} : snaps'[t] = snaps[t]
  BY <1>1, Writers
<1>3. TypeOK'
  <2>1. lastGood' \in [at : Snapshots \cup {Nobody}, copy : Copies]
    BY <1>1 DEF TypeOK, NoBackup, NoSnapshot, Copies, Dbs, Trees
  <2>2. displaced' \subseteq [at : Snapshots, copy : Copies]
    BY <1>1 DEF TypeOK
  <2> QED
    BY <1>1, <1>2, <2>1, <2>2 DEF TypeOK
<1>4. Numbering'
  <2>1. \A t \in Snapshots : snaps[t].db = Absent => snaps'[t].db = Absent
    BY <1>2
  <2> QED
    BY <1>1, <2>1, Names DEF Numbering
<1>5. Reported'
  <2>1. lastGood'.at # Nobody => lastGood' = lastGood /\ lastGood.at \in Snapshots \ {s}
    BY <1>1 DEF TypeOK, NoBackup
  <2>2. job # Nobody => lastGood'.at # job
    BY <1>1 DEF Reported, NoBackup
  <2> QED
    BY <1>1, <1>2, <2>1, <2>2 DEF Reported, is_snapshot_dir
<1>6. Progress' /\ OutcomeTellsTheTruth'
  BY <1>1 DEF Progress, OutcomeTellsTheTruth
<1>7. DisplacedAreSafe'
  BY <1>1, <1>2 DEF DisplacedAreSafe, Safe
<1> QED
  BY <1>3, <1>4, <1>5, <1>6, <1>7

LEMMA StopHolds ==
    ASSUME IInv, restart_now \/ Crash \/ Fatal \/ OpenFails
    PROVE  IInv'
<1> USE DEF IInv
<1>0. count \in Counts
  BY DEF TypeOK, Counts
<1>1. /\ UNCHANGED <<db, tree, rest, marker, snaps, displaced, lastGood>>
      /\ stage' = "down" /\ req' = NoMarker /\ outcome' = "none"
      /\ job' = Nobody /\ ran' = "nothing" /\ found' = <<0, 0, {}>>
  BY DEF restart_now, Crash, Fatal, OpenFails, Stop, ghosts, workdir
<1>2. count' \in Counts /\ count'.auto = count.auto /\ count'.safety = count.safety
  BY <1>0, Bumps DEF restart_now, Crash, Fatal, OpenFails
<1>3. midApply' \in BOOLEAN
  BY DEF restart_now, Crash, Fatal, OpenFails, TypeOK
<1>4. found' \in Dbs \X Trees \X SUBSET Uncarried
  BY <1>1, Bounds DEF Dbs, Trees, Versions
<1>5. TypeOK'
  BY <1>1, <1>2, <1>3, <1>4 DEF TypeOK, Counts, Stages
<1>6. Numbering' /\ Reported'
  BY <1>1, <1>2 DEF Numbering, Reported, is_snapshot_dir
<1>7. Progress' /\ OutcomeTellsTheTruth'
  BY <1>1 DEF Progress, OutcomeTellsTheTruth
<1>8. DisplacedAreSafe'
  BY <1>1, SafeFrame DEF DisplacedAreSafe
<1> QED
  BY <1>5, <1>6, <1>7, <1>8

---------------------------------------------------------------------------
(* The boot.                                                               *)

\* The steps that write no snapshot and count none.
LEMMA BootFrame ==
    ASSUME IInv, UNCHANGED <<snaps, count, job, ran, lastGood>>, stage' # "safety_tree"
    PROVE  /\ Numbering' /\ Reported'
           /\ \A d : Safe(d) => Safe(d)'
           /\ displaced' \subseteq displaced => DisplacedAreSafe'
<1> USE DEF IInv
<1>1. Numbering' /\ Reported'
  BY DEF Numbering, Reported, is_snapshot_dir
<1>2. \A d : Safe(d) => Safe(d)'
  BY SafeFrame
<1> QED
  BY <1>1, <1>2 DEF DisplacedAreSafe

LEMMA EntryHolds ==
    ASSUME IInv, apply_pending \/ MarkerFails \/ CheckTarget
    PROVE  IInv'
<1> USE DEF IInv
<1>0. count \in Counts /\ stage \in {"down", "check"}
  BY DEF TypeOK, Counts, apply_pending, MarkerFails, CheckTarget, Booting
<1>1. CASE apply_pending
  <2>1. /\ UNCHANGED <<db, tree, rest, snaps, count, displaced, midApply, job, ran, lastGood>>
        /\ found' = <<db, tree, rest>> /\ marker' \in {NoMarker, Malformed}
        /\ req' = IF marker \in Requests THEN marker ELSE NoMarker
        /\ outcome' \in {"refused", "none"}
        /\ stage' = IF marker \in Requests THEN "check" ELSE "open"
    BY <1>1 DEF apply_pending, Booting, workdir, consume_marker
  <2>2. TypeOK'
    BY <2>1 DEF TypeOK, Stages
  <2>3. Progress' /\ OutcomeTellsTheTruth'
    BY <2>1 DEF Progress, OutcomeTellsTheTruth, workdir
  <2>4. Numbering' /\ Reported' /\ DisplacedAreSafe'
    BY <2>1, BootFrame
  <2> QED
    BY <2>2, <2>3, <2>4
<1>2. CASE MarkerFails
  <2>1. UNCHANGED <<db, tree, rest, marker, snaps, stage, req, outcome, job, ran, count, found, displaced, lastGood, midApply>>
    BY <1>2 DEF MarkerFails, vars, ghosts
  <2>2. TypeOK' /\ Progress' /\ OutcomeTellsTheTruth'
    BY <2>1 DEF TypeOK, Progress, OutcomeTellsTheTruth, workdir, Held, Current
  <2>3. Numbering' /\ Reported' /\ DisplacedAreSafe'
    BY <1>0, <1>2, <2>1, BootFrame DEF MarkerFails
  <2> QED
    BY <2>2, <2>3
<1>3. CASE CheckTarget
  <2>1. /\ UNCHANGED <<db, tree, rest, marker, snaps, req, count, found, displaced, midApply, job, ran, lastGood>>
        /\ stage = "check"
        /\ \/ stage' = "open" /\ outcome' = "refused"
           \/ stage' = "safety" /\ outcome' = outcome
    BY <1>3 DEF CheckTarget, Booting, workdir, Refuse
  <2>2. TypeOK'
    BY <2>1 DEF TypeOK, Stages
  <2>3. Progress' /\ OutcomeTellsTheTruth'
    BY <2>1 DEF Progress, OutcomeTellsTheTruth, workdir
  <2>4. Numbering' /\ Reported' /\ DisplacedAreSafe'
    BY <2>1, BootFrame
  <2> QED
    BY <2>2, <2>3, <2>4
<1> QED
  BY <1>1, <1>2, <1>3

\* The safety snapshot is begun under a new name, so it replaces nothing.
LEMMA SafetyHolds ==
    ASSUME IInv, TakeSafety
    PROVE  IInv'
<1> USE DEF IInv
<1>0. count \in Counts /\ db \in Dbs
  BY DEF TypeOK, Counts
<1>1. /\ UNCHANGED <<db, tree, rest, marker, req, found, displaced, midApply, job, ran, lastGood>>
      /\ stage = "safety"
  BY DEF TakeSafety, Booting, workdir
<1>a. <<db, tree, rest>> = found /\ req \in Requests
  BY <1>1 DEF Progress, workdir
<1>2. CASE db = Absent
  <2>1. /\ UNCHANGED <<snaps, count>>
        /\ \/ stage' = "open" /\ outcome' = "refused"
           \/ stage' = "clear" /\ outcome' = outcome /\ req # Reset
    BY <1>2 DEF TakeSafety, Refuse, Act
  <2>2. TypeOK'
    BY <1>1, <2>1 DEF TypeOK, Stages
  <2>3. Progress'
    BY <1>1, <1>2, <1>a, <2>1 DEF Progress, Requests
  <2>4. OutcomeTellsTheTruth'
    BY <1>1, <1>a, <2>1 DEF OutcomeTellsTheTruth, workdir
  <2>5. Numbering' /\ Reported' /\ DisplacedAreSafe'
    BY <1>1, <2>1, BootFrame
  <2> QED
    BY <2>2, <2>3, <2>4, <2>5
<1>3. CASE db # Absent
  <2>1. /\ count.safety < MaxRequests /\ count' = Bump("safety") /\ vacuum_into(<<"safety", count'.safety>>)
        /\ stage' = "safety_tree" /\ outcome' = outcome
    BY <1>3 DEF TakeSafety
  <2>2. count' \in Counts /\ count'.safety = count.safety + 1 /\ count'.auto = count.auto
    BY <1>0, <2>1, Bumps
  <2>3. PICK n \in 1 .. MaxRequests : n = count'.safety
    BY <1>0, <2>1, <2>2, Bounds DEF Counts
  <2>4. /\ snaps' \in [Snapshots -> Copies]
        /\ snaps'[<<"safety", n>>].db = db
        /\ \A t \in Snapshots \ {<<"safety", n>>} : snaps'[t] = snaps[t]
    BY <2>1, <2>3, Writers, Names
  <2>5. snaps[<<"safety", n>>].db = Absent /\ <<"safety", n>> \in Snapshots
    BY <1>0, <2>2, <2>3, Names DEF Numbering, Counts
  <2>6. TypeOK'
    BY <1>1, <2>1, <2>2, <2>4 DEF TypeOK, Stages, Counts
  <2>7. Numbering'
    <3>1. ASSUME NEW m \in 1 .. MaxRequests, m > count'.safety PROVE snaps'[<<"safety", m>>].db = Absent
      <4>1. <<"safety", m>> \in Snapshots \ {<<"safety", n>>} /\ m > count.safety
        BY <1>0, <2>2, <2>3, <3>1, Names DEF Counts
      <4> QED
        BY <2>4, <4>1 DEF Numbering
    <3>2. ASSUME NEW m \in 1 .. MaxAuto, m > count'.auto PROVE snaps'[<<"auto", m>>].db = Absent
      <4>1. <<"auto", m>> \in Snapshots \ {<<"safety", n>>}
        BY Names
      <4> QED
        BY <2>2, <2>4, <3>2, <4>1 DEF Numbering
    <3> QED
      BY <1>1, <2>2, <3>1, <3>2 DEF Numbering
  <2>8. Reported'
    <3>1. lastGood.at # Nobody => lastGood.at \in Snapshots \ {<<"safety", n>>}
      BY DEF Reported, TypeOK
    <3> QED
      BY <1>1, <2>2, <2>4, <3>1 DEF Reported, is_snapshot_dir
  <2>9. Progress'
    BY <1>1, <1>3, <1>a, <2>1, <2>3, <2>4 DEF Progress, workdir, Current
  <2>10. DisplacedAreSafe'
    <3> SUFFICES ASSUME NEW d \in displaced PROVE Safe(d)'
      BY <1>1 DEF DisplacedAreSafe
    <3>1. Safe(d)
      BY DEF DisplacedAreSafe
    <3>2. d.at # <<"safety", n>>
      BY <2>5, <3>1 DEF Safe
    <3> QED
      BY <2>3, <2>4, <3>1, <3>2 DEF Safe, Current
  <2> QED
    BY <2>1, <2>6, <2>7, <2>8, <2>9, <2>10 DEF OutcomeTellsTheTruth
<1> QED
  BY <1>2, <1>3

LEMMA SafetyTreeHolds ==
    ASSUME IInv, TakeSafetyTree \/ SafetyFails
    PROVE  IInv'
<1> USE DEF IInv
<1>0. count \in Counts /\ snaps \in [Snapshots -> Copies]
  BY DEF TypeOK, Counts
<1>1. /\ UNCHANGED <<db, tree, rest, marker, req, count, found, displaced, midApply, job, ran, lastGood>>
      /\ stage \in {"safety", "safety_tree"}
  BY DEF TakeSafetyTree, SafetyFails, Booting, workdir
<1>a. <<db, tree, rest>> = found /\ req \in Requests
  BY <1>1 DEF Progress, workdir
<1>2. CASE stage = "safety"
  <2>1. UNCHANGED snaps /\ stage' = "open" /\ outcome' = "refused"
    BY <1>2 DEF TakeSafetyTree, SafetyFails, Booting, Refuse
  <2>2. TypeOK'
    BY <1>1, <2>1 DEF TypeOK, Stages
  <2>3. Progress' /\ OutcomeTellsTheTruth'
    BY <1>1, <1>a, <2>1 DEF Progress, OutcomeTellsTheTruth, workdir
  <2>4. Numbering' /\ Reported' /\ DisplacedAreSafe'
    BY <1>1, <2>1, BootFrame
  <2> QED
    BY <2>2, <2>3, <2>4
<1>3. CASE stage = "safety_tree"
  <2>1. /\ copy_tree(<<"safety", count.safety>>) \/ discard_partial(<<"safety", count.safety>>) \/ UNCHANGED snaps
        /\ \/ stage' = "open" /\ outcome' = "refused"
           \/ /\ stage' = (IF req = Reset THEN "tables" ELSE "clear") /\ outcome' = outcome
              /\ copy_tree(<<"safety", count.safety>>)
    BY <1>3 DEF TakeSafetyTree, SafetyFails, Booting, Refuse, Act
  <2>2. db # Absent /\ count.safety >= 1 /\ snaps[<<"safety", count.safety>>].db = db
    BY <1>3 DEF Progress, Current
  <2>3. PICK n \in 1 .. MaxRequests : n = count.safety
    BY <1>0, <2>2 DEF Counts
  <2>4. <<"safety", n>> \in Snapshots
    BY Names
  <2>5. /\ snaps' \in [Snapshots -> Copies]
        /\ \A t \in Snapshots \ {<<"safety", n>>} : snaps'[t] = snaps[t]
    BY <1>0, <2>1, <2>3, <2>4, Writers
  <2>6. stage' # "open" => snaps'[<<"safety", n>>] = [db |-> db, tree |-> tree]
    BY <2>1, <2>2, <2>3, <2>4, Writers
  <2>7. TypeOK'
    BY <1>1, <2>1, <2>5 DEF TypeOK, Stages
  <2>8. Numbering'
    <3>1. ASSUME NEW m \in 1 .. MaxRequests, m > count'.safety PROVE snaps'[<<"safety", m>>].db = Absent
      <4>1. <<"safety", m>> \in Snapshots \ {<<"safety", n>>} /\ m > count.safety
        BY <1>1, <2>3, <3>1, Names
      <4> QED
        BY <2>5, <4>1 DEF Numbering
    <3>2. ASSUME NEW m \in 1 .. MaxAuto, m > count'.auto PROVE snaps'[<<"auto", m>>].db = Absent
      <4>1. <<"auto", m>> \in Snapshots \ {<<"safety", n>>}
        BY Names
      <4> QED
        BY <1>1, <2>5, <3>2, <4>1 DEF Numbering
    <3> QED
      BY <1>1, <3>1, <3>2 DEF Numbering
  <2>9. Reported'
    <3>1. lastGood.at # Nobody => lastGood.at \in Snapshots \ {<<"safety", n>>}
      BY DEF Reported, TypeOK
    <3> QED
      BY <1>1, <2>5, <3>1 DEF Reported, is_snapshot_dir
  <2>10. Progress'
    <3>1. stage' # "open" => Held'
      BY <1>1, <1>a, <2>2, <2>3, <2>6 DEF Held, Current
    <3> QED
      BY <1>1, <1>a, <2>1, <3>1 DEF Progress, workdir, Requests
  <2>11. OutcomeTellsTheTruth'
    BY <1>1, <1>a, <2>1 DEF OutcomeTellsTheTruth, workdir
  <2>12. DisplacedAreSafe'
    <3> SUFFICES ASSUME NEW d \in displaced PROVE Safe(d)'
      BY <1>1 DEF DisplacedAreSafe
    <3>1. Safe(d) /\ d.at # <<"safety", n>>
      BY <1>3, <2>3 DEF DisplacedAreSafe, Safe, Current
    <3> QED
      BY <2>1, <2>5, <3>1 DEF Safe
  <2> QED
    BY <2>7, <2>8, <2>9, <2>10, <2>11, <2>12
<1> QED
  BY <1>1, <1>2, <1>3

\* Past the point of no return only the working directory moves, and what it
\* held is in a safety snapshot or was nothing.
LEMMA ActHolds ==
    ASSUME IInv,
           \/ clear_workdir \/ copy_recursive \/ RestoreDone \/ ClearTables
           \/ ClearTablesFails \/ RemoveFiles \/ rescaffold_identity_wikis
    PROVE  IInv'
<1> USE DEF IInv
<1> DEFINE Late == {"clear", "copy", "tables", "files", "scaffold"}
<1>1. UNCHANGED <<marker, snaps, req, count, found, job, ran, lastGood>> /\ stage \in Late
  BY DEF clear_workdir, copy_recursive, RestoreDone, ClearTables, ClearTablesFails, RemoveFiles,
     rescaffold_identity_wikis, Booting
<1>2. found[1] = Absent \/ Held
  BY <1>1 DEF Progress
<1>3. stage' \in {"clear", "copy", "files", "scaffold", "open"} /\ outcome' \in {"none", "ok", "refused"}
  BY DEF clear_workdir, copy_recursive, RestoreDone, ClearTables, ClearTablesFails, RemoveFiles,
     rescaffold_identity_wikis, Booting, Applied, Refuse, TypeOK
<1>4. db' \in Dbs /\ tree' \in Trees /\ rest' \subseteq Uncarried
  <2>1. stage = "copy" => snaps[req] \in [db : Dbs, tree : Trees]
    BY DEF Progress, TypeOK, Copies
  <2>2. db \in Dbs /\ tree \in Trees /\ rest \subseteq Uncarried
    BY DEF TypeOK
  <2> QED
    BY <2>1, <2>2 DEF clear_workdir, copy_recursive, RestoreDone, ClearTables, ClearTablesFails, RemoveFiles,
     rescaffold_identity_wikis, Booting, workdir, Dbs, Trees
<1>5. displaced' = displaced \/ displaced' = Displaced
  BY DEF clear_workdir, copy_recursive, RestoreDone, ClearTables, ClearTablesFails, RemoveFiles,
     rescaffold_identity_wikis
<1>6. midApply' \in BOOLEAN
  BY DEF clear_workdir, copy_recursive, RestoreDone, ClearTables, ClearTablesFails, RemoveFiles,
     rescaffold_identity_wikis, Applied, TypeOK
<1>a. PICK d : /\ d = [at |-> <<"safety", count.safety>>, copy |-> [db |-> found[1], tree |-> found[2]]]
               /\ displaced' = displaced \/ (found[1] # Absent /\ displaced' = displaced \cup {d})
  BY <1>5 DEF Displaced
<1>b. found[1] # Absent => Safe(d)' /\ d \in [at : Snapshots, copy : Copies]
  <2> SUFFICES ASSUME found[1] # Absent PROVE Safe(d)' /\ d \in [at : Snapshots, copy : Copies]
    OBVIOUS
  <2>1. Held
    BY <1>2
  <2>2. Current \in Snapshots
    BY <2>1, Names DEF Held, Current, TypeOK
  <2>3. snaps[Current] \in Copies
    BY <2>2 DEF TypeOK
  <2>4. d = [at |-> Current, copy |-> snaps[Current]] /\ snaps[Current].db # Absent
    BY <1>a, <2>1 DEF Held, Current
  <2> QED
    BY <1>1, <1>3, <2>2, <2>3, <2>4 DEF Safe, Current
<1>7. TypeOK'
  <2>1. displaced' \subseteq [at : Snapshots, copy : Copies]
    BY <1>a, <1>b DEF TypeOK
  <2> QED
    BY <1>1, <1>3, <1>4, <1>6, <2>1 DEF TypeOK, Stages
<1>8. Numbering' /\ Reported' /\ \A e : Safe(e) => Safe(e)'
  BY <1>1, <1>3, BootFrame
<1>9. DisplacedAreSafe'
  BY <1>a, <1>b, <1>8 DEF DisplacedAreSafe
<1>10. Progress'
  <2>1. found'[1] = Absent \/ Held'
    BY <1>1, <1>2 DEF Held, Current
  <2>4. /\ stage' \in {"clear", "copy"} => rest' \ {"stray"} = found'[3] \ {"stray"}
        /\ stage' = "copy" => "stray" \notin rest'
        /\ stage' = "scaffold" => rest' = {}
    BY <1>1 DEF Progress, clear_workdir, copy_recursive, RestoreDone, ClearTables, ClearTablesFails,
       RemoveFiles, rescaffold_identity_wikis, Booting, Applied, Refuse, workdir
  <2>2. stage' \in {"clear", "copy"} => req' \in Snapshots
    BY <1>1 DEF Progress, clear_workdir, copy_recursive, RestoreDone, ClearTables, ClearTablesFails,
       RemoveFiles, rescaffold_identity_wikis, Booting, Applied, Refuse
  <2>3. stage' \in {"files", "scaffold"} => req' = Reset /\ db' = Cleared
    BY <1>1 DEF Progress, clear_workdir, copy_recursive, RestoreDone, ClearTables, ClearTablesFails,
       RemoveFiles, rescaffold_identity_wikis, Booting, Applied, Refuse
  <2> QED
    BY <1>3, <2>1, <2>2, <2>3, <2>4 DEF Progress
<1>11. OutcomeTellsTheTruth'
  <2>1. CASE RestoreDone
    <3>1. /\ db' = snaps[req].db /\ tree' = snaps[req].tree /\ req \in Snapshots /\ outcome' = "ok"
          /\ rest' = found[3] \ {"stray"}
      BY <2>1 DEF RestoreDone, Booting, Progress, workdir, Applied
    <3>2. req # Reset
      BY <3>1, RecoveryAssumption
    <3> QED
      BY <1>1, <3>1, <3>2 DEF OutcomeTellsTheTruth, workdir
  <2>2. CASE ClearTablesFails
    <3>1. UNCHANGED <<db, tree, rest>> /\ <<db, tree, rest>> = found /\ outcome' = "refused"
      BY <2>2 DEF ClearTablesFails, Booting, Progress, workdir, Refuse
    <3> QED
      BY <1>1, <3>1 DEF OutcomeTellsTheTruth, workdir
  <2>3. CASE rescaffold_identity_wikis
    <3>1. db' = Cleared /\ tree' = Scaffold /\ rest' = {} /\ req = Reset /\ outcome' = "ok"
      BY <2>3 DEF rescaffold_identity_wikis, Booting, Progress, Applied
    <3> QED
      BY <1>1, <3>1 DEF OutcomeTellsTheTruth, workdir
  <2>4. CASE clear_workdir \/ copy_recursive \/ ClearTables \/ RemoveFiles
    <3>1. stage' # "open"
      BY <2>4 DEF clear_workdir, copy_recursive, ClearTables, RemoveFiles, Booting
    <3> QED
      BY <3>1 DEF OutcomeTellsTheTruth
  <2> QED
    BY <2>1, <2>2, <2>3, <2>4
<1> QED
  BY <1>7, <1>8, <1>9, <1>10, <1>11

LEMMA OpenHolds ==
    ASSUME IInv, open_or_init
    PROVE  IInv'
<1> USE DEF IInv
<1>1. /\ UNCHANGED <<tree, rest, marker, snaps, count, displaced, midApply, job, ran, lastGood>>
      /\ db' = IF db = Absent THEN Blank ELSE db
      /\ stage' = "serving" /\ req' = NoMarker /\ outcome' = "none" /\ found' = <<0, 0, {}>>
  BY DEF open_or_init, Booting
<1>2. db' \in Dbs /\ found' \in Dbs \X Trees \X SUBSET Uncarried
  BY <1>1, Bounds DEF TypeOK, Dbs, Trees, Versions
<1>3. TypeOK'
  BY <1>1, <1>2 DEF TypeOK, Stages
<1>4. Progress' /\ OutcomeTellsTheTruth'
  BY <1>1 DEF Progress, OutcomeTellsTheTruth
<1> QED
  BY <1>1, <1>3, <1>4, BootFrame

LEMMA InvStart == Init => IInv
<1> SUFFICES ASSUME Init PROVE IInv
  OBVIOUS
<1>1. NoSnapshot \in Copies /\ NoSnapshot.db = Absent /\ 0 \in Versions
  BY Bounds DEF NoSnapshot, Copies, Dbs, Trees, Versions
<1>2. snaps \in [Snapshots -> Copies] /\ \A s \in Snapshots : snaps[s].db = Absent
  BY <1>1 DEF Init
<1>3. count \in Counts
  BY <1>1, Bounds DEF Init, Counts
<1>4. /\ db \in Dbs /\ tree \in Trees /\ rest \subseteq Uncarried
      /\ found \in Dbs \X Trees \X SUBSET Uncarried /\ midApply \in BOOLEAN
      /\ lastGood \in [at : Snapshots \cup {Nobody}, copy : Copies] /\ lastGood.at = Nobody
  BY <1>1 DEF Init, Dbs, Trees, NoBackup
<1>5. TypeOK
  BY <1>2, <1>3, <1>4 DEF Init, TypeOK, Counts, Stages
<1>6. Numbering /\ Reported
  BY <1>2, <1>4, Names DEF Init, Numbering, Reported
<1>7. Progress /\ DisplacedAreSafe /\ OutcomeTellsTheTruth
  BY DEF Init, Progress, DisplacedAreSafe, OutcomeTellsTheTruth
<1> QED
  BY <1>5, <1>6, <1>7 DEF IInv

LEMMA InvStep == IInv /\ [Next]_vars => IInv'
<1> SUFFICES ASSUME IInv, [Next]_vars PROVE IInv'
  OBVIOUS
<1>1. CASE UNCHANGED vars
  <2>1. UNCHANGED <<db, tree, rest, marker, snaps, stage, req, outcome, job, ran, count, found, displaced, lastGood, midApply>>
    BY <1>1 DEF vars, ghosts
  <2>2. TypeOK' /\ Numbering' /\ Reported' /\ OutcomeTellsTheTruth'
    BY <2>1 DEF IInv, TypeOK, Numbering, Reported, OutcomeTellsTheTruth, is_snapshot_dir, workdir
  <2>3. \A d : Safe(d)' <=> Safe(d)
    BY <2>1 DEF Safe, Current
  <2>4. Progress' /\ DisplacedAreSafe'
    BY <2>1, <2>3 DEF IInv, Progress, DisplacedAreSafe, Held, Current, workdir
  <2> QED
    BY <2>2, <2>4 DEF IInv
<1> QED
  BY <1>1, ServingHolds, SchedulerHolds, PruneHolds, DeleteHolds, StopHolds, EntryHolds, SafetyHolds,
     SafetyTreeHolds, ActHolds, OpenHolds DEF Next, BootStep

LEMMA Invariance == Spec => []IInv
<1> QED
  BY InvStart, InvStep, PTL DEF Spec

---------------------------------------------------------------------------

\* Types are preserved by the server, the scheduler, the dashboard and the boot.
THEOREM TypesHold == Spec => []TypeOK
  BY Invariance, PTL DEF IInv

\* The database and the readable files a recovery clears away are whole in the
\* safety snapshot its report names before anything is removed, and stay there
\* through every failure, crash, later recovery and prune, until an admin deletes
\* it: take_safety never writes over an older one.
THEOREM NothingDisplacedIsLost == Spec => []DisplacedIsKept
<1>1. IInv => DisplacedIsKept
  BY DEF IInv, DisplacedAreSafe, Safe, DisplacedIsKept
<1> QED
  BY <1>1, Invariance, PTL

\* What a boot reports of a recovery is what it did to the working directory: a
\* refusal left all of it as found, `ok` put both halves in place and removed
\* what the action removes and no more.
THEOREM OutcomesAreTrue == Spec => []OutcomeTellsTheTruth
<1>1. IInv => OutcomeTellsTheTruth
  BY DEF IInv
<1> QED
  BY <1>1, Invariance, PTL

\* However many snapshots died half-way, and whatever retention is set, no
\* prune takes the last automatic snapshot that completed, or any file of it.
THEOREM LastBackupStays == Spec => []ReportedBackupStays
<1>1. IInv => ReportedBackupStays
  BY DEF IInv, Reported, ReportedBackupStays
<1> QED
  BY <1>1, Invariance, PTL
============================================================================
