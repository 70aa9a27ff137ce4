------------------------------ MODULE Recovery ------------------------------
(***************************************************************************)
(* Snapshots of the working directory and the recovery staged for the next *)
(* boot: crates/mwe-core/src/backup.rs and recovery.rs, the scheduler that *)
(* takes and prunes automatic snapshots, the dashboard actions that stage, *)
(* cancel and delete, and the boot sequence that applies a staged request. *)
(*                                                                         *)
(* The working directory has two halves, engine.db and the files the       *)
(* service may read, and a snapshot holds a copy of each, the database     *)
(* first.  Beside them lies what no snapshot carries: the training spool,  *)
(* and strays the service may not read.  Content is a version number; Torn *)
(* is a half that was being removed or written when the writer stopped.    *)
(* The lock file lets one server in, so the boot and the serving process   *)
(* never overlap; everything else may fail or die between any two steps.   *)
(***************************************************************************)
EXTENDS Naturals, FiniteSets

CONSTANTS
    Keep,         \* backup.retention_auto: automatic snapshots kept by a prune
    MaxVersion,   \* bound: versions of the content the engine writes
    MaxAuto,      \* bound: automatic snapshots ever begun
    MaxRequests,  \* bound: recoveries ever staged
    MaxCrashes,   \* bound: deaths of the process
    Absent,       \* no engine.db
    Blank,        \* the database open_or_init creates over nothing
    Cleared,      \* the memory tables emptied, the roster kept
    Scaffold,     \* one empty wiki per enrolled principal
    Torn,         \* a half that is not whole
    Reset,        \* the request to clear the memory
    Malformed,    \* a marker that is no request
    Unreadable,   \* a marker that is not even text
    NoMarker, Nobody

Versions == 0 .. MaxVersion

Dbs   == Versions \cup {Absent, Blank, Cleared, Torn}
Trees == Versions \cup {Scaffold, Torn}

(* What copy_tree leaves out: the spool by rule (preserved_outside_snapshots), *)
(* a stray, which is a file under wikis/ or media/ the service may not read    *)
(* or a link, because it passes over it and reports success.                   *)
Uncarried == {"spool", "stray"}

(* Directory names carry their kind, and the time they were begun orders   *)
(* the ones of a kind.  A safety snapshot is begun once per request.       *)
Snapshots == ({"auto"} \X (1 .. MaxAuto)) \cup ({"safety"} \X (1 .. MaxRequests))
Copies == [db : Dbs, tree : Trees]
NoSnapshot == [db |-> Absent, tree |-> Torn]

Requests == {Reset} \cup Snapshots     \* a snapshot stands for its restore

ASSUME RecoveryAssumption ==
    /\ Keep \in Nat \ {0}
    /\ {MaxVersion, MaxAuto, MaxRequests, MaxCrashes} \subseteq Nat
    /\ Absent \notin Versions \cup {Blank, Cleared, Torn}
    /\ Reset \notin Snapshots
    /\ {Malformed, Unreadable, NoMarker} \cap Requests = {}
    /\ Unreadable \notin {Malformed, NoMarker}
    /\ Nobody \notin Snapshots

VARIABLES
    db, tree,   \* the two halves of the working directory
    rest,       \* what is in it that no snapshot carries
    marker,     \* the staged recovery, one file in the working directory
    snaps,      \* the snapshots home; one without engine.db is not listed
    stage,      \* where the server process is, "down" when there is none
    req,        \* the request the boot consumed
    outcome,    \* what this boot's recovery reported
    job,        \* the scheduler's snapshot in flight, or Nobody
    ran,        \* what the scheduler's last snapshot reported
    count,      \* bounds: versions, snapshots, requests and crashes so far
    found,      \* history: the working directory as this boot found it, while
                \* it boots
    displaced,  \* history: contents a recovery has cleared away and the safety
                \* snapshot its report names, less those an admin then deleted
    lastGood,   \* history: the last automatic snapshot reported complete and
                \* what it held then, if no admin has deleted it
    midApply    \* history: a recovery stopped past its point of no return
                \* and none has been applied since

workdir == <<db, tree, rest>>
ghosts  == <<displaced, lastGood>>
vars == <<db, tree, rest, marker, snaps, stage, req, outcome, job, ran, count,
          found, ghosts, midApply>>

Stages == {"down", "check", "safety", "safety_tree", "clear", "copy",
           "tables", "files", "scaffold", "open", "serving"}

NoBackup == [at |-> Nobody, copy |-> NoSnapshot]

PastTheReturn == {"clear", "copy", "files", "scaffold"}

(* Type correctness of the state above. *)
TypeOK ==
    /\ db \in Dbs /\ tree \in Trees /\ rest \subseteq Uncarried
    /\ marker \in Requests \cup {Malformed, Unreadable, NoMarker}
    /\ snaps \in [Snapshots -> Copies]
    /\ stage \in Stages
    /\ req \in Requests \cup {NoMarker}
    /\ outcome \in {"none", "ok", "refused"}
    /\ job \in Snapshots \cup {Nobody}
    /\ ran \in {"nothing", "ok"}
    /\ count \in [version : Versions, auto : 0 .. MaxAuto, safety : 0 .. MaxRequests,
                  request : 0 .. MaxRequests, crash : 0 .. MaxCrashes]
    /\ found \in Dbs \X Trees \X SUBSET Uncarried
    /\ displaced \subseteq [at : Snapshots, copy : Copies]
    /\ lastGood \in [at : Snapshots \cup {Nobody}, copy : Copies]
    /\ midApply \in BOOLEAN

(* A server serving version 0, no snapshot yet.  The marker file may hold  *)
(* anything the dashboard did not write (a hand edit, an older build).     *)
Init ==
    /\ db = 0 /\ tree = 0 /\ rest = {}
    /\ marker \in {NoMarker, Malformed, Unreadable}
    /\ snaps = [s \in Snapshots |-> NoSnapshot]
    /\ stage = "serving"
    /\ req = NoMarker /\ outcome = "none"
    /\ job = Nobody /\ ran = "nothing"
    /\ count = [version |-> 0, auto |-> 0, safety |-> 0, request |-> 0, crash |-> 0]
    /\ found = <<0, 0, {}>> /\ displaced = {} /\ lastGood = NoBackup
    /\ midApply = FALSE

Bump(c) == [count EXCEPT ![c] = @ + 1]

------------------------------------------------------------------------------
(* Snapshots *)

(* A directory with an engine.db in it, whatever else it holds. *)
is_snapshot_dir(s) == snaps[s].db # Absent

list_snapshots == {s \in Snapshots : is_snapshot_dir(s)}

Whole(s) == is_snapshot_dir(s) /\ snaps[s].db # Torn /\ snaps[s].tree # Torn

(* Step 1 of write_snapshot: VACUUM INTO, a consistent copy of the database. *)
vacuum_into(s) == snaps' = [snaps EXCEPT ![s] = [db |-> db, tree |-> Torn]]

(* Step 2: the files the service may read, as they are by now.  What it    *)
(* may not read is skipped and the copy succeeds; any other error fails it *)
(* (SnapshotFails, SafetyFails).  A directory deleted under the copy stays *)
(* without an engine.db, or fails the copy.                                *)
copy_tree(s) == snaps' = [snaps EXCEPT ![s].tree = IF is_snapshot_dir(s) THEN tree ELSE Torn]

discard_partial(s) == snaps' = [snaps EXCEPT ![s] = NoSnapshot]

\* Faulty variant: every snapshot is a candidate, the safety ones too.
Surplus_AnyKind(K) ==
    {s \in list_snapshots :
        Cardinality({t \in list_snapshots : t[1] = s[1] /\ t[2] > s[2]}) >= K}

(* The automatic snapshots past the newest Keep.  Safety snapshots are     *)
(* never candidates.                                                       *)
Surplus(K) == {s \in list_snapshots : s[1] = "auto"
                 /\ Cardinality({t \in list_snapshots : t[1] = "auto" /\ t[2] > s[2]}) >= K}

prune_auto_snapshots ==
    snaps' = [s \in Snapshots |-> IF s \in Surplus(Keep) THEN NoSnapshot ELSE snaps[s]]

------------------------------------------------------------------------------
(* The serving process: the engine's own work, the scheduler, the dashboard *)

Serving == stage = "serving"

(* The engine writes: both halves move on, model calls go to the spool.    *)
(* Maintenance by hand leaves strays.  What a dead recovery tore stays     *)
(* torn.                                                                   *)
Work ==
    /\ Serving /\ count.version < MaxVersion
    /\ count' = Bump("version")
    /\ db' = count'.version
    /\ tree' = IF tree = Torn THEN Torn ELSE count'.version
    /\ \E more \in SUBSET Uncarried : rest' = rest \cup more
    /\ UNCHANGED <<marker, snaps, stage, req, outcome, job, ran, found, ghosts, midApply>>

(* check_and_run up to the database copy; one snapshot at a time. *)
SnapshotBegins ==
    /\ Serving /\ job = Nobody /\ ran = "nothing" /\ count.auto < MaxAuto
    /\ count' = Bump("auto")
    /\ job' = <<"auto", count'.auto>>
    /\ vacuum_into(job')
    /\ UNCHANGED <<workdir, marker, stage, req, outcome, ran, found, ghosts, midApply>>

SnapshotCompletes ==
    /\ Serving /\ job # Nobody
    /\ copy_tree(job)
    /\ job' = Nobody /\ ran' = "ok"
    /\ lastGood' = IF is_snapshot_dir(job)
                   THEN [at |-> job, copy |-> [db |-> snaps[job].db, tree |-> tree]] ELSE NoBackup
    /\ UNCHANGED <<workdir, marker, stage, req, outcome, count, found, displaced, midApply>>

\* Faulty variant: a failed attempt prunes as well.
SnapshotFails_Prunes ==
    /\ Serving /\ job # Nobody
    /\ discard_partial(job) \/ UNCHANGED snaps
    /\ job' = Nobody /\ ran' = "ok"
    /\ UNCHANGED <<workdir, marker, stage, req, outcome, count, found, ghosts, midApply>>

(* The copy fails and the partial directory is removed, or cannot be.  The *)
(* attempt is stamped and nothing is pruned.                               *)
SnapshotFails ==
    /\ Serving /\ job # Nobody
    /\ discard_partial(job) \/ UNCHANGED snaps
    /\ job' = Nobody
    /\ UNCHANGED <<workdir, marker, stage, req, outcome, ran, count, found, ghosts, midApply>>

(* The tail of check_and_run, after a snapshot that completed. *)
Prune ==
    /\ Serving /\ ran = "ok"
    /\ prune_auto_snapshots
    /\ ran' = "nothing"
    /\ UNCHANGED <<workdir, marker, stage, req, outcome, job, count, found, ghosts, midApply>>

(* schedule_restore and schedule_reset: refused while one is pending; the  *)
(* snapshot to restore is one of the listed ones.                          *)
schedule(r) ==
    /\ Serving /\ marker = NoMarker /\ count.request < MaxRequests
    /\ r # Reset => is_snapshot_dir(r)
    /\ marker' = r
    /\ count' = Bump("request")
    /\ UNCHANGED <<workdir, snaps, stage, req, outcome, job, ran, found, ghosts, midApply>>

cancel_pending ==
    /\ Serving /\ marker # NoMarker
    /\ marker' = NoMarker
    /\ UNCHANGED <<workdir, snaps, stage, req, outcome, job, ran, count, found, ghosts, midApply>>

delete_snapshot(s) ==
    /\ Serving /\ is_snapshot_dir(s) /\ marker # s
    /\ discard_partial(s)
    /\ lastGood' = IF lastGood.at = s THEN NoBackup ELSE lastGood
    /\ displaced' = {d \in displaced : d.at # s}
    /\ UNCHANGED <<workdir, marker, stage, req, outcome, job, ran, count, found, midApply>>

(* The dashboard's restart button, or a stop of the unit: what the process *)
(* was doing dies with it.                                                 *)
Stop ==
    /\ stage' = "down" /\ req' = NoMarker /\ outcome' = "none"
    /\ job' = Nobody /\ ran' = "nothing" /\ found' = <<0, 0, {}>>

restart_now ==
    /\ Serving /\ Stop
    /\ UNCHANGED <<workdir, marker, snaps, count, ghosts, midApply>>

(* The process dies anywhere: a kill, a power cut, memory exhausted. *)
Crash ==
    /\ stage # "down" /\ count.crash < MaxCrashes
    /\ Stop
    /\ count' = Bump("crash")
    /\ midApply' = (midApply \/ (stage \in PastTheReturn /\ workdir # found))
    /\ UNCHANGED <<workdir, marker, snaps, ghosts>>

------------------------------------------------------------------------------
(* The boot: bootstrap_state, apply_staged_recovery, apply_pending *)

(* At a stage of the boot, with nothing of the serving process changed. *)
Booting(s) ==
    /\ stage = s
    /\ UNCHANGED <<job, ran, lastGood>>

\* Faulty variant: the request stays until it has been acted on.
consume_marker_Late ==
    /\ marker' = IF marker \in Requests THEN marker ELSE NoMarker
    /\ req' = IF marker \in Requests THEN marker ELSE NoMarker
    /\ outcome' = IF marker = Malformed THEN "refused" ELSE "none"
    /\ stage' = IF marker \in Requests THEN "check" ELSE "open"

(* Under the lock file the marker is read and removed before anything is   *)
(* done about it.  A malformed one is reported and dropped, or not: that   *)
(* its removal failed is ignored.                                          *)
consume_marker ==
    /\ marker' \in {NoMarker} \cup ({marker} \cap {Malformed})
    /\ req' = IF marker \in Requests THEN marker ELSE NoMarker
    /\ outcome' = IF marker = Malformed THEN "refused" ELSE "none"
    /\ stage' = IF marker \in Requests THEN "check" ELSE "open"

apply_pending ==
    /\ Booting("down")
    /\ marker # Unreadable
    /\ consume_marker
    /\ found' = workdir
    /\ UNCHANGED <<workdir, snaps, count, displaced, midApply>>

(* The marker cannot be read, or a request cannot be removed: the boot     *)
(* aborts and the next one finds it as it was.                             *)
MarkerFails ==
    /\ stage = "down"
    /\ marker \in Requests \cup {Unreadable}
    /\ UNCHANGED vars

(* The request is given up with the working directory as it was. *)
Refuse == stage' = "open" /\ outcome' = "refused"

(* apply_restore first looks whether the target is still a snapshot. *)
CheckTarget ==
    /\ Booting("check")
    /\ IF req # Reset /\ ~is_snapshot_dir(req)
         THEN Refuse
         ELSE stage' = "safety" /\ UNCHANGED outcome
    /\ UNCHANGED <<workdir, marker, snaps, req, count, found, displaced, midApply>>

Act == stage' = (IF req = Reset THEN "tables" ELSE "clear") /\ UNCHANGED outcome

(* take_safety.  Without an engine.db there is nothing to protect: a       *)
(* restore goes on, a reset is refused.                                    *)
TakeSafety ==
    /\ Booting("safety")
    /\ IF db = Absent
         THEN /\ IF req = Reset THEN Refuse ELSE Act
              /\ UNCHANGED <<snaps, count>>
         ELSE /\ db # Torn /\ count.safety < MaxRequests
              /\ count' = Bump("safety")
              /\ vacuum_into(<<"safety", count'.safety>>)
              /\ stage' = "safety_tree"
              /\ UNCHANGED outcome
    /\ UNCHANGED <<workdir, marker, req, found, displaced, midApply>>

TakeSafetyTree ==
    /\ Booting("safety_tree")
    /\ copy_tree(<<"safety", count.safety>>)
    /\ Act
    /\ UNCHANGED <<workdir, marker, req, count, found, displaced, midApply>>

(* Either copy fails: the request is refused.  The partial directory goes, *)
(* or cannot be removed.                                                   *)
SafetyFails ==
    /\ \/ Booting("safety") /\ db # Absent /\ UNCHANGED snaps
       \/ /\ Booting("safety_tree")
          /\ discard_partial(<<"safety", count.safety>>) \/ UNCHANGED snaps
    /\ Refuse
    /\ UNCHANGED <<workdir, marker, req, count, found, displaced, midApply>>

(* With no database there was nothing to protect. *)
Displaced ==
    IF found[1] = Absent THEN displaced
    ELSE displaced \cup {[at |-> <<"safety", count.safety>>,
                          copy |-> [db |-> found[1], tree |-> found[2]]]}

(* clear_workdir walks the top level in the order the directory lists it   *)
(* and spares the spool; a stray goes with the directory it lies in.       *)
clear_workdir ==
    /\ Booting("clear")
    /\ \/ db # Absent /\ db' = Absent /\ UNCHANGED <<tree, rest>>
       \/ /\ tree # Torn \/ "stray" \in rest
          /\ tree' = Torn /\ rest' = rest \ {"stray"} /\ UNCHANGED db
    /\ stage' = IF db' = Absent /\ tree' = Torn /\ "stray" \notin rest' THEN "copy" ELSE "clear"
    /\ displaced' = Displaced
    /\ UNCHANGED <<marker, snaps, req, outcome, count, found, midApply>>

(* copy_recursive, in the same arbitrary order.  The database file is torn *)
(* while it is being written.                                              *)
copy_recursive ==
    /\ Booting("copy")
    /\ \/ db = Absent /\ db' = Torn /\ UNCHANGED tree
       \/ db = Torn /\ db' = snaps[req].db /\ UNCHANGED tree
       \/ tree # snaps[req].tree /\ tree' = snaps[req].tree /\ UNCHANGED db
    /\ UNCHANGED <<rest, marker, snaps, stage, req, outcome, count, found, displaced, midApply>>

(* Both halves are in place: applied. *)
Applied == stage' = "open" /\ outcome' = "ok" /\ midApply' = FALSE

RestoreDone ==
    /\ Booting("copy")
    /\ db = snaps[req].db /\ tree = snaps[req].tree
    /\ Applied
    /\ UNCHANGED <<workdir, marker, snaps, req, count, found, displaced>>

(* apply_reset: every memory table in one transaction ... *)
ClearTables ==
    /\ Booting("tables")
    /\ db' = Cleared
    /\ stage' = "files"
    /\ displaced' = Displaced
    /\ UNCHANGED <<tree, rest, marker, snaps, req, outcome, count, found, midApply>>

\* Faulty variant: no transaction around the deletes.
ClearTablesFails_NoRollback ==
    /\ Booting("tables")
    /\ db' = Cleared
    /\ Refuse
    /\ UNCHANGED <<tree, rest, marker, snaps, req, count, found, displaced, midApply>>

(* ... which rolls back when it fails, or cannot open the database. *)
ClearTablesFails ==
    /\ Booting("tables")
    /\ Refuse
    /\ UNCHANGED <<workdir, marker, snaps, req, count, found, displaced, midApply>>

(* ... then wikis/ and media/ with the strays in them, then the spool ...  *)
RemoveFiles ==
    /\ Booting("files")
    /\ \/ tree # Torn /\ tree' = Torn /\ rest' = rest \ {"stray"} /\ UNCHANGED stage
       \/ tree = Torn /\ rest' = {} /\ stage' = "scaffold" /\ UNCHANGED tree
    /\ UNCHANGED <<db, marker, snaps, req, outcome, count, found, displaced, midApply>>

(* ... then a scaffold for everyone enrolled.                              *)
rescaffold_identity_wikis ==
    /\ Booting("scaffold")
    /\ tree' = Scaffold
    /\ Applied
    /\ UNCHANGED <<db, rest, marker, snaps, req, count, found, displaced>>

(* Any of these steps fails past the point of no return: RecoveryError::   *)
(* Fatal, the boot aborts.                                                 *)
Fatal ==
    /\ stage \in PastTheReturn
    /\ Stop
    /\ midApply' = (midApply \/ workdir # found)
    /\ UNCHANGED <<workdir, marker, snaps, count, ghosts>>

(* record_outcome and bootstrap_state open the database, creating one      *)
(* where there is none; a torn one does not open.                          *)
open_or_init ==
    /\ Booting("open")
    /\ db # Torn
    /\ db' = IF db = Absent THEN Blank ELSE db
    /\ stage' = "serving" /\ req' = NoMarker /\ outcome' = "none"
    /\ found' = <<0, 0, {}>>
    /\ UNCHANGED <<tree, rest, marker, snaps, count, displaced, midApply>>

OpenFails ==
    /\ stage = "open" /\ db = Torn
    /\ Stop
    /\ UNCHANGED <<workdir, marker, snaps, count, ghosts, midApply>>

BootStep ==
    \/ apply_pending \/ CheckTarget \/ TakeSafety \/ TakeSafetyTree \/ SafetyFails
    \/ clear_workdir \/ copy_recursive \/ RestoreDone
    \/ ClearTables \/ ClearTablesFails \/ RemoveFiles \/ rescaffold_identity_wikis
    \/ Fatal \/ open_or_init \/ OpenFails

Next ==
    \/ Work
    \/ SnapshotBegins \/ SnapshotCompletes \/ SnapshotFails \/ Prune
    \/ \E r \in Requests : schedule(r)
    \/ cancel_pending
    \/ \E s \in Snapshots : delete_snapshot(s)
    \/ restart_now
    \/ Crash \/ MarkerFails
    \/ BootStep

Spec == Init /\ [][Next]_vars

(* The unit relaunches the server whenever it exits with an error, and a   *)
(* boot that is running runs on; a marker that is text can be read and     *)
(* removed in the end.  How each other step ends is not assumed: it may    *)
(* fail every time it is tried.                                            *)
FairSpec == Spec /\ WF_vars(BootStep)

------------------------------------------------------------------------------
(* Properties *)

(* The database and the readable files a recovery cleared away are in the  *)
(* safety snapshot its report names, whatever failed or died after the     *)
(* clearing, whatever later recoveries saved and however often the         *)
(* scheduler pruned since, until an admin deletes it (take_safety).        *)
DisplacedIsKept == \A d \in displaced : snaps[d.at] = d.copy

(* A refused recovery left everything as the boot found it.  An applied    *)
(* restore put both halves of its snapshot in place and spared the spool,  *)
(* an applied reset the empty memory and the scaffolds and nothing else.   *)
(* Nothing in between is ever reported (apply_restore, apply_reset).       *)
OutcomeTellsTheTruth ==
    stage = "open" =>
        /\ outcome = "refused" => workdir = found
        /\ outcome = "ok" =>
              workdir = IF req = Reset THEN <<Cleared, Scaffold, {}>>
                        ELSE <<snaps[req].db, snaps[req].tree, found[3] \ {"stray"}>>

(* The last automatic snapshot the scheduler reported complete is still    *)
(* there with the database and the files it was reported with, unless an   *)
(* admin deleted it: no husk of a snapshot that died half-way crowds it    *)
(* out of the Keep that prune_auto_snapshots spares.                       *)
ReportedBackupStays ==
    lastGood.at # Nobody => is_snapshot_dir(lastGood.at) /\ snaps[lastGood.at] = lastGood.copy

(* The server comes back whatever a recovery does, even one whose every    *)
(* attempt fails, because apply_pending consumes the request before it     *)
(* acts; what keeps it down is a database file torn in the copy, or a      *)
(* marker that is not text.                                                *)
ServesAgain == stage = "down" ~> (stage = "serving" \/ db = Torn \/ marker = Unreadable)

(* What the code says of itself, and the runs named recovery_* refute.     *)

(* apply_pending on a marker that does not parse: "One shot even when      *)
(* malformed: drop it, surface, boot on" (recovery.rs:255).                *)
AnyMarkerIsConsumed == stage = "down" ~> (stage = "serving" \/ db = Torn)

(* clear_workdir: "a name a snapshot leaves behind and this step removes   *)
(* is destroyed with no copy anywhere, so the two must be one rule"        *)
(* (recovery.rs:500).                                                      *)
NothingGoesUncopied == [][stage = "clear" => (rest \subseteq rest')]_vars

(* RecoveryError::Fatal: "The action failed after its point of no return;  *)
(* the workdir must not serve as-is" (recovery.rs:75).                     *)
NeverServesHalfApplied == stage = "serving" => ~midApply

==============================================================================
