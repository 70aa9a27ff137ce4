------------------------------ MODULE SmartWiki ------------------------------
(***************************************************************************)
(* A smart wiki: pages that a user's own devices push and pull             *)
(* (wiki_admin.rs), with an operation log, an undo from the dashboard and   *)
(* an optional lease (wiki_admin_leases.rs).                                *)
(*                                                                          *)
(* Pages are files and the log is a table, written apart: a push checks the *)
(* lease, checks the log head its device last synced to, reads what it is   *)
(* about to overwrite, writes page by page, and then logs.  Nothing locks   *)
(* the wiki in between.  A push that fails half way leaves what it wrote    *)
(* and no row.                                                              *)
(***************************************************************************)
EXTENDS Integers, Sequences, FiniteSets, SequencesExt

CONSTANTS Devices,    \* the smart consumers of one owner
          Careful,    \* those that pull whole and always send the head back
          Operator,   \* whoever clicks Revert on the dashboard
          Pages,
          Requests,   \* what a push may carry
          Reads,      \* the pages a pull may ask for
          Overlap,    \* two operations may be under way at once
          Ttl,        \* what a lease is granted for
          Grace,      \* EXPIRER_CLEANUP_GRACE_SECS
          MaxOps, MaxPushes, MaxLeases, MaxFaults

ASSUME SmartWikiAssumption ==
    /\ IsFiniteSet(Pages) /\ Careful \subseteq Devices /\ Operator \notin Devices
    /\ Requests \subseteq [pages : SUBSET Pages, deletes : SUBSET Pages, describe : BOOLEAN]
    /\ \A r \in Requests : r.pages \cap r.deletes = {}
    /\ Reads \subseteq SUBSET Pages
    /\ Overlap \in BOOLEAN
    /\ Ttl \in Nat \ {0} /\ Grace \in Nat
    /\ MaxOps \in Nat /\ MaxPushes \in Nat /\ MaxLeases \in Nat /\ MaxFaults \in Nat

VARIABLES meta,     \* _meta.md is there: the wiki exists
          scope,    \* whose description stands in _meta.scope
          disk,     \* each page: v, written by push v; -v, deleted by it; 0, never there
          log,      \* wiki_admin_op_log, by op_id
          leases,   \* wiki_admin_leases, by acquired_at
          jobs,     \* the operation each device and the operator have under way
          head,     \* the op_log_head each device last received, 0 for none
          seen,     \* the page bodies each device last received or sent
          told,     \* what is left of the lease each device was granted
          minted,   \* pushes begun
          faults

vars == <<meta, scope, disk, log, leases, jobs, head, seen, told, minted, faults>>
wiki == <<meta, scope, disk, log>>
device == <<head, seen, told>>

Actors == Devices \cup {Operator}
Bodies == -MaxPushes..MaxPushes
Present(x) == x > 0
SameBody(x, y) == x = y \/ (~Present(x) /\ ~Present(y))

\* `touched` is the pages of a row and their bodies before it; `undo` says
\* that pre_image_json still holds them; `after`, the pages the operation was
\* about and the bodies it left, is history.
PreImages == UNION {[S -> Bodies] : S \in SUBSET Pages}
LogRows == [kind : {"push", "pull"}, by : Actors, undo : BOOLEAN,
            touched : PreImages, after : PreImages]

Free == [holder |-> Operator, left |-> 0, released |-> FALSE]
Leases == [holder : Actors, left : -(Grace + 1)..Ttl, released : BOOLEAN]
NoGrant == [id |-> 0, left |-> 0]

Stages == {"idle", "gate", "snapshot", "forge", "write", "head", "record",
           "acquire", "restore", "undo"}

Idle == [stage |-> "idle", mode |-> "none", ver |-> 0, op |-> 0, left |-> 0,
         pages |-> {}, todo |-> {}, deletes |-> {}, touched |-> <<>>]

Jobs == [stage : Stages, mode : {"none", "create", "upsert"}, ver : 0..MaxPushes,
         op : 0..(MaxOps + MaxLeases), left : 0..Ttl, pages : SUBSET Pages,
         todo : SUBSET Pages, deletes : SUBSET Pages, touched : PreImages]

\* Type correctness of the wiki, its log and leases, and what the devices hold.
TypeOK ==
    /\ meta \in BOOLEAN /\ scope \in Actors /\ disk \in [Pages -> Bodies]
    /\ Len(log) <= MaxOps /\ \A n \in DOMAIN log : log[n] \in LogRows
    /\ leases \in [1..MaxLeases -> Leases]
    /\ jobs \in [Actors -> Jobs]
    /\ head \in [Devices -> 0..MaxOps] /\ seen \in [Devices -> [Pages -> Bodies]]
    /\ told \in [Devices -> [id : 0..MaxLeases, left : 0..Ttl]]
    /\ minted \in 0..MaxPushes /\ faults \in 0..MaxFaults

Init ==
    /\ meta = FALSE /\ scope = Operator /\ disk = [p \in Pages |-> 0] /\ log = <<>>
    /\ leases = [n \in 1..MaxLeases |-> Free]
    /\ jobs = [a \in Actors |-> Idle]
    /\ head = [d \in Devices |-> 0] /\ seen = [d \in Devices |-> [p \in Pages |-> 0]]
    /\ told = [d \in Devices |-> NoGrant]
    /\ minted = 0 /\ faults = 0

\* The code has no such guard; a configuration that wants to see operations
\* one after another asks for it with Overlap.
MayStart(a) == jobs[a] = Idle /\ (Overlap \/ jobs = [b \in Actors |-> Idle])

Does(a, j) == jobs' = [jobs EXCEPT ![a] = j]
Writes == {n \in DOMAIN log : log[n].kind = "push"}
Record(kind, by, undo, touched, after) ==
    /\ Len(log) < MaxOps
    /\ log' = Append(log, [kind |-> kind, by |-> by, undo |-> undo,
                           touched |-> touched, after |-> after])

-----------------------------------------------------------------------------
(* Leases.                                                                  *)

Active == {n \in 1..MaxLeases : leases[n].holder # Operator /\ ~leases[n].released
                                 /\ leases[n].left > 0}

\* ORDER BY acquired_at DESC LIMIT 1.
active_lease_for == IF Active = {} THEN 0 ELSE CHOOSE n \in Active : \A m \in Active : m <= n

\* The devices are one user's, so the sender is the same and consumer_id tells
\* them apart.
held_by(n, d) == leases[n].holder = d

LockedOut(d) == active_lease_for # 0 /\ ~held_by(active_lease_for, d)

\* acquire up to its read; the window is counted from here.
AcquireRead(d) ==
    /\ MayStart(d)
    /\ ~LockedOut(d)
    /\ Does(d, [Idle EXCEPT !.stage = "acquire", !.op = active_lease_for, !.left = Ttl])
    /\ UNCHANGED <<wiki, leases, device, minted, faults>>

\* lease_id is never given twice: what a device or a call under way still
\* refers to is not free.
Taken(n) ==
    \/ leases[n] # Free
    \/ \E d \in Devices : told[d].id = n \/ (jobs[d].stage = "acquire" /\ jobs[d].op = n)
NewLease(n) == (\A m \in n..MaxLeases : ~Taken(m)) /\ (n > 1 => Taken(n - 1))

\* The row read is extended by its id, whatever became of it; or a new one is
\* inserted.
AcquireWrite(d) ==
    /\ jobs[d].stage = "acquire"
    /\ IF jobs[d].op # 0
       THEN /\ leases' = IF leases[jobs[d].op] = Free THEN leases
                         ELSE [leases EXCEPT ![jobs[d].op].left = jobs[d].left]
            /\ told' = [told EXCEPT ![d] = [id |-> jobs[d].op, left |-> jobs[d].left]]
       ELSE \E n \in 1..MaxLeases :
                /\ NewLease(n)
                /\ leases' = [leases EXCEPT ![n] = [holder |-> d, left |-> jobs[d].left,
                                                    released |-> FALSE]]
                /\ told' = [told EXCEPT ![d] = [id |-> n, left |-> jobs[d].left]]
    /\ Does(d, Idle)
    /\ UNCHANGED <<wiki, head, seen, minted, faults>>

\* One conditional UPDATE.
release(d) ==
    /\ jobs[d] = Idle
    /\ told[d].id # 0
    /\ LET n == told[d].id
       IN  leases' = IF leases[n].holder = d /\ ~leases[n].released
                     THEN [leases EXCEPT ![n].released = TRUE] ELSE leases
    /\ told' = [told EXCEPT ![d] = NoGrant]
    /\ UNCHANGED <<wiki, jobs, head, seen, minted, faults>>

\* Expired more than the grace ago.
over(left) == left < -Grace

\* The nightly lease_expirer: what is over counts as released, and rows released
\* long enough ago are dropped.
expire_stale ==
    /\ \E old \in SUBSET {n \in 1..MaxLeases : leases[n].released} :
           leases' = [n \in 1..MaxLeases |->
               IF n \in old THEN Free
               ELSE [leases[n] EXCEPT !.released = @ \/ (leases[n] # Free /\ over(leases[n].left))]]
    /\ leases' # leases
    /\ UNCHANGED <<wiki, jobs, device, minted, faults>>

\* The clock; a device lets go of a grant whose time is over.
Tick ==
    /\ \E n \in 1..MaxLeases : leases[n] # Free
    /\ leases' = [n \in 1..MaxLeases |->
           IF leases[n] # Free /\ leases[n].left > -(Grace + 1)
           THEN [leases[n] EXCEPT !.left = @ - 1] ELSE leases[n]]
    /\ told' = [d \in Devices |-> IF told[d].left > 1
                               THEN [told[d] EXCEPT !.left = @ - 1] ELSE NoGrant]
    /\ jobs' = [a \in Actors |-> [jobs[a] EXCEPT !.left = IF @ > 0 THEN @ - 1 ELSE 0]]
    /\ UNCHANGED <<wiki, head, seen, minted, faults>>

-----------------------------------------------------------------------------
(* Push.                                                                    *)

MayPush(d) == MayStart(d) /\ minted < MaxPushes /\ Len(log) < MaxOps

\* No description leaves the one there alone.
Described(d, r) == IF r.describe THEN d ELSE scope

\* push, mode create: the wiki is new and nothing is deleted from it.
CreateStart(d, r) ==
    /\ MayPush(d)
    /\ ~meta
    /\ r.deletes = {}
    /\ Does(d, [Idle EXCEPT !.stage = "forge", !.mode = "create", !.ver = minted + 1,
                            !.pages = r.pages, !.todo = r.pages,
                            !.op = IF r.describe THEN 1 ELSE 0])
    /\ minted' = minted + 1
    /\ UNCHANGED <<wiki, leases, device, faults>>

\* _meta.md is written; the bodies before a create are not kept.
CreateMeta(d) ==
    /\ jobs[d].stage = "forge"
    /\ meta' = TRUE
    /\ scope' = IF jobs[d].op = 1 THEN d ELSE Operator
    /\ Does(d, [jobs[d] EXCEPT !.stage = "write", !.op = 0,
                               !.touched = [p \in jobs[d].todo |-> 0]])
    /\ UNCHANGED <<disk, log, leases, device, minted, faults>>

\* push, mode upsert: no other device's lease stands; stamp_description comes
\* before everything else that may refuse the push.
PushStart(d, r, guarded) ==
    /\ MayPush(d)
    /\ meta
    /\ ~LockedOut(d)
    /\ guarded => head[d] # 0
    /\ d \in Careful => guarded
    /\ scope' = Described(d, r)
    /\ Does(d, [Idle EXCEPT !.stage = "gate", !.mode = "upsert", !.ver = minted + 1,
                            !.op = IF guarded THEN head[d] ELSE 0,
                            !.pages = r.pages, !.deletes = r.deletes,
                            !.todo = r.pages \cup r.deletes])
    /\ minted' = minted + 1
    /\ UNCHANGED <<meta, disk, log, leases, device, faults>>

ConflictingHead_OffByOne(expected) == expected # 0 /\ \E n \in Writes : n > expected + 1

\* A write op newer than the head the caller sent; no head, no check.
ConflictingHead(expected) == expected # 0 /\ \E n \in Writes : n > expected

PushGate(d) ==
    /\ jobs[d].stage = "gate"
    /\ Does(d, IF ConflictingHead(jobs[d].op) THEN Idle ELSE [jobs[d] EXCEPT !.stage = "snapshot"])
    /\ UNCHANGED <<wiki, leases, device, minted, faults>>

snapshot_pre_image_PagesOnly(j) == [p \in j.pages |-> disk[p]]

\* Every page about to be written or deleted, as it is now.
snapshot_pre_image(j) == [p \in j.pages \cup j.deletes |-> disk[p]]

PushSnapshot(d) ==
    /\ jobs[d].stage = "snapshot"
    /\ Does(d, [jobs[d] EXCEPT !.stage = "write", !.op = 0, !.touched = snapshot_pre_image(jobs[d])])
    /\ UNCHANGED <<wiki, leases, device, minted, faults>>

\* write_pages, one page; a create overwrites nothing.
PushWrite(d, p) ==
    /\ jobs[d].stage = "write"
    /\ p \in jobs[d].todo \cap jobs[d].pages
    /\ IF jobs[d].mode = "create" /\ Present(disk[p])
       THEN Does(d, Idle) /\ UNCHANGED disk
       ELSE /\ disk' = [disk EXCEPT ![p] = jobs[d].ver]
            /\ Does(d, [jobs[d] EXCEPT !.todo = @ \ {p}])
    /\ UNCHANGED <<meta, scope, log, leases, device, minted, faults>>

\* The deletes, after the writes; a page that is not there fails the push.
PushDelete(d, p) ==
    /\ jobs[d].stage = "write"
    /\ jobs[d].todo \cap jobs[d].pages = {}
    /\ p \in jobs[d].todo
    /\ IF Present(disk[p])
       THEN /\ disk' = [disk EXCEPT ![p] = -jobs[d].ver]
            /\ Does(d, [jobs[d] EXCEPT !.todo = @ \ {p}])
       ELSE Does(d, Idle) /\ UNCHANGED disk
    /\ UNCHANGED <<meta, scope, log, leases, device, minted, faults>>

\* What a push puts on its pages.
Sent(j) == [p \in j.pages \cup j.deletes |-> IF p \in j.pages THEN j.ver ELSE -j.ver]

\* A device's copies, with those it just received or sent in their place.
Copies(d, new) == [p \in Pages |-> IF p \in DOMAIN new THEN new[p] ELSE seen[d][p]]

\* record_op_log and the commit; the response carries the new op_id.
PushLog(d) ==
    /\ jobs[d].stage = "write"
    /\ jobs[d].todo = {}
    /\ Record("push", d, jobs[d].mode = "upsert", jobs[d].touched, Sent(jobs[d]))
    /\ head' = [head EXCEPT ![d] = Len(log) + 1]
    /\ seen' = [seen EXCEPT ![d] = Copies(d, Sent(jobs[d]))]
    /\ Does(d, Idle)
    /\ UNCHANGED <<meta, scope, disk, leases, told, minted, faults>>

-----------------------------------------------------------------------------
(* Pull: the pages first, the head of the log after them, and a row for the *)
(* read itself.                                                             *)

PullRead(d, S) ==
    /\ MayStart(d)
    /\ meta
    /\ Len(log) < MaxOps
    /\ d \in Careful => S = Pages
    /\ Does(d, [Idle EXCEPT !.stage = "head", !.touched = [p \in S |-> disk[p]]])
    /\ UNCHANGED <<wiki, leases, device, minted, faults>>

PullHead(d) ==
    /\ jobs[d].stage = "head"
    /\ Does(d, [jobs[d] EXCEPT !.stage = "record", !.op = Len(log)])
    /\ UNCHANGED <<wiki, leases, device, minted, faults>>

PullLog(d) ==
    /\ jobs[d].stage = "record"
    /\ Record("pull", d, FALSE, <<>>, <<>>)
    /\ head' = [head EXCEPT ![d] = jobs[d].op]
    /\ seen' = [seen EXCEPT ![d] = Copies(d, jobs[d].touched)]
    /\ Does(d, Idle)
    /\ UNCHANGED <<meta, scope, disk, leases, told, minted, faults>>

-----------------------------------------------------------------------------
(* Undo.                                                                    *)

\* pages_intersect_target: a row without its pre-image may have touched any.
Touches(m, S) == ~log[m].undo \/ DOMAIN log[m].touched \cap S # {}

\* op_revert up to the conflict check: a push of a device, still with its
\* pre-image, and no newer write of any of its pages.
RevertStart(n) ==
    /\ MayStart(Operator)
    /\ n \in Writes
    /\ Len(log) < MaxOps
    /\ log[n].by # Operator
    /\ log[n].undo
    /\ ~\E m \in Writes : m > n /\ Touches(m, DOMAIN log[n].touched)
    /\ Does(Operator, [Idle EXCEPT !.stage = "restore", !.op = n])
    /\ UNCHANGED <<wiki, leases, device, minted, faults>>

\* snapshot_post_state.
RevertSnapshot ==
    /\ jobs[Operator].stage = "restore"
    /\ LET pages == DOMAIN log[jobs[Operator].op].touched
       IN  Does(Operator, [jobs[Operator] EXCEPT !.stage = "undo", !.todo = pages,
                                                 !.touched = [p \in pages |-> disk[p]]])
    /\ UNCHANGED <<wiki, leases, device, minted, faults>>

RestorePage(p) ==
    /\ jobs[Operator].stage = "undo"
    /\ p \in jobs[Operator].todo
    /\ disk' = [disk EXCEPT ![p] = log[jobs[Operator].op].touched[p]]
    /\ Does(Operator, [jobs[Operator] EXCEPT !.todo = @ \ {p}])
    /\ UNCHANGED <<meta, scope, log, leases, device, minted, faults>>

RevertLog ==
    /\ jobs[Operator].stage = "undo"
    /\ jobs[Operator].todo = {}
    /\ Record("push", Operator, TRUE, jobs[Operator].touched, log[jobs[Operator].op].touched)
    /\ Does(Operator, Idle)
    /\ UNCHANGED <<meta, scope, disk, leases, device, minted, faults>>

\* drop_spent_undo_images: the rows up to n are past retention.undo_days.
DropUndo(n) ==
    /\ \E m \in 1..n : log[m].undo
    /\ log' = [m \in DOMAIN log |-> IF m <= n THEN [log[m] EXCEPT !.undo = FALSE] ELSE log[m]]
    /\ UNCHANGED <<meta, scope, disk, leases, jobs, device, minted, faults>>

-----------------------------------------------------------------------------
\* A file cannot be written or the row cannot: the transaction is dropped and
\* what is on disk stays.
Fails(a) ==
    /\ faults < MaxFaults
    /\ jobs[a].stage \in {"write", "undo", "record"}
    /\ Does(a, Idle)
    /\ faults' = faults + 1
    /\ UNCHANGED <<wiki, leases, device, minted>>

\* The server dies; the devices remember what they were told.
Crash ==
    /\ faults < MaxFaults
    /\ jobs # [a \in Actors |-> Idle]
    /\ jobs' = [a \in Actors |-> Idle]
    /\ faults' = faults + 1
    /\ UNCHANGED <<wiki, leases, device, minted>>

Push(d) ==
    \/ \E r \in Requests : CreateStart(d, r) \/ \E g \in BOOLEAN : PushStart(d, r, g)
    \/ CreateMeta(d) \/ PushGate(d) \/ PushSnapshot(d) \/ PushLog(d)
    \/ \E p \in Pages : PushWrite(d, p) \/ PushDelete(d, p)
Pull(d) == (\E S \in Reads : PullRead(d, S)) \/ PullHead(d) \/ PullLog(d)
Lease(d) == AcquireRead(d) \/ AcquireWrite(d) \/ release(d)
Revert ==
    \/ \E n \in DOMAIN log : RevertStart(n) \/ DropUndo(n)
    \/ RevertSnapshot \/ RevertLog \/ \E p \in Pages : RestorePage(p)

Next ==
    \/ \E d \in Devices : Push(d) \/ Pull(d) \/ Lease(d)
    \/ Revert \/ expire_stale \/ Tick \/ Crash
    \/ \E a \in Actors : Fails(a)

Spec == Init /\ [][Next]_vars

-----------------------------------------------------------------------------
\* The page is as the last logged write of it left it, and not as a push or an
\* undo that failed did.
LastWrite(p) == {n \in Writes : /\ p \in DOMAIN log[n].after
                                /\ \A m \in Writes : p \in DOMAIN log[m].after => m <= n}
Acknowledged(p) == \E n \in LastWrite(p) : log[n].after[p] = disk[p]

Puts(d) == \E p \in Pages : PushWrite(d, p) \/ PushDelete(d, p)

\* A device that always sends back the head it last received never overwrites
\* or deletes an acknowledged body it has not seen, whatever the other devices,
\* the undo, failures and crashes did meanwhile (expected_op_log_head).
NoUnseenOverwrite ==
    [][\A d \in Careful, p \in Pages :
           (jobs[d].mode = "upsert" /\ Puts(d) /\ disk'[p] # disk[p])
               => SameBody(disk[p], seen[d][p]) \/ ~Acknowledged(p)]_vars

\* An undo takes back only the push it was asked to: no acknowledged body of a
\* later push, or of an earlier one, is overwritten by it (op_revert's strict
\* conflict policy).
UndoTakesBackOnlyItsOwn ==
    [][\A p \in Pages :
           (RestorePage(p) /\ disk'[p] # disk[p])
               => ~Acknowledged(p) \/ LastWrite(p) = {jobs[Operator].op}]_vars

PushBegins(d) == \E r \in Requests, g \in BOOLEAN : PushStart(d, r, g)

\* A device still has time on the lease it was granted, and another's push is
\* let in.
LetInBeside(d, e) == d # e /\ told[e].left > 0 /\ PushBegins(d)

\* What wiki_admin_leases.rs promises of a lease: any other consumer that
\* attempts a push while it stands gets WikiLockedByLease.  acquire reads the
\* active lease and inserts its own in two statements, so two can be granted.
LeaseLocksOthersOut == [][\A d, e \in Devices : ~LetInBeside(d, e)]_vars

TwoHolders == \E m, n \in Active : leases[m].holder # leases[n].holder

\* Only to another lease does a grant give way: whatever the lapses, late
\* extensions, releases of stale ids and sweeps of the expirer, a push is let in
\* beside a device that still has time only when two devices' leases stand at
\* once (active_lease_for, held_by).
GrantsYieldOnlyToALease ==
    [][\A d, e \in Devices : LetInBeside(d, e) => TwoHolders]_vars
=============================================================================
