# A TLA+ model of mwe-mcp

mwe-mcp is a memory server for a household of people and agents. People say things; a
classifier turns what they say into *claims*; claims wait in a buffer; hourly and nightly
*dream rounds* turn waiting claims into *facts* placed on wiki pages; and every fact carries an
audience that says who may read it. This project models the parts of the server that can lose a
memory, keep one it should not, or show it to the wrong person: the audience rules, the life of a
claim from the moment it is said to the moment it is retired, the two ways a household decides
together (the vote on forgetting and the card question), the pages and their watcher, the smart
wikis devices push to, the erasure of a person, and snapshots and recovery.

Paths below are relative to `src/crates/mwe-core/src/` unless they say otherwise.

## 1. Inventory

| Component | State | Operations | What makes it correct |
|---|---|---|---|
| Audience rules (`acl.rs`) | none | `can_read`, `audience`, `reader_set`, `can_delete`, `sender_may_*` | one answer per reader, whoever asks: row check, SQL filter, electorate |
| Capture and folding (`capture.rs`) | `fact_index` rows, page regions | `wiki_capture`, `wiki_forget`, `wiki_supersede`, the dedup, exclusion and audience rules | a fold keeps subject and author, loses no reader, lifts no exclusion |
| Capture buffer (`capture_buffer.rs`) | `capture_buffer` rows: held, buffered, promoted, skipped_dup | file, mark, close, re-share, inherit, rebuffer, park, release, sweep | a claim is never in neither store; a parked claim does not stay parked |
| Light round (`dream_light.rs`) | a snapshot of the queue, in memory | screen, place, materialise | a retry after any failure neither loses nor doubles |
| Dream cadence (`dream.rs`) | none of its own | `run_light`, `run_closing_pass`, `run_nightly` | the queue drains |
| Scheduler (`mwe-mcp-server/src/rem_scheduler.rs`) | one `tokio::sync::Mutex`, timers | hourly and nightly jobs | one round at a time, none starved |
| Fact index (`fact_index.rs`) | `fact_index` table | insert, supersede, forget, close, re-share, restrict, retarget, move, erase, search | a retired fact stays retired |
| Turn pipeline (`ingest.rs`) | none | classify, then closures, audience changes, supersedes, card questions | a change acknowledged is a change made |
| Page and wiki deletion (`page.rs`, `wiki_delete.rs`) | files, both tables | forget own facts, send the others' back | what was somebody else's survives |
| Vote on forgetting (`votes.rs`, `proposals.rs`) | `structure_proposals`, `structure_proposal_votes` | open, vote, apply, sweep, expire | a majority is respected, a request decided once and in the end |
| Card questions (`proposals.rs`, `ingest.rs`) | proposals, held buffer rows | ask, park, answer, auto-apply, expire, sweep orphans | silence changes nothing; an answer is carried out whole |
| Pages, compiler, reindex, watcher (`compiler.rs`, `reindex.rs`, `watcher.rs`) | markdown files, region offsets | append, cut, build, move, remove, reindex, repair, sweep | the watcher forgets only what a person took off a page |
| Smart wikis and leases (`wiki_admin.rs`, `wiki_admin_leases.rs`) | page files, operation log, leases | push, pull, revert, acquire, release, expire | nothing unseen is overwritten; an undo takes back its own; a lease yields to another lease only |
| Erasure (`gdpr.rs`) | both tables, files, enrollment | `forget_user` | nothing names the person; nobody else loses anything |
| Snapshots and recovery (`backup.rs`, `recovery.rs`) | snapshot directories, one marker file | take, prune, delete, stage, cancel, apply at boot | what was displaced is kept; the report is true; the server comes back |
| Enrollment (`enrollment.rs`, dashboard `routes/users.rs`) | groups, members, spent ids | the dashboard's form (check, then insert), remove | a spent id passes no check |
| Planner, REM judgements, recall, events, budget, clients, server, dashboard, bridges | – | – | judgements of a model, read-only ranking, I/O |

Most components meet in two SQLite tables, `capture_buffer` and `fact_index`. A claim's
`capture_id` becomes its fact's `fact_id`, so the two rows of a claim share an id. Turns, the
dream round, the operator's deletions, the answers to proposals and an erasure all write these
tables from different tokio tasks, and the pages a fact is printed on are written apart from its
row. The dream gate serialises rounds with rounds, and nothing else with anything: each statement
is atomic, most operations are several statements and files.

What is hard: a round reads rows, calls models for minutes, and writes what it read; a verb asks
one table and then the other; an existence check and the write that relies on it are apart; a
crash leaves a claim in both tables and the next round meets its own work; an audience is frozen
on one day's group membership and folded on another's; votes are counted in two statements while
others vote; the watcher takes a missing marker for a wish, and sees it late; pages and operation
log are written apart; an erasure dies half-way and is asked for again; a recovery consumes its
request before it acts. `PROJECT.json` lists these as hazards, each at its line.

## 2. Modules

```
Acl ──┬── Retelling ─────── MCRetelling          PageRegions ── MCPageRegions
      ├── CapturePipeline ─ MCCapturePipeline    SlotConflict ─ MCSlotConflict
      └── ForgetVote ────── MCForgetVote         SmartWiki ──── MCSmartWiki
             └ INSTANCE Ballot                   Erasure ────── MCErasure
                                                 Recovery

Acl + Retelling ── RetellingProofs          SlotConflict ── SlotConflictProofs
CapturePipeline ── CapturePipelineProofs    Erasure ─────── ErasureProofs
ForgetVote ─────── ForgetVoteProofs         Recovery ────── RecoveryProofs
PageRegions ────── PageRegionsProofs        SmartWiki ───── SmartWikiProofs
```

Names of actions are the code's where there is one function per step. A definition whose name
ends in `_` and a word is a faulty variant of the one after it, used by the mutant runs of
`PROJECT.json`. Each module below the pipeline keeps its own, smaller picture of the two tables:
only the columns its actors read or write.

**Acl** – the pure predicates. An audience is a record `subject, allow, sender, excluded`; the
optional sender is a set of at most one principal. The group expansion, the SQL predicate and the
row check are separate definitions, as they are in the code. Also the fold rules of `capture.rs`
(`takes_exclusion`, `same_as_row`, `carries_audience`, `the_audience_once_settled`).

**Retelling** – one claim told again and again to different rooms. Two roads decide what to do
with a telling: a live turn (`Tell`) and the round (`Screen`); both may end in
`fact_index::restrict_to`, which is two steps (`ReadRow`, `WriteRow`) because the code reads the
row, takes the union in Rust and updates in a second statement. `Reshare` is the permissions verb,
`Join` and `Leave` the operator's edits of a group. History variables: `kept` (whom somebody asked
to keep a row from), `told` (whom a processed telling named), `written` (rows whose audience
the subject wrote over since), `raced` (rows another road or the subject wrote between the two
statements of a `restrict_to`) and `crossed` (somebody decided about the claim while a road was
still to write). Nothing keeps the roads apart, in the module as in the code; the last two say in
which behaviours they happened to stay apart. `Movers` bounds whose groups are edited.

**CapturePipeline** – the two tables, the round, a turn's verb in flight, a page deletion in
flight.

| Actions | Code |
|---|---|
| `Say`, `CaptureLive` | `capture_buffer::write_capture`, `capture::wiki_capture_with_source` |
| `StartRound`, `EndRound` | `dream::run_light`, `run_closing_pass`, `compile_with` |
| `FoldIntoTwin`, `FoldFence`, `FoldCopy`, `FoldAudience`, `Accept`, `ScreenFails` | `dream_light::screen_queue`, `screen_one`, in the order the code asks |
| `Plan` | `planner`: what the plan must place, and what a model may place |
| `InsertFact`, `StampReason`, `MarkPromoted`, `WriteFails` | `dream_light::write_placed`, statement by statement |
| `CloseFact`, `ReshareFact`, `Inherit`, `Weld`, `EditBuffered`, `DropEdit` | `ingest::apply_plan_closures`, `apply_plan_acl_changes`, `weld_with_audience`: fact store first, buffer second |
| `Forget` | `fact_index::mark_forgotten` |
| `StartDelete`, `DeleteNext`, `Rebuffer`, `EndDelete` | `page::delete_page_direct`, `capture_buffer::rebuffer_fact` (check, then transaction) |
| `Crash` | the process dies; the tables remain |

The round keeps `snap`, the rows as it read them. `closed` and `kept` are history variables for
closures and exclusions a turn acknowledged. A re-share carries the subject it names, which
`set_acl` writes in either store and which may be another one (`NewSubject`). A weld asks
whether its successor exists as the code does: any fact row of that id, a forgotten one too, or a
waiting claim (`successor_exists`); whether it takes an audience over is another question
(`takes_audience`).

`Alone` is not in the code: it names the kinds of work (`"edit"`, `"deletion"`) a configuration
sees without overlap, so that a run can say both what holds when a verb does not overlap a round
and what happens when it does. With `Alone = {}` everything interleaves.

**Ballot, ForgetVote** – `Ballot` is what the vote promises: a request is decided once, a
NO-majority keeps the fact, silence or a full count without one forgets it, nobody votes twice or
after the window. `ForgetVote` is `votes.rs` and its part of `proposals.rs`, statement by
statement: `open_forget_request`/`EmitRequest` (or `ForgetAsSoleReader`), `cast_vote`,
`InsertVote`, `CountNo`, `Decide`, then `expire_pending_proposal` or the tombstone
(`apply_fact_forget_now`, `apply_fact_forget`) and the conditional flip (`mark_applied`); the
nightly `ListOverdue`, `resolve_overdue_fact_forget` and `expire_overdue_proposals`; the same
request applied by hand (`apply_proposal`, `ByHand`), which overrules the vote from the moment it
takes effect; a deletion that goes round the vote. `Fail` and
`Crash` may strike between any two statements. The electorate is `audience` of Acl. The
refinement maps `Standing`: a request counts as forgotten from the tombstone on, not from the
flip. `Prompt` is not in the code: with it the deadline does not pass while a call on the request
is in flight (calls take milliseconds, the window is days).

**SlotConflict** – one box of an identity card. A turn that may not replace the stored value
looks for an open question (`LookUp`), asks (`emit_slot_conflict`, with the unique index that
makes the second of two equal questions fail) and parks its claim (`park_capture`). An answer, or
the sweep with the recommended one, loads the question, then `KeepStored` or `Retire` and
`Release`, then `Flip`. `ExpireRead`/`ExpireFlip`/`ExpireDrop` and `sweep_orphan_held` collect
the rest. `word` and `mishap` are history: questions a person answered with a retirement, and
questions whose answer overlapped another, came before the parking, or met a fault.

**PageRegions** – the pages of a standard wiki as sequences of regions, each closed or not, and
the rows that point into them. A turn inserts the row, writes the region and stamps the offset
(`InsertRow`, `WriteRegion`, `StampRegion`); a retirement cuts (`strip_fact_region`,
`cut_region`); a build re-points rows before and after it writes each page
(`prepoint_plan_moves`, `compile_page`, `repoint_facts`), removes orphan files and sweeps what is
retired; the watcher reads page and rows apart and then repairs or tombstones (`ReadPage`,
`ReadRows`, `RepairMarker`, `SweepOrphan`). `Parsed` is the parser's rule that a region runs to
the first end marker after it. A person may cut a region, delete a page, tear or mend a region.
`Overlap`, `MidRound` and `Tears` are not in the code: they name work a configuration sees without
overlap (two jobs on pages at once, a turn's write to a plan page during a round, an edit saved
half done).

**SmartWiki** – pages as version numbers (the push that wrote them), the operation log with its
undo images, the leases. A push checks the lease, then the head it was sent
(`PushStart`, `PushGate`), reads what it is about to overwrite, writes page by page and logs; a
pull reads pages, then the head, then logs; `Revert…` is `op_revert` with its conflict check;
`acquire` reads and writes apart; `DropUndo` is the retention of undo images. `seen` and `told`
are what a device holds: the bodies it received or sent, the lease it was granted. `Careful`
devices always send the head back; the others need not. Leases are ordered as they were inserted,
where the code orders by `acquired_at`; an id is not given again while a device or a call refers
to it (`Taken`). `Overlap` is not in the code: without it one operation runs at a time.

**Erasure** – `forget_user` in its order: each fact about the person handed to its speaker or
destroyed (`retarget_subject`; `mark_forgotten`, `strip_fact_region`, `erase`), the author struck
(`replace_sender`), what others said moved out of the person's wiki (`RefileRow`, `RefileDest`,
`RefileSource`, or back to the queue), the queue (`DropHeld`, `DropOwn`, `HandOver`, `Disown`),
the id spent, the enrollment row removed, the wiki erased. Beside it turns, the round, page
builds and crashes; the operator asks again while the person is still enrolled. The form that
enrols somebody is two steps, its check (`validate_user_id_for_create`) and its insert (`Enrol`),
which any step of an erasure may separate; the ids between the two are `forms`.
`Overlap` (not in the code) says which of turns, round and another erasure run *during* an erasure.

**Recovery** – the working directory as two halves, `db` and `tree`; snapshots hold a copy of
each, the database first. The scheduler takes and prunes; an admin stages, cancels, deletes and
restarts; the boot consumes the marker, checks the target, takes a safety snapshot, clears and
copies (or empties the tables, removes the files and scaffolds), and opens the database. Every
step may fail as the code lets it, and the process may die between any two. `rest` is what lies in
the directory and no snapshot carries: `"stray"`, a file the service may not read, which
`copy_tree` passes over and which goes with its directory; and `"spool"`, `training-spool/`, which
`clear_workdir` keeps and only a reset removes. A marker may be malformed (dropped, and the boot
goes on, whether or not it could be removed) or not text (the boot aborts on it). `displaced`,
`lastGood`, `found` and `midApply` are history, the first two tied to the very snapshot.

### What is abstracted

- What a body says is a member of `Words`: bodies nearer than the dedup threshold are one word.
  Where the code takes the *nearest* of several rows, any of them may be it (`Retelling`, which is
  about the order of rows, takes the oldest).
- `kind` is what placement can do with a claim: `card` (an identity card takes it), `topic` (the
  closing pass can name a page after its topic), `bare` (neither). Models place anything else or
  not, nondeterministically.
- A validity window is the bit `ended` with its decay reason.
- `restrict_to` is one step in CapturePipeline and two in Retelling. The two probes of
  `inherit_audience` are one step (`Inherit`).
- A live capture that is dropped as a copy changes nothing and is a stutter.
- The `supersede_hint` of a claim is `None` in every caller outside tests; that branch of
  `write_placed` is left out. So are channel-page list verdicts, page files, embeddings,
  `placement_attempts`, and the telemetry of recall misses.
- Times are ages: a question or request is before its deadline, past it, or past the grace; a
  lease has ticks left. Deadlines pass in order and at any moment.
- A page's prose, cards and front matter are left out of PageRegions; a fact is its region. WAL
  markers are the choice whether the watcher is told of an engine's write.
- SmartWiki has one wiki and no renames; Erasure has one home wiki per person and a page is the
  set of claims printed in it.
- `mirror_to_db` and the YAML it reads are left out: outside tests nothing calls it.
- In Erasure the allow lists (step 3), media (6), personal and audit rows (7), the training spool
  (8) and the trash (12) are left out: each is one idempotent statement or sweep before the point
  of no return, or cosmetic after it.

## 3. Runs

`MCRetelling` is a household of four (alice speaks about herself, bob and zoe are the group
`parents`, carl may join); `MCCapturePipeline` has alice and bob with a wiki each, their group,
and carl, a guest with no wiki; `MCForgetVote` a fact about alice that bob filed and two others
read, or nobody; `MCSlotConflict` two turns that claim one value, or one of which was filed
before it was refused; `MCSmartWiki` a careful laptop and a careless phone; `MCErasure` two people
who may be forgotten, an admin, and the claims they make: one told about her, one for everybody,
a card value, her own, a rule. The run has the first three; a claim that is handed over becomes its
speaker's own, so the ways of her own claims are taken too, and the rules of `fate_of` are left to
the theorems, because all five are more than TLC finishes.

### What holds

| Run | States | Shows |
|---|---|---|
| `pipeline_core` | 1.5M | three claims, queued or written straight through, a verb or a forget, a page deleted in between, and a fault anywhere: nothing lost, retirement is final |
| `pipeline_serial` | 1.1M | verbs that overlap no round: closures and exclusions stick through crashes and retries, a superseded claim leads to one that stands, and a claim's subject moves only when a re-share names another |
| `pipeline_drains` | 26k | fair scheduling, one crash or failed write: every claim some pass can place stops waiting; no claim folds into its own fact |
| `retelling` | 0.6M | three tellings of four kinds by a turn and the round, statement by statement and side by side, groups changing and the subject re-sharing at every point: exclusions stand on every row two writes of which did not overlap; until two decisions overlap, every room told is heard and joining opens no fenced fact; SQL filter, row check and electorate agree on every row |
| `forget_vote` | 0.1M | two calls and the sweeps, statement by statement, one fault: a majority is respected, an applied request has its fact gone, every request is closed, and all of it implements `Ballot` |
| `pages` | 1.6M | two facts on three pages: the watcher never takes the engine's own work for a wish to forget |
| `pages_live` | 0.1M | one fact, edits saved half done, two faults: the watcher waits for a whole page, and what is retired leaves its page |
| `recovery` | 1.2M | the database and the readable files a recovery cleared away are in the safety snapshot it took, the report is true, pruning spares the last good snapshot, the server comes back unless its marker is not text |
| `slot_conflict` | 0.7M | one question per disagreement, its claim waits with it, silence keeps the card, an answer is carried out, no parked claim stays |
| `smart_wiki` | 1.7M | operations one after another, failing or dying inside: no unseen overwrite by a careful device, an undo takes back its own |
| `erasure` | 1.9M | a person forgotten, twice if the process dies, two faults anywhere, forms filled in and sent all the while: nothing names them, nobody else loses a claim, no prose without its row, and no form with their id passes its check any more |

`RequestsAreBallots` is the refinement. The type invariants of PageRegions, Recovery,
SlotConflict, SmartWiki and Erasure are theorems (`TypesHold`); the runs leave them out.

### What does not hold

`pipeline_deletion_race` states what the code's comments say and finds the behaviour that
contradicts it: a fact is sent back to the queue between the round's insert and its mark, and no
row is left. Its finding in `PROJECT.json` quotes the comments.

The same modules show more when a configuration is changed as below and the property named is
checked alone (bounds not named may be made smaller: one or two claims and no fault suffice for
each). The passing runs say what holds without the overlap or the input; these say what
the overlap costs. They read as scenarios for tests. Most of the properties are those of a passing
run; `FoldsKeepWhoseItIs`, `NoEditIsDropped`, `SubjectsNeverMove`, `ExclusionsOnlyNarrow`,
`NothingGoesUncopied`, `AnyMarkerIsConsumed`, `NeverServesHalfApplied`, `NoHalfAnswer`,
`LeaseLocksOthersOut` and `TheIdDoesNotComeBack` are what a comment of the code says and no
configuration gives.

| Start from | Change | Violates | Behaviour |
|---|---|---|---|
| `Retelling.cfg` | – | `ExclusionsOnlyNarrow` | two `restrict_to` on one row, and the first exclusion is written over (`fact_index.rs:1376`, against `:1361`) |
| `Pipeline_core.cfg` | `Tellings <- MCSwapped`, `LiveTellings = {}` | `FoldsKeepWhoseItIs` | alice about bob and bob about alice have one reader set and become one claim (`dream_light.rs:467`, against `:457`) |
| `Pipeline_core.cfg` | `Alone = {}` | `RetiredFactsStayRetired` | a fact forgotten between `rebuffer_fact`'s check and its transaction waits again (against `capture_buffer.rs:874`) |
| `Pipeline_serial.cfg` | `Alone = {"deletion"}`, `Tellings <- MCOne`, `Verbs <- MCNarrow` | `NoEditIsDropped` | promotion between a verb's two probes, and the verb is dropped (`ingest.rs:7351`, against `:7346`) |
| `Pipeline_serial.cfg` | `Alone = {"deletion"}`, `Tellings <- MCOne`, `Verbs <- MCClose` | `ClosuresStick` | a closure on the buffer row during a round is not in the fact (`dream_light.rs:652`, against `capture_buffer.rs:1042`) |
| `Pipeline_serial.cfg` | `Alone = {"deletion"}`, `Tellings <- MCOne`, `MaxClaims = 2`, `Verbs <- MCWeld` | `RetiredOntoSomething` | the successor is folded into the claim it is about to supersede (`ingest.rs:6438`, against `:6428`) |
| `Pipeline_serial.cfg` | `Verbs <- MCGive` | `SubjectsNeverMove` | a re-share writes another subject, which the dedup scan takes for fixed (`fact_index.rs:1332`, against `dream_light.rs:492`) |
| `Pipeline_serial.cfg` | `Verbs <- MCKeep` | `WishesStick` | an exclusion asked of a waiting claim has no column to go to (`capture_buffer.rs:1204`, against `ingest.rs:8289`) |
| `Pipeline_serial.cfg` | `MaxDeletions = 1`, `Deleters = {bob}`, `Tellings <- MCFenceLater`, `Verbs = {}` | `WishesStick` | a fact goes back on its old buffer row, without its later exclusion (`capture_buffer.rs:908`, against `:895`) |
| `Pipeline_drains.cfg` | `Verbs <- MCNarrow`, `MaxEdits = 1`, `Tellings <- MCOne`, `Alone = {"edit", "deletion"}`, `Spec` | `NoClaimFoldsIntoItself` | crash, narrowing, retry: the claim folds into its own fact and widens it again (against `dream_light.rs:521`) |
| `Pipeline_drains.cfg` | `Bag = "no_cronista"`, `Tellings <- MCOne`, `MaxClaims = 1` | `Drained` | models but no prose writer: no claim is ever drained (`dream.rs:758`, against `:752`) |
| `Pipeline_drains.cfg` | `Bag = "none"`, `Tellings <- MCTopic`, `MaxClaims = 1` | `Drained` | without models only card claims are drained (`planner.rs:941`, against `dream_light.rs:416`) |
| `Pipeline_drains.cfg` | `Tellings <- MCHead`, `MaxClaims = 2`, `MaxPromotions = 1` | `Drained` | unplaceable claims fill the per-pass cap for ever (`capture_buffer.rs:762`, against `dream.rs:231`) |
| `ForgetVote.cfg` | `Prompt = FALSE` | `NoMajorityNeverForgets` | a call checks the window, the deadline passes, the sweep forgets, and the vote that makes the majority is recorded after it (`votes.rs:237`, against `:24`) |
| `PageRegions.cfg` | one of `Tears`, `MidRound`, `Overlap` `= TRUE` | `OnlyGesturesForget` | a region left open swallows the next one (`reindex.rs:2107`, against `:2102`); a build overwrites what a turn appended meanwhile; the watcher sweeps by a page it read before a turn wrote to it (`reindex.rs:403`, against `:22`) |
| `Recovery.cfg` | – | `NeverServesHalfApplied` | a crash past the point of no return, and the next boot finds no marker and serves (`recovery.rs:266`, against `:75`) |
| `Recovery.cfg` | – | `NothingGoesUncopied` | the safety snapshot passes over what it may not read, and no snapshot carries the training spool; the recovery removes the one with its directory, a reset the other (`backup.rs:602`, `recovery.rs:415`, against `:500` and `:14`) |
| `Recovery.cfg` | – | `AnyMarkerIsConsumed` | a marker that is not text stays, and every boot aborts on it (`recovery.rs:261`, against `:255`) |
| `SlotConflict.cfg` | – | `NoHalfAnswer` | an answer between the question and the parking, or two answers at once, retires the stored value and releases nothing (`proposals.rs:1661`, against `:1543`) |
| `SmartWiki.cfg` | `Overlap = TRUE`, `MaxLeases = 0`, `MaxFaults = 0` | `NoUnseenOverwrite` | a pull reads its pages before another's push and the head after it, and the next guarded push overwrites what the device never saw (`wiki_admin.rs:1128`, against `:385`) |
| same | same | `UndoTakesBackOnlyItsOwn` | an undo looks for newer rows while a push has written its page and not yet its row (`wiki_admin.rs:1364`, against `:1171`) |
| `SmartWiki.cfg` | `Overlap = TRUE`, `Careful = {}`, `Pages = {p}`, `Requests <- MCPush`, `Reads = {}`, `Ttl = 2`, `Grace = 1`, `MaxOps = 2`, `MaxPushes = 2`, `MaxLeases = 2`, `MaxFaults = 0` | `LeaseLocksOthersOut` | two devices both find no lease and both insert one; the row that answers lets its holder push while the other has time on its grant (`wiki_admin_leases.rs:290`, against `:10`) |
| `Erasure.cfg` | – | `TheIdDoesNotComeBack` | a form that had passed its check inserts the id after the person it names was erased (`routes/users.rs:349`, against `enrollment.rs:1174`) |
| `Erasure.cfg` | `Overlap = {"turn"}` or `{"erasure"}` | `NothingNamesTheErased` | a claim is said after its sweep; one erasure hands a fact to a person whose own erasure has already passed that step (`gdpr.rs:818`, against `:307`) |
| `Erasure.cfg` | `Overlap = {"round"}` | `OthersKeepTheirs` | the round places a claim it read before the queue was swept, in a wiki about to be erased (`gdpr.rs:392`, against `:16`) |

Behaviours met while modelling that no property states:

- A telling that does not fold becomes a second row of its claim, and an exclusion is carried
  onto one row only, so a person kept from one row may read the other (`capture.rs:687`, against
  the comment at `:664`). Re-sharing a fenced fact writes a group among its readers
  (`ingest.rs:8294`, against `fact_index.rs:1354`).
- Erasure: a death between a tombstone and its erasure leaves a retired row with its text, which
  a retry never lists again; superseded rows keep theirs; a death after the enrollment row is gone
  leaves the wiki with no retry.
- SmartWiki: a rejected push may already have stamped the wiki's description; a push that fails
  half-way leaves pages and no row to undo; an undo ignores leases.
- Recovery: the target of a staged restore may be pruned before the boot, which then refuses; a
  snapshot that dies half-way stays as a husk; its halves may differ by what was written between.
- PageRegions: a retirement between a capture's row and its stamp leaves the region until the
  sweep; a degraded build of a torn page may print a region twice.
- SlotConflict: two values that were both answered with a retirement are both live.

### Bounds

Two rows suffice for every race over one claim and three claims for a chain (a claim folded into
one that is folded or superseded in turn); `MaxPromotions = 2` with three claims makes the cap
bite. One fault may strike at any step: a claim left in both tables, or in one with work cut
short, is already every kind of debris a later round can meet, and the theorems of section 4
cover any number of faults. `MaxEdits` and `MaxDeletions` bound the number of verbs, never what
they may do. `MaxFacts` and `MaxSaid` bound Retelling; `Movers` leaves out the subject, whom no
group makes a reader.

ForgetVote: one request, two calls and three electors, so that a majority needs two votes and the
counts of two calls interleave; requests meet only in the fact. PageRegions: two facts on two
plan pages, so that one can move to the other's page, and a rules page no build writes
(`Symmetry` permutes the facts and the plan pages, which nothing distinguishes); the live run has
one fact and no symmetry. Recovery: two snapshots with `Keep = 1` make a prune bite, two requests
let one recovery displace what another put there. SlotConflict: two turns are the least that can
share a question. SmartWiki: three pushes and four log rows are a push, another's push, an undo
and a retry; `Ttl = 1` and `Grace = 0` let a lease lapse and be collected. Erasure: two claims of
three kinds and two faults, so that the second erasure of a person may die as well; one of the
three people is not enrolled at the start, so that a form may pass before its person is.

Runs whose work is used up stop, so those configurations do not check deadlock: the server, too,
rests when nothing is said. ForgetVote, PageRegions and Recovery never rest, and theirs do.

### Fairness

- CapturePipeline's `FairSpec` asks three things. A round's next step is taken (weak fairness of
  `RoundStep`): a round is one async task that nothing cancels. An hourly round starts when it can
  (weak fairness). The closing pass starts if it can again and again (strong fairness of
  `StartRound("closing")`): the hourly job may hold the gate whenever the night asks for it, but
  both wait on the same `tokio::sync::Mutex`, whose waiters are served in order of arrival.
- ForgetVote, SlotConflict: a call that was started runs on, time passes, the nightly sweep and
  the hourly orphan sweep come again. Nobody has to vote or answer.
- PageRegions: calls, watcher and rounds run on, and a page is not unwritable for ever (strong
  fairness of `compile_page`, since a build may give up on a page once).
- Recovery: the boot runs on, and the service unit relaunches the server when it exits with an
  error. How each boot step ends is not assumed, so a marker that is not text keeps the server
  down and `ServesAgain` leaves it out.

Nothing is assumed of turns, operators, people or faults.

## 4. Proofs

`tlapm` checks all of them; the constants are arbitrary subject to the named assumptions of the
component's module, so a theorem covers any number of people, claims, calls, faults and crashes.
A proviso (`ASSUME`) in a theorem is about the constants that section 2 marks as not in the code, or
about the inputs, or (`GraceIsLong`) a relation between two constants of the code that it meets;
section 3, *What does not hold*, shows for each what happens without it.

**CapturePipelineProofs** (from `PipelineAssumption` and `AclAssumption`):

| Theorem | States | Provided that |
|---|---|---|
| `TypesHold` | `TypeOK` | – |
| `NothingSaidIsLost` | `NothingLost` | page deletions overlap nothing |
| `RetirementIsFinal` | `RetiredFactsStayRetired` | the same |
| `NothingFoldsIntoItself` | `NoClaimFoldsIntoItself` | the same, `OnlyClosings`, `FrozenTellings` |
| `TrailsLeadSomewhere` | `RetiredOntoSomething` | `Serial`: neither verbs nor deletions overlap a round |
| `ClosuresAreKept` | `ClosuresStick` | `Serial`, `Deleters = {}` |
| `SubjectsStayAsAsked` | `SubjectsMoveOnlyWhenAsked` | `Serial`, `Deleters = {}` |
| `WishesAreHeard` | `WishesStick` | `Serial`, `Deleters = {}`, `NoNamesInReshares` |

The base is `IInv == TypeInv /\ Shape /\ NothingLost`.
`NothingLost` says that no set of claims can be gone while they only point at one another, which
is how "every trail of `resolved_fact_id` ends at a living claim" is said without recursion. It
is not inductive: `MarkPromoted` ends a wait because the fact *is* there, and a fold is safe
because what it folds into lives. So `RoundShape` says that the claims under screening still wait
(a twin accepted earlier in the pass is still in the queue) and that the claim being marked has
its fact; `Blank` that an id never handed out has no row; `DeletionShape` that a deletion meets
the facts as it listed them, which is where the proviso is used. `AllAccounted` is the lemma every
action reduces to: after the step each claim lives, or is gone as it was, or points at one that
lives. TLC checked `IInv` on the core instance, with page deletions, before it was proved.

- `NothingFoldsIntoItself` needs `Own`: the fact of a claim that still waits *covers* the claim
  (its readers and exclusions include the claim's), so the claim can settle nothing on it.
  `FrozenTellings` says that a telling with an exclusion names people, which `ingest.rs:3467` makes
  sure of before it files; `OnlyClosings` excludes the verbs that narrow a fact under its claim.
- Under `Serial` the round holds the queue's rows as they are (`Fresh`), and a verb that missed the
  fact store names a claim that waits or whose fact is gone (`Missing`). `Ended` and `Wished` then
  put every closure and every exclusion on whichever row the claim has, also where it has both;
  `Trails` orders supersessions by id and keeps the successor of a weld in flight lively, so that no
  weld closes a circle (`AllCarried`, the analogue of `AllAccounted`). `RetiredOntoSomething` is
  claimed until a fault strikes, and so is `Trails`.

**RetellingProofs** opens with what the predicates of Acl guarantee, from `AclAssumption` alone
(users, groups and the removed author are distinct, `Global` is a group):
- `QueryIsTheRowCheck` – the SQL filter bound to `reader_principals` is `can_read`. Everywhere,
  with no hypothesis on the audience.
- `ElectorateIsTheReaders` – the electorate of a forget request contains readers only, and all of
  them when the fact is not public. The hypothesis `Global \notin excluded` is the one case
  `acl::audience` does not treat.
- `FrozenAudienceNamesPeople`, `JoiningGrantsNothing` – an audience written with an exclusion
  names people, and a row whose readers are people opens to nobody by joining a group.

Of the two roads, which may run side by side (from `RetellingAssumption` as well, with at least one
row): `TypesHold`, `QueriesAgree`, `ElectorsRead`, `ExclusionsNarrow` (`FencesStand`),
`JoiningOpensNothing` (`JoiningReachesNoFencedFact`) and, if nobody is asked to keep a claim from
`Global`, `EveryoneNamedReads` (`EveryRoomIsHeard`). `GlobalIsNotKeptOut` is what `read_exclusions`
(`ingest.rs:3239`) guarantees: only people are kept out. There are two inductive invariants.
`FenceInv`, whatever overlaps, says that a row nobody wrote inside somebody else's `restrict_to`
keeps out whoever it was asked to, and that what a road has read of such a row is still in it
(`Holds`). `IInv`, as long as nothing `crossed`, says that a row
keeps out exactly whom somebody asked to keep out and then names people (`Fenced`), what a road is
about to write relative to the row as it is (`Pending`, which a decision beside it would make
false), and where everybody a telling named is to be found while roads have work in flight
(`Placed`). TLC checked both on the instance of `retelling` first.

**ForgetVoteProofs** (from `ForgetVoteAssumption`): `TypesHold` and `AppliedIsForgotten`
(`AppliedMeansForgotten`) for any overlap; with `Prompt`, `MajorityIsRespected`
(`NoMajorityNeverForgets`) and `RequestsImplementBallots`, the refinement: the initial states map to
those of `Ballot`, and every statement of a call or a sweep is a step of `Ballot` or a stutter. What
makes it inductive is `Knows`, what a call in flight still knows to be true however old its reads
are: a count is at most the votes now on record, so a majority counted is a majority still, and a
request being applied is `Settled` (no majority against it, and none can come any more). `Late`
says that past a deadline only the sweep and a hand are at work; it is where `Prompt` is used.

**SlotConflictProofs** (from `SlotConflictAssumption`): `TypesHold`, `QuestionsAreNotDoubled`,
`ClaimsWait`, `SilenceChangesNothing`, `RetirementsReplace`, one for each invariant of the run, for
any overlap. The four are proved together: what an answer has done and may rely on (`Answer`) needs
that the claim of an open question waits, and that in turn needs that a doomed claim's question is
closed (`ExpiryInv`) and that two answers to one question are a mishap (`Alone`).

**ErasureProofs** (from `ErasureAssumption`): `TypesHold` and `SpentIdsStaySpent`
(`SpentIdsPassNoCheck`) whatever overlaps an erasure: the id is spent before the enrollment row goes,
and a spent id passes no check, so only a form that had passed before can enrol it; when nothing runs during one
(`Overlap = {}`), `ErasedAreUnnamed`, `OthersAreKept` and `ProseHasItsRow`. The invariant says what
the erasure has achieved at each stage (`Progress`: facts, authorship, pages, queue in
`forget_user`'s order), where a claim's rows and its region may be in between, a death included
(`Good`), and that nothing of a claim names somebody past retry (`Clean`). TLC checked it on the instance of `erasure` first.

**RecoveryProofs** (from `RecoveryAssumption`: retention is positive and the markers are distinct
from versions and snapshots): `TypesHold`, `NothingDisplacedIsLost` (`DisplacedIsKept`),
`OutcomesAreTrue` (`OutcomeTellsTheTruth`), `LastBackupStays` (`ReportedBackupStays`). What is kept is
the database and the files a snapshot carries, in the very snapshot that recovery took. `Progress`
says what the boot has and has not touched at each stage and that what it is about to clear is
already safe; `Numbering` that a snapshot is begun under a name nothing was written to, so that a
new safety snapshot never replaces the one that holds what was displaced; `Reported` that a prune
follows a snapshot that completed and is the newest.

**PageRegionsProofs** (from `PageRegionsAssumption`): `TypesHold` whatever overlaps, tears or dies,
and `WatcherForgetsOnlyGestures` (`OnlyGesturesForget`) when `Orderly` holds: one job on the pages at
a time, no turn on a plan page during a round, no region saved without its end. These are the three
switches of the module, and `PageRegions.cfg` with any one of them fails. The watcher's own step is
easily right; what has to be shown is that the page and the rows, read apart, still mean what they
meant when it acts. So `Standing` says that a rendered row has its marker on its page unless a person
took it off (`Kept`); `Knows` what a job may rely on however long ago it read (the copy in its hands
holds every marker now on the page; the rows the watcher is about to tombstone are of markers a person
cut; a turn that is about to insert finds no row); `Round` that while a build goes on every row of a
plan page is on the page planned for it or still to be pointed there, which is why removing an orphan
file or writing a page without a fact takes no marker a row counts on; `Alone` and `AllClosed` are what
the switches give. The lemmas underneath are about regions: in a page without an open region every
region parses and spans itself only, so a cut takes one fact's prose and nothing else (`Ascending`
and `Without`, by a smallest counterexample). TLC checked `IInv` on the
instance of `pages` first.

**SmartWikiProofs** (from `SmartWikiAssumption`), with `TypesHold` whatever overlaps:
- When one operation runs at a time (`~Overlap`), `CarefulPushesOverwriteOnlySeen`
  (`NoUnseenOverwrite`) and `UndoIsNarrow` (`UndoTakesBackOnlyItsOwn`), from `LogInv`. A half-written push or undo leaves pages no row speaks
  of, so the log does not say what is on disk; what it does say is `Seen`: where a page *is* as its
  last logged write left it and the head of a careful device covers that write, the device has the
  body. This survives because a push writes a body that is in no row yet (`Pushing`: its version is
  newer than every body in the log) and an undo restores one that differs from what its push left
  (`Rows`). `Pushing` also carries what the gate found to the write, `Pulling` that a pull holds the
  pages as they are, `Undoing` that the conflict check still stands, so that the push being taken back
  is the last write of each of its pages (`UndoIsOfTheLast`). Dropping an undo image changes none of
  it.
- `LeasesYieldOnlyToLeases` (`GrantsYieldOnlyToALease`), whatever overlaps: a push is let in beside a
  device with time on its grant only when the leases of two devices stand at once. From `LeaseInv`:
  whoever has time left on a grant has it on a lease of its own that stands, and no more than the
  lease has; and an `acquire` between its read and its write still finds its row. The last part needs
  `GraceIsLong`: the expirer must not release a row that an `acquire` has read before the window the
  `acquire` grants is over. The code's constants leave a wide margin (`MAX_TTL_SECS` is 300,
  `EXPIRER_CLEANUP_GRACE_SECS` 3600).

TLC checked `LogInv` on the instance of `smart_wiki` before it was proved, and `LeaseInv` and
`GrantsYieldOnlyToALease` on the instance that violates `LeaseLocksOthersOut` (section 3) with three
leases and one operation, 1.2M states; the two halves together are too large for one run.

Every safety property of the passing runs is now a theorem. Only model-checked: liveness (`Drained`,
`Resolved`, `RetiredLeavesThePage`, `ServesAgain`, `HeldLeaves`), as the prover has no fairness; and
`OnlyGesturesForget` where an edit may tear a region (`pages_live`), which holds for one fact only.

## 5. Plan

1. `OnlyGesturesForget` with torn pages: for one fact TLC says that it holds; with two, a region left
   open swallows its neighbour. A theorem needs a proviso between the two.
2. `NothingFoldsIntoItself` with verbs that close, weld or widen; only a verb that narrows the
   readers of a fact whose claim still waits breaks it.
3. **FactWindow** – validity windows with two bounds: `close_validity` and `set_validity` read,
   check and write in two steps. **Budget** – the spending threshold.

## 6. Not modelled

Prompts, model judgements and their parsing (`ingest.rs` up to the verbs, `rem*.rs`, the prose of
`compiler.rs`); page cards and section indexing of smart wikis; the proposal kinds that are page
surgery (`card_retype`, `dedup_merge`, `wiki_promote`); recall ranking (read-only; the filter it
applies is in Acl); events and reminders; the MCP protocol layer, most of the dashboard and the
agent bridges. `PROJECT.json` gives the reason for each. The repository is some 263,000 lines of
source, tests inside the files, prompt text, HTML and clients included; the model is of the
control that changes the memory's state, which is a small share of them.
