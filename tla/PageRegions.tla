---------------------------- MODULE PageRegions -----------------------------
(***************************************************************************)
(* A page of a standard wiki and the rows of fact_index that point into it. *)
(* The database holds the facts; a page carries each one's prose between a  *)
(* pair of markers.  Four writers touch pages: a live capture appends a     *)
(* region (capture.rs), a retirement cuts one (reindex.rs), the dream         *)
(* rewrites the pages of its plan and removes those it dropped              *)
(* (compiler.rs), and a person edits them by hand.  The watcher reads what  *)
(* changed and takes a missing marker for a wish to forget: reindex_file    *)
(* tombstones the row, unless the row says its region was never written.    *)
(* File and row are written apart, one statement or one write at a time.    *)
(***************************************************************************)
EXTENDS FiniteSets, Integers, SequencesExt

CONSTANTS Facts,
          PlanPages,   \* pages the compiler writes
          RulesPages,  \* @rules.md pages, which it never does
          Turns,       \* calls that capture, supersede and forget
          Dream,       \* the round in progress
          Watcher,     \* the loop that reads what changed on disk
          NoFact, NoPage,
          Overlap,     \* two jobs may be at work on the pages at once
          MidRound,    \* a turn may write a plan page while a round goes on
          Tears,       \* an edit may leave a region without its end
          MaxFaults    \* bound on edits by hand and crashes

NoFile == [there |-> FALSE, body |-> <<>>]
File(b) == [there |-> TRUE, body |-> b]

Pages == PlanPages \cup RulesPages
Actors == Turns \cup {Dream, Watcher}

ASSUME PageRegionsAssumption ==
    /\ IsFiniteSet(Facts) /\ IsFiniteSet(Pages)
    /\ PlanPages \cap RulesPages = {}
    /\ NoFact \notin Facts /\ NoPage \notin Pages
    /\ Dream \notin Turns /\ Watcher \notin Turns /\ Dream # Watcher
    /\ Overlap \in BOOLEAN /\ MidRound \in BOOLEAN /\ Tears \in BOOLEAN
    /\ MaxFaults \in Nat

VARIABLES file,      \* each page, region after region
          row,       \* each fact's row: its state, its page, rendered or not
          plan,      \* the page the round in progress plans for each fact
          events,    \* changes the watcher has still to look at
          jobs,      \* what each actor has in flight
          gestures,  \* history: <<p, f>> when a person took f's marker off p
          faults

vars == <<file, row, plan, events, jobs, gestures, faults>>

\* A page is its regions in order: whose prose, and whether the end marker of
\* the region is there.
Regions == [fact : Facts, closed : BOOLEAN]
Whole(f) == [fact |-> f, closed |-> TRUE]
Files == {NoFile} \cup [there : {TRUE}, body : Seq(Regions)]

\* parser::parse.  A region runs to the first end marker after it, whoever it
\* belongs to: the regions opened in between are part of its prose.
Ends(b, i) == {j \in i..Len(b) : b[j].closed}
Parsed(b) == {i \in DOMAIN b : Ends(b, i) # {} /\ (i > 1 => b[i - 1].closed)}
Span(b, i) == i..Min(Ends(b, i))
Marks(b) == {b[i].fact : i \in Parsed(b)}
Written(b) == {b[i].fact : i \in DOMAIN b}

markers_parse_whole_Assumed(b) == TRUE

\* markers_parse_whole: no region is without an end.
markers_parse_whole(b) == \A i \in DOMAIN b : Ends(b, i) # {}

\* Naturals in their order.
Ascending(K) == CHOOSE k \in [1..Cardinality(K) -> K] : \A m, n \in DOMAIN k : m < n => k[m] < k[n]

\* What is left of a page without the regions at I.
Without(b, I) ==
    LET kept == Ascending(DOMAIN b \ I)
    IN  [n \in DOMAIN kept |-> b[kept[n]]]

\* The page without the parsed regions of the facts S.
CutAll(b, S) == Without(b, UNION {Span(b, i) : i \in {k \in Parsed(b) : b[k].fact \in S}})

\* The facts S rendered one after another, in any order.
Rendered(S) == {[i \in DOMAIN q |-> Whole(q[i])] : q \in SetToSeqs(S)}

\* `at` is region_start IS NOT NULL; "swept" is a tombstone of reindex_file.
States == {"none", "active", "superseded", "forgotten", "swept"}
Rows == [state : States, page : Pages \cup {NoPage}, at : BOOLEAN]
NoRow == [state |-> "none", page |-> NoPage, at |-> FALSE]

Active(f) == row[f].state = "active"
Retired(f) == row[f].state \in {"superseded", "forgotten", "swept"}
Deleted(f) == row[f].state \in {"forgotten", "swept"}

Stages == {"idle", "insert", "write", "stamp", "supersede", "strip", "cut",
           "read", "rows", "reindex", "settle",
           "prepoint", "repoint", "files", "remove",
           "hygiene", "cutall", "settleall"}

IdleJob == [stage |-> "idle", page |-> NoPage, fact |-> NoFact, old |-> NoFact,
            disk |-> NoFile, rows |-> {}, todo |-> {}, left |-> {}, after |-> "idle"]

Jobs == [stage : Stages, page : Pages \cup {NoPage}, fact : Facts \cup {NoFact},
         old : Facts \cup {NoFact}, disk : Files, rows : SUBSET Facts,
         todo : SUBSET Facts, left : SUBSET Pages, after : {"idle", "settle", "settleall"}]

\* A job is on a page from its first read of it to its last statement.
OnAPage(a) ==
    /\ jobs[a].stage \notin {"idle", "prepoint", "files", "hygiene"}
    /\ jobs[a].stage = "repoint" => jobs[a].todo # {}
MayStart(a) == Overlap \/ \A b \in Actors \ {a} : ~OnAPage(b)

Does(a, j) == jobs' = [jobs EXCEPT ![a] = j]
Goto(a, s) == jobs' = [jobs EXCEPT ![a].stage = s]

NoPlan == [f \in Facts |-> NoPage]

\* An engine write: what was on the page is gone, what is on it now was not
\* removed by anybody.  The watcher may or may not see it: its callback drops
\* the event only while the write-in-progress marker is there.
WriteFile(p, b) ==
    /\ file' = [file EXCEPT ![p] = File(b)]
    /\ gestures' = gestures \ {<<p, f>> : f \in {g \in Written(b) : row[g].state # "swept"}}
    /\ events' \in {events, events \cup {p}}

\* A statement that touches active rows only.
move_region(f, p, at) ==
    row' = [row EXCEPT ![f] = IF @.state = "active"
                              THEN [state |-> "active", page |-> p, at |-> at] ELSE @]

\* A fresh store, or one page with one fact rendered on it.
Init ==
    /\ \E known \in {{}} \cup {{f} : f \in Facts}, p \in PlanPages :
          /\ file = [q \in Pages |-> IF q = p /\ known # {}
                                     THEN File([i \in 1..1 |-> Whole(CHOOSE f \in known : TRUE)])
                                     ELSE NoFile]
          /\ row = [f \in Facts |-> IF f \in known
                                     THEN [state |-> "active", page |-> p, at |-> TRUE] ELSE NoRow]
    /\ plan = NoPlan
    /\ events = {}
    /\ jobs = [a \in Actors |-> IdleJob]
    /\ gestures = {}
    /\ faults = 0

---------------------------------------------------------------------------
(* wiki_capture and wiki_supersede, past their dedup.                      *)

\* append_region reads the page the new contents are made from.
wiki_capture(t, f, p, old) ==
    /\ jobs[t].stage = "idle" /\ MayStart(t)
    /\ MidRound \/ p \in RulesPages \/ jobs[Dream].stage = "idle"
    /\ row[f].state = "none"
    /\ \A b \in Actors : jobs[b].fact # f
    /\ old # NoFact => (old # f /\ row[old].state # "none")
    /\ Does(t, [IdleJob EXCEPT !.stage = "insert", !.page = p, !.fact = f,
                               !.old = old, !.disk = file[p]])
    /\ UNCHANGED <<file, row, plan, events, gestures, faults>>

\* The row is the commit point; it has no offsets yet.
InsertRow(t) ==
    /\ jobs[t].stage = "insert"
    /\ row' = [row EXCEPT ![jobs[t].fact] =
                  [state |-> "active", page |-> jobs[t].page, at |-> FALSE]]
    /\ Goto(t, "write")
    /\ UNCHANGED <<file, plan, events, gestures, faults>>

WriteRegion(t) ==
    LET j == jobs[t]
    IN  /\ j.stage = "write"
        /\ WriteFile(j.page, Append(j.disk.body, Whole(j.fact)))
        /\ Goto(t, "stamp")
        /\ UNCHANGED <<row, plan, faults>>

\* The page cannot be written: the row is tombstoned and the call fails.
WriteRegionFails(t) ==
    /\ jobs[t].stage = "write"
    /\ row' = [row EXCEPT ![jobs[t].fact].state = IF @ \in {"active", "superseded"}
                                                  THEN "forgotten" ELSE @]
    /\ Does(t, IdleJob)
    /\ UNCHANGED <<file, plan, events, gestures, faults>>

StampRegion(t) ==
    LET j == jobs[t]
    IN  /\ j.stage = "stamp"
        /\ move_region(j.fact, j.page, TRUE)
        /\ IF j.old = NoFact THEN Does(t, IdleJob) ELSE Goto(t, "supersede")
        /\ UNCHANGED <<file, plan, events, gestures, faults>>

mark_superseded(t) ==
    LET j == jobs[t]
    IN  /\ j.stage = "supersede"
        /\ row' = [row EXCEPT ![j.old].state = IF @ = "active" THEN "superseded" ELSE @]
        /\ Does(t, [IdleJob EXCEPT !.stage = "strip", !.fact = j.old])
        /\ UNCHANGED <<file, plan, events, gestures, faults>>

\* wiki_forget: the tombstone, then the disk half.
wiki_forget(t, f) ==
    /\ jobs[t].stage = "idle" /\ MayStart(t)
    /\ row[f].state \in {"active", "superseded"}
    /\ row' = [row EXCEPT ![f].state = "forgotten"]
    /\ Does(t, [IdleJob EXCEPT !.stage = "strip", !.fact = f])
    /\ UNCHANGED <<file, plan, events, gestures, faults>>

\* A proposal that forgets a fact has no tree at hand: no disk half.
ForgetByProposal(f) ==
    /\ row[f].state \in {"active", "superseded"}
    /\ row' = [row EXCEPT ![f].state = "forgotten"]
    /\ UNCHANGED <<file, plan, events, jobs, gestures, faults>>

---------------------------------------------------------------------------
(* strip_fact_region and cut_region.                                       *)

Cuttable(b, f) == {i \in DOMAIN b : b[i].fact = f /\ Ends(b, i) # {}}

\* Only a retired row with offsets, and only if they bracket its marker and an
\* end marker: they may be stale even when the region is there.
strip_fact_region(a) ==
    LET f == jobs[a].fact
        p == row[f].page
    IN  /\ jobs[a].stage = "strip"
        /\ \/ /\ Retired(f) /\ row[f].at /\ Cuttable(file[p].body, f) # {}
              /\ Does(a, [jobs[a] EXCEPT !.stage = "cut", !.page = p, !.disk = file[p]])
           \/ Does(a, IdleJob)
        /\ UNCHANGED <<file, row, plan, events, gestures, faults>>

cut_region(a) ==
    LET j == jobs[a]
        b == j.disk.body
    IN  /\ j.stage = "cut"
        /\ \E i \in Cuttable(b, j.fact) : WriteFile(j.page, Without(b, Span(b, i)))
        /\ Does(a, [j EXCEPT !.stage = "read", !.after = "settle"])
        /\ UNCHANGED <<row, plan, faults>>

\* clear_region_offsets_retired.
Settle(a) ==
    LET f == jobs[a].fact
    IN  /\ jobs[a].stage = "settle"
        /\ row' = [row EXCEPT ![f].at = @ /\ ~Retired(f)]
        /\ Does(a, IdleJob)
        /\ UNCHANGED <<file, plan, events, gestures, faults>>

---------------------------------------------------------------------------
(* reindex_file, of the watcher and at the end of every cut.               *)

\* handle_watched_change opens the page right away.
HandleEvent(p) ==
    /\ jobs[Watcher].stage = "idle" /\ MayStart(Watcher)
    /\ p \in events
    /\ events' = events \ {p}
    /\ Does(Watcher, [IdleJob EXCEPT !.stage = "rows", !.page = p, !.disk = file[p]])
    /\ UNCHANGED <<file, row, plan, gestures, faults>>

ReadPage(a) ==
    LET j == jobs[a]
    IN  /\ j.stage = "read"
        /\ Does(a, [j EXCEPT !.disk = file[j.page], !.stage = "rows"])
        /\ UNCHANGED <<file, row, plan, events, gestures, faults>>

\* find_active_by_source_path, once.  A row without offsets is a pending
\* render: it is never taken for an orphan.
ReadRows(a) ==
    LET j == jobs[a]
        here == {f \in Facts : Active(f) /\ row[f].page = j.page}
        rendered == {f \in here : row[f].at}
        found == Marks(j.disk.body)
    IN  /\ j.stage = "rows"
        /\ Does(a, IF j.disk.there
                   THEN [j EXCEPT !.stage = "reindex", !.todo = here \cap found,
                       !.rows = IF markers_parse_whole(j.disk.body) THEN rendered \ found ELSE {}]
                   ELSE [j EXCEPT !.stage = "reindex", !.rows = rendered])
        /\ UNCHANGED <<file, row, plan, events, gestures, faults>>

\* A marker with a row: offsets that drifted, or were never there, are set.
RepairMarker(a, f) ==
    LET j == jobs[a]
    IN  /\ j.stage = "reindex"
        /\ f \in j.todo
        /\ \/ move_region(f, j.page, TRUE)
           \/ row[f].at /\ UNCHANGED row
        /\ Does(a, [j EXCEPT !.todo = @ \ {f}])
        /\ UNCHANGED <<file, plan, events, gestures, faults>>

\* A rendered row whose marker, or whose page, is gone.  A missing marker
\* counts only while the row still points here.
SweepOrphan(a, f) ==
    LET j == jobs[a]
        touched == ~Deleted(f) /\ (j.disk.there => row[f].page = j.page)
    IN  /\ j.stage = "reindex" /\ j.todo = {}
        /\ f \in j.rows
        /\ row' = [row EXCEPT ![f].state = IF touched THEN "swept" ELSE @]
        /\ Does(a, [j EXCEPT !.rows = @ \ {f}])
        /\ UNCHANGED <<file, plan, events, gestures, faults>>

ReindexDone(a) ==
    LET j == jobs[a]
    IN  /\ j.stage = "reindex" /\ j.todo = {}
        /\ j.rows = {}
        /\ IF j.after = "idle" THEN Does(a, IdleJob) ELSE Does(a, [IdleJob EXCEPT !.stage = j.after, !.page = j.page,
                                        !.fact = j.fact, !.left = j.left])
        /\ UNCHANGED <<file, row, plan, events, gestures, faults>>

---------------------------------------------------------------------------
(* compile_dirty_pages.                                                    *)

planned(p) == {f \in Facts : plan[f] = p}
Planned == {p \in PlanPages : planned(p) # {}}

\* A new plan gives each active fact off the rules pages one page, any page.
BuildPlan ==
    LET homed == {f \in Facts : Active(f) /\ row[f].page \in PlanPages}
    IN  /\ jobs[Dream].stage = "idle"
        /\ MidRound \/ \A t \in Turns : jobs[t].page \notin PlanPages
        /\ \E to \in [homed -> PlanPages] :
              plan' = [f \in Facts |-> IF f \in homed THEN to[f] ELSE NoPage]
        /\ Does(Dream, [IdleJob EXCEPT !.stage = "prepoint", !.todo = homed,
                                       !.left = {plan'[f] : f \in homed}])
        /\ UNCHANGED <<file, row, events, gestures, faults>>

prepoint_plan_moves_AfterTheWrite(f) ==
    LET j == jobs[Dream]
    IN  /\ j.stage = "prepoint" /\ MayStart(Dream)
        /\ f \in j.todo
        /\ Does(Dream, [j EXCEPT !.todo = @ \ {f}])
        /\ UNCHANGED <<file, row, plan, events, gestures, faults>>

\* prepoint_plan_moves: before any page is written, a row that lives on
\* another page is pointed at the planned one as a pending render.
prepoint_plan_moves(f) ==
    LET j == jobs[Dream]
    IN  /\ j.stage = "prepoint" /\ MayStart(Dream)
        /\ f \in j.todo
        /\ IF row[f].page # plan[f] THEN move_region(f, plan[f], FALSE) ELSE UNCHANGED row
        /\ Does(Dream, [j EXCEPT !.todo = @ \ {f}])
        /\ UNCHANGED <<file, plan, events, gestures, faults>>

\* The build is between two pages: the rows of the last one are settled.
BetweenPages == jobs[Dream].stage \in {"prepoint", "repoint"} /\ jobs[Dream].todo = {}

\* compile_leaf_page and compile_list_page write the page from its planned
\* facts; compile_degraded_leaf cuts the regions of others and appends what is
\* missing.  A leaf without facts is left to ToOrphanFiles.
Compiled(p) ==
    LET kept == CutAll(file[p].body, Facts \ planned(p))
    IN  Rendered(planned(p)) \cup {kept \o b : b \in Rendered(planned(p) \ Marks(kept))}

compile_page(p) ==
    LET j == jobs[Dream]
    IN  /\ BetweenPages /\ MayStart(Dream)
        /\ p \in j.left
        /\ \E b \in Compiled(p) :
              /\ WriteFile(p, b)
              /\ Does(Dream, [j EXCEPT !.stage = "repoint", !.page = p,
                                       !.todo = planned(p) \cap Marks(b), !.left = @ \ {p}])
        /\ UNCHANGED <<row, plan, faults>>

\* The page cannot be located or written; the next build tries again.
CompileFails(p) ==
    LET j == jobs[Dream]
    IN  /\ BetweenPages
        /\ p \in j.left
        /\ Does(Dream, [j EXCEPT !.left = @ \ {p}])
        /\ UNCHANGED <<file, row, plan, events, gestures, faults>>

repoint_facts(f) ==
    LET j == jobs[Dream]
    IN  /\ j.stage = "repoint"
        /\ f \in j.todo
        /\ move_region(f, j.page, TRUE)
        /\ Does(Dream, [j EXCEPT !.todo = @ \ {f}])
        /\ UNCHANGED <<file, plan, events, gestures, faults>>

\* sweep_orphan_page_files: pages off the plan that no row points at.
ToOrphanFiles ==
    /\ BetweenPages
    /\ jobs[Dream].left = {}
    /\ Does(Dream, [IdleJob EXCEPT !.stage = "files", !.left = PlanPages \ Planned])
    /\ UNCHANGED <<file, row, plan, events, gestures, faults>>

CountRows(p) ==
    LET j == jobs[Dream]
        pointed == \E f \in Facts : row[f].state \in {"active", "superseded"} /\ row[f].page = p
    IN  /\ j.stage = "files" /\ MayStart(Dream)
        /\ p \in j.left
        /\ Does(Dream, IF pointed \/ ~file[p].there
                       THEN [j EXCEPT !.left = @ \ {p}]
                       ELSE [j EXCEPT !.stage = "remove", !.page = p])
        /\ UNCHANGED <<file, row, plan, events, gestures, faults>>

\* No write-in-progress marker guards a removal.
RemoveFile ==
    LET j == jobs[Dream]
    IN  /\ j.stage = "remove"
        /\ file' = [file EXCEPT ![j.page] = NoFile]
        /\ events' = events \cup {j.page}
        /\ Does(Dream, [j EXCEPT !.stage = "files", !.left = @ \ {j.page}, !.page = NoPage])
        /\ UNCHANGED <<row, plan, gestures, faults>>

\* sweep_retired_regions: pages off the plan with a retired row whose offsets
\* were never settled.
Hygiene(left) ==
    IF left = {} THEN plan' = NoPlan /\ Does(Dream, IdleJob)
    ELSE /\ Does(Dream, [IdleJob EXCEPT !.stage = "hygiene", !.left = left])
         /\ UNCHANGED plan

sweep_retired_regions_Husks ==
    /\ jobs[Dream].stage = "files"
    /\ jobs[Dream].left = {}
    /\ Hygiene({p \in PlanPages \ Planned :
                   \E f \in Facts : Retired(f) /\ row[f].at /\ row[f].page = p})
    /\ UNCHANGED <<file, row, events, gestures, faults>>

sweep_retired_regions ==
    /\ jobs[Dream].stage = "files"
    /\ jobs[Dream].left = {}
    /\ Hygiene({p \in Pages \ Planned :
                   \E f \in Facts : Retired(f) /\ row[f].at /\ row[f].page = p})
    /\ UNCHANGED <<file, row, events, gestures, faults>>

\* strip_retired_regions_on_page parses the page anew.
strip_retired_regions_on_page(p) ==
    LET j == jobs[Dream]
        cut == {f \in Marks(file[p].body) : Retired(f)}
    IN  /\ j.stage = "hygiene" /\ MayStart(Dream)
        /\ p \in j.left
        /\ Does(Dream, [j EXCEPT !.stage = IF cut = {} THEN "settleall" ELSE "cutall",
                                 !.page = p, !.disk = file[p], !.todo = cut])
        /\ UNCHANGED <<file, row, plan, events, gestures, faults>>

CutRetired ==
    LET j == jobs[Dream]
    IN  /\ j.stage = "cutall"
        /\ WriteFile(j.page, CutAll(j.disk.body, j.todo))
        /\ Does(Dream, [j EXCEPT !.stage = "read", !.todo = {}, !.after = "settleall"])
        /\ UNCHANGED <<row, plan, faults>>

\* A retired row whose marker is no longer on the page gives up its offsets.
SettleRetired ==
    LET j == jobs[Dream]
    IN  /\ j.stage = "settleall"
        /\ row' = [f \in Facts |->
               IF Retired(f) /\ row[f].page = j.page
               THEN [row[f] EXCEPT !.at = @ /\ f \in Written(file[j.page].body)]
               ELSE row[f]]
        /\ Hygiene(j.left \ {j.page})
        /\ UNCHANGED <<file, events, gestures, faults>>

---------------------------------------------------------------------------
(* Edits by hand, and restarts.                                            *)

ByHand(p, c, gone) ==
    /\ faults < MaxFaults
    /\ faults' = faults + 1
    /\ file' = [file EXCEPT ![p] = c]
    /\ events' = events \cup {p}
    /\ gestures' = gestures \cup {<<p, f>> : f \in gone}
    /\ UNCHANGED <<row, plan, jobs>>

HandCut(p, i) ==
    /\ file[p].body[i].closed
    /\ ByHand(p, File(RemoveAt(file[p].body, i)), {file[p].body[i].fact})

HandDelete(p) == file[p].there /\ ByHand(p, NoFile, Written(file[p].body))

\* A program that is still writing leaves a region open, and closes it later.
HandTear(p, i) ==
    /\ Tears
    /\ file[p].body[i].closed
    /\ ByHand(p, File([file[p].body EXCEPT ![i].closed = FALSE]), {})

HandMend(p) ==
    LET b == file[p].body
    IN  /\ \E i \in DOMAIN b : ~b[i].closed
        /\ file' = [file EXCEPT ![p] = File([i \in DOMAIN b |-> Whole(b[i].fact)])]
        /\ events' = events \cup {p}
        /\ UNCHANGED <<row, plan, jobs, gestures, faults>>

\* The process dies: the queue of the watcher and every job go with it.
Crash ==
    /\ faults < MaxFaults
    /\ faults' = faults + 1
    /\ jobs' = [a \in Actors |-> IdleJob]
    /\ events' = {}
    /\ plan' = NoPlan
    /\ UNCHANGED <<file, row, gestures>>

---------------------------------------------------------------------------
Reindex(a) ==
    \/ ReadPage(a) \/ ReadRows(a) \/ ReindexDone(a)
    \/ \E f \in Facts : RepairMarker(a, f) \/ SweepOrphan(a, f)

TurnStep(t) ==
    \/ InsertRow(t) \/ WriteRegion(t) \/ WriteRegionFails(t) \/ StampRegion(t)
    \/ mark_superseded(t) \/ strip_fact_region(t) \/ cut_region(t) \/ Settle(t)
    \/ Reindex(t)

DreamStep ==
    \/ BuildPlan \/ ToOrphanFiles \/ RemoveFile
    \/ sweep_retired_regions \/ CutRetired \/ SettleRetired
    \/ \E f \in Facts : prepoint_plan_moves(f) \/ repoint_facts(f)
    \/ \E p \in Pages : compile_page(p) \/ CountRows(p) \/ strip_retired_regions_on_page(p)
    \/ Reindex(Dream)

WatcherStep == Reindex(Watcher) \/ \E p \in Pages : HandleEvent(p)

Call(t) ==
    \E f \in Facts :
        \/ \E p \in Pages, old \in Facts \cup {NoFact} : wiki_capture(t, f, p, old)
        \/ wiki_forget(t, f)

ByPerson ==
    \E p \in Pages :
        \/ HandDelete(p) \/ HandMend(p)
        \/ \E i \in DOMAIN file[p].body : HandCut(p, i) \/ HandTear(p, i)

Next ==
    \/ \E t \in Turns : Call(t) \/ TurnStep(t)
    \/ DreamStep \/ WatcherStep
    \/ \E p \in PlanPages : CompileFails(p)
    \/ \E f \in Facts : ForgetByProposal(f)
    \/ ByPerson
    \/ Crash

Spec == Init /\ [][Next]_vars

\* Calls in flight and the watcher run on, rounds come round, and no page
\* fails to be written for ever.
Fairness ==
    /\ \A t \in Turns : WF_vars(TurnStep(t))
    /\ WF_vars(WatcherStep)
    /\ WF_vars(DreamStep)
    /\ \A p \in PlanPages : SF_vars(compile_page(p))

FairSpec == Spec /\ Fairness

---------------------------------------------------------------------------
(* Properties.                                                             *)

\* Type correctness: a row is in one of the states of fact_index and a job in
\* one of its stages.
TypeOK ==
    /\ file \in [Pages -> Files]
    /\ row \in [Facts -> Rows]
    /\ plan \in [Facts -> PlanPages \cup {NoPage}]
    /\ events \in SUBSET Pages
    /\ jobs \in [Actors -> Jobs]
    /\ gestures \in SUBSET (Pages \X Facts)
    /\ faults \in 0..MaxFaults

\* The watcher forgets only what a person took off a page: a region the
\* engine moved, has not written yet or wrote elsewhere is never taken for a
\* wish to forget, whatever is seen late and wherever the process dies.
OnlyGesturesForget == \A f \in Facts : row[f].state = "swept" => \E p \in Pages : <<p, f>> \in gestures

\* A fact that is gone leaves the page its row says it is rendered on: what its
\* own cut missed (a crash, a stale offset, a retirement that has no tree at
\* hand, a round under way) some later round takes off.
RetiredLeavesThePage ==
    \A f \in Facts, p \in Pages :
        (Retired(f) /\ row[f].at /\ row[f].page = p) ~> f \notin Marks(file[p].body)
=============================================================================
