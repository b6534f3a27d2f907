# Northbeam: TLA+ models, checks and proofs

Northbeam is a CRM: an API server (`apps/api`, tRPC over Postgres with row security), worker processes on
BullMQ queues in Redis, and a web client. This directory holds TLA+ models of the parts of it that are hard to
test, the TLC configurations that check them on small instances, and TLAPS proofs of what matters most for
instances of any size. Everything is translated from the TypeScript sources; `PROJECT.json` maps each
definition to the lines it stands for.

## 1. Inventory

### Components with state worth modelling

| Component | State | Operations | What makes it correct |
|---|---|---|---|
| Flow run execution (`automation/engine.ts`, `queries/flow-runs.ts`, `queue/flows.ts`, `workers/flow-worker.ts`) | `flow_run` rows, the `flow-runs` queue with delayed resume jobs, in-flight job slots | dispatch, claim, drive, park, arm, finish; the sweeper's three scans; operators' cancel, resume and remove | one executor per run, no effect twice or out of order, a completed run ran everything, terminal statuses are final, nothing queued or waiting is forgotten |
| Flow graphs and walker (`core/flow.ts`, `automation/walker.ts`, the loop of `engine.ts`) | the graph of a version; loop frames, step counters | `validateFlowGraph`; `advance` for each kind of node; park and resume | what validation accepts the walker can walk: no missing exit, frames enclose the node, limits hold across parks |
| Scheduled flows (`automation/schedules.ts`, `trpc/routers/automation.ts`) | `flow` rows; job schedulers and `once` jobs in Redis | activate, pause, remove and their hooks; hourly reconcile; fires | schedulers settle on what the rows say; a `once` instant creates its runs once per delivery |
| Salesforce write-back (`workers/sf-sync-worker.ts`, `queries/sf-sync.ts`, `salesforce/capture.ts`, `salesforce/sync.ts`) | the record, its `sf_sync_outbox` row, its keyed job, the Salesforce record | edit and capture, enqueue, push, link, clear; poll apply | no edited key is forgotten, both sides agree at rest, no needless duplicates |
| Salesforce poll (same worker, `dynamic/bulk.ts`, `salesforce/import.ts`) | `sf_sync_cursor`, local records, what a poll holds | first tick, probe, match, fetch, apply, ask for the backfill, move the cursor; imports | nothing at or before the cursor is behind but what ties hide; nothing goes backwards; every other change arrives |
| Record writes and roll-ups (`trpc/routers/record.ts`, `compute/recompute.ts`, `dynamic/records.ts`) | rows of three related objects, open transactions, row locks | create, update, move, remove, recompute | roll-ups are what their children add up to; what is written is captured with it |
| Computed-field order (`topoOrder`) | marks, stack, result | visit, skip, throw, leave | a topological order exactly when there is no cycle |
| Import runs (`salesforce/import.ts`, `workers/sf-import-worker.ts`, `queue/sf-import.ts`) | `migration_run.status`, its job, rows and reference columns, what each executor holds | execute, deliver, load each object, resolve references, finish or fail; the crawl of a scoped run, round by round | a completed run has every row and reference; one executor; a started run ends; a scoped run takes the subtree and nothing else |
| Roles, members and the grant cache (`trpc/permissions.ts`, `routers/role.ts`, `routers/org.ts`) | role rows, members' role keys, the process's cache, requests in flight | resolve a role through the cache; create, update, delete a role; assign, transfer | each part of a grant is as fresh as the cache promises; an assigned role exists; an owner remains |
| AI chat (`lib/use-ai-chat.ts`, `ai-chat.tsx`, `routers/ai.ts`, `ai/tools.ts`, `ai/chat-loop.ts`) | the page's thread and dashboard, the stream of a turn, `ai_session` rows, cached copies | open, load, send, stop, follow the stream; tools and their approval, composing, saving | the page shows what is stored; a saved turn loses nothing; a turn ends |
| Compute backfill (`queue/compute.ts`, `workers/compute-worker.ts`, `recomputeObjectPage`) | the keyed job, the worker's page and offset, the records | ask, start, list a page, write it, fail, evict; users' and loads' writes in between | every record ends up computed; deleted records stay deleted |

### The rest

The other parts are listed in `PROJECT.json` with their files and why no module models them (section 8 has the
summary): event dispatch, executors, webhooks, authoring, Salesforce mapping, client and OAuth, the audit
log, record access control, objects and fields, configuration rows, formula language, query compiler, views,
comments, authentication, the session part of the tRPC kernel, workers' lifecycle, rate limiting, e-mail, migrations, seeds, the web client, placeholder packages, infrastructure.

### How components interact

A tRPC procedure runs in one READ COMMITTED transaction with the organisation's id set for row security
(`withOrgContext`); *hooks* pushed by the procedure run after the commit, once, and their failure is only
logged (`trpc/trpc.ts:121-133`). Almost every hazard lives on that seam:

- a record write (RecordWrites) captures an outbox row in the same transaction and leaves the enqueue of the
  write-back to a hook (SfWriteback); it may also insert queued `flow_run` rows whose enqueue is a hook
  (FlowRuns, `Dispatch`);
- activating a flow leaves the schedulers to a hook and to the hourly reconciler (FlowSchedules); a fire
  inserts queued runs (FlowRuns);
- polls and imports write records past the per-record pipeline and ask for a backfill (SfPoll,
  ComputeBackfill); a backfill evaluates fields in the order ComputeOrder computes;
- every procedure is let in by a grant (OrgRoles) that was resolved before its transaction began, from a
  cache that edits of roles invalidate *before* they commit;
- a scoped import asks first which records belong to it (SfCrawl) and then imports them (SfImport); an import
  and the write-back meet at the unique Salesforce id of a record (`ImportTwin` in SfWriteback);
- the chat page and the server share a stream and a row: the server saves a turn from what the request
  brought, not from what is stored (AiChat);
- the engine drives a run through the walker (FlowRuns takes a graph to be the sequence of nodes visited;
  FlowWalk shows what sequences a graph has).

### Which behaviours are hard

Delivered-again and late jobs; the gap between a commit and its hook; workers that die between two
transactions; lists read before they are used (sweeper, reconciler, pages, polls); transactions that do not
see each other; streams whose reader has gone while the writer goes on; copies (grants, chat threads) that are
used after what they were read from has changed; limits and pages at their edge; deduplication by job id, which ignores a request while a
finished job is still kept. Section 9 names each hazard's place and the properties aimed at it (`hazards` in
`PROJECT.json`).

## 2. Plan

Modules, in the order they were or will be written. `MC*` modules bind constants for TLC; four of them
(`MCFlowRunsPoll`, `MCFlowWalkSchedules`, `MCWritesCrawl`, `MCChatOrder`) put two specifications that share no
state into one run: a variable `part` says, from the first state on, of which of the two a behaviour is, and the
other one stands still.

| # | Module | Composes / refines | State |
|---|---|---|---|
| 1 | `FlowRuns` | implements `FlowRunLifecycle` | modelled, checked, 11 theorems |
| 2 | `FlowGraph`, `FlowWalk` | `FlowWalk` extends `FlowGraph` | modelled, checked, proved |
| 3 | `FlowSchedules` | | modelled, checked, safety proved |
| 4 | `SfWriteback`, `SfPoll` | two halves of one worker | modelled, checked, proved |
| 5 | `ComputeOrder` | | modelled, checked, proved |
| 6 | `RecordWrites` | | modelled, checked, proved |
| 7 | `ComputeBackfill` | | modelled, checked, proved |
| 8 | `OrgRoles` | roles, members and the grant cache in one module: they meet in a request | modelled, checked, proved |
| 9 | `SfCrawl`, `SfImport` | the first chooses the ids the second is given | modelled, checked, proved |
| 10 | `AiChat` | | modelled, checked, safety proved |
| 11 | `FlowDispatch` | depth cap and parent links of runs that write records; composes with `FlowRuns` | planned, not written |
| 12 | `AuditLog` | errors swallowed inside a transaction | planned, not written |

Every modelled component has theorems, in the `*_proofs` module of its name or, where two specifications share
one, in `FlowWalkSchedules_proofs`, `SfInbound_proofs` (`SfPoll` and `SfCrawl`), `ComputedFields_proofs`
(`ComputeOrder` and `ComputeBackfill`) and `SyncedCopies_proofs` (`SfWriteback` and `AiChat`, which both keep a
copy of what is stored elsewhere). Those modules extend both specifications, so `FlowSchedules`, `SfCrawl`,
`SfPoll`, `ComputeOrder` and `AiChat` give their `Init`, `Next` and `Spec` names of their own (`ScheduleSpec`,
`CrawlSpec`, `PollSpec`, `VisitSpec`, `ChatSpec`).

## 3. The modules and the code

**FlowRuns.** One action is one database transaction or one queue call. `status`, `token`, `cursor` are
columns of `flow_run`; `ready` counts the queue's jobs by run and resume token (0 for a job without one),
`timer` holds delayed resume jobs, `job` is what each in-flight slot is doing, `dead` the sweeper's list of
stale runs between reading it and failing its rows. `Dispatch` is the producer's commit and its enqueue, which
may be lost; `TakeJob` reads the running cap; `Claim` is `claimRun`'s conditional UPDATE; `Load`, `ExecAct`,
`ExecWait`, `EmitStep` are one turn of `drive`; `Finish`, `Park`, `Arm` the last writes of `runFlow`; `Sweep...`
the scans of `sweep`. Time is the set `elapsed` of runs whose threshold has passed. `Script` is the sequence of
nodes the walker visits. A job that finds the cap reached goes back to the queue. A list the sweeper reads and
enqueues for is one action per row, because a job put in the queue when its row is read may lie there until
any later time; the list of stale runs, whose rows are *written* later, is kept apart. `effects` and `parks`
are history, `parks` also makes tokens fresh (a random UUID in the code). `asked` is what the process asked
`createDb` for before the sweeper did, and `Visible` the runs the sweeper can therefore read: `"app"` is the
worker process as `workers/index.ts` starts it, whose sweeper reads none (section 7), `"none"` one that holds the
admin connection. The sweeper is the only reader of `Visible`, so every behaviour with `"app"` is also one with
`"none"` as far as safety goes.

**FlowRunLifecycle.** What the engine promises: a run is created once, alternates between running and waiting,
performs each acting node at most once, in order, while running, completes only after all of them and closes
once. `FlowRuns` maps `status` to `phase` and `effects` to `ran`.

**FlowGraph, FlowWalk.** `Valid` is `validateFlowGraph` conjunct by conjunct (loop bodies by reachability from
the item handle, back-edges, acyclicity without them, nesting depth). The walker's `advance` is one action per
kind of node and outcome; `frames` is `loopFrames`, `steps` the budget counter, `column` the row's
`step_count`, which reseeds the budget on resume. Node configuration, conditions and collections are arbitrary
answers.

**FlowSchedules.** Rows, post-commit hooks (which keep the row they saw), schedulers, `once` jobs (their id
deduplicates while the job is kept), due fires and the reconciler's snapshot. The reconciler reads, syncs row
by row, lists the schedulers, prunes one by one. `asked` is as in FlowRuns: with `"app"` the snapshot
(`ReadFlows`) is empty. The fan-out of a fire over records is one event, cron
arithmetic is left out, `getJobSchedulers` is taken to list all (the code reads the first thousand).

**SfWriteback.** One record. Values carry who wrote them. `Touch` is `markDirtyForSync`, `Untouched` the
`updated_at` comparison of `clearOutboxRow`, where `exact` says whether a stamp made by Postgres `now()` has no
microseconds (the client reads milliseconds); two edits are taken to have stamps of different milliseconds.
`overlap` chooses, once, whether updates of the record may run at the same time: with it `record.update` is a
read and a later write of all of it. `Fails` is a call that throws, applied or not, and the job's retry.
A field of `Refs` whose target has no Salesforce id yet is left out of a push, and the push then clears its
key: `dropped` remembers that. `ImportTwin` is an import that inserts the record the POST has just created,
under its new id; storing the link then violates the unique index, the job throws and its retry creates
another record (`twins` counts them). `PollApply` is `applyInbound`: it leaves a reference whose target is not here as
it was, and `skipped` holds the fields the latest poll left different from what it read. A record can be edited in
Salesforce from the POST on; a poll that finds its new id not stored yet passes it (`PollPass`), and all of the
change is `skipped`. The per-organisation toggle is on and the record is never deleted.

**SfPoll.** One object. A record's value is the number of changes it has had in Salesforce. The probe, the
match, each fetched chunk and each applied record are actions of their own. The request for the backfill is
taken to be accepted; `ComputeBackfill` has the case where it is not. `PollCrash` is the caught error or the dead
worker: the next tick starts over from the cursor. A change takes the newest stamp or a later one, so stamps tie;
`passed` holds the records whose latest change a probe or the cursor had reached without seeing it, `reverted`
those into which another poll put an older value.

**RecordWrites.** Three objects: leaves, middles that roll them up, roots that roll up the roll-ups. A request
is a transaction of statements that see what is committed and their own writes; `own` are the rows it has
written and locks. A roll-up's value is the set of child values it was computed from, so no sum can be right
by accident. `Throw` is a failing recompute: tRPC's `next()` returns the error instead of throwing it, so
`withOrgContext`'s callback returns and the transaction commits what was written. That reading of tRPC, row
locks, commits and deadlock victims are external. `serial` records whether requests overlapped.

**ComputeOrder.** `topoOrder`'s recursion as a stack of open visits; the loops over fields and references come
in any order; `Init` takes every reference graph.

**ComputeBackfill.** One object. `Add` is `queue.add` with a fixed job id. `Start` reads the definitions,
`ListPage` a page (newest first, LIMIT and OFFSET, ties in any order), `WritePage` writes it back. A record's
computed fields are the pair of the definition and the data they came from. Loaded records may share a
`created_at` (a batch has one `now()`), a user's new one is the newest. Ids are not used again. `shifted` holds the
records a deletion left without their tie, or moved up past the place the worker has reached.

**SfCrawl.** One action is one query of a round: the children of the frontier through one lookup, or the parents
of the frontier's records of one object. `lookup` is Salesforce while it is crawled, `Attributed` the choice of
an object for an id (by its prefix if `globalDescribe` answered, else the lookup's target), `cut` whether
something was left out silently: a failed query, a full object.

**SfImport.** One run, its job and the workers. `Execute` is the procedure's conditional update and
`enqueueImport` (which drops a job whose id is kept); `Deliver`, `Client`, `Start`, `Load` (one batch), `Resolve`
(one batch), the request for the backfill and the last update are the transactions of `executeRun`; `Throw` and
the catch block close a failed run; `Crash`, `Stall` and `Redelivered` are BullMQ's and the process's part.
Definitions, owners and record types are written by statements that repeat harmlessly and are left out.

**OrgRoles.** A role has two parts that are stored and read apart: its row (of which the org actions are kept) and
its overrides for objects. A request resolves its member's role key: `Hit` serves a cache entry younger than `TTL`;
a miss is `ReadRow` and `ReadOverrides`, two statements that each see what is committed by then, and `Store`. Its procedure is one READ COMMITTED transaction
whose statements are actions (`Start...` the checks, `Write`, `Commit`, for a transfer one update each). Edits invalidate when they
write, before they commit, as the code does; whatever goes by the id of a role that is deleted meanwhile finds
nothing (`gone`). Time is kept as ages: `since` says how long ago each part of a grant was last that of a role.

**AiChat.** One user, one mounted page. A turn's record holds both ends of its stream: `open` the client's loop,
`live` the server's generator, `wire` the events between them. `Open` mounts a page (and leaves the old one's
request running), `Query` and `QueryAnswered` are `sessionGet`, which hydrates once; `Send`, `Cancel`, `Receive`,
`Close` and `Catch` are the parts of `send`; `AutoTool`, `AskTool`, `Answer`, `Timeout`, `Compose`, `LoopReturns` and
`LoopThrows` the server's loop; `Persist` the save and `chat-done`; `Sever` and `Break` a generator nobody pulls
any more. Entries of a thread are pairs of turn and kind. `settled` and `loose` are history: the first says the
page shows a stored or loaded copy, the second that one of the named reasons may have put it behind.

## 4. Runs

All runs finish in less than four minutes with two workers. Deadlock is not checked where the bounds, or
operators who stop, let a system come to rest (every cfg with `CHECK_DEADLOCK FALSE`). Three runs check what a
comment of the code claims and are expected to find it violated.

| Run | Instance | Question and answer |
|---|---|---|
| `flowruns_runs` | 1 run, 2 slots, act-anchor-act, 2 parks, 1 copied job, 1 crash, slow nodes | Do redelivery, parks, operators and a sweeper that may fail a run under its worker ever give a run two executors, an effect twice, an early wake-up by an older token job? Does the engine implement the lifecycle? No; yes. |
| `flowrunspoll_ends` | 1 run, 1 park, a sweeper that reads the rows and one that reads none, fair; apart from it, 3 records, pages of 2, chunks of 1, any 4 of 3 changes, 1 import and 1 crash, fair | Does every run end? Yes, except one whose enqueue was lost or whose worker died when the sweeper reads nothing. Does a value go backwards, does the cursor pass a change, does every change arrive? No; only changes tied with a probe's last stamp; every other one. |
| `flowruns_rls` | the same run in the worker process as it is started | Are lost enqueues recovered, as `dispatch.ts:5` says? **Violated.** |
| `flowwalkschedules_parts` | every valid graph of a family of 7 nodes, nesting 2, budget 26; apart from it, 1 flow, 2 patterns, 2 instants, 3 requests, 1 lost hook, 1 crash, both kinds of process, fair | Can a walk of a valid graph meet a missing exit, frames that do not enclose it, the nesting cap, or outrun its budget? No; and structured graphs never re-enter a loop. Do the schedulers settle on what the reconciler reads, does a `once` instant fire once per delivery? Yes. |
| `flowschedules_rls` | 1 flow, 2 requests, no fault, the worker process as it is started | Do the schedulers settle on the rows, as `schedules.ts:97-98` says? **Violated.** |
| `sfwriteback_sync` | 2 fields, one a reference, any 3 of 2 edits, 1 Salesforce edit, 1 failure, 1 import | Is an edited key ever missing from the outbox, are duplicates only due to failures and imports, do both sides agree at rest? No, yes, yes without overlap, on the fields no push or poll left out. |
| `sfpoll_ties` | 3 records, pages of 2, 3 changes, no import, no crash | Is everything up to the cursor applied, as `schema.ts:816` says? **Violated.** |
| `writescrawl_parts` | 2+2+1 rows, 2 requests, 3 writes, 1 throw; apart from it, 1,296 graphs of lookups over 5 records, cap 2, 3 rounds | Are roll-ups right after requests in sequence, does each request count its own write whatever overlaps, is everything captured? Yes. Does a scoped run take more than the subtree and what it points at, or less when nothing was cut? No, no. |
| `computebackfill_pages` | 3 records, pages of 2, 3 instants, one load, save, write, deletion, failure | Does a backfill rewrite every record? All but those tied or moved by a deletion. Are all computed at rest (one load, no tie or deletion), do deleted ones stay deleted? Yes. |
| `orgroles_grants` | 2 members, 1 custom role, 2 requests, 2 edits, with and without overrides, time to live 2, resolution 1 | Is a part of a grant ever older than the time to live and a resolution, a cache entry stale without a race, a member's role missing, the last owner lost by a transfer? No, no, only when an assignment and a deletion cross, only when transfers cross. |
| `sfimport_runs` | 2 objects that point at each other, 3 records, 2 lookup graphs, 2 workers, 2 executions, 1 fault, 1 edit, fair | Is a completed run whole, are two executors only due to a stalled lock, does a started run end? Yes, yes, yes unless the write of `failed` fails too. |
| `chatorder_parts` | 2 messages after a stored chat, 2 visits, 1 tool call a turn, 1 fault, fair; apart from it, every reference graph over 3 fields, fair | Does the page show what is stored, does a saved turn lose earlier ones, does a turn ever hang? Yes and no unless the page was behind for a named reason; no. Is the order of fields a topological one exactly when there is one? Yes. |

Two properties of `FlowRuns` are proved and not listed by the run, because `ImplementsLifecycle` has them as
consequences: `TerminalIsFinal` and, apart from runs nobody performs anything for, `DriverOwnsRow`.

**Why the bounds are enough.** A run's jobs only meet through its row, so one run and two slots show every race
for it (the proofs cover any number of runs, slots, parks and crashes); the second of two parks meets the delayed
and redelivered jobs of the first. Three loops are the fewest that nest beyond the cap of 2 *and* follow one another,
and a budget of 26 is longer than any structured walk of the family and shorter than looping ones. Three
requests of one flow can overtake each other in every order. Three records in pages of two give a full and a
short page; a page of the probe that is full and not, and full ones that end among equal stamps. Four events of
a poll are two changes before its probe and two of anything after it. Three writes are one to set up and two to
overlap. Three fields give every shape of cycle a depth-first visit distinguishes: self, mutual, through a finished field. Two
requests are the fewest that cross, two edits the fewest that one resolution can fall between, and a time to live
of 2 with a resolution of 1 distinguishes a stale entry, an expired one and one stored late. A hub that is both
below and above a root needs five records. Two objects that point at each other make forward and backward
references; a limit of one makes one of them full. One stored chat and two messages over two visits give a
page opened from an old copy, a message sent before its copy is there, and two turns at once.

In two runs a constraint keeps the number of events (edits, changes, imports, failures) below the sum of their
bounds: any of them, in any order, but not all. Events are never owed, so liveness is not weakened by it.

**Limits are smaller in the models** (`maxSteps` 500, `maxLoopIterations` 200, pages of 200, probes of 500, batches of 500 and
threads of 40 entries in the code; `maxLoopNesting` is 2 in both): the properties compare counters with the
limit, not with its size. None says that a walk fits into its budget: 200 items of three nodes exceed 500 steps, and the run then fails by design.

## 5. Fairness

- *FlowRuns.* Weak fairness of a worker's next step, of the clock, of delayed jobs and of each scan of the
  sweeper, a repeatable job. Strong fairness of taking a particular job: BullMQ is first in, first out, so a
  job is not passed over for ever although slots and the cap are busy in between. Crashes and users owe nothing.
- *FlowSchedules.* The reconciler runs at boot and every hour (`registerMaintenance`); a hook runs or is lost.
- *SfPoll.* Each poll is a repeatable job, and one that started runs on unless it crashes.
- *ComputeOrder.* A synchronous function takes its next step.
- *SfImport.* A worker that has a job goes on, and BullMQ delivers a waiting job to some free worker. Crashes,
  stalls and whoever executes runs again owe nothing.
- *AiChat.* The server's loop goes on (a turn has a bounded number of steps, and calls of the model end), the
  timer of a parked tool call fires, and the client reads what arrives. Nobody need answer a call, and nobody
  need load, open or send anything.

The other specifications are checked for safety only. No fairness is assumed of users, Salesforce or failures.

## 6. Proofs

The theorems hold for every value of the constants that satisfies the named `ASSUME`s (finite sets where
cardinalities are taken, natural bounds, a script of known kinds of node, each object planned once).

**FlowRuns.** `SingleDriver` and `AtMostOnce` are not inductive: that a claim finds no other driver follows
from what a driver's row says. `IInv` adds `JobInv` (a slot that drives has a row that says running, failed or
gone, so nobody can claim it, and knows which acting nodes are committed: `Ran(r, n)` is "exactly those before
position n, once") and `RowInv` (a queued run has committed none, a waiting one those before its cursor, a
completed one all). Each action has one lemma; `QueueStep`, `StatusStep`, `SlotStep` and `DriveStep` say once
what a step of each shape leaves alone. From `IInv`: `TypeCorrect`, `OneExecutor`, `EffectsAtMostOnce`,
`EffectsOrdered`, `CompletedIsComplete`. `TerminalStatusFinal` is an action property over the type invariant.
All hold with slow nodes: the sweeper may fail a run under its worker and none of these breaks.
`RunningIsBounded` bounds how far the per-organisation cap is overshot; its invariant counts a slot that has
passed the check and not claimed yet as if its run were running. `TokensAreDue` proves the early wake-up
impossible for any number of parks: tokens are fresh, so a job of the token a row holds was put in the queue by
the park that stored it, by the clock or by an operator, and redelivery copies only what was delivered.

`EngineImplementsLifecycle`: every step is a step of `FlowRunLifecycle` or a stutter, under the mapping that reads
phase and effects as they are, with slow nodes and without. The lifecycle therefore allows what the sweeper does to
a live worker: an effect committed after its run was failed (`Perform`). What `Ran` from `JobInv` says of the
worker's position, and not its row's status, makes the effects come once and in order.

`DriverKeepsRow` alone holds only when no live worker is slower than the sweeper's threshold (`~SlowNodes`, stated as
its assumption). `OwnInv` adds to `IInv` that a driven run's row says running (or is gone with its flow) and that a
stale running run, and any run on the list the sweeper read, is an `Orphan`: nobody drives it, and nobody can claim
it before its row is failed, since only queued and waiting rows are claimable.

**ComputeOrder** (in `ComputedFields_proofs`). `VisitInv` says of open visits that the stack is a path of references (`OpenPath`), that what an
open visit has left and what it has done make up its references (`OpenRest`), that done fields only read done
ones (`DoneClosed`) and belong to no cycle (`NoDoneCycle`). `DependenciesComeFirst`, `ThrowsExactlyOnCycles` and
`EachFieldOnce` follow for any finite set of fields.

**OrgRoles.** `RolesInv` says that an assignment in progress has read a role that only a crossing deletion takes
away, and a deletion has counted members that only a crossing assignment adds to; `RolesExist` follows.
`CacheInv` says that an entry that has raced no edit, in the cache or on its way into it, is its role's grant,
and that no edit of the role is about to commit; of two edits of one role either the row lock excludes one, or
they change different parts of it. `CacheStaleOnlyByRace` follows. `GrantsStayRecent` is about each part of a grant:
the two are read by two statements, and together they may be a grant the role never had. The history must first be
shown to follow the rows (`SinceInv`: the parts a role resolves to now have age 0, which needs `StoredInv`, that what
rows hold and open procedures are about to store are values the history counts); then a fill holds parts no older
than the fill runs, and an entry parts no older than its age and a fill (`AgesInv`); a fill whose role is deleted
between its statements finds no overrides, which the role has not had since. `TimeAssumption` has the time to live positive
(`CACHE_TTL_MS`). `OwnersStay` rests on a transfer never being to its caller (`TransferInv`).

**SfCrawl** (in `SfInbound_proofs`). `CrawlStaysInSubtree` is close to inductive: what is crawled came from a
query over the frontier. `CrawlIsComplete` needs what each finished query of a round has found, and that the
queries still to be made will find the rest, for any graph, cap and number of rounds.

**SfPoll** (in `SfInbound_proofs`). `AppliedAreHandedOver`: what has changed and is not with the backfill is
known to a poll that will still ask for it (`Pending`). `PollGoesForward` assumes `OnePoll`: polls
of an organisation do not overlap, which the code does not enforce but which holds while a tick ends within its
interval (two overlapping polls can go backwards, section 7); a poll then holds values at least as new as the local
ones it will replace (`Forward`). `CursorIsSafe` assumes neither that nor distinct stamps: what the cursor has passed
and is not here is in `passed` or `reverted`. Its invariant follows a change through the phases of the poll that may
pass it: probed, to be fetched, held, applied, for each poll and for the cursor (`Covers`), and the last stamp of a
full page leaves nothing older unprobed (`ProbeTakesTheOldest`), only equals.

**FlowWalk** (in `FlowWalkSchedules_proofs`). `NoStructuralError` and `FramesEnclose` need one another: a frame is
only pushed where the nesting depth that the validator counted allows it, and the validator counts exactly
the loops around a node, which are the live ones as long as frames enclose it. That frames enclose the node
rests on `ReachedIsClosed`: repeating a reachability round as often as there are nodes ends in a set closed
under edges, since a round that adds nothing is final and there are not more nodes than that to add. It and the
other inductions are over a set of numbers (`UpTo`: a set of naturals with 0 and with each successor is the
whole interval), not over an operator. `Budget` relates the counter in memory to the row's column in each phase.
`FramesNest` proves `StructuredNeverReenters`, which does not depend on the size of the limits: frames nest as the
bodies do (`Nested`), so a loop met again under an inner one would lie in the inner one's body and contain it.
`DraftAssumption` says that a draft is a finite set of edges between its nodes.

**FlowSchedules** (same module). An instant's job is due only once it is kept and has not fired more often than
workers died after a fire (`CountedAt`); a hook or a reconciler that adds the job again finds it kept.

**RecordWrites.** `NextIsSteps` reduces a step to nine forms, each a request that begins, runs a statement or
ends, and one lemma per form follows for each invariant. `CountsOwnWrite` holds in any interleaving, because a
request writes its row before it recomputes: the leaf it owns no longer changes (`CountsOwned`), so a sum taken
from what it sees counts it as it will be committed (`CountsSummed`). The two theorems about requests that follow
each other rest on `Sole`, that one transaction is open while `serial` holds, so that the table stands still under
it. `CapturesWhatItChanges` then needs that a roll-up is written back with the data it was read with (`Keeps`), and
`SerialRequestsKeepRollups` that a parent is what the request sees its children add up to or is still on the
request's list (`Refreshes`): only a leaf that references a middle, or did, changes what the middle adds up to
(`ContributionsLocal`), and `ToRecomputeIs` puts both on the list. `NoRowIsHeldTwice` is about the row locks and
needs no such condition. `ObjectsAssumption` says that the three objects share no rows.

**ComputeBackfill** (in `ComputedFields_proofs`). `DeletedStays` is about one action: a page that is written late skips rows that are gone.
`NoneIsMissed` is about where a record ranks in newest-first order: one still to be listed ranks no higher than
the worker's offset (`Paged`) unless it is tied or a deletion moved it, an insertion only pushes it down, and a page
that is not full is the end of the list. Ties and deletions are what the theorem names, not what it assumes away.
`RestIsComputed` says of each phase of the job which records may still be uncomputed (`Told`), as long as an
attempt is left (`failures < Attempts`, which the checked instance has as its bound).

**SfImport.** `HeldInv`: a worker that no stall took the job from holds it, so without stalls there is one
executor (`OneExecutorUnlessStalled`). For `CompletedRunsAreWhole` the invariant describes each phase of each
executor: what it has loaded is in the table, the references it has resolved are set, those it has not are
still on its list, and what it changed since is marked for the backfill.

**SfWriteback** (in `SyncedCopies_proofs`). `Owed` says what a worker owes between its transactions: as long as the outbox row is the one it
read (`Same`), the row's keys are those it read, the values it pushes are current, and after the push nothing is
unsent but what it skipped. An edit makes the stamps differ, which is why clearing by stamp is safe.
`NothingForgotten` is `UnsentIsDirty`; `CounterpartsAreCounted` is `CreatedPerFailure`. For `SidesAgreeAtRest` the
invariant (`Agreed`) says what a difference between the two sides must be accounted for by: news the poll has yet to
fetch, a fetched row that is what Salesforce holds, a dirty key, or, once a push is over and the row it read is
still there, a reference the push left out; and, for any poll, the references it could not apply or the record it
did not know (`skipped`).

**AiChat** (in `SyncedCopies_proofs`). `InStep` is about the moment the last event of a turn arrives, and the page
then shows what it has gathered itself: its thread, the prompt, the tools the stream announced. The row holds what
the server gathered. `ChatInv` follows both from the send to that event. `Follows` says that the page's thread is
one whose end was sent, and the prompt, that its dashboard is the one sent until the turn has one of its own, and
that a saved row holds the turn's answer to what was sent; `AnsweredAsSent` is the reason that suffices: the end of
an answered thread is the end of its sent end, answered. `Wired` says that what was announced and what has arrived
add up to the tools run (`EndsReceived` counts them one event at a time), and that `chat-done` comes last; so the page
has them all when it folds. Around these, `Linked` says who still reads a stream, `Written` that no page, request or
event names a row nobody inserted (an id is of the turn that inserts it), `Stowed` and `Bubble` that a
pending bubble is shown at the end of the thread while its turn runs and is neither stored nor sent (`Filtered`).
`PageInStep` is `InStep`. For `NoEntryLost`, which is `TurnsKept`, `Covers` says what a page that is not behind shows of
its row: all of it, if it is short enough to be sent whole and no save is unannounced. The server's steps share one
form (`Serves`), the save is `Persisted`, the three events one form (`Reads`), the ends of the client's loop another
(`Leaves`), pages that come to show a copy a third (`Showing`); there is one lemma for each form and part.
`BoundsAssumption` has at least one turn, the one of the chat stored before. `WithoutPending` is written by
position instead of with `SelectSeq`, whose recursion the provers cannot unfold.

**Only model-checked:** liveness under fairness (`RunsEnd`, `EventuallySettled`, `ChangesArrive`, `Ends`,
`RunEnds`, `TurnsEnd`), which is out of the prover's reach. A `TypeOK` no run lists documents the state, and is part of
an invariant where there is a proof.

## 7. Where the code and its comments disagree

Three disagreements are runs of their own, which find the claim violated:

- `createDb` (`packages/db/src/client.ts:31`) keeps the first client of the process, and the worker process asks
  for the application role first (`workers/index.ts:19`), so the sweeper's and the reconciler's "admin" connection
  (`flow-worker.ts:67`) is that role, from which row security hides every row. A lost enqueue is not recovered
  (`flowruns_rls` against `dispatch.ts:5-6`), and the reconciler, which reads no active flow, prunes every scheduler
  (`flowschedules_rls` against `schedules.ts:97-98`). `RunsEnd` and `EventuallySettled` say what holds all the same,
  in such a process and in one whose admin connection is one.
- The probe asks for stamps *greater* than the cursor and the cursor becomes the page's last stamp
  (`sf-sync-worker.ts:232-235`, `265`), so a page that ends among equal stamps leaves some behind (`sfpoll_ties` against
  `schema.ts:816` and `sf-sync-worker.ts:8-9`). `CursorCovers` says that this is all it leaves.

Another can be reproduced by changing one line of a configuration: two children of one parent written at the same
time each aggregate without the other's row, and the later commit overwrites the earlier roll-up
(`recompute.ts:307`, against `278-281`). With `RollupsExact` added as an invariant of `MCWritesCrawl_parts.cfg`, TLC
finds it violated.

Others met while modelling; the models contain the behaviour, and the properties are stated around it:

| Place | What the code does | What it says |
|---|---|---|
| `queries/flow-runs.ts:64` | a second job without a token claims a waiting run and cuts its wait short | `schema.ts:1132`, `dispatch.ts:6` |
| `engine.ts:299` | the sweeper fails a run whose executor takes over ten minutes; `heartbeatRun` has no caller | `engine.ts:8` |
| `core/flow.ts:744`, `756` | a decision outcome that jumps from an inner body to the outer loop validates; the walker fails the run. A cycle through a `done` edge validates and ends by the step budget | `walker.ts:69-71`, `flow.ts:740` |
| `engine.ts:149` | the budget and the row's step count drift apart by more than one with loops | `engine.ts:18-19` |
| `schedules.ts:113`, `94` | a flow activated after the reconciler's read loses its scheduler until the next hour; a removed `once` job stays and fires | `schedules.ts:97-98`, `56` |
| `queue/flows.ts:33` | a stalled fire is delivered again and creates its runs twice | `queue/flows.ts:31-32` |
| `sf-sync-worker.ts:168`, `329` | a create whose link is lost is repeated; an echo of an older push is applied over a newer edit until the next poll | `salesforce/sync.ts:11-14` |
| `queries/sf-sync.ts:69` | a row stamped by Postgres in microseconds never equals the milliseconds read back, and is pushed again | `queries/sf-sync.ts:60-61` |
| `queue/sf-sync.ts:52`, `queue/compute.ts:43` | a request is dropped while a job of its id is active or kept | `queue/sf-sync.ts:5-7` |
| `trpc/routers/record.ts:352` | overlapping updates write back fields they did not edit | `queries/sf-sync.ts:2` |
| `recompute.ts:229`, `281` | a recompute writes the whole row it read; roll-ups of roll-ups stay stale | `recompute.ts:201`, `281` |
| `trpc/trpc.ts:118` | a procedure that fails after writing commits what it wrote | `queries/sf-sync.ts:12-13` |
| `routers/field.ts:281` | the backfill is asked for before the definition commits | `queue/compute.ts:1-2` |
| `sf-sync-worker.ts:157` | a reference left out of a push because its target has no Salesforce id is cleared with the other keys: it is never pushed, and the next poll of the record reverts it | `salesforce/sync.ts`, "target not linked to SF yet" |
| `sf-sync-worker.ts:168` | an import that inserts the new record between POST and link makes the link fail and the retry create another | `salesforce/sync.ts:11-14` |
| `compute-worker.ts:55`, `recompute.ts:249` | a backfill pages by OFFSET over `created_at`, which whole batches of a load share (`bulk.ts:76`, one `now()`) and from which deletions take places: it passes records over | `filters-sql.ts:222-223` ("total and stable"), `compute-worker.ts:1-2` ("every record") |
| `sf-sync-worker.ts:304`, `312-318` | a poll skips a reference whose target is not here, and every `reference_any`; nothing applies it once the target is there, unless the record changes again | `salesforce/sync.ts:5-6` |
| `sf-sync-worker.ts:240`, `265` | a poll between the POST of a record and the storing of its id does not know the record, and the cursor passes its change | `salesforce/sync.ts:5-6` |
| `sf-sync-worker.ts:224`, `256` | changes between import and first tick are skipped; two overlapping polls of an organisation can go backwards | `salesforce/sync.ts:5-6` |
| `trpc/permissions.ts:85`, `38` | a grant read before an edit commits is cached after the edit invalidated: it is served for the time to live | `role.ts:6`, `permissions.ts:33-34` ("immediately") |
| `trpc/permissions.ts:52`, `57` | a role's row and its overrides are read at two moments: an edit of both, or a deletion, in between gives a grant the role never had, which is cached | `permissions.ts:53-54` ("never silently opens up") |
| `routers/org.ts:230`, `272` | a change of role may demote the last owner; two crossing transfers may leave none unless Better Auth refuses | `roles.ts` ("Exactly one owner") |
| `routers/role.ts:250` | a role deleted while it is being assigned leaves a member with a key that has no row; a role made later with that key gives it its grants | `role.ts:246-253` |
| `import.ts:359`, `routers/salesforce.ts:344` | a run whose `failed` cannot be written, whose worker dies and then has no client, or whose job stalls twice stays `running`: execute answers CONFLICT and nothing sweeps it | `import.ts:63-66` |
| `queue/sf-import.ts:39` | executing again while the finished job is kept (7 or 30 days) is answered ok and dropped | `routers/salesforce.ts:334` |
| `import.ts:294` | executing again leaves data columns of existing rows alone but overwrites their references; an executor that lost its lock can turn `completed` into `failed` | `import.ts:226-289` |
| `ai-chat.tsx:83` | `sessionGet` is never invalidated and hydrates once: a chat reopened from the cache shows the thread of its last load, and the next turn saves that over the stored one. So does a message sent before the thread has loaded | `use-ai-chat.ts:10-13` |
| `use-ai-chat.ts:276` | the catch block of a turn aborted by hydration puts the dashboard of its start over the loaded one, and marks a newer turn's bubble "Canceled." | `use-ai-chat.ts:102` |
| `routers/ai.ts:519`, `use-ai-chat.ts:133` | Stop does not stop the server: a stopped turn may be saved, over its row or, the first of a chat, in a row the page does not know, so that the next message makes a second one; a tool approved after Stop still runs | `use-ai-chat.ts:10-13` |
| `routers/ai.ts:510` | the stored thread is the forty entries the page sent and the new turn: longer chats lose their beginning | `routers/ai.ts:519` (`slice(-200)`) |

## 8. What is not modelled, and why

- *Pure and wide:* Salesforce mappers and transpilers, the formula language, the query compiler, templates and
  conditions. What they compute is data in the models; a checker adds little to unit tests here.
- *One row per request:* picklists, record types, layouts, validation rules, views, comments, notifications,
  authoring of flow versions.
- *Planned:* event dispatch with its depth cap and webhooks, the audit log (section 2).
- *Within imports:* object definitions and DDL, owners, record types, name mirroring, reports and dashboards, and
  records deleted during a run. *Within roles:* members' invitations, the member and viewer seeds, sessions.
  *Within chat:* agents and tool policies, sharing and deleting sessions, the composer drawer, rate limits, the
  repair of artifacts; the content of a model's answer is arbitrary.
- *Access control* in front of record writes decides whether an action happens, not what it does to the state
  of these models.
- *Outside:* Better Auth, BullMQ, Postgres, Salesforce and the mail provider appear as external actions where
  the code relies on them. Most of the code by lines is the web client's components, tables and forms, mappers
  and seeds: it keeps no state that two actors share, and only the chat page, which does, is modelled.
- Within the modelled components: time other than thresholds; the organisations' independence (each model is
  one organisation); deletion and references of synced records; the toggle's cache; cron arithmetic.

## 9. Hazards and the properties aimed at them

| Hazard | Place | Property |
|---|---|---|
| two jobs claim one run | `flow-runs.ts:64` | `SingleDriver`, `AtMostOnce` |
| redelivery of a job that acted | `queue/flows.ts:33` | `AtMostOnce`, `ImplementsLifecycle` |
| sweeper writes from an old list, or under a slow worker | `flow-worker.ts:40`, `111` | `ImplementsLifecycle`, theorem `DriverKeepsRow` |
| death between park and timer, enqueue lost after commit | `engine.ts:369`, `dispatch.ts:181` | `RunsEnd`; `RunsFinish` is violated |
| old timers after a second park | `engine.ts:357` | `TokenJobsAreDue` |
| failure after an effect | `engine.ts:318` | `CompletedRanEverything`, `ImplementsLifecycle` |
| cap read before the claim | `flow-worker.ts:74` | theorem `RunningIsBounded` |
| loop bodies by reachability, nesting counted twice | `flow.ts:744`, `801` | `FramesEnclose`, `StructuredNeverReenters`, `NoStructuralError` |
| last item, empty collection | `walker.ts:125` | `FramesEnclose`, `NoStructuralError` |
| budget across parks | `engine.ts:271` | `TraceWithinBudget` |
| reconciler's old list, hooks out of order or lost | `schedules.ts:113`, `58` | `EventuallySettled` |
| the admin connection is the first client | `client.ts:31` | `RunsFinish`, `EventuallyAligned`, both violated |
| edit during a push | `sf-sync-worker.ts:178` | `UnsentIsDirty` |
| create applied and link lost, or an import in between | `sf-sync-worker.ts:168` | `CreatedPerFailure` |
| reference left out of a push or a poll | `sf-sync-worker.ts:157`, `304` | `UnsentIsDirty`, `AgreeAtRest` |
| poll against local edits | `sf-sync-worker.ts:329` | `AgreeAtRest` |
| crash between apply and cursor | `sf-sync-worker.ts:265` | `CursorCovers`, `ChangesArrive`, `AppliedIsRecomputed` |
| import inserts an old value | `bulk.ts:84` | `NeverBackwards` |
| shared records and cuts in a crawl | `import.ts:403` | `OnlyTheSubtree`, `WholeSubtree` |
| references to what is imported later | `import.ts:291` | `CompletedIsWhole` |
| a stalled job has two executors | `queue/sf-import.ts:39` | `AloneUnlessStalled` |
| a run left running | `import.ts:359` | `RunEnds` |
| concurrent children of a parent, a child that moves | `recompute.ts:307`, `record.ts:362` | `CountsItsOwnWrite`, `SerialRollupsExact` |
| equal stamps at the end of a probe's page | `sf-sync-worker.ts:232` | `CursorCovers`, `ChangesArrive`; `NewestApplied` is violated |
| inserts, deletions and ties between pages | `recompute.ts:249` | `PagesEveryRecord`, `StaysDeleted` |
| grant cached over an edit, or mixed of two moments | `permissions.ts:85`, `57` | `GrantsAreRecent`, `StaleOnlyByRace` |
| role deleted while assigned, crossing transfers | `role.ts:253` | `AssignedRolesExist`, `OwnersRemain` |
| a turn that was given up is saved or ends late | `use-ai-chat.ts:276` | `InStep`, `TurnsKept` |
| a chat opened from an old copy | `ai-chat.tsx:83` | `TurnsKept`, `InStep` |
| a tool call nobody answers | `ai/tools.ts:69` | `TurnsEnd` |

`PROJECT.json` has the full list, with the reason where a property covers a hazard in part or not at all.
