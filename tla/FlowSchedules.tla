--------------------------- MODULE FlowSchedules ---------------------------
(***************************************************************************)
(* Scheduled flows: the flow rows that operators activate and pause, the   *)
(* post-commit hooks that align the queue with them, BullMQ's repeating    *)
(* schedulers and delayed 'once' jobs, the reconciler that repairs what    *)
(* the hooks drop, and the scheduled fires that create queued runs.        *)
(* Transactions and single queue calls are atomic; a hook, the reconciler  *)
(* and a fire are sequences of them.                                       *)
(***************************************************************************)
EXTENDS Naturals, FiniteSets

CONSTANTS
    Flows,
    Patterns,      \* cron patterns of repeating schedules
    Unscheduled,   \* NULL, or a record or webhook trigger
    MaxTime,       \* bound: the last instant of the clock
    Asked,         \* what a worker process asked createDb for before the reconciler
    MaxRequests,   \* bound: activations, pauses and removals
    MaxLost,       \* bound: hooks that fail or die with the process
    MaxCrashes     \* bound: crashes of a worker after a fire committed

ASSUME BoundAssumption ==
    /\ MaxTime \in Nat /\ MaxRequests \in Nat /\ MaxLost \in Nat /\ MaxCrashes \in Nat
ASSUME WireAssumption == Asked \subseteq {"app", "none"}
ASSUME FiniteAssumption == IsFiniteSet(Flows) /\ IsFiniteSet(Patterns)
ASSUME PatternAssumption ==
    /\ \A p \in Patterns : p \notin 0..MaxTime
    /\ Unscheduled \notin Patterns \cup 0..MaxTime

VARIABLES
    status,    \* flow.status, "gone" once deleted
    trigger,   \* flow.activeTrigger: a pattern, an instant, or Unscheduled
    scheduler, \* the pattern of job scheduler flow-schedule:<id>, or Unscheduled
    once,      \* state of job flow-once:<id>:<at>
    due,       \* scheduled-fire jobs ready to be processed, as [flow, cause]
    hooks,     \* post-commit hooks of committed requests, with the row they captured
    recon,     \* the reconciler: pc, the rows it read, what it still has to do
    fires,     \* how often the fire of a 'once' instant created runs
    now, requests, lost, crashes,
    asked      \* what this worker process asked createDb for before the reconciler

rowVars == <<status, trigger>>
queueVars == <<scheduler, once, due>>
scheduleVars == <<rowVars, queueVars, hooks, recon, fires, now, requests, lost, crashes, asked>>

Instants == 0..MaxTime
Triggers == Patterns \cup Instants \cup {Unscheduled}
Row == [flow : Flows, trigger : Triggers]
Jobs == [flow : Flows, cause : Patterns \cup Instants]
ScheduledFlow(f) == status[f] = "active" /\ trigger[f] # Unscheduled

Idle == [pc |-> "idle", keep |-> {}, rows |-> {}, todo |-> {}]

ScheduleInit ==
    /\ status = [f \in Flows |-> "draft"]
    /\ trigger = [f \in Flows |-> Unscheduled]
    /\ scheduler = [f \in Flows |-> Unscheduled]
    /\ once = [j \in Flows \X Instants |-> "absent"]
    /\ due = {}
    /\ hooks = {}
    /\ recon = Idle
    /\ fires = [j \in Flows \X Instants |-> 0]
    /\ now = 0 /\ requests = 0 /\ lost = 0 /\ crashes = 0
    /\ asked \in Asked

-----------------------------------------------------------------------------
(* Requests: one transaction, then the hook, which keeps the row it saw.     *)
Request ==
    /\ requests < MaxRequests
    /\ requests' = requests + 1
    /\ UNCHANGED <<queueVars, recon, fires, now, lost, crashes, asked>>

SetActiveVersion(f, t) ==
    /\ status[f] # "gone"
    /\ status' = [status EXCEPT ![f] = "active"]
    /\ trigger' = [trigger EXCEPT ![f] = t]

Activate(f, t) ==
    /\ Request
    /\ SetActiveVersion(f, t)
    /\ hooks' = hooks \cup {[flow |-> f, trigger |-> t]}

Removal(f) == [flow |-> f, trigger |-> Unscheduled]

Pause(f) ==
    /\ Request
    /\ status[f] = "active"
    /\ status' = [status EXCEPT ![f] = "paused"]
    /\ hooks' = hooks \cup {Removal(f)}
    /\ UNCHANGED trigger

Remove(f) ==
    /\ Request
    /\ status[f] # "gone"
    /\ status' = [status EXCEPT ![f] = "gone"]
    /\ hooks' = hooks \cup {Removal(f)}
    /\ UNCHANGED trigger

-----------------------------------------------------------------------------
(* queue.add with a fixed job id: ignored while a job of that id is kept.    *)
OnceJobFresh(f, at) == [once EXCEPT ![<<f, at>>] = "delayed"]
OnceJob(f, at) == IF once[<<f, at>>] = "absent" THEN OnceJobFresh(f, at) ELSE once

(* syncFlowSchedule of a row; removeFlowSchedule is that of an unscheduled   *)
(* one.                                                                      *)
Sync(f, t) ==
    \/ /\ t \in Patterns
       /\ scheduler' = [scheduler EXCEPT ![f] = t]
       /\ UNCHANGED once
    \/ /\ t \notin Patterns
       /\ scheduler' = [scheduler EXCEPT ![f] = Unscheduled]
       /\ once' = IF t \in Instants /\ t >= now THEN OnceJob(f, t) ELSE once

RunHook(h) ==
    /\ h \in hooks
    /\ hooks' = hooks \ {h}
    /\ Sync(h.flow, h.trigger)
    /\ UNCHANGED <<rowVars, due, recon, fires, now, requests, lost, crashes, asked>>

(* Redis is down or the process dies: logged, never retried.                 *)
LoseHook(h) ==
    /\ h \in hooks /\ lost < MaxLost
    /\ hooks' = hooks \ {h}
    /\ lost' = lost + 1
    /\ UNCHANGED <<rowVars, queueVars, recon, fires, now, requests, crashes, asked>>

-----------------------------------------------------------------------------
(* reconcileFlowSchedules, at boot and every hour: read the active scheduled *)
(* flows, sync each row as it was read, list the schedulers, prune.          *)
ActiveScheduledFlows == {f \in Flows : ScheduledFlow(f)}

(* createDb hands out the first client of the process, whatever URL comes    *)
(* later.  workers/index.ts asks for the app role before it starts a worker: *)
(* asked = "app", whose reads row security empties outside an org context.   *)
(* asked = "none" is a process that holds the admin connection the header of *)
(* schedules.ts requires.                                                    *)
CreateDb(cached, url) == IF cached # "none" THEN cached ELSE url
AdminDb == CreateDb(asked, "admin")
ReadFlows == IF AdminDb = "admin" THEN ActiveScheduledFlows ELSE {}

ReconcileRead ==
    /\ recon.pc = "idle"
    /\ recon' = [pc |-> "sync", keep |-> ReadFlows, todo |-> {},
                 rows |-> {[flow |-> f, trigger |-> trigger[f]] : f \in ReadFlows}]
    /\ UNCHANGED <<rowVars, queueVars, hooks, fires, now, requests, lost, crashes, asked>>

ReconcileSync(row) ==
    /\ recon.pc = "sync" /\ row \in recon.rows
    /\ Sync(row.flow, row.trigger)
    /\ recon' = [recon EXCEPT !.rows = @ \ {row}]
    /\ UNCHANGED <<rowVars, due, hooks, fires, now, requests, lost, crashes, asked>>

PrunableNone(f) == FALSE
Prunable(f) == scheduler[f] # Unscheduled /\ f \notin recon.keep

ReconcileList ==
    /\ recon.pc = "sync" /\ recon.rows = {}
    /\ recon' = [recon EXCEPT !.pc = "prune", !.todo = {f \in Flows : Prunable(f)}]
    /\ UNCHANGED <<rowVars, queueVars, hooks, fires, now, requests, lost, crashes, asked>>

ReconcilePrune(f) ==
    /\ recon.pc = "prune" /\ f \in recon.todo
    /\ scheduler' = [scheduler EXCEPT ![f] = Unscheduled]
    /\ recon' = [recon EXCEPT !.todo = @ \ {f}]
    /\ UNCHANGED <<rowVars, once, due, hooks, fires, now, requests, lost, crashes, asked>>

ReconcileDone ==
    /\ recon.pc = "prune" /\ recon.todo = {}
    /\ recon' = Idle
    /\ UNCHANGED <<rowVars, queueVars, hooks, fires, now, requests, lost, crashes, asked>>

-----------------------------------------------------------------------------
(* BullMQ: a scheduler ticks, a delayed job's instant comes.                 *)
SchedulerTick(f) ==
    /\ scheduler[f] # Unscheduled
    /\ due' = due \cup {[flow |-> f, cause |-> scheduler[f]]}
    /\ due' # due
    /\ UNCHANGED <<rowVars, scheduler, once, hooks, recon, fires, now, requests, lost, crashes, asked>>

InstantCame(at) == now >= at

OnceDue(f, at) ==
    /\ once[<<f, at>>] = "delayed" /\ InstantCame(at)
    /\ once' = [once EXCEPT ![<<f, at>>] = "kept"]
    /\ due' = due \cup {[flow |-> f, cause |-> at]}
    /\ UNCHANGED <<rowVars, scheduler, hooks, recon, fires, now, requests, lost, crashes, asked>>

(* fireScheduledFlow: nothing unless the flow is an active scheduled one.    *)
CreateRuns(j) ==
    fires' = IF ScheduledFlow(j.flow) /\ j.cause \in Instants
             THEN [fires EXCEPT ![<<j.flow, j.cause>>] = @ + 1] ELSE fires

Fire(j) ==
    /\ j \in due
    /\ due' = due \ {j}
    /\ CreateRuns(j)
    /\ UNCHANGED <<rowVars, scheduler, once, hooks, recon, now, requests, lost, crashes, asked>>

(* The worker dies after the commit: the stalled job is delivered again.     *)
FireAndCrash(j) ==
    /\ j \in due /\ crashes < MaxCrashes
    /\ CreateRuns(j)
    /\ crashes' = crashes + 1
    /\ UNCHANGED <<rowVars, queueVars, hooks, recon, now, requests, lost, asked>>

ClockTick ==
    /\ now < MaxTime
    /\ now' = now + 1
    /\ UNCHANGED <<rowVars, queueVars, hooks, recon, fires, requests, lost, crashes, asked>>

Reconcile ==
    \/ ReconcileRead \/ ReconcileList \/ ReconcileDone
    \/ \E row \in Row : ReconcileSync(row)
    \/ \E f \in Flows : ReconcilePrune(f)

ScheduleNext ==
    \/ \E f \in Flows, t \in Triggers : Activate(f, t)
    \/ \E f \in Flows : Pause(f) \/ Remove(f) \/ SchedulerTick(f)
    \/ \E h \in Row : RunHook(h) \/ LoseHook(h)
    \/ Reconcile
    \/ \E f \in Flows, at \in Instants : OnceDue(f, at)
    \/ \E j \in Jobs : Fire(j) \/ FireAndCrash(j)
    \/ ClockTick

ScheduleSpec == ScheduleInit /\ [][ScheduleNext]_scheduleVars

(* Hooks run or are lost, and the hourly reconciler keeps going.             *)
FairSpec == ScheduleSpec /\ WF_scheduleVars(Reconcile) /\ WF_scheduleVars(\E h \in Row : RunHook(h) \/ LoseHook(h))

-----------------------------------------------------------------------------
(* Rows of the reconciler's snapshot are always rows it keeps; nothing fires *)
(* for an instant that has not come.                                         *)
ScheduleTypeOK ==
    /\ status \in [Flows -> {"draft", "active", "paused", "gone"}]
    /\ trigger \in [Flows -> Triggers]
    /\ scheduler \in [Flows -> Patterns \cup {Unscheduled}]
    /\ once \in [Flows \X Instants -> {"absent", "delayed", "kept"}]
    /\ due \subseteq Jobs
    /\ hooks \subseteq Row
    /\ recon.pc \in {"idle", "sync", "prune"}
    /\ recon.keep \subseteq Flows /\ recon.todo \subseteq Flows \ recon.keep
    /\ recon.rows \subseteq [flow : recon.keep, trigger : Triggers]
    /\ \A j \in Flows \X Instants : fires[j] > 0 => j[2] <= now
    /\ now \in Instants /\ requests <= MaxRequests /\ lost <= MaxLost /\ crashes <= MaxCrashes

(* However often the flow is re-activated or reconciled, a 'once' instant    *)
(* creates its runs again only when a worker died after creating them (the   *)
(* job id dedupes, schedules.ts:79).                                         *)
OncePerDelivery == \A j \in Flows \X Instants : fires[j] <= 1 + crashes

(* The schedulers the rows of the flows the reconciler reads call for.       *)
Wanted(f, readable) ==
    IF f \in readable /\ status[f] = "active" /\ trigger[f] \in Patterns THEN trigger[f] ELSE Unscheduled

(* Once operators stop, the schedulers settle, whatever hooks were lost,     *)
(* late, or overtook each other: on what the rows say when the reconciler    *)
(* holds the admin connection, on nothing at all when it does not (it reads  *)
(* no flow and prunes every scheduler, schedules.ts:109-117).                *)
EventuallySettled == <>[](\A f \in Flows : scheduler[f] = Wanted(f, ReadFlows))

(* The claim of schedules.ts:97-98, "upsert every active scheduled flow,     *)
(* prune schedulers whose flow is gone/paused": they settle on the rows.     *)
EventuallyAligned == <>[](\A f \in Flows : scheduler[f] = Wanted(f, Flows))

=============================================================================
