------------------------------ MODULE FlowRuns ------------------------------
(***************************************************************************)
(* The durable half of the automation engine: flow_run rows in Postgres,   *)
(* the flow-runs queue in Redis, the worker slots that execute runs and    *)
(* the sweeper that repairs what they drop.  Every action is one database  *)
(* transaction or one queue call, so that everything that can happen       *)
(* between two of them in the code can happen between two actions here.    *)
(*                                                                         *)
(* Time enters only as `elapsed': the run's current threshold has passed   *)
(* (15 s since createdAt while queued, resumeAt while waiting, 10 minutes  *)
(* since updatedAt while running).  Script stands for the nodes the walker *)
(* visits, in order.                                                       *)
(***************************************************************************)
EXTENDS Naturals, Sequences, FiniteSets

CONSTANTS
    Runs,          \* flow_run ids
    NoRun,         \* the run of an idle worker slot
    Workers,       \* in-flight job slots, over all worker processes
    Script,        \* nodes visited: "act", "pause" (duration, until), "anchor"
    MaxRunning,    \* MAX_RUNNING_PER_ORG
    Asked,         \* what a worker process asked createDb for before the sweeper
    SlowNodes,     \* a live worker can go 10 minutes without a heartbeat
    MaxParks,      \* bound: parks of one run
    MaxJobs,       \* bound: copies of one job the sweeper or a user adds
    MaxCrashes     \* bound: worker crashes

ASSUME ScriptAssumption == Script \in Seq({"act", "pause", "anchor"}) /\ Script # <<>>
ASSUME FiniteAssumption == IsFiniteSet(Runs) /\ IsFiniteSet(Workers) /\ NoRun \notin Runs
ASSUME BoundAssumption ==
    /\ MaxRunning \in Nat \ {0} /\ MaxParks \in Nat /\ MaxJobs \in Nat /\ MaxCrashes \in Nat
ASSUME WireAssumption == Asked \subseteq {"app", "none"} /\ SlowNodes \in BOOLEAN

VARIABLES
    status,   \* flow_run.status, "none" before the insert, "gone" after the cascade
    token,    \* flow_run.resume_token, 0 for NULL
    cursor,   \* context.cursorNodeId, 0 when absent
    elapsed,  \* runs whose current threshold has passed
    effects,  \* how often each node's side effect was committed
    parks,    \* tokens minted so far: makes randomUUID() fresh
    skip,     \* runs an operator asked to wake from their current park
    ready,    \* jobs by run and resume token (0: no token), counted
    timer,    \* delayed 'resume' jobs, as <<run, token>>
    job,      \* what each worker slot is doing
    dead,     \* the sweeper's snapshot of stale running runs
    crashes,
    asked,    \* what this worker process asked createDb for before the sweeper
    lost      \* runs whose enqueue after the commit was lost, and not repeated

dbVars == <<status, token, cursor, elapsed, effects, parks, skip>>
queueVars == <<ready, timer>>
wireVars == <<asked, lost>>
vars == <<dbVars, queueVars, job, dead, crashes, wireVars>>

Nodes == 1..Len(Script)
Tokens == 0..MaxParks
Live == {"queued", "running", "waiting"}
Terminal == {"completed", "failed", "cancelled"}
Driving == {"load", "exec", "emit", "finish", "park"}
Outcomes == {"ok", "park", "end", "fail", "fatal"}

Running == {r \in Runs : status[r] = "running"}
Drives(w, r) == job[w].pc \in Driving /\ job[w].run = r
HasDriver(r) == \E w \in Workers : Drives(w, r)

Idle == [pc |-> "idle", run |-> NoRun, tok |-> 0, at |-> 1, resuming |-> FALSE,
         result |-> "ok", mint |-> 0]
Enqueue(r, t, n) == ready' = [ready EXCEPT ![r][t] = @ + n]

Init ==
    /\ status = [r \in Runs |-> "none"]
    /\ token = [r \in Runs |-> 0]
    /\ cursor = [r \in Runs |-> 0]
    /\ elapsed = {}
    /\ effects = [r \in Runs |-> [i \in Nodes |-> 0]]
    /\ parks = [r \in Runs |-> 0]
    /\ skip = {}
    /\ ready = [r \in Runs |-> [t \in Tokens |-> 0]]
    /\ timer = {}
    /\ job = [w \in Workers |-> Idle]
    /\ dead = {}
    /\ crashes = 0
    /\ asked \in Asked
    /\ lost = {}

-----------------------------------------------------------------------------
(* Producers: record events, webhooks and scheduled fires insert queued rows *)
(* in their transaction; the enqueue follows the commit and can be lost.     *)
Dispatch(r) ==
    /\ status[r] = "none"
    /\ status' = [status EXCEPT ![r] = "queued"]
    /\ \E n \in 0..1 :
          /\ Enqueue(r, 0, n)
          /\ lost' = IF n = 0 THEN lost \cup {r} ELSE lost
    /\ UNCHANGED <<token, cursor, elapsed, effects, parks, skip, timer, job, dead, crashes, asked>>

(* The clock.  A running run goes stale only when nobody beats for it.       *)
Elapse(r) ==
    /\ r \notin elapsed
    /\ status[r] \in Live
    /\ status[r] = "running" => SlowNodes \/ ~HasDriver(r)
    /\ elapsed' = elapsed \cup {r}
    /\ UNCHANGED <<status, token, cursor, effects, parks, skip, queueVars, job, dead, crashes, wireVars>>

(* The resume job of the current park waits for its delay; a stranded job    *)
(* fires when it fires.                                                      *)
DelayOver(r, t) == (status[r] = "waiting" /\ token[r] = t) => r \in elapsed

(* BullMQ promotes a delayed resume job when its delay is over.              *)
TimerFires(r, t) ==
    /\ <<r, t>> \in timer
    /\ DelayOver(r, t)
    /\ timer' = timer \ {<<r, t>>}
    /\ Enqueue(r, t, 1)
    /\ UNCHANGED <<dbVars, job, dead, crashes, wireVars>>

-----------------------------------------------------------------------------
(* handleRun: the per-org cap is read in a transaction of its own.           *)
AtCap == Cardinality(Running) >= MaxRunning

TakeJob(w, r, t) ==
    /\ job[w].pc = "idle"
    /\ ready[r][t] > 0
    /\ ready' = [ready EXCEPT ![r][t] = @ - 1]
    /\ job' = [job EXCEPT ![w] =
                  [@ EXCEPT !.run = r, !.tok = t,
                            !.pc = IF AtCap THEN "redelay" ELSE "claim"]]
    /\ UNCHANGED <<dbVars, timer, dead, crashes, wireVars>>

(* Over the cap the job goes back, token and all, after a delay.             *)
Redelay(w) ==
    /\ job[w].pc = "redelay"
    /\ Enqueue(job[w].run, job[w].tok, 1)
    /\ job' = [job EXCEPT ![w] = Idle]
    /\ UNCHANGED <<dbVars, timer, dead, crashes, wireVars>>

ClaimableLive(r, t) == status[r] \in Live /\ (t = 0 \/ token[r] = t)

(* claimRun's WHERE clause: the only gate between two jobs for one run.      *)
Claimable(r, t) == status[r] \in {"queued", "waiting"} /\ (t = 0 \/ token[r] = t)

Claim(w) ==
    LET r == job[w].run IN
    /\ job[w].pc = "claim"
    /\ Claimable(r, job[w].tok)
    /\ status' = [status EXCEPT ![r] = "running"]
    /\ token' = [token EXCEPT ![r] = 0]
    /\ elapsed' = elapsed \ {r}
    /\ job' = [job EXCEPT ![w].pc = "load"]
    /\ UNCHANGED <<cursor, effects, parks, skip, queueVars, dead, crashes, wireVars>>

ClaimLost(w) ==
    /\ job[w].pc = "claim"
    /\ ~Claimable(job[w].run, job[w].tok)
    /\ job' = [job EXCEPT ![w] = Idle]
    /\ UNCHANGED <<dbVars, queueVars, dead, crashes, wireVars>>

StartAtTrigger(r) == 1
StartAt(r) == IF cursor[r] = 0 THEN 1 ELSE cursor[r]

(* The flow and its version are read after the claim; the start node is the  *)
(* cursor of a parked run, else the trigger.                                 *)
Load(w) ==
    LET r == job[w].run IN
    /\ job[w].pc = "load"
    /\ status[r] # "gone"
    /\ job' = [job EXCEPT ![w] =
                  [@ EXCEPT !.pc = "exec", !.at = StartAt(r), !.resuming = cursor[r] # 0]]
    /\ UNCHANGED <<dbVars, queueVars, dead, crashes, wireVars>>

(* No flow, an unparsable graph, or a throw inside drive (the step insert of *)
(* a deleted run throws): `fatal' records the failure on the row.            *)
Fatal(w) ==
    /\ job[w].pc \in {"load", "exec", "emit"}
    /\ job' = [job EXCEPT ![w] = [@ EXCEPT !.pc = "finish", !.result = "fatal"]]
    /\ UNCHANGED <<dbVars, queueVars, dead, crashes, wireVars>>

ReportsUncommitted(o, committed) == TRUE
Reports(o, committed) == o = "ok" => committed = 1

(* One executor: its own transaction.  An executor can fail after its commit *)
(* (the child enqueue throws) but never succeed without one.                 *)
ExecAct(w) ==
    /\ job[w].pc = "exec"
    /\ Script[job[w].at] = "act"
    /\ \E committed \in 0..1, o \in {"ok", "fail"} :
          /\ Reports(o, committed)
          /\ effects' = [effects EXCEPT ![job[w].run][job[w].at] = @ + committed]
          /\ job' = [job EXCEPT ![w] = [@ EXCEPT !.pc = "emit", !.result = o]]
    /\ UNCHANGED <<status, token, cursor, elapsed, parks, skip, queueVars, dead, crashes, wireVars>>

(* executeWaitArrive and executeWaitResume: what each kind of wait can answer *)
WaitOutcomes(kind, resumed) ==
    CASE kind = "anchor" -> {"ok", "park", "end", "fail"}
      [] kind = "pause" /\ resumed -> {"ok"}
      [] OTHER -> {"ok", "park", "fail"}

ExecWait(w) ==
    /\ job[w].pc = "exec"
    /\ Script[job[w].at] # "act"
    /\ \E o \in WaitOutcomes(Script[job[w].at], job[w].resuming) :
          /\ o = "park" => parks[job[w].run] < MaxParks
          /\ job' = [job EXCEPT ![w] = [@ EXCEPT !.pc = "emit", !.result = o]]
    /\ UNCHANGED <<dbVars, queueVars, dead, crashes, wireVars>>

HasNext(i) == i < Len(Script)

(* insertStep doubles as the heartbeat; then drive moves on or returns.  It  *)
(* does not look at the status of the row.                                   *)
EmitStep(w) ==
    LET j == job[w] IN
    /\ j.pc = "emit"
    /\ status[j.run] # "gone"
    /\ elapsed' = elapsed \ {j.run}
    /\ job' = [job EXCEPT ![w] =
                  IF j.result = "ok" /\ HasNext(j.at)
                  THEN [j EXCEPT !.pc = "exec", !.at = @ + 1, !.resuming = FALSE]
                  ELSE [j EXCEPT !.pc = IF j.result = "park" THEN "park" ELSE "finish"]]
    /\ UNCHANGED <<status, token, cursor, effects, parks, skip, queueVars, dead, crashes, wireVars>>

FinalStatusSwallows(result) == IF result = "end" THEN "cancelled" ELSE "completed"
FinalStatus(result) ==
    CASE result = "ok" -> "completed"
      [] result = "end" -> "cancelled"
      [] OTHER -> "failed"

(* completeRun wants a running row; failRun and cancelRun any live one.      *)
Closable(o) == IF o = "completed" THEN {"running"} ELSE Live

Finish(w) ==
    LET r == job[w].run
        o == FinalStatus(job[w].result)
        written == status[r] \in Closable(o)
    IN
    /\ job[w].pc = "finish"
    /\ status' = [status EXCEPT ![r] = IF written THEN o ELSE @]
    /\ cursor' = [cursor EXCEPT ![r] =
                     IF written /\ job[w].result \in {"ok", "fail"} THEN 0 ELSE @]
    /\ job' = [job EXCEPT ![w] = Idle]
    /\ UNCHANGED <<token, elapsed, effects, parks, skip, queueVars, dead, crashes, wireVars>>

FreshToken(r) == parks[r] + 1

(* parkRun with a fresh token, then, in a separate step, the delayed job.    *)
Park(w) ==
    LET r == job[w].run IN
    /\ job[w].pc = "park"
    /\ status[r] = "running"
    /\ status' = [status EXCEPT ![r] = "waiting"]
    /\ cursor' = [cursor EXCEPT ![r] = job[w].at]
    /\ parks' = [parks EXCEPT ![r] = @ + 1]
    /\ token' = [token EXCEPT ![r] = FreshToken(r)]
    /\ elapsed' = elapsed \ {r}
    /\ skip' = skip \ {r}
    /\ job' = [job EXCEPT ![w] = [@ EXCEPT !.pc = "arm", !.mint = FreshToken(r)]]
    /\ UNCHANGED <<effects, queueVars, dead, crashes, wireVars>>

ParkLost(w) ==
    /\ job[w].pc = "park"
    /\ status[job[w].run] # "running"
    /\ job' = [job EXCEPT ![w] = Idle]
    /\ UNCHANGED <<dbVars, queueVars, dead, crashes, wireVars>>

Arm(w) ==
    /\ job[w].pc = "arm"
    /\ timer' = timer \cup {<<job[w].run, job[w].mint>>}
    /\ job' = [job EXCEPT ![w] = Idle]
    /\ UNCHANGED <<dbVars, ready, dead, crashes, wireVars>>

(* A worker dies in the middle of a job, or its database or Redis call       *)
(* throws; a stalled job is delivered again, a failed one is not.            *)
Crash(w) ==
    /\ job[w].pc # "idle"
    /\ crashes < MaxCrashes
    /\ crashes' = crashes + 1
    /\ \E n \in 0..1 : Enqueue(job[w].run, job[w].tok, n)
    /\ job' = [job EXCEPT ![w] = Idle]
    /\ UNCHANGED <<dbVars, timer, dead, wireVars>>

-----------------------------------------------------------------------------
(* createDb hands out the first client of the process, whatever URL comes    *)
(* later.  workers/index.ts asks for the app role before it starts a worker: *)
(* asked = "app".  Row security hides every row from that role outside an    *)
(* org context.  asked = "none" is a process that holds the admin connection *)
(* the sweeper's header speaks of.                                           *)
CreateDb(cached, url) == IF cached # "none" THEN cached ELSE url
AdminDb == CreateDb(asked, "admin")
Visible == IF AdminDb = "admin" THEN Runs ELSE {}

StaleQueued(r) == r \in Visible /\ status[r] = "queued" /\ r \in elapsed

OverdueWaitingEarly(r) == r \in Visible /\ status[r] = "waiting"
OverdueWaitingUnowned(r) == r \in Visible /\ status[r] = "waiting" /\ token[r] = 0
OverdueWaiting(r) == r \in Visible /\ status[r] = "waiting" /\ r \in elapsed

StaleRunning == {r \in Visible \cap elapsed : status[r] = "running"}

(* A job put in the queue when its row is read may sit there until any later *)
(* time, so reading a row and enqueueing for it are one action.              *)
SweepQueued(r) ==
    /\ StaleQueued(r)
    /\ ready[r][0] < MaxJobs
    /\ Enqueue(r, 0, 1)
    /\ lost' = lost \ {r}
    /\ UNCHANGED <<dbVars, timer, job, dead, crashes, asked>>

SweepOverdue(r) ==
    /\ OverdueWaiting(r)
    /\ ready[r][token[r]] < MaxJobs
    /\ Enqueue(r, token[r], 1)
    /\ UNCHANGED <<dbVars, timer, job, dead, crashes, wireVars>>

(* staleRunningRuns is read once; failRun then runs row by row.              *)
SweepScan ==
    /\ dead = {}
    /\ dead' = StaleRunning
    /\ dead' # {}
    /\ UNCHANGED <<dbVars, queueVars, job, crashes, wireVars>>

SweepFail(r) ==
    /\ r \in dead
    /\ dead' = dead \ {r}
    /\ status' = [status EXCEPT ![r] = IF @ \in Live THEN "failed" ELSE @]
    /\ UNCHANGED <<token, cursor, elapsed, effects, parks, skip, queueVars, job, crashes, wireVars>>

-----------------------------------------------------------------------------
(* Operators: runs.cancel, runs.resume, and removing the run's flow.         *)
Cancellable == {"queued", "waiting"}

UserCancel(r) ==
    /\ status[r] \in Cancellable
    /\ status' = [status EXCEPT ![r] = "cancelled"]
    /\ UNCHANGED <<token, cursor, elapsed, effects, parks, skip, queueVars, job, dead, crashes, wireVars>>

UserResume(r) ==
    /\ status[r] = "waiting"
    /\ ready[r][token[r]] < MaxJobs
    /\ Enqueue(r, token[r], 1)
    /\ skip' = skip \cup {r}
    /\ UNCHANGED <<status, token, cursor, elapsed, effects, parks, timer, job, dead, crashes, wireVars>>

RemoveFlow(r) ==
    /\ status[r] \notin {"none", "gone"}
    /\ status' = [status EXCEPT ![r] = "gone"]
    /\ UNCHANGED <<token, cursor, elapsed, effects, parks, skip, queueVars, job, dead, crashes, wireVars>>

-----------------------------------------------------------------------------
Work(w) ==
    \/ Redelay(w) \/ Claim(w) \/ ClaimLost(w) \/ Load(w) \/ Fatal(w)
    \/ ExecAct(w) \/ ExecWait(w) \/ EmitStep(w)
    \/ Finish(w) \/ Park(w) \/ ParkLost(w) \/ Arm(w)

Produce(r) == Dispatch(r) \/ Elapse(r) \/ \E t \in Tokens : TimerFires(r, t)
Sweep(r) == SweepQueued(r) \/ SweepOverdue(r) \/ SweepFail(r)
Operate(r) == UserCancel(r) \/ UserResume(r) \/ RemoveFlow(r)

Next ==
    \/ \E r \in Runs : Produce(r) \/ Sweep(r) \/ Operate(r)
    \/ SweepScan
    \/ \E w \in Workers : Work(w) \/ Crash(w) \/ \E r \in Runs, t \in Tokens : TakeJob(w, r, t)

Spec == Init /\ [][Next]_vars

(* BullMQ delivers the jobs of the queue first in, first out, so no job is   *)
(* passed over for ever (SF); a worker finishes what it took; the sweeper is *)
(* a repeatable job; time passes.  Users and crashes owe nothing.            *)
Fairness ==
    /\ \A w \in Workers : WF_vars(Work(w))
    /\ \A r \in Runs, t \in Tokens : SF_vars(\E w \in Workers : TakeJob(w, r, t))
    /\ \A r \in Runs : WF_vars(Elapse(r)) /\ WF_vars(\E t \in Tokens : TimerFires(r, t))
    /\ \A r \in Runs : WF_vars(SweepQueued(r)) /\ WF_vars(SweepOverdue(r)) /\ WF_vars(SweepFail(r))
    /\ WF_vars(SweepScan)

FairSpec == Spec /\ Fairness

-----------------------------------------------------------------------------
JobType == [pc : Driving \cup {"idle", "redelay", "claim", "arm"}, run : Runs \cup {NoRun},
            tok : Tokens, at : Nodes, resuming : BOOLEAN, result : Outcomes, mint : Tokens]

(* Type invariant: an idle slot holds nothing, a busy one a run.             *)
TypeOK ==
    /\ status \in [Runs -> Live \cup Terminal \cup {"none", "gone"}]
    /\ token \in [Runs -> Tokens]
    /\ cursor \in [Runs -> Nodes \cup {0}]
    /\ elapsed \subseteq Runs
    /\ effects \in [Runs -> [Nodes -> Nat]]
    /\ parks \in [Runs -> Tokens]
    /\ skip \subseteq Runs
    /\ ready \in [Runs -> [Tokens -> Nat]]
    /\ timer \subseteq Runs \X Tokens
    /\ job \in [Workers -> JobType]
    /\ \A w \in Workers : job[w].pc # "idle" => job[w].run \in Runs
    /\ dead \subseteq Runs
    /\ crashes \in 0..MaxCrashes

(* A claimed run has exactly one executor, whatever the queue, the sweeper,  *)
(* redelivery and operators do (claimRun, flow-runs.ts:48-77).               *)
SingleDriver ==
    \A r \in Runs : \A v, w \in Workers : Drives(v, r) /\ Drives(w, r) => v = w

(* No node's side effect is committed twice: executors are not idempotent,   *)
(* and neither redelivery, parks nor the sweeper re-executes one.            *)
AtMostOnce == \A r \in Runs : \A i \in Nodes : effects[r][i] <= 1

(* Side effects happen in graph order: when a node has acted, every acting   *)
(* node before it has, across any number of parks, crashes and resumes.      *)
EffectsInOrder ==
    \A r \in Runs : \A i, j \in Nodes :
        effects[r][i] > 0 /\ j < i /\ Script[j] = "act" => effects[r][j] > 0

(* A run reported completed executed its whole graph.                        *)
CompletedRanEverything ==
    \A r \in Runs : status[r] = "completed" =>
        \A i \in Nodes : Script[i] = "act" => effects[r][i] > 0

(* The cap is read before the claim, in another transaction: it can be       *)
(* overshot, by at most the other worker slots (flow-worker.ts:73-89).       *)
RunningBound == Cardinality(Running) <= MaxRunning - 1 + Cardinality(Workers)

(* A resume job that can still win its claim exists only when the wait is    *)
(* over or an operator asked for it: the token strands every older job.      *)
TokenJobsAreDue ==
    \A r \in Runs : \A t \in Tokens :
        /\ t # 0 /\ status[r] = "waiting" /\ token[r] = t
        /\ ready[r][t] > 0 \/ \E w \in Workers : job[w].run = r /\ job[w].tok = t /\ job[w].pc # "arm"
        => r \in elapsed \cup skip

(* A terminal status never changes, short of deleting the row: a late        *)
(* failure, a zombie worker or a cancel cannot clobber it.                   *)
TerminalIsFinal ==
    [][\A r \in Runs : status[r] \in Terminal => status'[r] \in {status[r], "gone"}]_vars

(* Whoever executes a run owns it: the row says running (or is deleted).     *)
(* This is what lets the engine cancel and complete it without a check.      *)
DriverOwnsRow ==
    \A w \in Workers : \A r \in Runs : Drives(w, r) => status[r] \in {"running", "gone"}

(* The engine implements the lifecycle it shows its users: a run is executed *)
(* by one worker at a time, each acting node is performed at most once, in   *)
(* order and only by that worker, a run that was closed, given up or deleted *)
(* never comes back, and it is completed only after all its nodes (engine.ts,*)
(* flow-runs.ts); also when the sweeper fails a run under a live worker.     *)
Acting == {i \in Nodes : Script[i] = "act"}
Driven == [r \in Runs |-> HasDriver(r)]
Lifecycle == INSTANCE FlowRunLifecycle WITH phase <- status, held <- Driven, ran <- effects
ImplementsLifecycle == Lifecycle!Spec

(* The claim of dispatch.ts:5-6, "A crash between commit and enqueue is      *)
(* survivable: the sweeper re-enqueues stale `queued` rows": every run       *)
(* reaches a terminal status.                                                *)
RunsFinish == \A r \in Runs : status[r] \in Live ~> status[r] \notin Live

(* What the code keeps: every run reaches a terminal status, unless the      *)
(* sweeper's connection sees no rows and a call on this run was lost: its    *)
(* enqueue after the commit, or a worker in the middle of it.                *)
Unrepaired(r) == Visible = {} /\ (r \in lost \/ crashes > 0)
RunsEnd == \A r \in Runs : status[r] \in Live ~> status[r] \notin Live \/ Unrepaired(r)
=============================================================================
