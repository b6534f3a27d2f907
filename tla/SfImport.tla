------------------------------ MODULE SfImport ------------------------------
(***************************************************************************)
(* An import run: the execute procedure, its job in the sf-import queue,   *)
(* the workers that run executeRun, and the rows they write.  Each phase   *)
(* and each batch is one transaction, and nothing but the queue keeps two  *)
(* executors of one run apart.  Definitions, owners and record types are   *)
(* written by statements that repeat harmlessly and are left out; which    *)
(* records a scoped run asks for is SfCrawl's.                             *)
(***************************************************************************)
EXTENDS Naturals, FiniteSets, Sequences

CONSTANTS
    Plans,       \* the objects of the run, in the order they are imported
    Records,     \* Salesforce ids
    Of,          \* the object of each
    NoId,        \* an empty lookup, an unresolved reference
    Workers,     \* sf-import workers, one job each
    NoWorker,    \* the holder of a job nobody runs
    Graphs,      \* what the lookups of the records may hold
    Limit,       \* MAX_RECORDS_PER_OBJECT
    Batch,       \* BATCH
    MaxStalls,   \* maxStalledCount: redeliveries of a job
    MaxExecutes, \* bound: executions asked for
    MaxFaults,   \* bound: crashes, stalls, failed clients, failed catches
    MaxEdits     \* bound: edits of a reference, here or in Salesforce

ASSUME LimitsAssumption == Limit \in Nat \ {0} /\ Batch \in Nat \ {0} /\ MaxStalls \in Nat
ASSUME BoundAssumption == {MaxExecutes, MaxFaults, MaxEdits} \subseteq Nat
ASSUME GraphsAssumption ==
    /\ \A g \in Graphs : g \in [Records -> Records \cup {NoId}]
    /\ NoId \notin Records
    /\ Of \in [Records -> {Plans[i] : i \in DOMAIN Plans}]
ASSUME PlansAssumption ==
    /\ Plans \in Seq({Plans[i] : i \in DOMAIN Plans}) /\ Plans # <<>>
    /\ \A i, j \in DOMAIN Plans : Plans[i] = Plans[j] => i = j
ASSUME WorkersAssumption == NoWorker \notin Workers

VARIABLES
    lookup,   \* Salesforce: what each record points at
    status,   \* migration_run.status
    rows,     \* records that have a row here
    ref,      \* the reference column of each row
    edited,   \* rows whose reference a user set after it was last resolved
    stale,    \* objects with rows or references no backfill was asked for
    job,      \* the job of the run: its state, its holder, its redeliveries
    exec,     \* what each worker does
    whole,    \* history: what the executor that completed the run imported
    zombies,  \* history: a worker lost its job and went on
    muted,    \* history: the write of the status failed could not be made
    executes, faults, edits

rowVars == <<rows, ref, edited, stale>>
vars == <<lookup, status, rowVars, job, exec, whole, zombies, muted, executes, faults, edits>>

NoJob == [state |-> "none", by |-> NoWorker, stalls |-> 0]
Nothing == [ids |-> {}, pairs |-> {}]
Idle == [pc |-> "idle", at |-> 1, left |-> {}, ids |-> {}, pairs |-> {}]

Init ==
    /\ lookup \in Graphs
    /\ status = "ready"
    /\ rows = {} /\ ref = [r \in Records |-> NoId] /\ edited = {} /\ stale = {}
    /\ job = NoJob
    /\ exec = [w \in Workers |-> Idle]
    /\ whole = Nothing
    /\ zombies = FALSE /\ muted = FALSE
    /\ executes = 0 /\ faults = 0 /\ edits = 0

-----------------------------------------------------------------------------
(* execute: refused while the row says running; the queue ignores a job      *)
(* whose id it holds, finished or not.                                       *)
AddedAlways == [NoJob EXCEPT !.state = "waiting"]
Added == IF job.state = "none" THEN [NoJob EXCEPT !.state = "waiting"] ELSE job

Execute ==
    /\ status # "running" /\ executes < MaxExecutes
    /\ executes' = executes + 1
    /\ job' = Added
    /\ UNCHANGED <<lookup, status, rowVars, exec, whole, zombies, muted, faults, edits>>

Evict ==
    /\ job.state = "kept"
    /\ job' = NoJob
    /\ UNCHANGED <<lookup, status, rowVars, exec, whole, zombies, muted, executes, faults, edits>>

Deliver(w) ==
    /\ job.state = "waiting" /\ exec[w].pc = "idle"
    /\ job' = [job EXCEPT !.state = "active", !.by = w]
    /\ exec' = [exec EXCEPT ![w].pc = "client"]
    /\ UNCHANGED <<lookup, status, rowVars, whole, zombies, muted, executes, faults, edits>>

(* A handler returns or throws: the job is finished if it still is its own.  *)
Returned(w) == job' = IF job.by = w THEN [job EXCEPT !.state = "kept", !.by = NoWorker] ELSE job
Dropped == job' = [NoJob EXCEPT !.state = "kept"]
Redelivered ==
    job' = [state |-> IF job.stalls < MaxStalls THEN "waiting" ELSE "kept",
            by |-> NoWorker, stalls |-> job.stalls + 1]

-----------------------------------------------------------------------------
(* executeRun, a phase at a time.                                            *)
StepsTo(w, e) ==
    /\ exec' = [exec EXCEPT ![w] = e]
    /\ UNCHANGED <<lookup, zombies, executes, edits>>

(* clientForOrgBackground throws outside executeRun: the row stays as it is. *)
Client(w) ==
    /\ exec[w].pc = "client"
    /\ \/ StepsTo(w, [exec[w] EXCEPT !.pc = "start"]) /\ UNCHANGED <<job, faults>>
       \/ faults < MaxFaults /\ faults' = faults + 1 /\ StepsTo(w, Idle) /\ Returned(w)
    /\ UNCHANGED <<status, rowVars, whole, muted>>

Start(w) ==
    /\ exec[w].pc = "start"
    /\ status' = "running"
    /\ whole' = Nothing
    /\ StepsTo(w, [exec[w] EXCEPT !.pc = "load"])
    /\ UNCHANGED <<rowVars, job, muted, faults>>

AtMost(n, S) == IF Cardinality(S) < n THEN Cardinality(S) ELSE n

(* SELECT ... FROM object LIMIT: in no particular order.                     *)
Select(w, ids) ==
    LET e == exec[w]
        all == {r \in Records : Of[r] = Plans[e.at]}
    IN
    /\ e.pc = "load" /\ e.left = {} /\ e.at <= Len(Plans)
    /\ ids \subseteq all /\ Cardinality(ids) = AtMost(Limit, all)
    /\ StepsTo(w, [e EXCEPT !.at = @ + 1, !.left = ids, !.ids = @ \cup ids])
    /\ UNCHANGED <<status, rowVars, job, whole, muted, faults>>

(* A batch arrives, with the lookups it holds by then, and is flushed:       *)
(* bulkInsertRecords does ON CONFLICT (salesforce_id) DO NOTHING.            *)
Flush(w, B) ==
    LET e == exec[w] IN
    /\ e.pc = "load" /\ e.left # {}
    /\ B \subseteq e.left /\ Cardinality(B) = AtMost(Batch, e.left)
    /\ rows' = rows \cup B
    /\ stale' = stale \cup {Of[r] : r \in B \ rows}
    /\ StepsTo(w, [e EXCEPT !.left = @ \ B,
                      !.pairs = @ \cup {<<r, lookup[r]>> : r \in {b \in B : lookup[b] # NoId}}])
    /\ UNCHANGED <<status, ref, edited, job, whole, muted, faults>>

LoadedSelected(w) == exec[w].pc = "load" /\ exec[w].at > Len(Plans)
Loaded(w) == exec[w].pc = "load" /\ exec[w].at > Len(Plans) /\ exec[w].left = {}

(* After ALL objects are loaded, so forward references work.                 *)
Resolving(w) ==
    /\ Loaded(w)
    /\ StepsTo(w, [exec[w] EXCEPT !.pc = "resolve", !.at = 1])
    /\ UNCHANGED <<status, rowVars, job, whole, muted, faults>>

(* resolveReferencesBySfid: a join on salesforce_id, over what is there.     *)
Joined(w, o) == {p \in exec[w].pairs : Of[p[1]] = o /\ p[1] \in rows /\ p[2] \in rows}
Target(w, r) == CHOOSE t \in Records : <<r, t>> \in exec[w].pairs

(* The next plan of a phase, or the next phase.                              *)
Onward(w, next) ==
    IF exec[w].at < Len(Plans) THEN [exec[w] EXCEPT !.at = @ + 1]
    ELSE [exec[w] EXCEPT !.pc = next, !.at = 1]

Resolve(w) ==
    LET o == Plans[exec[w].at]
        done == {p[1] : p \in Joined(w, o)}
    IN
    /\ exec[w].pc = "resolve"
    /\ ref' = [r \in Records |-> IF r \in done THEN Target(w, r) ELSE ref[r]]
    /\ edited' = edited \ done
    /\ stale' = IF done = {} THEN stale ELSE stale \cup {o}
    /\ StepsTo(w, Onward(w, "ask"))
    /\ UNCHANGED <<status, rows, job, whole, muted, faults>>

Ask(w) ==
    /\ exec[w].pc = "ask"
    /\ stale' = stale \ {Plans[exec[w].at]}
    /\ StepsTo(w, Onward(w, "views"))
    /\ UNCHANGED <<status, rows, ref, edited, job, whole, muted, faults>>

(* Reports, dashboards and automations follow; their errors are recorded and *)
(* swallowed, and the run completes.                                         *)
Complete(w) ==
    /\ exec[w].pc = "views"
    /\ status' = "completed"
    /\ whole' = [ids |-> exec[w].ids, pairs |-> exec[w].pairs]
    /\ StepsTo(w, Idle)
    /\ Returned(w)
    /\ UNCHANGED <<rowVars, muted, faults>>

(* Anything else that throws ends the run as failed, unless that throws too. *)
Throw(w) ==
    /\ exec[w].pc \in {"start", "load", "resolve", "ask", "views"}
    /\ StepsTo(w, [Idle EXCEPT !.pc = "catch"])
    /\ UNCHANGED <<status, rowVars, job, whole, muted, faults>>

Catch(w) ==
    /\ exec[w].pc = "catch"
    /\ \/ status' = "failed" /\ UNCHANGED <<muted, faults>>
       \/ faults < MaxFaults /\ faults' = faults + 1 /\ muted' = TRUE /\ status' = status
    /\ StepsTo(w, Idle)
    /\ Returned(w)
    /\ UNCHANGED <<rowVars, whole>>

-----------------------------------------------------------------------------
(* A worker dies; its job is redelivered, MaxStalls times.                   *)
Crash(w) ==
    /\ exec[w].pc # "idle" /\ faults < MaxFaults
    /\ faults' = faults + 1
    /\ exec' = [exec EXCEPT ![w] = Idle]
    /\ IF job.by = w THEN Redelivered ELSE UNCHANGED job
    /\ UNCHANGED <<lookup, status, rowVars, whole, zombies, muted, executes, edits>>

(* A worker that renews its lock too late loses its job and goes on.         *)
Stall(w) ==
    /\ job.by = w /\ faults < MaxFaults
    /\ faults' = faults + 1
    /\ zombies' = TRUE
    /\ Redelivered
    /\ UNCHANGED <<lookup, status, rowVars, exec, whole, muted, executes, edits>>

(* Users set references here, which the worst of them clear, and lookups in  *)
(* Salesforce.                                                               *)
UserEdit(r) ==
    /\ r \in rows /\ edits < MaxEdits
    /\ edits' = edits + 1
    /\ ref' = [ref EXCEPT ![r] = NoId]
    /\ edited' = edited \cup {r}
    /\ UNCHANGED <<lookup, status, rows, stale, job, exec, whole, zombies, muted, executes, faults>>

SfEdit(g) ==
    /\ edits < MaxEdits /\ g # lookup
    /\ edits' = edits + 1
    /\ lookup' = g
    /\ UNCHANGED <<status, rowVars, job, exec, whole, zombies, muted, executes, faults>>

Import(w) ==
    \/ Client(w) \/ Start(w) \/ Resolving(w) \/ Resolve(w) \/ Ask(w) \/ Complete(w) \/ Catch(w)
    \/ \E B \in SUBSET exec[w].left : Flush(w, B)
    \/ \E ids \in SUBSET Records : Select(w, ids)

Next ==
    \/ Execute \/ Evict
    \/ \E w \in Workers : Deliver(w) \/ Import(w) \/ Throw(w) \/ Crash(w) \/ Stall(w)
    \/ \E r \in Records : UserEdit(r)
    \/ \E g \in Graphs : SfEdit(g)

Spec == Init /\ [][Next]_vars

(* Workers run, and BullMQ delivers a waiting job to one that is free.       *)
FairSpec ==
    /\ Spec
    /\ \A w \in Workers : WF_vars(Import(w))
    /\ WF_vars(\E w \in Workers : Deliver(w))

-----------------------------------------------------------------------------
(* A run called completed has a row for every record it asked for, every     *)
(* reference between two of them is set, to what Salesforce held unless a    *)
(* user or a second executor set it since, and the backfill was asked for    *)
(* after all that (import.ts:291-335).                                       *)
Between(ids, pairs) == {p \in pairs : p[1] \in ids /\ p[2] \in ids}
Set(p) == p[1] \in edited \/ (ref[p[1]] # NoId /\ (zombies \/ ref[p[1]] = p[2]))
CompletedIsWhole ==
    status = "completed" =>
        /\ whole.ids \subseteq rows
        /\ \A p \in Between(whole.ids, whole.pairs) : Set(p)
        /\ zombies \/ stale = {}

(* Double clicks, crashes and redelivery do not make two executors of a run; *)
(* a worker that outlives its lock does.                                     *)
AloneUnlessStalled ==
    zombies \/ \A v, w \in Workers : exec[v].pc # "idle" /\ exec[w].pc # "idle" => v = w

(* A run that was started ends, unless the write that would call it failed   *)
(* fails too, if no more than one thing goes wrong that executeRun does not  *)
(* catch: nothing else looks after a row left running.                       *)
RunEnds == status = "running" ~> status # "running" \/ muted
=============================================================================
