-------------------------- MODULE SfImport_proofs --------------------------
(***************************************************************************)
(* For every set of records, lookups, plans and workers, every limit and    *)
(* bound: only a stalled lock gives a run two executors, and a run called   *)
(* completed is whole.                                                      *)
(***************************************************************************)
EXTENDS SfImport, TLAPS

Pcs == {"idle", "client", "start", "load", "resolve", "ask", "views", "catch"}
Execs == [pc : Pcs, at : Nat, left : SUBSET Records, ids : SUBSET Records,
          pairs : SUBSET (Records \X Records)]
Jobs == [state : {"none", "waiting", "active", "kept"}, by : Workers \cup {NoWorker}, stalls : Nat]

Typed ==
    /\ lookup \in [Records -> Records \cup {NoId}]
    /\ ref \in [Records -> Records \cup {NoId}]
    /\ rows \subseteq Records
    /\ job \in Jobs
    /\ exec \in [Workers -> Execs]

(* An executor that no stall took the job from holds it.                     *)
Held ==
    /\ job.state # "active" => job.by = NoWorker
    /\ ~zombies => \A w \in Workers : exec[w].pc # "idle" => job.by = w /\ job.state = "active"

HeldInv == Typed /\ Held

LEMMA RangeOf == \A r \in Records : \E i \in 1..Len(Plans) : Of[r] = Plans[i]
  <1>1. DOMAIN Plans = 1..Len(Plans)
    BY PlansAssumption
  <1> QED BY <1>1, GraphsAssumption

LEMMA IdleTyped == Idle \in Execs /\ [Idle EXCEPT !.pc = "catch"] \in Execs
  BY DEF Idle, Execs, Pcs

LEMMA JobsTyped ==
    ASSUME Typed
    PROVE  /\ NoJob \in Jobs /\ Added \in Jobs
           /\ \A w \in Workers : Returned(w) => job' \in Jobs
           /\ Redelivered => job' \in Jobs
  <1>1. job \in Jobs /\ NoJob \in Jobs
    BY DEF Typed, Jobs, NoJob
  <1>2. [NoJob EXCEPT !.state = "waiting"] \in Jobs
    BY DEF Jobs, NoJob
  <1>3. [job EXCEPT !.state = "kept", !.by = NoWorker] \in Jobs
    BY <1>1 DEF Jobs
  <1>4. ASSUME Redelivered PROVE job' \in Jobs
    BY <1>1, <1>4 DEF Jobs, Redelivered
  <1> QED BY <1>1, <1>2, <1>3, <1>4 DEF Added, Returned

(* A step of an executor keeps its record an executor's.                     *)
LEMMA OnwardTyped ==
    ASSUME Typed, NEW w \in Workers, NEW next \in Pcs
    PROVE  Onward(w, next) \in Execs
  <1>1. exec[w] \in Execs
    BY DEF Typed
  <1>2. [exec[w] EXCEPT !.at = @ + 1] \in Execs
    BY <1>1 DEF Execs
  <1>3. [exec[w] EXCEPT !.pc = next, !.at = 1] \in Execs
    BY <1>1 DEF Execs
  <1> QED BY <1>2, <1>3 DEF Onward

(* An executor moves on and keeps the job.                                   *)
LEMMA Moves ==
    ASSUME HeldInv, NEW w \in Workers, NEW e \in Execs, exec[w].pc # "idle", StepsTo(w, e),
           UNCHANGED job, ref' \in [Records -> Records \cup {NoId}], rows' \subseteq Records
    PROVE  HeldInv'
  <1>1. exec' = [exec EXCEPT ![w] = e] /\ UNCHANGED <<lookup, zombies>>
    BY DEF StepsTo
  <1>2. Typed'
    BY <1>1 DEF HeldInv, Typed
  <1>3. Held'
    BY <1>1 DEF HeldInv, Typed, Held
  <1> QED BY <1>2, <1>3 DEF HeldInv

(* An executor ends, and the job with it if it still is its own.             *)
LEMMA Ends ==
    ASSUME HeldInv, NEW w \in Workers, exec[w].pc # "idle", exec' = [exec EXCEPT ![w] = Idle],
           \/ Returned(w)
           \/ IF job.by = w THEN Redelivered ELSE UNCHANGED job,
           UNCHANGED <<lookup, ref, rows, zombies>>
    PROVE  HeldInv'
  <1>1. Typed'
    BY IdleTyped, JobsTyped DEF HeldInv, Typed, Returned
  <1>2. job.by # w => job' = job
    BY DEF Returned
  <1>3. job.by = w => job'.by = NoWorker /\ job'.state # "active"
    <2>1. job \in Jobs
      BY DEF HeldInv, Typed
    <2>2. ASSUME Redelivered PROVE job'.by = NoWorker /\ job'.state \in {"waiting", "kept"}
      BY <2>2 DEF Redelivered
    <2>3. ASSUME job' = [job EXCEPT !.state = "kept", !.by = NoWorker]
          PROVE  job'.by = NoWorker /\ job'.state = "kept"
      BY <2>1, <2>3 DEF Jobs
    <2> QED BY <2>2, <2>3 DEF Returned
  <1>4. job'.state # "active" => job'.by = NoWorker
    BY <1>2, <1>3 DEF HeldInv, Held
  <1>5. ASSUME ~zombies, NEW v \in Workers PROVE exec'[v].pc = "idle"
    <2>1. exec'[w].pc = "idle"
      BY DEF HeldInv, Typed, Idle
    <2>2. v # w => exec'[v] = exec[v]
      BY DEF HeldInv, Typed
    <2> QED BY <1>5, <2>1, <2>2 DEF HeldInv, Held
  <1> QED BY <1>1, <1>4, <1>5 DEF HeldInv, Held

LEMMA ResolveTyped ==
    ASSUME Typed, NEW w \in Workers, Resolve(w)
    PROVE  ref' \in [Records -> Records \cup {NoId}]
  <1>1. ASSUME NEW p \in exec[w].pairs PROVE p[1] \in Records /\ Target(w, p[1]) \in Records
    <2>1. p \in Records \X Records
      BY <1>1 DEF Typed, Execs
    <2>2. PICK a \in Records, b \in Records : p = <<a, b>>
      BY <2>1
    <2>3. \E t \in Records : <<a, t>> \in exec[w].pairs
      BY <1>1, <2>2
    <2>4. Target(w, a) \in Records
      BY <2>3 DEF Target
    <2> QED BY <2>2, <2>4
  <1> QED BY <1>1 DEF Resolve, Joined, Typed

LEMMA FlushTyped ==
    ASSUME Typed, NEW w \in Workers, NEW B \in SUBSET exec[w].left, Flush(w, B)
    PROVE  /\ \E e \in Execs : StepsTo(w, e)
           /\ rows' \subseteq Records
  <1> DEFINE held == {<<r, lookup[r]>> : r \in {b \in B : lookup[b] # NoId}}
             e == [exec[w] EXCEPT !.left = @ \ B, !.pairs = @ \cup held]
  <1>1. exec[w] \in Execs /\ B \subseteq Records
    BY DEF Typed, Execs
  <1>2. held \subseteq Records \X Records
    BY <1>1 DEF Typed
  <1>3. exec[w].left \ B \subseteq Records /\ exec[w].pairs \cup held \subseteq Records \X Records
    BY <1>1, <1>2 DEF Execs
  <1>4. e \in Execs
    BY <1>1, <1>3 DEF Execs
  <1>5. StepsTo(w, e) /\ rows' \subseteq Records
    BY <1>1 DEF Flush, Typed
  <1> QED BY <1>4, <1>5

LEMMA HeldNext == HeldInv /\ [Next]_vars => HeldInv'
  <1> SUFFICES ASSUME HeldInv, [Next]_vars PROVE HeldInv'
    OBVIOUS
  <1>0. Typed /\ \A w \in Workers : exec[w] \in Execs
    BY DEF HeldInv, Typed
  <1>1. CASE Execute \/ Evict
    <2>1. UNCHANGED <<lookup, ref, rows, exec, zombies>> /\ job' \in Jobs
      BY <1>0, <1>1, JobsTyped DEF Execute, Evict, rowVars
    <2>2. job.state # "active" \/ job' = job
      BY <1>1 DEF Execute, Evict, Added
    <2>3. job'.state # "active" => job'.by = NoWorker
      BY <1>1 DEF Execute, Evict, Added, NoJob, HeldInv, Held
    <2>4. ~zombies /\ job.state # "active" => \A w \in Workers : exec[w].pc = "idle"
      BY DEF HeldInv, Held
    <2>5. Typed'
      BY <2>1 DEF HeldInv, Typed
    <2> QED BY <2>1, <2>2, <2>3, <2>4, <2>5 DEF HeldInv, Held
  <1>2. ASSUME NEW w \in Workers, Deliver(w) PROVE HeldInv'
    <2>1. /\ UNCHANGED <<lookup, ref, rows, zombies>>
          /\ exec' = [exec EXCEPT ![w].pc = "client"]
          /\ job' = [job EXCEPT !.state = "active", !.by = w]
          /\ job.state = "waiting"
      BY <1>2 DEF Deliver, rowVars
    <2>2. [exec[w] EXCEPT !.pc = "client"] \in Execs
      BY <1>0 DEF Execs, Pcs
    <2>3. job' \in Jobs
      BY <2>1 DEF HeldInv, Typed, Jobs
    <2>4. Typed'
      BY <2>1, <2>2, <2>3 DEF HeldInv, Typed
    <2>5. job'.state = "active" /\ job'.by = w
      BY <2>1 DEF HeldInv, Typed, Jobs
    <2>6. ASSUME ~zombies, NEW v \in Workers, v # w PROVE exec'[v].pc = "idle"
      BY <2>1, <2>6 DEF HeldInv, Typed, Held
    <2> QED BY <2>1, <2>4, <2>5, <2>6 DEF HeldInv, Held
  <1>3. ASSUME NEW w \in Workers, Client(w) PROVE HeldInv'
    <2>1. exec[w].pc # "idle" /\ UNCHANGED <<lookup, ref, rows, zombies>>
      BY <1>3 DEF Client, StepsTo, rowVars
    <2>2. CASE StepsTo(w, [exec[w] EXCEPT !.pc = "start"]) /\ UNCHANGED job
      <3>1. [exec[w] EXCEPT !.pc = "start"] \in Execs
        BY <1>0 DEF Execs, Pcs
      <3> QED BY <1>0, <2>1, <2>2, <3>1, Moves DEF Typed
    <2>3. CASE StepsTo(w, Idle) /\ Returned(w)
      BY <2>1, <2>3, Ends DEF StepsTo
    <2> QED BY <1>3, <2>2, <2>3 DEF Client
  <1>4. ASSUME NEW w \in Workers, Start(w) PROVE HeldInv'
    <2>1. [exec[w] EXCEPT !.pc = "load"] \in Execs
      BY <1>0 DEF Execs, Pcs
    <2> QED BY <1>0, <1>4, <2>1, Moves DEF Start, Typed, rowVars
  <1>5. ASSUME NEW w \in Workers, Resolving(w) PROVE HeldInv'
    <2>1. [exec[w] EXCEPT !.pc = "resolve", !.at = 1] \in Execs
      BY <1>0 DEF Execs, Pcs
    <2> QED BY <1>0, <1>5, <2>1, Moves DEF Resolving, Loaded, Typed, rowVars
  <1>6. ASSUME NEW w \in Workers, Resolve(w) PROVE HeldInv'
    <2>1. Onward(w, "ask") \in Execs
      BY <1>0, OnwardTyped DEF Pcs
    <2>2. ref' \in [Records -> Records \cup {NoId}]
      BY <1>0, <1>6, ResolveTyped
    <2> QED BY <1>0, <1>6, <2>1, <2>2, Moves DEF Resolve, Typed
  <1>7. ASSUME NEW w \in Workers, Ask(w) PROVE HeldInv'
    <2>1. Onward(w, "views") \in Execs
      BY <1>0, OnwardTyped DEF Pcs
    <2> QED BY <1>0, <1>7, <2>1, Moves DEF Ask, Typed
  <1>8. ASSUME NEW w \in Workers, Complete(w) \/ Catch(w) PROVE HeldInv'
    BY <1>8, Ends DEF Complete, Catch, StepsTo, rowVars
  <1>9. ASSUME NEW w \in Workers, NEW B \in SUBSET exec[w].left, Flush(w, B) PROVE HeldInv'
    <2>1. PICK e \in Execs : StepsTo(w, e)
      BY <1>0, <1>9, FlushTyped
    <2>2. rows' \subseteq Records
      BY <1>0, <1>9, FlushTyped
    <2> QED BY <1>0, <1>9, <2>1, <2>2, Moves DEF Flush, Typed
  <1>10. ASSUME NEW w \in Workers, NEW ids \in SUBSET Records, Select(w, ids) PROVE HeldInv'
    <2> DEFINE e == [exec[w] EXCEPT !.at = @ + 1, !.left = ids, !.ids = @ \cup ids]
    <2>1. e \in Execs
      <3>1. exec[w] \in Execs /\ exec[w].ids \cup ids \subseteq Records /\ exec[w].at + 1 \in Nat
        BY <1>0 DEF Execs
      <3> QED BY <3>1 DEF Execs
    <2>2. StepsTo(w, e)
      BY <1>10 DEF Select
    <2> QED BY <1>0, <1>10, <2>1, <2>2, Moves DEF Select, Typed, rowVars
  <1>11. ASSUME NEW w \in Workers, Throw(w) PROVE HeldInv'
    BY <1>0, <1>11, IdleTyped, Moves DEF Throw, Typed, rowVars
  <1>12. ASSUME NEW w \in Workers, Crash(w) PROVE HeldInv'
    BY <1>12, Ends DEF Crash, rowVars
  <1>13. ASSUME NEW w \in Workers, Stall(w) PROVE HeldInv'
    <2>1. job' \in Jobs /\ job'.by = NoWorker
      BY <1>0, <1>13, JobsTyped DEF Stall, Redelivered
    <2> QED BY <1>13, <2>1 DEF Stall, rowVars, HeldInv, Typed, Held
  <1>14. ASSUME NEW r \in Records, UserEdit(r) PROVE HeldInv'
    BY <1>14 DEF UserEdit, HeldInv, Typed, Held
  <1>15. ASSUME NEW g \in Graphs, SfEdit(g) PROVE HeldInv'
    BY <1>15, GraphsAssumption DEF SfEdit, rowVars, HeldInv, Typed, Held
  <1>16. CASE UNCHANGED vars
    BY <1>16 DEF vars, rowVars, HeldInv, Typed, Held
  <1> QED BY <1>1, <1>2, <1>3, <1>4, <1>5, <1>6, <1>7, <1>8, <1>9, <1>10, <1>11, <1>12, <1>13,
             <1>14, <1>15, <1>16 DEF Next, Import

LEMMA HeldInit == Init => HeldInv
  <1> SUFFICES ASSUME Init PROVE HeldInv
    OBVIOUS
  <1>1. job \in Jobs /\ job.by = NoWorker
    BY DEF Init, Jobs, NoJob
  <1>2. Typed
    BY <1>1, IdleTyped, GraphsAssumption DEF Init, Typed
  <1>3. \A w \in Workers : exec[w].pc = "idle"
    BY DEF Init, Idle
  <1> QED BY <1>1, <1>2, <1>3 DEF HeldInv, Held

(* Clicking twice, crashing and redelivering never make two executors of a   *)
(* run (queue/sf-import.ts:86-90): only a worker that outlives its lock does.*)
THEOREM OneExecutorUnlessStalled == Spec => []AloneUnlessStalled
  <1>1. HeldInv => AloneUnlessStalled
    BY DEF HeldInv, Held, AloneUnlessStalled
  <1> QED BY <1>1, HeldInit, HeldNext, PTL DEF Spec

-----------------------------------------------------------------------------
Quiet == {"idle", "client", "start", "catch"}
Late == {"resolve", "ask", "views"}
Before(at, r) == \E i \in 1..(at - 1) : Of[r] = Plans[i]

(* What an executor has fetched is here, or the batch it waits for; a record *)
(* is fetched once.                                                          *)
Fetched(e) ==
    /\ e.pc \in Quiet => e.at = 1 /\ e.left = {} /\ e.ids = {} /\ e.pairs = {}
    /\ \A p \in e.pairs : p[1] \in e.ids
    /\ \A p, q \in e.pairs : p[1] = q[1] => p = q
    /\ e.left \subseteq e.ids
    /\ e.ids \ e.left \subseteq rows
    /\ e.pc \in Late => e.left = {}
    /\ \A p \in e.pairs : p[1] \notin e.left
    /\ e.pc = "load" => e.at \in 1..(Len(Plans) + 1) /\ \A r \in e.ids : Before(e.at, r)
    /\ e.pc \in {"resolve", "ask"} => e.at \in 1..Len(Plans)

(* The references of the plans it is done with are set.                      *)
Resolved(e) ==
    /\ e.pc = "resolve" =>
           \A p \in Between(e.ids, e.pairs) : Before(e.at, p[1]) => Set(p)
    /\ e.pc \in {"ask", "views"} => \A p \in Between(e.ids, e.pairs) : Set(p)

Asked(e) ==
    /\ e.pc = "ask" /\ ~zombies => \A i \in 1..(e.at - 1) : Plans[i] \notin stale
    /\ e.pc = "views" /\ ~zombies => stale = {}

Progress(e) == Fetched(e) /\ Resolved(e) /\ Asked(e)

Whole ==
    /\ whole.ids \subseteq Records /\ whole.pairs \subseteq Records \X Records
    /\ stale \subseteq {Plans[i] : i \in 1..Len(Plans)}
    /\ CompletedIsWhole
    /\ status = "completed" /\ ~zombies => \A w \in Workers : exec[w].pc \in Quiet

Inv == HeldInv /\ Whole /\ \A w \in Workers : Progress(exec[w])

(* A reference that is set, or a user's, does not become empty but by a user.*)
Kept == \A r \in Records : r \in edited \/ ref[r] # NoId => r \in edited' \/ ref'[r] # NoId

LEMMA BetweenRecords ==
    ASSUME NEW ids, NEW pairs \in SUBSET (Records \X Records), NEW p \in Between(ids, pairs)
    PROVE  p \in pairs /\ p[1] \in Records /\ p[2] \in Records /\ p[1] \in ids /\ p[2] \in ids
  BY DEF Between

LEMMA SetKept ==
    ASSUME NEW p, p[1] \in Records, Set(p), zombies' = zombies,
           UNCHANGED <<ref, edited>> \/ (zombies /\ Kept)
    PROVE  Set(p)'
  BY DEF Set, Kept

(* Nobody's progress is lost while another executor works: either there is   *)
(* none, or what it does to the rows only adds to them.                      *)
LEMMA Bystander ==
    ASSUME Inv, NEW v \in Workers, exec'[v] = exec[v], rows \subseteq rows', zombies' = zombies,
           UNCHANGED <<ref, edited, stale>> \/ (zombies /\ Kept) \/ exec[v].pc \in Quiet
    PROVE  Progress(exec[v])'
  <1>1. Progress(exec[v]) /\ exec[v] \in Execs
    BY DEF Inv, HeldInv, Typed
  <1>2. Fetched(exec[v])'
    BY <1>1 DEF Progress, Fetched, Before
  <1>3. ASSUME NEW p \in Between(exec[v].ids, exec[v].pairs), Set(p), exec[v].pc \notin Quiet
        PROVE  Set(p)'
    <2>1. p[1] \in Records
      BY <1>1, BetweenRecords DEF Execs
    <2> QED BY <1>3, <2>1, SetKept
  <1>4. Resolved(exec[v])'
    BY <1>1, <1>3 DEF Progress, Resolved, Between, Before, Quiet
  <1>5. Asked(exec[v])'
    BY <1>1 DEF Progress, Asked, Quiet
  <1> QED BY <1>2, <1>4, <1>5 DEF Progress

LEMMA WholeKept ==
    ASSUME Inv, UNCHANGED <<status, whole, zombies>>, rows \subseteq rows',
           UNCHANGED <<ref, edited, stale>> \/ (zombies /\ Kept) \/ status # "completed"
    PROVE  CompletedIsWhole'
  <1>1. ASSUME NEW p \in Between(whole.ids, whole.pairs), Set(p), status = "completed" PROVE Set(p)'
    <2>1. p[1] \in Records
      BY BetweenRecords DEF Inv, Whole
    <2> QED BY <1>1, <2>1, SetKept
  <1> QED BY <1>1 DEF Inv, Whole, CompletedIsWhole, Between

(* A step of an executor that is at work.                                    *)
LEMMA AtWork ==
    ASSUME Inv, HeldInv', NEW w \in Workers, exec[w].pc \notin Quiet,
           \A v \in Workers \ {w} : exec'[v] = exec[v],
           rows \subseteq rows', Kept, UNCHANGED <<status, whole, zombies>>,
           stale' \subseteq {Plans[i] : i \in 1..Len(Plans)},
           Progress(exec[w])'
    PROVE  Inv'
  <1>1. ~zombies => \A v \in Workers \ {w} : exec[v].pc = "idle"
    BY DEF Inv, HeldInv, Held, Quiet
  <1>2. ~zombies => status # "completed"
    BY DEF Inv, Whole
  <1>3. \A v \in Workers : Progress(exec[v])'
    BY <1>1, Bystander DEF Quiet
  <1>4. CompletedIsWhole'
    BY <1>2, WholeKept
  <1>5. Whole'
    BY <1>2, <1>4 DEF Inv, Whole
  <1> QED BY <1>3, <1>5 DEF Inv

(* A step of one that holds nothing afterwards.                              *)
LEMMA AtRest ==
    ASSUME Inv, HeldInv', NEW w \in Workers, \A v \in Workers \ {w} : exec'[v] = exec[v],
           UNCHANGED <<rowVars, whole, zombies>>, status' \in {status, "failed"},
           exec'[w].pc \in Quiet, Progress(exec[w])'
    PROVE  Inv'
  <1>1. \A v \in Workers : Progress(exec[v])'
    BY Bystander DEF rowVars
  <1>2. CompletedIsWhole'
    BY WholeKept DEF rowVars, CompletedIsWhole
  <1>3. Whole'
    BY <1>2 DEF Inv, Whole, rowVars
  <1> QED BY <1>1, <1>3 DEF Inv

LEMMA IdleProgress ==
    ASSUME NEW w \in Workers, exec'[w] \in {Idle, [Idle EXCEPT !.pc = "client"],
               [Idle EXCEPT !.pc = "start"], [Idle EXCEPT !.pc = "catch"]}
    PROVE  Progress(exec[w])' /\ exec'[w].pc \in Quiet
  BY DEF Idle, Quiet, Late, Progress, Fetched, Resolved, Asked

LEMMA QuietIsIdle ==
    ASSUME Inv, NEW w \in Workers, exec[w].pc \in Quiet
    PROVE  exec[w] = [Idle EXCEPT !.pc = exec[w].pc]
  <1>1. exec[w] \in Execs /\ Fetched(exec[w])
    BY DEF Inv, HeldInv, Typed, Progress
  <1>2. exec[w] = [pc |-> exec[w].pc, at |-> exec[w].at, left |-> exec[w].left,
                   ids |-> exec[w].ids, pairs |-> exec[w].pairs]
    BY <1>1 DEF Execs
  <1>3. exec[w].at = 1 /\ exec[w].left = {} /\ exec[w].ids = {} /\ exec[w].pairs = {}
    BY <1>1 DEF Fetched
  <1>4. exec[w] = [pc |-> exec[w].pc, at |-> 1, left |-> {}, ids |-> {}, pairs |-> {}]
    BY <1>2, <1>3
  <1>5. [Idle EXCEPT !.pc = exec[w].pc] =
            [pc |-> exec[w].pc, at |-> 1, left |-> {}, ids |-> {}, pairs |-> {}]
    BY DEF Idle
  <1> QED BY <1>4, <1>5

-----------------------------------------------------------------------------
LEMMA StartInv ==
    ASSUME Inv, HeldInv', NEW w \in Workers, Start(w)
    PROVE  Inv'
  <1>1. exec' = [exec EXCEPT ![w] = [exec[w] EXCEPT !.pc = "load"]]
    BY DEF Start, StepsTo
  <1>2. exec[w] = [Idle EXCEPT !.pc = exec[w].pc]
    BY QuietIsIdle DEF Start, Quiet
  <1>3. exec'[w] = [Idle EXCEPT !.pc = "load"]
    BY <1>1, <1>2 DEF Inv, HeldInv, Typed, Idle
  <1>4. Progress(exec[w])'
    BY <1>3 DEF Idle, Quiet, Late, Progress, Fetched, Resolved, Asked
  <1>5. UNCHANGED <<rowVars, zombies>> /\ status' = "running" /\ whole' = Nothing
    BY DEF Start, StepsTo
  <1>6. ASSUME NEW v \in Workers, v # w PROVE Progress(exec[v])'
    BY <1>1, <1>5, <1>6, Bystander DEF rowVars, Inv, HeldInv, Typed
  <1>7. Whole'
    BY <1>5 DEF Inv, Whole, CompletedIsWhole, Nothing, rowVars
  <1> QED BY <1>4, <1>6, <1>7 DEF Inv

(* The records of a plan are none of an earlier one.                         *)
LEMMA SelectInv ==
    ASSUME Inv, HeldInv', NEW w \in Workers, NEW ids \in SUBSET Records, Select(w, ids)
    PROVE  Inv'
  <1> DEFINE e == exec[w]
             f == [e EXCEPT !.at = @ + 1, !.left = ids, !.ids = @ \cup ids]
  <1>1. e \in Execs /\ Fetched(e)
    BY DEF Inv, HeldInv, Typed, Progress
  <1>2. exec' = [exec EXCEPT ![w] = f] /\ UNCHANGED <<status, rowVars, whole, zombies>>
    BY DEF Select, StepsTo
  <1>3. e.pc = "load" /\ e.left = {} /\ e.at \in 1..Len(Plans) /\ \A r \in ids : Of[r] = Plans[e.at]
    BY <1>1 DEF Select, Fetched
  <1>4. exec'[w] = f /\ f.pc = "load" /\ f.at = e.at + 1 /\ f.left = ids /\ f.ids = e.ids \cup ids
        /\ f.pairs = e.pairs
    BY <1>1, <1>2, <1>3 DEF Inv, HeldInv, Typed, Execs
  <1>5. \A r \in e.ids : r \notin ids
    BY <1>1, <1>3, PlansAssumption DEF Fetched, Before
  <1>6. \A r \in f.ids : Before(f.at, r)
    BY <1>1, <1>3, <1>4 DEF Fetched, Before
  <1>7. Fetched(f)
    BY <1>1, <1>3, <1>4, <1>5, <1>6 DEF Fetched, Quiet, Late
  <1>8. Progress(exec[w])'
    BY <1>2, <1>4, <1>7 DEF Progress, Fetched, Resolved, Asked, Before, rowVars
  <1>9. \A v \in Workers \ {w} : exec'[v] = exec[v]
    BY <1>2 DEF Inv, HeldInv, Typed
  <1>10. UNCHANGED <<rows, ref, edited, stale>> /\ exec[w].pc \notin Quiet
    BY <1>2, <1>3 DEF rowVars, Quiet
  <1>11. Kept /\ stale' \subseteq {Plans[i] : i \in 1..Len(Plans)}
    BY <1>10 DEF Kept, Inv, Whole
  <1> HIDE DEF e, f
  <1> QED BY <1>2, <1>8, <1>9, <1>10, <1>11, AtWork

LEMMA FlushInv ==
    ASSUME Inv, HeldInv', NEW w \in Workers, NEW B \in SUBSET exec[w].left, Flush(w, B)
    PROVE  Inv'
  <1> DEFINE e == exec[w]
             held == {<<r, lookup[r]>> : r \in {b \in B : lookup[b] # NoId}}
             f == [e EXCEPT !.left = @ \ B, !.pairs = @ \cup held]
  <1>1. e \in Execs /\ Fetched(e)
    BY DEF Inv, HeldInv, Typed, Progress
  <1>2. /\ exec' = [exec EXCEPT ![w] = f] /\ UNCHANGED <<status, ref, edited, whole, zombies>>
        /\ rows' = rows \cup B /\ stale' = stale \cup {Of[r] : r \in B \ rows}
    BY DEF Flush, StepsTo
  <1>3. e.pc = "load" /\ B \subseteq e.left /\ B \subseteq Records
    BY <1>1 DEF Flush, Execs
  <1>4. exec'[w] = f /\ f.pc = "load" /\ f.at = e.at /\ f.left = e.left \ B /\ f.ids = e.ids
        /\ f.pairs = e.pairs \cup held
    BY <1>1, <1>2, <1>3 DEF Inv, HeldInv, Typed, Execs
  <1>5. \A p \in held : p[1] \in B /\ p = <<p[1], lookup[p[1]]>>
    OBVIOUS
  <1>6. \A p \in e.pairs : p[1] \notin B
    BY <1>1, <1>3 DEF Fetched
  <1>7. /\ \A p \in f.pairs : p[1] \in f.ids /\ p[1] \notin f.left
        /\ \A p, q \in f.pairs : p[1] = q[1] => p = q
    <2>1. \A p \in f.pairs : p[1] \in f.ids /\ p[1] \notin f.left
      BY <1>1, <1>3, <1>4, <1>5 DEF Fetched
    <2>2. ASSUME NEW p \in f.pairs, NEW q \in f.pairs, p[1] = q[1] PROVE p = q
      <3>0. p \in e.pairs \cup held /\ q \in e.pairs \cup held
        BY <1>4, <2>2
      <3> HIDE DEF e, f, held
      <3>1. \/ p \in e.pairs /\ q \in e.pairs
            \/ p \in held /\ q \in held
        BY <1>5, <1>6, <2>2, <3>0
      <3>2. CASE p \in held /\ q \in held
        <4>1. p = <<p[1], lookup[p[1]]>> /\ q = <<q[1], lookup[q[1]]>>
          BY <1>5, <3>2
        <4> QED BY <4>1, <2>2
      <3> QED BY <1>1, <2>2, <3>1, <3>2 DEF Fetched
    <2> QED BY <2>1, <2>2
  <1>8. f.left \subseteq f.ids /\ f.ids \ f.left \subseteq rows'
    BY <1>1, <1>2, <1>4 DEF Fetched
  <1>9. Progress(exec[w])'
    BY <1>1, <1>3, <1>4, <1>7, <1>8 DEF Progress, Fetched, Resolved, Asked, Before, Quiet, Late
  <1>10. stale' \subseteq {Plans[i] : i \in 1..Len(Plans)}
    BY <1>2, <1>3, RangeOf DEF Inv, Whole
  <1> QED BY <1>2, <1>3, <1>9, <1>10, AtWork DEF Kept, Quiet, Inv, HeldInv, Typed

LEMMA ResolvingInv ==
    ASSUME Inv, HeldInv', NEW w \in Workers, Resolving(w)
    PROVE  Inv'
  <1> DEFINE e == exec[w]
             f == [e EXCEPT !.pc = "resolve", !.at = 1]
  <1>1. e \in Execs /\ Fetched(e) /\ e.pc = "load" /\ e.left = {}
    BY DEF Inv, HeldInv, Typed, Progress, Resolving, Loaded
  <1>2. exec' = [exec EXCEPT ![w] = f] /\ UNCHANGED <<status, rowVars, whole, zombies>>
    BY DEF Resolving, StepsTo
  <1>3. exec'[w] = f /\ f.pc = "resolve" /\ f.at = 1 /\ f.left = {} /\ f.ids = e.ids /\ f.pairs = e.pairs
    BY <1>1, <1>2 DEF Inv, HeldInv, Typed, Execs
  <1>4. 1 \in 1..Len(Plans) /\ \A r : ~Before(1, r)
    BY PlansAssumption DEF Before
  <1>5. Progress(exec[w])'
    BY <1>1, <1>2, <1>3, <1>4 DEF Progress, Fetched, Resolved, Asked, Before, Quiet, Late, rowVars
  <1>6. \A v \in Workers \ {w} : exec'[v] = exec[v]
    BY <1>2 DEF Inv, HeldInv, Typed
  <1>7. UNCHANGED <<rows, ref, edited, stale>> /\ exec[w].pc \notin Quiet
    BY <1>1, <1>2 DEF rowVars, Quiet
  <1>8. Kept /\ stale' \subseteq {Plans[i] : i \in 1..Len(Plans)}
    BY <1>7 DEF Kept, Inv, Whole
  <1> HIDE DEF e, f
  <1> QED BY <1>2, <1>5, <1>6, <1>7, <1>8, AtWork

-----------------------------------------------------------------------------
(* The next plan is one more, and after the last one all of them.            *)
LEMMA OnwardBefore ==
    ASSUME NEW w \in Workers, exec[w] \in Execs, exec[w].at \in 1..Len(Plans), NEW next \in Pcs,
           exec[w].pc # next
    PROVE  LET e == exec[w] f == Onward(w, next) IN
           /\ f.left = e.left /\ f.ids = e.ids /\ f.pairs = e.pairs
           /\ \/ f.pc = e.pc /\ f.at = e.at + 1 /\ e.at < Len(Plans)
              \/ f.pc = next /\ f.at = 1 /\ e.at = Len(Plans)
  <1>1. Len(Plans) \in Nat
    BY PlansAssumption
  <1>2. CASE exec[w].at < Len(Plans)
    BY <1>2 DEF Onward, Execs
  <1>3. CASE ~(exec[w].at < Len(Plans))
    <2>1. exec[w].at = Len(Plans)
      BY <1>1, <1>3
    <2>2. Onward(w, next) = [exec[w] EXCEPT !.pc = next, !.at = 1]
      BY <1>3 DEF Onward
    <2> QED BY <2>1, <2>2 DEF Execs
  <1> QED BY <1>2, <1>3

(* A pair of records that are both here is joined, and its reference set.    *)
LEMMA JoinSets ==
    ASSUME Inv, NEW w \in Workers, Resolve(w),
           NEW p \in Between(exec[w].ids, exec[w].pairs), Of[p[1]] = Plans[exec[w].at] \/ Set(p)
    PROVE  Set(p)'
  <1> DEFINE e == exec[w]
             done == {q[1] : q \in Joined(w, Plans[e.at])}
  <1>1. e \in Execs /\ Fetched(e) /\ e.pc = "resolve" /\ e.left = {}
    BY DEF Inv, HeldInv, Typed, Progress, Resolve, Fetched, Late
  <1>2. p \in e.pairs /\ p[1] \in Records /\ p[2] \in Records /\ p[1] \in rows /\ p[2] \in rows
    BY <1>1, BetweenRecords DEF Execs, Fetched
  <1>3. /\ ref' = [r \in Records |-> IF r \in done THEN Target(w, r) ELSE ref[r]]
        /\ edited' = edited \ done /\ zombies' = zombies
    BY DEF Resolve, StepsTo
  <1>4. CASE p[1] \in done
    <2>1. p \in Records \X Records /\ p = <<p[1], p[2]>>
      BY <1>1, <1>2 DEF Execs
    <2>2. ASSUME NEW t \in Records, <<p[1], t>> \in e.pairs PROVE t = p[2]
      <3>1. <<p[1], t>> = p
        BY <1>1, <1>2, <2>2 DEF Fetched
      <3> QED BY <3>1
    <2>3. Target(w, p[1]) = p[2]
      <3>1. \E t \in Records : <<p[1], t>> \in e.pairs
        BY <1>2, <2>1
      <3>2. Target(w, p[1]) \in Records /\ <<p[1], Target(w, p[1])>> \in e.pairs
        BY <3>1 DEF Target
      <3> QED BY <2>2, <3>2
    <2>4. ref'[p[1]] = p[2] /\ p[2] # NoId
      BY <1>2, <1>3, <1>4, <2>3, GraphsAssumption
    <2> QED BY <2>4 DEF Set
  <1>5. CASE p[1] \notin done
    <2>1. Of[p[1]] # Plans[e.at]
      BY <1>2, <1>5 DEF Joined
    <2>2. ref'[p[1]] = ref[p[1]] /\ (p[1] \in edited => p[1] \in edited')
      BY <1>2, <1>3, <1>5
    <2> QED BY <1>3, <2>1, <2>2 DEF Set
  <1> QED BY <1>4, <1>5

LEMMA ResolveInv ==
    ASSUME Inv, HeldInv', NEW w \in Workers, Resolve(w)
    PROVE  Inv'
  <1> DEFINE e == exec[w]
             f == Onward(w, "ask")
  <1>1. e \in Execs /\ Progress(e) /\ e.pc = "resolve" /\ e.left = {} /\ e.at \in 1..Len(Plans)
    BY DEF Inv, HeldInv, Typed, Progress, Resolve, Fetched, Late
  <1>2. /\ exec' = [exec EXCEPT ![w] = f]
        /\ UNCHANGED <<status, rows, whole, zombies>>
    BY DEF Resolve, StepsTo
  <1>3. exec'[w] = f /\ \A v \in Workers \ {w} : exec'[v] = exec[v]
    BY <1>2 DEF Inv, HeldInv, Typed
  <1>4. /\ f.left = {} /\ f.ids = e.ids /\ f.pairs = e.pairs
        /\ \/ f.pc = "resolve" /\ f.at = e.at + 1 /\ e.at < Len(Plans)
           \/ f.pc = "ask" /\ f.at = 1 /\ e.at = Len(Plans)
    BY <1>1, OnwardBefore DEF Pcs
  <1>5. ASSUME NEW p \in Between(e.ids, e.pairs), f.pc = "ask" \/ Before(f.at, p[1])
        PROVE  Set(p)'
    <2>1. p[1] \in Records
      BY <1>1, BetweenRecords DEF Execs
    <2>2. Before(e.at, p[1]) \/ Of[p[1]] = Plans[e.at]
      BY <1>1, <1>4, <1>5, <2>1, RangeOf DEF Before
    <2> QED BY <1>1, <2>2, JoinSets DEF Progress, Resolved
  <1>6. Resolved(exec[w])'
    BY <1>3, <1>4, <1>5 DEF Resolved, Between, Before
  <1>7. Fetched(exec[w])'
    BY <1>1, <1>2, <1>3, <1>4 DEF Progress, Fetched, Before, Quiet, Late
  <1>8. Asked(exec[w])'
    BY <1>3, <1>4 DEF Asked
  <1>9. Kept
    <2>1. HeldInv
      BY DEF Inv
    <2>2. ASSUME NEW r \in Records, r \in {q[1] : q \in Joined(w, Plans[e.at])} PROVE ref'[r] # NoId
      <3>1. PICK q \in e.pairs : q[1] = r
        BY <2>2 DEF Joined
      <3>2. q \in Records \X Records /\ q = <<r, q[2]>> /\ q[2] \in Records
        BY <1>1, <3>1 DEF Execs
      <3>3. Target(w, r) \in Records
        <4>1. \E t \in Records : <<r, t>> \in exec[w].pairs
          BY <3>1, <3>2
        <4> QED BY <4>1 DEF Target
      <3> QED BY <2>2, <3>3, GraphsAssumption DEF Resolve
    <2> QED BY <2>2 DEF Kept, Resolve
  <1>10. stale' \subseteq {Plans[i] : i \in 1..Len(Plans)}
    BY <1>1 DEF Resolve, Inv, Whole
  <1>11. Progress(exec[w])' /\ exec[w].pc \notin Quiet
    BY <1>1, <1>6, <1>7, <1>8 DEF Progress, Quiet
  <1> HIDE DEF e, f
  <1> QED BY <1>2, <1>3, <1>9, <1>10, <1>11, AtWork

LEMMA AskInv ==
    ASSUME Inv, HeldInv', NEW w \in Workers, Ask(w)
    PROVE  Inv'
  <1> DEFINE e == exec[w]
             f == Onward(w, "views")
  <1>1. e \in Execs /\ Progress(e) /\ e.pc = "ask" /\ e.left = {} /\ e.at \in 1..Len(Plans)
    BY DEF Inv, HeldInv, Typed, Progress, Ask, Fetched, Late
  <1>2. /\ exec' = [exec EXCEPT ![w] = f]
        /\ UNCHANGED <<status, rows, ref, edited, whole, zombies>>
        /\ stale' = stale \ {Plans[e.at]}
    BY DEF Ask, StepsTo
  <1>3. exec'[w] = f /\ \A v \in Workers \ {w} : exec'[v] = exec[v]
    BY <1>2 DEF Inv, HeldInv, Typed
  <1>4. /\ f.left = {} /\ f.ids = e.ids /\ f.pairs = e.pairs
        /\ \/ f.pc = "ask" /\ f.at = e.at + 1 /\ e.at < Len(Plans)
           \/ f.pc = "views" /\ f.at = 1 /\ e.at = Len(Plans)
    BY <1>1, OnwardBefore DEF Pcs
  <1>5. Resolved(exec[w])'
    BY <1>1, <1>2, <1>3, <1>4 DEF Progress, Resolved, Between, Set
  <1>6. Fetched(exec[w])'
    BY <1>1, <1>2, <1>3, <1>4 DEF Progress, Fetched, Before, Quiet, Late
  <1>7. stale' \subseteq {Plans[i] : i \in 1..Len(Plans)}
    BY <1>2 DEF Inv, Whole
  <1>8. ~zombies => \A i \in 1..e.at : Plans[i] \notin stale'
    BY <1>1, <1>2 DEF Progress, Asked
  <1>9. Asked(exec[w])'
    BY <1>1, <1>2, <1>3, <1>4, <1>7, <1>8 DEF Asked
  <1>10. Kept
    BY <1>2 DEF Kept
  <1>11. Progress(exec[w])' /\ exec[w].pc \notin Quiet
    BY <1>1, <1>5, <1>6, <1>9 DEF Progress, Quiet
  <1> HIDE DEF e, f
  <1> QED BY <1>2, <1>3, <1>7, <1>10, <1>11, AtWork

LEMMA CompleteInv ==
    ASSUME Inv, HeldInv', NEW w \in Workers, Complete(w)
    PROVE  Inv'
  <1> DEFINE e == exec[w]
  <1>1. e \in Execs /\ Progress(e) /\ e.pc = "views" /\ e.left = {}
    BY DEF Inv, HeldInv, Typed, Progress, Complete, Fetched, Late
  <1>2. /\ exec' = [exec EXCEPT ![w] = Idle] /\ UNCHANGED <<rowVars, zombies>>
        /\ status' = "completed" /\ whole' = [ids |-> e.ids, pairs |-> e.pairs]
    BY DEF Complete, StepsTo
  <1>3. exec'[w] = Idle /\ \A v \in Workers \ {w} : exec'[v] = exec[v]
    BY <1>2 DEF Inv, HeldInv, Typed
  <1>4. \A v \in Workers : Progress(exec[v])'
    BY <1>2, <1>3, IdleProgress, Bystander DEF rowVars
  <1>5. CompletedIsWhole'
    BY <1>1, <1>2 DEF CompletedIsWhole, Progress, Fetched, Resolved, Asked, Set, Between, rowVars
  <1>6. ~zombies => \A v \in Workers : exec'[v].pc \in Quiet
    BY <1>1, <1>3 DEF Inv, HeldInv, Held, Quiet, Idle
  <1>7. Whole'
    BY <1>1, <1>2, <1>5, <1>6 DEF Inv, Whole, Execs, rowVars
  <1> QED BY <1>4, <1>7 DEF Inv

(* Whoever else edits leaves the executors where they are.                   *)
LEMMA OutsideInv ==
    ASSUME Inv, HeldInv', UNCHANGED <<status, rows, stale, exec, whole>>,
           \/ UNCHANGED <<ref, edited, zombies>>
           \/ zombies' /\ UNCHANGED <<ref, edited>>
           \/ \E r \in Records : ref' = [ref EXCEPT ![r] = NoId] /\ edited' = edited \cup {r}
                                  /\ zombies' = zombies
    PROVE  Inv'
  <1>1. zombies => zombies'
    OBVIOUS
  <1>2. ASSUME NEW p, p[1] \in Records, Set(p) PROVE Set(p)'
    BY <1>2 DEF Set, Inv, HeldInv, Typed
  <1>3. ASSUME NEW v \in Workers PROVE Progress(exec[v])'
    <2>1. Progress(exec[v]) /\ exec[v] \in Execs
      BY DEF Inv, HeldInv, Typed
    <2>2. Fetched(exec[v])'
      BY <2>1 DEF Progress, Fetched, Before
    <2>3. \A p \in Between(exec[v].ids, exec[v].pairs) : Set(p) => Set(p)'
      BY <1>2, <2>1, BetweenRecords DEF Execs
    <2>4. Resolved(exec[v])'
      BY <2>1, <2>3 DEF Progress, Resolved, Between, Before
    <2>5. Asked(exec[v])'
      BY <1>1, <2>1 DEF Progress, Asked
    <2> QED BY <2>2, <2>4, <2>5 DEF Progress
  <1>4. \A p \in Between(whole.ids, whole.pairs) : Set(p) => Set(p)'
    BY <1>2, BetweenRecords DEF Inv, Whole
  <1>5. Whole'
    BY <1>1, <1>4 DEF Inv, Whole, CompletedIsWhole, Between
  <1> QED BY <1>3, <1>5 DEF Inv

LEMMA InvNext == Inv /\ [Next]_vars => Inv'
  <1> SUFFICES ASSUME Inv, [Next]_vars PROVE Inv'
    OBVIOUS
  <1>0. HeldInv' /\ \A w \in Workers : exec[w] \in Execs
    BY HeldNext DEF Inv, HeldInv, Typed
  <1>1. CASE Execute \/ Evict \/ UNCHANGED vars
    BY <1>0, <1>1, OutsideInv DEF Execute, Evict, vars, rowVars
  <1>2. ASSUME NEW w \in Workers, Deliver(w) PROVE Inv'
    <2>1. exec[w] = [Idle EXCEPT !.pc = exec[w].pc] /\ exec[w].pc = "idle"
      BY <1>2, QuietIsIdle DEF Deliver, Quiet
    <2>2. exec' = [exec EXCEPT ![w].pc = "client"] /\ UNCHANGED <<status, rowVars, whole, zombies>>
      BY <1>2 DEF Deliver
    <2>3. exec'[w] = [Idle EXCEPT !.pc = "client"] /\ \A v \in Workers \ {w} : exec'[v] = exec[v]
      BY <2>1, <2>2 DEF Inv, HeldInv, Typed, Idle
    <2> QED BY <1>0, <2>2, <2>3, IdleProgress, AtRest
  <1>3. ASSUME NEW w \in Workers, Client(w) PROVE Inv'
    <2>1. exec[w] = [Idle EXCEPT !.pc = exec[w].pc]
      BY <1>3, QuietIsIdle DEF Client, Quiet
    <2>2. /\ UNCHANGED <<status, rowVars, whole, zombies>>
          /\ \/ exec' = [exec EXCEPT ![w] = [exec[w] EXCEPT !.pc = "start"]]
             \/ exec' = [exec EXCEPT ![w] = Idle]
      BY <1>3 DEF Client, StepsTo
    <2>3. /\ exec'[w] \in {Idle, [Idle EXCEPT !.pc = "start"]}
          /\ \A v \in Workers \ {w} : exec'[v] = exec[v]
      BY <2>1, <2>2 DEF Inv, HeldInv, Typed, Idle
    <2> QED BY <1>0, <2>2, <2>3, IdleProgress, AtRest
  <1>4. ASSUME NEW w \in Workers, Throw(w) \/ Catch(w) \/ Crash(w) PROVE Inv'
    <2>1. /\ UNCHANGED <<rowVars, whole, zombies>> /\ status' \in {status, "failed"}
          /\ \/ exec' = [exec EXCEPT ![w] = [Idle EXCEPT !.pc = "catch"]]
             \/ exec' = [exec EXCEPT ![w] = Idle]
      BY <1>4 DEF Throw, Catch, Crash, StepsTo
    <2>2. /\ exec'[w] \in {Idle, [Idle EXCEPT !.pc = "catch"]}
          /\ \A v \in Workers \ {w} : exec'[v] = exec[v]
      BY <2>1 DEF Inv, HeldInv, Typed
    <2> QED BY <1>0, <2>1, <2>2, IdleProgress, AtRest
  <1>5. ASSUME NEW w \in Workers, Import(w) PROVE Inv'
    BY <1>0, <1>3, <1>4, <1>5, StartInv, SelectInv, FlushInv, ResolvingInv, ResolveInv, AskInv,
       CompleteInv DEF Import
  <1>6. ASSUME NEW w \in Workers, Stall(w) PROVE Inv'
    BY <1>0, <1>6, OutsideInv DEF Stall, rowVars
  <1>7. ASSUME NEW r \in Records, UserEdit(r) PROVE Inv'
    BY <1>0, <1>7, OutsideInv DEF UserEdit
  <1>8. ASSUME NEW g \in Graphs, SfEdit(g) PROVE Inv'
    BY <1>0, <1>8, OutsideInv DEF SfEdit, rowVars
  <1> QED BY <1>1, <1>2, <1>4, <1>5, <1>6, <1>7, <1>8 DEF Next

LEMMA InvInit == Init => Inv
  <1> SUFFICES ASSUME Init PROVE Inv
    OBVIOUS
  <1>1. HeldInv /\ Whole
    BY HeldInit DEF Init, Whole, CompletedIsWhole, Nothing
  <1>2. \A w \in Workers : Progress(exec[w])
    BY DEF Init, Idle, Quiet, Late, Progress, Fetched, Resolved, Asked
  <1> QED BY <1>1, <1>2 DEF Inv

(* A run is called completed only when its rows and references are there and *)
(* their backfills asked for (import.ts:291-358).                            *)
THEOREM CompletedRunsAreWhole == Spec => []CompletedIsWhole
  <1>1. Inv => CompletedIsWhole
    BY DEF Inv, Whole
  <1> QED BY <1>1, InvInit, InvNext, PTL DEF Spec
=============================================================================
