--------------------------- MODULE FlowRuns_proofs ---------------------------
(***************************************************************************)
(* Invariance proofs about FlowRuns, for every set of runs and worker      *)
(* slots, every graph, every bound and every number of crashes, whether or *)
(* not the sweeper may catch a live worker (SlowNodes) and sees the rows   *)
(* (Asked); and that the engine implements FlowRunLifecycle.               *)
(***************************************************************************)
EXTENDS FlowRuns, FiniteSetTheorems, TLAPS

(* Exactly the acting nodes before position n have been performed, once.     *)
Ran(r, n) == \A i \in Nodes : effects[r][i] = IF i < n /\ Script[i] = "act" THEN 1 ELSE 0

Positions == 1..(Len(Script) + 1)

(* A worker that drives a run holds a row nobody else can claim, and knows   *)
(* how far the run has got.                                                  *)
JobInv(w) ==
    LET j == job[w] IN
    j.pc \in Driving =>
        /\ status[j.run] \in {"running", "failed", "gone"}
        /\ j.pc = "load" => Ran(j.run, StartAt(j.run))
        /\ j.pc \in {"exec", "park"} => Ran(j.run, j.at)
        /\ j.pc = "emit" /\ j.result = "ok" => Ran(j.run, j.at + 1)
        /\ j.pc = "emit" /\ j.result = "park" => Ran(j.run, j.at)
        /\ j.pc = "park" \/ (j.pc = "emit" /\ j.result = "park") => parks[j.run] < MaxParks
        /\ j.pc = "finish" /\ j.result = "ok" => Ran(j.run, Len(Script) + 1)

(* What the row of an unclaimed run says about its effects.                  *)
RowInv(r) ==
    /\ status[r] \in {"none", "queued"} => cursor[r] = 0 /\ Ran(r, 1)
    /\ status[r] = "waiting" => cursor[r] # 0 /\ Ran(r, cursor[r])
    /\ status[r] = "completed" => Ran(r, Len(Script) + 1)
    /\ \E n \in Positions : Ran(r, n)

IInv ==
    /\ TypeOK
    /\ SingleDriver
    /\ \A w \in Workers : JobInv(w)
    /\ \A r \in Runs : RowInv(r)

-----------------------------------------------------------------------------
LEMMA ScriptFacts ==
    /\ Len(Script) \in Nat \ {0}
    /\ Nodes = 1..Len(Script)
    /\ 1 \in Nodes
    /\ Len(Script) + 1 \in Positions /\ Nodes \subseteq Positions
BY ScriptAssumption DEF Nodes, Positions

LEMMA InitInv == Init => IInv
<1> SUFFICES ASSUME Init PROVE IInv
    OBVIOUS
<1> USE ScriptFacts, BoundAssumption
<1>1. TypeOK
    BY DEF Init, TypeOK, Idle, JobType, Live, Terminal, Driving, Outcomes, Tokens
<1>2. SingleDriver
    BY DEF Init, SingleDriver, Drives, Driving, Idle
<1>3. \A w \in Workers : JobInv(w)
    BY DEF Init, JobInv, Driving, Idle
<1>4. \A r \in Runs : RowInv(r)
    BY DEF Init, RowInv, Ran, Positions
<1> QED BY <1>1, <1>2, <1>3, <1>4 DEF IInv

(* Steps that leave the rows and the workers alone.                          *)
LEMMA QueueStep ==
    ASSUME IInv, UNCHANGED <<status, cursor, effects, parks, job>>, TypeOK'
    PROVE  IInv'
BY DEF IInv, SingleDriver, Drives, JobInv, RowInv, Ran, StartAt

(* Steps that only change the status of one row nobody drives.               *)
LEMMA StatusStep ==
    ASSUME IInv, NEW r \in Runs, NEW s,
           status' = [status EXCEPT ![r] = s],
           UNCHANGED <<cursor, effects, parks, job>>, TypeOK',
           \/ s \in {"failed", "gone"}
           \/ s = "cancelled" /\ status[r] \in {"queued", "waiting"}
           \/ s = "queued" /\ status[r] = "none"
    PROVE  IInv'
<1>1. SingleDriver'
    BY DEF IInv, SingleDriver, Drives
<1>2. ASSUME NEW w \in Workers PROVE JobInv(w)'
  <2>1. CASE job[w].pc \notin Driving
      BY <2>1 DEF JobInv
  <2>2. CASE job[w].pc \in Driving
    <3>1. PICK q \in Runs : q = job[w].run
        BY <2>2 DEF IInv, TypeOK, Driving
    <3>2. JobInv(w) /\ status[q] \in {"running", "failed", "gone"}
        BY <2>2, <3>1 DEF IInv, JobInv
    <3>3. status'[q] \in {"running", "failed", "gone"}
        BY <3>2 DEF IInv, TypeOK
    <3>4. StartAt(q)' = StartAt(q) /\ \A n : Ran(q, n)' <=> Ran(q, n)
        BY DEF Ran, StartAt
    <3> QED BY <2>2, <3>1, <3>2, <3>3, <3>4 DEF JobInv
  <2> QED BY <2>1, <2>2
<1>3. ASSUME NEW q \in Runs PROVE RowInv(q)'
  <2>1. RowInv(q) /\ \A n : Ran(q, n)' <=> Ran(q, n)
      BY DEF IInv, Ran
  <2>2. status'[q] = IF q = r THEN s ELSE status[q]
      BY DEF IInv, TypeOK
  <2>3. (\E n \in Positions : Ran(q, n))'
      BY <2>1 DEF RowInv, Positions
  <2>4. s # "waiting" /\ s # "completed" /\ s # "none"
      OBVIOUS
  <2>5. status'[q] \in {"none", "queued"} => status[q] \in {"none", "queued"}
      BY <2>2
  <2> QED BY <2>1, <2>2, <2>3, <2>4, <2>5 DEF RowInv
<1> QED BY <1>1, <1>2, <1>3 DEF IInv

(* Steps of one worker that neither touch a row nor start to drive one.      *)
LEMMA SlotStep ==
    ASSUME IInv, NEW w \in Workers, NEW j, j.pc \notin Driving,
           job' = [job EXCEPT ![w] = j],
           UNCHANGED <<status, cursor, effects, parks>>, TypeOK'
    PROVE  IInv'
<1>1. SingleDriver'
    BY DEF IInv, TypeOK, SingleDriver, Drives
<1>2. ASSUME NEW v \in Workers PROVE JobInv(v)'
    BY DEF IInv, TypeOK, JobInv, Ran, StartAt
<1>3. ASSUME NEW q \in Runs PROVE RowInv(q)'
    BY DEF IInv, RowInv, Ran
<1> QED BY <1>1, <1>2, <1>3 DEF IInv

-----------------------------------------------------------------------------
(* Typing of the parts a step of a worker changes.                           *)
LEMMA JobTyped ==
    ASSUME TypeOK, NEW w \in Workers
    PROVE  /\ job[w] \in JobType
           /\ job[w].pc # "idle" => job[w].run \in Runs
           /\ Idle \in JobType
BY ScriptFacts, BoundAssumption DEF TypeOK, Idle, JobType, Driving, Outcomes, Tokens

LEMMA SlotTyped ==
    ASSUME TypeOK, NEW w \in Workers, NEW j \in JobType,
           j.pc # "idle" => j.run \in Runs,
           job' = [job EXCEPT ![w] = j],
           UNCHANGED <<dbVars, queueVars, dead, crashes>>
    PROVE  TypeOK'
BY DEF TypeOK, dbVars, queueVars

LEMMA ReadyTyped ==
    ASSUME TypeOK, NEW r \in Runs, NEW t \in Tokens, NEW n \in 0..1, Enqueue(r, t, n)
    PROVE  ready' \in [Runs -> [Tokens -> Nat]]
BY DEF TypeOK, Enqueue

-----------------------------------------------------------------------------
(* Producers, the clock, the sweeper and the operators.                      *)
LEMMA DispatchInv == ASSUME IInv, NEW r \in Runs, Dispatch(r) PROVE IInv'
<1>1. PICK n \in 0..1 : Enqueue(r, 0, n)
    BY DEF Dispatch
<1>2. ready' \in [Runs -> [Tokens -> Nat]]
    BY <1>1, ReadyTyped, BoundAssumption DEF IInv, Tokens
<1>3. TypeOK'
    BY <1>2 DEF IInv, TypeOK, Dispatch, Live
<1> QED BY <1>3, StatusStep DEF Dispatch

LEMMA ElapseInv == ASSUME IInv, NEW r \in Runs, Elapse(r) PROVE IInv'
<1>1. TypeOK'
    BY DEF IInv, TypeOK, Elapse, queueVars
<1> QED BY <1>1, QueueStep DEF Elapse

LEMMA TimerFiresInv == ASSUME IInv, NEW r \in Runs, NEW t \in Tokens, TimerFires(r, t) PROVE IInv'
<1>1. Enqueue(r, t, 1) /\ timer' \subseteq timer /\ UNCHANGED <<dbVars, job, dead, crashes>>
    BY DEF TimerFires
<1>2. ready' \in [Runs -> [Tokens -> Nat]]
    BY <1>1, ReadyTyped DEF IInv
<1>3. TypeOK'
    BY <1>1, <1>2 DEF IInv, TypeOK, dbVars
<1> QED BY <1>1, <1>3, QueueStep DEF dbVars

LEMMA SweepInv == ASSUME IInv, NEW r \in Runs, Sweep(r) PROVE IInv'
<1>1. CASE SweepQueued(r)
  <2>1. TypeOK'
    <3>1. ready' \in [Runs -> [Tokens -> Nat]]
        BY <1>1, ReadyTyped, BoundAssumption DEF IInv, SweepQueued, Tokens
    <3> QED BY <1>1, <3>1 DEF IInv, TypeOK, SweepQueued, dbVars
  <2> QED BY <1>1, <2>1, QueueStep DEF SweepQueued, dbVars
<1>2. CASE SweepOverdue(r)
  <2>1. TypeOK'
    <3>1. ready' \in [Runs -> [Tokens -> Nat]]
        BY <1>2, ReadyTyped DEF IInv, TypeOK, SweepOverdue
    <3> QED BY <1>2, <3>1 DEF IInv, TypeOK, SweepOverdue, dbVars
  <2> QED BY <1>2, <2>1, QueueStep DEF SweepOverdue, dbVars
<1>3. CASE SweepFail(r)
  <2>1. TypeOK'
      BY <1>3 DEF IInv, TypeOK, SweepFail, queueVars, Live, Terminal
  <2>2. CASE status[r] \in Live
      BY <1>3, <2>1, <2>2, StatusStep DEF SweepFail
  <2>3. CASE status[r] \notin Live
    <3>1. status' = status
        BY <1>3, <2>3 DEF SweepFail, IInv, TypeOK
    <3> QED BY <1>3, <2>1, <3>1, QueueStep DEF SweepFail
  <2> QED BY <2>2, <2>3
<1> QED BY <1>1, <1>2, <1>3 DEF Sweep

LEMMA SweepScanInv == ASSUME IInv, SweepScan PROVE IInv'
<1>1. TypeOK'
    BY DEF IInv, TypeOK, SweepScan, StaleRunning, Visible, dbVars, queueVars
<1> QED BY <1>1, QueueStep DEF SweepScan, dbVars

LEMMA OperateInv == ASSUME IInv, NEW r \in Runs, Operate(r) PROVE IInv'
<1>1. CASE UserCancel(r)
  <2>1. TypeOK'
      BY <1>1 DEF IInv, TypeOK, UserCancel, queueVars, Terminal
  <2> QED BY <1>1, <2>1, StatusStep DEF UserCancel, Cancellable
<1>2. CASE UserResume(r)
  <2>1. TypeOK'
      BY <1>2, ReadyTyped DEF IInv, TypeOK, UserResume
  <2> QED BY <1>2, <2>1, QueueStep DEF UserResume
<1>3. CASE RemoveFlow(r)
  <2>1. TypeOK'
      BY <1>3 DEF IInv, TypeOK, RemoveFlow, queueVars
  <2> QED BY <1>3, <2>1, StatusStep DEF RemoveFlow
<1> QED BY <1>1, <1>2, <1>3 DEF Operate

-----------------------------------------------------------------------------
(* Worker steps that do not drive a run.                                     *)
LEMMA SlotOnlyStep ==
    ASSUME IInv, NEW w \in Workers, NEW j \in JobType, j.pc \notin Driving,
           j.pc # "idle" => j.run \in Runs,
           job' = [job EXCEPT ![w] = j], UNCHANGED <<dbVars, queueVars, dead, crashes>>
    PROVE  IInv'
<1>1. TypeOK'
    BY SlotTyped DEF IInv
<1> QED BY <1>1, SlotStep DEF dbVars

LEMMA TakeJobInv ==
    ASSUME IInv, NEW w \in Workers, NEW r \in Runs, NEW t \in Tokens, TakeJob(w, r, t)
    PROVE  IInv'
<1> DEFINE j == [job[w] EXCEPT !.run = r, !.tok = t,
                               !.pc = IF AtCap THEN "redelay" ELSE "claim"]
<1>1. j \in JobType /\ j.pc \in {"redelay", "claim"} /\ j.run = r
    BY JobTyped DEF IInv, JobType
<1>2. job' = [job EXCEPT ![w] = j]
    BY DEF TakeJob
<1>3. ready' \in [Runs -> [Tokens -> Nat]]
    BY DEF TakeJob, IInv, TypeOK
<1>4. TypeOK'
    BY <1>1, <1>2, <1>3 DEF TakeJob, IInv, TypeOK, dbVars
<1> HIDE DEF j
<1> QED BY <1>1, <1>2, <1>4, SlotStep DEF TakeJob, dbVars, Driving

LEMMA IdleFacts == Idle.pc = "idle" /\ Idle.pc \notin Driving
BY DEF Idle, Driving

LEMMA RedelayInv == ASSUME IInv, NEW w \in Workers, Redelay(w) PROVE IInv'
<1>1. job[w].run \in Runs /\ job[w].tok \in Tokens
    BY JobTyped DEF Redelay, IInv, JobType
<1>2. ready' \in [Runs -> [Tokens -> Nat]]
    BY <1>1, ReadyTyped DEF Redelay, IInv
<1>3. TypeOK'
    BY <1>2, JobTyped, IdleFacts DEF Redelay, IInv, TypeOK, dbVars
<1> QED BY <1>3, SlotStep, IdleFacts DEF Redelay, dbVars

LEMMA ArmInv == ASSUME IInv, NEW w \in Workers, Arm(w) PROVE IInv'
<1>1. job[w].run \in Runs /\ job[w].mint \in Tokens
    BY JobTyped DEF Arm, IInv, JobType
<1>2. TypeOK'
    BY <1>1, JobTyped, IdleFacts DEF Arm, IInv, TypeOK, dbVars
<1> QED BY <1>2, SlotStep, IdleFacts DEF Arm, dbVars

LEMMA CrashInv == ASSUME IInv, NEW w \in Workers, Crash(w) PROVE IInv'
<1>1. job[w].run \in Runs /\ job[w].tok \in Tokens
    BY JobTyped DEF Crash, IInv, JobType
<1>2. ready' \in [Runs -> [Tokens -> Nat]]
    BY <1>1, ReadyTyped DEF Crash, IInv
<1>3. crashes' \in 0..MaxCrashes
    BY BoundAssumption DEF Crash, IInv, TypeOK
<1>4. TypeOK'
    BY <1>2, <1>3, JobTyped, IdleFacts DEF Crash, IInv, TypeOK, dbVars
<1> QED BY <1>4, SlotStep, IdleFacts DEF Crash, dbVars

LEMMA DropInv == ASSUME IInv, NEW w \in Workers, ClaimLost(w) \/ ParkLost(w) PROVE IInv'
<1>1. job' = [job EXCEPT ![w] = Idle] /\ UNCHANGED <<dbVars, queueVars, dead, crashes>>
    BY DEF ClaimLost, ParkLost
<1> QED BY <1>1, SlotOnlyStep, JobTyped, IdleFacts DEF IInv

-----------------------------------------------------------------------------
(* Worker steps that drive run r: nobody else drives it, so the rest of the  *)
(* invariant is undisturbed.                                                 *)
LEMMA DriveStep ==
    ASSUME IInv, NEW w \in Workers, NEW r \in Runs,
           \A v \in Workers : Drives(v, r) => v = w,
           \A q \in Runs \ {r} : /\ status'[q] = status[q] /\ cursor'[q] = cursor[q]
                                 /\ effects'[q] = effects[q] /\ parks'[q] = parks[q],
           \A v \in Workers \ {w} : job'[v] = job[v],
           job'[w].pc \in Driving => job'[w].run = r,
           TypeOK', JobInv(w)', RowInv(r)'
    PROVE  IInv'
<1>1. SingleDriver'
  <2> SUFFICES ASSUME NEW q \in Runs, NEW u \in Workers, NEW v \in Workers,
                      Drives(u, q)', Drives(v, q)'
               PROVE  u = v
      BY DEF SingleDriver
  <2>1. CASE q = r
      BY <2>1 DEF Drives
  <2>2. CASE q # r
      BY <2>2 DEF IInv, SingleDriver, Drives
  <2> QED BY <2>1, <2>2
<1>2. ASSUME NEW v \in Workers PROVE JobInv(v)'
  <2>1. CASE v = w
      BY <2>1
  <2>2. CASE v # w /\ job[v].pc \notin Driving
      BY <2>2 DEF JobInv
  <2>3. CASE v # w /\ job[v].pc \in Driving
    <3>1. job[v].run \in Runs \ {r} /\ job'[v] = job[v]
        BY <2>3 DEF IInv, TypeOK, Drives, Driving
    <3>2. JobInv(v)
        BY DEF IInv
    <3> QED BY <3>1, <3>2 DEF JobInv, Ran, StartAt
  <2> QED BY <2>1, <2>2, <2>3
<1>3. ASSUME NEW q \in Runs PROVE RowInv(q)'
  <2>1. CASE q = r
      BY <2>1
  <2>2. CASE q # r
    <3>1. RowInv(q)
        BY DEF IInv
    <3>2. \A n : Ran(q, n)' <=> Ran(q, n)
        BY <2>2 DEF Ran
    <3>3. (\E n \in Positions : Ran(q, n))'
        BY <3>1, <3>2 DEF RowInv, Positions
    <3> QED BY <2>2, <3>1, <3>2, <3>3 DEF RowInv
  <2> QED BY <2>1, <2>2
<1> QED BY <1>1, <1>2, <1>3 DEF IInv

(* The driver of a run is alone with it.                                     *)
LEMMA Alone ==
    ASSUME IInv, NEW w \in Workers, job[w].pc \in Driving
    PROVE  /\ job[w] \in JobType /\ job[w].run \in Runs
           /\ \A v \in Workers : Drives(v, job[w].run) => v = w
           /\ JobInv(w) /\ RowInv(job[w].run)
BY JobTyped DEF IInv, SingleDriver, Drives, Driving

LEMMA ClaimInv == ASSUME IInv, NEW w \in Workers, Claim(w) PROVE IInv'
<1>1. PICK r \in Runs : r = job[w].run
    BY JobTyped DEF IInv, Claim
<1>2. status[r] \in {"queued", "waiting"} /\ RowInv(r)
    BY <1>1 DEF Claim, Claimable, IInv
<1>3. \A v \in Workers : Drives(v, r) => v = w
    BY <1>2 DEF IInv, JobInv, Drives
<1>4. PICK j \in JobType : j = [job[w] EXCEPT !.pc = "load"]
    BY JobTyped DEF IInv, JobType, Driving
<1>5. j.pc = "load" /\ j.run = r /\ job' = [job EXCEPT ![w] = j]
    BY <1>1, <1>4, JobTyped DEF JobType, Claim, IInv
<1>6. /\ status' = [status EXCEPT ![r] = "running"]
      /\ token' = [token EXCEPT ![r] = 0]
      /\ elapsed' = elapsed \ {r}
      /\ UNCHANGED <<cursor, effects, parks, skip, ready, timer, dead, crashes>>
    BY <1>1 DEF Claim, queueVars
<1>7. job'[w] = j /\ status'[r] = "running"
    BY <1>5, <1>6 DEF IInv, TypeOK
<1>8. TypeOK'
    BY <1>5, <1>6, BoundAssumption DEF IInv, TypeOK, Live, Tokens
<1>9. JobInv(w)'
  <2>1. Ran(r, StartAt(r))
      BY <1>1, <1>2, ScriptFacts DEF RowInv, StartAt
  <2> QED BY <1>5, <1>6, <1>7, <2>1 DEF JobInv, Ran, StartAt
<1>10. RowInv(r)'
  <2>1. \A n : Ran(r, n)' <=> Ran(r, n)
      BY <1>6 DEF Ran
  <2>2. (\E n \in Positions : Ran(r, n))'
      BY <1>2, <2>1 DEF RowInv, Positions
  <2> QED BY <1>7, <2>2 DEF RowInv
<1> QED BY <1>3, <1>5, <1>6, <1>7, <1>8, <1>9, <1>10, DriveStep DEF IInv, TypeOK

(* The driver only changes its own slot.                                     *)
LEMMA DriverSlotStep ==
    ASSUME IInv, NEW w \in Workers, job[w].pc \in Driving,
           NEW j \in JobType, j.pc \in Driving, j.run = job[w].run,
           job' = [job EXCEPT ![w] = j],
           UNCHANGED <<status, cursor, effects, parks>>, TypeOK', JobInv(w)'
    PROVE  IInv'
<1>1. PICK r \in Runs : r = job[w].run
    BY Alone
<1>2. RowInv(r) /\ \A v \in Workers : Drives(v, r) => v = w
    BY <1>1, Alone
<1>3. RowInv(r)'
  <2>1. \A n : Ran(r, n)' <=> Ran(r, n)
      BY DEF Ran
  <2>2. (\E n \in Positions : Ran(r, n))'
      BY <1>2, <2>1 DEF RowInv, Positions
  <2> QED BY <1>2, <2>1, <2>2 DEF RowInv
<1>4. job'[w] = j
    BY DEF IInv, TypeOK
<1> QED BY <1>1, <1>2, <1>3, <1>4, DriveStep DEF IInv, TypeOK

LEMMA LoadInv == ASSUME IInv, NEW w \in Workers, Load(w) PROVE IInv'
<1>1. job[w].pc = "load" /\ job[w].pc \in Driving
    BY DEF Load, Driving
<1>2. PICK r \in Runs : r = job[w].run
    BY <1>1, Alone
<1>3. StartAt(r) \in Nodes
    BY ScriptFacts DEF IInv, TypeOK, StartAt
<1>4. PICK j \in JobType :
          j = [job[w] EXCEPT !.pc = "exec", !.at = StartAt(r), !.resuming = cursor[r] # 0]
    BY <1>1, <1>3, Alone DEF JobType, Driving
<1>5. /\ job' = [job EXCEPT ![w] = j]
      /\ UNCHANGED <<dbVars, queueVars, dead, crashes>>
    BY <1>2, <1>4 DEF Load
<1>6. j.pc = "exec" /\ j.pc \in Driving /\ j.run = r /\ j.at = StartAt(r)
    BY <1>1, <1>2, <1>4, Alone DEF JobType, Driving
<1>7. TypeOK'
    BY <1>5, <1>6, SlotTyped DEF IInv
<1>8. JobInv(w)'
  <2>1. status[r] \in {"running", "failed", "gone"} /\ Ran(r, StartAt(r))
      BY <1>1, <1>2, Alone DEF JobInv
  <2>2. job'[w] = j
      BY <1>5 DEF IInv, TypeOK
  <2>3. Ran(r, StartAt(r))'
      BY <1>5, <2>1 DEF Ran, StartAt, dbVars
  <2> QED BY <1>5, <1>6, <2>1, <2>2, <2>3 DEF JobInv, dbVars, StartAt, Ran
<1> QED BY <1>1, <1>2, <1>5, <1>6, <1>7, <1>8, DriverSlotStep DEF dbVars

LEMMA FatalInv == ASSUME IInv, NEW w \in Workers, Fatal(w) PROVE IInv'
<1>1. job[w].pc \in Driving
    BY DEF Fatal, Driving
<1>2. PICK j \in JobType : j = [job[w] EXCEPT !.pc = "finish", !.result = "fatal"]
    BY <1>1, Alone DEF JobType, Driving, Outcomes
<1>3. /\ job' = [job EXCEPT ![w] = j]
      /\ UNCHANGED <<dbVars, queueVars, dead, crashes>>
    BY <1>2 DEF Fatal
<1>4. j.pc = "finish" /\ j.pc \in Driving /\ j.run = job[w].run /\ j.result = "fatal"
    BY <1>1, <1>2, Alone DEF JobType, Driving
<1>5. TypeOK'
    BY <1>1, <1>3, <1>4, SlotTyped, Alone DEF IInv
<1>6. JobInv(w)'
  <2>1. status[job[w].run] \in {"running", "failed", "gone"}
      BY <1>1, Alone DEF JobInv
  <2>2. job'[w] = j
      BY <1>3 DEF IInv, TypeOK
  <2> QED BY <1>3, <1>4, <2>1, <2>2 DEF JobInv, dbVars
<1> QED BY <1>1, <1>3, <1>4, <1>5, <1>6, DriverSlotStep DEF dbVars

LEMMA ExecWaitInv == ASSUME IInv, NEW w \in Workers, ExecWait(w) PROVE IInv'
<1>1. job[w].pc = "exec" /\ job[w].pc \in Driving
    BY DEF ExecWait, Driving
<1>2. PICK r \in Runs : r = job[w].run
    BY <1>1, Alone
<1>3. PICK o \in WaitOutcomes(Script[job[w].at], job[w].resuming) :
          /\ o = "park" => parks[r] < MaxParks
          /\ job' = [job EXCEPT ![w] = [@ EXCEPT !.pc = "emit", !.result = o]]
    BY <1>2 DEF ExecWait
<1>4. o \in Outcomes
    BY DEF WaitOutcomes, Outcomes
<1>5. PICK j \in JobType : j = [job[w] EXCEPT !.pc = "emit", !.result = o]
    BY <1>1, <1>4, Alone DEF JobType, Driving
<1>6. /\ job' = [job EXCEPT ![w] = j]
      /\ UNCHANGED <<dbVars, queueVars, dead, crashes>>
    BY <1>3, <1>5 DEF ExecWait
<1>7. j.pc = "emit" /\ j.pc \in Driving /\ j.run = r /\ j.result = o /\ j.at = job[w].at
    BY <1>1, <1>2, <1>5, Alone DEF JobType, Driving
<1>8. TypeOK'
    BY <1>6, <1>7, SlotTyped DEF IInv
<1>9. JobInv(w)'
  <2>1. status[r] \in {"running", "failed", "gone"} /\ Ran(r, j.at)
      BY <1>1, <1>2, <1>7, Alone DEF JobInv
  <2>2. job'[w] = j
      BY <1>6 DEF IInv, TypeOK
  <2>3. Script[j.at] # "act" /\ j.at \in Nodes
      BY <1>7, <1>1, Alone DEF ExecWait, JobType
  <2>4. Ran(r, j.at + 1)
    <3> SUFFICES ASSUME NEW i \in Nodes
                 PROVE  effects[r][i] = IF i < j.at + 1 /\ Script[i] = "act" THEN 1 ELSE 0
        BY DEF Ran
    <3>1. CASE i = j.at
        BY <2>1, <2>3, <3>1, ScriptFacts DEF Ran
    <3>2. CASE i # j.at
        BY <2>1, <2>3, <3>2, ScriptFacts DEF Ran
    <3> QED BY <3>1, <3>2
  <2>5. Ran(r, j.at)' /\ Ran(r, j.at + 1)'
      BY <1>6, <2>1, <2>4 DEF Ran, dbVars
  <2> QED BY <1>3, <1>6, <1>7, <2>1, <2>2, <2>5 DEF JobInv, dbVars
<1> QED BY <1>1, <1>2, <1>6, <1>7, <1>8, <1>9, DriverSlotStep DEF dbVars

LEMMA EmitStepInv == ASSUME IInv, NEW w \in Workers, EmitStep(w) PROVE IInv'
<1>1. job[w].pc = "emit" /\ job[w].pc \in Driving
    BY DEF EmitStep, Driving
<1>2. PICK r \in Runs : r = job[w].run
    BY <1>1, Alone
<1> DEFINE moved == job[w].result = "ok" /\ job[w].at < Len(Script)
<1>3. PICK j \in JobType :
          j = IF moved
              THEN [job[w] EXCEPT !.pc = "exec", !.at = @ + 1, !.resuming = FALSE]
              ELSE [job[w] EXCEPT !.pc = IF job[w].result = "park" THEN "park" ELSE "finish"]
  <2>1. moved => job[w].at + 1 \in Nodes
      BY <1>1, Alone, ScriptFacts DEF JobType
  <2> QED BY <1>1, <2>1, Alone DEF JobType, Driving
<1>4. /\ job' = [job EXCEPT ![w] = j]
      /\ elapsed' = elapsed \ {r}
      /\ UNCHANGED <<status, token, cursor, effects, parks, skip, ready, timer, dead, crashes>>
    BY <1>2, <1>3 DEF EmitStep, HasNext, queueVars
<1>5. /\ j.pc \in Driving /\ j.run = r /\ j.result = job[w].result
      /\ moved => j.pc = "exec" /\ j.at = job[w].at + 1 /\ j.result = "ok"
      /\ ~moved => j.at = job[w].at /\ j.pc = IF j.result = "park" THEN "park" ELSE "finish"
    BY <1>1, <1>2, <1>3, Alone DEF JobType, Driving
<1>6. TypeOK'
    BY <1>4, <1>5 DEF IInv, TypeOK
<1>7. JobInv(w)'
  <2>1. /\ status[r] \in {"running", "failed", "gone"}
        /\ job[w].result = "ok" => Ran(r, job[w].at + 1)
        /\ job[w].result = "park" => Ran(r, job[w].at) /\ parks[r] < MaxParks
      BY <1>1, <1>2, Alone DEF JobInv
  <2>2. job'[w] = j
      BY <1>4 DEF IInv, TypeOK
  <2>3. ~moved /\ job[w].result = "ok" => job[w].at + 1 = Len(Script) + 1
      BY <1>1, Alone, ScriptFacts DEF JobType
  <2>4. \A n : Ran(r, n)' <=> Ran(r, n)
      BY <1>4 DEF Ran
  <2> HIDE DEF moved
  <2> QED BY <1>4, <1>5, <2>1, <2>2, <2>3, <2>4 DEF JobInv
<1> QED BY <1>1, <1>2, <1>4, <1>5, <1>6, <1>7, DriverSlotStep

LEMMA ParkInv == ASSUME IInv, NEW w \in Workers, Park(w) PROVE IInv'
<1>1. job[w].pc = "park" /\ job[w].pc \in Driving
    BY DEF Park, Driving
<1>2. PICK r \in Runs : r = job[w].run
    BY <1>1, Alone
<1>3. parks[r] < MaxParks /\ parks[r] + 1 \in Tokens /\ Ran(r, job[w].at)
  <2>1. parks[r] \in Tokens
      BY <1>2 DEF IInv, TypeOK
  <2>2. parks[r] < MaxParks /\ Ran(r, job[w].at)
      BY <1>1, <1>2, Alone DEF JobInv
  <2> QED BY <2>1, <2>2, BoundAssumption DEF Tokens
<1>4. PICK j \in JobType : j = [job[w] EXCEPT !.pc = "arm", !.mint = parks[r] + 1]
    BY <1>1, <1>3, Alone DEF JobType
<1>5. /\ job' = [job EXCEPT ![w] = j]
      /\ status' = [status EXCEPT ![r] = "waiting"]
      /\ cursor' = [cursor EXCEPT ![r] = job[w].at]
      /\ parks' = [parks EXCEPT ![r] = @ + 1]
      /\ token' = [token EXCEPT ![r] = parks[r] + 1]
      /\ elapsed' = elapsed \ {r}
      /\ skip' = skip \ {r}
      /\ UNCHANGED <<effects, ready, timer, dead, crashes>>
    BY <1>2, <1>4 DEF Park, FreshToken, queueVars
<1>6. j.pc = "arm" /\ j.run = r /\ job[w].at \in Nodes
    BY <1>1, <1>2, <1>4, Alone DEF JobType
<1>7. TypeOK'
    BY <1>3, <1>5, <1>6 DEF IInv, TypeOK, Live
<1>8. job'[w] = j /\ status'[r] = "waiting" /\ cursor'[r] = job[w].at
    BY <1>5 DEF IInv, TypeOK
<1>9. JobInv(w)'
    BY <1>6, <1>8 DEF JobInv, Driving
<1>10. RowInv(r)'
  <2>1. \A n : Ran(r, n)' <=> Ran(r, n)
      BY <1>5 DEF Ran
  <2>2. job[w].at # 0 /\ job[w].at \in Positions
      BY <1>6, ScriptFacts
  <2>3. Ran(r, cursor[r])'
      BY <1>3, <1>5, <1>8 DEF Ran
  <2>4. (\E n \in Positions : Ran(r, n))'
      BY <1>3, <2>1, <2>2 DEF Positions
  <2> QED BY <1>8, <2>2, <2>3, <2>4 DEF RowInv
<1>11. job'[w].pc \notin Driving
    BY <1>6, <1>8 DEF Driving
<1>12. \A v \in Workers : Drives(v, r) => v = w
    BY <1>1, <1>2, Alone
<1> QED BY <1>5, <1>7, <1>9, <1>10, <1>11, <1>12, DriveStep DEF IInv, TypeOK

LEMMA FinishInv == ASSUME IInv, NEW w \in Workers, Finish(w) PROVE IInv'
<1>1. job[w].pc = "finish" /\ job[w].pc \in Driving
    BY DEF Finish, Driving
<1>2. PICK r \in Runs : r = job[w].run
    BY <1>1, Alone
<1>3. PICK o \in Terminal : o = FinalStatus(job[w].result)
    BY DEF FinalStatus, Terminal
<1>4. PICK s : s = IF status[r] \in Closable(o) THEN o ELSE status[r]
    OBVIOUS
<1>5. /\ status' = [status EXCEPT ![r] = s]
      /\ cursor' \in [Runs -> Nodes \cup {0}]
      /\ \A q \in Runs \ {r} : cursor'[q] = cursor[q]
      /\ job' = [job EXCEPT ![w] = Idle]
      /\ UNCHANGED <<token, elapsed, effects, parks, skip, ready, timer, dead, crashes>>
    BY <1>2, <1>3, <1>4 DEF Finish, IInv, TypeOK, queueVars
<1>6. s \in {"running", "completed", "failed", "cancelled", "gone"}
      /\ (s = "completed" => Ran(r, Len(Script) + 1))
  <2>1. status[r] \in {"running", "failed", "gone"}
        /\ (job[w].result = "ok" => Ran(r, Len(Script) + 1))
      BY <1>1, <1>2, Alone DEF JobInv
  <2>2. o = "completed" => job[w].result = "ok"
      BY <1>3 DEF FinalStatus
  <2> QED BY <1>3, <1>4, <2>1, <2>2 DEF Terminal
<1>7. TypeOK'
    BY <1>5, <1>6, JobTyped, IdleFacts DEF IInv, TypeOK, Live, Terminal
<1>8. job'[w] = Idle /\ status'[r] = s
    BY <1>5 DEF IInv, TypeOK
<1>9. JobInv(w)'
    BY <1>8, IdleFacts DEF JobInv
<1>10. RowInv(r)'
  <2>1. \A n : Ran(r, n)' <=> Ran(r, n)
      BY <1>5 DEF Ran
  <2>2. (\E n \in Positions : Ran(r, n))'
      BY <1>1, <1>2, <2>1, Alone DEF RowInv, Positions
  <2> QED BY <1>6, <1>8, <2>1, <2>2 DEF RowInv
<1> QED BY <1>1, <1>2, <1>5, <1>7, <1>8, <1>9, <1>10, Alone, IdleFacts, DriveStep
        DEF IInv, TypeOK

LEMMA ExecActInv == ASSUME IInv, NEW w \in Workers, ExecAct(w) PROVE IInv'
<1>1. job[w].pc = "exec" /\ job[w].pc \in Driving
    BY DEF ExecAct, Driving
<1>2. PICK r \in Runs : r = job[w].run
    BY <1>1, Alone
<1>3. PICK n \in Nodes : n = job[w].at
    BY <1>1, Alone DEF JobType
<1>4. PICK committed \in 0..1, o \in {"ok", "fail"} :
          /\ o = "ok" => committed = 1
          /\ effects' = [effects EXCEPT ![r][n] = @ + committed]
          /\ job' = [job EXCEPT ![w] = [@ EXCEPT !.pc = "emit", !.result = o]]
    BY <1>2, <1>3 DEF ExecAct, Reports
<1>5. PICK j \in JobType : j = [job[w] EXCEPT !.pc = "emit", !.result = o]
    BY <1>1, Alone DEF JobType, Driving, Outcomes
<1>6. /\ job' = [job EXCEPT ![w] = j]
      /\ UNCHANGED <<status, token, cursor, elapsed, parks, skip, ready, timer, dead, crashes>>
    BY <1>4, <1>5 DEF ExecAct, queueVars
<1>7. j.pc = "emit" /\ j.run = r /\ j.result = o /\ j.at = n
    BY <1>1, <1>2, <1>3, <1>5, Alone DEF JobType
<1>8. TypeOK'
  <2>1. effects' \in [Runs -> [Nodes -> Nat]]
      BY <1>4 DEF IInv, TypeOK
  <2> QED BY <1>6, <1>7, <2>1 DEF IInv, TypeOK
<1>9. /\ status[r] \in {"running", "failed", "gone"}
      /\ Ran(r, n) /\ Script[n] = "act"
    BY <1>1, <1>2, <1>3, Alone DEF JobInv, ExecAct
<1>10. Ran(r, n + committed)'
  <2> SUFFICES ASSUME NEW i \in Nodes
               PROVE  effects'[r][i] = IF i < n + committed /\ Script[i] = "act" THEN 1 ELSE 0
      BY DEF Ran
  <2>1. effects'[r][i] = IF i = n THEN effects[r][i] + committed ELSE effects[r][i]
      BY <1>4 DEF IInv, TypeOK
  <2>2. effects[r][i] = IF i < n /\ Script[i] = "act" THEN 1 ELSE 0
      BY <1>9 DEF Ran
  <2> QED BY <1>9, <2>1, <2>2, ScriptFacts
<1>11. job'[w] = j
    BY <1>6 DEF IInv, TypeOK
<1>12. JobInv(w)'
    BY <1>4, <1>6, <1>7, <1>9, <1>10, <1>11 DEF JobInv
<1>13. RowInv(r)'
  <2>1. n + committed \in Positions
      BY ScriptFacts DEF Positions
  <2>2. (\E m \in Positions : Ran(r, m))'
      BY <1>10, <2>1 DEF Positions
  <2> QED BY <1>6, <1>9, <2>2 DEF RowInv
<1>14. \A q \in Runs \ {r} : effects'[q] = effects[q]
    BY <1>4 DEF IInv, TypeOK
<1> QED BY <1>1, <1>2, <1>6, <1>7, <1>8, <1>11, <1>12, <1>13, <1>14, Alone, DriveStep
        DEF IInv, TypeOK

-----------------------------------------------------------------------------
LEMMA NextInv == IInv /\ [Next]_vars => IInv'
<1> SUFFICES ASSUME IInv, [Next]_vars PROVE IInv'
    OBVIOUS
<1>1. CASE UNCHANGED vars
  <2>1. TypeOK'
      BY <1>1 DEF IInv, TypeOK, vars, dbVars, queueVars
  <2> QED BY <1>1, <2>1, QueueStep DEF vars, dbVars
<1>2. ASSUME NEW r \in Runs, Produce(r) \/ Sweep(r) \/ Operate(r) PROVE IInv'
    BY <1>2, DispatchInv, ElapseInv, TimerFiresInv, SweepInv, OperateInv DEF Produce
<1>3. CASE SweepScan
    BY <1>3, SweepScanInv
<1>4. ASSUME NEW w \in Workers, Work(w) PROVE IInv'
    BY <1>4, RedelayInv, ClaimInv, DropInv, LoadInv, FatalInv, ExecActInv, ExecWaitInv,
       EmitStepInv, FinishInv, ParkInv, ArmInv DEF Work
<1>5. ASSUME NEW w \in Workers, Crash(w) PROVE IInv'
    BY <1>5, CrashInv
<1>6. ASSUME NEW w \in Workers, NEW r \in Runs, NEW t \in Tokens, TakeJob(w, r, t) PROVE IInv'
    BY <1>6, TakeJobInv
<1> QED BY <1>1, <1>2, <1>3, <1>4, <1>5, <1>6 DEF Next

(* The inductive invariant holds in every reachable state.                   *)
THEOREM Invariance == Spec => []IInv
BY InitInv, NextInv, PTL DEF Spec

(* Type correctness of the run rows, the queue and the worker slots; the     *)
(* bound on parks is respected because a run has a single driver.            *)
THEOREM TypeCorrect == Spec => []TypeOK
<1>1. IInv => TypeOK
    BY DEF IInv
<1> QED BY <1>1, Invariance, PTL

(* claimRun is a sufficient idempotency gate: whatever jobs the queue holds, *)
(* at most one worker executes a run at any time.                            *)
THEOREM OneExecutor == Spec => []SingleDriver
<1>1. IInv => SingleDriver
    BY DEF IInv
<1> QED BY <1>1, Invariance, PTL

(* No side effect of a run is committed twice, by any number of parks,       *)
(* redeliveries, crashes, zombie workers and early wake-ups.                 *)
THEOREM EffectsAtMostOnce == Spec => []AtMostOnce
<1>1. IInv => AtMostOnce
    BY DEF IInv, RowInv, Ran, AtMostOnce
<1> QED BY <1>1, Invariance, PTL

(* The side effects of a run are committed in the order of its graph.        *)
THEOREM EffectsOrdered == Spec => []EffectsInOrder
<1>1. IInv => EffectsInOrder
  <2> SUFFICES ASSUME IInv, NEW r \in Runs, NEW i \in Nodes, NEW j \in Nodes,
                      effects[r][i] > 0, j < i, Script[j] = "act"
               PROVE  effects[r][j] > 0
      BY DEF EffectsInOrder
  <2>1. PICK n \in Positions : Ran(r, n)
      BY DEF IInv, RowInv
  <2> QED BY <2>1, ScriptFacts DEF Ran, Positions
<1> QED BY <1>1, Invariance, PTL

(* A run the table calls completed has executed every acting node.           *)
THEOREM CompletedIsComplete == Spec => []CompletedRanEverything
<1>1. IInv => CompletedRanEverything
    BY ScriptFacts DEF IInv, RowInv, Ran, CompletedRanEverything
<1> QED BY <1>1, Invariance, PTL

-----------------------------------------------------------------------------
(* A terminal status is final: no worker, sweeper or operator rewrites it.   *)
LEMMA TerminalStep ==
    ASSUME TypeOK, [Next]_vars, NEW r \in Runs, status[r] \in Terminal
    PROVE  status'[r] \in {status[r], "gone"}
<1> USE DEF TypeOK, Terminal, Live
<1>1. ASSUME NEW q \in Runs, Produce(q) PROVE status'[r] = status[r]
    BY <1>1 DEF Produce, Dispatch, Elapse, TimerFires, dbVars
<1>2. ASSUME NEW q \in Runs, Sweep(q) PROVE status'[r] = status[r]
    BY <1>2 DEF Sweep, SweepQueued, SweepOverdue, SweepFail, dbVars
<1>3. ASSUME NEW q \in Runs, Operate(q) PROVE status'[r] \in {status[r], "gone"}
    BY <1>3 DEF Operate, UserCancel, UserResume, RemoveFlow, Cancellable
<1>4. ASSUME NEW w \in Workers, Work(w) PROVE status'[r] = status[r]
  <2>1. CASE Claim(w)
      BY <2>1 DEF Claim, Claimable
  <2>2. CASE Finish(w)
      BY <2>2 DEF Finish, Closable
  <2>3. CASE Park(w)
      BY <2>3 DEF Park
  <2>4. CASE ~(Claim(w) \/ Finish(w) \/ Park(w))
      BY <1>4, <2>4 DEF Work, Redelay, ClaimLost, Load, Fatal, ExecAct, ExecWait, EmitStep,
                        ParkLost, Arm, dbVars
  <2> QED BY <2>1, <2>2, <2>3, <2>4
<1>5. ASSUME NEW w \in Workers, NEW q \in Runs, NEW t \in Tokens,
             Crash(w) \/ TakeJob(w, q, t)
      PROVE  status'[r] = status[r]
    BY <1>5 DEF Crash, TakeJob, dbVars
<1>6. CASE SweepScan \/ UNCHANGED vars
    BY <1>6 DEF SweepScan, vars, dbVars
<1>7. ASSUME NEW w \in Workers, Crash(w) PROVE status'[r] = status[r]
    BY <1>7 DEF Crash, dbVars
<1> QED BY <1>1, <1>2, <1>3, <1>4, <1>5, <1>6, <1>7 DEF Next

THEOREM TerminalStatusFinal == Spec => TerminalIsFinal
<1>1. TypeOK /\ [Next]_vars =>
          [\A r \in Runs : status[r] \in Terminal => status'[r] \in {status[r], "gone"}]_vars
    BY TerminalStep
<1> QED BY <1>1, TypeCorrect, PTL DEF Spec, TerminalIsFinal

-----------------------------------------------------------------------------
(* The running cap.  A slot that passed the check and has not claimed yet    *)
(* counts as if it ran: at the check fewer than MaxRunning runs were running *)
(* and this slot was not among the ones about to claim.                      *)
Claiming == {w \in Workers : job[w].pc = "claim"}
CapInv == Cardinality(Running) + Cardinality(Claiming) <= MaxRunning - 1 + Cardinality(Workers)

LEMMA CapFacts ==
    /\ IsFiniteSet(Running) /\ Cardinality(Running) \in Nat
    /\ IsFiniteSet(Claiming) /\ Cardinality(Claiming) \in Nat
    /\ Cardinality(Claiming) <= Cardinality(Workers)
    /\ Cardinality(Workers) \in Nat /\ MaxRunning \in Nat \ {0}
<1>1. Running \subseteq Runs /\ Claiming \subseteq Workers
    BY DEF Running, Claiming
<1> QED BY <1>1, FiniteAssumption, BoundAssumption, FS_Subset, FS_CardinalityType

(* A step that starts neither a run nor a claim keeps the bound.             *)
LEMMA CapShrinks ==
    ASSUME CapInv, Running' \subseteq Running, Claiming' \subseteq Claiming
    PROVE  CapInv'
<1>1. /\ Cardinality(Running') <= Cardinality(Running) /\ Cardinality(Running') \in Nat
      /\ Cardinality(Claiming') <= Cardinality(Claiming) /\ Cardinality(Claiming') \in Nat
    BY CapFacts, FS_Subset, FS_CardinalityType
<1>2. Cardinality(Running)' = Cardinality(Running') /\ Cardinality(Claiming)' = Cardinality(Claiming')
    OBVIOUS
<1> QED BY <1>1, <1>2, CapFacts DEF CapInv

(* The check: this slot starts to claim while fewer than the cap run.        *)
LEMMA TakeJobCap ==
    ASSUME TypeOK, CapInv, NEW w \in Workers, NEW r \in Runs, NEW t \in Tokens, TakeJob(w, r, t)
    PROVE  CapInv'
<1>1. Running' = Running
    BY DEF TakeJob, Running, dbVars
<1>2. CASE AtCap
  <2>1. Claiming' \subseteq Claiming
      BY <1>2 DEF TakeJob, Claiming, TypeOK
  <2> QED BY <1>1, <2>1, CapShrinks
<1>3. CASE ~AtCap
  <2>1. Claiming' \subseteq Workers
      BY DEF Claiming
  <2>2. Cardinality(Claiming') \in Nat /\ Cardinality(Claiming') <= Cardinality(Workers)
      BY <2>1, FiniteAssumption, FS_Subset, FS_CardinalityType
  <2>3. Cardinality(Running) <= MaxRunning - 1
      BY <1>3, CapFacts DEF AtCap
  <2>4. Cardinality(Running)' = Cardinality(Running) /\ Cardinality(Claiming)' = Cardinality(Claiming')
      BY <1>1
  <2> QED BY <2>2, <2>3, <2>4, CapFacts DEF CapInv
<1> QED BY <1>2, <1>3

(* The claim: one slot fewer is about to claim, at most one run more runs.   *)
LEMMA ClaimCap == ASSUME TypeOK, CapInv, NEW w \in Workers, Claim(w) PROVE CapInv'
<1>1. PICK r \in Runs : r = job[w].run
    BY DEF Claim, TypeOK
<1>2. Running' \subseteq Running \cup {r}
    BY <1>1 DEF Claim, Running, TypeOK
<1>3. Claiming' \subseteq Claiming \ {w} /\ w \in Claiming
    BY DEF Claim, Claiming, TypeOK
<1>4. Cardinality(Running') \in Nat /\ Cardinality(Running') <= Cardinality(Running) + 1
  <2>1. /\ IsFiniteSet(Running \cup {r})
        /\ \/ Cardinality(Running \cup {r}) = Cardinality(Running)
           \/ Cardinality(Running \cup {r}) = Cardinality(Running) + 1
    <3>1. IsFiniteSet(Running)
        BY CapFacts
    <3> QED BY <3>1, FS_AddElement
  <2>2. Cardinality(Running \cup {r}) \in Nat
      BY <2>1, FS_CardinalityType
  <2>3. Cardinality(Running') \in Nat /\ Cardinality(Running') <= Cardinality(Running \cup {r})
      BY <1>2, <2>1, FS_Subset, FS_CardinalityType
  <2> QED BY <2>1, <2>2, <2>3, CapFacts
<1>5. Cardinality(Claiming') \in Nat /\ Cardinality(Claiming') <= Cardinality(Claiming) - 1
  <2>1. IsFiniteSet(Claiming \ {w}) /\ Cardinality(Claiming \ {w}) = Cardinality(Claiming) - 1
      BY <1>3, CapFacts, FS_RemoveElement
  <2>2. Cardinality(Claiming') \in Nat /\ Cardinality(Claiming') <= Cardinality(Claiming \ {w})
      BY <1>3, <2>1, FS_Subset, FS_CardinalityType
  <2> QED BY <2>1, <2>2, CapFacts
<1>6. Cardinality(Running)' = Cardinality(Running') /\ Cardinality(Claiming)' = Cardinality(Claiming')
    OBVIOUS
<1> QED BY <1>4, <1>5, <1>6, CapFacts DEF CapInv

LEMMA CapStep == TypeOK /\ CapInv /\ [Next]_vars => CapInv'
<1> SUFFICES ASSUME TypeOK, CapInv, [Next]_vars PROVE CapInv'
    OBVIOUS
<1>1. ASSUME NEW r \in Runs, Produce(r) \/ Sweep(r) \/ Operate(r) PROVE CapInv'
  <2>1. Claiming' = Claiming
      BY <1>1 DEF Claiming, Produce, Sweep, Operate, Dispatch, Elapse, TimerFires, SweepQueued,
                  SweepOverdue, SweepFail, UserCancel, UserResume, RemoveFlow
  <2>2. Running' \subseteq Running
      BY <1>1 DEF TypeOK, Running, Produce, Sweep, Operate, Dispatch, Elapse, TimerFires,
                  SweepQueued, SweepOverdue, SweepFail, UserCancel, UserResume, RemoveFlow, dbVars
  <2> QED BY <2>1, <2>2, CapShrinks
<1>2. CASE SweepScan \/ UNCHANGED vars
  <2>1. Running' = Running /\ Claiming' = Claiming
      BY <1>2 DEF SweepScan, vars, dbVars, Running, Claiming
  <2> QED BY <2>1, CapShrinks
<1>3. ASSUME NEW w \in Workers, Work(w), ~Claim(w) PROVE CapInv'
  <2>1. /\ \A v \in Workers \ {w} : job'[v] = job[v]
        /\ job'[w].pc # "claim"
    <3>1. job[w] \in JobType /\ job \in [Workers -> JobType]
        BY DEF TypeOK
    <3>2. CASE Redelay(w) \/ ClaimLost(w) \/ Finish(w) \/ ParkLost(w) \/ Arm(w)
        BY <3>1, <3>2, IdleFacts DEF Redelay, ClaimLost, Finish, ParkLost, Arm, Driving
    <3>3. CASE Load(w)
        BY <3>1, <3>3 DEF Load, JobType
    <3>4. CASE Fatal(w)
        BY <3>1, <3>4 DEF Fatal, JobType
    <3>5. CASE Park(w)
        BY <3>1, <3>5 DEF Park, JobType
    <3>6. CASE ExecAct(w)
        BY <3>1, <3>6 DEF ExecAct, JobType
    <3>7. CASE ExecWait(w)
        BY <3>1, <3>7 DEF ExecWait, JobType
    <3>8. CASE EmitStep(w)
        BY <3>1, <3>8 DEF EmitStep, JobType
    <3> QED BY <1>3, <3>2, <3>3, <3>4, <3>5, <3>6, <3>7, <3>8 DEF Work
  <2>2. Claiming' \subseteq Claiming
      BY <2>1 DEF Claiming
  <2>3. Running' \subseteq Running
    <3>1. CASE Finish(w)
        BY <3>1 DEF Finish, FinalStatus, Running, TypeOK
    <3>2. CASE Park(w)
        BY <3>2 DEF Park, Running, TypeOK
    <3>3. CASE ~Finish(w) /\ ~Park(w)
        BY <1>3, <3>3 DEF Running, Work, Redelay, ClaimLost, Load, Fatal, ExecAct, ExecWait,
                          EmitStep, ParkLost, Arm, dbVars
    <3> QED BY <3>1, <3>2, <3>3
  <2> QED BY <2>2, <2>3, CapShrinks
<1>4. ASSUME NEW w \in Workers, Crash(w) PROVE CapInv'
  <2>1. Running' = Running /\ Claiming' \subseteq Claiming
      BY <1>4, IdleFacts DEF Crash, dbVars, Running, Claiming, TypeOK
  <2> QED BY <2>1, CapShrinks
<1> QED BY <1>1, <1>2, <1>3, <1>4, ClaimCap, TakeJobCap DEF Next

(* The running cap of an organisation can be overshot, because it is read in *)
(* a transaction before the claim's, but by at most the other worker slots.  *)
THEOREM RunningIsBounded == Spec => []RunningBound
<1>1. Init => CapInv
  <2> SUFFICES ASSUME Init PROVE CapInv
      OBVIOUS
  <2>1. Running = {} /\ Claiming = {}
      BY DEF Init, Running, Claiming, Idle
  <2> QED BY <2>1, CapFacts, FS_EmptySet DEF CapInv
<1>2. CapInv => RunningBound
    BY CapFacts DEF CapInv, RunningBound
<1> QED BY <1>1, <1>2, CapStep, TypeCorrect, PTL DEF Spec

-----------------------------------------------------------------------------
(* Resume tokens.  A job carries a token of its run, in the queue or in a    *)
(* slot that has not parked the run yet.                                     *)
Held(r, t, w) == job[w].run = r /\ job[w].tok = t /\ job[w].pc # "arm"
Carried(r, t) == ready[r][t] > 0 \/ \E w \in Workers : Held(r, t, w)
Due(r) == r \in elapsed \cup skip

(* No token is older than its minting, a slot that still has to arm its      *)
(* timer came with an earlier token, and a job that can win is due.          *)
TokenInv(r) ==
    /\ token[r] <= parks[r]
    /\ \A t \in Tokens : Carried(r, t) \/ <<r, t>> \in timer => t <= parks[r]
    /\ \A w \in Workers : job[w].run = r /\ job[w].pc = "arm" =>
          /\ job[w].tok < job[w].mint /\ job[w].mint <= parks[r]
          /\ token[r] = 0 \/ token[r] >= job[w].mint
    /\ \A t \in Tokens : t # 0 /\ status[r] = "waiting" /\ token[r] = t /\ Carried(r, t) => Due(r)

(* Steps that mint no token and put none in the queue but for a run that is  *)
(* due, or one that cannot win.                                              *)
LEMMA TokenStep ==
    ASSUME TypeOK, NEW r \in Runs, TokenInv(r),
           parks'[r] = parks[r], token'[r] \in {0, token[r]},
           status'[r] = "waiting" => status[r] = "waiting" /\ token'[r] = token[r] /\ (Due(r) => Due(r)'),
           \A t \in Tokens : Carried(r, t)' =>
               \/ Carried(r, t)
               \/ t <= parks[r] /\ (t = 0 \/ status'[r] # "waiting" \/ token'[r] # t \/ Due(r)'),
           \A t \in Tokens : <<r, t>> \in timer' => <<r, t>> \in timer \/ t <= parks[r],
           \A w \in Workers : job'[w].run = r /\ job'[w].pc = "arm" => job'[w] = job[w]
    PROVE  TokenInv(r)'
<1> USE BoundAssumption DEF Tokens
<1>1. token[r] \in Nat /\ parks[r] \in Nat
    BY DEF TypeOK
<1>2. (token[r] <= parks[r])'
    BY <1>1 DEF TokenInv
<1>3. (\A t \in Tokens : Carried(r, t) \/ <<r, t>> \in timer => t <= parks[r])'
    BY DEF TokenInv
<1>4. (\A w \in Workers : job[w].run = r /\ job[w].pc = "arm" =>
          /\ job[w].tok < job[w].mint /\ job[w].mint <= parks[r]
          /\ token[r] = 0 \/ token[r] >= job[w].mint)'
    BY DEF TokenInv
<1>5. (\A t \in Tokens : t # 0 /\ status[r] = "waiting" /\ token[r] = t /\ Carried(r, t) => Due(r))'
    BY DEF TokenInv
<1> QED BY <1>2, <1>3, <1>4, <1>5 DEF TokenInv

(* Steps that leave the tokens, the queue and the slots of run r alone.      *)
LEMMA TokenQuiet ==
    ASSUME TypeOK, NEW r \in Runs, TokenInv(r),
           parks'[r] = parks[r], token'[r] \in {0, token[r]},
           status'[r] = "waiting" => status[r] = "waiting" /\ token'[r] = token[r] /\ (Due(r) => Due(r)'),
           \A t \in Tokens : ready'[r][t] = ready[r][t], timer' \subseteq timer,
           \A w \in Workers : job'[w].run = r =>
               /\ job[w].run = r /\ job'[w].tok = job[w].tok
               /\ job[w].pc = "arm" <=> job'[w].pc = "arm"
               /\ job'[w].pc = "arm" => job'[w] = job[w]
    PROVE  TokenInv(r)'
<1>1. \A t \in Tokens : Carried(r, t)' => Carried(r, t)
    BY DEF Carried, Held
<1> QED BY <1>1, TokenStep

TokensInv == \A r \in Runs : TokenInv(r)

LEMMA TokenInit == Init => TokensInv
BY FiniteAssumption, BoundAssumption DEF Init, TokensInv, TokenInv, Carried, Held, Idle, Tokens

LEMMA TokenProduce ==
    ASSUME IInv, NEW r \in Runs, TokenInv(r), NEW q \in Runs, Produce(q) \/ Operate(q) \/ Sweep(q)
    PROVE  TokenInv(r)'
<1> USE BoundAssumption DEF Tokens
<1>1. TypeOK /\ token[r] \in Tokens /\ parks[r] \in Tokens /\ token[r] <= parks[r]
      /\ ready \in [Runs -> [Tokens -> Nat]]
    BY DEF IInv, TypeOK, TokenInv
<1>2. CASE Dispatch(q)
  <2>1. PICK n \in 0..1 : Enqueue(q, 0, n)
      BY <1>2 DEF Dispatch
  <2>2. \A t \in Tokens : Carried(r, t)' => Carried(r, t) \/ t = 0
      BY <1>1, <1>2, <2>1 DEF Dispatch, Enqueue, Carried, Held
  <2>3. status'[r] = "waiting" => status[r] = "waiting"
      BY <1>1, <1>2 DEF Dispatch, TypeOK
  <2>4. UNCHANGED <<token, elapsed, parks, skip, timer, job>>
      BY <1>2 DEF Dispatch
  <2>5. Due(r)' <=> Due(r)
      BY <2>4 DEF Due
  <2>6. \A t \in Tokens : t = 0 => t <= parks[r]
      BY <1>1
  <2> QED BY <1>1, <2>2, <2>3, <2>4, <2>5, <2>6, TokenStep
<1>3. CASE Elapse(q)
    BY <1>1, <1>3, TokenQuiet DEF Elapse, queueVars, Due
<1>4. ASSUME NEW s \in Tokens, TimerFires(q, s) PROVE TokenInv(r)'
  <2>1. \A t \in Tokens : Carried(r, t)' => Carried(r, t) \/ (q = r /\ t = s)
      BY <1>1, <1>4 DEF TimerFires, Enqueue, Carried, Held
  <2>2. q = r => s <= parks[r]
      BY <1>4 DEF TimerFires, TokenInv
  <2>3. q = r /\ status[r] = "waiting" /\ token[r] = s => Due(r)'
      BY <1>4 DEF TimerFires, DelayOver, Due, dbVars
  <2> QED BY <1>1, <1>4, <2>1, <2>2, <2>3, TokenStep DEF TimerFires, Due, dbVars
<1>5. CASE SweepQueued(q)
  <2>1. \A t \in Tokens : Carried(r, t)' => Carried(r, t) \/ t = 0
      BY <1>1, <1>5 DEF SweepQueued, Enqueue, Carried, Held
  <2> QED BY <1>1, <1>5, <2>1, TokenStep DEF SweepQueued, Due, dbVars
<1>6. CASE SweepOverdue(q) \/ UserResume(q)
  <2>1. /\ Enqueue(q, token[q], 1) /\ UNCHANGED <<status, token, parks, timer, job>>
        /\ elapsed' = elapsed /\ skip \subseteq skip' /\ q \in elapsed' \cup skip'
      BY <1>6 DEF SweepOverdue, OverdueWaiting, UserResume, dbVars
  <2>2. \A t \in Tokens : Carried(r, t)' => Carried(r, t) \/ (q = r /\ t = token[r])
      BY <1>1, <2>1 DEF Enqueue, Carried, Held
  <2> QED BY <1>1, <2>1, <2>2, TokenStep DEF Due
<1>7. CASE SweepFail(q) \/ UserCancel(q) \/ RemoveFlow(q)
  <2>1. /\ UNCHANGED <<token, elapsed, parks, skip, queueVars, job>>
        /\ status'[r] = "waiting" => status[r] = "waiting"
      BY <1>1, <1>7 DEF SweepFail, UserCancel, RemoveFlow, TypeOK
  <2> QED BY <1>1, <2>1, TokenQuiet DEF Due, queueVars
<1> QED BY <1>2, <1>3, <1>4, <1>5, <1>6, <1>7 DEF Produce, Operate, Sweep

LEMMA TokenWork ==
    ASSUME IInv, NEW r \in Runs, TokenInv(r), NEW w \in Workers, Work(w), ~Park(w)
    PROVE  TokenInv(r)'
<1> USE BoundAssumption DEF Tokens
<1>1. TypeOK /\ token[r] \in Tokens /\ parks[r] \in Tokens /\ token[r] <= parks[r]
      /\ ready \in [Runs -> [Tokens -> Nat]] /\ job \in [Workers -> JobType] /\ job[w] \in JobType
    BY DEF IInv, TypeOK, TokenInv
<1>2. Idle.run \notin Runs
    BY FiniteAssumption DEF Idle
<1>3. CASE Redelay(w)
  <2>1. job[w].run \in Runs /\ job[w].tok \in Tokens
      BY <1>3, JobTyped, <1>1 DEF Redelay, JobType
  <2>2. \A t \in Tokens : Carried(r, t)' => Carried(r, t)
    <3>1. \A v \in Workers, t \in Tokens : Held(r, t, v)' => Held(r, t, v)
        BY <1>1, <1>2, <1>3 DEF Redelay, Held
    <3>2. \A t \in Tokens : ready'[r][t] > 0 => ready[r][t] > 0 \/ Held(r, t, w)
        BY <1>1, <1>3, <2>1 DEF Redelay, Enqueue, Held
    <3> QED BY <3>1, <3>2 DEF Carried
  <2>3. \A v \in Workers : job'[v].run = r => job'[v] = job[v]
      BY <1>1, <1>2, <1>3 DEF Redelay
  <2> QED BY <1>1, <1>3, <2>2, <2>3, TokenStep DEF Redelay, dbVars, Due
<1>4. CASE Claim(w)
  <2>1. \A v \in Workers : /\ job'[v].run = job[v].run /\ job'[v].tok = job[v].tok
                           /\ job[v].pc # "arm" <=> job'[v].pc # "arm"
                           /\ job'[v].pc = "arm" => job'[v] = job[v]
      BY <1>1, <1>4 DEF Claim, JobType
  <2>2. /\ parks' = parks /\ skip' = skip /\ UNCHANGED queueVars /\ token'[r] \in {0, token[r]}
        /\ status'[r] = "waiting" =>
               status[r] = "waiting" /\ token'[r] = token[r] /\ (Due(r) => Due(r)')
    <3>1. job[w].run \in Runs
        BY <1>4, <1>1, JobTyped DEF Claim
    <3> QED BY <1>1, <1>4, <3>1 DEF Claim, TypeOK, Due
  <2> QED BY <1>1, <2>1, <2>2, TokenQuiet DEF queueVars
<1>5. CASE ClaimLost(w) \/ ParkLost(w)
  <2>1. \A v \in Workers : job'[v].run = r => job'[v] = job[v]
      BY <1>1, <1>2, <1>5 DEF ClaimLost, ParkLost
  <2> QED BY <1>1, <1>5, <2>1, TokenQuiet DEF ClaimLost, ParkLost, dbVars, queueVars, Due
<1>6. CASE Finish(w)
  <2>1. \A v \in Workers : job'[v].run = r => job'[v] = job[v]
      BY <1>1, <1>2, <1>6 DEF Finish
  <2>2. status'[r] = "waiting" => status[r] = "waiting"
      BY <1>1, <1>6 DEF Finish, FinalStatus, TypeOK
  <2> QED BY <1>1, <1>6, <2>1, <2>2, TokenQuiet DEF Finish, queueVars, Due
<1>7. CASE Load(w) \/ Fatal(w) \/ ExecAct(w) \/ ExecWait(w)
  <2>1. \A v \in Workers : /\ job'[v].run = job[v].run /\ job'[v].tok = job[v].tok
                           /\ job[v].pc # "arm" <=> job'[v].pc # "arm"
                           /\ job'[v].pc = "arm" => job'[v] = job[v]
    <3>1. CASE Load(w)
        BY <1>1, <3>1 DEF Load, JobType
    <3>2. CASE Fatal(w)
        BY <1>1, <3>2 DEF Fatal, JobType
    <3>3. CASE ExecAct(w)
      <4>1. PICK o : job' = [job EXCEPT ![w] = [@ EXCEPT !.pc = "emit", !.result = o]]
          BY <3>3 DEF ExecAct
      <4> QED BY <1>1, <3>3, <4>1 DEF ExecAct, JobType
    <3>4. CASE ExecWait(w)
      <4>1. PICK o : job' = [job EXCEPT ![w] = [@ EXCEPT !.pc = "emit", !.result = o]]
          BY <3>4 DEF ExecWait
      <4> QED BY <1>1, <3>4, <4>1 DEF ExecWait, JobType
    <3> QED BY <1>7, <3>1, <3>2, <3>3, <3>4
  <2>2. UNCHANGED <<status, token, parks, elapsed, skip, queueVars>>
      BY <1>7 DEF Load, Fatal, ExecAct, ExecWait, dbVars
  <2> QED BY <1>1, <2>1, <2>2, TokenQuiet DEF queueVars, Due
<1>8. CASE EmitStep(w)
  <2>1. \A v \in Workers : /\ job'[v].run = job[v].run /\ job'[v].tok = job[v].tok
                           /\ job[v].pc # "arm" <=> job'[v].pc # "arm"
                           /\ job'[v].pc = "arm" => job'[v] = job[v]
      BY <1>1, <1>8 DEF EmitStep, JobType
  <2>2. status[job[w].run] # "waiting"
    <3>1. job[w].pc \in Driving /\ JobInv(w)
        BY <1>8 DEF EmitStep, Driving, IInv
    <3> QED BY <3>1 DEF JobInv
  <2> QED BY <1>1, <1>8, <2>1, <2>2, TokenQuiet DEF EmitStep, queueVars, Due
<1>9. CASE Arm(w)
  <2>1. \A v \in Workers : job'[v].run = r => job'[v] = job[v]
      BY <1>1, <1>2, <1>9 DEF Arm
  <2>2. \A t \in Tokens : Carried(r, t)' => Carried(r, t)
      BY <1>9, <2>1 DEF Arm, Carried, Held
  <2>3. \A t \in Tokens : <<r, t>> \in timer' => <<r, t>> \in timer \/ t <= parks[r]
      BY <1>9 DEF Arm, TokenInv
  <2> QED BY <1>1, <1>9, <2>1, <2>2, <2>3, TokenStep DEF Arm, dbVars, Due
<1> QED BY <1>3, <1>4, <1>5, <1>6, <1>7, <1>8, <1>9 DEF Work

(* A fresh token is in no job.                                               *)
LEMMA TokenPark ==
    ASSUME IInv, NEW r \in Runs, TokenInv(r), NEW k \in Workers, Park(k), TypeOK'
    PROVE  TokenInv(r)'
<1> USE BoundAssumption DEF Tokens
<1>1. /\ token[r] \in Tokens /\ parks[r] \in Tokens /\ token[r] <= parks[r]
      /\ job \in [Workers -> JobType] /\ job[k] \in JobType /\ job[k].run \in Runs
    BY JobTyped DEF IInv, TypeOK, TokenInv, Park
<1>2. \A w \in Workers : /\ job'[w].run = job[w].run /\ job'[w].tok = job[w].tok
                         /\ w # k => job'[w] = job[w]
    BY <1>1 DEF Park, JobType
<1>3. \A t \in Tokens : Carried(r, t)' => Carried(r, t)
    BY <1>1, <1>2 DEF Park, JobType, Carried, Held, queueVars
<1>4. CASE job[k].run # r
  <2>1. \A w \in Workers : job'[w].run = r /\ job'[w].pc = "arm" => job'[w] = job[w]
      BY <1>2, <1>4
  <2> QED BY <1>1, <1>3, <1>4, <2>1, TokenStep DEF Park, TypeOK, IInv, queueVars, Due
<1>5. CASE job[k].run = r
  <2>1. /\ parks'[r] = parks[r] + 1 /\ token'[r] = parks[r] + 1 /\ timer' = timer
        /\ job'[k].pc = "arm" /\ job'[k].mint = parks[r] + 1
      BY <1>1, <1>5 DEF Park, FreshToken, IInv, TypeOK, JobType, queueVars
  <2>2. \A t \in Tokens : Carried(r, t)' \/ <<r, t>> \in timer' => t <= parks[r]
      BY <1>3, <2>1 DEF TokenInv
  <2>3. \A w \in Workers : job[w].run = r => job[w].tok <= parks[r]
    <3> SUFFICES ASSUME NEW w \in Workers, job[w].run = r PROVE job[w].tok <= parks[r]
        OBVIOUS
    <3>1. job[w].tok \in Tokens /\ job[w].mint \in Tokens
        BY <1>1 DEF JobType
    <3>2. CASE job[w].pc = "arm"
        BY <1>1, <3>1, <3>2 DEF TokenInv
    <3>3. CASE job[w].pc # "arm"
        BY <3>1, <3>3 DEF TokenInv, Carried, Held
    <3> QED BY <3>2, <3>3
  <2>4. ASSUME NEW w \in Workers, job'[w].run = r, job'[w].pc = "arm"
        PROVE  /\ job'[w].tok < job'[w].mint /\ job'[w].mint <= parks'[r]
               /\ token'[r] = 0 \/ token'[r] >= job'[w].mint
    <3>1. job[w].tok \in Tokens /\ job[w].mint \in Tokens /\ job[w].run = r
        BY <1>1, <1>2, <2>4 DEF JobType
    <3>2. CASE w = k
        BY <1>1, <1>2, <2>1, <2>3, <3>1, <3>2
    <3>3. CASE w # k
        BY <1>1, <1>2, <2>1, <2>4, <3>1, <3>3 DEF TokenInv
    <3> QED BY <3>2, <3>3
  <2>5. (token[r] <= parks[r])'
      BY <1>1, <2>1
  <2>6. (\A t \in Tokens : Carried(r, t) \/ <<r, t>> \in timer => t <= parks[r])'
      BY <1>1, <2>1, <2>2
  <2>7. (\A t \in Tokens : t # 0 /\ status[r] = "waiting" /\ token[r] = t /\ Carried(r, t) => Due(r))'
    <3>1. ASSUME NEW t \in Tokens, Carried(r, t)' PROVE t # token'[r]
      <4>1. t <= parks[r]
          BY <2>2, <3>1
      <4> QED BY <1>1, <2>1, <4>1
    <3> QED BY <3>1
  <2>8. (\A w \in Workers : job[w].run = r /\ job[w].pc = "arm" =>
            /\ job[w].tok < job[w].mint /\ job[w].mint <= parks[r]
            /\ token[r] = 0 \/ token[r] >= job[w].mint)'
      BY <2>4
  <2> QED BY <2>5, <2>6, <2>7, <2>8 DEF TokenInv
<1> QED BY <1>4, <1>5

LEMMA TokenTake ==
    ASSUME IInv, NEW r \in Runs, TokenInv(r), NEW w \in Workers,
           \/ Crash(w)
           \/ \E q \in Runs, t \in Tokens : TakeJob(w, q, t)
    PROVE  TokenInv(r)'
<1> USE BoundAssumption DEF Tokens
<1>1. TypeOK /\ token[r] \in Tokens /\ parks[r] \in Tokens /\ token[r] <= parks[r]
      /\ ready \in [Runs -> [Tokens -> Nat]] /\ job \in [Workers -> JobType] /\ job[w] \in JobType
    BY DEF IInv, TypeOK, TokenInv
<1>2. CASE Crash(w)
  <2>1. PICK n \in 0..1 : Enqueue(job[w].run, job[w].tok, n)
      BY <1>2 DEF Crash
  <2>2. job[w].run \in Runs /\ job[w].tok \in Tokens /\ job[w].mint \in Tokens
      BY <1>1, <1>2, JobTyped DEF Crash, JobType
  <2>3. \A v \in Workers : job'[v].run = r => job'[v] = job[v]
      BY <1>1, <1>2, FiniteAssumption DEF Crash, Idle
  <2>4. \A t \in Tokens : Carried(r, t)' => Carried(r, t) \/ (job[w].run = r /\ t = job[w].tok)
    <3>1. \A t \in Tokens : ready'[r][t] > 0 => ready[r][t] > 0 \/ (job[w].run = r /\ t = job[w].tok)
        BY <1>1, <2>1, <2>2 DEF Enqueue
    <3> QED BY <2>3, <3>1 DEF Carried, Held
  <2>5. job[w].run = r /\ job[w].pc = "arm" => job[w].tok <= parks[r] /\ (job[w].tok = 0 \/ token[r] # job[w].tok)
      BY <1>1, <2>2 DEF TokenInv
  <2>6. job[w].run = r /\ job[w].pc # "arm" => Carried(r, job[w].tok)
      BY DEF Carried, Held
  <2> QED BY <1>1, <1>2, <2>3, <2>4, <2>5, <2>6, TokenStep DEF Crash, dbVars, Due
<1>3. ASSUME NEW q \in Runs, NEW s \in Tokens, TakeJob(w, q, s) PROVE TokenInv(r)'
  <2>1. /\ job'[w].run = q /\ job'[w].tok = s /\ job'[w].pc # "arm"
        /\ \A v \in Workers : v # w => job'[v] = job[v]
      BY <1>1, <1>3 DEF TakeJob, JobType
  <2>2. \A t \in Tokens : Carried(r, t)' => Carried(r, t)
    <3>1. \A t \in Tokens : ready'[r][t] > 0 => ready[r][t] > 0
        BY <1>1, <1>3 DEF TakeJob
    <3>2. \A t \in Tokens : Held(r, t, w)' => ready[r][t] > 0
        BY <1>3, <2>1 DEF TakeJob, Held
    <3> QED BY <2>1, <3>1, <3>2 DEF Carried, Held
  <2> QED BY <1>1, <1>3, <2>1, <2>2, TokenStep DEF TakeJob, dbVars, Due
<1> QED BY <1>2, <1>3

LEMMA TokenNext == IInv /\ TokensInv /\ [Next]_vars => TokensInv'
<1> SUFFICES ASSUME IInv, NEW r \in Runs, TokenInv(r), [Next]_vars PROVE TokenInv(r)'
    BY DEF TokensInv
<1>1. CASE UNCHANGED vars
    BY <1>1 DEF TokenInv, Carried, Held, Due, vars, dbVars, queueVars
<1>2. CASE SweepScan
    BY <1>2, TokenQuiet DEF SweepScan, Due, dbVars, queueVars, IInv
<1>3. ASSUME NEW w \in Workers, Work(w) PROVE TokenInv(r)'
    BY <1>3, TokenWork, TokenPark, NextInv DEF IInv
<1> QED BY <1>1, <1>2, <1>3, TokenProduce, TokenTake DEF Next

(* A resume job that can win its claim exists only when the wait is over or  *)
(* an operator asked for it, whatever is parked, redelivered or swept.       *)
THEOREM TokensAreDue == Spec => []TokenJobsAreDue
<1>1. TokensInv => TokenJobsAreDue
    BY DEF TokensInv, TokenInv, TokenJobsAreDue, Carried, Held, Due
<1> QED BY <1>1, TokenInit, TokenNext, Invariance, PTL DEF Spec

-----------------------------------------------------------------------------
(* Who owns the row of an executed run when every node of a live worker      *)
(* leaves its step within the sweeper's threshold (~SlowNodes).              *)

(* A stale running run has lost its worker, and so has every run on the      *)
(* sweeper's list: nobody can claim it before its row is failed.             *)
Orphan(r) ==
    /\ r \in elapsed /\ status[r] = "running" => ~HasDriver(r)
    /\ r \in dead => ~HasDriver(r) /\ status[r] \in {"running", "failed", "gone"}

OwnInv == DriverOwnsRow /\ \A r \in Runs : Orphan(r)

Inv == IInv /\ OwnInv

-----------------------------------------------------------------------------
LEMMA InitOwn == Init => OwnInv
BY DEF Init, OwnInv, DriverOwnsRow, Orphan, HasDriver, Drives, Driving, Idle

(* Steps that start no driver, leave every row alone or change one nobody    *)
(* drives, and age no run that is driven.                                    *)
LEMMA OwnStep ==
    ASSUME OwnInv, TypeOK,
           \A w \in Workers, r \in Runs : Drives(w, r)' => Drives(w, r),
           \A r \in Runs : HasDriver(r) => status'[r] = status[r] \/ ~HasDriver(r)' \/ status'[r] = "gone",
           \A r \in Runs : r \in elapsed' \ elapsed /\ status'[r] = "running" => ~HasDriver(r),
           \A r \in Runs : status'[r] = "running" => status[r] = "running",
           \A r \in Runs : r \in dead => status'[r] \in {status[r], "failed", "gone"},
           \A r \in dead' : r \in dead \/ (r \in elapsed /\ status[r] = "running" /\ status'[r] = "running")
    PROVE  OwnInv'
<1>1. DriverOwnsRow'
  <2> SUFFICES ASSUME NEW w \in Workers, NEW r \in Runs, Drives(w, r)'
               PROVE  status'[r] \in {"running", "gone"}
      BY DEF DriverOwnsRow
  <2>1. Drives(w, r) /\ HasDriver(r) /\ HasDriver(r)'
      BY DEF HasDriver
  <2> QED BY <2>1 DEF OwnInv, DriverOwnsRow
<1>2. ASSUME NEW r \in Runs PROVE HasDriver(r)' => HasDriver(r)
    BY DEF HasDriver
<1>3. ASSUME NEW r \in Runs PROVE Orphan(r)'
  <2>1. Orphan(r)
      BY DEF OwnInv
  <2>2. r \in elapsed' /\ status'[r] = "running" => ~HasDriver(r)'
      BY <1>2, <2>1 DEF Orphan
  <2>3. r \in dead' => ~HasDriver(r)' /\ status'[r] \in {"running", "failed", "gone"}
      BY <1>2, <2>1 DEF Orphan
  <2> QED BY <2>2, <2>3 DEF Orphan
<1> QED BY <1>1, <1>3 DEF OwnInv

(* Steps that touch no slot.                                                 *)
LEMMA SameDrivers ==
    ASSUME job' = job
    PROVE  /\ \A w \in Workers, r \in Runs : Drives(w, r)' <=> Drives(w, r)
           /\ \A r \in Runs : HasDriver(r)' <=> HasDriver(r)
BY DEF Drives, HasDriver

(* A driven run is neither queued nor waiting nor on the sweeper's list.     *)
LEMMA DrivenRow ==
    ASSUME OwnInv, NEW r \in Runs, HasDriver(r)
    PROVE  status[r] \in {"running", "gone"} /\ r \notin dead
BY DEF OwnInv, DriverOwnsRow, Orphan, HasDriver

LEMMA ProduceOwn == ASSUME ~SlowNodes, Inv, NEW r \in Runs, Produce(r) PROVE OwnInv'
<1> USE SameDrivers, DrivenRow, OwnStep DEF Inv, IInv, TypeOK
<1>1. CASE Dispatch(r)
    BY <1>1 DEF Dispatch, OwnInv, Orphan
<1>2. CASE Elapse(r)
    BY <1>2 DEF Elapse
<1>3. ASSUME NEW t \in Tokens, TimerFires(r, t) PROVE OwnInv'
    BY <1>3 DEF TimerFires, dbVars
<1> QED BY <1>1, <1>2, <1>3 DEF Produce

LEMMA SweepOwn == ASSUME Inv, NEW r \in Runs, Sweep(r) PROVE OwnInv'
<1> USE SameDrivers, DrivenRow, OwnStep DEF Inv, IInv, TypeOK
<1>1. CASE SweepQueued(r)
    BY <1>1 DEF SweepQueued, dbVars
<1>2. CASE SweepOverdue(r)
    BY <1>2 DEF SweepOverdue, dbVars
<1>3. CASE SweepFail(r)
    BY <1>3 DEF SweepFail
<1> QED BY <1>1, <1>2, <1>3 DEF Sweep

LEMMA SweepScanOwn == ASSUME Inv, SweepScan PROVE OwnInv'
<1>1. dead' \subseteq Runs /\ \A r \in dead' : r \in elapsed /\ status[r] = "running"
    BY DEF SweepScan, StaleRunning, Visible
<1> QED BY <1>1, SameDrivers, OwnStep DEF SweepScan, dbVars, Inv, IInv

LEMMA OperateOwn == ASSUME Inv, NEW r \in Runs, Operate(r) PROVE OwnInv'
<1> USE SameDrivers, DrivenRow, OwnStep DEF Inv, IInv, TypeOK
<1>1. CASE UserCancel(r)
    BY <1>1 DEF UserCancel, Cancellable, OwnInv, Orphan
<1>2. CASE UserResume(r)
    BY <1>2 DEF UserResume
<1>3. CASE RemoveFlow(r)
    BY <1>3 DEF RemoveFlow
<1> QED BY <1>1, <1>2, <1>3 DEF Operate

-----------------------------------------------------------------------------
(* Steps of a slot: the row of no other run changes.                         *)
LEMMA SlotOwn ==
    ASSUME Inv, NEW w \in Workers, NEW j, job' = [job EXCEPT ![w] = j],
           j.pc \in Driving => job[w].pc \in Driving /\ j.run = job[w].run,
           elapsed' \subseteq elapsed, UNCHANGED <<status, dead>>
    PROVE  OwnInv'
<1>1. \A v \in Workers, r \in Runs : Drives(v, r)' => Drives(v, r)
    BY DEF Drives, Inv, IInv, TypeOK
<1> QED BY <1>1, OwnStep DEF Inv, IInv

LEMMA ClaimOwn == ASSUME Inv, NEW w \in Workers, Claim(w) PROVE OwnInv'
<1>1. PICK r \in Runs : r = job[w].run
    BY JobTyped DEF Inv, IInv, Claim
<1>2. /\ status[r] \in {"queued", "waiting"}
      /\ status' = [status EXCEPT ![r] = "running"]
      /\ elapsed' = elapsed \ {r} /\ dead' = dead
      /\ job' = [job EXCEPT ![w].pc = "load"]
    BY <1>1 DEF Claim, Claimable
<1>3. r \notin dead
    BY <1>2 DEF Inv, OwnInv, Orphan
<1>4. ASSUME NEW v \in Workers, NEW q \in Runs, q # r
      PROVE  Drives(v, q)' => Drives(v, q)
    BY <1>1, <1>2, <1>4 DEF Drives, Inv, IInv, TypeOK, JobType
<1>5. ASSUME NEW q \in Runs, q # r PROVE HasDriver(q)' => HasDriver(q)
    BY <1>4, <1>5 DEF HasDriver
<1>6. status'[r] = "running" /\ \A q \in Runs \ {r} : status'[q] = status[q]
    BY <1>2 DEF Inv, IInv, TypeOK
<1>7. DriverOwnsRow'
    BY <1>4, <1>6 DEF DriverOwnsRow, Inv, OwnInv
<1>8. ASSUME NEW q \in Runs PROVE Orphan(q)'
  <2>1. CASE q = r
      BY <1>2, <1>3, <2>1 DEF Orphan
  <2>2. CASE q # r
    <3>1. Orphan(q)
        BY DEF Inv, OwnInv
    <3> QED BY <1>2, <1>5, <1>6, <2>2, <3>1 DEF Orphan
  <2> QED BY <2>1, <2>2
<1> QED BY <1>7, <1>8 DEF OwnInv

(* A driver that closes or parks its run leaves it.                          *)
LEMMA LeaveOwn ==
    ASSUME Inv, NEW w \in Workers, job[w].pc \in Driving, NEW j, j.pc \notin Driving,
           NEW s, s # "running" \/ status[job[w].run] = "running",
           job' = [job EXCEPT ![w] = j], status' = [status EXCEPT ![job[w].run] = s],
           elapsed' \subseteq elapsed, dead' = dead
    PROVE  OwnInv'
<1>1. PICK r \in Runs : r = job[w].run
    BY Alone DEF Inv
<1>2. HasDriver(r) /\ \A v \in Workers : Drives(v, r) => v = w
    BY <1>1, Alone DEF HasDriver, Drives, Inv
<1>3. \A v \in Workers, q \in Runs : Drives(v, q)' => Drives(v, q) /\ v # w
    BY DEF Drives, Inv, IInv, TypeOK
<1>4. ~HasDriver(r)'
    BY <1>2, <1>3 DEF HasDriver
<1>5. \A q \in Runs \ {r} : status'[q] = status[q]
    BY <1>1 DEF Inv, IInv, TypeOK
<1>6. r \notin dead /\ (status'[r] = "running" => status[r] = "running")
    BY <1>1, <1>2, DrivenRow DEF Inv, IInv, TypeOK
<1> QED BY <1>1, <1>3, <1>4, <1>5, <1>6, OwnStep DEF Inv, IInv

(* What a step of an executor that keeps its run does to the slots.          *)
LEMMA ExecutorStep ==
    ASSUME IInv, NEW w \in Workers,
           Load(w) \/ Fatal(w) \/ ExecAct(w) \/ ExecWait(w) \/ EmitStep(w)
    PROVE  \E j \in JobType : /\ job' = [job EXCEPT ![w] = j] /\ j.run = job[w].run
                              /\ j.pc \in Driving /\ job[w].pc \in Driving
                              /\ elapsed' \subseteq elapsed /\ UNCHANGED <<status, dead>>
<1>1. job[w] \in JobType /\ job[w].at \in 1..Len(Script)
    BY JobTyped DEF IInv, JobType, Nodes
<1>2. CASE Load(w)
  <2>1. StartAt(job[w].run) \in Nodes
      BY <1>2, JobTyped, ScriptFacts DEF Load, IInv, TypeOK, StartAt
  <2> QED BY <1>2, <2>1, JobTyped DEF Load, IInv, JobType, Driving, dbVars
<1>3. CASE Fatal(w)
    BY <1>3, JobTyped DEF Fatal, IInv, JobType, Driving, Outcomes, dbVars
<1>4. CASE ExecAct(w)
    BY <1>4, JobTyped DEF ExecAct, IInv, JobType, Driving, Outcomes
<1>5. CASE ExecWait(w)
    BY <1>5, JobTyped DEF ExecWait, WaitOutcomes, IInv, JobType, Driving, Outcomes, dbVars
<1>6. CASE EmitStep(w)
  <2>1. HasNext(job[w].at) => job[w].at + 1 \in Nodes
      BY <1>1, ScriptFacts DEF HasNext
  <2> QED BY <1>1, <1>6, <2>1 DEF EmitStep, JobType, Driving
<1> QED BY <1>2, <1>3, <1>4, <1>5, <1>6

LEMMA WorkOwn == ASSUME Inv, NEW w \in Workers, Work(w) PROVE OwnInv'
<1>1. CASE Claim(w)
    BY <1>1, ClaimOwn
<1>2. CASE Redelay(w) \/ ClaimLost(w) \/ ParkLost(w) \/ Arm(w)
  <2>1. /\ job' = [job EXCEPT ![w] = Idle] /\ UNCHANGED <<status, elapsed, dead>>
      BY <1>2 DEF Redelay, ClaimLost, ParkLost, Arm, dbVars
  <2> QED BY <2>1, SlotOwn, IdleFacts
<1>3. CASE Load(w) \/ Fatal(w) \/ ExecAct(w) \/ ExecWait(w) \/ EmitStep(w)
    BY <1>3, ExecutorStep, SlotOwn DEF Inv
<1>4. CASE Finish(w)
  <2>1. PICK s : /\ status' = [status EXCEPT ![job[w].run] = s]
                 /\ s \in Terminal \/ s = status[job[w].run]
      BY <1>4 DEF Finish, FinalStatus, Terminal
  <2>2. s # "running" \/ status[job[w].run] = "running"
      BY <2>1 DEF Terminal
  <2>3. job' = [job EXCEPT ![w] = Idle] /\ job[w].pc \in Driving /\ UNCHANGED <<elapsed, dead>>
      BY <1>4 DEF Finish, Driving
  <2> QED BY <2>1, <2>2, <2>3, LeaveOwn, IdleFacts
<1>5. CASE Park(w)
  <2>1. job[w].pc = "park" /\ job[w].pc \in Driving
      BY <1>5 DEF Park, Driving
  <2>2. PICK j : j = [job[w] EXCEPT !.pc = "arm", !.mint = FreshToken(job[w].run)]
      OBVIOUS
  <2>3. j.pc \notin Driving
      BY <2>2, JobTyped DEF Inv, IInv, JobType, Driving
  <2> QED BY <1>5, <2>1, <2>2, <2>3, LeaveOwn DEF Park
<1> QED BY <1>1, <1>2, <1>3, <1>4, <1>5 DEF Work

LEMMA OwnNext == ASSUME ~SlowNodes PROVE Inv /\ [Next]_vars => OwnInv'
<1> SUFFICES ASSUME Inv, [Next]_vars PROVE OwnInv'
    OBVIOUS
<1>1. CASE UNCHANGED vars
    BY <1>1, SameDrivers, OwnStep DEF vars, dbVars, Inv, IInv
<1>2. ASSUME NEW r \in Runs, Produce(r) \/ Sweep(r) \/ Operate(r) PROVE OwnInv'
    BY <1>2, ProduceOwn, SweepOwn, OperateOwn
<1>3. CASE SweepScan
    BY <1>3, SweepScanOwn
<1>4. ASSUME NEW w \in Workers, Work(w) PROVE OwnInv'
    BY <1>4, WorkOwn
<1>5. ASSUME NEW w \in Workers, Crash(w) PROVE OwnInv'
  <2>1. job' = [job EXCEPT ![w] = Idle] /\ UNCHANGED <<status, elapsed, dead>>
      BY <1>5 DEF Crash, dbVars
  <2> QED BY <2>1, SlotOwn, IdleFacts
<1>6. ASSUME NEW w \in Workers, NEW r \in Runs, NEW t \in Tokens, TakeJob(w, r, t) PROVE OwnInv'
  <2>1. PICK j : /\ job' = [job EXCEPT ![w] = j] /\ j.pc \notin Driving
                 /\ UNCHANGED <<status, elapsed, dead>>
      BY <1>6, JobTyped DEF TakeJob, Inv, IInv, JobType, Driving, dbVars
  <2> QED BY <2>1, SlotOwn
<1> QED BY <1>1, <1>2, <1>3, <1>4, <1>5, <1>6 DEF Next

-----------------------------------------------------------------------------
LEMMA InvHolds == ASSUME ~SlowNodes PROVE Spec => []Inv
<1>1. Init => OwnInv
    BY InitOwn
<1>2. IInv /\ OwnInv /\ [Next]_vars => OwnInv'
    BY OwnNext DEF Inv
<1>3. IInv /\ OwnInv => Inv
    BY DEF Inv
<1> QED BY <1>1, <1>2, <1>3, Invariance, PTL DEF Spec

(* When no live worker outlasts the threshold, whoever executes a run owns   *)
(* its row: the sweeper only ever fails runs nobody executes.                *)
THEOREM DriverKeepsRow == ASSUME ~SlowNodes PROVE Spec => []DriverOwnsRow
<1>1. Inv => DriverOwnsRow
    BY DEF Inv, OwnInv
<1> QED BY <1>1, InvHolds, PTL

-----------------------------------------------------------------------------
(* The engine implements FlowRunLifecycle, for every set of runs and worker  *)
(* slots, every graph and every bound, slow nodes included.  The mapping:    *)
(* status is the phase shown, effects what has been performed, and a run is  *)
(* held while some slot drives it.                                           *)
lifeVars == <<status, Driven, effects>>
Refined == Lifecycle!Next \/ UNCHANGED lifeVars

LEMMA DrivenType == Driven = [r \in Runs |-> HasDriver(r)] /\ Driven \in [Runs -> BOOLEAN]
BY DEF Driven, HasDriver

(* Steps that start no driver and end none.                                  *)
LEMMA DrivenSame ==
    ASSUME \A w \in Workers, r \in Runs : Drives(w, r)' <=> Drives(w, r)
    PROVE  Driven' = Driven
<1>1. \A r \in Runs : HasDriver(r)' <=> HasDriver(r)
    BY DEF HasDriver
<1>2. \A r \in Runs : HasDriver(r)' = HasDriver(r)
    BY <1>1 DEF HasDriver
<1> QED BY <1>2 DEF Driven

LEMMA JobsSame == ASSUME job' = job PROVE Driven' = Driven
BY SameDrivers, DrivenSame

LEMMA SlotSame ==
    ASSUME IInv, NEW w \in Workers, NEW j, job' = [job EXCEPT ![w] = j],
           (j.pc \in Driving) <=> (job[w].pc \in Driving),
           job[w].pc \in Driving => j.run = job[w].run
    PROVE  Driven' = Driven
<1>1. \A v \in Workers, r \in Runs : Drives(v, r)' <=> Drives(v, r)
    BY DEF Drives, IInv, TypeOK
<1> QED BY <1>1, DrivenSame

(* A driver that goes idle, or arms the timer, leaves its run to nobody.     *)
LEMMA DriverLeaves ==
    ASSUME IInv, NEW w \in Workers, job[w].pc \in Driving, NEW j, j.pc \notin Driving,
           job' = [job EXCEPT ![w] = j]
    PROVE  Lifecycle!Hold(job[w].run, TRUE, FALSE)
<1>1. PICK r \in Runs : r = job[w].run
    BY Alone
<1>2. HasDriver(r) /\ \A v \in Workers : Drives(v, r) => v = w
    BY <1>1, Alone DEF HasDriver, Drives
<1>3. \A v \in Workers, q \in Runs : Drives(v, q)' <=> Drives(v, q) /\ v # w
    BY DEF Drives, IInv, TypeOK
<1>4. ~HasDriver(r)'
    BY <1>2, <1>3 DEF HasDriver
<1>5. ASSUME NEW q \in Runs, q # r PROVE HasDriver(q)' <=> HasDriver(q)
    BY <1>1, <1>3, <1>5 DEF HasDriver, Drives
<1>6. \A q \in Runs : HasDriver(q)' = IF q = r THEN FALSE ELSE HasDriver(q)
    BY <1>4, <1>5 DEF HasDriver
<1>7. Driven[r] = TRUE /\ Driven' = [Driven EXCEPT ![r] = FALSE]
    BY <1>2, <1>6 DEF Driven
<1> QED BY <1>1, <1>7 DEF Lifecycle!Hold

-----------------------------------------------------------------------------
LEMMA RunRefines ==
    ASSUME IInv, NEW r \in Runs, Produce(r) \/ Sweep(r) \/ Operate(r)
    PROVE  Refined
<1> USE DEF IInv, TypeOK
<1>1. CASE Dispatch(r)
  <2>1. Lifecycle!Create(r)
      BY <1>1, JobsSame DEF Dispatch, Lifecycle!Create, Lifecycle!Move
  <2> QED BY <2>1 DEF Refined, Lifecycle!Next
<1>2. CASE SweepFail(r)
  <2>1. CASE status[r] \in Live
    <3>1. Lifecycle!GiveUp(r)
        BY <1>2, <2>1, JobsSame DEF SweepFail, Lifecycle!GiveUp, Lifecycle!Move, Lifecycle!Open, Live
    <3> QED BY <3>1 DEF Refined, Lifecycle!Next
  <2>2. CASE status[r] \notin Live
      BY <1>2, <2>2, JobsSame DEF SweepFail, Refined, lifeVars
  <2> QED BY <2>1, <2>2
<1>3. CASE UserCancel(r)
  <2>1. Lifecycle!Cancel(r)
      BY <1>3, JobsSame DEF UserCancel, Cancellable, Lifecycle!Cancel, Lifecycle!Move
  <2> QED BY <2>1 DEF Refined, Lifecycle!Next
<1>4. CASE RemoveFlow(r)
  <2>1. Lifecycle!Delete(r)
      BY <1>4, JobsSame DEF RemoveFlow, Lifecycle!Delete, Lifecycle!Move, Lifecycle!Open, Live, Terminal
  <2> QED BY <2>1 DEF Refined, Lifecycle!Next
<1>5. CASE Elapse(r) \/ SweepQueued(r) \/ SweepOverdue(r) \/ UserResume(r)
           \/ \E t \in Tokens : TimerFires(r, t)
    BY <1>5, JobsSame DEF Elapse, SweepQueued, SweepOverdue, UserResume, TimerFires, dbVars, Refined, lifeVars
<1> QED BY <1>1, <1>2, <1>3, <1>4, <1>5 DEF Produce, Sweep, Operate

(* Nobody drives a run that can be claimed.                                  *)
LEMMA ClaimRefines == ASSUME IInv, NEW w \in Workers, Claim(w) PROVE Refined
<1>1. PICK r \in Runs : r = job[w].run
    BY JobTyped DEF IInv, Claim
<1>2. /\ status[r] \in {"queued", "waiting"} /\ effects' = effects
      /\ status' = [status EXCEPT ![r] = "running"]
      /\ job' = [job EXCEPT ![w].pc = "load"]
    BY <1>1 DEF Claim, Claimable
<1>3. ~HasDriver(r)
    BY <1>2 DEF IInv, JobInv, HasDriver, Drives
<1>4. \A v \in Workers, q \in Runs : Drives(v, q)' <=> Drives(v, q) \/ (v = w /\ q = r)
  <2>1. job[w] \in JobType /\ job[w].pc = "claim"
      BY JobTyped DEF IInv, Claim
  <2>2. job'[w].pc = "load" /\ job'[w].run = r /\ \A v \in Workers \ {w} : job'[v] = job[v]
      BY <1>1, <1>2, <2>1 DEF IInv, TypeOK, JobType
  <2> QED BY <2>1, <2>2 DEF Drives, Driving
<1>5. \A q \in Runs : HasDriver(q)' <=> HasDriver(q) \/ q = r
    BY <1>4 DEF HasDriver
<1>6. \A q \in Runs : HasDriver(q)' = IF q = r THEN TRUE ELSE HasDriver(q)
    BY <1>5 DEF HasDriver
<1>7. Driven[r] = FALSE /\ Driven' = [Driven EXCEPT ![r] = TRUE]
  <2>1. HasDriver(r) = FALSE
      BY <1>3 DEF HasDriver
  <2> QED BY <1>6, <2>1 DEF Driven
<1>8. Lifecycle!Take(r)
    BY <1>2, <1>7 DEF Lifecycle!Take, Lifecycle!Move, Lifecycle!Hold
<1> QED BY <1>8 DEF Refined, Lifecycle!Next

(* A node is performed once, after those before it, by the run's holder.     *)
LEMMA ActRefines == ASSUME IInv, NEW w \in Workers, ExecAct(w) PROVE Refined
<1>1. job[w].pc = "exec" /\ job[w].pc \in Driving
    BY DEF ExecAct, Driving
<1>2. PICK r \in Runs : r = job[w].run
    BY <1>1, Alone
<1>3. PICK i \in Nodes : i = job[w].at
    BY <1>1, Alone DEF JobType
<1>4. Script[i] = "act" /\ Ran(r, i)
    BY <1>1, <1>2, <1>3, Alone DEF JobInv, ExecAct
<1>5. status[r] \in {"running", "failed", "gone"} /\ Driven[r]
  <2>1. HasDriver(r)
      BY <1>1, <1>2 DEF HasDriver, Drives
  <2> QED BY <1>1, <1>2, <2>1, Alone DEF JobInv, Driven
<1>6. PICK committed \in 0..1 :
          effects' = [effects EXCEPT ![r][i] = @ + committed] /\ status' = status
    BY <1>2, <1>3 DEF ExecAct
<1>7. i \in Acting /\ effects[r][i] = 0 /\ \A j \in Acting : j < i => effects[r][j] = 1
    BY <1>4, ScriptFacts DEF Ran, Acting
<1>8. effects \in [Runs -> [Nodes -> Nat]]
    BY DEF IInv, TypeOK
<1>9. Driven' = Driven
    BY ExecutorStep, SlotSame
<1>10. CASE committed = 0
  <2>1. effects' = effects
      BY <1>6, <1>8, <1>10
  <2> QED BY <1>6, <1>9, <2>1 DEF Refined, lifeVars
<1>11. CASE committed = 1
  <2>1. effects' = [effects EXCEPT ![r][i] = 1]
      BY <1>6, <1>7, <1>8, <1>11
  <2>2. Lifecycle!Perform(r, i)
      BY <1>5, <1>6, <1>7, <1>9, <2>1 DEF Lifecycle!Perform
  <2> QED BY <1>7, <2>2 DEF Lifecycle!Next, Refined
<1> QED BY <1>10, <1>11

(* A run is closed once, and as completed only when every node has acted; a  *)
(* run failed or deleted meanwhile is dropped.                               *)
LEMMA FinishRefines == ASSUME IInv, NEW w \in Workers, Finish(w) PROVE Refined
<1>1. job[w].pc = "finish" /\ job[w].pc \in Driving
    BY DEF Finish, Driving
<1>2. PICK r \in Runs : r = job[w].run
    BY <1>1, Alone
<1>3. PICK o : o = FinalStatus(job[w].result)
    OBVIOUS
<1>4. status' = [status EXCEPT ![r] = IF status[r] \in Closable(o) THEN o ELSE @] /\ effects' = effects
    BY <1>2, <1>3 DEF Finish
<1>5. o = "completed" => \A i \in Acting : effects[r][i] = 1
  <2> SUFFICES ASSUME o = "completed", NEW i \in Acting PROVE effects[r][i] = 1
      OBVIOUS
  <2>1. job[w].result = "ok"
      BY <1>3 DEF FinalStatus
  <2>2. Ran(r, Len(Script) + 1)
      BY <1>1, <1>2, <2>1, Alone DEF JobInv
  <2> QED BY <2>2, ScriptFacts DEF Ran, Acting
<1>6. Lifecycle!Hold(r, TRUE, FALSE)
    BY <1>1, <1>2, IdleFacts, DriverLeaves DEF Finish
<1>7. CASE status[r] \notin Closable(o)
  <2>1. status' = status
      BY <1>4, <1>7 DEF IInv, TypeOK
  <2>2. Lifecycle!Drop(r)
      BY <1>4, <1>6, <2>1 DEF Lifecycle!Drop
  <2> QED BY <2>2 DEF Refined, Lifecycle!Next
<1>8. CASE status[r] \in Closable(o)
  <2>1. o \in {"completed", "failed", "cancelled"}
      BY <1>3 DEF FinalStatus
  <2>2. status[r] = "running"
      BY <1>1, <1>2, <1>8, Alone DEF Closable, JobInv, Live
  <2>3. Lifecycle!Close(r, o)
      BY <1>4, <1>6, <1>8, <2>2 DEF Lifecycle!Close, Lifecycle!Move
  <2>4. CASE o = "completed"
    <3>1. Lifecycle!Complete(r)
        BY <1>5, <2>3, <2>4 DEF Lifecycle!Complete
    <3> QED BY <3>1 DEF Refined, Lifecycle!Next
  <2>5. CASE o \in {"failed", "cancelled"}
      BY <2>3, <2>5 DEF Refined, Lifecycle!Next
  <2> QED BY <2>1, <2>4, <2>5
<1> QED BY <1>7, <1>8

(* A slot that drops its work, by a crash or because its run is not running. *)
LEMMA DropRefines ==
    ASSUME IInv, NEW w \in Workers, job' = [job EXCEPT ![w] = Idle], UNCHANGED <<status, effects>>
    PROVE  Refined
<1>1. CASE job[w].pc \notin Driving
  <2>1. Driven' = Driven
      BY <1>1, IdleFacts, SlotSame
  <2> QED BY <2>1 DEF Refined, lifeVars
<1>2. CASE job[w].pc \in Driving
  <2>1. PICK r \in Runs : r = job[w].run
      BY <1>2, Alone
  <2>2. Lifecycle!Hold(r, TRUE, FALSE)
      BY <1>2, <2>1, IdleFacts, DriverLeaves
  <2>3. Lifecycle!Drop(r)
      BY <2>2 DEF Lifecycle!Drop
  <2> QED BY <2>3 DEF Refined, Lifecycle!Next
<1> QED BY <1>1, <1>2

LEMMA ParkRefines == ASSUME IInv, NEW w \in Workers, Park(w) PROVE Refined
<1>1. job[w].pc = "park" /\ job[w].pc \in Driving
    BY DEF Park, Driving
<1>2. PICK r \in Runs : r = job[w].run
    BY <1>1, Alone
<1>3. PICK j : j = [job[w] EXCEPT !.pc = "arm", !.mint = FreshToken(job[w].run)]
    OBVIOUS
<1>4. j.pc \notin Driving
    BY <1>3, JobTyped DEF IInv, JobType, Driving
<1>5. Lifecycle!Hold(r, TRUE, FALSE)
    BY <1>1, <1>2, <1>3, <1>4, DriverLeaves DEF Park
<1>6. Lifecycle!Wait(r)
    BY <1>2, <1>5 DEF Park, Lifecycle!Wait, Lifecycle!Move
<1> QED BY <1>6 DEF Refined, Lifecycle!Next

(* Steps of an executor that show nothing.                                   *)
LEMMA SilentRefines ==
    ASSUME IInv, NEW w \in Workers, Load(w) \/ Fatal(w) \/ ExecWait(w) \/ EmitStep(w)
    PROVE  Refined
<1>1. job[w].pc \in Driving /\ UNCHANGED <<status, effects>>
    BY DEF Load, Fatal, ExecWait, EmitStep, Driving, dbVars
<1>2. Driven' = Driven
    BY ExecutorStep, SlotSame
<1> QED BY <1>1, <1>2 DEF Refined, lifeVars

LEMMA WorkRefines == ASSUME IInv, NEW w \in Workers, Work(w) PROVE Refined
<1>1. CASE Redelay(w) \/ ClaimLost(w) \/ ParkLost(w) \/ Arm(w)
    BY <1>1, DropRefines DEF Redelay, ClaimLost, ParkLost, Arm, dbVars
<1> QED BY <1>1, ClaimRefines, ParkRefines, ActRefines, FinishRefines, SilentRefines DEF Work

LEMMA NextRefines == IInv /\ [Next]_vars => Refined
<1> SUFFICES ASSUME IInv, [Next]_vars PROVE Refined
    OBVIOUS
<1>1. CASE SweepScan \/ UNCHANGED vars
    BY <1>1, JobsSame DEF SweepScan, vars, dbVars, Refined, lifeVars
<1>2. ASSUME NEW w \in Workers, Crash(w) PROVE Refined
    BY <1>2, DropRefines DEF Crash, dbVars
<1>3. ASSUME NEW w \in Workers, NEW r \in Runs, NEW t \in Tokens, TakeJob(w, r, t) PROVE Refined
  <2>1. PICK j : job' = [job EXCEPT ![w] = j] /\ j.pc \notin Driving /\ UNCHANGED <<status, effects>>
      BY <1>3, JobTyped DEF TakeJob, IInv, JobType, Driving, dbVars
  <2>2. job[w].pc \notin Driving
      BY <1>3 DEF TakeJob, Driving
  <2>3. Driven' = Driven
      BY <2>1, <2>2, SlotSame
  <2> QED BY <2>1, <2>3 DEF Refined, lifeVars
<1> QED BY <1>1, <1>2, <1>3, RunRefines, WorkRefines DEF Next

(* The engine, with its queue, workers, tokens, crashes and sweeper, is an   *)
(* implementation of the lifecycle it shows, whoever the sweeper catches.    *)
THEOREM EngineImplementsLifecycle == Spec => ImplementsLifecycle
<1>1. Init => Lifecycle!Init
  <2> SUFFICES ASSUME Init PROVE Lifecycle!Init
      OBVIOUS
  <2>1. \A r \in Runs : ~HasDriver(r)
      BY DEF Init, HasDriver, Drives, Driving, Idle
  <2>2. Driven = [r \in Runs |-> FALSE]
    <3>1. \A r \in Runs : HasDriver(r) = FALSE
        BY <2>1 DEF HasDriver
    <3> QED BY <3>1 DEF Driven
  <2> QED BY <2>2 DEF Init, Lifecycle!Init
<1>2. IInv /\ [Next]_vars => [Lifecycle!Next]_lifeVars
    BY NextRefines DEF Refined
<1> QED BY <1>1, <1>2, Invariance, PTL DEF Spec, ImplementsLifecycle, Lifecycle!Spec, lifeVars
=============================================================================
