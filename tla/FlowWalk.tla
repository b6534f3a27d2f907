----------------------------- MODULE FlowWalk ------------------------------
(***************************************************************************)
(* One run of the engine's drive loop over a validated graph: the walker's *)
(* advance(), the trace steps it leaves, and the two step counters across  *)
(* parks.  Conditions, collections and waits answer anything.              *)
(***************************************************************************)
EXTENDS FlowGraph, Sequences

CONSTANTS
    Graphs,             \* the drafts considered
    MaxSteps,           \* FLOW_LIMITS.maxSteps
    MaxLoopIterations,  \* FLOW_LIMITS.maxLoopIterations
    MaxItems,           \* bound: longest collection a loop meets
    MaxReparks          \* bound: times a wait parks again when resumed

ASSUME DraftAssumption == \A g \in Graphs : g \subseteq Edge /\ IsFiniteSet(g)
ASSUME LimitAssumption ==
    /\ MaxSteps \in Nat /\ MaxLoopIterations \in Nat /\ MaxItems \in Nat /\ MaxReparks \in Nat

VARIABLES
    edges,    \* the graph of the active version
    at,       \* the node drive is at
    frames,   \* WalkState.loopFrames, innermost last
    steps,    \* WalkState.stepCount
    column,   \* flow_run.step_count, bumped by insertStep
    reparks,
    phase     \* "running", "parked", "completed" or why it failed

vars == <<edges, at, frames, steps, column, reparks, phase>>

Structural == {"unknown branch", "missing exit"}
Limits == {"steps", "iterations", "nesting"}

Init ==
    /\ edges \in {g \in Graphs : Valid(g)}
    /\ at \in OfKind("trigger")
    /\ frames = <<>>
    /\ steps = 0 /\ column = 0 /\ reparks = 0
    /\ phase = "running"

Top == frames[Len(frames)]
Driving == phase \in {"running", "resumed"}
IsReturnOutermost == frames # <<>> /\ frames[1].loop = at
IsReturn == frames # <<>> /\ Top.loop = at
Entered == {frames[i].loop : i \in 1..Len(frames)}

Emit(n) == column' = column + n

Fail(why) ==
    /\ phase' = why
    /\ UNCHANGED <<edges, at, frames, steps, reparks>>

(* Every call of advance() spends one step of the budget first.              *)
BudgetSpentOffByOne == steps > MaxSteps
BudgetSpent == steps + 1 > MaxSteps

Spend ==
    /\ ~BudgetSpent
    /\ steps' = steps + 1
    /\ UNCHANGED <<edges, reparks>>

OutOfBudget == BudgetSpent /\ Fail("steps")

(* Follow the edge of a handle; without one the run is done.                 *)
Follow(h, fs) ==
    /\ frames' = fs
    /\ IF On(edges, at, h) = {}
       THEN phase' = "completed" /\ UNCHANGED at
       ELSE phase' = "running" /\ \E e \in On(edges, at, h) : at' = e.target

(* advance() of a linear input.                                              *)
AdvanceLinear ==
    \/ OutOfBudget
    \/ ~BudgetSpent /\ Cardinality(Outs(edges, at)) > 1 /\ Fail("missing exit")
    \/ Cardinality(Outs(edges, at)) <= 1 /\ Spend /\ Follow(Plain, frames)

(* A trigger, an executor that succeeded or failed or ended the run, or a    *)
(* wait that is over.                                                        *)
VisitLinear ==
    /\ Driving /\ Kind[at] \in {"trigger", "linear", "wait"}
    /\ Emit(1)
    /\ AdvanceLinear \/ Fail("executor")

(* advance() of a decision: the default edge, or that of the outcome.        *)
AdvanceDecision ==
    \/ OutOfBudget
    \/ Spend /\ Follow("default", frames)
    \/ \E o \in Outcomes :
          \/ ~BudgetSpent /\ On(edges, at, o) = {} /\ Fail("unknown branch")
          \/ On(edges, at, o) # {} /\ Spend /\ Follow(o, frames)

VisitDecision ==
    /\ phase = "running" /\ Kind[at] = "decision"
    /\ Emit(1)
    /\ AdvanceDecision

FollowLoop(h, fs) ==
    \/ ~BudgetSpent /\ On(edges, at, h) = {} /\ Fail("missing exit")
    \/ On(edges, at, h) # {} /\ Spend /\ Follow(h, fs)

(* The back-edge: count the iteration against the snapshot taken on entry.   *)
LastItem(index, total) == index >= total

NextIndex == Top.index + 1
PoppedNone(fs) == fs
Popped(fs) == SubSeq(fs, 1, Len(fs) - 1)

AdvanceReturn(index) ==
    \/ OutOfBudget
    \/ LastItem(index, Top.total) /\ FollowLoop("done", Popped(frames))
    \/ ~BudgetSpent /\ ~LastItem(index, Top.total) /\ index >= MaxLoopIterations /\ Fail("iterations")
    \/ /\ ~LastItem(index, Top.total) /\ index < MaxLoopIterations
       /\ FollowLoop("body", [frames EXCEPT ![Len(frames)].index = index])

ReturnToLoop ==
    /\ phase = "running" /\ Kind[at] = "loop" /\ IsReturn
    /\ Emit(0)
    /\ AdvanceReturn(NextIndex)

(* Arrival at a loop that is not the innermost one.                          *)
AdvanceEntry(count) ==
    \/ OutOfBudget
    \/ ~BudgetSpent /\ at \in Entered /\ Fail("re-entered")
    \/ at \notin Entered /\ count = 0 /\ FollowLoop("done", frames)
    \/ at \notin Entered /\ ~BudgetSpent /\ count > MaxLoopIterations /\ Fail("iterations")
    \/ /\ at \notin Entered /\ ~BudgetSpent /\ count \in 1..MaxLoopIterations
       /\ Len(frames) + 1 > MaxLoopNesting /\ Fail("nesting")
    \/ /\ at \notin Entered /\ count \in 1..MaxLoopIterations
       /\ Len(frames) + 1 <= MaxLoopNesting
       /\ FollowLoop("body", Append(frames, [loop |-> at, index |-> 0, total |-> count]))

EnterLoop(count) ==
    /\ phase = "running" /\ Kind[at] = "loop" /\ ~IsReturn
    /\ Emit(1)
    /\ AdvanceEntry(count)

(* A wait parks the run: a trace step without an advance.  When the run is   *)
(* resumed a moved anchor may park it at the same wait again.                *)
Park ==
    /\ Kind[at] = "wait"
    /\ \/ phase = "running" /\ UNCHANGED reparks
       \/ phase = "resumed" /\ reparks < MaxReparks /\ reparks' = reparks + 1
    /\ Emit(1)
    /\ phase' = "parked"
    /\ UNCHANGED <<edges, at, frames, steps>>

ReseedZero == 0
Reseed == column

(* runFlow after the claim: the frames come back from the context, the       *)
(* budget from the column, and drive starts at the wait.                     *)
Resume ==
    /\ phase = "parked"
    /\ steps' = Reseed
    /\ phase' = "resumed"
    /\ UNCHANGED <<edges, at, frames, column, reparks>>

Next ==
    \/ VisitLinear \/ VisitDecision \/ ReturnToLoop \/ Park \/ Resume
    \/ \E count \in 0..MaxItems : EnterLoop(count)

Spec == Init /\ [][Next]_vars

-----------------------------------------------------------------------------
(* Every frame is a live loop with iterations left, no loop is live twice.   *)
TypeOK ==
    /\ edges \subseteq Edge
    /\ at \in Nodes
    /\ frames \in Seq([loop : OfKind("loop"), index : Nat, total : 1..MaxItems])
    /\ \A i \in 1..Len(frames) : frames[i].index < frames[i].total
    /\ Cardinality(Entered) = Len(frames)
    /\ steps \in Nat /\ column \in Nat /\ reparks \in 0..MaxReparks
    /\ phase \in {"running", "resumed", "parked", "completed", "executor", "re-entered"}
                    \cup Structural \cup Limits

(* validateFlowGraph prevents at activation what the walker calls structural *)
(* violations (walker.ts:68-72): no branch or exit is ever missing.          *)
NoStructuralError == phase \notin Structural \cup {"nesting"}

(* The node being visited lies in the body of every live loop, so loopItem   *)
(* (taken from the innermost frame) is the item of a loop around it.         *)
FramesEnclose == phase \in {"running", "resumed", "parked"} =>
    \A l \in Entered : at = l \/ at \in Body(edges, l)

(* The reseeded budget still caps the whole run: apart from repeated parks   *)
(* of a moving anchor, all sessions together leave at most maxSteps + 2      *)
(* trace steps (a park at the limit and the visit that finds it spent),      *)
(* however often the run is parked in between.                               *)
TraceWithinBudget == column <= MaxSteps + 2 + reparks

(* In a structured graph (no path leaves a body but by its loop) a loop is   *)
(* never met again while an inner one is still live: the frames nest as the  *)
(* bodies do, so "re-entered" (walker.ts:140-144) can only come of an early  *)
(* exit from a body.                                                         *)
StructuredNeverReenters == Structured(edges) => phase # "re-entered"

=============================================================================
