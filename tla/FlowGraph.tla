----------------------------- MODULE FlowGraph -----------------------------
(***************************************************************************)
(* Flow graphs and validateFlowGraph, the structural gate every graph      *)
(* passes before it can be activated.  A graph is its set of edges over    *)
(* the typed nodes of the draft.                                           *)
(***************************************************************************)
EXTENDS Naturals, FiniteSets

CONSTANTS
    Nodes,          \* node ids
    Kind,           \* the type of each: "trigger", "linear", "wait", "decision" or "loop"
    Outcomes,       \* outcome ids of the decisions
    MaxLoopNesting  \* FLOW_LIMITS.maxLoopNesting

ASSUME KindAssumption ==
    Kind \in [Nodes -> {"trigger", "linear", "wait", "decision", "loop"}]
ASSUME NestingAssumption == IsFiniteSet(Nodes) /\ MaxLoopNesting \in Nat

Plain == "plain"    \* the handle of an edge without a branch
Handles == Outcomes \cup {Plain, "default", "body", "done"}
Edge == [source : Nodes, handle : Handles, target : Nodes]

OfKind(k) == {n \in Nodes : Kind[n] = k}
Outs(edges, n) == {e \in edges : e.source = n}
On(edges, n, h) == {e \in Outs(edges, n) : e.handle = h}

(* What can be reached from `from' without stepping out of a stop node.      *)
ReachedFrom(edges, from, stop) ==
    LET Grow(S) == S \cup {e.target : e \in {e \in edges : e.source \in S \ stop}}
        R[k \in 0..Cardinality(Nodes)] == IF k = 0 THEN from ELSE Grow(R[k - 1])
    IN  R[Cardinality(Nodes)]

(* The loop body as the validator computes it.                               *)
Body(edges, loop) ==
    ReachedFrom(edges, {e.target : e \in On(edges, loop, "body")}, {loop}) \ {loop}

BackEdges(edges) ==
    {e \in edges : Kind[e.target] = "loop" /\ e.source \in Body(edges, e.target)}

Acyclic(edges) ==
    \A n \in Nodes : n \notin ReachedFrom(edges, {e.target : e \in Outs(edges, n)}, {})

NestingDepth(edges, loop) ==
    1 + Cardinality({o \in OfKind("loop") \ {loop} : loop \in Body(edges, o)})

OneTrigger == Cardinality(OfKind("trigger")) = 1

(* Every branch of a decision leads somewhere; a missing default only warns. *)
DecisionExits(edges, n) ==
    /\ \A o \in Outcomes : Cardinality(On(edges, n, o)) = 1
    /\ Cardinality(On(edges, n, "default")) <= 1
    /\ \A e \in Outs(edges, n) : e.handle \in Outcomes \cup {"default"}

LoopExitsLax(edges, n) ==
    /\ Cardinality(On(edges, n, "body")) = 1
    /\ \A e \in Outs(edges, n) : e.handle \in {"body", "done"}
LoopExits(edges, n) ==
    /\ Cardinality(On(edges, n, "body")) = 1
    /\ Cardinality(On(edges, n, "done")) = 1
    /\ \A e \in Outs(edges, n) : e.handle \in {"body", "done"}

LinearExits(edges, n) ==
    /\ Cardinality(Outs(edges, n)) <= 1
    /\ \A e \in Outs(edges, n) : e.handle = Plain

ExitsOk(edges, n) ==
    CASE Kind[n] = "decision" -> DecisionExits(edges, n)
      [] Kind[n] = "loop" -> LoopExits(edges, n)
      [] OTHER -> LinearExits(edges, n)

NestingOk(edges) == \A l \in OfKind("loop") : NestingDepth(edges, l) <= MaxLoopNesting

ReturnsOk(edges) ==
    \A l \in OfKind("loop") :
        Body(edges, l) # {} => \E e \in BackEdges(edges) : e.target = l

Valid(edges) ==
    /\ OneTrigger
    /\ \A e \in edges : Kind[e.target] # "trigger"
    /\ \A n \in Nodes : ExitsOk(edges, n)
    /\ ReturnsOk(edges)
    /\ Acyclic(edges \ BackEdges(edges))
    /\ Nodes = ReachedFrom(edges, OfKind("trigger"), {})
    /\ NestingOk(edges)

(* Structured programs: no edge leaves a loop body other than through the    *)
(* loop's `done', and no two loops contain each other.                       *)
After(edges, loop) ==
    ReachedFrom(edges, {e.target : e \in On(edges, loop, "done")}, {loop}) \ {loop}

Structured(edges) ==
    \A l \in OfKind("loop") :
        /\ Body(edges, l) \cap After(edges, l) = {}
        /\ \A k \in OfKind("loop") : ~(k \in Body(edges, l) /\ l \in Body(edges, k))
=============================================================================
