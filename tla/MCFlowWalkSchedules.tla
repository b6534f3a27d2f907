------------------------ MODULE MCFlowWalkSchedules ------------------------
(***************************************************************************)
(* Small instances of FlowWalk and FlowSchedules, which share no state: a  *)
(* behaviour is either a walk over one graph, the schedules untouched, or  *)
(* a history of the schedules, the walker at rest.                         *)
(*                                                                         *)
(* The graphs: an outer loop L1, an inner loop L2, a loop L3 that is       *)
(* nested in either or follows, a decision D, a wait W and a last action A,*)
(* joined in every way the sets below allow.                               *)
(***************************************************************************)
EXTENDS FlowWalk, FlowSchedules, TLC

CONSTANTS f1, daily, weekly

VARIABLE part

allVars == <<vars, scheduleVars, part>>

Kinds == [T |-> "trigger", L1 |-> "loop", L2 |-> "loop", L3 |-> "loop",
          D |-> "decision", W |-> "wait", A |-> "linear"]

Exit(n, h, t) == IF t = "none" THEN {} ELSE {[source |-> n, handle |-> h, target |-> t]}

Loops == {"L1", "L2", "L3"}
Outer == Exit("T", Plain, "L1") \cup Exit("L1", "body", "L2")

AllGraphs ==
    {Outer \cup Exit("L1", "done", a) \cup Exit("L2", "body", b) \cup Exit("L2", "done", c)
           \cup Exit("L3", "body", d) \cup Exit("L3", "done", e)
           \cup Exit("D", "o", f) \cup Exit("D", "default", g) \cup Exit("W", Plain, h) :
        a \in {"L3", "A"}, b \in {"L3", "D", "W"}, c \in {"L1", "D", "A"}, d \in {"D", "W"},
        e \in {"L1", "L2", "A", "none"},
        f \in Loops \cup {"W", "A"}, g \in Loops \cup {"none"}, h \in Loops \cup {"D", "A", "none"}}

(* A worker process as the code starts it, and one that holds the admin      *)
(* connection.                                                               *)
AppOrAdmin == {"app", "none"}

WalkerAtRest ==
    /\ edges = {} /\ at = "T" /\ frames = <<>>
    /\ steps = 0 /\ column = 0 /\ reparks = 0 /\ phase = "completed"

PartsInit ==
    /\ ScheduleInit
    /\ \/ part = "walk" /\ asked = "app" /\ Init
       \/ part = "schedules" /\ WalkerAtRest

InWalk(A) == part = "walk" /\ A /\ UNCHANGED <<scheduleVars, part>>
InSchedules(A) == part = "schedules" /\ A /\ UNCHANGED <<vars, part>>

PartsNext == InWalk(Next) \/ InSchedules(ScheduleNext)

(* The fairness of FlowSchedules; a walk owes nothing.                       *)
PartsSpec ==
    /\ PartsInit /\ [][PartsNext]_allVars
    /\ WF_allVars(InSchedules(Reconcile))
    /\ WF_allVars(InSchedules(\E h \in Row : RunHook(h) \/ LoseHook(h)))
=============================================================================
