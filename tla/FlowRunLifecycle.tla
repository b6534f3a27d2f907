-------------------------- MODULE FlowRunLifecycle --------------------------
(***************************************************************************)
(* What the automation engine promises about one run, with no queue, no    *)
(* workers, no tokens and no sweeper: a run is created once, taken by one  *)
(* executor at a time, alternates between running and waiting, has each    *)
(* acting node of its graph performed at most once, in order and by the    *)
(* executor that holds it, and is closed once.  A run may be given up, or  *)
(* deleted, under its executor: that executor may still act, but the run   *)
(* never comes back and nobody takes it again.                             *)
(***************************************************************************)
EXTENDS Naturals

CONSTANTS
    Runs,
    Nodes,    \* the positions of the graph
    Acting    \* the positions of the graph whose nodes have side effects

VARIABLES
    phase,    \* the status the run shows
    held,     \* somebody executes the run
    ran       \* how often each node's side effect is committed

Open == {"queued", "running", "waiting"}

Init ==
    /\ phase = [r \in Runs |-> "none"]
    /\ held = [r \in Runs |-> FALSE]
    /\ ran = [r \in Runs |-> [i \in Nodes |-> 0]]

Move(r, from, to) == phase[r] \in from /\ phase' = [phase EXCEPT ![r] = to]

Hold(r, before, after) == held[r] = before /\ held' = [held EXCEPT ![r] = after]

(* By producers, operators and the sweeper, who hold nothing.                *)
Create(r) == Move(r, {"none"}, "queued") /\ UNCHANGED <<held, ran>>
Cancel(r) == Move(r, {"queued", "waiting"}, "cancelled") /\ UNCHANGED <<held, ran>>
GiveUp(r) == Move(r, Open, "failed") /\ UNCHANGED <<held, ran>>
Delete(r) == Move(r, Open \cup {"completed", "failed", "cancelled"}, "gone") /\ UNCHANGED <<held, ran>>

(* By the executor.                                                          *)
Take(r) == Move(r, {"queued", "waiting"}, "running") /\ Hold(r, FALSE, TRUE) /\ UNCHANGED ran
Wait(r) == Move(r, {"running"}, "waiting") /\ Hold(r, TRUE, FALSE) /\ UNCHANGED ran
Close(r, to) == Move(r, {"running"}, to) /\ Hold(r, TRUE, FALSE) /\ UNCHANGED ran
Complete(r) == (\A i \in Acting : ran[r][i] = 1) /\ Close(r, "completed")
Drop(r) == Hold(r, TRUE, FALSE) /\ UNCHANGED <<phase, ran>>

Perform(r, i) ==
    /\ held[r] /\ phase[r] \in {"running", "failed", "gone"}
    /\ ran[r][i] = 0
    /\ \A j \in Acting : j < i => ran[r][j] = 1
    /\ ran' = [ran EXCEPT ![r][i] = 1]
    /\ UNCHANGED <<phase, held>>

Next == \E r \in Runs :
    \/ Create(r) \/ Cancel(r) \/ GiveUp(r) \/ Delete(r)
    \/ Take(r) \/ Wait(r) \/ Complete(r) \/ Drop(r)
    \/ \E to \in {"failed", "cancelled"} : Close(r, to)
    \/ \E i \in Acting : Perform(r, i)

Spec == Init /\ [][Next]_<<phase, held, ran>>
=============================================================================
