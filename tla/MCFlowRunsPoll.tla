--------------------------- MODULE MCFlowRunsPoll ---------------------------
(***************************************************************************)
(* Small instances of FlowRuns and SfPoll, which share no state: a         *)
(* behaviour is one of a flow run that must end, or of a poller, the other *)
(* at rest.                                                                *)
(***************************************************************************)
EXTENDS FlowRuns, SfPoll

CONSTANTS r1, w1, w2, x, y, z, p1

VARIABLE part

allVars == <<vars, pollVars, part>>

ActAnchorAct == <<"act", "anchor", "act">>
AppOrAdmin == {"app", "none"}

NothingToRun == Init /\ asked = "app"
NothingToPoll == PollInit /\ known = Ids /\ syncCursor.set

PartsInit ==
    \/ part = "runs" /\ Init /\ NothingToPoll
    \/ part = "poll" /\ NothingToRun /\ PollInit

InRuns(A) == part = "runs" /\ A /\ UNCHANGED <<pollVars, part>>
InPoll(A) == part = "poll" /\ A /\ UNCHANGED <<vars, part>>

PartsNext == InRuns(Next) \/ InPoll(PollNext)

(* A poller sees four events in all: changes, imports and crashes, none of   *)
(* which is owed.                                                            *)
FourEvents == changes + imports + pollCrashes <= 4

(* The fairness of each.                                                     *)
PartsSpec ==
    /\ PartsInit /\ [][PartsNext]_allVars
    /\ \A w \in Workers : WF_allVars(InRuns(Work(w)))
    /\ \A r \in Runs, t \in Tokens : SF_allVars(InRuns(\E w \in Workers : TakeJob(w, r, t)))
    /\ \A r \in Runs : WF_allVars(InRuns(Elapse(r))) /\ WF_allVars(InRuns(\E t \in Tokens : TimerFires(r, t)))
    /\ \A r \in Runs : WF_allVars(InRuns(SweepQueued(r))) /\ WF_allVars(InRuns(SweepOverdue(r)))
                          /\ WF_allVars(InRuns(SweepFail(r)))
    /\ WF_allVars(InRuns(SweepScan))
    /\ \A p \in Pollers : WF_allVars(InPoll(Poll(p)))
=============================================================================
