---------------------------- MODULE ComputeOrder ----------------------------
(***************************************************************************)
(* topoOrder of compute/recompute.ts: the order in which an object's       *)
(* formula and rollup fields are evaluated.  A depth-first visit with      *)
(* 'visiting' and 'done' marks; the fields and the references of a formula *)
(* come in any order.  VisitInit takes every reference graph over Keys, since   *)
(* saving a field does not reject a circular one.                          *)
(***************************************************************************)
EXTENDS Naturals, Sequences, FiniteSets

CONSTANT Keys   \* the computed fields of the object

ASSUME KeysAssumption == IsFiniteSet(Keys)

VARIABLES
    refs,    \* the computed fields each formula mentions, none for a rollup
    state,   \* the marks
    left,    \* the dependencies each open visit has still to make
    stack,   \* the open visits, outermost first
    order,   \* the result so far
    status   \* "running", "ordered", or "circular" once ComputeError is thrown

visitVars == <<refs, state, left, stack, order, status>>

(* A field that mentions itself depends on nothing by that.                  *)
DepsWithSelf(k) == refs[k]
Deps(k) == refs[k] \ {k}

VisitInit ==
    /\ refs \in [Keys -> SUBSET Keys]
    /\ state = [k \in Keys |-> "new"]
    /\ left = [k \in Keys |-> {}]
    /\ stack = <<>>
    /\ order = <<>>
    /\ status = "running"

Top == stack[Len(stack)]

Unvisited(k) == state[k] = "new"

Marks(k) == [state EXCEPT ![k] = "visiting"]

NeverRemoved(k, d) == left[k]
Removed(k, d) == left[k] \ {d}

(* for (const f of computed) visit(f.key, [])                                *)
VisitField(k) ==
    /\ status = "running" /\ stack = <<>>
    /\ state[k] = "new"
    /\ state' = Marks(k)
    /\ left' = [left EXCEPT ![k] = Deps(k)]
    /\ stack' = <<k>>
    /\ UNCHANGED <<refs, order, status>>

VisitDep(d) ==
    /\ status = "running" /\ stack # <<>>
    /\ d \in left[Top]
    /\ Unvisited(d)
    /\ state' = Marks(d)
    /\ left' = [left EXCEPT ![Top] = Removed(Top, d), ![d] = Deps(d)]
    /\ stack' = Append(stack, d)
    /\ UNCHANGED <<refs, order, status>>

SkipDone(d) ==
    /\ status = "running" /\ stack # <<>>
    /\ d \in left[Top]
    /\ state[d] = "done"
    /\ left' = [left EXCEPT ![Top] = Removed(Top, d)]
    /\ UNCHANGED <<refs, state, stack, order, status>>

Throw(d) ==
    /\ status = "running" /\ stack # <<>>
    /\ d \in left[Top]
    /\ state[d] = "visiting"
    /\ status' = "circular"
    /\ UNCHANGED <<refs, state, left, stack, order>>

LeaveAtOnce == stack # <<>>
MayLeave == stack # <<>> /\ left[Top] = {}

Leave ==
    /\ status = "running" /\ MayLeave
    /\ state' = [state EXCEPT ![Top] = "done"]
    /\ order' = Append(order, Top)
    /\ stack' = SubSeq(stack, 1, Len(stack) - 1)
    /\ UNCHANGED <<refs, left, status>>

Return ==
    /\ status = "running" /\ stack = <<>>
    /\ \A k \in Keys : state[k] = "done"
    /\ status' = "ordered"
    /\ UNCHANGED <<refs, state, left, stack, order>>

VisitNext ==
    \/ \E k \in Keys : VisitField(k) \/ VisitDep(k) \/ SkipDone(k) \/ Throw(k)
    \/ Leave \/ Return

VisitSpec == VisitInit /\ [][VisitNext]_visitVars
FairVisitSpec == VisitSpec /\ WF_visitVars(VisitNext)

-----------------------------------------------------------------------------
Elements(seq) == {seq[i] : i \in DOMAIN seq}

(* What another field's formula reads, whatever the visit makes of it.       *)
Reads(k) == refs[k] \ {k}

(* The fields marked 'visiting' are the open visits.                         *)
VisitTypeOK ==
    /\ refs \in [Keys -> SUBSET Keys]
    /\ state \in [Keys -> {"new", "visiting", "done"}]
    /\ left \in [Keys -> SUBSET Keys]
    /\ stack \in Seq(Keys) /\ order \in Seq(Keys)
    /\ status \in {"running", "ordered", "circular"}
    /\ {k \in Keys : state[k] = "visiting"} = Elements(stack)

(* "each is evaluated after the same-record computed fields it reads"        *)
(* (recompute.ts:39-40), at every prefix of the result.                      *)
DependenciesFirst ==
    \A i \in DOMAIN order :
        \A d \in Reads(order[i]) : \E j \in DOMAIN order : j < i /\ order[j] = d

(* A set of fields each of which reads another one of the set.               *)
Cycle(S) == S # {} /\ \A k \in S : Reads(k) \cap S # {}

(* "Throws ComputeError on a cycle" (recompute.ts:40), and only then: a      *)
(* result never leaves a cycle unnoticed, an error is never a false alarm.   *)
ThrowsOnCycleOnly ==
    /\ status = "circular" => \E S \in SUBSET Keys : Cycle(S)
    /\ status = "ordered" => ~\E S \in SUBSET Keys : Cycle(S)

(* A result holds every field once.                                          *)
OrdersEachOnce ==
    /\ \A i, j \in DOMAIN order : order[i] = order[j] => i = j
    /\ status = "ordered" => Elements(order) = Keys

(* The visit ends.                                                           *)
Ends == <>(status # "running")
=============================================================================
