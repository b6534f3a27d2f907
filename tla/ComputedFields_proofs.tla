----------------------- MODULE ComputedFields_proofs ------------------------
(***************************************************************************)
(* Computed fields.  ComputeOrder: topoOrder orders every reference graph  *)
(* of any set of fields.  ComputeBackfill, for every set of rows, page     *)
(* size and all bounds: a deleted record never comes back; a backfill that *)
(* completes has put every record that was there when it started on a      *)
(* page, but for those created at the same time as another and those that  *)
(* a deletion moved past the worker's place; and after one load, with an   *)
(* attempt left, every record at rest carries what its data and the        *)
(* definition compute.                                                     *)
(***************************************************************************)
EXTENDS ComputeOrder, ComputeBackfill, FiniteSetTheorems, TLAPS

(* ComputeOrder.                                                             *)

(* The open visits are distinct and each was entered from the one below it.  *)
OpenOnce == \A i, j \in DOMAIN stack : stack[i] = stack[j] => i = j
OpenPath == \A i \in DOMAIN stack : i < Len(stack) => stack[i + 1] \in Deps(stack[i])

(* A dependency of an open visit is still to be made, made, or the next one. *)
OpenRest ==
    \A i \in DOMAIN stack : \A d \in Deps(stack[i]) :
        \/ d \in left[stack[i]]
        \/ state[d] = "done"
        \/ i < Len(stack) /\ d = stack[i + 1]

RestIsDeps == \A k \in Keys : left[k] \subseteq Deps(k)

(* What is done is in the result, once, with its dependencies, and holds no  *)
(* cycle.                                                                    *)
DoneInOrder == \A k \in Keys : state[k] = "done" <=> k \in Elements(order)
OrderOnce == \A i, j \in DOMAIN order : order[i] = order[j] => i = j
DoneClosed == \A k \in Keys : state[k] = "done" => \A d \in Deps(k) : state[d] = "done"
NoDoneCycle == \A S \in SUBSET Keys : (\A k \in S : state[k] = "done") => ~Cycle(S)

Outcome ==
    /\ status = "circular" => stack # <<>> /\ \E d \in Deps(Top) : state[d] = "visiting"
    /\ status = "ordered" => \A k \in Keys : state[k] = "done"

VisitInv ==
    /\ VisitTypeOK /\ OpenOnce /\ OpenPath /\ OpenRest /\ RestIsDeps
    /\ DoneInOrder /\ OrderOnce /\ DoneClosed /\ NoDoneCycle /\ DependenciesFirst
    /\ Outcome

-----------------------------------------------------------------------------
LEMMA TopIsOpen ==
  ASSUME VisitTypeOK, stack # <<>>
  PROVE  /\ Len(stack) \in Nat /\ Len(stack) \in DOMAIN stack /\ Len(stack) >= 1
         /\ Top \in Keys /\ state[Top] = "visiting"
  <1>1. stack \in Seq(Keys)
    BY DEF VisitTypeOK
  <1>2. Len(stack) \in Nat /\ Len(stack) \in DOMAIN stack /\ Len(stack) >= 1 /\ Top \in Keys
    BY <1>1 DEF Top
  <1>3. Top \in Elements(stack)
    BY <1>2 DEF Top, Elements
  <1>4. QED
    BY <1>2, <1>3 DEF VisitTypeOK

LEMMA VisitingIsOpen ==
  ASSUME VisitTypeOK, NEW d \in Keys, state[d] = "visiting"
  PROVE  \E i \in DOMAIN stack : stack[i] = d
  BY DEF VisitTypeOK, Elements

LEMMA Initial == VisitInit => VisitInv
  <1> SUFFICES ASSUME VisitInit PROVE VisitInv
    OBVIOUS
  <1>1. stack = <<>> /\ order = <<>> /\ DOMAIN stack = {} /\ DOMAIN order = {}
        /\ \A k \in Keys : state[k] = "new"
    BY DEF VisitInit
  <1>2. VisitTypeOK
    <2>1. Elements(stack) = {} /\ {k \in Keys : state[k] = "visiting"} = {}
      BY <1>1 DEF Elements
    <2>2. refs \in [Keys -> SUBSET Keys] /\ state \in [Keys -> {"new", "visiting", "done"}]
          /\ left \in [Keys -> SUBSET Keys] /\ status = "running"
      BY DEF VisitInit
    <2>3. QED
      BY <1>1, <2>1, <2>2 DEF VisitTypeOK
  <1>3. OpenOnce /\ OpenPath /\ OpenRest /\ OrderOnce /\ DependenciesFirst
    BY <1>1 DEF OpenOnce, OpenPath, OpenRest, OrderOnce, DependenciesFirst
  <1>4. RestIsDeps
    BY DEF VisitInit, RestIsDeps
  <1>5. DoneInOrder /\ DoneClosed
    BY <1>1 DEF DoneInOrder, DoneClosed, Elements
  <1>6. NoDoneCycle
    BY <1>1 DEF NoDoneCycle, Cycle
  <1>7. Outcome
    BY DEF VisitInit, Outcome
  <1>8. QED
    BY <1>2, <1>3, <1>4, <1>5, <1>6, <1>7 DEF VisitInv

(* Entering a field from the loop: the stack was empty.                      *)
LEMMA VisitFieldStep ==
  ASSUME VisitInv, NEW k \in Keys, VisitField(k)
  PROVE  VisitInv'
  <1> USE DEF VisitInv
  <1>1. /\ stack' = <<k>> /\ DOMAIN stack' = {1} /\ Len(stack') = 1 /\ stack'[1] = k
        /\ refs' = refs /\ order' = order /\ status' = "running"
        /\ state[k] = "new" /\ state' = [state EXCEPT ![k] = "visiting"]
        /\ left' = [left EXCEPT ![k] = Deps(k)]
    BY DEF VisitField, Marks
  <1>2. \A x \in Keys : Deps(x)' = Deps(x) /\ Reads(x)' = Reads(x)
    BY <1>1 DEF Deps, Reads
  <1>3. \A x \in Keys : state[x] = "done" <=> state'[x] = "done"
    BY <1>1 DEF VisitTypeOK
  <1>4. \A x \in Keys : Deps(x) \subseteq Keys
    BY DEF Deps, VisitTypeOK
  <1>5. {x \in Keys : state[x] = "visiting"} = {}
    BY DEF VisitField, VisitTypeOK, Elements
  <1>6. VisitTypeOK'
    <2>1. Elements(stack)' = {k}
      BY <1>1 DEF Elements
    <2>2. {x \in Keys : state'[x] = "visiting"} = {k}
      BY <1>1, <1>5 DEF VisitTypeOK
    <2>3. refs' \in [Keys -> SUBSET Keys] /\ state' \in [Keys -> {"new", "visiting", "done"}]
          /\ left' \in [Keys -> SUBSET Keys] /\ stack' \in Seq(Keys) /\ order' \in Seq(Keys)
      BY <1>1, <1>4 DEF VisitTypeOK
    <2>4. QED
      BY <1>1, <2>1, <2>2, <2>3 DEF VisitTypeOK
  <1>7. OpenOnce' /\ OpenPath'
    BY <1>1 DEF OpenOnce, OpenPath
  <1>8. OpenRest'
    BY <1>1, <1>2 DEF OpenRest, VisitTypeOK
  <1>9. RestIsDeps'
    BY <1>1, <1>2 DEF RestIsDeps, VisitTypeOK
  <1>10. DoneInOrder' /\ OrderOnce'
    BY <1>1, <1>3 DEF DoneInOrder, OrderOnce, Elements
  <1>11. DoneClosed'
    BY <1>2, <1>3, <1>4 DEF DoneClosed
  <1>12. NoDoneCycle'
    BY <1>2, <1>3 DEF NoDoneCycle, Cycle
  <1>13. DependenciesFirst'
    BY <1>1, <1>2 DEF DependenciesFirst, VisitTypeOK
  <1>14. Outcome'
    BY <1>1 DEF Outcome
  <1>15. QED
    BY <1>6, <1>7, <1>8, <1>9, <1>10, <1>11, <1>12, <1>13, <1>14

(* Entering a dependency of the top visit: the stack grows by one.           *)
LEMMA VisitDepStep ==
  ASSUME VisitInv, NEW d \in Keys, VisitDep(d)
  PROVE  VisitInv'
  <1> USE DEF VisitInv
  <1>a. stack # <<>> /\ d \in left[Top] /\ state[d] = "new"
    BY DEF VisitDep, Unvisited
  <1>b. /\ Len(stack) \in Nat /\ Len(stack) \in DOMAIN stack /\ Len(stack) >= 1
        /\ Top \in Keys /\ state[Top] = "visiting" /\ stack \in Seq(Keys)
    BY <1>a, TopIsOpen DEF VisitTypeOK
  <1>c. Top # d
    BY <1>a, <1>b
  <1>1. /\ stack' = Append(stack, d)
        /\ refs' = refs /\ order' = order /\ status' = "running"
        /\ state' = [state EXCEPT ![d] = "visiting"]
        /\ left' = [left EXCEPT ![Top] = left[Top] \ {d}, ![d] = Deps(d)]
    BY DEF VisitDep, Marks, Removed
  <1>2. \A x \in Keys : Deps(x)' = Deps(x) /\ Reads(x)' = Reads(x)
    BY <1>1 DEF Deps, Reads
  <1>3. \A x \in Keys : state[x] = "done" <=> state'[x] = "done"
    BY <1>1, <1>a DEF VisitTypeOK
  <1>4. \A x \in Keys : Deps(x) \subseteq Keys
    BY DEF Deps, VisitTypeOK
  <1>5. /\ DOMAIN stack' = 1 .. Len(stack) + 1 /\ Len(stack') = Len(stack) + 1
        /\ DOMAIN stack = 1 .. Len(stack)
        /\ \A i \in DOMAIN stack : stack'[i] = stack[i]
        /\ stack'[Len(stack) + 1] = d
        /\ stack' \in Seq(Keys)
    BY <1>1, <1>b
  <1>6. \A i \in DOMAIN stack : stack[i] # d /\ stack[i] \in Keys
    BY <1>a, <1>b DEF VisitTypeOK, Elements
  <1>7. /\ left' \in [Keys -> SUBSET Keys]
        /\ left'[d] = Deps(d) /\ left'[Top] = left[Top] \ {d}
        /\ \A x \in Keys : x # d /\ x # Top => left'[x] = left[x]
    BY <1>1, <1>4, <1>b, <1>c DEF VisitTypeOK
  <1>8. VisitTypeOK'
    <2>1. Elements(stack)' = Elements(stack) \cup {d}
      BY <1>5, <1>b DEF Elements
    <2>2. {x \in Keys : state'[x] = "visiting"} = {x \in Keys : state[x] = "visiting"} \cup {d}
      BY <1>1 DEF VisitTypeOK
    <2>3. refs' \in [Keys -> SUBSET Keys] /\ state' \in [Keys -> {"new", "visiting", "done"}]
          /\ order' \in Seq(Keys)
      BY <1>1 DEF VisitTypeOK
    <2>4. QED
      BY <1>1, <1>5, <1>7, <2>1, <2>2, <2>3 DEF VisitTypeOK
  <1>9. OpenOnce'
    BY <1>5, <1>6, <1>b DEF OpenOnce
  <1>10. OpenPath'
    <2>1. d \in Deps(Top)
      BY <1>a, <1>b DEF RestIsDeps
    <2>2. ASSUME NEW i \in DOMAIN stack', i < Len(stack') PROVE stack'[i + 1] \in Deps(stack'[i])
      <3>1. i \in DOMAIN stack /\ stack'[i] = stack[i] /\ stack[i] \in Keys
        BY <2>2, <1>5, <1>6, <1>b
      <3>2. CASE i = Len(stack)
        BY <3>1, <3>2, <2>1, <1>5 DEF Top
      <3>3. CASE i # Len(stack)
        <4>1. i < Len(stack) /\ i + 1 \in DOMAIN stack
          BY <3>1, <3>3, <1>5, <1>b
        <4>2. QED
          BY <4>1, <3>1, <1>5 DEF OpenPath
      <3>4. QED
        BY <3>2, <3>3
    <2>3. QED
      BY <2>2, <1>1 DEF OpenPath, Deps
  <1>11. OpenRest'
    <2>1. SUFFICES ASSUME NEW i \in DOMAIN stack', NEW x \in Deps(stack'[i])
                   PROVE  \/ x \in left'[stack'[i]]
                          \/ state'[x] = "done"
                          \/ i < Len(stack') /\ x = stack'[i + 1]
      BY <1>1 DEF OpenRest, Deps
    <2>2. CASE i = Len(stack) + 1
      BY <2>2, <1>5, <1>7
    <2>3. CASE i = Len(stack)
      <3>1. stack'[i] = Top /\ i < Len(stack') /\ stack'[i + 1] = d
        BY <2>3, <1>5, <1>b DEF Top
      <3>2. x \in Deps(Top) /\ x \in Keys
        BY <3>1, <1>4, <1>b
      <3>3. x \in left[Top] \/ state[x] = "done"
        BY <3>2, <2>3, <1>b DEF OpenRest, Top
      <3>4. QED
        BY <3>1, <3>2, <3>3, <1>3, <1>7
    <2>4. CASE i < Len(stack)
      <3>1. i \in DOMAIN stack /\ stack'[i] = stack[i] /\ i + 1 \in DOMAIN stack
            /\ stack'[i + 1] = stack[i + 1] /\ i < Len(stack')
        BY <2>4, <1>5, <1>b
      <3>2. x \in Deps(stack[i]) /\ x \in Keys
        BY <3>1, <1>4, <1>6
      <3>3. stack[i] # Top
        BY <3>1, <2>4, <1>b DEF OpenOnce, Top
      <3>4. QED
        BY <3>1, <3>2, <3>3, <1>3, <1>6, <1>7 DEF OpenRest
    <2>5. QED
      BY <2>2, <2>3, <2>4, <1>5, <1>b
  <1>12. RestIsDeps'
    BY <1>2, <1>7 DEF RestIsDeps
  <1>13. DoneInOrder' /\ OrderOnce'
    BY <1>1, <1>3 DEF DoneInOrder, OrderOnce, Elements
  <1>14. DoneClosed'
    BY <1>2, <1>3, <1>4 DEF DoneClosed
  <1>15. NoDoneCycle'
    BY <1>2, <1>3 DEF NoDoneCycle, Cycle
  <1>16. DependenciesFirst'
    BY <1>1, <1>2 DEF DependenciesFirst, VisitTypeOK
  <1>17. Outcome'
    BY <1>1 DEF Outcome
  <1>18. QED
    BY <1>8, <1>9, <1>10, <1>11, <1>12, <1>13, <1>14, <1>15, <1>16, <1>17

LEMMA SkipDoneStep ==
  ASSUME VisitInv, NEW d \in Keys, SkipDone(d)
  PROVE  VisitInv'
  <1> USE DEF VisitInv
  <1>a. stack # <<>> /\ d \in left[Top] /\ state[d] = "done" /\ Top \in Keys
    BY TopIsOpen DEF SkipDone
  <1>1. /\ refs' = refs /\ state' = state /\ stack' = stack /\ order' = order
        /\ status' = status /\ status = "running"
        /\ left' = [left EXCEPT ![Top] = left[Top] \ {d}]
    BY DEF SkipDone, Removed
  <1>2. \A x \in Keys : Deps(x)' = Deps(x) /\ Reads(x)' = Reads(x)
    BY <1>1 DEF Deps, Reads
  <1>3. /\ left' \in [Keys -> SUBSET Keys]
        /\ \A x \in Keys : left'[x] \subseteq left[x] /\ left[x] \subseteq left'[x] \cup {d}
    BY <1>1, <1>a DEF VisitTypeOK
  <1>4. VisitTypeOK'
    BY <1>1, <1>3 DEF VisitTypeOK, Elements
  <1>5. OpenOnce' /\ OpenPath'
    BY <1>1, <1>2 DEF OpenOnce, OpenPath, Deps
  <1>6. OpenRest'
    <2>1. \A i \in DOMAIN stack : stack[i] \in Keys
      BY DEF VisitTypeOK
    <2>2. QED
      BY <1>1, <1>2, <1>3, <1>a, <2>1 DEF OpenRest
  <1>7. RestIsDeps'
    BY <1>2, <1>3 DEF RestIsDeps
  <1>8. DoneInOrder' /\ OrderOnce' /\ DoneClosed' /\ NoDoneCycle' /\ DependenciesFirst'
    BY <1>1 DEF DoneInOrder, OrderOnce, DoneClosed, NoDoneCycle, DependenciesFirst, Cycle,
                Elements, Deps, Reads
  <1>9. Outcome'
    BY <1>1 DEF Outcome
  <1>10. QED
    BY <1>4, <1>5, <1>6, <1>7, <1>8, <1>9

(* Throw, Return and stuttering leave everything but the status alone.       *)
LEMMA StatusStep ==
  ASSUME VisitInv, UNCHANGED <<refs, state, left, stack, order>>,
         status' \in {"running", "ordered", "circular"}, Outcome'
  PROVE  VisitInv'
  <1>1. VisitTypeOK'
    BY DEF VisitInv, VisitTypeOK, Elements
  <1>2. OpenOnce' /\ OpenPath' /\ OpenRest' /\ RestIsDeps'
    BY DEF VisitInv, OpenOnce, OpenPath, OpenRest, RestIsDeps, Deps
  <1>3. DoneInOrder' /\ OrderOnce' /\ DoneClosed' /\ NoDoneCycle' /\ DependenciesFirst'
    BY DEF VisitInv, DoneInOrder, OrderOnce, DoneClosed, NoDoneCycle, DependenciesFirst, Cycle,
           Elements, Deps, Reads
  <1>4. QED
    BY <1>1, <1>2, <1>3 DEF VisitInv

LEMMA ThrowStep ==
  ASSUME VisitInv, NEW d \in Keys, Throw(d)
  PROVE  VisitInv'
  <1>1. Top \in Keys
    BY TopIsOpen DEF VisitInv, Throw
  <1>2. d \in Deps(Top)
    BY <1>1 DEF VisitInv, Throw, RestIsDeps
  <1>3. Outcome'
    BY <1>2 DEF Outcome, Throw, Deps, Top
  <1>4. QED
    BY <1>3, StatusStep DEF Throw

LEMMA ReturnStep ==
  ASSUME VisitInv, Return
  PROVE  VisitInv'
  <1>1. Outcome'
    BY DEF Outcome, Return
  <1>2. QED
    BY <1>1, StatusStep DEF Return

(* Leaving the top visit: all its dependencies are done, it is done and      *)
(* joins the result.  A cycle among what is done would do without it, since  *)
(* nothing done before depends on it.                                        *)
LEMMA LeaveStep ==
  ASSUME VisitInv, Leave
  PROVE  VisitInv'
  <1> USE DEF VisitInv
  <1> DEFINE t == Top
             n == Len(stack)
  <1>a. stack # <<>> /\ left[t] = {}
    BY DEF Leave, MayLeave
  <1>b. n \in Nat /\ n \in DOMAIN stack /\ n >= 1 /\ t \in Keys /\ state[t] = "visiting"
        /\ stack \in Seq(Keys) /\ order \in Seq(Keys) /\ t = stack[n]
    BY <1>a, TopIsOpen DEF VisitTypeOK, Top
  <1> HIDE DEF t, n
  <1>1. /\ refs' = refs /\ left' = left /\ status' = status /\ status = "running"
        /\ state' = [state EXCEPT ![t] = "done"]
        /\ order' = Append(order, t)
        /\ stack' = SubSeq(stack, 1, n - 1)
    BY DEF Leave, t, n
  <1>2. \A x \in Keys : Deps(x)' = Deps(x) /\ Reads(x)' = Reads(x) /\ Deps(x) = Reads(x)
    BY <1>1 DEF Deps, Reads
  <1>3. \A x \in Keys : Deps(x) \subseteq Keys /\ x \notin Deps(x)
    BY DEF Deps, VisitTypeOK
  <1>4. /\ stack' \in Seq(Keys) /\ Len(stack') = n - 1 /\ DOMAIN stack' = 1 .. n - 1
        /\ DOMAIN stack = 1 .. n
        /\ \A i \in 1 .. n - 1 : stack'[i] = stack[i]
    <2>1. n - 1 \in Nat /\ n - 1 \in 0 .. Len(stack) /\ DOMAIN stack = 1 .. n
      BY <1>b DEF n
    <2>2. SubSeq(stack, 1, n - 1) = [i \in 1 .. n - 1 |-> stack[i]]
      BY <2>1, <1>b
    <2>3. \A i \in 1 .. n - 1 : stack[i] \in Keys
      BY <2>1, <1>b
    <2>4. Len(stack') = n - 1
      BY <1>1, <2>1, <2>2
    <2>5. stack' \in Seq(Keys)
      BY <1>1, <2>1, <2>2, <2>3
    <2>6. QED
      BY <1>1, <2>1, <2>2, <2>4, <2>5
  <1>5. /\ order' \in Seq(Keys) /\ DOMAIN order' = 1 .. Len(order) + 1
        /\ DOMAIN order = 1 .. Len(order) /\ Len(order) \in Nat
        /\ order'[Len(order) + 1] = t
        /\ \A i \in DOMAIN order : order'[i] = order[i]
    BY <1>1, <1>b
  <1>6. \A x \in Keys : state'[x] = "done" <=> state[x] = "done" \/ x = t
    BY <1>1, <1>b DEF VisitTypeOK
  <1>7. \A d \in Deps(t) : state[d] = "done"
    BY <1>a, <1>b DEF OpenRest, n
  <1>8. \A i \in 1 .. n - 1 : stack[i] # t /\ stack[i] \in Keys
    BY <1>4, <1>b DEF OpenOnce
  <1>9. VisitTypeOK'
    <2>1. Elements(stack)' = Elements(stack) \ {t}
      BY <1>4, <1>8, <1>b DEF Elements
    <2>2. {x \in Keys : state'[x] = "visiting"} = {x \in Keys : state[x] = "visiting"} \ {t}
      BY <1>1, <1>b DEF VisitTypeOK
    <2>3. refs' \in [Keys -> SUBSET Keys] /\ state' \in [Keys -> {"new", "visiting", "done"}]
          /\ left' \in [Keys -> SUBSET Keys] /\ status' \in {"running", "ordered", "circular"}
      BY <1>1 DEF VisitTypeOK
    <2>4. QED
      BY <1>4, <1>5, <2>1, <2>2, <2>3 DEF VisitTypeOK
  <1>10. OpenOnce'
    BY <1>4, <1>b DEF OpenOnce
  <1>11. OpenPath'
    <2>1. ASSUME NEW i \in DOMAIN stack', i < Len(stack') PROVE stack'[i + 1] \in Deps(stack'[i])
      <3>1. i \in DOMAIN stack /\ i < Len(stack) /\ stack'[i] = stack[i] /\ stack'[i + 1] = stack[i + 1]
        BY <2>1, <1>4, <1>b DEF n
      <3>2. QED
        BY <3>1 DEF OpenPath
    <2>2. QED
      BY <2>1, <1>1 DEF OpenPath, Deps
  <1>12. OpenRest'
    <2>1. SUFFICES ASSUME NEW i \in DOMAIN stack', NEW x \in Deps(stack'[i])
                   PROVE  \/ x \in left'[stack'[i]]
                          \/ state'[x] = "done"
                          \/ i < Len(stack') /\ x = stack'[i + 1]
      BY <1>1 DEF OpenRest, Deps
    <2>2. i \in DOMAIN stack /\ i \in 1 .. n - 1 /\ stack'[i] = stack[i] /\ i + 1 \in 1 .. n
      BY <1>4, <1>b
    <2>3. x \in Deps(stack[i]) /\ x \in Keys
      BY <2>2, <1>3, <1>8
    <2>4. \/ x \in left[stack[i]]
          \/ state[x] = "done"
          \/ x = stack[i + 1]
      BY <2>2, <2>3 DEF OpenRest
    <2>5. CASE x = stack[i + 1] /\ i + 1 = n
      BY <2>3, <2>5, <1>6, <1>b
    <2>6. CASE x = stack[i + 1] /\ i + 1 # n
      <3>1. i + 1 \in 1 .. n - 1 /\ i < n - 1
        BY <2>2, <2>6, <1>b
      <3>2. QED
        BY <3>1, <2>6, <1>4
    <2>7. QED
      BY <2>2, <2>3, <2>4, <2>5, <2>6, <1>1, <1>6
  <1>13. RestIsDeps'
    BY <1>1, <1>2 DEF RestIsDeps
  <1>14. DoneInOrder'
    <2>1. Elements(order)' = Elements(order) \cup {t}
      BY <1>5 DEF Elements
    <2>2. QED
      BY <2>1, <1>6 DEF DoneInOrder
  <1>15. OrderOnce'
    <2>1. t \notin Elements(order)
      BY <1>b DEF DoneInOrder
    <2>2. \A i \in DOMAIN order : order[i] # t
      BY <2>1 DEF Elements
    <2>3. QED
      BY <2>2, <1>5 DEF OrderOnce
  <1>16. DoneClosed'
    BY <1>2, <1>3, <1>6, <1>7 DEF DoneClosed
  <1>17. NoDoneCycle'
    <2>1. SUFFICES ASSUME NEW S \in SUBSET Keys, \A k \in S : state'[k] = "done", Cycle(S)'
                   PROVE  FALSE
      BY DEF NoDoneCycle
    <2>2. S # {} /\ \A k \in S : Deps(k) \cap S # {}
      BY <2>1, <1>2 DEF Cycle
    <2>3. \A k \in S : k # t => state[k] = "done" /\ t \notin Deps(k)
      BY <2>1, <1>6, <1>b DEF DoneClosed
    <2>4. \A k \in S \ {t} : state[k] = "done" /\ Deps(k) \cap (S \ {t}) # {}
      BY <2>2, <2>3
    <2>5. S \ {t} # {}
      BY <2>2, <1>3, <1>b
    <2>6. Cycle(S \ {t})
      BY <2>4, <2>5, <1>2 DEF Cycle
    <2>7. QED
      BY <2>4, <2>6 DEF NoDoneCycle
  <1>18. DependenciesFirst'
    <2>1. SUFFICES ASSUME NEW i \in DOMAIN order', NEW d \in Reads(order'[i])
                   PROVE  \E j \in DOMAIN order' : j < i /\ order'[j] = d
      BY <1>1 DEF DependenciesFirst, Reads
    <2>2. CASE i \in DOMAIN order
      <3>1. PICK j \in DOMAIN order : j < i /\ order[j] = d
        BY <2>2, <1>5 DEF DependenciesFirst
      <3>2. j \in DOMAIN order' /\ order'[j] = d
        BY <3>1, <1>5
      <3>3. QED
        BY <3>1, <3>2
    <2>3. CASE i = Len(order) + 1
      <3>1. d \in Deps(t) /\ d \in Keys
        BY <2>3, <1>5, <1>2, <1>3, <1>b
      <3>2. d \in Elements(order)
        BY <3>1, <1>7 DEF DoneInOrder
      <3>3. PICK j \in DOMAIN order : order[j] = d
        BY <3>2 DEF Elements
      <3>4. j \in DOMAIN order' /\ order'[j] = d /\ j < i
        BY <3>3, <2>3, <1>5
      <3>5. QED
        BY <3>4
    <2>4. QED
      BY <2>2, <2>3, <1>5
  <1>19. Outcome'
    BY <1>1 DEF Outcome
  <1>20. QED
    BY <1>9, <1>10, <1>11, <1>12, <1>13, <1>14, <1>15, <1>16, <1>17, <1>18, <1>19

-----------------------------------------------------------------------------
(* The invariant holds at every state of every visit of every graph.         *)
THEOREM VisitInvariance == VisitSpec => []VisitInv
  <1>1. ASSUME VisitInv, [VisitNext]_visitVars PROVE VisitInv'
    <2>1. ASSUME NEW k \in Keys, VisitField(k) \/ VisitDep(k) \/ SkipDone(k) \/ Throw(k)
          PROVE  VisitInv'
      BY <1>1, <2>1, VisitFieldStep, VisitDepStep, SkipDoneStep, ThrowStep
    <2>2. CASE Leave
      BY <1>1, <2>2, LeaveStep
    <2>3. CASE Return
      BY <1>1, <2>3, ReturnStep
    <2>4. CASE UNCHANGED visitVars
      <3>1. UNCHANGED <<refs, state, left, stack, order, status>>
        BY <2>4 DEF visitVars
      <3>2. Outcome'
        BY <1>1, <3>1 DEF VisitInv, Outcome, Deps, Top
      <3>3. status' \in {"running", "ordered", "circular"}
        BY <1>1, <3>1 DEF VisitInv, VisitTypeOK
      <3>4. QED
        BY <1>1, <3>1, <3>2, <3>3, StatusStep
    <2>5. QED
      BY <1>1, <2>1, <2>2, <2>3, <2>4 DEF VisitNext
  <1>2. QED
    BY <1>1, Initial, PTL DEF VisitSpec

(* topoOrder: "each is evaluated after the same-record computed fields it    *)
(* reads", for every set of fields and every reference graph.                *)
THEOREM DependenciesComeFirst == VisitSpec => []DependenciesFirst
  <1>1. VisitInv => DependenciesFirst
    BY DEF VisitInv
  <1>2. QED
    BY <1>1, VisitInvariance, PTL

(* The part of the stack from a visited dependency to the top is a cycle.    *)
LEMMA OpenCycle ==
  ASSUME VisitInv, status = "circular"
  PROVE  \E S \in SUBSET Keys : Cycle(S)
  <1>1. stack # <<>> /\ \E d \in Deps(Top) : state[d] = "visiting"
    BY DEF VisitInv, Outcome
  <1>2. PICK d \in Deps(Top) : state[d] = "visiting"
    BY <1>1
  <1> DEFINE n == Len(stack)
  <1>3. n \in Nat /\ n >= 1 /\ Top \in Keys /\ stack \in Seq(Keys) /\ DOMAIN stack = 1 .. n
    BY <1>1, TopIsOpen DEF VisitInv, VisitTypeOK
  <1>4. d \in Keys
    BY <1>2, <1>3 DEF VisitInv, VisitTypeOK, Deps
  <1>5. PICK j \in 1 .. n : stack[j] = d
    BY <1>2, <1>3, <1>4, VisitingIsOpen DEF VisitInv
  <1> HIDE DEF n
  <1> DEFINE S == {stack[i] : i \in j .. n}
  <1>6. S \in SUBSET Keys
    BY <1>3, <1>5
  <1>7. S # {}
    BY <1>3, <1>5
  <1>8. ASSUME NEW k \in S PROVE Reads(k) \cap S # {}
    <2>1. PICK i \in j .. n : k = stack[i]
      BY <1>8
    <2>2. CASE i = n
      BY <2>1, <2>2, <1>2, <1>3, <1>5 DEF Deps, Reads, Top, n
    <2>3. CASE i # n
      <3>1. i \in 1 .. n /\ i < n /\ i + 1 \in j .. n
        BY <2>1, <2>3, <1>3, <1>5
      <3>2. stack[i + 1] \in Deps(stack[i])
        BY <3>1, <1>3 DEF VisitInv, OpenPath, n
      <3>3. QED
        BY <3>1, <3>2, <2>1 DEF Deps, Reads
    <2>4. QED
      BY <2>2, <2>3
  <1>9. QED
    BY <1>6, <1>7, <1>8 DEF Cycle

(* topoOrder throws exactly on the graphs with a cycle.                      *)
THEOREM ThrowsExactlyOnCycles == VisitSpec => []ThrowsOnCycleOnly
  <1>1. VisitInv => ThrowsOnCycleOnly
    <2>1. ASSUME VisitInv, status = "ordered" PROVE ~\E S \in SUBSET Keys : Cycle(S)
      BY <2>1 DEF VisitInv, Outcome, NoDoneCycle
    <2>2. QED
      BY <2>1, OpenCycle DEF ThrowsOnCycleOnly
  <1>2. QED
    BY <1>1, VisitInvariance, PTL

(* A result has every computed field, once.                                  *)
THEOREM EachFieldOnce == VisitSpec => []OrdersEachOnce
  <1>1. VisitInv => OrdersEachOnce
    <2>1. ASSUME VisitInv, status = "ordered" PROVE Elements(order) = Keys
      <3>1. Elements(order) \subseteq Keys
        BY <2>1 DEF VisitInv, VisitTypeOK, Elements
      <3>2. Keys \subseteq Elements(order)
        BY <2>1 DEF VisitInv, Outcome, DoneInOrder
      <3>3. QED
        BY <3>1, <3>2
    <2>2. QED
      BY <2>1 DEF VisitInv, OrderOnce, OrdersEachOnce
  <1>2. QED
    BY <1>1, VisitInvariance, PTL

-----------------------------------------------------------------------------
(* ComputeBackfill.                                                          *)

Record == [created : 0..MaxTime, data : Nat, computed : Nat \X Nat]
Work == [pc : {"idle", "list", "write"}, def : Nat, offset : Nat, page : SUBSET Rows,
         rows : [Rows -> Record]]

Types ==
    /\ table \in [Rows -> Record]
    /\ def \in Nat /\ saving \in {"none", "uncommitted"} /\ loading \subseteq Rows
    /\ job \in {"none", "waiting", "active", "kept"} /\ tries \in Nat
    /\ work \in Work
    /\ missed \subseteq Rows /\ shifted \subseteq Rows
    /\ bulks \in Nat /\ saves \in Nat /\ writes \in Nat /\ deletes \in Nat /\ failures \in Nat

(* Only records have an instant of creation; what is missed are records.     *)
Born == \A r \in Alive : Created(r) # 0
MissedLive == missed \subseteq Alive

Counted ==
    /\ (work.pc = "idle") = (job # "active")
    /\ tries <= Attempts /\ (job # "kept" => tries < Attempts)
    /\ def <= saves /\ saves <= MaxSaves /\ (saving = "uncommitted" => def < saves)
    /\ Cardinality(work.page) <= Page

Known == Types /\ Born /\ MissedLive /\ Counted

(* A record written back or stored is a record.                              *)
LEMMA LiveIff == Types /\ Born => \A r \in Rows : r \in Alive <=> Created(r) # 0
  BY DEF Types, Born, Alive, Created, Record, Absent, Gone

LEMMA LiveFinite == Types => Alive \subseteq Rows /\ IsFiniteSet(Alive)
  BY BoundAssumption, FS_Subset DEF Alive

LEMMA Stored ==
  ASSUME Types, Born, NEW r \in Rows, NEW row \in Record, row.created # 0,
         table' = [table EXCEPT ![r] = row]
  PROVE  /\ table' \in [Rows -> Record] /\ Born'
         /\ Alive' = Alive \cup {r}
         /\ table'[r] = row
         /\ \A q \in Rows \ {r} : table'[q] = table[q]
  <1>1. table' \in [Rows -> Record] /\ table'[r] = row /\ \A q \in Rows \ {r} : table'[q] = table[q]
    BY DEF Types
  <1>2. \A q \in Rows : q \in Alive' <=> q = r \/ q \in Alive
    <2>1. row # Absent /\ row # Gone
      BY DEF Absent, Gone
    <2>2. Alive' = {q \in Rows : table'[q] \notin {Absent, Gone}}
      BY DEF Alive, Absent, Gone
    <2>3. QED
      BY <1>1, <2>1, <2>2 DEF Alive
  <1>3. Alive' = Alive \cup {r}
    BY <1>2 DEF Alive
  <1>4. Born'
    BY <1>1, <1>3 DEF Born, Created, Alive
  <1> QED
    BY <1>1, <1>3, <1>4

LEMMA InitKnown == Init => Known
  <1> SUFFICES ASSUME Init PROVE Known
    OBVIOUS
  <1>1. PICK old \in SUBSET Rows, at \in [Rows -> 1..MaxTime] :
          table = [r \in Rows |-> IF r \in old
                        THEN [created |-> at[r], data |-> 0, computed |-> <<0, 0>>] ELSE Absent]
    BY DEF Init
  <1>2. Absent \in Record /\ Gone \in Record
    BY BoundAssumption DEF Absent, Gone, Record
  <1>3. table \in [Rows -> Record]
    <2>1. \A r \in Rows : [created |-> at[r], data |-> 0, computed |-> <<0, 0>>] \in Record
      BY BoundAssumption DEF Record
    <2> QED
      BY <1>1, <1>2, <2>1
  <1>4. Idle \in Work
    BY <1>2 DEF Idle, Work
  <1>5. Types
    BY <1>3, <1>4 DEF Init, Types
  <1>6. Born
    BY <1>1 DEF Born, Alive, Created, Absent, Gone
  <1>7. MissedLive
    BY DEF Init, MissedLive
  <1>8. Counted
    <2>1. Cardinality({}) = 0
      BY FS_EmptySet
    <2> QED
      BY <2>1, BoundAssumption DEF Init, Counted, Idle
  <1> QED
    BY <1>5, <1>6, <1>7, <1>8 DEF Known

-----------------------------------------------------------------------------
(* What each write of the table makes of it.                                 *)
LEMMA ImportStores ==
  ASSUME Known, NEW r \in Rows, NEW t \in 1..MaxTime, Import(r, t)
  PROVE  \E row \in Record :
            /\ row.created # 0 /\ table' = [table EXCEPT ![r] = row] /\ r \notin Alive
  <1> DEFINE row == [created |-> t, data |-> 1, computed |-> <<0, 0>>]
  <1>1. row \in Record /\ row.created # 0
    BY BoundAssumption DEF Record
  <1>2. table' = [table EXCEPT ![r] = row] /\ r \notin Alive
    BY DEF Import, Alive
  <1> QED
    BY <1>1, <1>2

LEMMA InsertStores ==
  ASSUME Known, NEW r \in Rows, NEW t \in 1..MaxTime, Insert(r, t)
  PROVE  \E row \in Record :
            /\ row.created # 0 /\ row.computed = <<def, row.data>>
            /\ table' = [table EXCEPT ![r] = row] /\ r \notin Alive
  <1> DEFINE row == Fresh(t, 0)
  <1>1. row \in Record /\ row.created # 0 /\ row.computed = <<def, row.data>>
    BY BoundAssumption DEF Record, Fresh, Known, Types
  <1>2. table' = [table EXCEPT ![r] = row] /\ r \notin Alive
    BY DEF Insert, Alive
  <1> QED
    BY <1>1, <1>2

LEMMA PollApplyStores ==
  ASSUME Known, NEW r \in Rows, PollApply(r)
  PROVE  \E row \in Record :
            /\ row.created # 0 /\ row.created = Created(r)
            /\ table' = [table EXCEPT ![r] = row] /\ r \in Alive
  <1> DEFINE row == [table[r] EXCEPT !.data = @ + 1]
  <1>1. table[r] \in Record /\ Created(r) # 0 /\ r \in Alive
    BY DEF PollApply, Known, Types, Born
  <1>2. row \in Record /\ row.created = Created(r)
    BY <1>1 DEF Record, Created
  <1>3. table' = [table EXCEPT ![r] = row]
    BY DEF PollApply, Known, Types
  <1> QED
    BY <1>1, <1>2, <1>3

LEMMA EditStores ==
  ASSUME Known, NEW r \in Rows, Edit(r)
  PROVE  \E row \in Record :
            /\ row.created # 0 /\ row.created = Created(r) /\ row.computed = <<def, row.data>>
            /\ table' = [table EXCEPT ![r] = row] /\ r \in Alive
  <1> DEFINE row == Fresh(table[r].created, table[r].data + 1)
  <1>1. table[r] \in Record /\ Created(r) # 0 /\ r \in Alive /\ def \in Nat
    BY DEF Edit, Known, Types, Born
  <1>2. row \in Record /\ row.created = Created(r) /\ row.computed = <<def, row.data>>
    BY <1>1 DEF Record, Created, Fresh
  <1>3. table' = [table EXCEPT ![r] = row]
    BY DEF Edit
  <1> QED
    BY <1>1, <1>2, <1>3

LEMMA DeleteRemoves ==
  ASSUME Known, NEW r \in Rows, Delete(r)
  PROVE  /\ table' \in [Rows -> Record] /\ Born'
         /\ Alive' = Alive \ {r}
  <1>1. Gone \in Record
    BY BoundAssumption DEF Absent, Gone, Record
  <1>2. table' = [table EXCEPT ![r] = Gone] /\ table \in [Rows -> Record]
    BY DEF Delete, Known, Types
  <1>3. table' \in [Rows -> Record] /\ table'[r] = Gone /\ \A q \in Rows \ {r} : table'[q] = table[q]
    BY <1>1, <1>2
  <1>4. Alive' = {q \in Rows : table'[q] \notin {Absent, Gone}}
    BY DEF Alive, Absent, Gone
  <1>5. Alive' = Alive \ {r}
    BY <1>3, <1>4 DEF Alive
  <1>6. Born'
    BY <1>3, <1>5 DEF Born, Created, Known, Alive
  <1> QED
    BY <1>3, <1>5, <1>6

(* A page rewrites the data and the computed fields of records, no more.     *)
LEMMA PageStores ==
  ASSUME Known, WritePage
  PROVE  /\ table' \in [Rows -> Record] /\ Born' /\ Alive' = Alive
         /\ \A r \in Rows : Created(r)' = Created(r)
         /\ \A r \in Rows \ Found : table'[r] = table[r]
         /\ \A r \in Found : table'[r].computed = <<work.def, table'[r].data>>
  <1>1. table' = [r \in Rows |-> IF r \in Found THEN Recomputed(r) ELSE table[r]]
    BY DEF WritePage
  <1>2. \A r \in Rows : table[r] \in Record /\ work.rows[r] \in Record
    BY DEF Known, Types, Work
  <1>3. work.def \in Nat /\ Found \subseteq Alive /\ Alive \subseteq Rows
    BY DEF Known, Types, Work, Found, Alive
  <1>4. \A r \in Rows : /\ Recomputed(r) \in Record /\ Recomputed(r).created = Created(r)
                        /\ Recomputed(r).computed = <<work.def, Recomputed(r).data>>
    BY <1>2, <1>3 DEF Recomputed, Record, Created
  <1>5. table' \in [Rows -> Record]
    BY <1>1, <1>2, <1>4
  <1>6. \A r \in Rows : Created(r)' = Created(r)
    BY <1>1, <1>4 DEF Created
  <1>7. /\ \A r \in Rows \ Found : table'[r] = table[r]
        /\ \A r \in Found : table'[r].computed = <<work.def, table'[r].data>>
    BY <1>1, <1>3, <1>4
  <1>8. Alive' = {q \in Rows : table'[q] \notin {Absent, Gone}}
    BY DEF Alive, Absent, Gone
  <1>9. \A r \in Found : table'[r] \notin {Absent, Gone}
    <2> TAKE r \in Found
    <2>1. Created(r)' # 0
      BY <1>3, <1>6 DEF Known, Born
    <2> QED
      BY <2>1 DEF Created, Absent, Gone
  <1>10. Alive' = Alive
    BY <1>3, <1>7, <1>8, <1>9 DEF Alive
  <1>11. Born'
    BY <1>3, <1>6, <1>10 DEF Born, Known
  <1> QED
    BY <1>5, <1>6, <1>7, <1>10, <1>11

-----------------------------------------------------------------------------
LEMMA IdleWork == Idle \in Work /\ Cardinality(Idle.page) = 0 /\ Idle.pc = "idle"
  <1>1. Absent \in Record
    BY BoundAssumption DEF Absent, Record
  <1> QED
    BY <1>1, FS_EmptySet DEF Idle, Work

LEMMA PageIsShort ==
  ASSUME Types, NEW S \in SUBSET Alive, NEW o \in Nat, IsPage(S, o)
  PROVE  Cardinality(S) <= Page
  <1>1. PICK before \in SUBSET (Alive \ S) : Cardinality(S) = AtMost(Page, Alive \ before)
    BY DEF IsPage
  <1>2. IsFiniteSet(Alive \ before)
    BY LiveFinite, FS_Subset
  <1>3. Cardinality(Alive \ before) \in Nat
    BY <1>2, FS_CardinalityType
  <1> QED
    BY <1>1, <1>3, BoundAssumption DEF AtMost

(* The records and the worker's state keep their kinds.                      *)
LEMMA NextKnown == Known /\ [Next]_vars => Known'
  <1> SUFFICES ASSUME Known, [Next]_vars PROVE Known'
    OBVIOUS
  <1> USE DEF Known
  <1>a. Attempts \in Nat \ {0} /\ Page \in Nat \ {0} /\ MaxSaves \in Nat
    BY BoundAssumption
  <1>b. Alive \subseteq Rows
    BY DEF Alive
  <1>1. ASSUME NEW r \in Rows, NEW t \in 1..MaxTime, Import(r, t) PROVE Known'
    <2>1. PICK row \in Record : row.created # 0 /\ table' = [table EXCEPT ![r] = row]
      BY <1>1, ImportStores
    <2>2. table' \in [Rows -> Record] /\ Born' /\ Alive' = Alive \cup {r}
      BY <2>1, Stored
    <2>3. Types'
      BY <1>1, <2>2 DEF Import, Types, working
    <2>4. MissedLive' /\ Counted'
      BY <1>1, <2>2 DEF Import, working, MissedLive, Counted
    <2> QED
      BY <2>2, <2>3, <2>4
  <1>2. ASSUME NEW r \in Rows, NEW t \in 1..MaxTime, Insert(r, t) PROVE Known'
    <2>1. PICK row \in Record : row.created # 0 /\ table' = [table EXCEPT ![r] = row]
      BY <1>2, InsertStores
    <2>2. table' \in [Rows -> Record] /\ Born' /\ Alive' = Alive \cup {r}
      BY <2>1, Stored
    <2>3. Types'
      BY <1>2, <2>2 DEF Insert, Types, working, asking
    <2>4. MissedLive' /\ Counted'
      BY <1>2, <2>2 DEF Insert, working, asking, MissedLive, Counted
    <2> QED
      BY <2>2, <2>3, <2>4
  <1>3. ASSUME NEW r \in Rows, PollApply(r) PROVE Known'
    <2>1. PICK row \in Record : row.created # 0 /\ table' = [table EXCEPT ![r] = row]
      BY <1>3, PollApplyStores
    <2>2. table' \in [Rows -> Record] /\ Born' /\ Alive' = Alive \cup {r}
      BY <2>1, Stored
    <2>3. Types'
      BY <1>3, <2>2 DEF PollApply, Types, working
    <2>4. MissedLive' /\ Counted'
      BY <1>3, <2>2 DEF PollApply, working, MissedLive, Counted
    <2> QED
      BY <2>2, <2>3, <2>4
  <1>4. ASSUME NEW r \in Rows, Edit(r) PROVE Known'
    <2>1. PICK row \in Record : row.created # 0 /\ table' = [table EXCEPT ![r] = row]
      BY <1>4, EditStores
    <2>2. table' \in [Rows -> Record] /\ Born' /\ Alive' = Alive \cup {r}
      BY <2>1, Stored
    <2>3. Types'
      BY <1>4, <2>2 DEF Edit, Types, working, asking
    <2>4. MissedLive' /\ Counted'
      BY <1>4, <2>2 DEF Edit, working, asking, MissedLive, Counted
    <2> QED
      BY <2>2, <2>3, <2>4
  <1>5. ASSUME NEW r \in Rows, Delete(r) PROVE Known'
    <2>1. table' \in [Rows -> Record] /\ Born' /\ Alive' = Alive \ {r}
      BY <1>5, DeleteRemoves
    <2>2. Types'
      BY <1>5, <2>1, <1>b DEF Delete, Shifts, Types, working, asking
    <2>3. MissedLive' /\ Counted'
      BY <1>5, <2>1 DEF Delete, working, asking, MissedLive, Counted
    <2> QED
      BY <2>1, <2>2, <2>3
  <1>6. CASE AskAfterLoad
    BY <1>6 DEF AskAfterLoad, Add, Types, Born, MissedLive, Counted, Alive, Created
  <1>7. CASE SaveField
    BY <1>7, <1>a DEF SaveField, Add, Types, Born, MissedLive, Counted, Alive, Created
  <1>8. CASE CommitField
    BY <1>8, <1>a DEF CommitField, working, Types, Born, MissedLive, Counted, Alive, Created
  <1>9. CASE Start
    <2>1. Idle \in Work /\ Cardinality(Idle.page) = 0 /\ Idle.pc = "idle"
      BY IdleWork
    <2>2. work' \in Work /\ work'.pc = "list" /\ Cardinality(work'.page) = 0
      BY <1>9, <2>1 DEF Start, Work, Types
    <2>3. Types'
      BY <1>9, <2>2, <1>b DEF Start, asking, Types
    <2>4. Born' /\ MissedLive'
      BY <1>9 DEF Start, Born, MissedLive, Alive, Created
    <2>5. Counted'
      BY <1>9, <2>2, <1>a DEF Start, asking, Counted
    <2> QED
      BY <2>3, <2>4, <2>5
  <1>10. ASSUME NEW S \in SUBSET Rows, ListPage(S) PROVE Known'
    <2>1. work' \in Work /\ work'.pc = "write" /\ work'.page = S
      BY <1>10 DEF ListPage, Work, Types
    <2>2. Cardinality(S) <= Page
      BY <1>10, PageIsShort DEF ListPage, Types, Work
    <2>3. Types'
      BY <1>10, <2>1 DEF ListPage, asking, Types
    <2>4. Born' /\ MissedLive'
      BY <1>10 DEF ListPage, Born, MissedLive, Alive, Created
    <2>5. Counted'
      BY <1>10, <2>1, <2>2 DEF ListPage, asking, Counted
    <2> QED
      BY <2>3, <2>4, <2>5
  <1>11. CASE WritePage
    <2>1. table' \in [Rows -> Record] /\ Born' /\ Alive' = Alive
      BY <1>11, PageStores
    <2>2. Idle \in Work /\ Cardinality(Idle.page) = 0 /\ Idle.pc = "idle"
      BY IdleWork
    <2>3. /\ work' \in Work /\ Cardinality(work'.page) = 0
          /\ \/ work'.pc = "list" /\ job' = job
             \/ work'.pc = "idle" /\ job' = "kept"
      <3>1. CASE MorePages
        <4>1. work' = [work EXCEPT !.pc = "list", !.offset = NextOffset, !.page = {}]
          BY <1>11, <3>1 DEF WritePage
        <4>2. NextOffset \in Nat
          BY <1>a DEF NextOffset, Types, Work
        <4> QED
          BY <1>11, <3>1, <4>1, <4>2, FS_EmptySet DEF WritePage, Types, Work
      <3>2. CASE ~MorePages
        BY <1>11, <2>2, <3>2 DEF WritePage, Done
      <3> QED
        BY <3>1, <3>2
    <2>4. Types'
      BY <1>11, <2>1, <2>3 DEF WritePage, asking, Types
    <2>5. MissedLive'
      BY <1>11, <2>1 DEF WritePage, MissedLive
    <2>6. Counted'
      BY <1>11, <2>3, <1>a DEF WritePage, asking, Counted
    <2> QED
      BY <2>1, <2>4, <2>5, <2>6
  <1>12. CASE Fail
    <2>1. Idle \in Work /\ Cardinality(Idle.page) = 0 /\ Idle.pc = "idle"
      BY IdleWork
    <2>2. Types'
      BY <1>12, <2>1 DEF Fail, asking, Types
    <2>3. Born' /\ MissedLive'
      BY <1>12 DEF Fail, Born, MissedLive, Alive, Created
    <2>4. Counted'
      BY <1>12, <2>1, <1>a DEF Fail, asking, Counted, Types
    <2> QED
      BY <2>2, <2>3, <2>4
  <1>13. CASE Evict
    BY <1>13, <1>a DEF Evict, asking, Types, Born, MissedLive, Counted, Alive, Created
  <1>14. CASE UNCHANGED vars
    BY <1>14 DEF vars, asking, working, Types, Born, MissedLive, Counted, Alive, Created
  <1> QED
    BY <1>1, <1>2, <1>3, <1>4, <1>5, <1>6, <1>7, <1>8, <1>9, <1>10, <1>11, <1>12, <1>13, <1>14
    DEF Next

(* The model's variables, and what only active jobs and live records have.   *)
THEOREM Invariance == Spec => []Known
  BY InitKnown, NextKnown, PTL DEF Spec

(* The model's variables keep their types, whatever the bounds.              *)
THEOREM TypeCorrect == Spec => []TypeOK
  <1>1. Known => TypeOK
    <2> SUFFICES ASSUME Known PROVE TypeOK
      OBVIOUS
    <2>1. def \in 0..MaxSaves
      BY BoundAssumption DEF Known, Types, Counted
    <2>2. tries \in 0..Attempts
      BY BoundAssumption DEF Known, Types, Counted
    <2> QED
      BY <2>1, <2>2 DEF Known, Types, MissedLive, Counted, TypeOK, Record, Work
  <1> QED
    BY <1>1, Invariance, PTL

(* A deleted record's row is never written again.                            *)
THEOREM DeletedStays == Spec => StaysDeleted
  <1>1. Known /\ [Next]_vars => \A r \in Rows : table[r] = Gone => table'[r] = Gone
    <2> SUFFICES ASSUME Known, [Next]_vars, NEW r \in Rows, table[r] = Gone
                 PROVE  table'[r] = Gone
      OBVIOUS
    <2>1. r \notin Alive /\ table[r] # Absent
      BY DEF Alive, Gone, Absent
    <2>2. ASSUME NEW q \in Rows, NEW row, table' = [table EXCEPT ![q] = row], q # r
          PROVE  table'[r] = Gone
      BY <2>2 DEF Known, Types
    <2>3. ASSUME NEW q \in Rows, NEW t \in 1..MaxTime, Import(q, t) PROVE table'[r] = Gone
      BY <2>1, <2>2, <2>3 DEF Import
    <2>4. ASSUME NEW q \in Rows, NEW t \in 1..MaxTime, Insert(q, t) PROVE table'[r] = Gone
      BY <2>1, <2>2, <2>4 DEF Insert
    <2>5. ASSUME NEW q \in Rows, PollApply(q) PROVE table'[r] = Gone
      BY <2>1, <2>2, <2>5, PollApplyStores
    <2>6. ASSUME NEW q \in Rows, Edit(q) PROVE table'[r] = Gone
      BY <2>1, <2>2, <2>6, EditStores
    <2>7. ASSUME NEW q \in Rows, Delete(q) PROVE table'[r] = Gone
      BY <2>1, <2>2, <2>7 DEF Delete
    <2>8. CASE WritePage
      BY <2>1, <2>8, PageStores DEF Found
    <2>9. CASE UNCHANGED table
      BY <2>9
    <2>10. \A S \in SUBSET Rows : ListPage(S) => UNCHANGED table
      BY DEF ListPage
    <2> QED
      BY <2>3, <2>4, <2>5, <2>6, <2>7, <2>8, <2>9, <2>10
      DEF Next, vars, AskAfterLoad, SaveField, CommitField, Start, Fail, Evict
  <1> QED
    BY <1>1, Invariance, PTL DEF Spec, StaysDeleted

-----------------------------------------------------------------------------
(* The records that keep a place of their own while the backfill pages.      *)
(* What it has not rewritten of them lies behind the worker's offset, and    *)
(* behind its page, which is then a full one.                                *)
Steady(m) == m \notin shifted /\ ~Tied(m)
Behind ==
    /\ work.pc = "list" => \A m \in missed : Steady(m) => Rank(m) >= work.offset
    /\ work.pc = "write" =>
          \A m \in missed \ work.page : Steady(m) => Rank(m) >= work.offset + Page /\ MorePages
Paged == Behind /\ (deletes = 0 => shifted = {})

LEMMA RankNat == Types => \A m : IsFiniteSet(Newer(m)) /\ Rank(m) \in Nat
  BY LiveFinite, FS_Subset, FS_CardinalityType DEF Newer, Rank

(* New records only add to those created later.                              *)
LEMMA RankGrows ==
  ASSUME Types, Types', Alive \subseteq Alive', \A r \in Alive : Created(r)' = Created(r)
  PROVE  /\ DistinctTimes' => DistinctTimes
         /\ \A m \in Alive : Tied(m) => Tied(m)'
         /\ \A m \in Alive : Rank(m)' >= Rank(m)
  <1>1. DistinctTimes' => DistinctTimes
    BY DEF DistinctTimes
  <1>2. ASSUME NEW m \in Alive PROVE Rank(m)' >= Rank(m)
    <2>1. Newer(m) \subseteq Newer(m)'
      BY DEF Newer
    <2>2. IsFiniteSet(Newer(m)')
      <3>1. Types' => Alive' \subseteq Rows /\ IsFiniteSet(Alive')
        BY BoundAssumption, FS_Subset DEF Alive
      <3> QED
        BY <3>1, FS_Subset DEF Newer
    <2> QED
      BY <2>1, <2>2, FS_Subset DEF Rank
  <1>3. \A m \in Alive : Tied(m) => Tied(m)'
    BY DEF Tied
  <1> QED
    BY <1>1, <1>2, <1>3

(* An untied record behind the offset and not on the page at that offset is  *)
(* behind the page as well, and the page is full.                            *)
LEMMA PageTakesNewest ==
  ASSUME Types, NEW S \in SUBSET Alive, NEW o \in Nat, IsPage(S, o),
         NEW m \in Alive \ S, ~Tied(m), Rank(m) >= o
  PROVE  Rank(m) >= o + Page /\ Cardinality(S) = Page
  <1>1. PICK before \in SUBSET (Alive \ S) :
          /\ Cardinality(before) = AtMost(o, Alive)
          /\ Cardinality(S) = AtMost(Page, Alive \ before)
          /\ Prefix(before, Alive) /\ Prefix(S, Alive \ before)
    BY DEF IsPage
  <1>2. /\ IsFiniteSet(Alive) /\ IsFiniteSet(before) /\ IsFiniteSet(S)
        /\ IsFiniteSet(Alive \ before) /\ IsFiniteSet(Newer(m))
    BY LiveFinite, RankNat, FS_Subset
  <1>3. /\ Cardinality(Alive) \in Nat /\ Cardinality(before) \in Nat /\ Cardinality(S) \in Nat
        /\ Cardinality(Alive \ before) \in Nat /\ Rank(m) \in Nat /\ Page \in Nat
    BY <1>2, FS_CardinalityType, RankNat, BoundAssumption
  <1>4. \A q \in Alive : Created(q) \in Nat
    BY DEF Types, Record, Alive, Created
  <1>5. Cardinality(before) = o
    <2>1. Rank(m) <= Cardinality(Alive)
      BY <1>2, FS_Subset DEF Newer, Rank
    <2> QED
      BY <1>1, <1>3, <2>1 DEF AtMost
  <1>6. m \notin before
    <2> SUFFICES ASSUME m \in before PROVE FALSE
      OBVIOUS
    <2>1. Newer(m) \subseteq before \ {m}
      BY <1>1, <1>4 DEF Prefix, Newer
    <2>2. Cardinality(before \ {m}) = o - 1 /\ IsFiniteSet(before \ {m})
      BY <1>2, <1>5, FS_RemoveElement
    <2>3. Rank(m) <= o - 1
      BY <2>1, <2>2, FS_Subset DEF Rank
    <2> QED
      BY <1>3, <2>3
  <1>7. Cardinality(S) = Page
    <2> SUFFICES ASSUME Cardinality(S) # Page PROVE FALSE
      OBVIOUS
    <2>1. Cardinality(S) = Cardinality(Alive \ before)
      BY <1>1 DEF AtMost
    <2>2. S \subseteq Alive \ before
      OBVIOUS
    <2>3. S = Alive \ before
      BY <1>2, <2>1, <2>2, FS_Subset
    <2> QED
      BY <1>6, <2>3
  <1>8. before \cup S \subseteq Newer(m)
    <2>1. \A q \in before : Created(m) <= Created(q)
      BY <1>1, <1>6 DEF Prefix
    <2>2. \A q \in S : Created(m) <= Created(q)
      BY <1>1, <1>6 DEF Prefix
    <2>3. \A q \in before \cup S : q \in Alive /\ q # m
      BY <1>6
    <2> QED
      BY <1>4, <2>1, <2>2, <2>3 DEF Tied, Newer
  <1>9. Cardinality(before \cup S) = o + Page
    <2>1. before \cap S = {} /\ Cardinality({}) = 0
      BY FS_EmptySet
    <2>2. Cardinality(before \cup S) = Cardinality(before) + Cardinality(S) - Cardinality(before \cap S)
      BY <1>2, FS_Union
    <2> QED
      BY <1>3, <1>5, <1>7, <2>1, <2>2
  <1>10. Cardinality(before \cup S) <= Rank(m)
    BY <1>2, <1>8, FS_Subset DEF Rank
  <1> QED
    BY <1>7, <1>9, <1>10

LEMMA InitPaged == Init => Paged
  BY DEF Init, Paged, Behind, Idle

(* Writes by users, imports and polls leave what is missed behind.           *)
LEMMA WritesStayPaged ==
  ASSUME Known, Known', Paged, Alive \subseteq Alive', \A r \in Alive : Created(r)' = Created(r),
         UNCHANGED <<work, missed, shifted>>, deletes' = deletes
  PROVE  Paged'
  <1>1. \A m \in Alive : Rank(m)' >= Rank(m) /\ (Tied(m) => Tied(m)')
    BY RankGrows DEF Known
  <1>2. \A m \in missed : m \in Alive /\ (Steady(m)' => Steady(m))
    BY <1>1 DEF Known, MissedLive, Steady
  <1>3. \A m \in missed : Rank(m) \in Nat /\ Rank(m)' \in Nat /\ Rank(m)' >= Rank(m)
    <2>1. Types' => \A m : Rank(m)' \in Nat
      <3>1. Types' => IsFiniteSet(Alive')
        BY BoundAssumption, FS_Subset DEF Alive
      <3> QED
        BY <3>1, FS_Subset, FS_CardinalityType DEF Newer, Rank
    <2> QED
      BY <1>1, <1>2, <2>1, RankNat DEF Known
  <1>4. work.offset \in Nat /\ Page \in Nat /\ (MorePages' <=> MorePages)
    BY BoundAssumption DEF Known, Types, Work, MorePages
  <1> QED
    BY <1>2, <1>3, <1>4 DEF Paged, Behind

(* A deletion leaves the records it shifts out, and no other nearer the      *)
(* newest end than the worker's place.                                       *)
LEMMA DeleteStaysPaged ==
  ASSUME Known, Known', Paged, NEW x \in Rows, Delete(x)
  PROVE  Paged'
  <1>1. /\ Alive' = Alive \ {x} /\ x \in Alive
        /\ missed' = missed \ {x} /\ shifted' = shifted \cup Shifts(x)
        /\ work' = work /\ deletes' # 0
    <2>1. Alive' = Alive \ {x}
      BY DeleteRemoves
    <2>2. deletes' = deletes + 1 /\ deletes \in Nat
      BY DEF Delete, Known, Types
    <2> QED
      BY <2>1, <2>2 DEF Delete, working
  <1>2. \A q \in Alive' : Created(q)' = Created(q)
    <2>1. table' = [table EXCEPT ![x] = Gone] /\ table \in [Rows -> Record]
      BY DEF Delete, Known, Types
    <2>2. \A q \in Rows \ {x} : table'[q] = table[q]
      BY <2>1
    <2>3. Alive \subseteq Rows
      BY DEF Alive
    <2> QED
      BY <1>1, <2>2, <2>3 DEF Created
  <1>3. ASSUME NEW m \in missed', Steady(m)'
        PROVE  Steady(m) /\ (Rank(m) >= Reach => Rank(m)' >= Reach)
    <2>1. m \in Alive /\ m \in Alive' /\ m \notin shifted /\ m \notin Shifts(x) /\ m # x
      BY <1>1, <1>3 DEF Known, MissedLive, Steady
    <2>2. ~Tied(m)
      <3> SUFFICES ASSUME NEW q \in Alive \ {m}, Created(q) = Created(m) PROVE FALSE
        BY DEF Tied
      <3>1. q # x
        BY <2>1 DEF Shifts
      <3> QED
        BY <1>1, <1>2, <1>3, <2>1, <3>1 DEF Steady, Tied
    <2>3. Newer(m)' = Newer(m) \ {x}
      BY <1>1, <1>2, <2>1 DEF Newer
    <2>4. CASE x \notin Newer(m)
      <3>1. Rank(m)' = Rank(m)
        BY <2>3, <2>4 DEF Rank
      <3> QED
        BY <2>1, <2>2, <3>1 DEF Steady
    <2>5. CASE x \in Newer(m)
      <3>1. Created(x) \in Nat /\ Created(m) \in Nat /\ \A q \in Alive : Created(q) \in Nat
        BY <2>1 DEF Known, Types, Record, Alive, Created
      <3>2. ~(Rank(x) < Reach)
        BY <1>1, <2>1, <2>5 DEF Shifts, Newer
      <3>3. Newer(x) \subseteq Newer(m)'
        BY <2>3, <2>5, <3>1 DEF Newer
      <3>4. IsFiniteSet(Newer(m)') /\ Rank(x) \in Nat
        BY <2>3, RankNat, FS_Subset DEF Known
      <3>5. Rank(x) <= Rank(m)' /\ Rank(m)' \in Nat
        BY <3>3, <3>4, FS_Subset, FS_CardinalityType DEF Rank
      <3>6. Reach \in Nat
        BY BoundAssumption DEF Reach, Known, Types, Work
      <3> QED
        BY <2>1, <2>2, <3>2, <3>4, <3>5, <3>6 DEF Steady
    <2> QED
      BY <2>4, <2>5
  <1>4. missed' \subseteq missed /\ (MorePages' <=> MorePages)
    BY <1>1 DEF MorePages
  <1>5. CASE work.pc = "list"
    <2>1. Reach = work.offset
      BY <1>5 DEF Reach
    <2> QED
      BY <1>1, <1>3, <1>4, <1>5, <2>1 DEF Paged, Behind
  <1>6. CASE work.pc = "write"
    <2>1. Reach = work.offset + Page
      BY <1>6 DEF Reach
    <2> QED
      BY <1>1, <1>3, <1>4, <1>6, <2>1 DEF Paged, Behind
  <1>7. CASE work.pc \notin {"list", "write"}
    BY <1>1, <1>7 DEF Paged, Behind
  <1> QED
    BY <1>5, <1>6, <1>7

LEMMA NextPaged == Known /\ Known' /\ Paged /\ [Next]_vars => Paged'
  <1> SUFFICES ASSUME Known, Known', Paged, [Next]_vars PROVE Paged'
    OBVIOUS
  <1>1. ASSUME NEW r \in Rows, NEW row \in Record, row.created # 0,
               table' = [table EXCEPT ![r] = row],
               r \in Alive => row.created = Created(r),
               UNCHANGED <<work, missed, shifted, deletes>>
        PROVE  Paged'
    <2>1. Alive' = Alive \cup {r} /\ table'[r] = row /\ \A q \in Rows \ {r} : table'[q] = table[q]
      BY <1>1, Stored DEF Known
    <2>2. \A q \in Alive : Created(q)' = Created(q)
      BY <1>1, <2>1 DEF Created, Alive
    <2> QED
      BY <1>1, <2>1, <2>2, WritesStayPaged
  <1>2. ASSUME NEW r \in Rows, NEW t \in 1..MaxTime, Import(r, t) PROVE Paged'
    BY <1>1, <1>2, ImportStores DEF Import, working
  <1>3. ASSUME NEW r \in Rows, NEW t \in 1..MaxTime, Insert(r, t) PROVE Paged'
    BY <1>1, <1>3, InsertStores DEF Insert, working
  <1>4. ASSUME NEW r \in Rows, PollApply(r) PROVE Paged'
    BY <1>1, <1>4, PollApplyStores DEF PollApply, working
  <1>5. ASSUME NEW r \in Rows, Edit(r) PROVE Paged'
    BY <1>1, <1>5, EditStores DEF Edit, working
  <1>6. ASSUME NEW r \in Rows, Delete(r) PROVE Paged'
    BY <1>6, DeleteStaysPaged
  <1>7. CASE UNCHANGED <<table, work, missed, shifted, deletes>>
    BY <1>7, WritesStayPaged DEF Alive, Created
  <1>8. CASE Start
    <2>1. work'.pc = "list" /\ work'.offset = 0
      BY <1>8, IdleWork DEF Start, Work, Idle
    <2>2. Types' => \A m : Rank(m)' \in Nat
      <3>1. Types' => IsFiniteSet(Alive')
        BY BoundAssumption, FS_Subset DEF Alive
      <3> QED
        BY <3>1, FS_Subset, FS_CardinalityType DEF Newer, Rank
    <2> QED
      BY <1>8, <2>1, <2>2 DEF Start, Paged, Behind, Known
  <1>9. ASSUME NEW S \in SUBSET Rows, ListPage(S) PROVE Paged'
    <2>1. /\ S \subseteq Alive /\ IsPage(S, work.offset)
          /\ work' = [work EXCEPT !.pc = "write", !.page = S, !.rows = table]
          /\ UNCHANGED <<table, missed, shifted, deletes>> /\ work.pc = "list"
      BY <1>9 DEF ListPage
    <2>2. work'.pc = "write" /\ work'.page = S /\ work'.offset = work.offset /\ work.offset \in Nat
      BY <2>1 DEF Known, Types, Work
    <2>3. ASSUME NEW m \in missed \ S, Steady(m)
          PROVE  Rank(m) >= work.offset + Page /\ Cardinality(S) = Page
      BY <2>1, <2>2, <2>3, PageTakesNewest DEF Known, MissedLive, Paged, Behind, Steady
    <2>4. \A m : Rank(m)' = Rank(m) /\ (Steady(m)' <=> Steady(m))
      BY <2>1 DEF Rank, Newer, Steady, Tied, Alive, Created
    <2>5. Behind'
      BY <2>1, <2>2, <2>3, <2>4, BoundAssumption DEF Behind, MorePages
    <2> QED
      BY <2>1, <2>5 DEF Paged
  <1>10. CASE WritePage
    <2>1. Alive' = Alive /\ \A r \in Rows : Created(r)' = Created(r)
      BY <1>10, PageStores
    <2>2. missed' = missed \ work.page /\ work.pc = "write" /\ UNCHANGED <<shifted, deletes>>
      BY <1>10 DEF WritePage
    <2>3. \A m \in missed : Rank(m)' = Rank(m) /\ (Steady(m)' <=> Steady(m))
      <3> TAKE m \in missed
      <3>1. Newer(m)' = Newer(m)
        BY <2>1 DEF Newer, Alive, Known, MissedLive
      <3>2. Tied(m)' <=> Tied(m)
        BY <2>1 DEF Tied, Alive, Known, MissedLive
      <3> QED
        BY <2>2, <3>1, <3>2 DEF Rank, Steady
    <2>4. CASE MorePages
      <3>1. work' = [work EXCEPT !.pc = "list", !.offset = NextOffset, !.page = {}]
        BY <1>10, <2>4 DEF WritePage
      <3>2. work'.pc = "list" /\ work'.offset = work.offset + Page
        BY <3>1 DEF Known, Types, Work, NextOffset
      <3> QED
        BY <2>2, <2>3, <3>2 DEF Paged, Behind
    <2>5. CASE ~MorePages
      BY <1>10, <2>2, <2>5 DEF WritePage, Done, Idle, Paged, Behind
    <2> QED
      BY <2>4, <2>5
  <1>11. CASE Fail
    BY <1>11 DEF Fail, Idle, Paged, Behind
  <1> QED
    BY <1>2, <1>3, <1>4, <1>5, <1>6, <1>7, <1>8, <1>9, <1>10, <1>11
    DEF Next, vars, working, AskAfterLoad, SaveField, CommitField, Evict

(* An untied record still to be listed ranks no higher than the worker's     *)
(* offset, unless a deletion moved it up: an insertion pushes it down.        *)
THEOREM PagesAreInOrder == Spec => []Paged
  BY Invariance, InitPaged, NextPaged, PTL DEF Spec

(* A backfill that completes has rewritten every record that was there when  *)
(* it started and still is, however many were added while it paged, but for  *)
(* those tied with another and those a deletion moved past its place.        *)
THEOREM NoneIsMissed == Spec => PagesEveryRecord
  <1>1. Known /\ Paged /\ [Next]_vars => (Completes => PassesOverMoved)
    <2> SUFFICES ASSUME Known, Paged, [Next]_vars, job = "active", job' = "kept",
                        failures' = failures, NEW r \in missed'
                 PROVE  Tied(r) \/ r \in shifted
      BY DEF Completes, PassesOverMoved
    <2>1. ~(Fail \/ UNCHANGED job)
      BY DEF Fail, Known, Types
    <2>2. WritePage
      BY <2>1 DEF Next, Import, Insert, PollApply, Edit, Delete, AskAfterLoad, SaveField, CommitField,
                  Add, Start, ListPage, Evict, vars, working
    <2>3. ~MorePages /\ work.pc = "write" /\ missed' = missed \ work.page
      BY <2>2 DEF WritePage
    <2> QED
      BY <2>3 DEF Paged, Behind, Steady
  <1> QED
    BY <1>1, Invariance, PagesAreInOrder, PTL DEF Spec, PagesEveryRecord

-----------------------------------------------------------------------------
Uncomputed == {r \in Alive : table[r].computed # <<def, table[r].data>>}

Unsaved == saves = 0 => saving = "none" /\ work.def = 0
Tried == tries <= failures

(* Until the first load everything is computed; what it leaves uncomputed    *)
(* waits for the job it asks for, and then is what the worker has missed.    *)
Computes ==
    /\ bulks = 0 => loading = {} /\ job = "none" /\ Uncomputed = {}
    /\ loading # {} => job = "none" /\ Uncomputed \subseteq loading
    /\ bulks = 1 /\ loading = {} =>
          \/ job = "waiting"
          \/ job = "active" /\ Uncomputed \subseteq missed
          \/ job \in {"kept", "none"} /\ Uncomputed = {}
OneLoad == bulks <= 1 /\ saves = 0 /\ deletes = 0 /\ DistinctTimes /\ failures < Attempts
Loaded == OneLoad => Computes

Told == Unsaved /\ Tried /\ Loaded

LEMMA InitTold == Init => Told
  <1> SUFFICES ASSUME Init PROVE Told
    OBVIOUS
  <1>1. PICK old \in SUBSET Rows, at \in [Rows -> 1..MaxTime] :
          table = [r \in Rows |-> IF r \in old
                        THEN [created |-> at[r], data |-> 0, computed |-> <<0, 0>>] ELSE Absent]
    BY DEF Init
  <1>2. \A r \in Rows : table[r].computed = <<0, 0>> /\ table[r].data = 0
    BY <1>1 DEF Absent
  <1>3. Uncomputed = {}
    BY <1>2 DEF Init, Uncomputed, Alive
  <1> QED
    BY <1>3 DEF Init, Idle, Told, Unsaved, Tried, Loaded, Computes

LEMMA NextTried == Known /\ Unsaved /\ Tried /\ [Next]_vars => Unsaved' /\ Tried'
  <1> SUFFICES ASSUME Known, Unsaved, Tried, [Next]_vars PROVE Unsaved' /\ Tried'
    OBVIOUS
  <1> USE DEF Unsaved, Tried
  <1>1. tries \in Nat /\ failures \in Nat /\ saves \in Nat /\ work \in Work /\ def <= saves /\ def \in Nat
    BY DEF Known, Types, Counted
  <1>2. CASE SaveField
    BY <1>1, <1>2 DEF SaveField
  <1>3. CASE CommitField
    BY <1>3 DEF CommitField, working
  <1>4. CASE Start
    <2>1. work'.def = def
      BY <1>4, IdleWork DEF Start, Work
    <2> QED
      BY <1>1, <1>4, <2>1 DEF Start, asking
  <1>5. ASSUME NEW S \in SUBSET Rows, ListPage(S) PROVE Unsaved' /\ Tried'
    <2>1. work'.def = work.def
      BY <1>1, <1>5 DEF ListPage, Work
    <2> QED
      BY <1>5, <2>1 DEF ListPage, asking
  <1>6. CASE WritePage
    <2>1. work'.def \in {work.def, 0}
      <3>1. CASE work' = [work EXCEPT !.pc = "list", !.offset = NextOffset, !.page = {}]
        BY <1>1, <3>1 DEF Work
      <3>2. CASE work' = Idle
        BY <3>2 DEF Idle
      <3> QED
        BY <1>6, <3>1, <3>2 DEF WritePage, Done
    <2> QED
      BY <1>6, <2>1 DEF WritePage, asking
  <1>7. CASE Fail
    BY <1>1, <1>7 DEF Fail, asking, Idle
  <1>8. CASE Evict
    BY <1>1, <1>8 DEF Evict, asking
  <1> QED
    BY <1>2, <1>3, <1>4, <1>5, <1>6, <1>7, <1>8
    DEF Next, Import, Insert, PollApply, Edit, Delete, AskAfterLoad, asking, working, vars

LEMMA NextLoaded == Known /\ Known' /\ Paged /\ Told /\ [Next]_vars => Loaded'
  <1> SUFFICES ASSUME Known, Known', Paged, Told, [Next]_vars, OneLoad' PROVE Computes'
    BY DEF Loaded
  <1>a. /\ bulks \in Nat /\ bulks' \in Nat /\ saves \in Nat /\ deletes \in Nat
        /\ failures \in Nat /\ tries \in Nat /\ Attempts \in Nat
        /\ job \in {"none", "waiting", "active", "kept"} /\ loading \subseteq Rows /\ Alive \subseteq Rows
    BY BoundAssumption DEF Known, Types, Alive
  <1>b. saves' = 0 /\ deletes' = 0 /\ DistinctTimes' /\ bulks' <= 1 /\ failures' < Attempts
    BY DEF OneLoad
  (* A write of one record.                                                  *)
  <1>1. ASSUME NEW r \in Rows, NEW row \in Record, row.created # 0,
               table' = [table EXCEPT ![r] = row],
               r \in Alive => row.created = Created(r),
               UNCHANGED <<def, saves, deletes, failures>>, bulks <= 1
        PROVE  /\ Computes
               /\ Uncomputed' \subseteq Uncomputed \cup {r}
               /\ row.computed = <<def, row.data>> => Uncomputed' \subseteq Uncomputed
    <2>1. Alive' = Alive \cup {r} /\ table'[r] = row /\ \A q \in Rows \ {r} : table'[q] = table[q]
      BY <1>1, Stored DEF Known
    <2>2. \A q \in Alive : Created(q)' = Created(q)
      BY <1>1, <2>1 DEF Created, Alive
    <2>3. OneLoad
      BY <1>1, <1>b, <2>1, <2>2, RankGrows DEF OneLoad, Known
    <2>4. Uncomputed' \subseteq Uncomputed \cup {r}
      BY <1>1, <2>1 DEF Uncomputed, Alive
    <2>5. row.computed = <<def, row.data>> => r \notin Uncomputed'
      BY <1>1, <2>1 DEF Uncomputed
    <2> QED
      BY <2>3, <2>4, <2>5 DEF Told, Loaded
  <1>2. ASSUME NEW r \in Rows, loading' = loading \cup {r}, UNCHANGED job,
               bulks' = IF loading # {} THEN bulks ELSE bulks + 1,
               Computes, Uncomputed' \subseteq Uncomputed \cup {r}
        PROVE  Computes'
    <2>1. bulks' # 0 /\ job = "none" /\ Uncomputed \subseteq loading
      BY <1>2, <1>a, <1>b DEF Computes
    <2> QED
      BY <1>2, <2>1 DEF Computes
  <1>3. ASSUME UNCHANGED <<bulks, loading, job, missed>>, Computes, Uncomputed' \subseteq Uncomputed
        PROVE  Computes'
    BY <1>3 DEF Computes
  <1>4. ASSUME NEW r \in Rows, NEW t \in 1..MaxTime, Import(r, t) PROVE Computes'
    <2>1. UNCHANGED <<def, saves, deletes, failures, job>> /\ bulks <= 1
      BY <1>4, <1>a, <1>b DEF Import, working
    <2>2. Computes /\ Uncomputed' \subseteq Uncomputed \cup {r}
      BY <1>1, <1>4, <2>1, ImportStores
    <2> QED
      BY <1>2, <1>4, <2>1, <2>2 DEF Import
  <1>5. ASSUME NEW r \in Rows, PollApply(r) PROVE Computes'
    <2>1. UNCHANGED <<def, saves, deletes, failures, job>> /\ bulks <= 1
      BY <1>5, <1>a, <1>b DEF PollApply, working
    <2>2. Computes /\ Uncomputed' \subseteq Uncomputed \cup {r}
      BY <1>1, <1>5, <2>1, PollApplyStores
    <2> QED
      BY <1>2, <1>5, <2>1, <2>2 DEF PollApply
  <1>6. ASSUME NEW r \in Rows, NEW t \in 1..MaxTime, Insert(r, t) PROVE Computes'
    <2>1. UNCHANGED <<def, saves, deletes, failures, job, bulks, loading, missed>>
      BY <1>6 DEF Insert, working, asking
    <2>2. Computes /\ Uncomputed' \subseteq Uncomputed
      BY <1>1, <1>6, <1>b, <2>1, InsertStores
    <2> QED
      BY <1>3, <2>1, <2>2
  <1>7. ASSUME NEW r \in Rows, Edit(r) PROVE Computes'
    <2>1. UNCHANGED <<def, saves, deletes, failures, job, bulks, loading, missed>>
      BY <1>7 DEF Edit, working, asking
    <2>2. Computes /\ Uncomputed' \subseteq Uncomputed
      BY <1>1, <1>7, <1>b, <2>1, EditStores
    <2> QED
      BY <1>3, <2>1, <2>2
  <1>8. ASSUME NEW r \in Rows, Delete(r) PROVE FALSE
    BY <1>8, <1>a, <1>b DEF Delete
  <1>9. ASSUME UNCHANGED <<table, def, bulks, saves, deletes>>, failures <= failures'
        PROVE  Computes /\ Uncomputed' = Uncomputed
    <2>1. DistinctTimes
      BY <1>9, <1>b DEF DistinctTimes, Alive, Created
    <2>2. OneLoad
      BY <1>9, <1>a, <1>b, <2>1, BoundAssumption DEF OneLoad, Known, Types
    <2> QED
      BY <1>9, <2>2 DEF Told, Loaded, Uncomputed, Alive
  <1>10. CASE AskAfterLoad
    <2>1. Computes /\ Uncomputed' = Uncomputed
      BY <1>9, <1>10, <1>a DEF AskAfterLoad
    <2> QED
      BY <1>10, <2>1 DEF AskAfterLoad, Add, Computes
  <1>11. CASE SaveField
    BY <1>11, <1>a, <1>b DEF SaveField
  <1>12. CASE CommitField
    BY <1>12, <1>b DEF CommitField, Told, Unsaved
  <1>13. CASE Start
    <2>1. Computes /\ Uncomputed' = Uncomputed
      BY <1>9, <1>13, <1>a DEF Start, asking
    <2>2. Uncomputed \subseteq Alive
      BY DEF Uncomputed
    <2> QED
      BY <1>13, <1>a, <1>b, <2>1, <2>2 DEF Start, asking, Computes
  <1>14. ASSUME NEW S \in SUBSET Rows, ListPage(S) PROVE Computes'
    <2>1. Computes /\ Uncomputed' = Uncomputed
      BY <1>9, <1>14, <1>a DEF ListPage, asking
    <2> QED
      BY <1>3, <1>14, <2>1 DEF ListPage, asking
  <1>15. CASE WritePage
    <2>1. /\ Alive' = Alive /\ \A r \in Rows : Created(r)' = Created(r)
          /\ \A r \in Rows \ Found : table'[r] = table[r]
          /\ \A r \in Found : table'[r].computed = <<work.def, table'[r].data>>
      BY <1>15, PageStores
    <2>2. UNCHANGED <<def, saving, loading, saves, bulks, tries, failures, deletes>> /\ work.pc = "write"
      BY <1>15 DEF WritePage, asking
    <2>3. DistinctTimes
      BY <2>1, <1>b DEF DistinctTimes, Alive
    <2>4. Computes
      BY <2>2, <2>3, <1>b DEF OneLoad, Told, Loaded
    <2>5. work.def = def
      BY <2>2, <1>b DEF Told, Unsaved, Known, Types, Counted
    <2>6. Uncomputed' \subseteq Uncomputed \ work.page
      BY <2>1, <2>2, <2>5 DEF Uncomputed, Found, Alive
    <2>7. job = "active"
      BY <2>2 DEF Known, Counted
    <2>8. bulks = 1 /\ loading = {} /\ Uncomputed \subseteq missed
      BY <1>a, <1>b, <2>2, <2>4, <2>7 DEF Computes
    <2>9. CASE MorePages
      <3>1. job' = job /\ missed' = missed \ work.page
        BY <1>15, <2>9 DEF WritePage
      <3> QED
        BY <2>2, <2>6, <2>7, <2>8, <3>1 DEF Computes
    <2>10. CASE ~MorePages
      <3>1. missed \ work.page = {}
        <4>1. \A m \in missed : Steady(m)
          BY <2>2, <2>3, <1>b DEF Paged, Steady, Tied, DistinctTimes, Known, MissedLive
        <4> QED
          BY <2>2, <2>10, <4>1 DEF Paged, Behind
      <3>2. job' = "kept"
        BY <1>15, <2>10 DEF WritePage
      <3> QED
        BY <2>2, <2>6, <2>8, <3>1, <3>2 DEF Computes
    <2> QED
      BY <2>9, <2>10
  <1>16. CASE Fail
    <2>1. Computes /\ Uncomputed' = Uncomputed
      BY <1>9, <1>16, <1>a DEF Fail, asking
    <2>2. job' = "waiting"
      BY <1>16, <1>a, <1>b DEF Fail, Told, Tried
    <2> QED
      BY <1>16, <2>1, <2>2 DEF Fail, asking, Computes
  <1>17. CASE Evict
    <2>1. Computes /\ Uncomputed' = Uncomputed
      BY <1>9, <1>17, <1>a DEF Evict, asking
    <2> QED
      BY <1>17, <2>1 DEF Evict, asking, Computes
  <1>18. CASE UNCHANGED vars
    <2>1. Computes /\ Uncomputed' = Uncomputed
      BY <1>9, <1>18, <1>a DEF vars, asking, working
    <2> QED
      BY <1>3, <1>18, <2>1 DEF vars, asking, working
  <1> QED
    BY <1>4, <1>5, <1>6, <1>7, <1>8, <1>10, <1>11, <1>12, <1>13, <1>14, <1>15, <1>16, <1>17, <1>18
    DEF Next

(* After one load, unless every attempt failed, rest means that every        *)
(* record's computed fields are those of its data.                           *)
THEOREM RestIsComputed == Spec => [](failures < Attempts => AllComputed)
  <1>1. Known /\ Paged /\ Told /\ [Next]_vars => Told'
    <2>1. Known /\ Told /\ [Next]_vars => Unsaved' /\ Tried'
      BY NextTried DEF Told
    <2> QED
      BY <2>1, NextKnown, NextLoaded DEF Told
  <1>2. Told => (failures < Attempts => AllComputed)
    BY DEF Told, Loaded, OneLoad, Computes, AllComputed, AtRest, Uncomputed
  <1> QED
    BY <1>1, <1>2, Invariance, PagesAreInOrder, InitTold, PTL DEF Spec
=============================================================================
