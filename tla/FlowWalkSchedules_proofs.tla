------------------------ MODULE FlowWalkSchedules_proofs ------------------------
(***************************************************************************)
(* What drives flows: the walker over a validated graph, and the schedules *)
(* that start runs.                                                        *)
(*                                                                         *)
(* The walker, for every set of nodes, every family of finite drafts and   *)
(* all limits, whatever conditions, collections and waits answer: it meets *)
(* no structural violation, it is inside the body of every live loop, and  *)
(* its trace stays within the budget.  That the walker stays inside rests  *)
(* on the validator's reachability being closed under edges: as many       *)
(* rounds as there are nodes are enough (ReachedIsClosed).                 *)
(*                                                                         *)
(* The schedules, for every set of flows, patterns and instants: a 'once'  *)
(* instant fires once, and once more for each crash after a fire.          *)
(***************************************************************************)
EXTENDS FlowWalk, FlowSchedules, FiniteSetTheorems, SequenceTheorems, WellFoundedInduction, TLAPS

(* Every non-empty set of naturals up to b has a greatest member.            *)
LEMMA Greatest ==
  ASSUME NEW b \in Nat, NEW T \in SUBSET (0..b), T # {}
  PROVE  \E x \in T : \A y \in T : y <= x
  <1> DEFINE U == {(n + 1)..b : n \in T}
  <1>1. U \subseteq FiniteSubsetsOf(Nat) /\ U # {}
    <2>1. ASSUME NEW n \in T PROVE (n + 1)..b \in FiniteSubsetsOf(Nat)
      <3>1. IsFiniteSet((n + 1)..b)
        BY FS_Interval
      <3>2. (n + 1)..b \in SUBSET Nat
        OBVIOUS
      <3> QED
        BY <3>1, <3>2 DEF FiniteSubsetsOf
    <2> QED
      BY <2>1
  <1>2. PICK u \in U : \A v \in U : ~(<<v, u>> \in StrictSubsetOrdering(Nat))
    <2> HIDE DEF U
    <2> QED
      BY <1>1, FS_StrictSubsetOrderingWellFounded, WFMin
  <1>3. PICK x \in T : u = (x + 1)..b
    OBVIOUS
  <1>4. ASSUME NEW y \in T, x < y PROVE FALSE
    <2>1. (y + 1)..b \subseteq (x + 1)..b /\ y \in (x + 1)..b /\ y \notin (y + 1)..b
      BY <1>4
    <2>2. (y + 1)..b \in SUBSET Nat /\ (x + 1)..b \in SUBSET Nat
      OBVIOUS
    <2>3. <<(y + 1)..b, (x + 1)..b>> \in StrictSubsetOrdering(Nat)
      BY <2>1, <2>2, Zenon DEF StrictSubsetOrdering
    <2> QED
      BY <1>2, <1>3, <2>3
  <1> QED
    BY <1>4

(* Induction up to a bound, over a set.                                      *)
LEMMA UpTo ==
  ASSUME NEW n \in Nat, NEW K \in SUBSET (0..n), 0 \in K, \A k \in K : k < n => k + 1 \in K
  PROVE  K = 0..n
  <1> DEFINE T == {k \in K : 0..k \subseteq K}
  <1>1. T \in SUBSET (0..n) /\ 0 \in T
    <2>1. \A j \in 0..0 : j = 0
      OBVIOUS
    <2> QED
      BY <2>1
  <1>2. PICK x \in T : \A y \in T : y <= x
    <2> HIDE DEF T
    <2> QED
      BY <1>1, Greatest
  <1>3. x = n
    <2> SUFFICES ASSUME x < n PROVE FALSE
      OBVIOUS
    <2>1. x + 1 \in K /\ x \in Nat
      OBVIOUS
    <2>2. \A j \in 0..(x + 1) : j \in 0..x \/ j = x + 1
      BY <2>1
    <2>3. x + 1 \in T
      BY <2>1, <2>2
    <2> QED
      BY <1>2, <2>1, <2>3
  <1> QED
    BY <1>3

-----------------------------------------------------------------------------
(* One round of reaching, and what is closed under it.                       *)
Grown(g, stop, S) == S \cup {e.target : e \in {e \in g : e.source \in S \ stop}}
ClosedIn(g, stop, S) == \A e \in g : e.source \in S \ stop => e.target \in S

AreRounds(R, n, g, from, stop) ==
    R = [k \in 0..n |-> IF k = 0 THEN from ELSE Grown(g, stop, R[k - 1])]

(* The rounds of ReachedFrom: its recursive function exists.                 *)
LEMMA RoundsExist ==
  ASSUME NEW n \in Nat, NEW g \in SUBSET Edge, NEW from \in SUBSET Nodes, NEW stop
  PROVE  \E R \in [0..n -> SUBSET Nodes] : AreRounds(R, n, g, from, stop)
  <1> DEFINE Upto(f, m) == f[0] = from /\ \A k \in 1..m : f[k] = Grown(g, stop, f[k - 1])
             K == {m \in 0..n : \E f \in [0..m -> SUBSET Nodes] : Upto(f, m)}
  <1>1. \A S \in SUBSET Nodes : Grown(g, stop, S) \in SUBSET Nodes
    BY DEF Grown, Edge
  <1>2. 0 \in K
    <2>1. [k \in 0..0 |-> from] \in [0..0 -> SUBSET Nodes]
      OBVIOUS
    <2>2. Upto([k \in 0..0 |-> from], 0) /\ 0 \in 0..n
      OBVIOUS
    <2> HIDE DEF Upto
    <2> QED
      BY <2>1, <2>2
  <1>3. ASSUME NEW m \in K, m < n PROVE m + 1 \in K
    <2>1. PICK f \in [0..m -> SUBSET Nodes] : Upto(f, m)
      OBVIOUS
    <2> DEFINE h == [k \in 0..(m + 1) |-> IF k <= m THEN f[k] ELSE Grown(g, stop, f[m])]
    <2>2. m \in Nat /\ m \in 0..m /\ f[m] \in SUBSET Nodes
      OBVIOUS
    <2>3. h \in [0..(m + 1) -> SUBSET Nodes]
      BY <1>1, <2>2
    <2>4. h[0] = from /\ \A k \in 1..(m + 1) : h[k] = Grown(g, stop, h[k - 1])
      <3>1. \A k \in 0..m : h[k] = f[k]
        BY <2>2
      <3>2. h[m + 1] = Grown(g, stop, f[m])
        BY <2>2
      <3>3. ASSUME NEW k \in 1..(m + 1) PROVE h[k] = Grown(g, stop, h[k - 1])
        <4>1. CASE k <= m
          <5>1. k \in 1..m /\ k \in 0..m /\ k - 1 \in 0..m
            BY <2>2, <4>1
          <5> HIDE DEF h
          <5> QED
            BY <2>1, <3>1, <5>1
        <4>2. CASE k = m + 1
          <5>1. k - 1 = m /\ m \in 0..m
            BY <2>2, <4>2
          <5> HIDE DEF h
          <5> QED
            BY <3>1, <3>2, <4>2, <5>1
        <4> QED
          BY <2>2, <4>1, <4>2
      <3> QED
        BY <2>1, <2>2, <3>1, <3>3
    <2>5. m + 1 \in 0..n
      BY <1>3
    <2> HIDE DEF h
    <2> QED
      BY <2>3, <2>4, <2>5
  <1>4. K = 0..n
    <2> HIDE DEF K
    <2>1. K \in SUBSET (0..n)
      BY DEF K
    <2> QED
      BY <1>2, <1>3, <2>1, UpTo
  <1>5. PICK f \in [0..n -> SUBSET Nodes] : Upto(f, n)
    BY <1>4
  <1>6. ASSUME NEW k \in 0..n PROVE f[k] = IF k = 0 THEN from ELSE Grown(g, stop, f[k - 1])
    BY <1>5
  <1>7. AreRounds(f, n, g, from, stop)
    BY <1>6 DEF AreRounds
  <1> QED
    BY <1>7

ReachedIn(R, g, from, stop) ==
    /\ R \in [0..Cardinality(Nodes) -> SUBSET Nodes]
    /\ R[0] = from
    /\ \A k \in 1..Cardinality(Nodes) : R[k] = Grown(g, stop, R[k - 1])
    /\ ReachedFrom(g, from, stop) = R[Cardinality(Nodes)]

LEMMA Rounds ==
  ASSUME NEW g \in SUBSET Edge, NEW from \in SUBSET Nodes, NEW stop
  PROVE  \E R : ReachedIn(R, g, from, stop)
  <1> DEFINE n == Cardinality(Nodes)
             R == CHOOSE R : R = [k \in 0..n |-> IF k = 0 THEN from ELSE Grown(g, stop, R[k - 1])]
  <1>1. n \in Nat
    BY NestingAssumption, FS_CardinalityType
  <1>2. PICK f \in [0..n -> SUBSET Nodes] : AreRounds(f, n, g, from, stop)
    <2> HIDE DEF n, R
    <2> QED
      BY <1>1, RoundsExist
  <1>3. R = [k \in 0..n |-> IF k = 0 THEN from ELSE Grown(g, stop, R[k - 1])]
    BY <1>2 DEF AreRounds
  <1>4. ReachedFrom(g, from, stop) = R[n]
    BY DEF ReachedFrom, Grown
  <1>5. R \in [0..n -> SUBSET Nodes]
    <2> HIDE DEF R
    <2> DEFINE K == {k \in 0..n : R[k] \in SUBSET Nodes}
    <2>1. \A S \in SUBSET Nodes : Grown(g, stop, S) \in SUBSET Nodes
      BY DEF Grown, Edge
    <2>2. 0 \in K
      BY <1>1, <1>3
    <2>3. ASSUME NEW k \in K, k < n PROVE k + 1 \in K
      <3>1. k + 1 \in 0..n /\ k + 1 # 0 /\ (k + 1) - 1 = k
        BY <1>1, <2>3
      <3>2. R[k + 1] = Grown(g, stop, R[k])
        BY <1>3, <3>1
      <3> QED
        BY <2>1, <3>1, <3>2
    <2>4. K = 0..n
      <3> HIDE DEF K
      <3>1. K \in SUBSET (0..n)
        BY DEF K
      <3> QED
        BY <1>1, <2>2, <2>3, <3>1, UpTo
    <2> QED
      BY <1>3, <2>4
  <1>6. R[0] = from /\ \A k \in 1..n : R[k] = Grown(g, stop, R[k - 1])
    <2> HIDE DEF R
    <2> QED
      BY <1>1, <1>3
  <1> HIDE DEF R
  <1> QED
    BY <1>4, <1>5, <1>6 DEF ReachedIn

(* ReachedFrom holds where it starts and what its edges lead to: a round     *)
(* that adds a node cannot come after as many rounds as there are nodes.     *)
LEMMA ReachedIsClosed ==
  ASSUME NEW g \in SUBSET Edge, NEW from \in SUBSET Nodes, NEW stop
  PROVE  /\ from \subseteq ReachedFrom(g, from, stop)
         /\ ReachedFrom(g, from, stop) \subseteq Nodes
         /\ ClosedIn(g, stop, ReachedFrom(g, from, stop))
  <1> DEFINE n == Cardinality(Nodes)
  <1>1. n \in Nat /\ IsFiniteSet(Nodes)
    BY NestingAssumption, FS_CardinalityType
  <1>a. PICK R : ReachedIn(R, g, from, stop)
    BY Rounds
  <1>2. /\ R \in [0..n -> SUBSET Nodes]
        /\ R[0] = from
        /\ \A k \in 1..n : R[k] = Grown(g, stop, R[k - 1])
        /\ ReachedFrom(g, from, stop) = R[n]
    BY <1>a DEF ReachedIn
  <1> DEFINE K == {k \in 0..n : /\ from \subseteq R[k]
                                /\ ClosedIn(g, stop, R[k]) \/ Cardinality(R[k]) >= k}
  <1>3. \A S \in SUBSET Nodes : IsFiniteSet(S) /\ Cardinality(S) \in Nat
    BY <1>1, FS_Subset, FS_CardinalityType
  <1> HIDE DEF n
  <1>4. 0 \in K
    <2>1. 0 \in 0..n /\ R[0] = from /\ R[0] \in SUBSET Nodes
      BY <1>1, <1>2
    <2>2. Cardinality(R[0]) >= 0
      BY <1>3, <2>1
    <2> QED
      BY <2>1, <2>2
  <1>5. ASSUME NEW k \in K, k < n PROVE k + 1 \in K
    <2>1. k \in 0..n /\ k + 1 \in 0..n /\ k + 1 \in 1..n /\ (k + 1) - 1 = k
      BY <1>1, <1>5
    <2>2. R[k + 1] = Grown(g, stop, R[k]) /\ R[k] \in SUBSET Nodes /\ R[k + 1] \in SUBSET Nodes
      BY <1>2, <2>1
    <2>3. R[k] \subseteq R[k + 1]
      BY <2>2 DEF Grown
    <2>4. CASE ClosedIn(g, stop, R[k])
      <3>1. R[k + 1] = R[k]
        BY <2>2, <2>4 DEF Grown, ClosedIn
      <3> QED
        BY <2>1, <2>4, <3>1
    <2>5. CASE ~ClosedIn(g, stop, R[k])
      <3>1. R[k] # R[k + 1]
        BY <2>2, <2>5 DEF Grown, ClosedIn
      <3>2. Cardinality(R[k]) < Cardinality(R[k + 1])
        BY <1>3, <2>2, <2>3, <3>1, FS_Subset
      <3>3. Cardinality(R[k]) >= k
        BY <2>5
      <3>4. Cardinality(R[k]) \in Nat /\ Cardinality(R[k + 1]) \in Nat
        BY <1>3, <2>2
      <3>5. Cardinality(R[k + 1]) >= k + 1
        BY <2>1, <3>2, <3>3, <3>4
      <3> QED
        BY <2>1, <2>3, <3>5
    <2> QED
      BY <2>4, <2>5
  <1>6. n \in K
    <2> HIDE DEF K
    <2>1. K \in SUBSET (0..n)
      BY DEF K
    <2>2. K = 0..n
      BY <1>1, <1>4, <1>5, <2>1, UpTo
    <2> QED
      BY <1>1, <2>2
  <1>7. ClosedIn(g, stop, R[n])
    <2>1. CASE Cardinality(R[n]) >= n
      <3>1. R[n] \in SUBSET Nodes /\ Cardinality(R[n]) \in Nat
        BY <1>1, <1>2, <1>3
      <3>2. Cardinality(R[n]) = n
        BY <1>1, <2>1, <3>1, FS_Subset DEF n
      <3>3. R[n] = Nodes
        BY <1>1, <3>1, <3>2, FS_Subset DEF n
      <3> QED
        BY <3>3 DEF ClosedIn, Edge
    <2> QED
      BY <1>6, <2>1
  <1> QED
    BY <1>1, <1>2, <1>6, <1>7

(* A loop's body edge leads into its body, edges of the body lead on in it,  *)
(* unless they lead to the loop itself.                                      *)
LEMMA BodyIsClosed ==
  ASSUME NEW g \in SUBSET Edge, NEW l \in Nodes, NEW e \in g
  PROVE  /\ Body(g, l) \subseteq Nodes \ {l}
         /\ e \in On(g, l, "body") => e.target = l \/ e.target \in Body(g, l)
         /\ e.source \in Body(g, l) => e.target = l \/ e.target \in Body(g, l)
  <1> DEFINE from == {d.target : d \in On(g, l, "body")}
  <1>1. from \in SUBSET Nodes
    BY DEF On, Outs, Edge
  <1>2. Body(g, l) = ReachedFrom(g, from, {l}) \ {l}
    BY DEF Body
  <1>3. /\ from \subseteq ReachedFrom(g, from, {l})
        /\ ReachedFrom(g, from, {l}) \subseteq Nodes
        /\ ClosedIn(g, {l}, ReachedFrom(g, from, {l}))
    <2> HIDE DEF from
    <2> QED
      BY <1>1, ReachedIsClosed
  <1>4. e \in On(g, l, "body") => e.target \in from
    OBVIOUS
  <1> HIDE DEF from
  <1> QED
    BY <1>2, <1>3, <1>4 DEF ClosedIn

-----------------------------------------------------------------------------
Frame == [loop : OfKind("loop"), index : Nat, total : 1..MaxItems]
Phases == {"running", "resumed", "parked", "completed", "executor", "re-entered"}
              \cup Structural \cup Limits
Live == {"running", "resumed", "parked"}

Types ==
    /\ edges \in SUBSET Edge /\ IsFiniteSet(edges) /\ Valid(edges)
    /\ at \in Nodes
    /\ frames \in Seq(Frame)
    /\ steps \in Nat /\ column \in Nat /\ reparks \in 0..MaxReparks
    /\ phase \in Phases

InRange(fs) == \A i \in 1..Len(fs) : fs[i].index < fs[i].total
Once(fs) == \A i, j \in 1..Len(fs) : fs[i].loop = fs[j].loop => i = j
Inside(n, fs) == \A i \in 1..Len(fs) : n = fs[i].loop \/ n \in Body(edges, fs[i].loop)

Walking ==
    /\ Types
    /\ InRange(frames) /\ Once(frames)
    /\ phase \in Live => Inside(at, frames)

(* The steps counted when the run was resumed last and the trace steps since *)
(* then go together.                                                         *)
Budget ==
    /\ phase = "running" => column <= steps /\ steps <= MaxSteps
    /\ phase = "resumed" => steps = column
    /\ phase \in {"resumed", "parked"} => column <= MaxSteps + 1 + reparks
    /\ column <= MaxSteps + 2 + reparks

Sound == Walking /\ NoStructuralError

LEMMA InitWalking == Init => Sound /\ Budget
  BY LimitAssumption, DraftAssumption
  DEF Init, Sound, Walking, NoStructuralError, Structural, Types, InRange, Once, Inside, Budget,
      OfKind, Phases

LEMMA FramesAre ==
  ASSUME NEW fs \in Seq(Frame)
  PROVE  /\ Len(fs) \in Nat
         /\ \A i \in 1..Len(fs) :
               /\ fs[i] \in Frame /\ fs[i].loop \in OfKind("loop") /\ fs[i].loop \in Nodes
               /\ Kind[fs[i].loop] = "loop" /\ fs[i].index \in Nat /\ fs[i].total \in Nat
  <1>1. Len(fs) \in Nat /\ \A i \in 1..Len(fs) : fs[i] \in Frame
    OBVIOUS
  <1> QED
    BY <1>1 DEF Frame, OfKind

(* What the validator promises of the exits of a node.                       *)
LEMMA ExitsAreThere ==
  ASSUME Types
  PROVE  /\ Kind[at] \in {"trigger", "linear", "wait"} => Cardinality(Outs(edges, at)) <= 1
         /\ Kind[at] = "decision" => \A o \in Outcomes : On(edges, at, o) # {}
         /\ Kind[at] = "loop" => On(edges, at, "body") # {} /\ On(edges, at, "done") # {}
  <1>1. ExitsOk(edges, at)
    BY DEF Types, Valid
  <1>2. Cardinality({}) = 0
    BY FS_EmptySet
  <1> QED
    BY <1>1, <1>2 DEF ExitsOk, DecisionExits, LoopExits, LinearExits

(* There are as many live loops as frames.                                   *)
LEMMA LiveLoops ==
  ASSUME frames \in Seq(Frame), Once(frames)
  PROVE  Cardinality(Entered) = Len(frames)
  <1> DEFINE n == Len(frames)
             f == [i \in 1..n |-> frames[i].loop]
  <1>1. n \in Nat
    OBVIOUS
  <1>2. f \in Bijection(1..n, Entered)
    <2>1. f \in [1..n -> Entered]
      BY DEF Entered
    <2>2. \A a, b \in 1..n : f[a] = f[b] => a = b
      BY DEF Once
    <2>3. \A e \in Entered : \E i \in 1..n : f[i] = e
      BY DEF Entered
    <2> HIDE DEF f
    <2>4. f \in Injection(1..n, Entered)
      BY <2>1, <2>2 DEF Injection, IsInjective
    <2>5. f \in Surjection(1..n, Entered)
      BY <2>1, <2>3 DEF Surjection
    <2> QED
      BY <2>4, <2>5 DEF Bijection
  <1> QED
    BY <1>1, <1>2, FS_CountingElements DEF ExistsBijection

(* The live loops all hold the node: there are no more of them than the      *)
(* validator's nesting depth counts.                                         *)
LEMMA NestingIsBounded ==
  ASSUME Types, Once(frames), Inside(at, frames), Kind[at] = "loop", at \notin Entered
  PROVE  Len(frames) + 1 <= MaxLoopNesting
  <1> DEFINE n == Len(frames)
             around == {o \in OfKind("loop") \ {at} : at \in Body(edges, o)}
  <1>1. n \in Nat /\ \A i \in 1..n : frames[i].loop \in OfKind("loop")
    BY FramesAre DEF Types
  <1>2. Cardinality(Entered) = n
    BY LiveLoops DEF Types
  <1>3. Entered \subseteq around
    BY <1>1 DEF Entered, Inside
  <1>4. IsFiniteSet(around)
    <2>1. around \subseteq Nodes
      BY DEF OfKind
    <2> QED
      BY <2>1, NestingAssumption, FS_Subset
  <1>5. Cardinality(Entered) <= Cardinality(around) /\ Cardinality(around) \in Nat
    BY <1>3, <1>4, FS_Subset, FS_CardinalityType
  <1>6. NestingDepth(edges, at) <= MaxLoopNesting
    BY DEF Types, Valid, NestingOk, OfKind
  <1>7. NestingDepth(edges, at) = 1 + Cardinality(around)
    BY DEF NestingDepth
  <1> HIDE DEF n, around
  <1>8. n + 1 <= MaxLoopNesting
    BY <1>1, <1>2, <1>5, <1>6, <1>7, NestingAssumption
  <1> QED
    BY <1>8 DEF n

-----------------------------------------------------------------------------
(* What following an edge needs of the frames it leaves with.                *)
Fits(h, fs) ==
    /\ fs \in Seq(Frame) /\ InRange(fs) /\ Once(fs)
    /\ \A i \in 1..Len(fs) : \/ fs[i].loop = at /\ h = "body"
                             \/ fs[i].loop # at /\ at \in Body(edges, fs[i].loop)

LEMMA FollowKeeps ==
  ASSUME Types, NEW h, NEW fs, Fits(h, fs), Spend, Follow(h, fs), column' \in Nat
  PROVE  Walking'
  <1>1. frames' = fs /\ edges' = edges /\ UNCHANGED reparks /\ steps' \in Nat
    BY DEF Follow, Spend, Types
  <1>2. CASE phase' = "completed" /\ UNCHANGED at
    BY <1>1, <1>2 DEF Types, Walking, Fits, Phases, Live, InRange, Once
  <1>3. ASSUME phase' = "running", NEW e \in On(edges, at, h), at' = e.target
        PROVE  Walking'
    <2>1. e \in edges /\ e \in Edge /\ e.source = at /\ edges \in SUBSET Edge /\ e.target \in Nodes
      BY DEF On, Outs, Types, Edge
    <2>2. ASSUME NEW i \in 1..Len(fs)
          PROVE  at' = fs[i].loop \/ at' \in Body(edges, fs[i].loop)
      <3>1. fs[i].loop \in Nodes
        BY FramesAre DEF Fits
      <3>2. CASE fs[i].loop = at /\ h = "body"
        BY <1>3, <2>1, <3>1, <3>2, BodyIsClosed
      <3>3. CASE at \in Body(edges, fs[i].loop)
        BY <1>3, <2>1, <3>1, <3>3, BodyIsClosed
      <3> QED
        BY <3>2, <3>3 DEF Fits
    <2>3. Inside(at, frames)'
      BY <1>1, <2>2 DEF Inside
    <2>4. Types'
      BY <1>1, <1>3, <2>1 DEF Types, Fits, Phases
    <2>5. InRange(frames)' /\ Once(frames)'
      BY <1>1 DEF Fits, InRange, Once
    <2> QED
      BY <2>3, <2>4, <2>5 DEF Walking
  <1> QED
    BY <1>2, <1>3 DEF Follow

LEMMA FailKeeps ==
  ASSUME Walking, NEW why \in Phases \ Live, Fail(why), column' \in Nat
  PROVE  Walking'
  BY DEF Walking, Types, Fail, InRange, Once, Inside, Live

(* A node that is no live loop leaves with the frames it found.              *)
LEMMA KeptFramesFit ==
  ASSUME Walking, phase \in Live, NEW h, at \notin Entered
  PROVE  Fits(h, frames)
  BY DEF Walking, Types, Entered, Inside, Fits

LEMMA NoLoopIsEntered ==
  ASSUME Walking, Kind[at] # "loop"
  PROVE  at \notin Entered
  BY FramesAre DEF Walking, Types, Entered

LEMMA NextSound == Sound /\ [Next]_vars => Sound'
  <1> SUFFICES ASSUME Sound, [Next]_vars PROVE Sound'
    OBVIOUS
  <1>a. column \in Nat /\ steps \in Nat /\ column + 1 \in Nat
    BY DEF Sound, Walking, Types
  <1>b. ASSUME NEW why \in {"steps", "iterations", "executor", "re-entered"}, Fail(why), column' \in Nat
        PROVE  Sound'
    BY <1>b, FailKeeps DEF Sound, NoStructuralError, Fail, Phases, Limits, Live, Structural
  <1>c. ASSUME NEW h, NEW fs, Fits(h, fs), Spend, Follow(h, fs), column' \in Nat
        PROVE  Sound'
    <2>1. phase' \in {"completed", "running"}
      BY <1>c DEF Follow
    <2> QED
      BY <1>c, <2>1, FollowKeeps DEF Sound, NoStructuralError, Walking, Structural
  <1>d. OutOfBudget => Fail("steps")
    BY DEF OutOfBudget
  <1>1. CASE VisitLinear
    <2>1. /\ phase \in Live /\ Kind[at] \in {"trigger", "linear", "wait"} /\ column' = column + 1
          /\ AdvanceLinear \/ Fail("executor")
      BY <1>1 DEF VisitLinear, Emit, Driving, Live
    <2>2. Fits(Plain, frames)
      BY <2>1, NoLoopIsEntered, KeptFramesFit DEF Sound
    <2>3. ~(Cardinality(Outs(edges, at)) > 1)
      <3>1. Cardinality(Outs(edges, at)) <= 1
        BY <2>1, ExitsAreThere DEF Sound, Walking
      <3>2. Cardinality(Outs(edges, at)) \in Nat
        <4>1. IsFiniteSet(Outs(edges, at))
          BY FS_Subset DEF Outs, Sound, Walking, Types
        <4> QED
          BY <4>1, FS_CardinalityType
      <3> QED
        BY <3>1, <3>2
    <2> QED
      BY <1>a, <1>b, <1>c, <1>d, <2>1, <2>2, <2>3 DEF AdvanceLinear
  <1>2. CASE VisitDecision
    <2>1. phase \in Live /\ Kind[at] = "decision" /\ column' = column + 1 /\ AdvanceDecision
      BY <1>2 DEF VisitDecision, Emit, Live
    <2>2. \A h : Fits(h, frames)
      BY <2>1, NoLoopIsEntered, KeptFramesFit DEF Sound
    <2>3. \A o \in Outcomes : On(edges, at, o) # {}
      BY <2>1, ExitsAreThere DEF Sound, Walking
    <2> QED
      BY <1>a, <1>b, <1>c, <1>d, <2>1, <2>2, <2>3 DEF AdvanceDecision
  <1>3. CASE ReturnToLoop
    <2>1. /\ phase \in Live /\ Kind[at] = "loop" /\ column' = column /\ AdvanceReturn(NextIndex)
          /\ frames # <<>> /\ Top.loop = at
      BY <1>3, <1>a DEF ReturnToLoop, Emit, Live, IsReturn
    <2>2. On(edges, at, "body") # {} /\ On(edges, at, "done") # {}
      BY <2>1, ExitsAreThere DEF Sound, Walking
    <2> DEFINE n == Len(frames)
    <2>3. /\ frames \in Seq(Frame) /\ n \in Nat /\ n >= 1 /\ frames[n].loop = at /\ frames[n] \in Frame
          /\ InRange(frames) /\ Once(frames) /\ Inside(at, frames)
      BY <2>1 DEF Top, Sound, Walking, Types
    <2>4. Fits("done", Popped(frames))
      <3>1. /\ Popped(frames) \in Seq(Frame) /\ Len(Popped(frames)) = n - 1
            /\ \A i \in 1..(n - 1) : Popped(frames)[i] = frames[i] /\ i \in 1..n /\ i # n
        <4>1. Popped(frames) = [i \in 1..(n - 1) |-> frames[i]]
          BY <2>3 DEF Popped
        <4>2. \A i \in 1..(n - 1) : i \in 1..n /\ i # n /\ frames[i] \in Frame
          BY <2>3
        <4>3. n - 1 \in Nat
          BY <2>3
        <4> HIDE DEF Frame
        <4>4. Popped(frames) \in Seq(Frame)
          BY <4>1, <4>2, <4>3
        <4>5. Len(Popped(frames)) = n - 1
          BY <4>1, <4>3
        <4> QED
          BY <4>1, <4>2, <4>4, <4>5
      <3>2. InRange(Popped(frames)) /\ Once(Popped(frames))
        BY <2>3, <3>1 DEF InRange, Once
      <3>3. \A i \in 1..(n - 1) : frames[i].loop # at
        BY <2>3, <3>1 DEF Once
      <3> QED
        BY <2>3, <3>1, <3>2, <3>3 DEF Fits, Inside
    <2>5. ASSUME ~LastItem(NextIndex, Top.total)
          PROVE  Fits("body", [frames EXCEPT ![n].index = NextIndex])
      <3> DEFINE fs == [frames EXCEPT ![n].index = NextIndex]
      <3>1. NextIndex \in Nat /\ NextIndex < frames[n].total
        BY <2>3, <2>5 DEF NextIndex, Top, LastItem, Frame
      <3>2. /\ fs \in Seq(Frame) /\ Len(fs) = n
            /\ \A i \in 1..n : /\ fs[i].loop = frames[i].loop /\ fs[i].total = frames[i].total
                               /\ i # n => fs[i].index = frames[i].index
            /\ fs[n].index = NextIndex
        <4>1. fs = [frames EXCEPT ![n] = [frames[n] EXCEPT !.index = NextIndex]]
          BY <2>3
        <4> DEFINE g == [frames[n] EXCEPT !.index = NextIndex]
        <4>2. g \in Frame /\ g.loop = frames[n].loop /\ g.total = frames[n].total /\ g.index = NextIndex
          BY <2>3, <3>1 DEF Frame
        <4> HIDE DEF fs, g
        <4>3. n \in 1..Len(frames)
          BY <2>3
        <4>4. /\ fs \in Seq(Frame) /\ Len(fs) = n /\ fs[n] = g
              /\ \A i \in 1..n \ {n} : fs[i] = frames[i]
          BY <2>3, <4>1, <4>2, <4>3, ExceptSeq DEF g
        <4> QED
          BY <4>2, <4>4
      <3> HIDE DEF fs
      <3>3. InRange(fs) /\ Once(fs)
        BY <2>3, <3>1, <3>2 DEF InRange, Once
      <3>4. \A i \in 1..n : fs[i].loop = at \/ (at \in Body(edges, fs[i].loop) /\ fs[i].loop # at)
        <4>1. ASSUME NEW i \in 1..n PROVE fs[i].loop = at \/ (at \in Body(edges, fs[i].loop) /\ fs[i].loop # at)
          <5>1. fs[i].loop = frames[i].loop /\ (at = frames[i].loop \/ at \in Body(edges, frames[i].loop))
            BY <2>3, <3>2, <4>1 DEF Inside
          <5> QED
            BY <5>1
        <4> QED
          BY <4>1
      <3> QED
        BY <3>2, <3>3, <3>4 DEF Fits, fs
    <2> QED
      BY <1>a, <1>b, <1>c, <1>d, <2>1, <2>2, <2>4, <2>5 DEF AdvanceReturn, FollowLoop
  <1>4. ASSUME NEW count \in 0..MaxItems, EnterLoop(count) PROVE Sound'
    <2>1. /\ phase \in Live /\ Kind[at] = "loop" /\ column' = column + 1 /\ AdvanceEntry(count)
      BY <1>4 DEF EnterLoop, Emit, Live
    <2>2. On(edges, at, "body") # {} /\ On(edges, at, "done") # {}
      BY <2>1, ExitsAreThere DEF Sound, Walking
    <2>3. at \notin Entered => Len(frames) + 1 <= MaxLoopNesting
      BY <2>1, NestingIsBounded DEF Sound, Walking
    <2>4. Len(frames) \in Nat /\ MaxLoopNesting \in Nat
      BY NestingAssumption DEF Sound, Walking, Types
    <2>5. at \notin Entered => Fits("done", frames)
      BY <2>1, KeptFramesFit DEF Sound
    <2>6. ASSUME at \notin Entered, count \in 1..MaxLoopIterations
          PROVE  Fits("body", Append(frames, [loop |-> at, index |-> 0, total |-> count]))
      <3> DEFINE new == [loop |-> at, index |-> 0, total |-> count]
                 n == Len(frames)
      <3>1. new \in Frame /\ new.index < new.total /\ new.loop = at
        BY <2>1, <2>6, <1>4, LimitAssumption DEF Frame, OfKind, Sound, Walking, Types
      <3> HIDE DEF new
      <3>2. /\ Append(frames, new) \in Seq(Frame) /\ Len(Append(frames, new)) = n + 1
            /\ \A i \in 1..n : Append(frames, new)[i] = frames[i]
            /\ Append(frames, new)[n + 1] = new
            /\ n \in Nat
        BY <3>1 DEF Sound, Walking, Types
      <3>3. \A i \in 1..n : frames[i].loop # at /\ at \in Body(edges, frames[i].loop)
        BY <2>1, <2>6 DEF Sound, Walking, Entered, Inside
      <3>4. InRange(Append(frames, new))
        BY <3>1, <3>2 DEF InRange, Sound, Walking
      <3>5. Once(Append(frames, new))
        BY <3>1, <3>2, <3>3 DEF Once, Sound, Walking
      <3>6. Fits("body", Append(frames, new))
        BY <3>1, <3>2, <3>3, <3>4, <3>5 DEF Fits
      <3> QED
        BY <3>6 DEF new
    <2>7. column' \in Nat
      BY <1>a, <2>1
    <2>8. CASE at \in Entered
      BY <1>b, <1>d, <2>1, <2>7, <2>8 DEF AdvanceEntry, FollowLoop
    <2>9. CASE at \notin Entered /\ count = 0
      <3>1. OutOfBudget \/ FollowLoop("done", frames)
        BY <2>1, <2>9, LimitAssumption DEF AdvanceEntry
      <3>2. Fits("done", frames)
        BY <2>5, <2>9
      <3> HIDE DEF Fits
      <3> QED
        BY <1>b, <1>c, <1>d, <2>2, <2>7, <3>1, <3>2 DEF FollowLoop
    <2>10. CASE at \notin Entered /\ count \in 1..MaxLoopIterations
      <3>1. ~(Len(frames) + 1 > MaxLoopNesting)
        BY <2>3, <2>4, <2>10
      <3>2. \/ OutOfBudget
            \/ FollowLoop("body", Append(frames, [loop |-> at, index |-> 0, total |-> count]))
        BY <2>1, <2>10, <3>1, LimitAssumption DEF AdvanceEntry
      <3> HIDE DEF Fits
      <3> QED
        BY <1>b, <1>c, <1>d, <2>2, <2>6, <2>7, <2>10, <3>2 DEF FollowLoop
    <2>11. CASE at \notin Entered /\ count \notin 0..MaxLoopIterations
      BY <1>b, <1>d, <2>1, <2>7, <2>11, <1>4, LimitAssumption DEF AdvanceEntry
    <2> QED
      BY <1>4, <2>8, <2>9, <2>10, <2>11
  <1>5. CASE Park
    <2>1. /\ UNCHANGED <<edges, at, frames, steps>> /\ column' = column + 1 /\ phase' = "parked"
          /\ phase \in Live /\ (reparks' = reparks \/ (reparks < MaxReparks /\ reparks' = reparks + 1))
      <3>1. phase = "running" \/ phase = "resumed"
        BY <1>5 DEF Park
      <3>2. UNCHANGED reparks \/ (reparks < MaxReparks /\ reparks' = reparks + 1)
        BY <1>5 DEF Park
      <3> QED
        BY <1>5, <3>1, <3>2 DEF Park, Emit, Live
    <2>2. reparks' \in 0..MaxReparks
      BY <2>1, LimitAssumption DEF Sound, Walking, Types
    <2>3. Types'
      BY <1>a, <2>1, <2>2 DEF Sound, Walking, Types, Phases
    <2> QED
      BY <2>1, <2>3 DEF Sound, Walking, InRange, Once, Inside, NoStructuralError, Structural
  <1>6. CASE Resume
    BY <1>6, <1>a
    DEF Resume, Reseed, Walking, Types, InRange, Once, Inside, Live, Phases, NoStructuralError, Structural, Sound
  <1>7. CASE UNCHANGED vars
    BY <1>7 DEF vars, Walking, Types, InRange, Once, Inside, NoStructuralError, Sound
  <1> QED
    BY <1>1, <1>2, <1>3, <1>4, <1>5, <1>6, <1>7 DEF Next

-----------------------------------------------------------------------------
(* An advance spends one step of the budget, or it ends the run.             *)
Spends ==
    /\ UNCHANGED reparks
    /\ \/ phase' \notin Live
       \/ phase' \in {"running", "completed"} /\ steps' = steps + 1 /\ ~BudgetSpent

LEMMA AdvancesSpend ==
  /\ \A why \in Phases \ Live : Fail(why) => Spends
  /\ \A h, fs : Spend /\ Follow(h, fs) => Spends
  BY DEF Fail, Spends, Spend, Follow

LEMMA EachVisitSpends ==
  /\ VisitLinear \/ VisitDecision => Spends /\ column' = column + 1 /\ Driving
  /\ ReturnToLoop => Spends /\ column' = column + 0 /\ Driving
  /\ \A count : EnterLoop(count) => Spends /\ column' = column + 1 /\ Driving
  <1>1. {"steps", "iterations", "executor", "re-entered", "nesting"} \cup Structural
           \subseteq Phases \ Live
    BY DEF Phases, Live, Structural, Limits
  <1>2. \A why \in {"steps", "iterations", "executor", "re-entered", "nesting",
                      "missing exit", "unknown branch"} : Fail(why) => Spends
    BY <1>1, AdvancesSpend DEF Structural
  <1>3. OutOfBudget => Spends
    BY <1>2 DEF OutOfBudget
  <1>4. \A h, fs : FollowLoop(h, fs) => Spends
    BY <1>2, AdvancesSpend DEF FollowLoop
  <1>5. VisitLinear \/ VisitDecision => Spends
    BY <1>2, <1>3, AdvancesSpend DEF VisitLinear, VisitDecision, AdvanceLinear, AdvanceDecision
  <1>6. ReturnToLoop => Spends
    BY <1>2, <1>3, <1>4 DEF ReturnToLoop, AdvanceReturn
  <1>7. \A count : EnterLoop(count) => Spends
    BY <1>2, <1>3, <1>4 DEF EnterLoop, AdvanceEntry
  <1> QED
    BY <1>5, <1>6, <1>7 DEF VisitLinear, VisitDecision, ReturnToLoop, EnterLoop, Emit, Driving

LEMMA NextBudget == Types /\ Budget /\ [Next]_vars => Budget'
  <1> SUFFICES ASSUME Types, Budget, [Next]_vars PROVE Budget'
    OBVIOUS
  <1>1. column \in Nat /\ steps \in Nat /\ reparks \in Nat /\ MaxSteps \in Nat
    BY LimitAssumption DEF Types
  <1>2. ASSUME Spends, column' = column \/ column' = column + 1, Driving PROVE Budget'
    <2>1. /\ column <= MaxSteps + 1 + reparks
          /\ column <= steps
          /\ reparks' = reparks
      BY <1>1, <1>2 DEF Budget, Driving, Spends
    <2>2. CASE phase' \notin Live
      BY <1>1, <1>2, <2>1, <2>2 DEF Budget, Live
    <2>3. CASE phase' \in {"running", "completed"} /\ steps' = steps + 1 /\ ~BudgetSpent
      BY <1>1, <1>2, <2>1, <2>3 DEF Budget, BudgetSpent
    <2> QED
      BY <1>2, <2>2, <2>3 DEF Spends
  <1>3. CASE Park
    <2>1. column' = column + 1 /\ phase' = "parked"
      BY <1>3 DEF Park, Emit
    <2>2. CASE phase = "running" /\ UNCHANGED reparks
      BY <1>1, <2>1, <2>2 DEF Budget
    <2>3. CASE phase = "resumed" /\ reparks' = reparks + 1
      BY <1>1, <2>1, <2>3 DEF Budget
    <2> QED
      BY <1>3, <2>2, <2>3 DEF Park
  <1>4. CASE Resume
    BY <1>1, <1>4 DEF Resume, Reseed, Budget
  <1>5. CASE UNCHANGED vars
    BY <1>5 DEF vars, Budget
  <1> QED
    BY <1>1, <1>2, <1>3, <1>4, <1>5, EachVisitSpends DEF Next

-----------------------------------------------------------------------------
LEMMA Invariance == Spec => [](Sound /\ Budget)
  <1>1. Init => Sound /\ Budget
    BY InitWalking
  <1>2. Sound /\ Budget /\ [Next]_vars => (Sound /\ Budget)'
    BY NextSound, NextBudget DEF Sound, Walking
  <1> QED
    BY <1>1, <1>2, PTL DEF Spec

(* Types, live frames with an item left, and no loop live twice.             *)
THEOREM TypeCorrect == Spec => []TypeOK
  <1>1. Sound => TypeOK
    <2> SUFFICES ASSUME Sound PROVE TypeOK
      OBVIOUS
    <2>1. Cardinality(Entered) = Len(frames)
      BY LiveLoops DEF Sound, Walking, Types
    <2> QED
      BY <2>1 DEF Sound, Walking, Types, InRange, Frame, Phases, TypeOK
  <1> QED
    BY <1>1, Invariance, PTL

(* Whatever the conditions answer, no branch or exit is ever missing and the *)
(* loops never nest too deep: validateFlowGraph decides it at activation.    *)
THEOREM ValidatedNeverFails == Spec => []NoStructuralError
  <1>1. Sound => NoStructuralError
    BY DEF Sound
  <1> QED
    BY <1>1, Invariance, PTL

(* The node being visited lies in the body of every live loop.               *)
THEOREM FramesAreAround == Spec => []FramesEnclose
  <1>1. Sound => FramesEnclose
    BY DEF Sound, Walking, Live, Inside, FramesEnclose, Entered
  <1> QED
    BY <1>1, Invariance, PTL

(* The trace stays within the budget over every park and resume.             *)
THEOREM TraceIsBounded == Spec => []TraceWithinBudget
  <1>1. Budget => TraceWithinBudget
    BY DEF Budget, TraceWithinBudget
  <1> QED
    BY <1>1, Invariance, PTL

-----------------------------------------------------------------------------
(* A loop is entered from the bodies of all that are live: frames nest.      *)
Nested == \A i, j \in 1..Len(frames) : i < j => frames[j].loop \in Body(edges, frames[i].loop)

LEMMA FramesOfAStep ==
  ASSUME [Next]_vars
  PROVE  /\ edges' = edges
         /\ \/ frames' \in {frames, Popped(frames), [frames EXCEPT ![Len(frames)].index = NextIndex]}
            \/ /\ phase = "running" /\ at \notin Entered
               /\ \E count \in 0..MaxItems :
                     frames' = Append(frames, [loop |-> at, index |-> 0, total |-> count])
  <1>1. \A why : Fail(why) => UNCHANGED <<edges, frames>>
    BY DEF Fail
  <1>2. \A h, fs : Spend /\ Follow(h, fs) => edges' = edges /\ frames' = fs
    BY DEF Spend, Follow
  <1>3. \A h, fs : FollowLoop(h, fs) => edges' = edges /\ frames' \in {frames, fs}
    BY <1>1, <1>2 DEF FollowLoop
  <1>4. OutOfBudget => UNCHANGED <<edges, frames>>
    BY <1>1 DEF OutOfBudget
  <1>5. CASE VisitLinear \/ VisitDecision
    BY <1>1, <1>2, <1>4, <1>5 DEF VisitLinear, VisitDecision, AdvanceLinear, AdvanceDecision
  <1>6. CASE ReturnToLoop
    BY <1>1, <1>3, <1>4, <1>6 DEF ReturnToLoop, AdvanceReturn
  <1>7. ASSUME NEW count \in 0..MaxItems, EnterLoop(count)
        PROVE  /\ edges' = edges
               /\ frames' = frames \/ (/\ phase = "running" /\ at \notin Entered
                     /\ frames' = Append(frames, [loop |-> at, index |-> 0, total |-> count]))
    BY <1>1, <1>3, <1>4, <1>7 DEF EnterLoop, AdvanceEntry
  <1>8. CASE Park \/ Resume \/ UNCHANGED vars
    BY <1>8 DEF Park, Resume, vars
  <1> QED
    BY <1>5, <1>6, <1>7, <1>8 DEF Next

LEMMA NextNested == Walking /\ Nested /\ [Next]_vars => Nested'
  <1> SUFFICES ASSUME Walking, Nested, [Next]_vars PROVE Nested'
    OBVIOUS
  <1> DEFINE n == Len(frames)
  <1>1. frames \in Seq(Frame) /\ n \in Nat
    BY DEF Walking, Types
  <1>2. edges' = edges
    BY FramesOfAStep
  <1>3. CASE frames' = frames
    BY <1>2, <1>3 DEF Nested
  <1>4. CASE frames' = Popped(frames)
    <2>1. CASE n = 0
      <3>1. Len(frames') = 0
        BY <1>1, <1>4, <2>1 DEF Popped
      <3> QED
        BY <3>1 DEF Nested
    <2>2. CASE n > 0
      <3>1. frames' = [i \in 1..(n - 1) |-> frames[i]] /\ n - 1 \in Nat
        BY <1>1, <1>4, <2>2 DEF Popped
      <3>2. Len(frames') = n - 1 /\ \A i \in 1..(n - 1) : i \in 1..n /\ frames'[i] = frames[i]
        BY <1>1, <3>1
      <3> QED
        BY <1>2, <3>2 DEF Nested
    <2> QED
      BY <1>1, <2>1, <2>2
  <1>5. CASE frames' = [frames EXCEPT ![n].index = NextIndex]
    <2>1. \A i \in 1..n : frames[i] \in Frame
      BY <1>1
    <2>2. Len(frames') = n /\ \A i \in 1..n : frames'[i].loop = frames[i].loop
      BY <1>1, <1>5, <2>1 DEF Frame
    <2> QED
      BY <1>2, <2>2 DEF Nested
  <1>6. ASSUME NEW count \in 0..MaxItems, phase = "running", at \notin Entered,
               frames' = Append(frames, [loop |-> at, index |-> 0, total |-> count])
        PROVE  Nested'
    <2> DEFINE new == [loop |-> at, index |-> 0, total |-> count]
    <2>1. new.loop = at
      OBVIOUS
    <2> HIDE DEF new
    <2>2. /\ Len(frames') = n + 1 /\ frames'[n + 1] = new
          /\ \A i \in 1..n : frames'[i] = frames[i]
      BY <1>1, <1>6 DEF new
    <2>3. \A i \in 1..n : at \in Body(edges, frames[i].loop)
      BY <1>6 DEF Walking, Live, Inside, Entered
    <2>4. ASSUME NEW i \in 1..(n + 1), NEW j \in 1..(n + 1), i < j
          PROVE  frames'[j].loop \in Body(edges, frames'[i].loop)
      <3>1. i \in 1..n
        BY <1>1, <2>4
      <3>2. CASE j = n + 1
        BY <2>1, <2>2, <2>3, <3>1, <3>2
      <3>3. CASE j \in 1..n
        BY <2>2, <2>4, <3>1, <3>3 DEF Nested
      <3> QED
        BY <1>1, <3>2, <3>3
    <2> QED
      BY <1>2, <2>2, <2>4 DEF Nested
  <1> QED
    BY <1>3, <1>4, <1>5, <1>6, FramesOfAStep

(* A live loop that is not the innermost one lies in the body of an inner    *)
(* one, which lies in its own: a structured graph has no two such loops.     *)
NotReentered == Structured(edges) => phase # "re-entered"

LEMMA StructuredIsNotReentered ==
  ASSUME Walking, Nested, phase = "running", Kind[at] = "loop", ~IsReturn, at \in Entered
  PROVE  ~Structured(edges)
  <1> DEFINE n == Len(frames)
  <1>1. frames \in Seq(Frame) /\ n \in Nat
    BY DEF Walking, Types
  <1>2. PICK i \in 1..n : frames[i].loop = at
    BY DEF Entered
  <1>3. n \in 1..n /\ frames[n].loop # at
    BY <1>1, <1>2 DEF IsReturn, Top
  <1>4. i < n
    BY <1>1, <1>2, <1>3
  <1>5. frames[n].loop \in Body(edges, at)
    BY <1>2, <1>3, <1>4 DEF Nested
  <1>6. at \in Body(edges, frames[n].loop)
    BY <1>3 DEF Walking, Live, Inside
  <1>7. frames[n].loop \in OfKind("loop") /\ at \in OfKind("loop")
    BY <1>1, <1>3, FramesAre DEF OfKind, Walking, Types
  <1> QED
    BY <1>5, <1>6, <1>7 DEF Structured

LEMMA NextNotReentered == Walking /\ Nested /\ NotReentered /\ [Next]_vars => NotReentered'
  <1> SUFFICES ASSUME Walking, Nested, NotReentered, [Next]_vars, Structured(edges), phase' = "re-entered"
               PROVE  FALSE
    BY FramesOfAStep DEF NotReentered
  <1>1. \A h, fs : Spend /\ Follow(h, fs) => phase' # "re-entered"
    BY DEF Follow
  <1>2. \A h, fs : FollowLoop(h, fs) => phase' # "re-entered"
    BY <1>1 DEF FollowLoop, Fail
  <1>3. ~(VisitLinear \/ VisitDecision)
    BY <1>1 DEF VisitLinear, VisitDecision, AdvanceLinear, AdvanceDecision, OutOfBudget, Fail
  <1>4. ~ReturnToLoop
    BY <1>2 DEF ReturnToLoop, AdvanceReturn, OutOfBudget, Fail
  <1>5. ~(Park \/ Resume \/ UNCHANGED vars)
    BY DEF Park, Resume, vars, NotReentered
  <1>6. ASSUME NEW count, EnterLoop(count) PROVE FALSE
    <2>1. at \in Entered
      BY <1>2, <1>6 DEF EnterLoop, AdvanceEntry, OutOfBudget, Fail
    <2> QED
      BY <1>6, <2>1, StructuredIsNotReentered DEF EnterLoop
  <1> QED
    BY <1>3, <1>4, <1>5, <1>6 DEF Next

(* In a structured graph no loop is re-entered while an inner one is live.   *)
THEOREM FramesNest == Spec => []StructuredNeverReenters
  <1>1. Init => Nested /\ NotReentered
    BY DEF Init, Nested, NotReentered
  <1>2. Sound /\ Nested /\ NotReentered /\ [Next]_vars => (Nested /\ NotReentered)'
    BY NextNested, NextNotReentered DEF Sound
  <1>3. NotReentered => StructuredNeverReenters
    BY DEF NotReentered, StructuredNeverReenters
  <1> QED
    BY <1>1, <1>2, <1>3, Invariance, PTL DEF Spec

-----------------------------------------------------------------------------
(* The schedules.                                                            *)
FireOf(f, i) == [flow |-> f, cause |-> i]

FireTypes ==
    /\ scheduler \in [Flows -> Patterns \cup {Unscheduled}]
    /\ once \in [Flows \X Instants -> {"absent", "delayed", "kept"}]
    /\ fires \in [Flows \X Instants -> Nat]
    /\ crashes \in Nat

(* A 'once' job is delivered from the queue only once it is kept there, and  *)
(* each delivery that stays due after it fired was a crash.                  *)
CountedAt(f, i) ==
    /\ FireOf(f, i) \in due => once[<<f, i>>] = "kept" /\ fires[<<f, i>>] <= crashes
    /\ once[<<f, i>>] # "kept" => fires[<<f, i>>] = 0
    /\ fires[<<f, i>>] <= 1 + crashes
FiresCounted == \A f \in Flows, i \in Instants : CountedAt(f, i)

Delivered == FireTypes /\ FiresCounted

LEMMA InitDelivered == ScheduleInit => Delivered
  <1> SUFFICES ASSUME ScheduleInit PROVE Delivered
    OBVIOUS
  <1>1. FireTypes
    BY DEF ScheduleInit, FireTypes
  <1>2. ASSUME NEW f \in Flows, NEW i \in Instants
        PROVE  once[<<f, i>>] = "absent" /\ fires[<<f, i>>] = 0
    <2>1. <<f, i>> \in Flows \X Instants
      OBVIOUS
    <2> QED
      BY <2>1 DEF ScheduleInit
  <1>3. due = {} /\ crashes = 0
    BY DEF ScheduleInit
  <1>4. FiresCounted
    <2> SUFFICES ASSUME NEW f \in Flows, NEW i \in Instants PROVE CountedAt(f, i)
      BY DEF FiresCounted
    <2> QED
      BY <1>2, <1>3 DEF CountedAt
  <1> QED
    BY <1>1, <1>4 DEF Delivered

LEMMA SyncDelivers ==
  ASSUME Delivered, NEW f \in Flows, NEW t \in Triggers, Sync(f, t), UNCHANGED <<due, fires, crashes>>
  PROVE  Delivered'
  <1>1. scheduler' \in [Flows -> Patterns \cup {Unscheduled}]
    BY DEF Sync, Delivered, FireTypes
  <1>2. \/ once' = once
        \/ t \in Instants /\ once[<<f, t>>] = "absent" /\ once' = [once EXCEPT ![<<f, t>>] = "delayed"]
    BY DEF Sync, OnceJob, OnceJobFresh
  <1>3. once' \in [Flows \X Instants -> {"absent", "delayed", "kept"}]
    BY <1>2 DEF Delivered, FireTypes
  <1>4. \A g \in Flows, i \in Instants : (once'[<<g, i>>] = "kept") <=> (once[<<g, i>>] = "kept")
    BY <1>2 DEF Delivered, FireTypes
  <1> QED
    BY <1>1, <1>3, <1>4 DEF Delivered, FireTypes, FiresCounted, CountedAt

(* A fire counts only for the instant of its job.                            *)
LEMMA RunsCreated ==
  ASSUME Delivered, NEW j \in Jobs, CreateRuns(j)
  PROVE  /\ fires' \in [Flows \X Instants -> Nat]
         /\ \A f \in Flows, i \in Instants :
               \/ fires'[<<f, i>>] = fires[<<f, i>>]
               \/ j = FireOf(f, i) /\ fires'[<<f, i>>] = fires[<<f, i>>] + 1
  <1>1. j.flow \in Flows /\ j = [flow |-> j.flow, cause |-> j.cause]
    BY DEF Jobs
  <1>2. CASE fires' = fires
    BY <1>2 DEF Delivered, FireTypes
  <1>3. CASE j.cause \in Instants /\ fires' = [fires EXCEPT ![<<j.flow, j.cause>>] = @ + 1]
    <2>1. <<j.flow, j.cause>> \in Flows \X Instants
      BY <1>1, <1>3
    <2> QED
      BY <1>1, <1>3, <2>1 DEF Delivered, FireTypes, FireOf
  <1> QED
    BY <1>2, <1>3 DEF CreateRuns

LEMMA NextDelivered == Delivered /\ [ScheduleNext]_scheduleVars => Delivered'
  <1> SUFFICES ASSUME Delivered, [ScheduleNext]_scheduleVars PROVE Delivered'
    OBVIOUS
  <1> USE DEF Delivered
  <1>1. CASE UNCHANGED <<scheduler, once, due, fires, crashes>>
    BY <1>1 DEF FireTypes, FiresCounted, CountedAt
  <1>2. ASSUME NEW f \in Flows, SchedulerTick(f) PROVE Delivered'
    <2>1. scheduler[f] \in Patterns
      BY <1>2 DEF SchedulerTick, FireTypes
    <2>2. \A g \in Flows, i \in Instants : FireOf(g, i) \in due' => FireOf(g, i) \in due
      BY <1>2, <2>1, PatternAssumption DEF SchedulerTick, FireOf, Instants
    <2>3. UNCHANGED <<scheduler, once, fires, crashes>>
      BY <1>2 DEF SchedulerTick
    <2> QED
      BY <2>2, <2>3 DEF FireTypes, FiresCounted, CountedAt
  <1>3. ASSUME NEW h \in Row, RunHook(h) PROVE Delivered'
    BY <1>3, SyncDelivers DEF RunHook, Row
  <1>4. ASSUME NEW row \in Row, ReconcileSync(row) PROVE Delivered'
    BY <1>4, SyncDelivers DEF ReconcileSync, Row
  <1>5. ASSUME NEW f \in Flows, ReconcilePrune(f) PROVE Delivered'
    BY <1>5 DEF ReconcilePrune, FireTypes, FiresCounted, CountedAt
  <1>6. ASSUME NEW f \in Flows, NEW i \in Instants, OnceDue(f, i) PROVE Delivered'
    <2>1. /\ once[<<f, i>>] = "delayed" /\ once' = [once EXCEPT ![<<f, i>>] = "kept"]
          /\ due' = due \cup {FireOf(f, i)} /\ UNCHANGED <<scheduler, fires, crashes>>
      BY <1>6 DEF OnceDue, FireOf
    <2>2. FireTypes'
      BY <2>1 DEF FireTypes
    <2>3. once'[<<f, i>>] = "kept" /\ fires[<<f, i>>] = 0
      BY <2>1 DEF FireTypes, FiresCounted, CountedAt
    <2>4. \A g \in Flows, k \in Instants :
             g # f \/ k # i => /\ once'[<<g, k>>] = once[<<g, k>>]
                               /\ FireOf(g, k) \in due' => FireOf(g, k) \in due
      BY <2>1 DEF FireTypes, FireOf
    <2>5. ASSUME NEW g \in Flows, NEW k \in Instants PROVE CountedAt(g, k)'
      <3>1. CountedAt(g, k) /\ crashes \in Nat
        BY DEF FireTypes, FiresCounted
      <3>2. CASE g = f /\ k = i
        BY <2>1, <2>3, <3>1, <3>2 DEF CountedAt
      <3>3. CASE g # f \/ k # i
        BY <2>1, <2>4, <3>1, <3>3 DEF CountedAt
      <3> QED
        BY <3>2, <3>3
    <2> QED
      BY <2>2, <2>5 DEF FiresCounted
  <1>7. ASSUME NEW j \in Jobs, Fire(j) PROVE Delivered'
    <2>1. j \in due /\ due' = due \ {j} /\ CreateRuns(j) /\ UNCHANGED <<scheduler, once, crashes>>
      BY <1>7 DEF Fire
    <2>2. FireTypes'
      BY <2>1, RunsCreated DEF FireTypes
    <2>3. ASSUME NEW f \in Flows, NEW i \in Instants
          PROVE  CountedAt(f, i)'
      <3>1. fires[<<f, i>>] \in Nat /\ crashes \in Nat
        BY DEF FireTypes
      <3>2. CASE fires'[<<f, i>>] = fires[<<f, i>>]
        BY <2>1, <3>1, <3>2 DEF FiresCounted, CountedAt
      <3>3. CASE j = FireOf(f, i) /\ fires'[<<f, i>>] = fires[<<f, i>>] + 1
        BY <2>1, <3>1, <3>3 DEF FiresCounted, CountedAt
      <3> QED
        BY <2>1, <3>2, <3>3, RunsCreated
    <2> QED
      BY <2>2, <2>3 DEF FiresCounted
  <1>8. ASSUME NEW j \in Jobs, FireAndCrash(j) PROVE Delivered'
    <2>1. j \in due /\ CreateRuns(j) /\ crashes' = crashes + 1 /\ UNCHANGED <<scheduler, once, due>>
      BY <1>8 DEF FireAndCrash, queueVars
    <2>2. FireTypes'
      BY <2>1, RunsCreated DEF FireTypes
    <2>3. ASSUME NEW f \in Flows, NEW i \in Instants
          PROVE  CountedAt(f, i)'
      <3>1. fires[<<f, i>>] \in Nat /\ crashes \in Nat
        BY DEF FireTypes
      <3>2. CASE fires'[<<f, i>>] = fires[<<f, i>>]
        BY <2>1, <3>1, <3>2 DEF FiresCounted, CountedAt
      <3>3. CASE j = FireOf(f, i) /\ fires'[<<f, i>>] = fires[<<f, i>>] + 1
        BY <2>1, <3>1, <3>3 DEF FiresCounted, CountedAt
      <3> QED
        BY <2>1, <3>2, <3>3, RunsCreated
    <2> QED
      BY <2>2, <2>3 DEF FiresCounted
  <1> QED
    BY <1>1, <1>2, <1>3, <1>4, <1>5, <1>6, <1>7, <1>8
    DEF ScheduleNext, scheduleVars, queueVars, rowVars, Reconcile, Request, Activate, Pause, Remove,
        LoseHook, ReconcileRead, ReconcileList, ReconcileDone, ClockTick

(* An instant fires once, and once more for each crash after a fire.         *)
THEOREM InstantsFireOnce == ScheduleSpec => []OncePerDelivery
  <1>1. Delivered => OncePerDelivery
    BY DEF Delivered, FiresCounted, CountedAt, OncePerDelivery
  <1> QED
    BY <1>1, InitDelivered, NextDelivered, PTL DEF ScheduleSpec
=============================================================================
