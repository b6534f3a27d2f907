------------------------- MODULE RecordWrites_proofs -------------------------
(***************************************************************************)
(* For every set of rows and requests and all bounds: no two open          *)
(* transactions hold the same row; a transaction counts its own write in   *)
(* the parents it recomputes; and when requests follow each other, one     *)
(* captures what it changes, and parents are what their children add up to.*)
(***************************************************************************)
EXTENDS RecordWrites, SequenceTheorems, TLAPS

(* A row of x's object, which references a row of the object above.          *)
RowOf(x, r) ==
    /\ DOMAIN r = {"alive", "ref", "edit", "total"}
    /\ r.alive \in BOOLEAN /\ r.ref \in Parents(x) \cup {NoRow} /\ r.edit \in 0..MaxWrites

Fields == {"pc", "kind", "target", "before", "after", "todo", "row", "sum", "own"}

(* A transaction that is idle is new, one that is to write has done nothing, *)
(* and one that recomputes a row holds a row of that object.                 *)
TxnOk(t) ==
    /\ DOMAIN t = Fields
    /\ t.pc \in {"idle", "write", "read", "aggregate", "persist"}
    /\ t.pc = "idle" => t = Idle
    /\ t.pc # "idle" => t.target \in Rows
    /\ t.pc = "write" => t.own = <<>> /\ t.todo = <<>> /\ t.kind \in {"create", "update", "remove"}
    /\ t.todo \in Seq(Middles \cup Roots)
    /\ t.pc \in {"aggregate", "persist"} => t.todo # <<>> /\ RowOf(Head(t.todo), t.row)
    /\ RowOf(t.target, t.before) /\ RowOf(t.target, t.after)
    /\ DOMAIN t.own \subseteq Rows /\ \A x \in DOMAIN t.own : RowOf(x, t.own[x])
    /\ t.kind = "remove" => t.target \in Leaves /\ t.after = Absent
    /\ t.kind = "create" => t.target \in Leaves

Types ==
    /\ table = [x \in Rows |-> table[x]] /\ \A x \in Rows : RowOf(x, table[x])
    /\ txn = [q \in Requests |-> txn[q]] /\ \A q \in Requests : TxnOk(txn[q])
    /\ outbox \subseteq Rows /\ serial \in BOOLEAN /\ writes \in Nat /\ throws \in Nat

LEMMA ParentsAre ==
    /\ \A x \in Leaves : Parents(x) = Middles
    /\ \A x \in Middles : Parents(x) = Roots
    /\ \A x : x \notin Leaves \cup Middles => Parents(x) = {}
  BY ObjectsAssumption DEF Parents

LEMMA AbsentIsRow == \A x : RowOf(x, Absent)
  BY BoundAssumption DEF RowOf, Absent, Row

LEMMA IdleIs ==
    /\ DOMAIN Idle = Fields /\ Idle.pc = "idle" /\ Idle.kind = "update" /\ Idle.target = NoRow
    /\ Idle.before = Absent /\ Idle.after = Absent /\ Idle.todo = <<>> /\ Idle.row = Absent
    /\ Idle.sum = {} /\ Idle.own = <<>>
  BY DEF Idle, Fields

LEMMA IdleOk == TxnOk(Idle)
  BY IdleIs, AbsentIsRow DEF TxnOk

LEMMA BecomesOk ==
    ASSUME Types, NEW q \in Requests, NEW t, TxnOk(t), txn' = [txn EXCEPT ![q] = t],
           table' = [x \in Rows |-> table'[x]], \A x \in Rows : RowOf(x, table'[x]),
           outbox' \subseteq Rows, serial' \in BOOLEAN, writes' \in Nat, throws' \in Nat
    PROVE  Types'
  <1>1. txn' = [r \in Requests |-> txn'[r]] /\ \A r \in Requests : TxnOk(txn'[r])
    BY DEF Types
  <1>2. Types' <=> /\ table' = [x \in Rows |-> table'[x]] /\ \A x \in Rows : RowOf(x, table'[x])
                   /\ txn' = [r \in Requests |-> txn'[r]] /\ \A r \in Requests : TxnOk(txn'[r])
                   /\ outbox' \subseteq Rows /\ serial' \in BOOLEAN /\ writes' \in Nat /\ throws' \in Nat
    BY DEF Types
  <1> QED BY <1>1, <1>2

(* What a request sees are rows.                                             *)
LEMMA VisibleIsRow ==
    ASSUME Types, NEW q \in Requests, NEW x \in Rows
    PROVE  RowOf(x, Visible(q, x))
  BY DEF Types, TxnOk, Visible

-----------------------------------------------------------------------------
(* What each statement makes of its transaction.                             *)
AfterWrite(q) ==
    LET x == txn[q].target
    IN  [txn[q] EXCEPT !.pc = "read", !.todo = ToRecompute(q),
             !.own = IF txn[q].kind = "update" /\ ~table[x].alive THEN txn[q].own
                     ELSE Owning(q, x, Written(q))]
AfterRead(q) ==
    LET p == Head(txn[q].todo)
    IN  IF Visible(q, p).alive THEN [txn[q] EXCEPT !.pc = "aggregate", !.row = Visible(q, p)]
        ELSE [txn[q] EXCEPT !.todo = Tail(txn[q].todo)]
AfterAggregate(q) == [txn[q] EXCEPT !.pc = "persist", !.sum = Aggregated(q)]
AfterPersist(q) ==
    LET p == Head(txn[q].todo)
    IN  [txn[q] EXCEPT !.pc = "read", !.todo = Tail(txn[q].todo),
             !.own = IF Visible(q, p).alive
                     THEN Owning(q, p, [txn[q].row EXCEPT !.total = txn[q].sum]) ELSE txn[q].own]

LEMMA StatementsAre ==
    ASSUME Types, NEW q \in Requests
    PROVE  /\ Write(q) => txn' = [txn EXCEPT ![q] = AfterWrite(q)]
           /\ Read(q) => txn' = [txn EXCEPT ![q] = AfterRead(q)]
           /\ Aggregate(q) => txn' = [txn EXCEPT ![q] = AfterAggregate(q)]
           /\ Persist(q) => txn' = [txn EXCEPT ![q] = AfterPersist(q)]
  <1>1. TxnOk(txn[q])
    BY DEF Types
  <1>2. Write(q) => txn' = [txn EXCEPT ![q] = AfterWrite(q)]
    BY <1>1 DEF Types, TxnOk, Fields, Write, AfterWrite
  <1>3. Read(q) => txn' = [txn EXCEPT ![q] = AfterRead(q)]
    BY <1>1 DEF Types, TxnOk, Fields, Read, AfterRead
  <1>4. Aggregate(q) => txn' = [txn EXCEPT ![q] = AfterAggregate(q)]
    BY <1>1 DEF Types, TxnOk, Fields, Aggregate, AfterAggregate
  <1>5. Persist(q) => txn' = [txn EXCEPT ![q] = AfterPersist(q)]
    BY <1>1 DEF Types, TxnOk, Fields, Persist, AfterPersist
  <1> QED BY <1>2, <1>3, <1>4, <1>5

Begun(kind, x, after) ==
    [Idle EXCEPT !.pc = "write", !.kind = kind, !.target = x, !.before = table[x], !.after = after]
Recomputing(x) ==
    [Idle EXCEPT !.pc = "read", !.kind = "recompute", !.target = x, !.todo = <<x>>]

(* The fields of a transaction that begins, and after each statement.        *)
LEMMA BegunIs ==
    ASSUME NEW x, NEW kind, NEW after
    PROVE  LET t == Begun(kind, x, after) IN
           /\ t.pc = "write" /\ t.kind = kind /\ t.target = x /\ t.before = table[x] /\ t.after = after
           /\ t.todo = <<>> /\ t.row = Absent /\ t.sum = {} /\ t.own = <<>> /\ DOMAIN t = Fields
  BY IdleIs DEF Begun, Fields

LEMMA RecomputingIs ==
    ASSUME NEW x
    PROVE  LET t == Recomputing(x) IN
           /\ t.pc = "read" /\ t.kind = "recompute" /\ t.target = x /\ t.before = Absent /\ t.after = Absent
           /\ t.todo = <<x>> /\ t.row = Absent /\ t.sum = {} /\ t.own = <<>> /\ DOMAIN t = Fields
  BY IdleIs DEF Recomputing, Fields

Continues(t, u) ==
    DOMAIN u = Fields /\ u.kind = t.kind /\ u.target = t.target /\ u.before = t.before /\ u.after = t.after

LEMMA AfterWriteIs ==
    ASSUME Types, NEW q \in Requests
    PROVE  LET t == txn[q]
               u == AfterWrite(q)
           IN  /\ Continues(t, u) /\ u.pc = "read" /\ u.todo = ToRecompute(q)
               /\ u.own = IF t.kind = "update" /\ ~table[t.target].alive THEN t.own
                          ELSE Owning(q, t.target, Written(q))
  <1>1. TxnOk(txn[q])
    BY DEF Types
  <1> QED BY <1>1 DEF AfterWrite, TxnOk, Fields, Continues

LEMMA AfterReadIs ==
    ASSUME Types, NEW q \in Requests
    PROVE  LET t == txn[q]
               u == AfterRead(q)
               p == Head(t.todo)
           IN  /\ Continues(t, u) /\ u.own = t.own /\ u.sum = t.sum
               /\ \/ u.pc = "aggregate" /\ u.row = Visible(q, p) /\ u.todo = t.todo
                  \/ u.pc = t.pc /\ u.row = t.row /\ u.todo = Tail(t.todo) /\ ~Visible(q, p).alive
  <1>1. TxnOk(txn[q])
    BY DEF Types
  <1> QED BY <1>1 DEF AfterRead, TxnOk, Fields, Continues

LEMMA AfterAggregateIs ==
    ASSUME Types, NEW q \in Requests
    PROVE  LET t == txn[q]
               u == AfterAggregate(q)
           IN  /\ Continues(t, u) /\ u.own = t.own /\ u.pc = "persist" /\ u.row = t.row /\ u.todo = t.todo
               /\ u.sum = Contributions(Head(t.todo), VisibleRows(q))
  <1>1. TxnOk(txn[q])
    BY DEF Types
  <1> QED BY <1>1 DEF AfterAggregate, Aggregated, TxnOk, Fields, Continues

Persisted(q) == [txn[q].row EXCEPT !.total = txn[q].sum]

LEMMA AfterPersistIs ==
    ASSUME Types, NEW q \in Requests
    PROVE  LET t == txn[q]
               u == AfterPersist(q)
               p == Head(t.todo)
           IN  /\ Continues(t, u) /\ u.pc = "read" /\ u.todo = Tail(t.todo)
               /\ u.own = IF Visible(q, p).alive THEN Owning(q, p, Persisted(q)) ELSE t.own
  <1>1. TxnOk(txn[q])
    BY DEF Types
  <1> QED BY <1>1 DEF AfterPersist, Persisted, TxnOk, Fields, Continues

(* A request that begins is to write a row of its object.                    *)
LEMMA RequestsAre ==
    ASSUME Types, NEW q \in Requests, NEW x \in Rows, NEW ref,
           Create(q, x, ref) \/ Move(q, x, ref) \/ Edit(q, x) \/ Remove(q, x)
    PROVE  \E kind \in {"create", "update", "remove"} : \E after :
              /\ Begin(q, kind, x, after)
              /\ RowOf(x, after)
              /\ kind = "remove" => x \in Leaves /\ after = Absent
              /\ kind = "create" => x \in Leaves
  <1>1. RowOf(x, table[x])
    BY DEF Types
  <1>a. writes + 1 \in 0..MaxWrites
    BY BoundAssumption DEF Types, Create, Move, Edit, Remove, Begin, Open
  <1>2. CASE Create(q, x, ref)
    <2>1. Begin(q, "create", x, Row(TRUE, ref, writes + 1, {})) /\ x \in Leaves
      BY <1>2 DEF Create
    <2>2. RowOf(x, Row(TRUE, ref, writes + 1, {}))
      BY <1>2, <1>a, ParentsAre DEF Create, RowOf, Row
    <2> QED BY <2>1, <2>2
  <1>3. CASE Move(q, x, ref)
    <2>1. Begin(q, "update", x, [table[x] EXCEPT !.ref = ref])
      BY <1>3 DEF Move
    <2>2. RowOf(x, [table[x] EXCEPT !.ref = ref])
      <3>1. ref \in Parents(x)
        BY <1>3 DEF Move
      <3> QED BY <1>1, <3>1 DEF RowOf
    <2> QED BY <2>1, <2>2
  <1>4. CASE Edit(q, x)
    <2>1. Begin(q, "update", x, [table[x] EXCEPT !.edit = writes + 1])
      BY <1>4 DEF Edit
    <2>2. RowOf(x, [table[x] EXCEPT !.edit = writes + 1])
      BY <1>1, <1>a DEF RowOf
    <2> QED BY <2>1, <2>2
  <1>5. CASE Remove(q, x)
    BY <1>5, AbsentIsRow DEF Remove
  <1> QED BY <1>2, <1>3, <1>4, <1>5

LEMMA BegunOk ==
    ASSUME Types, NEW x \in Rows, NEW kind \in {"create", "update", "remove"}, NEW after,
           RowOf(x, after), kind = "remove" => x \in Leaves /\ after = Absent,
           kind = "create" => x \in Leaves
    PROVE  TxnOk(Begun(kind, x, after))
  <1>1. RowOf(x, table[x])
    BY DEF Types
  <1> DEFINE t == Begun(kind, x, after)
  <1>2. /\ t.pc = "write" /\ t.kind = kind /\ t.target = x /\ t.before = table[x] /\ t.after = after
        /\ t.todo = <<>> /\ t.row = Absent /\ t.sum = {} /\ t.own = <<>> /\ DOMAIN t = Fields
    BY BegunIs
  <1> HIDE DEF t
  <1>3. TxnOk(t)
    BY <1>1, <1>2 DEF TxnOk
  <1> QED BY <1>3 DEF t

LEMMA RecomputingOk ==
    ASSUME NEW x \in Middles \cup Roots
    PROVE  TxnOk(Recomputing(x))
  <1> DEFINE t == Recomputing(x)
  <1>1. /\ t.pc = "read" /\ t.kind = "recompute" /\ t.target = x /\ t.before = Absent /\ t.after = Absent
        /\ t.todo = <<x>> /\ t.row = Absent /\ t.sum = {} /\ t.own = <<>> /\ DOMAIN t = Fields
    BY RecomputingIs
  <1>2. x \in Rows /\ <<x>> \in Seq(Middles \cup Roots)
    BY DEF Rows
  <1> HIDE DEF t
  <1>3. TxnOk(t)
    BY <1>1, <1>2, AbsentIsRow DEF TxnOk
  <1> QED BY <1>3 DEF t

Among(m, s) == \E i \in 1..Len(s) : s[i] = m

(* What a request recomputes are rows that roll up others.                   *)
LEMMA ToRecomputeIs ==
    ASSUME Types, NEW q \in Requests, txn[q].pc = "write"
    PROVE  /\ ToRecompute(q) \in Seq(Middles \cup Roots)
           /\ \A m \in {txn[q].before.ref, txn[q].after.ref} \ {NoRow} :
                 Among(m, ToRecompute(q))
           /\ txn[q].target \in Middles => Among(txn[q].target, ToRecompute(q))
  <1> DEFINE x == txn[q].target
             b == txn[q].before.ref
             a == txn[q].after.ref
             R == Middles \cup Roots
             first == IF x \in Leaves \/ txn[q].kind = "remove" THEN <<>> ELSE <<x>>
  <1>1. x \in Rows /\ b \in R \cup {NoRow} /\ a \in R \cup {NoRow}
    <2>1. TxnOk(txn[q])
      BY DEF Types
    <2> QED BY <2>1, ParentsAre DEF TxnOk, RowOf, Rows
  <1>2. x \notin Leaves => x \in R
    BY <1>1 DEF Rows
  <1>3. txn[q].kind = "remove" => x \in Leaves
    BY DEF Types, TxnOk
  <1>4. ToRecompute(q) = first \o (Refreshed(b) \o Refreshed(a))
    BY DEF ToRecompute, RefreshedBoth
  <1> HIDE DEF x, a, b
  <1>5. /\ first \in Seq(R)
        /\ x \notin Leaves => first = <<x>>
    <2>1. x \in Leaves => first = <<>>
      OBVIOUS
    <2>2. x \notin Leaves => first = <<x>>
      BY <1>3 DEF x
    <2>3. x \in R => <<x>> \in Seq(R)
      OBVIOUS
    <2>4. <<>> \in Seq(R)
      OBVIOUS
    <2> HIDE DEF first, R
    <2> QED BY <1>2, <2>1, <2>2, <2>3, <2>4
  <1>6. /\ Refreshed(a) \in Seq(R) /\ Refreshed(b) \in Seq(R)
        /\ a # NoRow => Refreshed(a) = <<a>>
        /\ b # NoRow => Refreshed(b) = <<b>>
    BY <1>1 DEF Refreshed
  <1> HIDE DEF first, R
  <1>7. ASSUME NEW t \in Seq(R), NEW u \in Seq(R), NEW y, t = <<y>> \/ u = <<y>> \/ Among(y, t) \/ Among(y, u)
        PROVE  t \o u \in Seq(R) /\ Among(y, t \o u)
    <2>1. t \o u \in Seq(R) /\ Len(t \o u) = Len(t) + Len(u) /\ Len(t) \in Nat /\ Len(u) \in Nat
      OBVIOUS
    <2>2. /\ \A i \in 1..Len(t) : (t \o u)[i] = t[i] /\ i \in 1..Len(t \o u)
          /\ \A i \in 1..Len(u) : (t \o u)[i + Len(t)] = u[i] /\ i + Len(t) \in 1..Len(t \o u)
      BY <2>1, ConcatProperties
    <2>3. Among(y, t) \/ Among(y, u)
      <3>1. \A v : v = <<y>> => v[1] = y /\ 1 \in 1..Len(v)
        OBVIOUS
      <3> QED BY <1>7, <3>1 DEF Among
    <2> QED BY <2>1, <2>2, <2>3 DEF Among
  <1>a. \A t \in Seq(R), u \in Seq(R) : t \o u \in Seq(R)
    OBVIOUS
  <1>b. Refreshed(b) \o Refreshed(a) \in Seq(R)
    BY <1>6, <1>a
  <1>8. ToRecompute(q) \in Seq(R)
    BY <1>4, <1>5, <1>a, <1>b
  <1>9. x \notin Leaves => Among(x, ToRecompute(q))
    BY <1>4, <1>5, <1>7, <1>b
  <1>10. b # NoRow => Among(b, Refreshed(b) \o Refreshed(a)) /\ Among(b, ToRecompute(q))
    BY <1>4, <1>5, <1>6, <1>7, <1>b
  <1>11. a # NoRow => Among(a, Refreshed(b) \o Refreshed(a)) /\ Among(a, ToRecompute(q))
    BY <1>4, <1>5, <1>6, <1>7, <1>b
  <1> QED BY <1>8, <1>9, <1>10, <1>11, ObjectsAssumption DEF a, b, x, R

-----------------------------------------------------------------------------
(* A step, whatever the request: it begins, runs a statement or ends.        *)
Begins(q, kind, x, after) ==
    /\ Open(q)
    /\ txn' = [txn EXCEPT ![q] = Begun(kind, x, after)]
    /\ RowOf(x, after)
    /\ kind = "remove" => x \in Leaves /\ after = Absent
    /\ kind = "create" => x \in Leaves

Recomputes(q, x) == Open(q) /\ txn' = [txn EXCEPT ![q] = Recomputing(x)]

Runs(q, pc, t) ==
    /\ txn[q].pc = pc
    /\ txn' = [txn EXCEPT ![q] = t]
    /\ UNCHANGED <<table, outbox, serial, writes, throws>>

Steps(q) ==
    \/ \E x \in Rows, kind \in {"create", "update", "remove"} : \E after : Begins(q, kind, x, after)
    \/ \E x \in Middles \cup Roots : Recomputes(q, x)
    \/ Runs(q, "write", AfterWrite(q)) /\ Locks(q)
    \/ Runs(q, "read", AfterRead(q)) /\ txn[q].todo # <<>>
    \/ Runs(q, "aggregate", AfterAggregate(q))
    \/ Runs(q, "persist", AfterPersist(q)) /\ Locks(q)
    \/ Commit(q) \/ Throw(q) \/ DeadlockVictim(q)

LEMMA NextIsSteps ==
    ASSUME Types, Next
    PROVE  \E q \in Requests : Steps(q)
  <1>0. PICK q \in Requests :
          \/ \E x \in Rows, ref \in Rows \cup {NoRow} : Create(q, x, ref) \/ Move(q, x, ref)
          \/ \E x \in Rows : Edit(q, x) \/ Remove(q, x) \/ Recompute(q, x)
          \/ Write(q) \/ Read(q) \/ Aggregate(q) \/ Persist(q) \/ Commit(q)
          \/ Throw(q) \/ DeadlockVictim(q)
    BY DEF Next
  <1>1. ASSUME NEW x \in Rows, NEW ref, Create(q, x, ref) \/ Move(q, x, ref) \/ Edit(q, x) \/ Remove(q, x)
        PROVE  Steps(q)
    <2>0. PICK kind \in {"create", "update", "remove"} : \E after :
            /\ Begin(q, kind, x, after)
            /\ RowOf(x, after)
            /\ kind = "remove" => x \in Leaves /\ after = Absent
            /\ kind = "create" => x \in Leaves
      BY <1>1, RequestsAre
    <2>1. PICK after :
            /\ Begin(q, kind, x, after)
            /\ RowOf(x, after)
            /\ kind = "remove" => x \in Leaves /\ after = Absent
            /\ kind = "create" => x \in Leaves
      BY <2>0
    <2>2. Begins(q, kind, x, after)
      BY <2>1 DEF Begin, Begun, Begins
    <2> QED BY <2>2 DEF Steps
  <1>2. ASSUME NEW x \in Rows, Recompute(q, x) PROVE Steps(q)
    <2>1. x \in Middles \cup Roots /\ Recomputes(q, x)
      BY <1>2 DEF Recompute, Recomputes, Recomputing, Rows
    <2> QED BY <2>1 DEF Steps
  <1>3. ASSUME Write(q) \/ Read(q) \/ Aggregate(q) \/ Persist(q) PROVE Steps(q)
    <2>1. CASE Write(q)
      BY <2>1, StatementsAre DEF Write, Runs, Steps
    <2>2. CASE Read(q)
      BY <2>2, StatementsAre DEF Read, Runs, Steps
    <2>3. CASE Aggregate(q)
      BY <2>3, StatementsAre DEF Aggregate, Runs, Steps
    <2>4. CASE Persist(q)
      BY <2>4, StatementsAre DEF Persist, Runs, Steps
    <2> QED BY <1>3, <2>1, <2>2, <2>3, <2>4
  <1>4. Commit(q) \/ Throw(q) \/ DeadlockVictim(q) => Steps(q)
    BY DEF Steps
  <1> QED BY <1>0, <1>1, <1>2, <1>3, <1>4

-----------------------------------------------------------------------------
(* Every step leaves rows and transactions well formed.                      *)
LEMMA OwningOk ==
    ASSUME Types, NEW q \in Requests, NEW x \in Rows, NEW row, RowOf(x, row)
    PROVE  LET own == Owning(q, x, row) IN
           DOMAIN own \subseteq Rows /\ \A y \in DOMAIN own : RowOf(y, own[y])
  <1>1. TxnOk(txn[q])
    BY DEF Types
  <1> QED BY <1>1 DEF Owning, TxnOk

LEMMA WrittenIsRow ==
    ASSUME Types, NEW q \in Requests, txn[q].pc = "write"
    PROVE  RowOf(txn[q].target, Written(q))
  <1> DEFINE x == txn[q].target
             now == Visible(q, x)
             after == txn[q].after
  <1>1. x \in Rows /\ RowOf(x, after)
    BY DEF Types, TxnOk
  <1>2. RowOf(x, now)
    BY <1>1, VisibleIsRow
  <1>3. Written(q) = IF txn[q].kind = "update" THEN [now EXCEPT !.ref = after.ref, !.edit = after.edit]
                     ELSE after
    BY DEF Written
  <1> HIDE DEF x, now, after
  <1>4. RowOf(x, [now EXCEPT !.ref = after.ref, !.edit = after.edit])
    BY <1>1, <1>2 DEF RowOf
  <1> QED BY <1>1, <1>3, <1>4 DEF x

LEMMA AfterWriteOk ==
    ASSUME Types, NEW q \in Requests, txn[q].pc = "write"
    PROVE  TxnOk(AfterWrite(q))
  <1> DEFINE t == txn[q]
             u == AfterWrite(q)
  <1>1. TxnOk(t)
    BY DEF Types
  <1>2. /\ u.pc = "read" /\ u.todo = ToRecompute(q) /\ DOMAIN u = Fields
        /\ u.kind = t.kind /\ u.target = t.target /\ u.before = t.before /\ u.after = t.after
        /\ u.own = IF t.kind = "update" /\ ~table[t.target].alive THEN t.own
                   ELSE Owning(q, t.target, Written(q))
    BY AfterWriteIs DEF Continues
  <1>3. ToRecompute(q) \in Seq(Middles \cup Roots)
    BY ToRecomputeIs
  <1>4. DOMAIN u.own \subseteq Rows /\ \A x \in DOMAIN u.own : RowOf(x, u.own[x])
    <2>1. CASE t.kind = "update" /\ ~table[t.target].alive
      BY <1>1, <1>2, <2>1 DEF TxnOk
    <2>2. CASE ~(t.kind = "update" /\ ~table[t.target].alive)
      <3>1. RowOf(t.target, Written(q)) /\ t.target \in Rows
        BY <1>1, WrittenIsRow DEF TxnOk
      <3>2. u.own = Owning(q, t.target, Written(q))
        BY <1>2, <2>2
      <3> QED BY <3>1, <3>2, OwningOk
    <2> QED BY <2>1, <2>2
  <1> HIDE DEF u
  <1>5. TxnOk(u)
    BY <1>1, <1>2, <1>3, <1>4 DEF TxnOk
  <1> QED BY <1>5 DEF u

LEMMA AfterReadOk ==
    ASSUME Types, NEW q \in Requests, txn[q].pc = "read", txn[q].todo # <<>>
    PROVE  TxnOk(AfterRead(q))
  <1> DEFINE t == txn[q]
             u == AfterRead(q)
             p == Head(t.todo)
  <1>1. TxnOk(t)
    BY DEF Types
  <1>2. t.todo \in Seq(Middles \cup Roots)
    BY <1>1 DEF TxnOk
  <1>3. p \in Middles \cup Roots /\ Tail(t.todo) \in Seq(Middles \cup Roots)
    BY <1>2
  <1>4. RowOf(p, Visible(q, p))
    BY <1>3, VisibleIsRow DEF Rows
  <1>5. /\ DOMAIN u = Fields /\ u.kind = t.kind /\ u.target = t.target /\ u.before = t.before
        /\ u.after = t.after /\ u.own = t.own
        /\ \/ u.pc = "aggregate" /\ u.row = Visible(q, p) /\ u.todo = t.todo
           \/ u.pc = "read" /\ u.todo = Tail(t.todo)
    BY AfterReadIs DEF Continues
  <1> HIDE DEF u, p
  <1>6. TxnOk(u)
    <2>1. t.todo # <<>> /\ p = Head(t.todo)
      BY DEF p
    <2> QED BY <1>1, <1>3, <1>4, <1>5, <2>1 DEF TxnOk
  <1> QED BY <1>6 DEF u

LEMMA AfterAggregateOk ==
    ASSUME Types, NEW q \in Requests, txn[q].pc = "aggregate"
    PROVE  TxnOk(AfterAggregate(q))
  <1> DEFINE t == txn[q]
             u == AfterAggregate(q)
  <1>1. TxnOk(t)
    BY DEF Types
  <1>2. /\ DOMAIN u = Fields /\ u.kind = t.kind /\ u.target = t.target /\ u.before = t.before
        /\ u.after = t.after /\ u.own = t.own /\ u.pc = "persist" /\ u.row = t.row /\ u.todo = t.todo
        /\ u.sum = Aggregated(q)
    BY AfterAggregateIs DEF Continues, Aggregated
  <1> HIDE DEF u
  <1>3. TxnOk(u)
    BY <1>1, <1>2 DEF TxnOk
  <1> QED BY <1>3 DEF u

LEMMA AfterPersistOk ==
    ASSUME Types, NEW q \in Requests, txn[q].pc = "persist"
    PROVE  TxnOk(AfterPersist(q))
  <1> DEFINE t == txn[q]
             u == AfterPersist(q)
             p == Head(t.todo)
             row == [t.row EXCEPT !.total = t.sum]
  <1>1. TxnOk(t)
    BY DEF Types
  <1>2. t.todo \in Seq(Middles \cup Roots) /\ t.todo # <<>> /\ RowOf(p, t.row)
    BY <1>1 DEF TxnOk
  <1>3. p \in Rows /\ Tail(t.todo) \in Seq(Middles \cup Roots)
    BY <1>2 DEF Rows
  <1>4. /\ DOMAIN u = Fields /\ u.kind = t.kind /\ u.target = t.target /\ u.before = t.before
        /\ u.after = t.after /\ u.pc = "read" /\ u.todo = Tail(t.todo)
        /\ u.own = t.own \/ u.own = Owning(q, p, row)
    BY AfterPersistIs DEF Continues, Persisted
  <1>5. RowOf(p, row)
    BY <1>2 DEF RowOf
  <1> HIDE DEF u, p, row
  <1>6. DOMAIN u.own \subseteq Rows /\ \A x \in DOMAIN u.own : RowOf(x, u.own[x])
    BY <1>1, <1>3, <1>4, <1>5, OwningOk DEF TxnOk
  <1>7. TxnOk(u)
    BY <1>1, <1>3, <1>4, <1>6 DEF TxnOk
  <1> QED BY <1>7 DEF u

(* What a transaction publishes.                                             *)
LEMMA PublishedOk ==
    ASSUME Types, NEW q \in Requests
    PROVE  Published(q) = [x \in Rows |-> Published(q)[x]] /\ \A x \in Rows : RowOf(x, Published(q)[x])
  BY VisibleIsRow DEF Published

LEMMA InitTypes == Init => Types
  <1> SUFFICES ASSUME Init PROVE Types
    OBVIOUS
  <1>1. PICK alive \in SUBSET Leaves, mid \in [Leaves -> Middles], root \in [Middles -> Roots] :
        LET leaf(x) == IF x \in alive THEN Row(TRUE, mid[x], 0, {}) ELSE Absent
            middle(x) == Row(TRUE, root[x], 0, {<<c, 0>> : c \in {c \in alive : mid[c] = x}})
        IN table = [x \in Rows |->
                      IF x \in Leaves THEN leaf(x)
                      ELSE IF x \in Middles THEN middle(x)
                      ELSE Row(TRUE, NoRow, 0,
                               {<<m, middle(m).total>> : m \in {m \in Middles : root[m] = x}})]
    BY DEF Init
  <1>2. \A x, ref, total : ref \in Parents(x) \cup {NoRow} => RowOf(x, Row(TRUE, ref, 0, total))
    BY BoundAssumption DEF RowOf, Row
  <1>3. \A x \in Rows : RowOf(x, table[x])
    <2>1. \A x \in Leaves : RowOf(x, table[x])
      <3> TAKE x \in Leaves
      <3>1. table[x] = IF x \in alive THEN Row(TRUE, mid[x], 0, {}) ELSE Absent
        BY <1>1 DEF Rows
      <3>2. mid[x] \in Parents(x)
        BY ParentsAre
      <3> QED BY <1>2, <3>1, <3>2, AbsentIsRow
    <2>2. \A x \in Middles : RowOf(x, table[x])
      <3> TAKE x \in Middles
      <3>1. \E total : table[x] = Row(TRUE, root[x], 0, total)
        BY <1>1, ObjectsAssumption DEF Rows
      <3>2. root[x] \in Parents(x)
        BY ParentsAre
      <3> QED BY <1>2, <3>1, <3>2
    <2>3. \A x \in Roots : RowOf(x, table[x])
      <3> TAKE x \in Roots
      <3>1. \E total : table[x] = Row(TRUE, NoRow, 0, total)
        BY <1>1, ObjectsAssumption DEF Rows
      <3> QED BY <1>2, <3>1
    <2> QED BY <2>1, <2>2, <2>3 DEF Rows
  <1>4. table = [x \in Rows |-> table[x]]
    BY <1>1
  <1> QED BY <1>3, <1>4, IdleOk DEF Init, Types

LEMMA StepTypes == Types /\ [Next]_vars => Types'
  <1> SUFFICES ASSUME Types, [Next]_vars PROVE Types'
    OBVIOUS
  <1>u. CASE UNCHANGED vars
    BY <1>u DEF vars, Types
  <1>n. CASE Next
    <2>0. PICK q \in Requests : Steps(q)
      BY <1>n, NextIsSteps
    <2>t. /\ table = [x \in Rows |-> table[x]] /\ \A x \in Rows : RowOf(x, table[x])
          /\ outbox \subseteq Rows /\ serial \in BOOLEAN /\ writes \in Nat /\ throws \in Nat
      BY DEF Types
    <2>o. Open(q) => /\ table' = table /\ outbox' = outbox /\ throws' = throws
                     /\ serial' \in BOOLEAN /\ writes' \in Nat
      BY <2>t DEF Open
    <2>1. ASSUME NEW t, TxnOk(t), txn' = [txn EXCEPT ![q] = t], table' = table,
                 outbox' = outbox, serial' \in BOOLEAN, writes' \in Nat, throws' = throws
          PROVE  Types'
      BY <2>t, <2>1, BecomesOk
    <2>2. ASSUME NEW x \in Rows, NEW kind \in {"create", "update", "remove"}, NEW after,
                 Begins(q, kind, x, after)
          PROVE  Types'
      <3>1. TxnOk(Begun(kind, x, after)) /\ txn' = [txn EXCEPT ![q] = Begun(kind, x, after)] /\ Open(q)
        BY <2>2, BegunOk DEF Begins
      <3> QED BY <2>1, <2>o, <3>1
    <2>3. ASSUME NEW x \in Middles \cup Roots, Recomputes(q, x) PROVE Types'
      <3>1. TxnOk(Recomputing(x)) /\ txn' = [txn EXCEPT ![q] = Recomputing(x)] /\ Open(q)
        BY <2>3, RecomputingOk DEF Recomputes
      <3> QED BY <2>1, <2>o, <3>1
    <2>4. CASE Runs(q, "write", AfterWrite(q))
      BY <2>1, <2>4, <2>t, AfterWriteOk DEF Runs
    <2>5. CASE Runs(q, "read", AfterRead(q)) /\ txn[q].todo # <<>>
      BY <2>1, <2>5, <2>t, AfterReadOk DEF Runs
    <2>6. CASE Runs(q, "aggregate", AfterAggregate(q))
      BY <2>1, <2>6, <2>t, AfterAggregateOk DEF Runs
    <2>7. CASE Runs(q, "persist", AfterPersist(q))
      BY <2>1, <2>7, <2>t, AfterPersistOk DEF Runs
    <2>8. CASE Commit(q) \/ Throw(q)
      <3>1. /\ txn' = [txn EXCEPT ![q] = Idle] /\ table' = Published(q)
            /\ serial' = serial /\ writes' = writes /\ throws' \in Nat
        BY <2>8, <2>t DEF Commit, Throw
      <3>3. outbox' \subseteq Rows
        <4>1. txn[q].pc # "idle" /\ TxnOk(txn[q])
          BY <2>8 DEF Commit, Throw, Types
        <4> QED BY <2>8, <2>t, <4>1 DEF Commit, Throw, Captured, TxnOk
      <3>2. table' = [x \in Rows |-> table'[x]] /\ \A x \in Rows : RowOf(x, table'[x])
        BY <3>1, PublishedOk
      <3> QED BY <2>t, <3>1, <3>2, <3>3, IdleOk, BecomesOk
    <2>9. CASE DeadlockVictim(q)
      BY <2>1, <2>9, <2>t, IdleOk DEF DeadlockVictim
    <2> QED BY <2>0, <2>2, <2>3, <2>4, <2>5, <2>6, <2>7, <2>8, <2>9 DEF Steps
  <1> QED BY <1>u, <1>n

LEMMA TypesHold == Spec => []Types
  <1> QED BY InitTypes, StepTypes, PTL DEF Spec

(* A row that one open transaction has written no other has: it stays locked *)
(* until the transaction ends.                                               *)
Exclusive ==
    \A q, r \in Requests : q # r => DOMAIN txn[q].own \cap DOMAIN txn[r].own = {}

LEMMA StepExclusive == Types /\ Exclusive /\ [Next]_vars => Exclusive'
  <1> SUFFICES ASSUME Types, Exclusive, [Next]_vars PROVE Exclusive'
    OBVIOUS
  <1>u. CASE UNCHANGED vars
    BY <1>u DEF vars, Exclusive
  <1>n. CASE Next
    <2>0. PICK q \in Requests : Steps(q)
      BY <1>n, NextIsSteps
    <2>1. ASSUME NEW t, txn' = [txn EXCEPT ![q] = t],
                 \A r \in Requests : r # q => DOMAIN t.own \cap DOMAIN txn[r].own = {}
          PROVE  Exclusive'
      <3>1. txn'[q] = t /\ \A r \in Requests : r # q => txn'[r] = txn[r]
        BY <2>1 DEF Types
      <3>2. \A r, s \in Requests : r # s => DOMAIN txn'[r].own \cap DOMAIN txn'[s].own = {}
        BY <2>1, <3>1 DEF Exclusive
      <3> QED BY <3>2 DEF Exclusive
    <2>2. ASSUME NEW t, txn' = [txn EXCEPT ![q] = t], t.own = <<>> \/ t.own = txn[q].own
          PROVE  Exclusive'
      BY <2>1, <2>2 DEF Exclusive
    <2>3. ASSUME NEW t, NEW x \in Rows, NEW row, txn' = [txn EXCEPT ![q] = t],
                 t.own = Owning(q, x, row), \A r \in Requests : r # q => x \notin DOMAIN txn[r].own
          PROVE  Exclusive'
      <3>1. DOMAIN t.own = DOMAIN txn[q].own \cup {x}
        BY <2>3 DEF Owning
      <3> QED BY <2>1, <2>3, <3>1 DEF Exclusive
    <2>4. ASSUME NEW x \in Rows, NEW kind \in {"create", "update", "remove"}, NEW after,
                 Begins(q, kind, x, after)
          PROVE  Exclusive'
      <3>1. Begun(kind, x, after).own = <<>>
        BY BegunIs
      <3> QED BY <2>2, <2>4, <3>1 DEF Begins
    <2>5. ASSUME NEW x \in Middles \cup Roots, Recomputes(q, x) PROVE Exclusive'
      <3>1. Recomputing(x).own = <<>>
        BY RecomputingIs
      <3> QED BY <2>2, <2>5, <3>1 DEF Recomputes
    <2>6. CASE Runs(q, "write", AfterWrite(q)) /\ Locks(q)
      <3>1. txn[q].target \in Rows /\ \A r \in Requests : r # q => txn[q].target \notin DOMAIN txn[r].own
        BY <2>6 DEF Runs, Types, TxnOk, Locks, WaitsFor, Needs
      <3>2. \/ AfterWrite(q).own = txn[q].own
            \/ AfterWrite(q).own = Owning(q, txn[q].target, Written(q))
        BY AfterWriteIs
      <3>3. txn' = [txn EXCEPT ![q] = AfterWrite(q)]
        BY <2>6 DEF Runs
      <3> QED BY <2>2, <2>3, <3>1, <3>2, <3>3
    <2>7. CASE Runs(q, "read", AfterRead(q))
      BY <2>2, <2>7, AfterReadIs DEF Runs
    <2>8. CASE Runs(q, "aggregate", AfterAggregate(q))
      BY <2>2, <2>8, AfterAggregateIs DEF Runs
    <2>9. CASE Runs(q, "persist", AfterPersist(q)) /\ Locks(q)
      <3> DEFINE p == Head(txn[q].todo)
      <3>1. p \in Rows
        BY <2>9 DEF Runs, Types, TxnOk, Rows
      <3>2. \A r \in Requests : r # q => p \notin DOMAIN txn[r].own
        BY <2>9 DEF Runs, Locks, WaitsFor, Needs
      <3>3. AfterPersist(q).own = txn[q].own \/ AfterPersist(q).own = Owning(q, p, Persisted(q))
        BY AfterPersistIs
      <3>4. txn' = [txn EXCEPT ![q] = AfterPersist(q)]
        BY <2>9 DEF Runs
      <3> QED BY <2>2, <2>3, <3>1, <3>2, <3>3, <3>4
    <2>10. CASE Commit(q) \/ Throw(q) \/ DeadlockVictim(q)
      BY <2>2, <2>10, IdleIs DEF Commit, Throw, DeadlockVictim
    <2> QED BY <2>0, <2>4, <2>5, <2>6, <2>7, <2>8, <2>9, <2>10 DEF Steps
  <1> QED BY <1>u, <1>n

(* Rows and transactions keep their shape, references lead to the object     *)
(* they name, and no two open transactions hold the same row: what one       *)
(* publishes overwrites nothing that another has written.                    *)
THEOREM NoRowIsHeldTwice == Spec => []TypeOK
  <1>1. Init => Exclusive
    BY IdleIs DEF Init, Exclusive
  <1>2. Types /\ Exclusive => TypeOK
    <2>1. Types => \A q \in Requests :
             /\ txn[q].pc \in {"idle", "write", "read", "aggregate", "persist"}
             /\ txn[q].todo \in Seq(Middles \cup Roots)
             /\ DOMAIN txn[q].own \subseteq Rows
      BY DEF Types, TxnOk
    <2>2. Types => /\ \A x \in Rows : table[x].alive \in BOOLEAN /\ table[x].ref \in Parents(x) \cup {NoRow}
                                       /\ table[x].edit \in 0..MaxWrites
                   /\ outbox \subseteq Rows /\ serial \in BOOLEAN
      BY DEF Types, RowOf
    <2> QED BY <2>1, <2>2 DEF Exclusive, TypeOK
  <1> QED BY <1>1, <1>2, TypesHold, StepExclusive, PTL DEF Spec

-----------------------------------------------------------------------------
(* CountsItsOwnWrite.  A request writes one row first, so the leaf it owns   *)
(* does not change once it has begun to recompute, and a roll-up it          *)
(* aggregates sees that leaf as it will be committed.                        *)
CountedIn(pairs, m, l, row) ==
    {pair \in pairs : pair[1] = l} = IF row.alive /\ row.ref = m THEN {<<l, row.edit>>} ELSE {}

CountsOwned(own) ==
    \A m \in Middles \cap DOMAIN own, l \in Leaves \cap DOMAIN own :
        CountedIn(own[m].total, m, l, own[l])

CountsSummed(t) ==
    t.pc = "persist" /\ Head(t.todo) \in Middles =>
        \A l \in Leaves \cap DOMAIN t.own : CountedIn(t.sum, Head(t.todo), l, t.own[l])

Counting == \A q \in Requests : CountsOwned(txn[q].own) /\ CountsSummed(txn[q])

LEMMA ContributionOf ==
    ASSUME NEW p, NEW rows, NEW c \in Leaves
    PROVE  CountedIn(Contributions(p, rows), p, c, rows[c])
  <1>1. c \in Rows
    BY DEF Rows
  <1>2. \A pair \in Contributions(p, rows) : pair[1] = c =>
           rows[c].alive /\ rows[c].ref = p /\ pair = <<c, rows[c].edit>>
    BY DEF Contributions
  <1>3. rows[c].alive /\ rows[c].ref = p => <<c, rows[c].edit>> \in Contributions(p, rows)
    BY <1>1 DEF Contributions
  <1> QED BY <1>2, <1>3 DEF CountedIn

LEMMA EmptyCounts == CountsOwned(<<>>)
  BY DEF CountsOwned

LEMMA BecomesCounting ==
    ASSUME Types, Counting, NEW q \in Requests, NEW t, txn' = [txn EXCEPT ![q] = t],
           CountsOwned(t.own), CountsSummed(t)
    PROVE  Counting'
  <1>1. \A r \in Requests : CountsOwned(txn'[r].own) /\ CountsSummed(txn'[r])
    BY DEF Types, Counting
  <1> QED BY <1>1 DEF Counting, CountsOwned, CountsSummed, CountedIn

LEMMA WriteCounts ==
    ASSUME Types, NEW q \in Requests, txn[q].pc = "write"
    PROVE  CountsOwned(AfterWrite(q).own)
  <1>1. TxnOk(txn[q])
    BY DEF Types
  <1>2. \/ AfterWrite(q).own = txn[q].own
        \/ AfterWrite(q).own = Owning(q, txn[q].target, Written(q))
    BY AfterWriteIs
  <1>3. DOMAIN txn[q].own = {}
    BY <1>1 DEF TxnOk
  <1>4. DOMAIN AfterWrite(q).own \subseteq {txn[q].target}
    BY <1>2, <1>3 DEF Owning
  <1> QED BY <1>4, ObjectsAssumption DEF CountsOwned

LEMMA AggregateCounts ==
    ASSUME Types, Counting, NEW q \in Requests, txn[q].pc = "aggregate"
    PROVE  CountsOwned(AfterAggregate(q).own) /\ CountsSummed(AfterAggregate(q))
  <1> DEFINE t == txn[q]
             u == AfterAggregate(q)
             p == Head(t.todo)
  <1>1. TxnOk(t) /\ CountsOwned(t.own)
    BY DEF Types, Counting
  <1>2. u.own = t.own /\ u.todo = t.todo /\ u.sum = Contributions(p, VisibleRows(q))
    BY AfterAggregateIs
  <1>3. ASSUME NEW l \in Leaves \cap DOMAIN t.own
        PROVE  CountedIn(u.sum, p, l, t.own[l])
    <2>1. VisibleRows(q)[l] = t.own[l]
      BY DEF VisibleRows, Visible, Rows
    <2> QED BY <1>2, <2>1, ContributionOf
  <1> QED BY <1>1, <1>2, <1>3 DEF CountsSummed

LEMMA PersistCounts ==
    ASSUME Types, Counting, NEW q \in Requests, txn[q].pc = "persist"
    PROVE  CountsOwned(AfterPersist(q).own)
  <1> DEFINE t == txn[q]
             u == AfterPersist(q)
             p == Head(t.todo)
             row == [t.row EXCEPT !.total = t.sum]
  <1>1. TxnOk(t) /\ CountsOwned(t.own) /\ CountsSummed(t)
    BY DEF Types, Counting
  <1>2. u.own = t.own \/ u.own = Owning(q, p, row)
    BY AfterPersistIs DEF Persisted
  <1>3. p \in Middles \cup Roots /\ row.total = t.sum
    BY <1>1 DEF TxnOk, RowOf
  <1>4. p \in Middles => \A l \in Leaves \cap DOMAIN t.own : CountedIn(t.sum, p, l, t.own[l])
    BY <1>1 DEF CountsSummed
  <1> HIDE DEF p, row
  <1>5. ASSUME u.own = Owning(q, p, row),
               NEW m \in Middles \cap DOMAIN u.own, NEW l \in Leaves \cap DOMAIN u.own
        PROVE  CountedIn(u.own[m].total, m, l, u.own[l])
    <2>1. l # p /\ l # m
      BY <1>3, ObjectsAssumption
    <2>2. l \in Leaves \cap DOMAIN t.own /\ u.own[l] = t.own[l]
      BY <1>5, <2>1 DEF Owning
    <2>3. CASE m = p
      <3>1. u.own[m] = row
        BY <1>5, <2>3 DEF Owning
      <3> QED BY <1>3, <1>4, <2>2, <2>3, <3>1
    <2>4. CASE m # p
      <3>1. m \in Middles \cap DOMAIN t.own /\ u.own[m] = t.own[m]
        BY <1>5, <2>4 DEF Owning
      <3> QED BY <1>1, <2>2, <3>1 DEF CountsOwned
    <2> QED BY <2>3, <2>4
  <1> HIDE DEF u
  <1>6. CountsOwned(u.own)
    BY <1>1, <1>2, <1>5 DEF CountsOwned
  <1> QED BY <1>6 DEF u

LEMMA StepCounting == Types /\ Counting /\ [Next]_vars => Counting'
  <1> SUFFICES ASSUME Types, Counting, [Next]_vars PROVE Counting'
    OBVIOUS
  <1>u. CASE UNCHANGED vars
    BY <1>u DEF vars, Counting, CountsOwned, CountsSummed, CountedIn
  <1>n. CASE Next
    <2>0. PICK q \in Requests : Steps(q)
      BY <1>n, NextIsSteps
    <2>t. TxnOk(txn[q]) /\ CountsOwned(txn[q].own)
      BY DEF Types, Counting
    <2>1. ASSUME NEW t, txn' = [txn EXCEPT ![q] = t], t.own = <<>> \/ CountsOwned(t.own),
                 t.pc # "persist" \/ CountsSummed(t)
          PROVE  Counting'
      BY <2>1, EmptyCounts, BecomesCounting DEF CountsSummed
    <2>2. ASSUME NEW x \in Rows, NEW kind \in {"create", "update", "remove"}, NEW after,
                 Begins(q, kind, x, after)
          PROVE  Counting'
      <3>1. Begun(kind, x, after).own = <<>> /\ Begun(kind, x, after).pc = "write"
        BY BegunIs
      <3>2. txn' = [txn EXCEPT ![q] = Begun(kind, x, after)]
        BY <2>2 DEF Begins
      <3> QED BY <2>1, <3>1, <3>2
    <2>3. ASSUME NEW x \in Middles \cup Roots, Recomputes(q, x) PROVE Counting'
      BY <2>1, <2>3, RecomputingIs DEF Recomputes
    <2>4. CASE Runs(q, "write", AfterWrite(q))
      BY <2>1, <2>4, WriteCounts, AfterWriteIs DEF Runs
    <2>5. CASE Runs(q, "read", AfterRead(q)) /\ txn[q].todo # <<>>
      BY <2>1, <2>5, <2>t, AfterReadIs DEF Runs
    <2>6. CASE Runs(q, "aggregate", AfterAggregate(q))
      BY <2>1, <2>6, AggregateCounts DEF Runs
    <2>7. CASE Runs(q, "persist", AfterPersist(q))
      BY <2>1, <2>7, PersistCounts, AfterPersistIs DEF Runs
    <2>8. CASE Commit(q) \/ Throw(q) \/ DeadlockVictim(q)
      BY <2>1, <2>8, IdleIs DEF Commit, Throw, DeadlockVictim
    <2> QED BY <2>0, <2>2, <2>3, <2>4, <2>5, <2>6, <2>7, <2>8 DEF Steps
  <1> QED BY <1>u, <1>n

(* Whatever other transactions do meanwhile, a request that has recomputed a *)
(* parent counts its own write there, once, as it will be committed, and     *)
(* counts it nowhere it no longer belongs (recompute.ts:206-273).            *)
THEOREM CountsOwnWrite == Spec => []CountsItsOwnWrite
  <1>1. Init => Counting
    BY IdleIs, EmptyCounts DEF Init, Counting, CountsSummed
  <1>2. Counting => CountsItsOwnWrite
    BY DEF Counting, CountsOwned, CountedIn, CountsItsOwnWrite
  <1> QED BY <1>1, <1>2, StepCounting, TypesHold, PTL DEF Spec

-----------------------------------------------------------------------------
(* While requests follow each other one transaction is open, and what it     *)
(* sees of a row it has not been asked to write is what is committed, but    *)
(* for the roll-ups.                                                         *)
Sole ==
    serial => \A q, r \in Requests : txn[q].pc # "idle" /\ txn[r].pc # "idle" => q = r

SameData(r, s) == r.ref = s.ref /\ r.edit = s.edit

Seen(t, rows, x) == IF x \in DOMAIN t.own THEN t.own[x] ELSE rows[x]

Keeps(t, rows) ==
    /\ \A x \in DOMAIN t.own :
          \/ SameData(t.own[x], rows[x])
          \/ x = t.target /\ t.kind \in {"create", "update"}
          \/ ~t.own[x].alive
    /\ t.pc \in {"aggregate", "persist"} => SameData(t.row, Seen(t, rows, Head(t.todo)))

KeepsData == serial => \A q \in Requests : Keeps(txn[q], table)

LEMMA VictimIsOpen ==
    ASSUME NEW q \in Requests, DeadlockVictim(q), Types
    PROVE  txn[q].pc # "idle"
  <1>1. PICK r \in Requests : WaitsFor(q, r)
    BY DEF DeadlockVictim
  <1>2. Needs(q) # NoRow
    <2>1. DOMAIN txn[r].own \subseteq Rows
      BY DEF Types, TxnOk
    <2> QED BY <1>1, <2>1, ObjectsAssumption DEF WaitsFor, Rows
  <1> QED BY <1>2 DEF Needs

(* One step of request q leaves the others as they were.                     *)
LEMMA OthersStay ==
    ASSUME Types, NEW q \in Requests, Steps(q)
    PROVE  /\ \A r \in Requests : r # q => txn'[r] = txn[r]
           /\ serial' => serial
           /\ txn[q].pc = "idle" /\ serial' => Quiet
           /\ txn[q].pc = "idle" => table' = table /\ throws' = throws
  <1>1. txn = [r \in Requests |-> txn[r]]
    BY DEF Types
  <1>2. CASE \/ \E x \in Rows, kind \in {"create", "update", "remove"} : \E after : Begins(q, kind, x, after)
             \/ \E x \in Middles \cup Roots : Recomputes(q, x)
    <2>1. Open(q)
      BY <1>2 DEF Begins, Recomputes
    <2>2. \E t : txn' = [txn EXCEPT ![q] = t]
      BY <1>2 DEF Begins, Recomputes
    <2> QED BY <1>1, <2>1, <2>2 DEF Open
  <1>3. CASE \E pc \in {"write", "read", "aggregate", "persist"} : \E t : Runs(q, pc, t)
    BY <1>1, <1>3 DEF Runs
  <1>4. CASE Commit(q) \/ Throw(q)
    BY <1>1, <1>4 DEF Commit, Throw
  <1>5. CASE DeadlockVictim(q)
    <2>1. txn[q].pc # "idle"
      BY <1>5, VictimIsOpen
    <2> QED BY <1>1, <1>5, <2>1 DEF DeadlockVictim
  <1> QED BY <1>2, <1>3, <1>4, <1>5 DEF Steps

LEMMA StepSole == Types /\ Sole /\ [Next]_vars => Sole'
  <1> SUFFICES ASSUME Types, Sole, [Next]_vars PROVE Sole'
    OBVIOUS
  <1>u. CASE UNCHANGED vars
    BY <1>u DEF vars, Sole
  <1>n. CASE Next
    <2>0. PICK q \in Requests : Steps(q)
      BY <1>n, NextIsSteps
    <2>1. SUFFICES ASSUME serial', NEW r \in Requests, NEW s \in Requests,
                          txn'[r].pc # "idle", txn'[s].pc # "idle"
                   PROVE  r = s
      BY DEF Sole
    <2>2. serial /\ (txn[q].pc = "idle" => Quiet)
      BY <2>0, <2>1, OthersStay
    <2>3. \A p \in Requests : p # q => txn'[p] = txn[p]
      BY <2>0, OthersStay
    <2>4. CASE txn[q].pc = "idle"
      BY <2>1, <2>2, <2>3, <2>4 DEF Quiet
    <2>5. CASE txn[q].pc # "idle"
      BY <2>1, <2>2, <2>3, <2>5 DEF Sole
    <2> QED BY <2>4, <2>5
  <1> QED BY <1>u, <1>n

LEMMA FreshKeeps ==
    ASSUME NEW t, NEW rows, t.own = <<>>, t.pc \notin {"aggregate", "persist"}
    PROVE  Keeps(t, rows)
  BY DEF Keeps

LEMMA WriteKeeps ==
    ASSUME Types, NEW q \in Requests, txn[q].pc = "write"
    PROVE  Keeps(AfterWrite(q), table)
  <1> DEFINE t == txn[q]
             u == AfterWrite(q)
  <1>1. TxnOk(t)
    BY DEF Types
  <1>2. /\ Continues(t, u) /\ u.pc = "read"
        /\ u.own = t.own \/ u.own = Owning(q, t.target, Written(q))
    BY AfterWriteIs
  <1>3. t.own = <<>> /\ t.kind \in {"create", "update", "remove"}
    BY <1>1 DEF TxnOk
  <1>4. t.kind = "remove" => ~Written(q).alive
    <2>1. ~Absent.alive
      BY DEF Absent, Row
    <2> QED BY <1>1, <2>1 DEF Written, TxnOk
  <1> HIDE DEF u
  <1>5. \A x \in DOMAIN u.own : x = t.target /\ u.own[x] = Written(q)
    BY <1>2, <1>3 DEF Owning
  <1>6. Keeps(u, table)
    BY <1>2, <1>3, <1>4, <1>5 DEF Keeps, Continues
  <1> QED BY <1>6 DEF u

LEMMA ReadKeeps ==
    ASSUME Types, NEW q \in Requests, txn[q].pc = "read", Keeps(txn[q], table)
    PROVE  Keeps(AfterRead(q), table)
  <1> DEFINE t == txn[q]
             u == AfterRead(q)
             p == Head(t.todo)
  <1>1. /\ Continues(t, u) /\ u.own = t.own
        /\ \/ u.pc = "aggregate" /\ u.row = Visible(q, p) /\ u.todo = t.todo
           \/ u.pc = "read"
    BY AfterReadIs
  <1>2. Visible(q, p) = Seen(t, table, p)
    BY DEF Visible, Seen
  <1>3. u.pc = "aggregate" => SameData(u.row, Seen(u, table, Head(u.todo)))
    BY <1>1, <1>2 DEF Seen, SameData
  <1> HIDE DEF u
  <1>4. Keeps(u, table)
    BY <1>1, <1>3 DEF Keeps, Continues
  <1> QED BY <1>4 DEF u

LEMMA AggregateKeeps ==
    ASSUME Types, NEW q \in Requests, txn[q].pc = "aggregate", Keeps(txn[q], table)
    PROVE  Keeps(AfterAggregate(q), table)
  <1> DEFINE t == txn[q]
             u == AfterAggregate(q)
  <1>1. Continues(t, u) /\ u.own = t.own /\ u.pc = "persist" /\ u.row = t.row /\ u.todo = t.todo
    BY AfterAggregateIs
  <1> HIDE DEF u
  <1>2. Keeps(u, table)
    BY <1>1 DEF Keeps, Continues, Seen
  <1> QED BY <1>2 DEF u

LEMMA PersistKeeps ==
    ASSUME Types, NEW q \in Requests, txn[q].pc = "persist", Keeps(txn[q], table)
    PROVE  Keeps(AfterPersist(q), table)
  <1> DEFINE t == txn[q]
             u == AfterPersist(q)
             p == Head(t.todo)
             row == Persisted(q)
  <1>1. /\ Continues(t, u) /\ u.pc = "read"
        /\ u.own = IF Visible(q, p).alive THEN Owning(q, p, row) ELSE t.own
    BY AfterPersistIs
  <1>2. RowOf(p, t.row)
    BY DEF Types, TxnOk
  <1>3. SameData(row, t.row)
    BY <1>2 DEF Persisted, RowOf, SameData
  <1>4. SameData(t.row, Seen(t, table, p)) /\ Visible(q, p) = Seen(t, table, p)
    BY DEF Keeps, Visible, Seen
  <1> HIDE DEF u, p, row
  <1>5. ASSUME Visible(q, p).alive, NEW x \in DOMAIN u.own
        PROVE  \/ SameData(u.own[x], table[x])
               \/ x = t.target /\ t.kind \in {"create", "update"}
               \/ ~u.own[x].alive
    <2>1. u.own = Owning(q, p, row)
      BY <1>1, <1>5
    <2>2. CASE x # p
      BY <2>1, <2>2 DEF Owning, Keeps
    <2>3. CASE x = p
      <3>1. u.own[x] = row
        BY <2>1, <2>3 DEF Owning
      <3>2. CASE p \in DOMAIN t.own
        <4>1. \/ SameData(t.own[p], table[p])
              \/ p = t.target /\ t.kind \in {"create", "update"}
              \/ ~t.own[p].alive
          BY <3>2 DEF Keeps
        <4>2. t.own[p] = Seen(t, table, p)
          BY <3>2 DEF Seen
        <4> QED BY <1>3, <1>4, <1>5, <2>3, <3>1, <4>1, <4>2 DEF SameData
      <3>3. CASE p \notin DOMAIN t.own
        <4>1. table[p] = Seen(t, table, p)
          BY <3>3 DEF Seen
        <4> QED BY <1>3, <1>4, <2>3, <3>1, <4>1 DEF SameData
      <3> QED BY <3>2, <3>3
    <2> QED BY <2>2, <2>3
  <1>6. Keeps(u, table)
    BY <1>1, <1>5 DEF Keeps, Continues
  <1> QED BY <1>6 DEF u

LEMMA StepKeeps == Types /\ Sole /\ KeepsData /\ [Next]_vars => KeepsData'
  <1> SUFFICES ASSUME Types, Sole, KeepsData, [Next]_vars PROVE KeepsData'
    OBVIOUS
  <1>u. CASE UNCHANGED vars
    BY <1>u DEF vars, KeepsData
  <1>n. CASE Next
    <2>0. PICK q \in Requests : Steps(q)
      BY <1>n, NextIsSteps
    <2>1. SUFFICES ASSUME serial', NEW r \in Requests PROVE Keeps(txn'[r], table')
      BY DEF KeepsData
    <2>2. serial /\ Keeps(txn[q], table) /\ Keeps(txn[r], table)
      BY <2>0, <2>1, OthersStay DEF KeepsData
    <2>3. CASE r # q
      <3>1. txn'[r] = txn[r] /\ (txn[q].pc = "idle" => table' = table)
        BY <2>0, <2>3, OthersStay
      <3>2. CASE txn[q].pc = "idle"
        BY <2>2, <3>1, <3>2
      <3>3. CASE txn[q].pc # "idle"
        <4>1. txn[r].pc = "idle"
          BY <2>2, <2>3, <3>3 DEF Sole
        <4>2. txn[r].own = <<>>
          BY <4>1, IdleIs DEF Types, TxnOk
        <4> QED BY <3>1, <4>1, <4>2, FreshKeeps
      <3> QED BY <3>2, <3>3
    <2>4. CASE r = q
      <3>1. ASSUME NEW t, Keeps(t, table'), txn' = [txn EXCEPT ![q] = t] PROVE Keeps(txn'[r], table')
        BY <2>4, <3>1 DEF Types
      <3>2. ASSUME NEW x \in Rows, NEW kind \in {"create", "update", "remove"}, NEW after,
                   Begins(q, kind, x, after)
            PROVE  Keeps(txn'[r], table')
        <4>1. Keeps(Begun(kind, x, after), table')
          BY BegunIs, FreshKeeps
        <4> QED BY <3>1, <3>2, <4>1 DEF Begins
      <3>3. ASSUME NEW x \in Middles \cup Roots, Recomputes(q, x) PROVE Keeps(txn'[r], table')
        <4>1. Keeps(Recomputing(x), table')
          BY RecomputingIs, FreshKeeps
        <4> QED BY <3>1, <3>3, <4>1 DEF Recomputes
      <3>4. CASE Runs(q, "write", AfterWrite(q))
        BY <3>1, <3>4, WriteKeeps DEF Runs
      <3>5. CASE Runs(q, "read", AfterRead(q))
        BY <2>2, <3>1, <3>5, ReadKeeps DEF Runs
      <3>6. CASE Runs(q, "aggregate", AfterAggregate(q))
        BY <2>2, <3>1, <3>6, AggregateKeeps DEF Runs
      <3>7. CASE Runs(q, "persist", AfterPersist(q))
        BY <2>2, <3>1, <3>7, PersistKeeps DEF Runs
      <3>8. CASE Commit(q) \/ Throw(q) \/ DeadlockVictim(q)
        <4>1. Keeps(Idle, table')
          BY IdleIs, FreshKeeps
        <4> QED BY <3>1, <3>8, <4>1 DEF Commit, Throw, DeadlockVictim
      <3> QED BY <2>0, <3>2, <3>3, <3>4, <3>5, <3>6, <3>7, <3>8 DEF Steps
    <2> QED BY <2>3, <2>4
  <1> QED BY <1>u, <1>n

(* The step form of CapturedWithTheWrite.                                    *)
CapturesData ==
    serial /\ throws' = throws =>
        \A x \in Rows :
            table'[x].alive /\ <<table'[x].ref, table'[x].edit>> # <<table[x].ref, table[x].edit>>
            => x \in outbox'

LEMMA StepCaptures == Types /\ KeepsData /\ [Next]_vars => CapturesData
  <1> SUFFICES ASSUME Types, KeepsData, [Next]_vars, serial, throws' = throws, NEW x \in Rows,
                      table'[x].alive,
                      <<table'[x].ref, table'[x].edit>> # <<table[x].ref, table[x].edit>>
               PROVE  x \in outbox'
    BY DEF CapturesData
  <1>1. table' # table
    OBVIOUS
  <1>2. PICK q \in Requests : Steps(q)
    BY <1>1, NextIsSteps DEF vars
  <1>3. Commit(q)
    <2>1. throws' # throws + 1
      BY DEF Types
    <2>2. ~Throw(q)
      BY <2>1 DEF Throw
    <2> QED BY <1>1, <1>2, <2>2 DEF Steps, Begins, Recomputes, Open, Runs, DeadlockVictim
  <1>4. table'[x] = Visible(q, x) /\ outbox' = Captured(q)
    BY <1>3 DEF Commit, Published
  <1>5. x \in DOMAIN txn[q].own
    BY <1>4 DEF Visible
  <1>6. ~SameData(txn[q].own[x], table[x]) /\ txn[q].own[x].alive
    BY <1>4, <1>5 DEF Visible, SameData
  <1>7. x = txn[q].target /\ txn[q].kind \in {"create", "update"}
    BY <1>5, <1>6 DEF KeepsData, Keeps
  <1> QED BY <1>4, <1>7 DEF Captured

(* When requests follow each other, a request that succeeds changes the data *)
(* of no row that it does not capture: a roll-up is written back with the    *)
(* data it was read with (recompute.ts:284-317).                             *)
THEOREM CapturesWhatItChanges == Spec => CapturedWithTheWrite
  <1>1. Init => Sole /\ KeepsData
    <2>1. Init => Sole
      BY IdleIs DEF Init, Sole
    <2>2. Keeps(Idle, table)
      BY IdleIs, FreshKeeps
    <2>3. Init => KeepsData
      BY <2>2 DEF Init, KeepsData
    <2> QED BY <2>1, <2>3
  <1>2. CapturedWithTheWrite <=> [][CapturesData]_vars
    BY PTL DEF CapturedWithTheWrite, CapturesData
  <1> QED BY <1>1, <1>2, TypesHold, StepSole, StepKeeps, StepCaptures, PTL DEF Spec

-----------------------------------------------------------------------------
(* SerialRollupsExact.  While a request is open and none has thrown, each    *)
(* Middle is, as the request sees it, what its Leaves add up to, or is still *)
(* to be recomputed.                                                         *)
RowsOk(rows) == \A x \in Rows : RowOf(x, rows[x])

ExactIn(m, rows) == rows[m].alive => rows[m].total = Contributions(m, rows)

SeenRows(t, rows) == [x \in Rows |-> Seen(t, rows, x)]

Refreshes(t, rows) ==
    /\ t.pc = "write" => t.before = rows[t.target]
    /\ \A m \in Middles : Among(m, t.todo) \/ ExactIn(m, SeenRows(t, rows))
    /\ t.pc = "persist" => t.sum = Contributions(Head(t.todo), SeenRows(t, rows))

Refreshing ==
    serial /\ throws = 0 =>
        /\ \A m \in Middles : ExactIn(m, table)
        /\ \A q \in Requests : txn[q].pc # "idle" => Refreshes(txn[q], table)

(* A Middle rolls up Leaves only, so nothing but a Leaf that references it,  *)
(* or did, changes what it adds up to.                                       *)
SameLeaves(m, r, s) ==
    \A c \in Leaves : \/ r[c] = s[c]
                      \/ r[c].ref # m /\ s[c].ref # m

LEMMA ContributionsLocal ==
    ASSUME NEW m \in Middles, NEW r, NEW s, RowsOk(r), RowsOk(s), SameLeaves(m, r, s)
    PROVE  Contributions(m, r) = Contributions(m, s)
  <1>1. \A c \in Rows : c \notin Leaves => r[c].ref # m /\ s[c].ref # m
    <2> TAKE c \in Rows
    <2>1. c \notin Leaves => m \notin Parents(c) \cup {NoRow}
      BY ParentsAre, ObjectsAssumption DEF Rows
    <2> QED BY <2>1 DEF RowsOk, RowOf
  <1>2. \A c \in Rows : (r[c].alive /\ r[c].ref = m) \/ (s[c].alive /\ s[c].ref = m) =>
           c \in Leaves /\ r[c] = s[c]
    BY <1>1 DEF SameLeaves
  <1>3. {c \in Rows : r[c].alive /\ r[c].ref = m} = {c \in Rows : s[c].alive /\ s[c].ref = m}
    BY <1>2
  <1>4. ASSUME NEW pair PROVE pair \in Contributions(m, r) <=> pair \in Contributions(m, s)
    <2>1. pair \in Contributions(m, r) <=>
             \E c \in Rows : r[c].alive /\ r[c].ref = m
                           /\ pair = <<c, IF c \in Leaves THEN r[c].edit ELSE r[c].total>>
      BY DEF Contributions
    <2>2. pair \in Contributions(m, s) <=>
             \E c \in Rows : s[c].alive /\ s[c].ref = m
                           /\ pair = <<c, IF c \in Leaves THEN s[c].edit ELSE s[c].total>>
      BY DEF Contributions
    <2> QED BY <1>2, <2>1, <2>2
  <1> QED BY <1>4

LEMMA ExactLocal ==
    ASSUME NEW m \in Middles, NEW r, NEW s, RowsOk(r), RowsOk(s), ExactIn(m, r), r[m] = s[m],
           SameLeaves(m, r, s)
    PROVE  ExactIn(m, s)
  BY ContributionsLocal DEF ExactIn

LEMMA SeenRowsOk ==
    ASSUME Types, NEW t, TxnOk(t)
    PROVE  RowsOk(table) /\ RowsOk(SeenRows(t, table))
  BY DEF Types, TxnOk, RowsOk, SeenRows, Seen

LEMMA VisibleIsSeen ==
    ASSUME NEW q \in Requests
    PROVE  /\ \A x : Visible(q, x) = Seen(txn[q], table, x)
           /\ VisibleRows(q) = SeenRows(txn[q], table) /\ Published(q) = SeenRows(txn[q], table)
  BY DEF Visible, Seen, VisibleRows, Published, SeenRows

LEMMA NothingSeen ==
    ASSUME Types, NEW t, t.own = <<>>
    PROVE  SeenRows(t, table) = table
  <1>1. \A x : Seen(t, table, x) = table[x]
    BY DEF Seen
  <1>2. table = [x \in Rows |-> table[x]]
    BY DEF Types
  <1> QED BY <1>1, <1>2 DEF SeenRows

LEMMA AmongTail ==
    ASSUME NEW S, NEW s \in Seq(S), s # <<>>, NEW m, m # Head(s), Among(m, s)
    PROVE  Among(m, Tail(s))
  <1>1. PICK i \in 1..Len(s) : s[i] = m
    BY DEF Among
  <1>2. i # 1 /\ Len(Tail(s)) = Len(s) - 1 /\ Len(s) \in Nat
    BY <1>1
  <1>3. i - 1 \in 1..Len(Tail(s)) /\ Tail(s)[i - 1] = m
    BY <1>1, <1>2
  <1> QED BY <1>3 DEF Among

LEMMA FreshRefreshes ==
    ASSUME Types, NEW t, t.own = <<>>, t.pc # "persist", t.pc = "write" => t.before = table[t.target],
           \A m \in Middles : ExactIn(m, table)
    PROVE  Refreshes(t, table)
  BY NothingSeen DEF Refreshes

LEMMA WrittenRef ==
    ASSUME Types, NEW q \in Requests, txn[q].pc = "write"
    PROVE  Written(q).ref = txn[q].after.ref
  <1> DEFINE now == Visible(q, txn[q].target)
             after == txn[q].after
  <1>1. DOMAIN now = {"alive", "ref", "edit", "total"}
    BY VisibleIsRow DEF Types, TxnOk, RowOf
  <1>2. Written(q) = IF txn[q].kind = "update" THEN [now EXCEPT !.ref = after.ref, !.edit = after.edit]
                     ELSE after
    BY DEF Written
  <1> HIDE DEF now
  <1> QED BY <1>1, <1>2

LEMMA WriteRefreshes ==
    ASSUME Types, NEW q \in Requests, txn[q].pc = "write", Refreshes(txn[q], table)
    PROVE  Refreshes(AfterWrite(q), table)
  <1> DEFINE t == txn[q]
             u == AfterWrite(q)
             old == SeenRows(t, table)
             new == SeenRows(u, table)
  <1>1. TxnOk(t) /\ TxnOk(u) /\ t.own = <<>> /\ t.todo = <<>>
    BY AfterWriteOk DEF Types, TxnOk
  <1>2. /\ u.pc = "read" /\ u.todo = ToRecompute(q)
        /\ u.own = t.own \/ u.own = Owning(q, t.target, Written(q))
    BY AfterWriteIs
  <1>3. RowsOk(old) /\ RowsOk(new) /\ old = table
    BY <1>1, SeenRowsOk, NothingSeen
  <1>4. \A m \in Middles : ExactIn(m, old)
    BY <1>1 DEF Refreshes, Among
  <1>5. \A x \in Rows : \/ new[x] = old[x]
                        \/ x = t.target /\ new[x] = Written(q)
    BY <1>2 DEF SeenRows, Seen, Owning
  <1> HIDE DEF new, u
  <1>6. ASSUME NEW m \in Middles, ~Among(m, u.todo)
        PROVE  ExactIn(m, new)
    <2>1. m # t.target /\ m # t.before.ref /\ m # t.after.ref
      <3>1. m # NoRow
        BY ObjectsAssumption
      <3> QED BY <1>2, <1>6, <3>1, ToRecomputeIs
    <2>2. old[m] = new[m]
      BY <1>5, <2>1 DEF Rows
    <2>3. ASSUME NEW c \in Leaves
          PROVE  old[c] = new[c] \/ (old[c].ref # m /\ new[c].ref # m)
      <3>1. CASE c = t.target /\ new[c] = Written(q)
        <4>1. old[c] = t.before
          BY <1>3, <3>1 DEF Refreshes
        <4> QED BY <2>1, <3>1, <4>1, WrittenRef
      <3>2. CASE new[c] = old[c]
        BY <3>2
      <3> QED BY <1>5, <3>1, <3>2 DEF Rows
    <2>4. SameLeaves(m, old, new)
      BY <2>3 DEF SameLeaves
    <2> QED BY <1>3, <1>4, <2>2, <2>4, ExactLocal
  <1>7. (\A m \in Middles : Among(m, u.todo) \/ ExactIn(m, new)) /\ u.pc = "read"
    BY <1>2, <1>6
  <1> QED BY <1>7 DEF Refreshes, new, u

LEMMA ReadRefreshes ==
    ASSUME Types, NEW q \in Requests, txn[q].pc = "read", txn[q].todo # <<>>, Refreshes(txn[q], table)
    PROVE  Refreshes(AfterRead(q), table)
  <1> DEFINE t == txn[q]
             u == AfterRead(q)
             p == Head(t.todo)
             old == SeenRows(t, table)
             new == SeenRows(u, table)
  <1>1. /\ u.own = t.own
        /\ \/ u.pc = "aggregate" /\ u.todo = t.todo
           \/ u.pc = "read" /\ u.todo = Tail(t.todo) /\ ~Visible(q, p).alive
    BY AfterReadIs
  <1>2. old = new
    BY <1>1 DEF SeenRows, Seen
  <1>3. t.todo \in Seq(Middles \cup Roots)
    BY DEF Types, TxnOk
  <1>4. ASSUME NEW m \in Middles PROVE Among(m, u.todo) \/ ExactIn(m, new)
    <2>1. Among(m, t.todo) \/ ExactIn(m, old)
      BY DEF Refreshes
    <2>2. CASE u.todo = t.todo
      BY <1>2, <2>1, <2>2
    <2>3. CASE u.todo = Tail(t.todo) /\ ~Visible(q, p).alive
      <3>1. CASE m = p
        <4>1. new[m] = Visible(q, p)
          BY <1>2, <3>1, VisibleIsSeen DEF SeenRows, Rows
        <4> QED BY <2>3, <4>1 DEF ExactIn
      <3>2. CASE m # p
        BY <1>2, <1>3, <2>1, <2>3, <3>2, AmongTail
      <3> QED BY <3>1, <3>2
    <2> QED BY <1>1, <2>2, <2>3
  <1>5. (\A m \in Middles : Among(m, u.todo) \/ ExactIn(m, new)) /\ u.pc \notin {"write", "persist"}
    BY <1>1, <1>4
  <1> QED BY <1>5 DEF Refreshes

LEMMA AggregateRefreshes ==
    ASSUME Types, NEW q \in Requests, txn[q].pc = "aggregate", Refreshes(txn[q], table)
    PROVE  Refreshes(AfterAggregate(q), table)
  <1> DEFINE t == txn[q]
             u == AfterAggregate(q)
  <1>1. /\ u.own = t.own /\ u.pc = "persist" /\ u.todo = t.todo
        /\ u.sum = Contributions(Head(t.todo), SeenRows(t, table))
    BY AfterAggregateIs, VisibleIsSeen
  <1>2. SeenRows(u, table) = SeenRows(t, table)
    BY <1>1 DEF SeenRows, Seen
  <1> HIDE DEF u
  <1>3. Refreshes(u, table)
    BY <1>1, <1>2 DEF Refreshes
  <1> QED BY <1>3 DEF u

LEMMA PersistRefreshes ==
    ASSUME Types, NEW q \in Requests, txn[q].pc = "persist", Refreshes(txn[q], table)
    PROVE  Refreshes(AfterPersist(q), table)
  <1> DEFINE t == txn[q]
             u == AfterPersist(q)
             p == Head(t.todo)
             old == SeenRows(t, table)
             new == SeenRows(u, table)
  <1>1. TxnOk(t) /\ TxnOk(u) /\ t.todo \in Seq(Middles \cup Roots) /\ t.todo # <<>> /\ RowOf(p, t.row)
    BY AfterPersistOk DEF Types, TxnOk
  <1>2. /\ u.pc = "read" /\ u.todo = Tail(t.todo)
        /\ u.own = IF old[p].alive THEN Owning(q, p, Persisted(q)) ELSE t.own
    <2>1. old[p] = Visible(q, p)
      BY <1>1, VisibleIsSeen DEF SeenRows, Rows
    <2> QED BY <2>1, AfterPersistIs
  <1>3. RowsOk(old) /\ RowsOk(new)
    BY <1>1, SeenRowsOk
  <1>4. p \in Middles \cup Roots /\ p \notin Leaves /\ p \in Rows
    BY <1>1, ObjectsAssumption DEF Rows
  <1>5. Persisted(q).total = Contributions(p, old)
    BY <1>1 DEF Persisted, RowOf, Refreshes
  <1>a. (\A x \in Rows : new[x] = Seen(u, table, x)) /\ (\A x \in Rows : old[x] = Seen(t, table, x))
    BY DEF SeenRows
  <1> HIDE DEF u, p, new, old
  <1>6. /\ \A x \in Rows : x # p => new[x] = old[x]
        /\ new[p] = IF old[p].alive THEN Persisted(q) ELSE old[p]
    <2>1. CASE old[p].alive
      BY <1>2, <1>4, <1>a, <2>1 DEF Seen, Owning
    <2>2. CASE ~old[p].alive
      BY <1>2, <1>4, <1>a, <2>2 DEF Seen
    <2> QED BY <2>1, <2>2
  <1>7. \A c \in Leaves : old[c] = new[c]
    BY <1>4, <1>6 DEF Rows
  <1>8. ASSUME NEW m \in Middles PROVE Among(m, u.todo) \/ ExactIn(m, new)
    <2>0. SameLeaves(m, old, new)
      BY <1>7 DEF SameLeaves
    <2>1. CASE m = p
      <3>1. Contributions(m, old) = Contributions(m, new)
        BY <1>3, <2>0, ContributionsLocal
      <3> QED BY <1>5, <1>6, <2>1, <3>1 DEF ExactIn
    <2>2. CASE m # p /\ Among(m, t.todo)
      BY <1>1, <1>2, <2>2, AmongTail DEF p
    <2>3. CASE m # p /\ ~Among(m, t.todo)
      <3>1. ExactIn(m, old)
        BY <2>3 DEF Refreshes, old
      <3>2. old[m] = new[m]
        BY <1>6, <2>3 DEF Rows
      <3> QED BY <1>3, <2>0, <3>1, <3>2, ExactLocal
    <2> QED BY <2>1, <2>2, <2>3
  <1>9. (\A m \in Middles : Among(m, u.todo) \/ ExactIn(m, new)) /\ u.pc = "read"
    BY <1>2, <1>8
  <1> QED BY <1>9 DEF Refreshes, new, u

LEMMA StepRefreshing == Types /\ Sole /\ Refreshing /\ [Next]_vars => Refreshing'
  <1> SUFFICES ASSUME Types, Sole, Refreshing, [Next]_vars PROVE Refreshing'
    OBVIOUS
  <1>0. SUFFICES serial' /\ throws' = 0 =>
                    /\ \A m \in Middles : ExactIn(m, table')
                    /\ \A r \in Requests : txn'[r].pc # "idle" => Refreshes(txn'[r], table')
    BY DEF Refreshing, Refreshes, ExactIn, SeenRows, Seen, Contributions
  <1>u. CASE UNCHANGED vars
    BY <1>u DEF vars, Refreshing
  <1>n. CASE Next
    <2>0. PICK q \in Requests : Steps(q)
      BY <1>n, NextIsSteps
    <2>1. SUFFICES ASSUME serial', throws' = 0
                   PROVE  /\ \A m \in Middles : ExactIn(m, table')
                          /\ \A r \in Requests : txn'[r].pc # "idle" => Refreshes(txn'[r], table')
      OBVIOUS
    <2>2. throws = 0 /\ ~Throw(q)
      <3>1. throws \in Nat
        BY DEF Types
      <3>2. throws' \in {throws, throws + 1}
        BY <2>0 DEF Steps, Begins, Recomputes, Open, Runs, Commit, Throw, DeadlockVictim
      <3>3. Throw(q) => throws' = throws + 1
        BY DEF Throw
      <3> QED BY <2>1, <3>1, <3>2, <3>3
    <2>3. /\ serial
          /\ \A m \in Middles : ExactIn(m, table)
          /\ \A r \in Requests : txn[r].pc # "idle" => Refreshes(txn[r], table)
      BY <2>0, <2>1, <2>2, OthersStay DEF Refreshing
    <2>4. \A r \in Requests : r # q => txn'[r].pc = "idle"
      <3> TAKE r \in Requests
      <3> HAVE r # q
      <3>1. txn'[r] = txn[r] /\ (txn[q].pc = "idle" => Quiet)
        BY <2>0, <2>1, OthersStay
      <3> QED BY <2>3, <3>1 DEF Sole, Quiet
    <2>5. ASSUME NEW t, t.pc = "idle" \/ Refreshes(t, table), txn' = [txn EXCEPT ![q] = t], table' = table
          PROVE  /\ \A m \in Middles : ExactIn(m, table')
                 /\ \A r \in Requests : txn'[r].pc # "idle" => Refreshes(txn'[r], table')
      <3>1. txn'[q] = t
        BY <2>5 DEF Types
      <3> QED BY <2>3, <2>4, <2>5, <3>1
    <2>6. ASSUME NEW x \in Rows, NEW kind \in {"create", "update", "remove"}, NEW after,
                 Begins(q, kind, x, after)
          PROVE  /\ \A m \in Middles : ExactIn(m, table')
                 /\ \A r \in Requests : txn'[r].pc # "idle" => Refreshes(txn'[r], table')
      <3>1. Refreshes(Begun(kind, x, after), table)
        BY <2>3, BegunIs, FreshRefreshes
      <3> QED BY <2>5, <2>6, <3>1 DEF Begins, Open
    <2>7. ASSUME NEW x \in Middles \cup Roots, Recomputes(q, x)
          PROVE  /\ \A m \in Middles : ExactIn(m, table')
                 /\ \A r \in Requests : txn'[r].pc # "idle" => Refreshes(txn'[r], table')
      <3>1. Refreshes(Recomputing(x), table)
        BY <2>3, RecomputingIs, FreshRefreshes
      <3> QED BY <2>5, <2>7, <3>1 DEF Recomputes, Open
    <2>8. CASE Runs(q, "write", AfterWrite(q))
      <3>1. Refreshes(AfterWrite(q), table)
        BY <2>3, <2>8, WriteRefreshes DEF Runs
      <3> QED BY <2>5, <2>8, <3>1 DEF Runs
    <2>9. CASE Runs(q, "read", AfterRead(q)) /\ txn[q].todo # <<>>
      <3>1. Refreshes(AfterRead(q), table)
        BY <2>3, <2>9, ReadRefreshes DEF Runs
      <3> QED BY <2>5, <2>9, <3>1 DEF Runs
    <2>10. CASE Runs(q, "aggregate", AfterAggregate(q))
      <3>1. Refreshes(AfterAggregate(q), table)
        BY <2>3, <2>10, AggregateRefreshes DEF Runs
      <3> QED BY <2>5, <2>10, <3>1 DEF Runs
    <2>11. CASE Runs(q, "persist", AfterPersist(q))
      <3>1. Refreshes(AfterPersist(q), table)
        BY <2>3, <2>11, PersistRefreshes DEF Runs
      <3> QED BY <2>5, <2>11, <3>1 DEF Runs
    <2>12. CASE Commit(q)
      <3>1. table' = SeenRows(txn[q], table) /\ txn[q].todo = <<>> /\ txn[q].pc = "read"
        BY <2>12, VisibleIsSeen DEF Commit
      <3>2. \A m \in Middles : ExactIn(m, table')
        BY <2>3, <3>1 DEF Refreshes, Among
      <3>3. txn'[q].pc = "idle"
        BY <2>12, IdleIs DEF Commit, Types
      <3> QED BY <2>4, <3>2, <3>3
    <2>13. CASE DeadlockVictim(q)
      BY <2>5, <2>13, IdleIs DEF DeadlockVictim
    <2> QED BY <2>0, <2>2, <2>6, <2>7, <2>8, <2>9, <2>10, <2>11, <2>12, <2>13 DEF Steps
  <1> QED BY <1>u, <1>n

(* The rows a workspace starts with are rolled up.                           *)
LEMMA InitExact == Init => \A m \in Middles : ExactIn(m, table)
  <1> SUFFICES ASSUME Init, NEW m \in Middles PROVE ExactIn(m, table)
    OBVIOUS
  <1>1. PICK alive \in SUBSET Leaves, mid \in [Leaves -> Middles], root \in [Middles -> Roots] :
        LET leaf(x) == IF x \in alive THEN Row(TRUE, mid[x], 0, {}) ELSE Absent
            middle(x) == Row(TRUE, root[x], 0, {<<c, 0>> : c \in {c \in alive : mid[c] = x}})
        IN table = [x \in Rows |->
                      IF x \in Leaves THEN leaf(x)
                      ELSE IF x \in Middles THEN middle(x)
                      ELSE Row(TRUE, NoRow, 0,
                               {<<n, middle(n).total>> : n \in {n \in Middles : root[n] = x}})]
    BY DEF Init
  <1>2. \A c \in Leaves : table[c] = IF c \in alive THEN Row(TRUE, mid[c], 0, {}) ELSE Absent
    BY <1>1 DEF Rows
  <1>3. table[m] = Row(TRUE, root[m], 0, {<<c, 0>> : c \in {c \in alive : mid[c] = m}})
    BY <1>1, ObjectsAssumption DEF Rows
  <1>4. \A c \in Rows : c \notin Leaves => table[c].ref # m
    <2> TAKE c \in Rows
    <2>1. c \notin Leaves => m \notin Parents(c) \cup {NoRow}
      BY ParentsAre, ObjectsAssumption DEF Rows
    <2> QED BY <2>1, InitTypes DEF Types, RowOf
  <1>5. ASSUME NEW c \in Leaves
        PROVE  /\ c \in alive => table[c].alive = TRUE /\ table[c].ref = mid[c] /\ table[c].edit = 0
               /\ c \notin alive => table[c].alive = FALSE
    <2>1. CASE c \in alive
      <3>1. table[c] = Row(TRUE, mid[c], 0, {})
        BY <1>2, <2>1
      <3> QED BY <2>1, <3>1 DEF Row
    <2>2. CASE c \notin alive
      <3>1. table[c] = Absent
        BY <1>2, <2>2
      <3> QED BY <2>2, <3>1 DEF Absent, Row
    <2> QED BY <2>1, <2>2
  <1>6. ASSUME NEW pair PROVE pair \in table[m].total <=> pair \in Contributions(m, table)
    <2>1. pair \in table[m].total <=> \E c \in alive : mid[c] = m /\ pair = <<c, 0>>
      BY <1>3 DEF Row
    <2>2. pair \in Contributions(m, table) <=>
             \E c \in Rows : table[c].alive /\ table[c].ref = m
                           /\ pair = <<c, IF c \in Leaves THEN table[c].edit ELSE table[c].total>>
      BY DEF Contributions
    <2>3. pair \in Contributions(m, table) <=>
             \E c \in Leaves : table[c].alive /\ table[c].ref = m /\ pair = <<c, table[c].edit>>
      BY <1>4, <2>2 DEF Rows
    <2>4. ASSUME NEW c \in alive, mid[c] = m, pair = <<c, 0>> PROVE pair \in Contributions(m, table)
      BY <1>5, <2>3, <2>4
    <2>5. ASSUME NEW c \in Leaves, table[c].alive, table[c].ref = m, pair = <<c, table[c].edit>>
          PROVE  pair \in table[m].total
      BY <1>5, <2>1, <2>5
    <2> QED BY <2>1, <2>3, <2>4, <2>5
  <1>7. table[m].total = Contributions(m, table)
    <2>1. \A pair : pair \in table[m].total <=> pair \in Contributions(m, table)
      BY <1>6
    <2>2. table[m].total = {<<c, 0>> : c \in {c \in alive : mid[c] = m}}
      BY <1>3 DEF Row
    <2> QED BY <2>1, <2>2
  <1> QED BY <1>7 DEF ExactIn

(* Requests that follow each other, none of which throws, leave every parent *)
(* with what its children add up to (recompute.ts:278-281): the parent a     *)
(* child left and the one it joined are both recomputed before the request   *)
(* commits, after the child is written.                                      *)
THEOREM SerialRequestsKeepRollups == Spec => []SerialRollupsExact
  <1>1. Init => Sole /\ Refreshing
    <2>1. Init => Sole
      BY IdleIs DEF Init, Sole
    <2>2. Init => Refreshing
      BY InitExact, IdleIs DEF Init, Refreshing
    <2> QED BY <2>1, <2>2
  <1>2. Refreshing => SerialRollupsExact
    BY DEF Refreshing, SerialRollupsExact, ExactIn, Exact
  <1> QED BY <1>1, <1>2, TypesHold, StepSole, StepRefreshing, PTL DEF Spec
=============================================================================
