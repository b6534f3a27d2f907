---------------------------- MODULE RecordWrites ----------------------------
(***************************************************************************)
(* Record writes and the roll-ups they refresh.  A request (record.create, *)
(* update, remove) runs in one READ COMMITTED transaction: write the row,  *)
(* recompute it, recompute the parents it had and has, capture, commit.    *)
(* Each statement sees the rows committed before it and the transaction's  *)
(* own; a row written stays locked until the transaction ends.  Leaves     *)
(* reference Middles, which roll them up; Middles reference Roots, which   *)
(* roll up the Middles' roll-ups.  The value of a roll-up is the set of    *)
(* child values it aggregated.                                             *)
(***************************************************************************)
EXTENDS Naturals, Sequences, FiniteSets

CONSTANTS
    Leaves, Middles, Roots,   \* the rows of three objects
    Requests,                 \* requests that may run at the same time
    NoRow,                    \* an empty reference
    MaxWrites,                \* bound: requests in all
    MaxThrows                 \* bound: requests whose recompute throws

ASSUME BoundAssumption == MaxWrites \in Nat /\ MaxThrows \in Nat
ASSUME ObjectsAssumption ==
    /\ Leaves \cap Middles = {} /\ Leaves \cap Roots = {} /\ Middles \cap Roots = {}
    /\ NoRow \notin Leaves \cup Middles \cup Roots

Rows == Leaves \cup Middles \cup Roots
Parents(x) == IF x \in Leaves THEN Middles ELSE IF x \in Middles THEN Roots ELSE {}

VARIABLES
    table,    \* the committed rows
    txn,      \* the open transaction of each request
    outbox,   \* rows with a captured change
    serial,   \* no request has begun while another was open
    writes, throws

vars == <<table, txn, outbox, serial, writes, throws>>

Row(alive, ref, edit, total) == [alive |-> alive, ref |-> ref, edit |-> edit, total |-> total]
Absent == Row(FALSE, NoRow, 0, {})
Idle == [pc |-> "idle", kind |-> "update", target |-> NoRow, before |-> Absent, after |-> Absent,
         todo |-> <<>>, row |-> Absent, sum |-> {}, own |-> <<>>]

(* What the statements of request q see.                                     *)
Visible(q, x) == IF x \in DOMAIN txn[q].own THEN txn[q].own[x] ELSE table[x]

(* Its rows once it has written one of them.                                 *)
Owning(q, x, row) ==
    [y \in DOMAIN txn[q].own \cup {x} |-> IF y = x THEN row ELSE txn[q].own[y]]

Contributions(p, rows) ==
    {<<c, IF c \in Leaves THEN rows[c].edit ELSE rows[c].total>> :
        c \in {c \in Rows : rows[c].alive /\ rows[c].ref = p}}

CommittedRows(q) == table
VisibleRows(q) == [x \in Rows |-> Visible(q, x)]

Init ==
    /\ \E alive \in SUBSET Leaves, mid \in [Leaves -> Middles], root \in [Middles -> Roots] :
        LET leaf(x) == IF x \in alive THEN Row(TRUE, mid[x], 0, {}) ELSE Absent
            middle(x) == Row(TRUE, root[x], 0, {<<c, 0>> : c \in {c \in alive : mid[c] = x}})
        IN table = [x \in Rows |->
                      IF x \in Leaves THEN leaf(x)
                      ELSE IF x \in Middles THEN middle(x)
                      ELSE Row(TRUE, NoRow, 0,
                               {<<m, middle(m).total>> : m \in {m \in Middles : root[m] = x}})]
    /\ txn = [q \in Requests |-> Idle]
    /\ outbox = {}
    /\ serial = TRUE
    /\ writes = 0 /\ throws = 0

-----------------------------------------------------------------------------
Quiet == \A q \in Requests : txn[q].pc = "idle"

Open(q) ==
    /\ txn[q].pc = "idle" /\ writes < MaxWrites
    /\ writes' = writes + 1
    /\ serial' = (serial /\ Quiet)
    /\ UNCHANGED <<table, outbox, throws>>

(* authorizeWrite reads the record; the patch is merged into what it read.   *)
Begin(q, kind, x, after) ==
    /\ Open(q)
    /\ txn' = [txn EXCEPT ![q] = [Idle EXCEPT !.pc = "write", !.kind = kind, !.target = x,
                                              !.before = table[x], !.after = after]]

Create(q, x, ref) ==
    /\ x \in Leaves /\ ref \in Middles \cup {NoRow}
    /\ ~table[x].alive
    /\ \A r \in Requests : txn[r].target # x
    /\ Begin(q, "create", x, Row(TRUE, ref, writes + 1, {}))

Edit(q, x) ==
    /\ table[x].alive
    /\ Begin(q, "update", x, [table[x] EXCEPT !.edit = writes + 1])

Move(q, x, ref) ==
    /\ table[x].alive /\ ref \in Parents(x) \ {table[x].ref}
    /\ Begin(q, "update", x, [table[x] EXCEPT !.ref = ref])

Remove(q, x) ==
    /\ x \in Leaves /\ table[x].alive
    /\ Begin(q, "remove", x, Absent)

(* record.recompute re-evaluates one record and writes nothing else.         *)
Recompute(q, x) ==
    /\ x \notin Leaves /\ table[x].alive
    /\ Open(q)
    /\ txn' = [txn EXCEPT ![q] = [Idle EXCEPT !.pc = "read", !.kind = "recompute", !.target = x,
                                              !.todo = <<x>>]]

-----------------------------------------------------------------------------
(* Row locks.                                                                *)
Needs(q) ==
    CASE txn[q].pc = "write" -> txn[q].target
      [] txn[q].pc = "persist" -> Head(txn[q].todo)
      [] OTHER -> NoRow

WaitsFor(q, r) == q # r /\ Needs(q) \in DOMAIN txn[r].own
Locks(q) == \A r \in Requests : ~WaitsFor(q, r)

(* recomputeParentRollups is called with the old data, then the new.         *)
Refreshed(ref) == IF ref = NoRow THEN <<>> ELSE <<ref>>
RefreshedNew(q) == Refreshed(txn[q].after.ref)
RefreshedBoth(q) == Refreshed(txn[q].before.ref) \o Refreshed(txn[q].after.ref)
ToRecompute(q) ==
    LET x == txn[q].target IN
    (IF x \in Leaves \/ txn[q].kind = "remove" THEN <<>> ELSE <<x>>) \o RefreshedBoth(q)

(* createRecord, updateRecord (which leaves computed columns alone and does  *)
(* nothing to a row that is gone), deleteRecord.                             *)
Written(q) ==
    LET now == Visible(q, txn[q].target)
        after == txn[q].after
    IN  IF txn[q].kind = "update" THEN [now EXCEPT !.ref = after.ref, !.edit = after.edit]
        ELSE after

Write(q) ==
    LET x == txn[q].target IN
    /\ txn[q].pc = "write" /\ Locks(q)
    /\ txn' = [txn EXCEPT
         ![q].pc = "read", ![q].todo = ToRecompute(q),
         ![q].own = IF txn[q].kind = "update" /\ ~table[x].alive THEN @ ELSE Owning(q, x, Written(q))]
    /\ UNCHANGED <<table, outbox, serial, writes, throws>>

(* recomputeAndPersist of the next row: read it, aggregate its children,     *)
(* write the row that was read with the new value.                           *)
Read(q) ==
    LET p == Head(txn[q].todo) IN
    /\ txn[q].pc = "read" /\ txn[q].todo # <<>>
    /\ txn' = IF Visible(q, p).alive
              THEN [txn EXCEPT ![q].pc = "aggregate", ![q].row = Visible(q, p)]
              ELSE [txn EXCEPT ![q].todo = Tail(@)]
    /\ UNCHANGED <<table, outbox, serial, writes, throws>>

Aggregated(q) == Contributions(Head(txn[q].todo), VisibleRows(q))

Aggregate(q) ==
    /\ txn[q].pc = "aggregate"
    /\ txn' = [txn EXCEPT ![q].pc = "persist", ![q].sum = Aggregated(q)]
    /\ UNCHANGED <<table, outbox, serial, writes, throws>>

Persist(q) ==
    LET p == Head(txn[q].todo) IN
    /\ txn[q].pc = "persist" /\ Locks(q)
    /\ txn' = [txn EXCEPT
         ![q].pc = "read", ![q].todo = Tail(@),
         ![q].own = IF Visible(q, p).alive THEN Owning(q, p, [txn[q].row EXCEPT !.total = txn[q].sum])
                    ELSE @]
    /\ UNCHANGED <<table, outbox, serial, writes, throws>>

Published(q) == [x \in Rows |-> Visible(q, x)]

(* captureRecordChange, which create and update call, then the commit.       *)
CapturedNone(q) == outbox
Captured(q) ==
    IF txn[q].kind \in {"create", "update"} THEN outbox \cup {txn[q].target} ELSE outbox

Commit(q) ==
    /\ txn[q].pc = "read" /\ txn[q].todo = <<>>
    /\ table' = Published(q)
    /\ outbox' = Captured(q)
    /\ txn' = [txn EXCEPT ![q] = Idle]
    /\ UNCHANGED <<serial, writes, throws>>

(* A circular formula makes recomputeRecord throw.  The procedure fails, but *)
(* tRPC's next() returns the error, so the transaction's callback returns    *)
(* and what was written commits.                                             *)
Throw(q) ==
    /\ txn[q].pc = "aggregate" /\ throws < MaxThrows
    /\ throws' = throws + 1
    /\ table' = Published(q)
    /\ txn' = [txn EXCEPT ![q] = Idle]
    /\ UNCHANGED <<outbox, serial, writes>>

(* Postgres aborts a transaction of a cycle of waits.                        *)
DeadlockVictim(q) ==
    /\ \E S \in SUBSET Requests : q \in S /\ \A r \in S : \E s \in S : WaitsFor(r, s)
    /\ txn' = [txn EXCEPT ![q] = Idle]
    /\ UNCHANGED <<table, outbox, serial, writes, throws>>

Next ==
    \E q \in Requests :
        \/ \E x \in Rows, ref \in Rows \cup {NoRow} : Create(q, x, ref) \/ Move(q, x, ref)
        \/ \E x \in Rows : Edit(q, x) \/ Remove(q, x) \/ Recompute(q, x)
        \/ Write(q) \/ Read(q) \/ Aggregate(q) \/ Persist(q) \/ Commit(q)
        \/ Throw(q) \/ DeadlockVictim(q)

Spec == Init /\ [][Next]_vars

-----------------------------------------------------------------------------
(* Rows keep their shape, and no two transactions hold the same row.         *)
TypeOK ==
    /\ \A x \in Rows : table[x].alive \in BOOLEAN /\ table[x].ref \in Parents(x) \cup {NoRow}
                       /\ table[x].edit \in 0..MaxWrites
    /\ \A q \in Requests :
        /\ txn[q].pc \in {"idle", "write", "read", "aggregate", "persist"}
        /\ txn[q].todo \in Seq(Middles \cup Roots)
        /\ DOMAIN txn[q].own \subseteq Rows
    /\ \A q, r \in Requests : q # r => DOMAIN txn[q].own \cap DOMAIN txn[r].own = {}
    /\ outbox \subseteq Rows /\ serial \in BOOLEAN

Exact(p) == table[p].alive => table[p].total = Contributions(p, table)

(* Creating, editing, moving and removing children keeps their parents'      *)
(* roll-ups right, the parent they leave as well as the one they join        *)
(* (recompute.ts:278-281), when requests follow each other and none throws.  *)
SerialRollupsExact == serial /\ Quiet /\ throws = 0 => \A m \in Middles : Exact(m)

(* The same whatever overlaps: "recompute that parent" (recompute.ts:280).   *)
RollupsExact == Quiet /\ throws = 0 => \A m \in Middles : Exact(m)

(* A transaction that has recomputed a parent counts its own write there,    *)
(* whatever other transactions do meanwhile.                                 *)
CountsItsOwnWrite ==
    \A q \in Requests : txn[q].pc = "read" /\ txn[q].todo = <<>> =>
        LET own == txn[q].own IN
        \A m \in Middles \cap DOMAIN own, l \in Leaves \cap DOMAIN own :
            {pair \in own[m].total : pair[1] = l}
              = IF own[l].alive /\ own[l].ref = m THEN {<<l, own[l].edit>>} ELSE {}

(* "the outbox row commits atomically with the record write"                 *)
(* (queries/sf-sync.ts:13): when requests follow each other, one that        *)
(* succeeds changes no field of any row that it does not capture.            *)
CapturedWithTheWrite ==
    [][serial /\ throws' = throws =>
         \A x \in Rows :
            table'[x].alive /\ <<table'[x].ref, table'[x].edit>> # <<table[x].ref, table[x].edit>>
            => x \in outbox']_vars
=============================================================================
