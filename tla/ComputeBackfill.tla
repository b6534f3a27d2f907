--------------------------- MODULE ComputeBackfill ---------------------------
(***************************************************************************)
(* The compute backfill of one object: what asks for it (a bulk load, a    *)
(* poll, a change of a formula or roll-up field), its keyed job, and the   *)
(* worker that reads the definitions once and then lists and rewrites the  *)
(* records page by page, one READ COMMITTED transaction per page, while    *)
(* users write records.  A record's computed fields are the pair of the    *)
(* definition and the data they were computed from.                        *)
(***************************************************************************)
EXTENDS Naturals, FiniteSets

CONSTANTS
    Rows,        \* record ids
    Page,        \* records per page
    Attempts,    \* attempts of a backfill job
    MaxTime,     \* bound: instants of creation
    MaxBulk,     \* bound: imports and polls
    MaxSaves,    \* bound: changes of a computed field
    MaxWrites,   \* bound: records users create or edit
    MaxDeletes,  \* bound: records users delete
    MaxFailures  \* bound: failed or interrupted attempts

ASSUME BoundAssumption ==
    /\ IsFiniteSet(Rows) /\ Page \in Nat \ {0} /\ Attempts \in Nat \ {0}
    /\ {MaxTime, MaxBulk, MaxSaves, MaxWrites, MaxDeletes, MaxFailures} \subseteq Nat

VARIABLES
    table,    \* the object's records
    def,      \* the committed definition of its computed fields
    saving,   \* the field mutation under way
    loading,  \* records a bulk load has written, the backfill not yet asked for
    job,      \* the job <org>:<object>
    tries,    \* attempts the job has used
    work,     \* what the worker holds
    missed,   \* records of the backfill under way that it has not rewritten
    shifted,  \* history: records that a deletion moved up past the worker's place
    bulks, saves, writes, deletes, failures

asking == <<def, saving, loading, saves, bulks>>
working == <<job, tries, work, failures>>
vars == <<table, asking, working, missed, shifted, writes, deletes>>

Absent == [created |-> 0, data |-> 0, computed |-> <<0, 0>>]
Gone == [Absent EXCEPT !.data = 1]
Alive == {r \in Rows : table[r] \notin {Absent, Gone}}
Idle == [pc |-> "idle", def |-> 0, offset |-> 0, page |-> {}, rows |-> [r \in Rows |-> Absent]]

Created(r) == table[r].created

(* A record whose computed fields were written with it.                      *)
Fresh(t, d) == [created |-> t, data |-> d, computed |-> <<def, d>>]

Init ==
    /\ \E old \in SUBSET Rows, at \in [Rows -> 1..MaxTime] :
          table = [r \in Rows |-> IF r \in old
                        THEN [created |-> at[r], data |-> 0, computed |-> <<0, 0>>] ELSE Absent]
    /\ def = 0 /\ saving = "none" /\ loading = {}
    /\ job = "none" /\ tries = 0 /\ work = Idle /\ missed = {} /\ shifted = {}
    /\ bulks = 0 /\ saves = 0 /\ writes = 0 /\ deletes = 0 /\ failures = 0

-----------------------------------------------------------------------------
(* enqueueCompute: ignored while a job of the same id exists in any state.   *)
Add == job' = IF job = "none" THEN "waiting" ELSE job

(* An import's batches: records with their own created_at, nothing computed. *)
Import(r, t) ==
    /\ bulks < MaxBulk \/ loading # {}
    /\ table[r] = Absent /\ t \in 1..MaxTime
    /\ bulks' = IF loading # {} THEN bulks ELSE bulks + 1
    /\ loading' = loading \cup {r}
    /\ table' = [table EXCEPT ![r] = [created |-> t, data |-> 1, computed |-> <<0, 0>>]]
    /\ UNCHANGED <<def, saving, saves, working, missed, shifted, writes, deletes>>

(* A poll applies what Salesforce holds without recomputing the record.      *)
PollApply(r) ==
    /\ bulks < MaxBulk \/ loading # {}
    /\ r \in Alive \ loading
    /\ bulks' = IF loading # {} THEN bulks ELSE bulks + 1
    /\ loading' = loading \cup {r}
    /\ table' = [table EXCEPT ![r].data = @ + 1]
    /\ UNCHANGED <<def, saving, saves, working, missed, shifted, writes, deletes>>

AskAfterLoad ==
    /\ loading # {}
    /\ loading' = {}
    /\ Add
    /\ UNCHANGED <<table, def, saving, bulks, saves, tries, work, failures, missed, shifted, writes, deletes>>

(* field.create and field.update ask inside the transaction they have not    *)
(* committed yet.                                                            *)
SaveField ==
    /\ saving = "none" /\ saves < MaxSaves
    /\ saves' = saves + 1
    /\ saving' = "uncommitted"
    /\ Add
    /\ UNCHANGED <<table, def, loading, bulks, tries, work, failures, missed, shifted, writes, deletes>>

CommitField ==
    /\ saving = "uncommitted"
    /\ saving' = "none"
    /\ def' = def + 1
    /\ UNCHANGED <<table, loading, bulks, saves, working, missed, shifted, writes, deletes>>

(* record.create and record.update recompute the record they write.          *)
Insert(r, t) ==
    /\ writes < MaxWrites
    /\ table[r] = Absent /\ t \in 1..MaxTime /\ \A q \in Alive : Created(q) < t
    /\ writes' = writes + 1
    /\ table' = [table EXCEPT ![r] = Fresh(t, 0)]
    /\ UNCHANGED <<asking, working, missed, shifted, deletes>>

Edit(r) ==
    /\ writes < MaxWrites
    /\ r \in Alive
    /\ writes' = writes + 1
    /\ table' = [table EXCEPT ![r] = Fresh(@.created, @.data + 1)]
    /\ UNCHANGED <<asking, working, missed, shifted, deletes>>

(* A deletion leaves those of the same instant without their tie, and takes  *)
(* a place from all the older ones if the record had been listed, or was as  *)
(* far up as those that had.                                                 *)
Newer(m) == {q \in Alive : Created(q) > Created(m)}
Rank(m) == Cardinality(Newer(m))
Reach == IF work.pc = "write" THEN work.offset + Page ELSE work.offset
Shifts(r) == {q \in Alive : Created(q) = Created(r) \/ (Created(q) < Created(r) /\ Rank(r) < Reach)}

Delete(r) ==
    /\ deletes < MaxDeletes
    /\ r \in Alive
    /\ deletes' = deletes + 1
    /\ table' = [table EXCEPT ![r] = Gone]
    /\ missed' = missed \ {r}
    /\ shifted' = shifted \cup Shifts(r)
    /\ UNCHANGED <<asking, working, writes>>

-----------------------------------------------------------------------------
(* The worker reads the definitions in a transaction of their own.           *)
Start ==
    /\ job = "waiting"
    /\ job' = "active"
    /\ work' = [Idle EXCEPT !.pc = "list", !.def = def]
    /\ missed' = Alive /\ shifted' = {}
    /\ UNCHANGED <<table, asking, tries, failures, writes, deletes>>

(* ORDER BY created_at DESC LIMIT Page OFFSET o, ties in any order: the page *)
(* follows o records none of which is older than what is left.               *)
Prefix(S, among) == \A r \in S, q \in among \ S : Created(q) <= Created(r)
AtMost(n, S) == IF Cardinality(S) < n THEN Cardinality(S) ELSE n

IsPage(S, offset) ==
    \E before \in SUBSET (Alive \ S) :
        /\ Cardinality(before) = AtMost(offset, Alive)
        /\ Cardinality(S) = AtMost(Page, Alive \ before)
        /\ Prefix(before, Alive) /\ Prefix(S, Alive \ before)

ListPage(S) ==
    /\ work.pc = "list"
    /\ S \subseteq Alive /\ IsPage(S, work.offset)
    /\ work' = [work EXCEPT !.pc = "write", !.page = S, !.rows = table]
    /\ UNCHANGED <<table, asking, job, tries, failures, missed, shifted, writes, deletes>>

(* Each listed record is written back whole, with its computed fields; one   *)
(* deleted since is not found.                                               *)
RecomputedOnly(r) ==
    [table[r] EXCEPT !.computed = <<work.def, work.rows[r].data>>]

Recomputed(r) ==
    LET row == work.rows[r] IN
    [table[r] EXCEPT !.data = row.data, !.computed = <<work.def, row.data>>]

NextOffsetPast == work.offset + Page + 1
NextOffset == work.offset + Page

MorePages == ~(Cardinality(work.page) < Page)

FoundOrCreated == work.page
Found == work.page \cap Alive

Done == Idle

WritePage ==
    /\ work.pc = "write"
    /\ table' = [r \in Rows |-> IF r \in Found THEN Recomputed(r) ELSE table[r]]
    /\ missed' = missed \ work.page /\ UNCHANGED shifted
    /\ IF MorePages
       THEN /\ work' = [work EXCEPT !.pc = "list", !.offset = NextOffset, !.page = {}]
            /\ UNCHANGED job
       ELSE /\ work' = Done
            /\ job' = "kept"
    /\ UNCHANGED <<asking, tries, failures, writes, deletes>>

(* A failed attempt starts over at the first page; its open page is rolled   *)
(* back.                                                                     *)
Fail ==
    /\ job = "active" /\ failures < MaxFailures
    /\ failures' = failures + 1
    /\ tries' = tries + 1
    /\ job' = IF tries + 1 < Attempts THEN "waiting" ELSE "kept"
    /\ work' = Idle
    /\ UNCHANGED <<table, asking, missed, shifted, writes, deletes>>

(* removeOnComplete, removeOnFail.                                           *)
Evict ==
    /\ job = "kept"
    /\ job' = "none" /\ tries' = 0
    /\ UNCHANGED <<table, asking, work, failures, missed, shifted, writes, deletes>>

Next ==
    \/ \E r \in Rows : \/ \E t \in 1..MaxTime : Import(r, t)
                       \/ \E t \in 1..MaxTime : Insert(r, t)
                       \/ PollApply(r)
                       \/ Edit(r)
                       \/ Delete(r)
    \/ AskAfterLoad \/ SaveField \/ CommitField
    \/ Start
    \/ \E S \in SUBSET Rows : ListPage(S)
    \/ WritePage \/ Fail \/ Evict

Spec == Init /\ [][Next]_vars

-----------------------------------------------------------------------------
(* Values of the expected kinds; only an active job has a worker, and a page *)
(* is never longer than the limit.                                           *)
TypeOK ==
    /\ table \in [Rows -> [created : 0..MaxTime, data : Nat, computed : Nat \X Nat]]
    /\ def \in 0..MaxSaves /\ saving \in {"none", "uncommitted"} /\ loading \subseteq Rows
    /\ job \in {"none", "waiting", "active", "kept"}
    /\ tries \in 0..Attempts
    /\ (work.pc = "idle") = (job # "active")
    /\ Cardinality(work.page) <= Page /\ work.offset \in Nat
    /\ missed \subseteq Alive /\ shifted \subseteq Rows

(* A backfill that completes has rewritten every record that was there when  *)
(* it started and still is, the worker's "page through every record"         *)
(* (compute-worker.ts:1-2), however many are written meanwhile.  It passes a *)
(* record over only if another has its created_at, which is no total order,  *)
(* or if one at or above the worker's place in the order was deleted.        *)
Tied(r) == \E q \in Alive \ {r} : Created(q) = Created(r)
Completes == job = "active" /\ job' = "kept" /\ failures' = failures
PassesOverMoved == \A r \in missed' : Tied(r) \/ r \in shifted
PagesEveryRecord == [][Completes => PassesOverMoved]_vars

(* A page written late never brings a deleted record back.                  *)
StaysDeleted == [][\A r \in Rows : table[r] = Gone => table'[r] = Gone]_vars

(* After one load, when nothing is under way, every record's computed fields *)
(* are those of its data under the committed definition, whatever users      *)
(* wrote between the pages.                                                  *)
DistinctTimes == \A r, q \in Alive : Created(r) = Created(q) => r = q
AtRest == loading = {} /\ saving = "none" /\ job \in {"none", "kept"}
AllComputed ==
    AtRest /\ bulks = 1 /\ saves = 0 /\ deletes = 0 /\ DistinctTimes
        => \A r \in Alive : table[r].computed = <<def, table[r].data>>
=============================================================================
