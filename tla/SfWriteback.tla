---------------------------- MODULE SfWriteback ----------------------------
(***************************************************************************)
(* Two-way Salesforce sync of one record: local edits captured in the      *)
(* outbox, the keyed write-back job and the worker that pushes and clears, *)
(* against the poll that applies what Salesforce holds.  Values carry who  *)
(* wrote them; Salesforce is a map from fields to values.  Each            *)
(* transaction or call of the worker is one action; record.update reads    *)
(* the record, then writes all of it, in one READ COMMITTED transaction.   *)
(***************************************************************************)
EXTENDS Naturals, FiniteSets

CONSTANTS
    Fields,       \* the pushable, mapped fields of the record
    Refs,         \* those that refer to another record
    Editors,      \* updates of the record that others may overlap
    Attempts,     \* attempts of a write-back job
    MaxEdits,     \* bound: local edits
    MaxSfEdits,   \* bound: edits made in Salesforce
    MaxFailures,  \* bound: failed calls and worker crashes
    MaxTwins      \* bound: imports that find a record before it is linked

ASSUME BoundAssumption ==
    /\ Attempts \in Nat \ {0} /\ MaxEdits \in Nat /\ MaxSfEdits \in Nat
    /\ MaxFailures \in Nat /\ MaxTwins \in Nat /\ IsFiniteSet(Fields) /\ Refs \subseteq Fields

VARIABLES
    local,    \* the record's fields
    linked,   \* salesforce_id is set
    overlap,  \* whether other transactions commit while record.update runs
    editing,  \* what each record.update under way has read
    outbox,   \* its sf_sync_outbox row
    sf,       \* the fields in Salesforce
    news,     \* the Salesforce record changed since the poll cursor
    created,  \* Salesforce records created for it
    hooks,    \* post-commit enqueues still to run
    job,      \* the job wb:<org>:<object>:<record>
    tries,    \* attempts the job has used
    work,     \* what the worker holds
    fetched,  \* the row the poller holds
    unsent,   \* keys whose local value was edited here and not yet pushed
    dropped,  \* references cleared from the outbox without being pushed
    skipped,  \* fields the latest poll left different from what it read
    twins,    \* rows an import made of a record that was being linked
    edits, sfEdits, failures

recordVars == <<local, linked, overlap, editing, outbox, unsent, dropped, skipped, edits, twins>>
remoteVars == <<sf, news, created, sfEdits>>
jobVars == <<hooks, job, tries>>
vars == <<recordVars, remoteVars, jobVars, work, fetched, failures>>

Value == [by : {"nb", "sf"}, n : 0..(MaxEdits + MaxSfEdits)]
Original == [by |-> "sf", n |-> 0]
NoRow == [present |-> FALSE, dirty |-> {}, stamp |-> 0, exact |-> TRUE]
NoWork == [pc |-> "idle", dirty |-> {}, stamp |-> 0, exact |-> TRUE,
           linked |-> FALSE, twin |-> FALSE, skip |-> {}, data |-> [f \in Fields |-> Original]]
NoEdit == [open |-> FALSE, merged |-> [f \in Fields |-> Original]]
NoFetch == [held |-> FALSE, row |-> [f \in Fields |-> Original]]

(* markDirtyForSync: a new row is stamped by Postgres now(), in microseconds *)
(* of which the client reads milliseconds; an update by the client's clock.  *)
TouchReplacing(keys, fraction) ==
    [present |-> TRUE, dirty |-> keys, stamp |-> edits + 1, exact |-> outbox.present \/ ~fraction]

Touch(keys, fraction) ==
    [present |-> TRUE, dirty |-> outbox.dirty \cup keys, stamp |-> edits + 1,
     exact |-> outbox.present \/ ~fraction]

(* An imported record at rest, or one just created here.                     *)
Init ==
    /\ local = [f \in Fields |-> Original]
    /\ linked \in BOOLEAN
    /\ overlap \in BOOLEAN
    /\ outbox \in IF linked THEN {NoRow}
                  ELSE {[present |-> TRUE, dirty |-> Fields, stamp |-> 0, exact |-> e] :
                            e \in BOOLEAN}
    /\ unsent = IF linked THEN {} ELSE Fields
    /\ dropped = {} /\ skipped = {}
    /\ edits = 0 /\ twins = 0
    /\ editing = [e \in Editors |-> NoEdit]
    /\ sf = [f \in Fields |-> Original]
    /\ news = FALSE /\ sfEdits = 0
    /\ created = 0
    /\ hooks = IF linked THEN 0 ELSE 1
    /\ job = "none" /\ tries = 0
    /\ work = NoWork
    /\ fetched = NoFetch
    /\ failures = 0

-----------------------------------------------------------------------------
(* record.update with captureRecordChange: what it writes is the record it   *)
(* read with the patch merged in, what it captures are the patch's keys.     *)
ReadForEdit(e) ==
    /\ overlap /\ ~editing[e].open /\ edits < MaxEdits
    /\ editing' = [editing EXCEPT ![e] = [open |-> TRUE, merged |-> local]]
    /\ UNCHANGED <<local, linked, overlap, outbox, unsent, dropped, skipped, edits, twins, remoteVars, jobVars, work, fetched, failures>>

Edit(merged, keys, fraction) ==
    /\ edits < MaxEdits
    /\ edits' = edits + 1
    /\ local' = [f \in Fields |-> IF f \in keys THEN [by |-> "nb", n |-> edits + 1] ELSE merged[f]]
    /\ outbox' = Touch(keys, fraction)
    /\ unsent' = unsent \cup keys
    /\ dropped' = dropped \ keys
    /\ hooks' = hooks + 1
    /\ UNCHANGED <<linked, overlap, skipped, twins, remoteVars, job, tries, work, fetched, failures>>

EditAtOnce(keys, fraction) == Edit(local, keys, fraction) /\ UNCHANGED editing

EditLate(e, keys, fraction) ==
    /\ editing[e].open
    /\ Edit(editing[e].merged, keys, fraction)
    /\ editing' = [editing EXCEPT ![e] = NoEdit]

(* enqueueWriteback: ignored while a job of the same id exists in any state. *)
RunHook ==
    /\ hooks > 0
    /\ hooks' = hooks - 1
    /\ job' = IF job = "none" THEN "waiting" ELSE job
    /\ UNCHANGED <<recordVars, remoteVars, tries, work, fetched, failures>>

LoseHook ==
    /\ hooks > 0
    /\ hooks' = hooks - 1
    /\ UNCHANGED <<recordVars, remoteVars, job, tries, work, fetched, failures>>

(* removeOnComplete, removeOnFail: a finished job is kept, then removed.     *)
Evict ==
    /\ job = "kept"
    /\ job' = "none" /\ tries' = 0
    /\ UNCHANGED <<recordVars, remoteVars, hooks, work, fetched, failures>>

-----------------------------------------------------------------------------
(* processWriteback.                                                         *)
Finished == job' = "kept" /\ work' = NoWork

ReadOutbox ==
    /\ job = "waiting" /\ work.pc = "idle"
    /\ tries' = tries + 1
    /\ \/ ~outbox.present /\ Finished
       \/ /\ outbox.present
          /\ job' = "active"
          /\ work' = [NoWork EXCEPT !.pc = "record", !.dirty = outbox.dirty,
                                    !.stamp = outbox.stamp, !.exact = outbox.exact]
    /\ UNCHANGED <<recordVars, remoteVars, hooks, fetched, failures>>

(* A reference to a record Salesforce does not have is left out of the push. *)
ReadRecord(skip) ==
    /\ work.pc = "record"
    /\ skip \subseteq IF linked THEN work.dirty ELSE Fields
    /\ work' = [work EXCEPT !.pc = "push", !.linked = linked, !.data = local, !.skip = skip]
    /\ UNCHANGED <<recordVars, remoteVars, jobVars, fetched, failures>>

NeedsCreateAlways == TRUE
NeedsCreate == ~work.linked
Payload == (IF NeedsCreate THEN Fields ELSE work.dirty) \ work.skip

(* The PATCH or POST reaches Salesforce; a POST makes a record of its own.   *)
Accepted ==
    /\ sf' = [f \in Fields |-> IF f \in Payload THEN work.data[f]
                               ELSE IF NeedsCreate THEN Original ELSE sf[f]]
    /\ news' = TRUE
    /\ created' = IF NeedsCreate THEN created + 1 ELSE created
    /\ unsent' = unsent \ {f \in Payload : local[f] = work.data[f]}
    /\ UNCHANGED sfEdits

Push ==
    /\ work.pc = "push" /\ Payload # {}
    /\ Accepted
    /\ work' = [work EXCEPT !.pc = IF NeedsCreate THEN "link" ELSE "clear"]
    /\ UNCHANGED <<local, linked, overlap, editing, outbox, dropped, skipped, edits, twins, jobVars, fetched, failures>>

NothingToPush ==
    /\ work.pc = "push" /\ Payload = {}
    /\ work' = [work EXCEPT !.pc = "clear"]
    /\ UNCHANGED <<recordVars, remoteVars, jobVars, fetched, failures>>

(* An import reads the new Salesforce record first and, nothing here having  *)
(* its id, inserts a second row with it.                                     *)
ImportTwin ==
    /\ work.pc = "link" /\ ~work.twin /\ twins < MaxTwins
    /\ twins' = twins + 1
    /\ work' = [work EXCEPT !.twin = TRUE]
    /\ UNCHANGED <<local, linked, overlap, editing, outbox, unsent, dropped, skipped, edits, remoteVars, jobVars, fetched, failures>>

(* A job that throws is retried while it has attempts left.                  *)
Throws == job' = (IF tries < Attempts THEN "waiting" ELSE "kept") /\ work' = NoWork

(* setRecordSalesforceId: only where salesforce_id is null; the index on it  *)
(* is unique.                                                                *)
Link ==
    /\ work.pc = "link"
    /\ \/ work.twin /\ Throws /\ UNCHANGED linked
       \/ ~work.twin /\ linked' = TRUE /\ work' = [work EXCEPT !.pc = "clear"] /\ UNCHANGED job
    /\ UNCHANGED <<local, overlap, editing, outbox, unsent, dropped, skipped, edits, twins, remoteVars, hooks, tries, fetched, failures>>

(* The row is deleted if its updated_at equals the one that was read.        *)
Untouched == outbox.present /\ outbox.stamp = work.stamp /\ work.exact

Clear ==
    /\ work.pc = "clear"
    /\ outbox' = IF Untouched THEN NoRow ELSE outbox
    /\ dropped' = IF Untouched THEN dropped \cup (work.skip \cap work.dirty) ELSE dropped
    /\ Finished
    /\ UNCHANGED <<local, linked, overlap, editing, unsent, skipped, edits, twins, remoteVars, hooks, tries, fetched, failures>>

(* A call throws, with or without having been applied, or the worker dies.   *)
Fails ==
    /\ work.pc # "idle" /\ failures < MaxFailures
    /\ failures' = failures + 1
    /\ Throws
    /\ \/ UNCHANGED <<recordVars, remoteVars>>
       \/ work.pc = "push" /\ Payload # {} /\ Accepted /\ UNCHANGED <<local, linked, overlap, editing, outbox, dropped, skipped, edits, twins>>
    /\ UNCHANGED <<hooks, tries, fetched>>

-----------------------------------------------------------------------------
(* Salesforce users edit too, the new record before its id is stored here.   *)
InSalesforce == linked \/ created > 0

SfEdit(f) ==
    /\ InSalesforce /\ sfEdits < MaxSfEdits
    /\ sfEdits' = sfEdits + 1
    /\ sf' = [sf EXCEPT ![f] = [by |-> "sf", n |-> sfEdits + 1]]
    /\ news' = TRUE
    /\ UNCHANGED <<recordVars, created, jobVars, work, fetched, failures>>

(* pollObject: the probe finds the linked record, the fetch reads it.        *)
PollFetch ==
    /\ linked /\ news /\ ~fetched.held
    /\ news' = FALSE
    /\ fetched' = [held |-> TRUE, row |-> sf]
    /\ UNCHANGED <<recordVars, sf, created, sfEdits, jobVars, work, failures>>

(* A record whose id is not known here is passed over, the cursor moves on.  *)
ChangedByOthers(row) == {f \in Fields : row[f] # local[f] /\ row[f].by = "sf"}
Changed(row) == {f \in Fields : row[f] # local[f]}

PollPass ==
    /\ ~linked /\ created > 0 /\ news /\ ~fetched.held
    /\ news' = FALSE
    /\ skipped' = Changed(sf)
    /\ UNCHANGED <<local, linked, overlap, editing, outbox, unsent, dropped, edits, twins, sf, created, sfEdits, jobVars, work, fetched, failures>>

(* applyInbound: only what differs from the record, and no capture.  It      *)
(* leaves out references whose target is not here or is of any object.       *)
Applied(skip) == Changed(fetched.row) \ skip

PollApply(skip) ==
    /\ fetched.held
    /\ local' = [f \in Fields |-> IF f \in Applied(skip) THEN fetched.row[f] ELSE local[f]]
    /\ unsent' = unsent \ Applied(skip)
    /\ dropped' = dropped \ Applied(skip)
    /\ skipped' = Changed(fetched.row) \cap skip
    /\ fetched' = NoFetch
    /\ UNCHANGED <<linked, overlap, editing, outbox, edits, twins, remoteVars, jobVars, work, failures>>

Next ==
    \/ \E e \in Editors : ReadForEdit(e)
    \/ \E keys \in SUBSET Fields \ {{}}, fraction \in BOOLEAN :
            EditAtOnce(keys, fraction) \/ \E e \in Editors : EditLate(e, keys, fraction)
    \/ RunHook \/ LoseHook \/ Evict
    \/ ReadOutbox \/ Push \/ NothingToPush \/ ImportTwin \/ Link \/ Clear \/ Fails
    \/ \E skip \in SUBSET Refs : ReadRecord(skip) \/ PollApply(skip)
    \/ \E f \in Fields : SfEdit(f)
    \/ PollFetch \/ PollPass

Spec == Init /\ [][Next]_vars

-----------------------------------------------------------------------------
(* A worker holds a job exactly while the job is active, and pushes only     *)
(* keys that are dirty in the row it read.                                   *)
TypeOK ==
    /\ local \in [Fields -> Value] /\ sf \in [Fields -> Value]
    /\ linked \in BOOLEAN /\ overlap \in BOOLEAN /\ news \in BOOLEAN
    /\ outbox \in [present : BOOLEAN, dirty : SUBSET Fields, stamp : 0..MaxEdits, exact : BOOLEAN]
    /\ outbox.present <=> outbox.dirty # {}
    /\ unsent \subseteq Fields /\ dropped \subseteq Refs /\ skipped \subseteq Fields
    /\ editing \in [Editors -> [open : BOOLEAN, merged : [Fields -> Value]]]
    /\ job \in {"none", "waiting", "active", "kept"}
    /\ (job = "active") <=> (work.pc # "idle")
    /\ work.pc \in {"idle", "record", "push", "link", "clear"}
    /\ work.dirty \subseteq Fields
    /\ outbox.present => work.stamp <= outbox.stamp
    /\ fetched.row \in [Fields -> Value]
    /\ twins \in 0..MaxTwins /\ hooks \in Nat /\ created \in Nat /\ tries \in 0..Attempts

(* "worker retries never lose keys" (queries/sf-sync.ts:3): a key edited     *)
(* here and not yet pushed is in the outbox, through failed pushes, lost     *)
(* enqueues and edits made during a push.  The one exception is a reference  *)
(* whose target had no Salesforce id when a push left it out and cleared it. *)
UnsentIsDirty == unsent \subseteq outbox.dirty \cup dropped

(* At rest (nothing to push, nothing in flight, nothing to poll) the two     *)
(* systems hold the same values, when updates of the record do not overlap,  *)
(* but for references: those a push left out, and those the latest poll left *)
(* as they were, or all it read of a record whose id was not stored yet.     *)
AtRest == ~outbox.present /\ work.pc = "idle" /\ ~news /\ ~fetched.held /\ linked
AgreeAtRest == AtRest /\ ~overlap => \A f \in Fields \ (dropped \cup skipped) : local[f] = sf[f]

(* The record gets one counterpart, but for one more each time a call fails  *)
(* or an import takes the new Salesforce id before it is stored.             *)
CreatedPerFailure == created <= 1 + failures + twins
=============================================================================
