------------------------------- MODULE SfPoll -------------------------------
(***************************************************************************)
(* The poll half of the Salesforce sync, for one imported object: each     *)
(* tick probes for changes past the cursor, fetches the changed records    *)
(* that exist locally, applies them one by one, asks for the backfill and  *)
(* moves the cursor.  A record's value is the number of changes it has had *)
(* in Salesforce; what users edit here is in SfWriteback.                  *)
(***************************************************************************)
EXTENDS Naturals, FiniteSets

CONSTANTS
    Ids,        \* records of the object in Salesforce
    Pollers,    \* poll jobs of the organisation that may run at once
    Limit,      \* POLL_PROBE_LIMIT
    Chunk,      \* FETCH_CHUNK
    MaxChanges, \* bound: changes in Salesforce
    MaxImports, \* bound: records imported after the first import
    MaxPollCrashes  \* bound: polls that fail or whose worker dies

ASSUME PollBoundAssumption ==
    /\ IsFiniteSet(Ids) /\ Limit \in Nat \ {0} /\ Chunk \in Nat \ {0}
    /\ {MaxChanges, MaxImports, MaxPollCrashes} \subseteq Nat

VARIABLES
    sf,       \* each record's value and SystemModstamp
    clock,    \* the newest instant
    known,    \* records that exist locally
    local,    \* their values here
    syncCursor,   \* sf_sync_cursor
    since,    \* where the cursor started
    poll,     \* what each poll job holds
    importing,\* values an import has fetched and not inserted
    stale,    \* applied records whose backfill has not been asked for
    passed,   \* history: records whose latest change a probe left behind
    reverted, \* history: records an older value was put back into
    changes, imports, pollCrashes

remoteVars == <<sf, clock, changes>>
localVars == <<known, local, stale>>
importVars == <<importing, imports>>
cursorVars == <<syncCursor, since>>
historyVars == <<passed, reverted>>
pollVars == <<remoteVars, localVars, cursorVars, poll, importVars, historyVars, pollCrashes>>

NoCursor == [set |-> FALSE, at |-> 0]
IdlePoll == [pc |-> "idle", from |-> 0, probe |-> {}, newest |-> 0, todo |-> {}, chunk |-> {},
         rows |-> [r \in Ids |-> 0], applied |-> FALSE]
NotFetched == [held |-> FALSE, value |-> 0]

PollInit ==
    /\ sf = [r \in Ids |-> [value |-> 0, stamp |-> 0]]
    /\ clock = 0
    /\ known \in {S \in SUBSET Ids : Cardinality(Ids \ S) <= MaxImports}
    /\ local = [r \in Ids |-> 0]
    /\ syncCursor \in {NoCursor, [set |-> TRUE, at |-> 0]}
    /\ since = 0
    /\ poll = [p \in Pollers |-> IdlePoll]
    /\ importing = [r \in Ids |-> NotFetched]
    /\ stale = {} /\ passed = {} /\ reverted = {}
    /\ changes = 0 /\ imports = 0 /\ pollCrashes = 0

-----------------------------------------------------------------------------
(* Salesforce: a change stamps its record with the time, which it may share  *)
(* with another.  One whose stamp a cursor or a probe has reached already is *)
(* behind it from the start.                                                 *)
Reached(t) ==
    t <= syncCursor.at \/ \E p \in Pollers : t <= poll[p].from \/ t <= poll[p].newest

Change(r, t) ==
    /\ changes < MaxChanges
    /\ t \in {clock, clock + 1} /\ t > 0
    /\ changes' = changes + 1
    /\ clock' = t
    /\ sf' = [sf EXCEPT ![r] = [value |-> @.value + 1, stamp |-> t]]
    /\ passed' = IF Reached(t) THEN passed \cup {r} ELSE passed \ {r}
    /\ reverted' = reverted \ {r}
    /\ UNCHANGED <<localVars, cursorVars, poll, importVars, pollCrashes>>

(* executeRun: records are fetched, and inserted a batch later unless they   *)
(* are here by then (ON CONFLICT DO NOTHING).                                *)
ImportFetch(r) ==
    /\ ~importing[r].held /\ imports < MaxImports
    /\ imports' = imports + 1
    /\ importing' = [importing EXCEPT ![r] = [held |-> TRUE, value |-> sf[r].value]]
    /\ UNCHANGED <<remoteVars, localVars, cursorVars, poll, historyVars, pollCrashes>>

InsertedOver(r) == importing[r].value
Inserted(r) == IF r \in known THEN local[r] ELSE importing[r].value

ImportInsert(r) ==
    /\ importing[r].held
    /\ known' = known \cup {r}
    /\ local' = [local EXCEPT ![r] = Inserted(r)]
    /\ importing' = [importing EXCEPT ![r] = NotFetched]
    /\ UNCHANGED <<remoteVars, stale, cursorVars, poll, imports, historyVars, pollCrashes>>

-----------------------------------------------------------------------------
(* pollObject.  With no cursor it starts from now and does nothing else.     *)
FirstPoll(p) ==
    /\ poll[p].pc = "idle" /\ ~syncCursor.set
    /\ syncCursor' = [set |-> TRUE, at |-> clock]
    /\ since' = clock
    /\ UNCHANGED <<remoteVars, localVars, poll, importVars, historyVars, pollCrashes>>

ReadCursor(p) ==
    /\ poll[p].pc = "idle" /\ syncCursor.set
    /\ poll' = [poll EXCEPT ![p] = [IdlePoll EXCEPT !.pc = "probe", !.from = syncCursor.at]]
    /\ UNCHANGED <<remoteVars, localVars, cursorVars, importVars, historyVars, pollCrashes>>

(* WHERE SystemModstamp > from ORDER BY SystemModstamp ASC LIMIT Limit.      *)
Past(from) == {r \in Ids : sf[r].stamp > from}
AtMost(n, S) == IF Cardinality(S) < n THEN Cardinality(S) ELSE n
Oldest(S, among) == \A r \in S, q \in among \ S : sf[r].stamp <= sf[q].stamp

IsProbe(S, from) ==
    /\ S \subseteq Past(from)
    /\ Cardinality(S) = AtMost(Limit, Past(from))
    /\ Oldest(S, Past(from))

NewestOf(S) == CHOOSE t \in {sf[r].stamp : r \in S} : \A r \in S : sf[r].stamp <= t

(* What a full page leaves out although it has the stamp of its last record. *)
LeftOut(S, from) == {r \in Past(from) \ S : \E q \in S : sf[q].stamp = sf[r].stamp}

Probe(p, S) ==
    /\ poll[p].pc = "probe"
    /\ IsProbe(S, poll[p].from)
    /\ poll' = [poll EXCEPT ![p] =
                  IF S = {} THEN IdlePoll
                  ELSE [@ EXCEPT !.pc = "match", !.probe = S, !.newest = NewestOf(S)]]
    /\ passed' = passed \cup LeftOut(S, poll[p].from)
    /\ UNCHANGED <<remoteVars, localVars, cursorVars, importVars, reverted, pollCrashes>>

(* recordIdsBySalesforceIds: those that are not here are skipped.            *)
Match(p) ==
    /\ poll[p].pc = "match"
    /\ LET here == poll[p].probe \cap known IN
       poll' = [poll EXCEPT ![p].pc = IF here = {} THEN "cursor" ELSE "fetch", ![p].todo = here]
    /\ UNCHANGED <<remoteVars, localVars, cursorVars, importVars, historyVars, pollCrashes>>

Fetch(p, C) ==
    /\ poll[p].pc = "fetch"
    /\ C \subseteq poll[p].todo /\ Cardinality(C) = AtMost(Chunk, poll[p].todo)
    /\ poll' = [poll EXCEPT ![p].pc = "apply", ![p].chunk = C, ![p].todo = @ \ C,
                            ![p].rows = [r \in Ids |-> sf[r].value]]
    /\ UNCHANGED <<remoteVars, localVars, cursorVars, importVars, historyVars, pollCrashes>>

(* applyInbound: one transaction per record, nothing if no key differs.      *)
AfterApplying(q, left) ==
    IF left # {} THEN "apply" ELSE IF q.todo # {} THEN "fetch"
    ELSE IF q.applied THEN "ask" ELSE "cursor"

LastDiffers(q, differs) == differs
AnyDiffers(q, differs) == q.applied \/ differs

Apply(p, r) ==
    LET q == poll[p]
        differs == local[r] # q.rows[r]
        current == q.rows[r] = sf[r].value
        left == q.chunk \ {r}
        then == [q EXCEPT !.chunk = left, !.applied = AnyDiffers(q, differs)]
    IN
    /\ q.pc = "apply" /\ r \in q.chunk
    /\ local' = [local EXCEPT ![r] = q.rows[r]]
    /\ stale' = IF differs THEN stale \cup {r} ELSE stale
    /\ passed' = IF current THEN passed \ {r} ELSE passed
    /\ reverted' = IF current THEN reverted \ {r}
                   ELSE IF q.rows[r] < local[r] THEN reverted \cup {r} ELSE reverted
    /\ poll' = [poll EXCEPT ![p] = [then EXCEPT !.pc = AfterApplying(then, left)]]
    /\ UNCHANGED <<remoteVars, known, cursorVars, importVars, pollCrashes>>

(* enqueueCompute, taken as accepted: ComputeBackfill models when it is not. *)
Ask(p) ==
    /\ poll[p].pc = "ask"
    /\ stale' = {}
    /\ poll' = [poll EXCEPT ![p].pc = "cursor"]
    /\ UNCHANGED <<remoteVars, known, local, cursorVars, importVars, historyVars, pollCrashes>>

ProbedNow(q) == clock
ProbedFrom(q) == q.from
ProbedPast(q) == q.newest

Ended(q) == IdlePoll

MoveCursor(p) ==
    /\ poll[p].pc = "cursor"
    /\ syncCursor' = [set |-> TRUE, at |-> ProbedPast(poll[p])]
    /\ poll' = [poll EXCEPT ![p] = Ended(poll[p])]
    /\ UNCHANGED <<remoteVars, localVars, since, importVars, historyVars, pollCrashes>>

(* The error is caught per object, or the worker dies: the next tick starts  *)
(* over from the cursor.                                                     *)
PollCrash(p) ==
    /\ poll[p].pc # "idle" /\ pollCrashes < MaxPollCrashes
    /\ pollCrashes' = pollCrashes + 1
    /\ poll' = [poll EXCEPT ![p] = IdlePoll]
    /\ UNCHANGED <<remoteVars, localVars, cursorVars, importVars, historyVars>>

Poll(p) ==
    \/ FirstPoll(p) \/ ReadCursor(p) \/ Match(p) \/ Ask(p) \/ MoveCursor(p)
    \/ \E S \in SUBSET Ids : Probe(p, S) \/ Fetch(p, S)
    \/ \E r \in Ids : Apply(p, r)

PollNext ==
    \/ \E r \in Ids : \/ \E t \in 0..MaxChanges : Change(r, t)
                      \/ ImportFetch(r)
                      \/ ImportInsert(r)
    \/ \E p \in Pollers : Poll(p) \/ PollCrash(p)

PollSpec == PollInit /\ [][PollNext]_pollVars

(* The repeatable job comes back at every tick, and the poll runs on.        *)
FairPollSpec == PollSpec /\ \A p \in Pollers : WF_pollVars(Poll(p))

-----------------------------------------------------------------------------
(* Values of the expected kinds; a poll at rest holds nothing, one at work   *)
(* never holds more than its limits, and only what is here.                  *)
PollTypeOK ==
    /\ clock \in 0..MaxChanges /\ \A r \in Ids : sf[r].stamp <= clock /\ sf[r].value <= changes
    /\ known \subseteq Ids /\ local \in [Ids -> 0..MaxChanges] /\ stale \subseteq known
    /\ passed \subseteq Ids /\ reverted \subseteq known
    /\ syncCursor.at \in 0..clock /\ since \in 0..clock
    /\ \A p \in Pollers :
        /\ poll[p].pc \in {"idle", "probe", "match", "fetch", "apply", "ask", "cursor"}
        /\ poll[p].pc = "idle" => poll[p] = IdlePoll
        /\ Cardinality(poll[p].probe) <= Limit /\ Cardinality(poll[p].chunk) <= Chunk
        /\ poll[p].todo \cup poll[p].chunk \subseteq poll[p].probe \cap known

(* No record here lags behind a change made since the cursor started and at  *)
(* or before it, but for two kinds: a change whose stamp equals that of a    *)
(* probe's last record and that this probe did not see, and a record another *)
(* poll has put an older value into.  What an import brings in is apart.     *)
Lagging == {r \in known : sf[r].stamp \in since + 1 .. syncCursor.at /\ local[r] # sf[r].value}
CursorCovers == syncCursor.set /\ imports = 0 => Lagging \subseteq passed \cup reverted

(* What schema.ts:816 says of the cursor, the "SystemModstamp of the newest  *)
(* change applied (or probed past)", where what is probed past are "records  *)
(* unknown to Northbeam" (sf-sync-worker.ts:8-9): of those that are here,    *)
(* nothing older is left to apply.                                           *)
NewestApplied == syncCursor.set /\ imports = 0 => Lagging = {}

(* The poll applies "only real changes": it never puts an older value of     *)
(* Salesforce over a newer one.                                              *)
NeverBackwards == [][\A r \in known : local[r] <= local'[r]]_pollVars

(* Once no poll is under way, every record one has changed has been handed   *)
(* to the backfill, unless a poll died in between.                           *)
AppliedIsRecomputed ==
    (\A p \in Pollers : poll[p].pc = "idle") /\ pollCrashes = 0 => stale = {}

(* Once Salesforce is quiet, every record that was here and changed since    *)
(* the cursor started holds what Salesforce holds, and keeps it, unless a    *)
(* probe left its latest change behind or an older value was put back.       *)
ChangesArrive ==
    <>[](/\ syncCursor.set
         /\ imports = 0 => \A r \in known \ (passed \cup reverted) :
                              sf[r].stamp > since => local[r] = sf[r].value)
=============================================================================
