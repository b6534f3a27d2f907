------------------------- MODULE SyncedCopies_proofs -------------------------
(***************************************************************************)
(* Two components that keep a copy of what is stored elsewhere.            *)
(*                                                                         *)
(* The write-back: for every set of fields, editors, number of attempts    *)
(* and bounds, nothing edited here is forgotten by the outbox, only failed *)
(* calls and imports that get in between make a record's second            *)
(* counterpart, and without overlapping updates both sides agree at rest.  *)
(*                                                                         *)
(* The chat page: for every number of turns, tools, pages and faults, and  *)
(* however much of a thread is sent back, the page and its row are in step *)
(* once a turn is saved, and saving a turn loses no entry of its row.      *)
(***************************************************************************)
EXTENDS SfWriteback, AiChat, TLAPS, FiniteSetTheorems, SequenceTheorems, FunctionTheorems


(* The row the worker read is still there, unless an edit touched it since.  *)
Same == outbox.present /\ outbox.stamp = work.stamp

Shape ==
    /\ edits \in Nat /\ created \in Nat /\ failures \in Nat /\ twins \in Nat
    /\ outbox \in [present : BOOLEAN, dirty : SUBSET Fields, stamp : 0..edits, exact : BOOLEAN]
    /\ work = [pc |-> work.pc, dirty |-> work.dirty, stamp |-> work.stamp, exact |-> work.exact,
               linked |-> work.linked, twin |-> work.twin, skip |-> work.skip, data |-> work.data]
    /\ work.stamp \in 0..edits
    /\ work.pc \in {"idle", "record", "push", "link", "clear"}
    /\ unsent \subseteq Fields

(* What the worker owes is what it read: the keys of the row, their values,  *)
(* and after the push nothing but what it skipped.                           *)
Owed ==
    /\ work.pc # "idle" /\ Same => work.dirty = outbox.dirty
    /\ work.pc = "push" /\ Same => \A f \in unsent \ dropped : local[f] = work.data[f]
    /\ work.pc \in {"link", "clear"} /\ Same => unsent \ dropped \subseteq work.skip

Inv == Shape /\ Owed /\ UnsentIsDirty

LEMMA InitInv == Init => Inv
  <1> SUFFICES ASSUME Init PROVE Inv
    OBVIOUS
  <1>1. outbox \in [present : BOOLEAN, dirty : SUBSET Fields, stamp : {0}, exact : BOOLEAN]
    <2>1. CASE linked
      <3>1. outbox = [present |-> FALSE, dirty |-> {}, stamp |-> 0, exact |-> TRUE]
        BY <2>1 DEF Init, NoRow
      <3> QED BY <3>1
    <2>2. CASE ~linked
      <3>1. PICK e \in BOOLEAN : outbox = [present |-> TRUE, dirty |-> Fields, stamp |-> 0, exact |-> e]
        BY <2>2 DEF Init
      <3> QED BY <3>1
    <2> QED BY <2>1, <2>2
  <1>3. unsent \subseteq Fields
    BY DEF Init
  <1>4. Shape
    BY <1>1, <1>3 DEF Init, Shape, NoWork
  <1>2. Owed /\ UnsentIsDirty
    BY DEF Init, Owed, UnsentIsDirty, NoRow, NoWork, Same
  <1> QED BY <1>2, <1>4 DEF Inv

(* A new edit stamps the row later than anything the worker read.            *)
LEMMA EditInv ==
    ASSUME Inv, NEW merged, NEW keys \in SUBSET Fields, NEW fraction \in BOOLEAN,
           Edit(merged, keys, fraction)
    PROVE  Inv'
  <1>1. outbox' = [present |-> TRUE, dirty |-> outbox.dirty \cup keys, stamp |-> edits + 1,
                   exact |-> outbox.present \/ ~fraction]
    BY DEF Edit, Touch
  <1>2. Shape'
    <2>1. edits' = edits + 1 /\ UNCHANGED <<created, failures, twins, work>>
      BY DEF Edit, remoteVars
    <2>2. outbox.dirty \cup keys \subseteq Fields /\ (outbox.present \/ ~fraction) \in BOOLEAN
      BY DEF Inv, Shape
    <2>3. edits' \in Nat /\ edits + 1 \in 0..edits' /\ work.stamp \in 0..edits'
      BY <2>1 DEF Inv, Shape
    <2>4. outbox' \in [present : BOOLEAN, dirty : SUBSET Fields, stamp : 0..edits', exact : BOOLEAN]
      BY <1>1, <2>2, <2>3
    <2>5. unsent' \subseteq Fields
      BY DEF Edit, Inv, Shape
    <2> QED BY <2>1, <2>3, <2>4, <2>5 DEF Inv, Shape
  <1>3. ~Same'
    BY <1>1 DEF Edit, Same, Inv, Shape
  <1>4. Owed'
    BY <1>3 DEF Owed
  <1>5. UnsentIsDirty'
    BY <1>1 DEF Edit, UnsentIsDirty, Inv
  <1> QED BY <1>2, <1>4, <1>5 DEF Inv

(* Steps that leave the row, the record and what is unsent as they were, and *)
(* the worker idle or where it was.                                          *)
LEMMA ElsewhereInv ==
    ASSUME Inv, UNCHANGED <<local, outbox, unsent, dropped, edits>>,
           created' \in Nat, failures' \in Nat, twins' \in Nat,
           \/ work' = NoWork
           \/ UNCHANGED work
           \/ work.pc = "link" /\ work' = [work EXCEPT !.twin = TRUE]
           \/ work.pc = "link" /\ work' = [work EXCEPT !.pc = "clear"]
    PROVE  Inv'
  <1>1. Shape'
    BY DEF Inv, Shape, NoWork
  <1>2. Owed'
    BY DEF Inv, Shape, Owed, NoWork, Same
  <1>3. UnsentIsDirty'
    BY DEF Inv, UnsentIsDirty
  <1> QED BY <1>1, <1>2, <1>3 DEF Inv

(* What reaches Salesforce is what is unsent, but for what was skipped.      *)
LEMMA AcceptedSends ==
    ASSUME Inv, work.pc = "push", Same, NEW f \in unsent \ dropped, f \notin work.skip
    PROVE  f \in Payload /\ local[f] = work.data[f]
  <1>1. f \in outbox.dirty /\ f \in Fields
    BY DEF Inv, UnsentIsDirty, Shape
  <1> QED BY <1>1 DEF Inv, Owed, Payload

LEMMA WorkerInv ==
    ASSUME Inv,
           ReadOutbox \/ Push \/ NothingToPush \/ ImportTwin \/ Link \/ Clear \/ Fails
              \/ \E skip \in SUBSET Refs : ReadRecord(skip)
    PROVE  Inv'
  <1>1. CASE ReadOutbox
    <2>1. CASE work' = NoWork
      BY <1>1, <2>1, ElsewhereInv DEF ReadOutbox, recordVars, remoteVars, Inv, Shape
    <2>2. CASE /\ outbox.present
               /\ work' = [NoWork EXCEPT !.pc = "record", !.dirty = outbox.dirty,
                                         !.stamp = outbox.stamp, !.exact = outbox.exact]
      <3>1. UNCHANGED <<local, outbox, unsent, dropped, edits, created, failures, twins>>
        BY <1>1 DEF ReadOutbox, recordVars, remoteVars
      <3>2. Shape'
        BY <2>2, <3>1 DEF Inv, Shape, NoWork
      <3>3. Owed'
        BY <2>2, <3>1 DEF Owed, NoWork
      <3>4. UnsentIsDirty'
        BY <3>1 DEF Inv, UnsentIsDirty
      <3> QED BY <3>2, <3>3, <3>4 DEF Inv
    <2> QED BY <1>1, <2>1, <2>2 DEF ReadOutbox, Finished
  <1>2. ASSUME NEW skip \in SUBSET Refs, ReadRecord(skip) PROVE Inv'
    <2>1. UNCHANGED <<local, outbox, unsent, dropped, edits, created, failures, twins>>
      BY <1>2 DEF ReadRecord, recordVars, remoteVars
    <2>2. work' = [work EXCEPT !.pc = "push", !.linked = linked, !.data = local, !.skip = skip]
      BY <1>2 DEF ReadRecord
    <2>3. Shape'
      BY <2>1, <2>2 DEF Inv, Shape
    <2>4. Owed'
      BY <1>2, <2>1, <2>2 DEF Inv, Shape, Owed, Same, ReadRecord
    <2>5. UnsentIsDirty'
      BY <2>1 DEF Inv, UnsentIsDirty
    <2> QED BY <2>3, <2>4, <2>5 DEF Inv
  <1>3. CASE Push
    <2>1. UNCHANGED <<local, outbox, dropped, edits, failures, twins>>
      BY <1>3 DEF Push
    <2>2. /\ unsent' = unsent \ {f \in Payload : local[f] = work.data[f]}
          /\ created' \in Nat
      BY <1>3 DEF Push, Accepted, Inv, Shape
    <2>3. work' = [work EXCEPT !.pc = IF NeedsCreate THEN "link" ELSE "clear"]
      BY <1>3 DEF Push
    <2>4. Shape'
      BY <2>1, <2>2, <2>3 DEF Inv, Shape
    <2>5. Owed'
      <3>1. ASSUME Same, NEW f \in unsent' \ dropped PROVE f \in work.skip
        BY <1>3, <2>2, <3>1, AcceptedSends DEF Push
      <3>2. work'.pc \in {"link", "clear"} /\ work'.skip = work.skip /\ work'.dirty = work.dirty
        BY <2>3 DEF Inv, Shape
      <3>3. Same' => Same
        BY <2>1, <2>3 DEF Same, Inv, Shape
      <3>4. Same' => work'.dirty = outbox'.dirty
        BY <1>3, <2>1, <3>2, <3>3 DEF Push, Inv, Owed
      <3> QED BY <2>1, <3>1, <3>2, <3>3, <3>4 DEF Owed
    <2>6. UnsentIsDirty'
      BY <2>1, <2>2 DEF Inv, UnsentIsDirty
    <2> QED BY <2>4, <2>5, <2>6 DEF Inv
  <1>4. CASE NothingToPush
    <2>1. UNCHANGED <<local, outbox, unsent, dropped, edits, created, failures, twins>>
      BY <1>4 DEF NothingToPush, recordVars, remoteVars
    <2>2. work' = [work EXCEPT !.pc = "clear"]
      BY <1>4 DEF NothingToPush
    <2>3. Shape'
      BY <2>1, <2>2 DEF Inv, Shape
    <2>4. ASSUME Same, NEW f \in unsent \ dropped PROVE f \in work.skip
      BY <1>4, <2>4, AcceptedSends DEF NothingToPush
    <2>5. Owed'
      BY <1>4, <2>1, <2>2, <2>4 DEF Inv, Shape, Owed, Same, NothingToPush
    <2>6. UnsentIsDirty'
      BY <2>1 DEF Inv, UnsentIsDirty
    <2> QED BY <2>3, <2>5, <2>6 DEF Inv
  <1>5. CASE ImportTwin
    BY <1>5, ElsewhereInv DEF ImportTwin, remoteVars, Inv, Shape
  <1>6. CASE Link
    BY <1>6, ElsewhereInv DEF Link, Throws, remoteVars, Inv, Shape
  <1>7. CASE Clear
    <2>1. UNCHANGED <<local, unsent, edits, created, failures, twins>> /\ work' = NoWork
      BY <1>7 DEF Clear, Finished, remoteVars
    <2>2. outbox' \in {outbox, NoRow}
      BY <1>7 DEF Clear
    <2>3. Shape'
      <3>1. outbox' \in [present : BOOLEAN, dirty : SUBSET Fields, stamp : 0..edits, exact : BOOLEAN]
        <4>1. NoRow \in [present : BOOLEAN, dirty : SUBSET Fields, stamp : 0..edits, exact : BOOLEAN]
          <5>1. 0 \in 0..edits
            BY DEF Inv, Shape
          <5> QED BY <5>1 DEF NoRow
        <4> QED BY <2>2, <4>1 DEF Inv, Shape
      <3> QED BY <2>1, <3>1 DEF Inv, Shape, NoWork
    <2>4. Owed'
      BY <2>1 DEF Owed, NoWork
    <2>5. UnsentIsDirty'
      <3>1. CASE Untouched
        BY <1>7, <2>1, <3>1 DEF Clear, Untouched, Same, Inv, Owed, UnsentIsDirty
      <3>2. CASE ~Untouched
        BY <1>7, <2>1, <3>2 DEF Clear, Inv, UnsentIsDirty
      <3> QED BY <3>1, <3>2
    <2> QED BY <2>3, <2>4, <2>5 DEF Inv
  <1>8. CASE Fails
    <2>1. work' = NoWork /\ failures' \in Nat
      BY <1>8 DEF Fails, Throws, Inv, Shape
    <2>2. CASE UNCHANGED <<recordVars, remoteVars>>
      BY <2>1, <2>2, ElsewhereInv DEF recordVars, remoteVars, Inv, Shape
    <2>3. CASE Accepted /\ UNCHANGED <<local, linked, overlap, editing, outbox, dropped, skipped, edits, twins>>
      <3>1. unsent' \subseteq unsent /\ created' \in Nat
        BY <2>3 DEF Accepted, Inv, Shape
      <3>2. Shape'
        BY <2>1, <2>3, <3>1 DEF Inv, Shape, NoWork
      <3>3. Owed' /\ UnsentIsDirty'
        BY <2>1, <2>3, <3>1 DEF Inv, Owed, NoWork, UnsentIsDirty
      <3> QED BY <3>2, <3>3 DEF Inv
    <2> QED BY <1>8, <2>2, <2>3 DEF Fails
  <1> QED BY <1>1, <1>2, <1>3, <1>4, <1>5, <1>6, <1>7, <1>8

(* What a poll applies is no longer unsent.                                  *)
LEMMA PollApplyInv ==
    ASSUME Inv, NEW skip \in SUBSET Refs, PollApply(skip)
    PROVE  Inv'
  <1>1. UNCHANGED <<outbox, edits, created, failures, twins, work>>
    BY DEF PollApply, remoteVars
  <1>2. unsent' = unsent \ Applied(skip) /\ dropped' = dropped \ Applied(skip)
    BY DEF PollApply
  <1>3. \A f \in unsent' : local'[f] = local[f]
    BY <1>2 DEF PollApply, Inv, Shape
  <1>4. Shape'
    BY <1>1, <1>2 DEF Inv, Shape
  <1>5. unsent' \ dropped' \subseteq unsent \ dropped
    BY <1>2
  <1>6. Owed'
    BY <1>1, <1>3, <1>5 DEF Inv, Owed, Same
  <1>7. UnsentIsDirty'
    BY <1>1, <1>2 DEF Inv, UnsentIsDirty
  <1> QED BY <1>4, <1>6, <1>7 DEF Inv

LEMMA NextInv == Inv /\ [Next]_vars => Inv'
  <1> SUFFICES ASSUME Inv, [Next]_vars PROVE Inv'
    OBVIOUS
  <1>1. ASSUME NEW e \in Editors, ReadForEdit(e) PROVE Inv'
    BY <1>1, ElsewhereInv DEF ReadForEdit, remoteVars, Inv, Shape
  <1>2. ASSUME NEW keys \in SUBSET Fields, NEW fraction \in BOOLEAN,
               \/ EditAtOnce(keys, fraction)
               \/ \E e \in Editors : EditLate(e, keys, fraction)
        PROVE  Inv'
    BY <1>2, EditInv DEF EditAtOnce, EditLate
  <1>3. CASE RunHook \/ LoseHook \/ Evict
    BY <1>3, ElsewhereInv DEF RunHook, LoseHook, Evict, recordVars, remoteVars, Inv, Shape
  <1>4. ASSUME NEW f \in Fields, SfEdit(f) PROVE Inv'
    BY <1>4, ElsewhereInv DEF SfEdit, recordVars, Inv, Shape
  <1>5. CASE PollFetch \/ PollPass
    BY <1>5, ElsewhereInv DEF PollFetch, PollPass, recordVars, Inv, Shape
  <1>6. CASE UNCHANGED vars
    BY <1>6, ElsewhereInv DEF vars, recordVars, remoteVars, Inv, Shape
  <1> QED BY <1>1, <1>2, <1>3, <1>4, <1>5, <1>6, WorkerInv, PollApplyInv DEF Next

(* A key edited here is in the outbox until Salesforce has it, whatever      *)
(* fails (sf-sync-worker.ts:97-184 with queries/sf-sync.ts).                 *)
THEOREM NothingForgotten == Spec => []UnsentIsDirty
  <1>1. Inv => UnsentIsDirty
    BY DEF Inv
  <1> QED BY <1>1, InitInv, NextInv, PTL DEF Spec

-----------------------------------------------------------------------------
(* A record that is not linked was created once for every failure and twin,  *)
(* and once more while the worker is about to link it.                       *)
Counted ==
    /\ CreatedPerFailure
    /\ ~linked /\ (work.pc # "link" \/ work.twin) => created <= failures + twins
    /\ work.pc = "link" => ~linked
    /\ work.pc = "push" /\ ~work.linked => ~linked
    /\ work.pc \in {"idle", "record", "push", "clear"} => ~work.twin

LEMMA NextCounted == Inv /\ Counted /\ [Next]_vars => Counted'
  <1> SUFFICES ASSUME Inv, Counted, [Next]_vars PROVE Counted'
    OBVIOUS
  <1> USE DEF Counted, CreatedPerFailure
  <1>2. CASE ReadOutbox
    <2>1. UNCHANGED <<linked, created, failures, twins>>
      BY <1>2 DEF ReadOutbox, recordVars, remoteVars
    <2>2. work.pc = "idle"
      BY <1>2 DEF ReadOutbox
    <2>3. \/ work' = NoWork
          \/ work' = [NoWork EXCEPT !.pc = "record", !.dirty = outbox.dirty,
                                    !.stamp = outbox.stamp, !.exact = outbox.exact]
      BY <1>2 DEF ReadOutbox, Finished
    <2>4. work'.pc \in {"idle", "record"} /\ ~work'.twin
      <3>1. NoWork.pc = "idle" /\ NoWork.twin = FALSE
        BY DEF NoWork
      <3>2. CASE work' = NoWork
        BY <3>1, <3>2
      <3>3. CASE work' = [NoWork EXCEPT !.pc = "record", !.dirty = outbox.dirty,
                                        !.stamp = outbox.stamp, !.exact = outbox.exact]
        <4>1. work'.pc = "record"
          BY <3>3 DEF NoWork
        <4>2. work'.twin = FALSE
          BY <3>3 DEF NoWork
        <4> QED BY <4>1, <4>2
      <3> QED BY <2>3, <3>2, <3>3
    <2> QED BY <2>1, <2>2, <2>4
  <1>3. ASSUME NEW skip \in SUBSET Refs, ReadRecord(skip) PROVE Counted'
    BY <1>3 DEF ReadRecord, recordVars, remoteVars, Inv, Shape
  <1>4. CASE Push
    BY <1>4 DEF Push, Accepted, NeedsCreate, Inv, Shape
  <1>5. CASE NothingToPush
    BY <1>5 DEF NothingToPush, recordVars, remoteVars, Inv, Shape
  <1>6. CASE ImportTwin
    BY <1>6 DEF ImportTwin, remoteVars, Inv, Shape
  <1>7. CASE Link
    BY <1>7 DEF Link, Throws, NoWork, remoteVars, Inv, Shape
  <1>8. CASE Clear
    BY <1>8 DEF Clear, Finished, NoWork, remoteVars, Inv, Shape
  <1>9. CASE Fails
    BY <1>9 DEF Fails, Throws, Accepted, NeedsCreate, NoWork, recordVars, remoteVars, Inv, Shape
  <1>10. ASSUME NEW e \in Editors, ReadForEdit(e) PROVE Counted'
    BY <1>10 DEF ReadForEdit, remoteVars
  <1>11. ASSUME NEW keys, NEW fraction,
                \/ EditAtOnce(keys, fraction)
                \/ \E e \in Editors : EditLate(e, keys, fraction)
         PROVE  Counted'
    BY <1>11 DEF EditAtOnce, EditLate, Edit, remoteVars
  <1>12. CASE RunHook \/ LoseHook \/ Evict
    BY <1>12 DEF RunHook, LoseHook, Evict, recordVars, remoteVars
  <1>13. ASSUME NEW f \in Fields, SfEdit(f) PROVE Counted'
    BY <1>13 DEF SfEdit, recordVars
  <1>14. ASSUME PollFetch \/ PollPass \/ \E skip \in SUBSET Refs : PollApply(skip) PROVE Counted'
    BY <1>14 DEF PollFetch, PollPass, PollApply, recordVars, remoteVars
  <1>15. CASE UNCHANGED vars
    BY <1>15 DEF vars, recordVars, remoteVars
  <1> QED BY <1>2, <1>3, <1>4, <1>5, <1>6, <1>7, <1>8, <1>9, <1>10, <1>11, <1>12, <1>13,
             <1>14, <1>15 DEF Next

LEMMA InitCounted == Init => Counted
  BY DEF Init, Counted, CreatedPerFailure, NoWork

(* Each Salesforce record beyond the first has its failed call, dead worker  *)
(* or import in between (sf-sync-worker.ts:164-176).                         *)
THEOREM CounterpartsAreCounted == Spec => []CreatedPerFailure
  <1>1. Init => Counted
    BY InitCounted
  <1>2. Counted => CreatedPerFailure
    BY DEF Counted
  <1> QED BY <1>1, <1>2, InitInv, NextInv, NextCounted, PTL DEF Spec

-----------------------------------------------------------------------------
(* Whatever changes Salesforce leaves news for the poll, a poll brings the   *)
(* record to what Salesforce holds, but for what it skips, and what it did   *)
(* not bring is dirty, linked already or not.  A row about to be cleared is  *)
(* one whose keys have been sent or left out.                                *)
Polled == ~overlap /\ InSalesforce /\ ~news /\ ~fetched.held
Sent == work.pc \in {"link", "clear"} /\ Same

Unedited == ~overlap => \A e \in Editors : ~editing[e].open
Fetched == ~news /\ fetched.held => fetched.row = sf
Differs(f) == f \in Fields \ (dropped \cup skipped) /\ local[f] # sf[f]
DiffersDirty == Polled => \A f : Differs(f) => f \in outbox.dirty
DiffersSkipped == Polled /\ Sent => \A f : Differs(f) => f \in work.skip

Agreed ==
    /\ ~outbox.present => outbox.dirty = {}
    /\ work.pc = "link" => created > 0
    /\ Unedited /\ Fetched /\ DiffersDirty /\ DiffersSkipped

LEMMA InitAgreed == Init => Agreed
  BY DEF Init, Agreed, Unedited, Fetched, DiffersDirty, DiffersSkipped, Differs, Polled, InSalesforce, Sent,
         NoRow, NoWork, NoEdit, NoFetch

(* Steps of which neither side's values nor the poll know.                   *)
LEMMA ApartAgreed ==
    ASSUME Inv, Agreed,
           UNCHANGED <<local, sf, overlap, InSalesforce, created, news, fetched, outbox, dropped, skipped, editing>>,
           \/ work'.pc \in {"idle", "record", "push"}
           \/ work'.pc = work.pc /\ work'.skip = work.skip /\ work'.stamp = work.stamp
    PROVE  Agreed'
  <1>1. work'.pc = "link" => created' > 0
    BY DEF Agreed
  <1>2. Sent' => Sent /\ work'.skip = work.skip
    BY DEF Sent, Same
  <1>3. Unedited' /\ Fetched'
    BY DEF Agreed, Unedited, Fetched
  <1>4. Polled' = Polled /\ \A f : Differs(f)' = Differs(f)
    BY DEF Polled, Differs
  <1>5. DiffersDirty' /\ DiffersSkipped'
    BY <1>2, <1>4 DEF Agreed, DiffersDirty, DiffersSkipped
  <1> QED BY <1>1, <1>3, <1>5 DEF Agreed

(* What reaches Salesforce is news.                                          *)
LEMMA NewsAgreed ==
    ASSUME Agreed, news', work'.pc = "link" => created' > 0, UNCHANGED <<outbox, overlap, editing>>
    PROVE  Agreed'
  BY DEF Agreed, Unedited, Fetched, DiffersDirty, DiffersSkipped, Polled

(* An edit makes its keys dirty and changes no others, unless it overlaps.   *)
LEMMA EditAgreed ==
    ASSUME Inv, Agreed, NEW keys \in SUBSET Fields \ {{}}, NEW fraction \in BOOLEAN,
           \/ EditAtOnce(keys, fraction)
           \/ \E e \in Editors : EditLate(e, keys, fraction)
    PROVE  Agreed'
  <1>1. PICK merged : Edit(merged, keys, fraction) /\ (~overlap => merged = local)
    BY DEF EditAtOnce, EditLate, Agreed, Unedited
  <1>2. outbox' = [present |-> TRUE, dirty |-> outbox.dirty \cup keys, stamp |-> edits + 1,
                   exact |-> outbox.present \/ ~fraction]
    BY <1>1 DEF Edit, Touch
  <1>3. /\ UNCHANGED <<linked, created, overlap, skipped, sf, news, work, fetched>> /\ dropped' = dropped \ keys
        /\ ~overlap => \A f \in Fields \ keys : local'[f] = local[f]
    BY <1>1 DEF Edit, remoteVars
  <1>4. ~Sent'
    BY <1>2, <1>3 DEF Sent, Same, Inv, Shape
  <1>5. Unedited'
    BY <1>3 DEF EditAtOnce, EditLate, Agreed, Unedited
  <1>6. DiffersDirty'
    <2> SUFFICES ASSUME Polled', NEW f, Differs(f)' PROVE f \in outbox'.dirty
      BY DEF DiffersDirty
    <2>1. CASE f \in keys
      BY <1>2, <2>1
    <2>2. CASE f \notin keys
      <3>1. Polled /\ Differs(f)
        BY <1>3, <2>2 DEF Polled, InSalesforce, Differs
      <3> QED BY <1>2, <3>1 DEF Agreed, DiffersDirty
    <2> QED BY <2>1, <2>2
  <1> QED BY <1>2, <1>3, <1>4, <1>5, <1>6 DEF Agreed, Fetched, DiffersSkipped

LEMMA NextAgreed == Inv /\ Counted /\ Agreed /\ [Next]_vars => Agreed'
  <1> SUFFICES ASSUME Inv, Counted, Agreed, [Next]_vars PROVE Agreed'
    OBVIOUS
  <1>1. ASSUME NEW e \in Editors, ReadForEdit(e) PROVE Agreed'
    <2>1. overlap /\ UNCHANGED <<local, sf, overlap, linked, created, news, fetched, outbox, dropped, skipped, work>>
      BY <1>1 DEF ReadForEdit, remoteVars
    <2> QED BY <2>1 DEF Agreed, Unedited, Fetched, DiffersDirty, DiffersSkipped, Polled
  <1>2. CASE RunHook \/ LoseHook \/ Evict \/ UNCHANGED vars
    BY <1>2, ApartAgreed DEF RunHook, LoseHook, Evict, vars, recordVars, remoteVars, InSalesforce
  <1>3. CASE ReadOutbox
    <2>1. work'.pc \in {"idle", "record"}
      <3>1. \/ work' = NoWork
            \/ work' = [NoWork EXCEPT !.pc = "record", !.dirty = outbox.dirty,
                                      !.stamp = outbox.stamp, !.exact = outbox.exact]
        BY <1>3 DEF ReadOutbox, Finished
      <3>2. CASE work' = NoWork
        BY <3>2 DEF NoWork
      <3>3. CASE work' = [NoWork EXCEPT !.pc = "record", !.dirty = outbox.dirty,
                                        !.stamp = outbox.stamp, !.exact = outbox.exact]
        BY <3>3 DEF NoWork
      <3> QED BY <3>1, <3>2, <3>3
    <2> QED BY <1>3, <2>1, ApartAgreed DEF ReadOutbox, recordVars, remoteVars, InSalesforce
  <1>4. ASSUME NEW skip \in SUBSET Refs, ReadRecord(skip) PROVE Agreed'
    <2>1. work'.pc = "push"
      BY <1>4 DEF ReadRecord, Inv, Shape
    <2> QED BY <1>4, <2>1, ApartAgreed DEF ReadRecord, recordVars, remoteVars, InSalesforce
  <1>5. CASE Push
    <2>1. news' /\ created \in Nat /\ created' = (IF NeedsCreate THEN created + 1 ELSE created)
      BY <1>5 DEF Push, Accepted, Inv, Shape
    <2>2. work'.pc = "link" => NeedsCreate
      BY <1>5 DEF Push, Inv, Shape
    <2>3. work'.pc = "link" => created' > 0
      BY <2>1, <2>2
    <2> QED BY <1>5, <2>1, <2>3, NewsAgreed DEF Push
  <1>6. CASE NothingToPush
    <2>1. UNCHANGED <<local, sf, overlap, linked, created, news, fetched, outbox, dropped, skipped, editing>>
      BY <1>6 DEF NothingToPush, recordVars, remoteVars
    <2>2. work'.pc = "clear" /\ work'.skip = work.skip /\ work'.stamp = work.stamp
      BY <1>6 DEF NothingToPush, Inv, Shape
    <2>3. Unedited' /\ Fetched' /\ Polled' = Polled /\ (Same' = Same) /\ \A f : Differs(f)' = Differs(f)
      BY <2>1, <2>2 DEF Agreed, Unedited, Fetched, Polled, InSalesforce, Same, Differs
    <2>4. Same => work.dirty \subseteq work.skip
      BY <1>6 DEF NothingToPush, Payload, Inv, Owed, Shape
    <2>5. Same => work.dirty = outbox.dirty
      BY <1>6 DEF NothingToPush, Inv, Owed
    <2>6. DiffersDirty' /\ DiffersSkipped'
      BY <2>1, <2>2, <2>3, <2>4, <2>5 DEF Agreed, DiffersDirty, DiffersSkipped, Sent
    <2> QED BY <2>1, <2>2, <2>3, <2>6 DEF Agreed
  <1>7. CASE ImportTwin
    <2>1. work'.pc = work.pc /\ work'.skip = work.skip /\ work'.stamp = work.stamp
      BY <1>7 DEF ImportTwin, Inv, Shape
    <2> QED BY <1>7, <2>1, ApartAgreed DEF ImportTwin, remoteVars, InSalesforce
  <1>8. CASE Link
    <2>1. UNCHANGED <<local, sf, overlap, created, news, fetched, outbox, dropped, skipped, editing>>
      BY <1>8 DEF Link, remoteVars
    <2>2. created > 0 /\ InSalesforce /\ InSalesforce'
      BY <1>8, <2>1 DEF Link, Agreed, InSalesforce
    <2>3. \/ work'.pc = "idle"
          \/ work'.pc = "clear" /\ work'.skip = work.skip /\ work'.stamp = work.stamp
      BY <1>8 DEF Link, Throws, NoWork, Inv, Shape
    <2>4. Sent' => Sent /\ work'.skip = work.skip
      BY <1>8, <2>1, <2>3 DEF Link, Sent, Same
    <2>5. Unedited' /\ Fetched' /\ Polled' = Polled /\ \A f : Differs(f)' = Differs(f)
      BY <2>1, <2>2 DEF Agreed, Unedited, Fetched, Polled, Differs
    <2>6. DiffersDirty' /\ DiffersSkipped'
      BY <2>1, <2>4, <2>5 DEF Agreed, DiffersDirty, DiffersSkipped
    <2> QED BY <2>1, <2>3, <2>5, <2>6 DEF Agreed
  <1>9. CASE Clear
    <2>1. work'.pc = "idle" /\ UNCHANGED <<local, sf, overlap, linked, created, skipped, news, fetched, editing>>
      BY <1>9 DEF Clear, Finished, NoWork, remoteVars
    <2>2. CASE ~Untouched
      BY <1>9, <2>1, <2>2, ApartAgreed DEF Clear, InSalesforce
    <2>3. CASE Untouched
      <3>1. outbox' = NoRow /\ dropped' = dropped \cup (work.skip \cap work.dirty)
        BY <1>9, <2>3 DEF Clear
      <3>2. Sent /\ work.dirty = outbox.dirty
        BY <1>9, <2>3 DEF Clear, Untouched, Sent, Same, Inv, Owed
      <3>3. ASSUME Polled', NEW f, Differs(f)' PROVE FALSE
        <4>1. Polled /\ Differs(f) /\ f \notin work.skip \cap work.dirty
          BY <2>1, <3>1, <3>3 DEF Polled, InSalesforce, Differs
        <4> QED BY <3>2, <4>1 DEF Agreed, DiffersDirty, DiffersSkipped
      <3>4. ~outbox'.present /\ outbox'.dirty = {}
        BY <3>1 DEF NoRow
      <3> QED BY <2>1, <3>3, <3>4 DEF Agreed, Unedited, Fetched, DiffersDirty, DiffersSkipped
    <2> QED BY <2>2, <2>3
  <1>10. CASE Fails
    <2>1. work'.pc = "idle" /\ UNCHANGED fetched
      BY <1>10 DEF Fails, Throws, NoWork
    <2>2. CASE UNCHANGED <<recordVars, remoteVars>>
      BY <2>1, <2>2, ApartAgreed DEF recordVars, remoteVars, InSalesforce
    <2>3. CASE Accepted /\ UNCHANGED <<local, linked, overlap, editing, outbox, dropped, skipped, edits, twins>>
      BY <2>1, <2>3, NewsAgreed DEF Accepted
    <2> QED BY <1>10, <2>2, <2>3 DEF Fails
  <1>11. ASSUME NEW f \in Fields, SfEdit(f) PROVE Agreed'
    BY <1>11, NewsAgreed DEF SfEdit, recordVars, Agreed
  <1>12. CASE PollFetch
    <2>1. fetched' = [held |-> TRUE, row |-> sf] /\ UNCHANGED <<sf, created, outbox, overlap, editing, work>>
      BY <1>12 DEF PollFetch, recordVars
    <2> QED BY <2>1 DEF Agreed, Unedited, Fetched, DiffersDirty, DiffersSkipped, Polled
  <1>13. ASSUME NEW skip \in SUBSET Refs, PollApply(skip) PROVE Agreed'
    <2>1. UNCHANGED <<sf, news, created, linked, overlap, editing, outbox, work>> /\ fetched.held
      BY <1>13 DEF PollApply, remoteVars
    <2>2. ~news => \A f \in Fields \ skipped' : local'[f] = sf[f]
      BY <1>13 DEF PollApply, Applied, Changed, Agreed, Fetched
    <2>3. Unedited' /\ Fetched'
      BY <1>13, <2>1 DEF PollApply, NoFetch, Agreed, Unedited, Fetched
    <2>4. ~Polled' \/ \A f : ~Differs(f)'
      BY <2>1, <2>2 DEF Polled, Differs
    <2> QED BY <2>1, <2>3, <2>4 DEF Agreed, DiffersDirty, DiffersSkipped
  <1>14. CASE PollPass
    <2>1. UNCHANGED <<local, sf, created, overlap, editing, outbox, work, fetched>> /\ ~fetched.held
      BY <1>14 DEF PollPass
    <2>2. \A f \in Fields \ skipped' : local'[f] = sf'[f]
      BY <1>14, <2>1 DEF PollPass, Changed
    <2>3. \A f : ~Differs(f)'
      BY <2>2 DEF Differs
    <2> QED BY <2>1, <2>3 DEF Agreed, Unedited, Fetched, DiffersDirty, DiffersSkipped
  <1> QED BY <1>1, <1>2, <1>3, <1>4, <1>5, <1>6, <1>7, <1>8, <1>9, <1>10, <1>11, <1>12, <1>13,
             <1>14, EditAgreed DEF Next

(* With nothing to push, nothing in flight and nothing to poll, both systems *)
(* hold the same values, when updates of the record do not overlap, but for  *)
(* references a push left out or the latest poll left as they were, and for  *)
(* what that poll read before the id was stored (sf-sync-worker.ts:235-318). *)
THEOREM SidesAgreeAtRest == Spec => []AgreeAtRest
  <1>1. Agreed => AgreeAtRest
    BY DEF Agreed, AgreeAtRest, AtRest, DiffersDirty, Differs, Polled, InSalesforce
  <1> QED BY <1>1, InitInv, NextInv, InitCounted, NextCounted, InitAgreed, NextAgreed, PTL DEF Spec

-----------------------------------------------------------------------------
(* The chat page.                                                          *)
Entry == Turns \X {"user", "pending", "canceled", "tool", "artifact", "text"}
Thread == Seq(Entry)
Ids == 0..MaxTurns

-----------------------------------------------------------------------------
(* Threads.  The end of a thread, and the end of a thread that is continued. *)
LEMMA LatestIs ==
    ASSUME NEW S, NEW s \in Seq(S), NEW k \in Nat
    PROVE  \E m \in 0..Len(s) :
              /\ Len(s) < k => m = Len(s)
              /\ ~(Len(s) < k) => m = k
              /\ Latest(k, s) \in Seq(S) /\ Len(Latest(k, s)) = m
              /\ \A i \in 1..m : Latest(k, s)[i] = s[Len(s) - m + i]
  <1> DEFINE m == IF Len(s) < k THEN Len(s) ELSE k
  <1>1. m \in Nat /\ m <= Len(s) /\ Len(s) \in Nat
    OBVIOUS
  <1>2. Latest(k, s) = SubSeq(s, Len(s) - m + 1, Len(s))
    BY DEF Latest
  <1>a. (Len(s) < k => m = Len(s)) /\ (~(Len(s) < k) => m = k)
    OBVIOUS
  <1> HIDE DEF m
  <1>3. Len(s) - m + 1 \in Int /\ \A i \in Len(s) - m + 1 .. Len(s) : s[i] \in S
    BY <1>1
  <1>4. /\ Latest(k, s) \in Seq(S) /\ Len(Latest(k, s)) = m
        /\ \A i \in 1..m : Latest(k, s)[i] = s[Len(s) - m + i]
    <2>1. /\ SubSeq(s, Len(s) - m + 1, Len(s)) \in Seq(S)
          /\ Len(SubSeq(s, Len(s) - m + 1, Len(s))) =
                IF Len(s) - m + 1 <= Len(s) THEN Len(s) - (Len(s) - m + 1) + 1 ELSE 0
          /\ \A i \in 1 .. Len(s) - (Len(s) - m + 1) + 1 :
                SubSeq(s, Len(s) - m + 1, Len(s))[i] = s[Len(s) - m + 1 + i - 1]
      BY <1>1, <1>3, SubSeqProperties
    <2>2. Len(s) - (Len(s) - m + 1) + 1 = m
      BY <1>1
    <2>3. (IF Len(s) - m + 1 <= Len(s) THEN Len(s) - (Len(s) - m + 1) + 1 ELSE 0) = m
      BY <1>1
    <2>4. \A i \in 1..m : Len(s) - m + 1 + i - 1 = Len(s) - m + i
      BY <1>1
    <2> QED BY <1>2, <2>1, <2>2, <2>3, <2>4
  <1> QED BY <1>1, <1>a, <1>4

LEMMA LatestShort ==
    ASSUME NEW S, NEW s \in Seq(S), NEW k \in Nat, Len(s) <= k
    PROVE  Latest(k, s) = s
  <1>1. PICK m \in 0..Len(s) :
          /\ Len(s) < k => m = Len(s)
          /\ ~(Len(s) < k) => m = k
          /\ Latest(k, s) \in Seq(S) /\ Len(Latest(k, s)) = m
          /\ \A i \in 1..m : Latest(k, s)[i] = s[Len(s) - m + i]
    BY LatestIs
  <1>2. Len(s) \in Nat /\ m = Len(s)
    BY <1>1
  <1>3. \A i \in 1..Len(s) : Len(s) - m + i = i
    BY <1>2
  <1> QED BY <1>1, <1>2, <1>3, SeqEqual

LEMMA LatestOfConcat ==
    ASSUME NEW S, NEW s \in Seq(S), NEW r \in Seq(S), NEW k \in Nat
    PROVE  Latest(k, s \o r) = Latest(k, Latest(k, s) \o r)
  <1> DEFINE l == Latest(k, s)
             x == s \o r
             y == l \o r
  <1>0. Len(s) \in Nat /\ Len(r) \in Nat
    OBVIOUS
  <1>1. PICK m \in 0..Len(s) :
          /\ Len(s) < k => m = Len(s)
          /\ ~(Len(s) < k) => m = k
          /\ l \in Seq(S) /\ Len(l) = m
          /\ \A i \in 1..m : l[i] = s[Len(s) - m + i]
    BY LatestIs
  <1>2. l \in Seq(S)
    BY <1>1
  <1> HIDE DEF l
  <1>3. /\ x \in Seq(S) /\ Len(x) = Len(s) + Len(r)
        /\ \A i \in 1 .. Len(s) + Len(r) : x[i] = IF i <= Len(s) THEN s[i] ELSE r[i - Len(s)]
    BY ConcatProperties
  <1>4. /\ y \in Seq(S) /\ Len(y) = Len(l) + Len(r)
        /\ \A i \in 1 .. Len(l) + Len(r) : y[i] = IF i <= Len(l) THEN l[i] ELSE r[i - Len(l)]
    BY <1>2, ConcatProperties
  <1> HIDE DEF x, y
  <1>a. x \in Seq(S) /\ Len(x) = Len(s) + Len(r)
    BY <1>3
  <1>x. x \in Seq(S) /\ y \in Seq(S)
    BY <1>3, <1>4
  <1>b. y \in Seq(S) /\ Len(y) = m + Len(r)
    BY <1>1, <1>4
  <1>5. PICK p \in 0..Len(x) :
          /\ Len(x) < k => p = Len(x)
          /\ ~(Len(x) < k) => p = k
          /\ Latest(k, x) \in Seq(S) /\ Len(Latest(k, x)) = p
          /\ \A i \in 1..p : Latest(k, x)[i] = x[Len(x) - p + i]
    BY <1>x, LatestIs
  <1>6. PICK o \in 0..Len(y) :
          /\ Len(y) < k => o = Len(y)
          /\ ~(Len(y) < k) => o = k
          /\ Latest(k, y) \in Seq(S) /\ Len(Latest(k, y)) = o
          /\ \A i \in 1..o : Latest(k, y)[i] = y[Len(y) - o + i]
    BY <1>x, LatestIs
  <1>c. m \in Nat /\ m <= Len(s) /\ (Len(s) < k => m = Len(s)) /\ (~(Len(s) < k) => m = k) /\ Len(l) = m
    BY <1>0, <1>1
  <1>d. p \in Nat /\ p <= Len(x) /\ (Len(x) < k => p = Len(x)) /\ (~(Len(x) < k) => p = k)
    BY <1>0, <1>a, <1>5
  <1>e. o \in Nat /\ o <= Len(y) /\ (Len(y) < k => o = Len(y)) /\ (~(Len(y) < k) => o = k)
    BY <1>0, <1>b, <1>c, <1>6
  <1>7. o = p /\ p <= m + Len(r)
    BY <1>0, <1>a, <1>b, <1>c, <1>d, <1>e
  <1>8. ASSUME NEW i \in 1..p PROVE Latest(k, x)[i] = Latest(k, y)[i]
    <2> DEFINE j == Len(s) + Len(r) - p + i
               h == m + Len(r) - p + i
    <2>3. /\ j \in 1..Len(s) + Len(r) /\ h \in 1..m + Len(r)
          /\ h - m = j - Len(s) /\ (j <= Len(s) <=> h <= m) /\ Len(s) - m + h = j
      BY <1>0, <1>7, <1>c, <1>d
    <2>4. Latest(k, x)[i] = x[j]
      BY <1>5, <1>a
    <2>a. Latest(k, y)[i] = y[h]
      BY <1>6, <1>7, <1>b
    <2> HIDE DEF j, h
    <2>5. CASE j <= Len(s)
      <3>1. h \in 1..m
        BY <1>c, <2>3, <2>5
      <3>2. l[h] = s[j]
        BY <1>1, <2>3, <3>1
      <3>3. x[j] = s[j]
        BY <1>3, <2>3, <2>5
      <3>4. y[h] = l[h]
        BY <1>c, <1>4, <2>3, <3>1
      <3> QED BY <2>4, <2>a, <3>2, <3>3, <3>4
    <2>6. CASE ~(j <= Len(s))
      <3>1. x[j] = r[j - Len(s)]
        BY <1>3, <2>3, <2>6
      <3>2. y[h] = r[h - m]
        BY <1>c, <1>4, <2>3, <2>6
      <3> QED BY <2>3, <2>4, <2>a, <3>1, <3>2
    <2> QED BY <2>5, <2>6
  <1>9. Latest(k, x) = Latest(k, y)
    <2>1. Len(Latest(k, x)) = Len(Latest(k, y)) /\ \A i \in 1..Len(Latest(k, x)) : Latest(k, x)[i] = Latest(k, y)[i]
      BY <1>5, <1>6, <1>7, <1>8
    <2>2. Latest(k, x) \in Seq(S) /\ Latest(k, y) \in Seq(S)
      BY <1>5, <1>6
    <2> QED BY <2>1, <2>2, SeqEqual
  <1> QED BY <1>9 DEF x, y, l

-----------------------------------------------------------------------------
(* The bubble of a turn that is under way is the last entry, if any.         *)
Clean(s) == \A i \in 1..Len(s) : NotPending(s[i])
Tidy(s) == \A i \in 1..Len(s) : NotPending(s[i]) \/ i = Len(s)

(* The filter keeps everything but such a bubble.                            *)
LEMMA KeptFirst ==
    ASSUME NEW s \in Thread, NEW m \in 0..Len(s),
           \A i \in 1..m : NotPending(s[i]), \A i \in m + 1..Len(s) : ~NotPending(s[i])
    PROVE  WithoutPending(s) = SubSeq(s, 1, m)
  <1> DEFINE kept == {i \in DOMAIN s : NotPending(s[i])}
             Nth(j) == CHOOSE i \in kept : Cardinality({h \in kept : h <= i}) = j
  <1>1. Len(s) \in Nat /\ DOMAIN s = 1..Len(s)
    BY DEF Thread
  <1>2. kept = 1..m
    BY <1>1
  <1>3. Cardinality(kept) = m
    <2>1. 1 \in Int /\ m \in Int /\ m >= 0
      BY <1>1
    <2>2. Cardinality(1..m) = IF 1 > m THEN 0 ELSE m - 1 + 1
      BY <2>1, FS_Interval
    <2> HIDE DEF kept
    <2> QED BY <1>2, <2>1, <2>2
  <1>4. ASSUME NEW j \in 1..m PROVE Nth(j) = j
    <2>1. ASSUME NEW i \in 1..m PROVE Cardinality({h \in kept : h <= i}) = i
      <3>1. {h \in kept : h <= i} = 1..i
        BY <1>2
      <3>2. i \in Int /\ 1 \in Int /\ ~(1 > i) /\ i - 1 + 1 = i
        BY <1>1
      <3> QED BY <3>1, <3>2, FS_Interval
    <2>2. j \in kept /\ Cardinality({h \in kept : h <= j}) = j
      BY <1>2, <2>1
    <2>3. \A i \in kept : Cardinality({h \in kept : h <= i}) = j => i = j
      BY <1>2, <2>1
    <2> QED BY <2>2, <2>3
  <1>5. WithoutPending(s) = [j \in 1..Cardinality(kept) |-> s[Nth(j)]]
    BY DEF WithoutPending
  <1> HIDE DEF kept, Nth
  <1>6. WithoutPending(s) = [j \in 1..m |-> s[j]]
    BY <1>3, <1>4, <1>5
  <1>7. SubSeq(s, 1, m) = [j \in 1..m |-> s[j]]
    BY <1>1 DEF Thread
  <1> QED BY <1>6, <1>7

LEMMA Filtered ==
    ASSUME NEW s \in Thread, Tidy(s)
    PROVE  /\ WithoutPending(s) \in Thread
           /\ Clean(WithoutPending(s))
           /\ Clean(s) => WithoutPending(s) = s
           /\ ~Clean(s) => Len(s) > 0 /\ WithoutPending(s) = SubSeq(s, 1, Len(s) - 1)
  <1>1. Len(s) \in Nat /\ s \in Seq(Entry)
    BY DEF Thread
  <1>2. CASE Clean(s)
    <2>1. WithoutPending(s) = SubSeq(s, 1, Len(s))
      BY <1>1, <1>2, KeptFirst DEF Clean
    <2>2. SubSeq(s, 1, Len(s)) = s
      BY <1>1
    <2> QED BY <1>2, <2>1, <2>2
  <1>3. CASE ~Clean(s)
    <2>1. Len(s) > 0 /\ ~NotPending(s[Len(s)]) /\ \A i \in 1..Len(s) - 1 : NotPending(s[i])
      BY <1>1, <1>3 DEF Clean, Tidy
    <2>2. WithoutPending(s) = SubSeq(s, 1, Len(s) - 1)
      <3>1. Len(s) - 1 \in 0..Len(s) /\ \A i \in Len(s) - 1 + 1..Len(s) : ~NotPending(s[i])
        BY <1>1, <2>1
      <3> QED BY <2>1, <3>1, KeptFirst
    <2>3. \A i \in 1..Len(s) - 1 : s[i] \in Entry
      BY <1>1
    <2>4. /\ SubSeq(s, 1, Len(s) - 1) \in Seq(Entry)
          /\ Len(SubSeq(s, 1, Len(s) - 1)) = Len(s) - 1
          /\ \A i \in 1..Len(s) - 1 : SubSeq(s, 1, Len(s) - 1)[i] = s[i]
      <3> DEFINE h == Len(s) - 1
      <3>1. h \in Nat /\ \A i \in 1..h : s[i] \in Entry
        BY <1>1, <2>1, <2>3
      <3> HIDE DEF h
      <3>2. /\ SubSeq(s, 1, h) \in Seq(Entry)
            /\ Len(SubSeq(s, 1, h)) = IF 1 <= h THEN h - 1 + 1 ELSE 0
            /\ \A i \in 1..h - 1 + 1 : SubSeq(s, 1, h)[i] = s[1 + i - 1]
        BY <3>1, SubSeqProperties
      <3>3. (IF 1 <= h THEN h - 1 + 1 ELSE 0) = h /\ h - 1 + 1 = h /\ \A i \in 1..h : 1 + i - 1 = i
        BY <3>1
      <3>4. /\ SubSeq(s, 1, h) \in Seq(Entry) /\ Len(SubSeq(s, 1, h)) = h
            /\ \A i \in 1..h : SubSeq(s, 1, h)[i] = s[i]
        BY <3>2, <3>3
      <3> QED BY <3>4 DEF h
    <2> QED BY <1>3, <2>1, <2>2, <2>4 DEF Clean, Thread
  <1> QED BY <1>2, <1>3

LEMMA FilteredTwice ==
    ASSUME NEW s \in Thread, Tidy(s)
    PROVE  WithoutPending(WithoutPending(s)) = WithoutPending(s)
  <1> DEFINE w == WithoutPending(s)
  <1>1. w \in Thread /\ Clean(w)
    BY Filtered
  <1> HIDE DEF w
  <1>2. Tidy(w)
    BY <1>1 DEF Clean, Tidy
  <1>3. WithoutPending(w) = w
    BY <1>1, <1>2, Filtered
  <1> QED BY <1>3 DEF w

LEMMA Continued ==
    ASSUME NEW s \in Thread, NEW r \in Thread
    PROVE  /\ s \o r \in Thread
           /\ Len(s \o r) = Len(s) + Len(r)
           /\ Clean(s) /\ Clean(r) => Clean(s \o r)
           /\ ToSet(s \o r) = ToSet(s) \cup ToSet(r)
  <1> DEFINE x == s \o r
  <1>1. Len(s) \in Nat /\ Len(r) \in Nat /\ s \in Seq(Entry) /\ r \in Seq(Entry)
    BY DEF Thread
  <1>2. /\ x \in Seq(Entry) /\ Len(x) = Len(s) + Len(r)
        /\ \A i \in 1 .. Len(s) + Len(r) : x[i] = IF i <= Len(s) THEN s[i] ELSE r[i - Len(s)]
    BY <1>1, ConcatProperties
  <1> HIDE DEF x
  <1>3. \A i \in 1..Len(s) : i \in 1..Len(s) + Len(r) /\ x[i] = s[i]
    BY <1>1, <1>2
  <1>4. \A i \in 1..Len(r) : Len(s) + i \in 1..Len(s) + Len(r) /\ x[Len(s) + i] = r[i]
    <2> TAKE i \in 1..Len(r)
    <2>1. Len(s) + i \in 1..Len(s) + Len(r) /\ ~(Len(s) + i <= Len(s)) /\ Len(s) + i - Len(s) = i
      BY <1>1
    <2> QED BY <1>2, <2>1
  <1>5. ASSUME NEW i \in 1..Len(x)
        PROVE  \/ i \in 1..Len(s) /\ x[i] = s[i]
               \/ i - Len(s) \in 1..Len(r) /\ x[i] = r[i - Len(s)]
    <2>1. i \in 1..Len(s) + Len(r)
      BY <1>2
    <2>2. CASE i <= Len(s)
      BY <1>1, <1>2, <2>1, <2>2
    <2>3. CASE ~(i <= Len(s))
      <3>1. i - Len(s) \in 1..Len(r)
        BY <1>1, <2>1, <2>3
      <3> QED BY <1>2, <2>1, <2>3, <3>1
    <2> QED BY <2>2, <2>3
  <1>6. Clean(s) /\ Clean(r) => Clean(x)
    BY <1>5 DEF Clean
  <1>7. ToSet(x) = ToSet(s) \cup ToSet(r)
    <2>1. ToSet(x) = {x[i] : i \in 1..Len(x)} /\ ToSet(s) = {s[i] : i \in 1..Len(s)}
          /\ ToSet(r) = {r[i] : i \in 1..Len(r)}
      BY <1>1, <1>2 DEF ToSet
    <2> QED BY <1>2, <1>3, <1>4, <1>5, <2>1
  <1> QED BY <1>1, <1>2, <1>6, <1>7 DEF x, Thread

LEMMA OneMore ==
    ASSUME NEW s \in Thread, NEW e \in Entry
    PROVE  /\ Append(s, e) \in Thread
           /\ Append(s, e) = s \o <<e>>
           /\ Len(Append(s, e)) = Len(s) + 1
           /\ Clean(s) /\ NotPending(e) => Clean(Append(s, e))
           /\ ToSet(Append(s, e)) = ToSet(s) \cup {e}
  <1>1. <<e>> \in Thread /\ Len(<<e>>) = 1 /\ ToSet(<<e>>) = {e} /\ (NotPending(e) => Clean(<<e>>))
    BY DEF Thread, ToSet, Clean
  <1>2. Append(s, e) = s \o <<e>>
    BY AppendIsConcat DEF Thread
  <1> QED BY <1>1, <1>2, Continued

LEMMA SentThread ==
    ASSUME NEW s \in Thread, Clean(s), NEW n \in Turns
    PROVE  LET t == s \o <<<<n, "user">>, <<n, "pending">>>> IN
           /\ t \in Thread /\ Tidy(t) /\ ~Clean(t)
           /\ WithoutPending(t) = Append(s, <<n, "user">>)
  <1> DEFINE u == <<n, "user">>
             p == <<n, "pending">>
             w == Append(s, u)
             t == s \o <<u, p>>
  <1>1. u \in Entry /\ p \in Entry /\ NotPending(u) /\ ~NotPending(p)
    BY DEF Entry, NotPending
  <1> HIDE DEF u, p
  <1>a. Len(s) \in Nat
    BY DEF Thread
  <1>2. w \in Thread /\ Clean(w) /\ Len(w) = Len(s) + 1
    BY <1>1, OneMore
  <1>3. t = Append(w, p)
    <2>1. s \in Seq(Entry) /\ <<u>> \in Seq(Entry) /\ <<p>> \in Seq(Entry) /\ w \in Seq(Entry)
      BY <1>1, <1>2 DEF Thread
    <2>2. w = s \o <<u>>
      BY <1>1, OneMore
    <2>3. Append(w, p) = w \o <<p>>
      BY <1>1, <1>2, OneMore
    <2>4. (s \o <<u>>) \o <<p>> = s \o (<<u>> \o <<p>>)
      BY <2>1, ConcatAssociative
    <2>5. <<u>> \o <<p>> = <<u, p>>
      <3>1. Append(<<u>>, p) = <<u>> \o <<p>>
        BY <1>1, <2>1, AppendIsConcat
      <3>2. Append(<<u>>, p) = <<u, p>>
        <4>1. /\ Append(<<u>>, p) \in Seq(Entry) /\ Len(Append(<<u>>, p)) = 2
              /\ Append(<<u>>, p)[1] = u /\ Append(<<u>>, p)[2] = p
          BY <1>1, <2>1, AppendProperties
        <4>2. <<u, p>> \in Seq(Entry) /\ Len(<<u, p>>) = 2 /\ <<u, p>>[1] = u /\ <<u, p>>[2] = p
          BY <1>1
        <4>3. \A i \in 1..Len(Append(<<u>>, p)) : Append(<<u>>, p)[i] = <<u, p>>[i]
          <5>1. \A i \in 1..2 : i = 1 \/ i = 2
            OBVIOUS
          <5> QED BY <4>1, <4>2, <5>1
        <4>4. \A a, b \in Seq(Entry) : Len(a) = Len(b) /\ (\A i \in 1..Len(a) : a[i] = b[i]) => a = b
          BY SeqEqual
        <4> QED BY <4>1, <4>2, <4>3, <4>4
      <3> QED BY <3>1, <3>2
    <2> QED BY <2>2, <2>3, <2>4, <2>5
  <1> HIDE DEF w, t
  <1>4. w \in Seq(Entry)
    BY <1>2 DEF Thread
  <1>5. /\ t \in Seq(Entry) /\ Len(t) = Len(w) + 1 /\ t[Len(w) + 1] = p
        /\ \A i \in 1..Len(w) : t[i] = w[i]
    BY <1>1, <1>3, <1>4, AppendProperties
  <1>6. Len(w) \in 0..Len(t) /\ Len(t) \in Nat
    BY <1>a, <1>2, <1>5
  <1>7. \A i \in 1..Len(w) : NotPending(t[i])
    BY <1>2, <1>5 DEF Clean
  <1>8. \A i \in Len(w) + 1..Len(t) : i = Len(t) /\ ~NotPending(t[i])
    BY <1>a, <1>1, <1>2, <1>5
  <1>9. WithoutPending(t) = SubSeq(t, 1, Len(w))
    BY <1>5, <1>6, <1>7, <1>8, KeptFirst DEF Thread
  <1>10. SubSeq(t, 1, Len(w)) = w
    <2>1. /\ SubSeq(t, 1, Len(w)) \in Seq(Entry) /\ Len(SubSeq(t, 1, Len(w))) = Len(w)
          /\ \A i \in 1..Len(w) : SubSeq(t, 1, Len(w))[i] = w[i]
      <3> DEFINE h == Len(w)
      <3>1. h \in Nat /\ (\A i \in 1..h : t[i] \in Entry) /\ \A i \in 1..h : t[i] = w[i]
        BY <1>a, <1>2, <1>4, <1>5
      <3> HIDE DEF h
      <3>2. /\ SubSeq(t, 1, h) \in Seq(Entry)
            /\ Len(SubSeq(t, 1, h)) = IF 1 <= h THEN h - 1 + 1 ELSE 0
            /\ \A i \in 1..h - 1 + 1 : SubSeq(t, 1, h)[i] = t[1 + i - 1]
        BY <3>1, SubSeqProperties
      <3>3. (IF 1 <= h THEN h - 1 + 1 ELSE 0) = h /\ h - 1 + 1 = h /\ \A i \in 1..h : 1 + i - 1 = i
        BY <3>1
      <3>4. /\ SubSeq(t, 1, h) \in Seq(Entry) /\ Len(SubSeq(t, 1, h)) = h
            /\ \A i \in 1..h : SubSeq(t, 1, h)[i] = w[i]
        BY <3>1, <3>2, <3>3
      <3> QED BY <3>4 DEF h
    <2> QED BY <1>4, <2>1, SeqEqual
  <1>11. Tidy(t)
    <2> SUFFICES ASSUME NEW i \in 1..Len(t) PROVE NotPending(t[i]) \/ i = Len(t)
      BY DEF Tidy
    <2> QED BY <1>a, <1>2, <1>5, <1>6, <1>7
  <1>12. ~Clean(t)
    BY <1>a, <1>1, <1>2, <1>5 DEF Clean
  <1> QED BY <1>5, <1>9, <1>10, <1>11, <1>12 DEF t, w, u, p, Thread

(* Whose bubble it is does not matter to the catch block: it closes it.      *)
LEMMA ClosedThread ==
    ASSUME NEW s \in Thread, Tidy(s)
    PROVE  /\ Closed(s) \in Thread /\ Clean(Closed(s))
           /\ Len(WithoutPending(s)) <= Len(Closed(s))
           /\ ToSet(WithoutPending(s)) \subseteq ToSet(Closed(s))
  <1>1. Len(s) \in Nat /\ s \in Seq(Entry) /\ (s = <<>> <=> Len(s) = 0)
    BY DEF Thread
  <1>2. CASE Clean(s)
    <2>1. Closed(s) = s
      <3>1. s # <<>> => Len(s) \in 1..Len(s)
        BY <1>1
      <3> QED BY <1>2, <3>1 DEF Closed, Clean, NotPending
    <2>2. WithoutPending(s) = s
      BY <1>2, Filtered
    <2> QED BY <1>1, <1>2, <2>1, <2>2
  <1>3. CASE ~Clean(s)
    <2> DEFINE w == WithoutPending(s)
               e == <<s[Len(s)][1], "canceled">>
    <2>1. Len(s) > 0 /\ w = SubSeq(s, 1, Len(s) - 1) /\ w \in Thread /\ Clean(w)
      BY <1>3, Filtered
    <2>2. ~NotPending(s[Len(s)]) /\ s[Len(s)] \in Entry
      BY <1>1, <1>3, <2>1 DEF Clean, Tidy
    <2>3. e \in Entry /\ NotPending(e)
      BY <2>2 DEF Entry, NotPending
    <2>4. Closed(s) = [s EXCEPT ![Len(s)] = e]
      BY <1>1, <2>1, <2>2 DEF Closed, NotPending
    <2> HIDE DEF e
    <2>5. Closed(s) \in Seq(Entry) /\ Len(Closed(s)) = Len(s)
          /\ Closed(s)[Len(s)] = e /\ \A i \in 1..Len(s) - 1 : Closed(s)[i] = s[i]
      BY <1>1, <2>1, <2>3, <2>4, ExceptSeq
    <2>6. Len(w) = Len(s) - 1 /\ \A i \in 1..Len(s) - 1 : w[i] = s[i]
      <3> DEFINE h == Len(s) - 1
      <3>1. h \in Nat /\ \A i \in 1..h : s[i] \in Entry
        BY <1>1, <2>1
      <3> HIDE DEF h
      <3>2. /\ SubSeq(s, 1, h) \in Seq(Entry)
            /\ Len(SubSeq(s, 1, h)) = IF 1 <= h THEN h - 1 + 1 ELSE 0
            /\ \A i \in 1..h - 1 + 1 : SubSeq(s, 1, h)[i] = s[1 + i - 1]
        BY <3>1, SubSeqProperties
      <3>3. (IF 1 <= h THEN h - 1 + 1 ELSE 0) = h /\ h - 1 + 1 = h /\ \A i \in 1..h : 1 + i - 1 = i
        BY <3>1
      <3>4. Len(SubSeq(s, 1, h)) = h /\ \A i \in 1..h : SubSeq(s, 1, h)[i] = s[i]
        BY <3>2, <3>3
      <3> QED BY <2>1, <3>4 DEF h
    <2> HIDE DEF w
    <2>7. Clean(Closed(s))
      <3> SUFFICES ASSUME NEW i \in 1..Len(s) PROVE NotPending(Closed(s)[i])
        BY <2>5 DEF Clean
      <3>1. CASE i = Len(s)
        BY <2>3, <2>5, <3>1
      <3>2. CASE i # Len(s)
        <4>1. i \in 1..Len(s) - 1
          BY <1>1, <3>2
        <4> QED BY <2>5, <4>1 DEF Tidy
      <3> QED BY <3>1, <3>2
    <2>8. ToSet(w) \subseteq ToSet(Closed(s))
      <3>1. DOMAIN w = 1..Len(s) - 1 /\ DOMAIN Closed(s) = 1..Len(s)
        BY <1>1, <2>1, <2>5, <2>6 DEF Thread
      <3>2. \A i \in 1..Len(s) - 1 : i \in 1..Len(s) /\ w[i] = Closed(s)[i]
        BY <1>1, <2>5, <2>6
      <3> QED BY <3>1, <3>2 DEF ToSet
    <2>9. Len(w) <= Len(Closed(s))
      BY <1>1, <2>1, <2>5, <2>6
    <2> QED BY <2>5, <2>7, <2>8, <2>9 DEF w, Thread
  <1> QED BY <1>2, <1>3

LEMMA ReplyIs ==
    ASSUME NEW n \in Turns, NEW s \in Thread, NEW art \in BOOLEAN,
           \A i \in 1..Len(s) : s[i] = <<n, "tool">>
    PROVE  Reply(n, s, art) \in Thread /\ Clean(Reply(n, s, art))
  <1> DEFINE a == IF art THEN <<<<n, "artifact">>>> ELSE <<>>
             b == <<<<n, "text">>>>
  <1>1. Clean(s)
    BY DEF Clean, NotPending
  <1>2. a \in Thread /\ Clean(a)
    <2>1. <<n, "artifact">> \in Entry /\ NotPending(<<n, "artifact">>)
      BY DEF Entry, NotPending
    <2>2. CASE art
      BY <2>1, <2>2 DEF Thread, Clean
    <2>3. CASE ~art
      BY <2>3 DEF Thread, Clean
    <2> QED BY <2>2, <2>3
  <1>3. b \in Thread /\ Clean(b)
    BY DEF Thread, Clean, Entry, NotPending
  <1>4. Reply(n, s, art) = s \o a \o b
    BY DEF Reply
  <1> HIDE DEF a, b
  <1>5. (s \o a) \in Thread /\ Clean(s \o a)
    BY <1>1, <1>2, Continued
  <1> QED BY <1>3, <1>4, <1>5, Continued

-----------------------------------------------------------------------------
(* The stream: the tools that have ended and are still on the wire.          *)
Event ==
    [type : {"tool-end"}, entry : Entry] \cup [type : {"artifact"}]
        \cup [type : {"chat-done"}, row : Ids]

ToolEnds(w) == {i \in 1..Len(w) : w[i].type = "tool-end"}

LEMMA EndsFinite ==
    ASSUME NEW w, Len(w) \in Nat
    PROVE  IsFiniteSet(ToolEnds(w)) /\ Cardinality(ToolEnds(w)) \in Nat
  <1>1. IsFiniteSet(1..Len(w))
    BY FS_Interval
  <1>2. ToolEnds(w) \in SUBSET (1..Len(w))
    BY DEF ToolEnds
  <1>3. IsFiniteSet(ToolEnds(w))
    BY <1>1, <1>2, FS_Subset
  <1> QED BY <1>3, FS_CardinalityType

LEMMA EndsSent ==
    ASSUME NEW w \in Seq(Event), NEW e \in Event
    PROVE  Cardinality(ToolEnds(Append(w, e))) =
               IF e.type = "tool-end" THEN Cardinality(ToolEnds(w)) + 1
                                      ELSE Cardinality(ToolEnds(w))
  <1> DEFINE x == Append(w, e)
  <1>1. Len(w) \in Nat /\ IsFiniteSet(ToolEnds(w))
    BY EndsFinite
  <1>2. /\ Len(x) = Len(w) + 1 /\ x[Len(w) + 1] = e
        /\ \A i \in 1..Len(w) : x[i] = w[i]
    BY AppendProperties
  <1> HIDE DEF x
  <1>3. Len(w) + 1 \notin ToolEnds(w)
    BY <1>1 DEF ToolEnds
  <1>4. CASE e.type = "tool-end"
    <2>1. ToolEnds(x) = ToolEnds(w) \cup {Len(w) + 1}
      BY <1>1, <1>2, <1>4 DEF ToolEnds
    <2> QED BY <1>1, <1>3, <1>4, <2>1, FS_AddElement DEF x
  <1>5. CASE e.type # "tool-end"
    <2>1. ToolEnds(x) = ToolEnds(w)
      BY <1>1, <1>2, <1>5 DEF ToolEnds
    <2> QED BY <1>5, <2>1 DEF x
  <1> QED BY <1>4, <1>5

LEMMA EndsReceived ==
    ASSUME NEW w \in Seq(Event), w # <<>>
    PROVE  Cardinality(ToolEnds(w)) =
               IF Head(w).type = "tool-end" THEN Cardinality(ToolEnds(Tail(w))) + 1
                                            ELSE Cardinality(ToolEnds(Tail(w)))
  <1> DEFINE x == Tail(w)
             T == {i + 1 : i \in ToolEnds(x)}
             f == [i \in ToolEnds(x) |-> i + 1]
  <1>1. /\ Len(w) \in Nat /\ Len(w) > 0 /\ Head(w) = w[1]
        /\ x \in Seq(Event) /\ Len(x) = Len(w) - 1 /\ Len(x) \in Nat
        /\ \A i \in 1..Len(x) : x[i] = w[i + 1]
    BY HeadTailProperties
  <1> HIDE DEF x
  <1>2. IsFiniteSet(ToolEnds(x)) /\ ToolEnds(x) \subseteq 1..Len(x)
    BY <1>1, EndsFinite DEF ToolEnds
  <1>3. f \in Bijection(ToolEnds(x), T)
    <2>1. f \in [ToolEnds(x) -> T]
      OBVIOUS
    <2>2. \A i, j \in ToolEnds(x) : f[i] = f[j] => i = j
      BY <1>1, <1>2
    <2>3. \A t \in T : \E i \in ToolEnds(x) : f[i] = t
      OBVIOUS
    <2> HIDE DEF f, T
    <2> QED BY <2>1, <2>2, <2>3, Fun_IsBij
  <1>4. IsFiniteSet(T) /\ Cardinality(T) = Cardinality(ToolEnds(x))
    <2>1. ExistsBijection(ToolEnds(x), T)
      BY <1>3 DEF ExistsBijection
    <2> HIDE DEF T
    <2> QED BY <1>2, <2>1, FS_Bijection
  <1>5. T = {i \in 2..Len(w) : w[i].type = "tool-end"}
    <2>1. \A i \in ToolEnds(x) : i + 1 \in 2..Len(w) /\ w[i + 1].type = "tool-end"
      BY <1>1 DEF ToolEnds
    <2>2. ASSUME NEW i \in 2..Len(w), w[i].type = "tool-end"
          PROVE  i - 1 \in ToolEnds(x) /\ i = i - 1 + 1
      <3>1. i - 1 \in 1..Len(x) /\ i - 1 + 1 = i
        BY <1>1
      <3> QED BY <1>1, <2>2, <3>1 DEF ToolEnds
    <2> QED BY <2>1, <2>2
  <1> HIDE DEF T
  <1>6. CASE Head(w).type = "tool-end"
    <2>1. ToolEnds(w) = T \cup {1} /\ 1 \notin T
      BY <1>1, <1>5, <1>6 DEF ToolEnds
    <2> QED BY <1>4, <1>6, <2>1, FS_AddElement DEF x
  <1>7. CASE Head(w).type # "tool-end"
    <2>1. ToolEnds(w) = T
      BY <1>1, <1>5, <1>7 DEF ToolEnds
    <2> QED BY <1>4, <1>7, <2>1 DEF x
  <1> QED BY <1>6, <1>7

-----------------------------------------------------------------------------
(* The state.                                                                *)
Copy == [thread : Thread, art : Ids]

PageType ==
    [no : Nat \ {0}, id : Ids, thread : Thread, shown : Ids, chat : Ids, current : Ids,
     hydrated : BOOLEAN, asked : BOOLEAN, query : Copy]

TurnType ==
    [phase : {"unsent", "over", "working", "asking", "returned", "ended", "failed"},
     page : Nat, open : BOOLEAN, aborted : BOOLEAN, live : BOOLEAN, prior : Thread,
     base : Ids, row : Ids, tools : Thread, art : BOOLEAN, wire : Seq(Event), got : Thread]

ChatTypes ==
    /\ page \in PageType
    /\ turn \in [Turns -> TurnType]
    /\ rows \in [Turns -> Copy]
    /\ cache \in [Turns -> Copy]
    /\ settled \in BOOLEAN /\ loose \in BOOLEAN /\ faults \in Nat

(* Only the turn the page waits for is read by it, a turn that is served and *)
(* not given up on is read, and a turn outside its time is as it began.      *)
Linked ==
    \A n \in Turns :
        /\ turn[n].phase = "unsent" => turn[n] = Unsent
        /\ turn[n].phase = "over" => turn[n] = Over
        /\ turn[n].page <= page.no
        /\ turn[n].open => turn[n].page = page.no
        /\ turn[n].open /\ ~turn[n].aborted => n = page.current
        /\ turn[n].phase \in {"working", "asking", "returned"} /\ turn[n].live /\ ~Abandoned(n)
               => turn[n].open
        /\ n = page.current => turn[n].open

(* Nobody names a row that was not inserted, and only its own turn inserts   *)
(* it.                                                                       *)
Announces(t, k) == \E i \in 1..Len(t.wire) : t.wire[i].type = "chat-done" /\ t.wire[i].row = k

Named(k) ==
    \/ page.chat = k \/ page.id = k
    \/ \E m \in Turns : turn[m].row = k \/ Announces(turn[m], k)

Written ==
    /\ page.id = 0 => page.asked /\ page.query = Absent
    /\ \A k \in Turns :
        /\ rows[k] = Absent => ~Named(k)
        /\ turn[k].phase \in {"unsent", "working", "asking", "returned"} /\ turn[k].row = 0
               => rows[k] = Absent
        /\ k = page.current /\ turn[k].row = 0 /\ page.chat = 0
               => \A m \in Turns : turn[m].row # k

(* Bubbles are shown, and neither stored nor sent.                           *)
Stowed ==
    /\ Clean(page.query.thread)
    /\ \A k \in Turns :
        /\ Clean(rows[k].thread)
        /\ Clean(cache[k].thread)
        /\ Clean(turn[k].prior)
        /\ \A i \in 1..Len(turn[k].tools) : turn[k].tools[i] = <<k, "tool">>

(* The stream: what has not arrived is on the wire, in order, and the last   *)
(* event says that the turn was saved.                                       *)
InOrder(n, t) ==
    /\ Len(t.tools) = Len(t.got) + Cardinality(ToolEnds(t.wire))
    /\ \A i \in 1..Len(t.got) : t.got[i] = <<n, "tool">>
    /\ \A i \in 1..Len(t.wire) :
          /\ t.wire[i].type = "tool-end" => t.wire[i].entry = <<n, "tool">>
          /\ t.wire[i].type = "artifact" => t.art
          /\ t.wire[i].type = "chat-done" => i = Len(t.wire) /\ t.phase = "ended"
    /\ t.phase = "ended" /\ t.wire # <<>> => t.wire[Len(t.wire)].type = "chat-done"

Wired == \A n \in Turns : turn[n].open /\ ~turn[n].aborted => InOrder(n, turn[n])

(* A turn the page waits for, and the row its last event will name.          *)
Waits(t) == ~t.aborted /\ (t.phase # "ended" \/ t.wire # <<>>)
SavedBy(t) == IF Waits(t) /\ t.phase = "ended" THEN t.wire[Len(t.wire)].row ELSE 0

Bubble ==
    /\ Tidy(page.thread)
    /\ ~Clean(page.thread) =>
          page.current # 0 /\ (turn[page.current].aborted \/ Waits(turn[page.current]))

(* The page shows what the turn was sent with, and its prompt; the row holds *)
(* that and the answer as soon as it is saved.                               *)
Follows(p, r, n, t) ==
    /\ \E s \in Thread : WithoutPending(p.thread) = Append(s, <<n, "user">>)
                        /\ Latest(Keep, s) = t.prior
    /\ ~t.art => p.shown = t.base
    /\ SavedBy(t) # 0 => SavedBy(t) = Target(t, n) /\ r[SavedBy(t)] = Stored(t, n)

Shown ==
    /\ settled => page.chat # 0
    /\ settled /\ page.current # 0 =>
          turn[page.current].phase = "ended" /\ turn[page.current].wire = <<>>
    /\ page.current # 0 /\ Waits(turn[page.current]) =>
          /\ page.chat = turn[page.current].row
          /\ ~loose => Follows(page, rows, page.current, turn[page.current])

(* What the row holds is shown, but for a turn saved and not yet announced.  *)
Unannounced ==
    /\ page.current # 0 /\ turn[page.current].phase = "ended"
    /\ turn[page.current].aborted \/ SavedBy(turn[page.current]) # 0

Covers ==
    ~loose /\ page.chat # 0 /\ ~Unannounced /\ Len(WithoutPending(page.thread)) <= Keep
      => ToSet(rows[page.chat].thread) \subseteq ToSet(WithoutPending(page.thread))

ChatInv == ChatTypes /\ Linked /\ Written /\ Stowed /\ Wired /\ Bubble /\ Shown /\ Covers /\ InStep

LEMMA Bounds == Keep \in Nat /\ MaxTurns \in Nat /\ MaxTurns > 0 /\ Turns \subseteq Ids /\ 0 \in Ids
                  /\ 0 \notin Turns /\ 1 \in Turns /\ \A k \in Ids : k # 0 => k \in Turns
  BY BoundsAssumption DEF Turns, Ids

LEMMA Records ==
    /\ <<>> \in Thread /\ Clean(<<>>) /\ Absent \in Copy
    /\ Unsent \in TurnType /\ Over \in TurnType
    /\ \A n \in Turns : <<n, "user">> \in Entry /\ <<n, "tool">> \in Entry
                         /\ NotPending(<<n, "user">>)
    /\ \A e \in Entry : [type |-> "tool-end", entry |-> e] \in Event
    /\ [type |-> "artifact"] \in Event
    /\ \A k \in Ids : [type |-> "chat-done", row |-> k] \in Event
  <1>1. <<>> \in Thread /\ <<>> \in Seq(Event) /\ Clean(<<>>)
    BY DEF Thread, Clean
  <1>2. Absent \in Copy
    BY <1>1, Bounds DEF Absent, Copy
  <1>3. Unsent \in TurnType
    BY <1>1, Bounds DEF Unsent, TurnType
  <1>4. Over \in TurnType
    BY <1>1, Bounds DEF Unsent, Over, TurnType
  <1> QED BY <1>1, <1>2, <1>3, <1>4 DEF Entry, Event, NotPending

(* What is stored of a turn.                                                 *)
LEMMA StoredIs ==
    ASSUME NEW t \in TurnType, NEW n \in Turns, Clean(t.prior),
           \A i \in 1..Len(t.tools) : t.tools[i] = <<n, "tool">>
    PROVE  /\ Stored(t, n) \in Copy /\ Clean(Stored(t, n).thread) /\ Stored(t, n) # Absent
           /\ Stored(t, n).thread = Append(t.prior, <<n, "user">>) \o Reply(n, t.tools, t.art)
           /\ Stored(t, n).art = IF t.art THEN n ELSE t.base
           /\ ToSet(t.prior) \cup {<<n, "user">>} \subseteq ToSet(Stored(t, n).thread)
  <1> DEFINE u == <<n, "user">>
             p == t.prior
             r == Reply(n, t.tools, t.art)
             w == Append(p, u)
             a == IF t.art THEN n ELSE t.base
  <1>1. p \in Thread /\ u \in Entry /\ NotPending(u) /\ a \in Ids
    BY Records, Bounds DEF TurnType
  <1>2. r \in Thread /\ Clean(r)
    BY ReplyIs DEF TurnType
  <1>3. Stored(t, n) = [thread |-> p \o <<u>> \o r, art |-> a]
    BY DEF Stored
  <1> HIDE DEF u, r, a
  <1>4. w \in Thread /\ w = p \o <<u>> /\ Len(w) = Len(p) + 1 /\ Clean(w) /\ ToSet(w) = ToSet(p) \cup {u}
    BY <1>1, OneMore
  <1> HIDE DEF w, p
  <1>5. /\ (w \o r) \in Thread /\ Clean(w \o r) /\ Len(w \o r) = Len(w) + Len(r)
        /\ ToSet(w \o r) = ToSet(w) \cup ToSet(r)
    BY <1>2, <1>4, Continued
  <1>6. w \o r # <<>>
    <2>1. Len(p) \in Nat /\ Len(r) \in Nat
      BY <1>1, <1>2 DEF Thread
    <2> QED BY <1>4, <1>5, <2>1
  <1>7. Stored(t, n) = [thread |-> w \o r, art |-> a]
    BY <1>3, <1>4
  <1>8. Stored(t, n) # Absent
    BY <1>6, <1>7 DEF Absent
  <1>9. Stored(t, n).thread = w \o r /\ Stored(t, n).art = a
    BY <1>7
  <1>10. Stored(t, n) \in Copy
    BY <1>1, <1>5, <1>7 DEF Copy
  <1>11. Clean(Stored(t, n).thread) /\ ToSet(p) \cup {u} \subseteq ToSet(Stored(t, n).thread)
    BY <1>4, <1>5, <1>9
  <1>12. w \o r = Append(t.prior, <<n, "user">>) \o Reply(n, t.tools, t.art)
         /\ a = IF t.art THEN n ELSE t.base
    BY DEF w, r, a, p, u
  <1>13. ToSet(t.prior) \cup {<<n, "user">>} \subseteq ToSet(Stored(t, n).thread)
    BY <1>11 DEF p, u
  <1> QED BY <1>8, <1>9, <1>10, <1>11, <1>12, <1>13

(* The end of a thread that is answered is the end of what was sent of it,   *)
(* answered.                                                                 *)
LEMMA AnsweredAsSent ==
    ASSUME NEW s \in Thread, NEW p \in Thread, NEW r \in Thread, NEW u \in Entry,
           Latest(Keep, s) = p
    PROVE  /\ Latest(Keep, Append(s, u) \o r) = Latest(Keep, Append(p, u) \o r)
           /\ Len(s) <= Keep => s = p
           /\ Len(p) < Keep => s = p
  <1>1. Keep \in Nat /\ s \in Seq(Entry) /\ p \in Seq(Entry) /\ r \in Seq(Entry) /\ <<u>> \in Seq(Entry)
        /\ Len(s) \in Nat
    BY Bounds DEF Thread
  <1>2. Len(s) <= Keep => s = p
    BY <1>1, LatestShort
  <1>3. Len(p) < Keep => s = p
    <2>1. PICK m \in 0..Len(s) :
            /\ Len(s) < Keep => m = Len(s)
            /\ ~(Len(s) < Keep) => m = Keep
            /\ Latest(Keep, s) \in Seq(Entry) /\ Len(Latest(Keep, s)) = m
            /\ \A i \in 1..m : Latest(Keep, s)[i] = s[Len(s) - m + i]
      BY <1>1, LatestIs
    <2>2. Len(p) = m /\ (~(Len(s) < Keep) => m = Keep)
      BY <2>1
    <2> QED BY <1>1, <1>2, <2>2
  <1>4. Latest(Keep, Append(s, u) \o r) = Latest(Keep, Append(p, u) \o r)
    <2> DEFINE x == <<u>> \o r
    <2>1. x \in Seq(Entry)
      BY <1>1, ConcatProperties
    <2>2. Append(s, u) = s \o <<u>> /\ Append(p, u) = p \o <<u>>
      BY OneMore
    <2>3. (s \o <<u>>) \o r = s \o x /\ (p \o <<u>>) \o r = p \o x
      <3>1. (s \o <<u>>) \o r = s \o (<<u>> \o r)
        BY <1>1, ConcatAssociative
      <3>2. (p \o <<u>>) \o r = p \o (<<u>> \o r)
        BY <1>1, ConcatAssociative
      <3> QED BY <3>1, <3>2
    <2> HIDE DEF x
    <2>4. Latest(Keep, s \o x) = Latest(Keep, Latest(Keep, s) \o x)
      BY <1>1, <2>1, LatestOfConcat
    <2> QED BY <2>2, <2>3, <2>4
  <1> QED BY <1>2, <1>3, <1>4

-----------------------------------------------------------------------------
(* What the procedure does to a turn.  What the page has of it stays.        *)
Sends(t, ev) == IF t.open /\ ~t.aborted THEN Append(t.wire, ev) ELSE t.wire

Carries(t, u) ==
    /\ u.page = t.page /\ u.open = t.open /\ u.aborted = t.aborted /\ u.prior = t.prior
    /\ u.base = t.base /\ u.row = t.row /\ u.got = t.got

RanTool(n, t, u) ==
    /\ t.phase \in {"working", "asking"} /\ u.phase = "working" /\ u.live /\ u.art = t.art
    /\ u.tools = Append(t.tools, <<n, "tool">>)
    /\ u.wire = Sends(t, [type |-> "tool-end", entry |-> <<n, "tool">>])

Composed(t, u) ==
    /\ t.phase = "working" /\ u.phase = "working" /\ u.live /\ u.art /\ u.tools = t.tools
    /\ u.wire = Sends(t, [type |-> "artifact"])

Moved(t, u) ==
    /\ t.phase = "working" /\ u.phase \in {"asking", "returned", "failed"} /\ u.live
    /\ u.art = t.art /\ u.tools = t.tools /\ u.wire = t.wire

Ended(t, u, k) ==
    /\ t.phase = "returned" /\ u.phase = "ended" /\ u.live /\ u.art = t.art /\ u.tools = t.tools
    /\ u.wire = Sends(t, [type |-> "chat-done", row |-> k])

CutOff(t, u) ==
    /\ u.phase = t.phase /\ u.art = t.art /\ u.tools = t.tools /\ u.wire = t.wire

Advances(n, t, u, k) ==
    \/ u = Over /\ ~t.open
    \/ /\ Carries(t, u)
       /\ RanTool(n, t, u) \/ Composed(t, u) \/ Moved(t, u) \/ Ended(t, u, k) \/ CutOff(t, u)

Others(n) == \A m \in Turns : m # n => turn'[m] = turn[m]

Serves(n) ==
    /\ UNCHANGED <<page, rows, cache, settled, loose>> /\ faults' \in Nat
    /\ turn' \in [Turns -> TurnType] /\ Others(n)
    /\ turn[n].live /\ Advances(n, turn[n], turn'[n], 0)

(* Step u of turn n, retired if need be.                                     *)
LEMMA RetiredAdvances ==
    ASSUME ChatTypes, NEW n \in Turns, NEW u \in TurnType, turn[n].live,
           turn' = [turn EXCEPT ![n] = Retired(u)], Carries(turn[n], u),
           \/ RanTool(n, turn[n], u) \/ Composed(turn[n], u) \/ Moved(turn[n], u)
           \/ Ended(turn[n], u, 0) \/ CutOff(turn[n], u),
           UNCHANGED <<page, rows, cache, settled, loose>>, faults' \in Nat
    PROVE  Serves(n)
  <1>1. turn \in [Turns -> TurnType]
    BY DEF ChatTypes
  <1>2. turn'[n] = Retired(u) /\ Others(n)
    BY <1>1 DEF Others
  <1>3. Retired(u) = u \/ (Retired(u) = Over /\ ~turn[n].open)
    BY DEF Retired, Carries
  <1>4. Retired(u) \in TurnType
    BY <1>3, Records
  <1>5. turn' \in [Turns -> TurnType]
    BY <1>1, <1>4
  <1>6. Advances(n, turn[n], turn'[n], 0)
    BY <1>2, <1>3 DEF Advances
  <1> QED BY <1>2, <1>5, <1>6 DEF Serves

LEMMA ToolTypes ==
    ASSUME ChatTypes, NEW n \in Turns
    PROVE  /\ Append(turn[n].tools, <<n, "tool">>) \in Thread
           /\ \A ev \in Event : Sends(turn[n], ev) \in Seq(Event)
           /\ \A ev : Emit(turn[n], ev) = Sends(turn[n], ev)
  <1>1. turn[n] \in TurnType
    BY DEF ChatTypes
  <1>2. turn[n].tools \in Seq(Entry) /\ turn[n].wire \in Seq(Event)
    BY <1>1 DEF TurnType, Thread
  <1>3. Append(turn[n].tools, <<n, "tool">>) \in Thread
    BY <1>2, Records, AppendProperties DEF Thread
  <1>4. \A ev \in Event : Sends(turn[n], ev) \in Seq(Event)
    BY <1>2, AppendProperties DEF Sends
  <1>5. \A ev : Emit(turn[n], ev) = Sends(turn[n], ev)
    BY DEF Emit, Sends
  <1> QED BY <1>3, <1>4, <1>5

LEMMA ToolEndedServes ==
    ASSUME ChatTypes, NEW n \in Turns, ToolEnded(n), turn[n].phase \in {"working", "asking"},
           turn[n].live, UNCHANGED <<page, rows, cache, faults, settled, loose>>
    PROVE  Serves(n)
  <1> DEFINE t == turn[n]
             e == <<n, "tool">>
             u == [t EXCEPT !.phase = "working", !.tools = Append(@, e),
                            !.wire = Sends(t, [type |-> "tool-end", entry |-> e])]
  <1>1. t \in TurnType /\ turn \in [Turns -> TurnType] /\ faults \in Nat
    BY DEF ChatTypes
  <1>2. Append(t.tools, e) \in Thread /\ Sends(t, [type |-> "tool-end", entry |-> e]) \in Seq(Event)
    BY ToolTypes, Records
  <1>3. turn' = [turn EXCEPT ![n] = u]
    <2>1. Emit(t, [type |-> "tool-end", entry |-> e]) = Sends(t, [type |-> "tool-end", entry |-> e])
      BY ToolTypes
    <2> QED BY <1>1, <2>1 DEF ToolEnded
  <1>4. u \in TurnType
    BY <1>1, <1>2 DEF TurnType
  <1>5. Carries(t, u) /\ RanTool(n, t, u)
    BY <1>1 DEF TurnType, Carries, RanTool
  <1>6. Retired(u) = u
    BY <1>1 DEF Retired, TurnType
  <1> HIDE DEF u
  <1> QED BY <1>1, <1>3, <1>4, <1>5, <1>6, RetiredAdvances

(* The actions that leave the page and the rows alone.                       *)
Runs(n) ==
    AutoTool(n) \/ AskTool(n) \/ Compose(n) \/ LoopReturns(n) \/ LoopThrows(n)
        \/ Answer(n) \/ Timeout(n) \/ Sever(n) \/ Break(n)

LEMMA RunsServes ==
    ASSUME ChatTypes, Linked, NEW n \in Turns, Runs(n)
    PROVE  Serves(n)
  <1> DEFINE t == turn[n]
  <1>1. t \in TurnType /\ turn \in [Turns -> TurnType] /\ faults \in Nat
    BY DEF ChatTypes
  <1>2. CASE AutoTool(n)
    BY <1>2, ToolEndedServes DEF AutoTool, Working
  <1>3. CASE Answer(n)
    BY <1>3, ToolEndedServes DEF Answer, Parked
  <1>4. CASE Timeout(n)
    BY <1>4, ToolEndedServes DEF Timeout, Expired, Parked
  <1>5. CASE AskTool(n)
    <2> DEFINE u == [t EXCEPT !.phase = "asking"]
    <2>1. turn' = [turn EXCEPT ![n] = u] /\ t.phase = "working" /\ t.live
      BY <1>1, <1>5 DEF AskTool, Working
    <2>2. u \in TurnType /\ Carries(t, u) /\ Moved(t, u) /\ Retired(u) = u
      BY <1>1, <2>1 DEF TurnType, Carries, Moved, Retired
    <2>3. UNCHANGED <<page, rows, cache, settled, loose, faults>>
      BY <1>5 DEF AskTool
    <2> HIDE DEF u
    <2> QED BY <1>1, <2>1, <2>2, <2>3, RetiredAdvances
  <1>6. CASE Compose(n)
    <2> DEFINE u == [t EXCEPT !.art = TRUE, !.wire = Sends(t, [type |-> "artifact"])]
    <2>1. Emit(t, [type |-> "artifact"]) = Sends(t, [type |-> "artifact"])
          /\ Sends(t, [type |-> "artifact"]) \in Seq(Event)
      BY ToolTypes, Records
    <2>2. turn' = [turn EXCEPT ![n] = u] /\ t.phase = "working" /\ t.live
      BY <1>1, <1>6, <2>1 DEF Compose, Working
    <2>3. u \in TurnType /\ Carries(t, u) /\ Composed(t, u) /\ Retired(u) = u
      BY <1>1, <2>1, <2>2 DEF TurnType, Carries, Composed, Retired
    <2>4. UNCHANGED <<page, rows, cache, settled, loose, faults>>
      BY <1>6 DEF Compose
    <2> HIDE DEF u
    <2> QED BY <1>1, <2>2, <2>3, <2>4, RetiredAdvances
  <1>7. CASE LoopReturns(n)
    <2> DEFINE u == [t EXCEPT !.phase = "returned"]
    <2>1. turn' = [turn EXCEPT ![n] = u] /\ t.phase = "working" /\ t.live
      BY <1>1, <1>7 DEF LoopReturns, Working
    <2>2. u \in TurnType /\ Carries(t, u) /\ Moved(t, u) /\ Retired(u) = u
      BY <1>1, <2>1 DEF TurnType, Carries, Moved, Retired
    <2>3. UNCHANGED <<page, rows, cache, settled, loose, faults>>
      BY <1>7 DEF LoopReturns
    <2> HIDE DEF u
    <2> QED BY <1>1, <2>1, <2>2, <2>3, RetiredAdvances
  <1>8. CASE LoopThrows(n)
    <2> DEFINE u == [t EXCEPT !.phase = "failed"]
    <2>1. turn' = [turn EXCEPT ![n] = Retired(u)] /\ t.phase = "working" /\ t.live
      BY <1>1, <1>8 DEF LoopThrows, Working
    <2>2. u \in TurnType /\ Carries(t, u) /\ Moved(t, u)
      BY <1>1, <2>1 DEF TurnType, Carries, Moved
    <2>3. UNCHANGED <<page, rows, cache, settled, loose>> /\ faults' \in Nat
      BY <1>1, <1>8 DEF LoopThrows
    <2> HIDE DEF u
    <2> QED BY <1>1, <2>1, <2>2, <2>3, RetiredAdvances
  <1>9. CASE Sever(n)
    <2> DEFINE u == [t EXCEPT !.live = FALSE]
    <2>1. turn' = [turn EXCEPT ![n] = Retired(u)] /\ t.live
      BY <1>1, <1>9 DEF Sever
    <2>2. u \in TurnType /\ Carries(t, u) /\ CutOff(t, u)
      BY <1>1, <2>1 DEF TurnType, Carries, CutOff
    <2>3. UNCHANGED <<page, rows, cache, settled, loose, faults>>
      BY <1>9 DEF Sever
    <2> HIDE DEF u
    <2> QED BY <1>1, <2>1, <2>2, <2>3, RetiredAdvances
  <1>10. CASE Break(n)
    <2> DEFINE u == [t EXCEPT !.live = FALSE]
    <2>1. turn' = [turn EXCEPT ![n] = u] /\ t.live /\ t.open
      BY <1>1, <1>10 DEF Break
    <2>2. u \in TurnType /\ Carries(t, u) /\ CutOff(t, u) /\ Retired(u) = u
      BY <1>1, <2>1 DEF TurnType, Carries, CutOff, Retired
    <2>3. UNCHANGED <<page, rows, cache, settled, loose>> /\ faults' \in Nat
      BY <1>1, <1>10 DEF Break
    <2> HIDE DEF u
    <2> QED BY <1>1, <2>1, <2>2, <2>3, RetiredAdvances
  <1> QED BY <1>2, <1>3, <1>4, <1>5, <1>6, <1>7, <1>8, <1>9, <1>10 DEF Runs

(* The save that succeeds.                                                   *)
Persisted(n) ==
    /\ UNCHANGED <<page, cache, settled>> /\ faults' \in Nat
    /\ turn[n].phase = "returned" /\ turn[n].live
    /\ rows' = [rows EXCEPT ![Target(turn[n], n)] = Stored(turn[n], n)]
    /\ loose' = (loose \/ (Abandoned(n) /\ page.chat = Target(turn[n], n)))
    /\ turn' \in [Turns -> TurnType] /\ Others(n)
    /\ \/ turn'[n] = Over /\ ~turn[n].open
       \/ Carries(turn[n], turn'[n]) /\ Ended(turn[n], turn'[n], Target(turn[n], n))

LEMMA PersistIs ==
    ASSUME ChatTypes, NEW n \in Turns, Persist(n)
    PROVE  Serves(n) \/ Persisted(n)
  <1> DEFINE t == turn[n]
             id == Target(t, n)
             After(k) == [t EXCEPT !.phase = "ended",
                                   !.wire = Sends(t, [type |-> "chat-done", row |-> k])]
  <1>1. t \in TurnType /\ turn \in [Turns -> TurnType] /\ faults \in Nat
    BY DEF ChatTypes
  <1>2. t.phase = "returned" /\ t.live /\ UNCHANGED <<page, cache, settled>>
    BY DEF Persist
  <1>3. id \in Ids /\ id # 0
    <2>1. t.row \in Ids
      BY <1>1 DEF TurnType
    <2> QED BY <2>1, Bounds DEF Target
  <1>4. ASSUME NEW k \in Ids
        PROVE  /\ After(k) \in TurnType /\ Carries(t, After(k)) /\ Ended(t, After(k), k)
               /\ [t EXCEPT !.phase = "ended", !.wire = Done(t, k)] = After(k)
    <2>1. Emit(t, [type |-> "chat-done", row |-> k]) = Sends(t, [type |-> "chat-done", row |-> k])
          /\ Sends(t, [type |-> "chat-done", row |-> k]) \in Seq(Event)
      BY ToolTypes, Records
    <2> QED BY <1>1, <1>2, <2>1 DEF TurnType, Carries, Ended, Done
  <1> HIDE DEF After, id
  <1>5. \/ /\ rows' = [rows EXCEPT ![id] = Stored(t, n)]
           /\ turn' = [turn EXCEPT ![n] = Retired(After(id))]
           /\ loose' = (loose \/ (Abandoned(n) /\ page.chat = id))
           /\ faults' = faults
        \/ /\ faults' = faults + 1
           /\ turn' = [turn EXCEPT ![n] = Retired(After(0))]
           /\ UNCHANGED <<rows, loose>>
    BY <1>1, <1>3, <1>4, Bounds DEF Persist, id
  <1>6. CASE turn' = [turn EXCEPT ![n] = Retired(After(0))] /\ UNCHANGED <<rows, loose>>
             /\ faults' = faults + 1
    <2>1. After(0) \in TurnType /\ Carries(t, After(0)) /\ Ended(t, After(0), 0)
      BY <1>4, Bounds
    <2>2. UNCHANGED <<page, rows, cache, settled, loose>> /\ faults' \in Nat
      BY <1>1, <1>2, <1>6
    <2> QED BY <1>2, <1>6, <2>1, <2>2, RetiredAdvances
  <1>7. CASE /\ rows' = [rows EXCEPT ![id] = Stored(t, n)]
             /\ turn' = [turn EXCEPT ![n] = Retired(After(id))]
             /\ loose' = (loose \/ (Abandoned(n) /\ page.chat = id))
             /\ faults' = faults
    <2> DEFINE u == After(id)
    <2>1. u \in TurnType /\ Carries(t, u) /\ Ended(t, u, id)
      BY <1>3, <1>4
    <2> HIDE DEF u
    <2>2. turn'[n] = Retired(u) /\ Others(n)
      BY <1>1, <1>7 DEF Others, u
    <2>3. Retired(u) = u \/ (Retired(u) = Over /\ ~t.open)
      BY <2>1 DEF Retired, Carries
    <2>4. Retired(u) \in TurnType
      BY <2>1, <2>3, Records
    <2>5. turn' \in [Turns -> TurnType]
      BY <1>1, <1>7, <2>4 DEF u
    <2>6. faults' \in Nat
      BY <1>1, <1>7
    <2> QED BY <1>2, <1>7, <2>1, <2>2, <2>3, <2>5, <2>6 DEF Persisted, id
  <1> QED BY <1>5, <1>6, <1>7

-----------------------------------------------------------------------------
(* The stream stays in order, whatever the procedure sends or the page reads.*)
LEMMA Emitted ==
    ASSUME NEW w \in Seq(Event), NEW ev \in Event
    PROVE  /\ Append(w, ev) \in Seq(Event) /\ Append(w, ev) # <<>>
           /\ Len(w) \in Nat /\ Len(Append(w, ev)) = Len(w) + 1
           /\ Append(w, ev)[Len(w) + 1] = ev
           /\ \A i \in 1..Len(w) + 1 : 
              (i \in 1..Len(w) /\ Append(w, ev)[i] = w[i]) \/ (i = Len(w) + 1 /\ Append(w, ev)[i] = ev)
  <1>1. /\ Append(w, ev) \in Seq(Event) /\ Append(w, ev) # <<>>
        /\ Len(w) \in Nat /\ Len(Append(w, ev)) = Len(w) + 1
        /\ Append(w, ev)[Len(w) + 1] = ev
        /\ \A i \in 1..Len(w) : Append(w, ev)[i] = w[i]
    BY AppendProperties
  <1> DEFINE x == Append(w, ev)
  <1>2. \A i \in 1..Len(w) + 1 : (i \in 1..Len(w) /\ x[i] = w[i]) \/ (i = Len(w) + 1 /\ x[i] = ev)
    <2> TAKE i \in 1..Len(w) + 1
    <2>1. i \in 1..Len(w) \/ i = Len(w) + 1
      BY <1>1
    <2> HIDE DEF x
    <2> QED BY <1>1, <2>1 DEF x
  <1> QED BY <1>1, <1>2

LEMMA InOrderServed ==
    ASSUME NEW n \in Turns, NEW t \in TurnType, NEW u \in TurnType, NEW k \in Ids,
           InOrder(n, t), t.open, ~t.aborted, Carries(t, u),
           \/ RanTool(n, t, u) \/ Composed(t, u) \/ Moved(t, u)
           \/ Ended(t, u, k) \/ CutOff(t, u)
    PROVE  InOrder(n, u)
  <1> DEFINE w == t.wire
             e == <<n, "tool">>
  <1>1. w \in Seq(Event) /\ Len(w) \in Nat /\ Len(t.tools) \in Nat /\ Len(t.got) \in Nat
        /\ Cardinality(ToolEnds(w)) \in Nat
    <2>1. w \in Seq(Event) /\ Len(t.tools) \in Nat /\ Len(t.got) \in Nat
      BY DEF TurnType, Thread
    <2> QED BY <2>1, EndsFinite
  <1>2. u.got = t.got
    BY DEF Carries
  <1>3. t.phase # "ended" => \A i \in 1..Len(w) : w[i].type # "chat-done"
    BY DEF InOrder
  <1> HIDE DEF w
  <1>4. CASE RanTool(n, t, u)
    <2> DEFINE ev == [type |-> "tool-end", entry |-> e]
               x == Append(w, ev)
    <2>1. ev \in Event /\ ev.type = "tool-end" /\ ev.entry = e
      BY Records
    <2> HIDE DEF ev
    <2>2. /\ u.wire = x /\ u.phase = "working" /\ t.phase # "ended" /\ u.art = t.art
          /\ u.tools = Append(t.tools, e)
      BY <1>4 DEF RanTool, Sends, w, ev
    <2>3. Len(u.tools) = Len(t.tools) + 1
      <3>1. t.tools \in Thread /\ e \in Entry
        BY Records DEF TurnType
      <3> QED BY <2>2, <3>1, OneMore
    <2>4. Cardinality(ToolEnds(x)) = Cardinality(ToolEnds(w)) + 1
      BY <1>1, <2>1, EndsSent
    <2>5. /\ Len(x) = Len(w) + 1
          /\ \A i \in 1..Len(w) + 1 : 
              (i \in 1..Len(w) /\ x[i] = w[i]) \/ (i = Len(w) + 1 /\ x[i] = ev)
      BY <1>1, <2>1, Emitted
    <2> HIDE DEF x, e
    <2>6. Len(u.tools) = Len(u.got) + Cardinality(ToolEnds(u.wire))
      BY <1>1, <1>2, <2>2, <2>3, <2>4 DEF InOrder, w
    <2>7. ASSUME NEW i \in 1..Len(u.wire)
          PROVE  /\ u.wire[i].type = "tool-end" => u.wire[i].entry = e
                 /\ u.wire[i].type = "artifact" => u.art
                 /\ u.wire[i].type # "chat-done"
      <3>1. \/ i \in 1..Len(w) /\ u.wire[i] = w[i]
            \/ u.wire[i] = ev
        BY <2>2, <2>5
      <3>2. CASE i \in 1..Len(w) /\ u.wire[i] = w[i]
        BY <1>3, <2>2, <3>2 DEF InOrder, w, e
      <3>3. CASE u.wire[i] = ev
        BY <2>1, <3>3
      <3> QED BY <3>1, <3>2, <3>3
    <2> QED BY <1>2, <2>2, <2>6, <2>7 DEF InOrder, e
  <1>5. CASE Composed(t, u)
    <2> DEFINE ev == [type |-> "artifact"]
               x == Append(w, ev)
    <2>1. ev \in Event /\ ev.type = "artifact"
      BY Records
    <2> HIDE DEF ev
    <2>2. /\ u.wire = x /\ u.phase = "working" /\ t.phase # "ended" /\ u.art
          /\ u.tools = t.tools
      BY <1>5 DEF Composed, Sends, w, ev
    <2>4. Cardinality(ToolEnds(x)) = Cardinality(ToolEnds(w))
      BY <1>1, <2>1, EndsSent
    <2>5. /\ Len(x) = Len(w) + 1
          /\ \A i \in 1..Len(w) + 1 : 
              (i \in 1..Len(w) /\ x[i] = w[i]) \/ (i = Len(w) + 1 /\ x[i] = ev)
      BY <1>1, <2>1, Emitted
    <2> HIDE DEF x, e
    <2>6. Len(u.tools) = Len(u.got) + Cardinality(ToolEnds(u.wire))
      BY <1>1, <1>2, <2>2, <2>4 DEF InOrder, w
    <2>7. ASSUME NEW i \in 1..Len(u.wire)
          PROVE  /\ u.wire[i].type = "tool-end" => u.wire[i].entry = e
                 /\ u.wire[i].type = "artifact" => u.art
                 /\ u.wire[i].type # "chat-done"
      <3>1. \/ i \in 1..Len(w) /\ u.wire[i] = w[i]
            \/ u.wire[i] = ev
        BY <2>2, <2>5
      <3>2. CASE i \in 1..Len(w) /\ u.wire[i] = w[i]
        BY <1>3, <2>2, <3>2 DEF InOrder, w, e
      <3>3. CASE u.wire[i] = ev
        BY <2>1, <2>2, <3>3
      <3> QED BY <3>1, <3>2, <3>3
    <2> QED BY <1>2, <2>2, <2>6, <2>7 DEF InOrder, e
  <1>6. CASE Ended(t, u, k)
    <2> DEFINE ev == [type |-> "chat-done", row |-> k]
               x == Append(w, ev)
    <2>1. ev \in Event /\ ev.type = "chat-done"
      BY Records
    <2> HIDE DEF ev
    <2>2. /\ u.wire = x /\ u.phase = "ended" /\ t.phase # "ended" /\ u.art = t.art
          /\ u.tools = t.tools
      BY <1>6 DEF Ended, Sends, w, ev
    <2>4. Cardinality(ToolEnds(x)) = Cardinality(ToolEnds(w))
      BY <1>1, <2>1, EndsSent
    <2>5. /\ Len(x) = Len(w) + 1 /\ x[Len(w) + 1] = ev
          /\ \A i \in 1..Len(w) + 1 : 
              (i \in 1..Len(w) /\ x[i] = w[i]) \/ (i = Len(w) + 1 /\ x[i] = ev)
      BY <1>1, <2>1, Emitted
    <2> HIDE DEF x, e
    <2>6. Len(u.tools) = Len(u.got) + Cardinality(ToolEnds(u.wire))
      BY <1>1, <1>2, <2>2, <2>4 DEF InOrder, w
    <2>7. ASSUME NEW i \in 1..Len(u.wire)
          PROVE  /\ u.wire[i].type = "tool-end" => u.wire[i].entry = e
                 /\ u.wire[i].type = "artifact" => u.art
                 /\ u.wire[i].type = "chat-done" => i = Len(u.wire)
      <3>1. \/ i \in 1..Len(w) /\ u.wire[i] = w[i]
            \/ i = Len(u.wire) /\ u.wire[i] = ev
        BY <2>2, <2>5
      <3>2. CASE i \in 1..Len(w) /\ u.wire[i] = w[i]
        BY <1>3, <2>2, <3>2 DEF InOrder, w, e
      <3>3. CASE i = Len(u.wire) /\ u.wire[i] = ev
        BY <2>1, <3>3
      <3> QED BY <3>1, <3>2, <3>3
    <2>8. u.wire[Len(u.wire)].type = "chat-done"
      BY <2>1, <2>2, <2>5
    <2> QED BY <1>2, <2>2, <2>6, <2>7, <2>8 DEF InOrder, e
  <1>7. CASE Moved(t, u)
    <2>1. /\ u.wire = w /\ u.phase # "ended" /\ t.phase # "ended" /\ u.art = t.art /\ u.tools = t.tools
      BY <1>7 DEF Moved, w
    <2>2. ASSUME NEW i \in 1..Len(u.wire)
          PROVE  /\ u.wire[i].type = "tool-end" => u.wire[i].entry = e
                 /\ u.wire[i].type = "artifact" => u.art
                 /\ u.wire[i].type # "chat-done"
      BY <1>3, <2>1 DEF InOrder, w
    <2>3. Len(u.tools) = Len(u.got) + Cardinality(ToolEnds(u.wire))
      BY <1>2, <2>1 DEF InOrder, w
    <2> QED BY <1>2, <2>1, <2>2, <2>3 DEF InOrder
  <1>8. CASE CutOff(t, u)
    BY <1>2, <1>8 DEF InOrder, CutOff
  <1> QED BY <1>4, <1>5, <1>6, <1>7, <1>8

-----------------------------------------------------------------------------
(* What a step of the procedure, saving in row k if it saves, does to what   *)
(* the page and the rows depend on.                                          *)
LEMMA SendsIs ==
    ASSUME NEW t \in TurnType, NEW ev \in Event
    PROVE  /\ \A i \in 1..Len(Sends(t, ev)) :
                 Sends(t, ev)[i] = ev \/ (i \in 1..Len(t.wire) /\ Sends(t, ev)[i] = t.wire[i])
           /\ t.open /\ ~t.aborted => Sends(t, ev) # <<>> /\ Sends(t, ev)[Len(Sends(t, ev))] = ev
  <1>1. t.wire \in Seq(Event)
    BY DEF TurnType
  <1>2. CASE t.open /\ ~t.aborted
    <2>1. Sends(t, ev) = Append(t.wire, ev)
      BY <1>2 DEF Sends
    <2> QED BY <1>1, <2>1, Emitted
  <1>3. CASE ~(t.open /\ ~t.aborted)
    BY <1>3 DEF Sends
  <1> QED BY <1>2, <1>3

LEMMA AdvanceAnnounces ==
    ASSUME NEW n \in Turns, NEW t \in TurnType, NEW u \in TurnType, NEW k \in Ids, NEW j,
           Advances(n, t, u, k), Announces(u, j)
    PROVE  Announces(t, j) \/ (j = k /\ t.phase = "returned")
  <1>1. PICK i \in 1..Len(u.wire) : u.wire[i].type = "chat-done" /\ u.wire[i].row = j
    BY DEF Announces
  <1>2. u # Over
    BY <1>1 DEF Over, Unsent
  <1>3. CASE RanTool(n, t, u) \/ Composed(t, u)
    <2>1. PICK ev \in Event : ev.type # "chat-done" /\ u.wire = Sends(t, ev)
      BY <1>3, Records DEF RanTool, Composed
    <2>2. i \in 1..Len(t.wire) /\ u.wire[i] = t.wire[i]
      BY <1>1, <2>1, SendsIs
    <2> QED BY <1>1, <2>2 DEF Announces
  <1>4. CASE Ended(t, u, k)
    <2> DEFINE ev == [type |-> "chat-done", row |-> k]
    <2>1. ev \in Event /\ u.wire = Sends(t, ev) /\ t.phase = "returned" /\ ev.row = k
      BY <1>4, Records DEF Ended
    <2> HIDE DEF ev
    <2>2. u.wire[i] = ev \/ (i \in 1..Len(t.wire) /\ u.wire[i] = t.wire[i])
      BY <1>1, <2>1, SendsIs
    <2> QED BY <1>1, <2>1, <2>2 DEF Announces
  <1>5. CASE Moved(t, u) \/ CutOff(t, u)
    BY <1>1, <1>5 DEF Moved, CutOff, Announces
  <1> QED BY <1>2, <1>3, <1>4, <1>5 DEF Advances

LEMMA AdvanceTools ==
    ASSUME NEW n \in Turns, NEW t \in TurnType, NEW u \in TurnType, NEW k \in Ids,
           Advances(n, t, u, k), \A i \in 1..Len(t.tools) : t.tools[i] = <<n, "tool">>
    PROVE  \A i \in 1..Len(u.tools) : u.tools[i] = <<n, "tool">>
  <1> DEFINE e == <<n, "tool">>
  <1>1. t.tools \in Seq(Entry) /\ e \in Entry
    BY Records DEF TurnType, Thread
  <1>2. CASE RanTool(n, t, u)
    <2>1. u.tools = Append(t.tools, e)
      BY <1>2 DEF RanTool
    <2> HIDE DEF e
    <2>2. /\ Len(t.tools) \in Nat /\ Len(u.tools) = Len(t.tools) + 1
          /\ u.tools[Len(t.tools) + 1] = e /\ \A i \in 1..Len(t.tools) : u.tools[i] = t.tools[i]
      BY <1>1, <2>1, AppendProperties
    <2>3. \A i \in 1..Len(t.tools) : t.tools[i] = e
      BY DEF e
    <2>4. \A i \in 1..Len(u.tools) : u.tools[i] = e
      <3> TAKE i \in 1..Len(u.tools)
      <3>1. i \in 1..Len(t.tools) \/ i = Len(t.tools) + 1
        BY <2>2
      <3> QED BY <2>2, <2>3, <3>1
    <2> QED BY <2>4 DEF e
  <1>3. CASE u = Over
    BY <1>3 DEF Over, Unsent
  <1>4. CASE u.tools = t.tools
    BY <1>4
  <1> QED BY <1>2, <1>3, <1>4 DEF Advances, Composed, Moved, Ended, CutOff

LEMMA AdvanceIs ==
    ASSUME NEW n \in Turns, NEW t \in TurnType, NEW u \in TurnType, NEW k \in Ids,
           Advances(n, t, u, k), t.live,
           t.phase = "unsent" => t = Unsent, t.phase = "over" => t = Over
    PROVE  /\ u.phase # "unsent" /\ (u.phase = "over" => u = Over)
           /\ u.page = t.page \/ u.page = 0
           /\ u.open = t.open /\ (u.aborted = t.aborted \/ ~t.open)
           /\ u.row = t.row \/ u.row = 0
           /\ u.prior = t.prior \/ u.prior = <<>>
           /\ u.phase \in {"working", "asking", "returned"} =>
                 /\ t.phase \in {"working", "asking", "returned"}
                 /\ u.page = t.page /\ u.aborted = t.aborted /\ u.row = t.row
  <1>1. ~Unsent.live /\ ~Over.live /\ Over.phase = "over" /\ Over.page = 0 /\ Over.open = FALSE
        /\ Over.row = 0 /\ Over.prior = <<>>
    BY DEF Unsent, Over
  <1>2. t.phase # "unsent" /\ t.phase # "over"
    BY <1>1
  <1>3. CASE u = Over /\ ~t.open
    BY <1>1, <1>3 DEF TurnType
  <1>4. CASE /\ Carries(t, u)
             /\ RanTool(n, t, u) \/ Composed(t, u) \/ Moved(t, u) \/ Ended(t, u, k) \/ CutOff(t, u)
    <2>1. u.phase # "unsent" /\ u.phase # "over"
          /\ (u.phase \in {"working", "asking", "returned"} => t.phase \in {"working", "asking", "returned"})
      BY <1>2, <1>4 DEF RanTool, Composed, Moved, Ended, CutOff
    <2> QED BY <1>4, <2>1 DEF Carries
  <1> QED BY <1>3, <1>4 DEF Advances

LEMMA OpenAdvance ==
    ASSUME NEW n \in Turns, NEW t \in TurnType, NEW u \in TurnType, NEW k \in Ids,
           Advances(n, t, u, k), t.open
    PROVE  /\ Carries(t, u) /\ (t.art => u.art)
           /\ Waits(u) => Waits(t)
           /\ Waits(t) => Waits(u)
           /\ t.phase = "ended" =>
                 /\ u.phase = "ended" /\ u.wire = t.wire /\ u.tools = t.tools /\ u.art = t.art
                 /\ SavedBy(u) = SavedBy(t)
           /\ SavedBy(u) # 0 => \/ t.phase = "ended"
                                \/ t.phase = "returned" /\ SavedBy(u) = k
                                     /\ u.tools = t.tools /\ u.art = t.art
  <1>1. Carries(t, u) /\ u # Over
    BY DEF Advances, Over, Unsent, Carries
  <1>2. CASE Ended(t, u, k)
    <2> DEFINE ev == [type |-> "chat-done", row |-> k]
    <2>1. /\ ev \in Event /\ u.wire = Sends(t, ev) /\ t.phase = "returned" /\ ev.row = k
          /\ u.phase = "ended" /\ u.aborted = t.aborted /\ u.tools = t.tools /\ u.art = t.art
      BY <1>1, <1>2, Records DEF Ended, Carries
    <2> HIDE DEF ev
    <2>2. ~t.aborted => u.wire # <<>> /\ u.wire[Len(u.wire)] = ev
      BY <2>1, SendsIs
    <2> QED BY <1>1, <2>1, <2>2 DEF Waits, SavedBy
  <1>3. CASE CutOff(t, u)
    BY <1>1, <1>3 DEF CutOff, Carries, Waits, SavedBy
  <1>4. CASE RanTool(n, t, u) \/ Composed(t, u) \/ Moved(t, u)
    <2>1. t.phase # "ended" /\ u.phase # "ended" /\ (t.art => u.art) /\ u.aborted = t.aborted
      BY <1>1, <1>4 DEF RanTool, Composed, Moved, Carries
    <2> QED BY <1>1, <2>1 DEF Waits, SavedBy
  <1> QED BY <1>1, <1>2, <1>3, <1>4 DEF Advances

(* Steps(n, k): the procedure of turn n goes on and, if it saves, names k.   *)
Steps(n, k) ==
    /\ UNCHANGED <<page, cache, settled>> /\ faults' \in Nat
    /\ turn' \in [Turns -> TurnType] /\ Others(n)
    /\ turn[n].live /\ Advances(n, turn[n], turn'[n], k)

LEMMA StepsLinked ==
    ASSUME ChatTypes, Linked, NEW n \in Turns, NEW k \in Ids, Steps(n, k)
    PROVE  Linked'
  <1> DEFINE t == turn[n]
             u == turn'[n]
  <1>1. t \in TurnType /\ u \in TurnType /\ page.no \in Nat
    BY DEF ChatTypes, Steps, PageType
  <1>2. /\ u.phase # "unsent" /\ (u.phase = "over" => u = Over)
        /\ u.page = t.page \/ u.page = 0
        /\ u.open = t.open /\ (u.aborted = t.aborted \/ ~t.open)
        /\ u.phase \in {"working", "asking", "returned"} =>
                 /\ t.phase \in {"working", "asking", "returned"}
                 /\ u.page = t.page /\ u.aborted = t.aborted
    BY <1>1, AdvanceIs DEF Steps, Linked
  <1>3. t.open => Carries(t, u)
    BY <1>1, OpenAdvance DEF Steps
  <1>4. page' = page /\ t.live
    BY DEF Steps
  <1> SUFFICES ASSUME NEW m \in Turns
               PROVE  /\ turn'[m].phase = "unsent" => turn'[m] = Unsent
                      /\ turn'[m].phase = "over" => turn'[m] = Over
                      /\ turn'[m].page <= page.no
                      /\ turn'[m].open => turn'[m].page = page.no
                      /\ turn'[m].open /\ ~turn'[m].aborted => m = page.current
                      /\ turn'[m].phase \in {"working", "asking", "returned"} /\ turn'[m].live
                            /\ ~turn'[m].aborted /\ turn'[m].page = page.no => turn'[m].open
                      /\ m = page.current => turn'[m].open
    BY <1>4 DEF Linked, Abandoned
  <1>5. CASE m # n
    BY <1>5 DEF Steps, Others, Linked, Abandoned
  <1>6. CASE m = n
    <2>1. /\ t.page <= page.no /\ (t.open => t.page = page.no)
          /\ (t.open /\ ~t.aborted => n = page.current) /\ (n = page.current => t.open)
          /\ (t.phase \in {"working", "asking", "returned"} /\ ~t.aborted /\ t.page = page.no => t.open)
      BY <1>4 DEF Linked, Abandoned
    <2>2. u.page <= page.no
      BY <1>1, <1>2, <2>1
    <2>3. u.open => u.page = page.no /\ u.aborted = t.aborted
      BY <1>2, <1>3, <2>1 DEF Carries
    <2> QED BY <1>2, <1>6, <2>1, <2>2, <2>3
  <1> QED BY <1>5, <1>6

LEMMA StepsWired ==
    ASSUME ChatTypes, Linked, Wired, NEW n \in Turns, NEW k \in Ids, Steps(n, k)
    PROVE  Wired'
  <1> SUFFICES ASSUME NEW m \in Turns, turn'[m].open, ~turn'[m].aborted
               PROVE  InOrder(m, turn'[m])
    BY DEF Wired
  <1>1. CASE m # n
    BY <1>1 DEF Steps, Others, Wired
  <1>2. CASE m = n
    <2>1. turn[n] \in TurnType /\ turn'[n] \in TurnType
      BY DEF ChatTypes, Steps
    <2>2. turn[n].open
      BY <1>2, <2>1, AdvanceIs DEF Steps, Linked
    <2>3. Carries(turn[n], turn'[n])
      BY <2>1, <2>2, OpenAdvance DEF Steps
    <2>4. InOrder(n, turn[n]) /\ ~turn[n].aborted
      BY <1>2, <2>2, <2>3 DEF Wired, Carries
    <2> QED BY <1>2, <2>1, <2>2, <2>3, <2>4, InOrderServed DEF Steps, Advances
  <1> QED BY <1>1, <1>2

(* The turn the page waits for is the same, or has been served.              *)
LEMMA StepsCurrent ==
    ASSUME ChatTypes, Linked, NEW n \in Turns, NEW k \in Ids, Steps(n, k), page.current # 0
    PROVE  /\ page.current \in Turns
           /\ turn[page.current] \in TurnType /\ turn'[page.current] \in TurnType
           /\ turn[page.current].open
           /\ Carries(turn[page.current], turn'[page.current])
           /\ \/ page.current # n /\ turn'[page.current] = turn[page.current]
              \/ page.current = n
  <1>1. page.current \in Turns
    BY Bounds DEF ChatTypes, PageType
  <1>2. turn[page.current].open
    BY <1>1 DEF Linked
  <1>3. turn[page.current] \in TurnType /\ turn'[page.current] \in TurnType
    BY <1>1 DEF ChatTypes, Steps
  <1>4. CASE page.current = n
    <2>1. Carries(turn[n], turn'[n])
      BY <1>2, <1>3, <1>4, OpenAdvance DEF Steps
    <2> QED BY <1>1, <1>2, <1>3, <1>4, <2>1
  <1>5. CASE page.current # n
    BY <1>1, <1>2, <1>3, <1>5 DEF Steps, Others, Carries
  <1> QED BY <1>4, <1>5

LEMMA StepsWaits ==
    ASSUME ChatTypes, Linked, NEW n \in Turns, NEW k \in Ids, Steps(n, k), page.current # 0
    PROVE  /\ Waits(turn'[page.current]) <=> Waits(turn[page.current])
           /\ turn'[page.current].aborted = turn[page.current].aborted
  <1>1. Carries(turn[page.current], turn'[page.current])
    BY StepsCurrent
  <1>2. CASE page.current = n
    <2>1. turn[n] \in TurnType /\ turn'[n] \in TurnType /\ turn[n].open
      BY <1>2, StepsCurrent
    <2>2. (Waits(turn'[n]) => Waits(turn[n])) /\ (Waits(turn[n]) => Waits(turn'[n]))
      BY <2>1, OpenAdvance DEF Steps
    <2> QED BY <1>1, <1>2, <2>2 DEF Carries
  <1>3. CASE page.current # n
    BY <1>3, StepsCurrent
  <1> QED BY <1>2, <1>3

LEMMA StepsBubble ==
    ASSUME ChatTypes, Linked, Bubble, NEW n \in Turns, NEW k \in Ids, Steps(n, k)
    PROVE  Bubble'
  <1>1. page' = page
    BY DEF Steps
  <1>2. page.current # 0 => /\ Waits(turn'[page.current]) <=> Waits(turn[page.current])
                            /\ turn'[page.current].aborted = turn[page.current].aborted
    BY StepsWaits
  <1> QED BY <1>1, <1>2 DEF Bubble

LEMMA ServesSteps ==
    ASSUME NEW n \in Turns, Serves(n)
    PROVE  Steps(n, 0) /\ UNCHANGED <<rows, loose>>
  BY DEF Serves, Steps

LEMMA PersistedSteps ==
    ASSUME ChatTypes, NEW n \in Turns, Persisted(n)
    PROVE  /\ Target(turn[n], n) \in Turns
           /\ Steps(n, Target(turn[n], n))
  <1>1. turn[n] \in TurnType
    BY DEF ChatTypes
  <1>2. Target(turn[n], n) \in Turns
    <2>1. turn[n].row \in Ids
      BY <1>1 DEF TurnType
    <2> QED BY <2>1, Bounds DEF Target
  <1> QED BY <1>2 DEF Persisted, Steps, Advances

LEMMA StepsNamed ==
    ASSUME ChatTypes, Linked, NEW n \in Turns, NEW k \in Ids, Steps(n, k), NEW j \in Turns, Named(j)'
    PROVE  Named(j) \/ j = k
  <1>1. page' = page /\ turn[n] \in TurnType /\ turn'[n] \in TurnType
    BY DEF Steps, ChatTypes
  <1>2. ASSUME NEW m \in Turns, turn'[m].row = j
        PROVE  turn[m].row = j
    <2>1. CASE m = n
      <3>1. turn'[n].row = turn[n].row \/ turn'[n].row = 0
        BY <1>1, AdvanceIs DEF Steps, Linked
      <3> QED BY <1>2, <2>1, <3>1, Bounds
    <2>2. CASE m # n
      BY <1>2, <2>2 DEF Steps, Others
    <2> QED BY <2>1, <2>2
  <1>3. ASSUME NEW m \in Turns, Announces(turn'[m], j)
        PROVE  Announces(turn[m], j) \/ j = k
    <2>1. CASE m = n
      BY <1>1, <1>3, <2>1, AdvanceAnnounces DEF Steps
    <2>2. CASE m # n
      BY <1>3, <2>2 DEF Steps, Others
    <2> QED BY <2>1, <2>2
  <1> QED BY <1>1, <1>2, <1>3 DEF Named

LEMMA StepsWritten ==
    ASSUME ChatTypes, Linked, Written, NEW n \in Turns, NEW k \in Ids, Steps(n, k)
    PROVE  /\ page'.id = 0 => page'.asked /\ page'.query = Absent
           /\ \A j \in Turns :
                /\ turn'[j].phase \in {"unsent", "working", "asking", "returned"} /\ turn'[j].row = 0
                      => rows[j] = Absent
                /\ j = page'.current /\ turn'[j].row = 0 /\ page'.chat = 0
                      => \A m \in Turns : turn'[m].row # j
  <1>1. page' = page /\ turn[n] \in TurnType /\ turn'[n] \in TurnType
    BY DEF Steps, ChatTypes
  <1>2. /\ turn'[n].phase # "unsent" /\ (turn'[n].row = turn[n].row \/ turn'[n].row = 0)
        /\ turn'[n].phase \in {"working", "asking", "returned"} =>
               /\ turn[n].phase \in {"working", "asking", "returned"}
               /\ turn'[n].row = turn[n].row
    BY <1>1, AdvanceIs DEF Steps, Linked
  <1>3. \A m \in Turns : turn'[m].row = turn[m].row \/ turn'[m].row = 0
    BY <1>2 DEF Steps, Others
  <1> SUFFICES ASSUME NEW j \in Turns
               PROVE  /\ turn'[j].phase \in {"unsent", "working", "asking", "returned"} /\ turn'[j].row = 0
                            => rows[j] = Absent
                      /\ j = page.current /\ turn'[j].row = 0 /\ page.chat = 0
                            => \A m \in Turns : turn'[m].row # j
    BY <1>1 DEF Written
  <1>4. turn'[j].phase \in {"unsent", "working", "asking", "returned"} /\ turn'[j].row = 0 => rows[j] = Absent
    <2>1. CASE j = n
      BY <1>2, <2>1 DEF Written
    <2>2. CASE j # n
      BY <2>2 DEF Written, Steps, Others
    <2> QED BY <2>1, <2>2
  <1>5. ASSUME j = page.current, turn'[j].row = 0, page.chat = 0, NEW m \in Turns
        PROVE  turn'[m].row # j
    <2>1. turn[j].row = 0
      <3>1. Carries(turn[page.current], turn'[page.current])
        BY <1>5, StepsCurrent, Bounds
      <3> QED BY <1>5, <3>1 DEF Carries
    <2>2. turn[m].row # j
      BY <1>5, <2>1 DEF Written
    <2> QED BY <1>3, <2>2, Bounds
  <1> QED BY <1>4, <1>5

LEMMA ServesWritten ==
    ASSUME ChatTypes, Linked, Written, NEW n \in Turns, Serves(n)
    PROVE  Written'
  <1>1. Steps(n, 0) /\ rows' = rows /\ 0 \in Ids /\ 0 \notin Turns
    BY ServesSteps, Bounds
  <1>2. \A j \in Turns : Named(j)' => Named(j)
    BY <1>1, StepsNamed
  <1>3. /\ page'.id = 0 => page'.asked /\ page'.query = Absent
        /\ \A j \in Turns :
                /\ turn'[j].phase \in {"unsent", "working", "asking", "returned"} /\ turn'[j].row = 0
                      => rows[j] = Absent
                /\ j = page'.current /\ turn'[j].row = 0 /\ page'.chat = 0
                      => \A m \in Turns : turn'[m].row # j
    BY <1>1, StepsWritten
  <1>4. \A j \in Turns : rows'[j] = Absent => ~Named(j)'
    BY <1>1, <1>2 DEF Written
  <1> QED BY <1>1, <1>3, <1>4 DEF Written

LEMMA StepsStowed ==
    ASSUME ChatTypes, Stowed, NEW n \in Turns, NEW k \in Ids, Steps(n, k), Linked
    PROVE  /\ Clean(page'.query.thread)
           /\ \A j \in Turns : /\ Clean(cache'[j].thread) /\ Clean(turn'[j].prior)
                              /\ \A i \in 1..Len(turn'[j].tools) : turn'[j].tools[i] = <<j, "tool">>
  <1>1. page' = page /\ cache' = cache /\ turn[n] \in TurnType /\ turn'[n] \in TurnType
    BY DEF Steps, ChatTypes
  <1>2. turn'[n].prior = turn[n].prior \/ turn'[n].prior = <<>>
    BY <1>1, AdvanceIs DEF Steps, Linked
  <1>3. \A i \in 1..Len(turn[n].tools) : turn[n].tools[i] = <<n, "tool">>
    BY DEF Stowed
  <1>4. \A i \in 1..Len(turn'[n].tools) : turn'[n].tools[i] = <<n, "tool">>
    BY <1>1, <1>3, AdvanceTools DEF Steps
  <1> SUFFICES ASSUME NEW j \in Turns
               PROVE  /\ Clean(turn'[j].prior)
                      /\ \A i \in 1..Len(turn'[j].tools) : turn'[j].tools[i] = <<j, "tool">>
    BY <1>1 DEF Stowed
  <1>5. CASE j = n
    BY <1>2, <1>4, <1>5, Records DEF Stowed
  <1>6. CASE j # n
    BY <1>6 DEF Stowed, Steps, Others
  <1> QED BY <1>5, <1>6

LEMMA ServesStowed ==
    ASSUME ChatTypes, Linked, Stowed, NEW n \in Turns, Serves(n)
    PROVE  Stowed'
  <1>1. Steps(n, 0) /\ rows' = rows /\ 0 \in Ids
    BY ServesSteps, Bounds
  <1>2. /\ Clean(page'.query.thread)
        /\ \A j \in Turns : /\ Clean(cache'[j].thread) /\ Clean(turn'[j].prior)
                           /\ \A i \in 1..Len(turn'[j].tools) : turn'[j].tools[i] = <<j, "tool">>
    BY <1>1, StepsStowed
  <1> QED BY <1>1, <1>2 DEF Stowed

LEMMA ServesShown ==
    ASSUME ChatTypes, Linked, Shown, NEW n \in Turns, Serves(n)
    PROVE  Shown'
  <1>1. Steps(n, 0) /\ UNCHANGED <<rows, page, settled, loose>> /\ 0 \in Ids
    BY ServesSteps, Bounds DEF Serves
  <1>2. settled' => page'.chat # 0
    BY <1>1 DEF Shown
  <1>3. CASE page.current = 0
    BY <1>1, <1>2, <1>3 DEF Shown
  <1>4. CASE page.current # 0
    <2> DEFINE c == page.current
               t == turn[c]
               u == turn'[c]
    <2>1. /\ c \in Turns /\ t \in TurnType /\ u \in TurnType /\ t.open /\ Carries(t, u)
          /\ (c # n /\ u = t) \/ c = n
      BY <1>1, <1>4, StepsCurrent
    <2>2. Waits(u) <=> Waits(t)
      BY <1>1, <1>4, StepsWaits
    <2>3. /\ t.art => u.art
          /\ t.phase = "ended" =>
                /\ u.phase = "ended" /\ u.wire = t.wire /\ u.tools = t.tools /\ u.art = t.art
                /\ SavedBy(u) = SavedBy(t)
          /\ SavedBy(u) # 0 => t.phase = "ended"
      <3>1. CASE c = n
        BY <1>1, <2>1, <3>1, OpenAdvance DEF Steps
      <3>2. CASE c # n
        BY <2>1, <3>2 DEF SavedBy
      <3> QED BY <3>1, <3>2
    <2>4. page'.current = c /\ page'.chat = page.chat /\ page'.shown = page.shown
          /\ page'.thread = page.thread
      BY <1>1
    <2>5. settled' => u.phase = "ended" /\ u.wire = <<>>
      BY <1>1, <1>4, <2>3 DEF Shown
    <2>6. Waits(u) => page.chat = u.row
      BY <1>4, <2>1, <2>2 DEF Shown, Carries
    <2>7. ASSUME Waits(u), ~loose
          PROVE  Follows(page, rows, c, u)
      <3>1. Follows(page, rows, c, t)
        BY <1>4, <2>2, <2>7 DEF Shown
      <3>2. u.prior = t.prior /\ u.base = t.base /\ u.row = t.row
        BY <2>1 DEF Carries
      <3>3. SavedBy(u) # 0 => SavedBy(u) = Target(u, c) /\ rows[SavedBy(u)] = Stored(u, c)
        BY <2>3, <3>1, <3>2 DEF Follows, Target, Stored
      <3> QED BY <2>3, <3>1, <3>2, <3>3 DEF Follows
    <2> QED BY <1>1, <1>2, <2>4, <2>5, <2>6, <2>7 DEF Shown
  <1> QED BY <1>3, <1>4

LEMMA StepsSaved ==
    ASSUME ChatTypes, Linked, NEW n \in Turns, NEW k \in Ids, Steps(n, k), page.current # 0
    PROVE  LET t == turn[page.current]
               u == turn'[page.current] IN
           /\ t.art => u.art
           /\ t.phase = "ended" =>
                 /\ u.phase = "ended" /\ u.wire = t.wire /\ u.tools = t.tools /\ u.art = t.art
                 /\ SavedBy(u) = SavedBy(t)
           /\ SavedBy(u) # 0 => \/ t.phase = "ended"
                                \/ /\ t.phase = "returned" /\ page.current = n /\ SavedBy(u) = k
                                   /\ u.tools = t.tools /\ u.art = t.art
  <1> DEFINE c == page.current
             t == turn[c]
             u == turn'[c]
  <1>1. /\ c \in Turns /\ t \in TurnType /\ u \in TurnType /\ t.open
        /\ (c # n /\ u = t) \/ c = n
    BY StepsCurrent
  <1>2. CASE c = n
    BY <1>1, <1>2, OpenAdvance DEF Steps
  <1>3. CASE c # n
    BY <1>1, <1>3 DEF SavedBy
  <1> QED BY <1>2, <1>3

LEMMA ServesCovers ==
    ASSUME ChatTypes, Linked, Covers, NEW n \in Turns, Serves(n)
    PROVE  Covers'
  <1>1. Steps(n, 0) /\ UNCHANGED <<rows, page, loose>> /\ 0 \in Ids
    BY ServesSteps, Bounds DEF Serves
  <1>2. Unannounced => Unannounced'
    <2> SUFFICES ASSUME Unannounced PROVE Unannounced'
      OBVIOUS
    <2>1. page.current # 0 /\ turn[page.current].phase = "ended"
      BY DEF Unannounced
    <2>2. /\ turn'[page.current].phase = "ended"
          /\ SavedBy(turn'[page.current]) = SavedBy(turn[page.current])
      BY <1>1, <2>1, StepsSaved
    <2>3. turn'[page.current].aborted = turn[page.current].aborted
      BY <1>1, <2>1, StepsWaits
    <2> QED BY <1>1, <2>1, <2>2, <2>3 DEF Unannounced
  <1> QED BY <1>1, <1>2 DEF Covers

LEMMA ServesInv ==
    ASSUME ChatInv, NEW n \in Turns, Serves(n)
    PROVE  ChatInv'
  <1>1. Steps(n, 0) /\ 0 \in Ids
    BY ServesSteps, Bounds
  <1>2. ChatTypes'
    BY DEF ChatInv, ChatTypes, Serves
  <1>3. Linked' /\ Wired' /\ Bubble'
    BY <1>1, StepsLinked, StepsWired, StepsBubble DEF ChatInv
  <1>4. Written' /\ Stowed' /\ Shown' /\ Covers'
    BY ServesWritten, ServesStowed, ServesShown, ServesCovers DEF ChatInv
  <1>5. InStep'
    BY DEF ChatInv, InStep, Serves
  <1> QED BY <1>2, <1>3, <1>4, <1>5 DEF ChatInv

-----------------------------------------------------------------------------
(* A turn that is saved is the page's own, or one it has given up on; the    *)
(* row it is saved in is then not the page's, or the page is loose.          *)
LEMMA PersistedElsewhere ==
    ASSUME ChatTypes, Linked, NEW n \in Turns, Persisted(n), n # page.current
    PROVE  Abandoned(n) /\ (~loose' => ~loose /\ page.chat # Target(turn[n], n))
  <1>1. turn[n].phase = "returned" /\ turn[n].live
    BY DEF Persisted
  <1>2. ~(turn[n].open /\ ~turn[n].aborted)
    BY DEF Linked
  <1>3. Abandoned(n)
    BY <1>1, <1>2 DEF Linked, Abandoned
  <1> QED BY <1>3 DEF Persisted

LEMMA PersistedRows ==
    ASSUME ChatTypes, Stowed, NEW n \in Turns, Persisted(n)
    PROVE  /\ rows' \in [Turns -> Copy]
           /\ rows'[Target(turn[n], n)] = Stored(turn[n], n)
           /\ \A j \in Ids : j # Target(turn[n], n) => rows'[j] = rows[j]
           /\ \A j \in Turns : Clean(rows'[j].thread) /\ (rows'[j] = Absent => rows[j] = Absent)
           /\ rows'[Target(turn[n], n)] # Absent
  <1> DEFINE id == Target(turn[n], n)
             r == Stored(turn[n], n)
  <1>1. id \in Turns
    BY PersistedSteps
  <1>2. r \in Copy /\ Clean(r.thread) /\ r # Absent
    <2>1. turn[n] \in TurnType
      BY DEF ChatTypes
    <2>2. Clean(turn[n].prior) /\ \A i \in 1..Len(turn[n].tools) : turn[n].tools[i] = <<n, "tool">>
      BY DEF Stowed
    <2> QED BY <2>1, <2>2, StoredIs
  <1>3. rows' = [rows EXCEPT ![id] = r] /\ rows \in [Turns -> Copy]
    BY DEF Persisted, ChatTypes
  <1>4. \A j \in Turns : Clean(rows[j].thread)
    BY DEF Stowed
  <1> HIDE DEF id, r
  <1>5. rows'[id] = r /\ rows' \in [Turns -> Copy]
    BY <1>1, <1>2, <1>3
  <1>6. \A j \in Ids : j # id => rows'[j] = rows[j]
    BY <1>3
  <1>7. \A j \in Turns : Clean(rows'[j].thread) /\ (rows'[j] = Absent => rows[j] = Absent)
    BY <1>2, <1>4, <1>5, <1>3
  <1> QED BY <1>2, <1>5, <1>6, <1>7 DEF id, r

LEMMA PersistedWritten ==
    ASSUME ChatTypes, Linked, Written, Stowed, NEW n \in Turns, Persisted(n)
    PROVE  Written'
  <1> DEFINE id == Target(turn[n], n)
  <1>1. id \in Turns /\ id \in Ids /\ Steps(n, id)
    BY PersistedSteps, Bounds
  <1>2. /\ rows'[id] # Absent
        /\ \A j \in Turns : j # id => rows'[j] = rows[j]
    BY PersistedRows, Bounds
  <1>3. /\ page'.id = 0 => page'.asked /\ page'.query = Absent
        /\ \A j \in Turns :
                /\ turn'[j].phase \in {"unsent", "working", "asking", "returned"} /\ turn'[j].row = 0
                      => rows[j] = Absent
                /\ j = page'.current /\ turn'[j].row = 0 /\ page'.chat = 0
                      => \A m \in Turns : turn'[m].row # j
    BY <1>1, StepsWritten
  <1>4. ASSUME NEW j \in Turns, rows'[j] = Absent
        PROVE  ~Named(j)'
    <2>1. j # id /\ rows[j] = Absent
      BY <1>2, <1>4
    <2>2. Named(j)' => Named(j) \/ j = id
      BY <1>1, StepsNamed
    <2> QED BY <2>1, <2>2 DEF Written
  <1>5. ASSUME NEW j \in Turns, turn'[j].phase \in {"unsent", "working", "asking", "returned"},
               turn'[j].row = 0
        PROVE  rows'[j] = Absent
    <2>1. rows[j] = Absent
      BY <1>3, <1>5
    <2>2. j # n
      BY <1>5 DEF Persisted, Ended, Over, Unsent
    <2>3. j # id
      <3>1. turn[n].row # j
        BY <2>1 DEF Written, Named
      <3> QED BY <2>2, <3>1 DEF Target
    <2> QED BY <1>2, <2>1, <2>3
  <1> QED BY <1>3, <1>4, <1>5 DEF Written

LEMMA PersistedStowed ==
    ASSUME ChatTypes, Linked, Stowed, NEW n \in Turns, Persisted(n)
    PROVE  Stowed'
  <1> DEFINE id == Target(turn[n], n)
  <1>1. id \in Ids /\ Steps(n, id)
    BY PersistedSteps, Bounds
  <1>2. \A j \in Turns : Clean(rows'[j].thread)
    BY PersistedRows
  <1>3. /\ Clean(page'.query.thread)
        /\ \A j \in Turns : /\ Clean(cache'[j].thread) /\ Clean(turn'[j].prior)
                           /\ \A i \in 1..Len(turn'[j].tools) : turn'[j].tools[i] = <<j, "tool">>
    BY <1>1, StepsStowed
  <1> QED BY <1>2, <1>3 DEF Stowed

LEMMA PersistedShown ==
    ASSUME ChatTypes, Linked, Written, Stowed, Shown, NEW n \in Turns, Persisted(n)
    PROVE  Shown'
  <1> DEFINE id == Target(turn[n], n)
             c == page.current
             t == turn[c]
             u == turn'[c]
  <1>1. id \in Turns /\ id \in Ids /\ Steps(n, id) /\ id # 0
    BY PersistedSteps, Bounds
  <1>2. page' = page /\ settled' = settled /\ (~loose' => ~loose) /\ turn[n].phase = "returned"
    BY DEF Persisted
  <1>3. settled' => page'.chat # 0
    BY <1>2 DEF Shown
  <1>4. CASE c = 0
    BY <1>2, <1>3, <1>4 DEF Shown
  <1>5. CASE c # 0
    <2>1. /\ c \in Turns /\ t \in TurnType /\ u \in TurnType /\ t.open /\ Carries(t, u)
          /\ (c # n /\ u = t) \/ c = n
      BY <1>1, <1>5, StepsCurrent
    <2>2. Waits(u) <=> Waits(t)
      BY <1>1, <1>5, StepsWaits
    <2>3. /\ t.art => u.art
          /\ t.phase = "ended" =>
                 /\ u.phase = "ended" /\ u.wire = t.wire /\ u.tools = t.tools /\ u.art = t.art
                 /\ SavedBy(u) = SavedBy(t)
          /\ SavedBy(u) # 0 => \/ t.phase = "ended"
                               \/ /\ t.phase = "returned" /\ c = n /\ SavedBy(u) = id
                                  /\ u.tools = t.tools /\ u.art = t.art
      BY <1>1, <1>5, StepsSaved
    <2>4. settled' => u.phase = "ended" /\ u.wire = <<>>
      BY <1>2, <1>5, <2>3 DEF Shown
    <2>5. Waits(u) => page.chat = u.row
      BY <1>5, <2>1, <2>2 DEF Shown, Carries
    <2>6. ASSUME Waits(u), ~loose'
          PROVE  Follows(page, rows', c, u)
      <3>1. Follows(page, rows, c, t) /\ page.chat = t.row
        BY <1>2, <1>5, <2>2, <2>6 DEF Shown
      <3>2. u.prior = t.prior /\ u.base = t.base /\ u.row = t.row
        BY <2>1 DEF Carries
      <3>3. ASSUME SavedBy(u) # 0
            PROVE  SavedBy(u) = Target(u, c) /\ rows'[SavedBy(u)] = Stored(u, c)
        <4>1. u.tools = t.tools /\ u.art = t.art /\ Target(u, c) = Target(t, c) /\ Stored(u, c) = Stored(t, c)
          BY <2>3, <3>2, <3>3 DEF Target, Stored
        <4>2. CASE c = n
          <5>1. t.phase # "ended"
            BY <1>2, <4>2
          <5>2. SavedBy(u) = id
            BY <2>3, <3>3, <5>1
          <5>3. rows'[id] = Stored(t, n)
            BY <4>2, PersistedRows
          <5> QED BY <4>1, <4>2, <5>2, <5>3
        <4>3. CASE c # n
          <5>1. SavedBy(u) = SavedBy(t) /\ SavedBy(t) # 0
            BY <2>3, <3>3, <4>3
          <5>2. SavedBy(t) = Target(t, c) /\ rows[SavedBy(t)] = Stored(t, c)
            BY <3>1, <5>1 DEF Follows
          <5>3. page.chat # id
            BY <2>6, <4>3, PersistedElsewhere
          <5>4. SavedBy(t) # id
            <6>1. CASE t.row # 0
              BY <3>1, <5>2, <5>3, <6>1 DEF Target
            <6>2. CASE t.row = 0
              <7>1. turn[n].row # c
                BY <2>1, <3>1, <6>2 DEF Written
              <7> QED BY <4>3, <5>2, <6>2, <7>1 DEF Target
            <6> QED BY <6>1, <6>2
          <5>5. SavedBy(t) \in Ids
            <6>1. t.row \in Ids /\ c \in Ids
              BY <2>1, Bounds DEF TurnType
            <6> QED BY <5>2, <6>1 DEF Target
          <5>6. rows'[SavedBy(t)] = rows[SavedBy(t)]
            BY <5>4, <5>5, PersistedRows
          <5> QED BY <4>1, <5>1, <5>2, <5>6
        <4> QED BY <4>2, <4>3
      <3> QED BY <2>3, <3>1, <3>2, <3>3 DEF Follows
    <2> QED BY <1>2, <1>3, <2>4, <2>5, <2>6 DEF Shown
  <1> QED BY <1>4, <1>5

LEMMA PersistedCovers ==
    ASSUME ChatTypes, Linked, Covers, Stowed, NEW n \in Turns, Persisted(n)
    PROVE  Covers'
  <1> DEFINE id == Target(turn[n], n)
             c == page.current
  <1>1. id \in Turns /\ id \in Ids /\ Steps(n, id) /\ id # 0
    BY PersistedSteps, Bounds
  <1>2. page' = page /\ (~loose' => ~loose) /\ turn[n].phase = "returned"
    BY DEF Persisted
  <1>3. CASE c # n
    <2> SUFFICES ASSUME ~loose', page.chat # 0, ~Unannounced', Len(WithoutPending(page.thread)) <= Keep
                 PROVE  ToSet(rows'[page.chat].thread) \subseteq ToSet(WithoutPending(page.thread))
      BY <1>2 DEF Covers
    <2>1. ~loose /\ page.chat # id
      BY <1>3, PersistedElsewhere
    <2>2. ~Unannounced
      <3>1. turn'[c] = turn[c] \/ c = 0
        BY <1>1, <1>3, StepsCurrent
      <3> QED BY <1>2, <2>1, <3>1 DEF Unannounced
    <2>3. rows'[page.chat] = rows[page.chat]
      <3>1. page.chat \in Ids
        BY DEF ChatTypes, PageType
      <3> QED BY <2>1, <3>1, PersistedRows
    <2> QED BY <2>1, <2>2, <2>3 DEF Covers
  <1>4. CASE c = n
    <2> DEFINE t == turn[n]
               u == turn'[n]
    <2>1. t \in TurnType /\ t.open /\ Carries(t, u) /\ c # 0
      BY <1>1, <1>4, StepsCurrent, Bounds
    <2>2. Ended(t, u, id)
      BY <2>1 DEF Persisted
    <2>3. t.aborted \/ SavedBy(u) # 0
      <3> SUFFICES ASSUME ~t.aborted PROVE SavedBy(u) = id
        BY <1>1
      <3> DEFINE ev == [type |-> "chat-done", row |-> id]
      <3>1. ev \in Event /\ ev.row = id /\ u.wire = Sends(t, ev) /\ u.phase = "ended"
        BY <1>1, <2>2, Records DEF Ended
      <3> HIDE DEF ev
      <3>2. u.wire # <<>> /\ u.wire[Len(u.wire)] = ev
        BY <2>1, <3>1, SendsIs
      <3>3. ~u.aborted
        BY <2>1 DEF Carries
      <3> QED BY <3>1, <3>2, <3>3 DEF SavedBy, Waits
    <2>4. Unannounced'
      <3>1. u.phase = "ended" /\ u.aborted = t.aborted
        BY <2>1, <2>2 DEF Ended, Carries
      <3> QED BY <1>2, <1>4, <2>1, <2>3, <3>1 DEF Unannounced
    <2> QED BY <2>4 DEF Covers
  <1> QED BY <1>3, <1>4

LEMMA PersistedInv ==
    ASSUME ChatInv, NEW n \in Turns, Persisted(n)
    PROVE  ChatInv'
  <1> DEFINE id == Target(turn[n], n)
  <1>1. Steps(n, id) /\ id \in Ids
    BY PersistedSteps, Bounds DEF ChatInv
  <1>2. ChatTypes'
    <2>1. rows' \in [Turns -> Copy]
      BY PersistedRows DEF ChatInv
    <2> QED BY <2>1 DEF ChatInv, ChatTypes, Persisted
  <1>3. Linked' /\ Wired' /\ Bubble'
    BY <1>1, StepsLinked, StepsWired, StepsBubble DEF ChatInv
  <1>4. Written' /\ Stowed' /\ Shown' /\ Covers'
    BY PersistedWritten, PersistedStowed, PersistedShown, PersistedCovers DEF ChatInv
  <1>5. InStep'
    <2>1. page' = page /\ settled' = settled /\ turn[n].phase = "returned"
      BY DEF Persisted
    <2> SUFFICES ASSUME settled, ~loose'
                 PROVE  ToServer(page.thread) = Latest(Keep, rows'[page.chat].thread)
                        /\ page.shown = rows'[page.chat].art
      BY <2>1 DEF InStep
    <2>2. page.current # n
      BY <2>1, Bounds DEF ChatInv, Shown
    <2>3. ~loose /\ page.chat # id
      BY <2>2, PersistedElsewhere DEF ChatInv
    <2>4. rows'[page.chat] = rows[page.chat]
      <3>1. page.chat \in Ids
        BY DEF ChatInv, ChatTypes, PageType
      <3> QED BY <2>3, <3>1, PersistedRows DEF ChatInv
    <2> QED BY <2>3, <2>4 DEF ChatInv, InStep
  <1> QED BY <1>2, <1>3, <1>4, <1>5 DEF ChatInv

-----------------------------------------------------------------------------
(* The page asks for the row, and is answered when it shows a thread already.*)
SameView ==
    /\ page'.no = page.no /\ page'.id = page.id /\ page'.thread = page.thread
    /\ page'.shown = page.shown /\ page'.chat = page.chat /\ page'.current = page.current
    /\ UNCHANGED <<turn, rows, settled, loose>>

LEMMA SameViewInv ==
    ASSUME ChatInv, SameView, page' \in PageType, cache' \in [Turns -> Copy], faults' \in Nat,
           Clean(page'.query.thread), \A k \in Turns : Clean(cache'[k].thread),
           page.id = 0 => page'.asked /\ page'.query = Absent
    PROVE  ChatInv'
  <1>1. ChatTypes'
    BY DEF ChatInv, ChatTypes, SameView
  <1>2. Linked' /\ Wired' /\ Bubble' /\ InStep' /\ Stowed'
    BY DEF ChatInv, SameView, Linked, Abandoned, Wired, Bubble, InStep, Stowed
  <1>3. Written'
    BY DEF ChatInv, SameView, Written, Named
  <1>4. Shown'
    BY DEF ChatInv, SameView, Shown, Follows
  <1>5. Covers'
    BY DEF ChatInv, SameView, Covers, Unannounced
  <1> QED BY <1>1, <1>2, <1>3, <1>4, <1>5 DEF ChatInv

LEMMA QueryInv ==
    ASSUME ChatInv, Query
    PROVE  ChatInv'
  <1>1. page \in PageType /\ rows \in [Turns -> Copy] /\ cache \in [Turns -> Copy] /\ faults \in Nat
    BY DEF ChatInv, ChatTypes
  <1>2. page.id \in Turns
    <2>1. page.id \in Ids /\ page.id # 0
      BY <1>1 DEF ChatInv, Written, Query, PageType
    <2> QED BY <2>1, Bounds
  <1>3. rows[page.id] \in Copy /\ Clean(rows[page.id].thread)
    BY <1>1, <1>2 DEF ChatInv, Stowed
  <1>4. page' = [page EXCEPT !.asked = TRUE, !.query = rows[page.id]]
        /\ UNCHANGED <<turn, rows, cache, faults, settled, loose>>
    BY DEF Query
  <1>5. page' \in PageType /\ page'.query = rows[page.id] /\ page.id # 0
    BY <1>1, <1>2, <1>3, <1>4, Bounds DEF PageType
  <1>6. SameView
    BY <1>1, <1>4 DEF SameView, PageType
  <1>7. \A k \in Turns : Clean(cache'[k].thread)
    BY <1>4 DEF ChatInv, Stowed
  <1> QED BY <1>1, <1>3, <1>4, <1>5, <1>6, <1>7, SameViewInv

(* A page that shows a stored copy, and waits for no turn.                   *)
Showing(id, copy) ==
    /\ page'.no \in Nat \ {0} /\ page.no <= page'.no
    /\ page'.id \in Ids /\ page'.thread = copy.thread /\ page'.shown = copy.art
    /\ page'.chat = id /\ page'.current = 0

(* No turn that goes on is one that page follows.                            *)
Unfollowed(n) ==
    \/ turn'[n] = turn[n] /\ turn[n].phase = "unsent"
    \/ turn'[n] = Over
    \/ /\ turn'[n].phase = turn[n].phase /\ turn[n].phase \notin {"unsent", "over"}
       /\ turn'[n].page = turn[n].page /\ turn'[n].live = turn[n].live
       /\ turn'[n].row = turn[n].row /\ turn'[n].prior = turn[n].prior
       /\ turn'[n].tools = turn[n].tools
       /\ \A k \in Turns : Announces(turn'[n], k) => Announces(turn[n], k)
       /\ turn'[n].open => turn'[n].page = page'.no
       /\ turn'[n].open => turn'[n].aborted
       /\ \/ turn'[n].aborted \/ turn'[n].page # page'.no \/ turn'[n].open
          \/ ~turn'[n].live \/ turn'[n].phase \in {"ended", "failed"}

LEMMA ShowingInv ==
    ASSUME ChatInv, NEW id \in Ids, NEW copy \in Copy, Clean(copy.thread), Showing(id, copy),
           page' \in PageType, page'.id = id, UNCHANGED <<rows, faults>>,
           Clean(page'.query.thread), id = 0 => page'.asked /\ page'.query = Absent,
           cache' \in [Turns -> Copy], \A k \in Turns : Clean(cache'[k].thread),
           settled' \in BOOLEAN, loose' \in BOOLEAN,
           settled' => id # 0, ~loose' => id = 0 \/ copy = rows[id],
           id # 0 => rows[id] # Absent,
           turn' \in [Turns -> TurnType],
           \A n \in Turns : Unfollowed(n)
    PROVE  ChatInv'
  <1> USE DEF Unfollowed
  <1>0. page.no \in Nat /\ page'.current = 0 /\ 0 \notin Turns /\ page'.chat = id
    BY Bounds DEF ChatInv, ChatTypes, PageType, Showing
  <1>1. ChatTypes'
    BY DEF ChatInv, ChatTypes
  <1>2. Linked'
    <2> SUFFICES ASSUME NEW n \in Turns
                 PROVE  /\ turn'[n].phase = "unsent" => turn'[n] = Unsent
                        /\ turn'[n].phase = "over" => turn'[n] = Over
                        /\ turn'[n].page <= page'.no
                        /\ turn'[n].open => turn'[n].page = page'.no
                        /\ turn'[n].open /\ ~turn'[n].aborted => n = page'.current
                        /\ turn'[n].phase \in {"working", "asking", "returned"} /\ turn'[n].live
                              /\ ~turn'[n].aborted /\ turn'[n].page = page'.no => turn'[n].open
                        /\ n = page'.current => turn'[n].open
      BY DEF Linked, Abandoned
    <2>1. turn[n].page \in Nat /\ turn[n].page <= page.no /\ (turn[n].phase = "unsent" => turn[n] = Unsent)
      BY DEF ChatInv, ChatTypes, TurnType, Linked
    <2>2. Unsent.phase = "unsent" /\ ~Unsent.open /\ Unsent.page = 0 /\ ~Unsent.live
          /\ Over.phase = "over" /\ ~Over.open /\ Over.page = 0 /\ ~Over.live
      BY DEF Unsent, Over
    <2>3. turn[n].page <= page'.no /\ 0 <= page'.no
      BY <1>0, <2>1 DEF Showing
    <2>4. CASE turn'[n] = turn[n] /\ turn[n].phase = "unsent"
      BY <1>0, <2>1, <2>2, <2>3, <2>4
    <2>5. CASE turn'[n] = Over
      BY <1>0, <2>2, <2>3, <2>5
    <2>6. CASE turn'[n] # Over /\ turn[n].phase # "unsent"
      BY <1>0, <2>3, <2>6
    <2> QED BY <2>4, <2>5, <2>6
  <1>3. Over.row = 0 /\ Over.prior = <<>> /\ Over.tools = <<>> /\ Over.wire = <<>> /\ ~Over.open /\ ~Unsent.open
    BY DEF Unsent, Over
  <1>4. Written'
    <2>1. \A n \in Turns : turn'[n].row = turn[n].row \/ turn'[n].row = 0
      BY <1>3
    <2>2. \A n, k \in Turns : Announces(turn'[n], k) => Announces(turn[n], k)
      BY <1>3 DEF Announces
    <2>3. ASSUME NEW k \in Turns, rows[k] = Absent
          PROVE  ~Named(k)'
      <3>1. id # k
        BY <1>0, <2>3
      <3>2. \A m \in Turns : turn'[m].row # k
        BY <1>0, <2>1, <2>3 DEF ChatInv, Written, Named
      <3>3. \A m \in Turns : ~Announces(turn'[m], k)
        BY <2>2, <2>3 DEF ChatInv, Written, Named
      <3> QED BY <1>0, <3>1, <3>2, <3>3 DEF Named
    <2>4. ASSUME NEW k \in Turns, turn'[k].phase \in {"unsent", "working", "asking", "returned"},
                 turn'[k].row = 0
          PROVE  rows[k] = Absent
      <3>1. turn'[k].phase = turn[k].phase /\ turn'[k].row = turn[k].row
        BY <2>4 DEF Over, Unsent
      <3> QED BY <2>4, <3>1 DEF ChatInv, Written
    <2> QED BY <1>0, <2>3, <2>4 DEF Written
  <1>5. Stowed'
    <2>1. \A k \in Turns : Clean(turn'[k].prior)
                         /\ \A i \in 1..Len(turn'[k].tools) : turn'[k].tools[i] = <<k, "tool">>
      BY <1>3, Records DEF ChatInv, Stowed
    <2> QED BY <2>1 DEF ChatInv, Stowed
  <1>6. Wired'
    <2> SUFFICES ASSUME NEW n \in Turns PROVE ~(turn'[n].open /\ ~turn'[n].aborted)
      BY DEF Wired
    <2> QED BY <1>0, <1>2 DEF Linked
  <1>7. Bubble' /\ Shown'
    BY <1>0 DEF Bubble, Shown, Showing, Tidy, Clean
  <1>8. WithoutPending(copy.thread) = copy.thread
    BY Filtered DEF Copy, Tidy, Clean
  <1>9. Covers'
    BY <1>0, <1>8 DEF Covers, Showing
  <1>10. InStep'
    BY <1>0, <1>8 DEF InStep, Showing, ToServer
  <1> QED BY <1>1, <1>2, <1>4, <1>5, <1>6, <1>7, <1>9, <1>10 DEF ChatInv

LEMMA AbortedIs ==
    ASSUME ChatTypes, NEW n \in Turns, turn' = Aborted(n)
    PROVE  /\ turn' \in [Turns -> TurnType] /\ Others(n)
           /\ LET t == turn[n]
                  u == turn'[n] IN
              /\ u.aborted /\ u.wire = <<>>
              /\ u.phase = t.phase /\ u.page = t.page /\ u.open = t.open /\ u.live = t.live
              /\ u.prior = t.prior /\ u.base = t.base /\ u.row = t.row /\ u.tools = t.tools
              /\ u.art = t.art /\ u.got = t.got
              /\ \A k : ~Announces(u, k)
  <1> DEFINE t == turn[n]
             u == [t EXCEPT !.aborted = TRUE, !.wire = <<>>]
  <1>1. t \in TurnType /\ turn \in [Turns -> TurnType]
    BY DEF ChatTypes
  <1>2. turn' = [turn EXCEPT ![n] = u]
    BY <1>1 DEF Aborted
  <1>3. <<>> \in Seq(Event)
    OBVIOUS
  <1>4. /\ u \in TurnType /\ u.aborted /\ u.wire = <<>>
        /\ u.phase = t.phase /\ u.page = t.page /\ u.open = t.open /\ u.live = t.live
        /\ u.prior = t.prior /\ u.base = t.base /\ u.row = t.row /\ u.tools = t.tools
        /\ u.art = t.art /\ u.got = t.got
    BY <1>1, <1>3 DEF TurnType
  <1> HIDE DEF u
  <1>5. turn'[n] = u /\ turn' \in [Turns -> TurnType] /\ Others(n)
    BY <1>1, <1>2, <1>4 DEF Others
  <1>6. \A k : ~Announces(u, k)
    BY <1>4 DEF Announces
  <1> QED BY <1>4, <1>5, <1>6

LEMMA QueryAnsweredInv ==
    ASSUME ChatInv, QueryAnswered
    PROVE  ChatInv'
  <1> DEFINE id == page.id
             copy == page.query
  <1>1. /\ page \in PageType /\ rows \in [Turns -> Copy] /\ cache \in [Turns -> Copy] /\ faults \in Nat
        /\ turn \in [Turns -> TurnType] /\ settled \in BOOLEAN /\ loose \in BOOLEAN
    BY DEF ChatInv, ChatTypes
  <1>2. copy # Absent /\ cache' = [cache EXCEPT ![id] = copy] /\ UNCHANGED <<rows, faults>>
    BY DEF QueryAnswered
  <1>3. id \in Turns /\ id \in Ids /\ id # 0 /\ copy \in Copy /\ Clean(copy.thread)
    <2>1. id \in Ids /\ copy \in Copy
      BY <1>1 DEF PageType
    <2>2. id # 0
      BY <1>2 DEF ChatInv, Written
    <2> QED BY <2>1, <2>2, Bounds DEF ChatInv, Stowed
  <1>4. cache' \in [Turns -> Copy] /\ \A k \in Turns : Clean(cache'[k].thread)
    BY <1>1, <1>2, <1>3 DEF ChatInv, Stowed
  <1>5. Absent \in Copy /\ Clean(Absent.thread)
    BY Records DEF Absent
  <1>6. CASE page' = [page EXCEPT !.query = Absent] /\ UNCHANGED <<turn, settled, loose>>
    <2>1. page' \in PageType /\ page'.query = Absent
      BY <1>1, <1>5, <1>6 DEF PageType
    <2>2. SameView
      BY <1>1, <1>2, <1>6 DEF SameView, PageType
    <2>3. faults' \in Nat
      BY <1>1, <1>2
    <2> QED BY <1>3, <1>4, <1>5, <2>1, <2>2, <2>3, SameViewInv
  <1>7. CASE /\ page' = [Hydrated(page, id, copy) EXCEPT !.query = Absent]
             /\ turn' = IF page.current = 0 THEN turn ELSE Aborted(page.current)
             /\ settled' = TRUE /\ loose' = (copy # rows[id])
    <2>1. /\ page' \in PageType /\ page'.query = Absent /\ page'.id = id /\ page'.no = page.no
          /\ page'.thread = copy.thread /\ page'.shown = copy.art /\ page'.chat = id /\ page'.current = 0
      BY <1>1, <1>3, <1>5, <1>7, Bounds DEF PageType, Hydrated, Copy
    <2>2. Showing(id, copy)
      BY <1>1, <1>3, <2>1 DEF Showing, PageType
    <2>3. rows[id] # Absent
      BY <1>3 DEF ChatInv, Written, Named
    <2>4. settled' \in BOOLEAN /\ loose' \in BOOLEAN /\ (~loose' => copy = rows[id])
      BY <1>7
    <2>5. /\ turn' \in [Turns -> TurnType]
          /\ \A n \in Turns :
                \/ n # page.current /\ turn'[n] = turn[n]
                \/ /\ n = page.current /\ turn'[n].aborted /\ turn'[n].phase = turn[n].phase
                   /\ turn'[n].page = turn[n].page /\ turn'[n].open = turn[n].open
                   /\ turn'[n].live = turn[n].live /\ turn'[n].row = turn[n].row
                   /\ turn'[n].prior = turn[n].prior /\ turn'[n].tools = turn[n].tools
                   /\ \A k : ~Announces(turn'[n], k)
      <3>1. CASE page.current = 0
        BY <1>1, <1>7, <3>1, Bounds
      <3>2. CASE page.current # 0
        <4>1. page.current \in Turns
          BY <1>1, <3>2, Bounds DEF PageType
        <4> QED BY <1>7, <3>2, <4>1, AbortedIs DEF ChatInv, Others
      <3> QED BY <3>1, <3>2
    <2>6. ASSUME NEW n \in Turns
          PROVE  Unfollowed(n)
      <3>1. /\ turn[n].phase = "unsent" => turn[n] = Unsent
            /\ turn[n].phase = "over" => turn[n] = Over
            /\ turn[n].open => turn[n].page = page.no
            /\ turn[n].open /\ ~turn[n].aborted => n = page.current
            /\ n = page.current => turn[n].open
            /\ turn[n].phase \in {"working", "asking", "returned"} /\ turn[n].live
                  /\ ~turn[n].aborted /\ turn[n].page = page.no => turn[n].open
        BY DEF ChatInv, Linked, Abandoned
      <3>2. turn[n].phase \in {"unsent", "over", "working", "asking", "returned", "ended", "failed"}
        BY <1>1 DEF TurnType
      <3>3. ~Unsent.open /\ ~Over.open
        BY DEF Unsent, Over
      <3>4. CASE n # page.current /\ turn'[n] = turn[n]
        BY <2>1, <3>1, <3>2, <3>4 DEF Unfollowed
      <3>5. CASE n = page.current
        <4>1. turn[n].phase \notin {"unsent", "over"}
          BY <3>1, <3>3, <3>5
        <4> QED BY <2>1, <2>5, <3>1, <3>5, <4>1 DEF Unfollowed
      <3> QED BY <2>5, <3>4, <3>5
    <2> QED BY <1>2, <1>3, <1>4, <1>5, <2>1, <2>2, <2>3, <2>4, <2>5, <2>6, ShowingInv
  <1> QED BY <1>6, <1>7 DEF QueryAnswered

LEMMA OpenTurns ==
    ASSUME ChatInv, NEW id \in Ids, Open(id), page'.no = page.no + 1
    PROVE  /\ turn' \in [Turns -> TurnType]
           /\ \A n \in Turns : Unfollowed(n)
  <1> DEFINE Left(n) == [turn[n] EXCEPT !.open = FALSE, !.wire = <<>>]
  <1>1. turn' = [n \in Turns |-> IF turn[n].phase = "unsent" THEN turn[n] ELSE Retired(Left(n))]
    BY DEF Open
  <1>2. ASSUME NEW n \in Turns, turn[n].phase # "unsent"
        PROVE  /\ Left(n) \in TurnType /\ Left(n).phase = turn[n].phase /\ Left(n).page = turn[n].page
               /\ Left(n).live = turn[n].live /\ Left(n).row = turn[n].row /\ Left(n).prior = turn[n].prior
               /\ Left(n).tools = turn[n].tools /\ Left(n).open = FALSE /\ Left(n).wire = <<>>
               /\ \A k : ~Announces(Left(n), k)
               /\ Retired(Left(n)) = Left(n) \/ Retired(Left(n)) = Over
               /\ turn[n].phase = "over" => Retired(Left(n)) = Over
               /\ Left(n).page # page.no + 1
    <2>1. turn[n] \in TurnType /\ page.no \in Nat
      BY DEF ChatInv, ChatTypes, PageType
    <2>2. <<>> \in Seq(Event)
      OBVIOUS
    <2>3. /\ Left(n) \in TurnType /\ Left(n).phase = turn[n].phase /\ Left(n).page = turn[n].page
          /\ Left(n).live = turn[n].live /\ Left(n).row = turn[n].row /\ Left(n).prior = turn[n].prior
          /\ Left(n).tools = turn[n].tools /\ Left(n).open = FALSE /\ Left(n).wire = <<>>
      BY <2>1, <2>2 DEF TurnType
    <2>4. turn[n].page <= page.no /\ (turn[n].phase = "over" => turn[n] = Over)
      BY DEF ChatInv, Linked
    <2> HIDE DEF Left
    <2>5. \A k : ~Announces(Left(n), k)
      BY <2>3 DEF Announces
    <2>6. Retired(Left(n)) = Left(n) \/ Retired(Left(n)) = Over
      BY DEF Retired
    <2>7. turn[n].phase = "over" => Retired(Left(n)) = Over
      BY <2>3, <2>4 DEF Retired, Over, Unsent
    <2>8. Left(n).page # page.no + 1
      <3>1. turn[n].page \in Nat
        BY <2>1 DEF TurnType
      <3> QED BY <2>1, <2>3, <2>4, <3>1
    <2> QED BY <2>3, <2>5, <2>6, <2>7, <2>8
  <1> HIDE DEF Left
  <1>3. turn' \in [Turns -> TurnType]
    <2>1. \A n \in Turns : turn[n] \in TurnType
      BY DEF ChatInv, ChatTypes
    <2> QED BY <1>1, <1>2, <2>1, Records
  <1>4. ASSUME NEW n \in Turns
        PROVE  \/ turn'[n] = turn[n] /\ turn[n].phase = "unsent"
               \/ turn'[n] = Over
               \/ /\ turn'[n] = Left(n) /\ turn[n].phase \notin {"unsent", "over"}
    BY <1>1, <1>2
  <1> QED BY <1>2, <1>3, <1>4 DEF Unfollowed

LEMMA OpenInv ==
    ASSUME ChatInv, NEW id \in Ids, Open(id)
    PROVE  ChatInv'
  <1>1. /\ page \in PageType /\ rows \in [Turns -> Copy] /\ cache \in [Turns -> Copy] /\ faults \in Nat
        /\ page.no \in Nat /\ settled \in BOOLEAN /\ loose \in BOOLEAN
    BY DEF ChatInv, ChatTypes, PageType
  <1>2. (id # 0 => rows[id] # Absent) /\ UNCHANGED <<rows, faults>> /\ settled' = (id # 0)
    BY DEF Open
  <1>3. Absent \in Copy /\ Clean(Absent.thread) /\ Absent.thread = <<>> /\ Absent.art = 0
    BY Records DEF Absent
  <1>5. page.no + 1 \in Nat \ {0} /\ page.no <= page.no + 1
    BY <1>1
  <1> DEFINE blank == Blank(page.no + 1, id)
  <1>4. /\ blank \in PageType /\ blank.no = page.no + 1 /\ blank.id = id /\ blank.thread = <<>>
        /\ blank.shown = 0 /\ blank.chat = id /\ blank.current = 0 /\ blank.query = Absent
        /\ (id = 0 => blank.asked)
    BY <1>1, <1>3, <1>5, Records, Bounds DEF Blank, PageType
  <1> HIDE DEF blank
  <1>6. CASE /\ cache' = [n \in Turns |-> IF n = id THEN Absent ELSE cache[n]]
             /\ page' = blank /\ loose' = (id # 0)
    <2>1. cache' \in [Turns -> Copy] /\ \A k \in Turns : Clean(cache'[k].thread)
      BY <1>1, <1>3, <1>6 DEF ChatInv, Stowed
    <2>2. Showing(id, Absent)
      BY <1>3, <1>4, <1>5, <1>6 DEF Showing
    <2>3. /\ turn' \in [Turns -> TurnType]
           /\ \A n \in Turns : Unfollowed(n)
      BY <1>4, <1>6, OpenTurns
    <2>4. /\ page' \in PageType /\ page'.id = id /\ Clean(page'.query.thread)
          /\ (id = 0 => page'.asked /\ page'.query = Absent)
      BY <1>3, <1>4, <1>6
    <2>5. settled' \in BOOLEAN /\ loose' \in BOOLEAN /\ (settled' => id # 0) /\ (~loose' => id = 0)
      BY <1>2, <1>6
    <2> QED BY <1>2, <1>3, <2>1, <2>2, <2>3, <2>4, <2>5, ShowingInv
  <1>7. CASE /\ id # 0 /\ page' = Hydrated(blank, id, cache[id])
             /\ loose' = (cache[id] # rows[id]) /\ cache' = cache
    <2>1. id \in Turns
      BY <1>7, Bounds
    <2>2. cache[id] \in Copy /\ Clean(cache[id].thread)
      BY <1>1, <2>1 DEF ChatInv, Stowed
    <2>3. cache' \in [Turns -> Copy] /\ \A k \in Turns : Clean(cache'[k].thread)
      BY <1>1, <1>7 DEF ChatInv, Stowed
    <2>4. /\ page' \in PageType /\ page'.no = page.no + 1 /\ page'.id = id
          /\ page'.thread = cache[id].thread /\ page'.shown = cache[id].art /\ page'.chat = id
          /\ page'.current = 0 /\ page'.query = Absent
      BY <1>4, <1>7, <2>2, Bounds DEF Hydrated, PageType, Copy
    <2>5. Showing(id, cache[id])
      BY <1>5, <2>4 DEF Showing
    <2>6. /\ turn' \in [Turns -> TurnType]
           /\ \A n \in Turns : Unfollowed(n)
      BY <2>4, OpenTurns
    <2>7. settled' \in BOOLEAN /\ loose' \in BOOLEAN /\ (settled' => id # 0)
          /\ (~loose' => cache[id] = rows[id])
      BY <1>2, <1>7
    <2>8. Clean(page'.query.thread)
      BY <1>3, <2>4
    <2> QED BY <1>2, <1>7, <2>2, <2>3, <2>4, <2>5, <2>6, <2>7, <2>8, ShowingInv
  <1> QED BY <1>6, <1>7 DEF Open, blank

-----------------------------------------------------------------------------
(* The page gives up on its turn, or sends the next.                         *)
LEMMA CancelInv ==
    ASSUME ChatInv, Cancel
    PROVE  ChatInv'
  <1> DEFINE n == page.current
  <1>1. n \in Turns /\ n # 0 /\ ~turn[n].aborted /\ turn' = Aborted(n)
        /\ UNCHANGED <<page, rows, cache, faults, settled, loose>>
    BY Bounds DEF Cancel, ChatInv, ChatTypes, PageType
  <1> DEFINE t == turn[n]
             u == turn'[n]
  <1>2. /\ turn' \in [Turns -> TurnType] /\ Others(n) /\ u.aborted /\ u.wire = <<>>
        /\ u.phase = t.phase /\ u.page = t.page /\ u.open = t.open /\ u.live = t.live
        /\ u.prior = t.prior /\ u.row = t.row /\ u.tools = t.tools /\ \A k : ~Announces(u, k)
    BY <1>1, AbortedIs DEF ChatInv
  <1>3. ChatTypes'
    BY <1>1, <1>2 DEF ChatInv, ChatTypes
  <1>4. t.open /\ Unsent.open = FALSE /\ Over.open = FALSE
    BY <1>1 DEF ChatInv, Linked, Unsent, Over
  <1>5. Linked'
    <2> SUFFICES ASSUME NEW m \in Turns
                 PROVE  /\ turn'[m].phase = "unsent" => turn'[m] = Unsent
                        /\ turn'[m].phase = "over" => turn'[m] = Over
                        /\ turn'[m].page <= page.no
                        /\ turn'[m].open => turn'[m].page = page.no
                        /\ turn'[m].open /\ ~turn'[m].aborted => m = page.current
                        /\ turn'[m].phase \in {"working", "asking", "returned"} /\ turn'[m].live
                              /\ ~turn'[m].aborted /\ turn'[m].page = page.no => turn'[m].open
                        /\ m = page.current => turn'[m].open
      BY <1>1 DEF Linked, Abandoned
    <2>1. CASE m = n
      <3>1. t.phase # "unsent" /\ t.phase # "over" /\ t.page <= page.no /\ t.page = page.no
        BY <1>1, <1>4 DEF ChatInv, Linked
      <3> QED BY <1>2, <1>4, <2>1, <3>1
    <2>2. CASE m # n
      BY <1>2, <2>2 DEF Others, ChatInv, Linked, Abandoned
    <2> QED BY <2>1, <2>2
  <1>6. Written'
    <2>1. \A m \in Turns : turn'[m].row = turn[m].row /\ turn'[m].phase = turn[m].phase
      BY <1>2 DEF Others
    <2>2. \A m, k \in Turns : Announces(turn'[m], k) => Announces(turn[m], k)
      BY <1>2 DEF Others
    <2> QED BY <1>1, <2>1, <2>2 DEF ChatInv, Written, Named
  <1>7. Stowed'
    BY <1>1, <1>2 DEF ChatInv, Stowed, Others
  <1>8. Wired'
    BY <1>2 DEF ChatInv, Wired, Others
  <1>9. ~Waits(u)
    BY <1>2 DEF Waits
  <1>10. Bubble'
    BY <1>1, <1>2 DEF ChatInv, Bubble
  <1>11. Shown'
    BY <1>1, <1>2, <1>9 DEF ChatInv, Shown
  <1>12. Covers'
    <2>1. Unannounced => Unannounced'
      BY <1>1, <1>2 DEF Unannounced
    <2> QED BY <1>1, <2>1 DEF ChatInv, Covers
  <1>13. InStep'
    BY <1>1 DEF ChatInv, InStep
  <1> QED BY <1>3, <1>5, <1>6, <1>7, <1>8, <1>10, <1>11, <1>12, <1>13 DEF ChatInv

LEMMA SendInv ==
    ASSUME ChatInv, NEW n \in Turns, Send(n)
    PROVE  ChatInv'
  <1> DEFINE s == page.thread
             u == [Unsent EXCEPT !.phase = "working", !.page = page.no, !.open = TRUE, !.live = TRUE,
                                 !.prior = ToServer(page.thread), !.base = page.shown,
                                 !.row = page.chat]
             w == s \o <<<<n, "user">>, <<n, "pending">>>>
  <1>1. page \in PageType /\ turn \in [Turns -> TurnType] /\ s \in Thread /\ page.no \in Nat
        /\ page.chat \in Ids /\ page.shown \in Ids
    BY DEF ChatInv, ChatTypes, PageType
  <1>2. /\ page.current = 0 /\ turn[n].phase = "unsent"
        /\ turn' = [turn EXCEPT ![n] = u]
        /\ page' = [page EXCEPT !.thread = w, !.current = n]
        /\ settled' = FALSE /\ UNCHANGED <<rows, cache, faults, loose>>
    BY DEF Send, IsNext
  <1>3. Clean(s) /\ WithoutPending(s) = s
    <2>1. Clean(s)
      BY <1>2 DEF ChatInv, Bubble
    <2> QED BY <1>1, <2>1, Filtered DEF Tidy, Clean
  <1>4. ToServer(s) = Latest(Keep, s) /\ ToServer(s) \in Thread /\ Clean(ToServer(s))
    <2>1. ToServer(s) = Latest(Keep, s)
      BY <1>3 DEF ToServer
    <2>2. s \in Seq(Entry) /\ Keep \in Nat
      BY <1>1, Bounds DEF Thread
    <2>3. PICK m \in 0..Len(s) :
            /\ Len(s) < Keep => m = Len(s)
            /\ ~(Len(s) < Keep) => m = Keep
            /\ Latest(Keep, s) \in Seq(Entry) /\ Len(Latest(Keep, s)) = m
            /\ \A i \in 1..m : Latest(Keep, s)[i] = s[Len(s) - m + i]
      BY <2>2, LatestIs
    <2>4. \A i \in 1..m : Len(s) - m + i \in 1..Len(s)
      BY <2>2
    <2> QED BY <1>3, <2>1, <2>3, <2>4 DEF Thread, Clean
  <1>5. w \in Thread /\ Tidy(w) /\ ~Clean(w) /\ WithoutPending(w) = Append(s, <<n, "user">>)
    BY <1>1, <1>3, SentThread
  <1>6. /\ u \in TurnType /\ u.phase = "working" /\ u.page = page.no /\ u.open /\ u.live /\ ~u.aborted
        /\ u.prior = Latest(Keep, s) /\ u.base = page.shown /\ u.row = page.chat
        /\ u.tools = <<>> /\ u.got = <<>> /\ u.wire = <<>> /\ u.art = FALSE
    <2>1. <<>> \in Thread /\ <<>> \in Seq(Event)
      BY Records
    <2> QED BY <1>1, <1>4, <2>1 DEF Unsent, TurnType
  <1> HIDE DEF u, w
  <1>7. /\ page' \in PageType /\ page'.no = page.no /\ page'.id = page.id /\ page'.thread = w
        /\ page'.shown = page.shown /\ page'.chat = page.chat /\ page'.current = n
        /\ page'.query = page.query /\ page'.asked = page.asked
    BY <1>1, <1>2, <1>5, Bounds DEF PageType
  <1>8. turn'[n] = u /\ turn' \in [Turns -> TurnType] /\ Others(n) /\ n # 0
    BY <1>1, <1>2, <1>6, Bounds DEF Others
  <1>9. ChatTypes'
    BY <1>2, <1>7, <1>8 DEF ChatInv, ChatTypes
  <1>10. Linked'
    <2> SUFFICES ASSUME NEW m \in Turns
                 PROVE  /\ turn'[m].phase = "unsent" => turn'[m] = Unsent
                        /\ turn'[m].phase = "over" => turn'[m] = Over
                        /\ turn'[m].page <= page.no
                        /\ turn'[m].open => turn'[m].page = page.no
                        /\ turn'[m].open /\ ~turn'[m].aborted => m = n
                        /\ turn'[m].phase \in {"working", "asking", "returned"} /\ turn'[m].live
                              /\ ~turn'[m].aborted /\ turn'[m].page = page.no => turn'[m].open
                        /\ m = n => turn'[m].open
      BY <1>7 DEF Linked, Abandoned
    <2>1. CASE m = n
      BY <1>1, <1>6, <1>8, <2>1
    <2>2. CASE m # n
      <3>1. m # page.current
        BY <1>2, Bounds
      <3> QED BY <1>8, <2>2, <3>1 DEF Others, ChatInv, Linked, Abandoned
    <2> QED BY <2>1, <2>2
  <1>11. \A k : ~Announces(u, k)
    BY <1>6 DEF Announces
  <1>12. turn[n].row = 0 /\ rows[n] = Absent
    <2>1. turn[n] = Unsent
      BY <1>2 DEF ChatInv, Linked
    <2>2. turn[n].row = 0
      BY <2>1 DEF Unsent
    <2> QED BY <1>2, <2>2 DEF ChatInv, Written
  <1>13. Written'
    <2>1. ASSUME NEW k \in Turns, rows[k] = Absent
          PROVE  ~Named(k)'
      <3>1. ~Named(k)
        BY <2>1 DEF ChatInv, Written
      <3>2. \A m \in Turns : turn'[m].row # k /\ ~Announces(turn'[m], k)
        BY <1>6, <1>8, <1>11, <3>1 DEF Named, Others
      <3> QED BY <1>7, <3>1, <3>2 DEF Named
    <2>2. ASSUME NEW k \in Turns, turn'[k].phase \in {"unsent", "working", "asking", "returned"},
                 turn'[k].row = 0
          PROVE  rows[k] = Absent
      <3>1. CASE k = n
        BY <1>12, <3>1
      <3>2. CASE k # n
        BY <1>8, <2>2, <3>2 DEF Others, ChatInv, Written
      <3> QED BY <3>1, <3>2
    <2>3. ASSUME u.row = 0, NEW m \in Turns
          PROVE  turn'[m].row # n
      <3>1. turn[m].row # n
        BY <1>12 DEF ChatInv, Written, Named
      <3> QED BY <1>8, <2>3, <3>1 DEF Others
    <2> QED BY <1>2, <1>7, <1>8, <2>1, <2>2, <2>3 DEF ChatInv, Written
  <1>14. Stowed'
    <2>1. Clean(u.prior) /\ \A i \in 1..Len(u.tools) : u.tools[i] = <<n, "tool">>
      BY <1>4, <1>6
    <2> QED BY <1>2, <1>7, <1>8, <2>1 DEF ChatInv, Stowed, Others
  <1>15. Wired'
    <2>1. Len(u.tools) = 0 /\ Len(u.got) = 0 /\ Cardinality(ToolEnds(u.wire)) = 0 /\ Len(u.wire) = 0
      <3>1. ToolEnds(<<>>) = {}
        BY DEF ToolEnds
      <3> QED BY <1>6, <3>1, FS_EmptySet
    <2>2. InOrder(n, u)
      BY <1>6, <2>1 DEF InOrder
    <2> QED BY <1>8, <2>2 DEF ChatInv, Wired, Others
  <1>16. Waits(u) /\ SavedBy(u) = 0
    BY <1>6 DEF Waits, SavedBy
  <1>17. Bubble'
    BY <1>5, <1>7, <1>8, <1>16 DEF Bubble
  <1>18. Shown'
    <2>1. Follows(page', rows', n, u)
      BY <1>1, <1>5, <1>6, <1>7, <1>16 DEF Follows
    <2> QED BY <1>2, <1>6, <1>7, <1>8, <2>1 DEF Shown
  <1>19. Covers'
    <2>1. ToSet(WithoutPending(w)) = ToSet(s) \cup {<<n, "user">>}
          /\ Len(WithoutPending(w)) = Len(s) + 1
      BY <1>1, <1>5, Records, OneMore
    <2>2. Len(s) + 1 <= Keep => Len(s) <= Keep
      BY <1>1, Bounds DEF Thread
    <2>3. ~Unannounced
      BY <1>2 DEF Unannounced
    <2> QED BY <1>2, <1>3, <1>7, <2>1, <2>2, <2>3 DEF ChatInv, Covers
  <1>20. InStep'
    BY <1>2 DEF InStep
  <1> QED BY <1>9, <1>10, <1>13, <1>14, <1>15, <1>17, <1>18, <1>19, <1>20 DEF ChatInv

-----------------------------------------------------------------------------
(* The page reads the stream of its turn.                                    *)
LEMMA TailWire ==
    ASSUME NEW w \in Seq(Event), w # <<>>
    PROVE  /\ Len(w) \in Nat /\ Len(w) > 0 /\ Head(w) = w[1] /\ Head(w) \in Event
           /\ Tail(w) \in Seq(Event) /\ Len(Tail(w)) = Len(w) - 1
           /\ \A i \in 1..Len(Tail(w)) : i + 1 \in 1..Len(w) /\ Tail(w)[i] = w[i + 1]
           /\ Tail(w) # <<>> => Tail(w)[Len(Tail(w))] = w[Len(w)]
           /\ Tail(w) = <<>> <=> Len(w) = 1
  <1> DEFINE x == Tail(w)
  <1>1. /\ Len(w) \in Nat /\ Len(w) > 0 /\ Head(w) = w[1] /\ Head(w) \in Event
        /\ x \in Seq(Event) /\ Len(x) = Len(w) - 1
        /\ \A i \in 1..Len(x) : x[i] = w[i + 1]
    BY HeadTailProperties
  <1> HIDE DEF x
  <1>2. x = <<>> <=> Len(x) = 0
    BY <1>1
  <1>3. \A i \in 1..Len(x) : i + 1 \in 1..Len(w)
    BY <1>1
  <1>4. x # <<>> => x[Len(x)] = w[Len(w)]
    <2> SUFFICES ASSUME x # <<>> PROVE x[Len(x)] = w[Len(w)]
      OBVIOUS
    <2>1. Len(x) \in 1..Len(x) /\ Len(x) + 1 = Len(w)
      BY <1>1, <1>2
    <2> QED BY <1>1, <2>1
  <1>5. x = <<>> <=> Len(w) = 1
    BY <1>1, <1>2
  <1> QED BY <1>1, <1>3, <1>4, <1>5 DEF x

Read(t, u) ==
    /\ u.phase = t.phase /\ u.page = t.page /\ u.open = t.open /\ u.live = t.live
    /\ u.aborted = t.aborted /\ u.prior = t.prior /\ u.base = t.base /\ u.row = t.row
    /\ u.tools = t.tools /\ u.art = t.art /\ u.wire = Tail(t.wire)

Brings(n, t, u, ev) ==
    \/ ev.type = "tool-end" /\ u.got = Append(t.got, ev.entry) /\ UNCHANGED <<page, settled>>
    \/ /\ ev.type = "artifact" /\ u.got = t.got /\ page' = [page EXCEPT !.shown = n]
       /\ UNCHANGED settled
    \/ /\ ev.type = "chat-done" /\ u.got = t.got
       /\ page' = [page EXCEPT !.thread = Folded(@, t, n),
                               !.shown = IF t.art THEN n ELSE @,
                               !.chat = IF ev.row # 0 THEN ev.row ELSE @]
       /\ settled' = (ev.row # 0)

Reads(n) ==
    /\ turn[n].open /\ ~turn[n].aborted /\ turn[n].wire # <<>>
    /\ turn' \in [Turns -> TurnType] /\ Others(n) /\ UNCHANGED <<rows, cache, faults, loose>>
    /\ Read(turn[n], turn'[n])
    /\ Brings(n, turn[n], turn'[n], Head(turn[n].wire))

LEMMA ReceiveReads ==
    ASSUME ChatTypes, NEW n \in Turns, Receive(n)
    PROVE  Reads(n)
  <1> DEFINE t == turn[n]
             ev == Head(t.wire)
             x == Tail(t.wire)
             v == [t EXCEPT !.wire = x]
             g == [t EXCEPT !.wire = x, !.got = Append(@, ev.entry)]
  <1>1. t \in TurnType /\ turn \in [Turns -> TurnType] /\ t.wire # <<>> /\ t.wire \in Seq(Event)
        /\ t.open /\ ~t.aborted /\ UNCHANGED <<rows, cache, faults, loose>>
    BY DEF ChatTypes, Receive, TurnType
  <1>2. x \in Seq(Event) /\ ev \in Event
    BY <1>1, TailWire
  <1>3. ev.type = "tool-end" => ev.entry \in Entry
    BY <1>2 DEF Event
  <1>4. \/ /\ ev.type = "tool-end" /\ turn' = [turn EXCEPT ![n] = g] /\ UNCHANGED <<page, settled>>
        \/ /\ ev.type = "artifact" /\ turn' = [turn EXCEPT ![n] = v]
           /\ page' = [page EXCEPT !.shown = n] /\ UNCHANGED settled
        \/ /\ ev.type = "chat-done" /\ turn' = [turn EXCEPT ![n] = v]
           /\ page' = [page EXCEPT !.thread = Folded(@, t, n),
                                   !.shown = IF t.art THEN n ELSE @,
                                   !.chat = IF ev.row # 0 THEN ev.row ELSE @]
           /\ settled' = (ev.row # 0)
    BY <1>1 DEF Receive
  <1> HIDE DEF x, ev
  <1>5. /\ v \in TurnType /\ v.wire = x /\ v.got = t.got
        /\ v.phase = t.phase /\ v.page = t.page /\ v.open = t.open /\ v.live = t.live
        /\ v.aborted = t.aborted /\ v.prior = t.prior /\ v.base = t.base /\ v.row = t.row
        /\ v.tools = t.tools /\ v.art = t.art
    BY <1>1, <1>2 DEF TurnType
  <1>6. ev.type = "tool-end" =>
          /\ g \in TurnType /\ g.wire = x /\ g.got = Append(t.got, ev.entry)
          /\ g.phase = t.phase /\ g.page = t.page /\ g.open = t.open /\ g.live = t.live
          /\ g.aborted = t.aborted /\ g.prior = t.prior /\ g.base = t.base /\ g.row = t.row
          /\ g.tools = t.tools /\ g.art = t.art
    <2> SUFFICES ASSUME ev.type = "tool-end"
                 PROVE  /\ g \in TurnType /\ g.wire = x /\ g.got = Append(t.got, ev.entry)
                        /\ g.phase = t.phase /\ g.page = t.page /\ g.open = t.open /\ g.live = t.live
                        /\ g.aborted = t.aborted /\ g.prior = t.prior /\ g.base = t.base /\ g.row = t.row
                        /\ g.tools = t.tools /\ g.art = t.art
      OBVIOUS
    <2>1. Append(t.got, ev.entry) \in Thread
      BY <1>1, <1>3, OneMore DEF TurnType
    <2> QED BY <1>1, <1>2, <2>1 DEF TurnType
  <1> HIDE DEF v, g
  <1>7. CASE ev.type = "tool-end" /\ turn' = [turn EXCEPT ![n] = g] /\ UNCHANGED <<page, settled>>
    <2>1. turn'[n] = g /\ turn' \in [Turns -> TurnType] /\ Others(n)
      BY <1>1, <1>6, <1>7 DEF Others
    <2>2. Read(t, turn'[n])
      BY <1>6, <1>7, <2>1 DEF Read, x
    <2>3. Brings(n, t, turn'[n], Head(t.wire))
      BY <1>6, <1>7, <2>1 DEF Brings, ev
    <2> QED BY <1>1, <2>1, <2>2, <2>3 DEF Reads
  <1>8. CASE ev.type # "tool-end" /\ turn' = [turn EXCEPT ![n] = v]
    <2>1. turn'[n] = v /\ turn' \in [Turns -> TurnType] /\ Others(n)
      BY <1>1, <1>5, <1>8 DEF Others
    <2>2. Read(t, turn'[n])
      BY <1>5, <2>1 DEF Read, x
    <2>3. Brings(n, t, turn'[n], Head(t.wire))
      BY <1>4, <1>5, <1>8, <2>1 DEF Brings, ev
    <2> QED BY <1>1, <2>1, <2>2, <2>3 DEF Reads
  <1> QED BY <1>4, <1>7, <1>8

LEMMA ReadsInOrder ==
    ASSUME ChatTypes, Wired, NEW n \in Turns, Reads(n)
    PROVE  InOrder(n, turn'[n])
  <1> DEFINE t == turn[n]
             u == turn'[n]
             w == t.wire
             x == Tail(w)
             ev == Head(w)
             e == <<n, "tool">>
  <1>1. /\ t \in TurnType /\ w \in Seq(Event) /\ w # <<>> /\ InOrder(n, t)
        /\ u.wire = x /\ u.tools = t.tools /\ u.art = t.art /\ u.phase = t.phase
        /\ t.got \in Thread /\ Len(t.got) \in Nat /\ Len(t.tools) \in Nat
    BY DEF ChatTypes, TurnType, Reads, Read, Wired, Thread
  <1>2. /\ Len(w) \in Nat /\ Len(w) > 0 /\ ev = w[1] /\ ev \in Event
        /\ x \in Seq(Event) /\ Len(x) = Len(w) - 1
        /\ \A i \in 1..Len(x) : i + 1 \in 1..Len(w) /\ x[i] = w[i + 1]
        /\ x # <<>> => x[Len(x)] = w[Len(w)]
    BY <1>1, TailWire
  <1>3. /\ Cardinality(ToolEnds(w)) = IF ev.type = "tool-end" THEN Cardinality(ToolEnds(x)) + 1
                                                           ELSE Cardinality(ToolEnds(x))
        /\ Cardinality(ToolEnds(x)) \in Nat
    <2>1. Len(x) \in Nat
      BY <1>2
    <2> QED BY <1>1, <2>1, EndsReceived, EndsFinite
  <1>4. /\ Len(t.tools) = Len(t.got) + Cardinality(ToolEnds(w))
        /\ \A i \in 1..Len(t.got) : t.got[i] = e
        /\ \A i \in 1..Len(w) :
              /\ w[i].type = "tool-end" => w[i].entry = e
              /\ w[i].type = "artifact" => t.art
              /\ w[i].type = "chat-done" => i = Len(w) /\ t.phase = "ended"
        /\ t.phase = "ended" => w[Len(w)].type = "chat-done"
    BY <1>1 DEF InOrder
  <1>5. \/ ev.type = "tool-end" /\ u.got = Append(t.got, ev.entry)
        \/ ev.type # "tool-end" /\ u.got = t.got
    BY DEF Reads, Brings
  <1>e. e \in Entry
    BY Records
  <1> HIDE DEF w, x, ev, e
  <1>6. /\ Len(u.tools) = Len(u.got) + Cardinality(ToolEnds(u.wire))
        /\ \A i \in 1..Len(u.got) : u.got[i] = e
    <2>1. CASE ev.type = "tool-end" /\ u.got = Append(t.got, ev.entry)
      <3>a. 1 \in 1..Len(w) /\ w[1].type = "tool-end"
        BY <1>2, <2>1
      <3>1. ev.entry = e /\ e \in Entry
        BY <1>2, <1>4, <1>e, <3>a
      <3>2. /\ Len(u.got) = Len(t.got) + 1 /\ u.got[Len(t.got) + 1] = e
            /\ \A i \in 1..Len(t.got) : u.got[i] = t.got[i]
        BY <1>1, <2>1, <3>1, AppendProperties DEF Thread
      <3>3. Cardinality(ToolEnds(w)) = Cardinality(ToolEnds(x)) + 1
        BY <1>3, <2>1
      <3>4. Len(u.tools) = Len(u.got) + Cardinality(ToolEnds(u.wire))
        <4>1. Len(u.tools) = Len(t.tools) /\ ToolEnds(u.wire) = ToolEnds(x)
          BY <1>1
        <4>2. Len(t.tools) = Len(t.got) + (Cardinality(ToolEnds(x)) + 1)
          BY <1>4, <3>3
        <4>3. Cardinality(ToolEnds(x)) \in Nat /\ Len(t.got) \in Nat
          BY <1>1, <1>3
        <4> DEFINE p == Len(t.got)
                   q == Cardinality(ToolEnds(x))
        <4>4. p \in Nat /\ q \in Nat
          BY <4>3
        <4>5. Len(u.tools) = p + (q + 1)
          BY <4>1, <4>2
        <4>6. Len(u.got) = p + 1
          BY <3>2
        <4>7. Cardinality(ToolEnds(u.wire)) = q
          BY <4>1
        <4> HIDE DEF p, q
        <4>8. p + (q + 1) = (p + 1) + q
          BY <4>4
        <4> QED BY <4>5, <4>6, <4>7, <4>8
      <3>5. \A i \in 1..Len(u.got) : u.got[i] = e
        <4> TAKE i \in 1..Len(u.got)
        <4>1. i \in 1..Len(t.got) \/ i = Len(t.got) + 1
          BY <1>1, <3>2
        <4> QED BY <1>4, <3>2, <4>1
      <3> QED BY <3>4, <3>5
    <2>2. CASE ev.type # "tool-end" /\ u.got = t.got
      BY <1>1, <1>3, <1>4, <2>2
    <2> QED BY <1>5, <2>1, <2>2
  <1>7. ASSUME NEW i \in 1..Len(x)
        PROVE  /\ x[i].type = "tool-end" => x[i].entry = e
               /\ x[i].type = "artifact" => u.art
               /\ x[i].type = "chat-done" => i = Len(x) /\ u.phase = "ended"
    <2>1. i + 1 \in 1..Len(w) /\ x[i] = w[i + 1]
      BY <1>2
    <2>2. i + 1 = Len(w) => i = Len(x)
      BY <1>2
    <2> QED BY <1>1, <1>4, <2>1, <2>2
  <1>8. u.phase = "ended" /\ x # <<>> => x[Len(x)].type = "chat-done"
    BY <1>1, <1>2, <1>4
  <1> QED BY <1>1, <1>6, <1>7, <1>8 DEF InOrder, e

LEMMA ReadsCurrent ==
    ASSUME ChatInv, NEW n \in Turns, Reads(n)
    PROVE  /\ n = page.current /\ page.current # 0 /\ ~settled
           /\ Waits(turn[n]) /\ page.chat = turn[n].row
           /\ ~loose => Follows(page, rows, n, turn[n])
  <1>1. n = page.current
    BY DEF ChatInv, Linked, Reads
  <1>2. page.current # 0
    BY <1>1, Bounds
  <1>3. Waits(turn[n])
    BY DEF Waits, Reads
  <1>4. ~settled
    BY <1>1, <1>2 DEF ChatInv, Shown, Reads
  <1> QED BY <1>1, <1>2, <1>3, <1>4 DEF ChatInv, Shown

LEMMA ReadsLinked ==
    ASSUME ChatTypes, Linked, NEW n \in Turns, Reads(n),
           page'.no = page.no, page'.current = page.current
    PROVE  Linked'
  <1>1. turn[n].phase \notin {"unsent", "over"}
    BY DEF Reads, Linked, Unsent, Over
  <1> SUFFICES ASSUME NEW m \in Turns
               PROVE  /\ turn'[m].phase = "unsent" => turn'[m] = Unsent
                      /\ turn'[m].phase = "over" => turn'[m] = Over
                      /\ turn'[m].page <= page'.no
                      /\ turn'[m].open => turn'[m].page = page'.no
                      /\ turn'[m].open /\ ~turn'[m].aborted => m = page'.current
                      /\ turn'[m].phase \in {"working", "asking", "returned"} /\ turn'[m].live
                            /\ ~turn'[m].aborted /\ turn'[m].page = page'.no => turn'[m].open
                      /\ m = page'.current => turn'[m].open
    BY DEF Linked, Abandoned
  <1>2. CASE m = n
    BY <1>1, <1>2 DEF Reads, Read, Linked, Abandoned
  <1>3. CASE m # n
    <2>1. turn'[m] = turn[m]
      BY <1>3 DEF Reads, Others
    <2> QED BY <2>1 DEF Linked, Abandoned
  <1> QED BY <1>2, <1>3

LEMMA ReadsWritten ==
    ASSUME ChatTypes, Written, NEW n \in Turns, Reads(n),
           page'.id = page.id, page'.asked = page.asked, page'.query = page.query,
           page'.current = page.current, page'.chat = 0 => page.chat = 0,
           page'.chat = page.chat \/ rows[page'.chat] # Absent
    PROVE  Written'
  <1>1. \A m \in Turns : turn'[m].row = turn[m].row /\ turn'[m].phase = turn[m].phase
    BY DEF Reads, Read, Others
  <1>2. ASSUME NEW m \in Turns, NEW k \in Turns, Announces(turn'[m], k)
        PROVE  Announces(turn[m], k)
    <2>1. CASE m # n
      BY <1>2, <2>1 DEF Reads, Others
    <2>2. CASE m = n
      <3>1. turn[n].wire \in Seq(Event) /\ turn[n].wire # <<>> /\ turn'[n].wire = Tail(turn[n].wire)
        BY DEF Reads, Read, ChatTypes, TurnType
      <3>2. PICK i \in 1..Len(Tail(turn[n].wire)) :
              Tail(turn[n].wire)[i].type = "chat-done" /\ Tail(turn[n].wire)[i].row = k
        BY <1>2, <2>2, <3>1 DEF Announces
      <3>3. i + 1 \in 1..Len(turn[n].wire) /\ Tail(turn[n].wire)[i] = turn[n].wire[i + 1]
        BY <3>1, TailWire
      <3> QED BY <2>2, <3>2, <3>3 DEF Announces
    <2> QED BY <2>1, <2>2
  <1>3. rows' = rows
    BY DEF Reads
  <1>4. \A k \in Turns : rows[k] = Absent => ~Named(k)'
    BY <1>1, <1>2 DEF Written, Named
  <1> QED BY <1>1, <1>3, <1>4 DEF Written

LEMMA ReadsStowed ==
    ASSUME ChatTypes, Stowed, NEW n \in Turns, Reads(n), page'.query = page.query
    PROVE  Stowed'
  <1>1. \A m \in Turns : turn'[m].prior = turn[m].prior /\ turn'[m].tools = turn[m].tools
    BY DEF Reads, Read, Others
  <1>2. rows' = rows /\ cache' = cache
    BY DEF Reads
  <1> QED BY <1>1, <1>2 DEF Stowed

LEMMA ReadsWired ==
    ASSUME ChatTypes, Wired, NEW n \in Turns, Reads(n)
    PROVE  Wired'
  <1> SUFFICES ASSUME NEW m \in Turns, turn'[m].open, ~turn'[m].aborted
               PROVE  InOrder(m, turn'[m])
    BY DEF Wired
  <1>1. CASE m = n
    BY <1>1, ReadsInOrder
  <1>2. CASE m # n
    BY <1>2 DEF Reads, Others, Wired
  <1> QED BY <1>1, <1>2

(* A step of the answer.                                                     *)
LEMMA ReadsStepInv ==
    ASSUME ChatInv, NEW n \in Turns, Reads(n), Head(turn[n].wire).type # "chat-done"
    PROVE  ChatInv'
  <1> DEFINE t == turn[n]
             u == turn'[n]
             w == t.wire
             x == Tail(w)
  <1>1. /\ t \in TurnType /\ w \in Seq(Event) /\ w # <<>> /\ InOrder(n, t) /\ n \in Ids
        /\ t.open /\ ~t.aborted
    BY Bounds DEF ChatInv, ChatTypes, TurnType, Reads, Wired
  <1>2. Read(t, u) /\ turn' \in [Turns -> TurnType] /\ UNCHANGED <<rows, cache, faults, loose, settled>>
        /\ (page' = page \/ (t.art /\ page' = [page EXCEPT !.shown = n]))
    <2>1. 1 \in 1..Len(w) /\ Head(w) = w[1]
      BY <1>1, TailWire
    <2>2. Head(w).type = "artifact" => t.art
      BY <1>1, <2>1 DEF InOrder
    <2> QED BY <2>2 DEF Reads, Brings
  <1>3. /\ page' \in PageType /\ page'.no = page.no /\ page'.id = page.id /\ page'.thread = page.thread
        /\ page'.chat = page.chat /\ page'.current = page.current /\ page'.asked = page.asked
        /\ page'.query = page.query /\ (page'.shown = page.shown \/ t.art)
    BY <1>1, <1>2 DEF ChatInv, ChatTypes, PageType
  <1>4. t.phase = "ended" => x # <<>> /\ x[Len(x)] = w[Len(w)]
    <2>1. Len(w) = 1 => Head(w) = w[Len(w)]
      BY <1>1, TailWire
    <2>2. t.phase = "ended" => w[Len(w)].type = "chat-done"
      BY <1>1 DEF InOrder
    <2> QED BY <1>1, <2>1, <2>2, TailWire
  <1>5. Waits(u) /\ Waits(t) /\ SavedBy(u) = SavedBy(t)
    BY <1>1, <1>2, <1>4 DEF Waits, SavedBy, Read
  <1>6. /\ n = page.current /\ page.current # 0 /\ ~settled /\ page.chat = t.row
        /\ ~loose => Follows(page, rows, n, t)
    BY ReadsCurrent
  <1>7. ChatTypes'
    BY <1>2, <1>3 DEF ChatInv, ChatTypes
  <1>8. Linked' /\ Written' /\ Stowed' /\ Wired'
    BY <1>3, ReadsLinked, ReadsWritten, ReadsStowed, ReadsWired DEF ChatInv
  <1>9. Bubble'
    BY <1>3, <1>5, <1>6 DEF ChatInv, Bubble
  <1>10. Stored(u, n) = Stored(t, n) /\ Target(u, n) = Target(t, n) /\ u.prior = t.prior
         /\ u.art = t.art /\ u.base = t.base /\ u.row = t.row /\ u.phase = t.phase
         /\ u.aborted = t.aborted
    BY <1>2 DEF Read, Stored, Target
  <1>11. ~loose => Follows(page', rows, n, u)
    BY <1>3, <1>5, <1>6, <1>10 DEF Follows
  <1>12. Shown'
    BY <1>2, <1>3, <1>6, <1>10, <1>11 DEF Shown
  <1>13. Covers'
    BY <1>2, <1>3, <1>5, <1>6, <1>10 DEF ChatInv, Covers, Unannounced
  <1>14. InStep'
    BY <1>2, <1>6 DEF InStep
  <1> QED BY <1>7, <1>8, <1>9, <1>12, <1>13, <1>14 DEF ChatInv

(* The last event of the stream: what it says was saved is what is shown.    *)
LEMMA DoneIsLast ==
    ASSUME ChatInv, NEW n \in Turns, Reads(n), Head(turn[n].wire).type = "chat-done"
    PROVE  /\ turn[n].phase = "ended" /\ Tail(turn[n].wire) = <<>>
           /\ turn[n].got = turn[n].tools
           /\ SavedBy(turn[n]) = Head(turn[n].wire).row
           /\ Announces(turn[n], Head(turn[n].wire).row)
           /\ Head(turn[n].wire).row \in Ids
  <1> DEFINE t == turn[n]
             w == t.wire
             ev == Head(w)
  <1>1. /\ t \in TurnType /\ w \in Seq(Event) /\ w # <<>> /\ InOrder(n, t)
        /\ t.got \in Seq(Entry) /\ t.tools \in Seq(Entry) /\ Len(t.got) \in Nat /\ Len(t.tools) \in Nat
        /\ ~t.aborted
    BY DEF ChatInv, ChatTypes, TurnType, Reads, Wired, Thread
  <1>2. 1 \in 1..Len(w) /\ ev = w[1] /\ ev \in Event /\ (Len(w) = 1 => Tail(w) = <<>>)
    BY <1>1, TailWire
  <1>3. Len(w) = 1 /\ t.phase = "ended" /\ Tail(w) = <<>>
    BY <1>1, <1>2 DEF InOrder
  <1>4. Cardinality(ToolEnds(w)) = 0
    <2>1. ToolEnds(w) = {}
      BY <1>2, <1>3 DEF ToolEnds
    <2> QED BY <2>1, FS_EmptySet
  <1>5. Len(t.tools) = Len(t.got)
    <2>1. Len(t.tools) = Len(t.got) + Cardinality(ToolEnds(w))
      BY <1>1 DEF InOrder
    <2> QED BY <1>1, <1>4, <2>1
  <1>6. t.got = t.tools
    <2>1. \A i \in 1..Len(t.got) : t.got[i] = t.tools[i]
      BY <1>1, <1>5 DEF InOrder, ChatInv, Stowed
    <2> QED BY <1>1, <1>5, <2>1, SeqEqual
  <1>7. SavedBy(t) = ev.row
    BY <1>1, <1>2, <1>3 DEF SavedBy, Waits
  <1>8. Announces(t, ev.row)
    BY <1>2 DEF Announces
  <1>9. ev.row \in Ids
    BY <1>2 DEF Event
  <1> QED BY <1>3, <1>6, <1>7, <1>8, <1>9

LEMMA ReadsDone ==
    ASSUME ChatInv, NEW n \in Turns, Reads(n), Head(turn[n].wire).type = "chat-done"
    PROVE  LET t == turn[n]
               k == Head(t.wire).row
               r == Reply(n, t.tools, t.art) IN
           /\ page' \in PageType /\ page'.no = page.no /\ page'.id = page.id
           /\ page'.current = page.current /\ page'.asked = page.asked
           /\ page'.query = page.query
           /\ page'.shown = IF t.art THEN n ELSE page.shown
           /\ page'.chat = IF k # 0 THEN k ELSE page.chat
           /\ settled' = (k # 0)
           /\ page'.thread = WithoutPending(page.thread) \o r
           /\ r \in Thread /\ Clean(r)
           /\ WithoutPending(page.thread) \in Thread /\ Clean(WithoutPending(page.thread))
           /\ Clean(page'.thread) /\ WithoutPending(page'.thread) = page'.thread
  <1> DEFINE t == turn[n]
             k == Head(t.wire).row
             r == Reply(n, t.tools, t.art)
             U == WithoutPending(page.thread)
             c == IF k # 0 THEN k ELSE page.chat
             d == IF t.art THEN n ELSE page.shown
  <1>1. t \in TurnType /\ t.tools \in Thread /\ t.art \in BOOLEAN /\ t.got = t.tools
    BY DoneIsLast DEF ChatInv, ChatTypes, TurnType
  <1>2. page \in PageType /\ page.thread \in Thread /\ page.chat \in Ids /\ page.shown \in Ids
        /\ Tidy(page.thread) /\ n \in Ids /\ k \in Ids
    BY DoneIsLast, Bounds DEF ChatInv, ChatTypes, PageType, Bubble
  <1>3. r \in Thread /\ Clean(r)
    BY <1>1, ReplyIs DEF ChatInv, Stowed
  <1>4. U \in Thread /\ Clean(U)
    BY <1>2, Filtered
  <1>5. page' = [page EXCEPT !.thread = U \o r, !.shown = d, !.chat = c] /\ settled' = (k # 0)
    BY <1>1 DEF Reads, Brings, Folded
  <1>6. (U \o r) \in Thread /\ Clean(U \o r)
    BY <1>3, <1>4, Continued
  <1>7. c \in Ids /\ d \in Ids
    BY <1>2
  <1> HIDE DEF U, r, c, d
  <1>8. /\ page' \in PageType /\ page'.no = page.no /\ page'.id = page.id
        /\ page'.current = page.current /\ page'.asked = page.asked
        /\ page'.query = page.query /\ page'.shown = d /\ page'.chat = c /\ page'.thread = U \o r
    BY <1>2, <1>5, <1>6, <1>7 DEF PageType
  <1>9. WithoutPending(page'.thread) = page'.thread
    <2>1. Tidy(page'.thread)
      BY <1>6, <1>8 DEF Tidy, Clean
    <2> QED BY <1>6, <1>8, <2>1, Filtered
  <1> QED BY <1>3, <1>4, <1>5, <1>6, <1>8, <1>9 DEF U, r, c, d

LEMMA ReadsDoneInv ==
    ASSUME ChatInv, NEW n \in Turns, Reads(n), Head(turn[n].wire).type = "chat-done"
    PROVE  ChatInv'
  <1> DEFINE t == turn[n]
             u == turn'[n]
             k == Head(t.wire).row
             r == Reply(n, t.tools, t.art)
             U == WithoutPending(page.thread)
             e == <<n, "user">>
  <1>1. /\ page' \in PageType /\ page'.no = page.no /\ page'.id = page.id
        /\ page'.current = page.current /\ page'.asked = page.asked /\ page'.query = page.query
        /\ page'.shown = IF t.art THEN n ELSE page.shown
        /\ page'.chat = IF k # 0 THEN k ELSE page.chat
        /\ settled' = (k # 0)
        /\ page'.thread = U \o r /\ r \in Thread /\ U \in Thread
        /\ Clean(page'.thread) /\ WithoutPending(page'.thread) = page'.thread
    BY ReadsDone
  <1>2. /\ t.phase = "ended" /\ SavedBy(t) = k /\ Announces(t, k) /\ k \in Ids
        /\ u.phase = "ended" /\ u.wire = <<>> /\ ~u.aborted /\ ~t.aborted /\ u.open
    BY DoneIsLast DEF Reads, Read
  <1>3. /\ n = page.current /\ page.current # 0 /\ page.chat = t.row
        /\ ~loose => Follows(page, rows, n, t)
    BY ReadsCurrent
  <1>4. turn' \in [Turns -> TurnType] /\ UNCHANGED <<rows, cache, faults, loose>>
    BY DEF Reads
  <1>5. t \in TurnType /\ t.prior \in Thread /\ Clean(t.prior) /\ e \in Entry
        /\ (\A i \in 1..Len(t.tools) : t.tools[i] = e \/ t.tools[i] = <<n, "tool">>)
    BY Records DEF ChatInv, ChatTypes, TurnType, Stowed
  <1>6. /\ Stored(t, n).thread = Append(t.prior, e) \o r
        /\ Stored(t, n).art = IF t.art THEN n ELSE t.base
    BY <1>5, StoredIs DEF ChatInv, Stowed
  <1>7. ChatTypes'
    BY <1>1, <1>4 DEF ChatInv, ChatTypes
  <1>8. Linked' /\ Stowed' /\ Wired'
    BY <1>1, ReadsLinked, ReadsStowed, ReadsWired DEF ChatInv
  <1>9. Written'
    <2>1. k # 0 => k \in Turns /\ rows[k] # Absent
      BY <1>2, Bounds DEF ChatInv, Written, Named
    <2> QED BY <1>1, <2>1, ReadsWritten DEF ChatInv
  <1>10. Bubble'
    BY <1>1 DEF Bubble, Tidy, Clean
  <1>11. Shown'
    BY <1>1, <1>2, <1>3 DEF Shown, Waits
  <1> HIDE DEF r, U, e, k, t
  <1>12. ASSUME ~loose
         PROVE  \E s \in Thread :
                  /\ U \o r = Append(s, e) \o r /\ Latest(Keep, s) = t.prior
                  /\ Len(s) <= Len(U \o r) /\ (Len(s) <= Keep => s = t.prior)
                  /\ Latest(Keep, Append(s, e) \o r) = Latest(Keep, Append(t.prior, e) \o r)
    <2>1. PICK s \in Thread : U = Append(s, e) /\ Latest(Keep, s) = t.prior
      BY <1>3, <1>12 DEF Follows, U, e
    <2>2. /\ Len(s) <= Keep => s = t.prior
          /\ Latest(Keep, Append(s, e) \o r) = Latest(Keep, Append(t.prior, e) \o r)
      BY <1>1, <1>5, <2>1, AnsweredAsSent
    <2>3. Len(U) = Len(s) + 1 /\ Len(U \o r) = Len(U) + Len(r) /\ Len(s) \in Nat /\ Len(r) \in Nat
      BY <1>1, <1>5, <2>1, OneMore, Continued DEF Thread
    <2> QED BY <2>1, <2>2, <2>3
  <1>13. ASSUME ~loose, k # 0
         PROVE  rows[k] = Stored(t, n)
    BY <1>2, <1>3, <1>13 DEF Follows
  <1>14. InStep'
    <2> SUFFICES ASSUME settled', ~loose'
                 PROVE  /\ ToServer(page'.thread) = Latest(Keep, rows[page'.chat].thread)
                        /\ page'.shown = rows[page'.chat].art
      BY <1>4 DEF InStep
    <2>1. ~loose /\ k # 0 /\ page'.chat = k /\ rows[k] = Stored(t, n)
      BY <1>1, <1>4, <1>13
    <2>2. ~t.art => page.shown = t.base
      BY <1>3, <2>1 DEF Follows
    <2>3. ToServer(page'.thread) = Latest(Keep, U \o r)
      BY <1>1 DEF ToServer
    <2>4. Latest(Keep, U \o r) = Latest(Keep, Append(t.prior, e) \o r)
      BY <1>12, <2>1
    <2> QED BY <1>1, <1>6, <2>1, <2>2, <2>3, <2>4
  <1>15. Covers'
    <2> SUFFICES ASSUME ~loose, page'.chat # 0, Len(U \o r) <= Keep
                 PROVE  ToSet(rows[page'.chat].thread) \subseteq ToSet(U \o r)
      BY <1>1, <1>4 DEF Covers
    <2>1. CASE k # 0
      <3>1. PICK s \in Thread : /\ U \o r = Append(s, e) \o r
                                /\ Len(s) <= Len(U \o r) /\ (Len(s) <= Keep => s = t.prior)
        BY <1>12
      <3>2. Len(s) \in Nat /\ Len(U \o r) \in Nat /\ Keep \in Nat
        BY <1>1, Bounds, Continued DEF Thread
      <3>3. s = t.prior
        BY <3>1, <3>2
      <3>4. rows[k].thread = U \o r
        BY <1>6, <1>13, <2>1, <3>1, <3>3
      <3> QED BY <1>1, <2>1, <3>4
    <2>2. CASE k = 0
      <3>1. page'.chat = page.chat
        BY <1>1, <2>2
      <3>2. ~Unannounced
        BY <1>2, <1>3, <2>2 DEF Unannounced, t
      <3>3. Len(U) <= Len(U \o r) /\ ToSet(U) \subseteq ToSet(U \o r)
            /\ Len(U) \in Nat /\ Len(U \o r) \in Nat
        <4>1. Len(U \o r) = Len(U) + Len(r) /\ ToSet(U \o r) = ToSet(U) \cup ToSet(r)
          BY <1>1, Continued
        <4>2. Len(U) \in Nat /\ Len(r) \in Nat
          BY <1>1 DEF Thread
        <4> QED BY <4>1, <4>2
      <3>4. Len(U) <= Keep
        BY <3>3, Bounds
      <3>5. ToSet(rows[page.chat].thread) \subseteq ToSet(U)
        BY <3>1, <3>2, <3>4 DEF ChatInv, Covers, U
      <3> QED BY <3>1, <3>3, <3>5
    <2> QED BY <2>1, <2>2
  <1> QED BY <1>7, <1>8, <1>9, <1>10, <1>11, <1>14, <1>15 DEF ChatInv

LEMMA ReceiveInv ==
    ASSUME ChatInv, NEW n \in Turns, Receive(n)
    PROVE  ChatInv'
  <1>1. Reads(n)
    BY ReceiveReads DEF ChatInv
  <1> QED BY <1>1, ReadsStepInv, ReadsDoneInv

-----------------------------------------------------------------------------
(* The loop of a turn is over, read to its end or in its catch block.        *)
Leaves(n) ==
    /\ turn[n].open
    /\ turn' \in [Turns -> TurnType] /\ Others(n) /\ UNCHANGED <<rows, cache, faults>>
    /\ \/ turn'[n] = Over
       \/ /\ ~turn'[n].open /\ turn'[n].aborted /\ turn'[n].wire = <<>>
          /\ turn'[n].phase = turn[n].phase /\ turn'[n].page = turn[n].page
          /\ turn'[n].row = turn[n].row /\ turn'[n].prior = turn[n].prior
          /\ turn'[n].tools = turn[n].tools
    /\ page' \in PageType
    /\ page'.no = page.no /\ page'.id = page.id /\ page'.chat = page.chat
    /\ page'.asked = page.asked /\ page'.query = page.query
    /\ page'.current = IF page.current = n THEN 0 ELSE page.current

LEMMA LeavesKeeps ==
    ASSUME ChatTypes, Linked, Written, Stowed, Wired, NEW n \in Turns, Leaves(n)
    PROVE  Linked' /\ Written' /\ Stowed' /\ Wired'
  <1>1. /\ Over.phase = "over" /\ Over.page = 0 /\ ~Over.open /\ Over.row = 0 /\ Over.wire = <<>>
        /\ Over.prior = <<>> /\ Over.tools = <<>>
    BY DEF Over, Unsent
  <1>2. turn[n].phase \notin {"unsent", "over"}
    BY DEF Leaves, Linked, Unsent, Over
  <1>3. page.no \in Nat /\ 0 \notin Turns /\ page'.current # n
        /\ (page'.current \in Turns => page'.current = page.current)
    BY Bounds DEF Leaves, ChatTypes, PageType
  <1>4. \A m \in Turns : m # n => turn'[m] = turn[m]
    BY DEF Leaves, Others
  <1>5. ~turn'[n].open /\ turn'[n].wire = <<>>
    BY <1>1 DEF Leaves
  <1>6. \A m \in Turns : turn'[m].row = turn[m].row \/ turn'[m].row = 0
    BY <1>1, <1>4 DEF Leaves
  <1>7. Linked'
    <2> SUFFICES ASSUME NEW m \in Turns
                 PROVE  /\ turn'[m].phase = "unsent" => turn'[m] = Unsent
                        /\ turn'[m].phase = "over" => turn'[m] = Over
                        /\ turn'[m].page <= page'.no
                        /\ turn'[m].open => turn'[m].page = page'.no
                        /\ turn'[m].open /\ ~turn'[m].aborted => m = page'.current
                        /\ turn'[m].phase \in {"working", "asking", "returned"} /\ turn'[m].live
                              /\ ~turn'[m].aborted /\ turn'[m].page = page'.no => turn'[m].open
                        /\ m = page'.current => turn'[m].open
      BY DEF Linked, Abandoned
    <2>1. CASE m = n
      BY <1>1, <1>2, <1>3, <1>5, <2>1 DEF Leaves, Linked
    <2>2. CASE m # n
      <3>1. turn'[m] = turn[m] /\ page'.no = page.no
        BY <1>4, <2>2 DEF Leaves
      <3>2. m = page.current => m = page'.current
        BY <2>2 DEF Leaves
      <3> QED BY <1>3, <3>1, <3>2 DEF Linked, Abandoned
    <2> QED BY <2>1, <2>2
  <1>8. Written'
    <2>1. \A m, k \in Turns : Announces(turn'[m], k) => Announces(turn[m], k)
      BY <1>4, <1>5 DEF Announces
    <2>2. ASSUME NEW k \in Turns, rows[k] = Absent
          PROVE  ~Named(k)'
      <3>1. \A m \in Turns : turn[m].row # k /\ ~Announces(turn[m], k)
        BY <2>2 DEF Written, Named
      <3>2. \A m \in Turns : turn'[m].row # k /\ ~Announces(turn'[m], k)
        BY <1>3, <1>6, <2>1, <3>1
      <3> QED BY <2>2, <3>2 DEF Leaves, Written, Named
    <2>3. ASSUME NEW k \in Turns, turn'[k].phase \in {"unsent", "working", "asking", "returned"},
                 turn'[k].row = 0
          PROVE  rows[k] = Absent
      <3>1. turn'[k].phase = turn[k].phase /\ turn'[k].row = turn[k].row
        BY <1>1, <1>4, <2>3 DEF Leaves
      <3> QED BY <2>3, <3>1 DEF Written
    <2>4. ASSUME NEW k \in Turns, k = page'.current, turn'[k].row = 0, page'.chat = 0
          PROVE  \A m \in Turns : turn'[m].row # k
      <3>1. k = page.current /\ turn'[k] = turn[k] /\ page.chat = 0
        BY <1>3, <1>4, <2>4 DEF Leaves
      <3>2. \A m \in Turns : turn[m].row # k
        BY <2>4, <3>1 DEF Written
      <3> QED BY <1>3, <1>6, <3>2
    <2> QED BY <2>2, <2>3, <2>4 DEF Written, Leaves
  <1>9. Stowed'
    <2>1. \A m \in Turns : Clean(turn'[m].prior)
                         /\ \A i \in 1..Len(turn'[m].tools) : turn'[m].tools[i] = <<m, "tool">>
      <3> TAKE m \in Turns
      <3>1. CASE turn'[m].prior = turn[m].prior /\ turn'[m].tools = turn[m].tools
        BY <3>1 DEF Stowed
      <3>2. CASE turn'[m] = Over
        BY <1>1, <3>2, Records
      <3> QED BY <1>4, <3>1, <3>2 DEF Leaves
    <2> QED BY <2>1 DEF Stowed, Leaves
  <1>10. Wired'
    BY <1>4, <1>5 DEF Wired
  <1> QED BY <1>7, <1>8, <1>9, <1>10

LEMMA CloseInv ==
    ASSUME ChatInv, NEW n \in Turns, Close(n)
    PROVE  ChatInv'
  <1> DEFINE t == turn[n]
  <1>1. /\ t.open /\ ~t.aborted /\ t.phase = "ended" /\ t.wire = <<>> /\ t \in TurnType
        /\ page \in PageType /\ turn \in [Turns -> TurnType] /\ 0 \in Ids
    BY Bounds DEF ChatInv, ChatTypes, Close
  <1>2. n = page.current /\ page.current # 0
    BY <1>1, Bounds DEF ChatInv, Linked
  <1>3. page' = [page EXCEPT !.current = 0]
    BY <1>2 DEF Close, Released
  <1>4. /\ page' \in PageType /\ page'.no = page.no /\ page'.id = page.id /\ page'.chat = page.chat
        /\ page'.asked = page.asked /\ page'.query = page.query /\ page'.current = 0
        /\ page'.thread = page.thread /\ page'.shown = page.shown
    BY <1>1, <1>3 DEF PageType
  <1>5. turn' = [turn EXCEPT ![n] = Over]
    <2>1. Retired([t EXCEPT !.open = FALSE]) = Over
      BY <1>1 DEF Retired, TurnType
    <2> QED BY <2>1 DEF Close
  <1>6. UNCHANGED <<rows, cache, faults, settled, loose>>
    BY DEF Close
  <1>7. Leaves(n)
    <2>1. turn' \in [Turns -> TurnType] /\ turn'[n] = Over /\ Others(n)
      BY <1>1, <1>5, Records DEF Others
    <2> QED BY <1>1, <1>2, <1>4, <1>6, <2>1 DEF Leaves
  <1>8. ChatTypes'
    BY <1>4, <1>6, <1>7 DEF ChatInv, ChatTypes, Leaves
  <1>9. Linked' /\ Written' /\ Stowed' /\ Wired'
    BY <1>7, LeavesKeeps DEF ChatInv
  <1>10. ~Waits(t) /\ SavedBy(t) = 0
    BY <1>1 DEF Waits, SavedBy
  <1>11. Bubble' /\ Shown'
    BY <1>1, <1>2, <1>4, <1>6, <1>10 DEF ChatInv, Bubble, Shown
  <1>12. Covers'
    BY <1>1, <1>2, <1>4, <1>6, <1>10 DEF ChatInv, Covers, Unannounced
  <1>13. InStep'
    BY <1>4, <1>6 DEF ChatInv, InStep
  <1> QED BY <1>8, <1>9, <1>11, <1>12, <1>13 DEF ChatInv

LEMMA CatchInv ==
    ASSUME ChatInv, NEW n \in Turns, Catch(n)
    PROVE  ChatInv'
  <1> DEFINE t == turn[n]
             v == [t EXCEPT !.open = FALSE, !.wire = <<>>]
             h == IF t.aborted THEN Closed(page.thread) ELSE WithoutPending(page.thread)
             c == IF page.current = n THEN 0 ELSE page.current
             U == WithoutPending(page.thread)
  <1>1. /\ t \in TurnType /\ page \in PageType /\ turn \in [Turns -> TurnType]
        /\ t.base \in Ids /\ page.thread \in Thread /\ Tidy(page.thread) /\ c \in Ids
        /\ U \in Thread
    BY Bounds, Filtered DEF ChatInv, ChatTypes, TurnType, PageType, Bubble
  <1>o. t.open
    BY DEF Catch
  <1>2. h \in Thread /\ Clean(h) /\ WithoutPending(h) = h
        /\ Len(U) <= Len(h) /\ ToSet(U) \subseteq ToSet(h)
    <2>1. CASE t.aborted
      <3>1. h \in Thread /\ Clean(h) /\ Len(U) <= Len(h) /\ ToSet(U) \subseteq ToSet(h)
        BY <1>1, <2>1, ClosedThread
      <3> HIDE DEF h
      <3>2. Tidy(h)
        BY <3>1 DEF Tidy, Clean
      <3> QED BY <3>1, <3>2, Filtered
    <2>2. CASE ~t.aborted
      <3>1. h = U
        BY <2>2
      <3>2. U \in Thread /\ Clean(U) /\ WithoutPending(U) = U
        BY <1>1, Filtered, FilteredTwice
      <3>3. Len(U) \in Nat
        BY <1>1 DEF Thread
      <3> HIDE DEF h, U
      <3> QED BY <3>1, <3>2, <3>3
    <2> QED BY <2>1, <2>2
  <1>3. /\ page' \in PageType /\ page'.no = page.no /\ page'.id = page.id /\ page'.chat = page.chat
        /\ page'.asked = page.asked /\ page'.query = page.query /\ page'.current = c
        /\ page'.thread = h /\ page'.shown = t.base
    <2> DEFINE p == [page EXCEPT !.shown = t.base, !.thread = h]
    <2>1. page' = Released(p, n)
      BY DEF Catch
    <2> HIDE DEF h
    <2>2. /\ p \in PageType /\ p.no = page.no /\ p.id = page.id /\ p.chat = page.chat
          /\ p.asked = page.asked /\ p.query = page.query /\ p.current = page.current
          /\ p.thread = h /\ p.shown = t.base
      BY <1>1, <1>2 DEF PageType
    <2> HIDE DEF p
    <2>3. CASE page.current = n
      <3>1. page' = [p EXCEPT !.current = 0] /\ c = 0 /\ 0 \in Ids
        BY <2>1, <2>2, <2>3, Bounds DEF Released
      <3> HIDE DEF c
      <3> QED BY <2>2, <3>1 DEF PageType
    <2>4. CASE page.current # n
      BY <2>1, <2>2, <2>4 DEF Released
    <2> QED BY <2>3, <2>4
  <1>4. turn' = [turn EXCEPT ![n] = Retired(v)]
        /\ settled' = FALSE /\ loose' = (loose \/ page.current # n \/ t.phase = "ended")
        /\ UNCHANGED <<rows, cache, faults>>
    BY DEF Catch
  <1>5. /\ v \in TurnType /\ ~v.open /\ v.wire = <<>> /\ v.phase = t.phase /\ v.page = t.page
        /\ v.row = t.row /\ v.prior = t.prior /\ v.tools = t.tools /\ v.live = t.live
        /\ v.aborted = t.aborted
    <2>1. <<>> \in Seq(Event)
      OBVIOUS
    <2> QED BY <1>1, <2>1 DEF TurnType
  <1>6. Retired(v) = Over \/ (Retired(v) = v /\ v.aborted)
    <2>1. t.aborted \/ ~t.live \/ t.phase = "failed"
      BY DEF Catch
    <2> HIDE DEF v, t
    <2> QED BY <1>5, <2>1 DEF Retired
  <1> HIDE DEF v, h
  <1>7. turn' \in [Turns -> TurnType] /\ Others(n) /\ turn'[n] = Retired(v)
    BY <1>1, <1>4, <1>5, <1>6, Records DEF Others
  <1>8. Leaves(n)
    <2>1. turn'[n] = Over \/ (turn'[n] = v /\ v.aborted)
      BY <1>6, <1>7
    <2> QED BY <1>o, <1>3, <1>4, <1>5, <1>7, <2>1 DEF Leaves
  <1>9. ChatTypes'
    BY <1>3, <1>4, <1>7 DEF ChatInv, ChatTypes
  <1>10. Linked' /\ Written' /\ Stowed' /\ Wired'
    BY <1>8, LeavesKeeps DEF ChatInv
  <1>11. Bubble'
    BY <1>2, <1>3 DEF Bubble, Tidy, Clean
  <1>12. Shown'
    <2>1. page'.current # 0 => /\ page'.current = page.current /\ page.current # n /\ loose'
                               /\ page.current \in Turns
      BY <1>1, <1>3, <1>4, Bounds DEF PageType
    <2>2. page'.current # 0 => turn'[page'.current] = turn[page.current]
      BY <1>7, <2>1 DEF Others
    <2> QED BY <1>3, <1>4, <2>1, <2>2 DEF ChatInv, Shown
  <1>13. Covers'
    <2> SUFFICES ASSUME ~loose', page.chat # 0, Len(h) <= Keep
                 PROVE  ToSet(rows[page.chat].thread) \subseteq ToSet(h)
      BY <1>2, <1>3, <1>4 DEF Covers
    <2>1. ~loose /\ page.current = n /\ t.phase # "ended"
      BY <1>4
    <2>2. ~Unannounced
      BY <2>1 DEF Unannounced
    <2>3. Len(U) <= Keep
      <3>1. Len(U) \in Nat /\ Len(h) \in Nat /\ Keep \in Nat
        BY <1>1, <1>2, Bounds DEF Thread
      <3> QED BY <1>2, <3>1
    <2>4. ToSet(rows[page.chat].thread) \subseteq ToSet(U)
      BY <2>1, <2>2, <2>3 DEF ChatInv, Covers
    <2> QED BY <1>2, <2>4
  <1>14. InStep'
    BY <1>4 DEF InStep
  <1> QED BY <1>9, <1>10, <1>11, <1>12, <1>13, <1>14 DEF ChatInv

-----------------------------------------------------------------------------
LEMMA ChatInitInv ==
    ASSUME ChatInit
    PROVE  ChatInv
  <1> DEFINE u == <<1, "user">>
             a == <<1, "artifact">>
             s == <<u, a>>
  <1>1. PICK id \in {0, 1} : page = Blank(1, id) /\ settled = (id # 0) /\ loose = (id # 0)
    BY DEF ChatInit
  <1>2. /\ turn = [n \in Turns |-> IF n = 1 THEN Over ELSE Unsent]
        /\ rows = [n \in Turns |-> IF n = 1 THEN Earlier ELSE Absent]
        /\ cache = [n \in Turns |-> Absent] /\ faults = 0
    BY DEF ChatInit
  <1>3. s \in Thread /\ s # <<>> /\ Clean(s)
    <2>1. u \in Entry /\ a \in Entry /\ NotPending(u) /\ NotPending(a)
      BY Bounds DEF Entry, NotPending
    <2> HIDE DEF u, a
    <2> QED BY <2>1 DEF Thread, Clean
  <1>4. Earlier = [thread |-> s, art |-> 1]
    BY DEF Earlier
  <1> HIDE DEF s, u, a
  <1>5. Earlier \in Copy /\ Earlier # Absent /\ Clean(Earlier.thread)
        /\ Absent.thread = <<>> /\ Clean(Absent.thread) /\ Absent \in Copy
    BY <1>3, <1>4, Bounds, Records DEF Copy, Absent
  <1>6. 1 \in Ids /\ 0 \in Ids /\ id \in Ids /\ 0 \notin Turns
    BY Bounds
  <1>7. /\ page \in PageType /\ page.no = 1 /\ page.id = id /\ page.chat = id /\ page.thread = <<>>
        /\ page.current = 0 /\ page.query = Absent /\ (id = 0 => page.asked)
    <2>1. page = [no |-> 1, id |-> id, thread |-> <<>>, shown |-> 0, chat |-> id, current |-> 0,
                  hydrated |-> id = 0, asked |-> id = 0, query |-> Absent]
      BY <1>1 DEF Blank
    <2>2. <<>> \in Thread /\ Absent \in Copy /\ 1 \in Nat \ {0} /\ (id = 0) \in BOOLEAN
      BY Records
    <2>3. page \in PageType
      BY <1>6, <2>1, <2>2 DEF PageType
    <2> QED BY <2>1, <2>3
  <1>8. /\ Over.phase = "over" /\ Over.page = 0 /\ ~Over.open /\ Over.row = 0 /\ Over.wire = <<>>
        /\ Over.prior = <<>> /\ Over.tools = <<>> /\ Over \in TurnType
        /\ Unsent.phase = "unsent" /\ Unsent.page = 0 /\ ~Unsent.open /\ Unsent.row = 0
        /\ Unsent.wire = <<>> /\ Unsent.prior = <<>> /\ Unsent.tools = <<>> /\ Unsent \in TurnType
    BY Records DEF Over, Unsent
  <1>9. /\ rows[1] = Earlier /\ \A k \in Turns : rows[k] = IF k = 1 THEN Earlier ELSE Absent
        /\ \A k \in Turns : turn[k] = IF k = 1 THEN Over ELSE Unsent
        /\ \A k \in Turns : cache[k] = Absent
    BY <1>2, Bounds
  <1>10. ChatTypes
    <2>1. turn \in [Turns -> TurnType]
      BY <1>2, <1>8
    <2>2. rows \in [Turns -> Copy] /\ cache \in [Turns -> Copy]
      BY <1>2, <1>5
    <2> QED BY <1>1, <1>2, <1>7, <2>1, <2>2 DEF ChatTypes
  <1> HIDE DEF Over, Unsent, Absent
  <1>11. Linked
    BY <1>6, <1>7, <1>8, <1>9 DEF Linked
  <1>12. Written
    <2>1. \A m, k \in Turns : turn[m].row # k /\ ~Announces(turn[m], k)
      BY <1>6, <1>8, <1>9 DEF Announces
    <2>2. ASSUME NEW k \in Turns, rows[k] = Absent
          PROVE  ~Named(k)
      <3>1. k # 1 /\ k # 0
        BY <1>5, <1>6, <1>9, <2>2
      <3> QED BY <1>7, <2>1, <3>1 DEF Named
    <2>3. \A k \in Turns : turn[k].phase \in {"unsent", "working", "asking", "returned"}
                             => rows[k] = Absent
      BY <1>8, <1>9
    <2> QED BY <1>7, <2>1, <2>2, <2>3 DEF Written
  <1>13. Stowed
    BY <1>5, <1>7, <1>8, <1>9, Records DEF Stowed
  <1>14. Wired
    BY <1>8, <1>9 DEF Wired
  <1>15. Bubble
    BY <1>7 DEF Bubble, Tidy, Clean
  <1>16. Shown
    BY <1>1, <1>7 DEF Shown
  <1>17. Covers /\ InStep
    BY <1>1, <1>7 DEF Covers, InStep
  <1> QED BY <1>10, <1>11, <1>12, <1>13, <1>14, <1>15, <1>16, <1>17 DEF ChatInv

LEMMA ChatNextInv ==
    ASSUME ChatInv, [ChatNext]_chatVars
    PROVE  ChatInv'
  <1>1. ASSUME NEW id \in 0..MaxTurns, Open(id)
        PROVE  ChatInv'
    BY <1>1, OpenInv DEF Ids
  <1>2. ASSUME NEW n \in Turns, Serve(n) \/ Answer(n) \/ Timeout(n) \/ Sever(n) \/ Break(n)
        PROVE  ChatInv'
    <2>1. CASE Persist(n)
      BY <2>1, PersistIs, ServesInv, PersistedInv DEF ChatInv
    <2>2. CASE Runs(n)
      BY <2>2, RunsServes, ServesInv DEF ChatInv
    <2> QED BY <1>2, <2>1, <2>2 DEF Serve, Runs
  <1>3. ASSUME NEW n \in Turns, Follow(n)
        PROVE  ChatInv'
    BY <1>3, ReceiveInv, CloseInv, CatchInv DEF Follow
  <1>4. CASE UNCHANGED chatVars
    BY <1>4, SameViewInv DEF chatVars, SameView, ChatInv, ChatTypes, Stowed, Written
  <1> QED BY <1>1, <1>2, <1>3, <1>4, QueryInv, QueryAnsweredInv, CancelInv, SendInv DEF ChatNext

(* A turn that is saved is saved by its procedure, and nothing else moves.   *)
LEMMA RetiredPhase ==
    ASSUME NEW v
    PROVE  Retired(v).phase = v.phase \/ Retired(v).phase = "over"
  BY DEF Retired, Over, Unsent

LEMMA PageSavesNothing ==
    ASSUME ChatInv, NEW n \in Turns, Saves(n)
    PROVE  /\ \A id \in 0..MaxTurns : ~Open(id)
           /\ ~Query /\ ~QueryAnswered /\ ~Cancel
           /\ \A m \in Turns : ~Send(m) /\ ~Follow(m)
           /\ ~UNCHANGED chatVars
  <1>1. /\ turn \in [Turns -> TurnType] /\ page \in PageType
        /\ turn[n] \in TurnType /\ turn[n].phase = "returned"
        /\ turn'[n].phase = "ended" /\ turn' # turn
    BY DEF ChatInv, ChatTypes, Saves
  <1>2. ASSUME NEW id \in 0..MaxTurns, Open(id)
        PROVE  FALSE
    <2>1. turn'[n] = Retired([turn[n] EXCEPT !.open = FALSE, !.wire = <<>>])
      BY <1>1, <1>2 DEF Open
    <2>2. [turn[n] EXCEPT !.open = FALSE, !.wire = <<>>].phase = "returned"
      BY <1>1 DEF TurnType
    <2> QED BY <1>1, <2>1, <2>2, RetiredPhase
  <1>3. ~Query /\ ~UNCHANGED chatVars
    BY <1>1 DEF Query, chatVars
  <1>4. ASSUME NEW m, turn' = Aborted(m)
        PROVE  FALSE
    BY <1>1, <1>4 DEF Aborted, TurnType
  <1>5. ~QueryAnswered /\ ~Cancel
    BY <1>1, <1>4 DEF QueryAnswered, Cancel
  <1>6. ASSUME NEW m \in Turns, Send(m)
        PROVE  FALSE
    <2>1. turn[m].phase = "unsent"
      BY <1>6 DEF Send, IsNext
    <2> QED BY <1>1, <1>6, <2>1 DEF Send
  <1>7. ASSUME NEW m \in Turns, Receive(m)
        PROVE  FALSE
    <2>1. Reads(m)
      BY <1>7, ReceiveReads DEF ChatInv
    <2> QED BY <1>1, <2>1 DEF Reads, Read, Others
  <1>8. ASSUME NEW m \in Turns, Close(m) \/ Catch(m)
        PROVE  FALSE
    <2> DEFINE c == [turn[m] EXCEPT !.open = FALSE]
               d == [turn[m] EXCEPT !.open = FALSE, !.wire = <<>>]
    <2>1. turn[m] \in TurnType
      BY <1>1
    <2>2. c.phase = turn[m].phase /\ d.phase = turn[m].phase
      BY <2>1 DEF TurnType
    <2>3. turn' = [turn EXCEPT ![m] = Retired(c)] \/ turn' = [turn EXCEPT ![m] = Retired(d)]
      BY <1>8 DEF Close, Catch
    <2> HIDE DEF c, d
    <2>4. turn'[n] = turn[n] \/ (m = n /\ turn'[n] \in {Retired(c), Retired(d)})
      BY <1>1, <2>3
    <2> QED BY <1>1, <2>2, <2>4, RetiredPhase
  <1> QED BY <1>2, <1>3, <1>5, <1>6, <1>7, <1>8 DEF Follow

LEMMA SavedByPersist ==
    ASSUME ChatInv, [ChatNext]_chatVars, NEW n \in Turns, Saves(n)
    PROVE  rows' = rows \/ Persisted(n)
  <1>1. PICK m \in Turns : Serve(m) \/ Answer(m) \/ Timeout(m) \/ Sever(m) \/ Break(m)
    BY PageSavesNothing DEF ChatNext
  <1>2. Serves(m) \/ Persisted(m)
    <2>1. CASE Persist(m)
      BY <2>1, PersistIs DEF ChatInv
    <2>2. CASE Runs(m)
      BY <2>2, RunsServes DEF ChatInv
    <2> QED BY <1>1, <2>1, <2>2 DEF Serve, Runs
  <1>3. m # n => turn'[n] = turn[n]
    BY <1>2 DEF Serves, Persisted, Others
  <1>4. turn'[n] # turn[n]
    BY DEF Saves
  <1> QED BY <1>2, <1>3, <1>4 DEF Serves

LEMMA SavedOverItsRow ==
    ASSUME ChatInv, NEW n \in Turns, Persisted(n), ~Abandoned(n), ~loose, Len(turn[n].prior) < Keep,
           NEW id \in Turns
    PROVE  ToSet(rows[id].thread) \subseteq ToSet(rows'[id].thread)
  <1> DEFINE t == turn[n]
             k == Target(t, n)
             e == <<n, "user">>
             U == WithoutPending(page.thread)
  <1>1. /\ t \in TurnType /\ t.phase = "returned" /\ t.prior \in Thread /\ e \in Entry
        /\ Len(t.prior) \in Nat /\ Keep \in Nat /\ ~t.aborted
    <2>1. t \in TurnType /\ t.phase = "returned" /\ ~t.aborted
      BY DEF ChatInv, ChatTypes, Persisted, Abandoned
    <2>2. t.prior \in Thread
      BY <2>1 DEF TurnType
    <2>3. Len(t.prior) \in Nat
      BY <2>2 DEF Thread
    <2>4. e \in Entry /\ Keep \in Nat
      BY Records, Bounds
    <2> QED BY <2>1, <2>2, <2>3, <2>4
  <1>2. rows'[k] = Stored(t, n) /\ (id # k => rows'[id] = rows[id])
    BY PersistedRows, Bounds DEF ChatInv
  <1>3. ToSet(t.prior) \cup {e} \subseteq ToSet(Stored(t, n).thread)
    BY <1>1, StoredIs DEF ChatInv, Stowed
  <1>4. CASE id # k
    BY <1>2, <1>4
  <1>5. CASE id = k /\ t.row = 0
    <2>1. k = n /\ rows[n] = Absent
      BY <1>1, <1>5 DEF Target, ChatInv, Written
    <2>2. ToSet(Absent.thread) = {}
      BY DEF ToSet, Absent
    <2> QED BY <1>5, <2>1, <2>2
  <1>6. CASE id = k /\ t.row # 0
    <2>1. n = page.current /\ page.current # 0
      BY PersistedElsewhere, Bounds DEF ChatInv
    <2>2. Waits(t)
      BY <1>1 DEF Waits
    <2>3. page.chat = t.row /\ Follows(page, rows, n, t)
      BY <2>1, <2>2 DEF ChatInv, Shown
    <2>4. PICK s \in Thread : U = Append(s, e) /\ Latest(Keep, s) = t.prior
      BY <2>3 DEF Follows
    <2>5. s = t.prior
      <3>1. <<>> \in Thread
        BY Records
      <3> QED BY <1>1, <2>4, <3>1, AnsweredAsSent
    <2>6. Len(U) = Len(t.prior) + 1 /\ ToSet(U) = ToSet(t.prior) \cup {e}
      BY <1>1, <2>4, <2>5, OneMore
    <2>7. Len(U) <= Keep
      BY <1>1, <2>6
    <2>8. ~Unannounced
      BY <1>1, <2>1 DEF Unannounced
    <2>9. ToSet(rows[page.chat].thread) \subseteq ToSet(U)
      BY <1>6, <2>3, <2>7, <2>8 DEF ChatInv, Covers
    <2>10. id = page.chat
      BY <1>6, <2>3 DEF Target
    <2> QED BY <1>2, <1>3, <1>6, <2>6, <2>9, <2>10
  <1> QED BY <1>4, <1>5, <1>6

-----------------------------------------------------------------------------
(* The state of the chat, and the invariant that the theorems below need.    *)
THEOREM ChatInvHolds == ChatSpec => []ChatInv
  <1> QED BY ChatInitInv, ChatNextInv, PTL DEF ChatSpec

(* The page in step with its row: the thread and the dashboard of a page     *)
(* whose turn was saved, or that was loaded, are those of its row, and it    *)
(* would send back the same end of them (use-ai-chat.ts:10-13).              *)
THEOREM PageInStep == ChatSpec => []InStep
  <1>1. ChatInv => InStep
    BY DEF ChatInv
  <1> QED BY <1>1, ChatInvHolds, PTL

(* A turn that is saved over a row, by a page that is not behind it and sent *)
(* its thread whole, loses nothing of what the row held (ai.ts:486-524).     *)
THEOREM NoEntryLost == ChatSpec => TurnsKept
  <1>1. ASSUME ChatInv, [ChatNext]_chatVars
        PROVE  [\A n \in Turns : Saves(n) /\ ~Abandoned(n) /\ ~loose /\ Len(turn[n].prior) < Keep =>
                   \A id \in Turns : ToSet(rows[id].thread) \subseteq ToSet(rows'[id].thread)]_chatVars
    <2> SUFFICES ASSUME NEW n \in Turns, Saves(n), ~Abandoned(n), ~loose, Len(turn[n].prior) < Keep,
                        NEW id \in Turns
                 PROVE  ToSet(rows[id].thread) \subseteq ToSet(rows'[id].thread)
      OBVIOUS
    <2> QED BY <1>1, SavedByPersist, SavedOverItsRow
  <1> QED BY <1>1, ChatInvHolds, PTL DEF ChatSpec, TurnsKept
=============================================================================
