--------------------------- MODULE SfInbound_proofs ---------------------------
(***************************************************************************)
(* What comes in from Salesforce, by the poll and by the crawl of a scoped *)
(* import.                                                                 *)
(*                                                                         *)
(* The poll, for every set of records and pollers, every page and chunk    *)
(* size and every bound, and however polls overlap and stamps coincide: no *)
(* applied change misses its backfill, and what the cursor passes and is   *)
(* not here was left behind by a probe or undone by an older poll.  While  *)
(* polls of an organisation do not overlap (OnePoll), a record never goes  *)
(* back to an older value.                                                 *)
(*                                                                         *)
(* The crawl, for every set of objects, lookups and records, every cap and *)
(* number of rounds, and whatever queries fail: it stays in the subtree of *)
(* its roots and the records that the subtree points at.                   *)
(***************************************************************************)
EXTENDS SfPoll, SfCrawl, FiniteSetTheorems, WellFoundedInduction, TLAPS

(* The poll of an organisation is one job of a queue; a tick that outlives   *)
(* the next one is what this excludes.                                       *)
OnePoll == \A p, q \in Pollers : p = q

PollState ==
    [pc : {"idle", "probe", "match", "fetch", "apply", "ask", "cursor"}, from : Nat,
     probe : SUBSET Ids, newest : Nat, todo : SUBSET Ids, chunk : SUBSET Ids,
     rows : [Ids -> Nat], applied : BOOLEAN]

Types ==
    /\ clock \in Nat /\ changes \in Nat /\ imports \in Nat /\ pollCrashes \in Nat /\ since \in Nat
    /\ sf \in [Ids -> [value : Nat, stamp : Nat]]
    /\ known \subseteq Ids /\ local \in [Ids -> Nat] /\ stale \subseteq Ids
    /\ syncCursor \in [set : BOOLEAN, at : Nat]
    /\ importing \in [Ids -> [held : BOOLEAN, value : Nat]]
    /\ poll \in [Pollers -> PollState]
    /\ passed \subseteq Ids /\ reverted \subseteq Ids

(* Whoever has applied a change is still on its way to ask for the backfill. *)
Pending ==
    pollCrashes = 0 /\ stale # {} =>
        \E p \in Pollers : poll[p].applied /\ poll[p].pc \in {"fetch", "apply", "ask"}

(* What is held to be applied is no older than what is here.                 *)
Forward ==
    /\ \A r \in Ids : local[r] <= sf[r].value
    /\ \A r \in Ids : importing[r].held => importing[r].value <= sf[r].value
    /\ \A p \in Pollers : poll[p].pc \in {"fetch", "apply"} => poll[p].todo \subseteq known
    /\ \A p \in Pollers : poll[p].pc = "apply" =>
          \A r \in poll[p].chunk :
             r \in known /\ local[r] <= poll[p].rows[r] /\ poll[p].rows[r] <= sf[r].value

(* Nothing carries a stamp of the future.                                    *)
Clocked ==
    /\ \A r \in Ids : sf[r].stamp <= clock
    /\ syncCursor.at <= clock /\ since <= clock
    /\ \A p \in Pollers : poll[p].from <= clock /\ poll[p].newest <= clock

(* Polls may overlap: what one holds was so once, and is not newer than what *)
(* Salesforce holds.                                                         *)
Seen == \A p \in Pollers, r \in Ids : poll[p].rows[r] <= sf[r].value

Between(r, low, high) == low < sf[r].stamp /\ sf[r].stamp <= high

(* Up to date, or known to have been left behind or undone.                  *)
Fine(r) == local[r] = sf[r].value \/ r \in passed \cup reverted

(* Where a record that a poll must bring up to date is, until it is.         *)
Covered(q, r) ==
    /\ q.pc = "match" => r \in q.probe \/ Fine(r)
    /\ q.pc = "fetch" => r \in q.todo \/ Fine(r)
    /\ q.pc = "apply" => r \in q.todo \/ Fine(r) \/ (r \in q.chunk /\ q.rows[r] = sf[r].value)
    /\ q.pc \in {"ask", "cursor"} => Fine(r)

Quiescent == imports = 0 => \A r \in Ids : ~importing[r].held

Started == \A p \in Pollers : poll[p].pc # "idle" => syncCursor.set

(* The cursor, the cursors that polls at work started from, and the newest   *)
(* stamps they have probed.                                                  *)
AllCovered ==
    /\ \A r \in known : Between(r, since, syncCursor.at) => Fine(r)
    /\ \A p \in Pollers, r \in known :
          /\ Between(r, since, poll[p].from) => Fine(r)
          /\ Between(r, poll[p].from, poll[p].newest) => Covered(poll[p], r)

Covers == syncCursor.set /\ imports = 0 => AllCovered

-----------------------------------------------------------------------------
(* A set of stamps has a newest one.                                         *)
LEMMA Greatest ==
    ASSUME NEW b \in Nat, NEW T \in SUBSET (0..b), T # {}
    PROVE  \E x \in T : \A y \in T : y <= x
  <1> DEFINE U == {(n + 1)..b : n \in T}
  <1>1. U \subseteq FiniteSubsetsOf(Nat) /\ U # {}
    <2>1. ASSUME NEW n \in T PROVE (n + 1)..b \in FiniteSubsetsOf(Nat)
      <3>1. IsFiniteSet((n + 1)..b)
        BY FS_Interval
      <3>2. (n + 1)..b \in SUBSET Nat
        OBVIOUS
      <3> QED BY <3>1, <3>2 DEF FiniteSubsetsOf
    <2> QED BY <2>1
  <1>2. PICK u \in U : \A v \in U : ~(<<v, u>> \in StrictSubsetOrdering(Nat))
    <2> HIDE DEF U
    <2> QED BY <1>1, FS_StrictSubsetOrderingWellFounded, WFMin
  <1>3. PICK x \in T : u = (x + 1)..b
    OBVIOUS
  <1>4. ASSUME NEW y \in T, x < y PROVE FALSE
    <2>1. (y + 1)..b \subseteq (x + 1)..b /\ y \in (x + 1)..b /\ y \notin (y + 1)..b
      BY <1>4
    <2>2. (y + 1)..b \in SUBSET Nat /\ (x + 1)..b \in SUBSET Nat
      OBVIOUS
    <2>3. <<(y + 1)..b, (x + 1)..b>> \in StrictSubsetOrdering(Nat)
      BY <2>1, <2>2, Zenon DEF StrictSubsetOrdering
    <2> QED BY <1>2, <1>3, <2>3
  <1> QED BY <1>4

LEMMA NewestIsNewest ==
    ASSUME Types, Clocked, NEW S \in SUBSET Ids, S # {}
    PROVE  /\ NewestOf(S) \in Nat /\ NewestOf(S) <= clock
           /\ \E r \in S : sf[r].stamp = NewestOf(S)
           /\ \A r \in S : sf[r].stamp <= NewestOf(S)
  <1> DEFINE T == {sf[r].stamp : r \in S}
  <1>1. clock \in Nat /\ T \subseteq 0..clock /\ T # {}
    BY DEF Types, Clocked
  <1>2. \E t \in T : \A u \in T : u <= t
    <2> HIDE DEF T
    <2> QED BY <1>1, Greatest
  <1>3. \E t \in T : \A r \in S : sf[r].stamp <= t
    BY <1>2
  <1>4. NewestOf(S) \in T /\ \A r \in S : sf[r].stamp <= NewestOf(S)
    BY <1>3 DEF NewestOf
  <1> QED BY <1>1, <1>4

-----------------------------------------------------------------------------
LEMMA InitTypes == PollInit => Types
  <1> SUFFICES ASSUME PollInit PROVE Types
    OBVIOUS
  <1>1. IdlePoll \in PollState
    BY DEF IdlePoll, PollState
  <1>2. syncCursor \in [set : BOOLEAN, at : Nat]
    <2>1. syncCursor = [set |-> FALSE, at |-> 0] \/ syncCursor = [set |-> TRUE, at |-> 0]
      BY DEF PollInit, NoCursor
    <2>2. CASE syncCursor = [set |-> FALSE, at |-> 0]
      BY <2>2
    <2>3. CASE syncCursor = [set |-> TRUE, at |-> 0]
      BY <2>3
    <2> QED BY <2>1, <2>2, <2>3
  <1> QED BY <1>1, <1>2 DEF PollInit, Types, NotFetched

(* A poll that takes one of its steps is again a poll.                       *)
LEMMA PollTypes ==
    ASSUME Types, Clocked, NEW p \in Pollers, Poll(p) \/ PollCrash(p)
    PROVE  Types'
  <1>1. IdlePoll \in PollState
    BY DEF IdlePoll, PollState
  <1>2. CASE FirstPoll(p)
    BY <1>2 DEF FirstPoll, Types, remoteVars, localVars, importVars, historyVars
  <1>3. CASE ReadCursor(p)
    <2>1. [IdlePoll EXCEPT !.pc = "probe", !.from = syncCursor.at] \in PollState
      BY DEF IdlePoll, PollState, Types
    <2> QED BY <1>3, <2>1 DEF ReadCursor, Types, remoteVars, localVars, cursorVars, importVars, historyVars
  <1>4. ASSUME NEW S \in SUBSET Ids, Probe(p, S) PROVE Types'
    <2>1. S # {} => [poll[p] EXCEPT !.pc = "match", !.probe = S, !.newest = NewestOf(S)] \in PollState
      <3> SUFFICES ASSUME S # {}
                   PROVE  [poll[p] EXCEPT !.pc = "match", !.probe = S, !.newest = NewestOf(S)] \in PollState
        OBVIOUS
      <3>1. NewestOf(S) \in Nat
        BY NewestIsNewest
      <3> QED BY <3>1 DEF PollState, Types
    <2>2. poll' = [poll EXCEPT ![p] =
                      IF S = {} THEN IdlePoll
                      ELSE [poll[p] EXCEPT !.pc = "match", !.probe = S, !.newest = NewestOf(S)]]
      BY <1>4 DEF Probe, Types
    <2>3. poll' \in [Pollers -> PollState]
      BY <1>1, <2>1, <2>2 DEF Types
    <2> QED BY <1>4, <2>3 DEF Probe, LeftOut, Past, Types, remoteVars, localVars, cursorVars, importVars, historyVars
  <1>5. CASE Match(p)
    <2> DEFINE here == poll[p].probe \cap known
    <2>1. poll' = [poll EXCEPT ![p] =
                     [poll[p] EXCEPT !.pc = IF here = {} THEN "cursor" ELSE "fetch", !.todo = here]]
      BY <1>5 DEF Match, Types
    <2>2. [poll[p] EXCEPT !.pc = IF here = {} THEN "cursor" ELSE "fetch", !.todo = here] \in PollState
      BY DEF PollState, Types
    <2>3. poll' \in [Pollers -> PollState]
      BY <2>1, <2>2 DEF Types
    <2> QED BY <1>5, <2>3 DEF Match, Types, remoteVars, localVars, cursorVars, importVars, historyVars
  <1>6. ASSUME NEW C \in SUBSET Ids, Fetch(p, C) PROVE Types'
    <2>1. [r \in Ids |-> sf[r].value] \in [Ids -> Nat]
      BY DEF Types
    <2>2. [poll[p] EXCEPT !.pc = "apply", !.chunk = C, !.todo = @ \ C,
                          !.rows = [r \in Ids |-> sf[r].value]] \in PollState
      BY <2>1 DEF PollState, Types
    <2>3. poll' = [poll EXCEPT ![p] = [poll[p] EXCEPT !.pc = "apply", !.chunk = C, !.todo = @ \ C,
                                                     !.rows = [r \in Ids |-> sf[r].value]]]
      BY <1>6 DEF Fetch, Types
    <2>4. poll' \in [Pollers -> PollState]
      BY <2>2, <2>3 DEF Types
    <2> QED BY <1>6, <2>4 DEF Fetch, Types, remoteVars, localVars, cursorVars, importVars, historyVars
  <1>7. ASSUME NEW r \in Ids, Apply(p, r) PROVE Types'
    <2> DEFINE q == poll[p]
               differs == local[r] # q.rows[r]
               left == q.chunk \ {r}
               then == [q EXCEPT !.chunk = left, !.applied = AnyDiffers(q, differs)]
    <2>1. then \in PollState
      <3>1. q \in PollState /\ left \subseteq Ids /\ AnyDiffers(q, differs) \in BOOLEAN
        BY DEF AnyDiffers, PollState, Types
      <3> HIDE DEF q, left, differs
      <3> QED BY <3>1 DEF PollState
    <2>2. AfterApplying(then, left) \in {"apply", "fetch", "ask", "cursor"}
      BY DEF AfterApplying
    <2>3. [then EXCEPT !.pc = AfterApplying(then, left)] \in PollState
      <3> HIDE DEF then, left
      <3> QED BY <2>1, <2>2 DEF PollState
    <2>4. q.rows[r] \in Nat
      BY DEF PollState, Types
    <2>5. poll' = [poll EXCEPT ![p] = [then EXCEPT !.pc = AfterApplying(then, left)]]
      BY <1>7 DEF Apply
    <2>6. poll' \in [Pollers -> PollState]
      <3> HIDE DEF then, left
      <3> QED BY <2>3, <2>5 DEF Types
    <2>7. local' \in [Ids -> Nat] /\ stale' \subseteq Ids
      BY <1>7, <2>4 DEF Apply, Types
    <2> QED BY <1>7, <2>6, <2>7 DEF Apply, Types, remoteVars, cursorVars, importVars, historyVars
  <1>8. CASE Ask(p)
    <2>1. poll' = [poll EXCEPT ![p] = [poll[p] EXCEPT !.pc = "cursor"]]
      BY <1>8 DEF Ask, Types
    <2>2. [poll[p] EXCEPT !.pc = "cursor"] \in PollState
      BY DEF PollState, Types
    <2>3. poll' \in [Pollers -> PollState]
      BY <2>1, <2>2 DEF Types
    <2> QED BY <1>8, <2>3 DEF Ask, Types, remoteVars, cursorVars, importVars, historyVars
  <1>9. CASE MoveCursor(p)
    BY <1>1, <1>9 DEF MoveCursor, ProbedPast, Ended, PollState, Types, remoteVars, localVars, importVars, historyVars
  <1>10. CASE PollCrash(p)
    BY <1>1, <1>10 DEF PollCrash, Types, remoteVars, localVars, cursorVars, importVars, historyVars
  <1> QED BY <1>2, <1>3, <1>4, <1>5, <1>6, <1>7, <1>8, <1>9, <1>10 DEF Poll

(* What else happens: Salesforce changes a record, an import fetches or      *)
(* inserts one.                                                              *)
LEMMA ElsewhereTypes ==
    ASSUME Types, NEW r \in Ids,
           (\E t \in 0..MaxChanges : Change(r, t)) \/ ImportFetch(r) \/ ImportInsert(r)
    PROVE  Types'
  <1>1. ASSUME NEW t \in 0..MaxChanges, Change(r, t) PROVE Types'
    <2>1. sf' = [sf EXCEPT ![r] = [value |-> sf[r].value + 1, stamp |-> t]] /\ t \in Nat
      BY <1>1 DEF Change, Types
    <2>2. [value |-> sf[r].value + 1, stamp |-> t] \in [value : Nat, stamp : Nat]
      BY <2>1 DEF Types
    <2> QED BY <1>1, <2>1, <2>2 DEF Change, Types, localVars, cursorVars, importVars, historyVars
  <1>2. CASE ImportFetch(r)
    BY <1>2 DEF ImportFetch, Types, remoteVars, localVars, cursorVars, historyVars
  <1>3. CASE ImportInsert(r)
    BY <1>3 DEF ImportInsert, Inserted, NotFetched, Types, remoteVars, cursorVars, historyVars
  <1> QED BY <1>1, <1>2, <1>3

LEMMA StepTypes == Types /\ Clocked /\ [PollNext]_pollVars => Types'
  <1> SUFFICES ASSUME Types, Clocked, [PollNext]_pollVars PROVE Types'
    OBVIOUS
  <1>1. CASE UNCHANGED pollVars
    BY <1>1 DEF pollVars, remoteVars, localVars, importVars, historyVars, cursorVars, Types
  <1>2. CASE PollNext
    BY <1>2, PollTypes, ElsewhereTypes DEF PollNext
  <1> QED BY <1>1, <1>2

-----------------------------------------------------------------------------
(* A poll moves nobody's state but its own.                                  *)
LEMMA OnlyItself ==
    ASSUME Types, NEW p \in Pollers, Poll(p) \/ PollCrash(p), NEW q \in Pollers, q # p
    PROVE  poll'[q] = poll[q]
  BY DEF Poll, PollCrash, FirstPoll, ReadCursor, Probe, Match, Fetch, Apply, Ask, MoveCursor, Types

(* Salesforce's own clock only goes forward, and a poll learns stamps of it. *)
LEMMA StepClocked == Types /\ Clocked /\ [PollNext]_pollVars => Clocked'
  <1> SUFFICES ASSUME Types, Clocked, [PollNext]_pollVars PROVE Clocked'
    OBVIOUS
  <1>1. ASSUME NEW r \in Ids, NEW t \in 0..MaxChanges, Change(r, t) PROVE Clocked'
    <2>1. /\ clock' = t /\ clock <= t /\ t \in Nat
          /\ \A q \in Ids : sf'[q].stamp = IF q = r THEN t ELSE sf[q].stamp
          /\ UNCHANGED <<syncCursor, since, poll>>
      BY <1>1 DEF Change, Types, cursorVars
    <2> QED BY <2>1 DEF Clocked, Types, PollState
  <1>2. ASSUME NEW r \in Ids, ImportFetch(r) \/ ImportInsert(r) PROVE Clocked'
    BY <1>2 DEF ImportFetch, ImportInsert, remoteVars, cursorVars, Clocked
  <1>3. ASSUME NEW p \in Pollers, Poll(p) \/ PollCrash(p) PROVE Clocked'
    <2> DEFINE Behind(q) == q.from <= clock /\ q.newest <= clock
    <2>1. UNCHANGED <<sf, clock>>
      BY <1>3 DEF Poll, PollCrash, FirstPoll, ReadCursor, Probe, Match, Fetch, Apply, Ask, MoveCursor, remoteVars
    <2>2. syncCursor' \in {syncCursor, [set |-> TRUE, at |-> clock], [set |-> TRUE, at |-> poll[p].newest]}
      BY <1>3 DEF Poll, PollCrash, FirstPoll, ReadCursor, Probe, Match, Fetch, Apply, Ask, MoveCursor,
                  ProbedPast, cursorVars
    <2>3. syncCursor'.at <= clock
      BY <2>2 DEF Clocked, Types
    <2>4. since' \in {since, clock}
      BY <1>3 DEF Poll, PollCrash, FirstPoll, ReadCursor, Probe, Match, Fetch, Apply, Ask, MoveCursor, cursorVars
    <2>5. Behind(poll'[p])
      <3>1. IdlePoll.from = 0 /\ IdlePoll.newest = 0 /\ 0 <= clock
        BY DEF IdlePoll, Types
      <3>2. ASSUME NEW S \in SUBSET Ids, Probe(p, S) PROVE Behind(poll'[p])
        BY <3>1, <3>2, NewestIsNewest DEF Probe, Clocked, Types, PollState
      <3>3. CASE ReadCursor(p)
        BY <3>3 DEF ReadCursor, Clocked, Types, IdlePoll
      <3>4. CASE FirstPoll(p)
        BY <3>4 DEF FirstPoll, Clocked
      <3>5. CASE Match(p)
        BY <3>5 DEF Match, Clocked, Types, PollState
      <3>6. ASSUME NEW C \in SUBSET Ids, Fetch(p, C) PROVE Behind(poll'[p])
        BY <3>6 DEF Fetch, Clocked, Types, PollState
      <3>7. ASSUME NEW r \in Ids, Apply(p, r) PROVE Behind(poll'[p])
        BY <3>7 DEF Apply, Clocked, Types, PollState
      <3>8. CASE Ask(p)
        BY <3>8 DEF Ask, Clocked, Types, PollState
      <3>9. CASE MoveCursor(p) \/ PollCrash(p)
        BY <3>1, <3>9 DEF MoveCursor, PollCrash, Ended, Types
      <3> QED BY <1>3, <3>2, <3>3, <3>4, <3>5, <3>6, <3>7, <3>8, <3>9 DEF Poll
    <2>6. \A q \in Pollers : Behind(poll'[q])
      BY <1>3, <2>5, OnlyItself DEF Clocked
    <2> QED BY <2>1, <2>3, <2>4, <2>6 DEF Clocked, Types
  <1>4. CASE UNCHANGED pollVars
    BY <1>4 DEF pollVars, remoteVars, cursorVars, Clocked
  <1> QED BY <1>1, <1>2, <1>3, <1>4 DEF PollNext

-----------------------------------------------------------------------------
(* The poll that applied a change asks before it ends, or dies.              *)
LEMMA StepPending == Types /\ Pending /\ [PollNext]_pollVars => Pending'
  <1> SUFFICES ASSUME Types, Pending, [PollNext]_pollVars, pollCrashes' = 0, stale' # {}
               PROVE  \E p \in Pollers : poll'[p].applied /\ poll'[p].pc \in {"fetch", "apply", "ask"}
    BY DEF Pending
  <1> DEFINE Asks(q) == q.applied /\ q.pc \in {"fetch", "apply", "ask"}
  <1>1. CASE UNCHANGED <<stale, poll, pollCrashes>>
    BY <1>1 DEF Pending
  <1>2. ASSUME NEW p \in Pollers, UNCHANGED <<stale, pollCrashes>>,
               ~Asks(poll[p]) \/ Asks(poll'[p]), \A q \in Pollers : q # p => poll'[q] = poll[q]
        PROVE  \E q \in Pollers : Asks(poll'[q])
    <2>1. PICK q \in Pollers : Asks(poll[q])
      BY <1>2 DEF Pending
    <2>2. q # p => Asks(poll'[q])
      BY <1>2, <2>1
    <2> QED BY <1>2, <2>1, <2>2
  <1>3. ASSUME NEW r \in Ids, (\E t \in 0..MaxChanges : Change(r, t)) \/ ImportFetch(r) \/ ImportInsert(r)
        PROVE  UNCHANGED <<stale, poll, pollCrashes>>
    BY <1>3 DEF Change, ImportFetch, ImportInsert, localVars
  <1>4. ASSUME NEW p \in Pollers, Poll(p) PROVE \E q \in Pollers : Asks(poll'[q])
    <2>1. \A q \in Pollers : q # p => poll'[q] = poll[q]
      BY <1>4, OnlyItself
    <2>2. CASE FirstPoll(p)
      BY <2>2, <1>1 DEF FirstPoll, localVars
    <2>3. CASE ReadCursor(p)
      BY <2>3, <2>1, <1>2 DEF ReadCursor, localVars
    <2>4. ASSUME NEW S \in SUBSET Ids, Probe(p, S) PROVE \E q \in Pollers : Asks(poll'[q])
      BY <2>4, <2>1, <1>2 DEF Probe, localVars
    <2>5. CASE Match(p)
      BY <2>5, <2>1, <1>2 DEF Match, localVars
    <2>6. ASSUME NEW C \in SUBSET Ids, Fetch(p, C) PROVE \E q \in Pollers : Asks(poll'[q])
      <3>1. poll'[p].pc = "apply" /\ poll'[p].applied = poll[p].applied
        BY <2>6 DEF Fetch, Types, PollState
      <3> QED BY <2>6, <3>1, <2>1, <1>2 DEF Fetch, localVars
    <2>7. ASSUME NEW r \in Ids, Apply(p, r) PROVE \E q \in Pollers : Asks(poll'[q])
      <3> DEFINE differs == local[r] # poll[p].rows[r]
      <3>1. /\ poll'[p].applied = (poll[p].applied \/ differs)
            /\ poll'[p].applied => poll'[p].pc \in {"fetch", "apply", "ask"}
        BY <2>7 DEF Apply, AnyDiffers, AfterApplying, Types, PollState
      <3>2. CASE poll'[p].applied
        BY <3>1, <3>2
      <3>3. CASE ~poll'[p].applied
        BY <2>7, <3>1, <3>3, <2>1, <1>2 DEF Apply
      <3> QED BY <3>2, <3>3
    <2>8. CASE Ask(p)
      BY <2>8 DEF Ask
    <2>9. CASE MoveCursor(p)
      BY <2>9, <2>1, <1>2 DEF MoveCursor, localVars
    <2> QED BY <1>4, <2>2, <2>3, <2>4, <2>5, <2>6, <2>7, <2>8, <2>9 DEF Poll
  <1>5. ASSUME NEW p \in Pollers, PollCrash(p) PROVE FALSE
    BY <1>5 DEF PollCrash, Types
  <1>6. CASE UNCHANGED pollVars
    BY <1>6, <1>1 DEF pollVars, localVars
  <1> QED BY <1>1, <1>3, <1>4, <1>5, <1>6 DEF PollNext

Inv == Types /\ Clocked /\ Pending

LEMMA InitInv == PollInit => Inv
  <1> SUFFICES ASSUME PollInit PROVE Inv
    OBVIOUS
  <1>1. syncCursor.at = 0
    BY DEF PollInit, NoCursor
  <1>2. Clocked
    BY <1>1 DEF PollInit, Clocked, IdlePoll
  <1>3. Pending
    BY DEF PollInit, Pending
  <1> QED BY <1>2, <1>3, InitTypes DEF Inv

LEMMA StepInv == Inv /\ [PollNext]_pollVars => Inv'
  BY StepTypes, StepClocked, StepPending DEF Inv

THEOREM Invariance == PollSpec => []Inv
  BY InitInv, StepInv, PTL DEF PollSpec

(* Every record a poll has changed is handed to the backfill, whatever polls *)
(* overlap (AppliedIsRecomputed): only a poll that dies may leave some.      *)
THEOREM AppliedAreHandedOver == PollSpec => []AppliedIsRecomputed
  <1>1. Inv => AppliedIsRecomputed
    BY DEF Inv, Pending, AppliedIsRecomputed
  <1> QED BY <1>1, Invariance, PTL

-----------------------------------------------------------------------------
(* While polls do not overlap, nothing that is held is older than what is    *)
(* here.                                                                     *)
LEMMA StepForward == ASSUME OnePoll PROVE Types /\ Forward /\ [PollNext]_pollVars => Forward'
  <1> SUFFICES ASSUME Types, Forward, [PollNext]_pollVars PROVE Forward'
    OBVIOUS
  <1>1. ASSUME NEW r \in Ids, NEW t \in 0..MaxChanges, Change(r, t) PROVE Forward'
    <2>1. /\ \A q \in Ids : sf'[q].value = IF q = r THEN sf[q].value + 1 ELSE sf[q].value
          /\ UNCHANGED <<local, known, importing, poll>>
      BY <1>1 DEF Change, Types, localVars, importVars, historyVars
    <2>2. \A q \in Ids : sf[q].value \in Nat /\ local[q] \in Nat /\ importing[q].value \in Nat
      BY DEF Types
    <2>3. \A p \in Pollers, q \in Ids : poll[p].rows[q] \in Nat
      BY DEF Types, PollState
    <2>4. \A p \in Pollers : poll[p].chunk \subseteq Ids
      BY DEF Types, PollState
    <2> QED BY <2>1, <2>2, <2>3, <2>4 DEF Forward
  <1>2. ASSUME NEW r \in Ids, ImportFetch(r) PROVE Forward'
    BY <1>2 DEF ImportFetch, Forward, Types, remoteVars, localVars
  <1>3. ASSUME NEW r \in Ids, ImportInsert(r) PROVE Forward'
    <2>1. /\ UNCHANGED <<sf, poll>> /\ known' = known \cup {r}
          /\ \A q \in Ids : local'[q] = IF q = r /\ r \notin known THEN importing[r].value ELSE local[q]
          /\ \A q \in Ids : importing'[q] = IF q = r THEN NotFetched ELSE importing[q]
          /\ importing[r].held
      BY <1>3 DEF ImportInsert, Inserted, Types, remoteVars
    <2>2. \A q \in Ids : local'[q] <= sf'[q].value
      BY <2>1 DEF Forward
    <2>3. \A q \in Ids : importing'[q].held => importing'[q].value <= sf'[q].value
      BY <2>1 DEF Forward, NotFetched
    <2>4. \A p \in Pollers : poll[p].pc = "apply" =>
             \A q \in poll[p].chunk : q \in Ids /\ q \in known /\ local'[q] = local[q]
      BY <2>1 DEF Forward, Types
    <2> QED BY <2>1, <2>2, <2>3, <2>4 DEF Forward
  <1>4. ASSUME NEW p \in Pollers, Poll(p) \/ PollCrash(p) PROVE Forward'
    <2> DEFINE Held(q) == /\ q.pc \in {"fetch", "apply"} => q.todo \subseteq known
                          /\ q.pc = "apply" =>
                                \A r \in q.chunk :
                                   r \in known /\ local'[r] <= q.rows[r] /\ q.rows[r] <= sf[r].value
    <2>1. UNCHANGED <<sf, known, importing>> /\ \A q \in Pollers : q = p
      BY <1>4 DEF Poll, PollCrash, FirstPoll, ReadCursor, Probe, Match, Fetch, Apply, Ask, MoveCursor,
                  remoteVars, localVars, importVars, historyVars, OnePoll
    <2>2. (\A r \in Ids : local'[r] <= sf[r].value) /\ Held(poll'[p]) => Forward'
      BY <2>1 DEF Forward
    <2>3. CASE UNCHANGED local /\ poll'[p].pc \notin {"fetch", "apply"}
      BY <2>2, <2>3 DEF Forward
    <2>4. CASE UNCHANGED <<local, poll>>
      BY <2>2, <2>4 DEF Forward
    <2>5. CASE FirstPoll(p)
      BY <2>4, <2>5 DEF FirstPoll, localVars
    <2>6. CASE ReadCursor(p)
      BY <2>3, <2>6 DEF ReadCursor, localVars, Types, IdlePoll
    <2>7. ASSUME NEW S \in SUBSET Ids, Probe(p, S) PROVE Forward'
      <3>1. poll'[p].pc \in {"idle", "match"}
        BY <2>7 DEF Probe, Types, PollState, IdlePoll
      <3> QED BY <2>3, <2>7, <3>1 DEF Probe, localVars
    <2>8. CASE Match(p)
      <3>1. poll'[p].pc \in {"cursor", "fetch"} /\ poll'[p].todo \subseteq known
        BY <2>8 DEF Match, Types, PollState
      <3> QED BY <2>2, <2>8, <3>1 DEF Match, localVars, Forward
    <2>9. ASSUME NEW C \in SUBSET Ids, Fetch(p, C) PROVE Forward'
      <3>1. /\ poll[p].pc = "fetch" /\ C \subseteq poll[p].todo
            /\ poll'[p].pc = "apply" /\ poll'[p].chunk = C /\ poll'[p].todo \subseteq poll[p].todo
            /\ \A r \in Ids : poll'[p].rows[r] = sf[r].value
            /\ UNCHANGED local
        BY <2>9 DEF Fetch, Types, PollState, localVars
      <3>2. C \subseteq known /\ C \subseteq Ids /\ \A r \in Ids : sf[r].value \in Nat
        BY <3>1 DEF Forward, Types
      <3> QED BY <2>2, <3>1, <3>2 DEF Forward
    <2>10. ASSUME NEW r \in Ids, Apply(p, r) PROVE Forward'
      <3>1. /\ poll[p].pc = "apply" /\ r \in poll[p].chunk
            /\ poll'[p].chunk = poll[p].chunk \ {r} /\ poll'[p].todo = poll[p].todo
            /\ poll'[p].rows = poll[p].rows
        BY <2>10 DEF Apply, Types, PollState
      <3>2. \A q \in Ids : local'[q] = IF q = r THEN poll[p].rows[r] ELSE local[q]
        BY <2>10 DEF Apply, Types
      <3>3. poll[p].chunk \subseteq Ids
        BY DEF Types, PollState
      <3> QED BY <2>2, <3>1, <3>2, <3>3 DEF Forward
    <2>11. CASE Ask(p)
      BY <2>3, <2>11 DEF Ask, Types, PollState
    <2>12. CASE MoveCursor(p) \/ PollCrash(p)
      BY <2>3, <2>12 DEF MoveCursor, PollCrash, Ended, IdlePoll, Types, localVars
    <2> QED BY <1>4, <2>5, <2>6, <2>7, <2>8, <2>9, <2>10, <2>11, <2>12 DEF Poll
  <1>5. CASE UNCHANGED pollVars
    BY <1>5 DEF pollVars, remoteVars, localVars, importVars, historyVars, Forward
  <1> QED BY <1>1, <1>2, <1>3, <1>4, <1>5 DEF PollNext

(* No step of the poll puts an older value of Salesforce over a newer one    *)
(* (NeverBackwards), for any chunk size, crash or import, while the polls of *)
(* the organisation do not overlap.                                          *)
THEOREM PollGoesForward == ASSUME OnePoll PROVE PollSpec => NeverBackwards
  <1>1. PollInit => Forward
    BY DEF PollInit, Forward, IdlePoll, NotFetched
  <1>2. Inv /\ Forward /\ [PollNext]_pollVars => [\A r \in known : local[r] <= local'[r]]_pollVars
    <2> SUFFICES ASSUME Inv, Forward, PollNext, NEW r \in known PROVE local[r] <= local'[r]
      OBVIOUS
    <2>1. Types /\ r \in Ids /\ local[r] \in Nat
      BY DEF Inv, Types
    <2>2. CASE UNCHANGED local
      BY <2>1, <2>2
    <2>3. ASSUME NEW q \in Ids, ImportInsert(q) PROVE local'[r] = local[r]
      BY <2>1, <2>3 DEF ImportInsert, Inserted, Types
    <2>4. ASSUME NEW p \in Pollers, NEW q \in Ids, Apply(p, q) PROVE local[r] <= local'[r]
      BY <2>1, <2>4 DEF Apply, Forward, Types
    <2>5. \/ UNCHANGED local
          \/ \E q \in Ids : ImportInsert(q)
          \/ \E p \in Pollers, q \in Ids : Apply(p, q)
      BY DEF PollNext, Poll, Change, ImportFetch, PollCrash, FirstPoll, ReadCursor, Probe, Match, Fetch, Ask,
             MoveCursor, localVars
    <2> QED BY <2>1, <2>2, <2>3, <2>4, <2>5
  <1>3. Inv /\ Forward /\ [PollNext]_pollVars => Forward'
    BY StepForward DEF Inv
  <1> QED BY <1>1, <1>2, <1>3, Invariance, PTL DEF PollSpec, NeverBackwards

-----------------------------------------------------------------------------
LEMMA StepQuiescent == Types /\ Quiescent /\ [PollNext]_pollVars => Quiescent'
  <1> SUFFICES ASSUME Types, Quiescent, [PollNext]_pollVars PROVE Quiescent'
    OBVIOUS
  <1>1. CASE UNCHANGED <<imports, importing>>
    BY <1>1 DEF Quiescent
  <1>2. ASSUME NEW r \in Ids, ImportFetch(r) PROVE imports' # 0
    BY <1>2 DEF ImportFetch, Types
  <1>3. ASSUME NEW r \in Ids, ImportInsert(r) PROVE Quiescent'
    BY <1>3 DEF ImportInsert, Quiescent
  <1> QED BY <1>1, <1>2, <1>3 DEF Quiescent, PollNext, Poll, PollCrash, FirstPoll, ReadCursor, Probe, Match, Fetch,
                                  Apply, Ask, MoveCursor, Change, pollVars, importVars, historyVars

LEMMA StepStarted == Types /\ Started /\ [PollNext]_pollVars => Started'
  <1> SUFFICES ASSUME Types, Started, [PollNext]_pollVars, NEW p \in Pollers, poll'[p].pc # "idle"
               PROVE  syncCursor'.set
    BY DEF Started
  <1>1. CASE UNCHANGED <<syncCursor, poll>>
    BY <1>1 DEF Started
  <1>2. ASSUME NEW q \in Pollers, Poll(q) \/ PollCrash(q) PROVE syncCursor'.set
    <2>1. CASE p # q
      <3>1. syncCursor.set
        BY <1>2, <2>1, OnlyItself DEF Started
      <3>2. FirstPoll(q) \/ MoveCursor(q) => syncCursor'.set
        BY DEF FirstPoll, MoveCursor
      <3>3. FirstPoll(q) \/ MoveCursor(q) \/ UNCHANGED syncCursor
        BY <1>2 DEF Poll, PollCrash, ReadCursor, Probe, Match, Fetch, Apply, Ask, cursorVars
      <3> QED BY <3>1, <3>2, <3>3
    <2>2. CASE p = q
      <3>1. FirstPoll(p) \/ MoveCursor(p) => syncCursor'.set
        BY DEF FirstPoll, MoveCursor
      <3>2. ReadCursor(p) => syncCursor'.set
        BY DEF ReadCursor, cursorVars
      <3>3. CASE poll[p].pc # "idle" /\ UNCHANGED syncCursor
        BY <3>3 DEF Started
      <3> QED BY <1>2, <2>2, <3>1, <3>2, <3>3
              DEF Poll, PollCrash, FirstPoll, ReadCursor, Probe, Match, Fetch, Apply, Ask, MoveCursor, cursorVars
    <2> QED BY <2>1, <2>2
  <1> QED BY <1>1, <1>2 DEF PollNext, Change, ImportFetch, ImportInsert, pollVars, cursorVars

LEMMA StepHeld == Types /\ Seen /\ [PollNext]_pollVars => Seen'
  <1> SUFFICES ASSUME Types, Seen, [PollNext]_pollVars, NEW p \in Pollers, NEW r \in Ids
               PROVE  poll'[p].rows[r] <= sf'[r].value
    BY DEF Seen
  <1>1. poll[p].rows[r] \in Nat /\ sf[r].value \in Nat /\ poll[p].rows[r] <= sf[r].value
    BY DEF Seen, Types, PollState
  <1>2. CASE UNCHANGED <<sf, poll>>
    BY <1>1, <1>2
  <1>3. ASSUME NEW x \in Ids, NEW t \in 0..MaxChanges, Change(x, t) PROVE poll'[p].rows[r] <= sf'[r].value
    <2>1. sf'[r].value \in {sf[r].value, sf[r].value + 1} /\ UNCHANGED poll
      BY <1>3 DEF Change, Types
    <2> QED BY <1>1, <2>1
  <1>4. ASSUME NEW q \in Pollers, Poll(q) \/ PollCrash(q) PROVE poll'[p].rows[r] <= sf'[r].value
    <2>1. UNCHANGED sf
      BY <1>4 DEF Poll, PollCrash, FirstPoll, ReadCursor, Probe, Match, Fetch, Apply, Ask, MoveCursor, remoteVars
    <2>2. CASE p # q
      BY <1>1, <1>4, <2>1, <2>2, OnlyItself
    <2>3. CASE p = q
      <3>1. IdlePoll.rows[r] = 0
        BY DEF IdlePoll
      <3>2. ReadCursor(p) \/ MoveCursor(p) \/ PollCrash(p) => poll'[p].rows = IdlePoll.rows
        BY DEF ReadCursor, MoveCursor, PollCrash, Ended, Types, IdlePoll
      <3>3. ASSUME NEW S \in SUBSET Ids, Probe(p, S) PROVE poll'[p].rows \in {IdlePoll.rows, poll[p].rows}
        BY <3>3 DEF Probe, Types, PollState
      <3>4. FirstPoll(p) \/ Match(p) \/ Ask(p) => poll'[p].rows = poll[p].rows
        BY DEF FirstPoll, Match, Ask, Types, PollState
      <3>5. ASSUME NEW S \in SUBSET Ids, Fetch(p, S) PROVE poll'[p].rows[r] = sf[r].value
        BY <3>5 DEF Fetch, Types, PollState
      <3>6. ASSUME NEW x \in Ids, Apply(p, x) PROVE poll'[p].rows = poll[p].rows
        BY <3>6 DEF Apply, Types, PollState
      <3> QED BY <1>1, <1>4, <2>1, <2>3, <3>1, <3>2, <3>3, <3>4, <3>5, <3>6 DEF Poll
    <2> QED BY <2>2, <2>3
  <1> QED BY <1>2, <1>3, <1>4 DEF PollNext, ImportFetch, ImportInsert, pollVars, remoteVars

(* What a probe leaves out up to the newest stamp it takes has that stamp.   *)
LEMMA ProbeTakesTheOldest ==
    ASSUME Types, Clocked, NEW S \in SUBSET Ids, NEW from \in Nat, IsProbe(S, from), S # {},
           NEW r \in Ids, Between(r, from, NewestOf(S)), r \notin S
    PROVE  r \in LeftOut(S, from)
  <1>1. r \in Past(from) \ S
    BY DEF Between, Past
  <1>2. PICK q \in S : sf[q].stamp = NewestOf(S)
    BY NewestIsNewest
  <1>3. sf[q].stamp <= sf[r].stamp
    BY <1>1 DEF IsProbe, Oldest
  <1>4. sf[q].stamp \in Nat /\ sf[r].stamp \in Nat /\ sf[r].stamp <= sf[q].stamp
    BY <1>2 DEF Types, Between
  <1>5. sf[q].stamp = sf[r].stamp
    BY <1>3, <1>4
  <1> QED BY <1>1, <1>5 DEF LeftOut

(* A change is newer than the cursor and what any poll has probed, or has a  *)
(* stamp they have reached, and is then behind them from the start.          *)
LEMMA ChangeCovers ==
    ASSUME Types, Clocked, AllCovered, NEW r \in Ids, NEW t \in 0..MaxChanges, Change(r, t)
    PROVE  AllCovered'
  <1>1. /\ UNCHANGED <<known, local, syncCursor, since, poll, imports>>
        /\ t \in {clock, clock + 1} /\ t \in Nat
        /\ \A q \in Ids : q # r => sf'[q] = sf[q] /\ (q \in passed' <=> q \in passed)
                                   /\ (q \in reverted' <=> q \in reverted)
        /\ sf'[r].stamp = t
        /\ Reached(t) => r \in passed'
    BY DEF Change, Types, localVars, cursorVars, importVars
  <1>2. known \subseteq Ids
    BY DEF Types
  <1>3. ASSUME NEW q \in known, q # r PROVE Fine(q)' <=> Fine(q)
    BY <1>1, <1>2, <1>3 DEF Fine
  <1>4. Reached(t) => Fine(r)'
    BY <1>1 DEF Fine
  <1>5. ASSUME NEW high \in Nat, NEW low \in Nat, low < sf'[r].stamp, sf'[r].stamp <= high,
               high = syncCursor.at \/ \E p \in Pollers : high = poll[p].from \/ high = poll[p].newest
        PROVE  Fine(r)'
    BY <1>1, <1>4, <1>5 DEF Reached
  <1>6. since \in Nat /\ syncCursor.at \in Nat /\ \A p \in Pollers : poll[p].from \in Nat /\ poll[p].newest \in Nat
    BY DEF Types, PollState
  <1>7. ASSUME NEW q \in known, Between(q, since, syncCursor.at)' PROVE Fine(q)'
    <2>1. CASE q = r
      BY <1>1, <1>5, <1>6, <1>7, <2>1 DEF Between
    <2>2. CASE q # r
      BY <1>1, <1>2, <1>3, <1>7, <2>2 DEF Between, AllCovered
    <2> QED BY <2>1, <2>2
  <1>8. ASSUME NEW p \in Pollers, NEW q \in known, Between(q, since, poll[p].from)' PROVE Fine(q)'
    <2>1. CASE q = r
      BY <1>1, <1>5, <1>6, <1>8, <2>1 DEF Between
    <2>2. CASE q # r
      BY <1>1, <1>2, <1>3, <1>8, <2>2 DEF Between, AllCovered
    <2> QED BY <2>1, <2>2
  <1>9. ASSUME NEW p \in Pollers, NEW q \in known, Between(q, poll[p].from, poll[p].newest)'
        PROVE  Covered(poll[p], q)'
    <2>1. CASE q = r
      <3>1. Fine(q)'
        BY <1>1, <1>5, <1>6, <1>9, <2>1 DEF Between
      <3> QED BY <3>1 DEF Covered
    <2>2. CASE q # r
      <3>1. Covered(poll[p], q)
        BY <1>1, <1>2, <1>9, <2>2 DEF Between, AllCovered
      <3>2. sf'[q] = sf[q] /\ (Fine(q) => Fine(q)')
        BY <1>1, <1>2, <1>3, <2>2
      <3> QED BY <1>1, <3>1, <3>2 DEF Covered
    <2> QED BY <2>1, <2>2
  <1> QED BY <1>1, <1>7, <1>8, <1>9 DEF AllCovered

(* A poll that leaves the cursor alone, and what was fine fine, goes on      *)
(* covering what it must, and disturbs no other.                             *)
LEMMA PollCovers ==
    ASSUME AllCovered, NEW p \in Pollers, \A q \in Pollers : q # p => poll'[q] = poll[q],
           UNCHANGED <<sf, known, syncCursor, since>>,
           \A r \in known : Fine(r) => Fine(r)',
           \A r \in known : Between(r, since, poll[p].from)' => Fine(r)',
           \A r \in known : Between(r, poll[p].from, poll[p].newest)' => Covered(poll[p], r)'
    PROVE  AllCovered'
  <1>1. \A r \in known : Between(r, since, syncCursor.at)' => Fine(r)'
    BY DEF AllCovered, Between
  <1>2. ASSUME NEW q \in Pollers, q # p, NEW r \in known
        PROVE  /\ Between(r, since, poll[q].from)' => Fine(r)'
               /\ Between(r, poll[q].from, poll[q].newest)' => Covered(poll[q], r)'
    <2>1. /\ Between(r, since, poll[q].from)' => Fine(r)
          /\ Between(r, poll[q].from, poll[q].newest)' => Covered(poll[q], r)
      BY <1>2 DEF AllCovered, Between
    <2>2. Covered(poll[q], r) => Covered(poll[q], r)'
      BY <1>2 DEF Covered
    <2> QED BY <2>1, <2>2
  <1> QED BY <1>1, <1>2 DEF AllCovered

LEMMA StepCovers ==
    Types /\ Clocked /\ Seen /\ Quiescent /\ Started /\ Covers /\ [PollNext]_pollVars => Covers'
  <1> SUFFICES ASSUME Types, Clocked, Seen, Quiescent, Started, Covers, [PollNext]_pollVars,
                      syncCursor'.set /\ imports' = 0
               PROVE  AllCovered'
    BY DEF Covers
  <1>1. ASSUME NEW r \in Ids, NEW t \in 0..MaxChanges, Change(r, t) PROVE AllCovered'
    <2>1. AllCovered
      BY <1>1 DEF Change, Covers, cursorVars, importVars
    <2> QED BY <1>1, <2>1, ChangeCovers
  <1>2. ASSUME NEW r \in Ids, ImportFetch(r) \/ ImportInsert(r) PROVE FALSE
    BY <1>2 DEF ImportFetch, ImportInsert, Quiescent, Types
  <1>3. CASE UNCHANGED pollVars
    BY <1>3 DEF pollVars, remoteVars, localVars, cursorVars, importVars, historyVars, Covers, AllCovered,
                Covered, Between, Fine
  <1>4. ASSUME NEW p \in Pollers, Poll(p) \/ PollCrash(p) PROVE AllCovered'
    <2> DEFINE q == poll[p]
    <2>1. \A other \in Pollers : other # p => poll'[other] = poll[other]
      BY <1>4, OnlyItself
    <2>2. q \in PollState /\ known \subseteq Ids /\ UNCHANGED <<sf, clock, known, imports>>
      BY <1>4 DEF Types, Poll, PollCrash, FirstPoll, ReadCursor, Probe, Match, Fetch, Apply, Ask, MoveCursor,
                  remoteVars, localVars, importVars
    <2>3. \A r \in Ids : sf[r].stamp \in Nat /\ sf[r].value \in Nat /\ local[r] \in Nat
      BY DEF Types
    <2>4. CASE FirstPoll(p)
      <3>1. /\ syncCursor' = [set |-> TRUE, at |-> clock] /\ since' = clock /\ poll' = poll
            /\ UNCHANGED <<local, passed, reverted>>
            /\ \A other \in Pollers : poll[other].pc = "idle" /\ poll[other].from <= clock
        BY <2>4 DEF FirstPoll, Started, Clocked, localVars, historyVars
      <3>2. \A r \in known : sf[r].stamp <= clock /\ sf[r].stamp \in Nat
        BY <2>2, <2>3 DEF Clocked
      <3>3. clock \in Nat
        BY DEF Types
      <3>4. \A r \in known : ~(clock < sf'[r].stamp)
        BY <2>2, <3>2, <3>3
      <3>5. \A r \in known : ~Between(r, since, syncCursor.at)'
        BY <2>2, <3>1, <3>4 DEF Between
      <3>6. \A other \in Pollers, r \in known : ~Between(r, since, poll[other].from)'
        BY <2>2, <3>1, <3>4 DEF Between
      <3>7. \A other \in Pollers, r \in known : Covered(poll[other], r)'
        BY <3>1 DEF Covered
      <3> QED BY <2>2, <3>5, <3>6, <3>7 DEF AllCovered
    <2>5. AllCovered \/ FirstPoll(p)
      <3>1. CASE syncCursor.set
        BY <2>2, <3>1 DEF Covers
      <3>2. CASE ~syncCursor.set
        <4>1. q.pc = "idle"
          BY <3>2 DEF Started
        <4> QED BY <1>4, <3>2, <4>1 DEF Poll, PollCrash, ReadCursor, Probe, Match, Fetch, Apply, Ask, MoveCursor
      <3> QED BY <3>1, <3>2
    <2> SUFFICES ASSUME AllCovered PROVE AllCovered'
      BY <2>4, <2>5
    <2>6. ASSUME UNCHANGED <<syncCursor, since, local>>, passed \subseteq passed', UNCHANGED reverted,
                 poll'[p].pc \in {"idle", "probe"}, poll'[p].from \in {0, syncCursor.at}
          PROVE  AllCovered'
      <3>1. \A r \in known : Fine(r) => Fine(r)'
        BY <2>2, <2>6 DEF Fine
      <3>2. ASSUME NEW r \in known, Between(r, since, poll[p].from)' PROVE Fine(r)'
        <4>1. poll'[p].from = syncCursor.at
          BY <2>2, <2>3, <2>6, <3>2 DEF Between, Types
        <4> QED BY <2>2, <2>6, <3>1, <3>2, <4>1 DEF Between, AllCovered
      <3> QED BY <2>1, <2>2, <2>6, <3>1, <3>2, PollCovers DEF Covered
    <2>7. CASE ReadCursor(p)
      <3>1. poll'[p].pc = "probe" /\ poll'[p].from = syncCursor.at
        BY <2>7 DEF ReadCursor, Types, IdlePoll
      <3> QED BY <2>6, <2>7, <3>1 DEF ReadCursor, cursorVars, localVars, historyVars
    <2>8. CASE MoveCursor(p)
      <3>1. /\ q.pc = "cursor" /\ poll'[p].pc = "idle" /\ poll'[p].from = 0 /\ poll'[p].newest = 0
            /\ syncCursor'.at = q.newest /\ UNCHANGED <<since, local, passed, reverted>>
        BY <2>8 DEF MoveCursor, ProbedPast, Ended, IdlePoll, Types, localVars, historyVars
      <3>2. \A r \in known : Fine(r)' <=> Fine(r)
        BY <2>2, <3>1 DEF Fine
      <3>3. ASSUME NEW r \in known, Between(r, since, syncCursor.at)' PROVE Fine(r)
        <4>1. /\ since < sf[r].stamp /\ sf[r].stamp <= q.newest
              /\ sf[r].stamp \in Nat /\ q.from \in Nat
          BY <2>2, <2>3, <3>1, <3>3 DEF Between, PollState
        <4>2. CASE sf[r].stamp <= q.from
          BY <4>1, <4>2 DEF AllCovered, Between
        <4>3. CASE q.from < sf[r].stamp
          BY <3>1, <4>1, <4>3 DEF AllCovered, Between, Covered
        <4> QED BY <4>1, <4>2, <4>3
      <3>4. ASSUME NEW other \in Pollers, NEW r \in known
            PROVE  /\ Between(r, since, poll[other].from)' => Fine(r)'
                   /\ Between(r, poll[other].from, poll[other].newest)' => Covered(poll[other], r)'
        <4>1. CASE other = p
          <5>1. ~(sf'[r].stamp <= 0 /\ since' < sf'[r].stamp)
            BY <2>2, <2>3, <3>1 DEF Types
          <5> QED BY <3>1, <4>1, <5>1 DEF Between, Covered
        <4>2. CASE other # p
          <5>1. poll'[other] = poll[other] /\ sf' = sf /\ since' = since
            BY <2>1, <2>2, <3>1, <4>2
          <5>2. Covered(poll[other], r) => Covered(poll[other], r)'
            BY <3>2, <5>1 DEF Covered
          <5> QED BY <3>2, <5>1, <5>2 DEF AllCovered, Between
        <4> QED BY <4>1, <4>2
      <3> QED BY <2>2, <3>2, <3>3, <3>4 DEF AllCovered
    <2>9. CASE PollCrash(p)
      BY <2>6, <2>9 DEF PollCrash, IdlePoll, Types, cursorVars, localVars, historyVars
    <2>10. ASSUME UNCHANGED <<syncCursor, since>>, poll'[p].from = q.from,
                  \A r \in known : Fine(r) => Fine(r)',
                  \A r \in known : Between(r, poll[p].from, poll[p].newest)' => Covered(poll[p], r)'
           PROVE  AllCovered'
      <3>1. \A r \in known : Between(r, since, poll[p].from)' => Fine(r)'
        BY <2>2, <2>10 DEF AllCovered, Between
      <3> QED BY <2>1, <2>2, <2>10, <3>1, PollCovers
    <2>11. ASSUME NEW S \in SUBSET Ids, Probe(p, S) PROVE AllCovered'
      <3>1. CASE S = {}
        BY <2>6, <2>11, <3>1 DEF Probe, Types, IdlePoll, cursorVars, localVars
      <3>2. CASE S # {}
        <4>1. /\ poll'[p].pc = "match" /\ poll'[p].probe = S
              /\ poll'[p].newest = NewestOf(S) /\ poll'[p].from = q.from
              /\ IsProbe(S, q.from) /\ q.from \in Nat
              /\ passed' = passed \cup LeftOut(S, q.from)
              /\ UNCHANGED <<syncCursor, since, local, reverted>>
          BY <2>2, <2>11, <3>2 DEF Probe, Types, PollState, cursorVars, localVars
        <4>2. \A r \in known : Fine(r) => Fine(r)'
          BY <2>2, <4>1 DEF Fine
        <4>3. ASSUME NEW r \in known, Between(r, poll[p].from, poll[p].newest)' PROVE r \in S \/ Fine(r)'
          <5>1. Between(r, q.from, NewestOf(S)) /\ r \in Ids
            BY <2>2, <4>1, <4>3 DEF Between
          <5>2. r \in S \/ r \in LeftOut(S, q.from)
            BY <3>2, <4>1, <5>1, ProbeTakesTheOldest
          <5> QED BY <4>1, <5>2 DEF Fine
        <4> QED BY <2>10, <4>1, <4>2, <4>3 DEF Covered
      <3> QED BY <3>1, <3>2
    <2>12. CASE Match(p)
      <3>1. /\ poll'[p].pc = (IF q.probe \cap known = {} THEN "cursor" ELSE "fetch")
            /\ poll'[p].todo = q.probe \cap known
            /\ poll'[p].from = q.from /\ poll'[p].newest = q.newest /\ q.pc = "match"
            /\ UNCHANGED <<syncCursor, since, local, passed, reverted>>
        BY <2>2, <2>12 DEF Match, Types, PollState, cursorVars, localVars, historyVars
      <3>2. \A r \in known : Fine(r)' <=> Fine(r)
        BY <2>2, <3>1 DEF Fine
      <3>3. ASSUME NEW r \in known, Between(r, poll[p].from, poll[p].newest)'
            PROVE  r \in q.probe \cap known \/ Fine(r)
        BY <2>2, <3>1, <3>3 DEF AllCovered, Covered, Between
      <3> QED BY <2>2, <2>10, <3>1, <3>2, <3>3 DEF Covered
    <2>13. ASSUME NEW C \in SUBSET Ids, Fetch(p, C) PROVE AllCovered'
      <3>1. /\ poll'[p].pc = "apply" /\ poll'[p].todo = q.todo \ C /\ poll'[p].chunk = C
            /\ \A r \in Ids : poll'[p].rows[r] = sf[r].value
            /\ poll'[p].from = q.from /\ poll'[p].newest = q.newest /\ q.pc = "fetch"
            /\ UNCHANGED <<syncCursor, since, local, passed, reverted>>
        BY <2>2, <2>13 DEF Fetch, Types, PollState, cursorVars, localVars, historyVars
      <3>2. \A r \in known : Fine(r)' <=> Fine(r)
        BY <2>2, <3>1 DEF Fine
      <3>3. ASSUME NEW r \in known, Between(r, poll[p].from, poll[p].newest)' PROVE Covered(poll[p], r)'
        <4>1. r \in q.todo \/ Fine(r)
          BY <2>2, <3>1, <3>3 DEF AllCovered, Covered, Between
        <4> QED BY <2>2, <3>1, <3>2, <4>1 DEF Covered
      <3> QED BY <2>10, <3>1, <3>2, <3>3
    <2>14. ASSUME NEW x \in Ids, Apply(p, x) PROVE AllCovered'
      <3>1. /\ poll'[p].todo = q.todo /\ poll'[p].chunk = q.chunk \ {x} /\ poll'[p].rows = q.rows
            /\ poll'[p].from = q.from /\ poll'[p].newest = q.newest /\ q.pc = "apply" /\ x \in q.chunk
            /\ \/ poll'[p].pc = "apply"
               \/ poll'[p].pc = "fetch" /\ q.chunk \ {x} = {}
               \/ poll'[p].pc \in {"ask", "cursor"} /\ q.chunk \ {x} = {} /\ q.todo = {}
            /\ UNCHANGED <<syncCursor, since>>
        BY <2>2, <2>14 DEF Apply, AfterApplying, Types, PollState, cursorVars
      <3>2. \A r \in Ids : local'[r] = IF r = x THEN q.rows[x] ELSE local[r]
        BY <2>14 DEF Apply, Types
      <3>3. /\ \A r \in Ids \ {x} : (r \in passed => r \in passed') /\ (r \in reverted => r \in reverted')
            /\ q.rows[x] # sf[x].value =>
                  /\ x \in passed => x \in passed'
                  /\ x \in reverted => x \in reverted'
                  /\ q.rows[x] < local[x] => x \in reverted'
        BY <2>14 DEF Apply
      <3>4. ASSUME NEW r \in known, Fine(r) PROVE Fine(r)'
        <4>1. CASE r # x
          BY <2>2, <3>2, <3>3, <3>4, <4>1 DEF Fine
        <4>2. CASE r = x /\ q.rows[x] = sf[x].value
          BY <2>2, <3>2, <4>2 DEF Fine
        <4>3. CASE r = x /\ q.rows[x] # sf[x].value
          <5>1. q.rows[x] < sf[x].value
            <6>1. q.rows[x] <= sf[x].value /\ q.rows[x] \in Nat /\ sf[x].value \in Nat
              BY <2>2, <2>3 DEF Seen, PollState
            <6> QED BY <4>3, <6>1
          <5> QED BY <3>3, <3>4, <4>3, <5>1 DEF Fine
        <4> QED BY <4>1, <4>2, <4>3
      <3>5. ASSUME NEW r \in known, Between(r, poll[p].from, poll[p].newest)' PROVE Covered(poll[p], r)'
        <4>1. r \in q.todo \/ Fine(r) \/ (r \in q.chunk /\ q.rows[r] = sf[r].value)
          BY <2>2, <3>1, <3>5 DEF AllCovered, Covered, Between
        <4>2. r = x /\ q.rows[r] = sf[r].value => Fine(r)'
          BY <2>2, <3>2 DEF Fine
        <4>3. r \in q.todo \/ Fine(r)' \/ (r \in q.chunk \ {x} /\ q.rows[r] = sf[r].value)
          BY <3>4, <4>1, <4>2
        <4> QED BY <2>2, <3>1, <4>3 DEF Covered
      <3> QED BY <2>10, <3>1, <3>4, <3>5
    <2>15. CASE Ask(p)
      <3>1. /\ poll'[p].pc = "cursor" /\ q.pc = "ask"
            /\ poll'[p].from = q.from /\ poll'[p].newest = q.newest
            /\ UNCHANGED <<syncCursor, since, local, passed, reverted>>
        BY <2>2, <2>15 DEF Ask, Types, PollState, cursorVars, historyVars
      <3>2. \A r \in known : Fine(r)' <=> Fine(r)
        BY <2>2, <3>1 DEF Fine
      <3>3. ASSUME NEW r \in known, Between(r, poll[p].from, poll[p].newest)' PROVE Fine(r)
        BY <2>2, <3>1, <3>3 DEF AllCovered, Covered, Between
      <3> QED BY <2>10, <3>1, <3>2, <3>3 DEF Covered
    <2> QED BY <1>4, <2>4, <2>7, <2>8, <2>9, <2>11, <2>12, <2>13, <2>14, <2>15 DEF Poll
  <1> QED BY <1>1, <1>2, <1>3, <1>4 DEF PollNext

(* No record here lags behind a change between where the cursor started and  *)
(* where it is, but for one that a probe left behind because its stamp       *)
(* equals that of the page's last record, or that another poll put an older  *)
(* value into (CursorCovers): whatever is paged, chunked, interrupted or     *)
(* changed meanwhile, and however many polls overlap.                        *)
THEOREM CursorIsSafe == PollSpec => []CursorCovers
  <1> DEFINE All == Seen /\ Quiescent /\ Started /\ Covers
  <1>1. PollInit => All
    <2> SUFFICES ASSUME PollInit PROVE All
      OBVIOUS
    <2>1. syncCursor.at = 0
      BY DEF PollInit, NoCursor
    <2>2. Seen /\ Quiescent /\ Started
      BY DEF PollInit, Seen, Quiescent, Started, IdlePoll, NotFetched
    <2>3. Covers
      BY <2>1, InitTypes DEF PollInit, Covers, AllCovered, Between, IdlePoll, Types
    <2> QED BY <2>2, <2>3
  <1>2. Inv /\ All /\ [PollNext]_pollVars => All'
    BY StepHeld, StepQuiescent, StepStarted, StepCovers DEF Inv
  <1>3. Inv /\ All => CursorCovers
    <2> SUFFICES ASSUME Inv, All, syncCursor.set /\ imports = 0, NEW r \in Lagging
                 PROVE  r \in passed \cup reverted
      BY DEF CursorCovers
    <2>1. /\ r \in known /\ local[r] # sf[r].value /\ sf[r].stamp \in (since + 1)..syncCursor.at
          /\ since \in Nat /\ syncCursor.at \in Nat
      BY DEF Lagging, Inv, Types
    <2> QED BY <2>1 DEF Covers, AllCovered, Between, Fine
  <1> QED BY <1>1, <1>2, <1>3, Invariance, PTL DEF PollSpec

-----------------------------------------------------------------------------
(* What is crawled comes from `next', what is collected from a query over    *)
(* the frontier: the frontier never leaves what was crawled.                 *)
CrawlInv ==
    /\ frontier \subseteq crawled
    /\ crawled \cup next \subseteq Records
    /\ collected \in [Objects -> SUBSET Records]
    /\ OnlyTheSubtree

(* A larger set of records has more records that point at it.                *)
LEMMA PointingAtMonotone ==
    ASSUME NEW e, NEW more, NEW ids \in SUBSET more
    PROVE  PointingAt(e, ids) \subseteq PointingAt(e, more)
  BY DEF PointingAt, In

LEMMA NeighboursMonotone ==
    ASSUME NEW more, NEW ids \in SUBSET more
    PROVE  Neighbours(ids) \subseteq Neighbours(more)
  BY DEF Neighbours

(* What the parent query of an object finds is pointed at by the frontier.   *)
LEMMA ParentsAreNeighbours ==
    ASSUME NEW o, NEW ids, NEW f \in ParentsOf(o, ids)
    PROVE  f[2] \in Neighbours(ids)
  <1>1. PICK e \in {d \in Edges : d.child = o} :
           f \in {<<Attributed(e, p), p>> : p \in UNION {lookup[r][e.field] : r \in In(o, ids)}}
    BY DEF ParentsOf
  <1>2. PICK p \in UNION {lookup[r][e.field] : r \in In(o, ids)} : f = <<Attributed(e, p), p>>
    BY <1>1
  <1>3. PICK r \in In(o, ids) : p \in lookup[r][e.field]
    BY <1>2
  <1>4. r \in ids /\ e.field \in Fields
    BY <1>1, <1>3 DEF In, Fields
  <1>5. p \in Neighbours(ids)
    BY <1>3, <1>4 DEF Neighbours
  <1> QED BY <1>2, <1>5

LEMMA InitCrawl == CrawlInit => CrawlInv
  <1> SUFFICES ASSUME CrawlInit PROVE CrawlInv
    OBVIOUS
  <1>1. frontier \subseteq crawled /\ crawled \cup next \subseteq Records
    BY RootsAssumption DEF CrawlInit
  <1>2. collected \in [Objects -> SUBSET Records] /\ \A o \in Objects : collected[o] \subseteq RootIds
    BY RootsAssumption DEF CrawlInit, In
  <1>3. OnlyTheSubtree
    BY <1>2 DEF CrawlInit, OnlyTheSubtree, Closed
  <1> QED BY <1>1, <1>2, <1>3 DEF CrawlInv

(* A query adds what it found, and nothing else, to what is collected.       *)
LEMMA CollectAdds ==
    ASSUME CrawlInv, NEW found, NEW new, Collect(found, new)
    PROVE  /\ collected' \in [Objects -> SUBSET Records]
           /\ new \subseteq found
           /\ \A o \in Objects : \A r \in collected'[o] : r \in collected[o] \/ <<o, r>> \in found
  BY DEF CrawlInv, Collect, With

LEMMA StepCrawl == CrawlInv /\ [CrawlNext]_crawlVars => CrawlInv'
  <1> SUFFICES ASSUME CrawlInv, [CrawlNext]_crawlVars PROVE CrawlInv'
    OBVIOUS
  <1>1. CASE UNCHANGED crawlVars
    BY <1>1 DEF crawlVars, CrawlInv, OnlyTheSubtree, Closed, PointingAt, Neighbours
  <1>2. ASSUME NEW e \in Edges, Children(e) PROVE CrawlInv'
    <2> DEFINE rows == PointingAt(e, frontier)
    <2>1. PICK new \in SUBSET ({e.child} \X rows) :
             Collect({e.child} \X rows, new) /\ next' = Added(new)
      BY <1>2 DEF Children
    <2>2. UNCHANGED <<lookup, frontier, crawled>>
      BY <1>2 DEF Children
    <2>3. rows \subseteq Records
      BY DEF PointingAt, In
    <2>4. next \subseteq next' /\ next' \subseteq next \cup rows
      BY <2>1 DEF Added
    <2>5. /\ collected' \in [Objects -> SUBSET Records]
          /\ \A o \in Objects : collected'[o] \subseteq collected[o] \cup next'
      <3>1. collected' = With(new)
        BY <2>1 DEF Collect
      <3>2. \A o \in Objects : \A r \in Records : <<o, r>> \in new => r \in Added(new)
        BY DEF Added
      <3>3. \A o \in Objects : With(new)[o] \subseteq collected[o] \cup Added(new)
        BY <3>2 DEF With
      <3>4. collected' \in [Objects -> SUBSET Records]
        BY <2>1, CollectAdds
      <3> QED BY <2>1, <3>1, <3>3, <3>4
    <2>6. ASSUME NEW ids \in SUBSET Records, Closed(ids)' PROVE crawled' \cup next' \subseteq ids
      <3>1. Closed(ids)
        BY <2>2, <2>6 DEF Closed, PointingAt
      <3>2. crawled \cup next \subseteq ids
        BY <3>1 DEF CrawlInv, OnlyTheSubtree
      <3>3. rows \subseteq ids
        BY <3>1, <3>2, PointingAtMonotone DEF CrawlInv, Closed
      <3> QED BY <2>2, <2>4, <3>2, <3>3
    <2>7. Neighbours(crawled)' = Neighbours(crawled)
      BY <2>2 DEF Neighbours
    <2> QED BY <2>2, <2>3, <2>4, <2>5, <2>6, <2>7 DEF CrawlInv, OnlyTheSubtree
  <1>3. ASSUME NEW o \in Objects, ParentQuery(o) PROVE CrawlInv'
    <2> DEFINE found == ParentsOf(o, frontier)
    <2>1. PICK new \in SUBSET found : Collect(found, new) /\ next' = Beyond(new)
      BY <1>3 DEF ParentQuery
    <2>2. UNCHANGED <<lookup, frontier, crawled, next>>
      BY <1>3, <2>1 DEF ParentQuery, Beyond
    <2>3. \A f \in found : f[2] \in Neighbours(crawled)
      BY ParentsAreNeighbours, NeighboursMonotone DEF CrawlInv
    <2>4. \A x \in Objects : collected'[x] \subseteq collected[x] \cup Neighbours(crawled)
      <3> SUFFICES ASSUME NEW x \in Objects, NEW r \in collected'[x]
                   PROVE  r \in collected[x] \cup Neighbours(crawled)
        OBVIOUS
      <3>1. r \in collected[x] \/ <<x, r>> \in found
        BY <2>1, CollectAdds
      <3>2. <<x, r>> \in found => r \in Neighbours(crawled)
        BY <2>3
      <3> QED BY <3>1, <3>2
    <2>5. \A ids \in SUBSET Records : Closed(ids)' => Closed(ids)
      BY <2>2 DEF Closed, PointingAt
    <2>6. Neighbours(crawled)' = Neighbours(crawled)
      BY <2>2 DEF Neighbours
    <2>7. collected' \in [Objects -> SUBSET Records]
      BY <2>1, CollectAdds
    <2> QED BY <2>2, <2>4, <2>5, <2>6, <2>7 DEF CrawlInv, OnlyTheSubtree
  <1>4. CASE NextRound
    <2>1. /\ UNCHANGED <<lookup, collected>> /\ frontier' = next /\ next' = {}
          /\ crawled' = crawled \cup next
      BY <1>4 DEF NextRound
    <2>2. Neighbours(crawled) \subseteq Neighbours(crawled)'
      BY <2>1 DEF Neighbours
    <2>3. \A ids \in SUBSET Records : Closed(ids)' => Closed(ids)
      BY <2>1 DEF Closed, PointingAt
    <2> QED BY <2>1, <2>2, <2>3 DEF CrawlInv, OnlyTheSubtree
  <1> QED BY <1>1, <1>2, <1>3, <1>4 DEF CrawlNext

(* A scoped import crawls descendants of its roots only, and imports no      *)
(* record but those and the ones they point at, for every graph of records.  *)
THEOREM CrawlStaysInSubtree == CrawlSpec => []OnlyTheSubtree
  <1>1. CrawlInv => OnlyTheSubtree
    BY DEF CrawlInv
  <1> QED BY <1>1, InitCrawl, StepCrawl, PTL DEF CrawlSpec

-----------------------------------------------------------------------------
(* What a crawl without failures has done so far: the queries of a round     *)
(* that were made cover the frontier too, the others what came before it.    *)
CrawledBy(q) == IF q \in todo THEN crawled \ frontier ELSE crawled
ChildrenDone(e, ids) ==
    /\ PointingAt(e, ids) \subseteq crawled \cup next \cup Neighbours(crawled)
    /\ PointingAt(e, ids) \subseteq collected[e.child]
ParentsDone(o, ids) == \A f \in ParentsOf(o, ids) : f[2] \in collected[f[1]]

Progress ==
    ~cut => /\ \A e \in Edges : ChildrenDone(e, CrawledBy(<<"children", e>>))
            /\ \A o \in Objects : ParentsDone(o, CrawledBy(<<"parents", o>>))

(* The queries of two sets of ids find what those of their union finds.      *)
LEMMA PointingAtUnion ==
    ASSUME NEW e, NEW some, NEW others, NEW ids, ids \subseteq some \cup others
    PROVE  PointingAt(e, ids) \subseteq PointingAt(e, some) \cup PointingAt(e, others)
  BY DEF PointingAt, In

LEMMA ParentsOfUnion ==
    ASSUME NEW o, NEW some, NEW others, NEW ids, ids \subseteq some \cup others,
           NEW f \in ParentsOf(o, ids)
    PROVE  f \in ParentsOf(o, some) \cup ParentsOf(o, others)
  <1>1. PICK e \in {d \in Edges : d.child = o} :
           f \in {<<Attributed(e, p), p>> : p \in UNION {lookup[r][e.field] : r \in In(o, ids)}}
    BY DEF ParentsOf
  <1>2. PICK p \in UNION {lookup[r][e.field] : r \in In(o, ids)} : f = <<Attributed(e, p), p>>
    BY <1>1
  <1>3. PICK r \in In(o, ids) : p \in lookup[r][e.field]
    BY <1>2
  <1>4. r \in In(o, some) \/ r \in In(o, others)
    BY <1>3 DEF In
  <1>5. \A set : r \in In(o, set) => f \in ParentsOf(o, set)
    <2> SUFFICES ASSUME NEW set, r \in In(o, set) PROVE f \in ParentsOf(o, set)
      OBVIOUS
    <2>1. p \in UNION {lookup[s][e.field] : s \in In(o, set)}
      BY <1>3
    <2>2. f \in {<<Attributed(e, x), x>> : x \in UNION {lookup[s][e.field] : s \in In(o, set)}}
      BY <1>2, <2>1
    <2> QED BY <2>2 DEF ParentsOf
  <1> QED BY <1>4, <1>5

LEMMA InitProgress == CrawlInit => Progress
  <1> SUFFICES ASSUME CrawlInit PROVE Progress
    OBVIOUS
  <1>1. \A q \in Queries : CrawledBy(q) = {}
    BY DEF CrawlInit, CrawledBy
  <1>2. \A e \in Edges : ChildrenDone(e, {})
    BY DEF ChildrenDone, PointingAt, In
  <1>3. \A o \in Objects : ParentsDone(o, {})
    BY DEF ParentsDone, ParentsOf, In
  <1>4. \A e \in Edges : <<"children", e>> \in Queries
    BY DEF Queries
  <1>5. \A o \in Objects : <<"parents", o>> \in Queries
    BY DEF Queries
  <1> QED BY <1>1, <1>2, <1>3, <1>4, <1>5 DEF Progress

(* A query that changes nothing but what is collected, next and itself keeps *)
(* what the other queries have done.                                         *)
LEMMA OthersKept ==
    ASSUME UNCHANGED <<lookup, prefixes, frontier, crawled>>, next \subseteq next',
           \A o \in Objects : collected[o] \subseteq collected'[o],
           NEW made, todo' = todo \ {made}
    PROVE  /\ \A e \in Edges : <<"children", e>> # made /\ ChildrenDone(e, CrawledBy(<<"children", e>>))
                  => ChildrenDone(e, CrawledBy(<<"children", e>>))'
           /\ \A o \in Objects : <<"parents", o>> # made /\ ParentsDone(o, CrawledBy(<<"parents", o>>))
                  => ParentsDone(o, CrawledBy(<<"parents", o>>))'
  <1>1. \A q : q # made => CrawledBy(q)' = CrawledBy(q)
    BY DEF CrawledBy
  <1>2. \A e, ids : PointingAt(e, ids)' = PointingAt(e, ids)
    BY DEF PointingAt
  <1>3. \A o, ids : ParentsOf(o, ids)' = ParentsOf(o, ids)
    BY DEF ParentsOf, Attributed
  <1>4. Neighbours(crawled)' = Neighbours(crawled)
    BY DEF Neighbours
  <1>5. ASSUME NEW e \in Edges, <<"children", e>> # made, ChildrenDone(e, CrawledBy(<<"children", e>>))
        PROVE  ChildrenDone(e, CrawledBy(<<"children", e>>))'
    <2>1. collected[e.child] \subseteq collected'[e.child]
      BY EdgesAssumption
    <2> QED BY <1>1, <1>2, <1>4, <1>5, <2>1 DEF ChildrenDone
  <1>6. ASSUME NEW o \in Objects, <<"parents", o>> # made, ParentsDone(o, CrawledBy(<<"parents", o>>))
        PROVE  ParentsDone(o, CrawledBy(<<"parents", o>>))'
    <2>1. \A f \in ParentsOf(o, CrawledBy(<<"parents", o>>)) : f[1] \in Objects
      BY EdgesAssumption DEF ParentsOf, Attributed
    <2> QED BY <1>1, <1>3, <1>6, <2>1 DEF ParentsDone
  <1> QED BY <1>5, <1>6

LEMMA StepProgress == CrawlInv /\ Progress /\ [CrawlNext]_crawlVars => Progress'
  <1> SUFFICES ASSUME CrawlInv, Progress, [CrawlNext]_crawlVars, ~cut' PROVE
           /\ \A e \in Edges : ChildrenDone(e, CrawledBy(<<"children", e>>))'
           /\ \A o \in Objects : ParentsDone(o, CrawledBy(<<"parents", o>>))'
    BY DEF Progress
  <1>1. CASE UNCHANGED crawlVars
    <2>1. UNCHANGED <<lookup, prefixes, frontier, crawled, next, collected, todo, cut>>
      BY <1>1 DEF crawlVars
    <2>2. ASSUME NEW e \in Edges PROVE ChildrenDone(e, CrawledBy(<<"children", e>>))'
      <3>1. ChildrenDone(e, CrawledBy(<<"children", e>>))
        BY <2>1 DEF Progress
      <3>2. CrawledBy(<<"children", e>>)' = CrawledBy(<<"children", e>>)
        BY <2>1 DEF CrawledBy
      <3>3. \A ids : PointingAt(e, ids)' = PointingAt(e, ids)
        BY <2>1 DEF PointingAt
      <3>4. Neighbours(crawled)' = Neighbours(crawled)
        BY <2>1 DEF Neighbours
      <3> QED BY <2>1, <3>1, <3>2, <3>3, <3>4 DEF ChildrenDone
    <2>3. ASSUME NEW o \in Objects PROVE ParentsDone(o, CrawledBy(<<"parents", o>>))'
      <3>1. ParentsDone(o, CrawledBy(<<"parents", o>>))
        BY <2>1 DEF Progress
      <3>2. CrawledBy(<<"parents", o>>)' = CrawledBy(<<"parents", o>>)
        BY <2>1 DEF CrawledBy
      <3>3. \A ids : ParentsOf(o, ids)' = ParentsOf(o, ids)
        BY <2>1 DEF ParentsOf, Attributed
      <3> QED BY <2>1, <3>1, <3>2, <3>3 DEF ParentsDone
    <2> QED BY <2>2, <2>3
  <1>2. ASSUME NEW e \in Edges, Children(e)
        PROVE  /\ \A d \in Edges : ChildrenDone(d, CrawledBy(<<"children", d>>))'
               /\ \A o \in Objects : ParentsDone(o, CrawledBy(<<"parents", o>>))'
    <2> DEFINE made == <<"children", e>>
               rows == PointingAt(e, frontier)
    <2>1. PICK new \in SUBSET ({e.child} \X rows) :
             Collect({e.child} \X rows, new) /\ next' = Added(new)
      BY <1>2 DEF Children
    <2>2. /\ UNCHANGED <<lookup, prefixes, frontier, crawled>> /\ todo' = todo \ {made}
          /\ made \in todo
      BY <1>2 DEF Children
    <2>3. next \subseteq next' /\ ~cut /\ \A o \in Objects : collected[o] \subseteq collected'[o]
      BY <2>1 DEF Added, Collect, With
    <2>4. rows \subseteq collected'[e.child]
      <3>1. \A r \in rows : <<e.child, r>>[2] \in With(new)[<<e.child, r>>[1]]
        BY <2>1 DEF Collect
      <3> QED BY <2>1, <3>1 DEF Collect
    <2>5. rows \subseteq crawled \cup next' \cup Neighbours(crawled)
      <3>1. \A r \in rows : r \in collected[e.child] \/ <<e.child, r>> \in new
        BY <2>1, <2>4, EdgesAssumption DEF Collect, With
      <3>2. \A r : <<e.child, r>> \in new => r \in next'
        BY <2>1 DEF Added
      <3>3. collected[e.child] \subseteq crawled \cup next \cup Neighbours(crawled)
        BY EdgesAssumption DEF CrawlInv, OnlyTheSubtree
      <3> QED BY <2>3, <3>1, <3>2, <3>3
    <2>6. ChildrenDone(e, crawled \ frontier)
      BY <2>2, <2>3 DEF Progress, CrawledBy
    <2>7. PointingAt(e, crawled) \subseteq PointingAt(e, crawled \ frontier) \cup rows
      BY PointingAtUnion
    <2>8. Neighbours(crawled)' = Neighbours(crawled) /\ PointingAt(e, crawled)' = PointingAt(e, crawled)
      BY <2>2 DEF Neighbours, PointingAt
    <2>9. ChildrenDone(e, CrawledBy(made))'
      <3>1. CrawledBy(made)' = crawled
        BY <2>2 DEF CrawledBy
      <3>2. collected[e.child] \subseteq collected'[e.child]
        BY <2>3, EdgesAssumption
      <3>3. PointingAt(e, CrawledBy(made))' = PointingAt(e, crawled)
        BY <2>2, <3>1 DEF PointingAt
      <3> QED BY <2>2, <2>3, <2>4, <2>5, <2>6, <2>7, <2>8, <3>2, <3>3 DEF ChildrenDone
    <2>10. \A o \in Objects : <<"parents", o>> # made
      OBVIOUS
    <2>11. \A d \in Edges : d # e => <<"children", d>> # made
      OBVIOUS
    <2> QED BY <2>2, <2>3, <2>9, <2>10, <2>11, OthersKept DEF Progress
  <1>3. ASSUME NEW o \in Objects, ParentQuery(o)
        PROVE  /\ \A e \in Edges : ChildrenDone(e, CrawledBy(<<"children", e>>))'
               /\ \A x \in Objects : ParentsDone(x, CrawledBy(<<"parents", x>>))'
    <2> DEFINE made == <<"parents", o>>
               found == ParentsOf(o, frontier)
    <2>1. PICK new \in SUBSET found : Collect(found, new) /\ next' = Beyond(new)
      BY <1>3 DEF ParentQuery
    <2>2. /\ UNCHANGED <<lookup, prefixes, frontier, crawled>> /\ todo' = todo \ {made}
          /\ made \in todo /\ next' = next
      BY <1>3, <2>1 DEF ParentQuery, Beyond
    <2>3. ~cut /\ \A x \in Objects : collected[x] \subseteq collected'[x]
      BY <2>1 DEF Collect, With
    <2>4. \A f \in found : f[2] \in collected'[f[1]]
      BY <2>1 DEF Collect
    <2>5. ParentsDone(o, crawled \ frontier)
      BY <2>2, <2>3 DEF Progress, CrawledBy
    <2>6. \A f \in ParentsOf(o, crawled) : f \in ParentsOf(o, crawled \ frontier) \cup found
      BY ParentsOfUnion
    <2>7. \A f \in ParentsOf(o, crawled) : f[1] \in Objects
      BY EdgesAssumption DEF ParentsOf, Attributed
    <2>8. ParentsOf(o, CrawledBy(made))' = ParentsOf(o, crawled)
      BY <2>2 DEF CrawledBy, ParentsOf, Attributed
    <2>9. ParentsDone(o, CrawledBy(made))'
      BY <2>3, <2>4, <2>5, <2>6, <2>7, <2>8 DEF ParentsDone
    <2>10. \A e \in Edges : <<"children", e>> # made
      OBVIOUS
    <2>11. \A x \in Objects : x # o => <<"parents", x>> # made
      OBVIOUS
    <2> QED BY <2>2, <2>3, <2>9, <2>10, <2>11, OthersKept DEF Progress
  <1>4. CASE NextRound
    <2>1. /\ UNCHANGED <<lookup, prefixes, collected, cut>> /\ frontier' = next /\ next' = {}
          /\ crawled' = crawled \cup next /\ todo = {} /\ todo' = Queries
      BY <1>4 DEF NextRound
    <2>2. \A q \in Queries : CrawledBy(q)' \subseteq crawled
      BY <2>1 DEF CrawledBy
    <2>3. Neighbours(crawled) \subseteq Neighbours(crawled)'
      BY <2>1 DEF Neighbours
    <2>4. ASSUME NEW e \in Edges PROVE ChildrenDone(e, CrawledBy(<<"children", e>>))'
      <3>1. ChildrenDone(e, crawled)
        BY <2>1 DEF Progress, CrawledBy
      <3>2. <<"children", e>> \in Queries
        BY DEF Queries
      <3>3. PointingAt(e, CrawledBy(<<"children", e>>))' \subseteq PointingAt(e, crawled)
        BY <2>1, <2>2, <3>2 DEF PointingAt, In
      <3> QED BY <2>1, <2>3, <3>1, <3>3 DEF ChildrenDone
    <2>5. ASSUME NEW o \in Objects PROVE ParentsDone(o, CrawledBy(<<"parents", o>>))'
      <3>1. ParentsDone(o, crawled)
        BY <2>1 DEF Progress, CrawledBy
      <3>2. <<"parents", o>> \in Queries
        BY DEF Queries
      <3> DEFINE ids == CrawledBy(<<"parents", o>>)'
      <3>3. ids \subseteq crawled
        BY <2>2, <3>2
      <3>4. ParentsOf(o, CrawledBy(<<"parents", o>>))' = ParentsOf(o, ids)
        BY <2>1 DEF ParentsOf, Attributed
      <3>5. \A f \in ParentsOf(o, ids) : f \in ParentsOf(o, crawled)
        <4> HIDE DEF ids
        <4>1. ids \subseteq crawled \cup crawled
          BY <3>3
        <4> QED BY <4>1, ParentsOfUnion
      <3> QED BY <2>1, <3>1, <3>4, <3>5 DEF ParentsDone
    <2> QED BY <2>4, <2>5
  <1> QED BY <1>1, <1>2, <1>3, <1>4 DEF CrawlNext

(* A crawl that runs to its end with every query answered and no object full *)
(* leaves out no descendant, but those it met as a parent, and no parent.    *)
THEOREM CrawlIsComplete == CrawlSpec => []WholeSubtree
  <1>1. CrawlInit => CrawlInv /\ Progress
    BY InitCrawl, InitProgress
  <1>2. CrawlInv /\ Progress /\ [CrawlNext]_crawlVars => (CrawlInv /\ Progress)'
    BY StepCrawl, StepProgress
  <1>3. Progress => WholeSubtree
    <2> SUFFICES ASSUME Progress, todo = {}, next = {}, ~cut PROVE WholeSubtree
      BY DEF WholeSubtree, CrawlEnded
    <2>1. \A q : CrawledBy(q) = crawled
      BY DEF CrawledBy
    <2>2. ASSUME NEW e \in Edges PROVE ChildrenDone(e, crawled)
      <3>1. ChildrenDone(e, CrawledBy(<<"children", e>>))
        BY DEF Progress
      <3>2. CrawledBy(<<"children", e>>) = crawled
        BY <2>1
      <3> QED BY <3>1, <3>2
    <2>3. ASSUME NEW o \in Objects PROVE ParentsDone(o, crawled)
      <3>1. ParentsDone(o, CrawledBy(<<"parents", o>>))
        BY DEF Progress
      <3>2. CrawledBy(<<"parents", o>>) = crawled
        BY <2>1
      <3> QED BY <3>1, <3>2
    <2>4. \A e \in Edges : /\ PointingAt(e, crawled) \subseteq crawled \cup Neighbours(crawled)
                           /\ PointingAt(e, crawled) \subseteq collected[e.child]
      BY <2>2 DEF ChildrenDone
    <2>5. \A o \in Objects : \A f \in ParentsOf(o, crawled) : f[2] \in collected[f[1]]
      BY <2>3 DEF ParentsDone
    <2> QED BY <2>4, <2>5 DEF WholeSubtree
  <1> QED BY <1>1, <1>2, <1>3, PTL DEF CrawlSpec
=============================================================================
