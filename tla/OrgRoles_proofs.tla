-------------------------- MODULE OrgRoles_proofs --------------------------
(***************************************************************************)
(* For any number of members, requests and custom roles, any time to live  *)
(* and any resolution time: which members can hold a role that does not    *)
(* exist, which cache entries can differ from the role's grant, how old a  *)
(* grant can be that is still served, and how the last owner can be lost.  *)
(***************************************************************************)
EXTENDS OrgRoles, TLAPS

GrantType == [org : SUBSET OrgActions, objects : Overrides]

RequestType ==
    [pc : InTx \cup Filling \cup {"idle", "resolve", "authed"}, who : Members, key : Keys,
     perms : GrantType, age : Nat, raced : BOOLEAN, absent : BOOLEAN,
     op : {"none", "create", "update", "object", "delete", "assign", "transfer"}, role : Keys,
     grant : GrantType, mem : Members, gone : BOOLEAN]

EntryType == [age : Nat, value : GrantType, raced : BOOLEAN, absent : BOOLEAN]

TypeOK ==
    /\ rows \in [DOMAIN rows -> GrantType]
    /\ System \subseteq DOMAIN rows /\ DOMAIN rows \subseteq Keys
    /\ member \in [Members -> Keys]
    /\ cache \in [DOMAIN cache -> EntryType] /\ DOMAIN cache \subseteq Keys
    /\ req \in [Requests -> RequestType]

Open(p, op) == req[p].pc \in InTx /\ req[p].op = op
Writing(p) ==
    /\ req[p].pc = "written" /\ req[p].op \in RowOps \cup {"create"}
    /\ ~(req[p].op \in {"object", "delete"} /\ req[p].gone)

(* An assignment in progress has read a row that only a crossing deletion    *)
(* takes away; a deletion in progress has counted members that only a        *)
(* crossing assignment adds to.                                              *)
RolesInv ==
    /\ AssignedRolesExist
    /\ \A p \in Requests : Open(p, "assign") => req[p].role \in DOMAIN rows \cup crossed
    /\ \A p \in Requests : Open(p, "delete") =>
          /\ req[p].role \notin System
          /\ req[p].role \notin crossed => \A m \in Members : member[m] # req[p].role
    /\ \A p, q \in Requests :
          Open(p, "assign") /\ Open(q, "delete") /\ req[p].role = req[q].role
              => req[p].role \in crossed

(* What has not raced an edit, in the cache or on its way into it, is the    *)
(* role's grant, and no edit of the role is about to commit.                 *)
Clean(k, e) ==
    ~e.raced => /\ ~Pending(k)
                /\ ~e.absent => k \in DOMAIN rows

(* A fill that has read both parts, and one that has read the row.           *)
Good(r) == r.perms # Resolve(r.key, rows) => r.raced \/ r.absent
Half(r) ==
    /\ ~r.absent
    /\ r.gone \/ r.perms.org # Resolve(r.key, rows).org => r.raced

CacheInv ==
    /\ StaleOnlyByRace
    /\ \A k \in DOMAIN cache : Clean(k, cache[k])
    /\ \A q \in Requests : req[q].pc \in Filling => Clean(req[q].key, req[q])
    /\ \A q \in Requests : req[q].pc = "read" => Good(req[q])
    /\ \A q \in Requests : req[q].pc = "overrides" => Half(req[q])
    /\ \A p, q \in Requests :
          Writing(p) /\ Writing(q) /\ req[p].role = req[q].role =>
              p = q \/ {req[p].op, req[q].op} = {"update", "object"}
    /\ \A p \in Requests : Writing(p) /\ req[p].op = "create" => req[p].role \notin DOMAIN rows

(* What tells a request that its role was deleted is for those that have     *)
(* found the role's row.                                                     *)
FreshInv == \A q \in Requests : req[q].pc = "resolve" => ~req[q].gone

Inv == TypeOK /\ RolesInv /\ FreshInv /\ CacheInv

-----------------------------------------------------------------------------
(* Resolving a role, and what an edit leaves of the rows, stays in type.     *)
LEMMA ResolveType ==
    ASSUME TypeOK, NEW k \in Keys
    PROVE  Resolve(k, rows) \in GrantType
  <1>1. Seed(k) \in SUBSET OrgActions
    BY DEF Seed, OrgActions
  <1>2. CASE k \in DOMAIN rows
    BY <1>1, <1>2 DEF TypeOK, Resolve, GrantType
  <1>3. CASE k \notin DOMAIN rows
    BY <1>1, <1>3, OverridesAssumption DEF Resolve, Static, GrantType
  <1> QED BY <1>2, <1>3

LEMMA StaticType == ASSUME NEW k PROVE Static(k) \in GrantType
  BY OverridesAssumption DEF Static, Seed, OrgActions, GrantType

LEMMA SeedType == \A k \in Keys : Seed(k) \in SUBSET OrgActions
  BY DEF Seed, OrgActions

LEMMA KeysAreStrings == System \subseteq Keys /\ \A k \in Customs : k \notin System
  BY RolesAssumption DEF Keys, System

LEMMA IdleType == Idle \in RequestType
  <1>1. Static("none") \in GrantType
    BY StaticType
  <1> QED BY <1>1, RolesAssumption DEF Idle, RequestType, Keys, System

LEMMA OverridesType ==
    ASSUME TypeOK, NEW q \in Requests
    PROVE  OverridesOf(req[q]) \in Overrides
  BY OverridesAssumption DEF TypeOK, OverridesOf, GrantType

(* A procedure starts with a request of its own and nothing else.            *)
LEMMA CheckType ==
    ASSUME TypeOK, NEW q \in Requests, NEW op, NEW needs, NEW k \in Keys, NEW from \in Keys,
           NEW g \in GrantType, NEW m \in Members,
           Begins(q, op, needs), Check(q, op, k, from, g, m)
    PROVE  req' \in [Requests -> RequestType]
  <1>1. op \in {"create", "update", "object", "delete", "assign", "transfer"} /\ req[q].who \in Members
    BY DEF Begins, RowOps, TypeOK, RequestType
  <1>2. [Idle EXCEPT !.pc = "checked", !.who = req[q].who, !.op = op, !.role = k, !.key = from,
                     !.grant = g, !.mem = m] \in RequestType
    BY <1>1, IdleType DEF RequestType, InTx
  <1> QED BY <1>2 DEF TypeOK, Check

LEMMA RowsType ==
    ASSUME TypeOK, RolesInv, NEW q \in Requests, req[q].pc = "written"
    PROVE  /\ RowsAfter(req[q]) \in [DOMAIN RowsAfter(req[q]) -> GrantType]
           /\ System \subseteq DOMAIN RowsAfter(req[q]) /\ DOMAIN RowsAfter(req[q]) \subseteq Keys
  <1> DEFINE r == req[q]
  <1>1. r \in RequestType
    BY DEF TypeOK
  <1>2. CASE r.op = "create"
    BY <1>1, <1>2 DEF RowsAfter, TypeOK, RequestType
  <1>3. CASE r.op = "delete" /\ ~r.gone
    BY <1>1, <1>3 DEF RowsAfter, TypeOK, RolesInv, Open, InTx
  <1>4. ASSUME NEW k \in DOMAIN rows, NEW g \in GrantType
        PROVE  [rows[k] EXCEPT !.org = g.org] \in GrantType /\ [rows[k] EXCEPT !.objects = g.objects] \in GrantType
    BY DEF TypeOK, GrantType
  <1>5. CASE r.op = "update"
    <2>1. RowsAfter(r) = [rows EXCEPT ![r.role] = [@ EXCEPT !.org = r.grant.org]]
      BY <1>5 DEF RowsAfter
    <2>2. r.grant \in GrantType
      BY <1>1 DEF RequestType
    <2>3. r.role \in DOMAIN rows => [rows[r.role] EXCEPT !.org = r.grant.org] \in GrantType
      BY <1>4, <2>2
    <2>4. ASSUME NEW g \in GrantType
          PROVE  [rows EXCEPT ![r.role] = g] \in [DOMAIN rows -> GrantType]
      BY DEF TypeOK
    <2>5. CASE r.role \in DOMAIN rows
      <3>1. RowsAfter(r) \in [DOMAIN rows -> GrantType]
        BY <2>1, <2>3, <2>4, <2>5
      <3> QED BY <3>1 DEF TypeOK
    <2>6. CASE r.role \notin DOMAIN rows
      <3>1. RowsAfter(r) = rows
        BY <2>1, <2>6 DEF TypeOK
      <3> QED BY <3>1 DEF TypeOK
    <2> QED BY <2>5, <2>6
  <1>6. CASE r.op = "object" /\ ~r.gone
    <2>1. RowsAfter(r) = [rows EXCEPT ![r.role] = [@ EXCEPT !.objects = r.grant.objects]]
      BY <1>6 DEF RowsAfter
    <2>2. r.grant \in GrantType
      BY <1>1 DEF RequestType
    <2>3. r.role \in DOMAIN rows => [rows[r.role] EXCEPT !.objects = r.grant.objects] \in GrantType
      BY <1>4, <2>2
    <2>4. ASSUME NEW g \in GrantType
          PROVE  [rows EXCEPT ![r.role] = g] \in [DOMAIN rows -> GrantType]
      BY DEF TypeOK
    <2>5. CASE r.role \in DOMAIN rows
      <3>1. RowsAfter(r) \in [DOMAIN rows -> GrantType]
        BY <2>1, <2>3, <2>4, <2>5
      <3> QED BY <3>1 DEF TypeOK
    <2>6. CASE r.role \notin DOMAIN rows
      <3>1. RowsAfter(r) = rows
        BY <2>1, <2>6 DEF TypeOK
      <3> QED BY <3>1 DEF TypeOK
    <2> QED BY <2>5, <2>6
  <1>7. CASE r.op \notin {"create", "update"} /\ ~(r.op = "delete" /\ ~r.gone) /\ ~(r.op = "object" /\ ~r.gone)
    BY <1>7 DEF RowsAfter, TypeOK
  <1> QED BY <1>2, <1>3, <1>5, <1>6, <1>7

LEMMA InitTypes == Init => TypeOK
  <1> SUFFICES ASSUME Init PROVE TypeOK
    OBVIOUS
  <1>1. PICK made \in SUBSET Customs, over \in Overrides :
           rows = [k \in System \cup made |->
                      IF k \in System THEN Static(k) ELSE [Static(k) EXCEPT !.objects = over]]
    BY DEF Init
  <1>2. /\ rows \in [DOMAIN rows -> GrantType]
        /\ System \subseteq DOMAIN rows /\ DOMAIN rows \subseteq Keys
    <2>1. \A k : Static(k) \in GrantType /\ [Static(k) EXCEPT !.objects = over] \in GrantType
      BY SeedType, StaticType DEF GrantType
    <2> QED BY <1>1, <2>1 DEF Keys
  <1>3. member \in [Members -> Keys]
    BY KeysAreStrings DEF Init
  <1>4. cache \in [DOMAIN cache -> EntryType] /\ DOMAIN cache \subseteq Keys
    BY DEF Init
  <1>5. req \in [Requests -> RequestType]
    BY IdleType DEF Init
  <1> QED BY <1>2, <1>3, <1>4, <1>5 DEF TypeOK

LEMMA TypesKept == TypeOK /\ RolesInv /\ [Next]_vars => TypeOK'
  <1> SUFFICES ASSUME TypeOK, RolesInv, [Next]_vars PROVE TypeOK'
    OBVIOUS
  <1> USE RolesAssumption
  <1>1. CASE UNCHANGED vars
    BY <1>1 DEF TypeOK, vars
  <1>2. CASE Tick
    <2>1. req' \in [Requests -> RequestType]
      <3>2. ASSUME NEW p \in Requests, NEW n \in Nat
            PROVE  [req[p] EXCEPT !.age = n] \in RequestType
        <4>1. req[p] \in RequestType
          BY DEF TypeOK
        <4> QED BY <4>1 DEF RequestType
      <3>3. ASSUME NEW p \in Requests
            PROVE  (IF req[p].pc \in Filling THEN req[p].age + 1 ELSE req[p].age) \in Nat
        BY DEF TypeOK, RequestType
      <3> QED BY <1>2, <3>2, <3>3 DEF Tick
    <2>2. cache' \in [DOMAIN cache' -> EntryType] /\ DOMAIN cache' \subseteq Keys
      <3>1. ASSUME NEW k \in DOMAIN cache PROVE [cache[k] EXCEPT !.age = @ + 1] \in EntryType
        <4>1. cache[k] \in EntryType
          BY DEF TypeOK
        <4> QED BY <4>1 DEF EntryType
      <3>2. DOMAIN cache' \subseteq DOMAIN cache
        BY <1>2 DEF Tick
      <3>3. cache' \in [DOMAIN cache' -> EntryType]
        BY <1>2, <3>1 DEF Tick
      <3> QED BY <3>2, <3>3 DEF TypeOK
    <2> QED BY <1>2, <2>1, <2>2 DEF Tick, TypeOK
  <1>3. CASE Restart
    BY <1>3, IdleType DEF Restart, TypeOK
  <1>4. ASSUME NEW q \in Requests, Handle(q) PROVE TypeOK'
    <2>0. req[q] \in RequestType
      BY DEF TypeOK
    <2>1. ASSUME NEW m \in Members, Arrive(q, m) PROVE TypeOK'
      <3>1. [Idle EXCEPT !.pc = "resolve", !.who = m, !.key = member[m]] \in RequestType
        BY IdleType DEF TypeOK, RequestType
      <3> QED BY <2>1, <3>1 DEF Arrive, TypeOK
    <2>2. CASE Hit(q)
      <3>1. req' \in [Requests -> RequestType]
        <4>1. cache[req[q].key].value \in GrantType
          <5>1. cache[req[q].key] \in EntryType
            BY <2>2 DEF Hit, TypeOK
          <5> QED BY <5>1 DEF EntryType
        <4>2. [req[q] EXCEPT !.pc = "authed", !.perms = cache[req[q].key].value] \in RequestType
          BY <2>0, <4>1 DEF RequestType
        <4> QED BY <2>2, <4>2 DEF Hit, TypeOK
      <3> QED BY <2>2, <3>1 DEF Hit, Served, TypeOK
    <2>3. CASE ReadRow(q) \/ ReadOverrides(q)
      <3> DEFINE k == req[q].key
      <3>1. ASSUME ReadRow(q) PROVE req' \in [Requests -> RequestType]
        <4>1. Resolve(k, rows).org \in SUBSET OrgActions
          BY <2>0, ResolveType DEF RequestType, GrantType
        <4>2. [Static(k) EXCEPT !.org = Resolve(k, rows).org] \in GrantType
          <5> HIDE DEF k
          <5> QED BY <4>1, StaticType DEF GrantType
        <4>3. Pending(k) \in BOOLEAN /\ (k \notin DOMAIN rows) \in BOOLEAN
          BY DEF Pending
        <4>4. ASSUME NEW c \in Filling, NEW v \in GrantType, NEW a \in BOOLEAN, NEW b \in BOOLEAN
              PROVE  [req[q] EXCEPT !.pc = c, !.perms = v, !.raced = a, !.absent = b] \in RequestType
          BY <2>0 DEF RequestType
        <4>5. (IF k \in DOMAIN rows THEN "overrides" ELSE "read") \in Filling
          BY DEF Filling
        <4> QED BY <3>1, <4>2, <4>3, <4>4, <4>5 DEF ReadRow, TypeOK
      <3>2. ASSUME ReadOverrides(q) PROVE req' \in [Requests -> RequestType]
        <4>1. ASSUME NEW v \in Overrides
              PROVE  [req[q] EXCEPT !.pc = "read", !.perms.objects = v, !.gone = FALSE] \in RequestType
          BY <2>0 DEF RequestType, GrantType, Filling
        <4> QED BY <3>2, <4>1, OverridesType DEF ReadOverrides, TypeOK
      <3> QED BY <2>3, <3>1, <3>2 DEF ReadRow, ReadOverrides, TypeOK
    <2>4. CASE Store(q)
      <3>1. req' \in [Requests -> RequestType]
        <4>1. [Idle EXCEPT !.pc = "authed", !.who = req[q].who, !.key = req[q].key,
                           !.perms = req[q].perms] \in RequestType
          BY <2>0, IdleType DEF RequestType
        <4> QED BY <2>4, <4>1 DEF Store, TypeOK
      <3>2. cache' \in [DOMAIN cache' -> EntryType] /\ DOMAIN cache' \subseteq Keys
        BY <2>0, <2>4 DEF Store, TypeOK, RequestType, EntryType
      <3> QED BY <2>4, <3>1, <3>2 DEF Store, TypeOK
    <2>5. ASSUME NEW k \in Keys, StartCreate(q, k) PROVE TypeOK'
      <3>1. PICK from \in {k} \cup DOMAIN rows :
               Check(q, "create", k, from,
                     [Static(k) EXCEPT !.org = IF from = k THEN {} ELSE rows[from].org], Founder)
        BY <2>5 DEF StartCreate
      <3>2. from \in Keys /\ (IF from = k THEN {} ELSE rows[from].org) \in SUBSET OrgActions
        BY <3>1 DEF TypeOK, GrantType
      <3>3. [Static(k) EXCEPT !.org = IF from = k THEN {} ELSE rows[from].org] \in GrantType
        BY <3>2, StaticType DEF GrantType
      <3>4. req' \in [Requests -> RequestType]
        BY <2>5, <3>1, <3>2, <3>3, CheckType DEF StartCreate
      <3> QED BY <2>5, <3>4 DEF StartCreate, TypeOK
    <2>6. ASSUME NEW k \in Keys, StartUpdate(q, k) \/ StartObject(q, k) PROVE TypeOK'
      <3>1. CASE StartUpdate(q, k)
        <4>1. PICK g \in Grants : Check(q, "update", k, k, [Static(k) EXCEPT !.org = g], Founder)
          BY <3>1 DEF StartUpdate
        <4>2. [Static(k) EXCEPT !.org = g] \in GrantType
          BY GrantsAssumption, StaticType DEF OrgActions, GrantType
        <4>3. req' \in [Requests -> RequestType]
          BY <3>1, <4>1, <4>2, CheckType DEF StartUpdate
        <4> QED BY <3>1, <4>3 DEF StartUpdate, TypeOK
      <3>2. CASE StartObject(q, k)
        <4>1. PICK v \in Overrides : Check(q, "object", k, k, [Static(k) EXCEPT !.objects = v], Founder)
          BY <3>2 DEF StartObject
        <4>2. [Static(k) EXCEPT !.objects = v] \in GrantType
          BY StaticType DEF GrantType
        <4>3. req' \in [Requests -> RequestType]
          BY <3>2, <4>1, <4>2, CheckType DEF StartObject
        <4> QED BY <3>2, <4>3 DEF StartObject, TypeOK
      <3> QED BY <2>6, <3>1, <3>2
    <2>7. ASSUME NEW k \in Keys, StartDelete(q, k) PROVE TypeOK'
      <3>1. req' \in [Requests -> RequestType]
        BY <2>7, CheckType, StaticType DEF StartDelete
      <3> QED BY <2>7, <3>1 DEF StartDelete, TypeOK
    <2>8. ASSUME NEW k \in Keys, NEW m \in Members, StartAssign(q, k, m) PROVE TypeOK'
      <3>1. req' \in [Requests -> RequestType]
        BY <2>8, CheckType, StaticType DEF StartAssign
      <3> QED BY <2>8, <3>1 DEF StartAssign, TypeOK
    <2>9. ASSUME NEW m \in Members, StartTransfer(q, m) PROVE TypeOK'
      <3>1. "owner" \in Keys
        BY DEF Keys, System
      <3>2. req' \in [Requests -> RequestType]
        BY <2>9, <3>1, CheckType, StaticType DEF StartTransfer
      <3> QED BY <2>9, <3>2 DEF StartTransfer, TypeOK
    <2>10. CASE Write(q)
      <3>1. req' \in [Requests -> RequestType]
        <4>1. Written(req[q]) \in RequestType
          <5>1. ClearsNothing(req[q]) \in BOOLEAN
            BY DEF ClearsNothing
          <5>2. ASSUME NEW b \in BOOLEAN, NEW v \in Overrides
                PROVE  [req[q] EXCEPT !.pc = "written", !.gone = b, !.grant.objects = v] \in RequestType
            BY <2>0 DEF RequestType, GrantType, InTx
          <5>3. (IF req[q].op = "create" THEN OverridesOf(req[q]) ELSE req[q].grant.objects) \in Overrides
            BY <2>0, OverridesType DEF RequestType, GrantType
          <5>4. (req[q].gone \/ ClearsNothing(req[q])) \in BOOLEAN
            OBVIOUS
          <5> QED BY <5>2, <5>3, <5>4 DEF Written
        <4>2. ASSUME NEW p \in Requests, NEW b \in BOOLEAN
              PROVE  [req[p] EXCEPT !.raced = b] \in RequestType
          BY DEF TypeOK, RequestType
        <4>3. ASSUME NEW p \in Requests
              PROVE  (req[p].raced \/ (req[p].pc \in Filling /\ req[q].op \in RowOps
                                          /\ req[p].key = req[q].role)) \in BOOLEAN
          BY DEF TypeOK, RequestType
        <4> QED BY <2>10, <4>1, <4>2, <4>3 DEF Write
      <3>2. cache' \in [DOMAIN cache' -> EntryType] /\ DOMAIN cache' \subseteq Keys
        BY <2>10 DEF Write, TypeOK
      <3> QED BY <2>10, <3>1, <3>2 DEF Write, TypeOK
    <2>11. CASE Commit(q)
      <3>1. req' \in [Requests -> RequestType]
        <4>1. Idle \in RequestType
          BY IdleType
        <4>2. ASSUME NEW p \in Requests, NEW b \in BOOLEAN
              PROVE  [req[p] EXCEPT !.gone = b] \in RequestType
          BY DEF TypeOK, RequestType
        <4>3. ASSUME NEW p \in Requests
              PROVE  (req[p].gone \/ (req[q].op = "delete" /\ ~req[q].gone /\ GoesBy(req[p], req[q].role)))
                         \in BOOLEAN
          BY DEF TypeOK, RequestType
        <4> QED BY <2>11, <4>1, <4>2, <4>3 DEF Commit
      <3>2. member' \in [Members -> Keys]
        BY <2>0, <2>11 DEF Commit, TypeOK, RequestType
      <3>3. /\ rows' \in [DOMAIN rows' -> GrantType]
            /\ System \subseteq DOMAIN rows' /\ DOMAIN rows' \subseteq Keys
        BY <2>11, RowsType DEF Commit
      <3> QED BY <2>11, <3>1, <3>2, <3>3 DEF Commit, TypeOK
    <2>12. CASE Transfer(q)
      <3>1. req' \in [Requests -> RequestType]
        <4>1. [req[q] EXCEPT !.pc = "promoted"] \in RequestType
          BY <2>0 DEF RequestType, InTx
        <4> QED BY <2>12, <4>1, IdleType DEF Transfer, TypeOK
      <3>2. member' \in [Members -> Keys]
        BY <2>0, <2>12 DEF Transfer, TransferStep, TypeOK, RequestType, Keys, System
      <3> QED BY <2>12, <3>1, <3>2 DEF Transfer, TypeOK
    <2>13. CASE End(q)
      BY <2>13, IdleType DEF End, TypeOK
    <2> QED BY <1>4, <2>1, <2>2, <2>3, <2>4, <2>5, <2>6, <2>7, <2>8, <2>9, <2>10, <2>11, <2>12, <2>13
        DEF Handle
  <1> QED BY <1>1, <1>2, <1>3, <1>4 DEF Next

-----------------------------------------------------------------------------
(* A step that leaves rows, members and history alone and begins neither an  *)
(* assignment nor a deletion.                                                *)
LEMMA QuietForRoles ==
    ASSUME RolesInv, UNCHANGED <<rows, member, crossed>>,
           \A p \in Requests : req'[p].pc \in InTx /\ req'[p].op \in {"assign", "delete"} =>
               req[p].pc \in InTx /\ req'[p].op = req[p].op /\ req'[p].role = req[p].role
    PROVE  RolesInv'
  BY DEF RolesInv, AssignedRolesExist, Open

LEMMA RolesInit == Init => RolesInv
  <1> SUFFICES ASSUME Init PROVE RolesInv
    OBVIOUS
  <1>1. System \subseteq DOMAIN rows /\ \A m \in Members : member[m] \in System
    BY DEF Init
  <1> QED BY <1>1 DEF Init, RolesInv, AssignedRolesExist, Open, Idle, InTx

LEMMA RolesAtCommit ==
    ASSUME TypeOK, RolesInv, NEW q \in Requests, Commit(q)
    PROVE  RolesInv'
  <1> DEFINE r == req[q]
  <1>0. /\ r \in RequestType /\ r.pc = "written" /\ rows' = RowsAfter(r) /\ UNCHANGED crossed
        /\ Open(q, r.op)
    BY DEF Commit, TypeOK, Open, InTx
  <1>1. \A p \in Requests : req'[p].pc \in InTx =>
            p # q /\ req[p].pc \in InTx /\ req'[p].op = req[p].op /\ req'[p].role = req[p].role
    BY DEF Commit, TypeOK, Idle, InTx, RequestType
  <1>2. CASE r.op = "assign"
    <2>1. UNCHANGED rows
      BY <1>0, <1>2 DEF RowsAfter
    <2>2. member' = [member EXCEPT ![r.mem] = r.role]
      BY <1>2 DEF Commit
    <2>3. \A m \in Members : member'[m] \in {member[m], r.role}
      BY <2>2 DEF TypeOK
    <2>4. r.role \in DOMAIN rows \cup crossed
      BY <1>0, <1>2 DEF RolesInv
    <2>5. \A p \in Requests : Open(p, "delete") /\ req[p].role = r.role => r.role \in crossed
      BY <1>0, <1>2 DEF RolesInv
    <2> QED BY <1>0, <1>1, <2>1, <2>3, <2>4, <2>5 DEF RolesInv, AssignedRolesExist, Open
  <1>3. CASE r.op # "assign"
    <2>1. UNCHANGED member
      BY <1>3 DEF Commit
    <2>2. CASE r.op = "delete"
      <3>1. DOMAIN rows' \in {DOMAIN rows, DOMAIN rows \ {r.role}}
        BY <1>0, <2>2 DEF RowsAfter
      <3>2. r.role \notin crossed => \A m \in Members : member[m] # r.role
        BY <1>0, <2>2 DEF RolesInv
      <3>3. \A p \in Requests : Open(p, "assign") /\ req[p].role = r.role => r.role \in crossed
        BY <1>0, <2>2 DEF RolesInv
      <3> QED BY <1>0, <1>1, <2>1, <3>1, <3>2, <3>3 DEF RolesInv, AssignedRolesExist, Open
    <2>3. CASE r.op # "delete"
      <3>1. DOMAIN rows \subseteq DOMAIN rows'
        BY <1>0, <2>3 DEF RowsAfter
      <3> QED BY <1>0, <1>1, <2>1, <3>1 DEF RolesInv, AssignedRolesExist, Open
    <2> QED BY <2>2, <2>3
  <1> QED BY <1>2, <1>3

LEMMA RolesKept == TypeOK /\ RolesInv /\ [Next]_vars => RolesInv'
  <1> SUFFICES ASSUME TypeOK, RolesInv, [Next]_vars PROVE RolesInv'
    OBVIOUS
  <1>1. CASE UNCHANGED vars
    BY <1>1, QuietForRoles DEF vars
  <1>2. CASE Tick
    BY <1>2, QuietForRoles DEF Tick, TypeOK, RequestType
  <1>3. CASE Restart
    BY <1>3, QuietForRoles DEF Restart, Idle, InTx
  <1>4. ASSUME NEW q \in Requests, Handle(q) PROVE RolesInv'
    <2>0. req \in [Requests -> RequestType]
      BY DEF TypeOK
    <2>1. CASE \/ \E m \in Members : Arrive(q, m) \/ StartTransfer(q, m)
               \/ Hit(q) \/ ReadRow(q) \/ ReadOverrides(q) \/ Store(q) \/ End(q)
               \/ \E k \in Keys : StartCreate(q, k) \/ StartUpdate(q, k) \/ StartObject(q, k)
      <3>1. UNCHANGED <<rows, member, crossed>>
        BY <2>1 DEF Arrive, StartTransfer, Hit, ReadRow, ReadOverrides, Store, End, StartCreate, StartUpdate, StartObject
      <3>2. req'[q].pc \in InTx => req'[q].op \notin {"assign", "delete"}
        <4>1. ASSUME NEW m \in Members, Arrive(q, m) PROVE req'[q].pc \notin InTx
          BY <2>0, <4>1 DEF Arrive, Idle, InTx
        <4>5. CASE Store(q)
          BY <2>0, <4>5 DEF Store, Idle, InTx
        <4>6. CASE End(q)
          BY <2>0, <4>6 DEF End, Idle, InTx
        <4>2. CASE Hit(q)
          BY <2>0, <4>2 DEF Hit, InTx
        <4>3. CASE ReadRow(q)
          BY <2>0, <4>3 DEF ReadRow, InTx
        <4>9. CASE ReadOverrides(q)
          BY <2>0, <4>9 DEF ReadOverrides, InTx
        <4>10. ASSUME NEW k \in Keys, StartObject(q, k) PROVE req'[q].op = "object"
          BY <2>0, <4>10 DEF StartObject, Check, Idle
        <4>4. ASSUME NEW m \in Members, StartTransfer(q, m) PROVE req'[q].op = "transfer"
          BY <2>0, <4>4 DEF StartTransfer, Check, Idle
        <4>7. ASSUME NEW k \in Keys, StartCreate(q, k) PROVE req'[q].op = "create"
          BY <2>0, <4>7 DEF StartCreate, Check, Idle
        <4>8. ASSUME NEW k \in Keys, StartUpdate(q, k) PROVE req'[q].op = "update"
          BY <2>0, <4>8 DEF StartUpdate, Check, Idle
        <4> QED BY <2>1, <4>1, <4>2, <4>3, <4>4, <4>5, <4>6, <4>7, <4>8, <4>9, <4>10
      <3>3. \A p \in Requests : p # q => req'[p] = req[p]
        BY <2>0, <2>1 DEF Arrive, StartTransfer, Hit, ReadRow, ReadOverrides, Store, End, StartCreate, StartUpdate, StartObject,
                          Check, Idle
      <3> QED BY <3>1, <3>2, <3>3, QuietForRoles
    <2>2. ASSUME NEW k \in Keys, StartDelete(q, k) PROVE RolesInv'
      <3>1. /\ UNCHANGED <<rows, member>> /\ k \notin System /\ \A m \in Members : member[m] # k
            /\ crossed' = IF Assigning(k) THEN crossed \cup {k} ELSE crossed
        BY <2>2 DEF StartDelete, InUse
      <3>2. /\ req'[q].pc = "checked" /\ req'[q].op = "delete" /\ req'[q].role = k
            /\ \A p \in Requests : p # q => req'[p] = req[p]
        BY <2>0, <2>2 DEF StartDelete, Check, Idle
      <3> QED BY <3>1, <3>2 DEF RolesInv, AssignedRolesExist, Open, Assigning, InTx
    <2>3. ASSUME NEW k \in Keys, NEW m \in Members, StartAssign(q, k, m) PROVE RolesInv'
      <3>1. /\ UNCHANGED <<rows, member>> /\ k \in DOMAIN rows
            /\ crossed' = IF Deleting(k) THEN crossed \cup {k} ELSE crossed
        BY <2>3 DEF StartAssign
      <3>2. /\ req'[q].pc = "checked" /\ req'[q].op = "assign" /\ req'[q].role = k
            /\ \A p \in Requests : p # q => req'[p] = req[p]
        BY <2>0, <2>3 DEF StartAssign, Check, Idle
      <3> QED BY <3>1, <3>2 DEF RolesInv, AssignedRolesExist, Open, Deleting, InTx
    <2>4. CASE Write(q)
      BY <2>0, <2>4, QuietForRoles DEF Write, Written, RequestType, InTx
    <2>5. CASE Commit(q)
      BY <2>5, RolesAtCommit
    <2>6. CASE Transfer(q)
      <3>1. UNCHANGED <<rows, crossed>>
            /\ \A m \in Members : member'[m] \in {member[m]} \cup System
        BY <2>0, <2>6 DEF Transfer, TransferStep, TypeOK, System
      <3>2. \A p \in Requests : req'[p].pc \in InTx => req[p].pc \in InTx
                /\ req'[p].op = req[p].op /\ req'[p].role = req[p].role
        BY <2>0, <2>6 DEF Transfer, Idle, InTx, RequestType
      <3>3. System \subseteq DOMAIN rows
        BY DEF TypeOK
      <3> QED BY <3>1, <3>2, <3>3 DEF RolesInv, AssignedRolesExist, Open
    <2> QED BY <1>4, <2>1, <2>2, <2>3, <2>4, <2>5, <2>6 DEF Handle
  <1> QED BY <1>1, <1>2, <1>3, <1>4 DEF Next

-----------------------------------------------------------------------------
SameFill(p) ==
    /\ req'[p].pc = req[p].pc /\ req'[p].key = req[p].key /\ req'[p].perms = req[p].perms
    /\ req'[p].raced = req[p].raced /\ req'[p].absent = req[p].absent /\ req'[p].gone = req[p].gone

(* A step that begins no write and no fill, leaves the rows alone and at     *)
(* most drops entries.                                                       *)
LEMMA QuietForCache ==
    ASSUME CacheInv, UNCHANGED rows,
           DOMAIN cache' \subseteq DOMAIN cache,
           \A k \in DOMAIN cache' : /\ cache'[k].value = cache[k].value
                                    /\ cache'[k].raced = cache[k].raced
                                    /\ cache'[k].absent = cache[k].absent,
           \A p \in Requests : req'[p].pc = "written" =>
               /\ req[p].pc = "written" /\ req'[p].op = req[p].op /\ req'[p].role = req[p].role
               /\ req'[p].gone = req[p].gone,
           \A p \in Requests : req'[p].pc \in Filling => SameFill(p)
    PROVE  CacheInv'
  <1>1. \A k : Pending(k)' => Pending(k)
    BY DEF Pending
  <1>2. \A k : Resolve(k, rows)' = Resolve(k, rows)
    BY DEF Resolve
  <1>3. \A p \in Requests : Writing(p)' => Writing(p) /\ req'[p].op = req[p].op /\ req'[p].role = req[p].role
    BY DEF Writing
  <1>4. StaleOnlyByRace'
    BY <1>2 DEF CacheInv, StaleOnlyByRace
  <1>5. \A k \in DOMAIN cache' : Clean(k, cache[k])'
    BY <1>1 DEF CacheInv, Clean
  <1>6. \A q \in Requests : req'[q].pc \in Filling => Clean(req[q].key, req[q])'
    BY <1>1 DEF CacheInv, Clean, SameFill
  <1>7. \A q \in Requests : req'[q].pc = "read" => Good(req[q])'
    BY DEF CacheInv, Good, Resolve, SameFill, Filling
  <1>8. \A q \in Requests : req'[q].pc = "overrides" => Half(req[q])'
    BY DEF CacheInv, Half, Resolve, SameFill, Filling
  <1>9. \A p, q \in Requests : Writing(p)' /\ Writing(q)' /\ req'[p].role = req'[q].role
            => p = q \/ {req'[p].op, req'[q].op} = {"update", "object"}
    BY <1>3 DEF CacheInv
  <1>10. \A p \in Requests : Writing(p)' /\ req'[p].op = "create" => req'[p].role \notin DOMAIN rows'
    BY <1>3 DEF CacheInv
  <1> QED BY <1>4, <1>5, <1>6, <1>7, <1>8, <1>9, <1>10 DEF CacheInv

LEMMA CacheInit == Init => CacheInv
  <1> SUFFICES ASSUME Init PROVE CacheInv
    OBVIOUS
  <1>1. DOMAIN cache = {} /\ \A p \in Requests : req[p].pc = "idle"
    BY DEF Init, Idle
  <1> QED BY <1>1 DEF CacheInv, StaleOnlyByRace, Writing, Filling

(* A step of a fill that leaves the rows, the cache and the other requests   *)
(* alone.                                                                    *)
LEMMA FillStep ==
    ASSUME CacheInv, NEW q \in Requests, UNCHANGED <<rows, cache>>,
           req[q].pc # "written", req'[q].pc \in Filling,
           \A p \in Requests : p # q => req'[p] = req[p],
           Clean(req'[q].key, req'[q]),
           req'[q].pc = "read" => Good(req[q])',
           req'[q].pc = "overrides" => Half(req[q])'
    PROVE  CacheInv'
  <1>1. req'[q].pc # "written"
    BY DEF Filling
  <1>2. \A k : Pending(k)' <=> Pending(k)
    BY <1>1 DEF Pending
  <1>3. \A p \in Requests : Writing(p)' => p # q /\ Writing(p)
    BY <1>1 DEF Writing
  <1>4. StaleOnlyByRace' /\ \A k \in DOMAIN cache' : Clean(k, cache[k])'
    BY <1>2 DEF CacheInv, StaleOnlyByRace, Clean, Resolve
  <1>5. Clean(req[q].key, req[q])'
    BY <1>2 DEF Clean
  <1>6. ASSUME NEW p \in Requests, p # q
        PROVE  /\ req'[p].pc \in Filling => Clean(req[p].key, req[p])'
               /\ req'[p].pc = "read" => Good(req[p])'
               /\ req'[p].pc = "overrides" => Half(req[p])'
    <2>1. req'[p] = req[p]
      BY <1>6
    <2>2. req'[p].pc \in Filling => Clean(req[p].key, req[p])'
      BY <1>2, <2>1 DEF CacheInv, Clean
    <2>3. req'[p].pc = "read" => Good(req[p])'
      BY <2>1 DEF CacheInv, Good, Resolve
    <2>4. req'[p].pc = "overrides" => Half(req[p])'
      BY <2>1 DEF CacheInv, Half, Resolve
    <2> QED BY <2>2, <2>3, <2>4
  <1>7. \A p, s \in Requests : Writing(p)' /\ Writing(s)' /\ req'[p].role = req'[s].role
            => p = s \/ {req'[p].op, req'[s].op} = {"update", "object"}
    BY <1>3 DEF CacheInv
  <1>8. \A p \in Requests : Writing(p)' /\ req'[p].op = "create" => req'[p].role \notin DOMAIN rows'
    BY <1>3 DEF CacheInv
  <1> QED BY <1>4, <1>5, <1>6, <1>7, <1>8 DEF CacheInv

LEMMA ReadRowIs ==
    ASSUME TypeOK, NEW q \in Requests, ReadRow(q)
    PROVE  /\ req'[q].pc = (IF req[q].key \in DOMAIN rows THEN "overrides" ELSE "read")
           /\ req'[q].key = req[q].key /\ req'[q].age = req[q].age /\ req'[q].gone = req[q].gone
           /\ req'[q].perms = [Static(req[q].key) EXCEPT !.org = Resolve(req[q].key, rows).org]
           /\ req'[q].raced = Pending(req[q].key)
           /\ req'[q].absent = (req[q].key \notin DOMAIN rows)
           /\ \A p \in Requests : p # q => req'[p] = req[p]
  <1> DEFINE k == req[q].key
             v == [Static(k) EXCEPT !.org = Resolve(k, rows).org]
             c == IF k \in DOMAIN rows THEN "overrides" ELSE "read"
  <1>1. req[q] \in RequestType
    BY DEF TypeOK
  <1>2. req'[q] = [req[q] EXCEPT !.pc = c, !.perms = v, !.raced = Pending(k),
                                 !.absent = k \notin DOMAIN rows]
    BY DEF ReadRow, TypeOK
  <1>3. \A w, d, a, b :
           LET r == [req[q] EXCEPT !.pc = d, !.perms = w, !.raced = a, !.absent = b]
           IN  r.pc = d /\ r.key = k /\ r.age = req[q].age /\ r.perms = w /\ r.raced = a /\ r.absent = b
               /\ r.gone = req[q].gone
    BY <1>1 DEF RequestType
  <1>4. \A p \in Requests : p # q => req'[p] = req[p]
    BY DEF ReadRow, TypeOK
  <1> HIDE DEF v, c
  <1>5. /\ req'[q].pc = c /\ req'[q].key = k /\ req'[q].age = req[q].age /\ req'[q].gone = req[q].gone
        /\ req'[q].perms = v /\ req'[q].raced = Pending(k) /\ req'[q].absent = (k \notin DOMAIN rows)
    BY <1>2, <1>3
  <1> QED BY <1>4, <1>5 DEF v, c

LEMMA ReadOverridesIs ==
    ASSUME TypeOK, NEW q \in Requests, ReadOverrides(q)
    PROVE  /\ req[q].pc = "overrides" /\ req'[q].pc = "read" /\ req'[q].key = req[q].key
           /\ req'[q].age = req[q].age /\ req'[q].raced = req[q].raced /\ req'[q].absent = req[q].absent
           /\ req'[q].perms = [req[q].perms EXCEPT !.objects = OverridesOf(req[q])]
           /\ \A p \in Requests : p # q => req'[p] = req[p]
  <1>1. req[q] \in RequestType
    BY DEF TypeOK
  <1>2. req'[q] = [req[q] EXCEPT !.pc = "read", !.perms.objects = OverridesOf(req[q]), !.gone = FALSE]
    BY DEF ReadOverrides, TypeOK
  <1>3. \A w : LET r == [req[q] EXCEPT !.pc = "read", !.perms.objects = w, !.gone = FALSE]
               IN  r.pc = "read" /\ r.key = req[q].key /\ r.age = req[q].age
                   /\ r.perms = [req[q].perms EXCEPT !.objects = w]
                   /\ r.raced = req[q].raced /\ r.absent = req[q].absent
    BY <1>1 DEF RequestType, GrantType
  <1>4. \A p \in Requests : p # q => req'[p] = req[p]
    BY DEF ReadOverrides, TypeOK
  <1>5. req[q].pc = "overrides"
    BY DEF ReadOverrides
  <1> QED BY <1>2, <1>3, <1>4, <1>5

LEMMA FreshInit == Init => FreshInv
  BY DEF Init, Idle, FreshInv

LEMMA FreshKept == TypeOK /\ FreshInv /\ [Next]_vars => FreshInv'
  <1> SUFFICES ASSUME TypeOK, FreshInv, [Next]_vars, NEW p \in Requests, req'[p].pc = "resolve"
               PROVE  ~req'[p].gone
    BY DEF FreshInv
  <1>0. req \in [Requests -> RequestType] /\ req[p] \in RequestType
    BY DEF TypeOK
  <1>1. CASE UNCHANGED vars
    BY <1>1 DEF FreshInv, vars
  <1>2. CASE Tick
    <2>1. PICK n : req'[p] = [req[p] EXCEPT !.age = n]
      BY <1>2 DEF Tick
    <2> QED BY <1>0, <2>1 DEF FreshInv, RequestType
  <1>3. CASE Restart
    BY <1>3 DEF Restart, Idle
  <1>4. ASSUME NEW q \in Requests, Handle(q) PROVE ~req'[p].gone
    <2>1. ASSUME req'[p] = req[p] PROVE ~req'[p].gone
      BY <2>1 DEF FreshInv
    <2>2. ASSUME NEW m \in Members, Arrive(q, m) PROVE ~req'[p].gone
      BY <1>0, <2>1, <2>2 DEF Arrive, Idle
    <2>3. CASE Hit(q) \/ Store(q) \/ ReadRow(q) \/ ReadOverrides(q)
      <3>1. p # q
        <4>2. ~ReadRow(q) \/ p # q
          BY ReadRowIs
        <4>3. ~Hit(q) \/ p # q
          BY <1>0 DEF Hit, RequestType
        <4>4. ~Store(q) \/ p # q
          BY <1>0 DEF Store, Idle
        <4>5. ~ReadOverrides(q) \/ p # q
          BY ReadOverridesIs
        <4> QED BY <2>3, <4>2, <4>3, <4>4, <4>5
      <3> QED BY <1>0, <2>1, <2>3, <3>1 DEF Hit, Store, ReadRow, ReadOverrides
    <2>4. ASSUME NEW op, NEW k, NEW from, NEW g, NEW m, Check(q, op, k, from, g, m)
          PROVE  ~req'[p].gone
      BY <1>0, <2>1, <2>4 DEF Check, Idle
    <2>5. ASSUME NEW k \in Keys, StartCreate(q, k) \/ StartUpdate(q, k) \/ StartObject(q, k) \/ StartDelete(q, k)
          PROVE  ~req'[p].gone
      BY <2>4, <2>5 DEF StartCreate, StartUpdate, StartObject, StartDelete
    <2>6. ASSUME NEW k \in Keys, NEW m \in Members, StartAssign(q, k, m) \/ StartTransfer(q, m)
          PROVE  ~req'[p].gone
      BY <2>4, <2>6 DEF StartAssign, StartTransfer
    <2>7. ~\E m \in Members : StartTransfer(q, m) /\ req'[p].gone
      BY <2>4 DEF StartTransfer
    <2>8. CASE Write(q)
      <3>1. p # q
        BY <1>0, <2>8 DEF Write, Written, RequestType
      <3>2. PICK b : req'[p] = [req[p] EXCEPT !.raced = b]
        BY <2>8, <3>1 DEF Write
      <3> QED BY <1>0, <3>2 DEF FreshInv, RequestType
    <2>9. CASE Commit(q)
      <3>1. p # q
        BY <2>9 DEF Commit, Idle
      <3>2. PICK b : req'[p] = [req[p] EXCEPT !.gone = b]
            /\ b = (req[p].gone \/ (req[q].op = "delete" /\ ~req[q].gone /\ GoesBy(req[p], req[q].role)))
        BY <2>9, <3>1 DEF Commit
      <3>3. req[p].pc = "resolve" /\ req'[p].gone = b
        BY <1>0, <3>2 DEF RequestType
      <3> QED BY <3>2, <3>3 DEF FreshInv, GoesBy
    <2>10. CASE Transfer(q) \/ End(q)
      <3>1. p # q
        BY <1>0, <2>10 DEF Transfer, End, Idle, RequestType
      <3> QED BY <1>0, <2>1, <2>10, <3>1 DEF Transfer, End
    <2> QED BY <1>4, <2>2, <2>3, <2>5, <2>6, <2>7, <2>8, <2>9, <2>10 DEF Handle
  <1> QED BY <1>1, <1>2, <1>3, <1>4 DEF Next

(* A fill that starts records whether an edit of its role is pending.        *)
LEMMA CacheAtRead ==
    ASSUME TypeOK, CacheInv, NEW q \in Requests, ReadRow(q), req[q].pc = "resolve" => ~req[q].gone
    PROVE  CacheInv'
  <1> DEFINE k == req[q].key
  <1>1. UNCHANGED <<rows, cache>> /\ req[q].pc = "resolve"
    BY DEF ReadRow
  <1>2. req'[q].pc \in Filling
    BY ReadRowIs DEF Filling
  <1>3. Clean(req'[q].key, req'[q])
    BY ReadRowIs DEF Clean
  <1>4. req'[q].absent = (k \notin DOMAIN rows) /\ req'[q].pc = (IF k \in DOMAIN rows THEN "overrides" ELSE "read")
        /\ req'[q].key = k /\ req'[q].gone = req[q].gone
        /\ req'[q].perms = [Static(k) EXCEPT !.org = Resolve(k, rows).org]
    BY ReadRowIs
  <1>5. req'[q].pc = "read" => Good(req[q])'
    BY <1>4 DEF Good
  <1>6. [Static(k) EXCEPT !.org = Resolve(k, rows).org].org = Resolve(k, rows).org
    BY DEF Static
  <1>7. req'[q].pc = "overrides" => Half(req[q])'
    BY <1>1, <1>4, <1>6 DEF Half
  <1>8. \A p \in Requests : p # q => req'[p] = req[p]
    BY ReadRowIs
  <1> QED BY <1>1, <1>2, <1>3, <1>5, <1>7, <1>8, FillStep

(* What the second statement adds is the role's, unless an edit came between. *)
LEMMA CacheAtOverrides ==
    ASSUME TypeOK, CacheInv, NEW q \in Requests, ReadOverrides(q)
    PROVE  CacheInv'
  <1> DEFINE k == req[q].key
  <1>0. req[q] \in RequestType
    BY DEF TypeOK
  <1>1. UNCHANGED <<rows, cache>>
    BY DEF ReadOverrides
  <1>2. /\ req[q].pc = "overrides" /\ req'[q].pc = "read" /\ req'[q].key = k
        /\ req'[q].raced = req[q].raced /\ req'[q].absent = req[q].absent
        /\ req'[q].perms = [req[q].perms EXCEPT !.objects = OverridesOf(req[q])]
        /\ \A p \in Requests : p # q => req'[p] = req[p]
    BY ReadOverridesIs
  <1>3. Clean(k, req[q]) /\ Half(req[q])
    BY <1>2 DEF CacheInv, Filling
  <1>4. Clean(req'[q].key, req'[q])
    BY <1>2, <1>3 DEF Clean
  <1>5. ASSUME ~req[q].raced PROVE req'[q].perms = Resolve(k, rows)
    <2>1. k \in DOMAIN rows /\ ~req[q].gone /\ req[q].perms.org = Resolve(k, rows).org
      BY <1>3, <1>5 DEF Clean, Half
    <2>2. OverridesOf(req[q]) = Resolve(k, rows).objects
      BY <2>1 DEF OverridesOf, Resolve
    <2>3. Resolve(k, rows) \in GrantType /\ req[q].perms \in GrantType
      BY <1>0, ResolveType DEF RequestType
    <2> HIDE DEF k
    <2> QED BY <1>2, <2>1, <2>2, <2>3 DEF GrantType
  <1>6. Good(req[q])'
    BY <1>1, <1>2, <1>5 DEF Good, Resolve
  <1> QED BY <1>1, <1>2, <1>4, <1>6, FillStep DEF Filling

LEMMA CacheAtStore ==
    ASSUME TypeOK, CacheInv, NEW q \in Requests, Store(q)
    PROVE  CacheInv'
  <1> DEFINE k == req[q].key
  <1>0. req \in [Requests -> RequestType]
    BY DEF TypeOK
  <1>1. /\ UNCHANGED rows /\ req[q].pc = "read"
        /\ DOMAIN cache' = DOMAIN cache \cup {k}
        /\ cache'[k] = [age |-> 0, value |-> req[q].perms, raced |-> req[q].raced,
                        absent |-> req[q].absent]
        /\ \A c \in DOMAIN cache : c # k => cache'[c] = cache[c]
    BY DEF Store
  <1>2. req'[q].pc = "authed" /\ \A p \in Requests : p # q => req'[p] = req[p]
    BY <1>0 DEF Store, Idle
  <1>3. \A c : Pending(c)' <=> Pending(c)
    BY <1>1, <1>2 DEF Pending
  <1>4. Clean(k, cache'[k]) /\ (cache'[k].value # Resolve(k, rows) => cache'[k].raced \/ cache'[k].absent)
    BY <1>1 DEF CacheInv, Clean, Good, Filling
  <1>5. StaleOnlyByRace' /\ \A c \in DOMAIN cache' : Clean(c, cache[c])'
    BY <1>1, <1>3, <1>4 DEF CacheInv, StaleOnlyByRace, Clean, Resolve
  <1>6. ASSUME NEW p \in Requests
        PROVE  /\ req'[p].pc \in Filling => Clean(req[p].key, req[p])'
               /\ req'[p].pc = "read" => Good(req[p])'
               /\ req'[p].pc = "overrides" => Half(req[p])'
    <2>1. CASE p = q
      BY <1>2, <2>1 DEF Filling
    <2>2. CASE p # q
      <3>1. req'[p].pc \in Filling => Clean(req[p].key, req[p])'
        BY <1>1, <1>2, <1>3, <2>2 DEF CacheInv, Clean
      <3>2. req'[p].pc = "read" => Good(req[p])'
        BY <1>1, <1>2, <2>2 DEF CacheInv, Good, Resolve
      <3>3. req'[p].pc = "overrides" => Half(req[p])'
        BY <1>1, <1>2, <2>2 DEF CacheInv, Half, Resolve
      <3> QED BY <3>1, <3>2, <3>3
    <2> QED BY <2>1, <2>2
  <1>7. \A p \in Requests : Writing(p)' => p # q /\ Writing(p)
    BY <1>2 DEF Writing
  <1>8. \A p, s \in Requests : Writing(p)' /\ Writing(s)' /\ req'[p].role = req'[s].role
            => p = s \/ {req'[p].op, req'[s].op} = {"update", "object"}
    BY <1>2, <1>7 DEF CacheInv
  <1>9. \A p \in Requests : Writing(p)' /\ req'[p].op = "create" => req'[p].role \notin DOMAIN rows'
    BY <1>1, <1>2, <1>7 DEF CacheInv
  <1> QED BY <1>5, <1>6, <1>8, <1>9 DEF CacheInv

(* A write of a role's row or overrides drops the role's entry and marks its *)
(* fills.                                                                    *)
LEMMA CacheAtWrite ==
    ASSUME TypeOK, CacheInv, NEW q \in Requests, Write(q)
    PROVE  CacheInv'
  <1> DEFINE r == req[q]
  <1>0. req \in [Requests -> RequestType]
    BY DEF TypeOK
  <1>1. /\ UNCHANGED rows /\ r.pc = "checked" /\ r.op \in RowOps \cup {"create", "assign"}
        /\ DOMAIN cache' = DOMAIN cache \ Dropped(r.op, r.role)
        /\ \A c \in DOMAIN cache' : cache'[c] = cache[c]
        /\ r.op = "assign" \/ ClearsNothing(r) \/ ~RowLocked(r)
        /\ r.op = "create" => r.role \notin DOMAIN rows
    BY DEF Write
  <1>2. ASSUME NEW p \in Requests, p # q
        PROVE  /\ req'[p].pc = req[p].pc /\ req'[p].op = req[p].op /\ req'[p].role = req[p].role
               /\ req'[p].key = req[p].key /\ req'[p].perms = req[p].perms
               /\ req'[p].absent = req[p].absent /\ req'[p].gone = req[p].gone
               /\ req[p].raced => req'[p].raced
               /\ req[p].pc \in Filling /\ r.op \in RowOps /\ req[p].key = r.role => req'[p].raced
    BY <1>0, <1>2 DEF Write, RequestType
  <1>3. /\ req'[q].pc = "written" /\ req'[q].op = r.op /\ req'[q].role = r.role
        /\ req'[q].gone = (r.gone \/ ClearsNothing(r))
    <2>1. req'[q] = Written(r)
      BY DEF Write
    <2>2. \A b, v : LET w == [r EXCEPT !.pc = "written", !.gone = b, !.grant.objects = v]
                    IN  w.pc = "written" /\ w.op = r.op /\ w.role = r.role /\ w.gone = b
      BY <1>0 DEF RequestType
    <2>3. LET w == Written(r)
          IN  w.pc = "written" /\ w.op = r.op /\ w.role = r.role /\ w.gone = (r.gone \/ ClearsNothing(r))
      BY <2>2 DEF Written
    <2> QED BY <2>1, <2>3
  <1>4. \A c : Pending(c)' => Pending(c) \/ (r.op \in RowOps /\ c = r.role)
    BY <1>2, <1>3 DEF Pending
  <1>5. r.op \in RowOps => r.role \notin DOMAIN cache'
    <2>1. r.op \in RowOps => Dropped(r.op, r.role) = {r.role}
      BY DEF Dropped, RowOps
    <2> QED BY <1>1, <2>1
  <1>6. StaleOnlyByRace' /\ \A c \in DOMAIN cache' : Clean(c, cache[c])'
    BY <1>1, <1>4, <1>5 DEF CacheInv, StaleOnlyByRace, Clean, Resolve
  <1>7. ASSUME NEW p \in Requests
        PROVE  /\ req'[p].pc \in Filling => Clean(req[p].key, req[p])'
               /\ req'[p].pc = "read" => Good(req[p])'
               /\ req'[p].pc = "overrides" => Half(req[p])'
    <2>1. CASE p = q
      BY <1>3, <2>1 DEF Filling
    <2>2. CASE p # q
      <3>1. req'[p].pc \in Filling => Clean(req[p].key, req[p])'
        BY <1>1, <1>2, <1>4, <2>2 DEF CacheInv, Clean
      <3>2. req'[p].pc = "read" => Good(req[p])'
        BY <1>1, <1>2, <2>2 DEF CacheInv, Good, Resolve
      <3>3. req'[p].pc = "overrides" => Half(req[p])'
        BY <1>1, <1>2, <2>2 DEF CacheInv, Half, Resolve
      <3> QED BY <3>1, <3>2, <3>3
    <2> QED BY <2>1, <2>2
  <1>8. ASSUME NEW p \in Requests, Writing(p)'
        PROVE  /\ req'[p].op = req[p].op /\ req'[p].role = req[p].role
               /\ p # q => Writing(p)
               /\ p = q => r.op \in RowOps \cup {"create"} /\ ~ClearsNothing(r)
    <2>1. CASE p = q
      BY <1>3, <1>8, <2>1 DEF Writing, ClearsNothing
    <2>2. CASE p # q
      BY <1>2, <1>8, <2>2 DEF Writing
    <2> QED BY <2>1, <2>2
  <1>9. ASSUME Writing(q)', NEW p \in Requests, Writing(p), req[p].role = r.role
        PROVE  {req[p].op, r.op} = {"update", "object"}
    <2>1. ~RowLocked(r)
      BY <1>1, <1>8, <1>9 DEF RowOps
    <2> QED BY <1>9, <2>1 DEF RowLocked, Writing
  <1>10. ASSUME NEW p \in Requests, NEW s \in Requests, Writing(p)', Writing(s)',
                req'[p].role = req'[s].role, p # s
         PROVE  {req'[p].op, req'[s].op} = {"update", "object"}
    <2>1. req[p].role = req[s].role
      BY <1>8, <1>10
    <2>2. CASE p = q
      <3>1. {req[s].op, r.op} = {"update", "object"}
        BY <1>8, <1>9, <1>10, <2>1, <2>2
      <3> QED BY <1>8, <1>10, <2>2, <3>1
    <2>3. CASE s = q
      <3>1. {req[p].op, r.op} = {"update", "object"}
        BY <1>8, <1>9, <1>10, <2>1, <2>3
      <3> QED BY <1>8, <1>10, <2>3, <3>1
    <2>4. CASE p # q /\ s # q
      BY <1>8, <1>10, <2>1, <2>4 DEF CacheInv
    <2> QED BY <2>2, <2>3, <2>4
  <1>11. \A p \in Requests : Writing(p)' /\ req'[p].op = "create" => req'[p].role \notin DOMAIN rows'
    BY <1>1, <1>8 DEF CacheInv
  <1> QED BY <1>6, <1>7, <1>10, <1>11 DEF CacheInv

(* The role whose row or overrides a commit changes has no clean entry and   *)
(* no clean fill.                                                            *)
LEMMA CacheAtCommit ==
    ASSUME TypeOK, CacheInv, NEW q \in Requests, Commit(q)
    PROVE  CacheInv'
  <1> DEFINE r == req[q]
             deletes == r.op = "delete" /\ ~r.gone
  <1>0. req \in [Requests -> RequestType]
    BY DEF TypeOK
  <1>1. r.pc = "written" /\ rows' = RowsAfter(r) /\ UNCHANGED cache
    BY DEF Commit
  <1>2. /\ req'[q].pc = "idle"
        /\ \A p \in Requests : p # q =>
              /\ req'[p].pc = req[p].pc /\ req'[p].op = req[p].op /\ req'[p].role = req[p].role
              /\ req'[p].key = req[p].key /\ req'[p].perms = req[p].perms
              /\ req'[p].absent = req[p].absent /\ req'[p].raced = req[p].raced
    BY <1>0 DEF Commit, Idle, RequestType
  <1>3. ASSUME NEW p \in Requests, p # q
        PROVE  req'[p].gone = (req[p].gone \/ (deletes /\ GoesBy(req[p], r.role)))
    BY <1>0, <1>3 DEF Commit, RequestType
  <1>4. \A c : Pending(c)' => Pending(c)
    BY <1>2 DEF Pending
  <1>5. \A c : c # r.role => (c \in DOMAIN rows' <=> c \in DOMAIN rows)
                             /\ Resolve(c, rows') = Resolve(c, rows)
    BY <1>1 DEF RowsAfter, Resolve
  <1>6. CASE UNCHANGED rows /\ ~deletes
    <2>1. \A p \in Requests : p # q => req'[p].gone = req[p].gone
      BY <1>0, <1>3, <1>6 DEF RequestType
    <2> QED BY <1>1, <1>2, <1>6, <2>1, QuietForCache DEF SameFill, Filling
  <1>7. CASE Writing(q)
    <2>1. r.op = "create" \/ Pending(r.role)
      BY <1>7 DEF Pending, Writing
    <2>2. r.op = "create" => r.role \notin DOMAIN rows
      BY <1>7 DEF CacheInv
    <2>3. r.role \in DOMAIN cache => cache[r.role].raced \/ cache[r.role].absent
      BY <2>1, <2>2 DEF CacheInv, Clean
    <2>4. \A p \in Requests : req[p].pc \in Filling /\ req[p].key = r.role
                                => req[p].raced \/ req[p].absent
      BY <2>1, <2>2 DEF CacheInv, Clean
    <2>5. StaleOnlyByRace' /\ \A c \in DOMAIN cache' : Clean(c, cache[c])'
      BY <1>1, <1>4, <1>5, <2>3 DEF CacheInv, StaleOnlyByRace, Clean
    <2>6. ASSUME NEW p \in Requests
          PROVE  /\ req'[p].pc \in Filling => Clean(req[p].key, req[p])'
                 /\ req'[p].pc = "read" => Good(req[p])'
                 /\ req'[p].pc = "overrides" => Half(req[p])'
      <3>1. CASE p = q
        BY <1>2, <3>1 DEF Filling
      <3>2. CASE p # q /\ req[p].key = r.role
        <4>1. req'[p].pc \in Filling => Clean(req[p].key, req[p])'
          BY <1>2, <1>4, <2>4, <3>2 DEF CacheInv, Clean
        <4>2. req'[p].pc = "read" => Good(req[p])'
          BY <1>2, <2>4, <3>2 DEF Good, Filling
        <4>3. req'[p].pc = "overrides" => Half(req[p])'
          BY <1>2, <2>4, <3>2 DEF CacheInv, Half, Filling
        <4> QED BY <4>1, <4>2, <4>3
      <3>3. CASE p # q /\ req[p].key # r.role
        <4>1. req'[p].pc \in Filling => Clean(req[p].key, req[p])'
          BY <1>2, <1>4, <1>5, <3>3 DEF CacheInv, Clean
        <4>2. req'[p].pc = "read" => Good(req[p])'
          BY <1>2, <1>5, <3>3 DEF CacheInv, Good
        <4>3. req'[p].gone => req[p].gone
          BY <1>3, <3>3 DEF GoesBy
        <4>4. req'[p].pc = "overrides" => Half(req[p])'
          BY <1>2, <1>5, <3>3, <4>3 DEF CacheInv, Half
        <4> QED BY <4>1, <4>2, <4>4
      <3> QED BY <3>1, <3>2, <3>3
    <2>7. ASSUME NEW p \in Requests, Writing(p)' PROVE p # q /\ Writing(p)
      <3>1. p # q
        BY <1>2, <2>7 DEF Writing
      <3>2. req[p].gone => req'[p].gone
        BY <1>3, <3>1
      <3> QED BY <1>2, <2>7, <3>1, <3>2 DEF Writing
    <2>8. \A p, s \in Requests : Writing(p)' /\ Writing(s)' /\ req'[p].role = req'[s].role
              => p = s \/ {req'[p].op, req'[s].op} = {"update", "object"}
      BY <1>2, <2>7 DEF CacheInv
    <2>9. ASSUME NEW p \in Requests, Writing(p)', req'[p].op = "create"
          PROVE  req'[p].role \notin DOMAIN rows'
      <3>1. Writing(p) /\ p # q /\ req[p].op = "create" /\ req'[p].role = req[p].role
        BY <1>2, <2>7, <2>9
      <3>2. req[p].role # r.role /\ req[p].role \notin DOMAIN rows
        BY <1>7, <3>1 DEF CacheInv
      <3> QED BY <1>5, <3>1, <3>2
    <2> QED BY <2>5, <2>6, <2>8, <2>9 DEF CacheInv
  <1>8. Writing(q) \/ (UNCHANGED rows /\ ~deletes)
    <2>1. r.op \in {"none", "create", "update", "object", "delete", "assign", "transfer"}
      BY <1>0 DEF RequestType
    <2>2. CASE r.op \in {"none", "assign", "transfer"} \/ (r.op \in {"object", "delete"} /\ r.gone)
      BY <1>1, <2>2 DEF RowsAfter
    <2>3. CASE r.op \in {"create", "update"} \/ (r.op \in {"object", "delete"} /\ ~r.gone)
      BY <1>1, <2>3 DEF Writing, RowOps
    <2> QED BY <2>1, <2>2, <2>3
  <1> QED BY <1>6, <1>7, <1>8

LEMMA CacheKept == TypeOK /\ FreshInv /\ CacheInv /\ [Next]_vars => CacheInv'
  <1> SUFFICES ASSUME TypeOK, FreshInv, CacheInv, [Next]_vars PROVE CacheInv'
    OBVIOUS
  <1>0. req \in [Requests -> RequestType] /\ cache \in [DOMAIN cache -> EntryType]
    BY DEF TypeOK
  <1>1. CASE UNCHANGED vars
    BY <1>1, QuietForCache DEF vars, SameFill
  <1>2. CASE Tick
    <2>1. /\ DOMAIN cache' \subseteq DOMAIN cache
          /\ \A k \in DOMAIN cache' : cache'[k] = [cache[k] EXCEPT !.age = @ + 1]
      BY <1>2 DEF Tick
    <2>2. \A k \in DOMAIN cache' : /\ cache'[k].value = cache[k].value
                                   /\ cache'[k].raced = cache[k].raced
                                   /\ cache'[k].absent = cache[k].absent
      <3>1. \A k \in DOMAIN cache : cache[k] \in EntryType
        BY <1>0
      <3> QED BY <2>1, <3>1 DEF EntryType
    <2>3. \A p \in Requests : \E n : req'[p] = [req[p] EXCEPT !.age = n]
      BY <1>2 DEF Tick
    <2>4. \A p \in Requests : /\ req'[p].pc = req[p].pc /\ req'[p].op = req[p].op
                              /\ req'[p].role = req[p].role /\ req'[p].key = req[p].key
                              /\ req'[p].perms = req[p].perms /\ req'[p].raced = req[p].raced
                              /\ req'[p].absent = req[p].absent /\ req'[p].gone = req[p].gone
      <3> SUFFICES ASSUME NEW p \in Requests
                   PROVE  /\ req'[p].pc = req[p].pc /\ req'[p].op = req[p].op
                          /\ req'[p].role = req[p].role /\ req'[p].key = req[p].key
                          /\ req'[p].perms = req[p].perms /\ req'[p].raced = req[p].raced
                          /\ req'[p].absent = req[p].absent /\ req'[p].gone = req[p].gone
        OBVIOUS
      <3>1. PICK n : req'[p] = [req[p] EXCEPT !.age = n]
        BY <2>3
      <3>2. req[p] \in RequestType
        BY <1>0
      <3> QED BY <3>1, <3>2 DEF RequestType
    <2>5. UNCHANGED rows
      BY <1>2 DEF Tick
    <2> QED BY <2>1, <2>2, <2>4, <2>5, QuietForCache DEF SameFill
  <1>3. CASE Restart
    BY <1>3, QuietForCache DEF Restart, Idle, Filling
  <1>4. ASSUME NEW q \in Requests, Handle(q) PROVE CacheInv'
    <2>1. ASSUME UNCHANGED <<rows, cache>>, req'[q].pc \notin Filling \cup {"written"},
                 \A p \in Requests : p # q => req'[p] = req[p]
          PROVE  CacheInv'
      BY <2>1, QuietForCache DEF SameFill
    <2>2. ASSUME NEW m \in Members, Arrive(q, m) PROVE CacheInv'
      BY <1>0, <2>1, <2>2 DEF Arrive, Idle, Filling
    <2>3. CASE Hit(q)
      BY <1>0, <2>1, <2>3 DEF Hit, Served, Filling
    <2>4. CASE ReadRow(q)
      BY <2>4, CacheAtRead DEF FreshInv
    <2>16. CASE ReadOverrides(q)
      BY <2>16, CacheAtOverrides
    <2>5. CASE Store(q)
      BY <2>5, CacheAtStore
    <2>6. ASSUME NEW op, NEW k, NEW from, NEW g, NEW m, UNCHANGED <<rows, cache>>,
                 Check(q, op, k, from, g, m)
          PROVE  CacheInv'
      BY <1>0, <2>1, <2>6 DEF Check, Idle, Filling
    <2>7. ASSUME NEW k \in Keys, StartCreate(q, k) PROVE CacheInv'
      BY <2>6, <2>7 DEF StartCreate
    <2>8. ASSUME NEW k \in Keys, StartUpdate(q, k) PROVE CacheInv'
      BY <2>6, <2>8 DEF StartUpdate
    <2>17. ASSUME NEW k \in Keys, StartObject(q, k) PROVE CacheInv'
      BY <2>6, <2>17 DEF StartObject
    <2>9. ASSUME NEW k \in Keys, StartDelete(q, k) PROVE CacheInv'
      BY <2>6, <2>9 DEF StartDelete
    <2>10. ASSUME NEW k \in Keys, NEW m \in Members, StartAssign(q, k, m) PROVE CacheInv'
      BY <2>6, <2>10 DEF StartAssign
    <2>11. ASSUME NEW m \in Members, StartTransfer(q, m) PROVE CacheInv'
      BY <2>6, <2>11 DEF StartTransfer
    <2>12. CASE Write(q)
      BY <2>12, CacheAtWrite
    <2>13. CASE Commit(q)
      BY <2>13, CacheAtCommit
    <2>14. CASE Transfer(q)
      BY <1>0, <2>1, <2>14 DEF Transfer, Idle, RequestType, Filling
    <2>15. CASE End(q)
      BY <1>0, <2>1, <2>15 DEF End, Idle, Filling
    <2> QED BY <1>4, <2>2, <2>3, <2>4, <2>5, <2>7, <2>8, <2>9, <2>10, <2>11, <2>12, <2>13, <2>14, <2>15,
             <2>16, <2>17
        DEF Handle
  <1> QED BY <1>1, <1>2, <1>3, <1>4 DEF Next

-----------------------------------------------------------------------------
(* The inductive invariant behind both theorems.                             *)
THEOREM Invariance == Spec => []Inv
  <1>1. Init => Inv
    BY InitTypes, RolesInit, FreshInit, CacheInit DEF Inv
  <1>2. Inv /\ [Next]_vars => Inv'
    BY TypesKept, RolesKept, FreshKept, CacheKept DEF Inv
  <1> QED BY <1>1, <1>2, PTL DEF Spec

(* A member holds a role without a row only if an assignment of the role and *)
(* its deletion were in progress together, whatever else requests, failures  *)
(* and restarts did.                                                         *)
THEOREM RolesExist == Spec => []AssignedRolesExist
  <1>1. Inv => AssignedRolesExist
    BY DEF Inv, RolesInv
  <1> QED BY <1>1, Invariance, PTL

(* Between its time limits the grant cache is wrong only about roles whose   *)
(* edit was in flight while they were resolved, or that had no row then.     *)
THEOREM CacheStaleOnlyByRace == Spec => []StaleOnlyByRace
  <1>1. Inv => StaleOnlyByRace
    BY DEF Inv, CacheInv
  <1> QED BY <1>1, Invariance, PTL

-----------------------------------------------------------------------------
(* What a role row can hold, and so what a role can resolve to: the values   *)
(* the history counts the age of.                                            *)
Storable(k, g) ==
    /\ g \in Grants \cup {{}} \cup {Seed(s) : s \in System}
    /\ k \in System => g \in Grants \cup {Seed(k)}

Storing(p) == req[p].pc \in InTx /\ req[p].op \in {"create", "update"}

StoredInv ==
    /\ \A k \in DOMAIN rows : Storable(k, rows[k].org)
    /\ \A p \in Requests : Storing(p) => Storable(req[p].role, req[p].grant.org)

SinceInv ==
    /\ since \in [Keys -> [Values -> Nat]]
    /\ \A k \in Keys : \A v \in PartsOf(Resolve(k, rows)) : since[k][v] = 0

(* What a fill has read has not been replaced for longer than the fill runs; *)
(* what an entry holds has not for longer than its age and a fill.  A fill   *)
(* whose row is deleted before it reads the overrides finds none, and the    *)
(* role has had none since the deletion.                                     *)
Lag(ago, v, n) == v \in Values /\ ago[v] <= n
Dated(ago, grant, n) == \A v \in PartsOf(grant) : Lag(ago, v, n)

AgesInv ==
    /\ \A k \in DOMAIN cache : cache[k].age < TTL /\ Dated(since[k], cache[k].value, cache[k].age + MaxFill)
    /\ \A p \in Requests : req[p].pc = "resolve" => req[p].age = 0
    /\ \A p \in Requests : req[p].pc \in Filling => req[p].age <= MaxFill
    /\ \A p \in Requests : req[p].pc = "read" => Dated(since[req[p].key], req[p].perms, req[p].age)
    /\ \A p \in Requests : req[p].pc = "overrides" =>
          /\ Lag(since[req[p].key], req[p].perms.org, req[p].age)
          /\ req[p].gone => Lag(since[req[p].key], NoOverrides, req[p].age)

RecentInv == StoredInv /\ SinceInv /\ AgesInv

LEMMA SeedOfCustom == \A k : k \notin System => Seed(k) = {}
  BY DEF Seed, System

LEMMA ValueIs == \A g \in Grants \cup {{}}, k \in Keys : g \cup Seed(k) \in Values
  BY DEF Values

LEMMA OrgIsValue ==
    ASSUME NEW k \in Keys, NEW rs, k \in DOMAIN rs => Storable(k, rs[k].org)
    PROVE  Resolve(k, rs).org \in Values
  <1>1. CASE k \notin DOMAIN rs
    <2>1. Resolve(k, rs).org = {} \cup Seed(k)
      BY <1>1 DEF Resolve, Static
    <2> QED BY <2>1, ValueIs
  <1>2. CASE k \in DOMAIN rs /\ k \in System
    <2>1. Resolve(k, rs).org = rs[k].org \cup Seed(k) /\ rs[k].org \in Grants \cup {Seed(k)}
      BY <1>2 DEF Resolve, Storable
    <2>2. CASE rs[k].org \in Grants
      BY <2>1, <2>2, ValueIs
    <2>3. CASE rs[k].org = Seed(k)
      <3>1. Resolve(k, rs).org = {} \cup Seed(k)
        BY <2>1, <2>3
      <3> QED BY <3>1, ValueIs
    <2> QED BY <2>1, <2>2, <2>3
  <1>3. CASE k \in DOMAIN rs /\ k \notin System
    <2> DEFINE g == rs[k].org
    <2>1. Resolve(k, rs).org = g \cup Seed(k) /\ Seed(k) = {}
      BY <1>3, SeedOfCustom DEF Resolve
    <2>2. g \in Grants \cup {{}} \cup {Seed(s) : s \in System}
      BY <1>3 DEF Storable
    <2> HIDE DEF g
    <2>3. CASE g \in Grants \cup {{}}
      BY <2>1, <2>3, ValueIs
    <2>4. CASE \E s \in System : g = Seed(s)
      <3>1. PICK s \in System : g = Seed(s)
        BY <2>4
      <3>2. g \cup Seed(k) = {} \cup Seed(s) /\ s \in Keys
        BY <2>1, <3>1 DEF Keys
      <3> QED BY <2>1, <3>2, ValueIs
    <2> QED BY <2>2, <2>3, <2>4
  <1> QED BY <1>1, <1>2, <1>3

LEMMA ResolvedIsValue ==
    ASSUME NEW k \in Keys, NEW rs, k \in DOMAIN rs => Storable(k, rs[k].org) /\ rs[k].objects \in Overrides
    PROVE  PartsOf(Resolve(k, rs)) \subseteq Values
  <1>1. Resolve(k, rs).org \in Values
    BY OrgIsValue
  <1>2. Resolve(k, rs).objects \in Overrides
    BY OverridesAssumption DEF Resolve, Static
  <1>3. \A a \in Values, b \in Overrides : {a, b} \subseteq Values
    BY DEF Values
  <1>4. PartsOf(Resolve(k, rs)) = {Resolve(k, rs).org, Resolve(k, rs).objects}
    BY DEF PartsOf
  <1> QED BY <1>1, <1>2, <1>3, <1>4

LEMMA RecordedIs ==
    ASSUME NEW ago \in [Keys -> [Values -> Nat]], NEW rs,
           \A k \in Keys : PartsOf(Resolve(k, rs)) \subseteq Values
    PROVE  /\ Recorded(ago, rs) \in [Keys -> [Values -> Nat]]
           /\ \A k \in Keys : \A v \in PartsOf(Resolve(k, rs)) : Recorded(ago, rs)[k][v] = 0
           /\ \A k \in Keys, v \in Values : Recorded(ago, rs)[k][v] <= ago[k][v]
  BY DEF Recorded

(* What a handler leaves of the other requests, and what a procedure that    *)
(* starts makes of its own.                                                  *)
SameRequest(p) ==
    /\ req'[p].pc = req[p].pc /\ req'[p].op = req[p].op /\ req'[p].role = req[p].role
    /\ req'[p].grant = req[p].grant /\ req'[p].key = req[p].key /\ req'[p].perms = req[p].perms
    /\ req'[p].age = req[p].age /\ req'[p].who = req[p].who /\ req'[p].mem = req[p].mem

LEMMA CheckIs ==
    ASSUME TypeOK, NEW q \in Requests, NEW op, NEW k, NEW from, NEW g, NEW m, Check(q, op, k, from, g, m)
    PROVE  /\ req'[q].pc = "checked" /\ req'[q].op = op /\ req'[q].role = k /\ req'[q].grant = g
           /\ req'[q].mem = m /\ req'[q].who = req[q].who
           /\ \A p \in Requests : p # q => req'[p] = req[p]
  BY DEF TypeOK, Check, Idle

(* The steps that neither write, commit, fill nor start a change of a role:  *)
(* requests that arrive, are served, end, or see to members.                 *)
Aside(q) ==
    /\ UNCHANGED <<rows, cache, since>>
    /\ \A p \in Requests : p # q => req'[p] = req[p]
    /\ req'[q].pc = "resolve" => req'[q].age = 0
    /\ req'[q].pc \notin Filling
    /\ req'[q].pc \in InTx => req'[q].op \in {"delete", "assign", "transfer"}

LEMMA HandlesAre ==
    ASSUME TypeOK, NEW q \in Requests, Handle(q)
    PROVE  \/ Aside(q) \/ ReadRow(q) \/ ReadOverrides(q) \/ Store(q) \/ Write(q) \/ Commit(q)
           \/ \E k \in Keys : StartCreate(q, k) \/ StartUpdate(q, k) \/ StartObject(q, k)
  <1>0. req \in [Requests -> RequestType]
    BY DEF TypeOK
  <1>1. ASSUME NEW m \in Members, Arrive(q, m) PROVE Aside(q)
    BY <1>0, <1>1 DEF Arrive, Aside, Idle, InTx, Filling
  <1>2. ASSUME Hit(q) PROVE Aside(q)
    BY <1>0, <1>2 DEF Hit, Served, Aside, InTx, Filling
  <1>3. ASSUME NEW k \in Keys, StartDelete(q, k) PROVE Aside(q)
    <2>1. Check(q, "delete", k, k, Static(k), Founder)
      BY <1>3 DEF StartDelete
    <2> QED BY <1>3, <2>1, CheckIs DEF StartDelete, Aside, Filling
  <1>4. ASSUME NEW k \in Keys, NEW m \in Members, StartAssign(q, k, m) PROVE Aside(q)
    <2>1. Check(q, "assign", k, k, Static(k), m)
      BY <1>4 DEF StartAssign
    <2> QED BY <1>4, <2>1, CheckIs DEF StartAssign, Aside, Filling
  <1>5. ASSUME NEW m \in Members, StartTransfer(q, m) PROVE Aside(q)
    <2>1. Check(q, "transfer", "owner", "owner", Static("owner"), m)
      BY <1>5 DEF StartTransfer
    <2> QED BY <1>5, <2>1, CheckIs DEF StartTransfer, Aside, Filling
  <1>6. ASSUME Transfer(q) PROVE Aside(q)
    <2>1. CASE req[q].pc = "checked"
      <3>1. req'[q].pc = "promoted" /\ req'[q].op = "transfer"
        BY <1>0, <1>6, <2>1 DEF Transfer, RequestType
      <3> QED BY <1>0, <1>6, <3>1 DEF Transfer, Aside, Filling
    <2>2. CASE req[q].pc # "checked"
      BY <1>0, <1>6, <2>2 DEF Transfer, Aside, Idle, InTx, Filling
    <2> QED BY <2>1, <2>2
  <1>7. ASSUME End(q) PROVE Aside(q)
    BY <1>0, <1>7 DEF End, Aside, Idle, InTx, Filling
  <1> QED BY <1>1, <1>2, <1>3, <1>4, <1>5, <1>6, <1>7 DEF Handle

LEMMA TickIs ==
    ASSUME TypeOK, Tick
    PROVE  /\ UNCHANGED rows
           /\ \A p \in Requests :
                 /\ req'[p].pc = req[p].pc /\ req'[p].op = req[p].op /\ req'[p].role = req[p].role
                 /\ req'[p].grant = req[p].grant /\ req'[p].key = req[p].key
                 /\ req'[p].perms = req[p].perms /\ req'[p].gone = req[p].gone
                 /\ req'[p].who = req[p].who /\ req'[p].mem = req[p].mem
                 /\ req[p].pc \notin Filling => req'[p].age = req[p].age
                 /\ req[p].pc \in Filling => req'[p].age = req[p].age + 1 /\ req[p].age < MaxFill
           /\ \A k \in DOMAIN cache' :
                 /\ k \in DOMAIN cache /\ cache'[k].value = cache[k].value
                 /\ cache'[k].age = cache[k].age + 1 /\ cache[k].age + 1 < TTL
  <1>1. \A p \in Requests : req'[p] = [req[p] EXCEPT !.age = IF req[p].pc \in Filling THEN @ + 1 ELSE @]
    BY DEF Tick
  <1>2. \A p \in Requests : req[p] \in RequestType
    BY DEF TypeOK
  <1>3. \A k \in DOMAIN cache' : /\ k \in DOMAIN cache /\ cache[k].age + 1 < TTL
                                 /\ cache'[k] = [cache[k] EXCEPT !.age = @ + 1]
    BY DEF Tick
  <1>4. \A k \in DOMAIN cache : cache[k] \in EntryType
    BY DEF TypeOK
  <1>5. \A p \in Requests :
           /\ req'[p].pc = req[p].pc /\ req'[p].op = req[p].op /\ req'[p].role = req[p].role
           /\ req'[p].grant = req[p].grant /\ req'[p].key = req[p].key
           /\ req'[p].perms = req[p].perms /\ req'[p].gone = req[p].gone
                 /\ req'[p].who = req[p].who /\ req'[p].mem = req[p].mem
           /\ req[p].pc \notin Filling => req'[p].age = req[p].age
           /\ req[p].pc \in Filling => req'[p].age = req[p].age + 1
    BY <1>1, <1>2 DEF RequestType
  <1>6. \A k \in DOMAIN cache' : cache'[k].value = cache[k].value /\ cache'[k].age = cache[k].age + 1
    BY <1>3, <1>4 DEF EntryType
  <1> QED BY <1>3, <1>5, <1>6 DEF Tick

LEMMA WriteIs ==
    ASSUME TypeOK, NEW q \in Requests, Write(q)
    PROVE  /\ UNCHANGED <<rows, since>>
           /\ req[q].pc = "checked" /\ req'[q].pc = "written" /\ req'[q].op = req[q].op
           /\ req'[q].role = req[q].role /\ req'[q].grant.org = req[q].grant.org
           /\ req'[q].who = req[q].who /\ req'[q].mem = req[q].mem
           /\ \A p \in Requests : p # q => SameRequest(p) /\ req'[p].gone = req[p].gone
           /\ \A k \in DOMAIN cache' : k \in DOMAIN cache /\ cache'[k] = cache[k]
  <1>1. req \in [Requests -> RequestType]
    BY DEF TypeOK
  <1>2. ASSUME NEW p \in Requests, p # q PROVE SameRequest(p) /\ req'[p].gone = req[p].gone
    BY <1>1, <1>2 DEF Write, RequestType, SameRequest
  <1>3. req'[q] = Written(req[q])
    BY DEF Write
  <1>4. \A b, v : LET w == [req[q] EXCEPT !.pc = "written", !.gone = b, !.grant.objects = v]
                  IN  /\ w.pc = "written" /\ w.op = req[q].op
                      /\ w.role = req[q].role /\ w.grant.org = req[q].grant.org
                      /\ w.who = req[q].who /\ w.mem = req[q].mem
    BY <1>1 DEF RequestType, GrantType
  <1>5. /\ req'[q].pc = "written" /\ req'[q].op = req[q].op
        /\ req'[q].role = req[q].role /\ req'[q].grant.org = req[q].grant.org
        /\ req'[q].who = req[q].who /\ req'[q].mem = req[q].mem
    BY <1>3, <1>4 DEF Written
  <1> QED BY <1>2, <1>5 DEF Write

LEMMA CommitIs ==
    ASSUME TypeOK, NEW q \in Requests, Commit(q)
    PROVE  /\ UNCHANGED cache /\ req[q].pc = "written" /\ req'[q] = Idle
           /\ rows' = RowsAfter(req[q]) /\ since' = Recorded(since, rows')
           /\ \A p \in Requests : p # q =>
                 /\ SameRequest(p)
                 /\ req'[p].gone => req[p].gone \/ (req[q].op = "delete" /\ ~req[q].gone /\ req[p].key = req[q].role)
  <1>1. req \in [Requests -> RequestType]
    BY DEF TypeOK
  <1>2. ASSUME NEW p \in Requests, p # q 
        PROVE  /\ SameRequest(p)
               /\ req'[p].gone => req[p].gone \/ (req[q].op = "delete" /\ ~req[q].gone /\ req[p].key = req[q].role)
    BY <1>1, <1>2 DEF Commit, RequestType, SameRequest, GoesBy
  <1> QED BY <1>2 DEF Commit

-----------------------------------------------------------------------------
LEMMA RecentInit == Init => RecentInv
  <1> SUFFICES ASSUME Init PROVE RecentInv
    OBVIOUS
  <1>1. PICK made \in SUBSET Customs, over \in Overrides :
           rows = [k \in System \cup made |->
                      IF k \in System THEN Static(k) ELSE [Static(k) EXCEPT !.objects = over]]
    BY DEF Init
  <1>2. ASSUME NEW k \in System \cup made PROVE Storable(k, Seed(k))
    <2>1. CASE k \in System
      BY <2>1 DEF Storable
    <2>2. CASE k \notin System
      BY <2>2, SeedOfCustom DEF Storable
    <2> QED BY <2>1, <2>2
  <1>3. \A k \in DOMAIN rows : rows[k].org = Seed(k) /\ rows[k].objects \in Overrides
    <2> SUFFICES ASSUME NEW k \in DOMAIN rows
                 PROVE  rows[k].org = Seed(k) /\ rows[k].objects \in Overrides
      OBVIOUS
    <2>1. k \in System \cup made
      BY <1>1
    <2>2. CASE k \in System
      <3>1. rows[k] = [org |-> Seed(k), objects |-> NoOverrides]
        BY <1>1, <2>1, <2>2 DEF Static
      <3> QED BY <3>1, OverridesAssumption
    <2>3. CASE k \notin System
      <3>1. rows[k] = [Static(k) EXCEPT !.objects = over]
        BY <1>1, <2>1, <2>3
      <3>2. rows[k] = [org |-> Seed(k), objects |-> over]
        BY <3>1 DEF Static
      <3> QED BY <3>2, <1>1
    <2> QED BY <2>2, <2>3
  <1>4. StoredInv
    <2>1. \A k \in DOMAIN rows : Storable(k, rows[k].org)
      <3>1. DOMAIN rows = System \cup made
        BY <1>1
      <3> QED BY <1>2, <1>3, <3>1
    <2>2. \A p \in Requests : ~Storing(p)
      BY DEF Init, Storing, Idle, InTx
    <2> QED BY <2>1, <2>2 DEF StoredInv
  <1>5. SinceInv
    <2>1. \A k \in Keys : PartsOf(Resolve(k, rows)) \subseteq Values
      BY <1>3, <1>4, ResolvedIsValue DEF StoredInv
    <2>2. LongAgo \in Nat
      BY TimeAssumption DEF LongAgo
    <2>3. since = [k \in Keys |-> [v \in Values |-> IF v \in PartsOf(Resolve(k, rows)) THEN 0 ELSE LongAgo]]
      BY DEF Init
    <2> QED BY <2>1, <2>2, <2>3 DEF SinceInv
  <1>6. AgesInv
    BY DEF Init, AgesInv, Idle, Filling
  <1> QED BY <1>4, <1>5, <1>6 DEF RecentInv

LEMMA QuietForStored ==
    ASSUME StoredInv, UNCHANGED rows,
           \A p \in Requests : Storing(p)' =>
               Storing(p) /\ req'[p].role = req[p].role /\ req'[p].grant.org = req[p].grant.org
    PROVE  StoredInv'
  BY DEF StoredInv

LEMMA StoredKept == TypeOK /\ StoredInv /\ [Next]_vars => StoredInv'
  <1> SUFFICES ASSUME TypeOK, StoredInv, [Next]_vars PROVE StoredInv'
    OBVIOUS
  <1>1. CASE UNCHANGED vars
    BY <1>1, QuietForStored DEF vars, Storing
  <1>2. CASE Tick
    BY <1>2, TickIs, QuietForStored DEF Storing
  <1>3. CASE Restart
    BY <1>3, QuietForStored DEF Restart, Idle, Storing, InTx
  <1>4. ASSUME NEW q \in Requests, Handle(q) PROVE StoredInv'
    <2>1. CASE Aside(q)
      BY <2>1, QuietForStored DEF Aside, Storing
    <2>2. CASE ReadRow(q) \/ ReadOverrides(q)
      <3>1. UNCHANGED rows /\ req'[q].pc \in Filling /\ \A p \in Requests : p # q => req'[p] = req[p]
        BY <2>2, ReadRowIs, ReadOverridesIs DEF ReadRow, ReadOverrides, Filling
      <3> QED BY <3>1, QuietForStored DEF Storing, InTx, Filling
    <2>3. CASE Store(q)
      <3>1. UNCHANGED rows /\ req'[q].pc = "authed" /\ \A p \in Requests : p # q => req'[p] = req[p]
        BY <2>3 DEF Store, TypeOK, Idle
      <3> QED BY <3>1, QuietForStored DEF Storing, InTx
    <2>4. CASE Write(q)
      BY <2>4, WriteIs, QuietForStored DEF Storing, InTx, SameRequest
    <2>5. CASE Commit(q)
      <3> DEFINE r == req[q]
      <3>1. rows' = RowsAfter(r) /\ r.pc = "written" /\ req'[q].pc = "idle"
        BY <2>5, CommitIs DEF Idle
      <3>2. \A p \in Requests : Storing(p)' =>
               p # q /\ Storing(p) /\ req'[p].role = req[p].role /\ req'[p].grant.org = req[p].grant.org
        BY <2>5, <3>1, CommitIs DEF Storing, InTx, SameRequest
      <3>3. r.op \in {"create", "update"} => Storable(r.role, r.grant.org)
        BY <3>1 DEF StoredInv, Storing, InTx
      <3>4. ASSUME NEW k \in DOMAIN RowsAfter(r)
            PROVE  Storable(k, RowsAfter(r)[k].org)
        <4>1. k \in DOMAIN rows => rows[k] \in GrantType /\ Storable(k, rows[k].org)
          BY DEF TypeOK, StoredInv
        <4>2. \/ k = r.role /\ r.op \in {"create", "update"} /\ RowsAfter(r)[k].org = r.grant.org
              \/ k \in DOMAIN rows /\ RowsAfter(r)[k].org = rows[k].org
          BY <3>4, <4>1 DEF RowsAfter, TypeOK, GrantType
        <4> QED BY <3>3, <4>1, <4>2
      <3> QED BY <3>1, <3>2, <3>4 DEF StoredInv
    <2>6. ASSUME NEW op, NEW k, NEW from, NEW g, UNCHANGED rows, Check(q, op, k, from, g, Founder),
                 op \in {"create", "update"} => Storable(k, g.org)
          PROVE  StoredInv'
      BY <2>6, CheckIs DEF StoredInv, Storing
    <2>7. ASSUME NEW k \in Keys, StartCreate(q, k) PROVE StoredInv'
      <3>1. PICK from \in {k} \cup DOMAIN rows :
               Check(q, "create", k, from,
                     [Static(k) EXCEPT !.org = IF from = k THEN {} ELSE rows[from].org], Founder)
        BY <2>7 DEF StartCreate
      <3>2. k \notin System
        BY <2>7, KeysAreStrings DEF StartCreate
      <3>3. [Static(k) EXCEPT !.org = IF from = k THEN {} ELSE rows[from].org].org
                = (IF from = k THEN {} ELSE rows[from].org)
        BY DEF Static
      <3>4. Storable(k, IF from = k THEN {} ELSE rows[from].org)
        BY <3>1, <3>2 DEF StoredInv, Storable
      <3> QED BY <2>6, <2>7, <3>1, <3>3, <3>4 DEF StartCreate
    <2>8. ASSUME NEW k \in Keys, StartUpdate(q, k) PROVE StoredInv'
      <3>1. PICK g \in Grants : Check(q, "update", k, k, [Static(k) EXCEPT !.org = g], Founder)
        BY <2>8 DEF StartUpdate
      <3>2. Storable(k, g) /\ [Static(k) EXCEPT !.org = g].org = g
        BY DEF Storable, Static
      <3> QED BY <2>6, <2>8, <3>1, <3>2 DEF StartUpdate
    <2>9. ASSUME NEW k \in Keys, StartObject(q, k) PROVE StoredInv'
      BY <2>6, <2>9 DEF StartObject
    <2> QED BY <1>4, <2>1, <2>2, <2>3, <2>4, <2>5, <2>7, <2>8, <2>9, HandlesAre
  <1> QED BY <1>1, <1>2, <1>3, <1>4 DEF Next

(* A grant that is the role's now counts as of now; otherwise only a tick    *)
(* makes it older, and by one.                                               *)
LEMMA SinceKept ==
    ASSUME TypeOK, TypeOK', StoredInv, StoredInv', SinceInv, [Next]_vars
    PROVE  /\ SinceInv'
           /\ ~Tick => \A k \in Keys, v \in Values : since'[k][v] <= since[k][v]
           /\ Tick => \A k \in Keys, v \in Values : since'[k][v] <= since[k][v] + 1
  <1>1. ASSUME NEW k \in Keys
        PROVE  PartsOf(Resolve(k, rows)) \subseteq Values /\ PartsOf(Resolve(k, rows')) \subseteq Values
    <2>1. k \in DOMAIN rows => Storable(k, rows[k].org) /\ rows[k].objects \in Overrides
      BY DEF StoredInv, TypeOK, GrantType
    <2>2. k \in DOMAIN rows' => Storable(k, rows'[k].org) /\ rows'[k].objects \in Overrides
      BY DEF StoredInv, TypeOK, GrantType
    <2> QED BY <2>1, <2>2, ResolvedIsValue
  <1>2. ASSUME UNCHANGED <<rows, since>>
        PROVE  SinceInv' /\ \A k \in Keys, v \in Values : since'[k][v] <= since[k][v]
    <2>1. \A k \in Keys : Resolve(k, rows)' = Resolve(k, rows)
      BY <1>2 DEF Resolve
    <2>2. SinceInv'
      BY <1>2, <2>1 DEF SinceInv
    <2>3. ASSUME NEW k \in Keys, NEW v \in Values PROVE since'[k][v] <= since[k][v]
      <3>1. since[k][v] \in Nat
        BY DEF SinceInv
      <3> QED BY <1>2, <3>1
    <2> QED BY <2>2, <2>3
  <1>3. CASE Tick
    <2> DEFINE ago == [k \in Keys |-> [v \in Values |-> Older(since[k][v], LongAgo)]]
    <2>1. ago \in [Keys -> [Values -> Nat]]
          /\ \A k \in Keys, v \in Values : ago[k][v] <= since[k][v] + 1
      BY TimeAssumption DEF SinceInv, Older, LongAgo
    <2>2. UNCHANGED rows /\ since' = Recorded(ago, rows)
      BY <1>3 DEF Tick
    <2> HIDE DEF ago
    <2>3. SinceInv' /\ \A k \in Keys, v \in Values : since'[k][v] <= ago[k][v]
      <3>1. \A k \in Keys : Resolve(k, rows)' = Resolve(k, rows)
        BY <2>2 DEF Resolve
      <3> QED BY <1>1, <2>1, <2>2, <3>1, RecordedIs DEF SinceInv
    <2>4. ASSUME NEW k \in Keys, NEW v \in Values PROVE since'[k][v] <= since[k][v] + 1
      <3>1. since'[k][v] \in Nat /\ ago[k][v] \in Nat /\ since[k][v] \in Nat
        BY <2>1, <2>3 DEF SinceInv
      <3>2. since'[k][v] <= ago[k][v] /\ ago[k][v] <= since[k][v] + 1
        BY <2>1, <2>3
      <3> QED BY <3>1, <3>2
    <2> QED BY <1>3, <2>3, <2>4
  <1>4. ASSUME NEW q \in Requests, Commit(q)
        PROVE  SinceInv' /\ \A k \in Keys, v \in Values : since'[k][v] <= since[k][v]
    <2>1. since' = Recorded(since, rows')
      BY <1>4, CommitIs
    <2>2. \A k \in Keys : Resolve(k, rows)' = Resolve(k, rows')
      OBVIOUS
    <2> QED BY <1>1, <2>1, <2>2, RecordedIs DEF SinceInv
  <1>5. ASSUME ~Tick, \A q \in Requests : ~Commit(q) PROVE UNCHANGED <<rows, since>>
    <2>1. CASE UNCHANGED vars
      BY <2>1 DEF vars
    <2>2. CASE Restart
      BY <2>2 DEF Restart
    <2>3. ASSUME NEW q \in Requests, Handle(q) PROVE UNCHANGED <<rows, since>>
      BY <1>5, <2>3, HandlesAre DEF Aside, ReadRow, ReadOverrides, Store, Write, StartCreate, StartUpdate, StartObject
    <2> QED BY <1>5, <2>1, <2>2, <2>3 DEF Next
  <1>6. SinceInv' /\ (~Tick => \A k \in Keys, v \in Values : since'[k][v] <= since[k][v])
    BY <1>2, <1>3, <1>4, <1>5
  <1> QED BY <1>3, <1>6

LEMMA LagGrows ==
    ASSUME NEW ago \in [Values -> Nat], NEW new \in [Values -> Nat], NEW v, NEW n \in Nat,
           NEW d \in Nat, NEW m \in Nat, n + d <= m,
           Lag(ago, v, n), \A w \in Values : new[w] <= ago[w] + d
    PROVE  Lag(new, v, m)
  <1>1. v \in Values /\ ago[v] <= n /\ new[v] <= ago[v] + d /\ ago[v] \in Nat /\ new[v] \in Nat
    BY DEF Lag
  <1> QED BY <1>1 DEF Lag

LEMMA DatedGrows ==
    ASSUME NEW ago \in [Values -> Nat], NEW new \in [Values -> Nat], NEW grant, NEW n \in Nat,
           NEW d \in Nat, NEW m \in Nat, n + d <= m,
           Dated(ago, grant, n), \A w \in Values : new[w] <= ago[w] + d
    PROVE  Dated(new, grant, m)
  BY LagGrows DEF Dated

(* Entries and fills that were there age by the time the step takes.         *)
LEMMA AgesAfter ==
    ASSUME TypeOK, SinceInv, SinceInv', AgesInv, NEW d \in {0, 1},
           \A k \in Keys, v \in Values : since'[k][v] <= since[k][v] + d,
           \A k \in DOMAIN cache' :
               /\ k \in DOMAIN cache /\ cache'[k].value = cache[k].value
               /\ cache'[k].age = cache[k].age + d /\ cache'[k].age < TTL,
           \A p \in Requests : req'[p].pc = "resolve" =>
               req'[p].age = 0 \/ (req[p].pc = "resolve" /\ req'[p].age = req[p].age),
           \A p \in Requests : req'[p].pc \in Filling =>
               /\ req[p].pc = req'[p].pc /\ req'[p].key = req[p].key /\ req'[p].perms = req[p].perms
               /\ req'[p].age = req[p].age + d /\ req'[p].age <= MaxFill
               /\ req'[p].gone => req[p].gone \/ Lag(since'[req[p].key], NoOverrides, req'[p].age)
    PROVE  AgesInv'
  <1>0. \A k \in Keys : since[k] \in [Values -> Nat] /\ since'[k] \in [Values -> Nat]
    BY DEF SinceInv
  <1>1. ASSUME NEW k \in DOMAIN cache'
        PROVE  Dated(since'[k], cache'[k].value, cache'[k].age + MaxFill)
    <2>1. k \in DOMAIN cache /\ k \in Keys /\ cache[k] \in EntryType
      BY DEF TypeOK
    <2>2. cache[k].age \in Nat /\ Dated(since[k], cache[k].value, cache[k].age + MaxFill)
      BY <2>1 DEF EntryType, AgesInv
    <2>3. cache[k].age + MaxFill \in Nat /\ cache'[k].age + MaxFill \in Nat
          /\ cache[k].age + MaxFill + d <= cache'[k].age + MaxFill
      BY <2>2, TimeAssumption
    <2>4. \A w \in Values : since'[k][w] <= since[k][w] + d
      BY <2>1
    <2>5. Dated(since'[k], cache[k].value, cache'[k].age + MaxFill)
      BY <1>0, <2>1, <2>2, <2>3, <2>4, DatedGrows
    <2> QED BY <2>5
  <1>2. ASSUME NEW p \in Requests, req'[p].pc \in Filling
        PROVE  /\ req'[p].pc = "read" => Dated(since'[req'[p].key], req'[p].perms, req'[p].age)
               /\ req'[p].pc = "overrides" =>
                     /\ Lag(since'[req'[p].key], req'[p].perms.org, req'[p].age)
                     /\ req'[p].gone => Lag(since'[req'[p].key], NoOverrides, req'[p].age)
    <2> DEFINE k == req[p].key
               n == req[p].age
               m == req'[p].age
    <2>1. req[p] \in RequestType /\ req[p].pc = req'[p].pc
      BY <1>2 DEF TypeOK
    <2>2. n \in Nat /\ k \in Keys
      BY <2>1 DEF RequestType
    <2>3. m \in Nat /\ n + d <= m /\ d \in Nat
      BY <1>2, <2>2
    <2>4. \A w \in Values : since'[k][w] <= since[k][w] + d
      BY <2>2
    <2>5. \A g : Dated(since[k], g, n) => Dated(since'[k], g, m)
      BY <1>0, <2>2, <2>3, <2>4, DatedGrows
    <2>6. \A v : Lag(since[k], v, n) => Lag(since'[k], v, m)
      BY <1>0, <2>2, <2>3, <2>4, LagGrows
    <2>7. req[p].pc = "read" => Dated(since[k], req[p].perms, n)
      BY DEF AgesInv
    <2>8. req[p].pc = "overrides" =>
             Lag(since[k], req[p].perms.org, n) /\ (req[p].gone => Lag(since[k], NoOverrides, n))
      BY DEF AgesInv
    <2>9. k = req'[p].key /\ req'[p].perms = req[p].perms
          /\ (req'[p].gone => req[p].gone \/ Lag(since'[k], NoOverrides, m))
      BY <1>2
    <2> HIDE DEF k, n, m
    <2>10. CASE req'[p].pc = "read"
      BY <2>1, <2>5, <2>7, <2>9, <2>10 DEF m
    <2>11. CASE req'[p].pc = "overrides"
      BY <2>1, <2>6, <2>8, <2>9, <2>11 DEF m
    <2>12. req'[p].pc = "read" \/ req'[p].pc = "overrides"
      BY <1>2 DEF Filling
    <2> QED BY <2>10, <2>11, <2>12
  <1>3. \A p \in Requests : req'[p].pc = "resolve" => req'[p].age = 0
    BY DEF AgesInv
  <1>4. \A p \in Requests : req'[p].pc = "read" \/ req'[p].pc = "overrides" => req'[p].pc \in Filling
    BY DEF Filling
  <1> QED BY <1>1, <1>2, <1>3, <1>4 DEF AgesInv

(* A statement of a fill leaves the entries and the other fills alone.       *)
LEMMA AgesAtStep ==
    ASSUME AgesInv, NEW q \in Requests, UNCHANGED <<cache, since>>, req'[q].pc \in Filling,
           req'[q].age <= MaxFill,
           req'[q].pc = "read" => Dated(since[req'[q].key], req'[q].perms, req'[q].age),
           req'[q].pc = "overrides" => /\ Lag(since[req'[q].key], req'[q].perms.org, req'[q].age)
                                       /\ ~req'[q].gone,
           \A p \in Requests : p # q => req'[p] = req[p]
    PROVE  AgesInv'
  <1>1. req'[q].pc # "resolve"
    BY DEF Filling
  <1>2. ASSUME NEW p \in Requests
        PROVE  /\ req'[p].pc = "resolve" => req'[p].age = 0
               /\ req'[p].pc \in Filling => req'[p].age <= MaxFill
               /\ req'[p].pc = "read" => Dated(since'[req'[p].key], req'[p].perms, req'[p].age)
               /\ req'[p].pc = "overrides" =>
                     /\ Lag(since'[req'[p].key], req'[p].perms.org, req'[p].age)
                     /\ req'[p].gone => Lag(since'[req'[p].key], NoOverrides, req'[p].age)
    <2>1. CASE p = q
      BY <1>1, <2>1
    <2>2. CASE p # q
      BY <2>2 DEF AgesInv
    <2> QED BY <2>1, <2>2
  <1> QED BY <1>2 DEF AgesInv

LEMMA AgesAtRead ==
    ASSUME TypeOK, FreshInv, StoredInv, SinceInv, AgesInv, NEW q \in Requests, ReadRow(q)
    PROVE  AgesInv'
  <1> DEFINE k == req[q].key
  <1>1. UNCHANGED <<cache, since>> /\ req[q].pc = "resolve" /\ ~req[q].gone
    BY DEF ReadRow, FreshInv
  <1>2. req[q] \in RequestType
    BY DEF TypeOK
  <1>3. /\ req'[q].pc = (IF k \in DOMAIN rows THEN "overrides" ELSE "read") /\ req'[q].pc \in Filling
        /\ req'[q].key = k /\ req'[q].age = req[q].age /\ req'[q].gone = req[q].gone
        /\ req'[q].perms = [Static(k) EXCEPT !.org = Resolve(k, rows).org]
        /\ \A p \in Requests : p # q => req'[p] = req[p]
    BY ReadRowIs DEF Filling
  <1>4. req'[q].age = 0 /\ 0 <= MaxFill /\ k \in Keys
    BY <1>1, <1>2, <1>3, TimeAssumption DEF AgesInv, RequestType
  <1>5. \A v \in PartsOf(Resolve(k, rows)) : Lag(since[k], v, 0)
    <2>1. k \in DOMAIN rows => Storable(k, rows[k].org) /\ rows[k].objects \in Overrides
      BY DEF StoredInv, TypeOK, GrantType
    <2>2. PartsOf(Resolve(k, rows)) \subseteq Values
      BY <1>4, <2>1, ResolvedIsValue
    <2> QED BY <1>4, <2>2 DEF Lag, SinceInv
  <1>6. req'[q].perms.org = Resolve(k, rows).org /\ req'[q].perms.objects = NoOverrides
    BY <1>3 DEF Static
  <1>7. k \notin DOMAIN rows => PartsOf(req'[q].perms) = PartsOf(Resolve(k, rows))
    BY <1>6 DEF PartsOf, Resolve, Static
  <1>8. req'[q].perms.org \in PartsOf(Resolve(k, rows))
    BY <1>6 DEF PartsOf
  <1>9. req'[q].pc = "read" => Dated(since[k], req'[q].perms, 0)
    BY <1>3, <1>5, <1>7 DEF Dated
  <1>10. Lag(since[k], req'[q].perms.org, 0)
    BY <1>5, <1>8
  <1> QED BY <1>1, <1>3, <1>4, <1>9, <1>10, AgesAtStep

LEMMA AgesAtOverrides ==
    ASSUME TypeOK, StoredInv, SinceInv, AgesInv, NEW q \in Requests, ReadOverrides(q)
    PROVE  AgesInv'
  <1> DEFINE k == req[q].key
             n == req[q].age
             v == OverridesOf(req[q])
  <1>1. UNCHANGED <<cache, since>>
    BY DEF ReadOverrides
  <1>2. req[q] \in RequestType /\ k \in Keys /\ n \in Nat
    BY DEF TypeOK, RequestType
  <1>3. /\ req[q].pc = "overrides" /\ req'[q].pc = "read" /\ req'[q].key = k /\ req'[q].age = n
        /\ req'[q].perms = [req[q].perms EXCEPT !.objects = v]
        /\ \A p \in Requests : p # q => req'[p] = req[p]
    BY ReadOverridesIs
  <1>4. /\ n <= MaxFill /\ Lag(since[k], req[q].perms.org, n)
        /\ req[q].gone => Lag(since[k], NoOverrides, n)
    BY <1>3 DEF AgesInv, Filling
  <1>5. Lag(since[k], v, n)
    <2>1. CASE req[q].gone
      BY <1>4, <2>1 DEF OverridesOf
    <2>2. CASE ~req[q].gone
      <3>1. v = Resolve(k, rows).objects
        BY <2>2 DEF OverridesOf, Resolve, Static
      <3>2. v \in PartsOf(Resolve(k, rows))
        BY <3>1 DEF PartsOf
      <3>3. since[k][v] = 0
        BY <1>2, <3>2 DEF SinceInv
      <3>4. v \in Values
        BY OverridesType DEF Values
      <3> HIDE DEF v, k
      <3> QED BY <1>2, <3>3, <3>4 DEF Lag
    <2> QED BY <2>1, <2>2
  <1>6. req[q].perms \in GrantType
    BY <1>2 DEF RequestType
  <1>7. PartsOf(req'[q].perms) = {req[q].perms.org, v}
    <2> HIDE DEF v
    <2> QED BY <1>3, <1>6 DEF PartsOf, GrantType
  <1>8. Dated(since[k], req'[q].perms, n)
    BY <1>4, <1>5, <1>7 DEF Dated
  <1> QED BY <1>1, <1>3, <1>4, <1>8, AgesAtStep DEF Filling

LEMMA AgesAtStore ==
    ASSUME TypeOK, SinceInv, AgesInv, NEW q \in Requests, Store(q)
    PROVE  AgesInv'
  <1> DEFINE k == req[q].key
  <1>1. /\ UNCHANGED since /\ req[q].pc = "read" /\ req[q] \in RequestType
        /\ DOMAIN cache' = DOMAIN cache \cup {k}
        /\ cache'[k].age = 0 /\ cache'[k].value = req[q].perms
        /\ \A c \in DOMAIN cache : c # k => cache'[c] = cache[c]
    BY DEF Store, TypeOK
  <1>2. req'[q].pc = "authed" /\ \A p \in Requests : p # q => req'[p] = req[p]
    BY DEF Store, TypeOK, Idle
  <1>3. req[q].age \in Nat /\ req[q].age <= MaxFill /\ k \in Keys
        /\ Dated(since[k], req[q].perms, req[q].age)
    BY <1>1 DEF AgesInv, RequestType, Filling
  <1>4. 0 < TTL /\ Dated(since[k], req[q].perms, 0 + MaxFill)
    <2>1. since[k] \in [Values -> Nat]
      BY <1>3 DEF SinceInv
    <2>2. \A w \in Values : since[k][w] <= since[k][w] + 0
      BY <2>1
    <2> QED BY <1>3, <2>1, <2>2, TimeAssumption, DatedGrows
  <1>5. ASSUME NEW c \in DOMAIN cache'
        PROVE  cache'[c].age < TTL /\ Dated(since'[c], cache'[c].value, cache'[c].age + MaxFill)
    <2>1. CASE c = k
      BY <1>1, <1>4, <2>1
    <2>2. CASE c # k
      BY <1>1, <2>2 DEF AgesInv
    <2> QED BY <2>1, <2>2
  <1>6. \A p \in Requests : req'[p].pc \in {"resolve", "read", "overrides"} \/ req'[p].pc \in Filling => p # q
    BY <1>2 DEF Filling
  <1> QED BY <1>1, <1>2, <1>5, <1>6 DEF AgesInv

LEMMA AgesKept ==
    ASSUME TypeOK, FreshInv, StoredInv, SinceInv, SinceInv', AgesInv, [Next]_vars,
           ~Tick => \A k \in Keys, v \in Values : since'[k][v] <= since[k][v],
           Tick => \A k \in Keys, v \in Values : since'[k][v] <= since[k][v] + 1
    PROVE  AgesInv'
  <1>0. /\ \A k \in Keys, v \in Values : since[k][v] \in Nat
        /\ \A k \in DOMAIN cache : cache[k] \in EntryType /\ cache[k].age < TTL
        /\ \A p \in Requests : req[p].age \in Nat /\ (req[p].pc \in Filling => req[p].age <= MaxFill)
    BY DEF SinceInv, TypeOK, RequestType, AgesInv
  <1>1. CASE Tick
    <2>1. \A p \in Requests : req'[p].pc \in Filling =>
             /\ req[p].pc = req'[p].pc /\ req'[p].key = req[p].key /\ req'[p].perms = req[p].perms
             /\ req'[p].age = req[p].age + 1 /\ req'[p].age <= MaxFill /\ req'[p].gone = req[p].gone
      BY <1>0, <1>1, TickIs, TimeAssumption
    <2>2. \A k \in DOMAIN cache' :
             /\ k \in DOMAIN cache /\ cache'[k].value = cache[k].value
             /\ cache'[k].age = cache[k].age + 1 /\ cache'[k].age < TTL
      BY <1>1, TickIs
    <2>3. \A p \in Requests : req'[p].pc = "resolve" => req[p].pc = "resolve" /\ req'[p].age = req[p].age
      BY <1>1, TickIs DEF Filling
    <2>4. \A k \in Keys, v \in Values : since'[k][v] <= since[k][v] + 1
      BY <1>1
    <2> QED BY <2>1, <2>2, <2>3, <2>4, AgesAfter
  <1>2. ASSUME ~Tick,
               \A k \in DOMAIN cache' : k \in DOMAIN cache /\ cache'[k] = cache[k],
               \A p \in Requests : req'[p].pc = "resolve" =>
                   req'[p].age = 0 \/ (req[p].pc = "resolve" /\ req'[p].age = req[p].age),
               \A p \in Requests : req'[p].pc \in Filling =>
                   /\ req[p].pc = req'[p].pc /\ req'[p].key = req[p].key
                   /\ req'[p].perms = req[p].perms /\ req'[p].age = req[p].age
                   /\ req'[p].gone => req[p].gone \/ Lag(since'[req[p].key], NoOverrides, req[p].age)
        PROVE  AgesInv'
    <2>1. \A k \in Keys, v \in Values : since'[k][v] <= since[k][v] + 0
      <3>1. \A k \in Keys, v \in Values : since[k][v] + 0 = since[k][v]
        BY <1>0
      <3> QED BY <1>2, <3>1
    <2>2. \A k \in DOMAIN cache' :
             /\ k \in DOMAIN cache /\ cache'[k].value = cache[k].value
             /\ cache'[k].age = cache[k].age + 0 /\ cache'[k].age < TTL
      BY <1>0, <1>2 DEF EntryType
    <2>3. \A p \in Requests : req'[p].pc \in Filling =>
             /\ req[p].pc = req'[p].pc /\ req'[p].key = req[p].key /\ req'[p].perms = req[p].perms
             /\ req'[p].age = req[p].age + 0 /\ req'[p].age <= MaxFill
             /\ req'[p].gone => req[p].gone \/ Lag(since'[req[p].key], NoOverrides, req'[p].age)
      BY <1>0, <1>2
    <2> QED BY <1>2, <2>1, <2>2, <2>3, AgesAfter
  <1>3. CASE ~Tick /\ UNCHANGED vars
    BY <1>2, <1>3 DEF vars
  <1>4. CASE ~Tick /\ Restart
    BY <1>2, <1>4 DEF Restart, Idle, Filling
  <1>5. ASSUME ~Tick, NEW q \in Requests, Handle(q) PROVE AgesInv'
    <2>1. CASE Aside(q)
      BY <1>2, <1>5, <2>1 DEF Aside
    <2>2. CASE ReadRow(q)
      BY <2>2, AgesAtRead
    <2>3. CASE ReadOverrides(q)
      BY <2>3, AgesAtOverrides
    <2>4. CASE Store(q)
      BY <2>4, AgesAtStore
    <2>5. CASE Write(q)
      BY <1>2, <1>5, <2>5, WriteIs DEF SameRequest, Filling
    <2>6. CASE Commit(q)
      <3>1. req'[q].pc = "idle"
        BY <2>6, CommitIs DEF Idle
      <3>2. ASSUME NEW p \in Requests, req[q].op = "delete", ~req[q].gone, req[p].key = req[q].role
            PROVE  Lag(since'[req[p].key], NoOverrides, req[p].age)
        <4>1. req[p].key \in Keys /\ req[p].age \in Nat
          BY DEF TypeOK, RequestType
        <4>2. req[p].key \notin DOMAIN rows'
          <5>1. rows' = RowsAfter(req[q])
            BY <2>6, CommitIs
          <5>2. RowsAfter(req[q]) = [k \in DOMAIN rows \ {req[q].role} |-> rows[k]]
            BY <3>2 DEF RowsAfter
          <5> QED BY <5>1, <5>2, <3>2
        <4>3. NoOverrides \in PartsOf(Resolve(req[p].key, rows'))
          BY <4>2 DEF Resolve, Static, PartsOf
        <4>4. since'[req[p].key][NoOverrides] = 0
          BY <4>1, <4>3 DEF SinceInv
        <4>5. NoOverrides \in Values
          BY OverridesAssumption DEF Values
        <4> QED BY <4>1, <4>4, <4>5 DEF Lag
      <3>3. \A p \in Requests : p # q => SameRequest(p)
               /\ (req'[p].gone => req[p].gone \/ Lag(since'[req[p].key], NoOverrides, req[p].age))
        BY <2>6, <3>2, CommitIs
      <3> QED BY <1>2, <1>5, <2>6, <3>1, <3>3, CommitIs DEF SameRequest, Filling
    <2>7. ASSUME NEW k \in Keys, StartCreate(q, k) \/ StartUpdate(q, k) \/ StartObject(q, k) PROVE AgesInv'
      <3>1. UNCHANGED cache /\ \E op, from, g : Check(q, op, k, from, g, Founder)
        BY <2>7 DEF StartCreate, StartUpdate, StartObject
      <3>2. req'[q].pc = "checked" /\ \A p \in Requests : p # q => req'[p] = req[p]
        BY <3>1, CheckIs
      <3> QED BY <1>2, <1>5, <3>1, <3>2 DEF Filling
    <2> QED BY <1>5, <2>1, <2>2, <2>3, <2>4, <2>5, <2>6, <2>7, HandlesAre
  <1> QED BY <1>1, <1>3, <1>4, <1>5 DEF Next

LEMMA RecentKept ==
    ASSUME TypeOK, TypeOK', FreshInv, RecentInv, [Next]_vars
    PROVE  RecentInv'
  <1>1. StoredInv'
    BY StoredKept DEF RecentInv
  <1>2. /\ SinceInv'
        /\ ~Tick => \A k \in Keys, v \in Values : since'[k][v] <= since[k][v]
        /\ Tick => \A k \in Keys, v \in Values : since'[k][v] <= since[k][v] + 1
    BY <1>1, SinceKept DEF RecentInv
  <1>3. AgesInv'
    BY <1>2, AgesKept DEF RecentInv
  <1> QED BY <1>1, <1>2, <1>3 DEF RecentInv

(* Only a hit and the end of a fill let a request in.                        *)
LEMMA AuthedBy ==
    ASSUME TypeOK, [Next]_vars, NEW q \in Requests, req'[q].pc = "authed", req[q].pc # "authed"
    PROVE  Hit(q) \/ Store(q)
  <1>0. req \in [Requests -> RequestType]
    BY DEF TypeOK
  <1>1. ~UNCHANGED vars /\ ~Tick /\ ~Restart
    BY TickIs DEF vars, Restart, Idle
  <1>2. PICK p \in Requests : Handle(p)
    BY <1>1 DEF Next
  <1>3. p = q
    <2> SUFFICES ASSUME p # q PROVE req'[q].pc = req[q].pc
      OBVIOUS
    <2>1. ASSUME NEW k \in Keys, StartCreate(p, k) \/ StartUpdate(p, k) \/ StartObject(p, k) PROVE req'[q] = req[q]
      <3>1. \E op, from, g : Check(p, op, k, from, g, Founder)
        BY <2>1 DEF StartCreate, StartUpdate, StartObject
      <3> QED BY <3>1, CheckIs
    <2>2. CASE Aside(p) \/ ReadRow(p) \/ ReadOverrides(p) \/ Store(p)
      BY <1>0, <2>2 DEF Aside, ReadRow, ReadOverrides, Store
    <2>3. CASE Write(p) \/ Commit(p)
      BY <2>3, WriteIs, CommitIs DEF SameRequest
    <2> QED BY <1>2, <2>1, <2>2, <2>3, HandlesAre
  <1>4. CASE Handle(q)
    <2>1. ASSUME NEW op, NEW k, NEW from, NEW g, NEW m, Check(q, op, k, from, g, m) PROVE FALSE
      BY <2>1, CheckIs
    <2>2. ASSUME NEW k \in Keys, StartCreate(q, k) \/ StartUpdate(q, k) \/ StartObject(q, k) \/ StartDelete(q, k)
          PROVE  FALSE
      BY <2>1, <2>2 DEF StartCreate, StartUpdate, StartObject, StartDelete
    <2>3. ASSUME NEW k \in Keys, NEW m \in Members, StartAssign(q, k, m) \/ StartTransfer(q, m)
          PROVE  FALSE
      BY <2>1, <2>3 DEF StartAssign, StartTransfer
    <2>4. ~\E m \in Members : StartTransfer(q, m)
      BY <2>1 DEF StartTransfer
    <2>5. ~\E m \in Members : Arrive(q, m)
      BY <1>0 DEF Arrive, Idle
    <2>6. ~ReadRow(q) /\ ~ReadOverrides(q)
      BY ReadRowIs, ReadOverridesIs
    <2>7. ~Write(q) /\ ~Commit(q)
      BY WriteIs, CommitIs DEF Idle
    <2>8. ~Transfer(q) /\ ~End(q)
      BY <1>0 DEF Transfer, End, Idle, RequestType
    <2> QED BY <1>4, <2>2, <2>3, <2>4, <2>5, <2>6, <2>7, <2>8 DEF Handle
  <1> QED BY <1>2, <1>3, <1>4

(* The age of each part of the grant a request is let in with is bounded by  *)
(* the time to live and the duration of one resolution, however hits, fills  *)
(* in two statements, edits of the row and of the overrides, deletions and   *)
(* restarts interleave.  The two parts need not have been the role's at one  *)
(* time.                                                                     *)
THEOREM GrantsStayRecent == Spec => GrantsAreRecent
  <1>1. Init => Inv /\ RecentInv
    BY InitTypes, RolesInit, FreshInit, CacheInit, RecentInit DEF Inv
  <1>2. Inv /\ RecentInv /\ [Next]_vars => Inv' /\ RecentInv'
    <2>1. Inv /\ [Next]_vars => Inv'
      BY TypesKept, RolesKept, FreshKept, CacheKept DEF Inv
    <2>2. Inv /\ Inv' /\ RecentInv /\ [Next]_vars => RecentInv'
      BY RecentKept DEF Inv
    <2> QED BY <2>1, <2>2
  <1>3. ASSUME TypeOK, RecentInv, [Next]_vars, NEW q \in Requests,
               req'[q].pc = "authed", req[q].pc # "authed", NEW v \in PartsOf(req'[q].perms)
        PROVE  since[req[q].key][v] < TTL + MaxFill
    <2> DEFINE k == req[q].key
    <2>0. req[q] \in RequestType /\ k \in Keys
      BY <1>3 DEF TypeOK, RequestType
    <2>1. CASE Hit(q)
      <3>1. k \in DOMAIN cache /\ req'[q].perms = cache[k].value
        BY <1>3, <2>0, <2>1 DEF Hit, TypeOK, RequestType
      <3>2. cache[k].age \in Nat /\ cache[k].age < TTL
            /\ Lag(since[k], v, cache[k].age + MaxFill)
        BY <1>3, <3>1 DEF RecentInv, AgesInv, Dated, TypeOK, EntryType
      <3>3. since[k][v] \in Nat /\ since[k][v] <= cache[k].age + MaxFill
        BY <1>3, <2>0, <3>2 DEF Lag, RecentInv, SinceInv
      <3> QED BY <3>2, <3>3, TimeAssumption
    <2>2. CASE Store(q)
      <3>1. req[q].pc = "read" /\ req'[q].perms = req[q].perms
        BY <1>3, <2>2 DEF Store, TypeOK, Idle
      <3>2. req[q].age \in Nat /\ req[q].age <= MaxFill /\ Lag(since[k], v, req[q].age)
        BY <1>3, <2>0, <3>1 DEF RecentInv, AgesInv, Dated, RequestType, Filling
      <3>3. since[k][v] \in Nat /\ since[k][v] <= req[q].age
        BY <1>3, <2>0, <3>2 DEF Lag, RecentInv, SinceInv
      <3> QED BY <3>2, <3>3, TimeAssumption
    <2> QED BY <1>3, <2>1, <2>2, AuthedBy
  <1>4. Inv /\ RecentInv /\ [Next]_vars =>
            [\A q \in Requests : req'[q].pc = "authed" /\ req[q].pc # "authed" =>
                 \A v \in PartsOf(req'[q].perms) : since[req[q].key][v] < TTL + MaxFill]_vars
    BY <1>3 DEF Inv
  <1> QED BY <1>1, <1>2, <1>4, PTL DEF Spec, GrantsAreRecent

-----------------------------------------------------------------------------
(* A transfer is to another member than its caller.                          *)
Transferring(p) == Open(p, "transfer")
TransferInv == \A p \in Requests : Transferring(p) => req[p].mem # req[p].who

LEMMA QuietForTransfers ==
    ASSUME TransferInv,
           \A p \in Requests : Transferring(p)' =>
               Transferring(p) /\ req'[p].who = req[p].who /\ req'[p].mem = req[p].mem
    PROVE  TransferInv'
  BY DEF TransferInv

LEMMA TransfersKept == TypeOK /\ TransferInv /\ [Next]_vars => TransferInv'
  <1> SUFFICES ASSUME TypeOK, TransferInv, [Next]_vars PROVE TransferInv'
    OBVIOUS
  <1>0. req \in [Requests -> RequestType]
    BY DEF TypeOK
  <1>1. CASE UNCHANGED vars
    BY <1>1, QuietForTransfers DEF vars, Transferring, Open
  <1>2. CASE Tick
    BY <1>2, TickIs, QuietForTransfers DEF Transferring, Open
  <1>3. CASE Restart
    BY <1>3, QuietForTransfers DEF Restart, Idle, Transferring, Open, InTx
  <1>4. ASSUME NEW q \in Requests, Handle(q) PROVE TransferInv'
    <2>1. ASSUME \A p \in Requests : p # q => req'[p] = req[p], ~Transferring(q)'
          PROVE  TransferInv'
      BY <2>1, QuietForTransfers DEF Transferring, Open
    <2>2. ASSUME NEW m \in Members, Arrive(q, m) PROVE TransferInv'
      BY <1>0, <2>1, <2>2 DEF Arrive, Idle, Transferring, Open, InTx
    <2>3. CASE Hit(q)
      BY <1>0, <2>1, <2>3 DEF Hit, Transferring, Open, InTx
    <2>4. CASE ReadRow(q) \/ ReadOverrides(q)
      BY <2>1, <2>4, ReadRowIs, ReadOverridesIs DEF Transferring, Open, InTx
    <2>5. CASE Store(q)
      BY <1>0, <2>1, <2>5 DEF Store, Idle, Transferring, Open, InTx
    <2>6. ASSUME NEW op \in {"create", "update", "object", "delete", "assign"}, NEW k, NEW from, NEW g, NEW m,
                 Check(q, op, k, from, g, m)
          PROVE  TransferInv'
      BY <2>1, <2>6, CheckIs DEF Transferring, Open
    <2>7. ASSUME NEW k \in Keys, StartCreate(q, k) \/ StartUpdate(q, k) \/ StartObject(q, k) \/ StartDelete(q, k)
          PROVE  TransferInv'
      BY <2>6, <2>7 DEF StartCreate, StartUpdate, StartObject, StartDelete
    <2>8. ASSUME NEW k \in Keys, NEW m \in Members, StartAssign(q, k, m) PROVE TransferInv'
      BY <2>6, <2>8 DEF StartAssign
    <2>9. ASSUME NEW m \in Members, StartTransfer(q, m) PROVE TransferInv'
      <3>1. m # req[q].who /\ Check(q, "transfer", "owner", "owner", Static("owner"), m)
        BY <2>9 DEF StartTransfer
      <3> QED BY <3>1, CheckIs DEF TransferInv, Transferring, Open
    <2>10. CASE Write(q)
      BY <2>10, WriteIs, QuietForTransfers DEF SameRequest, Transferring, Open, InTx
    <2>11. CASE Commit(q)
      <3>1. req'[q].pc = "idle"
        BY <2>11, CommitIs DEF Idle
      <3> QED BY <2>11, <3>1, CommitIs, QuietForTransfers DEF SameRequest, Transferring, Open, InTx
    <2>12. CASE Transfer(q)
      <3>1. \A p \in Requests : p # q => req'[p] = req[p]
        BY <2>12 DEF Transfer, TypeOK
      <3>2. CASE req[q].pc = "checked"
        <4>1. req'[q].who = req[q].who /\ req'[q].mem = req[q].mem
          BY <1>0, <2>12, <3>2 DEF Transfer, RequestType
        <4>2. Transferring(q)
          BY <2>12, <3>2 DEF Transfer, Transferring, Open, InTx
        <4> QED BY <3>1, <4>1, <4>2, QuietForTransfers DEF Transferring, Open
      <3>3. CASE req[q].pc # "checked"
        BY <1>0, <2>1, <2>12, <3>1, <3>3 DEF Transfer, Idle, Transferring, Open, InTx
      <3> QED BY <3>2, <3>3
    <2>13. CASE End(q)
      BY <1>0, <2>1, <2>13 DEF End, Idle, Transferring, Open, InTx
    <2> QED BY <1>4, <2>2, <2>3, <2>4, <2>5, <2>7, <2>8, <2>9, <2>10, <2>11, <2>12, <2>13 DEF Handle
  <1> QED BY <1>1, <1>2, <1>3, <1>4 DEF Next

(* A commit or a transfer changes one member's role.                         *)
LEMMA MemberChanges ==
    ASSUME TypeOK, [Next]_vars
    PROVE  \/ UNCHANGED member
           \/ \E q \in Requests : req[q].pc = "written" /\ req[q].op = "assign" /\ Commit(q)
           \/ \E q \in Requests : Transfer(q)
  <1>1. CASE UNCHANGED vars \/ Tick \/ Restart
    BY <1>1 DEF vars, Tick, Restart
  <1>2. ASSUME NEW q \in Requests, Handle(q)
        PROVE  \/ UNCHANGED member
               \/ req[q].pc = "written" /\ req[q].op = "assign" /\ Commit(q)
               \/ Transfer(q)
    <2>1. CASE Commit(q)
      BY <2>1 DEF Commit
    <2> QED BY <1>2, <2>1
        DEF Handle, Arrive, Hit, ReadRow, ReadOverrides, Store, StartCreate, StartUpdate, StartObject, StartDelete,
            StartAssign, StartTransfer, Write, End
  <1> QED BY <1>1, <1>2 DEF Next

LEMMA OwnerLost ==
    ASSUME TypeOK, TransferInv, [Next]_vars, Owners # {}, Owners' = {}
    PROVE  \E q \in Requests : OwnerLostBy(q)
  <1>1. PICK w \in Members : member[w] = "owner"
    BY DEF Owners
  <1>2. \A m \in Members : member'[m] # "owner"
    BY DEF Owners
  <1>3. member \in [Members -> Keys] /\ req \in [Requests -> RequestType]
    BY DEF TypeOK
  <1>4. ASSUME NEW q \in Requests, req[q].pc = "written", req[q].op = "assign", Commit(q)
        PROVE  OwnerLostBy(q)
    <2>1. member' = [member EXCEPT ![req[q].mem] = req[q].role]
      BY <1>4 DEF Commit
    <2>2. w = req[q].mem
      BY <1>1, <1>2, <1>3, <2>1
    <2> QED BY <1>1, <1>4, <2>2 DEF OwnerLostBy
  <1>5. ASSUME NEW q \in Requests, Transfer(q)
        PROVE  OwnerLostBy(q)
    <2>1. req[q].mem \in Members /\ req[q].who \in Members
      BY <1>3 DEF RequestType
    <2>2. req[q].pc = "promoted"
      <3> SUFFICES ASSUME req[q].pc # "promoted" PROVE FALSE
        OBVIOUS
      <3>1. member' = [member EXCEPT ![req[q].mem] = "owner"]
        BY <1>5 DEF Transfer, TransferStep
      <3> QED BY <1>2, <1>3, <2>1, <3>1
    <2>3. member' = [member EXCEPT ![req[q].who] = "admin"]
      BY <1>5, <2>2 DEF Transfer, TransferStep
    <2>4. req[q].mem # req[q].who
      BY <1>5, <2>2 DEF TransferInv, Transferring, Open, InTx, Transfer
    <2>5. member[req[q].mem] # "owner"
      BY <1>2, <1>3, <2>1, <2>3, <2>4
    <2> QED BY <2>2, <2>5 DEF OwnerLostBy
  <1>6. ~UNCHANGED member
    BY <1>1, <1>2
  <1> QED BY <1>4, <1>5, <1>6, MemberChanges

(* An organisation with an owner keeps one, unless the owner's own role is   *)
(* assigned away or the target of a transfer has lost the ownership again.   *)
THEOREM OwnersStay == Spec => OwnersRemain
  <1>1. Init => Inv /\ TransferInv
    <2>1. Init => TransferInv
      BY DEF Init, Idle, TransferInv, Transferring, Open, InTx
    <2> QED BY <2>1, InitTypes, RolesInit, FreshInit, CacheInit DEF Inv
  <1>2. Inv /\ TransferInv /\ [Next]_vars => Inv' /\ TransferInv'
    BY TypesKept, RolesKept, FreshKept, CacheKept, TransfersKept DEF Inv
  <1>3. Inv /\ TransferInv /\ [Next]_vars =>
            [Owners # {} /\ Owners' = {} => \E q \in Requests : OwnerLostBy(q)]_vars
    BY OwnerLost DEF Inv
  <1> QED BY <1>1, <1>2, <1>3, PTL DEF Spec, OwnersRemain
=============================================================================
