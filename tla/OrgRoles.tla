------------------------------ MODULE OrgRoles ------------------------------
(***************************************************************************)
(* Roles of one organisation, the members that hold them, and the grant    *)
(* cache of the API process.  A request reads its member's role key,       *)
(* resolves the key to a grant (from the cache, or from the role row, in a *)
(* transaction of its own) and runs its procedure in a second transaction  *)
(* at READ COMMITTED.  Edits invalidate the cache before they commit.      *)
(*                                                                         *)
(* Of the system roles there are owner and admin: member and viewer are    *)
(* handled as admin is, with no org action seeded.  A grant has two parts  *)
(* that are stored and read apart: the role's row (org actions; its object *)
(* defaults go with them) and its overrides for objects.  Time is kept as  *)
(* ages, which stop counting once they no longer matter.                   *)
(***************************************************************************)
EXTENDS Integers

CONSTANTS
    Members, Founder,  \* member rows, and who owns the organisation at first
    Customs,           \* keys of custom roles
    Requests,          \* requests in flight
    Grants,            \* what the role editor stores: sets of org actions
    Overrides,         \* what it stores as a role's overrides
    NoOverrides,       \* a role without any
    TTL,               \* CACHE_TTL_MS
    MaxFill,           \* bound: duration of one resolution of a role
    MaxEdits           \* bound: procedures that change something

ASSUME RolesAssumption == Founder \in Members /\ Customs \cap {"owner", "admin"} = {}
ASSUME GrantsAssumption == Grants \subseteq SUBSET {"roles", "members", "transfer"}
ASSUME OverridesAssumption == NoOverrides \in Overrides
ASSUME TimeAssumption == TTL \in Nat \ {0} /\ MaxFill \in Nat /\ MaxEdits \in Nat

VARIABLES
    rows,      \* committed role rows and their overrides, by role key
    member,    \* member.role
    cache,     \* the process's Map: entry by role key
    req,       \* what each request is doing
    since,     \* history: how long ago a part of a grant was last that of a role
    edits,     \* procedures begun
    crossed    \* history: roles assigned by one request while another deletes them

vars == <<rows, member, cache, req, since, edits, crossed>>

System == {"owner", "admin"}
Keys == System \cup Customs
OrgActions == {"roles", "members", "transfer"}
LongAgo == TTL + MaxFill

Seed(k) == CASE k = "owner" -> OrgActions [] k = "admin" -> {"roles", "members"} [] OTHER -> {}

(* resolvePermissions of the stored row, resolveFromStatic without one;      *)
(* canOrg passes the owner whatever the row says, as its full seed does here *)
Static(k) == [org |-> Seed(k), objects |-> NoOverrides]
Resolve(k, rs) ==
    IF k \in DOMAIN rs THEN [org |-> rs[k].org \cup Seed(k), objects |-> rs[k].objects] ELSE Static(k)
Values == {g \cup Seed(k) : g \in Grants \cup {{}}, k \in Keys} \cup Overrides
PartsOf(grant) == {grant.org, grant.objects}

Idle == [pc |-> "idle", who |-> Founder, key |-> "owner", perms |-> Static("none"), age |-> 0,
         raced |-> FALSE, absent |-> FALSE, op |-> "none", role |-> "admin",
         grant |-> Static("none"), mem |-> Founder, gone |-> FALSE]

InTx == {"checked", "written", "promoted"}
Authorised == InTx \cup {"authed"}
RowOps == {"update", "object", "delete"}
Filling == {"overrides", "read"}

Init ==
    /\ \E made \in SUBSET Customs, over \in Overrides :
          rows = [k \in System \cup made |-> IF k \in System THEN Static(k) ELSE [Static(k) EXCEPT !.objects = over]]
    /\ member \in {f \in [Members -> System] : \A m \in Members : f[m] = "owner" <=> m = Founder}
    /\ cache = <<>>
    /\ req = [q \in Requests |-> Idle]
    /\ since = [k \in Keys |-> [v \in Values |-> IF v \in PartsOf(Resolve(k, rows)) THEN 0 ELSE LongAgo]]
    /\ edits = 0
    /\ crossed = {}

-----------------------------------------------------------------------------
(* createContext: the member's role key, then its grant.                     *)
Arrive(q, m) ==
    /\ req[q].pc = "idle"
    /\ req' = [req EXCEPT ![q] = [Idle EXCEPT !.pc = "resolve", !.who = m, !.key = member[m]]]
    /\ UNCHANGED <<rows, member, cache, since, edits, crossed>>

(* The cache holds the entries younger than the time to live: older ones     *)
(* stay in the Map, but are only ever replaced.  A hit does not renew one.   *)
ServedRenewed(k) == [cache EXCEPT ![k].age = 0]
Served(k) == cache

Hit(q) ==
    LET k == req[q].key IN
    /\ req[q].pc = "resolve"
    /\ k \in DOMAIN cache
    /\ req' = [req EXCEPT ![q] = [@ EXCEPT !.pc = "authed", !.perms = cache[k].value]]
    /\ cache' = Served(k)
    /\ UNCHANGED <<rows, member, since, edits, crossed>>

(* An edit of the role has reached its row and has not committed.            *)
Pending(k) == \E p \in Requests : req[p].pc = "written" /\ req[p].op \in RowOps /\ req[p].role = k

(* The two statements of a resolution, each of which sees what is committed  *)
(* when it runs: getRoleByKey, and listObjectPermissions by the id found,    *)
(* which a deletion in between leaves without overrides.                     *)
ReadRow(q) ==
    LET k == req[q].key IN
    /\ req[q].pc = "resolve"
    /\ k \notin DOMAIN cache
    /\ req' = [req EXCEPT ![q] = [@ EXCEPT !.pc = IF k \in DOMAIN rows THEN "overrides" ELSE "read",
                                           !.perms = [Static(k) EXCEPT !.org = Resolve(k, rows).org],
                                           !.raced = Pending(k), !.absent = k \notin DOMAIN rows]]
    /\ UNCHANGED <<rows, member, cache, since, edits, crossed>>

OverridesOf(r) == IF r.key \in DOMAIN rows /\ ~r.gone THEN rows[r.key].objects ELSE NoOverrides

ReadOverrides(q) ==
    /\ req[q].pc = "overrides"
    /\ req' = [req EXCEPT ![q] = [@ EXCEPT !.pc = "read", !.perms.objects = OverridesOf(req[q]), !.gone = FALSE]]
    /\ UNCHANGED <<rows, member, cache, since, edits, crossed>>

(* The entry is dated when it is stored, not when the row was read.          *)
Store(q) ==
    LET k == req[q].key
        e == [age |-> 0, value |-> req[q].perms, raced |-> req[q].raced, absent |-> req[q].absent]
    IN
    /\ req[q].pc = "read"
    /\ cache' = [c \in DOMAIN cache \cup {k} |-> IF c = k THEN e ELSE cache[c]]
    /\ req' = [req EXCEPT ![q] = [Idle EXCEPT !.pc = "authed", !.who = req[q].who,
                                              !.key = k, !.perms = req[q].perms]]
    /\ UNCHANGED <<rows, member, since, edits, crossed>>

-----------------------------------------------------------------------------
(* Procedures: permissionProcedure's gate and the reads that open each of    *)
(* them.  Writes and locks come after, in the same transaction.              *)
Begins(q, op, needs) ==
    /\ req[q].pc = "authed"
    /\ needs \in req[q].perms.org
    /\ op \in {"create", "assign", "transfer"} \cup RowOps

Check(q, op, k, from, g, m) ==
    /\ edits < MaxEdits
    /\ edits' = edits + 1
    /\ req' = [req EXCEPT ![q] = [Idle EXCEPT !.pc = "checked", !.who = req[q].who, !.op = op,
                                              !.role = k, !.key = from, !.grant = g, !.mem = m]]

(* role.create: a key nobody uses, and the row of the role it copies, if any *)
(* (from = k is none).                                                       *)
StartCreate(q, k) ==
    /\ Begins(q, "create", "roles")
    /\ k \in Customs \ DOMAIN rows
    /\ \E from \in {k} \cup DOMAIN rows :
          Check(q, "create", k, from, [Static(k) EXCEPT !.org = IF from = k THEN {} ELSE rows[from].org], Founder)
    /\ UNCHANGED <<rows, member, cache, since, crossed>>

StartUpdate(q, k) ==
    /\ Begins(q, "update", "roles")
    /\ k \in DOMAIN rows \ {"owner"}
    /\ \E g \in Grants : Check(q, "update", k, k, [Static(k) EXCEPT !.org = g], Founder)
    /\ UNCHANGED <<rows, member, cache, since, crossed>>

(* setObjectPermission: sets or clears an override.                          *)
StartObject(q, k) ==
    /\ Begins(q, "object", "roles")
    /\ k \in DOMAIN rows \ {"owner"}
    /\ \E v \in Overrides : Check(q, "object", k, k, [Static(k) EXCEPT !.objects = v], Founder)
    /\ UNCHANGED <<rows, member, cache, since, crossed>>

Assigning(k) == \E p \in Requests : req[p].pc \in InTx /\ req[p].op = "assign" /\ req[p].role = k
Deleting(k) == \E p \in Requests : req[p].pc \in InTx /\ req[p].op = "delete" /\ req[p].role = k

InUseNever(k) == FALSE
InUse(k) == \E m \in Members : member[m] = k

StartDelete(q, k) ==
    /\ Begins(q, "delete", "roles")
    /\ k \in DOMAIN rows \ System
    /\ ~InUse(k)
    /\ Check(q, "delete", k, k, Static(k), Founder)
    /\ crossed' = IF Assigning(k) THEN crossed \cup {k} ELSE crossed
    /\ UNCHANGED <<rows, member, cache, since>>

StartAssign(q, k, m) ==
    /\ Begins(q, "assign", "members")
    /\ k \in DOMAIN rows \ {"owner"}
    /\ Check(q, "assign", k, k, Static(k), m)
    /\ crossed' = IF Deleting(k) THEN crossed \cup {k} ELSE crossed
    /\ UNCHANGED <<rows, member, cache, since>>

StartTransfer(q, m) ==
    /\ Begins(q, "transfer", "transfer")
    /\ m # req[q].who
    /\ Check(q, "transfer", "owner", "owner", Static("owner"), m)
    /\ UNCHANGED <<rows, member, cache, since, crossed>>

(* Row locks, held from the write to the end of the transaction.  An update  *)
(* and an override of the same role do not conflict; a statement that        *)
(* matches no row, as a clear where there is no override, takes no lock.     *)
ClearsNothing(r) == r.op = "object" /\ r.grant.objects = NoOverrides /\ OverridesOf(r) = NoOverrides
RowLocked(r) ==
    \E p \in Requests :
        /\ req[p].pc = "written" /\ req[p].role = r.role /\ req[p].op \in RowOps \cup {"create"}
        /\ ~(req[p].op \in {"object", "delete"} /\ req[p].gone)
        /\ {req[p].op, r.op} # {"update", "object"}
MemberLocked(m) == \E p \in Requests : req[p].pc = "written" /\ req[p].op = "assign" /\ req[p].mem = m

(* What invalidatePermissions drops: a role's entry, or the organisation's.  *)
DroppedNone(op, k) == {}
Dropped(op, k) ==
    CASE op \in RowOps -> {k}
      [] op = "assign" -> Keys
      [] op = "create" -> {}

(* The statement that writes (a copy of overrides reads them here), and the  *)
(* invalidation that follows it.  A fill in flight over an invalidation of   *)
(* its key has raced it.                                                     *)
Written(r) ==
    [r EXCEPT !.pc = "written", !.gone = @ \/ ClearsNothing(r),
              !.grant.objects = IF r.op = "create" THEN OverridesOf(r) ELSE @]

Write(q) ==
    LET r == req[q]
        drop == Dropped(r.op, r.role)
    IN
    /\ r.pc = "checked" /\ r.op \in RowOps \cup {"create", "assign"}
    /\ IF r.op = "assign" THEN ~MemberLocked(r.mem) ELSE ClearsNothing(r) \/ ~RowLocked(r)
    /\ r.op = "update" \/ (r.op = "object" /\ r.grant.objects # NoOverrides) => ~r.gone
    /\ r.op = "create" => r.role \notin DOMAIN rows
    /\ cache' = [c \in DOMAIN cache \ drop |-> cache[c]]
    /\ req' = [p \in Requests |->
                  IF p = q THEN Written(r)
                  ELSE [req[p] EXCEPT !.raced = @ \/ (req[p].pc \in Filling /\ r.op \in RowOps
                                                       /\ req[p].key = r.role)]]
    /\ UNCHANGED <<rows, member, since, edits, crossed>>

RowsAfter(r) ==
    CASE r.op = "create" -> [k \in DOMAIN rows \cup {r.role} |-> IF k = r.role THEN r.grant ELSE rows[k]]
      [] r.op = "update" -> [rows EXCEPT ![r.role] = [@ EXCEPT !.org = r.grant.org]]
      [] r.op = "object" /\ ~r.gone -> [rows EXCEPT ![r.role] = [@ EXCEPT !.objects = r.grant.objects]]
      [] r.op = "delete" /\ ~r.gone -> [k \in DOMAIN rows \ {r.role} |-> rows[k]]
      [] OTHER -> rows

Recorded(ago, rs) == [k \in Keys |-> 
    [v \in Values |-> IF v \in PartsOf(Resolve(k, rs)) THEN 0 ELSE ago[k][v]]]

(* Whatever goes by the row's id has lost it once it is deleted: a row       *)
(* created under the same key is not theirs.                                 *)
GoesBy(r, k) ==
    r.key = k /\ (r.pc = "overrides" \/ (r.pc = "checked" /\ r.op \in RowOps \cup {"create"}))

Commit(q) ==
    LET r == req[q] IN
    /\ r.pc = "written"
    /\ rows' = RowsAfter(r)
    /\ member' = IF r.op = "assign" THEN [member EXCEPT ![r.mem] = r.role] ELSE member
    /\ since' = Recorded(since, RowsAfter(r))
    /\ req' = [p \in Requests |->
                  IF p = q THEN Idle
                  ELSE [req[p] EXCEPT !.gone = @ \/ (r.op = "delete" /\ ~r.gone /\ GoesBy(req[p], r.role))]]
    /\ UNCHANGED <<cache, edits, crossed>>

(* transferOwnership calls Better Auth twice; each call commits by itself.   *)
TransferDemotesFirst(r) ==
    IF r.pc = "checked" THEN <<r.who, "admin">> ELSE <<r.mem, "owner">>
TransferStep(r) ==
    IF r.pc = "checked" THEN <<r.mem, "owner">> ELSE <<r.who, "admin">>

Transfer(q) ==
    LET r == req[q]
        step == TransferStep(r)
    IN
    /\ r.op = "transfer" /\ r.pc \in {"checked", "promoted"}
    /\ member[r.who] = "owner"
    /\ ~MemberLocked(step[1])
    /\ member' = [member EXCEPT ![step[1]] = step[2]]
    /\ req' = [req EXCEPT ![q] = IF r.pc = "checked" THEN [r EXCEPT !.pc = "promoted"] ELSE Idle]
    /\ UNCHANGED <<rows, cache, since, edits, crossed>>

(* The gate refuses, a row is not found, a call or the transaction fails, or *)
(* the request only read: its transaction leaves nothing behind.             *)
End(q) ==
    /\ req[q].pc \in Authorised
    /\ req' = [req EXCEPT ![q] = Idle]
    /\ UNCHANGED <<rows, member, cache, since, edits, crossed>>

(* The API process restarts: its cache and its requests are gone.            *)
Restart ==
    /\ cache' = <<>>
    /\ req' = [q \in Requests |-> Idle]
    /\ UNCHANGED <<rows, member, since, edits, crossed>>

Older(age, most) == IF age < most THEN age + 1 ELSE age

Tick ==
    /\ \A q \in Requests : req[q].pc \in Filling => req[q].age < MaxFill
    /\ req' = [q \in Requests |-> [req[q] EXCEPT !.age = IF req[q].pc \in Filling THEN @ + 1 ELSE @]]
    /\ cache' = [k \in {c \in DOMAIN cache : cache[c].age + 1 < TTL} |->
                     [cache[k] EXCEPT !.age = @ + 1]]
    /\ since' = Recorded([k \in Keys |-> [v \in Values |-> Older(since[k][v], LongAgo)]], rows)
    /\ UNCHANGED <<rows, member, edits, crossed>>

Handle(q) ==
    \/ \E m \in Members : Arrive(q, m)
    \/ Hit(q) \/ ReadRow(q) \/ ReadOverrides(q) \/ Store(q)
    \/ \E k \in Keys : StartCreate(q, k) \/ StartUpdate(q, k) \/ StartObject(q, k) \/ StartDelete(q, k)
    \/ \E k \in Keys, m \in Members : StartAssign(q, k, m)
    \/ \E m \in Members : StartTransfer(q, m)
    \/ Write(q) \/ Commit(q) \/ Transfer(q) \/ End(q)

Next == Tick \/ Restart \/ \E q \in Requests : Handle(q)

Spec == Init /\ [][Next]_vars

-----------------------------------------------------------------------------
(* Each part of the grant a request is let in with, the row's and the        *)
(* overrides, was that of its role within the time to live plus the time a   *)
(* resolution takes (permissions.ts:38-88); not the two of them together.    *)
GrantsAreRecent ==
    [][\A q \in Requests : req'[q].pc = "authed" /\ req[q].pc # "authed" =>
           \A v \in PartsOf(req'[q].perms) : since[req[q].key][v] < TTL + MaxFill]_vars

(* An entry that will be served and is not the role's grant was read over an *)
(* edit that had not committed, was in flight while the edit invalidated, or *)
(* was stored before the role had a row.  Every other edit shows at once.    *)
StaleOnlyByRace ==
    \A k \in DOMAIN cache : cache[k].value # Resolve(k, rows) =>
        cache[k].raced \/ cache[k].absent

(* A member's role has a row, unless an assignment of the role and its       *)
(* deletion were in progress together (role.ts:246-268, org.ts:231-260).     *)
AssignedRolesExist == \A m \in Members : member[m] \in DOMAIN rows \cup crossed

(* The organisation loses its last owner only by a change of the owner's     *)
(* role, or by a transfer whose target has lost the ownership again before   *)
(* the caller is demoted (org.ts:272-325).                                   *)
Owners == {m \in Members : member[m] = "owner"}
OwnerLostBy(q) ==
    \/ req[q].pc = "written" /\ req[q].op = "assign" /\ member[req[q].mem] = "owner"
    \/ req[q].pc = "promoted" /\ member[req[q].mem] # "owner"
OwnersRemain == [][Owners # {} /\ Owners' = {} => \E q \in Requests : OwnerLostBy(q)]_vars
=============================================================================
