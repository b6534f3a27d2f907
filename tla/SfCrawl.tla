------------------------------ MODULE SfCrawl ------------------------------
(***************************************************************************)
(* The crawl of a scoped import: which Salesforce records belong to the    *)
(* subtree of the chosen roots.  Round by round, the records whose lookup  *)
(* points at the frontier are collected and crawled further; then the      *)
(* records the frontier points at are collected as dead ends.  A query     *)
(* that fails is skipped, with the rows it gave before that; a full object *)
(* takes no more ids.                                                      *)
(*                                                                         *)
(* Salesforce does not change while it is crawled.  Queries of one kind    *)
(* may come in any order: the plans are read without one.                  *)
(***************************************************************************)
EXTENDS Naturals, FiniteSets

CONSTANTS
    Objects,   \* sObjects in the run
    Records,   \* Salesforce ids
    Of,        \* the sObject of each id; not every one is in the run
    Edges,     \* lookups in the mapping: child object, field, target object
    Graphs,    \* what the lookups may hold: at most one id by record and field
    RootIds,   \* scope.rootSfIds
    Cap,       \* SCOPED_MAX_RECORDS_PER_OBJECT
    MaxRounds  \* CRAWL_MAX_ROUNDS

Fields == {e.field : e \in Edges}

ASSUME EdgesAssumption == \A e \in Edges : e.child \in Objects /\ e.target \in Objects
ASSUME GraphsAssumption == \A g \in Graphs : g \in [Records -> [Fields -> SUBSET Records]]
ASSUME RootsAssumption == RootIds \subseteq Records
ASSUME LimitsAssumption == Cap \in Nat /\ MaxRounds \in Nat

VARIABLES
    lookup,     \* Salesforce: what each record's lookup fields hold
    prefixes,   \* globalDescribe answered: ids are attributed by their prefix
    collected,  \* ids to import, by object
    frontier,   \* ids this round crawls from
    next,       \* ids the next round crawls from
    todo,       \* queries of this round not made yet
    round,
    crawled,    \* history: every id that was ever in the frontier
    cut         \* history: a query failed or an object was full

crawlVars == <<lookup, prefixes, collected, frontier, next, todo, round, crawled, cut>>

QueriesDown == {<<"children", e>> : e \in Edges}
Queries == {<<"children", e>> : e \in Edges} \cup {<<"parents", o>> : o \in Objects}
Made(kind) == \A q \in todo : q[1] # kind

In(o, ids) == {r \in ids : Of[r] = o}
PointingAt(e, ids) == {r \in In(e.child, Records) : lookup[r][e.field] \cap In(e.target, ids) # {}}

CrawlInit ==
    /\ lookup \in Graphs
    /\ prefixes \in BOOLEAN
    /\ collected = [o \in Objects |-> In(o, RootIds)]
    /\ frontier = RootIds
    /\ next = {}
    /\ todo = Queries
    /\ round = 1
    /\ crawled = RootIds
    /\ cut = FALSE

With(new) == [o \in Objects |-> collected[o] \cup {r \in Records : <<o, r>> \in new}]

(* A query finds ids for some objects and collects those that are new: all   *)
(* of them, fewer when it fails half-way, and no more than an object takes.  *)
Collect(found, new) ==
    /\ new \in SUBSET {f \in found : f[2] \notin collected[f[1]]}
    /\ \A o \in Objects : With(new)[o] # collected[o] => Cardinality(With(new)[o]) <= Cap
    /\ collected' = With(new)
    /\ cut' = (cut \/ \E f \in found : f[2] \notin With(new)[f[1]])

Added(new) == next \cup {f[2] : f \in new}

(* SELECT Id FROM child WHERE lookup IN (frontier of its target)             *)
Children(e) ==
    LET found == {e.child} \X PointingAt(e, frontier) IN
    /\ <<"children", e>> \in todo
    /\ \E new \in SUBSET found : Collect(found, new) /\ next' = Added(new)
    /\ todo' = todo \ {<<"children", e>>}
    /\ UNCHANGED <<lookup, prefixes, frontier, round, crawled>>

Attributed(e, r) == IF prefixes /\ Of[r] \in Objects THEN Of[r] ELSE e.target

ParentsOf(o, ids) ==
    UNION {{<<Attributed(e, p), p>> : p \in UNION {lookup[r][e.field] : r \in In(o, ids)}} :
              e \in {d \in Edges : d.child = o}}

BeyondAll(new) == Added(new)
Beyond(new) == next

(* SELECT lookups FROM object WHERE Id IN (its frontier): fetched, never     *)
(* crawled from.                                                             *)
ParentQuery(o) ==
    LET found == ParentsOf(o, frontier) IN
    /\ Made("children")
    /\ <<"parents", o>> \in todo
    /\ \E new \in SUBSET found : Collect(found, new) /\ next' = Beyond(new)
    /\ todo' = todo \ {<<"parents", o>>}
    /\ UNCHANGED <<lookup, prefixes, frontier, round, crawled>>

NextRound ==
    /\ todo = {} /\ next # {} /\ round < MaxRounds
    /\ frontier' = next
    /\ crawled' = crawled \cup next
    /\ next' = {}
    /\ todo' = Queries
    /\ round' = round + 1
    /\ UNCHANGED <<lookup, prefixes, collected, cut>>

CrawlNext ==
    \/ \E e \in Edges : Children(e)
    \/ \E o \in Objects : ParentQuery(o)
    \/ NextRound

CrawlSpec == CrawlInit /\ [][CrawlNext]_crawlVars

-----------------------------------------------------------------------------
Closed(ids) == RootIds \subseteq ids /\ \A e \in Edges : PointingAt(e, ids) \subseteq ids
Neighbours(ids) == UNION {lookup[r][f] : r \in ids, f \in Fields}

(* Nothing is crawled but the roots and their descendants, and nothing else  *)
(* is imported but what those point at: a shared hub brings in no subtree of *)
(* its own (import.ts:403-411).                                              *)
OnlyTheSubtree ==
    /\ \A ids \in SUBSET Records : crawled \cup next \subseteq ids \/ ~Closed(ids)
    /\ \A o \in Objects : collected[o] \subseteq crawled \cup next \cup Neighbours(crawled)

(* A crawl that ends before its last round, with every query answered and no *)
(* object full, has crawled every descendant except those that are also a    *)
(* parent of one, and has collected all of them and all their parents.       *)
CrawlEnded == todo = {} /\ next = {}
WholeSubtree ==
    CrawlEnded /\ ~cut =>
        /\ \A e \in Edges :
              /\ PointingAt(e, crawled) \subseteq crawled \cup Neighbours(crawled)
              /\ PointingAt(e, crawled) \subseteq collected[e.child]
        /\ \A o \in Objects : \A f \in ParentsOf(o, crawled) : f[2] \in collected[f[1]]
=============================================================================
