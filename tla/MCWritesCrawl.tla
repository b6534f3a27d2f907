---------------------------- MODULE MCWritesCrawl ----------------------------
(***************************************************************************)
(* Small instances of RecordWrites and SfCrawl, which share no state: a    *)
(* behaviour is one of the record writes or of one crawl, the other at     *)
(* rest.                                                                   *)
(*                                                                         *)
(* Writes: two leaves, two middles and a root, two requests at a time.     *)
(* Crawls: accounts with a parent account, contacts of an account, and a   *)
(* lookup of contacts that may hold either, or a record of an object that  *)
(* is not in the run.                                                      *)
(***************************************************************************)
EXTENDS RecordWrites, SfCrawl, TLC

CONSTANTS l1, l2, m1, m2, g1, q1, q2, a1, a2, c1, c2, x1

VARIABLE part

allVars == <<vars, crawlVars, part>>

Interchangeable == Permutations(Leaves) \cup Permutations(Middles) \cup Permutations(Requests)

Lookups == {[child |-> "account", field |-> "parent", target |-> "account"],
            [child |-> "contact", field |-> "of", target |-> "account"],
            [child |-> "contact", field |-> "who", target |-> "account"],
            [child |-> "contact", field |-> "who", target |-> "contact"]}

Kinds == (a1 :> "account") @@ (a2 :> "account") @@ (c1 :> "contact") @@ (c2 :> "contact")
            @@ (x1 :> "other")

Some(ids) == {{}} \cup {{r} : r \in ids}
Holding(p1, p2, o1, o2, w1, w2) ==
    [r \in Records |-> [f \in Fields |->
        CASE r = a1 /\ f = "parent" -> p1
          [] r = a2 /\ f = "parent" -> p2
          [] r = c1 /\ f = "of" -> o1
          [] r = c2 /\ f = "of" -> o2
          [] r = c1 /\ f = "who" -> w1
          [] r = c2 /\ f = "who" -> w2
          [] OTHER -> {}]]

SmallGraphs ==
    {Holding(p1, p2, o1, o2, w1, w2) :
        p1 \in Some({a2}), p2 \in Some({a1, a2}), o1 \in Some({a1, a2}), o2 \in Some({a1, a2}),
        w1 \in Some({a2, c2, x1}), w2 \in Some({a1, c1})}

(* The one at rest: no rows, and nothing to crawl from.                      *)
NothingToCrawl ==
    /\ lookup = <<>> /\ prefixes = FALSE /\ collected = [o \in Objects |-> {}]
    /\ frontier = {} /\ next = {} /\ todo = {<<"parents", "account">>}
    /\ round = MaxRounds /\ crawled = {} /\ cut = TRUE
NothingToWrite == Init /\ \A r \in Rows : table[r].ref \in {NoRow, m1, g1} /\ (r \in Leaves => ~table[r].alive)

PartsInit ==
    \/ part = "writes" /\ Init /\ NothingToCrawl
    \/ part = "crawl" /\ NothingToWrite /\ CrawlInit

InWrites(A) == part = "writes" /\ A /\ UNCHANGED <<crawlVars, part>>
InCrawl(A) == part = "crawl" /\ A /\ UNCHANGED <<vars, part>>

PartsNext == InWrites(Next) \/ InCrawl(CrawlNext)

PartsSpec == PartsInit /\ [][PartsNext]_allVars
=============================================================================
