------------------------------- MODULE Portfolio -------------------------------
(* Which ready item the factory dispatches next, and when it rather idles:   *)
(* howlplane/control_plane/factory/portfolio.py over the dispatch history of *)
(* the supervisor record.  Factory.tla says what a dispatch does; here it    *)
(* only takes an item out of the ready set and into the history.             *)
EXTENDS Naturals, Sequences, FiniteSets

CONSTANTS
    Items,          \* work items, numbered as their ids sort
    Origin,         \* Items -> Origins
    InProduct,      \* items of the product repository
    Rank,           \* Items -> <<source_file_rank, source_rank>>
    None,           \* no item
    Window, Kept,   \* portfolio_window; dispatches the record keeps
    MaxNonProduct, MaxIntrospective, MaxCreative

VARIABLES
    ready,      \* dispatchable items
    starving,   \* items older than starvation_age_hours
    history     \* dispatch_history, oldest first

portfolioVars == <<ready, starving, history>>

\* ORIGIN_PRIORITY, first to last.
OriginOrder ==
    <<"owner_direction", "observed_defect", "discovered_problem",
      "measured_regression", "proof_finding", "verified_backlog",
      "existing_backlog", "inferred_improvement", "inferred_need", "maintenance",
      "self_improvement", "creative_experiment", "speculative_idea">>
Origins == {OriginOrder[n] : n \in DOMAIN OriginOrder}
Priority(o) == CHOOSE n \in DOMAIN OriginOrder : OriginOrder[n] = o

IntrospectiveOrigins == {"self_improvement", "maintenance"}
CreativeOrigins      == {"creative_experiment", "speculative_idea"}

Owners        == {i \in Items : Origin[i] = "owner_direction"}
Introspective == {i \in Items : Origin[i] \in IntrospectiveOrigins}
Creative      == {i \in Items : Origin[i] \in CreativeOrigins}
NonProduct    == Items \ InProduct

ASSUME ItemsAreNumbered == Items \subseteq Nat /\ None \notin Items /\ InProduct \subseteq Items
ASSUME OriginsAreKnown == Origin \in [Items -> Origins]
ASSUME RanksAreNumbers == Rank \in [Items -> Nat \X Nat]
ASSUME WindowIsKept == Window \in Nat \ {0} /\ Kept \in Nat /\ Window <= Kept
ASSUME CapsAreCounts == {MaxNonProduct, MaxIntrospective, MaxCreative} \subseteq Nat

-----------------------------------------------------------------------------

\* Mutant of Recent: the oldest dispatches on record.
OldestOf(h) == {n \in DOMAIN h : n <= Window}

\* The positions of the last Window dispatches.
Recent(h) == {n \in DOMAIN h : n + Window > Len(h)}

\* FactoryPolicy.counts.
Count(h, kind) == Cardinality({n \in Recent(h) : h[n] \in kind})

\* Mutant of Capped: the repository rule withholds every repository.
CappedWhole(i, h) ==
    /\ i \notin Owners
    /\ \/ i \in Creative /\ Count(h, Creative) >= MaxCreative
       \/ i \in Introspective /\ Count(h, Introspective) >= MaxIntrospective
       \/ Count(h, NonProduct) >= MaxNonProduct

\* _cap_blocking: an item that would breach a cap; the owner's word breaches none.
Capped(i, h) ==
    /\ i \notin Owners
    /\ \/ i \in Creative /\ Count(h, Creative) >= MaxCreative
       \/ i \in Introspective /\ Count(h, Introspective) >= MaxIntrospective
       \/ i \in NonProduct /\ Count(h, NonProduct) >= MaxNonProduct

\* Mutant of SortKey: the backlog's own order before age.
SortKeyRankFirst(i, old) ==
    <<Priority(Origin[i]), Rank[i][1], Rank[i][2], IF i \in old THEN 0 ELSE 1, i>>

\* _sort_key.
SortKey(i, old) ==
    <<Priority(Origin[i]), IF i \in old THEN 0 ELSE 1, Rank[i][1], Rank[i][2], i>>

Before(i, j, old) ==
    LET a == SortKey(i, old) b == SortKey(j, old)
    IN  \E n \in DOMAIN a : a[n] < b[n] /\ \A m \in 1 .. n - 1 : a[m] = b[m]

First(S, old) == CHOOSE i \in S : \A j \in S \ {i} : Before(i, j, old)

\* select: the first candidate no cap withholds, if there is one.
Selected(candidates, h, old) ==
    LET open == {i \in candidates : ~Capped(i, h)}
    IN  IF open = {} THEN None ELSE First(open, old)

\* record_dispatch.
Recorded(h, i) ==
    LET all == Append(h, i)
    IN  IF Len(all) <= Kept THEN all ELSE SubSeq(all, Len(all) - Kept + 1, Len(all))

-----------------------------------------------------------------------------

PortfolioInit == ready = {} /\ starving = {} /\ history = <<>>

\* An item is admitted, approved, requeued, unblocked or reopened; its age
\* counts from its creation.
Arrive(i) ==
    /\ i \notin ready
    /\ ready' = ready \cup {i}
    /\ UNCHANGED <<starving, history>>

Age(i) ==
    /\ i \notin starving
    /\ starving' = starving \cup {i}
    /\ UNCHANGED <<ready, history>>

\* One tick of the supervisor: it dispatches what it selects, or idles.
Tick ==
    LET i == Selected(ready, history, starving) IN
    /\ i # None
    /\ ready' = ready \ {i}
    /\ history' = Recorded(history, i)
    /\ UNCHANGED starving

PortfolioNext == Tick \/ \E i \in Items : Arrive(i) \/ Age(i)

PortfolioSpec == PortfolioInit /\ [][PortfolioNext]_portfolioVars
PortfolioFairSpec == PortfolioSpec /\ WF_portfolioVars(Tick)

-----------------------------------------------------------------------------

\* portfolio.py:19-22, 63-69: among the last Window dispatches the factory's own
\* introspection, its experiments and, owner direction aside, its work outside
\* the product each stay within their cap, however items arrive and age.
CapsHold ==
    /\ Count(history, Introspective) <= MaxIntrospective
    /\ Count(history, Creative) <= MaxCreative
    /\ Count(history, NonProduct \ Owners) <= MaxNonProduct

\* A starving item is passed over for a fresh one of its origin only while a
\* cap withholds it.
StarvingPassedOverOnlyIfCapped ==
    [][\A i, j \in Items :
          /\ i \in ready /\ i \notin ready' /\ i \notin starving
          /\ j \in ready' /\ j \in starving /\ Origin[i] = Origin[j]
          => Capped(j, history)]_portfolioVars

\* The caps never stop the product: ordinary product work that is ready is
\* followed by a dispatch, and once nothing else arrives it is dispatched.
Ordinary == InProduct \ (Introspective \cup Creative)
ProductIsServed ==
    \A i \in Ordinary :
        (<>[][ready' \subseteq ready]_ready) => (i \in ready ~> i \notin ready)
============================================================================
