------------------------- MODULE ComplexityEstimator -------------------------
(***************************************************************************)
(* packages/billing-service/src/complexity-estimator.ts: the tier of a     *)
(* work item from signals, and the prices and hours the tiers stand for.   *)
(***************************************************************************)
EXTENDS Integers, Sequences, SequencesExt

Tiers == <<"XS", "S", "M", "L", "XL">>   \* from the cheapest
Tier == ToSet(Tiers)

PriceUsd == [t \in Tier |-> CASE t = "XS" -> 5 [] t = "S" -> 15 [] t = "M" -> 50
                              [] t = "L" -> 150 [] OTHER -> 500]

\* Human hours at 150 USD.
HumanCostUsd == [t \in Tier |-> CASE t = "XS" -> 75 [] t = "S" -> 300 [] t = "M" -> 1200
                                  [] t = "L" -> 3600 [] OTHER -> 9000]

\* The keywords found for each tier, and the counts: -1, undefined, gives no points.
WorkItem == [keywords : [Tier -> Nat], files : Nat \cup {-1}, tests : Nat \cup {-1}, length : Nat]

\* The tier whose limit is the first that the amount keeps.
TierOf(amount, limits) ==
    LET kept == {i \in DOMAIN limits : amount <= limits[i]}
    IN  IF kept = {} THEN "XL" ELSE Tiers[CHOOSE i \in kept : \A j \in kept : i <= j]

Score(item, tier) ==
    item.keywords[tier]
    + (IF item.files >= 0 /\ TierOf(item.files, <<1, 3, 8, 15>>) = tier THEN 2 ELSE 0)
    + (IF item.tests >= 0 /\ TierOf(item.tests, <<0, 2, 5, 10>>) = tier THEN 1 ELSE 0)
    + (IF TierOf(item.length, <<49, 199, 499, 1499>>) = tier THEN 1 ELSE 0)

\* The sort is stable: of equal scores the cheaper tier comes first.
TopTier(item) ==
    CHOOSE t \in Tier : \A u \in Tier \ {t} :
        \/ Score(item, t) > Score(item, u)
        \/ Score(item, t) = Score(item, u) /\ PriceUsd[t] < PriceUsd[u]

ClearWinner(item) ==
    \A u \in Tier \ {TopTier(item)} : Score(item, TopTier(item)) > Score(item, u) + 1

\* Without a clear winner a model is asked, whose answer may be any tier; without
\* a key, or when that fails, the winner stands.
EstimateComplexity(item) == IF ClearWinner(item) THEN {TopTier(item)} ELSE Tier
=============================================================================
