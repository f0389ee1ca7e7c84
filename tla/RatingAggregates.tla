-------------------------- MODULE RatingAggregates --------------------------
(***************************************************************************)
(* The community score of a catalog item: rating_count_internal counts the *)
(* visible scored ratings and rating_internal is their mean, NUMERIC(3,2). *)
(* Two pieces of code round that mean: recalculate_item_aggregates in      *)
(* Python, round(Decimal, 2), half to even; the batched variant in SQL,    *)
(* ROUND(numeric, 2), half away from zero.                                 *)
(*                                                                         *)
(* Scores are in half stars (2..10 stand for 1.0..5.0), means in           *)
(* hundredths of a star.  A ballot maps every user to the score that       *)
(* counts, or to NoScore when nothing of this user counts.                 *)
(***************************************************************************)
EXTENDS Naturals, FiniteSets, Functions

NoScore == 0   \* user_ratings.score IS NULL
NoMean == 0    \* rating_internal IS NULL; a real mean is at least 100

Voters(ballot) == {u \in DOMAIN ballot : ballot[u] # NoScore}

ScoreCount(ballot) == Cardinality(Voters(ballot))

\* 50 * sum / n hundredths: half stars are worth 50 hundredths each.
Dividend(ballot) == 50 * SumFunction(ballot)

\* ROUND(AVG(score), 2) of PostgreSQL: a half rounds up (scores are positive).
MeanHalfUp(ballot) ==
    LET n == ScoreCount(ballot)
    IN  IF n = 0 THEN NoMean ELSE (2 * Dividend(ballot) + n) \div (2 * n)

\* round(avg_score, 2) on a Decimal: a half goes to the even neighbour.
MeanHalfEven(ballot) ==
    LET n == ScoreCount(ballot)
        floor == Dividend(ballot) \div n
        twiceRest == 2 * (Dividend(ballot) % n)
    IN  IF n = 0 THEN NoMean
        ELSE IF twiceRest > n \/ (twiceRest = n /\ floor % 2 = 1)
             THEN floor + 1 ELSE floor

NoRatings == [avg |-> NoMean, count |-> 0]

\* What recalculate_item_aggregates assigns to the item.
SingleAggregate(ballot) ==
    [avg |-> MeanHalfEven(ballot), count |-> ScoreCount(ballot)]

\* What the batched UPDATE ... FROM (SELECT ... GROUP BY item_id) writes for a group.
BatchAggregate(ballot) ==
    [avg |-> MeanHalfUp(ballot), count |-> ScoreCount(ballot)]

(***************************************************************************)
(* The docstring of recalculate_item_aggregates_batch promises the "Same   *)
(* semantics" as recalculate_item_aggregates.  They count the same votes   *)
(* and store the same mean, except that the batch rounds a mean that ends  *)
(* in exactly half a hundredth up and the other may round it down.         *)
(***************************************************************************)
EndsInHalf(ballot, floor) == 2 * Dividend(ballot) = ScoreCount(ballot) * (2 * floor + 1)

AgreeButForHalves(ballot) ==
    LET one == SingleAggregate(ballot)
        batch == BatchAggregate(ballot)
    IN  /\ one.count = batch.count
        /\ one.avg # batch.avg => batch.avg = one.avg + 1 /\ EndsInHalf(ballot, one.avg)
=============================================================================
