------------------------------ MODULE MCRatings ------------------------------
(* Small instances of Ratings for TLC.                                       *)
EXTENDS Ratings

CONSTANTS u1, u2, i1, i2

\* Scores of one and a half and of four stars, in half stars.
MCScores == {3, 8}

Row(n, s, x, h) ==
    [id |-> n, score |-> s, text |-> x, hidden |-> h, event |-> s # NoScore \/ x]

\* u1 has scored both items; u2 has reviewed i1 (hidden) and cleared its rating of i2.
Seeded ==
    [k \in Keys |-> CASE k = <<u1, i1>> -> Row(1, 8, FALSE, FALSE)
                      [] k = <<u1, i2>> -> Row(2, 3, FALSE, FALSE)
                      [] k = <<u2, i1>> -> Row(3, 3, TRUE, TRUE)
                      [] k = <<u2, i2>> -> Row(4, NoScore, FALSE, FALSE)]

Empty == [k \in Keys |-> NoRating]

MCInitialRatings == {Empty, Seeded}
BatchRatings == {Seeded}

Rate(u, i, s, x) == [kind |-> "rate", user |-> u, item |-> i, score |-> s, text |-> x]

\* Every kind of request, with the payloads of rate_item that its branches tell apart.
FullMenu ==
    {r \in Requests : r.kind = "rate" => (r.score = 8 => ~r.text)}

\* Two users and one item: each gives a score of its own.
RaterMenu == {Rate(u1, i1, 3, FALSE), Rate(u2, i1, 8, FALSE)}
NoReviews == {Empty}

\* Requests that meet on both items: two batches and the writers they wait for.
BatchMenu ==
    {r \in Requests :
        /\ r.kind \in {"rate", "ban", "erase"}
        /\ r.kind = "rate" => r.user = u2 /\ r.item = i2 /\ r.score = 8 /\ ~r.text
        /\ r.kind = "ban" => r.flag
        /\ r.kind = "erase" => r.user = u2}
=============================================================================
