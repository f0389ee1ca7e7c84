---------------------------- MODULE ReviewLedger ----------------------------
(***************************************************************************)
(* What the ratings, moderation and account-erasure endpoints promise      *)
(* about the reviews themselves: each request takes effect at once or not  *)
(* at all, touches only the review (or the account) it names, keeps the    *)
(* feed in step with the reviews, and is audited exactly when it is an     *)
(* admin action that took effect.  Aggregates are not part of the promise: *)
(* README.md explains why they cannot be.                                  *)
(***************************************************************************)
EXTENDS Sequences

CONSTANTS Users, Items, Scores, NoScore, NoReview

VARIABLES account,   \* users.is_banned, or "gone"
          review,    \* the committed user_ratings row of each (user, item)
          feed,      \* the (user, item) pairs with a rating_created event
          audit      \* admin_actions, in commit order

vars == <<account, review, feed, audit>>

Reviews == [score : Scores \cup {NoScore}, text : BOOLEAN, hidden : BOOLEAN]

HasContent(row) == row.score # NoScore \/ row.text

Init ==
    /\ account \in [Users -> {"active", "banned"}]
    /\ review \in [Users \X Items -> Reviews \cup {NoReview}]
    /\ feed = {k \in Users \X Items : review[k] # NoReview /\ HasContent(review[k])}
    /\ audit = <<>>

\* A full replacement of score and text; the moderation flag survives it.
Rate(u, i, score, text) ==
    LET k == <<u, i>>
        row == [score |-> score, text |-> text,
                hidden |-> IF review[k] = NoReview THEN FALSE ELSE review[k].hidden]
    IN  /\ account[u] # "gone"
        /\ review' = [review EXCEPT ![k] = row]
        /\ feed' = IF HasContent(row) THEN feed \cup {k} ELSE feed \ {k}
        /\ UNCHANGED <<account, audit>>

Unrate(u, i) ==
    /\ review[<<u, i>>] # NoReview
    /\ review' = [review EXCEPT ![<<u, i>>] = NoReview]
    /\ feed' = feed \ {<<u, i>>}
    /\ UNCHANGED <<account, audit>>

\* Both moderation actions may find nothing to change and are audited all the same.
SetHidden(u, i, hidden) ==
    /\ \/ /\ review[<<u, i>>] # NoReview
          /\ review' = [review EXCEPT ![<<u, i>>].hidden = hidden]
       \/ UNCHANGED review
    /\ audit' = Append(audit, [kind |-> "hide", user |-> u, item |-> i, flag |-> hidden])
    /\ UNCHANGED <<account, feed>>

SetBanned(u, banned) ==
    /\ \/ /\ account[u] # "gone"
          /\ account' = [account EXCEPT ![u] = IF banned THEN "banned" ELSE "active"]
       \/ UNCHANGED account
    /\ audit' = Append(audit, [kind |-> "ban", user |-> u, flag |-> banned])
    /\ UNCHANGED <<review, feed>>

\* The account goes with every review and every event of its user.
Erase(u) ==
    /\ account[u] # "gone"
    /\ account' = [account EXCEPT ![u] = "gone"]
    /\ review' = [k \in Users \X Items |-> IF k[1] = u THEN NoReview ELSE review[k]]
    /\ feed' = {k \in feed : k[1] # u}
    /\ UNCHANGED audit

Next ==
    \E u \in Users :
        \/ \E i \in Items :
              \/ \E score \in Scores \cup {NoScore}, text \in BOOLEAN : Rate(u, i, score, text)
              \/ Unrate(u, i)
              \/ \E hidden \in BOOLEAN : SetHidden(u, i, hidden)
        \/ \E banned \in BOOLEAN : SetBanned(u, banned)
        \/ Erase(u)

Spec == Init /\ [][Next]_vars
=============================================================================
