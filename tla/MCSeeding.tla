------------------------------ MODULE MCSeeding ------------------------------
(* Small instances of Seeding for TLC.                                       *)
EXTENDS Seeding

CONSTANTS a, b, c, s1, s2, s3

MCRank == [x \in Ids |-> CASE x = a -> 1 [] x = b -> 2 [] OTHER -> 3]

Entry(s, v) == [slug |-> s, serves |-> v]

\* a and b are homonyms; c is another work, or an id of the source that is not usable.
MCSources ==
    {[x \in Ids |-> IF x = c THEN Entry(s2, v) ELSE Entry(s1, "valid")] :
        v \in {"valid", "invalid", "gone"}}

AllListed == {Ids}
SomeListed == {Ids, Ids \ {c}}

RunSymmetry == Permutations(Runs)

\* Every id is a work of its own.
Distinct == [x \in Ids |-> Entry(CASE x = a -> s1 [] x = b -> s2 [] OTHER -> s3, "valid")]
DistinctSources == {Distinct}
AnySources == MCSources \cup DistinctSources
=============================================================================
