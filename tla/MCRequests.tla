----------------------------- MODULE MCRequests ------------------------------
(* Two requests of every part in flight at a time.  The parts never meet,    *)
(* so they share the names of what is interchangeable.                       *)
EXTENDS Requests, TLC

CONSTANTS r1, r2,    \* requests, slots and writers of a catalog
          u1, u2     \* users and administrators

Symmetry == Permutations({r1, r2}) \cup Permutations({u1, u2})
=============================================================================
