------------------------- MODULE MCRefreshRotation -------------------------
(* Small instances of RefreshRotation.                                     *)
EXTENDS RefreshRotation, FiniteSets, Naturals, TLC

CONSTANTS r1, r2, r3, k0, k1, k2, k3

\* Handlers are interchangeable, and so are the tokens that follow the first.
RotationSymmetry == Permutations(Requests) \cup Permutations(Tokens \ {First})

\* Bound: the family ends for one reason at a time: its lifetime, the membership of
\* its user, or the cookie of the browser.
OneEnding == Cardinality({e \in 1..3 : <<lifeOver, ~member, cookie = None>>[e]}) <= 1

\* Bound: writes are lost or sent again in a behaviour, not both.
OneKindOfFault == Cardinality(faults) <= 1
=============================================================================
