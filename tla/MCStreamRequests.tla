-------------------------- MODULE MCStreamRequests --------------------------
\* A small instance of StreamRequests for TLC: a sender and a recipient with two
\* pages each.
EXTENDS StreamRequests, TLC

CONSTANTS s1, s2, b1, b2, sender, bob

Pages == {s1, s2, b1, b2}
OwnerOf == (s1 :> sender) @@ (s2 :> sender) @@ (b1 :> bob) @@ (b2 :> bob)
Symmetric == Permutations({s1, s2}) \cup Permutations({b1, b2})
=============================================================================
