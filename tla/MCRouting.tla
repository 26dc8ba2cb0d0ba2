----------------------------- MODULE MCRouting -----------------------------
(* A small instance of Routing: two concurrent requests, two providers, and *)
(* a route of three targets in two tiers, one provider serving two of them. *)
EXTENDS WeightedDraw, TLC

CONSTANTS r1, r2, a, b

MCRequests  == {r1, r2}
MCProviders == {a, b}
MCTargets   == << [provider |-> a, priority |-> 1],
                  [provider |-> b, priority |-> 0],
                  [provider |-> a, priority |-> 0] >>

MCWeights == <<2, 3, 1>>

MCShortWeights == <<1, 1>>

\* The shorter route and the two statuses of the liveness run.
MCShortTargets == << [provider |-> a, priority |-> 0],
                     [provider |-> b, priority |-> 1] >>

MCFewStatuses == {400, 503}

MCUntokenizable == {b}

\* Refused, retryable and not counted, counted and not retryable, both.
MCStatuses == {400, 429, 501, 503}

MCSymmetry == Permutations(MCRequests)
=============================================================================
