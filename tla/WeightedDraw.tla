---------------------------- MODULE WeightedDraw ----------------------------
(***************************************************************************)
(* weighted_priority_order (src/src/routing.rs): the candidates are sorted *)
(* by priority, and the next one is drawn from those that share the first  *)
(* priority by a number below the sum of their weights, until none is      *)
(* left.  Routing takes its result for any order that respects the tiers;  *)
(* this module says why it may, and what the weights mean.                 *)
(***************************************************************************)
EXTENDS Routing, SequencesExt

CONSTANT Weights  \* the weight of each of the Targets

\* config.rs:345: weights are positive; as u64 their sum cannot overflow.
ASSUME WeightsAssumption == Weights \in [DOMAIN Targets -> Nat \ {0}]

\* sort_by_key, which is stable: candidates() gathers them in order.
Sorted(S) ==
    CHOOSE s \in Injection(1..Cardinality(S), S) :
        \A i, j \in 1..Cardinality(S) : i < j =>
            \/ Targets[s[i]].priority < Targets[s[j]].priority
            \/ Targets[s[i]].priority = Targets[s[j]].priority /\ s[i] < s[j]

\* tier_len: how many from the front share the priority of the first.
TierLen(left) ==
    Cardinality({n \in 1..Len(left) :
        \A k \in 1..n : Targets[left[k]].priority = Targets[left[1]].priority})

\* The weights of the first k candidates together: their sum over a tier is
\* the total, and the walk along a tier has taken so much from its choice
\* when it has passed k of them.
WeightOfFirst(left) ==
    LET sum[k \in 0..Len(left)] == IF k = 0 THEN 0 ELSE sum[k - 1] + Weights[left[k]]
    IN  sum

Total(left) == WeightOfFirst(left)[TierLen(left)]

\* Mutant: a choice that equals the weight still picks the target.
SelectedUpTo(left, choice) ==
    LET picked == {k \in 1..TierLen(left) :
                     choice - WeightOfFirst(left)[k - 1] <= Weights[left[k]]}
    IN  IF picked = {} THEN 1 ELSE Min(picked)

\* The walk along the tier ends at the first candidate whose weight exceeds
\* what is left of the choice; without one the first stands in.
Selected(left, choice) ==
    LET picked == {k \in 1..TierLen(left) :
                     choice - WeightOfFirst(left)[k - 1] < Weights[left[k]]}
    IN  IF picked = {} THEN 1 ELSE Min(picked)

RandomRange(left) == 0..(Total(left) - 1)

\* What one round of the loop may make of the candidates and the output.
Round(state) ==
    {[left   |-> RemoveAt(state.left, k),
      output |-> Append(state.output, state.left[k])] :
        k \in {Selected(state.left, choice) : choice \in RandomRange(state.left)}}

\* Where the loop may stand after each number of rounds.
Rounds(S) ==
    LET after[n \in 0..Cardinality(S)] ==
            IF n = 0 THEN {[left |-> Sorted(S), output |-> <<>>]}
            ELSE UNION {Round(state) : state \in after[n - 1]}
    IN  after

\* What it may have put out when no candidate is left.
Drawn(S) ==
    {state.output : state \in {s \in Rounds(S)[Cardinality(S)] : s.left = <<>>}}
-----------------------------------------------------------------------------
(* Properties                                                              *)

\* Of all the numbers that may come up, as many pick a target as its weight
\* says, wherever it stands in its tier, and none picks a target beyond it.
Proportional(left) ==
    \A k \in 1..Len(left) :
        Cardinality({choice \in RandomRange(left) : Selected(left, choice) = k}) =
          IF k <= TierLen(left) THEN Weights[left[k]] ELSE 0

\* Whichever candidates a request is left with, the loop of
\* weighted_priority_order can produce every order that respects the tiers
\* and no other, so that no target is lost, repeated or out of its reach, and
\* every round goes by the weights, also for the last target of a tier
\* (routing.rs:250, 263).
DrawsByWeight ==
    \A r \in Requests : job[r].pc = "checking" /\ job[r].compatible # {} =>
        LET S == job[r].compatible
        IN  /\ Drawn(S) = PriorityOrders(S)
            /\ \A n \in 0..Cardinality(S) : \A state \in Rounds(S)[n] :
                 Proportional(state.left)
=============================================================================
