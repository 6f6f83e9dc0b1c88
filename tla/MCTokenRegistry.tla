---------------------------- MODULE MCTokenRegistry ----------------------------
(***************************************************************************)
(* Instances of the token registry for TLC.                                *)
(***************************************************************************)
EXTENDS TokenRegistryUse, TLC

Limit(perPeriod) ==
  [minPerTransaction |-> 0, maxPerTransaction |-> 0, maxPerPeriod |-> perPeriod]

NoLimitChoices == {}
LimitChoices   == {Limit(3), [Limit(5) EXCEPT !.maxPerTransaction = 2]}

NoModules     == [d \in Directions |-> {}]

\* Bound: the guard is touched, by its owner or by anybody, only while the registry is as
\* deployed and the default limits are small.
OneOwnerActs ==
  \/ guardCalls = 0 /\ \A d \in Directions, t \in Tokens : lastCheck[d][t] = 0
  \/ /\ tokenRegistered = {} /\ ~rateLimitBridge
     /\ \A t \in Tokens : rateLimitConfigs[t] = NoLimits /\ DefaultLimit(t) <= 4

MapSymmetry   == Permutations(Tokens) \cup Permutations(Chains) \cup Permutations(DestTokens)
=============================================================================
