-------------------------- MODULE TokenRegistryUse --------------------------
(***************************************************************************)
(* The token registry and the guard modules under the bridge that asks     *)
(* them: the owner's calls, the clock, deposits and withdrawals of any     *)
(* amount, and anybody's own calls of the guard, whose checks are open to  *)
(* all.  releases, guardCharges, lastCharge, lastCheck are history.        *)
(***************************************************************************)
EXTENDS TokenRegistry, GuardModules, Functions

CONSTANTS
  WithdrawAmounts, DepositAmounts,
  DirectAmounts,    \* amounts of the checks that anybody makes without the bridge
  Supplies,         \* total supplies a token may have
  MaxGuardCalls     \* bound: calls of the guard's owner

\* The two windows are as long as each other: 24 hours.
ASSUME UseAssumption ==
  /\ WithdrawAmounts \subseteq Nat /\ DepositAmounts \subseteq Nat /\ DirectAmounts \subseteq Nat
  /\ Supplies \subseteq Nat
  /\ MaxGuardCalls \in Nat
  /\ WINDOW_SECONDS = RATE_LIMIT_WINDOW

VARIABLES
  releases,         \* [token -> [time -> withdrawn since the registry's limits last changed]]
  guardCharges,     \* [direction -> [token -> [time -> charged since the guard's limit changed]]]
  lastCharge,       \* [token -> when a withdrawal was last charged to the registry]
  lastCheck,        \* [direction -> [token -> when anybody last charged the guard's window]]
  guardCalls        \* calls of the guard's owner so far

historyVars == <<releases, guardCharges, lastCharge, lastCheck, guardCalls>>
vars        == <<now, registryVars, guardVars, historyVars>>

Nothing == [s \in 1..MaxTime |-> 0]

Init ==
  /\ StartOfTime
  /\ RegistryInit
  /\ GuardInit(Supplies)
  /\ releases = [t \in Tokens |-> Nothing]
  /\ guardCharges = [d \in Directions |-> [t \in Tokens |-> Nothing]]
  /\ lastCharge = [t \in Tokens |-> 0]
  /\ lastCheck = [d \in Directions |-> [t \in Tokens |-> 0]]
  /\ guardCalls = 0

\* The history starts over for a token whose limits change, or for all when the
\* bridge is connected or disconnected.
ForgetReleases ==
  releases' = [t \in Tokens |->
    IF rateLimitConfigs'[t] = rateLimitConfigs[t] /\ rateLimitBridge' = rateLimitBridge
    THEN releases[t] ELSE Nothing]

ForgetGuardCharges ==
  guardCharges' = [d \in Directions |-> [t \in Tokens |->
    IF EffectiveLimit(d, t)' = EffectiveLimit(d, t) THEN guardCharges[d][t] ELSE Nothing]]

GuardCharged(d, t, amount) ==
  /\ guardCharges' = [guardCharges EXCEPT ![d][t][now] = @ + amount]
  /\ lastCheck' = [lastCheck EXCEPT ![d][t] = now]

RecordGuardCharge(d, t, amount) ==
  IF RateLimited(d) THEN GuardCharged(d, t, amount) ELSE UNCHANGED <<guardCharges, lastCheck>>

\* The registry's own deposit check is empty.
CheckDepositGuard(t, amount, user) ==
  /\ CheckGuard("deposit", t, amount, user)
  /\ RecordGuardCharge("deposit", t, amount)
  /\ UNCHANGED <<now, registryVars, releases, lastCharge, guardCalls>>

\* The guard and the registry are charged together, or not at all.
CheckWithdrawGuard(t, amount, user) ==
  /\ CheckGuard("withdraw", t, amount, user)
  /\ CheckAndUpdateWithdrawRateLimit(t, amount)
  /\ RecordGuardCharge("withdraw", t, amount)
  /\ releases' = IF rateLimitBridge /\ rateLimitConfigs[t].maxPerPeriod # 0
                 THEN [releases EXCEPT ![t][now] = @ + amount] ELSE releases
  /\ lastCharge' = [lastCharge EXCEPT ![t] = now]
  /\ UNCHANGED <<now, chainVars, mappingVars, rateLimitConfigs, rateLimitBridge, guardCalls>>

\* TokenRateLimit does not ask who calls it, listed or not, nor does GuardBridge, which
\* passes a stranger's check on to it: anyone may charge a window, with any amount.
CheckByAnyone(d, t, amount) ==
  /\ ChargeWindow(d, t, amount)
  /\ GuardCharged(d, t, amount)
  /\ UNCHANGED <<now, registryVars, releases, lastCharge, guardCalls>>
  /\ UNCHANGED <<guardBridge, guardModules, isBlacklisted, limitPerToken, totalSupply>>

Admin ==
  /\ RegistryAdmin(totalSupply)
  /\ ForgetReleases
  /\ UNCHANGED <<now, guardVars, guardCharges, lastCharge, lastCheck, guardCalls>>

GuardOwner ==
  /\ guardCalls < MaxGuardCalls /\ guardCalls' = guardCalls + 1
  /\ GuardAdmin(Supplies)
  /\ ForgetGuardCharges
  /\ UNCHANGED <<now, registryVars, releases, lastCharge, lastCheck>>

Next ==
  \/ Admin
  \/ GuardOwner
  \/ \E t \in Tokens, amount \in DepositAmounts, user \in Users :
       CheckDepositGuard(t, amount, user)
  \/ \E t \in Tokens, amount \in WithdrawAmounts, user \in Users :
       CheckWithdrawGuard(t, amount, user)
  \/ \E d \in Directions, t \in Tokens, amount \in DirectAmounts : CheckByAnyone(d, t, amount)
  \/ Tick /\ UNCHANGED <<registryVars, guardVars, historyVars>>

Spec == Init /\ [][Next]_vars

(***************************************************************************)
(* Properties                                                              *)
(***************************************************************************)
\* Types: claims on remote tokens belong to tokens, windows and limits are naturals.
TypeOK ==
  /\ now \in 1..MaxTime
  /\ RegistryTypeOK
  /\ GuardTypeOK(Supplies)
  /\ releases \in [Tokens -> [1..MaxTime -> Nat]]
  /\ guardCharges \in [Directions -> [Tokens -> [1..MaxTime -> Nat]]]
  /\ lastCharge \in [Tokens -> 0..MaxTime]
  /\ lastCheck \in [Directions -> [Tokens -> 0..MaxTime]]
  /\ guardCalls \in 0..MaxGuardCalls

\* The reverse lookup mirrors the destination mappings exactly, through retargeting,
\* unregistering and registering again: no destination token has two sources, no claim
\* outlives its mapping, and a token that moves its claim frees the old one.
DestinationsOneToOne ==
  \A t \in Tokens, c \in Chains, d \in DestTokens :
    destTokenOwner[c][d] = t <=> tokenDestMappings[t][c] = d

\* The enumerated destination chains of a token are those with a mapping, so that
\* unregisterToken, which walks them, misses none.
DestChainsExact ==
  \A t \in Tokens : tokenDestChains[t] = {c \in Chains : GetDestToken(t, c) # NoDestToken}

\* NatSpec of unregisterToken: it cleans up all mappings of the token.
UnregisteredLeavesNothing ==
  \A t \in Tokens \ tokenRegistered, c \in Chains :
    GetDestToken(t, c) = NoDestToken /\ ~HasSrcMapping(c, t)

\* What a history charged in the span of the given length that starts at s.
InSpan(history, s, length) ==
  SumFunctionOnSet(history, {r \in 1..MaxTime : s <= r /\ r < s + length})

\* Under unchanged limits no span as long as the rate-limit window, wherever it starts,
\* releases more than twice maxPerPeriod: the bound a fixed window gives at its edge.
SpanBounded ==
  \A t \in Tokens, s \in 1..MaxTime :
    rateLimitBridge /\ rateLimitConfigs[t].maxPerPeriod # 0 =>
      InSpan(releases[t], s, RATE_LIMIT_WINDOW) <= 2 * rateLimitConfigs[t].maxPerPeriod

\* The same bound for TokenRateLimit, in both directions and while its limit stays the
\* same: delisting the module, listing it again or unhooking the guard earns no allowance.
GuardSpanBounded ==
  \A d \in Directions, t \in Tokens, s \in 1..MaxTime :
    InSpan(guardCharges[d][t], s, WINDOW_SECONDS) <= 2 * EffectiveLimit(d, t)

\* A window that nobody charged for its whole length admits any amount within the limit
\* now in force, whatever the limit was when it opened: the registry's, which only
\* withdrawals charge, and the guard's of both directions, which anyone may charge.
QuietTokenAdmits ==
  \A t \in Tokens, amount \in DepositAmounts \cup WithdrawAmounts :
    /\ /\ lastCharge[t] + RATE_LIMIT_WINDOW <= now
       /\ rateLimitConfigs[t].maxPerPeriod # 0 /\ amount <= rateLimitConfigs[t].maxPerPeriod
       => ChargedWindow(t).used + amount <= rateLimitConfigs[t].maxPerPeriod
    /\ \A d \in Directions :
         lastCheck[d][t] + WINDOW_SECONDS <= now /\ amount <= EffectiveLimit(d, t) =>
           ResetIfExpired(windowPerToken[d][t]).used + amount <= EffectiveLimit(d, t)
=============================================================================
