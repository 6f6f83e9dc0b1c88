------------------------- MODULE TokenRegistryProofs -------------------------
(***************************************************************************)
(* For every set of tokens, chains and destination tokens the reverse      *)
(* lookup of destination tokens is exact; for every choice of limits,      *)
(* amounts and supplies the fixed windows of the registry and of the guard *)
(* bound what any 24 hours release, and never stay closed on a quiet token.*)
(***************************************************************************)
EXTENDS TokenRegistryUse, FiniteSums, TLAPS

\* The part of the registry's type that the destinations need.
DestTypeOK ==
  /\ tokenDestMappings \in [Tokens -> [Chains -> DestTokens \cup {NoDestToken}]]
  /\ tokenDestChains \in [Tokens -> SUBSET Chains]
  /\ destTokenOwner \in [Chains -> [DestTokens -> Tokens \cup {NoToken}]]

IInv == DestTypeOK /\ DestinationsOneToOne /\ DestChainsExact

destVars == <<tokenDestMappings, tokenDestChains, destTokenOwner>>

\* Initially nothing is mapped.
LEMMA InitIInv == Init => IInv
  BY RegistryAssumption
  DEF Init, RegistryInit, IInv, DestTypeOK, DestinationsOneToOne, DestChainsExact, GetDestToken

\* Steps that leave the destination tables alone keep the invariant.
LEMMA DestinationsUntouched ==
  ASSUME IInv, UNCHANGED destVars
  PROVE  IInv'
  BY DEF IInv, DestTypeOK, DestinationsOneToOne, DestChainsExact, GetDestToken, destVars

\* Moving a claim: the new destination gets its owner and the old one loses it.
LEMMA SetDestinationStep ==
  ASSUME IInv, NEW t \in Tokens, NEW c \in Chains, NEW d \in DestTokens,
         SetTokenDestination(t, c, d)
  PROVE  IInv'
<1> USE DEF IInv, DestTypeOK
<1>1. DestTypeOK'
  BY DEF SetTokenDestination, ClaimDestToken, AddDestChain
<1>2. \A s \in Tokens, b \in Chains :
        tokenDestMappings'[s][b] = IF s = t /\ b = c THEN d ELSE tokenDestMappings[s][b]
  BY DEF SetTokenDestination
<1>3. \A b \in Chains, e \in DestTokens :
        destTokenOwner'[b][e] = IF b # c THEN destTokenOwner[b][e]
                                ELSE IF e = d THEN t
                                ELSE IF e = tokenDestMappings[t][c] THEN NoToken
                                ELSE destTokenOwner[b][e]
  BY DEF SetTokenDestination, ClaimDestToken
<1>4. DestinationsOneToOne'
  <2> SUFFICES ASSUME NEW s \in Tokens, NEW b \in Chains, NEW e \in DestTokens
               PROVE  destTokenOwner'[b][e] = s <=> tokenDestMappings'[s][b] = e
    BY DEF DestinationsOneToOne
  <2>1. CASE b # c
    BY <1>2, <1>3, <2>1 DEF DestinationsOneToOne
  <2>2. CASE b = c /\ e = d
    <3>1. destTokenOwner[c][d] \in {NoToken, t}
      BY DEF SetTokenDestination
    <3> QED
      BY <1>2, <1>3, <2>2, <3>1, RegistryAssumption DEF DestinationsOneToOne
  <2>3. CASE b = c /\ e # d
    BY <1>2, <1>3, <2>3, RegistryAssumption DEF DestinationsOneToOne
  <2> QED
    BY <2>1, <2>2, <2>3
<1>5. DestChainsExact'
  <2>1. \A s \in Tokens :
          tokenDestChains'[s] = IF s = t THEN tokenDestChains[s] \cup {c} ELSE tokenDestChains[s]
    BY DEF SetTokenDestination, AddDestChain
  <2>2. d # NoDestToken
    BY RegistryAssumption
  <2>3. ASSUME NEW s \in Tokens, NEW b \in Chains
        PROVE  b \in tokenDestChains'[s] <=> tokenDestMappings'[s][b] # NoDestToken
    <3>1. b \in tokenDestChains[s] <=> tokenDestMappings[s][b] # NoDestToken
      BY DEF DestChainsExact, GetDestToken
    <3> QED
      BY <1>2, <2>1, <2>2, <3>1
  <2> QED
    BY <1>1, <2>3 DEF DestChainsExact, GetDestToken
<1> QED
  BY <1>1, <1>4, <1>5

\* Unregistering walks the enumerated chains, which by DestChainsExact are all of them.
LEMMA UnregisterStep ==
  ASSUME IInv, NEW t \in Tokens, UnregisterToken(t)
  PROVE  IInv'
<1> USE DEF IInv, DestTypeOK
<1>1. DestTypeOK'
  <2>1. destTokenOwner' \in [Chains -> [DestTokens -> Tokens \cup {NoToken}]]
    BY DEF UnregisterToken
  <2>2. tokenDestMappings' \in [Tokens -> [Chains -> DestTokens \cup {NoDestToken}]]
    BY DEF UnregisterToken
  <2> QED
    BY <2>1, <2>2 DEF UnregisterToken
<1>2. \A s \in Tokens, b \in Chains :
        tokenDestMappings'[s][b] = IF s = t THEN NoDestToken ELSE tokenDestMappings[s][b]
  BY DEF UnregisterToken, DestChainsExact, GetDestToken
<1>3. \A b \in Chains, e \in DestTokens :
        destTokenOwner'[b][e] = IF tokenDestMappings[t][b] = e THEN NoToken
                                ELSE destTokenOwner[b][e]
  BY RegistryAssumption DEF UnregisterToken, DestChainsExact, GetDestToken
<1>4. DestinationsOneToOne'
  BY <1>2, <1>3, RegistryAssumption DEF DestinationsOneToOne
<1>5. DestChainsExact'
  BY <1>2 DEF UnregisterToken, DestChainsExact, GetDestToken
<1> QED
  BY <1>1, <1>4, <1>5

\* Every call of the registry owner keeps it.
LEMMA AdminStep ==
  ASSUME IInv, NEW supply, RegistryAdmin(supply)
  PROVE  IInv'
<1> USE DEF chainVars, mappingVars, limitVars, destVars
<1>1. ASSUME NEW t \in Tokens, NEW c \in Chains, NEW d \in DestTokens, SetTokenDestination(t, c, d)
      PROVE  IInv'
  BY <1>1, SetDestinationStep
<1>2. ASSUME NEW t \in Tokens, UnregisterToken(t) PROVE IInv'
  BY <1>2, UnregisterStep
<1>3. CASE UNCHANGED destVars
  BY <1>3, DestinationsUntouched
<1> QED
  BY <1>1, <1>2, <1>3
  DEF RegistryAdmin, RegisterChain, UnregisterChain, RegisterToken, SetIncomingTokenMapping,
      SetTokenType, SetRateLimitBridge, SetRateLimit

\* Every step keeps it.
LEMMA StepIInv == IInv /\ [Next]_vars => IInv'
<1> SUFFICES ASSUME IInv, [Next]_vars PROVE IInv'
  OBVIOUS
<1>1. CASE Admin
  BY <1>1, AdminStep DEF Admin
<1>2. ASSUME NEW t \in Tokens, NEW amount \in WithdrawAmounts, NEW user \in Users,
             CheckWithdrawGuard(t, amount, user)
      PROVE  IInv'
  BY <1>2, DestinationsUntouched DEF CheckWithdrawGuard, mappingVars, destVars
<1>3. CASE UNCHANGED registryVars
  BY <1>3, DestinationsUntouched DEF registryVars, destVars
<1> QED
  BY <1>1, <1>2, <1>3 DEF Next, GuardOwner, CheckDepositGuard, CheckByAnyone, vars

\* The inductive invariant holds throughout.
THEOREM Invariance == Spec => []IInv
  BY InitIInv, StepIInv, PTL DEF Spec

\* No destination token ever has two sources, and no claim outlives its mapping.
THEOREM OneToOne == Spec => []DestinationsOneToOne
<1>1. IInv => DestinationsOneToOne
  BY DEF IInv
<1> QED
  BY <1>1, Invariance, PTL

\* unregisterToken misses no destination of the token it removes.
THEOREM DestChainsAreExact == Spec => []DestChainsExact
<1>1. IInv => DestChainsExact
  BY DEF IInv
<1> QED
  BY <1>1, Invariance, PTL

(***************************************************************************)
(* Types                                                                   *)
(***************************************************************************)
\* Tables of two and of three keys, with one entry changed.
LEMMA TwoKeys ==
  ASSUME NEW A, NEW B, NEW V, NEW f \in [A -> [B -> V]], NEW a \in A, NEW b \in B, NEW v \in V
  PROVE  [f EXCEPT ![a][b] = v] \in [A -> [B -> V]]
OBVIOUS

LEMMA ThreeKeys ==
  ASSUME NEW A, NEW B, NEW C, NEW V, NEW f \in [A -> [B -> [C -> V]]],
         NEW a \in A, NEW b \in B, NEW c \in C, NEW v \in V
  PROVE  [f EXCEPT ![a][b][c] = v] \in [A -> [B -> [C -> V]]]
<1>1. [f[a] EXCEPT ![b][c] = v] \in [B -> [C -> V]]
  BY TwoKeys
<1> QED
  BY <1>1

LEMMA InitTypes == Init => TypeOK
<1> SUFFICES ASSUME Init PROVE TypeOK
  OBVIOUS
<1>1. RegistryTypeOK
  BY DEF Init, RegistryInit, RegistryTypeOK, NoLimits, NoWindow, TokenTypes
<1>2. GuardTypeOK(Supplies)
  BY GuardAssumption DEF Init, GuardInit, GuardTypeOK
<1>3. Nothing \in [1..MaxTime -> Nat]
  BY DEF Nothing
<1> QED
  BY <1>1, <1>2, <1>3, MaxTimeAssumption, UseAssumption DEF Init, StartOfTime, TypeOK

LEMMA DefaultLimitsTyped ==
  ASSUME RegistryTypeOK, NEW t \in Tokens, NEW supply \in Nat
  PROVE  DefaultRateLimits(t, supply)
           \in [minPerTransaction : Nat, maxPerTransaction : Nat, maxPerPeriod : Nat]
<1>1. supply \div 1000000 \in Nat /\ supply \div 10000 \in Nat
  OBVIOUS
<1> QED
  BY <1>1 DEF RegistryTypeOK, DefaultRateLimits

LEMMA RegistryAdminTyped ==
  ASSUME RegistryTypeOK, NEW supply \in [Tokens -> Nat], RegistryAdmin(supply)
  PROVE  RegistryTypeOK'
<1> USE DEF RegistryTypeOK, chainVars, mappingVars, limitVars
<1>1. ASSUME NEW c \in Chains, RegisterChain(c) \/ UnregisterChain(c) PROVE RegistryTypeOK'
  BY <1>1 DEF RegisterChain, UnregisterChain
<1>2. ASSUME NEW t \in Tokens, NEW type \in TokenTypes, RegisterToken(t, type, supply[t])
      PROVE  RegistryTypeOK'
  BY <1>2, DefaultLimitsTyped DEF RegisterToken
<1>3. ASSUME NEW t \in Tokens, NEW c \in Chains, NEW d \in DestTokens, SetTokenDestination(t, c, d)
      PROVE  RegistryTypeOK'
  BY <1>3 DEF SetTokenDestination, ClaimDestToken, AddDestChain
<1>4. ASSUME NEW t \in Tokens, NEW c \in Chains, NEW dec \in Decimals,
             SetIncomingTokenMapping(c, t, dec)
      PROVE  RegistryTypeOK'
  BY <1>4 DEF SetIncomingTokenMapping
<1>5. ASSUME NEW t \in Tokens, NEW type \in TokenTypes, SetTokenType(t, type) PROVE RegistryTypeOK'
  BY <1>5 DEF SetTokenType
<1>6. ASSUME NEW t \in Tokens, UnregisterToken(t) PROVE RegistryTypeOK'
  BY <1>6 DEF UnregisterToken, TokenTypes, NoLimits, NoWindow
<1>7. ASSUME NEW on \in BOOLEAN, SetRateLimitBridge(on) PROVE RegistryTypeOK'
  BY <1>7 DEF SetRateLimitBridge
<1>8. ASSUME NEW t \in Tokens, NEW config \in RateLimits, SetRateLimit(t, config)
      PROVE  RegistryTypeOK'
  BY <1>8, RegistryAssumption DEF SetRateLimit
<1> QED
  BY <1>1, <1>2, <1>3, <1>4, <1>5, <1>6, <1>7, <1>8 DEF RegistryAdmin

LEMMA GuardAdminTyped ==
  ASSUME GuardTypeOK(Supplies), GuardAdmin(Supplies)
  PROVE  GuardTypeOK(Supplies)'
<1> USE DEF GuardTypeOK
<1>1. ASSUME NEW d \in Directions, NEW m \in Modules, AddGuardModule(d, m) \/ RemoveGuardModule(d, m)
      PROVE  GuardTypeOK(Supplies)'
  BY <1>1 DEF AddGuardModule, RemoveGuardModule
<1>2. ASSUME NEW d \in Directions, NEW t \in Tokens, NEW limit \in GuardLimits, SetLimit(d, t, limit)
      PROVE  GuardTypeOK(Supplies)'
  BY <1>2, GuardAssumption DEF SetLimit
<1>3. ASSUME NEW tokens \in SUBSET Tokens, NEW deposits \in [tokens -> GuardLimits],
             NEW withdrawals \in [tokens -> GuardLimits], SetLimitsBatch(tokens, deposits, withdrawals)
      PROVE  GuardTypeOK(Supplies)'
  BY <1>3, GuardAssumption DEF SetLimitsBatch
<1>4. ASSUME NEW t \in Tokens, NEW s \in Supplies, SupplyBecomes(t, s) PROVE GuardTypeOK(Supplies)'
  BY <1>4 DEF SupplyBecomes
<1>5. ASSUME NEW users \in SUBSET Users, NEW on \in BOOLEAN, SetIsBlacklisted(users, on)
      PROVE  GuardTypeOK(Supplies)'
  BY <1>5 DEF SetIsBlacklisted
<1>6. ASSUME NEW on \in BOOLEAN, SetGuardBridge(on) PROVE GuardTypeOK(Supplies)'
  BY <1>6 DEF SetGuardBridge
<1> QED
  BY <1>1, <1>2, <1>3, <1>4, <1>5, <1>6 DEF GuardAdmin

\* Both kinds of window, as a check leaves them.
LEMMA ResetTyped ==
  ASSUME TypeOK, NEW d \in Directions, NEW t \in Tokens
  PROVE  /\ ResetIfExpired(windowPerToken[d][t]) \in [windowStart : Nat, used : Nat]
         /\ ChargedWindow(t) \in [windowStart : Nat, used : Nat]
<1>1. /\ windowPerToken[d][t] \in [windowStart : Nat, used : Nat] /\ now \in Nat
      /\ withdrawWindows[t] \in [windowStart : Nat, used : Nat]
  BY DEF TypeOK, GuardTypeOK, RegistryTypeOK
<1> QED
  BY <1>1 DEF ResetIfExpired, ChargedWindow

\* A check of the guard, by whomever, charges one window or leaves them all.
GuardAsked(d, t, amount) ==
  /\ \/ ChargeWindow(d, t, amount) /\ GuardCharged(d, t, amount)
     \/ UNCHANGED <<windowPerToken, guardCharges, lastCheck>>
  /\ UNCHANGED <<now, guardBridge, guardModules, isBlacklisted, limitPerToken, totalSupply>>

LEMMA AskedByBridge ==
  ASSUME NEW d, NEW t, NEW amount, NEW user,
         CheckGuard(d, t, amount, user), RecordGuardCharge(d, t, amount), now' = now
  PROVE  GuardAsked(d, t, amount)
BY DEF CheckGuard, RecordGuardCharge, GuardAsked

LEMMA AskedByAnyone ==
  ASSUME NEW d, NEW t, NEW amount, CheckByAnyone(d, t, amount)
  PROVE  GuardAsked(d, t, amount)
BY DEF CheckByAnyone, GuardAsked

LEMMA GuardAskedTyped ==
  ASSUME TypeOK, NEW d \in Directions, NEW t \in Tokens, NEW amount \in Nat, GuardAsked(d, t, amount)
  PROVE  /\ GuardTypeOK(Supplies)'
         /\ guardCharges' \in [Directions -> [Tokens -> [1..MaxTime -> Nat]]]
         /\ lastCheck' \in [Directions -> [Tokens -> 0..MaxTime]]
<1>1. ResetIfExpired(windowPerToken[d][t]) \in [windowStart : Nat, used : Nat]
  BY ResetTyped
<1>2. [ResetIfExpired(windowPerToken[d][t]) EXCEPT !.used = @ + amount]
        \in [windowStart : Nat, used : Nat]
  BY <1>1
<1>3. windowPerToken' \in [Directions -> [Tokens -> [windowStart : Nat, used : Nat]]]
  <2>1. windowPerToken \in [Directions -> [Tokens -> [windowStart : Nat, used : Nat]]]
    BY DEF TypeOK, GuardTypeOK
  <2>2. \/ windowPerToken' = windowPerToken
        \/ windowPerToken' = [windowPerToken EXCEPT ![d][t] =
                                [ResetIfExpired(windowPerToken[d][t]) EXCEPT !.used = @ + amount]]
    BY DEF GuardAsked, ChargeWindow
  <2>3. [windowPerToken EXCEPT ![d][t] = [ResetIfExpired(windowPerToken[d][t]) EXCEPT !.used = @ + amount]]
          \in [Directions -> [Tokens -> [windowStart : Nat, used : Nat]]]
    BY <1>2, <2>1, TwoKeys, Zenon
  <2> QED
    BY <2>1, <2>2, <2>3, Zenon
<1>4. guardCharges' \in [Directions -> [Tokens -> [1..MaxTime -> Nat]]]
  <2>1. guardCharges \in [Directions -> [Tokens -> [1..MaxTime -> Nat]]] /\ now \in 1..MaxTime
    BY DEF TypeOK
  <2>2. guardCharges[d][t][now] + amount \in Nat
    <3>1. guardCharges[d][t][now] \in Nat
      BY <2>1
    <3> QED
      BY <3>1
  <2>3. \/ guardCharges' = guardCharges
        \/ guardCharges' = [guardCharges EXCEPT ![d][t][now] = guardCharges[d][t][now] + amount]
    BY DEF GuardAsked, GuardCharged
  <2>4. [guardCharges EXCEPT ![d][t][now] = guardCharges[d][t][now] + amount]
          \in [Directions -> [Tokens -> [1..MaxTime -> Nat]]]
    BY <2>1, <2>2, ThreeKeys
  <2> QED
    BY <2>1, <2>3, <2>4, Zenon
<1>5. lastCheck' \in [Directions -> [Tokens -> 0..MaxTime]]
  <2>1. lastCheck \in [Directions -> [Tokens -> 0..MaxTime]] /\ now \in 0..MaxTime
    BY MaxTimeAssumption DEF TypeOK
  <2>2. lastCheck' = lastCheck \/ lastCheck' = [lastCheck EXCEPT ![d][t] = now]
    BY DEF GuardAsked, GuardCharged
  <2>3. [lastCheck EXCEPT ![d][t] = now] \in [Directions -> [Tokens -> 0..MaxTime]]
    BY <2>1, TwoKeys, Zenon
  <2> QED
    BY <2>1, <2>2, <2>3, Zenon
<1> QED
  BY <1>3, <1>4, <1>5 DEF GuardAsked, TypeOK, GuardTypeOK

LEMMA StepTypes == TypeOK /\ [Next]_vars => TypeOK'
<1> SUFFICES ASSUME TypeOK, [Next]_vars PROVE TypeOK'
  OBVIOUS
<1> USE DEF registryVars, guardVars, historyVars
<1>1. CASE Admin
  <2>1. totalSupply \in [Tokens -> Nat]
    BY UseAssumption DEF TypeOK, GuardTypeOK
  <2>2. RegistryTypeOK'
    BY <1>1, <2>1, RegistryAdminTyped DEF Admin, TypeOK
  <2>3. releases' \in [Tokens -> [1..MaxTime -> Nat]]
    BY <1>1 DEF Admin, ForgetReleases, Nothing, TypeOK
  <2> QED
    BY <1>1, <2>2, <2>3 DEF Admin, TypeOK, GuardTypeOK
<1>2. CASE GuardOwner
  <2>1. GuardTypeOK(Supplies)'
    BY <1>2, GuardAdminTyped DEF GuardOwner, TypeOK
  <2>2. guardCharges' \in [Directions -> [Tokens -> [1..MaxTime -> Nat]]]
    BY <1>2 DEF GuardOwner, ForgetGuardCharges, Nothing, TypeOK
  <2>3. guardCalls' \in 0..MaxGuardCalls
    BY <1>2, UseAssumption DEF GuardOwner, TypeOK
  <2> QED
    BY <1>2, <2>1, <2>2, <2>3 DEF GuardOwner, TypeOK, RegistryTypeOK
<1>3. ASSUME NEW t \in Tokens, NEW amount \in DepositAmounts, NEW user \in Users,
             CheckDepositGuard(t, amount, user)
      PROVE  TypeOK'
  <2>1. /\ GuardTypeOK(Supplies)' /\ guardCharges' \in [Directions -> [Tokens -> [1..MaxTime -> Nat]]]
        /\ lastCheck' \in [Directions -> [Tokens -> 0..MaxTime]]
    BY <1>3, UseAssumption, AskedByBridge, GuardAskedTyped DEF CheckDepositGuard, Directions
  <2> QED
    BY <1>3, <2>1 DEF CheckDepositGuard, TypeOK, RegistryTypeOK
<1>4. ASSUME NEW t \in Tokens, NEW amount \in WithdrawAmounts, NEW user \in Users,
             CheckWithdrawGuard(t, amount, user)
      PROVE  TypeOK'
  <2>1. /\ GuardTypeOK(Supplies)' /\ guardCharges' \in [Directions -> [Tokens -> [1..MaxTime -> Nat]]]
        /\ lastCheck' \in [Directions -> [Tokens -> 0..MaxTime]]
    BY <1>4, UseAssumption, AskedByBridge, GuardAskedTyped DEF CheckWithdrawGuard, Directions
  <2>2. [ChargedWindow(t) EXCEPT !.used = @ + amount] \in [windowStart : Nat, used : Nat]
    <3>1. ChargedWindow(t) \in [windowStart : Nat, used : Nat]
      BY ResetTyped DEF Directions
    <3> QED
      BY <3>1, UseAssumption
  <2>3. RegistryTypeOK'
    BY <1>4, <2>2 DEF CheckWithdrawGuard, CheckAndUpdateWithdrawRateLimit, chainVars, mappingVars,
                      TypeOK, RegistryTypeOK
  <2>4. releases' \in [Tokens -> [1..MaxTime -> Nat]]
    <3>1. releases \in [Tokens -> [1..MaxTime -> Nat]] /\ now \in 1..MaxTime
      BY DEF TypeOK
    <3>2. releases[t][now] + amount \in Nat
      <4>1. releases[t][now] \in Nat
        BY <3>1
      <4> QED
        BY <4>1, UseAssumption
    <3>3. \/ releases' = releases
          \/ releases' = [releases EXCEPT ![t][now] = releases[t][now] + amount]
      BY <1>4 DEF CheckWithdrawGuard
    <3>4. [releases EXCEPT ![t][now] = releases[t][now] + amount]
            \in [Tokens -> [1..MaxTime -> Nat]]
      BY <3>1, <3>2, TwoKeys, Zenon
    <3> QED
      BY <3>1, <3>3, <3>4, Zenon
  <2>5. lastCharge' \in [Tokens -> 0..MaxTime]
    BY <1>4, MaxTimeAssumption DEF CheckWithdrawGuard, TypeOK
  <2> QED
    BY <1>4, <2>1, <2>3, <2>4, <2>5 DEF CheckWithdrawGuard, TypeOK
<1>5. CASE Tick /\ UNCHANGED <<registryVars, guardVars, historyVars>>
  <2>1. now' \in 1..MaxTime
    BY <1>5, MaxTimeAssumption DEF Tick, TypeOK
  <2> QED
    BY <1>5, <2>1 DEF TypeOK, RegistryTypeOK, GuardTypeOK
<1>6. ASSUME NEW d \in Directions, NEW t \in Tokens, NEW amount \in DirectAmounts,
             CheckByAnyone(d, t, amount)
      PROVE  TypeOK'
  <2>1. /\ GuardTypeOK(Supplies)' /\ guardCharges' \in [Directions -> [Tokens -> [1..MaxTime -> Nat]]]
        /\ lastCheck' \in [Directions -> [Tokens -> 0..MaxTime]]
    BY <1>6, UseAssumption, AskedByAnyone, GuardAskedTyped
  <2> QED
    BY <1>6, <2>1 DEF CheckByAnyone, TypeOK, RegistryTypeOK
<1>7. CASE UNCHANGED vars
  BY <1>7 DEF vars, TypeOK, RegistryTypeOK, GuardTypeOK
<1> QED
  BY <1>1, <1>2, <1>3, <1>4, <1>5, <1>6, <1>7 DEF Next

\* Claims on remote tokens belong to tokens, limits and windows are naturals, whatever
\* supplies, limits and amounts there are.
THEOREM TypeCorrect == Spec => []TypeOK
  BY InitTypes, StepTypes, PTL DEF Spec
(***************************************************************************)
(* Fixed windows.  h is what was charged at each time, W the start of the  *)
(* window in progress and U its use, L the limit, n the present.  Both     *)
(* contracts keep such a window per token.                                 *)
(***************************************************************************)
Times == 1..MaxTime

Span(h, a, b) == SumFunctionOnSet(h, {r \in Times : a <= r /\ r < b})

\* Charges lie in the past, before the end of the window in progress; those since it
\* began are on its account; and what precedes it in a span that reaches it is the tail
\* of one older window.
FixedWindow(h, W, U, L, n) ==
  /\ W <= n
  /\ \A r \in Times : h[r] # 0 => 0 < W /\ r <= n /\ r < W + RATE_LIMIT_WINDOW
  /\ Span(h, W, MaxTime + 1) <= U /\ Span(h, W, MaxTime + 1) <= L
  /\ \A s \in Times : W < s + RATE_LIMIT_WINDOW => Span(h, s, W) <= L
  /\ \A s \in Times : Span(h, s, s + RATE_LIMIT_WINDOW) <= 2 * L

LEMMA SpanSet ==
  ASSUME NEW h \in [Times -> Nat], NEW a, NEW b
  PROVE  /\ IsFiniteSet({r \in Times : a <= r /\ r < b})
         /\ AllNat(h, {r \in Times : a <= r /\ r < b})
         /\ Span(h, a, b) \in Nat
<1> DEFINE S == {r \in Times : a <= r /\ r < b}
<1>1. IsFiniteSet(Times)
  BY MaxTimeAssumption, FS_Interval DEF Times
<1>2. S \in SUBSET Times /\ \A r \in Times : h[r] \in Nat
  OBVIOUS
<1>3. AllNat(h, S)
  BY <1>2 DEF AllNat
<1> HIDE DEF S
<1>4. IsFiniteSet(S)
  BY <1>1, <1>2, FS_Subset
<1>5. SumFunctionOnSet(h, S) \in Nat
  BY <1>3, <1>4, SumNat
<1> QED
  BY <1>3, <1>4, <1>5 DEF Span, S

LEMMA SpanParts ==
  ASSUME NEW h \in [Times -> Nat], NEW a \in Int, NEW b \in Int, NEW c \in Int, a <= b, b <= c
  PROVE  Span(h, a, c) = Span(h, a, b) + Span(h, b, c)
<1> DEFINE S == {r \in Times : a <= r /\ r < c}
           A == {r \in Times : a <= r /\ r < b}
           B == {r \in Times : b <= r /\ r < c}
<1>1. A \in SUBSET S /\ S \ A = B
  BY DEF Times
<1>2. IsFiniteSet(S) /\ AllNat(h, S)
  BY SpanSet
<1> HIDE DEF S, A, B
<1>3. SumFunctionOnSet(h, S) = SumFunctionOnSet(h, A) + SumFunctionOnSet(h, B)
  BY <1>1, <1>2, SumSplit
<1> QED
  BY <1>3 DEF Span, S, A, B

LEMMA SpanWithin ==
  ASSUME NEW h \in [Times -> Nat], NEW a \in Int, NEW b \in Int, NEW c \in Int, NEW d \in Int,
         c <= a, b <= d
  PROVE  Span(h, a, b) <= Span(h, c, d)
<1> DEFINE S == {r \in Times : c <= r /\ r < d}
           A == {r \in Times : a <= r /\ r < b}
<1>1. A \in SUBSET S
  BY DEF Times
<1>2. IsFiniteSet(S) /\ AllNat(h, S)
  BY SpanSet
<1> HIDE DEF S, A
<1>3. SumFunctionOnSet(h, A) <= SumFunctionOnSet(h, S)
  BY <1>1, <1>2, SumMonotone
<1> QED
  BY <1>3 DEF Span, S, A

LEMMA SpanOfZeros ==
  ASSUME NEW h \in [Times -> Nat], NEW a, NEW b,
         \A r \in Times : a <= r /\ r < b => h[r] = 0
  PROVE  Span(h, a, b) = 0
<1> DEFINE S == {r \in Times : a <= r /\ r < b}
<1>1. \A r \in S : h[r] = 0
  OBVIOUS
<1>2. IsFiniteSet(S)
  BY SpanSet
<1> HIDE DEF S
<1>3. SumFunctionOnSet(h, S) = 0
  BY <1>1, <1>2, SumOfZeros
<1> QED
  BY <1>3 DEF Span, S

\* One more charge counts in the spans that hold its time.
LEMMA SpanCharged ==
  ASSUME NEW h \in [Times -> Nat], NEW n \in Times, NEW x \in Nat, NEW g \in [Times -> Nat],
         g[n] = h[n] + x, \A r \in Times : r # n => g[r] = h[r], NEW a \in Int, NEW b \in Int
  PROVE  /\ a <= n /\ n < b => Span(g, a, b) = Span(h, a, b) + x
         /\ ~(a <= n /\ n < b) => Span(g, a, b) = Span(h, a, b)
<1> DEFINE S == {r \in Times : a <= r /\ r < b}
<1>1. IsFiniteSet(S) /\ AllNat(h, S) /\ AllNat(g, S)
  BY SpanSet
<1>2. \A r \in S \ {n} : h[r] = g[r]
  OBVIOUS
<1>3. n \in S <=> a <= n /\ n < b
  OBVIOUS
<1>4. h[n] \in Nat
  OBVIOUS
<1> HIDE DEF S
<1>5. /\ SumFunctionOnSet(h, S) \in Nat /\ SumFunctionOnSet(g, S) \in Nat
      /\ SumFunctionOnSet(g, S) + (IF n \in S THEN h[n] ELSE 0) =
           SumFunctionOnSet(h, S) + (IF n \in S THEN g[n] ELSE 0)
  BY <1>1, <1>2, SumChange
<1>6. CASE n \in S
  <2>1. SumFunctionOnSet(g, S) = SumFunctionOnSet(h, S) + x
    BY <1>4, <1>5, <1>6
  <2> QED
    BY <1>3, <1>6, <2>1 DEF Span, S
<1>7. CASE n \notin S
  <2>1. SumFunctionOnSet(g, S) = SumFunctionOnSet(h, S)
    BY <1>5, <1>7
  <2> QED
    BY <1>3, <1>7, <2>1 DEF Span, S
<1> QED
  BY <1>6, <1>7

LEMMA FreshWindow ==
  ASSUME NEW n \in Nat, NEW W \in Nat, NEW U \in Nat, NEW L \in Nat, W <= n
  PROVE  FixedWindow(Nothing, W, U, L, n)
<1>1. Nothing \in [Times -> Nat] /\ \A r \in Times : Nothing[r] = 0
  BY DEF Nothing, Times
<1>2. \A a, b : Span(Nothing, a, b) = 0
  BY <1>1, SpanOfZeros
<1> QED
  BY <1>1, <1>2 DEF FixedWindow

LEMMA LaterWindow ==
  ASSUME NEW h, NEW n \in Nat, NEW m \in Nat, n <= m, NEW W \in Nat, NEW U, NEW L,
         FixedWindow(h, W, U, L, n)
  PROVE  FixedWindow(h, W, U, L, m)
BY DEF FixedWindow, Times

\* A new window opens when the old one is over, and forgets nothing a span still sees.
LEMMA OpenedWindow ==
  ASSUME NEW h \in [Times -> Nat], NEW n \in Times, NEW W \in Nat, NEW U \in Nat, NEW L \in Nat,
         FixedWindow(h, W, U, L, n), W = 0 \/ W + RATE_LIMIT_WINDOW <= n
  PROVE  FixedWindow(h, n, 0, L, n)
<1>1. RATE_LIMIT_WINDOW \in Nat \ {0} /\ MaxTime \in Nat /\ n \in Nat /\ 0 < n /\ n <= MaxTime
  BY RegistryAssumption, MaxTimeAssumption DEF Times
<1>2. \A r \in Times : r \in Nat
  BY DEF Times
<1>3. \A r \in Times : h[r] # 0 => r < n
  BY <1>1, <1>2 DEF FixedWindow
<1>4. Span(h, n, MaxTime + 1) = 0
  <2>1. \A r \in Times : n <= r /\ r < MaxTime + 1 => h[r] = 0
    BY <1>1, <1>2, <1>3
  <2> QED
    BY <2>1, SpanOfZeros
<1>5. ASSUME NEW s \in Times, n < s + RATE_LIMIT_WINDOW PROVE Span(h, s, n) <= L
  <2>1. CASE W = 0
    <3>1. \A r \in Times : s <= r /\ r < n => h[r] = 0
      BY <2>1 DEF FixedWindow
    <3>2. Span(h, s, n) = 0
      BY <3>1, SpanOfZeros
    <3> QED
      BY <3>2
  <2>2. CASE W + RATE_LIMIT_WINDOW <= n
    <3>1. W <= s /\ n <= MaxTime + 1 /\ s \in Int
      BY <1>1, <1>2, <1>5, <2>2
    <3>2. Span(h, s, n) <= Span(h, W, MaxTime + 1)
      BY <1>1, <3>1, SpanWithin
    <3>3. Span(h, s, n) \in Nat /\ Span(h, W, MaxTime + 1) \in Nat
      BY SpanSet
    <3> QED
      BY <3>2, <3>3 DEF FixedWindow
  <2> QED
    BY <2>1, <2>2
<1>6. \A r \in Times : h[r] # 0 => 0 < n /\ r <= n /\ r < n + RATE_LIMIT_WINDOW
  BY <1>1, <1>2, <1>3
<1> QED
  BY <1>1, <1>4, <1>5, <1>6 DEF FixedWindow

\* A charge to the window in progress, within the limit.
LEMMA ChargedToWindow ==
  ASSUME NEW h \in [Times -> Nat], NEW n \in Times, NEW W \in Nat, NEW U \in Nat, NEW L \in Nat,
         FixedWindow(h, W, U, L, n), 0 < W, n < W + RATE_LIMIT_WINDOW,
         NEW x \in Nat, U + x <= L, NEW g \in [Times -> Nat],
         g[n] = h[n] + x, \A r \in Times : r # n => g[r] = h[r]
  PROVE  FixedWindow(g, W, U + x, L, n)
<1>1. RATE_LIMIT_WINDOW \in Nat \ {0} /\ MaxTime \in Nat /\ n \in Nat /\ n <= MaxTime /\ W <= n
  BY RegistryAssumption, MaxTimeAssumption DEF Times, FixedWindow
<1>2. \A r \in Times : r \in Nat
  BY DEF Times
<1>3. \A r \in Times : g[r] # 0 => 0 < W /\ r <= n /\ r < W + RATE_LIMIT_WINDOW
  BY <1>1 DEF FixedWindow
<1>4. \A a, b : Span(g, a, b) \in Nat /\ Span(h, a, b) \in Nat
  BY SpanSet
<1>5. Span(g, W, MaxTime + 1) = Span(h, W, MaxTime + 1) + x
  BY <1>1, SpanCharged
<1>6. Span(g, W, MaxTime + 1) <= U + x /\ Span(g, W, MaxTime + 1) <= L
  BY <1>4, <1>5 DEF FixedWindow
<1>7. ASSUME NEW s \in Times, W < s + RATE_LIMIT_WINDOW PROVE Span(g, s, W) <= L
  <2>1. Span(g, s, W) = Span(h, s, W)
    BY <1>1, <1>2, SpanCharged
  <2> QED
    BY <1>7, <2>1 DEF FixedWindow
<1>8. ASSUME NEW s \in Times PROVE Span(g, s, s + RATE_LIMIT_WINDOW) <= 2 * L
  <2> DEFINE e == s + RATE_LIMIT_WINDOW
  <2> SUFFICES Span(g, s, e) <= 2 * L
    OBVIOUS
  <2>1. s \in Int /\ e \in Int
    BY <1>1, <1>2
  <2>2. CASE ~(s <= n /\ n < e)
    <3>1. Span(g, s, e) = Span(h, s, e)
      BY <2>1, <2>2, SpanCharged
    <3> QED
      BY <3>1 DEF FixedWindow
  <2>3. CASE s <= n /\ n < e /\ s <= W
    <3>1. Span(g, s, e) = Span(g, s, W) + Span(g, W, e)
      BY <1>1, <2>1, <2>3, SpanParts
    <3>2. Span(g, s, W) <= L
      BY <1>1, <2>1, <2>3, <1>7
    <3>3. Span(g, W, e) <= Span(g, W, MaxTime + 1)
      <4>1. Span(g, W, e) <= Span(g, W, e + MaxTime + 1)
        BY <1>1, <2>1, SpanWithin
      <4>2. Span(g, W, e + MaxTime + 1) = Span(g, W, MaxTime + 1) + Span(g, MaxTime + 1, e + MaxTime + 1)
        BY <1>1, <1>2, <2>1, SpanParts
      <4>3. \A r \in Times : MaxTime + 1 <= r /\ r < e + MaxTime + 1 => g[r] = 0
        BY <1>1 DEF Times
      <4>4. Span(g, MaxTime + 1, e + MaxTime + 1) = 0
        BY <4>3, SpanOfZeros
      <4> HIDE DEF e
      <4> QED
        BY <1>4, <4>1, <4>2, <4>4
    <3> HIDE DEF e
    <3> QED
      BY <1>4, <1>6, <3>1, <3>2, <3>3
  <2>4. CASE s <= n /\ n < e /\ W < s
    <3>1. Span(g, s, e) <= Span(g, W, e + MaxTime + 1)
      BY <1>1, <2>1, <2>4, SpanWithin
    <3>2. Span(g, W, e + MaxTime + 1) = Span(g, W, MaxTime + 1) + Span(g, MaxTime + 1, e + MaxTime + 1)
      BY <1>1, <1>2, <2>1, SpanParts
    <3>3. \A r \in Times : MaxTime + 1 <= r /\ r < e + MaxTime + 1 => g[r] = 0
      BY <1>1 DEF Times
    <3>4. Span(g, MaxTime + 1, e + MaxTime + 1) = 0
      BY <3>3, SpanOfZeros
    <3> HIDE DEF e
    <3> QED
      BY <1>4, <1>6, <3>1, <3>2, <3>4
  <2> QED
    BY <1>1, <2>1, <2>2, <2>3, <2>4
<1> QED
  BY <1>1, <1>3, <1>6, <1>7, <1>8 DEF FixedWindow
(***************************************************************************)
(* The registry's window and the guard's                                   *)
(***************************************************************************)
RegistryWindow(t) ==
  /\ FixedWindow(releases[t], withdrawWindows[t].windowStart, withdrawWindows[t].used,
                 rateLimitConfigs[t].maxPerPeriod, now)
  /\ ~rateLimitBridge \/ rateLimitConfigs[t].maxPerPeriod = 0 => releases[t] = Nothing
  /\ withdrawWindows[t].windowStart <= lastCharge[t]

GuardWindow(d, t) ==
  /\ FixedWindow(guardCharges[d][t], windowPerToken[d][t].windowStart, windowPerToken[d][t].used,
                 EffectiveLimit(d, t), now)
  /\ windowPerToken[d][t].windowStart = 0 => windowPerToken[d][t].used = 0
  /\ windowPerToken[d][t].windowStart <= lastCheck[d][t] /\ lastCheck[d][t] <= now

WindowsInv ==
  /\ \A t \in Tokens : lastCharge[t] <= now /\ RegistryWindow(t)
  /\ \A d \in Directions, t \in Tokens : GuardWindow(d, t)

LEMMA WindowTypes ==
  ASSUME TypeOK
  PROVE  /\ now \in Times /\ now \in Nat /\ RATE_LIMIT_WINDOW \in Nat \ {0}
         /\ \A t \in Tokens : /\ releases[t] \in [Times -> Nat]
                              /\ withdrawWindows[t] \in [windowStart : Nat, used : Nat]
                              /\ rateLimitConfigs[t].maxPerPeriod \in Nat /\ lastCharge[t] \in Nat
         /\ \A d \in Directions, t \in Tokens :
              /\ guardCharges[d][t] \in [Times -> Nat] /\ EffectiveLimit(d, t) \in Nat
              /\ windowPerToken[d][t] \in [windowStart : Nat, used : Nat] /\ lastCheck[d][t] \in Nat
<1>1. now \in Times /\ now \in Nat /\ RATE_LIMIT_WINDOW \in Nat \ {0}
  BY RegistryAssumption DEF TypeOK, Times
<1>2. \A t \in Tokens : releases[t] \in [Times -> Nat]
  BY DEF TypeOK, Times
<1>3. \A t \in Tokens : /\ withdrawWindows[t] \in [windowStart : Nat, used : Nat]
                        /\ rateLimitConfigs[t].maxPerPeriod \in Nat /\ lastCharge[t] \in Nat
  <2>1. lastCharge \in [Tokens -> Nat]
    BY MaxTimeAssumption DEF TypeOK
  <2> QED
    BY <2>1 DEF TypeOK, RegistryTypeOK
<1>4. ASSUME NEW d \in Directions, NEW t \in Tokens
      PROVE  /\ guardCharges[d][t] \in [Times -> Nat] /\ EffectiveLimit(d, t) \in Nat
             /\ windowPerToken[d][t] \in [windowStart : Nat, used : Nat] /\ lastCheck[d][t] \in Nat
  <2>1. guardCharges[d][t] \in [Times -> Nat]
    BY DEF TypeOK, Times
  <2>2. limitPerToken[d][t] \in Nat /\ totalSupply[t] \in Nat
    <3>1. totalSupply[t] \in Supplies /\ limitPerToken[d][t] \in Nat
      BY DEF TypeOK, GuardTypeOK
    <3> QED
      BY <3>1, UseAssumption
  <2>3. totalSupply[t] \div 1000 \in Nat
    BY <2>2
  <2>4. lastCheck[d][t] \in Nat
    BY MaxTimeAssumption DEF TypeOK
  <2> QED
    BY <2>1, <2>2, <2>3, <2>4, GuardAssumption DEF TypeOK, GuardTypeOK, EffectiveLimit, DefaultLimit
<1> QED
  BY <1>1, <1>2, <1>3, <1>4

LEMMA InitWindows == Init => WindowsInv
<1> SUFFICES ASSUME Init PROVE WindowsInv
  OBVIOUS
<1>1. TypeOK
  BY InitTypes
<1>2. now = 1
  BY DEF Init, StartOfTime
<1>3. ASSUME NEW t \in Tokens PROVE lastCharge[t] <= now /\ RegistryWindow(t)
  <2>1. /\ releases[t] = Nothing /\ withdrawWindows[t].windowStart = 0 /\ lastCharge[t] = 0
        /\ withdrawWindows[t].used = 0
    BY DEF Init, RegistryInit, NoWindow
  <2> QED
    BY <1>1, <1>2, <2>1, WindowTypes, FreshWindow DEF RegistryWindow
<1>4. ASSUME NEW d \in Directions, NEW t \in Tokens PROVE GuardWindow(d, t)
  <2>1. /\ guardCharges[d][t] = Nothing /\ windowPerToken[d][t].windowStart = 0 /\ lastCheck[d][t] = 0
        /\ windowPerToken[d][t].used = 0
    BY DEF Init, GuardInit
  <2> QED
    BY <1>1, <1>2, <2>1, WindowTypes, FreshWindow DEF GuardWindow
<1> QED
  BY <1>3, <1>4 DEF WindowsInv

\* An owner's call leaves the window of a token, or clears it with its limits.
LEMMA AdminLeavesWindows ==
  ASSUME TypeOK, NEW supply, RegistryAdmin(supply), NEW t \in Tokens
  PROVE  \/ withdrawWindows'[t] = withdrawWindows[t]
         \/ withdrawWindows'[t] = NoWindow /\ rateLimitConfigs'[t] = NoLimits
<1>1. ASSUME NEW s \in Tokens, UnregisterToken(s)
      PROVE  \/ withdrawWindows'[t] = withdrawWindows[t]
             \/ withdrawWindows'[t] = NoWindow /\ rateLimitConfigs'[t] = NoLimits
  BY <1>1 DEF UnregisterToken, TypeOK, RegistryTypeOK
<1>2. CASE UNCHANGED withdrawWindows
  BY <1>2
<1> QED
  BY <1>1, <1>2
  DEF RegistryAdmin, RegisterChain, UnregisterChain, RegisterToken, SetTokenDestination, SetTokenType,
      SetIncomingTokenMapping, SetRateLimitBridge, SetRateLimit, chainVars, mappingVars, limitVars

LEMMA AdminWindows ==
  ASSUME TypeOK, TypeOK', WindowsInv, Admin
  PROVE  WindowsInv'
<1>1. UNCHANGED <<now, guardVars, guardCharges, lastCharge, lastCheck>> /\ ForgetReleases
  BY DEF Admin
<1>2. ASSUME NEW t \in Tokens PROVE RegistryWindow(t)'
  <2>1. \/ withdrawWindows'[t] = withdrawWindows[t]
        \/ withdrawWindows'[t] = NoWindow /\ rateLimitConfigs'[t] = NoLimits
    BY AdminLeavesWindows DEF Admin
  <2>2. withdrawWindows'[t].windowStart <= lastCharge'[t]
    BY <1>1, <2>1, WindowTypes DEF NoWindow, WindowsInv, RegistryWindow
  <2>3. /\ withdrawWindows'[t] \in [windowStart : Nat, used : Nat]
        /\ rateLimitConfigs'[t].maxPerPeriod \in Nat
    BY DEF TypeOK, RegistryTypeOK
  <2>4. withdrawWindows'[t].windowStart <= now' /\ now' \in Nat
    <3>1. lastCharge[t] <= now /\ lastCharge[t] \in Nat /\ now \in Nat
      BY WindowTypes DEF WindowsInv
    <3> QED
      BY <1>1, <2>2, <2>3, <3>1
  <2>5. CASE releases'[t] = Nothing
    BY <2>2, <2>3, <2>4, <2>5, FreshWindow DEF RegistryWindow
  <2>6. CASE releases'[t] # Nothing
    <3>1. /\ rateLimitConfigs'[t] = rateLimitConfigs[t] /\ rateLimitBridge' = rateLimitBridge
          /\ releases'[t] = releases[t]
      BY <1>1, <2>6 DEF ForgetReleases
    <3>2. withdrawWindows'[t] = withdrawWindows[t]
      BY <2>1, <2>6, <3>1 DEF NoLimits, WindowsInv, RegistryWindow
    <3> QED
      BY <1>1, <2>2, <3>1, <3>2 DEF WindowsInv, RegistryWindow
  <2> QED
    BY <2>5, <2>6
<1>3. ASSUME NEW d \in Directions, NEW t \in Tokens PROVE GuardWindow(d, t)'
  BY <1>1 DEF WindowsInv, GuardWindow, EffectiveLimit, DefaultLimit, guardVars
<1> QED
  BY <1>1, <1>2, <1>3 DEF WindowsInv

LEMMA OwnerWindows ==
  ASSUME TypeOK, TypeOK', WindowsInv, GuardOwner
  PROVE  WindowsInv'
<1>1. /\ UNCHANGED <<now, registryVars, releases, lastCharge, lastCheck, windowPerToken>>
      /\ ForgetGuardCharges
  BY DEF GuardOwner, GuardAdmin, SetGuardBridge, AddGuardModule, RemoveGuardModule, SetIsBlacklisted,
         SetLimit, SetLimitsBatch, SupplyBecomes
<1>2. \A t \in Tokens : lastCharge'[t] <= now' /\ RegistryWindow(t)'
  BY <1>1 DEF WindowsInv, RegistryWindow, registryVars
<1>3. ASSUME NEW d \in Directions, NEW t \in Tokens PROVE GuardWindow(d, t)'
  <2>1. guardCharges'[d][t] = IF EffectiveLimit(d, t)' = EffectiveLimit(d, t)
                              THEN guardCharges[d][t] ELSE Nothing
    BY <1>1 DEF ForgetGuardCharges
  <2>2. /\ EffectiveLimit(d, t)' \in Nat /\ now \in Nat
        /\ windowPerToken[d][t] \in [windowStart : Nat, used : Nat]
    <3>1. limitPerToken'[d][t] \in Nat /\ totalSupply'[t] \in Nat
      <4>1. totalSupply'[t] \in Supplies /\ limitPerToken'[d][t] \in Nat
        BY DEF TypeOK, GuardTypeOK
      <4> QED
        BY <4>1, UseAssumption
    <3>2. totalSupply'[t] \div 1000 \in Nat
      BY <3>1
    <3> QED
      BY <3>1, <3>2, GuardAssumption, WindowTypes DEF EffectiveLimit, DefaultLimit
  <2>3. windowPerToken[d][t].windowStart <= now
    BY DEF WindowsInv, GuardWindow, FixedWindow
  <2>4. CASE EffectiveLimit(d, t)' = EffectiveLimit(d, t)
    BY <1>1, <2>1, <2>4 DEF WindowsInv, GuardWindow
  <2>5. CASE EffectiveLimit(d, t)' # EffectiveLimit(d, t)
    <3>1. FixedWindow(Nothing, windowPerToken[d][t].windowStart, windowPerToken[d][t].used,
                      EffectiveLimit(d, t)', now)
      BY <2>2, <2>3, FreshWindow
    <3> QED
      BY <1>1, <2>1, <2>5, <3>1 DEF WindowsInv, GuardWindow
  <2> QED
    BY <2>4, <2>5
<1> QED
  BY <1>2, <1>3 DEF WindowsInv
\* A charge of t at the present adds to one entry of its history.
LEMMA OneEntry ==
  ASSUME NEW h \in [Tokens -> [Times -> Nat]], NEW g, NEW t \in Tokens, NEW n \in Times, NEW x \in Nat,
         g = [h EXCEPT ![t][n] = h[t][n] + x]
  PROVE  /\ g[t] \in [Times -> Nat] /\ g[t][n] = h[t][n] + x
         /\ \A r \in Times : r # n => g[t][r] = h[t][r]
         /\ \A s \in Tokens : s # t => g[s] = h[s]
<1>1. h[t] \in [Times -> Nat]
  OBVIOUS
<1>2. h[t][n] \in Nat
  BY <1>1
<1>3. h[t][n] + x \in Nat
  BY <1>2
<1> DEFINE v == h[t][n] + x
<1>4. g = [h EXCEPT ![t] = [h[t] EXCEPT ![n] = v]]
  OBVIOUS
<1> HIDE DEF v
<1>5. g[t] = [h[t] EXCEPT ![n] = v] /\ \A s \in Tokens : s # t => g[s] = h[s]
  BY <1>4
<1>6. v \in Nat
  BY <1>3 DEF v
<1>7. g[t] \in [Times -> Nat] /\ g[t][n] = v /\ \A r \in Times : r # n => g[t][r] = h[t][r]
  BY <1>1, <1>5, <1>6
<1> QED
  BY <1>5, <1>7 DEF v

LEMMA RegistryCharge ==
  ASSUME TypeOK, TypeOK', WindowsInv, NEW t \in Tokens, NEW amount \in WithdrawAmounts,
         NEW user \in Users, CheckWithdrawGuard(t, amount, user)
  PROVE  \A s \in Tokens : lastCharge'[s] <= now' /\ RegistryWindow(s)'
<1>1. /\ UNCHANGED <<now, rateLimitConfigs, rateLimitBridge>>
      /\ CheckAndUpdateWithdrawRateLimit(t, amount) /\ amount \in Nat
      /\ lastCharge' = [lastCharge EXCEPT ![t] = now]
      /\ releases' = IF rateLimitBridge /\ rateLimitConfigs[t].maxPerPeriod # 0
                     THEN [releases EXCEPT ![t][now] = releases[t][now] + amount] ELSE releases
  BY UseAssumption DEF CheckWithdrawGuard
<1>2. \A s \in Tokens : lastCharge'[s] = IF s = t THEN now ELSE lastCharge[s]
  BY <1>1 DEF TypeOK
<1>3. now \in Nat
  BY WindowTypes
<1>4. \A s \in Tokens : lastCharge'[s] <= now'
  BY <1>1, <1>2, <1>3 DEF WindowsInv
<1>5. ASSUME NEW s \in Tokens, withdrawWindows'[s] = withdrawWindows[s], releases'[s] = releases[s]
      PROVE  RegistryWindow(s)'
  <2>1. /\ FixedWindow(releases[s], withdrawWindows[s].windowStart, withdrawWindows[s].used,
                       rateLimitConfigs[s].maxPerPeriod, now)
        /\ ~rateLimitBridge \/ rateLimitConfigs[s].maxPerPeriod = 0 => releases[s] = Nothing
        /\ withdrawWindows[s].windowStart <= lastCharge[s] /\ lastCharge[s] <= now
    BY DEF WindowsInv, RegistryWindow
  <2>2. withdrawWindows[s].windowStart <= now
    BY <2>1 DEF FixedWindow
  <2> QED
    BY <1>1, <1>2, <1>5, <2>1, <2>2 DEF RegistryWindow
<1>6. CASE ~rateLimitBridge \/ rateLimitConfigs[t].maxPerPeriod = 0
  BY <1>1, <1>4, <1>5, <1>6 DEF CheckAndUpdateWithdrawRateLimit
<1>7. CASE rateLimitBridge /\ rateLimitConfigs[t].maxPerPeriod # 0
  <2> DEFINE win == ChargedWindow(t)
             limit == rateLimitConfigs[t].maxPerPeriod
  <2>1. /\ win.used + amount <= limit
        /\ withdrawWindows' = [withdrawWindows EXCEPT ![t] = [win EXCEPT !.used = @ + amount]]
        /\ releases' = [releases EXCEPT ![t][now] = releases[t][now] + amount]
    BY <1>1, <1>7 DEF CheckAndUpdateWithdrawRateLimit
  <2>2. /\ now \in Times /\ RATE_LIMIT_WINDOW \in Nat \ {0} /\ limit \in Nat
        /\ releases \in [Tokens -> [Times -> Nat]] /\ releases[t] \in [Times -> Nat]
        /\ withdrawWindows[t] \in [windowStart : Nat, used : Nat]
    BY WindowTypes DEF TypeOK, Times
  <2>3. win \in [windowStart : Nat, used : Nat]
    BY ResetTyped DEF Directions
  <2>4. FixedWindow(releases[t], withdrawWindows[t].windowStart, withdrawWindows[t].used, limit, now)
    BY DEF WindowsInv, RegistryWindow
  <2>5. /\ FixedWindow(releases[t], win.windowStart, win.used, limit, now)
        /\ 0 < win.windowStart /\ now < win.windowStart + RATE_LIMIT_WINDOW
    <3>1. CASE WindowExpired(withdrawWindows[t])
      <4>1. win.windowStart = now /\ win.used = 0
        BY <3>1 DEF ChargedWindow
      <4>2. \/ withdrawWindows[t].windowStart = 0
            \/ withdrawWindows[t].windowStart + RATE_LIMIT_WINDOW <= now
        BY <2>2, <3>1, <1>3 DEF WindowExpired
      <4>3. FixedWindow(releases[t], now, 0, limit, now)
        BY <2>2, <2>4, <4>2, OpenedWindow
      <4>4. 0 < now
        BY <2>2 DEF Times
      <4> QED
        BY <1>3, <2>2, <4>1, <4>3, <4>4
    <3>2. CASE ~WindowExpired(withdrawWindows[t])
      <4>1. win = withdrawWindows[t]
        BY <3>2 DEF ChargedWindow
      <4> QED
        BY <1>3, <2>2, <2>4, <3>2, <4>1 DEF WindowExpired
    <3> QED
      BY <3>1, <3>2
  <2>6. /\ releases'[t] \in [Times -> Nat] /\ releases'[t][now] = releases[t][now] + amount
        /\ \A r \in Times : r # now => releases'[t][r] = releases[t][r]
        /\ \A s \in Tokens : s # t => releases'[s] = releases[s]
    BY <1>1, <2>1, <2>2, OneEntry
  <2> HIDE DEF win, limit
  <2>7. win.windowStart \in Nat /\ win.used \in Nat
    BY <2>3
  <2>8. FixedWindow(releases'[t], win.windowStart, win.used + amount, limit, now)
    BY <1>1, <2>1, <2>2, <2>5, <2>6, <2>7, ChargedToWindow
  <2>9. withdrawWindows'[t].windowStart = win.windowStart /\ withdrawWindows'[t].used = win.used + amount
    BY <2>1, <2>3 DEF TypeOK, RegistryTypeOK
  <2>10. RegistryWindow(t)'
    <3>1. win.windowStart <= now
      BY <2>5 DEF FixedWindow
    <3> QED
      BY <1>1, <1>2, <1>7, <2>8, <2>9, <3>1 DEF RegistryWindow, limit
  <2>11. ASSUME NEW s \in Tokens, s # t PROVE RegistryWindow(s)'
    <3>1. withdrawWindows'[s] = withdrawWindows[s]
      BY <2>1, <2>11 DEF TypeOK, RegistryTypeOK
    <3> QED
      BY <1>5, <2>6, <2>11, <3>1
  <2> QED
    BY <1>4, <2>10, <2>11
<1> QED
  BY <1>6, <1>7

\* The guard's window of one direction and token, when a check charges it or skips it.
LEMMA GuardCharge ==
  ASSUME TypeOK, WindowsInv, NEW d \in Directions, NEW t \in Tokens, NEW amount \in Nat,
         GuardAsked(d, t, amount)
  PROVE  \A e \in Directions, s \in Tokens : GuardWindow(e, s)'
<1>1. /\ \A e \in Directions, s \in Tokens : EffectiveLimit(e, s)' = EffectiveLimit(e, s)
      /\ now' = now
  BY DEF GuardAsked, EffectiveLimit, DefaultLimit
<1>2. now \in Times /\ now \in Nat /\ RATE_LIMIT_WINDOW \in Nat \ {0}
  BY WindowTypes
<1>3. ASSUME NEW e \in Directions, NEW s \in Tokens, windowPerToken'[e][s] = windowPerToken[e][s],
             guardCharges'[e][s] = guardCharges[e][s], lastCheck'[e][s] = lastCheck[e][s]
      PROVE  GuardWindow(e, s)'
  <2>1. windowPerToken[e][s].windowStart <= now
    BY DEF WindowsInv, GuardWindow, FixedWindow
  <2> QED
    BY <1>1, <1>3, <2>1 DEF WindowsInv, GuardWindow
<1>4. CASE UNCHANGED <<windowPerToken, guardCharges, lastCheck>>
  BY <1>3, <1>4
<1>5. CASE ChargeWindow(d, t, amount) /\ GuardCharged(d, t, amount)
  <2> DEFINE win == ResetIfExpired(windowPerToken[d][t])
             limit == EffectiveLimit(d, t)
             old == windowPerToken[d][t]
  <2>1. /\ win.used + amount <= limit
        /\ windowPerToken' = [windowPerToken EXCEPT ![d][t] = [win EXCEPT !.used = @ + amount]]
        /\ guardCharges' = [guardCharges EXCEPT ![d][t][now] = guardCharges[d][t][now] + amount]
    BY <1>5 DEF ChargeWindow, GuardCharged
  <2>2. /\ limit \in Nat /\ guardCharges[d][t] \in [Times -> Nat]
        /\ guardCharges \in [Directions -> [Tokens -> [Times -> Nat]]]
        /\ old \in [windowStart : Nat, used : Nat] /\ win \in [windowStart : Nat, used : Nat]
    BY WindowTypes, ResetTyped DEF TypeOK, Times
  <2>3. /\ FixedWindow(guardCharges[d][t], old.windowStart, old.used, limit, now)
        /\ old.windowStart = 0 => old.used = 0
    BY DEF WindowsInv, GuardWindow
  <2>4. /\ FixedWindow(guardCharges[d][t], win.windowStart, win.used, limit, now)
        /\ 0 < win.windowStart /\ now < win.windowStart + RATE_LIMIT_WINDOW
    <3>1. CASE old.windowStart = 0 \/ old.windowStart + RATE_LIMIT_WINDOW <= now
      <4>1. win.windowStart = now /\ win.used = 0
        BY <2>2, <2>3, <3>1, UseAssumption DEF ResetIfExpired
      <4>2. FixedWindow(guardCharges[d][t], now, 0, limit, now)
        BY <1>2, <2>2, <2>3, <3>1, OpenedWindow
      <4>3. 0 < now
        BY <1>2 DEF Times
      <4> QED
        BY <1>2, <4>1, <4>2, <4>3
    <3>2. CASE ~(old.windowStart = 0 \/ old.windowStart + RATE_LIMIT_WINDOW <= now)
      <4>1. win = old
        BY <3>2, UseAssumption DEF ResetIfExpired
      <4> QED
        BY <1>2, <2>2, <2>3, <3>2, <4>1
    <3> QED
      BY <3>1, <3>2
  <2>5. /\ guardCharges'[d] = [guardCharges[d] EXCEPT ![t][now] = guardCharges[d][t][now] + amount]
        /\ \A e \in Directions : e # d => guardCharges'[e] = guardCharges[e]
    BY <2>1, <2>2
  <2>6. /\ guardCharges'[d][t] \in [Times -> Nat]
        /\ guardCharges'[d][t][now] = guardCharges[d][t][now] + amount
        /\ \A r \in Times : r # now => guardCharges'[d][t][r] = guardCharges[d][t][r]
        /\ \A s \in Tokens : s # t => guardCharges'[d][s] = guardCharges[d][s]
    BY <1>2, <2>2, <2>5, OneEntry
  <2>7. /\ windowPerToken'[d][t] = [win EXCEPT !.used = @ + amount]
        /\ \A e \in Directions, s \in Tokens : e # d \/ s # t =>
             windowPerToken'[e][s] = windowPerToken[e][s]
    BY <2>1 DEF TypeOK, GuardTypeOK
  <2> HIDE DEF win, limit, old
  <2>8. win.windowStart \in Nat /\ win.used \in Nat
    BY <2>2
  <2>9. windowPerToken'[d][t].windowStart = win.windowStart
        /\ windowPerToken'[d][t].used = win.used + amount
    BY <2>2, <2>7
  <2>10. FixedWindow(guardCharges'[d][t], win.windowStart, win.used + amount, limit, now)
    BY <1>2, <2>1, <2>2, <2>4, <2>6, <2>8, ChargedToWindow
  <2>11. /\ lastCheck'[d][t] = now
         /\ \A e \in Directions, s \in Tokens : e # d \/ s # t => lastCheck'[e][s] = lastCheck[e][s]
    BY <1>5 DEF GuardCharged, TypeOK
  <2>12. GuardWindow(d, t)'
    <3>1. win.windowStart <= now
      BY <2>4 DEF FixedWindow
    <3> QED
      BY <1>1, <1>2, <2>4, <2>8, <2>9, <2>10, <2>11, <3>1 DEF GuardWindow, limit
  <2>13. ASSUME NEW e \in Directions, NEW s \in Tokens, e # d \/ s # t PROVE GuardWindow(e, s)'
    <3>1. guardCharges'[e][s] = guardCharges[e][s]
      <4>1. CASE e # d
        BY <2>5, <4>1
      <4>2. CASE e = d /\ s # t
        BY <2>6, <4>2
      <4> QED
        BY <2>13, <4>1, <4>2
    <3>2. windowPerToken'[e][s] = windowPerToken[e][s]
      BY <2>7, <2>13
    <3> QED
      BY <1>3, <2>13, <2>11, <3>1, <3>2
  <2> QED
    BY <2>12, <2>13
<1> QED
  BY <1>4, <1>5 DEF GuardAsked

LEMMA StepWindows ==
  ASSUME TypeOK, TypeOK', WindowsInv, [Next]_vars
  PROVE  WindowsInv'
<1>1. ASSUME NEW t \in Tokens, NEW amount \in WithdrawAmounts, NEW user \in Users,
             CheckWithdrawGuard(t, amount, user)
      PROVE  WindowsInv'
  <2>1. \A s \in Tokens : lastCharge'[s] <= now' /\ RegistryWindow(s)'
    BY <1>1, RegistryCharge
  <2>2. GuardAsked("withdraw", t, amount) /\ amount \in Nat /\ "withdraw" \in Directions
    BY <1>1, AskedByBridge, UseAssumption DEF CheckWithdrawGuard, Directions
  <2> QED
    BY <2>1, <2>2, GuardCharge DEF WindowsInv
<1>2. ASSUME NEW t \in Tokens, NEW amount \in DepositAmounts, NEW user \in Users,
             CheckDepositGuard(t, amount, user)
      PROVE  WindowsInv'
  <2>1. UNCHANGED <<now, registryVars, releases, lastCharge>>
    BY <1>2 DEF CheckDepositGuard
  <2>2. \A s \in Tokens : lastCharge'[s] <= now' /\ RegistryWindow(s)'
    BY <2>1 DEF WindowsInv, RegistryWindow, registryVars
  <2>3. GuardAsked("deposit", t, amount) /\ amount \in Nat /\ "deposit" \in Directions
    BY <1>2, AskedByBridge, UseAssumption DEF CheckDepositGuard, Directions
  <2> QED
    BY <2>2, <2>3, GuardCharge DEF WindowsInv
<1>3. CASE (Tick \/ UNCHANGED now) /\ UNCHANGED <<registryVars, guardVars, historyVars>>
  <2>1. now \in Nat /\ now' \in Nat /\ now <= now'
    BY <1>3, WindowTypes DEF Tick
  <2>2. ASSUME NEW t \in Tokens PROVE lastCharge'[t] <= now' /\ RegistryWindow(t)'
    <3>1. lastCharge[t] <= now /\ lastCharge[t] \in Nat /\ withdrawWindows[t].windowStart \in Nat
      BY WindowTypes DEF WindowsInv
    <3>2. FixedWindow(releases[t], withdrawWindows[t].windowStart, withdrawWindows[t].used,
                      rateLimitConfigs[t].maxPerPeriod, now')
      BY <2>1, <3>1, LaterWindow DEF WindowsInv, RegistryWindow
    <3> QED
      BY <1>3, <2>1, <3>1, <3>2 DEF WindowsInv, RegistryWindow, registryVars, historyVars
  <2>3. ASSUME NEW d \in Directions, NEW t \in Tokens PROVE GuardWindow(d, t)'
    <3>1. windowPerToken[d][t].windowStart \in Nat /\ lastCheck[d][t] \in Nat
      BY WindowTypes
    <3>2. FixedWindow(guardCharges[d][t], windowPerToken[d][t].windowStart, windowPerToken[d][t].used,
                      EffectiveLimit(d, t), now')
      BY <2>1, <3>1, LaterWindow DEF WindowsInv, GuardWindow
    <3>3. EffectiveLimit(d, t)' = EffectiveLimit(d, t)
      BY <1>3 DEF EffectiveLimit, DefaultLimit, guardVars
    <3> QED
      BY <1>3, <2>1, <3>1, <3>2, <3>3 DEF WindowsInv, GuardWindow, guardVars, historyVars
  <2> QED
    BY <2>2, <2>3 DEF WindowsInv
<1>4. ASSUME NEW d \in Directions, NEW t \in Tokens, NEW amount \in DirectAmounts,
             CheckByAnyone(d, t, amount)
      PROVE  WindowsInv'
  <2>1. UNCHANGED <<now, registryVars, releases, lastCharge>>
    BY <1>4 DEF CheckByAnyone
  <2>2. \A s \in Tokens : lastCharge'[s] <= now' /\ RegistryWindow(s)'
    BY <2>1 DEF WindowsInv, RegistryWindow, registryVars
  <2>3. GuardAsked(d, t, amount) /\ amount \in Nat
    BY <1>4, AskedByAnyone, UseAssumption
  <2> QED
    BY <2>2, <2>3, GuardCharge DEF WindowsInv
<1> QED
  BY <1>1, <1>2, <1>3, <1>4, AdminWindows, OwnerWindows DEF Next, vars

LEMMA WindowsHold == Spec => [](TypeOK /\ WindowsInv)
<1>1. Init => TypeOK /\ WindowsInv
  BY InitTypes, InitWindows
<1>2. TypeOK /\ WindowsInv /\ [Next]_vars => (TypeOK /\ WindowsInv)'
  BY StepTypes, StepWindows
<1> QED
  BY <1>1, <1>2, PTL DEF Spec

\* However a withdrawal limit's windows open and whatever the owner changes between, any
\* 24 hours release at most twice the limit.
THEOREM SpansBounded == Spec => []SpanBounded
<1>1. TypeOK /\ WindowsInv => SpanBounded
  <2> SUFFICES ASSUME TypeOK, WindowsInv, NEW t \in Tokens, NEW s \in 1..MaxTime
               PROVE  InSpan(releases[t], s, RATE_LIMIT_WINDOW) <= 2 * rateLimitConfigs[t].maxPerPeriod
    BY DEF SpanBounded
  <2> QED
    BY DEF WindowsInv, RegistryWindow, FixedWindow, InSpan, Span, Times
<1> QED
  BY <1>1, WindowsHold, PTL

\* The same for the guard's limits of both directions, delisted, relisted or unhooked.
THEOREM GuardSpansBounded == Spec => []GuardSpanBounded
<1>1. TypeOK /\ WindowsInv => GuardSpanBounded
  <2> SUFFICES ASSUME TypeOK, WindowsInv, NEW d \in Directions, NEW t \in Tokens, NEW s \in 1..MaxTime
               PROVE  InSpan(guardCharges[d][t], s, WINDOW_SECONDS) <= 2 * EffectiveLimit(d, t)
    BY DEF GuardSpanBounded
  <2> QED
    BY UseAssumption DEF WindowsInv, GuardWindow, FixedWindow, InSpan, Span, Times
<1> QED
  BY <1>1, WindowsHold, PTL

\* A window nobody charged for a day admits any amount within the limit now in force:
\* the registry's of a token nothing was withdrawn of, and the guard's that anyone charges.
THEOREM QuietTokensAdmit == Spec => []QuietTokenAdmits
<1>1. ASSUME TypeOK, WindowsInv, NEW t \in Tokens, lastCharge[t] + RATE_LIMIT_WINDOW <= now
      PROVE  ChargedWindow(t).used = 0
  <2>1. /\ now \in Nat /\ RATE_LIMIT_WINDOW \in Nat /\ lastCharge[t] \in Nat
        /\ withdrawWindows[t] \in [windowStart : Nat, used : Nat]
    BY <1>1, WindowTypes
  <2>2. withdrawWindows[t].windowStart <= lastCharge[t]
    BY <1>1 DEF WindowsInv, RegistryWindow
  <2> QED
    BY <1>1, <2>1, <2>2 DEF ChargedWindow, WindowExpired
<1>2. ASSUME TypeOK, WindowsInv, NEW d \in Directions, NEW t \in Tokens,
             lastCheck[d][t] + WINDOW_SECONDS <= now
      PROVE  ResetIfExpired(windowPerToken[d][t]).used = 0
  <2>1. /\ now \in Nat /\ WINDOW_SECONDS \in Nat /\ lastCheck[d][t] \in Nat
        /\ windowPerToken[d][t] \in [windowStart : Nat, used : Nat]
    BY <1>2, WindowTypes, GuardAssumption
  <2>2. /\ windowPerToken[d][t].windowStart <= lastCheck[d][t]
        /\ windowPerToken[d][t].windowStart = 0 => windowPerToken[d][t].used = 0
    BY <1>2 DEF WindowsInv, GuardWindow
  <2> QED
    BY <1>2, <2>1, <2>2 DEF ResetIfExpired
<1>3. ASSUME TypeOK, WindowsInv PROVE QuietTokenAdmits
  <2>1. \A amount \in DepositAmounts \cup WithdrawAmounts : amount \in Nat
    BY UseAssumption
  <2>2. \A d \in Directions, t \in Tokens :
          EffectiveLimit(d, t) \in Nat /\ rateLimitConfigs[t].maxPerPeriod \in Nat
    BY <1>3, WindowTypes
  <2> QED
    BY <1>1, <1>2, <1>3, <2>1, <2>2 DEF QuietTokenAdmits
<1> QED
  BY <1>3, WindowsHold, PTL
=============================================================================
