-------------------------- MODULE TerraBridgeProofs --------------------------
(***************************************************************************)
(* The Terra Classic bridge for every set of chains, tokens, transfers,    *)
(* accounts, fees and administrative operations: types, the one-to-one     *)
(* tables of the registry and the promises of a watchtower.                *)
(***************************************************************************)
EXTENDS TerraBridgeSafety, FiniteSums, TLAPS

\* What a withdrawal record on the chain looks like at every moment.
StagesOrdered ==
  \A x \in Xfers :
    /\ ~Submitted(x) => pendingWithdraws[x] = NotSubmitted
    /\ Submitted(x) => /\ pendingWithdraws[x].srcDecimals \in Decimals
                       /\ pendingWithdraws[x].destDecimals \in Decimals
    /\ Approved(x) => Submitted(x) /\ Key(x) \in withdrawNonceUsed
    /\ Cancelled(x) \/ Executed(x) => Approved(x)
    /\ ~(Cancelled(x) /\ Executed(x))

RegistryInv == RegistryTypeOK /\ ChainNamesInverse /\ MappingsOneToOne

ConfigTypeOK ==
  /\ paused \in BOOLEAN
  /\ admin \in Accounts
  /\ pendingAdmin \in [address : Accounts, executeAfter : Nat] \cup {NoProposal}
  /\ operators \subseteq Accounts /\ cancelers \subseteq Accounts
  /\ operatorCount \in Nat /\ minSignatures \in Nat
  /\ withdrawDelay \in MIN_DELAY..MAX_DELAY
  /\ feeConfig \in [standard : Nat, discounted : Nat, discountOn : BOOLEAN]
  /\ customFees \in [Accounts -> CustomFees \cup {NoFee}]

WithdrawTypeOK ==
  /\ pendingWithdraws \in [Xfers -> Withdrawal]
  /\ withdrawNonceUsed \subseteq {Key(x) : x \in Xfers}

DepositTypeOK ==
  /\ outgoingNonce \in Nat
  /\ deposits \subseteq
       [destChain : Chains, destToken : DestTokens, token : Tokens, amount : Nat, nonce : Nat]

ValueTypeOK ==
  locked \in [Tokens -> Nat] /\ holdings \in [Tokens -> Nat] /\ supply \in [Tokens -> Nat]

WithdrawInv == WithdrawTypeOK /\ StagesOrdered

IInv ==
  /\ RegistryInv /\ ConfigTypeOK /\ WithdrawInv /\ DepositTypeOK /\ ValueTypeOK
  /\ adminCalls \in Nat

(***************************************************************************)
(* The registry                                                            *)
(***************************************************************************)
\* As deployed, chains and identifiers, tokens and destinations, name each other.
LEMMA InitRegistry == Init => RegistryInv
<1> SUFFICES ASSUME Init PROVE RegistryInv
  OBVIOUS
<1> USE DEF Init, DeployedRegistry
<1>1. /\ chains \in [Chains -> ChainConfig] /\ tokens \in [Tokens -> TokenConfig]
      /\ chainByIdentifier \in [Identifiers -> Chains \cup {NoChain}]
      /\ allowedCodeIds \in CodeIdLists /\ now \in Nat
  BY RegistryAssumption, DeploymentAssumption DEF ChainConfig
<1>2. /\ destMappings \in [Tokens -> [Chains -> DestTokens \cup {NoDestToken}]]
      /\ destMappingOwner \in [Chains -> [DestTokens -> Tokens \cup {NoToken}]]
  BY DeploymentAssumption
<1>3. srcMappings \in [Chains -> [SrcEncodings -> SrcMapping \cup {NoMapping}]]
  BY DeploymentAssumption DEF SrcMapping
<1>4. srcMappingOwner \in [Chains -> [Tokens -> SrcEncodings \cup {NoMapping}]]
  BY RegistryAssumption
<1>5. /\ rateLimits \in [Tokens -> RateLimit \cup {NoLimit}]
      /\ rateWindows \in [Tokens -> RateWindow]
  BY DeploymentAssumption DEF NoWindow, RateWindow
<1>6. ChainNamesInverse
  <2> SUFFICES ASSUME NEW c \in Chains, NEW i \in Identifiers
               PROVE  chainByIdentifier[i] = c <=> InitialIdentifier[c] = i
    BY DEF ChainNamesInverse
  <2>1. i # NoIdentifier /\ c # NoChain
    BY RegistryAssumption
  <2> QED
    BY <2>1, DeploymentAssumption
<1>7. MappingsOneToOne
  <2> SUFFICES ASSUME NEW c \in Chains, NEW t \in Tokens
               PROVE  /\ \A d \in DestTokens : destMappingOwner[c][d] = t <=> destMappings[t][c] = d
                      /\ \A s \in SrcEncodings :
                           srcMappingOwner[c][t] = s <=>
                             srcMappings[c][s] # NoMapping /\ srcMappings[c][s].local = t
    BY DEF MappingsOneToOne
  <2>1. ASSUME NEW d \in DestTokens PROVE destMappingOwner[c][d] = t <=> destMappings[t][c] = d
    <3>1. d # NoDestToken /\ t # NoToken
      BY RegistryAssumption
    <3> QED
      BY <3>1, DeploymentAssumption
  <2>2. ASSUME NEW s \in SrcEncodings
        PROVE  srcMappingOwner[c][t] = s <=>
                 srcMappings[c][s] # NoMapping /\ srcMappings[c][s].local = t
    <3>1. s # NoMapping /\ t # NoMapping /\ t \in SrcEncodings
      BY RegistryAssumption
    <3>2. CASE c # ThisChain /\ s \in DOMAIN InitialSrcDecimals
      <4>1. srcMappings[c][s] = [local |-> s, srcDecimals |-> InitialSrcDecimals[s]]
        BY <3>2
      <4>2. srcMappings[c][s] \in SrcMapping
        BY <3>2, <4>1, DeploymentAssumption DEF SrcMapping
      <4> QED
        BY <3>1, <3>2, <4>1, <4>2, RegistryAssumption
    <3>3. CASE ~(c # ThisChain /\ s \in DOMAIN InitialSrcDecimals)
      BY <3>1, <3>3
    <3> QED
      BY <3>2, <3>3
  <2> QED
    BY <2>1, <2>2
<1> QED
  BY <1>1, <1>2, <1>3, <1>4, <1>5, <1>6, <1>7 DEF RegistryInv, RegistryTypeOK

\* Registering, removing and renaming chains.
LEMMA ChainStep ==
  ASSUME RegistryInv, NEW c \in Chains, UNCHANGED now,
         \/ \E i \in Identifiers : RegisterChain(c, i)
         \/ UnregisterChain(c)
         \/ \E on \in BOOLEAN : UpdateChain(c, on)
  PROVE  RegistryInv'
<1> USE RegistryAssumption
    DEF RegistryInv, RegistryTypeOK, ChainNamesInverse, MappingsOneToOne, tokenVars, mappingVars,
        ChainConfig, Registered
<1>1. ASSUME NEW i \in Identifiers, RegisterChain(c, i) PROVE RegistryInv'
  BY <1>1 DEF RegisterChain
<1>2. ASSUME UnregisterChain(c) PROVE RegistryInv'
  <2>1. chains' \in [Chains -> ChainConfig]
    BY <1>2 DEF UnregisterChain, NotRegistered
  <2>2. chainByIdentifier' \in [Identifiers -> Chains \cup {NoChain}]
    BY <1>2 DEF UnregisterChain
  <2>3. ChainNamesInverse'
    BY <1>2 DEF UnregisterChain, NotRegistered
  <2> QED
    BY <1>2, <2>1, <2>2, <2>3 DEF UnregisterChain
<1>3. ASSUME NEW on \in BOOLEAN, UpdateChain(c, on) PROVE RegistryInv'
  <2>1. [chains[c] EXCEPT !.enabled = on] \in ChainConfig
    OBVIOUS
  <2>2. chains' = [chains EXCEPT ![c] = [chains[c] EXCEPT !.enabled = on]]
    BY <1>3 DEF UpdateChain
  <2>3. chains' \in [Chains -> ChainConfig] /\ ChainNamesInverse'
    BY <1>3, <2>1, <2>2 DEF UpdateChain
  <2> QED
    BY <1>3, <2>3 DEF UpdateChain
<1> QED
  BY <1>1, <1>2, <1>3

\* Changing the type and the switch of a token's configuration keeps its shape.
LEMMA RetypedToken ==
  ASSUME NEW f \in [Tokens -> TokenConfig], NEW t \in Tokens, NEW type \in TokenTypes, NEW on \in BOOLEAN
  PROVE  [f EXCEPT ![t].type = type, ![t].enabled = on] \in [Tokens -> TokenConfig]
<1> DEFINE g == [f EXCEPT ![t].type = type]
<1>1. g \in [Tokens -> TokenConfig]
  BY DEF TokenConfig
<1> HIDE DEF g
<1>2. [g EXCEPT ![t].enabled = on] \in [Tokens -> TokenConfig]
  BY <1>1 DEF TokenConfig
<1> QED
  BY <1>2 DEF g

\* Tokens and their limits.
LEMMA TokenStep ==
  ASSUME RegistryInv, NEW s \in [Tokens -> Nat], UNCHANGED now, NEW t \in Tokens,
         \/ \E type \in TokenTypes, n \in AdminDecimals : AddToken(t, type, n, s)
         \/ \E type \in TokenTypes, on \in BOOLEAN : UpdateToken(t, type, on)
         \/ \E limit \in Limits : SetRateLimit(t, limit)
  PROVE  RegistryInv'
<1>0. QuerySupply(t, s) \div MAX_BRIDGE_DIVISOR \in Nat
  <2>1. QuerySupply(t, s) \in Nat
    BY DEF QuerySupply
  <2>2. MAX_BRIDGE_DIVISOR \in Nat \ {0}
    BY RegistryAssumption
  <2> QED
    BY <2>1, <2>2
<1> USE RegistryAssumption
    DEF RegistryInv, RegistryTypeOK, ChainNamesInverse, MappingsOneToOne, chainVars, tokenVars,
        mappingVars
<1>1. ASSUME NEW type \in TokenTypes, NEW n \in AdminDecimals, AddToken(t, type, n, s)
      PROVE  RegistryInv'
  <2>1. rateLimits' \in [Tokens -> RateLimit \cup {NoLimit}]
    BY <1>0, <1>1 DEF AddToken, RateLimit
  <2>2. tokens' \in [Tokens -> TokenConfig]
    BY <1>1 DEF AddToken, TokenConfig
  <2> QED
    BY <1>1, <2>1, <2>2 DEF AddToken
<1>2. ASSUME NEW type \in TokenTypes, NEW on \in BOOLEAN, UpdateToken(t, type, on)
      PROVE  RegistryInv'
  <2>3. tokens' \in [Tokens -> TokenConfig]
    BY <1>2, RetypedToken DEF UpdateToken
  <2>4. UNCHANGED <<chainVars, allowedCodeIds, mappingVars, rateLimits, rateWindows>>
    BY <1>2 DEF UpdateToken
  <2> QED
    BY <2>3, <2>4
<1>3. ASSUME NEW limit \in Limits, SetRateLimit(t, limit) PROVE RegistryInv'
  BY <1>3 DEF SetRateLimit
<1> QED
  BY <1>1, <1>2, <1>3

\* A destination is claimed for one token, and its former one is given up.
LEMMA DestinationStep ==
  ASSUME RegistryInv, UNCHANGED now, NEW t \in Tokens, NEW c \in Chains, NEW d \in DestTokens,
         SetTokenDestination(t, c, d)
  PROVE  RegistryInv'
<1> USE RegistryAssumption DEF RegistryInv, RegistryTypeOK
<1>1. \A s \in Tokens, b \in Chains :
        destMappings'[s][b] = IF s = t /\ b = c THEN d ELSE destMappings[s][b]
  BY DEF SetTokenDestination
<1>2. \A b \in Chains, e \in DestTokens :
        destMappingOwner'[b][e] = IF b # c THEN destMappingOwner[b][e]
                                  ELSE IF e = d THEN t
                                  ELSE IF e = destMappings[t][c] THEN NoToken
                                  ELSE destMappingOwner[b][e]
  BY DEF SetTokenDestination, ClaimDestination
<1>3. /\ destMappings' \in [Tokens -> [Chains -> DestTokens \cup {NoDestToken}]]
      /\ destMappingOwner' \in [Chains -> [DestTokens -> Tokens \cup {NoToken}]]
  BY DEF SetTokenDestination, ClaimDestination
<1>4. \A b \in Chains, s \in Tokens, e \in DestTokens :
        destMappingOwner'[b][e] = s <=> destMappings'[s][b] = e
  <2> SUFFICES ASSUME NEW b \in Chains, NEW s \in Tokens, NEW e \in DestTokens
               PROVE  destMappingOwner'[b][e] = s <=> destMappings'[s][b] = e
    OBVIOUS
  <2>1. /\ destMappingOwner[b][e] = s <=> destMappings[s][b] = e
        /\ destMappingOwner[b][e] = t <=> destMappings[t][b] = e
        /\ destMappingOwner[c][d] = s <=> destMappings[s][c] = d
    BY DEF MappingsOneToOne
  <2>2. destMappingOwner[c][d] \in {t, NoToken}
    BY DEF SetTokenDestination
  <2>3. CASE b # c
    BY <1>1, <1>2, <2>1, <2>3
  <2>4. CASE b = c /\ e = d
    BY <1>1, <1>2, <2>1, <2>2, <2>4
  <2>5. CASE b = c /\ e # d
    BY <1>1, <1>2, <2>1, <2>5
  <2> QED
    BY <2>3, <2>4, <2>5
<1> QED
  BY <1>3, <1>4 DEF SetTokenDestination, MappingsOneToOne, ChainNamesInverse, chainVars, tokenVars

\* A source encoding claims one local token, and its former one is given up.
LEMMA IncomingStep ==
  ASSUME RegistryInv, UNCHANGED now, NEW c \in Chains, NEW s \in SrcEncodings,
         \/ \E t \in Tokens, n \in AdminDecimals : SetIncomingTokenMapping(c, s, t, n)
         \/ RemoveIncomingTokenMapping(c, s)
  PROVE  RegistryInv'
<1> USE RegistryAssumption DEF RegistryInv, RegistryTypeOK, SrcMapping
<1> DEFINE Exact(b, e, t) ==
             srcMappingOwner[b][t] = e <=> srcMappings[b][e] # NoMapping /\ srcMappings[b][e].local = t
<1>1. \A b \in Chains, e \in SrcEncodings, t \in Tokens : Exact(b, e, t)
  BY DEF MappingsOneToOne
<1>2. \A b \in Chains, t \in Tokens :
        ReleaseLocal(c, s)[b][t] =
          IF b = c /\ srcMappingOwner[c][t] = s THEN NoMapping ELSE srcMappingOwner[b][t]
  BY <1>1 DEF ReleaseLocal
<1>3. ReleaseLocal(c, s) \in [Chains -> [Tokens -> SrcEncodings \cup {NoMapping}]]
  BY DEF ReleaseLocal
<1>4. ASSUME NEW t \in Tokens, NEW n \in AdminDecimals, SetIncomingTokenMapping(c, s, t, n)
      PROVE  RegistryInv'
  <2> DEFINE m == [local |-> t, srcDecimals |-> n]
  <2>1. m \in SrcMapping /\ m # NoMapping /\ m.local = t
    BY DEF SrcMapping
  <2>2. srcMappings' = [srcMappings EXCEPT ![c][s] = m]
    BY <1>4 DEF SetIncomingTokenMapping
  <2> HIDE DEF m
  <2>3. srcMappings' \in [Chains -> [SrcEncodings -> SrcMapping \cup {NoMapping}]]
    BY <2>1, <2>2
  <2>4. srcMappingOwner' \in [Chains -> [Tokens -> SrcEncodings \cup {NoMapping}]]
    BY <1>3, <1>4 DEF SetIncomingTokenMapping
  <2>5. \A b \in Chains, u \in Tokens :
          srcMappingOwner'[b][u] = IF b # c THEN srcMappingOwner[b][u]
                                   ELSE IF u = t THEN s
                                   ELSE IF srcMappingOwner[c][u] = s THEN NoMapping
                                   ELSE srcMappingOwner[b][u]
    BY <1>2, <1>3, <1>4 DEF SetIncomingTokenMapping
  <2>6. srcMappingOwner[c][t] \in {s, NoMapping}
    BY <1>4 DEF SetIncomingTokenMapping, MayClaimLocal
  <2>7. \A b \in Chains, e \in SrcEncodings, u \in Tokens : Exact(b, e, u)'
    <3> SUFFICES ASSUME NEW b \in Chains, NEW e \in SrcEncodings, NEW u \in Tokens
                 PROVE  srcMappingOwner'[b][u] = e <=>
                          srcMappings'[b][e] # NoMapping /\ srcMappings'[b][e].local = u
      OBVIOUS
    <3>1. srcMappings'[b][e] = IF b = c /\ e = s THEN m ELSE srcMappings[b][e]
      BY <2>2
    <3>2. Exact(b, e, u) /\ Exact(c, e, t) /\ Exact(c, s, u)
      BY <1>1
    <3> QED
      BY <2>1, <2>5, <2>6, <3>1, <3>2
  <2> QED
    BY <1>4, <2>3, <2>4, <2>7
    DEF SetIncomingTokenMapping, MappingsOneToOne, ChainNamesInverse, chainVars, tokenVars
<1>5. ASSUME RemoveIncomingTokenMapping(c, s) PROVE RegistryInv'
  <2>1. srcMappings' \in [Chains -> [SrcEncodings -> SrcMapping \cup {NoMapping}]]
    BY <1>5 DEF RemoveIncomingTokenMapping
  <2>2. \A b \in Chains, e \in SrcEncodings, u \in Tokens : Exact(b, e, u)'
    <3> SUFFICES ASSUME NEW b \in Chains, NEW e \in SrcEncodings, NEW u \in Tokens
                 PROVE  srcMappingOwner'[b][u] = e <=>
                          srcMappings'[b][e] # NoMapping /\ srcMappings'[b][e].local = u
      OBVIOUS
    <3>1. srcMappings'[b][e] = IF b = c /\ e = s THEN NoMapping ELSE srcMappings[b][e]
      BY <1>5 DEF RemoveIncomingTokenMapping
    <3>2. srcMappingOwner'[b][u] = IF b = c /\ srcMappingOwner[c][u] = s THEN NoMapping
                                   ELSE srcMappingOwner[b][u]
      BY <1>2, <1>5 DEF RemoveIncomingTokenMapping
    <3>3. Exact(b, e, u) /\ Exact(c, s, u)
      BY <1>1
    <3> QED
      BY <3>1, <3>2, <3>3
  <2> QED
    BY <1>3, <1>5, <2>1, <2>2
    DEF RemoveIncomingTokenMapping, MappingsOneToOne, ChainNamesInverse, chainVars, tokenVars
<1> QED
  BY <1>4, <1>5

\* Every registry operation keeps the tables exact.
LEMMA RegistryStep ==
  ASSUME RegistryInv, NEW s \in [Tokens -> Nat], UNCHANGED now, RegistryAdmin(s)
  PROVE  RegistryInv'
<1>1. ASSUME NEW ids \in CodeIdLists, SetAllowedCw20CodeIds(ids) PROVE RegistryInv'
  BY <1>1 DEF SetAllowedCw20CodeIds, RegistryInv, RegistryTypeOK, ChainNamesInverse,
              MappingsOneToOne, chainVars, mappingVars
<1> QED
  BY <1>1, ChainStep, TokenStep, DestinationStep, IncomingStep DEF RegistryAdmin

(***************************************************************************)
(* Steps that leave a part of the state alone                              *)
(***************************************************************************)
LEMMA RegistryFrame ==
  ASSUME RegistryInv, now' \in Nat, UNCHANGED registryVars
  PROVE  RegistryInv'
  BY DEF RegistryInv, RegistryTypeOK, ChainNamesInverse, MappingsOneToOne, registryVars,
         chainVars, tokenVars, mappingVars

LEMMA ConfigFrame ==
  ASSUME ConfigTypeOK, UNCHANGED configVars
  PROVE  ConfigTypeOK'
  BY DEF ConfigTypeOK, configVars, roleVars

LEMMA WithdrawFrame ==
  ASSUME WithdrawInv, UNCHANGED withdrawVars
  PROVE  WithdrawInv'
  BY DEF WithdrawInv, WithdrawTypeOK, StagesOrdered, withdrawVars, Submitted, Approved,
         Cancelled, Executed

LEMMA DepositFrame ==
  ASSUME DepositTypeOK, UNCHANGED depositVars
  PROVE  DepositTypeOK'
  BY DEF DepositTypeOK, depositVars

LEMMA ValueFrame ==
  ASSUME ValueTypeOK, UNCHANGED valueVars
  PROVE  ValueTypeOK'
  BY DEF ValueTypeOK, valueVars

LEMMA NowTyped == IInv => now \in Nat
  BY DEF IInv, RegistryInv, RegistryTypeOK

(***************************************************************************)
(* Initial states                                                          *)
(***************************************************************************)
LEMMA InitIInv == Init => IInv
<1> SUFFICES ASSUME Init PROVE IInv
  OBVIOUS
<1>1. RegistryInv
  BY InitRegistry
<1>2. ConfigTypeOK
  <2>1. /\ Len(OperatorList) \in Nat
        /\ {OperatorList[i] : i \in DOMAIN OperatorList} \subseteq Accounts
    BY BridgeAssumption
  <2>2. operators \subseteq Accounts /\ operatorCount \in Nat /\ minSignatures \in Nat
    BY <2>1, BridgeAssumption DEF Init, Instantiate
  <2>3. withdrawDelay \in MIN_DELAY..MAX_DELAY /\ admin \in Accounts /\ cancelers \subseteq Accounts
    BY BridgeAssumption DEF Init, Instantiate
  <2>4. pendingAdmin = NoProposal
    BY DEF Init, Instantiate
  <2>5. feeConfig \in [standard : Nat, discounted : Nat, discountOn : BOOLEAN]
    BY BridgeAssumption DEF Init, Instantiate
  <2> QED
    BY <2>2, <2>3, <2>4, <2>5 DEF Init, Instantiate, ConfigTypeOK
<1>3. WithdrawInv
  <2>1. NotSubmitted \in Withdrawal
    BY DEF NotSubmitted, Withdrawal
  <2>2. WithdrawTypeOK
    BY <2>1 DEF Init, Instantiate, WithdrawTypeOK
  <2>3. StagesOrdered
    BY DEF Init, Instantiate, StagesOrdered, NotSubmitted, Submitted, Approved, Cancelled, Executed
  <2> QED
    BY <2>2, <2>3 DEF WithdrawInv
<1>4. DepositTypeOK /\ adminCalls \in Nat
  BY DEF Init, Instantiate, DepositTypeOK
<1>5. ValueTypeOK
  BY DeploymentAssumption DEF Init, ValueTypeOK
<1> QED
  BY <1>1, <1>2, <1>3, <1>4, <1>5 DEF IInv

(***************************************************************************)
(* Deposits                                                                *)
(***************************************************************************)
\* Every fee rate in force is a natural number, hence so is the fee.
LEMMA FeeIsNat ==
  ASSUME ConfigTypeOK, NEW a \in Accounts, NEW amount \in Nat, NEW holds \in BOOLEAN
  PROVE  CalculateFee(amount, EffectiveFeeBps(a, holds)) \in Nat
<1>1. EffectiveFeeBps(a, holds) \in Nat
  BY BridgeAssumption DEF EffectiveFeeBps, ConfigTypeOK
<1>2. \A bps \in Nat : (amount * bps) \div BPS_DENOMINATOR \in Nat
  BY DEF BPS_DENOMINATOR
<1> QED
  BY <1>1, <1>2 DEF CalculateFee

LEMMA RecordStep ==
  ASSUME IInv, NEW t \in Tokens, NEW c \in Chains, NEW net \in Nat,
         destMappings[t][c] # NoDestToken, RecordDeposit(t, c, net)
  PROVE  DepositTypeOK'
<1>1. destMappings[t][c] \in DestTokens
  BY DEF IInv, RegistryInv, RegistryTypeOK
<1> QED
  BY <1>1 DEF RecordDeposit, IInv, DepositTypeOK

\* The three ways to deposit.
LEMMA DepositStep ==
  ASSUME IInv, NEW t \in Tokens, Deposit(t), UNCHANGED adminCalls
  PROVE  IInv'
<1> SUFFICES ASSUME NEW a \in Accounts, NEW c \in Chains, NEW amount \in DepositAmounts,
                    NEW holds \in BOOLEAN,
                    \/ DepositLock(a, t, c, amount, holds)
                    \/ DepositCw20MintableBurn(a, t, c, amount, holds)
             PROVE  IInv'
  BY DEF Deposit, DepositNative, DepositCw20Lock
<1> DEFINE fee == CalculateFee(amount, EffectiveFeeBps(a, holds))
<1> DEFINE net == amount - fee
<1>1. amount \in Nat /\ fee \in Nat
  BY FeeIsNat, BridgeAssumption DEF IInv
<1> HIDE DEF fee
<1>2. fee <= amount /\ destMappings[t][c] # NoDestToken /\ RecordDeposit(t, c, net)
      /\ amount <= supply[t] - holdings[t]
  BY DEF DepositLock, DepositCw20MintableBurn, CanDeposit, fee
<1>3. net \in Nat /\ net <= amount
  BY <1>1, <1>2
<1>4. DepositTypeOK'
  BY <1>2, <1>3, RecordStep
<1>5. ValueTypeOK'
  <2>1. CASE DepositLock(a, t, c, amount, holds)
    <3>1. KeepLocked(t, net, fee) /\ UNCHANGED supply
      BY <2>1 DEF DepositLock, fee
    <3> QED
      BY <1>3, <3>1 DEF KeepLocked, IInv, ValueTypeOK
  <2>2. CASE DepositCw20MintableBurn(a, t, c, amount, holds)
    <3>1. supply' = [supply EXCEPT ![t] = @ - net] /\ UNCHANGED <<locked, holdings>>
      BY <2>2 DEF DepositCw20MintableBurn, fee
    <3>2. net <= supply[t]
      BY <1>1, <1>2, <1>3 DEF IInv, ValueTypeOK
    <3> QED
      BY <1>3, <3>1, <3>2 DEF IInv, ValueTypeOK
  <2> QED
    BY <2>1, <2>2
<1>6. UNCHANGED <<now, registryVars, configVars, withdrawVars>>
  BY DEF DepositLock, DepositCw20MintableBurn
<1> QED
  BY <1>4, <1>5, <1>6, NowTyped, RegistryFrame, ConfigFrame, WithdrawFrame DEF IInv

(***************************************************************************)
(* Withdrawals                                                             *)
(***************************************************************************)
LEMMA SubmitStep ==
  ASSUME IInv, NEW x \in Xfers, NEW tip \in Tips, WithdrawSubmit(x, tip), UNCHANGED adminCalls
  PROVE  IInv'
<1> DEFINE w == [NotSubmitted EXCEPT !.submitted = TRUE, !.operatorFunds = tip,
                   !.srcDecimals = srcMappings[x.srcChain][x.token].srcDecimals,
                   !.destDecimals = tokens[x.token].decimals]
<1>1. pendingWithdraws' = [pendingWithdraws EXCEPT ![x] = w] /\ UNCHANGED withdrawNonceUsed
  BY DEF WithdrawSubmit
<1>2. /\ tokens[x.token].decimals \in Decimals
      /\ srcMappings[x.srcChain][x.token].srcDecimals \in Decimals
  BY BridgeAssumption, RegistryAssumption
  DEF WithdrawSubmit, IInv, RegistryInv, RegistryTypeOK, TokenConfig, SrcMapping
<1>3. /\ w \in Withdrawal /\ w.submitted /\ ~w.approved /\ ~w.cancelled /\ ~w.executed
      /\ w.srcDecimals \in Decimals /\ w.destDecimals \in Decimals
  BY <1>2, BridgeAssumption, RegistryAssumption DEF NotSubmitted, Withdrawal
<1> HIDE DEF w
<1>4. WithdrawInv'
  BY <1>1, <1>3 DEF IInv, WithdrawInv, WithdrawTypeOK, StagesOrdered, Submitted, Approved,
                    Cancelled, Executed
<1>5. ValueTypeOK'
  <2>1. tip \in Nat /\ GasDenom \in Tokens
    BY BridgeAssumption DEF Tokens
  <2> QED
    BY <2>1 DEF WithdrawSubmit, IInv, ValueTypeOK
<1>6. UNCHANGED <<now, registryVars, configVars, depositVars>>
  BY DEF WithdrawSubmit
<1> QED
  BY <1>4, <1>5, <1>6, NowTyped, RegistryFrame, ConfigFrame, DepositFrame DEF IInv

LEMMA ApproveStep ==
  ASSUME IInv, NEW x \in Xfers, NEW a \in Accounts, WithdrawApprove(a, x), UNCHANGED adminCalls
  PROVE  IInv'
<1>1. WithdrawTypeOK'
  BY NowTyped DEF WithdrawApprove, IInv, WithdrawInv, WithdrawTypeOK, Withdrawal
<1>2. StagesOrdered'
  BY DEF WithdrawApprove, CanApprove, IInv, WithdrawInv, WithdrawTypeOK, StagesOrdered, Withdrawal,
         Submitted, Approved, Cancelled, Executed
<1>3. ValueTypeOK'
  <2>1. pendingWithdraws[x].operatorFunds \in Nat /\ GasDenom \in Tokens
    BY BridgeAssumption DEF Tokens, IInv, WithdrawInv, WithdrawTypeOK, Withdrawal
  <2> QED
    BY <2>1 DEF WithdrawApprove, IInv, ValueTypeOK
<1>4. UNCHANGED <<now, registryVars, configVars, depositVars>>
  BY DEF WithdrawApprove
<1> QED
  BY <1>1, <1>2, <1>3, <1>4, NowTyped, RegistryFrame, ConfigFrame, DepositFrame
  DEF IInv, WithdrawInv

\* Cancelling, reinstating and correcting the decimals of a withdrawal.
LEMMA ReviewStep ==
  ASSUME IInv, NEW x \in Xfers, UNCHANGED adminCalls,
         \/ \E a \in Accounts : WithdrawCancel(a, x) \/ WithdrawUncancel(a, x)
         \/ \E n \in AdminDecimals : AdminFixPendingDecimals(x, n)
  PROVE  IInv'
<1>0. pendingWithdraws' \in [Xfers -> Withdrawal]
  <2>1. ASSUME NEW a \in Accounts, WithdrawCancel(a, x) PROVE pendingWithdraws' \in [Xfers -> Withdrawal]
    BY <2>1 DEF WithdrawCancel, IInv, WithdrawInv, WithdrawTypeOK, Withdrawal
  <2>2. ASSUME NEW a \in Accounts, WithdrawUncancel(a, x)
        PROVE  pendingWithdraws' \in [Xfers -> Withdrawal]
    <3>1. [pendingWithdraws[x] EXCEPT !.cancelled = FALSE, !.approvedAt = now] \in Withdrawal
      BY NowTyped DEF IInv, WithdrawInv, WithdrawTypeOK, Withdrawal
    <3> QED
      BY <2>2, <3>1 DEF WithdrawUncancel, IInv, WithdrawInv, WithdrawTypeOK
  <2>3. ASSUME NEW n \in AdminDecimals, AdminFixPendingDecimals(x, n)
        PROVE  pendingWithdraws' \in [Xfers -> Withdrawal]
    BY <2>3, RegistryAssumption
    DEF AdminFixPendingDecimals, IInv, WithdrawInv, WithdrawTypeOK, Withdrawal
  <2> QED
    BY <2>1, <2>2, <2>3
<1> USE DEF IInv, WithdrawInv, WithdrawTypeOK, StagesOrdered, Withdrawal, Submitted, Approved,
            Cancelled, Executed
<1>1. ASSUME NEW a \in Accounts, WithdrawCancel(a, x) PROVE WithdrawInv'
  BY <1>0, <1>1 DEF WithdrawCancel
<1>2. ASSUME NEW a \in Accounts, WithdrawUncancel(a, x) PROVE WithdrawInv'
  BY <1>0, <1>2 DEF WithdrawUncancel
<1>3. ASSUME NEW n \in AdminDecimals, AdminFixPendingDecimals(x, n) PROVE WithdrawInv'
  <2>1. n \in Decimals
    BY RegistryAssumption
  <2> QED
    BY <1>0, <1>3, <2>1 DEF AdminFixPendingDecimals, MayFix
<1>4. UNCHANGED <<now, registryVars, configVars, depositVars, valueVars>>
  BY DEF WithdrawCancel, WithdrawUncancel, AdminFixPendingDecimals
<1> QED
  BY <1>1, <1>2, <1>3, <1>4, NowTyped, RegistryFrame, ConfigFrame, DepositFrame, ValueFrame

\* A payout in local decimals is a natural number.
LEMMA PayoutIsNat ==
  ASSUME WithdrawInv, NEW x \in Xfers, Submitted(x)
  PROVE  Payout(x) \in Nat
<1> DEFINE src == pendingWithdraws[x].srcDecimals
<1> DEFINE dest == pendingWithdraws[x].destDecimals
<1>1. src \in Decimals /\ dest \in Decimals /\ x.amount \in Nat
  BY BridgeAssumption DEF WithdrawInv, StagesOrdered
<1>2. src \in Nat /\ dest \in Nat
  BY <1>1, RegistryAssumption
<1> HIDE DEF src, dest
<1>3. CASE src > dest
  <2>1. 10^(src - dest) \in Nat \ {0}
    BY <1>1, <1>3, ScaleAssumption
  <2>2. x.amount \div 10^(src - dest) \in Nat
    BY <1>1, <2>1
  <2> QED
    BY <1>3, <2>2 DEF Payout, NormalizeDecimals, src, dest
<1>4. CASE ~(src > dest)
  <2>1. 10^(dest - src) \in Nat
    BY <1>1, <1>2, <1>4, ScaleAssumption
  <2>2. x.amount * 10^(dest - src) \in Nat
    BY <1>1, <2>1
  <2> QED
    BY <1>4, <2>2 DEF Payout, NormalizeDecimals, src, dest
<1> QED
  BY <1>3, <1>4

LEMMA RateLimitTyped ==
  ASSUME RegistryTypeOK, NEW t \in Tokens, NEW amount \in Nat, NEW limit,
         CheckAndUpdateRateLimit(t, amount, limit)
  PROVE  rateWindows' \in [Tokens -> RateWindow]
<1> DEFINE expired == rateWindows[t] = NoWindow \/ now >= rateWindows[t].start + RATE_LIMIT_PERIOD
<1> DEFINE win == [start |-> IF expired THEN now ELSE rateWindows[t].start,
                   used  |-> (IF expired THEN 0 ELSE rateWindows[t].used) + amount]
<1>1. rateWindows[t].start \in Nat /\ rateWindows[t].used \in Nat /\ now \in Nat
  BY DEF RegistryTypeOK, RateWindow
<1>2. win \in RateWindow
  BY <1>1 DEF RateWindow
<1>3. rateWindows' = rateWindows \/ rateWindows' = [rateWindows EXCEPT ![t] = win]
  BY DEF CheckAndUpdateRateLimit
<1> HIDE DEF win
<1> QED
  BY <1>2, <1>3 DEF RegistryTypeOK

\* Execution pays out of the locked balance or mints.
LEMMA ExecuteStep ==
  ASSUME IInv, NEW x \in Xfers, UNCHANGED adminCalls,
         WithdrawExecuteUnlock(x) \/ WithdrawExecuteMint(x)
  PROVE  IInv'
<1>1. PICK type \in TokenTypes : Execute(x, type)
  BY DEF WithdrawExecuteUnlock, WithdrawExecuteMint, TokenTypes
<1>2. Submitted(x) /\ x.token \in Tokens /\ Payout(x) \in Nat
  BY <1>1, PayoutIsNat, BridgeAssumption DEF Execute, ReadyToExecute, IInv
<1>3. ValueTypeOK'
  <2>1. CASE WithdrawExecuteUnlock(x)
    BY <1>2, <2>1 DEF WithdrawExecuteUnlock, PayFromLocked, IInv, ValueTypeOK
  <2>2. CASE WithdrawExecuteMint(x)
    BY <1>2, <2>2 DEF WithdrawExecuteMint, IInv, ValueTypeOK
  <2> QED
    BY <2>1, <2>2
<1>4. rateWindows' \in [Tokens -> RateWindow]
  BY <1>1, <1>2, RateLimitTyped DEF Execute, IInv, RegistryInv
<1>5. RegistryInv'
  BY <1>1, <1>4 DEF Execute, IInv, RegistryInv, RegistryTypeOK, ChainNamesInverse,
                    MappingsOneToOne, chainVars, tokenVars, mappingVars
<1>6. WithdrawInv'
  <2>1. pendingWithdraws' \in [Xfers -> Withdrawal]
    BY <1>1 DEF Execute, IInv, WithdrawInv, WithdrawTypeOK, Withdrawal
  <2> QED
    BY <1>1, <2>1 DEF Execute, ReadyToExecute, IInv, WithdrawInv, WithdrawTypeOK, StagesOrdered,
                      Withdrawal, Submitted, Approved, Cancelled, Executed
<1>7. UNCHANGED <<configVars, depositVars>>
  BY <1>1 DEF Execute
<1> QED
  BY <1>3, <1>5, <1>6, <1>7, ConfigFrame, DepositFrame DEF IInv

(***************************************************************************)
(* Administration and time                                                 *)
(***************************************************************************)
LEMMA ConfigStep ==
  ASSUME ConfigTypeOK, now \in Nat, ConfigAdmin \/ AcceptAdmin \/ RoleAdmin
  PROVE  ConfigTypeOK'
<1> USE DEF ConfigTypeOK, roleVars
<1>1. CASE ConfigAdmin
  BY <1>1 DEF ConfigAdmin, SetPaused, SetCanceler, SetWithdrawDelay
<1>2. CASE AcceptAdmin
  <2>1. pendingAdmin \in [address : Accounts, executeAfter : Nat]
    BY <1>2 DEF AcceptAdmin
  <2> QED
    BY <1>2, <2>1 DEF AcceptAdmin
<1>3. CASE RoleAdmin
  <2>1. ASSUME NEW a \in Accounts, ProposeAdmin(a) PROVE ConfigTypeOK'
    BY <2>1, BridgeAssumption DEF ProposeAdmin
  <2>2. ASSUME NEW a \in Accounts, AddOperator(a) \/ RemoveOperator(a) PROVE ConfigTypeOK'
    BY <2>2 DEF AddOperator, RemoveOperator
  <2>3. ASSUME NEW a \in Accounts, NEW bps \in CustomFees, SetCustomAccountFee(a, bps)
        PROVE  ConfigTypeOK'
    BY <2>3 DEF SetCustomAccountFee
  <2>4. ASSUME NEW a \in Accounts, RemoveCustomAccountFee(a) PROVE ConfigTypeOK'
    BY <2>4 DEF RemoveCustomAccountFee
  <2>5. ASSUME CancelAdminProposal PROVE ConfigTypeOK'
    BY <2>5 DEF CancelAdminProposal, NoProposal
  <2>6. ASSUME NEW n \in 1..operatorCount, UpdateMinSignatures(n) PROVE ConfigTypeOK'
    BY <2>6 DEF UpdateMinSignatures
  <2>7. ASSUME NEW s \in StandardFees, NEW d \in StandardFees, NEW on \in BOOLEAN,
               SetFeeParams(s, d, on)
        PROVE  ConfigTypeOK'
    BY <2>7, BridgeAssumption DEF SetFeeParams
  <2> QED
    BY <1>3, <2>1, <2>2, <2>3, <2>4, <2>5, <2>6, <2>7 DEF RoleAdmin
<1> QED
  BY <1>1, <1>2, <1>3

\* Recovering assets and gifts move balances only.
LEMMA BalanceStep ==
  ASSUME IInv, NEW t \in Tokens, UNCHANGED adminCalls,
         \/ \E amount \in Recoveries : RecoverAsset(t, amount)
         \/ \E amount \in Gifts : Gift(t, amount)
  PROVE  IInv'
<1>1. ASSUME NEW amount \in Recoveries, RecoverAsset(t, amount) PROVE ValueTypeOK'
  BY <1>1, BridgeAssumption DEF RecoverAsset, IInv, ValueTypeOK
<1>2. ASSUME NEW amount \in Gifts, Gift(t, amount) PROVE ValueTypeOK'
  BY <1>2, BridgeAssumption DEF Gift, IInv, ValueTypeOK
<1>3. UNCHANGED <<now, registryVars, configVars, withdrawVars, depositVars>>
  BY DEF RecoverAsset, Gift
<1> QED
  BY <1>1, <1>2, <1>3, NowTyped, RegistryFrame, ConfigFrame, WithdrawFrame, DepositFrame DEF IInv

\* Every step keeps the inductive invariant.
LEMMA StepIInv == IInv /\ [Next]_vars => IInv'
<1> SUFFICES ASSUME IInv, [Next]_vars PROVE IInv'
  OBVIOUS
<1>1. ASSUME NEW t \in Tokens, Deposit(t), UNCHANGED adminCalls PROVE IInv'
  BY <1>1, DepositStep
<1>2. ASSUME NEW x \in Xfers, Withdraw(x), UNCHANGED adminCalls PROVE IInv'
  BY <1>2, SubmitStep, ApproveStep, ReviewStep, ExecuteStep DEF Withdraw
<1>3. CASE /\ ConfigAdmin \/ AcceptAdmin
           /\ UNCHANGED <<now, registryVars, withdrawVars, depositVars, valueVars, adminCalls>>
  BY <1>3, NowTyped, ConfigStep, RegistryFrame, WithdrawFrame, DepositFrame, ValueFrame DEF IInv
<1>4. ASSUME NEW t \in Tokens, UNCHANGED adminCalls,
             \/ \E amount \in Recoveries : RecoverAsset(t, amount)
             \/ \E amount \in Gifts : Gift(t, amount)
      PROVE  IInv'
  BY <1>4, BalanceStep
<1>5. CASE /\ adminCalls' = adminCalls + 1
           /\ \/ RoleAdmin /\ UNCHANGED registryVars
              \/ RegistryAdmin(supply) /\ UNCHANGED configVars
           /\ UNCHANGED <<now, withdrawVars, depositVars, valueVars>>
  <2>1. adminCalls' \in Nat /\ supply \in [Tokens -> Nat]
    BY <1>5 DEF IInv, ValueTypeOK
  <2>2. CASE RoleAdmin /\ UNCHANGED registryVars
    BY <1>5, <2>1, <2>2, NowTyped, ConfigStep, RegistryFrame, WithdrawFrame, DepositFrame,
       ValueFrame DEF IInv
  <2>3. CASE RegistryAdmin(supply) /\ UNCHANGED configVars
    BY <1>5, <2>1, <2>3, RegistryStep, ConfigFrame, WithdrawFrame, DepositFrame, ValueFrame DEF IInv
  <2> QED
    BY <1>5, <2>2, <2>3
<1>6. CASE Tick /\ UNCHANGED <<registryVars, configVars, withdrawVars, depositVars, valueVars, adminCalls>>
  <2>1. now' \in Nat
    BY <1>6, NowTyped DEF Tick
  <2> QED
    BY <1>6, <2>1, RegistryFrame, ConfigFrame, WithdrawFrame, DepositFrame, ValueFrame DEF IInv
<1>7. CASE UNCHANGED vars
  BY <1>7, NowTyped, RegistryFrame, ConfigFrame, WithdrawFrame, DepositFrame, ValueFrame
  DEF IInv, vars
<1> QED
  BY <1>1, <1>2, <1>3, <1>4, <1>5, <1>6, <1>7 DEF Next

\* The inductive invariant holds throughout.
THEOREM Invariance == Spec => []IInv
  BY InitIInv, StepIInv, PTL DEF Spec

\* Every variable keeps its type: no balance, supply or LOCKED_BALANCES entry is ever
\* negative, and the withdraw delay stays within its bounds.
THEOREM TypeCorrect == Spec => []TypeOK
<1>1. IInv => TypeOK
  <2> SUFFICES ASSUME IInv PROVE TypeOK
    OBVIOUS
  <2>1. pendingAdmin \in [address : Accounts \cup {NoAccount}, executeAfter : Nat]
    BY DEF IInv, ConfigTypeOK, NoProposal
  <2> QED
    BY <2>1 DEF IInv, RegistryInv, ConfigTypeOK, WithdrawInv, WithdrawTypeOK, DepositTypeOK,
                ValueTypeOK, TypeOK
<1> QED
  BY <1>1, Invariance, PTL

\* An identifier names one chain, through any registrations, renamings and removals.
THEOREM ChainNamesAreInverse == Spec => []ChainNamesInverse
<1>1. IInv => ChainNamesInverse
  BY DEF IInv, RegistryInv
<1> QED
  BY <1>1, Invariance, PTL

\* No destination and no local token is ever claimed twice, and no claim outlives its
\* mapping or is lost while the mapping stands.
THEOREM MappingsAreOneToOne == Spec => []MappingsOneToOne
<1>1. IInv => MappingsOneToOne
  BY DEF IInv, RegistryInv
<1> QED
  BY <1>1, Invariance, PTL

(***************************************************************************)
(* Refinement                                                              *)
(***************************************************************************)
LEMMA InitRefines == Init => WT!Init
  BY DEF Init, Instantiate, NotSubmitted, WT!Init, Stage, Submitted, Approved, Cancelled, Executed

LEMMA StagesUntouched ==
  ASSUME UNCHANGED withdrawVars
  PROVE  /\ [y \in Xfers |-> Stage(y)]' = [y \in Xfers |-> Stage(y)]
         /\ [y \in Xfers |-> pendingWithdraws[y].approvedAt]'
              = [y \in Xfers |-> pendingWithdraws[y].approvedAt]
  BY DEF withdrawVars, Stage, Submitted, Approved, Cancelled, Executed

\* Each step of a withdrawal is the step of the same name of a watchtower; a repeated
\* cancellation and a correction of the decimals are stutters.
LEMMA WithdrawRefines ==
  ASSUME IInv, NEW x \in Xfers, Withdraw(x)
  PROVE  [WT!Next]_(WT!vars)
<1> USE DEF Submitted, Approved, Cancelled, Executed, Stage, IInv, WithdrawInv, WithdrawTypeOK,
            StagesOrdered, Withdrawal, WT!Advance
<1>1. ASSUME NEW tip \in Tips, WithdrawSubmit(x, tip) PROVE WT!Submit(x)
  <2>1. Stage(x) = "none" /\ pendingWithdraws[x].approvedAt = 0
    BY <1>1 DEF WithdrawSubmit, NotSubmitted
  <2> DEFINE w == [NotSubmitted EXCEPT !.submitted = TRUE, !.operatorFunds = tip,
                     !.srcDecimals = srcMappings[x.srcChain][x.token].srcDecimals,
                     !.destDecimals = tokens[x.token].decimals]
  <2>2. /\ pendingWithdraws' = [pendingWithdraws EXCEPT ![x] = w]
        /\ w.submitted /\ ~w.approved /\ ~w.cancelled /\ ~w.executed
        /\ w.approvedAt = 0
    BY <1>1 DEF WithdrawSubmit, NotSubmitted
  <2> HIDE DEF w
  <2>3. [y \in Xfers |-> Stage(y)]' = [[y \in Xfers |-> Stage(y)] EXCEPT ![x] = "submitted"]
    BY <2>2
  <2>4. [y \in Xfers |-> pendingWithdraws[y].approvedAt]'
          = [y \in Xfers |-> pendingWithdraws[y].approvedAt]
    BY <2>1, <2>2
  <2> QED
    BY <1>1, <2>1, <2>3, <2>4 DEF WithdrawSubmit, WT!Submit
<1>2. ASSUME NEW a \in Accounts, WithdrawApprove(a, x) PROVE WT!Approve(x)
  <2>1. \A y \in Xfers : WT!Key(y) = WT!Key(x) => Stage(y) \notin WT!Vouched
    BY <1>2 DEF WithdrawApprove, CanApprove, Key, WT!Key, WT!Vouched
  <2> QED
    BY <1>2, <2>1 DEF WithdrawApprove, CanApprove, WT!Approve
<1>3. ASSUME NEW a \in Accounts, WithdrawCancel(a, x)
      PROVE  WT!Cancel(x) \/ UNCHANGED WT!vars
  BY <1>3 DEF WithdrawCancel, WT!Cancel, WT!vars
<1>4. ASSUME NEW a \in Accounts, WithdrawUncancel(a, x) PROVE WT!Reinstate(x)
  BY <1>4 DEF WithdrawUncancel, WT!Reinstate
<1>5. ASSUME NEW type \in TokenTypes, Execute(x, type) PROVE WT!Execute(x)
  <2>1. now > pendingWithdraws[x].approvedAt + MIN_DELAY
    <3>1. /\ withdrawDelay \in MIN_DELAY..MAX_DELAY /\ MIN_DELAY \in Nat /\ MAX_DELAY \in Nat
          /\ pendingWithdraws[x].approvedAt \in Nat /\ now \in Nat
      BY BridgeAssumption, NowTyped DEF ConfigTypeOK
    <3>2. now > pendingWithdraws[x].approvedAt + withdrawDelay
      BY <1>5 DEF Execute, ReadyToExecute, WindowEnd
    <3> QED
      BY <3>1, <3>2
  <2> QED
    BY <1>5, <2>1 DEF Execute, ReadyToExecute, WT!Execute
<1>6. ASSUME WithdrawExecuteUnlock(x) \/ WithdrawExecuteMint(x)
      PROVE  WT!Execute(x)
  BY <1>5, <1>6 DEF WithdrawExecuteUnlock, WithdrawExecuteMint, TokenTypes
<1>7. ASSUME NEW n \in AdminDecimals, AdminFixPendingDecimals(x, n)
      PROVE  UNCHANGED WT!vars
  BY <1>7 DEF AdminFixPendingDecimals, WT!vars
<1> QED
  BY <1>1, <1>2, <1>3, <1>4, <1>6, <1>7 DEF Withdraw, WT!Next

LEMMA StepRefines == IInv /\ [Next]_vars => [WT!Next]_(WT!vars)
<1> SUFFICES ASSUME IInv, [Next]_vars PROVE [WT!Next]_(WT!vars)
  OBVIOUS
<1>1. ASSUME NEW x \in Xfers, Withdraw(x) PROVE [WT!Next]_(WT!vars)
  BY <1>1, WithdrawRefines
<1>2. ASSUME UNCHANGED <<now, withdrawVars>> PROVE UNCHANGED WT!vars
  BY <1>2, StagesUntouched DEF WT!vars
<1>3. ASSUME NEW t \in Tokens,
             \/ Deposit(t)
             \/ \E amount \in Recoveries : RecoverAsset(t, amount)
             \/ \E amount \in Gifts : Gift(t, amount)
      PROVE  UNCHANGED WT!vars
  BY <1>2, <1>3 DEF Deposit, DepositNative, DepositCw20Lock, DepositLock,
                    DepositCw20MintableBurn, RecoverAsset, Gift
<1>4. CASE Tick /\ UNCHANGED withdrawVars
  <2>1. now' > now /\ now' \in Nat
    BY <1>4, NowTyped DEF Tick
  <2> QED
    BY <1>4, <2>1, StagesUntouched DEF WT!Next, WT!Wait
<1>5. CASE UNCHANGED vars
  BY <1>2, <1>5 DEF vars
<1> QED
  BY <1>1, <1>2, <1>3, <1>4, <1>5 DEF Next

\* The Terra contract is a watchtower: its behaviours, seen through the stages of the
\* withdrawals and their approval times, are behaviours of the abstract specification.
THEOREM TerraIsWatchtower == Spec => ImplementsWatchtower
  BY InitRefines, StepRefines, Invariance, PTL DEF Spec, ImplementsWatchtower, WT!Spec

\* The abstract proof, about the stages of the contract's withdrawals.
WTP == INSTANCE WatchtowerProofs WITH
  status    <- [x \in Xfers |-> Stage(x)],
  liveSince <- [x \in Xfers |-> pendingWithdraws[x].approvedAt],
  MinWindow <- MIN_DELAY

\* What every watchtower promises holds of the Terra contract: of all the transfers that claim
\* one source deposit at most one is ever approved, through cancellations,
\* reinstatements and repaired decimals.
THEOREM VouchesOnce == Spec => []WT!OneVouchedPerDeposit
<1>1. WT!Spec => WTP!Spec
  BY PTL
  DEF WT!Spec, WT!Init, WT!Next, WT!vars, WT!Submit, WT!Approve, WT!Cancel, WT!Reinstate,
      WT!Execute, WT!Wait, WT!Advance, WT!Key, WT!Vouched,
      WTP!Spec, WTP!Init, WTP!Next, WTP!vars, WTP!Submit, WTP!Approve, WTP!Cancel,
      WTP!Reinstate, WTP!Execute, WTP!Wait, WTP!Advance, WTP!Key, WTP!Vouched
<1>2. WTP!OneVouchedPerDeposit <=> WT!OneVouchedPerDeposit
  BY DEF WTP!OneVouchedPerDeposit, WTP!Key, WTP!Vouched,
         WT!OneVouchedPerDeposit, WT!Key, WT!Vouched
<1> QED
  BY <1>1, <1>2, WTP!OneVouched, TerraIsWatchtower, PTL DEF ImplementsWatchtower

(***************************************************************************)
(* Counting                                                                *)
(***************************************************************************)
\* Nonces below OUTGOING_NONCE and deposits correspond one to one.
NoncesInv == DepositNoncesDense /\ IsFiniteSet(deposits)

\* A deposit takes the next nonce.
LEMMA RecordKeepsDense ==
  ASSUME IInv, NoncesInv, NEW t \in Tokens, NEW c \in Chains, NEW net, RecordDeposit(t, c, net)
  PROVE  NoncesInv'
<1> DEFINE d == [destChain |-> c, destToken |-> destMappings[t][c], token |-> t,
                 amount |-> net, nonce |-> outgoingNonce]
<1>1. deposits' = deposits \cup {d} /\ outgoingNonce' = outgoingNonce + 1 /\ outgoingNonce \in Nat
  BY DEF RecordDeposit, IInv, DepositTypeOK
<1>2. d.nonce = outgoingNonce
  OBVIOUS
<1> HIDE DEF d
<1>3. d \notin deposits
  BY <1>1, <1>2 DEF NoncesInv, DepositNoncesDense
<1>4. IsFiniteSet(deposits') /\ Cardinality(deposits') = Cardinality(deposits) + 1
  BY <1>1, <1>3, FS_AddElement DEF NoncesInv
<1>5. {e.nonce : e \in deposits'} = {e.nonce : e \in deposits} \cup {outgoingNonce}
  BY <1>1, <1>2
<1>6. 0..(outgoingNonce' - 1) = (0..(outgoingNonce - 1)) \cup {outgoingNonce}
  BY <1>1
<1> QED
  BY <1>1, <1>4, <1>5, <1>6 DEF NoncesInv, DepositNoncesDense

LEMMA StepKeepsNonces == IInv /\ NoncesInv /\ [Next]_vars => NoncesInv'
<1> SUFFICES ASSUME IInv, NoncesInv, [Next]_vars PROVE NoncesInv'
  OBVIOUS
<1>1. ASSUME UNCHANGED depositVars PROVE NoncesInv'
  BY <1>1 DEF depositVars, NoncesInv, DepositNoncesDense
<1>2. ASSUME NEW t \in Tokens, Deposit(t) PROVE NoncesInv'
  BY <1>2, RecordKeepsDense
  DEF Deposit, DepositNative, DepositCw20Lock, DepositLock, DepositCw20MintableBurn
<1>3. ASSUME NEW x \in Xfers, Withdraw(x) PROVE UNCHANGED depositVars
  BY <1>3 DEF Withdraw, WithdrawSubmit, WithdrawApprove, WithdrawCancel, WithdrawUncancel,
              WithdrawExecuteUnlock, WithdrawExecuteMint, Execute, AdminFixPendingDecimals
<1>4. ASSUME NEW t \in Tokens,
             \/ \E amount \in Recoveries : RecoverAsset(t, amount)
             \/ \E amount \in Gifts : Gift(t, amount)
      PROVE  UNCHANGED depositVars
  BY <1>4 DEF RecoverAsset, Gift
<1> QED
  BY <1>1, <1>2, <1>3, <1>4 DEF Next, vars

LEMMA InitNonces == Init => NoncesInv
<1> SUFFICES ASSUME Init PROVE NoncesInv
  OBVIOUS
<1>1. deposits = {} /\ outgoingNonce = 0
  BY DEF Init, Instantiate
<1>2. IsFiniteSet(deposits) /\ Cardinality(deposits) = 0
  BY <1>1, FS_EmptySet
<1>3. 0..(outgoingNonce - 1) = {}
  BY <1>1
<1> QED
  BY <1>1, <1>2, <1>3 DEF NoncesInv, DepositNoncesDense

\* No two deposits share a nonce and none is skipped, whichever entry point was used.
THEOREM NoncesAreDense == Spec => []DepositNoncesDense
<1>1. NoncesInv => DepositNoncesDense
  BY DEF NoncesInv
<1> QED
  BY <1>1, InitNonces, StepKeepsNonces, Invariance, PTL DEF Spec

RolesInv ==
  /\ IsFiniteSet(operators) /\ operatorCount \in Nat
  /\ operatorCount = Cardinality(operators) + Repetitions
  /\ minSignatures \in 1..operatorCount

\* A list has at least as many entries as it names operators.
LEMMA ListCovers ==
  LET listed == {OperatorList[i] : i \in DOMAIN OperatorList}
  IN  /\ IsFiniteSet(listed) /\ Cardinality(listed) \in Nat
      /\ Repetitions \in Nat
<1> DEFINE listed == {OperatorList[i] : i \in DOMAIN OperatorList}
<1>1. Len(OperatorList) \in Nat /\ DOMAIN OperatorList = 1..Len(OperatorList)
  BY BridgeAssumption
<1>2. IsFiniteSet(1..Len(OperatorList)) /\ Cardinality(1..Len(OperatorList)) = Len(OperatorList)
  <2>1. \A n \in Nat : IsFiniteSet(1..n) /\ Cardinality(1..n) = n
    <3> SUFFICES ASSUME NEW n \in Nat PROVE IsFiniteSet(1..n) /\ Cardinality(1..n) = n
      OBVIOUS
    <3>1. /\ IsFiniteSet(1..n)
          /\ Cardinality(1..n) = IF 1 > n THEN 0 ELSE n - 1 + 1
      BY FS_Interval
    <3> QED
      BY <3>1
  <2> QED
    BY <1>1, <2>1, Zenon
<1>3. IsFiniteSet(listed) /\ Cardinality(listed) <= Cardinality(1..Len(OperatorList))
  <2> DEFINE entry == [i \in 1..Len(OperatorList) |-> OperatorList[i]]
  <2>1. entry \in Surjection(1..Len(OperatorList), listed)
    BY <1>1 DEF Surjection
  <2> QED
    BY <1>2, <2>1, FS_Surjection
<1>4. Cardinality(listed) \in Nat
  BY <1>3, FS_CardinalityType
<1> QED
  BY <1>1, <1>2, <1>3, <1>4 DEF Repetitions

\* Adding refuses an operator and removing a stranger, so the difference stays.
LEMMA StepKeepsRoles == RolesInv /\ [Next]_vars => RolesInv'
<1> SUFFICES ASSUME RolesInv, [Next]_vars PROVE RolesInv'
  OBVIOUS
<1> USE DEF RolesInv
<1>0. operatorCount \in Nat /\ Cardinality(operators) \in Nat /\ Repetitions \in Nat
  BY FS_CardinalityType, ListCovers
<1>1. ASSUME UNCHANGED <<operators, operatorCount, minSignatures>> PROVE RolesInv'
  BY <1>1
<1>2. ASSUME NEW a \in Accounts, AddOperator(a) PROVE RolesInv'
  <2>1. IsFiniteSet(operators') /\ Cardinality(operators') = Cardinality(operators) + 1
    BY <1>2, FS_AddElement DEF AddOperator, MayAddOperator
  <2> QED
    BY <1>0, <1>2, <2>1 DEF AddOperator
<1>3. ASSUME NEW a \in Accounts, RemoveOperator(a) PROVE RolesInv'
  <2>1. IsFiniteSet(operators') /\ Cardinality(operators') = Cardinality(operators) - 1
    BY <1>3, FS_RemoveElement DEF RemoveOperator
  <2> QED
    BY <1>0, <1>3, <2>1 DEF RemoveOperator
<1>4. ASSUME NEW n \in 1..operatorCount, UpdateMinSignatures(n) PROVE RolesInv'
  BY <1>4 DEF UpdateMinSignatures
<1>5. CASE RoleAdmin
  <2>1. ASSUME NEW a \in Accounts, \/ ProposeAdmin(a)
                                   \/ \E bps \in CustomFees : SetCustomAccountFee(a, bps)
                                   \/ RemoveCustomAccountFee(a)
        PROVE  RolesInv'
    BY <1>1, <2>1 DEF ProposeAdmin, SetCustomAccountFee, RemoveCustomAccountFee, roleVars
  <2>2. ASSUME CancelAdminProposal PROVE RolesInv'
    BY <1>1, <2>2 DEF CancelAdminProposal
  <2>3. ASSUME NEW s \in StandardFees, NEW d \in StandardFees, NEW on \in BOOLEAN,
               SetFeeParams(s, d, on)
        PROVE  RolesInv'
    BY <1>1, <2>3 DEF SetFeeParams, roleVars
  <2> QED
    BY <1>2, <1>3, <1>4, <1>5, <2>1, <2>2, <2>3 DEF RoleAdmin
<1>6. CASE ConfigAdmin \/ AcceptAdmin
  BY <1>1, <1>6 DEF ConfigAdmin, SetPaused, SetCanceler, SetWithdrawDelay, AcceptAdmin, roleVars
<1>7. ASSUME UNCHANGED configVars PROVE RolesInv'
  BY <1>1, <1>7 DEF configVars, roleVars
<1>8. ASSUME NEW t \in Tokens, \/ Deposit(t)
                               \/ \E amount \in Recoveries : RecoverAsset(t, amount)
                               \/ \E amount \in Gifts : Gift(t, amount)
      PROVE  UNCHANGED configVars
  BY <1>8 DEF Deposit, DepositNative, DepositCw20Lock, DepositLock, DepositCw20MintableBurn,
              RecoverAsset, Gift
<1>9. ASSUME NEW x \in Xfers, Withdraw(x) PROVE UNCHANGED configVars
  BY <1>9 DEF Withdraw, WithdrawSubmit, WithdrawApprove, WithdrawCancel, WithdrawUncancel,
              WithdrawExecuteUnlock, WithdrawExecuteMint, Execute, AdminFixPendingDecimals
<1> QED
  BY <1>5, <1>6, <1>7, <1>8, <1>9 DEF Next, vars

\* OPERATOR_COUNT exceeds the operators by the repetitions of the instantiate message's
\* list, for any list and after any calls: the guards against removing the last operator
\* and against fewer than min_signatures are as wrong as that list and never worse.
THEOREM OperatorsAreCounted == Spec => []OperatorsCounted
<1>1. Init => RolesInv
  <2> SUFFICES ASSUME Init PROVE RolesInv
    OBVIOUS
  <2>1. /\ operators = {OperatorList[i] : i \in DOMAIN OperatorList}
        /\ operatorCount = Len(OperatorList) /\ minSignatures = InitialMinSignatures
    BY DEF Init, Instantiate
  <2>2. Len(OperatorList) \in Nat /\ InitialMinSignatures \in 1..Len(OperatorList)
    BY BridgeAssumption
  <2>3. IsFiniteSet(operators) /\ Cardinality(operators) \in Nat
    BY <2>1, ListCovers
  <2>4. Repetitions = operatorCount - Cardinality(operators)
    BY <2>1 DEF Repetitions
  <2> QED
    BY <2>1, <2>2, <2>3, <2>4 DEF RolesInv
<1>2. RolesInv => OperatorsCounted
  <2> SUFFICES ASSUME RolesInv PROVE OperatorsCounted
    OBVIOUS
  <2>1. Cardinality(operators) \in Nat /\ Repetitions \in Nat
    BY FS_CardinalityType, ListCovers DEF RolesInv
  <2>2. operators = {} => Cardinality(operators) = 0
    BY FS_EmptySet
  <2> QED
    BY <2>1, <2>2 DEF RolesInv, OperatorsCounted
<1> QED
  BY <1>1, <1>2, StepKeepsRoles, PTL DEF Spec

(***************************************************************************)
(* Value.  The ledger: what left the bridge's books equals what the        *)
(* records say, token by token.                                            *)
(***************************************************************************)
AllSubmitted == {x \in Xfers : Submitted(x)}

Ledger == NoncesInv /\ IsFiniteSet(AllSubmitted) /\ CirculationConserved

Circulating(t) == supply[t] - locked[t]

LEMMA InitLedger == Init => Ledger
<1> SUFFICES ASSUME Init PROVE Ledger
  OBVIOUS
<1>1. deposits = {} /\ AllSubmitted = {}
  BY DEF Init, Instantiate, AllSubmitted, Submitted, NotSubmitted
<1>2. NoncesInv /\ IsFiniteSet({})
  BY InitNonces, FS_EmptySet
<1>3. ASSUME NEW t \in Tokens PROVE Deposited(t) = 0 /\ PaidOut(t) = 0
  <2>1. {d \in deposits : d.token = t} = {} /\ Released(t) = {}
    BY <1>1 DEF Released, Executed, Init, Instantiate, NotSubmitted
  <2> QED
    BY <2>1, SumEmpty DEF Deposited, PaidOut
<1>4. \A t \in Tokens : supply[t] = InitialSupply[t] /\ locked[t] = InitialLocked[t]
  BY DEF Init
<1> QED
  BY <1>1, <1>2, <1>3, <1>4, DeploymentAssumption DEF Ledger, CirculationConserved

\* A new record adds its amount to the deposits of its token.
LEMMA RecordOnLedger ==
  ASSUME IInv, NoncesInv, NEW t \in Tokens, NEW c \in Chains, NEW net \in Nat,
         RecordDeposit(t, c, net)
  PROVE  \A u \in Tokens : /\ Deposited(u) \in Nat
                           /\ Deposited(u)' = Deposited(u) + (IF u = t THEN net ELSE 0)
<1> DEFINE d == [destChain |-> c, destToken |-> destMappings[t][c], token |-> t,
                 amount |-> net, nonce |-> outgoingNonce]
<1>1. deposits' = deposits \cup {d}
  BY DEF RecordDeposit
<1>2. d.token = t /\ d.amount = net /\ d.nonce = outgoingNonce
  OBVIOUS
<1> HIDE DEF d
<1>3. outgoingNonce \in Nat /\ \A e \in deposits : e.amount \in Nat
  BY DEF IInv, DepositTypeOK
<1>4. d \notin deposits
  <2>1. outgoingNonce \notin 0..(outgoingNonce - 1)
    BY <1>3
  <2> QED
    BY <1>2, <2>1 DEF NoncesInv, DepositNoncesDense
<1> SUFFICES ASSUME NEW u \in Tokens
             PROVE  /\ Deposited(u) \in Nat
                    /\ Deposited(u)' = Deposited(u) + (IF u = t THEN net ELSE 0)
  OBVIOUS
<1> DEFINE S == {e \in deposits : e.token = u}
           T == {e \in deposits' : e.token = u}
           f == [e \in deposits |-> e.amount]
           g == [e \in deposits' |-> e.amount]
<1>5. IsFiniteSet(S)
  BY FS_Subset DEF NoncesInv
<1>6. S \ {d} = T \ {d} /\ d \notin S /\ (d \in T <=> u = t)
  BY <1>1, <1>2, <1>4
<1>7. AllNat(f, S) /\ AllNat(g, T) /\ g[d] = net /\ \A e \in S \ {d} : f[e] = g[e]
  BY <1>1, <1>2, <1>3 DEF AllNat
<1> HIDE DEF S, T, f, g
<1>8. /\ SumFunctionOnSet(f, S) \in Nat /\ SumFunctionOnSet(g, T) \in Nat
      /\ SumFunctionOnSet(g, T) + (IF d \in S THEN f[d] ELSE 0) =
           SumFunctionOnSet(f, S) + (IF d \in T THEN g[d] ELSE 0)
  BY <1>5, <1>6, <1>7, SumChange
<1>9. SumFunctionOnSet(g, T) = SumFunctionOnSet(f, S) + (IF u = t THEN net ELSE 0)
  BY <1>6, <1>7, <1>8
<1> QED
  BY <1>8, <1>9 DEF Deposited, S, T, f, g

LEMMA DepositedIsNat ==
  ASSUME IInv, NoncesInv, NEW t
  PROVE  Deposited(t) \in Nat
<1> DEFINE f == [d \in deposits |-> d.amount]
           S == {d \in deposits : d.token = t}
<1>1. IsFiniteSet(S)
  BY FS_Subset DEF NoncesInv
<1>2. AllNat(f, S)
  BY DEF AllNat, IInv, DepositTypeOK
<1> HIDE DEF f, S
<1>3. SumFunctionOnSet(f, S) \in Nat
  BY <1>1, <1>2, SumNat
<1> QED
  BY <1>3 DEF Deposited, f, S

LEMMA PaidIsNat ==
  ASSUME IInv, IsFiniteSet(AllSubmitted), NEW t
  PROVE  /\ IsFiniteSet(Released(t))
         /\ \A x \in Released(t) : Payout(x) \in Nat
         /\ PaidOut(t) \in Nat
<1>1. Released(t) \subseteq AllSubmitted
  BY DEF Released, AllSubmitted, IInv, WithdrawInv, StagesOrdered
<1>2. IsFiniteSet(Released(t))
  BY <1>1, FS_Subset
<1>3. \A x \in Released(t) : Payout(x) \in Nat
  BY <1>1, PayoutIsNat DEF IInv, AllSubmitted
<1> DEFINE f == [x \in Released(t) |-> Payout(x)]
<1>4. AllNat(f, Released(t))
  BY <1>3 DEF AllNat
<1> HIDE DEF f
<1>5. SumFunctionOnSet(f, Released(t)) \in Nat
  BY <1>2, <1>4, SumNat
<1> QED
  BY <1>2, <1>3, <1>5 DEF PaidOut, f

\* A step that executes nothing restates no payout.
NothingExecuted ==
  \A x \in Xfers : /\ Executed(x)' <=> Executed(x)
                   /\ Executed(x) => Payout(x)' = Payout(x)

LEMMA PaidUntouched ==
  ASSUME NothingExecuted, NEW t
  PROVE  PaidOut(t)' = PaidOut(t)
<1>1. Released(t)' = Released(t)
  BY DEF NothingExecuted, Released
<1>2. [x \in Released(t) |-> Payout(x)]' = [x \in Released(t) |-> Payout(x)]
  BY <1>1 DEF NothingExecuted, Released
<1> QED
  BY <1>1, <1>2 DEF PaidOut

\* A step that moves no token in or out of the books keeps the ledger.
LEMMA LedgerUntouched ==
  ASSUME Ledger, UNCHANGED <<locked, supply, depositVars>>, NothingExecuted,
         IsFiniteSet(AllSubmitted')
  PROVE  Ledger'
<1>1. \A t : Deposited(t)' = Deposited(t) /\ PaidOut(t)' = PaidOut(t)
  BY PaidUntouched DEF Deposited, depositVars
<1> QED
  BY <1>1 DEF Ledger, NoncesInv, DepositNoncesDense, CirculationConserved, depositVars

LEMMA SameWithdrawals ==
  ASSUME UNCHANGED withdrawVars
  PROVE  NothingExecuted /\ AllSubmitted' = AllSubmitted
  BY DEF withdrawVars, NothingExecuted, Executed, Payout, AllSubmitted, Submitted

\* A deposit takes out of circulation what it records.
LEMMA DepositKeepsLedger ==
  ASSUME IInv, Ledger, NEW t \in Tokens, Deposit(t)
  PROVE  Ledger'
<1> SUFFICES ASSUME NEW a \in Accounts, NEW c \in Chains, NEW amount \in DepositAmounts,
                    NEW holds \in BOOLEAN,
                    \/ DepositLock(a, t, c, amount, holds)
                    \/ DepositCw20MintableBurn(a, t, c, amount, holds)
             PROVE  Ledger'
  BY DEF Deposit, DepositNative, DepositCw20Lock
<1> DEFINE fee == CalculateFee(amount, EffectiveFeeBps(a, holds))
           net == amount - fee
<1>1. net \in Nat
  <2>1. amount \in Nat /\ fee \in Nat
    BY FeeIsNat, BridgeAssumption DEF IInv
  <2>2. fee <= amount
    BY DEF DepositLock, DepositCw20MintableBurn
  <2> HIDE DEF fee
  <2> QED
    BY <2>1, <2>2
<1>2. /\ RecordDeposit(t, c, net) /\ UNCHANGED withdrawVars
      /\ \/ KeepLocked(t, net, fee) /\ UNCHANGED supply
         \/ supply' = [supply EXCEPT ![t] = @ - net] /\ UNCHANGED locked
  BY DEF DepositLock, DepositCw20MintableBurn
<1> HIDE DEF net, fee
<1>3. \A u \in Tokens : /\ Circulating(u) \in Int
                        /\ Circulating(u)' = Circulating(u) - (IF u = t THEN net ELSE 0)
  <2> USE DEF Circulating, IInv, ValueTypeOK
  <2>1. CASE KeepLocked(t, net, fee) /\ UNCHANGED supply
    BY <1>1, <2>1 DEF KeepLocked
  <2>2. CASE supply' = [supply EXCEPT ![t] = @ - net] /\ UNCHANGED locked
    BY <1>1, <2>2
  <2> QED
    BY <1>2, <2>1, <2>2
<1>4. \A u \in Tokens : /\ Deposited(u) \in Nat
                        /\ Deposited(u)' = Deposited(u) + (IF u = t THEN net ELSE 0)
  BY <1>1, <1>2, RecordOnLedger DEF Ledger
<1>5. /\ \A u \in Tokens : PaidOut(u)' = PaidOut(u) /\ PaidOut(u) \in Nat
      /\ AllSubmitted' = AllSubmitted
  BY <1>2, SameWithdrawals, PaidUntouched, PaidIsNat DEF Ledger
<1>6. CirculationConserved'
  <2> SUFFICES ASSUME NEW u \in Tokens
               PROVE  Circulating(u)' = InitialSupply[u] - InitialLocked[u] - Deposited(u)' + PaidOut(u)'
    BY DEF CirculationConserved, Circulating
  <2>1. Circulating(u) = InitialSupply[u] - InitialLocked[u] - Deposited(u) + PaidOut(u)
    BY DEF Ledger, CirculationConserved, Circulating
  <2>2. InitialSupply[u] \in Nat /\ InitialLocked[u] \in Nat
    BY DeploymentAssumption
  <2> QED
    BY <1>1, <1>3, <1>4, <1>5, <2>1, <2>2
<1> QED
  BY <1>2, <1>5, <1>6, RecordKeepsDense DEF Ledger

\* A payout is entered once, at the decimals on record, and circulates.
LEMMA ExecuteKeepsLedger ==
  ASSUME IInv, Ledger, NEW x \in Xfers, WithdrawExecuteUnlock(x) \/ WithdrawExecuteMint(x)
  PROVE  Ledger'
<1> DEFINE out == Payout(x)
<1>1. PICK type \in TokenTypes : Execute(x, type)
  BY DEF WithdrawExecuteUnlock, WithdrawExecuteMint, TokenTypes
<1>2. /\ x.token \in Tokens /\ out \in Nat /\ ~Executed(x) /\ Submitted(x)
      /\ pendingWithdraws' = [pendingWithdraws EXCEPT ![x].executed = TRUE]
      /\ UNCHANGED depositVars
  BY <1>1, PayoutIsNat, BridgeAssumption DEF Execute, ReadyToExecute, IInv
<1>3. \/ PayFromLocked(x.token, out) /\ UNCHANGED supply
      \/ supply' = [supply EXCEPT ![x.token] = @ + out] /\ UNCHANGED locked
  BY DEF WithdrawExecuteUnlock, WithdrawExecuteMint
<1>4. \A y \in Xfers : /\ Executed(y)' <=> Executed(y) \/ y = x
                       /\ Payout(y)' = Payout(y)
                       /\ Submitted(y)' <=> Submitted(y)
  BY <1>2 DEF Executed, Submitted, Payout, IInv, WithdrawInv, WithdrawTypeOK, Withdrawal
<1> HIDE DEF out
<1>5. AllSubmitted' = AllSubmitted
  BY <1>4 DEF AllSubmitted
<1>6. \A u \in Tokens : /\ Circulating(u) \in Int
                        /\ Circulating(u)' = Circulating(u) + (IF u = x.token THEN out ELSE 0)
  <2> USE DEF Circulating, IInv, ValueTypeOK
  <2>1. CASE PayFromLocked(x.token, out) /\ UNCHANGED supply
    BY <1>2, <2>1 DEF PayFromLocked
  <2>2. CASE supply' = [supply EXCEPT ![x.token] = @ + out] /\ UNCHANGED locked
    BY <1>2, <2>2
  <2> QED
    BY <1>3, <2>1, <2>2
<1>7. ASSUME NEW u \in Tokens
      PROVE  /\ PaidOut(u) \in Nat
             /\ PaidOut(u)' = PaidOut(u) + (IF u = x.token THEN out ELSE 0)
  <2> DEFINE S == Released(u)
             T == Released(u)'
             f == [y \in S |-> Payout(y)]
             g == [y \in T |-> Payout(y)']
  <2>1. IsFiniteSet(S) /\ (\A y \in S : Payout(y) \in Nat) /\ PaidOut(u) \in Nat
    BY PaidIsNat DEF Ledger
  <2>2. S \ {x} = T \ {x} /\ x \notin S /\ (x \in T <=> u = x.token)
    BY <1>2, <1>4 DEF Released
  <2>3. /\ AllNat(f, S) /\ AllNat(g, T) /\ (x \in T => g[x] = out)
        /\ \A y \in S \ {x} : f[y] = g[y]
    BY <1>2, <1>4, <2>1, <2>2 DEF AllNat, Released, out
  <2>4. PaidOut(u) = SumFunctionOnSet(f, S) /\ PaidOut(u)' = SumFunctionOnSet(g, T)
    BY DEF PaidOut
  <2> HIDE DEF S, T, f, g
  <2>5. /\ SumFunctionOnSet(f, S) \in Nat /\ SumFunctionOnSet(g, T) \in Nat
        /\ SumFunctionOnSet(g, T) + (IF x \in S THEN f[x] ELSE 0) =
             SumFunctionOnSet(f, S) + (IF x \in T THEN g[x] ELSE 0)
    BY <2>1, <2>2, <2>3, SumChange
  <2> QED
    BY <1>2, <2>1, <2>2, <2>3, <2>4, <2>5
<1>8. ASSUME NEW u \in Tokens PROVE Deposited(u)' = Deposited(u) /\ Deposited(u) \in Nat
  <2>1. Deposited(u)' = Deposited(u)
    BY <1>2 DEF Deposited, depositVars
  <2> QED
    BY <2>1, DepositedIsNat DEF Ledger
<1>9. CirculationConserved'
  <2> SUFFICES ASSUME NEW u \in Tokens
               PROVE  Circulating(u)' = InitialSupply[u] - InitialLocked[u] - Deposited(u)' + PaidOut(u)'
    BY DEF CirculationConserved, Circulating
  <2>1. Circulating(u) = InitialSupply[u] - InitialLocked[u] - Deposited(u) + PaidOut(u)
    BY DEF Ledger, CirculationConserved, Circulating
  <2>2. InitialSupply[u] \in Nat /\ InitialLocked[u] \in Nat
    BY DeploymentAssumption
  <2> QED
    BY <1>2, <1>6, <1>7, <1>8, <2>1, <2>2
<1> QED
  BY <1>2, <1>5, <1>9 DEF Ledger, NoncesInv, DepositNoncesDense, depositVars

\* The other steps of a withdrawal, the admin's correction of its decimals included,
\* move nothing and restate no payout.
LEMMA WithdrawKeepsLedger ==
  ASSUME IInv, Ledger, NEW x \in Xfers, Withdraw(x)
  PROVE  Ledger'
<1> USE DEF IInv, WithdrawInv, WithdrawTypeOK
<1>1. ASSUME NEW tip \in Tips, WithdrawSubmit(x, tip) PROVE Ledger'
  <2>1. NothingExecuted
    <3>1. ~Executed(x)
      BY <1>1 DEF WithdrawSubmit, StagesOrdered
    <3>2. ~Executed(x)'
      BY <1>1 DEF WithdrawSubmit, Executed, NotSubmitted
    <3>3. \A y \in Xfers \ {x} : pendingWithdraws'[y] = pendingWithdraws[y]
      BY <1>1 DEF WithdrawSubmit
    <3> QED
      BY <3>1, <3>2, <3>3 DEF NothingExecuted, Executed, Payout
  <2>2. AllSubmitted' = AllSubmitted \cup {x}
    BY <1>1 DEF WithdrawSubmit, AllSubmitted, Submitted, NotSubmitted
  <2>3. IsFiniteSet(AllSubmitted')
    BY <2>2, FS_AddElement DEF Ledger
  <2> QED
    BY <1>1, <2>1, <2>3, LedgerUntouched DEF WithdrawSubmit
<1>2. ASSUME NEW a \in Accounts, WithdrawApprove(a, x) \/ WithdrawCancel(a, x) \/ WithdrawUncancel(a, x)
      PROVE  Ledger'
  <2>1. NothingExecuted /\ AllSubmitted' = AllSubmitted
    BY <1>2 DEF WithdrawApprove, WithdrawCancel, WithdrawUncancel, NothingExecuted, AllSubmitted,
                Submitted, Executed, Payout, Withdrawal
  <2> QED
    BY <1>2, <2>1, LedgerUntouched
    DEF WithdrawApprove, WithdrawCancel, WithdrawUncancel, valueVars, Ledger
<1>3. ASSUME NEW n \in AdminDecimals, AdminFixPendingDecimals(x, n) PROVE Ledger'
  <2>1. \A y \in Xfers \ {x} : pendingWithdraws'[y] = pendingWithdraws[y]
    BY <1>3 DEF AdminFixPendingDecimals
  <2>2. ~Executed(x) /\ ~Executed(x)' /\ Submitted(x) /\ Submitted(x)'
    BY <1>3 DEF AdminFixPendingDecimals, MayFix, Executed, Submitted, Withdrawal
  <2>3. NothingExecuted /\ AllSubmitted' = AllSubmitted
    BY <2>1, <2>2 DEF NothingExecuted, AllSubmitted, Executed, Payout, Submitted
  <2> QED
    BY <1>3, <2>3, LedgerUntouched DEF AdminFixPendingDecimals, valueVars, Ledger
<1> QED
  BY <1>1, <1>2, <1>3, ExecuteKeepsLedger DEF Withdraw

LEMMA StepLedger == IInv /\ Ledger /\ [Next]_vars => Ledger'
<1> SUFFICES ASSUME IInv, Ledger, [Next]_vars PROVE Ledger'
  OBVIOUS
<1>1. ASSUME UNCHANGED <<locked, supply, depositVars, withdrawVars>> PROVE Ledger'
  BY <1>1, SameWithdrawals, LedgerUntouched DEF Ledger
<1>2. ASSUME NEW t \in Tokens,
             \/ \E amount \in Recoveries : RecoverAsset(t, amount)
             \/ \E amount \in Gifts : Gift(t, amount)
      PROVE  Ledger'
  BY <1>1, <1>2 DEF RecoverAsset, Gift
<1> QED
  BY <1>1, <1>2, DepositKeepsLedger, WithdrawKeepsLedger DEF Next, vars, valueVars

LEMMA LedgerHolds == Spec => []Ledger
  BY InitLedger, StepLedger, Invariance, PTL DEF Spec

\* Of every token: what is outside the bridge's books is what was there at deployment
\* less every recorded deposit plus every payout, through any retyping of the token and
\* any correction of pending decimals.
THEOREM CirculationIsConserved == Spec => []CirculationConserved
<1>1. Ledger => CirculationConserved
  BY DEF Ledger
<1> QED
  BY <1>1, LedgerHolds, PTL
(***************************************************************************)
(* What the contract owes                                                  *)
(***************************************************************************)
Unclaimed == {x \in Xfers : Submitted(x) /\ ~Approved(x)}

\* The tip of x is all that may come or go.
TipsBut(x) ==
  /\ Unclaimed' \ {x} = Unclaimed \ {x}
  /\ \A y \in Xfers \ {x} : pendingWithdraws'[y].operatorFunds = pendingWithdraws[y].operatorFunds

LEMMA TipsChange ==
  ASSUME IInv, IInv', IsFiniteSet(AllSubmitted), NEW x \in Xfers, TipsBut(x)
  PROVE  /\ EscrowedTips \in Nat /\ EscrowedTips' \in Nat
         /\ EscrowedTips' + (IF x \in Unclaimed THEN pendingWithdraws[x].operatorFunds ELSE 0)
              = EscrowedTips + (IF x \in Unclaimed' THEN pendingWithdraws'[x].operatorFunds ELSE 0)
<1> DEFINE f == [y \in Xfers |-> pendingWithdraws[y].operatorFunds]
           g == [y \in Xfers |-> pendingWithdraws'[y].operatorFunds]
           S == Unclaimed
           T == Unclaimed'
<1>1. IsFiniteSet(S)
  BY FS_Subset DEF Unclaimed, AllSubmitted
<1>2. /\ AllNat(f, S) /\ AllNat(g, T) /\ f[x] = pendingWithdraws[x].operatorFunds
      /\ g[x] = pendingWithdraws'[x].operatorFunds
  BY DEF AllNat, Unclaimed, IInv, WithdrawInv, WithdrawTypeOK, Withdrawal
<1>3. S \ {x} = T \ {x} /\ \A y \in S \ {x} : f[y] = g[y]
  BY DEF TipsBut, Unclaimed
<1>4. EscrowedTips = SumFunctionOnSet(f, S) /\ EscrowedTips' = SumFunctionOnSet(g, T)
  BY DEF EscrowedTips, Unclaimed, Submitted, Approved
<1> HIDE DEF f, g, S, T
<1>5. /\ SumFunctionOnSet(f, S) \in Nat /\ SumFunctionOnSet(g, T) \in Nat
      /\ SumFunctionOnSet(g, T) + (IF x \in S THEN f[x] ELSE 0) =
           SumFunctionOnSet(f, S) + (IF x \in T THEN g[x] ELSE 0)
  BY <1>1, <1>2, <1>3, SumChange
<1> QED
  BY <1>2, <1>4, <1>5 DEF S, T

LEMMA TipsUntouched ==
  ASSUME UNCHANGED withdrawVars
  PROVE  EscrowedTips' = EscrowedTips
  BY DEF withdrawVars, EscrowedTips, Submitted, Approved

LEMMA TipsAreNat ==
  ASSUME IInv, IsFiniteSet(AllSubmitted)
  PROVE  EscrowedTips \in Nat
<1> DEFINE f == [y \in Xfers |-> pendingWithdraws[y].operatorFunds]
<1>1. IsFiniteSet(Unclaimed)
  BY FS_Subset DEF Unclaimed, AllSubmitted
<1>2. AllNat(f, Unclaimed)
  BY DEF AllNat, Unclaimed, IInv, WithdrawInv, WithdrawTypeOK, Withdrawal
<1>3. EscrowedTips = SumFunctionOnSet(f, Unclaimed)
  BY DEF EscrowedTips, Unclaimed
<1> HIDE DEF f
<1> QED
  BY <1>1, <1>2, <1>3, SumNat

Covered(t) == holdings[t] >= Owed(t)

\* Balances and promises that move alike, while no tip does.
LEMMA CoverMoves ==
  ASSUME IInv, IInv', IsFiniteSet(AllSubmitted), EscrowedTips' = EscrowedTips,
         NEW t \in Tokens, Covered(t), holdings'[t] - holdings[t] >= locked'[t] - locked[t]
  PROVE  Covered(t)'
<1>1. EscrowedTips \in Nat
  BY TipsAreNat
<1>2. /\ holdings[t] \in Nat /\ holdings'[t] \in Nat
      /\ locked[t] \in Nat /\ locked'[t] \in Nat
  BY DEF IInv, ValueTypeOK
<1> QED
  BY <1>1, <1>2 DEF Covered, Owed

\* A deposit promises what it brings, and a payout takes from both.
LEMMA DepositKeepsCover ==
  ASSUME IInv, IInv', Ledger, NEW u \in Tokens, Deposit(u), NEW t \in Tokens, Covered(t)
  PROVE  Covered(t)'
<1> SUFFICES ASSUME NEW a \in Accounts, NEW c \in Chains, NEW amount \in DepositAmounts,
                    NEW holds \in BOOLEAN,
                    \/ DepositLock(a, u, c, amount, holds)
                    \/ DepositCw20MintableBurn(a, u, c, amount, holds)
             PROVE  Covered(t)'
  BY DEF Deposit, DepositNative, DepositCw20Lock
<1> DEFINE fee == CalculateFee(amount, EffectiveFeeBps(a, holds))
           net == amount - fee
<1>1. net \in Int
  BY FeeIsNat, BridgeAssumption DEF IInv
<1>2. UNCHANGED withdrawVars /\ (KeepLocked(u, net, fee) \/ UNCHANGED <<locked, holdings>>)
  BY DEF DepositLock, DepositCw20MintableBurn
<1> HIDE DEF net, fee
<1>3. holdings'[t] - holdings[t] >= locked'[t] - locked[t]
  BY <1>1, <1>2 DEF KeepLocked, IInv, ValueTypeOK
<1> QED
  BY <1>2, <1>3, CoverMoves, TipsUntouched DEF Ledger

\* A tip is held when it comes in and leaves with its escrow.
LEMMA WithdrawKeepsCover ==
  ASSUME IInv, IInv', Ledger, NEW x \in Xfers, Withdraw(x), NEW t \in Tokens, Covered(t)
  PROVE  Covered(t)'
<1> USE DEF Unclaimed, Submitted, Approved, IInv, WithdrawInv, WithdrawTypeOK
<1>1. TipsBut(x)
  <2>1. \A y \in Xfers \ {x} : pendingWithdraws'[y] = pendingWithdraws[y]
    BY DEF Withdraw, WithdrawSubmit, WithdrawApprove, WithdrawCancel, WithdrawUncancel,
           WithdrawExecuteUnlock, WithdrawExecuteMint, Execute, AdminFixPendingDecimals
  <2> QED
    BY <2>1 DEF TipsBut
<1>2. /\ EscrowedTips \in Nat /\ EscrowedTips' \in Nat
      /\ EscrowedTips' + (IF x \in Unclaimed THEN pendingWithdraws[x].operatorFunds ELSE 0)
           = EscrowedTips + (IF x \in Unclaimed' THEN pendingWithdraws'[x].operatorFunds ELSE 0)
  BY <1>1, TipsChange DEF Ledger
<1>3. /\ holdings \in [Tokens -> Nat] /\ holdings' \in [Tokens -> Nat]
      /\ locked \in [Tokens -> Nat] /\ locked' \in [Tokens -> Nat]
      /\ pendingWithdraws[x].operatorFunds \in Nat /\ pendingWithdraws'[x].operatorFunds \in Nat
      /\ GasDenom \in Tokens
  BY BridgeAssumption DEF Withdrawal, ValueTypeOK, Tokens
<1>4. ASSUME NEW tip \in Tips, WithdrawSubmit(x, tip) PROVE Covered(t)'
  <2>1. x \notin Unclaimed /\ tip \in Nat
    BY <1>4, BridgeAssumption DEF WithdrawSubmit
  <2>2. pendingWithdraws'[x].operatorFunds = tip
    BY <1>4 DEF WithdrawSubmit, NotSubmitted
  <2>3. holdings' = [holdings EXCEPT ![GasDenom] = @ + tip] /\ locked' = locked
    BY <1>4 DEF WithdrawSubmit
  <2> HIDE DEF Unclaimed, Submitted, Approved, IInv, WithdrawInv, WithdrawTypeOK
  <2>4. EscrowedTips' <= EscrowedTips + tip
    BY <1>2, <2>1, <2>2
  <2>5. CASE t = GasDenom
    BY <1>2, <1>3, <2>1, <2>3, <2>4, <2>5 DEF Covered, Owed
  <2>6. CASE t # GasDenom
    BY <1>3, <2>3, <2>6 DEF Covered, Owed
  <2> QED
    BY <2>5, <2>6
<1>5. ASSUME NEW a \in Accounts, WithdrawApprove(a, x) PROVE Covered(t)'
  <2>1. x \in Unclaimed /\ x \notin Unclaimed'
    <3>1. pendingWithdraws'[x].approved
      BY <1>5 DEF WithdrawApprove, Withdrawal
    <3> QED
      BY <1>5, <3>1 DEF WithdrawApprove, CanApprove
  <2>2. /\ holdings' = [holdings EXCEPT ![GasDenom] = @ - pendingWithdraws[x].operatorFunds]
        /\ locked' = locked
    BY <1>5 DEF WithdrawApprove
  <2> HIDE DEF Unclaimed, Submitted, Approved, IInv, WithdrawInv, WithdrawTypeOK
  <2> QED
    BY <1>2, <1>3, <2>1, <2>2 DEF Covered, Owed
<1>6. ASSUME (x \in Unclaimed' <=> x \in Unclaimed),
             pendingWithdraws'[x].operatorFunds = pendingWithdraws[x].operatorFunds,
             holdings'[t] - holdings[t] >= locked'[t] - locked[t]
      PROVE  Covered(t)'
  <2> HIDE DEF Unclaimed, Submitted, Approved, IInv, WithdrawInv, WithdrawTypeOK
  <2>1. EscrowedTips' = EscrowedTips
    BY <1>2, <1>3, <1>6
  <2> QED
    BY <1>6, <2>1, CoverMoves DEF Ledger
<1>7. ASSUME NEW a \in Accounts, WithdrawCancel(a, x) \/ WithdrawUncancel(a, x) PROVE Covered(t)'
  <2>1. /\ x \in Unclaimed' <=> x \in Unclaimed
        /\ pendingWithdraws'[x].operatorFunds = pendingWithdraws[x].operatorFunds
    BY <1>7 DEF WithdrawCancel, WithdrawUncancel, Withdrawal
  <2>2. holdings'[t] - holdings[t] >= locked'[t] - locked[t]
    BY <1>3, <1>7 DEF WithdrawCancel, WithdrawUncancel, valueVars
  <2> QED
    BY <1>6, <2>1, <2>2
<1>8. ASSUME WithdrawExecuteUnlock(x) \/ WithdrawExecuteMint(x) PROVE Covered(t)'
  <2>1. PICK type \in TokenTypes : Execute(x, type)
    BY <1>8 DEF WithdrawExecuteUnlock, WithdrawExecuteMint, TokenTypes
  <2>2. /\ x \in Unclaimed' <=> x \in Unclaimed
        /\ pendingWithdraws'[x].operatorFunds = pendingWithdraws[x].operatorFunds
    BY <2>1 DEF Execute, Withdrawal
  <2>3. Payout(x) \in Nat
    BY <2>1, PayoutIsNat DEF Execute, ReadyToExecute
  <2>4. PayFromLocked(x.token, Payout(x)) \/ UNCHANGED <<locked, holdings>>
    BY <1>8 DEF WithdrawExecuteUnlock, WithdrawExecuteMint
  <2>5. holdings'[t] - holdings[t] >= locked'[t] - locked[t]
    BY <1>3, <2>3, <2>4 DEF PayFromLocked
  <2> QED
    BY <1>6, <2>2, <2>5
<1>9. ASSUME NEW n \in AdminDecimals, AdminFixPendingDecimals(x, n) PROVE Covered(t)'
  <2>1. /\ x \in Unclaimed' <=> x \in Unclaimed
        /\ pendingWithdraws'[x].operatorFunds = pendingWithdraws[x].operatorFunds
    BY <1>9 DEF AdminFixPendingDecimals, Withdrawal
  <2>2. holdings'[t] - holdings[t] >= locked'[t] - locked[t]
    BY <1>3, <1>9 DEF AdminFixPendingDecimals, valueVars
  <2> QED
    BY <1>6, <2>1, <2>2
<1> QED
  BY <1>4, <1>5, <1>7, <1>8, <1>9 DEF Withdraw

LEMMA StepKeepsCover ==
  ASSUME IInv, IInv', Ledger, [Next]_vars, NEW t \in Tokens, Covered(t),
         ~\E amount \in Recoveries : RecoverAsset(t, amount)
  PROVE  Covered(t)'
<1>1. holdings \in [Tokens -> Nat] /\ locked \in [Tokens -> Nat]
  BY DEF IInv, ValueTypeOK
<1>2. ASSUME UNCHANGED <<withdrawVars, valueVars>> PROVE Covered(t)'
  BY <1>2, TipsUntouched DEF Covered, Owed, valueVars
<1>3. ASSUME NEW u \in Tokens, NEW amount \in Gifts, Gift(u, amount) PROVE Covered(t)'
  <2>1. amount \in Nat
    BY BridgeAssumption
  <2>2. holdings'[t] - holdings[t] >= locked'[t] - locked[t]
    BY <1>1, <1>3, <2>1 DEF Gift
  <2> QED
    BY <1>3, <2>2, CoverMoves, TipsUntouched DEF Gift, Ledger
<1>4. ASSUME NEW u \in Tokens, NEW amount \in Recoveries, RecoverAsset(u, amount) PROVE Covered(t)'
  <2>1. t # u
    BY <1>4
  <2>2. holdings'[t] - holdings[t] >= locked'[t] - locked[t]
    BY <1>1, <1>4, <2>1 DEF RecoverAsset
  <2> QED
    BY <1>4, <2>2, CoverMoves, TipsUntouched DEF RecoverAsset, Ledger
<1> QED
  BY <1>2, <1>3, <1>4, DepositKeepsCover, WithdrawKeepsCover DEF Next, vars

\* What LOCKED_BALANCES and the escrowed tips promise stays held by the contract: no
\* deposit, fee, tip, payout or retyping uncovers it, only the admin's recover_asset.
THEOREM PromisesStayCovered == Spec => OnlyRecoveryUncovers
<1>1. IInv /\ IInv' /\ Ledger /\ [Next]_vars =>
        [\A t \in Tokens : holdings[t] >= Owed(t) =>
           \/ holdings'[t] >= Owed(t)'
           \/ \E amount \in Recoveries : RecoverAsset(t, amount)]_vars
  BY StepKeepsCover DEF Covered
<1> QED
  BY <1>1, Invariance, LedgerHolds, PTL DEF Spec, OnlyRecoveryUncovers
=============================================================================
