---------------------------- MODULE TerraRegistry ----------------------------
(***************************************************************************)
(* execute/config.rs of the Terra Classic bridge: the chains, tokens and   *)
(* token mappings the contract knows, and the withdrawal rate limits.      *)
(* CosmWasm runs one message at a time and undoes a message that fails, so *)
(* a call that would fail is an action that is not enabled.                *)
(***************************************************************************)
EXTENDS Integers

CONSTANTS
  Chains, Identifiers,     \* chain ids and their human-readable names
  Natives, Cw20s,          \* denoms and CW20 contracts that may be listed
  SrcEncodings,            \* token bytes an incoming mapping may name; a local token
                           \* stands for its own encode_token_address
  DestTokens,              \* token bytes of the remote chains
  NoIdentifier, NoChain, NoToken, NoDestToken, NoMapping, NoLimit,
  Decimals,                \* decimals in use
  AdminDecimals,           \* decimals the admin may state
  Limits,                  \* explicit rate limits the admin may set
  CodeId,                  \* [CW20 contract -> its code id]
  CodeIdLists,             \* lists of allowed code ids the admin may set
  RATE_LIMIT_PERIOD,
  DEFAULT_RATE_LIMIT,      \* for a token whose supply reads as zero
  PERIOD_DIVISOR,          \* supply / this: period limit of an unconfigured token
  MAX_BRIDGE_DIVISOR,      \* supply / this: limit stored when a token is added
  AdminOps,                \* bound: the administrative operations exercised
  MaxTime                  \* bound: the last block time

Tokens == Natives \cup Cw20s

VARIABLES
  now,              \* env.block.time in seconds
  chains,           \* CHAINS: [chain -> its identifier and whether it is enabled]
  chainByIdentifier,
  tokens,           \* TOKENS: [token -> its configuration]
  allowedCodeIds,
  destMappings,     \* TOKEN_DEST_MAPPINGS
  destMappingOwner, \* DEST_MAPPING_OWNER: the token that claims a destination
  srcMappings,      \* TOKEN_SRC_MAPPINGS
  srcMappingOwner,  \* SRC_MAPPING_OWNER: the encoding that claims a local token
  rateLimits,
  rateWindows

chainVars    == <<chains, chainByIdentifier>>
tokenVars    == <<tokens, allowedCodeIds>>
mappingVars  == <<destMappings, destMappingOwner, srcMappings, srcMappingOwner>>
registryVars == <<chainVars, tokenVars, mappingVars, rateLimits, rateWindows>>

TokenTypes  == {"LockUnlock", "MintBurn"}
ChainConfig == [identifier : Identifiers \cup {NoIdentifier}, enabled : BOOLEAN]
TokenConfig == [listed : BOOLEAN, type : TokenTypes, decimals : Decimals, enabled : BOOLEAN]
SrcMapping  == [local : Tokens, srcDecimals : Decimals]
RateLimit   == [maxPerTransaction : Nat, maxPerPeriod : Nat]
RateWindow  == [start : Nat, used : Nat]

ASSUME RegistryAssumption ==
  /\ Tokens \subseteq SrcEncodings
  /\ NoIdentifier \notin Identifiers /\ NoChain \notin Chains /\ NoToken \notin Tokens
  /\ NoDestToken \notin DestTokens /\ NoMapping \notin SrcEncodings \cup SrcMapping
  /\ AdminDecimals \subseteq Decimals /\ Decimals \subseteq Nat
  /\ Limits \subseteq RateLimit /\ {} \in CodeIdLists
  /\ MAX_BRIDGE_DIVISOR \in Nat \ {0} /\ MaxTime \in Nat

NotRegistered == [identifier |-> NoIdentifier, enabled |-> FALSE]
NoWindow      == [start |-> 0, used |-> 0]   \* no block has time zero

AdminMay(op) == op \in AdminOps

Registered(c)   == chains[c].identifier # NoIdentifier
ChainEnabled(c) == Registered(c) /\ chains[c].enabled
TokenEnabled(t) == tokens[t].listed /\ tokens[t].enabled

Tick == now < MaxTime /\ now' = now + 1

(***************************************************************************)
(* Chains                                                                  *)
(***************************************************************************)
\* Plausible defect: the identifier is not looked up before the chain is added.
RegisterChainById(c, i) ==
  /\ AdminMay("registerChain")
  /\ ~Registered(c)
  /\ chains' = [chains EXCEPT ![c] = [identifier |-> i, enabled |-> TRUE]]
  /\ chainByIdentifier' = [chainByIdentifier EXCEPT ![i] = c]
  /\ UNCHANGED <<tokenVars, mappingVars, rateLimits, rateWindows>>

RegisterChain(c, i) ==
  /\ AdminMay("registerChain")
  /\ chainByIdentifier[i] = NoChain
  /\ ~Registered(c)
  /\ chains' = [chains EXCEPT ![c] = [identifier |-> i, enabled |-> TRUE]]
  /\ chainByIdentifier' = [chainByIdentifier EXCEPT ![i] = c]
  /\ UNCHANGED <<tokenVars, mappingVars, rateLimits, rateWindows>>

\* The token mappings of the chain stay.
UnregisterChain(c) ==
  /\ AdminMay("unregisterChain")
  /\ Registered(c)
  /\ chains' = [chains EXCEPT ![c] = NotRegistered]
  /\ chainByIdentifier' = [chainByIdentifier EXCEPT ![chains[c].identifier] = NoChain]
  /\ UNCHANGED <<tokenVars, mappingVars, rateLimits, rateWindows>>

UpdateChain(c, on) ==
  /\ AdminMay("updateChain")
  /\ Registered(c)
  /\ chains' = [chains EXCEPT ![c].enabled = on]
  /\ UNCHANGED <<chainByIdentifier, tokenVars, mappingVars, rateLimits, rateWindows>>

(***************************************************************************)
(* Tokens and the rate limit of withdrawals                                *)
(***************************************************************************)
\* Without the cosmwasm_1_2 feature, which no build enables, a denom's supply reads as zero.
QuerySupply(t, supply) == IF t \in Natives THEN 0 ELSE supply[t]

CodeAllowed(t) == t \in Cw20s /\ allowedCodeIds # {} => CodeId[t] \in allowedCodeIds

\* A token may be added again, which replaces its configuration.  The first addition
\* also stores a rate limit, unless the supply reads as zero.
AddToken(t, type, decimals, supply) ==
  LET s == QuerySupply(t, supply)
  IN  /\ AdminMay("addToken")
      /\ CodeAllowed(t)
      /\ tokens' = [tokens EXCEPT ![t] =
           [listed |-> TRUE, type |-> type, decimals |-> decimals, enabled |-> TRUE]]
      /\ rateLimits' = IF rateLimits[t] = NoLimit /\ s # 0
                       THEN [rateLimits EXCEPT ![t] =
                              [maxPerTransaction |-> s \div MAX_BRIDGE_DIVISOR,
                               maxPerPeriod      |-> s \div MAX_BRIDGE_DIVISOR]]
                       ELSE rateLimits
      /\ UNCHANGED <<chainVars, allowedCodeIds, mappingVars, rateWindows>>

UpdateToken(t, type, on) ==
  /\ AdminMay("updateToken")
  /\ tokens[t].listed
  /\ tokens' = [tokens EXCEPT ![t].type = type, ![t].enabled = on]
  /\ UNCHANGED <<chainVars, allowedCodeIds, mappingVars, rateLimits, rateWindows>>

SetAllowedCw20CodeIds(ids) ==
  /\ AdminMay("setAllowedCw20CodeIds")
  /\ allowedCodeIds' = ids
  /\ UNCHANGED <<chainVars, tokens, mappingVars, rateLimits, rateWindows>>

SetRateLimit(t, limit) ==
  /\ AdminMay("setRateLimit")
  /\ rateLimits' = [rateLimits EXCEPT ![t] = limit]
  /\ UNCHANGED <<chainVars, tokenVars, mappingVars, rateWindows>>

\* resolve_effective_rate_limits: an unconfigured token is limited by its supply.
EffectiveLimit(t, supply) ==
  LET s == QuerySupply(t, supply)
  IN  IF rateLimits[t] # NoLimit THEN rateLimits[t]
      ELSE [maxPerTransaction |-> 0,
            maxPerPeriod |-> IF s = 0 THEN DEFAULT_RATE_LIMIT ELSE s \div PERIOD_DIVISOR]

\* A limit of zero is no limit, an explicit one and a quotient that rounds to zero alike.
CheckAndUpdateRateLimit(t, amount, limit) ==
  LET w       == rateWindows[t]
      expired == w = NoWindow \/ now >= w.start + RATE_LIMIT_PERIOD
      used    == IF expired THEN 0 ELSE w.used
  IN  /\ limit.maxPerTransaction = 0 \/ amount <= limit.maxPerTransaction
      /\ \/ limit.maxPerPeriod = 0 /\ UNCHANGED rateWindows
         \/ /\ limit.maxPerPeriod # 0
            /\ used + amount <= limit.maxPerPeriod
            /\ rateWindows' = [rateWindows EXCEPT ![t] =
                 [start |-> IF expired THEN now ELSE w.start, used |-> used + amount]]

(***************************************************************************)
(* Token mappings: one to one per chain in both directions, kept by a      *)
(* reverse table that names the owner of each claimed target.              *)
(***************************************************************************)
\* Plausible defect: the claim on the former destination is not released.
ReleasesNothing(t, c, d) == [destMappingOwner EXCEPT ![c][d] = t]

ClaimDestination(t, c, d) ==
  LET old == destMappings[t][c]
  IN  IF old \notin {d, NoDestToken}
      THEN [destMappingOwner EXCEPT ![c][old] = NoToken, ![c][d] = t]
      ELSE [destMappingOwner EXCEPT ![c][d] = t]

SetTokenDestination(t, c, d) ==
  /\ AdminMay("setTokenDestination")
  /\ tokens[t].listed
  /\ Registered(c)
  /\ destMappingOwner[c][d] \in {t, NoToken}
  /\ destMappingOwner' = ClaimDestination(t, c, d)
  /\ destMappings' = [destMappings EXCEPT ![t][c] = d]
  /\ UNCHANGED <<chainVars, tokenVars, srcMappings, srcMappingOwner, rateLimits, rateWindows>>

MayClaimLocal(c, s, t) == srcMappingOwner[c][t] \in {s, NoMapping}

ReleaseLocal(c, s) ==
  IF srcMappings[c][s] = NoMapping THEN srcMappingOwner
  ELSE [srcMappingOwner EXCEPT ![c][srcMappings[c][s].local] = NoMapping]

SetIncomingTokenMapping(c, s, t, decimals) ==
  /\ AdminMay("setIncomingTokenMapping")
  /\ Registered(c)
  /\ tokens[t].listed
  /\ MayClaimLocal(c, s, t)
  /\ srcMappingOwner' = [ReleaseLocal(c, s) EXCEPT ![c][t] = s]
  /\ srcMappings' = [srcMappings EXCEPT ![c][s] = [local |-> t, srcDecimals |-> decimals]]
  /\ UNCHANGED <<chainVars, tokenVars, destMappings, destMappingOwner, rateLimits, rateWindows>>

\* Neither the chain nor the mapping need exist.
RemoveIncomingTokenMapping(c, s) ==
  /\ AdminMay("removeIncomingTokenMapping")
  /\ srcMappingOwner' = ReleaseLocal(c, s)
  /\ srcMappings' = [srcMappings EXCEPT ![c][s] = NoMapping]
  /\ UNCHANGED <<chainVars, tokenVars, destMappings, destMappingOwner, rateLimits, rateWindows>>

RegistryAdmin(supply) ==
  \/ \E c \in Chains :
       \/ \E i \in Identifiers : RegisterChain(c, i)
       \/ UnregisterChain(c)
       \/ \E on \in BOOLEAN : UpdateChain(c, on)
       \/ \E t \in Tokens, d \in DestTokens : SetTokenDestination(t, c, d)
       \/ \E s \in SrcEncodings :
            \/ \E t \in Tokens, n \in AdminDecimals : SetIncomingTokenMapping(c, s, t, n)
            \/ RemoveIncomingTokenMapping(c, s)
  \/ \E t \in Tokens :
       \/ \E type \in TokenTypes, n \in AdminDecimals : AddToken(t, type, n, supply)
       \/ \E type \in TokenTypes, on \in BOOLEAN : UpdateToken(t, type, on)
       \/ \E limit \in Limits : SetRateLimit(t, limit)
  \/ \E ids \in CodeIdLists : SetAllowedCw20CodeIds(ids)

RegistryTypeOK ==
  /\ now \in Nat
  /\ chains \in [Chains -> ChainConfig]
  /\ chainByIdentifier \in [Identifiers -> Chains \cup {NoChain}]
  /\ tokens \in [Tokens -> TokenConfig]
  /\ allowedCodeIds \in CodeIdLists
  /\ destMappings \in [Tokens -> [Chains -> DestTokens \cup {NoDestToken}]]
  /\ destMappingOwner \in [Chains -> [DestTokens -> Tokens \cup {NoToken}]]
  /\ srcMappings \in [Chains -> [SrcEncodings -> SrcMapping \cup {NoMapping}]]
  /\ srcMappingOwner \in [Chains -> [Tokens -> SrcEncodings \cup {NoMapping}]]
  /\ rateLimits \in [Tokens -> RateLimit \cup {NoLimit}]
  /\ rateWindows \in [Tokens -> RateWindow]
==============================================================================
