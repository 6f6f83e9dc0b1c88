---------------------------- MODULE TokenRegistry ----------------------------
(***************************************************************************)
(* TokenRegistry.sol, with the part of ChainRegistry.sol it reads: which   *)
(* chains are registered, which tokens are registered and of which type,   *)
(* the token's destination on every chain (one-to-one, kept by a reverse   *)
(* lookup), its decimals on every source chain, and the withdraw rate      *)
(* limit the bridge charges on execution.                                  *)
(***************************************************************************)
EXTENDS EvmChain, FiniteSets

CONSTANTS
  DestTokens,       \* token addresses on remote chains
  NoDestToken,      \* bytes32(0)
  NoToken,          \* address(0)
  Decimals,         \* decimals an incoming mapping may carry
  NoMapping,        \* a TokenSrcMapping that is not enabled
  RateLimits,       \* configurations the owner may choose
  RATE_LIMIT_WINDOW \* 24 hours, in ticks

ASSUME RegistryAssumption ==
  /\ RATE_LIMIT_WINDOW \in Nat \ {0}
  /\ NoDestToken \notin DestTokens /\ NoToken \notin Tokens /\ NoMapping \notin Decimals
  /\ RateLimits \subseteq [minPerTransaction : Nat, maxPerTransaction : Nat, maxPerPeriod : Nat]

VARIABLES
  registeredChains,  \* ChainRegistry.registeredChains
  tokenRegistered,
  tokenTypes,
  tokenDestMappings, \* [token -> [chain -> destToken]]
  tokenDestChains,   \* [token -> chains with a destination]
  destTokenOwner,    \* [chain -> [destToken -> token]]
  tokenSrcMappings,  \* [chain -> [token -> decimals]]
  rateLimitConfigs,
  withdrawWindows,   \* [token -> [windowStart, used]]
  rateLimitBridge    \* TRUE: the bridge is set, FALSE: address(0)

chainVars   == <<registeredChains>>
mappingVars == <<tokenRegistered, tokenTypes, tokenDestMappings, tokenDestChains,
                 destTokenOwner, tokenSrcMappings>>
limitVars   == <<rateLimitConfigs, withdrawWindows, rateLimitBridge>>
registryVars == <<registeredChains, tokenRegistered, tokenTypes, tokenDestMappings,
                  tokenDestChains, destTokenOwner, tokenSrcMappings,
                  rateLimitConfigs, withdrawWindows, rateLimitBridge>>

TokenTypes == {"LockUnlock", "MintBurn"}   \* the first is the enum's zero value
NoLimits   == [minPerTransaction |-> 0, maxPerTransaction |-> 0, maxPerPeriod |-> 0]
NoWindow   == [windowStart |-> 0, used |-> 0]

(***************************************************************************)
(* Views                                                                   *)
(***************************************************************************)
IsChainRegistered(c) == c \in registeredChains
IsTokenRegistered(t) == t \in tokenRegistered
GetTokenType(t)      == tokenTypes[t]
GetDestToken(t, c)   == tokenDestMappings[t][c]
HasSrcMapping(c, t)  == tokenSrcMappings[c][t] # NoMapping
GetSrcTokenDecimals(c, t) == tokenSrcMappings[c][t]

RegistryInit ==
  /\ registeredChains = {}
  /\ tokenRegistered = {}
  /\ tokenTypes = [t \in Tokens |-> "LockUnlock"]
  /\ tokenDestMappings = [t \in Tokens |-> [c \in Chains |-> NoDestToken]]
  /\ tokenDestChains = [t \in Tokens |-> {}]
  /\ destTokenOwner = [c \in Chains |-> [d \in DestTokens |-> NoToken]]
  /\ tokenSrcMappings = [c \in Chains |-> [t \in Tokens |-> NoMapping]]
  /\ rateLimitConfigs = [t \in Tokens |-> NoLimits]
  /\ withdrawWindows = [t \in Tokens |-> NoWindow]
  /\ rateLimitBridge = FALSE

(***************************************************************************)
(* ChainRegistry                                                           *)
(***************************************************************************)
RegisterChain(c) ==
  /\ OwnerMay("registerChain")
  /\ c \notin registeredChains
  /\ registeredChains' = registeredChains \cup {c}
  /\ UNCHANGED <<mappingVars, limitVars>>

UnregisterChain(c) ==
  /\ OwnerMay("unregisterChain")
  /\ c \in registeredChains
  /\ registeredChains' = registeredChains \ {c}
  /\ UNCHANGED <<mappingVars, limitVars>>

(***************************************************************************)
(* Token registration and mappings                                         *)
(***************************************************************************)
\* Limits derived from the total supply; a supply of zero leaves them as they are.
DefaultRateLimits(t, supply) ==
  IF supply = 0 THEN rateLimitConfigs[t]
  ELSE [minPerTransaction |-> supply \div 1000000,
        maxPerTransaction |-> supply \div 10000,
        maxPerPeriod      |-> supply \div 10000]

RegisterToken(t, type, supply) ==
  /\ OwnerMay("registerToken")
  /\ ~IsTokenRegistered(t)
  /\ tokenRegistered' = tokenRegistered \cup {t}
  /\ tokenTypes' = [tokenTypes EXCEPT ![t] = type]
  /\ rateLimitConfigs' = [rateLimitConfigs EXCEPT ![t] = DefaultRateLimits(t, supply)]
  /\ UNCHANGED <<chainVars, tokenDestMappings, tokenDestChains, destTokenOwner,
                 tokenSrcMappings, withdrawWindows, rateLimitBridge>>

\* Plausible defect: the old claim is kept.
ClaimWithoutRelease(t, c, d) == [destTokenOwner EXCEPT ![c][d] = t]

\* The reverse lookup after token t moves its claim on chain c to d.
ClaimDestToken(t, c, d) ==
  LET old == tokenDestMappings[t][c]
  IN  [destTokenOwner EXCEPT ![c] =
         [e \in DestTokens |-> IF e = d THEN t
                               ELSE IF e = old THEN NoToken ELSE @[e]]]

\* Plausible defect: the chain is not listed.
DestChainNotAdded(t, c) == tokenDestChains

AddDestChain(t, c)      == [tokenDestChains EXCEPT ![t] = @ \cup {c}]

SetTokenDestination(t, c, d) ==
  /\ OwnerMay("setTokenDestination")
  /\ IsTokenRegistered(t) /\ IsChainRegistered(c)
  /\ destTokenOwner[c][d] \in {NoToken, t}
  /\ destTokenOwner' = ClaimDestToken(t, c, d)
  /\ tokenDestChains' = AddDestChain(t, c)
  /\ tokenDestMappings' = [tokenDestMappings EXCEPT ![t][c] = d]
  /\ UNCHANGED <<chainVars, tokenRegistered, tokenTypes, tokenSrcMappings, limitVars>>

SetIncomingTokenMapping(c, t, dec) ==
  /\ OwnerMay("setIncomingTokenMapping")
  /\ IsTokenRegistered(t) /\ IsChainRegistered(c)
  /\ tokenSrcMappings' = [tokenSrcMappings EXCEPT ![c][t] = dec]
  /\ UNCHANGED <<chainVars, tokenRegistered, tokenTypes, tokenDestMappings,
                 tokenDestChains, destTokenOwner, limitVars>>

SetTokenType(t, type) ==
  /\ OwnerMay("setTokenType")
  /\ IsTokenRegistered(t)
  /\ tokenTypes' = [tokenTypes EXCEPT ![t] = type]
  /\ UNCHANGED <<chainVars, tokenRegistered, tokenDestMappings, tokenDestChains,
                 destTokenOwner, tokenSrcMappings, limitVars>>

\* Everything but the incoming mappings goes: tokenSrcMappings is not touched.
UnregisterToken(t) ==
  /\ OwnerMay("unregisterToken")
  /\ IsTokenRegistered(t)
  /\ tokenRegistered' = tokenRegistered \ {t}
  /\ tokenTypes' = [tokenTypes EXCEPT ![t] = "LockUnlock"]
  /\ destTokenOwner' =
       [c \in Chains |-> [d \in DestTokens |->
          IF c \in tokenDestChains[t] /\ tokenDestMappings[t][c] = d
          THEN NoToken ELSE destTokenOwner[c][d]]]
  /\ tokenDestMappings' =
       [tokenDestMappings EXCEPT ![t] =
          [c \in Chains |-> IF c \in tokenDestChains[t] THEN NoDestToken ELSE @[c]]]
  /\ tokenDestChains' = [tokenDestChains EXCEPT ![t] = {}]
  /\ rateLimitConfigs' = [rateLimitConfigs EXCEPT ![t] = NoLimits]
  /\ withdrawWindows' = [withdrawWindows EXCEPT ![t] = NoWindow]
  /\ UNCHANGED <<chainVars, tokenSrcMappings, rateLimitBridge>>

(***************************************************************************)
(* Withdraw rate limit                                                     *)
(***************************************************************************)
SetRateLimitBridge(on) ==
  /\ OwnerMay("setRateLimitBridge")
  /\ rateLimitBridge' = on
  /\ UNCHANGED <<chainVars, mappingVars, rateLimitConfigs, withdrawWindows>>

SetRateLimit(t, config) ==
  /\ OwnerMay("setRateLimit")
  /\ IsTokenRegistered(t)
  /\ rateLimitConfigs' = [rateLimitConfigs EXCEPT ![t] = config]
  /\ UNCHANGED <<chainVars, mappingVars, withdrawWindows, rateLimitBridge>>

WithinPerTransaction(config, amount) ==
  /\ config.minPerTransaction # 0 => amount >= config.minPerTransaction
  /\ config.maxPerTransaction # 0 => amount <= config.maxPerTransaction

\* Plausible defect: the last tick of the old window still counts.
ExpiresLate(win)   == win.windowStart = 0 \/ now > win.windowStart + RATE_LIMIT_WINDOW

WindowExpired(win) == win.windowStart = 0 \/ now >= win.windowStart + RATE_LIMIT_WINDOW

\* Plausible defect: what the window already released is forgotten.
ChargeForgets(t) ==
  [windowStart |-> IF WindowExpired(withdrawWindows[t]) THEN now
                   ELSE withdrawWindows[t].windowStart, used |-> 0]

\* The window a withdrawal is charged to: the current one, or a fresh one from now on.
ChargedWindow(t) ==
  IF WindowExpired(withdrawWindows[t]) THEN [windowStart |-> now, used |-> 0]
                                       ELSE withdrawWindows[t]

\* Called by the bridge while it executes a withdrawal; a breach reverts the call.
CheckAndUpdateWithdrawRateLimit(t, amount) ==
  LET config == rateLimitConfigs[t]
      win    == ChargedWindow(t)
  IN  IF ~rateLimitBridge THEN UNCHANGED withdrawWindows
      ELSE /\ WithinPerTransaction(config, amount)
           /\ IF config.maxPerPeriod = 0 THEN UNCHANGED withdrawWindows
              ELSE /\ win.used + amount <= config.maxPerPeriod
                   /\ withdrawWindows' =
                        [withdrawWindows EXCEPT ![t] = [win EXCEPT !.used = @ + amount]]

RegistryAdmin(supply) ==
  \/ \E c \in Chains : RegisterChain(c) \/ UnregisterChain(c)
  \/ \E t \in Tokens, type \in TokenTypes : RegisterToken(t, type, supply[t])
  \/ \E t \in Tokens, c \in Chains, d \in DestTokens : SetTokenDestination(t, c, d)
  \/ \E t \in Tokens, c \in Chains, dec \in Decimals : SetIncomingTokenMapping(c, t, dec)
  \/ \E t \in Tokens, type \in TokenTypes : SetTokenType(t, type)
  \/ \E t \in Tokens : UnregisterToken(t)
  \/ \E on \in BOOLEAN : SetRateLimitBridge(on)
  \/ \E t \in Tokens, config \in RateLimits : SetRateLimit(t, config)

RegistryTypeOK ==
  /\ registeredChains \subseteq Chains
  /\ tokenRegistered \subseteq Tokens
  /\ tokenTypes \in [Tokens -> TokenTypes]
  /\ tokenDestMappings \in [Tokens -> [Chains -> DestTokens \cup {NoDestToken}]]
  /\ tokenDestChains \in [Tokens -> SUBSET Chains]
  /\ destTokenOwner \in [Chains -> [DestTokens -> Tokens \cup {NoToken}]]
  /\ tokenSrcMappings \in [Chains -> [Tokens -> Decimals \cup {NoMapping}]]
  /\ rateLimitConfigs \in
       [Tokens -> [minPerTransaction : Nat, maxPerTransaction : Nat, maxPerPeriod : Nat]]
  /\ withdrawWindows \in [Tokens -> [windowStart : Nat, used : Nat]]
  /\ rateLimitBridge \in BOOLEAN
==============================================================================
