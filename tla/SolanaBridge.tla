---------------------------- MODULE SolanaBridge ----------------------------
(***************************************************************************)
(* The Solana bridge program.  State lives in program-derived accounts:    *)
(* one for the bridge, one per chain, mapping, canceler, rate limit and    *)
(* used nonce, and one per withdrawal, which execution closes and replaces *)
(* by an ExecutedHash account.  An account that does not exist is a No...  *)
(* value, or is missing from a set.  The bridge account's own lamports pay *)
(* for its rent, native withdrawals, tips and native fees alike.           *)
(***************************************************************************)
EXTENDS Integers, FiniteSets

CONSTANTS
  Chains, ThisChain,
  Mints, BridgeMints,      \* SPL mints, and those whose authority is the bridge
  NATIVE_SOL_TOKEN,
  RemoteTokens,            \* dest_token / src_token: tokens of the other chains
  MintDecimals,            \* [mint -> decimals]
  Xfers,                   \* withdrawals a user may submit
  Accounts, InitialAdmin, InitialOperator,
  NoMapping, NoPending, Keep,
  DepositAmounts, Tips, FeeAmounts, StrayAmounts,
  ConfigCalls, MappingCalls, LimitCalls,   \* parameters of the admin's instructions
  InitialChains, InitialMappings, InitialFeeBps, InitialDelay,
  MinDelay, MaxDelay, MaxFeeBps,           \* 15 s, 86400 s and 100 in the code
  RATE_LIMIT_WINDOW_SECS, DEFAULT_RATE_LIMIT_IF_ZERO_SUPPLY,
  DEFAULT_MIN_DIVISOR, DEFAULT_MAX_DIVISOR,
  U64_MAX,
  MaxDecimals,             \* decimals are bytes
  Rent,                    \* what the bridge account must keep
  InitialLamports, InitialVault, InitialSupply,
  MaxNonce,                \* bound: deposits are made below this nonce
  MaxTime,                 \* bound: the clock stops here
  MaxCalls                 \* bound: the admin's instructions and third parties' transfers

Tokens == Mints \cup {NATIVE_SOL_TOKEN}

MappingKeys == Chains \X RemoteTokens

BridgeConfig ==
  [admin : Accounts, operator : Accounts, feeBps : 0..MaxFeeBps,
   withdrawDelay : MinDelay..MaxDelay, depositNonce : Nat, accruedNativeFees : Nat,
   paused : BOOLEAN]

TokenMapping ==
  [local : Tokens, mode : {"LockUnlock", "MintBurn"}, decimals : 0..MaxDecimals,
   srcDecimals : 0..MaxDecimals, accruedFees : Nat]

RateLimit == [explicit : BOOLEAN, min : Nat, maxTx : Nat, maxPeriod : Nat,
              windowStart : Nat, used : Nat]

PendingWithdraw ==
  [srcDecimals : 0..MaxDecimals, destDecimals : 0..MaxDecimals, operatorGas : Nat,
   approved : BOOLEAN, approvedAt : Nat, cancelled : BOOLEAN]

ASSUME SolanaAssumption ==
  /\ ThisChain \in Chains /\ BridgeMints \subseteq Mints /\ NATIVE_SOL_TOKEN \notin Mints
  /\ InitialAdmin \in Accounts /\ InitialOperator \in Accounts /\ Keep \notin Accounts
  /\ NoPending \notin PendingWithdraw /\ NoMapping \notin TokenMapping
  /\ \A x \in Xfers : /\ x.srcChain \in Chains /\ x.token \in Tokens
                      /\ x.amount \in Nat \ {0} /\ x.nonce \in Nat
  /\ DepositAmounts \subseteq Nat \ {0} /\ FeeAmounts \subseteq Nat \ {0} /\ Tips \subseteq Nat
  /\ StrayAmounts \subseteq Nat
  /\ MinDelay \in Nat /\ MaxDelay \in Nat /\ InitialDelay \in MinDelay..MaxDelay
  /\ MaxFeeBps \in 0..10000 /\ InitialFeeBps \in 0..MaxFeeBps
  /\ Rent \in Nat /\ MaxTime \in Nat /\ MaxDecimals \in Nat
  /\ RATE_LIMIT_WINDOW_SECS \in Nat \ {0} /\ DEFAULT_RATE_LIMIT_IF_ZERO_SUPPLY \in Nat \ {0}

ASSUME CallsAssumption ==
  /\ ConfigCalls \subseteq
       [admin : Accounts \cup {Keep}, operator : Accounts \cup {Keep}, feeBps : Nat \cup {Keep},
        withdrawDelay : Nat \cup {Keep}, paused : BOOLEAN \cup {Keep}]
  /\ MappingCalls \subseteq
       [local : Tokens, mode : {"LockUnlock", "MintBurn"}, decimals : 0..MaxDecimals,
        srcDecimals : 0..MaxDecimals]
  /\ LimitCalls \subseteq [min : Nat, maxTx : Nat, maxPeriod : Nat]

ASSUME DeploymentAssumption ==
  /\ InitialChains \subseteq Chains
  /\ InitialMappings \in [MappingKeys -> TokenMapping \cup {NoMapping}]
  /\ IsFiniteSet({k \in MappingKeys : InitialMappings[k] # NoMapping})
  /\ \A k \in MappingKeys : InitialMappings[k] # NoMapping => InitialMappings[k].accruedFees = 0
  /\ InitialLamports \in Nat /\ InitialLamports >= Rent
  /\ InitialVault \in [Mints -> Nat] /\ InitialSupply \in [Mints -> Nat]

\* Powers of ten are positive: what the provers need of exponentiation.
ASSUME ScaleAssumption == \A n \in 0..MaxDecimals : 10^n \in Nat \ {0}

VARIABLES
  now,               \* unix_timestamp
  bridge,            \* BridgeConfig
  chainEntries,
  tokenMappings,     \* [<<chain, remote token>> -> TokenMapping or NoMapping]
  cancelers,         \* those with an active CancelerEntry
  rateLimits,        \* [token -> WithdrawRateLimit]
  pending,           \* [withdrawal -> PendingWithdraw or NoPending]
  executedHashes, noncesUsed,
  deposits,          \* DepositRecords, with what was paid in
  lamports,          \* of the bridge account
  vault, supply,     \* the bridge's token accounts and the mints' supplies
  vouchedAt, paid,   \* history: the last approval of a withdrawal, and its payout
  strayed,           \* history: what third parties sent to the bridge unasked, or burned
  calls              \* counts the calls MaxCalls bounds

registryVars == <<chainEntries, tokenMappings, cancelers>>
withdrawVars == <<pending, executedHashes, noncesUsed, vouchedAt, paid>>
valueVars    == <<lamports, vault, supply>>
vars == <<now, bridge, registryVars, rateLimits, withdrawVars, deposits, valueVars, strayed, calls>>

\* What init_if_needed creates.
FreshRateLimit == [explicit |-> FALSE, min |-> 0, maxTx |-> 0, maxPeriod |-> 0,
                   windowStart |-> 0, used |-> 0]

NotPaid == [amount |-> 0, at |-> 0]

Key(x) == <<x.srcChain, x.nonce>>

Live(x) == pending[x] # NoPending

(***************************************************************************)
(* initialize(), after which the admin registered chains and tokens        *)
(***************************************************************************)
Init ==
  /\ now = 1
  /\ bridge = [admin |-> InitialAdmin, operator |-> InitialOperator, feeBps |-> InitialFeeBps,
               withdrawDelay |-> InitialDelay, depositNonce |-> 0, accruedNativeFees |-> 0,
               paused |-> FALSE]
  /\ chainEntries = InitialChains
  /\ tokenMappings = InitialMappings
  /\ cancelers = {}
  /\ rateLimits = [t \in Tokens |-> FreshRateLimit]
  /\ pending = [x \in Xfers |-> NoPending]
  /\ executedHashes = {} /\ noncesUsed = {}
  /\ vouchedAt = [x \in Xfers |-> 0] /\ paid = [x \in Xfers |-> NotPaid]
  /\ deposits = {}
  /\ lamports = InitialLamports /\ vault = InitialVault /\ supply = InitialSupply
  /\ strayed = [t \in Tokens |-> 0]
  /\ calls = 0

(***************************************************************************)
(* Deposits.  The fee stays with the bridge, booked for the admin.         *)
(***************************************************************************)
DepositFee(amount) == (amount * bridge.feeBps) \div 10000

MappedOnRegisteredChain(k) == k[1] \in chainEntries /\ tokenMappings[k] # NoMapping

\* The record's nonce is the counter after its increment, its account's seed.
RecordDeposit(k, net, paidIn, accruedFees) ==
  /\ bridge.depositNonce < MaxNonce
  /\ bridge' = [bridge EXCEPT !.depositNonce = @ + 1, !.accruedNativeFees = accruedFees]
  /\ deposits' = deposits \cup {[destChain |-> k[1], token |-> k[2], amount |-> net,
                                 nonce |-> bridge.depositNonce + 1, paidIn |-> paidIn]}

\* Any mapping of the destination chain will do, one of an SPL mint included.
DepositNative(k, amount) ==
  LET fee == DepositFee(amount)
  IN  /\ ~bridge.paused
      /\ MappedOnRegisteredChain(k)
      /\ lamports' = lamports + amount
      /\ RecordDeposit(k, amount - fee, NATIVE_SOL_TOKEN, bridge.accruedNativeFees + fee)
      /\ UNCHANGED <<now, registryVars, rateLimits, withdrawVars, vault, supply>>

\* Plausible defect: a burning deposit leaves no fee behind but books it.
BurnsTheFeeToo(k, amount, fee) ==
  LET t == tokenMappings[k].local
  IN  IF tokenMappings[k].mode = "LockUnlock"
      THEN vault' = [vault EXCEPT ![t] = @ + amount] /\ UNCHANGED supply
      ELSE supply' = [supply EXCEPT ![t] = @ - amount] /\ UNCHANGED vault

TakeSpl(k, amount, fee) ==
  LET t == tokenMappings[k].local
  IN  IF tokenMappings[k].mode = "LockUnlock"
      THEN vault' = [vault EXCEPT ![t] = @ + amount] /\ UNCHANGED supply
      ELSE /\ vault' = [vault EXCEPT ![t] = @ + fee]
           /\ supply' = [supply EXCEPT ![t] = @ - (amount - fee)]

DepositSpl(k, amount) ==
  LET fee == DepositFee(amount)
      t   == tokenMappings[k].local
  IN  /\ ~bridge.paused
      /\ MappedOnRegisteredChain(k)
      /\ t \in Mints
      /\ amount <= supply[t] - vault[t]
      /\ TakeSpl(k, amount, fee)
      /\ tokenMappings' = [tokenMappings EXCEPT ![k].accruedFees = @ + fee]
      /\ RecordDeposit(k, amount - fee, t, bridge.accruedNativeFees)
      /\ UNCHANGED <<now, chainEntries, cancelers, rateLimits, withdrawVars, lamports>>

(***************************************************************************)
(* Withdrawals                                                             *)
(***************************************************************************)
\* Plausible defect: only a pending account of the same hash is looked for.
ForgetsExecuted(x) == ~Live(x)

IsNew(x) == ~Live(x) /\ x \notin executedHashes

\* The decimals are those of the mapping the submitter names.
WithdrawSubmit(x, r, tip) ==
  LET mapping == tokenMappings[<<x.srcChain, r>>]
  IN  /\ ~bridge.paused
      /\ x.srcChain # ThisChain
      /\ MappedOnRegisteredChain(<<x.srcChain, r>>)
      /\ mapping.local = x.token
      /\ IsNew(x)
      /\ lamports' = lamports + tip
      /\ pending' = [pending EXCEPT ![x] =
           [srcDecimals |-> mapping.srcDecimals, destDecimals |-> mapping.decimals,
            operatorGas |-> tip, approved |-> FALSE, approvedAt |-> 0, cancelled |-> FALSE]]
      /\ UNCHANGED <<now, bridge, registryVars, rateLimits, executedHashes, noncesUsed,
                     vouchedAt, paid, deposits, vault, supply>>

\* Plausible defect: the rent may be spent.
IgnoresRent == lamports

Available == IF lamports > Rent THEN lamports - Rent ELSE 0

\* Creating the NonceUsed account fails when a rival of the same source nonce did.
WithdrawApprove(a, x) ==
  LET tip == pending[x].operatorGas
  IN  /\ ~bridge.paused
      /\ a = bridge.operator
      /\ Live(x)
      /\ ~pending[x].approved /\ ~pending[x].cancelled
      /\ Key(x) \notin noncesUsed
      /\ tip <= Available
      /\ lamports' = lamports - tip
      /\ pending' = [pending EXCEPT ![x].approved = TRUE, ![x].approvedAt = now]
      /\ noncesUsed' = noncesUsed \cup {Key(x)}
      /\ vouchedAt' = [vouchedAt EXCEPT ![x] = now]
      /\ UNCHANGED <<now, bridge, registryVars, rateLimits, executedHashes, paid,
                     deposits, vault, supply>>

WindowEnd(x) == pending[x].approvedAt + bridge.withdrawDelay

\* Not gated by the pause.
WithdrawCancel(a, x) ==
  /\ a \in cancelers
  /\ Live(x)
  /\ ~pending[x].cancelled /\ pending[x].approved
  /\ now <= WindowEnd(x)
  /\ pending' = [pending EXCEPT ![x].cancelled = TRUE]
  /\ UNCHANGED <<now, bridge, registryVars, rateLimits, executedHashes, noncesUsed,
                 vouchedAt, paid, deposits, valueVars>>

WithdrawReenable(a, x) ==
  /\ ~bridge.paused
  /\ a \in {bridge.admin, bridge.operator}
  /\ Live(x)
  /\ pending[x].cancelled
  /\ pending' = [pending EXCEPT ![x].cancelled = FALSE, ![x].approved = TRUE,
                                ![x].approvedAt = now]
  /\ vouchedAt' = [vouchedAt EXCEPT ![x] = now]
  /\ UNCHANGED <<now, bridge, registryVars, rateLimits, executedHashes, noncesUsed, paid,
                 deposits, valueVars>>

NormalizeDecimals(amount, src, dest) ==
  IF src > dest THEN amount \div 10^(src - dest) ELSE amount * 10^(dest - src)

Payout(x) == NormalizeDecimals(x.amount, pending[x].srcDecimals, pending[x].destDecimals)

(***************************************************************************)
(* Withdraw rate limits                                                    *)
(***************************************************************************)
ResolveEffectiveLimits(limit, mintSupply) ==
  IF limit.explicit THEN limit
  ELSE IF mintSupply = 0
  THEN [limit EXCEPT !.min = 0, !.maxTx = 0, !.maxPeriod = DEFAULT_RATE_LIMIT_IF_ZERO_SUPPLY]
  ELSE [limit EXCEPT !.min = mintSupply \div DEFAULT_MIN_DIVISOR,
                     !.maxTx = mintSupply \div DEFAULT_MAX_DIVISOR,
                     !.maxPeriod = mintSupply \div DEFAULT_MAX_DIVISOR]

\* A window start of 0 marks an account no payout has used.
WindowIsOver(limit) ==
  limit.windowStart = 0 \/ now >= limit.windowStart + RATE_LIMIT_WINDOW_SECS

\* Plausible defect: the window and its usage restart with every payout.
RestartsAtEveryPayout(limit, amount) == [limit EXCEPT !.windowStart = now, !.used = amount]

Charge(limit, amount) ==
  IF WindowIsOver(limit) THEN [limit EXCEPT !.windowStart = now, !.used = amount]
  ELSE [limit EXCEPT !.used = @ + amount]

CheckAndUpdateWithdrawRateLimit(t, amount, mintSupply) ==
  LET limit   == ResolveEffectiveLimits(rateLimits[t], mintSupply)
      charged == Charge(rateLimits[t], amount)
  IN  /\ limit.min # 0 => amount >= limit.min
      /\ limit.maxTx # 0 => amount <= limit.maxTx
      /\ IF limit.maxPeriod = 0 THEN UNCHANGED rateLimits
         ELSE /\ charged.used <= limit.maxPeriod
              /\ rateLimits' = [rateLimits EXCEPT ![t] = charged]

(***************************************************************************)
(* Execution: the recipient signs, the pending account is closed and the   *)
(* ExecutedHash account created in its place.                              *)
(***************************************************************************)
Ready(x) ==
  /\ Live(x)
  /\ ~pending[x].cancelled /\ pending[x].approved
  /\ now > WindowEnd(x)

Execute(x, mintSupply) ==
  /\ ~bridge.paused
  /\ Ready(x)
  /\ x \notin executedHashes
  /\ Payout(x) <= U64_MAX
  /\ CheckAndUpdateWithdrawRateLimit(x.token, Payout(x), mintSupply)
  /\ executedHashes' = executedHashes \cup {x}
  /\ pending' = [pending EXCEPT ![x] = NoPending]
  /\ paid' = [paid EXCEPT ![x] = [amount |-> Payout(x), at |-> now]]
  /\ UNCHANGED <<now, bridge, registryVars, noncesUsed, vouchedAt, deposits>>

\* The mode is that of any mapping of the source chain onto the mint: the recipient
\* names it, and it need not be the one the withdrawal was submitted under.
WithdrawExecute(x, r) ==
  /\ x.token \in Mints
  /\ tokenMappings[<<x.srcChain, r>>] # NoMapping
  /\ tokenMappings[<<x.srcChain, r>>].local = x.token
  /\ Execute(x, supply[x.token])
  /\ IF tokenMappings[<<x.srcChain, r>>].mode = "LockUnlock"
     THEN /\ Payout(x) <= vault[x.token]
          /\ vault' = [vault EXCEPT ![x.token] = @ - Payout(x)]
          /\ UNCHANGED supply
     ELSE /\ supply' = [supply EXCEPT ![x.token] = @ + Payout(x)]
          /\ UNCHANGED vault
  /\ UNCHANGED lamports

\* Whatever lies above the rent may be paid out, tips and booked fees included.
WithdrawExecuteNative(x) ==
  /\ x.token = NATIVE_SOL_TOKEN
  /\ Execute(x, 0)
  /\ Payout(x) <= Available
  /\ lamports' = lamports - Payout(x)
  /\ UNCHANGED <<vault, supply>>

(***************************************************************************)
(* The admin                                                               *)
(***************************************************************************)
\* Plausible defect: the booked fees are left as they were.
WithdrawNativeFeesUnbooked(amount) ==
  /\ amount <= bridge.accruedNativeFees /\ amount <= Available
  /\ lamports' = lamports - amount
  /\ UNCHANGED <<bridge, tokenMappings, vault>>

WithdrawNativeFees(amount) ==
  /\ amount <= bridge.accruedNativeFees /\ amount <= Available
  /\ lamports' = lamports - amount
  /\ bridge' = [bridge EXCEPT !.accruedNativeFees = @ - amount]
  /\ UNCHANGED <<tokenMappings, vault>>

WithdrawSplFees(k, amount) ==
  /\ tokenMappings[k] # NoMapping
  /\ tokenMappings[k].local \in Mints
  /\ amount <= tokenMappings[k].accruedFees
  /\ amount <= vault[tokenMappings[k].local]
  /\ vault' = [vault EXCEPT ![tokenMappings[k].local] = @ - amount]
  /\ tokenMappings' = [tokenMappings EXCEPT ![k].accruedFees = @ - amount]
  /\ UNCHANGED <<bridge, lamports>>

WithdrawFees ==
  /\ \E amount \in FeeAmounts :
       WithdrawNativeFees(amount) \/ \E k \in MappingKeys : WithdrawSplFees(k, amount)
  /\ UNCHANGED <<chainEntries, cancelers, rateLimits, supply>>

Or(option, old) == IF option = Keep THEN old ELSE option

\* Each field of the call is optional.
SetConfig(call) ==
  /\ call.feeBps = Keep \/ call.feeBps \in 0..MaxFeeBps
  /\ call.withdrawDelay = Keep \/ call.withdrawDelay \in MinDelay..MaxDelay
  /\ bridge' = [bridge EXCEPT !.admin = Or(call.admin, @), !.operator = Or(call.operator, @),
                              !.feeBps = Or(call.feeBps, @), !.paused = Or(call.paused, @),
                              !.withdrawDelay = Or(call.withdrawDelay, @)]
  /\ UNCHANGED <<registryVars, rateLimits, valueVars>>

\* Nothing keeps the program's own chain from being registered.
RegisterChain(c) ==
  /\ c \notin chainEntries
  /\ chainEntries' = chainEntries \cup {c}
  /\ UNCHANGED <<bridge, tokenMappings, cancelers, rateLimits, valueVars>>

\* The chain of a mapping need not be registered, and several mappings, of different
\* modes, may name one mint.
RegisterToken(k, call) ==
  /\ tokenMappings[k] = NoMapping
  /\ IF call.local = NATIVE_SOL_TOKEN THEN call.mode = "LockUnlock"
     ELSE /\ call.decimals = MintDecimals[call.local]
          /\ call.mode = "MintBurn" => call.local \in BridgeMints
  /\ tokenMappings' = [tokenMappings EXCEPT ![k] =
       [local |-> call.local, mode |-> call.mode, decimals |-> call.decimals,
        srcDecimals |-> call.srcDecimals, accruedFees |-> 0]]
  /\ UNCHANGED <<bridge, chainEntries, cancelers, rateLimits, valueVars>>

AddCanceler(a, active) ==
  /\ cancelers' = IF active THEN cancelers \cup {a} ELSE cancelers \ {a}
  /\ UNCHANGED <<bridge, chainEntries, tokenMappings, rateLimits, valueVars>>

\* The window in progress and its usage are kept.
SetRateLimit(t, call) ==
  /\ rateLimits' = [rateLimits EXCEPT ![t].explicit = TRUE, ![t].min = call.min,
                      ![t].maxTx = call.maxTx, ![t].maxPeriod = call.maxPeriod]
  /\ UNCHANGED <<bridge, registryVars, valueVars>>

Admin ==
  /\ calls < MaxCalls /\ calls' = calls + 1
  /\ \/ WithdrawFees
     \/ \E call \in ConfigCalls : SetConfig(call)
     \/ \E c \in Chains : RegisterChain(c)
     \/ \E k \in MappingKeys, call \in MappingCalls : RegisterToken(k, call)
     \/ \E a \in Accounts, active \in BOOLEAN : AddCanceler(a, active)
     \/ \E t \in Tokens, call \in LimitCalls : SetRateLimit(t, call)
  /\ UNCHANGED <<now, withdrawVars, deposits, strayed>>

(***************************************************************************)
(* Third parties, who need no instruction of the program                   *)
(***************************************************************************)
\* Anyone can transfer lamports or tokens to the bridge's accounts.
SendUnasked(t, amount) ==
  \/ /\ t = NATIVE_SOL_TOKEN
     /\ lamports' = lamports + amount
     /\ UNCHANGED <<vault, supply>>
  \/ /\ t \in Mints
     /\ amount <= supply[t] - vault[t]
     /\ vault' = [vault EXCEPT ![t] = @ + amount]
     /\ UNCHANGED <<lamports, supply>>

\* Any holder can burn: the supply falls, from which default limits are computed.
Burn(t, amount) ==
  /\ t \in Mints
  /\ amount <= supply[t] - vault[t]
  /\ supply' = [supply EXCEPT ![t] = @ - amount]
  /\ UNCHANGED <<lamports, vault>>

ThirdParty ==
  /\ calls < MaxCalls /\ calls' = calls + 1
  /\ \E t \in Tokens, amount \in StrayAmounts :
       /\ SendUnasked(t, amount) \/ Burn(t, amount)
       /\ strayed' = [strayed EXCEPT ![t] = @ + amount]
  /\ UNCHANGED <<now, bridge, registryVars, rateLimits, withdrawVars, deposits>>

Tick ==
  /\ now < MaxTime /\ now' = now + 1
  /\ UNCHANGED <<bridge, registryVars, rateLimits, withdrawVars, deposits, valueVars, strayed, calls>>

Deposit ==
  \E k \in MappingKeys, amount \in DepositAmounts : DepositNative(k, amount) \/ DepositSpl(k, amount)

Withdraw(x) ==
  \/ \E r \in RemoteTokens, tip \in Tips : WithdrawSubmit(x, r, tip)
  \/ \E a \in Accounts : WithdrawApprove(a, x) \/ WithdrawCancel(a, x) \/ WithdrawReenable(a, x)
  \/ \E r \in RemoteTokens : WithdrawExecute(x, r)
  \/ WithdrawExecuteNative(x)

Next ==
  \/ (Deposit \/ \E x \in Xfers : Withdraw(x)) /\ UNCHANGED <<strayed, calls>>
  \/ Admin
  \/ ThirdParty
  \/ Tick

Spec == Init /\ [][Next]_vars
=============================================================================
