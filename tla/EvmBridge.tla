------------------------------ MODULE EvmBridge ------------------------------
(***************************************************************************)
(* Bridge.sol: deposits that leave this chain, withdrawals that arrive on  *)
(* it, and the ETH the contract holds.  A withdrawal is known by the hash  *)
(* of its fields; the hash is collision free, so a transfer is the record  *)
(* of those fields and pendingWithdraws is indexed by transfers.           *)
(***************************************************************************)
EXTENDS TokenRegistry, TokenVaults, EvmFees

CONSTANTS
  ThisChain,
  WrappedNative,          \* the WETH token, or NoToken: depositNative disabled
  Xfers,                  \* withdrawals a user may submit
  Owner, InitialOperator,
  Tips,                   \* ETH a user may attach to a withdrawal
  DepositAmounts,
  Gifts, Recoveries,      \* ETH sent to receive(), ETH taken by recoverAsset
  CancelWindows,          \* windows the owner may ask for
  MIN_CANCEL_WINDOW, MAX_CANCEL_WINDOW, DEFAULT_CANCEL_WINDOW,
  LocalDecimals,          \* [token -> its decimals on this chain]
  MaxDecimals,
  InitialType, InitialDest, InitialSrcDecimals, InitialLimits, \* [token -> ...] as deployed
  InitialLocked, InitialSupply,
  MaxNonce,               \* bound: the last deposit nonce
  MaxGifted               \* bound: gifts stop when the balance would pass this

ASSUME BridgeAssumption ==
  /\ ThisChain \in Chains /\ WrappedNative \in Tokens \cup {NoToken}
  /\ Owner \in Accounts /\ InitialOperator \in Accounts
  /\ \A x \in Xfers : /\ x.srcChain \in Chains /\ x.token \in Tokens
                      /\ x.amount \in Nat /\ x.nonce \in Nat
  /\ Tips \subseteq Nat /\ DepositAmounts \subseteq Nat
  /\ Gifts \subseteq Nat /\ Recoveries \subseteq Nat /\ CancelWindows \subseteq Nat
  /\ MIN_CANCEL_WINDOW \in Nat /\ MAX_CANCEL_WINDOW \in Nat
  /\ DEFAULT_CANCEL_WINDOW \in MIN_CANCEL_WINDOW..MAX_CANCEL_WINDOW
  /\ MaxDecimals \in Nat /\ Decimals \subseteq 0..MaxDecimals
  /\ LocalDecimals \in [Tokens -> 0..MaxDecimals]
  /\ MaxNonce \in Nat \ {0}

ASSUME DeploymentAssumption ==
  /\ InitialType \in [Tokens -> TokenTypes]
  /\ InitialDest \in [Tokens -> DestTokens]
  /\ \A s, t \in Tokens : InitialDest[s] = InitialDest[t] => s = t
  /\ InitialSrcDecimals \in [Tokens -> Decimals]
  /\ InitialLimits \in
       [Tokens -> [minPerTransaction : Nat, maxPerTransaction : Nat, maxPerPeriod : Nat]]
  /\ InitialSupply \in [Tokens -> Nat]
  /\ InitialLocked \in [Tokens -> Nat]
  /\ \A t \in Tokens : InitialLocked[t] <= InitialSupply[t]

\* Powers of ten are positive: what the provers need of exponentiation.
ASSUME ScaleAssumption == \A d \in 0..MaxDecimals : 10^d \in Nat \ {0}

VARIABLES
  paused,
  operators, cancelers,
  cancelWindow,
  pendingWithdraws,      \* [transfer -> PendingWithdraw]
  pendingWithdrawHashes, \* the enumerable set a canceler polls
  withdrawNonceUsed,     \* <<source chain, nonce>> pairs already approved
  depositNonce,
  deposits,              \* deposit records, each under its own hash
  ethBalance             \* address(this).balance

withdrawVars == <<pendingWithdraws, pendingWithdrawHashes, withdrawNonceUsed>>
depositVars  == <<depositNonce, deposits>>
roleVars     == <<paused, operators, cancelers, cancelWindow>>
configVars   == <<roleVars, feeVars>>
bridgeVars   == <<withdrawVars, depositVars, configVars, ethBalance>>
vars         == <<now, registryVars, vaultVars, bridgeVars>>

Withdrawal == [submitted : BOOLEAN, operatorGas : Nat, srcDecimals : Decimals \cup {NoMapping},
               approved : BOOLEAN, approvedAt : Nat, cancelled : BOOLEAN, executed : BOOLEAN]

\* The zero value of the mapping: a hash nobody submitted.
NotSubmitted == [submitted |-> FALSE, operatorGas |-> 0, srcDecimals |-> NoMapping,
                 approved |-> FALSE, approvedAt |-> 0, cancelled |-> FALSE, executed |-> FALSE]

Key(x) == <<x.srcChain, x.nonce>>

Submitted(x) == pendingWithdraws[x].submitted
Approved(x)  == pendingWithdraws[x].approved
Cancelled(x) == pendingWithdraws[x].cancelled
Executed(x)  == pendingWithdraws[x].executed

(***************************************************************************)
(* Initial state: initialize() after the deployment scripts registered the *)
(* chains, the tokens and their mappings.                                  *)
(***************************************************************************)
DeployedRegistry ==
  /\ registeredChains = Chains
  /\ tokenRegistered = Tokens
  /\ tokenTypes = InitialType
  /\ tokenDestMappings = [t \in Tokens |->
       [c \in Chains |-> IF c = ThisChain THEN NoDestToken ELSE InitialDest[t]]]
  /\ tokenDestChains = [t \in Tokens |-> Chains \ {ThisChain}]
  /\ destTokenOwner = [c \in Chains |-> [d \in DestTokens |->
       IF c # ThisChain /\ \E t \in Tokens : InitialDest[t] = d
       THEN CHOOSE t \in Tokens : InitialDest[t] = d ELSE NoToken]]
  /\ tokenSrcMappings = [c \in Chains |-> [t \in Tokens |->
       IF c = ThisChain THEN NoMapping ELSE InitialSrcDecimals[t]]]
  /\ rateLimitConfigs = InitialLimits
  /\ withdrawWindows = [t \in Tokens |-> NoWindow]
  /\ rateLimitBridge = TRUE

BridgeInit ==
  /\ paused = FALSE
  /\ operators = {InitialOperator}
  /\ cancelers = {}
  /\ cancelWindow = DEFAULT_CANCEL_WINDOW
  /\ FeeInit
  /\ pendingWithdraws = [x \in Xfers |-> NotSubmitted]
  /\ pendingWithdrawHashes = {}
  /\ withdrawNonceUsed = {}
  /\ depositNonce = 1
  /\ deposits = {}
  /\ ethBalance = 0

Init ==
  /\ StartOfTime
  /\ DeployedRegistry
  /\ locked = InitialLocked /\ supply = InitialSupply
  /\ unlockAuthorized = TRUE /\ mintAuthorized = TRUE
  /\ BridgeInit

(***************************************************************************)
(* Roles                                                                   *)
(***************************************************************************)
IsOperator(a) == a \in operators \/ a = Owner
IsCanceler(a) == a \in cancelers \/ a = Owner

(***************************************************************************)
(* Deposits                                                                *)
(***************************************************************************)
CanDeposit(t, destChain) ==
  /\ ~paused
  /\ destChain # ThisChain
  /\ IsChainRegistered(destChain)
  /\ IsTokenRegistered(t)
  /\ GetDestToken(t, destChain) # NoDestToken

\* Plausible defect: burned deposits do not advance the nonce.
DepositsShareNonce(t, destChain, net) ==
  /\ depositNonce < MaxNonce
  /\ depositNonce' = IF GetTokenType(t) = "MintBurn" THEN depositNonce ELSE depositNonce + 1
  /\ deposits' = deposits \cup
       {[destChain |-> destChain, destToken |-> GetDestToken(t, destChain),
         token |-> t, amount |-> net, nonce |-> depositNonce]}

\* The record is stored under a hash that covers the nonce and the destination token.
RecordDeposit(t, destChain, net) ==
  /\ depositNonce < MaxNonce
  /\ depositNonce' = depositNonce + 1
  /\ deposits' = deposits \cup
       {[destChain |-> destChain, destToken |-> GetDestToken(t, destChain),
         token |-> t, amount |-> net, nonce |-> depositNonce]}

\* The net ETH stays in the bridge; the fee leaves for the fee recipient.
DepositNative(a, holdsCl8y, destChain, value) ==
  LET net == value - CalculateFee(a, holdsCl8y, value)
  IN  /\ WrappedNative # NoToken
      /\ value # 0
      /\ CanDeposit(WrappedNative, destChain)
      /\ RecordDeposit(WrappedNative, destChain, net)
      /\ ethBalance' = ethBalance + net
      /\ UNCHANGED <<now, registryVars, vaultVars, withdrawVars, configVars>>

\* Nothing compares the token's type with the deposit mode.
DepositERC20(a, holdsCl8y, t, destChain, amount) ==
  LET net == amount - CalculateFee(a, holdsCl8y, amount)
  IN  /\ amount # 0
      /\ CanDeposit(t, destChain)
      /\ amount <= Circulating(t)
      /\ Lock(t, net)
      /\ RecordDeposit(t, destChain, net)
      /\ UNCHANGED <<now, registryVars, withdrawVars, configVars, ethBalance>>

DepositERC20Mintable(a, holdsCl8y, t, destChain, amount) ==
  LET net == amount - CalculateFee(a, holdsCl8y, amount)
  IN  /\ amount # 0
      /\ CanDeposit(t, destChain)
      /\ amount <= Circulating(t)
      /\ Burn(t, net)
      /\ RecordDeposit(t, destChain, net)
      /\ UNCHANGED <<now, registryVars, withdrawVars, configVars, ethBalance>>

(***************************************************************************)
(* Withdrawals                                                             *)
(***************************************************************************)
WithdrawSubmit(x, tip) ==
  /\ ~paused
  /\ x.amount # 0
  /\ x.srcChain # ThisChain
  /\ IsChainRegistered(x.srcChain)
  /\ IsTokenRegistered(x.token)
  /\ Key(x) \notin withdrawNonceUsed
  /\ HasSrcMapping(x.srcChain, x.token)
  /\ ~Submitted(x)
  /\ pendingWithdraws' = [pendingWithdraws EXCEPT ![x] =
       [NotSubmitted EXCEPT !.submitted = TRUE, !.operatorGas = tip,
                            !.srcDecimals = GetSrcTokenDecimals(x.srcChain, x.token)]]
  /\ pendingWithdrawHashes' = pendingWithdrawHashes \cup {x}
  /\ ethBalance' = ethBalance + tip
  /\ UNCHANGED <<now, registryVars, vaultVars, withdrawNonceUsed, depositVars, configVars>>

\* Plausible defect: the nonce of the source chain is not looked at.
ApprovesRival(x) == Submitted(x) /\ ~Executed(x) /\ ~Approved(x)

\* Plausible defect: an approved withdrawal may be approved again.
ApprovesAgain(x) ==
  /\ Submitted(x) /\ ~Executed(x)
  /\ Key(x) \notin withdrawNonceUsed \/ Approved(x)

CanApprove(x) ==
  /\ Submitted(x) /\ ~Executed(x) /\ ~Approved(x)
  /\ Key(x) \notin withdrawNonceUsed

\* Not gated by the pause.  The tip goes to the caller, or the call reverts.
WithdrawApprove(a, x) ==
  LET tip == pendingWithdraws[x].operatorGas
  IN  /\ IsOperator(a)
      /\ CanApprove(x)
      /\ withdrawNonceUsed' = withdrawNonceUsed \cup {Key(x)}
      /\ pendingWithdraws' =
           [pendingWithdraws EXCEPT ![x].approved = TRUE, ![x].approvedAt = now]
      /\ tip <= ethBalance
      /\ ethBalance' = ethBalance - tip
      /\ UNCHANGED <<now, registryVars, vaultVars, pendingWithdrawHashes,
                     depositVars, configVars>>

WindowEnd(x) == pendingWithdraws[x].approvedAt + cancelWindow

WithdrawCancel(a, x) ==
  /\ IsCanceler(a)
  /\ Submitted(x) /\ ~Executed(x) /\ Approved(x)
  /\ now <= WindowEnd(x)
  /\ pendingWithdraws' = [pendingWithdraws EXCEPT ![x].cancelled = TRUE]
  /\ pendingWithdrawHashes' = pendingWithdrawHashes \ {x}
  /\ UNCHANGED <<now, registryVars, vaultVars, withdrawNonceUsed, depositVars,
                 configVars, ethBalance>>

\* Plausible defect: the hash does not return to the polled set.
UncancelForgetsToList(a, x) ==
  /\ IsOperator(a)
  /\ Submitted(x) /\ ~Executed(x) /\ Cancelled(x)
  /\ pendingWithdraws' =
       [pendingWithdraws EXCEPT ![x].cancelled = FALSE, ![x].approvedAt = now]
  /\ UNCHANGED <<now, registryVars, vaultVars, pendingWithdrawHashes, withdrawNonceUsed,
                 depositVars, configVars, ethBalance>>

\* The approval time is reset, which restarts the cancel window.
WithdrawUncancel(a, x) ==
  /\ IsOperator(a)
  /\ Submitted(x) /\ ~Executed(x) /\ Cancelled(x)
  /\ pendingWithdraws' =
       [pendingWithdraws EXCEPT ![x].cancelled = FALSE, ![x].approvedAt = now]
  /\ pendingWithdrawHashes' = pendingWithdrawHashes \cup {x}
  /\ UNCHANGED <<now, registryVars, vaultVars, withdrawNonceUsed, depositVars,
                 configVars, ethBalance>>

\* Plausible defect: the boundary of the window is inclusive.
ExecutesAtWindowEnd(x) ==
  /\ Submitted(x) /\ ~Executed(x) /\ Approved(x) /\ ~Cancelled(x)
  /\ now >= WindowEnd(x)

\* Plausible defect: an executed withdrawal may execute again.
ExecutesAgain(x) ==
  /\ Submitted(x) /\ Approved(x) /\ ~Cancelled(x)
  /\ now > WindowEnd(x)

\* _validateWithdrawExecution: the boundary is exclusive.
ValidExecution(x) ==
  /\ Submitted(x) /\ ~Executed(x) /\ Approved(x) /\ ~Cancelled(x)
  /\ now > WindowEnd(x)

\* The amount in local decimals; the source decimals are those read on submission.
NormalizeDecimals(amount, src, dest) ==
  IF src > dest THEN amount \div 10^(src - dest) ELSE amount * 10^(dest - src)

NormalizedAmount(x) ==
  NormalizeDecimals(x.amount, pendingWithdraws[x].srcDecimals, LocalDecimals[x.token])

\* What both execute entry points share; the token's type is read now, not on approval.
Execute(x, type) ==
  /\ ~paused
  /\ ValidExecution(x)
  /\ GetTokenType(x.token) = type
  /\ CheckAndUpdateWithdrawRateLimit(x.token, NormalizedAmount(x))
  /\ pendingWithdraws' = [pendingWithdraws EXCEPT ![x].executed = TRUE]
  /\ pendingWithdrawHashes' = pendingWithdrawHashes \ {x}
  /\ UNCHANGED <<now, chainVars, mappingVars, rateLimitConfigs, rateLimitBridge,
                 withdrawNonceUsed, depositVars, configVars, ethBalance>>

WithdrawExecuteUnlock(x) == Execute(x, "LockUnlock") /\ Unlock(x.token, NormalizedAmount(x))

WithdrawExecuteMint(x) == Execute(x, "MintBurn") /\ Mint(x.token, NormalizedAmount(x))

(***************************************************************************)
(* Administration and plain ETH                                            *)
(***************************************************************************)
SetPaused(on) ==
  /\ OwnerMay("pause")
  /\ paused # on
  /\ paused' = on
  /\ UNCHANGED <<operators, cancelers, cancelWindow, feeVars, ethBalance>>

SetCancelWindow(window) ==
  /\ OwnerMay("setCancelWindow")
  /\ window \in MIN_CANCEL_WINDOW..MAX_CANCEL_WINDOW
  /\ cancelWindow' = window
  /\ UNCHANGED <<paused, operators, cancelers, feeVars, ethBalance>>

SetOperator(a, on) ==
  /\ OwnerMay("setOperator")
  /\ operators' = IF on THEN operators \cup {a} ELSE operators \ {a}
  /\ UNCHANGED <<paused, cancelers, cancelWindow, feeVars, ethBalance>>

SetCanceler(a, on) ==
  /\ OwnerMay("setCanceler")
  /\ cancelers' = IF on THEN cancelers \cup {a} ELSE cancelers \ {a}
  /\ UNCHANGED <<paused, operators, cancelWindow, feeVars, ethBalance>>

\* The bridge keeps no ERC20 of its own, so what can be recovered is ETH.
RecoverAsset(amount) ==
  /\ OwnerMay("recoverAsset")
  /\ paused
  /\ amount <= ethBalance
  /\ ethBalance' = ethBalance - amount
  /\ UNCHANGED configVars

Receive(amount) ==
  /\ ethBalance + amount <= MaxGifted
  /\ ethBalance' = ethBalance + amount
  /\ UNCHANGED configVars

BridgeAdmin ==
  /\ \/ \E on \in BOOLEAN : SetPaused(on)
     \/ \E window \in CancelWindows : SetCancelWindow(window)
     \/ \E a \in Accounts, on \in BOOLEAN : SetOperator(a, on) \/ SetCanceler(a, on)
     \/ FeeAdmin /\ UNCHANGED <<roleVars, ethBalance>>
     \/ \E amount \in Recoveries : RecoverAsset(amount)
     \/ \E amount \in Gifts : Receive(amount)
  /\ UNCHANGED <<now, registryVars, vaultVars, withdrawVars, depositVars>>

Deposit ==
  \E a \in Accounts, holdsCl8y \in BOOLEAN, c \in Chains, amount \in DepositAmounts :
    \/ DepositNative(a, holdsCl8y, c, amount)
    \/ \E t \in Tokens : \/ DepositERC20(a, holdsCl8y, t, c, amount)
                        \/ DepositERC20Mintable(a, holdsCl8y, t, c, amount)

Withdraw(x) ==
  \/ \E tip \in Tips : WithdrawSubmit(x, tip)
  \/ \E a \in Accounts : WithdrawApprove(a, x) \/ WithdrawCancel(a, x) \/ WithdrawUncancel(a, x)
  \/ WithdrawExecuteUnlock(x)
  \/ WithdrawExecuteMint(x)

Next ==
  \/ Deposit
  \/ \E x \in Xfers : Withdraw(x)
  \/ BridgeAdmin
  \/ RegistryAdmin(supply) /\ UNCHANGED <<now, vaultVars, bridgeVars>>
  \/ VaultAdmin /\ UNCHANGED <<now, registryVars, bridgeVars>>
  \/ Tick /\ UNCHANGED <<registryVars, vaultVars, bridgeVars>>

Spec == Init /\ [][Next]_vars
==============================================================================
