----------------------------- MODULE TerraBridge -----------------------------
(***************************************************************************)
(* The Terra Classic bridge contract: deposits that leave Terra,           *)
(* withdrawals that arrive on it, fees, roles and administration.  A       *)
(* withdrawal is known by the hash of its fields, so a transfer is the     *)
(* record of those fields and PENDING_WITHDRAWS is indexed by transfers.   *)
(* LOCKED_BALANCES is what the contract believes it holds for users;       *)
(* holdings is what the bank module and the CW20 contracts say it holds.   *)
(***************************************************************************)
EXTENDS TerraRegistry, Sequences

CONSTANTS
  ThisChain,
  GasDenom,              \* the denom users tip the operator in
  Xfers,                 \* withdrawals a user may submit
  Accounts, InitialAdmin,
  OperatorList,          \* the operators of the instantiate message, in order
  InitialMinSignatures,
  NoAccount, NoFee,
  Tips, DepositAmounts, Gifts, Recoveries,
  StandardFees, CustomFees, InitialStandardFee, InitialDiscountedFee,
  Delays,                \* withdraw delays the admin may ask for
  MIN_DELAY, MAX_DELAY, DEFAULT_WITHDRAW_DELAY,
  ADMIN_TIMELOCK,
  UINT128_MAX,
  InitialIdentifier,     \* [chain -> its identifier, if it was registered] as deployed
  InitialTokens, InitialDest, InitialSrcDecimals, InitialLimits, \* [token -> ...] as deployed
  InitialLocked, InitialSupply,
  MaxNonce,              \* bound: deposits are made below this nonce
  MaxGifted,             \* bound: gifts stop at this balance
  MaxAdminCalls          \* bound: calls of the registry, of roles and of fees

MAX_FEE_BPS     == 100
BPS_DENOMINATOR == 10000

ASSUME BridgeAssumption ==
  /\ ThisChain \in Chains /\ GasDenom \in Natives
  /\ InitialAdmin \in Accounts /\ NoAccount \notin Accounts
  /\ OperatorList \in Seq(Accounts) /\ OperatorList # <<>>
  /\ InitialMinSignatures \in 1..Len(OperatorList)
  /\ {InitialStandardFee, InitialDiscountedFee} \cup StandardFees \cup CustomFees \subseteq Nat
  /\ \A x \in Xfers : /\ x.srcChain \in Chains /\ x.token \in Tokens
                      /\ x.amount \in Nat /\ x.nonce \in Nat
  /\ Tips \subseteq Nat /\ Gifts \subseteq Nat /\ Recoveries \subseteq Nat
  /\ DepositAmounts \subseteq Nat /\ Delays \subseteq Nat
  /\ MIN_DELAY \in Nat /\ MAX_DELAY \in Nat /\ DEFAULT_WITHDRAW_DELAY \in MIN_DELAY..MAX_DELAY
  /\ ADMIN_TIMELOCK \in Nat

ASSUME DeploymentAssumption ==
  /\ InitialIdentifier \in [Chains -> Identifiers \cup {NoIdentifier}]
  /\ \A b, c \in Chains : InitialIdentifier[b] = InitialIdentifier[c] =>
                            b = c \/ InitialIdentifier[b] = NoIdentifier
  /\ InitialTokens \in [Tokens -> TokenConfig]
  /\ InitialDest \in [Tokens -> DestTokens \cup {NoDestToken}]
  /\ \A s, t \in Tokens : InitialDest[s] = InitialDest[t] => s = t \/ InitialDest[s] = NoDestToken
  /\ DOMAIN InitialSrcDecimals \subseteq Tokens
  /\ \A t \in DOMAIN InitialSrcDecimals : InitialSrcDecimals[t] \in Decimals
  /\ InitialLimits \in [Tokens -> RateLimit \cup {NoLimit}]
  /\ InitialLocked \in [Tokens -> Nat] /\ InitialSupply \in [Tokens -> Nat]
  /\ \A t \in Tokens : InitialLocked[t] <= InitialSupply[t]

\* Powers of ten are positive: what the provers need of exponentiation.
ASSUME ScaleAssumption ==
  \A m, n \in Decimals : /\ m > n => 10^(m - n) \in Nat \ {0}
                         /\ m <= n => 10^(n - m) \in Nat

VARIABLES
  paused, admin, pendingAdmin,
  operators, operatorCount, minSignatures, cancelers,
  withdrawDelay,
  feeConfig, customFees,
  pendingWithdraws,      \* PENDING_WITHDRAWS: [transfer -> its record]
  withdrawNonceUsed,
  outgoingNonce, deposits,
  locked,                \* LOCKED_BALANCES
  holdings, supply,      \* the contract's balance and the total supply, per token
  adminCalls             \* counts the calls MaxAdminCalls bounds

roleVars     == <<admin, pendingAdmin, operators, operatorCount, minSignatures, cancelers>>
configVars   == <<paused, roleVars, withdrawDelay, feeConfig, customFees>>
withdrawVars == <<pendingWithdraws, withdrawNonceUsed>>
depositVars  == <<outgoingNonce, deposits>>
valueVars    == <<locked, holdings, supply>>
vars == <<now, registryVars, configVars, withdrawVars, depositVars, valueVars, adminCalls>>

Withdrawal == [submitted : BOOLEAN, operatorFunds : Nat, srcDecimals : Nat, destDecimals : Nat,
               approved : BOOLEAN, approvedAt : Nat, cancelled : BOOLEAN, executed : BOOLEAN]

\* A hash nobody submitted; the decimals are placeholders.
NotSubmitted == [submitted |-> FALSE, operatorFunds |-> 0, srcDecimals |-> 0, destDecimals |-> 0,
                 approved |-> FALSE, approvedAt |-> 0, cancelled |-> FALSE, executed |-> FALSE]

NoProposal == [address |-> NoAccount, executeAfter |-> 0]

Key(x) == <<x.srcChain, x.nonce>>

Submitted(x) == pendingWithdraws[x].submitted
Approved(x)  == pendingWithdraws[x].approved
Cancelled(x) == pendingWithdraws[x].cancelled
Executed(x)  == pendingWithdraws[x].executed

IsOperator(a) == a \in operators \/ a = admin

(***************************************************************************)
(* instantiate(), after which the deployment registered chains and tokens. *)
(***************************************************************************)
DeployedRegistry ==
  /\ chains = [c \in Chains |-> [identifier |-> InitialIdentifier[c],
                                  enabled |-> InitialIdentifier[c] # NoIdentifier]]
  /\ chainByIdentifier = [i \in Identifiers |->
       IF \E c \in Chains : InitialIdentifier[c] = i
       THEN CHOOSE c \in Chains : InitialIdentifier[c] = i ELSE NoChain]
  /\ tokens = InitialTokens
  /\ allowedCodeIds = {}
  /\ destMappings = [t \in Tokens |->
       [c \in Chains |-> IF c = ThisChain THEN NoDestToken ELSE InitialDest[t]]]
  /\ destMappingOwner = [c \in Chains |-> [d \in DestTokens |->
       IF c # ThisChain /\ \E t \in Tokens : InitialDest[t] = d
       THEN CHOOSE t \in Tokens : InitialDest[t] = d ELSE NoToken]]
  /\ srcMappings = [c \in Chains |-> [s \in SrcEncodings |->
       IF c # ThisChain /\ s \in DOMAIN InitialSrcDecimals
       THEN [local |-> s, srcDecimals |-> InitialSrcDecimals[s]] ELSE NoMapping]]
  /\ srcMappingOwner = [c \in Chains |-> [t \in Tokens |->
       IF c # ThisChain /\ t \in DOMAIN InitialSrcDecimals THEN t ELSE NoMapping]]
  /\ rateLimits = InitialLimits
  /\ rateWindows = [t \in Tokens |-> NoWindow]

\* Every entry of the operators list is counted, one that repeats an address included.
Instantiate ==
  /\ paused = FALSE /\ admin = InitialAdmin /\ pendingAdmin = NoProposal
  /\ operators = {OperatorList[i] : i \in DOMAIN OperatorList}
  /\ operatorCount = Len(OperatorList)
  /\ minSignatures = InitialMinSignatures
  /\ cancelers = {}
  /\ withdrawDelay = DEFAULT_WITHDRAW_DELAY
  /\ feeConfig = [standard |-> InitialStandardFee, discounted |-> InitialDiscountedFee,
                  discountOn |-> FALSE]
  /\ customFees = [a \in Accounts |-> NoFee]
  /\ pendingWithdraws = [x \in Xfers |-> NotSubmitted]
  /\ withdrawNonceUsed = {}
  /\ outgoingNonce = 0 /\ deposits = {}
  /\ adminCalls = 0

Init ==
  /\ now = 1
  /\ DeployedRegistry
  /\ Instantiate
  /\ locked = InitialLocked /\ holdings = InitialLocked /\ supply = InitialSupply

(***************************************************************************)
(* Fees: a custom fee, else the discount of a CL8Y holder, else standard.  *)
(***************************************************************************)
EffectiveFeeBps(a, holdsCl8y) ==
  IF customFees[a] # NoFee THEN customFees[a]
  ELSE IF feeConfig.discountOn /\ holdsCl8y THEN feeConfig.discounted
  ELSE feeConfig.standard

CalculateFee(amount, bps) == (amount * bps) \div BPS_DENOMINATOR

(***************************************************************************)
(* Deposits.  The amount arrives with the message and the fee leaves for   *)
(* the collector in the same one.                                          *)
(***************************************************************************)
CanDeposit(t, c, type, amount) ==
  /\ ~paused
  /\ c # ThisChain /\ ChainEnabled(c)
  /\ TokenEnabled(t) /\ tokens[t].type = type
  /\ destMappings[t][c] # NoDestToken
  /\ amount > 0 /\ amount <= supply[t] - holdings[t]

RecordDeposit(t, c, net) ==
  /\ outgoingNonce < MaxNonce
  /\ outgoingNonce' = outgoingNonce + 1
  /\ deposits' = deposits \cup {[destChain |-> c, destToken |-> destMappings[t][c],
                                 token |-> t, amount |-> net, nonce |-> outgoingNonce]}

\* Plausible defect: the gross amount is promised, although the fee has left.
LocksGross(t, net, fee) ==
  /\ locked' = [locked EXCEPT ![t] = @ + net + fee]
  /\ holdings' = [holdings EXCEPT ![t] = @ + net]

KeepLocked(t, net, fee) ==
  /\ locked' = [locked EXCEPT ![t] = @ + net]
  /\ holdings' = [holdings EXCEPT ![t] = @ + net]

DepositLock(a, t, c, amount, holdsCl8y) ==
  LET fee == CalculateFee(amount, EffectiveFeeBps(a, holdsCl8y))
  IN  /\ CanDeposit(t, c, "LockUnlock", amount)
      /\ fee <= amount
      /\ KeepLocked(t, amount - fee, fee)
      /\ RecordDeposit(t, c, amount - fee)
      /\ UNCHANGED <<now, registryVars, configVars, withdrawVars, supply>>

DepositNative(a, t, c, amount, holdsCl8y) ==
  t \in Natives /\ DepositLock(a, t, c, amount, holdsCl8y)

DepositCw20Lock(a, t, c, amount, holdsCl8y) ==
  t \in Cw20s /\ DepositLock(a, t, c, amount, holdsCl8y)

DepositCw20MintableBurn(a, t, c, amount, holdsCl8y) ==
  LET fee == CalculateFee(amount, EffectiveFeeBps(a, holdsCl8y))
  IN  /\ t \in Cw20s
      /\ CanDeposit(t, c, "MintBurn", amount)
      /\ fee <= amount
      /\ supply' = [supply EXCEPT ![t] = @ - (amount - fee)]
      /\ RecordDeposit(t, c, amount - fee)
      /\ UNCHANGED <<now, registryVars, configVars, withdrawVars, locked, holdings>>

(***************************************************************************)
(* Withdrawals                                                             *)
(***************************************************************************)
\* The mapping is looked up under the local token's own encoding; which local token
\* it names is not compared.
WithdrawSubmit(x, tip) ==
  LET mapping == srcMappings[x.srcChain][x.token]
  IN  /\ ~paused
      /\ x.amount # 0
      /\ TokenEnabled(x.token)
      /\ ChainEnabled(x.srcChain)
      /\ mapping # NoMapping
      /\ Key(x) \notin withdrawNonceUsed
      /\ ~Submitted(x)
      /\ tip <= supply[GasDenom] - holdings[GasDenom]
      /\ pendingWithdraws' = [pendingWithdraws EXCEPT ![x] =
           [NotSubmitted EXCEPT !.submitted = TRUE, !.operatorFunds = tip,
                                !.srcDecimals = mapping.srcDecimals,
                                !.destDecimals = tokens[x.token].decimals]]
      /\ holdings' = [holdings EXCEPT ![GasDenom] = @ + tip]
      /\ UNCHANGED <<now, registryVars, configVars, withdrawNonceUsed, depositVars, locked, supply>>

CanApprove(x) ==
  /\ Submitted(x) /\ ~Executed(x) /\ ~Approved(x)
  /\ Key(x) \notin withdrawNonceUsed

\* Not gated by the pause, and one operator suffices whatever minSignatures says.
WithdrawApprove(a, x) ==
  LET tip == pendingWithdraws[x].operatorFunds
  IN  /\ IsOperator(a)
      /\ CanApprove(x)
      /\ pendingWithdraws' =
           [pendingWithdraws EXCEPT ![x].approved = TRUE, ![x].approvedAt = now]
      /\ withdrawNonceUsed' = withdrawNonceUsed \cup {Key(x)}
      /\ tip <= holdings[GasDenom]
      /\ holdings' = [holdings EXCEPT ![GasDenom] = @ - tip]
      /\ UNCHANGED <<now, registryVars, configVars, depositVars, locked, supply>>

WindowEnd(x) == pendingWithdraws[x].approvedAt + withdrawDelay

\* Cancelers only: neither operators nor the admin.
WithdrawCancel(a, x) ==
  /\ a \in cancelers
  /\ Submitted(x) /\ ~Executed(x) /\ Approved(x)
  /\ now <= WindowEnd(x)
  /\ pendingWithdraws' = [pendingWithdraws EXCEPT ![x].cancelled = TRUE]
  /\ UNCHANGED <<now, registryVars, configVars, withdrawNonceUsed, depositVars, valueVars>>

WithdrawUncancel(a, x) ==
  /\ IsOperator(a)
  /\ Submitted(x) /\ ~Executed(x) /\ Cancelled(x)
  /\ pendingWithdraws' =
       [pendingWithdraws EXCEPT ![x].cancelled = FALSE, ![x].approvedAt = now]
  /\ UNCHANGED <<now, registryVars, configVars, withdrawNonceUsed, depositVars, valueVars>>

\* Plausible defect: the boundary of the window is inclusive.
ExecutesAtWindowEnd(x) ==
  /\ Submitted(x) /\ ~Executed(x) /\ Approved(x) /\ ~Cancelled(x)
  /\ now >= WindowEnd(x)

ReadyToExecute(x) ==
  /\ Submitted(x) /\ ~Executed(x) /\ Approved(x) /\ ~Cancelled(x)
  /\ now > WindowEnd(x)

NormalizeDecimals(amount, src, dest) ==
  IF src > dest THEN amount \div 10^(src - dest) ELSE amount * 10^(dest - src)

\* Plausible defect: the token's current decimals are used.
PayoutAtCurrentDecimals(x) ==
  NormalizeDecimals(x.amount, pendingWithdraws[x].srcDecimals, tokens[x.token].decimals)

\* Both decimals are those stored with the withdrawal, not the current ones.
Payout(x) ==
  NormalizeDecimals(x.amount, pendingWithdraws[x].srcDecimals, pendingWithdraws[x].destDecimals)

Execute(x, type) ==
  /\ ~paused
  /\ ReadyToExecute(x)
  /\ tokens[x.token].type = type
  /\ Payout(x) <= UINT128_MAX
  /\ CheckAndUpdateRateLimit(x.token, Payout(x), EffectiveLimit(x.token, supply))
  /\ pendingWithdraws' = [pendingWithdraws EXCEPT ![x].executed = TRUE]
  /\ UNCHANGED <<now, chainVars, tokenVars, mappingVars, rateLimits, configVars,
                 withdrawNonceUsed, depositVars>>

\* The bank module and the CW20 contract refuse to move more than the contract has.
PayFromLocked(t, amount) ==
  /\ amount <= locked[t] /\ amount <= holdings[t]
  /\ locked' = [locked EXCEPT ![t] = @ - amount]
  /\ holdings' = [holdings EXCEPT ![t] = @ - amount]

WithdrawExecuteUnlock(x) ==
  Execute(x, "LockUnlock") /\ PayFromLocked(x.token, Payout(x)) /\ UNCHANGED supply

\* A denom typed MintBurn cannot be minted: the message to its "contract" fails.
WithdrawExecuteMint(x) ==
  /\ Execute(x, "MintBurn")
  /\ x.token \in Cw20s
  /\ supply' = [supply EXCEPT ![x.token] = @ + Payout(x)]
  /\ UNCHANGED <<locked, holdings>>

\* Plausible defect: the decimals of a paid withdrawal may still be changed.
FixesAnySubmitted(x) == Submitted(x)

MayFix(x) == Submitted(x) /\ ~Executed(x)

\* Approval is not required.
AdminFixPendingDecimals(x, decimals) ==
  /\ AdminMay("fixPendingDecimals")
  /\ MayFix(x)
  /\ pendingWithdraws' = [pendingWithdraws EXCEPT ![x].srcDecimals = decimals]
  /\ UNCHANGED <<now, registryVars, configVars, withdrawNonceUsed, depositVars, valueVars>>

(***************************************************************************)
(* Administration: all but accepting the role is the current admin's.      *)
(***************************************************************************)
SetPaused(on) ==
  /\ AdminMay("pause")
  /\ paused' = on
  /\ UNCHANGED <<roleVars, withdrawDelay, feeConfig, customFees>>

ProposeAdmin(a) ==
  /\ AdminMay("proposeAdmin")
  /\ pendingAdmin' = [address |-> a, executeAfter |-> now + ADMIN_TIMELOCK]
  /\ UNCHANGED <<paused, admin, operators, operatorCount, minSignatures, cancelers,
                 withdrawDelay, feeConfig, customFees>>

AcceptAdmin ==
  /\ pendingAdmin # NoProposal
  /\ now >= pendingAdmin.executeAfter
  /\ admin' = pendingAdmin.address
  /\ pendingAdmin' = NoProposal
  /\ UNCHANGED <<paused, operators, operatorCount, minSignatures, cancelers,
                 withdrawDelay, feeConfig, customFees>>

CancelAdminProposal ==
  /\ AdminMay("cancelAdminProposal")
  /\ pendingAdmin' = NoProposal
  /\ UNCHANGED <<paused, admin, operators, operatorCount, minSignatures, cancelers,
                 withdrawDelay, feeConfig, customFees>>

\* Plausible defect: an address that is an operator already is counted again.
AddsTwice(a) == a \in Accounts

MayAddOperator(a) == a \notin operators

AddOperator(a) ==
  /\ AdminMay("addOperator")
  /\ MayAddOperator(a)
  /\ operators' = operators \cup {a}
  /\ operatorCount' = operatorCount + 1
  /\ UNCHANGED <<paused, admin, pendingAdmin, minSignatures, cancelers,
                 withdrawDelay, feeConfig, customFees>>

RemoveOperator(a) ==
  /\ AdminMay("removeOperator")
  /\ a \in operators
  /\ operatorCount > 1 /\ operatorCount > minSignatures
  /\ operators' = operators \ {a}
  /\ operatorCount' = operatorCount - 1
  /\ UNCHANGED <<paused, admin, pendingAdmin, minSignatures, cancelers,
                 withdrawDelay, feeConfig, customFees>>

UpdateMinSignatures(n) ==
  /\ AdminMay("updateMinSignatures")
  /\ n \in 1..operatorCount
  /\ minSignatures' = n
  /\ UNCHANGED <<paused, admin, pendingAdmin, operators, operatorCount, cancelers,
                 withdrawDelay, feeConfig, customFees>>

SetCanceler(a, on) ==
  /\ AdminMay("setCanceler")
  /\ cancelers' = IF on THEN cancelers \cup {a} ELSE cancelers \ {a}
  /\ UNCHANGED <<paused, admin, pendingAdmin, operators, operatorCount, minSignatures,
                 withdrawDelay, feeConfig, customFees>>

\* Plausible defect: the range is not checked.
SetAnyWithdrawDelay(delay) ==
  /\ AdminMay("setWithdrawDelay")
  /\ withdrawDelay' = delay
  /\ UNCHANGED <<paused, roleVars, feeConfig, customFees>>

SetWithdrawDelay(delay) ==
  /\ AdminMay("setWithdrawDelay")
  /\ delay \in MIN_DELAY..MAX_DELAY
  /\ withdrawDelay' = delay
  /\ UNCHANGED <<paused, roleVars, feeConfig, customFees>>

\* The discount token, once set, is never unset.
SetFeeParams(standard, discounted, setsToken) ==
  /\ AdminMay("setFeeParams")
  /\ standard <= MAX_FEE_BPS /\ discounted <= MAX_FEE_BPS
  /\ feeConfig' = [standard |-> standard, discounted |-> discounted,
                   discountOn |-> feeConfig.discountOn \/ setsToken]
  /\ UNCHANGED <<paused, roleVars, withdrawDelay, customFees>>

SetCustomAccountFee(a, bps) ==
  /\ AdminMay("setCustomAccountFee")
  /\ bps <= MAX_FEE_BPS
  /\ customFees' = [customFees EXCEPT ![a] = bps]
  /\ UNCHANGED <<paused, roleVars, withdrawDelay, feeConfig>>

RemoveCustomAccountFee(a) ==
  /\ AdminMay("setCustomAccountFee")
  /\ customFees' = [customFees EXCEPT ![a] = NoFee]
  /\ UNCHANGED <<paused, roleVars, withdrawDelay, feeConfig>>

ConfigAdmin ==
  \/ \E on \in BOOLEAN : SetPaused(on)
  \/ \E a \in Accounts, on \in BOOLEAN : SetCanceler(a, on)
  \/ \E delay \in Delays : SetWithdrawDelay(delay)

RoleAdmin ==
  \/ \E a \in Accounts :
       \/ ProposeAdmin(a)
       \/ AddOperator(a)
       \/ RemoveOperator(a)
       \/ \E bps \in CustomFees : SetCustomAccountFee(a, bps)
       \/ RemoveCustomAccountFee(a)
  \/ CancelAdminProposal
  \/ \E n \in 1..operatorCount : UpdateMinSignatures(n)
  \/ \E standard, discounted \in StandardFees, on \in BOOLEAN :
       SetFeeParams(standard, discounted, on)

\* LOCKED_BALANCES is left as it was.
RecoverAsset(t, amount) ==
  /\ AdminMay("recoverAsset")
  /\ paused
  /\ amount <= holdings[t]
  /\ holdings' = [holdings EXCEPT ![t] = @ - amount]
  /\ UNCHANGED <<now, registryVars, configVars, withdrawVars, depositVars, locked, supply>>

\* Anybody may send tokens to the contract's address without calling it.
Gift(t, amount) ==
  /\ holdings[t] + amount <= MaxGifted /\ amount <= supply[t] - holdings[t]
  /\ holdings' = [holdings EXCEPT ![t] = @ + amount]
  /\ UNCHANGED <<now, registryVars, configVars, withdrawVars, depositVars, locked, supply>>

Deposit(t) ==
  \E a \in Accounts, c \in Chains, amount \in DepositAmounts, holds \in BOOLEAN :
    \/ DepositNative(a, t, c, amount, holds)
    \/ DepositCw20Lock(a, t, c, amount, holds)
    \/ DepositCw20MintableBurn(a, t, c, amount, holds)

Withdraw(x) ==
  \/ \E tip \in Tips : WithdrawSubmit(x, tip)
  \/ \E a \in Accounts : WithdrawApprove(a, x) \/ WithdrawCancel(a, x) \/ WithdrawUncancel(a, x)
  \/ WithdrawExecuteUnlock(x)
  \/ WithdrawExecuteMint(x)
  \/ \E n \in AdminDecimals : AdminFixPendingDecimals(x, n)

Next ==
  \/ (\E t \in Tokens : Deposit(t)) /\ UNCHANGED adminCalls
  \/ (\E x \in Xfers : Withdraw(x)) /\ UNCHANGED adminCalls
  \/ /\ ConfigAdmin \/ AcceptAdmin
     /\ UNCHANGED <<now, registryVars, withdrawVars, depositVars, valueVars, adminCalls>>
  \/ /\ \E t \in Tokens : \/ \E amount \in Recoveries : RecoverAsset(t, amount)
                          \/ \E amount \in Gifts : Gift(t, amount)
     /\ UNCHANGED adminCalls
  \/ /\ adminCalls < MaxAdminCalls /\ adminCalls' = adminCalls + 1
     /\ \/ RoleAdmin /\ UNCHANGED registryVars
        \/ RegistryAdmin(supply) /\ UNCHANGED configVars
     /\ UNCHANGED <<now, withdrawVars, depositVars, valueVars>>
  \/ /\ Tick
     /\ UNCHANGED <<registryVars, configVars, withdrawVars, depositVars, valueVars, adminCalls>>

Spec == Init /\ [][Next]_vars
=============================================================================
