--------------------------- MODULE EvmBridgeProofs ---------------------------
(***************************************************************************)
(* Safety of Bridge.sol for every set of transfers, tokens, chains, tips,  *)
(* fees and administrative operations, by one inductive invariant.         *)
(***************************************************************************)
EXTENDS EvmBridgeSafety, FiniteSums, TLAPS

\* LockUnlock never holds more of a token than exists.
VaultsBacked == \A t \in Tokens : locked[t] <= supply[t]

Withdrawals == StagesOrdered /\ NonceUnique /\ PendingSetExact

IInv == TypeOK /\ VaultsBacked /\ Withdrawals

(***************************************************************************)
(* Arithmetic                                                              *)
(***************************************************************************)
\* A fee of at most one percent never exceeds the amount it is taken from.
LEMMA FeeWithinAmount ==
  ASSUME NEW amount \in Nat, NEW bps \in 0..MAX_FEE_BPS
  PROVE  FeeFromBps(amount, bps) \in 0..amount
<1>1. amount * bps \in Nat
  BY DEF MAX_FEE_BPS
<1>2. amount * bps <= amount * 10000
  BY DEF MAX_FEE_BPS
<1> QED
  BY <1>1, <1>2 DEF FeeFromBps, BPS_DENOMINATOR

\* Whatever rate applies to a depositor is within the maximum.
LEMMA NetIsNat ==
  ASSUME FeeTypeOK, NEW a \in Accounts, NEW holds \in BOOLEAN, NEW amount \in Nat
  PROVE  amount - CalculateFee(a, holds, amount) \in 0..amount
<1>1. EffectiveFeeBps(a, holds) \in 0..MAX_FEE_BPS
  BY DEF FeeTypeOK, EffectiveFeeBps
<1>2. CalculateFee(a, holds, amount) \in 0..amount
  BY <1>1, FeeWithinAmount DEF CalculateFee
<1> QED
  BY <1>2

\* An amount in local decimals is a natural number, whichever way it is scaled.
LEMMA NormalizedIsNat ==
  ASSUME NEW amount \in Nat, NEW src \in 0..MaxDecimals, NEW dest \in 0..MaxDecimals
  PROVE  NormalizeDecimals(amount, src, dest) \in Nat
<1>1. CASE src > dest
  <2>1. src - dest \in 0..MaxDecimals
    BY <1>1, BridgeAssumption
  <2>2. 10^(src - dest) \in Nat \ {0}
    BY <2>1, ScaleAssumption
  <2>3. amount \div 10^(src - dest) \in Nat
    BY <2>2
  <2> QED
    BY <1>1, <2>3 DEF NormalizeDecimals
<1>2. CASE ~(src > dest)
  <2>1. dest - src \in 0..MaxDecimals
    BY <1>2, BridgeAssumption
  <2>2. 10^(dest - src) \in Nat
    BY <2>1, ScaleAssumption
  <2>3. amount * 10^(dest - src) \in Nat
    BY <2>2
  <2> QED
    BY <1>2, <2>3 DEF NormalizeDecimals
<1> QED
  BY <1>1, <1>2

\* So is the payout of a submitted withdrawal.
LEMMA PayoutIsNat ==
  ASSUME TypeOK, StagesOrdered, NEW x \in Xfers, Submitted(x)
  PROVE  NormalizedAmount(x) \in Nat
<1>1. /\ x.amount \in Nat /\ LocalDecimals[x.token] \in 0..MaxDecimals
      /\ pendingWithdraws[x].srcDecimals \in 0..MaxDecimals
  BY BridgeAssumption DEF StagesOrdered
<1> QED
  BY <1>1, NormalizedIsNat DEF NormalizedAmount

(***************************************************************************)
(* Initial states                                                          *)
(***************************************************************************)
LEMMA InitIInv == Init => IInv
<1> SUFFICES ASSUME Init PROVE IInv
  OBVIOUS
<1>1. RegistryTypeOK
  <2>1. destTokenOwner \in [Chains -> [DestTokens -> Tokens \cup {NoToken}]]
    BY DEF Init, DeployedRegistry
  <2> QED
    BY <2>1, DeploymentAssumption DEF Init, DeployedRegistry, RegistryTypeOK, NoWindow
<1>2. VaultTypeOK /\ VaultsBacked
  BY DeploymentAssumption DEF Init, VaultTypeOK, VaultsBacked
<1>3. NotSubmitted \in Withdrawal
  BY DEF NotSubmitted, Withdrawal
<1>4. TypeOK
  <2>1. pendingWithdraws \in [Xfers -> Withdrawal]
    BY <1>3 DEF Init, BridgeInit
  <2>2. cancelWindow \in MIN_CANCEL_WINDOW..MAX_CANCEL_WINDOW
    BY BridgeAssumption DEF Init, BridgeInit
  <2>3. operators \subseteq Accounts /\ cancelers \subseteq Accounts
    BY BridgeAssumption DEF Init, BridgeInit
  <2>6. FeeTypeOK
    BY FeeAssumption DEF Init, BridgeInit, FeeInit, FeeTypeOK
  <2>4. now \in Nat \ {0} /\ depositNonce \in Nat \ {0} /\ ethBalance \in Nat /\ paused = FALSE
    BY DEF Init, StartOfTime, BridgeInit
  <2>5. pendingWithdrawHashes = {} /\ withdrawNonceUsed = {} /\ deposits = {}
    BY DEF Init, BridgeInit
  <2> QED
    BY <1>1, <1>2, <2>1, <2>2, <2>3, <2>4, <2>5, <2>6 DEF TypeOK
<1>5. Withdrawals
  BY DEF Init, BridgeInit, Withdrawals, StagesOrdered, NonceUnique, PendingSetExact,
         Submitted, Approved, Cancelled, Executed, NotSubmitted
<1> QED
  BY <1>2, <1>4, <1>5 DEF IInv

(***************************************************************************)
(* Steps that leave the withdrawals alone                                  *)
(***************************************************************************)
LEMMA WithdrawalsUntouched ==
  ASSUME IInv, UNCHANGED withdrawVars, now' \in Nat, now <= now'
  PROVE  Withdrawals'
  BY DEF IInv, Withdrawals, StagesOrdered, NonceUnique, PendingSetExact, withdrawVars,
         Submitted, Approved, Cancelled, Executed, TypeOK, Withdrawal

\* The three deposit functions touch no withdrawal.
LEMMA DepositStep == IInv /\ Deposit => IInv'
<1> SUFFICES ASSUME IInv, NEW a \in Accounts, NEW holds \in BOOLEAN, NEW c \in Chains,
                    NEW amount \in DepositAmounts,
                    \/ DepositNative(a, holds, c, amount)
                    \/ \E t \in Tokens : \/ DepositERC20(a, holds, t, c, amount)
                                         \/ DepositERC20Mintable(a, holds, t, c, amount)
             PROVE  IInv'
  BY DEF Deposit
<1> DEFINE net == amount - CalculateFee(a, holds, amount)
<1>1. amount \in Nat /\ net \in Nat /\ net <= amount
  BY NetIsNat, BridgeAssumption DEF IInv, TypeOK
<1> HIDE DEF net
<1>2. ASSUME NEW t \in Tokens, CanDeposit(t, c), RecordDeposit(t, c, net)
      PROVE  /\ depositNonce' \in Nat \ {0}
             /\ deposits' \subseteq [destChain : Chains, destToken : DestTokens, token : Tokens,
                                     amount : Nat, nonce : Nat \ {0}]
  BY <1>1, <1>2 DEF CanDeposit, RecordDeposit, GetDestToken, IInv, TypeOK, RegistryTypeOK
<1>3. CASE DepositNative(a, holds, c, amount)
  <2>1. WrappedNative \in Tokens
    BY <1>3, BridgeAssumption DEF DepositNative
  <2>2. RecordDeposit(WrappedNative, c, net) /\ CanDeposit(WrappedNative, c)
    BY <1>3 DEF DepositNative, net
  <2>3. ethBalance' \in Nat
    BY <1>1, <1>3 DEF DepositNative, net, IInv, TypeOK
  <2>4. Withdrawals'
    BY <1>3, WithdrawalsUntouched DEF DepositNative, IInv, TypeOK
  <2> QED
    BY <1>2, <1>3, <2>1, <2>2, <2>3, <2>4
    DEF DepositNative, IInv, TypeOK, RegistryTypeOK, VaultTypeOK, VaultsBacked,
        registryVars, vaultVars, withdrawVars, configVars, roleVars, feeVars, FeeTypeOK
<1>4. ASSUME NEW t \in Tokens, DepositERC20(a, holds, t, c, amount) PROVE IInv'
  <2>1. RecordDeposit(t, c, net) /\ CanDeposit(t, c) /\ Lock(t, net)
    BY <1>4 DEF DepositERC20, net
  <2>2. VaultTypeOK' /\ VaultsBacked'
    BY <1>1, <2>1 DEF Lock, Circulating, IInv, TypeOK, VaultTypeOK, VaultsBacked
  <2>3. Withdrawals'
    BY <1>4, WithdrawalsUntouched DEF DepositERC20, IInv, TypeOK
  <2> QED
    BY <1>2, <1>4, <2>1, <2>2, <2>3
    DEF DepositERC20, IInv, TypeOK, RegistryTypeOK, registryVars, withdrawVars, configVars, roleVars, feeVars, FeeTypeOK
<1>5. ASSUME NEW t \in Tokens, DepositERC20Mintable(a, holds, t, c, amount) PROVE IInv'
  <2>1. RecordDeposit(t, c, net) /\ CanDeposit(t, c) /\ Burn(t, net)
    BY <1>5 DEF DepositERC20Mintable, net
  <2>2. VaultTypeOK' /\ VaultsBacked'
    BY <1>1, <2>1 DEF Burn, Circulating, IInv, TypeOK, VaultTypeOK, VaultsBacked
  <2>3. Withdrawals'
    BY <1>5, WithdrawalsUntouched DEF DepositERC20Mintable, IInv, TypeOK
  <2> QED
    BY <1>2, <1>5, <2>1, <2>2, <2>3
    DEF DepositERC20Mintable, IInv, TypeOK, RegistryTypeOK, registryVars, withdrawVars, configVars, roleVars, feeVars, FeeTypeOK
<1> QED
  BY <1>3, <1>4, <1>5

(***************************************************************************)
(* Steps of a withdrawal                                                   *)
(***************************************************************************)
LEMMA SubmitStep ==
  ASSUME IInv, NEW x \in Xfers, NEW tip \in Tips, WithdrawSubmit(x, tip)
  PROVE  IInv'
<1> USE DEF Submitted, Approved, Cancelled, Executed
<1>1. /\ tip \in Nat
      /\ GetSrcTokenDecimals(x.srcChain, x.token) \in Decimals
  BY BridgeAssumption
  DEF WithdrawSubmit, HasSrcMapping, GetSrcTokenDecimals, IInv, TypeOK, RegistryTypeOK
<1> DEFINE w == [NotSubmitted EXCEPT !.submitted = TRUE, !.operatorGas = tip,
                                     !.srcDecimals = GetSrcTokenDecimals(x.srcChain, x.token)]
<1>2. /\ w \in Withdrawal /\ w.submitted /\ ~w.approved /\ ~w.cancelled /\ ~w.executed
      /\ w.srcDecimals \in Decimals /\ w.approvedAt = 0
  BY <1>1 DEF Withdrawal, NotSubmitted
<1>3. pendingWithdraws' = [pendingWithdraws EXCEPT ![x] = w]
  BY DEF WithdrawSubmit
<1> HIDE DEF w
<1>4. TypeOK'
  <2>1. pendingWithdraws' \in [Xfers -> Withdrawal] /\ pendingWithdrawHashes' \subseteq Xfers
    BY <1>2, <1>3 DEF WithdrawSubmit, IInv, TypeOK
  <2>2. ethBalance' \in Nat
    BY <1>1 DEF WithdrawSubmit, IInv, TypeOK
  <2> QED
    BY <2>1, <2>2 DEF WithdrawSubmit, IInv, TypeOK, RegistryTypeOK, VaultTypeOK,
                      registryVars, vaultVars, depositVars, configVars, roleVars, feeVars, FeeTypeOK
<1>5. StagesOrdered'
  BY <1>2, <1>3 DEF WithdrawSubmit, IInv, TypeOK, Withdrawals, StagesOrdered
<1>6. NonceUnique'
  BY <1>2, <1>3 DEF IInv, TypeOK, Withdrawals, NonceUnique
<1>7. PendingSetExact'
  BY <1>2, <1>3 DEF WithdrawSubmit, IInv, TypeOK, Withdrawals, PendingSetExact
<1> QED
  BY <1>4, <1>5, <1>6, <1>7 DEF WithdrawSubmit, IInv, Withdrawals, VaultsBacked, vaultVars

\* Approval: the nonce was free, so no rival was approved.
LEMMA ApproveStep ==
  ASSUME IInv, NEW a \in Accounts, NEW x \in Xfers, WithdrawApprove(a, x)
  PROVE  IInv'
<1> USE DEF Submitted, Approved, Cancelled, Executed
<1>1. TypeOK'
  <2>1. pendingWithdraws' \in [Xfers -> Withdrawal]
    BY DEF WithdrawApprove, IInv, TypeOK, Withdrawal
  <2>2. ethBalance' \in Nat
    BY DEF WithdrawApprove, IInv, TypeOK, Withdrawal
  <2>3. withdrawNonceUsed' \subseteq {Key(y) : y \in Xfers}
    BY DEF WithdrawApprove, IInv, TypeOK
  <2> QED
    BY <2>1, <2>2, <2>3 DEF WithdrawApprove, IInv, TypeOK, RegistryTypeOK, VaultTypeOK,
                            registryVars, vaultVars, depositVars, configVars, roleVars, feeVars, FeeTypeOK
<1>2. StagesOrdered'
  BY DEF WithdrawApprove, CanApprove, IInv, TypeOK, Withdrawal, Withdrawals, StagesOrdered
<1>3. NonceUnique'
  BY DEF WithdrawApprove, CanApprove, IInv, TypeOK, Withdrawals, StagesOrdered, NonceUnique
<1>4. PendingSetExact'
  BY DEF WithdrawApprove, CanApprove, IInv, TypeOK, Withdrawals, PendingSetExact
<1> QED
  BY <1>1, <1>2, <1>3, <1>4 DEF WithdrawApprove, IInv, Withdrawals, VaultsBacked, vaultVars

\* Cancellation takes the hash off the polled set.
LEMMA CancelStep ==
  ASSUME IInv, NEW a \in Accounts, NEW x \in Xfers, WithdrawCancel(a, x)
  PROVE  IInv'
<1> USE DEF Submitted, Approved, Cancelled, Executed
<1>1. TypeOK'
  <2>1. pendingWithdraws' \in [Xfers -> Withdrawal] /\ pendingWithdrawHashes' \subseteq Xfers
    BY DEF WithdrawCancel, IInv, TypeOK, Withdrawal
  <2> QED
    BY <2>1 DEF WithdrawCancel, IInv, TypeOK, RegistryTypeOK, VaultTypeOK,
                registryVars, vaultVars, depositVars, configVars, roleVars, feeVars, FeeTypeOK
<1>2. StagesOrdered'
  BY DEF WithdrawCancel, IInv, TypeOK, Withdrawal, Withdrawals, StagesOrdered
<1>3. NonceUnique'
  BY DEF WithdrawCancel, IInv, TypeOK, Withdrawals, NonceUnique
<1>4. PendingSetExact'
  BY DEF WithdrawCancel, IInv, TypeOK, Withdrawals, PendingSetExact
<1> QED
  BY <1>1, <1>2, <1>3, <1>4 DEF WithdrawCancel, IInv, Withdrawals, VaultsBacked, vaultVars

\* Reinstatement puts it back.
LEMMA UncancelStep ==
  ASSUME IInv, NEW a \in Accounts, NEW x \in Xfers, WithdrawUncancel(a, x)
  PROVE  IInv'
<1> USE DEF Submitted, Approved, Cancelled, Executed
<1>1. TypeOK'
  <2>1. [pendingWithdraws[x] EXCEPT !.cancelled = FALSE, !.approvedAt = now] \in Withdrawal
    BY DEF IInv, TypeOK, Withdrawal
  <2>2. pendingWithdraws' \in [Xfers -> Withdrawal]
    BY <2>1 DEF WithdrawUncancel, IInv, TypeOK
  <2>3. pendingWithdrawHashes' \subseteq Xfers
    BY DEF WithdrawUncancel, IInv, TypeOK
  <2> QED
    BY <2>2, <2>3 DEF WithdrawUncancel, IInv, TypeOK, RegistryTypeOK, VaultTypeOK,
                registryVars, vaultVars, depositVars, configVars, roleVars, feeVars, FeeTypeOK
<1>2. StagesOrdered'
  BY DEF WithdrawUncancel, IInv, TypeOK, Withdrawal, Withdrawals, StagesOrdered
<1>3. NonceUnique'
  BY DEF WithdrawUncancel, IInv, TypeOK, Withdrawals, NonceUnique
<1>4. PendingSetExact'
  BY DEF WithdrawUncancel, IInv, TypeOK, Withdrawals, PendingSetExact
<1> QED
  BY <1>1, <1>2, <1>3, <1>4 DEF WithdrawUncancel, IInv, Withdrawals, VaultsBacked, vaultVars

\* Charging the rate limit keeps the windows typed.
LEMMA RateLimitTyped ==
  ASSUME TypeOK, NEW t \in Tokens, NEW amount \in Nat, CheckAndUpdateWithdrawRateLimit(t, amount)
  PROVE  withdrawWindows' \in [Tokens -> [windowStart : Nat, used : Nat]]
<1>1. ChargedWindow(t) \in [windowStart : Nat, used : Nat]
  BY DEF ChargedWindow, TypeOK, RegistryTypeOK
<1> DEFINE win == [ChargedWindow(t) EXCEPT !.used = @ + amount]
<1>2. win \in [windowStart : Nat, used : Nat]
  BY <1>1
<1>3. \/ withdrawWindows' = withdrawWindows
      \/ withdrawWindows' = [withdrawWindows EXCEPT ![t] = win]
  BY DEF CheckAndUpdateWithdrawRateLimit
<1> HIDE DEF win
<1> QED
  BY <1>2, <1>3 DEF TypeOK, RegistryTypeOK

\* Execution, by either entry point, takes the hash off the polled set and pays.
LEMMA ExecuteStep ==
  ASSUME IInv, NEW x \in Xfers, WithdrawExecuteUnlock(x) \/ WithdrawExecuteMint(x)
  PROVE  IInv'
<1> USE DEF Submitted, Approved, Cancelled, Executed
<1>1. PICK type \in TokenTypes : Execute(x, type)
  BY DEF WithdrawExecuteUnlock, WithdrawExecuteMint, TokenTypes
<1>2. x.token \in Tokens /\ NormalizedAmount(x) \in Nat
  BY <1>1, PayoutIsNat, BridgeAssumption DEF Execute, ValidExecution, IInv, Withdrawals
<1>3. VaultTypeOK' /\ VaultsBacked'
  <2>1. CASE Unlock(x.token, NormalizedAmount(x))
    BY <1>2, <2>1 DEF Unlock, IInv, TypeOK, VaultTypeOK, VaultsBacked
  <2>2. CASE Mint(x.token, NormalizedAmount(x))
    BY <1>2, <2>2 DEF Mint, IInv, TypeOK, VaultTypeOK, VaultsBacked
  <2> QED
    BY <2>1, <2>2 DEF WithdrawExecuteUnlock, WithdrawExecuteMint
<1>4. RegistryTypeOK'
  BY <1>1, <1>2, RateLimitTyped
  DEF Execute, IInv, TypeOK, RegistryTypeOK, chainVars, mappingVars
<1>5. TypeOK'
  <2>1. pendingWithdraws' \in [Xfers -> Withdrawal] /\ pendingWithdrawHashes' \subseteq Xfers
    BY <1>1 DEF Execute, IInv, TypeOK, Withdrawal
  <2> QED
    BY <1>1, <1>3, <1>4, <2>1 DEF Execute, IInv, TypeOK, depositVars, configVars, roleVars, feeVars, FeeTypeOK
<1>6. StagesOrdered'
  BY <1>1 DEF Execute, ValidExecution, IInv, TypeOK, Withdrawal, Withdrawals, StagesOrdered
<1>7. NonceUnique'
  BY <1>1 DEF Execute, IInv, TypeOK, Withdrawals, NonceUnique
<1>8. PendingSetExact'
  BY <1>1 DEF Execute, IInv, TypeOK, Withdrawals, PendingSetExact
<1> QED
  BY <1>3, <1>5, <1>6, <1>7, <1>8 DEF IInv, Withdrawals

\* Steps that leave the rates alone keep them typed, and so do those of the owner.
LEMMA FeesUntouched == FeeTypeOK /\ UNCHANGED feeVars => FeeTypeOK'
  BY DEF FeeTypeOK, feeVars

LEMMA FeeAdminTyped == FeeTypeOK /\ FeeAdmin => FeeTypeOK'
<1> SUFFICES ASSUME FeeTypeOK, FeeAdmin PROVE FeeTypeOK'
  OBVIOUS
<1>1. ASSUME NEW standard \in StandardFees, NEW discounted \in StandardFees,
             NEW token \in BOOLEAN, SetFeeParams(standard, discounted, token)
      PROVE  FeeTypeOK'
  <2>1. standard \in 0..MAX_FEE_BPS /\ discounted \in 0..MAX_FEE_BPS
    BY <1>1, FeeAssumption DEF SetFeeParams, MAX_FEE_BPS
  <2> QED
    BY <1>1, <2>1 DEF SetFeeParams, FeeTypeOK
<1>2. ASSUME NEW a \in Accounts, NEW bps \in CustomFees, SetCustomAccountFee(a, bps)
      PROVE  FeeTypeOK'
  <2>1. bps \in 0..MAX_FEE_BPS
    BY <1>2, FeeAssumption DEF SetCustomAccountFee, MAX_FEE_BPS
  <2> QED
    BY <1>2, <2>1 DEF SetCustomAccountFee, FeeTypeOK
<1>3. ASSUME NEW a \in Accounts, RemoveCustomAccountFee(a)
      PROVE  FeeTypeOK'
  BY <1>3 DEF RemoveCustomAccountFee, FeeTypeOK
<1> QED
  BY <1>1, <1>2, <1>3 DEF FeeAdmin

(***************************************************************************)
(* Administration and time                                                 *)
(***************************************************************************)
LEMMA BridgeAdminStep == IInv /\ BridgeAdmin => IInv'
<1> SUFFICES ASSUME IInv, BridgeAdmin PROVE IInv'
  OBVIOUS
<1>1. Withdrawals'
  BY WithdrawalsUntouched DEF BridgeAdmin, IInv, TypeOK
<1>2. /\ paused' \in BOOLEAN
      /\ operators' \subseteq Accounts /\ cancelers' \subseteq Accounts
      /\ cancelWindow' \in MIN_CANCEL_WINDOW..MAX_CANCEL_WINDOW
  BY DEF BridgeAdmin, SetPaused, SetCancelWindow, SetOperator, SetCanceler, RecoverAsset,
         Receive, configVars, roleVars, IInv, TypeOK
<1>3. ethBalance' \in Nat
  BY BridgeAssumption
  DEF BridgeAdmin, SetPaused, SetCancelWindow, SetOperator, SetCanceler, RecoverAsset,
      Receive, IInv, TypeOK
<1>4. FeeTypeOK'
  <2>1. CASE FeeAdmin
    BY <2>1, FeeAdminTyped DEF IInv, TypeOK
  <2>2. CASE UNCHANGED feeVars
    BY <2>2, FeesUntouched DEF IInv, TypeOK
  <2> QED
    BY <2>1, <2>2
    DEF BridgeAdmin, SetPaused, SetCancelWindow, SetOperator, SetCanceler, RecoverAsset,
        Receive, configVars
<1> QED
  BY <1>1, <1>2, <1>3, <1>4
  DEF BridgeAdmin, IInv, TypeOK, RegistryTypeOK, VaultTypeOK, VaultsBacked,
      registryVars, vaultVars, withdrawVars, depositVars

\* Default limits are natural numbers.
LEMMA DefaultLimitsTyped ==
  ASSUME TypeOK, NEW t \in Tokens, NEW n \in Nat
  PROVE  DefaultRateLimits(t, n) \in
           [minPerTransaction : Nat, maxPerTransaction : Nat, maxPerPeriod : Nat]
<1>1. n \div 1000000 \in Nat /\ n \div 10000 \in Nat
  OBVIOUS
<1> QED
  BY <1>1 DEF DefaultRateLimits, TypeOK, RegistryTypeOK

\* The registry owner keeps the registry typed.
LEMMA RegistryAdminTyped ==
  ASSUME TypeOK, RegistryAdmin(supply)
  PROVE  RegistryTypeOK'
<1> USE DEF TypeOK, RegistryTypeOK, chainVars, mappingVars, limitVars
<1>1. ASSUME NEW c \in Chains, RegisterChain(c) \/ UnregisterChain(c)
      PROVE  RegistryTypeOK'
  BY <1>1 DEF RegisterChain, UnregisterChain
<1>2. ASSUME NEW t \in Tokens, NEW type \in TokenTypes, RegisterToken(t, type, supply[t])
      PROVE  RegistryTypeOK'
  <2>1. DefaultRateLimits(t, supply[t]) \in
          [minPerTransaction : Nat, maxPerTransaction : Nat, maxPerPeriod : Nat]
    BY DefaultLimitsTyped DEF VaultTypeOK
  <2> QED
    BY <1>2, <2>1 DEF RegisterToken
<1>3. ASSUME NEW t \in Tokens, NEW c \in Chains, NEW d \in DestTokens, SetTokenDestination(t, c, d)
      PROVE  RegistryTypeOK'
  <2>1. ClaimDestToken(t, c, d) \in [Chains -> [DestTokens -> Tokens \cup {NoToken}]]
    BY DEF ClaimDestToken
  <2>2. AddDestChain(t, c) \in [Tokens -> SUBSET Chains]
    BY DEF AddDestChain
  <2> QED
    BY <1>3, <2>1, <2>2 DEF SetTokenDestination
<1>4. ASSUME NEW t \in Tokens, NEW c \in Chains, NEW dec \in Decimals,
             SetIncomingTokenMapping(c, t, dec)
      PROVE  RegistryTypeOK'
  BY <1>4 DEF SetIncomingTokenMapping
<1>5. ASSUME NEW t \in Tokens, NEW type \in TokenTypes, SetTokenType(t, type)
      PROVE  RegistryTypeOK'
  BY <1>5 DEF SetTokenType
<1>6. ASSUME NEW t \in Tokens, UnregisterToken(t)
      PROVE  RegistryTypeOK'
  <2>1. destTokenOwner' \in [Chains -> [DestTokens -> Tokens \cup {NoToken}]]
    BY <1>6 DEF UnregisterToken
  <2>2. tokenDestMappings' \in [Tokens -> [Chains -> DestTokens \cup {NoDestToken}]]
    BY <1>6 DEF UnregisterToken
  <2>3. /\ rateLimitConfigs' \in
             [Tokens -> [minPerTransaction : Nat, maxPerTransaction : Nat, maxPerPeriod : Nat]]
        /\ withdrawWindows' \in [Tokens -> [windowStart : Nat, used : Nat]]
    BY <1>6 DEF UnregisterToken, NoLimits, NoWindow
  <2>4. tokenTypes' \in [Tokens -> TokenTypes] /\ tokenDestChains' \in [Tokens -> SUBSET Chains]
    BY <1>6 DEF UnregisterToken, TokenTypes
  <2> QED
    BY <1>6, <2>1, <2>2, <2>3, <2>4 DEF UnregisterToken
<1>7. ASSUME NEW on \in BOOLEAN, SetRateLimitBridge(on)
      PROVE  RegistryTypeOK'
  BY <1>7 DEF SetRateLimitBridge
<1>8. ASSUME NEW t \in Tokens, NEW config \in RateLimits, SetRateLimit(t, config)
      PROVE  RegistryTypeOK'
  BY <1>8, RegistryAssumption DEF SetRateLimit
<1> QED
  BY <1>1, <1>2, <1>3, <1>4, <1>5, <1>6, <1>7, <1>8 DEF RegistryAdmin

\* The registry owner touches no withdrawal.
LEMMA RegistryStep ==
  ASSUME IInv, RegistryAdmin(supply), UNCHANGED <<now, vaultVars, bridgeVars>>
  PROVE  IInv'
<1>1. RegistryTypeOK'
  BY RegistryAdminTyped DEF IInv
<1>2. Withdrawals'
  BY WithdrawalsUntouched DEF IInv, TypeOK, bridgeVars
<1> QED
  BY <1>1, <1>2 DEF IInv, TypeOK, VaultTypeOK, VaultsBacked, vaultVars, bridgeVars,
                    withdrawVars, depositVars, configVars, roleVars, feeVars, FeeTypeOK

\* Nor do the owners of the asset handlers.
LEMMA VaultStep ==
  ASSUME IInv, VaultAdmin, UNCHANGED <<now, registryVars, bridgeVars>>
  PROVE  IInv'
<1>1. VaultTypeOK' /\ VaultsBacked'
  BY DEF VaultAdmin, SetUnlockAuthorized, SetMintAuthorized, IInv, TypeOK, VaultTypeOK,
         VaultsBacked
<1>2. Withdrawals'
  BY WithdrawalsUntouched DEF IInv, TypeOK, bridgeVars
<1> QED
  BY <1>1, <1>2 DEF IInv, TypeOK, RegistryTypeOK, registryVars, bridgeVars,
                    withdrawVars, depositVars, configVars, roleVars, feeVars, FeeTypeOK

\* Nor does the clock, or a step that changes nothing.
LEMMA IdleStep ==
  ASSUME IInv, now' \in Nat \ {0}, now <= now', UNCHANGED <<registryVars, vaultVars, bridgeVars>>
  PROVE  IInv'
<1>1. Withdrawals'
  BY WithdrawalsUntouched DEF bridgeVars
<1> QED
  BY <1>1 DEF IInv, TypeOK, RegistryTypeOK, VaultTypeOK, VaultsBacked, registryVars,
              vaultVars, bridgeVars, withdrawVars, depositVars, configVars, roleVars, feeVars, FeeTypeOK

\* Every step keeps the inductive invariant.
LEMMA StepIInv == IInv /\ [Next]_vars => IInv'
<1> SUFFICES ASSUME IInv, [Next]_vars PROVE IInv'
  OBVIOUS
<1>1. CASE Deposit
  BY <1>1, DepositStep
<1>2. ASSUME NEW x \in Xfers, Withdraw(x) PROVE IInv'
  BY <1>2, SubmitStep, ApproveStep, CancelStep, UncancelStep, ExecuteStep DEF Withdraw
<1>3. CASE BridgeAdmin
  BY <1>3, BridgeAdminStep
<1>4. CASE RegistryAdmin(supply) /\ UNCHANGED <<now, vaultVars, bridgeVars>>
  BY <1>4, RegistryStep
<1>5. CASE VaultAdmin /\ UNCHANGED <<now, registryVars, bridgeVars>>
  BY <1>5, VaultStep
<1>6. CASE Tick /\ UNCHANGED <<registryVars, vaultVars, bridgeVars>>
  <2>1. now' \in Nat \ {0} /\ now <= now'
    BY <1>6 DEF Tick, IInv, TypeOK
  <2> QED
    BY <1>6, <2>1, IdleStep
<1>7. CASE UNCHANGED vars
  <2>1. now' \in Nat \ {0} /\ now <= now'
    BY <1>7 DEF vars, IInv, TypeOK
  <2> QED
    BY <1>7, <2>1, IdleStep DEF vars
<1> QED
  BY <1>1, <1>2, <1>3, <1>4, <1>5, <1>6, <1>7 DEF Next

\* The inductive invariant holds throughout.
THEOREM Invariance == Spec => []IInv
  BY InitIInv, StepIInv, PTL DEF Spec

\* Every variable keeps its type: in particular no balance of ETH or of locked tokens
\* is ever negative and the cancel window stays within its bounds.
THEOREM TypeCorrect == Spec => []TypeOK
<1>1. IInv => TypeOK
  BY DEF IInv
<1> QED
  BY <1>1, Invariance, PTL

\* At most one transfer per source deposit is ever approved.
THEOREM NonceIsUnique == Spec => []NonceUnique
<1>1. IInv => NonceUnique
  BY DEF IInv, Withdrawals
<1> QED
  BY <1>1, Invariance, PTL

\* The set that cancelers poll is exact.
THEOREM PendingSetIsExact == Spec => []PendingSetExact
<1>1. IInv => PendingSetExact
  BY DEF IInv, Withdrawals
<1> QED
  BY <1>1, Invariance, PTL

(***************************************************************************)
(* Refinement                                                              *)
(***************************************************************************)
LEMMA InitRefines == Init => WT!Init
  BY DEF Init, StartOfTime, BridgeInit, NotSubmitted, WT!Init, Stage, Submitted, Approved,
         Cancelled, Executed

\* What the abstract step of a withdrawal needs to know: how the stage of every
\* transfer follows from the record the concrete step writes.
LEMMA StagesUntouched ==
  ASSUME UNCHANGED withdrawVars
  PROVE  /\ [y \in Xfers |-> Stage(y)]' = [y \in Xfers |-> Stage(y)]
         /\ [y \in Xfers |-> pendingWithdraws[y].approvedAt]'
              = [y \in Xfers |-> pendingWithdraws[y].approvedAt]
  BY DEF withdrawVars, Stage, Submitted, Approved, Cancelled, Executed

\* Each step of a withdrawal is the step of the same name of a watchtower.
LEMMA WithdrawRefines ==
  ASSUME IInv, NEW x \in Xfers, Withdraw(x)
  PROVE  [WT!Next]_(WT!vars)
<1> USE DEF Submitted, Approved, Cancelled, Executed, Stage, IInv, TypeOK, Withdrawals,
            StagesOrdered, Withdrawal, WT!Advance
<1>1. ASSUME NEW tip \in Tips, WithdrawSubmit(x, tip) PROVE WT!Submit(x)
  <2>1. Stage(x) = "none" /\ pendingWithdraws[x].approvedAt = 0
    BY <1>1 DEF WithdrawSubmit
  <2> DEFINE w == [NotSubmitted EXCEPT !.submitted = TRUE, !.operatorGas = tip,
                     !.srcDecimals = GetSrcTokenDecimals(x.srcChain, x.token)]
  <2>2. /\ pendingWithdraws' = [pendingWithdraws EXCEPT ![x] = w]
        /\ w.submitted /\ ~w.approved /\ ~w.cancelled /\ ~w.executed
        /\ w.approvedAt = 0
    BY <1>1 DEF WithdrawSubmit, NotSubmitted
  <2> HIDE DEF w
  <2>3. [y \in Xfers |-> Stage(y)]' = [[y \in Xfers |-> Stage(y)] EXCEPT ![x] = "submitted"]
    BY <2>2
  <2>4. [y \in Xfers |-> pendingWithdraws[y].approvedAt]'
          = [y \in Xfers |-> pendingWithdraws[y].approvedAt]
    BY <2>1, <2>2
  <2> QED
    BY <1>1, <2>1, <2>3, <2>4 DEF WithdrawSubmit, WT!Submit
<1>2. ASSUME NEW a \in Accounts, WithdrawApprove(a, x) PROVE WT!Approve(x)
  <2>1. \A y \in Xfers : WT!Key(y) = WT!Key(x) => Stage(y) \notin WT!Vouched
    BY <1>2 DEF WithdrawApprove, CanApprove, Key, WT!Key, WT!Vouched
  <2> QED
    BY <1>2, <2>1 DEF WithdrawApprove, CanApprove, WT!Approve
<1>3. ASSUME NEW a \in Accounts, WithdrawCancel(a, x)
      PROVE  WT!Cancel(x) \/ UNCHANGED WT!vars
  BY <1>3 DEF WithdrawCancel, WT!Cancel, WT!vars
<1>4. ASSUME NEW a \in Accounts, WithdrawUncancel(a, x) PROVE WT!Reinstate(x)
  BY <1>4 DEF WithdrawUncancel, WT!Reinstate
<1>5. ASSUME NEW type \in TokenTypes, Execute(x, type) PROVE WT!Execute(x)
  <2>1. now > pendingWithdraws[x].approvedAt + MIN_CANCEL_WINDOW
    BY <1>5, BridgeAssumption DEF Execute, ValidExecution, WindowEnd
  <2> QED
    BY <1>5, <2>1 DEF Execute, ValidExecution, WT!Execute
<1>6. ASSUME WithdrawExecuteUnlock(x) \/ WithdrawExecuteMint(x)
      PROVE  WT!Execute(x)
  BY <1>5, <1>6 DEF WithdrawExecuteUnlock, WithdrawExecuteMint, TokenTypes
<1> QED
  BY <1>1, <1>2, <1>3, <1>4, <1>6 DEF Withdraw, WT!Next

\* Every step of the bridge is a step of a watchtower or a stutter.
LEMMA StepRefines == IInv /\ [Next]_vars => [WT!Next]_(WT!vars)
<1> SUFFICES ASSUME IInv, [Next]_vars PROVE [WT!Next]_(WT!vars)
  OBVIOUS
<1>1. ASSUME NEW x \in Xfers, Withdraw(x) PROVE [WT!Next]_(WT!vars)
  BY <1>1, WithdrawRefines
<1>2. ASSUME UNCHANGED <<now, withdrawVars>> PROVE UNCHANGED WT!vars
  BY <1>2, StagesUntouched DEF WT!vars
<1>3. CASE Deposit \/ BridgeAdmin
  BY <1>2, <1>3 DEF Deposit, DepositNative, DepositERC20, DepositERC20Mintable, BridgeAdmin
<1>4. CASE UNCHANGED <<now, bridgeVars>>
  BY <1>2, <1>4 DEF bridgeVars
<1>5. CASE Tick /\ UNCHANGED bridgeVars
  <2>1. UNCHANGED withdrawVars /\ now' > now /\ now' \in Nat
    BY <1>5 DEF Tick, IInv, TypeOK, bridgeVars
  <2> QED
    BY <2>1, StagesUntouched DEF WT!Next, WT!Wait
<1>6. CASE UNCHANGED vars
  BY <1>2, <1>6 DEF vars, bridgeVars
<1> QED
  BY <1>1, <1>3, <1>4, <1>5, <1>6 DEF Next

\* Bridge.sol is a watchtower: its behaviours, seen through the stages of the
\* withdrawals and their approval times, are behaviours of the abstract specification.
THEOREM BridgeIsWatchtower == Spec => ImplementsWatchtower
  BY InitRefines, StepRefines, Invariance, PTL DEF Spec, ImplementsWatchtower, WT!Spec

(***************************************************************************)
(* Losers of a nonce                                                       *)
(***************************************************************************)
Preserves(x) ==
  Stuck(x) => /\ Stuck(x)' /\ x \in pendingWithdrawHashes'
              /\ pendingWithdraws[x].operatorGas = pendingWithdraws'[x].operatorGas

\* No step frees a withdrawal whose nonce went to a rival.
LEMMA StepKeepsStuck ==
  ASSUME IInv, [Next]_vars, NEW x \in Xfers
  PROVE  Preserves(x)
<1> USE DEF Preserves, Stuck, Submitted, Approved, Cancelled, Executed
<1>1. Stuck(x) => x \in pendingWithdrawHashes /\ ~Cancelled(x) /\ ~Executed(x)
  BY DEF IInv, Withdrawals, PendingSetExact, StagesOrdered
<1>2. CASE UNCHANGED withdrawVars
  BY <1>1, <1>2 DEF withdrawVars
<1>3. ASSUME NEW y \in Xfers, NEW tip \in Tips, WithdrawSubmit(y, tip)
      PROVE  Preserves(x)
  BY <1>1, <1>3 DEF WithdrawSubmit, IInv, TypeOK
<1>4. ASSUME NEW y \in Xfers, NEW a \in Accounts, WithdrawApprove(a, y)
      PROVE  Preserves(x)
  BY <1>1, <1>4 DEF WithdrawApprove, CanApprove, IInv, TypeOK, Withdrawal
<1>5. ASSUME NEW y \in Xfers, NEW a \in Accounts, WithdrawCancel(a, y)
      PROVE  Preserves(x)
  BY <1>1, <1>5 DEF WithdrawCancel, IInv, TypeOK, Withdrawal
<1>6. ASSUME NEW y \in Xfers, NEW a \in Accounts, WithdrawUncancel(a, y)
      PROVE  Preserves(x)
  BY <1>1, <1>6 DEF WithdrawUncancel, IInv, TypeOK, Withdrawal
<1>7. ASSUME NEW y \in Xfers, WithdrawExecuteUnlock(y) \/ WithdrawExecuteMint(y)
      PROVE  Preserves(x)
  BY <1>1, <1>7
  DEF WithdrawExecuteUnlock, WithdrawExecuteMint, Execute, ValidExecution, IInv, TypeOK, Withdrawal
<1> QED
  BY <1>2, <1>3, <1>4, <1>5, <1>6, <1>7
  DEF Next, vars, bridgeVars, Deposit, DepositNative, DepositERC20, DepositERC20Mintable,
      BridgeAdmin, Withdraw

\* A transfer whose nonce went to a rival is stuck for good, tip included.
THEOREM StuckStays == Spec => StuckForever
<1>1. IInv /\ [Next]_vars =>
        [\A x \in Xfers : Stuck(x) =>
           /\ Stuck(x)' /\ x \in pendingWithdrawHashes'
           /\ pendingWithdraws[x].operatorGas = pendingWithdraws'[x].operatorGas]_vars
  BY StepKeepsStuck DEF Preserves
<1> QED
  BY <1>1, Invariance, PTL DEF Spec, StuckForever

(***************************************************************************)
(* The ledger: every deposit and every payout is accounted for.  Only      *)
(* finitely many of either have happened, so their sums are sums.          *)
(***************************************************************************)
AllSubmitted == {x \in Xfers : Submitted(x)}

Ledger ==
  /\ IsFiniteSet(deposits) /\ IsFiniteSet(AllSubmitted)
  /\ DepositNoncesDense
  /\ CirculationConserved

LEMMA InitLedger == Init => Ledger
<1> SUFFICES ASSUME Init PROVE Ledger
  OBVIOUS
<1>1. deposits = {} /\ AllSubmitted = {} /\ depositNonce = 1
  BY DEF Init, BridgeInit, AllSubmitted, Submitted, NotSubmitted
<1>2. IsFiniteSet({}) /\ Cardinality({}) = 0
  BY FS_EmptySet
<1>3. ASSUME NEW t \in Tokens PROVE Deposited(t) = 0 /\ PaidOut(t) = 0
  <2>1. {d \in deposits : d.token = t} = {} /\ Released(t) = {}
    BY <1>1 DEF Released, Executed, Init, BridgeInit, NotSubmitted
  <2> QED
    BY <2>1, SumEmpty DEF Deposited, PaidOut
<1>4. \A t \in Tokens : Circulating(t) = InitialSupply[t] - InitialLocked[t]
  BY DEF Init, Circulating
<1> QED
  BY <1>1, <1>2, <1>3, <1>4, DeploymentAssumption DEF Ledger, DepositNoncesDense, CirculationConserved

\* A new record has a nonce of its own, and adds its amount to the deposits of its token.
LEMMA RecordOnLedger ==
  ASSUME IInv, IsFiniteSet(deposits), DepositNoncesDense,
         NEW t \in Tokens, NEW c \in Chains, NEW net \in Nat, RecordDeposit(t, c, net)
  PROVE  /\ IsFiniteSet(deposits') /\ DepositNoncesDense'
         /\ \A u \in Tokens : /\ Deposited(u) \in Nat
                              /\ Deposited(u)' = Deposited(u) + (IF u = t THEN net ELSE 0)
<1> DEFINE d == [destChain |-> c, destToken |-> GetDestToken(t, c),
                 token |-> t, amount |-> net, nonce |-> depositNonce]
<1>1. deposits' = deposits \cup {d} /\ depositNonce' = depositNonce + 1
  BY DEF RecordDeposit
<1>2. d.token = t /\ d.amount = net /\ d.nonce = depositNonce
  OBVIOUS
<1> HIDE DEF d
<1>3. depositNonce \in Nat \ {0} /\ \A e \in deposits : e.amount \in Nat
  BY DEF IInv, TypeOK
<1>4. d \notin deposits
  <2>1. depositNonce \notin 1..(depositNonce - 1)
    BY <1>3
  <2> QED
    BY <1>2, <2>1 DEF DepositNoncesDense
<1>5. IsFiniteSet(deposits') /\ Cardinality(deposits') = Cardinality(deposits) + 1
  BY <1>1, <1>4, FS_AddElement
<1>6. DepositNoncesDense'
  <2>1. {e.nonce : e \in deposits'} = {e.nonce : e \in deposits} \cup {depositNonce}
    BY <1>1, <1>2
  <2>2. 1..(depositNonce' - 1) = 1..(depositNonce - 1) \cup {depositNonce}
    BY <1>1, <1>3
  <2>3. Cardinality(deposits') = depositNonce' - 1
    BY <1>1, <1>3, <1>5 DEF DepositNoncesDense
  <2> QED
    BY <2>1, <2>2, <2>3 DEF DepositNoncesDense
<1>7. ASSUME NEW u \in Tokens
      PROVE  /\ Deposited(u) \in Nat
             /\ Deposited(u)' = Deposited(u) + (IF u = t THEN net ELSE 0)
  <2> DEFINE S == {e \in deposits : e.token = u}
             T == {e \in deposits' : e.token = u}
             f == [e \in deposits |-> e.amount]
             g == [e \in deposits' |-> e.amount]
  <2>1. IsFiniteSet(S)
    BY FS_Subset
  <2>2. S \ {d} = T \ {d} /\ d \notin S /\ (d \in T <=> u = t)
    BY <1>1, <1>2, <1>4
  <2>3. AllNat(f, S) /\ AllNat(g, T) /\ g[d] = net /\ \A e \in S \ {d} : f[e] = g[e]
    BY <1>1, <1>2, <1>3 DEF AllNat
  <2> HIDE DEF S, T, f, g
  <2>4. /\ SumFunctionOnSet(f, S) \in Nat /\ SumFunctionOnSet(g, T) \in Nat
        /\ SumFunctionOnSet(g, T) + (IF d \in S THEN f[d] ELSE 0) =
             SumFunctionOnSet(f, S) + (IF d \in T THEN g[d] ELSE 0)
    BY <2>1, <2>2, <2>3, SumChange
  <2>5. SumFunctionOnSet(g, T) = SumFunctionOnSet(f, S) + (IF u = t THEN net ELSE 0)
    BY <2>2, <2>3, <2>4
  <2> QED
    BY <2>4, <2>5 DEF Deposited, S, T, f, g
<1> QED
  BY <1>5, <1>6, <1>7

LEMMA DepositedIsNat ==
  ASSUME IInv, IsFiniteSet(deposits), NEW t
  PROVE  Deposited(t) \in Nat
<1> DEFINE f == [d \in deposits |-> d.amount]
           S == {d \in deposits : d.token = t}
<1>1. IsFiniteSet(S)
  BY FS_Subset
<1>2. AllNat(f, S)
  BY DEF AllNat, IInv, TypeOK
<1> HIDE DEF f, S
<1>3. SumFunctionOnSet(f, S) \in Nat
  BY <1>1, <1>2, SumNat
<1> QED
  BY <1>3 DEF Deposited, f, S

\* What was paid out is finite, and a natural number of each token.
LEMMA PaidIsNat ==
  ASSUME IInv, IsFiniteSet(AllSubmitted), NEW t
  PROVE  /\ IsFiniteSet(Released(t))
         /\ \A x \in Released(t) : NormalizedAmount(x) \in Nat
         /\ PaidOut(t) \in Nat
<1>1. Released(t) \subseteq AllSubmitted
  BY DEF Released, AllSubmitted, IInv, Withdrawals, StagesOrdered
<1>2. IsFiniteSet(Released(t))
  BY <1>1, FS_Subset
<1>3. \A x \in Released(t) : NormalizedAmount(x) \in Nat
  BY <1>1, PayoutIsNat DEF IInv, Withdrawals, AllSubmitted
<1> DEFINE f == [x \in Released(t) |-> NormalizedAmount(x)]
<1>4. AllNat(f, Released(t))
  BY <1>3 DEF AllNat
<1> HIDE DEF f
<1>5. SumFunctionOnSet(f, Released(t)) \in Nat
  BY <1>2, <1>4, SumNat
<1> QED
  BY <1>2, <1>3, <1>5 DEF PaidOut, f

\* A step that executes nothing restates no payout.
NothingExecuted ==
  \A x \in Xfers : /\ Executed(x)' <=> Executed(x)
                   /\ Executed(x) => pendingWithdraws'[x].srcDecimals = pendingWithdraws[x].srcDecimals

LEMMA PaidUntouched ==
  ASSUME NothingExecuted, NEW t
  PROVE  PaidOut(t)' = PaidOut(t)
<1>1. Released(t)' = Released(t)
  BY DEF NothingExecuted, Released, Executed
<1>2. \A x \in Released(t) : NormalizedAmount(x)' = NormalizedAmount(x)
  BY DEF NothingExecuted, Released, Executed, NormalizedAmount
<1>3. [x \in Released(t) |-> NormalizedAmount(x)]' = [x \in Released(t) |-> NormalizedAmount(x)]
  BY <1>1, <1>2
<1> QED
  BY <1>1, <1>3 DEF PaidOut

\* A step that moves no token keeps the ledger.
LEMMA LedgerUntouched ==
  ASSUME Ledger, UNCHANGED <<locked, supply, depositVars>>, NothingExecuted,
         IsFiniteSet(AllSubmitted')
  PROVE  Ledger'
<1>1. \A t : Deposited(t)' = Deposited(t) /\ PaidOut(t)' = PaidOut(t)
  BY PaidUntouched DEF Deposited, depositVars
<1> QED
  BY <1>1 DEF Ledger, DepositNoncesDense, CirculationConserved, Circulating, depositVars

\* How the asset handlers change what circulates.
LEMMA VaultMoves ==
  ASSUME TypeOK, NEW t \in Tokens, NEW amount \in Nat
  PROVE  /\ Lock(t, amount) \/ Burn(t, amount) =>
              \A u \in Tokens :
                Circulating(u)' = Circulating(u) - (IF u = t THEN amount ELSE 0)
         /\ Unlock(t, amount) \/ Mint(t, amount) =>
              \A u \in Tokens :
                Circulating(u)' = Circulating(u) + (IF u = t THEN amount ELSE 0)
         /\ \A u \in Tokens : Circulating(u) \in Int
  BY DEF Lock, Burn, Unlock, Mint, Circulating, TypeOK, VaultTypeOK

LEMMA DepositKeepsLedger == IInv /\ Ledger /\ Deposit => Ledger'
<1> SUFFICES ASSUME IInv, Ledger, NEW a \in Accounts, NEW holds \in BOOLEAN, NEW c \in Chains,
                    NEW amount \in DepositAmounts,
                    \/ DepositNative(a, holds, c, amount)
                    \/ \E t \in Tokens : \/ DepositERC20(a, holds, t, c, amount)
                                         \/ DepositERC20Mintable(a, holds, t, c, amount)
             PROVE  Ledger'
  BY DEF Deposit
<1> DEFINE net == amount - CalculateFee(a, holds, amount)
<1>1. net \in Nat
  BY NetIsNat, BridgeAssumption DEF IInv, TypeOK
<1>2. PICK t \in Tokens : /\ RecordDeposit(t, c, net)
                          /\ \/ t = WrappedNative /\ UNCHANGED vaultVars
                             \/ Lock(t, net) \/ Burn(t, net)
  BY BridgeAssumption DEF DepositNative, DepositERC20, DepositERC20Mintable
<1>3. UNCHANGED withdrawVars
  BY DEF DepositNative, DepositERC20, DepositERC20Mintable
<1> HIDE DEF net
<1>4. /\ IsFiniteSet(deposits') /\ DepositNoncesDense'
      /\ \A u \in Tokens : /\ Deposited(u) \in Nat
                           /\ Deposited(u)' = Deposited(u) + (IF u = t THEN net ELSE 0)
  BY <1>1, <1>2, RecordOnLedger DEF Ledger
<1>5. /\ \A u \in Tokens : PaidOut(u)' = PaidOut(u) /\ PaidOut(u) \in Nat
      /\ AllSubmitted' = AllSubmitted
  BY <1>3, PaidUntouched, PaidIsNat
  DEF Ledger, NothingExecuted, withdrawVars, Executed, AllSubmitted, Submitted
<1>6. ASSUME NEW u \in Tokens \ {WrappedNative}
      PROVE  /\ Circulating(u)' = Circulating(u) - (IF u = t THEN net ELSE 0)
             /\ Circulating(u) \in Int
  <2>1. CASE t = WrappedNative /\ UNCHANGED vaultVars
    BY <1>1, <2>1, VaultMoves DEF Circulating, vaultVars, IInv
  <2>2. CASE Lock(t, net) \/ Burn(t, net)
    BY <1>1, <2>2, VaultMoves DEF IInv
  <2> QED
    BY <1>2, <2>1, <2>2
<1>7. CirculationConserved'
  <2> SUFFICES ASSUME NEW u \in Tokens \ {WrappedNative}
               PROVE  (Circulating(u) = InitialSupply[u] - InitialLocked[u] - Deposited(u) + PaidOut(u))'
    BY DEF CirculationConserved
  <2>1. Circulating(u) = InitialSupply[u] - InitialLocked[u] - Deposited(u) + PaidOut(u)
    BY DEF Ledger, CirculationConserved
  <2>2. InitialSupply[u] \in Nat /\ InitialLocked[u] \in Nat
    BY DeploymentAssumption
  <2> QED
    BY <1>1, <1>4, <1>5, <1>6, <2>1, <2>2
<1> QED
  BY <1>4, <1>5, <1>7 DEF Ledger

\* A payout is entered once, at the amount that leaves the asset handler.
LEMMA ExecuteKeepsLedger ==
  ASSUME IInv, Ledger, NEW x \in Xfers, WithdrawExecuteUnlock(x) \/ WithdrawExecuteMint(x)
  PROVE  Ledger'
<1> DEFINE out == NormalizedAmount(x)
<1>1. PICK type \in TokenTypes : Execute(x, type)
  BY DEF WithdrawExecuteUnlock, WithdrawExecuteMint, TokenTypes
<1>2. /\ x.token \in Tokens /\ out \in Nat /\ ~Executed(x) /\ Submitted(x)
      /\ pendingWithdraws' = [pendingWithdraws EXCEPT ![x].executed = TRUE]
      /\ UNCHANGED depositVars
  BY <1>1, PayoutIsNat, BridgeAssumption DEF Execute, ValidExecution, IInv, Withdrawals
<1>3. Unlock(x.token, out) \/ Mint(x.token, out)
  BY DEF WithdrawExecuteUnlock, WithdrawExecuteMint
<1>4. \A y \in Xfers : /\ Executed(y)' <=> Executed(y) \/ y = x
                       /\ NormalizedAmount(y)' = NormalizedAmount(y)
                       /\ Submitted(y)' <=> Submitted(y)
  BY <1>2 DEF Executed, Submitted, NormalizedAmount, IInv, TypeOK, Withdrawal
<1> HIDE DEF out
<1>5. AllSubmitted' = AllSubmitted
  BY <1>4 DEF AllSubmitted
<1>6. ASSUME NEW u \in Tokens
      PROVE  /\ PaidOut(u) \in Nat
             /\ PaidOut(u)' = PaidOut(u) + (IF u = x.token THEN out ELSE 0)
  <2> DEFINE S == Released(u)
             T == Released(u)'
             f == [y \in S |-> NormalizedAmount(y)]
             g == [y \in T |-> NormalizedAmount(y)']
  <2>1. IsFiniteSet(S) /\ (\A y \in S : NormalizedAmount(y) \in Nat) /\ PaidOut(u) \in Nat
    BY PaidIsNat DEF Ledger
  <2>2. S \ {x} = T \ {x} /\ x \notin S /\ (x \in T <=> u = x.token)
    BY <1>2, <1>4 DEF Released
  <2>3. /\ AllNat(f, S) /\ AllNat(g, T) /\ (x \in T => g[x] = out)
        /\ \A y \in S \ {x} : f[y] = g[y]
    BY <1>2, <1>4, <2>1, <2>2 DEF AllNat, Released, out
  <2>4. PaidOut(u) = SumFunctionOnSet(f, S) /\ PaidOut(u)' = SumFunctionOnSet(g, T)
    BY DEF PaidOut
  <2> HIDE DEF S, T, f, g
  <2>5. /\ SumFunctionOnSet(f, S) \in Nat /\ SumFunctionOnSet(g, T) \in Nat
        /\ SumFunctionOnSet(g, T) + (IF x \in S THEN f[x] ELSE 0) =
             SumFunctionOnSet(f, S) + (IF x \in T THEN g[x] ELSE 0)
    BY <2>1, <2>2, <2>3, SumChange
  <2> QED
    BY <1>2, <2>1, <2>2, <2>3, <2>4, <2>5
<1>7. ASSUME NEW u \in Tokens PROVE Deposited(u)' = Deposited(u) /\ Deposited(u) \in Nat
  <2>1. Deposited(u)' = Deposited(u)
    BY <1>2 DEF Deposited, depositVars
  <2> QED
    BY <2>1, DepositedIsNat DEF Ledger
<1>8. CirculationConserved'
  <2> SUFFICES ASSUME NEW u \in Tokens \ {WrappedNative}
               PROVE  (Circulating(u) = InitialSupply[u] - InitialLocked[u] - Deposited(u) + PaidOut(u))'
    BY DEF CirculationConserved
  <2>1. Circulating(u) = InitialSupply[u] - InitialLocked[u] - Deposited(u) + PaidOut(u)
    BY DEF Ledger, CirculationConserved
  <2>2. InitialSupply[u] \in Nat /\ InitialLocked[u] \in Nat
    BY DeploymentAssumption
  <2>3. Circulating(u)' = Circulating(u) + (IF u = x.token THEN out ELSE 0)
    BY <1>2, <1>3, VaultMoves DEF IInv
  <2>4. Circulating(u) \in Int
    BY VaultMoves, <1>2 DEF IInv
  <2> QED
    BY <1>2, <1>6, <1>7, <2>1, <2>2, <2>3, <2>4
<1> QED
  BY <1>2, <1>5, <1>8 DEF Ledger, DepositNoncesDense, depositVars

\* The other steps of a withdrawal move no token.
LEMMA WithdrawKeepsLedger ==
  ASSUME IInv, Ledger, NEW x \in Xfers, Withdraw(x)
  PROVE  Ledger'
<1>1. ASSUME NEW tip \in Tips, WithdrawSubmit(x, tip) PROVE Ledger'
  <2>1. NothingExecuted
    <3>1. ~Executed(x)
      BY <1>1 DEF WithdrawSubmit, IInv, Withdrawals, StagesOrdered
    <3>2. ~Executed(x)'
      BY <1>1 DEF WithdrawSubmit, Executed, IInv, TypeOK, NotSubmitted
    <3>3. \A y \in Xfers \ {x} : pendingWithdraws'[y] = pendingWithdraws[y]
      BY <1>1 DEF WithdrawSubmit, IInv, TypeOK
    <3> QED
      BY <3>1, <3>2, <3>3 DEF NothingExecuted, Executed
  <2>2. AllSubmitted' = AllSubmitted \cup {x}
    BY <1>1 DEF WithdrawSubmit, AllSubmitted, Submitted, NotSubmitted, IInv, TypeOK
  <2>3. IsFiniteSet(AllSubmitted')
    BY <2>2, FS_AddElement DEF Ledger
  <2> QED
    BY <1>1, <2>1, <2>3, LedgerUntouched DEF WithdrawSubmit, vaultVars
<1>2. ASSUME NEW a \in Accounts, WithdrawApprove(a, x) \/ WithdrawCancel(a, x) \/ WithdrawUncancel(a, x)
      PROVE  Ledger'
  <2>1. NothingExecuted /\ AllSubmitted' = AllSubmitted
    BY <1>2 DEF WithdrawApprove, WithdrawCancel, WithdrawUncancel, NothingExecuted, AllSubmitted,
                Submitted, Executed, IInv, TypeOK, Withdrawal
  <2> QED
    BY <1>2, <2>1, LedgerUntouched
    DEF WithdrawApprove, WithdrawCancel, WithdrawUncancel, vaultVars, Ledger
<1> QED
  BY <1>1, <1>2, ExecuteKeepsLedger DEF Withdraw

LEMMA StepLedger == IInv /\ Ledger /\ [Next]_vars => Ledger'
<1> SUFFICES ASSUME IInv, Ledger, [Next]_vars PROVE Ledger'
  OBVIOUS
<1>1. ASSUME UNCHANGED <<locked, supply, depositVars, withdrawVars>> PROVE Ledger'
  <2>1. NothingExecuted /\ AllSubmitted' = AllSubmitted
    BY <1>1 DEF NothingExecuted, AllSubmitted, Submitted, Executed, withdrawVars
  <2> QED
    BY <1>1, <2>1, LedgerUntouched DEF Ledger
<1>2. CASE VaultAdmin /\ UNCHANGED <<now, registryVars, bridgeVars>>
  BY <1>1, <1>2 DEF VaultAdmin, SetUnlockAuthorized, SetMintAuthorized, bridgeVars
<1>3. CASE BridgeAdmin \/ UNCHANGED <<vaultVars, bridgeVars>>
  BY <1>1, <1>3 DEF BridgeAdmin, vaultVars, bridgeVars
<1> QED
  BY <1>2, <1>3, DepositKeepsLedger, WithdrawKeepsLedger DEF Next, vars

LEMMA LedgerHolds == Spec => []Ledger
  BY InitLedger, StepLedger, Invariance, PTL DEF Spec

\* For every token but the wrapped native one, which the bridge keeps as ETH: what
\* circulates is what circulated at deployment less every recorded deposit plus every
\* payout, however the owner retypes tokens and changes decimals in between.
THEOREM CirculationIsConserved == Spec => []CirculationConserved
<1>1. Ledger => CirculationConserved
  BY DEF Ledger
<1> QED
  BY <1>1, LedgerHolds, PTL

\* The nonces of the deposits run from one without a gap and without a repetition.
THEOREM DepositNoncesAreDense == Spec => []DepositNoncesDense
<1>1. Ledger => DepositNoncesDense
  BY DEF Ledger
<1> QED
  BY <1>1, LedgerHolds, PTL

(***************************************************************************)
(* The ETH for the tips                                                    *)
(***************************************************************************)
Unclaimed == {x \in Xfers : Submitted(x) /\ ~Approved(x)}

\* The tip of x is all that may come or go.
TipsBut(x) ==
  /\ Unclaimed' \ {x} = Unclaimed \ {x}
  /\ \A y \in Xfers \ {x} : pendingWithdraws'[y].operatorGas = pendingWithdraws[y].operatorGas

LEMMA TipsChange ==
  ASSUME IInv, IInv', IsFiniteSet(AllSubmitted), NEW x \in Xfers, TipsBut(x)
  PROVE  /\ EscrowedTips \in Nat /\ EscrowedTips' \in Nat
         /\ EscrowedTips' + (IF x \in Unclaimed THEN pendingWithdraws[x].operatorGas ELSE 0)
              = EscrowedTips + (IF x \in Unclaimed' THEN pendingWithdraws'[x].operatorGas ELSE 0)
<1> DEFINE f == [y \in Xfers |-> pendingWithdraws[y].operatorGas]
           g == [y \in Xfers |-> pendingWithdraws'[y].operatorGas]
           S == Unclaimed
           T == Unclaimed'
<1>1. IsFiniteSet(S)
  BY FS_Subset DEF Unclaimed, AllSubmitted
<1>2. /\ AllNat(f, S) /\ AllNat(g, T) /\ f[x] = pendingWithdraws[x].operatorGas
      /\ g[x] = pendingWithdraws'[x].operatorGas
  BY DEF AllNat, Unclaimed, IInv, TypeOK, Withdrawal
<1>3. S \ {x} = T \ {x} /\ \A y \in S \ {x} : f[y] = g[y]
  BY DEF TipsBut, Unclaimed
<1>4. EscrowedTips = SumFunctionOnSet(f, S) /\ EscrowedTips' = SumFunctionOnSet(g, T)
  BY DEF EscrowedTips, Unclaimed, Submitted, Approved
<1> HIDE DEF f, g, S, T
<1>5. /\ SumFunctionOnSet(f, S) \in Nat /\ SumFunctionOnSet(g, T) \in Nat
      /\ SumFunctionOnSet(g, T) + (IF x \in S THEN f[x] ELSE 0) =
           SumFunctionOnSet(f, S) + (IF x \in T THEN g[x] ELSE 0)
  BY <1>1, <1>2, <1>3, SumChange
<1> QED
  BY <1>2, <1>4, <1>5 DEF S, T

\* A step that leaves the withdrawals alone escrows as much as before.
LEMMA TipsUntouched ==
  ASSUME UNCHANGED withdrawVars
  PROVE  EscrowedTips' = EscrowedTips
  BY DEF withdrawVars, EscrowedTips, Submitted, Approved

\* A tip is covered when it comes in and leaves with its escrow.
LEMMA WithdrawKeepsCover ==
  ASSUME IInv, IInv', Ledger, NEW x \in Xfers, Withdraw(x), TipsCovered
  PROVE  TipsCovered'
<1> USE DEF Unclaimed, Submitted, Approved, IInv, TypeOK
<1>1. TipsBut(x)
  <2>1. \A y \in Xfers \ {x} : pendingWithdraws'[y] = pendingWithdraws[y]
    BY DEF Withdraw, WithdrawSubmit, WithdrawApprove, WithdrawCancel, WithdrawUncancel,
           WithdrawExecuteUnlock, WithdrawExecuteMint, Execute
  <2> QED
    BY <2>1 DEF TipsBut
<1>2. /\ EscrowedTips \in Nat /\ EscrowedTips' \in Nat
      /\ EscrowedTips' + (IF x \in Unclaimed THEN pendingWithdraws[x].operatorGas ELSE 0)
           = EscrowedTips + (IF x \in Unclaimed' THEN pendingWithdraws'[x].operatorGas ELSE 0)
  BY <1>1, TipsChange DEF Ledger
<1>3. /\ ethBalance \in Nat /\ pendingWithdraws[x].operatorGas \in Nat
      /\ pendingWithdraws'[x].operatorGas \in Nat
  BY DEF Withdrawal
<1>4. ASSUME NEW tip \in Tips, WithdrawSubmit(x, tip) PROVE TipsCovered'
  <2>1. x \notin Unclaimed /\ tip \in Nat
    BY <1>4, BridgeAssumption DEF WithdrawSubmit
  <2>2. pendingWithdraws'[x].operatorGas = tip
    BY <1>4 DEF WithdrawSubmit, NotSubmitted
  <2>3. ethBalance' = ethBalance + tip
    BY <1>4 DEF WithdrawSubmit
  <2> HIDE DEF Unclaimed, Submitted, Approved, IInv, TypeOK
  <2> QED
    BY <1>2, <1>3, <2>1, <2>2, <2>3 DEF TipsCovered
<1>5. ASSUME NEW a \in Accounts, WithdrawApprove(a, x) PROVE TipsCovered'
  <2>1. x \in Unclaimed /\ x \notin Unclaimed'
    <3>1. pendingWithdraws'[x].approved
      BY <1>5 DEF WithdrawApprove, Withdrawal
    <3> QED
      BY <1>5, <3>1 DEF WithdrawApprove, CanApprove
  <2>2. /\ ethBalance' = ethBalance - pendingWithdraws[x].operatorGas
        /\ pendingWithdraws[x].operatorGas <= ethBalance
    BY <1>5 DEF WithdrawApprove
  <2> HIDE DEF Unclaimed, Submitted, Approved, IInv, TypeOK
  <2> QED
    BY <1>2, <1>3, <2>1, <2>2 DEF TipsCovered
<1>6. ASSUME Approved(x), UNCHANGED ethBalance, Approved(x)' PROVE TipsCovered'
  <2>1. x \notin Unclaimed /\ x \notin Unclaimed'
    BY <1>6
  <2>2. ethBalance' = ethBalance
    BY <1>6
  <2> HIDE DEF Unclaimed, Submitted, Approved, IInv, TypeOK
  <2>3. EscrowedTips' = EscrowedTips
    BY <1>2, <1>3, <2>1
  <2> QED
    BY <2>2, <2>3 DEF TipsCovered
<1>7. ASSUME NEW a \in Accounts, WithdrawCancel(a, x) \/ WithdrawUncancel(a, x)
      PROVE  TipsCovered'
  <2>1. Approved(x)
    BY <1>7 DEF WithdrawCancel, WithdrawUncancel, Withdrawals, StagesOrdered
  <2> QED
    BY <1>6, <1>7, <2>1 DEF WithdrawCancel, WithdrawUncancel, Withdrawal
<1>8. ASSUME WithdrawExecuteUnlock(x) \/ WithdrawExecuteMint(x) PROVE TipsCovered'
  BY <1>6, <1>8 DEF WithdrawExecuteUnlock, WithdrawExecuteMint, Execute, ValidExecution, Withdrawal
<1> QED
  BY <1>4, <1>5, <1>7, <1>8 DEF Withdraw

LEMMA StepKeepsCover ==
  ASSUME IInv, IInv', Ledger, [Next]_vars, TipsCovered
  PROVE  TipsCovered' \/ \E amount \in Recoveries : RecoverAsset(amount)
<1>1. EscrowedTips \in Nat /\ ethBalance \in Nat /\ EscrowedTips <= ethBalance
  <2> DEFINE f == [x \in Xfers |-> pendingWithdraws[x].operatorGas]
  <2>1. IsFiniteSet(Unclaimed) /\ AllNat(f, Unclaimed)
    BY FS_Subset DEF Ledger, AllSubmitted, Unclaimed, AllNat, IInv, TypeOK, Withdrawal
  <2> HIDE DEF f
  <2>2. SumFunctionOnSet(f, Unclaimed) \in Nat
    BY <2>1, SumNat
  <2> QED
    BY <2>2 DEF EscrowedTips, Unclaimed, f, TipsCovered, IInv, TypeOK
<1>2. ASSUME UNCHANGED withdrawVars, ethBalance' \in Nat, ethBalance' >= ethBalance
      PROVE  TipsCovered'
  BY <1>1, <1>2, TipsUntouched DEF TipsCovered
<1>3. ethBalance' \in Nat
  BY DEF IInv, TypeOK
<1>4. CASE Deposit
  <2>1. ethBalance' >= ethBalance
    <3> SUFFICES ASSUME NEW a \in Accounts, NEW holds \in BOOLEAN, NEW c \in Chains,
                        NEW amount \in DepositAmounts, DepositNative(a, holds, c, amount)
                 PROVE  ethBalance' >= ethBalance
      BY <1>1, <1>4 DEF Deposit, DepositERC20, DepositERC20Mintable
    <3>1. amount - CalculateFee(a, holds, amount) \in Nat
      BY NetIsNat, BridgeAssumption DEF IInv, TypeOK
    <3>2. ethBalance' = ethBalance + (amount - CalculateFee(a, holds, amount))
      BY DEF DepositNative
    <3> QED
      BY <1>1, <3>1, <3>2
  <2> QED
    BY <1>2, <1>3, <1>4, <2>1 DEF Deposit, DepositNative, DepositERC20, DepositERC20Mintable
<1>5. CASE BridgeAdmin
  <2>1. ASSUME NEW amount \in Gifts, Receive(amount) PROVE ethBalance' >= ethBalance
    BY <1>1, <2>1, BridgeAssumption DEF Receive
  <2>2. \/ \E amount \in Recoveries : RecoverAsset(amount)
        \/ ethBalance' >= ethBalance
    BY <1>1, <1>5, <2>1
    DEF BridgeAdmin, SetPaused, SetCancelWindow, SetOperator, SetCanceler
  <2> QED
    BY <1>2, <1>3, <1>5, <2>2 DEF BridgeAdmin
<1>6. CASE UNCHANGED bridgeVars
  BY <1>1, <1>2, <1>6 DEF bridgeVars
<1> QED
  BY <1>4, <1>5, <1>6, WithdrawKeepsCover DEF Next, vars

\* As long as the owner recovers no asset, the bridge holds the tips of all withdrawals
\* that wait for their approval, however many deposits, payouts and approvals are mixed.
THEOREM TipsStayCovered == Spec => OnlyRecoveryUncoversTips
<1>1. IInv /\ IInv' /\ Ledger /\ [Next]_vars =>
        [TipsCovered => TipsCovered' \/ \E amount \in Recoveries : RecoverAsset(amount)]_vars
  BY StepKeepsCover
<1> QED
  BY <1>1, Invariance, LedgerHolds, PTL DEF Spec, OnlyRecoveryUncoversTips
=============================================================================
