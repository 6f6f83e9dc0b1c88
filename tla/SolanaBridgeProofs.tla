-------------------------- MODULE SolanaBridgeProofs --------------------------
(***************************************************************************)
(* The Solana bridge program for every set of chains, mints, transfers,    *)
(* accounts and calls of the admin: types, in particular that the bridge   *)
(* account keeps its rent, and the promises of a watchtower.               *)
(***************************************************************************)
EXTENDS SolanaBridgeSafety, FiniteSums, TLAPS

\* What the accounts of a withdrawal say of each other at every moment: execution
\* leaves the used nonce and the ExecutedHash behind, and nothing else.
StagesOrdered ==
  \A x \in Xfers :
    /\ Live(x) => x \notin executedHashes
    /\ Live(x) /\ pending[x].cancelled => pending[x].approved
    /\ Live(x) /\ pending[x].approved => Key(x) \in noncesUsed /\ pending[x].approvedAt = vouchedAt[x]
    /\ x \in executedHashes => Key(x) \in noncesUsed

WithdrawTypeOK ==
  /\ pending \in [Xfers -> PendingWithdraw \cup {NoPending}]
  /\ executedHashes \subseteq Xfers /\ noncesUsed \subseteq Chains \X Nat
  /\ vouchedAt \in [Xfers -> Nat] /\ paid \in [Xfers -> [amount : Nat, at : Nat]]

WithdrawInv == WithdrawTypeOK /\ StagesOrdered

RegistryTypeOK ==
  /\ chainEntries \subseteq Chains /\ cancelers \subseteq Accounts
  /\ tokenMappings \in [MappingKeys -> TokenMapping \cup {NoMapping}]

DepositTypeOK ==
  deposits \subseteq [destChain : Chains, token : RemoteTokens, amount : Nat, nonce : Nat,
                      paidIn : Tokens]

ValueTypeOK ==
  /\ lamports \in Nat /\ lamports >= Rent
  /\ vault \in [Mints -> Nat] /\ supply \in [Mints -> Nat]

IInv ==
  /\ now \in Nat /\ calls \in Nat /\ strayed \in [Tokens -> Nat]
  /\ bridge \in BridgeConfig
  /\ RegistryTypeOK
  /\ rateLimits \in [Tokens -> RateLimit]
  /\ WithdrawInv /\ DepositTypeOK /\ ValueTypeOK

LEMMA Parameters ==
  /\ MaxFeeBps \in 0..10000 /\ Rent \in Nat /\ MaxDecimals \in Nat
  /\ MinDelay \in Nat /\ MaxDelay \in Nat
  BY SolanaAssumption

LEMMA RecordIsPending ==
  ASSUME NEW p \in PendingWithdraw
  PROVE  p # NoPending
  BY SolanaAssumption

(***************************************************************************)
(* Steps that leave a part of the state alone                              *)
(***************************************************************************)
LEMMA WithdrawFrame ==
  ASSUME WithdrawInv, UNCHANGED withdrawVars
  PROVE  WithdrawInv'
  BY DEF WithdrawInv, WithdrawTypeOK, StagesOrdered, withdrawVars, Live

LEMMA RegistryFrame ==
  ASSUME RegistryTypeOK, UNCHANGED registryVars
  PROVE  RegistryTypeOK'
  BY DEF RegistryTypeOK, registryVars

LEMMA ValueFrame ==
  ASSUME ValueTypeOK, UNCHANGED valueVars
  PROVE  ValueTypeOK'
  BY DEF ValueTypeOK, valueVars

LEMMA DepositFrame ==
  ASSUME DepositTypeOK, UNCHANGED deposits
  PROVE  DepositTypeOK'
  BY DEF DepositTypeOK

(***************************************************************************)
(* Initial states                                                          *)
(***************************************************************************)
LEMMA InitIInv == Init => IInv
<1> SUFFICES ASSUME Init PROVE IInv
  OBVIOUS
<1>1. bridge \in BridgeConfig
  BY SolanaAssumption DEF Init, BridgeConfig
<1>2. FreshRateLimit \in RateLimit /\ NotPaid \in [amount : Nat, at : Nat]
  BY DEF FreshRateLimit, RateLimit, NotPaid
<1>3. WithdrawInv
  BY <1>2 DEF Init, WithdrawInv, WithdrawTypeOK, StagesOrdered, Live
<1>4. RegistryTypeOK /\ DepositTypeOK /\ ValueTypeOK
  BY DeploymentAssumption DEF Init, RegistryTypeOK, DepositTypeOK, ValueTypeOK
<1> QED
  BY <1>1, <1>2, <1>3, <1>4 DEF Init, IInv

(***************************************************************************)
(* Deposits                                                                *)
(***************************************************************************)
\* A ten-thousandth of at most ten thousand times an amount is at most the amount.
LEMMA TenThousandth ==
  ASSUME NEW n \in Nat, NEW amount \in Nat, n <= amount * 10000
  PROVE  n \div 10000 \in 0..amount
  OBVIOUS

\* The fee of a deposit never exceeds it.
LEMMA FeeWithinAmount ==
  ASSUME bridge \in BridgeConfig, NEW amount \in Nat
  PROVE  DepositFee(amount) \in 0..amount
<1>1. bridge.feeBps \in 0..MaxFeeBps
  BY DEF BridgeConfig
<1>2. bridge.feeBps \in Nat /\ bridge.feeBps <= 10000
  <2>1. MaxFeeBps \in Nat /\ MaxFeeBps <= 10000
    BY Parameters
  <2>2. \A bps \in 0..MaxFeeBps : bps \in Nat /\ bps <= 10000
    BY <2>1
  <2> QED
    BY <1>1, <2>2
<1>3. \A bps \in Nat : bps <= 10000 => amount * bps \in Nat /\ amount * bps <= amount * 10000
  OBVIOUS
<1>4. amount * bridge.feeBps \in Nat /\ amount * bridge.feeBps <= amount * 10000
  BY <1>2, <1>3
<1>5. (amount * bridge.feeBps) \div 10000 \in 0..amount
  BY <1>4, TenThousandth
<1> QED
  BY <1>5 DEF DepositFee

LEMMA RecordStep ==
  ASSUME IInv, NEW k \in MappingKeys, NEW net \in Nat, NEW t \in Tokens, NEW fees \in Nat,
         RecordDeposit(k, net, t, fees)
  PROVE  bridge' \in BridgeConfig /\ DepositTypeOK'
<1>1. k[1] \in Chains /\ k[2] \in RemoteTokens
  BY DEF MappingKeys
<1>2. bridge.depositNonce \in Nat
  BY DEF IInv, BridgeConfig
<1>3. DepositTypeOK'
  BY <1>1, <1>2 DEF RecordDeposit, IInv, DepositTypeOK
<1> DEFINE b == [bridge EXCEPT !.depositNonce = @ + 1]
<1>4. bridge' \in BridgeConfig
  <2>1. b \in BridgeConfig
    BY <1>2 DEF IInv, BridgeConfig
  <2>2. bridge' = [b EXCEPT !.accruedNativeFees = fees]
    BY DEF RecordDeposit
  <2> HIDE DEF b
  <2> QED
    BY <2>1, <2>2 DEF BridgeConfig
<1> QED
  BY <1>3, <1>4

LEMMA DepositStep == IInv /\ Deposit /\ UNCHANGED <<strayed, calls>> => IInv'
<1> SUFFICES ASSUME IInv, UNCHANGED <<strayed, calls>>, NEW k \in MappingKeys, NEW amount \in DepositAmounts,
                    DepositNative(k, amount) \/ DepositSpl(k, amount)
             PROVE  IInv'
  BY DEF Deposit
<1> DEFINE fee == DepositFee(amount)
<1>1. amount \in Nat /\ fee \in Nat /\ fee <= amount /\ amount - fee \in Nat
  BY SolanaAssumption, FeeWithinAmount DEF IInv
<1> HIDE DEF fee
<1>2. CASE DepositNative(k, amount)
  <2>1. /\ RecordDeposit(k, amount - fee, NATIVE_SOL_TOKEN, bridge.accruedNativeFees + fee)
        /\ lamports' = lamports + amount
        /\ UNCHANGED <<now, registryVars, rateLimits, withdrawVars, vault, supply>>
    BY <1>2 DEF DepositNative, fee
  <2>2. bridge.accruedNativeFees + fee \in Nat /\ NATIVE_SOL_TOKEN \in Tokens
    BY <1>1 DEF IInv, BridgeConfig, Tokens
  <2>3. bridge' \in BridgeConfig /\ DepositTypeOK'
    BY <1>1, <2>1, <2>2, RecordStep
  <2>4. ValueTypeOK'
    BY <1>1, <2>1, SolanaAssumption DEF IInv, ValueTypeOK
  <2> QED
    BY <2>1, <2>3, <2>4, WithdrawFrame, RegistryFrame DEF IInv
<1>3. CASE DepositSpl(k, amount)
  <2> DEFINE t == tokenMappings[k].local
  <2>1. /\ RecordDeposit(k, amount - fee, t, bridge.accruedNativeFees)
        /\ MappedOnRegisteredChain(k) /\ t \in Mints /\ amount <= supply[t] - vault[t]
        /\ TakeSpl(k, amount, fee)
        /\ tokenMappings' = [tokenMappings EXCEPT ![k].accruedFees = @ + fee]
        /\ UNCHANGED <<now, chainEntries, cancelers, rateLimits, withdrawVars, lamports>>
    BY <1>3 DEF DepositSpl, fee
  <2>2. tokenMappings[k] \in TokenMapping
    BY <2>1 DEF MappedOnRegisteredChain, IInv, RegistryTypeOK
  <2>3. RegistryTypeOK'
    BY <1>1, <2>1, <2>2 DEF IInv, RegistryTypeOK, TokenMapping
  <2>4. bridge.accruedNativeFees \in Nat /\ t \in Tokens
    BY <2>1 DEF IInv, BridgeConfig, Tokens
  <2>5. bridge' \in BridgeConfig /\ DepositTypeOK'
    BY <1>1, <2>1, <2>4, RecordStep
  <2>6. ValueTypeOK'
    <3> HIDE DEF t
    <3>1. \/ vault' = [vault EXCEPT ![t] = @ + amount] /\ UNCHANGED supply
          \/ /\ vault' = [vault EXCEPT ![t] = @ + fee]
             /\ supply' = [supply EXCEPT ![t] = @ - (amount - fee)]
      BY <2>1 DEF TakeSpl, t
    <3>2. amount - fee <= supply[t]
      BY <1>1, <2>1 DEF IInv, ValueTypeOK
    <3> QED
      BY <1>1, <2>1, <3>1, <3>2, SolanaAssumption DEF IInv, ValueTypeOK
  <2> QED
    BY <2>1, <2>3, <2>5, <2>6, WithdrawFrame DEF IInv
<1> QED
  BY <1>2, <1>3

(***************************************************************************)
(* Withdrawals                                                             *)
(***************************************************************************)
LEMMA SubmitStep ==
  ASSUME IInv, NEW x \in Xfers, NEW r \in RemoteTokens, NEW tip \in Tips, WithdrawSubmit(x, r, tip),
         UNCHANGED <<strayed, calls>>
  PROVE  IInv'
<1> DEFINE m == tokenMappings[<<x.srcChain, r>>]
<1> DEFINE p == [srcDecimals |-> m.srcDecimals, destDecimals |-> m.decimals, operatorGas |-> tip,
                 approved |-> FALSE, approvedAt |-> 0, cancelled |-> FALSE]
<1>1. /\ IsNew(x) /\ pending' = [pending EXCEPT ![x] = p] /\ lamports' = lamports + tip
      /\ UNCHANGED <<now, bridge, registryVars, rateLimits, executedHashes, noncesUsed,
                     vouchedAt, paid, deposits, vault, supply>>
  BY DEF WithdrawSubmit
<1>2. m \in TokenMapping /\ tip \in Nat
  BY SolanaAssumption DEF WithdrawSubmit, MappedOnRegisteredChain, MappingKeys, IInv, RegistryTypeOK
<1>3. p \in PendingWithdraw /\ ~p.approved /\ ~p.cancelled
  BY <1>2 DEF TokenMapping, PendingWithdraw
<1> HIDE DEF p, m
<1>4. WithdrawInv'
  <2>1. WithdrawTypeOK'
    BY <1>1, <1>3 DEF IInv, WithdrawInv, WithdrawTypeOK
  <2>2. ASSUME NEW y \in Xfers, y # x
        PROVE  pending'[y] = pending[y]
    BY <1>1, <2>2 DEF IInv, WithdrawInv, WithdrawTypeOK
  <2>3. pending'[x] = p /\ x \notin executedHashes
    BY <1>1 DEF IsNew, IInv, WithdrawInv, WithdrawTypeOK
  <2>4. /\ \A y \in Xfers : Key(y)' = Key(y)
        /\ UNCHANGED <<executedHashes, noncesUsed, vouchedAt>>
    BY <1>1 DEF Key
  <2>5. StagesOrdered'
    BY <1>3, <2>2, <2>3, <2>4 DEF IInv, WithdrawInv, StagesOrdered, Live
  <2> QED
    BY <2>1, <2>5 DEF WithdrawInv
<1>5. ValueTypeOK'
  BY <1>1, <1>2, SolanaAssumption DEF IInv, ValueTypeOK
<1> QED
  BY <1>1, <1>4, <1>5, RegistryFrame, DepositFrame DEF IInv

\* An approval or a reenabling of x vouches for it now.
LEMMA VouchingKeepsOrder ==
  ASSUME WithdrawTypeOK, StagesOrdered, NEW x \in Xfers, Live(x),
         NEW p \in PendingWithdraw, p.approved, ~p.cancelled, p.approvedAt = now,
         pending' = [pending EXCEPT ![x] = p], vouchedAt' = [vouchedAt EXCEPT ![x] = now],
         UNCHANGED executedHashes, noncesUsed \subseteq noncesUsed', Key(x) \in noncesUsed'
  PROVE  StagesOrdered'
<1> SUFFICES ASSUME NEW y \in Xfers
             PROVE  /\ Live(y)' => y \notin executedHashes
                    /\ Live(y)' /\ pending'[y].cancelled => pending'[y].approved
                    /\ Live(y)' /\ pending'[y].approved =>
                         Key(y) \in noncesUsed' /\ pending'[y].approvedAt = vouchedAt'[y]
                    /\ y \in executedHashes => Key(y) \in noncesUsed'
  BY DEF StagesOrdered, Live, Key
<1>1. CASE y = x
  <2>1. pending'[y] = p /\ vouchedAt'[y] = now
    BY <1>1 DEF WithdrawTypeOK
  <2>2. y \notin executedHashes
    BY <1>1 DEF StagesOrdered
  <2> QED
    BY <1>1, <2>1, <2>2
<1>2. CASE y # x
  <2>1. pending'[y] = pending[y] /\ vouchedAt'[y] = vouchedAt[y]
    BY <1>2 DEF WithdrawTypeOK
  <2>2. Live(y)' <=> Live(y)
    BY <2>1 DEF Live
  <2> QED
    BY <2>1, <2>2 DEF StagesOrdered
<1> QED
  BY <1>1, <1>2

LEMMA VouchingKeepsTypes ==
  ASSUME WithdrawTypeOK, NEW x \in Xfers, NEW p \in PendingWithdraw, now \in Nat,
         pending' = [pending EXCEPT ![x] = p], vouchedAt' = [vouchedAt EXCEPT ![x] = now],
         executedHashes' = executedHashes, paid' = paid, noncesUsed' \subseteq Chains \X Nat
  PROVE  WithdrawTypeOK'
<1>1. pending' \in [Xfers -> PendingWithdraw \cup {NoPending}]
  BY DEF WithdrawTypeOK
<1>2. vouchedAt' \in [Xfers -> Nat]
  BY DEF WithdrawTypeOK
<1> QED
  BY <1>1, <1>2 DEF WithdrawTypeOK

LEMMA ApproveStep ==
  ASSUME IInv, NEW x \in Xfers, NEW a \in Accounts, WithdrawApprove(a, x),
         UNCHANGED <<strayed, calls>>
  PROVE  IInv'
<1>1. pending[x] \in PendingWithdraw
  BY DEF WithdrawApprove, Live, IInv, WithdrawInv, WithdrawTypeOK
<1>2. Key(x) \in Chains \X Nat /\ now \in Nat
  BY SolanaAssumption DEF Key, IInv
<1> DEFINE p == [pending[x] EXCEPT !.approved = TRUE, !.approvedAt = now]
<1>3. p \in PendingWithdraw /\ p.approved /\ ~p.cancelled /\ p.approvedAt = now
  BY <1>1, <1>2 DEF PendingWithdraw, WithdrawApprove
<1>4. pending' = [pending EXCEPT ![x] = p]
  BY <1>1 DEF WithdrawApprove, IInv, WithdrawInv, WithdrawTypeOK
<1> HIDE DEF p
<1>5. WithdrawTypeOK'
  <2>1. noncesUsed' = noncesUsed \cup {Key(x)}
    BY DEF WithdrawApprove
  <2>2. noncesUsed' \subseteq Chains \X Nat
    BY <2>1, <1>2 DEF IInv, WithdrawInv, WithdrawTypeOK
  <2>3. /\ vouchedAt' = [vouchedAt EXCEPT ![x] = now]
        /\ executedHashes' = executedHashes /\ paid' = paid
    BY DEF WithdrawApprove
  <2> QED
    BY <1>2, <1>3, <1>4, <2>2, <2>3, VouchingKeepsTypes DEF IInv, WithdrawInv
<1>6. StagesOrdered'
  BY <1>3, <1>4, VouchingKeepsOrder DEF WithdrawApprove, IInv, WithdrawInv
<1>7. ValueTypeOK'
  <2>1. pending[x].operatorGas \in Nat
    BY <1>1 DEF PendingWithdraw
  <2> QED
    BY <2>1, SolanaAssumption DEF WithdrawApprove, Available, IInv, ValueTypeOK
<1> QED
  BY <1>5, <1>6, <1>7, RegistryFrame, DepositFrame DEF WithdrawApprove, IInv, WithdrawInv

\* Cancelling and reenabling.
LEMMA ReviewStep ==
  ASSUME IInv, NEW x \in Xfers, NEW a \in Accounts, UNCHANGED <<strayed, calls>>,
         WithdrawCancel(a, x) \/ WithdrawReenable(a, x)
  PROVE  IInv'
<1>1. pending[x] \in PendingWithdraw /\ now \in Nat
  BY DEF WithdrawCancel, WithdrawReenable, Live, IInv, WithdrawInv, WithdrawTypeOK
<1>2. CASE WithdrawCancel(a, x)
  <2> DEFINE p == [pending[x] EXCEPT !.cancelled = TRUE]
  <2>1. /\ p \in PendingWithdraw /\ p.approved = pending[x].approved
        /\ p.approvedAt = pending[x].approvedAt
    BY <1>1 DEF PendingWithdraw
  <2>2. pending' = [pending EXCEPT ![x] = p] /\ Live(x) /\ pending[x].approved
    BY <1>2 DEF WithdrawCancel
  <2> HIDE DEF p
  <2>3. UNCHANGED <<executedHashes, noncesUsed, vouchedAt, paid>>
    BY <1>2 DEF WithdrawCancel
  <2>4. WithdrawTypeOK'
    BY <2>1, <2>2, <2>3 DEF IInv, WithdrawInv, WithdrawTypeOK
  <2>5. StagesOrdered'
    BY <2>1, <2>2, <2>3 DEF IInv, WithdrawInv, WithdrawTypeOK, StagesOrdered, Live
  <2> QED
    BY <1>2, <2>4, <2>5, RegistryFrame, DepositFrame, ValueFrame
    DEF WithdrawCancel, IInv, WithdrawInv
<1>3. CASE WithdrawReenable(a, x)
  <2> DEFINE p == [pending[x] EXCEPT !.cancelled = FALSE, !.approved = TRUE, !.approvedAt = now]
  <2>1. p \in PendingWithdraw /\ p.approved /\ ~p.cancelled /\ p.approvedAt = now
    BY <1>1 DEF PendingWithdraw
  <2>2. pending' = [pending EXCEPT ![x] = p] /\ Live(x) /\ pending[x].cancelled
    BY <1>3 DEF WithdrawReenable, IInv, WithdrawInv, WithdrawTypeOK
  <2> HIDE DEF p
  <2>3. WithdrawTypeOK'
    <3>1. /\ vouchedAt' = [vouchedAt EXCEPT ![x] = now]
          /\ executedHashes' = executedHashes /\ paid' = paid /\ noncesUsed' = noncesUsed
      BY <1>3 DEF WithdrawReenable
    <3>2. noncesUsed' \subseteq Chains \X Nat
      BY <3>1 DEF IInv, WithdrawInv, WithdrawTypeOK
    <3> QED
      BY <1>1, <2>1, <2>2, <3>1, <3>2, VouchingKeepsTypes DEF IInv, WithdrawInv
  <2>4. Key(x) \in noncesUsed
    BY <2>2 DEF IInv, WithdrawInv, StagesOrdered
  <2>5. StagesOrdered'
    BY <1>3, <2>1, <2>2, <2>4, VouchingKeepsOrder DEF WithdrawReenable, IInv, WithdrawInv
  <2> QED
    BY <1>3, <2>3, <2>5, RegistryFrame, DepositFrame, ValueFrame
    DEF WithdrawReenable, IInv, WithdrawInv
<1> QED
  BY <1>2, <1>3

\* A payout in local decimals is a natural number.
LEMMA PayoutIsNat ==
  ASSUME NEW x \in Xfers, pending[x] \in PendingWithdraw
  PROVE  Payout(x) \in Nat
<1> DEFINE src == pending[x].srcDecimals
<1> DEFINE dest == pending[x].destDecimals
<1>1. src \in 0..MaxDecimals /\ dest \in 0..MaxDecimals /\ x.amount \in Nat
  BY SolanaAssumption DEF PendingWithdraw
<1> HIDE DEF src, dest
<1>2. CASE src > dest
  <2>1. src - dest \in 0..MaxDecimals
    BY <1>1, <1>2, SolanaAssumption
  <2>2. 10^(src - dest) \in Nat \ {0}
    BY <2>1, ScaleAssumption
  <2>3. x.amount \div 10^(src - dest) \in Nat
    BY <1>1, <2>2
  <2> QED
    BY <1>2, <2>3 DEF Payout, NormalizeDecimals, src, dest
<1>3. CASE ~(src > dest)
  <2>1. dest - src \in 0..MaxDecimals
    BY <1>1, <1>3, SolanaAssumption
  <2>2. 10^(dest - src) \in Nat
    BY <2>1, ScaleAssumption
  <2>3. x.amount * 10^(dest - src) \in Nat
    BY <1>1, <2>2
  <2> QED
    BY <1>3, <2>3 DEF Payout, NormalizeDecimals, src, dest
<1> QED
  BY <1>2, <1>3

LEMMA RateLimitTyped ==
  ASSUME rateLimits \in [Tokens -> RateLimit], now \in Nat, NEW t \in Tokens, NEW amount \in Nat,
         NEW s, CheckAndUpdateWithdrawRateLimit(t, amount, s)
  PROVE  rateLimits' \in [Tokens -> RateLimit]
<1> DEFINE charged == Charge(rateLimits[t], amount)
<1>1. rateLimits[t] \in RateLimit
  OBVIOUS
<1>2. charged \in RateLimit
  <2>1. [rateLimits[t] EXCEPT !.windowStart = now, !.used = amount] \in RateLimit
    BY <1>1 DEF RateLimit
  <2>2. [rateLimits[t] EXCEPT !.used = @ + amount] \in RateLimit
    BY <1>1 DEF RateLimit
  <2> QED
    BY <2>1, <2>2 DEF Charge
<1>3. UNCHANGED rateLimits \/ rateLimits' = [rateLimits EXCEPT ![t] = charged]
  BY DEF CheckAndUpdateWithdrawRateLimit
<1> HIDE DEF charged
<1> QED
  BY <1>2, <1>3

\* What both ways to execute share.
LEMMA SharedExecution ==
  ASSUME IInv, NEW x \in Xfers, NEW s, Execute(x, s)
  PROVE  /\ Payout(x) \in Nat /\ rateLimits' \in [Tokens -> RateLimit] /\ WithdrawInv'
         /\ UNCHANGED <<now, bridge, registryVars, deposits>>
<1>1. pending[x] \in PendingWithdraw /\ x.token \in Tokens
  BY SolanaAssumption DEF Execute, Ready, Live, IInv, WithdrawInv, WithdrawTypeOK
<1>2. Payout(x) \in Nat
  BY <1>1, PayoutIsNat
<1>3. rateLimits' \in [Tokens -> RateLimit]
  BY <1>1, <1>2, RateLimitTyped DEF Execute, IInv
<1>4. WithdrawTypeOK'
  BY <1>2 DEF Execute, IInv, WithdrawInv, WithdrawTypeOK
<1>5. StagesOrdered'
  BY DEF Execute, Ready, IInv, WithdrawInv, WithdrawTypeOK, StagesOrdered, Live
<1> QED
  BY <1>2, <1>3, <1>4, <1>5 DEF Execute, WithdrawInv

LEMMA ExecuteStep ==
  ASSUME IInv, NEW x \in Xfers, UNCHANGED <<strayed, calls>>,
         (\E r \in RemoteTokens : WithdrawExecute(x, r)) \/ WithdrawExecuteNative(x)
  PROVE  IInv'
<1>1. PICK s : Execute(x, s)
  BY DEF WithdrawExecute, WithdrawExecuteNative
<1>2. /\ Payout(x) \in Nat /\ rateLimits' \in [Tokens -> RateLimit] /\ WithdrawInv'
      /\ UNCHANGED <<now, bridge, registryVars, deposits>>
  BY <1>1, SharedExecution
<1>3. ValueTypeOK'
  <2>1. ASSUME NEW r \in RemoteTokens, WithdrawExecute(x, r) PROVE ValueTypeOK'
    BY <1>2, <2>1 DEF WithdrawExecute, IInv, ValueTypeOK
  <2>2. CASE WithdrawExecuteNative(x)
    BY <1>2, <2>2, SolanaAssumption DEF WithdrawExecuteNative, Available, IInv, ValueTypeOK
  <2> QED
    BY <2>1, <2>2
<1> QED
  BY <1>2, <1>3, RegistryFrame, DepositFrame DEF IInv

(***************************************************************************)
(* The admin                                                               *)
(***************************************************************************)
LEMMA FeesStep ==
  ASSUME IInv, WithdrawFees
  PROVE  bridge' \in BridgeConfig /\ RegistryTypeOK' /\ ValueTypeOK' /\ UNCHANGED rateLimits
<1>1. ASSUME NEW amount \in FeeAmounts, WithdrawNativeFees(amount),
             UNCHANGED <<chainEntries, cancelers, rateLimits, supply>>
      PROVE  bridge' \in BridgeConfig /\ RegistryTypeOK' /\ ValueTypeOK'
  <2>1. amount \in Nat /\ bridge.accruedNativeFees - amount \in Nat
    BY <1>1, SolanaAssumption DEF WithdrawNativeFees, IInv, BridgeConfig
  <2>2. bridge' \in BridgeConfig
    BY <1>1, <2>1 DEF WithdrawNativeFees, IInv, BridgeConfig
  <2>3. ValueTypeOK'
    BY <1>1, <2>1, SolanaAssumption DEF WithdrawNativeFees, Available, IInv, ValueTypeOK
  <2> QED
    BY <1>1, <2>2, <2>3 DEF WithdrawNativeFees, IInv, RegistryTypeOK
<1>2. ASSUME NEW amount \in FeeAmounts, NEW k \in MappingKeys, WithdrawSplFees(k, amount),
             UNCHANGED <<chainEntries, cancelers, rateLimits, supply>>
      PROVE  bridge' \in BridgeConfig /\ RegistryTypeOK' /\ ValueTypeOK'
  <2>1. tokenMappings[k] \in TokenMapping /\ amount \in Nat
    BY <1>2, SolanaAssumption DEF WithdrawSplFees, IInv, RegistryTypeOK
  <2>2. RegistryTypeOK'
    BY <1>2, <2>1 DEF WithdrawSplFees, IInv, RegistryTypeOK, TokenMapping
  <2>3. ValueTypeOK'
    BY <1>2, <2>1 DEF WithdrawSplFees, IInv, ValueTypeOK
  <2> QED
    BY <1>2, <2>2, <2>3 DEF WithdrawSplFees, IInv
<1> QED
  BY <1>1, <1>2 DEF WithdrawFees

LEMMA ConfigStep ==
  ASSUME bridge \in BridgeConfig, NEW call \in ConfigCalls, SetConfig(call)
  PROVE  bridge' \in BridgeConfig
<1>1. /\ call.admin \in Accounts \cup {Keep} /\ call.operator \in Accounts \cup {Keep}
      /\ call.paused \in BOOLEAN \cup {Keep}
  BY CallsAssumption
<1>2. /\ Or(call.admin, bridge.admin) \in Accounts
      /\ Or(call.operator, bridge.operator) \in Accounts
      /\ Or(call.feeBps, bridge.feeBps) \in 0..MaxFeeBps
      /\ Or(call.withdrawDelay, bridge.withdrawDelay) \in MinDelay..MaxDelay
  BY <1>1 DEF SetConfig, Or, BridgeConfig
<1>3. Or(call.paused, bridge.paused) \in BOOLEAN
  BY <1>1 DEF Or, BridgeConfig
<1>4. bridge' = [bridge EXCEPT !.admin = Or(call.admin, @), !.operator = Or(call.operator, @),
                   !.feeBps = Or(call.feeBps, @), !.paused = Or(call.paused, @),
                   !.withdrawDelay = Or(call.withdrawDelay, @)]
  BY DEF SetConfig
<1> QED
  BY <1>2, <1>3, <1>4 DEF BridgeConfig

LEMMA AdminStep == IInv /\ Admin => IInv'
<1> SUFFICES ASSUME IInv, Admin PROVE IInv'
  OBVIOUS
<1>1. calls' \in Nat /\ UNCHANGED <<now, withdrawVars, deposits, strayed>>
  BY DEF Admin, IInv
<1> DEFINE Kept == bridge' \in BridgeConfig /\ RegistryTypeOK' /\ ValueTypeOK'
                   /\ rateLimits' \in [Tokens -> RateLimit]
<1>2. ASSUME WithdrawFees PROVE Kept
  BY <1>2, FeesStep DEF IInv
<1>3. ASSUME NEW call \in ConfigCalls, SetConfig(call) PROVE Kept
  BY <1>3, ConfigStep, RegistryFrame, ValueFrame DEF IInv, SetConfig
<1>4. ASSUME NEW c \in Chains, RegisterChain(c) PROVE Kept
  BY <1>4, ValueFrame DEF RegisterChain, IInv, RegistryTypeOK
<1>5. ASSUME NEW k \in MappingKeys, NEW call \in MappingCalls, RegisterToken(k, call) PROVE Kept
  <2>1. [local |-> call.local, mode |-> call.mode, decimals |-> call.decimals,
         srcDecimals |-> call.srcDecimals, accruedFees |-> 0] \in TokenMapping
    BY CallsAssumption DEF TokenMapping
  <2> QED
    BY <1>5, <2>1, ValueFrame DEF RegisterToken, IInv, RegistryTypeOK
<1>6. ASSUME NEW a \in Accounts, NEW active \in BOOLEAN, AddCanceler(a, active) PROVE Kept
  BY <1>6, ValueFrame DEF AddCanceler, IInv, RegistryTypeOK
<1>7. ASSUME NEW t \in Tokens, NEW call \in LimitCalls, SetRateLimit(t, call) PROVE Kept
  <2>1. call.min \in Nat /\ call.maxTx \in Nat /\ call.maxPeriod \in Nat
    BY CallsAssumption
  <2> DEFINE f == [rateLimits EXCEPT ![t].explicit = TRUE]
  <2> DEFINE g == [f EXCEPT ![t].min = call.min]
  <2> DEFINE h == [g EXCEPT ![t].maxTx = call.maxTx]
  <2>2. f \in [Tokens -> RateLimit]
    BY DEF IInv, RateLimit
  <2> HIDE DEF f
  <2>3. g \in [Tokens -> RateLimit]
    BY <2>1, <2>2 DEF RateLimit
  <2> HIDE DEF g
  <2>4. h \in [Tokens -> RateLimit]
    BY <2>1, <2>3 DEF RateLimit
  <2> HIDE DEF h
  <2>5. rateLimits' = [h EXCEPT ![t].maxPeriod = call.maxPeriod]
    BY <1>7 DEF SetRateLimit, f, g, h
  <2>6. rateLimits' \in [Tokens -> RateLimit]
    BY <2>1, <2>4, <2>5 DEF RateLimit
  <2> QED
    BY <1>7, <2>6, RegistryFrame, ValueFrame DEF SetRateLimit, IInv
<1>8. Kept
  BY <1>2, <1>3, <1>4, <1>5, <1>6, <1>7, FeesStep DEF Admin, IInv
<1> QED
  BY <1>1, <1>8, WithdrawFrame, DepositFrame DEF IInv

LEMMA ThirdPartyStep == IInv /\ ThirdParty => IInv'
<1> SUFFICES ASSUME IInv, ThirdParty PROVE IInv'
  OBVIOUS
<1>1. /\ calls' \in Nat
      /\ UNCHANGED <<now, bridge, registryVars, rateLimits, withdrawVars, deposits>>
  BY DEF ThirdParty, IInv
<1>2. PICK t \in Tokens : \E amount \in StrayAmounts :
        /\ SendUnasked(t, amount) \/ Burn(t, amount)
        /\ strayed' = [strayed EXCEPT ![t] = @ + amount]
  BY DEF ThirdParty
<1>3. PICK amount \in StrayAmounts :
        /\ SendUnasked(t, amount) \/ Burn(t, amount)
        /\ strayed' = [strayed EXCEPT ![t] = @ + amount]
  BY <1>2
<1>4. amount \in Nat
  BY SolanaAssumption
<1>5. strayed' \in [Tokens -> Nat]
  BY <1>3, <1>4 DEF IInv
<1>6. ValueTypeOK'
  BY <1>3, <1>4, SolanaAssumption DEF SendUnasked, Burn, IInv, ValueTypeOK
<1> QED
  BY <1>1, <1>5, <1>6, WithdrawFrame, RegistryFrame, DepositFrame DEF IInv

\* Every step keeps the inductive invariant.
LEMMA StepIInv == IInv /\ [Next]_vars => IInv'
<1> SUFFICES ASSUME IInv, [Next]_vars PROVE IInv'
  OBVIOUS
<1>1. ASSUME Deposit, UNCHANGED <<strayed, calls>> PROVE IInv'
  BY <1>1, DepositStep
<1>2. ASSUME NEW x \in Xfers, Withdraw(x), UNCHANGED <<strayed, calls>> PROVE IInv'
  BY <1>2, SubmitStep, ApproveStep, ReviewStep, ExecuteStep DEF Withdraw
<1>3. CASE Admin
  BY <1>3, AdminStep
<1>4. ASSUME now' \in Nat, UNCHANGED <<bridge, registryVars, rateLimits, withdrawVars, deposits,
                                       valueVars, strayed, calls>>
      PROVE  IInv'
  BY <1>4, WithdrawFrame, RegistryFrame, ValueFrame, DepositFrame DEF IInv
<1>5. CASE Tick
  BY <1>4, <1>5 DEF Tick, IInv
<1>6. CASE UNCHANGED vars
  BY <1>4, <1>6 DEF vars, IInv
<1>7. CASE ThirdParty
  BY <1>7, ThirdPartyStep
<1> QED
  BY <1>1, <1>2, <1>3, <1>5, <1>6, <1>7 DEF Next

\* The inductive invariant holds throughout.
THEOREM Invariance == Spec => []IInv
  BY InitIInv, StepIInv, PTL DEF Spec

\* Every account keeps its type: the bridge account keeps its rent, no token account is
\* overdrawn, and the delay and the fee stay within their bounds, through any mix of
\* deposits, tips, payouts and fee withdrawals.
THEOREM TypeCorrect == Spec => []TypeOK
<1>1. IInv => TypeOK
  BY DEF IInv, TypeOK, RegistryTypeOK, WithdrawInv, WithdrawTypeOK, DepositTypeOK, ValueTypeOK
<1> QED
  BY <1>1, Invariance, PTL

(***************************************************************************)
(* Refinement                                                              *)
(***************************************************************************)
LEMMA InitRefines == Init => WT!Init
  BY DEF Init, WT!Init, Stage, Live

LEMMA StagesUntouched ==
  ASSUME UNCHANGED withdrawVars
  PROVE  /\ [y \in Xfers |-> Stage(y)]' = [y \in Xfers |-> Stage(y)]
         /\ UNCHANGED vouchedAt
  BY DEF withdrawVars, Stage, Live

\* Each step of a withdrawal is the step of the same name of a watchtower.
LEMMA WithdrawRefines ==
  ASSUME IInv, NEW x \in Xfers, Withdraw(x)
  PROVE  [WT!Next]_(WT!vars)
<1> USE DEF IInv, WithdrawInv, WithdrawTypeOK, StagesOrdered, Live, Stage, WT!Advance
<1>1. ASSUME NEW r \in RemoteTokens, NEW tip \in Tips, WithdrawSubmit(x, r, tip)
      PROVE  WT!Submit(x)
  <2> DEFINE m == tokenMappings[<<x.srcChain, r>>]
  <2> DEFINE p == [srcDecimals |-> m.srcDecimals, destDecimals |-> m.decimals, operatorGas |-> tip,
                   approved |-> FALSE, approvedAt |-> 0, cancelled |-> FALSE]
  <2>1. /\ IsNew(x) /\ pending' = [pending EXCEPT ![x] = p]
        /\ UNCHANGED <<now, executedHashes, vouchedAt>>
    BY <1>1 DEF WithdrawSubmit
  <2>2. m \in TokenMapping /\ tip \in Nat
    BY <1>1, SolanaAssumption DEF WithdrawSubmit, MappedOnRegisteredChain, MappingKeys, RegistryTypeOK
  <2>3. p # NoPending /\ ~p.approved /\ ~p.cancelled
    <3>1. p \in PendingWithdraw
      BY <2>2 DEF TokenMapping, PendingWithdraw
    <3> QED
      BY <3>1, RecordIsPending
  <2> HIDE DEF p, m
  <2>4. Stage(x) = "none"
    BY <2>1 DEF IsNew
  <2>5. [y \in Xfers |-> Stage(y)]' = [[y \in Xfers |-> Stage(y)] EXCEPT ![x] = "submitted"]
    BY <2>1, <2>3
  <2> QED
    BY <2>1, <2>4, <2>5 DEF WT!Submit
<1>2. ASSUME NEW a \in Accounts, WithdrawApprove(a, x) PROVE WT!Approve(x)
  <2>1. \A y \in Xfers : WT!Key(y) = WT!Key(x) => Stage(y) \notin WT!Vouched
    BY <1>2 DEF WithdrawApprove, Key, WT!Key, WT!Vouched
  <2>2. pending[x] \in PendingWithdraw
    BY <1>2 DEF WithdrawApprove
  <2> DEFINE p == [pending[x] EXCEPT !.approved = TRUE, !.approvedAt = now]
  <2>3. p \in PendingWithdraw /\ p.approved /\ ~p.cancelled
    BY <1>2, <2>2 DEF WithdrawApprove, PendingWithdraw
  <2>4. pending' = [pending EXCEPT ![x] = p] /\ vouchedAt' = [vouchedAt EXCEPT ![x] = now]
        /\ UNCHANGED <<now, executedHashes>> /\ Stage(x) = "submitted"
    BY <1>2 DEF WithdrawApprove
  <2> HIDE DEF p
  <2>5. [y \in Xfers |-> Stage(y)]' = [[y \in Xfers |-> Stage(y)] EXCEPT ![x] = "approved"]
    BY <2>3, <2>4, RecordIsPending
  <2> QED
    BY <2>1, <2>4, <2>5 DEF WT!Approve
<1>3. ASSUME NEW a \in Accounts, WithdrawCancel(a, x) PROVE WT!Cancel(x)
  <2> DEFINE p == [pending[x] EXCEPT !.cancelled = TRUE]
  <2>1. p \in PendingWithdraw /\ p.cancelled
    BY <1>3 DEF WithdrawCancel, PendingWithdraw
  <2>2. /\ pending' = [pending EXCEPT ![x] = p] /\ Stage(x) = "approved"
        /\ UNCHANGED <<now, executedHashes, vouchedAt>>
    BY <1>3 DEF WithdrawCancel
  <2> HIDE DEF p
  <2>3. [y \in Xfers |-> Stage(y)]' = [[y \in Xfers |-> Stage(y)] EXCEPT ![x] = "cancelled"]
    BY <2>1, <2>2, RecordIsPending
  <2> QED
    BY <2>2, <2>3 DEF WT!Cancel
<1>4. ASSUME NEW a \in Accounts, WithdrawReenable(a, x) PROVE WT!Reinstate(x)
  <2> DEFINE p == [pending[x] EXCEPT !.cancelled = FALSE, !.approved = TRUE, !.approvedAt = now]
  <2>1. p \in PendingWithdraw /\ p.approved /\ ~p.cancelled
    BY <1>4 DEF WithdrawReenable, PendingWithdraw
  <2>2. /\ pending' = [pending EXCEPT ![x] = p] /\ vouchedAt' = [vouchedAt EXCEPT ![x] = now]
        /\ UNCHANGED <<now, executedHashes>> /\ Stage(x) = "cancelled"
    BY <1>4 DEF WithdrawReenable
  <2> HIDE DEF p
  <2>3. [y \in Xfers |-> Stage(y)]' = [[y \in Xfers |-> Stage(y)] EXCEPT ![x] = "approved"]
    BY <2>1, <2>2, RecordIsPending
  <2> QED
    BY <2>2, <2>3 DEF WT!Reinstate
<1>5. ASSUME NEW s, Execute(x, s) PROVE WT!Execute(x)
  <2>1. now > vouchedAt[x] + MinDelay
    <3>1. /\ bridge.withdrawDelay \in MinDelay..MaxDelay /\ MinDelay \in Nat /\ MaxDelay \in Nat
          /\ now \in Nat /\ vouchedAt[x] \in Nat
      BY SolanaAssumption DEF BridgeConfig
    <3>2. now > vouchedAt[x] + bridge.withdrawDelay
      BY <1>5 DEF Execute, Ready, WindowEnd
    <3> QED
      BY <3>1, <3>2
  <2>2. [y \in Xfers |-> Stage(y)]' = [[y \in Xfers |-> Stage(y)] EXCEPT ![x] = "executed"]
    BY <1>5 DEF Execute, Ready
  <2> QED
    BY <1>5, <2>1, <2>2 DEF Execute, Ready, WT!Execute
<1> QED
  BY <1>1, <1>2, <1>3, <1>4, <1>5 DEF Withdraw, WithdrawExecute, WithdrawExecuteNative, WT!Next

LEMMA StepRefines == IInv /\ [Next]_vars => [WT!Next]_(WT!vars)
<1> SUFFICES ASSUME IInv, [Next]_vars PROVE [WT!Next]_(WT!vars)
  OBVIOUS
<1>1. ASSUME NEW x \in Xfers, Withdraw(x) PROVE [WT!Next]_(WT!vars)
  BY <1>1, WithdrawRefines
<1>2. ASSUME UNCHANGED <<now, withdrawVars>> PROVE UNCHANGED WT!vars
  BY <1>2, StagesUntouched DEF WT!vars
<1>3. CASE Deposit
  BY <1>2, <1>3 DEF Deposit, DepositNative, DepositSpl
<1>4. CASE Admin
  BY <1>2, <1>4 DEF Admin
<1>5. CASE Tick
  <2>1. now' > now /\ now' \in Nat /\ UNCHANGED withdrawVars
    BY <1>5 DEF Tick, IInv
  <2> QED
    BY <2>1, StagesUntouched DEF WT!Next, WT!Wait
<1>6. CASE UNCHANGED vars
  BY <1>2, <1>6 DEF vars
<1>7. CASE ThirdParty
  BY <1>2, <1>7 DEF ThirdParty
<1> QED
  BY <1>1, <1>3, <1>4, <1>5, <1>6, <1>7 DEF Next

\* The Solana program is a watchtower, although execution closes the account that held
\* the withdrawal: what remains of it keeps any hash from being submitted or paid again.
THEOREM SolanaIsWatchtower == Spec => ImplementsWatchtower
  BY InitRefines, StepRefines, Invariance, PTL DEF Spec, ImplementsWatchtower, WT!Spec

\* The abstract proof, about the stages of the program's withdrawals.
WTP == INSTANCE WatchtowerProofs WITH
  status    <- [x \in Xfers |-> Stage(x)],
  liveSince <- vouchedAt,
  MinWindow <- MinDelay

\* What every watchtower promises holds of the Solana program: of all the transfers that claim
\* one source deposit at most one is ever approved, through cancellations,
\* reinstatements and closed accounts.
THEOREM VouchesOnce == Spec => []WT!OneVouchedPerDeposit
<1>1. WT!Spec => WTP!Spec
  BY PTL
  DEF WT!Spec, WT!Init, WT!Next, WT!vars, WT!Submit, WT!Approve, WT!Cancel, WT!Reinstate,
      WT!Execute, WT!Wait, WT!Advance, WT!Key, WT!Vouched,
      WTP!Spec, WTP!Init, WTP!Next, WTP!vars, WTP!Submit, WTP!Approve, WTP!Cancel,
      WTP!Reinstate, WTP!Execute, WTP!Wait, WTP!Advance, WTP!Key, WTP!Vouched
<1>2. WTP!OneVouchedPerDeposit <=> WT!OneVouchedPerDeposit
  BY DEF WTP!OneVouchedPerDeposit, WTP!Key, WTP!Vouched,
         WT!OneVouchedPerDeposit, WT!Key, WT!Vouched
<1> QED
  BY <1>1, <1>2, WTP!OneVouched, SolanaIsWatchtower, PTL DEF ImplementsWatchtower

(***************************************************************************)
(* The sums of the books                                                   *)
(***************************************************************************)
Registered == {k \in MappingKeys : tokenMappings[k] # NoMapping}
AllLive    == {x \in Xfers : Live(x)}

\* The sums are over finite sets, and a record's nonce is no later one's.
Countable ==
  /\ IsFiniteSet(deposits) /\ IsFiniteSet(Registered)
  /\ IsFiniteSet(AllLive) /\ IsFiniteSet(executedHashes)
  /\ \A d \in deposits : d.nonce <= bridge.depositNonce

\* A new record adds its amount to the deposits of what was paid in.
LEMMA DepositedChange ==
  ASSUME IInv, Countable, NEW k \in MappingKeys, NEW net \in Nat, NEW t \in Tokens, NEW fees,
         RecordDeposit(k, net, t, fees)
  PROVE  /\ IsFiniteSet(deposits') /\ \A d \in deposits' : d.nonce <= bridge'.depositNonce
         /\ \A u \in Tokens : /\ Deposited(u) \in Nat
                              /\ Deposited(u)' = Deposited(u) + (IF u = t THEN net ELSE 0)
<1> DEFINE d == [destChain |-> k[1], token |-> k[2], amount |-> net,
                 nonce |-> bridge.depositNonce + 1, paidIn |-> t]
<1>1. deposits' = deposits \cup {d}
  BY DEF RecordDeposit
<1>2. d.paidIn = t /\ d.amount = net /\ d.nonce = bridge.depositNonce + 1
  OBVIOUS
<1> HIDE DEF d
<1>3. bridge.depositNonce \in Nat /\ \A e \in deposits : e.amount \in Nat /\ e.nonce \in Nat
  BY DEF IInv, BridgeConfig, DepositTypeOK
<1>4. d \notin deposits
  <2>1. ~(bridge.depositNonce + 1 <= bridge.depositNonce)
    BY <1>3
  <2> QED
    BY <1>2, <2>1 DEF Countable
<1>5. IsFiniteSet(deposits')
  BY <1>1, FS_AddElement DEF Countable
<1>6. \A e \in deposits' : e.nonce <= bridge'.depositNonce
  <2>1. bridge'.depositNonce = bridge.depositNonce + 1
    BY DEF RecordDeposit, IInv, BridgeConfig
  <2> QED
    BY <1>1, <1>2, <1>3, <2>1 DEF Countable
<1>7. ASSUME NEW u \in Tokens
      PROVE  /\ Deposited(u) \in Nat
             /\ Deposited(u)' = Deposited(u) + (IF u = t THEN net ELSE 0)
  <2> DEFINE S == {e \in deposits : e.paidIn = u}
             T == {e \in deposits' : e.paidIn = u}
             f == [e \in deposits |-> e.amount]
             g == [e \in deposits' |-> e.amount]
  <2>1. IsFiniteSet(S)
    BY FS_Subset DEF Countable
  <2>2. S \ {d} = T \ {d} /\ d \notin S /\ (d \in T <=> u = t)
    BY <1>1, <1>2, <1>4
  <2>3. AllNat(f, S) /\ AllNat(g, T) /\ g[d] = net /\ \A e \in S \ {d} : f[e] = g[e]
    BY <1>1, <1>2, <1>3 DEF AllNat
  <2> HIDE DEF S, T, f, g
  <2>4. /\ SumFunctionOnSet(f, S) \in Nat /\ SumFunctionOnSet(g, T) \in Nat
        /\ SumFunctionOnSet(g, T) + (IF d \in S THEN f[d] ELSE 0) =
             SumFunctionOnSet(f, S) + (IF d \in T THEN g[d] ELSE 0)
    BY <2>1, <2>2, <2>3, SumChange
  <2>5. SumFunctionOnSet(g, T) = SumFunctionOnSet(f, S) + (IF u = t THEN net ELSE 0)
    BY <2>2, <2>3, <2>4
  <2> QED
    BY <2>4, <2>5 DEF Deposited, S, T, f, g
<1> QED
  BY <1>5, <1>6, <1>7

LEMMA DepositedIsNat ==
  ASSUME IInv, Countable, NEW t
  PROVE  Deposited(t) \in Nat
<1> DEFINE f == [d \in deposits |-> d.amount]
           S == {d \in deposits : d.paidIn = t}
<1>1. IsFiniteSet(S)
  BY FS_Subset DEF Countable
<1>2. AllNat(f, S)
  BY DEF AllNat, IInv, DepositTypeOK
<1> HIDE DEF f, S
<1>3. SumFunctionOnSet(f, S) \in Nat
  BY <1>1, <1>2, SumNat
<1> QED
  BY <1>3 DEF Deposited, f, S

\* The payout of a withdrawal is entered when its ExecutedHash appears.
LEMMA PaidChange ==
  ASSUME IInv, Countable, NEW x \in Xfers, x \notin executedHashes, NEW amount \in Nat,
         executedHashes' = executedHashes \cup {x},
         paid' = [paid EXCEPT ![x] = [amount |-> amount, at |-> now]]
  PROVE  \A u \in Tokens : /\ PaidOut(u) \in Nat
                           /\ PaidOut(u)' = PaidOut(u) + (IF u = x.token THEN amount ELSE 0)
<1> SUFFICES ASSUME NEW u \in Tokens
             PROVE  /\ PaidOut(u) \in Nat
                    /\ PaidOut(u)' = PaidOut(u) + (IF u = x.token THEN amount ELSE 0)
  OBVIOUS
<1> DEFINE S == {y \in executedHashes : y.token = u}
           T == {y \in executedHashes' : y.token = u}
           f == [y \in Xfers |-> paid[y].amount]
           g == [y \in Xfers |-> paid'[y].amount]
<1>1. IsFiniteSet(S)
  BY FS_Subset DEF Countable
<1>2. S \ {x} = T \ {x} /\ x \notin S /\ (x \in T <=> u = x.token) /\ T \subseteq Xfers
  BY DEF IInv, WithdrawInv, WithdrawTypeOK
<1>3. \A y \in Xfers : /\ f[y] \in Nat /\ g[y] \in Nat
                       /\ g[y] = IF y = x THEN amount ELSE f[y]
  BY DEF IInv, WithdrawInv, WithdrawTypeOK
<1>4. PaidOut(u) = SumFunctionOnSet(f, S) /\ PaidOut(u)' = SumFunctionOnSet(g, T)
  BY DEF PaidOut
<1>5. S \subseteq Xfers
  BY DEF IInv, WithdrawInv, WithdrawTypeOK
<1> HIDE DEF S, T, f, g
<1>6. AllNat(f, S) /\ AllNat(g, T) /\ g[x] = amount /\ \A y \in S \ {x} : f[y] = g[y]
  BY <1>2, <1>3, <1>5 DEF AllNat
<1>7. /\ SumFunctionOnSet(f, S) \in Nat /\ SumFunctionOnSet(g, T) \in Nat
      /\ SumFunctionOnSet(g, T) + (IF x \in S THEN f[x] ELSE 0) =
           SumFunctionOnSet(f, S) + (IF x \in T THEN g[x] ELSE 0)
  BY <1>1, <1>2, <1>6, SumChange
<1> QED
  BY <1>2, <1>4, <1>6, <1>7

LEMMA PaidIsNat ==
  ASSUME IInv, Countable, NEW t
  PROVE  PaidOut(t) \in Nat
<1> DEFINE f == [x \in Xfers |-> paid[x].amount]
           S == {x \in executedHashes : x.token = t}
<1>1. IsFiniteSet(S)
  BY FS_Subset DEF Countable
<1>2. AllNat(f, S)
  BY DEF AllNat, IInv, WithdrawInv, WithdrawTypeOK
<1> HIDE DEF f, S
<1>3. SumFunctionOnSet(f, S) \in Nat
  BY <1>1, <1>2, SumNat
<1> QED
  BY <1>3 DEF PaidOut, f, S

\* The fees booked on a mapping, 0 if there is none onto t.
FeesOn(k, t) == IF k \in MappingsOf(t) THEN tokenMappings[k].accruedFees ELSE 0

LEMMA FeesAreNat ==
  ASSUME IInv, Countable, NEW t
  PROVE  /\ IsFiniteSet(MappingsOf(t)) /\ BookedFees(t) \in Nat
         /\ \A k \in MappingsOf(t) : tokenMappings[k].accruedFees \in Nat
<1>1. IsFiniteSet(MappingsOf(t))
  BY FS_Subset DEF Countable, Registered, MappingsOf
<1>2. \A k \in MappingsOf(t) : tokenMappings[k].accruedFees \in Nat
  BY DEF MappingsOf, IInv, RegistryTypeOK, TokenMapping
<1> DEFINE f == [k \in MappingsOf(t) |-> tokenMappings[k].accruedFees]
<1>3. AllNat(f, MappingsOf(t))
  BY <1>2 DEF AllNat
<1> HIDE DEF f
<1>4. SumFunctionOnSet(f, MappingsOf(t)) \in Nat
  BY <1>1, <1>3, SumNat
<1>5. bridge.accruedNativeFees \in Nat
  BY DEF IInv, BridgeConfig
<1> QED
  BY <1>1, <1>2, <1>4, <1>5 DEF BookedFees, f

\* When one mapping changes, the booked fees of a mint change by what it has booked.
LEMMA FeesChange ==
  ASSUME IInv, IInv', Countable, NEW k \in MappingKeys, NEW t \in Mints,
         \A j \in MappingKeys \ {k} : tokenMappings'[j] = tokenMappings[j]
  PROVE  /\ BookedFees(t) \in Nat /\ BookedFees(t)' \in Nat
         /\ BookedFees(t)' + FeesOn(k, t) = BookedFees(t) + FeesOn(k, t)'
<1> DEFINE S == MappingsOf(t)
           T == MappingsOf(t)'
           f == [j \in S |-> tokenMappings[j].accruedFees]
           g == [j \in T |-> tokenMappings'[j].accruedFees]
<1>1. IsFiniteSet(S) /\ AllNat(f, S)
  BY FeesAreNat DEF AllNat
<1>2. AllNat(g, T)
  BY DEF AllNat, MappingsOf, IInv, RegistryTypeOK, TokenMapping
<1>3. S \ {k} = T \ {k}
  BY DEF MappingsOf
<1>4. \A j \in S \ {k} : f[j] = g[j]
  BY <1>3 DEF MappingsOf
<1>5. t # NATIVE_SOL_TOKEN
  BY SolanaAssumption
<1>6. BookedFees(t) = SumFunctionOnSet(f, S) /\ BookedFees(t)' = SumFunctionOnSet(g, T)
  BY <1>5 DEF BookedFees
<1>7. /\ FeesOn(k, t) = IF k \in S THEN f[k] ELSE 0
      /\ FeesOn(k, t)' = IF k \in T THEN g[k] ELSE 0
  BY DEF FeesOn
<1> HIDE DEF f, g, S, T
<1>8. /\ SumFunctionOnSet(f, S) \in Nat /\ SumFunctionOnSet(g, T) \in Nat
      /\ SumFunctionOnSet(g, T) + (IF k \in S THEN f[k] ELSE 0) =
           SumFunctionOnSet(f, S) + (IF k \in T THEN g[k] ELSE 0)
  BY <1>1, <1>2, <1>3, <1>4, SumChange
<1> QED
  BY <1>6, <1>7, <1>8

\* The tip escrowed for x.
TipOf(x) == IF x \in Unapproved THEN pending[x].operatorGas ELSE 0

LEMMA TipsAreNat ==
  ASSUME IInv, Countable
  PROVE  /\ IsFiniteSet(Unapproved) /\ EscrowedTips \in Nat
         /\ \A x \in Unapproved : pending[x].operatorGas \in Nat
<1>1. IsFiniteSet(Unapproved)
  BY FS_Subset DEF Countable, AllLive, Unapproved
<1>2. \A x \in Unapproved : pending[x].operatorGas \in Nat
  BY DEF Unapproved, Live, IInv, WithdrawInv, WithdrawTypeOK, PendingWithdraw
<1> DEFINE f == [x \in Unapproved |-> pending[x].operatorGas]
<1>3. AllNat(f, Unapproved)
  BY <1>2 DEF AllNat
<1> HIDE DEF f
<1>4. SumFunctionOnSet(f, Unapproved) \in Nat
  BY <1>1, <1>3, SumNat
<1> QED
  BY <1>1, <1>2, <1>4 DEF EscrowedTips, f

\* When one withdrawal changes, the escrow changes by its tip.
LEMMA TipsChange ==
  ASSUME IInv, IInv', Countable, NEW x \in Xfers,
         \A y \in Xfers \ {x} : pending'[y] = pending[y]
  PROVE  /\ EscrowedTips \in Nat /\ EscrowedTips' \in Nat
         /\ EscrowedTips' + TipOf(x) = EscrowedTips + TipOf(x)'
<1> DEFINE S == Unapproved
           T == Unapproved'
           f == [y \in S |-> pending[y].operatorGas]
           g == [y \in T |-> pending'[y].operatorGas]
<1>1. IsFiniteSet(S) /\ AllNat(f, S)
  BY TipsAreNat DEF AllNat
<1>2. AllNat(g, T)
  BY DEF AllNat, Unapproved, Live, IInv, WithdrawInv, WithdrawTypeOK, PendingWithdraw
<1>3. S \ {x} = T \ {x}
  BY DEF Unapproved, Live
<1>4. \A y \in S \ {x} : f[y] = g[y]
  BY <1>3 DEF Unapproved
<1>5. EscrowedTips = SumFunctionOnSet(f, S) /\ EscrowedTips' = SumFunctionOnSet(g, T)
  BY DEF EscrowedTips
<1>6. /\ TipOf(x) = IF x \in S THEN f[x] ELSE 0
      /\ TipOf(x)' = IF x \in T THEN g[x] ELSE 0
  BY DEF TipOf
<1> HIDE DEF f, g, S, T
<1>7. /\ SumFunctionOnSet(f, S) \in Nat /\ SumFunctionOnSet(g, T) \in Nat
      /\ SumFunctionOnSet(g, T) + (IF x \in S THEN f[x] ELSE 0) =
           SumFunctionOnSet(f, S) + (IF x \in T THEN g[x] ELSE 0)
  BY <1>1, <1>2, <1>3, <1>4, SumChange
<1> QED
  BY <1>5, <1>6, <1>7
\* A withdrawal whose tip is not escrowed moves none.
LEMMA NoTipMoves ==
  ASSUME NEW x \in Xfers, \A y \in Xfers \ {x} : pending'[y] = pending[y],
         x \notin Unapproved, x \notin Unapproved'
  PROVE  EscrowedTips' = EscrowedTips
<1>1. Unapproved' = Unapproved
  BY DEF Unapproved, Live
<1>2. \A y \in Unapproved : pending'[y] = pending[y]
  BY DEF Unapproved
<1> QED
  BY <1>1, <1>2 DEF EscrowedTips

(***************************************************************************)
(* The books, step by step.  dd, df, de and dp are what a step adds to the *)
(* recorded deposits, the booked fees, the escrowed tips and the payouts.  *)
(***************************************************************************)
NativeBooks ==
  lamports = InitialLamports + Deposited(NATIVE_SOL_TOKEN) + BookedFees(NATIVE_SOL_TOKEN)
               + EscrowedTips - PaidOut(NATIVE_SOL_TOKEN) + strayed[NATIVE_SOL_TOKEN]

MintBooks(t) ==
  supply[t] - vault[t] =
    InitialSupply[t] - InitialVault[t] - Deposited(t) - BookedFees(t) + PaidOut(t) - strayed[t]

Ledger == Countable /\ ValueConserved

LEMMA NativeBalance ==
  ASSUME IInv, Countable, UNCHANGED strayed, NEW dd \in Int, NEW df \in Int, NEW de \in Int, NEW dp \in Int,
         Deposited(NATIVE_SOL_TOKEN)' = Deposited(NATIVE_SOL_TOKEN) + dd,
         BookedFees(NATIVE_SOL_TOKEN)' = BookedFees(NATIVE_SOL_TOKEN) + df,
         EscrowedTips' = EscrowedTips + de,
         PaidOut(NATIVE_SOL_TOKEN)' = PaidOut(NATIVE_SOL_TOKEN) + dp,
         lamports' = lamports + dd + df + de - dp
  PROVE  /\ NativeBooks => NativeBooks'
         /\ dd >= dp /\ Covered(NATIVE_SOL_TOKEN) => Covered(NATIVE_SOL_TOKEN)'
<1>1. /\ Deposited(NATIVE_SOL_TOKEN) \in Nat /\ BookedFees(NATIVE_SOL_TOKEN) \in Nat
      /\ EscrowedTips \in Nat /\ PaidOut(NATIVE_SOL_TOKEN) \in Nat
  BY DepositedIsNat, FeesAreNat, TipsAreNat, PaidIsNat
<1>2. lamports \in Nat /\ Rent \in Nat /\ InitialLamports \in Nat
  BY SolanaAssumption, DeploymentAssumption DEF IInv, ValueTypeOK
<1>3. strayed[NATIVE_SOL_TOKEN] \in Nat
  BY DEF IInv, Tokens
<1> QED
  BY <1>1, <1>2, <1>3 DEF NativeBooks, Covered

LEMMA MintBalance ==
  ASSUME IInv, Countable, UNCHANGED strayed, NEW t \in Mints, NEW dd \in Int, NEW df \in Int, NEW dp \in Int,
         Deposited(t)' = Deposited(t) + dd, BookedFees(t)' = BookedFees(t) + df,
         PaidOut(t)' = PaidOut(t) + dp,
         supply'[t] \in Nat, vault'[t] \in Nat,
         supply'[t] - vault'[t] = supply[t] - vault[t] - dd - df + dp
  PROVE  /\ MintBooks(t) => MintBooks(t)'
         /\ vault'[t] - vault[t] >= df /\ Covered(t) => Covered(t)'
<1>1. Deposited(t) \in Nat /\ BookedFees(t) \in Nat /\ PaidOut(t) \in Nat
  BY DepositedIsNat, FeesAreNat, PaidIsNat
<1>2. /\ supply[t] \in Nat /\ vault[t] \in Nat
      /\ InitialSupply[t] \in Nat /\ InitialVault[t] \in Nat
  BY DeploymentAssumption DEF IInv, ValueTypeOK
<1>3. t # NATIVE_SOL_TOKEN /\ strayed[t] \in Nat
  BY SolanaAssumption DEF IInv, Tokens
<1> QED
  BY <1>1, <1>2, <1>3 DEF MintBooks, Covered

\* What a step leaves alone.
LEMMA SumsUntouched ==
  /\ UNCHANGED deposits => \A t : Deposited(t)' = Deposited(t)
  /\ UNCHANGED <<executedHashes, paid>> => \A t : PaidOut(t)' = PaidOut(t)
  /\ UNCHANGED tokenMappings /\ bridge'.accruedNativeFees = bridge.accruedNativeFees =>
       \A t : BookedFees(t)' = BookedFees(t)
  /\ UNCHANGED tokenMappings => \A t \in Mints : BookedFees(t)' = BookedFees(t)
  /\ UNCHANGED pending => EscrowedTips' = EscrowedTips
<1>1. \A t \in Mints : t # NATIVE_SOL_TOKEN
  BY SolanaAssumption
<1> QED
  BY <1>1 DEF Deposited, PaidOut, BookedFees, MappingsOf, EscrowedTips, Unapproved, Live

LEMMA MintUntouched ==
  ASSUME NEW t \in Mints, supply'[t] = supply[t], vault'[t] = vault[t], strayed'[t] = strayed[t],
         Deposited(t)' = Deposited(t), BookedFees(t)' = BookedFees(t), PaidOut(t)' = PaidOut(t)
  PROVE  (MintBooks(t) => MintBooks(t)') /\ (Covered(t) => Covered(t)')
<1>1. t # NATIVE_SOL_TOKEN
  BY SolanaAssumption
<1> QED
  BY <1>1 DEF MintBooks, Covered

LEMMA NativeUntouched ==
  ASSUME UNCHANGED lamports, strayed'[NATIVE_SOL_TOKEN] = strayed[NATIVE_SOL_TOKEN],
         EscrowedTips' = EscrowedTips,
         Deposited(NATIVE_SOL_TOKEN)' = Deposited(NATIVE_SOL_TOKEN),
         BookedFees(NATIVE_SOL_TOKEN)' = BookedFees(NATIVE_SOL_TOKEN),
         PaidOut(NATIVE_SOL_TOKEN)' = PaidOut(NATIVE_SOL_TOKEN)
  PROVE  /\ NativeBooks => NativeBooks'
         /\ Covered(NATIVE_SOL_TOKEN) => Covered(NATIVE_SOL_TOKEN)'
  BY DEF NativeBooks, Covered

\* A step keeps the books of t, and its cover besides.
Keeps(t) ==
  /\ IF t = NATIVE_SOL_TOKEN THEN NativeBooks => NativeBooks' ELSE MintBooks(t) => MintBooks(t)'
  /\ Covered(t) => Covered(t)'

LEMMA KeepsAll ==
  ASSUME /\ NativeBooks => NativeBooks'
         /\ Covered(NATIVE_SOL_TOKEN) => Covered(NATIVE_SOL_TOKEN)',
         \A t \in Mints : (MintBooks(t) => MintBooks(t)') /\ (Covered(t) => Covered(t)')
  PROVE  \A t \in Tokens : Keeps(t)
<1>1. \A t \in Mints : t # NATIVE_SOL_TOKEN
  BY SolanaAssumption
<1> QED
  BY <1>1 DEF Keeps, Tokens

LEMMA NothingMoves ==
  ASSUME UNCHANGED <<valueVars, deposits, executedHashes, paid, pending, tokenMappings, strayed>>,
         bridge'.accruedNativeFees = bridge.accruedNativeFees
  PROVE  \A t \in Tokens : Keeps(t)
<1>1. \A t \in Mints : (MintBooks(t) => MintBooks(t)') /\ (Covered(t) => Covered(t)')
  BY SumsUntouched, MintUntouched DEF valueVars
<1> QED
  BY <1>1, SumsUntouched, NativeUntouched, KeepsAll DEF valueVars

\* The amount comes in; the fee is booked and the rest recorded.
LEMMA DepositKeeps ==
  ASSUME IInv, IInv', Countable, Deposit, UNCHANGED strayed
  PROVE  \A t \in Tokens : Keeps(t)
<1> SUFFICES ASSUME NEW k \in MappingKeys, NEW amount \in DepositAmounts,
                    DepositNative(k, amount) \/ DepositSpl(k, amount)
             PROVE  \A t \in Tokens : Keeps(t)
  BY DEF Deposit
<1> DEFINE fee == DepositFee(amount)
           net == amount - fee
<1>1. amount \in Nat /\ fee \in Nat /\ fee <= amount
  BY SolanaAssumption, FeeWithinAmount DEF IInv
<1> HIDE DEF fee
<1>2. net \in Nat /\ amount = net + fee
  BY <1>1
<1> HIDE DEF net
<1>3. \A t \in Mints : t # NATIVE_SOL_TOKEN
  BY SolanaAssumption
<1>4. CASE DepositNative(k, amount)
  <2>1. /\ RecordDeposit(k, net, NATIVE_SOL_TOKEN, bridge.accruedNativeFees + fee)
        /\ lamports' = lamports + amount
        /\ UNCHANGED <<tokenMappings, pending, executedHashes, paid, vault, supply>>
    BY <1>4 DEF DepositNative, registryVars, withdrawVars, net, fee
  <2>2. \A u \in Tokens :
          Deposited(u)' = Deposited(u) + (IF u = NATIVE_SOL_TOKEN THEN net ELSE 0)
    <3>1. NATIVE_SOL_TOKEN \in Tokens
      BY DEF Tokens
    <3> QED
      BY <1>2, <2>1, <3>1, DepositedChange
  <2>3. BookedFees(NATIVE_SOL_TOKEN)' = BookedFees(NATIVE_SOL_TOKEN) + fee
    BY <2>1 DEF BookedFees, RecordDeposit, IInv, BridgeConfig
  <2>4. /\ NativeBooks => NativeBooks'
        /\ Covered(NATIVE_SOL_TOKEN) => Covered(NATIVE_SOL_TOKEN)'
    <3>1. /\ Deposited(NATIVE_SOL_TOKEN)' = Deposited(NATIVE_SOL_TOKEN) + net
          /\ EscrowedTips' = EscrowedTips + 0
          /\ PaidOut(NATIVE_SOL_TOKEN)' = PaidOut(NATIVE_SOL_TOKEN) + 0
      BY <2>1, <2>2, SumsUntouched, TipsAreNat, PaidIsNat DEF Tokens
    <3>2. lamports' = lamports + net + fee + 0 - 0
      BY <1>1, <1>2, <2>1 DEF IInv, ValueTypeOK
    <3> QED
      BY <1>1, <1>2, <2>3, <3>1, <3>2, NativeBalance
  <2>5. \A t \in Mints : (MintBooks(t) => MintBooks(t)') /\ (Covered(t) => Covered(t)')
    <3> SUFFICES ASSUME NEW t \in Mints
                 PROVE  (MintBooks(t) => MintBooks(t)') /\ (Covered(t) => Covered(t)')
      OBVIOUS
    <3>1. Deposited(t)' = Deposited(t)
      BY <1>3, <2>2, DepositedIsNat DEF Tokens
    <3> QED
      BY <2>1, <3>1, SumsUntouched, MintUntouched
  <2> QED
    BY <2>4, <2>5, KeepsAll
<1>5. CASE DepositSpl(k, amount)
  <2> DEFINE m == tokenMappings[k].local
  <2>1. /\ RecordDeposit(k, net, m, bridge.accruedNativeFees)
        /\ MappedOnRegisteredChain(k) /\ m \in Mints
        /\ amount <= supply[m] - vault[m]
        /\ TakeSpl(k, amount, fee)
        /\ tokenMappings' = [tokenMappings EXCEPT ![k].accruedFees = @ + fee]
        /\ UNCHANGED <<pending, executedHashes, paid, lamports>>
    BY <1>5 DEF DepositSpl, registryVars, withdrawVars, net, fee
  <2>2. \A u \in Tokens : Deposited(u)' = Deposited(u) + (IF u = m THEN net ELSE 0)
    BY <1>2, <2>1, DepositedChange DEF Tokens
  <2>3. tokenMappings[k] \in TokenMapping
    BY <2>1 DEF MappedOnRegisteredChain, IInv, RegistryTypeOK
  <2>4. ASSUME NEW t \in Mints
        PROVE  BookedFees(t)' = BookedFees(t) + (IF t = m THEN fee ELSE 0)
    <3>2. /\ BookedFees(t) \in Nat /\ BookedFees(t)' \in Nat
          /\ BookedFees(t)' + FeesOn(k, t) = BookedFees(t) + FeesOn(k, t)'
      BY <2>1, FeesChange
    <3>3. /\ tokenMappings'[k].local = m
          /\ tokenMappings'[k].accruedFees = tokenMappings[k].accruedFees + fee
          /\ tokenMappings[k].accruedFees \in Nat
          /\ tokenMappings[k] # NoMapping /\ tokenMappings'[k] # NoMapping
      <4>1. [tokenMappings[k] EXCEPT !.accruedFees = @ + fee] \in TokenMapping
        BY <1>1, <2>3 DEF TokenMapping
      <4>2. tokenMappings'[k] = [tokenMappings[k] EXCEPT !.accruedFees = @ + fee]
        BY <2>1 DEF IInv, RegistryTypeOK
      <4> QED
        BY <2>3, <4>1, <4>2, SolanaAssumption DEF TokenMapping
    <3>4. /\ k \in MappingsOf(t) <=> t = m
          /\ k \in MappingsOf(t)' <=> t = m
      BY <3>3 DEF MappingsOf
    <3> HIDE DEF m
    <3> QED
      BY <1>1, <3>2, <3>3, <3>4 DEF FeesOn
  <2> HIDE DEF m
  <2>5. \/ /\ vault' = [vault EXCEPT ![m] = @ + amount] /\ UNCHANGED supply
        \/ /\ vault' = [vault EXCEPT ![m] = @ + fee]
           /\ supply' = [supply EXCEPT ![m] = @ - net]
    BY <1>2, <2>1 DEF TakeSpl, m, net
  <2>6. /\ NativeBooks => NativeBooks'
        /\ Covered(NATIVE_SOL_TOKEN) => Covered(NATIVE_SOL_TOKEN)'
    <3>1. Deposited(NATIVE_SOL_TOKEN)' = Deposited(NATIVE_SOL_TOKEN)
      BY <1>3, <2>1, <2>2, DepositedIsNat DEF Tokens
    <3>2. BookedFees(NATIVE_SOL_TOKEN)' = BookedFees(NATIVE_SOL_TOKEN)
      BY <2>1 DEF BookedFees, RecordDeposit, IInv, BridgeConfig
    <3> QED
      BY <2>1, <3>1, <3>2, SumsUntouched, NativeUntouched
  <2>7. ASSUME NEW t \in Mints
        PROVE  (MintBooks(t) => MintBooks(t)') /\ (Covered(t) => Covered(t)')
    <3>1. CASE t = m
      <4>1. /\ Deposited(t)' = Deposited(t) + net /\ BookedFees(t)' = BookedFees(t) + fee
            /\ PaidOut(t)' = PaidOut(t) + 0
        BY <2>1, <2>2, <2>4, <3>1, SumsUntouched, PaidIsNat DEF Tokens
      <4>2. /\ supply'[t] \in Nat /\ vault'[t] \in Nat
            /\ supply'[t] - vault'[t] = supply[t] - vault[t] - net - fee + 0
            /\ vault'[t] - vault[t] >= fee
        BY <1>1, <1>2, <2>1, <2>5, <3>1 DEF IInv, ValueTypeOK
      <4> QED
        BY <1>1, <1>2, <4>1, <4>2, MintBalance
    <3>2. CASE t # m
      <4>1. Deposited(t)' = Deposited(t) /\ BookedFees(t)' = BookedFees(t)
        BY <2>2, <2>4, <3>2, DepositedIsNat, FeesAreNat DEF Tokens
      <4>2. supply'[t] = supply[t] /\ vault'[t] = vault[t]
        BY <2>5, <3>2 DEF IInv, ValueTypeOK
      <4> QED
        BY <2>1, <4>1, <4>2, SumsUntouched, MintUntouched
    <3> QED
      BY <3>1, <3>2
  <2> QED
    BY <2>6, <2>7, KeepsAll
<1> QED
  BY <1>4, <1>5
\* A tip is escrowed as it comes in and released as it is paid.
LEMMA TipKeeps ==
  ASSUME IInv, IInv', Countable, UNCHANGED strayed, NEW x \in Xfers,
         \/ \E r \in RemoteTokens, tip \in Tips : WithdrawSubmit(x, r, tip)
         \/ \E a \in Accounts : WithdrawApprove(a, x)
  PROVE  \A t \in Tokens : Keeps(t)
<1>1. /\ UNCHANGED <<bridge, tokenMappings, executedHashes, paid, deposits, vault, supply>>
      /\ \A y \in Xfers \ {x} : pending'[y] = pending[y]
  BY DEF WithdrawSubmit, WithdrawApprove, registryVars, IInv, WithdrawInv, WithdrawTypeOK
<1>2. /\ EscrowedTips \in Nat /\ EscrowedTips' \in Nat
      /\ EscrowedTips' + TipOf(x) = EscrowedTips + TipOf(x)'
  BY <1>1, TipsChange
<1>3. TipOf(x) \in Nat /\ TipOf(x)' \in Nat /\ lamports' = lamports + TipOf(x)' - TipOf(x)
  <2>1. lamports \in Nat
    BY DEF IInv, ValueTypeOK
  <2>2. ASSUME NEW r \in RemoteTokens, NEW tip \in Tips, WithdrawSubmit(x, r, tip)
        PROVE  TipOf(x) = 0 /\ TipOf(x)' = tip /\ lamports' = lamports + tip /\ tip \in Nat
    <3>1. /\ pending'[x].operatorGas = tip /\ ~pending'[x].approved
          /\ lamports' = lamports + tip /\ ~Live(x)
      BY <2>2 DEF WithdrawSubmit, IsNew, IInv, WithdrawInv, WithdrawTypeOK
    <3>2. pending'[x] # NoPending
      <4> DEFINE m == tokenMappings[<<x.srcChain, r>>]
      <4> DEFINE p == [srcDecimals |-> m.srcDecimals, destDecimals |-> m.decimals,
                       operatorGas |-> tip, approved |-> FALSE, approvedAt |-> 0,
                       cancelled |-> FALSE]
      <4>1. m \in TokenMapping /\ tip \in Nat
        <5>1. <<x.srcChain, r>> \in MappingKeys /\ tip \in Nat
          BY SolanaAssumption DEF MappingKeys
        <5>2. m # NoMapping
          BY <2>2 DEF WithdrawSubmit, MappedOnRegisteredChain
        <5> QED
          BY <5>1, <5>2 DEF IInv, RegistryTypeOK
      <4>2. p \in PendingWithdraw
        BY <4>1 DEF TokenMapping, PendingWithdraw
      <4>3. pending'[x] = p
        BY <2>2 DEF WithdrawSubmit, IInv, WithdrawInv, WithdrawTypeOK
      <4> QED
        BY <4>2, <4>3, RecordIsPending
    <3> QED
      BY <3>1, <3>2, SolanaAssumption DEF TipOf, Unapproved, Live
  <2>3. ASSUME NEW a \in Accounts, WithdrawApprove(a, x)
        PROVE  /\ TipOf(x) = pending[x].operatorGas /\ TipOf(x)' = 0
               /\ lamports' = lamports - pending[x].operatorGas /\ pending[x].operatorGas \in Nat
    <3>1. pending[x] \in PendingWithdraw /\ x \in Unapproved
      BY <2>3 DEF WithdrawApprove, Live, Unapproved, IInv, WithdrawInv, WithdrawTypeOK
    <3>2. pending'[x].approved
      BY <2>3, <3>1 DEF WithdrawApprove, PendingWithdraw, IInv, WithdrawInv, WithdrawTypeOK
    <3> QED
      BY <2>3, <3>1, <3>2 DEF WithdrawApprove, TipOf, Unapproved, PendingWithdraw
  <2> QED
    BY <2>1, <2>2, <2>3
<1>4. /\ NativeBooks => NativeBooks'
      /\ Covered(NATIVE_SOL_TOKEN) => Covered(NATIVE_SOL_TOKEN)'
  <2> DEFINE de == TipOf(x)' - TipOf(x)
  <2>1. /\ de \in Int /\ EscrowedTips' = EscrowedTips + de
        /\ lamports' = lamports + 0 + 0 + de - 0
    BY <1>2, <1>3 DEF IInv, ValueTypeOK
  <2>2. /\ Deposited(NATIVE_SOL_TOKEN)' = Deposited(NATIVE_SOL_TOKEN) + 0
        /\ BookedFees(NATIVE_SOL_TOKEN)' = BookedFees(NATIVE_SOL_TOKEN) + 0
        /\ PaidOut(NATIVE_SOL_TOKEN)' = PaidOut(NATIVE_SOL_TOKEN) + 0
    BY <1>1, SumsUntouched, DepositedIsNat, FeesAreNat, PaidIsNat
  <2> HIDE DEF de
  <2> QED
    BY <2>1, <2>2, NativeBalance
<1>5. \A t \in Mints : (MintBooks(t) => MintBooks(t)') /\ (Covered(t) => Covered(t)')
  BY <1>1, SumsUntouched, MintUntouched
<1> QED
  BY <1>4, <1>5, KeepsAll

\* Only approved withdrawals are cancelled and reenabled: their tips are long paid.
LEMMA ReviewKeeps ==
  ASSUME IInv, IInv', Countable, UNCHANGED strayed, NEW x \in Xfers, NEW a \in Accounts,
         WithdrawCancel(a, x) \/ WithdrawReenable(a, x)
  PROVE  \A t \in Tokens : Keeps(t)
<1>1. /\ UNCHANGED <<bridge, tokenMappings, executedHashes, paid, deposits, valueVars>>
      /\ \A y \in Xfers \ {x} : pending'[y] = pending[y]
  BY DEF WithdrawCancel, WithdrawReenable, registryVars, IInv, WithdrawInv, WithdrawTypeOK
<1>2. x \notin Unapproved /\ x \notin Unapproved'
  <2>1. pending[x] \in PendingWithdraw /\ pending[x].approved
    BY DEF WithdrawCancel, WithdrawReenable, Live, IInv, WithdrawInv, WithdrawTypeOK, StagesOrdered
  <2>2. pending'[x].approved
    BY <2>1 DEF WithdrawCancel, WithdrawReenable, PendingWithdraw, IInv, WithdrawInv, WithdrawTypeOK
  <2> QED
    BY <2>1, <2>2 DEF Unapproved
<1>3. EscrowedTips' = EscrowedTips
  BY <1>1, <1>2, NoTipMoves
<1>4. \A t \in Mints : (MintBooks(t) => MintBooks(t)') /\ (Covered(t) => Covered(t)')
  BY <1>1, SumsUntouched, MintUntouched DEF valueVars
<1> QED
  BY <1>1, <1>3, <1>4, SumsUntouched, NativeUntouched, KeepsAll DEF valueVars

\* A payout leaves the lamports or the vault, or is minted, and is entered once.  It may
\* uncover its own token, never another.
LEMMA ExecuteKeeps ==
  ASSUME IInv, IInv', Countable, UNCHANGED strayed, NEW x \in Xfers,
         (\E r \in RemoteTokens : WithdrawExecute(x, r)) \/ WithdrawExecuteNative(x)
  PROVE  /\ NativeBooks => NativeBooks'
         /\ \A t \in Mints : MintBooks(t) => MintBooks(t)'
         /\ \A t \in Tokens \ {x.token} : Covered(t) => Covered(t)'
         /\ x \notin executedHashes /\ executedHashes' = executedHashes \cup {x}
<1> DEFINE out == Payout(x)
<1>1. PICK s : Execute(x, s)
  BY DEF WithdrawExecute, WithdrawExecuteNative
<1>2. /\ out \in Nat /\ Live(x) /\ pending[x].approved
      /\ x \notin executedHashes /\ executedHashes' = executedHashes \cup {x}
      /\ paid' = [paid EXCEPT ![x] = [amount |-> out, at |-> now]]
      /\ pending' = [pending EXCEPT ![x] = NoPending]
      /\ UNCHANGED <<bridge, tokenMappings, deposits>>
  BY <1>1, SharedExecution DEF Execute, Ready, registryVars
<1>3. \/ /\ x.token = NATIVE_SOL_TOKEN /\ lamports' = lamports - out
         /\ UNCHANGED <<vault, supply>>
      \/ /\ x.token \in Mints /\ UNCHANGED lamports
         /\ \/ vault' = [vault EXCEPT ![x.token] = @ - out] /\ UNCHANGED supply
            \/ supply' = [supply EXCEPT ![x.token] = @ + out] /\ UNCHANGED vault
  BY DEF WithdrawExecute, WithdrawExecuteNative
<1> HIDE DEF out
<1>4. EscrowedTips' = EscrowedTips
  <2>1. \A y \in Xfers \ {x} : pending'[y] = pending[y]
    BY <1>2 DEF IInv, WithdrawInv, WithdrawTypeOK
  <2>2. x \notin Unapproved /\ x \notin Unapproved'
    BY <1>2 DEF Unapproved, Live, IInv, WithdrawInv, WithdrawTypeOK
  <2> QED
    BY <2>1, <2>2, NoTipMoves
<1>5. \A u \in Tokens : /\ PaidOut(u) \in Nat
                        /\ PaidOut(u)' = PaidOut(u) + (IF u = x.token THEN out ELSE 0)
  BY <1>2, PaidChange
<1>6. /\ \A t : Deposited(t)' = Deposited(t) /\ BookedFees(t)' = BookedFees(t)
      /\ \A t : Deposited(t) \in Nat /\ BookedFees(t) \in Nat
      /\ EscrowedTips \in Nat /\ lamports \in Nat
  BY <1>2, SumsUntouched, DepositedIsNat, FeesAreNat, TipsAreNat DEF IInv, ValueTypeOK
<1>7. \A t \in Mints : t # NATIVE_SOL_TOKEN
  BY SolanaAssumption
<1>8. CASE /\ x.token = NATIVE_SOL_TOKEN /\ lamports' = lamports - out
           /\ UNCHANGED <<vault, supply>>
  <2>1. NativeBooks => NativeBooks'
    <3>1. /\ Deposited(NATIVE_SOL_TOKEN)' = Deposited(NATIVE_SOL_TOKEN) + 0
          /\ BookedFees(NATIVE_SOL_TOKEN)' = BookedFees(NATIVE_SOL_TOKEN) + 0
          /\ EscrowedTips' = EscrowedTips + 0
      BY <1>4, <1>6
    <3>2. PaidOut(NATIVE_SOL_TOKEN)' = PaidOut(NATIVE_SOL_TOKEN) + out
      BY <1>5, <1>8 DEF Tokens
    <3>3. lamports' = lamports + 0 + 0 + 0 - out
      BY <1>2, <1>6, <1>8
    <3> QED
      BY <1>2, <3>1, <3>2, <3>3, NativeBalance
  <2>2. ASSUME NEW t \in Mints
        PROVE  (MintBooks(t) => MintBooks(t)') /\ (Covered(t) => Covered(t)')
    <3>1. PaidOut(t)' = PaidOut(t)
      BY <1>5, <1>7, <1>8 DEF Tokens
    <3> QED
      BY <1>6, <1>8, <3>1, MintUntouched
  <2> QED
    BY <1>2, <1>8, <2>1, <2>2 DEF Tokens
<1>9. CASE /\ x.token \in Mints /\ UNCHANGED lamports
           /\ \/ vault' = [vault EXCEPT ![x.token] = @ - out] /\ UNCHANGED supply
              \/ supply' = [supply EXCEPT ![x.token] = @ + out] /\ UNCHANGED vault
  <2>1. /\ NativeBooks => NativeBooks'
        /\ Covered(NATIVE_SOL_TOKEN) => Covered(NATIVE_SOL_TOKEN)'
    <3>1. PaidOut(NATIVE_SOL_TOKEN)' = PaidOut(NATIVE_SOL_TOKEN)
      BY <1>5, <1>7, <1>9 DEF Tokens
    <3> QED
      BY <1>4, <1>6, <1>9, <3>1, NativeUntouched
  <2>2. ASSUME NEW t \in Mints
        PROVE  /\ MintBooks(t) => MintBooks(t)'
               /\ t # x.token => (Covered(t) => Covered(t)')
    <3>1. CASE t = x.token
      <4>1. /\ Deposited(t)' = Deposited(t) + 0 /\ BookedFees(t)' = BookedFees(t) + 0
            /\ PaidOut(t)' = PaidOut(t) + out
        BY <1>5, <1>6, <3>1 DEF Tokens
      <4>2. supply'[t] \in Nat /\ vault'[t] \in Nat
        BY DEF IInv, ValueTypeOK
      <4>3. supply'[t] - vault'[t] = supply[t] - vault[t] - 0 - 0 + out
        BY <1>2, <1>9, <3>1 DEF IInv, ValueTypeOK
      <4> QED
        BY <1>2, <3>1, <4>1, <4>2, <4>3, MintBalance
    <3>2. CASE t # x.token
      <4>1. PaidOut(t)' = PaidOut(t) /\ supply'[t] = supply[t] /\ vault'[t] = vault[t]
        BY <1>5, <1>9, <3>2 DEF Tokens, IInv, ValueTypeOK
      <4> QED
        BY <1>6, <4>1, MintUntouched
    <3> QED
      BY <3>1, <3>2
  <2> QED
    BY <1>2, <2>1, <2>2 DEF Tokens
<1> QED
  BY <1>3, <1>8, <1>9

\* Fees are unbooked as they leave; a new mapping has none; the rest moves nothing.
LEMMA AdminKeeps ==
  ASSUME IInv, IInv', Countable, Admin
  PROVE  \A t \in Tokens : Keeps(t)
<1>1. UNCHANGED <<withdrawVars, deposits, strayed>>
  BY DEF Admin
<1>2. \A t \in Mints : t # NATIVE_SOL_TOKEN
  BY SolanaAssumption
<1>3. ASSUME NEW amount \in FeeAmounts, WithdrawNativeFees(amount), UNCHANGED supply
      PROVE  \A t \in Tokens : Keeps(t)
  <2>1. amount \in Nat /\ bridge.accruedNativeFees \in Nat /\ lamports \in Nat
    BY SolanaAssumption DEF IInv, BridgeConfig, ValueTypeOK
  <2>2. /\ lamports' = lamports - amount /\ UNCHANGED <<tokenMappings, vault>>
        /\ bridge'.accruedNativeFees = bridge.accruedNativeFees - amount
    BY <1>3 DEF WithdrawNativeFees, IInv, BridgeConfig
  <2>3. /\ -amount \in Int /\ lamports' = lamports + 0 + (-amount) + 0 - 0
        /\ BookedFees(NATIVE_SOL_TOKEN)' = BookedFees(NATIVE_SOL_TOKEN) + (-amount)
    BY <2>1, <2>2 DEF BookedFees
  <2>4. /\ Deposited(NATIVE_SOL_TOKEN)' = Deposited(NATIVE_SOL_TOKEN) + 0
        /\ EscrowedTips' = EscrowedTips + 0
        /\ PaidOut(NATIVE_SOL_TOKEN)' = PaidOut(NATIVE_SOL_TOKEN) + 0
    BY <1>1, SumsUntouched, DepositedIsNat, TipsAreNat, PaidIsNat DEF withdrawVars
  <2>5. /\ NativeBooks => NativeBooks'
        /\ Covered(NATIVE_SOL_TOKEN) => Covered(NATIVE_SOL_TOKEN)'
    BY <1>1, <2>3, <2>4, NativeBalance
  <2>6. \A t \in Mints : (MintBooks(t) => MintBooks(t)') /\ (Covered(t) => Covered(t)')
    BY <1>1, <1>3, <2>2, SumsUntouched, MintUntouched DEF withdrawVars
  <2> QED
    BY <2>5, <2>6, KeepsAll
<1>4. ASSUME NEW amount \in FeeAmounts, NEW k \in MappingKeys, WithdrawSplFees(k, amount),
             UNCHANGED supply
      PROVE  \A t \in Tokens : Keeps(t)
  <2> DEFINE m == tokenMappings[k].local
  <2>1. /\ tokenMappings[k] \in TokenMapping /\ amount \in Nat /\ m \in Mints
        /\ amount <= tokenMappings[k].accruedFees /\ amount <= vault[m]
        /\ vault' = [vault EXCEPT ![m] = @ - amount]
        /\ tokenMappings' = [tokenMappings EXCEPT ![k].accruedFees = @ - amount]
        /\ UNCHANGED <<bridge, lamports>>
    BY <1>4, SolanaAssumption DEF WithdrawSplFees, IInv, RegistryTypeOK
  <2>2. /\ tokenMappings'[k].local = m
        /\ tokenMappings'[k].accruedFees = tokenMappings[k].accruedFees - amount
        /\ tokenMappings[k].accruedFees \in Nat
        /\ tokenMappings[k] # NoMapping /\ tokenMappings'[k] # NoMapping
    <3>1. [tokenMappings[k] EXCEPT !.accruedFees = @ - amount] \in TokenMapping
      BY <2>1 DEF TokenMapping
    <3>2. tokenMappings'[k] = [tokenMappings[k] EXCEPT !.accruedFees = @ - amount]
      BY <2>1 DEF IInv, RegistryTypeOK
    <3> QED
      BY <2>1, <3>1, <3>2, SolanaAssumption DEF TokenMapping
  <2>3. ASSUME NEW t \in Mints
        PROVE  /\ k \in MappingsOf(t) <=> t = m
               /\ k \in MappingsOf(t)' <=> t = m
    BY <2>2 DEF MappingsOf
  <2>4. \A t \in Mints : /\ BookedFees(t) \in Nat /\ BookedFees(t)' \in Nat
                         /\ BookedFees(t)' + FeesOn(k, t) = BookedFees(t) + FeesOn(k, t)'
    BY <2>1, FeesChange
  <2> HIDE DEF m
  <2>5. \A t \in Mints : BookedFees(t)' = BookedFees(t) + (IF t = m THEN -amount ELSE 0)
    BY <2>1, <2>2, <2>3, <2>4 DEF FeesOn
  <2>6. /\ NativeBooks => NativeBooks'
        /\ Covered(NATIVE_SOL_TOKEN) => Covered(NATIVE_SOL_TOKEN)'
    <3>1. BookedFees(NATIVE_SOL_TOKEN)' = BookedFees(NATIVE_SOL_TOKEN)
      BY <2>1 DEF BookedFees
    <3> QED
      BY <1>1, <2>1, <3>1, SumsUntouched, NativeUntouched DEF withdrawVars
  <2>7. ASSUME NEW t \in Mints
        PROVE  (MintBooks(t) => MintBooks(t)') /\ (Covered(t) => Covered(t)')
    <3>1. CASE t = m
      <4>1. /\ Deposited(t)' = Deposited(t) + 0 /\ PaidOut(t)' = PaidOut(t) + 0
            /\ BookedFees(t)' = BookedFees(t) + (-amount) /\ -amount \in Int
        BY <1>1, <2>1, <2>5, <3>1, SumsUntouched, DepositedIsNat, PaidIsNat DEF withdrawVars
      <4>2. /\ supply'[t] \in Nat /\ vault'[t] \in Nat
            /\ supply'[t] - vault'[t] = supply[t] - vault[t] - 0 - (-amount) + 0
            /\ vault'[t] - vault[t] >= -amount
        BY <1>4, <2>1, <3>1 DEF IInv, ValueTypeOK
      <4> QED
        BY <1>1, <4>1, <4>2, MintBalance
    <3>2. CASE t # m
      <4>1. /\ BookedFees(t)' = BookedFees(t) /\ vault'[t] = vault[t]
        BY <2>1, <2>4, <2>5, <3>2 DEF IInv, ValueTypeOK
      <4> QED
        BY <1>1, <1>4, <4>1, SumsUntouched, MintUntouched DEF withdrawVars
    <3> QED
      BY <3>1, <3>2
  <2> QED
    BY <2>6, <2>7, KeepsAll
<1>5. ASSUME NEW k \in MappingKeys, NEW call \in MappingCalls, RegisterToken(k, call)
      PROVE  \A t \in Tokens : Keeps(t)
  <2>1. /\ tokenMappings[k] = NoMapping /\ UNCHANGED <<bridge, valueVars>>
        /\ \A j \in MappingKeys \ {k} : tokenMappings'[j] = tokenMappings[j]
        /\ tokenMappings'[k].accruedFees = 0
    BY <1>5 DEF RegisterToken, IInv, RegistryTypeOK
  <2>2. ASSUME NEW t \in Mints PROVE BookedFees(t)' = BookedFees(t)
    <3>1. /\ BookedFees(t) \in Nat /\ BookedFees(t)' \in Nat
          /\ BookedFees(t)' + FeesOn(k, t) = BookedFees(t) + FeesOn(k, t)'
      BY <2>1, FeesChange
    <3>2. FeesOn(k, t) = 0 /\ FeesOn(k, t)' = 0
      BY <2>1 DEF FeesOn, MappingsOf
    <3> QED
      BY <3>1, <3>2
  <2>3. BookedFees(NATIVE_SOL_TOKEN)' = BookedFees(NATIVE_SOL_TOKEN)
    BY <2>1 DEF BookedFees
  <2>4. \A t \in Mints : (MintBooks(t) => MintBooks(t)') /\ (Covered(t) => Covered(t)')
    BY <1>1, <2>1, <2>2, SumsUntouched, MintUntouched DEF withdrawVars, valueVars
  <2> QED
    BY <1>1, <2>1, <2>3, <2>4, SumsUntouched, NativeUntouched, KeepsAll DEF withdrawVars, valueVars
<1>6. ASSUME UNCHANGED <<tokenMappings, valueVars>>,
             bridge'.accruedNativeFees = bridge.accruedNativeFees
      PROVE  \A t \in Tokens : Keeps(t)
  BY <1>1, <1>6, NothingMoves DEF withdrawVars
<1>7. ASSUME NEW call \in ConfigCalls, SetConfig(call) PROVE \A t \in Tokens : Keeps(t)
  <2>1. bridge'.accruedNativeFees = bridge.accruedNativeFees
    BY <1>7 DEF SetConfig, IInv, BridgeConfig
  <2> QED
    BY <1>6, <1>7, <2>1 DEF SetConfig, registryVars
<1>8. ASSUME \/ \E c \in Chains : RegisterChain(c)
             \/ \E a \in Accounts, active \in BOOLEAN : AddCanceler(a, active)
             \/ \E t \in Tokens, call \in LimitCalls : SetRateLimit(t, call)
      PROVE  \A t \in Tokens : Keeps(t)
  BY <1>6, <1>8 DEF RegisterChain, AddCanceler, SetRateLimit, registryVars
<1> QED
  BY <1>3, <1>4, <1>5, <1>7, <1>8 DEF Admin, WithdrawFees

\* What is sent or burned unasked is entered as such; the vault only gains.
LEMMA ThirdPartyKeeps ==
  ASSUME IInv, IInv', Countable, ThirdParty
  PROVE  \A t \in Tokens : Keeps(t)
<1>1. /\ UNCHANGED <<deposits, executedHashes, paid, pending, tokenMappings>>
      /\ bridge'.accruedNativeFees = bridge.accruedNativeFees
  BY DEF ThirdParty, registryVars, withdrawVars
<1>2. PICK m \in Tokens : \E amount \in StrayAmounts :
        /\ SendUnasked(m, amount) \/ Burn(m, amount)
        /\ strayed' = [strayed EXCEPT ![m] = @ + amount]
  BY DEF ThirdParty
<1>3. PICK amount \in StrayAmounts :
        /\ SendUnasked(m, amount) \/ Burn(m, amount)
        /\ strayed' = [strayed EXCEPT ![m] = @ + amount]
  BY <1>2
<1>4. amount \in Nat /\ strayed \in [Tokens -> Nat] /\ NATIVE_SOL_TOKEN \in Tokens
      /\ \A t \in Mints : t \in Tokens /\ t # NATIVE_SOL_TOKEN
  BY SolanaAssumption DEF IInv, Tokens
<1>5. /\ \A t : Deposited(t)' = Deposited(t) /\ BookedFees(t)' = BookedFees(t)
      /\ \A t : PaidOut(t)' = PaidOut(t)
      /\ EscrowedTips' = EscrowedTips
  BY <1>1, SumsUntouched
<1>6. /\ NativeBooks => NativeBooks'
      /\ Covered(NATIVE_SOL_TOKEN) => Covered(NATIVE_SOL_TOKEN)'
  <2> DEFINE sol == NATIVE_SOL_TOKEN
  <2>1. \/ m = sol /\ lamports' = lamports + amount /\ strayed'[sol] = strayed[sol] + amount
        \/ m # sol /\ UNCHANGED lamports /\ strayed'[sol] = strayed[sol]
    BY <1>3, <1>4 DEF SendUnasked, Burn
  <2>2. /\ Deposited(sol) \in Nat /\ BookedFees(sol) \in Nat /\ EscrowedTips \in Nat
        /\ PaidOut(sol) \in Nat /\ lamports \in Nat /\ Rent \in Nat /\ strayed[sol] \in Nat
        /\ InitialLamports \in Nat
    BY <1>4, DepositedIsNat, FeesAreNat, TipsAreNat, PaidIsNat, SolanaAssumption,
       DeploymentAssumption DEF IInv, ValueTypeOK
  <2> QED
    BY <1>4, <1>5, <2>1, <2>2 DEF NativeBooks, Covered
<1>7. ASSUME NEW t \in Mints
      PROVE  (MintBooks(t) => MintBooks(t)') /\ (Covered(t) => Covered(t)')
  <2>1. /\ Deposited(t) \in Nat /\ BookedFees(t) \in Nat /\ PaidOut(t) \in Nat
        /\ supply[t] \in Nat /\ vault[t] \in Nat /\ strayed[t] \in Nat
        /\ InitialSupply[t] \in Nat /\ InitialVault[t] \in Nat
    BY <1>4, DepositedIsNat, FeesAreNat, PaidIsNat, DeploymentAssumption DEF IInv, ValueTypeOK
  <2>2. \/ /\ m = t /\ strayed'[t] = strayed[t] + amount
           /\ \/ vault'[t] = vault[t] + amount /\ supply'[t] = supply[t]
              \/ vault'[t] = vault[t] /\ supply'[t] = supply[t] - amount
        \/ m # t /\ strayed'[t] = strayed[t] /\ vault'[t] = vault[t] /\ supply'[t] = supply[t]
    BY <1>3, <1>4 DEF SendUnasked, Burn, IInv, ValueTypeOK
  <2> QED
    BY <1>4, <1>5, <2>1, <2>2 DEF MintBooks, Covered
<1> QED
  BY <1>6, <1>7, KeepsAll

LEMMA InitLedger == Init => Ledger
<1> SUFFICES ASSUME Init PROVE Ledger
  OBVIOUS
<1>1. deposits = {} /\ executedHashes = {} /\ AllLive = {} /\ Unapproved = {}
  BY DEF Init, AllLive, Unapproved, Live
<1>2. IsFiniteSet({}) /\ IsFiniteSet(Registered)
  BY FS_EmptySet, DeploymentAssumption DEF Init, Registered
<1>3. Countable
  BY <1>1, <1>2 DEF Countable
<1>4. \A t : Deposited(t) = 0 /\ PaidOut(t) = 0
  <2>1. \A t : {d \in deposits : d.paidIn = t} = {} /\ {x \in executedHashes : x.token = t} = {}
    BY <1>1
  <2> QED
    BY <2>1, SumEmpty DEF Deposited, PaidOut
<1>5. EscrowedTips = 0 /\ BookedFees(NATIVE_SOL_TOKEN) = 0
  BY <1>1, SumEmpty DEF EscrowedTips, BookedFees, Init
<1>6. ASSUME NEW t \in Mints PROVE BookedFees(t) = 0
  <2> DEFINE S == MappingsOf(t)
             f == [k \in S |-> tokenMappings[k].accruedFees]
             z == [k \in S |-> 0]
  <2>1. IsFiniteSet(S)
    BY <1>3, FS_Subset DEF Countable, Registered, MappingsOf
  <2>2. \A k \in S : f[k] = 0 /\ z[k] = 0
    BY DeploymentAssumption DEF Init, MappingsOf
  <2>3. t # NATIVE_SOL_TOKEN
    BY SolanaAssumption
  <2>4. BookedFees(t) = SumFunctionOnSet(f, S)
    BY <2>3 DEF BookedFees
  <2> HIDE DEF S, f, z
  <2>5. SumFunctionOnSet(f, S) = 0
    BY <2>1, <2>2, SumOfZeros
  <2> QED
    BY <2>4, <2>5
<1>7. ValueConserved
  <2>1. /\ strayed[NATIVE_SOL_TOKEN] = 0
        /\ \A t \in Mints : strayed[t] = 0 /\ InitialSupply[t] \in Nat /\ InitialVault[t] \in Nat
    BY DeploymentAssumption DEF Init, Tokens
  <2> QED
    BY <1>4, <1>5, <1>6, <2>1, DeploymentAssumption DEF ValueConserved, Init
<1> QED
  BY <1>3, <1>7 DEF Ledger

LEMMA StepCountable == IInv /\ IInv' /\ Countable /\ [Next]_vars => Countable'
<1> SUFFICES ASSUME IInv, IInv', Countable, [Next]_vars PROVE Countable'
  OBVIOUS
<1> DEFINE Recorded == IsFiniteSet(deposits') /\ \A d \in deposits' : d.nonce <= bridge'.depositNonce
<1>1. ASSUME bridge'.depositNonce = bridge.depositNonce, UNCHANGED deposits PROVE Recorded
  BY <1>1 DEF Countable
<1>2. ASSUME UNCHANGED tokenMappings PROVE IsFiniteSet(Registered')
  BY <1>2 DEF Countable, Registered
<1>3. ASSUME UNCHANGED <<pending, executedHashes>>
      PROVE  IsFiniteSet(AllLive') /\ IsFiniteSet(executedHashes')
  BY <1>3 DEF Countable, AllLive, Live
<1>4. ASSUME Deposit PROVE Countable'
  <2> SUFFICES ASSUME NEW k \in MappingKeys, NEW amount \in DepositAmounts,
                      DepositNative(k, amount) \/ DepositSpl(k, amount)
               PROVE  Countable'
    BY <1>4 DEF Deposit
  <2>1. amount - DepositFee(amount) \in Nat
    BY SolanaAssumption, FeeWithinAmount DEF IInv
  <2>2. PICK t, fees : t \in Tokens /\ RecordDeposit(k, amount - DepositFee(amount), t, fees)
    BY DEF DepositNative, DepositSpl, Tokens
  <2>3. Recorded
    BY <2>1, <2>2, DepositedChange
  <2>4. Registered' = Registered
    <3>1. CASE UNCHANGED tokenMappings
      BY <3>1 DEF Registered
    <3>2. CASE DepositSpl(k, amount)
      <4>1. /\ tokenMappings[k] # NoMapping
            /\ \A j \in MappingKeys \ {k} : tokenMappings'[j] = tokenMappings[j]
        BY <3>2 DEF DepositSpl, MappedOnRegisteredChain, IInv, RegistryTypeOK
      <4>2. tokenMappings'[k] # NoMapping
        <5>1. tokenMappings[k] \in TokenMapping
          BY <4>1 DEF IInv, RegistryTypeOK
        <5>2. DepositFee(amount) \in Nat
          BY SolanaAssumption, FeeWithinAmount DEF IInv
        <5>3. [tokenMappings[k] EXCEPT !.accruedFees = @ + DepositFee(amount)] \in TokenMapping
          BY <5>1, <5>2 DEF TokenMapping
        <5>4. tokenMappings'[k] = [tokenMappings[k] EXCEPT !.accruedFees = @ + DepositFee(amount)]
          BY <3>2 DEF DepositSpl, IInv, RegistryTypeOK
        <5> QED
          BY <5>3, <5>4, SolanaAssumption
      <4> QED
        BY <4>1, <4>2 DEF Registered
    <3> QED
      BY <3>1, <3>2 DEF DepositNative, registryVars
  <2>5. UNCHANGED <<pending, executedHashes>>
    BY DEF DepositNative, DepositSpl, withdrawVars
  <2> QED
    BY <1>3, <2>3, <2>4, <2>5 DEF Countable
<1>5. ASSUME NEW x \in Xfers, Withdraw(x) PROVE Countable'
  <2>1. UNCHANGED <<bridge, tokenMappings, deposits>>
    BY <1>5 DEF Withdraw, WithdrawSubmit, WithdrawApprove, WithdrawCancel, WithdrawReenable,
                WithdrawExecute, WithdrawExecuteNative, Execute, registryVars
  <2>2. AllLive' \subseteq AllLive \cup {x}
    BY <1>5 DEF Withdraw, WithdrawSubmit, WithdrawApprove, WithdrawCancel, WithdrawReenable,
                WithdrawExecute, WithdrawExecuteNative, Execute, AllLive, Live, IInv, WithdrawInv,
                WithdrawTypeOK
  <2>3. executedHashes' \in {executedHashes, executedHashes \cup {x}}
    BY <1>5 DEF Withdraw, WithdrawSubmit, WithdrawApprove, WithdrawCancel, WithdrawReenable,
                WithdrawExecute, WithdrawExecuteNative, Execute
  <2>4. IsFiniteSet(AllLive') /\ IsFiniteSet(executedHashes')
    BY <2>2, <2>3, FS_AddElement, FS_Subset DEF Countable
  <2> QED
    BY <1>1, <1>2, <2>1, <2>4 DEF Countable
<1>6. ASSUME Admin PROVE Countable'
  <2>1. UNCHANGED <<pending, executedHashes, deposits>>
    BY <1>6 DEF Admin, withdrawVars
  <2>2. bridge'.depositNonce = bridge.depositNonce
    BY <1>6 DEF Admin, WithdrawFees, WithdrawNativeFees, WithdrawSplFees, SetConfig, RegisterChain,
                RegisterToken, AddCanceler, SetRateLimit, IInv, BridgeConfig
  <2>3. \E k : Registered' \subseteq Registered \cup {k}
    BY <1>6 DEF Admin, WithdrawFees, WithdrawNativeFees, WithdrawSplFees, SetConfig, RegisterChain,
                RegisterToken, AddCanceler, SetRateLimit, registryVars, Registered, IInv,
                RegistryTypeOK
  <2>4. IsFiniteSet(Registered')
    BY <2>3, FS_AddElement, FS_Subset DEF Countable
  <2> QED
    BY <1>1, <1>3, <2>1, <2>2, <2>4 DEF Countable
<1>7. ASSUME UNCHANGED <<bridge, tokenMappings, deposits, pending, executedHashes>> PROVE Countable'
  BY <1>1, <1>2, <1>3, <1>7 DEF Countable
<1> QED
  BY <1>4, <1>5, <1>6, <1>7 DEF Next, ThirdParty, Tick, vars, registryVars, withdrawVars

\* Every step keeps the books, and uncovers at most the token it pays out.
LEMMA StepBooks ==
  ASSUME IInv, IInv', Countable, [Next]_vars
  PROVE  /\ ValueConserved => ValueConserved'
         /\ \A t \in Tokens : Covered(t) =>
              Covered(t)' \/ \E x \in Xfers : x.token = t /\ executedHashes' = executedHashes \cup {x}
                                              /\ x \notin executedHashes
<1> DEFINE Goal == /\ NativeBooks => NativeBooks'
                   /\ \A t \in Mints : MintBooks(t) => MintBooks(t)'
                   /\ \A t \in Tokens : Covered(t) =>
                        Covered(t)' \/ \E x \in Xfers : x.token = t /\ x \notin executedHashes
                                                        /\ executedHashes' = executedHashes \cup {x}
<1>1. ASSUME \A t \in Tokens : Keeps(t) PROVE Goal
  <2>1. \A t \in Mints : t # NATIVE_SOL_TOKEN
    BY SolanaAssumption
  <2> QED
    BY <1>1, <2>1 DEF Keeps, Tokens
<1>2. ASSUME NEW x \in Xfers, Withdraw(x), UNCHANGED strayed PROVE Goal
  <2>1. ASSUME (\E r \in RemoteTokens : WithdrawExecute(x, r)) \/ WithdrawExecuteNative(x) PROVE Goal
    BY <1>2, <2>1, ExecuteKeeps
  <2> QED
    BY <1>1, <1>2, <2>1, TipKeeps, ReviewKeeps DEF Withdraw
<1>3. ASSUME UNCHANGED <<bridge, registryVars, withdrawVars, deposits, valueVars, strayed>> PROVE Goal
  BY <1>1, <1>3, NothingMoves DEF registryVars, withdrawVars
<1>4. Goal
  BY <1>1, <1>2, <1>3, DepositKeeps, AdminKeeps, ThirdPartyKeeps DEF Next, Tick, vars
<1> QED
  BY <1>4 DEF ValueConserved, NativeBooks, MintBooks

LEMMA LedgerHolds == Spec => []Ledger
<1>1. IInv /\ IInv' /\ Ledger /\ [Next]_vars => Ledger'
  BY StepCountable, StepBooks DEF Ledger
<1> QED
  BY <1>1, InitLedger, Invariance, PTL DEF Spec

\* The books close for every mint and for native SOL: no deposit, fee, tip or payout, in
\* either mode of a mint, is entered without moving, or moves without being entered.
THEOREM ValueIsConserved == Spec => []ValueConserved
<1>1. Ledger => ValueConserved
  BY DEF Ledger
<1> QED
  BY <1>1, LedgerHolds, PTL

\* Booked fees and escrowed tips stay held by the bridge through everything but a payout
\* in the same token.
THEOREM PromisesStayCovered == Spec => OnlyPayoutsUncover
<1>1. IInv /\ IInv' /\ Ledger /\ [Next]_vars =>
        [\A t \in Tokens : Covered(t) =>
           Covered(t)' \/ \E x \in Xfers : x.token = t /\ executedHashes' = executedHashes \cup {x}
                                           /\ x \notin executedHashes]_vars
  BY StepBooks DEF Ledger
<1> QED
  BY <1>1, Invariance, LedgerHolds, PTL DEF Spec, OnlyPayoutsUncover

(***************************************************************************)
(* The window of native SOL                                                *)
(***************************************************************************)
NativePaid == {x \in executedHashes : x.token = NATIVE_SOL_TOKEN}

\* Every payout so far came before the window's end, so that what a new window forgets
\* lies before its start; a window that never began has paid nothing.
WindowInv ==
  LET window == rateLimits[NATIVE_SOL_TOKEN]
  IN  /\ now > 0 /\ window.windowStart <= now
      /\ window.explicit => \E call \in LimitCalls : window.maxPeriod = call.maxPeriod
      /\ \A x \in NativePaid : /\ window.windowStart > 0
                               /\ paid[x].at < window.windowStart + RATE_LIMIT_WINDOW_SECS
      /\ window.used = PaidSince(NATIVE_SOL_TOKEN, window.windowStart)
      /\ \E cap \in Caps : window.used <= cap

LimitsBite == \A call \in LimitCalls : call.maxPeriod > 0

LEMMA InitWindow == Init => WindowInv
<1> SUFFICES ASSUME Init PROVE WindowInv
  OBVIOUS
<1>1. rateLimits[NATIVE_SOL_TOKEN] = FreshRateLimit /\ executedHashes = {} /\ now = 1
  BY DEF Init, Tokens
<1>2. PaidSince(NATIVE_SOL_TOKEN, 0) = 0
  <2>1. {x \in executedHashes : x.token = NATIVE_SOL_TOKEN /\ paid[x].at >= 0} = {}
    BY <1>1
  <2> QED
    BY <2>1, SumEmpty DEF PaidSince
<1>3. DEFAULT_RATE_LIMIT_IF_ZERO_SUPPLY \in Caps /\ 0 <= DEFAULT_RATE_LIMIT_IF_ZERO_SUPPLY
  BY SolanaAssumption DEF Caps
<1> QED
  BY <1>1, <1>2, <1>3 DEF WindowInv, FreshRateLimit, NativePaid

\* A step that pays no native SOL leaves the account of the window as it was; the limits
\* themselves may change.
LEMMA WindowUntouched ==
  ASSUME IInv, IInv', WindowInv, UNCHANGED paid, now' >= now,
         executedHashes' = executedHashes,
         rateLimits'[NATIVE_SOL_TOKEN].windowStart = rateLimits[NATIVE_SOL_TOKEN].windowStart,
         rateLimits'[NATIVE_SOL_TOKEN].used = rateLimits[NATIVE_SOL_TOKEN].used,
         \/ rateLimits'[NATIVE_SOL_TOKEN] = rateLimits[NATIVE_SOL_TOKEN]
         \/ \E call \in LimitCalls : rateLimits'[NATIVE_SOL_TOKEN].maxPeriod = call.maxPeriod
  PROVE  WindowInv'
<1>1. \A s : PaidSince(NATIVE_SOL_TOKEN, s)' = PaidSince(NATIVE_SOL_TOKEN, s)
  BY DEF PaidSince
<1>2. NativePaid' = NativePaid
  BY DEF NativePaid
<1>3. /\ now \in Nat /\ now' \in Nat
      /\ rateLimits[NATIVE_SOL_TOKEN].windowStart \in Nat
  BY DEF IInv, RateLimit, Tokens
<1>4. PaidSince(NATIVE_SOL_TOKEN, rateLimits[NATIVE_SOL_TOKEN].windowStart)'
        = PaidSince(NATIVE_SOL_TOKEN, rateLimits[NATIVE_SOL_TOKEN].windowStart)
  BY <1>1
<1> QED
  BY <1>2, <1>3, <1>4 DEF WindowInv

\* A payout of another token leaves the payouts of native SOL and their window alone.
LEMMA OtherPayout ==
  ASSUME IInv, Countable, WindowInv, NEW x \in Xfers, NEW s, Execute(x, s), x.token # NATIVE_SOL_TOKEN
  PROVE  WindowInv'
<1>1. /\ rateLimits'[NATIVE_SOL_TOKEN] = rateLimits[NATIVE_SOL_TOKEN] /\ now' = now
      /\ executedHashes' = executedHashes \cup {x}
      /\ paid' = [paid EXCEPT ![x] = [amount |-> Payout(x), at |-> now]]
  BY SolanaAssumption DEF Execute, CheckAndUpdateWithdrawRateLimit, IInv, Tokens
<1>2. NativePaid' = NativePaid
  BY <1>1 DEF NativePaid
<1>3. \A y \in NativePaid : paid'[y] = paid[y]
  BY <1>1 DEF NativePaid, IInv, WithdrawInv, WithdrawTypeOK
<1>4. ASSUME NEW from
      PROVE  PaidSince(NATIVE_SOL_TOKEN, from)' = PaidSince(NATIVE_SOL_TOKEN, from)
  <2> DEFINE S == {y \in executedHashes : y.token = NATIVE_SOL_TOKEN /\ paid[y].at >= from}
             T == {y \in executedHashes' : y.token = NATIVE_SOL_TOKEN /\ paid'[y].at >= from}
             f == [y \in Xfers |-> paid[y].amount]
             g == [y \in Xfers |-> paid'[y].amount]
  <2>1. S = T /\ S \subseteq NativePaid /\ S \subseteq Xfers
    BY <1>2, <1>3 DEF NativePaid, IInv, WithdrawInv, WithdrawTypeOK
  <2>2. AllNat(f, S) /\ \A y \in S : f[y] = g[y]
    BY <1>3, <2>1 DEF AllNat, IInv, WithdrawInv, WithdrawTypeOK
  <2>3. IsFiniteSet(S)
    BY FS_Subset DEF Countable
  <2> HIDE DEF S, T, f, g
  <2>4. SumFunctionOnSet(f, S) = SumFunctionOnSet(g, S)
    BY <2>2, <2>3, SumSame
  <2> QED
    BY <2>1, <2>4 DEF PaidSince, S, T, f, g
<1>5. PaidSince(NATIVE_SOL_TOKEN, rateLimits[NATIVE_SOL_TOKEN].windowStart)'
        = PaidSince(NATIVE_SOL_TOKEN, rateLimits[NATIVE_SOL_TOKEN].windowStart)
  BY <1>1, <1>4
<1> QED
  BY <1>1, <1>2, <1>3, <1>5 DEF WindowInv

\* A payout of native SOL is charged: to the window in progress, or to a new one that
\* starts now and knows no other payout.
LEMMA NativePayout ==
  ASSUME IInv, IInv', Countable, LimitsBite, WindowInv, NEW x \in Xfers, Execute(x, 0),
         x.token = NATIVE_SOL_TOKEN
  PROVE  WindowInv'
<1> DEFINE old == rateLimits[NATIVE_SOL_TOKEN]
           new == rateLimits'[NATIVE_SOL_TOKEN]
           limit == ResolveEffectiveLimits(old, 0)
           out == Payout(x)
<1>1. /\ out \in Nat /\ now' = now /\ x \notin executedHashes
      /\ executedHashes' = executedHashes \cup {x}
      /\ paid' = [paid EXCEPT ![x] = [amount |-> out, at |-> now]]
  BY SharedExecution DEF Execute
<1>2. old \in RateLimit /\ new \in RateLimit /\ now \in Nat /\ NATIVE_SOL_TOKEN \in Tokens
  BY DEF IInv, Tokens
<1>3. limit.maxPeriod \in Caps /\ limit.maxPeriod > 0
  <2>1. CASE old.explicit
    <3>1. limit = old
      BY <2>1 DEF ResolveEffectiveLimits
    <3>2. PICK call \in LimitCalls : old.maxPeriod = call.maxPeriod
      BY <2>1 DEF WindowInv
    <3> QED
      BY <3>1, <3>2 DEF Caps, LimitsBite
  <2>2. CASE ~old.explicit
    <3>1. limit.maxPeriod = DEFAULT_RATE_LIMIT_IF_ZERO_SUPPLY
      BY <1>2, <2>2 DEF ResolveEffectiveLimits, RateLimit
    <3> QED
      BY <3>1, SolanaAssumption DEF Caps
  <2> QED
    BY <2>1, <2>2
<1>4. new = Charge(old, out) /\ new.used <= limit.maxPeriod
  <2>1. /\ rateLimits' = [rateLimits EXCEPT ![x.token] = Charge(rateLimits[x.token], out)]
        /\ Charge(rateLimits[x.token], out).used <= limit.maxPeriod
    BY <1>3, SolanaAssumption DEF Execute, CheckAndUpdateWithdrawRateLimit
  <2> QED
    BY <1>2, <2>1 DEF IInv
<1>5. new.explicit = old.explicit /\ new.maxPeriod = old.maxPeriod
  BY <1>2, <1>4 DEF Charge, RateLimit
<1>6. /\ old.windowStart \in Nat /\ old.used \in Nat /\ RATE_LIMIT_WINDOW_SECS \in Nat \ {0}
      /\ \A y \in Xfers : paid[y].at \in Nat /\ paid'[y].at \in Nat
  BY <1>2, SolanaAssumption DEF RateLimit, IInv, WithdrawInv, WithdrawTypeOK
<1> HIDE DEF limit, out
<1>7. NativePaid' = NativePaid \cup {x} /\ NativePaid \subseteq Xfers \ {x}
  BY <1>1 DEF NativePaid, IInv, WithdrawInv, WithdrawTypeOK
<1>8. paid'[x].at = now /\ paid'[x].amount = out /\ \A y \in NativePaid : paid'[y] = paid[y]
  BY <1>1, <1>7 DEF IInv, WithdrawInv, WithdrawTypeOK
<1> DEFINE f == [y \in Xfers |-> paid[y].amount]
           g == [y \in Xfers |-> paid'[y].amount]
           S(n) == {y \in executedHashes : y.token = NATIVE_SOL_TOKEN /\ paid[y].at >= n}
           T(n) == {y \in executedHashes' : y.token = NATIVE_SOL_TOKEN /\ paid'[y].at >= n}
<1>9. ASSUME NEW n \in Nat, n <= now
      PROVE  /\ PaidSince(NATIVE_SOL_TOKEN, n) \in Nat
             /\ SumFunctionOnSet(g, T(n)) = PaidSince(NATIVE_SOL_TOKEN, n) + out
  <2>1. IsFiniteSet(S(n))
    BY FS_Subset DEF Countable
  <2>2. S(n) \ {x} = T(n) \ {x} /\ x \notin S(n) /\ x \in T(n)
    BY <1>1, <1>6, <1>7, <1>8, <1>9 DEF NativePaid
  <2>3. S(n) \subseteq NativePaid /\ T(n) \subseteq Xfers
    BY <1>1 DEF NativePaid, IInv, WithdrawInv, WithdrawTypeOK
  <2>4. \A y \in Xfers : f[y] \in Nat /\ g[y] \in Nat
    BY DEF IInv, WithdrawInv, WithdrawTypeOK
  <2>5. AllNat(f, S(n)) /\ AllNat(g, T(n)) /\ g[x] = out /\ \A y \in S(n) \ {x} : f[y] = g[y]
    BY <1>7, <1>8, <2>3, <2>4 DEF AllNat
  <2>6. PaidSince(NATIVE_SOL_TOKEN, n) = SumFunctionOnSet(f, S(n))
    BY DEF PaidSince
  <2> HIDE DEF f, g, S, T
  <2>7. /\ SumFunctionOnSet(f, S(n)) \in Nat /\ SumFunctionOnSet(g, T(n)) \in Nat
        /\ SumFunctionOnSet(g, T(n)) + (IF x \in S(n) THEN f[x] ELSE 0) =
             SumFunctionOnSet(f, S(n)) + (IF x \in T(n) THEN g[x] ELSE 0)
    BY <2>1, <2>2, <2>5, SumChange
  <2> QED
    BY <1>1, <2>2, <2>5, <2>6, <2>7
<1> HIDE DEF g, T
<1>10. /\ new.windowStart <= now /\ new.windowStart > 0
       /\ \A y \in NativePaid' : paid'[y].at < new.windowStart + RATE_LIMIT_WINDOW_SECS
       /\ new.used = SumFunctionOnSet(g, T(new.windowStart))
  <2>1. CASE WindowIsOver(old)
    <3>1. new.windowStart = now /\ new.used = out
      BY <1>2, <1>4, <2>1 DEF Charge, RateLimit
    <3>2. \A y \in NativePaid : paid[y].at < now
      BY <1>6, <1>7, <1>2, <2>1 DEF WindowIsOver, WindowInv
    <3>3. PaidSince(NATIVE_SOL_TOKEN, now) = 0
      <4>1. {y \in executedHashes : y.token = NATIVE_SOL_TOKEN /\ paid[y].at >= now} = {}
        BY <1>2, <1>6, <1>7, <3>2 DEF NativePaid
      <4> QED
        BY <4>1, SumEmpty DEF PaidSince
    <3>4. SumFunctionOnSet(g, T(now)) = out
      BY <1>1, <1>2, <1>9, <3>3
    <3>5. now > 0
      BY DEF WindowInv
    <3> QED
      BY <1>2, <1>6, <1>7, <1>8, <3>1, <3>2, <3>4, <3>5
  <2>2. CASE ~WindowIsOver(old)
    <3>1. new.windowStart = old.windowStart /\ new.used = old.used + out
      BY <1>2, <1>4, <2>2 DEF Charge, RateLimit
    <3>2. old.windowStart > 0 /\ old.windowStart <= now
          /\ now < old.windowStart + RATE_LIMIT_WINDOW_SECS
      BY <1>2, <1>6, <2>2 DEF WindowIsOver, WindowInv
    <3>3. SumFunctionOnSet(g, T(old.windowStart)) = old.used + out
      BY <1>6, <1>9, <3>2 DEF WindowInv
    <3>4. \A y \in NativePaid : paid[y].at < old.windowStart + RATE_LIMIT_WINDOW_SECS
      BY DEF WindowInv
    <3> QED
      BY <1>7, <1>8, <3>1, <3>2, <3>3, <3>4
  <2> QED
    BY <2>1, <2>2
<1>11. \E cap \in Caps : new.used <= cap
  BY <1>3, <1>4
<1>12. now' > 0 /\ (new.explicit => \E call \in LimitCalls : new.maxPeriod = call.maxPeriod)
  BY <1>1, <1>5 DEF WindowInv
<1>13. PaidSince(NATIVE_SOL_TOKEN, rateLimits[NATIVE_SOL_TOKEN].windowStart)'
         = SumFunctionOnSet(g, T(new.windowStart))
  BY DEF PaidSince, g, T
<1> QED
  BY <1>1, <1>10, <1>11, <1>12, <1>13 DEF WindowInv

LEMMA LimitStep ==
  ASSUME IInv, IInv', WindowInv, NEW t \in Tokens, NEW call \in LimitCalls, SetRateLimit(t, call),
         UNCHANGED <<now, withdrawVars, deposits>>
  PROVE  WindowInv'
<1> DEFINE sol == NATIVE_SOL_TOKEN
<1>1. /\ rateLimits \in [Tokens -> RateLimit] /\ sol \in Tokens /\ now \in Nat
      /\ UNCHANGED <<now, paid, executedHashes>>
  BY DEF IInv, Tokens, withdrawVars
<1>2. CASE t = sol
  <2>1. rateLimits'[sol] = [rateLimits[sol] EXCEPT !.explicit = TRUE, !.min = call.min,
                              !.maxTx = call.maxTx, !.maxPeriod = call.maxPeriod]
    BY <1>1, <1>2 DEF SetRateLimit
  <2>2. /\ rateLimits'[sol].windowStart = rateLimits[sol].windowStart
        /\ rateLimits'[sol].used = rateLimits[sol].used
        /\ rateLimits'[sol].maxPeriod = call.maxPeriod
    <3>1. rateLimits[sol] \in RateLimit
      BY <1>1
    <3> QED
      BY <2>1, <3>1 DEF RateLimit
  <2> QED
    BY <1>1, <2>2, WindowUntouched
<1>3. CASE t # sol
  <2>1. rateLimits'[sol] = rateLimits[sol]
    BY <1>1, <1>3 DEF SetRateLimit
  <2> QED
    BY <1>1, <2>1, WindowUntouched
<1> QED
  BY <1>2, <1>3

LEMMA StepWindow ==
  ASSUME IInv, IInv', Countable, LimitsBite, WindowInv, [Next]_vars
  PROVE  WindowInv'
<1>1. now \in Nat
  BY DEF IInv
<1>2. CASE UNCHANGED <<rateLimits, paid, executedHashes>> /\ now' >= now
  BY <1>2, WindowUntouched
<1>3. ASSUME NEW x \in Xfers, Withdraw(x) PROVE WindowInv'
  <2>1. ASSUME NEW r \in RemoteTokens, WithdrawExecute(x, r) PROVE WindowInv'
    BY <2>1, OtherPayout, SolanaAssumption DEF WithdrawExecute
  <2>2. CASE WithdrawExecuteNative(x)
    BY <2>2, NativePayout DEF WithdrawExecuteNative
  <2>3. \/ \E r \in RemoteTokens : WithdrawExecute(x, r)
        \/ WithdrawExecuteNative(x)
        \/ UNCHANGED <<rateLimits, paid, executedHashes>> /\ now' >= now
    <3>1. ASSUME NEW r \in RemoteTokens, NEW tip \in Tips, WithdrawSubmit(x, r, tip)
          PROVE  UNCHANGED <<rateLimits, paid, executedHashes, now>>
      BY <3>1 DEF WithdrawSubmit
    <3>2. ASSUME NEW a \in Accounts,
                 WithdrawApprove(a, x) \/ WithdrawCancel(a, x) \/ WithdrawReenable(a, x)
          PROVE  UNCHANGED <<rateLimits, paid, executedHashes, now>>
      BY <3>2 DEF WithdrawApprove, WithdrawCancel, WithdrawReenable
    <3> QED
      BY <1>1, <1>3, <3>1, <3>2 DEF Withdraw
  <2> QED
    BY <1>2, <2>1, <2>2, <2>3
<1>4. CASE Deposit
  BY <1>1, <1>2, <1>4 DEF Deposit, DepositNative, DepositSpl, withdrawVars
<1>5. CASE Admin
  <2>1. \/ \E t \in Tokens, call \in LimitCalls : SetRateLimit(t, call)
        \/ UNCHANGED rateLimits
    BY <1>5 DEF Admin, WithdrawFees, SetConfig, RegisterChain, RegisterToken, AddCanceler
  <2>2. UNCHANGED <<now, withdrawVars, deposits>>
    BY <1>5 DEF Admin
  <2>3. UNCHANGED <<paid, executedHashes>> /\ now' >= now
    BY <1>1, <2>2 DEF withdrawVars
  <2> QED
    BY <1>2, <2>1, <2>2, <2>3, LimitStep
<1>6. CASE ThirdParty \/ Tick \/ UNCHANGED vars
  BY <1>1, <1>2, <1>6 DEF ThirdParty, Tick, vars, withdrawVars
<1> QED
  BY <1>3, <1>4, <1>5, <1>6 DEF Next

\* The window of native SOL forgets no payout: what it has used is what was paid since it
\* began, across new windows and changes of the limits, and is within the largest cap set.
THEOREM WindowIsAccurate == Spec => []WindowAccountsForPayouts
<1>1. Init => (LimitsBite => WindowInv)
  BY InitWindow
<1>2. IInv /\ IInv' /\ Ledger /\ (LimitsBite => WindowInv) /\ [Next]_vars
        => (LimitsBite => WindowInv)'
  BY StepWindow DEF Ledger, LimitsBite
<1>3. (LimitsBite => WindowInv) => WindowAccountsForPayouts
  BY DEF LimitsBite, WindowInv, WindowAccountsForPayouts
<1> QED
  BY <1>1, <1>2, <1>3, Invariance, LedgerHolds, PTL DEF Spec
=============================================================================
