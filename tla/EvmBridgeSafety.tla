--------------------------- MODULE EvmBridgeSafety ---------------------------
(***************************************************************************)
(* What Bridge.sol must keep true, over every interleaving of users,       *)
(* operators, cancelers, depositors and the owner.                         *)
(***************************************************************************)
EXTENDS EvmBridge, Functions

\* Types; balances, vaults and supplies are naturals, so no payout takes more than there is.
TypeOK ==
  /\ now \in Nat \ {0}
  /\ RegistryTypeOK
  /\ VaultTypeOK
  /\ paused \in BOOLEAN
  /\ operators \subseteq Accounts /\ cancelers \subseteq Accounts
  /\ cancelWindow \in MIN_CANCEL_WINDOW..MAX_CANCEL_WINDOW
  /\ FeeTypeOK
  /\ pendingWithdraws \in [Xfers -> Withdrawal]
  /\ pendingWithdrawHashes \subseteq Xfers
  /\ withdrawNonceUsed \subseteq {Key(x) : x \in Xfers}
  /\ depositNonce \in Nat \ {0}
  /\ deposits \subseteq [destChain : Chains, destToken : DestTokens, token : Tokens,
                         amount : Nat, nonce : Nat \ {0}]
  /\ ethBalance \in Nat

(***************************************************************************)
(* Withdrawals                                                             *)
(***************************************************************************)
\* A source deposit, known by (srcChain, nonce), has at most one transfer that was
\* ever approved: cancelling it does not free the nonce, and a rival hash that was
\* submitted before the approval cannot be approved after it.
NonceUnique ==
  \A x, y \in Xfers : Key(x) = Key(y) /\ Approved(x) /\ Approved(y) => x = y

\* The enumerable set a canceler polls holds exactly the withdrawals that are
\* submitted and neither executed nor cancelled, after any sequence of cancel,
\* re-cancel, uncancel and execute (the comment on _pendingWithdrawHashes).
PendingSetExact ==
  pendingWithdrawHashes =
    {x \in Xfers : Submitted(x) /\ ~Executed(x) /\ ~Cancelled(x)}

\* The stages of a withdrawal: approval spends its nonce, only an approved one is
\* cancelled, and what is executed is neither cancelled nor ever was unapproved.
StagesOrdered ==
  \A x \in Xfers :
    /\ Submitted(x) => x.srcChain # ThisChain /\ pendingWithdraws[x].srcDecimals \in Decimals
    /\ Approved(x) => /\ Submitted(x) /\ Key(x) \in withdrawNonceUsed
                      /\ pendingWithdraws[x].approvedAt <= now
    /\ ~Approved(x) => pendingWithdraws[x].approvedAt = 0
    /\ Cancelled(x) => Approved(x)
    /\ Executed(x) => Approved(x) /\ ~Cancelled(x)

\* A transfer that lost its nonce to a rival: submitted, never to be approved.
Stuck(x) == Submitted(x) /\ ~Approved(x) /\ Key(x) \in withdrawNonceUsed

\* Such a transfer stays so: no operator, canceler or owner call approves it, removes
\* it from the set cancelers poll, or releases the tip it brought.
StuckForever ==
  [][\A x \in Xfers : Stuck(x) =>
       /\ Stuck(x)' /\ x \in pendingWithdrawHashes'
       /\ pendingWithdraws[x].operatorGas = pendingWithdraws'[x].operatorGas]_vars

Stage(x) == IF Executed(x) THEN "executed"
            ELSE IF Cancelled(x) THEN "cancelled"
            ELSE IF Approved(x) THEN "approved"
            ELSE IF Submitted(x) THEN "submitted"
            ELSE "none"

WT == INSTANCE Watchtower WITH
  status    <- [x \in Xfers |-> Stage(x)],
  liveSince <- [x \in Xfers |-> pendingWithdraws[x].approvedAt],
  MinWindow <- MIN_CANCEL_WINDOW

\* The bridge keeps the promises of a watchtower: one vouched transfer per deposit,
\* one payout, and no payout before MIN_CANCEL_WINDOW has passed since the last
\* approval or uncancel, although the owner may shrink the window at any moment.
ImplementsWatchtower == WT!Spec

(***************************************************************************)
(* Value                                                                   *)
(***************************************************************************)
Deposited(t) ==
  SumFunctionOnSet([d \in deposits |-> d.amount], {d \in deposits : d.token = t})

Released(t) == {x \in Xfers : x.token = t /\ Executed(x)}

PaidOut(t) == SumFunctionOnSet([x \in Released(t) |-> NormalizedAmount(x)], Released(t))

\* What circulates of a token is what circulated at deployment, less the recorded
\* deposits, plus the executed withdrawals: no payout happens twice or is lost, though
\* the owner may change the token's type or its decimals between two steps and
\* depositors may lock a mintable token or burn a lockable one.
CirculationConserved ==
  \A t \in Tokens \ {WrappedNative} :
    Circulating(t) = InitialSupply[t] - InitialLocked[t] - Deposited(t) + PaidOut(t)

\* The tips the bridge still owes to whoever approves, stuck ones included.
EscrowedTips ==
  SumFunctionOnSet([x \in Xfers |-> pendingWithdraws[x].operatorGas],
                   {x \in Xfers : Submitted(x) /\ ~Approved(x)})

TipsCovered == EscrowedTips <= ethBalance

\* Only the owner's recoverAsset can leave the bridge without the ETH it needs for the
\* tips of unapproved withdrawals, which would make their approval revert.
OnlyRecoveryUncoversTips ==
  [][TipsCovered => TipsCovered' \/ \E amount \in Recoveries : RecoverAsset(amount)]_vars

\* Every nonce handed out so far names exactly one deposit record, whichever of the
\* three deposit functions handed it out: the destination chain keys on the nonce.
DepositNoncesDense ==
  /\ {d.nonce : d \in deposits} = 1..(depositNonce - 1)
  /\ Cardinality(deposits) = depositNonce - 1
==============================================================================
