-------------------------- MODULE TerraBridgeSafety --------------------------
(***************************************************************************)
(* What the Terra Classic bridge must keep true, over every interleaving   *)
(* of users, operators, cancelers, depositors and the admin.               *)
(***************************************************************************)
EXTENDS TerraBridge, FiniteSets, Functions

\* Types; LOCKED_BALANCES, balances and supplies stay natural numbers.
TypeOK ==
  /\ RegistryTypeOK
  /\ paused \in BOOLEAN
  /\ admin \in Accounts
  /\ pendingAdmin \in [address : Accounts \cup {NoAccount}, executeAfter : Nat]
  /\ operators \subseteq Accounts /\ cancelers \subseteq Accounts
  /\ operatorCount \in Nat /\ minSignatures \in Nat
  /\ withdrawDelay \in MIN_DELAY..MAX_DELAY
  /\ feeConfig \in [standard : Nat, discounted : Nat, discountOn : BOOLEAN]
  /\ customFees \in [Accounts -> CustomFees \cup {NoFee}]
  /\ pendingWithdraws \in [Xfers -> Withdrawal]
  /\ withdrawNonceUsed \subseteq {Key(x) : x \in Xfers}
  /\ outgoingNonce \in Nat /\ adminCalls \in Nat
  /\ deposits \subseteq
       [destChain : Chains, destToken : DestTokens, token : Tokens, amount : Nat, nonce : Nat]
  /\ locked \in [Tokens -> Nat] /\ holdings \in [Tokens -> Nat] /\ supply \in [Tokens -> Nat]

(***************************************************************************)
(* Withdrawals                                                             *)
(***************************************************************************)
Stage(x) == IF Executed(x) THEN "executed"
            ELSE IF Cancelled(x) THEN "cancelled"
            ELSE IF Approved(x) THEN "approved"
            ELSE IF Submitted(x) THEN "submitted"
            ELSE "none"

WT == INSTANCE Watchtower WITH
  status    <- [x \in Xfers |-> Stage(x)],
  liveSince <- [x \in Xfers |-> pendingWithdraws[x].approvedAt],
  MinWindow <- MIN_DELAY

\* The contract keeps the promises of a watchtower: one vouched transfer per source
\* deposit, one payout, and none before the shortest withdraw delay has passed since
\* the last approval or uncancel, although the admin may shorten the delay, hand over
\* the role, or change the roles and the decimals at any moment.
ImplementsWatchtower == WT!Spec

(***************************************************************************)
(* Value                                                                   *)
(***************************************************************************)
Deposited(t) ==
  SumFunctionOnSet([d \in deposits |-> d.amount], {d \in deposits : d.token = t})

Released(t) == {x \in Xfers : x.token = t /\ Executed(x)}

PaidOut(t) == SumFunctionOnSet([x \in Released(t) |-> Payout(x)], Released(t))

\* What is outside the bridge's books is what was there at deployment, less the
\* recorded deposits, plus the payouts at the decimals on record: although the admin
\* may retype a token or fix the decimals of a withdrawal between any two steps, no
\* payout is repeated, lost, or restated after it was made.
CirculationConserved ==
  \A t \in Tokens :
    supply[t] - locked[t] =
      InitialSupply[t] - InitialLocked[t] - Deposited(t) + PaidOut(t)

EscrowedTips ==
  SumFunctionOnSet([x \in Xfers |-> pendingWithdraws[x].operatorFunds],
                   {x \in Xfers : Submitted(x) /\ ~Approved(x)})

Owed(t) == locked[t] + (IF t = GasDenom THEN EscrowedTips ELSE 0)

\* The contract holds what LOCKED_BALANCES promises and, in the denom of the tips, the
\* tips of unapproved withdrawals besides: no sequence of deposits, fees, tips, payouts
\* and retypings lets one pay for the other.  Only the admin's recover_asset, which
\* leaves LOCKED_BALANCES as it was, may end that.
OnlyRecoveryUncovers ==
  [][\A t \in Tokens : holdings[t] >= Owed(t) =>
       \/ holdings'[t] >= Owed(t)'
       \/ \E amount \in Recoveries : RecoverAsset(t, amount)]_vars

\* Each nonce below OUTGOING_NONCE names exactly one deposit, whichever entry point
\* handed it out: the destination chain keys on the nonce.
DepositNoncesDense ==
  /\ {d.nonce : d \in deposits} = 0..(outgoingNonce - 1)
  /\ Cardinality(deposits) = outgoingNonce

(***************************************************************************)
(* Configuration                                                           *)
(***************************************************************************)
\* The entries of the instantiate message's list that name an operator once more.
Repetitions == Len(OperatorList) - Cardinality({OperatorList[i] : i \in DOMAIN OperatorList})

\* OPERATOR_COUNT is off by the repetitions of the list the contract was instantiated
\* with and by no more, whatever operators are added and removed: the calls neither
\* widen the difference nor repair it.  The admin's guards bind to that extent: as many
\* operators remain as the signatures asked for, or one, short of the repetitions.
OperatorsCounted ==
  /\ operatorCount = Cardinality(operators) + Repetitions
  /\ Cardinality(operators) + Repetitions >= minSignatures
  /\ operators = {} => Repetitions > 0

\* The two chain tables are inverse to each other after any sequence of
\* registrations, renamings and removals: an identifier names one chain.
ChainNamesInverse ==
  \A c \in Chains, i \in Identifiers :
    chainByIdentifier[i] = c <=> chains[c].identifier = i

\* On each chain a destination token has one local token and a local token one source
\* encoding, and the reverse tables say so exactly: a claim is neither left behind
\* when its mapping moves nor dropped while the mapping stands.
MappingsOneToOne ==
  \A c \in Chains, t \in Tokens :
    /\ \A d \in DestTokens : destMappingOwner[c][d] = t <=> destMappings[t][c] = d
    /\ \A s \in SrcEncodings :
         srcMappingOwner[c][t] = s <=>
           srcMappings[c][s] # NoMapping /\ srcMappings[c][s].local = t
==============================================================================
