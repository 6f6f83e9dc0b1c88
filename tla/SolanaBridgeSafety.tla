------------------------- MODULE SolanaBridgeSafety -------------------------
(***************************************************************************)
(* What the Solana bridge program must keep true, over every interleaving  *)
(* of users, the operator, cancelers and the admin.                        *)
(***************************************************************************)
EXTENDS SolanaBridge, Functions

\* Types; the lamports never fall below the rent and no token account below 0.
TypeOK ==
  /\ now \in Nat /\ calls \in Nat
  /\ bridge \in BridgeConfig
  /\ chainEntries \subseteq Chains /\ cancelers \subseteq Accounts
  /\ tokenMappings \in [MappingKeys -> TokenMapping \cup {NoMapping}]
  /\ rateLimits \in [Tokens -> RateLimit]
  /\ pending \in [Xfers -> PendingWithdraw \cup {NoPending}]
  /\ executedHashes \subseteq Xfers /\ noncesUsed \subseteq Chains \X Nat
  /\ vouchedAt \in [Xfers -> Nat] /\ paid \in [Xfers -> [amount : Nat, at : Nat]]
  /\ deposits \subseteq [destChain : Chains, token : RemoteTokens, amount : Nat, nonce : Nat,
                         paidIn : Tokens]
  /\ lamports \in Nat /\ lamports >= Rent
  /\ vault \in [Mints -> Nat] /\ supply \in [Mints -> Nat]
  /\ strayed \in [Tokens -> Nat]

(***************************************************************************)
(* Withdrawals.  A closed account leaves only its ExecutedHash.            *)
(***************************************************************************)
Stage(x) == IF ~Live(x) THEN IF x \in executedHashes THEN "executed" ELSE "none"
            ELSE IF pending[x].cancelled THEN "cancelled"
            ELSE IF pending[x].approved THEN "approved"
            ELSE "submitted"

WT == INSTANCE Watchtower WITH
  status    <- [x \in Xfers |-> Stage(x)],
  liveSince <- vouchedAt,
  MinWindow <- MinDelay

\* The program keeps the promises of a watchtower: although execution closes the
\* account that held the withdrawal's state, no withdrawal is submitted, approved or
\* paid again, one source deposit has one vouched withdrawal, and none pays before
\* the shortest delay has passed since its last approval or reenabling.
ImplementsWatchtower == WT!Spec

(***************************************************************************)
(* Value                                                                   *)
(***************************************************************************)
Deposited(t) ==
  SumFunctionOnSet([d \in deposits |-> d.amount], {d \in deposits : d.paidIn = t})

PaidOut(t) ==
  SumFunctionOnSet([x \in Xfers |-> paid[x].amount], {x \in executedHashes : x.token = t})

MappingsOf(t) ==
  {k \in MappingKeys : tokenMappings[k] # NoMapping /\ tokenMappings[k].local = t}

BookedFees(t) ==
  IF t = NATIVE_SOL_TOKEN THEN bridge.accruedNativeFees
  ELSE SumFunctionOnSet([k \in MappingsOf(t) |-> tokenMappings[k].accruedFees], MappingsOf(t))

Unapproved == {x \in Xfers : Live(x) /\ ~pending[x].approved}

EscrowedTips == SumFunctionOnSet([x \in Unapproved |-> pending[x].operatorGas], Unapproved)

\* The books close.  Native: the lamports are what was there, plus the recorded
\* deposits, the booked fees, the tips still escrowed and what was sent unasked, less
\* the payouts.  SPL: what circulates is what did, less deposits, booked fees and what
\* was sent unasked or burned, plus payouts, whichever mapping and mode each of them
\* went through: a gift is never taken for a deposit, a fee or a tip.
ValueConserved ==
  /\ lamports = InitialLamports + Deposited(NATIVE_SOL_TOKEN) + BookedFees(NATIVE_SOL_TOKEN)
                  + EscrowedTips - PaidOut(NATIVE_SOL_TOKEN) + strayed[NATIVE_SOL_TOKEN]
  /\ \A t \in Mints :
       supply[t] - vault[t] =
         InitialSupply[t] - InitialVault[t] - Deposited(t) - BookedFees(t) + PaidOut(t)
           - strayed[t]

Covered(t) ==
  IF t = NATIVE_SOL_TOKEN THEN lamports >= Rent + BookedFees(t) + EscrowedTips
  ELSE vault[t] >= BookedFees(t)

\* The bridge holds the fees it has booked and the tips it has escrowed, until a
\* payout takes them: deposits, tips, approvals and fee withdrawals, in any order
\* and under any mix of modes on one mint, never spend one for the other.
OnlyPayoutsUncover ==
  [][\A t \in Tokens : Covered(t) =>
       Covered(t)' \/ \E x \in Xfers : x.token = t /\ executedHashes' = executedHashes \cup {x}
                                       /\ x \notin executedHashes]_vars

(***************************************************************************)
(* Rate limit of native SOL                                                *)
(***************************************************************************)
Caps == {DEFAULT_RATE_LIMIT_IF_ZERO_SUPPLY} \cup {call.maxPeriod : call \in LimitCalls}

PaidSince(t, start) ==
  SumFunctionOnSet([x \in Xfers |-> paid[x].amount],
                   {x \in executedHashes : x.token = t /\ paid[x].at >= start})

\* Provided no limit is set to 0, which turns the cap off, every native payout since
\* the window began is on its account, across resets and changes of the limit, and
\* they stay within the largest cap in use.
WindowAccountsForPayouts ==
  (\A call \in LimitCalls : call.maxPeriod > 0) =>
    LET window == rateLimits[NATIVE_SOL_TOKEN]
    IN  /\ window.used = PaidSince(NATIVE_SOL_TOKEN, window.windowStart)
        /\ \E cap \in Caps : window.used <= cap
=============================================================================
