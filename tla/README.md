# CL8Y bridge: a TLA+ model

This directory models the CL8Y cross-chain bridge of this repository in TLA+,
model-checks it with TLC on small instances, and proves its main safety
properties with TLAPS for every value of the parameters. Paths are relative to
`packages/`.

## 1. The system

The bridge moves tokens between EVM chains, Terra Classic and Solana. A user
deposits on the source chain, which records the deposit under a hash of seven
fields (source chain, destination chain, both accounts, token, amount, nonce).
Anybody submits the withdrawal with the same fields on the destination chain.
An *operator* service verifies the deposit and approves; during a *cancel
window* a *canceler* service may verify independently and cancel; an operator
may reinstate; after the window anybody executes. The safety argument is
optimistic: operators may be wrong, and cancelers have time to object.

```
 depositor ──> source bridge ── deposit record ────────────┬──────────┐ read by RPC
                                                           v          v
                                              watchers ── rows    writers (verify)
 user ──submit──> destination bridge <──approve, execute───────────────┘
                        │  ^  ^
                        │  │  └──cancel── canceler (verifies, polls, caches)
                        │  └────uncancel── operator, by hand
                        └──execute──> guard modules, rate limit, vault or mint
```

### Inventory

| Component | Source | State | Operations | Hard behaviour | What makes it correct |
|---|---|---|---|---|---|
| EVM bridge | `contracts-evm/src/Bridge.sol`, `lib/FeeCalculatorLib.sol` | pending withdrawals, enumerable set of their hashes, spent (chain, nonce) pairs, deposit nonce and records, roles, window, pause, fees, ETH | three deposits, submit, approve, cancel, uncancel, two executes, owner calls | every order of calls by several actors; parameters that change while withdrawals wait; ETH of tips, deposits and gifts in one balance | one approved transfer per deposit; one payout; time to object; the polled set is exact; value is conserved |
| Asset handlers | `LockUnlock.sol`, `MintBurn.sol` | token balances, authorized callers | lock, unlock, mint, burn | two doors for the same token | a vault never pays more than it holds |
| Token and chain registry | `TokenRegistry.sol`, `ChainRegistry.sol` | chains, tokens, types, destination mappings with a reverse lookup, incoming mappings, limits and windows | register, unregister, set mappings, set limits, charge | long sequences of retargeting; window edges | mappings one-to-one; lists exact; the limit limits and does not freeze |
| EVM guard modules | `GuardBridge.sol`, `TokenRateLimit.sol`, `BlacklistBasic.sol`, `DatastoreSetAddress.sol` | module lists, limits, windows, blacklist | check a deposit or a withdrawal, set limits, list and delist modules | windows dated from first use; limits that follow the supply | the limit limits and does not freeze |
| Terra Classic bridge | `contracts-terraclassic/bridge/src/*` | pending withdrawals, locked balances, registry with reverse tables, rate-limit windows, operators, cancelers, fees, admin proposal | every execute message | locked balances against real ones; supply-derived limits; decimals repaired under way; identifiers reused | as the EVM bridge; the tables mirror each other; the operator count counts |
| Solana bridge | `contracts-solana/programs/cl8y-bridge/src/*` | a config account; one account per deposit, withdrawal, executed hash, used nonce, mapping, limit | every instruction | accounts closed and created again; one lamport balance for fees, tips and locked SOL; mappings of two modes on one mint | as the EVM bridge; the books close |
| Operator writers | `operator/src/writers/*` | approved-hash cache, pending executions, breaker; all in memory | poll, verify, approve, execute | the chains move between a read and a transaction; unconfirmed transactions; restarts; a per-tick quota | approves only what was deposited; approves it at last; executes what it queued |
| Operator watchers and rows | `operator/src/watchers/*`, `db/*` | cursors and rows in PostgreSQL (the Solana cursor in memory) | poll a head, fetch, store, save; mark rows | nodes that lag or disagree, reorganisations, refused writes, restarts | the cursor passes nothing unrecorded; catches up; the right row is marked |
| Canceler | `canceler/src/watcher.rs`, `verifier.rs`, clients, `bounded_cache.rs` | bounded caches, retry queue, cursors, failure count, circuit; all in memory | poll: retry, enumerate, read events; verify; pre-check; cancel, for four kinds of guarded chain | every RPC may fail or lag; restart; cache loss; paging; the chain moves between a read and its use | fraud is acted upon; unverified is never taken for verified; the circuit recovers |
| Transfer hash | `contracts-evm/src/lib/HashLib.sol`, `multichain-rs/src/hash.rs`, `address_codec.rs`, the copies in the Terra and Solana contracts | none | encode and hash | four programs, two address widths, two alignments | equal name exactly for equal transfers, on all chains |
| Access manager, token factory, deployer, faucets, frontend, e2e | `contracts-evm/src/AccessManagerEnumerable.sol`, `Factory*`, `Create3Deployer.sol`, ... | none of the protocol's | | | not modelled |

`PROJECT.json` lists the same components with their status, and under
`hazards` every spot of the code that is hard to test, with the properties
that cover it or the reason why none does.

## 2. Modules

| Module | What it is | Code |
|---|---|---|
| `Watchtower` | abstract specification: what any destination chain promises | the common part of the three bridges |
| `EvmChain`, `EvmFees`, `TokenVaults` | clock and owner; the fee of a deposit; the two asset handlers | block time, `FeeCalculatorLib`, `LockUnlock`, `MintBurn` |
| `TokenRegistry` | registry state, one action per owner call, the charge to the rate limit | `TokenRegistry.sol`, `ChainRegistry.sol` |
| `GuardModules` | the guard, its lists, the blacklist, the windows of `TokenRateLimit` | the guard contracts |
| `TokenRegistryUse` | composes registry and guard under a bridge that charges any amount; their properties | `_checkDepositGuard`, `_checkWithdrawGuard` |
| `EvmBridge` | extends chain, fees, vaults and registry; one action per entry point of the bridge | `Bridge.sol` |
| `TerraRegistry`, `TerraBridge` | chains, tokens, mappings, limits; and everything else of the contract | `execute/*.rs`, `fee_manager.rs`, `state.rs` |
| `SolanaBridge` | the program, one action per instruction, and third parties who send to its accounts or burn | `instructions/*.rs`, `state/*.rs`, `rate_limit.rs` |
| `OperatorWriter` | one writer and its destination chain | `writers/*.rs`, `multichain-rs` clients |
| `DepositWatcher` | one watcher, its source chain, its table | `watchers/*.rs`, `multichain-rs` consensus |
| `TransferNames` | the four encodings of a transfer | `HashLib.sol`, three `hash.rs`, `address_codec.rs` |
| `DepositRows` | rows that watchers insert and writers mark | `db/mod.rs`, the writers' lookups |
| `Canceler` | one canceler process and one chain it guards | `canceler/src` |
| `...Safety` | the properties of a component, and its refinement mapping to `Watchtower` | |
| `MC...` | instances for TLC; `MCOperator` composes the four parts of the operator process | |
| `...Proofs` | theorems and their proofs | |
| `FiniteSums` | lemmas about the sums of the safety modules | |

**Contracts.** A transaction is atomic and a revert undoes all of it, so every
entry point is one action, and a call that would revert is an action that is
not enabled. Variables have the names of the storage they stand for. A
withdrawal *is* the record of the hashed fields, which assumes that keccak256
has no collisions; `TransferNames` is about everything before the hash. The
absent value of a storage mapping is explicit (`NotSubmitted`, `NoDestToken`,
`NoPending`). Details kept because properties depend on them:

* EVM: approval and cancellation ignore the pause; approving spends the nonce
  and cancelling does not free it; cancellation is allowed up to and including
  the last second of the window, execution strictly after it; uncancel restarts
  the window; source decimals are read on submission, the token type on
  execution; the tip is forwarded or the approval fails.
* Terra: `LOCKED_BALANCES` is kept apart from what the bank module and the CW20
  contracts hold (`locked` and `holdings`); the admin may fix decimals at any
  stage before execution; `add_token` overwrites a listed token; operators are
  a set with a separate count; the admin role moves through a timelock.
* Solana: execution closes the withdrawal's account and leaves an
  `ExecutedHash`; approval leaves a used nonce; the payout takes the mode of
  whichever mapping of the source chain the caller names; rent, native
  withdrawals, tips and fees share the bridge account's lamports. Anybody may
  send lamports or tokens to the bridge's accounts unasked, or burn tokens
  (`ThirdParty`); the history variable `strayed` adds them up.

**Guard.** Every listed module is asked and one refusal reverts the call.
`TokenRateLimit` dates its window from the first use, keeps it through
delisting, and follows the supply while its limit is 0. Its checks
(`TokenRateLimit.sol:44`, `:59`) and those of `GuardBridge`, which passes them
on, are open to every caller: `CheckByAnyone`. So a token from which nothing was
withdrawn may find its guard window used up by a stranger, and what
`QuietTokenAdmits` promises is relative to *whoever* charged the window last.
The registry's window is charged by the bridge alone.

**Operator.** The process is sequential within a writer and awaits at every
call, so a step of the model ends wherever the code awaits. `kind` and `origin`
say which of the three writers runs and where the deposits are made. One cycle
of `OperatorWriter` is `BeginCycle` (breaker, retry the queued executions),
`Poll`, `PollEvents` (EVM), `EndCycle`; each hash goes through `Skip`,
`NoteApproved` or `Start`, then `Verify` or `VerifyFails`, then it is sent.
Terra and Solana look for the transaction for a while (`SendLands`,
`SendUnconfirmed`, `SendFails`); what was sent may land at any later time
(`Land`), and a Terra broadcast may report an error although the node took it,
and is then remembered as approved. The EVM writer awaits the receipts of its
approvals (`writers/evm.rs:1057`) and executions (`evm.rs:1439`) without a
timeout: `SendAwaits` and `ExecuteAwaits` leave it waiting in `job` until the
transaction is `Included` or `Unsuccessful` and its receipt (`ApprovalReceipt`,
`ExecutionReceipt`) or an error of the node (`ReceiptError`) comes. A dropped
transaction may keep it waiting for ever, and with it the Terra writer, because
the EVM and Terra writers run in turns (`writers/mod.rs:403`), beside the
Solana one: hence nothing makes a turn (`BeginCycle`) come. The breaker is that
of the first EVM writer; errors of further EVM writers are only logged
(`mod.rs:389`), which makes no difference to what the models say, since a
breaker only delays the next cycle. Clocks are left out: every delay is a step
that may come at any time. A writer or watcher of a further chain that fails to
start is skipped by the process, so the liveness properties are about one that
did start.

In `DepositWatcher` a block is a set of transactions, and a poll
begins at a head (for EVM the consensus of the endpoints minus finality,
computed by the clustering rule of `multichain-rs/src/evm/rpc_fallback.rs`,
under a read policy with which the process starts at all: `PolicyAccepted`),
fetches chunk by chunk, stores deposit by deposit and saves the cursor. The
Solana watcher takes a log line of another program for an event if it contains
the bridge's invocation (`solana/watcher.rs:27`): `Foreign` transactions hold
such lines, with the nonce of some deposit, and their rows are rows like any
other. The history variable `gap` says for each deposit through which hole of
the code it fell first, if any: an event that cannot be parsed
(`solana/watcher.rs:68`) or inserted (`refused`), a lagging node that answered
without it (`unseen`), blocks behind the look-back or the signature page
(`skipped`), the second deposit of a Terra transaction (`second`), a
transaction beyond the first page of the Terra search, which asks for no other
(`page`, `terra/queries.rs:24`), a Solana restart from the newest row
(`restart`), a nonce whose row a foreign line took first (`taken`: `ON CONFLICT
DO NOTHING`, `watchers/solana.rs:174`).

**Canceler.** One cycle is `BeginPoll` (take the retry queue), `Enumerate` (the
hashes the bridge lists; Terra's page by page, Solana has none), `PollEvents`,
`PollSignatures` or `ChainReset` (approvals past the cursor; Terra has none),
`EndPoll`; in each pass `Skip` and `Start` consume `todo`, and a started hash
goes through verification, the pre-check (with retries and a circuit for the
EVM chain of the configuration, `can_cancel` for peers and Terra, none for
Solana) and the transaction. Capacity and age of the caches are abstracted to
`Forget`, which loses any entry at any time. `submit_cancel` returns `Ok(())`
whatever it achieved: the operator `SubmitReturns`. The verifier reads the
latest block of one node (`verifier.rs:337`), so a deposit may be shown late
(`Sync`) or taken back by a reorganisation (`TakeBack`): an honest approval is
then rejected, or a verified one has lost its deposit and is not looked at
again, as in the code. A withdrawal whose source chain is not configured
(`unknown`) stays pending for ever, by design (`verifier.rs:257`). On Solana a
poll reads one page of the newest 1000 signatures (`solana_client.rs:97`) and
moves its cursor only when it found an approval (`watcher.rs:1593`): `Bury`
puts approvals behind the page, and the variable `gap` says which of them the
cursor has passed without the process knowing them any more: unread
transactions or accounts (`fetch`), behind the page (`page`), a source chain
that gave no sense (`error`), dropped from a bounded cache (`forgotten`).

**Composition.** `EvmBridge` composes registry, vaults and fees in one state.
The three bridges compose with everything that only relies on the lifecycle
through `Watchtower`, which each of them implements. The writer and canceler
modules contain the chain they act on, moved also by everybody else.
`MCOperator` puts the writers, the watchers, the marking of rows and the naming
of transfers in one process; they share nothing that a decision of either
reads, so that an instance runs one `part` and interleaving them would only
multiply states.

## 3. Runs

| Run | What it checks | Instance |
|---|---|---|
| `evm_lifecycle` | `NonceUnique`, `PendingSetExact`, `StuckForever`, `OnlyRecoveryUncoversTips`, `ImplementsWatchtower` | one token, two rivals for one nonce, two accounts, two windows, tips, gifts, native deposits, recoveries, five ticks |
| `evm_value` | `TypeOK`, `CirculationConserved`, `DepositNoncesDense` | one token that changes type, decimals and registration, two payments, two deposits, handlers on and off, fees |
| `registry_mappings` | `DestinationsOneToOne`, `DestChainsExact` | 2 tokens, 2 chains, 2 remote tokens, under symmetry, no bound on the number of calls |
| `registry_rate_limit` | `SpanBounded`, `GuardSpanBounded`, `QuietTokenAdmits` | windows of 2, four ticks, three amounts, strangers who charge the guard, limits, lists and supplies that change at any time |
| `registry_unregister` | violation of `UnregisteredLeavesNothing` | one token, one chain |
| `terra_bridge` | `TypeOK`, `CirculationConserved`, `OnlyRecoveryUncovers`, `ImplementsWatchtower` | a native and a CW20 token, two rivals, delays, recovery, repaired decimals, five ticks |
| `terra_config` | `OperatorsCounted`, `ChainNamesInverse`, `MappingsOneToOne`, `CirculationConserved` | every registry, role and fee call, up to three of them, around one withdrawal; an initial list of operators that repeats one |
| `solana_bridge` | `TypeOK`, `ValueConserved`, `WindowAccountsForPayouts`, `OnlyPayoutsUncover`, `ImplementsWatchtower` | SOL and a mint with two mappings, three withdrawals, both modes, fees, tips, limits, a transfer or a burn unasked |
| `operator` | `TypeOK`, `ApprovalsBacked`, `MemoryTruthful`, `RowsMatchChain`, `RowsSettled`, `NamesAgree`, `HonestApproved`, `QueuedSettles`, `CaughtUp` | three routes (one per writer and per source), an honest and a fraudulent withdrawal, a restart; three watchers with chains of up to three blocks, two transactions, one with two deposits, and a foreign one, pages of one, three endpoints, one fault; rows and names over four and five routes |
| `canceler_watch` | `TypeOK`, `ApprovalsAccounted`, `ReinstatedIsLeftAlone`, `FraudIsActedUpon` | four kinds of chain, one honest and one fraudulent approval, source chains known or (Terra, Solana) not, all four kinds of fault, flooded signature pages, one restart |
| `canceler_cache` | violation of `CancelledCacheTruthful` | source and pre-check faults |
| `canceler_circuit` | violation of `CircuitRecovers` | pre-check faults, one restart, under fairness |

The passing runs reach between 2 000 (`registry_mappings`, under symmetry) and
743 000 (`terra_config`) distinct states; the other large ones are `evm_value`
(330 000), `registry_rate_limit` (508 000), `solana_bridge` (198 000),
`canceler_watch` (204 000), `evm_lifecycle` (117 000), `terra_bridge` (49 000)
and `operator` (57 000, with three liveness properties). Each ends within four
minutes on two workers.

### What they show

* All three bridges keep the promises of one abstract watchtower
  (`ImplementsWatchtower`): a source deposit has at most one vouched transfer,
  for good; a payout happens once, and never before the shortest window has
  passed since the last approval or reinstatement, however the owner moves the
  window. On Solana this survives the closing of the account.
* EVM: a rival submitted earlier is stuck (`StuckForever`): never approved,
  never removed from the set that cancelers and operators enumerate, its tip
  released by nothing but the owner's recovery. Only `recoverAsset` can leave
  the bridge without the ETH behind the tips (`OnlyRecoveryUncoversTips`).
* Value: on every chain what circulates follows deposits and payouts exactly,
  through type changes, remapped decimals, repaired decimals, the wrong deposit
  door and fees. On Terra the contract holds what `LOCKED_BALANCES` promises
  plus the escrowed tips until the admin recovers something; on Solana the
  books also tell what third parties sent or burned from deposits, fees and
  tips, and fees and tips are covered until a *payout* takes them: nothing but
  the order of calls reserves them against native payouts.
* Registries: forward and reverse tables mirror each other through retargeting,
  removal and reuse; the Terra operator count exceeds the operators by exactly
  the repetitions of the initial list, whatever is added and removed later.
* Limits: a fixed window admits up to twice the limit in a span as long as the
  window and never more, for the registry's limit and the guard's; and a window
  that nobody charged for its length admits its limit again. On Solana the
  native window accounts for every payout.
* Operator: whatever fails, lags or restarts, a writer approves only what has
  had a deposit; a deposit on an EVM source may be taken back after it was
  verified, because the writers read the latest state. As long as the writer is
  not kept waiting for ever, by a receipt or by the writers before it, each
  final deposit is approved at last, unless on Solana ten candidates without a
  deposit stand before it, and what is queued is executed or cancelled. A
  watcher's cursor stands behind no deposit but those recorded or in a named
  gap, and final deposits end up in one or the other. A row is a final deposit
  or, on Solana, a foreign line, which alone can keep the deposit of its nonce
  out for ever.
* Names: the four encodings agree for every pair of chain kinds, distinct
  transfers have distinct names, and the recipient named is the one paid.
* Canceler: no approval on Solana that its cursor has passed drops out of the
  process, but through a named gap; it does not cancel from memory what an
  operator reinstated; and it looks at every fraudulent approval from a
  configured source until it is no longer approved or an attempt was made,
  unless it is beyond the reach of Terra's paging or Solana's polling missed
  it. It does not protect against a deposit that is taken back after it was
  verified, nor an honest approval against a node that lags.

### Findings

Three runs end in a violation:

1. `registry_unregister`: `unregisterToken` (`TokenRegistry.sol:258`) "cleans up
   all mappings" but leaves `tokenSrcMappings`. Registered again, the token
   accepts withdrawals with the decimals of its former life.
2. `canceler_cache`: when every cancel attempt fails, `submit_cancel` still
   returns `Ok(())` (`watcher.rs:2021`), and `verify_and_cancel` caches the hash
   as cancelled: the "will retry" of `watcher.rs:1874` does not happen while
   the entry lives. This is why `FraudIsActedUpon` can only promise an attempt.
3. `canceler_circuit`: the circuit breaker closes on a successful pre-check, and
   an open circuit makes none (`watcher.rs:1824`).

Other disagreements between code and documentation were met while modelling;
the models follow the code, and the properties make the exception by name.
`PROJECT.json` quotes both sides of each: the Terra decimals fix, the unused
`min_signatures`, the repeated operators, the zero quotient of the default
limit; the Solana mint alignment of native deposits and the native default cap;
the operator's missing reaction to reorganisations, the deposits passed over on
an insertion error, `dest_chain_type`, the row lookup by nonce alone; the
canceler's Terra paging and its caching of unapproved withdrawals.

### Bounds

`MaxTime`, `MaxHeight` bound clocks and chains, `MaxNonce` the deposits,
`MaxGifted` gifts, `MaxAdminCalls`, `MaxGuardCalls` the calls of an
administrator, `MaxCalls` those of the Solana admin and of third parties
together, `MaxRestarts`, `MaxFaults` restarts and faults. Five ticks hold two
windows of the longest length with a reinstatement between; four hold two
rate-limit windows of two and one that begins in mid-window. Two deposits show
a gap or a repetition. A restart forgets everything, so a second one starts
where the first did; one watcher fault is enough to open each gap, and a chain
of three blocks holds a final, an unfinal and a chunk boundary, and on Solana a
foreign line before a deposit and a signature before both. Two rivals for one
nonce, two tokens for one remote token, and one honest with one fraudulent
approval are the smallest instances in which the conflicts of interest exist.
`Threshold` 2 with `MaxRetries` 1 separates a failed attempt, a failed
pre-check and an open circuit. `PageSize` 2 and `MaxLimit` 1 have the order of
the code's 50 and 30; `MaxAttempts` 1 stands for ten, `SignatureLimit` and
`SearchLimit` 1 for a page of signatures or of search results. `AdminOps`
selects the owner calls an instance exercises; together the runs exercise all
of them.

Three configurations use a state constraint, which only drops combinations of
two independent things: `OneOwnerActs` (in one behaviour either the registry is
reconfigured or the guard is touched, by its owner or a stranger: they share no
state but the supply and the charge, and each side is explored in full against
the charges), `FeesApart` (fees differ from the deployed ones only before the
first approval, with the registry as deployed: a fee changes a deposit's amount
and nothing of a withdrawal), `OperatorsApart` (the deployed operator is
delisted only under an otherwise deployed configuration: who may approve does
not depend on pause, window or cancelers). All three constrain invariants and
action properties; no liveness property is checked under a constraint.

Widths: Solidity's checked arithmetic reverts where 256 bits would overflow and
no token supply comes near. `UINT128_MAX` of Terra and `U64_MAX` of Solana are
constants, small enough that saturating and checked arithmetic is reached.
`FeeBps` and decimals have the powers of ten of the code, on small exponents.

### Deadlock and fairness

Deadlock is checked in every run but two. In `solana_bridge` and `terra_config`
the clock, the administrator's calls and the deposits are all bounded, so the
bounded model really ends where the program would go on.

The contracts assume no fairness: no user, operator or owner is obliged to
act, and every property of them is a safety property.

*Writers.* `WF(Step)`: once its turn has come, the writer goes on with what it
has begun and with what was answered. Nothing makes a turn come, nor a receipt
or an error in its place: `BeginCycle`, `Included`, `Unsuccessful` and
`ReceiptError` are no part of `Step`. `HonestApproved` and `QueuedSettles` are
therefore about behaviours in which the writer is at work again and again
(`[]<>Attends`). `SF` on `PollAll` and, for honest withdrawals, on
`Start`, `Verify`, `SendLands` or `SendAwaits`, `ExecuteLands` or
`ExecuteAwaits`, and `Included`: a list, a read or a transaction
that is tried again and again succeeds at last. `WF(Ripen)`: windows close.
`WF(Age)`: cache entries have a time to live. *Watchers.* `WF(Continues)`: a
poll goes on. `SF(BeginFresh)`: again and again the watcher hears of the newest
block. Nothing makes an insertion succeed that the code does not repeat.
*Canceler.* `WF(Poll)`; `SF` on `Enumerate` or `PollSignatures` and, for
fraudulent approvals, on `Start`, `VerifyInvalid`, and `PrecheckAnswers` or
`TerraAccepts` (each pair is on chains of its own): a call made again and again
is answered at last, and `VerifyInvalid` is never enabled for an unknown source
chain. Nothing obliges anybody to
approve, execute or reinstate, and nothing makes a lost cache entry stay.

## 4. Proofs

TLAPS proves for every value of the constants that the `ASSUME`s allow:

| Theorem | Property |
|---|---|
| `EvmBridgeProofs!TypeCorrect`, `NonceIsUnique`, `PendingSetIsExact` | the bridge's invariants |
| `EvmBridgeProofs!StuckStays` | `StuckForever` |
| `EvmBridgeProofs!CirculationIsConserved`, `DepositNoncesAreDense`, `TipsStayCovered` | the bridge's books: tokens, deposit records, and the ETH behind the tips |
| `TerraBridgeProofs!TypeCorrect`, `ChainNamesAreInverse`, `MappingsAreOneToOne`, `NoncesAreDense`, `OperatorsAreCounted` | the Terra contract's invariants |
| `TerraBridgeProofs!CirculationIsConserved`, `PromisesStayCovered` | its books: circulation, and `OnlyRecoveryUncovers` |
| `SolanaBridgeProofs!TypeCorrect` | no account, vault or fee total falls below zero, lamports not below the rent |
| `SolanaBridgeProofs!ValueIsConserved`, `PromisesStayCovered`, `WindowIsAccurate` | its books: lamports and mints, `OnlyPayoutsUncover`, and the native window |
| `EvmBridgeProofs!BridgeIsWatchtower`, `TerraBridgeProofs!TerraIsWatchtower`, `SolanaBridgeProofs!SolanaIsWatchtower` | the refinements of `Watchtower` |
| `WatchtowerProofs!OneVouched` | `OneVouchedPerDeposit` of the abstract specification |
| `TerraBridgeProofs!VouchesOnce`, `SolanaBridgeProofs!VouchesOnce` | the same of the two contracts, inherited through the refinement |
| `TokenRegistryProofs!OneToOne`, `DestChainsAreExact` | the EVM mappings |
| `TokenRegistryProofs!TypeCorrect`, `SpansBounded`, `GuardSpansBounded`, `QuietTokensAdmit` | what the registry's and the guard's limits admit |
| `OperatorProofs!TypeCorrect`, `ApprovalsAreBacked`, `MemoryIsTruthful` | the writers |
| `OperatorProofs!WatcherTypeCorrect`, `WatcherRowsMatchChain` | the watchers |
| `OperatorProofs!RowsAreSettled`, `TransferNamesAgree` | the marked rows, and the names of transfers |
| `CancelerProofs!TypeCorrect`, `ApprovalsAreAccounted`, `ReinstatedStays` | the canceler's safety |

Every invariant and every action property that a passing run checks is among
them; only the four liveness properties are not.

*Bridges.* The inductive invariant is typing together with `StagesOrdered`, and
on the EVM also `VaultsBacked`, `NonceUnique` and `PendingSetExact`. Uniqueness
is not inductive alone: approval checks the *spent nonces*, so the invariant
must say that an approved withdrawal's nonce is among them, and an execution
must not reach an unapproved or cancelled one (`StagesOrdered`). Typing needs
`VaultsBacked` (what is locked is part of the supply), without which a burn
could make the circulation negative, and the decimals that `StagesOrdered`
gives a submitted withdrawal, without which the payout is no number. On Solana
`StagesOrdered` speaks of accounts: a live one is not executed, an executed one
has left its nonce, and the vouching time is the approval time. There is one
lemma per group of actions. The refinements use the same invariant: each step
is matched with the watchtower step of its name, and all that is not a
withdrawal is a stutter. `VouchesOnce` instantiates the proof module of the
abstract specification under the same mapping: the Terra and Solana contracts
inherit `OneVouched` from `Watchtower` instead of proving it again. The EVM
bridge has it as `NonceIsUnique`, which its own invariant needs.

*Sums.* The books equate balances with sums over the deposits and payouts so
far, so a step's lemma needs to know what a sum becomes when one summand comes,
goes or changes. The community operator is a recursion that takes elements in
the order of `CHOOSE`, and its value would be a matter for induction;
`FiniteSums` goes around it: a sum of naturals is the number of pairs `<<x,
k>>` with `k < f[x]` (`Units`), that number solves the recursion, and a second
solution would differ from it on a *minimal* subset (`MinimalSubset`), which
the recursion refutes. `SumAdd`, `SumRemove`, `SumChange` and `SumMonotone`
follow from theorems about cardinalities. The invariant `Ledger` of each bridge
adds to the books what the sums need: that only finitely many deposits and
submissions exist. On Solana `ThirdPartyKeeps` balances a gift or a burn
against `strayed`. The uncovering properties (`StepKeepsCover`) then compare
both sides of each step: whatever moves a balance moves a promise as much, but
for recovery (EVM, Terra) or a payout (Solana).

*Windows.* `FixedWindow` relates a window to the history of charges: from its
start on it has used at least what was charged, and no more than the limit was
charged; no charge lies past its end; and what precedes it within one window's
length is no more than the limit either. A span that straddles a start splits
into two parts of at most one limit each: hence twice the limit, and never
more. `WindowsInv` states it for both windows, which differ: the registry's
restarts with every change of limits and is not charged without a limit, the
guard's is dated from its first use. The Solana window needs that every payout
came before the window's end (`WindowInv`), so that what a new window forgets
lies before its start.

*Names.* A name is the concatenation of seven slots of eight four-byte words.
Each of the four programs is shown to lay out the same slots for the same
transfer (`WithdrawNames`, `AllAgree`); concatenations of slots of one length
are equal only slot by slot, so that distinct transfers, which differ in some
field, differ in its slot (`NameMeansTransfer`). The invariant only says that
what is deposited and submitted carries the name its program computes.

*Rows.* A processed row has its own approval, or is one of an EVM source whose
nonce an approval on an EVM chain shares; there is one lemma per kind of marking
(`OwnMarked`, `NonceMarked`).

*Registries.* `DestinationsOneToOne` and `MappingsOneToOne` are equivalences,
so that retargeting both releases the old claim and takes the new one;
`unregisterToken` walks the listed chains, so `DestChainsExact` is part of the
invariant. `OperatorsAreCounted` holds for every initial list: the count
exceeds the operators by the list's repetitions (`ListCovers`), which the code
does not refuse, and no call changes the difference. `NoncesAreDense` counts
the deposits with the finite-set theorems, and says for any bound what the
terra runs, whose bound is one deposit, would not.

*Writers.* The invariant is `Backed`: everything that is committed (approved,
in the mempool, or past its verification) is `BackedBy` its deposit, which on
Solana is final, on Terra there, and on an EVM chain there or taken back by a
reorganisation. `ApprovalsBacked` alone is not inductive: the job between
verification and sending has no approval yet. `Receipted` says that only an
approval that took place has a successful receipt, which is what
`MemoryTruthful` rests on. `BreakerClosed` bounds the count.

*Watchers.* `RowsMatchChain` needs the position inside a poll: what the poll
has passed is accounted for, what it is passing is either accounted for or
still in `logs` (`Passing`); all positions are final (`Ordered`), so that a
reorganisation touches none of them; no transaction is mined twice (`Mined`),
so that a row names one block; on Solana everything before any row
is accounted for (`Resumable`), wherever a restart resumes; and a deposit whose
row was taken has a foreign row of its nonce (`TakenBy`), since rows stay.

*Canceler.* `ReinstatedStays` needs `JobIsNew`: the hash in `verify_and_cancel`
is not among the cancelled ones, because `Start` skips known ones and only the
end of its own job adds it. `ApprovalsAccounted` needs `RestIsIdle`, that a new
poll finds neither a job nor a list left over which it would overwrite; each
step is then a move of one hash from one place of `Remembered` to another, or
into a gap.

*Assumptions.* Each is an `ASSUME` of the module that declares the constants,
and TLC evaluates all of them.

* *Types and absent values.* Parameters have the types the contracts give them,
  and an absent value (`NoToken`, `NoMapping`, `Keep`, ...) is not a value.
* *Deployments* (`DeploymentAssumption`). The EVM and Terra bridges start with
  tokens and chains registered one-to-one. On Solana the initial mappings are
  finitely many, no fee is accrued, and the bridge account holds its rent.
* *Amounts.* Solana amounts, fees and transfers are positive, as the program
  requires of what it records.
* *Powers of ten* are positive (`ScaleAssumption`): the provers know nothing of
  exponentiation.
* *Windows* (`UseAssumption`). The guard's window is as long as the registry's,
  as both contracts have it (one day); only the comparison of the two rests on it.
* *Names* (`NamesAssumption`). Distinct chains have distinct four-byte ids, as
  the registries enforce; an account has the shape of its chain (twenty bytes
  or thirty-two); and hashes behave: the digest of a native denomination is no
  token's account, and a digest or a 32-byte Terra address is no padded address.
* *Deposits* (`NoncesAssumption`). A chain gives a nonce once, which
  `DepositNoncesAreDense` and `NoncesAreDense` prove of the contracts; one Terra
  chain is configured.
* *Services.* Thresholds and sizes are positive, honest and fraudulent are
  apart, and the read policy is one the operator accepts (`PolicyAccepted`): as
  many endpoints must agree as exist, and one alone only where single reads are
  allowed or there is one endpoint.

*Only model-checked.* Liveness (`FraudIsActedUpon`, `HonestApproved`,
`QueuedSettles`, `CaughtUp`), which is out of the prover's reach, and the three
violations, which are counterexamples.

## 5. Not modelled

* Upgrades (UUPS, CosmWasm migration), ownership transfer, recovery of an ERC20
  sent to the EVM bridge by mistake: they replace or leave the protocol.
* `AccessManagerEnumerable`: whether a restricted call is authorised; the
  models let the authority make every restricted call they know.
  `GuardBridge.execute` is an arbitrary call of that authority; the guard's
  account checks have no caller in the repository.
* Terra: the bridge amount limits of `update_limits`, `add_token` and
  `update_token`, which nothing reads; queries, except those that the operator
  and the canceler page through.
* Solana: what the mint authority of a token that the bridge does not mint
  issues; the supply of such a token is then the issuer's word.
* Canceler: other programs' log lines that its reading of Solana transactions
  takes for events of the bridge. A line without an account of its hash is
  skipped when the account is read.
* Operator: the approvals and releases tables with `confirmation/` and the
  retry that read them: nothing inserts a row there. The database-driven
  functions of `writers/evm.rs` that nothing calls. Health and metrics.
* `multichain-rs`: the universal address codec, which only tests and re-exports
  use; the clients only the end-to-end harness uses.
* Token factory, CREATE3 deployment, faucets, frontend, e2e: no state of the
  protocol.
* Clocks of the two services, as durations: delays are steps that may come at
  any time, which covers every setting of the intervals and every drift.

## 6. Plan

Done: all contracts, the guard, both services, the rows and the names, with
their runs; every safety property of the runs proved. Next, in this order:

1. A composition over `Watchtower`: operators that may be wrong and a canceler
   whose calls are answered within the window, so that nothing is paid that was
   not deposited, except what an operator reinstates (a reinstated fraud is left
   alone); safety of it from the promises of `Watchtower` alone.
2. Several withdrawals of each kind in the writers' queues, to see the bound of
   `pending_executions` at work with more than one eviction.
