---------------------------- MODULE OperatorWriter ----------------------------
(***************************************************************************)
(* One writer of the operator process (packages/operator/src/writers) and  *)
(* the destination chain it serves.  A writer polls: it tries to execute   *)
(* the withdrawals it has queued, lists the pending withdrawals of the     *)
(* chain, looks for the deposit of each on its source chain and approves   *)
(* those that have one.  Every await is a step of its own, so the chains   *)
(* move between a read and the transaction that rests on it, and every     *)
(* transaction may land after the writer has given up waiting for it.  A   *)
(* request is answered or refused; but the EVM writer waits for the receipt *)
(* of what it sent without a timeout, and none may ever come.              *)
(*                                                                         *)
(* kind says which writer runs and origin where the deposits are made.  The *)
(* process runs the EVM writers and the Terra one in turns, each waiting   *)
(* for the one before it, and the Solana one beside them; they share no    *)
(* state that a decision reads.  failures is that of the first EVM writer: *)
(* the errors of the others are logged and open no breaker.                *)
(* Clocks are left out: delays are steps that may come at any time.        *)
(***************************************************************************)
EXTENDS Naturals, FiniteSets

CONSTANTS
  Routes,       \* the kinds of source and destination chain to look at
  Honest,       \* withdrawals whose depositor pays on the source chain
  Fraud,        \* withdrawals that never get a deposit
  Rank,         \* [withdrawal -> the place of its account among the sorted ones]
  MaxAttempts,  \* MAX_APPROVAL_ATTEMPTS_PER_TICK of the Solana writer
  Threshold,    \* consecutive failures that open the circuit breaker
  Idle,         \* job: no withdrawal is being processed
  MaxRestarts   \* bound

Chains == {"evm", "terra", "solana"}

ASSUME WriterAssumption ==
  /\ Routes \subseteq [from : Chains, to : Chains]
  /\ Honest \cap Fraud = {}
  /\ Rank \in [Honest \cup Fraud -> Nat]
  /\ MaxAttempts \in Nat \ {0} /\ Threshold \in Nat \ {0} /\ MaxRestarts \in Nat

Hashes == Honest \cup Fraud
Jobs   == [hash : Hashes, step : {"verify", "send", "approving", "executing"}]

ASSUME IdleAssumption == Idle \notin Jobs

VARIABLES
  kind, origin,
  stage,     \* [hash -> the stage of the withdrawal on the destination chain]
  deposit,   \* [hash -> "none", "recent" or "final": its deposit on the source chain]
  reorged,   \* the deposits that a reorganisation of the source chain took back
  mempool,   \* the approvals sent whose fate the writer does not know
  approved_hashes, pending_executions,
  failures,  \* consecutive_evm_failures
  phase,     \* the part of process_pending that is running, or "rest"
  todo,      \* what that part has still to look at
  job,       \* the withdrawal that is being verified, approved or, EVM, executed
  receipt,   \* what became of the transaction that job waits for; "none" as yet
  lost,      \* the queue entries lost: evicted, or gone with a restart
  restarts

chains == <<stage, deposit, reorged, mempool>>
caches == <<approved_hashes, pending_executions>>
hand   == <<job, receipt>>
vars   == <<kind, origin, chains, caches, failures, phase, todo, hand, lost, restarts>>

Stages  == {"none", "submitted", "approved", "ripe", "cancelled", "executed"}
Vouched == {h \in Hashes : stage[h] \in Stages \ {"none", "submitted"}}
Submitted == {h \in Hashes : stage[h] = "submitted"}

\* A new writer remembers nothing.
NewWriter ==
  /\ approved_hashes = {} /\ pending_executions = {} /\ failures = 0
  /\ phase = "rest" /\ todo = {} /\ job = Idle /\ receipt = "none"

Init ==
  /\ \E r \in Routes : origin = r.from /\ kind = r.to
  /\ stage = [h \in Hashes |-> "none"] /\ deposit = [h \in Hashes |-> "none"]
  /\ reorged = {} /\ mempool = {}
  /\ NewWriter
  /\ lost = {} /\ restarts = 0

-------------------------------------------------------------------------------
(* The chains.                                                             *)

Moves(h, from, to) == stage[h] = from /\ stage' = [stage EXCEPT ![h] = to]

\* Users submit and execute, time ripens, a canceler cancels and an operator reinstates.
ChainMoves(h) ==
  /\ \/ Moves(h, "none", "submitted")
     \/ Moves(h, "ripe", "executed")
     \/ Moves(h, "approved", "cancelled")
     \/ Moves(h, "cancelled", "approved")
  /\ UNCHANGED <<kind, origin, deposit, reorged, mempool, caches, failures, phase, todo, hand, lost, restarts>>

\* The cancel window closes.
Ripen(h) ==
  /\ Moves(h, "approved", "ripe")
  /\ UNCHANGED <<kind, origin, deposit, reorged, mempool, caches, failures, phase, todo, hand, lost, restarts>>

\* Before it is final a deposit may be taken back, but for Terra, whose blocks are final.
Deposit(h) ==
  /\ h \in Honest
  /\ \/ deposit[h] = "none" /\ deposit' = [deposit EXCEPT ![h] = "recent"] /\ UNCHANGED reorged
     \/ deposit[h] = "recent" /\ deposit' = [deposit EXCEPT ![h] = "final"] /\ UNCHANGED reorged
     \/ /\ deposit[h] = "recent" /\ origin # "terra"
        /\ deposit' = [deposit EXCEPT ![h] = "none"] /\ reorged' = reorged \cup {h}
  /\ UNCHANGED <<kind, origin, stage, mempool, caches, failures, phase, todo, hand, lost, restarts>>

\* An approval that is still under way is included or dropped.
Land(h) ==
  /\ h \in mempool
  /\ mempool' = mempool \ {h}
  /\ \/ UNCHANGED stage
     \/ Moves(h, "submitted", "approved")
  /\ UNCHANGED <<kind, origin, deposit, reorged, caches, failures, phase, todo, hand, lost, restarts>>

-------------------------------------------------------------------------------
(* The poll loop.                                                          *)

Resting == job = Idle /\ todo = {}

\* Plausible defect: the breaker opens and the count goes on.
NeverCloses ==
  /\ phase = "rest" /\ kind # "solana"
  /\ phase' = "execute" /\ todo' = pending_executions
  /\ UNCHANGED <<kind, origin, chains, caches, failures, hand, lost, restarts>>

\* The breaker opens for a while and the count starts over.
BeginCycle ==
  /\ phase = "rest" /\ kind # "solana"
  /\ failures' = IF failures >= Threshold THEN 0 ELSE failures
  /\ phase' = "execute" /\ todo' = pending_executions
  /\ UNCHANGED <<kind, origin, chains, caches, hand, lost, restarts>>

\* The unapproved ones in the order of their accounts, up to the limit of a tick.
Candidates ==
  {h \in Submitted : Cardinality({g \in Submitted : Rank[g] < Rank[h]}) < MaxAttempts}

\* What the writer looks at of the chain's list: EVM drops the cancelled and executed
\* ones itself, the Terra and Solana lists come with their stages.
Listed ==
  CASE kind = "evm"    -> {h \in Hashes : stage[h] \in {"submitted", "approved", "ripe"}}
    [] kind = "terra"  -> Submitted
    [] kind = "solana" -> Candidates

\* The list cannot be read, or only some pages of it.
Poll ==
  /\ IF kind = "solana" THEN phase = "rest" ELSE phase = "execute" /\ Resting
  /\ phase' = "poll"
  /\ \E got \in SUBSET Listed : todo' = got
  /\ UNCHANGED <<kind, origin, chains, caches, failures, hand, lost, restarts>>

PollAll ==
  /\ IF kind = "solana" THEN phase = "rest" ELSE phase = "execute" /\ Resting
  /\ phase' = "poll" /\ todo' = Listed
  /\ UNCHANGED <<kind, origin, chains, caches, failures, hand, lost, restarts>>

\* Some submit events; a node behind the cursor is taken for a reset chain.
PollEvents ==
  /\ kind = "evm" /\ phase = "poll" /\ Resting
  /\ phase' = "events"
  /\ \E got \in SUBSET {h \in Hashes : stage[h] # "none"} : todo' = got
  /\ approved_hashes' \in {approved_hashes, {}}
  /\ UNCHANGED <<kind, origin, chains, pending_executions, failures, hand, lost, restarts>>

\* No node gives its block number: the one error that process_pending returns.
PollEventsFails ==
  /\ kind = "evm" /\ phase = "poll" /\ Resting
  /\ phase' = "rest" /\ failures' = failures + 1
  /\ UNCHANGED <<kind, origin, chains, caches, todo, hand, lost, restarts>>

EndCycle ==
  /\ phase = (IF kind = "evm" THEN "events" ELSE "poll") /\ Resting
  /\ phase' = "rest" /\ failures' = 0
  /\ UNCHANGED <<kind, origin, chains, caches, todo, hand, lost, restarts>>

-------------------------------------------------------------------------------
(* Approving.                                                              *)

Looks(h) == phase \in {"poll", "events"} /\ job = Idle /\ h \in todo

\* In the cache or, EVM, unreadable or no longer to be approved.
Skip(h) ==
  /\ Looks(h) /\ (h \in approved_hashes \/ kind = "evm")
  /\ todo' = todo \ {h}
  /\ UNCHANGED <<kind, origin, chains, caches, failures, phase, hand, lost, restarts>>

\* The EVM writer remembers an approval it finds on chain, without queueing it.
NoteApproved(h) ==
  /\ Looks(h) /\ kind = "evm" /\ h \in Vouched \ approved_hashes
  /\ todo' = todo \ {h}
  /\ approved_hashes' = approved_hashes \cup {h}
  /\ UNCHANGED <<kind, origin, chains, pending_executions, failures, phase, hand, lost, restarts>>

\* Only the EVM writer reads the withdrawal again.
Start(h) ==
  /\ Looks(h) /\ h \notin approved_hashes
  /\ kind = "evm" => h \in Submitted
  /\ todo' = todo \ {h} /\ job' = [hash |-> h, step |-> "verify"]
  /\ UNCHANGED <<kind, origin, chains, caches, failures, phase, receipt, lost, restarts>>

At(h, step) == job = [hash |-> h, step |-> step]

\* Plausible defect: a source chain that does not answer counts as a deposit.
VerifyFailsOpen(h) ==
  /\ At(h, "verify")
  /\ job' = [job EXCEPT !.step = "send"]
  /\ UNCHANGED <<kind, origin, chains, caches, failures, phase, todo, receipt, lost, restarts>>

\* getDeposit at the latest block; the DepositHash query at the latest block; the
\* account of the deposit at finalized commitment.
ShownOnEvm(h)    == origin = "evm" /\ deposit[h] # "none"
ShownOnTerra(h)  == origin = "terra" /\ deposit[h] # "none"
ShownOnSolana(h) == origin = "solana" /\ deposit[h] = "final"

\* Each writer knows the other chains; the EVM one also other EVM chains and its own.
EvmWriterSees(h)    == kind = "evm" /\ (ShownOnEvm(h) \/ ShownOnTerra(h) \/ ShownOnSolana(h))
TerraWriterSees(h)  == kind = "terra" /\ (ShownOnEvm(h) \/ ShownOnSolana(h))
SolanaWriterSees(h) == kind = "solana" /\ (ShownOnEvm(h) \/ ShownOnTerra(h))

Verify(h) ==
  /\ At(h, "verify")
  /\ EvmWriterSees(h) \/ TerraWriterSees(h) \/ SolanaWriterSees(h)
  /\ job' = [job EXCEPT !.step = "send"]
  /\ UNCHANGED <<kind, origin, chains, caches, failures, phase, todo, receipt, lost, restarts>>

\* No deposit, an unknown source chain, or no answer: the next cycle tries again.
VerifyFails(h) ==
  /\ At(h, "verify")
  /\ job' = Idle
  /\ UNCHANGED <<kind, origin, chains, caches, failures, phase, todo, receipt, lost, restarts>>

\* What an insertion may push out of the queue: entries past their time to live, or
\* the oldest of a full one.
Remember(h) ==
  IF kind = "solana" THEN UNCHANGED <<caches, lost>>
  ELSE /\ approved_hashes' = approved_hashes \cup {h}
       /\ \E out \in SUBSET (pending_executions \ {h}) :
            /\ pending_executions' = (pending_executions \ out) \cup {h}
            /\ lost' = lost \cup out

\* One approval is sent.  Terra signs it again if a node expects another sequence number;
\* that node did not take the transaction.
Sends(h) ==
  /\ At(h, "send") /\ job' = Idle
  /\ UNCHANGED <<kind, origin, deposit, reorged, failures, phase, todo, receipt, restarts>>

\* Terra and Solana: the approval is included while the writer waits.
SendLands(h) ==
  /\ Sends(h) /\ kind # "evm" /\ Moves(h, "submitted", "approved")
  /\ Remember(h)
  /\ UNCHANGED mempool

\* Sent, but not seen in a block, or the node's answer is lost: an error, except that for
\* Terra a node's word that it took the transaction is enough.
SendUnconfirmed(h) ==
  /\ Sends(h)
  /\ mempool' = mempool \cup {h}
  /\ UNCHANGED <<caches, lost>> \/ (kind = "terra" /\ Remember(h))
  /\ UNCHANGED stage

SendFails(h) ==
  /\ Sends(h)
  /\ UNCHANGED <<stage, mempool, caches, lost>>

\* EVM: the node takes the transaction, and the writer waits for its receipt.
SendAwaits(h) ==
  /\ At(h, "send") /\ kind = "evm"
  /\ job' = [job EXCEPT !.step = "approving"]
  /\ UNCHANGED <<kind, origin, chains, caches, failures, phase, todo, receipt, lost, restarts>>

-------------------------------------------------------------------------------
(* Executing.                                                              *)

Executes(h) == phase = "execute" /\ job = Idle /\ h \in todo /\ todo' = todo \ {h}

ExecuteLands(h) ==
  /\ Executes(h) /\ kind = "terra" /\ Moves(h, "ripe", "executed")
  /\ pending_executions' = pending_executions \ {h}
  /\ UNCHANGED <<kind, origin, deposit, reorged, mempool, approved_hashes, failures, phase, hand, lost, restarts>>

\* Plausible defect: an entry is tried once.
ExecutesOnce(h) ==
  /\ Executes(h)
  /\ pending_executions' = pending_executions \ {h}
  /\ UNCHANGED <<kind, origin, chains, approved_hashes, failures, phase, hand, lost, restarts>>

\* Its delay has not passed, or the attempt fails: the entry stays, whatever the reason.
ExecuteFails(h) ==
  /\ Executes(h)
  /\ UNCHANGED <<kind, origin, chains, caches, failures, phase, hand, lost, restarts>>

\* Terra: accepted by a node but not seen in a block counts as executed.
ExecuteUnconfirmed(h) ==
  /\ Executes(h) /\ kind = "terra"
  /\ pending_executions' = pending_executions \ {h}
  /\ lost' = lost \cup {h}
  /\ UNCHANGED <<kind, origin, chains, approved_hashes, failures, phase, hand, restarts>>

\* EVM: the delay has passed, the node takes the transaction, and the queue waits.
ExecuteAwaits(h) ==
  /\ Executes(h) /\ kind = "evm"
  /\ job' = [hash |-> h, step |-> "executing"]
  /\ UNCHANGED <<kind, origin, chains, caches, failures, phase, receipt, lost, restarts>>

-------------------------------------------------------------------------------
(* Receipts.                                                               *)

Awaits(h) == At(h, "approving") \/ At(h, "executing")

\* The transaction is included and succeeds.
Included(h) ==
  /\ receipt = "none" /\ receipt' = "success"
  /\ \/ At(h, "approving") /\ Moves(h, "submitted", "approved")
     \/ At(h, "executing") /\ Moves(h, "ripe", "executed")
  /\ UNCHANGED <<kind, origin, deposit, reorged, mempool, caches, failures, phase, todo, job, lost,
                 restarts>>

\* It reverts; or it is dropped or replaced, and no receipt will come.
Unsuccessful(h) ==
  /\ Awaits(h) /\ receipt = "none"
  /\ receipt' \in {"reverted", "dropped"}
  /\ UNCHANGED <<kind, origin, chains, caches, failures, phase, todo, job, lost, restarts>>

\* The writer has its receipt.
Receives(h) ==
  /\ receipt \in {"success", "reverted"} /\ receipt' = "none" /\ job' = Idle
  /\ UNCHANGED <<kind, origin, chains, failures, phase, todo, restarts>>

\* Plausible defect: a receipt counts as an approval, whatever its status.
TrustsAnyReceipt(h) == At(h, "approving") /\ Receives(h) /\ Remember(h)

ApprovalReceipt(h) ==
  /\ At(h, "approving") /\ Receives(h)
  /\ IF receipt = "success" THEN Remember(h) ELSE UNCHANGED <<caches, lost>>

ExecutionReceipt(h) ==
  /\ At(h, "executing") /\ Receives(h)
  /\ pending_executions' = IF receipt = "success" THEN pending_executions \ {h} ELSE pending_executions
  /\ UNCHANGED <<approved_hashes, lost>>

\* The node answers with an error, at any time: what was sent may still land.
ReceiptError(h) ==
  /\ Awaits(h)
  /\ mempool' = IF At(h, "approving") /\ receipt = "none" THEN mempool \cup {h} ELSE mempool
  /\ receipt' = "none" /\ job' = Idle
  /\ UNCHANGED <<kind, origin, stage, deposit, reorged, caches, failures, phase, todo, lost, restarts>>

-------------------------------------------------------------------------------
(* Memory.                                                                 *)

\* Plausible defect: entries have no time to live.
NeverAges(h) == h \in approved_hashes /\ UNCHANGED vars

Age(h) ==
  /\ h \in approved_hashes
  /\ approved_hashes' = approved_hashes \ {h}
  /\ UNCHANGED <<kind, origin, chains, pending_executions, failures, phase, todo, hand, lost, restarts>>

\* At any await; an approval may just have been sent.
Restart ==
  /\ restarts < MaxRestarts /\ restarts' = restarts + 1
  /\ approved_hashes' = {} /\ pending_executions' = {} /\ lost' = lost \cup pending_executions
  /\ mempool' \in {mempool, mempool \cup
                            {h \in Hashes : At(h, "send") \/ (At(h, "approving") /\ receipt = "none")}}
  /\ failures' = 0 /\ phase' = "rest" /\ todo' = {} /\ job' = Idle /\ receipt' = "none"
  /\ UNCHANGED <<kind, origin, stage, deposit, reorged>>

-------------------------------------------------------------------------------
Cycle == Poll \/ PollEvents \/ PollEventsFails \/ EndCycle

Process(h) ==
  \/ Skip(h) \/ NoteApproved(h) \/ Start(h)
  \/ Verify(h) \/ VerifyFails(h)
  \/ SendLands(h) \/ SendUnconfirmed(h) \/ SendFails(h) \/ SendAwaits(h)
  \/ ExecuteLands(h) \/ ExecuteFails(h) \/ ExecuteUnconfirmed(h) \/ ExecuteAwaits(h)
  \/ ApprovalReceipt(h) \/ ExecutionReceipt(h)

Environment(h) ==
  \/ ChainMoves(h) \/ Ripen(h) \/ Deposit(h) \/ Land(h) \/ Included(h) \/ Unsuccessful(h)
  \/ ReceiptError(h) \/ Age(h)

\* What the writer does of its own accord, once its turn has come.
Step == Cycle \/ \E h \in Hashes : Process(h)
Next == BeginCycle \/ Step \/ (\E h \in Hashes : Environment(h)) \/ Restart

\* The process goes on with what it has begun and what was answered; windows close and
\* cache entries age; lists, calls and transactions that are tried again and again succeed
\* at last.  Nothing makes the turn of a writer come, nor a receipt or an error in its
\* place.  (Where Terra and Solana wait, the EVM writer sends and is included.)
Fairness ==
  /\ WF_vars(Step) /\ SF_vars(PollAll)
  /\ \A h \in Honest :
       /\ WF_vars(Ripen(h)) /\ WF_vars(Age(h))
       /\ SF_vars(Start(h)) /\ SF_vars(Verify(h)) /\ SF_vars(SendLands(h) \/ SendAwaits(h))
       /\ SF_vars(ExecuteLands(h) \/ ExecuteAwaits(h)) /\ SF_vars(Included(h))

Spec == Init /\ [][Next]_vars /\ Fairness
===============================================================================
