------------------------- MODULE OperatorWriterSafety -------------------------
(***************************************************************************)
(* What a writer of the operator may approve, what its memory may claim,   *)
(* and that it neither forgets a withdrawal with a deposit nor gives up    *)
(* one it has queued for execution.                                        *)
(***************************************************************************)
EXTENDS OperatorWriter

\* Types; the queue and the breaker belong to the writers that have them.
TypeOK ==
  /\ kind \in Chains /\ origin \in Chains
  /\ stage \in [Hashes -> Stages]
  /\ deposit \in [Hashes -> {"none", "recent", "final"}]
  /\ reorged \subseteq Honest /\ mempool \subseteq Hashes
  /\ approved_hashes \subseteq Hashes /\ pending_executions \subseteq Hashes
  /\ failures \in 0..Threshold
  /\ phase \in {"rest", "execute", "poll", "events"}
  /\ todo \subseteq Hashes
  /\ job \in {Idle} \cup Jobs /\ receipt \in {"none", "success", "reverted", "dropped"}
  /\ lost \subseteq Hashes /\ restarts \in 0..MaxRestarts
  /\ kind = "solana" => approved_hashes \cup pending_executions = {}
  /\ kind # "evm" => failures = 0

\* Nothing is approved, nor on its way to be, without a deposit, but for deposits on an
\* EVM chain that a reorganisation took back after they were verified: there the writers
\* read the latest state, before finality.  What Solana takes back was never approved.
ApprovalsBacked ==
  \A h \in Vouched \cup mempool \cup {g \in Hashes : At(g, "approving")} :
    deposit[h] = "none" => h \in reorged /\ origin = "evm"

\* What the EVM writer remembers as approved or queues for execution an operator did
\* approve, whatever transactions lost their receipt, nodes lagged or restarts came
\* between: a false entry would hide a withdrawal for a day.
MemoryTruthful ==
  kind = "evm" => approved_hashes \cup pending_executions \subseteq Vouched

\* The Solana writer tries the first few unapproved accounts only: as many without a
\* deposit, sorted before this one, keep it out.
Starved(h) ==
  kind = "solana" /\
    Cardinality({g \in Submitted : Rank[g] < Rank[h] /\ deposit[g] = "none"}) >= MaxAttempts

\* Terra and Solana have one bridge each: nothing is sent from such a chain to itself.
Routed == origin = "evm" \/ origin # kind

\* The writer's turn comes, and it does not wait for a receipt.
Attends == phase # "rest" /\ \A h \in Hashes : ~Awaits(h)

\* As long as the writer is not kept from its work for ever, by a receipt that never comes
\* or by the writers before it: a submitted withdrawal whose deposit is final is approved
\* at last, through failed calls, dropped and reverted approvals, restarts and false
\* memories, unless starved.
HonestApproved ==
  \A h \in Honest :
    []<>Attends =>
      (h \in Submitted /\ deposit[h] = "final" /\ Routed ~> h \notin Submitted \/ Starved(h))

\* Likewise, an approved withdrawal in the queue is executed or cancelled at last, however
\* often the attempts fail, unless its entry was lost.  (A Terra entry may be queued without
\* an approval: only a repeated one brings it on.)
QueuedSettles ==
  \A h \in Honest :
    []<>Attends =>
      (h \in pending_executions /\ h \in Vouched ~>
         stage[h] \in {"cancelled", "executed"} \/ h \in lost)
===============================================================================
