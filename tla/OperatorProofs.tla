---------------------------- MODULE OperatorProofs ----------------------------
(***************************************************************************)
(* The operator, for every set of withdrawals, every kind of chain, any    *)
(* number of endpoints and faults: nothing is approved without a deposit   *)
(* but what a reorganisation took back, the memory of the EVM writer is    *)
(* truthful, and the tables of deposits are what the chain holds; a name   *)
(* stands for one transfer, and a row is marked for its own approval.      *)
(***************************************************************************)
EXTENDS OperatorWriterSafety, DepositWatcherSafety, DepositRows, SequenceTheorems, TLAPS

(***************************************************************************)
(* Approving.                                                              *)
(***************************************************************************)
\* What is on its way to an approval: the job past its verification, or in the mempool.
Committed(h) == h \in Vouched \cup mempool \/ At(h, "send") \/ At(h, "approving")

\* Verification puts a deposit behind everything committed: on Solana a final one, on
\* Terra one that stays; only on an EVM chain may a reorganisation take it away.
BackedBy(h) ==
  /\ origin = "solana" => deposit[h] = "final"
  /\ deposit[h] = "none" => h \in reorged /\ origin = "evm"

Backed == \A h \in Hashes : Committed(h) => BackedBy(h)

\* A cycle begins with the breaker closed.
BreakerClosed == phase # "rest" => failures < Threshold

\* Only a transaction that is waited for has a receipt, and only an approval that took
\* place a successful one.
Receipted ==
  /\ job = Idle => receipt = "none"
  /\ \A h \in Hashes :
       /\ At(h, "verify") \/ At(h, "send") => receipt = "none"
       /\ At(h, "approving") /\ receipt = "success" => h \in Vouched

IInv == TypeOK /\ BreakerClosed /\ Backed /\ Receipted /\ MemoryTruthful

\* Jobs differ with their withdrawals and steps, and Idle is none.
LEMMA JobsDiffer ==
  /\ \A h, g, s, t : [hash |-> h, step |-> s] = [hash |-> g, step |-> t] => h = g /\ s = t
  /\ \A h \in Hashes : \A s \in {"verify", "send", "approving", "executing"} :
       [hash |-> h, step |-> s] \in Jobs /\ Idle # [hash |-> h, step |-> s]
<1>1. ASSUME NEW h, NEW g, NEW s, NEW t, [hash |-> h, step |-> s] = [hash |-> g, step |-> t]
      PROVE  h = g /\ s = t
  <2>1. /\ [hash |-> h, step |-> s].hash = [hash |-> g, step |-> t].hash
        /\ [hash |-> h, step |-> s].step = [hash |-> g, step |-> t].step
    BY <1>1
  <2> QED
    BY <2>1
<1>2. ASSUME NEW h \in Hashes, NEW s \in {"verify", "send", "approving", "executing"}
      PROVE  [hash |-> h, step |-> s] \in Jobs /\ Idle # [hash |-> h, step |-> s]
  <2>1. [hash |-> h, step |-> s] \in Jobs
    BY DEF Jobs
  <2> QED
    BY <2>1, IdleAssumption
<1> QED
  BY <1>1, <1>2

\* A job is at one step of one withdrawal, and Idle at none.
LEMMA AtOne == \A h, g, s, t : At(h, s) /\ At(g, t) => h = g /\ s = t
  BY JobsDiffer DEF At

LEMMA AtNone ==
  job = Idle => \A h \in Hashes : ~At(h, "verify") /\ ~At(h, "send") /\ ~At(h, "approving")
  BY JobsDiffer DEF At

LEMMA AtNoneNext ==
  job' = Idle => \A h \in Hashes : ~At(h, "verify")' /\ ~At(h, "send")' /\ ~At(h, "approving")'
  BY JobsDiffer DEF At

LEMMA AtNext ==
  ASSUME NEW h \in Hashes, NEW s \in {"verify", "send", "approving", "executing"},
         job' = [hash |-> h, step |-> s]
  PROVE  job' \in Jobs /\ At(h, s)' /\ \A g, t : At(g, t)' => g = h /\ t = s
  BY JobsDiffer DEF At

LEMMA InitIInv == Init => IInv
<1> SUFFICES ASSUME Init PROVE IInv
  OBVIOUS
<1>1. \A h \in Hashes : ~At(h, "verify") /\ ~At(h, "send") /\ ~At(h, "approving")
  BY AtNone DEF Init, NewWriter
<1> QED
  BY <1>1, WriterAssumption
  DEF Init, NewWriter, IInv, TypeOK, BreakerClosed, Backed, BackedBy, Receipted, MemoryTruthful, Committed,
      Vouched, Stages

\* Once vouched for, always vouched for: no move leads back.
LEMMA MovesKeepVouched ==
  ASSUME TypeOK, NEW h \in Hashes, NEW before \in Stages, NEW after \in Stages, Moves(h, before, after),
         before \in Stages \ {"none", "submitted"} => after \in Stages \ {"none", "submitted"}
  PROVE  /\ stage' \in [Hashes -> Stages]
         /\ Vouched \subseteq Vouched'
         /\ Vouched' \subseteq Vouched \cup {h}
         /\ after \in {"none", "submitted"} => Vouched' = Vouched
         /\ before \in Stages \ {"none", "submitted"} => Vouched' = Vouched
  BY DEF Moves, Vouched, TypeOK

(***************************************************************************)
(* The chains                                                              *)
(***************************************************************************)
LEMMA ChainStep ==
  ASSUME IInv, NEW h \in Hashes, ChainMoves(h) \/ Ripen(h)
  PROVE  IInv'
<1>1. PICK before \in Stages, after \in Stages :
        /\ Moves(h, before, after)
        /\ after = "submitted" \/ before \in Stages \ {"none", "submitted"}
        /\ before \in Stages \ {"none", "submitted"} => after \in Stages \ {"none", "submitted"}
  BY DEF ChainMoves, Ripen, Stages
<1>2. stage' \in [Hashes -> Stages] /\ Vouched' = Vouched
  BY <1>1, MovesKeepVouched DEF IInv
<1>3. UNCHANGED <<kind, origin, deposit, reorged, mempool, caches, failures, phase, todo,
                  hand, lost, restarts>>
  BY DEF ChainMoves, Ripen
<1> QED
  BY <1>2, <1>3
  DEF IInv, TypeOK, BreakerClosed, Backed, BackedBy, Receipted, MemoryTruthful, Committed, At, caches, hand

LEMMA DepositStep ==
  ASSUME IInv, NEW h \in Hashes, Deposit(h)
  PROVE  IInv'
<1>1. /\ deposit' \in [Hashes -> {"none", "recent", "final"}] /\ reorged' \subseteq Honest
      /\ reorged \subseteq reorged'
  BY DEF Deposit, IInv, TypeOK
<1>2. ASSUME NEW g \in Hashes PROVE BackedBy(g) => BackedBy(g)'
  BY DEF Deposit, IInv, TypeOK, BackedBy, Chains
<1>3. UNCHANGED <<kind, origin, stage, mempool, caches, failures, phase, todo, hand, lost,
                  restarts>>
  BY DEF Deposit
<1> QED
  BY <1>1, <1>2, <1>3
  DEF IInv, TypeOK, BreakerClosed, Backed, Receipted, MemoryTruthful, Committed, Vouched, At, caches, hand

LEMMA LandStep ==
  ASSUME IInv, NEW h \in Hashes, Land(h)
  PROVE  IInv'
<1>1. /\ stage' \in [Hashes -> Stages]
      /\ Vouched \subseteq Vouched'
      /\ Vouched' \subseteq Vouched \cup {h}
  <2>1. CASE UNCHANGED stage
    BY <2>1 DEF Vouched, IInv, TypeOK
  <2>2. CASE Moves(h, "submitted", "approved")
    BY <2>2, MovesKeepVouched DEF IInv, Stages
  <2> QED
    BY <2>1, <2>2 DEF Land
<1>2. /\ h \in mempool /\ mempool' = mempool \ {h}
      /\ UNCHANGED <<kind, origin, deposit, reorged, caches, failures, phase, todo, hand,
                     lost, restarts>>
  BY DEF Land
<1> QED
  BY <1>1, <1>2
  DEF IInv, TypeOK, BreakerClosed, Backed, BackedBy, Receipted, MemoryTruthful, Committed, At, caches, hand

(***************************************************************************)
(* The poll loop                                                           *)
(***************************************************************************)
LEMMA CycleStep == IInv /\ (BeginCycle \/ Cycle) => IInv'
<1> SUFFICES ASSUME IInv, BeginCycle \/ Cycle PROVE IInv'
  OBVIOUS
<1> USE DEF IInv, TypeOK, BreakerClosed, Backed, BackedBy, Receipted, MemoryTruthful, Committed,
            Vouched, At, caches, hand, chains
<1>0. Threshold \in Nat \ {0}
  BY WriterAssumption
<1>1. CASE BeginCycle
  BY <1>0, <1>1 DEF BeginCycle
<1>2. CASE Poll
  <2>1. Listed \subseteq Hashes
    BY WriterAssumption DEF Listed, Candidates, Submitted, Chains
  <2>2. failures < Threshold
    BY <1>0, <1>2 DEF Poll
  <2> QED
    BY <1>2, <2>1, <2>2 DEF Poll
<1>3. CASE PollEvents
  BY <1>3 DEF PollEvents
<1>4. CASE PollEventsFails
  BY <1>0, <1>4 DEF PollEventsFails
<1>5. CASE EndCycle
  BY <1>0, <1>5 DEF EndCycle
<1> QED
  BY <1>1, <1>2, <1>3, <1>4, <1>5 DEF Cycle

(***************************************************************************)
(* Approving                                                               *)
(***************************************************************************)
\* A step that only moves the job: a new one that is on its way to an approval is backed.
LEMMA JobMoves ==
  ASSUME IInv, UNCHANGED <<kind, origin, chains, caches, failures, phase, lost, restarts>>,
         todo' \subseteq todo, receipt' = "none", job' \in {Idle} \cup Jobs,
         \A g \in Hashes : At(g, "send")' \/ At(g, "approving")' => BackedBy(g)
  PROVE  IInv'
<1>1. TypeOK' /\ BreakerClosed' /\ MemoryTruthful' /\ Receipted'
  BY DEF IInv, TypeOK, BreakerClosed, MemoryTruthful, Receipted, Vouched, chains, caches
<1>2. Backed'
  BY DEF IInv, TypeOK, Backed, BackedBy, Committed, Vouched, chains
<1> QED
  BY <1>1, <1>2 DEF IInv

\* Passing over a withdrawal, noting its approval and starting on it.
LEMMA LookStep ==
  ASSUME IInv, NEW h \in Hashes, Skip(h) \/ NoteApproved(h) \/ Start(h)
  PROVE  IInv'
<1>1. CASE Skip(h)
  BY <1>1
  DEF Skip, Looks, At, IInv, TypeOK, BreakerClosed, Backed, BackedBy, Receipted, MemoryTruthful,
      Committed, Vouched, caches, hand, chains
<1>2. CASE NoteApproved(h)
  BY <1>2
  DEF NoteApproved, Looks, At, IInv, TypeOK, BreakerClosed, Backed, BackedBy, Receipted,
      MemoryTruthful, Committed, Vouched, caches, hand, chains
<1>3. CASE Start(h)
  <2>1. /\ job = Idle /\ job' = [hash |-> h, step |-> "verify"] /\ todo' \subseteq todo
        /\ UNCHANGED <<kind, origin, chains, caches, failures, phase, receipt, lost, restarts>>
    BY <1>3 DEF Start, Looks, chains, caches
  <2>2. job' \in Jobs /\ \A g \in Hashes : ~At(g, "send")' /\ ~At(g, "approving")'
    BY <2>1, AtNext
  <2>3. receipt' = "none"
    BY <2>1 DEF IInv, Receipted
  <2> QED
    BY <2>1, <2>2, <2>3, JobMoves
<1> QED
  BY <1>1, <1>2, <1>3

\* A successful verification finds a deposit; the EVM writer then waits for its approval.
LEMMA VerifyStep ==
  ASSUME IInv, NEW h \in Hashes, Verify(h) \/ VerifyFails(h) \/ SendFails(h) \/ SendAwaits(h)
  PROVE  IInv'
<1>1. /\ UNCHANGED <<kind, origin, chains, caches, failures, phase, todo, receipt, lost, restarts>>
      /\ At(h, "verify") \/ At(h, "send")
  BY DEF Verify, VerifyFails, SendFails, SendAwaits, Sends, chains
<1>2. receipt' = "none"
  BY <1>1 DEF IInv, Receipted
<1>3. CASE Verify(h)
  <2>1. job' = [hash |-> h, step |-> "send"]
    BY <1>3 DEF Verify, At
  <2>2. BackedBy(h)
    BY <1>3 DEF Verify, EvmWriterSees, TerraWriterSees, SolanaWriterSees, ShownOnEvm,
                ShownOnTerra, ShownOnSolana, BackedBy
  <2>3. /\ job' \in Jobs
        /\ \A g \in Hashes : (At(g, "send")' => g = h) /\ ~At(g, "approving")'
    BY <2>1, AtNext
  <2> QED
    BY <1>1, <1>2, <2>2, <2>3, JobMoves
<1>4. CASE SendAwaits(h)
  <2>1. At(h, "send") /\ job' = [hash |-> h, step |-> "approving"]
    BY <1>4 DEF SendAwaits, At
  <2>2. BackedBy(h)
    BY <2>1 DEF IInv, Backed, Committed
  <2>3. /\ job' \in Jobs
        /\ \A g \in Hashes : ~At(g, "send")' /\ (At(g, "approving")' => g = h)
    BY <2>1, AtNext
  <2> QED
    BY <1>1, <1>2, <2>2, <2>3, JobMoves
<1>5. CASE job' = Idle
  <2>1. \A g \in Hashes : ~At(g, "send")' /\ ~At(g, "approving")'
    BY <1>5, AtNoneNext
  <2> QED
    BY <1>1, <1>2, <1>5, <2>1, JobMoves
<1> QED
  BY <1>3, <1>4, <1>5 DEF VerifyFails, SendFails, Sends

LEMMA RememberTyped ==
  ASSUME TypeOK, NEW h \in Hashes, Remember(h)
  PROVE  /\ approved_hashes' \subseteq approved_hashes \cup {h}
         /\ pending_executions' \subseteq pending_executions \cup {h}
         /\ lost' \subseteq Hashes
         /\ kind = "solana" => approved_hashes' \cup pending_executions' = {}
  BY DEF Remember, TypeOK, caches

LEMMA SendStep ==
  ASSUME IInv, NEW h \in Hashes, SendLands(h) \/ SendUnconfirmed(h)
  PROVE  IInv'
<1>1. /\ At(h, "send") /\ job' = Idle
      /\ UNCHANGED <<kind, origin, deposit, reorged, failures, phase, todo, receipt, restarts>>
  BY DEF SendLands, SendUnconfirmed, Sends
<1>2. \A g \in Hashes : ~At(g, "verify")' /\ ~At(g, "send")' /\ ~At(g, "approving")'
  BY <1>1, AtNoneNext
<1>3. receipt' = "none"
  BY <1>1 DEF IInv, Receipted
<1>4. CASE SendLands(h)
  <2>1. /\ stage' \in [Hashes -> Stages] /\ Vouched \subseteq Vouched'
        /\ Vouched' \subseteq Vouched \cup {h} /\ h \in Vouched'
    <3>1. Moves(h, "submitted", "approved")
      BY <1>4 DEF SendLands
    <3>2. h \in Vouched'
      BY <3>1 DEF Moves, Vouched, IInv, TypeOK, Stages
    <3> QED
      BY <3>1, <3>2, MovesKeepVouched DEF IInv, Stages
  <2>2. Remember(h) /\ UNCHANGED mempool
    BY <1>4 DEF SendLands
  <2> QED
    BY <1>1, <1>2, <1>3, <2>1, <2>2, RememberTyped
    DEF IInv, TypeOK, BreakerClosed, Backed, BackedBy, Receipted, MemoryTruthful, Committed
<1>5. CASE SendUnconfirmed(h)
  <2>1. mempool' = mempool \cup {h} /\ UNCHANGED stage
    BY <1>5 DEF SendUnconfirmed
  <2>2. /\ approved_hashes' \subseteq approved_hashes \cup {h}
        /\ pending_executions' \subseteq pending_executions \cup {h}
        /\ lost' \subseteq Hashes
        /\ kind = "solana" => approved_hashes' \cup pending_executions' = {}
        /\ kind = "evm" => UNCHANGED caches
    <3>1. CASE kind = "terra" /\ Remember(h)
      BY <3>1, RememberTyped DEF IInv
    <3>2. CASE UNCHANGED <<caches, lost>>
      BY <3>2 DEF IInv, TypeOK, caches
    <3> QED
      BY <1>5, <3>1, <3>2 DEF SendUnconfirmed
  <2> QED
    BY <1>1, <1>2, <1>3, <2>1, <2>2
    DEF IInv, TypeOK, BreakerClosed, Backed, BackedBy, Receipted, MemoryTruthful, Committed, Vouched,
        caches
<1> QED
  BY <1>4, <1>5

(***************************************************************************)
(* Executing and receipts                                                  *)
(***************************************************************************)
LEMMA ExecuteStep ==
  ASSUME IInv, NEW h \in Hashes, ExecuteLands(h) \/ ExecuteFails(h) \/ ExecuteUnconfirmed(h)
  PROVE  IInv'
<1>1. CASE ExecuteLands(h)
  <2>1. stage' \in [Hashes -> Stages] /\ Vouched' = Vouched
    <3>1. Moves(h, "ripe", "executed")
      BY <1>1 DEF ExecuteLands
    <3> QED
      BY <3>1, MovesKeepVouched DEF IInv, Stages
  <2> QED
    BY <1>1, <2>1
    DEF ExecuteLands, Executes, hand, IInv, TypeOK, BreakerClosed, Backed, BackedBy, Receipted,
        MemoryTruthful, Committed, At
<1>2. CASE ExecuteFails(h)
  BY <1>2 DEF ExecuteFails, Executes, chains, caches, hand, IInv, TypeOK, BreakerClosed, Backed,
              BackedBy, Receipted, MemoryTruthful, Committed, Vouched, At
<1>3. CASE ExecuteUnconfirmed(h)
  BY <1>3 DEF ExecuteUnconfirmed, Executes, chains, hand, IInv, TypeOK, BreakerClosed, Backed,
              BackedBy, Receipted, MemoryTruthful, Committed, Vouched, At
<1> QED
  BY <1>1, <1>2, <1>3

LEMMA ExecuteAwaitsStep ==
  ASSUME IInv, NEW h \in Hashes, ExecuteAwaits(h)
  PROVE  IInv'
<1>1. /\ job = Idle /\ job' = [hash |-> h, step |-> "executing"] /\ todo' \subseteq todo
      /\ UNCHANGED <<kind, origin, chains, caches, failures, phase, receipt, lost, restarts>>
  BY DEF ExecuteAwaits, Executes
<1>2. job' \in Jobs /\ \A g \in Hashes : ~At(g, "send")' /\ ~At(g, "approving")'
  BY <1>1, AtNext
<1>3. receipt' = "none"
  BY <1>1 DEF IInv, Receipted
<1> QED
  BY <1>1, <1>2, <1>3, JobMoves

\* What is included was on its way to its approval, or is executed.
LEMMA IncludedStep ==
  ASSUME IInv, NEW h \in Hashes, Included(h)
  PROVE  IInv'
<1>1. /\ receipt' = "success"
      /\ UNCHANGED <<kind, origin, deposit, reorged, mempool, caches, failures, phase, todo, job, lost,
                     restarts>>
  BY DEF Included
<1>2. /\ At(h, "approving") \/ At(h, "executing")
      /\ stage' \in [Hashes -> Stages] /\ Vouched \subseteq Vouched'
      /\ Vouched' \subseteq Vouched \cup {h}
      /\ Vouched' = Vouched \/ (At(h, "approving") /\ h \in Vouched')
      /\ At(h, "approving") => h \in Vouched'
  <2>1. CASE At(h, "approving") /\ Moves(h, "submitted", "approved")
    <3>1. h \in Vouched'
      BY <2>1 DEF Moves, Vouched, IInv, TypeOK, Stages
    <3> QED
      BY <2>1, <3>1, MovesKeepVouched DEF IInv, Stages
  <2>2. CASE At(h, "executing") /\ Moves(h, "ripe", "executed")
    <3>1. stage' \in [Hashes -> Stages] /\ Vouched' = Vouched
      BY <2>2, MovesKeepVouched DEF IInv, Stages
    <3>2. ~At(h, "approving")
      BY <2>2, AtOne
    <3> QED
      BY <2>2, <3>1, <3>2
  <2> QED
    BY <2>1, <2>2 DEF Included
<1>3. \A g, s : At(g, s) => g = h /\ s \notin {"verify", "send"}
  BY <1>2, AtOne
<1>4. job # Idle
  BY <1>2, JobsDiffer DEF At
<1>5. \A g, s : At(g, s)' <=> At(g, s)
  BY <1>1 DEF At
<1>6. TypeOK' /\ BreakerClosed' /\ MemoryTruthful'
  BY <1>1, <1>2 DEF IInv, TypeOK, BreakerClosed, MemoryTruthful, caches
<1>7. Receipted'
  BY <1>1, <1>2, <1>3, <1>4, <1>5 DEF Receipted
<1>8. Backed'
  BY <1>1, <1>2, <1>5 DEF IInv, Backed, BackedBy, Committed
<1> QED
  BY <1>6, <1>7, <1>8 DEF IInv

LEMMA UnsuccessfulStep ==
  ASSUME IInv, NEW h \in Hashes, Unsuccessful(h)
  PROVE  IInv'
<1>1. /\ At(h, "approving") \/ At(h, "executing")
      /\ receipt' \in {"reverted", "dropped"}
      /\ UNCHANGED <<kind, origin, chains, caches, failures, phase, todo, job, lost, restarts>>
  BY DEF Unsuccessful, Awaits
<1>2. job # Idle /\ \A g \in Hashes : ~At(g, "verify") /\ ~At(g, "send")
  <2>1. job # Idle
    BY <1>1, JobsDiffer DEF At
  <2>2. \A g \in Hashes : ~At(g, "verify") /\ ~At(g, "send")
    BY <1>1, AtOne
  <2> QED
    BY <2>1, <2>2
<1> QED
  BY <1>1, <1>2
  DEF IInv, TypeOK, BreakerClosed, Backed, BackedBy, Receipted, MemoryTruthful, Committed, Vouched,
      At, chains, caches

\* A receipt is remembered if it is that of an approval that took place.
LEMMA ReceiptStep ==
  ASSUME IInv, NEW h \in Hashes, ApprovalReceipt(h) \/ ExecutionReceipt(h)
  PROVE  IInv'
<1>1. /\ job' = Idle /\ receipt' = "none"
      /\ UNCHANGED <<kind, origin, chains, failures, phase, todo, restarts>>
  BY DEF ApprovalReceipt, ExecutionReceipt, Receives
<1>2. \A g \in Hashes : ~At(g, "verify")' /\ ~At(g, "send")' /\ ~At(g, "approving")'
  BY <1>1, AtNoneNext
<1>3. /\ approved_hashes' \subseteq Hashes /\ pending_executions' \subseteq Hashes
      /\ lost' \subseteq Hashes
      /\ kind = "solana" => approved_hashes' \cup pending_executions' = {}
      /\ kind = "evm" => approved_hashes' \cup pending_executions' \subseteq Vouched
  <2>1. CASE At(h, "approving") /\ receipt = "success" /\ Remember(h)
    BY <2>1, RememberTyped DEF IInv, TypeOK, Receipted, MemoryTruthful
  <2>2. CASE UNCHANGED <<caches, lost>>
    BY <2>2 DEF IInv, TypeOK, MemoryTruthful, caches
  <2>3. CASE /\ pending_executions' \in {pending_executions, pending_executions \ {h}}
             /\ UNCHANGED <<approved_hashes, lost>>
    BY <2>3 DEF IInv, TypeOK, MemoryTruthful
  <2> QED
    BY <2>1, <2>2, <2>3 DEF ApprovalReceipt, ExecutionReceipt
<1> QED
  BY <1>1, <1>2, <1>3
  DEF IInv, TypeOK, BreakerClosed, Backed, BackedBy, Receipted, MemoryTruthful, Committed, Vouched, chains

LEMMA ReceiptErrorStep ==
  ASSUME IInv, NEW h \in Hashes, ReceiptError(h)
  PROVE  IInv'
<1>1. /\ job' = Idle /\ receipt' = "none"
      /\ mempool' \subseteq Hashes
      /\ \A g \in mempool' : g \in mempool \/ (g = h /\ At(h, "approving"))
      /\ UNCHANGED <<kind, origin, stage, deposit, reorged, caches, failures, phase, todo, lost, restarts>>
  BY DEF ReceiptError, IInv, TypeOK
<1>2. \A g \in Hashes : ~At(g, "verify")' /\ ~At(g, "send")' /\ ~At(g, "approving")'
  BY <1>1, AtNoneNext
<1> QED
  BY <1>1, <1>2
  DEF IInv, TypeOK, BreakerClosed, Backed, BackedBy, Receipted, MemoryTruthful, Committed, Vouched, caches

(***************************************************************************)
(* Ageing and restarting                                                   *)
(***************************************************************************)
LEMMA AgeStep ==
  ASSUME IInv, NEW h \in Hashes, Age(h)
  PROVE  IInv'
  BY DEF Age, chains, hand, IInv, TypeOK, BreakerClosed, Backed, BackedBy, Receipted, MemoryTruthful,
         Committed, Vouched, At

\* A restart forgets the job, but the transaction may be out already.
LEMMA RestartStep == IInv /\ Restart => IInv'
<1> SUFFICES ASSUME IInv, Restart PROVE IInv'
  OBVIOUS
<1>1. /\ mempool' \subseteq Hashes
      /\ \A h \in Hashes : h \in mempool' => h \in mempool \/ At(h, "send") \/ At(h, "approving")
  BY DEF Restart, IInv, TypeOK
<1>2. /\ approved_hashes' = {} /\ pending_executions' = {} /\ lost' = lost \cup pending_executions
      /\ failures' = 0 /\ phase' = "rest" /\ todo' = {} /\ job' = Idle /\ receipt' = "none"
      /\ restarts' = restarts + 1 /\ restarts < MaxRestarts
      /\ UNCHANGED <<kind, origin, stage, deposit, reorged>>
  BY DEF Restart
<1>3. restarts' \in 0..MaxRestarts /\ failures' \in 0..Threshold
  BY <1>2, WriterAssumption DEF IInv, TypeOK
<1>4. \A h \in Hashes : ~At(h, "verify")' /\ ~At(h, "send")' /\ ~At(h, "approving")'
  BY <1>2, AtNoneNext
<1> QED
  BY <1>1, <1>2, <1>3, <1>4
  DEF IInv, TypeOK, BreakerClosed, Backed, BackedBy, Receipted, MemoryTruthful, Committed, Vouched

\* Every step keeps the inductive invariant.
LEMMA StepIInv == IInv /\ [Next]_vars => IInv'
<1> SUFFICES ASSUME IInv, [Next]_vars PROVE IInv'
  OBVIOUS
<1>1. CASE BeginCycle \/ Cycle
  BY <1>1, CycleStep
<1>2. ASSUME NEW h \in Hashes, Process(h) PROVE IInv'
  BY <1>2, LookStep, VerifyStep, SendStep, ExecuteStep, ExecuteAwaitsStep, ReceiptStep DEF Process
<1>3. ASSUME NEW h \in Hashes, Environment(h) PROVE IInv'
  BY <1>3, ChainStep, DepositStep, LandStep, IncludedStep, UnsuccessfulStep, ReceiptErrorStep, AgeStep
  DEF Environment
<1>4. CASE Restart
  BY <1>4, RestartStep
<1>5. CASE UNCHANGED vars
  BY <1>5 DEF vars, chains, caches, hand, IInv, TypeOK, BreakerClosed, Backed, BackedBy, Receipted,
              MemoryTruthful, Committed, Vouched, At
<1> QED
  BY <1>1, <1>2, <1>3, <1>4, <1>5 DEF Next, Step

\* The inductive invariant holds throughout.
THEOREM Invariance == Spec => []IInv
  BY InitIInv, StepIInv, PTL DEF Spec

\* Every variable keeps its type; the breaker never counts past its threshold.
THEOREM TypeCorrect == Spec => []TypeOK
<1>1. IInv => TypeOK
  BY DEF IInv
<1> QED
  BY <1>1, Invariance, PTL

\* An operator approves no withdrawal without a deposit, whatever calls fail, receipts
\* are lost or restarts come between, except after a reorganisation of
\* an EVM source chain; a deposit on Solana counts once it is final.
THEOREM ApprovalsAreBacked == Spec => []ApprovalsBacked
<1>1. IInv => ApprovalsBacked
  BY DEF IInv, TypeOK, Chains, Backed, BackedBy, Committed, ApprovalsBacked, Vouched
<1> QED
  BY <1>1, Invariance, PTL

\* The EVM writer never remembers or queues a withdrawal that no operator approved.
THEOREM MemoryIsTruthful == Spec => []MemoryTruthful
<1>1. IInv => MemoryTruthful
  BY DEF IInv
<1> QED
  BY <1>1, Invariance, PTL

(***************************************************************************)
(* Watching.  Each poll passes the blocks after its start in order; the    *)
(* invariant says that it has accounted for every deposit up to at, and    *)
(* for those of the blocks it is passing but logs.                         *)
(***************************************************************************)
Done(x) == \A d \in Between(0, x) \cap Deposits : Accounted(d)

\* No transaction is mined twice, and foreign ones on Solana only.
Mined ==
  /\ \A i, j \in 1..Height : i # j => chain[i] \cap chain[j] = {}
  /\ source # "solana" => \A i \in 1..Height : chain[i] \subseteq Txs

Ordered == cursor <= Final /\ at <= upto /\ upto <= target /\ target <= Final

\* logs is what is left of the blocks that are being passed.
Passing ==
  /\ Done(cursor) /\ Done(at)
  /\ logs \subseteq Between(at, upto)
  /\ step = "store" => \A d \in Between(at, upto) \cap Deposits : d \in logs \/ Accounted(d)

Solid == rows \subseteq Between(0, Final)

\* Only a foreign row takes the nonce of a deposit.
TakenBy == \A d \in Deposits : gap[d] = "taken" => \E r \in rows \ Deposits : Nonce(r) = d

\* Solana passes one signature after the other, so everything before any of its rows is
\* accounted for: a restart may resume there.
Resumable ==
  source = "solana" =>
    /\ \A i \in 1..Height : Held(i) \cap rows # {} => Done(i - 1)
    /\ upto <= at + 1

\* A poll fetches only while something is left to pass.
Fetching == step = "fetch" => at < target

WatcherIInv ==
  WatcherTypes /\ Mined /\ Ordered /\ Passing /\ Solid /\ TakenBy /\ Resumable /\ Fetching

-------------------------------------------------------------------------------
(* Lemmas on the blocks and on what is accounted for.                      *)

LEMMA FinalBounds ==
  ASSUME WatcherTypes
  PROVE  Final \in Nat /\ Final <= Height /\ Height \in Nat
BY WatcherAssumption DEF WatcherTypes, Final, Minus, Height

\* The blocks after lo up to hi.
LEMMA InBetween ==
  ASSUME WatcherTypes, NEW lo \in Nat, NEW hi \in Nat, NEW d
  PROVE  d \in Between(lo, hi) <=> \E i \in 1..Height : lo < i /\ i <= hi /\ d \in Held(i)
BY FinalBounds DEF Between, Lower

\* The blocks up to hi are those up to mid and those after it.
LEMMA BetweenSplits ==
  ASSUME WatcherTypes, NEW lo \in Nat, NEW mid \in Nat, NEW hi \in Nat
  PROVE  Between(lo, hi) \subseteq Between(lo, mid) \cup Between(mid, hi)
BY FinalBounds, InBetween

LEMMA BetweenNothing ==
  ASSUME WatcherTypes, NEW x \in Nat
  PROVE  Between(x, x) = {}
BY FinalBounds, InBetween

LEMMA BetweenWidens ==
  ASSUME WatcherTypes, NEW lo \in Nat, NEW x \in Nat, NEW y \in Nat, x <= y
  PROVE  Between(lo, x) \subseteq Between(lo, y)
BY FinalBounds, InBetween

LEMMA BetweenEvents == \A lo, hi : Between(lo, hi) \subseteq Events
BY DEF Between, Held

\* Blocks that stay as they were hold what they held.
LEMMA BetweenKept ==
  ASSUME WatcherTypes, WatcherTypes', Height <= Height',
         NEW lo \in Nat, NEW x \in Nat, x <= Height,
         \A i \in 1..x : chain'[i] = chain[i]
  PROVE  Between(lo, x)' = Between(lo, x)
<1>1. Height \in Nat /\ Height' \in Nat
  BY FinalBounds DEF WatcherTypes, Height
<1>2. Lower(x, Height) = x /\ Lower(x, Height)' = x
  BY <1>1 DEF Lower
<1>3. \A i \in (lo + 1)..x : Held(i)' = Held(i)
  BY DEF Held
<1> QED
  BY <1>2, <1>3 DEF Between

\* The nonce of a deposit is its own, and a deposit is not foreign.
LEMMA OwnNonce == \A d \in Deposits : Nonce(d) = d /\ d.tx \in Txs /\ d \in Events
BY WatcherAssumption DEF Deposits, Nonce

\* A deposit keeps the gap it fell into; only a taken nonce needs another reason.
GapsGrow ==
  \A d \in Deposits :
    gap'[d] = gap[d] \/ (gap[d] = "none" /\ gap'[d] \notin {"none", "taken"})

LEMMA FallsGrows ==
  ASSUME WatcherTypes, UNCHANGED source, NEW ds, NEW why, Falls(ds, why),
         why \notin {"none", "taken"}, why \in GapsOf \/ ds \cap Deposits = {}
  PROVE  /\ GapsGrow /\ gap' \in [Deposits -> {"none"} \cup GapsOf']
         /\ \A d \in Deposits \cap ds : d \in rows \/ gap'[d] # "none"
<1>1. GapsOf' = GapsOf /\ gap \in [Deposits -> {"none"} \cup GapsOf]
  BY DEF GapsOf, WatcherTypes
<1>2. gap' = [d \in Deposits |-> IF d \in ds /\ Open(d) THEN why ELSE gap[d]]
  BY DEF Falls
<1>3. ASSUME NEW d \in Deposits
      PROVE  /\ gap'[d] = gap[d] \/ (gap[d] = "none" /\ gap'[d] \notin {"none", "taken"})
             /\ gap'[d] \in {"none"} \cup GapsOf
             /\ d \in ds => d \in rows \/ gap'[d] # "none"
  BY <1>1, <1>2 DEF Open
<1> QED
  BY <1>1, <1>2, <1>3 DEF GapsGrow

LEMMA SameGaps ==
  ASSUME WatcherTypes, UNCHANGED <<source, gap>>
  PROVE  GapsGrow /\ gap' \in [Deposits -> {"none"} \cup GapsOf']
BY DEF GapsGrow, WatcherTypes, GapsOf

LEMMA TakenKept ==
  ASSUME TakenBy, GapsGrow, rows \subseteq rows'
  PROVE  TakenBy'
BY DEF TakenBy, GapsGrow, Nonce

LEMMA AccountedKept ==
  ASSUME rows \subseteq rows', \A d \in Deposits : gap[d] # "none" => gap'[d] # "none",
         NEW d \in Deposits, Accounted(d)
  PROVE  Accounted(d)'
BY DEF Accounted

LEMMA GapsStay == GapsGrow => \A d \in Deposits : gap[d] # "none" => gap'[d] # "none"
BY DEF GapsGrow

\* A step that leaves the chain alone keeps its blocks.
LEMMA SameChain ==
  ASSUME UNCHANGED <<source, chain>>
  PROVE  /\ Final' = Final /\ Height' = Height /\ (Mined => Mined')
         /\ \A lo, hi : Between(lo, hi)' = Between(lo, hi)
         /\ \A i : Held(i)' = Held(i)
BY DEF Final, Height, Mined, Between, Held

LEMMA DoneKept ==
  ASSUME UNCHANGED <<source, chain>>, rows \subseteq rows',
         \A d \in Deposits : gap[d] # "none" => gap'[d] # "none", NEW x, Done(x)
  PROVE  Done(x)'
BY SameChain, AccountedKept DEF Done

LEMMA DoneNothing ==
  ASSUME WatcherTypes
  PROVE  Done(0)
BY BetweenNothing DEF Done

\* What is done up to lo and what is accounted for after it.
LEMMA DoneExtends ==
  ASSUME WatcherTypes, NEW lo \in Nat, NEW hi \in Nat, Done(lo),
         \A d \in Between(lo, hi) \cap Deposits : Accounted(d)
  PROVE  Done(hi)
BY BetweenSplits DEF Done

\* A step of the poll leaves the chain, the rows and the rows' reasons alone.
LEMMA Settled ==
  ASSUME WatcherIInv, UNCHANGED <<source, chain, rows>>, GapsGrow
  PROVE  /\ Mined' /\ Solid' /\ TakenBy' /\ Final' = Final
         /\ \A x : Done(x) => Done(x)'
         /\ source = "solana" => \A i \in 1..Height' : Held(i)' \cap rows' # {} => Done(i - 1)'
<1>1. \A x : Done(x) => Done(x)'
  BY DoneKept, GapsStay
<1>2. Mined' /\ Solid' /\ TakenBy' /\ Final' = Final
  BY SameChain, TakenKept DEF WatcherIInv, Solid
<1>3. source = "solana" => \A i \in 1..Height' : Held(i)' \cap rows' # {} => Done(i - 1)'
  BY <1>1, SameChain DEF WatcherIInv, Resumable
<1> QED
  BY <1>1, <1>2, <1>3

\* A poll that ends with a cursor up to which everything is done.
LEMMA Ends ==
  ASSUME WatcherIInv, Rests, UNCHANGED <<source, chain, rows>>,
         GapsGrow, gap' \in [Deposits -> {"none"} \cup GapsOf'],
         cursor' \in Nat, cursor' <= Final, faults' \in 0..MaxFaults,
         Done(cursor') \/ \A d \in Between(0, cursor') \cap Deposits : Accounted(d)'
  PROVE  WatcherIInv'
<1> PICK c \in Nat : c = cursor'
  OBVIOUS
<1>1. WatcherTypes'
  <2>1. c \in 0..MaxHeight
    BY FinalBounds, WatcherAssumption DEF WatcherIInv, WatcherTypes
  <2> QED
    BY <2>1 DEF WatcherIInv, WatcherTypes, Rests, Height
<1>2. Ordered'
  BY SameChain, FinalBounds DEF WatcherIInv, Ordered, Rests
<1>3. Passing'
  <2>1. Done(c)'
    BY Settled, SameChain DEF Done
  <2>2. Done(0)'
    BY DoneNothing, Settled DEF WatcherIInv
  <2> QED
    BY <2>1, <2>2 DEF Passing, Rests
<1>4. Resumable'
  BY Settled DEF Resumable, Rests
<1> QED
  BY <1>1, <1>2, <1>3, <1>4, Settled DEF WatcherIInv, Fetching, Rests

-------------------------------------------------------------------------------
(* Each action keeps the invariant.                                        *)

LEMMA MineKeeps ==
  ASSUME WatcherIInv, Mine
  PROVE  WatcherIInv'
<1>1. PICK b \in SUBSET (Txs \cup Foreign) :
        /\ \A i \in 1..Height : chain[i] \cap b = {}
        /\ source # "solana" => b \cap Foreign = {}
        /\ chain' = Append(chain, b)
  BY DEF Mine
<1>2. /\ chain' \in Seq(SUBSET (Txs \cup Foreign)) /\ Height \in Nat /\ Height' = Height + 1
      /\ chain'[Height + 1] = b /\ \A i \in 1..Height : chain'[i] = chain[i]
  BY <1>1 DEF WatcherIInv, WatcherTypes, Height
<1>3. UNCHANGED <<source, rows, cursor, step, from, at, upto, target, logs, gap, faults>>
  BY DEF Mine, poll
<1>4. WatcherTypes'
  BY <1>2, <1>3, WatcherAssumption DEF Mine, WatcherIInv, WatcherTypes, GapsOf
<1>5. Mined'
  <2>1. \A i \in 1..Height' : i \in 1..Height \/ i = Height + 1
    BY <1>2
  <2>2. ASSUME NEW i \in 1..Height', NEW j \in 1..Height', i # j PROVE chain'[i] \cap chain'[j] = {}
    <3>1. CASE i \in 1..Height /\ j \in 1..Height
      BY <3>1, <2>2, <1>2 DEF WatcherIInv, Mined
    <3>2. CASE i = Height + 1 /\ j \in 1..Height
      BY <3>2, <1>1, <1>2
    <3>3. CASE j = Height + 1 /\ i \in 1..Height
      BY <3>3, <1>1, <1>2
    <3> QED
      BY <3>1, <3>2, <3>3, <2>1, <2>2
  <2>3. ASSUME source # "solana", NEW i \in 1..Height' PROVE chain'[i] \subseteq Txs
    <3>1. CASE i \in 1..Height
      BY <3>1, <2>3, <1>2 DEF WatcherIInv, Mined
    <3>2. CASE i = Height + 1
      BY <3>2, <2>3, <1>1, <1>2
    <3> QED
      BY <3>1, <3>2, <2>1
  <2> QED
    BY <2>2, <2>3, <1>3 DEF Mined
<1>6. Final <= Final' /\ Final \in Nat /\ Final <= Height /\ Final' \in Nat /\ Final' <= Height'
  BY <1>2, <1>3, FinalBounds, WatcherAssumption DEF WatcherIInv, Final, Minus
<1>7. \A lo, x \in Nat : x <= Height => Between(lo, x)' = Between(lo, x)
  BY <1>2, <1>4, BetweenKept DEF WatcherIInv
<1>8. Ordered'
  BY <1>3, <1>6 DEF WatcherIInv, WatcherTypes, Ordered
<1>9. cursor <= Height /\ at <= Height /\ upto <= Height /\ cursor \in Nat /\ at \in Nat /\ upto \in Nat
  BY <1>2, <1>6 DEF WatcherIInv, WatcherTypes, Ordered
<1>10. \A x \in Nat : x <= Height /\ Done(x) => Done(x)'
  BY <1>7, <1>3 DEF Done, Accounted
<1>11. Passing'
  <2>1. Done(cursor)' /\ Done(at)'
    BY <1>3, <1>9, <1>10 DEF WatcherIInv, Passing
  <2>2. Between(at, upto)' = Between(at, upto)
    BY <1>3, <1>9, <1>7
  <2> QED
    BY <2>1, <2>2, <1>3 DEF WatcherIInv, Passing, Accounted
<1>12. Solid' /\ \A d \in rows : \E j \in 1..Height : d \in Held(j)
  <2>1. ASSUME NEW d \in rows PROVE d \in Between(0, Final)' /\ \E j \in 1..Height : d \in Held(j)
    <3>1. PICK j \in 1..Height : 0 < j /\ j <= Final /\ d \in Held(j)
      BY <2>1, <1>6, InBetween DEF WatcherIInv, Solid
    <3>2. d \in Held(j)' /\ j \in 1..Height' /\ j <= Final'
      BY <3>1, <1>2, <1>6 DEF Held
    <3>3. j \in (0 + 1)..Lower(Final, Height)'
      BY <3>1, <3>2, <1>6, <1>2 DEF Lower
    <3> QED
      BY <3>1, <3>2, <3>3 DEF Between
  <2> QED
    BY <2>1, <1>3 DEF Solid
<1>13. TakenBy'
  BY <1>3 DEF WatcherIInv, TakenBy, Nonce
<1>14. Resumable'
  <2> SUFFICES ASSUME source = "solana" PROVE Resumable'
    BY <1>3 DEF Resumable
  <2>1. ASSUME NEW i \in 1..Height', Held(i)' \cap rows' # {} PROVE Done(i - 1)'
    <3>1. PICK d \in rows : d.tx \in chain'[i]
      BY <2>1, <1>3 DEF Held
    <3>2. PICK j \in 1..Height : d \in Held(j) /\ d.tx \in chain[j]
      BY <1>12 DEF Held
    <3>3. i # Height + 1
      BY <3>1, <3>2, <1>1, <1>2
    <3>4. i \in 1..Height /\ d \in Held(i)
      BY <3>1, <3>2, <3>3, <1>2 DEF Held
    <3> QED
      BY <3>4, <1>10, <1>2 DEF WatcherIInv, Resumable
  <2> QED
    BY <2>1, <1>3 DEF WatcherIInv, Resumable
<1> QED
  BY <1>3, <1>4, <1>5, <1>8, <1>11, <1>12, <1>13, <1>14 DEF WatcherIInv, Fetching

\* A reorganisation stays above the final blocks.
LEMMA ReorgKeeps ==
  ASSUME WatcherIInv, Reorg
  PROVE  WatcherIInv'
<1>1. PICK i \in 1..Height :
        i > Minus(Height, finality_blocks) /\ chain' = [chain EXCEPT ![i] = {}]
  BY DEF Reorg
<1>2. /\ chain' \in Seq(SUBSET (Txs \cup Foreign)) /\ Height \in Nat /\ Height' = Height
      /\ \A j \in 1..Height : chain'[j] = (IF j = i THEN {} ELSE chain[j])
  BY <1>1 DEF WatcherIInv, WatcherTypes, Height
<1>3. /\ UNCHANGED <<source, rows, cursor, step, from, at, upto, target, logs, gap, faults>>
      /\ source = "evm"
  BY DEF Reorg, poll
<1>4. WatcherTypes'
  BY <1>2, <1>3 DEF WatcherIInv, WatcherTypes, GapsOf
<1>5. Mined'
  BY <1>2, <1>3 DEF WatcherIInv, Mined
<1>6. Final \in Nat /\ Final' = Final /\ Final <= Height /\ i > Final
  BY <1>1, <1>2, <1>3, FinalBounds DEF WatcherIInv, Final
<1>7. \A lo, x \in Nat : x <= Final => Between(lo, x)' = Between(lo, x)
  <2> SUFFICES ASSUME NEW lo \in Nat, NEW x \in Nat, x <= Final PROVE Between(lo, x)' = Between(lo, x)
    OBVIOUS
  <2>1. \A j \in 1..x : chain'[j] = chain[j]
    BY <1>2, <1>6
  <2> QED
    BY <2>1, <1>2, <1>4, <1>6, BetweenKept DEF WatcherIInv
<1>8. Ordered'
  BY <1>3, <1>6 DEF WatcherIInv, Ordered
<1>9. cursor <= Final /\ at <= Final /\ upto <= Final /\ cursor \in Nat /\ at \in Nat /\ upto \in Nat
  BY <1>6 DEF WatcherIInv, WatcherTypes, Ordered
<1>10. Passing'
  <2>1. Done(cursor)' /\ Done(at)'
    BY <1>3, <1>9, <1>7 DEF WatcherIInv, Passing, Done, Accounted
  <2>2. Between(at, upto)' = Between(at, upto)
    BY <1>3, <1>9, <1>7
  <2> QED
    BY <2>1, <2>2, <1>3 DEF WatcherIInv, Passing, Accounted
<1>11. Solid'
  BY <1>3, <1>6, <1>7 DEF WatcherIInv, Solid
<1>12. TakenBy' /\ Resumable'
  BY <1>3 DEF WatcherIInv, TakenBy, Nonce, Resumable
<1> QED
  BY <1>3, <1>4, <1>5, <1>8, <1>10, <1>11, <1>12 DEF WatcherIInv, Fetching

\* A poll that begins where everything is done, or given up.
LEMMA Starts ==
  ASSUME WatcherIInv, NEW start \in Nat, NEW goal \in Nat, NEW missed,
         Begins(start, start, goal, missed), start < goal, goal <= Final,
         "skipped" \in GapsOf \/ missed \cap Deposits = {},
         \A d \in Between(0, start) \cap Deposits : Accounted(d) \/ d \in missed
  PROVE  WatcherIInv'
<1>1. /\ UNCHANGED <<source, chain, rows, cursor, faults>> /\ Falls(missed, "skipped")
      /\ step' = "fetch" /\ from' = start /\ at' = start /\ upto' = start
      /\ target' = goal /\ logs' = {}
  BY DEF Begins
<1>2. /\ GapsGrow /\ gap' \in [Deposits -> {"none"} \cup GapsOf']
      /\ \A d \in Deposits \cap missed : d \in rows \/ gap'[d] # "none"
  BY <1>1, FallsGrows DEF WatcherIInv
<1>3. WatcherTypes'
  BY <1>1, <1>2 DEF WatcherIInv, WatcherTypes, Height
<1>4. Ordered'
  BY <1>1, SameChain DEF WatcherIInv, Ordered
<1>5. Passing'
  <2>1. Done(cursor)'
    BY <1>1, <1>2, Settled DEF WatcherIInv, Passing
  <2>2. \A d \in Between(0, start) \cap Deposits : Accounted(d)'
    <3> TAKE d \in Between(0, start) \cap Deposits
    <3>1. CASE Accounted(d)
      BY <3>1, <1>1, <1>2, AccountedKept, GapsStay
    <3>2. CASE d \in missed
      BY <3>2, <1>1, <1>2 DEF Accounted
    <3> QED
      BY <3>1, <3>2
  <2>3. Done(at)'
    BY <2>2, <1>1, SameChain DEF Done
  <2> QED
    BY <2>1, <2>3, <1>1 DEF Passing
<1>6. Resumable'
  BY <1>1, <1>2, Settled DEF Resumable
<1> QED
  BY <1>1, <1>2, <1>3, <1>4, <1>5, <1>6, Settled DEF WatcherIInv, Fetching

LEMMA BeginKeeps ==
  ASSUME WatcherIInv, Begin
  PROVE  WatcherIInv'
<1> USE WatcherAssumption
<1>1. Height \in Nat /\ Final \in Nat /\ Final <= Height /\ cursor \in Nat /\ cursor <= Final
  BY FinalBounds DEF WatcherIInv, WatcherTypes, Ordered
<1>2. CASE BeginEvm
  <2>1. PICK head \in 0..Height : BeginEvmAt(head)
    BY <1>2 DEF BeginEvm
  <2> DEFINE current == Minus(head, finality_blocks)
             start   == IF cursor = 0 THEN Minus(current, lookback_blocks) ELSE cursor
             missed  == IF cursor = 0 THEN Between(0, start) ELSE {}
  <2>2. Begins(start, start, current, missed) /\ source = "evm" /\ current > start
    BY <2>1 DEF BeginEvmAt
  <2>3. start \in Nat /\ current \in Nat /\ current <= Final
    BY <1>1, <2>1, <2>2 DEF Minus, Final
  <2>4. \A d \in Between(0, start) \cap Deposits : Accounted(d) \/ d \in missed
    BY DEF WatcherIInv, Passing, Done
  <2>5. "skipped" \in GapsOf
    BY <2>2 DEF GapsOf
  <2> HIDE DEF start, current, missed
  <2> QED
    BY <2>2, <2>3, <2>4, <2>5, Starts
<1>3. CASE BeginTerra
  <2>1. PICK height \in 0..Height : BeginTerraAt(height)
    BY <1>3 DEF BeginTerra
  <2>2. Final = Height
    BY <2>1 DEF BeginTerraAt, Final
  <2>3. \A d \in Between(0, cursor) \cap Deposits : Accounted(d) \/ d \in {}
    BY DEF WatcherIInv, Passing, Done
  <2> QED
    BY <2>1, <2>2, <2>3, <1>1, Starts DEF BeginTerraAt
<1>4. CASE BeginSolana
  <2>1. PICK view \in 0..Height : BeginSolanaAt(view)
    BY <1>4 DEF BeginSolana
  <2>2. PICK last \in Nat : last = (IF cursor <= view THEN cursor ELSE 0)
    BY <1>1
  <2>3. PICK newest \in (last + 1)..view :
          \E oldest \in (last + 1)..view :
            /\ source = "solana" /\ oldest <= newest
            /\ Begins(oldest - 1, oldest - 1, newest, Between(cursor, oldest - 1))
    BY <2>1, <2>2 DEF BeginSolanaAt
  <2>4. PICK oldest \in (last + 1)..view :
            /\ source = "solana" /\ oldest <= newest
            /\ Begins(oldest - 1, oldest - 1, newest, Between(cursor, oldest - 1))
    BY <2>3
  <2>5. PICK start \in Nat : start = oldest - 1
    BY <2>1, <2>2, <1>1
  <2>6. "skipped" \in GapsOf /\ Final = Height
    BY <2>4 DEF GapsOf, Final
  <2>7. \A d \in Between(0, start) \cap Deposits : Accounted(d) \/ d \in Between(cursor, start)
    BY <1>1, BetweenSplits DEF WatcherIInv, Passing, Done
  <2>8. start < newest /\ newest <= Final /\ newest \in Nat
    BY <2>1, <2>2, <2>3, <2>4, <2>5, <2>6, <1>1
  <2> QED
    BY <2>4, <2>5, <2>6, <2>7, <2>8, Starts
<1> QED
  BY <1>2, <1>3, <1>4 DEF Begin

\* A poll that fetches up to next: every deposit in between is shown or falls into a gap.
LEMMA Fetches ==
  ASSUME WatcherIInv, step = "fetch", NEW next \in Nat, NEW view, NEW shown, Fetched(next, view, shown),
         at <= next, next <= target, shown \subseteq Between(at, next),
         \A d \in (Between(at, next) \ shown) \cap Deposits :
           Missing(d, next, view, shown) \in GapsOf \ {"taken", "none"},
         source = "solana" => next = at + 1
  PROVE  WatcherIInv'
<1>1. /\ UNCHANGED <<source, chain, rows, cursor, from, at, target>>
      /\ upto' = next /\ logs' = shown /\ step' = "store"
      /\ gap' = [d \in Deposits |-> IF d \in Between(at, next) \ shown /\ Open(d)
                                    THEN Missing(d, next, view, shown) ELSE gap[d]]
  BY DEF Fetched
<1>2. faults' \in 0..MaxFaults
  BY WatcherAssumption DEF Fetched, Fault, WatcherIInv, WatcherTypes
<1>3. /\ GapsGrow /\ gap' \in [Deposits -> {"none"} \cup GapsOf']
      /\ \A d \in (Between(at, next) \ shown) \cap Deposits : Accounted(d)'
  <2>1. GapsOf' = GapsOf /\ gap \in [Deposits -> {"none"} \cup GapsOf]
    BY <1>1 DEF GapsOf, WatcherIInv, WatcherTypes
  <2>2. ASSUME NEW d \in Deposits
        PROVE  /\ gap'[d] = gap[d] \/ (gap[d] = "none" /\ gap'[d] \notin {"none", "taken"})
               /\ gap'[d] \in {"none"} \cup GapsOf
               /\ d \in Between(at, next) \ shown => d \in rows \/ gap'[d] # "none"
    BY <1>1, <2>1 DEF Open
  <2> QED
    BY <1>1, <2>1, <2>2 DEF GapsGrow, Accounted
<1>4. WatcherTypes'
  BY <1>1, <1>2, <1>3, BetweenEvents DEF WatcherIInv, WatcherTypes, Height
<1>5. Ordered'
  BY <1>1, SameChain DEF WatcherIInv, Ordered
<1>6. Passing'
  <2>1. Done(cursor)' /\ Done(at)'
    BY <1>1, <1>3, Settled DEF WatcherIInv, Passing
  <2>2. Between(at, upto)' = Between(at, next)
    BY <1>1, SameChain
  <2> QED
    BY <2>1, <2>2, <1>1, <1>3 DEF Passing
<1>7. Resumable'
  BY <1>1, <1>3, Settled DEF Resumable
<1> QED
  BY <1>1, <1>3, <1>4, <1>5, <1>6, <1>7, Settled DEF WatcherIInv, Fetching

LEMMA FetchKeeps ==
  ASSUME WatcherIInv, Fetch
  PROVE  WatcherIInv'
<1>1. /\ at \in Nat /\ upto \in Nat /\ target \in Nat /\ at <= target /\ Height \in Nat
      /\ chunk_size \in Nat /\ chunk_size > 0
  BY FinalBounds, WatcherAssumption DEF WatcherIInv, WatcherTypes, Ordered
<1>2. step = "fetch" /\ at < target
  BY DEF Fetch, FetchEvm, FetchTerra, FetchSolana, WatcherIInv, Fetching
<1>3. CASE FetchEvm
  <2>1. PICK view \in 0..Height : FetchEvmAt(view)
    BY <1>3 DEF FetchEvm
  <2>2. PICK next \in Nat : next = Lower(at + chunk_size, target)
    BY <1>1 DEF Lower
  <2>3. PICK end \in Nat : end = Lower(next, view)
    BY <1>1, <2>1 DEF Lower
  <2>4. source = "evm" /\ Fetched(next, view, Between(at, end))
    BY <2>1, <2>2, <2>3 DEF FetchEvmAt
  <2>5. at <= next /\ next <= target /\ end <= next /\ (view < next \/ end = next)
    BY <1>1, <2>1, <2>2, <2>3 DEF Lower
  <2>6. Between(at, end) \subseteq Between(at, next)
    BY <1>1, <2>5, BetweenWidens DEF WatcherIInv
  <2>7. \A d \in (Between(at, next) \ Between(at, end)) \cap Deposits :
          Missing(d, next, view, Between(at, end)) \in GapsOf \ {"taken", "none"}
    BY <2>4, <2>5 DEF Missing, GapsOf
  <2> QED
    BY <1>2, <2>4, <2>5, <2>6, <2>7, Fetches
<1>4. CASE FetchTerra
  <2>1. PICK view \in 0..Height : FetchTerraAt(view)
    BY <1>4 DEF FetchTerra
  <2>2. PICK next \in Nat : next = at + 1
    BY <1>1
  <2>3. PICK shown \in SUBSET Between(at, next) : source = "terra" /\ Fetched(next, view, shown)
    BY <2>1, <2>2 DEF FetchTerraAt
  <2>4. \A d : Missing(d, next, view, shown) \in GapsOf \ {"taken", "none"}
    BY <2>3 DEF Missing, GapsOf
  <2> QED
    BY <1>1, <1>2, <2>2, <2>3, <2>4, Fetches
<1>5. CASE FetchSolana
  <2>1. PICK seen \in BOOLEAN : FetchSolanaAt(seen)
    BY <1>5 DEF FetchSolana
  <2>2. PICK next \in Nat : next = at + 1
    BY <1>1
  <2>3. source = "solana" /\ Fetched(next, IF seen THEN next ELSE at, IF seen THEN Between(at, next) ELSE {})
    BY <2>1, <2>2 DEF FetchSolanaAt
  <2>4. CASE seen
    <3>1. Fetched(next, next, Between(at, next)) /\ Between(at, next) \subseteq Between(at, next)
      BY <2>3, <2>4
    <3>2. (Between(at, next) \ Between(at, next)) \cap Deposits = {}
      OBVIOUS
    <3> QED
      BY <1>1, <1>2, <2>2, <3>1, <3>2, Fetches
  <2>5. CASE ~seen
    <3>1. Fetched(next, at, {}) /\ {} \subseteq Between(at, next)
      BY <2>3, <2>5
    <3>2. \A d : Missing(d, next, at, {}) \in GapsOf \ {"taken", "none"}
      BY <1>1, <2>2, <2>3 DEF Missing, GapsOf
    <3> QED
      BY <1>1, <1>2, <2>2, <3>1, <3>2, Fetches
  <2> QED
    BY <2>4, <2>5
<1> QED
  BY <1>3, <1>4, <1>5 DEF Fetch

\* A poll that is cut short and saves what it has passed, or goes on with the next block.
LEMMA Turns ==
  ASSUME WatcherIInv, UNCHANGED <<source, chain, rows, gap, from, upto, target>>, cursor' \in {cursor, at'},
         at' \in {at, upto}, at' # at => step = "store" /\ logs = {},
         step' \in {"fetch", "save"}, step' = "fetch" => at' < target,
         logs' \in {logs, {}}, faults' \in 0..MaxFaults
  PROVE  WatcherIInv'
<1>1. GapsGrow /\ gap' \in [Deposits -> {"none"} \cup GapsOf']
  BY SameGaps DEF WatcherIInv
<1>2. WatcherTypes'
  BY <1>1, FinalBounds, WatcherAssumption DEF WatcherIInv, WatcherTypes, Ordered, Height
<1>3. Ordered'
  BY SameChain, FinalBounds DEF WatcherIInv, WatcherTypes, Ordered
<1>4. Passing'
  <2>1. \A x : Done(x) => Done(x)'
    BY <1>1, Settled
  <2>2. Done(upto) \/ at' = at
    BY DoneExtends DEF WatcherIInv, WatcherTypes, Passing
  <2>3. Done(at)'
    BY <2>1, <2>2 DEF WatcherIInv, Passing
  <2>4. Done(cursor)'
    BY <2>1, <2>3 DEF WatcherIInv, Passing
  <2>5. logs' \subseteq Between(at, upto)'
    BY SameChain DEF WatcherIInv, Passing
  <2> QED
    BY <2>3, <2>4, <2>5 DEF Passing
<1>5. Resumable'
  <2>1. source = "solana" => upto <= at' + 1
    <3>1. upto \in Nat /\ (source = "solana" => upto <= at + 1)
      BY DEF WatcherIInv, WatcherTypes, Resumable
    <3>2. upto <= upto + 1
      BY <3>1
    <3> QED
      BY <3>1, <3>2
  <2>2. source = "solana" => \A i \in 1..Height' : Held(i)' \cap rows' # {} => Done(i - 1)'
    BY <1>1, Settled
  <2>3. source' = source /\ upto' = upto
    OBVIOUS
  <2> QED
    BY <2>1, <2>2, <2>3 DEF Resumable
<1> QED
  BY <1>1, <1>2, <1>3, <1>4, <1>5, Settled DEF WatcherIInv, Fetching

\* A fetched event is stored, or passed over.
LEMMA Takes ==
  ASSUME WatcherIInv, step = "store", NEW d \in logs, logs' = logs \ {d},
         d \in Deposits => Accounted(d)',
         UNCHANGED <<source, chain, cursor, step, from, at, upto, target>>,
         rows' \in {rows, rows \cup {d}},
         \A e \in Deposits : gap[e] # "none" => gap'[e] # "none",
         gap' \in [Deposits -> {"none"} \cup GapsOf'], TakenBy', faults' \in 0..MaxFaults
  PROVE  WatcherIInv'
<1>1. WatcherTypes'
  BY DEF WatcherIInv, WatcherTypes, Height
<1>2. Passing'
  <2>1. Done(cursor)' /\ Done(at)'
    BY DoneKept DEF WatcherIInv, Passing
  <2>2. \A e \in Between(at, upto) \cap Deposits : e \in logs' \/ Accounted(e)'
    BY AccountedKept DEF WatcherIInv, Passing
  <2> QED
    BY <2>1, <2>2, SameChain DEF WatcherIInv, Passing
<1>3. at \in Nat /\ upto \in Nat /\ Final \in Nat /\ Height \in Nat /\ upto <= Final
  BY FinalBounds DEF WatcherIInv, WatcherTypes, Ordered
<1>4. PICK j \in 1..Height : at < j /\ j <= upto /\ d \in Held(j)
  BY <1>3, InBetween DEF WatcherIInv, Passing
<1>5. Solid'
  <2>1. d \in Between(0, Final)
    BY <1>3, <1>4, InBetween DEF WatcherIInv
  <2> QED
    BY <2>1, SameChain DEF WatcherIInv, Solid
<1>6. Resumable'
  <2> SUFFICES ASSUME source = "solana" PROVE Resumable'
    BY DEF Resumable
  <2>1. ASSUME NEW i \in 1..Height, Held(i) \cap rows' # {} PROVE Done(i - 1)'
    <3>1. CASE Held(i) \cap rows # {}
      BY <3>1, DoneKept DEF WatcherIInv, Resumable
    <3>2. CASE d \in Held(i)
      <4>1. i = j
        BY <3>2, <1>4 DEF WatcherIInv, Mined, Held
      <4>2. i - 1 = at
        BY <4>1, <1>3, <1>4 DEF WatcherIInv, Resumable
      <4> QED
        BY <4>2, DoneKept DEF WatcherIInv, Passing
    <3> QED
      BY <2>1, <3>1, <3>2
  <2> QED
    BY <2>1, SameChain DEF WatcherIInv, Resumable
<1> QED
  BY <1>1, <1>2, <1>5, <1>6, SameChain DEF WatcherIInv, Ordered, Fetching

\* Off Solana every row is a deposit.
LEMMA OnlyDeposits ==
  ASSUME WatcherIInv, source # "solana"
  PROVE  rows \subseteq Deposits
<1> SUFFICES ASSUME NEW r \in rows PROVE r \in Deposits
  OBVIOUS
<1>1. PICK i \in 1..Height : r \in Held(i)
  BY FinalBounds, InBetween DEF WatcherIInv, Solid
<1> QED
  BY <1>1 DEF WatcherIInv, Mined, Held, Deposits

\* The row that has the nonce of an unrecorded deposit is foreign.
LEMMA ConflictIsForeign ==
  ASSUME WatcherTypes, NEW d \in Deposits, d \notin rows, NEW r \in rows, Nonce(r) = Nonce(d)
  PROVE  r \in rows \ Deposits /\ Nonce(r) = d
BY OwnNonce

LEMMA StoreKeeps ==
  ASSUME WatcherIInv, NEW d \in Events, Store(d) \/ StoreRefused(d)
  PROVE  WatcherIInv'
<1>1. step = "store" /\ d \in logs /\ logs' = logs \ {d}
  BY DEF Store, StoreRefused, Stores
<1>2. UNCHANGED <<source, chain, cursor, step, from, at, upto, target>>
  BY DEF Store, StoreRefused
<1>3. CASE Store(d) /\ rows' = rows \cup {d} /\ UNCHANGED gap
  <2>1. UNCHANGED faults /\ faults' \in 0..MaxFaults
    BY <1>3 DEF Store, WatcherIInv, WatcherTypes
  <2>2. GapsGrow /\ gap' \in [Deposits -> {"none"} \cup GapsOf']
    BY <1>2, <1>3, SameGaps DEF WatcherIInv
  <2>3. Accounted(d)' /\ TakenBy'
    BY <1>3, <2>2, TakenKept DEF Accounted, WatcherIInv
  <2> QED
    BY <1>1, <1>2, <1>3, <2>1, <2>2, <2>3, Takes, GapsStay
<1>4. ASSUME Store(d), NEW r \in rows, Nonce(r) = Nonce(d), UNCHANGED rows, Falls({d}, "taken")
      PROVE  WatcherIInv'
  <2>1. UNCHANGED faults /\ faults' \in 0..MaxFaults
    BY <1>4 DEF Store, WatcherIInv, WatcherTypes
  <2>2. gap' = [e \in Deposits |-> IF e \in {d} /\ Open(e) THEN "taken" ELSE gap[e]]
    BY <1>4 DEF Falls
  <2>3. GapsOf' = GapsOf /\ gap \in [Deposits -> {"none"} \cup GapsOf]
    BY <1>2 DEF GapsOf, WatcherIInv, WatcherTypes
  <2>4. ASSUME d \in Deposits, Open(d)
        PROVE  r \in rows \ Deposits /\ Nonce(r) = d /\ "taken" \in GapsOf
    <3>1. r \in rows \ Deposits /\ Nonce(r) = d
      BY <2>4, <1>4, ConflictIsForeign DEF WatcherIInv, Open
    <3>2. source = "solana"
      BY <3>1, OnlyDeposits
    <3> QED
      BY <3>1, <3>2 DEF GapsOf
  <2>5. ASSUME NEW e \in Deposits
        PROVE  /\ gap[e] # "none" => gap'[e] # "none"
               /\ gap'[e] \in {"none"} \cup GapsOf
               /\ gap'[e] = "taken" => gap[e] = "taken" \/ (e = d /\ Open(d))
               /\ e = d => d \in rows \/ gap'[e] # "none"
    BY <2>2, <2>3, <2>4 DEF Open
  <2>6. gap' \in [Deposits -> {"none"} \cup GapsOf']
    BY <2>2, <2>3, <2>5
  <2>7. TakenBy'
    <3> SUFFICES ASSUME NEW e \in Deposits, gap'[e] = "taken"
                 PROVE  \E s \in rows \ Deposits : Nonce(s) = e
      BY <1>4 DEF TakenBy, Nonce
    <3>1. CASE gap[e] = "taken"
      BY <3>1 DEF WatcherIInv, TakenBy
    <3>2. CASE e = d /\ Open(d)
      BY <3>2, <2>4
    <3> QED
      BY <3>1, <3>2, <2>5
  <2>8. d \in Deposits => Accounted(d)'
    BY <1>4, <2>5 DEF Accounted
  <2> QED
    BY <1>1, <1>2, <1>4, <2>1, <2>5, <2>6, <2>7, <2>8, Takes
<1>5. CASE StoreRefused(d)
  <2>1. UNCHANGED rows /\ Falls({d}, "refused") /\ source \in {"evm", "solana"}
    BY <1>5 DEF StoreRefused
  <2>2. faults' \in 0..MaxFaults
    BY <1>5, WatcherAssumption DEF StoreRefused, Fault, WatcherIInv, WatcherTypes
  <2>3. "refused" \in GapsOf
    BY <2>1 DEF GapsOf
  <2>4. /\ GapsGrow /\ gap' \in [Deposits -> {"none"} \cup GapsOf']
        /\ d \in Deposits => d \in rows \/ gap'[d] # "none"
    BY <2>1, <2>3, <1>2, FallsGrows DEF WatcherIInv
  <2>5. (d \in Deposits => Accounted(d)') /\ TakenBy'
    BY <2>1, <2>4, TakenKept DEF WatcherIInv, Accounted
  <2> QED
    BY <1>1, <1>2, <2>1, <2>2, <2>4, <2>5, Takes, GapsStay
<1> QED
  BY <1>3, <1>4, <1>5 DEF Store

\* A poll that gives up saves what it has passed, or keeps the cursor.
LEMMA GivesUp ==
  ASSUME WatcherIInv, FetchFails \/ StoreFails \/ PassFails
  PROVE  WatcherIInv'
<1>1. UNCHANGED <<source, chain, rows, cursor, gap>>
  BY DEF FetchFails, StoreFails, PassFails
<1>2. faults' \in 0..MaxFaults
  BY WatcherAssumption DEF FetchFails, StoreFails, PassFails, Fault, WatcherIInv, WatcherTypes
<1>3. GapsGrow /\ gap' \in [Deposits -> {"none"} \cup GapsOf']
  BY <1>1, SameGaps DEF WatcherIInv
<1>4. CASE Rests
  <2>1. cursor' \in Nat /\ cursor' <= Final /\ Done(cursor')
    BY <1>1, WatcherAssumption DEF WatcherIInv, WatcherTypes, Ordered, Passing
  <2> QED
    BY <1>1, <1>2, <1>3, <1>4, <2>1, Ends
<1>5. CASE step' = "save" /\ UNCHANGED <<from, at, upto, target>> /\ logs' \in {logs, {}}
  BY <1>1, <1>2, <1>5, Turns
<1> QED
  BY <1>4, <1>5 DEF FetchFails, StoreFails, PassFails

LEMMA PassedKeeps ==
  ASSUME WatcherIInv, Passed
  PROVE  WatcherIInv'
<1>1. step = "store" /\ logs = {} /\ UNCHANGED <<source, chain, rows, gap, faults>>
  BY DEF Passed, Advance
<1>2. /\ faults' \in 0..MaxFaults /\ upto \in Nat
      /\ GapsGrow /\ gap' \in [Deposits -> {"none"} \cup GapsOf']
  BY <1>1, SameGaps DEF WatcherIInv, WatcherTypes
<1>3. Done(upto) /\ upto <= Final /\ cursor \in Nat /\ cursor <= Final /\ Done(cursor)
  BY <1>1, DoneExtends, FinalBounds DEF WatcherIInv, WatcherTypes, Ordered, Passing
<1>4. CASE Rests
  <2>1. cursor' \in Nat /\ cursor' <= Final /\ Done(cursor')
    BY <1>2, <1>3 DEF Passed, Advance
  <2> QED
    BY <1>1, <1>2, <1>4, <2>1, Ends
<1>5. CASE cursor' \in {cursor, upto} /\ at' = upto /\ logs' = {} /\ UNCHANGED <<from, upto, target>>
           /\ step' = (IF upto < target THEN "fetch" ELSE "save")
  BY <1>1, <1>2, <1>5, Turns
<1> QED
  BY <1>4, <1>5 DEF Passed, Advance

LEMMA SaveKeeps ==
  ASSUME WatcherIInv, Save
  PROVE  WatcherIInv'
<1>1. UNCHANGED <<source, chain, rows, gap, faults>> /\ Rests /\ cursor' = at
  BY DEF Save
<1>2. faults' \in 0..MaxFaults /\ GapsGrow /\ gap' \in [Deposits -> {"none"} \cup GapsOf']
  BY <1>1, SameGaps DEF WatcherIInv, WatcherTypes
<1>3. cursor' \in Nat /\ cursor' <= Final /\ Done(cursor')
  BY <1>1, FinalBounds DEF WatcherIInv, WatcherTypes, Ordered, Passing
<1> QED
  BY <1>1, <1>2, <1>3, Ends

\* A restart of the Solana watcher resumes behind one of its rows.
LEMMA CrashKeeps ==
  ASSUME WatcherIInv, Crash
  PROVE  WatcherIInv'
<1>1. UNCHANGED <<source, chain, rows>> /\ Rests
  BY DEF Crash
<1>2. faults' \in 0..MaxFaults
  BY WatcherAssumption DEF Crash, Fault, WatcherIInv, WatcherTypes
<1>3. PICK i \in Resume :
        /\ cursor' = i
        /\ IF source = "solana" /\ i > 0 THEN Falls(Held(i), "restart") ELSE UNCHANGED gap
  BY DEF Crash
<1>4. GapsGrow /\ gap' \in [Deposits -> {"none"} \cup GapsOf']
  <2>1. CASE source = "solana" /\ i > 0
    <3>1. "restart" \in GapsOf
      BY <2>1 DEF GapsOf
    <3> QED
      BY <1>1, <1>3, <2>1, <3>1, FallsGrows DEF WatcherIInv
  <2>2. CASE UNCHANGED gap
    BY <1>1, <2>2, SameGaps DEF WatcherIInv
  <2> QED
    BY <1>3, <2>1, <2>2
<1>5. CASE i = cursor \/ i = 0
  <2>1. i \in Nat /\ i <= Final /\ Done(i)
    BY <1>5, FinalBounds, DoneNothing, WatcherAssumption DEF WatcherIInv, WatcherTypes, Ordered, Passing
  <2> QED
    BY <1>1, <1>2, <1>3, <1>4, <2>1, Ends
<1>6. CASE source = "solana" /\ i \in Newest
  <2>1. i \in 1..Height /\ Held(i) \cap rows # {} /\ Final = Height /\ Height \in Nat
    BY <1>6, FinalBounds DEF Newest, Final, WatcherIInv
  <2>2. Done(i - 1) /\ i - 1 \in Nat
    BY <1>6, <2>1 DEF WatcherIInv, Resumable
  <2>3. \A d \in Deposits \cap Held(i) : d \in rows \/ gap'[d] # "none"
    <3>1. Falls(Held(i), "restart") /\ "restart" \in GapsOf
      BY <1>3, <1>6, <2>1 DEF GapsOf
    <3> QED
      BY <3>1, <1>1, FallsGrows DEF WatcherIInv
  <2>4. ASSUME NEW d \in Between(0, i) \cap Deposits PROVE Accounted(d)'
    <3>1. d \in Between(0, i - 1) \/ d \in Held(i)
      <4>1. PICK j \in 1..Height : 0 < j /\ j <= i /\ d \in Held(j)
        BY <2>1, InBetween DEF WatcherIInv
      <4>2. CASE j = i
        BY <4>1, <4>2
      <4>3. CASE j <= i - 1
        BY <4>1, <4>3, <2>2, InBetween DEF WatcherIInv
      <4> QED
        BY <4>1, <4>2, <4>3, <2>1
    <3>2. CASE d \in Between(0, i - 1)
      <4>1. Accounted(d)
        BY <3>2, <2>2 DEF Done
      <4> QED
        BY <4>1, <1>1, <1>4, AccountedKept, GapsStay
    <3>3. CASE d \in Held(i)
      BY <3>3, <2>3, <1>1 DEF Accounted
    <3> QED
      BY <3>1, <3>2, <3>3
  <2>5. cursor' \in Nat /\ cursor' <= Final
    BY <1>3, <2>1
  <2> QED
    BY <1>1, <1>2, <1>3, <1>4, <2>4, <2>5, Ends
<1> QED
  BY <1>3, <1>5, <1>6 DEF Resume

-------------------------------------------------------------------------------
(* The theorems.                                                           *)

LEMMA WatcherInvInit == WatcherInit => WatcherIInv
<1> SUFFICES ASSUME WatcherInit PROVE WatcherIInv
  OBVIOUS
<1>1. /\ source \in {"evm", "terra", "solana"} /\ chain = <<>> /\ Height = 0
      /\ rows = {} /\ logs = {} /\ cursor = 0 /\ at = 0 /\ upto = 0 /\ target = 0 /\ from = 0
      /\ step = "rest" /\ faults = 0 /\ gap = [d \in Deposits |-> "none"]
  BY WatcherAssumption DEF WatcherInit, Height
<1>2. WatcherTypes
  BY <1>1, WatcherAssumption DEF WatcherInit, WatcherTypes, GapsOf
<1>3. Final = 0 /\ Between(0, 0) = {}
  BY <1>1, <1>2, BetweenNothing, WatcherAssumption DEF Final, Minus
<1>4. TakenBy
  BY <1>1 DEF TakenBy
<1> QED
  BY <1>1, <1>2, <1>3, <1>4 DEF WatcherIInv, Mined, Ordered, Passing, Done, Solid, Resumable, Fetching

LEMMA StutterKeeps ==
  ASSUME WatcherIInv, UNCHANGED watching
  PROVE  WatcherIInv'
<1>1. UNCHANGED <<source, chain, rows, cursor, step, from, at, upto, target, logs, gap, faults>>
  BY DEF watching, poll
<1>2. GapsGrow /\ WatcherTypes'
  BY <1>1, SameGaps DEF WatcherIInv, WatcherTypes, Height, GapsOf
<1>3. Passing'
  BY <1>1, <1>2, Settled, SameChain DEF WatcherIInv, Passing, Accounted
<1>4. Resumable'
  BY <1>1, <1>2, Settled DEF WatcherIInv, Resumable
<1> QED
  BY <1>1, <1>2, <1>3, <1>4, Settled DEF WatcherIInv, Ordered, Fetching

LEMMA WatcherInvNext == WatcherIInv /\ [WatcherNext]_watching => WatcherIInv'
<1> SUFFICES ASSUME WatcherIInv, [WatcherNext]_watching PROVE WatcherIInv'
  OBVIOUS
<1>1. CASE Mine
  BY <1>1, MineKeeps
<1>2. CASE Reorg
  BY <1>2, ReorgKeeps
<1>3. CASE Begin
  BY <1>3, BeginKeeps
<1>4. CASE Continues
  BY <1>4, FetchKeeps, StoreKeeps, GivesUp, PassedKeeps, SaveKeeps DEF Continues
<1>5. CASE Crash
  BY <1>5, CrashKeeps
<1>6. CASE UNCHANGED watching
  BY <1>6, StutterKeeps
<1> QED
  BY <1>1, <1>2, <1>3, <1>4, <1>5, <1>6 DEF WatcherNext, NothingNew

LEMMA WatcherInv == WatcherSpec => []WatcherIInv
BY WatcherInvInit, WatcherInvNext, PTL DEF WatcherSpec

\* The watcher's state has its types; a gap is one of its kind of chain.
THEOREM WatcherTypeCorrect == WatcherSpec => []WatcherTypes
<1>1. WatcherIInv => WatcherTypes
  BY DEF WatcherIInv
<1> QED
  BY <1>1, WatcherInv, PTL

\* For any chain, endpoints, faults and parameters: no deposit before the cursor is
\* neither recorded nor lost to a known gap, every row is final, off Solana every row is a
\* deposit, and only a foreign line takes the nonce of a deposit.
THEOREM WatcherRowsMatchChain == WatcherSpec => []RowsMatchChain
<1>1. WatcherIInv => RowsMatchChain
  BY OnlyDeposits DEF WatcherIInv, Passing, Done, Solid, TakenBy, RowsMatchChain
<1> QED
  BY <1>1, WatcherInv, PTL

(***************************************************************************)
(* The names of transfers.  Every encoding yields the 56 words of NameOf,  *)
(* from which each field can be read back, and a field determines what it  *)
(* was encoded from.                                                       *)
(***************************************************************************)
\* Sequences of n words are the functions on 1..n into the numbers.
LEMMA WordsAre ==
  ASSUME NEW n \in Nat, NEW w \in Words(n)
  PROVE  w \in Seq(Nat) /\ Len(w) = n /\ DOMAIN w = 1..n /\ \A i \in 1..n : w[i] \in Nat
  BY LenProperties DEF Words

LEMMA WordsFrom ==
  ASSUME NEW n \in Nat, NEW e \in [1..n -> Nat]
  PROVE  e \in Words(n)
  BY DEF Words

LEMMA WordsEqual ==
  ASSUME NEW n \in Nat, NEW v \in Words(n), NEW w \in Words(n), \A i \in 1..n : v[i] = w[i]
  PROVE  v = w
  BY WordsAre, SeqEqual

\* Joined sequences of words.
LEMMA Join ==
  ASSUME NEW n \in Nat, NEW m \in Nat, NEW s \in Words(n), NEW f \in Words(m)
  PROVE  /\ s \o f \in Words(n + m)
         /\ \A i \in 1..(n + m) : (s \o f)[i] = IF i <= n THEN s[i] ELSE f[i - n]
<1>1. s \in Seq(Nat) /\ f \in Seq(Nat) /\ Len(s) = n /\ Len(f) = m
  BY DEF Words
<1>2. /\ s \o f \in Seq(Nat) /\ Len(s \o f) = Len(s) + Len(f)
      /\ \A i \in 1..(Len(s) + Len(f)) :
           (s \o f)[i] = IF i <= Len(s) THEN s[i] ELSE f[i - Len(s)]
  BY <1>1, ConcatProperties, Zenon
<1> QED
  BY <1>1, <1>2 DEF Words

\* Words copied into a buffer of 56.
LEMMA Copied ==
  ASSUME NEW b, DOMAIN b = 1..56, NEW m \in Nat, NEW s \in Words(m), NEW start \in Nat
  PROVE  /\ DOMAIN Copy(b, start, s) = 1..56
         /\ \A i \in 1..56 :
              Copy(b, start, s)[i] = IF start + 1 <= i /\ i <= start + m THEN s[i - start] ELSE b[i]
<1>1. Len(s) = m
  BY WordsAre
<1>2. Copy(b, start, s) = [i \in 1..56 |-> IF i - start \in 1..m THEN s[i - start] ELSE b[i]]
  BY <1>1 DEF Copy
<1>3. ASSUME NEW i \in 1..56
      PROVE  Copy(b, start, s)[i] = IF start + 1 <= i /\ i <= start + m THEN s[i - start] ELSE b[i]
  <2>1. Copy(b, start, s)[i] = IF i - start \in 1..m THEN s[i - start] ELSE b[i]
    BY <1>2
  <2>2. i - start \in 1..m <=> start + 1 <= i /\ i <= start + m
    OBVIOUS
  <2> QED
    BY <2>1, <2>2
<1> QED
  BY <1>2, <1>3

LEMMA CopyIsFunction ==
  ASSUME NEW b, DOMAIN b = 1..56, NEW s, NEW start \in Nat
  PROVE  Copy(b, start, s) = [i \in 1..56 |-> Copy(b, start, s)[i]]
  BY DEF Copy

LEMMA Padded ==
  ASSUME NEW w \in Seq(Nat), Len(w) \in {5, 8}
  PROVE  /\ LeftPadded(w) \in Words(8)
         /\ Len(w) = 8 => LeftPadded(w) = w
         /\ Len(w) = 5 => /\ \A i \in 1..3 : LeftPadded(w)[i] = 0
                          /\ \A i \in 1..5 : LeftPadded(w)[i + 3] = w[i]
<1>1. \A i \in 1..Len(w) : w[i] \in Nat
  BY LenProperties
<1>2. \A i \in 1..8 : LeftPadded(w)[i] = IF i + Len(w) > 8 THEN w[i + Len(w) - 8] ELSE 0
  BY DEF LeftPadded
<1>3. \A i \in 1..8 : LeftPadded(w)[i] \in Nat
  <2> TAKE i \in 1..8
  <2>1. CASE Len(w) = 8
    <3>1. LeftPadded(w)[i] = w[i]
      BY <1>2, <2>1
    <3>2. i \in 1..Len(w)
      BY <2>1
    <3> QED
      BY <1>1, <3>1, <3>2
  <2>2. CASE Len(w) = 5
    <3>1. CASE i > 3
      <4>1. LeftPadded(w)[i] = w[i - 3]
        BY <1>2, <2>2, <3>1
      <4>2. i - 3 \in 1..Len(w)
        BY <2>2, <3>1
      <4> QED
        BY <1>1, <4>1, <4>2
    <3>2. CASE i <= 3
      BY <1>2, <2>2, <3>2
    <3> QED
      BY <3>1, <3>2
  <2> QED
    BY <2>1, <2>2
<1>4. LeftPadded(w) \in [1..8 -> Nat]
  BY <1>3 DEF LeftPadded
<1>5. 8 \in Nat
  OBVIOUS
<1>6. LeftPadded(w) \in Words(8)
  BY <1>4, <1>5, WordsFrom, Zenon
<1>7. CASE Len(w) = 8
  <2>1. w \in Words(8)
    BY <1>7 DEF Words
  <2>2. \A i \in 1..8 : LeftPadded(w)[i] = w[i]
    BY <1>2, <1>7
  <2>3. LeftPadded(w) = w
    BY <1>5, <1>6, <2>1, <2>2, WordsEqual, Zenon
  <2> QED
    BY <1>6, <1>7, <2>3
<1>8. CASE Len(w) = 5
  BY <1>2, <1>6, <1>8
<1> QED
  BY <1>7, <1>8

LEMMA PaddedChain ==
  ASSUME NEW w \in Words(1)
  PROVE  /\ RightPadded(w) \in Words(8)
         /\ RightPadded(w)[1] = w[1] /\ \A i \in 2..8 : RightPadded(w)[i] = 0
<1>n. 1 \in Nat
  OBVIOUS
<1>w. Len(w) = 1 /\ \A i \in 1..1 : w[i] \in Nat
  BY <1>n, WordsAre, Zenon
<1>1. Len(w) = 1 /\ w[1] \in Nat
  BY <1>w
<1>2. \A i \in 1..8 : RightPadded(w)[i] = IF i = 1 THEN w[i] ELSE 0
  BY <1>1 DEF RightPadded
<1>3. RightPadded(w) \in [1..8 -> Nat] /\ 8 \in Nat
  BY <1>1, <1>2 DEF RightPadded
<1>4. RightPadded(w) \in Words(8)
  BY <1>3, WordsFrom, Zenon
<1> QED
  BY <1>2, <1>4

LEMMA BigEndianWords ==
  ASSUME NEW n \in Nat, NEW m \in Nat
  PROVE  /\ BigEndian(n, m) \in Words(m)
         /\ \A i \in 1..m : BigEndian(n, m)[i] = IF i = m THEN n ELSE 0
<1>1. BigEndian(n, m) \in [1..m -> Nat]
  BY DEF BigEndian
<1>2. BigEndian(n, m) \in Words(m)
  BY <1>1, WordsFrom, Zenon
<1> QED
  BY <1>2 DEF BigEndian

\* The seven fields in their slots.
FieldSet ==
  [srcChain : Words(1), destChain : Words(1), srcAccount : Words(8), destAccount : Words(8),
   token : Words(8), amount : Nat, nonce : Nat]

\* A word of a name.
WordAt(f, i) ==
  IF i = 1 THEN f.srcChain[1] ELSE
  IF i = 9 THEN f.destChain[1] ELSE
  IF i \in 17..24 THEN f.srcAccount[i - 16] ELSE
  IF i \in 25..32 THEN f.destAccount[i - 24] ELSE
  IF i \in 33..40 THEN f.token[i - 32] ELSE
  IF i = 48 THEN f.amount ELSE
  IF i = 56 THEN f.nonce ELSE 0

NameOf(f) == [i \in 1..56 |-> WordAt(f, i)]

LEMMA FieldTypes ==
  ASSUME NEW f \in FieldSet
  PROVE  /\ f.srcChain \in Words(1) /\ f.destChain \in Words(1) /\ f.srcAccount \in Words(8)
         /\ f.destAccount \in Words(8) /\ f.token \in Words(8) /\ f.amount \in Nat /\ f.nonce \in Nat
  BY DEF FieldSet

LEMMA LayoutNames ==
  ASSUME NEW f \in FieldSet
  PROVE  Layout(f, BigEndian(f.nonce, 2)) = NameOf(f)
<1> DEFINE b0 == Zeroed
           b1 == Copy(b0, 0, f.srcChain)
           b2 == Copy(b1, 8, f.destChain)
           b3 == Copy(b2, 16, f.srcAccount)
           b4 == Copy(b3, 24, f.destAccount)
           b5 == Copy(b4, 32, f.token)
           b6 == Copy(b5, 44, BigEndian(f.amount, 4))
           b7 == Copy(b6, 54, BigEndian(f.nonce, 2))
<1>n0. 0 \in Nat
  OBVIOUS
<1>n1. 1 \in Nat
  OBVIOUS
<1>n2. 2 \in Nat
  OBVIOUS
<1>n4. 4 \in Nat
  OBVIOUS
<1>n8. 8 \in Nat
  OBVIOUS
<1>n16. 16 \in Nat
  OBVIOUS
<1>n24. 24 \in Nat
  OBVIOUS
<1>n32. 32 \in Nat
  OBVIOUS
<1>n44. 44 \in Nat
  OBVIOUS
<1>n54. 54 \in Nat
  OBVIOUS
<1>t1. f.srcChain \in Words(1) /\ f.destChain \in Words(1)
  BY FieldTypes
<1>t2. f.srcAccount \in Words(8) /\ f.destAccount \in Words(8) /\ f.token \in Words(8)
  BY FieldTypes
<1>t3. f.amount \in Nat
  BY FieldTypes
<1>t4. f.nonce \in Nat
  BY FieldTypes
<1>1. DOMAIN b0 = 1..56 /\ \A i \in 1..56 : b0[i] = 0
  BY DEF Zeroed
<1>2. /\ DOMAIN b1 = 1..56
      /\ \A i \in 1..56 : b1[i] = IF 0 + 1 <= i /\ i <= 0 + 1 THEN f.srcChain[i - 0] ELSE b0[i]
  <2>1. Len(f.srcChain) = 1
    BY <1>n1, <1>t1, WordsAre, Zenon
  <2> HIDE DEF b0
  <2> QED
    BY <1>1, <2>1 DEF Copy
<1>3. /\ DOMAIN b2 = 1..56
      /\ \A i \in 1..56 : b2[i] = IF 8 + 1 <= i /\ i <= 8 + 1 THEN f.destChain[i - 8] ELSE b1[i]
  BY <1>n8, <1>n1, <1>2, <1>t1, Copied, Zenon
<1>4. /\ DOMAIN b3 = 1..56
      /\ \A i \in 1..56 : b3[i] = IF 16 + 1 <= i /\ i <= 16 + 8 THEN f.srcAccount[i - 16] ELSE b2[i]
  BY <1>n16, <1>n8, <1>3, <1>t2, Copied, Zenon
<1>5. /\ DOMAIN b4 = 1..56
      /\ \A i \in 1..56 : b4[i] = IF 24 + 1 <= i /\ i <= 24 + 8 THEN f.destAccount[i - 24] ELSE b3[i]
  BY <1>n24, <1>n8, <1>4, <1>t2, Copied, Zenon
<1>6. /\ DOMAIN b5 = 1..56
      /\ \A i \in 1..56 : b5[i] = IF 32 + 1 <= i /\ i <= 32 + 8 THEN f.token[i - 32] ELSE b4[i]
  BY <1>n32, <1>n8, <1>5, <1>t2, Copied, Zenon
<1>7. /\ BigEndian(f.amount, 4) \in Words(4)
      /\ \A i \in 1..4 : BigEndian(f.amount, 4)[i] = IF i = 4 THEN f.amount ELSE 0
  BY <1>n4, <1>t3, BigEndianWords, Zenon
<1>8. /\ BigEndian(f.nonce, 2) \in Words(2)
      /\ \A i \in 1..2 : BigEndian(f.nonce, 2)[i] = IF i = 2 THEN f.nonce ELSE 0
  BY <1>n2, <1>t4, BigEndianWords, Zenon
<1>9. /\ DOMAIN b6 = 1..56
      /\ \A i \in 1..56 :
           b6[i] = IF 44 + 1 <= i /\ i <= 44 + 4 THEN BigEndian(f.amount, 4)[i - 44] ELSE b5[i]
  BY <1>n44, <1>n4, <1>6, <1>7, Copied, Zenon
<1>10. /\ DOMAIN b7 = 1..56
       /\ \A i \in 1..56 :
            b7[i] = IF 54 + 1 <= i /\ i <= 54 + 2 THEN BigEndian(f.nonce, 2)[i - 54] ELSE b6[i]
  BY <1>n54, <1>n2, <1>9, <1>8, Copied, ZenonT(60)
<1>11. Layout(f, BigEndian(f.nonce, 2)) = b7
  BY DEF Layout
<1>12. b7 = [i \in 1..56 |-> b7[i]]
  BY <1>9, <1>n54, CopyIsFunction, Zenon
<1> HIDE DEF b0, b1, b2, b3, b4, b5, b6, b7
<1>13. \A i \in 1..56 : b7[i] = WordAt(f, i)
  <2> TAKE i \in 1..56
  <2>1. b3[i] = IF i = 1 THEN f.srcChain[1] ELSE IF i = 9 THEN f.destChain[1]
                ELSE IF i \in 17..24 THEN f.srcAccount[i - 16] ELSE 0
    BY <1>1, <1>2, <1>3, <1>4
  <2>2. b5[i] = IF i \in 33..40 THEN f.token[i - 32]
                ELSE IF i \in 25..32 THEN f.destAccount[i - 24] ELSE b3[i]
    BY <1>5, <1>6
  <2>3. b7[i] = IF i = 56 THEN f.nonce ELSE IF i = 55 THEN 0
                ELSE IF i = 48 THEN f.amount ELSE IF i \in 45..47 THEN 0 ELSE b5[i]
    BY <1>7, <1>8, <1>9, <1>10
  <2> QED
    BY <2>1, <2>2, <2>3 DEF WordAt
<1> QED
  BY <1>11, <1>12, <1>13 DEF NameOf

LEMMA NameWords == ASSUME NEW f \in FieldSet PROVE NameOf(f) \in Words(56)
<1>n1. 1 \in Nat
  OBVIOUS
<1>n8. 8 \in Nat
  OBVIOUS
<1>a. \A i \in 1..1 : f.srcChain[i] \in Nat /\ f.destChain[i] \in Nat
  BY <1>n1, FieldTypes, WordsAre, Zenon
<1>b. \A i \in 1..8 : f.srcAccount[i] \in Nat /\ f.destAccount[i] \in Nat /\ f.token[i] \in Nat
  BY <1>n8, FieldTypes, WordsAre, Zenon
<1>1. /\ f.srcChain[1] \in Nat /\ f.destChain[1] \in Nat /\ f.amount \in Nat /\ f.nonce \in Nat
      /\ \A i \in 1..8 : f.srcAccount[i] \in Nat /\ f.destAccount[i] \in Nat /\ f.token[i] \in Nat
  BY <1>a, <1>b, FieldTypes
<1>2. \A i \in 1..56 : WordAt(f, i) \in Nat
  BY <1>1 DEF WordAt
<1>3. NameOf(f) \in [1..56 -> Nat] /\ 56 \in Nat
  BY <1>2 DEF NameOf
<1> QED
  BY <1>3, WordsFrom, Zenon

LEMMA SolidityNames ==
  ASSUME NEW f \in FieldSet
  PROVE  computeXchainHashId(f) = NameOf(f)
<1> DEFINE s1 == RightPadded(f.srcChain)
           s2 == s1 \o RightPadded(f.destChain)
           s3 == s2 \o f.srcAccount
           s4 == s3 \o f.destAccount
           s5 == s4 \o f.token
           s6 == s5 \o BigEndian(f.amount, 8)
           s7 == s6 \o BigEndian(f.nonce, 8)
<1>n1. 8 \in Nat
  OBVIOUS
<1>n2. 8 + 8 \in Nat
  OBVIOUS
<1>n3. 8 + 8 + 8 \in Nat
  OBVIOUS
<1>n4. 8 + 8 + 8 + 8 \in Nat
  OBVIOUS
<1>n5. 8 + 8 + 8 + 8 + 8 \in Nat
  OBVIOUS
<1>n6. 8 + 8 + 8 + 8 + 8 + 8 \in Nat
  OBVIOUS
<1>n7. 56 \in Nat
  OBVIOUS
<1>n8. 8 + 8 + 8 + 8 + 8 + 8 + 8 = 56
  OBVIOUS
<1>t1. f.srcChain \in Words(1) /\ f.destChain \in Words(1)
  BY FieldTypes
<1>t2. f.srcAccount \in Words(8) /\ f.destAccount \in Words(8) /\ f.token \in Words(8)
  BY FieldTypes
<1>t3. f.amount \in Nat
  BY FieldTypes
<1>t4. f.nonce \in Nat
  BY FieldTypes
<1>1. s1 \in Words(8) /\ s1[1] = f.srcChain[1] /\ \A i \in 2..8 : s1[i] = 0
  BY <1>t1, PaddedChain, Zenon
<1>2. /\ RightPadded(f.destChain) \in Words(8) /\ RightPadded(f.destChain)[1] = f.destChain[1]
      /\ \A i \in 2..8 : RightPadded(f.destChain)[i] = 0
  BY <1>t1, PaddedChain, Zenon
<1>3. /\ s2 \in Words(8 + 8)
      /\ \A i \in 1..(8 + 8) : s2[i] = IF i <= 8 THEN s1[i] ELSE RightPadded(f.destChain)[i - 8]
  BY <1>n1, <1>1, <1>2, Join, Zenon
<1>4. /\ s3 \in Words(8 + 8 + 8)
      /\ \A i \in 1..(8 + 8 + 8) :
           s3[i] = IF i <= 8 + 8 THEN s2[i] ELSE f.srcAccount[i - (8 + 8)]
  BY <1>n1, <1>n2, <1>3, <1>t2, Join, Zenon
<1>5. /\ s4 \in Words(8 + 8 + 8 + 8)
      /\ \A i \in 1..(8 + 8 + 8 + 8) :
           s4[i] = IF i <= 8 + 8 + 8 THEN s3[i] ELSE f.destAccount[i - (8 + 8 + 8)]
  BY <1>n1, <1>n3, <1>4, <1>t2, Join, Zenon
<1>6. /\ s5 \in Words(8 + 8 + 8 + 8 + 8)
      /\ \A i \in 1..(8 + 8 + 8 + 8 + 8) :
           s5[i] = IF i <= 8 + 8 + 8 + 8 THEN s4[i] ELSE f.token[i - (8 + 8 + 8 + 8)]
  BY <1>n1, <1>n4, <1>5, <1>t2, Join, Zenon
<1>7. /\ BigEndian(f.amount, 8) \in Words(8)
      /\ \A i \in 1..8 : BigEndian(f.amount, 8)[i] = IF i = 8 THEN f.amount ELSE 0
  BY <1>n1, <1>t3, BigEndianWords, Zenon
<1>8. /\ BigEndian(f.nonce, 8) \in Words(8)
      /\ \A i \in 1..8 : BigEndian(f.nonce, 8)[i] = IF i = 8 THEN f.nonce ELSE 0
  BY <1>n1, <1>t4, BigEndianWords, Zenon
<1>9. /\ s6 \in Words(8 + 8 + 8 + 8 + 8 + 8)
      /\ \A i \in 1..(8 + 8 + 8 + 8 + 8 + 8) :
           s6[i] = IF i <= 8 + 8 + 8 + 8 + 8 THEN s5[i]
                   ELSE BigEndian(f.amount, 8)[i - (8 + 8 + 8 + 8 + 8)]
  BY <1>n1, <1>n5, <1>6, <1>7, Join, Zenon
<1>10. /\ s7 \in Words(8 + 8 + 8 + 8 + 8 + 8 + 8)
       /\ \A i \in 1..(8 + 8 + 8 + 8 + 8 + 8 + 8) :
            s7[i] = IF i <= 8 + 8 + 8 + 8 + 8 + 8 THEN s6[i]
                    ELSE BigEndian(f.nonce, 8)[i - (8 + 8 + 8 + 8 + 8 + 8)]
  BY <1>n1, <1>n6, <1>9, <1>8, Join, Zenon
<1>11. computeXchainHashId(f) = s7
  BY DEF computeXchainHashId
<1> HIDE DEF s1, s2, s3, s4, s5, s6, s7
<1>12. \A i \in 1..56 : s7[i] = WordAt(f, i)
  <2> TAKE i \in 1..56
  <2>1. CASE i <= 24
    <3>1. s7[i] = s3[i]
      BY <2>1, <1>10, <1>9, <1>6, <1>5
    <3>2. s3[i] = IF i = 1 THEN f.srcChain[1] ELSE IF i = 9 THEN f.destChain[1]
                  ELSE IF i \in 17..24 THEN f.srcAccount[i - 16] ELSE 0
      BY <2>1, <1>4, <1>3, <1>2, <1>1
    <3> QED
      BY <2>1, <3>1, <3>2 DEF WordAt
  <2>2. CASE i > 24 /\ i <= 40
    BY <2>2, <1>10, <1>9, <1>6, <1>5 DEF WordAt
  <2>3. CASE i > 40
    BY <2>3, <1>10, <1>9, <1>7, <1>8 DEF WordAt
  <2> QED
    BY <2>1, <2>2, <2>3
<1>13. \A i \in 1..56 : NameOf(f)[i] = WordAt(f, i)
  BY DEF NameOf
<1>14. \A i \in 1..56 : s7[i] = NameOf(f)[i]
  BY <1>12, <1>13, Zenon
<1>15. s7 \in Words(56)
  BY <1>n8, <1>10
<1> QED
  BY <1>15, <1>11, <1>14, NameWords, WordsEqual, <1>n7, Zenon

LEMMA NamesApart ==
  ASSUME NEW f \in FieldSet, NEW g \in FieldSet, NameOf(f) = NameOf(g)
  PROVE  f = g
<1>1. \A i \in 1..56 : WordAt(f, i) = WordAt(g, i)
  BY DEF NameOf
<1>2. f.srcChain[1] = g.srcChain[1] /\ f.destChain[1] = g.destChain[1]
  BY <1>1 DEF WordAt
<1>3. f.amount = g.amount /\ f.nonce = g.nonce
  <2>1. WordAt(f, 48) = f.amount /\ WordAt(g, 48) = g.amount
    BY DEF WordAt
  <2>2. WordAt(f, 56) = f.nonce /\ WordAt(g, 56) = g.nonce
    BY DEF WordAt
  <2> QED
    BY <1>1, <2>1, <2>2
<1>4. \A i \in 1..8 : f.srcAccount[i] = g.srcAccount[i]
  <2> TAKE i \in 1..8
  <2>1. WordAt(f, i + 16) = f.srcAccount[i] /\ WordAt(g, i + 16) = g.srcAccount[i]
    BY DEF WordAt
  <2> QED
    BY <1>1, <2>1
<1>5. \A i \in 1..8 : f.destAccount[i] = g.destAccount[i]
  <2> TAKE i \in 1..8
  <2>1. WordAt(f, i + 24) = f.destAccount[i] /\ WordAt(g, i + 24) = g.destAccount[i]
    BY DEF WordAt
  <2> QED
    BY <1>1, <2>1
<1>6. \A i \in 1..8 : f.token[i] = g.token[i]
  <2> TAKE i \in 1..8
  <2>1. WordAt(f, i + 32) = f.token[i] /\ WordAt(g, i + 32) = g.token[i]
    BY DEF WordAt
  <2> QED
    BY <1>1, <2>1
<1>7. 1 \in Nat /\ 8 \in Nat
  OBVIOUS
<1>8. \A i \in 1..1 : f.srcChain[i] = g.srcChain[i] /\ f.destChain[i] = g.destChain[i]
  BY <1>2
<1>9. f.srcChain = g.srcChain /\ f.destChain = g.destChain
  BY <1>7, <1>8, FieldTypes, WordsEqual
<1>10. f.srcAccount = g.srcAccount /\ f.destAccount = g.destAccount /\ f.token = g.token
  BY <1>4, <1>5, <1>6, <1>7, FieldTypes, WordsEqual, Zenon
<1> QED
  BY <1>3, <1>9, <1>10 DEF FieldSet
\* What a transfer is made of.
LEMMA TransferParts ==
  ASSUME NEW t \in Transfers
  PROVE  /\ t.from \in DOMAIN Kind /\ t.to \in DOMAIN Kind
         /\ t.sender \in Seq(Nat) /\ IsAccount(t.from, t.sender)
         /\ t.recipient \in Seq(Nat) /\ IsAccount(t.to, t.recipient)
         /\ t.token.native \in BOOLEAN /\ t.token.account \in Seq(Nat) /\ t.token.digest \in Seq(Nat)
         /\ IsToken(t.to, t.token) /\ t.amount \in Nat /\ t.nonce \in Nat
         /\ t = [from |-> t.from, to |-> t.to, sender |-> t.sender, recipient |-> t.recipient,
                 token |-> t.token, amount |-> t.amount, nonce |-> t.nonce]
         /\ t.token = [native |-> t.token.native, account |-> t.token.account,
                       digest |-> t.token.digest]
<1>1. t \in [from : DOMAIN Kind, to : DOMAIN Kind, sender : Seq(Nat), recipient : Seq(Nat),
             token : [native : BOOLEAN, account : Seq(Nat), digest : Seq(Nat)],
             amount : Nat, nonce : Nat]
  BY NamesAssumption
<1>2. t.token \in [native : BOOLEAN, account : Seq(Nat), digest : Seq(Nat)]
  BY <1>1
<1>3. IsAccount(t.from, t.sender) /\ IsAccount(t.to, t.recipient) /\ IsToken(t.to, t.token)
  BY NamesAssumption
<1>4. /\ t.from \in DOMAIN Kind /\ t.to \in DOMAIN Kind /\ t.sender \in Seq(Nat)
      /\ t.recipient \in Seq(Nat) /\ t.amount \in Nat /\ t.nonce \in Nat
      /\ t = [from |-> t.from, to |-> t.to, sender |-> t.sender, recipient |-> t.recipient,
              token |-> t.token, amount |-> t.amount, nonce |-> t.nonce]
  BY <1>1
<1>5. /\ t.token.native \in BOOLEAN /\ t.token.account \in Seq(Nat) /\ t.token.digest \in Seq(Nat)
      /\ t.token = [native |-> t.token.native, account |-> t.token.account,
                    digest |-> t.token.digest]
  BY <1>2
<1> QED
  BY <1>3, <1>4, <1>5, Zenon

LEMMA Kinds == ASSUME NEW c \in DOMAIN Kind
               PROVE  Kind[c] = "evm" \/ Kind[c] = "terra" \/ Kind[c] = "solana"
  BY NamesAssumption

\* The slot of an account is a hash's length; every encoder of its chain agrees on it; and
\* it determines the account.
LEMMA SlotWords ==
  ASSUME NEW c \in DOMAIN Kind, NEW a \in Seq(Nat), IsAccount(c, a)
  PROVE  /\ Len(a) \in {5, 8}
         /\ AccountSlot(c, a) \in Words(8)
         /\ Len(a) = 8 => AccountSlot(c, a) = a
         /\ Len(a) = 5 => AccountSlot(c, a) = LeftPadded(a)
         /\ Kind[c] = "evm" => AccountSlot(c, a) = addressToBytes32(a)
         /\ Kind[c] = "terra" => AccountSlot(c, a) = encode_terra_address(a)
         /\ Kind[c] = "solana" => AccountSlot(c, a) = a
<1>1. Len(a) \in {5, 8} /\ (Len(a) = 8 => Kind[c] # "evm") /\ (Len(a) = 5 => Kind[c] # "solana")
  <2>1. CASE Kind[c] = "evm"
    <3>1. Len(a) = 5
      BY <2>1 DEF IsAccount
    <3> QED
      BY <2>1, <3>1
  <2>2. CASE Kind[c] = "terra"
    <3>1. Len(a) = 5 \/ Len(a) = 8
      BY <2>2 DEF IsAccount, IsHash
    <3> QED
      BY <2>2, <3>1
  <2>3. CASE Kind[c] = "solana"
    <3>1. Len(a) = 8
      BY <2>3 DEF IsAccount
    <3> QED
      BY <2>3, <3>1
  <2> QED
    BY <2>1, <2>2, <2>3, Kinds
<1>2. Len(a) = 8 => LeftPadded(a) = a
  BY <1>1, Padded
<1>3. LeftPadded(a) \in Words(8)
  BY <1>1, Padded
<1>4. /\ Kind[c] = "evm" => AccountSlot(c, a) = LeftPadded(a)
      /\ Kind[c] = "terra" => AccountSlot(c, a) = LeftPadded(a)
      /\ Kind[c] = "solana" => AccountSlot(c, a) = a
  BY <1>1, <1>2 DEF AccountSlot, address_to_bytes32, encode_terra_address_to_bytes32, pubkey_to_bytes32
<1>5. Len(a) = 8 => AccountSlot(c, a) = a
  BY <1>1, <1>2, <1>4, Kinds
<1>6. Len(a) = 5 => AccountSlot(c, a) = LeftPadded(a)
  BY <1>1, <1>4, Kinds
<1>7. AccountSlot(c, a) \in Words(8)
  BY <1>2, <1>3, <1>5, <1>6, <1>1
<1> QED
  BY <1>1, <1>4, <1>5, <1>6, <1>7 DEF addressToBytes32, encode_terra_address

LEMMA PaddedApart ==
  ASSUME NEW a \in Seq(Nat), NEW b \in Seq(Nat), Len(a) = 5, Len(b) = 5, LeftPadded(a) = LeftPadded(b)
  PROVE  a = b
<1>1. \A i \in 1..5 : LeftPadded(a)[i + 3] = a[i]
  BY Padded
<1>2. \A i \in 1..5 : LeftPadded(b)[i + 3] = b[i]
  BY Padded
<1>3. \A i \in 1..5 : a[i] = b[i]
  BY <1>1, <1>2
<1> QED
  BY <1>3, SeqEqual

LEMMA HashNotPadded ==
  ASSUME NEW h, IsHash(h), NEW a \in Seq(Nat), Len(a) = 5
  PROVE  h # LeftPadded(a)
<1>1. \A i \in 1..3 : LeftPadded(a)[i] = 0
  BY Padded
<1> QED
  BY <1>1 DEF IsHash

LEMMA SlotsApart ==
  ASSUME NEW c \in DOMAIN Kind, NEW a \in Seq(Nat), NEW b \in Seq(Nat),
         IsAccount(c, a), IsAccount(c, b), AccountSlot(c, a) = AccountSlot(c, b)
  PROVE  a = b
<1>1. Len(a) \in {5, 8} /\ Len(b) \in {5, 8}
  BY SlotWords
<1>2. CASE Len(a) = 8 /\ Len(b) = 8
  BY <1>2, SlotWords
<1>3. CASE Len(a) = 5 /\ Len(b) = 5
  <2>1. LeftPadded(a) = LeftPadded(b)
    BY <1>3, SlotWords
  <2> QED
    BY <1>3, <2>1, PaddedApart
<1>4. CASE Len(a) = 8 /\ Len(b) = 5
  <2>1. a = LeftPadded(b)
    BY <1>4, SlotWords
  <2>2. IsHash(a)
    BY <1>4, Kinds DEF IsAccount
  <2> QED
    BY <1>4, <2>1, <2>2, HashNotPadded
<1>5. CASE Len(a) = 5 /\ Len(b) = 8
  <2>1. b = LeftPadded(a)
    BY <1>5, SlotWords
  <2>2. IsHash(b)
    BY <1>5, Kinds DEF IsAccount
  <2> QED
    BY <1>5, <2>1, <2>2, HashNotPadded
<1> QED
  BY <1>1, <1>2, <1>3, <1>4, <1>5

\* So too of a token.
LEMMA TokenWords ==
  ASSUME NEW t \in Transfers
  PROVE  /\ TokenSlot(t.to, t.token) \in Words(8)
         /\ Kind[t.to] = "evm" => TokenSlot(t.to, t.token) = addressToBytes32(t.token.account)
         /\ Kind[t.to] = "terra" => TokenSlot(t.to, t.token) = encode_token_address(t.token)
         /\ Kind[t.to] = "solana" => TokenSlot(t.to, t.token) = t.token.account
         /\ t.token.native => TokenSlot(t.to, t.token) = t.token.digest
         /\ ~t.token.native => TokenSlot(t.to, t.token) = AccountSlot(t.to, t.token.account)
<1>1. t.to \in DOMAIN Kind /\ IsToken(t.to, t.token) /\ t.token.native \in BOOLEAN
      /\ t.token.account \in Seq(Nat) /\ t.token.digest \in Seq(Nat)
  BY TransferParts
<1>2. CASE t.token.native
  <2>1. /\ Kind[t.to] = "terra" /\ Len(t.token.digest) = 8
    BY <1>1, <1>2 DEF IsToken, IsHash
  <2>2. t.token.digest \in Words(8)
    BY <1>1, <2>1 DEF Words
  <2>3. TokenSlot(t.to, t.token) = t.token.digest
    BY <1>2, <2>1 DEF TokenSlot, encode_terra_token_address
  <2>4. encode_token_address(t.token) = t.token.digest
    BY <1>2 DEF encode_token_address
  <2> QED
    BY <1>2, <2>1, <2>2, <2>3, <2>4
<1>3. CASE ~t.token.native
  <2>1. IsAccount(t.to, t.token.account)
    BY <1>1, <1>3 DEF IsToken
  <2>2. TokenSlot(t.to, t.token) = AccountSlot(t.to, t.token.account)
    BY <1>3 DEF TokenSlot, encode_terra_token_address, AccountSlot
  <2>3. encode_token_address(t.token) = encode_terra_address(t.token.account)
    BY <1>3 DEF encode_token_address
  <2> QED
    BY <1>1, <1>3, <2>1, <2>2, <2>3, SlotWords
<1> QED
  BY <1>1, <1>2, <1>3

LEMMA FieldsTyped == ASSUME NEW t \in Transfers PROVE Fields(t) \in FieldSet
<1>1. ChainId[t.from] \in Words(1) /\ ChainId[t.to] \in Words(1)
  BY TransferParts, NamesAssumption
<1>2. AccountSlot(t.from, t.sender) \in Words(8) /\ AccountSlot(t.to, t.recipient) \in Words(8)
  BY TransferParts, SlotWords
<1>3. TokenSlot(t.to, t.token) \in Words(8) /\ t.amount \in Nat /\ t.nonce \in Nat
  BY TransferParts, TokenWords
<1> QED
  BY <1>1, <1>2, <1>3 DEF Fields, FieldSet

\* The four encodings.
LEMMA AllAgree ==
  ASSUME NEW f \in FieldSet
  PROVE  /\ computeXchainHashId(f) = NameOf(f) /\ TerraHashId(f) = NameOf(f)
         /\ compute_transfer_hash(f) = NameOf(f) /\ compute_xchain_hash_id(f) = NameOf(f)
  BY SolidityNames, LayoutNames DEF TerraHashId, compute_transfer_hash, compute_xchain_hash_id

LEMMA DepositNames == ASSUME NEW t \in Transfers PROVE DepositName(t) = NameOf(Fields(t))
<1>1. /\ Kind[t.from] = "evm" => AccountSlot(t.from, t.sender) = addressToBytes32(t.sender)
      /\ Kind[t.from] = "terra" => AccountSlot(t.from, t.sender) = encode_terra_address(t.sender)
      /\ Kind[t.from] = "solana" => AccountSlot(t.from, t.sender) = pubkey_to_bytes32(t.sender)
  BY TransferParts, SlotWords DEF pubkey_to_bytes32
<1>2. \A slot : slot = AccountSlot(t.from, t.sender) => [Fields(t) EXCEPT !.srcAccount = slot] = Fields(t)
  BY DEF Fields
<1>3. Kind[t.from] = "evm" \/ Kind[t.from] = "terra" \/ Kind[t.from] = "solana"
  BY TransferParts, Kinds
<1> QED
  BY <1>1, <1>2, <1>3, FieldsTyped, AllAgree DEF DepositName

LEMMA WithdrawNames == ASSUME NEW t \in Transfers PROVE WithdrawName(t) = NameOf(Fields(t))
<1> DEFINE f == Fields(t)
<1>1. f \in FieldSet /\ f.destAccount = AccountSlot(t.to, t.recipient)
      /\ f.token = TokenSlot(t.to, t.token)
  BY FieldsTyped DEF Fields
<1>2. CASE Kind[t.to] = "evm"
  <2>1. addressToBytes32(t.token.account) = f.token
    BY <1>1, <1>2, TokenWords
  <2>2. [f EXCEPT !.token = f.token] = f
    BY <1>1 DEF FieldSet
  <2>3. WithdrawName(t) = computeXchainHashId([f EXCEPT !.token = addressToBytes32(t.token.account)])
    BY <1>2 DEF WithdrawName
  <2> QED
    BY <1>1, <2>1, <2>2, <2>3, AllAgree
<1>3. CASE Kind[t.to] = "terra"
  <2>1. encode_terra_address(t.recipient) = f.destAccount /\ encode_token_address(t.token) = f.token
    BY <1>1, <1>3, TokenWords, TransferParts, SlotWords
  <2>2. [f EXCEPT !.destAccount = f.destAccount, !.token = f.token] = f
    BY <1>1 DEF FieldSet
  <2>3. WithdrawName(t) = TerraHashId([f EXCEPT !.destAccount = encode_terra_address(t.recipient),
                                                !.token = encode_token_address(t.token)])
    BY <1>3 DEF WithdrawName
  <2> QED
    BY <1>1, <2>1, <2>2, <2>3, AllAgree
<1>4. CASE Kind[t.to] = "solana"
  <2>1. t.recipient = f.destAccount /\ t.token.account = f.token
    BY <1>1, <1>4, TokenWords, TransferParts, SlotWords
  <2>2. [f EXCEPT !.destAccount = f.destAccount, !.token = f.token] = f
    BY <1>1 DEF FieldSet
  <2>3. WithdrawName(t) = compute_transfer_hash([f EXCEPT !.destAccount = t.recipient,
                                                          !.token = t.token.account])
    BY <1>4 DEF WithdrawName
  <2> QED
    BY <1>1, <2>1, <2>2, <2>3, AllAgree
<1> QED
  BY <1>2, <1>3, <1>4, TransferParts, Kinds

\* The fields determine the transfer.
LEMMA TransfersApart ==
  ASSUME NEW s \in Transfers, NEW t \in Transfers, Fields(s) = Fields(t)
  PROVE  s = t
<1>1. /\ ChainId[s.from] = ChainId[t.from] /\ ChainId[s.to] = ChainId[t.to]
      /\ AccountSlot(s.from, s.sender) = AccountSlot(t.from, t.sender)
      /\ AccountSlot(s.to, s.recipient) = AccountSlot(t.to, t.recipient)
      /\ TokenSlot(s.to, s.token) = TokenSlot(t.to, t.token)
      /\ s.amount = t.amount /\ s.nonce = t.nonce
  BY DEF Fields
<1>2. s.from = t.from /\ s.to = t.to
  BY <1>1, TransferParts, NamesAssumption
<1>3. s.sender = t.sender /\ s.recipient = t.recipient
  BY <1>1, <1>2, TransferParts, SlotsApart
<1>4. s.token = t.token
  <2>1. ASSUME NEW u \in Transfers PROVE
          /\ u.token.native => IsHash(u.token.digest) /\ u.token.account = <<>>
          /\ ~u.token.native => /\ IsAccount(u.to, u.token.account) /\ u.token.digest = <<>>
                                /\ Len(u.token.account) \in {5, 8}
    BY TransferParts, SlotWords DEF IsToken
  <2>2. \A u, v \in Transfers :
          u.token.native /\ ~v.token.native => TokenSlot(u.to, u.token) # TokenSlot(v.to, v.token)
    <3> SUFFICES ASSUME NEW u \in Transfers, NEW v \in Transfers, u.token.native, ~v.token.native
                 PROVE  TokenSlot(u.to, u.token) # TokenSlot(v.to, v.token)
      OBVIOUS
    <3>1. TokenSlot(u.to, u.token) = u.token.digest /\ IsHash(u.token.digest)
      BY <2>1, TokenWords
    <3>2. /\ TokenSlot(v.to, v.token) = AccountSlot(v.to, v.token.account)
          /\ IsAccount(v.to, v.token.account) /\ v.token.account \in Seq(Nat) /\ v.to \in DOMAIN Kind
          /\ Len(v.token.account) \in {5, 8}
      BY <2>1, TokenWords, TransferParts
    <3>3. CASE Len(v.token.account) = 8
      <4>1. TokenSlot(v.to, v.token) = v.token.account
        BY <3>2, <3>3, SlotWords
      <4>2. u.token.digest # v.token.account
        BY NamesAssumption
      <4> QED
        BY <3>1, <4>1, <4>2
    <3>4. CASE Len(v.token.account) = 5
      BY <3>1, <3>2, <3>4, SlotWords, HashNotPadded
    <3> QED
      BY <3>2, <3>3, <3>4
  <2>3. CASE s.token.native /\ t.token.native
    <3>1. s.token.digest = t.token.digest /\ s.token.account = t.token.account
      BY <1>1, <2>1, <2>3, TokenWords
    <3> QED
      BY <2>3, <3>1, TransferParts
  <2>4. CASE ~s.token.native /\ ~t.token.native
    <3>1. AccountSlot(s.to, s.token.account) = AccountSlot(s.to, t.token.account)
      BY <1>1, <1>2, <2>4, TokenWords
    <3>2. s.token.account = t.token.account
      <4>1. /\ IsAccount(s.to, s.token.account) /\ IsAccount(s.to, t.token.account)
            /\ s.token.account \in Seq(Nat) /\ t.token.account \in Seq(Nat) /\ s.to \in DOMAIN Kind
        BY <1>2, <2>1, <2>4, TransferParts
      <4> QED
        BY <3>1, <4>1, SlotsApart
    <3>3. s.token.digest = t.token.digest
      BY <2>1, <2>4
    <3> QED
      BY <2>4, <3>2, <3>3, TransferParts
  <2> QED
    BY <1>1, <2>2, <2>3, <2>4
<1> QED
  BY <1>1, <1>2, <1>3, <1>4, TransferParts

\* A deposit and a withdrawal have the same name exactly if they are the same transfer.
LEMMA NameMeansTransfer ==
  ASSUME NEW s \in Transfers, NEW t \in Transfers
  PROVE  DepositName(s) = WithdrawName(t) <=> s = t
<1>1. DepositName(s) = NameOf(Fields(s)) /\ WithdrawName(t) = NameOf(Fields(t))
  BY DepositNames, WithdrawNames
<1>2. ASSUME NameOf(Fields(s)) = NameOf(Fields(t)) PROVE s = t
  BY <1>2, FieldsTyped, NamesApart, TransfersApart
<1> QED
  BY <1>1, <1>2

\* What is paid is the account that was named.
LEMMA PaysRecipient == ASSUME NEW t \in Transfers PROVE Payee(t) = t.recipient
<1>1. CASE Kind[t.to] = "evm"
  <2>1. t.recipient \in Seq(Nat) /\ Len(t.recipient) = 5 /\ t.to \in DOMAIN Kind
    BY <1>1, TransferParts DEF IsAccount
  <2>2. AccountSlot(t.to, t.recipient) = LeftPadded(t.recipient)
    BY <1>1 DEF AccountSlot, address_to_bytes32
  <2>3. SubSeq(LeftPadded(t.recipient), 4, 8) = [i \in 1..5 |-> LeftPadded(t.recipient)[i + 3]]
    BY DEF LeftPadded
  <2>4. \A i \in 1..5 : LeftPadded(t.recipient)[i + 3] = t.recipient[i]
    BY <2>1, Padded
  <2>5. DOMAIN t.recipient = 1..5 /\ t.recipient = [i \in DOMAIN t.recipient |-> t.recipient[i]]
    BY <2>1
  <2>6. SubSeq(LeftPadded(t.recipient), 4, 8) = t.recipient
    BY <2>3, <2>4, <2>5
  <2> QED
    BY <1>1, <2>2, <2>6 DEF Payee, bytes32ToAddress
<1>2. CASE Kind[t.to] # "evm"
  BY <1>2 DEF Payee
<1> QED
  BY <1>1, <1>2

\* A bridge stores the name it computed, of a transfer of its own.
NamesInv ==
  /\ \/ deposited = Unnamed
     \/ \E t \in Transfers : deposited = [transfer |-> t, name |-> DepositName(t)]
  /\ \/ submitted = Unnamed
     \/ \E t \in Transfers : submitted = [transfer |-> t, name |-> WithdrawName(t)]
  /\ submitted # Unnamed => deposited # Unnamed

THEOREM TransferNamesAgree == NamesSpec => []NamesAgree
<1>1. NamesInit => NamesInv
  BY DEF NamesInit, NamesInv
<1>2. NamesInv /\ [NamesNext]_naming => NamesInv'
  <2> SUFFICES ASSUME NamesInv, [NamesNext]_naming PROVE NamesInv'
    OBVIOUS
  <2>1. CASE NameOthers
    BY <2>1 DEF NameOthers, NamesInv
  <2>2. ASSUME NEW t \in Transfers, NameDeposit(t) PROVE NamesInv'
    BY <2>2 DEF NameDeposit, NamesInv
  <2>3. ASSUME NEW t \in Transfers, NameWithdrawal(t) PROVE NamesInv'
    BY <2>3 DEF NameWithdrawal, NamesInv
  <2>4. CASE UNCHANGED naming
    BY <2>4 DEF naming, NamesInv
  <2> QED
    BY <2>1, <2>2, <2>3, <2>4 DEF NamesNext
<1>3. NamesInv => NamesAgree
  <2> SUFFICES ASSUME NamesInv, submitted # Unnamed
               PROVE  /\ submitted.name = deposited.name <=> submitted.transfer = deposited.transfer
                      /\ submitted.name = Recomputed(submitted.transfer)
                      /\ Payee(submitted.transfer) = submitted.transfer.recipient
    BY DEF NamesAgree
  <2>1. PICK s \in Transfers : deposited = [transfer |-> s, name |-> DepositName(s)]
    BY DEF NamesInv
  <2>2. PICK t \in Transfers : submitted = [transfer |-> t, name |-> WithdrawName(t)]
    BY DEF NamesInv
  <2>3. DepositName(s) = WithdrawName(t) <=> s = t
    BY NameMeansTransfer
  <2>4. WithdrawName(t) = Recomputed(t)
    BY WithdrawNames, FieldsTyped, AllAgree DEF Recomputed
  <2> QED
    BY <2>1, <2>2, <2>3, <2>4, PaysRecipient
<1> QED
  BY <1>1, <1>2, <1>3, PTL DEF NamesSpec

(***************************************************************************)
(* The record of deposits.                                                 *)
(***************************************************************************)
RowsInv ==
  /\ row \in [Recorded -> {"none", "pending", "processed"}] /\ approved \subseteq Recorded
  /\ RowsSettled

\* An EVM row of the nonce of an approval may be marked, and the rows of the approval itself.
LEMMA NonceMarked ==
  ASSUME RowsInv, NEW t \in Recorded, approved' = approved \cup {t}, Kind[t.to] = "evm",
         NEW d \in From("evm"), d \in Recorded, d.nonce = t.nonce, row' = Processed({d})
  PROVE  RowsInv'
<1>1. row' \in [Recorded -> {"none", "pending", "processed"}] /\ approved' \subseteq Recorded
  BY DEF RowsInv, Processed
<1>2. ASSUME NEW e \in Recorded, row'[e] = "processed"
      PROVE  \/ e \in approved'
             \/ e \in From("evm") /\ \E s \in approved' : Kind[s.to] = "evm" /\ s.nonce = e.nonce
  BY <1>2 DEF RowsInv, RowsSettled, Processed
<1>3. RowsSettled'
  BY <1>2 DEF RowsSettled, From
<1> QED
  BY <1>1, <1>3 DEF RowsInv

LEMMA OwnMarked ==
  ASSUME RowsInv, NEW t \in Recorded, approved' = approved \cup {t}, NEW ts \in SUBSET {t},
         row' = Processed(ts)
  PROVE  RowsInv'
<1>1. row' \in [Recorded -> {"none", "pending", "processed"}] /\ approved' \subseteq Recorded
  BY DEF RowsInv, Processed
<1>2. ASSUME NEW e \in Recorded, row'[e] = "processed"
      PROVE  \/ e \in approved'
             \/ e \in From("evm") /\ \E s \in approved' : Kind[s.to] = "evm" /\ s.nonce = e.nonce
  BY <1>2 DEF RowsInv, RowsSettled, Processed
<1>3. RowsSettled'
  BY <1>2 DEF RowsSettled, From
<1> QED
  BY <1>1, <1>3 DEF RowsInv

LEMMA Unmarked ==
  ASSUME RowsInv, NEW t \in Recorded, approved' = approved \cup {t}, UNCHANGED row
  PROVE  RowsInv'
<1>1. RowsSettled'
  BY DEF RowsInv, RowsSettled, From
<1> QED
  BY <1>1 DEF RowsInv

LEMMA RowSets == \A k, n : From(k) \subseteq Recorded
                              /\ EvmRowsByNonce(n) \subseteq From("evm")
                              /\ TerraRowsByNonce(n) \subseteq From("terra")
  BY DEF From, EvmRowsByNonce, TerraRowsByNonce, Pending

THEOREM RowsAreSettled == RowsSpec => []RowsSettled
<1>1. RowsInit => RowsInv
  BY DEF RowsInit, RowsInv, RowsSettled
<1>2. RowsInv /\ [RowsNext]_recording => RowsInv'
  <2> SUFFICES ASSUME RowsInv, [RowsNext]_recording PROVE RowsInv'
    OBVIOUS
  <2>1. ASSUME NEW t \in Recorded, Record(t) PROVE RowsInv'
    <3>1. /\ row' = [row EXCEPT ![t] = IF @ = "none" THEN "pending" ELSE @] /\ approved' = approved
          /\ row \in [Recorded -> {"none", "pending", "processed"}]
      BY <2>1 DEF Record, RowsInv
    <3>2. /\ row' \in [Recorded -> {"none", "pending", "processed"}]
          /\ \A d \in Recorded : row'[d] = "processed" => row[d] = "processed"
      BY <3>1
    <3> QED
      BY <3>1, <3>2 DEF RowsInv, RowsSettled, From
  <2>2. ASSUME NEW t \in Recorded, ApproveOnEvm(t) PROVE RowsInv'
    <3>1. approved' = approved \cup {t} /\ Kind[t.to] = "evm"
      BY <2>2 DEF ApproveOnEvm, Approves
    <3> DEFINE own == IF Kind[t.from] = "terra" THEN TerraRowsByNonce(t.nonce) ELSE {}
    <3>2. \/ \E d \in EvmRowsByNonce(t.nonce) \cup own : row' = Processed({d})
          \/ UNCHANGED row
      BY <2>2 DEF ApproveOnEvm
    <3>3. ASSUME NEW d \in EvmRowsByNonce(t.nonce), row' = Processed({d}) PROVE RowsInv'
      <4>1. d \in From("evm") /\ d \in Recorded /\ d.nonce = t.nonce
        BY <3>3, RowSets DEF EvmRowsByNonce
      <4> QED
        BY <3>1, <3>3, <4>1, NonceMarked
    <3>4. ASSUME NEW d \in own, row' = Processed({d}) PROVE RowsInv'
      <4>1. /\ Kind[t.from] = "terra" /\ d \in From("terra") /\ d \in Recorded /\ d.nonce = t.nonce
        BY <3>4, RowSets DEF TerraRowsByNonce
      <4>2. d = t
        BY <4>1, NoncesAssumption DEF From
      <4> QED
        BY <3>1, <3>4, <4>2, OwnMarked
    <3> QED
      BY <3>1, <3>2, <3>3, <3>4, Unmarked
  <2>3. ASSUME NEW t \in Recorded, ApproveOnTerra(t) PROVE RowsInv'
    <3>1. /\ approved' = approved \cup {t}
          /\ \/ \E d \in CosmosRows(t.from, t.nonce) : row' = Processed({d})
             \/ UNCHANGED row
      BY <2>3 DEF ApproveOnTerra, Approves
    <3>2. ASSUME NEW d \in CosmosRows(t.from, t.nonce), row' = Processed({d}) PROVE RowsInv'
      <4>1. d \in Recorded /\ d.from = t.from /\ d.nonce = t.nonce
        BY <3>2, RowSets DEF CosmosRows, EvmRowsByNonce
      <4>2. d = t
        BY <4>1, NoncesAssumption
      <4>3. approved' = approved \cup {t}
        BY <3>1
      <4> QED
        BY <3>2, <4>2, <4>3, OwnMarked
    <3> QED
      BY <3>1, <3>2, Unmarked
  <2>4. ASSUME NEW t \in Recorded, ApproveOnSolana(t) PROVE RowsInv'
    <3> DEFINE Named(k) == {d \in Pending(From(k)) : DepositName(d) = WithdrawName(t)}
    <3>1. approved' = approved \cup {t}
      BY <2>4 DEF ApproveOnSolana, Approves
    <3>2. \/ UNCHANGED row \/ row' = Processed(Named("evm"))
          \/ row' = Processed(Named("evm") \cup Named("terra"))
      BY <2>4 DEF ApproveOnSolana
    <3>3. \A k : Named(k) \in SUBSET {t}
      <4> TAKE k
      <4>1. ASSUME NEW d \in Named(k) PROVE d \in Recorded /\ d = t
        <5>1. d \in Recorded /\ DepositName(d) = WithdrawName(t)
          BY DEF Pending, From
        <5>2. d \in Transfers /\ t \in Transfers
          BY <5>1, NoncesAssumption
        <5> QED
          BY <5>1, <5>2, NameMeansTransfer
      <4> QED
        BY <4>1
    <3> HIDE DEF Named
    <3>4. Named("evm") \cup Named("terra") \in SUBSET {t}
      BY <3>3
    <3>5. CASE UNCHANGED row
      BY <3>1, <3>5, Unmarked
    <3>6. ASSUME NEW ts \in SUBSET {t}, row' = Processed(ts) PROVE RowsInv'
      BY <3>1, <3>6, OwnMarked
    <3> QED
      BY <3>2, <3>3, <3>4, <3>5, <3>6
  <2>5. CASE UNCHANGED recording
    BY <2>5 DEF recording, RowsInv, RowsSettled, From
  <2> QED
    BY <2>1, <2>2, <2>3, <2>4, <2>5 DEF RowsNext
<1>3. RowsInv => RowsSettled
  BY DEF RowsInv
<1> QED
  BY <1>1, <1>2, <1>3, PTL DEF RowsSpec
===============================================================================
