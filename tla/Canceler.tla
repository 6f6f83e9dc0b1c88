------------------------------- MODULE Canceler -------------------------------
(***************************************************************************)
(* One canceler process (packages/canceler) and one of the chains it       *)
(* guards.  The process polls: it retries the approvals whose verification *)
(* was undecided, lists the withdrawals of the chain, reads the approve    *)
(* events past its cursor, and verifies each approval it does not know     *)
(* against the source chain, cancelling those without a deposit.  Every    *)
(* await is a step of its own, so the chain moves between a read and the   *)
(* call that uses it, and a transaction may land after the process has     *)
(* given it up: such a late cancellation is one more step of the others.   *)
(*                                                                         *)
(* dest says which chain: the EVM chain of the configuration, an EVM peer, *)
(* Terra or Solana.  Their passes follow each other in one poll; they      *)
(* share only the caches, which are keyed by the hash, and an error of an  *)
(* earlier pass, which to a later one is a pass that did not happen.       *)
(***************************************************************************)
EXTENDS Naturals, FiniteSets

CONSTANTS
  Guards,      \* the chains to guard: "base", "peer", "terra", "solana"
  Honest,      \* approvals whose deposit was made on the source chain
  Fraud,       \* approvals without a deposit
  Faults,      \* the calls that may fail: "source", "read", "precheck", "send"
  MaxRetries,  \* evm_precheck_max_retries
  Threshold,   \* evm_precheck_circuit_breaker_threshold
  Rank,        \* [withdrawal -> its place among the hashes that Terra lists in order]
  PageSize, MaxPages,  \* terra_poll_page_size, terra_poll_max_pages
  MaxLimit,    \* MAX_LIMIT of the Terra contract's list
  Idle,        \* job: no approval is being processed
  UnknownSources, \* [guarded chain -> choices of withdrawals from a source not configured]
  Others,      \* who else acts: an "operator" reinstates, a "canceler" cancels
  MaxRestarts  \* bound

ASSUME CancelerAssumption ==
  /\ Guards \subseteq {"base", "peer", "terra", "solana"}
  /\ Honest \cap Fraud = {}
  /\ Faults \subseteq {"source", "read", "precheck", "send"}
  /\ MaxRetries \in Nat /\ Threshold \in Nat \ {0}
  /\ Rank \in [Honest \cup Fraud -> Nat]
  /\ PageSize \in Nat \ {0} /\ MaxPages \in Nat \ {0} /\ MaxLimit \in Nat \ {0}
  /\ Others \subseteq {"operator", "canceler"} /\ MaxRestarts \in Nat
  /\ UnknownSources \in [Guards -> SUBSET SUBSET (Honest \cup Fraud)]

Hashes == Honest \cup Fraud

Jobs == [hash : Hashes, stage : {"verify", "precheck", "send"}, failed : 0..MaxRetries]

ASSUME IdleAssumption == Idle \notin Jobs

\* How the Solana cursor may come to lie past an approval that nothing remembers: its
\* transaction or account was not read, it lay behind the page of signatures, its source
\* chain gave no sense, or a bounded cache dropped it.
Gaps == {"fetch", "page", "error", "forgotten"}

VARIABLES
  dest,       \* the guarded chain
  unknown,    \* the withdrawals whose source chain is not configured
  onChain,    \* [hash -> the stage of the withdrawal on the guarded bridge]
  shown,      \* the deposits that the verifier's source node shows
  buried,     \* Solana: approvals with a page of newer signatures before them
  unread,     \* approvals whose event lies past the cursor
  gap,        \* [hash -> Solana: the gap it fell through since the last start, or "none"]
  verified_hashes, cancelled_hashes, pending_retry_queue,
  failures,   \* evm_precheck_consecutive_failures
  circuitOpen, \* evm_precheck_circuit_open
  pass,       \* the pass of poll_approvals that is running, or "rest"
  todo,       \* what that pass has still to look at
  job,        \* the approval inside verify_and_cancel, with its failed prechecks
  restarts

setting == <<dest, unknown>>
chain  == <<setting, onChain, shown, buried>>
cursor == <<unread, gap>>
caches == <<verified_hashes, cancelled_hashes, pending_retry_queue>>
memory == <<cursor, caches, failures, circuitOpen, pass, todo, job>>
vars   == <<chain, memory, restarts>>

Approved == {h \in Hashes : onChain[h] = "approved"}
Existing == {h \in Hashes : onChain[h] # "none"}
Announced == {h \in Existing : onChain[h] # "submitted"}  \* its WithdrawApprove event exists

Init ==
  /\ dest \in Guards /\ unknown \in UnknownSources[dest]
  /\ onChain = [h \in Hashes |-> "none"] /\ shown = {} /\ buried = {}
  /\ unread = {} /\ gap = [h \in Hashes |-> "none"]
  /\ verified_hashes = {} /\ cancelled_hashes = {} /\ pending_retry_queue = {}
  /\ failures = 0 /\ circuitOpen = FALSE
  /\ pass = "rest" /\ todo = {} /\ job = Idle
  /\ restarts = 0

-------------------------------------------------------------------------------
(* The chains.                                                             *)

\* Only the Terra pass looks at withdrawals before their approval.
Submit(h) ==
  /\ dest = "terra" /\ onChain[h] = "none"
  /\ onChain' = [onChain EXCEPT ![h] = "submitted"]
  /\ UNCHANGED <<setting, shown, buried, memory, restarts>>

Approve(h) ==
  /\ onChain[h] = (IF dest = "terra" THEN "submitted" ELSE "none")
  /\ onChain' = [onChain EXCEPT ![h] = "approved"]
  /\ unread' = unread \cup {h}
  /\ UNCHANGED <<setting, shown, buried, gap, caches, failures, circuitOpen, pass, todo, job, restarts>>

\* The cancel window has passed and somebody executes.
Execute(h) ==
  /\ onChain[h] = "approved"
  /\ onChain' = [onChain EXCEPT ![h] = "executed"]
  /\ UNCHANGED <<setting, shown, buried, memory, restarts>>

\* withdrawUncancel; it emits no WithdrawApprove event.
Reinstate(h) ==
  /\ "operator" \in Others /\ onChain[h] = "cancelled"
  /\ onChain' = [onChain EXCEPT ![h] = "approved"]
  /\ UNCHANGED <<setting, shown, buried, memory, restarts>>

Cancels(h) == h \in Approved /\ onChain' = [onChain EXCEPT ![h] = "cancelled"]

\* Another canceler, or a transaction of this one that landed late.
OtherCancels(h) ==
  /\ "canceler" \in Others /\ Cancels(h)
  /\ UNCHANGED <<setting, shown, buried, memory, restarts>>

\* The verifier reads the latest state of the source chain: its node reaches the block of
\* the deposit, or loses it to a reorganisation or to a node that is further behind.
Sync(h) ==
  /\ h \in Honest \ shown
  /\ shown' = shown \cup {h}
  /\ UNCHANGED <<setting, onChain, buried, memory, restarts>>

TakeBack(h) ==
  /\ h \in shown
  /\ shown' = shown \ {h}
  /\ UNCHANGED <<setting, onChain, buried, memory, restarts>>

\* So many transactions of the program that a page of signatures ends before all that was
\* approved so far.
Bury ==
  /\ dest = "solana" /\ buried # Announced
  /\ buried' = Announced
  /\ UNCHANGED <<setting, onChain, shown, memory, restarts>>

-------------------------------------------------------------------------------
(* The poll loop.                                                          *)

\* Plausible defect: the cache of cancelled hashes is not consulted.
KnowsVerifiedOnly(h) == h \in verified_hashes

Known(h) == h \in verified_hashes \/ h \in cancelled_hashes

Resting == job = Idle /\ todo = {}

BeginPoll ==
  /\ pass = "rest"
  /\ pass' = "retry" /\ todo' = pending_retry_queue /\ pending_retry_queue' = {}
  /\ UNCHANGED <<chain, cursor, verified_hashes, cancelled_hashes, failures, circuitOpen, job,
                 restarts>>

\* Plausible defect: only what the event cursor has not passed.
EnumeratesUnread == Approved \cap unread

\* The contract cuts a page at MaxLimit; a page shorter than asked for ends the paging.
Reach == IF PageSize > MaxLimit THEN MaxLimit ELSE PageSize * MaxPages

\* Terra's list by hash, whatever the stage; what was executed stays in it.
FirstPages ==
  {h \in Existing : Cardinality({g \in Existing : Rank[g] < Rank[h]}) < Reach}

\* getPendingWithdrawHashes, or pending_withdrawals page by page.
Enumerated == IF dest = "terra" THEN FirstPages ELSE Approved

EnumerateTo(hashes) ==
  /\ dest # "solana" /\ pass = "retry" /\ Resting
  /\ pass' = "enumerate" /\ todo' = hashes
  /\ UNCHANGED <<chain, cursor, caches, failures, circuitOpen, job, restarts>>

Enumerate == EnumerateTo(Enumerated)
EnumerateFails == "read" \in Faults /\ \E got \in SUBSET Enumerated : EnumerateTo(got)

AtEvents == dest # "terra" /\ pass = (IF dest = "solana" THEN "retry" ELSE "enumerate") /\ Resting

EventsTo(got, left) ==
  /\ pass' = "events" /\ todo' = got /\ unread' = left
  /\ UNCHANGED <<chain, failures, circuitOpen, job, restarts>>

Lose(hashes, why) == gap' = [h \in Hashes |-> IF h \in hashes THEN why ELSE gap[h]]

PollEvents ==
  /\ AtEvents /\ dest # "solana"
  /\ EventsTo(unread, {})
  /\ UNCHANGED <<gap, caches>>

\* Chunks return until one fails, and the cursor is past those that were read.
PollEventsFails ==
  /\ AtEvents /\ dest # "solana" /\ "read" \in Faults
  /\ \E got \in SUBSET unread : EventsTo(got, unread \ got)
  /\ UNCHANGED <<gap, caches>>

\* What the Solana cursor passes without having read it, when got is read and left is not
\* yet reached.
Passed(got, left) ==
  [h \in Hashes |-> IF h \in unread \cap buried THEN "page"
                   ELSE IF h \in unread \ (buried \cup got \cup left) THEN "fetch"
                   ELSE gap[h]]

\* Solana: the newest signatures since the cursor, one page of them.  The cursor moves to
\* the last approval found, past what lies behind the page, and stays when there is none.
PollSignatures ==
  /\ AtEvents /\ dest = "solana"
  /\ LET page == unread \ buried
     IN  IF page = {} THEN EventsTo({}, unread) /\ UNCHANGED gap
         ELSE EventsTo(page, {}) /\ gap' = Passed(page, {})
  /\ UNCHANGED caches

\* The transactions of the page are read one by one: the cursor passes those that could
\* not be read before the last that could.
PollSignaturesFails ==
  /\ AtEvents /\ dest = "solana" /\ "read" \in Faults
  /\ LET page == unread \ buried
     IN  \/ EventsTo({}, unread) /\ UNCHANGED gap
         \/ \E got \in SUBSET page \ {{}} : \E left \in SUBSET (page \ got) :
              EventsTo(got, left) /\ gap' = Passed(got, left)
  /\ UNCHANGED caches

\* The node that answers is behind the cursor, which is taken for a reset chain; a
\* peer's reset leaves the caches.
ChainReset ==
  /\ AtEvents /\ dest # "solana" /\ "read" \in Faults
  /\ \E got \in SUBSET Announced : EventsTo(got, Announced \ got)
  /\ IF dest = "base"
     THEN verified_hashes' = {} /\ cancelled_hashes' = {} /\ pending_retry_queue' = {}
     ELSE UNCHANGED caches
  /\ UNCHANGED gap

EndPoll ==
  /\ pass = (IF dest = "terra" THEN "enumerate" ELSE "events") /\ Resting
  /\ pass' = "rest"
  /\ UNCHANGED <<chain, cursor, caches, failures, circuitOpen, todo, job, restarts>>

\* The retry, peer and Terra passes collect the details of their withdrawals first; the
\* others read each one when its turn comes.
Rereads == pass # "retry" /\ dest \in {"base", "solana"}

\* Solana closes the account of an executed withdrawal.
Readable(h) == IF dest = "base" THEN h \in Approved ELSE onChain[h] # "executed"

\* The next hash of the pass: known, unreadable, or no longer approved.
Skip(h) ==
  /\ job = Idle /\ h \in todo
  /\ Known(h) \/ (Rereads /\ ("read" \in Faults \/ ~Readable(h)))
  /\ todo' = todo \ {h}
  /\ IF dest = "solana" /\ ~Known(h) THEN Lose({h}, "fetch") ELSE UNCHANGED gap
  /\ UNCHANGED <<chain, unread, caches, failures, circuitOpen, pass, job, restarts>>

Start(h) ==
  /\ job = Idle /\ h \in todo
  /\ ~Known(h)
  /\ Rereads => Readable(h)
  /\ todo' = todo \ {h}
  /\ job' = [hash |-> h, stage |-> "verify", failed |-> 0]
  /\ UNCHANGED <<chain, cursor, caches, failures, circuitOpen, pass, restarts>>

-------------------------------------------------------------------------------
(* verify_and_cancel.                                                      *)

At(h, stage) == job # Idle /\ job.hash = h /\ job.stage = stage

\* A source chain that is not configured gives no verdict: the approval stays pending.
Judged(h) == At(h, "verify") /\ h \notin unknown

VerifyValid(h) ==
  /\ Judged(h) /\ h \in shown
  /\ verified_hashes' = verified_hashes \cup {h}
  /\ pending_retry_queue' = pending_retry_queue \ {h}
  /\ job' = Idle
  /\ UNCHANGED <<chain, cursor, cancelled_hashes, failures, circuitOpen, pass, todo, restarts>>

VerifyInvalid(h) ==
  /\ Judged(h) /\ h \notin shown
  /\ pending_retry_queue' = pending_retry_queue \ {h}
  /\ job' = [job EXCEPT !.stage = IF dest = "solana" THEN "send" ELSE "precheck"]
  /\ UNCHANGED <<chain, cursor, verified_hashes, cancelled_hashes, failures, circuitOpen, pass, todo,
                 restarts>>

\* Plausible defect: an undecided approval is not queued again.
PendingIsDropped(h) ==
  /\ At(h, "verify") /\ (h \in unknown \/ "source" \in Faults)
  /\ job' = Idle
  /\ UNCHANGED <<chain, cursor, caches, failures, circuitOpen, pass, todo, restarts>>

\* The source chain cannot be read, or is not configured.
VerifyPending(h) ==
  /\ At(h, "verify") /\ (h \in unknown \/ "source" \in Faults)
  /\ pending_retry_queue' = pending_retry_queue \cup {h}
  /\ job' = Idle
  /\ UNCHANGED <<chain, cursor, verified_hashes, cancelled_hashes, failures, circuitOpen, pass, todo,
                 restarts>>

\* The answer of the source chain cannot be parsed: only the retry pass queues again.
VerifyErrs(h) ==
  /\ Judged(h) /\ "source" \in Faults /\ pass # "retry"
  /\ job' = Idle
  /\ IF dest = "solana" THEN Lose({h}, "error") ELSE UNCHANGED gap
  /\ UNCHANGED <<chain, unread, caches, failures, circuitOpen, pass, todo, restarts>>

\* submit_cancel returns Ok, whatever it achieved.
SubmitReturns(h) ==
  /\ cancelled_hashes' = cancelled_hashes \cup {h}
  /\ job' = Idle

CircuitSkips(h) ==
  /\ At(h, "precheck") /\ dest = "base" /\ circuitOpen
  /\ SubmitReturns(h)
  /\ UNCHANGED <<chain, cursor, verified_hashes, pending_retry_queue, failures, circuitOpen, pass, todo,
                 restarts>>

\* Plausible defect: the circuit opens only beyond the threshold.
OpensLate(count) ==
  /\ failures' = count
  /\ circuitOpen' = (circuitOpen \/ count > Threshold)

RecordFailure(count) ==
  /\ failures' = count
  /\ circuitOpen' = (circuitOpen \/ count >= Threshold)

PrecheckFails(h) ==
  /\ At(h, "precheck") /\ dest = "base" /\ ~circuitOpen /\ "precheck" \in Faults
  /\ IF job.failed < MaxRetries
     THEN /\ job' = [job EXCEPT !.failed = @ + 1]
          /\ UNCHANGED <<cancelled_hashes, failures, circuitOpen>>
     ELSE RecordFailure(failures + 1) /\ SubmitReturns(h)
  /\ UNCHANGED <<chain, cursor, verified_hashes, pending_retry_queue, pass, todo, restarts>>

\* An answer clears the count, but an earlier failed attempt of this call is
\* still counted.
PrecheckAnswers(h) ==
  /\ At(h, "precheck") /\ dest = "base" /\ ~circuitOpen
  /\ IF job.failed = 0 THEN failures' = 0 /\ UNCHANGED circuitOpen ELSE RecordFailure(1)
  /\ IF h \in Approved
     THEN job' = [job EXCEPT !.stage = "send"] /\ UNCHANGED cancelled_hashes
     ELSE SubmitReturns(h)
  /\ UNCHANGED <<chain, cursor, verified_hashes, pending_retry_queue, pass, todo, restarts>>

\* Peers and Terra: an error of can_cancel is a "no", without a retry or a circuit.
CanCancel(h) ==
  /\ At(h, "precheck") /\ dest \in {"peer", "terra"}
  /\ \/ h \in Approved /\ job' = [job EXCEPT !.stage = "send"] /\ UNCHANGED cancelled_hashes
     \/ (h \notin Approved \/ "precheck" \in Faults) /\ SubmitReturns(h)
  /\ UNCHANGED <<chain, cursor, verified_hashes, pending_retry_queue, failures, circuitOpen, pass, todo,
                 restarts>>

CancelLands(h) ==
  /\ At(h, "send") /\ dest # "terra"
  /\ Cancels(h)
  /\ SubmitReturns(h)
  /\ UNCHANGED <<setting, shown, buried, cursor, verified_hashes, pending_retry_queue, failures, circuitOpen, pass,
                 todo, restarts>>

\* Executed meanwhile, too late for the window, not taken or not confirmed.  Only a
\* Terra error is passed on, and its withdrawal not remembered.
CancelFails(h) ==
  /\ At(h, "send") /\ ("send" \in Faults \/ (dest # "terra" /\ h \notin Approved))
  /\ IF dest = "terra" THEN job' = Idle /\ UNCHANGED cancelled_hashes ELSE SubmitReturns(h)
  /\ UNCHANGED <<chain, cursor, verified_hashes, pending_retry_queue, failures, circuitOpen, pass, todo,
                 restarts>>

\* A Terra node takes the transaction; whether a block does is not awaited.
TerraAccepts(h) ==
  /\ At(h, "send") /\ dest = "terra"
  /\ Cancels(h) \/ UNCHANGED onChain
  /\ SubmitReturns(h)
  /\ UNCHANGED <<setting, shown, buried, cursor, verified_hashes, pending_retry_queue, failures, circuitOpen, pass,
                 todo, restarts>>

-------------------------------------------------------------------------------
(* Bounded caches and restarts.                                            *)

\* What the process still has of the approvals.
Remembered ==
  unread \cup todo \cup verified_hashes \cup cancelled_hashes \cup pending_retry_queue
    \cup (IF job = Idle THEN {} ELSE {job.hash})

\* Any entry may age out or make room for another.
Forget(h) ==
  /\ \/ /\ verified_hashes' = verified_hashes \ {h}
        /\ UNCHANGED <<cancelled_hashes, pending_retry_queue>>
     \/ /\ cancelled_hashes' = cancelled_hashes \ {h}
        /\ UNCHANGED <<verified_hashes, pending_retry_queue>>
     \/ /\ pending_retry_queue' = pending_retry_queue \ {h}
        /\ UNCHANGED <<verified_hashes, cancelled_hashes>>
  /\ UNCHANGED <<chain, unread, failures, circuitOpen, pass, todo, job, restarts>>
  /\ IF dest = "solana" THEN Lose(Remembered \ Remembered', "forgotten") ELSE UNCHANGED gap

\* Everything is in memory.  The first poll looks back over the recent blocks of an EVM
\* chain, and over the newest page of signatures of Solana.
Restart ==
  /\ restarts < MaxRestarts /\ restarts' = restarts + 1
  /\ verified_hashes' = {} /\ cancelled_hashes' = {} /\ pending_retry_queue' = {}
  /\ failures' = 0 /\ circuitOpen' = FALSE
  /\ unread' \in IF dest = "solana" THEN {Announced} ELSE SUBSET Announced
  /\ gap' = [h \in Hashes |-> "none"]
  /\ pass' = "rest" /\ todo' = {} /\ job' = Idle
  /\ UNCHANGED chain

-------------------------------------------------------------------------------
Process(h) ==
  \/ Skip(h) \/ Start(h)
  \/ VerifyValid(h) \/ VerifyInvalid(h) \/ VerifyPending(h) \/ VerifyErrs(h)
  \/ CircuitSkips(h) \/ PrecheckFails(h) \/ PrecheckAnswers(h) \/ CanCancel(h)
  \/ CancelLands(h) \/ CancelFails(h) \/ TerraAccepts(h)

Poll ==
  \/ BeginPoll \/ Enumerate \/ EnumerateFails
  \/ PollEvents \/ PollEventsFails \/ PollSignatures \/ PollSignaturesFails
  \/ ChainReset \/ EndPoll
  \/ \E h \in Hashes : Process(h)

Environment ==
  \/ Bury
  \/ \E h \in Hashes :
       \/ Submit(h) \/ Approve(h) \/ Execute(h) \/ Reinstate(h) \/ OtherCancels(h)
       \/ Sync(h) \/ TakeBack(h) \/ Forget(h)

Next == Poll \/ Environment \/ Restart

\* The process keeps running, and a call that is made again and again is answered at
\* last; VerifyInvalid is not enabled where the source chain is not configured.  Nobody is
\* obliged to approve, execute or reinstate.
Fairness ==
  /\ WF_vars(Poll)
  /\ SF_vars(Enumerate \/ PollSignatures)  \* each on chains of its own
  /\ \A h \in Fraud :
       /\ SF_vars(Start(h))
       /\ SF_vars(VerifyInvalid(h))
       /\ SF_vars(PrecheckAnswers(h) \/ TerraAccepts(h))

Spec == Init /\ [][Next]_vars /\ Fairness
===============================================================================
