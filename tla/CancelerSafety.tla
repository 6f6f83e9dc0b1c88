---------------------------- MODULE CancelerSafety ----------------------------
(***************************************************************************)
(* What the canceler is for, and what its caches and its circuit breaker   *)
(* are said to do.                                                         *)
(***************************************************************************)
EXTENDS Canceler

\* The circuit is open exactly when the failure count has reached the
\* threshold, which it never passes: an open circuit stops the prechecks that
\* could fail.
CircuitOK ==
  /\ failures \in 0..Threshold /\ circuitOpen \in BOOLEAN
  /\ circuitOpen <=> failures = Threshold

\* Types; the circuit follows the failure count.
TypeOK ==
  /\ dest \in Guards /\ unknown \in UnknownSources[dest]
  /\ onChain \in [Hashes -> {"none", "submitted", "approved", "cancelled", "executed"}]
  /\ shown \subseteq Honest
  /\ unread \subseteq Announced /\ buried \subseteq Announced
  /\ gap \in [Hashes -> {"none"} \cup Gaps]
  /\ verified_hashes \subseteq Hashes /\ cancelled_hashes \subseteq Hashes
  /\ pending_retry_queue \subseteq Hashes /\ todo \subseteq Hashes
  /\ CircuitOK
  /\ pass \in {"rest", "retry", "enumerate", "events"}
  /\ job \in {Idle} \cup Jobs
  /\ restarts \in 0..MaxRestarts

\* Solana has no enumeration that would find an approval again, so what the cursor has
\* passed must be somewhere: waiting in the pass or for a retry, in hand, decided, or in
\* one of the named gaps.  No cycle of polls, retries, verdicts and restarts drops it.
ApprovalsAccounted ==
  dest = "solana" =>
    \A h \in Announced : h \in Remembered \/ gap[h] # "none" \/ onChain[h] = "executed"

\* For a withdrawal that the canceler remembers having cancelled no transaction goes
\* out again: one that an operator reinstated is not cancelled from memory of an
\* earlier pass.
ReinstatedIsLeftAlone ==
  [][\A h \in cancelled_hashes : At(h, "send") => job' = job]_vars

\* Terra: as many earlier hashes as the paging reaches keep this one out of the list.
OutOfReach(h) == dest = "terra" /\ h \notin FirstPages

\* Solana: the approval lies behind a page of newer signatures, or in a named gap.
Missed(h) == dest = "solana" /\ (h \in buried \/ gap[h] # "none")

\* Every fraudulent approval from a configured source is acted upon, through unreadable
\* chains, lost queue entries, false chain resets and restarts: it stops being approved or
\* the canceler has spent its one attempt on it, unless Terra's paging does not reach it or
\* Solana's polling missed it.  One from an unknown source is retried for ever.
FraudIsActedUpon ==
  \A h \in Fraud :
    h \in Approved /\ h \notin unknown
      ~> h \notin Approved \/ h \in cancelled_hashes \/ OutOfReach(h) \/ Missed(h)

\* "Hashes we've cancelled": what the cache of cancelled hashes holds was
\* cancelled, or had been executed.  (Where no operator reinstates.)
CancelledCacheTruthful ==
  \A h \in cancelled_hashes : onChain[h] \in {"cancelled", "executed"}

\* "skipping all EVM cancel attempts until a successful pre-check": as long as
\* fraudulent approvals keep coming to the pre-check, and the chain answers
\* again, an open circuit closes.
CircuitRecovers ==
  []<>(\E h \in Hashes : At(h, "precheck")) => (circuitOpen ~> ~circuitOpen)
===============================================================================
