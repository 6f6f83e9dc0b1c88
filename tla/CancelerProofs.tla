---------------------------- MODULE CancelerProofs ----------------------------
(***************************************************************************)
(* The safety of the canceler, for all sets of approvals, faults, retry    *)
(* limits and thresholds.  The invariant adds to the two state properties  *)
(* what they rest on: an approval being processed is not in the cache of   *)
(* cancelled hashes, and between two polls nothing is being processed, so  *)
(* that a poll which begins overwrites nothing.                            *)
(***************************************************************************)
EXTENDS CancelerSafety, TLAPS

JobIsNew == job # Idle => job.hash \notin cancelled_hashes

RestIsIdle == pass = "rest" => Resting

IInv == TypeOK /\ ApprovalsAccounted /\ RestIsIdle /\ JobIsNew

\* The threshold is a positive number.
LEMMA ThresholdPositive == Threshold \in Nat /\ Threshold > 0
  BY CancelerAssumption

\* Initially nothing is verified, cancelled or being processed.
LEMMA InitIInv == Init => IInv
<1> SUFFICES ASSUME Init PROVE IInv
  OBVIOUS
<1>1. CircuitOK
  <2>1. failures \in 0..Threshold /\ failures # Threshold
    BY ThresholdPositive DEF Init
  <2> QED
    BY <2>1 DEF Init, CircuitOK
<1> QED
  BY <1>1, CancelerAssumption
     DEF Init, IInv, TypeOK, ApprovalsAccounted, RestIsIdle, Resting, JobIsNew, Hashes, Announced,
         Existing

\* The circuit's own part of the type invariant: only a precheck or a restart
\* touches the count.
LEMMA NextCircuitOK == TypeOK /\ [Next]_vars => CircuitOK'
<1> SUFFICES ASSUME TypeOK, [Next]_vars PROVE CircuitOK'
  OBVIOUS
<1>1. CASE UNCHANGED <<failures, circuitOpen>>
  BY <1>1 DEF TypeOK, CircuitOK
<1>2. ASSUME NEW h \in Hashes, PrecheckFails(h) PROVE CircuitOK'
  <2>1. CASE job.failed < MaxRetries
    BY <1>2, <2>1 DEF PrecheckFails, TypeOK, CircuitOK
  <2>2. CASE ~(job.failed < MaxRetries)
    <3>1. ~circuitOpen /\ failures' = failures + 1
          /\ circuitOpen' = (circuitOpen \/ failures + 1 >= Threshold)
      BY <1>2, <2>2 DEF PrecheckFails, RecordFailure
    <3>2. failures \in 0..Threshold /\ failures # Threshold
      BY <3>1 DEF TypeOK, CircuitOK
    <3>3. failures' \in 0..Threshold /\ (failures + 1 >= Threshold <=> failures' = Threshold)
      BY <3>1, <3>2, ThresholdPositive
    <3> QED
      BY <3>1, <3>3 DEF TypeOK, CircuitOK
  <2> QED
    BY <2>1, <2>2
<1>3. ASSUME NEW h \in Hashes, PrecheckAnswers(h) PROVE CircuitOK'
  <2>1. CASE job.failed = 0
    <3>1. ~circuitOpen /\ failures' = 0 /\ circuitOpen' = circuitOpen
      BY <1>3, <2>1 DEF PrecheckAnswers
    <3>2. failures' \in 0..Threshold /\ failures' # Threshold
      BY <3>1, ThresholdPositive
    <3> QED
      BY <3>1, <3>2 DEF TypeOK, CircuitOK
  <2>2. CASE job.failed # 0
    <3>1. ~circuitOpen /\ failures' = 1 /\ circuitOpen' = (circuitOpen \/ 1 >= Threshold)
      BY <1>3, <2>2 DEF PrecheckAnswers, RecordFailure
    <3>2. failures' \in 0..Threshold /\ (1 >= Threshold <=> failures' = Threshold)
      BY <3>1, ThresholdPositive
    <3> QED
      BY <3>1, <3>2 DEF TypeOK, CircuitOK
  <2> QED
    BY <2>1, <2>2
<1>4. CASE Restart
  <2>1. failures' = 0 /\ circuitOpen' = FALSE
    BY <1>4 DEF Restart
  <2>2. failures' \in 0..Threshold /\ failures' # Threshold
    BY <2>1, ThresholdPositive
  <2> QED
    BY <2>1, <2>2 DEF CircuitOK
<1>5. CASE ~Restart /\ \A h \in Hashes : ~PrecheckFails(h) /\ ~PrecheckAnswers(h)
  <2>1. UNCHANGED <<failures, circuitOpen>>
    BY <1>5
       DEF Next, Poll, Process, Environment, Submit, Approve, Execute, Reinstate, OtherCancels, Cancels, Sync,
           TakeBack, Bury, Forget, BeginPoll, Enumerate, EnumerateFails, EnumerateTo, PollEvents, PollEventsFails,
           PollSignatures, PollSignaturesFails, ChainReset, EventsTo, EndPoll, Skip, Start,
           VerifyValid, VerifyInvalid, VerifyPending, VerifyErrs, CircuitSkips, CanCancel,
           CancelLands, CancelFails, TerraAccepts, vars, memory
  <2> QED
    BY <1>1, <2>1
<1> QED
  BY <1>2, <1>3, <1>4, <1>5

\* The gaps' own part: an approval that falls through a gap falls through a named one.
LEMMA NextGapOK == TypeOK /\ [Next]_vars => gap' \in [Hashes -> {"none"} \cup Gaps]
<1> SUFFICES ASSUME TypeOK, [Next]_vars PROVE gap' \in [Hashes -> {"none"} \cup Gaps]
  OBVIOUS
<1>1. gap \in [Hashes -> {"none"} \cup Gaps]
  BY DEF TypeOK
<1>2. ASSUME NEW lostOnes, NEW why \in Gaps, Lose(lostOnes, why)
      PROVE  gap' \in [Hashes -> {"none"} \cup Gaps]
  BY <1>1, <1>2 DEF Lose
<1>3. CASE UNCHANGED gap
  BY <1>1, <1>3
<1>4. ASSUME NEW got, NEW left PROVE Passed(got, left) \in [Hashes -> {"none"} \cup Gaps]
  BY <1>1 DEF Passed, Gaps
<1>5. CASE PollSignatures \/ PollSignaturesFails
  BY <1>3, <1>4, <1>5 DEF PollSignatures, PollSignaturesFails
<1>6. ASSUME NEW h \in Hashes, Skip(h) \/ VerifyErrs(h) \/ Forget(h)
      PROVE  gap' \in [Hashes -> {"none"} \cup Gaps]
  BY <1>2, <1>3, <1>6 DEF Skip, VerifyErrs, Forget, Gaps
<1>7. CASE Restart
  BY <1>7 DEF Restart
<1>8. CASE /\ ~PollSignatures /\ ~PollSignaturesFails /\ ~Restart
           /\ \A h \in Hashes : ~Skip(h) /\ ~VerifyErrs(h) /\ ~Forget(h)
  <2>1. UNCHANGED gap
    BY <1>8
       DEF Next, Poll, Process, Environment, Submit, Approve, Execute, Reinstate, OtherCancels, Cancels, Sync,
           TakeBack, Bury, BeginPoll, Enumerate, EnumerateFails, EnumerateTo, PollEvents,
           PollEventsFails, ChainReset, EventsTo, EndPoll, Start,
           VerifyValid, VerifyInvalid, VerifyPending, CircuitSkips, PrecheckFails, PrecheckAnswers,
           CanCancel, CancelLands, CancelFails, TerraAccepts, vars, memory, cursor
  <2> QED
    BY <1>3, <2>1
<1> QED
  BY <1>5, <1>6, <1>7, <1>8

\* Every step of the process and of the chains keeps the types.
LEMMA NextTypeOK == TypeOK /\ [Next]_vars => TypeOK'
<1> SUFFICES ASSUME TypeOK, [Next]_vars PROVE TypeOK'
  OBVIOUS
<1>0. CircuitOK'
  BY NextCircuitOK
<1>a. gap' \in [Hashes -> {"none"} \cup Gaps]
  BY NextGapOK
<1> USE <1>0, <1>a, CancelerAssumption DEF TypeOK, Jobs, setting, chain, cursor, caches, Announced, Existing
<1>1. ASSUME NEW h \in Hashes, Submit(h) PROVE TypeOK'
  BY <1>1 DEF Submit, memory
<1>2. ASSUME NEW h \in Hashes, Approve(h) PROVE TypeOK'
  BY <1>2 DEF Approve
<1>3. ASSUME NEW h \in Hashes, Execute(h) PROVE TypeOK'
  BY <1>3 DEF Execute, memory
<1>4. ASSUME NEW h \in Hashes, Reinstate(h) PROVE TypeOK'
  BY <1>4 DEF Reinstate, memory
<1>5. ASSUME NEW h \in Hashes, OtherCancels(h) PROVE TypeOK'
  BY <1>5 DEF OtherCancels, Cancels, memory
<1>6. ASSUME NEW h \in Hashes, Sync(h) PROVE TypeOK'
  BY <1>6 DEF Sync, memory
<1>30. ASSUME NEW h \in Hashes, TakeBack(h) PROVE TypeOK'
  BY <1>30 DEF TakeBack, memory
<1>31. CASE Bury
  BY <1>31 DEF Bury, memory
<1>7. CASE BeginPoll
  BY <1>7 DEF BeginPoll
<1>8. CASE Enumerate
  BY <1>8 DEF Enumerate, EnumerateTo, Enumerated, Approved, FirstPages
<1>9. CASE EnumerateFails
  BY <1>9 DEF EnumerateFails, EnumerateTo, Enumerated, Approved, FirstPages
<1>10. CASE PollEvents
  BY <1>10 DEF PollEvents, EventsTo
<1>11. CASE PollEventsFails
  <2>1. todo' \subseteq unread /\ unread' \subseteq unread
    BY <1>11 DEF PollEventsFails, EventsTo
  <2> QED
    BY <1>11, <2>1 DEF PollEventsFails, EventsTo
<1>32. CASE PollSignatures
  BY <1>32 DEF PollSignatures, EventsTo
<1>33. CASE PollSignaturesFails
  <2>1. todo' \subseteq unread /\ unread' \subseteq unread
    BY <1>33 DEF PollSignaturesFails, EventsTo
  <2> QED
    BY <1>33, <2>1 DEF PollSignaturesFails, EventsTo
<1>12. CASE ChainReset
  <2>1. PICK got \in SUBSET Announced : todo' = got /\ unread' = Announced \ got
    BY <1>12 DEF ChainReset, EventsTo
  <2> QED
    BY <1>12, <2>1 DEF ChainReset, EventsTo
<1>13. CASE EndPoll
  BY <1>13 DEF EndPoll
<1>14. ASSUME NEW h \in Hashes, Skip(h) PROVE TypeOK'
  BY <1>14 DEF Skip
<1>15. ASSUME NEW h \in Hashes, Start(h) PROVE TypeOK'
  BY <1>15 DEF Start
<1>16. ASSUME NEW h \in Hashes, VerifyValid(h) PROVE TypeOK'
  BY <1>16 DEF VerifyValid
<1>17. ASSUME NEW h \in Hashes, VerifyInvalid(h) PROVE TypeOK'
  BY <1>17 DEF VerifyInvalid, Judged, At
<1>18. ASSUME NEW h \in Hashes, VerifyPending(h) PROVE TypeOK'
  BY <1>18 DEF VerifyPending
<1>19. ASSUME NEW h \in Hashes, VerifyErrs(h) PROVE TypeOK'
  BY <1>19 DEF VerifyErrs
<1>20. ASSUME NEW h \in Hashes, CircuitSkips(h) PROVE TypeOK'
  BY <1>20 DEF CircuitSkips, SubmitReturns
<1>21. ASSUME NEW h \in Hashes, PrecheckFails(h) PROVE TypeOK'
  BY <1>21 DEF PrecheckFails, RecordFailure, SubmitReturns, At
<1>22. ASSUME NEW h \in Hashes, PrecheckAnswers(h) PROVE TypeOK'
  BY <1>22 DEF PrecheckAnswers, RecordFailure, SubmitReturns, At
<1>23. ASSUME NEW h \in Hashes, CanCancel(h) PROVE TypeOK'
  BY <1>23 DEF CanCancel, SubmitReturns, At
<1>24. ASSUME NEW h \in Hashes, CancelLands(h) PROVE TypeOK'
  BY <1>24 DEF CancelLands, Cancels, SubmitReturns
<1>25. ASSUME NEW h \in Hashes, CancelFails(h) PROVE TypeOK'
  BY <1>25 DEF CancelFails, SubmitReturns
<1>26. ASSUME NEW h \in Hashes, TerraAccepts(h) PROVE TypeOK'
  BY <1>26 DEF TerraAccepts, Cancels, SubmitReturns
<1>27. ASSUME NEW h \in Hashes, Forget(h) PROVE TypeOK'
  BY <1>27 DEF Forget
<1>28. CASE Restart
  BY <1>28 DEF Restart
<1>29. CASE UNCHANGED vars
  BY <1>29 DEF vars, memory
<1> QED
  BY <1>1, <1>2, <1>3, <1>4, <1>5, <1>6, <1>7, <1>8, <1>9, <1>10, <1>11, <1>12, <1>13, <1>14,
     <1>15, <1>16, <1>17, <1>18, <1>19, <1>20, <1>21, <1>22, <1>23, <1>24, <1>25, <1>26, <1>27,
     <1>28, <1>29, <1>30, <1>31, <1>32, <1>33 DEF Next, Poll, Process, Environment

\* A poll ends when nothing is left to look at, and nothing is taken up between polls.
LEMMA NextRest == RestIsIdle /\ [Next]_vars => RestIsIdle'
<1> SUFFICES ASSUME RestIsIdle, [Next]_vars, pass' = "rest" PROVE Resting'
  BY DEF RestIsIdle
<1>1. CASE EndPoll
  BY <1>1 DEF EndPoll, Resting
<1>2. CASE Restart
  BY <1>2 DEF Restart, Resting
<1>3. CASE ~EndPoll /\ ~Restart
  <2>1. pass = "rest" /\ Resting
    BY <1>3
       DEF RestIsIdle, Next, Poll, Process, Environment, Submit, Approve, Execute, Reinstate, OtherCancels,
           Cancels, Sync, TakeBack, Bury, Forget, BeginPoll, Enumerate, EnumerateFails, EnumerateTo,
           PollEvents, PollEventsFails, PollSignatures, PollSignaturesFails, ChainReset, EventsTo,
           Skip, Start, VerifyValid, VerifyInvalid, VerifyPending, VerifyErrs, CircuitSkips,
           PrecheckFails, PrecheckAnswers, CanCancel, CancelLands, CancelFails, TerraAccepts,
           vars, memory
  <2>2. \A h \in Hashes : ~Process(h)
    BY <2>1 DEF Process, Resting, At, Judged, Skip, Start, VerifyValid, VerifyInvalid, VerifyPending,
                VerifyErrs, CircuitSkips, PrecheckFails, PrecheckAnswers, CanCancel, CancelLands,
                CancelFails, TerraAccepts
  <2>3. UNCHANGED <<todo, job>>
    BY <1>3, <2>1, <2>2
       DEF Next, Poll, Environment, Submit, Approve, Execute, Reinstate, OtherCancels, Cancels, Sync,
           TakeBack, Bury, Forget, BeginPoll, Enumerate, EnumerateFails, EnumerateTo,
           PollEvents, PollEventsFails, PollSignatures, PollSignaturesFails, ChainReset, EventsTo,
           AtEvents, vars, memory
  <2> QED
    BY <2>1, <2>3 DEF Resting
<1> QED
  BY <1>1, <1>2, <1>3

\* Where an approval of the Solana bridge is.
Accounted(h) == h \in Remembered \/ gap[h] # "none" \/ onChain[h] = "executed"

\* Whatever step takes an approval out of one place puts it into another, or names the gap.
LEMMA NextAccounted == TypeOK /\ RestIsIdle /\ ApprovalsAccounted /\ [Next]_vars => ApprovalsAccounted'
<1> SUFFICES ASSUME TypeOK, RestIsIdle, ApprovalsAccounted, [Next]_vars, dest' = "solana",
                    NEW h \in Announced'
             PROVE  Accounted(h)'
  BY DEF ApprovalsAccounted, Accounted
<1>0. dest = "solana" /\ h \in Hashes
  BY DEF Next, Poll, Process, Environment, Submit, Approve, Execute, Reinstate, OtherCancels, Cancels, Sync,
         TakeBack, Bury, Forget, BeginPoll, Enumerate, EnumerateFails, EnumerateTo, PollEvents,
         PollEventsFails, PollSignatures, PollSignaturesFails, ChainReset, EventsTo, EndPoll, Skip,
         Start, VerifyValid, VerifyInvalid, VerifyPending, VerifyErrs, CircuitSkips, PrecheckFails,
         PrecheckAnswers, CanCancel, CancelLands, CancelFails, TerraAccepts, Restart, vars, chain, setting,
         Announced, Existing
<1>1. h \in Announced => Accounted(h)
  BY <1>0 DEF ApprovalsAccounted, Accounted
<1> USE <1>0 DEF Accounted, Remembered, setting, chain, cursor, caches, Announced, Existing
<1>2. ASSUME UNCHANGED memory, h \in Announced, onChain[h] = "executed" => onChain'[h] = "executed"
      PROVE  Accounted(h)'
  BY <1>1, <1>2 DEF memory
<1>3. ASSUME NEW g \in Hashes, Submit(g) \/ Execute(g) \/ Reinstate(g) \/ OtherCancels(g)
      PROVE  Accounted(h)'
  BY <1>2, <1>3 DEF Submit, Execute, Reinstate, OtherCancels, Cancels, Approved, TypeOK
<1>4. ASSUME NEW g \in Hashes, Approve(g) PROVE Accounted(h)'
  BY <1>1, <1>4 DEF Approve, TypeOK
<1>5. ASSUME Bury \/ \E g \in Hashes : Sync(g) \/ TakeBack(g) PROVE Accounted(h)'
  BY <1>2, <1>5 DEF Bury, Sync, TakeBack
<1>6. CASE BeginPoll
  BY <1>1, <1>6 DEF BeginPoll, RestIsIdle, Resting
<1>7. CASE Enumerate \/ EnumerateFails \/ PollEvents \/ PollEventsFails \/ ChainReset
  BY <1>7 DEF Enumerate, EnumerateFails, EnumerateTo, PollEvents, PollEventsFails, ChainReset
<1>8. CASE PollSignatures
  BY <1>1, <1>8 DEF PollSignatures, AtEvents, Resting, EventsTo, Passed
<1>9. CASE PollSignaturesFails
  BY <1>1, <1>9 DEF PollSignaturesFails, AtEvents, Resting, EventsTo, Passed
<1>10. CASE EndPoll
  BY <1>1, <1>10 DEF EndPoll
<1>11. ASSUME NEW g \in Hashes, Skip(g) PROVE Accounted(h)'
  BY <1>1, <1>11 DEF Skip, Known, Lose
<1>12. ASSUME NEW g \in Hashes, Start(g) PROVE Accounted(h)'
  <2>1. job' \in Jobs /\ job'.hash = g
    BY <1>12, CancelerAssumption DEF Start, Jobs
  <2> QED
    BY <1>1, <1>12, <2>1, IdleAssumption DEF Start
<1>13. ASSUME NEW g \in Hashes, VerifyValid(g) PROVE Accounted(h)'
  BY <1>1, <1>13 DEF VerifyValid, Judged, At
<1>14. ASSUME NEW g \in Hashes, VerifyErrs(g) PROVE Accounted(h)'
  BY <1>1, <1>14 DEF VerifyErrs, Judged, At, Lose
<1>15. ASSUME NEW g \in Hashes, VerifyInvalid(g) PROVE Accounted(h)'
  <2>1. job \in Jobs /\ job.hash = g
    BY <1>15 DEF VerifyInvalid, Judged, At, TypeOK
  <2>2. job' \in Jobs /\ job'.hash = g
    BY <1>15, <2>1 DEF VerifyInvalid, Jobs
  <2> QED
    BY <1>1, <1>15, <2>1, <2>2, IdleAssumption DEF VerifyInvalid
<1>21. ASSUME NEW g \in Hashes, VerifyPending(g) PROVE Accounted(h)'
  BY <1>1, <1>21 DEF VerifyPending, At
<1>16. ASSUME NEW g \in Hashes, CircuitSkips(g) \/ PrecheckFails(g) \/ PrecheckAnswers(g) \/ CanCancel(g)
      PROVE  Accounted(h)'
  <2>1. dest # "base" /\ dest # "peer" /\ dest # "terra"
    BY <1>0
  <2> QED
    BY <1>16, <2>1 DEF CircuitSkips, PrecheckFails, PrecheckAnswers, CanCancel
<1>17. ASSUME NEW g \in Hashes, CancelLands(g) \/ CancelFails(g) \/ TerraAccepts(g) PROVE Accounted(h)'
  BY <1>1, <1>17 DEF CancelLands, CancelFails, TerraAccepts, Cancels, Approved, SubmitReturns, At, TypeOK
<1>18. ASSUME NEW g \in Hashes, Forget(g) PROVE Accounted(h)'
  BY <1>1, <1>18 DEF Forget, Lose, TypeOK
<1>19. CASE Restart
  BY <1>19 DEF Restart
<1>20. CASE UNCHANGED vars
  BY <1>1, <1>20 DEF vars, memory
<1> QED
  BY <1>3, <1>4, <1>5, <1>6, <1>7, <1>8, <1>9, <1>10, <1>11, <1>12, <1>13, <1>14, <1>15, <1>16, <1>17,
     <1>18, <1>19, <1>20, <1>21 DEF Next, Poll, Process, Environment

\* An approval enters verify_and_cancel only when it is not in the cache, and
\* enters the cache only when it leaves verify_and_cancel.
LEMMA NextJobIsNew == TypeOK /\ JobIsNew /\ [Next]_vars => JobIsNew'
<1> SUFFICES ASSUME TypeOK, JobIsNew, [Next]_vars PROVE JobIsNew'
  OBVIOUS
<1>1. ASSUME NEW h \in Hashes, Start(h) PROVE JobIsNew'
  BY <1>1 DEF Start, Known, JobIsNew, caches
<1>2. CASE job' = Idle
  BY <1>2 DEF JobIsNew
<1>3. CASE job' = job /\ cancelled_hashes' \subseteq cancelled_hashes
  BY <1>3 DEF JobIsNew
<1>4. ASSUME NEW h \in Hashes,
             VerifyInvalid(h) \/ PrecheckFails(h) \/ PrecheckAnswers(h) \/ CanCancel(h),
             job' # Idle
      PROVE  JobIsNew'
  <2>1. job # Idle /\ job'.hash = job.hash
    <3>1. job \in Jobs
      BY <1>4 DEF TypeOK, VerifyInvalid, PrecheckFails, PrecheckAnswers, CanCancel, Judged, At
    <3>2. \/ job' = [job EXCEPT !.stage = IF dest = "solana" THEN "send" ELSE "precheck"]
          \/ job' = [job EXCEPT !.failed = @ + 1]
          \/ job' = [job EXCEPT !.stage = "send"]
      BY <1>4 DEF VerifyInvalid, PrecheckFails, PrecheckAnswers, CanCancel, SubmitReturns
    <3>3. job # Idle
      BY <1>4 DEF VerifyInvalid, PrecheckFails, PrecheckAnswers, CanCancel, Judged, At
    <3> QED
      BY <3>1, <3>2, <3>3 DEF Jobs
  <2>2. cancelled_hashes' = cancelled_hashes
    BY <1>4 DEF VerifyInvalid, PrecheckFails, PrecheckAnswers, CanCancel, SubmitReturns
  <2> QED
    BY <2>1, <2>2 DEF JobIsNew
<1>5. CASE \A h \in Hashes :
             ~Start(h) /\ ~VerifyInvalid(h) /\ ~PrecheckFails(h) /\ ~PrecheckAnswers(h) /\ ~CanCancel(h)
  <2>1. job' = Idle \/ (job' = job /\ cancelled_hashes' \subseteq cancelled_hashes)
    BY <1>5
       DEF Next, Poll, Process, Environment, Submit, Approve, Execute, Reinstate, OtherCancels, Cancels, Sync,
           TakeBack, Bury, Forget, BeginPoll, Enumerate, EnumerateFails, EnumerateTo, PollEvents, PollEventsFails,
           PollSignatures, PollSignaturesFails, ChainReset, EventsTo, EndPoll, Skip,
           VerifyValid, VerifyPending, VerifyErrs, CircuitSkips, CancelLands, CancelFails,
           TerraAccepts, SubmitReturns, Restart, vars, caches, memory
  <2> QED
    BY <1>2, <1>3, <2>1
<1> QED
  BY <1>1, <1>2, <1>4, <1>5

\* The inductive invariant holds throughout.
LEMMA Inductive == Spec => []IInv
<1>1. IInv /\ [Next]_vars => IInv'
  BY NextTypeOK, NextRest, NextAccounted, NextJobIsNew DEF IInv
<1> QED
  BY InitIInv, <1>1, PTL DEF Spec

\* Types, for every set of approvals, faults and limits.
THEOREM TypeCorrect == Spec => []TypeOK
<1>1. IInv => TypeOK
  BY DEF IInv
<1> QED
  BY Inductive, <1>1, PTL

\* On Solana no approval that the cursor passed is dropped but through a named gap.
THEOREM ApprovalsAreAccounted == Spec => []ApprovalsAccounted
<1>1. IInv => ApprovalsAccounted
  BY DEF IInv
<1> QED
  BY Inductive, <1>1, PTL

\* The canceler leaves alone a withdrawal it remembers having cancelled.
THEOREM ReinstatedStays == Spec => ReinstatedIsLeftAlone
<1>1. IInv => \A h \in cancelled_hashes : ~At(h, "send")
  BY DEF IInv, JobIsNew, At
<1>2. IInv /\ [Next]_vars => [\A h \in cancelled_hashes : At(h, "send") => job' = job]_vars
  BY <1>1
<1> QED
  BY Inductive, <1>2, PTL DEF Spec, ReinstatedIsLeftAlone
===============================================================================
