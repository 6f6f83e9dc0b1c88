-------------------------- MODULE WatchtowerProofs --------------------------
(***************************************************************************)
(* The promises of a watchtower, proved for every set of transfers.  A     *)
(* contract proved to implement Watchtower inherits them.                  *)
(***************************************************************************)
EXTENDS Watchtower, TLAPS

IInv == TypeOK /\ OneVouchedPerDeposit

\* Initially nothing is vouched for.
LEMMA InitIInv == Init => IInv
  BY DEF Init, IInv, TypeOK, OneVouchedPerDeposit, Stages, Vouched

\* Only an approval vouches, and it looks for a rival first.
LEMMA StepIInv == IInv /\ [Next]_vars => IInv'
<1> SUFFICES ASSUME IInv, [Next]_vars PROVE IInv'
  OBVIOUS
<1> USE DEF IInv, TypeOK, OneVouchedPerDeposit, Stages, Vouched, Advance
<1>1. ASSUME NEW x \in Xfers, Submit(x) PROVE IInv'
  BY <1>1 DEF Submit
<1>2. ASSUME NEW x \in Xfers, Approve(x) PROVE IInv'
  BY <1>2 DEF Approve
<1>3. ASSUME NEW x \in Xfers, Cancel(x) PROVE IInv'
  BY <1>3 DEF Cancel
<1>4. ASSUME NEW x \in Xfers, Reinstate(x) PROVE IInv'
  BY <1>4 DEF Reinstate
<1>5. ASSUME NEW x \in Xfers, Execute(x) PROVE IInv'
  BY <1>5 DEF Execute
<1>6. CASE Wait
  BY <1>6 DEF Wait
<1>7. CASE UNCHANGED vars
  BY <1>7 DEF vars
<1> QED
  BY <1>1, <1>2, <1>3, <1>4, <1>5, <1>6, <1>7 DEF Next

\* A source deposit backs at most one transfer that an operator ever approved, hence
\* at most one payout, in every behaviour of a watchtower.
THEOREM OneVouched == Spec => []OneVouchedPerDeposit
<1>1. IInv => OneVouchedPerDeposit
  BY DEF IInv
<1> QED
  BY <1>1, InitIInv, StepIInv, PTL DEF Spec
=============================================================================
