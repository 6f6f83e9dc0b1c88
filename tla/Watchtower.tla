------------------------------ MODULE Watchtower ------------------------------
(***************************************************************************)
(* What every destination chain of the bridge promises about withdrawals,  *)
(* whatever contract implements it.  A withdrawal is submitted by anyone,  *)
(* approved by an operator, may be cancelled by a canceler and reinstated  *)
(* by an operator, and pays out once.  Two promises make this safe:        *)
(*   - a source deposit, known by <<source chain, nonce>>, backs at most   *)
(*     one withdrawal that an operator ever approved;                      *)
(*   - nothing pays out before it has stood uncancelled for more than      *)
(*     MinWindow since the operator (re)approved it, so that a canceler    *)
(*     watching the chain has that long to object.                         *)
(***************************************************************************)
EXTENDS Naturals

CONSTANTS
  Xfers,     \* the transfers that may be submitted: records with srcChain and nonce
  MinWindow  \* the shortest time a canceler is given: a natural number

VARIABLES
  status,    \* [transfer -> its stage]
  liveSince, \* [transfer -> when it was last approved or reinstated]
  now

vars == <<status, liveSince, now>>

Stages  == {"none", "submitted", "approved", "cancelled", "executed"}
Vouched == {"approved", "cancelled", "executed"}   \* an operator approved it

Key(x) == <<x.srcChain, x.nonce>>

Init ==
  /\ status = [x \in Xfers |-> "none"]
  /\ liveSince = [x \in Xfers |-> 0]
  /\ now \in Nat

Advance(x, from, to) == status[x] = from /\ status' = [status EXCEPT ![x] = to]

Submit(x) == Advance(x, "none", "submitted") /\ UNCHANGED <<liveSince, now>>

Approve(x) ==
  /\ \A y \in Xfers : Key(y) = Key(x) => status[y] \notin Vouched
  /\ Advance(x, "submitted", "approved")
  /\ liveSince' = [liveSince EXCEPT ![x] = now]
  /\ UNCHANGED now

Cancel(x) == Advance(x, "approved", "cancelled") /\ UNCHANGED <<liveSince, now>>

Reinstate(x) ==
  /\ Advance(x, "cancelled", "approved")
  /\ liveSince' = [liveSince EXCEPT ![x] = now]
  /\ UNCHANGED now

Execute(x) ==
  /\ now > liveSince[x] + MinWindow
  /\ Advance(x, "approved", "executed")
  /\ UNCHANGED <<liveSince, now>>

Wait == now' > now /\ now' \in Nat /\ UNCHANGED <<status, liveSince>>

Next ==
  \/ \E x \in Xfers : Submit(x) \/ Approve(x) \/ Cancel(x) \/ Reinstate(x) \/ Execute(x)
  \/ Wait

Spec == Init /\ [][Next]_vars

\* Types.
TypeOK ==
  /\ status \in [Xfers -> Stages]
  /\ liveSince \in [Xfers -> Nat]
  /\ now \in Nat

\* At most one transfer per source deposit is ever vouched for, hence paid.
OneVouchedPerDeposit ==
  \A x, y \in Xfers :
    Key(x) = Key(y) /\ status[x] \in Vouched /\ status[y] \in Vouched => x = y
===============================================================================
