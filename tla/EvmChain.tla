------------------------------ MODULE EvmChain ------------------------------
(***************************************************************************)
(* What the contracts of one EVM chain share: the token contracts and the  *)
(* remote chains they know, the block timestamp, and the bound on what the *)
(* owner does in an instance.  Every contract call is atomic: the EVM runs *)
(* one transaction at a time and a revert undoes all of it, so a call that *)
(* would revert is simply an action that is not enabled.                   *)
(***************************************************************************)
EXTENDS Integers

CONSTANTS
  Tokens,       \* token contracts of this chain
  Chains,       \* chain ids: this chain and the remote ones
  AdminOps,     \* bound: the administrative operations an instance exercises
  MaxTime       \* bound: the last block timestamp

ASSUME MaxTimeAssumption == MaxTime \in Nat \ {0}

VARIABLE now    \* block.timestamp

\* Timestamps start above zero: zero is the contracts' "never" value.
StartOfTime == now = 1

\* Blocks advance the clock; several transactions may share a timestamp.
Tick == now < MaxTime /\ now' = now + 1

\* The owner exercises operation op in this instance.
OwnerMay(op) == op \in AdminOps
=============================================================================
