----------------------------- MODULE TokenVaults -----------------------------
(***************************************************************************)
(* LockUnlock.sol and MintBurn.sol: what the bridge's two asset handlers   *)
(* do to a token contract.  A token is seen as its total supply and the    *)
(* part of it locked in LockUnlock; the rest circulates among users.       *)
(***************************************************************************)
EXTENDS EvmChain

VARIABLES
  locked,            \* balanceOf(LockUnlock) per token
  supply,            \* totalSupply per token
  unlockAuthorized,  \* the bridge is an authorized caller of LockUnlock
  mintAuthorized     \* the bridge is an authorized caller of MintBurn

vaultVars == <<locked, supply, unlockAuthorized, mintAuthorized>>

Circulating(t) == supply[t] - locked[t]

\* The bridge's transferFrom of a depositor's tokens to LockUnlock.
Lock(t, amount) ==
  /\ amount <= Circulating(t)
  /\ locked' = [locked EXCEPT ![t] = @ + amount]
  /\ UNCHANGED <<supply, unlockAuthorized, mintAuthorized>>

\* Plausible defect: more is unlocked than is held.
UnlockUnchecked(t, amount) ==
  /\ unlockAuthorized
  /\ locked' = [locked EXCEPT ![t] = @ - amount]
  /\ UNCHANGED <<supply, unlockAuthorized, mintAuthorized>>

Unlock(t, amount) ==
  /\ unlockAuthorized
  /\ amount <= locked[t]
  /\ locked' = [locked EXCEPT ![t] = @ - amount]
  /\ UNCHANGED <<supply, unlockAuthorized, mintAuthorized>>

Burn(t, amount) ==
  /\ mintAuthorized
  /\ amount <= Circulating(t)
  /\ supply' = [supply EXCEPT ![t] = @ - amount]
  /\ UNCHANGED <<locked, unlockAuthorized, mintAuthorized>>

Mint(t, amount) ==
  /\ mintAuthorized
  /\ supply' = [supply EXCEPT ![t] = @ + amount]
  /\ UNCHANGED <<locked, unlockAuthorized, mintAuthorized>>

\* The handlers' owner authorizes the bridge, or withdraws the authorization.
SetUnlockAuthorized(on) ==
  /\ OwnerMay("setUnlockAuthorized")
  /\ unlockAuthorized' = on
  /\ UNCHANGED <<locked, supply, mintAuthorized>>

SetMintAuthorized(on) ==
  /\ OwnerMay("setMintAuthorized")
  /\ mintAuthorized' = on
  /\ UNCHANGED <<locked, supply, unlockAuthorized>>

VaultAdmin == \E on \in BOOLEAN : SetUnlockAuthorized(on) \/ SetMintAuthorized(on)

VaultTypeOK ==
  /\ locked \in [Tokens -> Nat]
  /\ supply \in [Tokens -> Nat]
  /\ unlockAuthorized \in BOOLEAN
  /\ mintAuthorized \in BOOLEAN
==============================================================================
