---------------------------- MODULE MCEvmBridge ----------------------------
(***************************************************************************)
(* Instances of the EVM bridge for TLC.                                    *)
(***************************************************************************)
EXTENDS EvmBridgeSafety, TLC

CONSTANTS here, there, weth, tok, remoteTok, owner, watcher

MCChains      == {here, there}

Xfer(token, amount, nonce) ==
  [srcChain |-> there, token |-> token, amount |-> amount, nonce |-> nonce]

\* Life cycle and ETH: one token, the wrapped native one; two rivals for the
\* source nonce 1.
NativeOnly == {weth}
Rivals     == {Xfer(weth, 190, 1), Xfer(weth, 150, 1)}

\* Value: one token that the owner moves between the two types.
TokOnly    == {tok}
Payments   == {Xfer(tok, 190, 1), Xfer(tok, 150, 2)}

OneDest       == {remoteTok}
MCType        == [t \in Tokens |-> "LockUnlock"]
MCDest        == [t \in Tokens |-> remoteTok]
MCSrcDecimals == [t \in Tokens |-> 3]
MCDecimals    == [t \in Tokens |-> 2]
MCLimits      == [t \in Tokens |-> NoLimits]
SomeLimits    == {[minPerTransaction |-> 0, maxPerTransaction |-> 0, maxPerPeriod |-> 16]}
MCLocked      == [t \in Tokens |-> 40]
MCSupply      == [t \in Tokens |-> 250]

\* Bound: fees differ from the deployed ones only before the first approval, while the
\* registry's mappings and the bridge's authorisations are as deployed.
FeesApart ==
  \/ FeeInit
  \/ /\ withdrawNonceUsed = {}
     /\ tokenRegistered = Tokens /\ unlockAuthorized /\ mintAuthorized
     /\ \A t \in Tokens : /\ GetSrcTokenDecimals(there, t) = InitialSrcDecimals[t]
                           /\ GetDestToken(t, there) = InitialDest[t]

\* Bound: the owner, who needs no listing, is never listed as an operator, and the
\* deployed operator is delisted only while the rest of the configuration is as deployed.
OperatorsApart ==
  /\ Owner \notin operators
  /\ \/ operators = {InitialOperator}
     \/ ~paused /\ cancelers = {} /\ cancelWindow = DEFAULT_CANCEL_WINDOW
=============================================================================
