---------------------------- MODULE MCTerraBridge ----------------------------
(***************************************************************************)
(* Instances of the Terra Classic bridge for TLC.                          *)
(***************************************************************************)
EXTENDS TerraBridgeSafety, TLC

CONSTANTS terra, bsc, uluna, cw20, remoteA, remoteB, foreign, admin1, op1, bscName, otherName

MCChains == {terra, bsc}

Xfer(token, amount, nonce) ==
  [srcChain |-> bsc, token |-> token, amount |-> amount, nonce |-> nonce]

\* Life cycle and value: two rivals for the source nonce 1, of different tokens.
Rivals == {Xfer(uluna, 190, 1), Xfer(cw20, 150, 1)}

\* Configuration: one payment while the admin changes what it depends on.
OnePayment == {Xfer(cw20, 190, 1)}

Operators   == <<op1>>
\* A list the instantiate message may hold: it counts op1 twice.
RepeatedOperators == <<op1, op1>>

MCTokens ==
  [t \in Tokens |-> [listed |-> TRUE, decimals |-> 2, enabled |-> TRUE,
                     type |-> IF t = uluna THEN "LockUnlock" ELSE "MintBurn"]]
MCIdentifier  == [c \in Chains |-> IF c = terra THEN NoIdentifier ELSE bscName]
MCDest        == [t \in Tokens |-> IF t = uluna THEN remoteA ELSE remoteB]
MCSrcDecimals == [t \in Tokens |-> 3]
MCCodeId      == [t \in Cw20s |-> 1]
Unlimited     == [t \in Tokens |-> [maxPerTransaction |-> 0, maxPerPeriod |-> 0]]
Unconfigured  == [t \in Tokens |-> NoLimit]
SomeLimits    == {[maxPerTransaction |-> 20, maxPerPeriod |-> 18]}
MCLocked      == [t \in Tokens |-> IF t = uluna THEN 20 ELSE 0]
MCSupply      == [t \in Tokens |-> 250]
==============================================================================
