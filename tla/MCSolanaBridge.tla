--------------------------- MODULE MCSolanaBridge ---------------------------
(***************************************************************************)
(* An instance of the Solana bridge program for TLC.                       *)
(***************************************************************************)
EXTENDS SolanaBridgeSafety, TLC

CONSTANTS solana, bsc, SOL, mint, solOnBsc, mintOnBsc, mintToo, op1

MCChains == {solana, bsc}

Xfer(token, amount, nonce) ==
  [srcChain |-> bsc, token |-> token, amount |-> amount, nonce |-> nonce]

\* Two rivals for the source nonce 1, and a second native payout.
MCXfers == {Xfer(SOL, 90, 1), Xfer(SOL, 80, 2), Xfer(mint, 70, 1)}

Mapping(local, mode) ==
  [local |-> local, mode |-> mode, decimals |-> 2, srcDecimals |-> 3, accruedFees |-> 0]

MCMappings == [k \in MappingKeys |->
  IF k = <<bsc, solOnBsc>> THEN Mapping(SOL, "LockUnlock")
  ELSE IF k = <<bsc, mintOnBsc>> THEN Mapping(mint, "LockUnlock")
  ELSE NoMapping]

\* A second mapping of the same mint, in the other mode.
MCMappingCalls == {[local |-> mint, mode |-> "MintBurn", decimals |-> 2, srcDecimals |-> 2]}

Call == [admin |-> Keep, operator |-> Keep, feeBps |-> Keep, withdrawDelay |-> Keep,
         paused |-> Keep]
MCConfigCalls == {[Call EXCEPT !.withdrawDelay = 0], [Call EXCEPT !.withdrawDelay = 1]}

MCLimitCalls == {[min |-> 0, maxTx |-> 0, maxPeriod |-> 9]}

MCDecimals == [t \in Mints |-> 2]
MCVault    == [t \in Mints |-> 0]
MCSupply   == [t \in Mints |-> 400]
=============================================================================
