------------------------- MODULE DepositWatcherSafety -------------------------
(***************************************************************************)
(* What the tables of deposits may be relied on for: no row without a      *)
(* final deposit, no deposit passed over but through a gap of the code,    *)
(* and every final deposit recorded at last.                               *)
(***************************************************************************)
EXTENDS DepositWatcher

\* The gaps of each kind of watcher.
GapsOf ==
  CASE source = "evm"    -> {"refused", "unseen", "skipped"}
    [] source = "terra"  -> {"unseen", "second", "page"}
    [] source = "solana" -> {"refused", "unseen", "skipped", "restart", "taken"}

\* Types.
WatcherTypes ==
  /\ source \in Sources
  /\ chain \in Seq(SUBSET (Txs \cup Foreign)) /\ Height <= MaxHeight
  /\ rows \subseteq Events /\ logs \subseteq Events
  /\ step \in {"rest", "fetch", "store", "save"}
  /\ cursor \in 0..MaxHeight
  /\ from \in Nat /\ at \in Nat /\ upto \in Nat /\ target \in Nat
  /\ gap \in [Deposits -> {"none"} \cup GapsOf]
  /\ faults \in 0..MaxFaults

Final == IF source = "evm" THEN Minus(Height, finality_blocks) ELSE Height
Accounted(d) == d \in rows \/ gap[d] # "none"

\* The cursor never stands behind a deposit that is neither recorded nor lost to a gap
\* of its chain's watcher, whatever endpoints lagged or failed, writes were refused and
\* restarts came between; a row stands in a block that no reorganisation takes back; and
\* it is a deposit, or on Solana a foreign line: another deposit than the one whose nonce
\* it has is never the reason for a missing row.
RowsMatchChain ==
  /\ \A d \in Between(0, cursor) \cap Deposits : Accounted(d)
  /\ rows \subseteq Between(0, Final)
  /\ source # "solana" => rows \subseteq Deposits
  /\ \A d \in Deposits : gap[d] = "taken" => \E r \in rows \ Deposits : Nonce(r) = d

\* The deposits of a transaction that has become final are recorded at last, unless they
\* fell into a gap.
CaughtUp ==
  \A t \in Txs :
    (\E d \in Between(0, Final) : d.tx = t) ~> (\A d \in Deposits : d.tx = t => Accounted(d))
===============================================================================
