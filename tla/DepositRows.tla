----------------------------- MODULE DepositRows -----------------------------
(***************************************************************************)
(* The operator's record of deposits: the watchers insert a pending row    *)
(* for a deposit of an EVM chain or of Terra, and the writers mark it      *)
(* processed when they approve its withdrawal.  Each writer finds the row  *)
(* by another key: the EVM writer by the nonce, the Terra writer by source *)
(* chain, nonce and kind of destination, the Solana writer by the name.    *)
(***************************************************************************)
EXTENDS TransferNames

CONSTANT Recorded  \* the transfers that are recorded

\* A source chain gives a nonce once, and the operator serves one Terra chain.
ASSUME NoncesAssumption ==
  /\ Recorded \subseteq Transfers
  /\ \A s, t \in Recorded : s.from = t.from /\ s.nonce = t.nonce => s = t
  /\ \A s, t \in Recorded : Kind[s.from] = "terra" /\ Kind[t.from] = "terra" => s.from = t.from

VARIABLES
  row,      \* [transfer -> "none", "pending" or "processed"]
  approved  \* the transfers whose withdrawal a writer has approved

recording == <<row, approved>>

RowsInit == row = [t \in Recorded |-> "none"] /\ approved = {}

From(kind) == {t \in Recorded : Kind[t.from] = kind}
Pending(ts) == {t \in ts : row[t] = "pending"}
Processed(ts) == [t \in Recorded |-> IF t \in ts THEN "processed" ELSE row[t]]

\* A second insertion of the same deposit leaves its row as it is.
Record(t) ==
  /\ t \in From("evm") \cup From("terra")
  /\ row' = [row EXCEPT ![t] = IF @ = "none" THEN "pending" ELSE @]
  /\ UNCHANGED approved

\* The EVM watcher takes the account of the recipient for a universal address, whose
\* first word is the kind of chain; a padded one counts as an EVM address.
dest_chain_type(t) ==
  LET slot == Fields(t).destAccount
  IN  CASE slot[1] = 1 -> "evm"
        [] slot[1] = 2 -> "cosmos"
        [] slot[1] = 3 -> "solana"
        [] slot[1] = 0 -> IF slot[2] = 0 /\ slot[3] = 0 THEN "evm" ELSE "cosmos"
        [] OTHER -> "unknown"

Approves(t, kind) ==
  /\ Kind[t.to] = kind /\ t \notin approved
  /\ approved' = approved \cup {t}

\* The rows the writers look for: any EVM row with the nonce, any Terra row with it, the
\* EVM rows of a source chain with it that are bound for Terra.
EvmRowsByNonce(n)    == {d \in Pending(From("evm")) : d.nonce = n}
TerraRowsByNonce(n)  == {d \in Pending(From("terra")) : d.nonce = n}
CosmosRows(source, n) ==
  {d \in EvmRowsByNonce(n) : d.from = source /\ dest_chain_type(d) = "cosmos"}

\* One row of those found; or none, when the database fails.
ApproveOnEvm(t) ==
  /\ Approves(t, "evm")
  /\ LET found == EvmRowsByNonce(t.nonce)
         own   == IF Kind[t.from] = "terra" THEN TerraRowsByNonce(t.nonce) ELSE {}
     IN  \/ \E d \in IF found # {} THEN found ELSE own : row' = Processed({d})
         \/ found # {} /\ \E d \in own : row' = Processed({d})
         \/ UNCHANGED row

\* Plausible defect: the Terra writer, too, goes by the nonce alone.
ByNonceAlone(t) ==
  /\ Approves(t, "terra")
  /\ \/ \E d \in EvmRowsByNonce(t.nonce) : row' = Processed({d})
     \/ UNCHANGED row

ApproveOnTerra(t) ==
  /\ Approves(t, "terra")
  /\ \/ \E d \in CosmosRows(t.from, t.nonce) : row' = Processed({d})
     \/ UNCHANGED row

\* Every row of that name, in one table after the other.
ApproveOnSolana(t) ==
  /\ Approves(t, "solana")
  /\ LET Named(kind) == {d \in Pending(From(kind)) : DepositName(d) = WithdrawName(t)}
     IN  row' \in {row, Processed(Named("evm")), Processed(Named("evm") \cup Named("terra"))}

RowsNext ==
  \E t \in Recorded : Record(t) \/ ApproveOnEvm(t) \/ ApproveOnTerra(t) \/ ApproveOnSolana(t)

RowsSpec == RowsInit /\ [][RowsNext]_recording

-------------------------------------------------------------------------------
\* A row is marked processed only when the withdrawal of its deposit was approved, but for
\* the EVM rows that share a nonce with a withdrawal approved on an EVM chain: that writer
\* looks for the nonce alone, and every source chain counts its own from one.
RowsSettled ==
  \A t \in Recorded : row[t] = "processed" =>
    \/ t \in approved
    \/ t \in From("evm") /\ \E s \in approved : Kind[s.to] = "evm" /\ s.nonce = t.nonce
===============================================================================
