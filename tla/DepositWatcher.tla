---------------------------- MODULE DepositWatcher ----------------------------
(***************************************************************************)
(* One deposit watcher of the operator process (packages/operator/src/     *)
(* watchers), the source chain it follows and the tables it writes.  A     *)
(* watcher reads the chain's height, takes the blocks or signatures after  *)
(* its cursor in order, inserts a row for every deposit and then moves the *)
(* cursor.  Nodes lag or do not answer, the database refuses writes, the   *)
(* process restarts between any two calls, and an EVM chain reorganises    *)
(* the blocks above its finality depth.                                    *)
(*                                                                         *)
(* A block holds any bridge transactions; on Solana a position stands for  *)
(* one signature of the program, with a deposit or not.  A transaction     *)
(* holds one deposit or, through a contract that calls the bridge twice,   *)
(* two.  The Solana watcher reads log lines, and takes lines that another  *)
(* program wrote for an event of the bridge: a foreign transaction holds   *)
(* such a line, with the nonce of some deposit.  The EVM and Terra cursors *)
(* are rows of the database, the Solana one is memory.  gap is a history   *)
(* variable: why a deposit may stay unrecorded.                            *)
(***************************************************************************)
EXTENDS Naturals, FiniteSets, Sequences

CONSTANTS
  Sources,      \* the kinds of source chain: "evm", "terra", "solana"
  Txs, Twofold, \* the bridge transactions, and those with two deposits
  Foreign,      \* Solana transactions that merely look like one
  Imitated,     \* [foreign transaction -> the deposit whose nonce its line has]
  Endpoints,    \* the numbers of the EVM RPC URLs; the samples are those up to 3
  single_endpoint_reads, \* only the first URL is sampled
  min_agreeing, finality_blocks, lookback_blocks, chunk_size,
  SignatureLimit, \* the 1000 signatures of one Solana page
  SearchLimit,    \* the transactions that a Terra search without pagination returns
  MaxHeight, MaxFaults \* bounds

\* The read policies that start: one URL of several may only decide when it is pinned.
PolicyAccepted ==
  /\ single_endpoint_reads \in BOOLEAN
  /\ min_agreeing \in 1..Cardinality(Endpoints)
  /\ min_agreeing = 1 <=> single_endpoint_reads \/ Cardinality(Endpoints) = 1

Events == {[tx |-> t, log |-> 1] : t \in Txs \cup Foreign} \cup {[tx |-> t, log |-> 2] : t \in Twofold}
Deposits == {e \in Events : e.tx \in Txs}

ASSUME WatcherAssumption ==
  /\ Sources \subseteq {"evm", "terra", "solana"}
  /\ Twofold \subseteq Txs /\ Foreign \cap Txs = {} /\ Imitated \in [Foreign -> Deposits]
  /\ Endpoints \subseteq Nat /\ IsFiniteSet(Endpoints) /\ PolicyAccepted
  /\ chunk_size \in Nat \ {0} /\ SignatureLimit \in Nat \ {0} /\ SearchLimit \in Nat \ {0}
  /\ finality_blocks \in Nat /\ lookback_blocks \in Nat
  /\ MaxHeight \in Nat /\ MaxFaults \in Nat

\* Why a deposit is not recorded: its row or its details were refused, a node that lags
\* answered without it, it lies before the blocks the watcher asks for, it is not the first
\* deposit of its Terra transaction, that transaction is not on the first page of its
\* block, a restart resumed behind its Solana transaction, or its nonce has a row already.
Gaps == {"refused", "unseen", "skipped", "second", "page", "restart", "taken"}

VARIABLES
  source,
  chain,     \* the transactions in each block of the source chain
  rows,      \* the events in the table of the source chain
  cursor,    \* last_processed_block, last_processed_height or last_signature
  step,      \* what the running poll does: "rest", "fetch", "store" or "save"
  from, at, upto, target, \* the poll's start, what it has passed, is passing, goes to
  logs,      \* the fetched events that are not stored yet
  gap,       \* [deposit -> the gap it fell into, or "none"]
  faults

poll     == <<step, from, at, upto, target, logs>>
watching == <<source, chain, rows, cursor, poll, gap, faults>>

Height == Len(chain)
Lower(a, b)  == IF a < b THEN a ELSE b
Higher(a, b) == IF a < b THEN b ELSE a
Minus(a, b)  == IF a < b THEN 0 ELSE a - b  \* saturating_sub

\* What a watcher would read in block i, and in the blocks after lo up to hi.
Held(i) == {e \in Events : e.tx \in chain[i]}
Between(lo, hi) == UNION {Held(i) : i \in (lo + 1)..Lower(hi, Height)}

\* The first gap that an unrecorded deposit falls into.
Open(d) == d \notin rows /\ gap[d] = "none"
Falls(es, why) == gap' = [d \in Deposits |-> IF d \in es /\ Open(d) THEN why ELSE gap[d]]

\* A failed or lagging answer, a refused write or a restart; bounded.
Fault == faults < MaxFaults /\ faults' = faults + 1

WatcherInit ==
  /\ source \in Sources
  /\ chain = <<>> /\ rows = {} /\ cursor = 0
  /\ step = "rest" /\ from = 0 /\ at = 0 /\ upto = 0 /\ target = 0 /\ logs = {}
  /\ gap = [d \in Deposits |-> "none"] /\ faults = 0

-------------------------------------------------------------------------------
(* The source chain.                                                       *)

Mine ==
  /\ Height < MaxHeight
  /\ \E b \in SUBSET (Txs \cup Foreign) :
       /\ \A i \in 1..Height : chain[i] \cap b = {}
       /\ source # "solana" => b \cap Foreign = {}
       /\ source = "solana" => Cardinality(b) <= 1
       /\ chain' = Append(chain, b)
  /\ UNCHANGED <<source, rows, cursor, poll, gap, faults>>

\* A block above the finality depth loses its transactions, which may be mined again.
Reorg ==
  /\ source = "evm"
  /\ \E i \in 1..Height :
       /\ i > Minus(Height, finality_blocks) /\ chain[i] # {}
       /\ chain' = [chain EXCEPT ![i] = {}]
  /\ UNCHANGED <<source, rows, cursor, poll, gap, faults>>

-------------------------------------------------------------------------------
(* The consensus of the EVM endpoints on the head.                         *)

\* The block numbers that the sampled endpoints report at a height; some do not answer.
Sampled    == {e \in Endpoints : e <= (IF single_endpoint_reads THEN 1 ELSE 3)}
Samples(h) == UNION {[up -> 0..h] : up \in SUBSET Sampled}

block_number_tolerance_delta(hi) == Higher(1, (hi * 10) \div 100000)

block_numbers_agree(a, b) ==
  Higher(a, b) - Lower(a, b) <= block_number_tolerance_delta(Higher(a, b))

Cluster(heads, anchor) == {e \in DOMAIN heads : block_numbers_agree(heads[anchor], heads[e])}
IsLowest(heads, c, e)  == e \in c /\ \A f \in c : heads[e] <= heads[f]

\* The winning cluster: the largest, and of those the one that reaches lowest.
pick_consensus_cluster(heads, c) ==
  /\ Cardinality(c) >= min_agreeing
  /\ \E a \in DOMAIN heads : c = Cluster(heads, a)
  /\ \A a \in DOMAIN heads : LET d == Cluster(heads, a) IN
       \/ Cardinality(d) < Cardinality(c)
       \/ /\ Cardinality(d) = Cardinality(c)
          /\ \A e \in c, f \in d : IsLowest(heads, c, e) /\ IsLowest(heads, d, f) => heads[e] <= heads[f]

\* The head is the lowest of the winning cluster, the provider the first of it; view is
\* the height of the provider.
consensus_from_block_samples(heads, head, view) ==
  \E c \in SUBSET DOMAIN heads :
    /\ pick_consensus_cluster(heads, c)
    /\ \E e \in c : IsLowest(heads, c, e) /\ head = heads[e]
    /\ \E p \in c : view = heads[p] /\ \A e \in c : p <= e

\* What a consensus may say at each height of the chain.
Consensus ==
  UNION {{o \in [height : {h}, head : 0..h, view : 0..h] :
            \E heads \in Samples(h) : consensus_from_block_samples(heads, o.head, o.view)}
         : h \in 0..MaxHeight}

-------------------------------------------------------------------------------
(* Beginning and ending a poll.                                            *)

Rests ==
  /\ step' = "rest" /\ logs' = {}
  /\ from' = 0 /\ at' = 0 /\ upto' = 0 /\ target' = 0

Begins(start, passed, goal, missed) ==
  /\ step = "rest" /\ step' = "fetch"
  /\ from' = start /\ at' = passed /\ upto' = passed /\ target' = goal /\ logs' = {}
  /\ Falls(missed, "skipped")
  /\ UNCHANGED <<source, chain, rows, cursor, faults>>

\* Without a cursor the watcher looks back a number of blocks only.
BeginEvmAt(head) ==
  LET current == Minus(head, finality_blocks)
      start   == IF cursor = 0 THEN Minus(current, lookback_blocks) ELSE cursor
  IN  /\ source = "evm" /\ current > start
      /\ Begins(start, start, current, IF cursor = 0 THEN Between(0, start) ELSE {})

Agreed(head) == \E o \in Consensus : o.height = Height /\ o.head = head

BeginEvm == step = "rest" /\ \E head \in 0..Height : Agreed(head) /\ BeginEvmAt(head)

BeginTerraAt(height) ==
  /\ source = "terra" /\ height > cursor
  /\ Begins(cursor, cursor, height, {})

BeginTerra == \E height \in 0..Height : BeginTerraAt(height)

\* The newest signatures after the last one, or all that the node knows if it does not
\* know that one; never more than a page of them.
BeginSolanaAt(view) ==
  LET last == IF cursor <= view THEN cursor ELSE 0
      sigs == (last + 1)..view
  IN  \E newest, oldest \in sigs :
        /\ source = "solana"
        /\ \A i \in sigs : i <= newest
        /\ Cardinality({i \in sigs : i >= oldest}) = Lower(SignatureLimit, Cardinality(sigs))
        /\ Begins(oldest - 1, oldest - 1, newest, Between(cursor, oldest - 1))

BeginSolana == step = "rest" /\ \E view \in 0..Height : BeginSolanaAt(view)

Begin == BeginEvm \/ BeginTerra \/ BeginSolana

\* All nodes are up to date.
BeginFresh == BeginEvmAt(Height) \/ BeginTerraAt(Height) \/ BeginSolanaAt(Height)

\* Nothing new, or no height: the watcher sleeps.
NothingNew == step = "rest" /\ UNCHANGED watching

-------------------------------------------------------------------------------
(* Fetching.                                                               *)

\* Why a deposit is missing from what was shown of the blocks up to next.
Missing(d, next, view, shown) ==
  IF view < next THEN "unseen" ELSE IF \E e \in shown : e.tx = d.tx THEN "second" ELSE "page"

\* The blocks up to next are asked for and shown as far as view.
Fetched(next, view, shown) ==
  /\ upto' = next /\ logs' = shown /\ step' = "store"
  /\ gap' = [d \in Deposits |-> IF d \in Between(at, next) \ shown /\ Open(d)
                               THEN Missing(d, next, view, shown) ELSE gap[d]]
  /\ IF view < next THEN Fault ELSE UNCHANGED faults
  /\ UNCHANGED <<source, chain, rows, cursor, from, at, target>>

\* A chunk comes from the provider of a new consensus or, if it fails, from any other.
FetchEvmAt(view) ==
  LET next == Lower(at + chunk_size, target)
  IN  source = "evm" /\ Fetched(next, view, Between(at, Lower(next, view)))

Answers(view) ==
  \E o \in Consensus : o.height = Height /\ (view = o.view \/ Cardinality(Endpoints) > 1)

FetchEvm ==
  step = "fetch" /\ \E view \in 0..Height : Answers(view) /\ FetchEvmAt(view)

\* The search returns one page of the block's transactions, and of each only the first
\* deposit event is read.
FetchTerraAt(view) ==
  /\ source = "terra" /\ at < Height
  /\ \E page \in SUBSET (IF at < view THEN chain[at + 1] ELSE {}) :
       /\ at < view => Cardinality(page) = Lower(SearchLimit, Cardinality(chain[at + 1]))
       /\ Fetched(at + 1, view, {e \in Between(at, at + 1) : e.tx \in page /\ e.log = 1})

FetchTerra == step = "fetch" /\ \E view \in 0..Height : FetchTerraAt(view)

\* The next signature's transaction; one without log messages shows no deposit.
FetchSolanaAt(seen) ==
  /\ source = "solana"
  /\ Fetched(at + 1, IF seen THEN at + 1 ELSE at, IF seen THEN Between(at, at + 1) ELSE {})

FetchSolana == step = "fetch" /\ \E seen \in BOOLEAN : FetchSolanaAt(seen)

Fetch == FetchEvm \/ FetchTerra \/ FetchSolana

\* The poll ends: EVM saves the chunks it passed, Solana the signatures if it passed one,
\* Terra has saved every block it passed.
FetchFails ==
  /\ step = "fetch"
  /\ IF source = "evm" \/ (source = "solana" /\ at # from)
       THEN step' = "save" /\ UNCHANGED <<from, at, upto, target, logs>>
       ELSE Rests
  /\ Fault
  /\ UNCHANGED <<source, chain, rows, cursor, gap>>

-------------------------------------------------------------------------------
(* Storing.                                                                *)

Stores(e) == step = "store" /\ e \in logs /\ \A d \in logs : d.tx = e.tx => e.log <= d.log

\* A foreign line has the nonce of the deposit it imitates.
Nonce(e) == IF e.tx \in Foreign THEN Imitated[e.tx] ELSE e

\* Plausible defect: the row is inserted again after a restart, and refused for ever.
StoreTwice(e) ==
  /\ Stores(e) /\ e \notin rows
  /\ rows' = rows \cup {e} /\ logs' = logs \ {e}
  /\ UNCHANGED <<source, chain, cursor, step, from, at, upto, target, gap, faults>>

\* A row that exists is left as it is, also if it is that of another event.
Store(e) ==
  /\ Stores(e) /\ logs' = logs \ {e}
  /\ IF \E r \in rows : Nonce(r) = Nonce(e)
     THEN UNCHANGED rows /\ Falls({e}, "taken")
     ELSE rows' = rows \cup {e} /\ UNCHANGED gap
  /\ UNCHANGED <<source, chain, cursor, step, from, at, upto, target, faults>>

\* EVM: a log that cannot be parsed or inserted is passed over; Solana: one that cannot be
\* parsed.
StoreRefused(e) ==
  /\ Stores(e) /\ source \in {"evm", "solana"}
  /\ logs' = logs \ {e} /\ Falls({e}, "refused") /\ Fault
  /\ UNCHANGED <<source, chain, rows, cursor, step, from, at, upto, target>>

\* Any other error abandons the poll, or on EVM its chunk; Solana does not even keep the
\* signatures it has passed.
StoreFails ==
  /\ step = "store" /\ logs # {}
  /\ IF source = "evm" THEN step' = "save" /\ logs' = {} /\ UNCHANGED <<from, at, upto, target>>
                        ELSE Rests
  /\ Fault
  /\ UNCHANGED <<source, chain, rows, cursor, gap>>

\* Terra saves every block, and rests after the last one.
Advance ==
  /\ cursor' = (IF source = "terra" THEN upto ELSE cursor)
  /\ IF source = "terra" /\ upto = target
       THEN Rests
       ELSE /\ at' = upto /\ step' = (IF upto < target THEN "fetch" ELSE "save")
            /\ logs' = {} /\ UNCHANGED <<from, upto, target>>
  /\ UNCHANGED <<source, chain, rows, gap, faults>>

\* Plausible defect: the blocks are passed before their deposits are stored.
PassedEarly == step = "store" /\ Advance

\* All of them are stored.
Passed == step = "store" /\ logs = {} /\ Advance

\* Terra cannot save the block: the poll ends and the block is read again.
PassFails ==
  /\ step = "store" /\ logs = {} /\ source = "terra"
  /\ Rests /\ Fault
  /\ UNCHANGED <<source, chain, rows, cursor, gap>>

Save ==
  /\ step = "save" /\ Rests
  /\ cursor' = at
  /\ UNCHANGED <<source, chain, rows, gap, faults>>

-------------------------------------------------------------------------------
(* Restarts: by a fault, and by a watcher that fails too often.            *)

\* Where a nonce stands: nonces are given in the order of the chain.
Standing(e, i) ==
  \/ i \in 1..Height /\ Nonce(e) \in Held(i)
  \/ i = Height + 1 /\ \A j \in 1..Height : Nonce(e) \notin Held(j)

\* Solana resumes behind the transaction of the row with the highest nonce.
Newest ==
  {i \in 1..Height : \E r \in Held(i) \cap rows :
     \E high \in 1..(Height + 1) :
       Standing(r, high) /\ \A s \in rows, n \in 1..(Height + 1) : Standing(s, n) => n <= high}

Resume == IF source # "solana" THEN {cursor} ELSE IF rows = {} THEN {0} ELSE Newest

Crash ==
  /\ Fault
  /\ \E i \in Resume :
       /\ cursor' = i
       /\ IF source = "solana" /\ i > 0 THEN Falls(Held(i), "restart") ELSE UNCHANGED gap
  /\ Rests
  /\ UNCHANGED <<source, chain, rows>>

-------------------------------------------------------------------------------
Continues ==
  \/ Fetch \/ FetchFails \/ (\E e \in Events : Store(e) \/ StoreRefused(e)) \/ StoreFails
  \/ Passed \/ PassFails \/ Save

WatcherNext == Mine \/ Reorg \/ Begin \/ Continues \/ NothingNew \/ Crash

\* The watcher keeps running and, again and again, hears of the newest block.
WatcherFairness == WF_watching(Continues) /\ SF_watching(BeginFresh)

WatcherSpec == WatcherInit /\ [][WatcherNext]_watching /\ WatcherFairness
===============================================================================
