------------------------------ MODULE MCOperator ------------------------------
(***************************************************************************)
(* The operator process for TLC: main runs the writers and the watchers    *)
(* side by side.  They share nothing that a decision of either reads: the  *)
(* rows that the watchers insert and the writers mark feed reports only.   *)
(* So an instance runs one part, a writer, a watcher, the marking of rows  *)
(* or the naming of transfers, and the state of the others stays as it was. *)
(***************************************************************************)
EXTENDS OperatorWriterSafety, DepositWatcherSafety, DepositRows

CONSTANTS honest, fraud, t1, mimic

\* The account of the fraudulent withdrawal sorts first.
FraudFirst == [h \in {honest, fraud} |-> IF h = fraud THEN 0 ELSE 1]

\* A foreign line with the nonce of the first deposit of t1.
ImitatesFirst == [x \in {mimic} |-> [tx |-> t1, log |-> 1]]

\* A withdrawal route for each writer and each kind of source chain.
SomeRoutes ==
  {[from |-> "solana", to |-> "evm"], [from |-> "evm", to |-> "terra"],
   [from |-> "terra", to |-> "solana"]}

\* Two EVM chains, Terra and Solana.
KindOf == [c \in {"bsc", "eth", "terra", "solana"} |-> IF c \in {"bsc", "eth"} THEN "evm" ELSE c]
IdOf   == [c \in DOMAIN KindOf |->
             CASE c = "bsc" -> <<56>> [] c = "eth" -> <<1>> [] c = "terra" -> <<2>> [] c = "solana" -> <<5>>]

\* Addresses of 20 and of 32 bytes; one that begins with zeros, on every chain the same.
Wallet   == <<0, 2, 3, 4, 5>>
Other    == <<7, 2, 3, 4, 5>>
Contract == <<0, 6, 5, 4, 3, 2, 1, 9>>
Pubkey   == <<3, 1, 4, 1, 5, 9, 2, 6>>

AccountsOn(c) ==
  CASE KindOf[c] = "evm" -> {Wallet, Other}
    [] c = "terra"       -> {Wallet, Contract}
    [] c = "solana"      -> {Contract, Pubkey}

\* A token has an account, or, native on Terra, the hash of its denom.
Token(a) == [native |-> FALSE, account |-> a, digest |-> <<>>]
Native   == [native |-> TRUE, account |-> <<>>, digest |-> <<8, 8, 8, 8, 8, 8, 8, 8>>]
TokensOn(c) ==
  IF c = "terra" THEN {Native, Token(Contract)} ELSE {Token(a) : a \in AccountsOn(c)}

\* An amount and a nonce, either of which may change.
Numbers == {<<1, 1>>, <<1, 2>>, <<2, 1>>}

Transfer(src, dest, sender, recipient, token, numbers) ==
  [from |-> src, to |-> dest, sender |-> sender, recipient |-> recipient, token |-> token,
   amount |-> numbers[1], nonce |-> numbers[2]]

SomeTransfers ==
  UNION {{Transfer(r[1], r[2], a, b, t, n) :
            a \in AccountsOn(r[1]), b \in AccountsOn(r[2]), t \in TokensOn(r[2]), n \in Numbers} :
         r \in {<<"bsc", "terra">>, <<"terra", "bsc">>, <<"eth", "bsc">>, <<"solana", "terra">>,
               <<"bsc", "solana">>}}

SomeRecorded ==
  {Transfer("eth", "bsc", Wallet, Other, Token(Other), <<1, 1>>),
   Transfer("bsc", "terra", Wallet, Contract, Native, <<1, 1>>),
   Transfer("terra", "bsc", Wallet, Other, Token(Other), <<1, 1>>),
   Transfer("bsc", "solana", Wallet, Pubkey, Token(Pubkey), <<1, 2>>)}

VARIABLE part  \* "writers", "watchers", "rows" or "names"

all == <<part, vars, watching, recording, naming>>

ProcessInit ==
  /\ part \in {"writers", "watchers", "rows", "names"}
  /\ Init /\ (part # "writers" => kind = "terra")
  /\ WatcherInit /\ (part # "watchers" => source = "evm")
  /\ RowsInit /\ NamesInit

ProcessNext ==
  \/ part = "writers"  /\ Next /\ UNCHANGED <<part, watching, recording, naming>>
  \/ part = "watchers" /\ WatcherNext /\ UNCHANGED <<part, vars, recording, naming>>
  \/ part = "rows"     /\ RowsNext /\ UNCHANGED <<part, vars, watching, naming>>
  \/ part = "names"    /\ NamesNext /\ UNCHANGED <<part, vars, watching, recording>>

\* Fairness and WatcherFairness, each of the part that runs.
Writes(A)  == part = "writers" /\ A
Watches(A) == part = "watchers" /\ A

ProcessFairness ==
  /\ WF_vars(Writes(Step)) /\ SF_vars(Writes(PollAll))
  /\ \A h \in Honest :
       /\ WF_vars(Writes(Ripen(h))) /\ WF_vars(Writes(Age(h)))
       /\ SF_vars(Writes(Start(h))) /\ SF_vars(Writes(Verify(h)))
       /\ SF_vars(Writes(SendLands(h) \/ SendAwaits(h)))
       /\ SF_vars(Writes(ExecuteLands(h) \/ ExecuteAwaits(h))) /\ SF_vars(Writes(Included(h)))
  /\ WF_watching(Watches(Continues)) /\ SF_watching(Watches(BeginFresh))

ProcessSpec == ProcessInit /\ [][ProcessNext]_all /\ ProcessFairness
===============================================================================
