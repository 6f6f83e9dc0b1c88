---------------------------- MODULE TransferNames ----------------------------
(***************************************************************************)
(* The name of a transfer: the xchain hash id that the source bridge gives *)
(* a deposit, the destination bridge a withdrawal, and the operator and    *)
(* the canceler recompute.  Four programs encode the same seven fields:    *)
(* HashLib.sol, the Terra contract, the Solana program and multichain-rs.  *)
(*                                                                         *)
(* Bytes are counted in words of four: an address of 20 bytes is a sequence *)
(* of five words, one of 32 bytes of eight.  keccak256 is taken to be      *)
(* injective, so a name is the bytes that are hashed.                      *)
(***************************************************************************)
EXTENDS Naturals, Sequences
LOCAL INSTANCE SequencesExt

CONSTANTS
  Kind,       \* [chain -> "evm", "terra" or "solana"]
  ChainId,    \* [chain -> its four bytes, as a sequence of one word]
  Transfers,  \* the transfers to look at
  Unnamed     \* no transfer

Words(n) == {w \in Seq(Nat) : Len(w) = n}

\* An address of 32 bytes on Terra, and the digest of a denom, are hashes, which are taken
\* never to be an address of 20 bytes that is padded.
IsHash(w) == Len(w) = 8 /\ \E i \in 1..3 : w[i] # 0

IsAccount(chain, a) ==
  \/ Kind[chain] \in {"evm", "terra"} /\ Len(a) = 5
  \/ Kind[chain] = "terra" /\ IsHash(a)
  \/ Kind[chain] = "solana" /\ Len(a) = 8

IsToken(chain, t) ==
  \/ t.native /\ Kind[chain] = "terra" /\ IsHash(t.digest) /\ t.account = <<>>
  \/ ~t.native /\ IsAccount(chain, t.account) /\ t.digest = <<>>

\* Chain ids differ, and no digest of a denom is the address of a contract.
ASSUME NamesAssumption ==
  /\ \A c \in DOMAIN Kind : Kind[c] \in {"evm", "terra", "solana"} /\ ChainId[c] \in Words(1)
  /\ \A c, d \in DOMAIN Kind : ChainId[c] = ChainId[d] => c = d
  /\ Transfers \subseteq
       [from : DOMAIN Kind, to : DOMAIN Kind, sender : Seq(Nat), recipient : Seq(Nat),
        token : [native : BOOLEAN, account : Seq(Nat), digest : Seq(Nat)],
        amount : Nat, nonce : Nat]
  /\ \A t \in Transfers :
       IsAccount(t.from, t.sender) /\ IsAccount(t.to, t.recipient) /\ IsToken(t.to, t.token)
  /\ \A s, t \in Transfers : s.token.native => s.token.digest # t.token.account

VARIABLES
  deposited,  \* a transfer and the name its source bridge stored
  submitted   \* a withdrawal, and the name the destination stored

naming == <<deposited, submitted>>

\* Right-aligned in 32 bytes, and left-aligned.
LeftPadded(w)  == [i \in 1..8 |-> IF i + Len(w) > 8 THEN w[i + Len(w) - 8] ELSE 0]
RightPadded(w) == [i \in 1..8 |-> IF i <= Len(w) THEN w[i] ELSE 0]

\* n in as many big-endian words.
BigEndian(n, words) == [i \in 1..words |-> IF i = words THEN n ELSE 0]

-------------------------------------------------------------------------------
(* HashLib.sol                                                             *)

addressToBytes32(a) == LeftPadded(a)
bytes32ToAddress(s) == SubSeq(s, 4, 8)

\* abi.encode pads every value to a slot; amounts are uint256.
computeXchainHashId(f) ==
  RightPadded(f.srcChain) \o RightPadded(f.destChain) \o f.srcAccount \o f.destAccount
    \o f.token \o BigEndian(f.amount, 8) \o BigEndian(f.nonce, 8)

-------------------------------------------------------------------------------
(* The Rust programs copy the fields into a zeroed buffer of 224 bytes.    *)

Copy(buffer, start, bytes) ==
  [i \in DOMAIN buffer |-> IF i - start \in 1..Len(bytes) THEN bytes[i - start] ELSE buffer[i]]

Zeroed == [i \in 1..56 |-> 0]

\* Amounts are u128, nonces u64, each at the end of its slot.
Layout(f, nonce) ==
  LET withChains   == Copy(Copy(Zeroed, 0, f.srcChain), 8, f.destChain)
      withAccounts == Copy(Copy(withChains, 16, f.srcAccount), 24, f.destAccount)
      withAmount   == Copy(Copy(withAccounts, 32, f.token), 44, BigEndian(f.amount, 4))
  IN  Copy(withAmount, 54, nonce)

\* multichain-rs, for the operator and the canceler; the Terra contract; the Solana
\* program: a copy each.
compute_xchain_hash_id(f) == Layout(f, BigEndian(f.nonce, 2))
TerraHashId(f)            == Layout(f, BigEndian(f.nonce, 2))

\* Plausible defect: the nonce as in the seeds of the deposit account, little-endian.
LittleEndianNonce(f) == Layout(f, Reverse(BigEndian(f.nonce, 2)))

compute_transfer_hash(f) == Layout(f, BigEndian(f.nonce, 2))

-------------------------------------------------------------------------------
(* Accounts and tokens.  A native denom of Terra is hashed, a CW20 token   *)
(* or an account of 20 or 32 bytes is padded.                              *)

\* The Terra contract.
encode_terra_address(a) == LeftPadded(a)
encode_token_address(t) == IF t.native THEN t.digest ELSE encode_terra_address(t.account)

\* multichain-rs.
encode_terra_address_to_bytes32(a) == IF Len(a) = 8 THEN a ELSE LeftPadded(a)
encode_terra_token_address(t) ==
  IF t.native THEN t.digest ELSE encode_terra_address_to_bytes32(t.account)
address_to_bytes32(a) == LeftPadded(a)
pubkey_to_bytes32(k) == k

\* What the user's tools put for an account, and the admin's for a token, of a chain.
AccountSlot(chain, a) ==
  CASE Kind[chain] = "evm"    -> address_to_bytes32(a)
    [] Kind[chain] = "terra"  -> encode_terra_address_to_bytes32(a)
    [] Kind[chain] = "solana" -> pubkey_to_bytes32(a)
TokenSlot(chain, t) ==
  IF Kind[chain] = "terra" THEN encode_terra_token_address(t) ELSE AccountSlot(chain, t.account)

\* The fields of a transfer, as the tools encode them.
Fields(t) ==
  [srcChain |-> ChainId[t.from], destChain |-> ChainId[t.to],
   srcAccount |-> AccountSlot(t.from, t.sender), destAccount |-> AccountSlot(t.to, t.recipient),
   token |-> TokenSlot(t.to, t.token), amount |-> t.amount, nonce |-> t.nonce]

\* A deposit: the bridge encodes its caller itself.
DepositName(t) ==
  LET As(slot) == [Fields(t) EXCEPT !.srcAccount = slot]
  IN  CASE Kind[t.from] = "evm"    -> computeXchainHashId(As(addressToBytes32(t.sender)))
        [] Kind[t.from] = "terra"  -> TerraHashId(As(encode_terra_address(t.sender)))
        [] Kind[t.from] = "solana" -> compute_transfer_hash(As(pubkey_to_bytes32(t.sender)))

\* A withdrawal: the bridge encodes its token, and Terra and Solana the recipient.
WithdrawName(t) ==
  LET f == Fields(t)
  IN  CASE Kind[t.to] = "evm" ->
             computeXchainHashId([f EXCEPT !.token = addressToBytes32(t.token.account)])
        [] Kind[t.to] = "terra" ->
             TerraHashId([f EXCEPT !.destAccount = encode_terra_address(t.recipient),
                                   !.token = encode_token_address(t.token)])
        [] Kind[t.to] = "solana" ->
             compute_transfer_hash([f EXCEPT !.destAccount = t.recipient,
                                             !.token = t.token.account])

\* The canceler takes the fields of a pending withdrawal, a Terra token by its string.
Recomputed(t) == compute_xchain_hash_id(Fields(t))

\* Who is paid: an EVM bridge keeps the last 20 bytes of the slot.
Payee(t) ==
  IF Kind[t.to] = "evm" THEN bytes32ToAddress(AccountSlot(t.to, t.recipient)) ELSE t.recipient

-------------------------------------------------------------------------------
NamesInit == deposited = Unnamed /\ submitted = Unnamed

NameDeposit(t) ==
  /\ deposited = Unnamed
  /\ deposited' = [transfer |-> t, name |-> DepositName(t)]
  /\ UNCHANGED submitted

\* Anyone submits, for the same destination, the same transfer or another one.
NameWithdrawal(t) ==
  /\ deposited # Unnamed /\ submitted = Unnamed /\ t.to = deposited.transfer.to
  /\ submitted' = [transfer |-> t, name |-> WithdrawName(t)]
  /\ UNCHANGED deposited

\* Another pair of transfers.
NameOthers ==
  /\ submitted # Unnamed
  /\ deposited' = Unnamed /\ submitted' = Unnamed

NamesNext == NameOthers \/ \E t \in Transfers : NameDeposit(t) \/ NameWithdrawal(t)

NamesSpec == NamesInit /\ [][NamesNext]_naming

-------------------------------------------------------------------------------
\* A withdrawal bears the name of a deposit exactly if it is the same transfer, from the
\* same sender to the same recipient, of the same token, amount and nonce, whichever of
\* the four encodings made the two names; the canceler recomputes that very name, and the
\* recipient that was named is the one who is paid.
NamesAgree ==
  submitted # Unnamed =>
    /\ submitted.name = deposited.name <=> submitted.transfer = deposited.transfer
    /\ submitted.name = Recomputed(submitted.transfer)
    /\ Payee(submitted.transfer) = submitted.transfer.recipient
===============================================================================
