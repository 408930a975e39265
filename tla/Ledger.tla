------------------------------- MODULE Ledger -------------------------------
(***************************************************************************)
(* The data model of txchain and the pure consensus predicates over it:    *)
(* transactions, blocks, genesis and the per-transaction verification gate *)
(* (gate.cpp) that admission, block connection and replay share.           *)
(*                                                                         *)
(* Cryptography is ideal.  A transaction carries in `auth' what the        *)
(* address and signature checks will find; a hash is the content it        *)
(* commits to, so two hashes are equal exactly when the contents are.      *)
(***************************************************************************)
EXTENDS Integers, Sequences, FiniteSets

CONSTANTS
  Addr,               \* the addresses that have a key pair
  NullAddr,           \* kNullAddr, 20 zero bytes: the sender of a coinbase
  GENESIS_ALLOC,      \* the genesis balance of every address
  COINBASE_REWARD,    \* what a coinbase mints
  MAX_TXNS_PER_BLOCK, \* block-size cap, the coinbase included
  MAX_CLOCK_SKEW_S    \* how far ahead of the clock a timestamp may be

ASSUME LedgerAssumption ==
  /\ IsFiniteSet(Addr)
  /\ NullAddr \notin Addr
  /\ GENESIS_ALLOC \in [Addr -> Nat]
  /\ COINBASE_REWARD \in Nat \ {0}
  /\ MAX_TXNS_PER_BLOCK \in Nat \ {0}
  /\ MAX_CLOCK_SKEW_S \in Nat

-----------------------------------------------------------------------------
(* Every 20-byte string is a possible account, the null address included:   *)
(* nothing in the code stops a transfer to it.                              *)
Acct == Addr \cup {NullAddr}

(* What the checks on pubkey and signature find: a good signature, a bad    *)
(* one, a pubkey that is not the sender's, or the all-zero pubkey and       *)
(* signature of a coinbase.                                                 *)
Auth == {"signed", "badSig", "badAddr", "null"}

Txn == [from : Acct, to : Acct, amount : Nat, nonce : Nat, auth : Auth]

AccountState == [balance : Nat, nonce : Nat]

Accounts == [Acct -> AccountState]

(* The 64-bit PoW nonce, as far as the difficulty check can tell: the zero  *)
(* it starts from, or one the miner found.                                  *)
PowNonce == {"zero", "found"}

(* A hash is the chain of contents it commits to; ZeroHash commits to none. *)
HeaderCore == [index : Nat, timestamp : Nat, txnsHash : Seq(Txn), nonce : PowNonce]
Hash256 == Seq(HeaderCore)
ZeroHash == <<>>

BlockHeader == [index : Nat, timestamp : Nat, prevHash : Hash256,
                txnsHash : Seq(Txn), nonce : PowNonce]
Block == [header : BlockHeader, txns : Seq(Txn)]

(* BlockHeader::hash and Block::computeTxnsHash.                            *)
HeaderHash(h) ==
  Append(h.prevHash, [index |-> h.index, timestamp |-> h.timestamp,
                      txnsHash |-> h.txnsHash, nonce |-> h.nonce])
ComputeTxnsHash(b) == b.txns

(* meets_difficulty: every hash has zero leading zero bits.                 *)
MeetsDifficulty(h, D) == D = 0 \/ h.nonce = "found"

(* block_work: the 128-bit 2^D, saturated.                                  *)
BlockWork(D) == IF D >= 128 THEN 2^128 - 1 ELSE 2^D

Reason == {"OK", "BAD_LINK", "BAD_TXNS_HASH", "BAD_POW", "BAD_SIG", "BAD_ADDR",
           "STALE_NONCE", "INSUFFICIENT_FUNDS", "BAD_SUPPLY"}

-----------------------------------------------------------------------------
(* Genesis.                                                                 *)
GENESIS_TIMESTAMP == 0

ApplyGenesis ==
  [a \in Acct |-> [balance |-> IF a \in Addr THEN GENESIS_ALLOC[a] ELSE 0, nonce |-> 0]]

GenesisBlock ==
  [header |-> [index |-> 0, timestamp |-> GENESIS_TIMESTAMP, prevHash |-> ZeroHash,
               txnsHash |-> <<>>, nonce |-> "zero"],
   txns |-> <<>>]

-----------------------------------------------------------------------------
(* The gate.  A txn index is counted from 0, as in the code.                *)

(* Mutant: the coinbase carries the height of the tip.                      *)
CoinbaseTxn_OffByOne(to, height) ==
  [from |-> NullAddr, to |-> to, amount |-> COINBASE_REWARD, nonce |-> height - 1,
   auth |-> "null"]

CoinbaseTxn(to, height) ==
  [from |-> NullAddr, to |-> to, amount |-> COINBASE_REWARD, nonce |-> height,
   auth |-> "null"]

CoinbaseShapeReason(t, block_index) ==
  IF t.auth # "null" \/ t.nonce # block_index THEN "BAD_TXNS_HASH"
  ELSE IF t.amount # COINBASE_REWARD THEN "BAD_SUPPLY"
  ELSE "OK"

(* Mutants: applyTxn without its funds check, and without its nonce check.  *)
ApplyTxnReason_NoFunds(work, t, block_index, txn_index) ==
  IF t.from = NullAddr THEN "BAD_TXNS_HASH"
  ELSE IF t.auth # "signed" THEN "BAD_SIG"
  ELSE IF t.nonce # work[t.from].nonce THEN "STALE_NONCE"
  ELSE "OK"

ApplyTxnReason_NoNonce(work, t, block_index, txn_index) ==
  IF t.from = NullAddr THEN "BAD_TXNS_HASH"
  ELSE IF t.auth # "signed" THEN "BAD_SIG"
  ELSE IF t.amount > work[t.from].balance THEN "INSUFFICIENT_FUNDS"
  ELSE "OK"

(* Reason applyTxn returns.                                                 *)
ApplyTxnReason(work, t, block_index, txn_index) ==
  IF t.from = NullAddr THEN
    IF txn_index # 0 THEN "BAD_TXNS_HASH" ELSE CoinbaseShapeReason(t, block_index)
  ELSE IF t.auth \in {"badAddr", "null"} THEN "BAD_ADDR"
  ELSE IF t.auth = "badSig" THEN "BAD_SIG"
  ELSE IF t.nonce # work[t.from].nonce THEN "STALE_NONCE"
  ELSE IF t.amount > work[t.from].balance THEN "INSUFFICIENT_FUNDS"
  ELSE "OK"

Credit(work, a, amount) == [work EXCEPT ![a].balance = @ + amount]

(* Mutant: the sender's nonce is not bumped.                                *)
ApplyTxn_KeepNonce(work, t) ==
  IF t.from = NullAddr THEN Credit(work, t.to, t.amount)
  ELSE Credit([work EXCEPT ![t.from].balance = @ - t.amount], t.to, t.amount)

(* What applyTxn does to `work' when it returns OK.  Both accounts are read *)
(* before either is written and the receiver is written last, so that in a  *)
(* transfer to oneself the receiver's copy replaces the debit.              *)
ApplyTxn(work, t) ==
  IF t.from = NullAddr THEN Credit(work, t.to, t.amount)
  ELSE LET from_after == [balance |-> work[t.from].balance - t.amount,
                          nonce   |-> work[t.from].nonce + 1]
           to_after   == [balance |-> work[t.to].balance + t.amount,
                          nonce   |-> work[t.to].nonce]
       IN [work EXCEPT ![t.from] = from_after, ![t.to] = to_after]

(* One turn of the loop of applyBlockTxns: the coinbase rules, or the gate. *)
BlockTxnReason(work, t, block_index, txn_index, coinbase_count) ==
  IF t.from = NullAddr THEN
    IF coinbase_count > 0 \/ txn_index # 0 THEN "BAD_TXNS_HASH"
    ELSE CoinbaseShapeReason(t, block_index)
  ELSE ApplyTxnReason(work, t, block_index, txn_index)

(* Its last check: a chain that issues coins needs a coinbase.              *)
CoinbaseCountReason(coinbase_count, reward) ==
  IF reward > 0 /\ coinbase_count = 0 THEN "BAD_SUPPLY" ELSE "OK"

(* V1 to V6 of the block that should stand at `height', against the header  *)
(* before it.  Replay (validate.cpp) checks the same in the same order.     *)
HeaderReason(b, height, tip, now_s, D) ==
  LET h == b.header IN
  IF h.index # height \/ h.prevHash # HeaderHash(tip) THEN "BAD_LINK"
  ELSE IF h.timestamp <= tip.timestamp \/ h.timestamp > now_s + MAX_CLOCK_SKEW_S
       THEN "BAD_LINK"
  ELSE IF ~MeetsDifficulty(h, D) THEN "BAD_POW"
  ELSE IF ComputeTxnsHash(b) # h.txnsHash THEN "BAD_TXNS_HASH"
  ELSE IF Len(b.txns) > MAX_TXNS_PER_BLOCK THEN "BAD_TXNS_HASH"
  ELSE "OK"
=============================================================================
