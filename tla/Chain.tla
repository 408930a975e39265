-------------------------------- MODULE Chain --------------------------------
(***************************************************************************)
(* class Chain (chain.cpp): the committed blocks with the account state    *)
(* they add up to, and connectBlock, the single write path.  connectBlock  *)
(* works on a scratch copy of the state one transaction at a time, and so  *)
(* does the model: a call, one step per transaction, and a return that     *)
(* either commits everything or discards the copy.                         *)
(***************************************************************************)
EXTENDS Ledger

CONSTANT Difficulty     \* cfg.difficulty: PoW bits a block hash must show

ASSUME DifficultyAssumption == Difficulty \in 0 .. 127

(* Issuance is on exactly when difficulty is positive (Node's constructor). *)
Reward == IF Difficulty > 0 THEN COINBASE_REWARD ELSE 0

VARIABLES
  blocks,          \* blocks_
  state,           \* state_
  cumWork,         \* cumWork_
  undoLog,         \* undoLog_: per block, the touched accounts before it
  now,             \* the wall clock, in seconds
  calling,         \* a connectBlock call is past V6
  cb,              \* its argument b
  work,            \* its scratch state; equal to `state' outside a call
  ti,              \* the next txn of b, counted from 0
  coinbase_count,  \* coinbases met so far
  ret              \* what the last call returned, "none" before and during one

chainVars == <<blocks, state, cumWork, undoLog>>
callVars == <<calling, cb, work, ti, coinbase_count, ret>>

Height == Len(blocks) - 1
Tip == blocks[Len(blocks)].header
TipHash == HeaderHash(Tip)

ChainTypeOK ==
  /\ blocks \in Seq(Block)
  /\ Len(blocks) >= 1
  /\ state \in Accounts
  /\ now \in Nat
  /\ calling \in BOOLEAN
  /\ cb \in Block
  /\ work \in Accounts
  /\ ti \in Nat
  /\ coinbase_count \in Nat
  /\ ret \in Reason \cup {"none"}

(* The constructor: genesis, which carries no work.                         *)
ChainNew ==
  /\ blocks = <<GenesisBlock>>
  /\ state = ApplyGenesis
  /\ cumWork = 0
  /\ undoLog = <<>>

NotCalling ==
  /\ calling = FALSE
  /\ cb = GenesisBlock
  /\ work = ApplyGenesis
  /\ ti = 0
  /\ coinbase_count = 0
  /\ ret = "none"

-----------------------------------------------------------------------------
(* The end of a call that failed: nothing but the scratch copy is gone.     *)
Refuse(r) ==
  /\ calling' = FALSE
  /\ cb' = GenesisBlock
  /\ work' = state
  /\ ti' = 0
  /\ coinbase_count' = 0
  /\ ret' = r
  /\ UNCHANGED chainVars

(* connectBlock(b, now) up to V6.                                           *)
ConnectCall(b) ==
  LET r == HeaderReason(b, Height + 1, Tip, now, Difficulty) IN
  /\ ~calling
  /\ \/ r # "OK" /\ Refuse(r)
     \/ /\ r = "OK"
        /\ calling' = TRUE
        /\ cb' = b
        /\ work' = state
        /\ ti' = 0
        /\ coinbase_count' = 0
        /\ ret' = "none"
        /\ UNCHANGED chainVars

(* V7 for the next transaction of the block.                                *)
ConnectTxn ==
  /\ calling
  /\ ti < Len(cb.txns)
  /\ LET t == cb.txns[ti + 1]
         r == BlockTxnReason(work, t, cb.header.index, ti, coinbase_count)
     IN \/ r # "OK" /\ Refuse(r)
        \/ /\ r = "OK"
           /\ work' = ApplyTxn(work, t)
           /\ ti' = ti + 1
           /\ coinbase_count' = coinbase_count + IF t.from = NullAddr THEN 1 ELSE 0
           /\ UNCHANGED <<calling, cb, ret>>
           /\ UNCHANGED chainVars

(* Mutant: the receivers are left out.                                      *)
CommitDelta_SendersOnly(b, st) ==
  [a \in {b.txns[i].from : i \in 1 .. Len(b.txns)} |-> st[a]]

(* The accounts a block touches, as they were before it.                    *)
CommitDelta(b, st) ==
  [a \in {b.txns[i].from : i \in 1 .. Len(b.txns)}
         \cup {b.txns[i].to : i \in 1 .. Len(b.txns)} |-> st[a]]

(* Mutant: the block is committed before its last transaction is applied.   *)
ConnectReturn_Early ==
  /\ calling
  /\ state' = work
  /\ blocks' = Append(blocks, cb)
  /\ cumWork' = cumWork + BlockWork(Difficulty)
  /\ undoLog' = Append(undoLog, CommitDelta(cb, state))
  /\ calling' = FALSE
  /\ cb' = GenesisBlock
  /\ ti' = 0
  /\ coinbase_count' = 0
  /\ ret' = "OK"
  /\ UNCHANGED work

(* All transactions passed: the coinbase count, then the commit.            *)
ConnectReturn ==
  /\ calling
  /\ ti = Len(cb.txns)
  /\ LET r == CoinbaseCountReason(coinbase_count, Reward) IN
     \/ r # "OK" /\ Refuse(r)
     \/ /\ r = "OK"
        /\ state' = work
        /\ blocks' = Append(blocks, cb)
        /\ cumWork' = cumWork + BlockWork(Difficulty)
        /\ undoLog' = Append(undoLog, CommitDelta(cb, state))
        /\ calling' = FALSE
        /\ cb' = GenesisBlock
        /\ ti' = 0
        /\ coinbase_count' = 0
        /\ ret' = "OK"
        /\ UNCHANGED work

ConnectStep == ConnectTxn \/ ConnectReturn
=============================================================================
