------------------------------- MODULE TxNode -------------------------------
(***************************************************************************)
(* The txnode process (apps/txnode/main.cpp, node.cpp, pow/): boot from    *)
(* chain.jsonl, the event loop that makes blocks, and the RPC thread that  *)
(* admits transactions.  One mutex, node_mtx, serialises the two threads;  *)
(* an RPC request is one step taken while the loop does not hold it.       *)
(*                                                                         *)
(* Difficulty = 0 is the cadence mode: drain the mempool under the lock    *)
(* and seal.  Difficulty > 0 is the PoW mode: build a candidate under the  *)
(* lock, grind without it, take it again and commit.  A crash may come     *)
(* between any two steps and loses everything but the file.                *)
(***************************************************************************)
EXTENDS Chain, Mempool, ChainStore, Replay

CONSTANTS
  Txns,           \* the transactions clients submit
  Miner,          \* the address of the node's wallet
  AppendFaults,   \* what a failing append of a connected block may leave of it
  GenesisFaults,  \* ... and of genesis in Node::boot
  CrashExtents,   \* what a crash inside appendBlock may leave of it
  MaxIdleHeight,  \* bound: above it no block is begun on an empty mempool
  MaxClockLead,   \* bound: how far the clock runs ahead of the file
  MaxNonceWraps   \* bound on how often the miner exhausts the nonce space

ASSUME TxNodeAssumption ==
  /\ Txns \subseteq Txn
  /\ Miner \in Addr
  /\ AppendFaults \subseteq Extent
  /\ GenesisFaults \subseteq Extent
  /\ CrashExtents \subseteq Extent
  /\ MaxIdleHeight \in Nat
  /\ MaxClockLead \in Nat
  /\ MaxNonceWraps \in Nat

VARIABLES
  pc,        \* where the main thread is
  draft,     \* the txns collected for the next block
  cursor,    \* the admission number the collecting loop has reached
  shadow,    \* buildCandidate's shadow accounts
  cand,      \* the candidate being ground, or mined
  stop,      \* g_stop
  elapsed    \* the cadence timer has run out since the last seal

loopVars == <<draft, cursor, shadow, cand>>
vars == <<chainVars, callVars, now, mempoolVars, file, pc, loopVars, stop, elapsed>>

(* Where the loop holds node_mtx, and where the process serves RPC.         *)
Locked == {"drain", "select", "connect", "append", "evict"}
Unlocked == {"check", "sleep", "grind", "mined", "stopping"}
Up == Locked \cup Unlocked
Running == Up \cup {"genesis", "boot"}

TypeOK ==
  /\ ChainTypeOK
  /\ MempoolTypeOK
  /\ file \in Seq(Line)
  /\ pc \in Running \cup {"down", "refused"}
  /\ draft \in Seq(Txn)
  /\ cursor \in Nat
  /\ shadow \in Accounts
  /\ cand \in Block
  /\ stop \in BOOLEAN
  /\ elapsed \in BOOLEAN

-----------------------------------------------------------------------------
(* The memory of a process that has just started.                           *)
FreshLoop ==
  /\ draft' = <<>>
  /\ cursor' = 0
  /\ shadow' = ApplyGenesis
  /\ cand' = GenesisBlock

FreshMemory ==
  /\ blocks' = <<GenesisBlock>> /\ state' = ApplyGenesis /\ cumWork' = 0 /\ undoLog' = <<>>
  /\ calling' = FALSE /\ cb' = GenesisBlock /\ work' = ApplyGenesis /\ ti' = 0
  /\ coinbase_count' = 0 /\ ret' = "none"
  /\ byTxid' = <<>> /\ bySender' = <<>> /\ bySeq' = <<>> /\ next_seq' = 0
  /\ FreshLoop
  /\ stop' = FALSE
  /\ elapsed' = FALSE

Init ==
  /\ ChainNew
  /\ NotCalling
  /\ MempoolNew
  /\ now = 0
  /\ file = <<>>
  /\ pc = "down"
  /\ draft = <<>> /\ cursor = 0 /\ shadow = ApplyGenesis /\ cand = GenesisBlock
  /\ stop = FALSE
  /\ elapsed = FALSE

-----------------------------------------------------------------------------
(* Boot.                                                                    *)

(* Node::boot up to the replay: an empty file gets genesis, a chain that    *)
(* loads, starts at our genesis and replays is reconnected, any other       *)
(* refuses to start.                                                        *)
Boot ==
  /\ pc \in {"down", "refused"}
  /\ pc' = IF file = <<>> THEN "genesis"
           ELSE IF /\ LoadOK
                   /\ Loaded[1] = GenesisBlock
                   /\ ReplayReason(Loaded, now, Difficulty, Reward) = "OK"
                THEN "boot" ELSE "refused"
  /\ FreshMemory
  /\ UNCHANGED <<now, file>>

(* The reconnect loop: the loaded blocks go through connectBlock.           *)
BootConnect ==
  /\ pc = "boot"
  /\ \/ /\ Len(blocks) < Len(file)
        /\ ConnectCall(Loaded[Len(blocks) + 1])
     \/ ConnectStep
  /\ pc' = IF ret' \in {"none", "OK"} THEN "boot" ELSE "refused"
  /\ UNCHANGED <<now, mempoolVars, file, loopVars, stop, elapsed>>

BootDone ==
  /\ pc = "boot"
  /\ ~calling
  /\ Len(blocks) = Len(file)
  /\ pc' = "check"
  /\ UNCHANGED <<chainVars, callVars, now, mempoolVars, file, loopVars, stop, elapsed>>

-----------------------------------------------------------------------------
(* The event loop.                                                          *)

(* Where the loop goes after a block, committed or refused.                 *)
LoopEnd == IF Difficulty = 0 THEN "sleep" ELSE "check"

(* Mutant: the timer is not looked at.                                      *)
ShouldSealNow_CapOnly(mempool_size) == mempool_size >= MAX_TXNS_PER_BLOCK

(* should_seal_now: an early flush at MAX_TXNS, or the timer.               *)
ShouldSealNow(mempool_size) == mempool_size >= MAX_TXNS_PER_BLOCK \/ elapsed

(* Blocks on an empty mempool come without end; MaxIdleHeight bounds them.  *)
MayBegin == Height < MaxIdleHeight \/ Pending # {}

(* The top of the loop.  The cadence mode passes a mempool size of 0.       *)
BeginSeal ==
  /\ pc = "check" /\ ~stop /\ Difficulty = 0 /\ ShouldSealNow(0) /\ MayBegin
  /\ pc' = "drain"
  /\ UNCHANGED <<chainVars, callVars, now, mempoolVars, file, loopVars, stop, elapsed>>

IdlePass ==
  /\ pc = "check" /\ ~stop /\ Difficulty = 0 /\ ~ShouldSealNow(0)
  /\ pc' = "sleep"
  /\ UNCHANGED <<chainVars, callVars, now, mempoolVars, file, loopVars, stop, elapsed>>

Wake ==
  /\ pc = "sleep"
  /\ pc' = "check"
  /\ UNCHANGED <<chainVars, callVars, now, mempoolVars, file, loopVars, stop, elapsed>>

(* Cadence: one turn of the drain loop takes the oldest transaction not yet *)
(* taken.                                                                   *)
DrainTxn ==
  /\ pc = "drain"
  /\ Len(draft) < MAX_TXNS_PER_BLOCK
  /\ \E n \in SeqsFrom(cursor) :
       /\ \A m \in SeqsFrom(cursor) : n <= m
       /\ draft' = Append(draft, bySeq[n])
       /\ cursor' = n + 1
  /\ UNCHANGED <<chainVars, callVars, now, mempoolVars, file, pc, shadow, cand, stop, elapsed>>

NothingMore == SeqsFrom(cursor) = {} \/ Len(draft) >= MAX_TXNS_PER_BLOCK

(* A block on the tip, stamped by the clock but always after the tip.       *)
NextBlock(txns, nonce) ==
  [header |-> [index |-> Height + 1,
               timestamp |-> IF now > Tip.timestamp THEN now ELSE Tip.timestamp + 1,
               prevHash |-> TipHash, txnsHash |-> txns, nonce |-> nonce],
   txns |-> txns]

(* seal_next_block: connect the drained batch.  A refusal ends the turn.    *)
SealNextBlock ==
  /\ pc = "drain" /\ NothingMore
  /\ ConnectCall(NextBlock(draft, "zero"))
  /\ IF ret' = "none"
     THEN pc' = "connect" /\ UNCHANGED <<loopVars, elapsed>>
     ELSE pc' = LoopEnd /\ FreshLoop /\ elapsed' = FALSE
  /\ UNCHANGED <<now, mempoolVars, file, stop>>

(* PoW: buildCandidate starts from the coinbase, already credited.          *)
BeginCandidate ==
  /\ pc = "check" /\ ~stop /\ Difficulty > 0 /\ MayBegin
  /\ pc' = "select"
  /\ draft' = <<CoinbaseTxn(Miner, Height + 1)>>
  /\ cursor' = 0
  /\ shadow' = Credit(state, Miner, COINBASE_REWARD)
  /\ UNCHANGED <<chainVars, callVars, now, mempoolVars, file, cand, stop, elapsed>>

(* The effect of a transfer on the shadow: three updates in place, so that  *)
(* a transfer to oneself nets to a nonce.                                   *)
ApplyShadow(sh, t) ==
  Credit([sh EXCEPT ![t.from] = [balance |-> @.balance - t.amount, nonce |-> @.nonce + 1]],
         t.to, t.amount)

Selectable(t) == t.nonce = shadow[t.from].nonce /\ t.amount <= shadow[t.from].balance

(* One turn of the greedy selection: take or skip the oldest one left.      *)
SelectTxn ==
  /\ pc = "select"
  /\ Len(draft) < MAX_TXNS_PER_BLOCK
  /\ \E n \in SeqsFrom(cursor) :
       /\ \A m \in SeqsFrom(cursor) : n <= m
       /\ IF Selectable(bySeq[n])
          THEN /\ draft' = Append(draft, bySeq[n])
               /\ shadow' = ApplyShadow(shadow, bySeq[n])
          ELSE UNCHANGED <<draft, shadow>>
       /\ cursor' = n + 1
  /\ UNCHANGED <<chainVars, callVars, now, mempoolVars, file, pc, cand, stop, elapsed>>

CandidateBuilt ==
  /\ pc = "select" /\ NothingMore
  /\ cand' = NextBlock(draft, "zero")
  /\ pc' = "grind"
  /\ draft' = <<>> /\ cursor' = 0 /\ shadow' = ApplyGenesis
  /\ UNCHANGED <<chainVars, callVars, now, mempoolVars, file, stop, elapsed>>

(* mine: a nonce is found, the timestamp having moved on by one second for  *)
(* every exhausted nonce space; or the stop flag is seen first.             *)
Mine ==
  /\ pc = "grind"
  /\ \E wraps \in 0 .. MaxNonceWraps :
       cand' = [cand EXCEPT !.header.nonce = "found", !.header.timestamp = @ + wraps]
  /\ pc' = "mined"
  /\ UNCHANGED <<chainVars, callVars, now, mempoolVars, file, draft, cursor, shadow, stop, elapsed>>

MinePreempted ==
  /\ pc = "grind" /\ stop
  /\ pc' = "check"
  /\ FreshLoop
  /\ UNCHANGED <<chainVars, callVars, now, mempoolVars, file, stop, elapsed>>

(* Mutant: the height is compared with the candidate's own.                 *)
TipUnmoved_OffByOne == Height = cand.header.index /\ TipHash = cand.header.prevHash

TipUnmoved == Height + 1 = cand.header.index /\ TipHash = cand.header.prevHash

(* The mined block is committed if it still extends the tip.                *)
CommitMined ==
  /\ pc = "mined"
  /\ IF TipUnmoved THEN ConnectCall(cand) ELSE UNCHANGED <<chainVars, callVars>>
  /\ IF TipUnmoved /\ ret' = "none"
     THEN pc' = "connect" /\ UNCHANGED loopVars
     ELSE pc' = LoopEnd /\ FreshLoop
  /\ UNCHANGED <<now, mempoolVars, file, stop, elapsed>>

(* Both modes, the lock held: the rest of connectBlock, ...                 *)
Connect ==
  /\ pc = "connect"
  /\ ConnectStep
  /\ IF ret' \in {"none", "OK"}
     THEN /\ pc' = IF ret' = "none" THEN "connect" ELSE "append"
          /\ UNCHANGED <<loopVars, elapsed>>
     ELSE pc' = LoopEnd /\ FreshLoop /\ elapsed' = FALSE
  /\ UNCHANGED <<now, mempoolVars, file, stop>>

(* ... appendBlock, whose result nobody looks at (of genesis too), ...      *)
AppendBlock ==
  /\ pc \in {"append", "genesis"}
  /\ \E extent \in {"all"} \cup (IF pc = "append" THEN AppendFaults ELSE GenesisFaults) :
       file' = Written(blocks[Len(blocks)], extent)
  /\ pc' = IF pc = "append" THEN "evict" ELSE "check"
  /\ UNCHANGED <<chainVars, callVars, now, mempoolVars, loopVars, stop, elapsed>>

(* ... and evictIncluded, of all but the coinbase.                          *)
Evict ==
  /\ pc = "evict"
  /\ EvictIncluded(IF Difficulty = 0 THEN draft ELSE Tail(cand.txns))
  /\ pc' = LoopEnd
  /\ FreshLoop
  /\ elapsed' = FALSE
  /\ UNCHANGED <<chainVars, callVars, now, file, stop>>

-----------------------------------------------------------------------------
(* The rest of the world.                                                   *)

(* POST /tx: the RPC thread takes node_mtx, admits, answers.                *)
SubmitTx ==
  /\ pc \in Unlocked
  /\ \E t \in Txns : Admit(t, state)
  /\ UNCHANGED <<chainVars, callVars, now, file, pc, loopVars, stop, elapsed>>

(* SIGINT or SIGTERM, noticed at the top of the loop, then the RPC thread   *)
(* is joined.                                                               *)
Signal ==
  /\ pc \in Up /\ ~stop
  /\ stop' = TRUE
  /\ UNCHANGED <<chainVars, callVars, now, mempoolVars, file, pc, loopVars, elapsed>>

LeaveLoop ==
  /\ pc = "check" /\ stop
  /\ pc' = "stopping"
  /\ UNCHANGED <<chainVars, callVars, now, mempoolVars, file, loopVars, stop, elapsed>>

Exit ==
  /\ pc = "stopping"
  /\ pc' = "down"
  /\ FreshMemory
  /\ UNCHANGED <<now, file>>

(* The process dies; in the middle of appendBlock it may leave a part.      *)
Crash ==
  /\ pc \in Running
  /\ pc' = "down"
  /\ FreshMemory
  /\ \E extent \in {"nothing"} \cup CrashExtents :
       file' = IF pc \in {"append", "genesis"} THEN Written(blocks[Len(blocks)], extent)
               ELSE file
  /\ UNCHANGED now

TimerElapses ==
  /\ pc \in Up /\ ~elapsed /\ Difficulty = 0
  /\ elapsed' = TRUE
  /\ UNCHANGED <<chainVars, callVars, now, mempoolVars, file, pc, loopVars, stop>>

(* The wall clock, never stepped back.  A bound relative to the last block  *)
(* on disk lets it always catch up with timestamps that run ahead of it.    *)
Tick ==
  /\ now < MaxClockLead + IF file = <<>> THEN 0 ELSE file[Len(file)].block.header.timestamp
  /\ now' = now + 1
  /\ UNCHANGED <<chainVars, callVars, mempoolVars, file, pc, loopVars, stop, elapsed>>

Loop ==
  \/ BeginSeal \/ IdlePass \/ Wake \/ DrainTxn \/ SealNextBlock
  \/ BeginCandidate \/ SelectTxn \/ CandidateBuilt \/ Mine \/ MinePreempted \/ CommitMined
  \/ Connect \/ AppendBlock \/ Evict \/ LeaveLoop \/ Exit

Next ==
  \/ Boot \/ BootConnect \/ BootDone
  \/ Loop
  \/ SubmitTx \/ Signal \/ Crash \/ TimerElapses \/ Tick

Spec == Init /\ [][Next]_vars

(* The main thread runs, the timer runs out and the clock moves.            *)
Fairness == WF_vars(Loop) /\ WF_vars(TimerElapses) /\ WF_vars(Tick)

FairSpec == Spec /\ Fairness

-----------------------------------------------------------------------------
(* The transactions of the block in hand that are already part of `work'.   *)
Included ==
  IF pc = "connect" THEN {cb.txns[i] : i \in 1 .. ti}
  ELSE IF pc \in {"append", "evict"}
       THEN {blocks[Len(blocks)].txns[i] : i \in 1 .. Len(blocks[Len(blocks)].txns)}
  ELSE {}

(* "A txn that admits will also connect" (mempool.hpp): whatever was mined  *)
(* since it was admitted, a pending transaction still passes the gate.      *)
(* Sealing re-checks nothing before connectBlock, so one pending txn that   *)
(* no longer passed would stop the chain.                                   *)
PendingConnectable ==
  \A t \in Pending \ Included : ApplyTxnReason(work, t, 0, 1) = "OK"

(* connectBlock never refuses, for its transactions, a block the node       *)
(* itself drained or selected from its mempool (main.cpp, event loop).      *)
OwnBlocksPassGate ==
  pc = "connect" =>
    IF ti < Len(cb.txns)
    THEN BlockTxnReason(work, cb.txns[ti + 1], cb.header.index, ti, coinbase_count) = "OK"
    ELSE CoinbaseCountReason(coinbase_count, Reward) = "OK"

(* What RPC can show is on disk: whenever node_mtx is free the file loads   *)
(* to exactly the chain in memory (node.hpp, "tip advanced + durable").     *)
VisibleIsDurable == pc \in Unlocked => LoadOK /\ Loaded = blocks

(* After any shutdown or crash the node comes up again from its own file    *)
(* (main.cpp, "a restart replay-validates and resumes").                    *)
RestartResumes == pc # "refused"

(* No transfer is part of the chain twice (chain.cpp, V7 nonce rule).       *)
NoDoubleInclusion ==
  \A i, j \in 1 .. Len(blocks) :
    \A k \in 1 .. Len(blocks[i].txns), l \in 1 .. Len(blocks[j].txns) :
      (blocks[i].txns[k] = blocks[j].txns[l] /\ blocks[i].txns[k].from # NullAddr)
        => (i = j /\ k = l)

(* Transactions leave the mempool of a running node in the order they were  *)
(* admitted (main.cpp, ascending admission order).                          *)
OldestFirst ==
  [][pc' \in Up => \A t \in Pending \ Pending' : \A u \in Pending \cap Pending' :
       byTxid[t] < byTxid[u]]_vars

(* An admitted transaction is mined, unless the process ends first.         *)
AdmittedIsMined ==
  \A t \in Txns :
    t \in Pending ~> \/ pc \notin Up
                    \/ \E i \in 1 .. Len(blocks) :
                         \E k \in 1 .. Len(blocks[i].txns) : blocks[i].txns[k] = t

(* The file implements the append-only ledger of DurableLedger.             *)
Durable == INSTANCE DurableLedger WITH ledger <- Loaded
DurableLedgerSpec == Durable!Spec
=============================================================================
