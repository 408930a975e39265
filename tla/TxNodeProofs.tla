---------------------------- MODULE TxNodeProofs ----------------------------
(***************************************************************************)
(* Proofs about the node, for every set of accounts and transactions and   *)
(* every bound: the types, the agreement of the mempool's indexes, and     *)
(* that what is pending connects: a transaction the mempool admitted       *)
(* passes the gate until it is mined, and connectBlock refuses no block of *)
(* the node's own for its transactions; then, that chain.jsonl holds what  *)
(* the node shows, through every crash and restart.                        *)
(***************************************************************************)
EXTENDS TxNode, LedgerProofs

-----------------------------------------------------------------------------
(* Types.                                                                   *)

(* connectBlock's call keeps the types of Chain.                            *)
LEMMA ConnectCallType ==
  ASSUME ChainTypeOK, NEW b \in Block, ConnectCall(b), now' = now
  PROVE  ChainTypeOK'
<1>. DEFINE r == HeaderReason(b, Height + 1, Tip, now, Difficulty)
<1>1. r \in Reason
  BY DEF HeaderReason, Reason
<1>. HIDE DEF r
<1>2. CASE Refuse(r)
  BY <1>1, <1>2, GenesisType DEF Refuse, ChainTypeOK, chainVars
<1>3. CASE ~Refuse(r)
  <2>1. /\ calling' = TRUE /\ cb' = b /\ work' = state /\ ti' = 0 /\ coinbase_count' = 0
        /\ ret' = "none" /\ blocks' = blocks /\ state' = state
    BY <1>3 DEF ConnectCall, chainVars, r
  <2>. QED  BY <2>1 DEF ChainTypeOK
<1>. QED  BY <1>2, <1>3

(* ... and so do its steps and its return.                                  *)
LEMMA ConnectStepType ==
  ASSUME ChainTypeOK, ConnectStep, now' = now
  PROVE  ChainTypeOK'
<1>1. ASSUME NEW r \in Reason, Refuse(r) PROVE ChainTypeOK'
  BY <1>1, GenesisType DEF Refuse, ChainTypeOK, chainVars
<1>2. CASE ConnectTxn
  <2>. DEFINE t == cb.txns[ti + 1]
              r == BlockTxnReason(work, t, cb.header.index, ti, coinbase_count)
  <2>1. t \in Txn
    BY <1>2 DEF ConnectTxn, ChainTypeOK, Block
  <2>2. r \in Reason
    BY DEF BlockTxnReason, ApplyTxnReason, CoinbaseShapeReason, Reason
  <2>3. CASE r = "OK"
    <3>1. ApplyTxn(work, t) \in Accounts
      BY <2>1, <2>3, ApplyTxnType DEF ChainTypeOK
    <3>. HIDE DEF t
    <3>. QED
      BY <1>2, <2>3, <3>1 DEF ConnectTxn, ChainTypeOK, chainVars, t
  <2>4. CASE r # "OK"
    BY <1>1, <1>2, <2>2, <2>4 DEF ConnectTxn
  <2>. QED  BY <2>3, <2>4
<1>3. CASE ConnectReturn
  <2>. DEFINE r == CoinbaseCountReason(coinbase_count, Reward)
  <2>1. r \in Reason
    BY DEF CoinbaseCountReason, Reason
  <2>2. CASE r = "OK"
    <3>1. /\ state' = work /\ blocks' = Append(blocks, cb) /\ calling' = FALSE
          /\ cb' = GenesisBlock /\ ti' = 0 /\ coinbase_count' = 0 /\ ret' = "OK"
          /\ work' = work
      BY <1>3, <2>2 DEF ConnectReturn
    <3>2. blocks' \in Seq(Block) /\ Len(blocks') >= 1
      BY <3>1 DEF ChainTypeOK
    <3>. QED  BY <3>1, <3>2, GenesisType DEF ChainTypeOK, Reason
  <2>3. CASE r # "OK"
    BY <1>1, <1>3, <2>1, <2>3 DEF ConnectReturn
  <2>. QED  BY <2>2, <2>3
<1>. QED  BY <1>2, <1>3 DEF ConnectStep

(* The mempool of a process that just started is empty.                     *)
LEMMA MempoolFresh ==
  ASSUME FreshMemory
  PROVE  MempoolTypeOK' /\ IndexesAgree' /\ Pending' = {}
BY DEF FreshMemory, MempoolTypeOK, IndexesAgree, Pending

(* Steps that leave Chain alone.                                            *)
LEMMA ChainFrame ==
  ASSUME ChainTypeOK, UNCHANGED <<chainVars, callVars>>, now' \in Nat
  PROVE  ChainTypeOK'
BY DEF ChainTypeOK, chainVars, callVars

(* A process that just started has well-typed memory.                       *)
LEMMA FreshType ==
  ASSUME FreshMemory, now' \in Nat
  PROVE  /\ ChainTypeOK' /\ MempoolTypeOK' /\ IndexesAgree'
         /\ draft' \in Seq(Txn) /\ cursor' \in Nat /\ shadow' \in Accounts
         /\ cand' \in Block /\ stop' \in BOOLEAN /\ elapsed' \in BOOLEAN
<1>1. MempoolTypeOK' /\ IndexesAgree'
  BY MempoolFresh
<1>2. ChainTypeOK'
  <2>1. /\ blocks' = <<GenesisBlock>> /\ state' = ApplyGenesis /\ calling' = FALSE
        /\ cb' = GenesisBlock /\ work' = ApplyGenesis /\ ti' = 0 /\ coinbase_count' = 0
        /\ ret' = "none"
    BY DEF FreshMemory
  <2>2. <<GenesisBlock>> \in Seq(Block) /\ Len(<<GenesisBlock>>) >= 1
    BY GenesisType
  <2>. QED  BY <2>1, <2>2, GenesisType DEF ChainTypeOK
<1>3. /\ draft' \in Seq(Txn) /\ cursor' \in Nat /\ shadow' \in Accounts
      /\ cand' \in Block
  BY GenesisType DEF FreshMemory, FreshLoop
<1>4. stop' \in BOOLEAN /\ elapsed' \in BOOLEAN
  BY DEF FreshMemory
<1>. QED  BY <1>1, <1>2, <1>3, <1>4

(* So has a loop that starts its next turn.                                 *)
LEMMA FreshLoopType ==
  ASSUME FreshLoop
  PROVE  /\ draft' \in Seq(Txn) /\ cursor' \in Nat /\ shadow' \in Accounts
         /\ cand' \in Block
BY GenesisType DEF FreshLoop

(* The file stays a sequence of lines whatever part of a line is written.   *)
LEMMA WrittenType ==
  ASSUME file \in Seq(Line), NEW b \in Block, NEW extent
  PROVE  Written(b, extent) \in Seq(Line)
<1>1. CASE extent = "nothing"
  BY <1>1 DEF Written
<1>2. CASE extent # "nothing" /\ file # <<>> /\ ~file[Len(file)].eol
  <2>1. Len(file) \in 1 .. Len(file) /\ file[Len(file)] \in Line
    BY <1>2
  <2>2. [file[Len(file)] EXCEPT !.eol = (extent = "all")] \in Line
    BY <2>1 DEF Line
  <2>. QED  BY <1>2, <2>1, <2>2 DEF Written
<1>3. CASE extent # "nothing" /\ ~(file # <<>> /\ ~file[Len(file)].eol)
  <2>1. [ok |-> extent # "torn", block |-> b, eol |-> (extent = "all")] \in Line
    BY DEF Line
  <2>. QED  BY <1>3, <2>1 DEF Written
<1>. QED  BY <1>1, <1>2, <1>3

(* A block built on the tip is a block.                                     *)
LEMMA NextBlockType ==
  ASSUME ChainTypeOK, NEW txns \in Seq(Txn), NEW nonce \in PowNonce
  PROVE  NextBlock(txns, nonce) \in Block /\ Tip \in BlockHeader
<1>1. Tip \in BlockHeader
  <2>1. blocks[Len(blocks)] \in Block
    BY DEF ChainTypeOK
  <2>. QED  BY <2>1 DEF Tip, Block
<1>2. TipHash \in Hash256
  <2>1. [index |-> Tip.index, timestamp |-> Tip.timestamp,
         txnsHash |-> Tip.txnsHash, nonce |-> Tip.nonce] \in HeaderCore
    BY <1>1 DEF BlockHeader, HeaderCore
  <2>2. Tip.prevHash \in Seq(HeaderCore)
    BY <1>1 DEF BlockHeader, Hash256
  <2>. QED  BY <2>1, <2>2 DEF TipHash, HeaderHash, Hash256
<1>3. Height + 1 \in Nat
  BY DEF ChainTypeOK, Height
<1>4. (IF now > Tip.timestamp THEN now ELSE Tip.timestamp + 1) \in Nat
  BY <1>1 DEF ChainTypeOK, BlockHeader
<1>. HIDE DEF Tip, TipHash, Height
<1>5. NextBlock(txns, nonce).header \in BlockHeader
  BY <1>2, <1>3, <1>4 DEF NextBlock, BlockHeader
<1>. QED  BY <1>1, <1>5 DEF NextBlock, Block

(* The shadow buildCandidate keeps has natural balances.                    *)
LEMMA ApplyShadowType ==
  ASSUME NEW sh \in Accounts, NEW t \in Txn, t.amount <= sh[t.from].balance
  PROVE  ApplyShadow(sh, t) \in Accounts
<1>1. /\ sh[t.from].balance \in Nat /\ sh[t.from].nonce \in Nat
      /\ t.amount \in Nat /\ t.from \in Acct /\ t.to \in Acct
  BY DEF Txn, Accounts, AccountState
<1>2. [balance |-> sh[t.from].balance - t.amount, nonce |-> sh[t.from].nonce + 1]
        \in AccountState
  BY <1>1 DEF AccountState
<1>3. [sh EXCEPT ![t.from] = [balance |-> @.balance - t.amount, nonce |-> @.nonce + 1]]
        \in Accounts
  BY <1>1, <1>2 DEF Accounts
<1>. QED  BY <1>1, <1>3, CreditType DEF ApplyShadow

(* Every step keeps the types and the indexes.  The indexes are needed for  *)
(* nothing but themselves here, and the types for the debits: a balance     *)
(* stays natural because the gate, or Selectable, covers it.                *)
LEMMA TypeStep ==
  ASSUME TypeOK, IndexesAgree, [Next]_vars
  PROVE  TypeOK' /\ IndexesAgree'
<1>. USE DEF TypeOK
<1>0. now \in Nat /\ ChainTypeOK
  BY DEF ChainTypeOK
<1>1. pc' \in Running \cup {"down", "refused"}
  BY DEF Next, Boot, BootConnect, BootDone, Loop, SubmitTx, Signal, Crash, TimerElapses, Tick,
         BeginSeal, IdlePass, Wake, DrainTxn, SealNextBlock, BeginCandidate, SelectTxn,
         CandidateBuilt, Mine, MinePreempted, CommitMined, Connect, AppendBlock, Evict,
         LeaveLoop, Exit, LoopEnd, Running, Up, Locked, Unlocked, vars
<1>. USE DEF Running
<1>2. CASE UNCHANGED vars
  BY <1>0, <1>1, <1>2, ChainFrame, MempoolFrame DEF vars, loopVars
<1>3. CASE Boot \/ Exit
  BY <1>0, <1>1, <1>3, FreshType DEF Boot, Exit
<1>4. CASE Crash
  <2>1. blocks[Len(blocks)] \in Block
    BY <1>0 DEF ChainTypeOK
  <2>2. file' \in Seq(Line)
    BY <1>4, <2>1, WrittenType DEF Crash
  <2>3. FreshMemory /\ now' = now
    BY <1>4 DEF Crash
  <2>. QED  BY <1>0, <1>1, <2>2, <2>3, FreshType
<1>5. CASE BootConnect
  <2>1. UNCHANGED <<now, mempoolVars, file, loopVars, stop, elapsed>>
    BY <1>5 DEF BootConnect
  <2>2. CASE ConnectStep
    BY <1>0, <1>1, <2>1, <2>2, ConnectStepType, MempoolFrame DEF loopVars
  <2>3. CASE Len(blocks) < Len(file) /\ ConnectCall(Loaded[Len(blocks) + 1])
    <3>1. Len(blocks) + 1 \in 1 .. Len(file)
      BY <1>0, <2>3 DEF ChainTypeOK
    <3>2. Loaded[Len(blocks) + 1] \in Block
      <4>1. file[Len(blocks) + 1] \in Line
        BY <3>1
      <4>2. Loaded[Len(blocks) + 1] = file[Len(blocks) + 1].block
        BY <3>1 DEF Loaded
      <4>. QED  BY <4>1, <4>2 DEF Line
    <3>. QED  BY <1>0, <1>1, <2>1, <2>3, <3>2, ConnectCallType, MempoolFrame DEF loopVars
  <2>. QED  BY <1>5, <2>2, <2>3 DEF BootConnect
<1>6. CASE BootDone \/ BeginSeal \/ IdlePass \/ Wake \/ LeaveLoop
  <2>1. UNCHANGED <<chainVars, callVars, now, mempoolVars, file, loopVars, stop, elapsed>>
    BY <1>6 DEF BootDone, BeginSeal, IdlePass, Wake, LeaveLoop
  <2>. QED  BY <1>0, <1>1, <2>1, ChainFrame, MempoolFrame DEF loopVars
<1>7. CASE DrainTxn
  <2>1. PICK n \in SeqsFrom(cursor) : draft' = Append(draft, bySeq[n]) /\ cursor' = n + 1
    BY <1>7 DEF DrainTxn
  <2>2. bySeq[n] \in Txn /\ n \in Nat
    BY DEF SeqsFrom, MempoolTypeOK
  <2>3. draft' \in Seq(Txn) /\ cursor' \in Nat
    BY <2>1, <2>2
  <2>4. UNCHANGED <<chainVars, callVars, now, mempoolVars, file, shadow, cand, stop, elapsed>>
    BY <1>7 DEF DrainTxn
  <2>. QED  BY <1>0, <1>1, <2>3, <2>4, ChainFrame, MempoolFrame
<1>8. CASE SealNextBlock
  <2>1. NextBlock(draft, "zero") \in Block
    BY <1>0, NextBlockType DEF PowNonce
  <2>2. ChainTypeOK'
    BY <1>0, <1>8, <2>1, ConnectCallType DEF SealNextBlock
  <2>3. UNCHANGED mempoolVars /\ file' = file /\ stop' = stop
        /\ ((UNCHANGED loopVars /\ elapsed' = elapsed) \/ (FreshLoop /\ elapsed' = FALSE))
    BY <1>8 DEF SealNextBlock
  <2>. QED  BY <1>1, <2>2, <2>3, FreshLoopType, MempoolFrame DEF loopVars
<1>9. CASE BeginCandidate
  <2>1. COINBASE_REWARD \in Nat /\ Miner \in Acct /\ Height + 1 \in Nat
    BY <1>0, LedgerAssumption, TxNodeAssumption DEF Acct, Height, ChainTypeOK
  <2>2. CoinbaseTxn(Miner, Height + 1) \in Txn
    BY <2>1 DEF CoinbaseTxn, Txn, Acct, Auth
  <2>3. draft' \in Seq(Txn) /\ cursor' \in Nat
    BY <1>9, <2>2 DEF BeginCandidate
  <2>4. shadow' \in Accounts
    BY <1>0, <1>9, <2>1, CreditType DEF BeginCandidate, ChainTypeOK
  <2>5. UNCHANGED <<chainVars, callVars, now, mempoolVars, file, cand, stop, elapsed>>
    BY <1>9 DEF BeginCandidate
  <2>. QED  BY <1>0, <1>1, <2>3, <2>4, <2>5, ChainFrame, MempoolFrame
<1>10. CASE SelectTxn
  <2>1. PICK n \in SeqsFrom(cursor) :
          /\ \/ /\ Selectable(bySeq[n])
                /\ draft' = Append(draft, bySeq[n])
                /\ shadow' = ApplyShadow(shadow, bySeq[n])
             \/ draft' = draft /\ shadow' = shadow
          /\ cursor' = n + 1
    BY <1>10 DEF SelectTxn
  <2>2. bySeq[n] \in Txn /\ n \in Nat
    BY DEF SeqsFrom, MempoolTypeOK
  <2>3. draft' \in Seq(Txn) /\ cursor' \in Nat /\ shadow' \in Accounts
    <3>1. Selectable(bySeq[n]) => ApplyShadow(shadow, bySeq[n]) \in Accounts
      BY <2>2, ApplyShadowType DEF Selectable
    <3>2. Append(draft, bySeq[n]) \in Seq(Txn)
      BY <2>2
    <3>. QED  BY <2>1, <2>2, <3>1, <3>2
  <2>4. UNCHANGED <<chainVars, callVars, now, mempoolVars, file, cand, stop, elapsed>>
    BY <1>10 DEF SelectTxn
  <2>. QED  BY <1>0, <1>1, <2>3, <2>4, ChainFrame, MempoolFrame
<1>11. CASE CandidateBuilt
  <2>1. cand' \in Block
    BY <1>0, <1>11, NextBlockType DEF CandidateBuilt, PowNonce
  <2>2. draft' \in Seq(Txn) /\ cursor' \in Nat /\ shadow' \in Accounts
    BY <1>11, GenesisType DEF CandidateBuilt
  <2>3. UNCHANGED <<chainVars, callVars, now, mempoolVars, file, stop, elapsed>>
    BY <1>11 DEF CandidateBuilt
  <2>. QED  BY <1>0, <1>1, <2>1, <2>2, <2>3, ChainFrame, MempoolFrame
<1>12. CASE Mine
  <2>1. PICK wraps \in 0 .. MaxNonceWraps :
          cand' = [cand EXCEPT !.header.nonce = "found", !.header.timestamp = @ + wraps]
    BY <1>12 DEF Mine
  <2>2. wraps \in Nat
    BY TxNodeAssumption
  <2>3. [cand.header EXCEPT !.nonce = "found", !.timestamp = @ + wraps] \in BlockHeader
    <3>1. cand.header \in BlockHeader
      BY DEF Block
    <3>2. cand.header.timestamp + wraps \in Nat /\ "found" \in PowNonce
      BY <2>2, <3>1 DEF BlockHeader, PowNonce
    <3>. QED  BY <3>1, <3>2 DEF BlockHeader
  <2>4. cand' = [cand EXCEPT !.header = [cand.header EXCEPT !.nonce = "found",
                                                           !.timestamp = @ + wraps]]
    BY <2>1 DEF Block, BlockHeader
  <2>5. cand' \in Block
    BY <2>3, <2>4 DEF Block
  <2>6. UNCHANGED <<chainVars, callVars, now, mempoolVars, file, draft, cursor, shadow,
                    stop, elapsed>>
    BY <1>12 DEF Mine
  <2>. QED  BY <1>0, <1>1, <2>5, <2>6, ChainFrame, MempoolFrame
<1>13. CASE MinePreempted
  BY <1>0, <1>1, <1>13, ChainFrame, MempoolFrame, FreshLoopType DEF MinePreempted
<1>14. CASE CommitMined
  <2>1. ChainTypeOK'
    BY <1>0, <1>14, ConnectCallType, ChainFrame DEF CommitMined
  <2>2. UNCHANGED <<mempoolVars, file, stop, elapsed>> /\ (UNCHANGED loopVars \/ FreshLoop)
    BY <1>14 DEF CommitMined
  <2>. QED  BY <1>1, <2>1, <2>2, FreshLoopType, MempoolFrame DEF loopVars
<1>15. CASE Connect
  <2>1. ChainTypeOK'
    BY <1>0, <1>15, ConnectStepType DEF Connect
  <2>2. UNCHANGED mempoolVars /\ file' = file /\ stop' = stop
        /\ ((UNCHANGED loopVars /\ elapsed' = elapsed) \/ (FreshLoop /\ elapsed' = FALSE))
    BY <1>15 DEF Connect
  <2>. QED  BY <1>1, <2>1, <2>2, FreshLoopType, MempoolFrame DEF loopVars
<1>16. CASE AppendBlock
  <2>1. blocks[Len(blocks)] \in Block
    BY <1>0 DEF ChainTypeOK
  <2>2. file' \in Seq(Line)
    BY <1>16, <2>1, WrittenType DEF AppendBlock
  <2>3. UNCHANGED <<chainVars, callVars, now, mempoolVars, loopVars, stop, elapsed>>
    BY <1>16 DEF AppendBlock
  <2>. QED  BY <1>0, <1>1, <2>2, <2>3, ChainFrame, MempoolFrame DEF loopVars
<1>17. CASE Evict
  <2>1. MempoolTypeOK' /\ IndexesAgree'
    BY <1>17, EvictIndexes DEF Evict
  <2>2. UNCHANGED <<chainVars, callVars, now, file, stop>> /\ FreshLoop /\ elapsed' = FALSE
    BY <1>17 DEF Evict
  <2>. QED  BY <1>0, <1>1, <2>1, <2>2, ChainFrame, FreshLoopType
<1>18. CASE SubmitTx
  <2>1. MempoolTypeOK' /\ IndexesAgree'
    BY <1>18, TxNodeAssumption, AdmitIndexes DEF SubmitTx
  <2>2. UNCHANGED <<chainVars, callVars, now, file, loopVars, stop, elapsed>>
    BY <1>18 DEF SubmitTx
  <2>. QED  BY <1>0, <1>1, <2>1, <2>2, ChainFrame DEF loopVars
<1>19. CASE Signal \/ TimerElapses
  <2>1. UNCHANGED <<chainVars, callVars, now, mempoolVars, file, loopVars>>
        /\ stop' \in BOOLEAN /\ elapsed' \in BOOLEAN
    BY <1>19 DEF Signal, TimerElapses
  <2>. QED  BY <1>0, <1>1, <2>1, ChainFrame, MempoolFrame DEF loopVars
<1>20. CASE Tick
  <2>1. now' \in Nat
    BY <1>0, <1>20 DEF Tick
  <2>2. UNCHANGED <<chainVars, callVars, mempoolVars, file, loopVars, stop, elapsed>>
    BY <1>20 DEF Tick
  <2>. QED  BY <1>0, <1>1, <2>1, <2>2, ChainFrame, MempoolFrame DEF loopVars
<1>. QED
  BY <1>2, <1>3, <1>4, <1>5, <1>6, <1>7, <1>8, <1>9, <1>10, <1>11, <1>12, <1>13, <1>14,
     <1>15, <1>16, <1>17, <1>18, <1>19, <1>20 DEF Next, Loop

(* The initial state is well typed.                                         *)
LEMMA InitType == Init => TypeOK /\ IndexesAgree
<1>. SUFFICES ASSUME Init PROVE TypeOK /\ IndexesAgree
  OBVIOUS
<1>1. MempoolTypeOK /\ IndexesAgree
  BY MempoolEmpty DEF Init
<1>2. ChainTypeOK
  <2>1. <<GenesisBlock>> \in Seq(Block) /\ Len(<<GenesisBlock>>) >= 1
    BY GenesisType
  <2>. QED  BY <2>1, GenesisType DEF Init, ChainNew, NotCalling, ChainTypeOK
<1>3. /\ file = <<>> /\ pc = "down" /\ draft = <<>> /\ cursor = 0
      /\ shadow = ApplyGenesis /\ cand = GenesisBlock
      /\ stop = FALSE /\ elapsed = FALSE
  BY DEF Init
<1>4. file \in Seq(Line) /\ draft \in Seq(Txn)
  BY <1>3
<1>5. cursor \in Nat /\ shadow \in Accounts /\ cand \in Block
  BY <1>3, GenesisType
<1>6. stop \in BOOLEAN /\ elapsed \in BOOLEAN
  BY <1>3
<1>7. pc \in Running \cup {"down", "refused"}
  BY <1>3
<1>. QED  BY <1>1, <1>2, <1>4, <1>5, <1>6, <1>7 DEF TypeOK

(* Every variable has its type in every reachable state of the node, for    *)
(* any accounts, transactions, difficulty and faults; above all balances    *)
(* and the shadow's balances never go negative (gate.cpp, candidate.cpp).   *)
THEOREM TypeCorrect == Spec => []TypeOK
<1>1. Init => TypeOK /\ IndexesAgree
  BY InitType
<1>2. TypeOK /\ IndexesAgree /\ [Next]_vars => (TypeOK /\ IndexesAgree)'
  BY TypeStep
<1>. QED  BY <1>1, <1>2, PTL DEF Spec

(* The three indexes of the mempool describe one set of transactions in     *)
(* every reachable state (mempool.cpp).                                     *)
THEOREM IndexesCorrect == Spec => []IndexesAgree
<1>1. Init => TypeOK /\ IndexesAgree
  BY InitType
<1>2. TypeOK /\ IndexesAgree /\ [Next]_vars => (TypeOK /\ IndexesAgree)'
  BY TypeStep
<1>. QED  BY <1>1, <1>2, PTL DEF Spec

-----------------------------------------------------------------------------
(* The coinbase belongs in front of a block exactly in PoW mode; the rest   *)
(* of a batch is pending and nothing is in it twice.                        *)
IsBatch(s, index) ==
  /\ Difficulty > 0 => Len(s) >= 1
  /\ \A i \in 1 .. Len(s) : IF Difficulty > 0 /\ i = 1
                           THEN s[i] = CoinbaseTxn(Miner, index)
                           ELSE s[i] \in Pending
  /\ \A i, j \in 1 .. Len(s) : s[i] = s[j] => i = j

(* The batch the loop has in hand while it connects and after.              *)
InHand == IF Difficulty = 0 THEN draft ELSE cand.txns

(* What it then hands to evictIncluded: the batch without its coinbase.     *)
Leaving == IF Difficulty = 0 THEN draft ELSE Tail(cand.txns)

(* What the loop keeps between its steps, so that the block it offers is a  *)
(* batch when it is offered and still one when it is evicted.               *)
LoopInv ==
  /\ pc = "drain" => Difficulty = 0
  /\ pc \in {"select", "grind", "mined"} => Difficulty > 0
  /\ pc \in {"drain", "select"} =>
       /\ IsBatch(draft, Height + 1)
       /\ \A i \in 1 .. Len(draft) : draft[i] \in Pending => byTxid[draft[i]] < cursor
  /\ pc \in {"grind", "mined"} => IsBatch(cand.txns, cand.header.index)
  /\ pc = "connect" =>
       /\ IsBatch(cb.txns, cb.header.index)
       /\ cb.txns = InHand
       /\ ti <= Len(cb.txns)
       /\ coinbase_count = IF Difficulty > 0 /\ ti > 0 THEN 1 ELSE 0
  /\ pc \in {"append", "evict"} =>
       IsBatch(InHand, blocks[Len(blocks)].header.index) /\ blocks[Len(blocks)].txns = InHand
  /\ pc \notin Locked => draft = <<>>

(* connectBlock runs only where the loop, or boot, called it; its scratch   *)
(* copy equals the state outside a call.                                    *)
CallInv ==
  /\ pc = "connect" => calling
  /\ pc \notin {"connect", "boot"} => ~calling
  /\ ~calling => work = state
  /\ calling => ret = "none"

(* Only user transactions are pending, and only in a process that is up.    *)
PendingInv ==
  /\ \A t \in Pending : t.from # NullAddr
  /\ pc \notin Up => Pending = {}

(* The inductive invariant: the types, the indexes, and that what is        *)
(* pending and not yet in the block in hand still passes the gate.          *)
IInv ==
  /\ TypeOK /\ IndexesAgree
  /\ LoopInv /\ CallInv /\ PendingInv
  /\ PendingConnectable

-----------------------------------------------------------------------------
(* The steps of the loop.                                                   *)

(* What is still to be shown of a step that keeps the types.                *)
Rest == LoopInv /\ CallInv /\ PendingInv /\ PendingConnectable

(* A batch stays a batch while nothing leaves the mempool.                  *)
LEMMA BatchKept ==
  ASSUME NEW s, NEW i, IsBatch(s, i), Pending \subseteq Pending'
  PROVE  IsBatch(s, i)'
BY DEF IsBatch, CoinbaseTxn

(* The block in hand passes the gate: its next transaction is the coinbase, *)
(* due exactly now, or is pending and not included yet.                     *)
LEMMA InHandPasses ==
  ASSUME IInv
  PROVE  OwnBlocksPassGate
<1>. SUFFICES ASSUME pc = "connect"
              PROVE  IF ti < Len(cb.txns)
                     THEN BlockTxnReason(work, cb.txns[ti + 1], cb.header.index, ti,
                                         coinbase_count) = "OK"
                     ELSE CoinbaseCountReason(coinbase_count, Reward) = "OK"
  BY DEF OwnBlocksPassGate
<1>1. /\ IsBatch(cb.txns, cb.header.index)
      /\ ti <= Len(cb.txns)
      /\ coinbase_count = IF Difficulty > 0 /\ ti > 0 THEN 1 ELSE 0
  BY DEF IInv, LoopInv
<1>2. ti \in Nat /\ Len(cb.txns) \in Nat /\ Difficulty \in Nat
  BY DifficultyAssumption DEF IInv, TypeOK, ChainTypeOK, Block
<1>3. CASE ti < Len(cb.txns) /\ Difficulty > 0 /\ ti = 0
  <2>1. cb.txns[ti + 1] = CoinbaseTxn(Miner, cb.header.index) /\ coinbase_count = 0
    BY <1>1, <1>2, <1>3 DEF IsBatch
  <2>. QED  BY <1>3, <2>1 DEF BlockTxnReason, CoinbaseTxn, CoinbaseShapeReason
<1>4. CASE ti < Len(cb.txns) /\ ~(Difficulty > 0 /\ ti = 0)
  <2>. DEFINE t == cb.txns[ti + 1]
  <2>1. t \in Pending
    BY <1>1, <1>2, <1>4 DEF IsBatch
  <2>2. t \notin {cb.txns[i] : i \in 1 .. ti}
    BY <1>1, <1>2, <1>4 DEF IsBatch
  <2>3. ApplyTxnReason(work, t, 0, 1) = "OK"
    BY <2>1, <2>2 DEF IInv, PendingConnectable, Included
  <2>. QED  BY <1>4, <2>3, GateSame
<1>5. CASE ~(ti < Len(cb.txns))
  BY <1>1, <1>2, <1>5, LedgerAssumption DEF IsBatch, CoinbaseCountReason, Reward
<1>. QED  BY <1>3, <1>4, <1>5

(* So connectBlock's steps on the node's own block always go on, and what   *)
(* is pending and not included stays connectable.                           *)
LEMMA ConnectRest ==
  ASSUME IInv, Connect, TypeOK'
  PROVE  Rest'
<1>. DEFINE t == cb.txns[ti + 1]
<1>1. /\ pc = "connect" /\ calling /\ ConnectStep /\ ret = "none"
      /\ UNCHANGED <<now, mempoolVars, file, stop>>
  BY DEF Connect, IInv, CallInv
<1>2. /\ IsBatch(cb.txns, cb.header.index)
      /\ cb.txns = InHand
      /\ ti <= Len(cb.txns)
      /\ coinbase_count = IF Difficulty > 0 /\ ti > 0 THEN 1 ELSE 0
  BY <1>1 DEF IInv, LoopInv
<1>3. ti \in Nat /\ Len(cb.txns) \in Nat /\ cb.txns \in Seq(Txn) /\ work \in Accounts
      /\ Difficulty \in Nat
  <2>1. cb \in Block /\ ti \in Nat /\ work \in Accounts
    BY DEF IInv, TypeOK, ChainTypeOK
  <2>2. cb.txns \in Seq(Txn)
    BY <2>1 DEF Block
  <2>. QED  BY <2>1, <2>2, DifficultyAssumption
<1>4. OwnBlocksPassGate
  BY InHandPasses
<1>5. byTxid' = byTxid /\ bySender' = bySender /\ Pending' = Pending
  BY <1>1 DEF mempoolVars, Pending
<1>6. CASE ConnectTxn
  <2>1. ti < Len(cb.txns)
        /\ BlockTxnReason(work, t, cb.header.index, ti, coinbase_count) = "OK"
    BY <1>1, <1>4, <1>6 DEF ConnectTxn, OwnBlocksPassGate
  <2>2. /\ work' = ApplyTxn(work, t) /\ ti' = ti + 1
        /\ coinbase_count' = coinbase_count + IF t.from = NullAddr THEN 1 ELSE 0
        /\ calling' = calling /\ cb' = cb /\ ret' = ret /\ UNCHANGED chainVars
    BY <1>6, <2>1 DEF ConnectTxn
  <2>3. pc' = "connect" /\ UNCHANGED loopVars
    BY <1>1, <2>2 DEF Connect
  <2>4. t \in Txn
    BY <1>3, <2>1
  <2>5. (Difficulty > 0 /\ ti = 0) => t.from = NullAddr
    BY <1>2, <1>3, <2>1 DEF IsBatch, CoinbaseTxn
  <2>6. ~(Difficulty > 0 /\ ti = 0) => t \in Pending /\ t.from # NullAddr
    BY <1>2, <1>3, <2>1 DEF IsBatch, IInv, PendingInv
  <2>. HIDE DEF t
  <2>7. LoopInv'
    <3>1. IsBatch(cb.txns, cb.header.index)'
      BY <1>2, <1>5, <2>2, BatchKept
    <3>2. coinbase_count' = IF Difficulty > 0 /\ ti' > 0 THEN 1 ELSE 0
      BY <1>2, <1>3, <2>2, <2>5, <2>6
    <3>3. cb'.txns = InHand' /\ ti' <= Len(cb'.txns)
      BY <1>2, <1>3, <2>1, <2>2, <2>3 DEF InHand, loopVars
    <3>. QED  BY <2>3, <3>1, <3>2, <3>3 DEF LoopInv, Locked
  <2>8. CallInv'
    BY <1>1, <2>2, <2>3 DEF CallInv
  <2>9. PendingInv'
    BY <1>5, <2>3 DEF IInv, PendingInv, Up, Locked
  <2>10. PendingConnectable'
    <3>. SUFFICES ASSUME NEW u \in Pending, u \notin {cb.txns[i] : i \in 1 .. ti + 1}
                  PROVE  ApplyTxnReason(ApplyTxn(work, t), u, 0, 1) = "OK"
      BY <1>5, <2>2, <2>3 DEF PendingConnectable, Included
    <3>1. u # t /\ u \notin {cb.txns[i] : i \in 1 .. ti}
      BY <1>3, <2>1 DEF t
    <3>2. Passes(work, u)
      BY <1>1, <3>1, GateSame DEF IInv, PendingConnectable, Included
    <3>3. u.from # t.from
      <4>1. CASE t \in Pending
        BY <3>1, <4>1 DEF IInv, IndexesAgree
      <4>2. CASE t.from = NullAddr
        BY <4>2 DEF IInv, PendingInv
      <4>. QED  BY <2>5, <2>6, <4>1, <4>2
    <3>4. u \in Txn
      BY DEF IInv, TypeOK, MempoolTypeOK
    <3>. QED  BY <1>3, <2>4, <3>2, <3>3, <3>4, GateKept, GateSame
  <2>. QED  BY <2>7, <2>8, <2>9, <2>10 DEF Rest
<1>7. CASE ConnectReturn
  <2>1. ti = Len(cb.txns) /\ CoinbaseCountReason(coinbase_count, Reward) = "OK"
    BY <1>1, <1>3, <1>4, <1>7 DEF ConnectReturn, OwnBlocksPassGate
  <2>2. /\ state' = work /\ blocks' = Append(blocks, cb) /\ calling' = FALSE
        /\ ret' = "OK" /\ work' = work
    BY <1>7, <2>1 DEF ConnectReturn
  <2>3. pc' = "append" /\ UNCHANGED loopVars
    BY <1>1, <2>2 DEF Connect
  <2>4. blocks'[Len(blocks')] = cb
    BY <2>2 DEF IInv, TypeOK, ChainTypeOK
  <2>5. InHand' = InHand
    BY <2>3 DEF InHand, loopVars
  <2>6. LoopInv'
    <3>1. IsBatch(InHand, blocks[Len(blocks)].header.index)'
      BY <1>2, <1>5, <2>4, <2>5 DEF IsBatch, CoinbaseTxn
    <3>. QED  BY <1>2, <2>3, <2>4, <2>5, <3>1 DEF LoopInv, Locked
  <2>7. CallInv'
    BY <2>2, <2>3 DEF CallInv
  <2>8. PendingInv'
    BY <1>5, <2>3 DEF IInv, PendingInv, Up, Locked
  <2>9. PendingConnectable'
    <3>1. Included' = {cb.txns[i] : i \in 1 .. Len(cb.txns)}
      BY <2>3, <2>4 DEF Included
    <3>2. Included = {cb.txns[i] : i \in 1 .. Len(cb.txns)}
      BY <1>1, <2>1 DEF Included
    <3>. QED  BY <1>5, <2>2, <3>1, <3>2 DEF IInv, PendingConnectable
  <2>. QED  BY <2>6, <2>7, <2>8, <2>9 DEF Rest
<1>. QED  BY <1>1, <1>6, <1>7 DEF ConnectStep

(* A step that touches neither chain nor mempool and leaves the loop with   *)
(* no batch in hand.                                                        *)
LEMMA QuietRest ==
  ASSUME IInv, UNCHANGED <<chainVars, callVars, mempoolVars>>, ~calling, draft' = <<>>,
         pc \notin {"connect", "append", "evict"}, pc' \in {"check", "sleep", "stopping"}
  PROVE  Rest'
<1>1. /\ work' = work /\ state' = state /\ calling' = calling
      /\ Pending' = Pending
  BY DEF chainVars, callVars, mempoolVars, Pending
<1>2. Included = {} /\ Included' = {}
  BY DEF Included
<1>3. LoopInv'
  BY DEF LoopInv, Locked
<1>4. CallInv'
  BY <1>1 DEF IInv, CallInv
<1>5. PendingInv'
  BY <1>1 DEF IInv, PendingInv, Up, Unlocked
<1>6. PendingConnectable'
  BY <1>1, <1>2 DEF IInv, PendingConnectable
<1>. QED  BY <1>3, <1>4, <1>5, <1>6 DEF Rest

(* A call that offers the batch in hand: either connectBlock is under way,  *)
(* or the header was refused and nothing has changed.                       *)
LEMMA OfferRest ==
  ASSUME IInv, TypeOK', NEW b \in Block, ConnectCall(b), IsBatch(b.txns, b.header.index),
         pc \in {"drain", "mined"}, UNCHANGED mempoolVars, b.txns = InHand,
         \/ ret' = "none" /\ pc' = "connect" /\ UNCHANGED loopVars
         \/ ret' # "none" /\ pc' \in {"check", "sleep"} /\ draft' = <<>>
  PROVE  Rest'
<1>. DEFINE r == HeaderReason(b, Height + 1, Tip, now, Difficulty)
<1>1. r \in Reason /\ "none" \notin Reason
  BY DEF HeaderReason, Reason
<1>2. Pending' = Pending
  BY DEF mempoolVars, Pending
<1>. HIDE DEF r
<1>3. state' = state /\ work' = state
  BY DEF ConnectCall, Refuse, chainVars, r
<1>4. work = state /\ Included = {}
  BY DEF IInv, CallInv, Included
<1>5. PendingInv'
  BY <1>2 DEF IInv, PendingInv, Up, Unlocked, Locked
<1>6. CASE ret' = "none"
  <2>1. pc' = "connect" /\ UNCHANGED loopVars
    BY <1>6
  <2>2. calling' = TRUE /\ cb' = b /\ ti' = 0 /\ coinbase_count' = 0
    BY <1>1, <1>6 DEF ConnectCall, Refuse, r
  <2>3. LoopInv'
    <3>1. IsBatch(cb.txns, cb.header.index)'
      BY <1>2, <2>2 DEF IsBatch, CoinbaseTxn
    <3>2. cb'.txns = InHand' /\ ti' <= Len(cb'.txns)
      BY <2>1, <2>2 DEF InHand, loopVars, TypeOK, ChainTypeOK, Block
    <3>. QED  BY <2>1, <2>2, <3>1, <3>2 DEF LoopInv, Locked
  <2>4. CallInv'
    BY <1>6, <2>1, <2>2 DEF CallInv
  <2>5. PendingConnectable'
    <3>1. Included' = {}
      BY <2>1, <2>2 DEF Included
    <3>. QED  BY <1>2, <1>3, <1>4, <3>1 DEF IInv, PendingConnectable
  <2>. QED  BY <1>5, <2>3, <2>4, <2>5 DEF Rest
<1>7. CASE ret' # "none"
  <2>1. pc' \in {"check", "sleep"} /\ draft' = <<>>
    BY <1>7
  <2>2. calling' = FALSE
    BY <1>7 DEF ConnectCall, Refuse
  <2>3. LoopInv'
    BY <2>1 DEF LoopInv, Locked
  <2>4. CallInv'
    BY <1>3, <2>1, <2>2 DEF CallInv
  <2>5. PendingConnectable'
    <3>1. Included' = {}
      BY <2>1 DEF Included
    <3>. QED  BY <1>2, <1>3, <1>4, <3>1 DEF IInv, PendingConnectable
  <2>. QED  BY <1>5, <2>3, <2>4, <2>5 DEF Rest
<1>. QED  BY <1>6, <1>7

(* Collecting: the transaction taken has a number the loop has not reached, *)
(* so it is not in the draft yet.                                           *)
LEMMA CollectRest ==
  ASSUME IInv, TypeOK', pc \in {"drain", "select"}, pc' = pc,
         UNCHANGED <<chainVars, callVars, mempoolVars, cand>>,
         NEW n \in SeqsFrom(cursor), cursor' = n + 1,
         draft' = draft \/ draft' = Append(draft, bySeq[n])
  PROVE  Rest'
<1>1. /\ bySeq[n] \in Pending /\ byTxid[bySeq[n]] = n /\ n >= cursor /\ n \in Nat
      /\ cursor \in Nat /\ bySeq[n] \in Txn
  BY DEF SeqsFrom, IInv, IndexesAgree, TypeOK, MempoolTypeOK
<1>2. /\ IsBatch(draft, Height + 1)
      /\ \A i \in 1 .. Len(draft) : draft[i] \in Pending => byTxid[draft[i]] < cursor
  BY DEF IInv, LoopInv
<1>3. /\ work' = work /\ state' = state /\ calling' = calling /\ blocks' = blocks
      /\ ret' = ret /\ Pending' = Pending /\ byTxid' = byTxid /\ Height' = Height
  BY DEF chainVars, callVars, mempoolVars, Pending, Height
<1>4. bySeq[n].from # NullAddr
  BY <1>1 DEF IInv, PendingInv
<1>5. \A i \in 1 .. Len(draft) : draft[i] # bySeq[n]
  BY <1>1, <1>2 DEF IsBatch
<1>6. draft \in Seq(Txn)
  BY DEF IInv, TypeOK
<1>7. \A x \in Pending : byTxid[x] \in Nat
  BY DEF IInv, TypeOK, MempoolTypeOK
<1>8. IsBatch(draft', Height + 1)
      /\ \A i \in 1 .. Len(draft') : draft'[i] \in Pending => byTxid[draft'[i]] < cursor'
  <2>1. CASE draft' = draft
    BY <1>1, <1>2, <1>7, <2>1
  <2>2. CASE draft' = Append(draft, bySeq[n])
    <3>1. /\ Len(draft') = Len(draft) + 1 /\ Len(draft) \in Nat
          /\ draft'[Len(draft) + 1] = bySeq[n]
          /\ \A i \in 1 .. Len(draft) : draft'[i] = draft[i]
      BY <1>1, <1>6, <2>2
    <3>2. Difficulty > 0 => Len(draft) >= 1
      BY <1>2 DEF IsBatch
    <3>3. IsBatch(draft', Height + 1)
      <4>1. \A i \in 1 .. Len(draft') :
              IF Difficulty > 0 /\ i = 1 THEN draft'[i] = CoinbaseTxn(Miner, Height + 1)
                                        ELSE draft'[i] \in Pending
        BY <1>1, <1>2, <3>1, <3>2 DEF IsBatch
      <4>2. \A i \in 1 .. Len(draft') : i = Len(draft) + 1 \/ i \in 1 .. Len(draft)
        BY <3>1
      <4>3. ASSUME NEW i \in 1 .. Len(draft'), NEW j \in 1 .. Len(draft'), draft'[i] = draft'[j]
            PROVE  i = j
        <5>1. CASE i \in 1 .. Len(draft) /\ j \in 1 .. Len(draft)
          BY <1>2, <3>1, <4>3, <5>1 DEF IsBatch
        <5>2. CASE i = Len(draft) + 1 \/ j = Len(draft) + 1
          BY <1>5, <3>1, <4>2, <4>3, <5>2
        <5>. QED  BY <4>2, <5>1, <5>2
      <4>. QED  BY <3>1, <3>2, <4>1, <4>3 DEF IsBatch
    <3>4. ASSUME NEW i \in 1 .. Len(draft'), draft'[i] \in Pending
          PROVE  byTxid[draft'[i]] < cursor'
      <4>1. CASE i = Len(draft) + 1
        BY <1>1, <3>1, <4>1
      <4>2. CASE i # Len(draft) + 1
        <5>1. i \in 1 .. Len(draft) /\ draft'[i] = draft[i]
          BY <3>1, <4>2
        <5>2. byTxid[draft[i]] < cursor /\ byTxid[draft[i]] \in Nat
          BY <1>2, <1>7, <3>4, <5>1
        <5>. QED  BY <1>1, <5>1, <5>2
      <4>. QED  BY <4>1, <4>2
    <3>. QED  BY <3>3, <3>4
  <2>. QED  BY <2>1, <2>2
<1>9. LoopInv'
  <2>1. IsBatch(draft, Height + 1)'
    BY <1>3, <1>8 DEF IsBatch, CoinbaseTxn
  <2>. QED  BY <1>3, <1>8, <2>1 DEF LoopInv, Locked, IInv
<1>10. CallInv'
  BY <1>3 DEF IInv, CallInv
<1>11. PendingInv'
  BY <1>3 DEF IInv, PendingInv
<1>12. PendingConnectable'
  <2>1. Included = {} /\ Included' = {}
    BY DEF Included
  <2>. QED  BY <1>3, <2>1 DEF IInv, PendingConnectable
<1>. QED  BY <1>9, <1>10, <1>11, <1>12 DEF Rest

(* Starting a block: an empty draft, or the coinbase alone.                 *)
LEMMA BeginRest ==
  ASSUME IInv, BeginSeal \/ BeginCandidate
  PROVE  Rest'
<1>1. /\ pc = "check" /\ UNCHANGED <<chainVars, callVars, mempoolVars>>
      /\ work' = work /\ state' = state /\ calling' = calling
      /\ Pending' = Pending /\ Height' = Height
  BY DEF BeginSeal, BeginCandidate, chainVars, callVars, mempoolVars, Pending, Height
<1>2. draft = <<>> /\ ~calling /\ work = state
  BY <1>1 DEF IInv, LoopInv, CallInv, Locked
<1>3. LoopInv'
  <2>1. CASE BeginSeal
    <3>1. pc' = "drain" /\ Difficulty = 0 /\ draft' = <<>>
      BY <1>2, <2>1 DEF BeginSeal, loopVars
    <3>. QED  BY <3>1 DEF LoopInv, IsBatch, Locked
  <2>2. CASE BeginCandidate
    <3>1. /\ pc' = "select" /\ Difficulty > 0
          /\ draft' = <<CoinbaseTxn(Miner, Height + 1)>>
      BY <2>2 DEF BeginCandidate
    <3>2. Len(draft') = 1 /\ draft'[1] = CoinbaseTxn(Miner, Height' + 1)
      BY <1>1, <3>1
    <3>3. CoinbaseTxn(Miner, Height' + 1) \notin Pending'
      BY <1>1 DEF IInv, PendingInv, CoinbaseTxn
    <3>. QED  BY <3>1, <3>2, <3>3 DEF LoopInv, IsBatch, Locked, CoinbaseTxn
  <2>. QED  BY <2>1, <2>2
<1>4. pc' \in {"drain", "select"}
  BY DEF BeginSeal, BeginCandidate
<1>5. CallInv'
  BY <1>1, <1>2, <1>4 DEF CallInv
<1>6. PendingInv'
  BY <1>1, <1>4 DEF IInv, PendingInv, Up, Locked
<1>7. PendingConnectable'
  <2>1. Included = {} /\ Included' = {}
    BY <1>1, <1>4 DEF Included
  <2>. QED  BY <1>1, <2>1 DEF IInv, PendingConnectable
<1>. QED  BY <1>3, <1>5, <1>6, <1>7 DEF Rest

(* Grinding changes the nonce and the timestamp of the candidate only.      *)
LEMMA MineKeepsBody ==
  ASSUME TypeOK, Mine
  PROVE  /\ cand'.txns = cand.txns
         /\ cand'.header.index = cand.header.index
         /\ cand'.header.prevHash = cand.header.prevHash
<1>1. PICK w \in 0 .. MaxNonceWraps :
        cand' = [cand EXCEPT !.header.nonce = "found", !.header.timestamp = @ + w]
  BY DEF Mine
<1>2. cand \in Block /\ cand.header \in BlockHeader
  BY DEF TypeOK, Block
<1>3. cand' = [cand EXCEPT !.header = [cand.header EXCEPT !.nonce = "found", !.timestamp = @ + w]]
  BY <1>1, <1>2 DEF Block, BlockHeader
<1>4. /\ cand'.txns = cand.txns
      /\ cand'.header = [cand.header EXCEPT !.nonce = "found", !.timestamp = @ + w]
  BY <1>2, <1>3 DEF Block
<1>. QED  BY <1>2, <1>4 DEF BlockHeader

(* Building and grinding the candidate keep its batch.                      *)
LEMMA CandidateRest ==
  ASSUME IInv, CandidateBuilt \/ Mine
  PROVE  Rest'
<1>1. /\ pc \in {"select", "grind"} /\ pc' \in {"grind", "mined"}
      /\ work' = work /\ state' = state /\ calling' = calling /\ Pending' = Pending
  BY DEF CandidateBuilt, Mine, chainVars, callVars, mempoolVars, Pending
<1>2. Difficulty > 0
  BY <1>1 DEF IInv, LoopInv
<1>3. draft' = <<>> /\ IsBatch(cand.txns, cand.header.index)'
  <2>1. CASE CandidateBuilt
    <3>1. IsBatch(draft, Height + 1)
      BY <2>1 DEF CandidateBuilt, IInv, LoopInv
    <3>2. cand'.txns = draft /\ cand'.header.index = Height + 1 /\ draft' = <<>>
      BY <2>1 DEF CandidateBuilt, NextBlock
    <3>. QED  BY <1>1, <3>1, <3>2 DEF IsBatch, CoinbaseTxn
  <2>2. CASE Mine
    <3>1. IsBatch(cand.txns, cand.header.index) /\ draft = <<>>
      BY <2>2 DEF Mine, IInv, LoopInv, Locked
    <3>2. cand'.txns = cand.txns /\ cand'.header.index = cand.header.index /\ draft' = draft
      BY <2>2, MineKeepsBody DEF Mine, IInv
    <3>. QED  BY <1>1, <3>1, <3>2 DEF IsBatch, CoinbaseTxn
  <2>. QED  BY <2>1, <2>2
<1>4. LoopInv'
  BY <1>1, <1>2, <1>3 DEF LoopInv, Locked
<1>5. CallInv'
  BY <1>1 DEF IInv, CallInv
<1>6. PendingInv'
  BY <1>1 DEF IInv, PendingInv, Up, Unlocked
<1>7. PendingConnectable'
  <2>1. Included = {} /\ Included' = {}
    BY <1>1 DEF Included
  <2>. QED  BY <1>1, <2>1 DEF IInv, PendingConnectable
<1>. QED  BY <1>4, <1>5, <1>6, <1>7 DEF Rest

(* Steps that change nothing the invariant speaks of: appendBlock, whatever *)
(* it writes, a signal, the timer and the clock.                            *)
LEMMA AsideRest ==
  ASSUME IInv, UNCHANGED <<chainVars, callVars, mempoolVars, loopVars>>,
         pc' = pc \/ (pc = "append" /\ pc' = "evict")
  PROVE  Rest'
<1>1. /\ work' = work /\ state' = state /\ calling' = calling /\ ret' = ret /\ cb' = cb
      /\ ti' = ti /\ coinbase_count' = coinbase_count /\ blocks' = blocks
      /\ byTxid' = byTxid /\ draft' = draft /\ cand' = cand /\ cursor' = cursor
  BY DEF chainVars, callVars, mempoolVars, loopVars
<1>2. Pending' = Pending /\ Height' = Height /\ InHand' = InHand /\ Included' = Included
  BY <1>1 DEF Pending, Height, InHand, Included
<1>3. LoopInv'
  <2>1. \A s, i : IsBatch(s, i)' <=> IsBatch(s, i)
    BY <1>2 DEF IsBatch, CoinbaseTxn
  <2>. QED  BY <1>1, <1>2 DEF IInv, LoopInv, IsBatch, CoinbaseTxn, Locked
<1>4. CallInv'
  BY <1>1 DEF IInv, CallInv
<1>5. PendingInv'
  BY <1>2 DEF IInv, PendingInv, Up, Locked
<1>6. PendingConnectable'
  BY <1>1, <1>2 DEF IInv, PendingConnectable
<1>. QED  BY <1>3, <1>4, <1>5, <1>6 DEF Rest

(* What evictIncluded is given holds every pending transaction of the block *)
(* in hand.                                                                 *)
LEMMA EvictTakesIncluded ==
  ASSUME IInv, pc = "evict"
  PROVE  \A t \in Pending : t \in Included => t \in {Leaving[i] : i \in 1 .. Len(Leaving)}
<1>0. IsBatch(InHand, blocks[Len(blocks)].header.index) /\ blocks[Len(blocks)].txns = InHand
  BY DEF IInv, LoopInv
<1>1. Included = {InHand[i] : i \in 1 .. Len(InHand)}
  BY <1>0 DEF Included
<1>2. CASE Difficulty = 0
  BY <1>1, <1>2 DEF InHand, Leaving
<1>3. CASE Difficulty # 0
  <2>1. InHand = cand.txns /\ Leaving = Tail(cand.txns) /\ cand.txns \in Seq(Txn)
    BY <1>3 DEF InHand, Leaving, IInv, TypeOK, Block
  <2>2. Difficulty > 0
    BY <1>3, DifficultyAssumption
  <2>3. Len(cand.txns) >= 1 /\ cand.txns[1].from = NullAddr
    BY <1>0, <2>1, <2>2 DEF IsBatch, CoinbaseTxn
  <2>4. \A i \in 2 .. Len(cand.txns) :
          i - 1 \in 1 .. Len(Leaving) /\ cand.txns[i] = Leaving[i - 1]
    BY <2>1, <2>3
  <2>. SUFFICES ASSUME NEW t \in Pending, NEW i \in 1 .. Len(cand.txns), t = cand.txns[i]
                PROVE  t \in {Leaving[j] : j \in 1 .. Len(Leaving)}
    BY <1>1, <2>1
  <2>5. i # 1
    BY <2>3 DEF IInv, PendingInv
  <2>6. i \in 2 .. Len(cand.txns)
    BY <2>5
  <2>. QED  BY <2>4, <2>6
<1>. QED  BY <1>2, <1>3

(* evictIncluded removes what was included, no more and no less.            *)
LEMMA EvictRest ==
  ASSUME IInv, Evict
  PROVE  Rest'
<1>1. /\ pc = "evict" /\ EvictIncluded(Leaving) /\ pc' \in {"check", "sleep"} /\ draft' = <<>>
      /\ work' = work /\ state' = state /\ calling' = calling
  BY DEF Evict, Leaving, LoopEnd, FreshLoop, chainVars, callVars
<1>2. IsBatch(InHand, blocks[Len(blocks)].header.index) /\ blocks[Len(blocks)].txns = InHand
  BY <1>1 DEF IInv, LoopInv
<1>3. Pending' = Pending \ {Leaving[i] : i \in 1 .. Len(Leaving)}
  BY <1>1, EvictIndexes DEF IInv, TypeOK
<1>4. \A t \in Pending : t \in Included => t \in {Leaving[i] : i \in 1 .. Len(Leaving)}
  BY <1>1, EvictTakesIncluded
<1>5. LoopInv'
  BY <1>1 DEF LoopInv, Locked
<1>6. CallInv'
  BY <1>1 DEF IInv, CallInv
<1>7. PendingInv'
  BY <1>1, <1>3 DEF IInv, PendingInv, Up, Locked, Unlocked
<1>8. PendingConnectable'
  <2>1. Included' = {}
    BY <1>1 DEF Included
  <2>. QED  BY <1>1, <1>3, <1>4, <2>1 DEF IInv, PendingConnectable
<1>. QED  BY <1>5, <1>6, <1>7, <1>8 DEF Rest

(* admit adds at most one transaction, which passes the gate as it is now.  *)
LEMMA SubmitRest ==
  ASSUME IInv, SubmitTx
  PROVE  Rest'
<1>1. /\ pc \in Unlocked /\ pc' = pc /\ work' = work /\ state' = state
      /\ calling' = calling /\ draft' = draft /\ cand' = cand
  BY DEF SubmitTx, chainVars, callVars, loopVars
<1>2. PICK t \in Txns : Admit(t, state)
  BY DEF SubmitTx
<1>3. \/ Pending' = Pending
      \/ Pending' = Pending \cup {t} /\ ApplyTxnReason(state, t, 0, 1) = "OK"
  <2>1. CASE AdmitResult(t, state) = "OK"
    <3>1. ApplyTxnReason(state, t, 0, 1) = "OK"
      BY <2>1 DEF AdmitResult
    <3>2. Pending' = Pending \cup {t}
      BY <1>2, <2>1 DEF Admit, Put, Pending
    <3>. QED  BY <3>1, <3>2
  <2>2. CASE AdmitResult(t, state) # "OK"
    BY <1>2, <2>2 DEF Admit, mempoolVars, Pending
  <2>. QED  BY <2>1, <2>2
<1>4. ~calling /\ work = state
  BY <1>1 DEF IInv, CallInv, Unlocked
<1>5. LoopInv'
  <2>1. pc \in {"grind", "mined"} => IsBatch(cand.txns, cand.header.index)'
    BY <1>1, <1>3 DEF IInv, LoopInv, IsBatch, CoinbaseTxn
  <2>. QED  BY <1>1, <2>1 DEF IInv, LoopInv, Unlocked, Locked
<1>6. CallInv'
  BY <1>1, <1>4 DEF CallInv, Unlocked
<1>7. PendingInv'
  <2>1. ApplyTxnReason(state, t, 0, 1) = "OK" => t.from # NullAddr
    BY GateSame DEF Passes
  <2>. QED  BY <1>1, <1>3, <2>1 DEF IInv, PendingInv, Up
<1>8. PendingConnectable'
  <2>1. Included = {} /\ Included' = {}
    BY <1>1 DEF Included, Unlocked
  <2>. QED  BY <1>1, <1>3, <1>4, <2>1 DEF IInv, PendingConnectable
<1>. QED  BY <1>5, <1>6, <1>7, <1>8 DEF Rest

(* Boot: nothing is pending.                                                *)
LEMMA BootRest ==
  ASSUME IInv, Boot \/ Exit \/ Crash \/ BootConnect
  PROVE  Rest'
<1>1. CASE Boot \/ Exit \/ Crash
  <2>1. FreshMemory /\ pc' \in {"genesis", "boot", "refused", "down"}
    BY <1>1 DEF Boot, Exit, Crash
  <2>2. Pending' = {}
    BY <2>1, MempoolFresh
  <2>3. /\ draft' = <<>> /\ calling' = FALSE /\ work' = state'
    BY <2>1 DEF FreshMemory, FreshLoop
  <2>. QED  BY <2>1, <2>2, <2>3 DEF Rest, LoopInv, CallInv, PendingInv, PendingConnectable,
                                    Locked
<1>2. CASE BootConnect
  <2>1. pc = "boot" /\ pc' \in {"boot", "refused"} /\ UNCHANGED mempoolVars /\ draft' = draft
    BY <1>2 DEF BootConnect, loopVars
  <2>2. Pending' = {}
    BY <2>1 DEF IInv, PendingInv, mempoolVars, Pending, Up, Locked, Unlocked
  <2>3. draft = <<>>
    BY <2>1 DEF IInv, LoopInv, Locked
  <2>4. CallInv'
    <3>1. \/ calling' = FALSE /\ work' = state'
          \/ calling' = TRUE /\ ret' = "none"
      <4>1. CASE ConnectTxn
        BY <4>1 DEF ConnectTxn, Refuse, chainVars, IInv, CallInv
      <4>2. CASE ConnectReturn
        BY <4>2 DEF ConnectReturn, Refuse, chainVars
      <4>3. CASE \E b : ConnectCall(b)
        BY <4>3 DEF ConnectCall, Refuse, chainVars
      <4>. QED  BY <1>2, <4>1, <4>2, <4>3 DEF BootConnect, ConnectStep
    <3>2. pc' = IF ret' \in {"none", "OK"} THEN "boot" ELSE "refused"
      BY <1>2 DEF BootConnect
    <3>. QED  BY <3>1, <3>2 DEF CallInv
  <2>. QED  BY <2>1, <2>2, <2>3, <2>4 DEF Rest, LoopInv, PendingInv, PendingConnectable, Locked
<1>. QED  BY <1>1, <1>2

-----------------------------------------------------------------------------
(* Every step keeps the inductive invariant, and it holds initially.        *)
LEMMA IInvStep ==
  ASSUME IInv, [Next]_vars
  PROVE  IInv'
<1>1. TypeOK' /\ IndexesAgree'
  BY TypeStep DEF IInv
<1>. SUFFICES Rest'
  BY <1>1 DEF IInv, Rest
<1>2. CASE Boot \/ Exit \/ Crash \/ BootConnect
  BY <1>2, BootRest
<1>3. CASE BootDone \/ IdlePass \/ Wake \/ LeaveLoop
  <2>1. /\ UNCHANGED <<chainVars, callVars, mempoolVars>> /\ draft' = draft
        /\ pc \in {"boot", "check", "sleep"} /\ pc' \in {"check", "sleep", "stopping"}
    BY <1>3 DEF BootDone, IdlePass, Wake, LeaveLoop, loopVars
  <2>2. ~calling
    BY <1>3 DEF BootDone, IdlePass, Wake, LeaveLoop, IInv, CallInv
  <2>3. draft = <<>>
    BY <2>1 DEF IInv, LoopInv, Locked
  <2>. QED  BY <2>1, <2>2, <2>3, QuietRest
<1>4. CASE BeginSeal \/ BeginCandidate
  BY <1>4, BeginRest
<1>5. CASE DrainTxn
  <2>1. PICK n \in SeqsFrom(cursor) : draft' = Append(draft, bySeq[n]) /\ cursor' = n + 1
    BY <1>5 DEF DrainTxn
  <2>. QED  BY <1>1, <1>5, <2>1, CollectRest DEF DrainTxn
<1>6. CASE SelectTxn
  <2>1. PICK n \in SeqsFrom(cursor) :
          cursor' = n + 1 /\ (draft' = draft \/ draft' = Append(draft, bySeq[n]))
    BY <1>6 DEF SelectTxn
  <2>. QED  BY <1>1, <1>6, <2>1, CollectRest DEF SelectTxn
<1>7. CASE SealNextBlock
  <2>. DEFINE b == NextBlock(draft, "zero")
  <2>1. /\ pc = "drain" /\ ConnectCall(b) /\ UNCHANGED mempoolVars
        /\ \/ ret' = "none" /\ pc' = "connect" /\ UNCHANGED loopVars
           \/ ret' # "none" /\ pc' \in {"check", "sleep"} /\ draft' = <<>>
    BY <1>7 DEF SealNextBlock, LoopEnd, FreshLoop
  <2>2. Difficulty = 0 /\ IsBatch(draft, Height + 1)
    BY <2>1 DEF IInv, LoopInv
  <2>3. b.txns = draft /\ b.header.index = Height + 1
    BY DEF NextBlock
  <2>4. b \in Block
    BY NextBlockType DEF IInv, TypeOK, PowNonce
  <2>5. b.txns = InHand
    BY <2>2, <2>3 DEF InHand
  <2>. HIDE DEF b
  <2>. QED  BY <1>1, <2>1, <2>2, <2>3, <2>4, <2>5, OfferRest
<1>8. CASE CandidateBuilt \/ Mine
  BY <1>8, CandidateRest
<1>9. CASE MinePreempted
  <2>1. /\ UNCHANGED <<chainVars, callVars, mempoolVars>> /\ draft' = <<>>
        /\ pc = "grind" /\ pc' = "check"
    BY <1>9 DEF MinePreempted, FreshLoop
  <2>. QED  BY <2>1, QuietRest DEF IInv, CallInv
<1>10. CASE CommitMined
  <2>1. pc = "mined" /\ UNCHANGED mempoolVars
    BY <1>10 DEF CommitMined
  <2>2. CASE TipUnmoved
    <3>1. /\ ConnectCall(cand)
          /\ \/ ret' = "none" /\ pc' = "connect" /\ UNCHANGED loopVars
             \/ ret' # "none" /\ pc' \in {"check", "sleep"} /\ draft' = <<>>
      BY <1>10, <2>2 DEF CommitMined, LoopEnd, FreshLoop
    <3>2. IsBatch(cand.txns, cand.header.index) /\ cand \in Block
      BY <2>1 DEF IInv, LoopInv, TypeOK
    <3>3. cand.txns = InHand
      BY <2>1 DEF IInv, LoopInv, InHand
    <3>. QED  BY <1>1, <2>1, <3>1, <3>2, <3>3, OfferRest
  <2>3. CASE ~TipUnmoved
    <3>1. /\ UNCHANGED <<chainVars, callVars>> /\ pc' \in {"check", "sleep"} /\ draft' = <<>>
      BY <1>10, <2>3 DEF CommitMined, LoopEnd, FreshLoop
    <3>. QED  BY <2>1, <3>1, QuietRest DEF IInv, CallInv
  <2>. QED  BY <2>2, <2>3
<1>11. CASE Connect
  BY <1>1, <1>11, ConnectRest
<1>12. CASE AppendBlock
  <2>1. CASE pc = "append"
    BY <1>12, <2>1, AsideRest DEF AppendBlock
  <2>2. CASE pc = "genesis"
    <3>1. /\ UNCHANGED <<chainVars, callVars, mempoolVars>> /\ draft' = draft /\ pc' = "check"
      BY <1>12, <2>2 DEF AppendBlock, loopVars
    <3>2. ~calling /\ draft = <<>>
      BY <2>2 DEF IInv, CallInv, LoopInv, Locked
    <3>. QED  BY <2>2, <3>1, <3>2, QuietRest
  <2>. QED  BY <1>12, <2>1, <2>2 DEF AppendBlock
<1>13. CASE Evict
  BY <1>13, EvictRest
<1>14. CASE SubmitTx
  BY <1>14, SubmitRest
<1>15. CASE Signal \/ TimerElapses \/ Tick \/ UNCHANGED vars
  <2>1. UNCHANGED <<chainVars, callVars, mempoolVars, loopVars>> /\ pc' = pc
    BY <1>15 DEF Signal, TimerElapses, Tick, vars
  <2>. QED  BY <2>1, AsideRest
<1>. QED
  BY <1>2, <1>3, <1>4, <1>5, <1>6, <1>7, <1>8, <1>9, <1>10, <1>11, <1>12, <1>13, <1>14,
     <1>15 DEF Next, Loop

LEMMA IInvInit == Init => IInv
<1>. SUFFICES ASSUME Init PROVE IInv
  OBVIOUS
<1>1. TypeOK /\ IndexesAgree
  BY InitType
<1>2. /\ pc = "down" /\ draft = <<>> /\ calling = FALSE /\ work = state /\ Pending = {}
  BY DEF Init, ChainNew, NotCalling, MempoolNew, Pending
<1>. QED  BY <1>1, <1>2 DEF IInv, LoopInv, CallInv, PendingInv, PendingConnectable, Locked

(* "A txn that admits will also connect" (mempool.hpp), for every node:     *)
(* whatever was mined since a transaction was admitted, transfers to        *)
(* oneself included, it passes the gate until it is in the block in hand.   *)
THEOREM PendingStaysConnectable == Spec => []PendingConnectable
<1>1. IInv => PendingConnectable
  BY DEF IInv
<1>. QED  BY <1>1, IInvInit, IInvStep, PTL DEF Spec

(* The transactions the loop drains or selects always pass connectBlock's   *)
(* V7, so that only the header (the clock) can make the node refuse a block *)
(* of its own (main.cpp, chain.cpp).                                        *)
THEOREM OwnBlocksConnect == Spec => []OwnBlocksPassGate
<1>1. IInv => OwnBlocksPassGate
  BY InHandPasses
<1>. QED  BY <1>1, IInvInit, IInvStep, PTL DEF Spec

-----------------------------------------------------------------------------
(* The order in which transactions leave the mempool.                       *)

Elems(s) == {s[i] : i \in 1 .. Len(s)}

(* The pending transactions in s are older than all the other ones.         *)
Oldest(s) ==
  \A t \in Pending \cap Elems(s), u \in Pending \ Elems(s) : byTxid[t] < byTxid[u]

(* The collecting loop has taken everything it has come past, which in PoW  *)
(* mode rests on every pending transaction being selectable; so the batch   *)
(* in hand is the oldest part of the mempool, also when the lock was free   *)
(* while it was ground.                                                     *)
OrderInv ==
  /\ pc \notin Locked => cursor = 0
  /\ pc \in {"drain", "select"} =>
       \A t \in Pending : byTxid[t] < cursor => t \in Elems(draft)
  /\ pc = "select" => \A t \in Pending \ Elems(draft) : Selectable(t)
  /\ pc \in {"grind", "mined"} => Oldest(cand.txns)
  /\ pc \in {"connect", "append", "evict"} => Oldest(InHand)

(* Applying another sender's transfer to the shadow can only credit this    *)
(* sender.                                                                  *)
LEMMA SelectableKept ==
  ASSUME NEW sh \in Accounts, NEW t \in Txn, NEW u \in Txn, u.from # t.from,
         t.nonce = sh[t.from].nonce, t.amount <= sh[t.from].balance
  PROVE  /\ t.nonce = ApplyShadow(sh, u)[t.from].nonce
         /\ t.amount <= ApplyShadow(sh, u)[t.from].balance
<1>1. /\ t.from \in Acct /\ u.to \in Acct /\ u.from \in Acct
      /\ t.amount \in Nat /\ u.amount \in Nat
  BY DEF Txn
<1>2. sh[t.from] \in AccountState /\ sh[u.from] \in AccountState
  BY <1>1 DEF Accounts
<1>. DEFINE debited == [sh EXCEPT ![u.from] = [balance |-> @.balance - u.amount,
                                               nonce |-> @.nonce + 1]]
<1>3. DOMAIN debited = Acct /\ debited[t.from] = sh[t.from]
  BY <1>1 DEF Accounts
<1>. HIDE DEF debited
<1>4. ApplyShadow(sh, u) = [debited EXCEPT ![u.to].balance = @ + u.amount]
  BY DEF ApplyShadow, Credit, debited
<1>5. CASE u.to # t.from
  <2>1. ApplyShadow(sh, u)[t.from] = sh[t.from]
    BY <1>1, <1>3, <1>4, <1>5
  <2>. QED  BY <2>1
<1>6. CASE u.to = t.from
  <2>1. ApplyShadow(sh, u)[t.from] = [sh[t.from] EXCEPT !.balance = @ + u.amount]
    BY <1>1, <1>3, <1>4, <1>6
  <2>. QED  BY <1>1, <1>2, <2>1 DEF AccountState
<1>. QED  BY <1>5, <1>6

(* One turn of the collecting loop: the oldest transaction it has not come  *)
(* past is taken, and none is left behind.                                  *)
LEMMA CollectOrder ==
  ASSUME IInv, OrderInv, DrainTxn \/ SelectTxn
  PROVE  OrderInv'
<1>1. /\ pc \in {"drain", "select"} /\ pc' = pc
      /\ byTxid' = byTxid /\ Pending' = Pending
  BY DEF DrainTxn, SelectTxn, mempoolVars, Pending
<1>2. PICK n \in SeqsFrom(cursor) :
        /\ \A m \in SeqsFrom(cursor) : n <= m
        /\ cursor' = n + 1
        /\ \/ pc = "drain" /\ draft' = Append(draft, bySeq[n])
           \/ /\ pc = "select"
              /\ IF Selectable(bySeq[n])
                 THEN /\ draft' = Append(draft, bySeq[n])
                      /\ shadow' = ApplyShadow(shadow, bySeq[n])
                 ELSE UNCHANGED <<draft, shadow>>
  BY DEF DrainTxn, SelectTxn
<1>. DEFINE t == bySeq[n]
<1>3. /\ t \in Pending /\ byTxid[t] = n /\ n >= cursor /\ n \in Nat
      /\ cursor \in Nat /\ t \in Txn /\ draft \in Seq(Txn)
  BY DEF SeqsFrom, IInv, IndexesAgree, TypeOK, MempoolTypeOK
<1>4. t \notin Elems(draft)
  <2>1. \A i \in 1 .. Len(draft) : draft[i] \in Pending => byTxid[draft[i]] < cursor
    BY <1>1 DEF IInv, LoopInv
  <2>. QED  BY <1>3, <2>1 DEF Elems
<1>5. pc = "select" => Selectable(t)
  BY <1>3, <1>4 DEF OrderInv
<1>. HIDE DEF t
<1>6. draft' = Append(draft, t)
  BY <1>2, <1>5 DEF t
<1>7. Elems(draft)' = Elems(draft) \cup {t}
  BY <1>3, <1>6 DEF Elems
<1>8. ASSUME NEW u \in Pending, byTxid[u] < cursor'
      PROVE  u \in Elems(draft)'
  <2>1. byTxid[u] \in Nat /\ byTxid[u] \in DOMAIN bySeq /\ bySeq[byTxid[u]] = u
    BY DEF IInv, IndexesAgree, TypeOK, MempoolTypeOK
  <2>2. CASE byTxid[u] < cursor
    BY <1>1, <1>7, <2>2 DEF OrderInv
  <2>3. CASE byTxid[u] >= cursor
    <3>1. byTxid[u] \in SeqsFrom(cursor)
      BY <2>1, <2>3 DEF SeqsFrom
    <3>2. byTxid[u] = n
      BY <1>2, <1>3, <1>8, <2>1, <3>1
    <3>. QED  BY <1>7, <2>1, <3>2 DEF t
  <2>. QED  BY <1>3, <2>1, <2>2, <2>3
<1>9. ASSUME pc = "select", NEW u \in Pending \ Elems(draft)'
      PROVE  Selectable(u)'
  <2>1. u \in Pending \ Elems(draft) /\ u # t /\ u \in Txn
    BY <1>7 DEF IInv, TypeOK, MempoolTypeOK
  <2>2. Selectable(u)
    BY <1>9, <2>1 DEF OrderInv
  <2>3. t.from # u.from
    BY <1>3, <2>1 DEF IInv, IndexesAgree
  <2>4. shadow' = ApplyShadow(shadow, t) /\ shadow \in Accounts
    BY <1>2, <1>5, <1>9 DEF t, IInv, TypeOK
  <2>. QED  BY <1>3, <2>1, <2>2, <2>3, <2>4, SelectableKept DEF Selectable
<1>. QED  BY <1>1, <1>8, <1>9 DEF OrderInv, Locked

(* A collected draft is the oldest part of the mempool.                     *)
LEMMA CollectedIsOldest ==
  ASSUME IInv, OrderInv, pc \in {"drain", "select"}
  PROVE  Oldest(draft)
<1>1. \A i \in 1 .. Len(draft) : draft[i] \in Pending => byTxid[draft[i]] < cursor
  BY DEF IInv, LoopInv
<1>2. \A u \in Pending : byTxid[u] \in Nat /\ (byTxid[u] < cursor => u \in Elems(draft))
  BY DEF OrderInv, IInv, TypeOK, MempoolTypeOK
<1>3. cursor \in Nat
  BY DEF IInv, TypeOK
<1>. QED  BY <1>1, <1>2, <1>3 DEF Oldest, Elems

(* Steps that end a turn, or a process: nothing is in hand.                 *)
LEMMA EndOrder ==
  ASSUME pc' \notin Locked \cup {"grind", "mined"}, cursor' = 0
  PROVE  OrderInv'
BY DEF OrderInv, Locked

(* Steps on the way that leave the mempool and the batch alone.             *)
LEMMA AsideOrder ==
  ASSUME OrderInv, UNCHANGED <<mempoolVars, loopVars>>,
         \/ pc' = pc
         \/ {pc, pc'} \subseteq {"boot", "genesis", "check", "sleep", "stopping"}
         \/ {pc, pc'} \subseteq {"connect", "append", "evict"}
  PROVE  OrderInv'
<1>1. /\ byTxid' = byTxid /\ Pending' = Pending /\ cursor' = cursor /\ draft' = draft
      /\ shadow' = shadow /\ cand' = cand /\ InHand' = InHand
  BY DEF mempoolVars, loopVars, Pending, InHand
<1>2. /\ \A s : Oldest(s)' <=> Oldest(s)
      /\ \A t : Selectable(t)' <=> Selectable(t)
  BY <1>1 DEF Oldest, Elems, Selectable
<1>3. CASE pc' = pc
  BY <1>1, <1>2, <1>3 DEF OrderInv, Elems, Oldest, Selectable
<1>4. CASE {pc, pc'} \subseteq {"boot", "genesis", "check", "sleep", "stopping"}
  BY <1>1, <1>4 DEF OrderInv, Locked
<1>5. CASE {pc, pc'} \subseteq {"connect", "append", "evict"}
  BY <1>1, <1>5 DEF OrderInv, Locked, Oldest, Elems
<1>. QED  BY <1>3, <1>4, <1>5

(* Every step keeps the order.                                              *)
LEMMA OrderStep ==
  ASSUME IInv, OrderInv, [Next]_vars
  PROVE  OrderInv'
<1>1. CASE Boot \/ Exit \/ Crash
  <2>1. cursor' = 0 /\ pc' \in {"genesis", "boot", "refused", "down"}
    BY <1>1 DEF Boot, Exit, Crash, FreshMemory, FreshLoop
  <2>. QED  BY <2>1, EndOrder DEF Locked
<1>2. CASE BootConnect
  <2>1. cursor' = cursor /\ pc = "boot" /\ pc' \in {"boot", "refused"}
    BY <1>2 DEF BootConnect, loopVars
  <2>. QED  BY <2>1, EndOrder DEF OrderInv, Locked
<1>3. CASE \/ BootDone \/ IdlePass \/ Wake \/ LeaveLoop \/ AppendBlock
           \/ Signal \/ TimerElapses \/ Tick \/ UNCHANGED vars
  <2>1. /\ UNCHANGED <<mempoolVars, loopVars>>
        /\ \/ pc' = pc
           \/ {pc, pc'} \subseteq {"boot", "genesis", "check", "sleep", "stopping"}
           \/ {pc, pc'} \subseteq {"connect", "append", "evict"}
    BY <1>3 DEF BootDone, IdlePass, Wake, LeaveLoop, AppendBlock, Signal, TimerElapses, Tick,
                vars
  <2>. QED  BY <2>1, AsideOrder
<1>4. CASE BeginSeal
  <2>1. pc' = "drain" /\ pc = "check" /\ Pending' = Pending /\ byTxid' = byTxid
        /\ cursor' = cursor
    BY <1>4 DEF BeginSeal, mempoolVars, loopVars, Pending
  <2>2. cursor' = 0 /\ \A t \in Pending : byTxid[t] \in Nat
    BY <2>1 DEF OrderInv, Locked, IInv, TypeOK, MempoolTypeOK
  <2>. QED  BY <2>1, <2>2 DEF OrderInv, Locked
<1>5. CASE BeginCandidate
  <2>1. /\ pc' = "select" /\ pc = "check" /\ Pending' = Pending /\ byTxid' = byTxid
        /\ cursor' = 0 /\ shadow' = Credit(state, Miner, COINBASE_REWARD)
    BY <1>5 DEF BeginCandidate, mempoolVars, Pending
  <2>2. \A t \in Pending : byTxid[t] \in Nat
    BY DEF IInv, TypeOK, MempoolTypeOK
  <2>3. ASSUME NEW t \in Pending PROVE Selectable(t)'
    <3>1. Passes(state, t)
      <4>1. work = state /\ Included = {}
        BY <2>1 DEF IInv, CallInv, Included
      <4>. QED  BY <4>1, GateSame DEF IInv, PendingConnectable
    <3>2. /\ t.from \in Acct /\ t.amount \in Nat /\ state \in Accounts
          /\ Miner \in Acct /\ COINBASE_REWARD \in Nat
      BY TxNodeAssumption, LedgerAssumption
         DEF IInv, TypeOK, ChainTypeOK, MempoolTypeOK, Txn, Acct
    <3>3. /\ shadow'[t.from].nonce = state[t.from].nonce
          /\ shadow'[t.from].balance = state[t.from].balance
               + IF t.from = Miner THEN COINBASE_REWARD ELSE 0
      BY <2>1, <3>2 DEF Credit, Accounts, AccountState
    <3>4. state[t.from].balance \in Nat
      BY <3>2 DEF Accounts, AccountState
    <3>. QED  BY <3>1, <3>2, <3>3, <3>4 DEF Passes, Selectable
  <2>. QED  BY <2>1, <2>2, <2>3 DEF OrderInv, Locked
<1>6. CASE DrainTxn \/ SelectTxn
  BY <1>6, CollectOrder
<1>7. CASE SealNextBlock
  <2>1. CASE pc' = "connect"
    <3>1. pc = "drain" /\ UNCHANGED <<mempoolVars, loopVars>> /\ Difficulty = 0
      BY <1>7, <2>1 DEF SealNextBlock, LoopEnd, IInv, LoopInv
    <3>2. InHand' = draft /\ Oldest(draft)
      BY <3>1, CollectedIsOldest DEF InHand, loopVars
    <3>. QED  BY <2>1, <3>1, <3>2 DEF OrderInv, Locked, Oldest, Elems, mempoolVars, Pending
  <2>2. CASE pc' # "connect"
    BY <1>7, <2>2, EndOrder DEF SealNextBlock, LoopEnd, FreshLoop, Locked
  <2>. QED  BY <2>1, <2>2
<1>8. CASE CandidateBuilt
  <2>1. pc = "select" /\ pc' = "grind" /\ cand'.txns = draft /\ cursor' = 0
        /\ byTxid' = byTxid /\ Pending' = Pending
    BY <1>8 DEF CandidateBuilt, NextBlock, mempoolVars, Pending
  <2>2. Oldest(draft)
    BY <2>1, CollectedIsOldest
  <2>. QED  BY <2>1, <2>2 DEF OrderInv, Locked, Oldest, Elems
<1>9. CASE Mine
  <2>1. pc = "grind" /\ pc' = "mined" /\ cursor' = cursor
        /\ byTxid' = byTxid /\ Pending' = Pending
    BY <1>9 DEF Mine, mempoolVars, Pending
  <2>2. cand'.txns = cand.txns
    BY <1>9, MineKeepsBody DEF IInv
  <2>. QED  BY <2>1, <2>2 DEF OrderInv, Locked, Oldest, Elems
<1>10. CASE MinePreempted \/ Evict
  BY <1>10, EndOrder DEF MinePreempted, Evict, LoopEnd, FreshLoop, Locked
<1>11. CASE CommitMined
  <2>1. CASE pc' = "connect"
    <3>1. pc = "mined" /\ UNCHANGED <<mempoolVars, loopVars>> /\ Difficulty > 0
      BY <1>11, <2>1 DEF CommitMined, LoopEnd, IInv, LoopInv
    <3>2. InHand' = cand.txns /\ Oldest(cand.txns)
      BY <3>1 DEF InHand, loopVars, OrderInv
    <3>. QED  BY <2>1, <3>1, <3>2 DEF OrderInv, Locked, Oldest, Elems, mempoolVars, Pending
  <2>2. CASE pc' # "connect"
    BY <1>11, <2>2, EndOrder DEF CommitMined, LoopEnd, FreshLoop, Locked
  <2>. QED  BY <2>1, <2>2
<1>12. CASE Connect
  <2>1. CASE pc' \in {"connect", "append"}
    <3>1. pc = "connect" /\ UNCHANGED <<mempoolVars, loopVars>>
      BY <1>12, <2>1 DEF Connect, LoopEnd
    <3>. QED  BY <2>1, <3>1, AsideOrder
  <2>2. CASE pc' \notin {"connect", "append"}
    BY <1>12, <2>2, EndOrder DEF Connect, LoopEnd, FreshLoop, Locked
  <2>. QED  BY <2>1, <2>2
<1>13. CASE SubmitTx
  <2>1. pc \in Unlocked /\ pc' = pc /\ cursor' = cursor /\ cand' = cand
    BY <1>13 DEF SubmitTx, loopVars
  <2>2. PICK t \in Txns : Admit(t, state)
    BY <1>13 DEF SubmitTx
  <2>3. \/ byTxid' = byTxid
        \/ /\ t \notin Pending /\ Pending' = Pending \cup {t} /\ byTxid'[t] = next_seq
           /\ \A u \in Pending : byTxid'[u] = byTxid[u]
    <3>1. CASE AdmitResult(t, state) = "OK"
      <4>1. t \notin Pending
        BY <3>1 DEF AdmitResult
      <4>. QED  BY <2>2, <3>1, <4>1 DEF Admit, Put, Pending
    <3>2. CASE AdmitResult(t, state) # "OK"
      BY <2>2, <3>2 DEF Admit, mempoolVars
    <3>. QED  BY <3>1, <3>2
  <2>4. ASSUME pc \in {"grind", "mined"} PROVE Oldest(cand.txns)'
    <3>1. Oldest(cand.txns) /\ IsBatch(cand.txns, cand.header.index)
      BY <2>4 DEF OrderInv, IInv, LoopInv
    <3>2. \A u \in Pending : byTxid[u] < next_seq
      BY DEF IInv, IndexesAgree
    <3>3. CASE byTxid' = byTxid
      BY <2>1, <3>1, <3>3 DEF Oldest, Elems, Pending
    <3>4. CASE /\ t \notin Pending /\ Pending' = Pending \cup {t} /\ byTxid'[t] = next_seq
               /\ \A u \in Pending : byTxid'[u] = byTxid[u]
      <4>1. t \notin Elems(cand.txns)
        <5>1. \A i \in 1 .. Len(cand.txns) :
                cand.txns[i] \in Pending \/ cand.txns[i].from = NullAddr
          BY <3>1 DEF IsBatch, CoinbaseTxn
        <5>2. t.from # NullAddr
          <6>1. IInv'
            BY IInvStep
          <6>. QED  BY <3>4, <6>1 DEF IInv, PendingInv
        <5>. QED  BY <3>4, <5>1, <5>2 DEF Elems
      <4>. QED  BY <2>1, <3>1, <3>2, <3>4, <4>1 DEF Oldest, Elems
    <3>. QED  BY <2>3, <3>3, <3>4
  <2>. QED  BY <2>1, <2>4 DEF OrderInv, Locked, Unlocked
<1>. QED
  BY <1>1, <1>2, <1>3, <1>4, <1>5, <1>6, <1>7, <1>8, <1>9, <1>10, <1>11, <1>12, <1>13
     DEF Next, Loop

(* Only evictIncluded takes transactions out of the mempool of a process    *)
(* that stays up, and it takes the batch in hand.                           *)
LEMMA OldestLeave ==
  ASSUME IInv, OrderInv, [Next]_vars, pc' \in Up,
         NEW t \in Pending \ Pending', NEW u \in Pending \cap Pending'
  PROVE  byTxid[t] < byTxid[u]
<1>1. CASE Evict
  <2>1. pc = "evict" /\ EvictIncluded(Leaving)
    BY <1>1 DEF Evict, Leaving
  <2>2. Pending' = Pending \ {Leaving[i] : i \in 1 .. Len(Leaving)}
    BY <2>1, EvictIndexes DEF IInv, TypeOK
  <2>3. t \in Elems(InHand)
    <3>1. {Leaving[i] : i \in 1 .. Len(Leaving)} \subseteq Elems(InHand)
      <4>1. CASE Difficulty = 0
        BY <4>1 DEF Leaving, InHand, Elems
      <4>2. CASE Difficulty # 0
        <5>1. InHand = cand.txns /\ Leaving = Tail(cand.txns) /\ cand.txns \in Seq(Txn)
          BY <4>2 DEF InHand, Leaving, IInv, TypeOK, Block
        <5>2. Len(cand.txns) >= 1
          BY <2>1, <4>2, <5>1, DifficultyAssumption DEF IInv, LoopInv, IsBatch
        <5>3. \A i \in 1 .. Len(Leaving) : i + 1 \in 1 .. Len(cand.txns) /\ Leaving[i] = cand.txns[i + 1]
          BY <5>1, <5>2
        <5>. QED  BY <5>1, <5>3 DEF Elems
      <4>. QED  BY <4>1, <4>2
    <3>. QED  BY <2>2, <3>1
  <2>4. u \notin Elems(InHand)
    <3>1. Elems(InHand) = Included
      BY <2>1 DEF IInv, LoopInv, Included, Elems
    <3>2. \A x \in Pending : x \in Included => x \in {Leaving[i] : i \in 1 .. Len(Leaving)}
      BY <2>1, EvictTakesIncluded
    <3>. QED  BY <2>2, <3>1, <3>2
  <2>. QED  BY <2>1, <2>3, <2>4 DEF OrderInv, Oldest
<1>2. CASE ~Evict
  <2>1. CASE Boot \/ Exit \/ Crash
    BY <2>1 DEF Boot, Exit, Crash, Up, Locked, Unlocked
  <2>2. CASE SubmitTx
    <3>1. PICK x \in Txns : Admit(x, state)
      BY <2>2 DEF SubmitTx
    <3>2. Pending \subseteq Pending'
      BY <3>1 DEF Admit, Put, mempoolVars, Pending
    <3>. QED  BY <3>2
  <2>3. CASE ~(Boot \/ Exit \/ Crash \/ SubmitTx)
    <3>1. UNCHANGED mempoolVars
      BY <1>2, <2>3 DEF Next, BootConnect, BootDone, Loop, Signal, TimerElapses, Tick,
         BeginSeal, IdlePass, Wake, DrainTxn, SealNextBlock, BeginCandidate, SelectTxn,
         CandidateBuilt, Mine, MinePreempted, CommitMined, Connect, AppendBlock,
         LeaveLoop, vars
    <3>. QED  BY <3>1 DEF mempoolVars, Pending
  <2>. QED  BY <2>1, <2>2, <2>3
<1>. QED  BY <1>1, <1>2

(* Transactions leave the mempool of a running node in the order they were  *)
(* admitted, in both modes and for any mempool: the greedy selection of PoW *)
(* mode never skips one, and what is admitted while a candidate is ground   *)
(* waits for the next (main.cpp, candidate.cpp).                            *)
THEOREM OldestLeaveFirst == Spec => OldestFirst
<1>1. Init => IInv /\ OrderInv
  <2>1. ASSUME Init PROVE OrderInv
    BY <2>1 DEF Init, OrderInv, Locked
  <2>. QED  BY <2>1, IInvInit
<1>2. IInv /\ OrderInv /\ [Next]_vars => (IInv /\ OrderInv)'
  BY IInvStep, OrderStep
<1>3. IInv /\ OrderInv /\ [Next]_vars =>
        [pc' \in Up => \A t \in Pending \ Pending' : \A u \in Pending \cap Pending' :
           byTxid[t] < byTxid[u]]_vars
  BY OldestLeave
<1>. QED  BY <1>1, <1>2, <1>3, PTL DEF Spec, OldestFirst

-----------------------------------------------------------------------------
(* chain.jsonl holds what the node shows: the file loads to the chain in    *)
(* memory whenever node_mtx is free, no transfer enters the chain twice,    *)
(* and the file implements the append-only ledger, through every crash and  *)
(* restart; and the node always starts again from it.                       *)

(* What the theorems ask of the disk: appendBlock does not fail, and a      *)
(* crash inside it leaves its line whole, torn or not at all, but never     *)
(* whole without its newline.                                               *)
DiskHonest ==
  /\ AppendFaults \cup GenesisFaults \subseteq {"all"}
  /\ CrashExtents \subseteq {"all", "nothing", "torn"}

(* ... and of the clients: nobody pays himself.                             *)
NoSelfTransfer == \A t \in Txns : t.from # t.to

-----------------------------------------------------------------------------
(* What a step does to the chain in memory and on disk, whatever else it    *)
(* does.                                                                    *)

Settled == Up \ {"append"}

Quiet ==
  /\ UNCHANGED <<chainVars, callVars, file>>
  /\ \/ pc' = pc
     \/ pc \in Settled /\ pc' \in Settled
     \/ pc = "boot" /\ ~calling /\ Len(blocks) = Len(file) /\ pc' = "check"

Restart ==
  /\ FreshMemory
  /\ file' = file
  /\ pc' \in {"genesis", "boot", "down", "refused"}
  /\ pc' = "genesis" => file = <<>>
  /\ pc' = "boot" => file # <<>> /\ LoadOK /\ Loaded[1] = GenesisBlock

DiesWriting ==
  /\ pc \in {"append", "genesis"} /\ pc' = "down"
  /\ FreshMemory
  /\ \E extent \in {"nothing"} \cup CrashExtents :
       file' = Written(blocks[Len(blocks)], extent)

Writes ==
  /\ pc \in {"append", "genesis"} /\ pc' \in Settled
  /\ UNCHANGED <<chainVars, callVars>>
  /\ \E extent \in {"all"} \cup AppendFaults \cup GenesisFaults :
       file' = Written(blocks[Len(blocks)], extent)

Offers(b) ==
  /\ ConnectCall(b)
  /\ file' = file
  /\ \/ pc \in Settled /\ pc' \in Settled
     \/ /\ pc = "boot" /\ pc' \in {"boot", "refused"}
        /\ Len(blocks) < Len(file)
        /\ b = Loaded[Len(blocks) + 1]

Advances ==
  /\ ConnectStep
  /\ file' = file
  /\ \/ pc = "connect" /\ pc' = "append" /\ ret' = "OK"
     \/ pc = "connect" /\ pc' \in Settled /\ ret' # "OK"
     \/ pc = "boot" /\ pc' \in {"boot", "refused"}

(* Every step is one of these.                                              *)
LEMMA StepKinds ==
  ASSUME [Next]_vars, TypeOK
  PROVE  Quiet \/ Restart \/ DiesWriting \/ Writes \/ (\E b \in Block : Offers(b)) \/ Advances
<1>. USE DEF Settled, Up, Locked, Unlocked
<1>1. CASE Boot
  <2>1. /\ FreshMemory /\ file' = file /\ pc' \in {"genesis", "boot", "refused"}
        /\ pc' = "genesis" => file = <<>>
        /\ pc' = "boot" => file # <<>> /\ LoadOK /\ Loaded[1] = GenesisBlock
    BY <1>1 DEF Boot
  <2>. QED  BY <2>1 DEF Restart
<1>2. CASE Exit
  <2>1. FreshMemory /\ file' = file /\ pc' = "down"
    BY <1>2 DEF Exit
  <2>. QED  BY <2>1 DEF Restart
<1>3. CASE Crash
  <2>1. FreshMemory /\ pc' = "down"
    BY <1>3 DEF Crash
  <2>2. CASE pc \in {"append", "genesis"}
    <3>1. \E extent \in {"nothing"} \cup CrashExtents :
            file' = Written(blocks[Len(blocks)], extent)
      BY <1>3, <2>2 DEF Crash
    <3>. QED  BY <2>1, <2>2, <3>1 DEF DiesWriting
  <2>3. CASE pc \notin {"append", "genesis"}
    <3>1. file' = file
      BY <1>3, <2>3 DEF Crash
    <3>. QED  BY <2>1, <3>1 DEF Restart
  <2>. QED  BY <2>2, <2>3
<1>4. CASE BootConnect
  <2>1. pc = "boot" /\ pc' \in {"boot", "refused"} /\ file' = file
    BY <1>4 DEF BootConnect
  <2>2. CASE ConnectStep
    BY <2>1, <2>2 DEF Advances
  <2>3. CASE Len(blocks) < Len(file) /\ ConnectCall(Loaded[Len(blocks) + 1])
    <3>1. Len(blocks) + 1 \in 1 .. Len(file) /\ file \in Seq(Line)
      BY <2>3 DEF TypeOK, ChainTypeOK
    <3>2. Loaded[Len(blocks) + 1] = file[Len(blocks) + 1].block
      BY <3>1 DEF Loaded
    <3>3. file[Len(blocks) + 1] \in Line
      BY <3>1
    <3>4. Loaded[Len(blocks) + 1] \in Block
      BY <3>2, <3>3 DEF Line
    <3>. QED  BY <2>1, <2>3, <3>4 DEF Offers
  <2>. QED  BY <1>4, <2>2, <2>3 DEF BootConnect
<1>5. CASE BootDone
  BY <1>5 DEF BootDone, Quiet
<1>6. CASE SubmitTx \/ Signal \/ TimerElapses \/ Tick \/ UNCHANGED vars
  <2>1. UNCHANGED <<chainVars, callVars, file, pc>>
    BY <1>6 DEF SubmitTx, Signal, TimerElapses, Tick, vars
  <2>. QED  BY <2>1 DEF Quiet
<1>7. CASE SealNextBlock
  <2>1. /\ pc = "drain" /\ pc' \in {"connect", "sleep", "check"} /\ file' = file
        /\ ConnectCall(NextBlock(draft, "zero"))
    BY <1>7 DEF SealNextBlock, LoopEnd
  <2>2. NextBlock(draft, "zero") \in Block
    BY NextBlockType DEF TypeOK, PowNonce
  <2>. QED  BY <2>1, <2>2 DEF Offers
<1>8. CASE CommitMined
  <2>1. pc = "mined" /\ pc' \in {"connect", "sleep", "check"} /\ file' = file
    BY <1>8 DEF CommitMined, LoopEnd
  <2>2. CASE TipUnmoved
    <3>1. ConnectCall(cand) /\ cand \in Block
      BY <1>8, <2>2 DEF CommitMined, TypeOK
    <3>. QED  BY <2>1, <3>1 DEF Offers
  <2>3. CASE ~TipUnmoved
    <3>1. UNCHANGED <<chainVars, callVars>>
      BY <1>8, <2>3 DEF CommitMined
    <3>. QED  BY <2>1, <3>1 DEF Quiet
  <2>. QED  BY <2>2, <2>3
<1>9. CASE Connect
  <2>1. /\ pc = "connect" /\ ConnectStep /\ file' = file
        /\ \/ pc' = "append" /\ ret' = "OK"
           \/ pc' \in {"connect", "sleep", "check"} /\ ret' # "OK"
    BY <1>9 DEF Connect, LoopEnd
  <2>. QED  BY <2>1 DEF Advances
<1>10. CASE AppendBlock
  <2>1. /\ pc \in {"append", "genesis"} /\ pc' \in {"evict", "check"}
        /\ UNCHANGED <<chainVars, callVars>>
        /\ \E extent \in {"all"} \cup AppendFaults \cup GenesisFaults :
             file' = Written(blocks[Len(blocks)], extent)
    BY <1>10 DEF AppendBlock
  <2>. QED  BY <2>1 DEF Writes
<1>11. CASE \/ BeginSeal \/ IdlePass \/ Wake \/ DrainTxn \/ BeginCandidate \/ SelectTxn
            \/ CandidateBuilt \/ Mine \/ MinePreempted \/ Evict \/ LeaveLoop
  <2>1. /\ UNCHANGED <<chainVars, callVars, file>>
        /\ pc \in {"check", "sleep", "drain", "select", "grind", "evict"}
        /\ pc' \in {"check", "sleep", "drain", "select", "grind", "mined", "stopping"}
    BY <1>11 DEF BeginSeal, IdlePass, Wake, DrainTxn, BeginCandidate, SelectTxn,
                 CandidateBuilt, Mine, MinePreempted, Evict, LeaveLoop, LoopEnd
  <2>. QED  BY <2>1 DEF Quiet
<1>. QED
  BY <1>1, <1>2, <1>3, <1>4, <1>5, <1>6, <1>7, <1>8, <1>9, <1>10, <1>11 DEF Next, Loop

(* What a step of connectBlock does: it refuses, applies one transaction,   *)
(* or commits.                                                              *)
LEMMA ConnectStepKinds ==
  ASSUME ConnectStep, CallInv
  PROVE  /\ calling /\ ret = "none"
         /\ \/ \E r : r # "OK" /\ Refuse(r)
            \/ /\ ConnectTxn /\ calling' = calling /\ cb' = cb /\ ret' = ret
               /\ blocks' = blocks /\ state' = state
               /\ ti < Len(cb.txns) /\ ti' = ti + 1
               /\ BlockTxnReason(work, cb.txns[ti + 1], cb.header.index, ti, coinbase_count) = "OK"
               /\ work' = ApplyTxn(work, cb.txns[ti + 1])
            \/ /\ ti = Len(cb.txns) /\ ret' = "OK" /\ calling' = FALSE
               /\ state' = work /\ work' = work /\ blocks' = Append(blocks, cb)
<1>1. calling /\ ret = "none"
  BY DEF ConnectStep, ConnectTxn, ConnectReturn, CallInv
<1>2. CASE ConnectTxn
  BY <1>1, <1>2 DEF ConnectTxn, chainVars
<1>3. CASE ConnectReturn
  BY <1>1, <1>3 DEF ConnectReturn
<1>. QED  BY <1>1, <1>2, <1>3 DEF ConnectStep

(* What a call does: it refuses the header or starts on a block that        *)
(* follows the tip.                                                         *)
LEMMA ConnectCallKinds ==
  ASSUME NEW b, ConnectCall(b)
  PROVE  /\ ~calling
         /\ \/ \E r : r # "OK" /\ Refuse(r)
            \/ /\ calling' = TRUE /\ cb' = b /\ work' = state /\ ti' = 0 /\ ret' = "none"
               /\ blocks' = blocks /\ state' = state
               /\ b.header.index = Height + 1
               /\ b.header.prevHash = TipHash
               /\ ~(b.header.timestamp <= Tip.timestamp)
BY DEF ConnectCall, HeaderReason, TipHash, chainVars

-----------------------------------------------------------------------------
(* The file and the chain in memory.                                        *)

(* The first n blocks of the file are the first n in memory.                *)
SameUpTo(n) == \A i \in 1 .. n : file[i].block = blocks[i]

(* Boot walks along a file that is never shorter than the chain; the loop   *)
(* has written all of the chain, but for the last block where appendBlock   *)
(* is due.  A running process has loaded its file, and only a torn line     *)
(* lacks its newline, so that an append always starts a line of its own.    *)
FileInv ==
  /\ pc = "genesis" => file = <<>> /\ blocks = <<GenesisBlock>>
  /\ pc = "boot" => Len(blocks) <= Len(file) /\ SameUpTo(Len(blocks))
  /\ pc = "boot" /\ calling => Len(blocks) < Len(file) /\ cb = file[Len(blocks) + 1].block
  /\ pc \in Settled => Len(blocks) = Len(file) /\ SameUpTo(Len(file))
  /\ pc = "append" => Len(blocks) = Len(file) + 1 /\ SameUpTo(Len(file))
  /\ pc \in Running => LoadOK
  /\ \A i \in 1 .. Len(file) : file[i].ok => file[i].eol

(* A write into a file that loads adds a line, or nothing.                  *)
LEMMA WriteAddsLine ==
  ASSUME FileInv, TypeOK, pc \in {"append", "genesis"}, NEW b, NEW extent
  PROVE  Written(b, extent) =
           IF extent = "nothing" THEN file
           ELSE Append(file, [ok |-> extent # "torn", block |-> b, eol |-> (extent = "all")])
<1>1. LoadOK /\ file \in Seq(Line)
  BY DEF FileInv, Running, Up, Locked, TypeOK
<1>2. file # <<>> => file[Len(file)].eol
  <2>1. ASSUME file # <<>> PROVE Len(file) \in 1 .. Len(file)
    BY <1>1, <2>1
  <2>. QED  BY <1>1, <2>1 DEF FileInv, LoadOK
<1>. QED  BY <1>2 DEF Written

(* Every step keeps the file behind the chain.                              *)
LEMMA FileStep ==
  ASSUME DiskHonest, TypeOK, TypeOK', CallInv, FileInv, [Next]_vars
  PROVE  FileInv'
<1>0. /\ file \in Seq(Line) /\ blocks \in Seq(Block) /\ Len(blocks) \in Nat /\ Len(file) \in Nat
      /\ Len(blocks) >= 1
  BY DEF TypeOK, ChainTypeOK
<1>. USE DEF Settled, Up, Locked, Unlocked, Running
<1>1. CASE Quiet
  <2>1. blocks' = blocks /\ file' = file /\ calling' = calling /\ cb' = cb
    BY <1>1 DEF Quiet, chainVars, callVars
  <2>2. LoadOK' = LoadOK /\ \A n : SameUpTo(n)' <=> SameUpTo(n)
    BY <2>1 DEF LoadOK, SameUpTo
  <2>3. CASE pc' = pc
    BY <2>1, <2>2, <2>3 DEF FileInv, SameUpTo
  <2>4. CASE pc \in Settled /\ pc' \in Settled
    BY <2>1, <2>2, <2>4 DEF FileInv, SameUpTo
  <2>5. CASE pc = "boot" /\ ~calling /\ Len(blocks) = Len(file) /\ pc' = "check"
    BY <2>1, <2>2, <2>5 DEF FileInv, SameUpTo
  <2>. QED  BY <1>1, <2>3, <2>4, <2>5 DEF Quiet
<1>2. CASE Restart
  <2>1. blocks' = <<GenesisBlock>> /\ calling' = FALSE /\ file' = file
    BY <1>2 DEF Restart, FreshMemory
  <2>2. ASSUME pc' = "boot" PROVE Len(file) >= 1 /\ file[1].block = GenesisBlock
    <3>1. file # <<>> /\ Loaded[1] = GenesisBlock
      BY <1>2, <2>2 DEF Restart
    <3>2. 1 \in 1 .. Len(file)
      BY <1>0, <3>1
    <3>. QED  BY <3>1, <3>2 DEF Loaded
  <2>3. ASSUME pc' \in {"genesis", "boot"} PROVE LoadOK'
    BY <1>0, <1>2, <2>1, <2>3 DEF Restart, LoadOK
  <2>4. pc' \in {"genesis", "boot", "down", "refused"} /\ (pc' = "genesis" => file = <<>>)
    BY <1>2 DEF Restart
  <2>5. Len(blocks') = 1 /\ blocks'[1] = GenesisBlock
    BY <2>1
  <2>6. pc' = "boot" => SameUpTo(Len(blocks))'
    BY <2>1, <2>2, <2>5 DEF SameUpTo
  <2>. QED  BY <2>1, <2>2, <2>3, <2>4, <2>5, <2>6 DEF FileInv
<1>3. CASE DiesWriting
  <2>1. PICK extent \in {"nothing"} \cup CrashExtents :
          file' = Written(blocks[Len(blocks)], extent)
    BY <1>3 DEF DiesWriting
  <2>2. extent \in {"all", "nothing", "torn"}
    BY DEF DiskHonest
  <2>3. pc' = "down" /\ pc \in {"append", "genesis"}
    BY <1>3 DEF DiesWriting
  <2>. DEFINE line == [ok |-> extent # "torn", block |-> blocks[Len(blocks)],
                       eol |-> (extent = "all")]
  <2>4. file' = file \/ file' = Append(file, line)
    BY <2>1, <2>3, WriteAddsLine
  <2>6. line.ok = (extent # "torn") /\ line.eol = (extent = "all")
    OBVIOUS
  <2>7. extent # "nothing" => (line.ok => line.eol)
    BY <2>2, <2>6
  <2>8. extent = "nothing" => file' = file
    BY <2>1 DEF Written
  <2>. HIDE DEF line
  <2>5. \A i \in 1 .. Len(file') : file'[i].ok => file'[i].eol
    <3>1. CASE file' = file
      BY <3>1 DEF FileInv
    <3>2. CASE extent # "nothing" /\ file' = Append(file, line)
      <4>1. Len(file') = Len(file) + 1 /\ file'[Len(file) + 1] = line
            /\ \A i \in 1 .. Len(file) : file'[i] = file[i]
        BY <1>0, <3>2
      <4>. QED  BY <1>0, <2>7, <3>2, <4>1 DEF FileInv
    <3>. QED  BY <2>4, <2>8, <3>1, <3>2
  <2>. QED  BY <2>3, <2>5 DEF FileInv
<1>4. CASE Writes
  <2>1. PICK extent \in {"all"} \cup AppendFaults \cup GenesisFaults :
          file' = Written(blocks[Len(blocks)], extent)
    BY <1>4 DEF Writes
  <2>2. extent = "all"
    BY DEF DiskHonest
  <2>3. /\ pc' \in Settled /\ pc \in {"append", "genesis"} /\ blocks' = blocks
    BY <1>4 DEF Writes, chainVars
  <2>. DEFINE line == [ok |-> TRUE, block |-> blocks[Len(blocks)], eol |-> TRUE]
  <2>4. file' = Append(file, line)
    BY <2>1, <2>2, <2>3, WriteAddsLine
  <2>5. Len(file') = Len(file) + 1 /\ file'[Len(file) + 1] = line
        /\ \A i \in 1 .. Len(file) : file'[i] = file[i]
    BY <1>0, <2>4
  <2>6. \A i \in 1 .. Len(file') : file'[i].ok /\ file'[i].eol
    <3>1. LoadOK
      BY <2>3 DEF FileInv
    <3>. QED  BY <1>0, <2>5, <3>1 DEF FileInv, LoadOK
  <2>7. Len(blocks) = Len(file) + 1 /\ SameUpTo(Len(file))
    <3>1. CASE pc = "append"
      BY <3>1 DEF FileInv
    <3>2. CASE pc = "genesis"
      <4>1. Len(file) = 0 /\ Len(blocks) = 1
        BY <3>2 DEF FileInv
      <4>. QED  BY <4>1 DEF SameUpTo
    <3>. QED  BY <2>3, <3>1, <3>2
  <2>8. Len(blocks') = Len(file') /\ SameUpTo(Len(file))'
    BY <1>0, <2>3, <2>5, <2>7 DEF SameUpTo
  <2>. QED  BY <2>3, <2>6, <2>8 DEF FileInv, LoadOK
<1>5. ASSUME NEW b \in Block, Offers(b) PROVE FileInv'
  <2>1. file' = file /\ blocks' = blocks /\ ~calling
        /\ (calling' = FALSE \/ cb' = b)
    BY <1>5, ConnectCallKinds DEF Offers, Refuse, chainVars
  <2>2. LoadOK' = LoadOK /\ \A n : SameUpTo(n)' <=> SameUpTo(n)
    BY <2>1 DEF LoadOK, SameUpTo
  <2>3. CASE pc \in Settled /\ pc' \in Settled
    BY <2>1, <2>2, <2>3 DEF FileInv, SameUpTo
  <2>4. CASE pc = "boot" /\ pc' \in {"boot", "refused"} /\ Len(blocks) < Len(file)
             /\ b = Loaded[Len(blocks) + 1]
    <3>1. b = file[Len(blocks) + 1].block
      BY <1>0, <2>4 DEF Loaded
    <3>. QED  BY <2>1, <2>2, <2>4, <3>1 DEF FileInv, SameUpTo
  <2>. QED  BY <1>5, <2>3, <2>4 DEF Offers
<1>6. CASE Advances
  <2>1. calling /\ file' = file /\ LoadOK' = LoadOK
    BY <1>6, ConnectStepKinds DEF Advances, LoadOK
  <2>2. \/ blocks' = blocks /\ ret' # "OK" /\ (calling' = FALSE \/ cb' = cb)
        \/ blocks' = Append(blocks, cb) /\ ret' = "OK" /\ calling' = FALSE
    BY <1>6, ConnectStepKinds DEF Advances, Refuse, chainVars
  <2>3. CASE pc = "connect"
    <3>1. Len(blocks) = Len(file) /\ SameUpTo(Len(file)) /\ LoadOK
      BY <2>3 DEF FileInv
    <3>2. CASE pc' = "append" /\ ret' = "OK"
      <4>1. blocks' = Append(blocks, cb)
        BY <2>2, <3>2
      <4>2. Len(blocks') = Len(blocks) + 1 /\ \A i \in 1 .. Len(blocks) : blocks'[i] = blocks[i]
        BY <1>0, <4>1
      <4>3. SameUpTo(Len(file))'
        BY <2>1, <3>1, <4>2 DEF SameUpTo
      <4>. QED  BY <2>1, <3>1, <3>2, <4>2, <4>3 DEF FileInv
    <3>3. CASE pc' \in Settled /\ ret' # "OK"
      <4>1. blocks' = blocks
        BY <2>2, <3>3
      <4>. QED  BY <2>1, <3>1, <3>3, <4>1 DEF FileInv, SameUpTo
    <3>. QED  BY <1>6, <2>3, <3>2, <3>3 DEF Advances
  <2>4. CASE pc = "boot" /\ pc' \in {"boot", "refused"}
    <3>1. Len(blocks) < Len(file) /\ cb = file[Len(blocks) + 1].block
          /\ SameUpTo(Len(blocks)) /\ LoadOK
      BY <2>1, <2>4 DEF FileInv
    <3>2. CASE blocks' = blocks /\ (calling' = FALSE \/ cb' = cb)
      BY <2>1, <2>4, <3>1, <3>2 DEF FileInv, SameUpTo
    <3>3. CASE blocks' = Append(blocks, cb) /\ calling' = FALSE
      <4>1. Len(blocks') = Len(blocks) + 1 /\ blocks'[Len(blocks) + 1] = cb
            /\ \A i \in 1 .. Len(blocks) : blocks'[i] = blocks[i]
        BY <1>0, <3>3
      <4>2. SameUpTo(Len(blocks))'
        BY <1>0, <2>1, <3>1, <4>1 DEF SameUpTo
      <4>. QED  BY <1>0, <2>1, <2>4, <3>1, <3>3, <4>1, <4>2 DEF FileInv
    <3>. QED  BY <2>2, <3>2, <3>3
  <2>. QED  BY <1>6, <2>3, <2>4 DEF Advances
<1>. QED  BY <1>1, <1>2, <1>3, <1>4, <1>5, <1>6, StepKinds

(* Where the lock is free, the file is the chain.                           *)
LEMMA SettledIsSaved ==
  ASSUME TypeOK, FileInv
  PROVE  VisibleIsDurable
<1>. SUFFICES ASSUME pc \in Unlocked PROVE LoadOK /\ Loaded = blocks
  BY DEF VisibleIsDurable
<1>1. Len(blocks) = Len(file) /\ SameUpTo(Len(file)) /\ LoadOK
  BY DEF FileInv, Settled, Running, Up, Unlocked
<1>2. blocks \in Seq(Block)
  BY DEF TypeOK, ChainTypeOK
<1>3. Loaded = blocks
  BY <1>1, <1>2 DEF Loaded, SameUpTo
<1>. QED  BY <1>1, <1>3

LEMMA FileInit == Init => FileInv
BY DEF Init, FileInv, Settled, Up, Locked, Unlocked, Running

(* What RPC can show is on disk (node.hpp, "tip advanced + durable"): in    *)
(* every reachable state of a node whose appendBlock does not fail, with    *)
(* any crashes and restarts, whenever node_mtx is free the file loads to    *)
(* exactly the chain in memory.                                             *)
THEOREM VisibleStaysDurable == DiskHonest => (Spec => []VisibleIsDurable)
<1>. SUFFICES ASSUME DiskHonest PROVE Spec => []VisibleIsDurable
  OBVIOUS
<1>1. Init => IInv /\ FileInv
  BY IInvInit, FileInit
<1>2. IInv /\ FileInv /\ [Next]_vars => (IInv /\ FileInv)'
  BY IInvStep, FileStep DEF IInv
<1>3. IInv /\ FileInv => VisibleIsDurable
  BY SettledIsSaved DEF IInv
<1>. QED  BY <1>1, <1>2, <1>3, PTL DEF Spec

-----------------------------------------------------------------------------
(* No transfer twice.                                                       *)

(* The account state has moved past the nonce of t.                         *)
Counted(t, w) == t.from # NullAddr => t.nonce < w[t.from].nonce

Plain(t) == t.from = NullAddr \/ t.from # t.to

(* What is pending was submitted, and what was written is a coinbase or     *)
(* moves coins between two accounts.                                        *)
PlainInv ==
  /\ Pending \subseteq Txns
  /\ \A i \in 1 .. Len(file) :
       \A k \in 1 .. Len(file[i].block.txns) : Plain(file[i].block.txns[k])

(* The nonces of the chain are used up, in the state and in the scratch     *)
(* copy of a call, and so are those of the block it has come past; none of  *)
(* these transfers is there twice.                                          *)
FreshInv ==
  /\ \A i \in 1 .. Len(blocks) : \A k \in 1 .. Len(blocks[i].txns) :
       Counted(blocks[i].txns[k], state) /\ Counted(blocks[i].txns[k], work)
  /\ calling =>
       /\ ti <= Len(cb.txns)
       /\ \A k \in 1 .. ti :
            /\ Counted(cb.txns[k], work)
            /\ cb.txns[k].from # NullAddr =>
                 /\ \A i \in 1 .. Len(blocks) : \A l \in 1 .. Len(blocks[i].txns) :
                      blocks[i].txns[l] # cb.txns[k]
                 /\ \A l \in 1 .. ti : cb.txns[l] = cb.txns[k] => l = k
  /\ NoDoubleInclusion

(* Applying a transaction uses up its nonce and gives none back: the gate   *)
(* lets it pass at exactly the sender's nonce, which goes up by one.        *)
LEMMA NonceUsedUp ==
  ASSUME NEW w \in Accounts, NEW u \in Txn, NEW i, NEW k, NEW c,
         BlockTxnReason(w, u, i, k, c) = "OK", Plain(u)
  PROVE  /\ Counted(u, ApplyTxn(w, u))
         /\ u.from # NullAddr => ~(u.nonce < w[u.from].nonce)
         /\ \A t \in Txn : Counted(t, w) => Counted(t, ApplyTxn(w, u))
<1>1. u.from \in Acct /\ u.to \in Acct /\ u.amount \in Nat
  BY DEF Txn
<1>2. \A a \in Acct : w[a].nonce \in Nat /\ w[a].balance \in Nat
  BY DEF Accounts, AccountState
<1>3. CASE u.from = NullAddr
  <2>1. \A a \in Acct : ApplyTxn(w, u)[a].nonce = w[a].nonce
    BY <1>1, <1>3 DEF ApplyTxn, Credit, Accounts, AccountState
  <2>. QED  BY <1>3, <2>1 DEF Counted, Txn
<1>4. CASE u.from # NullAddr
  <2>1. u.nonce = w[u.from].nonce /\ u.from # u.to
    BY <1>4, GateOK DEF BlockTxnReason, Plain
  <2>2. \A a \in Acct : ApplyTxn(w, u)[a].nonce = IF a = u.from THEN w[a].nonce + 1 ELSE w[a].nonce
    BY <1>1, <1>4, <2>1 DEF ApplyTxn, Accounts
  <2>3. \A t \in Txn : t.from \in Acct /\ t.nonce \in Nat
    BY DEF Txn
  <2>. QED  BY <1>1, <1>2, <2>1, <2>2, <2>3 DEF Counted
<1>. QED  BY <1>3, <1>4

(* Only POST /tx puts anything into the mempool.                            *)
LEMMA PendingGrows ==
  ASSUME TypeOK, IndexesAgree, [Next]_vars
  PROVE  Pending' \subseteq Pending \cup Txns
<1>1. CASE Boot \/ Exit \/ Crash
  BY <1>1, MempoolFresh DEF Boot, Exit, Crash
<1>2. CASE Evict
  <2>1. EvictIncluded(IF Difficulty = 0 THEN draft ELSE Tail(cand.txns))
    BY <1>2 DEF Evict
  <2>. QED  BY <2>1, EvictIndexes DEF TypeOK
<1>3. CASE SubmitTx
  <2>1. PICK t \in Txns : Admit(t, state)
    BY <1>3 DEF SubmitTx
  <2>. QED  BY <2>1 DEF Admit, Put, Pending, mempoolVars
<1>4. CASE ~(Boot \/ Exit \/ Crash \/ Evict \/ SubmitTx)
  <2>1. UNCHANGED mempoolVars
    BY <1>4 DEF Next, BootConnect, BootDone, Loop, Signal, TimerElapses, Tick,
       BeginSeal, IdlePass, Wake, DrainTxn, SealNextBlock, BeginCandidate, SelectTxn,
       CandidateBuilt, Mine, MinePreempted, CommitMined, Connect, AppendBlock,
       LeaveLoop, vars
  <2>. QED  BY <2>1, MempoolFrame
<1>. QED  BY <1>1, <1>2, <1>3, <1>4

(* A batch of the node's own is plain.                                      *)
LEMMA BatchPlain ==
  ASSUME NoSelfTransfer, Pending \subseteq Txns, NEW s, NEW index, IsBatch(s, index)
  PROVE  \A k \in 1 .. Len(s) : Plain(s[k])
BY DEF NoSelfTransfer, IsBatch, CoinbaseTxn, Plain

(* Whatever connectBlock is given is plain: boot reads it from the file.    *)
LEMMA CallPlain ==
  ASSUME NoSelfTransfer, IInv, FileInv, PlainInv, calling
  PROVE  \A k \in 1 .. Len(cb.txns) : Plain(cb.txns[k])
<1>1. pc \in {"connect", "boot"}
  BY DEF IInv, CallInv
<1>2. CASE pc = "connect"
  BY <1>2, BatchPlain DEF IInv, LoopInv, PlainInv
<1>3. CASE pc = "boot"
  <2>1. Len(blocks) < Len(file) /\ cb = file[Len(blocks) + 1].block
    BY <1>3 DEF FileInv
  <2>2. Len(blocks) + 1 \in 1 .. Len(file)
    BY <2>1 DEF IInv, TypeOK, ChainTypeOK
  <2>. QED  BY <2>1, <2>2 DEF PlainInv
<1>. QED  BY <1>1, <1>2, <1>3

LEMMA PlainStep ==
  ASSUME NoSelfTransfer, IInv, FileInv, PlainInv, [Next]_vars
  PROVE  PlainInv'
<1>1. Pending' \subseteq Txns
  BY PendingGrows DEF IInv, PlainInv
<1>2. CASE file' = file
  BY <1>1, <1>2 DEF PlainInv
<1>3. CASE DiesWriting \/ Writes
  <2>1. pc \in {"append", "genesis"} /\ \E extent : file' = Written(blocks[Len(blocks)], extent)
    BY <1>3 DEF DiesWriting, Writes
  <2>2. PICK line : line.block = blocks[Len(blocks)] /\ (file' = file \/ file' = Append(file, line))
    <3>1. PICK extent : file' = Written(blocks[Len(blocks)], extent)
      BY <2>1
    <3>. DEFINE l == [ok |-> extent # "torn", block |-> blocks[Len(blocks)],
                      eol |-> (extent = "all")]
    <3>2. file' = file \/ file' = Append(file, l)
      BY <2>1, <3>1, WriteAddsLine DEF IInv
    <3>3. l.block = blocks[Len(blocks)]
      OBVIOUS
    <3>. HIDE DEF l
    <3>. QED  BY <3>2, <3>3
  <2>3. CASE file' = Append(file, line)
    <3>1. file \in Seq(Line)
      BY DEF IInv, TypeOK
    <3>2. Len(file') = Len(file) + 1 /\ file'[Len(file) + 1] = line
          /\ \A i \in 1 .. Len(file) : file'[i] = file[i]
      BY <2>3, <3>1
    <3>3. \A k \in 1 .. Len(line.block.txns) : Plain(line.block.txns[k])
      <4>1. CASE pc = "append"
        BY <2>2, <4>1, BatchPlain DEF IInv, LoopInv, PlainInv
      <4>2. CASE pc = "genesis"
        <5>1. line.block = GenesisBlock
          <6>1. blocks = <<GenesisBlock>>
            BY <4>2 DEF FileInv
          <6>. QED  BY <2>2, <6>1
        <5>. QED  BY <5>1 DEF GenesisBlock
      <4>. QED  BY <2>1, <4>1, <4>2
    <3>. QED  BY <1>1, <3>1, <3>2, <3>3 DEF PlainInv
  <2>. QED  BY <1>2, <2>2, <2>3
<1>. QED  BY <1>2, <1>3, StepKinds DEF IInv, Quiet, Restart, Offers, Advances

(* Every step uses a nonce at most once.                                    *)
LEMMA FreshStep ==
  ASSUME NoSelfTransfer, IInv, FileInv, PlainInv, FreshInv, [Next]_vars
  PROVE  FreshInv'
<1>0. /\ blocks \in Seq(Block) /\ state \in Accounts /\ work \in Accounts /\ ti \in Nat
      /\ cb.txns \in Seq(Txn)
      /\ \A i \in 1 .. Len(blocks) : blocks[i].txns \in Seq(Txn)
  <2>1. blocks \in Seq(Block) /\ cb \in Block
    BY DEF IInv, TypeOK, ChainTypeOK
  <2>2. \A i \in 1 .. Len(blocks) : blocks[i] \in Block
    BY <2>1
  <2>3. \A b \in Block : b.txns \in Seq(Txn)
    BY DEF Block
  <2>. QED  BY <2>1, <2>2, <2>3 DEF IInv, TypeOK, ChainTypeOK
<1>1. CASE UNCHANGED <<chainVars, callVars>>
  <2>1. /\ blocks' = blocks /\ state' = state /\ work' = work
        /\ calling' = calling /\ cb' = cb /\ ti' = ti
    BY <1>1 DEF chainVars, callVars
  <2>2. NoDoubleInclusion'
    BY <2>1 DEF FreshInv, NoDoubleInclusion
  <2>. QED  BY <2>1, <2>2 DEF FreshInv
<1>2. CASE FreshMemory
  <2>1. blocks' = <<GenesisBlock>> /\ calling' = FALSE
    BY <1>2 DEF FreshMemory
  <2>2. Len(blocks') = 1 /\ blocks'[1].txns = <<>>
    BY <2>1 DEF GenesisBlock
  <2>. QED  BY <2>1, <2>2 DEF FreshInv, NoDoubleInclusion
<1>3. ASSUME blocks' = blocks, state' = state, work' = state,
             calling' = FALSE \/ (ti' = 0 /\ cb' \in Block)
      PROVE  FreshInv'
  <2>1. calling' => ti' <= Len(cb'.txns) /\ ti' = 0
    BY <1>3 DEF Block
  <2>. QED  BY <1>3, <2>1 DEF FreshInv, NoDoubleInclusion
<1>4. ASSUME NEW b \in Block, Offers(b) PROVE FreshInv'
  BY <1>3, <1>4, ConnectCallKinds DEF Offers, Refuse, chainVars
<1>5. CASE Advances
  <2>1. calling /\ ConnectStep /\ CallInv
    BY <1>5, ConnectStepKinds DEF Advances, IInv
  <2>2. \A k \in 1 .. Len(cb.txns) : Plain(cb.txns[k])
    BY <2>1, CallPlain
  <2>3. ASSUME NEW r, Refuse(r) PROVE FreshInv'
    BY <1>3, <2>3 DEF Refuse, chainVars
  <2>4. CASE /\ calling' = calling /\ cb' = cb /\ blocks' = blocks /\ state' = state
             /\ ti < Len(cb.txns) /\ ti' = ti + 1
             /\ BlockTxnReason(work, cb.txns[ti + 1], cb.header.index, ti, coinbase_count) = "OK"
             /\ work' = ApplyTxn(work, cb.txns[ti + 1])
    <3>. DEFINE u == cb.txns[ti + 1]
    <3>1. u \in Txn /\ Plain(u) /\ ti + 1 \in 1 .. Len(cb.txns)
      BY <1>0, <2>2, <2>4
    <3>2. /\ Counted(u, work')
          /\ u.from # NullAddr => ~(u.nonce < work[u.from].nonce)
          /\ \A t \in Txn : Counted(t, work) => Counted(t, work')
      BY <1>0, <2>4, <3>1, NonceUsedUp
    <3>. HIDE DEF u
    <3>3. \A i \in 1 .. Len(blocks) : \A k \in 1 .. Len(blocks[i].txns) :
            /\ Counted(blocks[i].txns[k], state) /\ Counted(blocks[i].txns[k], work')
            /\ u.from # NullAddr => blocks[i].txns[k] # u
      <4>. SUFFICES ASSUME NEW i \in 1 .. Len(blocks), NEW k \in 1 .. Len(blocks[i].txns)
                    PROVE  /\ Counted(blocks[i].txns[k], state)
                           /\ Counted(blocks[i].txns[k], work')
                           /\ u.from # NullAddr => blocks[i].txns[k] # u
        OBVIOUS
      <4>. DEFINE t == blocks[i].txns[k]
      <4>1. t \in Txn
        BY <1>0
      <4>2. Counted(t, state) /\ Counted(t, work)
        BY DEF FreshInv
      <4>. HIDE DEF t
      <4>3. u.from # NullAddr => t # u
        BY <3>2, <4>2 DEF Counted
      <4>4. Counted(t, work')
        BY <3>2, <4>1, <4>2
      <4>. QED  BY <4>2, <4>3, <4>4 DEF t
    <3>4. \A k \in 1 .. ti :
            /\ cb.txns[k] \in Txn /\ Counted(cb.txns[k], work)
            /\ cb.txns[k].from # NullAddr =>
                 /\ \A i \in 1 .. Len(blocks) : \A l \in 1 .. Len(blocks[i].txns) :
                      blocks[i].txns[l] # cb.txns[k]
                 /\ \A l \in 1 .. ti : cb.txns[l] = cb.txns[k] => l = k
      <4>1. \A k \in 1 .. ti : k \in 1 .. Len(cb.txns)
        BY <1>0, <2>4
      <4>2. \A k \in 1 .. ti : cb.txns[k] \in Txn
        BY <1>0, <4>1
      <4>. QED  BY <2>1, <4>2 DEF FreshInv
    <3>5. \A k \in 1 .. ti : Counted(cb.txns[k], work') /\ (u.from # NullAddr => cb.txns[k] # u)
      BY <3>2, <3>4 DEF Counted
    <3>6. \A k \in 1 .. ti + 1 :
            /\ Counted(cb.txns[k], work')
            /\ cb.txns[k].from # NullAddr =>
                 /\ \A i \in 1 .. Len(blocks) : \A l \in 1 .. Len(blocks[i].txns) :
                      blocks[i].txns[l] # cb.txns[k]
                 /\ \A l \in 1 .. ti + 1 : cb.txns[l] = cb.txns[k] => l = k
      <4>. SUFFICES ASSUME NEW k \in 1 .. ti + 1
                    PROVE  /\ Counted(cb.txns[k], work')
                           /\ cb.txns[k].from # NullAddr =>
                                /\ \A i \in 1 .. Len(blocks) : \A l \in 1 .. Len(blocks[i].txns) :
                                     blocks[i].txns[l] # cb.txns[k]
                                /\ \A l \in 1 .. ti + 1 : cb.txns[l] = cb.txns[k] => l = k
        OBVIOUS
      <4>1. CASE k = ti + 1
        <5>1. cb.txns[k] = u
          BY <4>1 DEF u
        <5>2. \A l \in 1 .. ti + 1 : l # ti + 1 => l \in 1 .. ti
          BY <1>0
        <5>. QED  BY <3>2, <3>3, <3>5, <4>1, <5>1, <5>2
      <4>2. CASE k # ti + 1
        <5>1. k \in 1 .. ti /\ \A l \in 1 .. ti + 1 : l # ti + 1 => l \in 1 .. ti
          BY <1>0, <4>2
        <5>2. cb.txns[k].from # NullAddr => cb.txns[ti + 1] # cb.txns[k]
          BY <3>5, <5>1 DEF u
        <5>. QED  BY <3>4, <3>5, <5>1, <5>2
      <4>. QED  BY <4>1, <4>2
    <3>. QED  BY <1>0, <2>4, <3>3, <3>6 DEF FreshInv, NoDoubleInclusion
  <2>5. CASE /\ ti = Len(cb.txns) /\ calling' = FALSE
             /\ state' = work /\ work' = work /\ blocks' = Append(blocks, cb)
    <3>1. Len(blocks') = Len(blocks) + 1 /\ blocks'[Len(blocks) + 1] = cb
          /\ \A i \in 1 .. Len(blocks) : blocks'[i] = blocks[i]
      BY <1>0, <2>5
    <3>2. Len(blocks) \in Nat
      BY <1>0
    <3>3. \A k \in 1 .. Len(cb.txns) :
            /\ Counted(cb.txns[k], work)
            /\ cb.txns[k].from # NullAddr =>
                 /\ \A i \in 1 .. Len(blocks) : \A l \in 1 .. Len(blocks[i].txns) :
                      blocks[i].txns[l] # cb.txns[k]
                 /\ \A l \in 1 .. Len(cb.txns) : cb.txns[l] = cb.txns[k] => l = k
      BY <2>1, <2>5 DEF FreshInv
    <3>4. \A i \in 1 .. Len(blocks') : \A k \in 1 .. Len(blocks'[i].txns) :
            Counted(blocks'[i].txns[k], work)
      <4>. SUFFICES ASSUME NEW i \in 1 .. Len(blocks'), NEW k \in 1 .. Len(blocks'[i].txns)
                    PROVE  Counted(blocks'[i].txns[k], work)
        OBVIOUS
      <4>1. CASE i = Len(blocks) + 1
        BY <3>1, <3>3, <4>1
      <4>2. CASE i # Len(blocks) + 1
        <5>1. i \in 1 .. Len(blocks)
          BY <3>1, <3>2, <4>2
        <5>. QED  BY <3>1, <5>1 DEF FreshInv
      <4>. QED  BY <4>1, <4>2
    <3>5. NoDoubleInclusion'
      <4>. SUFFICES ASSUME NEW i \in 1 .. Len(blocks'), NEW j \in 1 .. Len(blocks'),
                           NEW k \in 1 .. Len(blocks'[i].txns), NEW l \in 1 .. Len(blocks'[j].txns),
                           blocks'[i].txns[k] = blocks'[j].txns[l],
                           blocks'[i].txns[k].from # NullAddr
                    PROVE  i = j /\ k = l
        BY DEF NoDoubleInclusion
      <4>1. \A n \in 1 .. Len(blocks') : n = Len(blocks) + 1 \/ n \in 1 .. Len(blocks)
        BY <3>1, <3>2
      <4>2. CASE i \in 1 .. Len(blocks) /\ j \in 1 .. Len(blocks)
        <5>1. blocks'[i] = blocks[i] /\ blocks'[j] = blocks[j]
          BY <3>1, <4>2
        <5>2. NoDoubleInclusion
          BY DEF FreshInv
        <5>. QED  BY <4>2, <5>1, <5>2 DEF NoDoubleInclusion
      <4>3. CASE i = Len(blocks) + 1 /\ j \in 1 .. Len(blocks)
        <5>1. blocks'[i] = cb /\ blocks'[j] = blocks[j]
          BY <3>1, <4>3
        <5>2. k \in 1 .. Len(cb.txns) /\ cb.txns[k].from # NullAddr
              /\ l \in 1 .. Len(blocks[j].txns) /\ blocks[j].txns[l] = cb.txns[k]
          BY <5>1
        <5>. QED  BY <3>3, <4>3, <5>2
      <4>4. CASE i \in 1 .. Len(blocks) /\ j = Len(blocks) + 1
        BY <3>1, <3>3, <4>4
      <4>5. CASE i = Len(blocks) + 1 /\ j = Len(blocks) + 1
        BY <3>1, <3>3, <4>5
      <4>. QED  BY <4>1, <4>2, <4>3, <4>4, <4>5
    <3>. QED  BY <2>5, <3>4, <3>5 DEF FreshInv
  <2>. QED  BY <2>1, <2>3, <2>4, <2>5, ConnectStepKinds
<1>. QED
  BY <1>1, <1>2, <1>4, <1>5, StepKinds DEF IInv, Quiet, Restart, DiesWriting, Writes

(* The invariant of this module.                                            *)
DInv == IInv /\ FileInv /\ PlainInv /\ FreshInv

LEMMA DInvInit == Init => DInv
<1>. SUFFICES ASSUME Init PROVE DInv
  OBVIOUS
<1>1. IInv /\ FileInv
  BY IInvInit, FileInit
<1>2. PlainInv
  BY DEF Init, MempoolNew, Pending, PlainInv
<1>3. FreshInv
  <2>1. blocks = <<GenesisBlock>> /\ calling = FALSE
    BY DEF Init, ChainNew, NotCalling
  <2>2. Len(blocks) = 1 /\ blocks[1].txns = <<>>
    BY <2>1 DEF GenesisBlock
  <2>. QED  BY <2>1, <2>2 DEF FreshInv, NoDoubleInclusion
<1>. QED  BY <1>1, <1>2, <1>3 DEF DInv

LEMMA DInvStep ==
  ASSUME DiskHonest, NoSelfTransfer, DInv, [Next]_vars
  PROVE  DInv'
<1>1. IInv'
  BY IInvStep DEF DInv
<1>. QED  BY <1>1, FileStep, PlainStep, FreshStep DEF DInv, IInv

(* No transfer is part of the chain twice (chain.cpp, V7), through any      *)
(* resubmission, crash and replay, if the disk is honest and nobody pays    *)
(* himself: a transfer to oneself leaves the nonce, and can be mined again. *)
THEOREM NothingTwice == DiskHonest /\ NoSelfTransfer => (Spec => []NoDoubleInclusion)
<1>. SUFFICES ASSUME DiskHonest, NoSelfTransfer PROVE Spec => []NoDoubleInclusion
  OBVIOUS
<1>1. DInv => NoDoubleInclusion
  BY DEF DInv, FreshInv
<1>2. DInv /\ [Next]_vars => DInv'
  BY DInvStep
<1>. QED  BY <1>1, <1>2, DInvInit, PTL DEF Spec

-----------------------------------------------------------------------------
(* The file implements DurableLedger.                                       *)

(* b can follow a chain of n blocks that ends in tip.                       *)
Follows(b, tip, n) ==
  /\ b.header.index = n
  /\ b.header.prevHash = HeaderHash(tip)
  /\ ~(b.header.timestamp <= tip.timestamp)

(* The block in a call follows the tip, and so did the one to be written.   *)
LinkInv ==
  /\ calling => Follows(cb, Tip, Len(blocks))
  /\ pc = "append" =>
       /\ Len(blocks) >= 2
       /\ Follows(blocks[Len(blocks)], blocks[Len(blocks) - 1].header, Len(blocks) - 1)

LEMMA LinkStep ==
  ASSUME DInv, LinkInv, [Next]_vars
  PROVE  LinkInv'
<1>0. blocks \in Seq(Block) /\ Len(blocks) \in Nat /\ Len(blocks) >= 1
  BY DEF DInv, IInv, TypeOK, ChainTypeOK
<1>1. CASE Quiet \/ Writes
  <2>1. blocks' = blocks /\ calling' = calling /\ cb' = cb /\ (pc' = "append" => pc = "append")
    BY <1>1 DEF Quiet, Writes, chainVars, callVars, Settled
  <2>. QED  BY <2>1 DEF LinkInv, Tip, Follows, HeaderHash
<1>2. CASE Restart \/ DiesWriting
  BY <1>2 DEF Restart, DiesWriting, FreshMemory, LinkInv
<1>3. ASSUME NEW b \in Block, Offers(b) PROVE LinkInv'
  <2>1. pc' # "append"
    BY <1>3 DEF Offers, Settled
  <2>2. \/ calling' = FALSE
        \/ blocks' = blocks /\ cb' = b /\ Follows(b, Tip, Len(blocks))
    <3>1. ConnectCall(b)
      BY <1>3 DEF Offers
    <3>2. Height + 1 = Len(blocks)
      BY <1>0 DEF Height
    <3>3. CASE \E r : r # "OK" /\ Refuse(r)
      BY <3>3 DEF Refuse
    <3>4. CASE /\ blocks' = blocks /\ cb' = b
               /\ b.header.index = Height + 1
               /\ b.header.prevHash = TipHash
               /\ ~(b.header.timestamp <= Tip.timestamp)
      BY <3>2, <3>4 DEF Follows, TipHash
    <3>. QED  BY <3>1, <3>3, <3>4, ConnectCallKinds
  <2>. QED  BY <2>1, <2>2 DEF LinkInv, Tip, Follows, HeaderHash
<1>4. CASE Advances
  <2>1. calling /\ Follows(cb, Tip, Len(blocks))
    BY <1>4, ConnectStepKinds DEF Advances, DInv, IInv, LinkInv
  <2>2. \/ calling' = FALSE /\ ret' # "OK"
        \/ blocks' = blocks /\ cb' = cb /\ ret' # "OK"
        \/ blocks' = Append(blocks, cb) /\ calling' = FALSE
    BY <1>4, ConnectStepKinds DEF Advances, DInv, IInv, Refuse
  <2>3. pc' = "append" => ret' = "OK"
    BY <1>4 DEF Advances, Settled
  <2>4. CASE calling' = FALSE /\ ret' # "OK"
    BY <2>3, <2>4 DEF LinkInv
  <2>5. CASE blocks' = blocks /\ cb' = cb /\ ret' # "OK"
    BY <2>1, <2>3, <2>5 DEF LinkInv, Tip, Follows, HeaderHash
  <2>6. CASE blocks' = Append(blocks, cb) /\ calling' = FALSE
    <3>1. Len(blocks') = Len(blocks) + 1 /\ blocks'[Len(blocks) + 1] = cb
          /\ blocks'[Len(blocks)] = blocks[Len(blocks)]
      BY <1>0, <2>6
    <3>2. Len(blocks') - 1 = Len(blocks)
      BY <1>0, <3>1
    <3>3. Follows(blocks[Len(blocks)], blocks[Len(blocks) - 1].header, Len(blocks) - 1)'
      BY <2>1, <3>1, <3>2 DEF Follows, HeaderHash, Tip
    <3>. QED  BY <1>0, <2>6, <3>1, <3>3 DEF LinkInv
  <2>. QED  BY <2>2, <2>4, <2>5, <2>6
<1>. QED  BY <1>1, <1>2, <1>3, <1>4, StepKinds DEF DInv, IInv

(* A line more in the file is a block more in what loads.                   *)
LEMMA LoadedGrows ==
  ASSUME file \in Seq(Line), NEW line \in Line, file' = Append(file, line)
  PROVE  /\ Loaded \in Seq(Block) /\ Len(Loaded) = Len(file)
         /\ Loaded' = Append(Loaded, line.block)
<1>1. \A i \in 1 .. Len(file) : file[i].block \in Block
  <2>1. \A i \in 1 .. Len(file) : file[i] \in Line
    OBVIOUS
  <2>2. \A l \in Line : l.block \in Block
    BY DEF Line
  <2>. QED  BY <2>1, <2>2
<1>2. Loaded \in Seq(Block) /\ Len(Loaded) = Len(file)
  BY <1>1 DEF Loaded
<1>3. line.block \in Block
  BY DEF Line
<1>4. Len(file') = Len(file) + 1 /\ file'[Len(file) + 1] = line
      /\ \A i \in 1 .. Len(file) : file'[i] = file[i]
  OBVIOUS
<1>5. Append(Loaded, line.block) =
        [i \in 1 .. Len(file) + 1 |-> IF i = Len(file) + 1 THEN line.block ELSE Loaded[i]]
  BY <1>2, <1>3
<1>6. \A i \in 1 .. Len(file) : Loaded[i] = file[i].block
  BY DEF Loaded
<1>7. Loaded' = [i \in 1 .. Len(file) + 1 |-> file'[i].block]
  BY <1>4 DEF Loaded
<1>. QED  BY <1>2, <1>4, <1>5, <1>6, <1>7

(* The one block a write adds extends the ledger.                           *)
LEMMA WriteExtends ==
  ASSUME DInv, LinkInv, pc = "append", NEW line \in Line, line.block = blocks[Len(blocks)],
         file' = Append(file, line)
  PROVE  Durable!Extend
<1>. DEFINE b == blocks[Len(blocks)]
<1>0. blocks \in Seq(Block) /\ Len(blocks) \in Nat /\ file \in Seq(Line)
  BY DEF DInv, IInv, TypeOK, ChainTypeOK
<1>1. Len(blocks) = Len(file) + 1 /\ SameUpTo(Len(file))
  BY DEF DInv, FileInv
<1>2. Loaded \in Seq(Block) /\ Len(Loaded) = Len(file) /\ Loaded' = Append(Loaded, b)
  BY <1>0, LoadedGrows
<1>3. \A i \in 1 .. Len(file) : Loaded[i] = blocks[i]
  BY <1>1 DEF Loaded, SameUpTo
<1>4. Follows(b, blocks[Len(file)].header, Len(file))
  BY <1>0, <1>1 DEF LinkInv
<1>5. Len(file) >= 1 /\ Len(file) \in Nat
  BY <1>0, <1>1 DEF LinkInv
<1>. HIDE DEF b
<1>6. /\ Loaded # <<>> /\ Len(Loaded') = Len(Loaded) + 1 /\ Loaded'[Len(Loaded')] = b
  BY <1>2, <1>5
<1>7. ASSUME NEW i \in 1 .. Len(Loaded)
      PROVE  Durable!Transfers(b) \cap Durable!Transfers(Loaded[i]) = {}
  <2>. SUFFICES ASSUME NEW t \in Durable!Transfers(b), t \in Durable!Transfers(Loaded[i])
                PROVE  FALSE
    OBVIOUS
  <2>1. i \in 1 .. Len(blocks) /\ Len(blocks) \in 1 .. Len(blocks) /\ i # Len(blocks)
        /\ Loaded[i] = blocks[i]
    BY <1>1, <1>2, <1>3, <1>5
  <2>2. PICK k \in 1 .. Len(b.txns) : t = b.txns[k]
    BY DEF Durable!Transfers
  <2>3. PICK l \in 1 .. Len(blocks[i].txns) : t = blocks[i].txns[l]
    BY <2>1 DEF Durable!Transfers
  <2>4. t.from # NullAddr
    <3>1. b \in Block
      BY <1>0, <2>1 DEF b
    <3>2. t \in Txn
      BY <2>2, <3>1 DEF Block
    <3>. QED  BY <3>2 DEF Durable!Transfers, Durable!Txn, Durable!Acct, Durable!Auth, Txn, Acct, Auth
  <2>5. NoDoubleInclusion
    BY DEF DInv, FreshInv
  <2>6. k \in 1 .. Len(blocks[Len(blocks)].txns) /\ blocks[Len(blocks)].txns[k] = blocks[i].txns[l]
        /\ blocks[Len(blocks)].txns[k].from # NullAddr
    BY <2>2, <2>3, <2>4 DEF b
  <2>. QED  BY <2>1, <2>5, <2>6 DEF NoDoubleInclusion
<1>8. Durable!Extends(b)
  <2>1. Loaded[Len(Loaded)].header = blocks[Len(file)].header
    BY <1>2, <1>3, <1>5
  <2>2. b.header.timestamp \in Nat /\ blocks[Len(file)].header.timestamp \in Nat
    <3>1. blocks[Len(file)] \in Block /\ b \in Block
      BY <1>0, <1>1, <1>5 DEF b
    <3>2. \A x \in Block : x.header.timestamp \in Nat
      BY DEF Block, BlockHeader
    <3>. QED  BY <3>1, <3>2
  <2>3. b.header.timestamp > blocks[Len(file)].header.timestamp
    BY <1>4, <2>2 DEF Follows
  <2>. QED  BY <1>2, <1>4, <1>7, <2>1, <2>3 DEF Durable!Extends, Durable!HeaderHash, HeaderHash, Follows
<1>. QED  BY <1>2, <1>6, <1>8 DEF Durable!Extend

(* The first line makes a ledger of genesis.                                *)
LEMMA WriteStarts ==
  ASSUME DInv, pc = "genesis", NEW line \in Line, line.block = blocks[Len(blocks)],
         file' = Append(file, line)
  PROVE  Durable!Start
<1>1. file = <<>> /\ line.block = GenesisBlock
  <2>1. file = <<>> /\ blocks = <<GenesisBlock>>
    BY DEF DInv, FileInv
  <2>. QED  BY <2>1
<1>2. Loaded \in Seq(Block) /\ Len(Loaded) = Len(file) /\ Loaded' = Append(Loaded, GenesisBlock)
  BY <1>1, LoadedGrows DEF DInv, IInv, TypeOK
<1>3. Loaded = <<>>
  BY <1>1, <1>2
<1>4. GenesisBlock = Durable!GenesisBlock
  BY DEF GenesisBlock, Durable!GenesisBlock, GENESIS_TIMESTAMP, Durable!GENESIS_TIMESTAMP,
         ZeroHash, Durable!ZeroHash
<1>. QED  BY <1>2, <1>3, <1>4 DEF Durable!Start

(* Every step of the node is a step of the ledger or leaves it.             *)
LEMMA LedgerStep ==
  ASSUME DInv, LinkInv, [Next]_vars
  PROVE  [Durable!Next]_Loaded
<1>1. CASE file' = file
  BY <1>1 DEF Loaded
<1>2. CASE DiesWriting \/ Writes
  <2>1. pc \in {"append", "genesis"} /\ \E extent : file' = Written(blocks[Len(blocks)], extent)
    BY <1>2 DEF DiesWriting, Writes
  <2>2. PICK extent : file' = Written(blocks[Len(blocks)], extent)
    BY <2>1
  <2>. DEFINE line == [ok |-> extent # "torn", block |-> blocks[Len(blocks)],
                       eol |-> (extent = "all")]
  <2>3. file' = file \/ file' = Append(file, line)
    BY <2>1, <2>2, WriteAddsLine DEF DInv, IInv
  <2>4. line \in Line /\ line.block = blocks[Len(blocks)]
    <3>1. blocks[Len(blocks)] \in Block
      BY DEF DInv, IInv, TypeOK, ChainTypeOK
    <3>. QED  BY <3>1 DEF Line
  <2>. HIDE DEF line
  <2>. QED  BY <1>1, <2>1, <2>3, <2>4, WriteExtends, WriteStarts DEF Durable!Next
<1>. QED  BY <1>1, <1>2, StepKinds DEF DInv, IInv, Quiet, Restart, Offers, Advances

(* Through every crash, restart and race of the two threads, chain.jsonl    *)
(* only ever grows, by a block that links to the last one, is younger, and  *)
(* brings no transfer the file already has (node.hpp, store.cpp).           *)
THEOREM FileIsLedger == DiskHonest /\ NoSelfTransfer => (Spec => DurableLedgerSpec)
<1>. SUFFICES ASSUME DiskHonest, NoSelfTransfer PROVE Spec => DurableLedgerSpec
  OBVIOUS
<1>1. Init => Durable!Init
  <2>. SUFFICES ASSUME Init PROVE Loaded = <<>>
    BY DEF Durable!Init
  <2>1. file = <<>>
    BY DEF Init
  <2>. QED  BY <2>1 DEF Loaded
<1>2. Init => DInv /\ LinkInv
  BY DInvInit DEF Init, NotCalling, LinkInv
<1>3. DInv /\ LinkInv /\ [Next]_vars => (DInv /\ LinkInv)'
  BY DInvStep, LinkStep
<1>4. DInv /\ LinkInv /\ [Next]_vars => [Durable!Next]_Loaded
  BY LedgerStep
<1>. QED  BY <1>1, <1>2, <1>3, <1>4, PTL DEF Spec, DurableLedgerSpec, Durable!Spec

-----------------------------------------------------------------------------
(* The node resumes.                                                        *)

(* appendBlock does not fail, and a crash inside it leaves its line whole   *)
(* or not at all.                                                           *)
DiskAtomic ==
  /\ AppendFaults \cup GenesisFaults \subseteq {"all"}
  /\ CrashExtents \subseteq {"all", "nothing"}

(* The supply n blocks after genesis.                                       *)
SupplyAt(n) == GENESIS_SUPPLY + n * Reward

(* s is the way the file leads through; the chain in memory is somewhere    *)
(* along it, or one block ahead where that is about to be written.          *)
Resumable(s, c) ==
  /\ file # <<>> =>
       /\ Path(s, Loaded, Len(file), c, Difficulty, Reward)
       /\ Supply(s[Len(file)]) = SupplyAt(Len(file) - 1)
  /\ pc = "boot" => state = s[Len(blocks)]
  /\ pc \in Settled => state = s[Len(file)]
  /\ pc = "append" =>
       /\ file # <<>>
       /\ HeaderReason(blocks[Len(blocks)], Len(file), file[Len(file)].block.header, c,
                       Difficulty) = "OK"
       /\ ApplyBlockTxns(s[Len(file)], blocks[Len(blocks)], Reward).reason = "OK"
       /\ ApplyBlockTxns(s[Len(file)], blocks[Len(blocks)], Reward).work = state
       /\ Supply(state) = SupplyAt(Len(file))

(* A call has come as far as applyBlockTxns would.                          *)
CallRun(c) ==
  /\ HeaderReason(cb, Height + 1, Tip, c, Difficulty) = "OK"
  /\ ti <= Len(cb.txns)
  /\ \E f : Passed(f, state, cb, ti) /\ f[ti].work = work /\ f[ti].coinbases = coinbase_count

(* The inductive invariant: node and file have the same way, and a call     *)
(* keeps to one.                                                            *)
ResumeInv ==
  /\ RestartResumes
  /\ LoadOK
  /\ file # <<>> => file[1].block = GenesisBlock
  /\ pc = "genesis" => state = ApplyGenesis
  /\ calling => CallRun(now)
  /\ pc = "connect" =>
       Supply(work) = Supply(state) + IF coinbase_count = 1 THEN COINBASE_REWARD ELSE 0
  /\ \E s : Resumable(s, now)

(* The clock does not go back.                                              *)
LEMMA ClockForward ==
  ASSUME TypeOK, [Next]_vars
  PROVE  now \in Nat /\ now' \in Nat /\ now <= now'
<1>1. now \in Nat
  BY DEF TypeOK, ChainTypeOK
<1>2. now' = now \/ now' = now + 1
  BY DEF Next, Boot, BootConnect, BootDone, Loop, SubmitTx, Signal, Crash, TimerElapses, Tick,
     BeginSeal, IdlePass, Wake, DrainTxn, SealNextBlock, BeginCandidate, SelectTxn,
     CandidateBuilt, Mine, MinePreempted, CommitMined, Connect, AppendBlock,
     Evict, LeaveLoop, Exit, vars
<1>. QED  BY <1>1, <1>2

(* load gives the blocks of the lines.                                      *)
LEMMA LoadedType ==
  ASSUME TypeOK
  PROVE  /\ Loaded \in Seq(Block) /\ Len(Loaded) = Len(file) /\ Len(file) \in Nat
         /\ \A i \in 1 .. Len(file) : Loaded[i] = file[i].block /\ Loaded[i] \in Block
<1>0. file \in Seq(Line)
  BY DEF TypeOK
<1>1. \A i \in 1 .. Len(file) : file[i].block \in Block
  <2>1. \A i \in 1 .. Len(file) : file[i] \in Line
    BY <1>0
  <2>2. \A l \in Line : l.block \in Block
    BY DEF Line
  <2>. QED  BY <2>1, <2>2
<1>. QED  BY <1>0, <1>1 DEF Loaded

(* Time passes.                                                             *)
LEMMA ResumableLater ==
  ASSUME TypeOK, NEW s, NEW c \in Nat, NEW d \in Nat, c <= d, Resumable(s, c)
  PROVE  Resumable(s, d)
<1>1. ASSUME file # <<>> PROVE Path(s, Loaded, Len(file), d, Difficulty, Reward)
  <2>1. Path(s, Loaded, Len(file), c, Difficulty, Reward)
    BY <1>1 DEF Resumable
  <2>2. Loaded \in Seq(Block) /\ Len(file) \in 1 .. Len(Loaded)
    <3>1. file \in Seq(Line)
      BY DEF TypeOK
    <3>2. Len(file) # 0
      BY <1>1, <3>1
    <3>. QED  BY <3>2, LoadedType
  <2>. QED  BY <2>1, <2>2, PathLater
<1>2. ASSUME pc = "append"
      PROVE  HeaderReason(blocks[Len(blocks)], Len(file), file[Len(file)].block.header, d,
                          Difficulty) = "OK"
  <2>1. HeaderReason(blocks[Len(blocks)], Len(file), file[Len(file)].block.header, c,
                     Difficulty) = "OK"
    BY <1>2 DEF Resumable
  <2>2. blocks[Len(blocks)] \in Block
    BY DEF TypeOK, ChainTypeOK
  <2>. QED  BY <2>1, <2>2, HeaderLater
<1>. QED  BY <1>1, <1>2 DEF Resumable

(* ... for a call as well.                                                  *)
LEMMA CallRunLater ==
  ASSUME TypeOK, NEW c \in Nat, NEW d \in Nat, c <= d, CallRun(c)
  PROVE  CallRun(d)
<1>1. HeaderReason(cb, Height + 1, Tip, c, Difficulty) = "OK" /\ cb \in Block
  BY DEF CallRun, TypeOK, ChainTypeOK
<1>2. HeaderReason(cb, Height + 1, Tip, d, Difficulty) = "OK"
  BY <1>1, HeaderLater
<1>. QED  BY <1>2 DEF CallRun

(* At first there is no file.                                               *)
LEMMA ResumeInit == Init => ResumeInv
<1>. SUFFICES ASSUME Init PROVE ResumeInv
  OBVIOUS
<1>1. file = <<>> /\ pc = "down" /\ ~calling
  BY DEF Init, NotCalling
<1>2. \A s : Resumable(s, now)
  BY <1>1 DEF Resumable, Settled, Up, Locked, Unlocked
<1>. QED  BY <1>1, <1>2 DEF ResumeInv, RestartResumes, LoadOK

(* The rewards are numbers.                                                 *)
LEMMA RewardType == Reward \in Nat /\ GENESIS_SUPPLY \in Int
<1>1. GENESIS_SUPPLY \in Int
  BY SupplyType, LedgerAssumption, GenesisType DEF GENESIS_SUPPLY
<1>. QED  BY <1>1, LedgerAssumption DEF Reward

(* Writing the block of the chain that is due continues the way.            *)
LEMMA WriteResumable ==
  ASSUME IInv, FileInv, ResumeInv, pc \in {"append", "genesis"}, NEW c, NEW s, Resumable(s, c),
         NEW line \in Line, line.block = blocks[Len(blocks)], file' = Append(file, line)
  PROVE  /\ file' # <<>> /\ file'[1].block = GenesisBlock
         /\ \E t : /\ Path(t, Loaded', Len(file'), c, Difficulty, Reward)
                   /\ Supply(t[Len(file')]) = SupplyAt(Len(file') - 1)
                   /\ t[Len(file')] = state
<1>. DEFINE b == blocks[Len(blocks)]
            n == Len(file)
<1>0. TypeOK /\ file \in Seq(Line) /\ n \in Nat
  BY DEF IInv, TypeOK
<1>1. Loaded \in Seq(Block) /\ Len(Loaded) = n /\ Loaded' = Append(Loaded, b)
  BY <1>0, LoadedGrows
<1>2. /\ Len(file') = n + 1 /\ file'[n + 1] = line /\ file' # <<>>
      /\ \A i \in 1 .. n : file'[i] = file[i]
  BY <1>0, AppendProperties
<1>3. CASE pc = "append"
  <2>1. /\ file # <<>> /\ HeaderReason(b, n, file[n].block.header, c, Difficulty) = "OK"
        /\ ApplyBlockTxns(s[n], b, Reward).reason = "OK"
        /\ ApplyBlockTxns(s[n], b, Reward).work = state
        /\ Supply(state) = SupplyAt(n)
        /\ Path(s, Loaded, n, c, Difficulty, Reward)
    BY <1>3 DEF Resumable
  <2>. HIDE DEF b
  <2>2. n >= 1 /\ 1 \in 1 .. n
    BY <1>0, <2>1
  <2>3. file[n].block = Loaded[n] /\ Loaded # <<>>
    BY <1>0, <1>1, <2>2, LoadedType
  <2>. HIDE DEF n
  <2>4. PICK t : /\ Path(t, Append(Loaded, b), n + 1, c, Difficulty, Reward)
                 /\ t[n + 1] = ApplyBlockTxns(s[n], b, Reward).work
    <3>. DEFINE L == Loaded
                r == Reward
    <3>0. Len(L) = n
      BY <1>1
    <3>1. /\ L \in Seq(Block) /\ L # <<>>
          /\ Path(s, L, Len(L), c, Difficulty, r)
          /\ HeaderReason(b, Len(L), L[Len(L)].header, c, Difficulty) = "OK"
          /\ ApplyBlockTxns(s[Len(L)], b, r).reason = "OK"
      BY <1>1, <2>1, <2>3
    <3>. HIDE DEF L, r
    <3>2. \E t : /\ Path(t, Append(L, b), Len(L) + 1, c, Difficulty, r)
                 /\ t[Len(L) + 1] = ApplyBlockTxns(s[Len(L)], b, r).work
                 /\ \A k \in 1 .. Len(L) : t[k] = s[k]
      BY <3>1, PathExtend
    <3>3. \E t : /\ Path(t, Append(L, b), n + 1, c, Difficulty, r)
                 /\ t[n + 1] = ApplyBlockTxns(s[n], b, r).work
      BY <3>0, <3>2
    <3>. QED  BY <3>3 DEF L, r
  <2>5. file'[1].block = GenesisBlock
    BY <1>2, <2>1, <2>2 DEF ResumeInv
  <2>6. (n + 1) - 1 = n
    BY <1>0 DEF n
  <2>. QED  BY <1>1, <1>2, <2>1, <2>4, <2>5, <2>6
<1>4. CASE pc = "genesis"
  <2>1. file = <<>> /\ b = GenesisBlock /\ state = ApplyGenesis
    <3>1. file = <<>> /\ blocks = <<GenesisBlock>>
      BY <1>4 DEF FileInv
    <3>. QED  BY <1>4, <3>1 DEF ResumeInv
  <2>2. n = 0
    BY <2>1
  <2>. HIDE DEF n
  <2>3. Len(file') = 1 /\ file'[1] = line
    BY <1>2, <2>2
  <2>4. Loaded'[1] = GenesisBlock
    <3>1. Loaded' = [i \in 1 .. 1 |-> file'[i].block]
      BY <2>3 DEF Loaded
    <3>. QED  BY <2>1, <2>3, <3>1
  <2>. DEFINE t == [k \in {1} |-> ApplyGenesis]
  <2>5. t[1] = ApplyGenesis
    OBVIOUS
  <2>. HIDE DEF t
  <2>6. GenesisReason(GenesisBlock) = "OK"
    BY DEF GenesisReason, GenesisBlock, ComputeTxnsHash
  <2>7. Path(t, Loaded', 1, c, Difficulty, Reward)
    BY <2>4, <2>5, <2>6 DEF Path
  <2>8. Supply(t[1]) = SupplyAt(1 - 1)
    <3>1. (1 - 1) * Reward = 0 /\ GENESIS_SUPPLY + 0 = GENESIS_SUPPLY
      BY RewardType
    <3>. QED  BY <2>5, <3>1 DEF SupplyAt, GENESIS_SUPPLY
  <2>. QED  BY <1>2, <2>1, <2>3, <2>5, <2>7, <2>8
<1>. QED  BY <1>3, <1>4

(* The block that boot offers is the next on the way, ...                   *)
LEMMA BootHeader ==
  ASSUME TypeOK, FileInv, NEW s, Resumable(s, now), pc = "boot", Len(blocks) < Len(file)
  PROVE  LET b == Loaded[Len(blocks) + 1]
         IN /\ HeaderReason(b, Height + 1, Tip, now, Difficulty) = "OK"
            /\ ApplyBlockTxns(state, b, Reward).reason = "OK"
            /\ s[Len(blocks) + 1] = ApplyBlockTxns(state, b, Reward).work
<1>. DEFINE n == Len(blocks)
<1>1. n \in Nat /\ n >= 1 /\ Len(file) \in Nat /\ n < Len(file)
  BY DEF TypeOK, ChainTypeOK
<1>2. file # <<>>
  BY <1>1
<1>3. Path(s, Loaded, Len(file), now, Difficulty, Reward) /\ state = s[n]
  BY <1>2 DEF Resumable
<1>4. Loaded[n] = blocks[n]
  <2>1. n \in 1 .. n /\ n \in 1 .. Len(file) /\ SameUpTo(n)
    BY <1>1 DEF FileInv
  <2>. QED  BY <2>1, LoadedType DEF SameUpTo
<1>5. Height + 1 = n /\ Tip = blocks[n].header
  BY <1>1 DEF Height, Tip
<1>. HIDE DEF n
<1>6. n + 1 \in 2 .. Len(file) /\ (n + 1) - 1 = n
  BY <1>1
<1>7. /\ HeaderReason(Loaded[n + 1], n, Loaded[n].header, now, Difficulty) = "OK"
      /\ ApplyBlockTxns(s[n], Loaded[n + 1], Reward).reason = "OK"
      /\ s[n + 1] = ApplyBlockTxns(s[n], Loaded[n + 1], Reward).work
  BY <1>3, <1>6 DEF Path
<1>. QED  BY <1>3, <1>4, <1>5, <1>7 DEF n

(* ... and every one of its transactions passes.                            *)
LEMMA BootPasses ==
  ASSUME IInv, FileInv, ResumeInv, NEW s, Resumable(s, now), pc = "boot", calling
  PROVE  /\ ti < Len(cb.txns) =>
              BlockTxnReason(work, cb.txns[ti + 1], cb.header.index, ti, coinbase_count) = "OK"
         /\ ti = Len(cb.txns) =>
              /\ CoinbaseCountReason(coinbase_count, Reward) = "OK"
              /\ work = s[Len(blocks) + 1]
<1>0. TypeOK /\ state \in Accounts /\ cb \in Block /\ ti \in Nat
  BY DEF IInv, TypeOK, ChainTypeOK
<1>1. Len(blocks) < Len(file) /\ cb = Loaded[Len(blocks) + 1]
  <2>1. Len(blocks) < Len(file) /\ cb = file[Len(blocks) + 1].block
    BY DEF FileInv
  <2>2. Len(blocks) + 1 \in 1 .. Len(file)
    BY <1>0, <2>1 DEF TypeOK, ChainTypeOK
  <2>. QED  BY <1>0, <2>1, <2>2, LoadedType
<1>2. /\ ApplyBlockTxns(state, cb, Reward).reason = "OK"
      /\ s[Len(blocks) + 1] = ApplyBlockTxns(state, cb, Reward).work
  BY <1>0, <1>1, BootHeader
<1>3. PICK g : /\ Passed(g, state, cb, Len(cb.txns))
               /\ CoinbaseCountReason(g[Len(cb.txns)].coinbases, Reward) = "OK"
               /\ ApplyBlockTxns(state, cb, Reward).work = g[Len(cb.txns)].work
  BY <1>0, <1>2, AppliesPassed
<1>4. PICK f : Passed(f, state, cb, ti) /\ f[ti].work = work /\ f[ti].coinbases = coinbase_count
  BY DEF ResumeInv, CallRun
<1>5. ti <= Len(cb.txns) /\ Len(cb.txns) \in Nat
  BY <1>0 DEF ResumeInv, CallRun, Block
<1>6. f[ti] = g[ti]
  <2>1. \A k \in 0 .. ti : f[k] = g[k]
    BY <1>0, <1>3, <1>4, <1>5, PassedUnique
  <2>. QED  BY <1>0, <2>1
<1>7. ASSUME ti < Len(cb.txns)
      PROVE  BlockTxnReason(work, cb.txns[ti + 1], cb.header.index, ti, coinbase_count) = "OK"
  <2>1. ti + 1 \in 1 .. Len(cb.txns) /\ (ti + 1) - 1 = ti
    BY <1>0, <1>5, <1>7
  <2>2. BlockTxnReason(g[ti].work, cb.txns[ti + 1], cb.header.index, ti, g[ti].coinbases) = "OK"
    BY <1>3, <2>1 DEF Passed
  <2>. QED  BY <1>4, <1>6, <2>2
<1>8. ASSUME ti = Len(cb.txns)
      PROVE  CoinbaseCountReason(coinbase_count, Reward) = "OK" /\ work = s[Len(blocks) + 1]
  BY <1>2, <1>3, <1>4, <1>6, <1>8
<1>. QED  BY <1>7, <1>8

(* No step refuses to start.                                                *)
LEMMA NeverRefuses ==
  ASSUME IInv, FileInv, ResumeInv, [Next]_vars
  PROVE  pc' # "refused"
<1>0. TypeOK /\ pc # "refused"
  BY DEF IInv, ResumeInv, RestartResumes
<1>1. PICK s : Resumable(s, now)
  BY DEF ResumeInv
<1>2. CASE Boot
  <2>. SUFFICES ASSUME file # <<>>
                PROVE  /\ LoadOK
                       /\ Loaded[1] = GenesisBlock
                       /\ ReplayReason(Loaded, now, Difficulty, Reward) = "OK"
    BY <1>2 DEF Boot
  <2>1. Len(file) \in Nat /\ Len(file) >= 1
    <3>1. file \in Seq(Line)
      BY <1>0 DEF TypeOK
    <3>. QED  BY <3>1
  <2>2. 1 \in 1 .. Len(file)
    BY <2>1
  <2>3. Loaded[1] = GenesisBlock
    BY <1>0, <2>2, LoadedType DEF ResumeInv
  <2>. DEFINE L == Loaded
              r == Reward
  <2>4. /\ L \in Seq(Block) /\ Len(L) = Len(file)
        /\ Path(s, L, Len(L), now, Difficulty, r)
        /\ Supply(s[Len(L)]) = GENESIS_SUPPLY + (Len(L) - 1) * r
    BY <1>0, <1>1, LoadedType DEF Resumable, SupplyAt
  <2>5. ReplayReason(L, now, Difficulty, r) = "OK"
    <3>. HIDE DEF L, r
    <3>1. L # <<>>
      BY <2>1, <2>4
    <3>2. Path(s, L, Len(L), now, Difficulty, r)
      BY <2>4
    <3>3. ReplayFromGenesis(L, now, Difficulty, r).reason = "OK"
      BY <2>4, <3>1, <3>2, PathReplays
    <3>. QED  BY <3>3 DEF ReplayReason
  <2>. QED  BY <2>3, <2>5 DEF ResumeInv
<1>3. CASE BootConnect
  <2>1. pc = "boot" /\ (ret' \in {"none", "OK"} => pc' = "boot")
    BY <1>3 DEF BootConnect
  <2>2. CASE Len(blocks) < Len(file) /\ ConnectCall(Loaded[Len(blocks) + 1])
    <3>1. HeaderReason(Loaded[Len(blocks) + 1], Height + 1, Tip, now, Difficulty) = "OK"
      BY <1>0, <1>1, <2>1, <2>2, BootHeader
    <3>2. ret' = "none"
      BY <2>2, <3>1 DEF ConnectCall
    <3>. QED  BY <2>1, <3>2
  <2>3. CASE ConnectTxn
    <3>1. calling /\ ti < Len(cb.txns)
      BY <2>3 DEF ConnectTxn
    <3>2. BlockTxnReason(work, cb.txns[ti + 1], cb.header.index, ti, coinbase_count) = "OK"
      BY <1>1, <2>1, <3>1, BootPasses
    <3>3. ret' = ret
      BY <2>3, <3>2 DEF ConnectTxn
    <3>. QED  BY <2>1, <3>1, <3>3 DEF IInv, CallInv
  <2>4. CASE ConnectReturn
    <3>1. calling /\ ti = Len(cb.txns)
      BY <2>4 DEF ConnectReturn
    <3>2. CoinbaseCountReason(coinbase_count, Reward) = "OK"
      BY <1>1, <2>1, <3>1, BootPasses
    <3>3. ret' = "OK"
      BY <2>4, <3>2 DEF ConnectReturn
    <3>. QED  BY <2>1, <3>3
  <2>. QED  BY <1>3, <2>2, <2>3, <2>4 DEF BootConnect, ConnectStep
<1>4. CASE ~(Boot \/ BootConnect)
  BY <1>0, <1>4 DEF Next, BootDone, Loop, SubmitTx, Signal, Crash, TimerElapses, Tick,
     BeginSeal, IdlePass, Wake, DrainTxn, SealNextBlock, BeginCandidate, SelectTxn,
     CandidateBuilt, Mine, MinePreempted, CommitMined, Connect, AppendBlock,
     Evict, LeaveLoop, Exit, LoopEnd, vars
<1>. QED  BY <1>2, <1>3, <1>4

(* The steps that touch neither chain nor file, ...                         *)
LEMMA ResumeQuiet ==
  ASSUME IInv, IInv', ResumeInv, [Next]_vars, Quiet
  PROVE  ResumeInv'
<1>1. UNCHANGED <<blocks, state, calling, cb, work, ti, coinbase_count, file>>
  BY DEF Quiet, chainVars, callVars
<1>2. now \in Nat /\ now' \in Nat /\ now <= now'
  BY ClockForward DEF IInv
<1>3. PICK s : Resumable(s, now')
  BY <1>2, ResumableLater DEF ResumeInv, IInv
<1>4. Loaded' = Loaded
  BY <1>1 DEF Loaded
<1>5. Resumable(s, now)'
  <2>1. CASE pc' = pc
    BY <1>1, <1>3, <1>4, <2>1 DEF Resumable
  <2>2. CASE pc \in Settled /\ pc' \in Settled
    <3>1. pc' # "append" /\ pc' # "boot"
      BY <2>2 DEF Settled, Up, Locked, Unlocked
    <3>. QED  BY <1>1, <1>3, <1>4, <2>2, <3>1 DEF Resumable
  <2>3. CASE pc = "boot" /\ ~calling /\ Len(blocks) = Len(file) /\ pc' = "check"
    BY <1>1, <1>3, <1>4, <2>3 DEF Resumable
  <2>. QED  BY <2>1, <2>2, <2>3 DEF Quiet
<1>6. ASSUME calling PROVE CallRun(now)'
  <2>1. CallRun(now')
    BY <1>2, <1>6, CallRunLater DEF ResumeInv, IInv
  <2>2. UNCHANGED <<Height, Tip>>
    BY <1>1 DEF Height, Tip
  <2>. QED  BY <1>1, <2>1, <2>2 DEF CallRun
<1>7. pc' = "connect" => pc = "connect"
  BY <1>1 DEF Quiet, IInv, CallInv, Settled, Up, Locked, Unlocked
<1>8. pc' = "genesis" => pc = "genesis"
  BY DEF Quiet, Settled, Up, Locked, Unlocked
<1>9. pc' # "refused" /\ LoadOK'
  <2>1. LoadOK' = LoadOK
    BY <1>1 DEF LoadOK
  <2>. QED  BY <2>1 DEF Quiet, ResumeInv, RestartResumes, Settled, Up, Locked, Unlocked
<1>. QED  BY <1>1, <1>5, <1>6, <1>7, <1>8, <1>9 DEF ResumeInv, RestartResumes

(* ... those that start from the file anew or die, ...                      *)
LEMMA ResumeRestart ==
  ASSUME IInv, ResumeInv, [Next]_vars, Restart, pc' # "refused"
  PROVE  ResumeInv'
<1>1. /\ blocks' = <<GenesisBlock>> /\ state' = ApplyGenesis /\ calling' = FALSE /\ file' = file
      /\ pc' \in {"genesis", "boot", "down"}
      /\ pc' = "boot" => file # <<>>
  BY DEF Restart, FreshMemory
<1>2. now \in Nat /\ now' \in Nat /\ now <= now'
  BY ClockForward DEF IInv
<1>3. PICK s : Resumable(s, now')
  BY <1>2, ResumableLater DEF ResumeInv, IInv
<1>4. Loaded' = Loaded /\ LoadOK' = LoadOK
  BY <1>1 DEF Loaded, LoadOK
<1>5. ASSUME pc' = "boot" PROVE state' = s[Len(blocks')]
  <2>1. s[1] = ApplyGenesis
    BY <1>1, <1>3, <1>5 DEF Resumable, Path
  <2>2. Len(blocks') = 1
    BY <1>1
  <2>. QED  BY <1>1, <2>1, <2>2
<1>6. Resumable(s, now)'
  BY <1>1, <1>3, <1>4, <1>5 DEF Resumable, Settled, Up, Locked, Unlocked
<1>. QED  BY <1>1, <1>4, <1>6 DEF ResumeInv, RestartResumes

(* ... those that write, or die writing, ...                                *)
LEMMA ResumeWrites ==
  ASSUME DiskAtomic, IInv, FileInv, ResumeInv, [Next]_vars, Writes \/ DiesWriting
  PROVE  ResumeInv'
<1>1. now \in Nat /\ now' \in Nat /\ now <= now'
  BY ClockForward DEF IInv
<1>2. PICK s : Resumable(s, now')
  BY <1>1, ResumableLater DEF ResumeInv, IInv
<1>3. /\ pc \in {"append", "genesis"} /\ calling' = FALSE
      /\ pc' = "down" \/ (pc' \in Settled /\ pc' # "connect" /\ state' = state)
  <2>1. ~calling
    BY DEF IInv, CallInv, Writes, DiesWriting
  <2>2. CASE Writes
    <3>1. pc' # "connect"
      <4>1. Next
        BY <2>2 DEF Writes, vars, Settled, Up, Locked, Unlocked
      <4>. QED  BY <2>2, <4>1 DEF Writes, Next, Boot, BootConnect, BootDone, Loop, SubmitTx, Signal,
                 Crash, TimerElapses, Tick,
                 BeginSeal, IdlePass, Wake, DrainTxn, SealNextBlock, BeginCandidate, SelectTxn,
                 CandidateBuilt, Mine, MinePreempted, CommitMined, Connect, AppendBlock,
                 Evict, LeaveLoop, Exit
    <3>. QED  BY <2>1, <2>2, <3>1 DEF Writes, chainVars, callVars
  <2>3. CASE DiesWriting
    BY <2>3 DEF DiesWriting, FreshMemory
  <2>. QED  BY <2>2, <2>3
<1>4. PICK extent \in {"all", "nothing"} :
        file' = Written(blocks[Len(blocks)], extent) /\ (pc' = "down" \/ extent = "all")
  BY DEF Writes, DiesWriting, DiskAtomic
<1>. DEFINE line == [ok |-> TRUE, block |-> blocks[Len(blocks)], eol |-> TRUE]
<1>5. file' = IF extent = "nothing" THEN file ELSE Append(file, line)
  BY <1>3, <1>4, WriteAddsLine DEF IInv
<1>6. line \in Line /\ line.block = blocks[Len(blocks)] /\ line.ok /\ file \in Seq(Line)
  <2>1. blocks[Len(blocks)] \in Block /\ file \in Seq(Line)
    BY DEF IInv, TypeOK, ChainTypeOK
  <2>. QED  BY <2>1 DEF Line
<1>. HIDE DEF line
<1>7. CASE extent = "nothing"
  <2>1. file' = file /\ pc' = "down"
    BY <1>4, <1>5, <1>7
  <2>2. Loaded' = Loaded /\ LoadOK' = LoadOK
    BY <2>1 DEF Loaded, LoadOK
  <2>3. Resumable(s, now)'
    BY <1>2, <2>1, <2>2 DEF Resumable, Settled, Up, Locked, Unlocked
  <2>. QED  BY <1>3, <2>1, <2>2, <2>3 DEF ResumeInv, RestartResumes
<1>8. CASE extent = "all"
  <2>1. file' = Append(file, line)
    BY <1>5, <1>8
  <2>2. /\ file' # <<>> /\ file'[1].block = GenesisBlock
        /\ \E t : /\ Path(t, Loaded', Len(file'), now', Difficulty, Reward)
                  /\ Supply(t[Len(file')]) = SupplyAt(Len(file') - 1)
                  /\ t[Len(file')] = state
    BY <1>2, <1>3, <1>6, <2>1, WriteResumable
  <2>3. LoadOK'
    <3>1. LoadOK /\ Len(file) \in Nat
      BY <1>6 DEF ResumeInv
    <3>2. Len(file') = Len(file) + 1 /\ file'[Len(file) + 1] = line
          /\ \A i \in 1 .. Len(file) : file'[i] = file[i]
      BY <1>6, <2>1, AppendProperties
    <3>. QED  BY <1>6, <3>1, <3>2 DEF LoadOK
  <2>4. PICK t : /\ Path(t, Loaded', Len(file'), now', Difficulty, Reward)
                 /\ Supply(t[Len(file')]) = SupplyAt(Len(file') - 1)
                 /\ t[Len(file')] = state
    BY <2>2
  <2>5. pc' \notin {"boot", "append", "refused", "genesis", "connect"}
    BY <1>3 DEF Settled, Up, Locked, Unlocked
  <2>6. pc' \in Settled => state' = state
    BY <1>3 DEF Settled, Up, Locked, Unlocked
  <2>7. Resumable(t, now)'
    BY <2>4, <2>5, <2>6 DEF Resumable, SupplyAt, Reward
  <2>. QED  BY <1>3, <2>2, <2>3, <2>5, <2>7 DEF ResumeInv, RestartResumes
<1>. QED  BY <1>7, <1>8

(* ... those that call connectBlock, ...                                    *)
LEMMA ResumeOffers ==
  ASSUME IInv, IInv', FileInv, ResumeInv, [Next]_vars, NEW b \in Block, Offers(b),
         pc' # "refused"
  PROVE  ResumeInv'
<1>1. now \in Nat /\ now' \in Nat /\ now <= now'
  BY ClockForward DEF IInv
<1>2. PICK s : Resumable(s, now')
  BY <1>1, ResumableLater DEF ResumeInv, IInv
<1>3. /\ ConnectCall(b) /\ file' = file
      /\ \/ pc \in Settled /\ pc' \in Settled
         \/ pc = "boot" /\ pc' = "boot"
  BY DEF Offers
<1>. DEFINE r == HeaderReason(b, Height + 1, Tip, now, Difficulty)
<1>4. /\ blocks' = blocks /\ state' = state /\ work' = state
      /\ calling' => /\ r = "OK" /\ cb' = b /\ ti' = 0 /\ coinbase_count' = 0
  <2>. HIDE DEF r
  <2>1. \/ r # "OK" /\ Refuse(r)
        \/ /\ r = "OK" /\ cb' = b /\ work' = state /\ ti' = 0 /\ coinbase_count' = 0
           /\ UNCHANGED chainVars
    BY <1>3 DEF ConnectCall, r
  <2>. QED  BY <2>1 DEF Refuse, chainVars
<1>5. Loaded' = Loaded /\ LoadOK' = LoadOK
  BY <1>3 DEF Loaded, LoadOK
<1>6. Resumable(s, now)'
  <2>1. pc' # "append"
    BY <1>3 DEF Settled, Up, Locked, Unlocked
  <2>2. pc' = "boot" => pc = "boot"
    BY <1>3 DEF Settled, Up, Locked, Unlocked
  <2>3. pc' \in Settled => pc \in Settled
    BY <1>3 DEF Settled, Up, Locked, Unlocked
  <2>. QED  BY <1>2, <1>3, <1>4, <1>5, <2>1, <2>2, <2>3 DEF Resumable
<1>7. ASSUME calling' PROVE CallRun(now)'
  <2>1. HeaderReason(b, Height + 1, Tip, now', Difficulty) = "OK"
    BY <1>1, <1>4, <1>7, HeaderLater
  <2>2. UNCHANGED <<Height, Tip>>
    BY <1>4 DEF Height, Tip
  <2>3. 0 <= Len(b.txns)
    BY DEF Block
  <2>. DEFINE f == [k \in {0} |-> [reason |-> "OK", work |-> state, coinbases |-> 0]]
  <2>4. f[0] = [reason |-> "OK", work |-> state, coinbases |-> 0]
    OBVIOUS
  <2>. HIDE DEF f
  <2>5. Passed(f, state, b, 0)
    BY <2>4 DEF Passed
  <2>6. \E g : Passed(g, state', cb', ti') /\ g[ti'].work = work' /\ g[ti'].coinbases = coinbase_count'
    BY <1>4, <1>7, <2>4, <2>5
  <2>. QED  BY <1>4, <1>7, <2>1, <2>2, <2>3, <2>6 DEF CallRun
<1>8. ASSUME pc' = "connect"
      PROVE  Supply(work') = Supply(state') + IF coinbase_count' = 1 THEN COINBASE_REWARD ELSE 0
  <2>1. calling'
    BY <1>8 DEF IInv, CallInv
  <2>2. Supply(state) \in Int
    BY SupplyType, LedgerAssumption DEF IInv, TypeOK, ChainTypeOK
  <2>. QED  BY <1>4, <2>1, <2>2
<1>9. pc' # "genesis"
  BY <1>3 DEF Settled, Up, Locked, Unlocked
<1>. QED  BY <1>3, <1>5, <1>6, <1>7, <1>8, <1>9 DEF ResumeInv, RestartResumes

(* The step of a call that has come past one more transaction.              *)
LEMMA CallRunStep ==
  ASSUME IInv, CallRun(now'), calling, blocks' = blocks, state' = state, cb' = cb,
         ti < Len(cb.txns), ti' = ti + 1, ConnectTxn, calling',
         BlockTxnReason(work, cb.txns[ti + 1], cb.header.index, ti, coinbase_count) = "OK"
  PROVE  CallRun(now)'
<1>. DEFINE t == cb.txns[ti + 1]
            one == IF t.from = NullAddr THEN 1 ELSE 0
<1>1. work' = ApplyTxn(work, t) /\ coinbase_count' = coinbase_count + one
  BY DEF ConnectTxn
<1>2. ti \in Nat /\ Len(cb.txns) \in Nat
  BY DEF IInv, TypeOK, ChainTypeOK, Block
<1>3. PICK f : Passed(f, state, cb, ti) /\ f[ti].work = work /\ f[ti].coinbases = coinbase_count
  BY DEF CallRun
<1>4. PICK g : /\ Passed(g, state, cb, ti + 1)
               /\ g[ti + 1].work = ApplyTxn(work, t)
               /\ g[ti + 1].coinbases = coinbase_count + one
  BY <1>2, <1>3, PassedExtend
<1>5. UNCHANGED <<Height, Tip>>
  BY DEF Height, Tip
<1>6. ti' <= Len(cb'.txns)
  BY <1>2
<1>7. \E h : Passed(h, state', cb', ti') /\ h[ti'].work = work' /\ h[ti'].coinbases = coinbase_count'
  BY <1>1, <1>4
<1>. QED  BY <1>5, <1>6, <1>7 DEF CallRun

(* ... and those of the call: each keeps the invariant.                     *)
LEMMA ResumeAdvances ==
  ASSUME NoSelfTransfer, IInv, IInv', FileInv, PlainInv, ResumeInv, [Next]_vars, Advances,
         pc' # "refused"
  PROVE  ResumeInv'
<1>0. TypeOK /\ CallInv /\ LoopInv
  BY DEF IInv
<1>1. now \in Nat /\ now' \in Nat /\ now <= now'
  BY <1>0, ClockForward
<1>2. PICK s : Resumable(s, now) /\ Resumable(s, now')
  BY <1>0, <1>1, ResumableLater DEF ResumeInv
<1>3. calling /\ ConnectStep /\ file' = file /\ CallRun(now')
  <2>1. calling /\ ConnectStep /\ file' = file
    BY <1>0, ConnectStepKinds DEF Advances
  <2>. QED  BY <1>0, <1>1, <2>1, CallRunLater DEF ResumeInv
<1>4. Loaded' = Loaded /\ LoadOK' = LoadOK
  BY <1>3 DEF Loaded, LoadOK
<1>5. /\ pc \in {"connect", "boot"} /\ pc' # "genesis"
      /\ pc = "boot" => pc' = "boot"
      /\ pc = "connect" => \/ pc' = "append" /\ ret' = "OK"
                           \/ pc' \in Settled /\ ret' # "OK"
  BY DEF Advances, Settled, Up, Locked, Unlocked
<1>6. "connect" \in Settled /\ "append" \notin Settled /\ "boot" \notin Settled
  BY DEF Settled, Up, Locked, Unlocked
<1>7. /\ state \in Accounts /\ work \in Accounts /\ cb \in Block /\ ti \in Nat
      /\ blocks \in Seq(Block) /\ Len(blocks) \in Nat /\ Len(blocks) >= 1
      /\ Len(file) \in Nat /\ cb.txns \in Seq(Txn) /\ Len(cb.txns) \in Nat
      /\ Supply(state) \in Int
  <2>1. state \in Accounts /\ work \in Accounts /\ cb \in Block /\ ti \in Nat
      /\ blocks \in Seq(Block) /\ Len(blocks) \in Nat /\ Len(blocks) >= 1 /\ Len(file) \in Nat
    BY <1>0 DEF TypeOK, ChainTypeOK
  <2>2. cb.txns \in Seq(Txn) /\ Len(cb.txns) \in Nat
    BY <2>1 DEF Block
  <2>. QED  BY <2>1, <2>2, SupplyType, LedgerAssumption
<1>8. CASE \E r : r # "OK" /\ Refuse(r)
  <2>1. blocks' = blocks /\ state' = state /\ calling' = FALSE /\ ret' # "OK"
    BY <1>8 DEF Refuse, chainVars
  <2>2. pc' # "append"
    BY <1>5, <1>6, <2>1
  <2>3. pc' # "connect"
    BY <2>1 DEF IInv, CallInv
  <2>4. Resumable(s, now)'
    BY <1>2, <1>3, <1>4, <1>5, <1>6, <2>1, <2>2 DEF Resumable
  <2>. QED  BY <1>3, <1>4, <1>5, <2>1, <2>3, <2>4 DEF ResumeInv, RestartResumes
<1>9. CASE /\ ConnectTxn /\ calling' = calling /\ cb' = cb /\ ret' = ret
           /\ blocks' = blocks /\ state' = state
           /\ ti < Len(cb.txns) /\ ti' = ti + 1
           /\ BlockTxnReason(work, cb.txns[ti + 1], cb.header.index, ti, coinbase_count) = "OK"
           /\ work' = ApplyTxn(work, cb.txns[ti + 1])
  <2>1. CallRun(now)'
    BY <1>3, <1>9, CallRunStep
  <2>2. ret' = "none" /\ pc' # "append"
    BY <1>0, <1>3, <1>5, <1>6, <1>9 DEF CallInv
  <2>3. Resumable(s, now)'
    BY <1>2, <1>3, <1>4, <1>5, <1>6, <1>9, <2>2 DEF Resumable
  <2>4. ASSUME pc' = "connect"
        PROVE  Supply(work') = Supply(state') + IF coinbase_count' = 1 THEN COINBASE_REWARD ELSE 0
    <3>. DEFINE t == cb.txns[ti + 1]
    <3>0. pc = "connect"
      BY <1>5, <2>4
    <3>1. ti + 1 \in 1 .. Len(cb.txns)
      BY <1>7, <1>9
    <3>2. t \in Txn /\ (t.from = NullAddr \/ t.from # t.to)
      <4>1. Plain(t)
        BY <1>3, <3>1, CallPlain
      <4>. QED  BY <1>7, <3>1, <4>1 DEF Plain
    <3>3. coinbase_count \in {0, 1}
      BY <1>0, <3>0 DEF LoopInv
    <3>4. coinbase_count' = coinbase_count + IF t.from = NullAddr THEN 1 ELSE 0
      BY <1>9 DEF ConnectTxn
    <3>5. Supply(work) = Supply(state) + IF coinbase_count = 1 THEN COINBASE_REWARD ELSE 0
      BY <3>0 DEF ResumeInv
    <3>6. BlockTxnReason(work, t, cb.header.index, ti, coinbase_count) = "OK"
      BY <1>9
    <3>. HIDE DEF t
    <3>7. Supply(ApplyTxn(work, t)) = Supply(state) + IF coinbase_count' = 1 THEN COINBASE_REWARD ELSE 0
      <4>. DEFINE S == Supply(state)
      <4>1. S \in Int /\ Supply(work) = S + IF coinbase_count = 1 THEN COINBASE_REWARD ELSE 0
        BY <1>7, <3>5
      <4>. HIDE DEF S
      <4>2. LET d == coinbase_count + IF t.from = NullAddr THEN 1 ELSE 0
            IN Supply(ApplyTxn(work, t)) = S + IF d = 1 THEN COINBASE_REWARD ELSE 0
        BY <1>7, <3>2, <3>3, <3>6, <4>1, GateSupply
      <4>. QED  BY <3>4, <4>2 DEF S
    <3>. QED  BY <1>9, <3>7 DEF t
  <2>. QED  BY <1>3, <1>4, <1>5, <2>1, <2>3, <2>4 DEF ResumeInv, RestartResumes
<1>10. CASE /\ ti = Len(cb.txns) /\ ret' = "OK" /\ calling' = FALSE
            /\ state' = work /\ work' = work /\ blocks' = Append(blocks, cb)
  <2>1. Len(blocks') = Len(blocks) + 1 /\ blocks'[Len(blocks) + 1] = cb
    BY <1>7, <1>10, AppendProperties
  <2>2. CASE pc = "boot"
    <3>1. work = s[Len(blocks) + 1]
      BY <1>2, <1>3, <1>10, <2>2, BootPasses
    <3>2. Resumable(s, now)'
      BY <1>2, <1>3, <1>4, <1>5, <1>6, <1>10, <2>1, <2>2, <3>1 DEF Resumable
    <3>. QED  BY <1>3, <1>4, <1>5, <1>10, <2>2, <3>2 DEF ResumeInv, RestartResumes
  <2>3. CASE pc = "connect"
    <3>. DEFINE n == Len(file)
    <3>1. /\ pc' = "append" /\ Len(blocks) = n /\ SameUpTo(n)
      BY <1>5, <1>6, <1>10, <2>3 DEF FileInv
    <3>2. file # <<>> /\ n \in 1 .. n
      BY <1>7, <3>1
    <3>3. blocks[n] = file[n].block
      BY <3>2, <3>1 DEF SameUpTo
    <3>4. state = s[n] /\ Supply(s[n]) = SupplyAt(n - 1)
      BY <1>2, <1>6, <2>3, <3>2 DEF Resumable
    <3>5. HeaderReason(cb, n, file[n].block.header, now', Difficulty) = "OK"
      <4>1. HeaderReason(cb, Height + 1, Tip, now', Difficulty) = "OK"
        BY <1>3 DEF CallRun
      <4>2. Height + 1 = n /\ Tip = file[n].block.header
        BY <1>7, <3>1, <3>3 DEF Height, Tip
      <4>. QED  BY <4>1, <4>2
    <3>6. /\ coinbase_count = IF Difficulty > 0 THEN 1 ELSE 0
      <4>1. /\ coinbase_count = IF Difficulty > 0 /\ ti > 0 THEN 1 ELSE 0
            /\ Difficulty > 0 => Len(cb.txns) >= 1
        BY <1>0, <2>3 DEF LoopInv, IsBatch
      <4>. QED  BY <1>7, <1>10, <4>1
    <3>7. Difficulty \in Nat /\ COINBASE_REWARD \in Nat /\ COINBASE_REWARD > 0
      BY LedgerAssumption, DifficultyAssumption
    <3>8. CoinbaseCountReason(coinbase_count, Reward) = "OK"
          /\ (IF coinbase_count = 1 THEN COINBASE_REWARD ELSE 0) = Reward
      BY <3>6, <3>7 DEF CoinbaseCountReason, Reward
    <3>9. /\ ApplyBlockTxns(s[n], cb, Reward).reason = "OK"
          /\ ApplyBlockTxns(s[n], cb, Reward).work = work
      <4>1. PICK f : Passed(f, state, cb, ti) /\ f[ti].work = work /\ f[ti].coinbases = coinbase_count
        BY <1>3 DEF CallRun
      <4>2. /\ ApplyBlockTxns(state, cb, Reward).reason = "OK"
            /\ ApplyBlockTxns(state, cb, Reward).work = work
        <5>. DEFINE st == state
                    b == cb
                    r == Reward
                    m == Len(cb.txns)
        <5>1. st \in Accounts /\ b \in Block /\ m = Len(b.txns)
          BY <1>7
        <5>2. Passed(f, st, b, m) /\ CoinbaseCountReason(f[m].coinbases, r) = "OK" /\ f[m].work = work
          BY <1>10, <3>8, <4>1
        <5>. HIDE DEF st, b, r, m
        <5>3. /\ ApplyBlockTxns(st, b, r).reason = "OK"
              /\ ApplyBlockTxns(st, b, r).work = f[m].work
          BY <5>1, <5>2, PassedApplies
        <5>. QED  BY <5>2, <5>3 DEF st, b, r, m
      <4>. QED  BY <3>4, <4>2
    <3>10. Supply(work) = SupplyAt(n)
      <4>1. Supply(work) = Supply(state) + Reward
        BY <2>3, <3>8 DEF ResumeInv
      <4>2. Reward \in Nat /\ GENESIS_SUPPLY \in Int /\ n \in Nat
        BY <1>7, RewardType
      <4>. HIDE DEF n
      <4>3. (n - 1) * Reward + Reward = n * Reward /\ (n - 1) * Reward \in Int
        BY <4>2
      <4>4. Supply(state) = GENESIS_SUPPLY + (n - 1) * Reward
        BY <3>4 DEF SupplyAt
      <4>5. Supply(work) = GENESIS_SUPPLY + n * Reward
        BY <4>1, <4>2, <4>3, <4>4
      <4>. QED  BY <4>5 DEF SupplyAt
    <3>11. blocks'[Len(blocks')] = cb
      BY <2>1
    <3>12. Resumable(s, now)'
      <4>1. /\ Path(s, Loaded', Len(file'), now', Difficulty, Reward)
            /\ Supply(s[Len(file')]) = SupplyAt(Len(file') - 1)
        BY <1>2, <1>3, <1>4, <3>2 DEF Resumable
      <4>2. pc' # "boot" /\ pc' \notin Settled /\ file' # <<>>
        BY <1>3, <1>6, <3>1, <3>2
      <4>3. /\ HeaderReason(blocks'[Len(blocks')], Len(file'), file'[Len(file')].block.header, now',
                            Difficulty) = "OK"
            /\ ApplyBlockTxns(s[Len(file')], blocks'[Len(blocks')], Reward).reason = "OK"
            /\ ApplyBlockTxns(s[Len(file')], blocks'[Len(blocks')], Reward).work = state'
            /\ Supply(state') = SupplyAt(Len(file'))
        BY <1>3, <1>10, <3>5, <3>9, <3>10, <3>11
      <4>. QED  BY <4>1, <4>2, <4>3 DEF Resumable, SupplyAt, Reward
    <3>. QED  BY <1>3, <1>4, <1>5, <1>10, <3>1, <3>12 DEF ResumeInv, RestartResumes
  <2>. QED  BY <1>5, <2>2, <2>3
<1>. QED  BY <1>0, <1>3, <1>8, <1>9, <1>10, ConnectStepKinds

(* Every step is one of these.                                              *)
LEMMA ResumeStep ==
  ASSUME DiskAtomic, NoSelfTransfer, DInv, DInv', ResumeInv, [Next]_vars
  PROVE  ResumeInv'
<1>1. IInv /\ IInv' /\ FileInv /\ PlainInv /\ TypeOK
  BY DEF DInv, IInv
<1>2. pc' # "refused"
  BY <1>1, NeverRefuses
<1>. QED  BY <1>1, <1>2, StepKinds, ResumeQuiet, ResumeRestart, ResumeWrites, ResumeOffers,
             ResumeAdvances

(* Whenever the node crashed, in the middle of a block, of a write or of a  *)
(* boot, it starts again: boot never refuses the file (main.cpp, "a restart *)
(* replay-validates and resumes"). This needs a write to be atomic, a torn  *)
(* line being the known finding, and no transfer of an account to itself,   *)
(* which mints and so fails the supply check of the replay.                 *)
THEOREM AlwaysResumes == DiskAtomic /\ NoSelfTransfer => (Spec => []RestartResumes)
<1>. SUFFICES ASSUME DiskAtomic, NoSelfTransfer PROVE Spec => []RestartResumes
  OBVIOUS
<1>1. DiskHonest
  BY DEF DiskAtomic, DiskHonest
<1>2. Init => DInv /\ ResumeInv
  BY DInvInit, ResumeInit
<1>3. DInv /\ ResumeInv /\ [Next]_vars => (DInv /\ ResumeInv)'
  BY <1>1, DInvStep, ResumeStep
<1>4. ResumeInv => RestartResumes
  BY DEF ResumeInv
<1>. QED  BY <1>2, <1>3, <1>4, PTL DEF Spec
=============================================================================
