----------------------------- MODULE ChainProofs ----------------------------
(***************************************************************************)
(* Proofs about class Chain under any callers, for every set of accounts   *)
(* and transfers and every bound: its incremental state is what replay     *)
(* from genesis computes and what the history of its blocks adds up to,    *)
(* the undo log undoes, and the supply is conserved.                       *)
(***************************************************************************)
EXTENDS ChainClient, LedgerProofs

(* The coinbase of the miner is a transaction.                              *)
LEMMA CoinbaseType ==
  ASSUME NEW h \in Nat
  PROVE  CoinbaseTxn(Miner, h) \in Txn
BY LedgerAssumption, ChainClientAssumption DEF CoinbaseTxn, Txn, Acct, Auth

(* The hypotheses: that no transfer pays its own sender, as far as balances *)
(* must add up, ...                                                         *)
NoSelfTransfers == \A t \in Transfers : t.from # t.to

(* ... and that no coinbase comes without proof of work, where it has no    *)
(* reward to match.                                                         *)
NoMinting == NoSelfTransfers /\ (WithCoinbase => Difficulty > 0)

(* A body as the callers build them, under either hypothesis.               *)
Sound(txns) ==
  /\ txns \in Seq(Txn)
  /\ NoSelfTransfers => \A i \in 1 .. Len(txns) : txns[i].from # txns[i].to
  /\ NoMinting /\ Difficulty = 0 => \A i \in 1 .. Len(txns) : txns[i].from # NullAddr

(* Bodies in a row are a body.                                              *)
LEMMA SoundConcat ==
  ASSUME NEW s, NEW t, Sound(s), Sound(t)
  PROVE  Sound(s \o t)
<1>1. s \in Seq(Txn) /\ t \in Seq(Txn)
  BY DEF Sound
<1>2. /\ s \o t \in Seq(Txn)
      /\ Len(s \o t) = Len(s) + Len(t)
      /\ \A i \in 1 .. Len(s) + Len(t) :
           (s \o t)[i] = IF i <= Len(s) THEN s[i] ELSE t[i - Len(s)]
  BY <1>1, ConcatProperties
<1>3. ASSUME NEW i \in 1 .. Len(s \o t)
      PROVE  \/ \E j \in 1 .. Len(s) : (s \o t)[i] = s[j]
             \/ \E j \in 1 .. Len(t) : (s \o t)[i] = t[j]
  <2>1. Len(s) \in Nat /\ Len(t) \in Nat
    BY <1>1
  <2>2. CASE i <= Len(s)
    <3>1. i \in 1 .. Len(s)
      BY <1>2, <2>1, <2>2
    <3>. QED  BY <1>2, <2>1, <2>2, <3>1
  <2>3. CASE ~(i <= Len(s))
    <3>1. i - Len(s) \in 1 .. Len(t)
      BY <1>2, <2>1, <2>3
    <3>. QED  BY <1>2, <2>1, <2>3, <3>1
  <2>. QED  BY <2>2, <2>3
<1>. QED  BY <1>2, <1>3 DEF Sound

(* The bodies that callers offer are sound.                                 *)
LEMMA BodiesSound ==
  ASSUME ChainTypeOK, NEW txns \in Bodies
  PROVE  Sound(txns)
<1>. DEFINE good == CoinbaseTxn(Miner, Height + 1)
<1>0. Height \in Nat /\ good \in Txn
  <2>1. Height \in Nat
    BY DEF ChainTypeOK, Height
  <2>. QED  BY <2>1, CoinbaseType
<1>1. ASSUME NEW s \in TransferLists PROVE Sound(s)
  <2>1. PICK n \in 0 .. MaxTransfers : s \in [1 .. n -> Transfers]
    BY DEF TransferLists
  <2>2. n \in Nat /\ Len(s) = n /\ s \in Seq(Txn)
    <3>1. n \in Nat /\ s \in Seq(Transfers)
      BY <2>1, ChainClientAssumption
    <3>. QED  BY <2>1, <3>1, ChainClientAssumption
  <2>3. \A i \in 1 .. n : s[i] \in Transfers
    BY <2>1
  <2>. QED  BY <2>2, <2>3, ChainClientAssumption, LedgerAssumption DEF Sound, NoSelfTransfers
<1>. SUFFICES ASSUME WithCoinbase PROVE Sound(txns)
  BY <1>1 DEF Bodies
<1>2. NoMinting => Difficulty # 0
  BY DifficultyAssumption DEF NoMinting
<1>3. ASSUME NEW t \in Txn, t.from # t.to
      PROVE  Sound(<<t>>)
  <2>1. <<t>> \in Seq(Txn) /\ Len(<<t>>) = 1 /\ <<t>>[1] = t
    OBVIOUS
  <2>. QED  BY <1>2, <1>3, <2>1 DEF Sound
<1>4. good.from = NullAddr /\ good.to = Miner /\ NullAddr # Miner
  BY LedgerAssumption, ChainClientAssumption DEF CoinbaseTxn
<1>5. ASSUME NEW c \in CoinbaseTries PROVE Sound(c)
  <2>. HIDE DEF good
  <2>1. good \in Txn /\ good.from # good.to
    BY <1>0, <1>4
  <2>2. /\ [good EXCEPT !.nonce = Height] \in Txn
        /\ [good EXCEPT !.nonce = Height].from # [good EXCEPT !.nonce = Height].to
    BY <1>0, <2>1 DEF Txn
  <2>3. /\ [good EXCEPT !.amount = @ + 1] \in Txn
        /\ [good EXCEPT !.amount = @ + 1].from # [good EXCEPT !.amount = @ + 1].to
    BY <1>0, <2>1 DEF Txn
  <2>4. /\ [good EXCEPT !.auth = "badSig"] \in Txn
        /\ [good EXCEPT !.auth = "badSig"].from # [good EXCEPT !.auth = "badSig"].to
    BY <1>0, <2>1 DEF Txn, Auth
  <2>5. Sound(<<>>)
    BY DEF Sound
  <2>6. Sound(<<good, good>>)
    <3>1. <<good, good>> = <<good>> \o <<good>>
      OBVIOUS
    <3>. QED  BY <1>3, <2>1, <3>1, SoundConcat
  <2>7. c \in {<<>>, <<good>>, <<good, good>>, <<[good EXCEPT !.nonce = Height]>>,
               <<[good EXCEPT !.amount = @ + 1]>>, <<[good EXCEPT !.auth = "badSig"]>>}
    BY <1>5 DEF CoinbaseTries, good
  <2>. QED  BY <1>3, <2>1, <2>2, <2>3, <2>4, <2>5, <2>6, <2>7
<1>6. CASE txns \in {c \o s : c \in CoinbaseTries, s \in TransferLists}
  <2>1. PICK c \in CoinbaseTries, s \in TransferLists : txns = c \o s
    BY <1>6
  <2>. QED  BY <1>1, <1>5, <2>1, SoundConcat
<1>7. CASE txns \in {s \o <<CoinbaseTxn(Miner, Height + 1)>> : s \in TransferLists}
  <2>1. Sound(<<good>>)
    BY <1>0, <1>3, <1>4
  <2>. QED  BY <1>1, <1>7, <2>1, SoundConcat
<1>. DEFINE X == {c \o s : c \in CoinbaseTries, s \in TransferLists}
            Y == {s \o <<CoinbaseTxn(Miner, Height + 1)>> : s \in TransferLists}
<1>8. Bodies = IF WithCoinbase THEN X \cup Y ELSE TransferLists
  BY DEF Bodies
<1>. HIDE DEF X, Y
<1>9. txns \in X \/ txns \in Y
  BY <1>8
<1>. QED  BY <1>6, <1>7, <1>9 DEF X, Y

(* An offered block is a block of the body it was made for.                 *)
LEMMA OffersType ==
  ASSUME ChainTypeOK, NEW txns \in Seq(Txn), NEW b \in Offers(txns)
  PROVE  b \in Block /\ b.txns = txns
<1>1. Height \in Nat /\ Tip \in BlockHeader /\ now \in Nat
  <2>1. Len(blocks) \in 1 .. Len(blocks) /\ blocks[Len(blocks)] \in Block
    BY DEF ChainTypeOK
  <2>. QED  BY <2>1 DEF ChainTypeOK, Height, Tip, Block
<1>2. TipHash \in Hash256 /\ Tip.prevHash \in Hash256
  BY <1>1 DEF TipHash, HeaderHash, BlockHeader, Hash256, HeaderCore
<1>3. ASSUME NEW ts \in Nat
      PROVE  /\ Candidate(txns, ts) \in Block /\ Candidate(txns, ts).txns = txns
  <2>1. [index |-> Height + 1, timestamp |-> ts, prevHash |-> TipHash,
         txnsHash |-> txns, nonce |-> "found"] \in BlockHeader
    BY <1>1, <1>2 DEF BlockHeader, PowNonce
  <2>. QED  BY <2>1 DEF Candidate, Block
<1>. DEFINE good == Candidate(txns, Tip.timestamp + 1)
<1>4. Tip.timestamp \in Nat /\ Tip.timestamp + 1 \in Nat /\ MAX_CLOCK_SKEW_S \in Nat
  BY <1>1, LedgerAssumption DEF BlockHeader
<1>5. good \in Block /\ good.txns = txns
  BY <1>3, <1>4
<1>6. Append(txns, CoinbaseTxn(Miner, 0)) \in Seq(Txn)
  BY CoinbaseType
<1>7. b \in {good,
      Candidate(txns, now + MAX_CLOCK_SKEW_S),
      Candidate(txns, now + MAX_CLOCK_SKEW_S + 1),
      Candidate(txns, Tip.timestamp),
      [good EXCEPT !.header.index = Height],
      [good EXCEPT !.header.prevHash = Tip.prevHash],
      [good EXCEPT !.header.nonce = "zero"],
      [good EXCEPT !.header.txnsHash = Append(txns, CoinbaseTxn(Miner, 0))]}
  BY DEF Offers
<1>. HIDE DEF good
<1>8. /\ [good EXCEPT !.header.index = Height] \in Block
      /\ [good EXCEPT !.header.index = Height].txns = txns
  BY <1>1, <1>5 DEF Block, BlockHeader
<1>9. /\ [good EXCEPT !.header.prevHash = Tip.prevHash] \in Block
      /\ [good EXCEPT !.header.prevHash = Tip.prevHash].txns = txns
  BY <1>2, <1>5 DEF Block, BlockHeader
<1>10. /\ [good EXCEPT !.header.nonce = "zero"] \in Block
       /\ [good EXCEPT !.header.nonce = "zero"].txns = txns
  BY <1>5 DEF Block, BlockHeader, PowNonce
<1>11. /\ [good EXCEPT !.header.txnsHash = Append(txns, CoinbaseTxn(Miner, 0))] \in Block
       /\ [good EXCEPT !.header.txnsHash = Append(txns, CoinbaseTxn(Miner, 0))].txns = txns
  BY <1>5, <1>6 DEF Block, BlockHeader
<1>12. now + MAX_CLOCK_SKEW_S \in Nat /\ now + MAX_CLOCK_SKEW_S + 1 \in Nat
  BY <1>1, <1>4
<1>. QED  BY <1>3, <1>4, <1>5, <1>7, <1>8, <1>9, <1>10, <1>11, <1>12

-----------------------------------------------------------------------------
(* Replay and the chain.                                                    *)

(* The accounts that the first n transactions of a block name.              *)
Touched(b, n) == {b.txns[i].from : i \in 1 .. n} \cup {b.txns[i].to : i \in 1 .. n}

(* What CommitDelta keeps: some accounts as they were.                      *)
UndoEntry == UNION {[A -> AccountState] : A \in SUBSET Acct}

(* s is the way the chain leads through: it ends in the state, no step of   *)
(* it mints but the reward, each undo entry is the delta of its block, and  *)
(* a block changes no account that it does not name.                        *)
Chained(s) ==
  /\ Path(s, blocks, Len(blocks), now, Difficulty, Reward)
  /\ s[Len(blocks)] = state
  /\ NoMinting =>
       \A k \in 1 .. Len(blocks) : Supply(s[k]) = GENESIS_SUPPLY + (k - 1) * Reward
  /\ \A k \in 2 .. Len(blocks) :
       /\ undoLog[k - 1] = CommitDelta(blocks[k], s[k - 1])
       /\ \A a \in Acct \ Touched(blocks[k], Len(blocks[k].txns)) : s[k][a] = s[k - 1][a]

(* A call under way has come as far as applyBlockTxns would, with a body    *)
(* and coinbases that keep the supply right.                                *)
InCall ==
  /\ HeaderReason(cb, Height + 1, Tip, now, Difficulty) = "OK"
  /\ Sound(cb.txns)
  /\ ti <= Len(cb.txns)
  /\ \E f : Passed(f, state, cb, ti) /\ f[ti].work = work /\ f[ti].coinbases = coinbase_count
  /\ coinbase_count \in {0, 1}
  /\ NoMinting => /\ Difficulty = 0 => coinbase_count = 0
                  /\ Supply(work) = Supply(state) + IF coinbase_count = 1 THEN COINBASE_REWARD
                                                    ELSE 0
  /\ \A a \in Acct \ Touched(cb, ti) : work[a] = state[a]

(* The inductive invariant: the chain has a way, and a call keeps to one.   *)
ReplayInv ==
  /\ ChainTypeOK
  /\ undoLog \in Seq(UndoEntry) /\ Len(undoLog) = Height
  /\ ~calling => work = state
  /\ calling => InCall
  /\ \E s : Chained(s)

(* genesis has its way.                                                     *)
LEMMA ReplayInit == Init => ReplayInv
<1>. SUFFICES ASSUME Init PROVE ReplayInv
  OBVIOUS
<1>. USE DEF Init, ChainNew, NotCalling
<1>1. ChainTypeOK
  <2>1. GenesisBlock \in Block /\ ApplyGenesis \in Accounts
    BY GenesisType
  <2>2. blocks \in Seq(Block) /\ Len(blocks) >= 1
    BY <2>1
  <2>. QED  BY <2>1, <2>2 DEF ChainTypeOK
<1>2. undoLog \in Seq(UndoEntry) /\ Len(undoLog) = Height
  BY DEF Height
<1>3. Chained([k \in {1} |-> ApplyGenesis])
  <2>. DEFINE s == [k \in {1} |-> ApplyGenesis]
  <2>1. s[1] = ApplyGenesis /\ Len(blocks) = 1 /\ blocks[1] = GenesisBlock
    OBVIOUS
  <2>. HIDE DEF s
  <2>2. GenesisReason(GenesisBlock) = "OK"
    BY DEF GenesisReason, GenesisBlock, ComputeTxnsHash
  <2>3. Path(s, blocks, Len(blocks), now, Difficulty, Reward)
    BY <2>1, <2>2 DEF Path
  <2>4. Supply(s[1]) = GENESIS_SUPPLY + (1 - 1) * Reward
    <3>1. GENESIS_SUPPLY \in Int
      BY SupplyType, LedgerAssumption, GenesisType DEF GENESIS_SUPPLY
    <3>2. Reward \in Nat
      BY LedgerAssumption DEF Reward
    <3>3. (1 - 1) * Reward = 0
      BY <3>2
    <3>. QED  BY <2>1, <3>1, <3>3 DEF GENESIS_SUPPLY
  <2>5. \A k \in 1 .. Len(blocks) : Supply(s[k]) = GENESIS_SUPPLY + (k - 1) * Reward
    <3>1. \A k \in 1 .. Len(blocks) : k = 1
      BY <2>1
    <3>. QED  BY <2>4, <3>1
  <2>. QED  BY <2>1, <2>3, <2>5 DEF Chained, s
<1>. QED  BY <1>1, <1>2, <1>3 DEF ReplayInv

(* Nothing of the chain changes, the clock does not go back.                *)
LEMMA ChainedFrame ==
  ASSUME ChainTypeOK, UNCHANGED chainVars, now' \in Nat, now <= now', NEW s, Chained(s)
  PROVE  Chained(s)'
<1>1. Len(blocks) \in 1 .. Len(blocks) /\ now \in Nat /\ blocks \in Seq(Block)
  BY DEF ChainTypeOK
<1>2. Path(s, blocks, Len(blocks), now', Difficulty, Reward)
  BY <1>1, PathLater DEF Chained
<1>. QED  BY <1>2 DEF Chained, chainVars, Reward

(* A refusal leaves the chain as it was.                                    *)
LEMMA RefuseKeeps ==
  ASSUME ReplayInv, NEW r \in Reason, Refuse(r), UNCHANGED now
  PROVE  ReplayInv'
<1>1. ChainTypeOK'
  BY GenesisType DEF ReplayInv, ChainTypeOK, Refuse, chainVars
<1>2. PICK s : Chained(s)
  BY DEF ReplayInv
<1>3. Chained(s)'
  <2>1. ChainTypeOK /\ UNCHANGED chainVars /\ now' \in Nat /\ now <= now'
    BY DEF ReplayInv, ChainTypeOK, Refuse
  <2>. QED  BY <1>2, <2>1, ChainedFrame
<1>. QED  BY <1>1, <1>3 DEF ReplayInv, Refuse, chainVars, Height

(* A call begins on a block whose header passed, or is refused.             *)
LEMMA OfferKeeps ==
  ASSUME ReplayInv, Offer
  PROVE  ReplayInv'
<1>1. PICK txns \in Bodies : \E b \in Offers(txns) : ConnectCall(b)
  BY DEF Offer
<1>2. PICK b \in Offers(txns) : ConnectCall(b)
  BY <1>1
<1>3. ChainTypeOK
  BY DEF ReplayInv
<1>4. Sound(txns)
  BY <1>3, BodiesSound
<1>5. b \in Block /\ b.txns = txns
  BY <1>3, <1>4, OffersType DEF Sound
<1>. DEFINE r == HeaderReason(b, Height + 1, Tip, now, Difficulty)
<1>6. r \in Reason
  BY HeaderReasonType
<1>7. now' = now
  BY DEF Offer
<1>8. CASE r # "OK"
  <2>1. Refuse(r)
    BY <1>2, <1>8 DEF ConnectCall
  <2>. HIDE DEF r
  <2>. QED  BY <1>6, <1>7, <2>1, RefuseKeeps
<1>9. CASE r = "OK"
  <2>1. /\ calling' = TRUE /\ cb' = b /\ work' = state /\ ti' = 0 /\ coinbase_count' = 0
        /\ ret' = "none" /\ UNCHANGED chainVars
    BY <1>2, <1>9 DEF ConnectCall
  <2>2. ChainTypeOK'
    BY <1>3, <1>5, <1>7, <2>1 DEF ChainTypeOK, chainVars
  <2>3. PICK s : Chained(s)
    BY DEF ReplayInv
  <2>4. Chained(s)'
    <3>1. now' \in Nat /\ now <= now'
      BY <1>3, <1>7 DEF ChainTypeOK
    <3>. QED  BY <1>3, <2>1, <2>3, <3>1, ChainedFrame
  <2>5. InCall'
    <3>1. UNCHANGED <<Height, Tip, state>>
      BY <2>1 DEF chainVars, Height, Tip
    <3>2. HeaderReason(cb, Height + 1, Tip, now, Difficulty)' = "OK"
      BY <1>7, <1>9, <2>1, <3>1
    <3>3. Sound(cb.txns)' /\ (ti <= Len(cb.txns))'
      <4>1. Len(txns) \in Nat
        BY <1>4 DEF Sound
      <4>. QED  BY <1>4, <1>5, <2>1, <4>1 DEF Sound
    <3>4. \E f : Passed(f, state', cb', ti') /\ f[ti'].work = work' /\ f[ti'].coinbases = coinbase_count'
      <4>. DEFINE f == [k \in {0} |-> [reason |-> "OK", work |-> state, coinbases |-> 0]]
      <4>1. f[0] = [reason |-> "OK", work |-> state, coinbases |-> 0]
        OBVIOUS
      <4>. HIDE DEF f
      <4>2. Passed(f, state, b, 0)
        BY <4>1 DEF Passed
      <4>. QED  BY <2>1, <3>1, <4>1, <4>2
    <3>5. Supply(work') = Supply(state') + 0
      <4>1. Supply(state) \in Int
        BY <1>3, LedgerAssumption, SupplyType DEF ChainTypeOK
      <4>. QED  BY <2>1, <3>1, <4>1
    <3>. QED  BY <2>1, <3>1, <3>2, <3>3, <3>4, <3>5 DEF InCall
  <2>. QED  BY <2>1, <2>2, <2>4, <2>5 DEF ReplayInv, chainVars, Height
<1>. QED  BY <1>8, <1>9

(* What was not too far ahead of the clock is not so later.                 *)
LEMMA TickKeeps ==
  ASSUME ReplayInv, Tick
  PROVE  ReplayInv'
<1>1. now' = now + 1 /\ UNCHANGED <<chainVars, callVars>>
  BY DEF Tick
<1>2. ChainTypeOK /\ ChainTypeOK'
  BY <1>1 DEF ReplayInv, ChainTypeOK, chainVars, callVars
<1>3. PICK s : Chained(s)
  BY DEF ReplayInv
<1>4. Chained(s)'
  <2>1. UNCHANGED chainVars /\ now' \in Nat /\ now <= now'
    BY <1>1, <1>2 DEF ChainTypeOK
  <2>. QED  BY <1>2, <1>3, <2>1, ChainedFrame
<1>5. ASSUME calling PROVE InCall'
  <2>1. InCall
    BY <1>5 DEF ReplayInv
  <2>2. UNCHANGED <<Height, Tip, state, calling, cb, work, ti, coinbase_count>>
    BY <1>1 DEF chainVars, callVars, Height, Tip
  <2>3. HeaderReason(cb, Height + 1, Tip, now', Difficulty) = "OK"
    <3>1. HeaderReason(cb, Height + 1, Tip, now, Difficulty) = "OK"
      BY <2>1 DEF InCall
    <3>2. cb \in Block /\ now \in Nat /\ now' \in Nat /\ now <= now'
      BY <1>1, <1>2 DEF ChainTypeOK
    <3>. QED  BY <3>1, <3>2, HeaderLater
  <2>. QED  BY <2>1, <2>2, <2>3 DEF InCall
<1>. QED  BY <1>1, <1>2, <1>4, <1>5 DEF ReplayInv, chainVars, callVars, Height

(* One more transaction of the call: it continues the run, or refuses.      *)
LEMMA ConnectTxnKeeps ==
  ASSUME ReplayInv, ConnectTxn, UNCHANGED now
  PROVE  ReplayInv'
<1>. DEFINE t == cb.txns[ti + 1]
            r == BlockTxnReason(work, t, cb.header.index, ti, coinbase_count)
<1>0. ChainTypeOK /\ calling /\ ti < Len(cb.txns) /\ InCall
  BY DEF ConnectTxn, ReplayInv
<1>1. t \in Txn /\ ti \in Nat /\ ti + 1 \in 1 .. Len(cb.txns) /\ Len(cb.txns) \in Nat
  <2>1. cb.txns \in Seq(Txn) /\ ti \in Nat
    BY <1>0 DEF ChainTypeOK, Block
  <2>2. Len(cb.txns) \in Nat
    BY <2>1
  <2>3. ti + 1 \in 1 .. Len(cb.txns)
    BY <1>0, <2>1, <2>2
  <2>. QED  BY <2>1, <2>2, <2>3
<1>2. r \in Reason
  BY ReasonType
<1>3. CASE r # "OK"
  <2>1. Refuse(r)
    BY <1>3 DEF ConnectTxn
  <2>. HIDE DEF r
  <2>. QED  BY <1>2, <2>1, RefuseKeeps
<1>4. CASE r = "OK"
  <2>. DEFINE one == IF t.from = NullAddr THEN 1 ELSE 0
  <2>1. /\ work' = ApplyTxn(work, t) /\ ti' = ti + 1
        /\ coinbase_count' = coinbase_count + one
        /\ UNCHANGED <<calling, cb, ret>> /\ UNCHANGED chainVars
    BY <1>4 DEF ConnectTxn
  <2>2. ApplyTxn(work, t) \in Accounts
    BY <1>0, <1>1, <1>4, ApplyTxnType DEF ChainTypeOK
  <2>3. ChainTypeOK'
    BY <1>0, <1>1, <2>1, <2>2 DEF ChainTypeOK, chainVars
  <2>4. PICK s : Chained(s)
    BY DEF ReplayInv
  <2>5. Chained(s)'
    <3>1. now' \in Nat /\ now <= now'
      BY <1>0 DEF ChainTypeOK
    <3>. QED  BY <1>0, <2>1, <2>4, <3>1, ChainedFrame
  <2>6. NoMinting => t.from # t.to /\ (Difficulty = 0 => t.from # NullAddr)
    BY <1>0, <1>1 DEF InCall, Sound, NoMinting
  <2>7. t.from = NullAddr => coinbase_count = 0 /\ t.amount = COINBASE_REWARD
    BY <1>0, <1>4 DEF BlockTxnReason, CoinbaseShapeReason, InCall
  <2>8. coinbase_count \in {0, 1} /\ coinbase_count' \in {0, 1}
        /\ (NoMinting => (Difficulty = 0 => coinbase_count' = 0))
    BY <1>0, <2>1, <2>6, <2>7 DEF InCall
  <2>9. \E f : Passed(f, state', cb', ti') /\ f[ti'].work = work' /\ f[ti'].coinbases = coinbase_count'
    <3>1. PICK f : Passed(f, state, cb, ti) /\ f[ti].work = work /\ f[ti].coinbases = coinbase_count
      BY <1>0 DEF InCall
    <3>2. PICK g : /\ Passed(g, state, cb, ti + 1)
                   /\ g[ti + 1].work = ApplyTxn(work, t)
                   /\ g[ti + 1].coinbases = coinbase_count + one
      BY <1>1, <1>4, <3>1, PassedExtend
    <3>3. state' = state /\ cb' = cb
      BY <2>1 DEF chainVars
    <3>. QED  BY <2>1, <3>2, <3>3
  <2>10. ASSUME NoMinting
         PROVE  Supply(work') = Supply(state') + IF coinbase_count' = 1 THEN COINBASE_REWARD ELSE 0
    <3>1. Supply(work') = Supply(work) + Minted(t)
      BY <1>0, <1>1, <2>1, LedgerAssumption, ApplyTxnSupply DEF ChainTypeOK
    <3>2. Supply(work) = Supply(state) + IF coinbase_count = 1 THEN COINBASE_REWARD ELSE 0
      BY <1>0, <2>10 DEF InCall
    <3>3. Minted(t) = IF t.from = NullAddr THEN COINBASE_REWARD ELSE 0
      BY <2>6, <2>7, <2>10 DEF Minted
    <3>4. Supply(state) \in Int /\ COINBASE_REWARD \in Nat
      BY <1>0, LedgerAssumption, SupplyType DEF ChainTypeOK
    <3>5. state' = state
      BY <2>1 DEF chainVars
    <3>. HIDE DEF t
    <3>6. CASE t.from = NullAddr
      <4>1. coinbase_count = 0 /\ coinbase_count' = 1
        BY <2>1, <2>7, <3>6
      <4>. QED  BY <3>1, <3>2, <3>3, <3>4, <3>5, <3>6, <4>1
    <3>7. CASE t.from # NullAddr
      <4>1. coinbase_count' = coinbase_count
        BY <2>1, <2>8, <3>7
      <4>. QED  BY <3>1, <3>2, <3>3, <3>4, <3>5, <3>7, <4>1
    <3>. QED  BY <3>6, <3>7
  <2>11. ASSUME NEW a \in Acct \ Touched(cb, ti + 1) PROVE work'[a] = state[a]
    <3>1. a \notin Touched(cb, ti) /\ a # t.from /\ a # t.to
      BY <1>1, <2>11 DEF Touched
    <3>2. work[a] = state[a]
      BY <1>0, <3>1 DEF InCall
    <3>3. ApplyTxn(work, t)[a] = work[a]
      <4>1. work \in Accounts /\ t.from \in Acct /\ t.to \in Acct
        BY <1>0, <1>1 DEF ChainTypeOK, Txn
      <4>. HIDE DEF t
      <4>. QED  BY <3>1, <4>1 DEF ApplyTxn, Credit, Accounts
    <3>. QED  BY <2>1, <3>2, <3>3
  <2>12. InCall'
    <3>1. UNCHANGED <<Height, Tip, state, cb>>
      BY <2>1 DEF chainVars, Height, Tip
    <3>2. HeaderReason(cb, Height + 1, Tip, now, Difficulty)' = "OK"
      BY <1>0, <3>1 DEF InCall
    <3>3. Sound(cb.txns)' /\ (ti <= Len(cb.txns))'
      BY <1>0, <1>1, <2>1, <3>1 DEF InCall, Sound
    <3>. QED  BY <2>1, <2>8, <2>9, <2>10, <2>11, <3>1, <3>2, <3>3 DEF InCall
  <2>. QED  BY <1>0, <2>1, <2>3, <2>5, <2>12 DEF ReplayInv, chainVars, Height
<1>. QED  BY <1>3, <1>4

(* The call returns: the block it commits continues the way by the state    *)
(* the run reached, and the delta it keeps is that block's.                 *)
LEMMA ConnectReturnKeeps ==
  ASSUME ReplayInv, ConnectReturn, UNCHANGED now
  PROVE  ReplayInv'
<1>. DEFINE r == CoinbaseCountReason(coinbase_count, Reward)
            n == Len(blocks)
<1>0. ChainTypeOK /\ calling /\ ti = Len(cb.txns) /\ InCall
  BY DEF ConnectReturn, ReplayInv
<1>1. CASE r # "OK"
  <2>1. r \in Reason
    BY DEF CoinbaseCountReason, Reason
  <2>2. Refuse(r)
    BY <1>1 DEF ConnectReturn
  <2>. HIDE DEF r
  <2>. QED  BY <2>1, <2>2, RefuseKeeps
<1>2. CASE r = "OK"
  <2>1. /\ state' = work /\ blocks' = Append(blocks, cb)
        /\ undoLog' = Append(undoLog, CommitDelta(cb, state))
        /\ calling' = FALSE /\ cb' = GenesisBlock /\ ti' = 0 /\ coinbase_count' = 0
        /\ ret' = "OK" /\ work' = work
    BY <1>2 DEF ConnectReturn
  <2>2. /\ blocks \in Seq(Block) /\ cb \in Block /\ n \in Nat /\ n >= 1 /\ blocks # <<>>
        /\ state \in Accounts /\ work \in Accounts /\ now \in Nat
    BY <1>0 DEF ChainTypeOK
  <2>3. /\ blocks' \in Seq(Block) /\ Len(blocks') = n + 1 /\ blocks'[n + 1] = cb
        /\ \A k \in 1 .. n : blocks'[k] = blocks[k]
    BY <2>1, <2>2, AppendProperties
  <2>4. ChainTypeOK'
    <3>1. Len(blocks') >= 1 /\ "OK" \in Reason /\ now' \in Nat
      BY <2>2, <2>3 DEF Reason
    <3>2. GenesisBlock \in Block
      BY GenesisType
    <3>. QED  BY <2>1, <2>2, <2>3, <3>1, <3>2 DEF ChainTypeOK
  <2>5. PICK s : Chained(s)
    BY DEF ReplayInv
  <2>6. PICK f : Passed(f, state, cb, ti) /\ f[ti].work = work /\ f[ti].coinbases = coinbase_count
    BY <1>0 DEF InCall
  <2>7. /\ ApplyBlockTxns(state, cb, Reward).reason = "OK"
        /\ ApplyBlockTxns(state, cb, Reward).work = work
    BY <1>0, <1>2, <2>2, <2>6, PassedApplies
  <2>8. /\ Path(s, blocks, n, now, Difficulty, Reward) /\ s[n] = state
        /\ NoMinting => \A k \in 1 .. n : Supply(s[k]) = GENESIS_SUPPLY + (k - 1) * Reward
    BY <2>5 DEF Chained
  <2>9. HeaderReason(cb, n, blocks[n].header, now, Difficulty) = "OK"
    <3>1. HeaderReason(cb, Height + 1, Tip, now, Difficulty) = "OK" /\ Height + 1 = n
      BY <1>0, <2>2 DEF InCall, Height
    <3>. QED  BY <3>1 DEF Tip
  <2>10. PICK t : /\ Path(t, Append(blocks, cb), n + 1, now, Difficulty, Reward)
                  /\ t[n + 1] = ApplyBlockTxns(s[n], cb, Reward).work
                  /\ \A k \in 1 .. n : t[k] = s[k]
    <3>. HIDE DEF n
    <3>1. ApplyBlockTxns(s[n], cb, Reward).reason = "OK"
      BY <2>7, <2>8
    <3>. QED  BY <2>2, <2>8, <2>9, <3>1, PathExtend DEF n
  <2>11. t[n + 1] = work
    BY <2>7, <2>8, <2>10
  <2>. HIDE DEF n
  <2>12. ASSUME NoMinting PROVE Supply(t[n + 1]) = GENESIS_SUPPLY + n * Reward
    <3>1. Supply(state) = GENESIS_SUPPLY + (n - 1) * Reward
      BY <2>2, <2>8, <2>12
    <3>2. Supply(work) = Supply(state) + IF coinbase_count = 1 THEN COINBASE_REWARD ELSE 0
      BY <1>0, <2>12 DEF InCall
    <3>3. coinbase_count \in {0, 1} /\ (Difficulty = 0 => coinbase_count = 0)
      BY <1>0, <2>12 DEF InCall
    <3>4. Difficulty \in Nat /\ COINBASE_REWARD \in Nat /\ COINBASE_REWARD > 0
      BY LedgerAssumption, DifficultyAssumption
    <3>5. (IF coinbase_count = 1 THEN COINBASE_REWARD ELSE 0) = Reward
      BY <1>2, <3>3, <3>4 DEF Reward, CoinbaseCountReason
    <3>6. GENESIS_SUPPLY \in Int /\ Reward \in Int
      BY <3>4, SupplyType, LedgerAssumption, GenesisType DEF GENESIS_SUPPLY, Reward
    <3>7. (n - 1) * Reward + Reward = n * Reward
      BY <2>2, <3>6
    <3>8. (n - 1) * Reward \in Int
      BY <2>2, <3>6
    <3>. QED  BY <2>11, <3>1, <3>2, <3>5, <3>6, <3>7, <3>8
  <2>13. NoMinting => \A k \in 1 .. n + 1 : Supply(t[k]) = GENESIS_SUPPLY + (k - 1) * Reward
    <3>. SUFFICES ASSUME NoMinting, NEW k \in 1 .. n + 1
                  PROVE  Supply(t[k]) = GENESIS_SUPPLY + (k - 1) * Reward
      OBVIOUS
    <3>1. CASE k = n + 1
      <4>1. k - 1 = n
        BY <2>2, <3>1
      <4>. QED  BY <2>12, <3>1, <4>1
    <3>2. CASE k \in 1 .. n
      BY <2>8, <2>10, <3>2
    <3>. QED  BY <2>2, <3>1, <3>2
  <2>14. /\ undoLog \in Seq(UndoEntry) /\ Len(undoLog) = n - 1
    BY DEF ReplayInv, Height, n
  <2>15. CommitDelta(cb, state) \in UndoEntry
    <3>. DEFINE A == {cb.txns[i].from : i \in 1 .. Len(cb.txns)}
                       \cup {cb.txns[i].to : i \in 1 .. Len(cb.txns)}
    <3>1. \A i \in 1 .. Len(cb.txns) : cb.txns[i].from \in Acct /\ cb.txns[i].to \in Acct
      <4>1. cb.txns \in Seq(Txn)
        BY <2>2 DEF Block
      <4>2. \A i \in 1 .. Len(cb.txns) : cb.txns[i] \in Txn
        BY <4>1
      <4>. QED  BY <4>2 DEF Txn
    <3>2. A \in SUBSET Acct
      BY <3>1
    <3>3. CommitDelta(cb, state) = [a \in A |-> state[a]]
      BY DEF CommitDelta
    <3>. HIDE DEF A
    <3>4. [a \in A |-> state[a]] \in [A -> AccountState]
      BY <2>2, <3>2 DEF Accounts
    <3>. QED  BY <3>2, <3>3, <3>4 DEF UndoEntry
  <2>16. /\ undoLog' \in Seq(UndoEntry) /\ Len(undoLog') = n
         /\ undoLog'[n] = CommitDelta(cb, state)
         /\ \A k \in 1 .. n - 1 : undoLog'[k] = undoLog[k]
    <3>. DEFINE u == CommitDelta(cb, state)
    <3>. HIDE DEF u
    <3>1. u \in UndoEntry /\ undoLog' = Append(undoLog, u)
      BY <2>1, <2>15 DEF u
    <3>2. /\ undoLog' \in Seq(UndoEntry) /\ Len(undoLog') = n
          /\ undoLog'[n] = u
          /\ \A k \in 1 .. n - 1 : undoLog'[k] = undoLog[k]
      BY <2>2, <2>14, <3>1, AppendProperties
    <3>. QED  BY <3>2 DEF u
  <2>17. ASSUME NEW k \in 2 .. n + 1
         PROVE  /\ undoLog'[k - 1] = CommitDelta(blocks'[k], t[k - 1])
                /\ \A a \in Acct \ Touched(blocks'[k], Len(blocks'[k].txns)) : t[k][a] = t[k - 1][a]
    <3>1. CASE k = n + 1
      <4>1. k - 1 = n /\ t[n] = state /\ blocks'[k] = cb
        BY <2>2, <2>3, <2>8, <2>10, <3>1
      <4>2. \A a \in Acct \ Touched(cb, Len(cb.txns)) : work[a] = state[a]
        BY <1>0 DEF InCall
      <4>. QED  BY <2>11, <2>16, <3>1, <4>1, <4>2
    <3>2. CASE k \in 2 .. n
      <4>1. /\ k - 1 \in 1 .. n - 1 /\ k - 1 \in 1 .. n /\ k \in 1 .. n
        BY <2>2, <3>2
      <4>2. /\ undoLog'[k - 1] = undoLog[k - 1] /\ t[k] = s[k] /\ t[k - 1] = s[k - 1]
            /\ blocks'[k] = blocks[k]
        BY <2>3, <2>10, <2>16, <4>1
      <4>3. /\ undoLog[k - 1] = CommitDelta(blocks[k], s[k - 1])
            /\ \A a \in Acct \ Touched(blocks[k], Len(blocks[k].txns)) : s[k][a] = s[k - 1][a]
        BY <2>5, <3>2 DEF Chained, n
      <4>. QED  BY <4>2, <4>3
    <3>. QED  BY <2>2, <3>1, <3>2
  <2>18. Chained(t)'
    <3>1. Path(t, blocks', Len(blocks'), now', Difficulty, Reward)
      BY <2>1, <2>3, <2>10
    <3>2. t[Len(blocks')] = state'
      BY <2>1, <2>3, <2>11
    <3>3. NoMinting => \A k \in 1 .. Len(blocks') : Supply(t[k]) = GENESIS_SUPPLY + (k - 1) * Reward
      BY <2>3, <2>13
    <3>4. \A k \in 2 .. Len(blocks') :
         /\ undoLog'[k - 1] = CommitDelta(blocks'[k], t[k - 1])
         /\ \A a \in Acct \ Touched(blocks'[k], Len(blocks'[k].txns)) : t[k][a] = t[k - 1][a]
      BY <2>3, <2>17
    <3>. QED  BY <3>1, <3>2, <3>3, <3>4 DEF Chained, Reward
  <2>19. Len(undoLog') = Height'
    BY <2>2, <2>3, <2>16 DEF Height
  <2>. QED  BY <2>1, <2>4, <2>16, <2>18, <2>19 DEF ReplayInv
<1>. QED  BY <1>1, <1>2

(* In every reachable state of a chain under any calls, the chain has a way *)
(* from genesis to its state (Chain::connectBlock, validate.cpp).           *)
THEOREM ReplayInvariant == Spec => []ReplayInv
<1>1. ReplayInv /\ [Next]_vars => ReplayInv'
  <2>. SUFFICES ASSUME ReplayInv, [Next]_vars PROVE ReplayInv'
    OBVIOUS
  <2>1. CASE Offer
    BY <2>1, OfferKeeps
  <2>2. CASE Connect
    BY <2>2, ConnectTxnKeeps, ConnectReturnKeeps DEF Connect, ConnectStep
  <2>3. CASE Tick
    BY <2>3, TickKeeps
  <2>4. CASE UNCHANGED vars
    <3>1. UNCHANGED <<blocks, state, cumWork, undoLog, now, calling, cb, work, ti,
                      coinbase_count, ret>>
      BY <2>4 DEF vars, chainVars, callVars
    <3>. QED  BY <3>1 DEF ReplayInv, ChainTypeOK, InCall, Chained, Height, Tip
  <2>. QED  BY <2>1, <2>2, <2>3, <2>4 DEF Next
<1>. QED  BY <1>1, ReplayInit, PTL DEF Spec

(* What the invariant says of replay, ...                                   *)
LEMMA ReplayInvAgrees == NoMinting /\ ReplayInv => ReplayAgrees
<1>. SUFFICES ASSUME NoMinting, ReplayInv PROVE ReplayAgrees
  OBVIOUS
<1>1. PICK s : Chained(s)
  BY DEF ReplayInv
<1>2. blocks \in Seq(Block) /\ blocks # <<>> /\ Len(blocks) \in 1 .. Len(blocks)
  BY DEF ReplayInv, ChainTypeOK
<1>3. /\ Path(s, blocks, Len(blocks), now, Difficulty, Reward)
      /\ s[Len(blocks)] = state
      /\ Supply(s[Len(blocks)]) = GENESIS_SUPPLY + (Len(blocks) - 1) * Reward
  BY <1>1, <1>2 DEF Chained
<1>. QED  BY <1>2, <1>3, PathReplays DEF ReplayAgrees

(* ... of the undo log, ...                                                 *)
LEMMA ReplayInvUndo == ReplayInv => UndoRestores
<1>. SUFFICES ASSUME ReplayInv, Height > 0 PROVE UndoRestores
  BY DEF UndoRestores
<1>. DEFINE n == Len(blocks)
            h == Height
            u == undoLog[h]
            undone == [a \in Acct |-> IF a \in DOMAIN u THEN u[a] ELSE state[a]]
            pre == SubSeq(blocks, 1, h)
<1>1. PICK s : Chained(s)
  BY DEF ReplayInv
<1>2. blocks \in Seq(Block) /\ n \in Nat /\ h = n - 1 /\ h >= 1
  BY DEF ReplayInv, ChainTypeOK, Height
<1>3. Path(s, blocks, n, now, Difficulty, Reward) /\ s[n] = state
  BY <1>1 DEF Chained
<1>. HIDE DEF n, h
<1>4. /\ Path(s, pre, h, now, Difficulty, Reward)
      /\ pre \in Seq(Block) /\ Len(pre) = h /\ pre # <<>>
  <2>1. n \in 1 .. Len(blocks) /\ h \in 1 .. n
    BY <1>2 DEF n
  <2>2. Path(s, pre, h, now, Difficulty, Reward)
    BY <1>2, <1>3, <2>1, PathPrefix
  <2>3. pre \in Seq(Block) /\ Len(pre) = h
    BY <1>2, <2>1 DEF n
  <2>4. pre # <<>>
    <3>. HIDE DEF pre
    <3>. QED  BY <1>2, <2>3
  <2>. QED  BY <2>2, <2>3, <2>4
<1>6. ReplayFromGenesis(pre, now, Difficulty, Reward).state = s[h]
  <2>. HIDE DEF pre
  <2>. QED  BY <1>4, PathReplays
<1>7. /\ u = CommitDelta(blocks[n], s[h])
      /\ \A a \in Acct \ Touched(blocks[n], Len(blocks[n].txns)) : s[n][a] = s[h][a]
  <2>1. n \in 2 .. n /\ n - 1 = h
    BY <1>2
  <2>. QED  BY <1>1, <2>1 DEF Chained, n
<1>8. s[h] \in Accounts
  <2>1. n \in 1 .. Len(blocks) /\ h \in 1 .. n
    BY <1>2 DEF n
  <2>. QED  BY <1>2, <1>3, <2>1, PathType
<1>9. ASSUME NEW a \in Acct PROVE undone[a] = s[h][a]
  <2>1. CASE a \in Touched(blocks[n], Len(blocks[n].txns))
    <3>1. a \in DOMAIN u /\ u[a] = s[h][a]
      BY <1>7, <2>1 DEF CommitDelta, Touched
    <3>. QED  BY <3>1
  <2>2. CASE a \notin Touched(blocks[n], Len(blocks[n].txns))
    <3>1. a \notin DOMAIN u
      BY <1>7, <2>2 DEF CommitDelta, Touched
    <3>2. state[a] = s[h][a]
      BY <1>3, <1>7, <2>2
    <3>. QED  BY <3>1, <3>2
  <2>. QED  BY <2>1, <2>2
<1>10. undone = s[h]
  <2>1. undone = [a \in Acct |-> undone[a]]
    OBVIOUS
  <2>2. s[h] = [a \in Acct |-> s[h][a]]
    BY <1>8 DEF Accounts
  <2>. HIDE DEF undone
  <2>. QED  BY <1>9, <2>1, <2>2
<1>. QED  BY <1>6, <1>10 DEF UndoRestores, h

(* ... and of the supply.                                                   *)
LEMMA ReplayInvSupply == NoMinting /\ ReplayInv => SupplyConserved
<1>. SUFFICES ASSUME NoMinting, ReplayInv PROVE SupplyConserved
  OBVIOUS
<1>1. PICK s : Chained(s)
  BY DEF ReplayInv
<1>2. Len(blocks) \in 1 .. Len(blocks)
  BY DEF ReplayInv, ChainTypeOK
<1>3. s[Len(blocks)] = state /\ Supply(s[Len(blocks)]) = GENESIS_SUPPLY + (Len(blocks) - 1) * Reward
  BY <1>1, <1>2 DEF Chained
<1>. QED  BY <1>3 DEF SupplyConserved, Height

(* The chain replays from genesis to exactly the state that connectBlock    *)
(* kept incrementally, for any accounts, blocks and refused calls in        *)
(* between: the two implementations of the rules, chain.cpp and             *)
(* validate.cpp, agree, and validateChain never finds an error.             *)
THEOREM ReplayCorrect == NoMinting => (Spec => []ReplayAgrees)
<1>. SUFFICES ASSUME NoMinting PROVE Spec => []ReplayAgrees
  OBVIOUS
<1>1. ReplayInv => ReplayAgrees
  BY ReplayInvAgrees
<1>. QED  BY <1>1, ReplayInvariant, PTL

(* The last entry of the undo log, put over the state, gives the state      *)
(* before the last block, whatever was transferred (chain.cpp, undoLog_).   *)
THEOREM UndoCorrect == Spec => []UndoRestores
BY ReplayInvariant, ReplayInvUndo, PTL

(* No coins appear or vanish: the balances sum up to those of genesis and a *)
(* reward for every block (gate.cpp).                                       *)
THEOREM SupplyCorrect == NoMinting => (Spec => []SupplyConserved)
<1>. SUFFICES ASSUME NoMinting PROVE Spec => []SupplyConserved
  OBVIOUS
<1>1. ReplayInv => SupplyConserved
  BY ReplayInvSupply
<1>. QED  BY <1>1, ReplayInvariant, PTL

-----------------------------------------------------------------------------
(* The state as the sum of its history.                                     *)

(* w is what the transactions F of the places P make of genesis.            *)
Booked(P, F, w) ==
  \A a \in Acct :
    LET sent == {p \in P : F[p].from = a /\ a # NullAddr}
        received == {p \in P : F[p].to = a}
        amount == [p \in P |-> F[p].amount]
    IN /\ w[a].balance = ApplyGenesis[a].balance + SumOf(amount, received) - SumOf(amount, sent)
       /\ w[a].nonce = Cardinality(sent)

(* One more transaction at a new place is booked by applying it.            *)
LEMMA BookedStep ==
  ASSUME NEW P, IsFiniteSet(P), NEW q, q \notin P,
         NEW F, \A p \in P : F[p] \in Txn,
         NEW G, \A p \in P : G[p] = F[p], G[q] \in Txn, G[q].from # G[q].to,
         NEW w \in Accounts, Booked(P, F, w)
  PROVE  Booked(P \cup {q}, G, ApplyTxn(w, G[q]))
<1>. DEFINE t == G[q]
            v == ApplyTxn(w, t)
            Q == P \cup {q}
            A == [p \in P |-> F[p].amount]
            B == [p \in Q |-> G[p].amount]
<1>1. /\ \A p \in P : A[p] \in Nat
      /\ \A p \in P : B[p] = A[p]
      /\ B[q] = t.amount /\ t.amount \in Nat
  BY DEF Txn
<1>0. ASSUME NEW S \in SUBSET P
      PROVE  /\ SumOf(A, S) \in Int /\ SumOf(B, S) = SumOf(A, S)
             /\ SumOf(B, S \cup {q}) = t.amount + SumOf(A, S)
             /\ Cardinality(S) \in Nat /\ Cardinality(S \cup {q}) = Cardinality(S) + 1
  <2>1. IsFiniteSet(S) /\ q \notin S
    BY FS_Subset
  <2>. HIDE DEF A, B, t
  <2>2. SumOf(A, S) \in Int
    BY <1>1, <2>1, SumType
  <2>3. SumOf(B, S) = SumOf(A, S)
    BY <1>1, <2>1, SumSame
  <2>4. SumOf(B, S \cup {q}) = B[q] + SumOf(B, S)
    <3>1. \A y \in S \cup {q} : B[y] \in Int
      BY <1>1
    <3>. QED  BY <2>1, <3>1, SumAdd
  <2>5. Cardinality(S) \in Nat /\ Cardinality(S \cup {q}) = Cardinality(S) + 1
    BY <2>1, FS_CardinalityType, FS_AddElement
  <2>. QED  BY <1>1, <2>2, <2>3, <2>4, <2>5
<1>. SUFFICES ASSUME NEW a \in Acct
              PROVE  /\ v[a].balance = ApplyGenesis[a].balance
                          + SumOf(B, {p \in Q : G[p].to = a})
                          - SumOf(B, {p \in Q : G[p].from = a /\ a # NullAddr})
                     /\ v[a].nonce = Cardinality({p \in Q : G[p].from = a /\ a # NullAddr})
  BY DEF Booked
<1>. DEFINE R == {p \in P : F[p].to = a}
            S == {p \in P : F[p].from = a /\ a # NullAddr}
            R2 == {p \in Q : G[p].to = a}
            S2 == {p \in Q : G[p].from = a /\ a # NullAddr}
            g == ApplyGenesis[a].balance
<1>2. w[a].balance = g + SumOf(A, R) - SumOf(A, S) /\ w[a].nonce = Cardinality(S)
  BY DEF Booked
<1>3. /\ R2 = IF t.to = a THEN R \cup {q} ELSE R
      /\ S2 = IF t.from = a /\ a # NullAddr THEN S \cup {q} ELSE S
  OBVIOUS
<1>4. /\ SumOf(A, R) \in Int /\ SumOf(B, R) = SumOf(A, R)
      /\ SumOf(B, R \cup {q}) = t.amount + SumOf(A, R)
  <2>1. R \in SUBSET P
    OBVIOUS
  <2>. HIDE DEF R, A, B, t
  <2>. QED  BY <1>0, <2>1
<1>5. /\ SumOf(A, S) \in Int /\ SumOf(B, S) = SumOf(A, S)
      /\ SumOf(B, S \cup {q}) = t.amount + SumOf(A, S)
      /\ Cardinality(S) \in Nat /\ Cardinality(S \cup {q}) = Cardinality(S) + 1
  <2>1. S \in SUBSET P
    OBVIOUS
  <2>. HIDE DEF S, A, B, t
  <2>. QED  BY <1>0, <2>1
<1>6. /\ v[a].balance = w[a].balance + (IF t.to = a THEN t.amount ELSE 0)
                          - (IF t.from = a /\ a # NullAddr THEN t.amount ELSE 0)
      /\ v[a].nonce = w[a].nonce + (IF t.from = a /\ a # NullAddr THEN 1 ELSE 0)
  <2>1. t.from \in Acct /\ t.to \in Acct /\ t.amount \in Nat /\ t.from # t.to
    BY DEF Txn
  <2>2. w[a].balance \in Nat /\ w[a].nonce \in Nat
    BY DEF Accounts, AccountState
  <2>. HIDE DEF t
  <2>3. CASE t.from = NullAddr
    BY <2>1, <2>2, <2>3 DEF ApplyTxn, Credit, Accounts, AccountState
  <2>4. CASE t.from # NullAddr
    BY <2>1, <2>2, <2>4 DEF ApplyTxn, Accounts, AccountState
  <2>. QED  BY <2>3, <2>4
<1>7. g \in Int
  BY GenesisType DEF Accounts, AccountState
<1>8. t.from # t.to
  OBVIOUS
<1>. HIDE DEF R, S, R2, S2, A, B, g, v, t
<1>9. SumOf(B, R2) = SumOf(A, R) + (IF t.to = a THEN t.amount ELSE 0)
  BY <1>1, <1>3, <1>4
<1>10. SumOf(B, S2) = SumOf(A, S) + (IF t.from = a /\ a # NullAddr THEN t.amount ELSE 0)
  BY <1>1, <1>3, <1>5
<1>11. Cardinality(S2) = Cardinality(S) + (IF t.from = a /\ a # NullAddr THEN 1 ELSE 0)
  BY <1>3, <1>5
<1>12. v[a].balance = g + SumOf(B, R2) - SumOf(B, S2)
  BY <1>1, <1>2, <1>4, <1>5, <1>6, <1>7, <1>9, <1>10
<1>13. v[a].nonce = Cardinality(S2)
  BY <1>2, <1>6, <1>11
<1>. QED  BY <1>12, <1>13 DEF g, v, R2, S2

(* Only the transactions at the places count.                               *)
LEMMA BookedSame ==
  ASSUME NEW P, IsFiniteSet(P), NEW F, NEW G, \A p \in P : F[p] = G[p],
         NEW w, Booked(P, F, w)
  PROVE  Booked(P, G, w)
<1>. SUFFICES ASSUME NEW a \in Acct
              PROVE  /\ w[a].balance = ApplyGenesis[a].balance
                          + SumOf([p \in P |-> G[p].amount], {p \in P : G[p].to = a})
                          - SumOf([p \in P |-> G[p].amount], {p \in P : G[p].from = a /\ a # NullAddr})
                     /\ w[a].nonce = Cardinality({p \in P : G[p].from = a /\ a # NullAddr})
  BY DEF Booked
<1>1. /\ {p \in P : G[p].to = a} = {p \in P : F[p].to = a}
      /\ {p \in P : G[p].from = a /\ a # NullAddr} = {p \in P : F[p].from = a /\ a # NullAddr}
      /\ [p \in P |-> G[p].amount] = [p \in P |-> F[p].amount]
  OBVIOUS
<1>. QED  BY <1>1 DEF Booked

-----------------------------------------------------------------------------
(* The transactions of the chain, and with those the call has applied.      *)
PlaceTxn == [p \in Places |-> At(p)]
(* The places of the chain and of the call, as far as it has come, ...      *)
CallPlaces == Places \cup {<<Len(blocks) + 1, j>> : j \in 1 .. ti}
(* ... and what is there.                                                   *)
CallTxn == [p \in CallPlaces |-> IF p[1] = Len(blocks) + 1 THEN cb.txns[p[2]] ELSE At(p)]

(* The state is what the transactions of the chain make of genesis, and the *)
(* working copy of a call what those and its own make.                      *)
HistoryInv ==
  /\ ReplayInv
  /\ cumWork = Height * BlockWork(Difficulty)
  /\ Booked(Places, PlaceTxn, state)
  /\ calling => Booked(CallPlaces, CallTxn, work)

(* There are finitely many places, with a transaction at each.              *)
LEMMA PlacesType ==
  ASSUME ChainTypeOK
  PROVE  /\ IsFiniteSet(Places)
         /\ \A p \in Places : p = <<p[1], p[2]>> /\ p[1] \in 1 .. Len(blocks) /\ At(p) \in Txn
<1>. DEFINE I == 1 .. Len(blocks)
            J == 1 .. MAX_TXNS_PER_BLOCK
<1>1. Len(blocks) \in Nat /\ MAX_TXNS_PER_BLOCK \in Nat /\ blocks \in Seq(Block)
  BY LedgerAssumption DEF ChainTypeOK
<1>2. IsFiniteSet(Places)
  <2>1. IsFiniteSet(I) /\ IsFiniteSet(J)
    BY <1>1, FS_Interval
  <2>2. Places \subseteq I \X J
    BY DEF Places
  <2>. HIDE DEF I, J
  <2>3. IsFiniteSet(I \X J)
    BY <2>1, FS_Product
  <2>. QED  BY <2>2, <2>3, FS_Subset
<1>3. ASSUME NEW p \in Places
      PROVE  p = <<p[1], p[2]>> /\ p[1] \in I /\ At(p) \in Txn
  <2>1. p \in I \X J /\ p[2] <= Len(blocks[p[1]].txns)
    BY DEF Places
  <2>2. p = <<p[1], p[2]>> /\ p[1] \in I /\ p[2] \in J
    BY <2>1
  <2>3. blocks[p[1]] \in Block
    BY <1>1, <2>2
  <2>4. blocks[p[1]].txns \in Seq(Txn)
    BY <2>3 DEF Block
  <2>5. p[2] \in 1 .. Len(blocks[p[1]].txns)
    <3>. DEFINE q == blocks[p[1]].txns
    <3>1. Len(q) \in Nat
      BY <2>4
    <3>. HIDE DEF q
    <3>. QED  BY <1>1, <2>1, <2>2, <3>1 DEF q
  <2>6. blocks[p[1]].txns[p[2]] \in Txn
    BY <2>4, <2>5
  <2>. QED  BY <2>2, <2>6 DEF At
<1>. QED  BY <1>2, <1>3

(* genesis has no transactions.                                             *)
LEMMA HistoryInit == Init => HistoryInv
<1>. SUFFICES ASSUME Init PROVE HistoryInv
  OBVIOUS
<1>1. ReplayInv
  BY ReplayInit
<1>2. blocks = <<GenesisBlock>> /\ state = ApplyGenesis /\ cumWork = 0 /\ ~calling
  BY DEF Init, ChainNew, NotCalling
<1>3. cumWork = Height * BlockWork(Difficulty)
  <2>1. Height = 0
    BY <1>2 DEF Height
  <2>. QED  BY <1>2, <2>1, ChainClientAssumption
<1>4. Places = {}
  <2>. SUFFICES ASSUME NEW p \in Places PROVE FALSE
    OBVIOUS
  <2>1. p[1] \in 1 .. 1 /\ p[2] \in 1 .. MAX_TXNS_PER_BLOCK /\ p[2] <= Len(blocks[p[1]].txns)
    BY <1>2 DEF Places
  <2>2. Len(blocks[p[1]].txns) = 0
    BY <1>2, <2>1 DEF GenesisBlock
  <2>. QED  BY <2>1, <2>2, LedgerAssumption
<1>5. Booked(Places, PlaceTxn, state)
  <2>. SUFFICES ASSUME NEW F PROVE Booked({}, F, ApplyGenesis)
    BY <1>2, <1>4
  <2>. SUFFICES ASSUME NEW a \in Acct
                PROVE  /\ ApplyGenesis[a].balance = ApplyGenesis[a].balance
                            + SumOf([p \in {} |-> F[p].amount], {p \in {} : F[p].to = a})
                            - SumOf([p \in {} |-> F[p].amount],
                                    {p \in {} : F[p].from = a /\ a # NullAddr})
                       /\ ApplyGenesis[a].nonce
                            = Cardinality({p \in {} : F[p].from = a /\ a # NullAddr})
    BY DEF Booked
  <2>. DEFINE A == [p \in {} |-> F[p].amount]
  <2>1. {p \in {} : F[p].to = a} = {} /\ {p \in {} : F[p].from = a /\ a # NullAddr} = {}
    OBVIOUS
  <2>2. Cardinality({}) = 0
    BY FS_EmptySet
  <2>3. ApplyGenesis[a].nonce = 0 /\ ApplyGenesis[a].balance \in Nat
    BY GenesisType DEF ApplyGenesis, Accounts, AccountState
  <2>. HIDE DEF A
  <2>4. SumOf(A, {}) = 0
    BY SumEmpty
  <2>5. ApplyGenesis[a].balance = ApplyGenesis[a].balance + SumOf(A, {}) - SumOf(A, {})
    BY <2>3, <2>4
  <2>. QED  BY <2>1, <2>2, <2>3, <2>5 DEF A
<1>. QED  BY <1>1, <1>2, <1>3, <1>5 DEF HistoryInv

(* Nothing of the chain changes and no call is under way after the step.    *)
LEMMA HistoryRefuse ==
  ASSUME HistoryInv, ReplayInv', UNCHANGED chainVars, ~calling'
  PROVE  HistoryInv'
<1>1. UNCHANGED <<blocks, state, cumWork, Height>>
  BY DEF chainVars, Height
<1>. QED  BY <1>1 DEF HistoryInv, PlaceTxn, Places, At

(* A call begins with the state, none of its own transactions applied.      *)
LEMMA HistoryOffer ==
  ASSUME HistoryInv, ReplayInv', Offer
  PROVE  HistoryInv'
<1>1. PICK b : ConnectCall(b)
  BY DEF Offer
<1>. DEFINE r == HeaderReason(b, Height + 1, Tip, now, Difficulty)
<1>2. CASE r # "OK"
  <2>1. Refuse(r)
    BY <1>1, <1>2 DEF ConnectCall
  <2>. HIDE DEF r
  <2>2. UNCHANGED chainVars /\ ~calling'
    BY <2>1 DEF Refuse
  <2>. QED  BY <2>2, HistoryRefuse
<1>3. CASE r = "OK"
  <2>1. calling' /\ work' = state /\ ti' = 0 /\ UNCHANGED chainVars
    BY <1>1, <1>3 DEF ConnectCall
  <2>2. UNCHANGED <<blocks, state, cumWork, Height, Places, PlaceTxn>>
    BY <2>1 DEF chainVars, Height, Places, PlaceTxn, At
  <2>3. CallPlaces' = Places
    BY <2>1, <2>2 DEF CallPlaces
  <2>4. Booked(Places, CallTxn', work')
    <3>0. ChainTypeOK
      BY DEF HistoryInv, ReplayInv
    <3>1. IsFiniteSet(Places)
      BY <3>0, PlacesType
    <3>2. \A p \in Places : PlaceTxn[p] = (CallTxn')[p]
      <4>1. Len(blocks) \in Nat /\ \A p \in Places : p[1] \in 1 .. Len(blocks)
        BY <3>0, PlacesType DEF ChainTypeOK
      <4>2. \A p \in Places : p[1] # Len(blocks) + 1
        BY <4>1
      <4>. QED  BY <2>2, <2>3, <4>2 DEF CallTxn, PlaceTxn, At
    <3>3. Booked(Places, PlaceTxn, state)
      BY DEF HistoryInv
    <3>. DEFINE F == PlaceTxn
                G == CallTxn'
    <3>. HIDE DEF F, G
    <3>4. \A p \in Places : F[p] = G[p]
      BY <3>2 DEF F, G
    <3>5. Booked(Places, F, state)
      BY <3>3 DEF F
    <3>6. Booked(Places, G, state)
      BY <3>1, <3>4, <3>5, BookedSame
    <3>. QED  BY <2>1, <3>6 DEF G
  <2>5. Booked(CallPlaces, CallTxn, work)'
    BY <2>3, <2>4
  <2>6. Booked(Places, PlaceTxn, state)'
    BY <2>2 DEF HistoryInv
  <2>. QED  BY <2>2, <2>5, <2>6 DEF HistoryInv
<1>. QED  BY <1>2, <1>3

(* One more transaction of the call is booked, ...                          *)
LEMMA HistoryTxn ==
  ASSUME NoSelfTransfers, HistoryInv, ReplayInv', ConnectTxn
  PROVE  HistoryInv'
<1>. DEFINE t == cb.txns[ti + 1]
            n == Len(blocks)
            q == <<n + 1, ti + 1>>
            r == BlockTxnReason(work, t, cb.header.index, ti, coinbase_count)
<1>0. ChainTypeOK /\ calling /\ ti < Len(cb.txns) /\ InCall
  BY DEF ConnectTxn, HistoryInv, ReplayInv
<1>1. CASE r # "OK"
  <2>1. Refuse(r)
    BY <1>1 DEF ConnectTxn
  <2>. HIDE DEF r
  <2>2. UNCHANGED chainVars /\ ~calling'
    BY <2>1 DEF Refuse
  <2>. QED  BY <2>2, HistoryRefuse
<1>2. CASE r = "OK"
  <2>1. /\ work' = ApplyTxn(work, t) /\ ti' = ti + 1
        /\ UNCHANGED <<calling, cb>> /\ UNCHANGED chainVars
    BY <1>2 DEF ConnectTxn
  <2>2. UNCHANGED <<blocks, state, cumWork, Height, Places, PlaceTxn>>
    BY <2>1 DEF chainVars, Height, Places, PlaceTxn, At
  <2>3. n \in Nat /\ ti \in Nat /\ work \in Accounts /\ cb.txns \in Seq(Txn)
        /\ Len(cb.txns) \in Nat
    <3>1. cb.txns \in Seq(Txn)
      BY <1>0 DEF ChainTypeOK, Block
    <3>. QED  BY <1>0, <3>1 DEF ChainTypeOK
  <2>4. ti + 1 \in 1 .. Len(cb.txns) /\ \A j \in 1 .. ti : j \in 1 .. Len(cb.txns)
    BY <1>0, <2>3
  <2>5. t \in Txn /\ t.from # t.to
    BY <1>0, <2>3, <2>4 DEF InCall, Sound
  <2>6. /\ IsFiniteSet(Places)
        /\ \A p \in Places : p = <<p[1], p[2]>> /\ p[1] \in 1 .. n /\ At(p) \in Txn
    BY <1>0, PlacesType
  <2>. HIDE DEF n, t
  <2>7. CallPlaces' = CallPlaces \cup {q}
    <3>1. {<<n + 1, j>> : j \in 1 .. ti + 1} = {<<n + 1, j>> : j \in 1 .. ti} \cup {<<n + 1, ti + 1>>}
      <4>1. 1 .. ti + 1 = (1 .. ti) \cup {ti + 1}
        BY <2>3
      <4>. QED  BY <4>1
    <3>. QED  BY <2>1, <2>2, <3>1 DEF CallPlaces, n
  <2>8. q \notin CallPlaces
    <3>. SUFFICES ASSUME q \in CallPlaces PROVE FALSE
      OBVIOUS
    <3>1. CASE q \in Places
      <4>1. q[1] = n + 1 /\ q[1] \in 1 .. n
        BY <2>6, <3>1
      <4>. QED  BY <2>3, <4>1
    <3>2. CASE \E j \in 1 .. ti : q = <<n + 1, j>>
      <4>1. PICK j \in 1 .. ti : q = <<n + 1, j>>
        BY <3>2
      <4>2. j = ti + 1
        BY <4>1
      <4>. QED  BY <2>3, <4>2
    <3>. QED  BY <3>1, <3>2 DEF CallPlaces, n
  <2>9. IsFiniteSet(CallPlaces)
    <3>. DEFINE K == {<<n + 1, j>> : j \in 1 .. ti}
    <3>1. IsFiniteSet(1 .. ti)
      BY <2>3, FS_Interval
    <3>2. IsFiniteSet({n + 1})
      BY FS_Singleton
    <3>. DEFINE M == 1 .. ti
    <3>3. K \subseteq {n + 1} \X M
      OBVIOUS
    <3>. HIDE DEF M, K
    <3>4. IsFiniteSet({n + 1} \X M)
      BY <3>1, <3>2, FS_Product DEF M
    <3>5. IsFiniteSet(K)
      BY <3>3, <3>4, FS_Subset
    <3>6. CallPlaces = Places \cup K
      BY DEF CallPlaces, K, n
    <3>. QED  BY <2>6, <3>5, <3>6, FS_Union
  <2>10. \A p \in CallPlaces : CallTxn[p] \in Txn
    <3>. SUFFICES ASSUME NEW p \in CallPlaces PROVE CallTxn[p] \in Txn
      OBVIOUS
    <3>1. CASE p \in Places
      <4>1. p[1] # n + 1 /\ At(p) \in Txn
        BY <2>3, <2>6, <3>1
      <4>2. CallTxn[p] = At(p)
        BY <4>1 DEF CallTxn, n
      <4>. QED  BY <4>1, <4>2
    <3>2. CASE \E j \in 1 .. ti : p = <<n + 1, j>>
      <4>1. PICK j \in 1 .. ti : p = <<n + 1, j>>
        BY <3>2
      <4>2. p[1] = n + 1 /\ p[2] = j
        BY <4>1
      <4>3. CallTxn[p] = cb.txns[j]
        BY <4>2 DEF CallTxn, n
      <4>4. cb.txns[j] \in Txn
        BY <2>3, <2>4
      <4>. QED  BY <4>3, <4>4
    <3>. QED  BY <3>1, <3>2 DEF CallPlaces, n
  <2>11. (CallTxn')[q] = t
    <3>1. q[1] = n + 1 /\ q[2] = ti + 1 /\ q \in CallPlaces'
      BY <2>7
    <3>. QED  BY <2>1, <2>2, <3>1 DEF CallTxn, n, t
  <2>12. \A p \in CallPlaces : (CallTxn')[p] = CallTxn[p]
    BY <2>1, <2>2, <2>7 DEF CallTxn, At
  <2>13. Booked(CallPlaces \cup {q}, CallTxn', ApplyTxn(work, t))
    <3>. DEFINE P == CallPlaces
                F == CallTxn
                G == CallTxn'
    <3>1. Booked(P, F, work) /\ IsFiniteSet(P) /\ q \notin P
      BY <1>0, <2>8, <2>9 DEF HistoryInv
    <3>2. /\ \A p \in P : F[p] \in Txn
          /\ \A p \in P : G[p] = F[p]
          /\ G[q] = t
      BY <2>10, <2>11, <2>12
    <3>. HIDE DEF P, F, G, q
    <3>3. Booked(P \cup {q}, G, ApplyTxn(work, G[q]))
      <4>1. G[q] \in Txn /\ G[q].from # G[q].to
        BY <2>5, <3>2
      <4>. QED  BY <2>3, <3>1, <3>2, <4>1, BookedStep
    <3>. QED  BY <3>2, <3>3 DEF P, G
  <2>14. Booked(CallPlaces, CallTxn, work)'
    <3>1. Booked(CallPlaces', CallTxn', work')
      BY <2>1, <2>7, <2>13 DEF t
    <3>. QED  BY <3>1
  <2>15. Booked(Places, PlaceTxn, state)'
    BY <2>2 DEF HistoryInv
  <2>. QED  BY <2>2, <2>14, <2>15 DEF HistoryInv
<1>. QED  BY <1>1, <1>2

(* ... and all of them are the chain's when it returns.                     *)
LEMMA HistoryReturn ==
  ASSUME HistoryInv, ReplayInv', ConnectReturn
  PROVE  HistoryInv'
<1>. DEFINE r == CoinbaseCountReason(coinbase_count, Reward)
            n == Len(blocks)
<1>0. ChainTypeOK /\ calling /\ ti = Len(cb.txns) /\ InCall
  BY DEF ConnectReturn, HistoryInv, ReplayInv
<1>1. CASE r # "OK"
  <2>1. Refuse(r)
    BY <1>1 DEF ConnectReturn
  <2>. HIDE DEF r
  <2>2. UNCHANGED chainVars /\ ~calling'
    BY <2>1 DEF Refuse
  <2>. QED  BY <2>2, HistoryRefuse
<1>2. CASE r = "OK"
  <2>1. /\ state' = work /\ blocks' = Append(blocks, cb)
        /\ cumWork' = cumWork + BlockWork(Difficulty) /\ ~calling'
    BY <1>2 DEF ConnectReturn
  <2>2. /\ blocks \in Seq(Block) /\ cb \in Block /\ n \in Nat /\ n >= 1 /\ ti \in Nat
    BY <1>0 DEF ChainTypeOK
  <2>3. /\ Len(blocks') = n + 1 /\ blocks'[n + 1] = cb
        /\ \A k \in 1 .. n : blocks'[k] = blocks[k]
    BY <2>1, <2>2, AppendProperties
  <2>4. ti <= MAX_TXNS_PER_BLOCK /\ MAX_TXNS_PER_BLOCK \in Nat
    <3>1. HeaderReason(cb, Height + 1, Tip, now, Difficulty) = "OK"
      BY <1>0 DEF InCall
    <3>2. ~(Len(cb.txns) > MAX_TXNS_PER_BLOCK)
      BY <3>1 DEF HeaderReason
    <3>. QED  BY <1>0, <2>2, <3>2, LedgerAssumption
  <2>. HIDE DEF n
  <2>5. cumWork' = Height' * BlockWork(Difficulty)
    <3>. DEFINE w == BlockWork(Difficulty)
    <3>1. cumWork = Height * w /\ Height \in Nat /\ Height' = Height + 1 /\ w \in Nat
      BY <2>2, <2>3, ChainClientAssumption DEF HistoryInv, Height, n
    <3>. HIDE DEF w
    <3>2. Height * w + w = (Height + 1) * w
      BY <3>1
    <3>. QED  BY <2>1, <3>1, <3>2 DEF w
  <2>6. ASSUME NEW k \in 1 .. n + 1, NEW j \in 1 .. MAX_TXNS_PER_BLOCK
        PROVE  j <= Len(blocks'[k].txns)
                 <=> (k \in 1 .. n /\ j <= Len(blocks[k].txns)) \/ (k = n + 1 /\ j \in 1 .. ti)
    <3>1. CASE k = n + 1
      BY <1>0, <2>2, <2>3, <2>4, <3>1
    <3>2. CASE k \in 1 .. n
      <4>1. k # n + 1 /\ blocks'[k] = blocks[k]
        BY <2>2, <2>3, <3>2
      <4>. QED  BY <3>2, <4>1
    <3>. QED  BY <2>2, <3>1, <3>2
  <2>7. Places' = CallPlaces
    <3>1. ASSUME NEW p \in Places' PROVE p \in CallPlaces
      <4>1. PICK k \in 1 .. n + 1, j \in 1 .. MAX_TXNS_PER_BLOCK :
              p = <<k, j>> /\ j <= Len(blocks'[k].txns)
        BY <2>3 DEF Places
      <4>2. CASE k \in 1 .. n /\ j <= Len(blocks[k].txns)
        BY <4>1, <4>2 DEF CallPlaces, Places, n
      <4>3. CASE k = n + 1 /\ j \in 1 .. ti
        BY <4>1, <4>3 DEF CallPlaces, n
      <4>. QED  BY <2>6, <4>1, <4>2, <4>3
    <3>2. ASSUME NEW p \in CallPlaces PROVE p \in Places'
      <4>1. CASE p \in Places
        <5>1. PICK k \in 1 .. n, j \in 1 .. MAX_TXNS_PER_BLOCK :
                p = <<k, j>> /\ j <= Len(blocks[k].txns)
          BY <4>1 DEF Places, n
        <5>2. k \in 1 .. n + 1
          BY <2>2
        <5>3. j <= Len(blocks'[k].txns)
          BY <2>6, <5>1, <5>2
        <5>. QED  BY <2>3, <5>1, <5>2, <5>3 DEF Places
      <4>2. CASE \E j \in 1 .. ti : p = <<n + 1, j>>
        <5>1. PICK j \in 1 .. ti : p = <<n + 1, j>>
          BY <4>2
        <5>2. j \in 1 .. MAX_TXNS_PER_BLOCK /\ n + 1 \in 1 .. n + 1
          BY <2>2, <2>4
        <5>3. j <= Len(blocks'[n + 1].txns)
          BY <2>6, <5>2
        <5>. QED  BY <2>3, <5>1, <5>2, <5>3 DEF Places
      <4>. QED  BY <4>1, <4>2 DEF CallPlaces, n
    <3>. QED  BY <3>1, <3>2
  <2>8. PlaceTxn' = CallTxn
    <3>1. ASSUME NEW p \in CallPlaces PROVE At(p)' = CallTxn[p]
      <4>1. CASE p \in Places
        <5>1. p[1] \in 1 .. n /\ p[1] # n + 1
          BY <1>0, <2>2, <4>1, PlacesType DEF n
        <5>. QED  BY <2>3, <5>1 DEF CallTxn, At, n
      <4>2. CASE \E j \in 1 .. ti : p = <<n + 1, j>>
        <5>1. p[1] = n + 1
          BY <4>2
        <5>. QED  BY <2>3, <5>1 DEF CallTxn, At, n
      <4>. QED  BY <4>1, <4>2 DEF CallPlaces, n
    <3>. QED  BY <2>7, <3>1 DEF PlaceTxn, CallTxn
  <2>9. Booked(Places', PlaceTxn', state')
    BY <1>0, <2>1, <2>7, <2>8 DEF HistoryInv
  <2>. QED  BY <2>1, <2>5, <2>9 DEF HistoryInv
<1>. QED  BY <1>1, <1>2

(* In every reachable state the accounts are booked, in a call and outside. *)
THEOREM HistoryInvariant == NoSelfTransfers => (Spec => []HistoryInv)
<1>. SUFFICES ASSUME NoSelfTransfers PROVE Spec => []HistoryInv
  OBVIOUS
<1>1. HistoryInv /\ ReplayInv' /\ [Next]_vars => HistoryInv'
  <2>. SUFFICES ASSUME HistoryInv, ReplayInv', [Next]_vars PROVE HistoryInv'
    OBVIOUS
  <2>1. CASE Offer
    BY <2>1, HistoryOffer
  <2>2. CASE Connect
    BY <2>2, HistoryTxn, HistoryReturn DEF Connect, ConnectStep
  <2>3. CASE UNCHANGED <<chainVars, callVars>>
    <3>1. UNCHANGED <<blocks, state, cumWork, calling, cb, work, ti>>
      BY <2>3 DEF chainVars, callVars
    <3>. QED  BY <3>1 DEF HistoryInv, Height, CallPlaces, CallTxn, PlaceTxn, Places, At
  <2>. QED  BY <2>1, <2>2, <2>3 DEF Next, Tick, vars
<1>. QED  BY <1>1, HistoryInit, ReplayInvariant, PTL DEF Spec

(* The sum of the amounts over a set of places, as a sum of a function.     *)
LEMMA SumIsSumOf ==
  ASSUME ChainTypeOK, NEW S \in SUBSET Places
  PROVE  Sum(S) = SumOf([p \in Places |-> At(p).amount], S)
<1>. DEFINE A == [p \in Places |-> At(p).amount]
            c(s) == CHOOSE x \in s : TRUE
            P(g) == g = [s \in SUBSET S |-> IF s = {} THEN 0
                           ELSE At(c(s)).amount + g[s \ {c(s)}]]
            k == CHOOSE g : P(g)
<1>0. IsFiniteSet(S)
  BY PlacesType, FS_Subset
<1>1. PICK h : IsSum(h, A, S) /\ SumOf(A, S) = h[S]
  BY <1>0, SumDef
<1>2. ASSUME NEW s \in SUBSET S, s # {}
      PROVE  A[c(s)] = At(c(s)).amount
  <2>1. c(s) \in s
    BY <1>2
  <2>. HIDE DEF c
  <2>. QED  BY <2>1
<1>3. ASSUME NEW g, P(g)
      PROVE  IsSum(g, A, S)
  BY <1>2, <1>3 DEF IsSum
<1>4. P(h)
  BY <1>1, <1>2 DEF IsSum
<1>5. P(k)
  BY <1>4
<1>6. Sum(S) = k[S]
  BY DEF Sum, MapThenSumSet, MapThenFoldSet
<1>. HIDE DEF P, k, A
<1>7. IsSum(k, A, S)
  BY <1>3, <1>5
<1>8. \A s \in SUBSET S : k[s] = h[s]
  <2>1. S \in SUBSET S
    OBVIOUS
  <2>2. \A f : IsSum(h, f, S) /\ IsSum(k, f, S) => \A s \in SUBSET S : k[s] = h[s]
    BY <1>0, <2>1, SumUnique
  <2>. QED  BY <1>1, <1>7, <2>2
<1>. QED  BY <1>1, <1>6, <1>8 DEF A

(* Booked accounts are what StateIsHistory asks for.                        *)
LEMMA HistoryInvState == HistoryInv => StateIsHistory
<1>. SUFFICES ASSUME HistoryInv, NEW a \in Acct
              PROVE  /\ cumWork = Height * BlockWork(Difficulty)
                     /\ state[a].balance = ApplyGenesis[a].balance
                          + Sum({p \in Places : At(p).to = a})
                          - Sum({p \in Places : At(p).from = a /\ a # NullAddr})
                     /\ state[a].nonce = Cardinality({p \in Places : At(p).from = a /\ a # NullAddr})
  BY DEF StateIsHistory, HistoryInv
<1>. DEFINE R == {p \in Places : At(p).to = a}
            S == {p \in Places : At(p).from = a /\ a # NullAddr}
            A == [p \in Places |-> At(p).amount]
<1>1. /\ {p \in Places : PlaceTxn[p].to = a} = R
      /\ {p \in Places : PlaceTxn[p].from = a /\ a # NullAddr} = S
      /\ [p \in Places |-> PlaceTxn[p].amount] = A
  BY DEF PlaceTxn
<1>2. /\ state[a].balance = ApplyGenesis[a].balance + SumOf(A, R) - SumOf(A, S)
      /\ state[a].nonce = Cardinality(S)
  BY <1>1 DEF HistoryInv, Booked
<1>3. Sum(R) = SumOf(A, R) /\ Sum(S) = SumOf(A, S)
  <2>1. ChainTypeOK /\ R \in SUBSET Places /\ S \in SUBSET Places
    BY DEF HistoryInv, ReplayInv
  <2>. HIDE DEF R, S
  <2>. QED  BY <2>1, SumIsSumOf
<1>4. cumWork = Height * BlockWork(Difficulty)
  BY DEF HistoryInv
<1>. QED  BY <1>2, <1>3, <1>4

(* Every balance is its genesis allocation with all that the chain paid the *)
(* account and without all that it spent, every nonce the number of its     *)
(* transfers and the cumulative work the height times the work of a block,  *)
(* for any accounts, blocks and refusals (gate.cpp, chain.cpp): not a       *)
(* transaction is applied twice or lost, and a refused block leaves no      *)
(* trace.                                                                   *)
THEOREM HistoryCorrect == NoSelfTransfers => (Spec => []StateIsHistory)
<1>. SUFFICES ASSUME NoSelfTransfers PROVE Spec => []StateIsHistory
  OBVIOUS
<1>. QED  BY HistoryInvariant, HistoryInvState, PTL
=============================================================================
