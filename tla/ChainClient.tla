----------------------------- MODULE ChainClient -----------------------------
(***************************************************************************)
(* Chain under every caller: blocks with good and bad headers, coinbases   *)
(* and transfers are offered to connectBlock while the clock runs.  The    *)
(* incremental state is compared with the ground truth of validate.cpp     *)
(* and with the history the blocks record.                                 *)
(***************************************************************************)
EXTENDS Chain, Replay

CONSTANTS
  Transfers,    \* the user transactions callers may put in a block
  Miner,        \* who the coinbases pay
  WithCoinbase, \* callers also try coinbases
  MaxHeight,    \* bound on the chain
  MaxTransfers, \* bound on the transfers of one block
  MaxNow        \* bound on the clock

(* A user transaction has a sender with a key; work is an unsigned number.  *)
ASSUME ChainClientAssumption ==
  /\ Transfers \subseteq Txn
  /\ \A t \in Transfers : t.from \in Addr
  /\ Miner \in Addr
  /\ WithCoinbase \in BOOLEAN
  /\ MaxHeight \in Nat /\ MaxTransfers \in Nat /\ MaxNow \in Nat
  /\ BlockWork(Difficulty) \in Nat

vars == <<chainVars, callVars, now>>

Init ==
  /\ ChainNew
  /\ NotCalling
  /\ now = 0

(* What a caller may put where the coinbase goes: nothing, the right one,   *)
(* two, or one with a wrong height, amount or shape.                        *)
CoinbaseTries ==
  LET good == CoinbaseTxn(Miner, Height + 1)
  IN {<<>>, <<good>>, <<good, good>>, <<[good EXCEPT !.nonce = Height]>>,
      <<[good EXCEPT !.amount = @ + 1]>>, <<[good EXCEPT !.auth = "badSig"]>>}

TransferLists == UNION {[1 .. n -> Transfers] : n \in 0 .. MaxTransfers}

Bodies ==
  IF WithCoinbase
  THEN {c \o s : c \in CoinbaseTries, s \in TransferLists}
         \cup {s \o <<CoinbaseTxn(Miner, Height + 1)>> : s \in TransferLists}
  ELSE TransferLists

Candidate(txns, timestamp) ==
  [header |-> [index |-> Height + 1, timestamp |-> timestamp, prevHash |-> TipHash,
               txnsHash |-> txns, nonce |-> "found"],
   txns |-> txns]

(* A candidate with at most one defect in its header.                       *)
Offers(txns) ==
  LET good == Candidate(txns, Tip.timestamp + 1)
  IN {good,
      Candidate(txns, now + MAX_CLOCK_SKEW_S),
      Candidate(txns, now + MAX_CLOCK_SKEW_S + 1),
      Candidate(txns, Tip.timestamp),
      [good EXCEPT !.header.index = Height],
      [good EXCEPT !.header.prevHash = Tip.prevHash],
      [good EXCEPT !.header.nonce = "zero"],
      [good EXCEPT !.header.txnsHash = Append(txns, CoinbaseTxn(Miner, 0))]}

Offer ==
  /\ Height < MaxHeight
  /\ \E txns \in Bodies : \E b \in Offers(txns) : ConnectCall(b)
  /\ UNCHANGED now

Connect == ConnectStep /\ UNCHANGED now

Tick ==
  /\ now < MaxNow
  /\ now' = now + 1
  /\ UNCHANGED <<chainVars, callVars>>

Next == Offer \/ Connect \/ Tick

Spec == Init /\ [][Next]_vars

-----------------------------------------------------------------------------
(* The transactions of the chain, by block and place.                       *)
Places == {p \in (1 .. Len(blocks)) \X (1 .. MAX_TXNS_PER_BLOCK) :
             p[2] <= Len(blocks[p[1]].txns)}
At(p) == blocks[p[1]].txns[p[2]]
Sum(ps) == MapThenSumSet(LAMBDA p : At(p).amount, ps)

(* Connecting blocks one by one (chain.cpp) leaves the chain that           *)
(* replayFromGenesis (validate.cpp) accepts, in the state replay computes:  *)
(* validateChain never finds a commit-path error.                           *)
ReplayAgrees ==
  LET replay == ReplayFromGenesis(blocks, now, Difficulty, Reward)
  IN replay.reason = "OK" /\ replay.state = state

(* The state connectBlock keeps is the history of the blocks: an account    *)
(* holds its genesis balance plus what it received less what it sent, and   *)
(* its nonce counts its transfers; the work adds up over the blocks after   *)
(* genesis.  Stated without the gate of gate.cpp.                           *)
StateIsHistory ==
  cumWork = Height * BlockWork(Difficulty) /\
  \A a \in Acct :
    LET sent == {p \in Places : At(p).from = a /\ a # NullAddr}
        received == {p \in Places : At(p).to = a}
    IN /\ state[a].balance =
            ApplyGenesis[a].balance + Sum(received) - Sum(sent)
       /\ state[a].nonce = Cardinality(sent)

(* A transfer moves coins and makes none: all that exists is the genesis    *)
(* supply and one reward per block after it (gate.cpp, "conserves supply"). *)
SupplyConserved == Supply(state) = GENESIS_SUPPLY + Height * Reward

(* The pre-images connectBlock records (chain.cpp, undoLog_) undo exactly   *)
(* the block they belong to.                                                *)
UndoRestores ==
  Height > 0 =>
    LET u == undoLog[Height]
        undone == [a \in Acct |-> IF a \in DOMAIN u THEN u[a] ELSE state[a]]
    IN undone = ReplayFromGenesis(SubSeq(blocks, 1, Height), now, Difficulty, Reward).state
=============================================================================
