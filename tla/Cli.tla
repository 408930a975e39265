--------------------------------- MODULE Cli ---------------------------------
(***************************************************************************)
(* The txchain tool on a data directory (apps/txchain/main.cpp,            *)
(* pow/forkchoice.cpp): `import' weighs a competing chain file against     *)
(* chain.jsonl and swaps it in, `send' without a node signs with the next  *)
(* nonce the file gives.  The tool takes no lock; it may be killed between *)
(* any two steps, and the node of the directory is, or is not, running.    *)
(***************************************************************************)
EXTENDS ChainStore, Replay, SequencesExt

CONSTANTS
  Candidates,     \* the files offered to import: [ok, blocks], ok if they parse
  Transfers,      \* what the node finds in its mempool
  Miner,          \* the address of the node's wallet
  Difficulties,   \* the D a data directory may belong to
  ImportWhileUp,  \* may import run beside the node?
  MaxHeight,      \* bound on the height up to which the node extends
  MaxNow,         \* bound on the clock
  MaxKills        \* bound on how often the tool is killed

(* A file that parses is one of blocks, and work is an unsigned number.     *)
ASSUME CliAssumption ==
  /\ \A c \in Candidates : c.ok \in BOOLEAN /\ c.blocks \in Seq(Block)
  /\ \A d \in Difficulties : BlockWork(d) \in Nat
  /\ Transfers \subseteq Txn
  /\ Miner \in Addr
  /\ Difficulties \subseteq Nat
  /\ ImportWhileUp \in BOOLEAN
  /\ MaxHeight \in Nat /\ MaxNow \in Nat /\ MaxKills \in Nat

VARIABLES
  D,         \* the difficulty the directory's node and its tools are given
  now,       \* the wall clock
  pc,        \* where the tool is
  imported,  \* the candidate in the hands of import
  sent,      \* what send signed: the sender and the nonce, or NoSend
  node,      \* the chain in the memory of a running node, <<>> when it is down
  kills,     \* how often the tool was killed
  offered,   \* history: the valid chains that imports ended on
  gone,      \* history: the chains import replaced
  glued      \* history: did the node append to a line without its newline?

toolVars == <<pc, imported, sent>>
promises == <<offered, gone>>
history == <<promises, glued>>
vars == <<file, D, now, toolVars, node, kills, history>>

NoSend == [from |-> NullAddr, nonce |-> 0]
Reward == IF D > 0 THEN COINBASE_REWARD ELSE 0

TypeOK ==
  /\ file \in Seq(Line)
  /\ D \in Difficulties
  /\ now \in 0 .. MaxNow
  /\ pc \in {"idle", "loaded", "won", "truncated", "sent"}
  /\ imported \in Seq(Block)
  /\ sent \in [from : Acct, nonce : Nat]
  /\ node \in Seq(Block)
  /\ kills \in 0 .. MaxKills
  /\ glued \in BOOLEAN

Init ==
  /\ file = <<>>
  /\ D \in Difficulties
  /\ now = 0
  /\ pc = "idle" /\ imported = <<>> /\ sent = NoSend
  /\ node = <<>>
  /\ kills = 0
  /\ offered = {} /\ gone = {} /\ glued = FALSE

-----------------------------------------------------------------------------
(* Fork choice.                                                             *)

CumulativeWork(bs, difficulty) ==
  IF bs = <<>> THEN 0 ELSE (Len(bs) - 1) * BlockWork(difficulty)

(* Mutants: a tie goes to the challenger; the arguments are swapped.        *)
CandidateWins_Tie(candidateCumWork, activeCumWork) == candidateCumWork >= activeCumWork
CandidateWins_Swapped(candidateCumWork, activeCumWork) == activeCumWork > candidateCumWork

CandidateWins(candidateCumWork, activeCumWork) == candidateCumWork > activeCumWork

(* Mutant: work buys validity.                                              *)
EvaluateImport_WorkOnly(active, candidate) ==
  [valid |-> TRUE,
   won   |-> CandidateWins(CumulativeWork(candidate, D), CumulativeWork(active, D))]

(* evaluateImport: valid from genesis on, and strictly heavier.             *)
EvaluateImport(active, candidate) ==
  LET ok == ReplayReason(candidate, now, D, Reward) = "OK"
  IN [valid |-> ok,
      won   |-> ok /\ CandidateWins(CumulativeWork(candidate, D), CumulativeWork(active, D))]

-----------------------------------------------------------------------------
(* run_import.                                                              *)

(* The file to import is read; one that does not parse ends the command.    *)
ImportLoad ==
  /\ pc = "idle"
  /\ ImportWhileUp \/ node = <<>>
  /\ \E c \in Candidates : c.ok /\ imported' = c.blocks
  /\ pc' = "loaded"
  /\ UNCHANGED <<file, D, now, sent, node, kills, history>>

(* The active chain is read, as far as it parses, and the two are weighed.  *)
(* An invalid or lighter candidate leaves everything as it was.             *)
ImportEvaluate ==
  /\ pc = "loaded"
  /\ LET r == EvaluateImport(Parsed, imported) IN
     /\ pc' = IF r.won THEN "won" ELSE "idle"
     /\ imported' = IF r.won THEN imported ELSE <<>>
     /\ offered' = IF ~r.won /\ ReplayReason(imported, now, D, Reward) = "OK"
                   THEN offered \cup {imported} ELSE offered
  /\ UNCHANGED <<file, D, now, sent, node, kills, gone, glued>>

Lines(bs) == [i \in 1 .. Len(bs) |-> [ok |-> TRUE, block |-> bs[i], eol |-> TRUE]]

(* rewrite: open with O_TRUNC, ...                                          *)
RewriteOpen ==
  /\ pc = "won"
  /\ file' = <<>>
  /\ pc' = "truncated"
  /\ gone' = gone \cup {Parsed}
  /\ glued' = FALSE
  /\ UNCHANGED <<D, now, imported, sent, node, kills, offered>>

(* ... then all the lines and fsync.                                        *)
RewriteWrite ==
  /\ pc = "truncated"
  /\ file' = Lines(imported)
  /\ pc' = "idle"
  /\ imported' = <<>>
  /\ offered' = offered \cup {imported}
  /\ UNCHANGED <<D, now, sent, node, kills, gone, glued>>

(* What a write cut after n lines leaves: these, and some of the next.      *)
CutLines(bs, n, extent) ==
  Lines(SubSeq(bs, 1, n)) \o
    (IF extent = "nothing" THEN <<>>
     ELSE <<[ok |-> extent # "torn", block |-> bs[n + 1], eol |-> (extent = "all")]>>)

(* The tool is killed, or its write fails: after the truncation the file    *)
(* ends anywhere, inside a line too.  What was promised before is then void.*)
Killed ==
  /\ pc \in {"loaded", "won", "truncated"} /\ kills < MaxKills
  /\ pc' = "idle"
  /\ imported' = <<>>
  /\ kills' = kills + 1
  /\ IF pc = "truncated"
     THEN /\ \E n \in 0 .. Len(imported) - 1, extent \in Extent :
               file' = CutLines(imported, n, extent)
          /\ offered' = {} /\ gone' = {}
     ELSE UNCHANGED <<file, promises>>
  /\ UNCHANGED <<D, now, sent, node, glued>>

-----------------------------------------------------------------------------
(* run_send without --node.                                                 *)

(* Mutant: the loop starts after the first mined block.                     *)
ReplayState_SkipFirst(bs) ==
  LET txns == FoldLeft(LAMBDA acc, b : acc \o [i \in 1 .. Len(b.txns) |->
                         [t |-> b.txns[i], index |-> b.header.index, ti |-> i - 1]],
                       <<>>, SubSeq(bs, 3, Len(bs)))
  IN FoldLeft(LAMBDA st, e : IF ApplyTxnReason(st, e.t, e.index, e.ti) = "OK"
                             THEN ApplyTxn(st, e.t) ELSE st,
              ApplyGenesis, txns)

(* replayState: every transaction through the gate, refusals ignored.       *)
ReplayState(bs) ==
  LET txns == FoldLeft(LAMBDA acc, b : acc \o [i \in 1 .. Len(b.txns) |->
                         [t |-> b.txns[i], index |-> b.header.index, ti |-> i - 1]],
                       <<>>, SubSeq(bs, 2, Len(bs)))
  IN FoldLeft(LAMBDA st, e : IF ApplyTxnReason(st, e.t, e.index, e.ti) = "OK"
                             THEN ApplyTxn(st, e.t) ELSE st,
              ApplyGenesis, txns)

(* Mutant: the nonce last used instead of the next.                         *)
SendSign_LastUsed ==
  /\ pc = "idle"
  /\ LoadOK /\ Loaded # <<>> => ReplayReason(Loaded, now, 0, 0) = "OK"
  /\ \E a \in Addr : sent' = [from |-> a, nonce |-> ReplayState(Parsed)[a].nonce - 1]
  /\ pc' = "sent"
  /\ UNCHANGED <<file, D, now, imported, node, kills, history>>

(* The chain is replayed without difficulty or reward; one that fails ends  *)
(* the command, else the next nonce is signed and printed.  Of a file that  *)
(* does not load the blocks that parse are taken as they are.               *)
SendSign ==
  /\ pc = "idle"
  /\ LoadOK /\ Loaded # <<>> => ReplayReason(Loaded, now, 0, 0) = "OK"
  /\ \E a \in Addr : sent' = [from |-> a, nonce |-> ReplayState(Parsed)[a].nonce]
  /\ pc' = "sent"
  /\ UNCHANGED <<file, D, now, imported, node, kills, history>>

SendDone ==
  /\ pc = "sent"
  /\ pc' = "idle"
  /\ sent' = NoSend
  /\ UNCHANGED <<file, D, now, imported, node, kills, history>>

-----------------------------------------------------------------------------
(* The node of the directory, a block at a time; TxNode has the detail.  It *)
(* does not append in the short while between the open and the write of a   *)
(* rewrite, where bytes of the two would mix.                               *)

Boots == /\ LoadOK /\ Loaded[1] = GenesisBlock
         /\ ReplayReason(Loaded, now, D, Reward) = "OK"

NodeBoot ==
  /\ node = <<>>
  /\ pc \in {"idle", "sent"} \/ (ImportWhileUp /\ pc # "truncated")
  /\ \/ file = <<>> /\ node' = <<GenesisBlock>> /\ file' = Written(GenesisBlock, "all")
     \/ file # <<>> /\ Boots /\ node' = Loaded /\ UNCHANGED file
  /\ UNCHANGED <<D, now, toolVars, kills, history>>

NodeBlock(txns) ==
  LET tip == node[Len(node)].header
      all == IF D > 0 THEN <<CoinbaseTxn(Miner, Len(node))>> \o txns ELSE txns
  IN [header |-> [index |-> Len(node),
                  timestamp |-> IF now > tip.timestamp THEN now ELSE tip.timestamp + 1,
                  prevHash |-> HeaderHash(tip), txnsHash |-> all,
                  nonce |-> IF D > 0 THEN "found" ELSE "zero"],
      txns |-> all]

(* A block of its own is connected in memory and appended to the file.      *)
NodeExtend ==
  /\ node # <<>> /\ Len(node) <= MaxHeight
  /\ pc # "truncated"
  /\ \E txns \in {<<>>} \cup {<<t>> : t \in Transfers} :
       LET b == NodeBlock(txns) IN
       /\ ReplayReason(Append(node, b), now, D, Reward) = "OK"
       /\ node' = Append(node, b)
       /\ file' = Written(b, "all")
  /\ glued' = (glued \/ (file # <<>> /\ ~file[Len(file)].eol))
  /\ UNCHANGED <<D, now, toolVars, kills, promises>>

NodeStop ==
  /\ node # <<>>
  /\ node' = <<>>
  /\ UNCHANGED <<file, D, now, toolVars, kills, history>>

Tick ==
  /\ now < MaxNow
  /\ now' = now + 1
  /\ UNCHANGED <<file, D, toolVars, node, kills, history>>

Next ==
  \/ ImportLoad \/ ImportEvaluate \/ RewriteOpen \/ RewriteWrite \/ Killed
  \/ SendSign \/ SendDone
  \/ NodeBoot \/ NodeExtend \/ NodeStop \/ Tick

Spec == Init /\ [][Next]_vars

-----------------------------------------------------------------------------
(* Whatever was imported, however often the tool was killed and wherever    *)
(* its write was cut: when no import is under way, what load still gives of *)
(* the file is empty or replays (forkchoice.hpp, "Work never buys           *)
(* validity"), and only the last line, only after a kill, can be one that   *)
(* does not parse.  The exception: a cut exactly before a newline gives a   *)
(* file that loads and boots, but the node's next block is then glued to    *)
(* that line and lost, and the block after it leaves a gap (glued).         *)
FileReplays ==
  pc \in {"idle", "sent"} /\ ~glued =>
    /\ Parsed # <<>> => ReplayReason(Parsed, now, D, Reward) = "OK"
    /\ \A i \in 1 .. Len(file) : ~file[i].ok => i = Len(file) /\ kills > 0

(* Between imports the file is at least as heavy as every valid chain that  *)
(* an import ended on, taken or not (evaluateImport, candidateWins).        *)
HeaviestKept ==
  pc \in {"idle", "sent"} =>
    \A c \in offered : CumulativeWork(c, D) <= CumulativeWork(Parsed, D)

(* A chain that was replaced never comes back (forkchoice.hpp, "ties keep   *)
(* the incumbent", "tips never flap").                                      *)
NoFlap == pc \in {"idle", "sent"} => Parsed \notin gone

(* What send signs offline is the sender's next nonce by a full replay of   *)
(* the blocks that load gives (run_send, replayState), the ones before a    *)
(* torn line included, which send itself does not replay.                   *)
SignedIsNext ==
  [][pc' = "sent" /\ pc # "sent" /\ Parsed # <<>> /\ ~glued =>
       sent'.nonce = ReplayFromGenesis(Parsed, now, D, Reward).state[sent'.from].nonce]_vars

(* The chain that import truncates is strictly lighter than the one that    *)
(* replaces it (forkchoice.hpp, "replaces the incumbent iff it is STRICTLY  *)
(* heavier").                                                               *)
HeavierReplaces ==
  [][pc = "won" /\ pc' = "truncated" =>
       CumulativeWork(imported, D) > CumulativeWork(Parsed, D)]_vars
=============================================================================
