# TxChain in TLA+

TLA+ models of the two programs of this repository, the TLC configurations
that check them on small instances, and TLAPS proofs of what matters most of
the second one for every instance.

- **The socket system** (repository root: `serverM.cpp`, `serverA.cpp`,
  `serverB.cpp`, `serverC.cpp`, `client.cpp`, `monitor.cpp`): a main server
  between TCP clients and three UDP backends that keep a ledger in three files.
- **txchain** (`apps/`, `include/`, `src/`): an account ledger of signed
  transactions in hash-linked blocks, a mempool, a cadence or proof-of-work
  sealer, an append-only chain file and an HTTP RPC.

Paths in this file are relative to the repository.

## 1. Inventory

| Part | State | Operations | Interacts with |
|---|---|---|---|
| Gate (`src/chain/gate.cpp`) | none | `applyTxn`, `applyBlockTxns`, `coinbaseTxn` | called by chain, replay, mempool |
| Replay (`src/chain/validate.cpp`) | none | `replayFromGenesis` | boot, `validateChain`, `monitor verify`, import |
| Chain (`src/chain/chain.cpp`) | `blocks_`, `state_`, `cumWork_`, `undoLog_` | `connectBlock`, reads | node, RPC reads, mempool's account lookup |
| ChainStore (`src/chain/store.cpp`) | `chain.jsonl` | `appendBlock`, `load`, `rewrite` | node, import, `monitor verify` |
| Mempool (`src/mempool/mempool.cpp`) | `byTxid_`, `bySender_`, `bySeq_`, `next_seq_` | `admit`, `evictIncluded`, `sortedBySeq` | RPC thread admits, loop drains and evicts |
| Candidate and miner (`src/pow/`) | candidate block | `buildCandidate`, `mine` | loop; `mine` runs without the lock |
| Node (`src/node/node.cpp`, `apps/txnode/main.cpp`) | the above, `g_stop`, seal timer | boot, loop in two modes, shutdown | owns `node_mtx`, which serialises the loop and the RPC thread |
| RPC (`src/rpc/`) | listening socket, stop flag | `POST /tx`, `GET /account`, `GET /tip` | mempool and chain under `node_mtx` |
| Fork choice and import (`src/pow/forkchoice.cpp`, `apps/txchain/main.cpp`) | none | `evaluateImport`, `run_import` | rewrites the chain file |
| CLI send, verify (`apps/txchain/main.cpp`) | none | `send`, `monitor verify` | RPC client, chain file, key file |
| Wallet (`src/wallet/wallet.cpp`) | `wallet.key` | `wallet_save`, `wallet_load`, `load_or_create_wallet`, `sign_txn` | txnode at start, `wallet keygen`, `wallet address`, `send`; no lock |
| Configuration (`src/node/node.cpp`) | `node.json`, flags | `resolve_config` | txnode at start |
| P2P frames (`src/p2p/frame.cpp`) | a connection | `read_frame`, `write_frame` | no process uses them yet |
| Serialisation, crypto (`src/serialize/`, `src/crypto/`) | none | pure | everywhere |
| Server-M (`serverM.cpp`) | the request in hand | `CHECK_WALLET`, `TXCOINS`, `TXLIST` | TCP to clients and monitor, UDP to backends |
| Backends (`serverA.cpp` and its two copies) | `g_txns`, block file | `QUERY`, `ALL`, `NEW` | UDP to Server-M |

What makes the code hard to test:

- **Two threads and one lock** (`apps/txnode/main.cpp`). The PoW loop snapshots
  the tip and the mempool, gives up the lock while it grinds, and commits what
  it comes back with; RPC admits transactions in the meantime.
- **A check far from its use.** `admit` checks a transaction once. Nothing
  checks it again before `connectBlock`, which refuses the whole block if one
  transaction has gone bad in between.
- **Memory before disk.** A block is committed in memory, then appended to the
  file, then evicted from the mempool; the process may die after each step.
- **Two paths to one state.** `connectBlock` and `replayFromGenesis` must agree
  on every chain, and they share only the gate.
- **Time.** Timestamps run ahead of the clock when blocks come faster than one
  a second, and V3 then refuses blocks until the clock has caught up.
- **UDP without request numbers** (`serverM.cpp`). Server-M takes whatever
  datagram comes next for the answer it waits for.
- **A key file without a lock, written in place** (`src/wallet/wallet.cpp`).
  Nodes and tools that start at the same time truncate, write and read it in
  any order, and each may be killed in between.
- **A byte stream** (`src/p2p/frame.cpp`). Frames must survive any way in which
  `recv` and `send` split and merge them.

`PROJECT.json` lists these as hazards, each at its line with the properties
that cover it.

## 2. Modules

| Module | Models | Uses |
|---|---|---|
| `Ledger` | types, genesis, the gate, header checks V1 to V6 | |
| `Replay` | `applyBlockTxns` over a block, `replayFromGenesis` | `Ledger` |
| `Chain` | class `Chain`; `connectBlock` transaction by transaction | `Ledger` |
| `ChainClient` | `Chain` under callers that offer good and bad blocks | `Chain`, `Replay` |
| `Mempool` | class `Mempool` | `Ledger` |
| `ChainStore` | `appendBlock` and `load` | `Ledger` |
| `TxNode` | the txnode process: composes `Chain`, `Mempool`, `ChainStore` | all of them |
| `Cli` | `txchain import` and the offline `send` on a data directory, beside its node | `ChainStore`, `Replay` |
| `Rpc` | `send` with a node: HTTP client, server and routes | `Mempool` |
| `DurableLedger` | abstract: what the chain file promises | `Ledger` |
| `Config` | `resolve_config`, and the order of precedence it is compared with | |
| `Wallet` | the text of `wallet.key`: what is written, what loads | |
| `Startup` | txnode, `wallet keygen`, `wallet address` and `send` up to their key | `Config`, `Wallet` |
| `FrameCodec` | `write_frame`, `read_frame` and the connection between them | |
| `FrameChannel` | abstract: frames come out in order, whole and once | |
| `Backend` | one backend server | |
| `MainServer` | Server-M with its clients, monitors and backends | `Backend` |
| `CoinBook` | abstract: what the three block files promise together | |
| `LedgerProofs` | lemmas about the gate, the mempool, sums and replay | `Mempool`, `Replay` |
| `ChainProofs` | theorems about the chain under any calls | `ChainClient`, `LedgerProofs` |
| `TxNodeProofs` | theorems about the node, its mempool and its file | `TxNode`, `LedgerProofs` |
| `RpcProofs` | theorems about the sends and the RPC server | `Rpc`, `LedgerProofs` |
| `StartupProofs` | theorems about the key files and the configuration | `Startup` |
| `CliProofs` | theorems about `import` and the offline `send` | `Cli`, `LedgerProofs` |
| `FrameProofs` | theorems about the frame codec | `FrameCodec` |
| `MainServerProofs` | theorems about the socket system | `MainServer` |
| `MCChain`, `MCTxNode`, `MCCli`, `MCRpc`, `MCStartup`, `MCFrameCodec`, `MCMainServer` | the instances TLC checks | |

### Abstractions

- *Hashes* are the content they commit to (`HeaderHash` is the sequence of the
  headers from genesis on), so a hash link is right exactly when the history
  is. A *txid* is the transaction.
- *Signatures and addresses*: a transaction carries in `auth` what the checks
  will find. `null` is the all-zero key and signature of a coinbase.
- *Proof of work*: a header is either as built (`zero`) or mined (`found`);
  difficulty 0 accepts both.
- *Amounts, nonces, timestamps* are natural numbers. The 64-bit wrap is out of
  reach of any chain that passes the supply check (supply is 5000 plus 50 per
  block), and the runs stay far below it.
- *The account map* is total over the addresses: an absent entry and `{0,0}`
  are the same to every reader.
- *A line of chain.jsonl* parses to its block or does not, and may lack its
  newline.
- *wallet.key* is a sequence of pieces: two halves of the seed, the public key,
  and the address with the closing brace. A `write` ends after some piece; a
  write beyond the end leaves a gap. Two halves of different seeds derive a key
  of nobody. After a power loss a file is as it was last synced, or as it was
  with its end missing; the directory entry of a synced file is taken to be
  there.
- *Configuration*: a command line is a sequence of words, and a word has a
  value as a number. A file maps keys to typed values. Directories are named up
  to a trailing slash.
- *Frames*: a byte has `Radix` values, 2 in the run, and the cap is 2 bytes, so
  that length bytes, cap and magic still have all their places.
- In the socket system a *name* and an *amount* are one cipher symbol each,
  shifted modulo 26 and modulo 10 as `enc_char` does. The rows of a reply, and
  those Server-M has collected, are known by the place of their line, not by
  their place in a text; `std::sort` leaves the order of equal serials open.

### From code to actions (txchain)

`connectBlock` is `ConnectCall` (V1 to V6), one `ConnectTxn` per transaction on
the scratch copy `work`, and `ConnectReturn` (coinbase count, commit of state,
block, work and undo record). Any refusal is `Refuse`.

The main thread of the node is a program counter `pc`:

- boot: `Boot` (empty file, replay, or refusal), `BootConnect` (each loaded
  block through `connectBlock`), `BootDone`; a fresh file goes through
  `AppendBlock` of genesis;
- cadence mode (`Difficulty = 0`): `BeginSeal` or `IdlePass`, `DrainTxn` for
  each turn of the drain loop, `SealNextBlock`, `Connect`, `AppendBlock`,
  `Evict`, `Wake`;
- PoW mode: `BeginCandidate`, `SelectTxn` for each turn of the selection,
  `CandidateBuilt`, `Mine` or `MinePreempted`, `CommitMined`, then the same
  `Connect`, `AppendBlock`, `Evict`;
- shutdown: `Signal`, `LeaveLoop`, `Exit`; and `Crash` from any of them, which
  keeps only the file.

`Locked` lists the values of `pc` at which the loop holds `node_mtx`. The RPC
thread takes the same lock for a whole request, so `SubmitTx` is one step taken
at any other `pc`. `elapsed` abstracts the seal timer and `now` the wall clock.

`Cli` has the steps of `run_import`: `ImportLoad`, `ImportEvaluate`,
`RewriteOpen` (the `O_TRUNC`) and `RewriteWrite`, with `Killed` after each, and
in the middle of the write: `rewrite` hands its bytes to `write` in a loop, so
the file may end anywhere, in a line too (`CutLines`). `SendSign` is the offline
`send`. The node of the directory boots, extends its chain by whole blocks and
stops. `offered`, `gone` and `glued` are history variables; `glued` says that
the node appended to a line without its newline.

`Rpc` has `http_request` as `Connect`, `ClientWrite` for each piece of the
request and `ClientRead`, twice per send; `HttpServer::run` as `Accept`,
`ReadMore` and `ReadEnd` (`read_request`), `Handle`, `Reply` and `RunReturns`;
and, of the node, `Seal`, `Stop` and `NodeDies`, a kill or a crash at any step,
between `Handle` and `Reply` too. The module is about one life of the node;
`TxNode` has its restart.

`Startup` runs several processes side by side. txnode is `StartNode`
(`resolve_config`), `Boot` (which `TxNode` has in detail), `LoadOrCreate` (the
`stat`), then the load or the save; `StartKeygen` and `StartLoad` are the
commands of the tool. `wallet_load` is `LoadStat` and `LoadRead`; `wallet_save`
is `SaveOpen`, `SaveChmod`, `SaveWrite` once per `write`, `SaveSync`. `Exit` is
a kill, a failed call or the end of a process; `PowerLoss` ends all of them.
`writers` and `due` are history variables: `due` is the key announced as saved
in a file, until another process opens or writes it.

`FrameCodec` has `write_frame` as `WriteFrame`, one `Send` per `send`,
`HeaderSent` and `PayloadSent`, and `read_frame` as `ReadFrame`, one `Recv` per
`recv`, `HeaderRead` and `BodyRead`; `RecvClosed`, `RecvFails` and `SendFails`
are its error paths. The writer may close at any time between frames, and
another program may send one of the headers in `Junk` in its place.

### From code to actions (socket system)

`Select` takes what `select` reports; `HandleClient` and `HandleMonitor` accept
one connection each; `Ask` and `Receive` are the two halves of `udp_request`,
three times per request; `CheckWallet`, `TxCoinsRefused`, `TxCoinsRecord` with
`TxCoinsDone`, and `TxList` finish the three operations. `BackendAnswers` is a
turn of a backend's loop, whose write to the file may fail unnoticed where the
configuration sets `WritesFail` (`Persisted`). A backend may restart, also after it recorded a row
and before it answered, and Server-M may restart, with its sockets lost.

## 3. Runs

| Run | Configuration | Checks | Shows |
|---|---|---|---|
| `chain` | `MCChain.cfg` | `ReplayAgrees`, `StateIsHistory`, `UndoRestores` | A chain with proof of work, offered blocks with at most one header defect, a coinbase that is right, missing, doubled, misplaced or malformed, and up to two transfers: the incremental state is what replay computes and what the history of the blocks says, and the undo log undoes the last block. |
| `node_cadence` | `MCTxNode_cadence.cfg` | `TypeOK`, `IndexesAgree`, `PendingConnectable`, `OwnBlocksPassGate`, `RestartResumes`, `DurableLedgerSpec`, `AdmittedIsMined` | A cadence node with RPC submissions, signals and crashes at every step: its mempool stays connectable, it always comes up again, the file implements DurableLedger, and what it admitted is mined unless it stops. |
| `node_pow` | `MCTxNode_pow.cfg` | `VisibleIsDurable`, `RestartResumes`, `NoDoubleInclusion`, `OldestFirst`, `AdmittedIsMined` | The PoW node, which gives up the lock while it grinds and may exhaust the nonce space once, under the same submissions, signals and crashes: its file is the chain it shows, nothing is mined twice, older transactions are not overtaken, it comes up again and makes progress. What the theorems prove for both modes is left to them and to the other run. |
| `v1_service` | `MCMainServer.cfg` | `TypeOK`, `AnswersTrue`, `ListComplete`, `CoinBookSpec`, `MonitorServed`, `ClientServed` | Clients and monitors against Server-M and three backends, one of which may restart and lose datagrams, and a Server-M that may restart between two requests: every answer is true of the files (the balance answered to one who pays himself apart), the files implement CoinBook, and neither clients nor monitors starve each other. |
| `cli` | `MCCli.cfg` | `TypeOK`, `FileReplays`, `HeaviestKept`, `NoFlap`, `SignedIsNext` | One data directory, a node that comes and goes, and a tool that imports valid, invalid, tying, future and foreign chains, signs offline, and is killed at any step and inside any line it writes: what loads of the file always replays and only a kill leaves a line that does not load, the file is never lighter than a chain an import ended on, never returns to a replaced chain, and gives the right nonce. |
| `rpc` | `MCRpc.cfg` | `TypeOK`, `OutcomeTrue`, `NonceOnce`, `RejectionExplained`, `EverySendEnds`, `StopReturns` | Three sends, two of the same wallet, against the single-threaded RPC server while blocks are made, a send is killed in the middle of a request and the node stops or dies at any step: what a send prints is true, but for the one send the node was answering when it died, no nonce gets in twice, rejections have their cause, and neither the sends nor the shutdown hang. |
| `frame` | `MCFrameCodec.cfg` | `TypeOK`, `ErrorsTrue`, `FrameChannelSpec`, `FramesArrive` | One connection whose calls move any number of bytes, fail or end at any byte, or carry another protocol: the frames come out as they went in, another protocol is the only cause of BAD_MAGIC and OVERSIZE, at any error and at the end of the stream exactly the acknowledged frames have come out, no more than the cap is held, and what was reported as written arrives. |
| `startup` | `MCStartup.cfg` | `ConfigPrecedence`, `LoadedIsMade`, `PrivateAtRest`, `ReportedIsSaved` | Two processes at a time, of txnode and of the wallet commands, on one key file, killed between any two system calls, with short writes and a power loss, and nine command lines against four configuration files: every setting but rpc_port follows the order of precedence, no process runs with a key nobody made, a key is never readable by others, and a key that was announced is the one the next start finds. |

Runs that TLC must find violated:

| Run | Configuration | Property | Shows |
|---|---|---|---|
| `chain_selftransfer` | `MCChain_selftransfer.cfg` | `SupplyConserved` | A transfer whose sender is its receiver creates coins. |
| `node_appendfault` | `MCTxNode_appendfault.cfg` | `VisibleIsDurable` | An append that fails after connectBlock is not noticed: the node shows and builds on a block that is not on disk. |
| `import_race` | `MCCli_race.cfg` | `HeavierReplaces` | Import weighs the chain it read and truncates the file later, without a lock: a node that mines in between has its equally heavy chain replaced. |
| `v1_restart` | `MCMainServer_restart.cfg` | `SerialsUnique` | An answer still under way when Server-M is restarted is taken for another backend's, and a serial is given twice. |

### Bounds

- `chain`: two accounts with 2 and 1 coins, six transfers among which are a
  second spend, one that only works after being paid, a burn to the null
  address and two that are not authentic; at most 3 blocks of at most 2
  transactions, offered with up to 2 transfers and any coinbase defect, and a
  clock of 0 to 2 with a skew of 1. That is enough for every reason of
  `Reason` to be returned, with transfers already applied to the scratch copy.
- `node_cadence`, `node_pow`: three accounts, five transfers that compete for
  slots and funds and depend on each other, and two that must be refused; two
  transactions per block (in PoW one besides the coinbase), so that the block
  cap, the mempool cap and the order between blocks all bite. `MaxIdleHeight`
  bounds empty blocks only: while transactions are pending blocks go on.
  `MaxClockLead` bounds the clock relative to the last block on disk, so that
  it can always catch up with timestamps that have run ahead of it.
- `cli`: for difficulty 0 and 1 alike, chains of one, two and two blocks (a
  tie), and of three blocks with a double spend, from the future, and on a
  foreign genesis, besides a file that does not parse; chains made for the
  other difficulty are offered too. The node extends up to height 3, the clock
  goes from 0 to 2 with a skew of 3, and the tool is killed once, which leaves
  any number of lines of the new chain and nothing, a part, all but the newline
  or all of the next. `import_race` has one candidate of two blocks
  and a node that runs beside the import.
- `rpc`: two sends of one wallet that ask for the same payment and one of a
  wallet that can pay only after being paid, bodies in two pieces, a mempool
  of one, one send killed, one stop at any time, one death of the node at any
  time.
- `v1_service`: two members and a stranger, two rows and a line that does not
  parse in the three files, names and amounts that wrap around in the cipher;
  one connection of each kind waiting, two payments, one restart of a backend
  at any time and one of Server-M between two requests; members and strangers
  ask to pay themselves too. `v1_restart` lets Server-M die with a request in
  hand instead (`StopsAnytime`).
- `frame`: frames of no, one and two bytes (the cap), one of which begins like
  a header, one over the cap, three frames in all; a connection that holds
  three bytes, less than a header, so that both ends wait for each other; one
  failure; headers with another magic, one byte over the cap and far over it.
- `startup`: two processes, three commands and two new keys, which is what it
  takes for one writer to be overtaken by a second and read by a third; one
  power loss. The file is at first absent, or open to others and whole, without
  public key and address, with half a seed, or of another version. The command
  lines include flags given twice, before and after `--config`, without value,
  and as the value of another one; a file that sets `rpc_port` is among the
  files.

`CHECK_DEADLOCK FALSE` stands in the configurations of `MCChain`, where the
last block and the last tick end the run by their bounds, and in those of
`MCMainServer` where a datagram is lost, after which Server-M waits for ever:
`recvfrom` has no timeout.

### Fairness

- `TxNode`: weak fairness of the main thread, of the seal timer and of the
  clock. The main thread never waits for anything but `node_mtx`, which the RPC
  thread holds for one request; the timer and the clock are time. Fairness of
  `Mine` says that a search of about 2^D hashes ends. Signals and crashes are
  not fair, and `AdmittedIsMined` is conditional on the process staying up.
- `Rpc`: weak fairness of the server thread, of the sealing loop and of every
  send that is alive. `http_request` writes its request in a loop and then
  reads, so a send goes on or dies. The death of the node is not fair; after it
  the connections are closed and nobody waits. A client of another make that stays
  connected in silence is outside this: `read` has no timeout, and such a
  client would hold up both the others and the join at shutdown.
- `MainServer`: weak fairness of Server-M, of each backend, and of starting
  Server-M again; nothing makes clients or monitors come. The two properties
  except the behaviours in which a backend restarted, because a lost datagram
  stops Server-M for good.
- `FrameCodec`: weak fairness of a call that has begun, which loops until it is
  done, and of a reader that calls again. Nothing makes the writer write or
  close. Failures of `recv` are excepted by the property.

### What the violations say

- `chain_selftransfer` (`src/chain/gate.cpp:82`): applyTxn copies both accounts before it writes either, and writes the receiver last: when from == to the receiver's copy (balance + amount, old nonce) replaces the debit and the nonce bump, so a self-transfer creates `amount' coins and can be repeated. src/chain/gate.cpp:74 says "debit sender (+nonce), credit receiver (conserves supply)", and include/txchain/chain/gate.hpp:26 gives three updates in place, which would conserve it. A node that sealed one refuses its own file at the next start, because replayFromGenesis checks the supply (src/chain/validate.cpp:102).
- `node_appendfault` (`src/node/node.cpp:222`): commitBlock ignores the result of appendBlock and returns OK (so does seal_next_block, src/node/node.cpp:213): after a failed append the node serves and extends a block that is not in chain.jsonl, and the next line leaves a gap that the next boot refuses. In the trace the append that fails is that of the first mined block. include/txchain/node/node.hpp:92 says "Returns Reason::OK on success (tip advanced + durable)".
- `import_race` (`apps/txchain/main.cpp:300`): run_import reads the active chain (apps/txchain/main.cpp:285), weighs it and rewrites the file, all without a lock against the node of the same data directory: blocks appended in between are truncated away although the chain they made is as heavy as the candidate. include/txchain/pow/forkchoice.hpp:3-4 says "A challenger chain replaces the incumbent iff it is STRICTLY heavier".
- `v1_restart` (`serverM.cpp:134`): udp_request takes the next datagram, whoever sent it and for whatever request. After a restart of Server-M in the middle of a request the answer still under way shifts every later one by one backend, max_serial misses a block and a serial is given twice. Project_Instructions.md:167 says "Every transaction would have a serial number which should be assigned in a contiguous fashion as they occur".

### Known disagreements beside the runs

Four statements of the documents do not hold of the code either. The model
states each of them next to the property that holds instead, and a
configuration in which TLC finds it violated is kept for each. They are not
among the runs above; `tlc -config <configuration> <module>` shows the trace.

| Configuration | Module | Property | Document | Code |
|---|---|---|---|---|
| `MCMainServer_selfpay.cfg` | `MCMainServer` | `PaidBalance` | `Project_Instructions.md:171`: the client gets "the updated balance (current balance after this transaction)" | `serverM.cpp:248` answers the balance before minus the amount, without asking again: too low by the amount when a member pays himself. `AnswersTrue` excepts this answer (`PaidItself`). |
| `MCMainServer_writefault.cfg` | `MCMainServer` | `SuccessRecorded` | `Project_Instructions.md:170`: the backend "records this log information as a new entry in its log database and sends a confirmation message" | `serverA.cpp:112` does not look at the result of its write and confirms: SUCCESS for a transfer that no file holds and that a restart forgets. The passing run has no failing writes. |
| `MCFrameCodec_close.cfg` | `MCFrameCodec` | `ShortReadMidFrame` | `frame.hpp:45`: SHORT_READ is "peer closed mid-frame (recv returned 0)" | `frame.cpp:27` returns it for an end of the stream between two frames too. `ErrorsTrue` says what holds in both cases. |
| `MCStartup_rpcport.cfg` | `MCStartup` | `PortPrecedence` | `node.hpp:51`: "built-in default → <datadir>/node.json (or the --config file) → CLI flag (CLI wins)" | `node.cpp:75`: `apply_config_file` does not look for `rpc_port`. `ConfigPrecedence` is about the other keys, and says of this one that no file sets it. |

## 4. Proofs

All theorems are checked by TLAPS for every value of the constants: any sets of
addresses, transactions, sends, processes, key files and candidates, any genesis
allocation, cap, skew and difficulty, any bounds. They rest on the `ASSUME`s of
the modules they are about (types of the constants, finitely many addresses, a
positive block cap and reward, a null address without a key; in `FrameCodec`,
that junk is no frame's header; in `MainServer`, that the rows are numbered from
1 on at first; in `Startup`, that the files there at first hold no key but the
first; in `Cli` and `ChainClient`, that work is an unsigned number, which is
arithmetic of `2^D` that the prover does not have) and on the hypotheses named
below. The inductive invariants TLC can evaluate were checked on the instances
of the runs before they were proved; those that say "there is a way" quantify
over all sequences of states and were not, but for the properties they imply.

### Replay and sums

Replay is a recursion over the chain, and the supply a sum over the accounts.
The provers have no induction rule, but the library proves that `<` is
well-founded on the naturals, and from the least element of a set follows
`SetInduction` in `LedgerProofs`: a set of numbers that has 0 and every
successor has them all. A property of numbers is proved for all by putting the
numbers that have it into a set. With it:

- `SumOf`: a sum over a finite set exists, does not depend on the order in which
  it is taken, and changes by what one element changes (`SumExists`, `SumAny`,
  `SumChange`). A transaction through the gate changes the supply by what it
  mints (`ApplyTxnSupply`).
- `Passed` are the states the transactions of a block lead through, and `Path`
  the states the blocks of a chain lead through. `PassedApplies`,
  `AppliesPassed`, `PathReplays` and `ReplayHasPath` show that a block passes
  `applyBlockTxns` and a chain `replayFromGenesis` exactly if there is such a
  way, and that it ends in the state they return. A way can be extended by a
  block, cut short and looked at later (`PathExtend`, `PathPrefix`,
  `PathLater`), which replay itself cannot.

### The chain

`ChainProofs`, about class `Chain` under any calls. `ReplayInv` says that the
chain has a way from genesis to `state`, that every entry of the undo log is the
delta of its block on that way, and that a call under way has come as far along
its block as `applyBlockTxns` would. `ReplayCorrect` (`ReplayAgrees`) and
`SupplyCorrect` (`SupplyConserved`) need `NoMinting`, for the supply check of
replay: no transfer pays its own sender, which mints in the code (run
`chain_selftransfer`), and no coinbase is offered at difficulty 0, where
`connectBlock` credits it and replay does not expect it (section 5).
`UndoCorrect` (`UndoRestores`) needs nothing. `HistoryCorrect`
(`StateIsHistory`) rests on `HistoryInv`: `Booked` says that the accounts are
what the transactions at a set of places make of genesis, and holds of `state`
with the places of the chain and of the working copy of a call with those it has
applied as well; one more transaction is one more place (`BookedStep`).

### The node

- `LedgerProofs`: what the gate and the mempool preserve. An account that passes
  the gate never goes negative; a transfer changes only its two accounts; every
  account but the sender keeps its nonce and does not lose. Admitting and
  evicting keep the three indexes in step.
- `TxNodeProofs`: `TypeCorrect` and `IndexesCorrect`, one case per action. The
  indexes need the types, and eviction needs them to agree before it.
- In the same module, `PendingStaysConnectable` and `OwnBlocksConnect`.
  `PendingConnectable` is not inductive: while a block is being made the
  accounts move under the mempool, transaction by transaction. `IInv`
  strengthens it with what the loop knows. The transactions collected so far
  are pending, of different senders, in hand order (`IsBatch`); the block being
  connected or ground is such a batch, after its coinbase in PoW mode
  (`InHand`, `LoopInv`); the scratch copy has applied exactly the first `ti` of
  it (`CallInv`); and every pending transaction that is not yet applied passes
  the gate against the scratch copy (`PendingInv`). The argument in a sentence:
  a sender has at most one pending transaction, so whatever else is applied
  leaves its nonce alone and can only add to its balance.
- `OldestLeaveFirst` in the same module is the action property `OldestFirst`.
  `OrderInv` says that the batch in hand is the oldest part of the mempool, also
  while it is ground without the lock. In PoW mode this rests on the theorem
  before: a selection that skipped a transaction would break it, and none is
  skipped because every pending transaction is selectable.
- The second half of the module first sorts the steps of the node by what they
  do to the chain in memory and on disk (`StepKinds`), and then proves three
  results: `VisibleStaysDurable`, from `FileInv`: the file is the chain, but for
  the last block where an append is due, and boot walks along it.
  `NothingTwice`, from `FreshInv`: the nonces of all transfers in the chain are
  used up, in the state and in the scratch copy. `FileIsLedger`, that the node
  implements `DurableLedger`: with `LinkInv`, the block to be written follows
  the one before it, every step maps to `Start`, `Extend` or a stutter.
- `AlwaysResumes` in the same module is `RestartResumes`. `ResumeInv`: the blocks
  in the file have a way, with the right supply at its end; `state` is on that
  way, at the block boot has come to, or at the end, or one block ahead while
  that is about to be written; and that block continues it. So what boot replays
  passes, and so does each block that it then connects, whenever the crash was.

  The hypotheses are where the code is known to fail. `DiskHonest`: an append,
  of genesis (`GenesisFaults`) or of a later block (`AppendFaults`), does not
  fail (run `node_appendfault` shows what happens otherwise), and a
  crash does not leave a whole line without its newline, to which the next
  append would be glued and lost. A torn line is allowed: it keeps the node from
  starting, and is excluded in `DiskAtomic`, the hypothesis of `AlwaysResumes`.
  `NoSelfTransfer`: a payment to oneself does not move the nonce (run
  `chain_selftransfer`), so that it can be mined again and again.

### The RPC server

`RpcProofs`: `RpcTypes`, `SendsTellTruth`, `SendsTurnedAway` and `NonceUsedOnce`.
What a send prints depends on a reply that may be long under way, while other
sends, blocks and the shutdown go on. `RInv` therefore says of every reply in
flight that it is true and stays true (`AnswerInv`), that a reply is only ever
on the connection being served or on a closed one (`ConnInv`), that a nonce that
moved and a transaction that is pending are the work of an admitted send
(`SourceInv`), and that at most one admitted send has lost its answer
(`LostInv`): the one the node was serving when it died, which prints "cannot
reach node" for a transaction that was taken. `NonceUsedOnce` adds that, while
the node lives, the nonce of an admitted send is held by its pending transaction
or used up (`NonceInv`), and asks that nobody pays
himself (`NoSelfSend`), as above.

### The key files

`StartupProofs`: `OnlyMadeKeysLoad`, `KeysStayPrivate` and `ReportedKeysStay`,
for any number of processes that save to the same files, killed anywhere, with
power losses. `TextInv` speaks of single pieces of a text, since two writers mix
them at will: every piece is of a key that was made, and a text without the
closing piece of `wallet_save` was not written by it, so that all its pieces are
of one key. From that `LoadSound` concludes that `wallet_load` refuses the text
or gives a key somebody made. A file in which a process may write is private,
because `fchmod` comes first and nobody undoes it. `SaveInv`: as long as a
process is the only one that wrote to a file since it opened it, the file holds
what it has written so far; and what was reported is whole, private and the same
on the medium.

### The configuration

`FlagsBeatFileBeatsDefault` (`ConfigPrecedence`), also in `StartupProofs`, for
every command line in which each flag has its value and for all configuration
files. It covers every key but `rpc_port`, of which it says that the file never
sets it: there the code departs from the order of `node.hpp`, which the
reference `Effective` has for all keys (`PortPrecedence`, which is violated).
`resolve_config` reads the words once, remembering which flag waits for
its value, and the reference looks at all of them at once for the last flag of a
key. `FlagFold` turns the fold of `ApplyFlags` into a run from word to word, and
`FlagsSet` shows by induction over the words that after each of them every key
is what its last complete flag says (`Setting`). `NextComplete` is the step: a
word completes the flag it is the value of, or the switch it is, or none,
because a value is never itself a flag (`ConfigAssumption`). `ScanFinds` shows
that the first pass, which looks at pairs of neighbouring words, finds the same
last `--datadir` and `--config`. `ConfigInv` carries the result to a process
that has not booted yet.

### Import and the offline send

`CliProofs`: `HeaviestStays`, `TipsNeverFlap`, `ReplacedIsLighter`,
`FileAlwaysReplays` and `SignsTheNext`, all under
`NodeDown`: import does not run beside the node. `HeavyInv` weighs the file
against the history at every step of a swap: the file tops what was offered and
replaced, the winner outweighs the file until it is truncated, and from then on
the winner tops the history in its place. Without the hypothesis
`ReplacedIsLighter` is false, which is the run `import_race`.

`FileAlwaysReplays` (`FileReplays`) rests on `FileInv`: what loads of the file
(`Parsed`: the blocks before the first line that does not parse) replays, the
winner replays, and a running node has the file's chain in memory. A kill leaves
a prefix of the winner, perhaps with a torn line behind it, on which neither the
node nor the tool goes on; the supply of that prefix nobody ever checked. One
cut is excepted in the statement, not by a hypothesis: exactly before a newline.
Such a file loads and boots, but the first block the node appends is glued to
its last line and lost (`glued`), until the next import. `PathSupply` shows that
the supply of a prefix is right: no block on a way brings less than
its reward (`BlockMints`), so that where the sum is right at the end no block
can have brought more.

`SignsTheNext` (`SignedIsNext`) is about the offline `send`, which has a replay
of its own: `replayState` collects the transactions of all blocks and takes
them through the gate, ignoring refusals. Both loops are folds. `SegmentFold`
gives a fold through the indices of a sequence a solution, `Collecting` and
`Gating` turn the two into runs step by step, and `ReplayStateReplays` shows by
induction over the blocks, and in `GateBlock` over the transactions of one, that
on a chain that replays they go the same way: what passes in a block passes the
gate, so nothing is ignored. `CliTypes` (`TypeOK`) needs no hypothesis:
`replayState` gives accounts whatever the file holds.

### The frame codec

`FrameProofs`: `FrameTypes`, `ErrorsMeanIt` and `CodecIsChannel`, the refinement
of `FrameChannel`. The reader's bytes say nothing by themselves of where in a
frame they are, so `IInv` names the stream `S` of all the bytes the calls so far
stand for, sent or not, and the place `E[i]` where frame `i` ends in it
(`Layout`). What the reader has, what is on the way and what is left to send are
three neighbouring stretches of `S` (`Flow`); `Send` and `Recv` only move a
border (`HandOver`), a frame taken up makes `S` longer (`AtGrow`), and a
connection closed in the middle ends behind the acknowledged frames and before
the end of the next. `ErrorsMeanIt` says of `SHORT_READ` that nothing
acknowledged is missing, whether the stream ended in a frame or between two;
`frame.hpp` knows only the first (`ShortReadMidFrame`, which is violated).
`LengthCodec` shows that `DecodeLength` undoes `EncodeLength` for any radix, so that the reader knows where the next frame
ends. `JunkAssumption` says what junk is: nine bytes that are no frame's header.

### The socket system

`MainServerProofs`: `ServiceTypes` needs no hypothesis. The other three need that
Server-M is not stopped with a request in hand (`~StopsAnytime`) and that no
write of a backend fails (`~WritesFail`); the run `v1_restart` and
`MCMainServer_writefault.cfg` show what happens otherwise. They rest on one invariant, `Service`,
because Server-M believes any datagram: it says what can be on the way at each
point. Outside of a request nothing is (`Quiet`); while Server-M waits, the
question is, or the answer to just this question, or neither, when a backend
restarted (`Waiting`); while it waits for a confirmation, the row is on its way
and the payment is feasible by the files as they are, or there is a set of files
it was feasible by and to which the row has been added (`Confirming`, `Paying`,
`Paid`). `Collecting` says that what has been collected is what the files of the
backends asked so far hold for this request, and `Numbered` that the rows are
numbered from 1 on, so that the highest serial is their number (`TopIs`) and no
two are equal (`SerialsDiffer`).

- `StepService` also shows that the files change in one way only: the row of the
  payment in hand is added to one of them. `FilesAreABook` (`CoinBookSpec`) is
  that such a step is `Transfer` of `CoinBook` and every other one a stutter.
- `ListIsComplete` (`ListComplete`) follows from `Collecting` at the last answer;
  the files cannot change until the next request.
- `AnswersAreTrue` (`AnswersTrue`) compares a balance taken over the rows
  collected with the difference of two sums over the book. `SumZero` adds the
  rows nobody asked for, `SumImage` goes from places to transfers, and
  `SumMinus` splits the changes into what came in and what went out. The
  answer to a payment to oneself is excepted in the property (`PaidItself`),
  since it is off by the amount (`PaidBalance`, which is violated).

The laws of sums are those of `LedgerProofs`, which is about the node's state and
cannot be extended here. `BlocksAssumption`, that the rows are numbered from 1 on
at first, holds of the block files in the repository.

### Only model-checked

- Liveness (`AdmittedIsMined`, `MonitorServed`, `ClientServed`, `EverySendEnds`,
  `StopReturns`, `FramesArrive`), which is out of the prover's reach.

Every other property of a passing run is stated by a theorem.

## 5. Not modelled, and what comes next

- *Canonical and JSON serialisation* (partly): Modelled by what the consensus rules use of it: equal bytes exactly for equal content, a line that parses back to its block or does not. Byte layout is covered by the repository's golden tests.
- *Cryptography* (partly): Ideal: collision-free hashes, signatures and addresses that are good or bad. The primitives themselves are out of reach of a state model.
- *Module markers: config, log, metrics, state* (not modelled): Each only returns its name; there is nothing to model.

Plan, in order:

1. A clock that steps back, and the node with torn writes at the end of the
   file.

Seen while modelling, modelled as they are, and not stated as properties:

- The event loop calls `should_seal_now` with a mempool size of 0
  (`apps/txnode/main.cpp:173`), so the early flush of `node.hpp:55` is never
  taken and a full mempool waits for the timer.
- The offline `send` replays with reward 0 and so refuses every chain with a
  coinbase (`apps/txchain/main.cpp:223`).
- While a transaction of its wallet waits, a `send` with a node is told the
  nonce after it, which `admit` refuses as stale until the first is mined.
- `import` accepts a chain on a foreign genesis, which `Node::boot` then
  refuses, and `monitor verify` calls it OK although `node.hpp:61` says that a
  refused boot carries what `monitor verify` would print; killed after the
  truncation it leaves less than the old chain. Without `--difficulty` both
  commands assume 22 (`params.hpp:43`; the comment at `apps/txchain/main.cpp:79`
  still says 16), and txnode 0.
- With reward 0 `applyBlockTxns` credits a well-formed coinbase as `tx0`; only
  replay's supply check refuses the chain afterwards, although `gate.hpp:58`
  says that reward 0 "expects none" and that connecting and replay "can never
  disagree". `ChainClient` shows it with `Difficulty = 0` and `WithCoinbase`:
  `ReplayAgrees` is violated. No process offers such a block to a chain.
- A process killed in `wallet_save` leaves a key file that every later start
  refuses, a zero-byte one too, which `Node::boot` would take for a fresh
  `chain.jsonl`; `wallet.hpp:66` calls the one the mirror of the other.
- Two nodes that start on a fresh directory both create a key; the one that
  announced its key first may run with one that the file no longer holds.
  `wallet keygen` replaces an existing key without a word. Two nodes on one
  directory also both append to `chain.jsonl`: the second does not stop when it
  cannot bind its RPC port.
- `--seal-empty` and `--max-skew` are read
  and used nowhere, and `--max-txns-per-block` matters only as 0, with which the
  loop seals on every pass. The tool takes the first of two equal flags, txnode
  the last.
An append cut short in the middle (`Extent` "torn" and "noeol" in `ChainStore`)
is part of the model and of the proofs of the node, but no passing run of the
node uses it: a torn
last line makes `load` fail and the node refuse to start, and a line without
newline swallows the next block appended. The repository does not claim to
survive either.
