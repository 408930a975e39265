----------------------------- MODULE MainServer -----------------------------
(***************************************************************************)
(* The socket system: Server-M (serverM.cpp) between clients and monitors  *)
(* on TCP and the three backends on UDP.  Server-M is one thread; it takes *)
(* one connection at a time, asks the backends one after the other and     *)
(* believes that the next datagram it receives is the answer.              *)
(***************************************************************************)
EXTENDS Backend, FiniteSets

CONSTANTS
  A, B, C,          \* the backends, in the order Server-M asks them
  Names,            \* the users, as plaintext
  INITIAL_BALANCE,  \* what every user starts with
  Requests,         \* what clients ask
  InitialBlocks,    \* per backend: the lines of its block file at first
  MaxBacklog,       \* bound on the connections that wait, of either kind
  MaxPayments,      \* bound on the TXCOINS requests
  MaxRestarts,      \* bound on the restarts of Server-M
  MaxCrashes,       \* bound on the restarts of backends
  StopsAnytime      \* may Server-M die with a request in hand, or only between two?

(* The rows of three block files, by backend and line.                      *)
Filed(files) == UNION {{s} \X Places(files[s]) : s \in Backends}

ASSUME MainServerAssumption ==
  /\ Backends = {A, B, C} /\ A # B /\ B # C /\ A # C
  /\ Names \subseteq CipherName
  /\ NoName \notin CipherName /\ Garbage \notin Row
  /\ INITIAL_BALANCE \in Nat
  /\ \A r \in Requests :
       /\ r.op = "CHECK_WALLET" => r.user \in Names
       /\ r.op = "TXCOINS" => {r.sender, r.receiver} \subseteq Names /\ r.amount \in CipherAmount
  /\ StopsAnytime \in BOOLEAN

(* The rows of the block files at first are numbered from 1 on.             *)
ASSUME BlocksAssumption ==
  /\ InitialBlocks \in [Backends -> Seq(Row \cup {Garbage})]
  /\ {InitialBlocks[p[1]][p[2]].serial : p \in Filed(InitialBlocks)} =
       1 .. Cardinality(Filed(InitialBlocks))

VARIABLES
  pc,          \* where Server-M is
  fds,         \* what select reported
  clients,     \* client connections waiting to be accepted: their requests
  monitors,    \* how many monitor connections wait
  mbox,        \* the datagrams in Server-M's UDP socket
  req,         \* the request in hand
  asked,       \* how many backends have answered
  txns,        \* the rows collected, in plaintext, each by the backend asked and its line
  max_serial,  \* the highest serial reported
  answer,      \* what the request in hand was answered
  txchain,     \* txchain.txt
  payments,    \* TXCOINS requests so far
  restarts     \* restarts so far, of Server-M and of backends

mainVars == <<pc, fds, clients, monitors, mbox, req, asked, txns, max_serial, answer,
              txchain, payments, restarts>>
vars == <<backendVars, mainVars>>

Order == <<A, B, C>>
NoRequest == [op |-> "none"]
NoAnswer == [kind |-> "none"]
NoFds == [client |-> FALSE, monitor |-> FALSE]

(* enc_str and dec_str.                                                     *)
EncName(n) == (n + 3) % 26
DecName(n) == (n + 23) % 26
EncAmount(n) == (n + 3) % 10
(* Mutant: the shift back does not wrap around.                             *)
DecAmount_NoWrap(n) == n - 3
DecAmount(n) == (n + 7) % 10

(* A row as parse_query_reply reads it.                                     *)
Decrypt(row) ==
  [serial |-> row.serial, sender |-> DecName(row.sender),
   receiver |-> DecName(row.receiver), amount |-> DecAmount(row.amount)]

(* The rows collected and those of a reply to a question to backend s.      *)
Collected(rows, s, reply) ==
  [p \in DOMAIN rows \cup ({s} \X DOMAIN reply) |->
     IF p \in DOMAIN rows THEN rows[p] ELSE Decrypt(reply[p[2]])]

Init ==
  /\ g_txns = InitialBlocks
  /\ blockfile = InitialBlocks
  /\ inbox = [s \in Backends |-> <<>>]
  /\ pc = "select"
  /\ fds = NoFds
  /\ clients = <<>>
  /\ monitors = 0
  /\ mbox = <<>>
  /\ req = NoRequest
  /\ asked = 0
  /\ txns = <<>>
  /\ max_serial = 0
  /\ answer = NoAnswer
  /\ txchain = <<>>
  /\ payments = 0
  /\ restarts = [main |-> 0, backend |-> 0]

-----------------------------------------------------------------------------
(* Clients and monitors connect and send their request (client.cpp,         *)
(* monitor.cpp); the kernel queues the connections.                         *)
ClientConnects ==
  /\ pc # "down" /\ Len(clients) < MaxBacklog
  /\ \E r \in Requests :
       /\ r.op = "TXCOINS" => payments < MaxPayments
       /\ clients' = Append(clients, r)
       /\ payments' = payments + IF r.op = "TXCOINS" THEN 1 ELSE 0
  /\ UNCHANGED <<backendVars, pc, fds, monitors, mbox, req, asked, txns, max_serial, answer,
                 txchain, restarts>>

MonitorConnects ==
  /\ pc # "down" /\ monitors < MaxBacklog
  /\ monitors' = monitors + 1
  /\ UNCHANGED <<backendVars, pc, fds, clients, mbox, req, asked, txns, max_serial, answer,
                 txchain, payments, restarts>>

-----------------------------------------------------------------------------
(* main: select, then the client if one was ready, then the monitor.        *)
Select ==
  /\ pc = "select"
  /\ clients # <<>> \/ monitors > 0
  /\ fds' = [client |-> clients # <<>>, monitor |-> monitors > 0]
  /\ pc' = "client"
  /\ UNCHANGED <<backendVars, clients, monitors, mbox, req, asked, txns, max_serial, answer,
                 txchain, payments, restarts>>

(* Take up request r: nothing collected yet.                                *)
Take(r) ==
  /\ req' = r
  /\ asked' = 0
  /\ txns' = <<>>
  /\ max_serial' = 0
  /\ answer' = NoAnswer

(* Mutant: a waiting monitor goes first.                                    *)
HandleClient_MonitorFirst ==
  /\ pc = "client"
  /\ \/ /\ ~fds.client \/ fds.monitor
        /\ pc' = "monitor"
        /\ UNCHANGED <<clients, req, asked, txns, max_serial, answer>>
     \/ /\ fds.client /\ ~fds.monitor
        /\ clients' = Tail(clients)
        /\ Take(Head(clients))
        /\ pc' = IF Head(clients).op \in {"CHECK_WALLET", "TXCOINS"} THEN "ask" ELSE "monitor"
  /\ UNCHANGED <<backendVars, fds, monitors, mbox, txchain, payments, restarts>>

(* handle_client: an operation it does not know is closed unanswered.       *)
HandleClient ==
  /\ pc = "client"
  /\ \/ /\ ~fds.client
        /\ pc' = "monitor"
        /\ UNCHANGED <<clients, req, asked, txns, max_serial, answer>>
     \/ /\ fds.client
        /\ clients' = Tail(clients)
        /\ Take(Head(clients))
        /\ pc' = IF Head(clients).op \in {"CHECK_WALLET", "TXCOINS"} THEN "ask" ELSE "monitor"
  /\ UNCHANGED <<backendVars, fds, monitors, mbox, txchain, payments, restarts>>

(* Mutant: a waiting client goes first.                                     *)
HandleMonitor_ClientFirst ==
  /\ pc = "monitor"
  /\ \/ /\ ~fds.monitor \/ clients # <<>>
        /\ pc' = "select" /\ fds' = NoFds
        /\ UNCHANGED <<monitors, req, asked, txns, max_serial, answer>>
     \/ /\ fds.monitor /\ clients = <<>>
        /\ monitors' = monitors - 1
        /\ Take([op |-> "TXLIST"])
        /\ pc' = "ask" /\ UNCHANGED fds
  /\ UNCHANGED <<backendVars, clients, mbox, txchain, payments, restarts>>

HandleMonitor ==
  /\ pc = "monitor"
  /\ \/ /\ ~fds.monitor
        /\ pc' = "select" /\ fds' = NoFds
        /\ UNCHANGED <<monitors, req, asked, txns, max_serial, answer>>
     \/ /\ fds.monitor
        /\ monitors' = monitors - 1
        /\ Take([op |-> "TXLIST"])
        /\ pc' = "ask" /\ UNCHANGED fds
  /\ UNCHANGED <<backendVars, clients, mbox, txchain, payments, restarts>>

-----------------------------------------------------------------------------
(* query_all and the loop of do_txlist: ask the next backend ...            *)
Question ==
  CASE req.op = "CHECK_WALLET" ->
         [op |-> "QUERY", name1 |-> EncName(req.user), name2 |-> NoName]
    [] req.op = "TXCOINS" ->
         [op |-> "QUERY", name1 |-> EncName(req.sender), name2 |-> EncName(req.receiver)]
    [] req.op = "TXLIST" -> [op |-> "ALL"]

Ask ==
  /\ pc = "ask"
  /\ inbox' = [inbox EXCEPT ![Order[asked + 1]] = Append(@, Question)]
  /\ pc' = "wait"
  /\ UNCHANGED <<g_txns, blockfile, fds, clients, monitors, mbox, req, asked, txns,
                 max_serial, answer, txchain, payments, restarts>>

(* Mutant: the last reply's maximum wins.                                   *)
Receive_LastMax ==
  /\ pc = "wait"
  /\ mbox # <<>>
  /\ mbox' = Tail(mbox)
  /\ max_serial' = Head(mbox).max
  /\ txns' = Collected(txns, Order[asked + 1], Head(mbox).rows)
  /\ asked' = asked + 1
  /\ pc' = IF asked + 1 < Len(Order) THEN "ask" ELSE "compute"
  /\ UNCHANGED <<backendVars, fds, clients, monitors, req, answer, txchain, payments, restarts>>

(* ... and wait, without end, for the next datagram, whoever sent it.       *)
Receive ==
  /\ pc = "wait"
  /\ mbox # <<>>
  /\ mbox' = Tail(mbox)
  /\ max_serial' = IF Head(mbox).max > max_serial THEN Head(mbox).max ELSE max_serial
  /\ txns' = Collected(txns, Order[asked + 1], Head(mbox).rows)
  /\ asked' = asked + 1
  /\ pc' = IF asked + 1 < Len(Order) THEN "ask" ELSE "compute"
  /\ UNCHANGED <<backendVars, fds, clients, monitors, req, answer, txchain, payments, restarts>>

(* The handler returns and its locals are gone.                             *)
Forget == asked' = 0 /\ txns' = <<>> /\ max_serial' = 0

(* The balance of a user over the rows collected, and who appears in them.  *)
Change(t, user) ==
  (IF t.receiver = user THEN t.amount ELSE 0) - (IF t.sender = user THEN t.amount ELSE 0)
BalanceIn(rows, user) ==
  INITIAL_BALANCE + MapThenSumSet(LAMBDA p : Change(rows[p], user), DOMAIN rows)
FoundIn(rows, user) == \E p \in DOMAIN rows : user \in {rows[p].sender, rows[p].receiver}

(* do_check_wallet.                                                         *)
CheckWallet ==
  /\ pc = "compute" /\ req.op = "CHECK_WALLET"
  /\ answer' = IF DOMAIN txns = {} THEN [kind |-> "NOTFOUND"]
               ELSE [kind |-> "FOUND", balance |-> BalanceIn(txns, req.user)]
  /\ pc' = "monitor"
  /\ Forget
  /\ UNCHANGED <<backendVars, fds, clients, monitors, mbox, req, txchain, payments, restarts>>

(* do_txcoins: the reasons to refuse, in order.                             *)
Refusal ==
  LET s == FoundIn(txns, req.sender)
      r == FoundIn(txns, req.receiver)
  IN IF ~s /\ ~r THEN "MISSINGBOTH"
     ELSE IF ~s THEN "MISSINGSENDER"
     ELSE IF ~r THEN "MISSINGRECEIVER"
     ELSE IF BalanceIn(txns, req.sender) < req.amount THEN "INSUFFICIENT"
     ELSE "none"

TxCoinsRefused ==
  /\ pc = "compute" /\ req.op = "TXCOINS" /\ Refusal # "none"
  /\ answer' = IF Refusal = "INSUFFICIENT"
               THEN [kind |-> "INSUFFICIENT", balance |-> BalanceIn(txns, req.sender)]
               ELSE [kind |-> Refusal]
  /\ pc' = "monitor"
  /\ Forget
  /\ UNCHANGED <<backendVars, fds, clients, monitors, mbox, req, txchain, payments, restarts>>

(* A feasible transfer goes to a backend picked at random ...               *)
TxCoinsRecord ==
  /\ pc = "compute" /\ req.op = "TXCOINS" /\ Refusal = "none"
  /\ LET row == [serial |-> max_serial + 1, sender |-> EncName(req.sender),
                 receiver |-> EncName(req.receiver), amount |-> EncAmount(req.amount)]
     IN \E pick \in Backends :
          inbox' = [inbox EXCEPT ![pick] = Append(@, [op |-> "NEW", row |-> row])]
  /\ pc' = "confirm"
  /\ UNCHANGED <<g_txns, blockfile, fds, clients, monitors, mbox, req, asked, txns,
                 max_serial, answer, txchain, payments, restarts>>

(* ... and any datagram confirms it.                                        *)
TxCoinsDone ==
  /\ pc = "confirm"
  /\ mbox # <<>>
  /\ mbox' = Tail(mbox)
  /\ answer' = [kind |-> "SUCCESS", balance |-> BalanceIn(txns, req.sender) - req.amount]
  /\ pc' = "monitor"
  /\ Forget
  /\ UNCHANGED <<backendVars, fds, clients, monitors, req, txchain, payments, restarts>>

(* Some order of the rows collected.                                        *)
Orders(rows) == Bijection(1 .. Cardinality(DOMAIN rows), DOMAIN rows)
Sorted(rows, order) ==
  \A i \in 1 .. Cardinality(DOMAIN rows) - 1 : rows[order[i]].serial <= rows[order[i + 1]].serial

(* Mutant: the sort is missing.                                             *)
TxList_Unsorted ==
  /\ pc = "compute" /\ req.op = "TXLIST"
  /\ \E order \in Orders(txns) : txchain' = [i \in DOMAIN order |-> txns[order[i]]]
  /\ answer' = [kind |-> "OK"]
  /\ pc' = "select"
  /\ Forget
  /\ fds' = NoFds
  /\ UNCHANGED <<backendVars, clients, monitors, mbox, req, payments, restarts>>

(* do_txlist: everything, sorted by serial (std::sort leaves the order of   *)
(* equal ones open), replaces txchain.txt.                                  *)
TxList ==
  /\ pc = "compute" /\ req.op = "TXLIST"
  /\ \E order \in Orders(txns) :
       /\ Sorted(txns, order)
       /\ txchain' = [i \in DOMAIN order |-> txns[order[i]]]
  /\ answer' = [kind |-> "OK"]
  /\ pc' = "select"
  /\ Forget
  /\ fds' = NoFds
  /\ UNCHANGED <<backendVars, clients, monitors, mbox, req, payments, restarts>>

-----------------------------------------------------------------------------
(* The backends answer; a datagram to a dead Server-M is lost.              *)
BackendAnswers(s) ==
  /\ TakeRequest(s)
  /\ mbox' = IF pc = "down" THEN mbox ELSE Append(mbox, ReplyTo(s, Head(inbox[s])))
  /\ UNCHANGED <<pc, fds, clients, monitors, req, asked, txns, max_serial, answer, txchain,
                 payments, restarts>>

BackendRestarts ==
  /\ restarts.backend < MaxCrashes
  /\ \E s \in Backends : RestartBackend(s)
  /\ restarts' = [restarts EXCEPT !.backend = @ + 1]
  /\ UNCHANGED <<pc, fds, clients, monitors, mbox, req, asked, txns, max_serial, answer,
                 txchain, payments>>

(* Server-M dies with its connections and its socket, and is started again; *)
(* what it asked of the backends is still on its way.                       *)
MainStops ==
  /\ restarts.main < MaxRestarts
  /\ pc # "down"
  /\ StopsAnytime \/ pc \in {"select", "client", "monitor"}
  /\ pc' = "down"
  /\ clients' = <<>> /\ monitors' = 0 /\ mbox' = <<>>
  /\ Take(NoRequest)
  /\ fds' = NoFds
  /\ restarts' = [restarts EXCEPT !.main = @ + 1]
  /\ UNCHANGED <<backendVars, txchain, payments>>

MainStarts ==
  /\ pc = "down"
  /\ pc' = "select"
  /\ UNCHANGED <<backendVars, fds, clients, monitors, mbox, req, asked, txns, max_serial,
                 answer, txchain, payments, restarts>>

Main ==
  \/ Select \/ HandleClient \/ HandleMonitor \/ Ask \/ Receive
  \/ CheckWallet \/ TxCoinsRefused \/ TxCoinsRecord \/ TxCoinsDone \/ TxList

Next ==
  \/ ClientConnects \/ MonitorConnects
  \/ Main
  \/ \E s \in Backends : BackendAnswers(s)
  \/ BackendRestarts \/ MainStops \/ MainStarts

Spec == Init /\ [][Next]_vars

(* Server-M and the backends run, and Server-M is started again.            *)
FairSpec ==
  /\ Spec
  /\ WF_vars(Main) /\ WF_vars(MainStarts)
  /\ \A s \in Backends : WF_vars(BackendAnswers(s))

-----------------------------------------------------------------------------
(* Every variable has its type.                                             *)
Txn == [serial : Nat, sender : CipherName, receiver : CipherName, amount : CipherAmount]
TypeOK ==
  /\ \A s \in Backends :
       /\ g_txns[s] \in Seq(Row \cup {Garbage})
       /\ blockfile[s] \in Seq(Row \cup {Garbage})
  /\ pc \in {"select", "client", "monitor", "ask", "wait", "compute", "confirm", "down"}
  /\ \A i \in 1 .. Len(mbox) : mbox[i].max \in Nat /\ mbox[i].rows \in [DOMAIN mbox[i].rows -> Row]
  /\ asked \in 0 .. Len(Order)
  /\ txns \in [DOMAIN txns -> Txn] /\ DOMAIN txns \subseteq Backends \X Nat
  /\ max_serial \in Nat
  /\ txchain \in Seq(Txn)

(* The rows of the three block files, in plaintext.                         *)
Recorded == {Decrypt(blockfile[p[1]][p[2]]) : p \in Filed(blockfile)}

Book == INSTANCE CoinBook WITH book <- Recorded

(* The three files together are one book of transfers, numbered from 1 on   *)
(* without gap or repetition, each feasible when it was recorded            *)
(* (serverM.cpp, "assign the next serial"), whatever backends restart.      *)
CoinBookSpec == Book!Spec

(* No transfer is recorded in two places, and no serial is given twice,     *)
(* whatever backend restarts (serverM.cpp, max_serial + 1).                 *)
SerialsUnique == Cardinality({t.serial : t \in Recorded}) = Cardinality(Filed(blockfile))

(* A member paid itself: do_txcoins takes the amount off the balance it     *)
(* answers, though the member also received it (see PaidBalance).           *)
PaidItself == answer.kind = "SUCCESS" /\ req.sender = req.receiver

(* An answer is true by all that is recorded: a balance is the user's, its  *)
(* own new transfer included unless it paid itself (serverM.cpp,            *)
(* do_check_wallet and do_txcoins), and a user called missing is in no      *)
(* block file.                                                              *)
AnswersTrue ==
  /\ "balance" \in DOMAIN answer /\ ~PaidItself =>
       answer.balance =
         Book!Balance(Recorded, IF req.op = "CHECK_WALLET" THEN req.user ELSE req.sender)
  /\ answer.kind = "NOTFOUND" => ~Book!Member(Recorded, req.user)
  /\ answer.kind \in {"MISSINGSENDER", "MISSINGBOTH"} => ~Book!Member(Recorded, req.sender)
  /\ answer.kind \in {"MISSINGRECEIVER", "MISSINGBOTH"} => ~Book!Member(Recorded, req.receiver)

(* The balance after a payment is the sender's, whoever was paid: "the      *)
(* updated balance (current balance after this transaction)"                *)
(* (Project_Instructions.md; serverM.cpp, new_balance).                     *)
PaidBalance == answer.kind = "SUCCESS" => answer.balance = Book!Balance(Recorded, req.sender)

(* A payment answered with success is in a block file: the backend "records *)
(* this log information as a new entry in its log database" before it       *)
(* confirms (Project_Instructions.md; serverA.cpp, handle_new).             *)
SuccessRecorded ==
  answer.kind = "SUCCESS" =>
    \E t \in Recorded :
      t.sender = req.sender /\ t.receiver = req.receiver /\ t.amount = req.amount

(* What the monitor is told exists holds every transfer once, in order.     *)
ListComplete ==
  answer.kind = "OK" =>
    /\ {txchain[i] : i \in 1 .. Len(txchain)} = Recorded
    /\ Len(txchain) = Cardinality(Filed(blockfile))
    /\ \A i \in 1 .. Len(txchain) - 1 : txchain[i].serial < txchain[i + 1].serial

(* No monitor waits for ever, however many clients come (main's loop turns  *)
(* to the monitor after each client); only a backend that restarts, and     *)
(* loses the question, leaves Server-M waiting.                             *)
MonitorServed ==
  monitors > 0 ~> answer.kind = "OK" \/ pc = "down" \/ restarts.backend > 0

(* No client with a request the server knows waits for ever, however many   *)
(* monitors come.                                                           *)
ClientServed ==
  clients # <<>> /\ Head(clients).op \in {"CHECK_WALLET", "TXCOINS"} ~>
    answer.kind \notin {"none", "OK"} \/ pc = "down" \/ restarts.backend > 0
=============================================================================
