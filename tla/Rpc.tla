--------------------------------- MODULE Rpc ---------------------------------
(***************************************************************************)
(* `txchain send --node' against the RPC server of a node: run_send        *)
(* (apps/txchain/main.cpp), http_request (http_client.cpp), the            *)
(* single-threaded HttpServer (http_server.cpp) and the routes (rpc.cpp),  *)
(* over the Mempool.  A send is two connections: GET /account for the      *)
(* nonce, then POST /tx with what was signed.                              *)
(*                                                                         *)
(* A request is a sequence of pieces, as TCP may deliver it: the header,   *)
(* then the parts of the body.  A request is handled under node_mtx and    *)
(* is one step, and so is a block of the node, of one transaction here.    *)
(* The node may stop, and it may die at any step, between taking a         *)
(* transaction and answering too; the module is about one life of it.      *)
(***************************************************************************)
EXTENDS Mempool

CONSTANTS
  Sends,      \* the send commands
  NoSend,     \* none of them
  Transfer,   \* what each is to pay: [from, to, amount]
  BodyParts,  \* in how many pieces the body of a POST may come
  MaxKills    \* bound on how many sends are killed

ASSUME RpcAssumption ==
  /\ NoSend \notin Sends
  /\ Transfer \in [Sends -> [from : Addr, to : Acct, amount : Nat]]
  /\ BodyParts \in Nat \ {0}
  /\ MaxKills \in Nat

VARIABLES
  accounts,  \* the accounts at the tip
  cpc,       \* where each send is
  nonce,     \* the nonce it was told
  result,    \* what it printed: "txid", "unreachable" or the error token
  conn,      \* its connection: "none", "queued", "open", "closed"
  written,   \* how many pieces of the request the client has written
  reply,     \* the answer on the connection, or NoReply
  spc,       \* where HttpServer::run is
  backlog,   \* connections not yet accepted
  cur,       \* the connection being served
  got,       \* how many pieces of its request were read
  stop,      \* stop_
  admitted   \* history: the sends whose transaction was admitted

clientVars == <<cpc, nonce, result, written>>
serverVars == <<spc, cur, got>>
vars == <<mempoolVars, accounts, clientVars, conn, reply, serverVars, backlog, stop, admitted>>

NoReply == [status |-> 0]

(* The pieces of the request a send is making.                              *)
Method(c) == IF cpc[c] \in {"get", "killedGet"} THEN "GET" ELSE "POST"
Pieces(c) == IF Method(c) = "GET" THEN 1 ELSE 1 + BodyParts
Dead(c) == cpc[c] \in {"killedGet", "killedPost"}

TypeOK ==
  /\ MempoolTypeOK
  /\ accounts \in Accounts
  /\ cpc \in [Sends -> {"start", "get", "signed", "post", "done", "killedGet", "killedPost"}]
  /\ nonce \in [Sends -> Nat]
  /\ conn \in [Sends -> {"none", "queued", "open", "closed"}]
  /\ \A c \in Sends : written[c] \in 0 .. Pieces(c)
  /\ spc \in {"poll", "read", "handle", "reply", "returned", "dead"}
  /\ backlog \in Seq(Sends)
  /\ spc \in {"read", "handle", "reply"} => cur \in Sends /\ got \in 0 .. Pieces(cur)
  /\ stop \in BOOLEAN
  /\ admitted \subseteq Sends

Init ==
  /\ MempoolNew
  /\ accounts = ApplyGenesis
  /\ cpc = [c \in Sends |-> "start"]
  /\ nonce = [c \in Sends |-> 0]
  /\ result = [c \in Sends |-> "none"]
  /\ conn = [c \in Sends |-> "none"]
  /\ written = [c \in Sends |-> 0]
  /\ reply = [c \in Sends |-> NoReply]
  /\ spc = "poll" /\ cur = NoSend /\ got = 0
  /\ backlog = <<>>
  /\ stop = FALSE
  /\ admitted = {}

-----------------------------------------------------------------------------
(* The client.                                                              *)

SignTxn(c) ==
  [from |-> Transfer[c].from, to |-> Transfer[c].to, amount |-> Transfer[c].amount,
   nonce |-> nonce[c], auth |-> "signed"]

Unreachable(c) ==
  /\ cpc' = [cpc EXCEPT ![c] = "done"]
  /\ result' = [result EXCEPT ![c] = "unreachable"]
  /\ written' = [written EXCEPT ![c] = 0]
  /\ UNCHANGED nonce

(* Nobody listens on the port.                                              *)
PortClosed == stop \/ spc = "dead"

(* http_request connects, for the account and again for the transaction.    *)
Connect(c) ==
  /\ cpc[c] \in {"start", "signed"}
  /\ \/ /\ ~PortClosed
        /\ cpc' = [cpc EXCEPT ![c] = IF @ = "start" THEN "get" ELSE "post"]
        /\ conn' = [conn EXCEPT ![c] = "queued"]
        /\ written' = [written EXCEPT ![c] = 0]
        /\ backlog' = Append(backlog, c)
        /\ UNCHANGED <<nonce, result>>
     \/ PortClosed /\ Unreachable(c) /\ UNCHANGED <<conn, backlog>>
  /\ UNCHANGED <<mempoolVars, accounts, reply, serverVars, stop, admitted>>

(* A turn of its write loop.                                                *)
ClientWrite(c) ==
  /\ cpc[c] \in {"get", "post"} /\ conn[c] \in {"queued", "open"}
  /\ written[c] < Pieces(c)
  /\ written' = [written EXCEPT ![c] = @ + 1]
  /\ UNCHANGED <<mempoolVars, accounts, cpc, nonce, result, conn, reply, serverVars, backlog,
                 stop, admitted>>

(* Reading up to the end of the connection, and what run_send makes of it:  *)
(* no answer is an unreachable node, an account gives the nonce to sign     *)
(* with, an answer to the post is printed.                                  *)
ClientRead(c) ==
  /\ cpc[c] \in {"get", "post"} /\ conn[c] = "closed"
  /\ conn' = [conn EXCEPT ![c] = "none"]
  /\ reply' = [reply EXCEPT ![c] = NoReply]
  /\ \/ reply[c] = NoReply /\ Unreachable(c)
     \/ /\ reply[c] # NoReply /\ cpc[c] = "get"
        /\ nonce' = [nonce EXCEPT ![c] = reply[c].pendingNonce]
        /\ cpc' = [cpc EXCEPT ![c] = "signed"]
        /\ written' = [written EXCEPT ![c] = 0]
        /\ UNCHANGED result
     \/ /\ reply[c] # NoReply /\ cpc[c] = "post"
        /\ result' = [result EXCEPT ![c] = IF reply[c].status = 200 THEN "txid"
                                           ELSE reply[c].error]
        /\ cpc' = [cpc EXCEPT ![c] = "done"]
        /\ written' = [written EXCEPT ![c] = 0]
        /\ UNCHANGED nonce
  /\ UNCHANGED <<mempoolVars, accounts, serverVars, backlog, stop, admitted>>

(* The send is killed; its end of the connection closes after what it wrote.*)
Killed(c) ==
  /\ cpc[c] \in {"get", "post"}
  /\ Cardinality({d \in Sends : Dead(d)}) < MaxKills
  /\ cpc' = [cpc EXCEPT ![c] = IF @ = "get" THEN "killedGet" ELSE "killedPost"]
  /\ UNCHANGED <<mempoolVars, accounts, nonce, result, written, conn, reply, serverVars,
                 backlog, stop, admitted>>

-----------------------------------------------------------------------------
(* HttpServer::run.                                                         *)

Accept ==
  /\ spc = "poll" /\ ~stop /\ backlog # <<>>
  /\ cur' = Head(backlog)
  /\ backlog' = Tail(backlog)
  /\ got' = 0
  /\ conn' = [conn EXCEPT ![Head(backlog)] = "open"]
  /\ spc' = "read"
  /\ UNCHANGED <<mempoolVars, accounts, clientVars, reply, stop, admitted>>

(* Mutant: one read is taken for the whole request.                         *)
ReadMore_Once ==
  /\ spc = "read" /\ written[cur] > got
  /\ got' = written[cur]
  /\ spc' = "handle"
  /\ UNCHANGED <<mempoolVars, accounts, clientVars, conn, reply, cur, backlog, stop, admitted>>

(* read_request: a read returns what has arrived; header and body complete, *)
(* the request is handled.                                                  *)
ReadMore ==
  /\ spc = "read" /\ written[cur] > got
  /\ got' = written[cur]
  /\ spc' = IF written[cur] = Pieces(cur) THEN "handle" ELSE "read"
  /\ UNCHANGED <<mempoolVars, accounts, clientVars, conn, reply, cur, backlog, stop, admitted>>

CloseConnection(r) ==
  /\ conn' = [conn EXCEPT ![cur] = "closed"]
  /\ reply' = [reply EXCEPT ![cur] = r]
  /\ cur' = NoSend /\ got' = 0
  /\ spc' = "poll"

(* Mutant: the end of the stream is not noticed.                            *)
ReadEnd_Ignored ==
  /\ spc = "read" /\ written[cur] = got /\ Dead(cur)
  /\ UNCHANGED vars

(* The client is gone: before the header that ends the connection, in the   *)
(* body the handler gets what there is.                                     *)
ReadEnd ==
  /\ spc = "read" /\ written[cur] = got /\ Dead(cur)
  /\ \/ got = 0 /\ CloseConnection(NoReply)
     \/ got > 0 /\ spc' = "handle" /\ UNCHANGED <<conn, reply, cur, got>>
  /\ UNCHANGED <<mempoolVars, accounts, clientVars, backlog, stop, admitted>>

(* GET /account: the nonce after the confirmed and the pending ones.        *)
AccountResp(a) ==
  [status |-> 200,
   pendingNonce |-> accounts[a].nonce + IF HasPending(a) THEN 1 ELSE 0]

(* Mutant: a duplicate is a success.                                        *)
AdmitStatus_DuplicateOk(r) == IF r \in {"OK", "DUPLICATE"} THEN 200 ELSE 409

AdmitStatus(r) ==
  IF r = "OK" THEN 200
  ELSE IF r \in {"STALE_NONCE", "DUPLICATE", "PENDING_SLOT_BUSY"} THEN 409
  ELSE IF r = "MEMPOOL_FULL" THEN 503
  ELSE 400

(* handle_request under the lock.  A body that is not whole is no txn.      *)
Handle ==
  /\ spc = "handle"
  /\ spc' = "reply"
  /\ LET t == SignTxn(cur)
         r == AdmitResult(t, accounts)
     IN \/ /\ Method(cur) = "GET"
           /\ reply' = [reply EXCEPT ![cur] = AccountResp(Transfer[cur].from)]
           /\ UNCHANGED <<mempoolVars, admitted>>
        \/ /\ Method(cur) = "POST" /\ got < Pieces(cur)
           /\ reply' = [reply EXCEPT ![cur] = [status |-> 400, error |-> "PARSE_ERROR"]]
           /\ UNCHANGED <<mempoolVars, admitted>>
        \/ /\ Method(cur) = "POST" /\ got = Pieces(cur)
           /\ Admit(t, accounts)
           /\ reply' = [reply EXCEPT ![cur] = [status |-> AdmitStatus(r), error |-> r]]
           /\ admitted' = IF r = "OK" THEN admitted \cup {cur} ELSE admitted
  /\ UNCHANGED <<accounts, clientVars, conn, cur, got, backlog, stop>>

(* write_all and close.                                                     *)
Reply ==
  /\ spc = "reply"
  /\ CloseConnection(reply[cur])
  /\ UNCHANGED <<mempoolVars, accounts, clientVars, backlog, stop, admitted>>

RunReturns ==
  /\ spc = "poll" /\ stop
  /\ spc' = "returned"
  /\ UNCHANGED <<mempoolVars, accounts, clientVars, conn, reply, cur, got, backlog, stop, admitted>>

-----------------------------------------------------------------------------
(* The main thread of the node.                                             *)

(* The oldest pending transaction is connected and evicted.                 *)
Seal ==
  /\ ~PortClosed
  /\ \E n \in SeqsFrom(0) :
       /\ \A m \in SeqsFrom(0) : n <= m
       /\ ApplyTxnReason(accounts, bySeq[n], 0, 1) = "OK"
       /\ accounts' = ApplyTxn(accounts, bySeq[n])
       /\ EvictIncluded(<<bySeq[n]>>)
  /\ UNCHANGED <<clientVars, conn, reply, serverVars, backlog, stop, admitted>>

(* HttpServer::stop, after the loop: the listening socket is shut down and  *)
(* with it the connections that wait on it.                                 *)
Stop ==
  /\ ~PortClosed
  /\ stop' = TRUE
  /\ backlog' = <<>>
  /\ conn' = [c \in Sends |-> IF conn[c] = "queued" THEN "closed" ELSE conn[c]]
  /\ UNCHANGED <<mempoolVars, accounts, clientVars, reply, serverVars, admitted>>

(* The node is killed or crashes.  Its connections close without an answer, *)
(* the one it was about to answer included, and the mempool is gone; the    *)
(* blocks are on disk.                                                      *)
NodeDies ==
  /\ spc \notin {"returned", "dead"}
  /\ spc' = "dead" /\ cur' = NoSend /\ got' = 0
  /\ backlog' = <<>>
  /\ conn' = [c \in Sends |-> IF conn[c] \in {"queued", "open"} THEN "closed" ELSE conn[c]]
  /\ reply' = [c \in Sends |-> IF conn[c] = "closed" THEN reply[c] ELSE NoReply]
  /\ byTxid' = <<>> /\ bySender' = <<>> /\ bySeq' = <<>> /\ next_seq' = 0
  /\ UNCHANGED <<accounts, clientVars, stop, admitted>>

Server == Accept \/ ReadMore \/ ReadEnd \/ Handle \/ Reply \/ RunReturns
Client(c) == Connect(c) \/ ClientWrite(c) \/ ClientRead(c)

Finished == (\A c \in Sends : cpc[c] = "done" \/ Dead(c)) /\ spc \in {"returned", "dead"}

Next ==
  \/ \E c \in Sends : Client(c) \/ Killed(c)
  \/ Server \/ Seal \/ Stop \/ NodeDies
  \/ Finished /\ UNCHANGED vars

Spec == Init /\ [][Next]_vars

(* The server, the node and every send that is alive run.                   *)
FairSpec ==
  /\ Spec
  /\ WF_vars(Server) /\ WF_vars(Seal)
  /\ \A c \in Sends : WF_vars(Client(c))

-----------------------------------------------------------------------------
(* What a send prints is true (run_send): a txid only for a transaction the *)
(* mempool took, a refusal only for one it did not.  "Cannot reach node"    *)
(* leaves it open in one case: the node died between taking the             *)
(* transaction and answering, which it can do to one send only.             *)
OutcomeTrue ==
  /\ \A c \in Sends :
       cpc[c] = "done" =>
         /\ result[c] = "txid" => c \in admitted
         /\ c \in admitted => result[c] = "txid" \/ (result[c] = "unreachable" /\ spc = "dead")
  /\ \A c, d \in admitted : result[c] = "unreachable" /\ result[d] = "unreachable" => c = d

(* Sends of one wallet that run side by side never get two transactions of  *)
(* the same nonce in, though all of them read the nonce first and post      *)
(* later (run_send, Mempool::admit).                                        *)
NonceOnce ==
  \A c, d \in admitted :
    c # d /\ Transfer[c].from = Transfer[d].from => nonce[c] # nonce[d]

(* A send is turned away for its nonce or its slot only because another     *)
(* send of the same wallet got in, and for a defect of the request never.   *)
RejectionExplained ==
  \A c \in Sends :
    /\ result[c] \in {"STALE_NONCE", "DUPLICATE", "PENDING_SLOT_BUSY"} =>
         \E d \in admitted \ {c} : Transfer[d].from = Transfer[c].from
    /\ result[c] \notin {"PARSE_ERROR", "BAD_ADDR", "BAD_SIG"}

(* Every send ends, whatever others are killed halfway through a request    *)
(* and whenever the node stops or dies: connections are served one at a     *)
(* time.                                                                    *)
EverySendEnds == \A c \in Sends : cpc[c] \in {"get", "post"} ~> cpc[c] = "done" \/ Dead(c)

(* run() returns after stop() (http_server.hpp), so that the join at        *)
(* shutdown ends, unless the node dies first.                               *)
StopReturns == stop ~> spc \in {"returned", "dead"}
=============================================================================
