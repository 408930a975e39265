------------------------------ MODULE RpcProofs ------------------------------
(***************************************************************************)
(* Proofs about `txchain send' against the RPC server, for any number of   *)
(* sends and wallets, any split of the requests, any kills and a death of  *)
(* the node at any step: what a send prints is true, why it is turned away, *)
(* and that no nonce is used twice.                                        *)
(***************************************************************************)
EXTENDS Rpc, LedgerProofs

Served == {"read", "handle", "reply"}
Talking == {"get", "post", "killedGet", "killedPost"}

(* Every variable that is a map of the sends has its domain; the backlog    *)
(* holds each waiting connection once, the server has one open connection,  *)
(* the one it serves, and an answer is on its way only there or on a        *)
(* connection that is closed.  A live client's request is handled whole.    *)
ConnInv ==
  /\ DOMAIN result = Sends /\ DOMAIN written = Sends /\ DOMAIN reply = Sends
  /\ \A i, j \in 1 .. Len(backlog) : backlog[i] = backlog[j] => i = j
  /\ \A i \in 1 .. Len(backlog) : conn[backlog[i]] = "queued"
  /\ spc \in Served => conn[cur] = "open"
  /\ \A c \in Sends : conn[c] = "open" => spc \in Served /\ cur = c
  /\ \A c \in Sends : conn[c] # "none" <=> cpc[c] \in Talking
  /\ \A c \in Sends : reply[c] # NoReply => conn[c] = "closed" \/ (spc = "reply" /\ cur = c)
  /\ spc = "handle" => got = Pieces(cur) \/ Dead(cur)

(* Another send of the same wallet got in.                                  *)
Rival(c) == \E d \in admitted \ {c} : Transfer[d].from = Transfer[c].from

Taken == {"STALE_NONCE", "DUPLICATE", "PENDING_SLOT_BUSY"}
Defect == {"PARSE_ERROR", "BAD_ADDR", "BAD_SIG"}

(* The send the node died on: its transaction was taken, no answer comes.   *)
Lost(c) ==
  /\ spc = "dead"
  /\ \/ cpc[c] \in {"post", "killedPost"} /\ reply[c] = NoReply
     \/ cpc[c] = "done" /\ result[c] = "unreachable"

LostInv == \A c, d \in admitted : Lost(c) /\ Lost(d) => c = d

(* What an answer says is true when it is given and stays true on its way.  *)
AnswerOf(c) ==
  /\ reply[c] # NoReply /\ cpc[c] = "get" =>
       reply[c].pendingNonce \in Nat /\ (reply[c].pendingNonce # 0 => Rival(c))
  /\ reply[c] # NoReply /\ cpc[c] \in {"post", "killedPost"} =>
       /\ reply[c].status = 200 <=> c \in admitted
       /\ reply[c].error # "txid"
       /\ reply[c].error \in Taken => Rival(c)
       /\ cpc[c] = "post" => reply[c].error \notin Defect
  /\ c \in admitted =>
       \/ cpc[c] \in {"post", "killedPost"} /\ reply[c] # NoReply
       \/ cpc[c] = "done" /\ result[c] = "txid"
       \/ Lost(c)
  /\ cpc[c] # "done" => result[c] = "none"
  /\ result[c] = "txid" => c \in admitted
  /\ result[c] \in Taken => Rival(c)
  /\ result[c] \notin Defect
  /\ nonce[c] # 0 => Rival(c)

AnswerInv == \A c \in Sends : AnswerOf(c)

(* What is pending was posted by an admitted send, and an account's nonce   *)
(* has moved only for one.                                                  *)
SourceInv ==
  /\ \A t \in Pending : \E d \in admitted : t = SignTxn(d)
  /\ \A a \in Acct : accounts[a].nonce # 0 => \E d \in admitted : Transfer[d].from = a

(* The nonce of an admitted send is held by its pending transaction, or is  *)
(* used up, as long as the node lives.                                      *)
NonceInv ==
  /\ spc # "dead" => \A d \in admitted :
       SignTxn(d) \in Pending \/ nonce[d] < accounts[Transfer[d].from].nonce
  /\ NonceOnce

(* The inductive invariant.                                                 *)
RInv == TypeOK /\ IndexesAgree /\ ConnInv /\ AnswerInv /\ LostInv /\ SourceInv

-----------------------------------------------------------------------------
(* The steps of a send.  None of them touches the node.                     *)

(* What has been admitted is done or waits for its answer, so that a send   *)
(* that is told a nonce now was not admitted, and no nonce of an admitted   *)
(* send changes.                                                            *)
LEMMA ClientSource ==
  ASSUME RInv, UNCHANGED <<mempoolVars, accounts, admitted>>,
         \A d \in admitted : nonce'[d] = nonce[d]
  PROVE  SourceInv' /\ IndexesAgree' /\ MempoolTypeOK' /\ accounts' \in Accounts
         /\ \A c \in Sends : Rival(c)' <=> Rival(c)
<1>1. Pending' = Pending /\ IndexesAgree' /\ MempoolTypeOK'
  BY MempoolFrame DEF RInv, TypeOK
<1>2. \A d \in admitted : SignTxn(d)' = SignTxn(d)
  BY DEF SignTxn
<1>. QED  BY <1>1, <1>2 DEF RInv, TypeOK, SourceInv, Rival

LEMMA ConnectKeeps ==
  ASSUME RInv, NEW c \in Sends, Connect(c)
  PROVE  RInv'
<1>0. /\ cpc[c] \in {"start", "signed"} /\ conn[c] = "none" /\ reply[c] = NoReply
      /\ c \notin admitted /\ (spc \in Served => cur \in Sends /\ cur # c)
  <2>1. cpc[c] \in {"start", "signed"}
    BY DEF Connect
  <2>2. conn[c] = "none" /\ c \notin admitted
    BY <2>1 DEF RInv, ConnInv, AnswerInv, AnswerOf, Lost, Talking
  <2>3. spc \in Served => cur \in Sends /\ cur # c
    BY <2>2 DEF RInv, TypeOK, ConnInv, Served
  <2>. QED  BY <2>1, <2>2, <2>3 DEF RInv, ConnInv, Served
<1>1. UNCHANGED <<mempoolVars, accounts, admitted>> /\ nonce' = nonce /\ reply' = reply
      /\ spc' = spc /\ cur' = cur /\ got' = got /\ stop' = stop
  BY DEF Connect, Unreachable, serverVars
<1>2. /\ SourceInv' /\ IndexesAgree' /\ MempoolTypeOK' /\ accounts' \in Accounts
      /\ \A d \in Sends : Rival(d)' <=> Rival(d)
  BY <1>1, ClientSource
<1>3. /\ DOMAIN cpc = Sends /\ DOMAIN conn = Sends /\ DOMAIN written = Sends
      /\ DOMAIN result = Sends /\ backlog \in Seq(Sends) /\ BodyParts \in Nat
  BY RpcAssumption DEF RInv, TypeOK, ConnInv
<1>6. ASSUME NEW d \in admitted, \A e \in Sends : e # c => cpc'[e] = cpc[e] /\ result'[e] = result[e]
      PROVE  Lost(d)' <=> Lost(d)
  BY <1>0, <1>1, <1>6 DEF RInv, TypeOK, Lost
<1>4. CASE ~PortClosed
  <2>1. /\ cpc' = [cpc EXCEPT ![c] = IF @ = "start" THEN "get" ELSE "post"]
        /\ conn' = [conn EXCEPT ![c] = "queued"]
        /\ written' = [written EXCEPT ![c] = 0]
        /\ backlog' = Append(backlog, c) /\ result' = result
    BY <1>4 DEF Connect
  <2>8. LostInv'
    BY <1>1, <1>3, <1>6, <2>1 DEF RInv, LostInv
  <2>5. /\ \A d \in Sends : d # c => cpc'[d] = cpc[d] /\ conn'[d] = conn[d] /\ written'[d] = written[d]
        /\ cpc'[c] \in {"get", "post"} /\ conn'[c] = "queued" /\ written'[c] = 0
        /\ DOMAIN cpc' = Sends /\ DOMAIN conn' = Sends /\ DOMAIN written' = Sends
    BY <1>0, <1>3, <2>1
  <2>6. \A d \in Sends : d # c => Pieces(d)' = Pieces(d) /\ (Dead(d)' <=> Dead(d))
    BY <2>5 DEF Pieces, Method, Dead
  <2>7. Pieces(c)' \in Nat
    BY <1>3 DEF Pieces
  <2>2. TypeOK'
    <3>1. cpc' \in [Sends -> {"start", "get", "signed", "post", "done", "killedGet", "killedPost"}]
      BY <1>3, <2>1 DEF RInv, TypeOK
    <3>2. conn' \in [Sends -> {"none", "queued", "open", "closed"}]
      BY <1>3, <2>1 DEF RInv, TypeOK
    <3>3. \A d \in Sends : written'[d] \in 0 .. Pieces(d)'
      BY <2>5, <2>6, <2>7 DEF RInv, TypeOK
    <3>4. backlog' \in Seq(Sends)
      BY <1>3, <2>1
    <3>5. spc' \in Served => cur' \in Sends /\ got' \in 0 .. Pieces(cur)'
      BY <1>0, <1>1, <2>6 DEF RInv, TypeOK, Served
    <3>. QED  BY <1>1, <1>2, <3>1, <3>2, <3>3, <3>4, <3>5 DEF RInv, TypeOK, Served
  <2>3. ConnInv'
    <3>1. /\ Len(backlog') = Len(backlog) + 1 /\ backlog'[Len(backlog) + 1] = c
          /\ \A i \in 1 .. Len(backlog) : backlog'[i] = backlog[i] /\ backlog[i] \in Sends
      BY <1>3, <2>1
    <3>2. \A i \in 1 .. Len(backlog) : backlog[i] # c /\ conn[backlog[i]] = "queued"
      BY <1>0 DEF RInv, ConnInv
    <3>3. Len(backlog) \in Nat
      BY <1>3
    <3>4. \A i \in 1 .. Len(backlog') : i = Len(backlog) + 1 \/ i \in 1 .. Len(backlog)
      BY <3>1, <3>3
    <3>5. \A i, j \in 1 .. Len(backlog') : backlog'[i] = backlog'[j] => i = j
      BY <3>1, <3>2, <3>4 DEF RInv, ConnInv
    <3>6. \A i \in 1 .. Len(backlog') : conn'[backlog'[i]] = "queued"
      BY <2>5, <3>1, <3>2, <3>4
    <3>7. \A d \in Sends : conn'[d] # "none" <=> cpc'[d] \in Talking
      BY <2>5 DEF RInv, ConnInv, Talking
    <3>. QED
      BY <1>0, <1>1, <1>3, <2>1, <2>5, <2>6, <3>5, <3>6, <3>7 DEF RInv, ConnInv, Served
  <2>4. AnswerInv'
    BY <1>0, <1>1, <1>2, <1>3, <2>1 DEF RInv, TypeOK, AnswerInv, AnswerOf, Lost
  <2>. QED  BY <1>2, <2>2, <2>3, <2>4, <2>8 DEF RInv
<1>5. CASE PortClosed
  <2>1. /\ cpc' = [cpc EXCEPT ![c] = "done"]
        /\ result' = [result EXCEPT ![c] = "unreachable"]
        /\ written' = [written EXCEPT ![c] = 0]
        /\ conn' = conn /\ backlog' = backlog
    BY <1>5 DEF Connect, Unreachable
  <2>2. TypeOK'
    BY <1>0, <1>1, <1>2, <1>3, <2>1 DEF RInv, TypeOK, Pieces, Method
  <2>3. ConnInv'
    BY <1>0, <1>1, <1>3, <2>1 DEF RInv, TypeOK, ConnInv, Pieces, Method, Dead, Talking
  <2>4. AnswerInv'
    BY <1>0, <1>1, <1>2, <1>3, <2>1 DEF RInv, TypeOK, AnswerInv, AnswerOf, Lost, Taken, Defect
  <2>5. LostInv'
    BY <1>1, <1>3, <1>6, <2>1 DEF RInv, LostInv
  <2>. QED  BY <1>2, <2>2, <2>3, <2>4, <2>5 DEF RInv
<1>. QED  BY <1>4, <1>5

LEMMA ClientWriteKeeps ==
  ASSUME RInv, NEW c \in Sends, ClientWrite(c)
  PROVE  RInv'
<1>1. /\ UNCHANGED <<mempoolVars, accounts, admitted, cpc, nonce, result, conn, reply, backlog, stop>>
      /\ spc' = spc /\ cur' = cur /\ got' = got
      /\ written[c] < Pieces(c) /\ written' = [written EXCEPT ![c] = @ + 1]
  BY DEF ClientWrite, serverVars
<1>2. /\ SourceInv' /\ IndexesAgree' /\ MempoolTypeOK' /\ accounts' \in Accounts
      /\ \A d \in Sends : Rival(d)' <=> Rival(d)
  BY <1>1, ClientSource
<1>3. \A d : Pieces(d)' = Pieces(d) /\ (Dead(d)' <=> Dead(d))
  BY <1>1 DEF Pieces, Method, Dead
<1>4. DOMAIN written = Sends /\ \A d \in Sends : Pieces(d) \in Nat
  BY RpcAssumption DEF RInv, ConnInv, Pieces
<1>5. \A d \in Sends : written'[d] \in 0 .. Pieces(d)'
  BY <1>1, <1>3, <1>4 DEF RInv, TypeOK
<1>6. TypeOK'
  BY <1>1, <1>2, <1>3, <1>5 DEF RInv, TypeOK
<1>7. ConnInv'
  BY <1>1, <1>3, <1>4 DEF RInv, ConnInv
<1>8. AnswerInv' /\ LostInv'
  BY <1>1, <1>2 DEF RInv, AnswerInv, AnswerOf, LostInv, Lost
<1>. QED  BY <1>2, <1>6, <1>7, <1>8 DEF RInv

LEMMA KilledKeeps ==
  ASSUME RInv, NEW c \in Sends, Killed(c)
  PROVE  RInv'
<1>1. /\ UNCHANGED <<mempoolVars, accounts, admitted, nonce, result, written, conn, reply, backlog, stop>>
      /\ spc' = spc /\ cur' = cur /\ got' = got /\ cpc[c] \in {"get", "post"}
      /\ cpc' = [cpc EXCEPT ![c] = IF @ = "get" THEN "killedGet" ELSE "killedPost"]
  BY DEF Killed, serverVars
<1>2. /\ SourceInv' /\ IndexesAgree' /\ MempoolTypeOK' /\ accounts' \in Accounts
      /\ \A d \in Sends : Rival(d)' <=> Rival(d)
  BY <1>1, ClientSource
<1>3. /\ \A d \in Sends : d # c => cpc'[d] = cpc[d]
      /\ cpc'[c] = IF cpc[c] = "get" THEN "killedGet" ELSE "killedPost"
  BY <1>1 DEF RInv, TypeOK
<1>4. \A d \in Sends : Pieces(d)' = Pieces(d) /\ (Dead(d) => Dead(d)')
  BY <1>1, <1>3 DEF Pieces, Method, Dead
<1>5. TypeOK'
  <2>1. cpc' \in [Sends -> {"start", "get", "signed", "post", "done", "killedGet", "killedPost"}]
    BY <1>1 DEF RInv, TypeOK
  <2>. QED  BY <1>1, <1>2, <1>4, <2>1 DEF RInv, TypeOK
<1>6. ConnInv'
  <2>1. \A d \in Sends : conn'[d] # "none" <=> cpc'[d] \in Talking
    BY <1>1, <1>3 DEF RInv, ConnInv, Talking
  <2>2. spc' = "handle" => got' = Pieces(cur)' \/ Dead(cur)'
    BY <1>1, <1>4 DEF RInv, TypeOK, ConnInv
  <2>. QED  BY <1>1, <2>1, <2>2 DEF RInv, ConnInv
<1>7. AnswerInv'
  BY <1>1, <1>2, <1>3 DEF RInv, AnswerInv, AnswerOf, Lost
<1>8. LostInv'
  BY <1>1, <1>3 DEF RInv, TypeOK, LostInv, Lost
<1>. QED  BY <1>2, <1>5, <1>6, <1>7, <1>8 DEF RInv

LEMMA ClientReadKeeps ==
  ASSUME RInv, NEW c \in Sends, ClientRead(c)
  PROVE  RInv'
<1>1. /\ UNCHANGED <<mempoolVars, accounts, admitted, backlog, stop>>
      /\ spc' = spc /\ cur' = cur /\ got' = got
      /\ cpc[c] \in {"get", "post"} /\ conn[c] = "closed"
      /\ conn' = [conn EXCEPT ![c] = "none"]
      /\ reply' = [reply EXCEPT ![c] = NoReply]
      /\ written' = [written EXCEPT ![c] = 0]
  BY DEF ClientRead, Unreachable, serverVars
<1>2. /\ spc \in Served => cur \in Sends /\ cur # c
      /\ \A i \in 1 .. Len(backlog) : backlog[i] # c /\ backlog[i] \in Sends
  <2>1. backlog \in Seq(Sends)
    BY DEF RInv, TypeOK
  <2>. QED  BY <1>1, <2>1 DEF RInv, TypeOK, ConnInv, Served
<1>3. /\ DOMAIN cpc = Sends /\ DOMAIN conn = Sends /\ DOMAIN written = Sends
      /\ DOMAIN result = Sends /\ DOMAIN reply = Sends /\ DOMAIN nonce = Sends
  BY DEF RInv, TypeOK, ConnInv
<1>4. \/ /\ reply[c] = NoReply /\ nonce' = nonce
         /\ cpc' = [cpc EXCEPT ![c] = "done"]
         /\ result' = [result EXCEPT ![c] = "unreachable"]
      \/ /\ reply[c] # NoReply /\ cpc[c] = "get" /\ result' = result
         /\ cpc' = [cpc EXCEPT ![c] = "signed"]
         /\ nonce' = [nonce EXCEPT ![c] = reply[c].pendingNonce]
      \/ /\ reply[c] # NoReply /\ cpc[c] = "post" /\ nonce' = nonce
         /\ cpc' = [cpc EXCEPT ![c] = "done"]
         /\ result' = [result EXCEPT ![c] = IF reply[c].status = 200 THEN "txid"
                                            ELSE reply[c].error]
  BY DEF ClientRead, Unreachable
<1>5. /\ \A d \in Sends : d # c =>
           /\ cpc'[d] = cpc[d] /\ conn'[d] = conn[d] /\ written'[d] = written[d]
           /\ result'[d] = result[d] /\ reply'[d] = reply[d] /\ nonce'[d] = nonce[d]
      /\ cpc'[c] \in {"signed", "done"} /\ conn'[c] = "none" /\ written'[c] = 0
      /\ reply'[c] = NoReply
      /\ DOMAIN written' = Sends /\ DOMAIN result' = Sends /\ DOMAIN reply' = Sends
  BY <1>1, <1>3, <1>4
<1>6. c \in admitted => cpc[c] = "post" /\ (reply[c] # NoReply \/ Lost(c))
  BY <1>1 DEF RInv, AnswerInv, AnswerOf, Lost
<1>7. /\ SourceInv' /\ IndexesAgree' /\ MempoolTypeOK' /\ accounts' \in Accounts
      /\ \A d \in Sends : Rival(d)' <=> Rival(d)
  <2>1. \A d \in admitted : nonce'[d] = nonce[d]
    <3>1. admitted \subseteq Sends
      BY DEF RInv, TypeOK
    <3>2. c \in admitted => nonce'[c] = nonce[c]
      BY <1>4, <1>6
    <3>. QED  BY <1>5, <3>1, <3>2
  <2>. QED  BY <1>1, <2>1, ClientSource
<1>8. \A d \in Sends : d # c => Pieces(d)' = Pieces(d) /\ (Dead(d)' <=> Dead(d))
  BY <1>5 DEF Pieces, Method, Dead
<1>9. TypeOK'
  <2>1. cpc' \in [Sends -> {"start", "get", "signed", "post", "done", "killedGet", "killedPost"}]
    <3>1. cpc' = [cpc EXCEPT ![c] = "done"] \/ cpc' = [cpc EXCEPT ![c] = "signed"]
      BY <1>4
    <3>2. cpc \in [Sends -> {"start", "get", "signed", "post", "done",
                            "killedGet", "killedPost"}]
      BY DEF RInv, TypeOK
    <3>. QED  BY <3>1, <3>2
  <2>2. conn' \in [Sends -> {"none", "queued", "open", "closed"}]
    BY <1>1 DEF RInv, TypeOK
  <2>3. nonce' \in [Sends -> Nat]
    BY <1>4 DEF RInv, TypeOK, AnswerInv, AnswerOf
  <2>4. \A d \in Sends : written'[d] \in 0 .. Pieces(d)'
    <3>1. Pieces(c)' \in Nat
      BY RpcAssumption DEF Pieces
    <3>. QED  BY <1>5, <1>8, <3>1 DEF RInv, TypeOK
  <2>5. spc' \in Served => cur' \in Sends /\ got' \in 0 .. Pieces(cur)'
    BY <1>1, <1>2, <1>8 DEF RInv, TypeOK, Served
  <2>. QED  BY <1>1, <1>7, <2>1, <2>2, <2>3, <2>4, <2>5 DEF RInv, TypeOK, Served
<1>10. ConnInv'
  <2>1. \A d \in Sends : conn'[d] # "none" <=> cpc'[d] \in Talking
    BY <1>5 DEF RInv, ConnInv, Talking
  <2>2. \A i \in 1 .. Len(backlog') : conn'[backlog'[i]] = "queued"
    BY <1>1, <1>2, <1>5 DEF RInv, ConnInv
  <2>3. spc' = "handle" => got' = Pieces(cur)' \/ Dead(cur)'
    BY <1>1, <1>2, <1>8 DEF RInv, ConnInv, Served
  <2>4. /\ spc' \in Served => conn'[cur'] = "open"
        /\ \A d \in Sends : conn'[d] = "open" => spc' \in Served /\ cur' = d
        /\ \A d \in Sends : reply'[d] # NoReply => conn'[d] = "closed" \/ (spc' = "reply" /\ cur' = d)
    BY <1>1, <1>2, <1>5 DEF RInv, ConnInv
  <2>. QED  BY <1>1, <1>5, <2>1, <2>2, <2>3, <2>4 DEF RInv, ConnInv
<1>11. AnswerInv'
  <2>. SUFFICES ASSUME NEW d \in Sends PROVE AnswerOf(d)'
    BY DEF AnswerInv
  <2>1. CASE d # c
    BY <1>1, <1>5, <1>7, <2>1 DEF RInv, AnswerInv, AnswerOf, Lost
  <2>2. CASE d = c
    <3>1. CASE reply[c] = NoReply
      BY <1>1, <1>3, <1>4, <1>5, <1>6, <1>7, <2>2, <3>1 DEF RInv, AnswerInv, AnswerOf, Lost, Taken, Defect
    <3>2. CASE reply[c] # NoReply /\ cpc[c] = "get"
      BY <1>1, <1>3, <1>4, <1>5, <1>6, <1>7, <2>2, <3>2 DEF RInv, AnswerInv, AnswerOf, Lost
    <3>3. CASE reply[c] # NoReply /\ cpc[c] = "post"
      <4>1. result'[c] = IF reply[c].status = 200 THEN "txid" ELSE reply[c].error
        BY <1>3, <1>4, <3>3
      <4>2. cpc'[c] = "done" /\ nonce' = nonce
        BY <1>3, <1>4, <3>3
      <4>. QED  BY <1>1, <1>5, <1>7, <2>2, <3>3, <4>1, <4>2
                DEF RInv, AnswerInv, AnswerOf, Taken, Defect
    <3>. QED  BY <1>1, <3>1, <3>2, <3>3
  <2>. QED  BY <2>1, <2>2
<1>12. LostInv'
  <2>1. \A d \in admitted : Lost(d)' => Lost(d)
    <3>. SUFFICES ASSUME NEW d \in admitted, Lost(d)' PROVE Lost(d)
      OBVIOUS
    <3>1. CASE d # c
      BY <1>1, <1>5, <3>1 DEF RInv, TypeOK, Lost
    <3>2. CASE d = c
      <4>1. cpc[c] = "post" /\ spc = "dead"
        BY <1>1, <1>6, <3>2 DEF Lost
      <4>2. CASE reply[c] # NoReply
        <5>1. result'[c] = IF reply[c].status = 200 THEN "txid" ELSE reply[c].error
          BY <1>3, <1>4, <4>1, <4>2
        <5>2. reply[c].status = 200
          BY <3>2, <4>1, <4>2 DEF RInv, AnswerInv, AnswerOf
        <5>. QED  BY <1>5, <3>2, <5>1, <5>2 DEF Lost
      <4>. QED  BY <3>2, <4>1, <4>2 DEF Lost
    <3>. QED  BY <3>1, <3>2
  <2>. QED  BY <1>1, <2>1 DEF RInv, LostInv
<1>. QED  BY <1>7, <1>9, <1>10, <1>11, <1>12 DEF RInv

-----------------------------------------------------------------------------
(* The steps of the server that move connections.                           *)

(* They leave the clients, the answers and the node alone.                  *)
LEMMA QuietAnswers ==
  ASSUME RInv, UNCHANGED <<mempoolVars, accounts, clientVars, admitted>>,
         \A d \in Sends : reply'[d] = reply[d],
         spc' = "dead" <=> spc = "dead"
  PROVE  /\ SourceInv' /\ IndexesAgree' /\ MempoolTypeOK' /\ accounts' \in Accounts
         /\ AnswerInv' /\ LostInv'
         /\ cpc' = cpc /\ nonce' = nonce /\ result' = result /\ written' = written
         /\ \A d : Pieces(d)' = Pieces(d) /\ (Dead(d)' <=> Dead(d))
<1>1. cpc' = cpc /\ nonce' = nonce /\ result' = result /\ written' = written
  BY DEF clientVars
<1>2. /\ SourceInv' /\ IndexesAgree' /\ MempoolTypeOK' /\ accounts' \in Accounts
      /\ \A d \in Sends : Rival(d)' <=> Rival(d)
  BY <1>1, ClientSource
<1>3. \A d \in Sends : Lost(d)' <=> Lost(d)
  BY <1>1 DEF Lost
<1>4. AnswerInv'
  BY <1>1, <1>2, <1>3 DEF RInv, AnswerInv, AnswerOf
<1>5. LostInv'
  BY <1>3 DEF RInv, TypeOK, LostInv
<1>. QED  BY <1>1, <1>2, <1>4, <1>5 DEF Pieces, Method, Dead

LEMMA AcceptKeeps ==
  ASSUME RInv, Accept
  PROVE  RInv'
<1>1. /\ UNCHANGED <<mempoolVars, accounts, clientVars, admitted>> /\ reply' = reply /\ stop' = stop
      /\ spc = "poll" /\ spc' = "read" /\ got' = 0 /\ backlog # <<>> /\ backlog \in Seq(Sends)
      /\ cur' = Head(backlog) /\ backlog' = Tail(backlog)
      /\ conn' = [conn EXCEPT ![Head(backlog)] = "open"]
  BY DEF Accept, RInv, TypeOK
<1>2. /\ SourceInv' /\ IndexesAgree' /\ MempoolTypeOK' /\ accounts' \in Accounts
      /\ AnswerInv' /\ LostInv'
      /\ cpc' = cpc /\ nonce' = nonce /\ result' = result /\ written' = written
      /\ \A d : Pieces(d)' = Pieces(d) /\ (Dead(d)' <=> Dead(d))
  BY <1>1, QuietAnswers
<1>3. /\ cur' \in Sends /\ cur' = backlog[1] /\ Len(backlog) \in Nat /\ Len(backlog) >= 1
      /\ backlog' \in Seq(Sends) /\ Len(backlog') = Len(backlog) - 1
      /\ \A i \in 1 .. Len(backlog') : backlog'[i] = backlog[i + 1] /\ i + 1 \in 1 .. Len(backlog)
      /\ \A i \in 1 .. Len(backlog) : backlog[i] \in Sends
  BY <1>1
<1>4. 1 \in 1 .. Len(backlog)
  BY <1>3
<1>5. conn[cur'] = "queued" /\ \A i \in 1 .. Len(backlog') : backlog'[i] # cur' /\ backlog'[i] \in Sends
  BY <1>3, <1>4 DEF RInv, ConnInv
<1>6. /\ conn'[cur'] = "open" /\ \A d \in Sends : d # cur' => conn'[d] = conn[d]
      /\ conn' \in [Sends -> {"none", "queued", "open", "closed"}]
  BY <1>1, <1>3 DEF RInv, TypeOK
<1>7. TypeOK'
  <2>1. Pieces(cur)' \in Nat
    BY RpcAssumption DEF Pieces
  <2>. QED  BY <1>1, <1>2, <1>3, <1>6, <2>1 DEF RInv, TypeOK
<1>8. ConnInv'
  <2>1. \A i, j \in 1 .. Len(backlog') : backlog'[i] = backlog'[j] => i = j
    <3>. SUFFICES ASSUME NEW i \in 1 .. Len(backlog'), NEW j \in 1 .. Len(backlog'),
                         backlog'[i] = backlog'[j]
                  PROVE  i = j
      OBVIOUS
    <3>1. i + 1 = j + 1
      BY <1>3 DEF RInv, ConnInv
    <3>. QED  BY <1>3, <3>1
  <2>2. \A i \in 1 .. Len(backlog') : conn'[backlog'[i]] = "queued"
    BY <1>3, <1>5, <1>6 DEF RInv, ConnInv
  <2>3. \A d \in Sends : conn'[d] # "none" <=> cpc'[d] \in Talking
    BY <1>2, <1>3, <1>5, <1>6 DEF RInv, ConnInv
  <2>4. \A d \in Sends : conn'[d] = "open" => spc' \in Served /\ cur' = d
    BY <1>1, <1>6 DEF RInv, ConnInv, Served
  <2>5. \A d \in Sends : reply'[d] # NoReply => conn'[d] = "closed"
    BY <1>1, <1>5, <1>6 DEF RInv, ConnInv
  <2>. QED  BY <1>1, <1>2, <1>6, <2>1, <2>2, <2>3, <2>4, <2>5 DEF RInv, ConnInv
<1>. QED  BY <1>2, <1>7, <1>8 DEF RInv

(* A read, or its end with a part of the request.                           *)
LEMMA ReadKeeps ==
  ASSUME RInv, UNCHANGED <<mempoolVars, accounts, clientVars, conn, reply, cur, backlog, stop, admitted>>,
         spc = "read", spc' \in {"read", "handle"}, got' = written[cur],
         spc' = "handle" => got' = Pieces(cur) \/ Dead(cur)
  PROVE  RInv'
<1>1. /\ SourceInv' /\ IndexesAgree' /\ MempoolTypeOK' /\ accounts' \in Accounts
      /\ AnswerInv' /\ LostInv'
      /\ cpc' = cpc /\ nonce' = nonce /\ result' = result /\ written' = written
      /\ \A d : Pieces(d)' = Pieces(d) /\ (Dead(d)' <=> Dead(d))
  BY QuietAnswers
<1>2. TypeOK'
  BY <1>1 DEF RInv, TypeOK
<1>3. ConnInv'
  BY <1>1 DEF RInv, ConnInv, Served
<1>. QED  BY <1>1, <1>2, <1>3 DEF RInv

(* The end of a connection, with the answer that is on it.                  *)
LEMMA CloseKeeps ==
  ASSUME RInv, spc \in Served, CloseConnection(reply[cur]),
         UNCHANGED <<mempoolVars, accounts, clientVars, backlog, stop, admitted>>
  PROVE  RInv'
<1>1. /\ conn' = [conn EXCEPT ![cur] = "closed"] /\ spc' = "poll" /\ got' = 0
      /\ reply' = [reply EXCEPT ![cur] = reply[cur]]
      /\ cur \in Sends /\ conn[cur] = "open"
  BY DEF CloseConnection, RInv, TypeOK, ConnInv, Served
<1>2. DOMAIN reply' = Sends /\ \A d \in Sends : reply'[d] = reply[d]
  BY <1>1 DEF RInv, ConnInv
<1>3. /\ SourceInv' /\ IndexesAgree' /\ MempoolTypeOK' /\ accounts' \in Accounts
      /\ AnswerInv' /\ LostInv'
      /\ cpc' = cpc /\ nonce' = nonce /\ result' = result /\ written' = written
      /\ \A d : Pieces(d)' = Pieces(d) /\ (Dead(d)' <=> Dead(d))
  BY <1>1, <1>2, QuietAnswers DEF Served
<1>4. /\ conn'[cur] = "closed" /\ \A d \in Sends : d # cur => conn'[d] = conn[d]
      /\ conn' \in [Sends -> {"none", "queued", "open", "closed"}]
  BY <1>1 DEF RInv, TypeOK
<1>5. TypeOK'
  BY <1>1, <1>3, <1>4 DEF RInv, TypeOK
<1>6. ConnInv'
  <2>1. \A i \in 1 .. Len(backlog) : backlog[i] # cur /\ backlog[i] \in Sends
    <3>1. backlog \in Seq(Sends)
      BY DEF RInv, TypeOK
    <3>. QED  BY <1>1, <3>1 DEF RInv, ConnInv
  <2>2. \A i \in 1 .. Len(backlog') : conn'[backlog'[i]] = "queued"
    BY <1>4, <2>1 DEF RInv, ConnInv
  <2>3. \A d \in Sends : conn'[d] # "none" <=> cpc'[d] \in Talking
    BY <1>1, <1>3, <1>4 DEF RInv, ConnInv
  <2>4. \A d \in Sends : conn'[d] # "open" /\ (reply'[d] # NoReply => conn'[d] = "closed")
    BY <1>1, <1>2, <1>4 DEF RInv, ConnInv
  <2>. QED  BY <1>1, <1>2, <1>3, <2>2, <2>3, <2>4 DEF RInv, ConnInv, Served
<1>. QED  BY <1>3, <1>5, <1>6 DEF RInv

LEMMA ReadEndKeeps ==
  ASSUME RInv, ReadEnd
  PROVE  RInv'
<1>1. /\ UNCHANGED <<mempoolVars, accounts, clientVars, backlog, stop, admitted>>
      /\ spc = "read" /\ written[cur] = got /\ Dead(cur)
  BY DEF ReadEnd
<1>2. CASE CloseConnection(NoReply)
  <2>1. cur \in Sends /\ reply[cur] = NoReply
    BY <1>1 DEF RInv, TypeOK, ConnInv, Served
  <2>. QED  BY <1>1, <1>2, <2>1, CloseKeeps DEF Served
<1>3. CASE spc' = "handle" /\ UNCHANGED <<conn, reply, cur, got>>
  BY <1>1, <1>3, ReadKeeps
<1>. QED  BY <1>2, <1>3 DEF ReadEnd

LEMMA StopKeeps ==
  ASSUME RInv, Stop
  PROVE  RInv'
<1>1. /\ UNCHANGED <<mempoolVars, accounts, clientVars, admitted>> /\ reply' = reply /\ stop' = TRUE
      /\ spc' = spc /\ cur' = cur /\ got' = got /\ backlog' = <<>>
      /\ conn' = [c \in Sends |-> IF conn[c] = "queued" THEN "closed" ELSE conn[c]]
  BY DEF Stop, serverVars
<1>2. /\ SourceInv' /\ IndexesAgree' /\ MempoolTypeOK' /\ accounts' \in Accounts
      /\ AnswerInv' /\ LostInv'
      /\ cpc' = cpc /\ nonce' = nonce /\ result' = result /\ written' = written
      /\ \A d : Pieces(d)' = Pieces(d) /\ (Dead(d)' <=> Dead(d))
  BY <1>1, QuietAnswers
<1>3. \A d \in Sends : conn'[d] = IF conn[d] = "queued" THEN "closed" ELSE conn[d]
  BY <1>1
<1>4. TypeOK'
  <2>1. conn' \in [Sends -> {"none", "queued", "open", "closed"}]
    BY <1>1 DEF RInv, TypeOK
  <2>2. backlog' \in Seq(Sends)
    BY <1>1
  <2>. QED  BY <1>1, <1>2, <2>1, <2>2 DEF RInv, TypeOK
<1>5. ConnInv'
  <2>1. Len(backlog') = 0
    BY <1>1
  <2>2. \A d \in Sends : conn'[d] # "none" <=> cpc'[d] \in Talking
    BY <1>2, <1>3 DEF RInv, ConnInv
  <2>3. spc' \in Served => cur' \in Sends /\ conn'[cur'] = "open"
    BY <1>1, <1>3 DEF RInv, TypeOK, ConnInv, Served
  <2>. QED  BY <1>1, <1>2, <1>3, <2>1, <2>2, <2>3 DEF RInv, ConnInv
<1>. QED  BY <1>2, <1>4, <1>5 DEF RInv

LEMMA RunReturnsKeeps ==
  ASSUME RInv, RunReturns
  PROVE  RInv'
<1>1. /\ UNCHANGED <<mempoolVars, accounts, clientVars, conn, reply, cur, got, backlog, stop, admitted>>
      /\ spc = "poll" /\ spc' = "returned"
  BY DEF RunReturns
<1>2. /\ SourceInv' /\ IndexesAgree' /\ MempoolTypeOK' /\ accounts' \in Accounts
      /\ AnswerInv' /\ LostInv'
      /\ cpc' = cpc /\ nonce' = nonce /\ result' = result /\ written' = written
      /\ \A d : Pieces(d)' = Pieces(d) /\ (Dead(d)' <=> Dead(d))
  BY <1>1, QuietAnswers
<1>3. TypeOK'
  BY <1>1, <1>2 DEF RInv, TypeOK
<1>4. ConnInv'
  BY <1>1, <1>2 DEF RInv, ConnInv, Served
<1>. QED  BY <1>2, <1>3, <1>4 DEF RInv

-----------------------------------------------------------------------------
(* The routes.                                                              *)

(* What admit may say of a signed transaction, and what it means.           *)
LEMMA SignedVerdict ==
  ASSUME NEW t, NEW st, t.from # NullAddr, t.auth = "signed", NEW r, r = AdmitResult(t, st)
  PROVE  /\ r \in {"OK", "INSUFFICIENT_FUNDS", "MEMPOOL_FULL"} \cup Taken
         /\ r = "DUPLICATE" => t \in Pending
         /\ r = "PENDING_SLOT_BUSY" => HasPending(t.from)
         /\ r = "STALE_NONCE" => t.nonce # st[t.from].nonce
         /\ r = "OK" => t \notin Pending /\ ~HasPending(t.from) /\ t.nonce = st[t.from].nonce
         /\ AdmitStatus(r) # 0 /\ (AdmitStatus(r) = 200 <=> r = "OK")
BY DEF AdmitResult, ApplyTxnReason, Taken, AdmitStatus

(* Without another send of its wallet admitted, an account is untouched.    *)
LEMMA UntouchedAccount ==
  ASSUME RInv, NEW c \in Sends, c \notin admitted
  PROVE  LET a == Transfer[c].from
         IN accounts[a].nonce # 0 \/ HasPending(a) => Rival(c)
<1>. DEFINE a == Transfer[c].from
<1>1. a \in Acct
  BY RpcAssumption DEF Acct
<1>2. ASSUME HasPending(a) PROVE Rival(c)
  <2>1. bySender[a] \in Pending /\ bySender[a].from = a
    BY <1>2 DEF RInv, IndexesAgree, HasPending
  <2>2. PICK d \in admitted : bySender[a] = SignTxn(d)
    BY <2>1 DEF RInv, SourceInv
  <2>. QED  BY <2>1, <2>2 DEF SignTxn, Rival
<1>3. ASSUME accounts[a].nonce # 0 PROVE Rival(c)
  BY <1>1, <1>3 DEF RInv, SourceInv, Rival
<1>. QED  BY <1>2, <1>3

LEMMA HandleKeeps ==
  ASSUME RInv, Handle
  PROVE  RInv'
<1>. DEFINE t == SignTxn(cur)
            r == AdmitResult(t, accounts)
<1>1. /\ spc = "handle" /\ spc' = "reply" /\ cur' = cur /\ got' = got /\ stop' = stop
      /\ accounts' = accounts /\ backlog' = backlog /\ conn' = conn
      /\ cpc' = cpc /\ nonce' = nonce /\ result' = result /\ written' = written
  BY DEF Handle, clientVars
<1>2. /\ cur \in Sends /\ conn[cur] = "open" /\ reply[cur] = NoReply /\ cur \notin admitted
      /\ cpc[cur] \in Talking /\ (got = Pieces(cur) \/ Dead(cur))
  <2>1. cur \in Sends /\ conn[cur] = "open"
    BY <1>1 DEF RInv, TypeOK, ConnInv, Served
  <2>2. reply[cur] = NoReply /\ cpc[cur] \in Talking /\ (got = Pieces(cur) \/ Dead(cur))
    BY <1>1, <2>1 DEF RInv, ConnInv
  <2>. QED  BY <1>1, <2>1, <2>2 DEF RInv, AnswerInv, AnswerOf, Lost, Talking
<1>3. \A d : Pieces(d)' = Pieces(d) /\ (Dead(d)' <=> Dead(d)) /\ SignTxn(d)' = SignTxn(d)
  BY <1>1 DEF Pieces, Method, Dead, SignTxn
<1>4. /\ Transfer[cur].from \in Acct /\ Transfer[cur].from # NullAddr
      /\ t \in Txn /\ t.from = Transfer[cur].from /\ t.nonce = nonce[cur] /\ t.auth = "signed"
  <2>1. /\ Transfer[cur] \in [from : Addr, to : Acct, amount : Nat] /\ nonce[cur] \in Nat
    BY <1>2, RpcAssumption DEF RInv, TypeOK
  <2>. QED  BY <2>1, LedgerAssumption DEF SignTxn, Txn, Acct, Auth
<1>. HIDE DEF t
<1>5. PICK x : reply' = [reply EXCEPT ![cur] = x] /\
        (\/ /\ Method(cur) = "GET" /\ x = AccountResp(Transfer[cur].from)
            /\ UNCHANGED <<mempoolVars, admitted>>
         \/ /\ Method(cur) = "POST" /\ got < Pieces(cur)
            /\ x = [status |-> 400, error |-> "PARSE_ERROR"]
            /\ UNCHANGED <<mempoolVars, admitted>>
         \/ /\ Method(cur) = "POST" /\ got = Pieces(cur)
            /\ Admit(t, accounts)
            /\ x = [status |-> AdmitStatus(r), error |-> r]
            /\ admitted' = IF r = "OK" THEN admitted \cup {cur} ELSE admitted)
  BY DEF Handle, t
<1>. HIDE DEF r
<1>6. DOMAIN reply' = Sends /\ reply'[cur] = x /\ \A d \in Sends : d # cur => reply'[d] = reply[d]
  BY <1>2, <1>5 DEF RInv, ConnInv
<1>7. ConnInv'
  BY <1>1, <1>2, <1>3, <1>6 DEF RInv, ConnInv, Served
<1>8. ASSUME MempoolTypeOK', admitted' \subseteq Sends PROVE TypeOK'
  BY <1>1, <1>3, <1>8 DEF RInv, TypeOK
<1>9. ASSUME admitted \subseteq admitted', admitted' \subseteq admitted \cup {cur},
             AnswerOf(cur)'
      PROVE  AnswerInv'
  <2>1. \A d \in Sends : Rival(d) => Rival(d)'
    BY <1>9 DEF Rival
  <2>2. \A d \in Sends : d # cur => AnswerOf(d)'
    BY <1>1, <1>6, <1>9, <2>1 DEF RInv, AnswerInv, AnswerOf, Lost
  <2>. QED  BY <1>1, <1>9, <2>2 DEF AnswerInv, AnswerOf, Rival
<1>14. LostInv'
  BY <1>1 DEF LostInv, Lost
<1>10. result[cur] = "none" /\ result[cur] # "txid" /\ (result[cur] \in Taken => Rival(cur)) /\ result[cur] \notin Defect
       /\ (nonce[cur] # 0 => Rival(cur))
  BY <1>2 DEF RInv, AnswerInv, AnswerOf, Talking
<1>11. CASE Method(cur) = "GET"
  <2>1. x = AccountResp(Transfer[cur].from) /\ UNCHANGED <<mempoolVars, admitted>>
    BY <1>5, <1>11
  <2>2. /\ SourceInv' /\ IndexesAgree' /\ MempoolTypeOK' /\ accounts' \in Accounts
        /\ \A d \in Sends : Rival(d)' <=> Rival(d)
    BY <1>1, <2>1, ClientSource
  <2>3. x.pendingNonce \in Nat /\ (x.pendingNonce # 0 => Rival(cur))
    <3>1. accounts[Transfer[cur].from].nonce \in Nat
      BY <1>4 DEF RInv, TypeOK, Accounts, AccountState
    <3>. QED  BY <1>2, <2>1, <3>1, UntouchedAccount DEF AccountResp
  <2>4. cpc[cur] \in {"get", "killedGet"}
    BY <1>11 DEF Method
  <2>5. AnswerOf(cur)'
    BY <1>1, <1>2, <1>6, <1>10, <2>1, <2>2, <2>3, <2>4 DEF AnswerOf
  <2>6. AnswerInv'
    BY <1>9, <2>1, <2>5
  <2>7. TypeOK'
    BY <1>8, <2>1, <2>2 DEF RInv, TypeOK
  <2>. QED  BY <1>7, <1>14, <2>2, <2>6, <2>7 DEF RInv
<1>12. CASE Method(cur) = "POST" /\ got < Pieces(cur)
  <2>1. x = [status |-> 400, error |-> "PARSE_ERROR"] /\ UNCHANGED <<mempoolVars, admitted>>
    <3>1. got \in Nat /\ Pieces(cur) \in Nat
      BY <1>1, RpcAssumption DEF RInv, TypeOK, Pieces
    <3>. QED  BY <1>5, <1>12, <3>1
  <2>2. /\ SourceInv' /\ IndexesAgree' /\ MempoolTypeOK' /\ accounts' \in Accounts
        /\ \A d \in Sends : Rival(d)' <=> Rival(d)
    BY <1>1, <2>1, ClientSource
  <2>3. cpc[cur] = "killedPost"
    <3>1. got \in Nat /\ Pieces(cur) \in Nat
      BY <1>1, RpcAssumption DEF RInv, TypeOK, Pieces
    <3>. QED  BY <1>2, <1>12, <3>1 DEF Method, Dead
  <2>4. x.status # 200 /\ x.error # "txid" /\ x.error \notin Taken
    BY <2>1 DEF Taken
  <2>5. AnswerOf(cur)'
    BY <1>1, <1>2, <1>6, <1>10, <2>1, <2>2, <2>3, <2>4 DEF AnswerOf
  <2>6. AnswerInv'
    BY <1>9, <2>1, <2>5
  <2>7. TypeOK'
    BY <1>8, <2>1, <2>2 DEF RInv, TypeOK
  <2>. QED  BY <1>7, <1>14, <2>2, <2>6, <2>7 DEF RInv
<1>13. CASE Method(cur) = "POST" /\ got = Pieces(cur)
  <2>1. /\ Admit(t, accounts) /\ x = [status |-> AdmitStatus(r), error |-> r]
        /\ admitted' = IF r = "OK" THEN admitted \cup {cur} ELSE admitted
    <3>1. got \in Nat /\ Pieces(cur) \in Nat
      BY <1>1, RpcAssumption DEF RInv, TypeOK, Pieces
    <3>. QED  BY <1>5, <1>13, <3>1
  <2>2. /\ r \in {"OK", "INSUFFICIENT_FUNDS", "MEMPOOL_FULL"} \cup Taken
        /\ r = "DUPLICATE" => t \in Pending
        /\ r = "PENDING_SLOT_BUSY" => HasPending(t.from)
        /\ r = "STALE_NONCE" => t.nonce # accounts[t.from].nonce
        /\ AdmitStatus(r) # 0 /\ (AdmitStatus(r) = 200 <=> r = "OK")
    BY <1>4, SignedVerdict DEF r
  <2>3. MempoolTypeOK' /\ IndexesAgree'
    BY <1>4, <2>1, AdmitIndexes DEF RInv, TypeOK
  <2>4. Pending' = Pending \/ (r = "OK" /\ Pending' = Pending \cup {t})
    BY <2>1 DEF Admit, Put, Pending, mempoolVars, r
  <2>5. SourceInv'
    <3>1. \A y \in Pending' : \E d \in admitted' : y = SignTxn(d)'
      BY <1>3, <2>1, <2>4 DEF RInv, SourceInv, t
    <3>2. \A a \in Acct : accounts'[a].nonce # 0 => \E d \in admitted' : Transfer[d].from = a
      BY <1>1, <2>1 DEF RInv, SourceInv
    <3>. QED  BY <3>1, <3>2 DEF SourceInv
  <2>6. admitted \subseteq admitted' /\ admitted' \subseteq admitted \cup {cur}
        /\ (r = "OK" <=> cur \in admitted')
    BY <1>2, <2>1
  <2>7. r \in Taken => Rival(cur)
    <3>1. CASE r = "DUPLICATE"
      <4>1. PICK d \in admitted : t = SignTxn(d)
        BY <2>2, <3>1 DEF RInv, SourceInv
      <4>. QED  BY <1>2, <1>4, <4>1 DEF SignTxn, Rival
    <3>2. CASE r = "PENDING_SLOT_BUSY"
      BY <1>2, <1>4, <2>2, <3>2, UntouchedAccount
    <3>3. CASE r = "STALE_NONCE"
      BY <1>2, <1>4, <1>10, <2>2, <3>3, UntouchedAccount
    <3>. QED  BY <3>1, <3>2, <3>3 DEF Taken
  <2>8. Rival(cur) => Rival(cur)'
    BY <1>1, <2>6 DEF Rival
  <2>9. x.status = AdmitStatus(r) /\ x.error = r
    BY <2>1
  <2>10. x # NoReply /\ r # "txid" /\ r \notin Defect
    BY <2>2, <2>9 DEF NoReply, Taken, Defect
  <2>11. cpc[cur] \in {"post", "killedPost"}
    BY <1>2, <1>13 DEF Method, Talking
  <2>12. AnswerOf(cur)'
    BY <1>1, <1>2, <1>6, <1>10, <2>2, <2>6, <2>7, <2>8, <2>9, <2>10, <2>11 DEF AnswerOf
  <2>13. AnswerInv'
    BY <1>9, <2>6, <2>12
  <2>14. TypeOK'
    BY <1>2, <1>8, <2>3, <2>6 DEF RInv, TypeOK
  <2>. QED  BY <1>7, <1>14, <2>3, <2>5, <2>13, <2>14 DEF RInv
<1>. QED  BY <1>5, <1>11, <1>12, <1>13

(* A block of the node: the oldest pending transaction, which an admitted   *)
(* send posted.                                                             *)
LEMMA SealKeeps ==
  ASSUME RInv, Seal
  PROVE  RInv'
<1>1. PICK n \in SeqsFrom(0) :
        /\ ApplyTxnReason(accounts, bySeq[n], 0, 1) = "OK"
        /\ accounts' = ApplyTxn(accounts, bySeq[n])
        /\ EvictIncluded(<<bySeq[n]>>)
  BY DEF Seal
<1>2. /\ cpc' = cpc /\ nonce' = nonce /\ result' = result /\ written' = written
      /\ conn' = conn /\ reply' = reply /\ spc' = spc /\ cur' = cur /\ got' = got
      /\ backlog' = backlog /\ stop' = stop /\ admitted' = admitted
  BY DEF Seal, clientVars, serverVars
<1>. DEFINE t == bySeq[n]
<1>3. t \in Pending /\ t \in Txn
  BY DEF SeqsFrom, RInv, TypeOK, MempoolTypeOK
<1>4. PICK d \in admitted : t = SignTxn(d)
  BY <1>3 DEF RInv, SourceInv
<1>5. d \in Sends /\ t.from = Transfer[d].from /\ t.from # NullAddr /\ t.from \in Acct /\ t.to \in Acct
  <2>1. d \in Sends /\ Transfer[d] \in [from : Addr, to : Acct, amount : Nat]
    BY RpcAssumption DEF RInv, TypeOK
  <2>. QED  BY <1>4, <2>1, LedgerAssumption DEF SignTxn, Acct
<1>6. MempoolTypeOK' /\ IndexesAgree' /\ Pending' \subseteq Pending
  BY <1>1, EvictIndexes DEF RInv, TypeOK
<1>. HIDE DEF t
<1>7. accounts' \in Accounts
  <2>1. BlockTxnReason(accounts, t, 0, 1, 0) = "OK"
    BY <1>1, <1>5 DEF BlockTxnReason, t
  <2>. QED  BY <1>1, <1>3, <2>1, ApplyTxnType DEF RInv, TypeOK, t
<1>8. \A a \in Acct : a # t.from => accounts'[a].nonce = accounts[a].nonce
  BY <1>1, <1>5 DEF ApplyTxn, RInv, TypeOK, Accounts, t
<1>9. \A c : SignTxn(c)' = SignTxn(c) /\ (Rival(c)' <=> Rival(c)) /\ Pieces(c)' = Pieces(c)
        /\ (Dead(c)' <=> Dead(c))
  BY <1>2 DEF SignTxn, Rival, Pieces, Method, Dead
<1>10. SourceInv'
  BY <1>2, <1>5, <1>6, <1>8, <1>9 DEF RInv, SourceInv
<1>11. TypeOK'
  BY <1>2, <1>6, <1>7, <1>9 DEF RInv, TypeOK
<1>12. ConnInv'
  BY <1>2, <1>9 DEF RInv, ConnInv
<1>13. AnswerInv' /\ LostInv'
  BY <1>2, <1>9 DEF RInv, AnswerInv, AnswerOf, LostInv, Lost
<1>. QED  BY <1>6, <1>10, <1>11, <1>12, <1>13 DEF RInv

(* The death of the node: only the send it was about to answer is lost.     *)
LEMMA NodeDiesKeeps ==
  ASSUME RInv, NodeDies
  PROVE  RInv'
<1>1. /\ spc # "dead" /\ spc' = "dead" /\ backlog' = <<>>
      /\ conn' = [c \in Sends |-> IF conn[c] \in {"queued", "open"} THEN "closed" ELSE conn[c]]
      /\ reply' = [c \in Sends |-> IF conn[c] = "closed" THEN reply[c] ELSE NoReply]
      /\ accounts' = accounts /\ stop' = stop /\ admitted' = admitted
      /\ cpc' = cpc /\ nonce' = nonce /\ result' = result /\ written' = written
  BY DEF NodeDies, clientVars
<1>2. MempoolTypeOK' /\ IndexesAgree' /\ Pending' = {}
  BY DEF NodeDies, MempoolTypeOK, IndexesAgree, Pending
<1>3. \A d : Pieces(d)' = Pieces(d) /\ (Dead(d)' <=> Dead(d)) /\ (Rival(d)' <=> Rival(d))
  BY <1>1 DEF Pieces, Method, Dead, Rival
<1>4. \A d \in Sends :
        /\ conn'[d] = IF conn[d] \in {"queued", "open"} THEN "closed" ELSE conn[d]
        /\ reply'[d] = IF conn[d] = "closed" THEN reply[d] ELSE NoReply
  BY <1>1
<1>5. TypeOK'
  <2>1. conn' \in [Sends -> {"none", "queued", "open", "closed"}]
    BY <1>1 DEF RInv, TypeOK
  <2>2. backlog' \in Seq(Sends)
    BY <1>1
  <2>. QED  BY <1>1, <1>2, <1>3, <2>1, <2>2 DEF RInv, TypeOK
<1>6. ConnInv'
  <2>1. Len(backlog') = 0
    BY <1>1
  <2>2. \A d \in Sends : conn'[d] # "none" <=> cpc'[d] \in Talking
    BY <1>1, <1>4 DEF RInv, ConnInv
  <2>3. \A d \in Sends : conn'[d] # "open" /\ (reply'[d] # NoReply => conn'[d] = "closed")
    BY <1>4
  <2>. QED  BY <1>1, <2>1, <2>2, <2>3 DEF RInv, ConnInv, Served
<1>7. SourceInv'
  BY <1>1, <1>2 DEF RInv, SourceInv
<1>8. AnswerInv'
  BY <1>1, <1>3, <1>4 DEF RInv, AnswerInv, AnswerOf, Lost
<1>9. \A d \in admitted : Lost(d)' => spc = "reply" /\ cur = d
  <2>. SUFFICES ASSUME NEW d \in admitted, Lost(d)' PROVE spc = "reply" /\ cur = d
    OBVIOUS
  <2>1. d \in Sends
    BY DEF RInv, TypeOK
  <2>2. reply[d] # NoReply /\ cpc[d] \in {"post", "killedPost"}
    BY <1>1, <2>1 DEF RInv, AnswerInv, AnswerOf, Lost
  <2>3. conn[d] # "closed"
    BY <1>1, <1>4, <2>1, <2>2 DEF Lost
  <2>. QED  BY <2>1, <2>2, <2>3 DEF RInv, ConnInv
<1>10. LostInv'
  BY <1>1, <1>9 DEF LostInv
<1>. QED  BY <1>2, <1>5, <1>6, <1>7, <1>8, <1>10 DEF RInv

-----------------------------------------------------------------------------
LEMMA RInvInit == Init => RInv
<1>. SUFFICES ASSUME Init PROVE RInv
  OBVIOUS
<1>1. MempoolTypeOK /\ IndexesAgree /\ Pending = {}
  BY MempoolEmpty DEF Init, MempoolNew, Pending
<1>2. TypeOK
  <2>1. backlog \in Seq(Sends)
    BY DEF Init
  <2>2. \A c \in Sends : written[c] \in 0 .. Pieces(c)
    BY RpcAssumption DEF Init, Pieces
  <2>. QED  BY <1>1, <2>1, <2>2, GenesisType DEF Init, TypeOK
<1>3. ConnInv
  BY DEF Init, ConnInv, Served, Talking
<1>4. AnswerInv /\ LostInv
  BY DEF Init, AnswerInv, AnswerOf, LostInv, Taken, Defect
<1>5. SourceInv
  BY <1>1 DEF Init, SourceInv, ApplyGenesis
<1>. QED  BY <1>1, <1>2, <1>3, <1>4, <1>5 DEF RInv

LEMMA RInvStep ==
  ASSUME RInv, [Next]_vars
  PROVE  RInv'
<1>1. ASSUME NEW c \in Sends, Client(c) \/ Killed(c) PROVE RInv'
  BY <1>1, ConnectKeeps, ClientWriteKeeps, ClientReadKeeps, KilledKeeps DEF Client
<1>2. CASE Accept
  BY <1>2, AcceptKeeps
<1>3. CASE ReadMore
  BY <1>3, ReadKeeps DEF ReadMore
<1>4. CASE ReadEnd
  BY <1>4, ReadEndKeeps
<1>5. CASE Handle
  BY <1>5, HandleKeeps
<1>6. CASE Reply
  BY <1>6, CloseKeeps DEF Reply, Served
<1>7. CASE RunReturns
  BY <1>7, RunReturnsKeeps
<1>8. CASE Seal
  BY <1>8, SealKeeps
<1>9. CASE Stop
  BY <1>9, StopKeeps
<1>10. CASE UNCHANGED vars
  <2>1. /\ UNCHANGED <<mempoolVars, accounts, clientVars, admitted>>
        /\ conn' = conn /\ reply' = reply /\ spc' = spc /\ cur' = cur /\ got' = got
        /\ backlog' = backlog /\ stop' = stop
    BY <1>10 DEF vars, serverVars
  <2>2. /\ SourceInv' /\ IndexesAgree' /\ MempoolTypeOK' /\ accounts' \in Accounts
        /\ AnswerInv' /\ LostInv'
        /\ cpc' = cpc /\ nonce' = nonce /\ result' = result /\ written' = written
        /\ \A d : Pieces(d)' = Pieces(d) /\ (Dead(d)' <=> Dead(d))
    BY <2>1, QuietAnswers
  <2>3. TypeOK'
    BY <2>1, <2>2 DEF RInv, TypeOK
  <2>4. ConnInv'
    BY <2>1, <2>2 DEF RInv, ConnInv
  <2>. QED  BY <2>2, <2>3, <2>4 DEF RInv
<1>11. CASE NodeDies
  BY <1>11, NodeDiesKeeps
<1>. QED
  BY <1>1, <1>2, <1>3, <1>4, <1>5, <1>6, <1>7, <1>8, <1>9, <1>10, <1>11 DEF Next, Server

(* Every variable has its type: for any number of sends, what a client has  *)
(* written and the server has read never exceeds the request in hand, and   *)
(* the server serves a connection only while it has one.                    *)
THEOREM RpcTypes == Spec => []TypeOK
<1>1. RInv => TypeOK
  BY DEF RInv
<1>. QED  BY <1>1, RInvInit, RInvStep, PTL DEF Spec

(* What a send prints is true (run_send): a txid only if the mempool took   *)
(* its transaction, a refusal only if it did not, however the requests      *)
(* interleave, wherever the others are killed and whenever the node stops   *)
(* or dies.  A transaction taken without the sender knowing takes the death *)
(* of the node, and happens to one send at most.                            *)
THEOREM SendsTellTruth == Spec => []OutcomeTrue
<1>1. RInv => OutcomeTrue
  <2>. SUFFICES ASSUME RInv PROVE OutcomeTrue
    OBVIOUS
  <2>1. \A c \in Sends : AnswerOf(c)
    BY DEF RInv, AnswerInv
  <2>2. \A c \in admitted : c \in Sends /\ (result[c] = "unreachable" => Lost(c))
    BY <2>1 DEF RInv, TypeOK, AnswerOf
  <2>. QED  BY <2>1, <2>2 DEF RInv, LostInv, AnswerOf, Lost, OutcomeTrue
<1>. QED  BY <1>1, RInvInit, RInvStep, PTL DEF Spec

(* A send is turned away for its nonce or its slot only because another     *)
(* send of its wallet got in, and never for a defect of the request         *)
(* (http_server.cpp reads all of the body, rpc.cpp, Mempool::admit).        *)
THEOREM SendsTurnedAway == Spec => []RejectionExplained
<1>1. RInv => RejectionExplained
  BY DEF RInv, AnswerInv, AnswerOf, RejectionExplained, Rival, Taken, Defect
<1>. QED  BY <1>1, RInvInit, RInvStep, PTL DEF Spec

-----------------------------------------------------------------------------
(* No nonce twice.                                                          *)

(* Asked of the wallets: nobody pays himself, which would leave his nonce.  *)
NoSelfSend == \A c \in Sends : Transfer[c].from # Transfer[c].to

LEMMA NonceStep ==
  ASSUME NoSelfSend, RInv, NonceInv, [Next]_vars
  PROVE  NonceInv'
<1>0. admitted \subseteq Sends
  BY DEF RInv, TypeOK
<1>1. CASE /\ UNCHANGED <<mempoolVars, accounts, admitted>>
           /\ \A d \in admitted : nonce'[d] = nonce[d]
           /\ spc' # "dead" => spc # "dead"
  BY <1>1 DEF NonceInv, NonceOnce, SignTxn, Pending, mempoolVars
<1>2. ASSUME NEW c \in Sends, Client(c) \/ Killed(c) PROVE NonceInv'
  <2>1. UNCHANGED <<mempoolVars, accounts, admitted, spc>>
    BY <1>2 DEF Client, Connect, ClientWrite, ClientRead, Killed, serverVars
  <2>2. ASSUME NEW d \in admitted PROVE nonce'[d] = nonce[d]
    <3>1. nonce' = nonce \/ (cpc[c] = "get" /\ nonce' = [nonce EXCEPT ![c] = reply[c].pendingNonce])
      BY <1>2 DEF Client, Connect, ClientWrite, ClientRead, Killed, Unreachable
    <3>2. cpc[d] # "get"
      BY <1>0 DEF RInv, AnswerInv, AnswerOf, Lost
    <3>. QED  BY <1>0, <3>1, <3>2 DEF RInv, TypeOK
  <2>. QED  BY <1>1, <2>1, <2>2
<1>3. CASE Handle
  <2>. DEFINE t == SignTxn(cur)
              r == AdmitResult(t, accounts)
  <2>1. accounts' = accounts /\ nonce' = nonce /\ spc = "handle"
    BY <1>3 DEF Handle, clientVars
  <2>2. cur \in Sends
    BY <2>1 DEF RInv, TypeOK
  <2>3. \A d : SignTxn(d)' = SignTxn(d)
    BY <2>1 DEF SignTxn
  <2>4. CASE UNCHANGED <<mempoolVars, admitted>>
    BY <1>1, <2>1, <2>4
  <2>5. CASE Admit(t, accounts) /\ admitted' = IF r = "OK" THEN admitted \cup {cur} ELSE admitted
    <3>1. CASE r # "OK"
      <4>1. UNCHANGED <<mempoolVars, admitted>>
        BY <2>5, <3>1 DEF Admit
      <4>. QED  BY <2>4, <4>1
    <3>2. CASE r = "OK"
      <4>1. /\ Transfer[cur].from # NullAddr
            /\ t.from = Transfer[cur].from /\ t.nonce = nonce[cur] /\ t.auth = "signed"
        <5>1. Transfer[cur] \in [from : Addr, to : Acct, amount : Nat]
          BY <2>2, RpcAssumption
        <5>. QED  BY <5>1, LedgerAssumption DEF SignTxn
      <4>2. ~HasPending(t.from) /\ t.nonce = accounts[t.from].nonce
        BY <3>2, <4>1, SignedVerdict
      <4>3. Pending' = Pending \cup {t} /\ admitted' = admitted \cup {cur}
        BY <2>5, <3>2 DEF Admit, Put, Pending
      <4>4. \A d \in admitted : Transfer[d].from = Transfer[cur].from =>
              nonce[d] < accounts[Transfer[d].from].nonce
        <5>. SUFFICES ASSUME NEW d \in admitted, Transfer[d].from = Transfer[cur].from
                      PROVE  SignTxn(d) \notin Pending
          BY <2>1 DEF NonceInv
        <5>1. SignTxn(d).from = t.from
          BY <4>1 DEF SignTxn
        <5>. QED  BY <4>2, <5>1 DEF RInv, IndexesAgree, HasPending
      <4>5. \A d \in admitted' :
              SignTxn(d)' \in Pending' \/ nonce'[d] < accounts'[Transfer[d].from].nonce
        BY <2>1, <2>3, <4>3 DEF NonceInv
      <4>6. NonceOnce'
        <5>1. \A d \in Sends : nonce[d] \in Nat
          BY DEF RInv, TypeOK
        <5>2. \A d \in admitted : Transfer[d].from = Transfer[cur].from => nonce[d] < nonce[cur]
          BY <4>1, <4>2, <4>4
        <5>. QED  BY <1>0, <2>1, <2>2, <4>3, <5>1, <5>2 DEF NonceInv, NonceOnce
      <4>. QED  BY <4>5, <4>6 DEF NonceInv
    <3>. QED  BY <3>1, <3>2
  <2>. QED  BY <1>3, <2>4, <2>5 DEF Handle
<1>4. CASE Seal
  <2>1. PICK n \in SeqsFrom(0) :
          /\ ApplyTxnReason(accounts, bySeq[n], 0, 1) = "OK"
          /\ accounts' = ApplyTxn(accounts, bySeq[n])
          /\ EvictIncluded(<<bySeq[n]>>)
    BY <1>4 DEF Seal
  <2>2. nonce' = nonce /\ admitted' = admitted /\ spc # "dead"
    BY <1>4 DEF Seal, PortClosed, clientVars
  <2>. DEFINE t == bySeq[n]
  <2>3. t \in Pending
    BY DEF SeqsFrom, RInv, TypeOK, MempoolTypeOK
  <2>4. PICK d \in admitted : t = SignTxn(d)
    BY <2>3 DEF RInv, SourceInv
  <2>5. /\ t.from # NullAddr /\ t.from \in Acct /\ t.to \in Acct /\ t.from # t.to
        /\ t.from = Transfer[d].from /\ t.nonce = nonce[d]
    <3>1. d \in Sends /\ Transfer[d] \in [from : Addr, to : Acct, amount : Nat]
      BY <1>0, RpcAssumption
    <3>. QED  BY <2>4, <3>1, LedgerAssumption DEF SignTxn, Acct, NoSelfSend
  <2>6. Pending' = Pending \ {t}
    <3>1. Pending' = Pending \ {<<t>>[i] : i \in 1 .. Len(<<t>>)}
      BY <2>1, EvictIndexes DEF RInv, TypeOK
    <3>2. {<<t>>[i] : i \in 1 .. Len(<<t>>)} = {t}
      OBVIOUS
    <3>. QED  BY <3>1, <3>2
  <2>. HIDE DEF t
  <2>7. t.nonce = accounts[t.from].nonce
    BY <2>1, <2>5, GateOK DEF t
  <2>8. \A a \in Acct :
          accounts'[a].nonce = IF a = t.from THEN accounts[a].nonce + 1 ELSE accounts[a].nonce
    BY <2>1, <2>5 DEF ApplyTxn, RInv, TypeOK, Accounts, t
  <2>9. \A a \in Acct : accounts[a].nonce \in Nat
    BY DEF RInv, TypeOK, Accounts, AccountState
  <2>10. ASSUME NEW e \in admitted
         PROVE  SignTxn(e) \in Pending' \/ nonce[e] < accounts'[Transfer[e].from].nonce
    <3>1. Transfer[e].from \in Acct /\ nonce[e] \in Nat
      <4>1. e \in Sends /\ Transfer[e] \in [from : Addr, to : Acct, amount : Nat]
        BY <1>0, RpcAssumption
      <4>. QED  BY <4>1 DEF Acct, RInv, TypeOK
    <3>2. CASE SignTxn(e) = t
      <4>1. nonce[e] = t.nonce /\ Transfer[e].from = t.from
        BY <3>2 DEF SignTxn
      <4>. QED  BY <2>5, <2>7, <2>8, <2>9, <3>1, <4>1
    <3>3. CASE SignTxn(e) # t
      BY <2>2, <2>6, <2>8, <2>9, <3>1, <3>3 DEF NonceInv
    <3>. QED  BY <3>2, <3>3
  <2>. QED  BY <2>2, <2>10 DEF NonceInv, NonceOnce, SignTxn
<1>5. CASE Accept \/ ReadMore \/ ReadEnd \/ Reply \/ RunReturns \/ Stop \/ UNCHANGED vars
  <2>1. /\ UNCHANGED <<mempoolVars, accounts, admitted>> /\ nonce' = nonce
        /\ spc' # "dead" => spc # "dead"
    BY <1>5 DEF Accept, ReadMore, ReadEnd, Reply, RunReturns, Stop, CloseConnection, vars,
                clientVars, serverVars
  <2>. QED  BY <1>1, <2>1
<1>6. CASE NodeDies
  BY <1>6 DEF NodeDies, NonceInv, NonceOnce, clientVars
<1>. QED  BY <1>2, <1>3, <1>4, <1>5, <1>6 DEF Next, Server

(* Sends of one wallet that run side by side never get two transactions of  *)
(* one nonce in, though all read the nonce first and post later (run_send,  *)
(* Mempool::admit): for any number of sends, if none pays its own wallet.   *)
THEOREM NonceUsedOnce == NoSelfSend => (Spec => []NonceOnce)
<1>. SUFFICES ASSUME NoSelfSend PROVE Spec => []NonceOnce
  OBVIOUS
<1>1. Init => RInv /\ NonceInv
  <2>1. ASSUME Init PROVE NonceInv
    BY <2>1 DEF Init, NonceInv, NonceOnce
  <2>. QED  BY <2>1, RInvInit
<1>2. RInv /\ NonceInv /\ [Next]_vars => (RInv /\ NonceInv)'
  BY RInvStep, NonceStep
<1>3. NonceInv => NonceOnce
  BY DEF NonceInv
<1>. QED  BY <1>1, <1>2, <1>3, PTL DEF Spec
=============================================================================
