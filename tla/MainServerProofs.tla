-------------------------- MODULE MainServerProofs --------------------------
(***************************************************************************)
(* Proofs about the socket system, for every set of users, requests and    *)
(* block files and every bound: the types, and, when Server-M stops only   *)
(* between two requests and no write to a block file fails, that the three *)
(* block files are one book of transfers, that the monitor's list is all   *)
(* of it, and that what clients are answered is true by it, whatever       *)
(* backend restarts when.                                                  *)
(***************************************************************************)
EXTENDS MainServer, SequenceTheorems, FiniteSetTheorems, WellFoundedInduction, TLAPS

-----------------------------------------------------------------------------
(* Types.                                                                   *)

LineType == Row \cup {Garbage}
Message == [op : {"QUERY"}, name1 : CipherName, name2 : CipherName \cup {NoName}]
           \cup [op : {"ALL"}] \cup [op : {"NEW"}, row : Row]

(* The replies: finitely many rows.                                         *)
RowsOfReply == UNION {[D -> Row] : D \in {d \in SUBSET Nat : IsFiniteSet(d)}}
Replies == [max : Nat, rows : RowsOfReply]

(* The requests Server-M can have in hand, and when it has which.           *)
TxListRequest == [op |-> "TXLIST"]
Known(r) == r = TxListRequest \/ (r \in Requests /\ r.op \in {"CHECK_WALLET", "TXCOINS"})
ReqType ==
  /\ clients \in Seq(Requests)
  /\ pc \in {"ask", "wait", "compute"} => Known(req)
  /\ pc = "confirm" => req \in Requests /\ req.op = "TXCOINS"
  /\ pc = "client" /\ fds.client => clients # <<>>

PhaseType ==
  /\ pc \in {"select", "client", "monitor", "ask", "wait", "compute", "confirm", "down"}
  /\ asked \in 0 .. 3
  /\ pc \in {"ask", "wait"} => asked < 3
  /\ pc \in {"compute", "confirm"} => asked = 3

MailType == inbox \in [Backends -> Seq(Message)] /\ mbox \in Seq(Replies)

FileType ==
  /\ g_txns \in [Backends -> Seq(LineType)]
  /\ blockfile \in [Backends -> Seq(LineType)]

TxnsType ==
  /\ txns \in [DOMAIN txns -> Txn]
  /\ DOMAIN txns \subseteq Backends \X Nat
  /\ IsFiniteSet(DOMAIN txns)
  /\ max_serial \in Nat
  /\ txchain \in Seq(Txn)

Types == ReqType /\ PhaseType /\ MailType /\ FileType /\ TxnsType

-----------------------------------------------------------------------------
(* A set of numbers with 0 and with the successor of each of its members    *)
(* has them all: induction over Nat, from the well-foundedness of <.        *)
LEMMA SetInduction ==
  ASSUME NEW T, 0 \in T, \A n \in Nat : n \in T => n + 1 \in T
  PROVE  Nat \subseteq T
<1>. SUFFICES ASSUME Nat \ T # {} PROVE FALSE
  OBVIOUS
<1>1. PICK x \in Nat \ T : \A y \in Nat \ T : ~(<<y, x>> \in OpToRel(<, Nat))
  BY NatLessThanWellFounded, WFMin
<1>2. x # 0 /\ x - 1 \in Nat /\ (x - 1) + 1 = x
  OBVIOUS
<1>3. <<x - 1, x>> \in OpToRel(<, Nat)
  BY <1>1, <1>2 DEF OpToRel
<1>4. x - 1 \notin Nat \ T
  BY <1>1, <1>3
<1>. QED  BY <1>1, <1>2, <1>4

(* Finitely many numbers have a largest.                                    *)
LEMMA MaxOf ==
  ASSUME NEW S \in SUBSET Nat, IsFiniteSet(S), S # {}
  PROVE  Max(S) \in S /\ \A y \in S : Max(S) >= y
<1>. DEFINE Has(r) == \E x \in r : \A y \in r : x >= y
            T == {n \in Nat : \A r \in SUBSET Nat :
                                IsFiniteSet(r) /\ Cardinality(r) = n /\ r # {} => Has(r)}
<1>1. 0 \in T
  BY FS_EmptySet
<1>2. ASSUME NEW n \in Nat, n \in T PROVE n + 1 \in T
  <2>. SUFFICES ASSUME NEW r \in SUBSET Nat, IsFiniteSet(r), Cardinality(r) = n + 1, r # {}
                PROVE  Has(r)
    OBVIOUS
  <2>1. PICK z \in r : TRUE
    OBVIOUS
  <2>. DEFINE q == r \ {z}
  <2>2. IsFiniteSet(q) /\ Cardinality(q) = n /\ q \in SUBSET Nat
    <3>1. IsFiniteSet(q) /\ Cardinality(q) = (n + 1) - 1
      BY FS_RemoveElement
    <3>. QED  BY <3>1
  <2>3. CASE q = {}
    <3>1. \A y \in r : z >= y
      BY <2>3
    <3>. QED  BY <3>1
  <2>4. CASE q # {}
    <3>1. PICK x \in q : \A y \in q : x >= y
      BY <1>2, <2>2, <2>4
    <3>2. x \in Nat /\ z \in Nat /\ \A y \in r : y \in Nat /\ (y = z \/ y \in q)
      OBVIOUS
    <3>3. CASE x >= z
      <4>1. \A y \in r : x >= y
        BY <3>1, <3>2, <3>3
      <4>. QED  BY <4>1
    <3>4. CASE ~(x >= z)
      <4>1. \A y \in r : z >= y
        BY <3>1, <3>2, <3>4
      <4>. QED  BY <4>1
    <3>. QED  BY <3>3, <3>4
  <2>. QED  BY <2>3, <2>4
<1>3. Nat \subseteq T
  <2>. HIDE DEF T
  <2>. QED  BY <1>1, <1>2, SetInduction
<1>4. Cardinality(S) \in Nat
  BY FS_CardinalityType
<1>5. \E x \in S : \A y \in S : x >= y
  BY <1>3, <1>4
<1>. QED  BY <1>5 DEF Max

-----------------------------------------------------------------------------
(* The blocks and the cipher.                                               *)

LEMMA CipherInverse ==
  /\ \A n \in CipherName : EncName(n) \in CipherName /\ DecName(n) \in CipherName
                           /\ DecName(EncName(n)) = n /\ EncName(DecName(n)) = n
  /\ \A n \in CipherAmount : EncAmount(n) \in CipherAmount /\ DecAmount(n) \in CipherAmount
                             /\ DecAmount(EncAmount(n)) = n /\ EncAmount(DecAmount(n)) = n
BY DEF CipherName, CipherAmount, EncName, DecName, EncAmount, DecAmount

LEMMA DecryptType == ASSUME NEW row \in Row PROVE Decrypt(row) \in Txn
BY CipherInverse DEF Decrypt, Row, Txn

(* A line parses when it is a row.                                          *)
LEMMA PlacesType ==
  ASSUME NEW lines \in Seq(LineType)
  PROVE  /\ Places(lines) \subseteq 1 .. Len(lines) /\ IsFiniteSet(Places(lines))
         /\ \A i \in Places(lines) : lines[i] \in Row /\ lines[i].serial \in Nat
         /\ \A i \in 1 .. Len(lines) : i \in Places(lines) <=> lines[i] \in Row
<1>1. Len(lines) \in Nat /\ \A i \in 1 .. Len(lines) : lines[i] \in LineType
  OBVIOUS
<1>2. Places(lines) \subseteq 1 .. Len(lines)
  BY DEF Places
<1>3. IsFiniteSet(Places(lines))
  <2>1. IsFiniteSet(1 .. Len(lines))
    BY <1>1, FS_Interval
  <2>. QED  BY <1>2, <2>1, FS_Subset
<1>4. \A i \in 1 .. Len(lines) : i \in Places(lines) <=> lines[i] \in Row
  BY <1>1, MainServerAssumption DEF Places, Parses, LineType
<1>5. \A row \in Row : row.serial \in Nat
  BY DEF Row
<1>. QED  BY <1>2, <1>3, <1>4, <1>5

(* The highest serial of a block is one of its serials, or 0.               *)
LEMMA MaxSerialIs ==
  ASSUME NEW lines \in Seq(LineType)
  PROVE  /\ MaxSerial(lines) \in Nat
         /\ MaxSerial(lines) = 0 \/ \E i \in Places(lines) : lines[i].serial = MaxSerial(lines)
         /\ \A i \in Places(lines) : lines[i].serial <= MaxSerial(lines)
<1>. DEFINE P == Places(lines)
            f == [i \in P |-> lines[i].serial]
            T == {lines[i].serial : i \in P}
            S == {0} \cup T
<1>1. IsFiniteSet(P) /\ \A i \in P : lines[i].serial \in Nat
  BY PlacesType
<1>2. IsFiniteSet(T)
  <2>1. f \in Surjection(P, T)
    BY DEF Surjection
  <2>. QED  BY <1>1, <2>1, FS_Surjection
<1>3. IsFiniteSet(S) /\ S # {} /\ S \in SUBSET Nat
  <2>1. S = T \cup {0}
    OBVIOUS
  <2>2. IsFiniteSet(T \cup {0})
    <3>. HIDE DEF T
    <3>. QED  BY <1>2, FS_AddElement
  <2>3. T \in SUBSET Nat
    BY <1>1
  <2>. HIDE DEF T
  <2>4. S # {} /\ S \in SUBSET Nat
    BY <2>3
  <2>. HIDE DEF S
  <2>. QED  BY <2>1, <2>2, <2>4
<1>4. Max(S) \in S /\ \A y \in S : Max(S) >= y
  <2>. HIDE DEF S
  <2>. QED  BY <1>3, MaxOf
<1>5. MaxSerial(lines) = Max(S)
  BY DEF MaxSerial
<1>6. \A i \in P : lines[i].serial \in S
  OBVIOUS
<1>7. Max(S) \in Nat
  BY <1>3, <1>4
<1>8. \A i \in P : lines[i].serial <= Max(S)
  BY <1>1, <1>4, <1>6, <1>7
<1>9. Max(S) = 0 \/ \E i \in P : lines[i].serial = Max(S)
  BY <1>4
<1>. QED  BY <1>5, <1>7, <1>8, <1>9

(* What a backend answers is a reply.                                       *)
LEMMA RepliesType ==
  ASSUME NEW lines \in Seq(LineType), NEW places \in SUBSET Places(lines)
  PROVE  Reply(lines, places) \in Replies
<1>1. IsFiniteSet(places) /\ places \in SUBSET Nat
  BY PlacesType, FS_Subset
<1>2. [i \in places |-> lines[i]] \in [places -> Row]
  BY PlacesType
<1>3. [i \in places |-> lines[i]] \in RowsOfReply
  BY <1>1, <1>2 DEF RowsOfReply
<1>. QED  BY <1>3, MaxSerialIs DEF Reply, Replies

LEMMA ReplyToType ==
  ASSUME FileType, NEW s \in Backends, NEW msg \in Message
  PROVE  ReplyTo(s, msg) \in Replies
<1>1. g_txns[s] \in Seq(LineType)
  BY DEF FileType
<1>2. CASE msg.op = "QUERY"
  BY <1>1, <1>2, RepliesType DEF ReplyTo, HandleQuery
<1>3. CASE msg.op = "ALL"
  BY <1>1, <1>3, RepliesType DEF ReplyTo, HandleAll
<1>4. CASE msg.op = "NEW"
  <2>1. <<>> \in [{} -> Row] /\ IsFiniteSet({}) /\ {} \in SUBSET Nat
    BY FS_EmptySet
  <2>2. <<>> \in RowsOfReply
    BY <2>1 DEF RowsOfReply
  <2>. QED  BY <1>4, <2>2 DEF ReplyTo, OKReply, Replies
<1>. QED  BY <1>2, <1>3, <1>4 DEF Message

LEMMA OrderIs == Len(Order) = 3 /\ \A i \in 1 .. 3 : Order[i] \in Backends
BY MainServerAssumption DEF Order

LEMMA QuestionType == ASSUME Known(req) PROVE Question \in Message
<1>1. CASE req = TxListRequest
  BY <1>1 DEF Question, TxListRequest, Message
<1>2. CASE req \in Requests /\ req.op = "CHECK_WALLET"
  <2>1. EncName(req.user) \in CipherName
    BY <1>2, MainServerAssumption, CipherInverse
  <2>. QED  BY <1>2, <2>1 DEF Question, Message
<1>3. CASE req \in Requests /\ req.op = "TXCOINS"
  <2>1. EncName(req.sender) \in CipherName /\ EncName(req.receiver) \in CipherName
    BY <1>3, MainServerAssumption, CipherInverse
  <2>. QED  BY <1>3, <2>1 DEF Question, Message
<1>. QED  BY <1>1, <1>2, <1>3 DEF Known

(* The row of a payment.                                                    *)
NewRow == [serial |-> max_serial + 1, sender |-> EncName(req.sender),
           receiver |-> EncName(req.receiver), amount |-> EncAmount(req.amount)]

LEMMA NewRowType ==
  ASSUME max_serial \in Nat, req \in Requests, req.op = "TXCOINS"
  PROVE  /\ NewRow \in Row
         /\ Decrypt(NewRow) = Book!Entry(max_serial + 1, req.sender, req.receiver, req.amount)
<1>1. req.sender \in CipherName /\ req.receiver \in CipherName /\ req.amount \in CipherAmount
  BY MainServerAssumption
<1>. QED  BY <1>1, CipherInverse DEF NewRow, Row, Decrypt, Book!Entry

LEMMA AddedType ==
  ASSUME NEW lines \in Seq(LineType), NEW msg \in Message
  PROVE  Added(lines, msg) \in Seq(LineType)
<1>1. CASE msg.op = "NEW"
  <2>1. msg.row \in LineType
    BY <1>1 DEF Message, LineType
  <2>. QED  BY <1>1, <2>1 DEF Added
<1>. QED  BY <1>1 DEF Added

LEMMA InitTypes == Init => Types
<1>. SUFFICES ASSUME Init PROVE Types
  OBVIOUS
<1>1. FileType
  BY BlocksAssumption DEF Init, FileType, LineType
<1>2. TxnsType
  BY FS_EmptySet DEF Init, TxnsType
<1>. QED  BY <1>1, <1>2 DEF Init, Types, ReqType, PhaseType, MailType, NoFds

(* What Server-M does with its connections.                                 *)
LEMMA ConnectionTypes ==
  ASSUME Types, ClientConnects \/ MonitorConnects \/ Select \/ HandleClient \/ HandleMonitor
                \/ MainStops \/ MainStarts
  PROVE  Types'
<1>. DEFINE Same == UNCHANGED <<g_txns, blockfile, inbox, txchain>>
<1>1. Same /\ (UNCHANGED mbox \/ mbox' = <<>>)
  BY DEF ClientConnects, MonitorConnects, Select, HandleClient, HandleMonitor, MainStops, MainStarts,
         backendVars
<1>2. FileType' /\ MailType'
  <2>1. mbox' \in Seq(Replies)
    <3>1. mbox \in Seq(Replies) /\ <<>> \in Seq(Replies)
      BY DEF Types, MailType
    <3>. QED  BY <1>1, <3>1
  <2>. QED  BY <1>1, <2>1 DEF Types, FileType, MailType
<1>3. UNCHANGED <<asked, txns, max_serial>> \/ (asked' = 0 /\ txns' = <<>> /\ max_serial' = 0)
  BY DEF ClientConnects, MonitorConnects, Select, HandleClient, HandleMonitor, MainStops, MainStarts,
         Take
<1>4. TxnsType'
  <2>1. CASE UNCHANGED <<asked, txns, max_serial>>
    BY <1>1, <2>1 DEF Types, TxnsType
  <2>2. CASE txns' = <<>> /\ max_serial' = 0
    BY <1>1, <2>2, FS_EmptySet DEF Types, TxnsType
  <2>. QED  BY <1>3, <2>1, <2>2
<1>5. PhaseType' /\ ReqType'
  <2>1. CASE ClientConnects
    <3>1. PICK r \in Requests : clients' = Append(clients, r)
      BY <2>1 DEF ClientConnects
    <3>2. clients' \in Seq(Requests) /\ clients' # <<>>
      BY <3>1 DEF Types, ReqType
    <3>3. UNCHANGED <<pc, fds, req, asked>>
      BY <2>1 DEF ClientConnects
    <3>. QED  BY <3>2, <3>3 DEF Types, ReqType, PhaseType
  <2>2. CASE MonitorConnects
    BY <2>2 DEF MonitorConnects, Types, ReqType, PhaseType, Known
  <2>3. CASE Select
    BY <2>3 DEF Select, Types, ReqType, PhaseType
  <2>4. CASE HandleClient
    <3>1. CASE ~fds.client
      BY <2>4, <3>1 DEF HandleClient, Types, ReqType, PhaseType
    <3>2. CASE fds.client
      <4>1. clients # <<>> /\ clients \in Seq(Requests)
        BY <2>4, <3>2 DEF HandleClient, Types, ReqType
      <4>2. Head(clients) \in Requests /\ Tail(clients) \in Seq(Requests)
        BY <4>1
      <4>3. /\ clients' = Tail(clients) /\ req' = Head(clients) /\ asked' = 0
            /\ pc' = IF Head(clients).op \in {"CHECK_WALLET", "TXCOINS"} THEN "ask" ELSE "monitor"
        BY <2>4, <3>2 DEF HandleClient, Take
      <4>. QED  BY <4>2, <4>3 DEF ReqType, PhaseType, Known
    <3>. QED  BY <3>1, <3>2
  <2>5. CASE HandleMonitor
    BY <2>5 DEF HandleMonitor, Take, Types, ReqType, PhaseType, Known, TxListRequest
  <2>6. CASE MainStops
    BY <2>6 DEF MainStops, Take, Types, ReqType, PhaseType
  <2>7. CASE MainStarts
    BY <2>7 DEF MainStarts, Types, ReqType, PhaseType
  <2>. QED  BY <2>1, <2>2, <2>3, <2>4, <2>5, <2>6, <2>7
<1>. QED  BY <1>2, <1>4, <1>5 DEF Types

(* Asking, and taking in an answer.                                         *)
LEMMA AskTypes == ASSUME Types, Ask PROVE Types'
<1>1. /\ inbox' = [inbox EXCEPT ![Order[asked + 1]] = Append(@, Question)] /\ pc' = "wait"
      /\ UNCHANGED <<g_txns, blockfile, fds, clients, mbox, req, asked, txns, max_serial, txchain>>
      /\ pc = "ask"
  BY DEF Ask
<1>2. Question \in Message
  BY <1>1, QuestionType DEF Types, ReqType
<1>3. MailType'
  <2>1. Order[asked + 1] \in Backends
    BY <1>1, OrderIs DEF Types, PhaseType
  <2>2. inbox[Order[asked + 1]] \in Seq(Message)
    BY <2>1 DEF Types, MailType
  <2>3. Append(inbox[Order[asked + 1]], Question) \in Seq(Message)
    BY <1>2, <2>2
  <2>. QED  BY <1>1, <2>1, <2>3 DEF Types, MailType
<1>4. FileType' /\ TxnsType'
  BY <1>1 DEF Types, FileType, TxnsType
<1>5. PhaseType' /\ ReqType'
  BY <1>1 DEF Types, PhaseType, ReqType, Known
<1>. QED  BY <1>3, <1>4, <1>5 DEF Types

LEMMA CollectedType ==
  ASSUME NEW rows, rows \in [DOMAIN rows -> Txn], DOMAIN rows \subseteq Backends \X Nat,
         IsFiniteSet(DOMAIN rows), NEW s \in Backends, NEW reply \in RowsOfReply
  PROVE  LET new == Collected(rows, s, reply)
         IN  /\ new \in [DOMAIN new -> Txn]
             /\ DOMAIN new \subseteq Backends \X Nat
             /\ IsFiniteSet(DOMAIN new)
<1>1. PICK D \in SUBSET Nat : IsFiniteSet(D) /\ reply \in [D -> Row]
  BY DEF RowsOfReply
<1>2. DOMAIN reply = D /\ \A i \in D : Decrypt(reply[i]) \in Txn
  BY <1>1, DecryptType
<1>. DEFINE E == {s} \X D
            N == DOMAIN rows \cup E
            new == Collected(rows, s, reply)
<1>3. IsFiniteSet(E) /\ E \subseteq Backends \X Nat /\ \A p \in E : p[2] \in D
  <2>1. IsFiniteSet({s})
    BY FS_Singleton
  <2>. QED  BY <1>1, <2>1, FS_Product
<1>. HIDE DEF E
<1>4. IsFiniteSet(N)
  BY <1>3, FS_Union
<1>5. new = [p \in N |-> IF p \in DOMAIN rows THEN rows[p] ELSE Decrypt(reply[p[2]])]
  BY <1>2 DEF Collected, E
<1>6. \A p \in N : (IF p \in DOMAIN rows THEN rows[p] ELSE Decrypt(reply[p[2]])) \in Txn
  BY <1>2, <1>3
<1>7. DOMAIN new = N /\ new \in [N -> Txn]
  <2>. HIDE DEF N, new
  <2>. QED  BY <1>5, <1>6
<1>8. N \subseteq Backends \X Nat
  BY <1>3
<1>. HIDE DEF N, new
<1>9. new \in [DOMAIN new -> Txn] /\ DOMAIN new \subseteq Backends \X Nat /\ IsFiniteSet(DOMAIN new)
  BY <1>4, <1>7, <1>8
<1>. QED  BY <1>9 DEF new

LEMMA ReceiveTypes == ASSUME Types, Receive PROVE Types'
<1>1. /\ pc = "wait" /\ mbox # <<>> /\ mbox' = Tail(mbox)
      /\ max_serial' = IF Head(mbox).max > max_serial THEN Head(mbox).max ELSE max_serial
      /\ txns' = Collected(txns, Order[asked + 1], Head(mbox).rows)
      /\ asked' = asked + 1
      /\ pc' = IF asked + 1 < 3 THEN "ask" ELSE "compute"
      /\ UNCHANGED <<g_txns, blockfile, inbox, fds, clients, req, txchain>>
  BY OrderIs DEF Receive, backendVars
<1>2. Head(mbox) \in Replies /\ Tail(mbox) \in Seq(Replies)
  BY <1>1 DEF Types, MailType
<1>3. Head(mbox).max \in Nat /\ Head(mbox).rows \in RowsOfReply
  BY <1>2 DEF Replies
<1>4. asked \in 0 .. 2 /\ Order[asked + 1] \in Backends
  BY <1>1, OrderIs DEF Types, PhaseType
<1>5. /\ txns' \in [DOMAIN txns' -> Txn] /\ DOMAIN txns' \subseteq Backends \X Nat
      /\ IsFiniteSet(DOMAIN txns')
  BY <1>1, <1>3, <1>4, CollectedType DEF Types, TxnsType
<1>6. TxnsType'
  BY <1>1, <1>3, <1>5 DEF Types, TxnsType
<1>7. MailType' /\ FileType'
  BY <1>1, <1>2 DEF Types, MailType, FileType
<1>8. PhaseType' /\ ReqType'
  BY <1>1, <1>4 DEF Types, PhaseType, ReqType, Known
<1>. QED  BY <1>6, <1>7, <1>8 DEF Types

(* The ends of the requests.                                                *)
LEMMA SortedType ==
  ASSUME NEW rows, rows \in [DOMAIN rows -> Txn], IsFiniteSet(DOMAIN rows),
         NEW order \in Orders(rows)
  PROVE  /\ DOMAIN order = 1 .. Cardinality(DOMAIN rows) /\ Cardinality(DOMAIN rows) \in Nat
         /\ [i \in DOMAIN order |-> rows[order[i]]] \in Seq(Txn)
         /\ Len([i \in DOMAIN order |-> rows[order[i]]]) = Cardinality(DOMAIN rows)
<1>. DEFINE n == Cardinality(DOMAIN rows)
<1>1. n \in Nat
  BY FS_CardinalityType
<1>2. order \in [1 .. n -> DOMAIN rows]
  BY DEF Orders, Bijection, Injection
<1>. HIDE DEF n
<1>3. DOMAIN order = 1 .. n /\ \A i \in 1 .. n : rows[order[i]] \in Txn
  BY <1>2
<1>4. [i \in DOMAIN order |-> rows[order[i]]] \in Seq(Txn)
      /\ Len([i \in DOMAIN order |-> rows[order[i]]]) = n
  BY <1>1, <1>3
<1>. QED  BY <1>1, <1>3, <1>4 DEF n

LEMMA AnswerTypes ==
  ASSUME Types, CheckWallet \/ TxCoinsRefused \/ TxCoinsDone \/ TxList
  PROVE  Types'
<1>1. /\ asked' = 0 /\ txns' = <<>> /\ max_serial' = 0 /\ pc' \in {"monitor", "select"}
      /\ UNCHANGED <<g_txns, blockfile, inbox, clients, req>>
  BY DEF CheckWallet, TxCoinsRefused, TxCoinsDone, TxList, Forget, backendVars
<1>2. UNCHANGED mbox \/ (mbox # <<>> /\ mbox' = Tail(mbox))
  BY DEF CheckWallet, TxCoinsRefused, TxCoinsDone, TxList
<1>3. mbox' \in Seq(Replies)
  BY <1>2 DEF Types, MailType
<1>4. txchain' \in Seq(Txn)
  <2>1. CASE TxList
    <3>1. PICK order \in Orders(txns) : txchain' = [i \in DOMAIN order |-> txns[order[i]]]
      BY <2>1 DEF TxList
    <3>. QED  BY <3>1, SortedType DEF Types, TxnsType
  <2>2. CASE UNCHANGED txchain
    BY <2>2 DEF Types, TxnsType
  <2>. QED  BY <2>1, <2>2 DEF CheckWallet, TxCoinsRefused, TxCoinsDone
<1>5. TxnsType'
  BY <1>1, <1>4, FS_EmptySet DEF TxnsType
<1>6. MailType' /\ FileType'
  BY <1>1, <1>3 DEF Types, MailType, FileType
<1>7. PhaseType' /\ ReqType'
  BY <1>1 DEF Types, PhaseType, ReqType
<1>. QED  BY <1>5, <1>6, <1>7 DEF Types

LEMMA RecordTypes == ASSUME Types, TxCoinsRecord PROVE Types'
<1>1. PICK pick \in Backends : inbox' = [inbox EXCEPT ![pick] = Append(@, [op |-> "NEW", row |-> NewRow])]
  BY DEF TxCoinsRecord, NewRow
<1>2. /\ pc = "compute" /\ req.op = "TXCOINS" /\ pc' = "confirm"
      /\ UNCHANGED <<g_txns, blockfile, fds, clients, mbox, req, asked, txns, max_serial, txchain>>
  BY DEF TxCoinsRecord
<1>3. req \in Requests
  BY <1>2 DEF Types, ReqType, Known, TxListRequest
<1>4. NewRow \in Row
  BY <1>2, <1>3, NewRowType DEF Types, TxnsType
<1>5. [op |-> "NEW", row |-> NewRow] \in Message
  BY <1>4 DEF Message
<1>6. MailType'
  <2>. HIDE DEF NewRow
  <2>. QED  BY <1>1, <1>2, <1>5 DEF Types, MailType
<1>7. FileType' /\ TxnsType'
  BY <1>2 DEF Types, FileType, TxnsType
<1>8. PhaseType' /\ ReqType'
  BY <1>2, <1>3 DEF Types, PhaseType, ReqType
<1>. QED  BY <1>6, <1>7, <1>8 DEF Types

(* The backends.                                                            *)
LEMMA BackendTypes ==
  ASSUME Types, (\E s \in Backends : BackendAnswers(s)) \/ BackendRestarts
  PROVE  Types'
<1>1. ASSUME NEW s \in Backends, inbox[s] # <<>>
      PROVE  /\ Head(inbox[s]) \in Message /\ Tail(inbox[s]) \in Seq(Message)
             /\ Added(blockfile[s], Head(inbox[s])) \in Seq(LineType)
             /\ Added(g_txns[s], Head(inbox[s])) \in Seq(LineType)
  <2>1. inbox[s] \in Seq(Message) /\ blockfile[s] \in Seq(LineType) /\ g_txns[s] \in Seq(LineType)
    BY DEF Types, MailType, FileType
  <2>2. Head(inbox[s]) \in Message /\ Tail(inbox[s]) \in Seq(Message)
    BY <1>1, <2>1
  <2>. QED  BY <2>1, <2>2, AddedType
<1>2. UNCHANGED <<pc, fds, clients, req, asked, txns, max_serial, txchain>>
  BY DEF BackendAnswers, BackendRestarts
<1>3. PhaseType' /\ ReqType' /\ TxnsType'
  BY <1>2 DEF Types, PhaseType, ReqType, TxnsType, Known
<1>4. ASSUME NEW s \in Backends, BackendAnswers(s) PROVE FileType' /\ MailType'
  <2>1. /\ inbox[s] # <<>> /\ inbox' = [inbox EXCEPT ![s] = Tail(@)]
        /\ g_txns' = [g_txns EXCEPT ![s] = Added(@, Head(inbox[s]))]
        /\ \E lines \in {blockfile[s], Added(blockfile[s], Head(inbox[s]))} :
             blockfile' = [blockfile EXCEPT ![s] = lines]
        /\ mbox' = mbox \/ mbox' = Append(mbox, ReplyTo(s, Head(inbox[s])))
    BY <1>4 DEF BackendAnswers, TakeRequest, Persisted
  <2>2. FileType'
    <3>1. PICK lines \in {blockfile[s], Added(blockfile[s], Head(inbox[s]))} :
            blockfile' = [blockfile EXCEPT ![s] = lines]
      BY <2>1
    <3>2. lines \in Seq(LineType)
      BY <1>1, <2>1, <3>1 DEF Types, FileType
    <3>. QED  BY <1>1, <2>1, <3>1, <3>2 DEF Types, FileType
  <2>3. ReplyTo(s, Head(inbox[s])) \in Replies
    BY <1>1, <2>1, ReplyToType DEF Types
  <2>4. inbox' \in [Backends -> Seq(Message)]
    BY <1>1, <2>1 DEF Types, MailType
  <2>5. mbox' \in Seq(Replies)
    <3>1. mbox \in Seq(Replies)
      BY DEF Types, MailType
    <3>2. Append(mbox, ReplyTo(s, Head(inbox[s]))) \in Seq(Replies)
      BY <2>3, <3>1
    <3>. QED  BY <2>1, <3>1, <3>2
  <2>. QED  BY <2>2, <2>4, <2>5 DEF MailType
<1>5. ASSUME BackendRestarts PROVE FileType' /\ MailType'
  <2>1. PICK s \in Backends : RestartBackend(s)
    BY <1>5 DEF BackendRestarts
  <2>2. PICK lines : /\ \/ lines = blockfile[s]
                        \/ inbox[s] # <<>> /\ lines = Added(blockfile[s], Head(inbox[s]))
                     /\ blockfile' = [blockfile EXCEPT ![s] = lines]
                     /\ g_txns' = [g_txns EXCEPT ![s] = lines]
                     /\ inbox' = [inbox EXCEPT ![s] = <<>>]
    BY <2>1 DEF RestartBackend
  <2>3. lines \in Seq(LineType)
    BY <1>1, <2>2 DEF Types, FileType
  <2>4. mbox' = mbox
    BY <1>5 DEF BackendRestarts
  <2>. QED  BY <2>2, <2>3, <2>4 DEF Types, FileType, MailType
<1>. QED  BY <1>3, <1>4, <1>5 DEF Types

LEMMA StepTypes == Types /\ [Next]_vars => Types'
<1>. SUFFICES ASSUME Types, [Next]_vars PROVE Types'
  OBVIOUS
<1>1. CASE UNCHANGED vars
  BY <1>1 DEF vars, backendVars, mainVars, Types, ReqType, PhaseType, MailType, FileType, TxnsType,
              Known
<1>. QED
  BY <1>1, ConnectionTypes, AskTypes, ReceiveTypes, AnswerTypes, RecordTypes, BackendTypes
     DEF Next, Main

LEMMA AlwaysTyped == Spec => []Types
  BY InitTypes, StepTypes, PTL DEF Spec

(* The types of the socket system, whatever restarts when, Server-M in the  *)
(* middle of a request included.                                            *)
THEOREM ServiceTypes == Spec => []TypeOK
<1>1. Types => TypeOK
  <2>. SUFFICES ASSUME Types PROVE TypeOK
    OBVIOUS
  <2>1. \A i \in 1 .. Len(mbox) :
          mbox[i].max \in Nat /\ mbox[i].rows \in [DOMAIN mbox[i].rows -> Row]
    <3>. SUFFICES ASSUME NEW i \in 1 .. Len(mbox)
                  PROVE  mbox[i].max \in Nat /\ mbox[i].rows \in [DOMAIN mbox[i].rows -> Row]
      OBVIOUS
    <3>1. mbox[i] \in Replies
      BY DEF Types, MailType
    <3>2. mbox[i].max \in Nat /\ mbox[i].rows \in RowsOfReply
      BY <3>1 DEF Replies
    <3>3. PICK D \in SUBSET Nat : mbox[i].rows \in [D -> Row]
      BY <3>2 DEF RowsOfReply
    <3>. QED  BY <3>2, <3>3
  <2>. QED  BY <2>1, OrderIs DEF Types, FileType, PhaseType, TxnsType, TypeOK, LineType
<1>. QED  BY <1>1, AlwaysTyped, PTL

-----------------------------------------------------------------------------
(* The rows of the block files.                                             *)

LineAt(files, p) == files[p[1]][p[2]]
FilesType(files) == files \in [Backends -> Seq(LineType)]

LEMMA FiledType ==
  ASSUME NEW files, FilesType(files)
  PROVE  /\ IsFiniteSet(Filed(files)) /\ Cardinality(Filed(files)) \in Nat
         /\ \A p \in Filed(files) :
              /\ p = <<p[1], p[2]>> /\ p[1] \in Backends /\ p[2] \in Places(files[p[1]])
              /\ LineAt(files, p) \in Row /\ LineAt(files, p).serial \in Nat
              /\ Decrypt(LineAt(files, p)) \in Txn
              /\ Decrypt(LineAt(files, p)).serial = LineAt(files, p).serial
         /\ \A s \in Backends : \A i \in Places(files[s]) :
              <<s, i>> \in Filed(files) /\ LineAt(files, <<s, i>>) = files[s][i]
<1>. DEFINE Of(s) == {s} \X Places(files[s])
            F == {Of(s) : s \in Backends}
<1>1. ASSUME NEW s \in Backends PROVE IsFiniteSet(Of(s))
  <2>1. files[s] \in Seq(LineType)
    BY DEF FilesType
  <2>2. IsFiniteSet(Places(files[s])) /\ IsFiniteSet({s})
    BY <2>1, PlacesType, FS_Singleton
  <2>. QED  BY <2>2, FS_Product
<1>2. IsFiniteSet(F)
  <2>1. F = {Of(A)} \cup {Of(B)} \cup {Of(C)}
    BY MainServerAssumption
  <2>2. IsFiniteSet({Of(A)}) /\ IsFiniteSet({Of(B)}) /\ IsFiniteSet({Of(C)})
    BY FS_Singleton
  <2>3. IsFiniteSet({Of(A)} \cup {Of(B)} \cup {Of(C)})
    BY <2>2, FS_Union
  <2>. QED  BY <2>1, <2>3
<1>3. \A T \in F : IsFiniteSet(T)
  BY <1>1
<1>4. Filed(files) = UNION F
  BY DEF Filed
<1>5. IsFiniteSet(Filed(files))
  <2>. HIDE DEF F
  <2>. QED  BY <1>2, <1>3, <1>4, FS_UNION
<1>6. Cardinality(Filed(files)) \in Nat
  BY <1>5, FS_CardinalityType
<1>7. ASSUME NEW p \in Filed(files)
      PROVE  /\ p = <<p[1], p[2]>> /\ p[1] \in Backends /\ p[2] \in Places(files[p[1]])
             /\ LineAt(files, p) \in Row
  <2>1. PICK s \in Backends : p \in {s} \X Places(files[s])
    BY DEF Filed
  <2>2. p = <<p[1], p[2]>> /\ p[1] = s /\ p[2] \in Places(files[s])
    BY <2>1
  <2>3. files[s] \in Seq(LineType)
    BY DEF FilesType
  <2>. QED  BY <2>2, <2>3, PlacesType DEF LineAt
<1>8. \A row \in Row : row.serial \in Nat /\ Decrypt(row) \in Txn /\ Decrypt(row).serial = row.serial
  BY DecryptType DEF Row, Decrypt
<1>9. ASSUME NEW s \in Backends, NEW i \in Places(files[s])
      PROVE  <<s, i>> \in Filed(files) /\ LineAt(files, <<s, i>>) = files[s][i]
  BY DEF Filed, LineAt
<1>. QED  BY <1>5, <1>6, <1>7, <1>8, <1>9

(* A row more, at place p.                                                  *)
WithRow(files, s, row) == [files EXCEPT ![s] = Append(@, row)]
GrownBy(files, more, p, row) ==
  /\ p \notin Filed(files) /\ Filed(more) = Filed(files) \cup {p}
  /\ LineAt(more, p) = row
  /\ \A q \in Filed(files) : LineAt(more, q) = LineAt(files, q)

LEMMA FiledGrows ==
  ASSUME NEW files, FilesType(files), NEW s \in Backends, NEW row \in Row
  PROVE  /\ FilesType(WithRow(files, s, row))
         /\ GrownBy(files, WithRow(files, s, row), <<s, Len(files[s]) + 1>>, row)
<1>. DEFINE more == WithRow(files, s, row)
            n == Len(files[s])
            p == <<s, n + 1>>
<1>1. files[s] \in Seq(LineType) /\ n \in Nat /\ row \in LineType /\ row # Garbage
  BY MainServerAssumption DEF FilesType, LineType
<1>2. /\ more \in [Backends -> Seq(LineType)] /\ more[s] = Append(files[s], row)
      /\ \A x \in Backends \ {s} : more[x] = files[x]
  BY <1>1 DEF FilesType, WithRow
<1>. HIDE DEF more
<1>3. /\ Len(more[s]) = n + 1 /\ more[s][n + 1] = row
      /\ \A i \in 1 .. n : more[s][i] = files[s][i]
  BY <1>1, <1>2
<1>. HIDE DEF n
<1>4. Places(more[s]) = Places(files[s]) \cup {n + 1}
  BY <1>1, <1>3 DEF Places, Parses, n
<1>5. n + 1 \notin Places(files[s]) /\ Places(files[s]) \subseteq 1 .. n
  BY <1>1 DEF Places, n
<1>6. \A x : Filed(x) = {q \in UNION {{t} \X Places(x[t]) : t \in Backends} : TRUE}
  BY DEF Filed
<1>7. p \notin Filed(files)
  BY <1>5 DEF Filed
<1>8. Filed(more) = Filed(files) \cup {p}
  <2>1. ASSUME NEW q \in Filed(more) PROVE q \in Filed(files) \cup {p}
    <3>1. PICK t \in Backends : q \in {t} \X Places(more[t])
      BY DEF Filed
    <3>2. CASE t = s
      <4>1. q = <<s, q[2]>> /\ (q[2] \in Places(files[s]) \/ q[2] = n + 1)
        BY <1>4, <3>1, <3>2
      <4>2. q[2] \in Places(files[s]) => <<s, q[2]>> \in Filed(files)
        BY DEF Filed
      <4>. QED  BY <4>1, <4>2
    <3>3. CASE t # s
      <4>1. q \in {t} \X Places(files[t])
        BY <1>2, <3>1, <3>3
      <4>. QED  BY <4>1 DEF Filed
    <3>. QED  BY <3>2, <3>3
  <2>2. ASSUME NEW q \in Filed(files) PROVE q \in Filed(more)
    <3>1. PICK t \in Backends : q \in {t} \X Places(files[t])
      BY DEF Filed
    <3>2. q \in {t} \X Places(more[t])
      BY <1>2, <1>4, <3>1
    <3>. QED  BY <3>2 DEF Filed
  <2>3. p \in Filed(more)
    BY <1>4 DEF Filed
  <2>. QED  BY <2>1, <2>2, <2>3
<1>9. ASSUME NEW q \in Filed(files) PROVE LineAt(more, q) = LineAt(files, q)
  <2>1. q[1] \in Backends /\ q[2] \in Places(files[q[1]])
    BY FiledType
  <2>2. CASE q[1] = s
    <3>1. q[2] \in 1 .. n
      BY <1>5, <2>1, <2>2
    <3>2. more[s][q[2]] = files[s][q[2]]
      BY <1>3, <3>1 DEF n
    <3>. QED  BY <2>2, <3>2 DEF LineAt
  <2>3. CASE q[1] # s
    BY <1>2, <2>1, <2>3 DEF LineAt
  <2>. QED  BY <2>2, <2>3
<1>10. LineAt(more, p) = row
  BY <1>3 DEF LineAt
<1>11. GrownBy(files, more, p, row)
  <2>. HIDE DEF p
  <2>. QED  BY <1>7, <1>8, <1>9, <1>10 DEF GrownBy
<1>12. FilesType(more)
  BY <1>2 DEF FilesType
<1>. QED  BY <1>11, <1>12 DEF more, n

(* Rows that are numbered from 1 on have different serials.                 *)
Numbered(files) == {LineAt(files, p).serial : p \in Filed(files)} = 1 .. Cardinality(Filed(files))

LEMMA SerialsDiffer ==
  ASSUME NEW files, FilesType(files), Numbered(files)
  PROVE  \A p, q \in Filed(files) : LineAt(files, p).serial = LineAt(files, q).serial => p = q
<1>. DEFINE S == Filed(files)
            n == Cardinality(S)
            f == [p \in S |-> LineAt(files, p).serial]
<1>1. IsFiniteSet(S) /\ n \in Nat
  BY FiledType
<1>2. Cardinality(1 .. n) = n
  BY <1>1, FS_Interval
<1>3. f \in Surjection(S, 1 .. n)
  <2>1. {LineAt(files, p).serial : p \in S} = 1 .. n
    BY DEF Numbered
  <2>. HIDE DEF S, n
  <2>. QED  BY <2>1 DEF Surjection
<1>4. f \in Injection(S, 1 .. n)
  <2>. DEFINE T == 1 .. n
  <2>1. IsFiniteSet(T) /\ Cardinality(S) = Cardinality(T) /\ f \in Surjection(S, T)
    BY <1>1, <1>2, <1>3, FS_Interval
  <2>. HIDE DEF S, T, f
  <2>2. f \in Injection(S, T)
    BY <1>1, <2>1, FS_SurjSameCardinalityImpliesInj
  <2>. QED  BY <2>2 DEF T
<1>. QED  BY <1>4 DEF Injection, IsInjective

LEMMA NumberedGrows ==
  ASSUME NEW files, FilesType(files), Numbered(files), NEW s \in Backends, NEW row \in Row,
         row.serial = Cardinality(Filed(files)) + 1
  PROVE  Numbered(WithRow(files, s, row))
<1>. DEFINE more == WithRow(files, s, row)
<1>1. PICK p : GrownBy(files, more, p, row)
  BY FiledGrows
<1>. HIDE DEF more
<1>. DEFINE n == Cardinality(Filed(files))
<1>2. n \in Nat /\ Cardinality(Filed(more)) = n + 1
  BY <1>1, FiledType, FS_AddElement DEF GrownBy
<1>3. {LineAt(more, q).serial : q \in Filed(more)} =
        {LineAt(files, q).serial : q \in Filed(files)} \cup {n + 1}
  <2>. DEFINE L == {LineAt(more, q).serial : q \in Filed(more)}
              K == {LineAt(files, q).serial : q \in Filed(files)}
  <2>1. \A x \in L : x \in K \cup {n + 1}
    BY <1>1 DEF GrownBy
  <2>2. \A x \in K : x \in L
    BY <1>1 DEF GrownBy
  <2>3. n + 1 \in L
    BY <1>1 DEF GrownBy
  <2>. HIDE DEF L, K
  <2>4. L = K \cup {n + 1}
    BY <2>1, <2>2, <2>3
  <2>. QED  BY <2>4 DEF L, K
<1>4. {LineAt(files, q).serial : q \in Filed(files)} = 1 .. n
  BY DEF Numbered
<1>. HIDE DEF n
<1>5. (1 .. n) \cup {n + 1} = 1 .. n + 1
  BY <1>2
<1>. QED  BY <1>2, <1>3, <1>4, <1>5 DEF Numbered, more

(* The book of the files.                                                   *)
BookOf(files) == {Decrypt(LineAt(files, p)) : p \in Filed(files)}

LEMMA RecordedIs == Recorded = BookOf(blockfile)
BY DEF Recorded, BookOf, LineAt

LEMMA BookType ==
  ASSUME NEW files, FilesType(files), Numbered(files)
  PROVE  /\ IsFiniteSet(BookOf(files)) /\ Cardinality(BookOf(files)) = Cardinality(Filed(files))
         /\ BookOf(files) \subseteq Txn
         /\ {e.serial : e \in BookOf(files)} = 1 .. Cardinality(BookOf(files))
<1>. DEFINE S == Filed(files)
            T == BookOf(files)
            g == [p \in S |-> Decrypt(LineAt(files, p))]
<1>1. IsFiniteSet(S) /\ \A p \in S : /\ Decrypt(LineAt(files, p)) \in Txn
                                     /\ Decrypt(LineAt(files, p)).serial = LineAt(files, p).serial
  BY FiledType
<1>2. \A p, q \in S : LineAt(files, p).serial = LineAt(files, q).serial => p = q
  BY SerialsDiffer
<1>3. g \in Surjection(S, T)
  BY DEF BookOf, Surjection
<1>4. g \in Injection(S, T)
  <2>1. \A p, q \in S : g[p] = g[q] => p = q
    BY <1>1, <1>2
  <2>2. g \in [S -> T]
    BY DEF BookOf
  <2>. HIDE DEF g, S, T
  <2>. QED  BY <2>1, <2>2 DEF Injection, IsInjective
<1>5. IsFiniteSet(T) /\ Cardinality(T) = Cardinality(S)
  <2>. HIDE DEF g, S, T
  <2>. QED  BY <1>1, <1>3, <1>4, FS_Surjection
<1>6. {e.serial : e \in T} = {LineAt(files, p).serial : p \in S}
  BY <1>1 DEF BookOf
<1>7. {e.serial : e \in T} = 1 .. Cardinality(T)
  <2>. HIDE DEF T
  <2>. QED  BY <1>5, <1>6 DEF Numbered
<1>8. T \subseteq Txn
  BY <1>1 DEF BookOf
<1>. QED  BY <1>5, <1>7, <1>8

LEMMA BookGrows ==
  ASSUME NEW files, FilesType(files), NEW s \in Backends, NEW row \in Row
  PROVE  BookOf(WithRow(files, s, row)) = BookOf(files) \cup {Decrypt(row)}
<1>. DEFINE more == WithRow(files, s, row)
<1>1. PICK p : GrownBy(files, more, p, row)
  BY FiledGrows
<1>. HIDE DEF more
<1>2. \A e \in BookOf(more) : e \in BookOf(files) \cup {Decrypt(row)}
  BY <1>1 DEF BookOf, GrownBy
<1>3. \A e \in BookOf(files) : e \in BookOf(more)
  BY <1>1 DEF BookOf, GrownBy
<1>4. Decrypt(row) \in BookOf(more)
  BY <1>1 DEF BookOf, GrownBy
<1>5. BookOf(more) = BookOf(files) \cup {Decrypt(row)}
  BY <1>2, <1>3, <1>4
<1>. QED  BY <1>5 DEF more

-----------------------------------------------------------------------------
(* What travels between Server-M and the backends.                          *)

NoMail == \A w \in Backends : inbox[w] = <<>>
OnlyTo(s, msg) == \A w \in Backends : inbox[w] = IF w = s THEN <<msg>> ELSE <<>>
NewMsg == [op |-> "NEW", row |-> NewRow]

(* A row, in plaintext, that the request in hand asks for.                  *)
Wanted(t) ==
  CASE req.op = "CHECK_WALLET" -> req.user \in {t.sender, t.receiver}
    [] req.op = "TXCOINS" -> \/ req.sender \in {t.sender, t.receiver}
                             \/ req.receiver \in {t.sender, t.receiver}
    [] req.op = "TXLIST" -> TRUE

(* What Server-M has collected when the backends of who have answered.      *)
CollectedOf(files, who, rows, top) ==
  /\ DOMAIN rows = {p \in Filed(files) : p[1] \in who /\ Wanted(Decrypt(LineAt(files, p)))}
  /\ \A p \in DOMAIN rows : rows[p] = Decrypt(LineAt(files, p))
  /\ \A p \in Filed(files) : p[1] \in who => LineAt(files, p).serial <= top
  /\ top = 0 \/ \E p \in Filed(files) : LineAt(files, p).serial = top

Asked == {Order[i] : i \in 1 .. asked}

(* A feasible payment over the files as they were when it was computed, and *)
(* one that is recorded.                                                    *)
Paying(old) ==
  /\ FilesType(old) /\ Numbered(old)
  /\ CollectedOf(old, Backends, txns, max_serial)
  /\ Refusal = "none"
Paid(old) == Paying(old) /\ \E s \in Backends : blockfile = WithRow(old, s, NewRow)

Quiet == pc \notin {"wait", "confirm"} => NoMail /\ mbox = <<>>
Waiting ==
  pc = "wait" =>
    \/ OnlyTo(Order[asked + 1], Question) /\ mbox = <<>>
    \/ NoMail /\ mbox = <<ReplyTo(Order[asked + 1], Question)>>
    \/ NoMail /\ mbox = <<>>
Confirming ==
  pc = "confirm" =>
    \/ (\E s \in Backends : OnlyTo(s, NewMsg)) /\ mbox = <<>> /\ Paying(blockfile)
    \/ NoMail /\ mbox = <<OKReply>> /\ \E old : Paid(old)
    \/ NoMail /\ mbox = <<>>
Collecting ==
  pc \in {"ask", "wait", "compute"} => CollectedOf(blockfile, Asked, txns, max_serial)
Answered == answer # NoAnswer => pc \in {"select", "client", "monitor"}

Service ==
  /\ Types /\ Quiet /\ Waiting /\ Confirming /\ Collecting /\ Answered
  /\ g_txns = blockfile /\ Numbered(blockfile)

-----------------------------------------------------------------------------
LEMMA CipherMatch ==
  ASSUME NEW u \in CipherName, NEW row \in Row
  PROVE  EncName(u) \in {row.sender, row.receiver} <=>
           u \in {Decrypt(row).sender, Decrypt(row).receiver}
<1>1. row.sender \in CipherName /\ row.receiver \in CipherName
  BY DEF Row
<1>2. \A n \in CipherName : EncName(u) = n <=> u = DecName(n)
  BY CipherInverse
<1>. QED  BY <1>1, <1>2 DEF Decrypt

(* A backend answers a question with the rows that are wanted.              *)
LEMMA ReplyIs ==
  ASSUME FileType, Known(req), NEW s \in Backends
  PROVE  /\ ReplyTo(s, Question).max = MaxSerial(g_txns[s])
         /\ ReplyTo(s, Question).rows =
              [i \in {j \in Places(g_txns[s]) : Wanted(Decrypt(g_txns[s][j]))} |-> g_txns[s][i]]
<1>. DEFINE lines == g_txns[s]
            W == {j \in Places(lines) : Wanted(Decrypt(lines[j]))}
<1>1. lines \in Seq(LineType) /\ \A j \in Places(lines) : lines[j] \in Row
  BY PlacesType DEF FileType
<1>. HIDE DEF lines
<1>2. CASE req = TxListRequest
  <2>1. req.op = "TXLIST" /\ Question = [op |-> "ALL"]
    BY <1>2 DEF Question, TxListRequest
  <2>2. W = Places(lines)
    BY <2>1 DEF Wanted
  <2>3. ReplyTo(s, Question) = Reply(lines, W)
    BY <2>1, <2>2 DEF ReplyTo, HandleAll, lines
  <2>. QED  BY <2>3 DEF Reply, lines
<1>3. CASE req \in Requests /\ req.op = "CHECK_WALLET"
  <2>1. req.user \in CipherName
    BY <1>3, MainServerAssumption
  <2>2. Question = [op |-> "QUERY", name1 |-> EncName(req.user), name2 |-> NoName]
    BY <1>3 DEF Question
  <2>3. W = {i \in Places(lines) :
                  \/ EncName(req.user) \in {lines[i].sender, lines[i].receiver}
                  \/ NoName # NoName /\ NoName \in {lines[i].sender, lines[i].receiver}}
    BY <1>1, <1>3, <2>1, CipherMatch DEF Wanted
  <2>. HIDE DEF W
  <2>4. ReplyTo(s, Question) = Reply(lines, W)
    BY <2>2, <2>3 DEF ReplyTo, HandleQuery, lines
  <2>. QED  BY <2>4 DEF Reply, lines, W
<1>4. CASE req \in Requests /\ req.op = "TXCOINS"
  <2>1. req.sender \in CipherName /\ req.receiver \in CipherName
    BY <1>4, MainServerAssumption
  <2>2. Question = [op |-> "QUERY", name1 |-> EncName(req.sender), name2 |-> EncName(req.receiver)]
    BY <1>4 DEF Question
  <2>3. EncName(req.receiver) # NoName
    BY <2>1, CipherInverse, MainServerAssumption
  <2>4. W = {i \in Places(lines) :
                  \/ EncName(req.sender) \in {lines[i].sender, lines[i].receiver}
                  \/ EncName(req.receiver) # NoName
                     /\ EncName(req.receiver) \in {lines[i].sender, lines[i].receiver}}
    BY <1>1, <1>4, <2>1, <2>3, CipherMatch DEF Wanted
  <2>. HIDE DEF W
  <2>5. ReplyTo(s, Question) = Reply(lines, W)
    BY <2>2, <2>4 DEF ReplyTo, HandleQuery, lines
  <2>. QED  BY <2>5 DEF Reply, lines, W
<1>. QED  BY <1>2, <1>3, <1>4 DEF Known

LEMMA QuestionOp == ASSUME Known(req) PROVE Question.op # "NEW"
BY DEF Known, TxListRequest, Question

-----------------------------------------------------------------------------
(* The next answer is added to what was collected.                          *)
LEMMA CollectMore ==
  ASSUME NEW files, FilesType(files), NEW who \in SUBSET Backends, NEW s \in Backends, s \notin who,
         NEW rows, NEW top \in Nat, CollectedOf(files, who, rows, top),
         NEW reply,
         reply.max = MaxSerial(files[s]),
         reply.rows = [i \in {j \in Places(files[s]) : Wanted(Decrypt(files[s][j]))} |-> files[s][i]]
  PROVE  CollectedOf(files, who \cup {s}, Collected(rows, s, reply.rows),
                     IF reply.max > top THEN reply.max ELSE top)
<1>. DEFINE lines == files[s]
            D == {j \in Places(lines) : Wanted(Decrypt(lines[j]))}
            new == Collected(rows, s, reply.rows)
            max == IF reply.max > top THEN reply.max ELSE top
            F == Filed(files)
            Mine(w) == {p \in F : p[1] \in w /\ Wanted(Decrypt(LineAt(files, p)))}
<1>1. lines \in Seq(LineType)
  BY DEF FilesType
<1>2. /\ \A p \in F : /\ p = <<p[1], p[2]>> /\ p[1] \in Backends /\ p[2] \in Places(files[p[1]])
                      /\ LineAt(files, p).serial \in Nat
      /\ \A i \in Places(lines) : <<s, i>> \in F /\ LineAt(files, <<s, i>>) = lines[i]
  BY FiledType
<1>3. DOMAIN reply.rows = D /\ \A i \in D : reply.rows[i] = lines[i]
  OBVIOUS
<1>4. DOMAIN rows = Mine(who)
  BY DEF CollectedOf
<1>5. new = [p \in DOMAIN rows \cup ({s} \X D) |->
               IF p \in DOMAIN rows THEN rows[p] ELSE Decrypt(reply.rows[p[2]])]
  BY <1>3 DEF Collected
<1>6. {s} \X D = Mine({s})
  <2>1. ASSUME NEW p \in {s} \X D PROVE p \in Mine({s})
    <3>1. p = <<s, p[2]>> /\ p[2] \in D
      OBVIOUS
    <3>2. p \in F /\ p[1] = s /\ LineAt(files, p) = lines[p[2]]
      BY <1>2, <3>1
    <3>. QED  BY <3>1, <3>2
  <2>2. ASSUME NEW p \in Mine({s}) PROVE p \in {s} \X D
    <3>1. p = <<s, p[2]>> /\ p[2] \in Places(lines)
      BY <1>2
    <3>2. LineAt(files, p) = lines[p[2]]
      BY <3>1 DEF LineAt
    <3>. QED  BY <3>1, <3>2
  <2>. QED  BY <2>1, <2>2
<1>7. Mine(who \cup {s}) = Mine(who) \cup Mine({s})
  OBVIOUS
<1>8. DOMAIN new = Mine(who \cup {s})
  <2>1. DOMAIN new = DOMAIN rows \cup ({s} \X D)
    <3>. HIDE DEF new, D
    <3>. QED  BY <1>5
  <2>. HIDE DEF new, D, Mine
  <2>. QED  BY <1>4, <1>6, <1>7, <2>1
<1>9. ASSUME NEW p \in DOMAIN new PROVE new[p] = Decrypt(LineAt(files, p))
  <2>1. new[p] = IF p \in DOMAIN rows THEN rows[p] ELSE Decrypt(reply.rows[p[2]])
    <3>. HIDE DEF D
    <3>. QED  BY <1>5
  <2>. HIDE DEF new
  <2>2. CASE p \in DOMAIN rows
    BY <2>1, <2>2 DEF CollectedOf
  <2>3. CASE p \notin DOMAIN rows
    <3>1. p \in Mine({s})
      BY <1>4, <1>7, <1>8, <2>3
    <3>2. p \in {s} \X D
      BY <1>6, <3>1
    <3>3. p[2] \in D /\ LineAt(files, p) = lines[p[2]]
      BY <3>2 DEF LineAt
    <3>. QED  BY <1>3, <2>1, <2>3, <3>3
  <2>. QED  BY <2>2, <2>3
<1>10. /\ reply.max \in Nat
       /\ reply.max = 0 \/ \E i \in Places(lines) : lines[i].serial = reply.max
       /\ \A i \in Places(lines) : lines[i].serial <= reply.max
  BY <1>1, MaxSerialIs
<1>11. max \in Nat /\ reply.max <= max /\ top <= max /\ (max = top \/ max = reply.max)
  BY <1>10
<1>. HIDE DEF max
<1>12. ASSUME NEW p \in F, p[1] \in who \cup {s} PROVE LineAt(files, p).serial <= max
  <2>1. CASE p[1] \in who
    <3>1. LineAt(files, p).serial <= top
      BY <2>1 DEF CollectedOf
    <3>. QED  BY <1>2, <1>11, <3>1
  <2>2. CASE p[1] = s
    <3>1. p[2] \in Places(lines) /\ LineAt(files, p) = lines[p[2]]
      BY <1>2, <2>2 DEF LineAt
    <3>2. LineAt(files, p).serial <= reply.max
      BY <1>10, <3>1
    <3>. QED  BY <1>2, <1>10, <1>11, <3>2
  <2>. QED  BY <1>12, <2>1, <2>2
<1>13. max = 0 \/ \E p \in F : LineAt(files, p).serial = max
  <2>1. CASE max = top
    BY <2>1 DEF CollectedOf
  <2>2. CASE max = reply.max
    BY <1>2, <1>10, <2>2
  <2>. QED  BY <1>11, <2>1, <2>2
<1>14. CollectedOf(files, who \cup {s}, new, max)
  <2>. HIDE DEF new, D
  <2>. QED  BY <1>8, <1>9, <1>12, <1>13 DEF CollectedOf
<1>. QED  BY <1>14 DEF max, new

(* When all have answered the highest serial is the number of rows.         *)
LEMMA TopIs ==
  ASSUME NEW files, FilesType(files), Numbered(files), NEW rows, NEW top \in Nat,
         CollectedOf(files, Backends, rows, top)
  PROVE  top = Cardinality(Filed(files))
<1>. DEFINE n == Cardinality(Filed(files))
            S == {LineAt(files, p).serial : p \in Filed(files)}
<1>1. n \in Nat /\ \A p \in Filed(files) : p[1] \in Backends /\ LineAt(files, p).serial \in Nat
  BY FiledType
<1>2. S = 1 .. n
  BY DEF Numbered
<1>3. \A x \in S : x <= top
  BY <1>1 DEF CollectedOf
<1>4. top = 0 \/ top \in S
  BY DEF CollectedOf
<1>. HIDE DEF n, S
<1>5. n = 0 \/ n \in S
  BY <1>1, <1>2
<1>6. n <= top
  BY <1>3, <1>5
<1>7. top <= n
  BY <1>1, <1>2, <1>4
<1>. QED  BY <1>1, <1>6, <1>7 DEF n

-----------------------------------------------------------------------------
(* What a step of a backend does to the mail and to the files.              *)

LEMMA MailTypes ==
  ASSUME Types
  PROVE  /\ inbox \in [Backends -> Seq(Message)] /\ mbox \in Seq(Replies)
         /\ FilesType(blockfile) /\ FileType
         /\ g_txns \in [Backends -> Seq(LineType)] /\ blockfile \in [Backends -> Seq(LineType)]
BY DEF Types, MailType, FileType, FilesType

LEMMA NothingToAnswer ==
  ASSUME NoMail, NEW s \in Backends PROVE ~BackendAnswers(s)
BY DEF NoMail, BackendAnswers, TakeRequest

LEMMA IdleRestart ==
  ASSUME Types, NoMail, g_txns = blockfile, BackendRestarts
  PROVE  /\ UNCHANGED <<g_txns, blockfile, pc, mbox, req, asked, txns, max_serial, answer, txchain>>
         /\ NoMail'
<1>1. PICK s \in Backends : RestartBackend(s)
  BY DEF BackendRestarts
<1>2. inbox[s] = <<>>
  BY DEF NoMail
<1>3. /\ blockfile' = [blockfile EXCEPT ![s] = blockfile[s]]
      /\ g_txns' = [g_txns EXCEPT ![s] = blockfile[s]]
      /\ inbox' = [inbox EXCEPT ![s] = <<>>]
  BY <1>1, <1>2 DEF RestartBackend
<1>4. blockfile' = blockfile /\ g_txns' = g_txns
  BY <1>3, MailTypes
<1>5. NoMail'
  BY <1>3, MailTypes DEF NoMail
<1>. QED  BY <1>4, <1>5 DEF BackendRestarts

(* With one datagram on its way, msg to s.                                  *)
LEMMA OneAnswer ==
  ASSUME ~WritesFail, Types, NEW s \in Backends, NEW STATE msg, OnlyTo(s, msg), NEW w \in Backends,
         BackendAnswers(w), pc # "down"
  PROVE  /\ NoMail' /\ mbox' = Append(mbox, ReplyTo(s, msg))
         /\ g_txns' = [g_txns EXCEPT ![s] = Added(@, msg)]
         /\ blockfile' = [blockfile EXCEPT ![s] = Added(@, msg)]
         /\ UNCHANGED <<pc, req, asked, txns, max_serial, answer, txchain>>
<1>1. inbox[w] # <<>>
  BY DEF BackendAnswers, TakeRequest
<1>2. w = s /\ inbox[s] = <<msg>>
  BY <1>1 DEF OnlyTo
<1>3. Head(inbox[s]) = msg /\ Tail(inbox[s]) = <<>>
  BY <1>2
<1>4. inbox' = [inbox EXCEPT ![s] = <<>>]
  BY <1>2, <1>3 DEF BackendAnswers, TakeRequest
<1>5. NoMail'
  BY <1>4, MailTypes DEF NoMail, OnlyTo
<1>6. UNCHANGED <<pc, req, asked, txns, max_serial, answer, txchain>>
  BY DEF BackendAnswers
<1>7. mbox' = Append(mbox, ReplyTo(s, msg))
  BY <1>2, <1>3 DEF BackendAnswers
<1>8. /\ g_txns' = [g_txns EXCEPT ![s] = Added(@, msg)]
      /\ blockfile' = [blockfile EXCEPT ![s] = Added(@, msg)]
  <2>1. Persisted(blockfile[s], msg) = {Added(blockfile[s], msg)}
    BY DEF Persisted
  <2>. QED  BY <1>2, <1>3, <2>1 DEF BackendAnswers, TakeRequest
<1>. QED  BY <1>5, <1>6, <1>7, <1>8

LEMMA OneRestart ==
  ASSUME Types, NEW s \in Backends, NEW STATE msg, OnlyTo(s, msg), g_txns = blockfile, BackendRestarts
  PROVE  /\ UNCHANGED <<pc, mbox, req, asked, txns, max_serial, answer, txchain>>
         /\ \/ UNCHANGED <<g_txns, blockfile, inbox>>
            \/ NoMail' /\ UNCHANGED <<g_txns, blockfile>>
            \/ /\ NoMail'
               /\ g_txns' = [g_txns EXCEPT ![s] = Added(@, msg)]
               /\ blockfile' = [blockfile EXCEPT ![s] = Added(@, msg)]
<1>1. PICK w \in Backends : RestartBackend(w)
  BY DEF BackendRestarts
<1>2. UNCHANGED <<pc, mbox, req, asked, txns, max_serial, answer, txchain>>
  BY DEF BackendRestarts
<1>3. CASE w # s
  <2>1. inbox[w] = <<>>
    BY <1>3 DEF OnlyTo
  <2>2. /\ blockfile' = [blockfile EXCEPT ![w] = blockfile[w]]
        /\ g_txns' = [g_txns EXCEPT ![w] = blockfile[w]]
        /\ inbox' = [inbox EXCEPT ![w] = inbox[w]]
    BY <1>1, <2>1 DEF RestartBackend
  <2>3. UNCHANGED <<g_txns, blockfile, inbox>>
    BY <2>2, MailTypes
  <2>. QED  BY <1>2, <2>3
<1>4. CASE w = s
  <2>1. inbox[s] = <<msg>> /\ inbox[s] # <<>> /\ Head(inbox[s]) = msg
    BY DEF OnlyTo
  <2>2. PICK lines \in {blockfile[s], Added(blockfile[s], msg)} :
          /\ blockfile' = [blockfile EXCEPT ![s] = lines]
          /\ g_txns' = [g_txns EXCEPT ![s] = lines]
          /\ inbox' = [inbox EXCEPT ![s] = <<>>]
    BY <1>1, <1>4, <2>1 DEF RestartBackend
  <2>3. NoMail'
    BY <2>2, MailTypes DEF NoMail, OnlyTo
  <2>4. CASE lines = blockfile[s]
    <3>1. UNCHANGED <<g_txns, blockfile>>
      BY <2>2, <2>4, MailTypes
    <3>. QED  BY <1>2, <2>3, <3>1
  <2>5. CASE lines = Added(blockfile[s], msg)
    BY <1>2, <2>2, <2>3, <2>5, MailTypes
  <2>. QED  BY <2>2, <2>4, <2>5
<1>. QED  BY <1>3, <1>4

(* A question leaves the files alone; a NEW is a row more.                  *)
LEMMA AddedIs ==
  ASSUME FilesType(blockfile), g_txns = blockfile, NEW s \in Backends, NEW STATE msg,
         g_txns' = [g_txns EXCEPT ![s] = Added(@, msg)],
         blockfile' = [blockfile EXCEPT ![s] = Added(@, msg)]
  PROVE  /\ msg.op # "NEW" => UNCHANGED <<g_txns, blockfile>>
         /\ g_txns' = blockfile'
         /\ msg.op = "NEW" => blockfile' = WithRow(blockfile, s, msg.row)
BY DEF FilesType, Added, WithRow

-----------------------------------------------------------------------------
(* The flow of requests and answers, when Server-M stops only between two   *)
(* requests.                                                                *)

LEMMA OrderDistinct ==
  /\ \A i \in 0 .. 2 : Order[i + 1] \notin {Order[j] : j \in 1 .. i}
  /\ \A i \in 0 .. 2 : {Order[j] : j \in 1 .. i + 1} = {Order[j] : j \in 1 .. i} \cup {Order[i + 1]}
  /\ {Order[j] : j \in 1 .. 3} = Backends
  /\ {Order[j] : j \in 1 .. 0} = {}
<1>1. Order[1] = A /\ Order[2] = B /\ Order[3] = C
  BY DEF Order
<1>2. A # B /\ B # C /\ A # C /\ Backends = {A, B, C}
  BY MainServerAssumption
<1>3. \A i \in 0 .. 2 : i = 0 \/ i = 1 \/ i = 2
  OBVIOUS
<1>4. /\ {Order[j] : j \in 1 .. 0} = {} /\ {Order[j] : j \in 1 .. 1} = {A}
      /\ {Order[j] : j \in 1 .. 2} = {A, B} /\ {Order[j] : j \in 1 .. 3} = {A, B, C}
  <2>1. 1 .. 0 = {} /\ 1 .. 1 = {1} /\ 1 .. 2 = {1, 2} /\ 1 .. 3 = {1, 2, 3}
    OBVIOUS
  <2>. QED  BY <1>1, <2>1
<1>. QED  BY <1>1, <1>2, <1>3, <1>4

(* Nothing is collected at first.                                           *)
LEMMA NothingCollected ==
  ASSUME NEW files, FilesType(files)
  PROVE  CollectedOf(files, {}, <<>>, 0)
BY DEF CollectedOf

LEMMA InitService == Init => Service
<1>. SUFFICES ASSUME Init PROVE Service
  OBVIOUS
<1>1. Types
  BY InitTypes
<1>2. Numbered(InitialBlocks)
  BY BlocksAssumption DEF Numbered, LineAt
<1>. QED  BY <1>1, <1>2 DEF Init, Service, Quiet, Waiting, Confirming, Collecting, Answered, NoMail

(* A step that leaves all of it alone.                                      *)
LEMMA SameService ==
  ASSUME Service, Types',
         UNCHANGED <<g_txns, blockfile, inbox, pc, mbox, req, asked, txns, max_serial, answer>>
  PROVE  Service'
<1>1. Numbered(blockfile)' /\ (g_txns = blockfile)'
  BY DEF Service
<1>2. Quiet' /\ Answered' /\ Collecting'
  BY DEF Service, Quiet, Answered, Collecting, NoMail, CollectedOf, Wanted, Asked
<1>3. Waiting'
  BY DEF Service, Waiting, NoMail, OnlyTo, Question, ReplyTo
<1>4. Confirming'
  <2>1. Refusal' = Refusal
    BY DEF Refusal
  <2>2. NewRow' = NewRow /\ NewMsg' = NewMsg
    BY DEF NewRow, NewMsg
  <2>3. \A old : CollectedOf(old, Backends, txns, max_serial)' <=>
                   CollectedOf(old, Backends, txns, max_serial)
    BY DEF CollectedOf, Wanted
  <2>4. \A old : Paid(old)' <=> Paid(old)
    BY <2>1, <2>2, <2>3 DEF Paid, Paying
  <2>5. Paying(blockfile)' <=> Paying(blockfile)
    BY <2>1 DEF Paying, CollectedOf, Wanted
  <2>6. (NoMail' <=> NoMail) /\ \A s \in Backends : OnlyTo(s, NewMsg)' <=> OnlyTo(s, NewMsg)
    BY <2>2 DEF NoMail, OnlyTo
  <2>. QED  BY <2>4, <2>5, <2>6 DEF Service, Confirming
<1>. QED  BY <1>1, <1>2, <1>3, <1>4 DEF Service

LEMMA ConnectSteps ==
  ASSUME ~StopsAnytime, Service,
         ClientConnects \/ MonitorConnects \/ Select \/ HandleClient \/ HandleMonitor
           \/ MainStops \/ MainStarts,
         Types'
  PROVE  Service' /\ UNCHANGED blockfile
<1>1. UNCHANGED <<g_txns, blockfile, inbox>>
  BY DEF ClientConnects, MonitorConnects, Select, HandleClient, HandleMonitor, MainStops, MainStarts,
         backendVars
<1>2. Numbered(blockfile)' /\ (g_txns = blockfile)'
  BY <1>1 DEF Service
<1>3. CASE ClientConnects \/ MonitorConnects
  <2>1. UNCHANGED <<pc, mbox, req, asked, txns, max_serial, answer>>
    BY <1>3 DEF ClientConnects, MonitorConnects
  <2>. QED  BY <1>1, <2>1, SameService
<1>4. CASE Select \/ HandleClient \/ HandleMonitor \/ MainStops \/ MainStarts
  <2>1. pc \in {"select", "client", "monitor", "down"}
    BY <1>4 DEF Select, HandleClient, HandleMonitor, MainStops, MainStarts
  <2>2. NoMail /\ mbox = <<>> /\ (pc = "down" => answer = NoAnswer)
    BY <2>1 DEF Service, Quiet, Answered
  <2>3. NoMail' /\ mbox' = <<>>
    BY <1>1, <1>4, <2>2 DEF Select, HandleClient, HandleMonitor, MainStops, MainStarts, NoMail
  <2>4. /\ pc' \in {"select", "client", "monitor", "ask", "down"}
        /\ pc' = "ask" => asked' = 0 /\ txns' = <<>> /\ max_serial' = 0 /\ answer' = NoAnswer
        /\ answer' = answer \/ answer' = NoAnswer
        /\ pc' = "down" => answer' = NoAnswer
    BY <1>4 DEF Select, HandleClient, HandleMonitor, MainStops, MainStarts, Take
  <2>6. Answered'
    <3>1. answer' = NoAnswer \/ pc' \in {"select", "client", "monitor"}
      BY <2>2, <2>4
    <3>. QED  BY <3>1 DEF Answered
  <2>7. Collecting'
    <3>1. CollectedOf(blockfile, {}, <<>>, 0)'
      <4>1. FilesType(blockfile)'
        BY MailTypes, <1>1 DEF Service
      <4>. QED  BY <4>1 DEF CollectedOf
    <3>2. pc' \in {"ask", "wait", "compute"} => Asked' = {} /\ txns' = <<>> /\ max_serial' = 0
      BY <2>4, OrderDistinct DEF Asked
    <3>. QED  BY <3>1, <3>2 DEF Collecting
  <2>8. Quiet' /\ Waiting' /\ Confirming'
    BY <2>3, <2>4 DEF Quiet, Waiting, Confirming
  <2>. QED  BY <1>1, <1>2, <2>6, <2>7, <2>8 DEF Service
<1>. QED  BY <1>1, <1>3, <1>4

LEMMA AskStep == ASSUME Service, Ask, Types' PROVE Service' /\ UNCHANGED blockfile
<1>1. /\ inbox' = [inbox EXCEPT ![Order[asked + 1]] = Append(@, Question)]
      /\ pc = "ask" /\ pc' = "wait"
      /\ UNCHANGED <<g_txns, blockfile, mbox, req, asked, txns, max_serial, answer>>
  BY DEF Ask
<1>2. NoMail /\ mbox = <<>> /\ answer = NoAnswer
  BY <1>1 DEF Service, Quiet, Answered
<1>3. Order[asked + 1] \in Backends
  BY <1>1, OrderIs DEF Service, Types, PhaseType
<1>4. Question' = Question
  BY <1>1 DEF Question
<1>5. OnlyTo(Order[asked + 1], Question)'
  <2>1. \A w \in Backends : inbox'[w] = IF w = Order[asked + 1] THEN <<Question>> ELSE <<>>
    <3>1. Append(<<>>, Question) = <<Question>>
      OBVIOUS
    <3>. QED  BY <1>1, <1>2, <1>3, <3>1, MailTypes DEF NoMail, Service
  <2>. QED  BY <1>1, <1>4, <2>1 DEF OnlyTo
<1>6. Collecting'
  BY <1>1 DEF Service, Collecting, CollectedOf, Wanted, Asked
<1>. QED  BY <1>1, <1>2, <1>5, <1>6 DEF Service, Quiet, Waiting, Confirming, Answered

LEMMA ReceiveStep == ASSUME Service, Receive, Types' PROVE Service' /\ UNCHANGED blockfile
<1>1. /\ pc = "wait" /\ mbox # <<>> /\ mbox' = Tail(mbox)
      /\ max_serial' = IF Head(mbox).max > max_serial THEN Head(mbox).max ELSE max_serial
      /\ txns' = Collected(txns, Order[asked + 1], Head(mbox).rows)
      /\ asked' = asked + 1 /\ pc' \in {"ask", "compute"}
      /\ UNCHANGED <<g_txns, blockfile, inbox, req, answer>>
  BY DEF Receive, backendVars
<1>. DEFINE s == Order[asked + 1]
            reply == ReplyTo(s, Question)
<1>2. NoMail /\ mbox = <<reply>> /\ answer = NoAnswer
  BY <1>1 DEF Service, Waiting, Answered
<1>3. Head(mbox) = reply /\ Tail(mbox) = <<>>
  BY <1>2
<1>4. asked \in 0 .. 2 /\ s \in Backends
  BY <1>1, OrderIs DEF Service, Types, PhaseType
<1>5. Known(req) /\ max_serial \in Nat
  BY <1>1 DEF Service, Types, ReqType, TxnsType
<1>6. /\ reply.max = MaxSerial(blockfile[s])
      /\ reply.rows = [i \in {j \in Places(blockfile[s]) : Wanted(Decrypt(blockfile[s][j]))} |->
                         blockfile[s][i]]
  BY <1>4, <1>5, MailTypes, ReplyIs DEF Service
<1>7. CollectedOf(blockfile, Asked, txns, max_serial)
  BY <1>1 DEF Service, Collecting
<1>8. s \notin Asked /\ Asked \in SUBSET Backends /\ Asked' = Asked \cup {s}
  <2>1. s \notin Asked
    BY <1>4, OrderDistinct DEF Asked
  <2>2. Asked \in SUBSET Backends
    BY <1>4, OrderIs DEF Asked
  <2>. QED  BY <1>1, <1>4, <2>1, <2>2, OrderDistinct DEF Asked
<1>. HIDE DEF s, reply
<1>9. CollectedOf(blockfile, Asked \cup {s}, Collected(txns, s, reply.rows),
                  IF reply.max > max_serial THEN reply.max ELSE max_serial)
  BY <1>4, <1>5, <1>6, <1>7, <1>8, CollectMore, MailTypes DEF Service
<1>10. CollectedOf(blockfile, Asked \cup {s}, txns', max_serial')
  BY <1>1, <1>3, <1>9 DEF s
<1>11. CollectedOf(blockfile, Asked, txns, max_serial)'
  BY <1>1, <1>8, <1>10 DEF CollectedOf, Wanted
<1>12. NoMail' /\ mbox' = <<>>
  BY <1>1, <1>2, <1>3 DEF NoMail
<1>. QED  BY <1>1, <1>2, <1>11, <1>12
          DEF Service, Quiet, Waiting, Confirming, Collecting, Answered

LEMMA AnswerSteps ==
  ASSUME Service, CheckWallet \/ TxCoinsRefused \/ TxCoinsDone \/ TxList, Types'
  PROVE  Service' /\ UNCHANGED blockfile
<1>1. UNCHANGED <<g_txns, blockfile, inbox>> /\ pc' \in {"monitor", "select"}
  BY DEF CheckWallet, TxCoinsRefused, TxCoinsDone, TxList, backendVars
<1>2. NoMail /\ mbox' = <<>>
  <2>1. CASE CheckWallet \/ TxCoinsRefused \/ TxList
    <3>1. pc = "compute" /\ mbox' = mbox
      BY <2>1 DEF CheckWallet, TxCoinsRefused, TxList
    <3>. QED  BY <3>1 DEF Service, Quiet
  <2>2. CASE TxCoinsDone
    <3>1. pc = "confirm" /\ mbox # <<>> /\ mbox' = Tail(mbox)
      BY <2>2 DEF TxCoinsDone
    <3>2. NoMail /\ mbox = <<OKReply>>
      BY <3>1 DEF Service, Confirming
    <3>. QED  BY <3>1, <3>2
  <2>. QED  BY <2>1, <2>2
<1>3. NoMail'
  BY <1>1, <1>2 DEF NoMail
<1>. QED  BY <1>1, <1>2, <1>3 DEF Service, Quiet, Waiting, Confirming, Collecting, Answered

LEMMA RecordStep == ASSUME Service, TxCoinsRecord, Types' PROVE Service' /\ UNCHANGED blockfile
<1>1. PICK pick \in Backends : inbox' = [inbox EXCEPT ![pick] = Append(@, NewMsg)]
  BY DEF TxCoinsRecord, NewRow, NewMsg
<1>2. /\ pc = "compute" /\ req.op = "TXCOINS" /\ pc' = "confirm" /\ Refusal = "none"
      /\ UNCHANGED <<g_txns, blockfile, mbox, req, asked, txns, max_serial, answer>>
  BY DEF TxCoinsRecord
<1>3. NoMail /\ mbox = <<>> /\ answer = NoAnswer
  BY <1>2 DEF Service, Quiet, Answered
<1>4. NewMsg' = NewMsg
  BY <1>2 DEF NewMsg, NewRow
<1>5. OnlyTo(pick, NewMsg)'
  <2>. DEFINE m == NewMsg
  <2>1. Append(<<>>, m) = <<m>>
    OBVIOUS
  <2>. HIDE DEF m
  <2>2. \A w \in Backends : inbox'[w] = IF w = pick THEN <<m>> ELSE <<>>
    BY <1>1, <1>3, <2>1, MailTypes DEF NoMail, Service, m
  <2>. QED  BY <1>4, <2>2 DEF OnlyTo, m
<1>6. CollectedOf(blockfile, Backends, txns, max_serial)
  BY <1>2, OrderDistinct DEF Service, Collecting, Asked, Types, PhaseType
<1>7. Paying(blockfile)
  BY <1>2, <1>6, MailTypes DEF Service, Paying
<1>8. Paying(blockfile)'
  <2>1. Refusal' = Refusal
    BY <1>2 DEF Refusal
  <2>. QED  BY <1>2, <1>7, <2>1 DEF Paying, CollectedOf, Wanted
<1>9. Confirming'
  BY <1>2, <1>3, <1>5, <1>8 DEF Confirming
<1>. QED  BY <1>2, <1>3, <1>9 DEF Service, Quiet, Waiting, Collecting, Answered

-----------------------------------------------------------------------------
(* The steps of the backends.  Only the row of the payment in hand is ever  *)
(* added to a file.                                                         *)

(* The payment in hand, feasible by the files as they are, is recorded.     *)
Records == Paying(blockfile) /\ \E s \in Backends : blockfile' = WithRow(blockfile, s, NewRow)

LEMMA PayingRow ==
  ASSUME Types, pc = "confirm", Paying(blockfile)
  PROVE  /\ NewRow \in Row /\ NewRow.serial = Cardinality(Filed(blockfile)) + 1
         /\ req \in Requests /\ req.op = "TXCOINS"
<1>1. req \in Requests /\ req.op = "TXCOINS" /\ max_serial \in Nat
  BY DEF Types, ReqType, TxnsType
<1>2. NewRow \in Row
  BY <1>1, NewRowType
<1>3. max_serial = Cardinality(Filed(blockfile))
  BY <1>1, TopIs DEF Paying
<1>. QED  BY <1>1, <1>2, <1>3 DEF NewRow

LEMMA BackendSteps ==
  ASSUME ~WritesFail, Service, (\E s \in Backends : BackendAnswers(s)) \/ BackendRestarts, Types'
  PROVE  Service' /\ (UNCHANGED blockfile \/ (pc = "confirm" /\ Records))
<1>0. UNCHANGED <<pc, req, asked, txns, max_serial, answer>>
  BY DEF BackendAnswers, BackendRestarts
<1>1. Types /\ FilesType(blockfile) /\ g_txns = blockfile /\ Numbered(blockfile)
  BY MailTypes DEF Service
<1>2. Answered'
  BY <1>0 DEF Service, Answered
<1>3. Refusal' = Refusal /\ NewRow' = NewRow /\ NewMsg' = NewMsg /\ Question' = Question
  BY <1>0 DEF Refusal, NewRow, NewMsg, Question
<1>4. ASSUME UNCHANGED <<g_txns, blockfile>>
      PROVE  /\ Collecting' /\ Numbered(blockfile)' /\ (g_txns = blockfile)'
             /\ Paying(blockfile)' <=> Paying(blockfile)
  BY <1>0, <1>1, <1>3, <1>4 DEF Service, Collecting, CollectedOf, Wanted, Asked, Paying
<1>5. \A old : Paying(old)' <=> Paying(old)
  <2>1. \A old : CollectedOf(old, Backends, txns, max_serial)' <=>
                   CollectedOf(old, Backends, txns, max_serial)
    BY <1>0 DEF CollectedOf, Wanted
  <2>. QED  BY <1>3, <2>1 DEF Paying
(* With no mail a restart changes nothing.                                  *)
<1>6. CASE NoMail
  <2>1. BackendRestarts
    BY <1>6, NothingToAnswer
  <2>2. UNCHANGED <<g_txns, blockfile, mbox>> /\ NoMail'
    BY <1>1, <1>6, <2>1, IdleRestart
  <2>3. Quiet'
    BY <1>0, <2>2 DEF Service, Quiet
  <2>4. Waiting'
    <3>1. \A s : ~(NoMail /\ OnlyTo(s, Question)) \/ s \notin Backends
      BY DEF NoMail, OnlyTo
    <3>2. ASSUME pc = "wait"
          PROVE  mbox = <<>> \/ mbox = <<ReplyTo(Order[asked + 1], Question)>>
      BY <3>2 DEF Service, Waiting
    <3>3. ReplyTo(Order[asked + 1], Question)' = ReplyTo(Order[asked + 1], Question)
      BY <1>0, <1>3, <2>2 DEF ReplyTo
    <3>. QED  BY <1>0, <2>2, <3>2, <3>3 DEF Waiting
  <2>5. Confirming'
    <3>1. ASSUME pc = "confirm"
          PROVE  mbox = <<>> \/ (mbox = <<OKReply>> /\ \E old : Paid(old))
      BY <3>1 DEF Service, Confirming
    <3>2. \A old : Paid(old)' <=> Paid(old)
      BY <1>3, <1>5, <2>2 DEF Paid
    <3>. QED  BY <1>0, <2>2, <3>1, <3>2 DEF Confirming
  <2>. QED  BY <1>2, <1>4, <2>2, <2>3, <2>4, <2>5 DEF Service
(* A question is on its way.                                                *)
<1>7. CASE ~NoMail /\ pc = "wait"
  <2>. DEFINE s == Order[asked + 1]
  <2>1. OnlyTo(s, Question) /\ mbox = <<>>
    BY <1>7 DEF Service, Waiting
  <2>2. s \in Backends
    BY <1>7, OrderIs DEF Service, Types, PhaseType
  <2>3. Question.op # "NEW"
    BY <1>7, QuestionOp DEF Service, Types, ReqType
  <2>. HIDE DEF s
  <2>4. CASE \E w \in Backends : BackendAnswers(w)
    <3>1. PICK w \in Backends : BackendAnswers(w)
      BY <2>4
    <3>2. /\ NoMail' /\ mbox' = Append(mbox, ReplyTo(s, Question))
          /\ g_txns' = [g_txns EXCEPT ![s] = Added(@, Question)]
          /\ blockfile' = [blockfile EXCEPT ![s] = Added(@, Question)]
      BY <1>1, <1>7, <2>1, <2>2, <3>1, OneAnswer
    <3>3. UNCHANGED <<g_txns, blockfile>>
      BY <1>1, <2>2, <2>3, <3>2, AddedIs
    <3>4. mbox' = <<ReplyTo(s, Question)>>
      BY <2>1, <3>2
    <3>5. ReplyTo(Order[asked + 1], Question)' = ReplyTo(s, Question)
      BY <1>0, <1>3, <3>3 DEF ReplyTo, s
    <3>6. Waiting' /\ Quiet' /\ Confirming'
      BY <1>0, <1>7, <3>2, <3>4, <3>5 DEF Waiting, Quiet, Confirming
    <3>. QED  BY <1>2, <1>4, <3>3, <3>6 DEF Service
  <2>5. CASE BackendRestarts
    <3>1. /\ mbox' = mbox
          /\ \/ UNCHANGED <<g_txns, blockfile, inbox>>
             \/ NoMail' /\ UNCHANGED <<g_txns, blockfile>>
             \/ /\ NoMail'
                /\ g_txns' = [g_txns EXCEPT ![s] = Added(@, Question)]
                /\ blockfile' = [blockfile EXCEPT ![s] = Added(@, Question)]
      BY <1>1, <2>1, <2>2, <2>5, OneRestart
    <3>2. UNCHANGED <<g_txns, blockfile>> /\ (NoMail' \/ inbox' = inbox)
      BY <1>1, <2>2, <2>3, <3>1, AddedIs
    <3>3. NoMail' \/ OnlyTo(Order[asked + 1], Question)'
      BY <1>0, <1>3, <2>1, <3>2 DEF OnlyTo, s
    <3>4. Waiting' /\ Quiet' /\ Confirming'
      BY <1>0, <1>7, <2>1, <3>1, <3>3 DEF Waiting, Quiet, Confirming
    <3>. QED  BY <1>2, <1>4, <3>2, <3>4 DEF Service
  <2>. QED  BY <2>4, <2>5
(* A NEW is on its way.                                                     *)
<1>8. CASE ~NoMail /\ pc = "confirm"
  <2>1. PICK s \in Backends : OnlyTo(s, NewMsg)
    BY <1>8 DEF Service, Confirming
  <2>2. mbox = <<>> /\ Paying(blockfile)
    BY <1>8 DEF Service, Confirming
  <2>3. NewRow \in Row /\ NewRow.serial = Cardinality(Filed(blockfile)) + 1
    BY <1>1, <1>8, <2>2, PayingRow
  <2>4. NewMsg.op = "NEW" /\ NewMsg.row = NewRow
    BY DEF NewMsg
  <2>5. Collecting' /\ Quiet' /\ Waiting'
    BY <1>0, <1>8 DEF Collecting, Quiet, Waiting
  <2>6. ASSUME g_txns' = [g_txns EXCEPT ![s] = Added(@, NewMsg)],
               blockfile' = [blockfile EXCEPT ![s] = Added(@, NewMsg)]
        PROVE  /\ blockfile' = WithRow(blockfile, s, NewRow) /\ Records
               /\ (g_txns = blockfile)' /\ Numbered(blockfile)' /\ (\E old : Paid(old))'
    <3>1. blockfile' = WithRow(blockfile, s, NewRow) /\ g_txns' = blockfile'
      BY <1>1, <2>4, <2>6, AddedIs
    <3>2. Numbered(WithRow(blockfile, s, NewRow))
      BY <1>1, <2>3, NumberedGrows
    <3>3. Numbered(blockfile)'
      BY <3>1, <3>2 DEF Numbered
    <3>4. PICK old : old = blockfile
      OBVIOUS
    <3>5. Paying(old) /\ blockfile' = WithRow(old, s, NewRow')
      BY <1>3, <2>2, <3>1, <3>4
    <3>6. Paid(old)'
      BY <1>5, <3>5 DEF Paid
    <3>. QED  BY <2>2, <3>1, <3>3, <3>6 DEF Records
  <2>7. CASE \E w \in Backends : BackendAnswers(w)
    <3>1. PICK w \in Backends : BackendAnswers(w)
      BY <2>7
    <3>2. /\ NoMail' /\ mbox' = Append(mbox, ReplyTo(s, NewMsg))
          /\ g_txns' = [g_txns EXCEPT ![s] = Added(@, NewMsg)]
          /\ blockfile' = [blockfile EXCEPT ![s] = Added(@, NewMsg)]
      BY <1>1, <1>8, <2>1, <3>1, OneAnswer
    <3>3. ReplyTo(s, NewMsg) = OKReply
      BY <2>4 DEF ReplyTo
    <3>4. mbox' = <<OKReply>>
      BY <2>2, <3>2, <3>3
    <3>5. Confirming'
      BY <2>6, <3>2, <3>4 DEF Confirming
    <3>. QED  BY <1>2, <1>8, <2>5, <2>6, <3>2, <3>5 DEF Service
  <2>8. CASE BackendRestarts
    <3>1. /\ mbox' = mbox
          /\ \/ UNCHANGED <<g_txns, blockfile, inbox>>
             \/ NoMail' /\ UNCHANGED <<g_txns, blockfile>>
             \/ /\ NoMail'
                /\ g_txns' = [g_txns EXCEPT ![s] = Added(@, NewMsg)]
                /\ blockfile' = [blockfile EXCEPT ![s] = Added(@, NewMsg)]
      BY <1>1, <2>1, <2>8, OneRestart
    <3>2. CASE UNCHANGED <<g_txns, blockfile, inbox>>
      <4>1. OnlyTo(s, NewMsg)'
        BY <1>3, <2>1, <3>2 DEF OnlyTo
      <4>2. Confirming'
        BY <1>4, <2>2, <3>1, <3>2, <4>1 DEF Confirming
      <4>. QED  BY <1>2, <1>4, <2>5, <3>2, <4>2 DEF Service
    <3>3. CASE NoMail' /\ UNCHANGED <<g_txns, blockfile>>
      <4>1. Confirming'
        BY <2>2, <3>1, <3>3 DEF Confirming
      <4>. QED  BY <1>2, <1>4, <2>5, <3>3, <4>1 DEF Service
    <3>4. CASE /\ NoMail'
               /\ g_txns' = [g_txns EXCEPT ![s] = Added(@, NewMsg)]
               /\ blockfile' = [blockfile EXCEPT ![s] = Added(@, NewMsg)]
      <4>1. Confirming'
        BY <2>2, <3>1, <3>4 DEF Confirming
      <4>. QED  BY <1>2, <1>8, <2>5, <2>6, <3>4, <4>1 DEF Service
    <3>. QED  BY <3>1, <3>2, <3>3, <3>4
  <2>. QED  BY <2>7, <2>8
<1>9. ~NoMail => pc \in {"wait", "confirm"}
  BY DEF Service, Quiet
<1>. QED  BY <1>6, <1>7, <1>8, <1>9

LEMMA StepService ==
  ASSUME ~StopsAnytime, ~WritesFail, Service, [Next]_vars
  PROVE  Service' /\ (UNCHANGED blockfile \/ (pc = "confirm" /\ Records))
<1>1. Types'
  BY StepTypes DEF Service
<1>2. CASE UNCHANGED vars
  <2>1. UNCHANGED <<g_txns, blockfile, inbox, pc, mbox, req, asked, txns, max_serial, answer>>
    BY <1>2 DEF vars, backendVars, mainVars
  <2>. QED  BY <1>1, <2>1, SameService
<1>3. CASE ClientConnects \/ MonitorConnects \/ Select \/ HandleClient \/ HandleMonitor
           \/ MainStops \/ MainStarts
  BY <1>1, <1>3, ConnectSteps
<1>4. CASE CheckWallet \/ TxCoinsRefused \/ TxCoinsDone \/ TxList
  BY <1>1, <1>4, AnswerSteps
<1>5. CASE (\E s \in Backends : BackendAnswers(s)) \/ BackendRestarts
  BY <1>1, <1>5, BackendSteps
<1>6. CASE Ask \/ Receive \/ TxCoinsRecord
  BY <1>1, <1>6, AskStep, ReceiveStep, RecordStep
<1>. QED  BY <1>2, <1>3, <1>4, <1>5, <1>6 DEF Next, Main

LEMMA AlwaysService == ASSUME ~StopsAnytime, ~WritesFail PROVE Spec => []Service
<1>1. Service /\ [Next]_vars => Service'
  BY StepService
<1>. QED  BY <1>1, InitService, PTL DEF Spec

-----------------------------------------------------------------------------
(* The monitor's list.                                                      *)

LEMMA RefusalKinds ==
  Refusal \in {"MISSINGBOTH", "MISSINGSENDER", "MISSINGRECEIVER", "INSUFFICIENT", "none"}
BY DEF Refusal

(* An answer stands until the next request, and nothing is recorded then.   *)
LEMMA AnswerStands ==
  ASSUME ~StopsAnytime, ~WritesFail, Service, [Next]_vars, answer' # NoAnswer
  PROVE  \/ CheckWallet \/ TxCoinsRefused \/ TxCoinsDone \/ TxList
         \/ UNCHANGED <<answer, blockfile, txchain, req>>
<1>1. SUFFICES ASSUME ~(CheckWallet \/ TxCoinsRefused \/ TxCoinsDone \/ TxList)
               PROVE  UNCHANGED <<answer, blockfile, txchain, req>>
  OBVIOUS
<1>2. UNCHANGED <<answer, txchain, req>> \/ answer' = NoAnswer
  BY <1>1 DEF Next, Main, ClientConnects, MonitorConnects, Select, HandleClient, HandleMonitor, Ask,
              Receive, TxCoinsRecord, BackendAnswers, BackendRestarts, MainStops, MainStarts, Take,
              vars, mainVars
<1>3. UNCHANGED <<answer, txchain, req>>
  BY <1>2
<1>4. pc # "confirm"
  BY <1>3 DEF Service, Answered
<1>. QED  BY <1>3, <1>4, StepService

LEMMA ListIs ==
  ASSUME Service, TxList
  PROVE  ListComplete'
<1>1. pc = "compute" /\ req.op = "TXLIST" /\ blockfile' = blockfile
  BY DEF TxList, backendVars
<1>2. PICK order \in Orders(txns) :
        Sorted(txns, order) /\ txchain' = [i \in DOMAIN order |-> txns[order[i]]]
  BY DEF TxList
<1>. DEFINE F == Filed(blockfile)
            n == Cardinality(F)
<1>3. FilesType(blockfile) /\ Numbered(blockfile) /\ IsFiniteSet(F) /\ n \in Nat
  BY MailTypes, FiledType DEF Service
<1>4. CollectedOf(blockfile, Backends, txns, max_serial)
  BY <1>1, OrderDistinct DEF Service, Collecting, Asked, Types, PhaseType
<1>5. DOMAIN txns = F /\ \A p \in F : txns[p] = Decrypt(LineAt(blockfile, p))
  <2>1. \A p \in F : p[1] \in Backends /\ Wanted(Decrypt(LineAt(blockfile, p)))
    BY <1>1, <1>3, FiledType DEF Wanted
  <2>. QED  BY <1>4, <2>1 DEF CollectedOf
<1>6. \A p \in F : txns[p].serial = LineAt(blockfile, p).serial /\ txns[p].serial \in Nat
  BY <1>3, <1>5, FiledType
<1>7. \A p, q \in F : txns[p].serial = txns[q].serial => p = q
  BY <1>3, <1>6, SerialsDiffer
<1>. HIDE DEF F, n
<1>8. /\ order \in [1 .. n -> F]
      /\ \A i, j \in 1 .. n : order[i] = order[j] => i = j
      /\ \A p \in F : \E i \in 1 .. n : order[i] = p
  BY <1>2, <1>5 DEF Orders, Bijection, Injection, Surjection, IsInjective, n, F
<1>9. /\ Len(txchain') = n /\ DOMAIN order = 1 .. n
      /\ \A i \in 1 .. n : txchain'[i] = txns[order[i]]
  <2>1. DOMAIN order = 1 .. n
    BY <1>8
  <2>2. txchain' = [i \in 1 .. n |-> txns[order[i]]]
    BY <1>2, <2>1
  <2>. QED  BY <1>3, <2>1, <2>2
<1>10. {txchain'[i] : i \in 1 .. n} = BookOf(blockfile)
  <2>1. \A i \in 1 .. n : txchain'[i] \in BookOf(blockfile)
    BY <1>5, <1>8, <1>9 DEF BookOf, F
  <2>2. ASSUME NEW e \in BookOf(blockfile) PROVE e \in {txchain'[i] : i \in 1 .. n}
    <3>1. PICK p \in F : e = Decrypt(LineAt(blockfile, p))
      BY DEF BookOf, F
    <3>2. PICK i \in 1 .. n : order[i] = p
      BY <1>8
    <3>. QED  BY <1>5, <1>9, <3>1, <3>2
  <2>. QED  BY <2>1, <2>2
<1>11. ASSUME NEW i \in 1 .. n - 1 PROVE txchain'[i].serial < txchain'[i + 1].serial
  <2>1. i \in 1 .. n /\ i + 1 \in 1 .. n /\ i # i + 1
    BY <1>3
  <2>2. txns[order[i]].serial <= txns[order[i + 1]].serial
    BY <1>2, <1>5, <1>11 DEF Sorted, n
  <2>3. order[i] \in F /\ order[i + 1] \in F /\ order[i] # order[i + 1]
    BY <1>8, <2>1
  <2>4. txns[order[i]].serial # txns[order[i + 1]].serial
    BY <1>7, <2>3
  <2>5. txns[order[i]].serial \in Nat /\ txns[order[i + 1]].serial \in Nat
    BY <1>6, <2>3
  <2>. QED  BY <1>9, <2>1, <2>2, <2>4, <2>5
<1>12. Recorded' = BookOf(blockfile)
  BY <1>1, RecordedIs DEF Recorded, BookOf, LineAt
<1>13. Cardinality(Filed(blockfile))' = n
  BY <1>1 DEF n, F
<1>14. {txchain'[i] : i \in 1 .. Len(txchain')} = Recorded'
  BY <1>9, <1>10, <1>12
<1>15. \A i \in 1 .. Len(txchain') - 1 : txchain'[i].serial < txchain'[i + 1].serial
  BY <1>9, <1>11
<1>. QED  BY <1>9, <1>13, <1>14, <1>15 DEF ListComplete

(* What the monitor is told exists holds every transfer of the three files  *)
(* once, by rising serial, as long as Server-M is not stopped with a        *)
(* request in hand and no write to a file fails: whatever the requests and  *)
(* the blocks, and whatever backend restarts when.                          *)
THEOREM ListIsComplete == ~StopsAnytime /\ ~WritesFail => (Spec => []ListComplete)
<1>. SUFFICES ASSUME ~StopsAnytime, ~WritesFail PROVE Spec => []ListComplete
  OBVIOUS
<1>1. Init => ListComplete
  BY DEF Init, ListComplete, NoAnswer
<1>2. ASSUME Service, ListComplete, [Next]_vars PROVE ListComplete'
  <2>1. CASE answer'.kind # "OK"
    BY <2>1 DEF ListComplete
  <2>2. CASE TxList
    BY <1>2, <2>2, ListIs
  <2>3. CASE CheckWallet \/ TxCoinsRefused \/ TxCoinsDone
    <3>1. answer'.kind # "OK"
      BY <2>3, RefusalKinds DEF CheckWallet, TxCoinsRefused, TxCoinsDone
    <3>. QED  BY <3>1 DEF ListComplete
  <2>4. CASE UNCHANGED <<answer, blockfile, txchain, req>>
    BY <1>2, <2>4 DEF ListComplete, Recorded
  <2>. QED  BY <1>2, <2>1, <2>2, <2>3, <2>4, AnswerStands DEF NoAnswer
<1>3. Service /\ ListComplete /\ [Next]_vars => ListComplete'
  BY <1>2
<1>. QED  BY <1>1, <1>3, AlwaysService, PTL DEF Spec

-----------------------------------------------------------------------------
(* Sums over finite sets, by the laws LedgerProofs uses for the supply.     *)

(* The sum of the function F over S.                                        *)
SumOf(F, S) == MapThenSumSet(LAMBDA x : F[x], S)

(* The sums of F over the subsets of S, as MapThenSumSet computes them.     *)
IsSum(g, F, S) ==
  g = [s \in SUBSET S |-> IF s = {} THEN 0
         ELSE F[CHOOSE x \in s : TRUE] + g[s \ {CHOOSE x \in s : TRUE}]]

(* The recursion of MapThenSumSet has a solution over a finite set ...      *)
LEMMA SumExists ==
  ASSUME NEW S, IsFiniteSet(S), NEW F
  PROVE  \E g : IsSum(g, F, S)
<1>. DEFINE Up(n) == {s \in SUBSET S : Cardinality(s) <= n}
            Body(g, s) == IF s = {} THEN 0
                          ELSE F[CHOOSE x \in s : TRUE] + g[s \ {CHOOSE x \in s : TRUE}]
            T == {n \in Nat : \E g : g = [s \in Up(n) |-> Body(g, s)]}
<1>0. \A s \in SUBSET S : s # {} =>
         LET c == CHOOSE x \in s : TRUE
         IN c \in s /\ Cardinality(s) \in Nat /\ Cardinality(s \ {c}) \in Nat /\ Cardinality(s \ {c}) = Cardinality(s) - 1
  <2>. SUFFICES ASSUME NEW s \in SUBSET S, s # {}
                PROVE  LET c == CHOOSE x \in s : TRUE
                       IN  /\ c \in s /\ Cardinality(s) \in Nat
                           /\ Cardinality(s \ {c}) \in Nat /\ Cardinality(s \ {c}) = Cardinality(s) - 1
    OBVIOUS
  <2>. DEFINE c == CHOOSE x \in s : TRUE
  <2>1. c \in s
    OBVIOUS
  <2>. HIDE DEF c
  <2>2. IsFiniteSet(s)
    BY FS_Subset
  <2>3. IsFiniteSet(s \ {c}) /\ Cardinality(s \ {c}) = Cardinality(s) - 1
    BY <2>1, <2>2, FS_RemoveElement
  <2>4. Cardinality(s) \in Nat /\ Cardinality(s \ {c}) \in Nat
    BY <2>2, <2>3, FS_CardinalityType
  <2>. QED  BY <2>1, <2>3, <2>4 DEF c
<1>1. 0 \in T
  <2>1. \A s \in Up(0) : s = {}
    <3>. SUFFICES ASSUME NEW s \in SUBSET S, Cardinality(s) <= 0 PROVE s = {}
      OBVIOUS
    <3>1. Cardinality(s) \in Nat /\ IsFiniteSet(s)
      BY FS_Subset, FS_CardinalityType
    <3>. QED  BY <3>1, FS_EmptySet
  <2>2. [s \in Up(0) |-> 0] = [s \in Up(0) |-> Body([r \in Up(0) |-> 0], s)]
    BY <2>1
  <2>. QED  BY <2>2
<1>2. ASSUME NEW n \in Nat, n \in T PROVE n + 1 \in T
  <2>1. PICK g : g = [s \in Up(n) |-> Body(g, s)]
    BY <1>2
  <2>. DEFINE h == [s \in Up(n + 1) |-> Body(g, s)]
  <2>2. ASSUME NEW s \in Up(n + 1) PROVE h[s] = Body(h, s)
    <3>1. CASE s = {}
      BY <3>1
    <3>2. CASE s # {}
      <4>. DEFINE c == CHOOSE x \in s : TRUE
      <4>1. c \in s /\ Cardinality(s) \in Nat /\ Cardinality(s \ {c}) \in Nat /\ Cardinality(s \ {c}) = Cardinality(s) - 1
        BY <1>0, <3>2
      <4>2. s \ {c} \in Up(n) /\ s \ {c} \in Up(n + 1)
        <5>. HIDE DEF c
        <5>. QED  BY <4>1
      <4>3. g[s \ {c}] = Body(g, s \ {c})
        BY <2>1, <4>2
      <4>4. h[s \ {c}] = Body(g, s \ {c})
        BY <4>2
      <4>. QED  BY <3>2, <4>3, <4>4
    <3>. QED  BY <3>1, <3>2
  <2>3. h = [s \in Up(n + 1) |-> Body(h, s)]
    <3>1. \A s \in Up(n + 1) : Body(g, s) = Body(h, s)
      BY <2>2
    <3>2. h = [s \in Up(n + 1) |-> Body(g, s)]
      OBVIOUS
    <3>. HIDE DEF h, Up, Body
    <3>. QED  BY <3>1, <3>2
  <2>. HIDE DEF h
  <2>4. \E k : k = [s \in Up(n + 1) |-> Body(k, s)]
    BY <2>3
  <2>5. n + 1 \in Nat
    OBVIOUS
  <2>. QED  BY <2>4, <2>5, Zenon
<1>3. Nat \subseteq T
  <2>. HIDE DEF T
  <2>. QED  BY <1>1, <1>2, SetInduction
<1>4. Cardinality(S) \in Nat /\ \A s \in SUBSET S : Cardinality(s) <= Cardinality(S)
  BY FS_CardinalityType, FS_Subset
<1>5. Up(Cardinality(S)) = SUBSET S
  BY <1>4
<1>6. PICK g : g = [s \in Up(Cardinality(S)) |-> Body(g, s)]
  BY <1>3, <1>4
<1>7. g = [s \in SUBSET S |-> Body(g, s)]
  BY <1>5, <1>6
<1>. QED  BY <1>7 DEF IsSum

(* ... and computes one.                                                    *)
LEMMA SumDef ==
  ASSUME NEW S, IsFiniteSet(S), NEW F
  PROVE  \E g : IsSum(g, F, S) /\ SumOf(F, S) = g[S]
<1>. DEFINE g == CHOOSE g : IsSum(g, F, S)
<1>1. IsSum(g, F, S)
  BY SumExists
<1>2. SumOf(F, S) = g[S]
  BY DEF SumOf, MapThenSumSet, MapThenFoldSet, IsSum
<1>. QED  BY <1>1, <1>2

(* Any two such functions agree, however many sets they are given on.       *)
LEMMA SumUnique ==
  ASSUME NEW S, IsFiniteSet(S), NEW R \in SUBSET S, NEW F, NEW G,
         \A x \in R : F[x] = G[x],
         NEW g, IsSum(g, F, S), NEW h, IsSum(h, G, R)
  PROVE  \A s \in SUBSET R : g[s] = h[s]
<1>. DEFINE T == {n \in Nat : \A s \in SUBSET R : Cardinality(s) = n => g[s] = h[s]}
<1>1. 0 \in T
  <2>1. \A s \in SUBSET R : Cardinality(s) = 0 => s = {}
    BY FS_EmptySet, FS_Subset
  <2>2. g[{}] = 0 /\ h[{}] = 0
    BY DEF IsSum
  <2>. QED  BY <2>1, <2>2
<1>2. ASSUME NEW n \in Nat, n \in T PROVE n + 1 \in T
  <2>. SUFFICES ASSUME NEW s \in SUBSET R, Cardinality(s) = n + 1 PROVE g[s] = h[s]
    OBVIOUS
  <2>. DEFINE c == CHOOSE x \in s : TRUE
  <2>1. IsFiniteSet(s) /\ s # {}
    BY FS_EmptySet, FS_Subset
  <2>2. c \in s
    BY <2>1
  <2>3. g[s] = F[c] + g[s \ {c}] /\ h[s] = G[c] + h[s \ {c}]
    BY <2>1 DEF IsSum
  <2>. HIDE DEF c
  <2>4. Cardinality(s \ {c}) = n
    <3>1. Cardinality(s \ {c}) = Cardinality(s) - 1
      BY <2>1, <2>2, FS_RemoveElement
    <3>. QED  BY <3>1
  <2>5. g[s \ {c}] = h[s \ {c}]
    BY <1>2, <2>4
  <2>. QED  BY <2>2, <2>3, <2>5
<1>3. Nat \subseteq T
  <2>. HIDE DEF T
  <2>. QED  BY <1>1, <1>2, SetInduction
<1>. SUFFICES ASSUME NEW s \in SUBSET R PROVE g[s] = h[s]
  OBVIOUS
<1>4. Cardinality(s) \in Nat
  BY FS_CardinalityType, FS_Subset
<1>. QED  BY <1>3, <1>4

(* A sum of integers is an integer.                                         *)
LEMMA SumInt ==
  ASSUME NEW S, IsFiniteSet(S), NEW F, \A x \in S : F[x] \in Int,
         NEW g, IsSum(g, F, S)
  PROVE  \A s \in SUBSET S : g[s] \in Int
<1>. DEFINE T == {n \in Nat : \A s \in SUBSET S : Cardinality(s) = n => g[s] \in Int}
<1>1. 0 \in T
  <2>1. \A s \in SUBSET S : Cardinality(s) = 0 => s = {}
    BY FS_EmptySet, FS_Subset
  <2>2. g[{}] = 0
    BY DEF IsSum
  <2>. QED  BY <2>1, <2>2
<1>2. ASSUME NEW n \in Nat, n \in T PROVE n + 1 \in T
  <2>. SUFFICES ASSUME NEW s \in SUBSET S, Cardinality(s) = n + 1 PROVE g[s] \in Int
    OBVIOUS
  <2>. DEFINE c == CHOOSE x \in s : TRUE
  <2>1. IsFiniteSet(s) /\ s # {}
    BY FS_EmptySet, FS_Subset
  <2>2. c \in s
    BY <2>1
  <2>3. g[s] = F[c] + g[s \ {c}]
    BY <2>1 DEF IsSum
  <2>. HIDE DEF c
  <2>4. Cardinality(s \ {c}) = n
    <3>1. Cardinality(s \ {c}) = Cardinality(s) - 1
      BY <2>1, <2>2, FS_RemoveElement
    <3>. QED  BY <3>1
  <2>5. g[s \ {c}] \in Int
    BY <1>2, <2>4
  <2>6. F[c] \in Int
    BY <2>2
  <2>. QED  BY <2>3, <2>5, <2>6
<1>3. Nat \subseteq T
  <2>. HIDE DEF T
  <2>. QED  BY <1>1, <1>2, SetInduction
<1>. SUFFICES ASSUME NEW s \in SUBSET S PROVE g[s] \in Int
  OBVIOUS
<1>4. Cardinality(s) \in Nat
  BY FS_CardinalityType, FS_Subset
<1>. QED  BY <1>3, <1>4

(* The element taken first does not matter.                                 *)
LEMMA SumAny ==
  ASSUME NEW S, IsFiniteSet(S), NEW F, \A x \in S : F[x] \in Int,
         NEW g, IsSum(g, F, S), NEW z \in S
  PROVE  g[S] = F[z] + g[S \ {z}]
<1>. DEFINE Good(s) == \A x \in s : g[s] = F[x] + g[s \ {x}]
            T == {n \in Nat : \A s \in SUBSET S : Cardinality(s) = n => Good(s)}
<1>1. 0 \in T
  <2>1. \A s \in SUBSET S : Cardinality(s) = 0 => s = {}
    BY FS_EmptySet, FS_Subset
  <2>. QED  BY <2>1
<1>2. ASSUME NEW n \in Nat, n \in T PROVE n + 1 \in T
  <2>. SUFFICES ASSUME NEW s \in SUBSET S, Cardinality(s) = n + 1 PROVE Good(s)
    OBVIOUS
  <2>. DEFINE c == CHOOSE x \in s : TRUE
  <2>1. IsFiniteSet(s) /\ s # {}
    BY FS_EmptySet, FS_Subset
  <2>2. c \in s
    BY <2>1
  <2>3. g[s] = F[c] + g[s \ {c}]
    BY <2>1 DEF IsSum
  <2>. HIDE DEF c
  <2>4. ASSUME NEW x \in s
        PROVE  Good(s \ {x})
    <3>1. Cardinality(s \ {x}) = Cardinality(s) - 1
      BY <2>1, FS_RemoveElement
    <3>2. Cardinality(s \ {x}) = n
      BY <3>1
    <3>. QED  BY <1>2, <3>2
  <2>6. ASSUME NEW x \in s, x # c
        PROVE  g[s] = F[x] + g[s \ {x}]
    <3>. DEFINE r == (s \ {c}) \ {x}
    <3>1. r = (s \ {x}) \ {c} /\ x \in s \ {c} /\ c \in s \ {x}
      BY <2>2, <2>6
    <3>. HIDE DEF r
    <3>2. g[s \ {c}] = F[x] + g[r]
      BY <2>2, <2>4, <3>1 DEF r
    <3>3. g[s \ {x}] = F[c] + g[r]
      BY <2>4, <3>1
    <3>4. F[x] \in Int /\ F[c] \in Int
      BY <2>2
    <3>5. g[r] \in Int
      BY SumInt DEF r
    <3>. QED  BY <2>3, <3>2, <3>3, <3>4, <3>5
  <2>. QED  BY <2>3, <2>6
<1>3. Nat \subseteq T
  <2>. HIDE DEF T
  <2>. QED  BY <1>1, <1>2, SetInduction
<1>4. Cardinality(S) \in Nat /\ S \in SUBSET S
  BY FS_CardinalityType
<1>5. Good(S)
  BY <1>3, <1>4
<1>. QED  BY <1>5

-----------------------------------------------------------------------------
(* The laws of sums: nothing sums up to 0, ...                              *)
LEMMA SumEmpty == ASSUME NEW F PROVE SumOf(F, {}) = 0
<1>1. IsFiniteSet({})
  BY FS_EmptySet
<1>. QED  BY <1>1, SumDef DEF IsSum

(* ... integers to an integer, ...                                          *)
LEMMA SumType ==
  ASSUME NEW S, IsFiniteSet(S), NEW F, \A x \in S : F[x] \in Int
  PROVE  SumOf(F, S) \in Int
BY SumDef, SumInt

(* ... equal functions to the same, ...                                     *)
LEMMA SumSame ==
  ASSUME NEW S, IsFiniteSet(S), NEW F, NEW G, \A x \in S : F[x] = G[x]
  PROVE  SumOf(F, S) = SumOf(G, S)
<1>1. PICK g : IsSum(g, F, S) /\ SumOf(F, S) = g[S]
  BY SumDef
<1>2. PICK h : IsSum(h, G, S) /\ SumOf(G, S) = h[S]
  BY SumDef
<1>3. S \in SUBSET S
  OBVIOUS
<1>4. \A s \in SUBSET S : g[s] = h[s]
  BY <1>1, <1>2, <1>3, SumUnique
<1>. QED  BY <1>1, <1>2, <1>4

(* ... and one more element adds its value.                                 *)
LEMMA SumAdd ==
  ASSUME NEW S, IsFiniteSet(S), NEW x, x \notin S,
         NEW F, \A y \in S \cup {x} : F[y] \in Int
  PROVE  SumOf(F, S \cup {x}) = F[x] + SumOf(F, S)
<1>0. IsFiniteSet(S \cup {x})
  BY FS_AddElement
<1>1. PICK g : IsSum(g, F, S \cup {x}) /\ SumOf(F, S \cup {x}) = g[S \cup {x}]
  BY <1>0, SumDef
<1>2. PICK h : IsSum(h, F, S) /\ SumOf(F, S) = h[S]
  BY SumDef
<1>3. g[S] = h[S]
  BY <1>0, <1>1, <1>2, SumUnique
<1>4. g[S \cup {x}] = F[x] + g[(S \cup {x}) \ {x}]
  <2>. DEFINE U == S \cup {x}
  <2>1. IsFiniteSet(U) /\ (\A y \in U : F[y] \in Int) /\ IsSum(g, F, U) /\ x \in U
    BY <1>0, <1>1
  <2>. HIDE DEF U
  <2>2. g[U] = F[x] + g[U \ {x}]
    BY <2>1, SumAny
  <2>. QED  BY <2>2 DEF U
<1>5. (S \cup {x}) \ {x} = S
  OBVIOUS
<1>. QED  BY <1>1, <1>2, <1>3, <1>4, <1>5

(* A family of subsets of S with {} and, with each of its members, all that *)
(* have one element more, has S: induction over finite sets.                *)
LEMMA FamilyInduction ==
  ASSUME NEW S, IsFiniteSet(S), NEW T \in SUBSET SUBSET S, {} \in T,
         \A s \in T : \A x \in S \ s : s \cup {x} \in T
  PROVE  S \in T
<1>. DEFINE N == {n \in Nat : \A s \in SUBSET S : Cardinality(s) = n => s \in T}
<1>1. 0 \in N
  <2>1. \A s \in SUBSET S : Cardinality(s) = 0 => s = {}
    BY FS_EmptySet, FS_Subset
  <2>. QED  BY <2>1
<1>2. ASSUME NEW n \in Nat, n \in N PROVE n + 1 \in N
  <2>. SUFFICES ASSUME NEW s \in SUBSET S, Cardinality(s) = n + 1 PROVE s \in T
    OBVIOUS
  <2>1. IsFiniteSet(s) /\ s # {}
    BY FS_EmptySet, FS_Subset
  <2>2. PICK x \in s : TRUE
    BY <2>1
  <2>. DEFINE r == s \ {x}
  <2>3. Cardinality(r) = n
    <3>1. Cardinality(r) = Cardinality(s) - 1
      BY <2>1, FS_RemoveElement
    <3>. QED  BY <3>1
  <2>4. r \in T
    BY <1>2, <2>3
  <2>5. x \in S \ r /\ r \cup {x} = s
    OBVIOUS
  <2>. QED  BY <2>4, <2>5
<1>3. Nat \subseteq N
  <2>. HIDE DEF N
  <2>. QED  BY <1>1, <1>2, SetInduction
<1>4. Cardinality(S) \in Nat
  BY FS_CardinalityType
<1>. QED  BY <1>3, <1>4

(* A difference sums up to the difference of the sums.                      *)
LEMMA SumMinus ==
  ASSUME NEW S, IsFiniteSet(S), NEW F, \A x \in S : F[x] \in Int,
         NEW G, \A x \in S : G[x] \in Int,
         NEW H, \A x \in S : H[x] = F[x] - G[x]
  PROVE  SumOf(H, S) = SumOf(F, S) - SumOf(G, S)
<1>. DEFINE T == {s \in SUBSET S : SumOf(H, s) = SumOf(F, s) - SumOf(G, s)}
<1>1. {} \in T
  BY SumEmpty
<1>2. ASSUME NEW s \in T, NEW x \in S \ s PROVE s \cup {x} \in T
  <2>1. IsFiniteSet(s)
    BY FS_Subset
  <2>2. /\ \A y \in s \cup {x} : F[y] \in Int /\ G[y] \in Int /\ H[y] \in Int
        /\ H[x] = F[x] - G[x]
    OBVIOUS
  <2>3. /\ SumOf(F, s \cup {x}) = F[x] + SumOf(F, s)
        /\ SumOf(G, s \cup {x}) = G[x] + SumOf(G, s)
        /\ SumOf(H, s \cup {x}) = H[x] + SumOf(H, s)
    BY <2>1, <2>2, SumAdd
  <2>4. SumOf(F, s) \in Int /\ SumOf(G, s) \in Int
    BY <2>1, <2>2, SumType
  <2>5. SumOf(H, s) = SumOf(F, s) - SumOf(G, s)
    OBVIOUS
  <2>6. SumOf(H, s \cup {x}) = SumOf(F, s \cup {x}) - SumOf(G, s \cup {x})
    BY <2>2, <2>3, <2>4, <2>5
  <2>. QED  BY <2>6
<1>. HIDE DEF T
<1>3. S \in T
  BY <1>1, <1>2, FamilyInduction DEF T
<1>. QED  BY <1>3 DEF T

(* Zeroes do not count.                                                     *)
LEMMA SumZero ==
  ASSUME NEW S, IsFiniteSet(S), NEW R \in SUBSET S, NEW F, \A x \in S : F[x] \in Int,
         \A x \in S \ R : F[x] = 0
  PROVE  SumOf(F, S) = SumOf(F, R)
<1>. DEFINE Z == S \ R
            T == {s \in SUBSET Z : SumOf(F, R \cup s) = SumOf(F, R)}
<1>0. IsFiniteSet(Z) /\ IsFiniteSet(R)
  BY FS_Subset
<1>1. {} \in T
  BY SumEmpty
<1>2. ASSUME NEW s \in T, NEW x \in Z \ s PROVE s \cup {x} \in T
  <2>. DEFINE U == R \cup s
  <2>1. IsFiniteSet(U)
    BY <1>0, FS_Subset
  <2>2. x \notin U /\ (\A y \in U \cup {x} : F[y] \in Int) /\ F[x] = 0 /\ R \cup (s \cup {x}) = U \cup {x}
    OBVIOUS
  <2>3. SumOf(F, U) = SumOf(F, R)
    OBVIOUS
  <2>. HIDE DEF U
  <2>4. SumOf(F, U \cup {x}) = F[x] + SumOf(F, U)
    BY <2>1, <2>2, SumAdd
  <2>5. SumOf(F, U) \in Int
    BY <2>1, <2>2, SumType
  <2>6. SumOf(F, U \cup {x}) = SumOf(F, R)
    BY <2>2, <2>3, <2>4, <2>5
  <2>. QED  BY <2>2, <2>6
<1>3. Z \in T
  <2>. HIDE DEF T
  <2>1. T \in SUBSET SUBSET Z
    BY DEF T
  <2>2. \A s \in T : \A x \in Z \ s : s \cup {x} \in T
    BY <1>2
  <2>. HIDE DEF Z
  <2>. QED  BY <1>0, <1>1, <2>1, <2>2, FamilyInduction
<1>4. R \cup Z = S
  OBVIOUS
<1>. QED  BY <1>3, <1>4

(* A sum can be taken over the image of a map that is one to one.           *)
LEMMA SumImage ==
  ASSUME NEW S, IsFiniteSet(S), NEW m, \A x, y \in S : m[x] = m[y] => x = y,
         NEW F, \A x \in S : F[m[x]] \in Int, NEW G, \A x \in S : G[x] = F[m[x]]
  PROVE  SumOf(G, S) = SumOf(F, {m[x] : x \in S})
<1>. DEFINE Im(s) == {m[x] : x \in s}
            T == {s \in SUBSET S : IsFiniteSet(Im(s)) /\ SumOf(G, s) = SumOf(F, Im(s))}
<1>1. {} \in T
  <2>1. Im({}) = {}
    OBVIOUS
  <2>. QED  BY <2>1, SumEmpty, FS_EmptySet
<1>2. ASSUME NEW s \in T, NEW x \in S \ s PROVE s \cup {x} \in T
  <2>1. IsFiniteSet(s) /\ IsFiniteSet(Im(s)) /\ SumOf(G, s) = SumOf(F, Im(s))
    BY FS_Subset
  <2>2. Im(s \cup {x}) = Im(s) \cup {m[x]} /\ m[x] \notin Im(s)
    OBVIOUS
  <2>3. (\A y \in Im(s) \cup {m[x]} : F[y] \in Int) /\ (\A y \in s \cup {x} : G[y] \in Int)
    OBVIOUS
  <2>4. G[x] = F[m[x]]
    OBVIOUS
  <2>. HIDE DEF Im
  <2>5. SumOf(F, Im(s) \cup {m[x]}) = F[m[x]] + SumOf(F, Im(s))
    BY <2>1, <2>2, <2>3, SumAdd
  <2>6. SumOf(G, s \cup {x}) = G[x] + SumOf(G, s)
    BY <2>1, <2>3, SumAdd
  <2>7. IsFiniteSet(Im(s \cup {x}))
    <3>1. IsFiniteSet(Im(s) \cup {m[x]})
      BY <2>1, FS_AddElement
    <3>. QED  BY <2>2, <3>1
  <2>8. SumOf(G, s \cup {x}) = SumOf(F, Im(s \cup {x}))
    BY <2>1, <2>2, <2>4, <2>5, <2>6
  <2>. QED  BY <2>7, <2>8
<1>3. S \in T
  <2>. HIDE DEF T
  <2>1. T \in SUBSET SUBSET S
    BY DEF T
  <2>. QED  BY <1>1, <1>2, <2>1, FamilyInduction
<1>. QED  BY <1>3

-----------------------------------------------------------------------------
(* Balances.                                                                *)

AmountOf(S) == [e \in S |-> e.amount]
ChangeOf(rows, user) == [p \in DOMAIN rows |-> Change(rows[p], user)]

(* A solution of the recursion that sums F up over S gives the sum.         *)
LEMMA SumSolved ==
  ASSUME NEW S, IsFiniteSet(S), NEW F, NEW k, IsSum(k, F, S)
  PROVE  k[S] = SumOf(F, S)
<1>1. PICK h : IsSum(h, F, S) /\ SumOf(F, S) = h[S]
  BY SumDef
<1>2. S \in SUBSET S
  OBVIOUS
<1>3. \A s \in SUBSET S : k[s] = h[s]
  BY <1>1, <1>2, SumUnique
<1>. QED  BY <1>1, <1>2, <1>3

LEMMA AmountSum ==
  ASSUME NEW S, IsFiniteSet(S)
  PROVE  Book!MapThenSumSet(LAMBDA e : e.amount, S) = SumOf(AmountOf(S), S)
<1>. DEFINE c(s) == CHOOSE x \in s : TRUE
            P(g) == g = [s \in SUBSET S |-> IF s = {} THEN 0 ELSE c(s).amount + g[s \ {c(s)}]]
            k == CHOOSE g : P(g)
<1>1. PICK h : IsSum(h, AmountOf(S), S)
  BY SumExists
<1>2. ASSUME NEW s \in SUBSET S, s # {} PROVE AmountOf(S)[c(s)] = c(s).amount
  <2>1. c(s) \in s
    BY <1>2
  <2>. HIDE DEF c
  <2>. QED  BY <2>1 DEF AmountOf
<1>3. ASSUME NEW g, P(g) PROVE IsSum(g, AmountOf(S), S)
  BY <1>2, <1>3 DEF IsSum
<1>4. P(h)
  BY <1>1, <1>2 DEF IsSum
<1>5. P(k)
  BY <1>4
<1>6. Book!MapThenSumSet(LAMBDA e : e.amount, S) = k[S]
  BY DEF Book!MapThenSumSet, Book!MapThenFoldSet
<1>. HIDE DEF P, k
<1>7. IsSum(k, AmountOf(S), S)
  BY <1>3, <1>5
<1>. QED  BY <1>6, <1>7, SumSolved

LEMMA ChangeSum ==
  ASSUME NEW rows, IsFiniteSet(DOMAIN rows), NEW user
  PROVE  BalanceIn(rows, user) = INITIAL_BALANCE + SumOf(ChangeOf(rows, user), DOMAIN rows)
<1>. DEFINE S == DOMAIN rows
            F == ChangeOf(rows, user)
            c(s) == CHOOSE x \in s : TRUE
            P(g) == g = [s \in SUBSET S |-> IF s = {} THEN 0
                           ELSE Change(rows[c(s)], user) + g[s \ {c(s)}]]
            k == CHOOSE g : P(g)
<1>1. PICK h : IsSum(h, F, S)
  BY SumExists
<1>2. ASSUME NEW s \in SUBSET S, s # {} PROVE F[c(s)] = Change(rows[c(s)], user)
  <2>1. c(s) \in s
    BY <1>2
  <2>. HIDE DEF c
  <2>. QED  BY <2>1 DEF ChangeOf
<1>3. ASSUME NEW g, P(g) PROVE IsSum(g, F, S)
  <2>. HIDE DEF F
  <2>. QED  BY <1>2, <1>3 DEF IsSum
<1>4. P(h)
  <2>. HIDE DEF F
  <2>. QED  BY <1>1, <1>2 DEF IsSum
<1>5. P(k)
  BY <1>4
<1>6. BalanceIn(rows, user) = INITIAL_BALANCE + k[S]
  BY DEF BalanceIn, MapThenSumSet, MapThenFoldSet
<1>. HIDE DEF P, k, F, S
<1>7. IsSum(k, F, S)
  BY <1>3, <1>5
<1>8. IsFiniteSet(S)
  BY DEF S
<1>9. k[S] = SumOf(F, S)
  BY <1>7, <1>8, SumSolved
<1>. QED  BY <1>6, <1>9 DEF F, S

ChangeIn(b, user) == [e \in b |-> Change(e, user)]

LEMMA ChangeType ==
  ASSUME NEW t \in Txn, NEW user
  PROVE  /\ t.amount \in Nat /\ Change(t, user) \in Int
         /\ user \notin {t.sender, t.receiver} => Change(t, user) = 0
<1>1. t.amount \in Nat
  BY DEF Txn, CipherAmount
<1>. QED  BY <1>1 DEF Change

(* The balance of the book is what the changes of its entries sum up to.    *)
LEMMA BookBalance ==
  ASSUME NEW b, IsFiniteSet(b), b \subseteq Txn, NEW user
  PROVE  /\ Book!Balance(b, user) = INITIAL_BALANCE + SumOf(ChangeIn(b, user), b)
         /\ SumOf(ChangeIn(b, user), b) \in Int
<1>. DEFINE R == {e \in b : e.receiver = user}
            S == {e \in b : e.sender = user}
            F == [e \in b |-> IF e.receiver = user THEN e.amount ELSE 0]
            G == [e \in b |-> IF e.sender = user THEN e.amount ELSE 0]
            H == ChangeIn(b, user)
<1>1. IsFiniteSet(R) /\ IsFiniteSet(S) /\ R \in SUBSET b /\ S \in SUBSET b
  BY FS_Subset
<1>2. \A e \in b : e.amount \in Int
  BY ChangeType
<1>3. /\ \A e \in b : F[e] \in Int /\ G[e] \in Int /\ H[e] = F[e] - G[e]
      /\ \A e \in b \ R : F[e] = 0
      /\ \A e \in b \ S : G[e] = 0
      /\ \A e \in R : F[e] = AmountOf(R)[e]
      /\ \A e \in S : G[e] = AmountOf(S)[e]
  BY <1>2 DEF ChangeIn, Change, AmountOf
<1>4. /\ Book!MapThenSumSet(LAMBDA e : e.amount, R) = SumOf(AmountOf(R), R)
      /\ Book!MapThenSumSet(LAMBDA e : e.amount, S) = SumOf(AmountOf(S), S)
  <2>. HIDE DEF R, S
  <2>. QED  BY <1>1, AmountSum
<1>5. Book!Balance(b, user) = INITIAL_BALANCE + SumOf(AmountOf(R), R) - SumOf(AmountOf(S), S)
  BY <1>4 DEF Book!Balance
<1>. HIDE DEF R, S, F, G, H
<1>6. SumOf(F, R) = SumOf(AmountOf(R), R) /\ SumOf(G, S) = SumOf(AmountOf(S), S)
  BY <1>1, <1>3, SumSame
<1>7. SumOf(F, b) = SumOf(F, R) /\ SumOf(G, b) = SumOf(G, S)
  BY <1>1, <1>3, SumZero
<1>8. SumOf(H, b) = SumOf(F, b) - SumOf(G, b)
  BY <1>3, SumMinus
<1>9. SumOf(F, b) \in Int /\ SumOf(G, b) \in Int /\ INITIAL_BALANCE \in Int
  BY <1>3, SumType, MainServerAssumption
<1>10. /\ Book!Balance(b, user) = INITIAL_BALANCE + SumOf(H, b)
       /\ SumOf(H, b) \in Int
  BY <1>5, <1>6, <1>7, <1>8, <1>9
<1>. QED  BY <1>10 DEF H

(* One entry more changes the balance by its own change.                    *)
LEMMA BalanceAfter ==
  ASSUME NEW b, IsFiniteSet(b), b \subseteq Txn, NEW e \in Txn, e \notin b, NEW user
  PROVE  Book!Balance(b \cup {e}, user) = Book!Balance(b, user) + Change(e, user)
<1>. DEFINE c == b \cup {e}
            H == ChangeIn(c, user)
            K == ChangeIn(b, user)
<1>1. IsFiniteSet(c) /\ c \subseteq Txn
  BY FS_AddElement
<1>2. (\A x \in c : H[x] \in Int) /\ H[e] = Change(e, user) /\ (\A x \in b : H[x] = K[x])
  BY ChangeType DEF ChangeIn
<1>3. /\ Book!Balance(c, user) = INITIAL_BALANCE + SumOf(H, c)
      /\ Book!Balance(b, user) = INITIAL_BALANCE + SumOf(K, b) /\ SumOf(K, b) \in Int
  <2>. HIDE DEF c
  <2>. QED  BY <1>1, BookBalance
<1>. HIDE DEF H, K
<1>4. SumOf(H, c) = H[e] + SumOf(H, b)
  BY <1>2, SumAdd
<1>5. SumOf(H, b) = SumOf(K, b)
  BY <1>2, SumSame
<1>6. Change(e, user) \in Int /\ INITIAL_BALANCE \in Int
  BY ChangeType, MainServerAssumption
<1>. QED  BY <1>2, <1>3, <1>4, <1>5, <1>6

(* A user whose rows are all wanted has the balance of the book by the rows *)
(* collected.                                                               *)
Covers(user) == \A t \in Txn : user \in {t.sender, t.receiver} => Wanted(t)

LEMMA CollectedBalance ==
  ASSUME NEW files, FilesType(files), Numbered(files), NEW rows, NEW top,
         CollectedOf(files, Backends, rows, top), NEW user, Covers(user)
  PROVE  BalanceIn(rows, user) = Book!Balance(BookOf(files), user)
<1>. DEFINE F == Filed(files)
            D == DOMAIN rows
            m == [p \in F |-> Decrypt(LineAt(files, p))]
            b == BookOf(files)
            H == ChangeIn(b, user)
            G == [p \in F |-> Change(m[p], user)]
            K == ChangeOf(rows, user)
<1>1. /\ IsFiniteSet(F) /\ \A p \in F : p[1] \in Backends /\ m[p] \in Txn
      /\ \A p \in F : m[p].serial = LineAt(files, p).serial
  BY FiledType
<1>2. \A p, q \in F : m[p] = m[q] => p = q
  <2>1. \A p, q \in F : LineAt(files, p).serial = LineAt(files, q).serial => p = q
    BY SerialsDiffer
  <2>. HIDE DEF m, F
  <2>. QED  BY <1>1, <2>1
<1>3. b = {m[p] : p \in F}
  BY DEF BookOf
<1>4. IsFiniteSet(b) /\ b \subseteq Txn
  BY BookType
<1>5. D = {p \in F : Wanted(m[p])} /\ \A p \in D : rows[p] = m[p]
  BY <1>1 DEF CollectedOf
<1>6. IsFiniteSet(D) /\ D \in SUBSET F
  BY <1>1, <1>5, FS_Subset
<1>7. \A p \in F : G[p] = Change(m[p], user) /\ G[p] \in Int
  BY <1>1, ChangeType
<1>8. \A p \in F \ D : G[p] = 0
  <2>1. ASSUME NEW p \in F \ D PROVE user \notin {m[p].sender, m[p].receiver}
    BY <1>1, <1>5 DEF Covers
  <2>. HIDE DEF m, D
  <2>. QED  BY <1>1, <1>7, <2>1, ChangeType
<1>9. \A p \in D : K[p] = G[p]
  <2>. HIDE DEF m
  <2>. QED  BY <1>5, <1>6 DEF ChangeOf
<1>10. \A p \in F : m[p] \in b /\ H[m[p]] = G[p]
  <2>1. \A p \in F : m[p] \in b
    BY <1>3
  <2>. HIDE DEF m, b
  <2>. QED  BY <2>1 DEF ChangeIn
<1>11. BalanceIn(rows, user) = INITIAL_BALANCE + SumOf(K, D)
  <2>. HIDE DEF K
  <2>. QED  BY <1>6, ChangeSum DEF K
<1>. HIDE DEF F, D, m, b, H, G, K
<1>12. SumOf(K, D) = SumOf(G, D)
  BY <1>6, <1>9, SumSame
<1>13. SumOf(G, F) = SumOf(G, D)
  BY <1>1, <1>6, <1>7, <1>8, SumZero
<1>14. SumOf(G, F) = SumOf(H, {m[p] : p \in F})
  <2>1. \A p \in F : H[m[p]] \in Int
    BY <1>7, <1>10
  <2>2. \A p \in F : G[p] = H[m[p]]
    BY <1>10
  <2>3. \A p, q \in F : m[p] = m[q] => p = q
    BY <1>2
  <2>. QED  BY ONLY <1>1, <2>1, <2>2, <2>3, SumImage
<1>15. Book!Balance(b, user) = INITIAL_BALANCE + SumOf(H, b)
  BY <1>4, BookBalance DEF H
<1>. QED  BY <1>3, <1>11, <1>12, <1>13, <1>14, <1>15 DEF b

(* ... and is in the book when it is in them.                               *)
LEMMA CollectedMember ==
  ASSUME NEW files, FilesType(files), NEW rows, NEW top,
         CollectedOf(files, Backends, rows, top), NEW user, Covers(user)
  PROVE  FoundIn(rows, user) <=> Book!Member(BookOf(files), user)
<1>1. \A p \in Filed(files) : p[1] \in Backends /\ Decrypt(LineAt(files, p)) \in Txn
  BY FiledType
<1>2. \A p \in DOMAIN rows : p \in Filed(files) /\ rows[p] = Decrypt(LineAt(files, p))
  BY DEF CollectedOf
<1>3. ASSUME NEW p \in Filed(files), user \in {Decrypt(LineAt(files, p)).sender,
                                               Decrypt(LineAt(files, p)).receiver}
      PROVE  p \in DOMAIN rows
  BY <1>1, <1>3 DEF Covers, CollectedOf
<1>4. FoundIn(rows, user) => Book!Member(BookOf(files), user)
  BY <1>2 DEF FoundIn, Book!Member, BookOf
<1>5. Book!Member(BookOf(files), user) => FoundIn(rows, user)
  <2>. SUFFICES ASSUME NEW e \in BookOf(files), user \in {e.sender, e.receiver}
                PROVE  FoundIn(rows, user)
    BY DEF Book!Member
  <2>1. PICK p \in Filed(files) : e = Decrypt(LineAt(files, p))
    BY DEF BookOf
  <2>2. p \in DOMAIN rows
    BY <1>3, <2>1
  <2>3. rows[p] = e
    BY <1>2, <2>1, <2>2
  <2>. QED  BY <2>2, <2>3 DEF FoundIn
<1>. QED  BY <1>4, <1>5

-----------------------------------------------------------------------------
(* The book.                                                                *)

LEMMA BookCardinality == \A S : Book!Cardinality(S) = Cardinality(S)
BY DEF Cardinality, Book!Cardinality

(* The names of a payment, and of a wallet, are covered by its question.    *)
LEMMA CoversIs ==
  /\ req.op = "CHECK_WALLET" => Covers(req.user)
  /\ req.op = "TXCOINS" => Covers(req.sender) /\ Covers(req.receiver)
BY DEF Covers, Wanted

(* What a feasible payment is by the files it was computed from.            *)
LEMMA PayingIs ==
  ASSUME Types, pc = "confirm", NEW old, Paying(old)
  PROVE  LET e == Decrypt(NewRow)
             b == BookOf(old)
         IN  /\ e \in Txn /\ e \notin b /\ e.serial = Cardinality(b) + 1
             /\ e.sender = req.sender /\ e.receiver = req.receiver /\ e.amount = req.amount
             /\ IsFiniteSet(b) /\ b \subseteq Txn
             /\ Book!Member(b, req.sender) /\ Book!Member(b, req.receiver)
             /\ BalanceIn(txns, req.sender) = Book!Balance(b, req.sender)
             /\ Book!Balance(b, req.sender) \in Int /\ req.amount \in Nat
             /\ Book!Balance(b, req.sender) >= req.amount
             /\ NewRow \in Row
<1>. DEFINE e == Decrypt(NewRow)
            b == BookOf(old)
<1>1. req \in Requests /\ req.op = "TXCOINS" /\ max_serial \in Nat
  BY DEF Types, ReqType, TxnsType
<1>2. NewRow \in Row /\ e = Book!Entry(max_serial + 1, req.sender, req.receiver, req.amount)
  BY <1>1, NewRowType
<1>3. /\ e \in Txn /\ e.serial = max_serial + 1
      /\ e.sender = req.sender /\ e.receiver = req.receiver /\ e.amount = req.amount
  BY <1>2, DecryptType DEF Book!Entry
<1>4. /\ IsFiniteSet(b) /\ b \subseteq Txn /\ Cardinality(b) = Cardinality(Filed(old))
      /\ {x.serial : x \in b} = 1 .. Cardinality(b)
  BY BookType DEF Paying
<1>5. max_serial = Cardinality(b)
  BY <1>1, <1>4, TopIs DEF Paying
<1>6. e \notin b
  <2>1. max_serial + 1 \notin 1 .. max_serial
    BY <1>1
  <2>. HIDE DEF b, e
  <2>. QED  BY <1>3, <1>4, <1>5, <2>1
<1>7. Covers(req.sender) /\ Covers(req.receiver)
  BY <1>1, CoversIs
<1>8. FoundIn(txns, req.sender) /\ FoundIn(txns, req.receiver) /\ ~(BalanceIn(txns, req.sender) < req.amount)
  BY DEF Paying, Refusal
<1>9. Book!Member(b, req.sender) /\ Book!Member(b, req.receiver)
  BY <1>7, <1>8, CollectedMember DEF Paying
<1>10. BalanceIn(txns, req.sender) = Book!Balance(b, req.sender)
  BY <1>7, CollectedBalance DEF Paying
<1>11. Book!Balance(b, req.sender) \in Int
  <2>. HIDE DEF b
  <2>. QED  BY <1>4, BookBalance, MainServerAssumption
<1>12. req.amount \in Nat
  BY <1>3, ChangeType
<1>. HIDE DEF e, b
<1>13. Book!Balance(b, req.sender) >= req.amount
  BY <1>8, <1>10, <1>11, <1>12
<1>14. e.serial = Cardinality(b) + 1
  BY <1>3, <1>5
<1>. QED  BY <1>2, <1>3, <1>4, <1>6, <1>9, <1>10, <1>11, <1>12, <1>13, <1>14 DEF e, b

(* Recording it is a transfer of the book.                                  *)
LEMMA RecordsTransfer ==
  ASSUME Service, pc = "confirm", Records
  PROVE  /\ Recorded' = Recorded \cup {Decrypt(NewRow)}
         /\ Book!Transfer
<1>. DEFINE e == Decrypt(NewRow)
            b == Recorded
<1>1. b = BookOf(blockfile) /\ Types /\ FilesType(blockfile) /\ Paying(blockfile)
  BY RecordedIs, MailTypes DEF Service, Records
<1>2. PICK s \in Backends : blockfile' = WithRow(blockfile, s, NewRow)
  BY DEF Records
<1>3. PICK old : old = blockfile
  OBVIOUS
<1>4. /\ e \notin b /\ e.serial = Cardinality(b) + 1
      /\ e.sender = req.sender /\ e.receiver = req.receiver /\ e.amount = req.amount
      /\ Book!Member(b, req.sender) /\ Book!Member(b, req.receiver)
      /\ Book!Balance(b, req.sender) >= req.amount
      /\ NewRow \in Row
  BY <1>1, <1>3, PayingIs
<1>5. Recorded' = BookOf(blockfile')
  BY DEF Recorded, BookOf, LineAt
<1>6. BookOf(WithRow(blockfile, s, NewRow)) = BookOf(blockfile) \cup {e}
  BY <1>1, <1>4, BookGrows
<1>7. Recorded' = b \cup {e}
  BY <1>1, <1>2, <1>5, <1>6
<1>. HIDE DEF e, b
<1>8. Recorded' \ b = {e}
  BY <1>4, <1>7
<1>9. Cardinality(Recorded' \ b) = 1
  BY <1>8, FS_Singleton
<1>10. (CHOOSE x \in Recorded' \ b : TRUE) = e
  BY <1>8
<1>11. Book!Transfer
  BY <1>4, <1>7, <1>9, <1>10, BookCardinality DEF Book!Transfer, b
<1>. QED  BY <1>7, <1>11 DEF e, b

(* The three block files are one book of transfers, numbered without gap or *)
(* repetition, to which only feasible transfers between members are added,  *)
(* one at a time, as long as Server-M is not stopped with a request in      *)
(* hand and no write to a file fails: whatever the requests and the blocks, *)
(* and whatever backend restarts when.                                      *)
THEOREM FilesAreABook == ~StopsAnytime /\ ~WritesFail => (Spec => CoinBookSpec)
<1>. SUFFICES ASSUME ~StopsAnytime, ~WritesFail PROVE Spec => CoinBookSpec
  OBVIOUS
<1>1. Init => Book!Init
  <2>. SUFFICES ASSUME Init PROVE Book!Numbered
    BY DEF Book!Init
  <2>1. Service
    BY InitService
  <2>2. FilesType(blockfile) /\ Numbered(blockfile)
    BY <2>1, MailTypes DEF Service
  <2>3. {e.serial : e \in BookOf(blockfile)} = 1 .. Cardinality(BookOf(blockfile))
    BY <2>2, BookType
  <2>. QED  BY <2>3, RecordedIs, BookCardinality DEF Book!Numbered
<1>2. ASSUME Service, [Next]_vars PROVE [Book!Next]_Recorded
  <2>1. CASE UNCHANGED blockfile
    <3>1. Recorded' = Recorded
      BY <2>1 DEF Recorded
    <3>. QED  BY <3>1
  <2>2. CASE pc = "confirm" /\ Records
    BY <1>2, <2>2, RecordsTransfer DEF Book!Next
  <2>. QED  BY <1>2, <2>1, <2>2, StepService
<1>3. Service /\ [Next]_vars => [Book!Next]_Recorded
  BY <1>2
<1>. QED  BY <1>1, <1>3, AlwaysService, PTL DEF Spec, CoinBookSpec, Book!Spec

-----------------------------------------------------------------------------
(* The answers.                                                             *)

(* What has been collected when it comes to compute.                        *)
LEMMA Computing ==
  ASSUME Service, pc = "compute"
  PROVE  /\ FilesType(blockfile) /\ Numbered(blockfile) /\ Recorded = BookOf(blockfile)
         /\ CollectedOf(blockfile, Backends, txns, max_serial)
<1>1. FilesType(blockfile) /\ Numbered(blockfile) /\ Recorded = BookOf(blockfile)
  BY MailTypes, RecordedIs DEF Service
<1>2. CollectedOf(blockfile, Backends, txns, max_serial)
  BY OrderDistinct DEF Service, Collecting, Asked, Types, PhaseType
<1>. QED  BY <1>1, <1>2

LEMMA WalletAnswer == ASSUME Service, CheckWallet PROVE AnswersTrue'
<1>1. /\ pc = "compute" /\ req.op = "CHECK_WALLET" /\ req' = req /\ blockfile' = blockfile
      /\ answer' = IF DOMAIN txns = {} THEN [kind |-> "NOTFOUND"]
                   ELSE [kind |-> "FOUND", balance |-> BalanceIn(txns, req.user)]
  BY DEF CheckWallet, backendVars
<1>2. Recorded' = Recorded
  BY <1>1 DEF Recorded
<1>3. /\ BalanceIn(txns, req.user) = Book!Balance(Recorded, req.user)
      /\ FoundIn(txns, req.user) <=> Book!Member(Recorded, req.user)
  BY <1>1, Computing, CoversIs, CollectedBalance, CollectedMember
<1>4. CASE DOMAIN txns = {}
  <2>1. answer' = [kind |-> "NOTFOUND"]
    BY <1>1, <1>4
  <2>2. "balance" \notin DOMAIN answer' /\ answer'.kind = "NOTFOUND"
    BY <2>1
  <2>3. ~Book!Member(Recorded', req'.user)
    BY <1>1, <1>2, <1>3, <1>4 DEF FoundIn
  <2>. QED  BY <2>2, <2>3 DEF AnswersTrue
<1>5. CASE DOMAIN txns # {}
  <2>1. answer' = [kind |-> "FOUND", balance |-> BalanceIn(txns, req.user)]
    BY <1>1, <1>5
  <2>2. answer'.kind = "FOUND" /\ answer'.balance = BalanceIn(txns, req.user)
    BY <2>1
  <2>3. answer'.balance = Book!Balance(Recorded', req'.user) /\ req'.op = "CHECK_WALLET"
    BY <1>1, <1>2, <1>3, <2>2
  <2>. QED  BY <2>2, <2>3 DEF AnswersTrue
<1>. QED  BY <1>4, <1>5

LEMMA RefusedAnswer == ASSUME Service, TxCoinsRefused PROVE AnswersTrue'
<1>1. /\ pc = "compute" /\ req.op = "TXCOINS" /\ req' = req /\ blockfile' = blockfile
      /\ Refusal # "none"
      /\ answer' = IF Refusal = "INSUFFICIENT"
                   THEN [kind |-> "INSUFFICIENT", balance |-> BalanceIn(txns, req.sender)]
                   ELSE [kind |-> Refusal]
  BY DEF TxCoinsRefused, backendVars
<1>2. Recorded' = Recorded
  BY <1>1 DEF Recorded
<1>3. /\ BalanceIn(txns, req.sender) = Book!Balance(Recorded, req.sender)
      /\ FoundIn(txns, req.sender) <=> Book!Member(Recorded, req.sender)
      /\ FoundIn(txns, req.receiver) <=> Book!Member(Recorded, req.receiver)
  BY <1>1, Computing, CoversIs, CollectedBalance, CollectedMember
<1>4. CASE Refusal = "INSUFFICIENT"
  <2>1. answer' = [kind |-> "INSUFFICIENT", balance |-> BalanceIn(txns, req.sender)]
    BY <1>1, <1>4
  <2>2. answer'.kind = "INSUFFICIENT" /\ answer'.balance = BalanceIn(txns, req.sender)
    BY <2>1
  <2>3. answer'.balance = Book!Balance(Recorded', req'.sender) /\ req'.op # "CHECK_WALLET"
    BY <1>1, <1>2, <1>3, <2>2
  <2>. QED  BY <2>2, <2>3 DEF AnswersTrue
<1>5. CASE Refusal # "INSUFFICIENT"
  <2>1. answer' = [kind |-> Refusal]
    BY <1>1, <1>5
  <2>2. "balance" \notin DOMAIN answer' /\ answer'.kind = Refusal
    BY <2>1
  <2>3. /\ Refusal # "NOTFOUND"
        /\ Refusal \in {"MISSINGSENDER", "MISSINGBOTH"} => ~FoundIn(txns, req.sender)
        /\ Refusal \in {"MISSINGRECEIVER", "MISSINGBOTH"} => ~FoundIn(txns, req.receiver)
    BY DEF Refusal
  <2>4. /\ answer'.kind # "NOTFOUND"
        /\ answer'.kind \in {"MISSINGSENDER", "MISSINGBOTH"} => ~Book!Member(Recorded', req'.sender)
        /\ answer'.kind \in {"MISSINGRECEIVER", "MISSINGBOTH"} =>
             ~Book!Member(Recorded', req'.receiver)
    BY <1>1, <1>2, <1>3, <2>2, <2>3
  <2>. QED  BY <2>2, <2>4 DEF AnswersTrue
<1>. QED  BY <1>4, <1>5

LEMMA PaidAnswer == ASSUME Service, TxCoinsDone PROVE AnswersTrue'
<1>1. /\ pc = "confirm" /\ mbox # <<>> /\ req' = req /\ blockfile' = blockfile
      /\ answer' = [kind |-> "SUCCESS", balance |-> BalanceIn(txns, req.sender) - req.amount]
  BY DEF TxCoinsDone, backendVars
<1>2. Recorded' = Recorded
  BY <1>1 DEF Recorded
<1>3. PICK old : Paid(old)
  BY <1>1 DEF Service, Confirming
<1>4. PICK s \in Backends : blockfile = WithRow(old, s, NewRow)
  BY <1>3 DEF Paid
<1>. DEFINE e == Decrypt(NewRow)
            b == BookOf(old)
<1>5. /\ e \in Txn /\ e \notin b
      /\ e.sender = req.sender /\ e.receiver = req.receiver /\ e.amount = req.amount
      /\ IsFiniteSet(b) /\ b \subseteq Txn
      /\ Book!Member(b, req.sender)
      /\ BalanceIn(txns, req.sender) = Book!Balance(b, req.sender)
      /\ Book!Balance(b, req.sender) \in Int /\ req.amount \in Nat
      /\ NewRow \in Row
  BY <1>1, <1>3, PayingIs DEF Paid, Service
<1>6. Recorded = b \cup {e}
  BY <1>3, <1>4, <1>5, RecordedIs, BookGrows DEF Paid, Paying
<1>7. req \in Requests /\ req.op = "TXCOINS"
  BY <1>1 DEF Service, Types, ReqType
<1>. HIDE DEF e, b
<1>8. answer'.kind = "SUCCESS" /\ req'.op # "CHECK_WALLET"
  BY <1>1, <1>7
<1>9. ASSUME req.sender # req.receiver
      PROVE  answer'.balance = Book!Balance(Recorded', req'.sender)
  <2>1. Change(e, req.sender) = 0 - req.amount
    BY <1>5, <1>9 DEF Change
  <2>2. Book!Balance(b \cup {e}, req.sender) = Book!Balance(b, req.sender) + Change(e, req.sender)
    BY <1>5, BalanceAfter
  <2>3. BalanceIn(txns, req.sender) - req.amount = Book!Balance(Recorded, req.sender)
    BY <1>5, <1>6, <2>1, <2>2
  <2>. QED  BY <1>1, <1>2, <2>3
<1>. QED  BY <1>1, <1>8, <1>9 DEF AnswersTrue, PaidItself

(* Every answer is true by all that the three files hold, when it is given  *)
(* and until the next request: a balance is the user's, its own new         *)
(* transfer included unless it paid itself, and a user called missing is in *)
(* no file.  Server-M must not be stopped with a request in hand, and no    *)
(* write to a file may fail.                                                *)
THEOREM AnswersAreTrue == ~StopsAnytime /\ ~WritesFail => (Spec => []AnswersTrue)
<1>. SUFFICES ASSUME ~StopsAnytime, ~WritesFail PROVE Spec => []AnswersTrue
  OBVIOUS
<1>1. Init => AnswersTrue
  <2>. SUFFICES ASSUME Init PROVE AnswersTrue
    OBVIOUS
  <2>1. answer = [kind |-> "none"]
    BY DEF Init, NoAnswer
  <2>2. "balance" \notin DOMAIN answer /\ answer.kind = "none"
    BY <2>1
  <2>. QED  BY <2>2 DEF AnswersTrue
<1>2. ASSUME Service, AnswersTrue, [Next]_vars PROVE AnswersTrue'
  <2>1. CASE answer' = NoAnswer
    <3>1. "balance" \notin DOMAIN answer' /\ answer'.kind = "none"
      BY <2>1 DEF NoAnswer
    <3>. QED  BY <3>1 DEF AnswersTrue
  <2>2. CASE CheckWallet
    BY <1>2, <2>2, WalletAnswer
  <2>3. CASE TxCoinsRefused
    BY <1>2, <2>3, RefusedAnswer
  <2>4. CASE TxCoinsDone
    BY <1>2, <2>4, PaidAnswer
  <2>5. CASE TxList
    <3>1. answer' = [kind |-> "OK"]
      BY <2>5 DEF TxList
    <3>2. "balance" \notin DOMAIN answer' /\ answer'.kind = "OK"
      BY <3>1
    <3>. QED  BY <3>2 DEF AnswersTrue
  <2>6. CASE UNCHANGED <<answer, blockfile, txchain, req>>
    <3>1. Recorded' = Recorded
      BY <2>6 DEF Recorded
    <3>. QED  BY <1>2, <2>6, <3>1 DEF AnswersTrue, PaidItself
  <2>. QED  BY <1>2, <2>1, <2>2, <2>3, <2>4, <2>5, <2>6, AnswerStands
<1>3. Service /\ AnswersTrue /\ [Next]_vars => AnswersTrue'
  BY <1>2
<1>. QED  BY <1>1, <1>3, AlwaysService, PTL DEF Spec
=============================================================================
