------------------------------- MODULE Backend -------------------------------
(***************************************************************************)
(* The backend servers A, B and C of the socket system (serverA.cpp; the   *)
(* other two differ in port and file).  Each keeps rows in ciphertext, in  *)
(* memory and in its block file, and answers one datagram at a time.       *)
(***************************************************************************)
EXTENDS Integers, Sequences, SequencesExt

CONSTANTS
  Backends,   \* A, B and C
  Garbage,    \* a line of a block file that does not parse
  NoName,     \* "*": no second name in a QUERY
  WritesFail  \* may the write of a row to a block file fail, which nobody notices?

ASSUME BackendAssumption == WritesFail \in BOOLEAN

(* Ciphertext: a name stands for its letters, an amount for its digits, and *)
(* both are shifted, names modulo 26 and amounts modulo 10.                 *)
CipherName == 0 .. 25
CipherAmount == 0 .. 9

Row == [serial : Nat, sender : CipherName, receiver : CipherName, amount : CipherAmount]

VARIABLES
  g_txns,     \* per backend: the rows in memory
  blockfile,  \* per backend: the lines of block<i>.txt
  inbox       \* per backend: the datagrams that wait in its socket

backendVars == <<g_txns, blockfile, inbox>>

(* parse_row, and the places of the lines that parse.                       *)
Parses(line) == line # Garbage
Places(lines) == {i \in 1 .. Len(lines) : Parses(lines[i])}

(* A reply: the highest serial of the block, and some of its rows, each at  *)
(* the place of its line.                                                   *)
MaxSerial(lines) == Max({0} \cup {lines[i].serial : i \in Places(lines)})
Reply(lines, places) == [max |-> MaxSerial(lines), rows |-> [i \in places |-> lines[i]]]

(* Mutant: only the sender is matched.                                      *)
HandleQuery_SenderOnly(lines, name1, name2) ==
  Reply(lines, {i \in Places(lines) :
                  lines[i].sender = name1 \/ (name2 # NoName /\ lines[i].sender = name2)})

HandleQuery(lines, name1, name2) ==
  Reply(lines, {i \in Places(lines) :
                  \/ name1 \in {lines[i].sender, lines[i].receiver}
                  \/ name2 # NoName /\ name2 \in {lines[i].sender, lines[i].receiver}})

HandleAll(lines) == Reply(lines, Places(lines))

(* The confirmation of a NEW, which parses to no serial and no rows.        *)
OKReply == [max |-> 0, rows |-> <<>>]

(* What backend s answers to a datagram.                                    *)
ReplyTo(s, msg) ==
  CASE msg.op = "QUERY" -> HandleQuery(g_txns[s], msg.name1, msg.name2)
    [] msg.op = "ALL" -> HandleAll(g_txns[s])
    [] msg.op = "NEW" -> OKReply

(* A NEW is appended to the rows (handle_new).                              *)
Added(lines, msg) == IF msg.op = "NEW" THEN Append(lines, msg.row) ELSE lines

(* What the file holds after it: ofstream is not asked whether the write    *)
(* worked (a full disk, a file that cannot be opened).                      *)
Persisted(lines, msg) == {Added(lines, msg)} \cup (IF WritesFail THEN {lines} ELSE {})

(* One turn of main's loop up to the answer.                                *)
TakeRequest(s) ==
  /\ inbox[s] # <<>>
  /\ inbox' = [inbox EXCEPT ![s] = Tail(@)]
  /\ g_txns' = [g_txns EXCEPT ![s] = Added(@, Head(inbox[s]))]
  /\ \E lines \in Persisted(blockfile[s], Head(inbox[s])) :
       blockfile' = [blockfile EXCEPT ![s] = lines]

(* A backend dies, perhaps in the middle of a request it has recorded but   *)
(* not answered, and load_block restores what its file holds.  The          *)
(* datagrams in its socket are lost.                                        *)
RestartBackend(s) ==
  \E lines \in {blockfile[s]} \cup
               (IF inbox[s] = <<>> THEN {} ELSE {Added(blockfile[s], Head(inbox[s]))}) :
    /\ blockfile' = [blockfile EXCEPT ![s] = lines]
    /\ g_txns' = [g_txns EXCEPT ![s] = lines]
    /\ inbox' = [inbox EXCEPT ![s] = <<>>]
=============================================================================
