------------------------------ MODULE CoinBook ------------------------------
(***************************************************************************)
(* What the socket system promises of its three block files together: one  *)
(* book of transfers, numbered without gap or repetition, that grows by    *)
(* one feasible transfer at a time.                                        *)
(***************************************************************************)
EXTENDS Integers, FiniteSets, FiniteSetsExt

CONSTANT INITIAL_BALANCE  \* what every member starts with

VARIABLE book             \* the transfers, in plaintext

Entry(serial, from, to, amount) ==
  [serial |-> serial, sender |-> from, receiver |-> to, amount |-> amount]

Member(b, user) == \E e \in b : user \in {e.sender, e.receiver}

Balance(b, user) ==
  INITIAL_BALANCE
    + MapThenSumSet(LAMBDA e : e.amount, {e \in b : e.receiver = user})
    - MapThenSumSet(LAMBDA e : e.amount, {e \in b : e.sender = user})

Numbered == {e.serial : e \in book} = 1 .. Cardinality(book)

Init == Numbered

(* A transfer between two members that the sender can pay.                  *)
Transfer ==
  /\ Cardinality(book' \ book) = 1
  /\ book \subseteq book'
  /\ LET e == CHOOSE x \in book' \ book : TRUE
     IN /\ e.serial = Cardinality(book) + 1
        /\ Member(book, e.sender) /\ Member(book, e.receiver)
        /\ Balance(book, e.sender) >= e.amount

Next == Transfer

Spec == Init /\ [][Next]_book
=============================================================================
