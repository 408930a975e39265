---------------------------- MODULE MCMainServer ----------------------------
(* MainServer with two members, one stranger, and three block files.        *)
EXTENDS MainServer, TLC

(* The members x and y; z appears in no file.  25 wraps around in the       *)
(* cipher, and so does the amount 8.                                        *)
x == 0
y == 25
z == 7

Line(serial, from, to, amount) ==
  [serial |-> serial, sender |-> EncName(from), receiver |-> EncName(to),
   amount |-> EncAmount(amount)]

MCBlocks ==
  (A :> <<Line(2, x, y, 1)>>) @@ (B :> <<Garbage, Line(1, y, x, 8)>>) @@ (C :> <<>>)

MCNames == {x, y, z}

Pay(from, to, amount) ==
  [op |-> "TXCOINS", sender |-> from, receiver |-> to, amount |-> amount]

MCRequests ==
  {[op |-> "CHECK_WALLET", user |-> x], [op |-> "CHECK_WALLET", user |-> z],
   Pay(x, y, 8), Pay(y, x, 3), Pay(y, y, 3), Pay(x, z, 1), Pay(z, y, 1), Pay(z, z, 1),
   [op |-> "UNKNOWN"]}
=============================================================================
