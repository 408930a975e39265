------------------------------ MODULE MCTxNode ------------------------------
(* TxNode on three accounts: who submits what.                              *)
EXTENDS TxNode, TLC

CONSTANTS a1, a2, a3

MCAlloc == (a1 :> 2) @@ (a2 :> 1) @@ (a3 :> 1)

Transfer(from, to, amount, nonce, auth) ==
  [from |-> from, to |-> to, amount |-> amount, nonce |-> nonce, auth |-> auth]

(* a1 pays a2 twice or a3 once, a2 can pay only once it was paid, a3       *)
(* competes; the last two must be turned away.                              *)
MCTxns ==
  {Transfer(a1, a2, 1, 0, "signed"), Transfer(a1, a2, 1, 1, "signed"),
   Transfer(a2, a3, 2, 0, "signed"), Transfer(a3, a1, 1, 0, "signed"),
   Transfer(a1, a3, 2, 0, "signed"), Transfer(a3, a1, 1, 0, "badSig"),
   Transfer(NullAddr, a1, 1, 1, "null")}
=============================================================================
