------------------------------- MODULE MCChain -------------------------------
(* ChainClient on two accounts: who may send what, and the sizes.           *)
EXTENDS ChainClient, TLC

CONSTANTS a1, a2

MCAlloc == (a1 :> 2) @@ (a2 :> 1)

Transfer(from, to, amount, nonce, auth) ==
  [from |-> from, to |-> to, amount |-> amount, nonce |-> nonce, auth |-> auth]

(* Transfers between different accounts; a1 can spend twice, a2 only after  *)
(* it was paid, and one transfer burns a coin at the null address.          *)
MCTransfers ==
  {Transfer(a1, a2, 1, 0, "signed"), Transfer(a1, a2, 2, 1, "signed"),
   Transfer(a2, a1, 2, 0, "signed"), Transfer(a1, NullAddr, 1, 0, "signed"),
   Transfer(a1, a2, 1, 0, "badSig"), Transfer(a2, a1, 1, 0, "badAddr")}

(* A transfer whose sender is its receiver.                                 *)
MCSelfTransfers == {Transfer(a1, a1, 1, 0, "signed")}
=============================================================================
