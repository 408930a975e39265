-------------------------------- MODULE MCRpc --------------------------------
(* Rpc with two sends of one wallet and one of another.                     *)
EXTENDS Rpc, TLC

CONSTANTS a1, a2, s1, s2, s3

MCAlloc == (a1 :> 2) @@ (a2 :> 1)

Pays(from, to, amount) == [from |-> from, to |-> to, amount |-> amount]

(* s1 and s2 ask for the same payment; s3 can pay only after one of them.   *)
MCTransfer == (s1 :> Pays(a1, a2, 1)) @@ (s2 :> Pays(a1, a2, 1)) @@ (s3 :> Pays(a2, a1, 2))
=============================================================================
