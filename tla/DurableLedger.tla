---------------------------- MODULE DurableLedger ----------------------------
(***************************************************************************)
(* What a node promises about its chain file, however it is built and      *)
(* however often the process dies: it starts with genesis and only ever    *)
(* grows, by one block that links to the last one, is younger than it, and *)
(* carries no transfer the ledger already has.                             *)
(***************************************************************************)
EXTENDS Ledger

VARIABLE ledger

Init == ledger = <<>>

Transfers(b) == {b.txns[i] : i \in 1 .. Len(b.txns)} \ {t \in Txn : t.from = NullAddr}

Extends(b) ==
  LET tip == ledger[Len(ledger)].header IN
  /\ b.header.index = Len(ledger)
  /\ b.header.prevHash = HeaderHash(tip)
  /\ b.header.timestamp > tip.timestamp
  /\ \A i \in 1 .. Len(ledger) : Transfers(b) \cap Transfers(ledger[i]) = {}

Start ==
  /\ ledger = <<>>
  /\ ledger' = <<GenesisBlock>>

Extend ==
  /\ ledger # <<>>
  /\ Len(ledger') = Len(ledger) + 1
  /\ LET b == ledger'[Len(ledger')] IN Extends(b) /\ ledger' = Append(ledger, b)

Next == Start \/ Extend

Spec == Init /\ [][Next]_ledger
=============================================================================
