------------------------------- MODULE Mempool -------------------------------
(***************************************************************************)
(* class Mempool (mempool.cpp): validated transactions that wait for a     *)
(* block, at most one per sender, kept under three indexes.  A txid is the *)
(* content of the transaction.  The committed accounts are a parameter, as *)
(* the AccountLookup callback is in the code.                              *)
(***************************************************************************)
EXTENDS Ledger, FiniteSets

CONSTANT MempoolCap     \* cap_: how many transactions may wait

ASSUME MempoolAssumption == MempoolCap \in Nat

VARIABLES
  byTxid,     \* byTxid_: txid -> admission number (feeless_seq)
  bySender,   \* bySender_: sender -> txid, the single pending slot
  bySeq,      \* bySeq_: admission number -> txid
  next_seq    \* next_seq_

mempoolVars == <<byTxid, bySender, bySeq, next_seq>>

Pending == DOMAIN byTxid
HasPending(a) == a \in DOMAIN bySender

MempoolNew ==
  /\ byTxid = <<>>
  /\ bySender = <<>>
  /\ bySeq = <<>>
  /\ next_seq = 0

(* Map updates: f with k set to v, and f without the keys in K.             *)
Put(f, k, v) == [x \in DOMAIN f \cup {k} |-> IF x = k THEN v ELSE f[x]]
Erase(f, K) == [x \in DOMAIN f \ K |-> f[x]]

-----------------------------------------------------------------------------
(* Mutant: a second transaction of a sender may wait.                       *)
AdmitResult_NoSlot(t, st) ==
  LET r == ApplyTxnReason(st, t, 0, 1) IN
  IF t \in Pending THEN "DUPLICATE"
  ELSE IF r # "OK" THEN r
  ELSE IF Cardinality(Pending) >= MempoolCap THEN "MEMPOOL_FULL"
  ELSE "OK"

(* The verdict of admit(t) against the accounts st, in the order of the     *)
(* code: duplicate, gate, slot, funds, capacity.                            *)
AdmitResult(t, st) ==
  LET r == ApplyTxnReason(st, t, 0, 1) IN
  IF t \in Pending THEN "DUPLICATE"
  ELSE IF r \in {"BAD_ADDR", "BAD_SIG", "STALE_NONCE"} THEN r
  ELSE IF r \notin {"OK", "INSUFFICIENT_FUNDS"} THEN "BAD_ADDR"
  ELSE IF HasPending(t.from) THEN "PENDING_SLOT_BUSY"
  ELSE IF r = "INSUFFICIENT_FUNDS" THEN r
  ELSE IF Cardinality(Pending) >= MempoolCap THEN "MEMPOOL_FULL"
  ELSE "OK"

(* admit(t): takes the slot and the next admission number, or nothing.      *)
Admit(t, st) ==
  \/ /\ AdmitResult(t, st) = "OK"
     /\ next_seq' = next_seq + 1
     /\ byTxid' = Put(byTxid, t, next_seq)
     /\ bySender' = Put(bySender, t.from, t)
     /\ bySeq' = Put(bySeq, next_seq, t)
  \/ /\ AdmitResult(t, st) # "OK"
     /\ UNCHANGED mempoolVars

(* Mutant: the sender's slot is not freed.                                  *)
EvictIncluded_KeepSlot(txns) ==
  LET ids == {txns[i] : i \in 1 .. Len(txns)} \cap Pending IN
  /\ bySeq' = Erase(bySeq, {byTxid[id] : id \in ids})
  /\ byTxid' = Erase(byTxid, ids)
  /\ UNCHANGED <<bySender, next_seq>>

(* evictIncluded: the included transactions that are pending leave all      *)
(* three indexes; a slot is freed only if it holds that transaction.        *)
EvictIncluded(txns) ==
  LET ids == {txns[i] : i \in 1 .. Len(txns)} \cap Pending IN
  /\ bySeq' = Erase(bySeq, {byTxid[id] : id \in ids})
  /\ bySender' = Erase(bySender, {a \in DOMAIN bySender : a \in {id.from : id \in ids}
                                                     /\ bySender[a] \in ids})
  /\ byTxid' = Erase(byTxid, ids)
  /\ UNCHANGED next_seq

(* Mutant: sorted the other way round.                                      *)
SeqsFrom_Newest(cursor) ==
  {n \in DOMAIN bySeq : n >= cursor /\ \A m \in DOMAIN bySeq : m <= n}

(* The admission numbers sortedBySeq visits from `cursor' on.               *)
SeqsFrom(cursor) == {n \in DOMAIN bySeq : n >= cursor /\ bySeq[n] \in Pending}

-----------------------------------------------------------------------------
MempoolTypeOK ==
  /\ next_seq \in Nat
  /\ byTxid \in [Pending -> Nat]
  /\ Pending \subseteq Txn
  /\ bySender \in [DOMAIN bySender -> Pending]
  /\ DOMAIN bySender \subseteq Acct
  /\ bySeq \in [DOMAIN bySeq -> Pending]
  /\ DOMAIN bySeq \subseteq Nat

(* The three indexes describe one set of pending transactions: every        *)
(* transaction holds its sender's slot and its admission number, no slot    *)
(* and no number is left behind (mempool.cpp, admit and evictIncluded).     *)
IndexesAgree ==
  /\ \A t \in Pending :
       /\ t.from \in DOMAIN bySender /\ bySender[t.from] = t
       /\ byTxid[t] \in DOMAIN bySeq /\ bySeq[byTxid[t]] = t
       /\ byTxid[t] < next_seq
  /\ \A a \in DOMAIN bySender : bySender[a] \in Pending /\ bySender[a].from = a
  /\ \A n \in DOMAIN bySeq : bySeq[n] \in Pending /\ byTxid[bySeq[n]] = n
=============================================================================
