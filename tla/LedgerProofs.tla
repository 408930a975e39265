---------------------------- MODULE LedgerProofs ----------------------------
(***************************************************************************)
(* Facts about the operators of Ledger, Mempool and Replay that the proofs *)
(* about the chain, the node, the RPC server and the tool rest on: the     *)
(* gate, the mempool's indexes, sums over accounts, and what a chain that  *)
(* replays leads through.                                                  *)
(***************************************************************************)
EXTENDS Mempool, Replay, SequenceTheorems, FiniteSetTheorems, WellFoundedInduction, TLAPS

(* The genesis values have their types.                                     *)
LEMMA GenesisType == ApplyGenesis \in Accounts /\ GenesisBlock \in Block
<1>1. ApplyGenesis \in Accounts
  BY LedgerAssumption DEF ApplyGenesis, Accounts, AccountState, Acct
<1>2. GenesisBlock.header \in BlockHeader
  BY DEF GenesisBlock, BlockHeader, GENESIS_TIMESTAMP, ZeroHash, Hash256, PowNonce
<1>3. GenesisBlock \in Block
  BY <1>2 DEF GenesisBlock, Block
<1>. QED  BY <1>1, <1>3

(* A credit keeps balances natural numbers.                                 *)
LEMMA CreditType ==
  ASSUME NEW w \in Accounts, NEW a \in Acct, NEW n \in Nat
  PROVE  Credit(w, a, n) \in Accounts
BY DEF Credit, Accounts, AccountState

(* A transaction the gate lets pass has a funded, existing sender.          *)
LEMMA GateOK ==
  ASSUME NEW w, NEW t, NEW i, NEW k, ApplyTxnReason(w, t, i, k) = "OK", t.from # NullAddr
  PROVE  t.auth \notin {"badAddr", "null", "badSig"} /\ t.nonce = w[t.from].nonce
           /\ ~(t.amount > w[t.from].balance)
BY DEF ApplyTxnReason

(* applyTxn keeps balances natural numbers: a debit is covered.             *)
LEMMA ApplyTxnType ==
  ASSUME NEW w \in Accounts, NEW t \in Txn, NEW i, NEW k, NEW c,
         BlockTxnReason(w, t, i, k, c) = "OK"
  PROVE  ApplyTxn(w, t) \in Accounts
<1>1. CASE t.from = NullAddr
  BY <1>1, CreditType DEF ApplyTxn, Txn
<1>2. CASE t.from # NullAddr
  <2>1. ApplyTxnReason(w, t, i, k) = "OK"
    BY <1>2 DEF BlockTxnReason
  <2>2. /\ w[t.from].balance \in Nat /\ w[t.from].nonce \in Nat
        /\ w[t.to].balance \in Nat /\ w[t.to].nonce \in Nat
        /\ t.amount \in Nat /\ t.from \in Acct /\ t.to \in Acct
    BY DEF Txn, Accounts, AccountState
  <2>3. t.amount <= w[t.from].balance
    BY <2>1, <2>2, <1>2, GateOK
  <2>4. w[t.from].balance - t.amount \in Nat
    BY <2>2, <2>3
  <2>. QED
    BY <1>2, <2>2, <2>4 DEF ApplyTxn, Accounts, AccountState
<1>. QED  BY <1>1, <1>2

-----------------------------------------------------------------------------
(* The gate, for a user transaction.                                        *)

Passes(w, t) ==
  /\ t.from # NullAddr
  /\ t.auth \notin {"badAddr", "null", "badSig"}
  /\ t.nonce = w[t.from].nonce
  /\ ~(t.amount > w[t.from].balance)

(* Admission and connection ask the same of it, wherever it stands.         *)
LEMMA GateSame ==
  ASSUME NEW w, NEW t
  PROVE  /\ ApplyTxnReason(w, t, 0, 1) = "OK" <=> Passes(w, t)
         /\ Passes(w, t) => \A i, k, c : BlockTxnReason(w, t, i, k, c) = "OK"
BY DEF ApplyTxnReason, BlockTxnReason, Passes

(* Applying another sender's transaction, or a coinbase, does not spoil it: *)
(* it can only credit the sender.                                           *)
LEMMA GateKept ==
  ASSUME NEW w \in Accounts, NEW t \in Txn, NEW u \in Txn,
         Passes(w, t), u.from # t.from
  PROVE  Passes(ApplyTxn(w, u), t)
<1>1. /\ t.from \in Acct /\ u.to \in Acct /\ u.from \in Acct
      /\ t.amount \in Nat /\ u.amount \in Nat
  BY DEF Txn
<1>2. w[t.from].balance \in Nat /\ w[u.to].balance \in Nat
  BY <1>1 DEF Accounts, AccountState
<1>3. /\ ApplyTxn(w, u)[t.from].nonce = w[t.from].nonce
      /\ ApplyTxn(w, u)[t.from].balance = w[t.from].balance
           + IF u.to = t.from THEN u.amount ELSE 0
  <2>1. CASE u.from = NullAddr
    BY <1>1, <1>2, <2>1 DEF ApplyTxn, Credit, Accounts, AccountState
  <2>2. CASE u.from # NullAddr
    BY <1>1, <1>2, <2>2 DEF ApplyTxn, Accounts
  <2>. QED  BY <2>1, <2>2
<1>. QED  BY <1>1, <1>2, <1>3 DEF Passes

-----------------------------------------------------------------------------
(* The mempool.                                                             *)

(* An empty mempool is well formed.                                         *)
LEMMA MempoolEmpty ==
  ASSUME MempoolNew
  PROVE  MempoolTypeOK /\ IndexesAgree
BY DEF MempoolNew, MempoolTypeOK, IndexesAgree, Pending

(* admit keeps the three indexes together.                                  *)
LEMMA AdmitIndexes ==
  ASSUME MempoolTypeOK, IndexesAgree, NEW t \in Txn, NEW st, Admit(t, st)
  PROVE  MempoolTypeOK' /\ IndexesAgree'
<1>1. CASE AdmitResult(t, st) # "OK"
  BY <1>1 DEF Admit, MempoolTypeOK, IndexesAgree, mempoolVars, Pending
<1>2. CASE AdmitResult(t, st) = "OK"
  <2>1. t \notin Pending /\ t.from \notin DOMAIN bySender
    BY <1>2 DEF AdmitResult, HasPending
  <2>2. /\ next_seq' = next_seq + 1
        /\ byTxid' = Put(byTxid, t, next_seq)
        /\ bySender' = Put(bySender, t.from, t)
        /\ bySeq' = Put(bySeq, next_seq, t)
    BY <1>2 DEF Admit
  <2>3. t.from \in Acct
    BY DEF Txn
  <2>4. next_seq \in Nat /\ next_seq \notin DOMAIN bySeq
    <3>1. ASSUME next_seq \in DOMAIN bySeq PROVE FALSE
      <4>1. bySeq[next_seq] \in Pending /\ byTxid[bySeq[next_seq]] = next_seq
        BY <3>1 DEF IndexesAgree
      <4>2. byTxid[bySeq[next_seq]] < next_seq
        BY <4>1 DEF IndexesAgree
      <4>. QED  BY <4>1, <4>2 DEF MempoolTypeOK
    <3>. QED  BY <3>1 DEF MempoolTypeOK
  <2>5. /\ DOMAIN byTxid' = Pending \cup {t}
        /\ \A x \in Pending : byTxid'[x] = byTxid[x]
        /\ byTxid'[t] = next_seq
    BY <2>1, <2>2 DEF Put, Pending
  <2>6. /\ DOMAIN bySender' = DOMAIN bySender \cup {t.from}
        /\ \A x \in DOMAIN bySender : bySender'[x] = bySender[x]
        /\ bySender'[t.from] = t
    BY <2>1, <2>2 DEF Put
  <2>7. /\ DOMAIN bySeq' = DOMAIN bySeq \cup {next_seq}
        /\ \A x \in DOMAIN bySeq : bySeq'[x] = bySeq[x]
        /\ bySeq'[next_seq] = t
    BY <2>4, <2>2 DEF Put
  <2>8. MempoolTypeOK'
    <3>1. byTxid' \in [Pending' -> Nat] /\ Pending' \subseteq Txn
      BY <2>2, <2>4, <2>5 DEF MempoolTypeOK, Put, Pending
    <3>2. bySender' \in [DOMAIN bySender' -> Pending'] /\ (DOMAIN bySender)' \subseteq Acct
      BY <2>2, <2>3, <2>5, <2>6 DEF MempoolTypeOK, Put, Pending
    <3>3. bySeq' \in [DOMAIN bySeq' -> Pending'] /\ (DOMAIN bySeq)' \subseteq Nat
      BY <2>2, <2>4, <2>5, <2>7 DEF MempoolTypeOK, Put, Pending
    <3>. QED  BY <2>2, <2>4, <3>1, <3>2, <3>3 DEF MempoolTypeOK
  <2>9. ASSUME NEW x \in Pending'
        PROVE  /\ x.from \in DOMAIN bySender' /\ bySender'[x.from] = x
               /\ byTxid'[x] \in DOMAIN bySeq' /\ bySeq'[byTxid'[x]] = x
               /\ byTxid'[x] < next_seq'
    <3>1. CASE x = t
      BY <3>1, <2>2, <2>4, <2>5, <2>6, <2>7
    <3>2. CASE x \in Pending
      <4>1. /\ x.from \in DOMAIN bySender /\ bySender[x.from] = x
            /\ byTxid[x] \in DOMAIN bySeq /\ bySeq[byTxid[x]] = x
            /\ byTxid[x] < next_seq
        BY <3>2 DEF IndexesAgree
      <4>2. byTxid[x] \in Nat
        BY <3>2 DEF MempoolTypeOK
      <4>. QED  BY <3>2, <4>1, <4>2, <2>2, <2>4, <2>5, <2>6, <2>7
    <3>. QED  BY <3>1, <3>2, <2>5 DEF Pending
  <2>10. ASSUME NEW a \in DOMAIN bySender'
         PROVE  bySender'[a] \in Pending' /\ bySender'[a].from = a
    BY <2>5, <2>6 DEF IndexesAgree, Pending
  <2>11. ASSUME NEW n \in DOMAIN bySeq'
         PROVE  bySeq'[n] \in Pending' /\ byTxid'[bySeq'[n]] = n
    BY <2>5, <2>7 DEF IndexesAgree, Pending
  <2>. QED  BY <2>8, <2>9, <2>10, <2>11 DEF IndexesAgree
<1>. QED  BY <1>1, <1>2

(* evictIncluded keeps the three indexes together, and exactly the included *)
(* transactions leave.                                                      *)
LEMMA EvictIndexes ==
  ASSUME MempoolTypeOK, IndexesAgree, NEW txns, EvictIncluded(txns)
  PROVE  /\ MempoolTypeOK' /\ IndexesAgree'
         /\ Pending' = Pending \ {txns[i] : i \in 1 .. Len(txns)}
         /\ \A x \in Pending' : byTxid'[x] = byTxid[x]
<1>. DEFINE ids == {txns[i] : i \in 1 .. Len(txns)} \cap Pending
<1>1. /\ bySeq' = Erase(bySeq, {byTxid[id] : id \in ids})
      /\ bySender' = Erase(bySender, {a \in DOMAIN bySender : a \in {id.from : id \in ids}
                                                              /\ bySender[a] \in ids})
      /\ byTxid' = Erase(byTxid, ids)
      /\ next_seq' = next_seq
  BY DEF EvictIncluded
<1>2. /\ DOMAIN byTxid' = Pending \ ids
      /\ \A x \in Pending \ ids : byTxid'[x] = byTxid[x]
  BY <1>1 DEF Erase, Pending
<1>0. DOMAIN byTxid' = Pending \ {txns[i] : i \in 1 .. Len(txns)}
  BY <1>2
<1>. HIDE DEF ids
<1>3. /\ \A a \in DOMAIN bySender' : a \in DOMAIN bySender /\ bySender'[a] = bySender[a]
      /\ \A a \in DOMAIN bySender' : bySender[a] \notin ids
      /\ \A a \in DOMAIN bySender : bySender[a] \notin ids => a \in DOMAIN bySender'
  BY <1>1 DEF Erase, IndexesAgree
<1>4. /\ \A n \in DOMAIN bySeq' : n \in DOMAIN bySeq /\ bySeq'[n] = bySeq[n]
      /\ \A n \in DOMAIN bySeq' : bySeq[n] \notin ids
      /\ \A n \in DOMAIN bySeq : bySeq[n] \notin ids => n \in DOMAIN bySeq'
  <2>1. ids \subseteq Pending
    BY DEF ids
  <2>2. \A n \in DOMAIN bySeq : n \in {byTxid[id] : id \in ids} <=> bySeq[n] \in ids
    BY <2>1 DEF IndexesAgree
  <2>. QED  BY <1>1, <2>2 DEF Erase
<1>5. MempoolTypeOK'
  <2>1. byTxid' \in [Pending' -> Nat] /\ Pending' \subseteq Txn
    BY <1>1, <1>2 DEF MempoolTypeOK, Erase, Pending
  <2>2. bySender' \in [DOMAIN bySender' -> Pending'] /\ (DOMAIN bySender)' \subseteq Acct
    BY <1>1, <1>2, <1>3 DEF MempoolTypeOK, Erase, Pending
  <2>3. bySeq' \in [DOMAIN bySeq' -> Pending'] /\ (DOMAIN bySeq)' \subseteq Nat
    BY <1>1, <1>2, <1>4 DEF MempoolTypeOK, Erase, Pending
  <2>. QED  BY <1>1, <2>1, <2>2, <2>3 DEF MempoolTypeOK
<1>6. IndexesAgree'
  <2>1. ASSUME NEW x \in Pending'
        PROVE  /\ x.from \in DOMAIN bySender' /\ bySender'[x.from] = x
               /\ byTxid'[x] \in DOMAIN bySeq' /\ bySeq'[byTxid'[x]] = x
               /\ byTxid'[x] < next_seq'
    <3>1. x \in Pending /\ x \notin ids /\ byTxid'[x] = byTxid[x]
      BY <1>2 DEF Pending
    <3>2. /\ x.from \in DOMAIN bySender /\ bySender[x.from] = x
          /\ byTxid[x] \in DOMAIN bySeq /\ bySeq[byTxid[x]] = x
          /\ byTxid[x] < next_seq
      BY <3>1 DEF IndexesAgree
    <3>. QED  BY <3>1, <3>2, <1>1, <1>3, <1>4
  <2>2. ASSUME NEW a \in DOMAIN bySender'
        PROVE  bySender'[a] \in Pending' /\ bySender'[a].from = a
    BY <1>2, <1>3 DEF IndexesAgree, Pending
  <2>3. ASSUME NEW n \in DOMAIN bySeq'
        PROVE  bySeq'[n] \in Pending' /\ byTxid'[bySeq'[n]] = n
    BY <1>2, <1>4 DEF IndexesAgree, Pending
  <2>. QED  BY <2>1, <2>2, <2>3 DEF IndexesAgree
<1>. QED  BY <1>0, <1>2, <1>5, <1>6 DEF Pending, ids

(* Steps that leave the mempool alone.                                      *)
LEMMA MempoolFrame ==
  ASSUME UNCHANGED mempoolVars
  PROVE  /\ MempoolTypeOK => MempoolTypeOK'
         /\ IndexesAgree => IndexesAgree'
         /\ Pending' = Pending
BY DEF MempoolTypeOK, IndexesAgree, mempoolVars, Pending

-----------------------------------------------------------------------------
(* Induction, and sums over finite sets.                                    *)

(* A set of numbers with 0 and with the successor of each of its members    *)
(* has them all: induction over Nat, from the well-foundedness of <.        *)
LEMMA SetInduction ==
  ASSUME NEW T, 0 \in T, \A n \in Nat : n \in T => n + 1 \in T
  PROVE  Nat \subseteq T
<1>. SUFFICES ASSUME Nat \ T # {} PROVE FALSE
  OBVIOUS
<1>1. PICK x \in Nat \ T : \A y \in Nat \ T : ~(<<y, x>> \in OpToRel(<, Nat))
  BY NatLessThanWellFounded, WFMin
<1>2. x # 0 /\ x - 1 \in Nat /\ (x - 1) + 1 = x
  OBVIOUS
<1>3. <<x - 1, x>> \in OpToRel(<, Nat)
  BY <1>1, <1>2 DEF OpToRel
<1>4. x - 1 \notin Nat \ T
  BY <1>1, <1>3
<1>. QED  BY <1>1, <1>2, <1>4

(* The sum of the function F over S.                                        *)
SumOf(F, S) == MapThenSumSet(LAMBDA x : F[x], S)

(* The sums of F over the subsets of S, as MapThenSumSet computes them.     *)
IsSum(g, F, S) ==
  g = [s \in SUBSET S |-> IF s = {} THEN 0
         ELSE F[CHOOSE x \in s : TRUE] + g[s \ {CHOOSE x \in s : TRUE}]]

(* The recursion of MapThenSumSet has a solution over a finite set ...      *)
LEMMA SumExists ==
  ASSUME NEW S, IsFiniteSet(S), NEW F
  PROVE  \E g : IsSum(g, F, S)
<1>. DEFINE Up(n) == {s \in SUBSET S : Cardinality(s) <= n}
            Body(g, s) == IF s = {} THEN 0
                          ELSE F[CHOOSE x \in s : TRUE] + g[s \ {CHOOSE x \in s : TRUE}]
            T == {n \in Nat : \E g : g = [s \in Up(n) |-> Body(g, s)]}
<1>0. \A s \in SUBSET S : s # {} =>
         LET c == CHOOSE x \in s : TRUE
         IN c \in s /\ Cardinality(s) \in Nat /\ Cardinality(s \ {c}) \in Nat /\ Cardinality(s \ {c}) = Cardinality(s) - 1
  <2>. SUFFICES ASSUME NEW s \in SUBSET S, s # {}
                PROVE  LET c == CHOOSE x \in s : TRUE
                       IN  /\ c \in s /\ Cardinality(s) \in Nat
                           /\ Cardinality(s \ {c}) \in Nat /\ Cardinality(s \ {c}) = Cardinality(s) - 1
    OBVIOUS
  <2>. DEFINE c == CHOOSE x \in s : TRUE
  <2>1. c \in s
    OBVIOUS
  <2>. HIDE DEF c
  <2>2. IsFiniteSet(s)
    BY FS_Subset
  <2>3. IsFiniteSet(s \ {c}) /\ Cardinality(s \ {c}) = Cardinality(s) - 1
    BY <2>1, <2>2, FS_RemoveElement
  <2>4. Cardinality(s) \in Nat /\ Cardinality(s \ {c}) \in Nat
    BY <2>2, <2>3, FS_CardinalityType
  <2>. QED  BY <2>1, <2>3, <2>4 DEF c
<1>1. 0 \in T
  <2>1. \A s \in Up(0) : s = {}
    <3>. SUFFICES ASSUME NEW s \in SUBSET S, Cardinality(s) <= 0 PROVE s = {}
      OBVIOUS
    <3>1. Cardinality(s) \in Nat /\ IsFiniteSet(s)
      BY FS_Subset, FS_CardinalityType
    <3>. QED  BY <3>1, FS_EmptySet
  <2>2. [s \in Up(0) |-> 0] = [s \in Up(0) |-> Body([r \in Up(0) |-> 0], s)]
    BY <2>1
  <2>. QED  BY <2>2
<1>2. ASSUME NEW n \in Nat, n \in T PROVE n + 1 \in T
  <2>1. PICK g : g = [s \in Up(n) |-> Body(g, s)]
    BY <1>2
  <2>. DEFINE h == [s \in Up(n + 1) |-> Body(g, s)]
  <2>2. ASSUME NEW s \in Up(n + 1) PROVE h[s] = Body(h, s)
    <3>1. CASE s = {}
      BY <3>1
    <3>2. CASE s # {}
      <4>. DEFINE c == CHOOSE x \in s : TRUE
      <4>1. c \in s /\ Cardinality(s) \in Nat /\ Cardinality(s \ {c}) \in Nat /\ Cardinality(s \ {c}) = Cardinality(s) - 1
        BY <1>0, <3>2
      <4>2. s \ {c} \in Up(n) /\ s \ {c} \in Up(n + 1)
        <5>. HIDE DEF c
        <5>. QED  BY <4>1
      <4>3. g[s \ {c}] = Body(g, s \ {c})
        BY <2>1, <4>2
      <4>4. h[s \ {c}] = Body(g, s \ {c})
        BY <4>2
      <4>. QED  BY <3>2, <4>3, <4>4
    <3>. QED  BY <3>1, <3>2
  <2>3. h = [s \in Up(n + 1) |-> Body(h, s)]
    <3>1. \A s \in Up(n + 1) : Body(g, s) = Body(h, s)
      BY <2>2
    <3>2. h = [s \in Up(n + 1) |-> Body(g, s)]
      OBVIOUS
    <3>. HIDE DEF h, Up, Body
    <3>. QED  BY <3>1, <3>2
  <2>. HIDE DEF h
  <2>4. \E k : k = [s \in Up(n + 1) |-> Body(k, s)]
    BY <2>3
  <2>5. n + 1 \in Nat
    OBVIOUS
  <2>. QED  BY <2>4, <2>5, Zenon
<1>3. Nat \subseteq T
  <2>. HIDE DEF T
  <2>. QED  BY <1>1, <1>2, SetInduction
<1>4. Cardinality(S) \in Nat /\ \A s \in SUBSET S : Cardinality(s) <= Cardinality(S)
  BY FS_CardinalityType, FS_Subset
<1>5. Up(Cardinality(S)) = SUBSET S
  BY <1>4
<1>6. PICK g : g = [s \in Up(Cardinality(S)) |-> Body(g, s)]
  BY <1>3, <1>4
<1>7. g = [s \in SUBSET S |-> Body(g, s)]
  BY <1>5, <1>6
<1>. QED  BY <1>7 DEF IsSum

(* ... and computes one.                                                    *)
LEMMA SumDef ==
  ASSUME NEW S, IsFiniteSet(S), NEW F
  PROVE  \E g : IsSum(g, F, S) /\ SumOf(F, S) = g[S]
<1>. DEFINE g == CHOOSE g : IsSum(g, F, S)
<1>1. IsSum(g, F, S)
  BY SumExists
<1>2. SumOf(F, S) = g[S]
  BY DEF SumOf, MapThenSumSet, MapThenFoldSet, IsSum
<1>. QED  BY <1>1, <1>2

(* Any two such functions agree, however many sets they are given on.       *)
LEMMA SumUnique ==
  ASSUME NEW S, IsFiniteSet(S), NEW R \in SUBSET S, NEW F, NEW G,
         \A x \in R : F[x] = G[x],
         NEW g, IsSum(g, F, S), NEW h, IsSum(h, G, R)
  PROVE  \A s \in SUBSET R : g[s] = h[s]
<1>. DEFINE T == {n \in Nat : \A s \in SUBSET R : Cardinality(s) = n => g[s] = h[s]}
<1>1. 0 \in T
  <2>1. \A s \in SUBSET R : Cardinality(s) = 0 => s = {}
    BY FS_EmptySet, FS_Subset
  <2>2. g[{}] = 0 /\ h[{}] = 0
    BY DEF IsSum
  <2>. QED  BY <2>1, <2>2
<1>2. ASSUME NEW n \in Nat, n \in T PROVE n + 1 \in T
  <2>. SUFFICES ASSUME NEW s \in SUBSET R, Cardinality(s) = n + 1 PROVE g[s] = h[s]
    OBVIOUS
  <2>. DEFINE c == CHOOSE x \in s : TRUE
  <2>1. IsFiniteSet(s) /\ s # {}
    BY FS_EmptySet, FS_Subset
  <2>2. c \in s
    BY <2>1
  <2>3. g[s] = F[c] + g[s \ {c}] /\ h[s] = G[c] + h[s \ {c}]
    BY <2>1 DEF IsSum
  <2>. HIDE DEF c
  <2>4. Cardinality(s \ {c}) = n
    <3>1. Cardinality(s \ {c}) = Cardinality(s) - 1
      BY <2>1, <2>2, FS_RemoveElement
    <3>. QED  BY <3>1
  <2>5. g[s \ {c}] = h[s \ {c}]
    BY <1>2, <2>4
  <2>. QED  BY <2>2, <2>3, <2>5
<1>3. Nat \subseteq T
  <2>. HIDE DEF T
  <2>. QED  BY <1>1, <1>2, SetInduction
<1>. SUFFICES ASSUME NEW s \in SUBSET R PROVE g[s] = h[s]
  OBVIOUS
<1>4. Cardinality(s) \in Nat
  BY FS_CardinalityType, FS_Subset
<1>. QED  BY <1>3, <1>4


(* A sum of integers is an integer.                                         *)
LEMMA SumInt ==
  ASSUME NEW S, IsFiniteSet(S), NEW F, \A x \in S : F[x] \in Int,
         NEW g, IsSum(g, F, S)
  PROVE  \A s \in SUBSET S : g[s] \in Int
<1>. DEFINE T == {n \in Nat : \A s \in SUBSET S : Cardinality(s) = n => g[s] \in Int}
<1>1. 0 \in T
  <2>1. \A s \in SUBSET S : Cardinality(s) = 0 => s = {}
    BY FS_EmptySet, FS_Subset
  <2>2. g[{}] = 0
    BY DEF IsSum
  <2>. QED  BY <2>1, <2>2
<1>2. ASSUME NEW n \in Nat, n \in T PROVE n + 1 \in T
  <2>. SUFFICES ASSUME NEW s \in SUBSET S, Cardinality(s) = n + 1 PROVE g[s] \in Int
    OBVIOUS
  <2>. DEFINE c == CHOOSE x \in s : TRUE
  <2>1. IsFiniteSet(s) /\ s # {}
    BY FS_EmptySet, FS_Subset
  <2>2. c \in s
    BY <2>1
  <2>3. g[s] = F[c] + g[s \ {c}]
    BY <2>1 DEF IsSum
  <2>. HIDE DEF c
  <2>4. Cardinality(s \ {c}) = n
    <3>1. Cardinality(s \ {c}) = Cardinality(s) - 1
      BY <2>1, <2>2, FS_RemoveElement
    <3>. QED  BY <3>1
  <2>5. g[s \ {c}] \in Int
    BY <1>2, <2>4
  <2>6. F[c] \in Int
    BY <2>2
  <2>. QED  BY <2>3, <2>5, <2>6
<1>3. Nat \subseteq T
  <2>. HIDE DEF T
  <2>. QED  BY <1>1, <1>2, SetInduction
<1>. SUFFICES ASSUME NEW s \in SUBSET S PROVE g[s] \in Int
  OBVIOUS
<1>4. Cardinality(s) \in Nat
  BY FS_CardinalityType, FS_Subset
<1>. QED  BY <1>3, <1>4

(* The element taken first does not matter.                                 *)
LEMMA SumAny ==
  ASSUME NEW S, IsFiniteSet(S), NEW F, \A x \in S : F[x] \in Int,
         NEW g, IsSum(g, F, S), NEW z \in S
  PROVE  g[S] = F[z] + g[S \ {z}]
<1>. DEFINE Good(s) == \A x \in s : g[s] = F[x] + g[s \ {x}]
            T == {n \in Nat : \A s \in SUBSET S : Cardinality(s) = n => Good(s)}
<1>1. 0 \in T
  <2>1. \A s \in SUBSET S : Cardinality(s) = 0 => s = {}
    BY FS_EmptySet, FS_Subset
  <2>. QED  BY <2>1
<1>2. ASSUME NEW n \in Nat, n \in T PROVE n + 1 \in T
  <2>. SUFFICES ASSUME NEW s \in SUBSET S, Cardinality(s) = n + 1 PROVE Good(s)
    OBVIOUS
  <2>. DEFINE c == CHOOSE x \in s : TRUE
  <2>1. IsFiniteSet(s) /\ s # {}
    BY FS_EmptySet, FS_Subset
  <2>2. c \in s
    BY <2>1
  <2>3. g[s] = F[c] + g[s \ {c}]
    BY <2>1 DEF IsSum
  <2>. HIDE DEF c
  <2>4. ASSUME NEW x \in s
        PROVE  Good(s \ {x})
    <3>1. Cardinality(s \ {x}) = Cardinality(s) - 1
      BY <2>1, FS_RemoveElement
    <3>2. Cardinality(s \ {x}) = n
      BY <3>1
    <3>. QED  BY <1>2, <3>2
  <2>6. ASSUME NEW x \in s, x # c
        PROVE  g[s] = F[x] + g[s \ {x}]
    <3>. DEFINE r == (s \ {c}) \ {x}
    <3>1. r = (s \ {x}) \ {c} /\ x \in s \ {c} /\ c \in s \ {x}
      BY <2>2, <2>6
    <3>. HIDE DEF r
    <3>2. g[s \ {c}] = F[x] + g[r]
      BY <2>2, <2>4, <3>1 DEF r
    <3>3. g[s \ {x}] = F[c] + g[r]
      BY <2>4, <3>1
    <3>4. F[x] \in Int /\ F[c] \in Int
      BY <2>2
    <3>5. g[r] \in Int
      BY SumInt DEF r
    <3>. QED  BY <2>3, <3>2, <3>3, <3>4, <3>5
  <2>. QED  BY <2>3, <2>6
<1>3. Nat \subseteq T
  <2>. HIDE DEF T
  <2>. QED  BY <1>1, <1>2, SetInduction
<1>4. Cardinality(S) \in Nat /\ S \in SUBSET S
  BY FS_CardinalityType
<1>5. Good(S)
  BY <1>3, <1>4
<1>. QED  BY <1>5

-----------------------------------------------------------------------------
(* The laws of sums: nothing sums up to 0, ...                              *)
LEMMA SumEmpty == ASSUME NEW F PROVE SumOf(F, {}) = 0
<1>1. IsFiniteSet({})
  BY FS_EmptySet
<1>. QED  BY <1>1, SumDef DEF IsSum

(* ... integers to an integer, ...                                          *)
LEMMA SumType ==
  ASSUME NEW S, IsFiniteSet(S), NEW F, \A x \in S : F[x] \in Int
  PROVE  SumOf(F, S) \in Int
BY SumDef, SumInt

(* ... equal functions to the same, ...                                     *)
LEMMA SumSame ==
  ASSUME NEW S, IsFiniteSet(S), NEW F, NEW G, \A x \in S : F[x] = G[x]
  PROVE  SumOf(F, S) = SumOf(G, S)
<1>1. PICK g : IsSum(g, F, S) /\ SumOf(F, S) = g[S]
  BY SumDef
<1>2. PICK h : IsSum(h, G, S) /\ SumOf(G, S) = h[S]
  BY SumDef
<1>3. S \in SUBSET S
  OBVIOUS
<1>4. \A s \in SUBSET S : g[s] = h[s]
  BY <1>1, <1>2, <1>3, SumUnique
<1>. QED  BY <1>1, <1>2, <1>4

(* ... and one more element adds its value.                                 *)
LEMMA SumAdd ==
  ASSUME NEW S, IsFiniteSet(S), NEW x, x \notin S,
         NEW F, \A y \in S \cup {x} : F[y] \in Int
  PROVE  SumOf(F, S \cup {x}) = F[x] + SumOf(F, S)
<1>0. IsFiniteSet(S \cup {x})
  BY FS_AddElement
<1>1. PICK g : IsSum(g, F, S \cup {x}) /\ SumOf(F, S \cup {x}) = g[S \cup {x}]
  BY <1>0, SumDef
<1>2. PICK h : IsSum(h, F, S) /\ SumOf(F, S) = h[S]
  BY SumDef
<1>3. g[S] = h[S]
  BY <1>0, <1>1, <1>2, SumUnique
<1>4. g[S \cup {x}] = F[x] + g[(S \cup {x}) \ {x}]
  <2>. DEFINE U == S \cup {x}
  <2>1. IsFiniteSet(U) /\ (\A y \in U : F[y] \in Int) /\ IsSum(g, F, U) /\ x \in U
    BY <1>0, <1>1
  <2>. HIDE DEF U
  <2>2. g[U] = F[x] + g[U \ {x}]
    BY <2>1, SumAny
  <2>. QED  BY <2>2 DEF U
<1>5. (S \cup {x}) \ {x} = S
  OBVIOUS
<1>. QED  BY <1>1, <1>2, <1>3, <1>4, <1>5

(* Changing one value changes the sum by the difference.                    *)
LEMMA SumChange ==
  ASSUME NEW S, IsFiniteSet(S), NEW x \in S,
         NEW F, \A y \in S : F[y] \in Int,
         NEW G, \A y \in S : G[y] \in Int,
         \A y \in S \ {x} : F[y] = G[y]
  PROVE  SumOf(G, S) = SumOf(F, S) + (G[x] - F[x])
<1>. DEFINE R == S \ {x}
<1>1. IsFiniteSet(R) /\ x \notin R /\ S = R \cup {x}
  BY FS_RemoveElement
<1>. HIDE DEF R
<1>2. SumOf(F, S) = F[x] + SumOf(F, R) /\ SumOf(G, S) = G[x] + SumOf(G, R)
  BY <1>1, SumAdd
<1>3. SumOf(F, R) = SumOf(G, R)
  BY <1>1, SumSame DEF R
<1>4. SumOf(F, R) \in Int
  BY <1>1, SumType
<1>. QED  BY <1>2, <1>3, <1>4

-----------------------------------------------------------------------------
(* Supply.                                                                  *)
Balances(st) == [a \in Acct |-> st[a].balance]

(* Supply is the sum of the balances.                                       *)
LEMMA SupplyIsSum ==
  ASSUME IsFiniteSet(Addr), NEW st
  PROVE  Supply(st) = SumOf(Balances(st), Acct)
<1>. DEFINE c(s) == CHOOSE x \in s : TRUE
            P(g) == g = [s \in SUBSET Acct |-> IF s = {} THEN 0
                           ELSE st[c(s)].balance + g[s \ {c(s)}]]
            k == CHOOSE g : P(g)
<1>0. IsFiniteSet(Acct)
  BY FS_AddElement DEF Acct
<1>1. PICK h : IsSum(h, Balances(st), Acct) /\ SumOf(Balances(st), Acct) = h[Acct]
  BY <1>0, SumDef
<1>2. ASSUME NEW s \in SUBSET Acct, s # {}
      PROVE  Balances(st)[c(s)] = st[c(s)].balance
  <2>1. c(s) \in s
    BY <1>2
  <2>. HIDE DEF c
  <2>. QED  BY <2>1 DEF Balances
<1>3. ASSUME NEW g, P(g)
      PROVE  IsSum(g, Balances(st), Acct)
  BY <1>2, <1>3 DEF IsSum
<1>4. P(h)
  BY <1>1, <1>2 DEF IsSum
<1>5. P(k)
  BY <1>4
<1>6. Supply(st) = k[Acct]
  BY DEF Supply, MapThenSumSet, MapThenFoldSet
<1>. HIDE DEF P, k
<1>7. IsSum(k, Balances(st), Acct)
  BY <1>3, <1>5
<1>8. \A s \in SUBSET Acct : k[s] = h[s]
  <2>1. Acct \in SUBSET Acct
    OBVIOUS
  <2>2. \A f : IsSum(h, f, Acct) /\ IsSum(k, f, Acct) => \A s \in SUBSET Acct : k[s] = h[s]
    BY <1>0, <2>1, SumUnique
  <2>. QED  BY <1>1, <1>7, <2>2
<1>. QED  BY <1>1, <1>6, <1>8

-----------------------------------------------------------------------------
(* applyBlockTxns: the transactions of a block.                             *)

(* The states a block's transactions lead through.                          *)
BlockStep(prev, b, n) ==
  LET t == b.txns[n]
      r == BlockTxnReason(prev.work, t, b.header.index, n - 1, prev.coinbases)
  IN IF prev.reason # "OK" THEN prev
     ELSE IF r # "OK" THEN [prev EXCEPT !.reason = r]
     ELSE [reason |-> "OK", work |-> ApplyTxn(prev.work, t),
           coinbases |-> prev.coinbases + IF t.from = NullAddr THEN 1 ELSE 0]

(* f is what the loop of ApplyBlockTxns computes, up to transaction m.      *)
BlockRun(f, st, b, m) ==
  f = [n \in 0 .. m |-> IF n = 0 THEN [reason |-> "OK", work |-> st, coinbases |-> 0]
                        ELSE BlockStep(f[n - 1], b, n)]

(* The loop computes something ...                                          *)
LEMMA BlockRunExists ==
  ASSUME NEW st, NEW b, NEW m \in Nat
  PROVE  \E f : BlockRun(f, st, b, m)
<1>. DEFINE start == [reason |-> "OK", work |-> st, coinbases |-> 0]
            T == {n \in Nat : \E f : BlockRun(f, st, b, n)}
<1>1. 0 \in T
  <2>. DEFINE f == [n \in 0 .. 0 |-> start]
  <2>1. BlockRun(f, st, b, 0)
    BY DEF BlockRun
  <2>. QED  BY <2>1
<1>2. ASSUME NEW n \in Nat, n \in T PROVE n + 1 \in T
  <2>1. PICK f : BlockRun(f, st, b, n)
    BY <1>2
  <2>. DEFINE h == [k \in 0 .. n + 1 |-> IF k = 0 THEN start ELSE BlockStep(f[k - 1], b, k)]
  <2>2. ASSUME NEW k \in 0 .. n + 1, k # 0 PROVE h[k - 1] = f[k - 1]
    <3>1. k - 1 \in 0 .. n /\ k - 1 \in 0 .. n + 1
      BY <2>2
    <3>. QED  BY <2>1, <3>1 DEF BlockRun
  <2>3. BlockRun(h, st, b, n + 1)
    BY <2>2 DEF BlockRun
  <2>. HIDE DEF h
  <2>. QED  BY <2>3
<1>3. Nat \subseteq T
  <2>. HIDE DEF T
  <2>. QED  BY <1>1, <1>2, SetInduction
<1>. QED  BY <1>3

(* ... and ApplyBlockTxns is what it computes.                              *)
LEMMA ApplyBlockDef ==
  ASSUME NEW st, NEW b, NEW reward, Len(b.txns) \in Nat
  PROVE  \E f : /\ BlockRun(f, st, b, Len(b.txns))
                /\ ApplyBlockTxns(st, b, reward) =
                     LET last == f[Len(b.txns)]
                     IN IF last.reason # "OK" THEN last
                        ELSE [last EXCEPT !.reason = CoinbaseCountReason(last.coinbases, reward)]
<1>. DEFINE f == CHOOSE f : BlockRun(f, st, b, Len(b.txns))
<1>1. BlockRun(f, st, b, Len(b.txns))
  BY BlockRunExists
<1>2. ApplyBlockTxns(st, b, reward) =
                     LET last == f[Len(b.txns)]
                     IN IF last.reason # "OK" THEN last
                        ELSE [last EXCEPT !.reason = CoinbaseCountReason(last.coinbases, reward)]
  BY DEF ApplyBlockTxns, BlockRun, BlockStep
<1>. HIDE DEF f
<1>. QED  BY <1>1, <1>2

(* The first n transactions of b pass the gate one after the other.         *)
Passed(f, st, b, n) ==
  /\ f[0] = [reason |-> "OK", work |-> st, coinbases |-> 0]
  /\ \A k \in 1 .. n :
       /\ BlockTxnReason(f[k - 1].work, b.txns[k], b.header.index, k - 1, f[k - 1].coinbases)
            = "OK"
       /\ f[k] = [reason |-> "OK", work |-> ApplyTxn(f[k - 1].work, b.txns[k]),
                  coinbases |-> f[k - 1].coinbases
                                  + IF b.txns[k].from = NullAddr THEN 1 ELSE 0]

(* Where the transactions pass, the loop meets no reason to refuse.         *)
LEMMA PassedOK ==
  ASSUME NEW f, NEW st, NEW b, NEW n \in Nat, Passed(f, st, b, n)
  PROVE  \A k \in 0 .. n : f[k].reason = "OK"
<1>. SUFFICES ASSUME NEW k \in 0 .. n PROVE f[k].reason = "OK"
  OBVIOUS
<1>1. CASE k = 0
  BY <1>1 DEF Passed
<1>2. CASE k \in 1 .. n
  <2>1. f[k] = [reason |-> "OK", work |-> ApplyTxn(f[k - 1].work, b.txns[k]),
                  coinbases |-> f[k - 1].coinbases
                                  + IF b.txns[k].from = NullAddr THEN 1 ELSE 0]
    BY <1>2 DEF Passed
  <2>. QED  BY <2>1
<1>. QED  BY <1>1, <1>2

(* Two ways through the same transactions are one.                          *)
LEMMA PassedUnique ==
  ASSUME NEW f, NEW g, NEW st, NEW b, NEW m \in Nat, NEW n \in Nat, m <= n,
         Passed(f, st, b, m), Passed(g, st, b, n)
  PROVE  \A k \in 0 .. m : f[k] = g[k]
<1>. DEFINE T == {k \in Nat : k <= m => f[k] = g[k]}
<1>1. 0 \in T
  BY DEF Passed
<1>2. ASSUME NEW k \in Nat, k \in T PROVE k + 1 \in T
  <2>. SUFFICES ASSUME k + 1 <= m PROVE f[k + 1] = g[k + 1]
    OBVIOUS
  <2>1. f[k] = g[k] /\ k + 1 \in 1 .. m /\ k + 1 \in 1 .. n /\ (k + 1) - 1 = k
    BY <1>2
  <2>2. f[k + 1] = [reason |-> "OK", work |-> ApplyTxn(f[k].work, b.txns[k + 1]),
                    coinbases |-> f[k].coinbases
                                    + IF b.txns[k + 1].from = NullAddr THEN 1 ELSE 0]
    BY <2>1 DEF Passed
  <2>3. g[k + 1] = [reason |-> "OK", work |-> ApplyTxn(g[k].work, b.txns[k + 1]),
                    coinbases |-> g[k].coinbases
                                    + IF b.txns[k + 1].from = NullAddr THEN 1 ELSE 0]
    BY <2>1 DEF Passed
  <2>. QED  BY <2>1, <2>2, <2>3
<1>3. Nat \subseteq T
  <2>. HIDE DEF T
  <2>. QED  BY <1>1, <1>2, SetInduction
<1>. QED  BY <1>3

(* One transaction more.                                                    *)
LEMMA PassedExtend ==
  ASSUME NEW f, NEW st, NEW b, NEW n \in Nat, Passed(f, st, b, n),
         BlockTxnReason(f[n].work, b.txns[n + 1], b.header.index, n, f[n].coinbases) = "OK"
  PROVE  \E g : /\ Passed(g, st, b, n + 1)
                /\ g[n + 1].work = ApplyTxn(f[n].work, b.txns[n + 1])
                /\ g[n + 1].coinbases = f[n].coinbases
                                          + IF b.txns[n + 1].from = NullAddr THEN 1 ELSE 0
<1>. DEFINE new == [reason |-> "OK", work |-> ApplyTxn(f[n].work, b.txns[n + 1]),
                    coinbases |-> f[n].coinbases
                                    + IF b.txns[n + 1].from = NullAddr THEN 1 ELSE 0]
            g == [k \in 0 .. n + 1 |-> IF k = n + 1 THEN new ELSE f[k]]
<1>1. /\ g[n + 1] = new
      /\ \A k \in 0 .. n : g[k] = f[k]
  OBVIOUS
<1>. HIDE DEF g
<1>2. ASSUME NEW k \in 1 .. n + 1
      PROVE  /\ BlockTxnReason(g[k - 1].work, b.txns[k], b.header.index, k - 1,
                               g[k - 1].coinbases) = "OK"
             /\ g[k] = [reason |-> "OK", work |-> ApplyTxn(g[k - 1].work, b.txns[k]),
                        coinbases |-> g[k - 1].coinbases
                                        + IF b.txns[k].from = NullAddr THEN 1 ELSE 0]
  <2>1. CASE k = n + 1
    <3>1. (n + 1) - 1 = n /\ g[n] = f[n]
      BY <1>1
    <3>. QED  BY <1>1, <2>1, <3>1
  <2>2. CASE k \in 1 .. n
    <3>1. g[k] = f[k] /\ g[k - 1] = f[k - 1]
      BY <1>1, <2>2
    <3>. QED  BY <2>2, <3>1 DEF Passed
  <2>. QED  BY <2>1, <2>2
<1>3. g[0] = f[0]
  BY <1>1
<1>4. Passed(g, st, b, n + 1)
  BY <1>2, <1>3 DEF Passed
<1>. QED  BY <1>1, <1>4

(* What the loop keeps.                                                     *)
RunState == [reason : Reason, work : Accounts, coinbases : Nat]

(* The gate answers with a reason.                                          *)
LEMMA ReasonType ==
  ASSUME NEW w, NEW t, NEW i, NEW k, NEW c
  PROVE  BlockTxnReason(w, t, i, k, c) \in Reason
BY DEF BlockTxnReason, ApplyTxnReason, CoinbaseShapeReason, Reason

(* The loop keeps balances natural, passing or not, ...                     *)
LEMMA BlockRunType ==
  ASSUME NEW f, NEW st \in Accounts, NEW b \in Block, BlockRun(f, st, b, Len(b.txns))
  PROVE  \A k \in 0 .. Len(b.txns) : f[k] \in RunState
<1>. DEFINE m == Len(b.txns)
            T == {k \in Nat : k <= m => f[k] \in RunState}
<1>0. m \in Nat /\ \A k \in 1 .. m : b.txns[k] \in Txn
  BY DEF Block
<1>. HIDE DEF m
<1>1. 0 \in T
  <2>1. f[0] = [reason |-> "OK", work |-> st, coinbases |-> 0]
    BY <1>0 DEF BlockRun, m
  <2>. QED  BY <2>1 DEF RunState, Reason
<1>2. ASSUME NEW k \in Nat, k \in T PROVE k + 1 \in T
  <2>. SUFFICES ASSUME k + 1 <= m PROVE f[k + 1] \in RunState
    OBVIOUS
  <2>1. f[k] \in RunState /\ k + 1 \in 1 .. m /\ k + 1 \in 0 .. m /\ (k + 1) - 1 = k
    BY <1>0, <1>2
  <2>2. f[k + 1] = BlockStep(f[k], b, k + 1)
    BY <2>1 DEF BlockRun, m
  <2>. DEFINE t == b.txns[k + 1]
              r == BlockTxnReason(f[k].work, t, b.header.index, k, f[k].coinbases)
  <2>3. t \in Txn
    BY <1>0, <2>1
  <2>4. r \in Reason
    BY ReasonType
  <2>5. r = "OK" => ApplyTxn(f[k].work, t) \in Accounts
    BY <2>1, <2>3, ApplyTxnType DEF RunState
  <2>6. f[k + 1] = IF f[k].reason # "OK" THEN f[k]
                   ELSE IF r # "OK" THEN [f[k] EXCEPT !.reason = r]
                   ELSE [reason |-> "OK", work |-> ApplyTxn(f[k].work, t),
                         coinbases |-> f[k].coinbases + IF t.from = NullAddr THEN 1 ELSE 0]
    BY <2>1, <2>2 DEF BlockStep
  <2>. HIDE DEF r, t
  <2>. QED  BY <2>1, <2>4, <2>5, <2>6 DEF RunState, Reason
<1>3. Nat \subseteq T
  <2>. HIDE DEF T
  <2>. QED  BY <1>1, <1>2, SetInduction
<1>. QED  BY <1>0, <1>3 DEF m

(* ... and so does a run of transactions that pass.                         *)
LEMMA PassedType ==
  ASSUME NEW f, NEW st \in Accounts, NEW b \in Block, NEW n \in 0 .. Len(b.txns),
         Passed(f, st, b, n)
  PROVE  \A k \in 0 .. n : f[k] \in RunState
<1>. DEFINE T == {k \in Nat : k <= n => f[k] \in RunState}
<1>0. Len(b.txns) \in Nat /\ \A k \in 1 .. Len(b.txns) : b.txns[k] \in Txn
  BY DEF Block
<1>1. 0 \in T
  BY DEF Passed, RunState, Reason
<1>2. ASSUME NEW k \in Nat, k \in T PROVE k + 1 \in T
  <2>. SUFFICES ASSUME k + 1 <= n PROVE f[k + 1] \in RunState
    OBVIOUS
  <2>. DEFINE t == b.txns[k + 1]
  <2>1. f[k] \in RunState /\ k + 1 \in 1 .. n /\ (k + 1) - 1 = k
    BY <1>0, <1>2
  <2>2. /\ BlockTxnReason(f[k].work, t, b.header.index, k, f[k].coinbases) = "OK"
        /\ f[k + 1] = [reason |-> "OK", work |-> ApplyTxn(f[k].work, t),
                       coinbases |-> f[k].coinbases + IF t.from = NullAddr THEN 1 ELSE 0]
    BY <2>1 DEF Passed
  <2>3. t \in Txn
    BY <1>0, <2>1
  <2>4. ApplyTxn(f[k].work, t) \in Accounts
    BY <2>1, <2>2, <2>3, ApplyTxnType DEF RunState
  <2>. QED  BY <2>1, <2>2, <2>4 DEF RunState, Reason
<1>3. Nat \subseteq T
  <2>. HIDE DEF T
  <2>. QED  BY <1>1, <1>2, SetInduction
<1>. QED  BY <1>0, <1>3

(* Where all of them pass, applyBlockTxns gets to the end of the way.       *)
LEMMA PassedApplies ==
  ASSUME NEW f, NEW st \in Accounts, NEW b \in Block, NEW reward,
         Passed(f, st, b, Len(b.txns)),
         CoinbaseCountReason(f[Len(b.txns)].coinbases, reward) = "OK"
  PROVE  /\ ApplyBlockTxns(st, b, reward).reason = "OK"
         /\ ApplyBlockTxns(st, b, reward).work = f[Len(b.txns)].work
<1>. DEFINE m == Len(b.txns)
<1>0. m \in Nat
  BY DEF Block
<1>1. PICK g : /\ BlockRun(g, st, b, m)
               /\ ApplyBlockTxns(st, b, reward) =
                    LET last == g[m]
                    IN IF last.reason # "OK" THEN last
                       ELSE [last EXCEPT !.reason = CoinbaseCountReason(last.coinbases, reward)]
  BY <1>0, ApplyBlockDef
<1>. HIDE DEF m
<1>. DEFINE T == {k \in Nat : k <= m => g[k] = f[k]}
<1>2. 0 \in T
  BY <1>0, <1>1 DEF Passed, BlockRun, m
<1>3. ASSUME NEW k \in Nat, k \in T PROVE k + 1 \in T
  <2>. SUFFICES ASSUME k + 1 <= m PROVE g[k + 1] = f[k + 1]
    OBVIOUS
  <2>1. g[k] = f[k] /\ k + 1 \in 1 .. m /\ k + 1 \in 0 .. m /\ (k + 1) - 1 = k /\ k \in 0 .. m
    BY <1>0, <1>3
  <2>2. g[k + 1] = BlockStep(g[k], b, k + 1)
    BY <1>1, <2>1 DEF BlockRun
  <2>3. f[k].reason = "OK"
    BY <1>0, <2>1, PassedOK DEF m
  <2>4. /\ BlockTxnReason(f[k].work, b.txns[k + 1], b.header.index, k, f[k].coinbases) = "OK"
        /\ f[k + 1] = [reason |-> "OK", work |-> ApplyTxn(f[k].work, b.txns[k + 1]),
                       coinbases |-> f[k].coinbases
                                       + IF b.txns[k + 1].from = NullAddr THEN 1 ELSE 0]
    BY <2>1 DEF Passed, m
  <2>. QED  BY <2>1, <2>2, <2>3, <2>4 DEF BlockStep
<1>4. Nat \subseteq T
  <2>. HIDE DEF T
  <2>. QED  BY <1>2, <1>3, SetInduction
<1>5. g[m] = f[m]
  BY <1>0, <1>4
<1>6. f[m].reason = "OK"
  BY <1>0, PassedOK DEF m
<1>7. CoinbaseCountReason(f[m].coinbases, reward) = "OK"
  BY DEF m
<1>8. f[m] \in RunState
  BY <1>0, PassedType DEF m
<1>9. ApplyBlockTxns(st, b, reward) = [f[m] EXCEPT !.reason = "OK"]
  BY <1>1, <1>5, <1>6, <1>7
<1>10. f[m].work = f[Len(b.txns)].work
  BY DEF m
<1>. QED  BY <1>8, <1>9, <1>10 DEF RunState

(* Where it returns OK, all of them passed.                                 *)
LEMMA AppliesPassed ==
  ASSUME NEW st \in Accounts, NEW b \in Block, NEW reward,
         ApplyBlockTxns(st, b, reward).reason = "OK"
  PROVE  \E f : /\ Passed(f, st, b, Len(b.txns))
                /\ CoinbaseCountReason(f[Len(b.txns)].coinbases, reward) = "OK"
                /\ ApplyBlockTxns(st, b, reward).work = f[Len(b.txns)].work
<1>. DEFINE m == Len(b.txns)
<1>0. m \in Nat
  BY DEF Block
<1>1. PICK g : /\ BlockRun(g, st, b, m)
               /\ ApplyBlockTxns(st, b, reward) =
                    LET last == g[m]
                    IN IF last.reason # "OK" THEN last
                       ELSE [last EXCEPT !.reason = CoinbaseCountReason(last.coinbases, reward)]
  BY <1>0, ApplyBlockDef
<1>. HIDE DEF m
<1>2. g[m].reason = "OK" 
  BY <1>1
<1>a. \A k \in 1 .. m : g[k] = BlockStep(g[k - 1], b, k)
  BY <1>0, <1>1 DEF BlockRun
<1>b. g[0] = [reason |-> "OK", work |-> st, coinbases |-> 0]
  BY <1>0, <1>1 DEF BlockRun
<1>c. \A k \in 0 .. m : g[k] \in RunState
  BY <1>1, BlockRunType DEF m
<1>. DEFINE T == {k \in Nat : k <= m => g[m - k].reason = "OK"}
<1>3. 0 \in T
  BY <1>0, <1>2
<1>4. ASSUME NEW k \in Nat, k \in T PROVE k + 1 \in T
  <2>. SUFFICES ASSUME k + 1 <= m PROVE g[m - (k + 1)].reason = "OK"
    OBVIOUS
  <2>1. m - k \in 1 .. m /\ (m - k) - 1 = m - (k + 1) /\ g[m - k].reason = "OK"
    BY <1>0, <1>4
  <2>2. g[m - k] = BlockStep(g[m - (k + 1)], b, m - k)
    BY <1>a, <2>1
  <2>. QED  BY <2>1, <2>2 DEF BlockStep
<1>5. Nat \subseteq T
  <2>. HIDE DEF T
  <2>. QED  BY <1>3, <1>4, SetInduction
<1>6. ASSUME NEW k \in 0 .. m PROVE g[k].reason = "OK"
  <2>1. m - k \in Nat /\ m - k <= m /\ m - (m - k) = k
    BY <1>0
  <2>. QED  BY <1>5, <2>1
<1>7. ASSUME NEW k \in 1 .. m
      PROVE  /\ BlockTxnReason(g[k - 1].work, b.txns[k], b.header.index, k - 1,
                               g[k - 1].coinbases) = "OK"
             /\ g[k] = [reason |-> "OK", work |-> ApplyTxn(g[k - 1].work, b.txns[k]),
                        coinbases |-> g[k - 1].coinbases
                                        + IF b.txns[k].from = NullAddr THEN 1 ELSE 0]
  <2>. DEFINE r == BlockTxnReason(g[k - 1].work, b.txns[k], b.header.index, k - 1,
                               g[k - 1].coinbases)
  <2>1. k - 1 \in 0 .. m /\ k \in 0 .. m
    BY <1>0
  <2>2. g[k - 1].reason = "OK" /\ g[k].reason = "OK"
    BY <1>6, <2>1
  <2>3. g[k] = IF r # "OK" THEN [g[k - 1] EXCEPT !.reason = r]
               ELSE [reason |-> "OK", work |-> ApplyTxn(g[k - 1].work, b.txns[k]),
                     coinbases |-> g[k - 1].coinbases
                                     + IF b.txns[k].from = NullAddr THEN 1 ELSE 0]
    BY <1>a, <2>2 DEF BlockStep
  <2>. HIDE DEF r
  <2>4. r # "OK" => g[k] = [g[k - 1] EXCEPT !.reason = r]
    BY <2>3
  <2>5. g[k - 1] \in RunState
    BY <1>c, <2>1
  <2>6. r = "OK"
    BY <2>2, <2>4, <2>5 DEF RunState
  <2>. QED  BY <2>3, <2>6 DEF r
<1>8. Passed(g, st, b, m)
  BY <1>b, <1>7 DEF Passed
<1>9. g[m] \in RunState
  BY <1>0, <1>c
<1>10. ApplyBlockTxns(st, b, reward) =
         [g[m] EXCEPT !.reason = CoinbaseCountReason(g[m].coinbases, reward)]
  BY <1>1, <1>2
<1>11. CoinbaseCountReason(g[m].coinbases, reward) = "OK"
  BY <1>9, <1>10 DEF RunState, m
<1>12. ApplyBlockTxns(st, b, reward).work = g[m].work
  BY <1>9, <1>10 DEF RunState
<1>. QED  BY <1>8, <1>11, <1>12 DEF m

-----------------------------------------------------------------------------
(* replayFromGenesis: the blocks of a chain.                                *)

(* The step of replayFromGenesis from one block to the next.                *)
ReplayStep(prev, bs, n, now_s, D, reward) ==
  LET hr == HeaderReason(bs[n], n - 1, bs[n - 1].header, now_s, D)
      ar == ApplyBlockTxns(prev.state, bs[n], reward)
  IN IF prev.reason # "OK" THEN prev
     ELSE IF hr # "OK" THEN [prev EXCEPT !.reason = hr]
     ELSE [reason |-> ar.reason, state |-> ar.work]

(* f is what its loop computes, up to block m.                              *)
ReplayRun(f, bs, m, now_s, D, reward) ==
  f = [n \in 1 .. m |-> IF n = 1 THEN [reason |-> GenesisReason(bs[1]), state |-> ApplyGenesis]
                        ELSE ReplayStep(f[n - 1], bs, n, now_s, D, reward)]

(* The loop computes something ...                                          *)
LEMMA ReplayRunExists ==
  ASSUME NEW bs, NEW m \in Nat, NEW now_s, NEW D, NEW reward
  PROVE  \E f : ReplayRun(f, bs, m, now_s, D, reward)
<1>. DEFINE start == [reason |-> GenesisReason(bs[1]), state |-> ApplyGenesis]
            T == {n \in Nat : \E f : ReplayRun(f, bs, n, now_s, D, reward)}
<1>1. 0 \in T
  <2>. DEFINE f == [n \in 1 .. 0 |-> start]
  <2>1. ReplayRun(f, bs, 0, now_s, D, reward)
    BY DEF ReplayRun
  <2>. QED  BY <2>1
<1>2. ASSUME NEW n \in Nat, n \in T PROVE n + 1 \in T
  <2>1. PICK f : ReplayRun(f, bs, n, now_s, D, reward)
    BY <1>2
  <2>. DEFINE h == [k \in 1 .. n + 1 |-> IF k = 1 THEN start
                                         ELSE ReplayStep(f[k - 1], bs, k, now_s, D, reward)]
  <2>2. ASSUME NEW k \in 1 .. n + 1, k # 1 PROVE h[k - 1] = f[k - 1]
    <3>1. k - 1 \in 1 .. n /\ k - 1 \in 1 .. n + 1
      BY <2>2
    <3>. QED  BY <2>1, <3>1 DEF ReplayRun
  <2>3. ReplayRun(h, bs, n + 1, now_s, D, reward)
    BY <2>2 DEF ReplayRun
  <2>. HIDE DEF h
  <2>. QED  BY <2>3
<1>3. Nat \subseteq T
  <2>. HIDE DEF T
  <2>. QED  BY <1>1, <1>2, SetInduction
<1>. QED  BY <1>3

(* ... and ReplayFromGenesis is what it computes, the supply checked last.  *)
LEMMA ReplayDef ==
  ASSUME NEW bs \in Seq(Block), bs # <<>>, NEW now_s, NEW D, NEW reward
  PROVE  \E f : /\ ReplayRun(f, bs, Len(bs), now_s, D, reward)
                /\ ReplayFromGenesis(bs, now_s, D, reward) =
                     LET last == f[Len(bs)]
                     IN IF last.reason # "OK" THEN last
                        ELSE IF Supply(last.state) # GENESIS_SUPPLY + (Len(bs) - 1) * reward
                        THEN [last EXCEPT !.reason = "BAD_SUPPLY"]
                        ELSE last
<1>. DEFINE f == CHOOSE f : ReplayRun(f, bs, Len(bs), now_s, D, reward)
<1>0. Len(bs) \in Nat
  OBVIOUS
<1>1. ReplayRun(f, bs, Len(bs), now_s, D, reward)
  BY <1>0, ReplayRunExists
<1>2. ReplayFromGenesis(bs, now_s, D, reward) =
        LET last == f[Len(bs)]
        IN IF bs = <<>> THEN [reason |-> "BAD_LINK", state |-> ApplyGenesis]
           ELSE IF last.reason # "OK" THEN last
           ELSE IF Supply(last.state) # GENESIS_SUPPLY + (Len(bs) - 1) * reward
           THEN [last EXCEPT !.reason = "BAD_SUPPLY"]
           ELSE last
  BY DEF ReplayFromGenesis, ReplayRun, ReplayStep
<1>. HIDE DEF f
<1>. QED  BY <1>1, <1>2

-----------------------------------------------------------------------------
(* The states a valid chain leads through, block after block.               *)
Path(s, bs, n, now_s, D, reward) ==
  /\ GenesisReason(bs[1]) = "OK"
  /\ s[1] = ApplyGenesis
  /\ \A k \in 2 .. n :
       /\ HeaderReason(bs[k], k - 1, bs[k - 1].header, now_s, D) = "OK"
       /\ ApplyBlockTxns(s[k - 1], bs[k], reward).reason = "OK"
       /\ s[k] = ApplyBlockTxns(s[k - 1], bs[k], reward).work

(* What the loop keeps.                                                     *)
ReplayResult == [reason : Reason, state : Accounts]

(* applyBlockTxns keeps balances natural, refusing or not.                  *)
LEMMA ApplyBlockType ==
  ASSUME NEW st \in Accounts, NEW b \in Block, NEW reward
  PROVE  /\ ApplyBlockTxns(st, b, reward).reason \in Reason
         /\ ApplyBlockTxns(st, b, reward).work \in Accounts
<1>. DEFINE m == Len(b.txns)
<1>0. m \in Nat
  BY DEF Block
<1>1. PICK g : /\ BlockRun(g, st, b, m)
               /\ ApplyBlockTxns(st, b, reward) =
                    LET last == g[m]
                    IN IF last.reason # "OK" THEN last
                       ELSE [last EXCEPT !.reason = CoinbaseCountReason(last.coinbases, reward)]
  BY <1>0, ApplyBlockDef
<1>2. g[m] \in RunState
  BY <1>0, <1>1, BlockRunType
<1>3. CoinbaseCountReason(g[m].coinbases, reward) \in Reason
  BY DEF CoinbaseCountReason, Reason
<1>. HIDE DEF m
<1>. QED  BY <1>1, <1>2, <1>3 DEF RunState

(* The header checks answer with a reason.                                  *)
LEMMA HeaderReasonType ==
  ASSUME NEW b, NEW h, NEW tip, NEW now_s, NEW D
  PROVE  HeaderReason(b, h, tip, now_s, D) \in Reason
BY DEF HeaderReason, Reason

(* Replay keeps balances natural, refusing or not, ...                      *)
LEMMA ReplayRunType ==
  ASSUME NEW bs \in Seq(Block), NEW now_s, NEW D, NEW reward, NEW f,
         ReplayRun(f, bs, Len(bs), now_s, D, reward)
  PROVE  \A k \in 1 .. Len(bs) : f[k] \in ReplayResult
<1>. DEFINE m == Len(bs)
            T == {k \in Nat : k + 1 <= m => f[k + 1] \in ReplayResult}
<1>0. m \in Nat /\ \A k \in 1 .. m : bs[k] \in Block
  OBVIOUS
<1>. HIDE DEF m
<1>1. 0 \in T
  <2>. SUFFICES ASSUME 1 <= m PROVE f[1] \in ReplayResult
    OBVIOUS
  <2>1. f[1] = [reason |-> GenesisReason(bs[1]), state |-> ApplyGenesis]
    BY <1>0 DEF ReplayRun, m
  <2>2. GenesisReason(bs[1]) \in Reason
    BY DEF GenesisReason, Reason
  <2>. QED  BY <2>1, <2>2, GenesisType DEF ReplayResult
<1>2. ASSUME NEW k \in Nat, k \in T PROVE k + 1 \in T
  <2>. SUFFICES ASSUME (k + 1) + 1 <= m PROVE f[(k + 1) + 1] \in ReplayResult
    OBVIOUS
  <2>. DEFINE j == k + 1
              n == j + 1
  <2>1. f[j] \in ReplayResult /\ n \in 1 .. m /\ n # 1 /\ n - 1 = j
    BY <1>0, <1>2
  <2>. DEFINE hr == HeaderReason(bs[n], n - 1, bs[n - 1].header, now_s, D)
              ar == ApplyBlockTxns(f[j].state, bs[n], reward)
  <2>. HIDE DEF j, n
  <2>2. f[n] = ReplayStep(f[n - 1], bs, n, now_s, D, reward)
    BY <2>1 DEF ReplayRun, m
  <2>3. f[n] = IF f[j].reason # "OK" THEN f[j]
               ELSE IF hr # "OK" THEN [f[j] EXCEPT !.reason = hr]
               ELSE [reason |-> ar.reason, state |-> ar.work]
    BY <2>1, <2>2 DEF ReplayStep
  <2>4. hr \in Reason
    BY HeaderReasonType
  <2>5. ar.reason \in Reason /\ ar.work \in Accounts
    BY <1>0, <2>1, ApplyBlockType DEF ReplayResult
  <2>. HIDE DEF hr, ar
  <2>6. f[n] \in ReplayResult
    BY <2>1, <2>3, <2>4, <2>5 DEF ReplayResult
  <2>. QED  BY <2>6 DEF n, j
<1>3. Nat \subseteq T
  <2>. HIDE DEF T
  <2>. QED  BY <1>1, <1>2, SetInduction
<1>. SUFFICES ASSUME NEW k \in 1 .. m PROVE f[k] \in ReplayResult
  BY DEF m
<1>4. k - 1 \in Nat /\ (k - 1) + 1 = k /\ k <= m
  BY <1>0
<1>5. k - 1 \in T
  BY <1>3, <1>4
<1>. QED  BY <1>4, <1>5

(* ... and so does the way of a valid chain.                                *)
LEMMA PathType ==
  ASSUME NEW s, NEW bs \in Seq(Block), NEW n \in 1 .. Len(bs), NEW now_s, NEW D, NEW reward,
         Path(s, bs, n, now_s, D, reward)
  PROVE  \A k \in 1 .. n : s[k] \in Accounts
<1>. DEFINE T == {k \in Nat : k + 1 <= n => s[k + 1] \in Accounts}
<1>0. n \in Nat /\ \A k \in 1 .. n : bs[k] \in Block
  OBVIOUS
<1>1. 0 \in T
  BY GenesisType DEF Path
<1>2. ASSUME NEW k \in Nat, k \in T PROVE k + 1 \in T
  <2>. SUFFICES ASSUME (k + 1) + 1 <= n PROVE s[(k + 1) + 1] \in Accounts
    OBVIOUS
  <2>1. /\ s[k + 1] \in Accounts /\ (k + 1) + 1 \in 2 .. n /\ ((k + 1) + 1) - 1 = k + 1
        /\ (k + 1) + 1 \in 1 .. n
    BY <1>0, <1>2
  <2>2. s[(k + 1) + 1] = ApplyBlockTxns(s[k + 1], bs[(k + 1) + 1], reward).work
    BY <2>1 DEF Path
  <2>. QED  BY <1>0, <2>1, <2>2, ApplyBlockType
<1>3. Nat \subseteq T
  <2>. HIDE DEF T
  <2>. QED  BY <1>1, <1>2, SetInduction
<1>. SUFFICES ASSUME NEW k \in 1 .. n PROVE s[k] \in Accounts
  OBVIOUS
<1>4. k - 1 \in Nat /\ (k - 1) + 1 = k /\ k <= n
  BY <1>0
<1>5. k - 1 \in T
  BY <1>3, <1>4
<1>. QED  BY <1>4, <1>5

(* A chain with such a way replays to its end, and is accepted when the     *)
(* supply there is right.                                                   *)
LEMMA PathReplays ==
  ASSUME NEW s, NEW bs \in Seq(Block), bs # <<>>, NEW now_s, NEW D, NEW reward,
         Path(s, bs, Len(bs), now_s, D, reward)
  PROVE  /\ ReplayFromGenesis(bs, now_s, D, reward).state = s[Len(bs)]
         /\ Supply(s[Len(bs)]) = GENESIS_SUPPLY + (Len(bs) - 1) * reward
              => ReplayFromGenesis(bs, now_s, D, reward).reason = "OK"
<1>. DEFINE m == Len(bs)
<1>0. m \in Nat /\ m >= 1 /\ \A k \in 1 .. m : bs[k] \in Block
  OBVIOUS
<1>1. PICK g : /\ ReplayRun(g, bs, m, now_s, D, reward)
               /\ ReplayFromGenesis(bs, now_s, D, reward) =
                     LET last == g[m]
                     IN IF last.reason # "OK" THEN last
                        ELSE IF Supply(last.state) # GENESIS_SUPPLY + (m - 1) * reward
                        THEN [last EXCEPT !.reason = "BAD_SUPPLY"]
                        ELSE last
  BY ReplayDef
<1>. HIDE DEF m
<1>. DEFINE T == {k \in Nat : k + 1 <= m => g[k + 1] = [reason |-> "OK", state |-> s[k + 1]]}
<1>2. 0 \in T
  BY <1>0, <1>1 DEF Path, ReplayRun
<1>3. ASSUME NEW k \in Nat, k \in T PROVE k + 1 \in T
  <2>. SUFFICES ASSUME (k + 1) + 1 <= m
                PROVE  g[(k + 1) + 1] = [reason |-> "OK", state |-> s[(k + 1) + 1]]
    OBVIOUS
  <2>. DEFINE j == k + 1
              n == j + 1
  <2>1. g[j] = [reason |-> "OK", state |-> s[j]] /\ n \in 1 .. m /\ n \in 2 .. m /\ n # 1 /\ n - 1 = j
    BY <1>0, <1>3
  <2>. HIDE DEF j, n
  <2>2. g[n] = ReplayStep(g[j], bs, n, now_s, D, reward)
    BY <1>1, <2>1 DEF ReplayRun
  <2>3. /\ HeaderReason(bs[n], n - 1, bs[n - 1].header, now_s, D) = "OK"
        /\ ApplyBlockTxns(s[j], bs[n], reward).reason = "OK"
        /\ s[n] = ApplyBlockTxns(s[j], bs[n], reward).work
    BY <2>1 DEF Path, m
  <2>4. g[n] = [reason |-> "OK", state |-> s[n]]
    BY <2>1, <2>2, <2>3 DEF ReplayStep
  <2>. QED  BY <2>4 DEF n, j
<1>4. Nat \subseteq T
  <2>. HIDE DEF T
  <2>. QED  BY <1>2, <1>3, SetInduction
<1>5. m - 1 \in T /\ (m - 1) + 1 = m
  BY <1>0, <1>4
<1>6. g[m] = [reason |-> "OK", state |-> s[m]]
  BY <1>0, <1>5
<1>7. ReplayFromGenesis(bs, now_s, D, reward) =
        IF Supply(s[m]) # GENESIS_SUPPLY + (m - 1) * reward
        THEN [reason |-> "BAD_SUPPLY", state |-> s[m]]
        ELSE [reason |-> "OK", state |-> s[m]]
  BY <1>1, <1>6
<1>. QED  BY <1>7 DEF m

(* A chain that replays has such a way.                                     *)
LEMMA ReplayHasPath ==
  ASSUME NEW bs \in Seq(Block), NEW now_s, NEW D, NEW reward,
         ReplayReason(bs, now_s, D, reward) = "OK"
  PROVE  /\ bs # <<>>
         /\ \E s : /\ Path(s, bs, Len(bs), now_s, D, reward)
                   /\ Supply(s[Len(bs)]) = GENESIS_SUPPLY + (Len(bs) - 1) * reward
                   /\ ReplayFromGenesis(bs, now_s, D, reward).state = s[Len(bs)]
<1>. DEFINE m == Len(bs)
<1>a. bs # <<>>
  BY DEF ReplayReason, ReplayFromGenesis
<1>0. m \in Nat /\ m >= 1 /\ \A k \in 1 .. m : bs[k] \in Block
  BY <1>a
<1>1. PICK g : /\ ReplayRun(g, bs, m, now_s, D, reward)
               /\ ReplayFromGenesis(bs, now_s, D, reward) =
                     LET last == g[m]
                     IN IF last.reason # "OK" THEN last
                        ELSE IF Supply(last.state) # GENESIS_SUPPLY + (m - 1) * reward
                        THEN [last EXCEPT !.reason = "BAD_SUPPLY"]
                        ELSE last
  BY <1>a, ReplayDef
<1>2. \A k \in 1 .. m : g[k] \in ReplayResult
  BY <1>1, ReplayRunType
<1>. HIDE DEF m
<1>3. g[m] \in ReplayResult
  BY <1>0, <1>2
<1>4. ReplayFromGenesis(bs, now_s, D, reward).reason = "OK"
  BY DEF ReplayReason
<1>5. /\ g[m].reason = "OK"
      /\ Supply(g[m].state) = GENESIS_SUPPLY + (m - 1) * reward
      /\ ReplayFromGenesis(bs, now_s, D, reward) = g[m]
  <2>1. g[m].reason = "OK"
    BY <1>1, <1>4
  <2>2. Supply(g[m].state) = GENESIS_SUPPLY + (m - 1) * reward
    <3>. SUFFICES ASSUME Supply(g[m].state) # GENESIS_SUPPLY + (m - 1) * reward PROVE FALSE
      OBVIOUS
    <3>1. ReplayFromGenesis(bs, now_s, D, reward) = [g[m] EXCEPT !.reason = "BAD_SUPPLY"]
      BY <1>1, <2>1
    <3>. QED  BY <1>3, <1>4, <3>1 DEF ReplayResult
  <2>. QED  BY <1>1, <2>1, <2>2
<1>. DEFINE T == {k \in Nat : k + 1 <= m => g[m - k].reason = "OK"}
<1>6. ASSUME NEW k \in 2 .. m PROVE g[k] = ReplayStep(g[k - 1], bs, k, now_s, D, reward)
  <2>1. k \in 1 .. m /\ k # 1
    OBVIOUS
  <2>. QED  BY <1>1, <2>1 DEF ReplayRun
<1>7. 0 \in T
  BY <1>0, <1>5
<1>8. ASSUME NEW k \in Nat, k \in T PROVE k + 1 \in T
  <2>. SUFFICES ASSUME (k + 1) + 1 <= m PROVE g[m - (k + 1)].reason = "OK"
    OBVIOUS
  <2>1. m - k \in 2 .. m /\ (m - k) - 1 = m - (k + 1) /\ g[m - k].reason = "OK" /\ m - (k + 1) \in 1 .. m
    BY <1>0, <1>8
  <2>2. g[m - k] = ReplayStep(g[m - (k + 1)], bs, m - k, now_s, D, reward)
    BY <1>6, <2>1
  <2>. QED  BY <2>1, <2>2 DEF ReplayStep
<1>9. Nat \subseteq T
  <2>. HIDE DEF T
  <2>. QED  BY <1>7, <1>8, SetInduction
<1>10. ASSUME NEW k \in 1 .. m PROVE g[k].reason = "OK"
  <2>1. m - k \in Nat /\ (m - k) + 1 <= m /\ m - (m - k) = k
    BY <1>0
  <2>. QED  BY <1>9, <2>1
<1>. DEFINE s == [k \in 1 .. m |-> g[k].state]
<1>11. ASSUME NEW k \in 2 .. m
       PROVE  /\ HeaderReason(bs[k], k - 1, bs[k - 1].header, now_s, D) = "OK"
              /\ ApplyBlockTxns(s[k - 1], bs[k], reward).reason = "OK"
              /\ s[k] = ApplyBlockTxns(s[k - 1], bs[k], reward).work
  <2>. DEFINE hr == HeaderReason(bs[k], k - 1, bs[k - 1].header, now_s, D)
              ar == ApplyBlockTxns(g[k - 1].state, bs[k], reward)
  <2>1. k - 1 \in 1 .. m /\ k \in 1 .. m
    BY <1>0
  <2>2. g[k - 1].reason = "OK" /\ g[k].reason = "OK" /\ g[k - 1] \in ReplayResult
    BY <1>2, <1>10, <2>1
  <2>3. s[k - 1] = g[k - 1].state /\ s[k] = g[k].state
    BY <2>1
  <2>4. g[k] = IF hr # "OK" THEN [g[k - 1] EXCEPT !.reason = hr]
               ELSE [reason |-> ar.reason, state |-> ar.work]
    BY <1>6, <2>2 DEF ReplayStep
  <2>. HIDE DEF hr, ar, s
  <2>5. hr = "OK"
    BY <2>2, <2>4 DEF ReplayResult
  <2>6. ar.reason = "OK" /\ g[k].state = ar.work
    BY <2>2, <2>4, <2>5
  <2>. QED  BY <2>3, <2>5, <2>6 DEF hr, ar
<1>12. g[1] = [reason |-> GenesisReason(bs[1]), state |-> ApplyGenesis]
  BY <1>0, <1>1 DEF ReplayRun
<1>13. GenesisReason(bs[1]) = "OK" /\ s[1] = ApplyGenesis /\ s[m] = g[m].state
  BY <1>0, <1>10, <1>12
<1>. HIDE DEF s
<1>14. Path(s, bs, m, now_s, D, reward)
  BY <1>11, <1>13 DEF Path
<1>. QED  BY <1>a, <1>5, <1>13, <1>14 DEF m

(* A header that is not too far ahead of the clock is not so later.         *)
LEMMA HeaderLater ==
  ASSUME NEW b \in Block, NEW height, NEW tip, NEW D, NEW now_s \in Nat, NEW later \in Nat,
         now_s <= later, HeaderReason(b, height, tip, now_s, D) = "OK"
  PROVE  HeaderReason(b, height, tip, later, D) = "OK"
<1>1. b.header.timestamp \in Nat
  BY DEF Block, BlockHeader
<1>2. ~(b.header.timestamp > now_s + MAX_CLOCK_SKEW_S)
  BY DEF HeaderReason
<1>3. ~(b.header.timestamp > later + MAX_CLOCK_SKEW_S)
  BY <1>1, <1>2, LedgerAssumption
<1>. QED  BY <1>3 DEF HeaderReason

(* Later the same way is there.                                             *)
LEMMA PathLater ==
  ASSUME NEW s, NEW bs \in Seq(Block), NEW n \in 1 .. Len(bs), NEW D, NEW reward,
         NEW now_s \in Nat, NEW later \in Nat, now_s <= later,
         Path(s, bs, n, now_s, D, reward)
  PROVE  Path(s, bs, n, later, D, reward)
<1>1. ASSUME NEW k \in 2 .. n
      PROVE  HeaderReason(bs[k], k - 1, bs[k - 1].header, later, D) = "OK"
  <2>1. HeaderReason(bs[k], k - 1, bs[k - 1].header, now_s, D) = "OK"
    BY DEF Path
  <2>2. bs[k] \in Block
    OBVIOUS
  <2>. QED  BY <2>1, <2>2, HeaderLater
<1>. QED  BY <1>1 DEF Path

(* A way leads through every prefix.                                        *)
LEMMA PathPrefix ==
  ASSUME NEW s, NEW bs \in Seq(Block), NEW n \in 1 .. Len(bs), NEW m \in 1 .. n,
         NEW now_s, NEW D, NEW reward, Path(s, bs, n, now_s, D, reward)
  PROVE  Path(s, SubSeq(bs, 1, m), m, now_s, D, reward)
<1>. DEFINE cs == SubSeq(bs, 1, m)
<1>0. m \in Nat /\ n \in Nat /\ m <= n
  OBVIOUS
<1>1. \A k \in 1 .. m : cs[k] = bs[k]
  OBVIOUS
<1>. HIDE DEF cs
<1>2. ASSUME NEW k \in 2 .. m
      PROVE  k \in 2 .. n /\ cs[k] = bs[k] /\ cs[k - 1] = bs[k - 1]
  BY <1>0, <1>1
<1>3. cs[1] = bs[1]
  BY <1>0, <1>1
<1>4. Path(s, cs, m, now_s, D, reward)
  BY <1>2, <1>3 DEF Path
<1>. QED  BY <1>4 DEF cs

(* ... and, where one more block fits, on through it.                       *)
LEMMA PathExtend ==
  ASSUME NEW s, NEW bs \in Seq(Block), bs # <<>>, NEW now_s, NEW D, NEW reward, NEW b,
         Path(s, bs, Len(bs), now_s, D, reward),
         HeaderReason(b, Len(bs), bs[Len(bs)].header, now_s, D) = "OK",
         ApplyBlockTxns(s[Len(bs)], b, reward).reason = "OK"
  PROVE  \E t : /\ Path(t, Append(bs, b), Len(bs) + 1, now_s, D, reward)
                /\ t[Len(bs) + 1] = ApplyBlockTxns(s[Len(bs)], b, reward).work
                /\ \A k \in 1 .. Len(bs) : t[k] = s[k]
<1>. DEFINE m == Len(bs)
            cs == Append(bs, b)
            t == [k \in 1 .. m + 1 |-> IF k = m + 1 THEN ApplyBlockTxns(s[m], b, reward).work ELSE s[k]]
<1>0. m \in Nat /\ m >= 1
  OBVIOUS
<1>1. cs[m + 1] = b /\ \A k \in 1 .. m : cs[k] = bs[k]
  OBVIOUS
<1>. HIDE DEF m, cs
<1>2. t[m + 1] = ApplyBlockTxns(s[m], b, reward).work /\ \A k \in 1 .. m : t[k] = s[k]
  BY <1>0
<1>. HIDE DEF t
<1>3. Path(s, bs, m, now_s, D, reward)
  BY DEF m
<1>4. ASSUME NEW k \in 2 .. m + 1
      PROVE  /\ HeaderReason(cs[k], k - 1, cs[k - 1].header, now_s, D) = "OK"
             /\ ApplyBlockTxns(t[k - 1], cs[k], reward).reason = "OK"
             /\ t[k] = ApplyBlockTxns(t[k - 1], cs[k], reward).work
  <2>1. CASE k \in 2 .. m
    <3>1. cs[k] = bs[k] /\ cs[k - 1] = bs[k - 1] /\ t[k] = s[k] /\ t[k - 1] = s[k - 1]
      <4>1. k \in 1 .. m /\ k - 1 \in 1 .. m
        BY <1>0, <2>1
      <4>. QED  BY <1>1, <1>2, <4>1
    <3>. QED  BY <1>3, <2>1, <3>1 DEF Path
  <2>2. CASE k = m + 1
    <3>1. k - 1 = m /\ cs[m] = bs[m] /\ t[m] = s[m] /\ cs[k] = b
      BY <1>0, <1>1, <1>2, <2>2
    <3>. QED  BY <1>2, <2>2, <3>1 DEF m
  <2>. QED  BY <1>0, <2>1, <2>2
<1>5. cs[1] = bs[1] /\ t[1] = s[1]
  BY <1>0, <1>1, <1>2
<1>6. Path(t, cs, m + 1, now_s, D, reward)
  BY <1>3, <1>4, <1>5 DEF Path
<1>. QED  BY <1>2, <1>6 DEF m, cs

-----------------------------------------------------------------------------
(* Supply.                                                                  *)

(* The supply is a number.                                                  *)
LEMMA SupplyType ==
  ASSUME IsFiniteSet(Addr), NEW w \in Accounts
  PROVE  Supply(w) \in Int
<1>1. IsFiniteSet(Acct)
  BY FS_AddElement DEF Acct
<1>2. \A a \in Acct : Balances(w)[a] \in Int
  BY DEF Balances, Accounts, AccountState
<1>. QED  BY <1>1, <1>2, SumType, SupplyIsSum

(* A change of one account's balance.                                       *)
LEMMA SupplyChange ==
  ASSUME IsFiniteSet(Addr), NEW w \in Accounts, NEW v, NEW a \in Acct, NEW d \in Int,
         \A x \in Acct \ {a} : v[x].balance = w[x].balance,
         v[a].balance = w[a].balance + d
  PROVE  Supply(v) = Supply(w) + d
<1>. DEFINE F == Balances(w)
            G == Balances(v)
<1>1. IsFiniteSet(Acct)
  BY FS_AddElement DEF Acct
<1>2. \A x \in Acct : F[x] = w[x].balance /\ G[x] = v[x].balance /\ w[x].balance \in Int
  BY DEF Balances, Accounts, AccountState
<1>. HIDE DEF F, G
<1>3. \A x \in Acct : F[x] \in Int
  BY <1>2
<1>4. \A x \in Acct : G[x] \in Int
  BY <1>2
<1>5. \A x \in Acct \ {a} : F[x] = G[x]
  BY <1>2
<1>6. SumOf(G, Acct) = SumOf(F, Acct) + (G[a] - F[a])
  BY <1>1, <1>3, <1>4, <1>5, SumChange
<1>7. G[a] - F[a] = d
  BY <1>2
<1>. QED  BY <1>6, <1>7, SupplyIsSum DEF F, G

(* What a transaction adds to the supply: the coinbase its amount, and a    *)
(* transfer to oneself too; any other transfer nothing.                     *)
Minted(t) == IF t.from = NullAddr \/ t.from = t.to THEN t.amount ELSE 0

(* The supply after a transaction: a transfer to oneself mints its amount,  *)
(* for applyTxn credits the balance it read before the debit.               *)
LEMMA ApplyTxnSupply ==
  ASSUME IsFiniteSet(Addr), NEW w \in Accounts, NEW t \in Txn
  PROVE  Supply(ApplyTxn(w, t)) = Supply(w) + Minted(t)
<1>1. t.from \in Acct /\ t.to \in Acct /\ t.amount \in Nat
  BY DEF Txn
<1>2. \A a \in Acct : w[a].balance \in Nat /\ w[a].nonce \in Nat
  BY DEF Accounts, AccountState
<1>3. DOMAIN w = Acct
  BY DEF Accounts
<1>4. CASE t.from = NullAddr
  <2>1. /\ ApplyTxn(w, t)[t.to].balance = w[t.to].balance + t.amount
        /\ \A x \in Acct \ {t.to} : ApplyTxn(w, t)[x].balance = w[x].balance
    BY <1>1, <1>2, <1>3, <1>4 DEF ApplyTxn, Credit, Accounts, AccountState
  <2>. QED  BY <1>1, <1>4, <2>1, SupplyChange DEF Minted
<1>5. CASE t.from # NullAddr /\ t.from = t.to
  <2>1. /\ ApplyTxn(w, t)[t.to].balance = w[t.to].balance + t.amount
        /\ \A x \in Acct \ {t.to} : ApplyTxn(w, t)[x].balance = w[x].balance
    BY <1>1, <1>2, <1>3, <1>5 DEF ApplyTxn
  <2>. QED  BY <1>1, <1>5, <2>1, SupplyChange DEF Minted
<1>6. CASE t.from # NullAddr /\ t.from # t.to
  <2>. DEFINE u == [w EXCEPT ![t.to] = [balance |-> w[t.to].balance + t.amount,
                                        nonce |-> w[t.to].nonce]]
              v == ApplyTxn(w, t)
  <2>0. u \in Accounts
    BY <1>1, <1>2 DEF Accounts, AccountState
  <2>1. /\ u[t.to].balance = w[t.to].balance + t.amount
        /\ \A x \in Acct \ {t.to} : u[x].balance = w[x].balance
    BY <1>1, <1>3
  <2>2. /\ v[t.from].balance = w[t.from].balance - t.amount
        /\ v[t.to].balance = w[t.to].balance + t.amount
        /\ \A x \in Acct \ {t.from, t.to} : v[x].balance = w[x].balance
    BY <1>1, <1>3, <1>6 DEF ApplyTxn
  <2>. HIDE DEF u, v
  <2>3. Supply(u) = Supply(w) + t.amount
    BY <1>1, <2>1, SupplyChange
  <2>4. /\ v[t.from].balance = u[t.from].balance + (0 - t.amount)
        /\ \A x \in Acct \ {t.from} : v[x].balance = u[x].balance
    BY <1>1, <1>2, <1>6, <2>1, <2>2
  <2>5. Supply(v) = Supply(u) + (0 - t.amount)
    BY <1>1, <2>0, <2>4, SupplyChange
  <2>6. Supply(w) \in Int
    BY SupplyType
  <2>7. Supply(v) = Supply(w)
    BY <1>1, <2>3, <2>5, <2>6
  <2>. QED  BY <1>6, <2>6, <2>7 DEF Minted, v
<1>. QED  BY <1>4, <1>5, <1>6

(* A transaction that passes the gate and does not pay its sender brings no *)
(* coins, but for the one coinbase.                                         *)
LEMMA GateSupply ==
  ASSUME NEW w \in Accounts, NEW t \in Txn, NEW index, NEW i, NEW c \in {0, 1}, NEW S \in Int,
         BlockTxnReason(w, t, index, i, c) = "OK", t.from = NullAddr \/ t.from # t.to,
         Supply(w) = S + IF c = 1 THEN COINBASE_REWARD ELSE 0
  PROVE  LET d == c + IF t.from = NullAddr THEN 1 ELSE 0
         IN /\ d \in {0, 1}
            /\ Supply(ApplyTxn(w, t)) = S + IF d = 1 THEN COINBASE_REWARD ELSE 0
<1>1. Supply(ApplyTxn(w, t)) = Supply(w) + Minted(t)
  BY LedgerAssumption, ApplyTxnSupply
<1>2. COINBASE_REWARD \in Nat
  BY LedgerAssumption
<1>3. CASE t.from = NullAddr
  <2>1. c = 0 /\ t.amount = COINBASE_REWARD
    BY <1>3 DEF BlockTxnReason, CoinbaseShapeReason
  <2>2. Minted(t) = COINBASE_REWARD
    BY <1>3, <2>1 DEF Minted
  <2>. QED  BY <1>1, <1>2, <1>3, <2>1, <2>2
<1>4. CASE t.from # NullAddr
  <2>1. Minted(t) = 0
    BY <1>4 DEF Minted
  <2>2. CASE c = 0
    BY <1>1, <1>2, <1>4, <2>1, <2>2
  <2>3. CASE c = 1
    BY <1>1, <1>2, <1>4, <2>1, <2>3
  <2>. QED  BY <2>2, <2>3
<1>. QED  BY <1>3, <1>4

-----------------------------------------------------------------------------
(* Chains that replay.                                                      *)

(* A block that passes raises the supply by the reward at least.            *)
LEMMA BlockMints ==
  ASSUME NEW st \in Accounts, NEW b \in Block, NEW reward \in {0, COINBASE_REWARD},
         ApplyBlockTxns(st, b, reward).reason = "OK"
  PROVE  Supply(st) + reward <= Supply(ApplyBlockTxns(st, b, reward).work)
<1>. DEFINE m == Len(b.txns)
            S == Supply(st)
            R(c) == IF c > 0 THEN COINBASE_REWARD ELSE 0
<1>0. m \in Nat /\ \A k \in 1 .. m : b.txns[k] \in Txn
  BY DEF Block
<1>1. S \in Int /\ COINBASE_REWARD \in Nat
  BY LedgerAssumption, SupplyType
<1>2. PICK f : /\ Passed(f, st, b, m)
               /\ CoinbaseCountReason(f[m].coinbases, reward) = "OK"
               /\ ApplyBlockTxns(st, b, reward).work = f[m].work
  BY AppliesPassed
<1>3. \A k \in 0 .. m : f[k] \in RunState
  BY <1>0, <1>2, PassedType
<1>. HIDE DEF m, S
<1>. DEFINE T == {k \in Nat : k <= m => S + R(f[k].coinbases) <= Supply(f[k].work)}
<1>4. 0 \in T
  <2>1. f[0].coinbases = 0 /\ f[0].work = st
    BY <1>2 DEF Passed
  <2>. QED  BY <1>1, <2>1 DEF S
<1>5. ASSUME NEW k \in Nat, k \in T PROVE k + 1 \in T
  <2>. SUFFICES ASSUME k + 1 <= m PROVE S + R(f[k + 1].coinbases) <= Supply(f[k + 1].work)
    OBVIOUS
  <2>. DEFINE t == b.txns[k + 1]
              c == f[k].coinbases
              w == f[k].work
  <2>1. k + 1 \in 1 .. m /\ k \in 0 .. m /\ (k + 1) - 1 = k
    BY <1>0
  <2>2. c \in Nat /\ w \in Accounts /\ t \in Txn
    BY <1>0, <1>3, <2>1 DEF RunState
  <2>3. /\ BlockTxnReason(w, t, b.header.index, k, c) = "OK"
        /\ f[k + 1].work = ApplyTxn(w, t)
        /\ f[k + 1].coinbases = c + IF t.from = NullAddr THEN 1 ELSE 0
    <3>. DEFINE n == k + 1
    <3>1. n \in 1 .. m /\ n - 1 = k
      BY <2>1
    <3>. HIDE DEF n
    <3>2. /\ BlockTxnReason(f[k].work, b.txns[n], b.header.index, k, f[k].coinbases) = "OK"
          /\ f[n] = [reason |-> "OK", work |-> ApplyTxn(f[k].work, b.txns[n]),
                     coinbases |-> f[k].coinbases + IF b.txns[n].from = NullAddr THEN 1 ELSE 0]
      BY <1>2, <3>1 DEF Passed
    <3>. QED  BY <3>2 DEF n
  <2>4. S + R(c) <= Supply(w) /\ Supply(w) \in Int
    BY <1>5, <2>1, <2>2, LedgerAssumption, SupplyType
  <2>5. Supply(ApplyTxn(w, t)) = Supply(w) + Minted(t)
    BY <2>2, LedgerAssumption, ApplyTxnSupply
  <2>6. t.amount \in Nat
    BY <2>2 DEF Txn
  <2>. HIDE DEF t, c, w
  <2>7. CASE t.from = NullAddr
    <3>1. c = 0 /\ t.amount = COINBASE_REWARD
      BY <2>2, <2>3, <2>7 DEF BlockTxnReason, CoinbaseShapeReason
    <3>2. Minted(t) = COINBASE_REWARD
      BY <2>7, <3>1 DEF Minted
    <3>. QED  BY <1>1, <2>3, <2>4, <2>5, <2>7, <3>1, <3>2
  <2>8. CASE t.from # NullAddr
    <3>1. Minted(t) \in Nat
      BY <2>6 DEF Minted
    <3>2. f[k + 1].coinbases = c
      BY <2>2, <2>3, <2>8
    <3>. QED  BY <1>1, <2>2, <2>3, <2>4, <2>5, <3>1, <3>2
  <2>. QED  BY <2>7, <2>8
<1>6. Nat \subseteq T
  <2>. HIDE DEF T
  <2>. QED  BY <1>4, <1>5, SetInduction
<1>7. S + R(f[m].coinbases) <= Supply(f[m].work)
  BY <1>0, <1>6
<1>8. f[m].coinbases \in Nat /\ f[m].work \in Accounts
  BY <1>0, <1>3 DEF RunState
<1>9. reward <= R(f[m].coinbases)
  <2>1. ~(reward > 0 /\ f[m].coinbases = 0)
    BY <1>2 DEF CoinbaseCountReason
  <2>. QED  BY <1>1, <1>8, <2>1
<1>10. Supply(f[m].work) \in Int /\ R(f[m].coinbases) \in Int
  BY <1>1, <1>8, LedgerAssumption, SupplyType
<1>. HIDE DEF R
<1>11. S + reward <= Supply(f[m].work)
  BY <1>1, <1>7, <1>9, <1>10
<1>. QED  BY <1>2, <1>11 DEF S

(* Where the supply is right at the end of a way it was right all along: no *)
(* block of it can have brought too much, for none brings too little.       *)
LEMMA PathSupply ==
  ASSUME NEW s, NEW bs \in Seq(Block), NEW n \in 1 .. Len(bs), NEW now_s, NEW D,
         NEW reward \in {0, COINBASE_REWARD}, Path(s, bs, n, now_s, D, reward),
         Supply(s[n]) = GENESIS_SUPPLY + (n - 1) * reward
  PROVE  \A m \in 1 .. n : Supply(s[m]) = GENESIS_SUPPLY + (m - 1) * reward
<1>. DEFINE E(k) == Supply(s[k]) - (k - 1) * reward
            G == GENESIS_SUPPLY
<1>0. n \in Nat /\ n >= 1 /\ \A k \in 1 .. n : bs[k] \in Block
  OBVIOUS
<1>1. reward \in Nat /\ G \in Int
  BY LedgerAssumption, GenesisType, SupplyType DEF GENESIS_SUPPLY
<1>2. \A k \in 1 .. n : s[k] \in Accounts
  BY PathType
<1>3. \A k \in 1 .. n : Supply(s[k]) \in Int /\ (k - 1) * reward \in Int /\ E(k) \in Int
  <2>. TAKE k \in 1 .. n
  <2>1. Supply(s[k]) \in Int
    BY <1>2, LedgerAssumption, SupplyType
  <2>2. (k - 1) * reward \in Int
    BY <1>0, <1>1
  <2>. QED  BY <2>1, <2>2
<1>4. E(1) = G /\ E(n) = G
  <2>1. s[1] = ApplyGenesis
    BY DEF Path
  <2>2. Supply(s[1]) = G /\ (1 - 1) * reward = 0
    BY <1>1, <2>1 DEF GENESIS_SUPPLY
  <2>3. E(1) = G
    BY <1>1, <2>2
  <2>4. (n - 1) * reward \in Int
    BY <1>0, <1>1
  <2>5. E(n) = G
    BY <1>1, <2>4
  <2>. QED  BY <2>3, <2>5
<1>5. ASSUME NEW k \in 2 .. n PROVE E(k - 1) <= E(k)
  <2>1. k - 1 \in 1 .. n /\ k \in 1 .. n
    BY <1>0
  <2>2. /\ ApplyBlockTxns(s[k - 1], bs[k], reward).reason = "OK"
        /\ s[k] = ApplyBlockTxns(s[k - 1], bs[k], reward).work
    BY DEF Path
  <2>3. Supply(s[k - 1]) + reward <= Supply(s[k])
    BY <1>0, <1>2, <2>1, <2>2, BlockMints
  <2>. DEFINE p == ((k - 1) - 1) * reward
              q == (k - 1) * reward
  <2>4. p \in Int /\ q \in Int /\ q = p + reward
    BY <1>0, <1>1
  <2>5. Supply(s[k - 1]) \in Int /\ Supply(s[k]) \in Int
    BY <1>3, <2>1
  <2>. HIDE DEF p, q
  <2>6. Supply(s[k - 1]) - p <= Supply(s[k]) - q
    BY <1>1, <2>3, <2>4, <2>5
  <2>. QED  BY <2>6 DEF p, q
<1>. HIDE DEF E, G
<1>. DEFINE T == {k \in Nat : k + 1 <= n => G <= E(k + 1)}
            U == {k \in Nat : k + 1 <= n => E(n - k) <= G}
<1>6. 0 \in T /\ 0 \in U
  BY <1>0, <1>1, <1>4
<1>7. ASSUME NEW k \in Nat, k \in T PROVE k + 1 \in T
  <2>. SUFFICES ASSUME (k + 1) + 1 <= n PROVE G <= E((k + 1) + 1)
    OBVIOUS
  <2>1. k + 1 \in 1 .. n /\ (k + 1) + 1 \in 2 .. n /\ ((k + 1) + 1) - 1 = k + 1 /\ (k + 1) + 1 \in 1 .. n
    BY <1>0
  <2>2. G <= E(k + 1)
    BY <1>0, <1>7, <2>1
  <2>3. E(k + 1) <= E((k + 1) + 1)
    BY <1>5, <2>1
  <2>4. E(k + 1) \in Int /\ E((k + 1) + 1) \in Int
    BY <1>3, <2>1
  <2>. QED  BY <1>1, <2>2, <2>3, <2>4
<1>8. ASSUME NEW k \in Nat, k \in U PROVE k + 1 \in U
  <2>. SUFFICES ASSUME (k + 1) + 1 <= n PROVE E(n - (k + 1)) <= G
    OBVIOUS
  <2>1. n - k \in 2 .. n /\ (n - k) - 1 = n - (k + 1) /\ n - k \in 1 .. n /\ n - (k + 1) \in 1 .. n
    BY <1>0
  <2>2. E(n - k) <= G
    BY <1>0, <1>8
  <2>3. E(n - (k + 1)) <= E(n - k)
    BY <1>5, <2>1
  <2>4. E(n - (k + 1)) \in Int /\ E(n - k) \in Int
    BY <1>3, <2>1
  <2>. QED  BY <1>1, <2>2, <2>3, <2>4
<1>9. Nat \subseteq T /\ Nat \subseteq U
  <2>. HIDE DEF T, U
  <2>. QED  BY <1>6, <1>7, <1>8, SetInduction
<1>. SUFFICES ASSUME NEW m \in 1 .. n PROVE Supply(s[m]) = G + (m - 1) * reward
  BY DEF G
<1>10. m - 1 \in Nat /\ (m - 1) + 1 = m /\ n - m \in Nat /\ n - (n - m) = m /\ (n - m) + 1 <= n /\ m <= n
  BY <1>0
<1>11. G <= E(m) /\ E(m) <= G
  <2>1. m - 1 \in T /\ n - m \in U
    BY <1>9, <1>10
  <2>. QED  BY <1>10, <2>1
<1>12. E(m) = G
  BY <1>1, <1>3, <1>11
<1>13. Supply(s[m]) \in Int /\ (m - 1) * reward \in Int
  BY <1>3
<1>. QED  BY <1>1, <1>12, <1>13 DEF E

(* A chain that replays still does so later.                                *)
LEMMA ReplaysLater ==
  ASSUME NEW bs \in Seq(Block), NEW D, NEW reward, NEW now_s \in Nat, NEW later \in Nat,
         now_s <= later, ReplayReason(bs, now_s, D, reward) = "OK"
  PROVE  ReplayReason(bs, later, D, reward) = "OK"
<1>1. bs # <<>>
  BY ReplayHasPath
<1>2. PICK s : /\ Path(s, bs, Len(bs), now_s, D, reward)
               /\ Supply(s[Len(bs)]) = GENESIS_SUPPLY + (Len(bs) - 1) * reward
  BY ReplayHasPath
<1>3. Len(bs) \in 1 .. Len(bs)
  BY <1>1
<1>4. Path(s, bs, Len(bs), later, D, reward)
  BY <1>2, <1>3, PathLater
<1>. QED  BY <1>1, <1>2, <1>4, PathReplays DEF ReplayReason

(* Every prefix of a chain that replays, but the empty one, replays.        *)
LEMMA PrefixReplays ==
  ASSUME NEW bs \in Seq(Block), NEW D, NEW reward \in {0, COINBASE_REWARD}, NEW now_s,
         ReplayReason(bs, now_s, D, reward) = "OK", NEW m \in 1 .. Len(bs)
  PROVE  ReplayReason(SubSeq(bs, 1, m), now_s, D, reward) = "OK"
<1>1. PICK s : /\ Path(s, bs, Len(bs), now_s, D, reward)
               /\ Supply(s[Len(bs)]) = GENESIS_SUPPLY + (Len(bs) - 1) * reward
  BY ReplayHasPath
<1>2. Len(bs) \in 1 .. Len(bs) /\ Len(bs) \in Nat
  OBVIOUS
<1>3. Supply(s[m]) = GENESIS_SUPPLY + (m - 1) * reward
  BY <1>1, <1>2, PathSupply
<1>. DEFINE cs == SubSeq(bs, 1, m)
<1>4. Path(s, cs, m, now_s, D, reward)
  BY <1>1, <1>2, PathPrefix
<1>5. cs \in Seq(Block) /\ Len(cs) = m /\ cs # <<>>
  OBVIOUS
<1>. HIDE DEF cs
<1>6. ReplayReason(cs, now_s, D, reward) = "OK"
  BY <1>3, <1>4, <1>5, PathReplays DEF ReplayReason
<1>. QED  BY <1>6 DEF cs

(* genesis alone replays.                                                   *)
LEMMA GenesisReplays ==
  ASSUME NEW now_s, NEW D, NEW reward \in Nat
  PROVE  ReplayReason(<<GenesisBlock>>, now_s, D, reward) = "OK"
<1>. DEFINE bs == <<GenesisBlock>>
            s == <<ApplyGenesis>>
<1>1. bs \in Seq(Block) /\ Len(bs) = 1 /\ bs # <<>> /\ bs[1] = GenesisBlock
  BY GenesisType
<1>2. s[1] = ApplyGenesis
  OBVIOUS
<1>3. GenesisReason(GenesisBlock) = "OK"
  BY DEF GenesisReason, GenesisBlock, ComputeTxnsHash
<1>. HIDE DEF bs, s
<1>4. Path(s, bs, 1, now_s, D, reward)
  BY <1>1, <1>2, <1>3 DEF Path
<1>5. Supply(s[1]) = GENESIS_SUPPLY + (1 - 1) * reward
  <2>1. Supply(ApplyGenesis) \in Int
    BY LedgerAssumption, GenesisType, SupplyType
  <2>2. (1 - 1) * reward = 0
    OBVIOUS
  <2>. QED  BY <1>2, <2>1, <2>2 DEF GENESIS_SUPPLY
<1>6. ReplayReason(bs, now_s, D, reward) = "OK"
  <2>1. /\ Path(s, bs, Len(bs), now_s, D, reward)
        /\ Supply(s[Len(bs)]) = GENESIS_SUPPLY + (Len(bs) - 1) * reward
    BY <1>1, <1>4, <1>5
  <2>2. bs \in Seq(Block) /\ bs # <<>>
    BY <1>1
  <2>. QED  BY <2>1, <2>2, PathReplays DEF ReplayReason
<1>. QED  BY <1>6 DEF bs
=============================================================================
