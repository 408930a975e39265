------------------------------ MODULE CliProofs ------------------------------
(***************************************************************************)
(* Proofs about `txchain import' on a directory whose node is down while   *)
(* it runs, for any candidates and difficulty, kills at any point and cuts *)
(* anywhere in what is written: which chain the file holds between         *)
(* imports, that it replays as far as it parses, and that a chain once     *)
(* replaced never comes back; and about `txchain send' without a node,     *)
(* that it signs the nonce a full replay gives.                            *)
(***************************************************************************)
EXTENDS Cli, LedgerProofs

(* The hypothesis: import is not run beside the node.                       *)
NodeDown == ~ImportWhileUp

(* The types the weights rest on.                                           *)
Types ==
  /\ file \in Seq(Line)
  /\ D \in Difficulties
  /\ now \in Nat
  /\ pc \in {"idle", "loaded", "won", "truncated", "sent"}
  /\ imported \in Seq(Block)
  /\ node \in Seq(Block)
  /\ offered \subseteq Seq(Block) /\ gone \subseteq Seq(Block)
  /\ kills \in Nat
  /\ glued \in BOOLEAN

(* While the node is up no import is under way.                             *)
Excluded == node # <<>> => pc \in {"idle", "sent"}

(* Only the last line may be cut short, one that does not parse only after  *)
(* a kill, and the file of a running node loads.                            *)
Shape ==
  /\ \A i \in 1 .. Len(file) : i < Len(file) => file[i].ok /\ file[i].eol
  /\ \A i \in 1 .. Len(file) : ~file[i].ok => kills > 0
  /\ node # <<>> => LoadOK

Weight(bs) == CumulativeWork(bs, D)

(* What import has promised so far is no heavier than `bs', and what it has *)
(* replaced is strictly lighter.                                            *)
Tops(bs) ==
  /\ \A c \in offered : Weight(c) <= Weight(bs)
  /\ \A c \in gone : Weight(c) < Weight(bs)

(* The file tops what went before, and while it lies truncated the chain    *)
(* that won does; between the two the winner outweighs the file.            *)
HeavyInv ==
  /\ pc # "truncated" => Tops(Parsed)
  /\ pc = "won" => Weight(imported) > Weight(Parsed)
  /\ pc = "truncated" => Tops(imported)

IInv == Types /\ Excluded /\ Shape /\ HeavyInv
-----------------------------------------------------------------------------
(* Weights.                                                                 *)

(* A longer chain is no lighter.                                            *)
LEMMA LongerIsNoLighter ==
  ASSUME NEW d \in Difficulties, NEW S, NEW bs \in Seq(S), NEW cs \in Seq(S), Len(bs) <= Len(cs)
  PROVE  /\ CumulativeWork(bs, d) \in Nat
         /\ CumulativeWork(bs, d) <= CumulativeWork(cs, d)
<1> DEFINE W == BlockWork(d)
<1>1. W \in Nat
  BY CliAssumption
<1> HIDE DEF W
<1>2. CumulativeWork(bs, d) = (IF bs = <<>> THEN 0 ELSE (Len(bs) - 1) * W)
      /\ CumulativeWork(cs, d) = (IF cs = <<>> THEN 0 ELSE (Len(cs) - 1) * W)
  BY DEF CumulativeWork, W
<1>3. ASSUME NEW m \in Nat, NEW n \in Nat, m <= n
      PROVE  m * W \in Nat /\ m * W <= n * W
  <2>1. n - m \in Nat /\ n = m + (n - m)
    BY <1>3
  <2>2. PICK k \in Nat : n = m + k
    BY <2>1
  <2>3. (m + k) * W = m * W + k * W /\ k * W \in Nat /\ m * W \in Nat
    BY <1>1
  <2> QED
    BY <2>2, <2>3
<1>4. CASE bs = <<>>
  <2>1. CASE cs = <<>>
    BY <2>1, <1>2, <1>4
  <2>2. CASE cs # <<>>
    <3>1. Len(cs) - 1 \in Nat
      BY <2>2, EmptySeq
    <3>2. (Len(cs) - 1) * W \in Nat
      BY <3>1, <1>1
    <3> QED
      BY <3>2, <2>2, <1>2, <1>4
  <2> QED
    BY <2>1, <2>2
<1>5. CASE bs # <<>>
  <2>1. Len(bs) - 1 \in Nat /\ Len(cs) - 1 \in Nat /\ Len(bs) - 1 <= Len(cs) - 1
    <3>1. Len(bs) \in Nat \ {0} /\ Len(cs) \in Nat
      BY <1>5, EmptySeq
    <3> QED
      BY <3>1
  <2>2. cs # <<>>
    <3>1. Len(cs) # 0
      BY <2>1
    <3> QED
      BY <3>1
  <2>3. (Len(bs) - 1) * W \in Nat /\ (Len(bs) - 1) * W <= (Len(cs) - 1) * W
    BY <2>1, <1>3
  <2> QED
    BY <2>2, <2>3, <1>2, <1>5
<1> QED
  BY <1>4, <1>5

(* What load gives of a file of lines.                                      *)
LEMMA BlocksOf ==
  ASSUME NEW f \in Seq(Line)
  PROVE  LET bs == [i \in 1 .. Len(f) |-> f[i].block]
         IN bs \in Seq(Block) /\ Len(bs) = Len(f)
<1>1. \A i \in 1 .. Len(f) : f[i].block \in Block
  <2>1. \A i \in 1 .. Len(f) : f[i] \in Line
    OBVIOUS
  <2>2. \A l \in Line : l.block \in Block
    BY DEF Line
  <2> QED
    BY <2>1, <2>2
<1> QED
  BY <1>1

LEMMA LoadedType ==
  ASSUME file \in Seq(Line)
  PROVE  Loaded \in Seq(Block) /\ Len(Loaded) = Len(file)
  BY BlocksOf DEF Loaded

(* The blocks that load gives of the lines f, those before a malformed one. *)
ParsedOf(f) ==
  LET n == CHOOSE k \in 0 .. Len(f) :
             (\A i \in 1 .. k : f[i].ok) /\ (k < Len(f) => ~f[k + 1].ok)
  IN [i \in 1 .. n |-> f[i].block]

(* There is a first malformed line, or none.                                *)
LEMMA ParsedCut ==
  ASSUME NEW f \in Seq(Line)
  PROVE  \E n \in 0 .. Len(f) : /\ \A i \in 1 .. n : f[i].ok
                                /\ n < Len(f) => ~f[n + 1].ok
                                /\ ParsedOf(f) = [i \in 1 .. n |-> f[i].block]
<1>. DEFINE Cut(k) == (\A i \in 1 .. k : f[i].ok) /\ (k < Len(f) => ~f[k + 1].ok)
            T == {m \in Nat : m <= Len(f) =>
                    (\A i \in 1 .. m : f[i].ok) \/ \E k \in 0 .. Len(f) : Cut(k)}
<1>0. Len(f) \in Nat
  OBVIOUS
<1>1. 0 \in T
  BY <1>0
<1>2. ASSUME NEW m \in Nat, m \in T PROVE m + 1 \in T
  <2>. SUFFICES ASSUME m + 1 <= Len(f)
                PROVE  (\A i \in 1 .. m + 1 : f[i].ok) \/ \E k \in 0 .. Len(f) : Cut(k)
    OBVIOUS
  <2>1. (\A i \in 1 .. m : f[i].ok) \/ \E k \in 0 .. Len(f) : Cut(k)
    BY <1>0, <1>2
  <2>2. ASSUME \A i \in 1 .. m : f[i].ok, ~f[m + 1].ok PROVE Cut(m) /\ m \in 0 .. Len(f)
    BY <1>0, <2>2
  <2>3. ASSUME \A i \in 1 .. m : f[i].ok, f[m + 1].ok PROVE \A i \in 1 .. m + 1 : f[i].ok
    BY <2>3
  <2>. HIDE DEF Cut
  <2>. QED  BY <2>1, <2>2, <2>3
<1>3. Nat \subseteq T
  <2>. HIDE DEF T
  <2>. QED  BY <1>1, <1>2, SetInduction
<1>4. \E k \in 0 .. Len(f) : Cut(k)
  <2>1. (\A i \in 1 .. Len(f) : f[i].ok) \/ \E k \in 0 .. Len(f) : Cut(k)
    BY <1>0, <1>3
  <2>2. (\A i \in 1 .. Len(f) : f[i].ok) => Cut(Len(f)) /\ Len(f) \in 0 .. Len(f)
    BY <1>0
  <2>. HIDE DEF Cut
  <2>. QED  BY <2>1, <2>2
<1>. DEFINE n == CHOOSE k \in 0 .. Len(f) : Cut(k)
<1>5. n \in 0 .. Len(f) /\ Cut(n)
  <2>. HIDE DEF Cut
  <2>. QED  BY <1>4
<1>6. ParsedOf(f) = [i \in 1 .. n |-> f[i].block]
  BY DEF ParsedOf
<1>. HIDE DEF n
<1>. QED  BY <1>5, <1>6

(* ... so what parses are blocks, no more than there are lines.             *)
LEMMA ParsedOfType ==
  ASSUME NEW f \in Seq(Line)
  PROVE  ParsedOf(f) \in Seq(Block)
<1>1. PICK n \in 0 .. Len(f) : ParsedOf(f) = [i \in 1 .. n |-> f[i].block]
  BY ParsedCut
<1>2. Len(f) \in Nat /\ n \in Nat /\ \A i \in 1 .. n : i \in 1 .. Len(f)
  OBVIOUS
<1>3. \A i \in 1 .. n : f[i] \in Line
  BY <1>2
<1>4. \A l \in Line : l.block \in Block
  BY DEF Line
<1>5. \A i \in 1 .. n : f[i].block \in Block
  BY <1>3, <1>4
<1>. QED  BY <1>1, <1>2, <1>5

LEMMA ParsedType ==
  ASSUME file \in Seq(Line)
  PROVE  Parsed \in Seq(Block)
<1>1. Parsed = ParsedOf(file)
  BY DEF Parsed, ParsedOf
<1>. QED  BY <1>1, ParsedOfType

(* A cut is the only one.                                                   *)
LEMMA ParsedIs ==
  ASSUME NEW f \in Seq(Line), NEW n \in 0 .. Len(f),
         \A i \in 1 .. n : f[i].ok, n < Len(f) => ~f[n + 1].ok
  PROVE  ParsedOf(f) = [i \in 1 .. n |-> f[i].block]
<1>1. PICK k \in 0 .. Len(f) : /\ \A i \in 1 .. k : f[i].ok
                               /\ k < Len(f) => ~f[k + 1].ok
                               /\ ParsedOf(f) = [i \in 1 .. k |-> f[i].block]
  BY ParsedCut
<1>0. Len(f) \in Nat /\ n \in Nat /\ k \in Nat /\ n <= Len(f) /\ k <= Len(f)
  OBVIOUS
<1>2. ~(k < n)
  <2>. SUFFICES ASSUME k < n PROVE FALSE
    OBVIOUS
  <2>1. k + 1 \in 1 .. n /\ k < Len(f)
    BY <1>0
  <2>. QED  BY <1>1, <2>1
<1>3. ~(n < k)
  <2>. SUFFICES ASSUME n < k PROVE FALSE
    OBVIOUS
  <2>1. n + 1 \in 1 .. k /\ n < Len(f)
    BY <1>0
  <2>. QED  BY <1>1, <2>1
<1>4. k = n
  BY <1>0, <1>2, <1>3
<1>. QED  BY <1>1, <1>4

(* Of a file that loads everything parses.                                  *)
LEMMA LoadsParsed ==
  ASSUME file \in Seq(Line), LoadOK
  PROVE  Parsed = Loaded
<1>1. Len(file) \in 0 .. Len(file) /\ ~(Len(file) < Len(file))
  OBVIOUS
<1>2. ParsedOf(file) = [i \in 1 .. Len(file) |-> file[i].block]
  BY <1>1, ParsedIs DEF LoadOK
<1>. QED  BY <1>2 DEF Parsed, ParsedOf, Loaded

LEMMA LoadsParsedNext ==
  ASSUME file' \in Seq(Line), LoadOK'
  PROVE  Parsed' = Loaded'
<1>. DEFINE f == file'
<1>1. Len(f) \in 0 .. Len(f) /\ ~(Len(f) < Len(f)) /\ f \in Seq(Line)
  OBVIOUS
<1>2. \A i \in 1 .. Len(f) : f[i].ok
  BY DEF LoadOK
<1>3. Parsed' = ParsedOf(f) /\ Loaded' = [i \in 1 .. Len(f) |-> f[i].block]
  BY DEF Parsed, ParsedOf, Loaded
<1>. HIDE DEF f
<1>4. ParsedOf(f) = [i \in 1 .. Len(f) |-> f[i].block]
  BY <1>1, <1>2, ParsedIs
<1>. QED  BY <1>3, <1>4

(* rewrite's file loads as the chain it was given.                          *)
LEMMA LinesLoad ==
  ASSUME NEW bs \in Seq(Block), file' = Lines(bs)
  PROVE  file' \in Seq(Line) /\ Loaded' = bs
<1>1. \A i \in 1 .. Len(bs) : [ok |-> TRUE, block |-> bs[i], eol |-> TRUE] \in Line
  BY DEF Line
<1>2. /\ file' \in Seq(Line) /\ Len(file') = Len(bs)
      /\ \A i \in 1 .. Len(bs) : file'[i] = [ok |-> TRUE, block |-> bs[i], eol |-> TRUE]
  BY <1>1 DEF Lines
<1>3. ASSUME NEW i \in 1 .. Len(bs)
      PROVE  file'[i].block = bs[i]
  <2>1. file'[i] = [ok |-> TRUE, block |-> bs[i], eol |-> TRUE]
    BY <1>2
  <2> QED
    BY <2>1
<1>4. Loaded' = [i \in 1 .. Len(bs) |-> bs[i]]
  <2>1. Loaded' = [i \in 1 .. Len(file') |-> file'[i].block]
    BY DEF Loaded
  <2>2. Loaded' = [i \in 1 .. Len(bs) |-> file'[i].block]
    BY <2>1, <1>2
  <2> QED
    BY <2>2, <1>3
<1> QED
  BY <1>2, <1>4

(* An append makes the file no shorter.                                     *)
LEMMA AppendGrows ==
  ASSUME file \in Seq(Line), NEW b \in Block, file' = Written(b, "all")
  PROVE  file' \in Seq(Line) /\ Len(file') >= Len(file)
<1>1. CASE file # <<>> /\ ~file[Len(file)].eol
  <2>1. Len(file) \in 1 .. Len(file) /\ file[Len(file)] \in Line
    BY <1>1
  <2>2. [file[Len(file)] EXCEPT !.eol = TRUE] \in Line
    BY <2>1 DEF Line
  <2> DEFINE l == [file[Len(file)] EXCEPT !.eol = TRUE]
  <2>3. file' = [file EXCEPT ![Len(file)] = l]
    BY <1>1 DEF Written
  <2>5. l \in Line
    BY <2>2
  <2> HIDE DEF l
  <2>4. file' \in Seq(Line) /\ Len(file') = Len(file)
    BY <2>1, <2>3, <2>5, ExceptSeq
  <2> QED
    BY <2>4
<1>2. CASE ~(file # <<>> /\ ~file[Len(file)].eol)
  <2>1. [ok |-> TRUE, block |-> b, eol |-> TRUE] \in Line
    BY DEF Line
  <2>2. file' = Append(file, [ok |-> TRUE, block |-> b, eol |-> TRUE])
    BY <1>2 DEF Written
  <2> QED
    BY <2>1, <2>2
<1> QED
  BY <1>1, <1>2

(* Every line of the file is whole.                                         *)
Whole == \A i \in 1 .. Len(file) : file[i].ok /\ file[i].eol

(* A file of whole lines grows by a line and its chain by a block.          *)
LEMMA AppendWhole ==
  ASSUME file \in Seq(Line), file # <<>> => Whole, NEW b \in Block, file' = Written(b, "all")
  PROVE  Whole' /\ file' # <<>> /\ Loaded' = Append(Loaded, b)
<1>. DEFINE l == [ok |-> TRUE, block |-> b, eol |-> TRUE]
            f == file
            n == Len(file)
<1>0. n \in Nat
  OBVIOUS
<1>1. ~(file # <<>> /\ ~file[Len(file)].eol)
  <2>. SUFFICES ASSUME file # <<>> PROVE file[Len(file)].eol
    OBVIOUS
  <2>1. Len(file) \in 1 .. Len(file)
    OBVIOUS
  <2>. QED  BY <2>1 DEF Whole
<1>2. file' = Append(f, l)
  BY <1>1 DEF Written
<1>3. l \in Line
  BY DEF Line
<1>4. l.ok /\ l.eol /\ l.block = b
  OBVIOUS
<1>. HIDE DEF l
<1>5. Len(file') = n + 1 /\ file'[n + 1] = l /\ \A i \in 1 .. n : file'[i] = f[i]
  BY <1>2
<1>. HIDE DEF f, n
<1>6. \A i \in 1 .. n : f[i].ok /\ f[i].eol
  BY DEF Whole, f, n
<1>7. Whole'
  <2>. SUFFICES ASSUME NEW i \in 1 .. n + 1 PROVE file'[i].ok /\ file'[i].eol
    BY <1>5 DEF Whole
  <2>1. CASE i = n + 1
    BY <2>1, <1>4, <1>5
  <2>2. CASE i \in 1 .. n
    BY <2>2, <1>5, <1>6
  <2>. QED  BY <1>0, <2>1, <2>2
<1>8. Loaded \in Seq(Block) /\ Len(Loaded) = n /\ \A i \in 1 .. n : Loaded[i] = f[i].block
  BY LoadedType DEF Loaded, f, n
<1>. DEFINE L == Loaded
<1>9. L \in Seq(Block) /\ Len(L) = n /\ \A i \in 1 .. n : L[i] = f[i].block
  BY <1>8
<1>10. Loaded' = [i \in 1 .. n + 1 |-> file'[i].block]
  BY <1>5 DEF Loaded
<1>. HIDE DEF L
<1>. DEFINE A == Append(L, b)
<1>11. A \in Seq(Block) /\ Len(A) = n + 1 /\ A[n + 1] = b /\ \A i \in 1 .. n : A[i] = L[i]
  BY <1>0, <1>9
<1>. HIDE DEF A
<1>12. \A i \in 1 .. n + 1 : file'[i].block = A[i]
  <2>. TAKE i \in 1 .. n + 1
  <2>1. CASE i = n + 1
    BY <2>1, <1>4, <1>5, <1>11
  <2>2. CASE i \in 1 .. n
    BY <2>2, <1>5, <1>9, <1>11
  <2>. QED  BY <1>0, <2>1, <2>2
<1>13. Loaded' = Append(L, b)
  <2>1. A = [i \in 1 .. n + 1 |-> A[i]]
    BY <1>11
  <2>2. Loaded' = A
    BY <1>10, <1>12, <2>1
  <2>. QED  BY <2>2 DEF A
<1>14. file' # <<>>
  BY <1>0, <1>5
<1>. QED  BY <1>7, <1>13, <1>14 DEF L

(* ... and what rewrite leaves is whole.                                    *)
LEMMA LinesWhole ==
  ASSUME NEW bs \in Seq(Block), file' = Lines(bs)
  PROVE  Whole'
<1>1. Len(file') = Len(bs)
      /\ \A i \in 1 .. Len(bs) : file'[i] = [ok |-> TRUE, block |-> bs[i], eol |-> TRUE]
  BY DEF Lines
<1>2. ASSUME NEW i \in 1 .. Len(bs) PROVE file'[i].ok /\ file'[i].eol
  <2>1. file'[i] = [ok |-> TRUE, block |-> bs[i], eol |-> TRUE]
    BY <1>1
  <2>. QED  BY <2>1
<1>. QED  BY <1>1, <1>2 DEF Whole

(* What a write cut within a chain leaves: lines that parse up to one of    *)
(* the chain's prefixes, only the last of them cut short.                   *)
LEMMA CutLinesShape ==
  ASSUME NEW bs \in Seq(Block), NEW n \in 0 .. Len(bs) - 1, NEW extent \in Extent,
         NEW f, f = CutLines(bs, n, extent)
  PROVE  /\ f \in Seq(Line)
         /\ \A i \in 1 .. Len(f) : i < Len(f) => f[i].ok /\ f[i].eol
         /\ \E m \in 0 .. Len(bs) : ParsedOf(f) = SubSeq(bs, 1, m)
<1>. DEFINE cs == SubSeq(bs, 1, n)
            ls == Lines(cs)
            b == bs[n + 1]
            l == [ok |-> extent # "torn", block |-> b, eol |-> (extent = "all")]
<1>0. Len(bs) \in Nat /\ n \in Nat /\ n < Len(bs) /\ n + 1 \in 1 .. Len(bs)
  OBVIOUS
<1>1. \A i \in 1 .. n + 1 : i \in 1 .. Len(bs) /\ bs[i] \in Block
  <2>1. \A i \in 1 .. n + 1 : i \in 1 .. Len(bs)
    BY <1>0
  <2>. QED  BY <2>1
<1>2. \A m \in {n, n + 1} : /\ SubSeq(bs, 1, m) \in Seq(Block)
                            /\ Len(SubSeq(bs, 1, m)) = m
                            /\ \A i \in 1 .. m : SubSeq(bs, 1, m)[i] = bs[i]
  <2>. TAKE m \in {n, n + 1}
  <2>. DEFINE q == SubSeq(bs, 1, m)
  <2>1. m \in Nat /\ \A i \in 1 .. m : i \in 1 .. n + 1
    BY <1>0
  <2>2. \A i \in 1 .. m : bs[i] \in Block
    BY <1>1, <2>1
  <2>3. /\ q \in Seq(Block)
        /\ Len(q) = IF 1 <= m THEN m - 1 + 1 ELSE 0
        /\ \A i \in 1 .. m - 1 + 1 : q[i] = bs[1 + i - 1]
    BY <2>1, <2>2, SubSeqProperties
  <2>. HIDE DEF q
  <2>4. Len(q) = m
    BY <2>1, <2>3
  <2>5. \A i \in 1 .. m : i \in 1 .. m - 1 + 1 /\ 1 + i - 1 = i
    BY <2>1
  <2>6. \A i \in 1 .. m : q[i] = bs[i]
    BY <2>3, <2>5
  <2>. QED  BY <2>3, <2>4, <2>6 DEF q
<1>3. cs \in Seq(Block) /\ Len(cs) = n /\ \A i \in 1 .. n : cs[i] = bs[i]
  BY <1>2
<1>. HIDE DEF cs
<1>4. /\ ls \in Seq(Line) /\ Len(ls) = n
      /\ \A i \in 1 .. n : ls[i].ok /\ ls[i].eol /\ ls[i].block = bs[i]
  <2>1. \A i \in 1 .. n : [ok |-> TRUE, block |-> cs[i], eol |-> TRUE] \in Line
    BY <1>3 DEF Line
  <2>2. /\ ls \in Seq(Line) /\ Len(ls) = n
        /\ \A i \in 1 .. n : ls[i] = [ok |-> TRUE, block |-> cs[i], eol |-> TRUE]
    BY <1>0, <1>3, <2>1 DEF Lines
  <2>3. ASSUME NEW i \in 1 .. n PROVE ls[i].ok /\ ls[i].eol /\ ls[i].block = bs[i]
    <3>1. ls[i] = [ok |-> TRUE, block |-> cs[i], eol |-> TRUE] /\ cs[i] = bs[i]
      BY <1>3, <2>2
    <3>. QED  BY <3>1
  <2>. QED  BY <2>2, <2>3
<1>5. l \in Line /\ l.block = b /\ (extent = "torn" => ~l.ok) /\ (extent # "torn" => l.ok)
  <2>1. b \in Block
    BY <1>0
  <2>. QED  BY <2>1 DEF Line
<1>6. f = ls \o (IF extent = "nothing" THEN <<>> ELSE <<l>>)
  BY DEF CutLines, cs
<1>. HIDE DEF ls, l, b
<1>7. CASE extent = "nothing"
  <2>1. f = ls
    BY <1>4, <1>6, <1>7
  <2>2. ParsedOf(ls) = [i \in 1 .. n |-> ls[i].block]
    BY <1>0, <1>4, ParsedIs
  <2>3. ParsedOf(ls) = SubSeq(bs, 1, n)
    <3>1. ParsedOf(ls) = [i \in 1 .. n |-> bs[i]]
      BY <1>4, <2>2
    <3>2. cs = [i \in 1 .. n |-> cs[i]]
      BY <1>3
    <3>3. cs = [i \in 1 .. n |-> bs[i]]
      BY <1>3, <3>2
    <3>. QED  BY <3>1, <3>3 DEF cs
  <2>4. \A i \in 1 .. Len(f) : f[i].ok /\ f[i].eol
    BY <1>4, <2>1
  <2>5. n \in 0 .. Len(bs) /\ ParsedOf(f) = SubSeq(bs, 1, n) /\ f \in Seq(Line)
    BY <1>0, <1>4, <2>1, <2>3
  <2>. QED  BY <2>4, <2>5
<1>8. CASE extent # "nothing"
  <2>1. f = Append(ls, l)
    <3>1. f = ls \o <<l>>
      BY <1>6, <1>8
    <3>. QED  BY <1>4, <1>5, <3>1
  <2>2. f \in Seq(Line) /\ Len(f) = n + 1 /\ f[n + 1] = l /\ \A i \in 1 .. n : f[i] = ls[i]
    BY <1>4, <1>5, <2>1
  <2>3. ASSUME NEW i \in 1 .. Len(f), i < Len(f) PROVE f[i].ok /\ f[i].eol
    <3>1. i \in 1 .. n
      BY <1>0, <2>2, <2>3
    <3>. QED  BY <1>4, <2>2, <3>1
  <2>4. CASE extent = "torn"
    <3>0. ~l.ok
      BY <1>5, <2>4
    <3>1. ~f[n + 1].ok /\ n \in 0 .. Len(f)
      BY <1>0, <2>2, <3>0
    <3>2. \A i \in 1 .. n : f[i].ok /\ f[i].block = bs[i]
      BY <1>4, <2>2
    <3>3. ParsedOf(f) = [i \in 1 .. n |-> f[i].block]
      BY <2>2, <3>1, <3>2, ParsedIs
    <3>4. ParsedOf(f) = [i \in 1 .. n |-> bs[i]]
      BY <3>2, <3>3
    <3>5. cs = [i \in 1 .. n |-> bs[i]]
      <4>1. cs = [i \in 1 .. n |-> cs[i]]
        BY <1>3
      <4>. QED  BY <1>3, <4>1
    <3>6. ParsedOf(f) = SubSeq(bs, 1, n) /\ n \in 0 .. Len(bs)
      BY <1>0, <3>4, <3>5 DEF cs
    <3>. QED  BY <2>2, <2>3, <3>6
  <2>5. CASE extent # "torn"
    <3>1. \A i \in 1 .. n + 1 : f[i].ok /\ f[i].block = bs[i]
      <4>. TAKE i \in 1 .. n + 1
      <4>1. CASE i = n + 1
        BY <1>5, <2>2, <2>5, <4>1 DEF b
      <4>2. CASE i \in 1 .. n
        BY <1>4, <2>2, <4>2
      <4>. QED  BY <1>0, <4>1, <4>2
    <3>2. n + 1 \in 0 .. Len(f) /\ ~(n + 1 < Len(f))
      BY <1>0, <2>2
    <3>3. ParsedOf(f) = [i \in 1 .. n + 1 |-> f[i].block]
      BY <2>2, <3>1, <3>2, ParsedIs
    <3>4. ParsedOf(f) = [i \in 1 .. n + 1 |-> bs[i]]
      BY <3>1, <3>3
    <3>. DEFINE ds == SubSeq(bs, 1, n + 1)
    <3>5. ds \in Seq(Block) /\ Len(ds) = n + 1 /\ \A i \in 1 .. n + 1 : ds[i] = bs[i]
      BY <1>2
    <3>. HIDE DEF ds
    <3>6. ds = [i \in 1 .. n + 1 |-> bs[i]]
      <4>1. ds = [i \in 1 .. n + 1 |-> ds[i]]
        BY <3>5
      <4>. QED  BY <3>5, <4>1
    <3>7. ParsedOf(f) = SubSeq(bs, 1, n + 1) /\ n + 1 \in 0 .. Len(bs)
      BY <1>0, <3>4, <3>6 DEF ds
    <3>. QED  BY <2>2, <2>3, <3>7
  <2>. QED  BY <2>4, <2>5
<1>. QED  BY <1>7, <1>8

(* An append to a file that loads leaves one that loads, of whole lines.    *)
LEMMA AppendLoads ==
  ASSUME file \in Seq(Line), LoadOK, \A i \in 1 .. Len(file) : i < Len(file) => file[i].eol,
         NEW b \in Block, file' = Written(b, "all")
  PROVE  file' \in Seq(Line) /\ Whole' /\ Len(Loaded) <= Len(Loaded')
<1>. DEFINE n == Len(file)
<1>0. n \in Nat /\ file' \in Seq(Line) /\ Len(file') >= n
  BY AppendGrows
<1>1. Len(Loaded) = n /\ Len(Loaded') = Len(file')
  BY <1>0, BlocksOf DEF Loaded
<1>2. CASE file # <<>> /\ ~file[n].eol
  <2>1. n \in 1 .. n /\ file[n] \in Line
    BY <1>0, <1>2
  <2>. DEFINE l == [file[n] EXCEPT !.eol = TRUE]
  <2>2. file' = [file EXCEPT ![n] = l]
    BY <1>2 DEF Written
  <2>3. l.ok = file[n].ok /\ l.eol
    BY <2>1 DEF Line
  <2>. HIDE DEF l
  <2>4. Len(file') = n /\ file'[n] = l /\ \A i \in 1 .. n : i # n => file'[i] = file[i]
    BY <2>1, <2>2
  <2>5. \A i \in 1 .. n : file[i].ok /\ (i # n => file[i].eol)
    BY <1>0 DEF LoadOK
  <2>. HIDE DEF n
  <2>6. Whole'
    BY <2>1, <2>3, <2>4, <2>5 DEF Whole
  <2>. QED  BY <1>0, <1>1, <2>6
<1>3. CASE ~(file # <<>> /\ ~file[n].eol)
  <2>1. Whole
    <3>. SUFFICES ASSUME NEW i \in 1 .. n PROVE file[i].ok /\ file[i].eol
      BY DEF Whole
    <3>1. file # <<>>
      BY <1>0
    <3>2. i = n \/ i < n
      BY <1>0
    <3>. QED  BY <1>3, <3>1, <3>2 DEF LoadOK
  <2>2. Whole'
    BY <2>1, AppendWhole
  <2>. QED  BY <1>0, <1>1, <2>2
<1>. QED  BY <1>2, <1>3

(* The node's own blocks are blocks.                                        *)
LEMMA NodeBlockType ==
  ASSUME Types, node # <<>>, NEW txns \in {<<>>} \cup {<<t>> : t \in Transfers}
  PROVE  NodeBlock(txns) \in Block
<1> DEFINE tip == node[Len(node)].header
           all == IF D > 0 THEN <<CoinbaseTxn(Miner, Len(node))>> \o txns ELSE txns
           time == IF now > tip.timestamp THEN now ELSE tip.timestamp + 1
           nonce == IF D > 0 THEN "found" ELSE "zero"
<1>1. Len(node) \in 1 .. Len(node) /\ Len(node) \in Nat /\ node[Len(node)] \in Block
  BY DEF Types
<1>2. tip \in BlockHeader
  BY <1>1 DEF Block
<1>3. txns \in Seq(Txn)
  <2>1. CASE txns = <<>>
    BY <2>1
  <2>2. CASE txns \in {<<t>> : t \in Transfers}
    <3>1. PICK t \in Transfers : txns = <<t>>
      BY <2>2
    <3>2. t \in Txn
      BY CliAssumption
    <3> QED
      BY <3>1, <3>2
  <2> QED
    BY <2>1, <2>2
<1>4. CoinbaseTxn(Miner, Len(node)) \in Txn
  BY <1>1, CliAssumption, LedgerAssumption DEF CoinbaseTxn, Txn, Acct, Auth
<1>5. all \in Seq(Txn)
  BY <1>3, <1>4
<1> HIDE DEF tip, all
<1>6. HeaderHash(tip) \in Hash256
  <2>1. [index |-> tip.index, timestamp |-> tip.timestamp,
         txnsHash |-> tip.txnsHash, nonce |-> tip.nonce] \in HeaderCore
    BY <1>2 DEF BlockHeader, HeaderCore
  <2>2. tip.prevHash \in Seq(HeaderCore)
    BY <1>2 DEF BlockHeader, Hash256
  <2> QED
    BY <2>1, <2>2 DEF HeaderHash, Hash256
<1>7. time \in Nat /\ nonce \in PowNonce
  BY <1>2 DEF Types, BlockHeader, PowNonce
<1> HIDE DEF time, nonce
<1>8. [index |-> Len(node), timestamp |-> time, prevHash |-> HeaderHash(tip),
       txnsHash |-> all, nonce |-> nonce] \in BlockHeader
  BY <1>1, <1>5, <1>6, <1>7 DEF BlockHeader
<1>9. NodeBlock(txns) =
        [header |-> [index |-> Len(node), timestamp |-> time, prevHash |-> HeaderHash(tip),
                     txnsHash |-> all, nonce |-> nonce],
         txns |-> all]
  BY DEF NodeBlock, tip, all, time, nonce
<1> QED
  BY <1>5, <1>8, <1>9 DEF Block

LEMMA GenesisIsBlock == GenesisBlock \in Block
<1>1. GenesisBlock.header \in BlockHeader
  BY DEF GenesisBlock, BlockHeader, GENESIS_TIMESTAMP, ZeroHash, Hash256, PowNonce
<1> QED
  BY <1>1 DEF GenesisBlock, Block

-----------------------------------------------------------------------------
(* The steps.                                                               *)

LEMMA StepTypes ==
  ASSUME Types, [Next]_vars
  PROVE  Types' /\ D' = D
<1>1. Loaded \in Seq(Block) /\ Parsed \in Seq(Block)
  BY LoadedType, ParsedType DEF Types
<1>2. CASE ImportLoad
  BY <1>2, CliAssumption DEF ImportLoad, Types, history, promises
<1>3. CASE ImportEvaluate
  <2>1. /\ UNCHANGED <<file, D, now, node, kills, gone, glued>>
        /\ pc' \in {"won", "idle"}
        /\ imported' \in {imported, <<>>}
        /\ offered' \in {offered, offered \cup {imported}}
    BY <1>3 DEF ImportEvaluate
  <2>a. /\ offered \subseteq Seq(Block) /\ imported \in Seq(Block)
        /\ offered \cup {imported} \subseteq Seq(Block)
    BY DEF Types
  <2>2. offered' \subseteq Seq(Block) /\ imported' \in Seq(Block)
    <3>1. offered' \subseteq Seq(Block)
      <4>1. CASE offered' = offered
        BY <2>a, <4>1
      <4>2. CASE offered' = offered \cup {imported}
        BY <2>a, <4>2
      <4> QED
        BY <2>1, <4>1, <4>2
    <3>2. imported' \in Seq(Block)
      <4>1. CASE imported' = imported
        BY <2>a, <4>1
      <4>2. CASE imported' = <<>>
        BY <4>2
      <4> QED
        BY <2>1, <4>1, <4>2
    <3> QED
      BY <3>1, <3>2
  <2>3. pc' \in {"idle", "loaded", "won", "truncated", "sent"}
    BY <2>1
  <2> QED
    BY <2>1, <2>2, <2>3 DEF Types
<1>4. CASE RewriteOpen
  <2>1. glued' \in BOOLEAN
    BY <1>4 DEF RewriteOpen
  <2> QED
    BY <1>1, <1>4, <2>1 DEF RewriteOpen, Types
<1>5. CASE RewriteWrite
  <2>1. file' \in Seq(Line)
    BY <1>5, LinesLoad DEF RewriteWrite, Types
  <2> QED
    BY <1>5, <2>1 DEF RewriteWrite, Types
<1>6. CASE Killed
  <2>1. file' \in Seq(Line)
    <3>1. CASE pc = "truncated"
      <4>1. PICK n \in 0 .. Len(imported) - 1, extent \in Extent :
              file' = CutLines(imported, n, extent)
        BY <1>6, <3>1 DEF Killed
      <4>. QED
        BY <4>1, CutLinesShape DEF Types
    <3>2. CASE pc # "truncated"
      BY <1>6, <3>2 DEF Killed, Types
    <3> QED
      BY <3>1, <3>2
  <2> QED
    BY <1>6, <2>1 DEF Killed, Types, promises
<1>7. CASE SendSign \/ SendDone
  BY <1>7 DEF SendSign, SendDone, Types, history, promises
<1>8. CASE NodeBoot
  <2>1. file' \in Seq(Line) /\ node' \in Seq(Block)
    <3>1. CASE file = <<>> /\ node' = <<GenesisBlock>> /\ file' = Written(GenesisBlock, "all")
      BY <3>1, GenesisIsBlock, AppendGrows DEF Types
    <3>2. CASE node' = Loaded /\ UNCHANGED file
      BY <3>2, <1>1 DEF Types
    <3> QED
      BY <1>8, <3>1, <3>2 DEF NodeBoot
  <2> QED
    BY <1>8, <2>1 DEF NodeBoot, Types, toolVars, history, promises
<1>9. CASE NodeExtend
  <2>1. PICK txns \in {<<>>} \cup {<<t>> : t \in Transfers} :
          node' = Append(node, NodeBlock(txns)) /\ file' = Written(NodeBlock(txns), "all")
    BY <1>9 DEF NodeExtend
  <2>2. NodeBlock(txns) \in Block
    BY <1>9, NodeBlockType DEF NodeExtend
  <2>3. file' \in Seq(Line) /\ node' \in Seq(Block)
    BY <2>1, <2>2, AppendGrows DEF Types
  <2> QED
    BY <1>9, <2>3 DEF NodeExtend, Types, toolVars, history, promises
<1>10. CASE NodeStop
  BY <1>10 DEF NodeStop, Types, toolVars, history, promises
<1>11. CASE Tick
  BY <1>11 DEF Tick, Types, toolVars, history, promises
<1>12. CASE UNCHANGED vars
  BY <1>12 DEF vars, Types, toolVars, history, promises
<1> QED
  BY <1>2, <1>3, <1>4, <1>5, <1>6, <1>7, <1>8, <1>9, <1>10, <1>11, <1>12 DEF Next

LEMMA StepExcluded ==
  ASSUME NodeDown, Types, Excluded, [Next]_vars
  PROVE  Excluded'
  BY DEF NodeDown, Excluded, Types, Next, ImportLoad, ImportEvaluate, RewriteOpen, RewriteWrite,
         Killed, SendSign, SendDone, NodeBoot, NodeExtend, NodeStop, Tick, vars, toolVars

LEMMA StepShape ==
  ASSUME NodeDown, Types, Excluded, Shape, [Next]_vars
  PROVE  Shape'
<1>0. Types'
  BY StepTypes
<1>1. ASSUME UNCHANGED file, kills' >= kills, node' # <<>> => LoadOK
      PROVE  Shape'
  <2>1. kills \in Nat /\ kills' \in Nat
    BY <1>0 DEF Types
  <2>2. LoadOK' = LoadOK
    BY <1>1 DEF LoadOK
  <2>. QED  BY <1>1, <2>1, <2>2 DEF Shape
<1>2. ASSUME Whole'
      PROVE  Shape'
  BY <1>2 DEF Whole, Shape, LoadOK
<1>3. kills \in Nat /\ file \in Seq(Line) /\ imported \in Seq(Block)
  BY DEF Types
<1>4. CASE ImportLoad \/ ImportEvaluate \/ SendSign \/ SendDone
  BY <1>1, <1>3, <1>4 DEF ImportLoad, ImportEvaluate, SendSign, SendDone, Shape
<1>5. CASE RewriteOpen
  <2>1. file' = <<>>
    BY <1>5 DEF RewriteOpen
  <2>2. Whole'
    BY <2>1 DEF Whole
  <2>. QED  BY <1>2, <2>2
<1>6. CASE RewriteWrite
  <2>1. Whole'
    BY <1>3, <1>6, LinesWhole DEF RewriteWrite
  <2>. QED  BY <1>2, <2>1
<1>7. CASE Killed
  <2>1. kills' = kills + 1 /\ node' = node
    BY <1>7 DEF Killed
  <2>2. CASE pc = "truncated"
    <3>1. PICK n \in 0 .. Len(imported) - 1, extent \in Extent :
            file' = CutLines(imported, n, extent)
      BY <1>7, <2>2 DEF Killed
    <3>2. \A i \in 1 .. Len(file') : i < Len(file') => file'[i].ok /\ file'[i].eol
      BY <1>3, <3>1, CutLinesShape
    <3>3. kills' > 0 /\ node' = <<>>
      BY <1>3, <2>1, <2>2 DEF Excluded
    <3>. QED  BY <3>2, <3>3 DEF Shape
  <2>3. CASE pc # "truncated"
    <3>1. UNCHANGED file /\ kills' >= kills
      BY <1>3, <1>7, <2>1, <2>3 DEF Killed
    <3>. QED  BY <1>1, <2>1, <3>1 DEF Shape
  <2>. QED  BY <2>2, <2>3
<1>8. CASE NodeBoot
  <2>1. CASE file = <<>> /\ file' = Written(GenesisBlock, "all")
    <3>1. Whole'
      BY <1>3, <2>1, GenesisIsBlock, AppendWhole
    <3>. QED  BY <1>2, <3>1
  <2>2. CASE LoadOK /\ UNCHANGED file
    BY <1>1, <1>3, <1>8, <2>2 DEF NodeBoot
  <2>. QED  BY <1>8, <2>1, <2>2 DEF NodeBoot, Boots
<1>9. CASE NodeExtend
  <2>1. PICK txns \in {<<>>} \cup {<<t>> : t \in Transfers} : file' = Written(NodeBlock(txns), "all")
    BY <1>9 DEF NodeExtend
  <2>2. NodeBlock(txns) \in Block /\ LoadOK
    BY <1>9, NodeBlockType DEF NodeExtend, Shape
  <2>3. Whole'
    BY <1>3, <2>1, <2>2, AppendLoads DEF Shape
  <2>. QED  BY <1>2, <2>3
<1>10. CASE NodeStop \/ Tick
  BY <1>1, <1>3, <1>10 DEF NodeStop, Tick, Shape
<1>11. CASE UNCHANGED vars
  BY <1>1, <1>3, <1>11 DEF vars, Shape
<1>. QED  BY <1>4, <1>5, <1>6, <1>7, <1>8, <1>9, <1>10, <1>11 DEF Next

LEMMA StepHeavy ==
  ASSUME NodeDown, Types, Excluded, Shape, HeavyInv, [Next]_vars
  PROVE  HeavyInv'
<1>1. Types' /\ D' = D /\ D \in Difficulties
  BY StepTypes DEF Types
<1>2. Parsed \in Seq(Block) /\ Parsed' \in Seq(Block)
  <2>1. file \in Seq(Line) /\ file' \in Seq(Line)
    BY <1>1 DEF Types
  <2>2. Parsed = ParsedOf(file) /\ Parsed' = ParsedOf(file')
    BY DEF Parsed, ParsedOf
  <2> QED
    BY <2>1, <2>2, ParsedOfType
<1>3. \A bs \in Seq(Block) : Weight(bs) \in Nat /\ Weight(bs)' = Weight(bs)
  BY <1>1, LongerIsNoLighter DEF Weight
<1>4. offered \subseteq Seq(Block) /\ gone \subseteq Seq(Block) /\ imported \in Seq(Block)
  BY DEF Types
<1>5. ASSUME UNCHANGED <<file, pc, imported, offered, gone>>
      PROVE  HeavyInv'
  <2>1. Parsed' = Parsed
    BY <1>5 DEF Parsed
  <2> QED
    BY <2>1, <1>1, <1>5 DEF HeavyInv, Tops, Weight
<1>6. ASSUME UNCHANGED <<file, offered, gone>>, pc # "truncated", pc' \notin {"won", "truncated"}
      PROVE  HeavyInv'
  <2>1. Parsed' = Parsed
    BY <1>6 DEF Parsed
  <2> QED
    BY <2>1, <1>1, <1>6 DEF HeavyInv, Tops, Weight
<1>7. ASSUME UNCHANGED <<pc, offered, gone>>, pc \notin {"won", "truncated"},
             Len(Parsed) <= Len(Parsed')
      PROVE  HeavyInv'
  <2>2. Weight(Parsed) <= Weight(Parsed')
    BY <1>1, <1>2, <1>7, LongerIsNoLighter DEF Weight
  <2>3. \A c \in offered : Weight(c) <= Weight(Parsed')
    BY <2>2, <1>2, <1>3, <1>4, <1>7 DEF HeavyInv, Tops
  <2>4. \A c \in gone : Weight(c) < Weight(Parsed')
    BY <2>2, <1>2, <1>3, <1>4, <1>7 DEF HeavyInv, Tops
  <2> QED
    BY <2>3, <2>4, <1>1, <1>7 DEF HeavyInv, Tops, Weight
<1>8. CASE ImportLoad
  BY <1>6, <1>8 DEF ImportLoad, history, promises
<1>9. CASE ImportEvaluate
  <2>1. /\ pc = "loaded" /\ UNCHANGED <<file, gone>> /\ Parsed' = Parsed
        /\ Tops(Parsed)
    BY <1>9 DEF ImportEvaluate, HeavyInv, Parsed
  <2> DEFINE won == Weight(imported) > Weight(Parsed)
             r == EvaluateImport(Parsed, imported)
  <2>2. r.won => r.valid /\ won
    BY DEF EvaluateImport, CandidateWins, Weight
  <2>3. r.valid /\ ~r.won => ~won
    BY DEF EvaluateImport, CandidateWins, Weight
  <2>4. r.valid <=> ReplayReason(imported, now, D, Reward) = "OK"
    BY DEF EvaluateImport
  <2>5. CASE r.won
    <3>1. pc' = "won" /\ imported' = imported /\ offered' = offered
      BY <1>9, <2>5 DEF ImportEvaluate
    <3> QED
      BY <3>1, <2>1, <2>2, <2>5, <1>1 DEF HeavyInv, Tops, Weight
  <2>6. CASE ~r.won
    <3>1. /\ pc' = "idle"
          /\ offered' = offered \/ (r.valid /\ offered' = offered \cup {imported})
      BY <1>9, <2>4, <2>6 DEF ImportEvaluate
    <3>2. r.valid => Weight(imported) <= Weight(Parsed)
      <4>1. Weight(imported) \in Nat /\ Weight(Parsed) \in Nat
        BY <1>2, <1>3, <1>4
      <4> HIDE DEF r
      <4> QED
        BY <4>1, <2>3, <2>6
    <3>3. \A c \in offered' : Weight(c) <= Weight(Parsed)
      BY <3>1, <3>2, <2>1 DEF Tops
    <3> QED
      BY <3>1, <3>3, <2>1, <1>1 DEF HeavyInv, Tops, Weight
  <2> QED
    BY <2>5, <2>6
<1>10. CASE RewriteOpen
  <2>1. /\ pc = "won" /\ pc' = "truncated" /\ imported' = imported
        /\ offered' = offered /\ gone' = gone \cup {Parsed}
        /\ Tops(Parsed) /\ Weight(imported) > Weight(Parsed)
    BY <1>10 DEF RewriteOpen, HeavyInv
  <2>2. \A c \in offered' : Weight(c) <= Weight(imported)
    BY <2>1, <1>2, <1>3, <1>4 DEF Tops
  <2>3. \A c \in gone' : Weight(c) < Weight(imported)
    BY <2>1, <1>2, <1>3, <1>4 DEF Tops
  <2> QED
    BY <2>1, <2>2, <2>3, <1>1 DEF HeavyInv, Tops, Weight
<1>11. CASE RewriteWrite
  <2>1. /\ pc = "truncated" /\ pc' = "idle" /\ file' = Lines(imported)
        /\ offered' = offered \cup {imported} /\ gone' = gone
        /\ Tops(imported)
    BY <1>11 DEF RewriteWrite, HeavyInv
  <2>2. Parsed' = imported
    <3>1. file' \in Seq(Line) /\ Loaded' = imported /\ Whole'
      BY <2>1, <1>4, LinesLoad, LinesWhole
    <3>2. LoadOK'
      BY <3>1 DEF Whole, LoadOK
    <3> QED
      BY <3>1, <3>2, LoadsParsedNext
  <2>3. \A c \in offered' : Weight(c) <= Weight(imported)
    BY <2>1, <1>3, <1>4 DEF Tops
  <2> QED
    BY <2>1, <2>2, <2>3, <1>1 DEF HeavyInv, Tops, Weight
<1>12. CASE Killed
  <2>1. CASE pc = "truncated"
    BY <2>1, <1>12 DEF Killed, HeavyInv, Tops
  <2>2. CASE pc # "truncated"
    BY <2>2, <1>6, <1>12 DEF Killed, promises
  <2> QED
    BY <2>1, <2>2
<1>13. CASE SendSign \/ SendDone
  BY <1>6, <1>13 DEF SendSign, SendDone, history, promises
<1>a. ASSUME LoadOK, \E b \in Block : file' = Written(b, "all")
      PROVE  Len(Parsed) <= Len(Parsed')
  <2>1. PICK b \in Block : file' = Written(b, "all")
    BY <1>a
  <2>2. file \in Seq(Line) /\ \A i \in 1 .. Len(file) : i < Len(file) => file[i].eol
    BY DEF Types, Shape
  <2>3. file' \in Seq(Line) /\ Whole' /\ Len(Loaded) <= Len(Loaded')
    BY <1>a, <2>1, <2>2, AppendLoads
  <2>4. LoadOK'
    BY <2>3 DEF Whole, LoadOK
  <2> QED
    BY <1>a, <2>2, <2>3, <2>4, LoadsParsed, LoadsParsedNext
<1>14. CASE NodeBoot
  <2>1. UNCHANGED <<pc, offered, gone>> /\ pc \notin {"won", "truncated"}
    BY <1>14 DEF NodeBoot, NodeDown, toolVars, history, promises
  <2>2. Len(Parsed) <= Len(Parsed')
    <3>1. CASE file = <<>> /\ file' = Written(GenesisBlock, "all")
      <4>1. LoadOK
        BY <3>1 DEF LoadOK
      <4> QED
        BY <1>a, <3>1, <4>1, GenesisIsBlock
    <3>2. CASE UNCHANGED file
      <4>1. Parsed' = Parsed
        BY <3>2 DEF Parsed
      <4> QED
        BY <1>2, <4>1
    <3> QED
      BY <3>1, <3>2, <1>14 DEF NodeBoot
  <2> QED
    BY <2>1, <2>2, <1>7
<1>15. CASE NodeExtend
  <2>1. UNCHANGED <<pc, offered, gone>> /\ pc \notin {"won", "truncated"} /\ node # <<>>
    BY <1>15 DEF NodeExtend, Excluded, toolVars, promises
  <2>2. PICK txns \in {<<>>} \cup {<<t>> : t \in Transfers} : file' = Written(NodeBlock(txns), "all")
    BY <1>15 DEF NodeExtend
  <2>3. LoadOK /\ NodeBlock(txns) \in Block
    BY <2>1, NodeBlockType DEF Shape
  <2>4. Len(Parsed) <= Len(Parsed')
    BY <1>a, <2>2, <2>3
  <2> QED
    BY <2>1, <2>4, <1>7
<1>16. CASE NodeStop \/ Tick
  BY <1>5, <1>16 DEF NodeStop, Tick, toolVars, history, promises
<1>17. CASE UNCHANGED vars
  BY <1>5, <1>17 DEF vars, toolVars, history, promises
<1> QED
  BY <1>8, <1>9, <1>10, <1>11, <1>12, <1>13, <1>14, <1>15, <1>16, <1>17 DEF Next

LEMMA InitIInv == Init => IInv
<1> SUFFICES ASSUME Init PROVE IInv
  OBVIOUS
<1>1. Types
  <2>1. glued \in BOOLEAN
    BY DEF Init
  <2> QED
    BY <2>1 DEF Init, Types
<1>2. Shape
  BY DEF Init, Shape
<1> QED
  BY <1>1, <1>2 DEF Init, IInv, Excluded, HeavyInv, Tops

LEMMA StepIInv ==
  ASSUME NodeDown, IInv, [Next]_vars
  PROVE  IInv'
  BY StepTypes, StepExcluded, StepShape, StepHeavy DEF IInv

LEMMA Inductive == NodeDown => (Spec => []IInv)
<1> SUFFICES ASSUME NodeDown PROVE Spec => []IInv
  OBVIOUS
<1>1. IInv /\ [Next]_vars => IInv'
  BY StepIInv
<1> QED
  BY <1>1, InitIInv, PTL DEF Spec

-----------------------------------------------------------------------------
(* Between imports the file is as heavy as every valid chain an import      *)
(* ended on (evaluateImport, candidateWins), whatever was killed in         *)
(* between, as long as the node is down while import runs.                  *)
THEOREM HeaviestStays == NodeDown => (Spec => []HeaviestKept)
<1> SUFFICES ASSUME NodeDown PROVE Spec => []HeaviestKept
  OBVIOUS
<1>1. IInv => HeaviestKept
  BY DEF IInv, HeavyInv, Tops, Weight, HeaviestKept
<1> QED
  BY <1>1, Inductive, PTL

(* A chain that import replaced never comes back: its weight is below the   *)
(* file's for good.                                                         *)
THEOREM TipsNeverFlap == NodeDown => (Spec => []NoFlap)
<1> SUFFICES ASSUME NodeDown PROVE Spec => []NoFlap
  OBVIOUS
<1>1. IInv => NoFlap
  <2> SUFFICES ASSUME IInv, pc \in {"idle", "sent"}, Parsed \in gone PROVE FALSE
    BY DEF NoFlap
  <2>1. Weight(Parsed) < Weight(Parsed)
    BY DEF IInv, HeavyInv, Tops
  <2>2. Weight(Parsed) \in Nat
    BY ParsedType, LongerIsNoLighter DEF IInv, Types, Weight
  <2> QED
    BY <2>1, <2>2
<1> QED
  BY <1>1, Inductive, PTL

(* What import truncates is strictly lighter than what it writes in its     *)
(* place (forkchoice.hpp): the weights compared are still those of the two  *)
(* chains when the file is opened.  Beside a running node this fails, as    *)
(* the run of MCCli_race shows.                                             *)
THEOREM ReplacedIsLighter == NodeDown => (Spec => HeavierReplaces)
<1> SUFFICES ASSUME NodeDown PROVE Spec => HeavierReplaces
  OBVIOUS
<1>1. IInv => (pc = "won" => CumulativeWork(imported, D) > CumulativeWork(Parsed, D))
  BY DEF IInv, HeavyInv, Weight
<1>2. IInv /\ [Next]_vars =>
        [pc = "won" /\ pc' = "truncated" =>
           CumulativeWork(imported, D) > CumulativeWork(Parsed, D)]_vars
  BY <1>1
<1> QED
  BY <1>2, Inductive, PTL DEF Spec, HeavierReplaces

-----------------------------------------------------------------------------
(* What the file holds replays.                                             *)

(* What the file parses to replays, what import is about to put there does, *)
(* and a running node has the file's chain in memory.                       *)
FileInv ==
  /\ ~glued /\ Parsed # <<>> => ReplayReason(Parsed, now, D, Reward) = "OK"
  /\ pc \in {"won", "truncated"} => ReplayReason(imported, now, D, Reward) = "OK"
  /\ node # <<>> /\ ~glued => Parsed = node

(* The reward is that of the coinbase, or none.                             *)
LEMMA RewardType ==
  ASSUME Types
  PROVE  Reward \in {0, COINBASE_REWARD} /\ Reward \in Nat
<1>1. D \in Nat
  BY CliAssumption DEF Types
<1>. QED  BY <1>1, LedgerAssumption DEF Reward

(* Every step keeps the file replayable.                                    *)
LEMMA StepFile ==
  ASSUME NodeDown, Types, Excluded, Shape, FileInv, [Next]_vars
  PROVE  FileInv'
<1>0. Types' /\ D' = D
  BY StepTypes
<1>1. Reward' = Reward
  BY <1>0 DEF Reward
<1>2. now \in Nat /\ now' \in Nat /\ file \in Seq(Line) /\ imported \in Seq(Block) /\ node \in Seq(Block)
  BY <1>0 DEF Types
<1>3. Parsed \in Seq(Block)
  BY <1>2, ParsedType
<1>4. Reward \in {0, COINBASE_REWARD} /\ Reward \in Nat
  BY RewardType
<1>5. ASSUME UNCHANGED <<file, now, node, glued>>,
             pc' \in {"won", "truncated"} => /\ imported' = imported
                                             /\ ReplayReason(imported, now, D, Reward) = "OK"
      PROVE  FileInv'
  <2>1. Parsed' = Parsed
    BY <1>5 DEF Parsed
  <2>. QED  BY <1>0, <1>1, <1>5, <2>1 DEF FileInv
<1>6. CASE ImportLoad
  BY <1>5, <1>6 DEF ImportLoad, history
<1>7. CASE ImportEvaluate
  <2>. DEFINE r == EvaluateImport(Parsed, imported)
  <2>1. r.won => ReplayReason(imported, now, D, Reward) = "OK"
    BY DEF EvaluateImport
  <2>2. /\ UNCHANGED <<file, now, node, glued>>
        /\ pc' = IF r.won THEN "won" ELSE "idle"
        /\ imported' = IF r.won THEN imported ELSE <<>>
    BY <1>7 DEF ImportEvaluate
  <2>. HIDE DEF r
  <2>3. pc' \in {"won", "truncated"} => /\ imported' = imported
                                        /\ ReplayReason(imported, now, D, Reward) = "OK"
    BY <2>1, <2>2
  <2>. QED  BY <1>5, <2>2, <2>3
<1>8. CASE RewriteOpen
  <2>1. /\ pc = "won" /\ file' = <<>> /\ node' = node /\ now' = now /\ imported' = imported
    BY <1>8 DEF RewriteOpen
  <2>2. node = <<>>
    BY <2>1 DEF Excluded
  <2>3. Parsed' = <<>>
    <3>1. LoadOK' /\ Loaded' = <<>> /\ file' \in Seq(Line)
      BY <2>1 DEF LoadOK, Loaded
    <3>. QED  BY <3>1, LoadsParsedNext
  <2>. QED  BY <1>0, <1>1, <2>1, <2>2, <2>3 DEF FileInv
<1>9. CASE RewriteWrite
  <2>1. /\ pc = "truncated" /\ pc' = "idle" /\ file' = Lines(imported)
        /\ node' = node /\ now' = now
    BY <1>9 DEF RewriteWrite
  <2>2. node = <<>>
    BY <2>1 DEF Excluded
  <2>3. Parsed' = imported
    <3>1. file' \in Seq(Line) /\ Loaded' = imported /\ Whole'
      BY <1>2, <2>1, LinesLoad, LinesWhole
    <3>2. LoadOK'
      BY <3>1 DEF Whole, LoadOK
    <3>. QED  BY <3>1, <3>2, LoadsParsedNext
  <2>4. ReplayReason(imported, now, D, Reward) = "OK"
    BY <2>1 DEF FileInv
  <2>5. ReplayReason(Parsed', now', D', Reward') = "OK"
    BY <1>0, <1>1, <2>1, <2>3, <2>4
  <2>. QED  BY <2>1, <2>2, <2>3, <2>5 DEF FileInv
<1>10. CASE Killed
  <2>1. CASE pc # "truncated"
    BY <1>5, <1>10, <2>1 DEF Killed
  <2>2. CASE pc = "truncated"
    <3>1. pc' = "idle" /\ node' = node /\ now' = now
      BY <1>10 DEF Killed
    <3>2. node = <<>>
      BY <2>2 DEF Excluded
    <3>3. PICK k \in 0 .. Len(imported) - 1, extent \in Extent :
            file' = CutLines(imported, k, extent)
      BY <1>10, <2>2 DEF Killed
    <3>4. PICK n \in 0 .. Len(imported) : ParsedOf(file') = SubSeq(imported, 1, n)
      BY <1>2, <3>3, CutLinesShape
    <3>. DEFINE cs == SubSeq(imported, 1, n)
    <3>5. ReplayReason(imported, now, D, Reward) = "OK"
      BY <2>2 DEF FileInv
    <3>6. Parsed' = cs
      BY <3>4 DEF Parsed, ParsedOf
    <3>7. CASE n = 0
      <4>1. cs = <<>>
        BY <3>7, SubSeqProperties
      <4>. QED  BY <3>1, <3>2, <3>6, <4>1 DEF FileInv
    <3>8. CASE n # 0
      <4>1. n \in 1 .. Len(imported)
        BY <1>2, <3>8
      <4>. DEFINE bs == imported
                  r == Reward
                  d == D
                  time == now
      <4>2. bs \in Seq(Block) /\ r \in {0, COINBASE_REWARD} /\ n \in 1 .. Len(bs)
            /\ ReplayReason(bs, time, d, r) = "OK"
        BY <1>2, <1>4, <3>5, <4>1
      <4>. HIDE DEF bs, r, d, time
      <4>3. ReplayReason(SubSeq(bs, 1, n), time, d, r) = "OK"
        BY <4>2, PrefixReplays
      <4>4. ReplayReason(cs, now, D, Reward) = "OK"
        BY <4>3 DEF bs, r, d, time
      <4>. HIDE DEF cs
      <4>5. ReplayReason(Parsed', now', D', Reward') = "OK"
        BY <1>0, <1>1, <3>1, <3>6, <4>4
      <4>. QED  BY <3>1, <3>2, <3>6, <4>5 DEF FileInv
    <3>. QED  BY <3>7, <3>8
  <2>. QED  BY <2>1, <2>2
<1>11. CASE SendSign \/ SendDone
  BY <1>5, <1>11 DEF SendSign, SendDone, history
<1>a. ASSUME Whole', file' \in Seq(Line), now' = now, node' # <<>>,
             pc' \notin {"won", "truncated"},
             Loaded' = node' /\ ReplayReason(Loaded', now, D, Reward) = "OK"
      PROVE  FileInv'
  <2>1. LoadOK'
    BY <1>a DEF Whole, LoadOK
  <2>2. Parsed' = Loaded'
    BY <1>a, <2>1, LoadsParsedNext
  <2>. QED  BY <1>0, <1>1, <1>a, <2>2 DEF FileInv
<1>12. CASE NodeBoot
  <2>0. UNCHANGED <<now, pc, imported, glued>> /\ pc \notin {"won", "truncated"}
    BY <1>12 DEF NodeBoot, NodeDown, toolVars, history
  <2>1. CASE file = <<>> /\ node' = <<GenesisBlock>> /\ file' = Written(GenesisBlock, "all")
    <3>1. Whole' /\ Loaded' = Append(Loaded, GenesisBlock) /\ file' \in Seq(Line)
      BY <1>0, <1>2, <2>1, GenesisType, AppendWhole DEF Types
    <3>2. Loaded = <<>>
      BY <2>1 DEF Loaded
    <3>3. Loaded' = <<GenesisBlock>>
      BY <3>1, <3>2
    <3>. DEFINE r == Reward
                d == D
                time == now
    <3>4. r \in Nat
      BY <1>4
    <3>. HIDE DEF r, d, time
    <3>5. ReplayReason(<<GenesisBlock>>, time, d, r) = "OK"
      BY <3>4, GenesisReplays
    <3>6. ReplayReason(Loaded', now, D, Reward) = "OK"
      BY <3>3, <3>5 DEF r, d, time
    <3>7. node' # <<>>
      BY <2>1
    <3>. QED  BY <1>a, <2>0, <2>1, <3>1, <3>3, <3>6, <3>7
  <2>2. CASE LoadOK /\ node' = Loaded /\ UNCHANGED file
    <3>1. Parsed' = Parsed /\ Parsed = Loaded
      BY <1>2, <2>2, LoadsParsed DEF Parsed
    <3>. QED  BY <1>0, <1>1, <2>0, <2>2, <3>1 DEF FileInv
  <2>. QED  BY <1>12, <2>1, <2>2 DEF NodeBoot, Boots
<1>13. CASE NodeExtend
  <2>0. /\ UNCHANGED <<now, pc, imported>> /\ node # <<>> /\ pc \notin {"won", "truncated"}
        /\ glued' = (glued \/ (file # <<>> /\ ~file[Len(file)].eol))
    BY <1>13 DEF NodeExtend, toolVars, Excluded
  <2>1. PICK txns \in {<<>>} \cup {<<t>> : t \in Transfers} :
          /\ ReplayReason(Append(node, NodeBlock(txns)), now, D, Reward) = "OK"
          /\ node' = Append(node, NodeBlock(txns))
          /\ file' = Written(NodeBlock(txns), "all")
    BY <1>13 DEF NodeExtend
  <2>. DEFINE b == NodeBlock(txns)
  <2>2. b \in Block
    BY <2>0, NodeBlockType
  <2>. HIDE DEF b
  <2>3. CASE glued'
    BY <2>0, <2>3 DEF FileInv
  <2>4. CASE ~glued'
    <3>1. ~glued /\ (file # <<>> => file[Len(file)].eol)
      BY <2>0, <2>4
    <3>2. LoadOK /\ Loaded = node
      BY <1>2, <2>0, <3>1, LoadsParsed DEF Shape, FileInv
    <3>3. Whole
      <4>. SUFFICES ASSUME NEW i \in 1 .. Len(file) PROVE file[i].ok /\ file[i].eol
        BY DEF Whole
      <4>1. file # <<>>
        BY <1>2
      <4>2. i = Len(file) \/ i < Len(file)
        BY <1>2
      <4>. QED  BY <3>1, <3>2, <4>1, <4>2 DEF LoadOK, Shape
    <3>4. Whole' /\ Loaded' = Append(Loaded, b) /\ file' \in Seq(Line)
      <4>1. file' = Written(b, "all")
        BY <2>1 DEF b
      <4>. QED  BY <1>0, <1>2, <2>2, <3>3, <4>1, AppendWhole DEF Types
    <3>5. Loaded' = node' /\ ReplayReason(Loaded', now, D, Reward) = "OK"
      BY <2>1, <3>2, <3>4 DEF b
    <3>6. node' # <<>>
      <4>1. node' = Append(node, b)
        BY <2>1 DEF b
      <4>. QED  BY <1>2, <2>2, <4>1
    <3>. QED  BY <1>a, <2>0, <3>4, <3>5, <3>6
  <2>. QED  BY <2>3, <2>4
<1>14. CASE NodeStop
  <2>1. Parsed' = Parsed
    BY <1>14 DEF NodeStop, Parsed
  <2>. QED  BY <1>0, <1>1, <1>14, <2>1 DEF NodeStop, FileInv, toolVars, history
<1>15. CASE Tick
  <2>1. now' = now + 1 /\ UNCHANGED <<file, pc, imported, node, glued>>
    BY <1>15 DEF Tick, toolVars, history
  <2>2. Parsed' = Parsed
    BY <2>1 DEF Parsed
  <2>3. ASSUME NEW bs \in Seq(Block), ReplayReason(bs, now, D, Reward) = "OK"
        PROVE  ReplayReason(bs, now', D', Reward') = "OK"
    <3>. DEFINE r == Reward
                d == D
                time == now
                later == now'
    <3>1. time \in Nat /\ later \in Nat /\ time <= later /\ ReplayReason(bs, time, d, r) = "OK"
      BY <1>2, <2>1, <2>3
    <3>. HIDE DEF r, d, time, later
    <3>2. ReplayReason(bs, later, d, r) = "OK"
      BY <3>1, ReplaysLater
    <3>. QED  BY <1>0, <1>1, <3>2 DEF r, d, later
  <2>. QED  BY <1>2, <1>3, <2>1, <2>2, <2>3 DEF FileInv
<1>16. CASE UNCHANGED vars
  BY <1>5, <1>16 DEF vars, toolVars, history, FileInv
<1>. QED
  BY <1>6, <1>7, <1>8, <1>9, <1>10, <1>11, <1>12, <1>13, <1>14, <1>15, <1>16 DEF Next

(* Nothing is glued at the start, and an empty file parses to nothing.      *)
LEMMA InitFile == Init => FileInv
<1>. SUFFICES ASSUME Init PROVE FileInv
  OBVIOUS
<1>1. file = <<>> /\ file \in Seq(Line)
  BY DEF Init
<1>2. LoadOK /\ Loaded = <<>>
  BY <1>1 DEF LoadOK, Loaded
<1>3. Parsed = <<>>
  BY <1>1, <1>2, LoadsParsed
<1>. QED  BY <1>3 DEF Init, FileInv

(* Whatever was imported, wherever import was killed and its write cut,     *)
(* inside a line too: between imports what load gives of the file is empty  *)
(* or a chain that replays (forkchoice.hpp, "Work never buys validity"),    *)
(* and only a last line cut by a kill does not parse.  Two things are       *)
(* excepted: import beside the node (NodeDown), and, in the property, a     *)
(* node that appended to a line cut exactly before its newline (glued).  A  *)
(* prefix of a valid chain is a valid chain.                                *)
THEOREM FileAlwaysReplays == NodeDown => (Spec => []FileReplays)
<1>. SUFFICES ASSUME NodeDown PROVE Spec => []FileReplays
  OBVIOUS
<1>2. IInv /\ FileInv /\ [Next]_vars => FileInv'
  BY StepFile DEF IInv
<1>3. IInv /\ FileInv => FileReplays
  <2>. SUFFICES ASSUME IInv, FileInv, ~glued
                PROVE  /\ Parsed # <<>> => ReplayReason(Parsed, now, D, Reward) = "OK"
                       /\ \A i \in 1 .. Len(file) : ~file[i].ok => i = Len(file) /\ kills > 0
    BY DEF FileReplays
  <2>1. Parsed # <<>> => ReplayReason(Parsed, now, D, Reward) = "OK"
    BY DEF FileInv
  <2>2. Len(file) \in Nat /\ \A i \in 1 .. Len(file) : i = Len(file) \/ i < Len(file)
    BY DEF IInv, Types
  <2>3. \A i \in 1 .. Len(file) : ~file[i].ok => i = Len(file) /\ kills > 0
    BY <2>2 DEF IInv, Shape
  <2>. QED  BY <2>1, <2>3
<1>. QED  BY <1>2, <1>3, InitFile, Inductive, PTL DEF Spec

-----------------------------------------------------------------------------
(* Folds.  FoldLeft goes through the sets of indices of a sequence.         *)

(* g folds S with the step O, a function, taking c[s] out of a set s.       *)
IsFold(g, O, base, c, S) ==
  g = [s \in SUBSET S |-> IF s = {} THEN base ELSE O[<<g[s \ {c[s]}], c[s]>>]]

(* There is such a fold of a finite set.                                    *)
LEMMA FoldExists ==
  ASSUME NEW S, IsFiniteSet(S), NEW c, \A s \in SUBSET S : s # {} => c[s] \in s,
         NEW A, NEW base \in A, NEW O, \A y \in A : \A x \in S : O[<<y, x>>] \in A
  PROVE  \E g : /\ IsFold(g, O, base, c, S)
                /\ \A s \in SUBSET S : g[s] \in A
<1>. DEFINE Up(n) == {s \in SUBSET S : Cardinality(s) <= n}
            Body(g, s) == IF s = {} THEN base ELSE O[<<g[s \ {c[s]}], c[s]>>]
            Good(g, n) == g = [s \in Up(n) |-> Body(g, s)] /\ \A s \in Up(n) : g[s] \in A
            T == {n \in Nat : \E g : Good(g, n)}
<1>0. ASSUME NEW s \in SUBSET S
      PROVE  /\ Cardinality(s) \in Nat /\ Cardinality(s) <= Cardinality(S)
             /\ Cardinality(s) = 0 => s = {}
             /\ s # {} => /\ Cardinality(s \ {c[s]}) \in Nat
                          /\ Cardinality(s \ {c[s]}) = Cardinality(s) - 1
  <2>1. IsFiniteSet(s) /\ Cardinality(s) <= Cardinality(S)
    BY FS_Subset
  <2>2. Cardinality(s) \in Nat /\ (Cardinality(s) = 0 => s = {})
    BY <2>1, FS_CardinalityType, FS_EmptySet
  <2>3. ASSUME s # {} PROVE /\ Cardinality(s \ {c[s]}) \in Nat
                            /\ Cardinality(s \ {c[s]}) = Cardinality(s) - 1
    <3>1. c[s] \in s
      BY <2>3
    <3>2. IsFiniteSet(s \ {c[s]}) /\ Cardinality(s \ {c[s]}) = Cardinality(s) - 1
      BY <2>1, <3>1, FS_RemoveElement
    <3>. QED  BY <3>2, FS_CardinalityType
  <2>. QED  BY <2>1, <2>2, <2>3
<1>1. 0 \in T
  <2>. DEFINE g == [s \in Up(0) |-> base]
  <2>1. ASSUME NEW s \in Up(0) PROVE s = {}
    <3>1. s \in SUBSET S /\ Cardinality(s) <= 0
      OBVIOUS
    <3>2. Cardinality(s) \in Nat /\ (Cardinality(s) = 0 => s = {})
      BY <1>0, <3>1
    <3>. QED  BY <3>1, <3>2
  <2>2. Good(g, 0)
    BY <2>1
  <2>. QED  BY <2>2
<1>2. ASSUME NEW n \in Nat, n \in T PROVE n + 1 \in T
  <2>1. PICK g : Good(g, n)
    BY <1>2
  <2>. DEFINE h == [s \in Up(n + 1) |-> Body(g, s)]
  <2>2. ASSUME NEW s \in Up(n + 1) PROVE Body(g, s) = Body(h, s) /\ Body(g, s) \in A
    <3>1. CASE s = {}
      BY <3>1
    <3>2. CASE s # {}
      <4>. DEFINE x == c[s]
                  r == s \ {x}
      <4>1. x \in s /\ x \in S /\ Cardinality(s) \in Nat /\ Cardinality(s) <= n + 1
            /\ Cardinality(r) \in Nat /\ Cardinality(r) = Cardinality(s) - 1
        BY <1>0, <3>2
      <4>2. r \in SUBSET S
        OBVIOUS
      <4>3. Body(g, s) = O[<<g[r], x>>] /\ Body(h, s) = O[<<h[r], x>>]
        BY <3>2
      <4>. HIDE DEF x, r
      <4>4. r \in Up(n) /\ r \in Up(n + 1)
        BY <4>1, <4>2
      <4>5. g[r] = Body(g, r) /\ g[r] \in A
        BY <2>1, <4>4
      <4>6. h[r] = Body(g, r)
        BY <4>4
      <4>. HIDE DEF h, Body
      <4>. QED  BY <4>1, <4>3, <4>5, <4>6
    <3>. QED  BY <3>1, <3>2
  <2>3. Good(h, n + 1)
    <3>1. h = [s \in Up(n + 1) |-> Body(g, s)]
      OBVIOUS
    <3>. HIDE DEF h, Up, Body
    <3>. QED  BY <2>2, <3>1
  <2>. HIDE DEF h, Good
  <2>. QED  BY <2>3
<1>3. Nat \subseteq T
  <2>. HIDE DEF T
  <2>. QED  BY <1>1, <1>2, SetInduction
<1>4. Cardinality(S) \in Nat /\ Up(Cardinality(S)) = SUBSET S
  BY <1>0
<1>5. PICK g : Good(g, Cardinality(S))
  <2>. HIDE DEF Good
  <2>. QED  BY <1>3, <1>4
<1>6. Up(Cardinality(S)) = SUBSET S
  BY <1>4
<1>. HIDE DEF Up
<1>7. g = [s \in SUBSET S |-> Body(g, s)] /\ \A s \in SUBSET S : g[s] \in A
  BY <1>5, <1>6
<1>8. IsFold(g, O, base, c, S)
  BY <1>7 DEF IsFold
<1>. QED  BY <1>7, <1>8

(* FoldLeft goes through the initial segments of a sequence: their largest  *)
(* index.                                                                   *)
LEMMA MaxSegment ==
  /\ \A n \in Nat : 1 .. n + 1 # {} /\ Max(1 .. n + 1) = n + 1 /\ (1 .. n + 1) \ {n + 1} = 1 .. n
  /\ 1 .. 0 = {}
<1>1. ASSUME NEW n \in Nat PROVE Max(1 .. n + 1) = n + 1
  <2>. DEFINE m == Max(1 .. n + 1)
  <2>1. n + 1 \in 1 .. n + 1 /\ \A y \in 1 .. n + 1 : n + 1 >= y
    OBVIOUS
  <2>2. m \in 1 .. n + 1 /\ \A y \in 1 .. n + 1 : m >= y
    BY <2>1 DEF Max
  <2>. HIDE DEF m
  <2>3. m = n + 1
    BY <2>1, <2>2
  <2>. QED  BY <2>3 DEF m
<1>2. ASSUME NEW n \in Nat PROVE 1 .. n + 1 # {} /\ (1 .. n + 1) \ {n + 1} = 1 .. n
  OBVIOUS
<1>3. 1 .. 0 = {}
  OBVIOUS
<1>. QED  BY <1>1, <1>2, <1>3

(* ... and the largest of any set of indices is one of them.                *)
LEMMA MaxOfIndices ==
  ASSUME NEW m \in Nat, NEW s \in SUBSET (1 .. m), s # {}
  PROVE  Max(s) \in s
<1>. DEFINE T == {n \in Nat : \A r \in SUBSET (1 .. n) :
                                r # {} => \E x \in r : \A y \in r : x >= y}
<1>1. 0 \in T
  <2>1. 1 .. 0 = {}
    OBVIOUS
  <2>. QED  BY <2>1
<1>2. ASSUME NEW n \in Nat, n \in T PROVE n + 1 \in T
  <2>. SUFFICES ASSUME NEW r \in SUBSET (1 .. n + 1), r # {}
                PROVE  \E x \in r : \A y \in r : x >= y
    OBVIOUS
  <2>1. CASE n + 1 \in r
    <3>1. \A y \in r : n + 1 >= y
      OBVIOUS
    <3>. QED  BY <2>1, <3>1
  <2>2. CASE n + 1 \notin r
    <3>1. r \in SUBSET (1 .. n)
      BY <2>2
    <3>. QED  BY <1>2, <3>1
  <2>. QED  BY <2>1, <2>2
<1>3. Nat \subseteq T
  <2>. HIDE DEF T
  <2>. QED  BY <1>1, <1>2, SetInduction
<1>4. \E x \in s : \A y \in s : x >= y
  BY <1>3
<1>. QED  BY <1>4 DEF Max

(* So a fold through the indices of a sequence has a solution.              *)
IsSegmentFold(g, O, base, m) ==
  g = [s \in SUBSET (1 .. m) |-> IF s = {} THEN base ELSE O[<<g[s \ {Max(s)}], Max(s)>>]]

LEMMA SegmentFold ==
  ASSUME NEW m \in Nat, NEW A, NEW base \in A,
         NEW O, \A y \in A : \A i \in 1 .. m : O[<<y, i>>] \in A
  PROVE  \E g : /\ IsSegmentFold(g, O, base, m)
                /\ \A s \in SUBSET (1 .. m) : g[s] \in A
<1>. DEFINE S == 1 .. m
            c == [s \in SUBSET S |-> Max(s)]
<1>1. IsFiniteSet(S)
  BY FS_Interval
<1>2. \A s \in SUBSET S : c[s] = Max(s)
  OBVIOUS
<1>3. \A s \in SUBSET S : s # {} => c[s] \in s
  BY <1>2, MaxOfIndices
<1>4. \A y \in A : \A i \in S : O[<<y, i>>] \in A
  OBVIOUS
<1>. HIDE DEF S, c
<1>5. PICK g : IsFold(g, O, base, c, S) /\ \A s \in SUBSET S : g[s] \in A
  BY <1>1, <1>3, <1>4, FoldExists
<1>6. g = [s \in SUBSET S |-> IF s = {} THEN base ELSE O[<<g[s \ {Max(s)}], Max(s)>>]]
  BY <1>2, <1>5 DEF IsFold
<1>7. IsSegmentFold(g, O, base, m)
  BY <1>6 DEF IsSegmentFold, S
<1>8. \A s \in SUBSET (1 .. m) : g[s] \in A
  BY <1>5 DEF S
<1>. QED  BY <1>7, <1>8

-----------------------------------------------------------------------------
(* What send reads: replayState.                                            *)

(* A transaction with its place.                                            *)
Entry == [t : Txn, index : Nat, ti : Nat]

EntriesOf(b) == [i \in 1 .. Len(b.txns) |->
                   [t |-> b.txns[i], index |-> b.header.index, ti |-> i - 1]]

(* The gate, a refusal ignored.                                             *)
GateStep(st, e) ==
  IF ApplyTxnReason(st, e.t, e.index, e.ti) = "OK" THEN ApplyTxn(st, e.t) ELSE st

(* The two loops of replayState: f collects the transactions of the blocks  *)
(* cs, g takes the transactions es through the gate.                        *)
Collects(f, cs) ==
  /\ f[0] = <<>>
  /\ \A n \in 0 .. Len(cs) : f[n] \in Seq(Entry)
  /\ \A n \in 1 .. Len(cs) : f[n] = f[n - 1] \o EntriesOf(cs[n])

Gates(g, es) ==
  /\ g[0] = ApplyGenesis
  /\ \A n \in 0 .. Len(es) : g[n] \in Accounts
  /\ \A n \in 1 .. Len(es) : g[n] = GateStep(g[n - 1], es[n])

LEMMA EntriesType ==
  ASSUME NEW b \in Block
  PROVE  EntriesOf(b) \in Seq(Entry) /\ Len(EntriesOf(b)) = Len(b.txns)
<1>1. b.header.index \in Nat /\ b.txns \in Seq(Txn)
  BY DEF Block, BlockHeader
<1>2. ASSUME NEW i \in 1 .. Len(b.txns)
      PROVE  [t |-> b.txns[i], index |-> b.header.index, ti |-> i - 1] \in Entry
  BY <1>1 DEF Entry
<1>. QED  BY <1>1, <1>2 DEF EntriesOf

LEMMA GateStepType ==
  ASSUME NEW st \in Accounts, NEW e \in Entry
  PROVE  GateStep(st, e) \in Accounts
<1>1. ApplyTxnReason(st, e.t, e.index, e.ti) = "OK" =>
        BlockTxnReason(st, e.t, e.index, e.ti, 0) = "OK"
  BY DEF ApplyTxnReason, BlockTxnReason
<1>2. e.t \in Txn
  BY DEF Entry
<1>. QED  BY <1>1, <1>2, ApplyTxnType DEF GateStep

(* The first loop.                                                          *)
LEMMA Collecting ==
  ASSUME NEW cs \in Seq(Block)
  PROVE  \E f : /\ Collects(f, cs)
                /\ FoldLeft(LAMBDA acc, b : acc \o EntriesOf(b), <<>>, cs) = f[Len(cs)]
<1>. DEFINE m == Len(cs)
            A == Seq(Entry)
            O == [p \in A \X (1 .. m) |-> p[1] \o EntriesOf(cs[p[2]])]
            P(g) == g = [s \in SUBSET (1 .. m) |-> IF s = {} THEN <<>>
                           ELSE g[s \ {Max(s)}] \o EntriesOf(cs[Max(s)])]
            k == CHOOSE g : P(g)
<1>0. m \in Nat /\ DOMAIN cs = 1 .. m /\ \A i \in 1 .. m : cs[i] \in Block
  OBVIOUS
<1>1. FoldLeft(LAMBDA acc, b : acc \o EntriesOf(b), <<>>, cs) = k[1 .. m]
  BY <1>0 DEF FoldLeft, MapThenFoldSet
<1>. HIDE DEF m
<1>2. ASSUME NEW y \in A, NEW i \in 1 .. m
      PROVE  O[<<y, i>>] = y \o EntriesOf(cs[i]) /\ y \o EntriesOf(cs[i]) \in A
  <2>1. EntriesOf(cs[i]) \in A
    BY <1>0, EntriesType
  <2>2. O[<<y, i>>] = y \o EntriesOf(cs[i])
    OBVIOUS
  <2>. HIDE DEF O
  <2>. QED  BY <2>1, <2>2
<1>3. <<>> \in A
  OBVIOUS
<1>. HIDE DEF O, A
<1>4. PICK h : /\ IsSegmentFold(h, O, <<>>, m)
               /\ \A s \in SUBSET (1 .. m) : h[s] \in A
  <2>1. \A y \in A : \A i \in 1 .. m : O[<<y, i>>] \in A
    BY <1>2
  <2>. QED  BY <1>0, <1>3, <2>1, SegmentFold
<1>5. P(h)
  <2>1. ASSUME NEW s \in SUBSET (1 .. m), s # {}
        PROVE  O[<<h[s \ {Max(s)}], Max(s)>>] = h[s \ {Max(s)}] \o EntriesOf(cs[Max(s)])
    <3>1. Max(s) \in 1 .. m
      BY <1>0, <2>1, MaxOfIndices
    <3>2. h[s \ {Max(s)}] \in A
      BY <1>4
    <3>. QED  BY <1>2, <3>1, <3>2
  <2>. QED  BY <1>4, <2>1 DEF IsSegmentFold
<1>6. P(k)
  BY <1>5
<1>. HIDE DEF k
<1>. DEFINE f == [n \in 0 .. m |-> k[1 .. n]]
<1>7. f[0] = <<>>
  <2>1. f[0] = k[1 .. 0] /\ 1 .. 0 = {} /\ {} \in SUBSET (1 .. m)
    BY <1>0, MaxSegment
  <2>2. k[{}] = <<>>
    BY <1>6, <2>1
  <2>. QED  BY <2>1, <2>2
<1>8. ASSUME NEW n \in 1 .. m PROVE f[n] = f[n - 1] \o EntriesOf(cs[n])
  <2>1. n - 1 \in Nat /\ (n - 1) + 1 = n /\ n \in 0 .. m /\ n - 1 \in 0 .. m
    BY <1>0
  <2>2. 1 .. n # {} /\ Max(1 .. n) = n /\ (1 .. n) \ {n} = 1 .. n - 1
    BY <2>1, MaxSegment
  <2>3. 1 .. n \in SUBSET (1 .. m)
    BY <1>0
  <2>4. k[1 .. n] = k[(1 .. n) \ {Max(1 .. n)}] \o EntriesOf(cs[Max(1 .. n)])
    BY <1>6, <2>2, <2>3
  <2>. QED  BY <2>1, <2>2, <2>4
<1>9. f[m] = k[1 .. m]
  BY <1>0
<1>. HIDE DEF f
<1>10. \A n \in 0 .. m : f[n] \in A
  <2>. DEFINE T == {n \in Nat : n <= m => f[n] \in A}
  <2>1. 0 \in T
    BY <1>3, <1>7
  <2>2. ASSUME NEW n \in Nat, n \in T PROVE n + 1 \in T
    <3>. SUFFICES ASSUME n + 1 <= m PROVE f[n + 1] \in A
      OBVIOUS
    <3>1. f[n] \in A /\ n + 1 \in 1 .. m /\ (n + 1) - 1 = n
      BY <1>0, <2>2
    <3>2. f[n + 1] = f[n] \o EntriesOf(cs[n + 1])
      BY <1>8, <3>1
    <3>. QED  BY <1>2, <3>1, <3>2
  <2>3. Nat \subseteq T
    <3>. HIDE DEF T
    <3>. QED  BY <2>1, <2>2, SetInduction
  <2>. QED  BY <1>0, <2>3
<1>. QED  BY <1>1, <1>7, <1>8, <1>9, <1>10 DEF Collects, m, A

(* The second.                                                              *)
LEMMA Gating ==
  ASSUME NEW es \in Seq(Entry)
  PROVE  \E g : /\ Gates(g, es)
                /\ FoldLeft(GateStep, ApplyGenesis, es) = g[Len(es)]
<1>. DEFINE m == Len(es)
            A == Accounts
            O == [p \in A \X (1 .. m) |-> GateStep(p[1], es[p[2]])]
            P(g) == g = [s \in SUBSET (1 .. m) |-> IF s = {} THEN ApplyGenesis
                           ELSE GateStep(g[s \ {Max(s)}], es[Max(s)])]
            k == CHOOSE g : P(g)
<1>0. m \in Nat /\ DOMAIN es = 1 .. m /\ \A i \in 1 .. m : es[i] \in Entry
  OBVIOUS
<1>1. FoldLeft(GateStep, ApplyGenesis, es) = k[1 .. m]
  BY <1>0 DEF FoldLeft, MapThenFoldSet
<1>. HIDE DEF m
<1>2. ASSUME NEW y \in A, NEW i \in 1 .. m
      PROVE  O[<<y, i>>] = GateStep(y, es[i]) /\ GateStep(y, es[i]) \in A
  <2>1. GateStep(y, es[i]) \in A
    BY <1>0, GateStepType
  <2>2. O[<<y, i>>] = GateStep(y, es[i])
    OBVIOUS
  <2>. QED  BY <2>1, <2>2
<1>3. ApplyGenesis \in A
  BY GenesisType
<1>. HIDE DEF O, A
<1>4. PICK h : /\ IsSegmentFold(h, O, ApplyGenesis, m)
               /\ \A s \in SUBSET (1 .. m) : h[s] \in A
  <2>1. \A y \in A : \A i \in 1 .. m : O[<<y, i>>] \in A
    BY <1>2
  <2>. QED  BY <1>0, <1>3, <2>1, SegmentFold
<1>5. P(h)
  <2>1. ASSUME NEW s \in SUBSET (1 .. m), s # {}
        PROVE  O[<<h[s \ {Max(s)}], Max(s)>>] = GateStep(h[s \ {Max(s)}], es[Max(s)])
    <3>1. Max(s) \in 1 .. m
      BY <1>0, <2>1, MaxOfIndices
    <3>2. h[s \ {Max(s)}] \in A
      BY <1>4
    <3>. QED  BY <1>2, <3>1, <3>2
  <2>. QED  BY <1>4, <2>1 DEF IsSegmentFold
<1>6. P(k)
  BY <1>5
<1>. HIDE DEF k
<1>. DEFINE f == [n \in 0 .. m |-> k[1 .. n]]
<1>7. f[0] = ApplyGenesis
  <2>1. f[0] = k[1 .. 0] /\ 1 .. 0 = {} /\ {} \in SUBSET (1 .. m)
    BY <1>0, MaxSegment
  <2>2. k[{}] = ApplyGenesis
    BY <1>6, <2>1
  <2>. QED  BY <2>1, <2>2
<1>8. ASSUME NEW n \in 1 .. m PROVE f[n] = GateStep(f[n - 1], es[n])
  <2>1. n - 1 \in Nat /\ (n - 1) + 1 = n /\ n \in 0 .. m /\ n - 1 \in 0 .. m
    BY <1>0
  <2>2. 1 .. n # {} /\ Max(1 .. n) = n /\ (1 .. n) \ {n} = 1 .. n - 1
    BY <2>1, MaxSegment
  <2>3. 1 .. n \in SUBSET (1 .. m)
    BY <1>0
  <2>4. k[1 .. n] = GateStep(k[(1 .. n) \ {Max(1 .. n)}], es[Max(1 .. n)])
    BY <1>6, <2>2, <2>3
  <2>. QED  BY <2>1, <2>2, <2>4
<1>9. f[m] = k[1 .. m]
  BY <1>0
<1>. HIDE DEF f
<1>10. \A n \in 0 .. m : f[n] \in A
  <2>. DEFINE T == {n \in Nat : n <= m => f[n] \in A}
  <2>1. 0 \in T
    BY <1>3, <1>7
  <2>2. ASSUME NEW n \in Nat, n \in T PROVE n + 1 \in T
    <3>. SUFFICES ASSUME n + 1 <= m PROVE f[n + 1] \in A
      OBVIOUS
    <3>1. f[n] \in A /\ n + 1 \in 1 .. m /\ (n + 1) - 1 = n
      BY <1>0, <2>2
    <3>2. f[n + 1] = GateStep(f[n], es[n + 1])
      BY <1>8, <3>1
    <3>. QED  BY <1>2, <3>1, <3>2
  <2>3. Nat \subseteq T
    <3>. HIDE DEF T
    <3>. QED  BY <2>1, <2>2, SetInduction
  <2>. QED  BY <1>0, <2>3
<1>. QED  BY <1>1, <1>7, <1>8, <1>9, <1>10 DEF Gates, m, A

(* The blocks after genesis.                                                *)
Mined(bs) == SubSeq(bs, 2, Len(bs))

LEMMA MinedType ==
  ASSUME NEW bs \in Seq(Block)
  PROVE  /\ Mined(bs) \in Seq(Block)
         /\ bs # <<>> => Len(Mined(bs)) = Len(bs) - 1
         /\ bs # <<>> => \A n \in 1 .. Len(bs) - 1 : Mined(bs)[n] = bs[n + 1]
<1>0. Len(bs) \in Nat /\ \A i \in 1 .. Len(bs) : bs[i] \in Block
  OBVIOUS
<1>1. \A i \in 2 .. Len(bs) : bs[i] \in Block
  BY <1>0
<1>2. CASE bs = <<>>
  <2>1. Mined(bs) = <<>>
    BY <1>2 DEF Mined
  <2>. QED  BY <1>2, <2>1
<1>3. CASE bs # <<>>
  <2>1. Len(bs) >= 1
    BY <1>0, <1>3
  <2>2. /\ SubSeq(bs, 2, Len(bs)) \in Seq(Block)
        /\ Len(SubSeq(bs, 2, Len(bs))) = Len(bs) - 1
        /\ \A n \in 1 .. Len(bs) - 1 : SubSeq(bs, 2, Len(bs))[n] = bs[n + 1]
    <3>. DEFINE c == SubSeq(bs, 2, Len(bs))
    <3>1. /\ c \in Seq(Block)
          /\ Len(c) = IF 2 <= Len(bs) THEN Len(bs) - 2 + 1 ELSE 0
          /\ \A i \in 1 .. Len(bs) - 2 + 1 : c[i] = bs[2 + i - 1]
      BY <1>0, <1>1, SubSeqProperties
    <3>. HIDE DEF c
    <3>2. Len(c) = Len(bs) - 1
      <4>1. Len(c) = IF 2 <= Len(bs) THEN Len(bs) - 2 + 1 ELSE 0
        BY <3>1
      <4>. DEFINE n == Len(bs)
                  l == Len(c)
      <4>2. n \in Nat /\ n >= 1 /\ l = IF 2 <= n THEN n - 2 + 1 ELSE 0
        BY <1>0, <2>1, <4>1
      <4>. HIDE DEF n, l
      <4>3. l = n - 1
        BY <4>2
      <4>. QED  BY <4>3 DEF n, l
    <3>3. ASSUME NEW n \in 1 .. Len(bs) - 1 PROVE c[n] = bs[n + 1]
      <4>1. n \in 1 .. Len(bs) - 2 + 1 /\ 2 + n - 1 = n + 1
        BY <1>0
      <4>. QED  BY <3>1, <4>1
    <3>. QED  BY <3>1, <3>2, <3>3 DEF c
  <2>. QED  BY <1>3, <2>2 DEF Mined
<1>. QED  BY <1>2, <1>3

(* replayState is the second loop on what the first collects.               *)
LEMMA ReplayStateRuns ==
  ASSUME NEW bs \in Seq(Block)
  PROVE  \E f, g : LET cs == Mined(bs) IN
                   /\ Collects(f, cs)
                   /\ f[Len(cs)] \in Seq(Entry)
                   /\ Gates(g, f[Len(cs)])
                   /\ ReplayState(bs) = g[Len(f[Len(cs)])]
<1>. DEFINE cs == Mined(bs)
<1>1. cs \in Seq(Block) /\ Len(cs) \in Nat
  BY MinedType
<1>. DEFINE es == FoldLeft(LAMBDA acc, b : acc \o EntriesOf(b), <<>>, cs)
<1>2. PICK f : Collects(f, cs) /\ es = f[Len(cs)]
  BY <1>1, Collecting
<1>3. ReplayState(bs) = FoldLeft(GateStep, ApplyGenesis, es)
  BY DEF ReplayState, GateStep, EntriesOf, FoldLeft, MapThenFoldSet, Mined
<1>. HIDE DEF cs, es
<1>4. es \in Seq(Entry)
  BY <1>1, <1>2 DEF Collects
<1>5. PICK g : Gates(g, es) /\ FoldLeft(GateStep, ApplyGenesis, es) = g[Len(es)]
  BY <1>4, Gating
<1>6. Collects(f, cs) /\ f[Len(cs)] \in Seq(Entry) /\ Gates(g, f[Len(cs)])
      /\ ReplayState(bs) = g[Len(f[Len(cs)])]
  BY <1>2, <1>3, <1>4, <1>5
<1>. QED  BY <1>6 DEF cs

(* Whatever the file holds, replayState gives accounts.                     *)
LEMMA ReplayStateType ==
  ASSUME NEW bs \in Seq(Block)
  PROVE  ReplayState(bs) \in Accounts
<1>1. PICK f, g : LET cs == Mined(bs) IN
                   /\ Collects(f, cs)
                   /\ f[Len(cs)] \in Seq(Entry)
                   /\ Gates(g, f[Len(cs)])
                   /\ ReplayState(bs) = g[Len(f[Len(cs)])]
  BY ReplayStateRuns
<1>. DEFINE es == f[Len(Mined(bs))]
<1>2. es \in Seq(Entry) /\ Gates(g, es) /\ ReplayState(bs) = g[Len(es)]
  BY <1>1
<1>. HIDE DEF es
<1>3. Len(es) \in 0 .. Len(es)
  BY <1>2
<1>. QED  BY <1>2, <1>3 DEF Gates

(* What the first loop has collected stays at the front.                    *)
LEMMA CollectedStays ==
  ASSUME NEW cs \in Seq(Block), NEW f, Collects(f, cs)
  PROVE  \A m \in 0 .. Len(cs) : \A n \in 0 .. m :
           /\ Len(f[n]) <= Len(f[m])
           /\ \A i \in 1 .. Len(f[n]) : f[m][i] = f[n][i]
<1>. DEFINE M == Len(cs)
            Leads(n, m) == /\ Len(f[n]) <= Len(f[m])
                           /\ \A i \in 1 .. Len(f[n]) : f[m][i] = f[n][i]
            T == {m \in Nat : m <= M => \A n \in 0 .. m : Leads(n, m)}
<1>0. M \in Nat /\ (\A n \in 0 .. M : f[n] \in Seq(Entry) /\ Len(f[n]) \in Nat)
      /\ \A n \in 1 .. M : cs[n] \in Block
  BY DEF Collects
<1>a. \A n \in 1 .. M : f[n] = f[n - 1] \o EntriesOf(cs[n])
  BY DEF Collects
<1>. HIDE DEF M
<1>b. \A n \in 0 .. M : Leads(n, n)
  BY <1>0
<1>1. 0 \in T
  BY <1>0, <1>b
<1>2. ASSUME NEW m \in Nat, m \in T PROVE m + 1 \in T
  <2>. SUFFICES ASSUME m + 1 <= M, NEW n \in 0 .. m + 1 PROVE Leads(n, m + 1)
    OBVIOUS
  <2>1. CASE n = m + 1
    BY <1>0, <1>b, <2>1
  <2>2. CASE n \in 0 .. m
    <3>. DEFINE u == f[n]
                v == f[m]
                w == f[m + 1]
                e == EntriesOf(cs[m + 1])
    <3>1. Len(u) <= Len(v) /\ \A i \in 1 .. Len(u) : v[i] = u[i]
      BY <1>0, <1>2, <2>2
    <3>2. m + 1 \in 1 .. M /\ (m + 1) - 1 = m /\ m \in 0 .. M /\ n \in 0 .. M
      BY <1>0, <2>2
    <3>3. w = v \o e
      BY <1>a, <3>2
    <3>4. u \in Seq(Entry) /\ v \in Seq(Entry) /\ e \in Seq(Entry)
      BY <1>0, <3>2, EntriesType
    <3>. HIDE DEF u, v, w, e
    <3>5. Len(w) = Len(v) + Len(e) /\ \A i \in 1 .. Len(v) : w[i] = v[i]
      BY <3>3, <3>4
    <3>6. Len(u) \in Nat /\ Len(v) \in Nat /\ Len(e) \in Nat
      BY <3>4
    <3>7. Len(u) <= Len(w) /\ \A i \in 1 .. Len(u) : w[i] = u[i]
      BY <3>1, <3>5, <3>6
    <3>. QED  BY <3>7 DEF u, w
  <2>. QED  BY <2>1, <2>2
<1>3. Nat \subseteq T
  <2>. HIDE DEF T
  <2>. QED  BY <1>1, <1>2, SetInduction
<1>4. \A m \in 0 .. M : \A n \in 0 .. m : Leads(n, m)
  BY <1>0, <1>3
<1>. QED  BY <1>4 DEF M

(* What passes in a block passes the gate of replayState.                   *)
LEMMA GateStepPasses ==
  ASSUME NEW w, NEW t, NEW i, NEW k \in Nat, NEW c, BlockTxnReason(w, t, i, k, c) = "OK"
  PROVE  GateStep(w, [t |-> t, index |-> i, ti |-> k]) = ApplyTxn(w, t)
<1>1. ApplyTxnReason(w, t, i, k) = "OK"
  BY DEF ApplyTxnReason, BlockTxnReason
<1>. QED  BY <1>1 DEF GateStep

(* The transactions of block b stand in es after the first `at'.            *)
Stands(es, at, b) ==
  /\ at \in Nat /\ at + Len(b.txns) <= Len(es)
  /\ \A k \in 1 .. Len(b.txns) : es[at + k] = EntriesOf(b)[k]

(* A block's transactions, taken from where the chain before it ends.       *)
LEMMA GateBlock ==
  ASSUME NEW es \in Seq(Entry), NEW g, Gates(g, es), NEW b \in Block, NEW at, Stands(es, at, b),
         NEW reward, ApplyBlockTxns(g[at], b, reward).reason = "OK"
  PROVE  g[at + Len(b.txns)] = ApplyBlockTxns(g[at], b, reward).work
<1>. DEFINE m == Len(b.txns)
            st == g[at]
<1>0. m \in Nat /\ Len(es) \in Nat /\ at \in Nat /\ at + m <= Len(es)
  BY DEF Block, Stands
<1>1. st \in Accounts
  <2>1. at \in 0 .. Len(es)
    BY <1>0
  <2>. QED  BY <2>1 DEF Gates
<1>2. PICK q : Passed(q, st, b, m) /\ ApplyBlockTxns(st, b, reward).work = q[m].work
  BY <1>1, AppliesPassed
<1>3. \A k \in 1 .. m : es[at + k] = [t |-> b.txns[k], index |-> b.header.index, ti |-> k - 1]
  BY DEF EntriesOf, Stands
<1>. HIDE DEF m, st
<1>. DEFINE T == {k \in Nat : k <= m => g[at + k] = q[k].work}
<1>4. 0 \in T
  <2>1. q[0] = [reason |-> "OK", work |-> st, coinbases |-> 0]
    BY <1>2 DEF Passed
  <2>2. q[0].work = st /\ at + 0 = at
    BY <1>0, <2>1
  <2>. QED  BY <2>2 DEF st
<1>5. ASSUME NEW k \in Nat, k \in T PROVE k + 1 \in T
  <2>. SUFFICES ASSUME k + 1 <= m PROVE g[at + (k + 1)] = q[k + 1].work
    OBVIOUS
  <2>. DEFINE t == b.txns[k + 1]
              i == b.header.index
              n == at + k
  <2>1. g[n] = q[k].work
    BY <1>0, <1>5
  <2>2. k + 1 \in 1 .. m /\ (k + 1) - 1 = k /\ n + 1 \in 1 .. Len(es) /\ (n + 1) - 1 = n
        /\ at + (k + 1) = n + 1
    BY <1>0
  <2>3. BlockTxnReason(q[k].work, t, i, k, q[k].coinbases) = "OK"
        /\ q[k + 1].work = ApplyTxn(q[k].work, t)
    <3>1. /\ BlockTxnReason(q[(k + 1) - 1].work, t, i, (k + 1) - 1, q[(k + 1) - 1].coinbases) = "OK"
          /\ q[k + 1] = [reason |-> "OK", work |-> ApplyTxn(q[(k + 1) - 1].work, t),
                         coinbases |-> q[(k + 1) - 1].coinbases
                                         + IF t.from = NullAddr THEN 1 ELSE 0]
      BY <1>2, <2>2 DEF Passed
    <3>. HIDE DEF t, i
    <3>. QED  BY <2>2, <3>1
  <2>4. es[n + 1] = [t |-> t, index |-> i, ti |-> k]
    BY <1>3, <2>2
  <2>. HIDE DEF n, t, i
  <2>5. g[n + 1] = GateStep(g[n], es[n + 1])
    BY <2>2 DEF Gates
  <2>6. g[n + 1] = ApplyTxn(q[k].work, t)
    BY <2>1, <2>3, <2>4, <2>5, GateStepPasses
  <2>. QED  BY <2>2, <2>3, <2>6
<1>6. Nat \subseteq T
  <2>. HIDE DEF T
  <2>. QED  BY <1>4, <1>5, SetInduction
<1>7. g[at + m] = q[m].work
  BY <1>0, <1>6
<1>. QED  BY <1>2, <1>7 DEF m, st

(* On a chain that replays, replayState ends where the replay does: no      *)
(* transaction is refused, coinbases included.                              *)
LEMMA ReplayStateReplays ==
  ASSUME NEW bs \in Seq(Block), NEW now_s, NEW d, NEW reward,
         ReplayReason(bs, now_s, d, reward) = "OK"
  PROVE  ReplayState(bs) = ReplayFromGenesis(bs, now_s, d, reward).state
<1>. DEFINE cs == Mined(bs)
            M == Len(cs)
<1>1. bs # <<>> /\ \E s : /\ Path(s, bs, Len(bs), now_s, d, reward)
                          /\ ReplayFromGenesis(bs, now_s, d, reward).state = s[Len(bs)]
  BY ReplayHasPath
<1>2. PICK s : /\ Path(s, bs, Len(bs), now_s, d, reward)
               /\ ReplayFromGenesis(bs, now_s, d, reward).state = s[Len(bs)]
  BY <1>1
<1>3. PICK f, g : /\ Collects(f, cs)
                  /\ f[M] \in Seq(Entry)
                  /\ Gates(g, f[M])
                  /\ ReplayState(bs) = g[Len(f[M])]
  BY ReplayStateRuns
<1>4. cs \in Seq(Block) /\ M = Len(bs) - 1 /\ \A n \in 1 .. M : cs[n] = bs[n + 1]
  BY <1>1, MinedType
<1>5. M \in Nat /\ M + 1 = Len(bs) /\ Len(bs) \in Nat
  BY <1>1, <1>4
<1>. DEFINE es == f[M]
            T == {n \in Nat : n <= M => g[Len(f[n])] = s[n + 1]}
<1>a. Path(s, bs, M + 1, now_s, d, reward)
  BY <1>2, <1>5
<1>b. \A n \in 0 .. M : f[n] \in Seq(Entry) /\ Len(f[n]) \in Nat
  BY <1>3 DEF Collects
<1>c. \A n \in 1 .. M : f[n] = f[n - 1] \o EntriesOf(cs[n])
  BY <1>3 DEF Collects
<1>d. \A n \in 0 .. M : /\ Len(f[n]) <= Len(f[M])
                        /\ \A i \in 1 .. Len(f[n]) : f[M][i] = f[n][i]
  <2>1. M \in 0 .. M
    BY <1>5
  <2>2. \A m \in 0 .. M : \A n \in 0 .. m : /\ Len(f[n]) <= Len(f[m])
                                            /\ \A i \in 1 .. Len(f[n]) : f[m][i] = f[n][i]
    BY <1>3, <1>4, CollectedStays
  <2>. HIDE DEF M
  <2>. QED  BY <2>1, <2>2
<1>e. \A n \in 1 .. M : cs[n] \in Block
  BY <1>4
<1>. HIDE DEF M, cs
<1>6. 0 \in T
  <2>1. f[0] = <<>>
    BY <1>3 DEF Collects
  <2>2. g[0] = ApplyGenesis
    BY <1>3 DEF Gates
  <2>3. s[1] = ApplyGenesis
    BY <1>2 DEF Path
  <2>4. Len(f[0]) = 0
    BY <2>1
  <2>. QED  BY <2>2, <2>3, <2>4
<1>7. ASSUME NEW n \in Nat, n \in T PROVE n + 1 \in T
  <2>. SUFFICES ASSUME n + 1 <= M PROVE g[Len(f[n + 1])] = s[(n + 1) + 1]
    OBVIOUS
  <2>. DEFINE b == cs[n + 1]
              at == Len(f[n])
              u == f[n]
              v == f[n + 1]
              e == EntriesOf(b)
  <2>1. g[at] = s[n + 1] /\ n + 1 \in 1 .. M /\ (n + 1) - 1 = n /\ n \in 0 .. M /\ n + 1 \in 0 .. M
    BY <1>5, <1>7
  <2>2. b \in Block /\ b = bs[(n + 1) + 1]
    BY <1>4, <1>e, <2>1
  <2>3. v = u \o e /\ u \in Seq(Entry) /\ v \in Seq(Entry) /\ at = Len(u)
    BY <1>b, <1>c, <2>1
  <2>4. e \in Seq(Entry) /\ Len(e) = Len(b.txns) /\ Len(e) \in Nat
    BY <2>2, EntriesType
  <2>5. /\ ApplyBlockTxns(s[n + 1], b, reward).reason = "OK"
        /\ s[(n + 1) + 1] = ApplyBlockTxns(s[n + 1], b, reward).work
    <3>1. (n + 1) + 1 \in 2 .. M + 1 /\ ((n + 1) + 1) - 1 = n + 1
      BY <1>5, <2>1
    <3>. QED  BY <1>a, <2>2, <3>1 DEF Path
  <2>6. Len(v) <= Len(es) /\ \A i \in 1 .. Len(v) : es[i] = v[i]
    BY <1>d, <2>1
  <2>7. es \in Seq(Entry) /\ Gates(g, es)
    BY <1>3
  <2>. HIDE DEF b, at, u, v, e, es
  <2>8. at \in Nat /\ Len(v) = at + Len(e) /\ \A k \in 1 .. Len(e) : v[at + k] = e[k]
    <3>1. /\ Len(u \o e) = Len(u) + Len(e)
          /\ \A i \in 1 .. Len(u) + Len(e) :
               (u \o e)[i] = IF i <= Len(u) THEN u[i] ELSE e[i - Len(u)]
      BY <2>3, <2>4, ConcatProperties
    <3>2. at \in Nat
      BY <2>3
    <3>3. ASSUME NEW k \in 1 .. Len(e) PROVE v[at + k] = e[k]
      <4>1. at + k \in 1 .. at + Len(e) /\ ~(at + k <= at) /\ (at + k) - at = k
        BY <2>4, <3>2
      <4>. QED  BY <2>3, <3>1, <4>1
    <3>. QED  BY <2>3, <3>1, <3>2, <3>3
  <2>9. \A k \in 1 .. Len(e) : at + k \in 1 .. Len(v)
    BY <2>4, <2>8
  <2>10. at + Len(b.txns) <= Len(es) /\ \A k \in 1 .. Len(b.txns) : es[at + k] = EntriesOf(b)[k]
    BY <2>4, <2>6, <2>8, <2>9 DEF e
  <2>11. ApplyBlockTxns(g[at], b, reward).reason = "OK"
    BY <2>1, <2>5
  <2>12. g[at + Len(b.txns)] = ApplyBlockTxns(g[at], b, reward).work
    <3>1. Stands(es, at, b)
      BY <2>8, <2>10 DEF Stands
    <3>2. b \in Block
      BY <2>2
    <3>3. ASSUME NEW x \in Seq(Entry), Gates(g, x), NEW y \in Block, NEW z, Stands(x, z, y),
                 ApplyBlockTxns(g[z], y, reward).reason = "OK"
          PROVE  g[z + Len(y.txns)] = ApplyBlockTxns(g[z], y, reward).work
      BY <3>3, GateBlock
    <3>. QED  BY <2>7, <2>11, <3>1, <3>2, <3>3
  <2>13. g[Len(v)] = s[(n + 1) + 1]
    BY <2>1, <2>4, <2>5, <2>8, <2>12
  <2>. QED  BY <2>13 DEF v
<1>8. Nat \subseteq T
  <2>. HIDE DEF T
  <2>. QED  BY <1>6, <1>7, SetInduction
<1>9. g[Len(f[M])] = s[M + 1]
  BY <1>5, <1>8
<1>10. ReplayState(bs) = g[Len(f[M])] /\ s[M + 1] = s[Len(bs)]
  BY <1>3, <1>5
<1>. QED  BY <1>2, <1>9, <1>10

-----------------------------------------------------------------------------
(* What send signed, and the bounds.                                        *)
Rest ==
  /\ sent \in [from : Acct, nonce : Nat]
  /\ now \in 0 .. MaxNow
  /\ kills \in 0 .. MaxKills

LEMMA NoSendType == NoSend \in [from : Acct, nonce : Nat]
BY DEF NoSend, Acct

LEMMA StepRest ==
  ASSUME Types, Rest, [Next]_vars
  PROVE  Rest'
<1>0. Parsed \in Seq(Block) /\ MaxNow \in Nat /\ MaxKills \in Nat
  BY ParsedType, CliAssumption DEF Types
<1>1. CASE SendSign
  <2>1. PICK a \in Addr : sent' = [from |-> a, nonce |-> ReplayState(Parsed)[a].nonce]
    BY <1>1 DEF SendSign
  <2>2. ReplayState(Parsed) \in Accounts /\ a \in Acct
    BY <1>0, ReplayStateType DEF Acct
  <2>3. ReplayState(Parsed)[a].nonce \in Nat
    BY <2>2 DEF Accounts, AccountState
  <2>. QED  BY <1>1, <2>1, <2>2, <2>3 DEF SendSign, Rest
<1>2. CASE SendDone
  BY <1>2, NoSendType DEF SendDone, Rest
<1>3. CASE Killed
  BY <1>0, <1>3 DEF Killed, Rest
<1>4. CASE Tick
  BY <1>0, <1>4 DEF Tick, Rest, toolVars
<1>5. CASE ImportLoad \/ ImportEvaluate \/ RewriteOpen \/ RewriteWrite
  BY <1>5 DEF ImportLoad, ImportEvaluate, RewriteOpen, RewriteWrite, Rest
<1>6. CASE NodeBoot \/ NodeExtend \/ NodeStop
  BY <1>6 DEF NodeBoot, NodeExtend, NodeStop, Rest, toolVars
<1>7. CASE UNCHANGED vars
  BY <1>7 DEF vars, toolVars, Rest
<1>. QED  BY <1>1, <1>2, <1>3, <1>4, <1>5, <1>6, <1>7 DEF Next

(* Every file the tool and the node leave is one of lines of blocks, and    *)
(* send signs a nonce whatever the file holds, import beside the node or    *)
(* not.                                                                     *)
THEOREM CliTypes == Spec => []TypeOK
<1>1. Init => Types /\ Rest
  <2>. SUFFICES ASSUME Init PROVE Types /\ Rest
    OBVIOUS
  <2>1. Types
    BY InitIInv DEF IInv
  <2>2. Rest
    BY CliAssumption, NoSendType DEF Init, Rest
  <2>. QED  BY <2>1, <2>2
<1>2. Types /\ Rest /\ [Next]_vars => Types' /\ Rest'
  BY StepTypes, StepRest
<1>3. Types /\ Rest => TypeOK
  BY DEF Types, Rest, TypeOK
<1>. QED  BY <1>1, <1>2, <1>3, PTL DEF Spec

(* What send signs without a node is the nonce that a full replay of what   *)
(* load gives of the file yields for the sender (run_send, replayState), a  *)
(* file cut in mid-line included, as long as import is not run beside the   *)
(* node and nothing was glued: on a chain that replays, ignoring what the   *)
(* gate refuses ignores nothing.                                            *)
THEOREM SignsTheNext == NodeDown => (Spec => SignedIsNext)
<1>. SUFFICES ASSUME NodeDown PROVE Spec => SignedIsNext
  OBVIOUS
<1>. DEFINE A == pc' = "sent" /\ pc # "sent" /\ Parsed # <<>> /\ ~glued =>
                 sent'.nonce = ReplayFromGenesis(Parsed, now, D, Reward).state[sent'.from].nonce
<1>2. IInv /\ FileInv /\ [Next]_vars => FileInv'
  BY StepFile DEF IInv
<1>3. ASSUME Types, FileInv, [Next]_vars PROVE A
  <2>. SUFFICES ASSUME pc' = "sent", pc # "sent", Parsed # <<>>, ~glued
                PROVE  sent'.nonce
                         = ReplayFromGenesis(Parsed, now, D, Reward).state[sent'.from].nonce
    OBVIOUS
  <2>1. SendSign
    BY <1>3 DEF Next, ImportLoad, ImportEvaluate, RewriteOpen, RewriteWrite, Killed, SendDone,
                NodeBoot, NodeExtend, NodeStop, Tick, vars, toolVars
  <2>2. PICK a \in Addr : sent' = [from |-> a, nonce |-> ReplayState(Parsed)[a].nonce]
    BY <2>1 DEF SendSign
  <2>3. Parsed \in Seq(Block) /\ ReplayReason(Parsed, now, D, Reward) = "OK"
    BY <1>3, ParsedType DEF Types, FileInv
  <2>. DEFINE bs == Parsed
              time == now
              d == D
              r == Reward
  <2>4. bs \in Seq(Block) /\ ReplayReason(bs, time, d, r) = "OK"
    BY <2>3
  <2>. HIDE DEF bs, time, d, r
  <2>5. ReplayState(bs) = ReplayFromGenesis(bs, time, d, r).state
    BY <2>4, ReplayStateReplays
  <2>6. ReplayState(Parsed) = ReplayFromGenesis(Parsed, now, D, Reward).state
    BY <2>5 DEF bs, time, d, r
  <2>. QED  BY <2>2, <2>6
<1>4. IInv /\ FileInv /\ [Next]_vars => [A]_vars
  BY <1>3 DEF IInv
<1>. HIDE DEF A
<1>5. Spec => [][A]_vars
  BY <1>2, <1>4, InitFile, Inductive, PTL DEF Spec
<1>. QED  BY <1>5 DEF SignedIsNext, A

=============================================================================
