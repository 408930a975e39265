---------------------------- MODULE FrameProofs ----------------------------
(***************************************************************************)
(* FrameCodec proved: what read_frame returns is what write_frame was      *)
(* given, for every radix, magic, cap, set of frames and size of the       *)
(* connection's buffer.                                                    *)
(*                                                                         *)
(* The inductive invariant names the stream S of all the bytes the calls   *)
(* so far stand for, sent or not, and the place E[i] where frame i ends in *)
(* it.  The bytes the reader has, the bytes on the way and the bytes left  *)
(* to send are three neighbouring stretches of S; send and recv only move  *)
(* the border between two of them.                                         *)
(***************************************************************************)
EXTENDS FrameCodec, SequenceTheorems, TLAPS

-----------------------------------------------------------------------------
(* Lengths in four bytes.                                                   *)

(* Division with remainder.                                                 *)
LEMMA DivisionLaw ==
  ASSUME NEW n \in Nat, NEW m \in Nat \ {0}
  PROVE  /\ n \div m \in Nat /\ n % m \in Nat /\ n % m \in 0 .. m - 1
         /\ n = m * (n \div m) + (n % m)
<1>1. n \in Int /\ m \in Int /\ m > 0
  OBVIOUS
<1>2. n = m * (n \div m) + (n % m)
  OBVIOUS
<1> QED  BY <1>2

(* A larger factor makes the product larger, by the other factor at least.  *)
LEMMA ProductGrows ==
  ASSUME NEW m \in Nat \ {0}, NEW a \in Nat, NEW b \in Nat, a < b
  PROVE  m * a + m <= m * b
<1>1. PICK d \in Nat : b = a + 1 + d
  <2>1. b - a - 1 \in Nat /\ b = a + 1 + (b - a - 1)
    OBVIOUS
  <2> QED  BY <2>1
<1>2. m * b = m * a + m + m * d
  BY <1>1
<1>3. m * d >= 0
  OBVIOUS
<1>4. m * a \in Nat /\ m * b \in Nat /\ m * d \in Nat
  OBVIOUS
<1> QED  BY <1>2, <1>3, <1>4

(* Quotient and remainder are unique.                                       *)
LEMMA QuotientUnique ==
  ASSUME NEW m \in Nat \ {0}, NEW q \in Nat, NEW r \in 0 .. m - 1,
         NEW p \in Nat, NEW s \in 0 .. m - 1, m * q + r = m * p + s
  PROVE  q = p /\ r = s
<1>1. ~(q < p)
  <2>1. ASSUME q < p PROVE FALSE
    <3>1. m * q + m <= m * p
      BY <2>1, ProductGrows
    <3>2. m * q \in Nat /\ m * p \in Nat
      OBVIOUS
    <3> QED  BY <3>1, <3>2
  <2> QED  BY <2>1
<1>2. ~(p < q)
  <2>1. ASSUME p < q PROVE FALSE
    <3>1. m * p + m <= m * q
      BY <2>1, ProductGrows
    <3>2. m * q \in Nat /\ m * p \in Nat
      OBVIOUS
    <3> QED  BY <3>1, <3>2
  <2> QED  BY <2>1
<1>3. q = p
  BY <1>1, <1>2
<1>4. m * q \in Nat
  OBVIOUS
<1> QED  BY <1>3, <1>4

(* Dividing by a radix and by a radix again is dividing by their product,   *)
(* so that EncodeLength's bytes are the digits of the length.               *)
LEMMA DigitsOf ==
  ASSUME NEW n \in Nat
  PROVE  /\ (n \div Radix) \div Radix = n \div (Radix * Radix)
         /\ (n \div (Radix * Radix)) \div Radix = n \div (Radix * Radix * Radix)
<1>0. Radix \in Nat \ {0}
  BY FrameAssumption
<1>1. ASSUME NEW k \in Nat \ {0}
      PROVE  (n \div k) \div Radix = n \div (k * Radix)
  <2> DEFINE a == n \div k
             b == a \div Radix
             q == n \div (k * Radix)
             r == k * (a % Radix) + (n % k)
  <2>0. k * Radix \in Nat \ {0}
    BY <1>0
  <2>1. a \in Nat /\ n % k \in 0 .. k - 1 /\ n = k * a + (n % k)
    BY DivisionLaw
  <2> HIDE DEF a
  <2>2. b \in Nat /\ a % Radix \in 0 .. Radix - 1 /\ a = Radix * b + (a % Radix)
    BY <1>0, <2>1, DivisionLaw
  <2>3. /\ q \in Nat /\ n % (k * Radix) \in 0 .. k * Radix - 1
        /\ n = (k * Radix) * q + (n % (k * Radix))
    BY <2>0, DivisionLaw
  <2> HIDE DEF b, q
  <2>4. n = (k * Radix) * b + r
    <3>1. k * a = k * (Radix * b) + k * (a % Radix)
      BY <1>0, <2>1, <2>2
    <3>2. k * (Radix * b) = (k * Radix) * b
      BY <1>0, <2>2
    <3>3. k * (a % Radix) \in Nat /\ (k * Radix) * b \in Nat
      BY <1>0, <2>0, <2>2
    <3> QED  BY <2>1, <3>1, <3>2, <3>3
  <2>5. r \in 0 .. k * Radix - 1
    <3>1. k * (a % Radix) + k <= k * Radix
      BY <1>0, <2>2, ProductGrows
    <3>2. k * (a % Radix) \in Nat /\ k * Radix \in Nat
      BY <1>0, <2>2
    <3> QED  BY <2>1, <3>1, <3>2
  <2> HIDE DEF r
  <2>6. b = q
    BY <2>0, <2>2, <2>3, <2>4, <2>5, QuotientUnique
  <2> QED  BY <2>6 DEF b, q, a
<1>2. Radix * Radix \in Nat \ {0}
  BY <1>0
<1> QED  BY <1>0, <1>1, <1>2

(* What EncodeLength writes, DecodeLength reads: no length is garbled.      *)
LEMMA LengthCodec ==
  ASSUME NEW n \in 0 .. MAX_FRAME_LEN, NEW h,
         h[6] = EncodeLength(n)[1], h[7] = EncodeLength(n)[2],
         h[8] = EncodeLength(n)[3], h[9] = EncodeLength(n)[4]
  PROVE  DecodeLength(h) = n
<1>0. Radix \in Nat \ {0} /\ n \in Nat /\ n < Radix * Radix * Radix * Radix
      /\ Radix * Radix \in Nat \ {0} /\ Radix * Radix * Radix \in Nat \ {0}
      /\ Radix * Radix * Radix * Radix \in Nat
  BY FrameAssumption
<1> DEFINE a == n \div Radix
           b == n \div (Radix * Radix)
           c == n \div (Radix * Radix * Radix)
<1>1. h[6] = c % Radix /\ h[7] = b % Radix /\ h[8] = a % Radix /\ h[9] = n % Radix
  BY DEF EncodeLength
<1>01. Radix \in Nat \ {0} /\ n \in Nat
  BY <1>0
<1>2. a \in Nat /\ n % Radix \in 0 .. Radix - 1 /\ n = Radix * a + (n % Radix)
  BY <1>01, DivisionLaw
<1>3. a \div Radix = b /\ b \div Radix = c
  BY <1>0, DigitsOf
<1>4. b \in Nat /\ c \in Nat
      /\ n % (Radix * Radix * Radix) \in Nat
      /\ n = (Radix * Radix * Radix) * c + (n % (Radix * Radix * Radix))
  <2>1. b \in Nat
    <3>1. Radix * Radix \in Nat \ {0}
      BY <1>0
    <3> QED  BY <1>01, <3>1, DivisionLaw
  <2>2. ASSUME NEW m \in Nat \ {0}
        PROVE  n \div m \in Nat /\ n % m \in Nat /\ n = m * (n \div m) + (n % m)
    BY <1>01, DivisionLaw
  <2>3. Radix * Radix * Radix \in Nat \ {0}
    BY <1>0
  <2> QED  BY <2>1, <2>2, <2>3
<1> HIDE DEF a, b, c
<1>5. a % Radix \in 0 .. Radix - 1 /\ a = Radix * b + (a % Radix)
  BY <1>01, <1>2, <1>3, DivisionLaw
<1>6. b % Radix \in 0 .. Radix - 1 /\ b = Radix * c + (b % Radix)
  BY <1>01, <1>3, <1>4, DivisionLaw
<1>7. c < Radix
  <2> SUFFICES ASSUME Radix < c \/ Radix = c PROVE FALSE
    BY <1>0, <1>4
  <2>1. (Radix * Radix * Radix) * c >= (Radix * Radix * Radix) * Radix
    <3>1. CASE Radix = c
      BY <1>0, <1>4, <3>1
    <3>2. CASE Radix < c
      <4>1. (Radix * Radix * Radix) * Radix + Radix * Radix * Radix <= (Radix * Radix * Radix) * c
        BY <1>0, <1>4, <3>2, ProductGrows
      <4>2. (Radix * Radix * Radix) * c \in Nat
        BY <1>0, <1>4
      <4> QED  BY <1>0, <4>1, <4>2
    <3> QED  BY <3>1, <3>2
  <2>2. (Radix * Radix * Radix) * c \in Nat
    BY <1>0, <1>4
  <2> QED  BY <1>0, <1>4, <2>1, <2>2
<1>8. c % Radix = c
  <2>1. c \div Radix \in Nat /\ c % Radix \in 0 .. Radix - 1
        /\ c = Radix * (c \div Radix) + (c % Radix)
    BY <1>01, <1>4, DivisionLaw
  <2>2. c \in 0 .. Radix - 1 /\ Radix * 0 + c = c
    BY <1>0, <1>4, <1>7
  <2> QED  BY <1>0, <2>1, <2>2, QuotientUnique
<1>9. /\ h[6] * Radix + h[7] = b
      /\ b * Radix + h[8] = a
      /\ a * Radix + h[9] = n
  BY <1>01, <1>1, <1>2, <1>4, <1>5, <1>6, <1>8
<1> QED  BY <1>9 DEF DecodeLength

-----------------------------------------------------------------------------
(* The bytes of s stand in stream S from position r on.                     *)
At(S, r, s) == \A k \in 1 .. Len(s) : S[r + k] = s[k]

(* S is the stream of the calls so far, and E[i] the place where frame i of *)
(* begun ends: header, payload, header, payload, and junk at the end.       *)
Layout(E, S) ==
  /\ S \in Seq(Byte) /\ E \in [0 .. Len(begun) -> Nat] /\ E[0] = 0
  /\ \A i, j \in 0 .. Len(begun) : i <= j => E[i] <= E[j]
  /\ \A i \in 1 .. Len(begun) :
       /\ E[i] = E[i - 1] + FRAME_HEADER_LEN + Len(begun[i].payload)
       /\ At(S, E[i - 1], Header(begun[i]))
       /\ At(S, E[i - 1] + FRAME_HEADER_LEN, begun[i].payload)
  /\ Len(S) = E[Len(begun)] + Len(junk)
  /\ At(S, E[Len(begun)], junk)

(* Where in the stream the read_exact under way began, and how far the      *)
(* writer has sent.                                                         *)
Base(E) == E[Len(got)] + IF rpc = "body" THEN FRAME_HEADER_LEN ELSE 0
Sent(E) == Base(E) + Len(buf) + Len(wire)

(* What write_frame has still to hand to write_all.                         *)
Ahead == IF wpc = "header" THEN Len(begun[Len(begun)].payload) ELSE 0

(* While the reader reads, what it has, what is on the way and what is left *)
(* to send follow each other in the stream.                                 *)
Flow(E, S) ==
  /\ At(S, Base(E), buf)
  /\ At(S, Base(E) + Len(buf), wire)
  /\ At(S, Sent(E), out)
  /\ Sent(E) <= Len(S)
  /\ wpc # "closed" => Sent(E) + Len(out) + Ahead = Len(S)
  /\ wpc = "closed" => /\ E[acked] <= Sent(E)
                       /\ acked < Len(begun) => Sent(E) < E[acked + 1]

(* The writer's part.                                                       *)
WriterInv ==
  /\ \A i \in 1 .. Len(begun) : Len(begun[i].payload) <= MAX_FRAME_LEN
  /\ wpc \in {"idle", "junk"} => acked = Len(begun)
  /\ wpc \in {"header", "payload"} => acked + 1 = Len(begun)
  /\ wpc \in {"idle", "closed"} => out = <<>>
  /\ wpc \in {"header", "junk"} => Len(out) <= FRAME_HEADER_LEN
  /\ wpc = "payload" => Len(out) <= Len(begun[Len(begun)].payload)
  /\ junk # <<>> => wpc \in {"junk", "closed"} /\ acked = Len(begun)
  /\ wpc = "junk" => junk # <<>>

(* The reader's.                                                            *)
ReaderInv ==
  /\ Len(got) <= Len(begun)
  /\ \A i \in 1 .. Len(got) : got[i] = begun[i]
  /\ rpc = "idle" => buf = <<>>
  /\ rpc = "header" => length = FRAME_HEADER_LEN
  /\ rpc = "body" => /\ Len(got) < Len(begun)
                     /\ type = begun[Len(got) + 1].type
                     /\ length = Len(begun[Len(got) + 1].payload)
  /\ rpc # "failed" => rerr = "none"
  /\ rerr \in {"BAD_MAGIC", "OVERSIZE", "SHORT_READ"} => wpc \in {"junk", "closed"}

(* There is such a stream.                                                  *)
StreamInv == \E E, S : Layout(E, S) /\ Flow(E, S)

(* The inductive invariant: once read_frame has failed nobody reads the     *)
(* stream, and nothing is said of it.                                       *)
IInv ==
  /\ TypeOK /\ WriterInv /\ ReaderInv /\ ErrorsTrue
  /\ rpc # "failed" => StreamInv

-----------------------------------------------------------------------------
(* Sequences of bytes in a stream.                                          *)

(* A function on 1 .. n is a sequence of length n.                          *)
LEMMA BytesOf ==
  ASSUME NEW n \in Nat, NEW s \in [1 .. n -> Byte]
  PROVE  s \in Seq(Byte) /\ Len(s) = n
<1>1. s \in Seq(Byte)
  BY SeqDef
<1>2. 1 .. Len(s) = 1 .. n /\ Len(s) \in Nat
  BY <1>1, LenProperties
<1>3. \A k \in Nat : k \in 1 .. Len(s) <=> k \in 1 .. n
  BY <1>2
<1>4. Len(s) <= n
  BY <1>2, <1>3
<1>5. n <= Len(s)
  BY <1>2, <1>3
<1> QED  BY <1>1, <1>2, <1>4, <1>5

(* What stands in a stream still stands there when the stream grows.        *)
LEMMA AtGrow ==
  ASSUME NEW S \in Seq(Byte), NEW t \in Seq(Byte), NEW r \in Nat, NEW s \in Seq(Byte),
         r + Len(s) <= Len(S), At(S, r, s)
  PROVE  At(S \o t, r, s)
<1> SUFFICES ASSUME NEW k \in 1 .. Len(s) PROVE (S \o t)[r + k] = s[k]
  BY DEF At
<1>1. r + k \in 1 .. Len(S)
  OBVIOUS
<1>2. (S \o t)[r + k] = S[r + k]
  BY <1>1, ConcatProperties
<1> QED  BY <1>2 DEF At

(* What a stream grows by stands at its former end.                         *)
LEMMA AtEnd ==
  ASSUME NEW S \in Seq(Byte), NEW t \in Seq(Byte)
  PROVE  At(S \o t, Len(S), t)
<1> SUFFICES ASSUME NEW k \in 1 .. Len(t) PROVE (S \o t)[Len(S) + k] = t[k]
  BY DEF At
<1>1. Len(S) + k \in Len(S) + 1 .. Len(S) + Len(t) /\ Len(S) + k - Len(S) = k
  OBVIOUS
<1> QED  BY <1>1, ConcatProperties

(* No bytes stand anywhere.                                                 *)
LEMMA AtNothing ==
  ASSUME NEW S, NEW r
  PROVE  At(S, r, <<>>)
  BY DEF At

(* Bytes handed over from the front of b to the end of a keep their places. *)
LEMMA HandOver ==
  ASSUME NEW a \in Seq(Byte), NEW b \in Seq(Byte), NEW n \in 0 .. Len(b)
  PROVE  LET c == a \o SubSeq(b, 1, n)
             d == SubSeq(b, n + 1, Len(b))
         IN /\ c \in Seq(Byte) /\ d \in Seq(Byte)
            /\ Len(c) = Len(a) + n /\ Len(d) = Len(b) - n
            /\ \A S : \A r \in Nat :
                 At(S, r, a) /\ At(S, r + Len(a), b) =>
                   At(S, r, c) /\ At(S, r + Len(a) + n, d)
<1> DEFINE h == SubSeq(b, 1, n)
           c == a \o h
           d == SubSeq(b, n + 1, Len(b))
<1>0. Len(a) \in Nat /\ Len(b) \in Nat /\ n \in Nat /\ n <= Len(b)
      /\ \A i \in 1 .. Len(b) : b[i] \in Byte
  BY ElementOfSeq
<1>1. h \in Seq(Byte) /\ Len(h) = n /\ \A i \in 1 .. n : h[i] = b[i]
  <2>1. \A i \in 1 .. n : b[i] \in Byte
    BY <1>0
  <2>2. h \in Seq(Byte) /\ Len(h) = IF 1 <= n THEN n - 1 + 1 ELSE 0
    BY <1>0, <2>1, SubSeqProperties
  <2>3. \A i \in 1 .. n - 1 + 1 : h[i] = b[1 + i - 1]
    BY <1>0, <2>1, SubSeqProperties
  <2> QED  BY <1>0, <2>2, <2>3
<1>2. d \in Seq(Byte) /\ Len(d) = Len(b) - n /\ \A i \in 1 .. Len(b) - n : d[i] = b[n + i]
  <2>1. \A i \in n + 1 .. Len(b) : b[i] \in Byte
    BY <1>0
  <2>2. d \in Seq(Byte) /\ Len(d) = IF n + 1 <= Len(b) THEN Len(b) - (n + 1) + 1 ELSE 0
    BY <1>0, <2>1, SubSeqProperties
  <2>3. \A i \in 1 .. Len(b) - (n + 1) + 1 : d[i] = b[(n + 1) + i - 1]
    BY <1>0, <2>1, SubSeqProperties
  <2> QED  BY <1>0, <2>2, <2>3
<1> HIDE DEF h, d
<1>3. c \in Seq(Byte) /\ Len(c) = Len(a) + n
      /\ \A i \in 1 .. Len(a) + n : c[i] = IF i <= Len(a) THEN a[i] ELSE h[i - Len(a)]
  BY <1>0, <1>1, ConcatProperties
<1> HIDE DEF c
<1>4. ASSUME NEW S, NEW r \in Nat, At(S, r, a), At(S, r + Len(a), b)
      PROVE  At(S, r, c) /\ At(S, r + Len(a) + n, d)
  <2>1. \A k \in 1 .. Len(a) : S[r + k] = a[k]
    BY <1>4 DEF At
  <2>2. \A k \in 1 .. Len(b) : S[r + Len(a) + k] = b[k]
    BY <1>4 DEF At
  <2>3. ASSUME NEW k \in 1 .. Len(c) PROVE S[r + k] = c[k]
    <3>1. CASE k <= Len(a)
      BY <1>0, <1>3, <2>1, <3>1
    <3>2. CASE k > Len(a)
      <4> DEFINE j == k - Len(a)
      <4>1. j \in 1 .. n /\ j \in 1 .. Len(b) /\ r + Len(a) + j = r + k
        BY <1>0, <1>3, <3>2
      <4>2. c[k] = h[j]
        BY <1>0, <1>3, <3>2
      <4> HIDE DEF j
      <4> QED  BY <1>1, <2>2, <4>1, <4>2
    <3> QED  BY <1>0, <1>3, <3>1, <3>2
  <2>4. ASSUME NEW k \in 1 .. Len(d) PROVE S[r + Len(a) + n + k] = d[k]
    <3>1. n + k \in 1 .. Len(b) /\ r + Len(a) + (n + k) = r + Len(a) + n + k
      BY <1>0, <1>2
    <3>2. d[k] = b[n + k]
      BY <1>0, <1>2
    <3> QED  BY <2>2, <3>1, <3>2
  <2> QED  BY <2>3, <2>4 DEF At
<1> QED  BY <1>2, <1>3, <1>4 DEF h, c, d

(* A header has nine bytes, and read_frame reads from them what write_frame *)
(* was given.                                                               *)
LEMMA HeaderShape ==
  ASSUME NEW f \in Frames
  PROVE  /\ f.type \in Byte /\ f.payload \in Seq(Byte) /\ Len(f.payload) \in Nat
         /\ Header(f) \in Seq(Byte) /\ Len(Header(f)) = FRAME_HEADER_LEN
         /\ \A i \in 1 .. 4 : Header(f)[i] = FRAME_MAGIC[i]
         /\ Header(f)[5] = f.type
         /\ \A i \in 1 .. 4 : Header(f)[5 + i] = EncodeLength(Len(f.payload))[i]
<1>1. f.type \in Byte /\ f.payload \in Seq(Byte)
  BY FrameAssumption
<1> DEFINE n == Len(f.payload)
           e == EncodeLength(n)
           t == <<f.type>>
<1>2. n \in Nat
  BY <1>1
<1>3. e \in Seq(Byte) /\ Len(e) = 4
  <2>0. Radix \in Nat \ {0} /\ Radix * Radix \in Nat \ {0} /\ Radix * Radix * Radix \in Nat \ {0}
    BY FrameAssumption
  <2>1. \A x \in Nat : x % Radix \in Byte
    BY <2>0, DivisionLaw DEF Byte
  <2>2. n \div Radix \in Nat /\ n \div (Radix * Radix) \in Nat
        /\ n \div (Radix * Radix * Radix) \in Nat
    <3>1. \A m \in Nat \ {0} : n \div m \in Nat
      BY <1>2, DivisionLaw
    <3> QED  BY <2>0, <3>1
  <2> QED  BY <1>2, <2>1, <2>2 DEF EncodeLength
<1>4. FRAME_MAGIC \in Seq(Byte) /\ Len(FRAME_MAGIC) = 4
  BY FrameAssumption, BytesOf
<1>5. t \in Seq(Byte) /\ Len(t) = 1 /\ t[1] = f.type
  BY <1>1
<1> HIDE DEF e, t, n
<1> DEFINE m == FRAME_MAGIC \o t
<1>6. m \in Seq(Byte) /\ Len(m) = 5
      /\ \A i \in 1 .. 5 : m[i] = IF i <= 4 THEN FRAME_MAGIC[i] ELSE t[i - 4]
  <2>1. /\ m \in Seq(Byte) /\ Len(m) = Len(FRAME_MAGIC) + Len(t)
        /\ \A i \in 1 .. Len(FRAME_MAGIC) + Len(t) :
             m[i] = IF i <= Len(FRAME_MAGIC) THEN FRAME_MAGIC[i] ELSE t[i - Len(FRAME_MAGIC)]
    BY <1>4, <1>5, ConcatProperties
  <2> QED  BY <1>4, <1>5, <2>1
<1> HIDE DEF m
<1>7. (\A i \in 1 .. 4 : m[i] = FRAME_MAGIC[i]) /\ m[5] = f.type
  BY <1>5, <1>6
<1> DEFINE w == m \o e
<1>8. w \in Seq(Byte) /\ Len(w) = 9
      /\ \A i \in 1 .. 9 : w[i] = IF i <= 5 THEN m[i] ELSE e[i - 5]
  <2>1. /\ w \in Seq(Byte) /\ Len(w) = Len(m) + Len(e)
        /\ \A i \in 1 .. Len(m) + Len(e) : w[i] = IF i <= Len(m) THEN m[i] ELSE e[i - Len(m)]
    BY <1>3, <1>6, ConcatProperties
  <2> QED  BY <1>3, <1>6, <2>1
<1>9. Header(f) = w
  BY DEF Header, m, e, t, n
<1> HIDE DEF w
<1>10. (\A i \in 1 .. 4 : w[i] = FRAME_MAGIC[i]) /\ w[5] = f.type
       /\ \A i \in 1 .. 4 : w[5 + i] = e[i]
  <2>1. \A i \in 1 .. 4 : w[5 + i] = e[(5 + i) - 5]
    BY <1>8
  <2> QED  BY <1>7, <1>8, <2>1
<1> QED  BY <1>1, <1>2, <1>8, <1>9, <1>10 DEF FRAME_HEADER_LEN, e, n

(* From the nine bytes of a header the reader gets magic, type and length.  *)
LEMMA HeaderReads ==
  ASSUME NEW f \in Frames, Len(f.payload) <= MAX_FRAME_LEN,
         NEW h, \A k \in 1 .. 9 : h[k] = Header(f)[k]
  PROVE  MagicOK(h) /\ h[5] = f.type /\ DecodeLength(h) = Len(f.payload)
<1>1. MagicOK(h) /\ h[5] = f.type
  BY HeaderShape DEF MagicOK
<1>2. DecodeLength(h) = Len(f.payload)
  <2> DEFINE n == Len(f.payload)
             e == EncodeLength(n)
  <2>1. n \in 0 .. MAX_FRAME_LEN
    BY HeaderShape, FrameAssumption
  <2>2. \A i \in 1 .. 4 : h[5 + i] = e[i]
    BY HeaderShape
  <2> HIDE DEF e
  <2>3. h[6] = e[1] /\ h[7] = e[2] /\ h[8] = e[3] /\ h[9] = e[4]
    BY <2>2
  <2> HIDE DEF n
  <2>4. DecodeLength(h) = n
    BY <2>1, <2>3, LengthCodec DEF e
  <2> QED  BY <2>4 DEF n
<1> QED  BY <1>1, <1>2

-----------------------------------------------------------------------------
(* The invariant, action by action.                                         *)

(* The frames begun have their types.                                       *)
LEMMA BegunFrames ==
  ASSUME TypeOK
  PROVE  /\ Len(begun) \in Nat /\ Len(got) \in Nat /\ acked \in Nat
         /\ \A i \in 1 .. Len(begun) :
              /\ begun[i] \in Frames /\ begun[i].type \in Byte
              /\ begun[i].payload \in Seq(Byte) /\ Len(begun[i].payload) \in Nat
<1>1. begun \in Seq(Frames) /\ acked \in 0 .. Len(begun)
  BY DEF TypeOK
<1>2. Len(got) \in Nat
  BY DEF TypeOK
<1>3. \A i \in 1 .. Len(begun) : begun[i] \in Frames
  BY <1>1, ElementOfSeq
<1> QED  BY <1>1, <1>2, <1>3, HeaderShape

(* The places in the stream are numbers.                                    *)
LEMMA Places ==
  ASSUME TypeOK, ReaderInv, NEW E, NEW S, Layout(E, S)
  PROVE  /\ Base(E) \in Nat /\ Sent(E) \in Nat /\ Len(S) \in Nat
         /\ Len(buf) \in Nat /\ Len(wire) \in Nat /\ Len(out) \in Nat
         /\ \A i \in 0 .. Len(begun) : E[i] \in Nat
         /\ Sent(E) = Base(E) + Len(buf) + Len(wire)
<1>1. Len(buf) \in Nat /\ Len(wire) \in Nat /\ Len(out) \in Nat
  BY DEF TypeOK
<1>2. Len(S) \in Nat /\ \A i \in 0 .. Len(begun) : E[i] \in Nat
  BY DEF Layout
<1>3. Len(got) \in 0 .. Len(begun)
  BY BegunFrames DEF ReaderInv
<1>4. E[Len(got)] \in Nat
  BY <1>2, <1>3
<1>5. Base(E) \in Nat
  BY <1>4 DEF Base, FRAME_HEADER_LEN
<1>6. Sent(E) = Base(E) + Len(buf) + Len(wire)
  BY DEF Sent
<1>7. Sent(E) \in Nat
  BY <1>1, <1>5, <1>6
<1> QED  BY <1>1, <1>2, <1>5, <1>6, <1>7

(* What the invariant says of the reader does not look at the writer's      *)
(* calls, as long as they only add frames.                                  *)
LEMMA ReaderKept ==
  ASSUME ReaderInv, ErrorsTrue, UNCHANGED <<readerVars, begun, acked, junk>>,
         wpc \in {"junk", "closed"} => wpc' \in {"junk", "closed"}
  PROVE  ReaderInv' /\ ErrorsTrue'
<1>1. /\ rpc' = rpc /\ buf' = buf /\ type' = type /\ length' = length /\ rerr' = rerr
      /\ got' = got /\ begun' = begun /\ acked' = acked /\ junk' = junk
  BY DEF readerVars
<1>2. ReaderInv'
  BY <1>1 DEF ReaderInv
<1> QED  BY <1>1, <1>2 DEF ErrorsTrue

(* send() moves bytes from what is left to what is on the way.              *)
LEMMA SendStep ==
  ASSUME IInv, Send
  PROVE  IInv'
<1>1. PICK n \in 1 .. Len(out) :
        /\ Len(wire) + n <= SocketBuffer
        /\ wire' = wire \o SubSeq(out, 1, n)
        /\ out' = SubSeq(out, n + 1, Len(out))
  BY DEF Send
<1>2. /\ wpc' = wpc /\ begun' = begun /\ acked' = acked /\ refused' = refused
      /\ junk' = junk /\ rpc' = rpc /\ buf' = buf /\ type' = type /\ length' = length
      /\ rerr' = rerr /\ got' = got /\ faults' = faults
      /\ wpc \in {"header", "payload", "junk"} /\ rpc # "failed"
  BY DEF Send, readerVars
<1>3. wire \in Seq(Byte) /\ out \in Seq(Byte) /\ n \in 0 .. Len(out)
  BY DEF IInv, TypeOK
<1>4. /\ wire' \in Seq(Byte) /\ out' \in Seq(Byte)
      /\ Len(wire') = Len(wire) + n /\ Len(out') = Len(out) - n
      /\ \A S : \A r \in Nat :
           At(S, r, wire) /\ At(S, r + Len(wire), out) =>
             At(S, r, wire') /\ At(S, r + Len(wire) + n, out')
  BY <1>1, <1>3, HandOver
<1>5. TypeOK'
  BY <1>1, <1>2, <1>4 DEF IInv, TypeOK
<1>6. WriterInv'
  <2>1. Len(out') <= Len(out) /\ Len(out) \in Nat /\ Len(out') \in Nat
    BY <1>3, <1>4
  <2>2. wpc = "payload" => Len(begun[Len(begun)].payload) \in Nat
    <3>1. wpc = "payload" => Len(begun) \in 1 .. Len(begun)
      BY BegunFrames DEF IInv, WriterInv
    <3> QED  BY <3>1, BegunFrames DEF IInv
  <2> QED  BY <1>2, <2>1, <2>2 DEF IInv, WriterInv, FRAME_HEADER_LEN
<1>7. ReaderInv' /\ ErrorsTrue'
  BY <1>2, ReaderKept DEF IInv, readerVars
<1>8. StreamInv'
  <2>1. PICK E, S : Layout(E, S) /\ Flow(E, S)
    BY <1>2 DEF IInv, StreamInv
  <2>2. Layout(E, S)'
    BY <1>2, <2>1 DEF Layout
  <2>3. /\ Base(E) \in Nat /\ Len(buf) \in Nat /\ Len(wire) \in Nat /\ Len(out) \in Nat
        /\ Sent(E) = Base(E) + Len(buf) + Len(wire)
    BY <2>1, Places DEF IInv
  <2>4. Base(E)' = Base(E) /\ Sent(E)' = Sent(E) + n /\ Ahead' = Ahead
    <3>1. Base(E)' = Base(E) /\ Ahead' = Ahead
      BY <1>2 DEF Base, Ahead
    <3>2. Sent(E)' = Base(E)' + Len(buf') + Len(wire')
      BY DEF Sent
    <3> QED  BY <1>2, <1>4, <2>3, <3>1, <3>2
  <2>5. At(S, Base(E) + Len(buf), wire') /\ At(S, Sent(E) + n, out')
    <3>1. At(S, Base(E) + Len(buf), wire) /\ At(S, Base(E) + Len(buf) + Len(wire), out)
      BY <2>1, <2>3 DEF Flow
    <3>2. Base(E) + Len(buf) \in Nat
      BY <2>3
    <3> QED  BY <1>4, <2>3, <3>1, <3>2
  <2>6. Sent(E) + Len(out) + Ahead = Len(S)
    BY <1>2, <2>1 DEF Flow
  <2>7. Ahead \in Nat
    <3>1. wpc = "header" => Len(begun) \in 1 .. Len(begun)
      BY BegunFrames DEF IInv, WriterInv
    <3> QED  BY <3>1, BegunFrames DEF IInv, Ahead
  <2>8. /\ Sent(E)' <= Len(S) /\ Sent(E)' + Len(out') + Ahead' = Len(S)
    <3> DEFINE o == Len(out)
               w == Len(out')
    <3>1. o \in Nat /\ n \in Nat /\ n <= o /\ w = o - n /\ Sent(E) \in Nat
      BY <1>3, <1>4, <2>1, Places DEF IInv
    <3>2. Sent(E) + o + Ahead = Len(S) /\ Sent(E)' = Sent(E) + n /\ Ahead' = Ahead
      BY <2>4, <2>6
    <3> HIDE DEF o, w
    <3>3. Sent(E)' <= Len(S) /\ Sent(E)' + w + Ahead' = Len(S)
      BY <2>7, <3>1, <3>2
    <3> QED  BY <3>3 DEF w
  <2>9. Flow(E, S)'
    <3>1. At(S, Base(E), buf)
      BY <2>1 DEF Flow
    <3> QED  BY <1>2, <2>4, <2>5, <2>8, <3>1 DEF Flow
  <2> QED  BY <2>2, <2>9 DEF StreamInv
<1> QED  BY <1>5, <1>6, <1>7, <1>8 DEF IInv

(* The frame write_frame is at work on.                                     *)
LEMMA LastBegun ==
  ASSUME IInv, wpc \in {"header", "payload"}
  PROVE  /\ Len(begun) \in 1 .. Len(begun) /\ acked = Len(begun) - 1
         /\ begun[Len(begun)].payload \in Seq(Byte)
         /\ Len(begun[Len(begun)].payload) \in Nat
<1>1. Len(begun) \in 1 .. Len(begun) /\ acked = Len(begun) - 1
  BY BegunFrames DEF IInv, WriterInv
<1> QED  BY <1>1, BegunFrames DEF IInv

(* The end of one write_all: what it sent is all of the stream that the     *)
(* calls so far stand for, but for what the next write_all has to send.     *)
LEMMA HeaderSentStep ==
  ASSUME IInv, HeaderSent
  PROVE  IInv'
<1> DEFINE f == begun[Len(begun)]
<1>1. /\ wpc = "header" /\ out = <<>> /\ begun' = begun /\ refused' = refused
      /\ junk' = junk /\ wire' = wire /\ rpc' = rpc /\ buf' = buf /\ type' = type
      /\ length' = length /\ rerr' = rerr /\ got' = got /\ faults' = faults
  BY DEF HeaderSent, readerVars
<1>2. \/ f.payload # <<>> /\ wpc' = "payload" /\ out' = f.payload /\ acked' = acked
      \/ f.payload = <<>> /\ wpc' = "idle" /\ out' = <<>> /\ acked' = acked + 1
  BY DEF HeaderSent
<1>3. /\ Len(begun) \in 1 .. Len(begun) /\ acked = Len(begun) - 1
      /\ f.payload \in Seq(Byte) /\ Len(f.payload) \in Nat
  BY <1>1, LastBegun
<1>4. junk = <<>> /\ rerr \notin {"BAD_MAGIC", "OVERSIZE", "SHORT_READ"}
  BY <1>1 DEF IInv, WriterInv, ReaderInv
<1> HIDE DEF f
<1>5. TypeOK'
  <2>1. out' \in Seq(Byte) /\ acked' \in 0 .. Len(begun)
    BY <1>2, <1>3, EmptySeq
  <2> QED  BY <1>1, <1>2, <2>1 DEF IInv, TypeOK
<1>6. WriterInv'
  <2>1. wpc' = "idle" => acked' = Len(begun) /\ out' = <<>>
    BY <1>2, <1>3
  <2>2. wpc' = "payload" => acked' + 1 = Len(begun) /\ Len(out') <= Len(begun[Len(begun)].payload)
    BY <1>2, <1>3 DEF f
  <2> QED  BY <1>1, <1>2, <1>4, <2>1, <2>2 DEF IInv, WriterInv
<1>7. ReaderInv' /\ ErrorsTrue'
  BY <1>1, <1>4 DEF IInv, ReaderInv, ErrorsTrue
<1>8. rpc # "failed" => StreamInv'
  <2> SUFFICES ASSUME rpc # "failed" PROVE StreamInv'
    OBVIOUS
  <2>1. PICK E, S : Layout(E, S) /\ Flow(E, S)
    BY DEF IInv, StreamInv
  <2>2. Layout(E, S)'
    BY <1>1, <2>1 DEF Layout
  <2>3. /\ Base(E) \in Nat /\ Sent(E) \in Nat /\ Len(S) \in Nat
        /\ \A i \in 0 .. Len(begun) : E[i] \in Nat
    BY <2>1, Places DEF IInv
  <2>4. Base(E)' = Base(E) /\ Sent(E)' = Sent(E)
    BY <1>1 DEF Base, Sent
  <2>5. Sent(E) + Len(f.payload) = Len(S)
    <3>1. Sent(E) + Len(out) + Ahead = Len(S) /\ Ahead = Len(f.payload) /\ Len(out) = 0
      BY <1>1, <2>1, EmptySeq DEF Flow, Ahead, f
    <3> QED  BY <1>3, <2>3, <3>1
  <2>6. Len(S) = E[Len(begun)]
    BY <1>4, <2>1, <2>3, <1>3, EmptySeq DEF Layout
  <2>7. /\ E[Len(begun)] = E[Len(begun) - 1] + FRAME_HEADER_LEN + Len(f.payload)
        /\ At(S, E[Len(begun) - 1] + FRAME_HEADER_LEN, f.payload)
    BY <1>3, <2>1 DEF Layout, f
  <2>8. E[Len(begun) - 1] \in Nat
    BY <1>3, <2>3
  <2>9. Sent(E) = E[Len(begun) - 1] + FRAME_HEADER_LEN
    <3> DEFINE x == E[Len(begun) - 1]
               y == E[Len(begun)]
               l == Len(f.payload)
    <3>1. x \in Nat /\ l \in Nat /\ y = x + 9 + l /\ Sent(E) + l = y /\ Sent(E) \in Nat
      BY <1>3, <2>3, <2>5, <2>6, <2>7, <2>8 DEF FRAME_HEADER_LEN
    <3> HIDE DEF x, y, l
    <3>2. Sent(E) = x + 9
      BY <3>1
    <3> QED  BY <3>2 DEF x, FRAME_HEADER_LEN
  <2>10. At(S, Sent(E), out') /\ Sent(E) + Len(out') = Len(S)
    <3>1. CASE out' = f.payload
      BY <2>5, <2>7, <2>9, <3>1
    <3>2. CASE f.payload = <<>> /\ out' = <<>>
      BY <2>3, <2>5, <3>2, AtNothing, EmptySeq
    <3> QED  BY <1>2, <3>1, <3>2
  <2>11. wpc' \notin {"closed", "header"} /\ Len(out') \in Nat
    BY <1>2, <1>3, EmptySeq
  <2>12. Ahead' = 0 /\ Sent(E) + Len(out') + 0 = Len(S) /\ Sent(E) <= Len(S)
    BY <2>3, <2>10, <2>11 DEF Ahead
  <2>13. At(S, Base(E), buf) /\ At(S, Base(E) + Len(buf), wire)
    BY <2>1 DEF Flow
  <2>14. Flow(E, S)'
    BY <1>1, <2>4, <2>10, <2>11, <2>12, <2>13 DEF Flow
  <2> QED  BY <2>2, <2>14 DEF StreamInv
<1> QED  BY <1>1, <1>5, <1>6, <1>7, <1>8 DEF IInv

(* write_frame returns success: its frame is sent to the last byte.         *)
LEMMA PayloadSentStep ==
  ASSUME IInv, PayloadSent
  PROVE  IInv'
<1>1. /\ wpc = "payload" /\ wpc' = "idle" /\ out = <<>> /\ out' = <<>> /\ begun' = begun
      /\ refused' = refused /\ acked' = acked + 1
      /\ junk' = junk /\ wire' = wire /\ rpc' = rpc /\ buf' = buf /\ type' = type
      /\ length' = length /\ rerr' = rerr /\ got' = got /\ faults' = faults
  BY DEF PayloadSent, readerVars
<1>2. Len(begun) \in 1 .. Len(begun) /\ acked = Len(begun) - 1 /\ acked' = Len(begun)
  BY <1>1, LastBegun
<1>3. junk = <<>> /\ rerr \notin {"BAD_MAGIC", "OVERSIZE", "SHORT_READ"}
  BY <1>1 DEF IInv, WriterInv, ReaderInv
<1>4. TypeOK'
  BY <1>1, <1>2 DEF IInv, TypeOK
<1>5. WriterInv'
  BY <1>1, <1>2, <1>3 DEF IInv, WriterInv
<1>6. ReaderInv' /\ ErrorsTrue'
  BY <1>1, <1>3 DEF IInv, ReaderInv, ErrorsTrue
<1>7. rpc # "failed" => StreamInv'
  <2> SUFFICES ASSUME rpc # "failed" PROVE StreamInv'
    OBVIOUS
  <2>1. PICK E, S : Layout(E, S) /\ Flow(E, S)
    BY DEF IInv, StreamInv
  <2>2. Layout(E, S)'
    BY <1>1, <2>1 DEF Layout
  <2>3. Base(E)' = Base(E) /\ Sent(E)' = Sent(E) /\ Ahead' = Ahead
    BY <1>1 DEF Base, Sent, Ahead
  <2>4. Flow(E, S)'
    BY <1>1, <2>1, <2>3 DEF Flow
  <2> QED  BY <2>2, <2>4 DEF StreamInv
<1> QED  BY <1>1, <1>4, <1>5, <1>6, <1>7 DEF IInv

(* The connection closes, after a whole frame, after junk or in the middle  *)
(* of either: the bytes sent end behind the frames acknowledged, and before *)
(* the end of the one that was under way.                                   *)
LEMMA ClosingStep ==
  ASSUME IInv, wpc # "closed", wpc' = "closed", out' = <<>>,
         UNCHANGED <<begun, acked, refused, junk, wire, readerVars>>,
         faults' \in 0 .. MaxFaults,
         wpc \in {"header", "payload"} => out # <<>>
  PROVE  IInv'
<1>1. /\ begun' = begun /\ acked' = acked /\ refused' = refused
      /\ junk' = junk /\ wire' = wire /\ rpc' = rpc /\ buf' = buf /\ type' = type
      /\ length' = length /\ rerr' = rerr /\ got' = got
  BY DEF readerVars
<1>2. TypeOK'
  <2>1. out' \in Seq(Byte)
    BY EmptySeq
  <2> QED  BY <1>1, <2>1 DEF IInv, TypeOK
<1>3. WriterInv'
  BY <1>1 DEF IInv, WriterInv
<1>4. ReaderInv' /\ ErrorsTrue'
  BY ReaderKept DEF IInv
<1>5. rpc # "failed" => StreamInv'
  <2> SUFFICES ASSUME rpc # "failed" PROVE StreamInv'
    OBVIOUS
  <2>1. PICK E, S : Layout(E, S) /\ Flow(E, S)
    BY DEF IInv, StreamInv
  <2>2. Layout(E, S)'
    BY <1>1, <2>1 DEF Layout
  <2>3. /\ Base(E) \in Nat /\ Sent(E) \in Nat /\ Len(S) \in Nat /\ Len(out) \in Nat
        /\ \A i \in 0 .. Len(begun) : E[i] \in Nat
    BY <2>1, Places DEF IInv
  <2>4. Base(E)' = Base(E) /\ Sent(E)' = Sent(E)
    BY <1>1 DEF Base, Sent
  <2>5. Sent(E) + Len(out) + Ahead = Len(S) /\ Len(S) = E[Len(begun)] + Len(junk)
    BY <2>1 DEF Flow, Layout
  <2>6. E[acked] <= Sent(E) /\ (acked < Len(begun) => Sent(E) < E[acked + 1])
    <3>1. CASE wpc \in {"header", "payload"}
      <4> DEFINE f == begun[Len(begun)]
      <4>1. /\ Len(begun) \in 1 .. Len(begun) /\ acked = Len(begun) - 1
            /\ Len(f.payload) \in Nat
        BY <3>1, LastBegun
      <4>2. Len(junk) = 0
        BY <3>1, EmptySeq DEF IInv, WriterInv
      <4>3. E[Len(begun)] = E[Len(begun) - 1] + FRAME_HEADER_LEN + Len(f.payload)
        BY <2>1, <4>1 DEF Layout
      <4>4. Len(out) >= 1
        BY <3>1, EmptySeq DEF IInv, TypeOK
      <4>5. /\ wpc = "header" => Len(out) <= FRAME_HEADER_LEN /\ Ahead = Len(f.payload)
            /\ wpc = "payload" => Len(out) <= Len(f.payload) /\ Ahead = 0
        BY DEF IInv, WriterInv, Ahead
      <4> HIDE DEF f
      <4>6. E[acked] \in Nat /\ E[Len(begun)] \in Nat /\ acked + 1 = Len(begun)
            /\ E[Len(begun)] = E[acked] + FRAME_HEADER_LEN + Len(f.payload)
        BY <2>3, <4>1, <4>3
      <4>7. Sent(E) + Len(out) + Ahead = E[acked] + FRAME_HEADER_LEN + Len(f.payload)
        BY <2>3, <2>5, <4>2, <4>6
      <4>8. E[acked] <= Sent(E) /\ Sent(E) < E[Len(begun)]
        <5> DEFINE x == E[acked]
                   y == E[Len(begun)]
                   l == Len(f.payload)
                   o == Len(out)
        <5>1. x \in Nat /\ y \in Nat /\ l \in Nat /\ o \in Nat /\ o >= 1 /\ Sent(E) \in Nat
              /\ y = x + 9 + l /\ Sent(E) + o + Ahead = x + 9 + l
          BY <2>3, <4>1, <4>4, <4>6, <4>7 DEF FRAME_HEADER_LEN
        <5>2. (o <= 9 /\ Ahead = l) \/ (o <= l /\ Ahead = 0)
          BY <3>1, <4>5 DEF FRAME_HEADER_LEN
        <5> HIDE DEF x, y, l, o
        <5>3. x <= Sent(E) /\ Sent(E) < y
          BY <5>1, <5>2
        <5> QED  BY <5>3 DEF x, y
      <4>9. E[acked + 1] = E[Len(begun)]
        BY <4>6
      <4> QED  BY <4>8, <4>9
    <3>2. CASE wpc \in {"idle", "junk"}
      <4>1. acked = Len(begun) /\ Ahead = 0 /\ Len(begun) \in 0 .. Len(begun)
        BY <3>2, BegunFrames DEF IInv, WriterInv, Ahead
      <4>2. Len(out) <= Len(junk) /\ Len(junk) \in Nat
        <5>1. CASE wpc = "idle"
          BY <5>1, EmptySeq DEF IInv, WriterInv
        <5>2. CASE wpc = "junk"
          <6>1. junk \in Junk
            BY <5>2 DEF IInv, WriterInv, TypeOK
          <6>2. Len(junk) = 9
            BY <6>1, FrameAssumption, BytesOf
          <6> QED  BY <5>2, <6>2 DEF IInv, WriterInv, FRAME_HEADER_LEN
        <5> QED  BY <3>2, <5>1, <5>2
      <4>3. E[acked] \in Nat
        BY <2>3, <4>1
      <4> QED  BY <2>3, <2>5, <4>1, <4>2, <4>3
    <3> QED  BY <3>1, <3>2 DEF IInv, TypeOK
  <2>7. At(S, Sent(E), out')
    BY AtNothing
  <2>8. At(S, Base(E), buf) /\ At(S, Base(E) + Len(buf), wire) /\ Sent(E) <= Len(S)
    BY <2>1 DEF Flow
  <2>9. Flow(E, S)'
    BY <1>1, <2>4, <2>6, <2>7, <2>8 DEF Flow
  <2> QED  BY <2>2, <2>9 DEF StreamInv
<1> QED  BY <1>1, <1>2, <1>3, <1>4, <1>5 DEF IInv

(* write_frame takes up a frame: the stream grows by its header and its     *)
(* payload, of which write_all has the header.                              *)
LEMMA WriteFrameStep ==
  ASSUME IInv, WriteFrame
  PROVE  IInv'
<1>1. /\ wpc = "idle" /\ acked' = acked
      /\ junk' = junk /\ wire' = wire /\ rpc' = rpc /\ buf' = buf /\ type' = type
      /\ length' = length /\ rerr' = rerr /\ got' = got /\ faults' = faults
  BY DEF WriteFrame, readerVars
<1>2. CASE UNCHANGED <<wpc, out, begun>> /\ refused' = TRUE
  <2>1. TypeOK' /\ WriterInv'
    BY <1>1, <1>2 DEF IInv, TypeOK, WriterInv
  <2>2. ReaderInv' /\ ErrorsTrue'
    BY <1>1, <1>2 DEF IInv, ReaderInv, ErrorsTrue
  <2>3. rpc # "failed" => StreamInv'
    <3> SUFFICES ASSUME rpc # "failed" PROVE StreamInv'
      OBVIOUS
    <3>1. PICK E, S : Layout(E, S) /\ Flow(E, S)
      BY DEF IInv, StreamInv
    <3>2. Layout(E, S)'
      BY <1>1, <1>2, <3>1 DEF Layout
    <3>3. Base(E)' = Base(E) /\ Sent(E)' = Sent(E) /\ Ahead' = Ahead
      BY <1>1, <1>2 DEF Base, Sent, Ahead
    <3>4. Flow(E, S)'
      BY <1>1, <1>2, <3>1, <3>3 DEF Flow
    <3> QED  BY <3>2, <3>4 DEF StreamInv
  <2> QED  BY <1>1, <2>1, <2>2, <2>3 DEF IInv
<1>3. ASSUME NEW f \in Frames, ~Oversize(Len(f.payload)), wpc' = "header",
             out' = Header(f), begun' = Append(begun, f), refused' = FALSE
      PROVE  IInv'
  <2> DEFINE n == Len(begun)
  <2>1. begun \in Seq(Frames) /\ n \in Nat /\ acked = n /\ junk = <<>> /\ out = <<>>
        /\ Len(got) \in Nat /\ Len(got) <= n
    BY <1>1, BegunFrames DEF IInv, TypeOK, WriterInv, ReaderInv
  <2>2. /\ begun' \in Seq(Frames) /\ Len(begun') = n + 1 /\ begun'[n + 1] = f
        /\ \A i \in 1 .. n : begun'[i] = begun[i]
    BY <1>3, <2>1
  <2>3. /\ f.payload \in Seq(Byte) /\ Len(f.payload) \in Nat
        /\ Header(f) \in Seq(Byte) /\ Len(Header(f)) = FRAME_HEADER_LEN
    BY HeaderShape
  <2>4. Len(f.payload) <= MAX_FRAME_LEN
    BY <1>3, <2>3, FrameAssumption DEF Oversize
  <2>5. \A i \in 1 .. n + 1 : i \in 1 .. n \/ i = n + 1
    BY <2>1
  <2>6. rerr \notin {"BAD_MAGIC", "OVERSIZE", "SHORT_READ"}
    BY <1>1 DEF IInv, ReaderInv
  <2>7. TypeOK'
    <3>1. acked \in 0 .. n + 1
      BY <2>1
    <3> QED  BY <1>1, <1>3, <2>2, <2>3, <3>1 DEF IInv, TypeOK
  <2>8. WriterInv'
    <3>1. \A i \in 1 .. n + 1 : Len(begun'[i].payload) <= MAX_FRAME_LEN
      BY <2>2, <2>4, <2>5 DEF IInv, WriterInv
    <3> QED  BY <1>1, <1>3, <2>1, <2>2, <2>3, <3>1 DEF WriterInv, FRAME_HEADER_LEN
  <2>9. ReaderInv' /\ ErrorsTrue'
    <3>1. \A i \in 1 .. Len(got) : got[i] = begun'[i]
      <4>1. \A i \in 1 .. Len(got) : i \in 1 .. n /\ got[i] = begun[i]
        BY <2>1 DEF IInv, ReaderInv
      <4> QED  BY <2>2, <4>1
    <3>2. Len(got) <= n + 1
      BY <2>1
    <3>3. rpc = "body" => /\ Len(got) < n + 1
                          /\ type = begun'[Len(got) + 1].type
                          /\ length = Len(begun'[Len(got) + 1].payload)
      <4> SUFFICES ASSUME rpc = "body"
                   PROVE  /\ Len(got) < n + 1
                          /\ type = begun'[Len(got) + 1].type
                          /\ length = Len(begun'[Len(got) + 1].payload)
        OBVIOUS
      <4>1. /\ Len(got) < n /\ type = begun[Len(got) + 1].type
            /\ length = Len(begun[Len(got) + 1].payload)
        BY DEF IInv, ReaderInv
      <4>2. Len(got) + 1 \in 1 .. n
        BY <2>1, <4>1
      <4>3. begun'[Len(got) + 1] = begun[Len(got) + 1]
        BY <2>2, <4>2
      <4> QED  BY <2>1, <4>1, <4>3
    <3>4. ReaderInv'
      BY <1>1, <2>2, <2>6, <3>1, <3>2, <3>3 DEF IInv, ReaderInv
    <3> QED  BY <1>1, <2>6, <3>4 DEF ErrorsTrue
  <2>10. rpc # "failed" => StreamInv'
    <3> SUFFICES ASSUME rpc # "failed" PROVE StreamInv'
      OBVIOUS
    <3>1. PICK E, S : Layout(E, S) /\ Flow(E, S)
      BY DEF IInv, StreamInv
    <3> DEFINE h == Header(f)
               p == f.payload
               G == S \o h
               T == G \o p
    <3>2. /\ Base(E) \in Nat /\ Sent(E) \in Nat /\ Len(S) \in Nat /\ Len(buf) \in Nat
          /\ Len(wire) \in Nat /\ \A i \in 0 .. n : E[i] \in Nat
          /\ Sent(E) = Base(E) + Len(buf) + Len(wire)
      BY <3>1, Places DEF IInv
    <3>3. S \in Seq(Byte) /\ Len(S) = E[n] /\ E[n] \in Nat
      BY <2>1, <3>1, <3>2, EmptySeq DEF Layout
    <3>4. Sent(E) = Len(S)
      <4>1. Sent(E) + Len(out) + Ahead = Len(S) /\ Ahead = 0 /\ Len(out) = 0
        BY <1>1, <2>1, <3>1, EmptySeq DEF Flow, Ahead
      <4> QED  BY <3>2, <4>1
    <3>5. G \in Seq(Byte) /\ Len(G) = Len(S) + FRAME_HEADER_LEN
      BY <2>3, <3>3, ConcatProperties
    <3>6. T \in Seq(Byte) /\ Len(T) = Len(S) + FRAME_HEADER_LEN + Len(p)
      <4> HIDE DEF G
      <4>1. T \in Seq(Byte) /\ Len(T) = Len(G) + Len(p)
        <5>1. G \in Seq(Byte) /\ p \in Seq(Byte)
          BY <2>3, <3>5
        <5> QED  BY <5>1, ConcatProperties
      <4> QED  BY <3>5, <4>1
    <3>7. ASSUME NEW r \in Nat, NEW s \in Seq(Byte), r + Len(s) <= Len(S), At(S, r, s)
          PROVE  At(T, r, s)
      <4>1. At(G, r, s)
        BY <2>3, <3>3, <3>7, AtGrow
      <4>2. r + Len(s) <= Len(G)
        BY <3>3, <3>5, <3>7 DEF FRAME_HEADER_LEN
      <4> HIDE DEF G
      <4> QED  BY <2>3, <3>5, <4>1, <4>2, AtGrow
    <3>8. At(T, E[n], h) /\ At(T, E[n] + FRAME_HEADER_LEN, p)
      <4>1. At(G, Len(S), h) /\ Len(S) + Len(h) <= Len(G)
        BY <2>3, <3>3, <3>5, AtEnd
      <4> HIDE DEF G
      <4>2. At(T, Len(S), h)
        BY <2>3, <3>3, <3>5, <4>1, AtGrow
      <4>3. At(T, Len(G), p)
        BY <2>3, <3>5, AtEnd
      <4> QED  BY <3>3, <3>5, <4>2, <4>3
    <3> HIDE DEF T, G
    <3>9. PICK F : /\ F \in [0 .. n + 1 -> Nat]
                   /\ \A i \in 0 .. n : F[i] = E[i]
                   /\ F[n + 1] = E[n] + FRAME_HEADER_LEN + Len(p)
      <4> DEFINE F == [i \in 0 .. n + 1 |-> IF i <= n THEN E[i]
                                            ELSE E[n] + FRAME_HEADER_LEN + Len(p)]
      <4>1. E[n] + FRAME_HEADER_LEN + Len(p) \in Nat
        BY <2>3, <3>3 DEF FRAME_HEADER_LEN
      <4>2. \A i \in 0 .. n + 1 :
              (IF i <= n THEN E[i] ELSE E[n] + FRAME_HEADER_LEN + Len(p)) \in Nat
        BY <2>1, <3>2, <4>1
      <4>3. n + 1 \in 0 .. n + 1 /\ ~(n + 1 <= n)
            /\ \A i \in 0 .. n : i \in 0 .. n + 1 /\ i <= n
        BY <2>1
      <4> HIDE DEF n
      <4>4. /\ F \in [0 .. n + 1 -> Nat]
            /\ \A i \in 0 .. n : F[i] = E[i]
            /\ F[n + 1] = E[n] + FRAME_HEADER_LEN + Len(p)
        BY <4>2, <4>3
      <4> HIDE DEF F
      <4> QED  BY <4>4
    <3>10. \A i, j \in 0 .. n : i <= j => E[i] <= E[j]
      BY <3>1 DEF Layout
    <3>11. Layout(F, T)'
      <4>1. F[0] = 0
        BY <2>1, <3>1, <3>9 DEF Layout
      <4>2. \A i, j \in 0 .. n + 1 : i <= j => F[i] <= F[j]
        <5> SUFFICES ASSUME NEW i \in 0 .. n + 1, NEW j \in 0 .. n + 1, i <= j
                     PROVE  F[i] <= F[j]
          OBVIOUS
        <5>1. CASE j \in 0 .. n
          <6>1. i \in 0 .. n
            BY <2>1, <5>1
          <6> QED  BY <3>9, <3>10, <5>1, <6>1
        <5>2. CASE i \in 0 .. n /\ j = n + 1
          <6>1. E[i] <= E[n] /\ E[i] \in Nat
            BY <2>1, <3>2, <3>10, <5>2
          <6> QED  BY <2>3, <3>3, <3>9, <5>2, <6>1 DEF FRAME_HEADER_LEN
        <5>3. CASE i = n + 1 /\ j = n + 1
          BY <3>3, <2>3, <3>9, <5>3 DEF FRAME_HEADER_LEN
        <5> QED  BY <2>1, <5>1, <5>2, <5>3
      <4>3. ASSUME NEW i \in 1 .. n + 1
            PROVE  /\ F[i] = F[i - 1] + FRAME_HEADER_LEN + Len(begun'[i].payload)
                   /\ At(T, F[i - 1], Header(begun'[i]))
                   /\ At(T, F[i - 1] + FRAME_HEADER_LEN, begun'[i].payload)
        <5>1. CASE i = n + 1
          <6>1. i - 1 = n /\ F[i - 1] = E[n] /\ begun'[i] = f
            BY <2>1, <2>2, <3>9, <5>1
          <6> QED  BY <3>8, <3>9, <5>1, <6>1
        <5>2. CASE i \in 1 .. n
          <6> DEFINE g == begun[i]
          <6>1. /\ i \in 0 .. n /\ i - 1 \in 0 .. n /\ F[i] = E[i] /\ F[i - 1] = E[i - 1]
                /\ begun'[i] = g
            BY <2>1, <2>2, <3>9, <5>2
          <6>2. /\ E[i] = E[i - 1] + FRAME_HEADER_LEN + Len(g.payload)
                /\ At(S, E[i - 1], Header(g))
                /\ At(S, E[i - 1] + FRAME_HEADER_LEN, g.payload)
            BY <3>1, <5>2 DEF Layout
          <6>3. g \in Frames
            BY <5>2, BegunFrames DEF IInv
          <6> HIDE DEF g
          <6>4. /\ g.payload \in Seq(Byte) /\ Len(g.payload) \in Nat
                /\ Header(g) \in Seq(Byte) /\ Len(Header(g)) = FRAME_HEADER_LEN
            BY <6>3, HeaderShape
          <6>5. E[i] <= Len(S) /\ E[i] \in Nat /\ E[i - 1] \in Nat
            <7>1. n \in 0 .. n /\ i <= n
              BY <2>1, <5>2
            <7> QED  BY <3>2, <3>3, <3>10, <6>1, <7>1
          <6>6. /\ E[i - 1] + FRAME_HEADER_LEN \in Nat
                /\ E[i - 1] + FRAME_HEADER_LEN <= Len(S)
                /\ E[i - 1] + FRAME_HEADER_LEN + Len(g.payload) <= Len(S)
            <7> DEFINE x == E[i - 1]
                       y == E[i]
                       l == Len(g.payload)
            <7>1. x \in Nat /\ y \in Nat /\ l \in Nat /\ y = x + 9 + l /\ y <= Len(S)
              BY <6>2, <6>4, <6>5 DEF FRAME_HEADER_LEN
            <7> HIDE DEF x, y, l
            <7>2. x + 9 \in Nat /\ x + 9 <= Len(S) /\ x + 9 + l <= Len(S)
              BY <3>2, <7>1
            <7> QED  BY <7>2 DEF x, l, FRAME_HEADER_LEN
          <6>7. At(T, E[i - 1], Header(g))
            BY <3>7, <6>2, <6>4, <6>5, <6>6
          <6>8. At(T, E[i - 1] + FRAME_HEADER_LEN, g.payload)
            BY <3>7, <6>2, <6>4, <6>6
          <6> QED  BY <6>1, <6>2, <6>7, <6>8
        <5> QED  BY <2>5, <5>1, <5>2
      <4>4. Len(T) = F[n + 1] + Len(junk) /\ At(T, F[n + 1], junk)
        <5>1. At(T, F[n + 1], junk)
          BY <2>1, AtNothing
        <5>2. Len(junk) = 0
          BY <2>1, EmptySeq
        <5> QED  BY <2>3, <3>3, <3>6, <3>9, <5>1, <5>2 DEF FRAME_HEADER_LEN
      <4>5. Len(begun') = n + 1 /\ junk' = junk
        BY <1>1, <2>2
      <4> HIDE DEF n
      <4> QED  BY <3>6, <3>9, <4>1, <4>2, <4>3, <4>4, <4>5 DEF Layout
    <3>12. Flow(F, T)'
      <4>1. Base(F)' = Base(E) /\ Sent(F)' = Sent(E)
        <5>1. F[Len(got)] = E[Len(got)]
          BY <2>1, <3>9
        <5>2. Base(F)' = Base(E)
          BY <1>1, <5>1 DEF Base
        <5>3. Sent(F)' = Base(F)' + Len(buf') + Len(wire')
          BY DEF Sent
        <5> QED  BY <1>1, <3>2, <5>2, <5>3
      <4>2. buf \in Seq(Byte) /\ wire \in Seq(Byte)
        BY DEF IInv, TypeOK
      <4>3. At(S, Base(E), buf) /\ At(S, Base(E) + Len(buf), wire)
        BY <3>1 DEF Flow
      <4>4. At(T, Base(E), buf)
        BY <3>2, <3>4, <3>7, <4>2, <4>3
      <4>5. At(T, Base(E) + Len(buf), wire)
        <5>1. Base(E) + Len(buf) \in Nat /\ Base(E) + Len(buf) + Len(wire) <= Len(S)
          BY <3>2, <3>4
        <5> QED  BY <3>7, <4>2, <4>3, <5>1
      <4>6. At(T, Sent(E), out')
        BY <1>3, <3>3, <3>4, <3>8
      <4>7. Ahead' = Len(p)
        BY <1>3, <2>1, <2>2 DEF Ahead
      <4>8. Len(out') = FRAME_HEADER_LEN
        BY <1>3, <2>3
      <4>9. Sent(E) <= Len(T) /\ Sent(E) + Len(out') + Ahead' = Len(T)
        <5> DEFINE l == Len(p)
        <5>1. l \in Nat /\ Len(T) = Len(S) + 9 + l /\ Ahead' = l /\ Len(out') = 9
          BY <2>3, <3>6, <4>7, <4>8 DEF FRAME_HEADER_LEN
        <5> HIDE DEF l
        <5>2. Sent(E) \in Nat /\ Len(T) = Sent(E) + 9 + l
          BY <3>2, <3>4, <5>1
        <5>3. Sent(E) <= Len(T) /\ Sent(E) + 9 + l = Len(T)
          BY <5>1, <5>2
        <5> QED  BY <5>1, <5>3
      <4> QED  BY <1>1, <1>3, <4>1, <4>4, <4>5, <4>6, <4>9 DEF Flow
    <3> QED  BY <3>11, <3>12 DEF StreamInv
  <2> QED  BY <1>1, <2>7, <2>8, <2>9, <2>10 DEF IInv
<1> QED  BY <1>2, <1>3 DEF WriteFrame

(* Another program's bytes come after the frames, and are all there is left *)
(* to send.                                                                 *)
LEMMA SendJunkStep ==
  ASSUME IInv, SendJunk
  PROVE  IInv'
<1>1. /\ wpc = "idle" /\ wpc' = "junk" /\ acked' = acked /\ begun' = begun
      /\ refused' = refused /\ wire' = wire /\ rpc' = rpc /\ buf' = buf /\ type' = type
      /\ length' = length /\ rerr' = rerr /\ got' = got /\ faults' = faults
      /\ junk = <<>>
  BY DEF SendJunk, readerVars
<1>2. PICK h \in Junk : junk' = h /\ out' = h
  BY DEF SendJunk
<1>3. h \in Seq(Byte) /\ Len(h) = 9
  BY FrameAssumption, BytesOf
<1>4. acked = Len(begun) /\ out = <<>> /\ rerr \notin {"BAD_MAGIC", "OVERSIZE", "SHORT_READ"}
  BY <1>1 DEF IInv, WriterInv, ReaderInv
<1>5. h # <<>>
  <2>1. Len(h) = 9
    BY <1>3
  <2>2. Len(<<>>) = 0
    OBVIOUS
  <2>3. Len(h) # Len(<<>>)
    BY <2>1, <2>2
  <2> QED  BY <2>3, Zenon
<1>6. TypeOK'
  BY <1>1, <1>2, <1>3 DEF IInv, TypeOK
<1>7. WriterInv'
  BY <1>1, <1>2, <1>3, <1>4, <1>5 DEF IInv, WriterInv, FRAME_HEADER_LEN
<1>8. ReaderInv' /\ ErrorsTrue'
  BY <1>1, <1>4 DEF IInv, ReaderInv, ErrorsTrue
<1>9. rpc # "failed" => StreamInv'
  <2> SUFFICES ASSUME rpc # "failed" PROVE StreamInv'
    OBVIOUS
  <2>1. PICK E, S : Layout(E, S) /\ Flow(E, S)
    BY DEF IInv, StreamInv
  <2> DEFINE T == S \o h
  <2>2. /\ Base(E) \in Nat /\ Sent(E) \in Nat /\ Len(S) \in Nat /\ Len(buf) \in Nat
        /\ Len(wire) \in Nat /\ \A i \in 0 .. Len(begun) : E[i] \in Nat
        /\ Sent(E) = Base(E) + Len(buf) + Len(wire)
    BY <2>1, Places DEF IInv
  <2>3. S \in Seq(Byte) /\ Len(S) = E[Len(begun)] /\ E[Len(begun)] \in Nat
    <3>1. Len(begun) \in 0 .. Len(begun)
      BY BegunFrames DEF IInv
    <3> QED  BY <1>1, <2>1, <2>2, <3>1, EmptySeq DEF Layout
  <2>4. Sent(E) = Len(S)
    <3>1. Sent(E) + Len(out) + Ahead = Len(S) /\ Ahead = 0 /\ Len(out) = 0
      BY <1>1, <1>4, <2>1, EmptySeq DEF Flow, Ahead
    <3> QED  BY <2>2, <3>1
  <2>5. T \in Seq(Byte) /\ Len(T) = Len(S) + Len(h) /\ At(T, Len(S), h)
    BY <1>3, <2>3, ConcatProperties, AtEnd
  <2>6. ASSUME NEW r \in Nat, NEW s \in Seq(Byte), r + Len(s) <= Len(S), At(S, r, s)
        PROVE  At(T, r, s)
    BY <1>3, <2>3, <2>6, AtGrow
  <2> HIDE DEF T
  <2>7. Layout(E, T)'
    <3>1. ASSUME NEW i \in 1 .. Len(begun)
          PROVE  /\ E[i] = E[i - 1] + FRAME_HEADER_LEN + Len(begun[i].payload)
                 /\ At(T, E[i - 1], Header(begun[i]))
                 /\ At(T, E[i - 1] + FRAME_HEADER_LEN, begun[i].payload)
      <4> DEFINE g == begun[i]
                 x == E[i - 1]
                 y == E[i]
                 l == Len(g.payload)
      <4>1. /\ y = x + FRAME_HEADER_LEN + l
            /\ At(S, x, Header(g)) /\ At(S, x + FRAME_HEADER_LEN, g.payload)
        BY <2>1 DEF Layout
      <4>2. g \in Frames
        BY BegunFrames DEF IInv
      <4>3. y <= Len(S) /\ y \in Nat /\ x \in Nat
        <5>1. /\ i \in 0 .. Len(begun) /\ i - 1 \in 0 .. Len(begun) /\ i <= Len(begun)
              /\ Len(begun) \in 0 .. Len(begun)
          BY BegunFrames DEF IInv
        <5>2. \A j, k \in 0 .. Len(begun) : j <= k => E[j] <= E[k]
          BY <2>1 DEF Layout
        <5> QED  BY <2>2, <2>3, <5>1, <5>2
      <4> HIDE DEF g
      <4>4. /\ g.payload \in Seq(Byte) /\ l \in Nat
            /\ Header(g) \in Seq(Byte) /\ Len(Header(g)) = FRAME_HEADER_LEN
        BY <4>2, HeaderShape
      <4> HIDE DEF x, y
      <4>5. x + FRAME_HEADER_LEN \in Nat /\ x + FRAME_HEADER_LEN <= Len(S)
            /\ x + FRAME_HEADER_LEN + l <= Len(S)
        <5> HIDE DEF l
        <5> QED  BY <2>2, <4>1, <4>3, <4>4 DEF FRAME_HEADER_LEN
      <4>6. At(T, x, Header(g))
        BY <2>6, <4>1, <4>3, <4>4, <4>5
      <4>7. At(T, x + FRAME_HEADER_LEN, g.payload)
        BY <2>6, <4>1, <4>4, <4>5
      <4> QED  BY <4>1, <4>6, <4>7 DEF g, x, y
    <3>2. Len(T) = E[Len(begun)] + Len(h) /\ At(T, E[Len(begun)], h)
      BY <2>3, <2>5
    <3>3. /\ E \in [0 .. Len(begun) -> Nat] /\ E[0] = 0
          /\ \A i, j \in 0 .. Len(begun) : i <= j => E[i] <= E[j]
      BY <2>1 DEF Layout
    <3> QED  BY <1>1, <1>2, <2>5, <3>1, <3>2, <3>3 DEF Layout
  <2>8. Flow(E, T)'
    <3>1. Base(E)' = Base(E)
      BY <1>1 DEF Base
    <3>2. Sent(E)' = Sent(E)
      BY <1>1, <3>1 DEF Sent
    <3>3. buf \in Seq(Byte) /\ wire \in Seq(Byte)
      BY DEF IInv, TypeOK
    <3>4. At(S, Base(E), buf) /\ At(S, Base(E) + Len(buf), wire)
      BY <2>1 DEF Flow
    <3>5. At(T, Base(E), buf)
      BY <2>2, <2>4, <2>6, <3>3, <3>4
    <3>6. At(T, Base(E) + Len(buf), wire)
      <4>1. Base(E) + Len(buf) \in Nat /\ Base(E) + Len(buf) + Len(wire) <= Len(S)
        BY <2>2, <2>4
      <4> QED  BY <2>6, <3>3, <3>4, <4>1
    <3>7. At(T, Sent(E), out')
      BY <1>2, <2>4, <2>5
    <3>8. Ahead' = 0
      BY <1>1 DEF Ahead
    <3>9. Sent(E) <= Len(T) /\ Sent(E) + Len(out') + 0 = Len(T)
      BY <1>2, <1>3, <2>2, <2>4, <2>5
    <3> QED  BY <1>1, <3>1, <3>2, <3>5, <3>6, <3>7, <3>8, <3>9 DEF Flow
  <2> QED  BY <2>7, <2>8 DEF StreamInv
<1> QED  BY <1>1, <1>6, <1>7, <1>8, <1>9 DEF IInv

(* read_frame begins: the reader stands at the end of the last frame it     *)
(* returned.                                                                *)
LEMMA ReadFrameStep ==
  ASSUME IInv, ReadFrame
  PROVE  IInv'
<1>1. /\ rpc = "idle" /\ rpc' = "header" /\ buf' = <<>> /\ length' = 9
      /\ wpc' = wpc /\ out' = out /\ begun' = begun /\ acked' = acked /\ refused' = refused
      /\ junk' = junk /\ wire' = wire /\ type' = type /\ rerr' = rerr /\ got' = got
      /\ faults' = faults
  BY DEF ReadFrame, writerVars, FRAME_HEADER_LEN
<1>2. buf = <<>> /\ rerr = "none"
  BY <1>1 DEF IInv, ReaderInv
<1>3. TypeOK'
  <2>1. buf' \in Seq(Byte) /\ Len(buf') <= 9
    BY <1>1, EmptySeq
  <2> QED  BY <1>1, <2>1 DEF IInv, TypeOK, FRAME_HEADER_LEN
<1>4. WriterInv'
  BY <1>1 DEF IInv, WriterInv
<1>5. ReaderInv' /\ ErrorsTrue'
  BY <1>1, <1>2 DEF IInv, ReaderInv, ErrorsTrue, FRAME_HEADER_LEN
<1>6. StreamInv'
  <2>1. PICK E, S : Layout(E, S) /\ Flow(E, S)
    BY <1>1 DEF IInv, StreamInv
  <2>2. Layout(E, S)'
    BY <1>1, <2>1 DEF Layout
  <2>3. Base(E)' = Base(E) /\ Ahead' = Ahead
    BY <1>1 DEF Base, Ahead
  <2>4. buf' = buf /\ Sent(E)' = Sent(E)
    BY <1>1, <1>2, <2>3 DEF Sent
  <2>5. Flow(E, S)'
    BY <1>1, <2>1, <2>3, <2>4 DEF Flow
  <2> QED  BY <2>2, <2>5 DEF StreamInv
<1> QED  BY <1>3, <1>4, <1>5, <1>6 DEF IInv

(* recv() moves bytes from what is on the way to what the reader has.       *)
LEMMA RecvStep ==
  ASSUME IInv, Recv
  PROVE  IInv'
<1>1. PICK n \in 1 .. length - Len(buf) :
        /\ n <= Len(wire)
        /\ buf' = buf \o SubSeq(wire, 1, n)
        /\ wire' = SubSeq(wire, n + 1, Len(wire))
  BY DEF Recv
<1>2. /\ rpc \in {"header", "body"} /\ rpc' = rpc /\ length' = length
      /\ wpc' = wpc /\ out' = out /\ begun' = begun /\ acked' = acked /\ refused' = refused
      /\ junk' = junk /\ type' = type /\ rerr' = rerr /\ got' = got
      /\ faults' = faults
  BY DEF Recv, writerVars
<1>3. wire \in Seq(Byte) /\ buf \in Seq(Byte) /\ Len(wire) \in Nat /\ Len(buf) \in Nat
      /\ length \in Nat
  BY FrameAssumption DEF IInv, TypeOK, FRAME_HEADER_LEN
<1>4. n \in Nat /\ n \in 0 .. Len(wire) /\ Len(buf) + n <= length
  BY <1>1, <1>3
<1>5. /\ buf' \in Seq(Byte) /\ wire' \in Seq(Byte)
      /\ Len(buf') = Len(buf) + n /\ Len(wire') = Len(wire) - n
      /\ \A S : \A r \in Nat :
           At(S, r, buf) /\ At(S, r + Len(buf), wire) =>
             At(S, r, buf') /\ At(S, r + Len(buf) + n, wire')
  BY <1>1, <1>3, <1>4, HandOver
<1>6. TypeOK'
  <2>1. Len(wire') <= SocketBuffer
    BY <1>3, <1>4, <1>5, FrameAssumption DEF IInv, TypeOK
  <2> QED  BY <1>2, <1>4, <1>5, <2>1 DEF IInv, TypeOK
<1>7. WriterInv'
  BY <1>2 DEF IInv, WriterInv
<1>8. ReaderInv' /\ ErrorsTrue'
  BY <1>2 DEF IInv, ReaderInv, ErrorsTrue
<1>9. StreamInv'
  <2>1. PICK E, S : Layout(E, S) /\ Flow(E, S)
    BY <1>2 DEF IInv, StreamInv
  <2>2. Layout(E, S)'
    BY <1>2, <2>1 DEF Layout
  <2>3. Base(E) \in Nat /\ Sent(E) = Base(E) + Len(buf) + Len(wire)
    BY <2>1, Places DEF IInv
  <2>4. Base(E)' = Base(E) /\ Ahead' = Ahead
    BY <1>2 DEF Base, Ahead
  <2>5. Sent(E)' = Sent(E)
    <3>1. Sent(E)' = Base(E)' + Len(buf') + Len(wire')
      BY DEF Sent
    <3> QED  BY <1>3, <1>4, <1>5, <2>3, <2>4, <3>1
  <2>6. At(S, Base(E), buf') /\ At(S, Base(E) + Len(buf'), wire')
    <3>1. At(S, Base(E), buf) /\ At(S, Base(E) + Len(buf), wire)
      BY <2>1 DEF Flow
    <3>2. Base(E) + Len(buf) + n = Base(E) + Len(buf')
      BY <1>3, <1>4, <1>5, <2>3
    <3> QED  BY <1>5, <2>3, <3>1, <3>2
  <2>7. Flow(E, S)'
    BY <1>2, <2>1, <2>4, <2>5, <2>6 DEF Flow
  <2> QED  BY <2>2, <2>7 DEF StreamInv
<1> QED  BY <1>6, <1>7, <1>8, <1>9 DEF IInv

(* read_frame fails, with an error that says what happened.                 *)
LEMMA FailStep ==
  ASSUME IInv, NEW e \in {"BAD_MAGIC", "OVERSIZE", "SHORT_READ", "IO_ERROR"}, Fail(e),
         UNCHANGED <<writerVars, wire>>, faults' \in 0 .. MaxFaults,
         e # "IO_ERROR" => wpc \in {"junk", "closed"} /\ Len(got) = acked,
         e = "BAD_MAGIC" => junk # <<>> /\ ~MagicOK(junk),
         e = "OVERSIZE" => junk # <<>> /\ MagicOK(junk) /\ DecodeLength(junk) > MAX_FRAME_LEN
  PROVE  IInv'
<1>1. /\ rpc' = "failed" /\ rerr' = e /\ buf' = <<>> /\ length' = 0 /\ type' = type
      /\ got' = got /\ wpc' = wpc /\ out' = out /\ begun' = begun /\ acked' = acked
      /\ refused' = refused /\ junk' = junk /\ wire' = wire
  BY DEF Fail, writerVars
<1>2. TypeOK'
  <2>1. buf' \in Seq(Byte) /\ Len(buf') <= 0 /\ 0 \in 0 .. MAX_FRAME_LEN
    BY <1>1, EmptySeq, FrameAssumption
  <2> QED  BY <1>1, <2>1 DEF IInv, TypeOK
<1>3. WriterInv'
  BY <1>1 DEF IInv, WriterInv
<1>4. ReaderInv'
  BY <1>1 DEF IInv, ReaderInv
<1>5. ErrorsTrue'
  BY <1>1 DEF ErrorsTrue
<1> QED  BY <1>1, <1>2, <1>3, <1>4, <1>5 DEF IInv

(* The stream has ended inside a read_exact: where it ended, the reader     *)
(* has returned what was acknowledged and is inside the next frame.         *)
LEMMA RecvClosedStep ==
  ASSUME IInv, RecvClosed
  PROVE  IInv'
<1>1. /\ rpc \in {"header", "body"} /\ Len(buf) < length /\ wpc = "closed" /\ wire = <<>>
      /\ Fail("SHORT_READ") /\ UNCHANGED <<writerVars, wire>> /\ faults' = faults
  BY DEF RecvClosed
<1>2. Len(got) = acked
  <2>1. PICK E, S : Layout(E, S) /\ Flow(E, S)
    BY <1>1 DEF IInv, StreamInv
  <2>2. /\ Base(E) \in Nat /\ Sent(E) \in Nat /\ Len(buf) \in Nat
        /\ \A i \in 0 .. Len(begun) : E[i] \in Nat
        /\ Sent(E) = Base(E) + Len(buf) + Len(wire)
    BY <2>1, Places DEF IInv
  <2>3. Sent(E) = Base(E) + Len(buf)
    BY <1>1, <2>2, EmptySeq
  <2>4. /\ Len(begun) \in Nat /\ Len(got) \in Nat /\ Len(got) <= Len(begun)
        /\ acked \in Nat /\ acked <= Len(begun)
    BY BegunFrames DEF IInv, ReaderInv, TypeOK
  <2>5. E[acked] <= Sent(E) /\ (acked < Len(begun) => Sent(E) < E[acked + 1])
    BY <1>1, <2>1 DEF Flow
  <2>6. \A i, j \in 0 .. Len(begun) : i <= j => E[i] <= E[j]
    BY <2>1 DEF Layout
  <2>7. E[Len(got)] <= Base(E) /\ E[Len(got)] \in Nat
    <3>1. E[Len(got)] \in Nat
      BY <2>2, <2>4
    <3> QED  BY <3>1 DEF Base, FRAME_HEADER_LEN
  <2>8. ASSUME acked < Len(got) PROVE FALSE
    <3>1. acked + 1 \in 0 .. Len(begun) /\ Len(got) \in 0 .. Len(begun) /\ acked + 1 <= Len(got)
          /\ acked < Len(begun)
      BY <2>4, <2>8
    <3>2. E[acked + 1] <= E[Len(got)] /\ E[acked + 1] \in Nat
      BY <2>2, <2>6, <3>1
    <3>3. Sent(E) < E[acked + 1]
      BY <2>5, <3>1
    <3> QED  BY <2>2, <2>3, <2>7, <3>2, <3>3
  <2>9. ASSUME Len(got) < acked PROVE FALSE
    <3> DEFINE g == Len(got) + 1
    <3>1. g \in 1 .. Len(begun) /\ g \in 0 .. Len(begun) /\ g <= acked
          /\ acked \in 0 .. Len(begun) /\ g - 1 = Len(got)
      BY <2>4, <2>9
    <3> HIDE DEF g
    <3>2. E[g] <= E[acked] /\ E[g] \in Nat /\ E[acked] \in Nat
      BY <2>2, <2>6, <3>1
    <3>3. E[g] = E[Len(got)] + FRAME_HEADER_LEN + Len(begun[g].payload)
      BY <2>1, <3>1 DEF Layout
    <3>4. Len(begun[g].payload) \in Nat
      BY <3>1, BegunFrames DEF IInv
    <3>5. Base(E) + Len(buf) < E[g]
      <4> DEFINE x == E[Len(got)]
                 y == E[g]
                 l == Len(begun[g].payload)
      <4>0. x \in Nat /\ y \in Nat /\ l \in Nat /\ y = x + 9 + l
            /\ Base(E) \in Nat /\ Len(buf) \in Nat
        BY <2>2, <2>7, <3>2, <3>3, <3>4 DEF FRAME_HEADER_LEN
      <4>1. CASE rpc = "header"
        <5>1. Base(E) = x /\ Len(buf) < 9
          BY <1>1, <2>7, <4>1 DEF Base, IInv, ReaderInv, FRAME_HEADER_LEN
        <5> HIDE DEF x, y, l
        <5>2. Base(E) + Len(buf) < y
          BY <4>0, <5>1
        <5> QED  BY <5>2 DEF y
      <4>2. CASE rpc = "body"
        <5>1. Base(E) = x + 9
          BY <4>2 DEF Base, FRAME_HEADER_LEN
        <5>2. Len(buf) < l
          BY <1>1, <4>2 DEF IInv, ReaderInv, g
        <5> HIDE DEF x, y, l
        <5>3. Base(E) + Len(buf) < y
          BY <4>0, <5>1, <5>2
        <5> QED  BY <5>3 DEF y
      <4> QED  BY <1>1, <4>1, <4>2
    <3> QED  BY <2>2, <2>3, <2>5, <3>2, <3>5
  <2> QED  BY <2>4, <2>8, <2>9
<1>3. faults' \in 0 .. MaxFaults
  BY <1>1 DEF IInv, TypeOK
<1> QED  BY <1>1, <1>2, <1>3, FailStep

(* recv() fails: the error says no more than that.                          *)
LEMMA RecvFailsStep ==
  ASSUME IInv, RecvFails
  PROVE  IInv'
<1>1. Fail("IO_ERROR") /\ UNCHANGED <<writerVars, wire>> /\ faults < MaxFaults
      /\ faults' = faults + 1
  BY DEF RecvFails
<1>2. faults' \in 0 .. MaxFaults
  BY <1>1, FrameAssumption DEF IInv, TypeOK
<1> QED  BY <1>1, <1>2, FailStep

(* The nine bytes read are the header of the next frame, if there is one,   *)
(* and else another program's.                                              *)
LEMMA HeaderBytes ==
  ASSUME IInv, rpc = "header", Len(buf) = length
  PROVE  \/ /\ Len(got) < Len(begun)
            /\ \A k \in 1 .. 9 : buf[k] = Header(begun[Len(got) + 1])[k]
         \/ /\ Len(got) = Len(begun) /\ junk \in Junk
            /\ \A k \in 1 .. 9 : buf[k] = junk[k]
<1>1. PICK E, S : Layout(E, S) /\ Flow(E, S)
  BY DEF IInv, StreamInv
<1>2. Len(buf) = 9
  BY DEF IInv, ReaderInv, FRAME_HEADER_LEN
<1>3. /\ Len(begun) \in Nat /\ Len(got) \in Nat /\ Len(got) <= Len(begun)
  BY BegunFrames DEF IInv, ReaderInv
<1>4. Base(E) = E[Len(got)] /\ E[Len(got)] \in Nat
  <2>1. E[Len(got)] \in Nat
    BY <1>1, <1>3, Places DEF IInv
  <2> QED  BY <2>1 DEF Base
<1>5. \A k \in 1 .. 9 : S[E[Len(got)] + k] = buf[k]
  BY <1>1, <1>2, <1>4 DEF Flow, At
<1>6. CASE Len(got) < Len(begun)
  <2> DEFINE g == Len(got) + 1
  <2>1. g \in 1 .. Len(begun) /\ g - 1 = Len(got)
    BY <1>3, <1>6
  <2> HIDE DEF g
  <2>2. At(S, E[Len(got)], Header(begun[g]))
    BY <1>1, <2>1 DEF Layout
  <2>3. Len(Header(begun[g])) = 9
    BY <2>1, BegunFrames, HeaderShape DEF IInv, FRAME_HEADER_LEN
  <2>4. \A k \in 1 .. 9 : S[E[Len(got)] + k] = Header(begun[g])[k]
    BY <2>2, <2>3 DEF At
  <2>5. \A k \in 1 .. 9 : buf[k] = Header(begun[g])[k]
    BY <1>5, <2>4
  <2> QED  BY <1>6, <2>5 DEF g
<1>7. CASE Len(got) = Len(begun)
  <2>1. Len(S) = E[Len(got)] + Len(junk) /\ At(S, E[Len(got)], junk)
    BY <1>1, <1>7 DEF Layout
  <2>2. Sent(E) <= Len(S) /\ Sent(E) = E[Len(got)] + 9 + Len(wire) /\ Len(wire) \in Nat
        /\ Len(S) \in Nat
    <3>1. Sent(E) <= Len(S)
      BY <1>1 DEF Flow
    <3>2. Sent(E) = Base(E) + Len(buf) + Len(wire) /\ Len(wire) \in Nat /\ Len(S) \in Nat
      BY <1>1, Places DEF IInv
    <3> QED  BY <1>2, <1>4, <3>1, <3>2
  <2>3. junk \in Junk
    <3>1. ASSUME junk = <<>> PROVE FALSE
      <4>1. Len(junk) = 0
        BY <3>1, EmptySeq
      <4> QED  BY <1>4, <2>1, <2>2, <4>1
    <3> QED  BY <3>1 DEF IInv, TypeOK
  <2>4. Len(junk) = 9
    BY <2>3, FrameAssumption, BytesOf
  <2>5. \A k \in 1 .. 9 : S[E[Len(got)] + k] = junk[k]
    BY <2>1, <2>4 DEF At
  <2>6. \A k \in 1 .. 9 : buf[k] = junk[k]
    BY <1>5, <2>5
  <2> QED  BY <1>7, <2>3, <2>6
<1> QED  BY <1>3, <1>6, <1>7

(* The reader judges a header: a frame's always passes, and only another    *)
(* program's is refused.                                                    *)
LEMMA HeaderReadStep ==
  ASSUME IInv, HeaderRead
  PROVE  IInv'
<1>1. /\ rpc = "header" /\ Len(buf) = length /\ UNCHANGED <<writerVars, wire>>
      /\ faults' = faults /\ faults' \in 0 .. MaxFaults
  BY DEF HeaderRead, IInv, TypeOK
<1>2. CASE /\ Len(got) = Len(begun) /\ junk \in Junk
           /\ \A k \in 1 .. 9 : buf[k] = junk[k]
  <2>1. (MagicOK(buf) <=> MagicOK(junk)) /\ DecodeLength(buf) = DecodeLength(junk)
    BY <1>2 DEF MagicOK, DecodeLength
  <2>2. junk # <<>>
    <3>1. Len(junk) = 9 /\ Len(<<>>) = 0
      BY <1>2, FrameAssumption, BytesOf
    <3> QED  BY <3>1
  <2>3. wpc \in {"junk", "closed"} /\ Len(got) = acked
    BY <1>2, <2>2 DEF IInv, WriterInv
  <2>4. ~MagicOK(junk) \/ DecodeLength(junk) > MAX_FRAME_LEN
    BY <1>2, JunkAssumption
  <2>5. \/ ~MagicOK(junk) /\ Fail("BAD_MAGIC")
        \/ MagicOK(junk) /\ DecodeLength(junk) > MAX_FRAME_LEN /\ Fail("OVERSIZE")
    BY <2>1, <2>4 DEF HeaderRead, Oversize
  <2>6. CASE ~MagicOK(junk) /\ Fail("BAD_MAGIC")
    BY <1>1, <2>2, <2>3, <2>6, FailStep
  <2>7. CASE MagicOK(junk) /\ DecodeLength(junk) > MAX_FRAME_LEN /\ Fail("OVERSIZE")
    BY <1>1, <2>2, <2>3, <2>7, FailStep
  <2> QED  BY <2>5, <2>6, <2>7
<1>3. CASE /\ Len(got) < Len(begun)
           /\ \A k \in 1 .. 9 : buf[k] = Header(begun[Len(got) + 1])[k]
  <2> DEFINE f == begun[Len(got) + 1]
  <2>1. Len(got) + 1 \in 1 .. Len(begun)
    BY <1>3, BegunFrames DEF IInv
  <2>2. f \in Frames /\ Len(f.payload) <= MAX_FRAME_LEN /\ Len(f.payload) \in Nat /\ f.type \in Byte
    BY <2>1, BegunFrames DEF IInv, WriterInv
  <2>3. MagicOK(buf) /\ buf[5] = f.type /\ DecodeLength(buf) = Len(f.payload)
    BY <1>3, <2>2, HeaderReads
  <2>4. ~Oversize(DecodeLength(buf))
    BY <2>2, <2>3, FrameAssumption DEF Oversize
  <2>5. /\ rpc' = "body" /\ type' = f.type /\ length' = Len(f.payload) /\ buf' = <<>>
        /\ rerr' = rerr /\ got' = got
    BY <2>3, <2>4 DEF HeaderRead
  <2>6. /\ wpc' = wpc /\ out' = out /\ begun' = begun /\ acked' = acked
        /\ refused' = refused /\ junk' = junk /\ wire' = wire
    BY <1>1 DEF writerVars
  <2>7. TypeOK'
    <3>1. /\ buf' \in Seq(Byte) /\ Len(buf') <= length' /\ length' \in 0 .. MAX_FRAME_LEN
          /\ type' \in Byte
      BY <2>2, <2>5, EmptySeq, FrameAssumption
    <3> QED  BY <1>1, <2>5, <2>6, <3>1 DEF IInv, TypeOK
  <2>8. WriterInv'
    BY <2>6 DEF IInv, WriterInv
  <2>9. ReaderInv' /\ ErrorsTrue'
    <3>1. rerr = "none"
      BY <1>1 DEF IInv, ReaderInv
    <3> QED  BY <1>3, <2>5, <2>6, <3>1 DEF IInv, ReaderInv, ErrorsTrue
  <2>10. StreamInv'
    <3>1. PICK E, S : Layout(E, S) /\ Flow(E, S)
      BY <1>1 DEF IInv, StreamInv
    <3>2. Layout(E, S)'
      BY <2>6, <3>1 DEF Layout
    <3>3. /\ Base(E) \in Nat /\ Len(wire) \in Nat /\ Sent(E) = Base(E) + Len(buf) + Len(wire)
      BY <3>1, Places DEF IInv
    <3>4. Len(buf) = 9
      BY <1>1 DEF IInv, ReaderInv, FRAME_HEADER_LEN
    <3>5. Base(E)' = Base(E) + 9
      <4>1. E[Len(got)] \in Nat
        BY <2>1, <3>1, Places, BegunFrames DEF IInv
      <4>2. Base(E) = E[Len(got)] /\ Base(E)' = E[Len(got)] + 9
        BY <1>1, <2>5, <4>1 DEF Base, FRAME_HEADER_LEN
      <4> QED  BY <4>2
    <3>6. Len(buf') = 0
      BY <2>5, EmptySeq
    <3>7. Base(E)' + Len(buf') = Base(E) + Len(buf) /\ Sent(E)' = Sent(E)
      <4>1. Sent(E)' = Base(E)' + Len(buf') + Len(wire')
        BY DEF Sent
      <4> QED  BY <2>6, <3>3, <3>4, <3>5, <3>6, <4>1
    <3>8. At(S, Base(E)', buf')
      BY <2>5, AtNothing
    <3>9. Ahead' = Ahead
      BY <2>6 DEF Ahead
    <3>10. Flow(E, S)'
      BY <2>6, <3>1, <3>7, <3>8, <3>9 DEF Flow
    <3> QED  BY <3>2, <3>10 DEF StreamInv
  <2> QED  BY <2>7, <2>8, <2>9, <2>10 DEF IInv
<1> QED  BY <1>1, <1>2, <1>3, HeaderBytes

(* The bytes read are the payload of the next frame, so that what is        *)
(* returned is that frame.                                                  *)
LEMMA BodyBytes ==
  ASSUME IInv, BodyRead
  PROVE  /\ Len(got) < Len(begun)
         /\ [type |-> type, payload |-> buf] = begun[Len(got) + 1]
<1>1. rpc = "body" /\ Len(buf) = length
  BY DEF BodyRead
<1> DEFINE g == Len(got) + 1
           f == begun[g]
<1>2. Len(got) < Len(begun) /\ type = f.type /\ length = Len(f.payload)
  BY <1>1 DEF IInv, ReaderInv
<1>3. g \in 1 .. Len(begun) /\ g - 1 = Len(got) /\ Len(got) \in 0 .. Len(begun)
  BY <1>2, BegunFrames DEF IInv
<1> HIDE DEF g
<1>4. f \in Frames
  BY <1>3, BegunFrames DEF IInv
<1>5. PICK E, S : Layout(E, S) /\ Flow(E, S)
  BY <1>1 DEF IInv, StreamInv
<1>6. At(S, E[Len(got)] + 9, f.payload)
  BY <1>3, <1>5 DEF Layout, FRAME_HEADER_LEN
<1>7. At(S, E[Len(got)] + 9, buf)
  <2>1. Base(E) = E[Len(got)] + 9
    BY <1>1 DEF Base, FRAME_HEADER_LEN
  <2> QED  BY <1>5, <2>1 DEF Flow
<1> HIDE DEF f
<1>8. buf \in Seq(Byte) /\ f.payload \in Seq(Byte) /\ Len(buf) = Len(f.payload)
  BY <1>1, <1>2, <1>4, HeaderShape DEF IInv, TypeOK
<1>9. \A k \in 1 .. Len(buf) : buf[k] = f.payload[k]
  BY <1>6, <1>7, <1>8 DEF At
<1>10. buf = f.payload
  BY <1>8, <1>9, SeqEqual
<1>11. f = [type |-> f.type, payload |-> f.payload]
  BY <1>4, FrameAssumption
<1> QED  BY <1>2, <1>10, <1>11 DEF f, g

(* read_frame returns the next frame, and the reader stands at its end.     *)
LEMMA BodyReadStep ==
  ASSUME IInv, BodyRead
  PROVE  IInv'
<1> DEFINE f == begun[Len(got) + 1]
<1>1. /\ rpc = "body" /\ rpc' = "idle" /\ Len(buf) = length /\ buf' = <<>> /\ length' = 0
      /\ wpc' = wpc /\ out' = out /\ begun' = begun /\ acked' = acked /\ refused' = refused
      /\ junk' = junk /\ wire' = wire /\ type' = type /\ rerr' = rerr /\ faults' = faults
  BY DEF BodyRead, writerVars
<1>2. got' = Append(got, f) /\ Len(got) < Len(begun)
  BY BodyBytes DEF BodyRead
<1>3. /\ Len(got) + 1 \in 1 .. Len(begun) /\ Len(got) \in 0 .. Len(begun) /\ Len(got) \in Nat
      /\ Len(begun) \in Nat
  BY <1>2, BegunFrames DEF IInv
<1>4. f \in [type : Byte, payload : Seq(Byte)]
  <2>1. f \in Frames
    BY <1>3, BegunFrames DEF IInv
  <2> QED  BY <2>1, FrameAssumption
<1>5. Len(f.payload) = Len(buf) /\ Len(buf) \in Nat
  BY <1>1 DEF IInv, ReaderInv, TypeOK
<1> HIDE DEF f
<1>6. /\ got' \in Seq([type : Byte, payload : Seq(Byte)]) /\ Len(got') = Len(got) + 1
      /\ got'[Len(got) + 1] = f /\ \A i \in 1 .. Len(got) : got'[i] = got[i]
  <2>1. got \in Seq([type : Byte, payload : Seq(Byte)])
    BY DEF IInv, TypeOK
  <2> QED  BY <1>2, <1>4, <2>1, AppendProperties
<1>7. TypeOK'
  <2>1. buf' \in Seq(Byte) /\ Len(buf') <= 0 /\ 0 \in 0 .. MAX_FRAME_LEN
    BY <1>1, EmptySeq, FrameAssumption
  <2> QED  BY <1>1, <1>6, <2>1 DEF IInv, TypeOK
<1>8. WriterInv'
  BY <1>1 DEF IInv, WriterInv
<1>9. rerr = "none"
  BY <1>1 DEF IInv, ReaderInv
<1>10. ReaderInv'
  <2>1. \A i \in 1 .. Len(got) + 1 : got'[i] = begun[i]
    <3>1. \A i \in 1 .. Len(got) : got'[i] = begun[i]
      BY <1>6 DEF IInv, ReaderInv
    <3>2. got'[Len(got) + 1] = begun[Len(got) + 1]
      BY <1>6 DEF f
    <3>3. \A i \in 1 .. Len(got) + 1 : i \in 1 .. Len(got) \/ i = Len(got) + 1
      BY <1>3
    <3> QED  BY <3>1, <3>2, <3>3
  <2>2. Len(got) + 1 <= Len(begun)
    BY <1>3
  <2> QED  BY <1>1, <1>6, <1>9, <2>1, <2>2 DEF ReaderInv
<1>11. ErrorsTrue'
  BY <1>1, <1>9 DEF ErrorsTrue
<1>12. StreamInv'
  <2>1. PICK E, S : Layout(E, S) /\ Flow(E, S)
    BY <1>1 DEF IInv, StreamInv
  <2>2. Layout(E, S)'
    BY <1>1, <2>1 DEF Layout
  <2>3. /\ Base(E) \in Nat /\ Len(wire) \in Nat /\ Sent(E) = Base(E) + Len(buf) + Len(wire)
        /\ E[Len(got)] \in Nat
    BY <1>3, <2>1, Places DEF IInv
  <2>4. Base(E)' = Base(E) + Len(buf)
    <3>1. Base(E) = E[Len(got)] + 9
      BY <1>1 DEF Base, FRAME_HEADER_LEN
    <3>2. Base(E)' = E[Len(got) + 1] + 0
      BY <1>1, <1>6 DEF Base
    <3>3. E[Len(got) + 1] = E[Len(got)] + 9 + Len(f.payload)
      <4> DEFINE g == Len(got) + 1
      <4>1. g \in 1 .. Len(begun) /\ g - 1 = Len(got)
        BY <1>3
      <4> HIDE DEF g
      <4>2. E[g] = E[g - 1] + 9 + Len(begun[g].payload)
        BY <2>1, <4>1 DEF Layout, FRAME_HEADER_LEN
      <4> QED  BY <4>1, <4>2 DEF g, f
    <3>4. E[Len(got) + 1] = E[Len(got)] + 9 + Len(buf)
      BY <1>5, <3>3
    <3> QED  BY <1>5, <2>3, <3>1, <3>2, <3>4
  <2>5. Len(buf') = 0
    BY <1>1, EmptySeq
  <2>6. Base(E)' + Len(buf') = Base(E) + Len(buf) /\ Sent(E)' = Sent(E)
    <3>1. Sent(E)' = Base(E)' + Len(buf') + Len(wire')
      BY DEF Sent
    <3> QED  BY <1>1, <1>5, <2>3, <2>4, <2>5, <3>1
  <2>7. At(S, Base(E)', buf')
    BY <1>1, AtNothing
  <2>8. Ahead' = Ahead
    BY <1>1 DEF Ahead
  <2>9. Flow(E, S)'
    BY <1>1, <2>1, <2>6, <2>7, <2>8 DEF Flow
  <2> QED  BY <2>2, <2>9 DEF StreamInv
<1> QED  BY <1>7, <1>8, <1>10, <1>11, <1>12 DEF IInv

(* A step that changes nothing.                                             *)
LEMMA IInvStutter ==
  ASSUME IInv, UNCHANGED vars
  PROVE  IInv'
<1>1. /\ wpc' = wpc /\ out' = out /\ begun' = begun /\ acked' = acked /\ refused' = refused
      /\ junk' = junk /\ wire' = wire /\ rpc' = rpc /\ buf' = buf /\ type' = type
      /\ length' = length /\ rerr' = rerr /\ got' = got /\ faults' = faults
  BY DEF vars, writerVars, readerVars
<1>2. TypeOK' /\ WriterInv' /\ ReaderInv' /\ ErrorsTrue'
  BY <1>1 DEF IInv, TypeOK, WriterInv, ReaderInv, ErrorsTrue
<1>3. rpc # "failed" => StreamInv'
  <2> SUFFICES ASSUME rpc # "failed" PROVE StreamInv'
    OBVIOUS
  <2>1. PICK E, S : Layout(E, S) /\ Flow(E, S)
    BY DEF IInv, StreamInv
  <2>2. Layout(E, S)'
    BY <1>1, <2>1 DEF Layout
  <2>3. Base(E)' = Base(E) /\ Sent(E)' = Sent(E) /\ Ahead' = Ahead
    BY <1>1 DEF Base, Sent, Ahead
  <2>4. Flow(E, S)'
    BY <1>1, <2>1, <2>3 DEF Flow
  <2> QED  BY <2>2, <2>4 DEF StreamInv
<1> QED  BY <1>1, <1>2, <1>3 DEF IInv

(* Every step keeps the invariant.                                          *)
LEMMA IInvStep ==
  ASSUME IInv, [Next]_vars
  PROVE  IInv'
<1>1. CASE Close \/ SendFails \/ JunkSent
  <2>1. /\ wpc # "closed" /\ wpc' = "closed"
        /\ UNCHANGED <<begun, acked, refused, junk, wire, readerVars>>
        /\ wpc \in {"header", "payload"} => out # <<>>
    BY <1>1 DEF Close, SendFails, JunkSent
  <2>2. out' = <<>>
    BY <1>1 DEF Close, SendFails, JunkSent, IInv, WriterInv
  <2>3. faults' \in 0 .. MaxFaults
    <3>1. faults \in 0 .. MaxFaults /\ MaxFaults \in Nat
      BY FrameAssumption DEF IInv, TypeOK
    <3>2. faults' = faults \/ (faults < MaxFaults /\ faults' = faults + 1)
      BY <1>1 DEF Close, SendFails, JunkSent
    <3> QED  BY <3>1, <3>2
  <2> QED  BY <2>1, <2>2, <2>3, ClosingStep
<1>2. CASE Over \/ UNCHANGED vars
  BY <1>2, IInvStutter DEF Over
<1> QED
  BY <1>1, <1>2, WriteFrameStep, SendStep, HeaderSentStep, PayloadSentStep, SendJunkStep,
     ReadFrameStep, RecvStep, RecvClosedStep, RecvFailsStep, HeaderReadStep, BodyReadStep
     DEF Next, Writing, Reading

(* Nothing is written and nothing is read: the stream is empty.             *)
LEMMA IInvInit ==
  ASSUME Init
  PROVE  IInv
<1>1. /\ wpc = "idle" /\ out = <<>> /\ begun = <<>> /\ acked = 0 /\ refused = FALSE
      /\ junk = <<>> /\ wire = <<>> /\ rpc = "idle" /\ buf = <<>> /\ type = 0 /\ length = 0
      /\ rerr = "none" /\ got = <<>> /\ faults = 0
  BY DEF Init
<1>2. Len(<<>>) = 0 /\ \A X : <<>> \in Seq(X)
  BY EmptySeq
<1>3. 0 \in Byte /\ 0 \in 0 .. MAX_FRAME_LEN /\ 0 \in 0 .. MaxFaults /\ 0 <= SocketBuffer
  BY FrameAssumption DEF Byte
<1>4. TypeOK
  <2>1. /\ out \in Seq(Byte) /\ wire \in Seq(Byte) /\ Len(wire) <= SocketBuffer
        /\ begun \in Seq(Frames) /\ buf \in Seq(Byte) /\ Len(buf) <= 0
        /\ got \in Seq([type : Byte, payload : Seq(Byte)])
        /\ Len(begun) = 0
    BY <1>1, <1>2, <1>3
  <2>2. acked \in 0 .. Len(begun) /\ length \in 0 .. MAX_FRAME_LEN /\ Len(buf) <= length
    BY <1>1, <1>3, <2>1
  <2> QED  BY <1>1, <1>3, <2>1, <2>2 DEF TypeOK
<1>5. WriterInv /\ ReaderInv /\ ErrorsTrue
  BY <1>1, <1>2 DEF WriterInv, ReaderInv, ErrorsTrue
<1>6. StreamInv
  <2> DEFINE E == [i \in {0} |-> 0]
  <2>1. /\ E \in [0 .. 0 -> Nat] /\ E[0] = 0
    OBVIOUS
  <2> HIDE DEF E
  <2>2. Layout(E, <<>>)
    BY <1>1, <1>2, <2>1, AtNothing DEF Layout
  <2>3. Base(E) = 0 /\ Ahead = 0
    BY <1>1, <1>2, <2>1 DEF Base, Ahead
  <2>4. Sent(E) = 0
    BY <1>1, <1>2, <2>3 DEF Sent
  <2>5. Flow(E, <<>>)
    BY <1>1, <1>2, <2>3, <2>4, AtNothing DEF Flow
  <2> QED  BY <2>2, <2>5 DEF StreamInv
<1> QED  BY <1>4, <1>5, <1>6 DEF IInv

(* The three stretches of bytes always are neighbours in the stream of the  *)
(* frames begun.                                                            *)
THEOREM StreamKept == Spec => []IInv
<1>1. Init => IInv
  BY IInvInit
<1>2. IInv /\ [Next]_vars => IInv'
  BY IInvStep
<1> QED  BY <1>1, <1>2, PTL DEF Spec

-----------------------------------------------------------------------------
(* The results.                                                             *)

(* Every variable keeps its type: the reader never holds more than the cap  *)
(* for a body, whatever it is sent (read_frame's check of the length before *)
(* it allocates).                                                           *)
THEOREM FrameTypes == Spec => []TypeOK
<1>1. IInv => TypeOK
  BY DEF IInv
<1> QED  BY <1>1, StreamKept, PTL

(* What an error of read_frame tells: magic and size are only the fault of  *)
(* another program, and at such an error or at the end of the stream, in a  *)
(* frame or between two, exactly the frames that write_frame acknowledged   *)
(* were returned.                                                           *)
THEOREM ErrorsMeanIt == Spec => []ErrorsTrue
<1>1. IInv => ErrorsTrue
  BY DEF IInv
<1> QED  BY <1>1, StreamKept, PTL

(* The codec implements the channel of discrete messages: whatever the      *)
(* stream splits and merges, read_frame returns the frames of write_frame,  *)
(* whole, once and in order.                                                *)
THEOREM CodecIsChannel == Spec => FrameChannelSpec
<1>1. Init => Channel!Init
  BY DEF Init, Channel!Init
<1>2. ASSUME IInv, [Next]_vars
      PROVE  [Channel!Next]_<<begun, got>>
  <2>1. CASE WriteFrame
    BY <2>1 DEF WriteFrame, readerVars, Channel!Next, Channel!Write
  <2>2. CASE BodyRead
    <3>1. got' = Append(got, begun[Len(got) + 1]) /\ Len(got) < Len(begun) /\ begun' = begun
      <4>1. got' = Append(got, [type |-> type, payload |-> buf]) /\ begun' = begun
        BY <2>2 DEF BodyRead, writerVars
      <4>2. /\ Len(got) < Len(begun)
            /\ [type |-> type, payload |-> buf] = begun[Len(got) + 1]
        BY <1>2, <2>2, BodyBytes
      <4> QED  BY <4>1, <4>2
    <3> QED  BY <3>1 DEF Channel!Next, Channel!Deliver
  <2>3. CASE \/ Send \/ HeaderSent \/ PayloadSent \/ JunkSent \/ SendFails \/ Close \/ SendJunk
             \/ Over \/ UNCHANGED vars
    BY <2>3 DEF Send, HeaderSent, PayloadSent, JunkSent, SendFails, Close, SendJunk, Over,
                vars, writerVars, readerVars
  <2>4. CASE ReadFrame \/ Recv \/ RecvClosed \/ RecvFails \/ HeaderRead
    BY <2>4 DEF ReadFrame, Recv, RecvClosed, RecvFails, HeaderRead, Fail, writerVars
  <2> QED  BY <1>2, <2>1, <2>2, <2>3, <2>4 DEF Next, Writing, Reading
<1> QED  BY <1>1, <1>2, StreamKept, PTL DEF Spec, FrameChannelSpec, Channel!Spec

=============================================================================
