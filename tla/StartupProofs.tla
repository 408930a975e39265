---------------------------- MODULE StartupProofs ----------------------------
(***************************************************************************)
(* Proofs about the key files, for any number of processes, files and      *)
(* commands, and kills and power losses at any point: nobody goes on with  *)
(* a key that nobody made, no key made by this code lies in a file that    *)
(* others may read, and a key that was reported is still there.  And about *)
(* the configuration, for any command line and any configuration files:    *)
(* every key has the value that the order of precedence gives it.          *)
(***************************************************************************)
EXTENDS Startup, FiniteSetTheorems, SequenceTheorems, WellFoundedInduction, TLAPS

Process ==
  [pc : {"idle", "boot", "find", "load", "read", "open", "chmod", "write", "sync", "ready"},
   verb : Verb,
   args : {<<>>} \cup {s.args : s \in Starts},
   cfg : {Default} \cup {ResolveConfig(s.args) : s \in Starts},
   path : {Idle.path} \cup Paths,
   key : {NoKey} \cup Keys,
   pos : 0 .. 4,
   world_readable : BOOLEAN]

Saving == {"open", "chmod", "write", "sync"}
Opened == {"chmod", "write", "sync"}

(* A process that is past its configuration has a key file, and one that    *)
(* saves has a key of its own making, when m is the latest key made.        *)
Fits(r, m) ==
  /\ r.pc \notin {"idle", "boot"} => r.path \in Paths
  /\ r.pc = "boot" => WalletPathForDatadir(r.cfg.datadir) \in Paths
  /\ r.pc \in Saving => r.key \in FirstKey + 1 .. m
  /\ r.pc = "ready" => r.key \in FirstKey .. m
  /\ r.pc # "write" => r.pos = IF r.pc = "sync" THEN 4 ELSE 0

(* Every variable has its type.                                             *)
Types ==
  /\ disk \in [Paths -> File] /\ stable \in [Paths -> File]
  /\ proc \in [Procs -> Process]
  /\ made \in Keys
  /\ writers \in [Paths -> SUBSET Procs]
  /\ due \in [Paths -> {NoKey} \cup Keys]
  /\ \A p \in Procs : Fits(proc[p], made)

(* A text that a write, a kill or a power loss has left: its keys are made  *)
(* ones, and all of them the first unless it was written by this code,      *)
(* which never ends an object with a brace of its own.                      *)
Sound(text, m) ==
  /\ \A i \in 1 .. Len(text) : text[i].field \in KeyField => text[i].of \in FirstKey .. m
  /\ \/ \A i \in 1 .. Len(text) : text[i].field # "brace"
     \/ \A i \in 1 .. Len(text) : text[i].field \in KeyField => text[i].of = FirstKey

(* A file open to others holds nothing but the operator's own key.          *)
Harmless(file) ==
  file.loose => \A i \in 1 .. Len(file.text) : file.text[i].of \in {NoKey, FirstKey}

TextInv ==
  /\ \A f \in Paths : Sound(disk[f].text, made) /\ Sound(stable[f].text, made)
  /\ \A f \in Paths : Harmless(disk[f]) /\ Harmless(stable[f])
  /\ \A p \in Procs :
       /\ proc[p].pc \in Opened =>
            \A i \in 1 .. Len(disk[proc[p].path].text) :
              disk[proc[p].path].text[i].field # "brace"
       /\ proc[p].pc \in {"write", "sync"} => ~disk[proc[p].path].loose

(* The only writer of a file has written what it is about to report, and    *)
(* what was reported is on the medium, whole and private.                   *)
SaveInv ==
  /\ \A p \in Procs : proc[p].pc \in Opened => writers[proc[p].path] # {}
  /\ \A p \in Procs :
       proc[p].pc \in Opened /\ writers[proc[p].path] = {p} =>
         /\ disk[proc[p].path].there
         /\ disk[proc[p].path].text = SubSeq(WalletJson(proc[p].key), 1, proc[p].pos)
  /\ \A f \in Paths : due[f] # NoKey =>
       /\ disk[f] = stable[f]
       /\ disk[f].there /\ ~disk[f].loose
       /\ disk[f].text = WalletJson(due[f])

IInv == Types /\ TextInv /\ SaveInv
-----------------------------------------------------------------------------
(* The texts.                                                               *)

LEMMA MaxOfTwo ==
  ASSUME NEW a \in Int, NEW b \in Int
  PROVE  Max({a, b}) = IF a >= b THEN a ELSE b
<1>1. \E x \in {a, b} : \A y \in {a, b} : x >= y
  OBVIOUS
<1>2. Max({a, b}) \in {a, b} /\ \A y \in {a, b} : Max({a, b}) >= y
  BY <1>1 DEF Max
<1> QED
  BY <1>2

(* wallet_save's text is four pieces of one key.                            *)
LEMMA JsonPieces ==
  ASSUME NEW key \in Keys
  PROVE  /\ WalletJson(key) \in Text /\ Len(WalletJson(key)) = 4
         /\ \A i \in 1 .. 4 : WalletJson(key)[i].field \in KeyField
                              /\ WalletJson(key)[i].of = key
         /\ WalletJson(key)[1].field = "priv1" /\ WalletJson(key)[2].field = "priv2"
         /\ WalletJson(key)[3].field = "pub" /\ WalletJson(key)[4].field = "address"
  BY DEF WalletJson, Piece, Text, Pieces, KeyField

(* A write leaves pieces of its own, pieces that were there, and gaps; the  *)
(* next stretch put after the first ones makes a longer beginning.          *)
LEMMA Overlaid ==
  ASSUME NEW key \in Keys, NEW text \in Text, NEW pos \in 0 .. 4, NEW n \in 1 .. 4 - pos
  PROVE  LET w == Overlay(text, pos, SubSeq(WalletJson(key), pos + 1, pos + n))
         IN /\ w \in Text
            /\ \A i \in 1 .. Len(w) :
                 \/ w[i].field = "gap" /\ w[i].of = NoKey
                 \/ w[i].field \in KeyField /\ w[i].of = key
                 \/ i \in 1 .. Len(text) /\ w[i] = text[i]
            /\ text = SubSeq(WalletJson(key), 1, pos) =>
                 w = SubSeq(WalletJson(key), 1, pos + n)
<1> DEFINE J == WalletJson(key)
           rest == SubSeq(J, pos + 1, pos + n)
           top == IF Len(text) >= pos + n THEN Len(text) ELSE pos + n
           w == Overlay(text, pos, rest)
<1>1. J \in Text /\ Len(J) = 4 /\ \A i \in 1 .. 4 : J[i].field \in KeyField /\ J[i].of = key
  BY JsonPieces
<1> HIDE DEF J
<1>0. pos \in Int /\ n \in Int /\ 0 <= pos /\ 1 <= n /\ pos + n <= 4
  OBVIOUS
<1>2. rest \in Text /\ Len(rest) = n /\ \A i \in 1 .. n : rest[i] = J[pos + i]
  <2>1. /\ pos + 1 \in Int /\ pos + n \in Int /\ pos + 1 <= pos + n
        /\ (pos + n) - (pos + 1) + 1 = n
        /\ \A i \in pos + 1 .. pos + n : J[i] \in Pieces
    <3>1. \A i \in 1 .. 4 : J[i] \in Pieces
      <4>1. J \in Seq(Pieces) /\ Len(J) = 4
        BY <1>1 DEF Text
      <4> QED
        BY <4>1, ElementOfSeq
    <3>2. \A i \in pos + 1 .. pos + n : i \in 1 .. 4
      BY <1>0
    <3> QED
      BY <1>0, <3>1, <3>2
  <2>2. rest \in Seq(Pieces)
    BY <2>1, SubSeqProperties
  <2>3. Len(rest) = n
    BY <1>0, <2>1, SubSeqProperties
  <2>4. \A i \in 1 .. n : rest[i] = J[pos + i]
    <3>1. \A i \in 1 .. (pos + n) - (pos + 1) + 1 : rest[i] = J[(pos + 1) + i - 1]
      BY <2>1, SubSeqProperties
    <3> QED
      BY <1>0, <2>1, <3>1
  <2> QED
    BY <2>2, <2>3, <2>4 DEF Text
<1>3. Len(text) \in Nat /\ \A i \in 1 .. Len(text) : text[i] \in Pieces
  BY DEF Text
<1> HIDE DEF rest
<1>4. w = [i \in 1 .. top |-> IF i > pos /\ i <= pos + n THEN rest[i - pos]
                             ELSE IF i <= Len(text) THEN text[i] ELSE Gap]
  <2>1. Len(text) \in Int /\ pos + Len(rest) \in Int /\ Len(rest) = n
    BY <1>0, <1>2, <1>3
  <2>2. Max({Len(text), pos + Len(rest)}) = top
    BY <2>1, MaxOfTwo
  <2> QED
    BY <2>1, <2>2 DEF Overlay
<1>5. top \in Nat
  BY <1>3
<1>6. \A i \in 1 .. top : i > pos /\ i <= pos + n => i - pos \in 1 .. n /\ w[i] = J[i]
  BY <1>0, <1>2, <1>4, <1>5
<1> HIDE DEF w, top
<1>7. w \in Text /\ Len(w) = top
  <2>1. Gap \in Pieces
    BY DEF Gap, Piece, Pieces
  <2>2. \A i \in 1 .. top :
          (IF i > pos /\ i <= pos + n THEN rest[i - pos]
           ELSE IF i <= Len(text) THEN text[i] ELSE Gap) \in Pieces
    BY <2>1, <1>0, <1>2, <1>3, <1>5 DEF Text
  <2> QED
    BY <2>2, <1>4, <1>5 DEF Text
<1>8. \A i \in 1 .. Len(w) :
        \/ w[i].field = "gap" /\ w[i].of = NoKey
        \/ w[i].field \in KeyField /\ w[i].of = key
        \/ i \in 1 .. Len(text) /\ w[i] = text[i]
  <2>1. \A i \in 1 .. Len(w) :
          \/ i \in 1 .. 4 /\ w[i] = J[i]
          \/ i \in 1 .. Len(text) /\ w[i] = text[i]
          \/ w[i] = Gap
    BY <1>0, <1>3, <1>4, <1>5, <1>6, <1>7
  <2>2. Gap.field = "gap" /\ Gap.of = NoKey
    BY DEF Gap, Piece
  <2> QED
    BY <1>1, <2>1, <2>2
<1>9. ASSUME text = SubSeq(J, 1, pos)
      PROVE  w = SubSeq(J, 1, pos + n)
  <2>1. Len(text) = pos /\ \A i \in 1 .. pos : text[i] = J[i]
    BY <1>0, <1>1, <1>9, SubSeqProperties DEF Text
  <2>2. top = pos + n
    BY <2>1 DEF top
  <2>3. \A i \in 1 .. pos + n : w[i] = J[i]
    BY <2>1, <2>2, <1>0, <1>4, <1>6
  <2>4. /\ SubSeq(J, 1, pos + n) \in Text
        /\ Len(SubSeq(J, 1, pos + n)) = pos + n
        /\ \A i \in 1 .. pos + n : SubSeq(J, 1, pos + n)[i] = J[i]
    <3>1. pos + n \in Int /\ 1 \in Int /\ 1 <= pos + n
      BY <1>0
    <3>3. J \in Seq(Pieces) /\ Len(J) = 4
      BY <1>1 DEF Text
    <3>4. \A i \in 1 .. pos + n : J[i] \in Pieces
      <4>1. \A i \in 1 .. pos + n : i \in 1 .. Len(J)
        BY <3>3, <1>0
      <4> QED
        BY <3>3, <4>1, ElementOfSeq
    <3>5. /\ SubSeq(J, 1, pos + n) \in Seq(Pieces)
          /\ Len(SubSeq(J, 1, pos + n)) = (pos + n) - 1 + 1
          /\ \A i \in 1 .. (pos + n) - 1 + 1 : SubSeq(J, 1, pos + n)[i] = J[1 + i - 1]
      BY <3>1, <3>4, SubSeqProperties
    <3> QED
      BY <3>1, <3>5 DEF Text
  <2> QED
    BY <2>2, <2>3, <2>4, <1>7 DEF Text
<1> QED
  BY <1>7, <1>8, <1>9 DEF J, rest, w

(* KeyIn gives the key of a piece of the text.                              *)
LEMMA KeyOfPiece ==
  ASSUME NEW text \in Text, NEW field, Holds(text, field)
  PROVE  \E i \in 1 .. Len(text) : text[i].field = field /\ KeyIn(text, field) = text[i].of
<1>1. \E p \in ToSet(text) : p.field = field
  BY DEF Holds, ToSet, Text
<1> DEFINE p == CHOOSE q \in ToSet(text) : q.field = field
<1>2. p \in ToSet(text) /\ p.field = field
  BY <1>1
<1>3. KeyIn(text, field) = p.of
  BY DEF KeyIn
<1> HIDE DEF p
<1> QED
  BY <1>2, <1>3 DEF ToSet, Text

(* wallet_load takes the key of a sound text for what it is.                *)
LEMMA LoadSound ==
  ASSUME NEW text \in Text, made \in Keys, Sound(text, made), WalletLoad(text).ok
  PROVE  WalletLoad(text).key \in FirstKey .. made
<1>1. /\ Parses(text) /\ Holds(text, "priv1") /\ Holds(text, "priv2")
      /\ Holds(text, "address") => KeyIn(text, "address") = DerivePubkey(text)
      /\ WalletLoad(text).key = DerivePubkey(text)
  BY DEF WalletLoad
<1>2. \A field \in KeyField : Holds(text, field) => KeyIn(text, field) \in FirstKey .. made
  <2> SUFFICES ASSUME NEW field \in KeyField, Holds(text, field)
               PROVE  KeyIn(text, field) \in FirstKey .. made
    OBVIOUS
  <2> QED
    BY KeyOfPiece DEF Sound
<1>3. CASE KeyIn(text, "priv1") = KeyIn(text, "priv2")
  BY <1>1, <1>2, <1>3 DEF DerivePubkey, KeyField
<1>4. CASE KeyIn(text, "priv1") # KeyIn(text, "priv2")
  <2>1. Len(text) \in 1 .. Len(text) /\ text[Len(text)].field \in {"address", "brace"}
    BY <1>1 DEF Parses, Last, Text
  <2>2. CASE text[Len(text)].field = "address"
    <3>1. Holds(text, "address")
      BY <2>1, <2>2 DEF Holds
    <3>2. KeyIn(text, "address") \in FirstKey .. made
      BY <3>1, <1>2 DEF KeyField
    <3> QED
      BY <1>1, <3>1, <3>2
  <2>3. CASE text[Len(text)].field = "brace"
    <3>1. \A i \in 1 .. Len(text) : text[i].field \in KeyField => text[i].of = FirstKey
      BY <2>1, <2>3 DEF Sound
    <3>2. KeyIn(text, "priv1") = FirstKey
      <4>1. PICK i \in 1 .. Len(text) : text[i].field = "priv1" /\ KeyIn(text, "priv1") = text[i].of
        BY <1>1, KeyOfPiece
      <4> QED
        BY <3>1, <4>1 DEF KeyField
    <3>3. KeyIn(text, "priv2") = FirstKey
      <4>1. PICK i \in 1 .. Len(text) : text[i].field = "priv2" /\ KeyIn(text, "priv2") = text[i].of
        BY <1>1, KeyOfPiece
      <4> QED
        BY <3>1, <4>1 DEF KeyField
    <3> QED
      BY <3>2, <3>3, <1>4
  <2> QED
    BY <2>1, <2>2, <2>3
<1> QED
  BY <1>3, <1>4

(* wallet_load reads back what wallet_save wrote.                           *)
LEMMA LoadWritten ==
  ASSUME NEW key \in Keys
  PROVE  WalletLoad(WalletJson(key)) = [ok |-> TRUE, key |-> key]
<1> DEFINE J == WalletJson(key)
<1>1. /\ J \in Text /\ Len(J) = 4
      /\ \A i \in 1 .. 4 : J[i].field \in KeyField /\ J[i].of = key
      /\ J[1].field = "priv1" /\ J[2].field = "priv2" /\ J[3].field = "pub"
      /\ J[4].field = "address"
  BY JsonPieces
<1> HIDE DEF J
<1>2. J # <<>> /\ Last(J) = J[4]
  <2>1. Len(J) = 4
    BY <1>1
  <2>2. J # <<>>
    BY <2>1
  <2> QED
    BY <2>1, <2>2 DEF Last
<1>3. ~Holds(J, "gap") /\ ~Holds(J, "otherversion")
  BY <1>1 DEF Holds, KeyField
<1>4. Holds(J, "priv1") /\ Holds(J, "priv2")
  BY <1>1 DEF Holds
<1>5. \A field : Holds(J, field) => KeyIn(J, field) = key
  <2> SUFFICES ASSUME NEW field, Holds(J, field)
               PROVE  KeyIn(J, field) = key
    OBVIOUS
  <2> QED
    BY KeyOfPiece, <1>1
<1>6. DerivePubkey(J) = key
  BY <1>4, <1>5 DEF DerivePubkey
<1>7. Parses(J)
  BY <1>1, <1>2, <1>3 DEF Parses
<1>8. WalletLoad(J) = [ok |-> TRUE, key |-> key]
  BY <1>3, <1>4, <1>5, <1>6, <1>7 DEF WalletLoad
<1> QED
  BY <1>8 DEF J
-----------------------------------------------------------------------------
(* The steps.                                                               *)

(* A step of process p that leaves the files alone and takes it to r: all   *)
(* the steps but those of wallet_save and the power loss.                   *)
Moves(p, r) ==
  /\ proc' = [proc EXCEPT ![p] = r]
  /\ r \in Process /\ Fits(r, made') /\ r.pc \notin Opened
  /\ made' \in Keys /\ made <= made'
  /\ UNCHANGED <<disk, stable, writers, due>>

LEMMA KeysNat == /\ Keys \subseteq Nat /\ MaxKeys \in Nat /\ FirstKey \in Keys
                 /\ FirstKey = 1 /\ NoKey = 0 /\ NoKey \notin Keys
  BY StartupAssumption DEF Keys, FirstKey, NoKey

LEMMA IdleFits == /\ Idle \in Process /\ Idle.pc = "idle" /\ Idle.pos = 0
                  /\ \A m : Fits(Idle, m)
  BY DEF Idle, Process, Verb, NoKey, Fits, Saving

(* A command leads to a process with its key file.                          *)
LEMMA StartMoves ==
  ASSUME Types, NEW p \in Procs, StartNode(p) \/ StartKeygen(p) \/ StartLoad(p)
  PROVE  \E r : Moves(p, r)
<1>1. CASE StartNode(p)
  <2>1. PICK s \in Starts :
          /\ s.verb = "txnode"
          /\ proc' = [proc EXCEPT ![p] = [Idle EXCEPT !.pc = "boot", !.args = s.args,
                                                     !.cfg = ResolveConfig(s.args)]]
    BY <1>1 DEF StartNode, Becomes
  <2> DEFINE r == [Idle EXCEPT !.pc = "boot", !.args = s.args, !.cfg = ResolveConfig(s.args)]
  <2>2. WalletPathForDatadir(ResolveConfig(s.args).datadir) \in Paths
    BY <2>1, StartupAssumption DEF PathOf
  <2>3. r \in Process /\ r.pc = "boot" /\ r.cfg = ResolveConfig(s.args) /\ r.pos = 0
    <3>1. s.args \in {t.args : t \in Starts}
      OBVIOUS
    <3>2. ResolveConfig(s.args) \in {ResolveConfig(t.args) : t \in Starts}
      OBVIOUS
    <3> QED
      BY <3>1, <3>2, IdleFits DEF Process
  <2> HIDE DEF r
  <2>4. Fits(r, made')
    BY <2>2, <2>3 DEF Fits, Saving
  <2>5. proc' = [proc EXCEPT ![p] = r] /\ UNCHANGED <<disk, stable, writers, due, made>>
    BY <2>1, <1>1 DEF StartNode, files, history, r
  <2>6. made' \in Keys /\ made <= made'
    BY <2>5, KeysNat DEF Types
  <2> QED
    BY <2>3, <2>4, <2>5, <2>6 DEF Moves, Opened
<1>2. CASE StartKeygen(p)
  <2>1. PICK s \in Starts :
          s.verb = "keygen"
          /\ WalletCreate(p, [Idle EXCEPT !.verb = s.verb, !.path = WalletPath(s.args, "--out")])
    BY <1>2 DEF StartKeygen
  <2> DEFINE q == [Idle EXCEPT !.verb = s.verb, !.path = WalletPath(s.args, "--out")]
             r == [q EXCEPT !.pc = "open", !.key = made + 1]
  <2>2. WalletPath(s.args, "--out") \in Paths
    BY <2>1, StartupAssumption DEF PathOf
  <2>3. made < MaxKeys /\ made' = made + 1 /\ proc' = [proc EXCEPT ![p] = r]
    BY <2>1 DEF WalletCreate, Becomes
  <2>4. made' \in Keys /\ made <= made' /\ made' \in FirstKey + 1 .. made'
    BY <2>3, StartupAssumption DEF Types, Keys, FirstKey
  <2>5. /\ r \in Process /\ r.pc = "open" /\ r.path = WalletPath(s.args, "--out")
        /\ r.key = made' /\ r.pos = 0
    BY <2>1, <2>2, <2>3, <2>4, IdleFits DEF Process, Verb
  <2> HIDE DEF r
  <2>6. Fits(r, made')
    BY <2>2, <2>4, <2>5 DEF Fits, Saving
  <2>7. UNCHANGED <<disk, stable, writers, due>>
    BY <1>2 DEF StartKeygen, files, history
  <2> QED
    BY <2>3, <2>4, <2>5, <2>6, <2>7 DEF Moves, Opened
<1>3. CASE StartLoad(p)
  <2>1. PICK s \in Starts :
          /\ s.verb \in {"address", "send"}
          /\ proc' = [proc EXCEPT ![p] = [Idle EXCEPT !.pc = "load", !.verb = s.verb,
                                                     !.path = WalletPath(s.args, "--key")]]
    BY <1>3 DEF StartLoad, Becomes
  <2> DEFINE r == [Idle EXCEPT !.pc = "load", !.verb = s.verb, !.path = WalletPath(s.args, "--key")]
  <2>2. WalletPath(s.args, "--key") \in Paths
    BY <2>1, StartupAssumption DEF PathOf
  <2>3. r \in Process /\ r.pc = "load" /\ r.path = WalletPath(s.args, "--key") /\ r.pos = 0
    BY <2>1, <2>2, IdleFits DEF Process, Verb
  <2> HIDE DEF r
  <2>4. Fits(r, made')
    BY <2>2, <2>3 DEF Fits, Saving
  <2>5. proc' = [proc EXCEPT ![p] = r] /\ UNCHANGED <<disk, stable, writers, due, made>>
    BY <2>1, <1>3 DEF StartLoad, files, history, r
  <2>6. made' \in Keys /\ made <= made'
    BY <2>5, KeysNat DEF Types
  <2> QED
    BY <2>3, <2>4, <2>5, <2>6 DEF Moves, Opened
<1> QED
  BY <1>1, <1>2, <1>3

(* So do the steps up to the key, and the end.                              *)
LEMMA LoadMoves ==
  ASSUME Types, TextInv, NEW p \in Procs,
         Boot(p) \/ LoadOrCreate(p) \/ LoadStat(p) \/ LoadRead(p) \/ Exit(p)
  PROVE  \E r : Moves(p, r)
<1> DEFINE q == proc[p]
<1>0. q \in Process /\ Fits(q, made) /\ made \in Nat /\ made <= made /\ made \in Keys
  BY KeysNat DEF Types
<1> HIDE DEF q
<1>1. CASE Ends(p) /\ UNCHANGED <<disk, stable, writers, due, made>>
  BY <1>0, <1>1, IdleFits DEF Ends, Becomes, Moves, Opened
<1>2. CASE Boot(p)
  <2> DEFINE r == [Idle EXCEPT !.pc = "find", !.path = WalletPathForDatadir(q.cfg.datadir)]
  <2>1. UNCHANGED <<disk, stable, writers, due, made>> /\ q.pc = "boot"
    BY <1>2 DEF Boot, files, history, q
  <2>2. Ends(p) \/ proc' = [proc EXCEPT ![p] = r]
    BY <1>2 DEF Boot, Becomes, q
  <2>3. r.path \in Paths /\ r \in Process /\ r.pc = "find" /\ r.pos = 0
    BY <2>1, <1>0 DEF Fits, Idle, Process, Verb, NoKey
  <2> HIDE DEF r
  <2>4. Fits(r, made')
    BY <2>3 DEF Fits, Saving
  <2> QED
    BY <2>1, <2>2, <2>3, <2>4, <1>0, <1>1 DEF Moves, Opened
<1>3. CASE LoadOrCreate(p)
  <2>1. UNCHANGED <<disk, stable, writers, due>> /\ q.pc = "find"
    BY <1>3 DEF LoadOrCreate, files, history, q
  <2>2. CASE disk[q.path].there
    <3> DEFINE r == [q EXCEPT !.pc = "load"]
    <3>1. proc' = [proc EXCEPT ![p] = r] /\ made' = made
      BY <2>2, <1>3 DEF LoadOrCreate, Becomes, q
    <3>2. r \in Process /\ r.pc = "load" /\ r.path = q.path /\ r.pos = q.pos
      BY <1>0 DEF Process
    <3> HIDE DEF r
    <3>3. Fits(r, made')
      BY <3>2, <2>1, <1>0 DEF Fits, Saving
    <3> QED
      BY <3>1, <3>2, <3>3, <2>1, <1>0 DEF Moves, Opened
  <2>3. CASE ~disk[q.path].there
    <3> DEFINE r == [q EXCEPT !.pc = "open", !.key = made + 1]
    <3>1. proc' = [proc EXCEPT ![p] = r] /\ made < MaxKeys /\ made' = made + 1
      BY <2>3, <1>3 DEF LoadOrCreate, WalletCreate, Becomes, q
    <3>2. made' \in Keys /\ made <= made' /\ made' \in FirstKey + 1 .. made'
      BY <3>1, StartupAssumption DEF Types, Keys, FirstKey
    <3>3. r \in Process /\ r.pc = "open" /\ r.path = q.path /\ r.pos = q.pos /\ r.key = made'
      BY <1>0, <3>1, <3>2 DEF Process
    <3> HIDE DEF r
    <3>4. Fits(r, made')
      BY <3>2, <3>3, <2>1, <1>0 DEF Fits, Saving
    <3> QED
      BY <3>1, <3>2, <3>3, <3>4, <2>1 DEF Moves, Opened
  <2> QED
    BY <2>2, <2>3
<1>4. CASE LoadStat(p)
  <2> DEFINE r == [q EXCEPT !.pc = "read", !.world_readable = disk[q.path].loose]
  <2>1. UNCHANGED <<disk, stable, writers, due, made>> /\ q.pc = "load"
    BY <1>4 DEF LoadStat, files, history, q
  <2>2. Ends(p) \/ proc' = [proc EXCEPT ![p] = r]
    BY <1>4 DEF LoadStat, Becomes, q
  <2>3. q.path \in Paths /\ disk[q.path].loose \in BOOLEAN
    BY <2>1, <1>0 DEF Fits, Types, File
  <2>4. r \in Process /\ r.pc = "read" /\ r.path = q.path /\ r.pos = q.pos
    BY <2>3, <1>0 DEF Process
  <2> HIDE DEF r
  <2>5. Fits(r, made')
    BY <2>1, <2>4, <1>0 DEF Fits, Saving
  <2> QED
    BY <2>1, <2>2, <2>4, <2>5, <1>0, <1>1 DEF Moves, Opened
<1>5. CASE LoadRead(p)
  <2> DEFINE l == WalletLoad(disk[q.path].text)
             r == [q EXCEPT !.pc = "ready", !.key = l.key]
  <2>1. UNCHANGED <<disk, stable, writers, due, made>> /\ q.pc = "read"
    BY <1>5 DEF LoadRead, files, history, q
  <2>2. Ends(p) \/ (l.ok /\ proc' = [proc EXCEPT ![p] = r])
    BY <1>5 DEF LoadRead, Becomes, q
  <2>3. CASE Ends(p)
    BY <2>1, <2>3, <1>1
  <2>4. CASE l.ok /\ proc' = [proc EXCEPT ![p] = r]
    <3>1. q.path \in Paths /\ disk[q.path].text \in Text /\ Sound(disk[q.path].text, made)
      BY <2>1, <1>0 DEF Fits, Types, File, TextInv
    <3>2. l.key \in FirstKey .. made
      BY <3>1, <2>4, <1>0, LoadSound
    <3> HIDE DEF l
    <3>3. l.key \in Keys
      BY <3>2, <1>0, StartupAssumption DEF Keys, FirstKey
    <3>4. r \in Process /\ r.pc = "ready" /\ r.path = q.path /\ r.pos = q.pos /\ r.key = l.key
      BY <3>3, <1>0 DEF Process
    <3> HIDE DEF r
    <3>5. Fits(r, made')
      BY <3>2, <3>4, <2>1, <1>0 DEF Fits, Saving
    <3> QED
      BY <3>4, <3>5, <2>1, <2>4, <1>0 DEF Moves, Opened
  <2> QED
    BY <2>2, <2>3, <2>4
<1>6. CASE Exit(p)
  BY <1>1, <1>6 DEF Exit, files, history
<1> QED
  BY <1>2, <1>3, <1>4, <1>5, <1>6
-----------------------------------------------------------------------------
(* The invariant is kept.                                                   *)

LEMMA MovesKeep ==
  ASSUME IInv, NEW p \in Procs, NEW r, Moves(p, r)
  PROVE  IInv'
<1>1. /\ UNCHANGED <<disk, stable, writers, due>>
      /\ r \in Process /\ Fits(r, made') /\ r.pc \notin Opened
      /\ made \in Nat /\ made' \in Nat /\ made' \in Keys /\ made <= made'
  BY KeysNat DEF Moves, IInv, Types
<1>2. /\ proc \in [Procs -> Process] /\ proc' \in [Procs -> Process]
      /\ proc'[p] = r /\ \A q \in Procs \ {p} : proc'[q] = proc[q]
  BY <1>1 DEF Moves, IInv, Types
<1>3. Types'
  <2>1. \A q : Fits(q, made) => Fits(q, made')
    BY <1>1, KeysNat DEF Fits
  <2>2. \A q \in Procs : Fits(proc'[q], made')
    BY <2>1, <1>1, <1>2 DEF IInv, Types
  <2> QED
    BY <2>2, <1>1, <1>2 DEF IInv, Types
<1>4. TextInv'
  <2>1. \A text : Sound(text, made) => Sound(text, made')
    BY <1>1, KeysNat DEF Sound
  <2> QED
    BY <2>1, <1>1, <1>2 DEF IInv, TextInv, Opened
<1>5. SaveInv'
  BY <1>1, <1>2 DEF IInv, SaveInv
<1> QED
  BY <1>3, <1>4, <1>5 DEF IInv

LEMMA SaveOpenKeeps ==
  ASSUME IInv, NEW p \in Procs, SaveOpen(p)
  PROVE  IInv'
<1> DEFINE r == [proc[p] EXCEPT !.pc = "chmod"]
           f == proc[p].path
           g == [there |-> TRUE, loose |-> disk[f].there /\ disk[f].loose, text |-> <<>>]
<1>1. /\ proc[p] \in Process /\ proc[p].pc = "open" /\ Fits(proc[p], made) /\ f \in Paths
      /\ UNCHANGED <<stable, made>>
      /\ disk \in [Paths -> File] /\ disk[f] \in File
  BY DEF SaveOpen, IInv, Types, Fits
<1>2. g \in File /\ g.text = <<>> /\ Len(g.text) = 0 /\ g.there
  BY <1>1 DEF File, Text
<1>3. /\ disk' \in [Paths -> File] /\ disk'[f] = g
      /\ \A h \in Paths \ {f} : disk'[h] = disk[h]
  <2>1. disk' = [disk EXCEPT ![f] = g]
    BY DEF SaveOpen
  <2> HIDE DEF g, f
  <2> QED
    BY <2>1, <1>1, <1>2
<1>4. r \in Process /\ r.pc = "chmod" /\ r.path = f /\ r.key = proc[p].key /\ r.pos = 0
  <2>1. r \in Process /\ r.pc = "chmod" /\ r.path = f /\ r.key = proc[p].key /\ r.pos = proc[p].pos
    BY <1>1 DEF Process
  <2> QED
    BY <2>1, <1>1 DEF Fits
<1>5. proc' = [proc EXCEPT ![p] = r]
  BY DEF SaveOpen, Becomes
<1> HIDE DEF r, f, g
<1>6. /\ proc' \in [Procs -> Process] /\ proc'[p] = r
      /\ \A q \in Procs \ {p} : proc'[q] = proc[q]
  BY <1>4, <1>5 DEF IInv, Types
<1>7. /\ writers' \in [Paths -> SUBSET Procs] /\ writers'[f] = {p}
      /\ \A h \in Paths \ {f} : writers'[h] = writers[h]
  <2>1. writers' = [writers EXCEPT ![f] = {p}]
    BY DEF SaveOpen, f
  <2> QED
    BY <2>1, <1>1 DEF IInv, Types
<1>8. /\ due' \in [Paths -> {NoKey} \cup Keys] /\ due'[f] = NoKey
      /\ \A h \in Paths \ {f} : due'[h] = due[h]
  <2>1. due' = [due EXCEPT ![f] = NoKey]
    BY DEF SaveOpen, f
  <2> QED
    BY <2>1, <1>1 DEF IInv, Types
<1>9. Types'
  <2>1. Fits(r, made')
    BY <1>1, <1>4 DEF Fits, Saving, f
  <2> QED
    BY <2>1, <1>1, <1>3, <1>6, <1>7, <1>8 DEF IInv, Types
<1>10. \A q \in Procs : proc[q].pc \in Opened => proc[q].path \in Paths
  BY DEF IInv, Types, Fits, Opened
<1>11. TextInv'
  <2>1. Sound(g.text, made) /\ Harmless(g)
    BY <1>2 DEF Sound, Harmless
  <2>2. \A h \in Paths : Sound(disk'[h].text, made') /\ Sound(stable'[h].text, made')
    BY <2>1, <1>1, <1>3 DEF IInv, TextInv
  <2>3. \A h \in Paths : Harmless(disk'[h]) /\ Harmless(stable'[h])
    BY <2>1, <1>1, <1>3 DEF IInv, TextInv
  <2>4. ASSUME NEW q \in Procs
        PROVE  /\ proc'[q].pc \in Opened =>
                    \A i \in 1 .. Len(disk'[proc'[q].path].text) :
                      disk'[proc'[q].path].text[i].field # "brace"
               /\ proc'[q].pc \in {"write", "sync"} => ~disk'[proc'[q].path].loose
    <3>1. CASE q = p
      BY <3>1, <1>2, <1>3, <1>4, <1>6
    <3>2. CASE q # p /\ proc[q].path = f
      <4>1. proc[q].pc \in {"write", "sync"} => ~disk[f].loose
        BY <3>2 DEF IInv, TextInv
      <4>2. ~disk[f].loose => ~g.loose
        BY DEF g
      <4> QED
        BY <3>2, <4>1, <4>2, <1>2, <1>3, <1>6
    <3>3. CASE q # p /\ proc[q].path # f
      <4>1. proc'[q] = proc[q]
        BY <3>3, <1>6
      <4>2. proc[q].pc \in Opened => disk'[proc[q].path] = disk[proc[q].path]
        BY <3>3, <1>3, <1>10
      <4> QED
        BY <4>1, <4>2 DEF IInv, TextInv, Opened
    <3> QED
      BY <3>1, <3>2, <3>3
  <2> QED
    BY <2>2, <2>3, <2>4 DEF TextInv
<1>12. SaveInv'
  <2>1. ASSUME NEW q \in Procs, proc'[q].pc \in Opened, writers'[proc'[q].path] = {q}
        PROVE  /\ disk'[proc'[q].path].there
               /\ disk'[proc'[q].path].text = SubSeq(WalletJson(proc'[q].key), 1, proc'[q].pos)
    <3>1. CASE q = p
      <4>1. SubSeq(WalletJson(proc'[q].key), 1, 0) = <<>>
        BY SubSeqEmpty
      <4> QED
        BY <3>1, <4>1, <1>2, <1>3, <1>4, <1>6
    <3>2. CASE q # p
      <4>1. proc'[q] = proc[q] /\ proc[q].path \in Paths
        BY <3>2, <2>1, <1>6, <1>10
      <4>2. proc[q].path # f
        BY <4>1, <3>2, <2>1, <1>7
      <4> QED
        BY <4>1, <4>2, <2>1, <1>3, <1>7 DEF IInv, SaveInv
    <3> QED
      BY <3>1, <3>2
  <2>2. \A h \in Paths : due'[h] # NoKey =>
          /\ disk'[h] = stable'[h]
          /\ disk'[h].there /\ ~disk'[h].loose
          /\ disk'[h].text = WalletJson(due'[h])
    BY <1>1, <1>3, <1>8 DEF IInv, SaveInv
  <2>3. ASSUME NEW q \in Procs, proc'[q].pc \in Opened
        PROVE  writers'[proc'[q].path] # {}
    <3>1. CASE q = p
      BY <3>1, <1>4, <1>6, <1>7
    <3>2. CASE q # p
      <4>1. proc'[q] = proc[q] /\ proc[q].path \in Paths /\ writers[proc[q].path] # {}
        BY <3>2, <2>3, <1>6, <1>10 DEF IInv, SaveInv
      <4>2. CASE proc[q].path = f
        BY <4>1, <4>2, <1>7
      <4>3. CASE proc[q].path # f
        BY <4>1, <4>3, <1>7
      <4> QED
        BY <4>2, <4>3
    <3> QED
      BY <3>1, <3>2
  <2> QED
    BY <2>1, <2>2, <2>3 DEF SaveInv
<1> QED
  BY <1>9, <1>11, <1>12 DEF IInv

LEMMA SaveChmodKeeps ==
  ASSUME IInv, NEW p \in Procs, SaveChmod(p)
  PROVE  IInv'
<1> DEFINE r == [proc[p] EXCEPT !.pc = "write"]
           f == proc[p].path
           g == [disk[f] EXCEPT !.loose = FALSE]
<1>1. /\ proc[p] \in Process /\ proc[p].pc = "chmod" /\ Fits(proc[p], made) /\ f \in Paths
      /\ UNCHANGED <<stable, made, writers, due>>
      /\ disk \in [Paths -> File] /\ disk[f] \in File
  BY DEF SaveChmod, IInv, Types, Fits, history
<1>2. /\ g \in File /\ g.text = disk[f].text /\ ~g.loose /\ g.there = disk[f].there
      /\ ~disk[f].loose => g = disk[f]
  BY <1>1 DEF File
<1>3. /\ disk' \in [Paths -> File] /\ disk'[f] = g
      /\ \A h \in Paths \ {f} : disk'[h] = disk[h]
  <2>1. disk' = [disk EXCEPT ![f] = g]
    BY DEF SaveChmod
  <2> HIDE DEF g, f
  <2> QED
    BY <2>1, <1>1, <1>2
<1>4. r \in Process /\ r.pc = "write" /\ r.path = f /\ r.key = proc[p].key /\ r.pos = proc[p].pos
  BY <1>1 DEF Process
<1>5. proc' = [proc EXCEPT ![p] = r]
  BY DEF SaveChmod, Becomes
<1> HIDE DEF r, f, g
<1>6. /\ proc' \in [Procs -> Process] /\ proc'[p] = r
      /\ \A q \in Procs \ {p} : proc'[q] = proc[q]
  BY <1>4, <1>5 DEF IInv, Types
<1>7. Types'
  <2>1. Fits(r, made')
    BY <1>1, <1>4 DEF Fits, Saving, f
  <2> QED
    BY <2>1, <1>1, <1>3, <1>6 DEF IInv, Types
<1>8. \A q \in Procs : proc[q].pc \in Opened => proc[q].path \in Paths
  BY DEF IInv, Types, Fits, Opened
<1>9. \A h \in Paths : disk'[h].text = disk[h].text
  BY <1>2, <1>3
<1>10. \A q \in Procs : proc'[q].pc \in Opened =>
         /\ proc[q].pc \in Opened /\ proc[q].path = proc'[q].path
         /\ proc[q].key = proc'[q].key /\ proc[q].pos = proc'[q].pos
         /\ q # p => proc'[q] = proc[q]
  BY <1>1, <1>4, <1>6 DEF Opened, f
<1>11. TextInv'
  <2>1. \A h \in Paths : Sound(disk'[h].text, made') /\ Sound(stable'[h].text, made')
    BY <1>1, <1>9 DEF IInv, TextInv
  <2>2. \A h \in Paths : Harmless(disk'[h]) /\ Harmless(stable'[h])
    <3>1. Harmless(g)
      BY <1>2 DEF Harmless
    <3> QED
      BY <3>1, <1>1, <1>3 DEF IInv, TextInv
  <2>3. ASSUME NEW q \in Procs
        PROVE  proc'[q].pc \in Opened =>
                 \A i \in 1 .. Len(disk'[proc'[q].path].text) :
                   disk'[proc'[q].path].text[i].field # "brace"
    BY <1>8, <1>9, <1>10 DEF IInv, TextInv
  <2>4. ASSUME NEW q \in Procs, proc'[q].pc \in {"write", "sync"}
        PROVE  ~disk'[proc'[q].path].loose
    <3>1. CASE q = p
      BY <3>1, <1>2, <1>3, <1>4, <1>6
    <3>2. CASE q # p
      <4>1. proc'[q] = proc[q] /\ proc[q].path \in Paths /\ ~disk[proc[q].path].loose
        BY <3>2, <2>4, <1>6, <1>8 DEF IInv, TextInv, Opened
      <4>2. CASE proc[q].path = f
        BY <4>1, <4>2, <1>2, <1>3
      <4>3. CASE proc[q].path # f
        BY <4>1, <4>3, <1>3
      <4> QED
        BY <4>2, <4>3
    <3> QED
      BY <3>1, <3>2
  <2> QED
    BY <2>1, <2>2, <2>3, <2>4 DEF TextInv
<1>12. SaveInv'
  <2>1. ASSUME NEW q \in Procs, proc'[q].pc \in Opened, writers'[proc'[q].path] = {q}
        PROVE  /\ disk'[proc'[q].path].there
               /\ disk'[proc'[q].path].text = SubSeq(WalletJson(proc'[q].key), 1, proc'[q].pos)
    <3> DEFINE h == proc[q].path
    <3>1. /\ proc'[q].path = h /\ h \in Paths /\ proc'[q].key = proc[q].key
          /\ proc'[q].pos = proc[q].pos /\ proc[q].pc \in Opened /\ writers[h] = {q}
      BY <2>1, <1>1, <1>8, <1>10
    <3>2. disk[h].there /\ disk[h].text = SubSeq(WalletJson(proc[q].key), 1, proc[q].pos)
      BY <3>1 DEF IInv, SaveInv
    <3> HIDE DEF h
    <3>3. disk'[h].text = disk[h].text
      BY <3>1, <1>9
    <3>4. disk'[h].there
      <4>1. CASE h = f
        BY <4>1, <3>2, <1>2, <1>3
      <4>2. CASE h # f
        BY <4>2, <3>1, <3>2, <1>3
      <4> QED
        BY <4>1, <4>2
    <3> QED
      BY <3>1, <3>2, <3>3, <3>4
  <2>2. \A h \in Paths : due'[h] # NoKey =>
          /\ disk'[h] = stable'[h]
          /\ disk'[h].there /\ ~disk'[h].loose
          /\ disk'[h].text = WalletJson(due'[h])
    <3> SUFFICES ASSUME NEW h \in Paths, due[h] # NoKey
                 PROVE  /\ disk'[h] = stable'[h]
                        /\ disk'[h].there /\ ~disk'[h].loose
                        /\ disk'[h].text = WalletJson(due'[h])
      BY <1>1
    <3>1. /\ disk[h] = stable[h] /\ disk[h].there /\ ~disk[h].loose
          /\ disk[h].text = WalletJson(due[h])
      BY DEF IInv, SaveInv
    <3>2. disk'[h] = disk[h]
      <4>1. CASE h = f
        BY <4>1, <3>1, <1>2, <1>3
      <4>2. CASE h # f
        BY <4>2, <1>3
      <4> QED
        BY <4>1, <4>2
    <3> QED
      BY <3>1, <3>2, <1>1
  <2>3. \A q \in Procs : proc'[q].pc \in Opened => writers'[proc'[q].path] # {}
    BY <1>1, <1>10 DEF IInv, SaveInv
  <2> QED
    BY <2>1, <2>2, <2>3 DEF SaveInv
<1> QED
  BY <1>7, <1>11, <1>12 DEF IInv

LEMMA SaveWriteKeeps ==
  ASSUME IInv, NEW p \in Procs, SaveWrite(p)
  PROVE  IInv'
<1> DEFINE f == proc[p].path
           key == proc[p].key
           pos == proc[p].pos
           J == WalletJson(key)
<1>1. /\ proc[p] \in Process /\ proc[p].pc = "write" /\ Fits(proc[p], made) /\ f \in Paths
      /\ UNCHANGED <<stable, made>>
      /\ disk \in [Paths -> File] /\ disk[f] \in File /\ disk[f].text \in Text
  BY DEF SaveWrite, IInv, Types, Fits, File
<1>2. /\ made \in Keys /\ made \in Nat /\ key \in FirstKey + 1 .. made /\ key \in Keys
      /\ pos \in 0 .. 4
  <2>1. made \in Keys /\ key \in FirstKey + 1 .. made /\ pos \in 0 .. 4
    BY <1>1 DEF IInv, Types, Fits, Saving, Process
  <2> QED
    BY <2>1, StartupAssumption DEF Keys, FirstKey
<1>3. Len(J) = 4
  BY <1>2, JsonPieces
<1>4. PICK n \in 1 .. 4 - pos :
        /\ WriteSome(p, n)
        /\ proc' = [proc EXCEPT ![p] = [proc[p] EXCEPT
             !.pos = pos + n, !.pc = IF pos + n = Len(J) THEN "sync" ELSE "write"]]
  BY <1>3 DEF SaveWrite, Becomes
<1> DEFINE w == Overlay(disk[f].text, pos, SubSeq(J, pos + 1, pos + n))
           g == [disk[f] EXCEPT !.text = w]
           r == [proc[p] EXCEPT !.pos = pos + n, !.pc = IF pos + n = Len(J) THEN "sync" ELSE "write"]
<1>5. /\ w \in Text
      /\ \A i \in 1 .. Len(w) :
           \/ w[i].field = "gap" /\ w[i].of = NoKey
           \/ w[i].field \in KeyField /\ w[i].of = key
           \/ i \in 1 .. Len(disk[f].text) /\ w[i] = disk[f].text[i]
      /\ disk[f].text = SubSeq(J, 1, pos) => w = SubSeq(J, 1, pos + n)
  BY <1>1, <1>2, Overlaid
<1>6. /\ disk' = [disk EXCEPT ![f] = g]
      /\ writers' = [writers EXCEPT ![f] = @ \cup {p}]
      /\ due' = [due EXCEPT ![f] = NoKey]
  BY <1>4 DEF WriteSome
<1> HIDE DEF w
<1>7. g \in File /\ g.text = w /\ g.there = disk[f].there /\ g.loose = disk[f].loose
  BY <1>1, <1>5 DEF File
<1>8. pos + n \in 0 .. 4 /\ pos + n \in Int
  BY <1>2
<1>9. /\ r \in Process /\ r.pc \in {"write", "sync"} /\ r.path = f /\ r.key = key
      /\ r.pos = pos + n /\ (r.pc = "sync" => pos + n = 4)
  BY <1>1, <1>3, <1>8 DEF Process
<1>10. proc' = [proc EXCEPT ![p] = r]
  BY <1>4
<1> HIDE DEF g, r, J, key, pos
<1>11. /\ disk' \in [Paths -> File] /\ disk'[f] = g
       /\ \A h \in Paths \ {f} : disk'[h] = disk[h]
  <2> HIDE DEF f
  <2> QED
    BY <1>1, <1>6, <1>7
<1>12. /\ proc' \in [Procs -> Process] /\ proc'[p] = r
       /\ \A q \in Procs \ {p} : proc'[q] = proc[q]
  BY <1>9, <1>10 DEF IInv, Types
<1>13. /\ writers' \in [Paths -> SUBSET Procs] /\ writers'[f] = writers[f] \cup {p}
       /\ \A h \in Paths \ {f} : writers'[h] = writers[h]
  <2> HIDE DEF f
  <2> QED
    BY <1>1, <1>6 DEF IInv, Types
<1>14. /\ due' \in [Paths -> {NoKey} \cup Keys] /\ due'[f] = NoKey
       /\ \A h \in Paths \ {f} : due'[h] = due[h]
  <2> HIDE DEF f
  <2> QED
    BY <1>1, <1>6 DEF IInv, Types
<1>15. Types'
  <2>1. Fits(r, made')
    BY <1>1, <1>2, <1>9 DEF Fits, Saving
  <2> QED
    BY <2>1, <1>1, <1>11, <1>12, <1>13, <1>14 DEF IInv, Types
<1>16. \A q \in Procs : proc[q].pc \in Opened => proc[q].path \in Paths
  BY DEF IInv, Types, Fits, Opened
<1>17. \A i \in 1 .. Len(w) :
         /\ w[i].field # "brace"
         /\ w[i].field \in KeyField => w[i].of \in FirstKey .. made
  <2>1. \A i \in 1 .. Len(disk[f].text) :
          /\ disk[f].text[i].field # "brace"
          /\ disk[f].text[i].field \in KeyField => disk[f].text[i].of \in FirstKey .. made
    BY <1>1 DEF IInv, TextInv, Sound, Opened
  <2>2. key \in FirstKey .. made
    BY <1>2, KeysNat
  <2> QED
    BY <2>1, <2>2, <1>5 DEF KeyField
<1>18. ~g.loose
  <2>1. ~disk[f].loose
    BY <1>1 DEF IInv, TextInv
  <2> QED
    BY <2>1, <1>7
<1> HIDE DEF f
<1>19. TextInv'
  <2>1. Sound(g.text, made) /\ Harmless(g)
    BY <1>7, <1>17, <1>18 DEF Sound, Harmless
  <2>2. \A h \in Paths : Sound(disk'[h].text, made') /\ Sound(stable'[h].text, made')
    BY <2>1, <1>1, <1>11 DEF IInv, TextInv
  <2>3. \A h \in Paths : Harmless(disk'[h]) /\ Harmless(stable'[h])
    BY <2>1, <1>1, <1>11 DEF IInv, TextInv
  <2>4. ASSUME NEW q \in Procs
        PROVE  /\ proc'[q].pc \in Opened =>
                    \A i \in 1 .. Len(disk'[proc'[q].path].text) :
                      disk'[proc'[q].path].text[i].field # "brace"
               /\ proc'[q].pc \in {"write", "sync"} => ~disk'[proc'[q].path].loose
    <3>1. CASE proc'[q].path = f
      BY <3>1, <1>7, <1>11, <1>17, <1>18
    <3>2. CASE proc'[q].path # f
      <4>1. proc'[q] = proc[q]
        BY <3>2, <1>9, <1>12
      <4>2. proc[q].pc \in Opened => disk'[proc[q].path] = disk[proc[q].path]
        BY <3>2, <4>1, <1>11, <1>16
      <4> QED
        BY <4>1, <4>2 DEF IInv, TextInv, Opened
    <3> QED
      BY <3>1, <3>2
  <2> QED
    BY <2>2, <2>3, <2>4 DEF TextInv
<1>20. SaveInv'
  <2>1. ASSUME NEW q \in Procs, proc'[q].pc \in Opened
        PROVE  writers'[proc'[q].path] # {}
    <3>1. CASE proc'[q].path = f
      BY <3>1, <1>13
    <3>2. CASE proc'[q].path # f
      BY <3>2, <2>1, <1>9, <1>12, <1>13, <1>16 DEF IInv, SaveInv
    <3> QED
      BY <3>1, <3>2
  <2>2. ASSUME NEW q \in Procs, proc'[q].pc \in Opened, writers'[proc'[q].path] = {q}
        PROVE  /\ disk'[proc'[q].path].there
               /\ disk'[proc'[q].path].text = SubSeq(WalletJson(proc'[q].key), 1, proc'[q].pos)
    <3>1. CASE q = p
      <4>1. writers'[f] = {p} /\ writers[f] # {}
        BY <3>1, <2>2, <1>1, <1>9, <1>12 DEF IInv, SaveInv, Opened, f
      <4>2. writers[f] = {p}
        BY <4>1, <1>13
      <4>3. disk[f].there /\ disk[f].text = SubSeq(J, 1, pos)
        BY <4>2, <1>1 DEF IInv, SaveInv, Opened, J, key, pos, f
      <4>4. g.there /\ g.text = SubSeq(J, 1, pos + n)
        BY <4>3, <1>5, <1>7
      <4> QED
        BY <3>1, <4>4, <1>9, <1>11, <1>12 DEF J
    <3>2. CASE q # p
      <4>1. proc'[q] = proc[q] /\ proc[q].path \in Paths
        BY <3>2, <2>2, <1>12, <1>16
      <4>2. proc[q].path # f
        BY <4>1, <3>2, <2>2, <1>13
      <4> QED
        BY <4>1, <4>2, <2>2, <1>11, <1>13 DEF IInv, SaveInv
    <3> QED
      BY <3>1, <3>2
  <2>3. \A h \in Paths : due'[h] # NoKey =>
          /\ disk'[h] = stable'[h]
          /\ disk'[h].there /\ ~disk'[h].loose
          /\ disk'[h].text = WalletJson(due'[h])
    BY <1>1, <1>11, <1>14 DEF IInv, SaveInv
  <2> QED
    BY <2>1, <2>2, <2>3 DEF SaveInv
<1> QED
  BY <1>15, <1>19, <1>20 DEF IInv

LEMMA SaveSyncKeeps ==
  ASSUME IInv, NEW p \in Procs, SaveSync(p)
  PROVE  IInv'
<1> DEFINE f == proc[p].path
           key == proc[p].key
           r == [proc[p] EXCEPT !.pc = "ready", !.pos = 0]
           k == IF writers[f] = {p} THEN key ELSE NoKey
<1>1. /\ proc[p] \in Process /\ proc[p].pc = "sync" /\ Fits(proc[p], made) /\ f \in Paths
      /\ UNCHANGED <<disk, made, writers>>
      /\ stable' = [stable EXCEPT ![f] = disk[f]]
      /\ due' = [due EXCEPT ![f] = k]
  BY DEF SaveSync, IInv, Types, Fits
<1>2. made \in Keys /\ key \in FirstKey + 1 .. made /\ key \in Keys /\ key \in FirstKey .. made
      /\ proc[p].pos = 4
  <2>1. made \in Keys /\ key \in FirstKey + 1 .. made /\ proc[p].pos = 4
    BY <1>1 DEF IInv, Types, Fits, Saving
  <2> QED
    BY <2>1, StartupAssumption DEF Keys, FirstKey
<1>3. r \in Process /\ r.pc = "ready" /\ r.path = f /\ r.key = key /\ r.pos = 0
  <2>1. proc[p] \in Process /\ 0 \in 0 .. 4
    BY <1>1
  <2> QED
    BY <2>1 DEF Process
<1>4. proc' = [proc EXCEPT ![p] = r]
  BY DEF SaveSync, Becomes
<1> HIDE DEF f, key, r, k
<1>5. /\ proc' \in [Procs -> Process] /\ proc'[p] = r
      /\ \A q \in Procs \ {p} : proc'[q] = proc[q]
  BY <1>3, <1>4 DEF IInv, Types
<1>6. /\ stable' \in [Paths -> File] /\ stable'[f] = disk[f]
      /\ \A h \in Paths \ {f} : stable'[h] = stable[h]
  BY <1>1 DEF IInv, Types
<1>7. /\ due' \in [Paths -> {NoKey} \cup Keys] /\ due'[f] = k
      /\ \A h \in Paths \ {f} : due'[h] = due[h]
  BY <1>1, <1>2 DEF IInv, Types, k
<1>8. Types'
  <2>1. Fits(r, made')
    BY <1>1, <1>2, <1>3 DEF Fits, Saving
  <2> QED
    BY <2>1, <1>1, <1>5, <1>6, <1>7 DEF IInv, Types
<1>9. TextInv'
  <2>1. \A h \in Paths : Sound(stable'[h].text, made') /\ Harmless(stable'[h])
    BY <1>1, <1>6 DEF IInv, TextInv
  <2>2. \A q \in Procs : proc'[q].pc \in Opened => proc'[q] = proc[q]
    BY <1>3, <1>5 DEF Opened
  <2> QED
    BY <2>1, <2>2, <1>1 DEF IInv, TextInv, Opened
<1>10. SaveInv'
  <2>1. \A q \in Procs : proc'[q].pc \in Opened => proc'[q] = proc[q]
    BY <1>3, <1>5 DEF Opened
  <2>2. ASSUME k # NoKey
        PROVE  disk[f].there /\ ~disk[f].loose /\ disk[f].text = WalletJson(k)
    <3>1. writers[f] = {p} /\ k = key
      BY <2>2 DEF k
    <3>2. disk[f].there /\ disk[f].text = SubSeq(WalletJson(key), 1, 4)
      BY <3>1, <1>1, <1>2 DEF IInv, SaveInv, Opened, f, key
    <3>3. SubSeq(WalletJson(key), 1, 4) = WalletJson(key)
      <4>1. WalletJson(key) \in Seq(Pieces) /\ Len(WalletJson(key)) = 4
        BY <1>2, JsonPieces DEF Text
      <4> QED
        BY <4>1, SubSeqFull
    <3>4. ~disk[f].loose
      BY <1>1 DEF IInv, TextInv, f
    <3> QED
      BY <3>1, <3>2, <3>3, <3>4
  <2>3. ASSUME NEW h \in Paths, due'[h] # NoKey
        PROVE  /\ disk'[h] = stable'[h]
               /\ disk'[h].there /\ ~disk'[h].loose
               /\ disk'[h].text = WalletJson(due'[h])
    <3>1. CASE h = f
      BY <3>1, <2>2, <2>3, <1>1, <1>6, <1>7
    <3>2. CASE h # f
      BY <3>2, <2>3, <1>1, <1>6, <1>7 DEF IInv, SaveInv
    <3> QED
      BY <3>1, <3>2
  <2> QED
    <3>1. \A q \in Procs : proc'[q].pc \in Opened => writers'[proc'[q].path] # {}
      BY <2>1, <1>1 DEF IInv, SaveInv
    <3>2. ASSUME NEW q \in Procs, proc'[q].pc \in Opened, writers'[proc'[q].path] = {q}
          PROVE  /\ disk'[proc'[q].path].there
                 /\ disk'[proc'[q].path].text = SubSeq(WalletJson(proc'[q].key), 1, proc'[q].pos)
      BY <3>2, <2>1, <1>1 DEF IInv, SaveInv
    <3> QED
      BY <3>1, <3>2, <2>3 DEF SaveInv
<1> QED
  BY <1>8, <1>9, <1>10 DEF IInv

(* The beginning of a text is as sound as the text.                         *)
LEMMA CutFile ==
  ASSUME NEW file \in File, NEW n \in 0 .. Len(file.text), NEW m
  PROVE  LET g == [file EXCEPT !.text = SubSeq(@, 1, n)]
         IN /\ g \in File
            /\ Sound(file.text, m) => Sound(g.text, m)
            /\ Harmless(file) => Harmless(g)
<1> DEFINE t == file.text
           c == SubSeq(t, 1, n)
           g == [file EXCEPT !.text = c]
<1>1. t \in Seq(Pieces) /\ Len(t) \in Nat /\ n \in Int /\ 0 <= n /\ n <= Len(t)
  BY DEF File, Text
<1> HIDE DEF t
<1>2. \A i \in 1 .. n : t[i] \in Pieces
  <2>1. \A i \in 1 .. n : i \in 1 .. Len(t)
    BY <1>1
  <2> QED
    BY <2>1, <1>1, ElementOfSeq
<1>3. /\ c \in Seq(Pieces) /\ Len(c) = (IF 1 <= n THEN n - 1 + 1 ELSE 0)
      /\ \A i \in 1 .. n - 1 + 1 : c[i] = t[1 + i - 1]
  BY <1>1, <1>2, SubSeqProperties
<1> HIDE DEF c
<1>4. c \in Text /\ \A i \in 1 .. Len(c) : i \in 1 .. Len(t) /\ c[i] = t[i]
  BY <1>1, <1>3 DEF Text
<1>5. g \in File /\ g.text = c /\ g.loose = file.loose
  BY <1>4 DEF File
<1> HIDE DEF g
<1>6. Sound(t, m) => Sound(g.text, m)
  BY <1>4, <1>5 DEF Sound
<1>7. Harmless(file) => Harmless(g)
  BY <1>4, <1>5 DEF Harmless, t
<1> QED
  BY <1>5, <1>6, <1>7 DEF g, c, t

LEMMA PowerLossKeeps ==
  ASSUME IInv, PowerLoss
  PROVE  IInv'
<1>1. /\ UNCHANGED <<made, writers, due>> /\ disk' = stable'
      /\ proc' = [p \in Procs |-> Idle]
      /\ DOMAIN disk' = Paths /\ disk' = [f \in Paths |-> disk'[f]]
      /\ \A f \in Paths : disk'[f] \in IF disk[f] = stable[f] THEN {stable[f]} ELSE Remains(f)
  <2>1. PICK d \in [Paths -> UNION {Remains(f) : f \in Paths}] :
          /\ \A f \in Paths : d[f] \in IF disk[f] = stable[f] THEN {stable[f]} ELSE Remains(f)
          /\ disk' = d /\ stable' = d
    BY DEF PowerLoss
  <2> QED
    BY <2>1 DEF PowerLoss, history
<1>2. ASSUME NEW f \in Paths
      PROVE  /\ disk'[f] \in File
             /\ Sound(disk'[f].text, made') /\ Harmless(disk'[f])
             /\ disk[f] = stable[f] => disk'[f] = stable[f]
  <2>1. /\ disk[f] \in File /\ stable[f] \in File
        /\ Sound(disk[f].text, made) /\ Sound(stable[f].text, made)
        /\ Harmless(disk[f]) /\ Harmless(stable[f])
    BY DEF IInv, Types, TextInv
  <2>2. CASE disk'[f] = stable[f]
    BY <2>1, <2>2, <1>1
  <2>3. CASE \E n \in 0 .. Len(disk[f].text) : disk'[f] = [disk[f] EXCEPT !.text = SubSeq(@, 1, n)]
    <3>1. PICK n \in 0 .. Len(disk[f].text) : disk'[f] = [disk[f] EXCEPT !.text = SubSeq(@, 1, n)]
      BY <2>3
    <3>2. disk'[f] \in File /\ Sound(disk'[f].text, made) /\ Harmless(disk'[f])
      BY <2>1, <3>1, CutFile
    <3> QED
      BY <3>2, <1>1
  <2> QED
    BY <2>2, <2>3, <1>1 DEF Remains
<1>3. \A p \in Procs : proc'[p] = Idle
  BY <1>1
<1>4. Types'
  BY <1>1, <1>2, <1>3, IdleFits DEF IInv, Types
<1>5. TextInv'
  BY <1>1, <1>2, <1>3, IdleFits DEF TextInv, Opened
<1>6. SaveInv'
  BY <1>1, <1>2, <1>3, IdleFits DEF IInv, SaveInv, Opened
<1> QED
  BY <1>4, <1>5, <1>6 DEF IInv

LEMMA InitIInv == Init => IInv
<1> SUFFICES ASSUME Init PROVE IInv
  OBVIOUS
<1>1. /\ stable = disk /\ proc = [p \in Procs |-> Idle] /\ made = FirstKey
      /\ writers = [f \in Paths |-> {}] /\ due = [f \in Paths |-> NoKey]
      /\ \A p \in Procs : proc[p] = Idle
  BY DEF Init
<1>2. \A f \in Paths : /\ disk[f] \in File
                       /\ \A i \in 1 .. Len(disk[f].text) : disk[f].text[i].of =
                            IF disk[f].text[i].field \in KeyField THEN FirstKey ELSE NoKey
  BY StartupAssumption DEF Init
<1>3. Types
  <2>1. disk \in [Paths -> File]
    BY <1>2 DEF Init
  <2> QED
    BY <2>1, <1>1, KeysNat, IdleFits DEF Types
<1>4. TextInv
  <2>1. \A f \in Paths : Sound(disk[f].text, FirstKey) /\ Harmless(disk[f])
    BY <1>2, KeysNat DEF Sound, Harmless
  <2> QED
    BY <2>1, <1>1, IdleFits DEF TextInv, Opened
<1>5. SaveInv
  BY <1>1, IdleFits DEF SaveInv, Opened
<1> QED
  BY <1>3, <1>4, <1>5 DEF IInv

LEMMA StepIInv == IInv /\ [Next]_vars => IInv'
<1> SUFFICES ASSUME IInv, [Next]_vars PROVE IInv'
  OBVIOUS
<1>1. ASSUME NEW p \in Procs,
             StartNode(p) \/ StartKeygen(p) \/ StartLoad(p)
      PROVE  IInv'
  BY <1>1, StartMoves, MovesKeep DEF IInv
<1>2. ASSUME NEW p \in Procs,
             Boot(p) \/ LoadOrCreate(p) \/ LoadStat(p) \/ LoadRead(p) \/ Exit(p)
      PROVE  IInv'
  BY <1>2, LoadMoves, MovesKeep DEF IInv
<1>3. ASSUME NEW p \in Procs,
             SaveOpen(p) \/ SaveChmod(p) \/ SaveWrite(p) \/ SaveSync(p)
      PROVE  IInv'
  BY <1>3, SaveOpenKeeps, SaveChmodKeeps, SaveWriteKeeps, SaveSyncKeeps
<1>4. CASE UNCHANGED vars
  BY <1>4 DEF vars, IInv, Types, TextInv, SaveInv
<1>5. CASE Over
  BY <1>4, <1>5 DEF Over
<1> QED
  BY <1>1, <1>2, <1>3, <1>4, <1>5, PowerLossKeeps DEF Next

LEMMA Inductive == Spec => []IInv
  BY InitIInv, StepIInv, PTL DEF Spec

-----------------------------------------------------------------------------
(* Whatever kills, power losses and writers side by side leave in a key     *)
(* file, wallet_load refuses it or gives a key that somebody made.          *)
THEOREM OnlyMadeKeysLoad == Spec => []LoadedIsMade
<1>1. IInv => LoadedIsMade
  BY DEF IInv, Types, Fits, LoadedIsMade
<1> QED
  BY <1>1, Inductive, PTL

(* wallet_save never puts a key it made into a file that others may read,   *)
(* whatever the mode of the file it found: fchmod comes before the first    *)
(* write, and no writer beside it undoes it.                                *)
THEOREM KeysStayPrivate == Spec => []PrivateAtRest
<1>1. IInv => PrivateAtRest
  BY DEF IInv, TextInv, Harmless, PrivateAtRest
<1> QED
  BY <1>1, Inductive, PTL

(* A key whose address was printed is the one the next start finds, across  *)
(* kills and power losses, until someone else saves to the file.            *)
THEOREM ReportedKeysStay == Spec => []ReportedIsSaved
<1>1. IInv => ReportedIsSaved
  <2> SUFFICES ASSUME IInv, NEW f \in Paths, due[f] # NoKey
               PROVE  disk[f].there /\ WalletLoad(disk[f].text) = [ok |-> TRUE, key |-> due[f]]
    BY DEF ReportedIsSaved
  <2>1. due[f] \in Keys /\ disk[f].there /\ disk[f].text = WalletJson(due[f])
    BY DEF IInv, Types, SaveInv
  <2> QED
    BY <2>1, LoadWritten
<1> QED
  BY <1>1, Inductive, PTL

-----------------------------------------------------------------------------
(* The configuration.                                                       *)

(* A set of numbers with 0 and with the successor of each of its members    *)
(* has them all: induction over Nat, from the well-foundedness of <.        *)
LEMMA SetInduction ==
  ASSUME NEW T, 0 \in T, \A n \in Nat : n \in T => n + 1 \in T
  PROVE  Nat \subseteq T
<1>. SUFFICES ASSUME Nat \ T # {} PROVE FALSE
  OBVIOUS
<1>1. PICK x \in Nat \ T : \A y \in Nat \ T : ~(<<y, x>> \in OpToRel(<, Nat))
  BY NatLessThanWellFounded, WFMin
<1>2. x # 0 /\ x - 1 \in Nat /\ (x - 1) + 1 = x
  OBVIOUS
<1>3. <<x - 1, x>> \in OpToRel(<, Nat)
  BY <1>1, <1>2 DEF OpToRel
<1>4. x - 1 \notin Nat \ T
  BY <1>1, <1>3
<1>. QED  BY <1>1, <1>2, <1>4

(* FoldLeft goes through the initial segments of a sequence: their largest  *)
(* index.                                                                   *)
LEMMA MaxSegment ==
  /\ \A n \in Nat : 1 .. n + 1 # {} /\ Max(1 .. n + 1) = n + 1 /\ (1 .. n + 1) \ {n + 1} = 1 .. n
  /\ 1 .. 0 = {}
<1>1. ASSUME NEW n \in Nat PROVE Max(1 .. n + 1) = n + 1
  <2>. DEFINE m == Max(1 .. n + 1)
  <2>1. n + 1 \in 1 .. n + 1 /\ \A y \in 1 .. n + 1 : n + 1 >= y
    OBVIOUS
  <2>2. m \in 1 .. n + 1 /\ \A y \in 1 .. n + 1 : m >= y
    BY <2>1 DEF Max
  <2>. HIDE DEF m
  <2>3. m = n + 1
    BY <2>1, <2>2
  <2>. QED  BY <2>3 DEF m
<1>2. ASSUME NEW n \in Nat PROVE 1 .. n + 1 # {} /\ (1 .. n + 1) \ {n + 1} = 1 .. n
  OBVIOUS
<1>3. 1 .. 0 = {}
  OBVIOUS
<1>. QED  BY <1>1, <1>2, <1>3

(* ... and the largest of any set of indices is one of them.                *)
LEMMA MaxOfIndices ==
  ASSUME NEW m \in Nat, NEW s \in SUBSET (1 .. m), s # {}
  PROVE  Max(s) \in s
<1>. DEFINE T == {n \in Nat : \A r \in SUBSET (1 .. n) :
                                r # {} => \E x \in r : \A y \in r : x >= y}
<1>1. 0 \in T
  <2>1. 1 .. 0 = {}
    OBVIOUS
  <2>. QED  BY <2>1
<1>2. ASSUME NEW n \in Nat, n \in T PROVE n + 1 \in T
  <2>. SUFFICES ASSUME NEW r \in SUBSET (1 .. n + 1), r # {}
                PROVE  \E x \in r : \A y \in r : x >= y
    OBVIOUS
  <2>1. CASE n + 1 \in r
    <3>1. \A y \in r : n + 1 >= y
      OBVIOUS
    <3>. QED  BY <2>1, <3>1
  <2>2. CASE n + 1 \notin r
    <3>1. r \in SUBSET (1 .. n)
      BY <2>2
    <3>. QED  BY <1>2, <3>1
  <2>. QED  BY <2>1, <2>2
<1>3. Nat \subseteq T
  <2>. HIDE DEF T
  <2>. QED  BY <1>1, <1>2, SetInduction
<1>4. \E x \in s : \A y \in s : x >= y
  BY <1>3
<1>. QED  BY <1>4 DEF Max

(* The flags and the keys they set.                                         *)
LEMMA FlagKeys ==
  /\ \A w \in DOMAIN ValueFlag : ValueFlag[w] \in Key
  /\ \A w \in DOMAIN Switch : Switch[w] \in Key /\ Switch[w] # "datadir"
  /\ DOMAIN ValueFlag \cap DOMAIN Switch = {}
  /\ "--config" \notin DOMAIN ValueFlag \cup DOMAIN Switch
  /\ "" \notin DOMAIN ValueFlag \cup DOMAIN Switch
  /\ \A w \in DOMAIN ValueFlag : ValueFlag[w] = "datadir" <=> w = "--datadir"
  /\ "--datadir" \in DOMAIN ValueFlag
<1>1. Key = {"datadir", "mine", "seal_cadence_ms", "seal_empty", "max_txns_per_block", "difficulty",
             "node_index", "port_base", "rpc_port", "no_rpc", "no_p2p", "max_skew_s", "log_format"}
  BY DEF Key, Default
<1>2. \A w \in DOMAIN ValueFlag : ValueFlag[w] \in Key
  BY <1>1 DEF ValueFlag
<1>3. \A w \in DOMAIN Switch : Switch[w] \in Key /\ Switch[w] # "datadir"
  BY <1>1 DEF Switch
<1>4. /\ DOMAIN ValueFlag \cap DOMAIN Switch = {}
      /\ "--config" \notin DOMAIN ValueFlag \cup DOMAIN Switch
      /\ "" \notin DOMAIN ValueFlag \cup DOMAIN Switch
      /\ "--datadir" \in DOMAIN ValueFlag
  BY DEF ValueFlag, Switch
<1>5. \A w \in DOMAIN ValueFlag : ValueFlag[w] = "datadir" <=> w = "--datadir"
  BY DEF ValueFlag
<1>. QED  BY <1>2, <1>3, <1>4, <1>5

(* ApplyFlags goes from word to word.                                       *)
FlagRun(f, args, cfg) ==
  /\ f[0] = [flag |-> "", cfg |-> cfg]
  /\ \A n \in 1 .. Len(args) : f[n] = TakeWord(f[n - 1], args[n])

LEMMA FlagFold ==
  ASSUME NEW W, NEW args \in Seq(W), NEW cfg
  PROVE  \E f : /\ FlagRun(f, args, cfg)
                /\ FoldLeft(TakeWord, [flag |-> "", cfg |-> cfg], args) = f[Len(args)]
<1>. DEFINE m == Len(args)
            S == 1 .. m
            start == [flag |-> "", cfg |-> cfg]
            Up(n) == {s \in SUBSET S : Cardinality(s) <= n}
            Body(g, s) == IF s = {} THEN start ELSE TakeWord(g[s \ {Max(s)}], args[Max(s)])
            Good(g, n) == g = [s \in Up(n) |-> Body(g, s)]
            T == {n \in Nat : \E g : Good(g, n)}
            P(g) == g = [s \in SUBSET S |-> Body(g, s)]
            k == CHOOSE g : P(g)
<1>0. m \in Nat /\ DOMAIN args = S /\ IsFiniteSet(S)
  BY FS_Interval
<1>1. FoldLeft(TakeWord, start, args) = k[S]
  BY <1>0 DEF FoldLeft, MapThenFoldSet
<1>. HIDE DEF m, start
<1>2. ASSUME NEW s \in SUBSET S
      PROVE  /\ Cardinality(s) \in Nat /\ Cardinality(s) <= Cardinality(S)
             /\ Cardinality(s) = 0 => s = {}
             /\ s # {} => Cardinality(s \ {Max(s)}) = Cardinality(s) - 1
  <2>1. IsFiniteSet(s) /\ Cardinality(s) <= Cardinality(S)
    BY <1>0, FS_Subset
  <2>2. Cardinality(s) \in Nat /\ (Cardinality(s) = 0 => s = {})
    BY <2>1, FS_CardinalityType, FS_EmptySet
  <2>3. ASSUME s # {} PROVE Cardinality(s \ {Max(s)}) = Cardinality(s) - 1
    <3>1. Max(s) \in s
      BY <1>0, <2>3, MaxOfIndices
    <3>. QED  BY <2>1, <3>1, FS_RemoveElement
  <2>. QED  BY <2>1, <2>2, <2>3
<1>3. 0 \in T
  <2>. DEFINE g == [s \in Up(0) |-> start]
  <2>1. ASSUME NEW s \in Up(0) PROVE s = {}
    <3>1. s \in SUBSET S /\ Cardinality(s) <= 0
      OBVIOUS
    <3>2. Cardinality(s) \in Nat /\ (Cardinality(s) = 0 => s = {})
      BY <1>2, <3>1
    <3>. QED  BY <3>1, <3>2
  <2>2. Good(g, 0)
    BY <2>1
  <2>. QED  BY <2>2
<1>4. ASSUME NEW n \in Nat, n \in T PROVE n + 1 \in T
  <2>1. PICK g : Good(g, n)
    BY <1>4
  <2>. DEFINE h == [s \in Up(n + 1) |-> Body(g, s)]
  <2>2. ASSUME NEW s \in Up(n + 1) PROVE Body(g, s) = Body(h, s)
    <3>1. CASE s = {}
      BY <3>1
    <3>2. CASE s # {}
      <4>. DEFINE r == s \ {Max(s)}
      <4>1. Cardinality(s) \in Nat /\ Cardinality(s) <= n + 1 /\ Cardinality(r) = Cardinality(s) - 1
        BY <1>2, <3>2
      <4>2. r \in SUBSET S
        OBVIOUS
      <4>3. Body(g, s) = TakeWord(g[r], args[Max(s)]) /\ Body(h, s) = TakeWord(h[r], args[Max(s)])
        BY <3>2
      <4>. HIDE DEF r
      <4>4. r \in Up(n) /\ r \in Up(n + 1)
        BY <4>1, <4>2
      <4>5. g[r] = Body(g, r)
        BY <2>1, <4>4
      <4>6. h[r] = Body(g, r)
        BY <4>4
      <4>. HIDE DEF h, Body
      <4>. QED  BY <4>3, <4>5, <4>6
    <3>. QED  BY <3>1, <3>2
  <2>3. Good(h, n + 1)
    <3>1. h = [s \in Up(n + 1) |-> Body(g, s)]
      OBVIOUS
    <3>. HIDE DEF h, Up, Body
    <3>. QED  BY <2>2, <3>1
  <2>. HIDE DEF h, Good
  <2>. QED  BY <2>3
<1>5. Nat \subseteq T
  <2>. HIDE DEF T
  <2>. QED  BY <1>3, <1>4, SetInduction
<1>6. Cardinality(S) \in Nat /\ Up(Cardinality(S)) = SUBSET S
  BY <1>0, <1>2, FS_CardinalityType
<1>7. PICK g : Good(g, Cardinality(S))
  <2>. HIDE DEF Good
  <2>. QED  BY <1>5, <1>6
<1>8. P(g)
  <2>. HIDE DEF Up, Body
  <2>. QED  BY <1>6, <1>7
<1>9. P(k)
  BY <1>8
<1>. HIDE DEF k, Up, Good, T
<1>. DEFINE f == [n \in 0 .. m |-> k[1 .. n]]
<1>10. f[0] = start
  <2>1. f[0] = k[1 .. 0] /\ 1 .. 0 = {} /\ {} \in SUBSET S
    BY <1>0, MaxSegment
  <2>2. k[{}] = start
    BY <1>9, <2>1
  <2>. QED  BY <2>1, <2>2
<1>11. ASSUME NEW n \in 1 .. m PROVE f[n] = TakeWord(f[n - 1], args[n])
  <2>1. n - 1 \in Nat /\ (n - 1) + 1 = n /\ n \in 0 .. m /\ n - 1 \in 0 .. m
    BY <1>0
  <2>2. 1 .. n # {} /\ Max(1 .. n) = n /\ (1 .. n) \ {n} = 1 .. n - 1
    BY <2>1, MaxSegment
  <2>3. 1 .. n \in SUBSET S
    BY <1>0
  <2>4. k[1 .. n] = TakeWord(k[(1 .. n) \ {Max(1 .. n)}], args[Max(1 .. n)])
    BY <1>9, <2>2, <2>3
  <2>. QED  BY <2>1, <2>2, <2>4
<1>12. f[m] = k[S]
  BY <1>0
<1>. HIDE DEF f
<1>. QED  BY <1>1, <1>10, <1>11, <1>12 DEF FlagRun, m, start

(* The flags that take the next word, and the one that waits for its value  *)
(* when n words are read.                                                   *)
Takes == DOMAIN ValueFlag \cup {"--config"}
Waiting(args, n) == IF n # 0 /\ args[n] \in Takes THEN args[n] ELSE ""

(* The last word of the flag at i; the flags of key k that are complete     *)
(* when n words are read; and what the key then is.                         *)
EndOf(args, i) == IF args[i] \in DOMAIN Switch THEN i ELSE i + 1
Complete(args, n, k) == {i \in FlagsOf(args, k) : EndOf(args, i) <= n}
Says(args, i, k) == IF args[i] \in DOMAIN Switch THEN TRUE ELSE Meaning(k, args[i + 1])
Setting(args, base, n, k) ==
  IF Complete(args, n, k) = {} THEN base[k] ELSE Says(args, Max(Complete(args, n, k)), k)

LEMMA MaxIs ==
  ASSUME NEW s \in SUBSET Nat, NEW i \in s, \A j \in s : i >= j
  PROVE  Max(s) = i
<1>. DEFINE m == Max(s)
<1>1. m \in s /\ \A y \in s : m >= y
  BY DEF Max
<1>. HIDE DEF m
<1>2. m = i
  BY <1>1
<1>. QED  BY <1>2 DEF m

(* With the next word one more flag is complete, or none: the flag whose    *)
(* value it is, or the switch that it is.                                   *)
LEMMA NextComplete ==
  ASSUME NEW W, NEW args \in Seq(W), WellFormed(args), NEW k, NEW n \in 1 .. Len(args)
  PROVE  /\ Waiting(args, n - 1) \in DOMAIN ValueFlag =>
              /\ n - 1 \in 1 .. Len(args)
              /\ args[n - 1] = Waiting(args, n - 1)
              /\ Complete(args, n, k) = Complete(args, n - 1, k) \cup
                   (IF ValueFlag[args[n - 1]] = k THEN {n - 1} ELSE {})
         /\ Waiting(args, n - 1) = "" /\ args[n] \in DOMAIN Switch =>
              Complete(args, n, k) = Complete(args, n - 1, k) \cup
                (IF Switch[args[n]] = k THEN {n} ELSE {})
         /\ Waiting(args, n - 1) = "--config"
            \/ (Waiting(args, n - 1) = "" /\ args[n] \notin DOMAIN Switch) =>
              Complete(args, n, k) = Complete(args, n - 1, k)
         /\ Waiting(args, n - 1) # "" => args[n] \in Words
         /\ Complete(args, n - 1, k) \in SUBSET (1 .. n - 1)
<1>0. Len(args) \in Nat /\ n \in Nat /\ n - 1 \in Nat
  OBVIOUS
<1>1. Waiting(args, n - 1) # "" =>
        /\ n - 1 \in 1 .. Len(args)
        /\ args[n - 1] = Waiting(args, n - 1)
        /\ args[n - 1] \in Takes
  <2>1. Waiting(args, n - 1) # "" =>
          n - 1 # 0 /\ args[n - 1] = Waiting(args, n - 1) /\ args[n - 1] \in Takes
    BY DEF Waiting
  <2>2. n - 1 # 0 => n - 1 \in 1 .. Len(args)
    BY <1>0
  <2>. QED  BY <2>1, <2>2
<1>2. Waiting(args, n - 1) = "" => n - 1 = 0 \/ args[n - 1] \notin Takes
  BY FlagKeys DEF Waiting, Takes
<1>3. Waiting(args, n - 1) # "" => args[n] \in Words
  <2>1. n - 1 \in 1 .. Len(args) /\ args[n - 1] \in Takes => args[(n - 1) + 1] \in Words
    BY DEF WellFormed, Takes
  <2>2. (n - 1) + 1 = n
    BY <1>0
  <2>. QED  BY <1>1, <2>1, <2>2
<1>4. args[n] \in Words => args[n] \notin Takes \cup DOMAIN Switch
  BY ConfigAssumption DEF Takes
<1>5. ASSUME NEW i \in FlagsOf(args, k)
      PROVE  /\ i \in 1 .. Len(args)
             /\ args[i] \in DOMAIN ValueFlag => EndOf(args, i) = i + 1 /\ ValueFlag[args[i]] = k
             /\ args[i] \in DOMAIN Switch => EndOf(args, i) = i /\ Switch[args[i]] = k
             /\ args[i] \in DOMAIN ValueFlag \/ args[i] \in DOMAIN Switch
             /\ EndOf(args, i) \in Nat /\ EndOf(args, i) >= i
  <2>1. /\ i \in 1 .. Len(args)
        /\ \/ args[i] \in DOMAIN ValueFlag /\ ValueFlag[args[i]] = k
           \/ args[i] \in DOMAIN Switch /\ Switch[args[i]] = k
    BY DEF FlagsOf
  <2>2. args[i] \in DOMAIN ValueFlag => args[i] \notin DOMAIN Switch
    BY FlagKeys
  <2>3. EndOf(args, i) = IF args[i] \in DOMAIN Switch THEN i ELSE i + 1
    BY DEF EndOf
  <2>4. i \in Nat
    BY <2>1
  <2>. QED  BY <2>1, <2>2, <2>3, <2>4
<1>6. Complete(args, n, k) =
        Complete(args, n - 1, k) \cup {i \in FlagsOf(args, k) : EndOf(args, i) = n}
  BY <1>0, <1>5 DEF Complete
<1>. DEFINE E == {i \in FlagsOf(args, k) : EndOf(args, i) = n}
<1>7. ASSUME NEW i \in E
      PROVE  \/ i = n /\ args[n] \in DOMAIN Switch /\ Switch[args[n]] = k
             \/ i = n - 1 /\ args[n - 1] \in DOMAIN ValueFlag /\ ValueFlag[args[n - 1]] = k
  BY <1>0, <1>5
<1>8. ASSUME Waiting(args, n - 1) \in DOMAIN ValueFlag
      PROVE  E = IF ValueFlag[args[n - 1]] = k THEN {n - 1} ELSE {}
  <2>1. args[n - 1] \in DOMAIN ValueFlag /\ n - 1 \in 1 .. Len(args) /\ args[n] \notin DOMAIN Switch
    BY <1>1, <1>3, <1>4, <1>8, FlagKeys
  <2>2. E \subseteq {n - 1} /\ (E # {} => ValueFlag[args[n - 1]] = k)
    BY <1>7, <2>1
  <2>3. ASSUME ValueFlag[args[n - 1]] = k PROVE n - 1 \in E
    <3>1. n - 1 \in FlagsOf(args, k)
      BY <2>1, <2>3 DEF FlagsOf
    <3>2. EndOf(args, n - 1) = n
      BY <1>0, <1>5, <2>1, <3>1
    <3>. QED  BY <3>1, <3>2
  <2>. HIDE DEF E
  <2>. QED  BY <2>2, <2>3
<1>9. ASSUME Waiting(args, n - 1) = "", args[n] \in DOMAIN Switch
      PROVE  E = IF Switch[args[n]] = k THEN {n} ELSE {}
  <2>1. ASSUME NEW i \in E PROVE i = n /\ Switch[args[n]] = k
    <3>1. CASE i = n /\ args[n] \in DOMAIN Switch /\ Switch[args[n]] = k
      BY <3>1
    <3>2. CASE i = n - 1 /\ args[n - 1] \in DOMAIN ValueFlag
      <4>1. i \in 1 .. Len(args)
        BY <1>5
      <4>2. n - 1 # 0 /\ args[n - 1] \in Takes
        BY <3>2, <4>1 DEF Takes
      <4>. QED  BY <1>2, <1>9, <4>2
    <3>. QED  BY <1>7, <3>1, <3>2
  <2>2. ASSUME Switch[args[n]] = k PROVE n \in E
    <3>1. n \in FlagsOf(args, k)
      BY <1>9, <2>2 DEF FlagsOf
    <3>2. EndOf(args, n) = n
      BY <1>9 DEF EndOf
    <3>. QED  BY <3>1, <3>2
  <2>. HIDE DEF E
  <2>. QED  BY <2>1, <2>2
<1>10. ASSUME \/ Waiting(args, n - 1) = "--config"
              \/ Waiting(args, n - 1) = "" /\ args[n] \notin DOMAIN Switch
       PROVE  E = {}
  <2>. SUFFICES ASSUME NEW i \in E PROVE FALSE
    OBVIOUS
  <2>1. i \in 1 .. Len(args)
    BY <1>5
  <2>2. CASE Waiting(args, n - 1) = "--config"
    <3>1. args[n - 1] = "--config" /\ args[n] \notin DOMAIN Switch
      BY <1>1, <1>3, <1>4, <2>2
    <3>. QED  BY <1>7, <3>1, FlagKeys
  <2>3. CASE Waiting(args, n - 1) = "" /\ args[n] \notin DOMAIN Switch
    <3>1. i = n - 1 /\ args[n - 1] \in Takes
      BY <1>7, <2>3 DEF Takes
    <3>2. n - 1 # 0
      BY <2>1, <3>1
    <3>. QED  BY <1>2, <2>3, <3>1, <3>2
  <2>. QED  BY <1>10, <2>2, <2>3
<1>11. Complete(args, n - 1, k) \in SUBSET (1 .. n - 1)
  BY <1>0, <1>5 DEF Complete
<1>. HIDE DEF E
<1>12. Complete(args, n, k) = Complete(args, n - 1, k) \cup E
  BY <1>6 DEF E
<1>13. Waiting(args, n - 1) \in DOMAIN ValueFlag => Waiting(args, n - 1) # ""
  BY FlagKeys
<1>. QED  BY <1>1, <1>3, <1>8, <1>9, <1>10, <1>11, <1>12, <1>13

(* Word by word, every key is what its last complete flag says, or what it  *)
(* was before the command line.                                             *)
Whole(cfg) == cfg = [k \in Key |-> cfg[k]]

WordsTaken(f, args, base) ==
  \A n \in 0 .. Len(args) :
    f[n] = [flag |-> Waiting(args, n), cfg |-> [k \in Key |-> Setting(args, base, n, k)]]

LEMMA FlagsSet ==
  ASSUME NEW W, NEW args \in Seq(W), WellFormed(args), NEW base, Whole(base),
         NEW f, FlagRun(f, args, base)
  PROVE  WordsTaken(f, args, base)
<1>. DEFINE C(n) == [k \in Key |-> Setting(args, base, n, k)]
            At(n) == f[n] = [flag |-> Waiting(args, n), cfg |-> C(n)]
            T == {n \in Nat : n \in 0 .. Len(args) => At(n)}
<1>1. At(0)
  <2>1. ASSUME NEW k \in Key PROVE Setting(args, base, 0, k) = base[k]
    <3>1. Complete(args, 0, k) = {}
      BY DEF Complete, FlagsOf, EndOf
    <3>. QED  BY <3>1 DEF Setting
  <2>2. C(0) = base
    BY <2>1 DEF Whole
  <2>. HIDE DEF C
  <2>. QED  BY <2>2 DEF FlagRun, Waiting
<1>2. ASSUME NEW n \in 1 .. Len(args), At(n - 1) PROVE At(n)
  <2>. DEFINE w == Waiting(args, n - 1)
  <2>1. /\ n \in Nat /\ n # 0 /\ n - 1 \in Nat /\ (n - 1) + 1 = n
        /\ n - 1 \in n - 1 .. n /\ n \in n - 1 .. n
    OBVIOUS
  <2>2. f[n] = TakeWord([flag |-> w, cfg |-> C(n - 1)], args[n])
    BY <1>2 DEF FlagRun
  <2>3. w = "" \/ w = "--config" \/ w \in DOMAIN ValueFlag
    BY DEF Waiting, Takes
  <2>4. ASSUME NEW k
        PROVE  /\ w \in DOMAIN ValueFlag =>
                    /\ n - 1 \in 1 .. Len(args)
                    /\ args[n - 1] = w
                    /\ Complete(args, n, k) = Complete(args, n - 1, k) \cup
                         (IF ValueFlag[args[n - 1]] = k THEN {n - 1} ELSE {})
               /\ w = "" /\ args[n] \in DOMAIN Switch =>
                    Complete(args, n, k) = Complete(args, n - 1, k) \cup
                      (IF Switch[args[n]] = k THEN {n} ELSE {})
               /\ w = "--config" \/ (w = "" /\ args[n] \notin DOMAIN Switch) =>
                    Complete(args, n, k) = Complete(args, n - 1, k)
               /\ w # "" => args[n] \in Words
               /\ Complete(args, n - 1, k) \in SUBSET (1 .. n - 1)
    BY NextComplete
  <2>5. args[n] \in Words => args[n] \notin Takes \cup DOMAIN Switch
    BY ConfigAssumption DEF Takes
  <2>6. ASSUME NEW k \in Key, NEW i \in n - 1 .. n, i # 0
        PROVE  /\ Complete(args, n, k) = Complete(args, n - 1, k) =>
                    Setting(args, base, n, k) = Setting(args, base, n - 1, k)
               /\ Complete(args, n, k) = Complete(args, n - 1, k) \cup {i} =>
                    Setting(args, base, n, k) = Says(args, i, k)
    <3>1. Complete(args, n - 1, k) \in SUBSET (1 .. n - 1)
      BY <2>4
    <3>2. ASSUME Complete(args, n, k) = Complete(args, n - 1, k) \cup {i}
          PROVE  Setting(args, base, n, k) = Says(args, i, k)
      <4>. DEFINE s == Complete(args, n, k)
      <4>1. s \in SUBSET Nat /\ i \in s /\ \A j \in s : i >= j
        BY <2>1, <2>6, <3>1, <3>2
      <4>2. Max(s) = i
        <5>. HIDE DEF s
        <5>. QED  BY <4>1, MaxIs
      <4>. QED  BY <4>1, <4>2 DEF Setting
    <3>. QED  BY <3>2 DEF Setting
  <2>8. /\ args[n] \notin Takes => Waiting(args, n) = ""
        /\ args[n] \in Takes => Waiting(args, n) = args[n]
    BY <2>1 DEF Waiting
  <2>. HIDE DEF w, At, C
  <2>9. CASE w \in DOMAIN ValueFlag
    <3>1. /\ n - 1 \in 1 .. Len(args) /\ args[n - 1] = w
          /\ args[n] \in Words /\ Waiting(args, n) = ""
          /\ w # "" /\ w # "--config" /\ ValueFlag[w] \in Key /\ w \notin DOMAIN Switch
      BY <2>4, <2>5, <2>8, <2>9, FlagKeys
    <3>2. ASSUME NEW k \in Key
          PROVE  Setting(args, base, n, k) =
                   IF k = ValueFlag[w] THEN Meaning(k, args[n]) ELSE Setting(args, base, n - 1, k)
      <4>1. CASE k = ValueFlag[w]
        <5>1. n - 1 # 0
          <6>1. n - 1 \in 1 .. Len(args)
            BY <3>1
          <6>. QED  BY <6>1
        <5>2. Complete(args, n, k) = Complete(args, n - 1, k) \cup {n - 1}
          BY <2>4, <2>9, <4>1
        <5>3. Setting(args, base, n, k) = Says(args, n - 1, k)
          BY <2>1, <2>6, <5>1, <5>2
        <5>4. Says(args, n - 1, k) = Meaning(k, args[n])
          BY <2>1, <3>1 DEF Says
        <5>. QED  BY <4>1, <5>3, <5>4
      <4>2. CASE k # ValueFlag[w]
        <5>1. Complete(args, n, k) = Complete(args, n - 1, k)
          BY <2>4, <2>9, <4>2
        <5>. QED  BY <2>1, <2>6, <4>2, <5>1
      <4>. QED  BY <4>1, <4>2
    <3>3. [C(n - 1) EXCEPT ![ValueFlag[w]] = Meaning(ValueFlag[w], args[n])] = C(n)
      BY <3>1, <3>2 DEF C
    <3>4. f[n] = [flag |-> "",
                  cfg |-> [C(n - 1) EXCEPT ![ValueFlag[w]] = Meaning(ValueFlag[w], args[n])]]
      BY <2>2, <3>1 DEF TakeWord
    <3>. QED  BY <3>1, <3>3, <3>4 DEF At
  <2>10. CASE w = "" /\ args[n] \in DOMAIN Switch
    <3>1. args[n] \notin Takes /\ Waiting(args, n) = "" /\ Switch[args[n]] \in Key
      BY <2>8, <2>10, FlagKeys DEF Takes
    <3>2. ASSUME NEW k \in Key
          PROVE  Setting(args, base, n, k) =
                   IF k = Switch[args[n]] THEN TRUE ELSE Setting(args, base, n - 1, k)
      <4>1. CASE k = Switch[args[n]]
        <5>1. Complete(args, n, k) = Complete(args, n - 1, k) \cup {n}
          BY <2>4, <2>10, <4>1
        <5>2. Setting(args, base, n, k) = Says(args, n, k)
          BY <2>1, <2>6, <5>1
        <5>3. Says(args, n, k) = TRUE
          BY <2>10 DEF Says
        <5>. QED  BY <4>1, <5>2, <5>3
      <4>2. CASE k # Switch[args[n]]
        <5>1. Complete(args, n, k) = Complete(args, n - 1, k)
          BY <2>4, <2>10, <4>2
        <5>. QED  BY <2>1, <2>6, <4>2, <5>1
      <4>. QED  BY <4>1, <4>2
    <3>3. [C(n - 1) EXCEPT ![Switch[args[n]]] = TRUE] = C(n)
      BY <3>1, <3>2 DEF C
    <3>4. f[n] = [flag |-> "", cfg |-> [C(n - 1) EXCEPT ![Switch[args[n]]] = TRUE]]
      BY <2>2, <2>10, <3>1 DEF TakeWord, Takes
    <3>. QED  BY <3>1, <3>3, <3>4 DEF At
  <2>11. CASE w = "--config" \/ (w = "" /\ args[n] \notin DOMAIN Switch)
    <3>1. ASSUME NEW k \in Key PROVE Setting(args, base, n, k) = Setting(args, base, n - 1, k)
      <4>1. Complete(args, n, k) = Complete(args, n - 1, k)
        BY <2>4, <2>11
      <4>. QED  BY <2>1, <2>6, <4>1
    <3>2. C(n) = C(n - 1)
      BY <3>1 DEF C
    <3>3. CASE w = "--config"
      <4>1. Waiting(args, n) = ""
        BY <2>4, <2>5, <2>8, <3>3
      <4>2. f[n] = [flag |-> "", cfg |-> C(n - 1)]
        BY <2>2, <3>3 DEF TakeWord
      <4>. QED  BY <3>2, <4>1, <4>2 DEF At
    <3>4. CASE w = "" /\ args[n] \notin DOMAIN Switch
      <4>1. f[n] = [flag |-> IF args[n] \in Takes THEN args[n] ELSE "", cfg |-> C(n - 1)]
        BY <2>2, <3>4 DEF TakeWord, Takes
      <4>. QED  BY <2>8, <3>2, <4>1 DEF At
    <3>. QED  BY <2>11, <3>3, <3>4
  <2>12. CASE w = ""
    BY <2>10, <2>11, <2>12
  <2>13. CASE w = "--config"
    BY <2>11, <2>13
  <2>. QED  BY <2>3, <2>9, <2>12, <2>13
<1>3. ASSUME NEW m \in Nat, m \in T PROVE m + 1 \in T
  <2>. HIDE DEF At
  <2>1. ASSUME m + 1 \in 0 .. Len(args) PROVE At(m + 1)
    <3>1. m + 1 \in 1 .. Len(args) /\ (m + 1) - 1 = m /\ m \in 0 .. Len(args)
      BY <2>1
    <3>2. At((m + 1) - 1)
      BY <1>3, <3>1
    <3>. QED  BY <1>2, <3>1, <3>2
  <2>. QED  BY <2>1
<1>4. 0 \in T
  <2>. HIDE DEF At
  <2>. QED  BY <1>1
<1>5. Nat \subseteq T
  <2>. HIDE DEF T
  <2>. QED  BY <1>3, <1>4, SetInduction
<1>6. ASSUME NEW n \in 0 .. Len(args) PROVE At(n)
  <2>. HIDE DEF At
  <2>. QED  BY <1>5
<1>. QED  BY <1>6 DEF WordsTaken

(* At the end of the command line every flag is complete.                   *)
LEMMA FlagsApplied ==
  ASSUME NEW W, NEW args \in Seq(W), WellFormed(args), NEW base, Whole(base)
  PROVE  ApplyFlags(args, base) =
           [k \in Key |-> IF FlagsOf(args, k) # {} THEN OnCommandLine(args, k) ELSE base[k]]
<1>. DEFINE n == Len(args)
            acc == FoldLeft(TakeWord, [flag |-> "", cfg |-> base], args)
<1>1. n \in Nat /\ n \in 0 .. n
  OBVIOUS
<1>2. PICK f : FlagRun(f, args, base) /\ acc = f[n]
  BY FlagFold
<1>3. f[n] = [flag |-> Waiting(args, n), cfg |-> [k \in Key |-> Setting(args, base, n, k)]]
  <2>. HIDE DEF acc
  <2>1. WordsTaken(f, args, base)
    BY <1>2, FlagsSet
  <2>. QED  BY <1>1, <2>1 DEF WordsTaken
<1>4. Waiting(args, n) = ""
  <2>1. n # 0 /\ args[n] \in Takes => n < n
    BY <1>1 DEF WellFormed, Takes
  <2>2. ~(n < n)
    BY <1>1
  <2>. QED  BY <2>1, <2>2 DEF Waiting
<1>5. ASSUME NEW k \in Key
      PROVE  Setting(args, base, n, k) =
               IF FlagsOf(args, k) # {} THEN OnCommandLine(args, k) ELSE base[k]
  <2>1. ASSUME NEW i \in FlagsOf(args, k) PROVE EndOf(args, i) <= n
    <3>1. /\ i \in 1 .. n
          /\ args[i] \in DOMAIN ValueFlag \/ args[i] \in DOMAIN Switch
      BY DEF FlagsOf
    <3>2. CASE args[i] \in DOMAIN Switch
      BY <1>1, <3>1, <3>2 DEF EndOf
    <3>3. CASE args[i] \in DOMAIN ValueFlag
      <4>1. i < n
        BY <3>1, <3>3 DEF WellFormed
      <4>2. EndOf(args, i) = i + 1
        BY <3>3, FlagKeys DEF EndOf
      <4>. QED  BY <1>1, <3>1, <4>1, <4>2
    <3>. QED  BY <3>1, <3>2, <3>3
  <2>2. Complete(args, n, k) = FlagsOf(args, k)
    BY <2>1 DEF Complete
  <2>. QED  BY <2>2 DEF Setting, Says, OnCommandLine
<1>6. acc.flag = "" /\ acc.cfg = [k \in Key |-> Setting(args, base, n, k)]
  <2>. HIDE DEF acc, n
  <2>1. f[n].flag = Waiting(args, n) /\ f[n].cfg = [k \in Key |-> Setting(args, base, n, k)]
    BY <1>3
  <2>2. acc.flag = f[n].flag /\ acc.cfg = f[n].cfg
    BY <1>2
  <2>. QED  BY <1>4, <2>1, <2>2
<1>7. ApplyFlags(args, base) = acc.cfg
  BY <1>6 DEF ApplyFlags
<1>. HIDE DEF acc
<1>. QED  BY <1>5, <1>6, <1>7

(* The first phase finds the last --datadir and the last --config.          *)
PlacesOf(args, flag) == {i \in 1 .. Len(args) : args[i] = flag}

LEMMA ScanFinds ==
  ASSUME NEW W, NEW args \in Seq(W), WellFormed(args), NEW flag \in Takes, NEW default
  PROVE  /\ PreScan(args, flag, default) =
              IF PlacesOf(args, flag) = {} THEN default ELSE args[Max(PlacesOf(args, flag)) + 1]
         /\ PlacesOf(args, flag) # {} => PreScan(args, flag, default) \in Words
<1>. DEFINE at == {i \in 1 .. Len(args) : args[i] = flag}
            n == Len(args)
<1>1. n \in Nat
  OBVIOUS
<1>2. ASSUME NEW i \in at PROVE i < n /\ args[i + 1] \in Words
  BY DEF WellFormed, Takes
<1>3. {i \in 1 .. n - 1 : args[i] = flag} = at
  BY <1>1, <1>2
<1>4. at # {} => Max(at) \in at
  BY <1>1, MaxOfIndices
<1>5. at # {} => Max(at) # 0 /\ args[Max(at) + 1] \in Words
  BY <1>2, <1>4
<1>6. SelectLastInSubSeq(args, 1, n - 1, LAMBDA w : w = flag) = IF at # {} THEN Max(at) ELSE 0
  BY <1>3 DEF SelectLastInSubSeq
<1>7. PreScan(args, flag, default) = IF at = {} THEN default ELSE args[Max(at) + 1]
  <2>1. PreScan(args, flag, default) =
          IF SelectLastInSubSeq(args, 1, n - 1, LAMBDA w : w = flag) = 0 THEN default
          ELSE args[SelectLastInSubSeq(args, 1, n - 1, LAMBDA w : w = flag) + 1]
    BY DEF PreScan
  <2>. HIDE DEF at, n
  <2>. QED  BY <1>5, <1>6, <2>1
<1>. HIDE DEF at
<1>8. /\ PreScan(args, flag, default) = IF at = {} THEN default ELSE args[Max(at) + 1]
      /\ at # {} => PreScan(args, flag, default) \in Words
  BY <1>5, <1>7
<1>. QED  BY <1>8 DEF at, PlacesOf

(* What a configuration file sets: not the port of the RPC server.          *)
Read(file, k) == InFile(file, k) /\ k # "rpc_port"

(* resolve_config gives each key what the order of precedence gives it, the *)
(* port of the RPC server as if no file named it.                           *)
LEMMA Precedence ==
  ASSUME NEW W, NEW args \in Seq(W), WellFormed(args)
  PROVE  /\ \A k \in Key \ {"rpc_port"} : ResolveConfig(args)[k] = Effective(args)[k]
         /\ ResolveConfig(args)["rpc_port"] =
              IF FlagsOf(args, "rpc_port") # {} THEN OnCommandLine(args, "rpc_port")
              ELSE Default["rpc_port"]
<1>. DEFINE datadir == PreScan(args, "--datadir", Default.datadir)
            config == PreScan(args, "--config", "")
            file == IF config = "" THEN NodeJson(datadir) ELSE Named(config)
            base == ApplyConfigFile(file, [Default EXCEPT !.datadir = datadir])
            dirs == PlacesOf(args, "--datadir")
            named == PlacesOf(args, "--config")
<1>1. datadir = IF dirs = {} THEN Default.datadir ELSE args[Max(dirs) + 1]
  <2>1. "--datadir" \in Takes
    BY FlagKeys DEF Takes
  <2>. QED  BY <2>1, ScanFinds
<1>2. /\ config = IF named = {} THEN "" ELSE args[Max(named) + 1]
      /\ named # {} => config \in Words
  <2>1. "--config" \in Takes
    BY DEF Takes
  <2>2. config = IF named = {} THEN "" ELSE args[Max(named) + 1]
    BY <2>1, ScanFinds
  <2>3. named # {} => config \in Words
    BY <2>1, ScanFinds
  <2>. QED  BY <2>2, <2>3
<1>3. FlagsOf(args, "datadir") = dirs
  BY FlagKeys DEF FlagsOf, PlacesOf
<1>4. "" \notin Words
  BY ConfigAssumption
<1>5. file = FileOf(args)
  <2>. HIDE DEF datadir, config, dirs
  <2>1. CASE named = {}
    <3>1. file = NodeJson(datadir)
      BY <1>2, <2>1
    <3>2. FileOf(args) = NodeJson(IF dirs # {} THEN args[Max(dirs) + 1] ELSE Default.datadir)
      BY <1>3, <2>1 DEF FileOf, PlacesOf
    <3>. HIDE DEF file
    <3>. QED  BY <1>1, <3>1, <3>2
  <2>2. CASE named # {}
    <3>1. file = Named(args[Max(named) + 1])
      BY <1>2, <1>4, <2>2
    <3>2. FileOf(args) = Named(args[Max(named) + 1])
      BY <2>2 DEF FileOf, PlacesOf
    <3>. HIDE DEF file
    <3>. QED  BY <3>1, <3>2
  <2>. QED  BY <2>1, <2>2
<1>. HIDE DEF datadir, config, file
<1>6. "datadir" \in Key /\ DOMAIN Default = Key /\ Default.datadir = Default["datadir"]
  BY DEF Key, Default
<1>7. [Default EXCEPT !.datadir = datadir] =
        [k \in Key |-> IF k = "datadir" THEN datadir ELSE Default[k]]
  BY DEF Key, Default
<1>8. base = [k \in Key |-> IF Read(file, k) THEN Files[file][k].val
                            ELSE IF k = "datadir" THEN datadir ELSE Default[k]]
  <2>1. CASE file \notin DOMAIN Files
    <3>1. base = [Default EXCEPT !.datadir = datadir]
      BY <2>1 DEF ApplyConfigFile
    <3>2. \A k \in Key : ~Read(file, k)
      BY <2>1 DEF Read, InFile
    <3>. HIDE DEF base
    <3>. QED  BY <1>7, <3>1, <3>2
  <2>2. CASE file \in DOMAIN Files
    <3>. DEFINE d == [Default EXCEPT !.datadir = datadir]
    <3>1. base = [k \in Key |->
                    IF k \in DOMAIN Files[file] \ {"rpc_port"} /\ Files[file][k].type = TypeOf(k)
                    THEN Files[file][k].val ELSE d[k]]
      BY <2>2 DEF ApplyConfigFile
    <3>2. ASSUME NEW k \in Key
          PROVE  /\ Read(file, k) <=> k \in DOMAIN Files[file] \ {"rpc_port"}
                                        /\ Files[file][k].type = TypeOf(k)
                 /\ d[k] = IF k = "datadir" THEN datadir ELSE Default[k]
      BY <1>7, <2>2 DEF Read, InFile
    <3>. HIDE DEF base, d
    <3>. QED  BY <3>1, <3>2
  <2>. QED  BY <2>1, <2>2
<1>. HIDE DEF base
<1>9. Whole(base)
  BY <1>8 DEF Whole
<1>10. ApplyFlags(args, base) =
         [k \in Key |-> IF FlagsOf(args, k) # {} THEN OnCommandLine(args, k) ELSE base[k]]
  BY <1>9, FlagsApplied
<1>11. ResolveConfig(args) = ApplyFlags(args, base)
  BY DEF ResolveConfig, base, file, config, datadir
<1>12. ASSUME NEW k \in Key, FlagsOf(args, k) = {}
       PROVE  base[k] = IF Read(FileOf(args), k) THEN Files[FileOf(args)][k].val ELSE Default[k]
  <2>1. k = "datadir" => datadir = Default[k]
    BY <1>1, <1>3, <1>6, <1>12
  <2>2. base[k] = IF Read(file, k) THEN Files[file][k].val
                  ELSE IF k = "datadir" THEN datadir ELSE Default[k]
    BY <1>8
  <2>. QED  BY <1>5, <2>1, <2>2
<1>13. ASSUME NEW k \in Key
       PROVE  ResolveConfig(args)[k] =
                IF FlagsOf(args, k) # {} THEN OnCommandLine(args, k)
                ELSE IF Read(FileOf(args), k) THEN Files[FileOf(args)][k].val ELSE Default[k]
  BY <1>10, <1>11, <1>12
<1>14. "rpc_port" \in Key
  BY DEF Key, Default
<1>. QED  BY <1>13, <1>14 DEF Effective, Read

(* A txnode that has not booted yet runs with what resolve_config gave it   *)
(* for the command line of one of the commands.                             *)
Resolved(r) == r.pc = "boot" => \E s \in Starts : r.args = s.args /\ r.cfg = ResolveConfig(s.args)
ConfigInv == \A p \in Procs : Resolved(proc[p])

LEMMA InitConfig == Init => ConfigInv
  BY IdleFits DEF Init, ConfigInv, Resolved

(* Only StartNode comes to the boot.                                        *)
LEMMA StepConfig == Types /\ ConfigInv /\ [Next]_vars => ConfigInv'
<1>. SUFFICES ASSUME Types, ConfigInv, [Next]_vars PROVE ConfigInv'
  OBVIOUS
<1>0. proc \in [Procs -> Process]
  BY DEF Types
<1>1. ASSUME NEW p \in Procs, NEW r, proc' = [proc EXCEPT ![p] = r], Resolved(r) PROVE ConfigInv'
  BY <1>0, <1>1 DEF ConfigInv, Resolved
<1>2. ASSUME NEW p \in Procs, StartNode(p) PROVE ConfigInv'
  <2>1. PICK s \in Starts :
          proc' = [proc EXCEPT ![p] = [Idle EXCEPT !.pc = "boot", !.args = s.args,
                                                   !.cfg = ResolveConfig(s.args)]]
    BY <1>2 DEF StartNode, Becomes
  <2>. DEFINE r == [Idle EXCEPT !.pc = "boot", !.args = s.args, !.cfg = ResolveConfig(s.args)]
  <2>2. r.args = s.args /\ r.cfg = ResolveConfig(s.args)
    BY DEF Idle
  <2>3. Resolved(r)
    <3>. HIDE DEF r
    <3>. QED  BY <2>2 DEF Resolved
  <2>4. proc' = [proc EXCEPT ![p] = r]
    BY <2>1
  <2>. HIDE DEF r
  <2>. QED  BY <1>1, <2>3, <2>4
<1>3. Resolved(Idle)
  BY IdleFits DEF Resolved
<1>4. ASSUME NEW p \in Procs, proc'[p].pc # "boot", \A q \in Procs \ {p} : proc'[q] = proc[q]
      PROVE  ConfigInv'
  BY <1>4 DEF ConfigInv, Resolved
<1>5. ASSUME NEW p \in Procs, Boot(p) \/ LoadStat(p) \/ LoadRead(p) \/ Exit(p) PROVE ConfigInv'
  <2>1. proc'[p].pc # "boot" /\ \A q \in Procs \ {p} : proc'[q] = proc[q]
    <3>1. proc[p] \in Process /\ Idle \in Process /\ Idle.pc = "idle"
      BY <1>0, IdleFits
    <3>2. CASE Boot(p)
      <4>1. CASE proc' = [proc EXCEPT ![p] = Idle]
        BY <1>0, <3>1, <4>1
      <4>2. CASE proc' = [proc EXCEPT ![p] = [Idle EXCEPT
                   !.pc = "find", !.path = WalletPathForDatadir(proc[p].cfg.datadir)]]
        BY <1>0, <4>2 DEF Idle
      <4>. QED  BY <3>2, <4>1, <4>2 DEF Boot, Ends, Becomes
    <3>3. CASE LoadStat(p)
      <4>1. CASE proc' = [proc EXCEPT ![p] = Idle]
        BY <1>0, <3>1, <4>1
      <4>2. CASE proc' = [proc EXCEPT ![p] = [proc[p] EXCEPT
                   !.pc = "read", !.world_readable = disk[proc[p].path].loose]]
        BY <1>0, <3>1, <4>2 DEF Process
      <4>. QED  BY <3>3, <4>1, <4>2 DEF LoadStat, Ends, Becomes
    <3>4. CASE LoadRead(p)
      <4>1. CASE proc' = [proc EXCEPT ![p] = Idle]
        BY <1>0, <3>1, <4>1
      <4>2. CASE proc' = [proc EXCEPT ![p] = [proc[p] EXCEPT
                   !.pc = "ready", !.key = WalletLoad(disk[proc[p].path].text).key]]
        BY <1>0, <3>1, <4>2 DEF Process
      <4>. QED  BY <3>4, <4>1, <4>2 DEF LoadRead, Ends, Becomes
    <3>5. CASE Exit(p)
      BY <1>0, <3>1, <3>5 DEF Exit, Ends, Becomes
    <3>. QED  BY <1>5, <3>2, <3>3, <3>4, <3>5
  <2>. QED  BY <1>4, <2>1
<1>6. ASSUME NEW p \in Procs, LoadOrCreate(p) \/ StartKeygen(p) \/ StartLoad(p) PROVE ConfigInv'
  <2>1. proc'[p].pc # "boot" /\ \A q \in Procs \ {p} : proc'[q] = proc[q]
    <3>1. proc[p] \in Process /\ Idle \in Process
      BY <1>0, IdleFits
    <3>2. CASE LoadOrCreate(p)
      <4>1. CASE proc' = [proc EXCEPT ![p] = [proc[p] EXCEPT !.pc = "load"]]
        BY <1>0, <3>1, <4>1 DEF Process
      <4>2. CASE proc' = [proc EXCEPT ![p] = [proc[p] EXCEPT !.pc = "open", !.key = made + 1]]
        BY <1>0, <3>1, <4>2 DEF Process
      <4>. QED  BY <3>2, <4>1, <4>2 DEF LoadOrCreate, WalletCreate, Becomes
    <3>3. CASE StartKeygen(p)
      <4>1. PICK s \in Starts : 
              WalletCreate(p, [Idle EXCEPT !.verb = s.verb, !.path = WalletPath(s.args, "--out")])
        BY <3>3 DEF StartKeygen
      <4>. DEFINE q == [Idle EXCEPT !.verb = s.verb, !.path = WalletPath(s.args, "--out")]
                  r == [q EXCEPT !.pc = "open", !.key = made + 1]
      <4>2. r.pc = "open"
        BY DEF Idle
      <4>3. proc' = [proc EXCEPT ![p] = r]
        BY <4>1 DEF WalletCreate, Becomes
      <4>. HIDE DEF r
      <4>. QED  BY <1>0, <4>2, <4>3
    <3>4. CASE StartLoad(p)
      <4>1. PICK s \in Starts :
              proc' = [proc EXCEPT ![p] = [Idle EXCEPT !.pc = "load", !.verb = s.verb,
                                                       !.path = WalletPath(s.args, "--key")]]
        BY <3>4 DEF StartLoad, Becomes
      <4>. QED  BY <1>0, <4>1 DEF Idle
    <3>. QED  BY <1>6, <3>2, <3>3, <3>4
  <2>. QED  BY <1>4, <2>1
<1>7. ASSUME NEW p \in Procs, SaveOpen(p) \/ SaveChmod(p) \/ SaveWrite(p) \/ SaveSync(p)
      PROVE  ConfigInv'
  <2>1. proc'[p].pc # "boot" /\ \A q \in Procs \ {p} : proc'[q] = proc[q]
    <3>1. proc[p] \in Process
      BY <1>0
    <3>2. CASE SaveOpen(p)
      BY <1>0, <3>1, <3>2 DEF SaveOpen, Becomes, Process
    <3>3. CASE SaveChmod(p)
      BY <1>0, <3>1, <3>3 DEF SaveChmod, Becomes, Process
    <3>4. CASE SaveWrite(p)
      <4>1. PICK n : proc' = [proc EXCEPT ![p] = [proc[p] EXCEPT
              !.pos = @ + n,
              !.pc = IF proc[p].pos + n = Len(WalletJson(proc[p].key)) THEN "sync" ELSE "write"]]
        BY <3>4 DEF SaveWrite, Becomes
      <4>. QED  BY <1>0, <3>1, <4>1 DEF Process
    <3>5. CASE SaveSync(p)
      BY <1>0, <3>1, <3>5 DEF SaveSync, Becomes, Process
    <3>. QED  BY <1>7, <3>2, <3>3, <3>4, <3>5
  <2>. QED  BY <1>4, <2>1
<1>8. CASE PowerLoss
  BY <1>3, <1>8 DEF PowerLoss, ConfigInv
<1>9. CASE UNCHANGED proc
  BY <1>9 DEF ConfigInv, Resolved
<1>. QED  BY <1>2, <1>5, <1>6, <1>7, <1>8, <1>9 DEF Next, Over, vars

(* Whatever the command line, the files and the process beside it, txnode   *)
(* runs with the configuration node.hpp's order of precedence gives for     *)
(* every key but rpc_port: the last flag that sets it, else the             *)
(* configuration file the flags choose, else the default.  The port of the  *)
(* RPC server is the last flag's or the default, and no file's.             *)
THEOREM FlagsBeatFileBeatsDefault == Spec => []ConfigPrecedence
<1>1. ConfigInv => ConfigPrecedence
  <2>. SUFFICES ASSUME ConfigInv, NEW p \in Procs, proc[p].pc = "boot", WellFormed(proc[p].args)
                PROVE  /\ \A k \in Key \ {"rpc_port"} :
                            proc[p].cfg[k] = Effective(proc[p].args)[k]
                       /\ proc[p].cfg["rpc_port"] =
                            IF FlagsOf(proc[p].args, "rpc_port") # {}
                            THEN OnCommandLine(proc[p].args, "rpc_port")
                            ELSE Default["rpc_port"]
    BY DEF ConfigPrecedence
  <2>1. PICK s \in Starts : proc[p].args = s.args /\ proc[p].cfg = ResolveConfig(s.args)
    BY DEF ConfigInv, Resolved
  <2>2. s.args \in Seq(STRING)
    BY StartupAssumption
  <2>. QED  BY <2>1, <2>2, Precedence
<1>2. IInv => Types
  BY DEF IInv
<1>. QED  BY <1>1, <1>2, InitConfig, StepConfig, Inductive, PTL DEF Spec
=============================================================================
