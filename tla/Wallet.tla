------------------------------- MODULE Wallet -------------------------------
(***************************************************************************)
(* The wallet.key format (wallet/wallet.cpp): what wallet_save writes and  *)
(* what wallet_load makes of a text, whole, cut off, or mixed by two       *)
(* writers.  A text is a sequence of pieces, each a stretch of the file    *)
(* that a write may end after; a key stands for a 32-byte seed.            *)
(***************************************************************************)
EXTENDS Integers, Sequences, SequencesExt

(* The key that belongs to no one: what a seed of two halves that do not    *)
(* belong together derives.                                                 *)
NoKey == 0

Piece(field, key) == [field |-> field, of |-> key]

(* The JSON of wallet_save in the order it is written.  The seed is two     *)
(* pieces; the last one holds the address and the closing brace.            *)
WalletJson(key) ==
  <<Piece("priv1", key), Piece("priv2", key), Piece("pub", key), Piece("address", key)>>

(* What a gap in a file reads as, and the end of an object that was written *)
(* by hand.                                                                 *)
Gap == Piece("gap", NoKey)
Brace == Piece("brace", NoKey)
OtherVersion == Piece("otherversion", NoKey)

(* The text after a write of `pieces' at position pos + 1: a gap where the  *)
(* file was shorter, what lay beyond stays.                                 *)
Overlay(text, pos, pieces) ==
  [i \in 1 .. Max({Len(text), pos + Len(pieces)}) |->
     IF i > pos /\ i <= pos + Len(pieces) THEN pieces[i - pos]
     ELSE IF i <= Len(text) THEN text[i] ELSE Gap]

Holds(text, field) == \E i \in 1 .. Len(text) : text[i].field = field
KeyIn(text, field) == (CHOOSE p \in ToSet(text) : p.field = field).of

(* picojson: an object that is closed and has no gap.                       *)
Parses(text) ==
  text # <<>> /\ Last(text).field \in {"address", "brace"} /\ ~Holds(text, "gap")

(* derive_pubkey of the seed that the text holds.                           *)
DerivePubkey(text) ==
  IF KeyIn(text, "priv1") = KeyIn(text, "priv2") THEN KeyIn(text, "priv1") ELSE NoKey

(* Mutant: the stored fields are not compared with the derived ones.        *)
WalletLoad_Trusting(text) ==
  IF /\ Parses(text) /\ ~Holds(text, "otherversion")
     /\ Holds(text, "priv1") /\ Holds(text, "priv2")
  THEN [ok |-> TRUE, key |-> DerivePubkey(text)]
  ELSE [ok |-> FALSE, key |-> NoKey]

(* wallet_load of the contents: the version, the whole seed, and the stored *)
(* public key and address, when they are there, against the derived ones.   *)
WalletLoad(text) ==
  IF /\ Parses(text) /\ ~Holds(text, "otherversion")
     /\ Holds(text, "priv1") /\ Holds(text, "priv2")
     /\ \A field \in {"pub", "address"} :
          Holds(text, field) => KeyIn(text, field) = DerivePubkey(text)
  THEN [ok |-> TRUE, key |-> DerivePubkey(text)]
  ELSE [ok |-> FALSE, key |-> NoKey]

(* The files: the one of a data directory, and one named by a flag.         *)
WalletPathForDatadir(dir) == [dir |-> dir, name |-> "wallet.key"]
KeyFile(name) == [dir |-> "", name |-> name]

(* opt: the word after the first `flag' that has one, "" if there is none.  *)
Opt(args, flag) ==
  LET at == SelectInSubSeq(args, 1, Len(args) - 1, LAMBDA w : w = flag)
  IN IF at = 0 THEN "" ELSE args[at + 1]

(* wallet_path: --out or --key, else the data directory, else its default.  *)
WalletPath(args, fileFlag) ==
  IF Opt(args, fileFlag) # "" THEN KeyFile(Opt(args, fileFlag))
  ELSE WalletPathForDatadir(IF Opt(args, "--datadir") # "" THEN Opt(args, "--datadir")
                            ELSE "./txchain-data")
=============================================================================
