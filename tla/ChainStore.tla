----------------------------- MODULE ChainStore -----------------------------
(***************************************************************************)
(* class ChainStore (store.cpp): chain.jsonl, one block per line.  A line  *)
(* either parses to its block or is malformed, and may lack its newline    *)
(* when a write was cut short.                                             *)
(***************************************************************************)
EXTENDS Ledger

VARIABLE file     \* the lines of chain.jsonl

Line == [ok : BOOLEAN, block : Block, eol : BOOLEAN]

(* How much of a line a write leaves: all of it, nothing, part of the JSON, *)
(* or all but the newline.                                                  *)
Extent == {"all", "nothing", "torn", "noeol"}

(* Mutant: the file is truncated instead of opened for appending.           *)
Written_Truncate(b, extent) ==
  IF extent = "nothing" THEN file
  ELSE <<[ok |-> extent # "torn", block |-> b, eol |-> (extent = "all")]>>

(* The file after appendBlock wrote `extent' of the line of b.  Bytes that  *)
(* follow a line without a newline become part of it: the JSON parser       *)
(* ignores what trails a complete object, and nothing repairs a torn one.   *)
Written(b, extent) ==
  IF extent = "nothing" THEN file
  ELSE IF file # <<>> /\ ~file[Len(file)].eol
       THEN [file EXCEPT ![Len(file)].eol = (extent = "all")]
  ELSE Append(file, [ok |-> extent # "torn", block |-> b, eol |-> (extent = "all")])

(* load: fails at the first malformed line, else gives the blocks.          *)
LoadOK == \A i \in 1 .. Len(file) : file[i].ok
Loaded == [i \in 1 .. Len(file) |-> file[i].block]

(* The blocks load gives even when it fails: those before that line.        *)
Parsed ==
  LET n == CHOOSE k \in 0 .. Len(file) :
             (\A i \in 1 .. k : file[i].ok) /\ (k < Len(file) => ~file[k + 1].ok)
  IN [i \in 1 .. n |-> file[i].block]
=============================================================================
