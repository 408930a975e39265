------------------------------ MODULE MCStartup ------------------------------
(* Startup: two processes, two key files, command lines that name them. *)
EXTENDS Startup, TLC

CONSTANTS p1, p2

MCWords == {"d1", "alt.json", "alt2.json", "./txchain-data", "json", "text", "16", "x", "true", "no"}
MCStrtoul == ("16" :> 16)

Str(v) == [type |-> "str", val |-> v]
Num(v) == [type |-> "num", val |-> v]
Bool(v) == [type |-> "bool", val |-> v]

(* node.json of the default directory moves the data directory; that of d1  *)
(* sets numbers and a key of the wrong type; the rest is given by --config. *)
MCFiles ==
  (NodeJson("./txchain-data") :>
     [difficulty |-> Num(4), mine |-> Bool(TRUE), datadir |-> Str("d1")]) @@
  (NodeJson("d1") :>
     [difficulty |-> Num(3), mine |-> Str("true"), rpc_port |-> Num(9), log_format |-> Str("text")]) @@
  (Named("alt.json") :>
     [seal_empty |-> Bool(FALSE), difficulty |-> Num(2), datadir |-> Str("d1")]) @@
  (Named("alt2.json") :> [datadir |-> Str("d2"), node_index |-> Num(2)])

NodeArgs ==
  {<<>>,
   <<"--datadir", "d1", "--mine">>,
   <<"--config", "alt.json", "--difficulty", "16", "--seal-empty", "true">>,
   <<"--config", "alt2.json", "--datadir", "d1", "--log-format", "json">>,
   <<"--datadir", "./txchain-data", "--difficulty", "x", "--datadir", "d1">>,
   <<"--bogus", "16", "--no-rpc", "--rpc-port", "16", "--no-p2p", "--port-base", "16">>,
   <<"--datadir", "d1", "--seal-cadence", "16", "--max-skew", "16", "--node-index", "16",
     "--max-txns-per-block", "16", "--seal-empty", "no">>,
   <<"--datadir", "d1", "--difficulty">>,
   <<"--config", "--datadir", "d1">>}

MCStarts ==
  {[verb |-> "txnode", args |-> args] : args \in NodeArgs} \cup
  {[verb |-> "keygen", args |-> <<"--datadir", "d1">>],
   [verb |-> "address", args |-> <<"--datadir", "d1", "--datadir", "x">>],
   [verb |-> "send", args |-> <<"--key", "k", "--datadir", "d1">>]}

(* Those the commands come to, and that of the directory alt2.json names,   *)
(* which a flag overrides.                                                  *)
MCPaths == {WalletPathForDatadir("d1"), WalletPathForDatadir("d2"), KeyFile("k")}

(* In d1: no file; a key of the operator's, open to others; one with only   *)
(* the seed; half a seed; another version.                                  *)
Absent == [there |-> FALSE, loose |-> FALSE, text |-> <<>>]
Present(text, loose) == [there |-> TRUE, loose |-> loose, text |-> text]

MCInitialFiles ==
  (WalletPathForDatadir("d1") :>
     {Absent} \cup
     {Present(text, TRUE) :
        text \in {WalletJson(FirstKey), SubSeq(WalletJson(FirstKey), 1, 2) \o <<Brace>>,
                  <<Piece("priv1", FirstKey), Brace>>,
                  <<OtherVersion>> \o WalletJson(FirstKey)}}) @@
  (WalletPathForDatadir("d2") :> {Absent}) @@
  (KeyFile("k") :> {Present(WalletJson(FirstKey), FALSE)})

MCSymmetry == Permutations(Procs)
=============================================================================
