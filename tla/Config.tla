------------------------------- MODULE Config -------------------------------
(***************************************************************************)
(* resolve_config (node.cpp): the configuration a txnode runs with, from   *)
(* the built-in defaults, a configuration file and the command line.       *)
(***************************************************************************)
EXTENDS Integers, Sequences, SequencesExt

CONSTANTS
  Words,      \* the words of a command line that are values
  Strtoul,    \* the number that strtoul reads from a word, 0 from no number
  Files       \* what the readable configuration files hold

(* struct NodeConfig: the defaults, and the type of each key.               *)
Default ==
  [datadir |-> "./txchain-data", mine |-> FALSE, seal_cadence_ms |-> 5000,
   seal_empty |-> TRUE, max_txns_per_block |-> 8, difficulty |-> 0, node_index |-> 0,
   port_base |-> 29000, rpc_port |-> 0, no_rpc |-> FALSE, no_p2p |-> FALSE,
   max_skew_s |-> 7200, log_format |-> "json"]

Key == DOMAIN Default
StrKey == {"datadir", "log_format"}
BoolKey == {"mine", "seal_empty", "no_rpc", "no_p2p"}
TypeOf(k) == IF k \in StrKey THEN "str" ELSE IF k \in BoolKey THEN "bool" ELSE "num"

(* The flags that take a value, --config apart, and those that do not.      *)
ValueFlag ==
  [flag \in {"--datadir", "--seal-cadence", "--seal-empty", "--max-txns-per-block", "--difficulty",
             "--node-index", "--port-base", "--rpc-port", "--max-skew", "--log-format"} |->
     CASE flag = "--datadir" -> "datadir"
       [] flag = "--seal-cadence" -> "seal_cadence_ms"
       [] flag = "--seal-empty" -> "seal_empty"
       [] flag = "--max-txns-per-block" -> "max_txns_per_block"
       [] flag = "--difficulty" -> "difficulty"
       [] flag = "--node-index" -> "node_index"
       [] flag = "--port-base" -> "port_base"
       [] flag = "--rpc-port" -> "rpc_port"
       [] flag = "--max-skew" -> "max_skew_s"
       [] flag = "--log-format" -> "log_format"]
Switch ==
  [flag \in {"--mine", "--no-rpc", "--no-p2p"} |->
     CASE flag = "--mine" -> "mine" [] flag = "--no-rpc" -> "no_rpc" [] flag = "--no-p2p" -> "no_p2p"]

(* A value is no flag, and not empty.                                       *)
ASSUME ConfigAssumption ==
  Words \cap (DOMAIN ValueFlag \cup DOMAIN Switch \cup {"--config", ""}) = {}

(* A word as the value of key k; truthy reads the booleans.                 *)
Meaning(k, word) ==
  IF TypeOf(k) = "str" THEN word
  ELSE IF TypeOf(k) = "bool" THEN word \in {"true", "1"}
  ELSE IF word \in DOMAIN Strtoul THEN Strtoul[word] ELSE 0

(* The files: node.json of a directory, and one named by --config.          *)
NodeJson(dir) == [dir |-> dir, name |-> "node.json"]
Named(file) == [dir |-> "", name |-> file]

(* apply_config_file: the keys it knows, if their value has the right type. *)
(* rpc_port is not among them.  A missing or malformed file changes nothing.*)
ApplyConfigFile(file, cfg) ==
  IF file \notin DOMAIN Files THEN cfg
  ELSE [k \in Key |->
          IF k \in DOMAIN Files[file] \ {"rpc_port"} /\ Files[file][k].type = TypeOf(k)
          THEN Files[file][k].val ELSE cfg[k]]

(* Phase 1: the last word after `flag', wherever it stands.                 *)
PreScan(args, flag, default) ==
  LET at == SelectLastInSubSeq(args, 1, Len(args) - 1, LAMBDA w : w = flag)
  IN IF at = 0 THEN default ELSE args[at + 1]

(* Phase 3, word by word: `flag' is the one that waits for its value.       *)
TakeWord(acc, word) ==
  IF acc.flag # ""
  THEN [flag |-> "",
        cfg |-> IF acc.flag = "--config" THEN acc.cfg
                ELSE [acc.cfg EXCEPT ![ValueFlag[acc.flag]] = Meaning(ValueFlag[acc.flag], word)]]
  ELSE IF word \in DOMAIN ValueFlag \cup {"--config"} THEN [acc EXCEPT !.flag = word]
  ELSE IF word \in DOMAIN Switch THEN [acc EXCEPT !.cfg[Switch[word]] = TRUE]
  ELSE acc

(* A flag at the very end takes the empty word.                             *)
ApplyFlags(args, cfg) ==
  LET acc == FoldLeft(TakeWord, [flag |-> "", cfg |-> cfg], args)
  IN IF acc.flag = "" THEN acc.cfg ELSE TakeWord(acc, "").cfg

(* Mutant: the file is applied after the flags.                             *)
ResolveConfig_FileWins(args) ==
  LET datadir == PreScan(args, "--datadir", Default.datadir)
      config == PreScan(args, "--config", "")
  IN ApplyConfigFile(IF config = "" THEN NodeJson(datadir) ELSE Named(config),
                     ApplyFlags(args, [Default EXCEPT !.datadir = datadir]))

ResolveConfig(args) ==
  LET datadir == PreScan(args, "--datadir", Default.datadir)
      config == PreScan(args, "--config", "")
  IN ApplyFlags(args,
       ApplyConfigFile(IF config = "" THEN NodeJson(datadir) ELSE Named(config),
                       [Default EXCEPT !.datadir = datadir]))

-----------------------------------------------------------------------------
(* The reference: what node.hpp says of the precedence, of every key.  For  *)
(* a command line in which every flag has its value, a key is what its last *)
(* flag says, or what the file says, or the default.                        *)
WellFormed(args) ==
  \A i \in 1 .. Len(args) :
    args[i] \in DOMAIN ValueFlag \cup {"--config"} => i < Len(args) /\ args[i + 1] \in Words

FlagsOf(args, k) ==
  {i \in 1 .. Len(args) : \/ args[i] \in DOMAIN ValueFlag /\ ValueFlag[args[i]] = k
                          \/ args[i] \in DOMAIN Switch /\ Switch[args[i]] = k}

OnCommandLine(args, k) ==
  LET i == Max(FlagsOf(args, k))
  IN IF args[i] \in DOMAIN Switch THEN TRUE ELSE Meaning(k, args[i + 1])

FileOf(args) ==
  LET named == {i \in 1 .. Len(args) : args[i] = "--config"}
      dirs == FlagsOf(args, "datadir")
  IN IF named # {} THEN Named(args[Max(named) + 1])
     ELSE NodeJson(IF dirs # {} THEN args[Max(dirs) + 1] ELSE Default.datadir)

InFile(file, k) ==
  /\ file \in DOMAIN Files /\ k \in DOMAIN Files[file]
  /\ Files[file][k].type = TypeOf(k)

Effective(args) ==
  [k \in Key |-> IF FlagsOf(args, k) # {} THEN OnCommandLine(args, k)
                 ELSE IF InFile(FileOf(args), k) THEN Files[FileOf(args)][k].val
                 ELSE Default[k]]
=============================================================================
