------------------------------- MODULE Startup -------------------------------
(***************************************************************************)
(* Starting up: processes of txnode (apps/txnode/main.cpp) and of the      *)
(* txchain tool (apps/txchain/main.cpp: wallet keygen, wallet address,     *)
(* send) side by side on the same key files, up to the point where each    *)
(* has its key (wallet/wallet.cpp).  A process may be killed between any   *)
(* two system calls, a call may fail or write only a part, and the machine *)
(* may lose power.                                                         *)
(***************************************************************************)
EXTENDS Config, Wallet

CONSTANTS
  Procs,          \* the processes
  Starts,         \* the commands given: [verb, args]
  Paths,          \* the key files these name
  InitialFiles,   \* what each of them may be before the first command
  MaxKeys,        \* bound on the keys made, the one there at first included
  MaxStarts,      \* bound on the commands
  MaxLosses       \* bound on the power losses

(* The key of the files that are there at first.                            *)
FirstKey == 1
Keys == FirstKey .. MaxKeys

Verb == {"txnode", "keygen", "address", "send"}
Pieces == [field : {"priv1", "priv2", "pub", "address", "brace", "otherversion", "gap"},
           of : {NoKey} \cup Keys]
Text == Seq(Pieces)
File == [there : BOOLEAN, loose : BOOLEAN, text : Text]

KeyField == {"priv1", "priv2", "pub", "address"}

(* The key file a command comes to, the configuration resolved.             *)
PathOf(s) ==
  IF s.verb = "txnode" THEN WalletPathForDatadir(ResolveConfig(s.args).datadir)
  ELSE WalletPath(s.args, IF s.verb = "keygen" THEN "--out" ELSE "--key")

(* A file that is there at first holds no key but the first one.            *)
ASSUME StartupAssumption ==
  /\ \A s \in Starts : s.verb \in Verb /\ s.args \in Seq(STRING) /\ PathOf(s) \in Paths
  /\ \A f \in Paths : InitialFiles[f] \subseteq File
  /\ \A f \in Paths : \A file \in InitialFiles[f] : \A i \in 1 .. Len(file.text) :
       file.text[i].of = IF file.text[i].field \in KeyField THEN FirstKey ELSE NoKey
  /\ MaxKeys \in Nat \ {0} /\ MaxStarts \in Nat /\ MaxLosses \in Nat

VARIABLES
  disk,      \* the key files as the processes see them
  stable,    \* the key files as they are on the medium
  proc,      \* the processes
  made,      \* the latest key made
  starts,    \* the commands so far
  losses,    \* the power losses so far
  writers,   \* history: who opened a file last for writing, and who wrote to it since
  due        \* history: the key reported as saved in a file, NoKey if there is none

vars == <<disk, stable, proc, made, starts, losses, writers, due>>

(* A process: where it is, its command, its configuration until the chain   *)
(* is booted, its key file and key, how much of the key it has written, and *)
(* whether it found the file open to others.                                *)
Idle == [pc |-> "idle", verb |-> "txnode", args |-> <<>>, cfg |-> Default,
         path |-> WalletPathForDatadir(Default.datadir), key |-> NoKey, pos |-> 0,
         world_readable |-> FALSE]

Init ==
  /\ disk \in [Paths -> UNION {InitialFiles[f] : f \in Paths}]
  /\ \A f \in Paths : disk[f] \in InitialFiles[f]
  /\ stable = disk
  /\ proc = [p \in Procs |-> Idle]
  /\ made = FirstKey
  /\ starts = 0 /\ losses = 0
  /\ writers = [f \in Paths |-> {}]
  /\ due = [f \in Paths |-> NoKey]

files == <<disk, stable>>
history == <<writers, due>>

Becomes(p, r) == proc' = [proc EXCEPT ![p] = r]

(* Process p ends, with or without an error.                                *)
Ends(p) == Becomes(p, Idle)

-----------------------------------------------------------------------------
(* The commands.                                                            *)

(* txnode resolves its configuration.                                       *)
StartNode(p) ==
  /\ proc[p].pc = "idle" /\ starts < MaxStarts
  /\ starts' = starts + 1
  /\ \E s \in Starts :
       /\ s.verb = "txnode"
       /\ Becomes(p, [Idle EXCEPT !.pc = "boot", !.args = s.args, !.cfg = ResolveConfig(s.args)])
  /\ UNCHANGED <<files, made, losses, history>>

(* Node::boot (TxNode) refuses the chain, or goes on to the key.            *)
Boot(p) ==
  /\ proc[p].pc = "boot"
  /\ \/ Ends(p)
     \/ Becomes(p, [Idle EXCEPT !.pc = "find", !.path = WalletPathForDatadir(proc[p].cfg.datadir)])
  /\ UNCHANGED <<files, made, starts, losses, history>>

(* wallet_create: a key never seen before.                                  *)
WalletCreate(p, r) ==
  /\ made < MaxKeys
  /\ made' = made + 1
  /\ Becomes(p, [r EXCEPT !.pc = "open", !.key = made + 1])

(* load_or_create_wallet: one stat decides between the two.                 *)
LoadOrCreate(p) ==
  /\ proc[p].pc = "find"
  /\ IF disk[proc[p].path].there
     THEN Becomes(p, [proc[p] EXCEPT !.pc = "load"]) /\ UNCHANGED made
     ELSE WalletCreate(p, proc[p])
  /\ UNCHANGED <<files, starts, losses, history>>

(* run_wallet_keygen: a new key whether or not the file is there.           *)
StartKeygen(p) ==
  /\ proc[p].pc = "idle" /\ starts < MaxStarts
  /\ starts' = starts + 1
  /\ \E s \in Starts :
       /\ s.verb = "keygen"
       /\ WalletCreate(p, [Idle EXCEPT !.verb = s.verb, !.path = WalletPath(s.args, "--out")])
  /\ UNCHANGED <<files, losses, history>>

(* run_wallet_address and run_send load the key.                            *)
StartLoad(p) ==
  /\ proc[p].pc = "idle" /\ starts < MaxStarts
  /\ starts' = starts + 1
  /\ \E s \in Starts :
       /\ s.verb \in {"address", "send"}
       /\ Becomes(p, [Idle EXCEPT !.pc = "load", !.verb = s.verb,
                                  !.path = WalletPath(s.args, "--key")])
  /\ UNCHANGED <<files, made, losses, history>>

-----------------------------------------------------------------------------
(* wallet_load: stat for the mode, ...                                      *)
LoadStat(p) ==
  /\ proc[p].pc = "load"
  /\ IF disk[proc[p].path].there
     THEN Becomes(p, [proc[p] EXCEPT !.pc = "read",
                                     !.world_readable = disk[proc[p].path].loose])
     ELSE Ends(p)
  /\ UNCHANGED <<files, made, starts, losses, history>>

(* ... then the contents, which may since have changed.                     *)
LoadRead(p) ==
  /\ proc[p].pc = "read"
  /\ LET r == WalletLoad(disk[proc[p].path].text) IN
     IF r.ok THEN Becomes(p, [proc[p] EXCEPT !.pc = "ready", !.key = r.key]) ELSE Ends(p)
  /\ UNCHANGED <<files, made, starts, losses, history>>

-----------------------------------------------------------------------------
(* wallet_save: open with O_CREAT | O_TRUNC; the mode counts only for a new *)
(* file.                                                                    *)
SaveOpen(p) ==
  /\ proc[p].pc = "open"
  /\ LET f == proc[p].path IN
     /\ disk' = [disk EXCEPT ![f] = [there |-> TRUE, loose |-> @.there /\ @.loose, text |-> <<>>]]
     /\ writers' = [writers EXCEPT ![f] = {p}]
     /\ due' = [due EXCEPT ![f] = NoKey]
  /\ Becomes(p, [proc[p] EXCEPT !.pc = "chmod"])
  /\ UNCHANGED <<stable, made, starts, losses>>

(* Mutant: the mode given to open is relied on.                             *)
SaveChmod_Skip(p) ==
  /\ proc[p].pc = "chmod"
  /\ Becomes(p, [proc[p] EXCEPT !.pc = "write"])
  /\ UNCHANGED <<files, made, starts, losses, history>>

(* fchmod to 0600.                                                          *)
SaveChmod(p) ==
  /\ proc[p].pc = "chmod"
  /\ disk' = [disk EXCEPT ![proc[p].path].loose = FALSE]
  /\ Becomes(p, [proc[p] EXCEPT !.pc = "write"])
  /\ UNCHANGED <<stable, made, starts, losses, history>>

(* One write() of n pieces at the process's own position.                   *)
WriteSome(p, n) ==
  LET f == proc[p].path
      rest == SubSeq(WalletJson(proc[p].key), proc[p].pos + 1, proc[p].pos + n)
  IN /\ disk' = [disk EXCEPT ![f].text = Overlay(@, proc[p].pos, rest)]
     /\ writers' = [writers EXCEPT ![f] = @ \cup {p}]
     /\ due' = [due EXCEPT ![f] = NoKey]

(* Mutant: the loop ends after the first write.                             *)
SaveWrite_Once(p) ==
  /\ proc[p].pc = "write"
  /\ \E n \in 1 .. Len(WalletJson(proc[p].key)) - proc[p].pos :
       /\ WriteSome(p, n)
       /\ Becomes(p, [proc[p] EXCEPT !.pos = @ + n, !.pc = "sync"])
  /\ UNCHANGED <<stable, made, starts, losses>>

(* The loop: one write() after the other until all is written.              *)
SaveWrite(p) ==
  /\ proc[p].pc = "write"
  /\ \E n \in 1 .. Len(WalletJson(proc[p].key)) - proc[p].pos :
       /\ WriteSome(p, n)
       /\ Becomes(p, [proc[p] EXCEPT
            !.pos = @ + n,
            !.pc = IF proc[p].pos + n = Len(WalletJson(proc[p].key)) THEN "sync" ELSE "write"])
  /\ UNCHANGED <<stable, made, starts, losses>>

(* fsync, and the key is reported: the address is printed.                  *)
SaveSync(p) ==
  /\ proc[p].pc = "sync"
  /\ stable' = [stable EXCEPT ![proc[p].path] = disk[proc[p].path]]
  /\ due' = [due EXCEPT ![proc[p].path] =
               IF writers[proc[p].path] = {p} THEN proc[p].key ELSE NoKey]
  /\ Becomes(p, [proc[p] EXCEPT !.pc = "ready", !.pos = 0])
  /\ UNCHANGED <<disk, made, starts, losses, writers>>

-----------------------------------------------------------------------------
(* A process is killed, a system call of it fails, or it is done.           *)
Exit(p) ==
  /\ proc[p].pc # "idle"
  /\ Ends(p)
  /\ UNCHANGED <<files, made, starts, losses, history>>

(* What the medium may hold of file f after a power loss: what was synced,  *)
(* or the file as it was with the end of its text missing.                  *)
Remains(f) ==
  {stable[f]} \cup
  {[disk[f] EXCEPT !.text = SubSeq(@, 1, n)] : n \in 0 .. Len(disk[f].text)}

(* Power is lost: a synced file is as it was.                               *)
PowerLoss ==
  /\ losses < MaxLosses
  /\ losses' = losses + 1
  /\ \E d \in [Paths -> UNION {Remains(f) : f \in Paths}] :
       /\ \A f \in Paths : d[f] \in IF disk[f] = stable[f] THEN {stable[f]} ELSE Remains(f)
       /\ disk' = d /\ stable' = d
  /\ proc' = [p \in Procs |-> Idle]
  /\ UNCHANGED <<made, starts, history>>

(* All commands are given and done.                                         *)
Over ==
  /\ starts = MaxStarts \/ made = MaxKeys
  /\ \A p \in Procs : proc[p].pc = "idle"
  /\ UNCHANGED vars

Next ==
  \/ \E p \in Procs :
       \/ StartNode(p) \/ Boot(p) \/ LoadOrCreate(p) \/ StartKeygen(p) \/ StartLoad(p)
       \/ LoadStat(p) \/ LoadRead(p)
       \/ SaveOpen(p) \/ SaveChmod(p) \/ SaveWrite(p) \/ SaveSync(p)
       \/ Exit(p)
  \/ PowerLoss
  \/ Over

Spec == Init /\ [][Next]_vars

-----------------------------------------------------------------------------
(* resolve_config gives every key but rpc_port the value node.hpp's order   *)
(* of precedence gives it ("built-in default, node.json (or the --config    *)
(* file), CLI flag"), wherever the flags stand and whatever the file names; *)
(* rpc_port is what its flag says or the default, and no file sets it.      *)
ConfigPrecedence ==
  \A p \in Procs : proc[p].pc = "boot" /\ WellFormed(proc[p].args) =>
    LET args == proc[p].args
        port == FlagsOf(args, "rpc_port")
    IN /\ \A k \in Key \ {"rpc_port"} : proc[p].cfg[k] = Effective(args)[k]
       /\ proc[p].cfg["rpc_port"] =
            IF port # {} THEN OnCommandLine(args, "rpc_port") ELSE Default["rpc_port"]

(* The order of precedence of node.hpp holds for the port of the RPC server *)
(* too (apply_config_file does not look for it).                            *)
PortPrecedence ==
  \A p \in Procs : proc[p].pc = "boot" /\ WellFormed(proc[p].args) =>
                     proc[p].cfg["rpc_port"] = Effective(proc[p].args)["rpc_port"]

(* A process never goes on with a key that nobody made: a text that a kill, *)
(* a power loss or a second writer left half or mixed is refused            *)
(* (wallet_load's recompute-and-assert).                                    *)
LoadedIsMade == \A p \in Procs : proc[p].pc = "ready" => proc[p].key \in FirstKey .. made

(* A key made by this code never lies in a file that others may read, not   *)
(* even while it is written over a file that was open to all (wallet_save,  *)
(* "never group/other").                                                    *)
PrivateAtRest ==
  \A f \in Paths : \A file \in {disk[f], stable[f]} :
    file.loose => \A i \in 1 .. Len(file.text) : file.text[i].of \in {NoKey, FirstKey}

(* When keygen has printed an address, or txnode has announced a key it     *)
(* made, the next start on that file gets that very key, after a kill or a  *)
(* power loss too, as long as no one else has saved to the file.            *)
ReportedIsSaved ==
  \A f \in Paths : due[f] # NoKey =>
    disk[f].there /\ WalletLoad(disk[f].text) = [ok |-> TRUE, key |-> due[f]]
=============================================================================
