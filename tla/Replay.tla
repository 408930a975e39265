------------------------------- MODULE Replay -------------------------------
(***************************************************************************)
(* The ground truth of validate.cpp: a chain replayed from genesis, with   *)
(* no cached state trusted.                                                *)
(***************************************************************************)
EXTENDS Ledger, FiniteSetsExt

(* applyBlockTxns over all the txns of a block: the reason it returns and   *)
(* the state it leaves.                                                     *)
ApplyBlockTxns(st, b, reward) ==
  LET run[n \in 0 .. Len(b.txns)] ==
        IF n = 0 THEN [reason |-> "OK", work |-> st, coinbases |-> 0]
        ELSE LET prev == run[n - 1]
                 t == b.txns[n]
                 r == BlockTxnReason(prev.work, t, b.header.index, n - 1, prev.coinbases)
             IN IF prev.reason # "OK" THEN prev
                ELSE IF r # "OK" THEN [prev EXCEPT !.reason = r]
                ELSE [reason |-> "OK", work |-> ApplyTxn(prev.work, t),
                      coinbases |-> prev.coinbases + IF t.from = NullAddr THEN 1 ELSE 0]
      last == run[Len(b.txns)]
  IN IF last.reason # "OK" THEN last
     ELSE [last EXCEPT !.reason = CoinbaseCountReason(last.coinbases, reward)]

Supply(st) == MapThenSumSet(LAMBDA a : st[a].balance, Acct)
GENESIS_SUPPLY == Supply(ApplyGenesis)

GenesisReason(b) ==
  IF b.header.index # 0 \/ b.header.prevHash # ZeroHash THEN "BAD_LINK"
  ELSE IF ComputeTxnsHash(b) # b.header.txnsHash THEN "BAD_TXNS_HASH"
  ELSE "OK"

(* replayFromGenesis: the first reason met, or OK, with the state reached.  *)
ReplayFromGenesis(bs, now_s, D, reward) ==
  LET run[n \in 1 .. Len(bs)] ==
        IF n = 1 THEN [reason |-> GenesisReason(bs[1]), state |-> ApplyGenesis]
        ELSE LET prev == run[n - 1]
                 hr == HeaderReason(bs[n], n - 1, bs[n - 1].header, now_s, D)
                 ar == ApplyBlockTxns(prev.state, bs[n], reward)
             IN IF prev.reason # "OK" THEN prev
                ELSE IF hr # "OK" THEN [prev EXCEPT !.reason = hr]
                ELSE [reason |-> ar.reason, state |-> ar.work]
      last == run[Len(bs)]
  IN IF bs = <<>> THEN [reason |-> "BAD_LINK", state |-> ApplyGenesis]
     ELSE IF last.reason # "OK" THEN last
     ELSE IF Supply(last.state) # GENESIS_SUPPLY + (Len(bs) - 1) * reward
          THEN [last EXCEPT !.reason = "BAD_SUPPLY"]
     ELSE last

ReplayReason(bs, now_s, D, reward) == ReplayFromGenesis(bs, now_s, D, reward).reason
=============================================================================
