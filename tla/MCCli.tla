-------------------------------- MODULE MCCli --------------------------------
(* Cli on two accounts: the chain files offered to import.                  *)
EXTENDS Cli

CONSTANTS a1, a2

MCAlloc == (a1 :> 2) @@ (a2 :> 1)

Transfer(from, to, amount, nonce) ==
  [from |-> from, to |-> to, amount |-> amount, nonce |-> nonce, auth |-> "signed"]

MCTransfers == {Transfer(a1, a2, 1, 0), Transfer(a1, a2, 1, 1)}

(* The chain on `genesis' whose blocks hold the given transfers, each block *)
(* one second after the other from `time' on, made for difficulty d.        *)
ChainOf(genesis, bodies, time, d) ==
  FoldLeft(LAMBDA bs, body :
             LET tip == bs[Len(bs)].header
                 all == IF d > 0 THEN <<CoinbaseTxn(a2, Len(bs))>> \o body ELSE body
             IN Append(bs, [header |-> [index |-> Len(bs), timestamp |-> time + Len(bs),
                                        prevHash |-> HeaderHash(tip), txnsHash |-> all,
                                        nonce |-> IF d > 0 THEN "found" ELSE "zero"],
                            txns |-> all]),
           <<genesis>>, bodies)

(* A genesis of another network: the same accounts, another timestamp.      *)
AlienGenesis == [GenesisBlock EXCEPT !.header.timestamp = 1]

t1 == Transfer(a1, a2, 1, 0)
t2 == Transfer(a1, a2, 1, 1)

(* For each difficulty: one block; two chains of two that tie; one of three *)
(* that spends twice; one of three from the future; one of three of another *)
(* network.  And a file that does not parse.                                *)
MCCandidates ==
  {[ok |-> TRUE, blocks |-> ChainOf(c[1], c[2], c[3], d)] :
     c \in {<<GenesisBlock, <<<<>>>>, 0>>,
            <<GenesisBlock, <<<<t1>>, <<>>>>, 0>>,
            <<GenesisBlock, <<<<>>, <<t1>>>>, 0>>,
            <<GenesisBlock, <<<<t1>>, <<t1>>, <<>>>>, 0>>,
            <<GenesisBlock, <<<<t1>>, <<t2>>, <<>>>>, 2>>,
            <<AlienGenesis, <<<<>>, <<>>, <<t1>>>>, 1>>},
     d \in Difficulties}
  \cup {[ok |-> FALSE, blocks |-> <<>>]}

(* For the race: a chain of two blocks.                                     *)
MCTwo == {[ok |-> TRUE, blocks |-> ChainOf(GenesisBlock, <<<<t1>>, <<>>>>, 0, d)] :
            d \in Difficulties}
=============================================================================
