--------------------------- MODULE MCCosmosChain ---------------------------
(***************************************************************************)
(* CosmosChain with a Cosmos account, an Ethereum account and blocks that  *)
(* are valid, replay, skip a nonce, carry each kind of bad authorisation,  *)
(* run out of gas, or commit to the wrong result.                          *)
(***************************************************************************)
EXTENDS CosmosChain

MCAccounts == {"alice", "mallory", "eve", "recorder", "reverter", "coinbase"}
MCHash160 == [k \in {2, 3} \X {"x1"} |-> IF k[1] = 2 THEN "alice" ELSE "mallory"]
MCBalance == [a \in MCAccounts |-> IF a = "alice" THEN 150000
                                   ELSE IF a = "eve" THEN 100000 ELSE 0]

Op(n, to, gas) ==
    [chain_id |-> CHAIN_ID, genesis_hash |-> GENESIS_HASH, sender |-> "alice", nonce |-> n,
     to |-> to, value |-> 7, input |-> 0, gas_limit |-> gas, max_fee_per_gas |-> 2,
     max_priority_fee_per_gas |-> 1]

Key(prefix) == [len |-> 33, prefix |-> prefix, x |-> "x1"]
Sig(prefix, op) == [len |-> 64, in_range |-> TRUE, low_s |-> TRUE, signer |-> <<prefix, "x1">>,
                    doc |-> sign_bytes(op)]
Signed(op) == encode_wire(op, Key(2), Sig(2, op))

\* Well-formed encodings whose authorisation is wrong in one way each.
Pay == Op(0, "mallory", 21000)
ForeignOp == [Pay EXCEPT !.genesis_hash = "other"]
WrongDomain == Signed(ForeignOp)
Tampered == encode_wire([Pay EXCEPT !.value = 8], Key(2), Sig(2, Pay))
OtherKey == encode_wire(Pay, Key(3), Sig(3, Pay))
Forged == encode_wire(Pay, Key(2), Sig(3, Pay))
HighS == encode_wire(Pay, Key(2), [Sig(2, Pay) EXCEPT !.low_s = FALSE])
Unauthorised == {WrongDomain, Tampered, OtherKey, Forged, HighS}

Eth(n, to, signer, low) ==
    [ty |-> 2, rest |-> 0,
     eth |-> [ty |-> 2, signer |-> signer, low_s |-> low, nonce |-> n, to |-> to, value |-> 7,
              input |-> 0, gas_limit |-> 21000, max_fee_per_gas |-> 1,
              max_priority_fee_per_gas |-> 1]]

Block(txs) == [txs |-> txs, base_fee |-> 1, header_ok |-> TRUE, roots_ok |-> TRUE]

GoodBlocks ==
    {Block(<<>>), Block(<<Eth(1, "alice", "eve", TRUE)>>),
     Block(<<Signed(Pay)>>),
     Block(<<Signed(Op(1, "recorder", 30000)), Eth(0, "alice", "eve", TRUE)>>),
     Block(<<Signed(Pay), Signed(Op(1, "reverter", 30000))>>),
     Block(<<Eth(0, "recorder", "eve", TRUE)>>),
     Block(<<Signed(Op(2, "recorder", 21000))>>)}

BadBlocks ==
    {Block(<<t>>) : t \in Unauthorised \cup {Eth(0, "alice", NoSigner, TRUE),
                                             Eth(0, "alice", "eve", FALSE)}}
    \cup {Block(<<Signed(Pay), Signed(Pay)>>),
          Block(<<Eth(0, "alice", "eve", TRUE), Forged>>),
          Block(<<Signed(Op(3, "mallory", 21000))>>),
          Block(<<[Signed(Pay) EXCEPT !.minimal = FALSE]>>),
          [Block(<<Signed(Pay)>>) EXCEPT !.header_ok = FALSE],
          [Block(<<Eth(0, "alice", "eve", TRUE)>>) EXCEPT !.roots_ok = FALSE]}

MCBlocks == GoodBlocks \cup BadBlocks

============================================================================
