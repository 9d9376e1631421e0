---------------------------- MODULE MCCosmosNode ----------------------------
(***************************************************************************)
(* CosmosNode with the client's transfer and its reverted call, an         *)
(* Ethereum account that calls the same contract as the transfer, which    *)
(* has events, and a transaction that another key signed in the client's   *)
(* name.                                                                   *)
(***************************************************************************)
EXTENDS CosmosNode

MCAccounts == {"alice", "mallory", "eve", "recorder", "reverter", "emitter", "coinbase"}
MCHash160 == [k \in {2, 3} \X {"x1"} |-> IF k[1] = 2 THEN "alice" ELSE "mallory"]
MCBalance == [a \in MCAccounts |-> IF a \in {"alice", "eve"} THEN 200000 ELSE 0]
MCLogsOf == [a \in MCAccounts |-> IF a = "emitter" THEN 2 ELSE 0]

ClientOp(n, to, gas) ==
    [chain_id |-> CHAIN_ID, genesis_hash |-> GENESIS_HASH, sender |-> "alice", nonce |-> n,
     to |-> to, value |-> 7, input |-> 0, gas_limit |-> gas, max_fee_per_gas |-> 3,
     max_priority_fee_per_gas |-> 1]
Signed(prefix, op) ==
    encode_wire(op, [len |-> 33, prefix |-> prefix, x |-> "x1"],
                [len |-> 64, in_range |-> TRUE, low_s |-> TRUE, signer |-> <<prefix, "x1">>,
                 doc |-> sign_bytes(op)])
Transfer == Signed(2, ClientOp(0, "emitter", 21000))
Revert == Signed(2, ClientOp(1, "reverter", 30000))
Stolen == Signed(3, ClientOp(0, "eve", 21000))

Eth(n, max_fee) ==
    [ty |-> 2, rest |-> 0,
     eth |-> [ty |-> 2, signer |-> "eve", low_s |-> TRUE, nonce |-> n, to |-> "emitter",
              value |-> 0, input |-> 0, gas_limit |-> 21000, max_fee_per_gas |-> max_fee,
              max_priority_fee_per_gas |-> max_fee]]

MCClientRaws == {Transfer, Revert}
MCOtherRaws == {Eth(0, 1), Stolen}
MCBlocks == MinedBlocks \cup {[txs |-> <<raw>>, base_fee |-> BASE_FEE, header_ok |-> TRUE,
                              roots_ok |-> TRUE] : raw \in NodeRaws}
LiveOtherRaws == {Transfer, Revert, Eth(0, 1), Eth(0, 2), Eth(1, 1)}
============================================================================
