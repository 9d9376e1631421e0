----------------------------- MODULE MCBlobPool -----------------------------
(***************************************************************************)
(* BlobPool with a Cosmos account, and an Ethereum account that sends blob *)
(* transactions, two of them for the same place, and an ordinary one;      *)
(* each blob transaction may come with the right sidecar, in two lengths,  *)
(* or with the one of another.                                             *)
(***************************************************************************)
EXTENDS BlobPool

MCHash160 == [k \in {2, 3} \X {"x1"} |-> IF k[1] = 2 THEN "alice" ELSE "mallory"]
MCSigners == {"alice", "mallory", "eve"}

Op(n) == [chain_id |-> CHAIN_ID, genesis_hash |-> GENESIS_HASH, sender |-> "alice", nonce |-> n,
          to |-> "eve", value |-> 7, input |-> 0, gas_limit |-> 21000, max_fee_per_gas |-> 2,
          max_priority_fee_per_gas |-> 1]
Key == [len |-> 33, prefix |-> 2, x |-> "x1"]
Sig(op) == [len |-> 64, in_range |-> TRUE, low_s |-> TRUE, signer |-> <<2, "x1">>,
            doc |-> sign_bytes(op)]
Cosmos(n) == CosmosSignedNew(Op(n), Key, Sig(Op(n))).val

Eth(t, n, signer, blobs) ==
    Ethereum([ty |-> t, signer |-> signer, low_s |-> TRUE, nonce |-> n, to |-> "alice",
              value |-> 7, input |-> 0, gas_limit |-> 21000, max_fee_per_gas |-> 2,
              max_priority_fee_per_gas |-> 1, blobs |-> blobs])

MCTxs == {Cosmos(0), Eth(3, 0, "eve", "b1"), Eth(3, 0, "eve", "b2"), Eth(2, 1, "eve", "none"),
          Eth(3, 1, "eve", "b1"), Eth(3, 0, NoSigner, "b2")}
MCSidecars == {[blobs |-> "b1", len |-> 131], [blobs |-> "b1", len |-> 200],
               [blobs |-> "b2", len |-> 131]}
============================================================================
