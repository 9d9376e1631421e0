-------------------------- MODULE MCPayloadBuilder --------------------------
(***************************************************************************)
(* Three senders.  The parent has executed nonce 0 of A, which the pool    *)
(* still holds; A and B both have a blob transaction, of which all the     *)
(* blobs together exceed the limit; B cannot pay for its second one; C's   *)
(* first nearly fills the block and its second pays too little.  Gas, fees *)
(* and lengths are scaled down.                                            *)
(***************************************************************************)
EXTENDS PayloadBuilder

Tx(hash, sender, nonce, gas_limit, regular, state, max_fee, priority, blobs, len) ==
    [hash |-> hash, sender |-> sender, nonce |-> nonce, gas_limit |-> gas_limit,
     regular_gas |-> regular, state_gas |-> state, max_fee |-> max_fee,
     priority |-> priority, blobs |-> blobs, len |-> len]

MCSenders == {"A", "B", "C"}
a0 == Tx("a0", "A", 0, 2, 2, 0, 3, 1, 0, 100)
a1 == Tx("a1", "A", 1, 3, 1, 2, 3, 1, 0, 100)
a2 == Tx("a2", "A", 2, 2, 1, 0, 3, 3, 2, 100)
b0 == Tx("b0", "B", 0, 3, 2, 1, 4, 1, 1, 100)
b1 == Tx("b1", "B", 1, 2, 1, 0, 4, 0, 0, 100)
c0 == Tx("c0", "C", 0, 7, 4, 3, 2, 1, 0, 250)
c1 == Tx("c1", "C", 1, 2, 1, 0, 0, 0, 0, 100)
MCTxs == {a0, a1, a2, b0, b1, c0, c1}
MCInitialPools == {{a0, b0}, {a0, a1, a2}}

MCParentNonce == [s \in MCSenders |-> IF s = "A" THEN 1 ELSE 0]
MCParentBalance == [s \in MCSenders |-> IF s = "B" THEN 12 ELSE 21]

Config(forks, limits, await, skip) ==
    [fork : forks, max_blobs_per_block : limits, await_payload_on_missing : await,
     skip_state_root : skip]
AllForks == {Forks[i] : i \in DOMAIN Forks}

\* The operator's blob limit: none, below what the builder raises it to, above the protocol's.
MCConfigs == Config(AllForks, {None}, {FALSE}, {FALSE})
                \cup Config({"shanghai", "osaka"}, {0}, {FALSE}, {FALSE})
                \cup Config({"cancun"}, {3}, {TRUE}, {TRUE})
LiveTxs == {a0, a1, b0, c0}
LiveInitialPools == {{a0, a1}, {c0}}
LiveConfigs == Config({"cancun", "osaka"}, {None}, BOOLEAN, {FALSE})
============================================================================
