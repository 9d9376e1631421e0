----------------------------- MODULE MCTxCodec -----------------------------
(***************************************************************************)
(* TxCodec on operations at and around every protocol limit, each in its   *)
(* canonical encoding and in every malformed variant of it.                *)
(***************************************************************************)
EXTENDS TxCodec

MCHash160 == [k \in {2, 3} \X {"x1"} |-> <<"addr", k[1]>>]

BaseOp == [chain_id |-> CHAIN_ID, genesis_hash |-> GENESIS_HASH, sender |-> <<"addr", 2>>,
           nonce |-> 0, to |-> <<"addr", 3>>, value |-> 1, input |-> 0, gas_limit |-> 21000,
           max_fee_per_gas |-> 2, max_priority_fee_per_gas |-> 1]

\* Limits of validate_limits, from both sides, two at a time.
Ops == {[BaseOp EXCEPT !.nonce = n, !.input = i] :
            n \in {0, U64_MAX - 1, U64_MAX}, i \in {0, MAX_CALLDATA, MAX_CALLDATA + 1}}
       \cup {[BaseOp EXCEPT !.gas_limit = g, !.max_priority_fee_per_gas = p] :
                g \in {MIN_GAS - 1, MAX_GAS, MAX_GAS + 1}, p \in {2, 3}}

Key(len) == [len |-> len, prefix |-> 2, x |-> "x1"]
Sig(len, op) == [len |-> len, in_range |-> TRUE, low_s |-> TRUE, signer |-> <<2, "x1">>,
                 doc |-> sign_bytes(op)]

Honest == {encode_wire(op, Key(33), Sig(64, op)) : op \in Ops}

\* One or two things wrong with the bytes.
Malformed ==
    {[h EXCEPT !.minimal = m, !.trailing = t, !.rest = r] :
        h \in Honest, m \in BOOLEAN, t \in {0, 1}, r \in {-1, 0, 3}}
    \cup {[h EXCEPT !.payload.minimal = m, !.payload.trailing = t, !.payload.version = v] :
        h \in Honest, m \in BOOLEAN, t \in {0, 1, 100}, v \in {1, 2}}
    \cup {[h EXCEPT !.key.len = k, !.sig.len = s, !.ty = y] :
        h \in Honest, k \in {33, 65}, s \in {64, 65}, y \in {TX_TYPE, 125}}
    \cup {[h EXCEPT !.list = FALSE] : h \in Honest}
    \cup {[h EXCEPT !.payload.list = FALSE] : h \in Honest}

EthInputs ==
    {[ty |-> t, rest |-> 0,
      eth |-> [ty |-> t, signer |-> "e1", low_s |-> TRUE, nonce |-> 0, to |-> "e2",
               value |-> 1, input |-> 0, gas_limit |-> 21000, max_fee_per_gas |-> 2,
               max_priority_fee_per_gas |-> 1]] : t \in EthereumTypes}

MCRawInputs == Malformed \cup EthInputs

MCRpcInputs ==
    LET tx == CosmosSignedNew(BaseOp, Key(33), Sig(64, BaseOp)).val
        good == serialize(tx)
    IN  {good} \cup {[good EXCEPT !.operation.nonce = n, !.tx_type = y] :
                        n \in {0, 1, U64_MAX}, y \in {2, TX_TYPE}}
               \cup {[good EXCEPT !.public_key.len = 32], [good EXCEPT !.cosmos_signature.len = 65]}

\* The lengths computed by WireSize are those of the repository's signed vector
\* fixtures/adr036-v1.json: 121 bytes of payload, 226 bytes raw.
FixtureLens == [chain_id |-> 4, nonce |-> 1, value |-> 5, input |-> 0, gas_limit |-> 3,
                max_fee_per_gas |-> 5, max_priority_fee_per_gas |-> 5]
ASSUME FixtureAssumption == PayloadLen(FixtureLens) = 121 /\ WireLen(FixtureLens) = 226
============================================================================
