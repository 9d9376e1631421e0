----------------------------- MODULE MCRawTxRpc -----------------------------
(***************************************************************************)
(* Calls that compete for two permits and for the last place in the pool,  *)
(* with arguments of every kind the checks tell apart; Ethereum and        *)
(* unauthorised transactions by the other ways.                            *)
(***************************************************************************)
EXTENDS RawTxRpc, TLC

MCHash160 == [k \in {2, 3} \X {"x1"} |-> IF k[1] = 2 THEN "alice" ELSE "bob"]
MCSenders == {"alice", "bob", "eve"}

Op(sender, n, value) ==
    [chain_id |-> CHAIN_ID, genesis_hash |-> GENESIS_HASH, sender |-> sender, nonce |-> n,
     to |-> "eve", value |-> value, input |-> 0, gas_limit |-> 21000, max_fee_per_gas |-> 2,
     max_priority_fee_per_gas |-> 1]
Key(prefix) == [len |-> 33, prefix |-> prefix, x |-> "x1"]
Sig(prefix, op) == [len |-> 64, in_range |-> TRUE, low_s |-> TRUE, signer |-> <<prefix, "x1">>,
                    doc |-> sign_bytes(op)]
Signed(prefix, op) == encode_wire(op, Key(prefix), Sig(prefix, op))

Alice0 == Signed(2, Op("alice", 0, 7))
\* The same place, at higher fees.
Alice0Other == Signed(2, [Op("alice", 0, 8) EXCEPT !.max_fee_per_gas = 4,
                                                   !.max_priority_fee_per_gas = 2])
Alice1 == Signed(2, Op("alice", 1, 7))
Bob0 == Signed(3, Op("bob", 0, 7))
\* Bob's key and signature on an operation that names Alice.
Stolen == Signed(3, Op("alice", 0, 9))
Eve0 == [ty |-> 2, rest |-> 0,
         eth |-> [ty |-> 2, signer |-> "eve", low_s |-> TRUE, nonce |-> 0, to |-> "bob",
                  value |-> 7, input |-> 0, gas_limit |-> 21000, max_fee_per_gas |-> 1,
                  max_priority_fee_per_gas |-> 1]]

Lower(raw) == [hex |-> "lower", raw |-> raw]
MCParams ==
    {Lower(Alice0), Lower(Alice1), Lower(Bob0), Lower(Stolen), Lower(Eve0),
     Lower([Bob0 EXCEPT !.minimal = FALSE]), [hex |-> "upper", raw |-> Bob0],
     [hex |-> "broken", raw |-> Bob0], [hex |-> "none"]}
MCOtherRaws == {Eve0, Alice0Other, Stolen}

\* The calls are interchangeable.
Symmetry == Permutations(Calls)

LiveParams == {Lower(Alice0), Lower(Stolen)}
LiveOtherRaws == {Eve0}
============================================================================
