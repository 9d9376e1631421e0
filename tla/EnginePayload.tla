---------------------------- MODULE EnginePayload ----------------------------
(***************************************************************************)
(* src/payload/engine.rs and the engine half of src/evm.rs: one block on   *)
(* its way through the engine API, and the environment it is executed in.  *)
(*                                                                         *)
(* The environment of a block is derived three times from three different  *)
(* objects: by the builder from the payload attributes, by the engine from *)
(* the execution payload and its sidecar, which it does not wait to see    *)
(* converted and compared with the block hash, and by an import or a       *)
(* re-execution from the header.  Each version of the API carries other    *)
(* optional fields, and each fork wants others.                            *)
(*                                                                         *)
(* A header is its own hash.  The fields that are plainly copied by every  *)
(* derivation (number, gas limit, beneficiary, timestamp, parent hash,     *)
(* transactions) are left out.  Absent optional fields are None.           *)
(***************************************************************************)
EXTENDS Integers, Sequences

CONSTANTS
    None,
    BaseFees,       \* base fees a payload may name (256 bits)
    U64_MAX,        \* u64::MAX, scaled down
    Excess,         \* values of excess_blob_gas
    NEXT_BASE_FEE,  \* base fee and excess blob gas of the next block
    NEXT_EXCESS

ASSUME EngineAssumption ==
    /\ U64_MAX \in Nat /\ BaseFees \subseteq Nat /\ Excess \subseteq Nat
    /\ NEXT_BASE_FEE \in 0 .. U64_MAX /\ NEXT_EXCESS \in Nat
    /\ None \notin Nat /\ None \notin {"requests", "malformed"}

Ok(v) == [ok |-> TRUE, val |-> v]
Err(e) == [ok |-> FALSE, err |-> e]

Forks == <<"paris", "shanghai", "cancun", "prague", "osaka", "amsterdam">>
ForkIndex(f) == CHOOSE i \in DOMAIN Forks : Forks[i] = f

VARIABLES
    fork,       \* the fork at the timestamp of the block
    own,        \* the block the node built: [block, env, ctx], or None
    request,    \* the newPayload under way: [version, data, own], or None
    execution,  \* environment and context its transactions are executed in, or None
    block       \* the block it was converted to, or None

vars == <<fork, own, request, execution, block>>

Active(f) == ForkIndex(fork) >= ForkIndex(f)

----------------------------------------------------------------------------
(* Versions (external): the forks a message version is for, and the fields   *)
(* it must and must not have.                                                *)

ForksOf(kind, version) ==
    IF version <= 2 THEN 1 .. version
    ELSE IF kind = "attributes" THEN (IF version = 3 THEN 3 .. 5 ELSE {6})
    ELSE IF version = 3 THEN {3} ELSE IF version = 4 THEN 4 .. 5 ELSE {6}

version_specific_fields_ok(kind, version, withdrawals, root, slot) ==
    /\ ForkIndex(fork) \in ForksOf(kind, version)
    /\ (withdrawals # None) <=> Active("shanghai")
    /\ (root # None) <=> version >= 3
    /\ (slot # None) <=> Active("amsterdam")

\* CosmosEngineValidator: requests first, then the upstream rules.
validate_version_specific_fields(version, data) ==
    /\ data.sidecar.requests # "malformed"
    /\ version_specific_fields_ok("payload", version, data.payload.withdrawals,
                                  data.sidecar.parent_beacon_block_root,
                                  data.payload.slot_number)

\* Mutant: the attributes are taken as they come.
ensure_well_formed_attributes_Any(version, attrs) == TRUE

ensure_well_formed_attributes(version, attrs) ==
    version_specific_fields_ok("attributes", version, attrs.withdrawals,
                               attrs.parent_beacon_block_root, attrs.slot_number)

----------------------------------------------------------------------------
(* Payloads and blocks                                                       *)

\* External: the header a payload and its sidecar stand for.
HeaderOf(p, sidecar) ==
    [base_fee |-> p.base_fee, mix_hash |-> p.prev_randao, difficulty |-> 0,
     withdrawals |-> p.withdrawals, excess_blob_gas |-> p.excess_blob_gas,
     slot_number |-> p.slot_number, extra_data |-> p.extra_data, blobs |-> p.blobs,
     parent_beacon_block_root |-> sidecar.parent_beacon_block_root,
     requests_hash |-> sidecar.requests]

\* convert_payload_to_block; the checks are upstream's ensure_well_formed_payload.
convert_payload_to_block(data) ==
    LET h == HeaderOf(data.payload, data.sidecar)
        CancunFields == {h.excess_blob_gas, h.parent_beacon_block_root}
    IN  IF data.payload.base_fee > U64_MAX THEN Err("BaseFee")
        ELSE IF data.payload.block_hash # h THEN Err("BlockHash")
        ELSE IF ~((h.withdrawals # None) <=> Active("shanghai")) THEN Err("withdrawals")
        ELSE IF Active("cancun") /\ (None \in CancunFields
                                     \/ data.sidecar.versioned_hashes # data.payload.blobs)
             THEN Err("Cancun fields")
        ELSE IF ~Active("cancun") /\ (CancunFields # {None} \/ data.payload.blobs # "none")
             THEN Err("Cancun fields")
        ELSE IF ~((data.sidecar.requests # None) <=> Active("prague")) THEN Err("Prague fields")
        ELSE Ok(h)

\* CosmosEngineTypes::block_to_payload, by upstream's from_block_unchecked_with_extras.  Its
\* other argument, the block access list that Amsterdam adds, is left out.
block_to_payload(b) ==
    [payload |-> [base_fee |-> b.base_fee, prev_randao |-> b.mix_hash,
                  withdrawals |-> b.withdrawals, excess_blob_gas |-> b.excess_blob_gas,
                  slot_number |-> b.slot_number, extra_data |-> b.extra_data,
                  blobs |-> b.blobs, block_hash |-> b],
     sidecar |-> [parent_beacon_block_root |-> b.parent_beacon_block_root,
                  versioned_hashes |-> b.blobs, requests |-> b.requests_hash]]

----------------------------------------------------------------------------
(* Environments and contexts                                                 *)

\* External: the chain's blob parameters, and the price of blob gas under them.
blob_params == IF Active("cancun") THEN [of |-> fork] ELSE None
max_blobs_per_tx(params) == IF params = None THEN None ELSE <<"max_blobs_per_tx", params>>
BlobExcessGasAndPrice(excess, params) ==
    IF excess = None \/ params = None THEN None
    ELSE [excess_blob_gas |-> excess, blob_gasprice |-> <<"calc_blob_fee", params, excess>>]

tx_gas_limit_cap == IF Active("osaka") THEN "MAX_TX_GAS_LIMIT_OSAKA" ELSE None
OrZero(v) == IF v = None THEN 0 ELSE v

\* Every fork of the engine API is at or past the merge.  Spec, gas cap and blob parameters
\* follow from the fork in the same words in evm_env_for_payload and upstream; what the two may
\* disagree in is what the parameters of this operator are taken from.
BlockEnv(base_fee, prev_randao, excess, slot) ==
    [spec |-> fork, max_blobs_per_tx |-> max_blobs_per_tx(blob_params),
     tx_gas_limit_cap |-> tx_gas_limit_cap, difficulty |-> 0, prevrandao |-> prev_randao,
     basefee |-> base_fee,
     blob_excess_gas_and_price |-> BlobExcessGasAndPrice(excess, blob_params),
     slot_num |-> OrZero(slot)]

saturated_base_fee_per_gas(p) == IF p.base_fee > U64_MAX THEN U64_MAX ELSE p.base_fee

evm_env_for_payload(data) ==
    BlockEnv(saturated_base_fee_per_gas(data.payload), data.payload.prev_randao,
             data.payload.excess_blob_gas, data.payload.slot_number)

\* Mutant: the beacon root is looked for in the payload, which has none.
context_for_payload_NoRoot(data) ==
    [parent_beacon_block_root |-> None, withdrawals |-> data.payload.withdrawals,
     extra_data |-> data.payload.extra_data, slot_number |-> data.payload.slot_number]

context_for_payload(data) ==
    [parent_beacon_block_root |-> data.sidecar.parent_beacon_block_root,
     withdrawals |-> data.payload.withdrawals,
     extra_data |-> data.payload.extra_data, slot_number |-> data.payload.slot_number]

\* evm_env, by upstream's EthEvmConfig, and context_for_block.
evm_env(h) == BlockEnv(h.base_fee, h.mix_hash, h.excess_blob_gas, h.slot_number)
context_for_block(h) ==
    [parent_beacon_block_root |-> h.parent_beacon_block_root, withdrawals |-> h.withdrawals,
     extra_data |-> h.extra_data, slot_number |-> h.slot_number]

\* next_evm_env and context_for_next_block, by upstream's EthEvmConfig, on the attributes
\* default_ethereum_payload hands on.
NextExcess == IF Active("cancun") THEN NEXT_EXCESS ELSE None
next_evm_env(attrs) == BlockEnv(NEXT_BASE_FEE, attrs.prev_randao, NextExcess, attrs.slot_number)
context_for_next_block(attrs) ==
    [parent_beacon_block_root |-> attrs.parent_beacon_block_root,
     withdrawals |-> attrs.withdrawals, extra_data |-> attrs.extra_data,
     slot_number |-> attrs.slot_number]

\* External: the assembler; blobs are what the block's blob transactions commit to.
Assembled(attrs, blobs) ==
    [base_fee |-> NEXT_BASE_FEE, mix_hash |-> attrs.prev_randao, difficulty |-> 0,
     withdrawals |-> attrs.withdrawals, excess_blob_gas |-> NextExcess,
     slot_number |-> attrs.slot_number, extra_data |-> attrs.extra_data, blobs |-> blobs,
     parent_beacon_block_root |-> attrs.parent_beacon_block_root,
     requests_hash |-> IF Active("prague") THEN "requests" ELSE None]

----------------------------------------------------------------------------
(* What arrives                                                              *)

Attributes == [withdrawals : {None, "withdrawals"}, parent_beacon_block_root : {None, "root"},
               slot_number : {None, 7}, prev_randao : {"randao"}, extra_data : {"extra"}]

ExecutionSidecars == [parent_beacon_block_root : {None, "root", "other"},
                      versioned_hashes : {"none", "blobs"},
                      requests : {None, "requests", "malformed"}]

\* The shape of an execution payload: each version adds fields to the one before.
PayloadFields(v) ==
    [base_fee : BaseFees, prev_randao : {"randao"}, extra_data : {"extra"},
     blobs : {"none", "blobs"},
     withdrawals : IF v >= 2 THEN {"withdrawals"} ELSE {None},
     excess_blob_gas : IF v >= 3 THEN Excess ELSE {None},
     slot_number : IF v >= 4 THEN {7} ELSE {None}]

Sealed(p, h) == [base_fee |-> p.base_fee, prev_randao |-> p.prev_randao,
                 withdrawals |-> p.withdrawals, excess_blob_gas |-> p.excess_blob_gas,
                 slot_number |-> p.slot_number, extra_data |-> p.extra_data,
                 blobs |-> p.blobs, block_hash |-> h]

\* The payload shapes the parameters of newPayload have, by its version.
ShapesOf(version) ==
    IF version <= 2 THEN 1 .. version ELSE IF version <= 4 THEN {3} ELSE {4}

Init ==
    /\ fork \in {Forks[i] : i \in DOMAIN Forks}
    /\ own = None
    /\ request = None
    /\ execution = None
    /\ block = None

\* forkchoiceUpdated with attributes: the builder makes a block.
Build(version, attrs, blobs) ==
    /\ own = None /\ request = None
    /\ ensure_well_formed_attributes(version, attrs)
    /\ blobs = "none" \/ Active("cancun")
    /\ own' = [block |-> Assembled(attrs, blobs), env |-> next_evm_env(attrs),
               ctx |-> context_for_next_block(attrs)]
    /\ UNCHANGED <<fork, request, execution, block>>

\* newPayload from a consensus client.  A payload names the hash of the header it was made
\* of, which may have had another sidecar than the one that comes with it.
NewPayload(version, p, sidecar, other) ==
    /\ request = None /\ own = None
    /\ request' = [version |-> version, own |-> FALSE,
                   data |-> [payload |-> Sealed(p, HeaderOf(p, other)), sidecar |-> sidecar]]
    /\ validate_version_specific_fields(version, request'.data)
    /\ UNCHANGED <<fork, own, execution, block>>

\* The block of the node itself comes back, through block_to_payload, in the version its
\* fork asks for.
OwnPayload(version) ==
    /\ request = None /\ own # None
    /\ ForkIndex(fork) \in ForksOf("payload", version)
    /\ request' = [version |-> version, own |-> TRUE, data |-> block_to_payload(own.block)]
    /\ UNCHANGED <<fork, own, execution, block>>

\* Execution starts, and the conversion, in either order.
Execute ==
    /\ request # None /\ execution = None
    /\ execution' = [env |-> evm_env_for_payload(request.data),
                     ctx |-> context_for_payload(request.data)]
    /\ UNCHANGED <<fork, own, request, block>>

Convert ==
    /\ request # None /\ block = None
    /\ convert_payload_to_block(request.data).ok
    /\ block' = convert_payload_to_block(request.data).val
    /\ UNCHANGED <<fork, own, request, execution>>

\* The payload is refused, whatever was executed of it.
ConvertFails ==
    /\ request # None /\ block = None
    /\ ~convert_payload_to_block(request.data).ok
    /\ request' = None
    /\ execution' = None
    /\ UNCHANGED <<fork, own, block>>

Next ==
    \/ \E v \in 1 .. 4 : \E a \in Attributes : \E b \in {"none", "blobs"} : Build(v, a, b)
    \/ \E v \in 1 .. 5 : \E shape \in ShapesOf(v) : \E p \in PayloadFields(shape) :
         \E s, o \in ExecutionSidecars : NewPayload(v, p, s, o)
    \/ \E v \in 1 .. 5 : OwnPayload(v)
    \/ Execute \/ Convert \/ ConvertFails

Spec == Init /\ [][Next]_vars

----------------------------------------------------------------------------
(* Properties                                                                *)

Accepted == request # None /\ execution # None /\ block # None

\* A block has one environment: what the engine executed a payload in before it knew that
\* the payload was well formed is what the header gives to everybody who executes the block
\* later, and, for the node's own block, what the builder executed it in.
SameExecution ==
    Accepted => /\ execution = [env |-> evm_env(block), ctx |-> context_for_block(block)]
                /\ request.own => execution = [env |-> own.env, ctx |-> own.ctx]

\* A block built for attributes the node accepted comes back as a payload the node accepts:
\* it has the fields its version and its fork ask for, and converts to the same block.
OwnPayloadAccepted ==
    request # None /\ request.own =>
        /\ validate_version_specific_fields(request.version, request.data)
        /\ convert_payload_to_block(request.data) = Ok(own.block)
============================================================================
