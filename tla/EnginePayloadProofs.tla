------------------------- MODULE EnginePayloadProofs -------------------------
(***************************************************************************)
(* A block has one environment, and the node accepts its own payloads, for *)
(* all base fees, blob parameters and limits.                              *)
(***************************************************************************)
EXTENDS EnginePayload, TLAPS

\* Execution and conversion belong to the request under way.
Idle == request = None => execution = None /\ block = None
ExecutionOfRequest ==
    request # None /\ execution # None =>
        execution = [env |-> evm_env_for_payload(request.data),
                     ctx |-> context_for_payload(request.data)]
BlockOfRequest ==
    request # None /\ block # None => convert_payload_to_block(request.data) = Ok(block)

\* The node's block was built for attributes it accepted.
BuiltFor(version, attrs, blobs) ==
    /\ version \in 1 .. 4
    /\ ensure_well_formed_attributes(version, attrs)
    /\ blobs = "none" \/ Active("cancun")
    /\ own = [block |-> Assembled(attrs, blobs), env |-> next_evm_env(attrs),
              ctx |-> context_for_next_block(attrs)]
OwnBlock ==
    own # None => \E v \in 1 .. 4 : \E a \in Attributes : \E b \in {"none", "blobs"} :
                      BuiltFor(v, a, b)
OwnRequest ==
    request # None /\ request.own =>
        /\ own # None
        /\ request.version \in 1 .. 5
        /\ ForkIndex(fork) \in ForksOf("payload", request.version)
        /\ request.data = block_to_payload(own.block)

IInv == /\ fork \in {Forks[i] : i \in DOMAIN Forks}
        /\ Idle /\ ExecutionOfRequest /\ BlockOfRequest /\ OwnBlock /\ OwnRequest

----------------------------------------------------------------------------
\* The order of the forks.
LEMMA ForkOrder ==
    /\ \A f \in {Forks[i] : i \in DOMAIN Forks} : ForkIndex(f) \in 1 .. 6
    /\ ForkIndex("shanghai") = 2 /\ ForkIndex("cancun") = 3 /\ ForkIndex("prague") = 4
    /\ ForkIndex("osaka") = 5 /\ ForkIndex("amsterdam") = 6
<1>1. /\ DOMAIN Forks = 1 .. 6
      /\ Forks[1] = "paris" /\ Forks[2] = "shanghai" /\ Forks[3] = "cancun"
      /\ Forks[4] = "prague" /\ Forks[5] = "osaka" /\ Forks[6] = "amsterdam"
  BY DEF Forks
<1>2. \A i \in 1 .. 6 : i = 1 \/ i = 2 \/ i = 3 \/ i = 4 \/ i = 5 \/ i = 6
  OBVIOUS
<1>3. \A i, j \in 1 .. 6 : Forks[i] = Forks[j] => i = j
  BY <1>1, <1>2
<1>4. \A i \in 1 .. 6 : ForkIndex(Forks[i]) = i
  <2> SUFFICES ASSUME NEW i \in 1 .. 6 PROVE ForkIndex(Forks[i]) = i
    OBVIOUS
  <2>1. \E j \in DOMAIN Forks : Forks[j] = Forks[i]
    BY <1>1
  <2>2. ForkIndex(Forks[i]) \in DOMAIN Forks /\ Forks[ForkIndex(Forks[i])] = Forks[i]
    BY <2>1 DEF ForkIndex
  <2> QED
    BY <2>2, <1>1, <1>3
<1> QED
  BY <1>1, <1>4

\* A payload that converts was executed in the environment of its block.
LEMMA PayloadIsBlock ==
    ASSUME NEW data, NEW b, convert_payload_to_block(data) = Ok(b)
    PROVE  /\ evm_env_for_payload(data) = evm_env(b)
           /\ context_for_payload(data) = context_for_block(b)
<1>1. b = HeaderOf(data.payload, data.sidecar) /\ ~(data.payload.base_fee > U64_MAX)
  BY DEF convert_payload_to_block, Ok, Err
<1>2. saturated_base_fee_per_gas(data.payload) = b.base_fee
  BY <1>1 DEF saturated_base_fee_per_gas, HeaderOf
<1>3. /\ b.mix_hash = data.payload.prev_randao
      /\ b.excess_blob_gas = data.payload.excess_blob_gas
      /\ b.slot_number = data.payload.slot_number
      /\ b.withdrawals = data.payload.withdrawals
      /\ b.extra_data = data.payload.extra_data
      /\ b.parent_beacon_block_root = data.sidecar.parent_beacon_block_root
  BY <1>1 DEF HeaderOf
<1> QED
  BY <1>2, <1>3 DEF evm_env_for_payload, evm_env, context_for_payload, context_for_block

\* The node's block, sent out and received, is itself, and was built in that environment.
LEMMA OwnComesBack ==
    ASSUME OwnBlock, own # None
    PROVE  /\ evm_env_for_payload(block_to_payload(own.block)) = own.env
           /\ context_for_payload(block_to_payload(own.block)) = own.ctx
           /\ HeaderOf(block_to_payload(own.block).payload, block_to_payload(own.block).sidecar)
                = own.block
<1>1. PICK v \in 1 .. 4, a \in Attributes, b \in {"none", "blobs"} : BuiltFor(v, a, b)
  BY DEF OwnBlock
<1> DEFINE d == block_to_payload(own.block)
<1>2. /\ own.block = Assembled(a, b) /\ own.env = next_evm_env(a)
      /\ own.ctx = context_for_next_block(a)
  BY <1>1 DEF BuiltFor
<1>3. /\ d.payload.base_fee = NEXT_BASE_FEE /\ d.payload.prev_randao = a.prev_randao
      /\ d.payload.excess_blob_gas = NextExcess /\ d.payload.slot_number = a.slot_number
      /\ d.payload.withdrawals = a.withdrawals /\ d.payload.extra_data = a.extra_data
      /\ d.payload.blobs = b
      /\ d.sidecar.parent_beacon_block_root = a.parent_beacon_block_root
      /\ d.sidecar.requests = own.block.requests_hash
  BY <1>2 DEF block_to_payload, Assembled
<1>4. saturated_base_fee_per_gas(d.payload) = NEXT_BASE_FEE
  BY <1>3, EngineAssumption DEF saturated_base_fee_per_gas
<1>5. evm_env_for_payload(d) = own.env
  BY <1>2, <1>3, <1>4 DEF evm_env_for_payload, next_evm_env
<1>6. context_for_payload(d) = own.ctx
  BY <1>2, <1>3 DEF context_for_payload, context_for_next_block
<1>7. own.block.requests_hash = IF Active("prague") THEN "requests" ELSE None
  BY <1>2 DEF Assembled
<1>8. HeaderOf(d.payload, d.sidecar) = own.block
  BY <1>2, <1>3, <1>7 DEF HeaderOf, Assembled
<1> QED
  BY <1>5, <1>6, <1>8

\* What the inductive invariant says of an accepted payload.
LEMMA Same == IInv => SameExecution
<1> SUFFICES ASSUME IInv, Accepted
             PROVE  /\ execution = [env |-> evm_env(block), ctx |-> context_for_block(block)]
                    /\ request.own => execution = [env |-> own.env, ctx |-> own.ctx]
  BY DEF SameExecution
<1>1. execution = [env |-> evm_env_for_payload(request.data),
                   ctx |-> context_for_payload(request.data)]
  BY DEF IInv, Accepted, ExecutionOfRequest
<1>2. convert_payload_to_block(request.data) = Ok(block)
  BY DEF IInv, Accepted, BlockOfRequest
<1>3. request.own => own # None /\ request.data = block_to_payload(own.block)
  BY DEF IInv, Accepted, OwnRequest
<1>4. OwnBlock
  BY DEF IInv
<1> QED
  BY <1>1, <1>2, <1>3, <1>4, PayloadIsBlock, OwnComesBack

\* The fields of the node's own payload are those its version and its fork ask for.
LEMMA OwnAccepted == IInv => OwnPayloadAccepted
<1> SUFFICES ASSUME IInv, request # None, request.own
             PROVE  /\ validate_version_specific_fields(request.version, request.data)
                    /\ convert_payload_to_block(request.data) = Ok(own.block)
  BY DEF OwnPayloadAccepted
<1>1. /\ own # None /\ request.version \in 1 .. 5
      /\ ForkIndex(fork) \in ForksOf("payload", request.version)
      /\ request.data = block_to_payload(own.block)
      /\ ForkIndex(fork) \in 1 .. 6
  BY ForkOrder DEF IInv, OwnRequest
<1>2. PICK v \in 1 .. 4, a \in Attributes, b \in {"none", "blobs"} : BuiltFor(v, a, b)
  BY <1>1 DEF IInv, OwnBlock
<1> DEFINE d == request.data
<1>3. /\ d.payload.base_fee = NEXT_BASE_FEE
      /\ d.payload.withdrawals = a.withdrawals /\ d.payload.slot_number = a.slot_number
      /\ d.payload.excess_blob_gas = NextExcess /\ d.payload.blobs = b
      /\ d.payload.block_hash = own.block
      /\ d.sidecar.parent_beacon_block_root = a.parent_beacon_block_root
      /\ d.sidecar.versioned_hashes = b
      /\ d.sidecar.requests = IF Active("prague") THEN "requests" ELSE None
  BY <1>1, <1>2 DEF BuiltFor, block_to_payload, Assembled
<1>4. /\ ForkIndex(fork) \in ForksOf("attributes", v)
      /\ (a.withdrawals # None) <=> Active("shanghai")
      /\ (a.parent_beacon_block_root # None) <=> v >= 3
      /\ (a.slot_number # None) <=> Active("amsterdam")
      /\ b = "none" \/ Active("cancun")
  BY <1>2 DEF BuiltFor, ensure_well_formed_attributes, version_specific_fields_ok
<1>5. v >= 3 <=> ForkIndex(fork) >= 3
  BY <1>1, <1>4 DEF ForksOf
<1>6. request.version >= 3 <=> ForkIndex(fork) >= 3
  BY <1>1 DEF ForksOf
<1>7. Active("cancun") <=> ForkIndex(fork) >= 3
  BY ForkOrder DEF Active
<1>8. d.sidecar.requests # "malformed" /\ ((d.sidecar.requests # None) <=> Active("prague"))
  BY <1>3, EngineAssumption
<1>9. validate_version_specific_fields(request.version, d)
  BY <1>1, <1>3, <1>4, <1>5, <1>6, <1>8
     DEF validate_version_specific_fields, version_specific_fields_ok
<1>10. HeaderOf(d.payload, d.sidecar) = own.block
  BY <1>1, OwnComesBack DEF IInv
<1> DEFINE h == HeaderOf(d.payload, d.sidecar)
<1>11. /\ h.withdrawals = a.withdrawals /\ h.excess_blob_gas = NextExcess
       /\ h.parent_beacon_block_root = a.parent_beacon_block_root
  BY <1>3 DEF HeaderOf
<1>12. ~(d.payload.base_fee > U64_MAX)
  BY <1>3, EngineAssumption
<1>13. IF Active("cancun") THEN h.excess_blob_gas # None /\ h.parent_beacon_block_root # None
       ELSE h.excess_blob_gas = None /\ h.parent_beacon_block_root = None
  BY <1>4, <1>5, <1>7, <1>11, EngineAssumption DEF NextExcess
<1>14. convert_payload_to_block(d) = Ok(h)
  <2>1. d.payload.block_hash = h
    BY <1>3, <1>10
  <2>2. CASE Active("cancun")
    BY <1>3, <1>4, <1>8, <1>11, <1>12, <1>13, <2>1, <2>2 DEF convert_payload_to_block
  <2>3. CASE ~Active("cancun")
    BY <1>3, <1>4, <1>8, <1>11, <1>12, <1>13, <2>1, <2>3 DEF convert_payload_to_block
  <2> QED
    BY <2>2, <2>3
<1> QED
  BY <1>9, <1>10, <1>14

----------------------------------------------------------------------------
\* The initial states satisfy the invariant.
LEMMA InitInv == Init => IInv
BY DEF Init, IInv, Idle, ExecutionOfRequest, BlockOfRequest, OwnBlock, OwnRequest

\* Every step preserves it.
LEMMA StepInv == IInv /\ [Next]_vars => IInv'
<1> SUFFICES ASSUME IInv, [Next]_vars PROVE IInv'
  OBVIOUS
<1>1. fork' = fork
  BY DEF Next, vars, Build, NewPayload, OwnPayload, Execute, Convert, ConvertFails
<1>2. fork' \in {Forks[i] : i \in DOMAIN Forks}
  BY <1>1 DEF IInv
<1>3. UNCHANGED own => OwnBlock'
  <2>1. UNCHANGED <<fork, own>> => OwnBlock'
    BY DEF IInv, OwnBlock, BuiltFor, ensure_well_formed_attributes, version_specific_fields_ok,
           Active, Assembled, NextExcess, next_evm_env, context_for_next_block, BlockEnv,
           max_blobs_per_tx, blob_params, tx_gas_limit_cap, BlobExcessGasAndPrice
  <2> QED
    BY <1>1, <2>1
<1>4. UNCHANGED <<request, execution>> => ExecutionOfRequest'
  <2>1. UNCHANGED <<fork, request, execution>> => ExecutionOfRequest'
    BY DEF IInv, ExecutionOfRequest, evm_env_for_payload, context_for_payload, BlockEnv, Active,
           max_blobs_per_tx, blob_params, tx_gas_limit_cap, BlobExcessGasAndPrice,
           saturated_base_fee_per_gas
  <2> QED
    BY <1>1, <2>1
<1>5. UNCHANGED <<request, block>> => BlockOfRequest'
  <2>1. UNCHANGED <<fork, request, block>> => BlockOfRequest'
    BY DEF IInv, BlockOfRequest, convert_payload_to_block, Active
  <2> QED
    BY <1>1, <2>1
<1>6. UNCHANGED <<own, request>> => OwnRequest'
  BY <1>1 DEF IInv, OwnRequest, block_to_payload
<1>7. UNCHANGED <<request, execution, block>> => Idle'
  BY DEF IInv, Idle
<1>8. CASE \E v \in 1 .. 4 : \E a \in Attributes : \E b \in {"none", "blobs"} : Build(v, a, b)
  <2>1. PICK v \in 1 .. 4, a \in Attributes, b \in {"none", "blobs"} : Build(v, a, b)
    BY <1>8
  <2>2. UNCHANGED <<fork, request, execution, block>> /\ request = None
    BY <2>1 DEF Build
  <2>3. BuiltFor(v, a, b)'
    BY <2>1 DEF Build, BuiltFor, ensure_well_formed_attributes, version_specific_fields_ok,
                Active, Assembled, NextExcess, next_evm_env, context_for_next_block, BlockEnv,
                max_blobs_per_tx, blob_params, tx_gas_limit_cap, BlobExcessGasAndPrice
  <2>4. OwnBlock'
    BY <2>3 DEF OwnBlock
  <2>5. OwnRequest'
    BY <2>2 DEF OwnRequest
  <2> QED
    BY <1>2, <1>4, <1>5, <1>7, <2>2, <2>4, <2>5 DEF IInv
<1>9. CASE \E v \in 1 .. 5 : \E shape \in ShapesOf(v) : \E p \in PayloadFields(shape) :
             \E s, o \in ExecutionSidecars : NewPayload(v, p, s, o)
  <2>1. /\ UNCHANGED <<own, execution, block>> /\ request = None
        /\ request'.own = FALSE
    BY <1>9 DEF NewPayload
  <2>2. execution' = None /\ block' = None
    BY <2>1 DEF IInv, Idle
  <2> QED
    BY <1>2, <1>3, <2>1, <2>2
       DEF IInv, Idle, ExecutionOfRequest, BlockOfRequest, OwnRequest
<1>10. CASE \E v \in 1 .. 5 : OwnPayload(v)
  <2>1. PICK v \in 1 .. 5 : OwnPayload(v)
    BY <1>10
  <2>2. /\ UNCHANGED <<fork, own, execution, block>> /\ request = None /\ own # None
        /\ ForkIndex(fork) \in ForksOf("payload", v)
        /\ request' = [version |-> v, own |-> TRUE, data |-> block_to_payload(own.block)]
    BY <2>1 DEF OwnPayload
  <2>3. execution' = None /\ block' = None
    BY <2>2 DEF IInv, Idle
  <2>4. OwnRequest'
    BY <2>2 DEF OwnRequest, block_to_payload
  <2> QED
    BY <1>2, <1>3, <2>2, <2>3, <2>4 DEF IInv, Idle, ExecutionOfRequest, BlockOfRequest
<1>11. CASE Execute
  <2>1. /\ UNCHANGED <<fork, own, request, block>> /\ request # None
        /\ execution' = [env |-> evm_env_for_payload(request.data),
                         ctx |-> context_for_payload(request.data)]
    BY <1>11 DEF Execute
  <2>2. ExecutionOfRequest'
    BY <2>1 DEF ExecutionOfRequest, evm_env_for_payload, context_for_payload, BlockEnv, Active,
                max_blobs_per_tx, blob_params, tx_gas_limit_cap, BlobExcessGasAndPrice,
                saturated_base_fee_per_gas
  <2> QED
    BY <1>2, <1>3, <1>5, <1>6, <2>1, <2>2 DEF IInv, Idle
<1>12. CASE Convert
  <2>1. /\ UNCHANGED <<fork, own, request, execution>> /\ request # None
        /\ convert_payload_to_block(request.data).ok
        /\ block' = convert_payload_to_block(request.data).val
    BY <1>12 DEF Convert
  <2>2. convert_payload_to_block(request.data) = Ok(block')
    BY <2>1 DEF convert_payload_to_block, Ok, Err
  <2>3. BlockOfRequest'
    BY <2>1, <2>2 DEF BlockOfRequest, convert_payload_to_block, Active
  <2> QED
    BY <1>2, <1>3, <1>4, <1>6, <2>1, <2>3 DEF IInv, Idle
<1>13. CASE ConvertFails
  <2>1. UNCHANGED <<own, block>> /\ block = None /\ request' = None /\ execution' = None
    BY <1>13 DEF ConvertFails
  <2> QED
    BY <1>2, <1>3, <2>1 DEF IInv, Idle, ExecutionOfRequest, BlockOfRequest, OwnRequest
<1>14. CASE UNCHANGED vars
  BY <1>2, <1>3, <1>4, <1>5, <1>6, <1>7, <1>14 DEF IInv, vars
<1> QED
  BY <1>8, <1>9, <1>10, <1>11, <1>12, <1>13, <1>14 DEF Next

----------------------------------------------------------------------------
\* The inductive invariant holds of every behaviour.
LEMMA Inductive == Spec => []IInv
BY InitInv, StepInv, PTL DEF Spec

\* SameExecution: the environment and context evm_env_for_payload and context_for_payload
\* derive are those of the block the payload turns out to be, and those of the builder.
THEOREM OneEnvironment == Spec => []SameExecution
BY Inductive, Same, PTL

\* OwnPayloadAccepted: what block_to_payload makes of a block built for attributes that
\* ensure_well_formed_attributes took passes the version checks and converts back.
THEOREM OwnPayloadsAccepted == Spec => []OwnPayloadAccepted
BY Inductive, OwnAccepted, PTL
============================================================================
