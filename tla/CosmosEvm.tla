------------------------------ MODULE CosmosEvm ------------------------------
(***************************************************************************)
(* src/evm.rs: how a recovered transaction becomes the environment the EVM *)
(* executes, and what executing it does to the accounts.  The execution    *)
(* itself is revm, modelled from what genesis.json, the tests and          *)
(* PROTOCOL.md observe of it: EIP-1559 fees, nonces, value transfers, the  *)
(* recorder contract (stores its caller), the reverter contract, and a     *)
(* call that runs out of gas.                                              *)
(***************************************************************************)
EXTENDS CosmosTx

CONSTANTS
    Accounts,       \* addresses of the model, contracts and beneficiary included
    Recorder, Reverter, Beneficiary,
    CALL_GAS,       \* gas of running either contract, beyond the intrinsic gas
    GenesisBalance  \* [Accounts -> Nat]

ASSUME EvmAssumption ==
    /\ {Recorder, Reverter, Beneficiary} \subseteq Accounts
    /\ Recorder # Reverter
    /\ CALL_GAS \in Nat
    /\ GenesisBalance \in [Accounts -> Nat]
    /\ \A k \in DOMAIN Hash160 : Hash160[k] \in Accounts

Contracts == {Recorder, Reverter}

\* World state: nonces, balances, slot zero of the recorder.
GenesisWorld == [nonce |-> [a \in Accounts |-> 0], balance |-> GenesisBalance,
                 slot |-> NoSigner]

\* Mutant: the nonce of the environment is left at its default.
from_recovered_tx_NoNonce(tx, caller) ==
    LET f == Fields(tx) IN
    Ok([tx_type |-> IF IsCosmos(tx) THEN 2 ELSE ty(tx), caller |-> caller,
        gas_limit |-> f.gas_limit, gas_price |-> f.max_fee_per_gas, to |-> f.to,
        value |-> f.value, data |-> f.input, nonce |-> 0,
        gas_priority_fee |-> f.max_priority_fee_per_gas])

\* FromRecoveredTx and FromTxWithEncoded: a Cosmos operation executes as an EIP-1559
\* call from its recovered sender; a caller other than the authorised one is a panic.
from_recovered_tx(tx, caller) ==
    LET f == Fields(tx) IN
    IF IsCosmos(tx) /\ caller # tx.operation.sender THEN Err("panic")
    ELSE Ok([tx_type |-> IF IsCosmos(tx) THEN 2 ELSE ty(tx), caller |-> caller,
             gas_limit |-> f.gas_limit, gas_price |-> f.max_fee_per_gas, to |-> f.to,
             value |-> f.value, data |-> f.input, nonce |-> f.nonce,
             gas_priority_fee |-> f.max_priority_fee_per_gas])

IntrinsicGas(env) == MIN_GAS + 16 * env.data

\* External: the checks revm makes before it executes; available is what is left of
\* the block's gas.
ValidationError(env, world, base_fee, available) ==
    IF env.gas_limit > available THEN "gas limit above what the block has left"
    ELSE IF env.gas_price < base_fee THEN "fee cap below base fee"
    ELSE IF env.gas_limit < IntrinsicGas(env) THEN "intrinsic gas"
    ELSE IF env.caller \in Contracts THEN "sender has code"
    ELSE IF env.nonce < world.nonce[env.caller] THEN "nonce too low"
    ELSE IF env.nonce > world.nonce[env.caller] THEN "nonce too high"
    ELSE IF env.nonce >= U64_MAX THEN "nonce overflow"
    ELSE IF world.balance[env.caller] < env.gas_limit * env.gas_price + env.value
         THEN "insufficient funds"
    ELSE "none"

\* External: outcome of the call and the gas it takes.
CallGas(env) == IntrinsicGas(env) + (IF env.to \in Contracts THEN CALL_GAS ELSE 0)
Succeeds(env) == env.to # Reverter /\ CallGas(env) <= env.gas_limit
GasUsed(env) == IF CallGas(env) <= env.gas_limit THEN CallGas(env) ELSE env.gas_limit

\* effective_gas_price of src/primitives/cosmos.rs; the part above the base fee goes
\* to the beneficiary, the base fee is burnt.
EffectiveTip(env, base_fee) ==
    IF env.gas_priority_fee <= env.gas_price - base_fee
    THEN env.gas_priority_fee ELSE env.gas_price - base_fee

\* External: the state after the transaction.
Applied(env, world, base_fee) ==
    LET tip == EffectiveTip(env, base_fee)
        value == IF Succeeds(env) THEN env.value ELSE 0
        change == [a \in Accounts |->
                      (IF a = env.caller THEN 0 - value - GasUsed(env) * (base_fee + tip) ELSE 0)
                    + (IF a = env.to THEN value ELSE 0)
                    + (IF a = Beneficiary THEN GasUsed(env) * tip ELSE 0)]
    IN  [nonce |-> [world.nonce EXCEPT ![env.caller] = @ + 1],
         balance |-> [a \in Accounts |-> world.balance[a] + change[a]],
         slot |-> IF env.to = Recorder /\ Succeeds(env) THEN env.caller ELSE world.slot]

\* CosmosReceiptBuilder: the outer type is kept in the receipt.
build_receipt(tx, env, cumulative) ==
    [tx_type |-> ty(tx), success |-> Succeeds(env), cumulative_gas_used |-> cumulative]
============================================================================
