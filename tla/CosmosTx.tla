------------------------------ MODULE CosmosTx ------------------------------
(***************************************************************************)
(* src/primitives: the signed Cosmos transaction, the envelope that adds   *)
(* it to the upstream Ethereum transactions, and the forms a transaction   *)
(* takes on the wire, in the database and in JSON.                         *)
(*                                                                         *)
(* An Ethereum transaction is upstream code: a record                      *)
(* [ty, signer, low_s, nonce, to, value, input, gas_limit,                 *)
(*  max_fee_per_gas, max_priority_fee_per_gas] whose signer is the address *)
(* its signature recovers to, or NoSigner.                                 *)
(***************************************************************************)
EXTENDS CosmosAuth

CONSTANT NoSigner

EthereumTypes == 0 .. 4      \* legacy, 2930, 1559, 4844, 7702

----------------------------------------------------------------------------
(* CosmosSigned                                                              *)

\* Mutant: the hash is taken of the payload, which the signature does not enter.
CosmosSignedNew_PayloadHash(op, key, sig) ==
    LET raw == encode_wire(op, key, sig)
        decoded == decode_wire(raw)
    IN  IF ~validate_limits(op) THEN Err("Limit")
        ELSE IF ~decoded.ok THEN decoded
        ELSE Ok([kind |-> "Cosmos", operation |-> op, public_key |-> key,
                 signature |-> [rs |-> sig, parity |-> FALSE],
                 hash |-> transaction_hash(raw.payload), raw |-> raw])

\* CosmosSigned::new.  The r || s scalars are kept with a parity that is always false.
CosmosSignedNew(op, key, sig) ==
    LET raw == encode_wire(op, key, sig)
        decoded == decode_wire(raw)
    IN  IF ~validate_limits(op) THEN Err("Limit")
        ELSE IF key.len # KEY_LEN THEN Err("PublicKey")
        ELSE IF sig.len # SIGNATURE_LEN THEN Err("Signature")
        ELSE IF ~decoded.ok THEN decoded
        ELSE Ok([kind |-> "Cosmos", operation |-> decoded.val.op, public_key |-> key,
                 signature |-> [rs |-> decoded.val.sig, parity |-> FALSE],
                 hash |-> transaction_hash(raw), raw |-> raw])

\* CosmosSigned::verify: always against the compiled-in genesis hash.
CosmosVerify(tx) == verify(tx.operation, tx.public_key, tx.signature.rs, GENESIS_HASH)

----------------------------------------------------------------------------
(* CosmosEnvelope                                                            *)

Ethereum(e) == [kind |-> "Ethereum", tx |-> e]
IsCosmos(tx) == tx.kind = "Cosmos"

ty(tx) == IF IsCosmos(tx) THEN TX_TYPE ELSE tx.tx.ty

\* The Transaction accessors the EVM and the pool read; those of CosmosSigned are the
\* fields of its operation.
Accessors(t) ==
    [nonce |-> t.nonce, to |-> t.to, value |-> t.value, input |-> t.input,
     gas_limit |-> t.gas_limit, max_fee_per_gas |-> t.max_fee_per_gas,
     max_priority_fee_per_gas |-> t.max_priority_fee_per_gas]
Fields(tx) == Accessors(IF IsCosmos(tx) THEN tx.operation ELSE tx.tx)

tx_hash(tx) == IF IsCosmos(tx) THEN tx.hash ELSE <<"keccak", tx.tx>>

\* External: the upstream secp256k1 recovery.  The checked form refuses a high S.
EthereumRecover(e, checked) ==
    IF e.signer = NoSigner \/ (checked /\ ~e.low_s) THEN Err("Recovery") ELSE Ok(e.signer)

\* Mutant: the sender a Cosmos operation names is believed.
recover_signer_Trusting(tx) ==
    IF IsCosmos(tx) THEN Ok(tx.operation.sender) ELSE EthereumRecover(tx.tx, TRUE)

\* recover_signer and recover_with_buf
recover_signer(tx) ==
    IF IsCosmos(tx) THEN CosmosVerify(tx) ELSE EthereumRecover(tx.tx, TRUE)

\* recover_signer_unchecked and recover_unchecked_with_buf: a Cosmos signature is
\* checked all the same.
recover_signer_unchecked(tx) ==
    IF IsCosmos(tx) THEN CosmosVerify(tx) ELSE EthereumRecover(tx.tx, FALSE)

encode_2718(tx) == IF IsCosmos(tx) THEN tx.raw ELSE [ty |-> tx.tx.ty, eth |-> tx.tx, rest |-> 0]

\* What decode_wire accepted is made a CosmosSigned; rest bytes follow it.
SignedOf(decoded, rest) ==
    LET signed == CosmosSignedNew(decoded.val.op, decoded.val.key, decoded.val.sig)
    IN  IF ~decoded.ok THEN Err("invalid Cosmos encoding")
        ELSE IF ~signed.ok THEN Err("invalid Cosmos encoding")
        ELSE Ok([tx |-> signed.val, rest |-> rest])

\* decode_2718 on a buffer that starts with the transaction; rest bytes are left.
typed_decode(raw) ==
    IF raw.ty \in EthereumTypes THEN Ok([tx |-> Ethereum(raw.eth), rest |-> raw.rest])
    ELSE IF raw.ty # TX_TYPE THEN Err("UnexpectedType")
    ELSE IF ~raw.list \/ ListLen(raw) > MAX_RAW_TX - 1 \/ raw.rest < 0
         THEN Err("invalid Cosmos transaction size")
    ELSE SignedOf(decode_wire([raw EXCEPT !.rest = 0]), raw.rest)

\* External: the upstream wrapper, used where one transaction is the whole input.
WholeInput(decoded) ==
    IF ~decoded.ok THEN decoded
    ELSE IF decoded.val.rest # 0 THEN Err("trailing bytes")
    ELSE Ok(decoded.val.tx)
decode_2718_exact(raw) == WholeInput(typed_decode(raw))

\* Transaction -> PooledTransaction: a blob transaction without its sidecar has none.
try_into_pooled(tx) ==
    IF IsCosmos(tx) THEN Ok(tx)
    ELSE IF tx.tx.ty = 3 THEN Err("missing sidecar") ELSE Ok(tx)

----------------------------------------------------------------------------
(* Compact database form.  "panic" is an assertion or an expect that fails.  *)

TxTypeTryFrom(t) ==
    IF t = TX_TYPE \/ t \in EthereumTypes THEN Ok(t) ELSE Err("UnexpectedType")

\* CosmosTxType::to_compact: two identifier bits, and a byte when they say 3.
TxTypeToCompact(t) ==
    IF t < 3 THEN [identifier |-> t, byte |-> <<>>] ELSE [identifier |-> 3, byte |-> <<t>>]

TxTypeFromCompact(c) ==
    LET t == TxTypeTryFrom(IF c.identifier = 3 THEN c.byte[1] ELSE c.identifier)
    IN  IF t.ok THEN t ELSE Err("panic")

to_tx_compact(tx) ==
    IF IsCosmos(tx)
    THEN [list |-> TRUE, payload_length |-> CompactFields(LensOf(tx.operation)),
          payload |-> payload(tx.operation), key |-> tx.public_key, trailing |-> 0]
    ELSE [eth |-> [tx.tx EXCEPT !.ty = 0]]

\* Mutants: the type is not restored; the body is held to the limit of the calldata.
from_tx_compact_Untyped(body, t, signature) ==
    IF t # TX_TYPE THEN Ok(Ethereum(body.eth))
    ELSE CosmosSignedNew(body.payload.op, body.key, signature.rs)
from_tx_compact_Tight(body, t, signature) ==
    IF t # TX_TYPE THEN Ok(Ethereum([body.eth EXCEPT !.ty = t]))
    ELSE IF body.payload_length > MAX_CALLDATA THEN Err("panic")
    ELSE CosmosSignedNew(body.payload.op, body.key, signature.rs)

from_tx_compact(body, t, signature) ==
    LET op == decode_payload(body.payload)
        tx == CosmosSignedNew(op.val, body.key, signature.rs)
    IN  IF t # TX_TYPE THEN Ok(Ethereum([body.eth EXCEPT !.ty = t]))
        ELSE IF signature.parity THEN Err("panic")
        ELSE IF ~body.list \/ body.payload_length > MAX_RAW_TX \/ body.trailing > 0
             THEN Err("panic")
        ELSE IF ~op.ok THEN Err("panic")
        ELSE IF ~tx.ok THEN Err("panic")
        ELSE tx

\* Mutant: the parity of a Cosmos signature is set.
EnvelopeSignature_Odd(tx) ==
    [rs |-> IF IsCosmos(tx) THEN tx.signature.rs ELSE tx.tx.signer, parity |-> IsCosmos(tx)]

\* Envelope::signature of the two variants (an Ethereum signature is its signer here).
EnvelopeSignature(tx) ==
    IF IsCosmos(tx) THEN tx.signature ELSE [rs |-> tx.tx.signer, parity |-> FALSE]

\* CompactEnvelope: type, signature and body.
to_compact(tx) == [ty |-> TxTypeToCompact(ty(tx)), signature |-> EnvelopeSignature(tx),
                   body |-> to_tx_compact(tx)]

from_compact(c) ==
    LET t == TxTypeFromCompact(c.ty)
    IN  IF ~t.ok THEN t ELSE from_tx_compact(c.body, t.val, c.signature)

----------------------------------------------------------------------------
(* JSON-RPC form                                                             *)

serialize(tx) == [tx_type |-> TX_TYPE, operation |-> tx.operation,
                  public_key |-> tx.public_key, cosmos_signature |-> tx.signature.rs,
                  hash |-> tx.hash]

deserialize(rpc) ==
    LET tx == CosmosSignedNew(rpc.operation, rpc.public_key, rpc.cosmos_signature)
    IN  IF ~tx.ok THEN tx
        ELSE IF rpc.tx_type # TX_TYPE \/ tx.val.hash # rpc.hash
             THEN Err("Cosmos type or hash mismatch")
        ELSE tx
============================================================================
