----------------------------- MODULE CosmosAuth -----------------------------
(***************************************************************************)
(* crates/cosmos-auth: the authorised operation, its two encodings and the *)
(* ADR-036 verification.                                                   *)
(*                                                                         *)
(* Byte strings are records of what the code tells apart in them.  Hashes  *)
(* are injective (a hash is its pre-image, tagged) and signatures are      *)
(* symbolic: a signature names the key that made it and the document it    *)
(* was made over.  A Rust Result is Ok(v) or Err(e), with the AuthError    *)
(* the code returns.                                                       *)
(***************************************************************************)
EXTENDS WireSize

CONSTANTS
    GENESIS_HASH,   \* hash of the experiment's genesis block
    CurveX,         \* x coordinates of secp256k1 points (others are off the curve)
    Hash160,        \* RIPEMD160(SHA256(key)), a function of <<prefix, x>>
    U64_MAX         \* u64::MAX, scaled down: nonces run over 0 .. U64_MAX

ASSUME U64Assumption == U64_MAX \in Nat \ {0}

\* Addresses are the range of Hash160 on the keys of the model: no two keys collide.
ASSUME Hash160Assumption ==
    /\ DOMAIN Hash160 = {2, 3} \X CurveX
    /\ \A k, l \in DOMAIN Hash160 : Hash160[k] = Hash160[l] => k = l

CHAIN_ID == 366036
TX_TYPE == 126
MIN_GAS == 21000
MAX_GAS == 30000000
PROTOCOL == "reth-cosmos-adr036"

Ok(v) == [ok |-> TRUE, val |-> v]
Err(e) == [ok |-> FALSE, err |-> e]

----------------------------------------------------------------------------
(* Operation: [chain_id, genesis_hash, sender, nonce, to, value, input,      *)
(* gas_limit, max_fee_per_gas, max_priority_fee_per_gas]; input is the       *)
(* length of the calldata.                                                   *)

validate_limits(op) ==
    /\ op.input <= MAX_CALLDATA
    /\ op.gas_limit <= MAX_GAS
    /\ op.gas_limit >= MIN_GAS
    /\ op.nonce # U64_MAX
    /\ op.max_priority_fee_per_gas <= op.max_fee_per_gas

\* Bytes of the minimal big-endian form of an integer, and its RLP item.
ByteLen[n \in Nat] == IF n = 0 THEN 0 ELSE 1 + ByteLen[n \div 256]
ItemLen(n) == IF n < 128 THEN 1 ELSE 1 + ByteLen[n]

\* Lengths of the fields of an operation.  The two largest nonces of the scaled
\* range stand for the eight-byte ones.
LensOf(op) ==
    [chain_id |-> ItemLen(op.chain_id),
     nonce |-> IF op.nonce >= U64_MAX - 1 THEN 9 ELSE ItemLen(op.nonce),
     value |-> ItemLen(op.value), input |-> op.input,
     gas_limit |-> ItemLen(op.gas_limit),
     max_fee_per_gas |-> ItemLen(op.max_fee_per_gas),
     max_priority_fee_per_gas |-> ItemLen(op.max_priority_fee_per_gas)]

(* Payload bytes: the list they hold, whether every integer and header is    *)
(* minimal, and how many bytes follow the last field inside the list.        *)
payload(op) == [list |-> TRUE, protocol |-> PROTOCOL, version |-> 1, op |-> op,
                minimal |-> TRUE, trailing |-> 0]

\* A form that is not minimal is one byte longer.
PayloadSize(p) ==
    PayloadLen(LensOf(p.op)) + p.trailing + (IF p.minimal THEN 0 ELSE 1)

\* Mutant: the payload is held to the limit of the calldata it contains.
decode_payload_Tight(p) ==
    IF PayloadSize(p) > MAX_CALLDATA THEN Err("Limit")
    ELSE IF payload(p.op) # p THEN Err("Encoding")
    ELSE IF ~validate_limits(p.op) THEN Err("Limit")
    ELSE Ok(p.op)

decode_payload(p) ==
    IF PayloadSize(p) > MAX_RAW_TX THEN Err("Limit")
    ELSE IF ~p.list THEN Err("Encoding")
    ELSE IF p.protocol # PROTOCOL \/ p.version # 1 THEN Err("Encoding")
    ELSE IF p.trailing > 0 \/ payload(p.op) # p THEN Err("Encoding")
    ELSE IF ~validate_limits(p.op) THEN Err("Limit")
    ELSE Ok(p.op)

----------------------------------------------------------------------------
(* Keys are [len, prefix, x]; signatures [len, in_range, low_s, signer, doc], *)
(* where in_range says that r and s are scalars in 1 .. n - 1.                *)

\* The bech32 form of an address, distinct for distinct addresses.
cosmos_address(sender) == <<"cosmos", sender>>

sign_bytes(op) == [data |-> payload(op), signer |-> cosmos_address(op.sender)]

derive_sender(key) ==
    IF key.len # KEY_LEN \/ key.prefix \notin {2, 3} THEN Err("PublicKey")
    ELSE IF key.x \notin CurveX THEN Err("PublicKey")
    ELSE Ok(Hash160[<<key.prefix, key.x>>])

\* Mutants: verify without the domain, the sender or the low-S check.
verify_AnyDomain(op, key, sig, genesis) ==
    IF \/ ~validate_limits(op) \/ ~derive_sender(key).ok \/ op.sender # derive_sender(key).val
       \/ ~sig.low_s \/ sig.signer # <<key.prefix, key.x>> \/ sig.doc # sign_bytes(op)
    THEN Err("Signature") ELSE derive_sender(key)
verify_AnySender(op, key, sig, genesis) ==
    IF \/ ~validate_limits(op) \/ op.genesis_hash # genesis \/ ~derive_sender(key).ok
       \/ ~sig.low_s \/ sig.signer # <<key.prefix, key.x>> \/ sig.doc # sign_bytes(op)
    THEN Err("Signature") ELSE derive_sender(key)
verify_AnyS(op, key, sig, genesis) ==
    IF \/ ~validate_limits(op) \/ op.genesis_hash # genesis \/ ~derive_sender(key).ok
       \/ op.sender # derive_sender(key).val
       \/ sig.signer # <<key.prefix, key.x>> \/ sig.doc # sign_bytes(op)
    THEN Err("Signature") ELSE derive_sender(key)

verify(op, key, sig, genesis) ==
    IF ~validate_limits(op) THEN Err("Limit")
    ELSE IF op.chain_id # CHAIN_ID \/ op.genesis_hash # genesis THEN Err("Domain")
    ELSE IF ~derive_sender(key).ok THEN derive_sender(key)
    ELSE IF op.sender # derive_sender(key).val THEN Err("Sender")
    ELSE IF sig.len # SIGNATURE_LEN \/ ~sig.in_range THEN Err("Signature")
    ELSE IF ~sig.low_s THEN Err("Signature")
    ELSE IF sig.signer # <<key.prefix, key.x>> \/ sig.doc # sign_bytes(op)
         THEN Err("Signature")
    ELSE derive_sender(key)

----------------------------------------------------------------------------
(* Raw transactions: the first byte, whether a list follows, its three       *)
(* strings, whether the headers are minimal, and how many bytes follow       *)
(* the signature inside the list (trailing) and after the list (rest, which  *)
(* is negative when the string ends before the list does).                   *)

encode_wire(op, key, sig) ==
    [ty |-> TX_TYPE, list |-> TRUE, payload |-> payload(op), key |-> key, sig |-> sig,
     minimal |-> TRUE, trailing |-> 0, rest |-> 0]

\* Length of the outer list with its header, and of the whole string.
ListLen(raw) ==
    list(WireFields(PayloadSize(raw.payload), raw.key.len, raw.sig.len) + raw.trailing)
      + (IF raw.minimal THEN 0 ELSE 1)
RawSize(raw) == 1 + ListLen(raw) + raw.rest

\* Mutant: the bytes are not compared with the canonical encoding.
decode_wire_Lenient(raw) ==
    LET op == decode_payload(raw.payload) IN
    IF RawSize(raw) > MAX_RAW_TX THEN Err("Limit")
    ELSE IF raw.ty # TX_TYPE \/ ~raw.list \/ raw.rest # 0 THEN Err("Encoding")
    ELSE IF ~op.ok THEN op
    ELSE IF raw.key.len # KEY_LEN THEN Err("PublicKey")
    ELSE IF raw.sig.len # SIGNATURE_LEN THEN Err("Signature")
    ELSE Ok([op |-> op.val, key |-> raw.key, sig |-> raw.sig])

decode_wire(raw) ==
    LET op == decode_payload(raw.payload) IN
    IF RawSize(raw) > MAX_RAW_TX THEN Err("Limit")
    ELSE IF raw.ty # TX_TYPE THEN Err("Encoding")
    ELSE IF ~raw.list \/ raw.rest # 0 THEN Err("Encoding")
    ELSE IF ~op.ok THEN op
    ELSE IF raw.key.len # KEY_LEN THEN Err("PublicKey")
    ELSE IF raw.sig.len # SIGNATURE_LEN THEN Err("Signature")
    ELSE IF raw.trailing > 0 \/ encode_wire(op.val, raw.key, raw.sig) # raw
         THEN Err("Encoding")
    ELSE Ok([op |-> op.val, key |-> raw.key, sig |-> raw.sig])

transaction_hash(raw) == <<"keccak", raw>>

----------------------------------------------------------------------------
\* Reference definition, independent of verify: the account's own key signed
\* exactly this operation, for this chain, and the signature is the low-S one.
Authorized(op, key, sig) ==
    /\ <<key.prefix, key.x>> \in DOMAIN Hash160
    /\ Hash160[<<key.prefix, key.x>>] = op.sender
    /\ sig.signer = <<key.prefix, key.x>>
    /\ sig.doc.data.op = op
    /\ op.chain_id = CHAIN_ID /\ op.genesis_hash = GENESIS_HASH
    /\ sig.low_s
    /\ op.nonce # U64_MAX
============================================================================
