------------------------------ MODULE WireSize ------------------------------
(***************************************************************************)
(* Lengths, in bytes, of the RLP encodings of crates/cosmos-auth and of    *)
(* the compact database form of src/primitives/storage.rs.  An operation   *)
(* is represented by the lengths of its variable fields: an integer by the *)
(* length of its RLP item (1 below 128, else 1 + its minimal big-endian    *)
(* bytes, at most its Rust width), the calldata by its number of bytes.    *)
(***************************************************************************)
EXTENDS Integers

MAX_CALLDATA == 32 * 1024
MAX_RAW_TX == MAX_CALLDATA + 512

KEY_LEN == 33
SIGNATURE_LEN == 64
PROTOCOL_LEN == 18      \* "reth-cosmos-adr036"

\* u64, u64, U256, Bytes, u64, u128 and u128.
Lens == [chain_id : 1 .. 9, nonce : 1 .. 9, value : 1 .. 33, input : Nat,
         gas_limit : 1 .. 9, max_fee_per_gas : 1 .. 17,
         max_priority_fee_per_gas : 1 .. 17]

\* The header of an RLP string or list of n bytes (n below 2^24).
HeaderLen(n) == IF n <= 55 THEN 1
                ELSE IF n < 256 THEN 2 ELSE IF n < 65536 THEN 3 ELSE 4

\* An RLP string of n bytes.  A single byte below 0x80 needs no header; the
\* calldata of length one is taken to be 0x80 or more, the longer case.
BytesLen(n) == HeaderLen(n) + n

list(n) == HeaderLen(n) + n

PayloadFields(l) ==
    BytesLen(PROTOCOL_LEN) + 1 + l.chain_id + BytesLen(32) + BytesLen(20) + l.nonce
      + BytesLen(20) + l.value + BytesLen(l.input) + l.gas_limit
      + l.max_fee_per_gas + l.max_priority_fee_per_gas

PayloadLen(l) == list(PayloadFields(l))

\* The body of the outer list: payload, public key and signature as strings.
WireFields(payload, key, sig) == BytesLen(payload) + BytesLen(key) + BytesLen(sig)

\* The type byte and the list.
WireLen(l) == 1 + list(WireFields(PayloadLen(l), KEY_LEN, SIGNATURE_LEN))

\* The body of the list to_tx_compact writes: payload and public key.
CompactFields(l) == BytesLen(PayloadLen(l)) + BytesLen(KEY_LEN)
============================================================================
