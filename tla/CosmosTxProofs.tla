--------------------------- MODULE CosmosTxProofs ---------------------------
(***************************************************************************)
(* What verification, decoding and storage guarantee for every input.      *)
(* First the sizes: every operation within the protocol limits fits the    *)
(* size limits that the decoders impose, whatever its field widths, so an  *)
(* honest transaction is never refused for its size, on the wire or on the *)
(* way back from disk.                                                     *)
(***************************************************************************)
EXTENDS CosmosTx, TLAPS

LEMMA HeaderLenBounds ==
    ASSUME NEW n \in Nat
    PROVE  HeaderLen(n) \in 1 .. 4 /\ (n < 65536 => HeaderLen(n) <= 3)
  BY DEF HeaderLen

\* The fields other than the calldata take at most 200 bytes, headers included.
LEMMA PayloadBounds ==
    ASSUME NEW l \in Lens, l.input <= MAX_CALLDATA
    PROVE  PayloadLen(l) \in Nat /\ PayloadLen(l) <= l.input + 200
<1>0. /\ l.chain_id \in 1 .. 9 /\ l.nonce \in 1 .. 9 /\ l.value \in 1 .. 33
      /\ l.input \in Nat /\ l.gas_limit \in 1 .. 9
      /\ l.max_fee_per_gas \in 1 .. 17 /\ l.max_priority_fee_per_gas \in 1 .. 17
  BY DEF Lens
<1>1. BytesLen(PROTOCOL_LEN) = 19 /\ BytesLen(32) = 33 /\ BytesLen(20) = 21
  BY DEF BytesLen, HeaderLen, PROTOCOL_LEN
<1>2. BytesLen(l.input) \in Nat /\ BytesLen(l.input) <= l.input + 3
  BY <1>0, HeaderLenBounds DEF BytesLen, MAX_CALLDATA
<1>3. PayloadFields(l) \in Nat /\ PayloadFields(l) <= l.input + 192
  <2> DEFINE c == l.chain_id     n == l.nonce               v == l.value
             g == l.gas_limit    f == l.max_fee_per_gas     t == l.max_priority_fee_per_gas
             i == l.input        b == BytesLen(l.input)     s == PayloadFields(l)
  <2>1. s = 19 + 1 + c + 33 + 21 + n + 21 + v + b + g + f + t
    BY <1>1 DEF PayloadFields
  <2>2. /\ c \in 1 .. 9 /\ n \in 1 .. 9 /\ v \in 1 .. 33 /\ i \in Nat
        /\ g \in 1 .. 9 /\ f \in 1 .. 17 /\ t \in 1 .. 17
        /\ b \in Nat /\ b <= i + 3
    BY <1>0, <1>2
  <2> HIDE DEF c, n, v, g, f, t, i, b, s
  <2>3. s \in Nat /\ s <= i + 192
    BY <2>1, <2>2
  <2> QED
    BY <2>3 DEF s, i
<1> QED
  BY <1>0, <1>3, HeaderLenBounds DEF PayloadLen, list, MAX_CALLDATA

\* encode_wire of an operation that passes validate_limits is never longer than
\* MAX_RAW_TX, the limit at which decode_wire, typed_decode and the RPC reject.
THEOREM InLimitsFitsWire ==
    ASSUME NEW l \in Lens, l.input <= MAX_CALLDATA
    PROVE  WireLen(l) <= MAX_RAW_TX
<1> DEFINE p == PayloadLen(l)
<1>1. p \in Nat /\ p <= 32968
  BY PayloadBounds DEF MAX_CALLDATA, Lens
<1> HIDE DEF p
<1>2. BytesLen(p) \in Nat /\ BytesLen(p) <= 32971
  BY <1>1, HeaderLenBounds DEF BytesLen
<1>3. BytesLen(KEY_LEN) = 34 /\ BytesLen(SIGNATURE_LEN) = 66
  BY DEF BytesLen, HeaderLen, KEY_LEN, SIGNATURE_LEN
<1> DEFINE w == WireFields(p, KEY_LEN, SIGNATURE_LEN)
<1>4. w \in Nat /\ w <= 33071
  BY <1>2, <1>3 DEF WireFields
<1> HIDE DEF w
<1>5. list(w) <= 33074 /\ list(w) \in Nat
  BY <1>4, HeaderLenBounds DEF list
<1> QED
  BY <1>5 DEF WireLen, w, p, MAX_RAW_TX, MAX_CALLDATA

\* What to_tx_compact writes for such an operation passes the size assertion of
\* from_tx_compact (a failed assertion aborts the node while it reads its own database).
THEOREM InLimitsFitsStorage ==
    ASSUME NEW l \in Lens, l.input <= MAX_CALLDATA
    PROVE  CompactFields(l) <= MAX_RAW_TX
<1> DEFINE p == PayloadLen(l)
<1>1. p \in Nat /\ p <= 32968
  BY PayloadBounds DEF MAX_CALLDATA, Lens
<1> HIDE DEF p
<1>2. BytesLen(p) \in Nat /\ BytesLen(p) <= 32971
  BY <1>1, HeaderLenBounds DEF BytesLen
<1>3. BytesLen(KEY_LEN) = 34
  BY DEF BytesLen, HeaderLen, KEY_LEN
<1> QED
  BY <1>2, <1>3 DEF CompactFields, p, MAX_RAW_TX, MAX_CALLDATA

----------------------------------------------------------------------------
(* Verification, decoding and storage                                        *)

\* Operation::verify accepts nothing but an operation that the key of its own sender
\* signed, for this chain and genesis, and returns that sender.
THEOREM VerifyAuthorizes ==
    ASSUME NEW op, NEW key, NEW sig, verify(op, key, sig, GENESIS_HASH).ok
    PROVE  Authorized(op, key, sig) /\ verify(op, key, sig, GENESIS_HASH) = Ok(op.sender)
<1>1. derive_sender(key).ok
  BY DEF verify, Err
<1>2. /\ key.prefix \in {2, 3} /\ key.x \in CurveX
      /\ derive_sender(key) = Ok(Hash160[<<key.prefix, key.x>>])
  BY <1>1 DEF derive_sender, Err
<1>3. verify(op, key, sig, GENESIS_HASH) = derive_sender(key)
  BY DEF verify, Err
<1>4. /\ validate_limits(op) /\ op.chain_id = CHAIN_ID /\ op.genesis_hash = GENESIS_HASH
      /\ op.sender = derive_sender(key).val /\ sig.low_s
      /\ sig.signer = <<key.prefix, key.x>> /\ sig.doc = sign_bytes(op)
  BY <1>1 DEF verify, Err
<1>5. op.sender = Hash160[<<key.prefix, key.x>>]
  BY <1>2, <1>4 DEF Ok
<1>6. sig.doc.data.op = op
  BY <1>4 DEF sign_bytes, payload
<1>7. <<key.prefix, key.x>> \in DOMAIN Hash160
  BY <1>2, Hash160Assumption
<1> QED
  BY <1>2, <1>3, <1>4, <1>5, <1>6, <1>7 DEF Authorized, validate_limits

----------------------------------------------------------------------------
(* Decoding                                                                  *)

LEMMA DecodePayloadFacts ==
    ASSUME NEW p, decode_payload(p).ok
    PROVE  decode_payload(p) = Ok(p.op) /\ p = payload(p.op) /\ validate_limits(p.op)
  BY DEF decode_payload, Err

LEMMA DecodeWireFacts ==
    ASSUME NEW raw, decode_wire(raw).ok
    PROVE  /\ decode_wire(raw) = Ok([op |-> raw.payload.op, key |-> raw.key, sig |-> raw.sig])
           /\ raw = encode_wire(raw.payload.op, raw.key, raw.sig)
           /\ validate_limits(raw.payload.op)
           /\ raw.key.len = KEY_LEN /\ raw.sig.len = SIGNATURE_LEN
<1> DEFINE d == decode_payload(raw.payload)
<1>1. d.ok
  BY DEF decode_wire, Err
<1>2. d = Ok(raw.payload.op) /\ validate_limits(raw.payload.op)
  BY <1>1, DecodePayloadFacts
<1>3. d.val = raw.payload.op
  BY <1>2 DEF Ok
<1> QED
  BY <1>1, <1>2, <1>3 DEF decode_wire, Err

\* The value CosmosSigned::new builds.
SignedTx(op, key, sig) ==
    [kind |-> "Cosmos", operation |-> op, public_key |-> key,
     signature |-> [rs |-> sig, parity |-> FALSE],
     hash |-> transaction_hash(encode_wire(op, key, sig)), raw |-> encode_wire(op, key, sig)]

LEMMA NewFacts ==
    ASSUME NEW op, NEW key, NEW sig, CosmosSignedNew(op, key, sig).ok
    PROVE  /\ CosmosSignedNew(op, key, sig) = Ok(SignedTx(op, key, sig))
           /\ validate_limits(op) /\ key.len = KEY_LEN /\ sig.len = SIGNATURE_LEN
<1> DEFINE raw == encode_wire(op, key, sig)
<1>1. decode_wire(raw).ok
  BY DEF CosmosSignedNew, Err
<1>2. raw.payload.op = op /\ raw.key = key /\ raw.sig = sig
  BY DEF encode_wire, payload
<1>3. decode_wire(raw) = Ok([op |-> op, key |-> key, sig |-> sig])
  BY <1>1, <1>2, DecodeWireFacts
<1>4. decode_wire(raw).val.op = op /\ decode_wire(raw).val.sig = sig
  BY <1>3 DEF Ok
<1> QED
  BY <1>1, <1>4 DEF CosmosSignedNew, SignedTx, Err

\* The canonical encoding of an operation within the limits is within the size limits.
LEMMA HonestSize ==
    ASSUME NEW op, NEW key, NEW sig, LensOf(op) \in Lens, validate_limits(op),
           key.len = KEY_LEN, sig.len = SIGNATURE_LEN
    PROVE  LET raw == encode_wire(op, key, sig) IN
           /\ PayloadSize(payload(op)) \in Nat /\ PayloadSize(payload(op)) <= MAX_RAW_TX
           /\ ListLen(raw) \in Nat /\ RawSize(raw) = 1 + ListLen(raw)
           /\ RawSize(raw) <= MAX_RAW_TX
<1> DEFINE raw == encode_wire(op, key, sig)
           l == LensOf(op)
<1>1. /\ raw.payload = payload(op) /\ raw.key = key /\ raw.sig = sig
      /\ raw.minimal = TRUE /\ raw.trailing = 0 /\ raw.rest = 0
  BY DEF encode_wire
<1>2. payload(op).op = op /\ payload(op).trailing = 0 /\ payload(op).minimal = TRUE
  BY DEF payload
<1>3. l \in Lens /\ l.input <= MAX_CALLDATA
  BY DEF LensOf, validate_limits
<1> HIDE DEF l
<1>4. PayloadLen(l) \in Nat /\ PayloadLen(l) <= MAX_RAW_TX
  BY <1>3, PayloadBounds DEF MAX_RAW_TX, MAX_CALLDATA, Lens
<1>5. PayloadSize(payload(op)) = PayloadLen(l)
  BY <1>2, <1>4 DEF PayloadSize, l
<1> DEFINE w == WireFields(PayloadLen(l), KEY_LEN, SIGNATURE_LEN)
<1>6. w \in Nat
  BY <1>4, HeaderLenBounds DEF WireFields, BytesLen, KEY_LEN, SIGNATURE_LEN
<1>7. ListLen(raw) = list(w + 0) + 0
  BY <1>1, <1>5 DEF ListLen
<1> HIDE DEF w
<1>8. list(w) \in Nat /\ w + 0 = w
  BY <1>6, HeaderLenBounds DEF list
<1>9. ListLen(raw) = list(w) /\ RawSize(raw) = 1 + list(w)
  BY <1>1, <1>7, <1>8 DEF RawSize
<1>10. RawSize(raw) <= MAX_RAW_TX
  BY <1>3, <1>9, InLimitsFitsWire DEF WireLen, w
<1> HIDE DEF raw
<1>11. /\ ListLen(raw) \in Nat /\ RawSize(raw) = 1 + ListLen(raw)
       /\ RawSize(raw) <= MAX_RAW_TX
  BY <1>8, <1>9, <1>10
<1> QED
  BY <1>4, <1>5, <1>11 DEF raw

\* The canonical encoding of every operation within the limits decodes to what was
\* encoded: none of decode_wire's checks (size, lists, lengths, re-encoding) refuses it.
THEOREM HonestDecodes ==
    ASSUME NEW op, NEW key, NEW sig, LensOf(op) \in Lens, validate_limits(op),
           key.len = KEY_LEN, sig.len = SIGNATURE_LEN
    PROVE  decode_wire(encode_wire(op, key, sig)) = Ok([op |-> op, key |-> key, sig |-> sig])
<1> DEFINE raw == encode_wire(op, key, sig)
<1>1. /\ raw.payload = payload(op) /\ raw.key = key /\ raw.sig = sig /\ raw.ty = TX_TYPE
      /\ raw.list = TRUE /\ raw.minimal = TRUE /\ raw.trailing = 0 /\ raw.rest = 0
  BY DEF encode_wire
<1>2. /\ payload(op).op = op /\ payload(op).trailing = 0 /\ payload(op).minimal = TRUE
      /\ payload(op).list = TRUE /\ payload(op).protocol = PROTOCOL /\ payload(op).version = 1
  BY DEF payload
<1>3. decode_payload(payload(op)) = Ok(op)
  <2>1. ~ (PayloadSize(payload(op)) > MAX_RAW_TX)
    BY HonestSize DEF MAX_RAW_TX, MAX_CALLDATA
  <2>2. ~ (payload(op).trailing > 0)
    BY <1>2
  <2> QED
    BY <1>2, <2>1, <2>2 DEF decode_payload
<1>4. ~ (RawSize(raw) > MAX_RAW_TX)
  BY HonestSize DEF MAX_RAW_TX, MAX_CALLDATA
<1>5. decode_payload(raw.payload).ok /\ decode_payload(raw.payload).val = op
  BY <1>1, <1>3 DEF Ok
<1>6. ~ (raw.trailing > 0)
  BY <1>1
<1> HIDE DEF raw
<1>7. encode_wire(op, raw.key, raw.sig) = raw
  BY <1>1 DEF raw
<1>8. decode_wire(raw) = Ok([op |-> op, key |-> key, sig |-> sig])
  BY <1>1, <1>4, <1>5, <1>6, <1>7 DEF decode_wire
<1> QED
  BY <1>8 DEF raw

LEMMA NewSucceeds ==
    ASSUME NEW op, NEW key, NEW sig, LensOf(op) \in Lens, validate_limits(op),
           key.len = KEY_LEN, sig.len = SIGNATURE_LEN
    PROVE  CosmosSignedNew(op, key, sig) = Ok(SignedTx(op, key, sig))
<1>1. decode_wire(encode_wire(op, key, sig)).ok
  BY HonestDecodes DEF Ok
<1>2. CosmosSignedNew(op, key, sig).ok
  BY <1>1 DEF CosmosSignedNew, Ok
<1> QED
  BY <1>2, NewFacts

\* The canonical encoding, as one whole input, decodes to the transaction.
LEMMA EncodedDecodes ==
    ASSUME NEW op, NEW key, NEW sig, LensOf(op) \in Lens, validate_limits(op),
           key.len = KEY_LEN, sig.len = SIGNATURE_LEN
    PROVE  LET raw == encode_wire(op, key, sig) IN
           /\ typed_decode(raw) = Ok([tx |-> SignedTx(op, key, sig), rest |-> 0])
           /\ decode_2718_exact(raw) = Ok(SignedTx(op, key, sig))
<1> DEFINE raw == encode_wire(op, key, sig)
           d == Ok([op |-> op, key |-> key, sig |-> sig])
<1>1. raw.ty = TX_TYPE /\ raw.list = TRUE /\ raw.rest = 0 /\ [raw EXCEPT !.rest = 0] = raw
  <2>1. raw.ty = TX_TYPE /\ raw.list = TRUE /\ raw.rest = 0
    BY DEF encode_wire
  <2>2. [raw EXCEPT !.rest = 0] = raw
    <3> DEFINE p == payload(op)
    <3>1. raw \in [ty : {TX_TYPE}, list : {TRUE}, payload : {p}, key : {key}, sig : {sig},
                   minimal : {TRUE}, trailing : {0}, rest : {0}]
      BY DEF encode_wire
    <3> HIDE DEF raw, p
    <3> QED
      BY <3>1
  <2> QED
    BY <2>1, <2>2
<1>2. TX_TYPE \notin EthereumTypes
  BY DEF TX_TYPE, EthereumTypes
<1>3. ~ (ListLen(raw) > MAX_RAW_TX - 1)
  <2>1. ListLen(raw) \in Nat /\ RawSize(raw) = 1 + ListLen(raw) /\ RawSize(raw) <= MAX_RAW_TX
    BY HonestSize
  <2> HIDE DEF raw
  <2> QED
    BY <2>1 DEF MAX_RAW_TX, MAX_CALLDATA
<1>4. decode_wire(raw) = d
  BY HonestDecodes
<1> HIDE DEF raw
<1>5. typed_decode(raw) = SignedOf(d, 0)
  <2>1. ~ (raw.rest < 0)
    BY <1>1
  <2> QED
    BY <1>1, <1>2, <1>3, <1>4, <2>1 DEF typed_decode
<1>6. SignedOf(d, 0) = Ok([tx |-> SignedTx(op, key, sig), rest |-> 0])
  <2>1. d.ok /\ d.val.op = op /\ d.val.key = key /\ d.val.sig = sig
    BY DEF Ok
  <2> DEFINE n == CosmosSignedNew(op, key, sig)
  <2>2. n.ok /\ n.val = SignedTx(op, key, sig)
    BY NewSucceeds DEF Ok
  <2> HIDE DEF d, n
  <2>3. CosmosSignedNew(d.val.op, d.val.key, d.val.sig) = n
    BY <2>1 DEF n
  <2> QED
    BY <2>1, <2>2, <2>3 DEF SignedOf
<1> HIDE DEF d
<1>7. decode_2718_exact(raw) = Ok(SignedTx(op, key, sig))
  <2> DEFINE t == typed_decode(raw)
  <2>1. t.ok /\ t.val.rest = 0 /\ t.val.tx = SignedTx(op, key, sig)
    BY <1>5, <1>6 DEF Ok
  <2> HIDE DEF t
  <2>2. WholeInput(t) = Ok(SignedTx(op, key, sig))
    BY <2>1 DEF WholeInput
  <2> QED
    BY <2>2 DEF decode_2718_exact, t
<1> QED
  BY <1>5, <1>6, <1>7 DEF raw

\* A string that decodes to a Cosmos transaction is the encoding of its own contents,
\* except for what follows it in a stream.
LEMMA DecodedCosmos ==
    ASSUME NEW raw, raw.ty \notin EthereumTypes, typed_decode(raw).ok
    PROVE  LET one == [raw EXCEPT !.rest = 0] IN
           /\ typed_decode(raw) = Ok([tx |-> SignedTx(one.payload.op, one.key, one.sig),
                                      rest |-> raw.rest])
           /\ one = encode_wire(one.payload.op, one.key, one.sig)
           /\ validate_limits(one.payload.op)
           /\ one.key.len = KEY_LEN /\ one.sig.len = SIGNATURE_LEN
<1> DEFINE one == [raw EXCEPT !.rest = 0]
           d == decode_wire(one)
           n == CosmosSignedNew(d.val.op, d.val.key, d.val.sig)
<1>1. d.ok /\ n.ok /\ typed_decode(raw) = Ok([tx |-> n.val, rest |-> raw.rest])
  BY DEF typed_decode, SignedOf, Err
<1> HIDE DEF one
<1>2. /\ d = Ok([op |-> one.payload.op, key |-> one.key, sig |-> one.sig])
      /\ one = encode_wire(one.payload.op, one.key, one.sig)
      /\ validate_limits(one.payload.op)
      /\ one.key.len = KEY_LEN /\ one.sig.len = SIGNATURE_LEN
  BY <1>1, DecodeWireFacts
<1>3. d.val.op = one.payload.op /\ d.val.key = one.key /\ d.val.sig = one.sig
  BY <1>2 DEF Ok
<1> HIDE DEF d
<1>4. n = Ok(SignedTx(one.payload.op, one.key, one.sig))
  BY <1>1, <1>3, NewFacts
<1>5. n.val = SignedTx(one.payload.op, one.key, one.sig)
  BY <1>4 DEF Ok
<1> QED
  BY <1>1, <1>2, <1>5 DEF one

\* One authorisation has one encoding: two strings that decode and carry the same
\* operation, key and signature are the same string, so they have the same hash.
THEOREM OneEncodingOnly ==
    ASSUME NEW a, NEW b, decode_wire(a).ok, decode_wire(b).ok,
           a.payload.op = b.payload.op, a.key = b.key, a.sig = b.sig
    PROVE  a = b /\ transaction_hash(a) = transaction_hash(b)
<1>1. a = encode_wire(a.payload.op, a.key, a.sig)
  BY DecodeWireFacts
<1>2. b = encode_wire(b.payload.op, b.key, b.sig)
  BY DecodeWireFacts
<1>3. encode_wire(a.payload.op, a.key, a.sig) = encode_wire(b.payload.op, b.key, b.sig)
  OBVIOUS
<1>4. a = b
  BY <1>1, <1>2, <1>3
<1> QED
  BY <1>4

----------------------------------------------------------------------------
(* Storage and JSON                                                          *)

\* The two identifier bits and the extra byte carry every transaction type.
LEMMA TxTypeRoundTrip ==
    ASSUME NEW t \in EthereumTypes \cup {TX_TYPE}
    PROVE  TxTypeFromCompact(TxTypeToCompact(t)) = Ok(t)
<1>0. t \in Nat /\ (t < 5 \/ t = 126)
  BY DEF EthereumTypes, TX_TYPE
<1>1. TxTypeTryFrom(t) = Ok(t)
  BY DEF TxTypeTryFrom
<1>2. CASE t < 3
  <2>1. TxTypeToCompact(t) = [identifier |-> t, byte |-> <<>>]
    BY <1>2 DEF TxTypeToCompact
  <2> DEFINE c == TxTypeToCompact(t)
  <2>2. c.identifier = t /\ c.identifier # 3
    BY <1>0, <1>2, <2>1
  <2> HIDE DEF c
  <2>3. TxTypeFromCompact(c) = Ok(t)
    BY <1>1, <2>2 DEF TxTypeFromCompact, Ok
  <2> QED
    BY <2>3 DEF c
<1>3. CASE ~ (t < 3)
  <2> DEFINE c == TxTypeToCompact(t)
  <2>1. c.identifier = 3 /\ c.byte = <<t>>
    BY <1>3 DEF TxTypeToCompact
  <2>2. c.byte[1] = t
    BY <2>1
  <2> HIDE DEF c
  <2>3. TxTypeFromCompact(c) = Ok(t)
    BY <1>1, <2>1, <2>2 DEF TxTypeFromCompact, Ok
  <2> QED
    BY <2>3 DEF c
<1> QED
  BY <1>2, <1>3

\* Every Cosmos transaction the node can hold is read back from the database exactly
\* as it was stored, hash and bytes included, and no assertion fails.
THEOREM CosmosStorageRoundTrip ==
    ASSUME NEW op, NEW key, NEW sig, LensOf(op) \in Lens, validate_limits(op),
           key.len = KEY_LEN, sig.len = SIGNATURE_LEN
    PROVE  from_compact(to_compact(SignedTx(op, key, sig))) = Ok(SignedTx(op, key, sig))
<1> DEFINE tx == SignedTx(op, key, sig)
           body == to_tx_compact(tx)
           c == to_compact(tx)
<1>1. /\ IsCosmos(tx) /\ tx.operation = op /\ tx.public_key = key
      /\ tx.signature = [rs |-> sig, parity |-> FALSE]
  BY DEF IsCosmos, SignedTx
<1>2. ty(tx) = 126
  BY <1>1 DEF ty, TX_TYPE
<1>3. /\ body.list = TRUE /\ body.payload_length = CompactFields(LensOf(op))
      /\ body.payload = payload(op) /\ body.key = key /\ body.trailing = 0
  BY <1>1 DEF to_tx_compact
<1>4. c.ty = TxTypeToCompact(126) /\ c.signature = [rs |-> sig, parity |-> FALSE] /\ c.body = body
  BY <1>1, <1>2 DEF to_compact, EnvelopeSignature
<1>5. TxTypeFromCompact(c.ty) = Ok(126)
  BY <1>4, TxTypeRoundTrip DEF TX_TYPE
<1>6. LensOf(op).input <= MAX_CALLDATA
  BY DEF LensOf, validate_limits
<1>7. ~ (body.payload_length > MAX_RAW_TX)
  <2> DEFINE l == LensOf(op)
  <2>1. l \in Lens /\ l.input <= MAX_CALLDATA
    BY <1>6
  <2> HIDE DEF l
  <2>2. CompactFields(l) <= MAX_RAW_TX
    BY <2>1, InLimitsFitsStorage
  <2>3. CompactFields(l) \in Nat
    BY <2>1, PayloadBounds, HeaderLenBounds DEF CompactFields, BytesLen, KEY_LEN
  <2> QED
    BY <1>3, <2>2, <2>3 DEF l, MAX_RAW_TX, MAX_CALLDATA
<1>8. decode_payload(body.payload) = Ok(op)
  <2>1. decode_wire(encode_wire(op, key, sig)).ok
    BY HonestDecodes DEF Ok
  <2>2. encode_wire(op, key, sig).payload = payload(op) /\ payload(op).op = op
    BY DEF encode_wire, payload
  <2>3. decode_payload(payload(op)).ok
    BY <2>1, <2>2 DEF decode_wire, Err
  <2> QED
    BY <1>3, <2>2, <2>3, DecodePayloadFacts
<1>9. CosmosSignedNew(op, key, sig) = Ok(tx)
  BY NewSucceeds
<1> HIDE DEF body, c, tx
<1>10. from_tx_compact(body, 126, [rs |-> sig, parity |-> FALSE]) = Ok(tx)
  <2> DEFINE signature == [rs |-> sig, parity |-> FALSE]
             d == decode_payload(body.payload)
  <2>1. d.ok /\ d.val = op /\ Ok(tx).ok
    BY <1>8 DEF Ok
  <2>2. signature.rs = sig /\ ~signature.parity /\ ~ (body.trailing > 0) /\ body.list /\ 126 = TX_TYPE
    BY <1>3 DEF TX_TYPE
  <2> HIDE DEF signature, d
  <2>3. from_tx_compact(body, 126, signature) = CosmosSignedNew(op, key, sig)
    BY <1>3, <1>7, <1>9, <2>1, <2>2 DEF from_tx_compact, d
  <2> QED
    BY <1>9, <2>3 DEF signature
<1>11. from_compact(c) = Ok(tx)
  BY <1>4, <1>5, <1>10 DEF from_compact, Ok
<1> QED
  BY <1>11 DEF c, tx

\* The JSON a node shows for a Cosmos transaction parses back to that transaction.
THEOREM RpcRoundTrip ==
    ASSUME NEW op, NEW key, NEW sig, LensOf(op) \in Lens, validate_limits(op),
           key.len = KEY_LEN, sig.len = SIGNATURE_LEN
    PROVE  deserialize(serialize(SignedTx(op, key, sig))) = Ok(SignedTx(op, key, sig))
<1> DEFINE tx == SignedTx(op, key, sig)
           j == serialize(tx)
<1>1. /\ tx.operation = op /\ tx.public_key = key /\ tx.signature.rs = sig
  BY DEF SignedTx
<1>2. /\ j.operation = op /\ j.public_key = key /\ j.cosmos_signature = sig
      /\ j.tx_type = TX_TYPE /\ j.hash = tx.hash
  BY <1>1 DEF serialize
<1>3. CosmosSignedNew(op, key, sig) = Ok(tx)
  BY NewSucceeds
<1> HIDE DEF tx, j
<1>4. deserialize(j) = Ok(tx)
  BY <1>2, <1>3 DEF deserialize, Ok
<1> QED
  BY <1>4 DEF j, tx
============================================================================
