--------------------------- MODULE TxCodecProofs ---------------------------
(***************************************************************************)
(* The safety of TxCodec for every set of inputs: however a transaction    *)
(* travels between bytes, memory, database and JSON, it stays the one that *)
(* was accepted, and nothing the node wrote itself fails to be read.       *)
(***************************************************************************)
EXTENDS TxCodec, CosmosTxProofs

----------------------------------------------------------------------------
(* Transactions the node can hold                                            *)

HeldEthereum(t) ==
    \E e : /\ t = Ethereum(e) /\ e.ty \in EthereumTypes
           /\ e = [ty |-> e.ty, signer |-> e.signer, low_s |-> e.low_s, nonce |-> e.nonce,
                   to |-> e.to, value |-> e.value, input |-> e.input,
                   gas_limit |-> e.gas_limit, max_fee_per_gas |-> e.max_fee_per_gas,
                   max_priority_fee_per_gas |-> e.max_priority_fee_per_gas]
HeldCosmos(t) ==
    \E op, key, sig : /\ t = SignedTx(op, key, sig)
                      /\ LensOf(op) \in Lens /\ validate_limits(op)
                      /\ key.len = KEY_LEN /\ sig.len = SIGNATURE_LEN
Held(t) == HeldEthereum(t) \/ HeldCosmos(t)

LEMMA HeldKinds ==
    ASSUME NEW t
    PROVE  /\ HeldEthereum(t) => ~IsCosmos(t)
           /\ HeldCosmos(t) => IsCosmos(t)
           /\ Held(t) => t # NoTx
<1>1. HeldEthereum(t) => t.kind = "Ethereum"
  BY DEF HeldEthereum, Ethereum
<1>2. HeldCosmos(t) => t.kind = "Cosmos"
  BY DEF HeldCosmos, SignedTx
<1>3. NoTx.kind = "none"
  BY DEF NoTx
<1> QED
  BY <1>1, <1>2, <1>3 DEF IsCosmos, Held

\* What the decoders accept is held, and the accepted string, without what follows it,
\* is the encoding of its contents.
LEMMA AcceptedIsHeld ==
    ASSUME NEW raw \in RawInputs, typed_decode(raw).ok
    PROVE  LET one == [raw EXCEPT !.rest = 0] IN
           /\ Held(typed_decode(raw).val.tx)
           /\ one.ty = TX_TYPE => one = encode_wire(one.payload.op, one.key, one.sig)
<1> DEFINE one == [raw EXCEPT !.rest = 0]
           t == typed_decode(raw).val.tx
<1>1. CASE raw.ty \in EthereumTypes
  <2> DEFINE e == raw.eth
             E == [ty |-> e.ty, signer |-> e.signer, low_s |-> e.low_s, nonce |-> e.nonce,
                   to |-> e.to, value |-> e.value, input |-> e.input,
                   gas_limit |-> e.gas_limit, max_fee_per_gas |-> e.max_fee_per_gas,
                   max_priority_fee_per_gas |-> e.max_priority_fee_per_gas]
  <2>1. raw = [ty |-> e.ty, eth |-> e, rest |-> raw.rest] /\ e = E
    BY <1>1, InputAssumption
  <2>2. t = Ethereum(e)
    BY <1>1 DEF typed_decode, Ok
  <2>3. one.ty = e.ty /\ raw.ty = e.ty
    BY <2>1
  <2>4. one.ty # TX_TYPE
    BY <1>1, <2>3 DEF EthereumTypes, TX_TYPE
  <2>5. HeldEthereum(t)
    BY <1>1, <2>1, <2>2, <2>3 DEF HeldEthereum
  <2> QED
    BY <2>4, <2>5 DEF Held
<1>2. CASE raw.ty \notin EthereumTypes
  <2>1. /\ typed_decode(raw) = Ok([tx |-> SignedTx(one.payload.op, one.key, one.sig),
                                   rest |-> raw.rest])
        /\ one = encode_wire(one.payload.op, one.key, one.sig)
        /\ validate_limits(one.payload.op)
        /\ one.key.len = KEY_LEN /\ one.sig.len = SIGNATURE_LEN
    BY <1>2, DecodedCosmos
  <2>2. t = SignedTx(one.payload.op, one.key, one.sig)
    BY <2>1 DEF Ok
  <2>3. one.payload = raw.payload
    BY <2>1 DEF encode_wire
  <2> HIDE DEF one, t
  <2>4. LensOf(one.payload.op) \in Lens
    BY <1>2, <2>3, InputAssumption
  <2>5. HeldCosmos(t)
    BY <2>1, <2>2, <2>4 DEF HeldCosmos
  <2> QED
    BY <2>1, <2>5 DEF Held, one, t
<1> QED
  BY <1>1, <1>2

\* Bytes, database and JSON give back what they were given.
LEMMA WireRoundTrip ==
    ASSUME NEW t, Held(t)
    PROVE  decode_2718_exact(encode_2718(t)) = Ok(t)
<1>1. CASE HeldEthereum(t)
  <2>1. PICK e : t = Ethereum(e) /\ e.ty \in EthereumTypes
    BY <1>1 DEF HeldEthereum
  <2>2. ~IsCosmos(t) /\ t.tx = e
    BY <2>1 DEF Ethereum, IsCosmos
  <2> DEFINE raw == encode_2718(t)
  <2>3. raw.ty = e.ty /\ raw.eth = e /\ raw.rest = 0
    BY <2>2 DEF encode_2718
  <2> HIDE DEF raw
  <2>4. typed_decode(raw) = Ok([tx |-> t, rest |-> 0])
    BY <2>1, <2>3 DEF typed_decode
  <2> DEFINE d == typed_decode(raw)
  <2>5. d.ok /\ d.val.rest = 0 /\ d.val.tx = t
    BY <2>4 DEF Ok
  <2> HIDE DEF d
  <2>6. WholeInput(d) = Ok(t)
    BY <2>5 DEF WholeInput
  <2>7. decode_2718_exact(raw) = Ok(t)
    BY <2>6 DEF decode_2718_exact, d
  <2> QED
    BY <2>7 DEF raw
<1>2. CASE HeldCosmos(t)
  <2>1. PICK op, key, sig : /\ t = SignedTx(op, key, sig)
                            /\ LensOf(op) \in Lens /\ validate_limits(op)
                            /\ key.len = KEY_LEN /\ sig.len = SIGNATURE_LEN
    BY <1>2 DEF HeldCosmos
  <2>2. encode_2718(t) = encode_wire(op, key, sig)
    BY <2>1 DEF encode_2718, SignedTx, IsCosmos
  <2> QED
    BY <2>1, <2>2, EncodedDecodes
<1> QED
  BY <1>1, <1>2 DEF Held

LEMMA DatabaseRoundTrip ==
    ASSUME NEW t, Held(t)
    PROVE  from_compact(to_compact(t)) = Ok(t)
<1>1. CASE HeldEthereum(t)
  <2>1. PICK e : /\ t = Ethereum(e) /\ e.ty \in EthereumTypes
                 /\ e = [ty |-> e.ty, signer |-> e.signer, low_s |-> e.low_s,
                         nonce |-> e.nonce, to |-> e.to, value |-> e.value,
                         input |-> e.input, gas_limit |-> e.gas_limit,
                         max_fee_per_gas |-> e.max_fee_per_gas,
                         max_priority_fee_per_gas |-> e.max_priority_fee_per_gas]
    BY <1>1 DEF HeldEthereum
  <2>2. ~IsCosmos(t) /\ t.tx = e /\ ty(t) = e.ty
    BY <2>1 DEF Ethereum, IsCosmos, ty
  <2> DEFINE c == to_compact(t)
  <2>3. c.ty = TxTypeToCompact(e.ty) /\ c.body.eth = [e EXCEPT !.ty = 0]
    BY <2>2 DEF to_compact, to_tx_compact
  <2>4. TxTypeFromCompact(c.ty) = Ok(e.ty)
    BY <2>1, <2>3, TxTypeRoundTrip
  <2>5. e.ty # TX_TYPE
    BY <2>1 DEF EthereumTypes, TX_TYPE
  <2>6. [c.body.eth EXCEPT !.ty = e.ty] = e
    <3>1. e \in [ty : {e.ty}, signer : {e.signer}, low_s : {e.low_s}, nonce : {e.nonce},
                 to : {e.to}, value : {e.value}, input : {e.input},
                 gas_limit : {e.gas_limit}, max_fee_per_gas : {e.max_fee_per_gas},
                 max_priority_fee_per_gas : {e.max_priority_fee_per_gas}]
      BY <2>1
    <3>2. [[e EXCEPT !.ty = 0] EXCEPT !.ty = e.ty] = e
      BY <3>1
    <3> QED
      BY <2>3, <3>2
  <2> HIDE DEF c
  <2>7. from_tx_compact(c.body, e.ty, c.signature) = Ok(t)
    BY <2>1, <2>5, <2>6 DEF from_tx_compact
  <2>8. from_compact(c) = Ok(t)
    BY <2>4, <2>7 DEF from_compact, Ok
  <2> QED
    BY <2>8 DEF c
<1>2. CASE HeldCosmos(t)
  BY <1>2, CosmosStorageRoundTrip DEF HeldCosmos
<1> QED
  BY <1>1, <1>2 DEF Held

LEMMA ForeignJson ==
    ASSUME NEW rpc \in RpcInputs, deserialize(rpc).ok
    PROVE  HeldCosmos(deserialize(rpc).val)
<1> DEFINE n == CosmosSignedNew(rpc.operation, rpc.public_key, rpc.cosmos_signature)
<1>1. n.ok /\ deserialize(rpc) = n
  BY DEF deserialize, Err
<1>2. /\ n = Ok(SignedTx(rpc.operation, rpc.public_key, rpc.cosmos_signature))
      /\ validate_limits(rpc.operation) /\ rpc.public_key.len = KEY_LEN
      /\ rpc.cosmos_signature.len = SIGNATURE_LEN
  BY <1>1, NewFacts
<1>3. n.val = SignedTx(rpc.operation, rpc.public_key, rpc.cosmos_signature)
  BY <1>2 DEF Ok
<1>4. LensOf(rpc.operation) \in Lens
  BY InputAssumption
<1> QED
  BY <1>1, <1>2, <1>3, <1>4 DEF HeldCosmos

----------------------------------------------------------------------------
(* The inductive invariant                                                   *)

\* What the item at hand is, by form.
ItemGood ==
    \/ item = Nothing /\ origin = NoTx
    \/ item.form = "wire" /\ item.v \in RawInputs /\ origin = NoTx
    \/ /\ item.form = "rejected" /\ item.v \in RawInputs
       /\ ~ (FirstOfStream(item.v).ok /\ decode_2718_exact(item.v).ok)
    \/ item.form = "refused"
    \/ item.form = "tx" /\ item.v = origin /\ Held(origin)
    \/ item.form = "again" /\ item.v = encode_2718(origin) /\ Held(origin)
    \/ item.form = "db" /\ item.v = to_compact(origin) /\ Held(origin)
    \/ item.form = "rpc" /\ item.v = serialize(origin) /\ HeldCosmos(origin)
    \/ item.form = "rpc" /\ item.v \in RpcInputs /\ origin = NoTx

\* An accepted Cosmos string is the encoding of its contents.
AcceptedGood ==
    \A a \in accepted : a.ty = TX_TYPE => a = encode_wire(a.payload.op, a.key, a.sig)

CodecInv == ItemGood /\ AcceptedGood

LEMMA DecodeKeeps ==
    ASSUME CodecInv, Decode
    PROVE  CodecInv'
<1> DEFINE raw == item.v
           d == typed_decode(raw)
<1>1. item.form = "wire" /\ raw \in RawInputs /\ AcceptedGood
  BY DEF CodecInv, ItemGood, Decode, Nothing
<1>2. PICK r \in {FirstOfStream(raw), decode_2718_exact(raw)} :
        IF r.ok
        THEN /\ item' = [form |-> "tx", v |-> r.val]
             /\ origin' = r.val
             /\ accepted' = accepted \cup {[raw EXCEPT !.rest = 0]}
        ELSE /\ item' = [form |-> "rejected", v |-> raw]
             /\ UNCHANGED <<origin, accepted>>
  BY DEF Decode
<1> HIDE DEF raw
<1>3. CASE r.ok
  <2>1. d.ok /\ r.val = d.val.tx
    <3>1. CASE r = FirstOfStream(raw)
      BY <1>3, <3>1 DEF FirstOfStream, Ok
    <3>2. CASE r = decode_2718_exact(raw)
      BY <1>3, <3>2 DEF decode_2718_exact, WholeInput, Ok, Err
    <3> QED
      BY <3>1, <3>2
  <2> DEFINE one == [raw EXCEPT !.rest = 0]
  <2>2. /\ Held(d.val.tx)
        /\ one.ty = TX_TYPE => one = encode_wire(one.payload.op, one.key, one.sig)
    BY <1>1, <2>1, AcceptedIsHeld
  <2>3. item' = [form |-> "tx", v |-> r.val] /\ origin' = r.val /\ accepted' = accepted \cup {one}
    BY <1>2, <1>3
  <2> HIDE DEF one, d
  <2>4. item'.form = "tx" /\ item'.v = origin' /\ Held(origin')
    BY <2>1, <2>2, <2>3
  <2>5. AcceptedGood'
    BY <1>1, <2>2, <2>3 DEF AcceptedGood
  <2> QED
    BY <2>4, <2>5 DEF CodecInv, ItemGood
<1>4. CASE ~r.ok
  <2>1. item'.form = "rejected" /\ item'.v = raw /\ accepted' = accepted
    BY <1>2, <1>4
  <2>2. ~ (FirstOfStream(raw).ok /\ decode_2718_exact(raw).ok)
    BY <1>2, <1>4
  <2>3. ItemGood'
    BY <1>1, <2>1, <2>2 DEF ItemGood
  <2> QED
    BY <1>1, <2>1, <2>3 DEF CodecInv, AcceptedGood
<1> QED
  BY <1>3, <1>4

LEMMA CodecKept == CodecInv /\ [Next]_vars => CodecInv'
<1> SUFFICES ASSUME CodecInv, [Next]_vars PROVE CodecInv'
  OBVIOUS
<1>0. ItemGood /\ AcceptedGood
  BY DEF CodecInv
<1> USE DEF ItemGood, Nothing
<1>1. ASSUME accepted' = accepted PROVE AcceptedGood'
  BY <1>0, <1>1 DEF AcceptedGood
<1>2. CASE \E raw \in RawInputs : Receive(raw)
  BY <1>0, <1>1, <1>2 DEF Receive, CodecInv
<1>3. CASE \E rpc \in RpcInputs : ReceiveRpc(rpc)
  BY <1>0, <1>1, <1>3 DEF ReceiveRpc, CodecInv
<1>4. CASE Decode
  BY <1>4, DecodeKeeps
<1>5. CASE Encode \/ Store
  BY <1>0, <1>1, <1>5 DEF Encode, Store, CodecInv
<1>6. CASE Publish
  <2>1. item.form = "tx" /\ item.v = origin /\ Held(origin) /\ IsCosmos(origin)
    BY <1>0, <1>6 DEF Publish
  <2>2. HeldCosmos(origin)
    BY <2>1, HeldKinds DEF Held
  <2> QED
    BY <1>1, <1>6, <2>1, <2>2 DEF Publish, CodecInv
<1>7. CASE Redecode
  <2>1. item.v = encode_2718(origin) /\ Held(origin)
    BY <1>0, <1>7 DEF Redecode
  <2>2. decode_2718_exact(item.v).ok /\ decode_2718_exact(item.v).val = origin
    BY <2>1, WireRoundTrip DEF Ok
  <2>3. item' = [form |-> "tx", v |-> origin] /\ origin' = origin /\ accepted' = accepted
    BY <1>7, <2>2 DEF Redecode
  <2> QED
    BY <1>1, <2>1, <2>3 DEF CodecInv
<1>8. CASE Load
  <2>1. item.v = to_compact(origin) /\ Held(origin)
    BY <1>0, <1>8 DEF Load
  <2>2. from_compact(item.v).ok /\ from_compact(item.v).val = origin
    BY <2>1, DatabaseRoundTrip DEF Ok
  <2>3. item' = [form |-> "tx", v |-> origin] /\ origin' = origin /\ accepted' = accepted
    BY <1>8, <2>2 DEF Load
  <2> QED
    BY <1>1, <2>1, <2>3 DEF CodecInv
<1>9. CASE Parse
  <2> DEFINE r == deserialize(item.v)
  <2>1. accepted' = accepted
    BY <1>9 DEF Parse
  <2>2. CASE item.v = serialize(origin) /\ HeldCosmos(origin)
    <3>1. r = Ok(origin)
      BY <2>2, RpcRoundTrip DEF HeldCosmos
    <3>2. r.ok /\ r.val = origin /\ Held(origin) /\ origin # NoTx
      BY <2>2, <3>1, HeldKinds DEF Ok, Held
    <3> HIDE DEF r
    <3>3. item' = [form |-> "tx", v |-> origin] /\ origin' = origin
      BY <1>9, <3>2 DEF Parse, r
    <3> QED
      BY <1>1, <2>1, <3>2, <3>3 DEF CodecInv
  <2>3. CASE item.v \in RpcInputs /\ origin = NoTx
    <3>1. CASE r.ok
      <4>1. Held(r.val)
        BY <2>3, <3>1, ForeignJson DEF Held
      <4>2. item' = [form |-> "tx", v |-> r.val] /\ origin' = r.val
        BY <1>9, <2>3, <3>1 DEF Parse
      <4> HIDE DEF r
      <4> QED
        BY <1>1, <2>1, <4>1, <4>2 DEF CodecInv
    <3>2. CASE ~r.ok
      <4>1. item'.form = "refused"
        BY <1>9, <3>2 DEF Parse
      <4> QED
        BY <1>1, <2>1, <4>1 DEF CodecInv
    <3> QED
      BY <3>1, <3>2
  <2> QED
    BY <1>0, <1>9, <2>2, <2>3 DEF Parse
<1>10. CASE Forget
  BY <1>0, <1>1, <1>10 DEF Forget, CodecInv
<1>11. CASE UNCHANGED vars
  BY <1>0, <1>1, <1>11 DEF vars, CodecInv
<1> QED
  BY <1>2, <1>3, <1>4, <1>5, <1>6, <1>7, <1>8, <1>9, <1>10, <1>11 DEF Next

LEMMA CodecInvariance == Spec => []CodecInv
<1>1. Init => CodecInv
  BY DEF Init, CodecInv, ItemGood, AcceptedGood
<1> QED
  BY <1>1, CodecKept, PTL DEF Spec

----------------------------------------------------------------------------
(* Theorems                                                                  *)

\* A transaction keeps the hash, the bytes and the fields it was accepted with on every
\* route through wire, database and JSON.
THEOREM IdentityIsKept == Spec => []IdentityKept
<1>1. CodecInv => IdentityKept
  BY DEF CodecInv, ItemGood, IdentityKept, Nothing
<1> QED
  BY CodecInvariance, <1>1, PTL

\* No assertion of the database decoders fails on what the node stored, and what it
\* encodes for others decodes.
THEOREM NothingIsLost == Spec => []NothingLost
<1>1. CodecInv => NothingLost
  BY DEF CodecInv, ItemGood, NothingLost, Nothing
<1> QED
  BY CodecInvariance, <1>1, PTL

\* Of all the strings that carry one authorisation at most one is accepted, whatever
\* arrives and in whatever order.
THEOREM EncodingIsUnique == Spec => []OneEncoding
<1>1. CodecInv => OneEncoding
  BY DEF CodecInv, AcceptedGood, OneEncoding
<1> QED
  BY CodecInvariance, <1>1, PTL

\* The decoders refuse no canonical encoding of an operation within the limits.
THEOREM HonestIsAccepted == Spec => []HonestAccepted
<1>1. CodecInv => HonestAccepted
  <2> SUFFICES ASSUME CodecInv, item.form = "rejected", item.v.ty = TX_TYPE,
                      item.v = encode_wire(item.v.payload.op, item.v.key, item.v.sig),
                      item.v.key.len = KEY_LEN, item.v.sig.len = SIGNATURE_LEN,
                      validate_limits(item.v.payload.op)
               PROVE  FALSE
    BY DEF HonestAccepted
  <2> DEFINE raw == item.v
             op == raw.payload.op
  <2>1. raw \in RawInputs /\ ~ (FirstOfStream(raw).ok /\ decode_2718_exact(raw).ok)
    BY DEF CodecInv, ItemGood, Nothing
  <2>2. raw.ty \notin EthereumTypes
    BY DEF EthereumTypes, TX_TYPE
  <2>3. LensOf(op) \in Lens
    BY <2>1, <2>2, InputAssumption
  <2>4. /\ raw = encode_wire(op, raw.key, raw.sig) /\ validate_limits(op)
        /\ raw.key.len = KEY_LEN /\ raw.sig.len = SIGNATURE_LEN
    OBVIOUS
  <2> HIDE DEF raw, op
  <2>5. /\ typed_decode(raw) = Ok([tx |-> SignedTx(op, raw.key, raw.sig), rest |-> 0])
        /\ decode_2718_exact(raw) = Ok(SignedTx(op, raw.key, raw.sig))
    BY <2>3, <2>4, EncodedDecodes
  <2>6. typed_decode(raw).ok /\ decode_2718_exact(raw).ok
    BY <2>5 DEF Ok
  <2>7. FirstOfStream(raw).ok
    BY <2>6 DEF FirstOfStream, Ok
  <2> QED
    BY <2>1, <2>6, <2>7
<1> QED
  BY CodecInvariance, <1>1, PTL

\* A Cosmos transaction in memory is within the limits, and its cached bytes and hash
\* are those of its contents.
THEOREM HeldStaysCanonical == Spec => []HeldIsCanonical
<1>1. CodecInv => HeldIsCanonical
  <2> SUFFICES ASSUME CodecInv, item.form = "tx", IsCosmos(item.v)
               PROVE  /\ validate_limits(item.v.operation)
                      /\ item.v.raw = encode_wire(item.v.operation, item.v.public_key,
                                                  item.v.signature.rs)
                      /\ item.v.hash = transaction_hash(item.v.raw)
                      /\ RawSize(item.v.raw) <= MAX_RAW_TX
                      /\ LensOf(item.v.operation) \in Lens
    BY DEF HeldIsCanonical
  <2>1. Held(item.v)
    BY DEF CodecInv, ItemGood, Nothing
  <2>2. HeldCosmos(item.v)
    BY <2>1, HeldKinds DEF Held
  <2>3. PICK op, key, sig : /\ item.v = SignedTx(op, key, sig)
                            /\ LensOf(op) \in Lens /\ validate_limits(op)
                            /\ key.len = KEY_LEN /\ sig.len = SIGNATURE_LEN
    BY <2>2 DEF HeldCosmos
  <2>4. /\ item.v.operation = op /\ item.v.public_key = key /\ item.v.signature.rs = sig
        /\ item.v.raw = encode_wire(op, key, sig)
        /\ item.v.hash = transaction_hash(encode_wire(op, key, sig))
    BY <2>3 DEF SignedTx
  <2>5. RawSize(encode_wire(op, key, sig)) <= MAX_RAW_TX
    BY <2>3, HonestSize
  <2> QED
    BY <2>3, <2>4, <2>5
<1> QED
  BY CodecInvariance, <1>1, PTL
============================================================================
