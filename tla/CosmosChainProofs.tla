-------------------------- MODULE CosmosChainProofs --------------------------
(***************************************************************************)
(* The safety of CosmosChain for every set of accounts, blocks and chain   *)
(* files, every genesis and every height.                                  *)
(***************************************************************************)
EXTENDS CosmosChain, CosmosTxProofs, SequenceTheorems, FiniteSetTheorems

----------------------------------------------------------------------------
(* What decoding, recovering and executing one transaction gives             *)

LEMMA RawTypes ==
    ASSUME NEW raw \in SubmittedRaws
    PROVE  IF raw.ty \in EthereumTypes
           THEN raw.eth \in EthereumTx /\ raw.eth.ty = raw.ty
           ELSE ChainFields(raw.payload.op) /\ LensOf(raw.payload.op) \in Lens
  BY ChainAssumption

\* The shape of a decoded transaction.
GoodEthereum(t) == \E e \in EthereumTx : t = Ethereum(e)
GoodCosmos(t) ==
    \E op, key, sig : /\ t = SignedTx(op, key, sig)
                      /\ ChainFields(op) /\ LensOf(op) \in Lens /\ validate_limits(op)
                      /\ key.len = KEY_LEN /\ sig.len = SIGNATURE_LEN

LEMMA DecodedShape ==
    ASSUME NEW t \in DecodedTxs
    PROVE  GoodEthereum(t) \/ GoodCosmos(t)
<1>1. PICK raw \in SubmittedRaws : decode_2718_exact(raw).ok /\ t = decode_2718_exact(raw).val
  BY DEF DecodedTxs
<1>2. typed_decode(raw).ok /\ typed_decode(raw).val.rest = 0 /\ t = typed_decode(raw).val.tx
  BY <1>1 DEF decode_2718_exact, WholeInput, Err, Ok
<1>3. CASE raw.ty \in EthereumTypes
  <2>1. typed_decode(raw) = Ok([tx |-> Ethereum(raw.eth), rest |-> raw.rest])
    BY <1>3 DEF typed_decode
  <2>2. t = Ethereum(raw.eth)
    BY <1>2, <2>1 DEF Ok
  <2> QED
    BY <1>3, <2>2, RawTypes DEF GoodEthereum
<1>4. CASE raw.ty \notin EthereumTypes
  <2> DEFINE one == [raw EXCEPT !.rest = 0]
  <2>1. /\ typed_decode(raw) = Ok([tx |-> SignedTx(one.payload.op, one.key, one.sig),
                                   rest |-> raw.rest])
        /\ validate_limits(one.payload.op)
        /\ one.key.len = KEY_LEN /\ one.sig.len = SIGNATURE_LEN
    BY <1>2, <1>4, DecodedCosmos
  <2>2. t = SignedTx(one.payload.op, one.key, one.sig)
    BY <1>2, <2>1 DEF Ok
  <2>3. one.payload = raw.payload
    BY <2>1, <1>2, <1>4, DecodedCosmos DEF encode_wire
  <2> HIDE DEF one
  <2>4. ChainFields(one.payload.op) /\ LensOf(one.payload.op) \in Lens
    BY <1>4, <2>3, RawTypes
  <2> QED
    BY <2>1, <2>2, <2>4 DEF GoodCosmos
<1> QED
  BY <1>3, <1>4

\* Fields of the two kinds of transaction.
LEMMA TxFields ==
    ASSUME NEW t \in DecodedTxs
    PROVE  ChainFields(Fields(t)) /\ ty(t) \in EthereumTypes \cup {TX_TYPE}
<1>1. CASE GoodEthereum(t)
  <2>1. PICK e \in EthereumTx : t = Ethereum(e)
    BY <1>1 DEF GoodEthereum
  <2>2. ~IsCosmos(t) /\ t.tx = e
    BY <2>1 DEF Ethereum, IsCosmos
  <2> QED
    BY <2>2 DEF Fields, Accessors, ChainFields, EthereumTx, ty
<1>2. CASE GoodCosmos(t)
  <2>1. PICK op, key, sig : t = SignedTx(op, key, sig) /\ ChainFields(op)
    BY <1>2 DEF GoodCosmos
  <2>2. IsCosmos(t) /\ t.operation = op
    BY <2>1 DEF SignedTx, IsCosmos
  <2> QED
    BY <2>1, <2>2 DEF Fields, Accessors, ChainFields, ty
<1> QED
  BY <1>1, <1>2, DecodedShape

\* Every decoded transaction comes back from the database as it was.
LEMMA StorageRoundTrip ==
    ASSUME NEW t \in DecodedTxs
    PROVE  from_compact(to_compact(t)) = Ok(t)
<1>1. CASE GoodEthereum(t)
  <2>1. PICK e \in EthereumTx : t = Ethereum(e)
    BY <1>1 DEF GoodEthereum
  <2>2. ~IsCosmos(t) /\ t.tx = e /\ e.ty \in EthereumTypes /\ ty(t) = e.ty
    BY <2>1 DEF Ethereum, IsCosmos, EthereumTx, ty
  <2> DEFINE c == to_compact(t)
  <2>3. c.ty = TxTypeToCompact(e.ty) /\ c.body.eth = [e EXCEPT !.ty = 0]
    BY <2>2 DEF to_compact, to_tx_compact
  <2>4. TxTypeFromCompact(c.ty) = Ok(e.ty)
    BY <2>2, <2>3, TxTypeRoundTrip
  <2>5. e.ty # TX_TYPE
    BY <2>2 DEF EthereumTypes, TX_TYPE
  <2>6. [c.body.eth EXCEPT !.ty = e.ty] = e
    BY <2>3 DEF EthereumTx
  <2> HIDE DEF c
  <2>7. from_tx_compact(c.body, e.ty, c.signature) = Ok(t)
    BY <2>1, <2>5, <2>6 DEF from_tx_compact
  <2>8. from_compact(c) = Ok(t)
    BY <2>4, <2>7 DEF from_compact, Ok
  <2> QED
    BY <2>8 DEF c
<1>2. CASE GoodCosmos(t)
  BY <1>2, CosmosStorageRoundTrip DEF GoodCosmos
<1> QED
  BY <1>1, <1>2, DecodedShape

\* Whatever path recovers a sender, it is an account that asked for the transaction.
LEMMA RecoverFacts ==
    ASSUME NEW t \in DecodedTxs, NEW path, Recover(path, t).ok
    PROVE  Recover(path, t).val \in Accounts /\ ActsFor(t, Recover(path, t).val)
<1> DEFINE r == Recover(path, t)
<1>1. CASE GoodEthereum(t)
  <2>1. PICK e \in EthereumTx : t = Ethereum(e)
    BY <1>1 DEF GoodEthereum
  <2>2. ~IsCosmos(t) /\ t.tx = e /\ e.signer \in Accounts \cup {NoSigner}
    BY <2>1 DEF Ethereum, IsCosmos, EthereumTx
  <2>3. e.signer # NoSigner /\ r = Ok(e.signer)
    BY <2>2 DEF Recover, recover_signer, recover_signer_unchecked, EthereumRecover, Err
  <2>4. r.val = e.signer
    BY <2>3 DEF Ok
  <2> QED
    BY <2>2, <2>3, <2>4 DEF ActsFor
<1>2. CASE GoodCosmos(t)
  <2>1. PICK op, key, sig : t = SignedTx(op, key, sig)
    BY <1>2 DEF GoodCosmos
  <2>2. IsCosmos(t) /\ t.operation = op /\ t.public_key = key /\ t.signature.rs = sig
    BY <2>1 DEF SignedTx, IsCosmos
  <2>3. r = verify(op, key, sig, GENESIS_HASH)
    BY <2>2 DEF Recover, recover_signer, recover_signer_unchecked, CosmosVerify
  <2>4. Authorized(op, key, sig) /\ r = Ok(op.sender)
    BY <2>3, VerifyAuthorizes
  <2>5. r.val = op.sender /\ op.sender \in Accounts
    BY <2>4, EvmAssumption DEF Ok, Authorized
  <2> QED
    BY <2>2, <2>4, <2>5 DEF ActsFor
<1> QED
  BY <1>1, <1>2, DecodedShape

\* Transaction environments.
GoodEnv(env) ==
    /\ env.caller \in Accounts /\ env.to \in Accounts
    /\ env.gas_limit \in Nat /\ env.gas_price \in Nat /\ env.value \in Nat
    /\ env.data \in Nat /\ env.nonce \in Nat /\ env.gas_priority_fee \in Nat

\* A transaction that passes every check: it decodes, its caller asked for it, and its
\* nonce is the caller's in the state it executes on.
LEMMA AttemptFacts ==
    ASSUME NEW raw \in SubmittedRaws, NEW path, NEW w \in Worlds, NEW fee, NEW gas,
           Attempt(path, raw, w, fee, gas).ok
    PROVE  LET a == Attempt(path, raw, w, fee, gas).val IN
           /\ a.tx \in DecodedTxs
           /\ GoodEnv(a.env)
           /\ ActsFor(a.tx, a.env.caller)
           /\ Fields(a.tx).nonce = w.nonce[a.env.caller]
<1> DEFINE d == decode_2718_exact(raw)
           r == Recover(path, d.val)
           env == from_recovered_tx(d.val, r.val)
           e == ValidationError(env.val, w, fee, BLOCK_GAS - gas)
           a == Attempt(path, raw, w, fee, gas).val
<1>1. d.ok /\ r.ok /\ env.ok /\ e = "none" /\ a = [tx |-> d.val, env |-> env.val]
  BY DEF Attempt, AttemptDecoded, Err, Ok
<1>2. d.val \in DecodedTxs
  BY <1>1 DEF DecodedTxs
<1>3. r.val \in Accounts /\ ActsFor(d.val, r.val)
  BY <1>1, <1>2, RecoverFacts
<1> DEFINE f == Fields(d.val)
<1>4. ChainFields(f)
  BY <1>2, TxFields
<1> HIDE DEF d, r
<1>5. /\ env.val.caller = r.val /\ env.val.nonce = f.nonce /\ env.val.to = f.to
      /\ env.val.gas_limit = f.gas_limit /\ env.val.gas_price = f.max_fee_per_gas
      /\ env.val.value = f.value /\ env.val.data = f.input
      /\ env.val.gas_priority_fee = f.max_priority_fee_per_gas
  BY <1>1 DEF from_recovered_tx, Err, Ok
<1> HIDE DEF f
<1>6. GoodEnv(env.val)
  BY <1>3, <1>4, <1>5 DEF GoodEnv, ChainFields
<1> DEFINE v == env.val
<1>7. ~ (v.nonce < w.nonce[v.caller]) /\ ~ (v.nonce > w.nonce[v.caller])
  <2> HIDE DEF v
  <2>1. ValidationError(v, w, fee, BLOCK_GAS - gas) = "none"
    BY <1>1 DEF v
  <2> QED
    BY <2>1 DEF ValidationError
<1>8. w.nonce[v.caller] \in Nat
  BY <1>3, <1>5 DEF Worlds
<1> HIDE DEF env
<1>9. v.nonce = w.nonce[v.caller]
  BY <1>6, <1>7, <1>8 DEF GoodEnv
<1>10. a.tx = d.val /\ a.env = v
  BY <1>1
<1> QED
  BY <1>2, <1>3, <1>5, <1>6, <1>9, <1>10 DEF f

\* Execution keeps the state well typed and advances exactly the caller's nonce.
LEMMA AppliedFacts ==
    ASSUME NEW env, GoodEnv(env), NEW w \in Worlds, NEW fee \in Nat
    PROVE  /\ Applied(env, w, fee) \in Worlds
           /\ Applied(env, w, fee).nonce = [w.nonce EXCEPT ![env.caller] = @ + 1]
           /\ GasUsed(env) \in Nat
<1>1. GasUsed(env) \in Nat
  <2>1. IntrinsicGas(env) \in Nat
    BY DEF IntrinsicGas, GoodEnv, MIN_GAS
  <2>2. CallGas(env) \in Nat
    BY <2>1, EvmAssumption DEF CallGas
  <2> QED
    BY <2>2 DEF GasUsed, GoodEnv
<1>2. EffectiveTip(env, fee) \in Int
  BY DEF EffectiveTip, GoodEnv
<1> DEFINE tip == EffectiveTip(env, fee)
           g == GasUsed(env)
           value == IF Succeeds(env) THEN env.value ELSE 0
           change == [a \in Accounts |->
                      (IF a = env.caller THEN 0 - value - g * (fee + tip) ELSE 0)
                    + (IF a = env.to THEN value ELSE 0)
                    + (IF a = Beneficiary THEN g * tip ELSE 0)]
<1>3. /\ Applied(env, w, fee).nonce = [w.nonce EXCEPT ![env.caller] = @ + 1]
      /\ Applied(env, w, fee).balance = [a \in Accounts |-> w.balance[a] + change[a]]
  BY DEF Applied
<1>4. value \in Int
  BY DEF GoodEnv
<1> HIDE DEF tip, g, value
<1>5. g * (fee + tip) \in Int /\ g * tip \in Int
  BY <1>1, <1>2 DEF g, tip
<1>6. \A a \in Accounts : change[a] \in Int
  BY <1>4, <1>5
<1> HIDE DEF change
<1>7. Applied(env, w, fee).balance \in [Accounts -> Int]
  BY <1>3, <1>6 DEF Worlds
<1>8. Applied(env, w, fee).nonce \in [Accounts -> Nat]
  BY <1>3 DEF Worlds, GoodEnv
<1>9. Applied(env, w, fee).slot \in Accounts \cup {NoSigner}
  BY DEF Applied, Worlds, GoodEnv
<1>10. Applied(env, w, fee) \in Worlds
  BY <1>7, <1>8, <1>9 DEF Applied, Worlds
<1> QED
  BY <1>1, <1>3, <1>10

----------------------------------------------------------------------------
(* Nonces along a chain                                                      *)

\* Transaction i of block n exists.
At(bs, n, i) == n \in 1 .. Len(bs) /\ i \in 1 .. Len(bs[n].txs)

\* The three parts of Disciplined, over positions.
Once(bs) == \A n, i, m, j :
    At(bs, n, i) /\ At(bs, m, j) /\ SlotAt(bs, n, i) = SlotAt(bs, m, j) => n = m /\ i = j
Used(bs, w) == \A n, i : At(bs, n, i) => SlotAt(bs, n, i)[2] < w.nonce[SlotAt(bs, n, i)[1]]
Full(bs, w) == \A a \in Accounts : \A v \in 0 .. w.nonce[a] - 1 :
    \E n, i : At(bs, n, i) /\ SlotAt(bs, n, i) = <<a, v>>

LEMMA OverPositions ==
    ASSUME NEW bs, NEW w
    PROVE  Disciplined(bs, w) <=> Once(bs) /\ Used(bs, w) /\ Full(bs, w)
<1>1. OneSlotOnce(bs) <=> Once(bs)
  <2>1. ASSUME OneSlotOnce(bs), NEW n, NEW i, NEW m, NEW j, At(bs, n, i), At(bs, m, j),
               SlotAt(bs, n, i) = SlotAt(bs, m, j)
        PROVE  n = m /\ i = j
    BY <2>1 DEF OneSlotOnce, At
  <2>2. ASSUME Once(bs), NEW n \in 1 .. Len(bs), NEW m \in 1 .. Len(bs),
               NEW i \in 1 .. Len(bs[n].txs), NEW j \in 1 .. Len(bs[m].txs),
               SlotAt(bs, n, i) = SlotAt(bs, m, j)
        PROVE  n = m /\ i = j
    BY <2>2 DEF Once, At
  <2> QED
    BY <2>1, <2>2 DEF OneSlotOnce, Once
<1>2. NoncesUsed(bs, w) <=> Used(bs, w)
  BY DEF NoncesUsed, Used, At
<1>3. NoGap(bs, w) <=> Full(bs, w)
  BY DEF NoGap, Full, At
<1> QED
  BY <1>1, <1>2, <1>3 DEF Disciplined

\* Chains with the same positions and slots are equally disciplined.
LEMMA SameSlots ==
    ASSUME NEW bs, NEW cs, NEW w,
           \A n, i : At(cs, n, i) <=> At(bs, n, i),
           \A n, i : At(bs, n, i) => SlotAt(cs, n, i) = SlotAt(bs, n, i),
           Disciplined(bs, w)
    PROVE  Disciplined(cs, w)
<1>1. Once(bs) /\ Used(bs, w) /\ Full(bs, w)
  BY OverPositions
<1>2. Once(cs)
  BY <1>1 DEF Once
<1>3. Used(cs, w)
  BY <1>1 DEF Used
<1>4. Full(cs, w)
  <2> SUFFICES ASSUME NEW a \in Accounts, NEW v \in 0 .. w.nonce[a] - 1
               PROVE  \E n, i : At(cs, n, i) /\ SlotAt(cs, n, i) = <<a, v>>
    BY DEF Full
  <2>1. PICK n, i : At(bs, n, i) /\ SlotAt(bs, n, i) = <<a, v>>
    BY <1>1 DEF Full
  <2> QED
    BY <2>1
<1> QED
  BY <1>2, <1>3, <1>4, OverPositions

\* Discipline depends on the blocks alone.
LEMMA SameChain ==
    ASSUME NEW bs, NEW cs, NEW w, Len(bs) = Len(cs),
           \A n \in 1 .. Len(bs) : bs[n] = cs[n],
           Disciplined(bs, w)
    PROVE  Disciplined(cs, w)
<1>1. \A n, i : At(cs, n, i) <=> At(bs, n, i)
  BY DEF At
<1>2. \A n, i : At(bs, n, i) => SlotAt(cs, n, i) = SlotAt(bs, n, i)
  BY DEF At, SlotAt
<1> QED
  BY <1>1, <1>2, SameSlots

\* A block without transactions changes nothing.
LEMMA EmptyBlockKeeps ==
    ASSUME NEW bs, NEW cs, NEW w, Len(bs) \in Nat, Len(cs) = Len(bs) + 1,
           \A n \in 1 .. Len(bs) : cs[n] = bs[n],
           Len(cs[Len(cs)].txs) = 0,
           Disciplined(bs, w)
    PROVE  Disciplined(cs, w)
<1>1. \A n, i : At(cs, n, i) <=> At(bs, n, i)
  BY DEF At
<1>2. \A n, i : At(bs, n, i) => SlotAt(cs, n, i) = SlotAt(bs, n, i)
  BY DEF At, SlotAt
<1> QED
  BY <1>1, <1>2, SameSlots

\* One more transaction, with its caller's next nonce.
LEMMA ExecuteKeeps ==
    ASSUME NEW bs, NEW cs, NEW w, NEW w2, NEW c \in Accounts, NEW L, NEW k,
           \A n, i : At(cs, n, i) <=> At(bs, n, i) \/ (n = L /\ i = k),
           \A n, i : At(bs, n, i) => /\ SlotAt(cs, n, i) = SlotAt(bs, n, i)
                                     /\ SlotAt(bs, n, i)[1] \in Accounts
                                     /\ SlotAt(bs, n, i)[2] \in Nat,
           SlotAt(cs, L, k) = <<c, w.nonce[c]>>,
           w.nonce \in [Accounts -> Nat],
           w2.nonce = [w.nonce EXCEPT ![c] = @ + 1],
           Disciplined(bs, w)
    PROVE  Disciplined(cs, w2)
<1>1. Once(bs) /\ Used(bs, w) /\ Full(bs, w)
  BY OverPositions
<1>2. \A a \in Accounts : w.nonce[a] \in Nat /\ w2.nonce[a] = IF a = c THEN w.nonce[a] + 1 ELSE w.nonce[a]
  OBVIOUS
<1>3. \A n, i : At(bs, n, i) => SlotAt(bs, n, i) # <<c, w.nonce[c]>>
  <2> SUFFICES ASSUME NEW n, NEW i, At(bs, n, i), SlotAt(bs, n, i) = <<c, w.nonce[c]>>
               PROVE  FALSE
    OBVIOUS
  <2>1. SlotAt(bs, n, i)[2] < w.nonce[SlotAt(bs, n, i)[1]]
    BY <1>1 DEF Used
  <2>2. w.nonce[c] < w.nonce[c]
    BY <2>1
  <2> QED
    BY <1>2, <2>2
<1>4. Once(cs)
  <2> SUFFICES ASSUME NEW n, NEW i, NEW m, NEW j, At(cs, n, i), At(cs, m, j),
                      SlotAt(cs, n, i) = SlotAt(cs, m, j)
               PROVE  n = m /\ i = j
    BY DEF Once
  <2>1. CASE At(bs, n, i) /\ At(bs, m, j)
    BY <1>1, <2>1 DEF Once
  <2>2. CASE At(bs, n, i) /\ m = L /\ j = k
    BY <1>3, <2>2
  <2>3. CASE n = L /\ i = k /\ At(bs, m, j)
    BY <1>3, <2>3
  <2> QED
    BY <2>1, <2>2, <2>3
<1>5. Used(cs, w2)
  <2> SUFFICES ASSUME NEW n, NEW i, At(cs, n, i)
               PROVE  SlotAt(cs, n, i)[2] < w2.nonce[SlotAt(cs, n, i)[1]]
    BY DEF Used
  <2>1. CASE At(bs, n, i)
    <3> DEFINE a == SlotAt(bs, n, i)[1]
               v == SlotAt(bs, n, i)[2]
    <3>1. v < w.nonce[a] /\ a \in Accounts /\ v \in Nat /\ SlotAt(cs, n, i) = SlotAt(bs, n, i)
      BY <1>1, <2>1 DEF Used
    <3> HIDE DEF a, v
    <3>2. v < w2.nonce[a]
      BY <1>2, <3>1
    <3> QED
      BY <3>1, <3>2 DEF a, v
  <2>2. CASE n = L /\ i = k
    BY <1>2, <2>2
  <2> QED
    BY <2>1, <2>2
<1>6. Full(cs, w2)
  <2> SUFFICES ASSUME NEW a \in Accounts, NEW v \in 0 .. w2.nonce[a] - 1
               PROVE  \E n, i : At(cs, n, i) /\ SlotAt(cs, n, i) = <<a, v>>
    BY DEF Full
  <2>1. CASE v \in 0 .. w.nonce[a] - 1
    <3>1. PICK n, i : At(bs, n, i) /\ SlotAt(bs, n, i) = <<a, v>>
      BY <1>1, <2>1 DEF Full
    <3> QED
      BY <3>1
  <2>2. CASE v \notin 0 .. w.nonce[a] - 1
    <3>1. a = c /\ v = w.nonce[c]
      BY <1>2, <2>2
    <3>2. At(cs, L, k) /\ SlotAt(cs, L, k) = <<a, v>>
      BY <3>1
    <3> QED
      BY <3>2
  <2> QED
    BY <2>1, <2>2
<1> QED
  BY <1>4, <1>5, <1>6, OverPositions

----------------------------------------------------------------------------
(* Blocks and rows                                                           *)

LEMMA LoadedIsBlock ==
    ASSUME NEW row \in Rows
    PROVE  LoadedBlock(row) \in HeadBlocks /\ Readable(row)
<1> DEFINE S == {to_compact(t) : t \in DecodedTxs}
<1>1. /\ row.txs \in Seq(S) /\ row.callers \in Seq(Accounts)
      /\ row.receipts \in Seq(Receipts) /\ row.base_fee \in Nat
  BY DEF Rows
<1>2. Len(row.txs) \in Nat /\ \A i \in 1 .. Len(row.txs) : row.txs[i] \in S
  BY <1>1
<1>3. \A i \in 1 .. Len(row.txs) :
        from_compact(row.txs[i]).ok /\ from_compact(row.txs[i]).val \in DecodedTxs
  BY <1>2, StorageRoundTrip DEF Ok
<1>4. [i \in 1 .. Len(row.txs) |-> from_compact(row.txs[i]).val] \in Seq(DecodedTxs)
  BY <1>2, <1>3
<1> QED
  BY <1>1, <1>3, <1>4 DEF LoadedBlock, HeadBlocks, Readable

LEMMA StoredIsRow ==
    ASSUME NEW b \in HeadBlocks
    PROVE  StoredBlock(b) \in Rows /\ LoadedBlock(StoredBlock(b)) = b
<1> DEFINE row == StoredBlock(b)
<1>1. /\ b.txs \in Seq(DecodedTxs) /\ b.callers \in Seq(Accounts)
      /\ b.receipts \in Seq(Receipts) /\ b.base_fee \in Nat
      /\ b = [txs |-> b.txs, callers |-> b.callers, receipts |-> b.receipts,
              base_fee |-> b.base_fee]
  BY DEF HeadBlocks
<1>2. /\ Len(b.txs) \in Nat
      /\ \A i \in 1 .. Len(b.txs) : b.txs[i] \in DecodedTxs
      /\ b.txs = [i \in 1 .. Len(b.txs) |-> b.txs[i]]
  BY <1>1
<1>3. /\ row.txs = [i \in 1 .. Len(b.txs) |-> to_compact(b.txs[i])]
      /\ row.callers = b.callers /\ row.receipts = b.receipts /\ row.base_fee = b.base_fee
  BY DEF StoredBlock
<1>4. row.txs \in Seq({to_compact(t) : t \in DecodedTxs}) /\ Len(row.txs) = Len(b.txs)
  BY <1>2, <1>3
<1>5. row \in Rows
  BY <1>1, <1>3, <1>4 DEF Rows, StoredBlock
<1>6. \A i \in 1 .. Len(b.txs) : from_compact(row.txs[i]).val = b.txs[i]
  BY <1>2, <1>3, StorageRoundTrip DEF Ok
<1>7. [i \in 1 .. Len(row.txs) |-> from_compact(row.txs[i]).val] = b.txs
  BY <1>2, <1>4, <1>6
<1>8. LoadedBlock(row) = b
  BY <1>1, <1>3, <1>7 DEF LoadedBlock
<1> QED
  BY <1>5, <1>8

----------------------------------------------------------------------------
(* The inductive invariant                                                   *)

DbChain == [i \in 1 .. Len(db) |-> LoadedBlock(db[i])]
Prefix(n) == [i \in 1 .. n |-> head[i]]
WithJob == [i \in 1 .. Len(head) + 1 |-> IF i <= Len(head) THEN head[i] ELSE job]

\* Memory is empty while the process is down.
DownEmpty == mode = "down" => head = <<>> /\ worlds = <<GenesisWorld>> /\ job = NoJob

\* The disk holds authorised blocks, and the state that goes with them.
DiskGood == /\ \A i \in 1 .. Len(db) : AllActFor(LoadedBlock(db[i]))
            /\ Disciplined(DbChain, dbworld)

\* The disk is a prefix of memory; an import leaves nothing unwritten.
DiskBehind ==
    mode # "down" =>
        /\ Len(db) <= Len(head)
        /\ \A i \in 1 .. Len(db) : LoadedBlock(db[i]) = head[i]
        /\ mode = "import" => Len(db) = Len(head)

\* Every state that may still be written goes with its prefix of the chain.
StatesGood ==
    mode # "down" => \A n \in Len(db) .. Len(head) : Disciplined(Prefix(n), worlds[n + 1])

\* The block at hand: what it executed so far is authorised, continues the chain, and
\* it is validated only on the right genesis.
JobGood ==
    Busy => /\ AllActFor(job)
            /\ Disciplined(WithJob, job.world)
            /\ job.validated => spec = GENESIS_HASH

IInv == /\ TypeOK /\ AuthorizedHistory /\ ForeignGenesisFrozen
        /\ DownEmpty /\ DiskGood /\ DiskBehind /\ StatesGood /\ JobGood

LEMMA GenesisDisciplined ==
    ASSUME NEW bs, Len(bs) = 0
    PROVE  Disciplined(bs, GenesisWorld)
  BY DEF Disciplined, OneSlotOnce, NoncesUsed, NoGap, GenesisWorld

LEMMA GenesisTyped == GenesisWorld \in Worlds
  BY EvmAssumption DEF GenesisWorld, Worlds

LEMMA InitIInv == Init => IInv
<1> SUFFICES ASSUME Init PROVE IInv
  OBVIOUS
<1> USE DEF Init
<1>1. TypeOK
  BY GenesisTyped, ChainAssumption DEF TypeOK
<1>2. AuthorizedHistory /\ ForeignGenesisFrozen /\ DownEmpty /\ DiskBehind /\ StatesGood
  BY DEF AuthorizedHistory, ForeignGenesisFrozen, DownEmpty, DiskBehind, StatesGood
<1>3. DiskGood
  BY GenesisDisciplined DEF DiskGood, DbChain
<1>4. JobGood
  BY DEF JobGood, Busy, NoJob
<1> QED
  BY <1>1, <1>2, <1>3, <1>4 DEF IInv

----------------------------------------------------------------------------
(* One step per action                                                       *)

LEMMA BusyJob ==
    ASSUME TypeOK
    PROVE  /\ Busy <=> job # NoJob
           /\ Busy => /\ job \in Jobs
                      /\ Len(job.callers) = Len(job.txs) /\ Len(job.receipts) = Len(job.txs)
                      /\ Len(job.txs) <= Len(job.block.txs)
                      /\ mode = IF job.path = "engine" THEN "node" ELSE "import"
                      /\ Len(head) < MaxHeight
  BY DEF TypeOK, Busy, NoJob, Jobs

\* The five ways of giving up a block, and of going on, that touch only the job.
LEMMA RejectKeeps ==
    ASSUME IInv, Reject
    PROVE  IInv'
<1> USE DEF IInv, Reject
<1>1. TypeOK'
  BY DEF TypeOK
<1>2. AuthorizedHistory' /\ ForeignGenesisFrozen' /\ DownEmpty' /\ DiskBehind'
  BY DEF AuthorizedHistory, ForeignGenesisFrozen, DownEmpty, DiskBehind
<1>3. StatesGood'
  BY DEF StatesGood, Prefix
<1>4. DiskGood'
  BY DEF DiskGood, DbChain
<1>5. JobGood'
  BY DEF JobGood, Busy, NoJob
<1> QED
  BY <1>1, <1>2, <1>3, <1>4, <1>5

LEMMA ValidateKeeps ==
    ASSUME IInv, Validate
    PROVE  IInv'
<1> USE DEF IInv, Validate
<1>0. job \in Jobs /\ Busy
  BY BusyJob
<1>1. /\ job' \in Jobs /\ Busy' /\ job'.txs = job.txs /\ job'.callers = job.callers
      /\ job'.receipts = job.receipts /\ job'.world = job.world /\ job'.block = job.block
      /\ job'.path = job.path /\ job'.validated = TRUE
  BY <1>0 DEF Jobs, Busy
<1>2. TypeOK'
  BY <1>1, BusyJob DEF TypeOK
<1>3. AuthorizedHistory' /\ ForeignGenesisFrozen' /\ DiskBehind'
  BY DEF AuthorizedHistory, ForeignGenesisFrozen, DiskBehind
<1>4. DownEmpty'
  BY <1>0, BusyJob DEF DownEmpty
<1>5. StatesGood'
  BY DEF StatesGood, Prefix
<1>6. DiskGood'
  BY DEF DiskGood, DbChain
<1>7. JobGood'
  <2>1. AllActFor(job)'
    BY <1>0, <1>1 DEF JobGood, AllActFor
  <2>2. Disciplined(WithJob', job.world)
    <3> DEFINE bs == WithJob
               cs == WithJob'
    <3>1. Disciplined(bs, job.world) /\ Len(head) \in Nat
      BY <1>0 DEF JobGood, TypeOK
    <3>2. Len(bs) = Len(head) + 1 /\ Len(cs) = Len(head) + 1
      BY <3>1 DEF WithJob
    <3>3. \A n \in 1 .. Len(head) + 1 : cs[n].txs = bs[n].txs /\ cs[n].callers = bs[n].callers
      BY <1>1, <3>1 DEF WithJob
    <3> HIDE DEF bs, cs
    <3>4. \A n, i : At(cs, n, i) <=> At(bs, n, i)
      BY <3>2, <3>3 DEF At
    <3>5. \A n, i : At(bs, n, i) => SlotAt(cs, n, i) = SlotAt(bs, n, i)
      BY <3>2, <3>3 DEF At, SlotAt
    <3>6. Disciplined(cs, job.world)
      BY <3>1, <3>4, <3>5, SameSlots
    <3> QED
      BY <3>6 DEF cs
  <2>3. spec' = GENESIS_HASH
    BY DEF PreExecutionOk, verify_authorizations
  <2> QED
    BY <1>1, <2>1, <2>2, <2>3 DEF JobGood
<1> QED
  BY <1>2, <1>3, <1>4, <1>5, <1>6, <1>7

LEMMA OpenKeeps ==
    ASSUME IInv, NEW m \in {"node", "import"}, Open(m)
    PROVE  IInv'
<1> USE DEF IInv, Open
<1>0. job = NoJob /\ job' = NoJob /\ Len(db) \in Nat
  BY DEF DownEmpty, TypeOK
<1>1. head' \in Seq(HeadBlocks) /\ Len(head') = Len(db)
  <2>1. \A i \in 1 .. Len(db) : LoadedBlock(db[i]) \in HeadBlocks
    BY LoadedIsBlock DEF TypeOK
  <2> QED
    BY <1>0, <2>1
<1>2. worlds' \in Seq(Worlds) /\ Len(worlds') = Len(db) + 1
  BY <1>0 DEF TypeOK
<1>3. TypeOK'
  BY <1>0, <1>1, <1>2 DEF TypeOK
<1>4. AuthorizedHistory' /\ DownEmpty' /\ DiskBehind'
  BY <1>0, <1>1 DEF AuthorizedHistory, DownEmpty, DiskBehind, DiskGood
<1>5. ForeignGenesisFrozen'
  BY <1>0, <1>1 DEF ForeignGenesisFrozen
<1>6. StatesGood'
  <2> SUFFICES ASSUME NEW n \in Len(db) .. Len(db)
               PROVE  Disciplined(Prefix(n)', worlds'[n + 1])
    BY <1>1 DEF StatesGood
  <2>1. n = Len(db)
    BY <1>0
  <2>2. worlds'[n + 1] = dbworld
    BY <1>0, <2>1
  <2>3. Prefix(n)' = DbChain
    BY <1>0, <2>1 DEF Prefix, DbChain
  <2> QED
    BY <2>2, <2>3 DEF DiskGood
<1>7. DiskGood'
  BY DEF DiskGood, DbChain
<1>8. JobGood'
  BY <1>0 DEF JobGood, Busy, NoJob
<1> QED
  BY <1>3, <1>4, <1>5, <1>6, <1>7, <1>8

LEMMA HaltKeeps ==
    ASSUME IInv, Halt
    PROVE  IInv'
<1> USE DEF IInv, Halt
<1>1. TypeOK'
  BY GenesisTyped, ChainAssumption DEF TypeOK
<1>2. AuthorizedHistory' /\ ForeignGenesisFrozen' /\ DownEmpty' /\ DiskBehind' /\ StatesGood'
  BY DEF AuthorizedHistory, ForeignGenesisFrozen, DownEmpty, DiskBehind, StatesGood
<1>3. DiskGood'
  BY DEF DiskGood, DbChain
<1>4. JobGood'
  BY DEF JobGood, Busy, NoJob
<1> QED
  BY <1>1, <1>2, <1>3, <1>4

LEMMA PersistKeeps ==
    ASSUME IInv, NEW n \in 1 .. MaxHeight, Persist(n)
    PROVE  IInv'
<1> USE DEF IInv, Persist
<1>0. /\ Len(db) \in Nat /\ Len(head) \in Nat /\ n \in Nat /\ Len(db) < n /\ n <= Len(head)
      /\ Len(head) <= MaxHeight /\ MaxHeight \in Nat
  BY ChainAssumption DEF TypeOK
<1>1. Len(db') = n
  BY <1>0
<1>2. \A i \in 1 .. n : db'[i] \in Rows /\ LoadedBlock(db'[i]) = head[i]
  <2> SUFFICES ASSUME NEW i \in 1 .. n
               PROVE  db'[i] \in Rows /\ LoadedBlock(db'[i]) = head[i]
    OBVIOUS
  <2>1. CASE i <= Len(db)
    BY <1>0, <2>1 DEF TypeOK, DiskBehind
  <2>2. CASE ~ (i <= Len(db))
    <3>1. head[i] \in HeadBlocks
      BY <1>0 DEF TypeOK
    <3>2. db'[i] = StoredBlock(head[i])
      BY <1>0, <2>2
    <3> QED
      BY <3>1, <3>2, StoredIsRow
  <2> QED
    BY <2>1, <2>2
<1>3. db' \in Seq(Rows)
  BY <1>0, <1>2
<1>4. worlds[n + 1] \in Worlds
  BY <1>0 DEF TypeOK
<1>5. TypeOK'
  BY <1>0, <1>1, <1>3, <1>4 DEF TypeOK
<1>6. AuthorizedHistory' /\ DownEmpty'
  BY DEF AuthorizedHistory, DownEmpty
<1>7. ForeignGenesisFrozen'
  BY <1>0 DEF ForeignGenesisFrozen
<1>8. DiskBehind'
  BY <1>0, <1>1, <1>2 DEF DiskBehind
<1>9. StatesGood'
  BY <1>0, <1>1 DEF StatesGood, Prefix
<1>10. DiskGood'
  <2>1. \A i \in 1 .. Len(db') : AllActFor(LoadedBlock(db'[i]))
    BY <1>0, <1>1, <1>2 DEF AuthorizedHistory
  <2>2. DbChain' = Prefix(n)
    BY <1>1, <1>2 DEF DbChain, Prefix
  <2>3. Disciplined(Prefix(n), worlds[n + 1])
    BY <1>0 DEF StatesGood
  <2> QED
    BY <2>1, <2>2, <2>3 DEF DiskGood
<1>11. JobGood'
  BY DEF JobGood, Busy, WithJob, AllActFor
<1> QED
  BY <1>5, <1>6, <1>7, <1>8, <1>9, <1>10, <1>11

LEMMA SubmitKeeps ==
    ASSUME IInv, NEW b \in Blocks, Submit(b)
    PROVE  IInv'
<1> USE DEF IInv, Submit
<1>0. Len(head) \in Nat /\ Len(worlds) = Len(head) + 1 /\ world \in Worlds
  BY DEF TypeOK, world
<1>1. /\ job'.txs = <<>> /\ job'.callers = <<>> /\ job'.receipts = <<>>
      /\ job'.world = world /\ job'.block = b /\ job'.validated = FALSE
      /\ job'.path = IF mode = "node" THEN "engine" ELSE "import"
      /\ job'.path \in {"engine", "import"}
  OBVIOUS
<1>2. job' \in Jobs
  BY <1>0 DEF Jobs
<1>3. Busy' /\ Len(b.txs) \in Nat
  BY <1>1, ChainAssumption DEF Busy
<1>4. TypeOK'
  <2>1. mode' = IF job'.path = "engine" THEN "node" ELSE "import"
    BY <1>1 DEF TypeOK
  <2> QED
    BY <1>1, <1>2, <1>3, <2>1 DEF TypeOK
<1>5. AuthorizedHistory' /\ ForeignGenesisFrozen' /\ DownEmpty' /\ DiskBehind'
  BY DEF AuthorizedHistory, ForeignGenesisFrozen, DownEmpty, DiskBehind
<1>6. StatesGood'
  BY DEF StatesGood, Prefix
<1>7. DiskGood'
  BY DEF DiskGood, DbChain
<1>8. JobGood'
  <2>1. AllActFor(job)'
    BY <1>1 DEF AllActFor
  <2>2. Disciplined(WithJob', world)
    <3> DEFINE bs == Prefix(Len(head))
               cs == WithJob'
    <3>1. Disciplined(bs, world)
      <4>1. Len(head) \in Len(db) .. Len(head)
        BY <1>0 DEF DiskBehind, TypeOK
      <4>2. Disciplined(bs, worlds[Len(head) + 1])
        BY <4>1 DEF StatesGood
      <4> QED
        BY <1>0, <4>2 DEF world
    <3>2. Len(bs) = Len(head) /\ Len(cs) = Len(head) + 1
      BY <1>0 DEF Prefix, WithJob
    <3>3. \A i \in 1 .. Len(head) : cs[i] = bs[i]
      BY <1>0 DEF Prefix, WithJob
    <3>4. cs[Len(head) + 1].txs = <<>>
      BY <1>0, <1>1 DEF WithJob
    <3> HIDE DEF bs, cs
    <3>5. Disciplined(cs, world)
      BY <1>0, <3>1, <3>2, <3>3, <3>4, EmptyBlockKeeps
    <3> QED
      BY <3>5 DEF cs
  <2> QED
    BY <1>1, <2>1, <2>2 DEF JobGood
<1> QED
  BY <1>4, <1>5, <1>6, <1>7, <1>8

LEMMA ExecuteNextKeeps ==
    ASSUME IInv, ExecuteNext
    PROVE  IInv'
<1> USE DEF IInv
<1>0. Busy /\ job \in Jobs /\ Len(job.txs) < Len(job.block.txs) /\ NextAttempt.ok
  BY BusyJob DEF ExecuteNext, Ready
<1> DEFINE k == Len(job.txs)
           tx == NextAttempt.val.tx
           env == NextAttempt.val.env
           gas == job.gas + GasUsed(env)
           fee == job.block.base_fee
<1>1. /\ k \in Nat /\ Len(job.callers) = k /\ Len(job.receipts) = k /\ fee \in Nat
      /\ job.world \in Worlds /\ job.gas \in Nat
      /\ job.txs \in Seq(DecodedTxs) /\ job.callers \in Seq(Accounts)
      /\ job.receipts \in Seq(Receipts)
  BY <1>0, BusyJob, ChainAssumption DEF Jobs
<1>2. NextRaw \in SubmittedRaws
  <2>1. job.block.txs \in Seq(SubmittedRaws)
    BY <1>0, ChainAssumption DEF Jobs
  <2> QED
    BY <1>0, <1>1, <2>1 DEF NextRaw
<1>3. /\ tx \in DecodedTxs /\ GoodEnv(env) /\ ActsFor(tx, env.caller)
      /\ Fields(tx).nonce = job.world.nonce[env.caller]
  BY <1>0, <1>1, <1>2, AttemptFacts DEF NextAttempt
<1>4. /\ Applied(env, job.world, fee) \in Worlds /\ GasUsed(env) \in Nat
      /\ Applied(env, job.world, fee).nonce = [job.world.nonce EXCEPT ![env.caller] = @ + 1]
  BY <1>1, <1>3, AppliedFacts
<1>5. build_receipt(tx, env, gas) \in Receipts
  <2>1. ty(tx) \in EthereumTypes \cup {TX_TYPE} /\ gas \in Nat /\ Succeeds(env) \in BOOLEAN
    BY <1>1, <1>3, <1>4, TxFields DEF Succeeds
  <2> QED
    BY <2>1 DEF build_receipt, Receipts
<1>6. /\ job' = [job EXCEPT !.txs = Append(@, tx), !.callers = Append(@, env.caller),
                   !.receipts = Append(@, build_receipt(tx, env, gas)), !.gas = gas,
                   !.world = Applied(env, @, fee)]
      /\ UNCHANGED <<mode, spec, head, worlds, db, dbworld>>
  BY DEF ExecuteNext
<1> HIDE DEF tx, env, gas, fee
<1>7. /\ job'.txs = Append(job.txs, tx) /\ job'.callers = Append(job.callers, env.caller)
      /\ job'.receipts = Append(job.receipts, build_receipt(tx, env, gas))
      /\ job'.gas = gas /\ job'.world = Applied(env, job.world, fee)
      /\ job'.block = job.block /\ job'.path = job.path /\ job'.validated = job.validated
  BY <1>0, <1>6 DEF Jobs
<1>8. /\ Len(job'.txs) = k + 1 /\ Len(job'.callers) = k + 1 /\ Len(job'.receipts) = k + 1
      /\ \A i \in 1 .. k : job'.txs[i] = job.txs[i] /\ job'.callers[i] = job.callers[i]
      /\ job'.txs[k + 1] = tx /\ job'.callers[k + 1] = env.caller
      /\ env.caller \in Accounts
  <2>1. env.caller \in Accounts
    BY <1>3 DEF GoodEnv
  <2>2. /\ Len(job'.txs) = k + 1 /\ job'.txs[k + 1] = tx
        /\ \A i \in 1 .. k : job'.txs[i] = job.txs[i]
    BY <1>1, <1>3, <1>7
  <2>3. /\ Len(job'.callers) = k + 1 /\ job'.callers[k + 1] = env.caller
        /\ \A i \in 1 .. k : job'.callers[i] = job.callers[i]
    BY <1>1, <1>7, <2>1
  <2>4. Len(job'.receipts) = k + 1
    BY <1>1, <1>5, <1>7
  <2> QED
    BY <2>1, <2>2, <2>3, <2>4
<1>9. job' \in Jobs
  <2>1. gas \in Nat
    BY <1>1, <1>4 DEF gas
  <2>2. /\ Append(job.txs, tx) \in Seq(DecodedTxs)
        /\ Append(job.callers, env.caller) \in Seq(Accounts)
        /\ Append(job.receipts, build_receipt(tx, env, gas)) \in Seq(Receipts)
    BY <1>1, <1>3, <1>5, <1>8
  <2> QED
    BY <1>0, <1>4, <1>6, <2>1, <2>2 DEF Jobs
<1>10. Busy'
  BY <1>9 DEF Busy, Jobs
<1>11. TypeOK'
  <2>1. Len(job.block.txs) \in Nat
    BY <1>0, ChainAssumption DEF Jobs
  <2>2. Len(job'.txs) <= Len(job'.block.txs)
    BY <1>0, <1>1, <1>7, <1>8, <2>1
  <2>3. mode = (IF job.path = "engine" THEN "node" ELSE "import") /\ Len(head) < MaxHeight
    BY <1>0, BusyJob
  <2> QED
    BY <1>6, <1>7, <1>8, <1>9, <2>2, <2>3 DEF TypeOK
<1>12. AuthorizedHistory' /\ ForeignGenesisFrozen' /\ DiskBehind'
  BY <1>6 DEF AuthorizedHistory, ForeignGenesisFrozen, DiskBehind
<1>13. DownEmpty'
  BY <1>0, <1>6, BusyJob DEF DownEmpty
<1>14. StatesGood' /\ DiskGood'
  BY <1>6 DEF StatesGood, Prefix, DiskGood, DbChain
<1>15. JobGood'
  <2>1. AllActFor(job)'
    <3>1. \A i \in 1 .. k : ActsFor(job.txs[i], job.callers[i])
      BY <1>0 DEF JobGood, AllActFor
    <3>2. \A i \in 1 .. k + 1 : ActsFor(job'.txs[i], job'.callers[i])
      <4> SUFFICES ASSUME NEW i \in 1 .. k + 1 PROVE ActsFor(job'.txs[i], job'.callers[i])
        OBVIOUS
      <4>1. CASE i \in 1 .. k
        BY <1>8, <3>1, <4>1
      <4>2. CASE i = k + 1
        BY <1>3, <1>8, <4>2
      <4> QED
        BY <1>1, <4>1, <4>2
    <3> QED
      BY <1>8, <3>2 DEF AllActFor
  <2>2. Disciplined(WithJob', job'.world)
    <3> DEFINE bs == WithJob
               cs == WithJob'
               L == Len(head) + 1
               w == job.world
               c == env.caller
    <3>1. Disciplined(bs, w) /\ Len(head) \in Nat
      BY <1>0 DEF JobGood, TypeOK
    <3>2. Len(bs) = L /\ Len(cs) = L /\ bs[L] = job /\ cs[L] = job' /\ L \in Nat
      BY <1>6, <3>1 DEF WithJob
    <3>3. \A n \in 1 .. L : n # L => bs[n] = head[n] /\ cs[n] = head[n] /\ n \in 1 .. Len(head)
      BY <1>6, <3>1 DEF WithJob
    <3> HIDE DEF bs, cs
    <3>4. \A n, i : At(cs, n, i) <=> At(bs, n, i) \/ (n = L /\ i = k + 1)
      <4> SUFFICES ASSUME NEW n, NEW i
                   PROVE  At(cs, n, i) <=> At(bs, n, i) \/ (n = L /\ i = k + 1)
        OBVIOUS
      <4>1. CASE n = L
        BY <1>1, <1>8, <3>2, <4>1 DEF At
      <4>2. CASE n # L
        BY <3>2, <3>3, <4>2 DEF At
      <4> QED
        BY <4>1, <4>2
    <3>5. \A n, i : At(bs, n, i) => /\ SlotAt(cs, n, i) = SlotAt(bs, n, i)
                                    /\ SlotAt(bs, n, i)[1] \in Accounts
                                    /\ SlotAt(bs, n, i)[2] \in Nat
      <4> SUFFICES ASSUME NEW n, NEW i, At(bs, n, i)
                   PROVE  /\ SlotAt(cs, n, i) = SlotAt(bs, n, i)
                          /\ bs[n].callers[i] \in Accounts
                          /\ Fields(bs[n].txs[i]).nonce \in Nat
        BY DEF SlotAt
      <4>0. n \in 1 .. L /\ i \in 1 .. Len(bs[n].txs)
        BY <3>2 DEF At
      <4>1. CASE n = L
        <5>1. i \in 1 .. k /\ job.txs[i] \in DecodedTxs /\ job.callers[i] \in Accounts
          BY <1>1, <3>2, <4>0, <4>1
        <5> QED
          BY <1>8, <3>2, <4>1, <5>1, TxFields DEF SlotAt, ChainFields
      <4>2. CASE n # L
        <5>1. bs[n] = head[n] /\ cs[n] = head[n] /\ head[n] \in HeadBlocks
          BY <3>3, <4>0, <4>2 DEF TypeOK
        <5>2. Len(head[n].callers) = Len(head[n].txs)
          BY <3>3, <4>0, <4>2 DEF AuthorizedHistory, AllActFor
        <5>3. head[n].txs[i] \in DecodedTxs /\ head[n].callers[i] \in Accounts
          BY <4>0, <5>1, <5>2 DEF HeadBlocks
        <5> QED
          BY <5>1, <5>3, TxFields DEF SlotAt, ChainFields
      <4> QED
        BY <4>1, <4>2
    <3>6. SlotAt(cs, L, k + 1) = <<c, w.nonce[c]>>
      BY <1>3, <1>8, <3>2 DEF SlotAt
    <3>7. w.nonce \in [Accounts -> Nat] /\ job'.world.nonce = [w.nonce EXCEPT ![c] = @ + 1]
      BY <1>1, <1>4, <1>7 DEF Worlds
    <3>8. Disciplined(cs, job'.world)
      <4> DEFINE w2 == job'.world
                 K == k + 1
      <4>1. /\ c \in Accounts
            /\ \A n, i : At(cs, n, i) <=> At(bs, n, i) \/ (n = L /\ i = K)
            /\ SlotAt(cs, L, K) = <<c, w.nonce[c]>>
            /\ w.nonce \in [Accounts -> Nat] /\ w2.nonce = [w.nonce EXCEPT ![c] = @ + 1]
        BY <1>8, <3>4, <3>6, <3>7
      <4> HIDE DEF L, w, c, k, w2, K
      <4>2. Disciplined(cs, w2)
        BY <3>1, <3>5, <4>1, ExecuteKeeps
      <4> QED
        BY <4>2 DEF w2
    <3> QED
      BY <3>8 DEF cs
  <2>3. job'.validated => spec' = GENESIS_HASH
    BY <1>0, <1>6, <1>7 DEF JobGood
  <2> QED
    BY <2>1, <2>2, <2>3 DEF JobGood
<1> QED
  BY <1>11, <1>12, <1>13, <1>14, <1>15

LEMMA CommitKeeps ==
    ASSUME IInv, Commit
    PROVE  IInv'
<1> USE DEF IInv
<1>0. /\ Busy /\ job \in Jobs /\ job.validated /\ mode # "down" /\ Len(head) < MaxHeight
      /\ mode = IF job.path = "engine" THEN "node" ELSE "import"
  BY BusyJob DEF Commit, Executed
<1> DEFINE h == Len(head)
           b == [txs |-> job.txs, callers |-> job.callers, receipts |-> job.receipts,
                 base_fee |-> job.block.base_fee]
<1>1. /\ h \in Nat /\ MaxHeight \in Nat /\ Len(worlds) = h + 1 /\ Len(db) \in Nat
      /\ Len(db) <= h /\ head \in Seq(HeadBlocks) /\ worlds \in Seq(Worlds)
      /\ job.world \in Worlds
  BY <1>0, ChainAssumption DEF TypeOK, DiskBehind, Jobs
<1>2. b \in HeadBlocks
  BY <1>0, ChainAssumption DEF HeadBlocks, Jobs
<1>3. /\ head' = Append(head, b) /\ worlds' = Append(worlds, job.world)
      /\ job' = NoJob /\ mode' = mode /\ spec' = spec
      /\ IF job.path = "import"
         THEN db' = Append(db, StoredBlock(b)) /\ dbworld' = job.world
         ELSE db' = db /\ dbworld' = dbworld
  BY DEF Commit
<1>4. b.txs = job.txs /\ b.callers = job.callers
  OBVIOUS
<1> HIDE DEF b
<1>5. /\ head' \in Seq(HeadBlocks) /\ Len(head') = h + 1 /\ head'[h + 1] = b
      /\ \A i \in 1 .. h : head'[i] = head[i]
  BY <1>1, <1>2, <1>3
<1>6. /\ worlds' \in Seq(Worlds) /\ Len(worlds') = h + 2 /\ worlds'[h + 2] = job.world
      /\ \A i \in 1 .. h + 1 : worlds'[i] = worlds[i]
  BY <1>1, <1>3
<1>7. StoredBlock(b) \in Rows /\ LoadedBlock(StoredBlock(b)) = b
  BY <1>2, StoredIsRow
<1>8. AllActFor(b)
  BY <1>0, <1>4 DEF JobGood, AllActFor
<1>9. spec = GENESIS_HASH
  BY <1>0 DEF JobGood
\* The chain with the new block is disciplined.
<1>10. ASSUME NEW m, m = h + 1 PROVE Disciplined(Prefix(m)', job.world)
  <2> DEFINE bs == WithJob
             cs == Prefix(m)'
  <2>1. Disciplined(bs, job.world)
    BY <1>0 DEF JobGood
  <2>2. Len(bs) = h + 1 /\ Len(cs) = h + 1
    BY <1>1, <1>10 DEF WithJob, Prefix
  <2>3. \A n \in 1 .. h + 1 : cs[n].txs = bs[n].txs /\ cs[n].callers = bs[n].callers
    <3> SUFFICES ASSUME NEW n \in 1 .. h + 1
                 PROVE  cs[n].txs = bs[n].txs /\ cs[n].callers = bs[n].callers
      OBVIOUS
    <3>1. CASE n \in 1 .. h
      BY <1>1, <1>5, <1>10, <3>1 DEF WithJob, Prefix
    <3>2. CASE n = h + 1
      BY <1>1, <1>4, <1>5, <1>10, <3>2 DEF WithJob, Prefix
    <3> QED
      BY <1>1, <3>1, <3>2
  <2> HIDE DEF bs, cs
  <2>4. \A n, i : At(cs, n, i) <=> At(bs, n, i)
    BY <2>2, <2>3 DEF At
  <2>5. \A n, i : At(bs, n, i) => SlotAt(cs, n, i) = SlotAt(bs, n, i)
    BY <2>2, <2>3 DEF At, SlotAt
  <2>6. Disciplined(cs, job.world)
    BY <2>1, <2>4, <2>5, SameSlots
  <2> QED
    BY <2>6 DEF cs
<1>11. CASE job.path = "engine"
  <2>1. db' = db /\ dbworld' = dbworld /\ mode = "node"
    BY <1>0, <1>3, <1>11
  <2>2. TypeOK'
    BY <1>0, <1>1, <1>3, <1>5, <1>6, <2>1 DEF TypeOK
  <2>3. AuthorizedHistory'
    BY <1>1, <1>5, <1>8 DEF AuthorizedHistory
  <2>4. ForeignGenesisFrozen' /\ DownEmpty'
    BY <1>0, <1>3, <1>9 DEF ForeignGenesisFrozen, DownEmpty
  <2>5. DiskGood'
    BY <2>1 DEF DiskGood, DbChain
  <2>6. DiskBehind'
    BY <1>1, <1>3, <1>5, <2>1 DEF DiskBehind
  <2>7. StatesGood'
    <3> SUFFICES ASSUME NEW n \in Len(db) .. h + 1
                 PROVE  Disciplined(Prefix(n)', worlds'[n + 1])
      BY <1>5, <2>1 DEF StatesGood
    <3>1. CASE n = h + 1
      BY <1>1, <1>6, <1>10, <3>1
    <3>2. CASE n # h + 1
      <4>1. n \in Len(db) .. h /\ n \in Nat /\ worlds'[n + 1] = worlds[n + 1]
        BY <1>1, <1>6, <3>2
      <4>2. Prefix(n)' = Prefix(n)
        BY <1>1, <1>5, <4>1 DEF Prefix
      <4> QED
        BY <1>0, <4>1, <4>2 DEF StatesGood
    <3> QED
      BY <3>1, <3>2
  <2>8. JobGood'
    BY <1>3 DEF JobGood, Busy, NoJob
  <2> QED
    BY <2>2, <2>3, <2>4, <2>5, <2>6, <2>7, <2>8
<1>12. CASE job.path = "import"
  <2>1. /\ db' = Append(db, StoredBlock(b)) /\ dbworld' = job.world /\ mode = "import"
        /\ Len(db) = h
    BY <1>0, <1>3, <1>12 DEF DiskBehind
  <2>2. /\ db' \in Seq(Rows) /\ Len(db') = h + 1 /\ db'[h + 1] = StoredBlock(b)
        /\ \A i \in 1 .. h : db'[i] = db[i]
    BY <1>7, <2>1 DEF TypeOK
  <2>3. TypeOK'
    BY <1>0, <1>1, <1>3, <1>5, <1>6, <2>1, <2>2 DEF TypeOK
  <2>4. AuthorizedHistory'
    BY <1>1, <1>5, <1>8 DEF AuthorizedHistory
  <2>5. ForeignGenesisFrozen' /\ DownEmpty'
    BY <1>0, <1>3, <1>9 DEF ForeignGenesisFrozen, DownEmpty
  <2>6. \A i \in 1 .. h + 1 : LoadedBlock(db'[i]) = head'[i]
    <3> SUFFICES ASSUME NEW i \in 1 .. h + 1 PROVE LoadedBlock(db'[i]) = head'[i]
      OBVIOUS
    <3>1. CASE i \in 1 .. h
      BY <1>0, <1>5, <2>1, <2>2, <3>1 DEF DiskBehind
    <3>2. CASE i = h + 1
      BY <1>5, <1>7, <2>2, <3>2
    <3> QED
      BY <1>1, <3>1, <3>2
  <2>7. DiskBehind'
    BY <1>3, <1>5, <2>2, <2>6, <1>1 DEF DiskBehind
  <2>8. ASSUME NEW m, m = h + 1 PROVE DbChain' = Prefix(m)'
    BY <1>1, <2>2, <2>6, <2>8 DEF DbChain, Prefix
  <2>9. DiskGood'
    <3>1. \A i \in 1 .. Len(db') : AllActFor(LoadedBlock(db'[i]))
      BY <1>5, <2>2, <2>4, <2>6 DEF AuthorizedHistory
    <3> QED
      BY <1>10, <2>1, <2>8, <3>1 DEF DiskGood
  <2>10. StatesGood'
    <3> SUFFICES ASSUME NEW n \in h + 1 .. h + 1
                 PROVE  Disciplined(Prefix(n)', worlds'[n + 1])
      BY <1>5, <2>2 DEF StatesGood
    <3>1. n = h + 1 /\ n + 1 = h + 2
      BY <1>1
    <3> QED
      BY <1>6, <1>10, <3>1
  <2>11. JobGood'
    BY <1>3 DEF JobGood, Busy, NoJob
  <2> QED
    BY <2>3, <2>4, <2>5, <2>7, <2>9, <2>10, <2>11
<1> QED
  BY <1>0, <1>11, <1>12 DEF Jobs

----------------------------------------------------------------------------
(* Theorems                                                                  *)

LEMMA NextKeeps == IInv /\ [Next]_vars => IInv'
<1> SUFFICES ASSUME IInv, [Next]_vars PROVE IInv'
  OBVIOUS
<1>1. CASE StartNode
  BY <1>1, OpenKeeps DEF StartNode
<1>2. CASE StartImport
  BY <1>2, OpenKeeps DEF StartImport
<1>3. CASE Halt
  BY <1>3, HaltKeeps
<1>4. CASE \E n \in 1 .. MaxHeight : Persist(n)
  BY <1>4, PersistKeeps
<1>5. CASE \E b \in Blocks : Submit(b)
  BY <1>5, SubmitKeeps
<1>6. CASE Validate
  BY <1>6, ValidateKeeps
<1>7. CASE ValidateFails \/ ExecuteFails \/ CommitFails
  BY <1>7, RejectKeeps DEF ValidateFails, ExecuteFails, CommitFails
<1>8. CASE ExecuteNext
  BY <1>8, ExecuteNextKeeps
<1>9. CASE Commit
  BY <1>9, CommitKeeps
<1>10. CASE UNCHANGED vars
  <2> USE <1>10 DEF vars
  <2>1. TypeOK' /\ AuthorizedHistory' /\ ForeignGenesisFrozen' /\ DownEmpty' /\ DiskBehind'
    BY DEF IInv, TypeOK, AuthorizedHistory, ForeignGenesisFrozen, DownEmpty, DiskBehind
  <2>2. DiskGood' /\ StatesGood'
    BY DEF IInv, DiskGood, DbChain, StatesGood, Prefix
  <2>3. JobGood'
    BY DEF IInv, JobGood, Busy, WithJob
  <2> QED
    BY <2>1, <2>2, <2>3 DEF IInv
<1> QED
  BY <1>1, <1>2, <1>3, <1>4, <1>5, <1>6, <1>7, <1>8, <1>9, <1>10 DEF Next

LEMMA Invariance == Spec => []IInv
  BY InitIInv, NextKeeps, PTL DEF Spec

\* Every component of the state keeps its type, whatever blocks arrive and whenever
\* the process stops.
THEOREM TypeCorrect == Spec => []TypeOK
<1>1. IInv => TypeOK
  BY DEF IInv
<1> QED
  BY Invariance, <1>1, PTL

\* Nothing is executed into the chain, from the engine, an import or the database, that
\* the account it ran for did not authorise.
THEOREM ChainAuthorized == Spec => []AuthorizedHistory
<1>1. IInv => AuthorizedHistory
  BY DEF IInv
<1> QED
  BY Invariance, <1>1, PTL

\* The same for what a block executes before anyone has validated it.
THEOREM SpeculationAuthorized == Spec => []AuthorizedSpeculation
<1>1. IInv => AuthorizedSpeculation
  BY DEF IInv, JobGood, AuthorizedSpeculation
<1> QED
  BY Invariance, <1>1, PTL

\* No replay and no gap, across blocks, crashes, restarts and imports.
THEOREM NoncesDisciplined == Spec => []NonceDiscipline
<1>1. IInv => NonceDiscipline
  <2> SUFFICES ASSUME IInv, mode # "down" PROVE Disciplined(head, world)
    BY DEF NonceDiscipline
  <2> USE DEF IInv
  <2>1. Len(head) \in Len(db) .. Len(head) /\ Len(worlds) = Len(head) + 1 /\ Len(head) \in Nat
    BY DEF DiskBehind, TypeOK
  <2>2. Disciplined(Prefix(Len(head)), world)
    BY <2>1 DEF StatesGood, world
  <2> QED
    BY <2>1, <2>2, SameChain DEF Prefix
<1> QED
  BY Invariance, <1>1, PTL

\* The disk always decodes, to the blocks in memory.
THEOREM StorageIsFaithful == Spec => []StorageFaithful
<1>1. IInv => StorageFaithful
  <2> SUFFICES ASSUME IInv PROVE StorageFaithful
    OBVIOUS
  <2>1. \A i \in 1 .. Len(db) : Readable(db[i])
    BY LoadedIsBlock DEF IInv, TypeOK
  <2> QED
    BY <2>1 DEF StorageFaithful, IInv, DiskBehind
<1> QED
  BY Invariance, <1>1, PTL

\* A chain file with another genesis never holds a block.
THEOREM ForeignGenesisStaysEmpty == Spec => []ForeignGenesisFrozen
<1>1. IInv => ForeignGenesisFrozen
  BY DEF IInv
<1> QED
  BY Invariance, <1>1, PTL

----------------------------------------------------------------------------
(* Errors, and who pays                                                      *)

\* A transaction that is refused is refused with an error: the assertion on the caller
\* is behind a recovery that has just established it.
LEMMA RefusalIsNoPanic ==
    ASSUME NEW raw \in SubmittedRaws, NEW path, NEW w, NEW fee, NEW gas,
           ~Attempt(path, raw, w, fee, gas).ok
    PROVE  Attempt(path, raw, w, fee, gas).err # "panic"
<1> DEFINE d == decode_2718_exact(raw)
           r == Recover(path, d.val)
           env == from_recovered_tx(d.val, r.val)
           e == ValidationError(env.val, w, fee, BLOCK_GAS - gas)
           a == Attempt(path, raw, w, fee, gas)
<1>1. a = IF ~d.ok THEN d ELSE IF ~r.ok THEN r ELSE IF ~env.ok THEN env
          ELSE IF e # "none" THEN Err(e) ELSE Ok([tx |-> d.val, env |-> env.val])
  BY DEF Attempt, AttemptDecoded
<1>2. ~d.ok => d.err # "panic"
  <2>1. ~typed_decode(raw).ok => typed_decode(raw).err # "panic"
    BY DEF typed_decode, SignedOf, Ok, Err
  <2> QED
    BY <2>1 DEF decode_2718_exact, WholeInput, Ok, Err
<1>3. ~r.ok => r.err # "panic"
  <2>1. ASSUME NEW op, NEW key, NEW sig
        PROVE  LET v == verify(op, key, sig, GENESIS_HASH) IN ~v.ok => v.err # "panic"
    BY DEF verify, derive_sender, Ok, Err
  <2>2. r = EthereumRecover(d.val.tx, path = "engine") \/ r = CosmosVerify(d.val)
    BY DEF Recover, recover_signer, recover_signer_unchecked
  <2>3. ASSUME r = EthereumRecover(d.val.tx, path = "engine"), ~r.ok PROVE r.err # "panic"
    BY <2>3 DEF EthereumRecover, Ok, Err
  <2>4. ASSUME r = CosmosVerify(d.val), ~r.ok PROVE r.err # "panic"
    BY <2>1, <2>4 DEF CosmosVerify
  <2> QED
    BY <2>2, <2>3, <2>4
<1>4. ASSUME d.ok, r.ok PROVE env.ok
  <2>1. ActsFor(d.val, r.val)
    BY <1>4, RecoverFacts DEF DecodedTxs
  <2> HIDE DEF d, r
  <2> QED
    BY <2>1 DEF ActsFor, from_recovered_tx, Ok
<1>5. e # "panic"
  BY DEF ValidationError
<1> HIDE DEF d, r, env, e
<1> QED
  BY <1>1, <1>2, <1>3, <1>4, <1>5 DEF Err, Ok

\* The checks before execution include the fee cap.
LEMMA AttemptFee ==
    ASSUME NEW path, NEW raw, NEW w, NEW fee, NEW gas, Attempt(path, raw, w, fee, gas).ok
    PROVE  ~ (Attempt(path, raw, w, fee, gas).val.env.gas_price < fee)
<1> DEFINE d == decode_2718_exact(raw)
           env == from_recovered_tx(d.val, Recover(path, d.val).val)
           v == env.val
<1>1. /\ ValidationError(v, w, fee, BLOCK_GAS - gas) = "none"
      /\ Attempt(path, raw, w, fee, gas).val.env = v
  BY DEF Attempt, AttemptDecoded, Err, Ok
<1> HIDE DEF v
<1> QED
  BY <1>1 DEF ValidationError

\* Execution lowers the balance of nobody but the caller.
LEMMA OthersDoNotPay ==
    ASSUME NEW env, GoodEnv(env), NEW w \in Worlds, NEW fee \in Nat, ~ (env.gas_price < fee),
           NEW a \in Accounts, a # env.caller
    PROVE  /\ Applied(env, w, fee).balance[a] >= w.balance[a]
           /\ Applied(env, w, fee).nonce[a] = w.nonce[a]
<1> DEFINE tip == EffectiveTip(env, fee)
           g == GasUsed(env)
           value == IF Succeeds(env) THEN env.value ELSE 0
<1>1. g \in Nat
  BY AppliedFacts
<1>2. tip \in Nat
  BY DEF EffectiveTip, GoodEnv
<1>3. value \in Nat
  BY DEF GoodEnv
<1>4. Applied(env, w, fee).balance[a] =
        w.balance[a] + (0 + (IF a = env.to THEN value ELSE 0)
                          + (IF a = Beneficiary THEN g * tip ELSE 0))
  BY DEF Applied
<1>5. w.balance[a] \in Int
  BY DEF Worlds
<1> HIDE DEF tip, g, value
<1>6. g * tip \in Nat
  BY <1>1, <1>2
<1>7. Applied(env, w, fee).balance[a] >= w.balance[a]
  BY <1>3, <1>4, <1>5, <1>6
<1>8. Applied(env, w, fee).nonce[a] = w.nonce[a]
  <2>1. Applied(env, w, fee).nonce = [w.nonce EXCEPT ![env.caller] = @ + 1]
    BY AppliedFacts
  <2>2. w.nonce \in [Accounts -> Nat]
    BY DEF Worlds
  <2> QED
    BY <2>1, <2>2
<1> QED
  BY <1>7, <1>8

\* Of the block at hand: whose balance it has lowered, or whose nonce it has advanced,
\* is the caller of one of its transactions.
PaidBy ==
    Busy => \A a \in Accounts :
        \/ job.world.balance[a] < world.balance[a]
        \/ job.world.nonce[a] # world.nonce[a]
        => \E i \in 1 .. Len(job.txs) : job.callers[i] = a

LEMMA PaidByKept == IInv /\ PaidBy /\ [Next]_vars => PaidBy'
<1> SUFFICES ASSUME IInv, PaidBy, [Next]_vars PROVE PaidBy'
  OBVIOUS
<1>0. TypeOK
  BY DEF IInv
<1>1. CASE StartNode \/ StartImport
  BY <1>1 DEF StartNode, StartImport, Open, PaidBy, IInv, DownEmpty, Busy, NoJob
<1>2. CASE Halt \/ ValidateFails \/ ExecuteFails \/ Commit \/ CommitFails
  BY <1>2 DEF Halt, ValidateFails, ExecuteFails, Commit, CommitFails, Reject, PaidBy, Busy, NoJob
<1>3. CASE (\E n \in 1 .. MaxHeight : Persist(n)) \/ UNCHANGED vars
  BY <1>3 DEF Persist, vars, PaidBy, Busy, world
<1>4. CASE \E b \in Blocks : Submit(b)
  <2>1. job'.world = world /\ worlds' = worlds
    BY <1>4 DEF Submit
  <2>2. Len(worlds) \in Nat /\ world \in Worlds
    BY <1>0 DEF TypeOK, world
  <2> QED
    BY <2>1, <2>2 DEF PaidBy, world, Worlds
<1>5. CASE Validate
  <2>1. job \in Jobs /\ Busy
    BY <1>0, <1>5, BusyJob DEF Validate
  <2>2. /\ job'.world = job.world /\ job'.txs = job.txs /\ job'.callers = job.callers
        /\ worlds' = worlds
    BY <1>5, <2>1 DEF Validate, Jobs
  <2> QED
    BY <2>1, <2>2 DEF PaidBy, world
<1>6. CASE ExecuteNext
  <2>0. Busy /\ job \in Jobs /\ Len(job.txs) < Len(job.block.txs) /\ NextAttempt.ok
    BY <1>0, <1>6, BusyJob DEF ExecuteNext, Ready
  <2> DEFINE k == Len(job.txs)
             env == NextAttempt.val.env
             fee == job.block.base_fee
  <2>1. /\ k \in Nat /\ Len(job.callers) = k /\ fee \in Nat /\ job.world \in Worlds
        /\ job.callers \in Seq(Accounts) /\ job.txs \in Seq(DecodedTxs)
    BY <1>0, <2>0, BusyJob, ChainAssumption DEF Jobs
  <2>2. NextRaw \in SubmittedRaws
    <3>1. job.block.txs \in Seq(SubmittedRaws)
      BY <2>0, ChainAssumption DEF Jobs
    <3> QED
      BY <2>0, <2>1, <3>1 DEF NextRaw
  <2>3. GoodEnv(env) /\ NextAttempt.val.tx \in DecodedTxs
    BY <2>0, <2>1, <2>2, AttemptFacts DEF NextAttempt
  <2>4. ~ (env.gas_price < fee)
    BY <2>0, AttemptFee DEF NextAttempt
  <2>5. /\ job'.callers = Append(job.callers, env.caller)
        /\ job'.txs = Append(job.txs, NextAttempt.val.tx)
        /\ job'.world = Applied(env, job.world, fee) /\ worlds' = worlds
    BY <1>6, <2>0 DEF ExecuteNext, Jobs
  <2> HIDE DEF env, fee
  <2>6. /\ Len(job'.txs) = k + 1 /\ job'.callers[k + 1] = env.caller
        /\ \A i \in 1 .. k : job'.callers[i] = job.callers[i]
    <3>1. env.caller \in Accounts
      BY <2>3 DEF GoodEnv
    <3>2. Len(job'.txs) = k + 1
      BY <2>1, <2>3, <2>5
    <3> QED
      BY <2>1, <2>5, <3>1, <3>2
  <2>7. Len(worlds) \in Nat /\ world \in Worlds /\ world' = world
    BY <1>0, <2>5 DEF TypeOK, world
  <2> SUFFICES ASSUME NEW a \in Accounts,
                      \/ job'.world.balance[a] < world.balance[a]
                      \/ job'.world.nonce[a] # world.nonce[a]
               PROVE  \E i \in 1 .. k + 1 : job'.callers[i] = a
    BY <2>6, <2>7 DEF PaidBy
  <2>8. CASE a = env.caller
    BY <2>1, <2>6, <2>8
  <2>9. CASE a # env.caller
    <3>1. /\ job'.world.balance[a] >= job.world.balance[a]
          /\ job'.world.nonce[a] = job.world.nonce[a]
      BY <2>1, <2>3, <2>4, <2>5, <2>9, OthersDoNotPay
    <3>2. job'.world \in Worlds
      <4>1. Applied(env, job.world, fee) \in Worlds
        BY <2>1, <2>3, AppliedFacts
      <4> QED
        BY <2>5, <4>1
    <3>3. /\ job'.world.balance[a] \in Int /\ job.world.balance[a] \in Int
          /\ world.balance[a] \in Int
      BY <2>1, <2>7, <3>2 DEF Worlds
    <3>4. job.world.balance[a] < world.balance[a] \/ job.world.nonce[a] # world.nonce[a]
      BY <3>1, <3>3
    <3>5. PICK i \in 1 .. k : job.callers[i] = a
      BY <2>0, <3>4 DEF PaidBy
    <3> QED
      BY <2>1, <2>6, <3>5
  <2> QED
    BY <2>8, <2>9
<1> QED
  BY <1>1, <1>2, <1>3, <1>4, <1>5, <1>6 DEF Next

\* What one step may do to the balances and nonces of the chain.
SignersPay ==
    \A a \in Accounts :
      (/\ mode' = mode /\ Len(head') = Len(head) + 1
       /\ \/ worlds'[Len(worlds')].balance[a] < world.balance[a]
          \/ worlds'[Len(worlds')].nonce[a] # world.nonce[a])
      => LET b == head'[Len(head')]
         IN  \E i \in 1 .. Len(b.txs) : b.callers[i] = a /\ ActsFor(b.txs[i], a)

LEMMA StepPays == IInv /\ PaidBy /\ [Next]_vars => [SignersPay]_vars
<1> SUFFICES ASSUME IInv, PaidBy, [Next]_vars,
                    NEW a \in Accounts, mode' = mode, Len(head') = Len(head) + 1,
                    \/ worlds'[Len(worlds')].balance[a] < world.balance[a]
                    \/ worlds'[Len(worlds')].nonce[a] # world.nonce[a]
             PROVE  \E i \in 1 .. Len(head'[Len(head')].txs) :
                        /\ head'[Len(head')].callers[i] = a
                        /\ ActsFor(head'[Len(head')].txs[i], a)
  BY DEF SignersPay
<1>0. TypeOK /\ Len(head) \in Nat
  BY DEF IInv, TypeOK
<1>1. head' # head
  BY <1>0
<1>2. Commit
  <2>1. ASSUME NEW m, m # "down" PROVE ~Open(m)
    BY <2>1 DEF Open
  <2>2. ~StartNode /\ ~StartImport
    BY <2>1 DEF StartNode, StartImport
  <2>3. ~Halt
    BY DEF Halt
  <2>4. \A n : ~Persist(n)
    BY <1>1 DEF Persist
  <2>5. \A b : ~Submit(b)
    BY <1>1 DEF Submit
  <2>6. ~Validate /\ ~ExecuteNext /\ ~Reject
    BY <1>1 DEF Validate, ExecuteNext, Reject
  <2> QED
    BY <1>1, <2>2, <2>3, <2>4, <2>5, <2>6 DEF Next, vars, ValidateFails, ExecuteFails, CommitFails
<1>3. Busy /\ job \in Jobs
  BY <1>0, <1>2, BusyJob DEF Commit, Executed
<1> DEFINE b == [txs |-> job.txs, callers |-> job.callers, receipts |-> job.receipts,
                 base_fee |-> job.block.base_fee]
<1>4. head' = Append(head, b) /\ worlds' = Append(worlds, job.world)
  BY <1>2 DEF Commit
<1>5. head'[Len(head')] = b
  BY <1>0, <1>4
<1>6. worlds'[Len(worlds')] = job.world
  BY <1>0, <1>4 DEF TypeOK
<1>7. PICK i \in 1 .. Len(job.txs) : job.callers[i] = a
  BY <1>3, <1>6 DEF PaidBy
<1>8. ActsFor(job.txs[i], a)
  BY <1>3, <1>7 DEF IInv, JobGood, AllActFor
<1> QED
  BY <1>5, <1>7, <1>8

\* No peer's block makes an assertion of the execution path fail: every refusal is an
\* error the engine can answer with.
THEOREM ExecutionNeverPanics == Spec => []NoPanic
<1>1. IInv => NoPanic
  <2> SUFFICES ASSUME IInv, Ready, ~NextAttempt.ok PROVE NextAttempt.err # "panic"
    BY DEF NoPanic
  <2>1. job \in Jobs /\ Len(job.txs) < Len(job.block.txs) /\ Len(job.txs) \in Nat
    BY BusyJob DEF IInv, Ready, Jobs
  <2>2. job.block.txs \in Seq(SubmittedRaws)
    BY <2>1, ChainAssumption DEF Jobs
  <2>3. NextRaw \in SubmittedRaws
    BY <2>1, <2>2 DEF NextRaw
  <2> QED
    BY <2>3, RefusalIsNoPanic DEF NextAttempt
<1> QED
  BY Invariance, <1>1, PTL

\* A block lowers the balance, or advances the nonce, of no account that did not sign
\* one of its transactions.
THEOREM SignersAlonePay == Spec => OnlySignersPay
<1>1. Init => PaidBy
  BY DEF Init, PaidBy, Busy, NoJob
<1>2. Spec => [](IInv /\ PaidBy)
  BY <1>1, PaidByKept, Invariance, PTL DEF Spec
<1>3. OnlySignersPay <=> [][SignersPay]_vars
  BY PTL DEF OnlySignersPay, SignersPay
<1> QED
  BY <1>2, <1>3, StepPays, PTL DEF Spec

----------------------------------------------------------------------------
(* State and history.  The executions of a block and of a chain are followed *)
(* one transaction and one block at a time: a function that satisfies the    *)
(* recursion for one more satisfies it for those before, so no induction     *)
(* over the chain is needed.                                                 *)

\* f is the sequence of states of the execution of b from w, and of the chain bs.
TxRec(f, w, b) ==
    f = [n \in 0 .. Len(b.txs) |->
            IF n = 0 THEN w ELSE ReplayTx(f[n - 1], encode_2718(b.txs[n]), b.base_fee)]
ChainRec(f, bs) ==
    f = [n \in 0 .. Len(bs) |-> IF n = 0 THEN GenesisWorld ELSE ReplayBlock(f[n - 1], bs[n])]

\* Executing b again from w is possible and leads to v; executing bs from genesis does.
BlockLeads(w, b, v) ==
    (\E f : TxRec(f, w, b)) /\ (\A f : TxRec(f, w, b) => f[Len(b.txs)] = v)
ChainLeads(bs, v) ==
    (\E f : ChainRec(f, bs)) /\ (\A f : ChainRec(f, bs) => f[Len(bs)] = v)

LEMMA BlockLeadsNone ==
    ASSUME NEW w, NEW b, b.txs = <<>> PROVE BlockLeads(w, b, w)
<1>1. Len(b.txs) = 0
  OBVIOUS
<1>2. TxRec([n \in 0 .. 0 |-> w], w, b)
  BY <1>1 DEF TxRec
<1>3. \A f : TxRec(f, w, b) => f[0] = w
  BY <1>1 DEF TxRec
<1> QED
  BY <1>1, <1>2, <1>3 DEF BlockLeads

LEMMA ChainLeadsNone ==
    ASSUME NEW bs, Len(bs) = 0 PROVE ChainLeads(bs, GenesisWorld)
<1>2. ChainRec([n \in 0 .. 0 |-> GenesisWorld], bs)
  BY DEF ChainRec
<1>3. \A f : ChainRec(f, bs) => f[0] = GenesisWorld
  BY DEF ChainRec
<1> QED
  BY <1>2, <1>3 DEF ChainLeads

LEMMA BlockLeadsNext ==
    ASSUME NEW w, NEW v, NEW b, NEW c, NEW S, NEW tx \in S, b.txs \in Seq(S),
           c.txs = Append(b.txs, tx), c.base_fee = b.base_fee, BlockLeads(w, b, v)
    PROVE  BlockLeads(w, c, ReplayTx(v, encode_2718(tx), b.base_fee))
<1> DEFINE n == Len(b.txs)
<1>1. /\ n \in Nat /\ Len(c.txs) = n + 1 /\ c.txs[n + 1] = tx
      /\ \A i \in 1 .. n : c.txs[i] = b.txs[i]
  OBVIOUS
<1> HIDE DEF n
<1>2. PICK f : TxRec(f, w, b)
  BY DEF BlockLeads
<1> DEFINE g == [i \in 0 .. n + 1 |-> IF i = n + 1 THEN ReplayTx(f[n], encode_2718(tx), b.base_fee) ELSE f[i]]
<1>3. TxRec(g, w, c)
  <2>1. (\A i \in 0 .. n : g[i] = f[i]) /\ g[n + 1] = ReplayTx(f[n], encode_2718(tx), b.base_fee)
    BY <1>1
  <2>2. \A i \in 0 .. n : f[i] = IF i = 0 THEN w ELSE ReplayTx(f[i - 1], encode_2718(b.txs[i]), b.base_fee)
    BY <1>2 DEF TxRec, n
  <2> HIDE DEF g
  <2>3. ASSUME NEW i \in 0 .. n + 1
        PROVE  g[i] = IF i = 0 THEN w ELSE ReplayTx(g[i - 1], encode_2718(c.txs[i]), b.base_fee)
    <3>1. CASE i = 0
      BY <1>1, <2>1, <2>2, <3>1
    <3>2. CASE i \in 1 .. n
      <4>1. i \in 0 .. n /\ i - 1 \in 0 .. n /\ i # 0
        BY <1>1, <3>2
      <4> QED
        BY <1>1, <2>1, <2>2, <3>2, <4>1
    <3>3. CASE i = n + 1
      <4>1. i # 0 /\ i - 1 = n /\ n \in 0 .. n
        BY <1>1, <3>3
      <4> QED
        BY <1>1, <2>1, <3>3, <4>1
    <3> QED
      BY <1>1, <3>1, <3>2, <3>3
  <2>4. g = [i \in 0 .. n + 1 |-> g[i]]
    BY DEF g
  <2>5. g = [i \in 0 .. n + 1 |-> IF i = 0 THEN w ELSE ReplayTx(g[i - 1], encode_2718(c.txs[i]), b.base_fee)]
    BY <2>3, <2>4
  <2> QED
    BY <1>1, <2>5 DEF TxRec
<1> HIDE DEF g
<1>4. ASSUME NEW k, TxRec(k, w, c)
      PROVE  k[n + 1] = ReplayTx(v, encode_2718(tx), b.base_fee)
  <2>1. \A i \in 0 .. n + 1 : k[i] = IF i = 0 THEN w ELSE ReplayTx(k[i - 1], encode_2718(c.txs[i]), b.base_fee)
    BY <1>1, <1>4 DEF TxRec
  <2> DEFINE l == [i \in 0 .. n |-> k[i]]
  <2>2. \A i \in 0 .. n : l[i] = k[i]
    OBVIOUS
  <2>3. ASSUME NEW i \in 0 .. n
        PROVE  k[i] = IF i = 0 THEN w ELSE ReplayTx(l[i - 1], encode_2718(b.txs[i]), b.base_fee)
    <3>1. CASE i = 0
      <4>1. 0 \in 0 .. n + 1
        BY <1>1
      <4> HIDE DEF l
      <4> QED
        BY <2>1, <3>1, <4>1
    <3>2. CASE i # 0
      <4>1. i \in 0 .. n + 1 /\ i - 1 \in 0 .. n /\ i \in 1 .. n
        BY <1>1, <3>2
      <4> HIDE DEF l
      <4> QED
        BY <1>1, <2>1, <2>2, <3>2, <4>1
    <3> QED
      BY <3>1, <3>2
  <2>4. l = [i \in 0 .. n |-> IF i = 0 THEN w ELSE ReplayTx(l[i - 1], encode_2718(b.txs[i]), b.base_fee)]
    BY <2>3
  <2> HIDE DEF l
  <2>5. TxRec(l, w, b)
    BY <2>4 DEF TxRec, n
  <2>6. l[n] = v
    BY <2>5 DEF BlockLeads, n
  <2>7. k[n] = v
    BY <1>1, <2>2, <2>6
  <2>8. n + 1 \in 0 .. n + 1 /\ n + 1 # 0 /\ (n + 1) - 1 = n
    BY <1>1
  <2> QED
    BY <1>1, <2>1, <2>7, <2>8
<1> QED
  BY <1>1, <1>3, <1>4 DEF BlockLeads

LEMMA BlockExecutes ==
    ASSUME NEW w, NEW b, NEW v, BlockLeads(w, b, v) PROVE ReplayBlock(w, b) = v
<1> DEFINE f == CHOOSE g : TxRec(g, w, b)
<1>1. ReplayBlock(w, b) = f[Len(b.txs)]
  BY DEF ReplayBlock, TxRec
<1>2. TxRec(f, w, b)
  BY DEF BlockLeads
<1> QED
  BY <1>1, <1>2 DEF BlockLeads

LEMMA ChainExecutes ==
    ASSUME NEW bs, NEW v, ChainLeads(bs, v) PROVE Replay(bs) = v
<1> DEFINE f == CHOOSE g : ChainRec(g, bs)
<1>1. Replay(bs) = f[Len(bs)]
  BY DEF Replay, ChainRec
<1>2. ChainRec(f, bs)
  BY DEF ChainLeads
<1> QED
  BY <1>1, <1>2 DEF ChainLeads

LEMMA ChainLeadsNext ==
    ASSUME NEW bs, NEW cs, NEW v, NEW u, ChainLeads(bs, v), Len(bs) \in Nat,
           Len(cs) = Len(bs) + 1, \A i \in 1 .. Len(bs) : cs[i] = bs[i],
           BlockLeads(v, cs[Len(cs)], u)
    PROVE  ChainLeads(cs, u)
<1> DEFINE n == Len(bs)
<1>0. ReplayBlock(v, cs[Len(cs)]) = u
  BY BlockExecutes
<1>1. /\ n \in Nat /\ Len(cs) = n + 1 /\ \A i \in 1 .. n : cs[i] = bs[i]
      /\ ReplayBlock(v, cs[n + 1]) = u
  BY <1>0
<1> HIDE DEF n
<1>2. PICK f : ChainRec(f, bs)
  BY DEF ChainLeads
<1> DEFINE g == [i \in 0 .. n + 1 |-> IF i = n + 1 THEN ReplayBlock(f[n], cs[n + 1]) ELSE f[i]]
<1>3. ChainRec(g, cs)
  <2>1. (\A i \in 0 .. n : g[i] = f[i]) /\ g[n + 1] = ReplayBlock(f[n], cs[n + 1])
    BY <1>1
  <2>2. \A i \in 0 .. n : f[i] = IF i = 0 THEN GenesisWorld ELSE ReplayBlock(f[i - 1], bs[i])
    BY <1>2 DEF ChainRec, n
  <2> HIDE DEF g
  <2>3. ASSUME NEW i \in 0 .. n + 1
        PROVE  g[i] = IF i = 0 THEN GenesisWorld ELSE ReplayBlock(g[i - 1], cs[i])
    <3>1. CASE i = 0
      BY <1>1, <2>1, <2>2, <3>1
    <3>2. CASE i \in 1 .. n
      <4>1. i \in 0 .. n /\ i - 1 \in 0 .. n /\ i # 0
        BY <1>1, <3>2
      <4> QED
        BY <1>1, <2>1, <2>2, <3>2, <4>1
    <3>3. CASE i = n + 1
      <4>1. i # 0 /\ i - 1 = n /\ n \in 0 .. n
        BY <1>1, <3>3
      <4> QED
        BY <1>1, <2>1, <3>3, <4>1
    <3> QED
      BY <1>1, <3>1, <3>2, <3>3
  <2>4. g = [i \in 0 .. n + 1 |-> g[i]]
    BY DEF g
  <2>5. g = [i \in 0 .. n + 1 |-> IF i = 0 THEN GenesisWorld ELSE ReplayBlock(g[i - 1], cs[i])]
    BY <2>3, <2>4
  <2> QED
    BY <1>1, <2>5 DEF ChainRec
<1> HIDE DEF g
<1>4. ASSUME NEW k, ChainRec(k, cs)
      PROVE  k[n + 1] = u
  <2>1. \A i \in 0 .. n + 1 : k[i] = IF i = 0 THEN GenesisWorld ELSE ReplayBlock(k[i - 1], cs[i])
    BY <1>1, <1>4 DEF ChainRec
  <2> DEFINE l == [i \in 0 .. n |-> k[i]]
  <2>2. \A i \in 0 .. n : l[i] = k[i]
    OBVIOUS
  <2>3. ASSUME NEW i \in 0 .. n
        PROVE  k[i] = IF i = 0 THEN GenesisWorld ELSE ReplayBlock(l[i - 1], bs[i])
    <3>1. CASE i = 0
      <4>1. 0 \in 0 .. n + 1
        BY <1>1
      <4> HIDE DEF l
      <4> QED
        BY <2>1, <3>1, <4>1
    <3>2. CASE i # 0
      <4>1. i \in 0 .. n + 1 /\ i - 1 \in 0 .. n /\ i \in 1 .. n
        BY <1>1, <3>2
      <4> HIDE DEF l
      <4> QED
        BY <1>1, <2>1, <2>2, <3>2, <4>1
    <3> QED
      BY <3>1, <3>2
  <2>4. l = [i \in 0 .. n |-> IF i = 0 THEN GenesisWorld ELSE ReplayBlock(l[i - 1], bs[i])]
    BY <2>3
  <2> HIDE DEF l
  <2>5. ChainRec(l, bs)
    BY <2>4 DEF ChainRec, n
  <2>6. l[n] = v
    BY <2>5 DEF ChainLeads, n
  <2>7. k[n] = v
    BY <1>1, <2>2, <2>6
  <2>8. n + 1 \in 0 .. n + 1 /\ n + 1 # 0 /\ (n + 1) - 1 = n
    BY <1>1
  <2> QED
    BY <1>1, <2>1, <2>7, <2>8
<1> QED
  BY <1>1, <1>3, <1>4 DEF ChainLeads

\* A transaction that is in memory decodes from its own encoding.
LEMMA EncodingReturns ==
    ASSUME NEW t \in DecodedTxs PROVE decode_2718_exact(encode_2718(t)) = Ok(t)
<1>1. CASE GoodEthereum(t)
  <2>1. PICK e \in EthereumTx : t = Ethereum(e)
    BY <1>1 DEF GoodEthereum
  <2>2. ~IsCosmos(t) /\ t.tx = e /\ e.ty \in EthereumTypes
    BY <2>1 DEF Ethereum, IsCosmos, EthereumTx
  <2> DEFINE raw == encode_2718(t)
  <2>3. raw.ty = e.ty /\ raw.eth = e /\ raw.rest = 0
    BY <2>2 DEF encode_2718
  <2> HIDE DEF raw
  <2>4. typed_decode(raw) = Ok([tx |-> t, rest |-> 0])
    BY <2>1, <2>2, <2>3 DEF typed_decode
  <2> DEFINE c == Ok([tx |-> t, rest |-> 0])
  <2>5. c.ok /\ c.val.tx = t /\ c.val.rest = 0
    BY DEF Ok
  <2> HIDE DEF c
  <2>6. WholeInput(c) = Ok(t)
    BY <2>5 DEF WholeInput
  <2>7. decode_2718_exact(raw) = Ok(t)
    BY <2>4, <2>6 DEF decode_2718_exact, c
  <2> QED
    BY <2>7 DEF raw
<1>2. CASE GoodCosmos(t)
  <2>1. PICK op, key, sig :
          /\ t = SignedTx(op, key, sig) /\ LensOf(op) \in Lens /\ validate_limits(op)
          /\ key.len = KEY_LEN /\ sig.len = SIGNATURE_LEN
    BY <1>2 DEF GoodCosmos
  <2>2. encode_2718(t) = encode_wire(op, key, sig)
    BY <2>1 DEF encode_2718, SignedTx, IsCosmos
  <2> QED
    BY <2>1, <2>2, EncodedDecodes
<1> QED
  BY <1>1, <1>2, DecodedShape

\* The unchecked recovery finds the sender the checked one found.
LEMMA RecoveredAgain ==
    ASSUME NEW t, NEW path, Recover(path, t).ok
    PROVE  Recover("import", t) = Recover(path, t)
<1>1. CASE IsCosmos(t)
  BY <1>1 DEF Recover, recover_signer, recover_signer_unchecked
<1>2. CASE ~IsCosmos(t)
  <2>1. \A e, c : EthereumRecover(e, c).ok => e.signer # NoSigner /\ EthereumRecover(e, c) = Ok(e.signer)
    BY DEF EthereumRecover, Err
  <2>2. \A e : e.signer # NoSigner => EthereumRecover(e, FALSE) = Ok(e.signer)
    BY DEF EthereumRecover
  <2>3. \E c : Recover(path, t) = EthereumRecover(t.tx, c)
    BY <1>2 DEF Recover, recover_signer, recover_signer_unchecked
  <2>4. Recover("import", t) = EthereumRecover(t.tx, FALSE)
    BY <1>2 DEF Recover, recover_signer_unchecked
  <2> QED
    BY <2>1, <2>2, <2>3, <2>4
<1> QED
  BY <1>1, <1>2

\* What was executed once, from whatever path and with whatever gas left, executes again
\* from its own encoding to the same state.
LEMMA ExecutesAgain ==
    ASSUME NEW raw \in SubmittedRaws, NEW path, NEW w \in Worlds, NEW fee, NEW gas \in Nat,
           Attempt(path, raw, w, fee, gas).ok
    PROVE  LET a == Attempt(path, raw, w, fee, gas).val IN
           ReplayTx(w, encode_2718(a.tx), fee) = Applied(a.env, w, fee)
<1> DEFINE d == decode_2718_exact(raw)
           r == Recover(path, d.val)
           env == from_recovered_tx(d.val, r.val)
           a == Attempt(path, raw, w, fee, gas).val
<1>1. /\ d.ok /\ r.ok /\ env.ok /\ a = [tx |-> d.val, env |-> env.val]
      /\ ValidationError(env.val, w, fee, BLOCK_GAS - gas) = "none"
  BY DEF Attempt, AttemptDecoded, Err, Ok
<1>2. d.val \in DecodedTxs
  BY <1>1 DEF DecodedTxs
<1>3. a.tx = d.val /\ a.env = env.val /\ GoodEnv(env.val)
  BY <1>1, AttemptFacts
<1>4. decode_2718_exact(encode_2718(d.val)) = Ok(d.val)
  BY <1>2, EncodingReturns
<1>5. Recover("import", d.val) = r
  BY <1>1, RecoveredAgain
<1> HIDE DEF d, r
<1> DEFINE v == env.val
<1>6. ValidationError(v, w, fee, BLOCK_GAS - 0) = "none"
  <2>1. v.gas_limit \in Nat /\ BLOCK_GAS \in Nat
    BY <1>3, ChainAssumption DEF GoodEnv
  <2> HIDE DEF v
  <2>2. ValidationError(v, w, fee, BLOCK_GAS - gas) = "none"
    BY <1>1 DEF v
  <2>3. ~ (v.gas_limit > BLOCK_GAS - gas)
    BY <2>2 DEF ValidationError
  <2>4. ~ (v.gas_limit > BLOCK_GAS - 0)
    BY <2>1, <2>3
  <2> QED
    BY <2>2, <2>3, <2>4 DEF ValidationError
<1>7. Ok(d.val).ok /\ Ok(d.val).val = d.val
  BY DEF Ok
<1>8. AttemptDecoded("import", Ok(d.val), w, fee, 0) = Ok([tx |-> d.val, env |-> v])
  BY <1>1, <1>5, <1>6, <1>7 DEF AttemptDecoded
<1>9. Attempt("import", encode_2718(d.val), w, fee, 0).val.env = v
  BY <1>4, <1>8 DEF Attempt, Ok
<1> QED
  BY <1>3, <1>9 DEF ReplayTx

\* Every state that is on disk, or may still be written, or is being worked on, is that of
\* executing its blocks again.  The states before the disk's are not laid out after a start.
ReplayInv ==
    /\ ChainLeads(DbChain, dbworld)
    /\ mode # "down" => \A n \in Len(db) .. Len(head) : ChainLeads(Prefix(n), worlds[n + 1])
    /\ Busy => BlockLeads(world, [txs |-> job.txs, base_fee |-> job.block.base_fee], job.world)

LEMMA ReplayInit == Init => ReplayInv
<1> SUFFICES ASSUME Init PROVE ReplayInv
  OBVIOUS
<1>1. Len(DbChain) = 0 /\ dbworld = GenesisWorld /\ mode = "down" /\ ~Busy
  BY DEF Init, DbChain, Busy, NoJob
<1> QED
  BY <1>1, ChainLeadsNone DEF ReplayInv

LEMMA ReplayKept == IInv /\ ReplayInv /\ [Next]_vars => ReplayInv'
<1> SUFFICES ASSUME IInv, ReplayInv, [Next]_vars PROVE ReplayInv'
  OBVIOUS
<1>0. /\ TypeOK /\ Len(db) \in Nat /\ Len(head) \in Nat /\ Len(worlds) = Len(head) + 1
      /\ worlds \in Seq(Worlds)
  BY DEF IInv, TypeOK
<1>1. CASE StartNode \/ StartImport
  <2>1. PICK m : Open(m)
    BY <1>1 DEF StartNode, StartImport
  <2>2. ~Busy'
    BY <2>1 DEF Open, IInv, DownEmpty, Busy, NoJob
  <2>3. /\ Len(head') = Len(db) /\ db' = db /\ dbworld' = dbworld
        /\ worlds' = [i \in 1 .. Len(db) + 1 |-> dbworld] /\ head' = DbChain
    BY <1>0, <2>1 DEF Open, DbChain
  <2>4. DbChain' = DbChain
    BY <2>3 DEF DbChain
  <2>5. ASSUME NEW n \in Len(db) .. Len(db) PROVE ChainLeads(Prefix(n)', worlds'[n + 1])
    <3>1. n = Len(db) /\ n + 1 \in 1 .. Len(db) + 1
      BY <1>0
    <3>2. Prefix(n)' = DbChain
      BY <2>3, <3>1 DEF Prefix, DbChain
    <3>3. worlds'[n + 1] = dbworld
      BY <2>3, <3>1
    <3> QED
      BY <3>2, <3>3 DEF ReplayInv
  <2> QED
    BY <2>2, <2>3, <2>4, <2>5 DEF ReplayInv
<1>2. CASE Halt
  <2>1. ~Busy' /\ mode' = "down" /\ DbChain' = DbChain /\ dbworld' = dbworld
    BY <1>2 DEF Halt, Busy, NoJob, DbChain
  <2> QED
    BY <2>1 DEF ReplayInv
<1>3. CASE Reject \/ UNCHANGED vars
  <2>1. /\ mode' = mode /\ DbChain' = DbChain /\ dbworld' = dbworld /\ worlds' = worlds
        /\ db' = db /\ head' = head /\ world' = world
        /\ \A n : Prefix(n)' = Prefix(n)
        /\ Busy' => job' = job /\ Busy
    BY <1>3 DEF Reject, vars, DbChain, Busy, NoJob, Prefix, world
  <2> QED
    BY <2>1 DEF ReplayInv
<1>4. CASE \E n \in 1 .. MaxHeight : Persist(n)
  <2>1. PICK n \in 1 .. MaxHeight : Persist(n)
    BY <1>4
  <2>2. /\ mode = "node" /\ mode' = mode /\ head' = head /\ worlds' = worlds /\ job' = job
        /\ n \in Len(db) + 1 .. Len(head) /\ dbworld' = worlds[n + 1]
        /\ db' = [i \in 1 .. n |-> IF i <= Len(db) THEN db[i] ELSE StoredBlock(head[i])]
    BY <2>1 DEF Persist
  <2>3. Len(db') = n /\ n \in Nat /\ Len(db) < n
    BY <1>0, <2>2
  <2>4. ASSUME NEW i \in 1 .. n PROVE LoadedBlock(db'[i]) = head[i]
    <3>1. CASE i <= Len(db)
      BY <1>0, <2>2, <2>3, <3>1 DEF IInv, DiskBehind
    <3>2. CASE ~ (i <= Len(db))
      <4>1. head[i] \in HeadBlocks /\ db'[i] = StoredBlock(head[i])
        BY <1>0, <2>2, <2>3, <3>2 DEF TypeOK
      <4> QED
        BY <4>1, StoredIsRow
    <3> QED
      BY <3>1, <3>2
  <2>5. DbChain' = Prefix(n)
    BY <2>3, <2>4 DEF DbChain, Prefix
  <2>6. \A i : Prefix(i)' = Prefix(i)
    BY <2>2 DEF Prefix
  <2>7. \A i \in n .. Len(head) : i \in Len(db) .. Len(head)
    BY <1>0, <2>3
  <2>8. n \in n .. Len(head)
    BY <1>0, <2>2, <2>3
  <2>9. \A i \in n .. Len(head) : ChainLeads(Prefix(i), worlds[i + 1])
    BY <2>2, <2>7 DEF ReplayInv
  <2>10. world' = world /\ (Busy' <=> Busy)
    BY <2>2 DEF world, Busy
  <2> QED
    BY <2>2, <2>3, <2>5, <2>6, <2>8, <2>9, <2>10 DEF ReplayInv
<1>5. CASE \E b \in Blocks : Submit(b)
  <2>1. /\ job'.world = world /\ job'.txs = <<>>
        /\ mode' = mode /\ db' = db /\ dbworld' = dbworld /\ head' = head /\ worlds' = worlds
    BY <1>5 DEF Submit
  <2>2. /\ DbChain' = DbChain /\ world' = world
        /\ \A n : Prefix(n)' = Prefix(n)
    BY <2>1 DEF DbChain, world, Prefix
  <2> DEFINE c == [txs |-> job'.txs, base_fee |-> job'.block.base_fee]
  <2>3. c.txs = <<>>
    BY <2>1
  <2> HIDE DEF c
  <2>4. BlockLeads(world, c, world)
    BY <2>3, BlockLeadsNone
  <2> QED
    BY <2>1, <2>2, <2>4 DEF ReplayInv, c
<1>6. CASE Validate
  <2>1. job \in Jobs /\ Busy
    BY <1>0, <1>6, BusyJob DEF Validate
  <2>2. /\ job'.world = job.world /\ job'.txs = job.txs /\ job'.block = job.block
        /\ mode' = mode /\ db' = db /\ dbworld' = dbworld /\ head' = head /\ worlds' = worlds
    BY <1>6, <2>1 DEF Validate, Jobs
  <2>3. /\ DbChain' = DbChain /\ world' = world
        /\ \A n : Prefix(n)' = Prefix(n)
    BY <2>2 DEF DbChain, world, Prefix
  <2> QED
    BY <2>1, <2>2, <2>3 DEF ReplayInv
<1>7. CASE ExecuteNext
  <2>0. Busy /\ job \in Jobs /\ Len(job.txs) < Len(job.block.txs) /\ NextAttempt.ok
    BY <1>0, <1>7, BusyJob DEF ExecuteNext, Ready
  <2> DEFINE tx == NextAttempt.val.tx
             env == NextAttempt.val.env
             fee == job.block.base_fee
             b == [txs |-> job.txs, base_fee |-> fee]
             c == [txs |-> job'.txs, base_fee |-> job'.block.base_fee]
  <2>1. /\ Len(job.txs) \in Nat /\ job.world \in Worlds /\ job.txs \in Seq(DecodedTxs)
        /\ job.gas \in Nat
    BY <2>0 DEF Jobs
  <2>2. NextRaw \in SubmittedRaws
    <3>1. job.block.txs \in Seq(SubmittedRaws)
      BY <2>0, ChainAssumption DEF Jobs
    <3> QED
      BY <2>0, <2>1, <3>1 DEF NextRaw
  <2>3. tx \in DecodedTxs
    BY <2>0, <2>1, <2>2, AttemptFacts DEF NextAttempt
  <2>4. ReplayTx(job.world, encode_2718(tx), fee) = Applied(env, job.world, fee)
    BY <2>0, <2>1, <2>2, ExecutesAgain DEF NextAttempt
  <2>5. /\ job'.txs = Append(job.txs, tx) /\ job'.block = job.block
        /\ job'.world = Applied(env, job.world, fee)
        /\ mode' = mode /\ db' = db /\ dbworld' = dbworld /\ head' = head /\ worlds' = worlds
    BY <1>7, <2>0 DEF ExecuteNext, Jobs
  <2>6. /\ DbChain' = DbChain /\ world' = world
        /\ \A n : Prefix(n)' = Prefix(n)
    BY <2>5 DEF DbChain, world, Prefix
  <2> HIDE DEF tx, env
  <2>7. /\ c.txs = Append(b.txs, tx) /\ c.base_fee = b.base_fee /\ b.base_fee = fee
        /\ b.txs \in Seq(DecodedTxs)
    BY <2>1, <2>5
  <2>8. BlockLeads(world, b, job.world)
    BY <2>0 DEF ReplayInv
  <2> HIDE DEF b, c, fee
  <2>9. BlockLeads(world, c, ReplayTx(job.world, encode_2718(tx), fee))
    BY <2>3, <2>7, <2>8, BlockLeadsNext
  <2>10. BlockLeads(world', c, job'.world)
    BY <2>4, <2>5, <2>6, <2>9
  <2> QED
    BY <2>5, <2>6, <2>10 DEF ReplayInv, c
<1>8. CASE Commit
  <2>0. Busy /\ job \in Jobs /\ mode \in {"node", "import"}
        /\ mode = IF job.path = "engine" THEN "node" ELSE "import"
    BY <1>0, <1>8, BusyJob DEF Commit, Executed
  <2> DEFINE b == [txs |-> job.txs, callers |-> job.callers, receipts |-> job.receipts,
                   base_fee |-> job.block.base_fee]
             n == Len(head)
             bs == Prefix(n)
             cs == [i \in 1 .. n + 1 |-> head'[i]]
  <2>1. /\ head' = Append(head, b) /\ worlds' = Append(worlds, job.world) /\ mode' = mode
        /\ job' = NoJob
        /\ IF job.path = "import"
           THEN db' = Append(db, StoredBlock(b)) /\ dbworld' = job.world
           ELSE db' = db /\ dbworld' = dbworld
    BY <1>8 DEF Commit
  <2>2. ~Busy'
    BY <2>1 DEF Busy, NoJob
  <2>3. b \in HeadBlocks
    BY <2>0, ChainAssumption DEF Jobs, HeadBlocks
  <2> HIDE DEF b
  <2>4. /\ n \in Nat /\ Len(head') = n + 1 /\ head'[n + 1] = b
        /\ \A i \in 1 .. n : head'[i] = head[i]
    BY <1>0, <2>1, <2>3 DEF TypeOK
  <2>5. /\ worlds'[n + 2] = job.world /\ worlds[n + 1] = world
        /\ \A i \in 1 .. n + 1 : worlds'[i] = worlds[i]
    BY <1>0, <2>1, <2>0 DEF Jobs, world
  <2>6. ChainLeads(bs, world)
    <3>1. n \in Len(db) .. Len(head)
      BY <1>0, <2>0 DEF IInv, DiskBehind
    <3> QED
      BY <2>0, <2>5, <3>1 DEF ReplayInv
  <2>7. BlockLeads(world, b, job.world)
    <3> DEFINE c == [txs |-> job.txs, base_fee |-> job.block.base_fee]
    <3>1. BlockLeads(world, c, job.world)
      BY <2>0 DEF ReplayInv
    <3>2. c.txs = b.txs /\ c.base_fee = b.base_fee
      BY DEF b
    <3> HIDE DEF c
    <3>3. \A f : TxRec(f, world, c) <=> TxRec(f, world, b)
      BY <3>2 DEF TxRec
    <3> QED
      BY <3>1, <3>2, <3>3 DEF BlockLeads
  <2>8. /\ Len(bs) = n /\ Len(cs) = n + 1 /\ cs[n + 1] = b
        /\ \A i \in 1 .. n : cs[i] = bs[i]
    BY <2>4 DEF Prefix
  <2>9. ChainLeads(cs, job.world)
    <3> HIDE DEF bs, cs, n
    <3>1. cs[Len(cs)] = b /\ Len(cs) = Len(bs) + 1
      BY <2>8
    <3> QED
      BY <2>4, <2>6, <2>7, <2>8, <3>1, ChainLeadsNext
  <2>10. \A i \in 0 .. n : Prefix(i)' = Prefix(i)
    <3> SUFFICES ASSUME NEW i \in 0 .. n PROVE Prefix(i)' = Prefix(i)
      OBVIOUS
    <3>1. \A j \in 1 .. i : head'[j] = head[j]
      BY <2>4
    <3> QED
      BY <3>1 DEF Prefix
  <2>11. CASE job.path # "import"
    <3>1. db' = db /\ dbworld' = dbworld /\ DbChain' = DbChain
      BY <2>1, <2>11 DEF DbChain
    <3>2. ASSUME NEW i \in Len(db) .. n + 1 PROVE ChainLeads(Prefix(i)', worlds'[i + 1])
      <4>1. CASE i = n + 1
        <5>1. i + 1 = n + 2
          BY <2>4, <4>1
        <5>2. Prefix(i)' = cs
          BY <4>1 DEF Prefix
        <5> HIDE DEF cs
        <5> QED
          BY <2>5, <2>9, <5>1, <5>2
      <4>2. CASE i # n + 1
        <5>1. i \in Len(db) .. Len(head) /\ i \in 0 .. n /\ i + 1 \in 1 .. n + 1
          BY <1>0, <2>4, <4>2
        <5>2. ChainLeads(Prefix(i), worlds[i + 1])
          BY <2>0, <5>1 DEF ReplayInv
        <5> QED
          BY <2>5, <2>10, <5>1, <5>2
      <4> QED
        BY <4>1, <4>2
    <3> QED
      BY <2>2, <2>4, <3>1, <3>2 DEF ReplayInv
  <2>12. CASE job.path = "import"
    <3>1. Len(db) = n
      BY <2>0, <2>12 DEF IInv, DiskBehind
    <3>2. db' = Append(db, StoredBlock(b)) /\ dbworld' = job.world
      BY <2>1, <2>12
    <3>3. /\ Len(db') = n + 1 /\ db'[n + 1] = StoredBlock(b)
          /\ \A i \in 1 .. n : db'[i] = db[i]
      <4>1. StoredBlock(b) \in Rows /\ db \in Seq(Rows)
        BY <1>0, <2>3, StoredIsRow DEF TypeOK
      <4> QED
        BY <2>4, <3>1, <3>2, <4>1
    <3>4. ASSUME NEW i \in 1 .. n + 1 PROVE LoadedBlock(db'[i]) = head'[i]
      <4>1. CASE i = n + 1
        BY <2>3, <2>4, <3>3, <4>1, StoredIsRow
      <4>2. CASE i # n + 1
        <5>1. i \in 1 .. n /\ i \in 1 .. Len(db)
          BY <2>4, <3>1, <4>2
        <5>2. LoadedBlock(db[i]) = head[i]
          BY <2>0, <5>1 DEF IInv, DiskBehind
        <5> QED
          BY <2>4, <3>3, <5>1, <5>2
      <4> QED
        BY <4>1, <4>2
    <3>5. DbChain' = cs
      BY <3>3, <3>4 DEF DbChain, Prefix
    <3>6. ASSUME NEW i \in Len(db') .. Len(head')
          PROVE  ChainLeads(Prefix(i)', worlds'[i + 1])
      <4>1. i = n + 1 /\ i + 1 = n + 2
        BY <2>4, <3>3
      <4> QED
        <5>1. Prefix(i)' = cs
          BY <4>1 DEF Prefix
        <5> QED
          BY <2>5, <2>9, <4>1, <5>1
    <3> QED
      BY <2>2, <2>9, <3>2, <3>5, <3>6 DEF ReplayInv
  <2> QED
    BY <2>11, <2>12
<1>9. ValidateFails \/ ExecuteFails \/ CommitFails => Reject
  BY DEF ValidateFails, ExecuteFails, CommitFails
<1> QED
  BY <1>1, <1>2, <1>3, <1>4, <1>5, <1>6, <1>7, <1>8, <1>9 DEF Next

\* The state on disk and the state in memory are those of executing their blocks again
\* from genesis, wherever the process stopped, whichever path took the blocks up and
\* however far the disk was behind.
THEOREM HistoryReplays == Spec => []ReplayEquivalence
<1>1. IInv /\ ReplayInv => ReplayEquivalence
  <2> SUFFICES ASSUME IInv, ReplayInv PROVE ReplayEquivalence
    OBVIOUS
  <2>1. dbworld = Replay([i \in 1 .. Len(db) |-> LoadedBlock(db[i])])
    BY ChainExecutes DEF ReplayInv, DbChain
  <2>2. world = Replay(head)
    <3>1. CASE mode = "down"
      <4>1. head = <<>> /\ worlds = <<GenesisWorld>>
        BY <3>1 DEF IInv, DownEmpty
      <4>2. Len(head) = 0
        BY <4>1
      <4>3. world = GenesisWorld
        BY <4>1 DEF world
      <4> QED
        BY <4>2, <4>3, ChainLeadsNone, ChainExecutes
    <3>2. CASE mode # "down"
      <4>1. /\ Len(head) \in Len(db) .. Len(head) /\ world = worlds[Len(head) + 1]
            /\ head = Prefix(Len(head))
        BY <3>2 DEF IInv, DiskBehind, TypeOK, world, Prefix
      <4>2. ChainLeads(head, world)
        BY <3>2, <4>1 DEF ReplayInv
      <4> QED
        BY <4>2, ChainExecutes
    <3> QED
      BY <3>1, <3>2
  <2> QED
    BY <2>1, <2>2 DEF ReplayEquivalence
<1>2. Spec => [](IInv /\ ReplayInv)
  BY ReplayInit, ReplayKept, Invariance, PTL DEF Spec
<1> QED
  BY <1>1, <1>2, PTL

----------------------------------------------------------------------------
(* The chain implements the ledger                                           *)

\* What a transaction asks, from memory and from disk.
LEMMA StoredRequest ==
    ASSUME NEW t \in DecodedTxs, NEW caller
    PROVE  LET c == to_compact(t) IN
           Request(caller, IF c.ty = TxTypeToCompact(TX_TYPE) THEN c.body.payload.op ELSE c.body.eth)
             = Request(caller, Fields(t))
<1> DEFINE c == to_compact(t)
<1>1. CASE GoodEthereum(t)
  <2>1. PICK e \in EthereumTx : t = Ethereum(e)
    BY <1>1 DEF GoodEthereum
  <2>2. ~IsCosmos(t) /\ t.tx = e /\ e.ty \in EthereumTypes /\ ty(t) = e.ty
    BY <2>1 DEF Ethereum, IsCosmos, EthereumTx, ty
  <2>3. c.ty = TxTypeToCompact(e.ty) /\ c.body.eth = [e EXCEPT !.ty = 0]
    BY <2>2 DEF to_compact, to_tx_compact
  <2>4. c.ty # TxTypeToCompact(TX_TYPE)
    <3>1. e.ty \in 0 .. 4
      BY <2>2 DEF EthereumTypes
    <3>2. c.ty.identifier # 3 \/ c.ty.byte[1] # TX_TYPE
      BY <2>3, <3>1 DEF TxTypeToCompact, TX_TYPE
    <3> QED
      BY <3>2 DEF TxTypeToCompact, TX_TYPE
  <2>5. c.body.eth.nonce = e.nonce /\ c.body.eth.to = e.to /\ c.body.eth.value = e.value
    BY <2>3 DEF EthereumTx
  <2>6. Fields(t).nonce = e.nonce /\ Fields(t).to = e.to /\ Fields(t).value = e.value
    BY <2>2 DEF Fields, Accessors
  <2> HIDE DEF c
  <2> QED
    BY <2>4, <2>5, <2>6 DEF Request, c
<1>2. CASE GoodCosmos(t)
  <2>1. PICK op, key, sig : t = SignedTx(op, key, sig)
    BY <1>2 DEF GoodCosmos
  <2>2. IsCosmos(t) /\ t.operation = op
    BY <2>1 DEF SignedTx, IsCosmos
  <2>3. c.ty = TxTypeToCompact(TX_TYPE) /\ c.body.payload.op = op
    BY <2>2 DEF to_compact, to_tx_compact, ty, payload
  <2>4. Fields(t).nonce = op.nonce /\ Fields(t).to = op.to /\ Fields(t).value = op.value
    BY <2>2 DEF Fields, Accessors
  <2> HIDE DEF c
  <2> QED
    BY <2>3, <2>4 DEF Request, c
<1> QED
  BY <1>1, <1>2, DecodedShape

LEMMA StoredBatchIsBatch ==
    ASSUME NEW row \in Rows
    PROVE  StoredBatch(row) = BatchOf(LoadedBlock(row))
<1> DEFINE S == {to_compact(t) : t \in DecodedTxs}
           n == Len(row.txs)
           b == LoadedBlock(row)
<1>1. n \in Nat /\ \A i \in 1 .. n : row.txs[i] \in S
  BY DEF Rows
<1>2. /\ b.callers = row.callers
      /\ b.txs = [i \in 1 .. n |-> from_compact(row.txs[i]).val]
  BY DEF LoadedBlock
<1>3. Len(b.txs) = n
  BY <1>1, <1>2
<1> HIDE DEF b, n
<1>4. ASSUME NEW i \in 1 .. n
      PROVE  Request(row.callers[i], IF row.txs[i].ty = TxTypeToCompact(TX_TYPE)
                                     THEN row.txs[i].body.payload.op ELSE row.txs[i].body.eth)
               = Request(b.callers[i], Fields(b.txs[i]))
  <2>1. PICK t \in DecodedTxs : row.txs[i] = to_compact(t)
    BY <1>1
  <2>2. b.txs[i] = t
    BY <1>2, <2>1, StorageRoundTrip DEF Ok
  <2> QED
    BY <1>2, <2>1, <2>2, StoredRequest
<1> QED
  BY <1>3, <1>4 DEF StoredBatch, BatchOf, n, b

\* What a caller asked for, and may ask for, is one of the authorised requests.
LEMMA RequestAuthorized ==
    ASSUME NEW t \in DecodedTxs, NEW caller, ActsFor(t, caller)
    PROVE  Request(caller, Fields(t)) \in AuthorizedRequests
<1>1. PICK raw \in SubmittedRaws : decode_2718_exact(raw).ok /\ t = decode_2718_exact(raw).val
  BY DEF DecodedTxs
<1>2. typed_decode(raw).ok /\ typed_decode(raw).val.rest = 0 /\ t = typed_decode(raw).val.tx
  BY <1>1 DEF decode_2718_exact, WholeInput, Err, Ok
<1>3. CASE raw.ty \in EthereumTypes
  <2>1. t = Ethereum(raw.eth)
    BY <1>2, <1>3 DEF typed_decode, Ok
  <2>2. ~IsCosmos(t) /\ t.tx = raw.eth
    BY <2>1 DEF Ethereum, IsCosmos
  <2>3. caller = raw.eth.signer /\ raw.eth.signer # NoSigner
    BY <2>2 DEF ActsFor
  <2>4. Request(caller, Fields(t)) = Request(raw.eth.signer, raw.eth)
    BY <2>2, <2>3 DEF Request, Fields, Accessors
  <2> QED
    BY <1>3, <2>3, <2>4 DEF AuthorizedRequests
<1>4. CASE raw.ty \notin EthereumTypes
  <2> DEFINE one == [raw EXCEPT !.rest = 0]
  <2>1. /\ typed_decode(raw) = Ok([tx |-> SignedTx(one.payload.op, one.key, one.sig),
                                   rest |-> raw.rest])
        /\ one = encode_wire(one.payload.op, one.key, one.sig)
    BY <1>2, <1>4, DecodedCosmos
  <2>2. t = SignedTx(one.payload.op, one.key, one.sig)
    BY <1>2, <2>1 DEF Ok
  <2>3. one.payload = raw.payload /\ one.key = raw.key /\ one.sig = raw.sig
    BY <2>1 DEF encode_wire
  <2>4. raw.ty = TX_TYPE
    BY <1>2, <1>4 DEF typed_decode, Err
  <2> HIDE DEF one
  <2> DEFINE op == raw.payload.op
  <2>5. /\ IsCosmos(t) /\ t.operation = op /\ t.public_key = raw.key
        /\ t.signature.rs = raw.sig
    BY <2>2, <2>3 DEF SignedTx, IsCosmos
  <2>6. caller = op.sender /\ Authorized(op, raw.key, raw.sig)
    BY <2>5 DEF ActsFor
  <2>7. Request(caller, Fields(t)) = Request(op.sender, op)
    BY <2>5, <2>6 DEF Request, Fields, Accessors
  <2> QED
    BY <2>4, <2>6, <2>7 DEF AuthorizedRequests
<1> QED
  BY <1>3, <1>4

\* Positions of the first m transactions of b whose caller is a, and how many there are.
CallsOf(b, m, a) == {j \in 1 .. m : b.callers[j] = a}
Calls(b, m, a) == Cardinality(CallsOf(b, m, a))

LEMMA CallsFinite ==
    ASSUME NEW b, NEW m \in Nat, NEW a
    PROVE  IsFiniteSet(CallsOf(b, m, a)) /\ Calls(b, m, a) \in Nat
<1>1. IsFiniteSet(1 .. m)
  BY FS_Interval
<1>2. CallsOf(b, m, a) \in SUBSET (1 .. m)
  BY DEF CallsOf
<1>3. IsFiniteSet(CallsOf(b, m, a))
  BY <1>1, <1>2, FS_Subset
<1> QED
  BY <1>3, FS_CardinalityType DEF Calls

LEMMA CallsStep ==
    ASSUME NEW b, NEW m \in Nat, NEW a
    PROVE  Calls(b, m + 1, a) = Calls(b, m, a) + (IF b.callers[m + 1] = a THEN 1 ELSE 0)
<1>1. IsFiniteSet(CallsOf(b, m, a)) /\ Calls(b, m, a) \in Nat
  BY CallsFinite
<1>2. CASE b.callers[m + 1] = a
  <2>1. CallsOf(b, m + 1, a) = CallsOf(b, m, a) \cup {m + 1}
    BY <1>2 DEF CallsOf
  <2>2. m + 1 \notin CallsOf(b, m, a)
    BY DEF CallsOf
  <2>3. Cardinality(CallsOf(b, m, a) \cup {m + 1}) = Cardinality(CallsOf(b, m, a)) + 1
    BY <1>1, <2>2, FS_AddElement
  <2> QED
    BY <1>2, <2>1, <2>3 DEF Calls
<1>3. CASE b.callers[m + 1] # a
  <2>1. CallsOf(b, m + 1, a) = CallsOf(b, m, a)
    BY <1>3 DEF CallsOf
  <2> QED
    BY <1>1, <1>3, <2>1 DEF Calls
<1> QED
  BY <1>2, <1>3

LEMMA CallsSame ==
    ASSUME NEW b, NEW c, NEW m, NEW a, \A j \in 1 .. m : b.callers[j] = c.callers[j]
    PROVE  Calls(b, m, a) = Calls(c, m, a)
<1>1. CallsOf(b, m, a) = CallsOf(c, m, a)
  BY DEF CallsOf
<1> QED
  BY <1>1 DEF Calls

\* The block at hand numbers the requests of every account on from the chain's state.
JobOrdered ==
    Busy => /\ \A a \in Accounts :
                 job.world.nonce[a] = world.nonce[a] + Calls(job, Len(job.txs), a)
            /\ \A i \in 1 .. Len(job.txs) :
                 Fields(job.txs[i]).nonce
                   = world.nonce[job.callers[i]] + Calls(job, i - 1, job.callers[i])

LEMMA JobOrderedKept == IInv /\ JobOrdered /\ [Next]_vars => JobOrdered'
<1> SUFFICES ASSUME IInv, JobOrdered, [Next]_vars PROVE JobOrdered'
  OBVIOUS
<1>0. TypeOK
  BY DEF IInv
<1>1. CASE StartNode \/ StartImport
  BY <1>1 DEF StartNode, StartImport, Open, JobOrdered, IInv, DownEmpty, Busy, NoJob
<1>2. CASE Halt \/ ValidateFails \/ ExecuteFails \/ Commit \/ CommitFails
  BY <1>2 DEF Halt, ValidateFails, ExecuteFails, Commit, CommitFails, Reject, JobOrdered,
              Busy, NoJob
<1>3. CASE (\E n \in 1 .. MaxHeight : Persist(n)) \/ UNCHANGED vars
  BY <1>3 DEF Persist, vars, JobOrdered, Busy, world
<1>4. CASE \E b \in Blocks : Submit(b)
  <2>1. job'.world = world /\ worlds' = worlds /\ job'.txs = <<>>
    BY <1>4 DEF Submit
  <2>2. Len(worlds) \in Nat /\ world \in Worlds /\ world' = world
    BY <1>0, <2>1 DEF TypeOK, world
  <2>3. \A a \in Accounts : Calls(job', 0, a) = 0
    BY FS_EmptySet DEF Calls, CallsOf
  <2>4. \A a \in Accounts : world.nonce[a] \in Nat
    BY <2>2 DEF Worlds
  <2> QED
    BY <2>1, <2>2, <2>3, <2>4 DEF JobOrdered
<1>5. CASE Validate
  <2>1. job \in Jobs /\ Busy
    BY <1>0, <1>5, BusyJob DEF Validate
  <2>2. /\ job'.world = job.world /\ job'.txs = job.txs /\ job'.callers = job.callers
        /\ worlds' = worlds
    BY <1>5, <2>1 DEF Validate, Jobs
  <2>3. \A m, a : Calls(job', m, a) = Calls(job, m, a)
    BY <2>2 DEF Calls, CallsOf
  <2> QED
    BY <2>1, <2>2, <2>3 DEF JobOrdered, world
<1>6. CASE ExecuteNext
  <2>0. Busy /\ job \in Jobs /\ Len(job.txs) < Len(job.block.txs) /\ NextAttempt.ok
    BY <1>0, <1>6, BusyJob DEF ExecuteNext, Ready
  <2> DEFINE k == Len(job.txs)
             tx == NextAttempt.val.tx
             env == NextAttempt.val.env
             fee == job.block.base_fee
             c == env.caller
             w == job.world
  <2>1. /\ k \in Nat /\ Len(job.callers) = k /\ fee \in Nat /\ w \in Worlds
        /\ job.callers \in Seq(Accounts) /\ job.txs \in Seq(DecodedTxs)
    BY <1>0, <2>0, BusyJob, ChainAssumption DEF Jobs
  <2>2. NextRaw \in SubmittedRaws
    <3>1. job.block.txs \in Seq(SubmittedRaws)
      BY <2>0, ChainAssumption DEF Jobs
    <3> QED
      BY <2>0, <2>1, <3>1 DEF NextRaw
  <2>3. GoodEnv(env) /\ tx \in DecodedTxs /\ Fields(tx).nonce = w.nonce[c]
    BY <2>0, <2>1, <2>2, AttemptFacts DEF NextAttempt
  <2>4. c \in Accounts
    BY <2>3 DEF GoodEnv
  <2>5. /\ job'.callers = Append(job.callers, c) /\ job'.txs = Append(job.txs, tx)
        /\ job'.world = Applied(env, w, fee) /\ worlds' = worlds
    BY <1>6, <2>0 DEF ExecuteNext, Jobs
  <2>6. job'.world.nonce = [w.nonce EXCEPT ![c] = @ + 1] /\ w.nonce \in [Accounts -> Nat]
    <3>1. Applied(env, w, fee).nonce = [w.nonce EXCEPT ![c] = @ + 1]
      BY <2>1, <2>3, AppliedFacts
    <3> QED
      BY <2>1, <2>5, <3>1 DEF Worlds
  <2> HIDE DEF env, fee, tx, c, w
  <2>7. /\ Len(job'.txs) = k + 1 /\ job'.callers[k + 1] = c /\ job'.txs[k + 1] = tx
        /\ \A i \in 1 .. k : job'.callers[i] = job.callers[i] /\ job'.txs[i] = job.txs[i]
    <3>1. Len(job'.txs) = k + 1 /\ job'.txs[k + 1] = tx /\ \A i \in 1 .. k : job'.txs[i] = job.txs[i]
      BY <2>1, <2>3, <2>5
    <3> QED
      BY <2>1, <2>4, <2>5, <3>1
  <2>8. Len(worlds) \in Nat /\ world \in Worlds /\ world' = world /\ Busy'
    BY <1>0, <1>6, <2>0, <2>5 DEF TypeOK, world, ExecuteNext, Busy, Jobs
  <2>9. \A m \in 0 .. k : \A a : Calls(job', m, a) = Calls(job, m, a)
    <3> SUFFICES ASSUME NEW m \in 0 .. k, NEW a PROVE Calls(job', m, a) = Calls(job, m, a)
      OBVIOUS
    <3>1. \A j \in 1 .. m : job'.callers[j] = job.callers[j]
      BY <2>1, <2>7
    <3> QED
      BY <3>1, CallsSame
  <2>10. \A a \in Accounts : w.nonce[a] = world.nonce[a] + Calls(job, k, a)
    BY <2>0 DEF JobOrdered, w
  <2>11. ASSUME NEW a \in Accounts
         PROVE  job'.world.nonce[a] = world.nonce[a] + Calls(job', k + 1, a)
    <3>1. Calls(job', k + 1, a) = Calls(job, k, a) + (IF c = a THEN 1 ELSE 0)
      <4>1. Calls(job', k + 1, a) = Calls(job', k, a) + (IF job'.callers[k + 1] = a THEN 1 ELSE 0)
        <5> DEFINE J == job'
        <5>1. k \in Nat
          BY <2>1
        <5> HIDE DEF k, J
        <5>2. Calls(J, k + 1, a) = Calls(J, k, a) + (IF J.callers[k + 1] = a THEN 1 ELSE 0)
          BY <5>1, CallsStep
        <5> QED
          BY <5>2 DEF J
      <4>2. Calls(job', k, a) = Calls(job, k, a)
        BY <2>1, <2>9
      <4> QED
        BY <2>7, <4>1, <4>2
    <3>2. Calls(job, k, a) \in Nat /\ world.nonce[a] \in Nat
      BY <2>1, <2>8, CallsFinite DEF Worlds
    <3>3. job'.world.nonce[a] = w.nonce[a] + (IF c = a THEN 1 ELSE 0)
      BY <2>6
    <3> QED
      BY <2>10, <3>1, <3>2, <3>3
  <2>12. ASSUME NEW i \in 1 .. k + 1
         PROVE  Fields(job'.txs[i]).nonce
                  = world.nonce[job'.callers[i]] + Calls(job', i - 1, job'.callers[i])
    <3>1. CASE i \in 1 .. k
      <4>1. i - 1 \in 0 .. k
        BY <2>1, <3>1
      <4>2. Fields(job.txs[i]).nonce
              = world.nonce[job.callers[i]] + Calls(job, i - 1, job.callers[i])
        BY <2>0, <3>1 DEF JobOrdered
      <4> QED
        BY <2>7, <2>9, <3>1, <4>1, <4>2
    <3>2. CASE i = k + 1
      <4>1. i - 1 = k /\ k \in 0 .. k
        BY <2>1, <3>2
      <4> QED
        BY <2>3, <2>4, <2>7, <2>9, <2>10, <3>2, <4>1 DEF c
    <3> QED
      BY <2>1, <3>1, <3>2
  <2> QED
    BY <2>7, <2>8, <2>11, <2>12 DEF JobOrdered
<1> QED
  BY <1>1, <1>2, <1>3, <1>4, <1>5, <1>6 DEF Next

\* Positions of the requests of u in a sequence of batches.
PositionsOf(cs, u) ==
    UNION {{<<n, i>> : i \in {j \in DOMAIN cs[n] : cs[n][j].sender = u}} : n \in DOMAIN cs}

\* On a disciplined chain the requests of an account are as many as its nonce.
LEMMA ChainCount ==
    ASSUME NEW bs, NEW w, Disciplined(bs, w), Len(bs) \in Nat, NEW u \in Accounts,
           w.nonce[u] \in Nat,
           \A n, i : At(bs, n, i) => SlotAt(bs, n, i)[2] \in Nat
    PROVE  Cardinality(PositionsOf([n \in 1 .. Len(bs) |-> BatchOf(bs[n])], u)) = w.nonce[u]
<1> DEFINE cs == [n \in 1 .. Len(bs) |-> BatchOf(bs[n])]
           P == PositionsOf(cs, u)
           T == 0 .. w.nonce[u] - 1
           f == [p \in P |-> SlotAt(bs, p[1], p[2])[2]]
<1>1. Once(bs) /\ Used(bs, w) /\ Full(bs, w)
  BY OverPositions
<1>2. \A n, i : <<n, i>> \in P <=> At(bs, n, i) /\ bs[n].callers[i] = u
  <2> SUFFICES ASSUME NEW n, NEW i
               PROVE  <<n, i>> \in P <=> At(bs, n, i) /\ bs[n].callers[i] = u
    OBVIOUS
  <2>1. <<n, i>> \in P <=> n \in DOMAIN cs /\ i \in {j \in DOMAIN cs[n] : cs[n][j].sender = u}
    <3> HIDE DEF cs
    <3> QED
      BY DEF PositionsOf
  <2>2. DOMAIN cs = 1 .. Len(bs)
    OBVIOUS
  <2>3. CASE n \in 1 .. Len(bs)
    <3>1. cs[n] = BatchOf(bs[n])
      BY <2>3
    <3>2. /\ DOMAIN BatchOf(bs[n]) = 1 .. Len(bs[n].txs)
          /\ \A j \in 1 .. Len(bs[n].txs) : BatchOf(bs[n])[j].sender = bs[n].callers[j]
      BY DEF BatchOf, Request
    <3> HIDE DEF cs, P
    <3> QED
      BY <2>1, <2>2, <2>3, <3>1, <3>2 DEF At
  <2>4. CASE n \notin 1 .. Len(bs)
    BY <2>1, <2>2, <2>4 DEF At
  <2> QED
    BY <2>3, <2>4
<1>3. \A p \in P : p = <<p[1], p[2]>>
  BY DEF PositionsOf
<1> HIDE DEF P
<1>4. \A p \in P : /\ At(bs, p[1], p[2])
                   /\ SlotAt(bs, p[1], p[2]) = <<u, SlotAt(bs, p[1], p[2])[2]>>
  BY <1>2, <1>3 DEF SlotAt
<1>5. \A p \in P : f[p] \in T
  <2> SUFFICES ASSUME NEW p \in P PROVE f[p] \in T
    OBVIOUS
  <2> DEFINE s == SlotAt(bs, p[1], p[2])
  <2>1. s[2] < w.nonce[s[1]] /\ s[2] \in Nat /\ s[1] = u
    BY <1>1, <1>4 DEF Used
  <2> HIDE DEF s
  <2>2. s[2] \in T
    BY <2>1
  <2> QED
    BY <2>2 DEF s
<1>6. \A p, q \in P : f[p] = f[q] => p = q
  <2> SUFFICES ASSUME NEW p \in P, NEW q \in P, f[p] = f[q] PROVE p = q
    OBVIOUS
  <2>1. SlotAt(bs, p[1], p[2]) = SlotAt(bs, q[1], q[2])
    BY <1>4
  <2>2. p[1] = q[1] /\ p[2] = q[2]
    BY <1>1, <1>4, <2>1 DEF Once
  <2> QED
    BY <1>3, <2>2
<1>7. \A v \in T : \E p \in P : f[p] = v
  <2> SUFFICES ASSUME NEW v \in T PROVE \E p \in P : f[p] = v
    OBVIOUS
  <2>1. PICK n, i : At(bs, n, i) /\ SlotAt(bs, n, i) = <<u, v>>
    BY <1>1 DEF Full
  <2>2. <<n, i>> \in P
    BY <1>2, <2>1 DEF SlotAt
  <2>3. f[<<n, i>>] = v
    BY <2>1, <2>2
  <2> QED
    BY <2>2, <2>3
<1>8. f \in [P -> T]
  BY <1>5
<1> HIDE DEF f, T
<1>9. f \in Injection(P, T) /\ f \in Surjection(P, T)
  BY <1>6, <1>7, <1>8 DEF Injection, Surjection, IsInjective
<1>10. IsFiniteSet(T) /\ Cardinality(T) = w.nonce[u]
  <2> DEFINE n == w.nonce[u]
  <2>1. n \in Nat /\ n - 1 \in Int /\ 0 \in Int
    OBVIOUS
  <2>2. T = 0 .. n - 1
    BY DEF T
  <2> HIDE DEF n
  <2>3. IsFiniteSet(0 .. n - 1) /\ Cardinality(0 .. n - 1) = IF 0 > n - 1 THEN 0 ELSE n - 1 - 0 + 1
    BY <2>1, FS_Interval
  <2>4. Cardinality(T) = n
    BY <2>1, <2>2, <2>3
  <2> QED
    BY <2>2, <2>3, <2>4 DEF n
<1>11. Cardinality(P) = Cardinality(T)
  BY <1>9, <1>10, FS_Injection
<1> QED
  BY <1>10, <1>11 DEF P

\* Nonces of the transactions of a chain.
LEMMA ChainSlots ==
    ASSUME IInv, NEW n, NEW i, At(head, n, i)
    PROVE  /\ head[n] \in HeadBlocks /\ head[n].txs[i] \in DecodedTxs
           /\ SlotAt(head, n, i)[2] \in Nat
<1>1. head[n] \in HeadBlocks
  BY DEF IInv, TypeOK, At
<1>2. head[n].txs[i] \in DecodedTxs
  BY <1>1 DEF At, HeadBlocks
<1> QED
  BY <1>1, <1>2, TxFields DEF SlotAt, ChainFields

\* The ledger counts as this module does.
LEMMA LedgerCardinality == \A S : Abstract!Cardinality(S) = Cardinality(S)
  BY DEF Abstract!Cardinality, Cardinality

\* How many requests of an account the ledger holds.
LEMMA LedgerCount ==
    ASSUME IInv, mode # "down", NEW u \in Accounts
    PROVE  Abstract!Count(Committed, u) = world.nonce[u] /\ world.nonce[u] \in Nat
<1> USE DEF IInv
<1>1. Len(head) \in Len(db) .. Len(head) /\ Len(worlds) = Len(head) + 1 /\ Len(head) \in Nat
      /\ world \in Worlds
  BY DEF DiskBehind, TypeOK, world
<1>2. Disciplined(head, world)
  <2>1. Disciplined(Prefix(Len(head)), world)
    BY <1>1 DEF StatesGood, world
  <2> QED
    BY <1>1, <2>1, SameChain DEF Prefix
<1>3. world.nonce[u] \in Nat
  BY <1>1 DEF Worlds
<1>4. \A n, i : At(head, n, i) => SlotAt(head, n, i)[2] \in Nat
  BY ChainSlots
<1>5. Cardinality(PositionsOf([n \in 1 .. Len(head) |-> BatchOf(head[n])], u)) = world.nonce[u]
  BY <1>1, <1>2, <1>3, <1>4, ChainCount
<1>6. Committed = [n \in 1 .. Len(head) |-> BatchOf(head[n])]
  BY DEF Committed
<1> QED
  BY <1>3, <1>5, <1>6, LedgerCardinality DEF Abstract!Count, PositionsOf

\* Where the disk goes with the head, its batches are the head's.
LEMMA DiskBatches ==
    ASSUME IInv, mode # "down", NEW i \in 1 .. Len(db)
    PROVE  StoredBatch(db[i]) = BatchOf(head[i])
<1>1. db[i] \in Rows /\ LoadedBlock(db[i]) = head[i]
  BY DEF IInv, TypeOK, DiskBehind
<1> QED
  BY <1>1, StoredBatchIsBatch

LEMMA OpenStutters ==
    ASSUME IInv, NEW m \in {"node", "import"}, Open(m)
    PROVE  Committed' = Committed /\ db' = db
<1>1. /\ mode = "down" /\ mode' = m /\ db' = db
      /\ head' = [i \in 1 .. Len(db) |-> LoadedBlock(db[i])] /\ Len(db) \in Nat
  BY DEF Open, IInv, TypeOK
<1>2. Len(head') = Len(db) /\ \A i \in 1 .. Len(db) : head'[i] = LoadedBlock(db[i])
  BY <1>1
<1>3. \A i \in 1 .. Len(db) : StoredBatch(db[i]) = BatchOf(head'[i])
  BY <1>2, StoredBatchIsBatch DEF IInv, TypeOK
<1> QED
  BY <1>1, <1>2, <1>3 DEF Committed

LEMMA HaltLoses ==
    ASSUME IInv, Halt
    PROVE  Abstract!Lose
<1>1. /\ mode # "down" /\ mode' = "down" /\ db' = db /\ Len(db) \in Nat /\ Len(head) \in Nat
      /\ Len(db) <= Len(head)
  BY DEF Halt, IInv, TypeOK, DiskBehind
<1>2. Committed' = [i \in 1 .. Len(db) |-> StoredBatch(db[i])]
  BY <1>1 DEF Committed
<1>3. Committed = [i \in 1 .. Len(head) |-> BatchOf(head[i])]
  BY <1>1 DEF Committed
<1>4. SubSeq(Committed, 1, Len(db)) = [i \in 1 .. Len(db) |-> BatchOf(head[i])]
  <2> DEFINE C == [i \in 1 .. Len(head) |-> BatchOf(head[i])]
             s == SubSeq(C, 1, Len(db))
  <2>1. C \in Seq({C[i] : i \in 1 .. Len(head)}) /\ Len(C) = Len(head)
    BY <1>1
  <2>2. s = [i \in 1 .. Len(db) |-> C[i]]
    BY <1>1, <2>1
  <2> QED
    BY <1>1, <1>3, <2>2
<1>5. \A i \in 1 .. Len(db) : StoredBatch(db[i]) = BatchOf(head[i])
  BY <1>1, DiskBatches
<1> QED
  BY <1>1, <1>2, <1>4, <1>5 DEF Abstract!Lose

LEMMA PersistHardens ==
    ASSUME IInv, NEW n \in 1 .. MaxHeight, Persist(n)
    PROVE  /\ n \in Len(db) + 1 .. Len(Committed)
           /\ Abstract!Harden(n)
<1>1. /\ mode = "node" /\ mode' = mode /\ head' = head /\ Len(head) \in Nat
      /\ n \in Len(db) + 1 .. Len(head) /\ Len(db) \in Nat
      /\ db' = [i \in 1 .. n |-> IF i <= Len(db) THEN db[i] ELSE StoredBlock(head[i])]
  BY DEF Persist, IInv, TypeOK
<1>2. Len(db') = n
  BY <1>1
<1>3. Committed' = Committed /\ Len(Committed) = Len(head)
  BY <1>1 DEF Committed
<1> QED
  BY <1>1, <1>2, <1>3 DEF Abstract!Harden

LEMMA IsSequence ==
    ASSUME NEW n \in Nat, NEW f, f = [i \in 1 .. n |-> f[i]], NEW S, \A i \in 1 .. n : f[i] \in S
    PROVE  f \in Seq(S)
  OBVIOUS

\* A sequence one longer than s that starts with s.
LEMMA BuiltByAppend ==
    ASSUME NEW S, NEW s \in Seq(S), NEW e \in S, NEW t \in Seq(S), Len(t) = Len(s) + 1,
           \A i \in 1 .. Len(s) : t[i] = s[i], t[Len(s) + 1] = e
    PROVE  t = Append(s, e)
<1> DEFINE a == Append(s, e)
<1>1. /\ a \in Seq(S) /\ Len(a) = Len(s) + 1 /\ a[Len(s) + 1] = e
      /\ \A i \in 1 .. Len(s) : a[i] = s[i]
  BY AppendProperties
<1>2. Len(s) \in Nat
  OBVIOUS
<1> HIDE DEF a
<1>3. \A i \in 1 .. Len(t) : t[i] = a[i]
  <2> SUFFICES ASSUME NEW i \in 1 .. Len(s) + 1 PROVE t[i] = a[i]
    OBVIOUS
  <2>1. i \in 1 .. Len(s) \/ i = Len(s) + 1
    BY <1>2
  <2> QED
    BY <1>1, <2>1
<1>4. t = a
  BY <1>1, <1>3, SeqEqual
<1> QED
  BY <1>4 DEF a

\* The batch of a block.
LEMMA BatchFacts ==
    ASSUME NEW b, Len(b.txs) \in Nat
    PROVE  LET s == BatchOf(b) IN
           /\ DOMAIN s = 1 .. Len(b.txs) /\ Len(s) = Len(b.txs)
           /\ s = [i \in 1 .. Len(b.txs) |-> s[i]]
           /\ \A i \in 1 .. Len(b.txs) :
                /\ s[i] = Request(b.callers[i], Fields(b.txs[i]))
                /\ s[i].sender = b.callers[i] /\ s[i].nonce = Fields(b.txs[i]).nonce
<1>1. BatchOf(b) = [i \in 1 .. Len(b.txs) |-> Request(b.callers[i], Fields(b.txs[i]))]
  BY DEF BatchOf
<1>2. \A c, t : Request(c, t).sender = c /\ Request(c, t).nonce = t.nonce
  BY DEF Request
<1> QED
  BY <1>1, <1>2

LEMMA CommitExecutes ==
    ASSUME IInv, JobOrdered, Commit
    PROVE  Len(Committed') = Len(Committed) + 1 /\ Abstract!Execute(Committed'[Len(Committed')])
<1> USE DEF IInv
<1>0. /\ Busy /\ job \in Jobs /\ mode # "down" /\ Len(job.callers) = Len(job.txs)
      /\ mode = IF job.path = "engine" THEN "node" ELSE "import"
  BY BusyJob DEF Commit, Executed
<1> DEFINE h == Len(head)
           k == Len(job.txs)
           b == [txs |-> job.txs, callers |-> job.callers, receipts |-> job.receipts,
                 base_fee |-> job.block.base_fee]
           batch == BatchOf(b)
<1>1. /\ h \in Nat /\ k \in Nat /\ head \in Seq(HeadBlocks) /\ Len(db) \in Nat
      /\ job.txs \in Seq(DecodedTxs) /\ job.callers \in Seq(Accounts)
  BY <1>0 DEF TypeOK, Jobs
<1>2. /\ head' = Append(head, b) /\ mode' = mode
      /\ IF job.path = "import" THEN db' = Append(db, StoredBlock(b)) ELSE db' = db
  BY DEF Commit
<1>3. b.txs = job.txs /\ b.callers = job.callers
  OBVIOUS
<1>4. /\ \A i \in 1 .. k : /\ batch[i] = Request(job.callers[i], Fields(job.txs[i]))
                          /\ batch[i].sender = job.callers[i]
                          /\ batch[i].nonce = Fields(job.txs[i]).nonce
      /\ DOMAIN batch = 1 .. k /\ Len(batch) = k /\ batch = [i \in 1 .. k |-> batch[i]]
  BY <1>1, <1>3, BatchFacts
<1>5. b \in HeadBlocks
  BY <1>0, ChainAssumption DEF HeadBlocks, Jobs
<1> HIDE DEF b
<1>6. /\ Len(head') = h + 1 /\ head'[h + 1] = b /\ \A i \in 1 .. h : head'[i] = head[i]
  BY <1>1, <1>2, <1>5
<1>7. Committed = [i \in 1 .. h |-> BatchOf(head[i])]
  BY <1>0 DEF Committed
<1>8. Committed' = [i \in 1 .. h + 1 |-> BatchOf(head'[i])]
  BY <1>0, <1>2, <1>6 DEF Committed
<1>9. Len(Committed) = h /\ Len(Committed') = h + 1 /\ Committed'[h + 1] = batch
  BY <1>1, <1>6, <1>7, <1>8
<1>10. Committed' = Append(Committed, batch)
  <2> DEFINE C == Committed
             D == Committed'
             S == {D[i] : i \in 1 .. h + 1}
  <2>1. /\ Len(C) = h /\ Len(D) = h + 1 /\ D[h + 1] = batch
        /\ C = [i \in 1 .. h |-> C[i]] /\ D = [i \in 1 .. h + 1 |-> D[i]]
    BY <1>7, <1>8, <1>9
  <2>2. \A i \in 1 .. h : D[i] = C[i]
    BY <1>1, <1>6, <1>7, <1>8
  <2> HIDE DEF C, D, batch
  <2>3. D \in Seq(S) /\ batch \in S /\ C \in Seq(S)
    <3>1. h \in Nat
      BY <1>1
    <3> HIDE DEF h
    <3>2. (\A i \in 1 .. h + 1 : D[i] \in S) /\ \A i \in 1 .. h : C[i] \in S
      BY <2>2, <3>1
    <3>3. batch \in S
      BY <2>1, <3>1
    <3> HIDE DEF S
    <3>4. h + 1 \in Nat
      BY <3>1
    <3>5. D \in Seq(S)
      BY <2>1, <3>2, <3>4, IsSequence
    <3>6. C \in Seq(S)
      BY <2>1, <3>1, <3>2, IsSequence
    <3> QED
      BY <3>3, <3>5, <3>6
  <2> HIDE DEF S, h
  <2>4. D = Append(C, batch)
    BY <2>1, <2>2, <2>3, BuiltByAppend
  <2> QED
    BY <2>4 DEF C, D
<1> HIDE DEF batch
<1>11. \A i \in 1 .. k : batch[i] \in AuthorizedRequests
  <2> SUFFICES ASSUME NEW i \in 1 .. k PROVE batch[i] \in AuthorizedRequests
    OBVIOUS
  <2>1. job.txs[i] \in DecodedTxs /\ ActsFor(job.txs[i], job.callers[i])
    BY <1>0, <1>1 DEF JobGood, AllActFor
  <2> QED
    BY <1>4, <2>1, RequestAuthorized
<1>12. batch \in Seq(AuthorizedRequests) /\ Len(batch) = k
  <2> HIDE DEF k
  <2> QED
    BY <1>1, <1>4, <1>11
<1>13. Abstract!Continues(batch)
  <2> SUFFICES ASSUME NEW i \in 1 .. k
               PROVE  batch[i].nonce = Abstract!Count(Committed, batch[i].sender)
                        + Abstract!CountIn(SubSeq(batch, 1, i - 1), batch[i].sender)
    BY <1>12 DEF Abstract!Continues
  <2> DEFINE u == job.callers[i]
  <2>1. u \in Accounts
    BY <1>0, <1>1
  <2>2. batch[i].sender = u /\ batch[i].nonce = Fields(job.txs[i]).nonce
    BY <1>4
  <2>3. Fields(job.txs[i]).nonce = world.nonce[u] + Calls(job, i - 1, u)
    BY <1>0 DEF JobOrdered
  <2>4. Abstract!Count(Committed, u) = world.nonce[u]
    BY <1>0, <2>1, LedgerCount
  <2>5. Abstract!CountIn(SubSeq(batch, 1, i - 1), u) = Calls(job, i - 1, u)
    <3> DEFINE s == SubSeq(batch, 1, i - 1)
    <3>1. DOMAIN s = 1 .. i - 1 /\ \A j \in 1 .. i - 1 : s[j] = batch[j]
      BY <1>1, <1>12
    <3>2. \A j \in 1 .. i - 1 : batch[j].sender = job.callers[j]
      <4>1. \A j \in 1 .. i - 1 : j \in 1 .. k
        <5> HIDE DEF k
        <5> QED
          BY <1>1
      <4> HIDE DEF k
      <4> QED
        BY <1>4, <4>1
    <3> HIDE DEF s, u
    <3>3. {j \in DOMAIN s : s[j].sender = u} = CallsOf(job, i - 1, u)
      BY <3>1, <3>2 DEF CallsOf
    <3>4. Abstract!CountIn(s, u) = Calls(job, i - 1, u)
      BY <3>3, LedgerCardinality DEF Abstract!CountIn, Calls
    <3> QED
      BY <3>4 DEF s
  <2> QED
    BY <2>2, <2>3, <2>4, <2>5
<1>14. Len(db') \in {Len(db), Len(Committed')}
  <2>1. CASE job.path = "import"
    <3>1. Len(db) = h
      BY <1>0, <2>1 DEF DiskBehind
    <3>2. Len(db') = Len(db) + 1
      BY <1>2, <2>1, <1>5, StoredIsRow DEF TypeOK
    <3> QED
      BY <1>9, <3>1, <3>2
  <2>2. CASE job.path # "import"
    BY <1>2, <2>2
  <2> QED
    BY <2>1, <2>2
<1> QED
  BY <1>9, <1>10, <1>12, <1>13, <1>14 DEF Abstract!Execute

LEMMA StepIsLedgerStep ==
    IInv /\ JobOrdered /\ [Next]_vars => [Abstract!Next]_(Abstract!vars)
<1> SUFFICES ASSUME IInv, JobOrdered, [Next]_vars PROVE [Abstract!Next]_(Abstract!vars)
  OBVIOUS
<1>1. CASE StartNode
  BY <1>1, OpenStutters DEF StartNode, Abstract!vars
<1>2. CASE StartImport
  BY <1>2, OpenStutters DEF StartImport, Abstract!vars
<1>3. CASE Halt
  BY <1>3, HaltLoses DEF Abstract!Next
<1>4. CASE \E n \in 1 .. MaxHeight : Persist(n)
  BY <1>4, PersistHardens DEF Abstract!Next
<1>5. CASE Commit
  BY <1>5, CommitExecutes DEF Abstract!Next
<1>6. CASE UNCHANGED <<mode, head, db>>
  BY <1>6 DEF Abstract!vars, Committed
<1>7. CASE \/ \E b \in Blocks : Submit(b)
           \/ Validate \/ ExecuteNext \/ ValidateFails \/ ExecuteFails \/ CommitFails
           \/ UNCHANGED vars
  BY <1>6, <1>7 DEF Submit, Validate, ExecuteNext, ValidateFails, ExecuteFails, CommitFails,
                    Reject, vars
<1> QED
  BY <1>1, <1>2, <1>3, <1>4, <1>5, <1>7 DEF Next

\* The node keeps the ledger's promise: authorised batches, numbered 0, 1, 2, ... for
\* every account, appended whole, and a durable prefix that no stop takes back.
THEOREM ChainImplementsLedger == Spec => ImplementsLedger
<1>1. Init => Abstract!Init
  <2> SUFFICES ASSUME Init PROVE Committed = <<>> /\ Len(db) = 0
    BY DEF Abstract!Init
  <2> QED
    BY DEF Init, Committed
<1>2. Init => JobOrdered
  BY DEF Init, JobOrdered, Busy, NoJob
<1>3. Spec => [](IInv /\ JobOrdered)
  BY <1>2, JobOrderedKept, Invariance, PTL DEF Spec
<1> QED
  BY <1>1, <1>3, StepIsLedgerStep, PTL DEF Spec, ImplementsLedger, Abstract!Spec
============================================================================
