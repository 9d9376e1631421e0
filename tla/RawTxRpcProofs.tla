--------------------------- MODULE RawTxRpcProofs ---------------------------
(***************************************************************************)
(* Proofs about RawTxRpc, for any number of permits, pool limit, set of    *)
(* calls and set of submitted strings.                                     *)
(***************************************************************************)
EXTENDS RawTxRpc, CosmosTxProofs, FiniteSetTheorems, TLAPS

Good(tx, signer) ==
    IF IsCosmos(tx)
    THEN /\ signer = tx.operation.sender
         /\ Authorized(tx.operation, tx.public_key, tx.signature.rs)
    ELSE signer = tx.tx.signer /\ signer # NoSigner

\* What recovery yields is authorised, and a Cosmos string yields a Cosmos transaction.
LEMMA RecoveredGood ==
    ASSUME NEW raw \in Raws, Recovered[raw].ok
    PROVE  /\ Recovered[raw].val.signer \in Senders
           /\ Good(Recovered[raw].val.tx, Recovered[raw].val.signer)
           /\ raw.ty = TX_TYPE => IsCosmos(Recovered[raw].val.tx)
<1> DEFINE d == decode_2718_exact(raw)
           pooled == try_into_pooled(d.val)
           s == recover_signer(pooled.val)
<1>1. d.ok /\ pooled.ok /\ s.ok /\ Recovered[raw] = Ok(from_pooled(pooled.val, s.val))
  BY DEF Recovered, PoolTransaction
<1>2. pooled = Ok(d.val)
  BY <1>1 DEF try_into_pooled, Err
<1>3. pooled.val = d.val
  BY <1>2 DEF Ok
<1>4. Recovered[raw].val.tx = d.val /\ Recovered[raw].val.signer = s.val
  BY <1>1, <1>3 DEF Ok, from_pooled
<1>5. s = recover_signer(d.val)
  BY <1>3
<1>6. typed_decode(raw).ok /\ d = Ok(typed_decode(raw).val.tx)
  BY <1>1 DEF decode_2718_exact, WholeInput, Err, Ok
<1> HIDE DEF d, pooled, s
<1>7. CASE raw.ty \in EthereumTypes
  <2>1. typed_decode(raw) = Ok([tx |-> Ethereum(raw.eth), rest |-> raw.rest])
    BY <1>7 DEF typed_decode
  <2>2. d.val = Ethereum(raw.eth)
    BY <1>6, <2>1 DEF Ok
  <2>3. ~IsCosmos(d.val) /\ d.val.tx = raw.eth
    BY <2>2 DEF Ethereum, IsCosmos
  <2>4. raw.eth.signer # NoSigner /\ s = Ok(raw.eth.signer)
    BY <1>1, <1>5, <2>3 DEF recover_signer, EthereumRecover, Err
  <2>5. s.val = raw.eth.signer
    BY <2>4 DEF Ok
  <2>6. raw.ty # TX_TYPE
    BY <1>7 DEF EthereumTypes, TX_TYPE
  <2> QED
    BY <1>4, <1>7, <2>3, <2>4, <2>5, <2>6, RpcAssumption DEF Good
<1>8. CASE raw.ty \notin EthereumTypes
  <2> DEFINE one == [raw EXCEPT !.rest = 0]
  <2>1. typed_decode(raw) = Ok([tx |-> SignedTx(one.payload.op, one.key, one.sig),
                                rest |-> raw.rest])
    BY <1>6, <1>8, DecodedCosmos
  <2> HIDE DEF one
  <2>2. d.val = SignedTx(one.payload.op, one.key, one.sig)
    BY <1>6, <2>1 DEF Ok
  <2>3. PICK op, key, sig : d.val = SignedTx(op, key, sig)
    BY <2>2
  <2>4. IsCosmos(d.val) /\ d.val.operation = op /\ d.val.public_key = key
        /\ d.val.signature.rs = sig
    BY <2>3 DEF SignedTx, IsCosmos
  <2>5. s = verify(op, key, sig, GENESIS_HASH)
    BY <1>5, <2>4 DEF recover_signer, CosmosVerify
  <2>6. Authorized(op, key, sig) /\ s = Ok(op.sender)
    BY <1>1, <2>5, VerifyAuthorizes
  <2>7. s.val = op.sender /\ op.sender \in Senders
    BY <2>6, RpcAssumption DEF Ok, Authorized
  <2> QED
    BY <1>4, <2>4, <2>6, <2>7 DEF Good
<1> QED
  BY <1>7, <1>8

----------------------------------------------------------------------------
(* The inductive invariant                                                   *)

\* What is at the await, or was left there, passed the checks.
SendingChecked ==
    \A c \in Calls : pc[c] \in {"sending", "queued"} =>
        /\ param[c] \in Params /\ param[c].hex # "none" /\ param[c].raw.ty = TX_TYPE
        /\ decode_wire(param[c].raw).ok

IInv == TypeOK /\ PermitsAccounted /\ BoundedOvershoot /\ PoolAuthorized /\ SendingChecked

LEMMA Counting ==
    ASSUME TypeOK
    PROVE  /\ IsFiniteSet(Holding) /\ IsFiniteSet(Sending) /\ IsFiniteSet(ByCosmos)
           /\ IsFiniteSet(Queued) /\ IsFiniteSet(HungUp)
           /\ Cardinality(Holding) \in Nat /\ Cardinality(Sending) \in Nat
           /\ Cardinality(ByCosmos) \in Nat /\ Cardinality(pool) \in Nat
           /\ Cardinality(Queued) \in Nat /\ Cardinality(HungUp) \in Nat
           /\ Cardinality(Sending) <= Cardinality(Holding)
           /\ Cardinality(Queued) <= Cardinality(HungUp)
           /\ Cardinality(ByCosmos) <= Cardinality(pool)
<1>1. /\ Holding \subseteq Calls /\ Sending \subseteq Holding /\ ByCosmos \subseteq pool
      /\ HungUp \subseteq Calls /\ Queued \subseteq HungUp
  BY DEF Holding, Sending, ByCosmos, HungUp, Queued
<1>2. IsFiniteSet(Calls) /\ IsFiniteSet(pool)
  BY RpcAssumption DEF TypeOK
<1>3. IsFiniteSet(Holding) /\ IsFiniteSet(HungUp)
  BY <1>1, <1>2, FS_Subset
<1>4. IsFiniteSet(Sending) /\ Cardinality(Sending) <= Cardinality(Holding)
  BY <1>1, <1>3, FS_Subset
<1>5. IsFiniteSet(Queued) /\ Cardinality(Queued) <= Cardinality(HungUp)
  BY <1>1, <1>3, FS_Subset
<1>6. IsFiniteSet(ByCosmos) /\ Cardinality(ByCosmos) <= Cardinality(pool)
  BY <1>1, <1>2, FS_Subset
<1> QED
  BY <1>2, <1>3, <1>4, <1>5, <1>6, FS_CardinalityType

LEMMA InitIInv == Init => IInv
<1> SUFFICES ASSUME Init PROVE IInv
  OBVIOUS
<1>1. Holding = {} /\ Sending = {} /\ ByCosmos = {} /\ Queued = {} /\ HungUp = {}
  BY DEF Init, Holding, Sending, ByCosmos, Queued, HungUp
<1>2. IsFiniteSet({}) /\ Cardinality({}) = 0
  BY FS_EmptySet
<1>0. PERMITS \in Nat /\ PERMITS >= 1 /\ POOL_LIMIT \in Nat /\ POOL_LIMIT >= 1
  BY RpcAssumption
<1>3. TypeOK
  <2>1. /\ pc = [c \in Calls |-> "idle"] /\ param = [c \in Calls |-> NoParam]
        /\ permits = PERMITS /\ pool = {} /\ nonces = [s \in Senders |-> 0]
    BY DEF Init
  <2>2. pc \in [Calls -> Stages]
    BY <2>1 DEF Stages
  <2>3. param \in [Calls -> Params \cup {NoParam}]
    BY <2>1
  <2>4. permits \in 0 .. PERMITS /\ nonces \in [Senders -> Nat]
    BY <1>0, <2>1
  <2> QED
    BY <1>2, <2>1, <2>2, <2>3, <2>4 DEF TypeOK
<1>4. PermitsAccounted /\ BoundedOvershoot
  <2>1. /\ Cardinality(Holding) = 0 /\ Cardinality(Sending) = 0 /\ Cardinality(ByCosmos) = 0
        /\ Cardinality(Queued) = 0 /\ Cardinality(HungUp) = 0
    BY <1>1, <1>2
  <2>2. permits = PERMITS
    BY DEF Init
  <2> QED
    BY <1>0, <2>1, <2>2 DEF PermitsAccounted, BoundedOvershoot
<1>5. PoolAuthorized /\ SendingChecked
  BY DEF Init, PoolAuthorized, SendingChecked
<1> QED
  BY <1>3, <1>4, <1>5 DEF IInv

\* The end of a call that holds a permit, or of one that was refused.
LEMMA ReturnKeeps ==
    ASSUME IInv, NEW c \in Calls, NEW r, Return(c, r), c \notin HungUp
    PROVE  /\ pc' \in [Calls -> Stages]
           /\ param' = param
           /\ permits' \in 0 .. PERMITS
           /\ PermitsAccounted'
           /\ Sending' = Sending \ {c} /\ Queued' = Queued /\ HungUp' = HungUp
           /\ SendingChecked'
<1> USE DEF IInv
<1>1. /\ pc' = [pc EXCEPT ![c] = "done"] /\ param' = param
      /\ permits' = IF c \in Holding THEN permits + 1 ELSE permits
  BY DEF Return
<1>2. pc' \in [Calls -> Stages]
  BY <1>1 DEF TypeOK, Stages
<1>3. /\ Sending' = Sending \ {c} /\ Holding' = Holding \ {c}
      /\ Queued' = Queued /\ HungUp' = HungUp
  BY <1>1 DEF Sending, Holding, Queued, HungUp, TypeOK
<1>4. SendingChecked'
  BY <1>1 DEF SendingChecked, TypeOK
<1>5. permits \in Nat /\ PERMITS \in Nat /\ permits + Cardinality(Holding) = PERMITS
      /\ Cardinality(Holding) \in Nat /\ IsFiniteSet(Holding)
  BY Counting, RpcAssumption DEF TypeOK, PermitsAccounted
<1>6. CASE c \in Holding
  <2>1. Cardinality(Holding') = Cardinality(Holding) - 1 /\ Cardinality(Holding') \in Nat
    BY <1>3, <1>5, <1>6, FS_RemoveElement, FS_CardinalityType
  <2>2. permits' = permits + 1
    BY <1>1, <1>6
  <2>3. permits' \in 0 .. PERMITS /\ permits' + Cardinality(Holding') = PERMITS
    BY <1>5, <2>1, <2>2
  <2> QED
    BY <1>1, <1>2, <1>3, <1>4, <2>3 DEF PermitsAccounted
<1>7. CASE c \notin Holding
  <2>1. Holding' = Holding /\ permits' = permits
    BY <1>1, <1>3, <1>7
  <2>2. permits' \in 0 .. PERMITS /\ permits' + Cardinality(Holding') = PERMITS
    BY <1>5, <2>1
  <2> QED
    BY <1>1, <1>2, <1>3, <1>4, <2>2 DEF PermitsAccounted
<1> QED
  BY <1>6, <1>7

\* ... with the pool as it was.
LEMMA FailKeeps ==
    ASSUME IInv, NEW c \in Calls, NEW r, Return(c, r), c \notin HungUp,
           UNCHANGED <<pool, mined, nonces>>
    PROVE  IInv'
<1>1. /\ pc' \in [Calls -> Stages] /\ param' = param
      /\ permits' \in 0 .. PERMITS /\ PermitsAccounted' /\ SendingChecked'
      /\ Sending' = Sending \ {c} /\ Queued' = Queued /\ HungUp' = HungUp
  BY ReturnKeeps
<1> USE DEF IInv
<1>2. TypeOK'
  BY <1>1 DEF TypeOK
<1>3. PoolAuthorized'
  BY DEF PoolAuthorized
<1>4. ByCosmos' = ByCosmos
  BY DEF ByCosmos
<1>5. Cardinality(Sending') <= Cardinality(Sending) /\ Cardinality(Sending') \in Nat
  BY <1>1, Counting, FS_Subset, FS_CardinalityType
<1>6. BoundedOvershoot'
  BY <1>1, <1>4, <1>5, Counting, RpcAssumption DEF BoundedOvershoot
<1> QED
  BY <1>1, <1>2, <1>3, <1>6

LEMMA EnterKeeps ==
    ASSUME IInv, NEW c \in Calls, NEW p \in Params, Enter(c, p) PROVE IInv'
<1> USE DEF IInv
<1>1. /\ pc[c] = "idle" /\ permits > 0 /\ permits' = permits - 1
      /\ pc' = [pc EXCEPT ![c] = "entered"] /\ param' = [param EXCEPT ![c] = p]
      /\ pool' = pool /\ nonces' = nonces
  BY DEF Enter
<1>2. /\ Holding' = Holding \cup {c} /\ c \notin Holding /\ Sending' = Sending
      /\ Queued' = Queued /\ HungUp' = HungUp
  BY <1>1 DEF Holding, Sending, Queued, HungUp, TypeOK
<1>3. Cardinality(Holding') = Cardinality(Holding) + 1
  BY <1>2, Counting, FS_AddElement
<1>4. permits \in 0 .. PERMITS /\ PERMITS \in Nat
  BY RpcAssumption DEF TypeOK
<1>5. TypeOK'
  BY <1>1, <1>4 DEF TypeOK, Stages
<1>6. PermitsAccounted'
  BY <1>1, <1>3, <1>4, Counting DEF PermitsAccounted
<1>7. BoundedOvershoot' /\ PoolAuthorized'
  BY <1>1, <1>2 DEF BoundedOvershoot, ByCosmos, PoolAuthorized
<1>8. SendingChecked'
  BY <1>1 DEF SendingChecked, TypeOK
<1> QED
  BY <1>5, <1>6, <1>7, <1>8

\* A refusal of decode_wire never reads like a success of the checks.
LEMMA DecodeErrors ==
    ASSUME NEW raw, ~decode_wire(raw).ok PROVE decode_wire(raw).err # "none"
<1> DEFINE d == decode_payload(raw.payload)
<1>1. ~d.ok => d.err \in {"Limit", "Encoding"}
  BY DEF decode_payload, Err, Ok
<1> HIDE DEF d
<1>2. decode_wire(raw) = d \/ decode_wire(raw).ok
      \/ decode_wire(raw).err \in {"Limit", "Encoding", "PublicKey", "Signature"}
  BY DEF decode_wire, Err, Ok, d
<1> QED
  BY <1>1, <1>2

\* The heart of the bound: whoever passes the check saw a pool below the limit, no more
\* than PERMITS calls are at the await, and what is queued besides is of calls that hung up.
LEMMA CheckKeeps ==
    ASSUME IInv, NEW c \in Calls, Check(c) PROVE IInv'
<1> USE DEF IInv
<1> DEFINE e == CheckError(param[c])
<1>1. pc[c] = "entered" /\ UNCHANGED <<pool, mined, nonces>>
  BY DEF Check
<1>2. CASE e # "none"
  <2>1. Return(c, Err(e))
    BY <1>2 DEF Check
  <2>2. c \notin HungUp
    BY <1>1 DEF HungUp
  <2> QED
    BY <1>1, <2>1, <2>2, FailKeeps
<1>3. CASE e = "none"
  <2>1. /\ pc' = [pc EXCEPT ![c] = "sending"] /\ UNCHANGED <<param, result, permits>>
    BY <1>3 DEF Check
  <2>2. /\ param[c].hex # "none" /\ param[c].raw.ty = TX_TYPE
        /\ ~(Cardinality(pool) >= POOL_LIMIT)
        /\ ~WireCheck[param[c].raw].ok => WireCheck[param[c].raw].err = "none"
    BY <1>3 DEF CheckError
  <2> HIDE DEF e
  <2>3. Holding' = Holding /\ Queued' = Queued /\ HungUp' = HungUp
    BY <1>1, <2>1 DEF Holding, Queued, HungUp, TypeOK
  <2>4. TypeOK'
    BY <1>1, <2>1 DEF TypeOK, Stages
  <2>5. PermitsAccounted'
    BY <2>1, <2>3 DEF PermitsAccounted
  <2>6. param[c] \in Params
    BY <2>2 DEF TypeOK, NoParam
  <2>12. param[c].raw \in Raws /\ WireCheck[param[c].raw] = decode_wire(param[c].raw)
    BY <2>2, <2>6 DEF Raws, WireCheck
  <2>13. decode_wire(param[c].raw).ok
    BY <2>2, <2>12, DecodeErrors
  <2>7. SendingChecked'
    BY <2>1, <2>2, <2>6, <2>13 DEF SendingChecked, TypeOK
  <2>8. PoolAuthorized' /\ ByCosmos' = ByCosmos
    BY <1>1 DEF PoolAuthorized, ByCosmos
  <2>9. /\ Cardinality(Sending') <= Cardinality(Holding') /\ Cardinality(Sending') \in Nat
        /\ Cardinality(Holding') \in Nat
    <3>1. Sending' \subseteq Holding' /\ Holding' = Holding
      BY <2>3 DEF Sending, Holding
    <3> QED
      BY <3>1, Counting, FS_Subset, FS_CardinalityType
  <2>10. /\ permits' \in Nat /\ permits' + Cardinality(Holding') = PERMITS
         /\ PERMITS \in Nat /\ POOL_LIMIT \in Nat
    BY <2>4, <2>5, RpcAssumption DEF TypeOK, PermitsAccounted
  <2>11. BoundedOvershoot'
    BY <2>2, <2>3, <2>8, <2>9, <2>10, Counting DEF BoundedOvershoot
  <2> QED
    BY <2>4, <2>5, <2>7, <2>8, <2>11
<1> QED
  BY <1>2, <1>3

\* What SendResult accepts is what recovery yielded.
LEMMA SendResultOk ==
    ASSUME NEW raw, SendResult(raw).ok PROVE SendResult(raw) = Recovered[raw] /\ Recovered[raw].ok
  BY DEF SendResult, Admission, Err

\* A pool with one more recovered transaction.
LEMMA InsertKeeps ==
    ASSUME IInv, NEW raw \in Raws, Recovered[raw].ok, NEW by \in {"cosmos", "other"},
           by = "cosmos" => raw.ty = TX_TYPE,
           pool' = With(Recovered[raw].val, by)
    PROVE  /\ IsFiniteSet(pool')
           /\ \A e \in pool' : e.signer \in Senders /\ e.by \in {"cosmos", "other"}
           /\ PoolAuthorized'
           /\ by = "other" => Cardinality(ByCosmos') <= Cardinality(ByCosmos)
           /\ /\ IsFiniteSet(ByCosmos') /\ Cardinality(ByCosmos') \in Nat
              /\ Cardinality(ByCosmos') <= Cardinality(ByCosmos) + 1
<1> USE DEF IInv
<1> DEFINE n == Entry(Recovered[raw].val, by)
           kept == {e \in pool : ~Rivals(e, Recovered[raw].val)}
<1>1. /\ n.signer \in Senders /\ Good(n.tx, n.signer) /\ n.by = by
      /\ by = "cosmos" => IsCosmos(n.tx)
  BY RecoveredGood DEF Entry
<1>2. pool' = kept \cup {n} /\ kept \subseteq pool
  BY DEF With
<1> HIDE DEF n, kept
<1>3. IsFiniteSet(pool')
  BY <1>2, FS_AddElement, FS_Subset DEF TypeOK
<1>4. \A e \in pool' : e.signer \in Senders /\ e.by \in {"cosmos", "other"}
  BY <1>1, <1>2 DEF TypeOK
<1>5. PoolAuthorized'
  BY <1>1, <1>2 DEF PoolAuthorized, Good
<1>6. CASE by = "other"
  <2>1. ByCosmos' \subseteq ByCosmos
    BY <1>1, <1>2, <1>6 DEF ByCosmos
  <2>2. /\ IsFiniteSet(ByCosmos') /\ Cardinality(ByCosmos') \in Nat
        /\ Cardinality(ByCosmos') <= Cardinality(ByCosmos) /\ Cardinality(ByCosmos) \in Nat
    BY <2>1, Counting, FS_Subset, FS_CardinalityType
  <2> QED
    BY <1>3, <1>4, <1>5, <1>6, <2>2
<1>7. CASE by = "cosmos"
  <2>1. ByCosmos' \subseteq ByCosmos \cup {n}
    BY <1>1, <1>2, <1>7 DEF ByCosmos
  <2>2. /\ IsFiniteSet(ByCosmos') /\ Cardinality(ByCosmos') \in Nat
        /\ Cardinality(ByCosmos') <= Cardinality(ByCosmos) + 1
    <3>1. IsFiniteSet(ByCosmos) /\ Cardinality(ByCosmos) \in Nat
      BY Counting
    <3>2. /\ IsFiniteSet(ByCosmos \cup {n})
          /\ \/ Cardinality(ByCosmos \cup {n}) = Cardinality(ByCosmos)
             \/ Cardinality(ByCosmos \cup {n}) = Cardinality(ByCosmos) + 1
      BY <3>1, FS_AddElement
    <3>3. /\ IsFiniteSet(ByCosmos') /\ Cardinality(ByCosmos') \in Nat
          /\ Cardinality(ByCosmos') <= Cardinality(ByCosmos \cup {n})
      BY <2>1, <3>2, FS_Subset, FS_CardinalityType
    <3> QED
      BY <3>1, <3>2, <3>3
  <2> QED
    BY <1>3, <1>4, <1>5, <1>7, <2>2
<1> QED
  BY <1>6, <1>7

\* The pool takes the transaction of a call that waits for it.
LEMMA TakenKeeps ==
    ASSUME IInv, NEW c \in Calls, NEW a, pc[c] = "sending", UNCHANGED <<mined, nonces>>,
           SendResult(param[c].raw).ok,
           pool' = With(SendResult(param[c].raw).val, "cosmos"),
           Return(c, a)
    PROVE  IInv'
<1> USE DEF IInv
<1> DEFINE raw == param[c].raw
           r == SendResult(raw)
<1>1. raw \in Raws /\ raw.ty = TX_TYPE
  BY DEF SendingChecked, Raws
<1>2. r = Recovered[raw] /\ Recovered[raw].ok
  BY SendResultOk
<1>3. pool' = With(Recovered[raw].val, "cosmos")
  BY <1>2
<1> HIDE DEF r, raw
<1>4. /\ pc' \in [Calls -> Stages] /\ param' = param
      /\ permits' \in 0 .. PERMITS /\ PermitsAccounted' /\ SendingChecked'
      /\ Sending' = Sending \ {c} /\ Queued' = Queued /\ HungUp' = HungUp
  BY ReturnKeeps DEF HungUp
<1>5. /\ IsFiniteSet(pool')
      /\ \A e \in pool' : e.signer \in Senders /\ e.by \in {"cosmos", "other"}
      /\ PoolAuthorized'
      /\ Cardinality(ByCosmos') \in Nat
      /\ Cardinality(ByCosmos') <= Cardinality(ByCosmos) + 1
  BY <1>1, <1>2, <1>3, InsertKeeps
<1>6. TypeOK'
  BY <1>4, <1>5 DEF TypeOK
<1>7. c \in Sending
  BY DEF Sending
<1>8. Cardinality(Sending') = Cardinality(Sending) - 1
  BY <1>4, <1>7, Counting, FS_RemoveElement
<1>9. BoundedOvershoot'
  BY <1>4, <1>5, <1>8, Counting, RpcAssumption DEF BoundedOvershoot
<1> QED
  BY <1>4, <1>5, <1>6, <1>9

LEMMA SendKeeps ==
    ASSUME IInv, NEW c \in Calls, Send(c) PROVE IInv'
<1> DEFINE r == SendResult(param[c].raw)
<1>1. pc[c] = "sending" /\ UNCHANGED <<mined, nonces>>
  BY DEF Send
<1>2. CASE ~r.ok
  <2>1. UNCHANGED pool /\ Return(c, r)
    BY <1>2 DEF Send
  <2>2. c \notin HungUp
    BY <1>1 DEF HungUp
  <2> QED
    BY <1>1, <2>1, <2>2, FailKeeps
<1>3. CASE r.ok
  <2>1. pool' = With(r.val, "cosmos") /\ Return(c, Ok(tx_hash(r.val.tx)))
    BY <1>3 DEF Send
  <2> QED
    BY <1>1, <1>3, <2>1, TakenKeeps
<1> QED
  BY <1>2, <1>3

\* A call that hangs up takes its insertion with it to the queue, and counts as gone.
LEMMA HangupKeeps ==
    ASSUME IInv, NEW c \in Calls, Hangup(c) PROVE IInv'
<1> USE DEF IInv
<1>1. /\ pc[c] = "sending" /\ pc' = [pc EXCEPT ![c] = "queued"] /\ permits' = permits + 1
      /\ UNCHANGED <<param, pool, mined, nonces>>
  BY DEF Hangup
<1>2. /\ Holding' = Holding \ {c} /\ c \in Holding /\ Sending' = Sending \ {c} /\ c \in Sending
      /\ Queued' = Queued \cup {c} /\ c \notin Queued
      /\ HungUp' = HungUp \cup {c} /\ c \notin HungUp
  BY <1>1 DEF Holding, Sending, Queued, HungUp, TypeOK
<1>3. /\ Cardinality(Holding') = Cardinality(Holding) - 1
      /\ Cardinality(Sending') = Cardinality(Sending) - 1
  BY <1>2, Counting, FS_RemoveElement
<1>4. /\ Cardinality(Queued') = Cardinality(Queued) + 1
      /\ Cardinality(HungUp') = Cardinality(HungUp) + 1
  BY <1>2, Counting, FS_AddElement
<1>5. permits' \in 0 .. PERMITS /\ permits' + Cardinality(Holding') = PERMITS
  <2>1. /\ permits \in Nat /\ PERMITS \in Nat /\ permits + Cardinality(Holding) = PERMITS
        /\ Cardinality(Holding) \in Nat
    BY Counting, RpcAssumption DEF TypeOK, PermitsAccounted
  <2>2. Cardinality(Holding') \in Nat
    BY <1>2, Counting, FS_RemoveElement, FS_CardinalityType
  <2> QED
    BY <1>1, <1>3, <2>1, <2>2
<1>6. TypeOK' /\ PermitsAccounted'
  BY <1>1, <1>5 DEF TypeOK, Stages, PermitsAccounted
<1>7. PoolAuthorized' /\ ByCosmos' = ByCosmos
  BY <1>1 DEF PoolAuthorized, ByCosmos
<1>8. SendingChecked'
  BY <1>1 DEF SendingChecked, TypeOK
<1>9. BoundedOvershoot'
  BY <1>3, <1>4, <1>7, Counting, RpcAssumption DEF BoundedOvershoot
<1> QED
  BY <1>6, <1>7, <1>8, <1>9

\* The insertion of a call that is gone was counted while it was queued.
LEMMA LateInsertKeeps ==
    ASSUME IInv, NEW c \in Calls, LateInsert(c) PROVE IInv'
<1> USE DEF IInv
<1> DEFINE raw == param[c].raw
           r == SendResult(raw)
<1>1. /\ pc[c] = "queued" /\ pc' = [pc EXCEPT ![c] = "gone"]
      /\ UNCHANGED <<param, permits, mined, nonces>>
      /\ IF r.ok THEN pool' = With(r.val, "cosmos") ELSE UNCHANGED pool
  BY DEF LateInsert
<1>2. raw \in Raws /\ raw.ty = TX_TYPE
  BY <1>1 DEF SendingChecked, Raws
<1>3. /\ Holding' = Holding /\ Sending' = Sending /\ HungUp' = HungUp
      /\ Queued' = Queued \ {c} /\ c \in Queued
  BY <1>1 DEF Holding, Sending, Queued, HungUp, TypeOK
<1>4. Cardinality(Queued') = Cardinality(Queued) - 1
  BY <1>3, Counting, FS_RemoveElement
<1>5. /\ IsFiniteSet(pool')
      /\ \A e \in pool' : e.signer \in Senders /\ e.by \in {"cosmos", "other"}
      /\ PoolAuthorized'
      /\ Cardinality(ByCosmos') \in Nat
      /\ Cardinality(ByCosmos') <= Cardinality(ByCosmos) + 1
  <2>1. CASE r.ok
    <3>1. r = Recovered[raw] /\ Recovered[raw].ok
      BY <2>1, SendResultOk
    <3>2. pool' = With(Recovered[raw].val, "cosmos")
      BY <1>1, <2>1, <3>1
    <3> HIDE DEF r, raw
    <3> QED
      BY <1>2, <3>1, <3>2, InsertKeeps
  <2>2. CASE ~r.ok
    <3>1. pool' = pool
      BY <1>1, <2>2
    <3>2. ByCosmos' = ByCosmos /\ PoolAuthorized'
      BY <3>1 DEF ByCosmos, PoolAuthorized
    <3> QED
      BY <3>1, <3>2, Counting DEF TypeOK
  <2> QED
    BY <2>1, <2>2
<1> HIDE DEF r, raw
<1>6. TypeOK'
  BY <1>1, <1>5 DEF TypeOK, Stages
<1>7. PermitsAccounted' /\ SendingChecked'
  BY <1>1, <1>3 DEF PermitsAccounted, SendingChecked, TypeOK
<1>8. BoundedOvershoot'
  BY <1>3, <1>4, <1>5, Counting, RpcAssumption DEF BoundedOvershoot
<1> QED
  BY <1>5, <1>6, <1>7, <1>8

LEMMA SendOtherKeeps ==
    ASSUME IInv, NEW raw \in OtherRaws, SendOther(raw) PROVE IInv'
<1> USE DEF IInv
<1> DEFINE r == SendResult(raw)
<1>1. /\ r.ok /\ pool' = With(r.val, "other")
      /\ UNCHANGED <<pc, param, result, permits, mined, nonces>>
  BY DEF SendOther
<1>2. r = Recovered[raw] /\ Recovered[raw].ok /\ raw \in Raws
  BY <1>1, SendResultOk DEF Raws
<1>3. pool' = With(Recovered[raw].val, "other")
  BY <1>1, <1>2
<1> HIDE DEF r
<1>4. /\ IsFiniteSet(pool')
      /\ \A e \in pool' : e.signer \in Senders /\ e.by \in {"cosmos", "other"}
      /\ PoolAuthorized' /\ Cardinality(ByCosmos') \in Nat
      /\ Cardinality(ByCosmos') <= Cardinality(ByCosmos)
  BY <1>2, <1>3, InsertKeeps
<1>5. TypeOK'
  BY <1>1, <1>4 DEF TypeOK
<1>6. Sending' = Sending /\ Holding' = Holding /\ Queued' = Queued /\ HungUp' = HungUp
  BY <1>1 DEF Sending, Holding, Queued, HungUp
<1>7. PermitsAccounted' /\ SendingChecked'
  BY <1>1, <1>6 DEF PermitsAccounted, SendingChecked
<1>8. BoundedOvershoot'
  BY <1>4, <1>6, Counting, RpcAssumption DEF BoundedOvershoot
<1> QED
  BY <1>4, <1>5, <1>7, <1>8

LEMMA MineKeeps ==
    ASSUME IInv, NEW e \in pool, Mine(e) PROVE IInv'
<1> USE DEF IInv
<1>1. /\ pool' \subseteq pool /\ nonces' = [nonces EXCEPT ![e.signer] = @ + 1]
      /\ UNCHANGED <<pc, param, result, permits>>
  BY DEF Mine
<1>2. IsFiniteSet(pool') /\ e.signer \in Senders
  BY <1>1, FS_Subset DEF TypeOK
<1>3. TypeOK'
  BY <1>1, <1>2 DEF TypeOK
<1>4. ByCosmos' \subseteq ByCosmos
  BY <1>1 DEF ByCosmos
<1>5. Cardinality(ByCosmos') <= Cardinality(ByCosmos) /\ Cardinality(ByCosmos') \in Nat
  BY <1>4, Counting, FS_Subset, FS_CardinalityType
<1>6. Sending' = Sending /\ Holding' = Holding /\ Queued' = Queued /\ HungUp' = HungUp
  BY <1>1 DEF Sending, Holding, Queued, HungUp
<1>7. PermitsAccounted' /\ SendingChecked' /\ PoolAuthorized'
  BY <1>1, <1>6 DEF PermitsAccounted, SendingChecked, PoolAuthorized
<1>8. BoundedOvershoot'
  BY <1>5, <1>6, Counting, RpcAssumption DEF BoundedOvershoot
<1> QED
  BY <1>3, <1>7, <1>8

----------------------------------------------------------------------------
(* The answers                                                               *)

\* What decides between rivals is a number.
Counted == \A e \in pool : Fields(e.tx).nonce \in Nat /\ Fields(e.tx).max_fee_per_gas \in Nat

\* e has the place the operation asked for.
At(e, op) == e.signer = op.sender /\ Fields(e.tx).nonce = op.nonce

\* The string, or a dearer one, has its place in the pool, or the place is taken for good.
Stands(raw) ==
    LET op == raw.payload.op
    IN  \/ \E e \in pool : At(e, op) /\ encode_2718(e.tx) = raw
                           /\ Fields(e.tx).max_fee_per_gas = op.max_fee_per_gas
        \/ \E e \in pool : At(e, op) /\ Fields(e.tx).max_fee_per_gas > op.max_fee_per_gas
        \/ op.nonce < nonces[op.sender]

\* Operations the pool can compare.
Placed(op) == op.sender \in Senders /\ op.nonce \in Nat /\ op.max_fee_per_gas \in Nat

Answers ==
    /\ result = [c \in Calls |-> result[c]]
    /\ \A c \in Calls : result[c].ok =>
           /\ pc[c] = "done"
           /\ result[c].val = transaction_hash(param[c].raw)
           /\ Placed(param[c].raw.payload.op)
           /\ Stands(param[c].raw)

AInv == IInv /\ Counted /\ Answers

\* The pool takes a recovered transaction, or a block takes one from the pool.
Inserts(raw, by) ==
    /\ SendResult(raw).ok /\ pool' = With(SendResult(raw).val, by)
    /\ UNCHANGED <<mined, nonces>>

\* Recovery keeps the numbers of the string it read.
LEMMA RecoveredNumbers ==
    ASSUME NEW raw \in Raws, Recovered[raw].ok
    PROVE  /\ Fields(Recovered[raw].val.tx).nonce \in Nat
           /\ Fields(Recovered[raw].val.tx).max_fee_per_gas \in Nat
<1> DEFINE d == decode_2718_exact(raw)
           pooled == try_into_pooled(d.val)
           s == recover_signer(pooled.val)
           tx == Recovered[raw].val.tx
<1>1. d.ok /\ pooled.ok /\ s.ok /\ Recovered[raw] = Ok(from_pooled(pooled.val, s.val))
  BY DEF Recovered, PoolTransaction
<1>2. pooled = Ok(d.val)
  BY <1>1 DEF try_into_pooled, Err
<1>3. tx = d.val
  BY <1>1, <1>2 DEF Ok, from_pooled
<1>4. typed_decode(raw).ok /\ d = Ok(typed_decode(raw).val.tx)
  BY <1>1 DEF decode_2718_exact, WholeInput, Err, Ok
<1> HIDE DEF d, pooled, s, tx
<1>5. CASE raw.ty \in EthereumTypes
  <2>1. typed_decode(raw) = Ok([tx |-> Ethereum(raw.eth), rest |-> raw.rest])
    BY <1>5 DEF typed_decode
  <2>2. tx = Ethereum(raw.eth)
    BY <1>3, <1>4, <2>1 DEF Ok
  <2>3. Fields(tx) = Accessors(raw.eth)
    BY <2>2 DEF Fields, Ethereum, IsCosmos
  <2> QED
    BY <1>5, <2>3, RpcAssumption DEF Accessors, tx
<1>6. CASE raw.ty \notin EthereumTypes
  <2> DEFINE one == [raw EXCEPT !.rest = 0]
  <2>1. /\ typed_decode(raw) = Ok([tx |-> SignedTx(one.payload.op, one.key, one.sig),
                                   rest |-> raw.rest])
        /\ one = encode_wire(one.payload.op, one.key, one.sig)
    BY <1>4, <1>6, DecodedCosmos
  <2>2. raw.ty = TX_TYPE
    BY <1>4, <1>6 DEF typed_decode, Err
  <2>3. one.payload = raw.payload
    BY <2>1 DEF encode_wire
  <2> HIDE DEF one
  <2>4. tx = SignedTx(raw.payload.op, one.key, one.sig)
    BY <1>3, <1>4, <2>1, <2>3 DEF Ok
  <2>5. Fields(tx) = Accessors(raw.payload.op)
    BY <2>4 DEF Fields, SignedTx, IsCosmos
  <2> QED
    BY <2>2, <2>5, RpcAssumption DEF Accessors, tx
<1> QED
  BY <1>5, <1>6

\* A string that passed the endpoint's checks and that the pool took: its entry is the
\* string's, under the hash of the string.
LEMMA TakenFacts ==
    ASSUME NEW raw \in Raws, Recovered[raw].ok, decode_wire(raw).ok, raw.ty = TX_TYPE
    PROVE  LET t == Recovered[raw].val
               op == raw.payload.op
           IN  /\ encode_2718(t.tx) = raw /\ tx_hash(t.tx) = transaction_hash(raw)
               /\ At(t, op) /\ Fields(t.tx).max_fee_per_gas = op.max_fee_per_gas
               /\ Placed(op)
<1> DEFINE t == Recovered[raw].val
           op == raw.payload.op
           d == decode_2718_exact(raw)
           pooled == try_into_pooled(d.val)
           s == recover_signer(pooled.val)
<1>1. d.ok /\ pooled.ok /\ s.ok /\ Recovered[raw] = Ok(from_pooled(pooled.val, s.val))
  BY DEF Recovered, PoolTransaction
<1>2. pooled = Ok(d.val)
  BY <1>1 DEF try_into_pooled, Err
<1>3. t.tx = d.val
  BY <1>1, <1>2 DEF Ok, from_pooled
<1>4. typed_decode(raw).ok /\ d = Ok(typed_decode(raw).val.tx)
  BY <1>1 DEF decode_2718_exact, WholeInput, Err, Ok
<1>5. raw = encode_wire(op, raw.key, raw.sig)
  BY DecodeWireFacts
<1>6. [raw EXCEPT !.rest = 0] = raw
  BY <1>5 DEF encode_wire
<1>7. raw.ty \notin EthereumTypes
  BY DEF EthereumTypes, TX_TYPE
<1>8. typed_decode(raw) = Ok([tx |-> SignedTx(op, raw.key, raw.sig), rest |-> raw.rest])
  BY <1>4, <1>6, <1>7, DecodedCosmos
<1>9. /\ t.signer \in Senders /\ Good(t.tx, t.signer)
  BY RecoveredGood
<1> HIDE DEF t, d, op, pooled, s
<1>10. t.tx = SignedTx(op, raw.key, raw.sig)
  BY <1>3, <1>4, <1>8 DEF Ok
<1>11. /\ IsCosmos(t.tx) /\ t.tx.operation = op
       /\ t.tx.raw = encode_wire(op, raw.key, raw.sig)
       /\ t.tx.hash = transaction_hash(encode_wire(op, raw.key, raw.sig))
  BY <1>10 DEF SignedTx, IsCosmos
<1>12. encode_2718(t.tx) = raw /\ tx_hash(t.tx) = transaction_hash(raw)
  BY <1>5, <1>11 DEF encode_2718, tx_hash
<1>13. Fields(t.tx).nonce = op.nonce /\ Fields(t.tx).max_fee_per_gas = op.max_fee_per_gas
  BY <1>11 DEF Fields, Accessors
<1>14. t.signer = op.sender
  BY <1>9, <1>11 DEF Good
<1>15. op.nonce \in Nat /\ op.max_fee_per_gas \in Nat
  BY RpcAssumption DEF op
<1> QED
  BY <1>9, <1>12, <1>13, <1>14, <1>15 DEF At, Placed, t, op

\* Whoever made way did so for a dearer transaction.
LEMMA InsertStands ==
    ASSUME AInv, NEW raw \in Raws, NEW by, Inserts(raw, by),
           NEW old, Placed(old.payload.op), Stands(old)
    PROVE  Stands(old)'
<1> DEFINE t == SendResult(raw).val
           n == Entry(t, by)
           op == old.payload.op
<1>1. SendResult(raw) = Recovered[raw] /\ Recovered[raw].ok
  BY SendResultOk DEF Inserts
<1>2. Fields(t.tx).max_fee_per_gas \in Nat
  BY <1>1, RecoveredNumbers
<1>3. \A e \in pool : Rivals(e, t) => Dearer(t, e)
  BY DEF Inserts, SendResult, Admission, Err
<1>4. n.tx = t.tx /\ n.signer = t.signer
  BY DEF Entry
<1>5. pool' = {e \in pool : ~Rivals(e, t)} \cup {n} /\ nonces' = nonces
  BY DEF Inserts, With
<1> HIDE DEF t, n
<1>6. ASSUME NEW e \in pool, At(e, op), Fields(e.tx).max_fee_per_gas >= op.max_fee_per_gas
      PROVE  e \in pool' \/ (At(n, op) /\ Fields(n.tx).max_fee_per_gas > op.max_fee_per_gas)
  <2>1. CASE ~Rivals(e, t)
    BY <1>5, <2>1
  <2>2. CASE Rivals(e, t)
    <3>1. Fields(t.tx).max_fee_per_gas > Fields(e.tx).max_fee_per_gas
      BY <1>3, <2>2 DEF Dearer
    <3>2. Fields(e.tx).max_fee_per_gas \in Nat /\ op.max_fee_per_gas \in Nat
      BY DEF AInv, Counted, Placed
    <3>3. Fields(t.tx).max_fee_per_gas > op.max_fee_per_gas
      BY <1>2, <1>6, <3>1, <3>2
    <3> QED
      BY <1>4, <1>6, <2>2, <3>3 DEF At, Rivals
  <2> QED
    BY <2>1, <2>2
<1>7. n \in pool'
  BY <1>5
<1>8. CASE \E e \in pool : At(e, op) /\ encode_2718(e.tx) = old
                           /\ Fields(e.tx).max_fee_per_gas = op.max_fee_per_gas
  <2>1. PICK e \in pool : At(e, op) /\ encode_2718(e.tx) = old
                           /\ Fields(e.tx).max_fee_per_gas = op.max_fee_per_gas
    BY <1>8
  <2>2. Fields(e.tx).max_fee_per_gas >= op.max_fee_per_gas
    BY <2>1 DEF Placed
  <2> QED
    BY <1>6, <1>7, <2>1, <2>2 DEF Stands
<1>9. CASE \E e \in pool : At(e, op) /\ Fields(e.tx).max_fee_per_gas > op.max_fee_per_gas
  <2>1. PICK e \in pool : At(e, op) /\ Fields(e.tx).max_fee_per_gas > op.max_fee_per_gas
    BY <1>9
  <2>2. Fields(e.tx).max_fee_per_gas >= op.max_fee_per_gas
    BY <2>1 DEF Placed, AInv, Counted
  <2> QED
    BY <1>6, <1>7, <2>1, <2>2 DEF Stands
<1>10. CASE op.nonce < nonces[op.sender]
  BY <1>5, <1>10 DEF Stands
<1> QED
  BY <1>8, <1>9, <1>10 DEF Stands

\* A block that takes the place, or a later one of the account, settles it.
LEMMA MineStands ==
    ASSUME AInv, NEW e \in pool, Mine(e),
           NEW old, Placed(old.payload.op), Stands(old)
    PROVE  Stands(old)'
<1> DEFINE op == old.payload.op
<1>1. /\ Fields(e.tx).nonce = nonces[e.signer]
      /\ nonces' = [nonces EXCEPT ![e.signer] = @ + 1]
      /\ pool' = {t \in pool : t.signer # e.signer \/ Fields(t.tx).nonce > Fields(e.tx).nonce}
  BY DEF Mine
<1>2. op.sender \in Senders /\ op.nonce \in Nat /\ e.signer \in Senders
      /\ nonces \in [Senders -> Nat]
  BY DEF Placed, AInv, IInv, TypeOK
<1>3. nonces'[op.sender] >= nonces[op.sender] /\ nonces'[e.signer] = nonces[e.signer] + 1
      /\ nonces'[op.sender] \in Nat /\ nonces[op.sender] \in Nat
  BY <1>1, <1>2
<1>4. ASSUME NEW f \in pool, At(f, op) PROVE f \in pool' \/ op.nonce < nonces'[op.sender]
  BY <1>1, <1>2, <1>3, <1>4 DEF At
<1>5. CASE \E f \in pool : At(f, op)
                           /\ (\/ /\ encode_2718(f.tx) = old
                                  /\ Fields(f.tx).max_fee_per_gas = op.max_fee_per_gas
                               \/ Fields(f.tx).max_fee_per_gas > op.max_fee_per_gas)
  BY <1>4, <1>5 DEF Stands
<1>6. CASE op.nonce < nonces[op.sender]
  <2>1. op.nonce < nonces'[op.sender]
    BY <1>2, <1>3, <1>6
  <2> QED
    BY <2>1 DEF Stands
<1> QED
  BY <1>5, <1>6 DEF Stands

\* The pool's numbers stay numbers.
LEMMA InsertCounted ==
    ASSUME Counted, NEW raw \in Raws, NEW by, Inserts(raw, by) PROVE Counted'
<1> DEFINE t == SendResult(raw).val
           n == Entry(t, by)
<1>1. SendResult(raw) = Recovered[raw] /\ Recovered[raw].ok
  BY SendResultOk DEF Inserts
<1>2. Fields(t.tx).nonce \in Nat /\ Fields(t.tx).max_fee_per_gas \in Nat
  BY <1>1, RecoveredNumbers
<1>3. n.tx = t.tx
  BY DEF Entry
<1>4. pool' = {e \in pool : ~Rivals(e, t)} \cup {n}
  BY DEF Inserts, With
<1> HIDE DEF t, n
<1> QED
  BY <1>2, <1>3, <1>4 DEF Counted

\* What a step does to the pool.
PoolStep ==
    \/ UNCHANGED <<pool, nonces>>
    \/ \E raw \in Raws : \E by \in {"cosmos", "other"} : Inserts(raw, by)
    \/ \E e \in pool : Mine(e)

LEMMA PoolStepKeeps ==
    ASSUME AInv, PoolStep
    PROVE  /\ Counted'
           /\ \A old : Placed(old.payload.op) /\ Stands(old) => Stands(old)'
<1>1. CASE UNCHANGED <<pool, nonces>>
  <2>1. Counted'
    BY <1>1 DEF AInv, Counted
  <2>2. ASSUME NEW old, Stands(old) PROVE Stands(old)'
    BY <1>1, <2>2 DEF Stands
  <2> QED
    BY <2>1, <2>2
<1>2. ASSUME NEW raw \in Raws, NEW by, Inserts(raw, by)
      PROVE  /\ Counted'
             /\ \A old : Placed(old.payload.op) /\ Stands(old) => Stands(old)'
  <2>1. Counted'
    BY <1>2, InsertCounted DEF AInv
  <2>2. ASSUME NEW old, Placed(old.payload.op), Stands(old) PROVE Stands(old)'
    BY <1>2, <2>2, InsertStands
  <2> QED
    BY <2>1, <2>2
<1>3. ASSUME NEW e \in pool, Mine(e)
      PROVE  /\ Counted'
             /\ \A old : Placed(old.payload.op) /\ Stands(old) => Stands(old)'
  <2>1. Counted'
    BY <1>3 DEF AInv, Counted, Mine
  <2>2. ASSUME NEW old, Placed(old.payload.op), Stands(old) PROVE Stands(old)'
    BY <1>3, <2>2, MineStands
  <2> QED
    BY <2>1, <2>2
<1> QED
  BY <1>1, <1>2, <1>3 DEF PoolStep

\* What a step does to the answers: nothing, an unfinished call goes on, or one ends with
\* no hash or with one that stands.
AnswerStep ==
    \/ UNCHANGED <<pc, param, result>>
    \/ \E c \in Calls : /\ pc[c] # "done" /\ UNCHANGED result
                        /\ \A d \in Calls \ {c} : pc'[d] = pc[d] /\ param'[d] = param[d]
    \/ \E c \in Calls : \E r :
           /\ pc[c] # "done" /\ ~r.ok /\ result' = [result EXCEPT ![c] = r]
           /\ \A d \in Calls \ {c} : pc'[d] = pc[d] /\ param'[d] = param[d]
    \/ \E c \in Calls : \E r : \E raw :
           /\ Return(c, r) /\ pc[c] # "done" /\ raw = param[c].raw
           /\ r.ok => /\ r.val = transaction_hash(raw)
                      /\ Placed(raw.payload.op) /\ Stands(raw)'

LEMMA AnswerStepKeeps ==
    ASSUME AInv, AnswerStep, PoolStep PROVE Answers'
<1>1. \A old : Placed(old.payload.op) /\ Stands(old) => Stands(old)'
  BY PoolStepKeeps
<1>2. ASSUME NEW d \in Calls, result[d].ok, NEW raw, raw = param[d].raw
      PROVE  /\ pc[d] = "done" /\ result[d].val = transaction_hash(raw)
             /\ Placed(raw.payload.op) /\ Stands(raw)'
  <2>1. /\ pc[d] = "done" /\ result[d].val = transaction_hash(raw)
        /\ Placed(raw.payload.op) /\ Stands(raw)
    BY <1>2 DEF AInv, Answers
  <2> QED
    BY <1>1, <2>1
<1>3. result = [c \in Calls |-> result[c]] /\ pc \in [Calls -> Stages]
  BY DEF AInv, Answers, IInv, TypeOK
<1>4. SUFFICES /\ result' = [c \in Calls |-> result'[c]]
               /\ \A d \in Calls : result'[d].ok =>
                     \E raw : /\ pc'[d] = "done" /\ raw = param'[d].raw
                              /\ result'[d].val = transaction_hash(raw)
                              /\ Placed(raw.payload.op) /\ Stands(raw)'
  BY DEF Answers, Placed, Stands
<1>5. ASSUME NEW d \in Calls, result'[d] = result[d], result[d].ok,
             pc'[d] = pc[d], param'[d] = param[d]
      PROVE  \E raw : /\ pc'[d] = "done" /\ raw = param'[d].raw
                      /\ result'[d].val = transaction_hash(raw)
                      /\ Placed(raw.payload.op) /\ Stands(raw)'
  <2>1. PICK raw : raw = param[d].raw
    OBVIOUS
  <2>2. /\ pc[d] = "done" /\ result[d].val = transaction_hash(raw)
        /\ Placed(raw.payload.op) /\ Stands(raw)'
    BY <1>2, <1>5, <2>1
  <2> QED
    BY <1>5, <2>1, <2>2
<1>6. CASE UNCHANGED <<pc, param, result>>
  <2>1. result' = [c \in Calls |-> result'[c]]
    BY <1>3, <1>6
  <2> QED
    BY <1>5, <1>6, <2>1
<1>7. ASSUME NEW c \in Calls, pc[c] # "done", UNCHANGED result,
             \A d \in Calls \ {c} : pc'[d] = pc[d] /\ param'[d] = param[d]
      PROVE  /\ result' = [d \in Calls |-> result'[d]]
             /\ \A d \in Calls : result'[d].ok =>
                   \E raw : /\ pc'[d] = "done" /\ raw = param'[d].raw
                            /\ result'[d].val = transaction_hash(raw)
                            /\ Placed(raw.payload.op) /\ Stands(raw)'
  <2>1. result' = [d \in Calls |-> result'[d]]
    BY <1>3, <1>7
  <2>2. ~result[c].ok
    BY <1>7 DEF AInv, Answers
  <2> QED
    BY <1>5, <1>7, <2>1, <2>2
<1>8. ASSUME NEW c \in Calls, NEW r, NEW raw, Return(c, r), raw = param[c].raw,
             r.ok => /\ r.val = transaction_hash(raw)
                     /\ Placed(raw.payload.op) /\ Stands(raw)'
      PROVE  /\ result' = [d \in Calls |-> result'[d]]
             /\ \A d \in Calls : result'[d].ok =>
                   \E x : /\ pc'[d] = "done" /\ x = param'[d].raw
                          /\ result'[d].val = transaction_hash(x)
                          /\ Placed(x.payload.op) /\ Stands(x)'
  <2>1. /\ pc' = [pc EXCEPT ![c] = "done"] /\ result' = [result EXCEPT ![c] = r]
        /\ param' = param
    BY <1>8 DEF Return
  <2>2. /\ result' = [d \in Calls |-> result'[d]] /\ result'[c] = r /\ pc'[c] = "done"
    BY <1>3, <2>1
  <2>3. \A d \in Calls \ {c} : result'[d] = result[d] /\ pc'[d] = pc[d] /\ param'[d] = param[d]
    BY <1>3, <2>1
  <2>4. ASSUME NEW d \in Calls \ {c}, result'[d].ok
        PROVE  \E x : /\ pc'[d] = "done" /\ x = param'[d].raw
                      /\ result'[d].val = transaction_hash(x)
                      /\ Placed(x.payload.op) /\ Stands(x)'
    BY <1>5, <2>3, <2>4
  <2>5. ASSUME result'[c].ok
        PROVE  \E x : /\ pc'[c] = "done" /\ x = param'[c].raw
                      /\ result'[c].val = transaction_hash(x)
                      /\ Placed(x.payload.op) /\ Stands(x)'
    BY <1>8, <2>1, <2>2, <2>5
  <2> QED
    BY <2>2, <2>4, <2>5
<1>9. ASSUME NEW c \in Calls, NEW r, ~r.ok, result' = [result EXCEPT ![c] = r],
             \A d \in Calls \ {c} : pc'[d] = pc[d] /\ param'[d] = param[d]
      PROVE  /\ result' = [d \in Calls |-> result'[d]]
             /\ \A d \in Calls : result'[d].ok =>
                   \E raw : /\ pc'[d] = "done" /\ raw = param'[d].raw
                            /\ result'[d].val = transaction_hash(raw)
                            /\ Placed(raw.payload.op) /\ Stands(raw)'
  <2>1. /\ result' = [d \in Calls |-> result'[d]] /\ ~result'[c].ok
        /\ \A d \in Calls \ {c} : result'[d] = result[d]
    BY <1>3, <1>9
  <2> QED
    BY <1>5, <1>9, <2>1
<1> QED
  BY <1>6, <1>7, <1>8, <1>9 DEF AnswerStep

\* A call that ends without a hash.
LEMMA FailAnswers ==
    ASSUME NEW c \in Calls, NEW r, Return(c, r), pc[c] # "done", ~r.ok PROVE AnswerStep
<1>1. PICK raw : raw = param[c].raw
  OBVIOUS
<1> QED
  BY <1>1 DEF AnswerStep

\* A call that waits gives the pool a string it checked.
LEMMA SendingRaw ==
    ASSUME IInv, NEW c \in Calls, pc[c] \in {"sending", "queued"}
    PROVE  /\ param[c].raw \in Raws /\ param[c].raw.ty = TX_TYPE /\ decode_wire(param[c].raw).ok
  BY DEF IInv, SendingChecked, Raws

LEMMA SendSteps ==
    ASSUME AInv, NEW c \in Calls, Send(c) PROVE PoolStep /\ AnswerStep
<1>1. PICK raw : raw = param[c].raw
  OBVIOUS
<1> DEFINE r == SendResult(raw)
<1>2. raw \in Raws /\ raw.ty = TX_TYPE /\ decode_wire(raw).ok /\ pc[c] = "sending"
      /\ UNCHANGED <<mined, nonces>>
  BY <1>1, SendingRaw DEF AInv, Send
<1>3. CASE ~r.ok
  <2>1. UNCHANGED pool /\ Return(c, r)
    BY <1>1, <1>3 DEF Send
  <2> QED
    BY <1>2, <1>3, <2>1, FailAnswers DEF PoolStep
<1>4. CASE r.ok
  <2>1. pool' = With(r.val, "cosmos") /\ Return(c, Ok(tx_hash(r.val.tx)))
    BY <1>1, <1>4 DEF Send
  <2>2. Inserts(raw, "cosmos")
    BY <1>2, <1>4, <2>1 DEF Inserts
  <2>3. r = Recovered[raw] /\ Recovered[raw].ok
    BY <1>4, SendResultOk
  <2> DEFINE t == r.val
             op == raw.payload.op
             n == Entry(t, "cosmos")
             a == Ok(tx_hash(t.tx))
  <2>4. /\ encode_2718(t.tx) = raw /\ tx_hash(t.tx) = transaction_hash(raw)
        /\ At(t, op) /\ Fields(t.tx).max_fee_per_gas = op.max_fee_per_gas
        /\ Placed(op)
    BY <1>2, <2>3, TakenFacts
  <2>5. n \in pool' /\ n.tx = t.tx /\ n.signer = t.signer
    BY <2>1 DEF With, Entry
  <2>6. a.val = transaction_hash(raw) /\ Return(c, a)
    BY <2>1, <2>4 DEF Ok
  <2> HIDE DEF r, t, n, a
  <2>7. At(n, op) /\ encode_2718(n.tx) = raw /\ Fields(n.tx).max_fee_per_gas = op.max_fee_per_gas
    BY <2>4, <2>5 DEF At
  <2>8. Stands(raw)'
    BY <2>5, <2>7 DEF Stands
  <2>9. AnswerStep
    BY <1>1, <1>2, <2>4, <2>6, <2>8 DEF AnswerStep
  <2> QED
    BY <1>2, <2>2, <2>9 DEF PoolStep
<1> QED
  BY <1>3, <1>4

LEMMA HangupSteps ==
    ASSUME AInv, NEW c \in Calls, Hangup(c) PROVE PoolStep /\ AnswerStep
<1>1. /\ pc[c] = "sending" /\ pc' = [pc EXCEPT ![c] = "queued"]
      /\ result' = [result EXCEPT ![c] = Err("gone")] /\ UNCHANGED <<param, pool, nonces>>
  BY DEF Hangup
<1>2. \A d \in Calls \ {c} : pc'[d] = pc[d] /\ param'[d] = param[d]
  BY <1>1 DEF AInv, IInv, TypeOK
<1>3. ~Err("gone").ok
  BY DEF Err
<1> QED
  BY <1>1, <1>2, <1>3 DEF PoolStep, AnswerStep

LEMMA LateInsertSteps ==
    ASSUME AInv, NEW c \in Calls, LateInsert(c) PROVE PoolStep /\ AnswerStep
<1> DEFINE raw == param[c].raw
           r == SendResult(raw)
<1>1. /\ pc[c] = "queued" /\ pc' = [pc EXCEPT ![c] = "gone"]
      /\ UNCHANGED <<param, result, mined, nonces>>
      /\ IF r.ok THEN pool' = With(r.val, "cosmos") ELSE UNCHANGED pool
  BY DEF LateInsert
<1>2. \A d \in Calls \ {c} : pc'[d] = pc[d] /\ param'[d] = param[d]
  BY <1>1 DEF AInv, IInv, TypeOK
<1>3. raw \in Raws
  BY <1>1, SendingRaw DEF AInv
<1>4. PoolStep
  BY <1>1, <1>3 DEF PoolStep, Inserts
<1> HIDE DEF r, raw
<1> QED
  BY <1>1, <1>2, <1>4 DEF AnswerStep

LEMMA EnterSteps ==
    ASSUME AInv, NEW c \in Calls, NEW p \in Params, Enter(c, p) PROVE PoolStep /\ AnswerStep
<1>1. /\ pc[c] = "idle" /\ UNCHANGED <<result, pool, nonces>>
      /\ pc' = [pc EXCEPT ![c] = "entered"] /\ param' = [param EXCEPT ![c] = p]
  BY DEF Enter
<1>2. \A d \in Calls \ {c} : pc'[d] = pc[d] /\ param'[d] = param[d]
  BY <1>1 DEF AInv, IInv, TypeOK
<1> QED
  BY <1>1, <1>2 DEF PoolStep, AnswerStep

LEMMA CheckSteps ==
    ASSUME AInv, NEW c \in Calls, Check(c) PROVE PoolStep /\ AnswerStep
<1> DEFINE e == CheckError(param[c])
<1>1. pc[c] = "entered" /\ UNCHANGED <<pool, mined, nonces>>
  BY DEF Check
<1>2. CASE e # "none"
  <2>1. Return(c, Err(e))
    BY <1>2 DEF Check
  <2>2. ~Err(e).ok
    BY DEF Err
  <2> QED
    BY <1>1, <2>1, <2>2, FailAnswers DEF PoolStep
<1>3. CASE e = "none"
  <2>1. /\ pc' = [pc EXCEPT ![c] = "sending"] /\ UNCHANGED <<param, result, permits>>
    BY <1>3 DEF Check
  <2> HIDE DEF e
  <2>2. \A d \in Calls \ {c} : pc'[d] = pc[d] /\ param'[d] = param[d]
    BY <2>1 DEF AInv, IInv, TypeOK
  <2> QED
    BY <1>1, <2>1, <2>2 DEF PoolStep, AnswerStep
<1> QED
  BY <1>2, <1>3

LEMMA NextSteps == AInv /\ [Next]_vars => PoolStep /\ AnswerStep
<1> SUFFICES ASSUME AInv, [Next]_vars PROVE PoolStep /\ AnswerStep
  OBVIOUS
<1>1. CASE \E c \in Calls : \E p \in Params : Enter(c, p)
  BY <1>1, EnterSteps
<1>2. ASSUME NEW c \in Calls, Refuse(c) PROVE PoolStep /\ AnswerStep
  <2>1. /\ pc[c] = "idle" /\ Return(c, Err("authorization capacity reached"))
        /\ UNCHANGED <<pool, nonces>>
    BY <1>2 DEF Refuse
  <2>2. ~Err("authorization capacity reached").ok
    BY DEF Err
  <2> QED
    BY <2>1, <2>2, FailAnswers DEF PoolStep
<1>3. ASSUME NEW c \in Calls, Hangup(c) PROVE PoolStep /\ AnswerStep
  BY <1>3, HangupSteps
<1>4. CASE \E c \in Calls : Check(c)
  BY <1>4, CheckSteps
<1>5. CASE \E c \in Calls : Send(c)
  BY <1>5, SendSteps
<1>6. ASSUME NEW raw \in OtherRaws, SendOther(raw) PROVE PoolStep /\ AnswerStep
  <2>1. raw \in Raws /\ Inserts(raw, "other") /\ UNCHANGED <<pc, param, result>>
    BY <1>6 DEF SendOther, Inserts, Raws
  <2> QED
    BY <2>1 DEF PoolStep, AnswerStep
<1>7. ASSUME NEW e \in pool, Mine(e) PROVE PoolStep /\ AnswerStep
  <2>1. UNCHANGED <<pc, param, result>>
    BY <1>7 DEF Mine
  <2> QED
    BY <1>7, <2>1 DEF PoolStep, AnswerStep
<1>8. CASE UNCHANGED vars
  BY <1>8 DEF vars, PoolStep, AnswerStep
<1>9. CASE \E c \in Calls : LateInsert(c)
  BY <1>9, LateInsertSteps
<1> QED
  BY <1>1, <1>2, <1>3, <1>4, <1>5, <1>6, <1>7, <1>8, <1>9 DEF Next

----------------------------------------------------------------------------
(* Theorems                                                                  *)

LEMMA NextKeeps == IInv /\ [Next]_vars => IInv'
<1> SUFFICES ASSUME IInv, [Next]_vars PROVE IInv'
  OBVIOUS
<1>1. CASE \E c \in Calls : \E p \in Params : Enter(c, p)
  BY <1>1, EnterKeeps
<1>2. ASSUME NEW c \in Calls, Refuse(c) PROVE IInv'
  BY <1>2, FailKeeps DEF Refuse, HungUp
<1>3. ASSUME NEW c \in Calls, Hangup(c) PROVE IInv'
  BY <1>3, HangupKeeps
<1>4. CASE \E c \in Calls : Check(c)
  BY <1>4, CheckKeeps
<1>5. CASE \E c \in Calls : Send(c)
  BY <1>5, SendKeeps
<1>6. CASE \E raw \in OtherRaws : SendOther(raw)
  BY <1>6, SendOtherKeeps
<1>7. CASE \E e \in pool : Mine(e)
  BY <1>7, MineKeeps
<1>8. CASE UNCHANGED vars
  BY <1>8 DEF vars, IInv, TypeOK, PermitsAccounted, BoundedOvershoot, PoolAuthorized,
              SendingChecked, Holding, Sending, Queued, HungUp, ByCosmos
<1>9. CASE \E c \in Calls : LateInsert(c)
  BY <1>9, LateInsertKeeps
<1> QED
  BY <1>1, <1>2, <1>3, <1>4, <1>5, <1>6, <1>7, <1>8, <1>9 DEF Next

LEMMA Invariance == Spec => []IInv
  BY InitIInv, NextKeeps, PTL DEF Spec

LEMMA InitAnswers == Init => Counted /\ Answers
<1> SUFFICES ASSUME Init PROVE Counted /\ Answers
  OBVIOUS
<1>1. Counted
  BY DEF Init, Counted
<1>2. result = [c \in Calls |-> Err("none yet")]
  BY DEF Init
<1>3. ~Err("none yet").ok
  BY DEF Err
<1>4. result = [c \in Calls |-> result[c]] /\ \A c \in Calls : ~result[c].ok
  BY <1>2, <1>3
<1> QED
  BY <1>1, <1>4 DEF Answers

LEMMA AnswerInvariance == Spec => []AInv
<1>1. Init => AInv
  BY InitIInv, InitAnswers DEF AInv
<1>2. AInv /\ [Next]_vars => AInv'
  <2> SUFFICES ASSUME AInv, [Next]_vars PROVE AInv'
    OBVIOUS
  <2>1. IInv'
    BY NextKeeps DEF AInv
  <2>2. Counted' /\ Answers'
    BY NextSteps, PoolStepKeeps, AnswerStepKeeps
  <2> QED
    BY <2>1, <2>2 DEF AInv
<1> QED
  BY <1>1, <1>2, PTL DEF Spec

\* Calls, permits, pool and nonces keep their types, and the pool stays finite.
THEOREM TypesKept == Spec => []TypeOK
<1>1. IInv => TypeOK
  BY DEF IInv
<1> QED
  BY Invariance, <1>1, PTL

\* The hash a call returned is that of the bytes it was given; they are in the pool, or
\* left it for a dearer transaction or because their place in the account was used.
THEOREM AnswersAreTrue == Spec => []AnswerIsTrue
<1>1. AInv => AnswerIsTrue
  <2> SUFFICES ASSUME AInv, NEW c \in Calls, result[c].ok
               PROVE  LET raw == param[c].raw
                          op == raw.payload.op
                      IN  /\ result[c].val = transaction_hash(raw)
                          /\ \/ \E e \in pool \cup mined : encode_2718(e.tx) = raw
                             \/ \E e \in pool :
                                   /\ e.signer = op.sender /\ Fields(e.tx).nonce = op.nonce
                                   /\ Fields(e.tx).max_fee_per_gas > op.max_fee_per_gas
                             \/ op.nonce < nonces[op.sender]
    BY DEF AnswerIsTrue
  <2>1. result[c].val = transaction_hash(param[c].raw) /\ Stands(param[c].raw)
    BY DEF AInv, Answers
  <2> QED
    BY <2>1 DEF Stands, At
<1> QED
  BY AnswerInvariance, <1>1, PTL

\* Permits are neither lost nor made, on any return of the handler and on a hangup.
THEOREM PermitsConserved == Spec => []PermitsAccounted
<1>1. IInv => PermitsAccounted
  BY DEF IInv
<1> QED
  BY Invariance, <1>1, PTL

\* The race between the size check and the insertion costs fewer places than there are
\* permits and calls that hung up at the await; a late insertion was counted when its
\* call hung up.
THEOREM OvershootBounded == Spec => []BoundedOvershoot
<1>1. IInv => BoundedOvershoot
  BY DEF IInv
<1> QED
  BY Invariance, <1>1, PTL

\* Everything in the pool is authorised, by whichever way it came.
THEOREM PoolIsAuthorized == Spec => []PoolAuthorized
<1>1. IInv => PoolAuthorized
  BY DEF IInv
<1> QED
  BY Invariance, <1>1, PTL
============================================================================
