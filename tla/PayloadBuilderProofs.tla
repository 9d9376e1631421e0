------------------------ MODULE PayloadBuilderProofs ------------------------
(***************************************************************************)
(* Proofs about PayloadBuilder, for every pool, fork, limit and            *)
(* configuration: the types, the block limits, the growth of the fees of   *)
(* the payload kept, what a payload says of itself, and that a walk with   *)
(* room for the whole pool leaves nothing out.                             *)
(***************************************************************************)
EXTENDS PayloadBuilder, SequenceTheorems, FiniteSetTheorems, WellFoundedInduction, TLAPS

LEMMA Constants ==
    /\ GAS_LIMIT \in Nat /\ TX_GAS_CAP \in Nat /\ BASE_FEE \in Nat /\ MaxBuilds \in Nat
    /\ MAX_RLP_BLOCK_SIZE \in Nat /\ WITHDRAWALS_LEN \in Nat
    /\ BLOB_PARAMS \in Nat /\ BLOB_PARAMS >= 1
    /\ BLOCK_OVERHEAD \in Nat /\ BLOCK_OVERHEAD <= 1024
    /\ WITHDRAWALS_LEN + 1024 <= MAX_RLP_BLOCK_SIZE
  BY BuilderAssumption, OverheadAssumption

LEMMA TxFields ==
    ASSUME NEW tx \in Txs
    PROVE  /\ tx.sender \in Senders /\ tx.nonce \in Nat /\ tx.gas_limit \in Nat
           /\ tx.regular_gas \in Nat /\ tx.state_gas \in Nat /\ tx.max_fee \in Nat
           /\ tx.priority \in Nat /\ tx.blobs \in Nat /\ tx.len \in Nat
           /\ tx.regular_gas + tx.state_gas <= tx.gas_limit
           /\ tx.regular_gas <= TX_GAS_CAP
  BY TxAssumption

LEMMA MaxBlobs ==
    ASSUME config \in Configs
    PROVE  /\ max_blob_count \in Nat /\ protocol_max_blob_count \in Nat
           /\ Active("cancun") => max_blob_count <= protocol_max_blob_count
<1>1. config.max_blobs_per_block \in Nat \cup {None}
  BY BuilderAssumption
<1>2. protocol_max_blob_count \in Nat /\ (Active("cancun") => protocol_max_blob_count >= 1)
  BY Constants DEF protocol_max_blob_count
<1>3. CASE config.max_blobs_per_block = None
  BY <1>2, <1>3 DEF max_blob_count
<1>4. CASE config.max_blobs_per_block # None
  BY <1>1, <1>2, <1>4 DEF max_blob_count
<1> QED
  BY <1>3, <1>4

LEMMA Executing ==
    ASSUME NEW tx \in Txs, NEW state \in States, ExecutionError(tx, state) = "none"
    PROVE  /\ Tip(tx) \in Nat /\ GasUsed(tx) \in Nat /\ Tip(tx) * GasUsed(tx) \in Nat
           /\ Executed(tx, state) \in States
           /\ IsBlob(tx) => Active("cancun")
<1>1. ~(tx.max_fee < BASE_FEE) /\ (IsBlob(tx) => Active("cancun"))
  BY DEF ExecutionError
<1>2. Tip(tx) \in Nat /\ GasUsed(tx) \in Nat
  BY <1>1, TxFields, Constants DEF Tip, GasUsed
<1> DEFINE t == Tip(tx)
           g == GasUsed(tx)
           p == g * (BASE_FEE + t)
<1>3. t \in Nat /\ g \in Nat
  BY <1>2
<1> HIDE DEF t, g
<1>4. t * g \in Nat /\ g * t \in Nat /\ p \in Int
  BY <1>3, Constants
<1>5. Executed(tx, state) = [nonce |-> [state.nonce EXCEPT ![tx.sender] = @ + 1],
                             balance |-> [state.balance EXCEPT ![tx.sender] = @ - p],
                             beneficiary |-> state.beneficiary + g * t]
  BY DEF Executed, t, g
<1> HIDE DEF p
<1>6. [state.nonce EXCEPT ![tx.sender] = @ + 1] \in [Senders -> Nat]
  BY TxFields DEF States
<1>7. [state.balance EXCEPT ![tx.sender] = @ - p] \in [Senders -> Int]
  BY <1>4, TxFields DEF States
<1>8. state.beneficiary + g * t \in Nat
  <2> DEFINE q == g * t
  <2>1. q \in Nat
    BY <1>4
  <2> HIDE DEF q
  <2>2. state.beneficiary + q \in Nat
    BY <2>1 DEF States
  <2> QED
    BY <2>2 DEF q
<1>9. Executed(tx, state) \in States
  BY <1>5, <1>6, <1>7, <1>8 DEF States
<1> QED
  BY <1>1, <1>2, <1>4, <1>9 DEF t, g

----------------------------------------------------------------------------
(* The inductive invariant                                                   *)

\* What the loop's checks maintain.  The block's size is bounded with the whole reserve
\* of 1024 bytes, of which the sealed block needs BLOCK_OVERHEAD.
Limits(b) ==
    /\ IF is_amsterdam
       THEN b.block_regular_gas_used <= GAS_LIMIT /\ b.block_state_gas_used <= GAS_LIMIT
       ELSE b.cumulative_tx_gas_used <= GAS_LIMIT
    /\ b.block_blob_count <= protocol_max_blob_count
    /\ is_osaka => b.block_transactions_rlp_length + WITHDRAWALS_LEN + 1024
                     <= MAX_RLP_BLOCK_SIZE

BuildLimits == Building => Limits(build)
BestLimits == best # None => WithinLimits(best.block)
AnswerLimits == (answer # None /\ answer.ok) => WithinLimits(answer.val.block)

\* A running call was given the payload the job still keeps.
SeesBest == (Building /\ ~cancel) => build.best_payload = best

IInv == TypeOK /\ BuildLimits /\ BestLimits /\ AnswerLimits /\ SeesBest

LEMMA NewBuildGood ==
    ASSUME NEW S \in SUBSET Txs, NEW p \in Payloads \cup {None}, config \in Configs
    PROVE  NewBuild(S, p) \in Builds /\ Limits(NewBuild(S, p))
<1>1. ParentState \in States
  BY BuilderAssumption DEF ParentState, States
<1>2. EmptySidecars \in SidecarLists
  BY DEF EmptySidecars, SidecarLists
<1>3. NewBuild(S, p) \in Builds
  BY <1>1, <1>2 DEF NewBuild, Builds
<1>4. Limits(NewBuild(S, p))
  BY Constants, MaxBlobs DEF NewBuild, Limits
<1> QED
  BY <1>3, <1>4

LEMMA PushGood ==
    ASSUME NEW s \in SidecarLists, NEW tx \in Txs, NEW k \in Sidecars
    PROVE  push_sidecar_variant(s, tx.hash, k) \in SidecarLists
  BY DEF push_sidecar_variant, SidecarLists

\* One more transaction: the record stays well formed and within the limits.
LEMMA WithTxGood ==
    ASSUME TypeOK, NEW b \in Builds, NEW tx \in Txs, Limits(b), Fits(b, tx),
           ExecutionError(tx, b.state) = "none"
    PROVE  WithTx(b, tx) \in Builds /\ Limits(WithTx(b, tx))
<1> DEFINE n == WithTx(b, tx)
           sidecars == IF IsBlob(tx)
                       THEN push_sidecar_variant(b.blob_sidecars, tx.hash, blobstore[tx.hash])
                       ELSE b.blob_sidecars
           fee == Tip(tx) * GasUsed(tx)
           gas == GasUsed(tx)
<1>1. /\ gas \in Nat /\ fee \in Nat /\ Executed(tx, b.state) \in States
      /\ IsBlob(tx) => Active("cancun")
  BY Executing DEF Builds
<1>2. sidecars \in SidecarLists
  <2>1. CASE IsBlob(tx)
    <3>1. /\ blobstore[tx.hash] \in Sidecars \cup {None}
          /\ blobstore[tx.hash] \in {"eip4844", "eip7594"}
      BY <2>1 DEF TypeOK, BlobTxs, Fits, BadSidecar
    <3>2. blobstore[tx.hash] \in Sidecars \/ blobstore[tx.hash] = None
      BY <3>1
    <3>3. CASE blobstore[tx.hash] \in Sidecars
      BY <2>1, <3>3, PushGood DEF Builds
    <3>4. CASE blobstore[tx.hash] = None
      BY <2>1, <3>4 DEF Builds, SidecarLists, push_sidecar_variant
    <3> QED
      BY <3>2, <3>3, <3>4
  <2>2. CASE ~IsBlob(tx)
    BY <2>2 DEF Builds
  <2> QED
    BY <2>1, <2>2
<1>3. n = [b EXCEPT !.left = @ \ {tx},
                    !.txs = Append(@, tx),
                    !.state = Executed(tx, @),
                    !.block_blob_count = b.block_blob_count + tx.blobs,
                    !.skip_blobs = @ \/ (IsBlob(tx)
                                         /\ b.block_blob_count + tx.blobs = max_blob_count),
                    !.block_transactions_rlp_length = @ + tx.len,
                    !.total_fees = @ + fee,
                    !.cumulative_tx_gas_used = @ + gas,
                    !.block_regular_gas_used = @ + tx.regular_gas,
                    !.block_state_gas_used = @ + tx.state_gas,
                    !.blob_sidecars = sidecars]
  BY DEF WithTx, Recorded, Builds
<1>4. gas = tx.regular_gas + tx.state_gas
  BY DEF GasUsed
<1> HIDE DEF n, sidecars, fee, gas
<1>5. /\ b.block_blob_count \in Nat /\ b.block_transactions_rlp_length \in Nat
      /\ b.cumulative_tx_gas_used \in Nat /\ b.block_regular_gas_used \in Nat
      /\ b.block_state_gas_used \in Nat /\ b.total_fees \in Nat
  BY DEF Builds
<1>6. /\ n \in Builds
      /\ n.block_blob_count = b.block_blob_count + tx.blobs
      /\ n.block_transactions_rlp_length = b.block_transactions_rlp_length + tx.len
      /\ n.cumulative_tx_gas_used = b.cumulative_tx_gas_used + gas
      /\ n.block_regular_gas_used = b.block_regular_gas_used + tx.regular_gas
      /\ n.block_state_gas_used = b.block_state_gas_used + tx.state_gas
  <2>1. Append(b.txs, tx) \in Seq(Txs)
    BY DEF Builds
  <2>2. b.left \ {tx} \in SUBSET Txs
    BY DEF Builds
  <2>3. /\ b.block_blob_count + tx.blobs \in Nat
        /\ b.block_transactions_rlp_length + tx.len \in Nat
        /\ b.cumulative_tx_gas_used + gas \in Nat
        /\ b.block_regular_gas_used + tx.regular_gas \in Nat
        /\ b.block_state_gas_used + tx.state_gas \in Nat
        /\ b.total_fees + fee \in Nat
    <3>1. /\ tx.blobs \in Nat /\ tx.len \in Nat /\ tx.regular_gas \in Nat
          /\ tx.state_gas \in Nat
      BY TxFields
    <3> QED
      BY <1>1, <1>5, <3>1
  <2>4. (b.skip_blobs \/ (IsBlob(tx) /\ b.block_blob_count + tx.blobs = max_blob_count))
          \in BOOLEAN
    OBVIOUS
  <2>5. n = [left |-> b.left \ {tx}, invalid |-> b.invalid,
             skip_blobs |-> b.skip_blobs
                            \/ (IsBlob(tx) /\ b.block_blob_count + tx.blobs = max_blob_count),
             best_payload |-> b.best_payload, txs |-> Append(b.txs, tx),
             state |-> Executed(tx, b.state),
             cumulative_tx_gas_used |-> b.cumulative_tx_gas_used + gas,
             block_regular_gas_used |-> b.block_regular_gas_used + tx.regular_gas,
             block_state_gas_used |-> b.block_state_gas_used + tx.state_gas,
             block_blob_count |-> b.block_blob_count + tx.blobs,
             block_transactions_rlp_length |-> b.block_transactions_rlp_length + tx.len,
             total_fees |-> b.total_fees + fee, blob_sidecars |-> sidecars]
    BY <1>3 DEF Builds
  <2>6. /\ b.invalid \in SUBSET Senders /\ b.best_payload \in Payloads \cup {None}
    BY DEF Builds
  <2>7. n \in Builds
    BY <1>1, <1>2, <2>1, <2>2, <2>3, <2>4, <2>5, <2>6 DEF Builds
  <2> QED
    BY <2>5, <2>7
<1>7. IF is_amsterdam
      THEN n.block_regular_gas_used <= GAS_LIMIT /\ n.block_state_gas_used <= GAS_LIMIT
      ELSE n.cumulative_tx_gas_used <= GAS_LIMIT
  <2>1. CASE is_amsterdam
    <3>1. /\ ~((IF tx.gas_limit < TX_GAS_CAP THEN tx.gas_limit ELSE TX_GAS_CAP)
                 > SaturatingSub(GAS_LIMIT, b.block_regular_gas_used))
          /\ ~(tx.gas_limit > SaturatingSub(GAS_LIMIT, b.block_state_gas_used))
      BY <2>1 DEF Fits, exceeds_gas_limit
    <3>2. b.block_regular_gas_used <= GAS_LIMIT /\ b.block_state_gas_used <= GAS_LIMIT
      BY <2>1 DEF Limits
    <3> QED
      BY <1>5, <1>6, <2>1, <3>1, <3>2, TxFields, Constants DEF SaturatingSub
  <2>2. CASE ~is_amsterdam
    <3>1. ~(tx.gas_limit > SaturatingSub(GAS_LIMIT, b.cumulative_tx_gas_used))
      BY <2>2 DEF Fits, exceeds_gas_limit
    <3>2. b.cumulative_tx_gas_used <= GAS_LIMIT
      BY <2>2 DEF Limits
    <3> QED
      BY <1>1, <1>4, <1>5, <1>6, <2>2, <3>1, <3>2, TxFields, Constants DEF SaturatingSub
  <2> QED
    BY <2>1, <2>2
<1>8. n.block_blob_count <= protocol_max_blob_count
  <2>1. /\ max_blob_count \in Nat /\ protocol_max_blob_count \in Nat
        /\ Active("cancun") => max_blob_count <= protocol_max_blob_count
    BY MaxBlobs DEF TypeOK
  <2>2. CASE IsBlob(tx)
    <3>1. ~(b.block_blob_count + tx.blobs > max_blob_count)
      BY <2>2 DEF Fits, TooManyBlobs
    <3> QED
      BY <1>1, <1>5, <1>6, <2>1, <2>2, <3>1, TxFields
  <2>3. CASE ~IsBlob(tx)
    <3>1. tx.blobs = 0 /\ b.block_blob_count <= protocol_max_blob_count
      BY <2>3, TxFields DEF IsBlob, Limits
    <3> QED
      BY <1>5, <1>6, <2>1, <3>1
  <2> QED
    BY <2>2, <2>3
<1>9. is_osaka => n.block_transactions_rlp_length + WITHDRAWALS_LEN + 1024
                    <= MAX_RLP_BLOCK_SIZE
  <2> SUFFICES ASSUME is_osaka
               PROVE  n.block_transactions_rlp_length + WITHDRAWALS_LEN + 1024
                        <= MAX_RLP_BLOCK_SIZE
    OBVIOUS
  <2>1. ~(b.block_transactions_rlp_length + tx.len + WITHDRAWALS_LEN + 1024
            > MAX_RLP_BLOCK_SIZE)
    BY DEF Fits, Oversized
  <2> QED
    BY <1>5, <1>6, <2>1, TxFields, Constants
<1> QED
  BY <1>6, <1>7, <1>8, <1>9 DEF Limits, n

\* Sealing keeps the limits: the final size check cannot fail.
LEMMA SealedGood ==
    ASSUME NEW b \in Builds, Limits(b), config \in Configs
    PROVE  /\ Payload(b) \in Payloads
           /\ WithinLimits(Payload(b).block)
           /\ Payload(b).fees = b.total_fees
           /\ WithinLimits(Sealed(b))
<1> DEFINE s == Sealed(b)
<1>0. /\ b.block_blob_count \in Nat /\ b.block_transactions_rlp_length \in Nat
      /\ b.cumulative_tx_gas_used \in Nat /\ b.block_regular_gas_used \in Nat
      /\ b.block_state_gas_used \in Nat /\ b.txs \in Seq(Txs) /\ b.state \in States
  BY DEF Builds
<1>1. ParentState \in States
  BY BuilderAssumption DEF ParentState, States
<1>2. /\ s.rlp_length = BLOCK_OVERHEAD + b.block_transactions_rlp_length + WITHDRAWALS_LEN
      /\ s.blob_count = b.block_blob_count
      /\ s.gas_used = IF is_amsterdam
                      THEN IF b.block_regular_gas_used > b.block_state_gas_used
                           THEN b.block_regular_gas_used ELSE b.block_state_gas_used
                      ELSE b.cumulative_tx_gas_used
  BY DEF Sealed
<1>3. s \in SealedBlocks
  BY <1>0, <1>1, Constants DEF Sealed, SealedBlocks
<1> HIDE DEF s
<1>4. s.gas_used <= GAS_LIMIT
  BY <1>2 DEF Limits
<1>5. s.blob_count <= protocol_max_blob_count
  BY <1>2 DEF Limits
<1>6. is_osaka => s.rlp_length <= MAX_RLP_BLOCK_SIZE
  BY <1>0, <1>2, Constants DEF Limits
<1>7. WithinLimits(s)
  BY <1>4, <1>5, <1>6 DEF WithinLimits
<1>8. Payload(b) = [block |-> s, fees |-> b.total_fees, sidecars |-> b.blob_sidecars,
                    requests |-> Active("prague"), block_access_list |-> is_amsterdam]
  BY DEF Payload, s
<1>9. Active("prague") \in BOOLEAN /\ is_amsterdam \in BOOLEAN
  BY DEF Active, is_amsterdam
<1>10. Payload(b) \in Payloads
  BY <1>3, <1>8, <1>9 DEF Payloads, Builds
<1> QED
  BY <1>7, <1>8, <1>10 DEF s

LEMMA InitIInv == Init => IInv
<1> SUFFICES ASSUME Init PROVE IInv
  OBVIOUS
<1>1. TypeOK
  <2>1. pool \subseteq Txs
    BY BuilderAssumption DEF Init
  <2>2. blobstore \in [BlobTxs -> Sidecars \cup {None}]
    BY DEF Init
  <2>3. /\ config \in Configs /\ cancel = FALSE /\ getting = FALSE /\ builds = 0
        /\ build = None /\ best = None /\ answer = None
    BY DEF Init
  <2>4. builds \in 0 .. MaxBuilds
    BY <2>3, Constants
  <2> QED
    BY <2>1, <2>2, <2>3, <2>4 DEF TypeOK
<1>2. BuildLimits /\ BestLimits /\ AnswerLimits /\ SeesBest
  BY DEF Init, BuildLimits, BestLimits, AnswerLimits, SeesBest, Building
<1> QED
  BY <1>1, <1>2 DEF IInv

\* A step of the loop, and everything else that leaves the payloads alone.
LEMMA LoopKeeps ==
    ASSUME IInv, UNCHANGED <<config, best, getting, answer>>,
           blobstore' \in [BlobTxs -> Sidecars \cup {None}], builds' \in 0 .. MaxBuilds,
           pool' \subseteq Txs, cancel' \in BOOLEAN,
           build' = None \/ (build' \in Builds /\ Limits(build')),
           build' # None /\ ~cancel' => build'.best_payload = best
    PROVE  IInv'
<1> USE DEF IInv
<1>1. TypeOK'
  BY DEF TypeOK
<1>2. BuildLimits'
  BY DEF BuildLimits, Building, Limits, is_amsterdam, is_osaka, Active,
         protocol_max_blob_count
<1>3. BestLimits' /\ AnswerLimits'
  BY DEF BestLimits, AnswerLimits, WithinLimits, is_osaka, Active, protocol_max_blob_count
<1>4. SeesBest'
  BY DEF SeesBest, Building
<1> QED
  BY <1>1, <1>2, <1>3, <1>4

LEMMA BuildFacts ==
    ASSUME IInv, Building
    PROVE  build \in Builds /\ Limits(build) /\ config \in Configs
  BY DEF IInv, TypeOK, Building, BuildLimits

\* Fields the limits do not read may change.
LEMMA SameLimits ==
    ASSUME NEW b \in Builds, Limits(b), NEW l \in SUBSET Txs, NEW i \in SUBSET Senders
    PROVE  /\ [b EXCEPT !.left = l, !.invalid = i] \in Builds
           /\ Limits([b EXCEPT !.left = l, !.invalid = i])
           /\ [b EXCEPT !.left = l] \in Builds /\ Limits([b EXCEPT !.left = l])
           /\ [b EXCEPT !.left = l].best_payload = b.best_payload
           /\ [b EXCEPT !.left = l, !.invalid = i].best_payload = b.best_payload
<1> DEFINE c == [b EXCEPT !.left = l]
           d == [b EXCEPT !.left = l, !.invalid = i]
<1>1. c \in Builds /\ d \in Builds
  BY DEF Builds
<1>2. /\ c.block_regular_gas_used = b.block_regular_gas_used
      /\ c.block_state_gas_used = b.block_state_gas_used
      /\ c.cumulative_tx_gas_used = b.cumulative_tx_gas_used
      /\ c.block_blob_count = b.block_blob_count /\ c.best_payload = b.best_payload
      /\ c.block_transactions_rlp_length = b.block_transactions_rlp_length
  BY DEF Builds
<1>3. /\ d.block_regular_gas_used = b.block_regular_gas_used
      /\ d.block_state_gas_used = b.block_state_gas_used
      /\ d.cumulative_tx_gas_used = b.cumulative_tx_gas_used
      /\ d.block_blob_count = b.block_blob_count /\ d.best_payload = b.best_payload
      /\ d.block_transactions_rlp_length = b.block_transactions_rlp_length
  BY DEF Builds
<1> HIDE DEF c, d
<1>4. Limits(c) /\ Limits(d)
  BY <1>2, <1>3 DEF Limits
<1> QED
  BY <1>1, <1>2, <1>3, <1>4 DEF c, d

----------------------------------------------------------------------------
(* Steps                                                                     *)

LEMMA SkipKeeps ==
    ASSUME IInv, NEW tx \in Txs, SkipWithDescendants(tx) \/ SkipStale(tx) PROVE IInv'
<1>1. /\ Building /\ UNCHANGED <<config, pool, blobstore, cancel, builds, best, getting, answer>>
      /\ \/ build' = [build EXCEPT !.left = build.left \ {tx},
                                   !.invalid = build.invalid \cup {tx.sender}]
         \/ build' = [build EXCEPT !.left = build.left \ {tx}]
  BY BuildFacts DEF SkipWithDescendants, SkipStale, mark_invalid, Builds
<1>2. build \in Builds /\ Limits(build) /\ tx.sender \in Senders
  BY <1>1, BuildFacts, TxFields
<1>3. build.left \ {tx} \in SUBSET Txs /\ build.invalid \cup {tx.sender} \in SUBSET Senders
  BY <1>2 DEF Builds
<1>4. build' \in Builds /\ Limits(build') /\ build'.best_payload = build.best_payload
  <2>1. CASE build' = [build EXCEPT !.left = build.left \ {tx},
                                    !.invalid = build.invalid \cup {tx.sender}]
    BY <1>2, <1>3, <2>1, SameLimits
  <2>2. CASE build' = [build EXCEPT !.left = build.left \ {tx}]
    <3>1. build.invalid \in SUBSET Senders
      BY <1>2 DEF Builds
    <3> QED
      BY <1>2, <1>3, <2>2, <3>1, SameLimits
  <2> QED
    BY <1>1, <2>1, <2>2
<1> QED
  BY <1>1, <1>4, LoopKeeps DEF IInv, TypeOK, SeesBest

LEMMA IncludeKeeps ==
    ASSUME IInv, NEW tx \in Txs, Include(tx) PROVE IInv'
<1>1. /\ Building /\ Fits(build, tx) /\ ExecutionError(tx, build.state) = "none"
      /\ build' = WithTx(build, tx)
      /\ UNCHANGED <<config, pool, blobstore, cancel, builds, best, getting, answer>>
  BY DEF Include
<1>2. build \in Builds /\ Limits(build) /\ TypeOK
  BY <1>1, BuildFacts DEF IInv
<1>3. build' \in Builds /\ Limits(build')
  BY <1>1, <1>2, WithTxGood
<1>4. build'.best_payload = build.best_payload
  BY <1>1, <1>2 DEF WithTx, Recorded, Builds
<1> QED
  BY <1>1, <1>3, <1>4, LoopKeeps DEF IInv, TypeOK, SeesBest

\* The call ends without a payload.
LEMMA EndKeeps ==
    ASSUME IInv, build' = None,
           UNCHANGED <<config, pool, blobstore, cancel, builds, best, getting, answer>>
    PROVE  IInv'
  BY LoopKeeps DEF IInv, TypeOK

LEMMA FinishKeeps ==
    ASSUME IInv, Finish PROVE IInv'
<1> USE DEF IInv
<1> DEFINE p == Payload(build)
<1>1. /\ Building /\ build' = None /\ best' = IF cancel THEN best ELSE p
      /\ answer' = IF Waiting THEN Ok(p) ELSE answer
      /\ cancel' = (cancel \/ Waiting)
      /\ UNCHANGED <<config, pool, blobstore, builds, getting>>
  BY DEF Finish, Exhausted
<1>2. p \in Payloads /\ WithinLimits(p.block)
  BY <1>1, BuildFacts, SealedGood
<1> HIDE DEF p
<1>3. best' \in Payloads \cup {None} /\ (best' # None => WithinLimits(best'.block))
  BY <1>1, <1>2 DEF TypeOK, BestLimits
<1>4. /\ answer' # None => IF answer'.ok THEN answer'.val \in Payloads
                           ELSE answer'.err \in BuildErrors
      /\ (answer' # None /\ answer'.ok) => WithinLimits(answer'.val.block)
  BY <1>1, <1>2 DEF TypeOK, AnswerLimits, Ok
<1>5. cancel' \in BOOLEAN
  BY <1>1 DEF TypeOK, Waiting
<1>6. TypeOK'
  BY <1>1, <1>3, <1>4, <1>5 DEF TypeOK
<1>7. BuildLimits' /\ SeesBest'
  BY <1>1 DEF BuildLimits, SeesBest, Building
<1>8. BestLimits' /\ AnswerLimits'
  BY <1>1, <1>3, <1>4 DEF BestLimits, AnswerLimits, WithinLimits, is_osaka, Active,
                          protocol_max_blob_count
<1> QED
  BY <1>6, <1>7, <1>8

\* A request is given r: nothing else changes but the call under way.
LEMMA AnswerKeeps ==
    ASSUME IInv, NEW r, answer' = r, cancel' = TRUE, getting' \in BOOLEAN,
           build' = build \/ build' = None,
           IF r.ok THEN r.val \in Payloads /\ WithinLimits(r.val.block)
                   ELSE r.err \in BuildErrors,
           UNCHANGED <<config, pool, blobstore, builds, best>>
    PROVE  IInv'
<1> USE DEF IInv
<1>1. TypeOK'
  BY DEF TypeOK
<1>2. BuildLimits'
  BY DEF BuildLimits, Building, Limits, is_amsterdam, is_osaka, Active,
         protocol_max_blob_count
<1>3. BestLimits' /\ AnswerLimits'
  BY DEF BestLimits, AnswerLimits, WithinLimits, is_osaka, Active, protocol_max_blob_count
<1>4. SeesBest'
  BY DEF SeesBest
<1> QED
  BY <1>1, <1>2, <1>3, <1>4

LEMMA FailKeeps ==
    ASSUME IInv, Fail PROVE IInv'
<1>1. /\ build' = None /\ UNCHANGED <<config, pool, blobstore, builds, best, getting>>
      /\ \/ answer' = Err("MissingPayload") /\ cancel' = TRUE
         \/ UNCHANGED <<answer, cancel>>
  BY DEF Fail
<1>2. CASE UNCHANGED <<answer, cancel>>
  BY <1>1, <1>2, EndKeeps
<1>3. CASE answer' = Err("MissingPayload") /\ cancel' = TRUE
  <2>1. ~Err("MissingPayload").ok /\ Err("MissingPayload").err \in BuildErrors
    BY DEF Err, BuildErrors
  <2>2. getting' \in BOOLEAN
    BY <1>1 DEF IInv, TypeOK
  <2> QED
    BY <1>1, <1>3, <2>1, <2>2, AnswerKeeps
<1> QED
  BY <1>1, <1>2, <1>3

LEMMA TryBuildKeeps ==
    ASSUME IInv, try_build PROVE IInv'
<1>1. /\ build' = NewBuild(pool, best) /\ builds < MaxBuilds /\ builds' = builds + 1
      /\ UNCHANGED <<config, pool, blobstore, cancel, best, getting, answer>>
  BY DEF try_build
<1>2. build' \in Builds /\ Limits(build')
  BY <1>1, NewBuildGood DEF IInv, TypeOK
<1>3. build'.best_payload = best
  BY <1>1 DEF NewBuild
<1>4. builds' \in 0 .. MaxBuilds
  BY <1>1, Constants DEF IInv, TypeOK
<1> QED
  BY <1>1, <1>2, <1>3, <1>4, LoopKeeps DEF IInv, TypeOK

LEMMA GetPayloadKeeps ==
    ASSUME IInv, GetPayload PROVE IInv'
<1> USE DEF IInv
<1>1. /\ ~cancel /\ getting' = TRUE /\ UNCHANGED <<config, pool, blobstore, build, builds, best>>
      /\ IF best # None THEN answer' = Ok(best) /\ cancel' = TRUE
         ELSE UNCHANGED <<answer, cancel>>
  BY DEF GetPayload
<1>2. CASE best # None
  <2>1. best \in Payloads /\ WithinLimits(best.block)
    BY <1>2 DEF TypeOK, BestLimits
  <2>2. Ok(best).ok /\ Ok(best).val = best
    BY DEF Ok
  <2> QED
    BY <1>1, <1>2, <2>1, <2>2, AnswerKeeps
<1>3. CASE best = None
  <2>1. UNCHANGED <<config, pool, blobstore, build, builds, best, answer, cancel>>
    BY <1>1, <1>3
  <2>2. TypeOK'
    BY <1>1, <2>1 DEF TypeOK
  <2>3. BuildLimits' /\ BestLimits' /\ AnswerLimits' /\ SeesBest'
    BY <2>1 DEF BuildLimits, BestLimits, AnswerLimits, SeesBest, Building, Limits, WithinLimits,
                is_amsterdam, is_osaka, Active, protocol_max_blob_count
  <2> QED
    BY <2>2, <2>3
<1> QED
  BY <1>2, <1>3

LEMMA GetPayloadAnewKeeps ==
    ASSUME IInv, GetPayloadAnew PROVE IInv'
<1> USE DEF IInv
<1>1. /\ build' = NewBuild(pool, best) /\ builds < MaxBuilds /\ builds' = builds + 1
      /\ getting' = TRUE /\ UNCHANGED <<config, pool, blobstore, cancel, best, answer>>
  BY DEF GetPayloadAnew
<1>2. build' \in Builds /\ Limits(build')
  BY <1>1, NewBuildGood DEF TypeOK
<1>3. build'.best_payload = best
  BY <1>1 DEF NewBuild
<1>4. builds' \in 0 .. MaxBuilds
  BY <1>1, Constants DEF TypeOK
<1>5. TypeOK'
  BY <1>1, <1>2, <1>4 DEF TypeOK
<1>6. BuildLimits'
  BY <1>1, <1>2 DEF BuildLimits, Building, Limits, is_amsterdam, is_osaka, Active,
                    protocol_max_blob_count
<1>7. BestLimits' /\ AnswerLimits' /\ SeesBest'
  BY <1>1, <1>3 DEF BestLimits, AnswerLimits, SeesBest, WithinLimits, is_osaka, Active,
                    protocol_max_blob_count
<1> QED
  BY <1>5, <1>6, <1>7

\* What the empty build comes to: its payload, or no payload.
LEMMA EmptyBuilt ==
    ASSUME NEW r \in build_empty_payload
    PROVE  \/ r = Ok(Payload(NewBuild({}, None)))
           \/ ~r.ok /\ r.err \in BuildErrors
<1>1. \A e \in BuildErrors : ~Err(e).ok /\ Err(e).err \in BuildErrors
  BY DEF Err
<1> QED
  BY <1>1 DEF build_empty_payload, BuildErrors

LEMMA AnswerEmptyKeeps ==
    ASSUME IInv, AnswerEmpty PROVE IInv'
<1> DEFINE p == Payload(NewBuild({}, None))
<1>1. /\ answer' \in build_empty_payload /\ cancel' = TRUE
      /\ UNCHANGED <<config, pool, blobstore, build, builds, best, getting>>
  BY DEF AnswerEmpty
<1>2. config \in Configs /\ getting' \in BOOLEAN
  BY <1>1 DEF IInv, TypeOK
<1>3. NewBuild({}, None) \in Builds /\ Limits(NewBuild({}, None))
  BY <1>2, NewBuildGood
<1>4. p \in Payloads /\ WithinLimits(p.block)
  BY <1>2, <1>3, SealedGood
<1>5. answer' = Ok(p) \/ (~answer'.ok /\ answer'.err \in BuildErrors)
  BY <1>1, EmptyBuilt
<1> HIDE DEF p
<1>6. Ok(p).ok /\ Ok(p).val = p
  BY DEF Ok
<1>7. PICK r : answer' = r
  OBVIOUS
<1>8. IF r.ok THEN r.val \in Payloads /\ WithinLimits(r.val.block) ELSE r.err \in BuildErrors
  BY <1>4, <1>5, <1>6, <1>7
<1> QED
  BY <1>1, <1>2, <1>7, <1>8, AnswerKeeps

LEMMA EnvironmentKeeps ==
    ASSUME IInv,
           \/ Expire
           \/ \E tx \in Txs : Arrive(tx)
           \/ \E h \in DOMAIN blobstore : DropSidecar(h)
    PROVE  IInv'
<1> USE DEF IInv
<1>1. CASE Expire
  <2>1. /\ cancel' = TRUE
        /\ UNCHANGED <<config, pool, blobstore, build, builds, best, getting, answer>>
    BY <1>1 DEF Expire
  <2>2. build' = None \/ (build' \in Builds /\ Limits(build'))
    BY <2>1, BuildFacts DEF Building
  <2> QED
    BY <2>1, <2>2, LoopKeeps DEF TypeOK
<1>2. ASSUME NEW tx \in Txs, Arrive(tx) PROVE IInv'
  <2>1. /\ pool' = pool \cup {tx}
        /\ build' = IF Building THEN [build EXCEPT !.left = @ \cup {tx}] ELSE build
        /\ UNCHANGED <<config, blobstore, cancel, builds, best, getting, answer>>
    BY <1>2 DEF Arrive
  <2>2. CASE Building
    <3>1. build \in Builds /\ Limits(build) /\ build.left \cup {tx} \in SUBSET Txs
      BY <2>2, BuildFacts DEF Builds
    <3>2. build' = [build EXCEPT !.left = build.left \cup {tx}]
      BY <2>1, <2>2, <3>1 DEF Builds
    <3>3. build' \in Builds /\ Limits(build') /\ build'.best_payload = build.best_payload
      BY <3>1, <3>2, SameLimits
    <3> QED
      BY <2>1, <2>2, <3>3, LoopKeeps DEF TypeOK, SeesBest
  <2>3. CASE ~Building
    BY <2>1, <2>3, LoopKeeps DEF TypeOK, Building
  <2> QED
    BY <2>2, <2>3
<1>3. ASSUME NEW h \in DOMAIN blobstore, DropSidecar(h) PROVE IInv'
  <2>1. /\ blobstore' = [blobstore EXCEPT ![h] = None]
        /\ UNCHANGED <<config, pool, cancel, build, builds, best, getting, answer>>
    BY <1>3 DEF DropSidecar
  <2>2. blobstore' \in [BlobTxs -> Sidecars \cup {None}]
    BY <2>1 DEF TypeOK
  <2>3. build' = None \/ (build' \in Builds /\ Limits(build'))
    BY <2>1, BuildFacts DEF Building
  <2> QED
    BY <2>1, <2>2, <2>3, LoopKeeps DEF TypeOK, SeesBest, Building
<1> QED
  BY <1>1, <1>2, <1>3

----------------------------------------------------------------------------
(* Theorems                                                                  *)

LEMMA NextKeeps == IInv /\ [Next]_vars => IInv'
<1> SUFFICES ASSUME IInv, [Next]_vars PROVE IInv'
  OBVIOUS
<1>1. CASE \E tx \in Txs : SkipWithDescendants(tx) \/ SkipStale(tx)
  BY <1>1, SkipKeeps
<1>2. CASE \E tx \in Txs : Include(tx)
  BY <1>2, IncludeKeeps
<1>3. CASE (\E tx \in Txs : NoticeCancel(tx)) \/ Abort
  BY <1>3, EndKeeps DEF NoticeCancel, Abort
<1>4. CASE Finish
  BY <1>4, FinishKeeps
<1>5. CASE Fail
  BY <1>5, FailKeeps
<1>6. CASE try_build
  BY <1>6, TryBuildKeeps
<1>7. CASE GetPayload
  BY <1>7, GetPayloadKeeps
<1>11. CASE GetPayloadAnew
  BY <1>11, GetPayloadAnewKeeps
<1>8. CASE AnswerEmpty
  BY <1>8, AnswerEmptyKeeps
<1>9. CASE \/ Expire
           \/ \E tx \in Txs : Arrive(tx)
           \/ \E h \in DOMAIN blobstore : DropSidecar(h)
  BY <1>9, EnvironmentKeeps
<1>10. CASE UNCHANGED vars
  BY <1>10 DEF vars, IInv, TypeOK, BuildLimits, BestLimits, AnswerLimits, SeesBest, Building,
               Limits, WithinLimits, is_amsterdam, is_osaka, Active, protocol_max_blob_count
<1> QED
  BY <1>1, <1>2, <1>3, <1>4, <1>5, <1>6, <1>7, <1>8, <1>9, <1>10, <1>11 DEF Next, Loop

LEMMA Invariance == Spec => []IInv
  BY InitIInv, NextKeeps, PTL DEF Spec

\* Whatever is in the pool and whenever the job is cancelled or asked, its state is
\* well formed; fees, for one, are never negative.
THEOREM TypeCorrect == Spec => []TypeOK
<1>1. IInv => TypeOK
  BY DEF IInv
<1> QED
  BY Invariance, <1>1, PTL

\* No block being built or handed out is beyond the protocol's limits, for every pool,
\* every fork and every operator limit.
THEOREM LimitsHold == Spec => []LimitsRespected
<1>1. IInv => LimitsRespected
  <2> SUFFICES ASSUME IInv PROVE LimitsRespected
    OBVIOUS
  <2>1. Building => WithinLimits(Sealed(build))
    BY BuildFacts, SealedGood
  <2>2. \A p \in Held : WithinLimits(p.block)
    BY DEF Held, IInv, BestLimits, AnswerLimits
  <2> QED
    BY <2>1, <2>2 DEF LimitsRespected
<1> QED
  BY Invariance, <1>1, PTL

\* Nobody is answered who did not ask.
Asked == answer # None => getting

LEMMA AskedAlways == Spec => []Asked
<1>1. Init => Asked
  BY DEF Init, Asked
<1>2. Asked /\ [Next]_vars => Asked'
  <2> SUFFICES ASSUME Asked, [Next]_vars PROVE Asked'
    OBVIOUS
  <2>1. CASE UNCHANGED <<answer, getting>>
    BY <2>1 DEF Asked
  <2>2. CASE Finish \/ Fail \/ AnswerEmpty
    <3>1. getting' = getting /\ (Waiting \/ answer' = answer)
      BY <2>2 DEF Finish, Fail, AnswerEmpty
    <3> QED
      BY <3>1 DEF Asked, Waiting
  <2>3. CASE GetPayload \/ GetPayloadAnew
    <3>1. getting' = TRUE
      BY <2>3 DEF GetPayload, GetPayloadAnew
    <3> QED
      BY <3>1 DEF Asked
  <2> QED
    BY <2>1, <2>2, <2>3 DEF Next, Loop, vars, SkipWithDescendants, SkipStale, Include,
       NoticeCancel, Abort, try_build, Expire, Arrive, DropSidecar
<1> QED
  BY <1>1, <1>2, PTL DEF Spec

\* The job replaces its payload only by a better paid one, and an answer by nothing.
THEOREM FeesGrow == Spec => BestImproves
<1> DEFINE Better == /\ best' # best => best' # None /\ (best = None \/ best'.fees > best.fees)
                     /\ answer # None => answer' = answer
<1>1. IInv /\ Asked /\ [Next]_vars => [Better]_vars
  <2> SUFFICES ASSUME IInv, Asked, [Next]_vars PROVE Better
    OBVIOUS
  <2>1. ASSUME best' # best PROVE best' # None /\ (best = None \/ best'.fees > best.fees)
    <3>1. Finish
      BY <2>1 DEF Next, Loop, vars, SkipWithDescendants, SkipStale, Include, NoticeCancel, Abort,
                  Fail, try_build, GetPayload, GetPayloadAnew, AnswerEmpty, Expire, Arrive,
                  DropSidecar
    <3>2. /\ Building /\ ~cancel /\ best' = Payload(build)
          /\ is_better_payload(build.best_payload, build.total_fees)
      BY <2>1, <3>1 DEF Finish, Exhausted
    <3>3. Payload(build) \in Payloads /\ Payload(build).fees = build.total_fees
      BY <3>2, BuildFacts, SealedGood
    <3>4. build.best_payload = best
      BY <3>2 DEF IInv, SeesBest
    <3> QED
      BY <3>2, <3>3, <3>4, NoneAssumption DEF is_better_payload
  <2>2. ASSUME answer # None PROVE answer' = answer
    <3>1. ~Waiting
      BY <2>2 DEF Waiting
    <3>2. CASE GetPayload
      <4>1. ~cancel /\ ~getting
        BY <3>2 DEF GetPayload
      <4> QED
        BY <2>2, <4>1 DEF Asked
    <3> QED
      BY <3>1, <3>2 DEF Next, Loop, vars, SkipWithDescendants, SkipStale, Include, NoticeCancel,
                        Abort, Finish, Fail, try_build, GetPayloadAnew, AnswerEmpty, Expire,
                        Arrive, DropSidecar
  <2> QED
    BY <2>1, <2>2
<1> QED
  BY Invariance, AskedAlways, <1>1, PTL DEF Spec, BestImproves

----------------------------------------------------------------------------
(* What the payload says of itself.  The recursive functions of the model    *)
(* are followed one transaction at a time: a function that satisfies the     *)
(* recursion for one more transaction satisfies it for those before, so no   *)
(* induction over the block is needed.                                       *)

\* f is the sequence of states of the execution of txs; h the hashes so far.
ReplayRec(f, txs) ==
    f = [i \in 0 .. Len(txs) |-> IF i = 0 THEN ParentState ELSE Executed(txs[i], f[i - 1])]
HashRec(h, txs) ==
    h = [i \in 0 .. Len(txs) |->
            IF i = 0 THEN <<>>
            ELSE IF IsBlob(txs[i]) THEN Append(h[i - 1], txs[i].hash) ELSE h[i - 1]]

Valids(f, txs) == \A i \in DOMAIN txs : ExecutionError(txs[i], f[i - 1]) = "none"

\* Executing txs from the parent is possible and ends in state.
Replays(txs, state) ==
    /\ \E f : ReplayRec(f, txs)
    /\ \A f : ReplayRec(f, txs) => f[Len(txs)] = state /\ Valids(f, txs)

\* The variant the fork asks for.
Variant == IF is_osaka THEN "eip7594" ELSE "eip4844"

\* The sidecars are those of the blob transactions, all of the fork's variant.
Carries(txs, sidecars) ==
    /\ \E h : HashRec(h, txs)
    /\ \A h : HashRec(h, txs) => h[Len(txs)] = sidecars.hashes
    /\ sidecars.kind \in {None, Variant}
    /\ sidecars.kind = None => sidecars.hashes = <<>>

BuildTrue(b) ==
    /\ Replays(b.txs, b.state) /\ b.state.beneficiary = b.total_fees
    /\ Carries(b.txs, b.blob_sidecars)

PayloadTrue(p) ==
    /\ \E state : /\ Replays(p.block.txs, state) /\ state.beneficiary = p.fees
                  /\ ~config.skip_state_root => p.block.state_root = state
    /\ Carries(p.block.txs, p.sidecars)
    /\ p.requests = Active("prague") /\ p.block_access_list = is_amsterdam

TruthInv ==
    /\ IInv
    /\ \A b : b = build /\ Building => BuildTrue(b)
    /\ \A p : p = best /\ p # None => PayloadTrue(p)
    /\ \A r : r = answer /\ r # None /\ r.ok => PayloadTrue(r.val)

LEMMA ReplaysNone ==
    ASSUME NEW txs, txs = <<>> PROVE Replays(txs, ParentState)
<1>1. Len(txs) = 0 /\ DOMAIN txs = {}
  OBVIOUS
<1>2. ReplayRec([i \in 0 .. 0 |-> ParentState], txs)
  BY <1>1 DEF ReplayRec
<1>3. \A f : ReplayRec(f, txs) => f[0] = ParentState
  BY <1>1 DEF ReplayRec
<1>4. \A f : Valids(f, txs)
  BY <1>1 DEF Valids
<1> QED
  BY <1>1, <1>2, <1>3, <1>4 DEF Replays

LEMMA CarriesNone ==
    ASSUME NEW txs, txs = <<>> PROVE Carries(txs, EmptySidecars)
<1>1. Len(txs) = 0
  OBVIOUS
<1>2. HashRec([i \in 0 .. 0 |-> <<>>], txs)
  BY <1>1 DEF HashRec
<1>3. \A h : HashRec(h, txs) => h[0] = <<>>
  BY <1>1 DEF HashRec
<1>4. EmptySidecars.kind = None /\ EmptySidecars.hashes = <<>>
  BY DEF EmptySidecars
<1> QED
  BY <1>1, <1>2, <1>3, <1>4 DEF Carries

LEMMA ReplaysNext ==
    ASSUME NEW txs \in Seq(Txs), NEW tx \in Txs, NEW state, Replays(txs, state),
           ExecutionError(tx, state) = "none"
    PROVE  Replays(Append(txs, tx), Executed(tx, state))
<1> DEFINE n == Len(txs)
           more == Append(txs, tx)
<1>1. /\ n \in Nat /\ Len(more) = n + 1 /\ more[n + 1] = tx /\ DOMAIN more = 1 .. n + 1
      /\ DOMAIN txs = 1 .. n /\ \A i \in 1 .. n : more[i] = txs[i]
  OBVIOUS
<1> HIDE DEF n, more
<1>2. PICK f : ReplayRec(f, txs)
  BY DEF Replays
<1> DEFINE g == [i \in 0 .. n + 1 |-> IF i = n + 1 THEN Executed(tx, f[n]) ELSE f[i]]
<1>3. ReplayRec(g, more)
  <2>1. /\ \A i \in 0 .. n : g[i] = f[i]
        /\ g[n + 1] = Executed(tx, f[n])
    BY <1>1
  <2>2. \A i \in 0 .. n : f[i] = IF i = 0 THEN ParentState ELSE Executed(txs[i], f[i - 1])
    BY <1>2 DEF ReplayRec, n
  <2>3. ASSUME NEW i \in 0 .. n + 1
        PROVE  g[i] = IF i = 0 THEN ParentState ELSE Executed(more[i], g[i - 1])
    <3>1. CASE i = 0
      BY <1>1, <2>1, <2>2, <3>1
    <3>2. CASE i \in 1 .. n
      <4>1. i \in 0 .. n /\ i - 1 \in 0 .. n /\ i # 0 /\ more[i] = txs[i]
        BY <1>1, <3>2
      <4> HIDE DEF g
      <4> QED
        BY <2>1, <2>2, <4>1
    <3>3. CASE i = n + 1
      <4>1. i # 0 /\ i - 1 = n /\ n \in 0 .. n
        BY <1>1, <3>3
      <4> HIDE DEF g
      <4> QED
        BY <1>1, <2>1, <3>3, <4>1
    <3> QED
      BY <1>1, <3>1, <3>2, <3>3
  <2>4. g = [i \in 0 .. n + 1 |-> g[i]]
    OBVIOUS
  <2> HIDE DEF g
  <2>5. g = [i \in 0 .. n + 1 |-> IF i = 0 THEN ParentState ELSE Executed(more[i], g[i - 1])]
    BY <2>3, <2>4
  <2> QED
    BY <1>1, <2>5 DEF ReplayRec
<1> HIDE DEF g
<1>4. ASSUME NEW k, ReplayRec(k, more)
      PROVE  k[n + 1] = Executed(tx, state) /\ Valids(k, more)
  <2>1. \A i \in 0 .. n + 1 : k[i] = IF i = 0 THEN ParentState ELSE Executed(more[i], k[i - 1])
    BY <1>1, <1>4 DEF ReplayRec
  <2> DEFINE l == [i \in 0 .. n |-> k[i]]
  <2>2. \A i \in 0 .. n : l[i] = k[i]
    OBVIOUS
  <2>3. ASSUME NEW i \in 0 .. n
        PROVE  k[i] = IF i = 0 THEN ParentState ELSE Executed(txs[i], l[i - 1])
    <3>1. CASE i = 0
      BY <1>1, <2>1, <3>1
    <3>2. CASE i # 0
      <4>1. i \in 0 .. n + 1 /\ i - 1 \in 0 .. n /\ i \in 1 .. n
        BY <1>1, <3>2
      <4> HIDE DEF l
      <4> QED
        BY <1>1, <2>1, <2>2, <3>2, <4>1
    <3> QED
      BY <3>1, <3>2
  <2>4. l = [i \in 0 .. n |-> IF i = 0 THEN ParentState ELSE Executed(txs[i], l[i - 1])]
    BY <2>3
  <2> HIDE DEF l
  <2>5. ReplayRec(l, txs)
    BY <2>4 DEF ReplayRec, n
  <2>6. l[n] = state /\ Valids(l, txs)
    BY <2>5 DEF Replays, n
  <2>7. k[n] = state
    BY <1>1, <2>2, <2>6
  <2>8. k[n + 1] = Executed(tx, state)
    <3>1. n + 1 \in 0 .. n + 1 /\ n + 1 # 0 /\ (n + 1) - 1 = n
      BY <1>1
    <3> QED
      BY <1>1, <2>1, <2>7, <3>1
  <2>9. ASSUME NEW i \in 1 .. n + 1 PROVE ExecutionError(more[i], k[i - 1]) = "none"
    <3>1. CASE i \in 1 .. n
      <4>1. i - 1 \in 0 .. n /\ more[i] = txs[i] /\ i \in DOMAIN txs
        BY <1>1, <3>1
      <4>2. ExecutionError(txs[i], l[i - 1]) = "none"
        BY <2>6, <4>1 DEF Valids
      <4> QED
        BY <2>2, <4>1, <4>2
    <3>2. CASE i = n + 1
      <4>1. i - 1 = n /\ more[i] = tx
        BY <1>1, <3>2
      <4> QED
        BY <2>7, <4>1
    <3> QED
      BY <1>1, <3>1, <3>2
  <2> QED
    BY <1>1, <2>8, <2>9 DEF Valids
<1> QED
  BY <1>1, <1>3, <1>4 DEF Replays, more

LEMMA CarriesNext ==
    ASSUME NEW txs \in Seq(Txs), NEW tx \in Txs, NEW sidecars \in SidecarLists,
           Carries(txs, sidecars), IsBlob(tx) => blobstore[tx.hash] = Variant
    PROVE  Carries(Append(txs, tx),
                   IF IsBlob(tx) THEN push_sidecar_variant(sidecars, tx.hash, blobstore[tx.hash])
                   ELSE sidecars)
<1> DEFINE n == Len(txs)
           more == Append(txs, tx)
           pushed == IF IsBlob(tx)
                     THEN push_sidecar_variant(sidecars, tx.hash, blobstore[tx.hash])
                     ELSE sidecars
           Add(s) == IF IsBlob(tx) THEN Append(s, tx.hash) ELSE s
<1>1. /\ n \in Nat /\ Len(more) = n + 1 /\ more[n + 1] = tx
      /\ \A i \in 1 .. n : more[i] = txs[i]
  OBVIOUS
<1>2. /\ pushed.hashes = Add(sidecars.hashes) /\ pushed.kind \in {None, Variant}
      /\ pushed.kind = None => pushed.hashes = <<>>
  <2>1. CASE ~IsBlob(tx)
    BY <2>1 DEF Carries
  <2>2. CASE IsBlob(tx) /\ sidecars.kind = None
    <3>1. pushed = [kind |-> Variant, hashes |-> <<tx.hash>>]
      BY <2>2 DEF push_sidecar_variant
    <3>2. Append(<<>>, tx.hash) = <<tx.hash>> /\ sidecars.hashes = <<>> /\ Variant # None
      BY <2>2, BuilderAssumption DEF Carries, Variant
    <3> QED
      BY <2>2, <3>1, <3>2
  <2>3. CASE IsBlob(tx) /\ sidecars.kind # None
    <3>1. sidecars.kind = Variant
      BY <2>3 DEF Carries
    <3>2. pushed = [sidecars EXCEPT !.hashes = Append(@, tx.hash)]
      BY <2>3, <3>1 DEF push_sidecar_variant
    <3>3. pushed.kind = Variant /\ pushed.hashes = Append(sidecars.hashes, tx.hash)
      BY <3>1, <3>2 DEF SidecarLists
    <3> QED
      BY <2>3, <3>1, <3>3
  <2> QED
    BY <2>1, <2>2, <2>3
<1> HIDE DEF n, more, pushed
<1>3. PICK f : HashRec(f, txs)
  BY DEF Carries
<1> DEFINE g == [i \in 0 .. n + 1 |-> IF i = n + 1 THEN Add(f[n]) ELSE f[i]]
           Step(h, ts, i) == IF i = 0 THEN <<>>
                             ELSE IF IsBlob(ts[i]) THEN Append(h[i - 1], ts[i].hash)
                             ELSE h[i - 1]
<1>4. HashRec(g, more)
  <2>1. /\ \A i \in 0 .. n : g[i] = f[i]
        /\ g[n + 1] = Add(f[n])
    BY <1>1
  <2>2. \A i \in 0 .. n : f[i] = Step(f, txs, i)
    BY <1>3 DEF HashRec, n
  <2>3. ASSUME NEW i \in 0 .. n + 1
        PROVE  g[i] = Step(g, more, i)
    <3>1. CASE i = 0
      BY <1>1, <2>1, <2>2, <3>1
    <3>2. CASE i \in 1 .. n
      <4>1. i \in 0 .. n /\ i - 1 \in 0 .. n /\ i # 0 /\ more[i] = txs[i]
        BY <1>1, <3>2
      <4> HIDE DEF g
      <4> QED
        BY <2>1, <2>2, <4>1
    <3>3. CASE i = n + 1
      <4>1. i # 0 /\ i - 1 = n /\ n \in 0 .. n
        BY <1>1, <3>3
      <4> HIDE DEF g
      <4> QED
        BY <1>1, <2>1, <3>3, <4>1
    <3> QED
      BY <1>1, <3>1, <3>2, <3>3
  <2>4. g = [i \in 0 .. n + 1 |-> g[i]]
    OBVIOUS
  <2> HIDE DEF g
  <2>5. g = [i \in 0 .. n + 1 |-> Step(g, more, i)]
    BY <2>3, <2>4
  <2> QED
    BY <1>1, <2>5 DEF HashRec
<1> HIDE DEF g
<1>5. ASSUME NEW k, HashRec(k, more) PROVE k[n + 1] = Add(sidecars.hashes)
  <2>1. \A i \in 0 .. n + 1 : k[i] = Step(k, more, i)
    BY <1>1, <1>5 DEF HashRec
  <2> DEFINE l == [i \in 0 .. n |-> k[i]]
  <2>2. \A i \in 0 .. n : l[i] = k[i]
    OBVIOUS
  <2>3. ASSUME NEW i \in 0 .. n PROVE k[i] = Step(l, txs, i)
    <3>1. CASE i = 0
      BY <1>1, <2>1, <3>1
    <3>2. CASE i # 0
      <4>1. i \in 0 .. n + 1 /\ i - 1 \in 0 .. n /\ i \in 1 .. n
        BY <1>1, <3>2
      <4> HIDE DEF l
      <4> QED
        BY <1>1, <2>1, <2>2, <3>2, <4>1
    <3> QED
      BY <3>1, <3>2
  <2>4. l = [i \in 0 .. n |-> Step(l, txs, i)]
    BY <2>3
  <2> HIDE DEF l
  <2>5. HashRec(l, txs)
    BY <2>4 DEF HashRec, n
  <2>6. l[n] = sidecars.hashes
    BY <2>5 DEF Carries, n
  <2>7. n + 1 \in 0 .. n + 1 /\ n + 1 # 0 /\ (n + 1) - 1 = n /\ n \in 0 .. n
    BY <1>1
  <2> QED
    BY <1>1, <2>1, <2>2, <2>6, <2>7
<1> QED
  BY <1>1, <1>2, <1>4, <1>5 DEF Carries, more, pushed

LEMMA NewBuildTrue ==
    ASSUME NEW S, NEW p PROVE BuildTrue(NewBuild(S, p))
<1> DEFINE b == NewBuild(S, p)
<1>1. /\ b.txs = <<>> /\ b.state = ParentState /\ b.total_fees = 0
      /\ b.blob_sidecars = EmptySidecars
  BY DEF NewBuild
<1>2. ParentState.beneficiary = 0
  BY DEF ParentState
<1> HIDE DEF b
<1>3. Replays(b.txs, b.state) /\ Carries(b.txs, b.blob_sidecars)
  BY <1>1, ReplaysNone, CarriesNone
<1>4. BuildTrue(b)
  BY <1>1, <1>2, <1>3 DEF BuildTrue
<1> QED
  BY <1>4 DEF b

LEMMA WithTxTrue ==
    ASSUME TypeOK, NEW b \in Builds, NEW tx \in Txs, BuildTrue(b), Fits(b, tx),
           ExecutionError(tx, b.state) = "none"
    PROVE  BuildTrue(WithTx(b, tx))
<1> DEFINE n == WithTx(b, tx)
           sidecars == IF IsBlob(tx)
                       THEN push_sidecar_variant(b.blob_sidecars, tx.hash, blobstore[tx.hash])
                       ELSE b.blob_sidecars
<1>1. /\ n.txs = Append(b.txs, tx) /\ n.state = Executed(tx, b.state)
      /\ n.total_fees = b.total_fees + Tip(tx) * GasUsed(tx)
      /\ n.blob_sidecars = sidecars
  BY DEF WithTx, Recorded, Builds
<1>2. /\ b.txs \in Seq(Txs) /\ b.state \in States /\ b.total_fees \in Nat
      /\ b.blob_sidecars \in SidecarLists
  BY DEF Builds
<1>3. IsBlob(tx) => blobstore[tx.hash] = Variant
  BY DEF Fits, BadSidecar, Variant
<1>4. Carries(Append(b.txs, tx), sidecars)
  BY <1>2, <1>3, CarriesNext DEF BuildTrue
<1>5. Replays(Append(b.txs, tx), Executed(tx, b.state))
  BY <1>2, ReplaysNext DEF BuildTrue
<1> HIDE DEF n, sidecars
<1>6. Executed(tx, b.state).beneficiary = b.total_fees + Tip(tx) * GasUsed(tx)
  <2>1. Executed(tx, b.state).beneficiary = b.state.beneficiary + GasUsed(tx) * Tip(tx)
    BY DEF Executed
  <2>2. Tip(tx) \in Nat /\ GasUsed(tx) \in Nat
    BY <1>2, Executing
  <2>3. GasUsed(tx) * Tip(tx) = Tip(tx) * GasUsed(tx)
    BY <2>2
  <2> QED
    BY <2>1, <2>3 DEF BuildTrue
<1>7. BuildTrue(n)
  BY <1>1, <1>4, <1>5, <1>6 DEF BuildTrue
<1> QED
  BY <1>7 DEF n

LEMMA SealedTrue ==
    ASSUME NEW b, BuildTrue(b) PROVE PayloadTrue(Payload(b))
<1> DEFINE p == Payload(b)
<1>1. /\ p.block.txs = b.txs /\ p.fees = b.total_fees /\ p.sidecars = b.blob_sidecars
      /\ p.requests = Active("prague") /\ p.block_access_list = is_amsterdam
      /\ ~config.skip_state_root => p.block.state_root = b.state
  BY DEF Payload, Sealed
<1> HIDE DEF p
<1>2. PayloadTrue(p)
  BY <1>1 DEF PayloadTrue, BuildTrue
<1> QED
  BY <1>2 DEF p

\* Nothing of this depends on more than the configuration, which never changes.
LEMMA TruthStays ==
    ASSUME UNCHANGED config
    PROVE  /\ \A b : BuildTrue(b)' <=> BuildTrue(b)
           /\ \A p : PayloadTrue(p)' <=> PayloadTrue(p)
<1>1. /\ is_osaka' = is_osaka /\ is_amsterdam' = is_amsterdam
      /\ Active("prague")' = Active("prague")
      /\ Active("cancun")' = Active("cancun")
  BY DEF is_osaka, is_amsterdam, Active
<1>2. \A tx, state : ExecutionError(tx, state)' = ExecutionError(tx, state)
  BY <1>1 DEF ExecutionError
<1>3. \A txs, f : Valids(f, txs)' <=> Valids(f, txs)
  BY <1>2 DEF Valids
<1>4. \A txs, state : Replays(txs, state)' <=> Replays(txs, state)
  BY <1>3 DEF Replays
<1>5. Variant' = Variant
  BY <1>1 DEF Variant
<1>6. \A txs, sidecars : Carries(txs, sidecars)' <=> Carries(txs, sidecars)
  BY <1>5 DEF Carries
<1>7. \A b : BuildTrue(b)' <=> BuildTrue(b)
  BY <1>4, <1>6 DEF BuildTrue
<1>8. \A p : PayloadTrue(p)' <=> PayloadTrue(p)
  BY <1>1, <1>4, <1>6 DEF PayloadTrue
<1> QED
  BY <1>7, <1>8

\* Only the fields that are filled by an included transaction matter.
LEMMA SameTrue ==
    ASSUME NEW b, NEW c, BuildTrue(b), c.txs = b.txs, c.state = b.state,
           c.total_fees = b.total_fees, c.blob_sidecars = b.blob_sidecars
    PROVE  BuildTrue(c)
  BY DEF BuildTrue

\* What a step does to the call under way and to the payloads.
BuildStep ==
    \/ build' = None
    \/ Building /\ build' = build
    \/ /\ Building /\ build'.txs = build.txs /\ build'.state = build.state
       /\ build'.total_fees = build.total_fees /\ build'.blob_sidecars = build.blob_sidecars
    \/ \E S, p : build' = NewBuild(S, p)
    \/ \E tx \in Txs : /\ Building /\ Fits(build, tx) /\ build' = WithTx(build, tx)
                       /\ ExecutionError(tx, build.state) = "none"

BestStep == best' = best \/ (Building /\ best' = Payload(build))

AnswerStep ==
    \/ answer' = answer
    \/ best # None /\ answer' = Ok(best)
    \/ Building /\ answer' = Ok(Payload(build))
    \/ \E S, p : answer' = Ok(Payload(NewBuild(S, p)))
    \/ ~answer'.ok

LEMMA TruthSteps == IInv /\ [Next]_vars => UNCHANGED config /\ BuildStep /\ BestStep /\ AnswerStep
<1> SUFFICES ASSUME IInv, [Next]_vars
             PROVE  UNCHANGED config /\ BuildStep /\ BestStep /\ AnswerStep
  OBVIOUS
<1>1. ASSUME NEW tx \in Txs, SkipWithDescendants(tx) \/ SkipStale(tx)
      PROVE  UNCHANGED config /\ BuildStep /\ BestStep /\ AnswerStep
  <2>1. /\ Building /\ UNCHANGED <<config, best, answer>>
        /\ build' = mark_invalid(build, tx) \/ build' = [build EXCEPT !.left = @ \ {tx}]
    BY <1>1 DEF SkipWithDescendants, SkipStale
  <2>2. /\ build'.txs = build.txs /\ build'.state = build.state
        /\ build'.total_fees = build.total_fees /\ build'.blob_sidecars = build.blob_sidecars
    BY <2>1, BuildFacts DEF mark_invalid, Builds
  <2> QED
    BY <2>1, <2>2 DEF BuildStep, BestStep, AnswerStep
<1>2. CASE \E tx \in Txs : Include(tx)
  BY <1>2 DEF Include, BuildStep, BestStep, AnswerStep
<1>3. CASE (\E tx \in Txs : NoticeCancel(tx)) \/ Abort
  BY <1>3 DEF NoticeCancel, Abort, BuildStep, BestStep, AnswerStep
<1>4. CASE Finish
  BY <1>4 DEF Finish, Exhausted, BuildStep, BestStep, AnswerStep
<1>5. CASE Fail
  <2>1. /\ build' = None /\ UNCHANGED <<config, best>>
        /\ answer' = Err("MissingPayload") \/ answer' = answer
    BY <1>5 DEF Fail
  <2>2. ~Err("MissingPayload").ok
    BY DEF Err
  <2> QED
    BY <2>1, <2>2 DEF BuildStep, BestStep, AnswerStep
<1>6. CASE try_build
  BY <1>6 DEF try_build, BuildStep, BestStep, AnswerStep
<1>7. CASE GetPayload
  BY <1>7 DEF GetPayload, Building, BuildStep, BestStep, AnswerStep
<1>13. CASE GetPayloadAnew
  BY <1>13 DEF GetPayloadAnew, BuildStep, BestStep, AnswerStep
<1>8. CASE AnswerEmpty
  <2>1. /\ UNCHANGED <<config, build, best>> /\ answer' \in build_empty_payload
    BY <1>8 DEF AnswerEmpty
  <2>2. answer' = Ok(Payload(NewBuild({}, None))) \/ ~answer'.ok
    BY <2>1, EmptyBuilt
  <2> QED
    BY <2>1, <2>2 DEF Building, BuildStep, BestStep, AnswerStep
<1>9. CASE Expire
  BY <1>9 DEF Expire, Building, BuildStep, BestStep, AnswerStep
<1>10. ASSUME NEW tx \in Txs, Arrive(tx)
       PROVE  UNCHANGED config /\ BuildStep /\ BestStep /\ AnswerStep
  <2>1. /\ build' = IF Building THEN [build EXCEPT !.left = @ \cup {tx}] ELSE build
        /\ UNCHANGED <<config, best, answer>>
    BY <1>10 DEF Arrive
  <2>2. CASE Building
    <3>1. /\ build'.txs = build.txs /\ build'.state = build.state
          /\ build'.total_fees = build.total_fees /\ build'.blob_sidecars = build.blob_sidecars
      BY <2>1, <2>2, BuildFacts DEF Builds
    <3> QED
      BY <2>1, <2>2, <3>1 DEF BuildStep, BestStep, AnswerStep
  <2>3. CASE ~Building
    BY <2>1, <2>3 DEF Building, BuildStep, BestStep, AnswerStep
  <2> QED
    BY <2>2, <2>3
<1>11. CASE \E h \in DOMAIN blobstore : DropSidecar(h)
  BY <1>11 DEF DropSidecar, Building, BuildStep, BestStep, AnswerStep
<1>12. CASE UNCHANGED vars
  BY <1>12 DEF vars, Building, BuildStep, BestStep, AnswerStep
<1> QED
  BY <1>1, <1>2, <1>3, <1>4, <1>5, <1>6, <1>7, <1>8, <1>9, <1>10, <1>11, <1>12,
     <1>13 DEF Next, Loop

LEMMA TruthKept == TruthInv /\ [Next]_vars => TruthInv'
<1> SUFFICES ASSUME TruthInv, [Next]_vars PROVE TruthInv'
  OBVIOUS
<1>1. /\ IInv' /\ UNCHANGED config /\ BuildStep /\ BestStep /\ AnswerStep
  BY NextKeeps, TruthSteps DEF TruthInv
<1>2. /\ \A b : BuildTrue(b)' <=> BuildTrue(b)
      /\ \A p : PayloadTrue(p)' <=> PayloadTrue(p)
  BY <1>1, TruthStays
<1>3. Building => BuildTrue(build) /\ PayloadTrue(Payload(build))
  BY SealedTrue DEF TruthInv
<1>4. ASSUME NEW b, b = build', b # None PROVE BuildTrue(b)
  <2>1. CASE Building /\ build' = build
    BY <1>3, <1>4, <2>1
  <2>2. CASE /\ Building /\ build'.txs = build.txs /\ build'.state = build.state
             /\ build'.total_fees = build.total_fees
             /\ build'.blob_sidecars = build.blob_sidecars
    BY <1>3, <1>4, <2>2, SameTrue
  <2>3. CASE \E S, p : build' = NewBuild(S, p)
    BY <1>4, <2>3, NewBuildTrue
  <2>4. CASE \E tx \in Txs : /\ Building /\ Fits(build, tx) /\ build' = WithTx(build, tx)
                             /\ ExecutionError(tx, build.state) = "none"
    <3>1. Building /\ build \in Builds /\ TypeOK
      BY <2>4, BuildFacts DEF TruthInv, IInv
    <3> QED
      BY <1>3, <1>4, <2>4, <3>1, WithTxTrue
  <2> QED
    BY <1>1, <1>4, <2>1, <2>2, <2>3, <2>4 DEF BuildStep
<1>5. ASSUME NEW p, p = best', p # None PROVE PayloadTrue(p)
  BY <1>1, <1>3, <1>5 DEF BestStep, TruthInv
<1>6. ASSUME NEW r, r = answer', r # None, r.ok PROVE PayloadTrue(r.val)
  <2>1. \A x : Ok(x).val = x
    BY DEF Ok
  <2>2. \A S, p : PayloadTrue(Payload(NewBuild(S, p)))
    BY NewBuildTrue, SealedTrue
  <2>3. CASE answer' = answer
    BY <1>6, <2>3 DEF TruthInv
  <2>4. CASE best # None /\ answer' = Ok(best)
    BY <1>6, <2>1, <2>4 DEF TruthInv
  <2>5. CASE Building /\ answer' = Ok(Payload(build))
    BY <1>3, <1>6, <2>1, <2>5
  <2>6. CASE \E S, p : answer' = Ok(Payload(NewBuild(S, p)))
    BY <1>6, <2>1, <2>2, <2>6
  <2> QED
    BY <1>1, <1>6, <2>3, <2>4, <2>5, <2>6 DEF AnswerStep
<1>7. /\ \A b : b = build' /\ Building' => BuildTrue(b)'
      /\ \A p : p = best' /\ p # None => PayloadTrue(p)'
      /\ \A r : r = answer' /\ r # None /\ r.ok => PayloadTrue(r.val)'
  BY <1>2, <1>4, <1>5, <1>6 DEF Building
<1> QED
  BY <1>1, <1>7 DEF TruthInv

LEMMA TruthInvariance == Spec => []TruthInv
<1>1. Init => TruthInv
  <2> SUFFICES ASSUME Init PROVE TruthInv
    OBVIOUS
  <2>1. IInv
    BY InitIInv
  <2>2. build = None /\ best = None /\ answer = None
    BY DEF Init
  <2> QED
    BY <2>1, <2>2 DEF TruthInv, Building
<1> QED
  BY <1>1, TruthKept, PTL DEF Spec

LEMMA HeldTrue ==
    ASSUME TruthInv, NEW p \in Held PROVE PayloadTrue(p) /\ p \in Payloads
<1>1. \/ p = best /\ best # None
      \/ p = answer.val /\ answer # None /\ answer.ok
  BY DEF Held
<1>2. CASE p = best /\ best # None
  BY <1>2 DEF TruthInv, IInv, TypeOK
<1>3. CASE p = answer.val /\ answer # None /\ answer.ok
  BY <1>3 DEF TruthInv, IInv, TypeOK
<1> QED
  BY <1>1, <1>2, <1>3

\* The forks are told apart by their place in the list.
LEMMA ForkOrder ==
    /\ ForkIndex("shanghai") = 1 /\ ForkIndex("cancun") = 2 /\ ForkIndex("prague") = 3
    /\ ForkIndex("osaka") = 4 /\ ForkIndex("amsterdam") = 5
    /\ {Forks[i] : i \in DOMAIN Forks} = {"shanghai", "cancun", "prague", "osaka", "amsterdam"}
<1>1. /\ DOMAIN Forks = 1 .. 5 /\ Forks[1] = "shanghai" /\ Forks[2] = "cancun"
      /\ Forks[3] = "prague" /\ Forks[4] = "osaka" /\ Forks[5] = "amsterdam"
  BY DEF Forks
<1>2. \A i \in DOMAIN Forks : i = 1 \/ i = 2 \/ i = 3 \/ i = 4 \/ i = 5
  BY <1>1
<1>3. ForkIndex("shanghai") = 1
  BY <1>1, <1>2 DEF ForkIndex
<1>4. ForkIndex("cancun") = 2
  BY <1>1, <1>2 DEF ForkIndex
<1>5. ForkIndex("prague") = 3
  BY <1>1, <1>2 DEF ForkIndex
<1>6. ForkIndex("osaka") = 4
  BY <1>1, <1>2 DEF ForkIndex
<1>7. ForkIndex("amsterdam") = 5
  BY <1>1, <1>2 DEF ForkIndex
<1>8. {Forks[i] : i \in DOMAIN Forks} = {"shanghai", "cancun", "prague", "osaka", "amsterdam"}
  BY <1>1, <1>2
<1> QED
  BY <1>3, <1>4, <1>5, <1>6, <1>7, <1>8

\* Every payload handed out re-executes from the parent, transaction by transaction; its
\* fees are what the beneficiary earns and its state root is that of the execution.
THEOREM PayloadsReExecute == Spec => []PayloadReExecutes
<1>1. TruthInv => PayloadReExecutes
  <2> SUFFICES ASSUME TruthInv, NEW p \in Held
               PROVE  LET txs == p.block.txs
                          state == Replay(txs)
                      IN  /\ \A i \in DOMAIN txs : ExecutionError(txs[i], state[i - 1]) = "none"
                          /\ p.fees = state[Len(txs)].beneficiary
                          /\ ~config.skip_state_root => p.block.state_root = state[Len(txs)]
    BY DEF PayloadReExecutes
  <2> DEFINE txs == p.block.txs
             f == Replay(txs)
  <2>1. PICK s : /\ Replays(txs, s) /\ s.beneficiary = p.fees
                 /\ ~config.skip_state_root => p.block.state_root = s
    BY HeldTrue DEF PayloadTrue
  <2>2. f = CHOOSE g : ReplayRec(g, txs)
    BY DEF Replay, ReplayRec
  <2> HIDE DEF f, txs
  <2>3. ReplayRec(f, txs)
    BY <2>1, <2>2 DEF Replays
  <2>4. f[Len(txs)] = s /\ Valids(f, txs)
    BY <2>1, <2>3 DEF Replays
  <2> QED
    BY <2>1, <2>4 DEF Valids, f, txs
<1> QED
  BY TruthInvariance, <1>1, PTL

\* Every payload handed out becomes an envelope of its fork, with the sidecars of exactly
\* its blob transactions in block order, its requests, and an ExecutionData that agrees.
THEOREM EnvelopesComplete == Spec => []EnvelopeComplete
<1>1. TruthInv => EnvelopeComplete
  <2> SUFFICES ASSUME TruthInv, NEW p \in Held
               PROVE  /\ Envelope(p).ok
                      /\ p.sidecars.hashes = BlobHashes(p.block.txs)
                      /\ Active("cancun") =>
                            Envelope(p).val.blobs_bundle
                              = into_execution_data(p).versioned_hashes
                      /\ Active("prague") => Envelope(p).val.execution_requests
                      /\ into_execution_data(p).requests = Active("prague")
    BY DEF EnvelopeComplete
  <2> DEFINE txs == p.block.txs
             h == CHOOSE g : HashRec(g, txs)
  <2>1. /\ Carries(txs, p.sidecars) /\ p.requests = Active("prague")
        /\ p.block_access_list = is_amsterdam
    BY HeldTrue DEF PayloadTrue
  <2>2. BlobHashes(txs) = h[Len(txs)]
    BY DEF BlobHashes, HashRec
  <2>3. HashRec(h, txs)
    BY <2>1 DEF Carries
  <2>4. p.sidecars.hashes = BlobHashes(txs)
    BY <2>1, <2>2, <2>3 DEF Carries
  <2>5. p.sidecars.kind \in {None, Variant}
    BY <2>1 DEF Carries
  <2> HIDE DEF h
  <2>6. config.fork \in {"shanghai", "cancun", "prague", "osaka", "amsterdam"}
    BY ForkOrder, BuilderAssumption DEF TruthInv, IInv, TypeOK
  <2>7. into_execution_data(p).versioned_hashes = IF Active("cancun") THEN BlobHashes(txs) ELSE None
    BY DEF into_execution_data
  <2>8. into_execution_data(p).requests <=> (Active("prague") /\ Active("cancun"))
    BY <2>1 DEF into_execution_data
  <2>9. None # "eip4844" /\ None # "eip7594"
    BY BuilderAssumption
  <2>10. /\ Active("prague") => Active("cancun")
         /\ Active("prague") \in BOOLEAN /\ into_execution_data(p).requests \in BOOLEAN
    BY <2>6, ForkOrder DEF Active, into_execution_data
  <2>11. into_execution_data(p).requests = Active("prague")
    BY <2>8, <2>10
  <2> DEFINE good == /\ Envelope(p).ok
                     /\ Active("cancun") => Envelope(p).val.blobs_bundle = p.sidecars.hashes
                     /\ Active("prague") => Envelope(p).val.execution_requests
  <2>12. ASSUME config.fork = "shanghai" PROVE good
    <3>1. ~Active("cancun") /\ ~Active("prague")
      BY <2>12, ForkOrder DEF Active
    <3>2. Envelope(p) = try_into_v2(p)
      BY <2>12 DEF Envelope
    <3>3. Envelope(p).ok
      BY <3>2 DEF try_into_v2, Ok
    <3> QED
      BY <3>1, <3>3
  <2>13. ASSUME config.fork = "cancun" PROVE good
    <3>1. ~Active("prague") /\ ~is_osaka
      BY <2>13, ForkOrder DEF Active, is_osaka
    <3>2. Envelope(p) = try_into_v3(p)
      BY <2>13 DEF Envelope
    <3>3. p.sidecars.kind # "eip7594"
      BY <3>1, <2>5, <2>9 DEF Variant
    <3>4. Envelope(p).ok /\ Envelope(p).val.blobs_bundle = p.sidecars.hashes
      BY <3>2, <3>3 DEF try_into_v3, Ok
    <3> QED
      BY <3>1, <3>4
  <2>14. ASSUME config.fork = "prague" PROVE good
    <3>1. Active("prague") /\ ~is_osaka
      BY <2>14, ForkOrder DEF Active, is_osaka
    <3>2. Envelope(p) = try_into_v4(p)
      BY <2>14 DEF Envelope
    <3>3. p.sidecars.kind # "eip7594"
      BY <3>1, <2>5, <2>9 DEF Variant
    <3>4. try_into_v3(p).ok /\ try_into_v3(p).val.blobs_bundle = p.sidecars.hashes
      BY <3>3 DEF try_into_v3, Ok
    <3>5. /\ Envelope(p).ok /\ Envelope(p).val.blobs_bundle = p.sidecars.hashes
          /\ Envelope(p).val.execution_requests = p.requests
      BY <3>2, <3>4 DEF try_into_v4, Ok
    <3> QED
      BY <3>1, <3>5, <2>1
  <2>15. ASSUME config.fork \in {"osaka", "amsterdam"} PROVE good
    <3>1. /\ Active("prague") /\ is_osaka
          /\ config.fork = "amsterdam" => is_amsterdam
      BY <2>15, ForkOrder DEF Active, is_osaka, is_amsterdam
    <3>2. Envelope(p) = try_into_v5(p)
      BY <2>15, <3>1, <2>1 DEF Envelope, try_into_v6
    <3>3. p.sidecars.kind # "eip4844"
      BY <3>1, <2>5, <2>9 DEF Variant
    <3>4. /\ Envelope(p).ok /\ Envelope(p).val.blobs_bundle = p.sidecars.hashes
          /\ Envelope(p).val.execution_requests = p.requests
      BY <3>2, <3>3 DEF try_into_v5, Ok
    <3> QED
      BY <3>1, <3>4, <2>1
  <2>16. good
    BY <2>6, <2>12, <2>13, <2>14, <2>15
  <2> QED
    BY <2>4, <2>7, <2>11, <2>16
<1> QED
  BY TruthInvariance, <1>1, PTL

----------------------------------------------------------------------------
(* Sums over the pool.  The model adds up what the pool asks for with a fold *)
(* over a set.  Its equation is shown to have a solution, and any element to *)
(* come out first, by looking at a smallest subset for which it would fail.  *)

\* Induction on finite sets, by a smallest counterexample.
LEMMA SmallestSubset ==
    ASSUME NEW S, IsFiniteSet(S), NEW Bad \in SUBSET (SUBSET S), Bad # {}
    PROVE  \E T \in Bad : \A U \in Bad : U \subseteq T => U = T
<1>1. IsWellFoundedOn(StrictSubsetOrdering(S), SUBSET S)
  BY FS_StrictSubsetOrderingWellFounded, FS_FiniteSubsetsOfFinite
<1>2. PICK T \in Bad : \A U \in Bad : ~(<<U, T>> \in StrictSubsetOrdering(S))
  BY <1>1, WFMin
<1> QED
  BY <1>2 DEF StrictSubsetOrdering

\* The equation of a sum over the subsets of S, and what the sum says of one of them.
Pick(s) == CHOOSE x \in s : TRUE
Total(v, S) == SumFunctionOnSet(v, S)
SumRec(g, v, S) ==
    g = [s \in SUBSET S |-> IF s = {} THEN 0 ELSE v[Pick(s)] + g[s \ {Pick(s)}]]
SumStep(v, S) == Total(v, S) = IF S = {} THEN 0 ELSE v[Pick(S)] + Total(v, S \ {Pick(S)})

LEMMA SumChosen == ASSUME NEW v, NEW S PROVE Total(v, S) = (CHOOSE g : SumRec(g, v, S))[S]
  BY DEF Total, SumFunctionOnSet, FoldFunctionOnSet, MapThenFoldSet, SumRec, Pick

LEMMA Picked == ASSUME NEW S, S # {} PROVE Pick(S) \in S
  BY DEF Pick

\* If the step is right for every smaller set, it is for S.
LEMMA SumStepFrom ==
    ASSUME NEW v, NEW S, IsFiniteSet(S), \A U \in SUBSET S : U # S => SumStep(v, U)
    PROVE  SumStep(v, S)
<1> DEFINE g == CHOOSE h : SumRec(h, v, S)
<1>1. \E h : SumRec(h, v, S)
  <2> DEFINE h == [s \in SUBSET S |-> IF s # S THEN Total(v, s)
                                     ELSE IF s = {} THEN 0
                                     ELSE v[Pick(s)] + Total(v, s \ {Pick(s)})]
  <2>1. ASSUME NEW s \in SUBSET S
        PROVE  h[s] = IF s = {} THEN 0 ELSE v[Pick(s)] + h[s \ {Pick(s)}]
    <3>1. CASE s = {}
      BY <3>1 DEF SumStep
    <3>2. CASE s # {}
      <4>1. Pick(s) \in s /\ s \ {Pick(s)} # S /\ s \ {Pick(s)} \in SUBSET S
        BY <3>2, Picked
      <4>2. h[s \ {Pick(s)}] = Total(v, s \ {Pick(s)})
        BY <4>1
      <4>3. h[s] = v[Pick(s)] + Total(v, s \ {Pick(s)})
        BY <3>2 DEF SumStep
      <4> QED
        BY <3>2, <4>2, <4>3
    <3> QED
      BY <3>1, <3>2
  <2>2. h = [s \in SUBSET S |-> h[s]]
    OBVIOUS
  <2> HIDE DEF h
  <2>3. SumRec(h, v, S)
    BY <2>1, <2>2 DEF SumRec
  <2> QED
    BY <2>3
<1>2. SumRec(g, v, S)
  BY <1>1
<1>3. Total(v, S) = g[S]
  BY SumChosen
<1> HIDE DEF g
<1>4. \A s \in SUBSET S : g[s] = IF s = {} THEN 0 ELSE v[Pick(s)] + g[s \ {Pick(s)}]
  BY <1>2 DEF SumRec
<1>5. \A U \in SUBSET S : U # S => g[U] = Total(v, U)
  <2> DEFINE Bad == {U \in SUBSET S : U # S /\ g[U] # Total(v, U)}
  <2> SUFFICES ASSUME Bad # {} PROVE FALSE
    OBVIOUS
  <2>1. PICK T \in Bad : \A U \in Bad : U \subseteq T => U = T
    <3>1. Bad \in SUBSET (SUBSET S)
      OBVIOUS
    <3> HIDE DEF Bad
    <3> QED
      BY <3>1, SmallestSubset
  <2>2. T \in SUBSET S /\ T # S /\ g[T] # Total(v, T) /\ SumStep(v, T)
    BY <2>1
  <2>3. T # {}
    BY <2>2, <1>4 DEF SumStep
  <2>4. Pick(T) \in T /\ T \ {Pick(T)} # S /\ T \ {Pick(T)} \in SUBSET S /\ T \ {Pick(T)} # T
    BY <2>2, <2>3, Picked
  <2>5. g[T \ {Pick(T)}] = Total(v, T \ {Pick(T)})
    BY <2>1, <2>4
  <2> QED
    BY <1>4, <2>2, <2>3, <2>5 DEF SumStep
<1>6. CASE S = {}
  BY <1>3, <1>4, <1>6 DEF SumStep
<1>7. CASE S # {}
  <2>1. Pick(S) \in S /\ S \ {Pick(S)} # S /\ S \ {Pick(S)} \in SUBSET S
    BY <1>7, Picked
  <2>2. g[S] = v[Pick(S)] + g[S \ {Pick(S)}]
    BY <1>4, <1>7
  <2> QED
    BY <1>3, <1>5, <1>7, <2>1, <2>2 DEF SumStep
<1> QED
  BY <1>6, <1>7

LEMMA SumSteps == ASSUME NEW v, NEW S, IsFiniteSet(S) PROVE SumStep(v, S)
<1> DEFINE Bad == {U \in SUBSET S : ~SumStep(v, U)}
<1> SUFFICES ASSUME Bad # {} PROVE FALSE
  OBVIOUS
<1>1. PICK T \in Bad : \A U \in Bad : U \subseteq T => U = T
  <2>1. Bad \in SUBSET (SUBSET S)
    OBVIOUS
  <2> HIDE DEF Bad
  <2> QED
    BY <2>1, SmallestSubset
<1>2. IsFiniteSet(T)
  BY <1>1, FS_Subset
<1>3. \A U \in SUBSET T : U # T => SumStep(v, U)
  BY <1>1
<1> QED
  BY <1>1, <1>2, <1>3, SumStepFrom

Counts(v, S) == \A x \in S : v[x] \in Nat

\* The sum of numbers is a number, and any element can be taken out first.
SumFact(v, S) ==
    /\ Total(v, S) \in Nat
    /\ S = {} => Total(v, S) = 0
    /\ \A x \in S : Total(v, S) = v[x] + Total(v, S \ {x})

LEMMA SumOut ==
    ASSUME NEW v, NEW S, IsFiniteSet(S), Counts(v, S)
    PROVE  SumFact(v, S)
<1> DEFINE Bad == {U \in SUBSET S : ~SumFact(v, U)}
<1> SUFFICES ASSUME Bad # {} PROVE FALSE
  OBVIOUS
<1>1. PICK T \in Bad : \A U \in Bad : U \subseteq T => U = T
  <2>1. Bad \in SUBSET (SUBSET S)
    OBVIOUS
  <2> HIDE DEF Bad
  <2> QED
    BY <2>1, SmallestSubset
<1>2. /\ IsFiniteSet(T) /\ T \in SUBSET S /\ ~SumFact(v, T)
      /\ \A U \in SUBSET T : U # T => SumFact(v, U)
  BY <1>1, FS_Subset
<1>3. SumStep(v, T)
  BY <1>2, SumSteps
<1>4. CASE T = {}
  BY <1>2, <1>3, <1>4 DEF SumFact, SumStep
<1>5. CASE T # {}
  <2> DEFINE c == Pick(T)
  <2>1. c \in T /\ Total(v, T) = v[c] + Total(v, T \ {c})
    BY <1>3, <1>5, Picked DEF SumStep
  <2> HIDE DEF c
  <2>2. SumFact(v, T \ {c}) /\ v[c] \in Nat
    BY <1>2, <2>1 DEF Counts
  <2>3. Total(v, T) \in Nat
    BY <2>1, <2>2 DEF SumFact
  <2>4. ASSUME NEW x \in T PROVE Total(v, T) = v[x] + Total(v, T \ {x})
    <3>1. CASE x = c
      BY <3>1, <2>1
    <3>2. CASE x # c
      <4>1. SumFact(v, T \ {x}) /\ SumFact(v, (T \ {c}) \ {x}) /\ v[x] \in Nat
        BY <1>2, <2>1, <2>4, <3>2 DEF Counts
      <4>2. (T \ {c}) \ {x} = (T \ {x}) \ {c}
        OBVIOUS
      <4>3. Total(v, T \ {c}) = v[x] + Total(v, (T \ {c}) \ {x})
        BY <2>2, <2>4, <3>2 DEF SumFact
      <4>4. Total(v, T \ {x}) = v[c] + Total(v, (T \ {c}) \ {x})
        BY <2>1, <4>1, <4>2, <3>2 DEF SumFact
      <4>5. Total(v, (T \ {c}) \ {x}) \in Nat
        BY <4>1 DEF SumFact
      <4> QED
        BY <2>1, <2>2, <4>1, <4>3, <4>4, <4>5
    <3> QED
      BY <3>1, <3>2
  <2> QED
    BY <1>2, <1>5, <2>3, <2>4 DEF SumFact
<1> QED
  BY <1>4, <1>5

LEMMA SumIn ==
    ASSUME NEW v, NEW S, IsFiniteSet(S), NEW x, x \notin S, Counts(v, S), v[x] \in Nat
    PROVE  /\ Total(v, S \cup {x}) = v[x] + Total(v, S)
           /\ Total(v, S) \in Nat /\ Total(v, S \cup {x}) \in Nat
<1>1. IsFiniteSet(S \cup {x}) /\ Counts(v, S \cup {x}) /\ (S \cup {x}) \ {x} = S
  BY FS_AddElement DEF Counts
<1> QED
  BY <1>1, SumOut DEF SumFact

\* spent has been taken of a resource, and what is left to offer asks for no more than
\* the pool as a whole has left.
Funded(v, spent, left, all) == spent + Total(v, left) <= Total(v, all)

LEMMA FundedRoom ==
    ASSUME NEW v, NEW all, NEW left \in SUBSET all, IsFiniteSet(all), Counts(v, all),
           NEW spent \in Int, Funded(v, spent, left, all)
    PROVE  /\ Total(v, all) \in Nat
           /\ \A x \in left : spent + v[x] <= Total(v, all)
<1>1. IsFiniteSet(left) /\ Counts(v, left)
  BY FS_Subset DEF Counts
<1>2. SumFact(v, left) /\ SumFact(v, all)
  BY <1>1, SumOut
<1>3. Total(v, left) \in Nat /\ Total(v, all) \in Nat
  BY <1>2 DEF SumFact
<1>4. ASSUME NEW x \in left PROVE spent + v[x] <= Total(v, all)
  <2>1. IsFiniteSet(left \ {x}) /\ Counts(v, left \ {x}) /\ v[x] \in Nat
    BY <1>1, FS_Subset DEF Counts
  <2>2. Total(v, left \ {x}) \in Nat
    BY <2>1, SumOut DEF SumFact
  <2>3. Total(v, left) = v[x] + Total(v, left \ {x})
    BY <1>2 DEF SumFact
  <2> QED
    BY <1>3, <2>1, <2>2, <2>3 DEF Funded
<1> QED
  BY <1>3, <1>4

\* A transaction leaves the iterator, having taken no more than it asked for.
LEMMA FundedTake ==
    ASSUME NEW v, NEW all, NEW left \in SUBSET all, IsFiniteSet(all), Counts(v, all),
           NEW before \in Int, Funded(v, before, left, all), NEW x \in left,
           NEW after \in Int, after <= before + v[x], NEW rest, rest = left \ {x}
    PROVE  Funded(v, after, rest, all)
<1>1. IsFiniteSet(left) /\ Counts(v, left) /\ IsFiniteSet(rest) /\ Counts(v, rest)
      /\ v[x] \in Nat
  BY FS_Subset DEF Counts
<1>2. Total(v, left) = v[x] + Total(v, rest)
  BY <1>1, SumOut DEF SumFact
<1>3. Total(v, rest) \in Nat /\ Total(v, all) \in Nat
  BY <1>1, SumOut DEF SumFact
<1> QED
  BY <1>1, <1>2, <1>3 DEF Funded

LEMMA FundedArrive ==
    ASSUME NEW v, NEW all, NEW left \in SUBSET all, IsFiniteSet(all), Counts(v, all),
           NEW spent \in Int, Funded(v, spent, left, all), NEW x, x \notin all, v[x] \in Nat
    PROVE  /\ Funded(v, spent, left \cup {x}, all \cup {x})
           /\ Total(v, all) <= Total(v, all \cup {x})
           /\ Total(v, all) \in Nat /\ Total(v, all \cup {x}) \in Nat
<1>1. IsFiniteSet(left) /\ Counts(v, left) /\ x \notin left
  BY FS_Subset DEF Counts
<1>2. /\ Total(v, left \cup {x}) = v[x] + Total(v, left) /\ Total(v, left) \in Nat
      /\ Total(v, all \cup {x}) = v[x] + Total(v, all) /\ Total(v, all) \in Nat
  BY <1>1, SumIn
<1> QED
  BY <1>2 DEF Funded

----------------------------------------------------------------------------
(* The walk                                                                  *)

\* What the block has taken and what is left to offer stay within what the pool asks
\* for, resource by resource and sender by sender.
Budget(b, txs) ==
    /\ b.left \subseteq txs
    /\ Funded(GasLimits, b.cumulative_tx_gas_used, b.left, txs)
    /\ Funded(GasLimits, b.block_regular_gas_used, b.left, txs)
    /\ Funded(GasLimits, b.block_state_gas_used, b.left, txs)
    /\ Funded(BlobCounts, b.block_blob_count, b.left, txs)
    /\ Funded(Lengths, b.block_transactions_rlp_length, b.left, txs)
    /\ \A s \in Senders : Funded(MaxCosts, ParentBalance[s] - b.state.balance[s],
                                 OfSender(s, b.left), OfSender(s, txs))

In(b, t) == \E i \in DOMAIN b.txs : b.txs[i] = t

\* The block's transactions have left the iterator, and they are the ones that raised
\* the nonces.
Slots(b, txs) ==
    /\ \A i \in DOMAIN b.txs : /\ b.txs[i] \in txs /\ b.txs[i] \notin b.left
                               /\ b.txs[i].nonce < b.state.nonce[b.txs[i].sender]
    /\ \A s \in Senders :
           /\ ParentNonce[s] <= b.state.nonce[s]
           /\ \A k \in Nat : ParentNonce[s] <= k /\ k < b.state.nonce[s] =>
                  \E i \in DOMAIN b.txs : b.txs[i].sender = s /\ b.txs[i].nonce = k

SkipsWhenFull(b) == b.skip_blobs => b.block_blob_count = max_blob_count

\* Nothing has been passed over but what the parent had executed.
Complete(b, txs) ==
    /\ b.invalid = {}
    /\ \A t \in txs : t \in b.left \/ In(b, t) \/ t.nonce < ParentNonce[t.sender]

WalkInv ==
    /\ IInv
    /\ IsFiniteSet(pool) /\ Pending(pool)
    /\ Building => Budget(build, pool) /\ Slots(build, pool) /\ SkipsWhenFull(build)
    /\ (Building /\ ~cancel /\ Roomy) => Complete(build, pool)

LEMMA Measures ==
    ASSUME NEW S \in SUBSET Txs
    PROVE  /\ Counts(GasLimits, S) /\ Counts(BlobCounts, S) /\ Counts(Lengths, S)
           /\ Counts(MaxCosts, S)
           /\ \A t \in S : /\ GasLimits[t] = t.gas_limit /\ BlobCounts[t] = t.blobs
                           /\ Lengths[t] = t.len /\ MaxCosts[t] = t.gas_limit * t.max_fee
<1>1. \A t \in S : /\ GasLimits[t] = t.gas_limit /\ BlobCounts[t] = t.blobs
                   /\ Lengths[t] = t.len /\ MaxCosts[t] = t.gas_limit * t.max_fee
  BY DEF GasLimits, BlobCounts, Lengths, MaxCosts
<1>2. \A t \in S : t.gas_limit \in Nat /\ t.blobs \in Nat /\ t.len \in Nat /\ t.max_fee \in Nat
  BY TxFields
<1>3. \A m, n \in Nat : m * n \in Nat
  OBVIOUS
<1> QED
  BY <1>1, <1>2, <1>3 DEF Counts

LEMMA Counters ==
    ASSUME NEW b \in Builds
    PROVE  /\ b.cumulative_tx_gas_used \in Nat /\ b.block_regular_gas_used \in Nat
           /\ b.block_state_gas_used \in Nat /\ b.block_blob_count \in Nat
           /\ b.block_transactions_rlp_length \in Nat
           /\ \A s \in Senders : /\ b.state.balance[s] \in Int /\ b.state.nonce[s] \in Nat
                                 /\ ParentBalance[s] \in Nat /\ ParentNonce[s] \in Nat
                                 /\ ParentBalance[s] - b.state.balance[s] \in Int
<1>1. /\ b.cumulative_tx_gas_used \in Nat /\ b.block_regular_gas_used \in Nat
      /\ b.block_state_gas_used \in Nat /\ b.block_blob_count \in Nat
      /\ b.block_transactions_rlp_length \in Nat /\ b.state \in States
  BY DEF Builds
<1>2. ASSUME NEW s \in Senders
      PROVE  /\ b.state.balance[s] \in Int /\ b.state.nonce[s] \in Nat
             /\ ParentBalance[s] \in Nat /\ ParentNonce[s] \in Nat
  BY <1>1, BuilderAssumption DEF States
<1>3. \A m, n \in Int : m - n \in Int
  OBVIOUS
<1>4. \A n \in Nat : n \in Int
  OBVIOUS
<1> QED
  BY <1>1, <1>2, <1>3, <1>4

LEMMA SenderSubset ==
    ASSUME NEW S, NEW T \in SUBSET S, NEW s, IsFiniteSet(S)
    PROVE  OfSender(s, T) \in SUBSET OfSender(s, S) /\ IsFiniteSet(OfSender(s, S))
  BY FS_Subset DEF OfSender

\* What a transaction costs is at most what its sender was asked to have.
LEMMA CostBound ==
    ASSUME NEW tx \in Txs, tx.max_fee >= BASE_FEE
    PROVE  /\ GasUsed(tx) * (BASE_FEE + Tip(tx)) \in Nat
           /\ GasUsed(tx) * (BASE_FEE + Tip(tx)) <= tx.gas_limit * tx.max_fee
<1>1. ASSUME NEW g \in Nat, NEW l \in Nat, NEW f \in Nat, NEW m \in Nat, g <= l, f <= m
      PROVE  g * f \in Nat /\ g * f <= l * m
  <2>1. g * f <= g * m
    BY <1>1
  <2>2. g * m <= l * m
    BY <1>1
  <2>3. g * f \in Nat /\ g * m \in Nat /\ l * m \in Nat
    OBVIOUS
  <2> QED
    BY <2>1, <2>2, <2>3
<1>2. /\ GasUsed(tx) \in Nat /\ GasUsed(tx) <= tx.gas_limit
      /\ BASE_FEE + Tip(tx) \in Nat /\ BASE_FEE + Tip(tx) <= tx.max_fee
      /\ tx.gas_limit \in Nat /\ tx.max_fee \in Nat
  BY TxFields, Constants DEF GasUsed, Tip
<1> QED
  BY <1>1, <1>2

\* With room for all, whatever is left is let through by the filters and the checks.
LEMMA RoomFits ==
    ASSUME WalkInv, Building, Roomy, NEW tx \in build.left
    PROVE  /\ ~HeldBack(build, tx) /\ Fits(build, tx)
           /\ ExecutionError(tx, build.state) \in {"none", "nonce too low", "nonce too high"}
           /\ tx.nonce <= build.state.nonce[tx.sender] =>
                  ExecutionError(tx, build.state) # "nonce too high"
<1> DEFINE s == tx.sender
<1>1. /\ build \in Builds /\ config \in Configs /\ pool \in SUBSET Txs /\ IsFiniteSet(pool)
      /\ Budget(build, pool) /\ SkipsWhenFull(build)
  BY BuildFacts DEF WalkInv, IInv, TypeOK
<1>2. tx \in pool /\ tx \in Txs
  BY <1>1 DEF Budget
<1>3. s \in Senders /\ tx \in OfSender(s, build.left)
  BY <1>2, TxFields DEF OfSender
<1>4. /\ OfSender(s, build.left) \in SUBSET OfSender(s, pool)
      /\ IsFiniteSet(OfSender(s, pool)) /\ OfSender(s, pool) \in SUBSET Txs
  BY <1>1, SenderSubset DEF Budget, OfSender
<1>5. /\ build.left \in SUBSET pool
      /\ Counts(GasLimits, pool) /\ Counts(BlobCounts, pool) /\ Counts(Lengths, pool)
      /\ GasLimits[tx] = tx.gas_limit /\ BlobCounts[tx] = tx.blobs /\ Lengths[tx] = tx.len
  BY <1>1, <1>2, Measures DEF Budget
<1>6. /\ build.cumulative_tx_gas_used + tx.gas_limit <= Total(GasLimits, pool)
      /\ build.block_regular_gas_used + tx.gas_limit <= Total(GasLimits, pool)
      /\ build.block_state_gas_used + tx.gas_limit <= Total(GasLimits, pool)
      /\ Total(GasLimits, pool) \in Nat
  <2>1. /\ build.cumulative_tx_gas_used \in Int /\ build.block_regular_gas_used \in Int
        /\ build.block_state_gas_used \in Int
    BY <1>1, Counters
  <2>2. /\ Funded(GasLimits, build.cumulative_tx_gas_used, build.left, pool)
        /\ Funded(GasLimits, build.block_regular_gas_used, build.left, pool)
        /\ Funded(GasLimits, build.block_state_gas_used, build.left, pool)
    BY <1>1 DEF Budget
  <2> QED
    BY <1>1, <1>5, <2>1, <2>2, FundedRoom
<1>7. /\ build.block_blob_count + tx.blobs <= Total(BlobCounts, pool)
      /\ Total(BlobCounts, pool) \in Nat
      /\ build.block_transactions_rlp_length + tx.len <= Total(Lengths, pool)
      /\ Total(Lengths, pool) \in Nat
  <2>1. build.block_blob_count \in Int /\ build.block_transactions_rlp_length \in Int
    BY <1>1, Counters
  <2>2. /\ Funded(BlobCounts, build.block_blob_count, build.left, pool)
        /\ Funded(Lengths, build.block_transactions_rlp_length, build.left, pool)
    BY <1>1 DEF Budget
  <2> QED
    BY <1>1, <1>5, <2>1, <2>2, FundedRoom
<1>8. /\ ParentBalance[s] - build.state.balance[s] + MaxCosts[tx]
              <= Total(MaxCosts, OfSender(s, pool))
      /\ Total(MaxCosts, OfSender(s, pool)) \in Nat
  <2>1. Funded(MaxCosts, ParentBalance[s] - build.state.balance[s],
               OfSender(s, build.left), OfSender(s, pool))
    BY <1>1, <1>3 DEF Budget
  <2>2. Counts(MaxCosts, OfSender(s, pool)) /\ ParentBalance[s] - build.state.balance[s] \in Int
    BY <1>1, <1>3, <1>4, Measures, Counters
  <2> QED
    BY <1>3, <1>4, <2>1, <2>2, FundedRoom
<1>9. MaxCosts[tx] = tx.gas_limit * tx.max_fee /\ MaxCosts[tx] \in Nat
  BY <1>2, Measures DEF Counts
<1>10. /\ tx.gas_limit \in Nat /\ tx.blobs \in Nat /\ tx.len \in Nat /\ tx.max_fee \in Nat
       /\ tx.nonce \in Nat
  BY <1>2, TxFields
<1>11. /\ Total(GasLimits, pool) <= GAS_LIMIT
       /\ is_osaka => Total(Lengths, pool) + WITHDRAWALS_LEN + 1024 <= MAX_RLP_BLOCK_SIZE
       /\ Total(BlobCounts, pool) <= max_blob_count
       /\ Total(BlobCounts, pool) <= protocol_max_blob_count
       /\ tx.max_fee >= BASE_FEE /\ tx.gas_limit <= TX_GAS_CAP /\ ~BadSidecar(tx)
       /\ Total(MaxCosts, OfSender(s, pool)) <= ParentBalance[s]
  BY <1>2, <1>3 DEF Roomy, Total
<1>12. ~exceeds_gas_limit(build, tx)
  BY <1>1, <1>6, <1>10, <1>11, Counters, Constants DEF exceeds_gas_limit, SaturatingSub
<1>13. ~Oversized(build, tx)
  BY <1>1, <1>7, <1>10, <1>11, Counters, Constants DEF Oversized
<1>14. ~TooManyBlobs(build, tx)
  BY <1>1, <1>7, <1>10, <1>11, Counters, MaxBlobs DEF TooManyBlobs
<1>15. ~HeldBack(build, tx)
  BY <1>1, <1>7, <1>10, <1>11, Counters, MaxBlobs, Constants
     DEF HeldBack, SkipsWhenFull, IsBlob
<1>16. ~(IsBlob(tx) /\ ~Active("cancun"))
  BY <1>1, <1>7, <1>10, <1>11, Counters DEF IsBlob, protocol_max_blob_count
<1>17. ~(build.state.balance[s] < tx.gas_limit * tx.max_fee)
  <2>1. \A m \in Nat : ParentBalance[s] - build.state.balance[s] + m <= ParentBalance[s]
                       => ~(build.state.balance[s] < m)
    BY <1>1, <1>3, Counters
  <2>2. ParentBalance[s] - build.state.balance[s] + MaxCosts[tx] <= ParentBalance[s]
    <3>1. ParentBalance[s] - build.state.balance[s] \in Int /\ ParentBalance[s] \in Nat
      BY <1>1, <1>3, Counters
    <3> QED
      BY <1>8, <1>9, <1>11, <3>1
  <2> QED
    BY <1>9, <2>1, <2>2
<1>18. ~(is_osaka /\ ~is_amsterdam /\ tx.gas_limit > TX_GAS_CAP) /\ ~(tx.max_fee < BASE_FEE)
  BY <1>10, <1>11, Constants
<1>19. ExecutionError(tx, build.state) =
          IF tx.nonce < build.state.nonce[s] THEN "nonce too low"
          ELSE IF tx.nonce > build.state.nonce[s] THEN "nonce too high" ELSE "none"
  BY <1>16, <1>17, <1>18 DEF ExecutionError
<1>20. build.state.nonce[s] \in Nat
  BY <1>1, <1>3, Counters
<1>21. Fits(build, tx)
  BY <1>11, <1>12, <1>13, <1>14 DEF Fits
<1>22. tx.nonce <= build.state.nonce[s] => ~(tx.nonce > build.state.nonce[s])
  BY <1>10, <1>20
<1> QED
  BY <1>15, <1>19, <1>21, <1>22

\* With room for all, the iterator's next transaction has the next nonce, or one used
\* by the parent.
LEMMA RoomNonce ==
    ASSUME WalkInv, Building, ~cancel, Roomy, NEW tx \in build.left,
           \A t \in build.left : t.sender = tx.sender => tx.nonce <= t.nonce
    PROVE  /\ tx.nonce <= build.state.nonce[tx.sender]
           /\ tx.nonce < build.state.nonce[tx.sender] => tx.nonce < ParentNonce[tx.sender]
<1> DEFINE s == tx.sender
<1>1. /\ build \in Builds /\ pool \in SUBSET Txs /\ Pending(pool)
      /\ Budget(build, pool) /\ Slots(build, pool) /\ Complete(build, pool)
  BY BuildFacts DEF WalkInv, IInv, TypeOK
<1>2. tx \in pool /\ tx \in Txs /\ s \in Senders /\ tx.nonce \in Nat
  BY <1>1, TxFields DEF Budget
<1>3. /\ build.state.nonce[s] \in Nat /\ ParentNonce[s] \in Nat
      /\ ParentNonce[s] <= build.state.nonce[s]
  BY <1>1, <1>2, Counters DEF Slots
<1>4. tx.nonce <= build.state.nonce[s]
  <2> SUFFICES ASSUME tx.nonce > build.state.nonce[s] PROVE FALSE
    BY <1>2, <1>3
  <2>1. PICK t \in pool : t.sender = s /\ t.nonce = tx.nonce - 1
    BY <1>1, <1>2, <1>3 DEF Pending, NoGap
  <2>2. t \notin build.left
    BY <1>2, <2>1
  <2>3. In(build, t)
    BY <1>1, <1>2, <1>3, <2>1, <2>2 DEF Complete
  <2>4. t.nonce < build.state.nonce[s]
    BY <1>1, <2>1, <2>3 DEF Slots, In
  <2> QED
    BY <1>2, <1>3, <2>1, <2>4
<1>5. ASSUME tx.nonce < build.state.nonce[s], ~(tx.nonce < ParentNonce[s]) PROVE FALSE
  <2>1. PICK i \in DOMAIN build.txs : build.txs[i].sender = s /\ build.txs[i].nonce = tx.nonce
    BY <1>1, <1>2, <1>3, <1>5 DEF Slots
  <2>2. build.txs[i] \in pool /\ build.txs[i] \notin build.left
    BY <1>1 DEF Slots
  <2> QED
    BY <1>1, <1>2, <2>1, <2>2 DEF Pending, Rivals
<1> QED
  BY <1>4, <1>5

LEMMA SenderOut ==
    ASSUME NEW S, NEW x, NEW s
    PROVE  /\ OfSender(s, S \ {x}) = OfSender(s, S) \ {x}
           /\ x.sender = s => OfSender(s, S \cup {x}) = OfSender(s, S) \cup {x}
           /\ x.sender # s => OfSender(s, S \cup {x}) = OfSender(s, S) /\ x \notin OfSender(s, S)
  BY DEF OfSender

\* A transaction leaves the iterator having taken no more than it asked for.
LEMMA BudgetTake ==
    ASSUME NEW txs \in SUBSET Txs, IsFiniteSet(txs), NEW b \in Builds, NEW c \in Builds,
           Budget(b, txs), NEW x \in b.left, c.left = b.left \ {x},
           c.cumulative_tx_gas_used <= b.cumulative_tx_gas_used + x.gas_limit,
           c.block_regular_gas_used <= b.block_regular_gas_used + x.gas_limit,
           c.block_state_gas_used <= b.block_state_gas_used + x.gas_limit,
           c.block_blob_count <= b.block_blob_count + x.blobs,
           c.block_transactions_rlp_length <= b.block_transactions_rlp_length + x.len,
           b.state.balance[x.sender] - x.gas_limit * x.max_fee <= c.state.balance[x.sender],
           \A s \in Senders : s # x.sender => c.state.balance[s] = b.state.balance[s]
    PROVE  Budget(c, txs)
<1>1. b.left \in SUBSET txs /\ x \in txs /\ x \in Txs /\ c.left \subseteq txs
  BY DEF Budget
<1>2. /\ Counts(GasLimits, txs) /\ Counts(BlobCounts, txs) /\ Counts(Lengths, txs)
      /\ Counts(MaxCosts, txs)
      /\ GasLimits[x] = x.gas_limit /\ BlobCounts[x] = x.blobs /\ Lengths[x] = x.len
      /\ MaxCosts[x] = x.gas_limit * x.max_fee /\ MaxCosts[x] \in Nat
  BY <1>1, Measures DEF Counts
<1>3. /\ b.cumulative_tx_gas_used \in Int /\ b.block_regular_gas_used \in Int
      /\ b.block_state_gas_used \in Int /\ b.block_blob_count \in Int
      /\ b.block_transactions_rlp_length \in Int
      /\ c.cumulative_tx_gas_used \in Int /\ c.block_regular_gas_used \in Int
      /\ c.block_state_gas_used \in Int /\ c.block_blob_count \in Int
      /\ c.block_transactions_rlp_length \in Int
  BY Counters
<1>4. /\ c.cumulative_tx_gas_used <= b.cumulative_tx_gas_used + GasLimits[x]
      /\ c.block_regular_gas_used <= b.block_regular_gas_used + GasLimits[x]
      /\ c.block_state_gas_used <= b.block_state_gas_used + GasLimits[x]
      /\ c.block_blob_count <= b.block_blob_count + BlobCounts[x]
      /\ c.block_transactions_rlp_length <= b.block_transactions_rlp_length + Lengths[x]
  BY <1>2
<1>5. /\ Funded(GasLimits, c.cumulative_tx_gas_used, c.left, txs)
      /\ Funded(GasLimits, c.block_regular_gas_used, c.left, txs)
      /\ Funded(GasLimits, c.block_state_gas_used, c.left, txs)
  <2>1. /\ Funded(GasLimits, b.cumulative_tx_gas_used, b.left, txs)
        /\ Funded(GasLimits, b.block_regular_gas_used, b.left, txs)
        /\ Funded(GasLimits, b.block_state_gas_used, b.left, txs)
    BY DEF Budget
  <2> QED
    BY <1>1, <1>2, <1>3, <1>4, <2>1, FundedTake
<1>6. Funded(BlobCounts, c.block_blob_count, c.left, txs)
  <2>1. Funded(BlobCounts, b.block_blob_count, b.left, txs)
    BY DEF Budget
  <2> QED
    BY <1>1, <1>2, <1>3, <1>4, <2>1, FundedTake
<1>7. Funded(Lengths, c.block_transactions_rlp_length, c.left, txs)
  <2>1. Funded(Lengths, b.block_transactions_rlp_length, b.left, txs)
    BY DEF Budget
  <2> QED
    BY <1>1, <1>2, <1>3, <1>4, <2>1, FundedTake
<1>8. ASSUME NEW s \in Senders
      PROVE  Funded(MaxCosts, ParentBalance[s] - c.state.balance[s],
                    OfSender(s, c.left), OfSender(s, txs))
  <2> DEFINE before == ParentBalance[s] - b.state.balance[s]
             after == ParentBalance[s] - c.state.balance[s]
             own == OfSender(s, b.left)
             all == OfSender(s, txs)
  <2>1. before \in Int /\ after \in Int /\ Funded(MaxCosts, before, own, all)
    BY Counters DEF Budget
  <2>2. own \in SUBSET all /\ IsFiniteSet(all)
    BY <1>1, SenderSubset
  <2>3. Counts(MaxCosts, all)
    BY <1>2 DEF Counts, OfSender
  <2>4. CASE x.sender = s
    <3>1. x \in own /\ OfSender(s, c.left) = own \ {x}
      BY <2>4, SenderOut DEF OfSender
    <3>2. after <= before + MaxCosts[x]
      <4>1. /\ ParentBalance[s] \in Int /\ b.state.balance[s] \in Int /\ c.state.balance[s] \in Int
        BY Counters
      <4>2. b.state.balance[s] - MaxCosts[x] <= c.state.balance[s]
        BY <1>2, <2>4
      <4> QED
        BY <1>2, <4>1, <4>2
    <3> HIDE DEF before, after, own, all
    <3>3. Funded(MaxCosts, after, OfSender(s, c.left), all)
      BY <1>2, <2>1, <2>2, <2>3, <3>1, <3>2, FundedTake
    <3> QED
      BY <3>3 DEF all, after
  <2>5. CASE x.sender # s
    <3>1. OfSender(s, c.left) = own
      BY <2>5 DEF OfSender
    <3>2. c.state.balance[s] = b.state.balance[s]
      BY <2>5
    <3> QED
      BY <2>1, <3>1, <3>2
  <2> QED
    BY <2>4, <2>5
<1> QED
  BY <1>1, <1>5, <1>6, <1>7, <1>8 DEF Budget

\* A transaction that leaves the iterator without being executed.
LEMMA BudgetSkip ==
    ASSUME NEW txs \in SUBSET Txs, IsFiniteSet(txs), NEW b \in Builds, NEW c \in Builds,
           Budget(b, txs), NEW x \in b.left, c.left = b.left \ {x}, c.state = b.state,
           c.cumulative_tx_gas_used = b.cumulative_tx_gas_used,
           c.block_regular_gas_used = b.block_regular_gas_used,
           c.block_state_gas_used = b.block_state_gas_used,
           c.block_blob_count = b.block_blob_count,
           c.block_transactions_rlp_length = b.block_transactions_rlp_length
    PROVE  Budget(c, txs)
<1>1. x \in Txs
  BY DEF Budget
<1>2. /\ x.gas_limit \in Nat /\ x.blobs \in Nat /\ x.len \in Nat /\ x.max_fee \in Nat
      /\ x.sender \in Senders
  BY <1>1, TxFields
<1>3. /\ c.cumulative_tx_gas_used <= b.cumulative_tx_gas_used + x.gas_limit
      /\ c.block_regular_gas_used <= b.block_regular_gas_used + x.gas_limit
      /\ c.block_state_gas_used <= b.block_state_gas_used + x.gas_limit
      /\ c.block_blob_count <= b.block_blob_count + x.blobs
      /\ c.block_transactions_rlp_length <= b.block_transactions_rlp_length + x.len
  BY <1>2, Counters
<1>4. b.state.balance[x.sender] - x.gas_limit * x.max_fee <= c.state.balance[x.sender]
  <2>1. b.state.balance[x.sender] \in Int
    BY <1>2, Counters
  <2>2. \A m, n \in Nat : m * n \in Nat
    OBVIOUS
  <2>3. \A i \in Int, n \in Nat : i - n <= i
    OBVIOUS
  <2> QED
    BY <1>2, <2>1, <2>2, <2>3
<1> QED
  BY <1>3, <1>4, BudgetTake

\* The call starts with the whole pool and an empty block.
LEMMA WalkStarts ==
    ASSUME NEW txs \in SUBSET Txs, IsFiniteSet(txs), NEW p
    PROVE  LET b == NewBuild(txs, p) IN
           Budget(b, txs) /\ Slots(b, txs) /\ SkipsWhenFull(b) /\ Complete(b, txs)
<1> DEFINE b == NewBuild(txs, p)
<1>1. /\ b.left = txs /\ b.invalid = {} /\ b.skip_blobs = FALSE /\ b.txs = <<>>
      /\ b.state.nonce = ParentNonce /\ b.state.balance = ParentBalance
      /\ b.cumulative_tx_gas_used = 0 /\ b.block_regular_gas_used = 0
      /\ b.block_state_gas_used = 0 /\ b.block_blob_count = 0
      /\ b.block_transactions_rlp_length = 0
  BY DEF NewBuild, ParentState
<1> HIDE DEF b
<1>2. ASSUME NEW v, NEW S, IsFiniteSet(S), Counts(v, S), NEW z, z = 0
      PROVE  Funded(v, z, S, S)
  <2>1. Total(v, S) \in Nat
    BY <1>2, SumOut DEF SumFact
  <2> QED
    BY <1>2, <2>1 DEF Funded
<1>3. /\ Counts(GasLimits, txs) /\ Counts(BlobCounts, txs) /\ Counts(Lengths, txs)
  BY Measures
<1>4. ASSUME NEW s \in Senders
      PROVE  Funded(MaxCosts, ParentBalance[s] - b.state.balance[s],
                    OfSender(s, b.left), OfSender(s, txs))
  <2>1. IsFiniteSet(OfSender(s, txs)) /\ OfSender(s, txs) \in SUBSET Txs
    BY SenderSubset DEF OfSender
  <2>2. ParentBalance[s] - b.state.balance[s] = 0
    BY <1>1, BuilderAssumption
  <2> QED
    BY <1>1, <1>2, <2>1, <2>2, Measures
<1>5. Budget(b, txs)
  BY <1>1, <1>2, <1>3, <1>4 DEF Budget
<1>6. Slots(b, txs)
  <2>1. DOMAIN b.txs = {}
    BY <1>1
  <2> QED
    BY <1>1, <2>1, BuilderAssumption DEF Slots
<1> QED
  BY <1>1, <1>5, <1>6 DEF SkipsWhenFull, Complete, b

\* A transaction joins the pool and the iterator.
LEMMA WalkGrows ==
    ASSUME NEW txs \in SUBSET Txs, IsFiniteSet(txs), NEW b \in Builds, NEW c, NEW x \in Txs,
           x \notin txs, c.left = b.left \cup {x}, c.invalid = b.invalid, c.txs = b.txs,
           c.state = b.state, c.cumulative_tx_gas_used = b.cumulative_tx_gas_used,
           c.block_regular_gas_used = b.block_regular_gas_used,
           c.block_state_gas_used = b.block_state_gas_used,
           c.block_blob_count = b.block_blob_count,
           c.block_transactions_rlp_length = b.block_transactions_rlp_length,
           Budget(b, txs), Slots(b, txs)
    PROVE  /\ Budget(c, txs \cup {x}) /\ Slots(c, txs \cup {x})
           /\ Complete(b, txs) => Complete(c, txs \cup {x})
<1>1. b.left \in SUBSET txs /\ x \notin b.left
  BY DEF Budget
<1>2. /\ Counts(GasLimits, txs) /\ Counts(BlobCounts, txs) /\ Counts(Lengths, txs)
      /\ Counts(MaxCosts, txs)
  BY Measures
<1>3. /\ GasLimits[x] \in Nat /\ BlobCounts[x] \in Nat /\ Lengths[x] \in Nat
      /\ MaxCosts[x] \in Nat
  <2>1. {x} \in SUBSET Txs
    OBVIOUS
  <2> QED
    BY <2>1, Measures DEF Counts
<1>4. /\ b.cumulative_tx_gas_used \in Int /\ b.block_regular_gas_used \in Int
      /\ b.block_state_gas_used \in Int /\ b.block_blob_count \in Int
      /\ b.block_transactions_rlp_length \in Int
  BY Counters
<1>5. /\ Funded(GasLimits, c.cumulative_tx_gas_used, c.left, txs \cup {x})
      /\ Funded(GasLimits, c.block_regular_gas_used, c.left, txs \cup {x})
      /\ Funded(GasLimits, c.block_state_gas_used, c.left, txs \cup {x})
  <2>1. /\ Funded(GasLimits, b.cumulative_tx_gas_used, b.left, txs)
        /\ Funded(GasLimits, b.block_regular_gas_used, b.left, txs)
        /\ Funded(GasLimits, b.block_state_gas_used, b.left, txs)
    BY DEF Budget
  <2> QED
    BY <1>1, <1>2, <1>3, <1>4, <2>1, FundedArrive
<1>6. Funded(BlobCounts, c.block_blob_count, c.left, txs \cup {x})
  <2>1. Funded(BlobCounts, b.block_blob_count, b.left, txs)
    BY DEF Budget
  <2> QED
    BY <1>1, <1>2, <1>3, <1>4, <2>1, FundedArrive
<1>7. Funded(Lengths, c.block_transactions_rlp_length, c.left, txs \cup {x})
  <2>1. Funded(Lengths, b.block_transactions_rlp_length, b.left, txs)
    BY DEF Budget
  <2> QED
    BY <1>1, <1>2, <1>3, <1>4, <2>1, FundedArrive
<1>8. ASSUME NEW s \in Senders
      PROVE  Funded(MaxCosts, ParentBalance[s] - c.state.balance[s],
                    OfSender(s, c.left), OfSender(s, txs \cup {x}))
  <2> DEFINE spent == ParentBalance[s] - b.state.balance[s]
             own == OfSender(s, b.left)
             all == OfSender(s, txs)
  <2>1. spent \in Int /\ Funded(MaxCosts, spent, own, all)
    BY Counters DEF Budget
  <2>2. own \in SUBSET all /\ IsFiniteSet(all)
    BY <1>1, SenderSubset
  <2>3. Counts(MaxCosts, all) /\ x \notin all
    BY <1>2 DEF Counts, OfSender
  <2>4. ParentBalance[s] - c.state.balance[s] = spent
    OBVIOUS
  <2>5. CASE x.sender = s
    <3>1. OfSender(s, c.left) = own \cup {x} /\ OfSender(s, txs \cup {x}) = all \cup {x}
      BY <2>5 DEF OfSender
    <3> HIDE DEF spent, own, all
    <3>2. Funded(MaxCosts, spent, own \cup {x}, all \cup {x})
      BY <1>3, <2>1, <2>2, <2>3, FundedArrive
    <3> QED
      BY <2>4, <3>1, <3>2
  <2>6. CASE x.sender # s
    <3>1. OfSender(s, c.left) = own /\ OfSender(s, txs \cup {x}) = all
      BY <2>6 DEF OfSender
    <3> HIDE DEF spent, own, all
    <3> QED
      BY <2>1, <2>4, <3>1
  <2> QED
    BY <2>5, <2>6
<1>9. Budget(c, txs \cup {x})
  BY <1>1, <1>5, <1>6, <1>7, <1>8 DEF Budget
<1>10. Slots(c, txs \cup {x})
  BY <1>1 DEF Slots
<1>11. Complete(b, txs) => Complete(c, txs \cup {x})
  BY <1>1 DEF Complete, In
<1> QED
  BY <1>9, <1>10, <1>11

\* If there is room after a step, there was room before it: the pool only grows and
\* sidecars only disappear.
LEMMA RoomySame ==
    ASSUME UNCHANGED <<config, pool, blobstore>> PROVE Roomy' => Roomy
  BY DEF Roomy, is_osaka, Active, max_blob_count, protocol_max_blob_count, BadSidecar, IsBlob

LEMMA RoomyDrop ==
    ASSUME IInv, NEW h \in DOMAIN blobstore, DropSidecar(h) PROVE Roomy' => Roomy
<1>1. /\ UNCHANGED <<config, pool>> /\ blobstore' = [blobstore EXCEPT ![h] = None]
      /\ pool \subseteq Txs /\ blobstore \in [BlobTxs -> Sidecars \cup {None}]
  BY DEF DropSidecar, IInv, TypeOK
<1>2. ASSUME NEW t \in pool, ~BadSidecar(t)' PROVE ~BadSidecar(t)
  <2>1. IsBlob(t) => t.hash \in BlobTxs
    BY <1>1 DEF BlobTxs
  <2>2. is_osaka' <=> is_osaka
    BY <1>1 DEF is_osaka, Active
  <2> QED
    BY <1>1, <1>2, <2>1, <2>2, BuilderAssumption DEF BadSidecar, IsBlob
<1> QED
  BY <1>1, <1>2 DEF Roomy, is_osaka, Active, max_blob_count, protocol_max_blob_count

LEMMA RoomyArrive ==
    ASSUME IInv, IsFiniteSet(pool), NEW tx \in Txs, tx \notin pool, pool' = pool \cup {tx},
           UNCHANGED <<config, blobstore>>
    PROVE  Roomy' => Roomy
<1> SUFFICES ASSUME Roomy' PROVE Roomy
  OBVIOUS
<1>1. pool \in SUBSET Txs /\ config \in Configs
  BY DEF IInv, TypeOK
<1>2. ASSUME NEW v, NEW S, IsFiniteSet(S), Counts(v, S), tx \notin S, v[tx] \in Nat,
             NEW room \in Int, Total(v, S \cup {tx}) <= room
      PROVE  Total(v, S) <= room /\ Total(v, S) \in Nat
  BY <1>2, SumIn
<1>3. /\ Counts(GasLimits, pool) /\ Counts(BlobCounts, pool) /\ Counts(Lengths, pool)
      /\ Counts(MaxCosts, pool)
  BY <1>1, Measures
<1>4. /\ GasLimits[tx] \in Nat /\ BlobCounts[tx] \in Nat /\ Lengths[tx] \in Nat
      /\ MaxCosts[tx] \in Nat
  <2>1. {tx} \in SUBSET Txs
    OBVIOUS
  <2> QED
    BY <2>1, Measures DEF Counts
<1>5. /\ Total(GasLimits, pool \cup {tx}) <= GAS_LIMIT
      /\ is_osaka => Total(Lengths, pool \cup {tx}) + WITHDRAWALS_LEN + 1024
                       <= MAX_RLP_BLOCK_SIZE
      /\ Total(BlobCounts, pool \cup {tx}) <= max_blob_count
      /\ Total(BlobCounts, pool \cup {tx}) <= protocol_max_blob_count
      /\ \A t \in pool : t.max_fee >= BASE_FEE /\ t.gas_limit <= TX_GAS_CAP /\ ~BadSidecar(t)
      /\ \A s \in Senders : Total(MaxCosts, OfSender(s, pool \cup {tx})) <= ParentBalance[s]
  BY DEF Roomy, is_osaka, Active, max_blob_count, protocol_max_blob_count, BadSidecar, Total
<1>6. Total(GasLimits, pool) <= GAS_LIMIT
  BY <1>2, <1>3, <1>4, <1>5, Constants
<1>7. /\ Total(BlobCounts, pool) <= max_blob_count
      /\ Total(BlobCounts, pool) <= protocol_max_blob_count
  BY <1>1, <1>2, <1>3, <1>4, <1>5, MaxBlobs
<1>8. is_osaka => Total(Lengths, pool) + WITHDRAWALS_LEN + 1024 <= MAX_RLP_BLOCK_SIZE
  <2>1. /\ Total(Lengths, pool \cup {tx}) = Lengths[tx] + Total(Lengths, pool)
        /\ Total(Lengths, pool) \in Nat
    BY <1>3, <1>4, SumIn
  <2> QED
    BY <1>4, <1>5, <2>1, Constants
<1>9. ASSUME NEW s \in Senders PROVE Total(MaxCosts, OfSender(s, pool)) <= ParentBalance[s]
  <2>1. /\ IsFiniteSet(OfSender(s, pool)) /\ Counts(MaxCosts, OfSender(s, pool))
        /\ tx \notin OfSender(s, pool) /\ ParentBalance[s] \in Int
    <3>1. IsFiniteSet(OfSender(s, pool))
      BY SenderSubset
    <3>2. Counts(MaxCosts, OfSender(s, pool)) /\ tx \notin OfSender(s, pool)
      BY <1>3 DEF OfSender, Counts
    <3>3. ParentBalance[s] \in Int
      BY BuilderAssumption
    <3> QED
      BY <3>1, <3>2, <3>3
  <2>2. \/ OfSender(s, pool \cup {tx}) = OfSender(s, pool) \cup {tx}
        \/ OfSender(s, pool \cup {tx}) = OfSender(s, pool)
    BY DEF OfSender
  <2> QED
    BY <1>2, <1>4, <1>5, <2>1, <2>2
<1> QED
  BY <1>5, <1>6, <1>7, <1>8, <1>9 DEF Roomy, Total

\* A transaction is executed.
LEMMA WalkTakes ==
    ASSUME WalkInv, NEW tx \in Txs, Include(tx)
    PROVE  /\ Budget(build', pool) /\ Slots(build', pool) /\ SkipsWhenFull(build')
           /\ Complete(build, pool) => Complete(build', pool)
<1> DEFINE b == build
           c == build'
           s == tx.sender
           cost == GasUsed(tx) * (BASE_FEE + Tip(tx))
<1>1. /\ Building /\ tx \in b.left /\ ~HeldBack(b, tx) /\ Fits(b, tx)
      /\ ExecutionError(tx, b.state) = "none" /\ c = WithTx(b, tx)
  BY DEF Include, Offered
<1>2. /\ b \in Builds /\ TypeOK /\ Limits(b) /\ pool \in SUBSET Txs /\ IsFiniteSet(pool)
      /\ Budget(b, pool) /\ Slots(b, pool) /\ SkipsWhenFull(b)
  BY <1>1, BuildFacts DEF WalkInv, IInv, TypeOK
<1>3. c \in Builds
  BY <1>1, <1>2, WithTxGood
<1>4. /\ c.left = b.left \ {tx} /\ c.invalid = b.invalid /\ c.txs = Append(b.txs, tx)
      /\ c.state = Executed(tx, b.state)
      /\ c.block_blob_count = b.block_blob_count + tx.blobs
      /\ c.skip_blobs = (b.skip_blobs \/ (IsBlob(tx) /\ c.block_blob_count = max_blob_count))
      /\ c.block_transactions_rlp_length = b.block_transactions_rlp_length + tx.len
      /\ c.cumulative_tx_gas_used = b.cumulative_tx_gas_used + GasUsed(tx)
      /\ c.block_regular_gas_used = b.block_regular_gas_used + tx.regular_gas
      /\ c.block_state_gas_used = b.block_state_gas_used + tx.state_gas
  BY <1>1, <1>2 DEF WithTx, Recorded, Builds
<1>5. /\ c.state.nonce = [b.state.nonce EXCEPT ![s] = @ + 1]
      /\ c.state.balance = [b.state.balance EXCEPT ![s] = @ - cost]
      /\ b.state.nonce \in [Senders -> Nat] /\ b.state.balance \in [Senders -> Int]
      /\ s \in Senders
  <2>1. b.state.nonce \in [Senders -> Nat] /\ b.state.balance \in [Senders -> Int]
    BY <1>2 DEF Builds, States
  <2>2. /\ Executed(tx, b.state).nonce = [b.state.nonce EXCEPT ![s] = @ + 1]
        /\ Executed(tx, b.state).balance = [b.state.balance EXCEPT ![s] = @ - cost]
    BY DEF Executed
  <2> QED
    BY <1>4, <2>1, <2>2, TxFields
<1>6. /\ tx.nonce = b.state.nonce[s] /\ tx.max_fee >= BASE_FEE
  <2>1. tx.nonce \in Nat /\ b.state.nonce[s] \in Nat /\ tx.max_fee \in Nat
    BY <1>5, TxFields
  <2>2. /\ ~(tx.nonce < b.state.nonce[s]) /\ ~(tx.nonce > b.state.nonce[s])
        /\ ~(tx.max_fee < BASE_FEE)
    BY <1>1 DEF ExecutionError
  <2> QED
    BY <2>1, <2>2, Constants
<1> HIDE DEF b, c
<1>7. Budget(c, pool)
  <2>1. /\ tx.gas_limit \in Nat /\ tx.regular_gas \in Nat /\ tx.state_gas \in Nat
        /\ tx.blobs \in Nat /\ tx.len \in Nat /\ tx.regular_gas + tx.state_gas <= tx.gas_limit
    BY TxFields
  <2>2. /\ c.cumulative_tx_gas_used <= b.cumulative_tx_gas_used + tx.gas_limit
        /\ c.block_regular_gas_used <= b.block_regular_gas_used + tx.gas_limit
        /\ c.block_state_gas_used <= b.block_state_gas_used + tx.gas_limit
        /\ c.block_blob_count <= b.block_blob_count + tx.blobs
        /\ c.block_transactions_rlp_length <= b.block_transactions_rlp_length + tx.len
    <3>1. /\ b.cumulative_tx_gas_used \in Nat /\ b.block_regular_gas_used \in Nat
          /\ b.block_state_gas_used \in Nat /\ b.block_blob_count \in Nat
          /\ b.block_transactions_rlp_length \in Nat
      BY <1>2, Counters
    <3>2. GasUsed(tx) \in Nat /\ GasUsed(tx) <= tx.gas_limit
      BY <2>1 DEF GasUsed
    <3>3. tx.regular_gas <= tx.gas_limit /\ tx.state_gas <= tx.gas_limit
      BY <2>1
    <3>4. \A k, m, n \in Nat : m <= n => k + m <= k + n
      OBVIOUS
    <3>5. /\ c.cumulative_tx_gas_used = b.cumulative_tx_gas_used + GasUsed(tx)
          /\ c.block_regular_gas_used = b.block_regular_gas_used + tx.regular_gas
          /\ c.block_state_gas_used = b.block_state_gas_used + tx.state_gas
          /\ c.block_blob_count = b.block_blob_count + tx.blobs
          /\ c.block_transactions_rlp_length = b.block_transactions_rlp_length + tx.len
      BY <1>4
    <3> HIDE DEF cost
    <3>6. /\ c.cumulative_tx_gas_used <= b.cumulative_tx_gas_used + tx.gas_limit
          /\ c.block_regular_gas_used <= b.block_regular_gas_used + tx.gas_limit
          /\ c.block_state_gas_used <= b.block_state_gas_used + tx.gas_limit
      BY <2>1, <3>1, <3>2, <3>3, <3>4, <3>5
    <3>7. \A m, n \in Nat : m + n <= m + n
      OBVIOUS
    <3> QED
      BY <2>1, <3>1, <3>5, <3>6, <3>7
  <2>3. cost \in Nat /\ cost <= tx.gas_limit * tx.max_fee
    BY <1>6, CostBound
  <2>4. b.state.balance[s] - tx.gas_limit * tx.max_fee <= c.state.balance[s]
    <3> DEFINE most == tx.gas_limit * tx.max_fee
    <3>1. most \in Int
      <4>1. tx.gas_limit \in Int /\ tx.max_fee \in Int
        BY TxFields
      <4> QED
        BY <4>1
    <3> HIDE DEF cost, most
    <3>2. b.state.balance[s] - most <= b.state.balance[s] - cost
      BY <1>5, <2>3, <3>1 DEF most
    <3>3. c.state.balance[s] = b.state.balance[s] - cost
      BY <1>5
    <3> QED
      BY <3>2, <3>3 DEF most
  <2>5. \A z \in Senders : z # tx.sender => c.state.balance[z] = b.state.balance[z]
    BY <1>5
  <2> QED
    BY <1>1, <1>2, <1>3, <1>4, <2>2, <2>4, <2>5, BudgetTake
<1>8. LET n == Len(b.txs) IN
      /\ n \in Nat /\ DOMAIN b.txs = 1 .. n /\ DOMAIN c.txs = 1 .. n + 1
      /\ c.txs[n + 1] = tx /\ \A i \in 1 .. n : c.txs[i] = b.txs[i]
  BY <1>2, <1>4 DEF Builds
<1>9. Slots(c, pool)
  <2> DEFINE n == Len(b.txs)
  <2>1. ASSUME NEW i \in DOMAIN c.txs
        PROVE  /\ c.txs[i] \in pool /\ c.txs[i] \notin c.left
               /\ c.txs[i].nonce < c.state.nonce[c.txs[i].sender]
    <3>1. CASE i = n + 1
      BY <1>1, <1>2, <1>4, <1>5, <1>6, <1>8, <3>1 DEF Budget
    <3>2. CASE i \in 1 .. n
      <4>1. /\ c.txs[i] \in pool /\ c.txs[i] \notin b.left
            /\ c.txs[i].nonce < b.state.nonce[c.txs[i].sender]
        BY <1>2, <1>8, <3>2 DEF Slots
      <4>2. c.txs[i].sender \in Senders /\ c.txs[i].nonce \in Nat
        BY <1>2, <4>1, TxFields
      <4>3. \A z \in Senders : /\ b.state.nonce[z] \in Nat /\ c.state.nonce[z] \in Nat
                               /\ b.state.nonce[z] <= c.state.nonce[z]
        BY <1>5
      <4>4. c.txs[i].nonce < c.state.nonce[c.txs[i].sender]
        BY <4>1, <4>2, <4>3
      <4> QED
        BY <1>4, <4>1, <4>4
    <3> QED
      BY <1>8, <3>1, <3>2
  <2>2. ASSUME NEW z \in Senders
        PROVE  /\ ParentNonce[z] <= c.state.nonce[z]
               /\ \A k \in Nat : ParentNonce[z] <= k /\ k < c.state.nonce[z] =>
                      \E i \in DOMAIN c.txs : c.txs[i].sender = z /\ c.txs[i].nonce = k
    <3>1. /\ ParentNonce[z] \in Nat /\ b.state.nonce[z] \in Nat
          /\ ParentNonce[z] <= b.state.nonce[z]
          /\ c.state.nonce[z] = IF z = s THEN b.state.nonce[z] + 1 ELSE b.state.nonce[z]
      BY <1>2, <1>5, Counters DEF Slots
    <3>2. ASSUME NEW k \in Nat, ParentNonce[z] <= k, k < c.state.nonce[z]
          PROVE  \E i \in DOMAIN c.txs : c.txs[i].sender = z /\ c.txs[i].nonce = k
      <4>1. CASE k < b.state.nonce[z]
        <5>1. PICK i \in DOMAIN b.txs : b.txs[i].sender = z /\ b.txs[i].nonce = k
          BY <1>2, <3>2, <4>1 DEF Slots
        <5> QED
          BY <1>8, <5>1
      <4>2. CASE ~(k < b.state.nonce[z])
        <5>1. z = s /\ k = b.state.nonce[z]
          BY <3>1, <3>2, <4>2
        <5> QED
          BY <1>6, <1>8, <5>1
      <4> QED
        BY <4>1, <4>2
    <3> QED
      BY <3>1, <3>2
  <2> QED
    BY <2>1, <2>2 DEF Slots
<1>10. SkipsWhenFull(c)
  <2>1. CASE b.skip_blobs
    <3>1. ~IsBlob(tx) /\ tx.blobs \in Nat
      BY <1>1, <2>1, TxFields DEF HeldBack
    <3>2. tx.blobs = 0
      BY <3>1 DEF IsBlob
    <3> QED
      BY <1>2, <1>4, <2>1, <3>2, Counters DEF SkipsWhenFull
  <2>2. CASE ~b.skip_blobs
    BY <1>4, <2>2 DEF SkipsWhenFull
  <2> QED
    BY <2>1, <2>2
<1>11. Complete(b, pool) => Complete(c, pool)
  <2>1. \A t : In(b, t) \/ t = tx => In(c, t)
    BY <1>8 DEF In
  <2> QED
    BY <1>4, <2>1 DEF Complete
<1> QED
  BY <1>7, <1>9, <1>10, <1>11 DEF b, c

\* A transaction is passed over.
LEMMA WalkSkips ==
    ASSUME WalkInv, NEW tx \in Txs, SkipWithDescendants(tx) \/ SkipStale(tx)
    PROVE  /\ Budget(build', pool) /\ Slots(build', pool) /\ SkipsWhenFull(build')
           /\ (~cancel /\ Roomy) => Complete(build', pool)
<1> DEFINE b == build
           c == build'
<1>1. /\ Building /\ tx \in b.left
      /\ \A t \in b.left : t.sender = tx.sender => tx.nonce <= t.nonce
      /\ c = mark_invalid(b, tx) \/ c = [b EXCEPT !.left = @ \ {tx}]
  BY DEF SkipWithDescendants, SkipStale, Offered
<1>2. /\ b \in Builds /\ Limits(b) /\ pool \in SUBSET Txs /\ IsFiniteSet(pool)
      /\ Budget(b, pool) /\ Slots(b, pool) /\ SkipsWhenFull(b)
  BY <1>1, BuildFacts DEF WalkInv, IInv, TypeOK
<1>3. /\ c \in Builds /\ c.left = b.left \ {tx} /\ c.txs = b.txs /\ c.state = b.state
      /\ c.skip_blobs = b.skip_blobs
      /\ c.cumulative_tx_gas_used = b.cumulative_tx_gas_used
      /\ c.block_regular_gas_used = b.block_regular_gas_used
      /\ c.block_state_gas_used = b.block_state_gas_used
      /\ c.block_blob_count = b.block_blob_count
      /\ c.block_transactions_rlp_length = b.block_transactions_rlp_length
  <2>1. c \in Builds
    <3>1. b.left \ {tx} \in SUBSET Txs /\ b.invalid \cup {tx.sender} \in SUBSET Senders
      BY <1>2, TxFields DEF Builds
    <3> HIDE DEF b, c
    <3>2. /\ [b EXCEPT !.left = b.left \ {tx}] \in Builds
          /\ [b EXCEPT !.left = b.left \ {tx}, !.invalid = b.invalid \cup {tx.sender}] \in Builds
      BY <1>2, <3>1, SameLimits
    <3>3. CASE c = mark_invalid(b, tx)
      BY <3>2, <3>3 DEF mark_invalid
    <3>4. CASE c = [b EXCEPT !.left = @ \ {tx}]
      BY <3>2, <3>4
    <3> QED
      BY <1>1, <3>3, <3>4
  <2>2. CASE c = mark_invalid(b, tx)
    BY <1>2, <2>1, <2>2 DEF mark_invalid, Builds
  <2>3. CASE c = [b EXCEPT !.left = @ \ {tx}]
    BY <1>2, <2>1, <2>3 DEF Builds
  <2> QED
    BY <1>1, <2>2, <2>3
<1>4. ASSUME ~cancel, Roomy PROVE Complete(c, pool)
  <2>1. Complete(b, pool)
    BY <1>1, <1>4 DEF WalkInv
  <2>2. /\ tx.nonce <= b.state.nonce[tx.sender]
        /\ tx.nonce < b.state.nonce[tx.sender] => tx.nonce < ParentNonce[tx.sender]
    BY <1>1, <1>4, RoomNonce
  <2>3. Fits(b, tx) /\ ExecutionError(tx, b.state) \in {"none", "nonce too low"}
    BY <1>1, <1>4, <2>2, RoomFits
  <2>4. ~Unfit(b, tx)
    BY <2>3 DEF Unfit, Fits
  <2>5. c = [b EXCEPT !.left = @ \ {tx}] /\ ExecutionError(tx, b.state) = "nonce too low"
    BY <2>4 DEF SkipWithDescendants, SkipStale
  <2>6. tx.nonce < b.state.nonce[tx.sender]
    BY <2>5 DEF ExecutionError
  <2>7. c.invalid = b.invalid
    BY <1>2, <2>5 DEF Builds
  <2> HIDE DEF b, c
  <2> QED
    BY <1>3, <2>1, <2>2, <2>6, <2>7 DEF Complete, In
<1> HIDE DEF b, c
<1>5. Budget(c, pool)
  BY <1>1, <1>2, <1>3, BudgetSkip
<1>6. Slots(c, pool) /\ SkipsWhenFull(c)
  BY <1>2, <1>3 DEF Slots, SkipsWhenFull
<1> QED
  BY <1>4, <1>5, <1>6 DEF b, c

\* What a step has to keep.
LEMMA WalkFrom ==
    ASSUME IInv', UNCHANGED config, IsFiniteSet(pool'), Pending(pool'),
           build' # None =>
               Budget(build', pool') /\ Slots(build', pool') /\ SkipsWhenFull(build'),
           (build' # None /\ ~cancel' /\ Roomy') => Complete(build', pool')
    PROVE  WalkInv'
<1>1. max_blob_count' = max_blob_count
  BY DEF max_blob_count, protocol_max_blob_count, Active
<1>2. SkipsWhenFull(build') => SkipsWhenFull(build)'
  BY <1>1 DEF SkipsWhenFull
<1> QED
  BY <1>2 DEF WalkInv, Building

LEMMA WalkKept == WalkInv /\ [Next]_vars => WalkInv'
<1> SUFFICES ASSUME WalkInv, [Next]_vars PROVE WalkInv'
  OBVIOUS
<1>1. IInv /\ IInv' /\ IsFiniteSet(pool) /\ Pending(pool) /\ pool \in SUBSET Txs
  BY NextKeeps DEF WalkInv, IInv, TypeOK
<1>2. ASSUME NEW tx \in Txs, SkipWithDescendants(tx) \/ SkipStale(tx) PROVE WalkInv'
  <2>1. UNCHANGED <<config, pool, blobstore, cancel>>
    BY <1>2 DEF SkipWithDescendants, SkipStale
  <2> QED
    BY <1>1, <1>2, <2>1, WalkSkips, RoomySame, WalkFrom
<1>3. ASSUME NEW tx \in Txs, Include(tx) PROVE WalkInv'
  <2>1. UNCHANGED <<config, pool, blobstore, cancel>> /\ Building
    BY <1>3 DEF Include
  <2>2. (~cancel' /\ Roomy') => Complete(build, pool)
    BY <2>1, RoomySame DEF WalkInv
  <2> QED
    BY <1>1, <1>3, <2>1, <2>2, WalkTakes, WalkFrom
<1>4. CASE (\E tx \in Txs : NoticeCancel(tx)) \/ Abort \/ Finish \/ Fail
  <2>1. UNCHANGED <<config, pool>> /\ build' = None
    BY <1>4 DEF NoticeCancel, Abort, Finish, Fail
  <2> QED
    BY <1>1, <2>1, WalkFrom
<1>5. CASE try_build \/ GetPayloadAnew
  <2>1. UNCHANGED <<config, pool>> /\ build' = NewBuild(pool, best)
    BY <1>5 DEF try_build, GetPayloadAnew
  <2> QED
    BY <1>1, <2>1, WalkStarts, WalkFrom
<1>6. CASE GetPayload \/ AnswerEmpty \/ Expire \/ UNCHANGED vars
  <2>1. UNCHANGED <<config, pool, blobstore, build>> /\ (~cancel' => ~cancel)
    BY <1>6 DEF GetPayload, AnswerEmpty, Expire, vars
  <2> QED
    BY <1>1, <2>1, RoomySame, WalkFrom DEF WalkInv, Building
<1>7. ASSUME NEW tx \in Txs, Arrive(tx) PROVE WalkInv'
  <2>1. /\ UNCHANGED <<config, blobstore, cancel>> /\ pool' = pool \cup {tx}
        /\ NoGap(tx, pool) /\ \A t \in pool : ~Rivals(t, tx)
        /\ build' = IF Building THEN [build EXCEPT !.left = @ \cup {tx}] ELSE build
    BY <1>7 DEF Arrive
  <2>2. tx \notin pool
    BY <2>1 DEF Rivals
  <2>3. IsFiniteSet(pool')
    BY <1>1, <2>1, FS_AddElement
  <2>4. Pending(pool')
    BY <1>1, <2>1 DEF Pending, NoGap, Rivals
  <2>5. CASE ~Building
    BY <1>1, <2>1, <2>3, <2>4, <2>5, WalkFrom DEF Building
  <2>6. CASE Building
    <3>1. /\ build \in Builds /\ Budget(build, pool) /\ Slots(build, pool)
          /\ SkipsWhenFull(build)
      BY <2>6, BuildFacts DEF WalkInv
    <3>2. /\ build'.left = build.left \cup {tx} /\ build'.invalid = build.invalid
          /\ build'.txs = build.txs /\ build'.state = build.state
          /\ build'.skip_blobs = build.skip_blobs
          /\ build'.cumulative_tx_gas_used = build.cumulative_tx_gas_used
          /\ build'.block_regular_gas_used = build.block_regular_gas_used
          /\ build'.block_state_gas_used = build.block_state_gas_used
          /\ build'.block_blob_count = build.block_blob_count
          /\ build'.block_transactions_rlp_length = build.block_transactions_rlp_length
      BY <2>1, <2>6, <3>1 DEF Builds
    <3>3. /\ Budget(build', pool') /\ Slots(build', pool')
          /\ Complete(build, pool) => Complete(build', pool')
      BY <1>1, <2>1, <2>2, <3>1, <3>2, WalkGrows
    <3>4. SkipsWhenFull(build')
      BY <3>1, <3>2 DEF SkipsWhenFull
    <3>5. (~cancel' /\ Roomy') => Complete(build, pool)
      BY <1>1, <2>1, <2>2, <2>6, RoomyArrive DEF WalkInv
    <3> QED
      BY <1>1, <2>1, <2>3, <2>4, <3>3, <3>4, <3>5, WalkFrom
  <2> QED
    BY <2>5, <2>6
<1>8. ASSUME NEW h \in DOMAIN blobstore, DropSidecar(h) PROVE WalkInv'
  <2>1. UNCHANGED <<config, pool, build, cancel>> /\ (Roomy' => Roomy)
    BY <1>1, <1>8, RoomyDrop DEF DropSidecar
  <2> QED
    BY <1>1, <2>1, WalkFrom DEF WalkInv, Building
<1> QED
  BY <1>2, <1>3, <1>4, <1>5, <1>6, <1>7, <1>8 DEF Next, Loop

LEMMA WalkInvariance == Spec => []WalkInv
<1>1. Init => WalkInv
  <2> SUFFICES ASSUME Init PROVE WalkInv
    OBVIOUS
  <2>1. IInv
    BY InitIInv
  <2>2. build = None /\ IsFiniteSet(pool) /\ Pending(pool)
    BY PoolAssumption DEF Init
  <2> QED
    BY <2>1, <2>2 DEF WalkInv, Building
<1> QED
  BY <1>1, WalkKept, PTL DEF Spec

\* A set of transactions has one of the lowest nonce.
LEMMA LowestNonce ==
    ASSUME NEW S \in SUBSET Txs, S # {}
    PROVE  \E t \in S : \A u \in S : t.nonce <= u.nonce
<1> DEFINE nonces == {t.nonce : t \in S}
<1>1. nonces \in SUBSET Nat /\ nonces # {}
  BY TxFields
<1> HIDE DEF nonces
<1>2. PICK n \in nonces : \A m \in nonces : ~(<<m, n>> \in OpToRel(<, Nat))
  BY <1>1, NatLessThanWellFounded, WFMin
<1>3. ASSUME NEW m \in nonces PROVE n <= m
  <2>1. m \in Nat /\ n \in Nat
    BY <1>1
  <2>2. m < n => <<m, n>> \in OpToRel(<, Nat)
    BY <2>1 DEF OpToRel
  <2>3. ~(m < n)
    BY <1>2, <2>2
  <2> QED
    BY <2>1, <2>3
<1> QED
  BY <1>3 DEF nonces

\* With room for the whole pool a finished walk has executed all of it that the parent
\* had not, in whatever order senders were offered and whatever arrived meanwhile.
THEOREM WalkIsComplete == Spec => []NothingLeftOut
<1>1. WalkInv => NothingLeftOut
  <2> SUFFICES ASSUME WalkInv, Exhausted, ~cancel, Roomy,
                      NEW t \in pool, t.nonce >= ParentNonce[t.sender]
               PROVE  In(build, t)
    BY DEF NothingLeftOut, In
  <2>1. /\ Building /\ Offered(build) = {} /\ build \in Builds /\ pool \in SUBSET Txs
        /\ Complete(build, pool)
    BY BuildFacts DEF Exhausted, WalkInv, IInv, TypeOK
  <2>2. build.left = {}
    <3> SUFFICES ASSUME NEW u \in build.left PROVE FALSE
      OBVIOUS
    <3> DEFINE own == {w \in build.left : w.sender = u.sender}
    <3>1. own \in SUBSET Txs /\ own # {}
      BY <2>1 DEF Builds
    <3> HIDE DEF own
    <3>2. PICK w \in own : \A x \in own : w.nonce <= x.nonce
      BY <3>1, LowestNonce
    <3>3. w \in build.left /\ \A x \in build.left : x.sender = w.sender => w.nonce <= x.nonce
      BY <3>2 DEF own
    <3>4. ~HeldBack(build, w)
      BY <2>1, <3>3, RoomFits
    <3> QED
      BY <2>1, <3>3, <3>4 DEF Offered, Complete
  <2>3. ~(t.nonce < ParentNonce[t.sender])
    <3>1. t.nonce \in Nat /\ ParentNonce[t.sender] \in Nat
      BY <2>1, TxFields, BuilderAssumption
    <3> QED
      BY <3>1
  <2> QED
    BY <2>1, <2>2, <2>3 DEF Complete
<1> QED
  BY <1>1, WalkInvariance, PTL
============================================================================
