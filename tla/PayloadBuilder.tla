--------------------------- MODULE PayloadBuilder ---------------------------
(***************************************************************************)
(* src/payload: one payload job.  While it lives, the job calls try_build  *)
(* again and again, each call walking the pool's best transactions and     *)
(* keeping the block only if its fees beat the best one so far; the        *)
(* consensus client (or the local miner) asks for the result once.  The    *)
(* pool receives transactions and drops blob sidecars meanwhile, and the   *)
(* job may be cancelled at any moment.                                     *)
(*                                                                         *)
(* The job, the pool with its iterator, the blob store and the EVM are     *)
(* upstream code, modelled from how src/payload uses them.  A pool         *)
(* transaction is a record of what the builder reads:                      *)
(*   [hash, sender, nonce, gas_limit, regular_gas, state_gas, max_fee,     *)
(*    priority, blobs, len]                                                *)
(* where blobs is 0 unless it is a blob transaction, and len the length of *)
(* its network encoding.  It carries no value.                             *)
(***************************************************************************)
EXTENDS Integers, Sequences, FiniteSets, Functions

CONSTANTS
    Txs,                \* the transactions the pool may hold
    InitialPools,       \* what it may hold when the job starts
    Senders,
    ParentNonce,        \* [Senders -> Nat]: state at the parent block
    ParentBalance,      \* [Senders -> Nat]
    GAS_LIMIT,          \* gas limit of the block
    TX_GAS_CAP,         \* the per-transaction cap from Osaka on
    BASE_FEE,
    BLOB_PARAMS,        \* protocol maximum of blobs per block, from Cancun on
    MAX_RLP_BLOCK_SIZE,
    WITHDRAWALS_LEN,    \* length of the encoded withdrawals
    BLOCK_OVERHEAD,     \* length of everything else in a block but its transactions
    Configs,            \* [fork, max_blobs_per_block, await_payload_on_missing,
                        \*  skip_state_root]
    Sidecars,           \* sidecar variants the blob store may hold
    None,
    MaxBuilds           \* bound: calls of try_build

Ok(v) == [ok |-> TRUE, val |-> v]
Err(e) == [ok |-> FALSE, err |-> e]

Forks == <<"shanghai", "cancun", "prague", "osaka", "amsterdam">>
ForkIndex(f) == CHOOSE i \in DOMAIN Forks : Forks[i] = f

ASSUME BuilderAssumption ==
    /\ {GAS_LIMIT, TX_GAS_CAP, BASE_FEE, MAX_RLP_BLOCK_SIZE, WITHDRAWALS_LEN,
        MaxBuilds} \subseteq Nat
    /\ BLOB_PARAMS \in Nat \ {0}
    /\ ParentNonce \in [Senders -> Nat] /\ ParentBalance \in [Senders -> Nat]
    /\ Sidecars \subseteq {"eip4844", "eip7594"}
    /\ Configs \subseteq [fork : {Forks[i] : i \in DOMAIN Forks},
                          max_blobs_per_block : Nat \cup {None},
                          await_payload_on_missing : BOOLEAN, skip_state_root : BOOLEAN]
    /\ InitialPools \subseteq SUBSET Txs
    /\ None \notin Nat /\ None \notin {"eip4844", "eip7594"}

\* Gas used is at most the gas limit, its regular part at most the cap as well.
ASSUME TxAssumption ==
    \A tx \in Txs :
        /\ tx.sender \in Senders
        /\ {tx.nonce, tx.gas_limit, tx.regular_gas, tx.state_gas, tx.max_fee, tx.priority,
            tx.blobs, tx.len} \subseteq Nat
        /\ tx.regular_gas + tx.state_gas <= tx.gas_limit
        /\ tx.regular_gas <= TX_GAS_CAP

\* The 1024 bytes the builder sets aside cover the header and the list headers, and an
\* empty block is within the limit.
ASSUME OverheadAssumption ==
    /\ BLOCK_OVERHEAD \in 0 .. 1024
    /\ WITHDRAWALS_LEN + 1024 <= MAX_RLP_BLOCK_SIZE

\* What the pool promises of its pending transactions: none above a gap in the nonces of
\* its sender, and no two of the same nonce.
NoGap(tx, txs) ==
    \/ tx.nonce <= ParentNonce[tx.sender]
    \/ \E t \in txs : t.sender = tx.sender /\ t.nonce = tx.nonce - 1
Rivals(t, u) == t.sender = u.sender /\ t.nonce = u.nonce
Pending(txs) == /\ \A t \in txs : NoGap(t, txs)
                /\ \A t, u \in txs : Rivals(t, u) => t = u

ASSUME PoolAssumption == \A txs \in InitialPools : IsFiniteSet(txs) /\ Pending(txs)

\* The values the builder handles.
States == [nonce : [Senders -> Nat], balance : [Senders -> Int], beneficiary : Nat]
SidecarLists == [kind : Sidecars \cup {None}, hashes : Seq({tx.hash : tx \in Txs})]
SealedBlocks == [txs : Seq(Txs), gas_used : Nat, blob_count : Nat, rlp_length : Nat,
                 state_root : States]
Payloads == [block : SealedBlocks, fees : Nat, sidecars : SidecarLists, requests : BOOLEAN,
             block_access_list : BOOLEAN]
Builds == [left : SUBSET Txs, invalid : SUBSET Senders, skip_blobs : BOOLEAN,
           best_payload : Payloads \cup {None}, txs : Seq(Txs), state : States,
           cumulative_tx_gas_used : Nat, block_regular_gas_used : Nat,
           block_state_gas_used : Nat, block_blob_count : Nat,
           block_transactions_rlp_length : Nat, total_fees : Nat,
           blob_sidecars : SidecarLists]

ASSUME NoneAssumption == None \notin Payloads \cup Builds

VARIABLES
    config,     \* payload attributes and builder configuration of this job
    pool,       \* pending transactions
    blobstore,  \* sidecar variant kept for each blob transaction, or None
    cancel,     \* the job was dropped, or its answer taken
    build,      \* the call of default_ethereum_payload under way, or None
    builds,     \* calls so far
    best,       \* best payload so far, or None
    getting,    \* a getPayload request waits
    answer      \* what it was given: a Result, or None

vars == <<config, pool, blobstore, cancel, build, builds, best, getting, answer>>

Active(fork) == ForkIndex(config.fork) >= ForkIndex(fork)
is_osaka == Active("osaka")
is_amsterdam == Active("amsterdam")
IsBlob(tx) == tx.blobs > 0
BlobTxs == {tx.hash : tx \in {t \in Txs : IsBlob(t)}}
Building == build # None
Waiting == getting /\ answer = None

protocol_max_blob_count == IF Active("cancun") THEN BLOB_PARAMS ELSE 0

\* Mutant: the operator's limit replaces the protocol's.
max_blob_count_Operator ==
    IF config.max_blobs_per_block = None THEN protocol_max_blob_count
    ELSE config.max_blobs_per_block

max_blob_count ==
    LET limit == config.max_blobs_per_block
        least == IF limit < protocol_max_blob_count THEN limit ELSE protocol_max_blob_count
    IN  IF limit = None THEN protocol_max_blob_count
        ELSE IF least > 1 THEN least ELSE 1

----------------------------------------------------------------------------
(* The EVM (external)                                                        *)

GasUsed(tx) == tx.regular_gas + tx.state_gas
Tip(tx) == IF tx.priority <= tx.max_fee - BASE_FEE THEN tx.priority ELSE tx.max_fee - BASE_FEE

ParentState == [nonce |-> ParentNonce, balance |-> ParentBalance, beneficiary |-> 0]

\* Why the transaction cannot be executed on state, or "none".
ExecutionError(tx, state) ==
    IF IsBlob(tx) /\ ~Active("cancun") THEN "type not supported"
    ELSE IF is_osaka /\ ~is_amsterdam /\ tx.gas_limit > TX_GAS_CAP THEN "gas limit above cap"
    ELSE IF tx.max_fee < BASE_FEE THEN "fee cap below base fee"
    ELSE IF tx.nonce < state.nonce[tx.sender] THEN "nonce too low"
    ELSE IF tx.nonce > state.nonce[tx.sender] THEN "nonce too high"
    ELSE IF state.balance[tx.sender] < tx.gas_limit * tx.max_fee THEN "insufficient funds"
    ELSE "none"

Executed(tx, state) ==
    [nonce |-> [state.nonce EXCEPT ![tx.sender] = @ + 1],
     balance |-> [state.balance EXCEPT ![tx.sender] = @ - GasUsed(tx) * (BASE_FEE + Tip(tx))],
     beneficiary |-> state.beneficiary + GasUsed(tx) * Tip(tx)]

----------------------------------------------------------------------------
(* The pool's iterator (external).  Of each sender it offers the lowest      *)
(* nonce it has left; a sender marked invalid is not offered any more, nor   *)
(* is what follows a transaction that the fee or blob filter holds back.     *)
(* The priority among senders is left open.                                  *)

HeldBack(b, tx) == tx.max_fee < BASE_FEE \/ (b.skip_blobs /\ IsBlob(tx))

Offered(b) == {tx \in b.left : /\ tx.sender \notin b.invalid
                               /\ ~HeldBack(b, tx)
                               /\ \A t \in b.left : t.sender = tx.sender => tx.nonce <= t.nonce}

\* BlobSidecars::push_sidecar_variant: the first variant pushed decides the kind, and a
\* sidecar of the other kind is dropped.
EmptySidecars == [kind |-> None, hashes |-> <<>>]
push_sidecar_variant(sidecars, hash, kind) ==
    IF sidecars.kind = None THEN [kind |-> kind, hashes |-> <<hash>>]
    ELSE IF sidecars.kind = kind THEN [sidecars EXCEPT !.hashes = Append(@, hash)]
    ELSE sidecars

----------------------------------------------------------------------------
(* default_ethereum_payload                                                  *)

\* The local variables at the head of the loop; seed is the iterator's contents and
\* best_payload what the caller had when it called.
NewBuild(seed, best_payload) ==
    [left |-> seed, invalid |-> {}, skip_blobs |-> FALSE, best_payload |-> best_payload,
     txs |-> <<>>, state |-> ParentState, cumulative_tx_gas_used |-> 0,
     block_regular_gas_used |-> 0, block_state_gas_used |-> 0, block_blob_count |-> 0,
     block_transactions_rlp_length |-> 0, total_fees |-> 0, blob_sidecars |-> EmptySidecars]

SaturatingSub(a, b) == IF a > b THEN a - b ELSE 0

exceeds_gas_limit(b, tx) ==
    IF is_amsterdam
    THEN \/ (IF tx.gas_limit < TX_GAS_CAP THEN tx.gas_limit ELSE TX_GAS_CAP)
              > SaturatingSub(GAS_LIMIT, b.block_regular_gas_used)
         \/ tx.gas_limit > SaturatingSub(GAS_LIMIT, b.block_state_gas_used)
    ELSE tx.gas_limit > SaturatingSub(GAS_LIMIT, b.cumulative_tx_gas_used)

Oversized(b, tx) ==
    /\ is_osaka
    /\ b.block_transactions_rlp_length + tx.len + WITHDRAWALS_LEN + 1024 > MAX_RLP_BLOCK_SIZE

\* Mutant: the limit itself counts as exceeded.
TooManyBlobs_AtLimit(b, tx) == IsBlob(tx) /\ b.block_blob_count + tx.blobs >= max_blob_count

TooManyBlobs(b, tx) == IsBlob(tx) /\ b.block_blob_count + tx.blobs > max_blob_count

\* Mutant: the variant of the sidecar is not looked at.
BadSidecar_AnyVariant(tx) == IsBlob(tx) /\ blobstore[tx.hash] = None

\* The sidecar is read from the blob store now, not when the transaction was offered.
BadSidecar(tx) ==
    IsBlob(tx) /\ blobstore[tx.hash] # (IF is_osaka THEN "eip7594" ELSE "eip4844")

\* One turn of the loop with tx, by its outcome.  Cancellation is looked at only by
\* a transaction that fits the gas left.
Unfit(b, tx) ==
    \/ exceeds_gas_limit(b, tx)
    \/ /\ ~cancel
       /\ \/ Oversized(b, tx) \/ TooManyBlobs(b, tx) \/ BadSidecar(tx)
          \/ ExecutionError(tx, b.state) \notin {"none", "nonce too low"}

Fits(b, tx) == ~exceeds_gas_limit(b, tx) /\ ~Oversized(b, tx) /\ ~TooManyBlobs(b, tx)
               /\ ~BadSidecar(tx)

\* Mutant: the transaction is marked, not its sender.
mark_invalid_Tx(b, tx) == [b EXCEPT !.left = @ \ {tx}, !.invalid = @ \cup {tx.hash}]

mark_invalid(b, tx) == [b EXCEPT !.left = @ \ {tx}, !.invalid = @ \cup {tx.sender}]

SkipWithDescendants(tx) ==
    /\ Building /\ tx \in Offered(build)
    /\ Unfit(build, tx)
    /\ build' = mark_invalid(build, tx)
    /\ UNCHANGED <<config, pool, blobstore, cancel, builds, best, getting, answer>>

\* Mutant: the transaction is not consumed.
SkipStale_Again(tx) ==
    /\ Building /\ tx \in Offered(build)
    /\ ~cancel /\ Fits(build, tx)
    /\ ExecutionError(tx, build.state) = "nonce too low"
    /\ UNCHANGED vars

\* A nonce already used by the parent: what follows it may still be good.
SkipStale(tx) ==
    /\ Building /\ tx \in Offered(build)
    /\ ~cancel /\ Fits(build, tx)
    /\ ExecutionError(tx, build.state) = "nonce too low"
    /\ build' = [build EXCEPT !.left = @ \ {tx}]
    /\ UNCHANGED <<config, pool, blobstore, cancel, builds, best, getting, answer>>

\* The transaction was executed: what the block and the iterator become.
Recorded(b, tx, miner_fee) ==
    LET blob_count == b.block_blob_count + tx.blobs IN
    [b EXCEPT !.left = @ \ {tx},
              !.txs = Append(@, tx),
              !.state = Executed(tx, @),
              !.block_blob_count = blob_count,
              !.skip_blobs = @ \/ (IsBlob(tx) /\ blob_count = max_blob_count),
              !.block_transactions_rlp_length = @ + tx.len,
              !.total_fees = @ + miner_fee * GasUsed(tx),
              !.cumulative_tx_gas_used = @ + GasUsed(tx),
              !.block_regular_gas_used = @ + tx.regular_gas,
              !.block_state_gas_used = @ + tx.state_gas,
              !.blob_sidecars = IF IsBlob(tx)
                                THEN push_sidecar_variant(@, tx.hash, blobstore[tx.hash])
                                ELSE @]

\* Mutant: the priority fee is credited even where the fee cap does not leave room for it.
WithTx_Uncapped(b, tx) == Recorded(b, tx, tx.priority)

WithTx(b, tx) == Recorded(b, tx, Tip(tx))

Include(tx) ==
    /\ Building /\ tx \in Offered(build)
    /\ ~cancel /\ Fits(build, tx)
    /\ ExecutionError(tx, build.state) = "none"
    /\ build' = WithTx(build, tx)
    /\ UNCHANGED <<config, pool, blobstore, cancel, builds, best, getting, answer>>

\* BuildOutcome::Cancelled
NoticeCancel(tx) ==
    /\ Building /\ tx \in Offered(build)
    /\ cancel /\ ~exceeds_gas_limit(build, tx)
    /\ build' = None
    /\ UNCHANGED <<config, pool, blobstore, cancel, builds, best, getting, answer>>

\* Mutant: equal fees are better.
is_better_payload_Equal(best_payload, fees) ==
    best_payload # None => fees >= best_payload.fees

is_better_payload(best_payload, fees) ==
    best_payload # None => fees > best_payload.fees

\* The sealed block: the header commits to the gas, the blobs and the state root.  A
\* state-root task that fails falls back to computing the same root.
Sealed(b) ==
    [txs |-> b.txs,
     gas_used |-> IF is_amsterdam
                  THEN IF b.block_regular_gas_used > b.block_state_gas_used
                       THEN b.block_regular_gas_used ELSE b.block_state_gas_used
                  ELSE b.cumulative_tx_gas_used,
     blob_count |-> b.block_blob_count,
     rlp_length |-> BLOCK_OVERHEAD + b.block_transactions_rlp_length + WITHDRAWALS_LEN,
     state_root |-> IF config.skip_state_root THEN ParentState ELSE b.state]

TooLarge(b) == is_osaka /\ Sealed(b).rlp_length > MAX_RLP_BLOCK_SIZE

Payload(b) ==
    [block |-> Sealed(b), fees |-> b.total_fees, sidecars |-> b.blob_sidecars,
     requests |-> Active("prague"), block_access_list |-> is_amsterdam]

\* The loop is over: nothing is offered any more.
Exhausted == Building /\ Offered(build) = {}

Abort ==
    /\ Exhausted
    /\ ~is_better_payload(build.best_payload, build.total_fees)
    /\ build' = None
    /\ UNCHANGED <<config, pool, blobstore, cancel, builds, best, getting, answer>>

\* BuildOutcome::Better: the job keeps the payload and gives it to a waiting request,
\* unless it is gone.
Finish ==
    /\ Exhausted
    /\ is_better_payload(build.best_payload, build.total_fees)
    /\ ~TooLarge(build)
    /\ build' = None
    /\ best' = IF cancel THEN best ELSE Payload(build)
    /\ answer' = IF Waiting THEN Ok(Payload(build)) ELSE answer
    /\ cancel' = (cancel \/ Waiting)
    /\ UNCHANGED <<config, pool, blobstore, builds, getting>>

\* Mutant: the error is not passed on to the request that waits for it.
Fail_Silent ==
    /\ Building
    /\ build' = None
    /\ UNCHANGED <<config, pool, blobstore, cancel, builds, best, getting, answer>>

\* The call returns an error: the block is too large, the blob store cannot be read, or
\* the EVM or the state-root computation fails.  A request that awaits this very call
\* has nothing to be given.
Fail ==
    /\ Building
    /\ build' = None
    /\ IF Waiting /\ config.await_payload_on_missing
       THEN answer' = Err("MissingPayload") /\ cancel' = TRUE
       ELSE UNCHANGED <<answer, cancel>>
    /\ UNCHANGED <<config, pool, blobstore, builds, best, getting>>

----------------------------------------------------------------------------
(* The job (external) around try_build, on_missing_payload and               *)
(* build_empty_payload                                                       *)

try_build ==
    /\ ~cancel /\ ~Building /\ ~getting /\ builds < MaxBuilds
    /\ build' = NewBuild(pool, best)
    /\ builds' = builds + 1
    /\ UNCHANGED <<config, pool, blobstore, cancel, best, getting, answer>>

\* engine_getPayload: the best payload at once, and the job ends; without one the request
\* waits for the call under way.
GetPayload ==
    /\ ~cancel /\ ~getting /\ (best # None \/ Building)
    /\ getting' = TRUE
    /\ IF best # None THEN answer' = Ok(best) /\ cancel' = TRUE
       ELSE UNCHANGED <<answer, cancel>>
    /\ UNCHANGED <<config, pool, blobstore, build, builds, best>>

\* The same with neither a payload nor a call under way, as after calls that failed: the
\* job makes a call for the request.
GetPayloadAnew ==
    /\ ~cancel /\ ~getting /\ best = None /\ ~Building /\ builds < MaxBuilds
    /\ getting' = TRUE
    /\ build' = NewBuild(pool, best)
    /\ builds' = builds + 1
    /\ UNCHANGED <<config, pool, blobstore, cancel, best, answer>>

\* build_empty_payload: the walk over no transactions, which may fail like any call; an
\* outcome without a payload is an error too.
build_empty_payload ==
    LET empty == NewBuild({}, None) IN
    {Err("PayloadBuilderError")}
        \cup (IF ~is_better_payload(None, 0) THEN {Err("MissingPayload")}
              ELSE IF TooLarge(empty) THEN {} ELSE {Ok(Payload(empty))})

\* MissingPayloadBehaviour::RaceEmptyPayload: the empty payload, built beside the call
\* under way, may come first; its error is the request's answer as well.
AnswerEmpty ==
    /\ Waiting /\ ~config.await_payload_on_missing
    /\ answer' \in build_empty_payload
    /\ cancel' = TRUE
    /\ UNCHANGED <<config, pool, blobstore, build, builds, best, getting>>

\* The deadline passes with nobody waiting: the job is dropped.
Expire ==
    /\ ~cancel /\ ~getting
    /\ cancel' = TRUE
    /\ UNCHANGED <<config, pool, blobstore, build, builds, best, getting, answer>>

\* A transaction becomes pending; a running iterator is told.  The replacement of a
\* pending transaction by one of the same nonce is left out.
Arrive(tx) ==
    /\ ~cancel /\ NoGap(tx, pool)
    /\ \A t \in pool : ~Rivals(t, tx)
    /\ pool' = pool \cup {tx}
    /\ build' = IF Building THEN [build EXCEPT !.left = @ \cup {tx}] ELSE build
    /\ UNCHANGED <<config, blobstore, cancel, builds, best, getting, answer>>

DropSidecar(h) ==
    /\ ~cancel /\ blobstore[h] # None
    /\ blobstore' = [blobstore EXCEPT ![h] = None]
    /\ UNCHANGED <<config, pool, cancel, build, builds, best, getting, answer>>

----------------------------------------------------------------------------
Init ==
    /\ config \in Configs
    /\ pool \in InitialPools
    /\ blobstore \in [BlobTxs -> Sidecars]
    /\ cancel = FALSE
    /\ build = None
    /\ builds = 0
    /\ best = None
    /\ getting = FALSE
    /\ answer = None

Loop == \/ \E tx \in Txs : SkipWithDescendants(tx)
        \/ \E tx \in Txs : SkipStale(tx)
        \/ \E tx \in Txs : Include(tx)
        \/ \E tx \in Txs : NoticeCancel(tx)
        \/ Abort \/ Finish

Next == \/ Loop \/ Fail
        \/ try_build \/ GetPayload \/ GetPayloadAnew \/ AnswerEmpty \/ Expire
        \/ \E tx \in Txs : Arrive(tx)
        \/ \E h \in DOMAIN blobstore : DropSidecar(h)

Spec == Init /\ [][Next]_vars

\* The builder's thread keeps running, and so does that of the empty payload.
FairSpec == Spec /\ WF_vars(Loop) /\ WF_vars(AnswerEmpty)

----------------------------------------------------------------------------
(* CosmosBuiltPayload: the engine API's envelopes                            *)

try_into_v2(p) == Ok([block |-> p.block, block_value |-> p.fees])

try_into_v3(p) ==
    IF p.sidecars.kind = "eip7594" THEN Err("UnexpectedEip7594Sidecars")
    ELSE Ok([block |-> p.block, block_value |-> p.fees, blobs_bundle |-> p.sidecars.hashes])

\* From here on requests that are absent become an empty list.
try_into_v4(p) ==
    LET inner == try_into_v3(p) IN
    IF ~inner.ok THEN inner
    ELSE Ok([block |-> p.block, block_value |-> p.fees, blobs_bundle |-> inner.val.blobs_bundle,
             execution_requests |-> p.requests])

try_into_v5(p) ==
    IF p.sidecars.kind = "eip4844" THEN Err("UnexpectedEip4844Sidecars")
    ELSE Ok([block |-> p.block, block_value |-> p.fees, blobs_bundle |-> p.sidecars.hashes,
             execution_requests |-> p.requests])

try_into_v6(p) ==
    IF ~p.block_access_list THEN Err("MissingBlockAccessList") ELSE try_into_v5(p)

\* getPayloadVn is the version of the payload's own fork.
Envelope(p) ==
    CASE config.fork = "shanghai" -> try_into_v2(p)
      [] config.fork = "cancun" -> try_into_v3(p)
      [] config.fork = "prague" -> try_into_v4(p)
      [] config.fork = "osaka" -> try_into_v5(p)
      [] config.fork = "amsterdam" -> try_into_v6(p)

\* The hashes of the blob transactions, in the order of the block.
BlobHashes(txs) ==
    LET hashes[i \in 0 .. Len(txs)] ==
            IF i = 0 THEN <<>>
            ELSE IF IsBlob(txs[i]) THEN Append(hashes[i - 1], txs[i].hash) ELSE hashes[i - 1]
    IN  hashes[Len(txs)]

\* into_execution_data, as handed back to the engine by the local miner: None stands for
\* what is absent.  Without requests the sidecar is what the block itself shows.
into_execution_data(p) ==
    [block |-> p.block, block_access_list |-> p.block_access_list,
     versioned_hashes |-> IF Active("cancun") THEN BlobHashes(p.block.txs) ELSE None,
     requests |-> p.requests /\ Active("cancun")]

----------------------------------------------------------------------------
(* Properties                                                                *)

\* Payloads somebody can be given.
Held == {p \in {best} : p # None} \cup {r.val : r \in {r \in {answer} : r # None /\ r.ok}}

BuildErrors == {"MissingPayload", "PayloadBuilderError"}

\* The type invariant.
TypeOK ==
    /\ config \in Configs
    /\ pool \subseteq Txs
    /\ blobstore \in [BlobTxs -> Sidecars \cup {None}]
    /\ cancel \in BOOLEAN /\ getting \in BOOLEAN
    /\ builds \in 0 .. MaxBuilds
    /\ build \in Builds \cup {None}
    /\ best \in Payloads \cup {None}
    /\ answer # None => IF answer.ok THEN answer.val \in Payloads
                        ELSE answer.err \in BuildErrors

\* A block within what the protocol allows at this fork.
WithinLimits(block) ==
    /\ block.gas_used <= GAS_LIMIT
    /\ block.blob_count <= protocol_max_blob_count
    /\ is_osaka => block.rlp_length <= MAX_RLP_BLOCK_SIZE

\* No block under construction or handed out exceeds the gas limit (both of its
\* dimensions in Amsterdam), the protocol's blob limit, whatever the operator's, or the
\* size limit: the loop's checks suffice, and the final size check never fires.
LimitsRespected == /\ Building => WithinLimits(Sealed(build))
                   /\ \A p \in Held : WithinLimits(p.block)

\* The state after the first i transactions, executed from the parent.
Replay(txs) ==
    LET state[i \in 0 .. Len(txs)] ==
            IF i = 0 THEN ParentState ELSE Executed(txs[i], state[i - 1])
    IN  state

\* Every payload re-executes: each transaction is valid where it stands, the fees are
\* exactly what the beneficiary earns, the state root is that of the execution (unless
\* its computation was switched off).
PayloadReExecutes ==
    \A p \in Held :
        LET txs == p.block.txs
            state == Replay(txs)
        IN  /\ \A i \in DOMAIN txs : ExecutionError(txs[i], state[i - 1]) = "none"
            /\ p.fees = state[Len(txs)].beneficiary
            /\ ~config.skip_state_root => p.block.state_root = state[Len(txs)]

\* Every payload becomes an envelope of its fork's version, with the sidecars of exactly
\* its blob transactions in block order and the requests of its execution, and an
\* ExecutionData that says the same of it; however the blob store changed between and
\* during the calls.
EnvelopeComplete ==
    \A p \in Held :
        /\ Envelope(p).ok
        /\ p.sidecars.hashes = BlobHashes(p.block.txs)
        /\ Active("cancun") =>
               Envelope(p).val.blobs_bundle = into_execution_data(p).versioned_hashes
        /\ Active("prague") => Envelope(p).val.execution_requests
        /\ into_execution_data(p).requests = Active("prague")

\* The most a transaction can take of each resource.
GasLimits == [t \in Txs |-> t.gas_limit]
Lengths == [t \in Txs |-> t.len]
BlobCounts == [t \in Txs |-> t.blobs]
MaxCosts == [t \in Txs |-> t.gas_limit * t.max_fee]
OfSender(s, txs) == {t \in txs : t.sender = s}

\* There is room for the whole pool: nothing in it needs to be refused.
Roomy ==
    /\ SumFunctionOnSet(GasLimits, pool) <= GAS_LIMIT
    /\ is_osaka => SumFunctionOnSet(Lengths, pool) + WITHDRAWALS_LEN + 1024
                     <= MAX_RLP_BLOCK_SIZE
    /\ \A limit \in {max_blob_count, protocol_max_blob_count} :
           SumFunctionOnSet(BlobCounts, pool) <= limit
    /\ \A t \in pool : t.max_fee >= BASE_FEE /\ t.gas_limit <= TX_GAS_CAP /\ ~BadSidecar(t)
    /\ \A s \in Senders :
           SumFunctionOnSet(MaxCosts, OfSender(s, pool)) <= ParentBalance[s]

\* When there is room for all, a finished walk has left out nothing but what the parent
\* had already executed, however transactions arrived during the walk.
NothingLeftOut ==
    (Exhausted /\ ~cancel /\ Roomy) =>
        \A t \in pool : t.nonce >= ParentNonce[t.sender] =>
                            \E i \in DOMAIN build.txs : build.txs[i] = t

\* The payload kept is only ever replaced by one with higher fees, and an answer stands:
\* a call that finishes after the job is gone replaces neither.
BestImproves ==
    [][/\ best' # best => best' # None /\ (best = None \/ best'.fees > best.fees)
       /\ answer # None => answer' = answer]_vars

\* Whoever asks for the payload is answered, with a payload (the best, that of the call
\* awaited, an empty block) or with an error, that of the call awaited or of the empty
\* build; also when earlier calls failed and nothing is under way.
Answered == getting ~> answer # None

\* Every call of try_build returns, also when transactions arrive and after a
\* cancellation that the gas check hides.
BuildEnds == Building ~> ~Building
============================================================================
