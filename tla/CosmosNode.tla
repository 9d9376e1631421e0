----------------------------- MODULE CosmosNode -----------------------------
(***************************************************************************)
(* The development node as scripts/start.sh runs it, put together: the     *)
(* transaction pool, the local miner with the payload builder, the engine  *)
(* and the chain of CosmosChain, the receipts of src/rpc.rs, and the       *)
(* client of client/src (submitAndVerify of demo.ts on the functions of    *)
(* rpc.ts).                                                                *)
(*                                                                         *)
(* A pool transaction carries the sender recovered when it was admitted;   *)
(* the builder executes it for that sender, and the engine, given the      *)
(* block back, decodes and recovers everything anew.  The pool is told of  *)
(* a new head some time after it became the head.  The client works with   *)
(* single requests, each answered from the state of its moment, so that    *)
(* the node may stop and start between two of them; it gives up after      *)
(* POLLS requests for a receipt, and may start over.  Pool, miner and the  *)
(* upstream RPC handlers are external.                                     *)
(***************************************************************************)
EXTENDS CosmosChain, FiniteSets

CONSTANTS
    ClientRaws,     \* transactions the client signs
    OtherRaws,      \* transactions of others
    LogsOf,         \* [Accounts -> Nat]: events a successful call to the account emits
    BASE_FEE,       \* base fee of every block
    POLLS           \* requests for a receipt before the client gives up (100)

NodeRaws == ClientRaws \cup OtherRaws

\* What decodes is encoded again in the miner's block; the gas of a block limits how many
\* transactions it has.
MinedRaws == {encode_2718(decode_2718_exact(raw).val) :
                 raw \in {r \in NodeRaws : decode_2718_exact(r).ok}}
MinedBlocks ==
    {[txs |-> txs, base_fee |-> BASE_FEE, header_ok |-> TRUE, roots_ok |-> TRUE] :
        txs \in UNION {[1 .. n -> MinedRaws] : n \in 1 .. BLOCK_GAS \div MIN_GAS}}

Op(raw) == raw.payload.op
Touched(raw) == {Op(raw).sender, Op(raw).to}

\* The operation or Ethereum transaction t of the account a neither uses nor pays the accounts
\* of the client's transaction c.
Avoids(a, t, c) == a \notin Touched(c) /\ (t.value > 0 => t.to \notin Touched(c))

\* The engine may be given the miner's blocks.  The client encodes what it signs, gives its
\* calls the gas they take, and nobody but the client uses or pays the accounts it watches;
\* where it has several, they do not meet.
ASSUME NodeAssumption ==
    /\ BASE_FEE \in Nat \ {0} /\ POLLS \in Nat \ {0}
    /\ MinedBlocks \subseteq Blocks /\ NodeRaws \subseteq SubmittedRaws
    /\ LogsOf \in [Accounts -> Nat]
    /\ \A c \in ClientRaws :
         /\ c = encode_wire(Op(c), c.key, c.sig)
         /\ Beneficiary \notin Touched(c)
         /\ Op(c).to # Op(c).sender
         /\ Op(c).gas_limit >= MIN_GAS + 16 * Op(c).input
                                 + (IF Op(c).to \in Contracts THEN CALL_GAS ELSE 0)
    /\ \A raw \in NodeRaws, c \in ClientRaws :
         IF raw.ty \in EthereumTypes THEN Avoids(raw.eth.signer, raw.eth, c)
         ELSE Authorized(Op(raw), raw.key, raw.sig) =>
                \/ Avoids(Op(raw).sender, Op(raw), c)
                \/ raw \notin OtherRaws /\ Op(raw).sender = Op(c).sender

VARIABLES
    pool,       \* pool transactions: [tx, signer]
    built,      \* the block the miner is building or has submitted, or NoBlock
    client,     \* the client's submitAndVerify under way, or how the last one ended
    late,       \* transactions of calls the client no longer waits for, not yet looked at
    taken       \* history: the last stop took blocks back while submitAndVerify was under way,
                \* or came in such a run

nodevars == <<pool, built, client, late, taken>>
allvars == <<vars, nodevars>>

NoBlock == [txs |-> <<>>]
Ended(how) == [phase |-> how]
AtRest == client.phase \in {"idle", "ok", "threw", "refused", "failed"}
Answering == mode = "node"

----------------------------------------------------------------------------
(* The pool                                                                  *)

\* External: the first half of send_raw_transaction, whatever the state.
PoolTransaction(d) ==
    IF ~d.ok THEN d
    ELSE IF ~try_into_pooled(d.val).ok THEN try_into_pooled(d.val)
    ELSE IF ~recover_signer(d.val).ok THEN recover_signer(d.val)
    ELSE Ok([tx |-> d.val, signer |-> recover_signer(d.val).val])
Recovered == [raw \in NodeRaws |-> PoolTransaction(decode_2718_exact(raw))]

\* What CosmosPoolTransaction says of itself is what its transaction says; its cost is the
\* most it may take from its sender.
PoolFields(e) == Fields(e.tx)
cost(e) == PoolFields(e).gas_limit * PoolFields(e).max_fee_per_gas + PoolFields(e).value

Held(tx) == \E e \in pool : e.tx = tx
Rivals(t) == {e \in pool : e.signer = t.signer /\ PoolFields(e).nonce = PoolFields(t).nonce}
Dearer(t, e) ==
    /\ PoolFields(t).max_fee_per_gas > PoolFields(e).max_fee_per_gas
    /\ PoolFields(t).max_priority_fee_per_gas > PoolFields(e).max_priority_fee_per_gas

\* External: the pool takes t on the state of the head.
Admits(t) ==
    /\ ~Held(t.tx)
    /\ PoolFields(t).nonce >= world.nonce[t.signer]
    /\ cost(t) <= world.balance[t.signer]
    /\ PoolFields(t).gas_limit \in MIN_GAS + 16 * PoolFields(t).input .. BLOCK_GAS
    /\ \A e \in Rivals(t) : Dearer(t, e)
Admitted(raw) == Recovered[raw].ok /\ Admits(Recovered[raw].val)
With(t) == (pool \ Rivals(t)) \cup {t}

\* Ethereum transactions and those of other Cosmos accounts.
SendOther(raw) ==
    /\ Answering
    /\ Admitted(raw)
    /\ pool' = With(Recovered[raw].val)
    /\ UNCHANGED <<vars, built, client, late, taken>>

\* External: the maintenance task hears of the new head.
Maintain ==
    /\ Answering
    /\ \E e \in pool : PoolFields(e).nonce < world.nonce[e.signer]
    /\ pool' = {e \in pool : PoolFields(e).nonce >= world.nonce[e.signer]}
    /\ UNCHANGED <<vars, built, client, late, taken>>

----------------------------------------------------------------------------
(* Miner and builder                                                         *)

\* The block so far, empty on the state of the head.
EmptyBlock == [txs |-> <<>>, callers |-> <<>>, receipts |-> <<>>, gas |-> 0, world |-> world,
               sealed |-> FALSE]

\* The transaction environment of a pool transaction: for its cached sender.
EnvOf(e) == from_recovered_tx(e.tx, e.signer)
Buildable(e, w, gas) ==
    EnvOf(e).ok /\ ValidationError(EnvOf(e).val, w, BASE_FEE, BLOCK_GAS - gas) = "none"

\* External: the local miner asks for a block when the pool has something for it.
StartBuild ==
    /\ Answering /\ ~Busy /\ built = NoBlock
    /\ \E e \in pool : Buildable(e, world, 0)
    /\ built' = EmptyBlock
    /\ UNCHANGED <<vars, pool, client, late, taken>>

\* The loop of default_ethereum_payload executes a transaction of the pool.
BuildTx(e) ==
    /\ built # NoBlock /\ ~built.sealed
    /\ Buildable(e, built.world, built.gas)
    /\ LET env == EnvOf(e).val
           gas == built.gas + GasUsed(env)
       IN  built' = [built EXCEPT
               !.txs = Append(@, e.tx),
               !.callers = Append(@, e.signer),
               !.receipts = Append(@, build_receipt(e.tx, env, gas)),
               !.gas = gas,
               !.world = Applied(env, @, BASE_FEE)]
    /\ UNCHANGED <<vars, pool, client, late, taken>>

\* The pool has nothing more for this block; block_to_payload encodes it, and the miner
\* hands it to the engine.
SubmitBuilt ==
    /\ built # NoBlock /\ ~built.sealed /\ built.txs # <<>>
    /\ \A e \in pool : ~Buildable(e, built.world, built.gas)
    /\ Submit([txs |-> [i \in 1 .. Len(built.txs) |-> encode_2718(built.txs[i])],
               base_fee |-> BASE_FEE, header_ok |-> TRUE, roots_ok |-> TRUE])
    /\ built' = [built EXCEPT !.sealed = TRUE]
    /\ UNCHANGED <<pool, client, late, taken>>

\* The engine's steps are those of CosmosChain; a new head ends the miner's round.
Engine ==
    \/ Validate /\ UNCHANGED nodevars
    \/ ExecuteNext /\ UNCHANGED nodevars
    \/ Commit /\ built' = NoBlock /\ UNCHANGED <<pool, client, late, taken>>

Store == (\E n \in 1 .. MaxHeight : Persist(n)) /\ UNCHANGED nodevars

Boot == StartNode /\ UNCHANGED nodevars

\* The process ends: pool, miner and what was on its way to the pool are gone.  The client
\* is another process and does not notice until its next request.
Stop ==
    /\ Halt
    /\ pool' = {}
    /\ built' = NoBlock
    /\ late' = {}
    /\ taken' = (~AtRest /\ (taken \/ Len(db) < Len(head)))
    /\ UNCHANGED client

----------------------------------------------------------------------------
(* Receipts (src/rpc.rs).  Events are counted, their contents left out.      *)

LogCount(b, i) == IF b.receipts[i].success THEN LogsOf[Fields(b.txs[i]).to] ELSE 0

\* External: events of the block before transaction i, and the gas i used alone.
FirstLog(b, i) ==
    LET upto[j \in 0 .. i - 1] == IF j = 0 THEN 0 ELSE upto[j - 1] + LogCount(b, j)
    IN  upto[i - 1]
GasOf(b, i) == b.receipts[i].cumulative_gas_used
                 - (IF i = 1 THEN 0 ELSE b.receipts[i - 1].cumulative_gas_used)

\* Mutant: the numbers start again with every transaction.
receipt_converter_FromZero(receipt, logs, first_log, meta) ==
    [tx_type |-> receipt.tx_type, success |-> receipt.success,
     logs |-> [k \in 1 .. logs |-> [log_index |-> k - 1, transaction_hash |-> meta.tx_hash,
                                    transaction_index |-> meta.index,
                                    block_number |-> meta.block_number]]]

receipt_converter(receipt, logs, first_log, meta) ==
    [tx_type |-> receipt.tx_type, success |-> receipt.success,
     logs |-> [k \in 1 .. logs |-> [log_index |-> first_log + k - 1,
                                    transaction_hash |-> meta.tx_hash,
                                    transaction_index |-> meta.index,
                                    block_number |-> meta.block_number]]]

\* Mutant: the fee cap is reported.
effective_gas_price_Cap(tx, base_fee) == Fields(tx).max_fee_per_gas

effective_gas_price(tx, base_fee) ==
    LET f == Fields(tx)
    IN  IF base_fee + f.max_priority_fee_per_gas <= f.max_fee_per_gas
        THEN base_fee + f.max_priority_fee_per_gas ELSE f.max_fee_per_gas

\* External: the receipt of transaction i of block n as the RPC gives it.
RpcReceipt(n, i) ==
    LET b == head[n]
        meta == [tx_hash |-> tx_hash(b.txs[i]), index |-> i - 1, block_number |-> n]
    IN  [inner |-> receipt_converter(b.receipts[i], LogCount(b, i), FirstLog(b, i), meta),
         from |-> b.callers[i], gas_used |-> GasOf(b, i),
         effective_gas_price |-> effective_gas_price(b.txs[i], b.base_fee)]

Located(hash) ==
    UNION {{<<n, i>> : i \in {j \in 1 .. Len(head[n].txs) : tx_hash(head[n].txs[j]) = hash}} :
              n \in 1 .. Len(head)}

----------------------------------------------------------------------------
(* The client                                                                *)

Expects(raw) == Op(raw).to # Reverter
Balance(a) == world.balance[a]

\* demo: an operation for the nonce at the head is signed.
ReadNonce(raw) ==
    /\ Answering /\ AtRest
    /\ Op(raw).nonce = world.nonce[Op(raw).sender]
    /\ client' = [phase |-> "signed", raw |-> raw]
    /\ UNCHANGED <<vars, pool, built, late, taken>>

\* submitAndVerify: one balance and then the other, before one call or, to try it, two at
\* the same time.
ReadBalance ==
    /\ Answering /\ client.phase = "signed"
    /\ client' = [phase |-> "read", raw |-> client.raw, before |-> Balance(Op(client.raw).sender)]
    /\ UNCHANGED <<vars, pool, built, late, taken>>
ReadToBalance(calls) ==
    /\ Answering /\ client.phase = "read"
    /\ client' = [phase |-> "sending", raw |-> client.raw, calls |-> calls,
                  twice |-> calls > 1, results |-> {},
                  before |-> client.before, toBefore |-> Balance(Op(client.raw).to)]
    /\ UNCHANGED <<vars, pool, built, late, taken>>

\* A call has come to the result r: fulfilled, rejected, or lost on the way.  After the last,
\* a single call that was not fulfilled throws, and of two calls one must have been
\* fulfilled; the hash a call returned must be the client's own.
Settle(r) ==
    LET results == client.results \cup {r}
    IN  client' =
          IF client.calls > 1 THEN [client EXCEPT !.calls = @ - 1, !.results = results]
          ELSE IF "fulfilled" \notin results
          THEN IF client.twice THEN [phase |-> "refused", results |-> results]
               ELSE Ended("threw")
          ELSE IF tx_hash(Recovered[client.raw].val.tx) # transaction_hash(client.raw)
          THEN Ended("failed")
          ELSE [phase |-> "polling", raw |-> client.raw, polls |-> 0,
                before |-> client.before, toBefore |-> client.toBefore]

\* cosmos_sendRawTransaction is answered.
Send ==
    /\ Answering /\ client.phase = "sending"
    /\ LET ok == Admitted(client.raw)
       IN  /\ pool' = IF ok THEN With(Recovered[client.raw].val) ELSE pool
           /\ Settle(IF ok THEN "fulfilled" ELSE "rejected")
    /\ UNCHANGED <<vars, built, late, taken>>

\* The call fails on the client's side, or nobody listens; the node may have it all the same.
LoseCall ==
    /\ client.phase = "sending"
    /\ Settle("lost")
    /\ late' = IF Answering THEN late \cup {client.raw} ELSE late
    /\ UNCHANGED <<vars, pool, built, taken>>

\* External: the node comes to a call the client no longer waits for.
LateCall(raw) ==
    /\ Answering
    /\ pool' = IF Admitted(raw) THEN With(Recovered[raw].val) ELSE pool
    /\ late' = late \ {raw}
    /\ UNCHANGED <<vars, built, client, taken>>

\* What submitAndVerify asserts of the receipt r.
ReceiptOk(r) ==
    /\ r.inner.success = Expects(client.raw)
    /\ r.from = Op(client.raw).sender
    /\ r.inner.tx_type = TX_TYPE
    /\ r.gas_used * r.effective_gas_price > 0

\* receipt: ask again, at most POLLS times.
Poll ==
    /\ Answering /\ client.phase = "polling"
    /\ LET found == Located(transaction_hash(client.raw))
           at == CHOOSE p \in found : TRUE
           r == RpcReceipt(at[1], at[2])
       IN  client' =
             IF found = {}
             THEN IF client.polls + 1 = POLLS THEN Ended("threw")
                  ELSE [client EXCEPT !.polls = @ + 1]
             ELSE IF ~ReceiptOk(r) THEN Ended("failed")
             ELSE [phase |-> "verifying", raw |-> client.raw, request |-> 1,
                   fee |-> r.gas_used * r.effective_gas_price,
                   before |-> client.before, toBefore |-> client.toBefore]
    /\ UNCHANGED <<vars, pool, built, late, taken>>

\* The four requests that follow, and what is asserted of each answer.
Requests == 4
AnswerOk(i) ==
    LET op == Op(client.raw)
        paid == IF Expects(client.raw) THEN op.value ELSE 0
        Stored(p) == serialize(head[p[1]].txs[p[2]])
    IN  CASE i = 1 -> Balance(op.sender) = client.before - client.fee - paid
          [] i = 2 -> Balance(op.to) = client.toBefore + paid
          [] i = 3 -> world.nonce[op.sender] = op.nonce + 1
          [] i = 4 -> \E p \in Located(transaction_hash(client.raw)) :
                         /\ Stored(p).tx_type = TX_TYPE
                         /\ Stored(p).cosmos_signature = client.raw.sig
                         /\ Stored(p).public_key = client.raw.key

Verify ==
    /\ Answering /\ client.phase = "verifying"
    /\ client' = IF ~AnswerOk(client.request) THEN Ended("failed")
                 ELSE IF client.request = Requests THEN Ended("ok")
                 ELSE [client EXCEPT !.request = @ + 1]
    /\ UNCHANGED <<vars, pool, built, late, taken>>

\* rpc: a reading request has no answer in time, or nobody listens: the run ends.
TimeOut ==
    /\ ~AtRest /\ client.phase # "sending"
    /\ client' = Ended("threw")
    /\ UNCHANGED <<vars, pool, built, late, taken>>

----------------------------------------------------------------------------
NodeInit ==
    /\ Init
    /\ pool = {}
    /\ built = NoBlock
    /\ client = Ended("idle")
    /\ late = {}
    /\ taken = FALSE

NodeNext ==
    \/ Boot \/ Stop
    \/ \E raw \in OtherRaws : SendOther(raw)
    \/ Maintain
    \/ StartBuild
    \/ \E e \in pool : BuildTx(e)
    \/ SubmitBuilt
    \/ Engine
    \/ Store
    \/ \E raw \in ClientRaws : ReadNonce(raw)
    \/ ReadBalance
    \/ \E calls \in {1, 2} : ReadToBalance(calls)
    \/ Send \/ LoseCall \/ Poll \/ Verify \/ TimeOut
    \/ \E raw \in late : LateCall(raw)

NodeSpec == NodeInit /\ [][NodeNext]_allvars

Miner == StartBuild \/ (\E e \in pool : BuildTx(e)) \/ SubmitBuilt

\* Weak fairness of Engine, with the condition under which it is enabled, and the change
\* by which its steps are known, written out.
EngineCanStep ==
    /\ Busy
    /\ \/ ~job.validated /\ PreExecutionOk(job.block)
       \/ Ready /\ NextAttempt.ok
       \/ Executed /\ job.block.roots_ok
EngineFairness == []<>(~EngineCanStep) \/ []<><<Busy /\ Answering' /\ job' # job>>_allvars

\* The runtime keeps the miner, the engine and the maintenance task going.
FairNodeSpec == NodeSpec /\ WF_allvars(Miner) /\ WF_allvars(Maintain) /\ EngineFairness

----------------------------------------------------------------------------
(* Properties                                                                *)

\* The node accepts the blocks it makes.  The builder trusts the sender cached at admission
\* and a pool that may lag behind the head; the engine decodes, verifies, recovers and
\* executes everything again, and comes to the same callers, receipts and state.
OwnBlocksAccepted ==
    /\ \A e \in pool : EnvOf(e).ok
    /\ Busy /\ ~job.validated => PreExecutionOk(job.block)
    /\ Ready => NextAttempt.ok
    /\ Executed => /\ job.callers = built.callers
                   /\ job.receipts = built.receipts
                   /\ job.world = built.world

\* The receipts of a block fit together: every hash finds its own transaction and no other,
\* the events of the block are numbered 0, 1, 2, ... through all of its receipts, and each
\* has its own part of the gas.
ReceiptsAgree ==
    \A n \in 1 .. Len(head) :
        LET b == head[n]
            Numbers(i) == {RpcReceipt(n, i).inner.logs[k].log_index : k \in 1 .. LogCount(b, i)}
        IN  /\ \A i \in 1 .. Len(b.txs) :
                 /\ Located(tx_hash(b.txs[i])) = {<<n, i>>}
                 /\ GasOf(b, i) >= MIN_GAS
                 /\ Cardinality(Numbers(i)) = LogCount(b, i)
                 /\ \A j \in 1 .. i - 1 : Numbers(j) \cap Numbers(i) = {}
            /\ LET all == UNION {Numbers(i) : i \in 1 .. Len(b.txs)}
               IN  all = 0 .. Cardinality(all) - 1

\* What the client asserts of the hash, the receipt, the balances, the nonce and the stored
\* transaction is true whenever it gets to assert it: whatever others do in the same blocks,
\* with calls sent twice or lost and inserted late, after runs that gave up while their
\* transaction was pending, and over stops that lose nothing.  Only when a stop takes blocks
\* back during a run may an assertion fail, in that run or, because its call may since wait
\* in the pool for a nonce far ahead, in a later one of the same life of the node.
ClientVerified == [][client'.phase = "failed" => client' = client \/ taken]_allvars


\* It is the turn of the pool transaction t, and its account can pay for it.
Due(t) ==
    /\ Answering /\ t \in pool
    /\ PoolFields(t).nonce = world.nonce[t.signer]
    /\ PoolFields(t).max_fee_per_gas >= BASE_FEE
    /\ cost(t) <= world.balance[t.signer]

\* A pool transaction whose turn it is does not wait for ever, nor get lost: it is included
\* (its nonce is used), unless a dearer one takes its place or the node stops.
Included ==
    \A raw \in NodeRaws :
        LET t == Recovered[raw].val
        IN  (Recovered[raw].ok /\ Due(t))
              ~> \/ ~Answering
                 \/ PoolFields(t).nonce < world.nonce[t.signer]
                 \/ \E e \in Rivals(t) : e # t
============================================================================
