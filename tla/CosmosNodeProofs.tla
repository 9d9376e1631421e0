-------------------------- MODULE CosmosNodeProofs --------------------------
(***************************************************************************)
(* The node as a whole, for every pool, every schedule of miner, engine,   *)
(* maintenance and client, and every set of transactions: it is a chain in *)
(* the sense of CosmosChain, accepts the blocks it makes, gives receipts   *)
(* that fit together, and answers the client as the client expects.        *)
(***************************************************************************)
EXTENDS CosmosNode, CosmosChainProofs

----------------------------------------------------------------------------
(* Pool transactions                                                         *)

\* What the pool can hold.
PoolTxs == {Recovered[raw].val : raw \in {r \in NodeRaws : Recovered[r].ok}}

LEMMA PoolTxFacts ==
    ASSUME NEW e \in PoolTxs
    PROVE  /\ e.tx \in DecodedTxs /\ encode_2718(e.tx) \in MinedRaws
           /\ recover_signer(e.tx) = Ok(e.signer)
           /\ e.signer \in Accounts /\ ActsFor(e.tx, e.signer)
<1>1. PICK raw \in NodeRaws : Recovered[raw].ok /\ e = Recovered[raw].val
  BY DEF PoolTxs
<1> DEFINE d == decode_2718_exact(raw)
           r == recover_signer(d.val)
<1>2. PoolTransaction(d).ok /\ e = PoolTransaction(d).val
  BY <1>1 DEF Recovered
<1> HIDE DEF d
<1>3. d.ok /\ r.ok /\ PoolTransaction(d) = Ok([tx |-> d.val, signer |-> r.val])
  BY <1>2 DEF PoolTransaction
<1>4. e.tx = d.val /\ e.signer = r.val
  BY <1>2, <1>3 DEF Ok
<1>5. d.val \in DecodedTxs /\ encode_2718(d.val) \in MinedRaws
  BY <1>3, NodeAssumption DEF d, DecodedTxs, MinedRaws
<1>6. r = Recover("engine", d.val)
  BY DEF Recover
<1>7. r.val \in Accounts /\ ActsFor(d.val, r.val)
  BY <1>3, <1>5, <1>6, RecoverFacts
<1>8. r = Ok(r.val)
  <2>1. CASE IsCosmos(d.val)
    <3>1. r = CosmosVerify(d.val)
      BY <2>1 DEF recover_signer
    <3>2. r = Ok(d.val.operation.sender)
      BY <1>3, <3>1, VerifyAuthorizes DEF CosmosVerify
    <3> QED
      BY <3>2 DEF Ok
  <2>2. CASE ~IsCosmos(d.val)
    <3>1. r = EthereumRecover(d.val.tx, TRUE)
      BY <2>2 DEF recover_signer
    <3>2. r = Ok(d.val.tx.signer)
      BY <1>3, <3>1 DEF EthereumRecover, Err
    <3> QED
      BY <3>2 DEF Ok
  <2> QED
    BY <2>1, <2>2
<1> QED
  BY <1>4, <1>5, <1>7, <1>8

\* The environment of a pool transaction is the one the engine gives it: its cached
\* sender is the one recovered anew.
LEMMA PoolEnvFacts ==
    ASSUME NEW e \in PoolTxs
    PROVE  /\ EnvOf(e).ok /\ GoodEnv(EnvOf(e).val) /\ EnvOf(e).val.caller = e.signer
           /\ EnvOf(e).val.nonce = Fields(e.tx).nonce
<1>1. e.tx \in DecodedTxs /\ e.signer \in Accounts /\ ActsFor(e.tx, e.signer)
  BY PoolTxFacts
<1> DEFINE f == Fields(e.tx)
<1>2. ChainFields(f)
  BY <1>1, TxFields
<1>3. IsCosmos(e.tx) => e.signer = e.tx.operation.sender
  BY <1>1 DEF ActsFor
<1>4. EnvOf(e) = Ok([tx_type |-> IF IsCosmos(e.tx) THEN 2 ELSE ty(e.tx), caller |-> e.signer,
             gas_limit |-> f.gas_limit, gas_price |-> f.max_fee_per_gas, to |-> f.to,
             value |-> f.value, data |-> f.input, nonce |-> f.nonce,
             gas_priority_fee |-> f.max_priority_fee_per_gas])
  BY <1>3 DEF EnvOf, from_recovered_tx
<1> HIDE DEF f
<1>5. /\ EnvOf(e).ok /\ EnvOf(e).val.caller = e.signer /\ EnvOf(e).val.nonce = f.nonce
      /\ EnvOf(e).val.to = f.to /\ EnvOf(e).val.value = f.value
      /\ EnvOf(e).val.gas_limit = f.gas_limit /\ EnvOf(e).val.gas_price = f.max_fee_per_gas
      /\ EnvOf(e).val.data = f.input
      /\ EnvOf(e).val.gas_priority_fee = f.max_priority_fee_per_gas
  BY <1>4 DEF Ok
<1> QED
  BY <1>1, <1>2, <1>5 DEF GoodEnv, ChainFields, f

\* What one transaction takes of the gas of its block.
LEMMA BuildableGas ==
    ASSUME NEW e \in PoolTxs, NEW w, NEW gas \in Nat, Buildable(e, w, gas)
    PROVE  LET used == GasUsed(EnvOf(e).val) IN
           used \in Nat /\ MIN_GAS <= used /\ gas + used <= BLOCK_GAS
<1> DEFINE env == EnvOf(e).val
<1>1. GoodEnv(env) /\ ValidationError(env, w, BASE_FEE, BLOCK_GAS - gas) = "none"
  BY PoolEnvFacts DEF Buildable
<1> HIDE DEF env
<1>2. ~ (env.gas_limit > BLOCK_GAS - gas) /\ ~ (env.gas_limit < IntrinsicGas(env))
  BY <1>1 DEF ValidationError
<1>3. env.gas_limit \in Nat /\ env.data \in Nat /\ BLOCK_GAS \in Nat
  BY <1>1, ChainAssumption DEF GoodEnv
<1>4. IntrinsicGas(env) \in Nat /\ MIN_GAS <= IntrinsicGas(env) /\ MIN_GAS \in Nat
  BY <1>3 DEF IntrinsicGas, MIN_GAS
<1>5. CallGas(env) \in Nat /\ IntrinsicGas(env) <= CallGas(env)
  BY <1>4, EvmAssumption DEF CallGas
<1>6. /\ GasUsed(env) \in Nat /\ GasUsed(env) <= env.gas_limit
      /\ IntrinsicGas(env) <= GasUsed(env)
  BY <1>2, <1>3, <1>4, <1>5 DEF GasUsed
<1>7. MIN_GAS <= GasUsed(env) /\ gas + GasUsed(env) <= BLOCK_GAS
  BY <1>2, <1>3, <1>4, <1>6
<1> QED
  BY <1>6, <1>7 DEF env

\* The engine's attempt at the encoding of a transaction the builder could execute.
LEMMA EngineAgrees ==
    ASSUME NEW e \in PoolTxs, NEW w, NEW gas, Buildable(e, w, gas)
    PROVE  Attempt("engine", encode_2718(e.tx), w, BASE_FEE, gas)
             = Ok([tx |-> e.tx, env |-> EnvOf(e).val])
<1>1. e.tx \in DecodedTxs /\ recover_signer(e.tx) = Ok(e.signer)
  BY PoolTxFacts
<1>2. decode_2718_exact(encode_2718(e.tx)) = Ok(e.tx)
  BY <1>1, EncodingReturns
<1>3. Recover("engine", e.tx) = Ok(e.signer)
  BY <1>1 DEF Recover
<1>4. EnvOf(e).ok /\ ValidationError(EnvOf(e).val, w, BASE_FEE, BLOCK_GAS - gas) = "none"
  BY DEF Buildable
<1>5. from_recovered_tx(e.tx, e.signer) = EnvOf(e)
  BY DEF EnvOf
<1>6. \A v : Ok(v).ok /\ Ok(v).val = v
  BY DEF Ok
<1>7. AttemptDecoded("engine", Ok(e.tx), w, BASE_FEE, gas)
        = Ok([tx |-> e.tx, env |-> EnvOf(e).val])
  BY <1>3, <1>4, <1>5, <1>6 DEF AttemptDecoded
<1> QED
  BY <1>2, <1>7 DEF Attempt

----------------------------------------------------------------------------
(* Builder and engine in step                                                *)

BuiltBlocks == [txs : Seq(DecodedTxs), callers : Seq(Accounts), receipts : Seq(Receipts),
                gas : Nat, world : Worlds, sealed : BOOLEAN]

\* Transaction i of b takes the state from w to v and the gas from g to h.
Step(b, i, w, g, v, h) ==
    \E e \in PoolTxs :
        /\ b.txs[i] = e.tx /\ b.callers[i] = e.signer
        /\ Buildable(e, w, g)
        /\ v = Applied(EnvOf(e).val, w, BASE_FEE) /\ h = g + GasUsed(EnvOf(e).val)
        /\ b.receipts[i] = build_receipt(e.tx, EnvOf(e).val, h)

\* The states ws and the gas gs through which the builder came from w to the block b.
Traced(b, w, ws, gs) ==
    LET n == Len(b.txs) IN
    /\ b \in BuiltBlocks /\ Len(b.callers) = n /\ Len(b.receipts) = n
    /\ ws \in [0 .. n -> Worlds] /\ gs \in [0 .. n -> Nat]
    /\ ws[0] = w /\ gs[0] = 0 /\ ws[n] = b.world /\ gs[n] = b.gas
    /\ \A i \in 1 .. n : Step(b, i, ws[i - 1], gs[i - 1], ws[i], gs[i])
    /\ n * MIN_GAS <= b.gas /\ b.gas <= BLOCK_GAS

\* The payload of b.
PayloadOf(b) ==
    [txs |-> [i \in 1 .. Len(b.txs) |-> encode_2718(b.txs[i])],
     base_fee |-> BASE_FEE, header_ok |-> TRUE, roots_ok |-> TRUE]

\* The engine's job j has come part of that way.
Follows(j, b, ws, gs) ==
    LET k == Len(j.txs) IN
    /\ j.path = "engine" /\ j.block = PayloadOf(b) /\ k <= Len(b.txs)
    /\ j.world = ws[k] /\ j.gas = gs[k]
    /\ \A i \in 1 .. k : /\ j.txs[i] = b.txs[i] /\ j.callers[i] = b.callers[i]
                         /\ j.receipts[i] = b.receipts[i]

\* The miner's round and the engine's job.
InStep ==
    \E ws, gs : Traced(built, world, ws, gs) /\ (Busy => Follows(job, built, ws, gs))

RoundInv ==
    /\ built # NoBlock => mode = "node" /\ InStep
    /\ Busy => built.txs # <<>> /\ built.sealed

NInv ==
    /\ pool \subseteq PoolTxs
    /\ mode \in {"down", "node"}
    /\ mode = "node" => spec = GENESIS_HASH
    /\ client.phase \in {"signed", "read", "sending", "polling", "verifying"}
         => client.raw \in ClientRaws
    /\ late \subseteq ClientRaws
    /\ RoundInv

LEMMA TracedStart ==
    ASSUME NEW w \in Worlds, NEW b, b = [txs |-> <<>>, callers |-> <<>>, receipts |-> <<>>,
                                         gas |-> 0, world |-> w, sealed |-> FALSE]
    PROVE  \E ws, gs : Traced(b, w, ws, gs)
<1> DEFINE ws == [i \in 0 .. 0 |-> w]
           gs == [i \in 0 .. 0 |-> 0]
<1>1. /\ b \in BuiltBlocks /\ Len(b.txs) = 0 /\ Len(b.callers) = 0 /\ Len(b.receipts) = 0
      /\ b.world = w /\ b.gas = 0
  BY DEF BuiltBlocks
<1>2. /\ ws \in [0 .. 0 -> Worlds] /\ gs \in [0 .. 0 -> Nat]
      /\ ws[0] = w /\ gs[0] = 0
  OBVIOUS
<1>3. 0 * MIN_GAS = 0 /\ 0 <= BLOCK_GAS
  BY ChainAssumption DEF MIN_GAS
<1> HIDE DEF ws, gs
<1>4. Traced(b, w, ws, gs)
  BY <1>1, <1>2, <1>3 DEF Traced
<1> QED
  BY <1>4

\* The block b with one more transaction.
Extended(b, e) ==
    LET env == EnvOf(e).val
        gas == b.gas + GasUsed(env)
    IN  [b EXCEPT !.txs = Append(@, e.tx), !.callers = Append(@, e.signer),
                  !.receipts = Append(@, build_receipt(e.tx, env, gas)),
                  !.gas = gas, !.world = Applied(env, @, BASE_FEE)]

LEMMA Appended ==
    ASSUME NEW S, NEW s \in Seq(S), NEW x \in S
    PROVE  /\ Append(s, x) \in Seq(S) /\ Len(Append(s, x)) = Len(s) + 1
           /\ Append(s, x)[Len(s) + 1] = x
           /\ \A i \in 1 .. Len(s) : Append(s, x)[i] = s[i]
  OBVIOUS

LEMMA TracedNext ==
    ASSUME NEW b, NEW w, NEW ws, NEW gs, Traced(b, w, ws, gs), NEW e \in PoolTxs,
           Buildable(e, b.world, b.gas), NEW c, c = Extended(b, e)
    PROVE  \E vs, hs : Traced(c, w, vs, hs)
<1> DEFINE n == Len(b.txs)
           env == EnvOf(e).val
           gas == b.gas + GasUsed(env)
           v == Applied(env, b.world, BASE_FEE)
           r == build_receipt(e.tx, env, gas)
<1>1. /\ b \in BuiltBlocks /\ Len(b.callers) = n /\ Len(b.receipts) = n
      /\ ws \in [0 .. n -> Worlds] /\ gs \in [0 .. n -> Nat]
      /\ ws[0] = w /\ gs[0] = 0 /\ ws[n] = b.world /\ gs[n] = b.gas
      /\ \A i \in 1 .. n : Step(b, i, ws[i - 1], gs[i - 1], ws[i], gs[i])
      /\ n * MIN_GAS <= b.gas /\ b.gas <= BLOCK_GAS
  BY DEF Traced
<1>2. /\ b.txs \in Seq(DecodedTxs) /\ b.callers \in Seq(Accounts)
      /\ b.receipts \in Seq(Receipts) /\ b.gas \in Nat /\ b.world \in Worlds /\ n \in Nat
  BY <1>1 DEF BuiltBlocks
<1>3. e.tx \in DecodedTxs /\ e.signer \in Accounts
  BY PoolTxFacts
<1>4. GoodEnv(env)
  BY PoolEnvFacts
<1>5. v \in Worlds
  BY <1>2, <1>4, AppliedFacts, NodeAssumption
<1>6. GasUsed(env) \in Nat /\ MIN_GAS <= GasUsed(env) /\ gas <= BLOCK_GAS
  BY <1>2, BuildableGas
<1> HIDE DEF env
<1>7. gas \in Nat /\ gas = b.gas + GasUsed(env)
  BY <1>2, <1>6
<1> HIDE DEF gas
<1>8. r \in Receipts
  <2>1. ty(e.tx) \in EthereumTypes \cup {TX_TYPE}
    BY <1>3, TxFields
  <2>2. Succeeds(env) \in BOOLEAN
    BY DEF Succeeds
  <2> QED
    BY <1>7, <2>1, <2>2 DEF build_receipt, Receipts
<1> HIDE DEF v, r
<1>9. /\ c \in BuiltBlocks /\ c.txs = Append(b.txs, e.tx) /\ c.callers = Append(b.callers, e.signer)
      /\ c.receipts = Append(b.receipts, r) /\ c.gas = gas /\ c.world = v
  <2>1. /\ Append(b.txs, e.tx) \in Seq(DecodedTxs) /\ Append(b.callers, e.signer) \in Seq(Accounts)
        /\ Append(b.receipts, r) \in Seq(Receipts)
    BY <1>2, <1>3, <1>8
  <2>2. /\ c.txs = Append(b.txs, e.tx) /\ c.callers = Append(b.callers, e.signer)
        /\ c.receipts = Append(b.receipts, r) /\ c.gas = gas /\ c.world = v
        /\ c.sealed = b.sealed
        /\ c = [txs |-> c.txs, callers |-> c.callers, receipts |-> c.receipts, gas |-> c.gas,
                world |-> c.world, sealed |-> c.sealed]
    BY <1>1 DEF BuiltBlocks, Extended, env, gas, v, r
  <2>3. b.sealed \in BOOLEAN
    BY <1>1 DEF BuiltBlocks
  <2> QED
    BY <1>5, <1>7, <2>1, <2>2, <2>3 DEF BuiltBlocks
<1>10. /\ Len(c.txs) = n + 1 /\ Len(c.callers) = n + 1 /\ Len(c.receipts) = n + 1
       /\ c.txs[n + 1] = e.tx /\ c.callers[n + 1] = e.signer /\ c.receipts[n + 1] = r
       /\ \A i \in 1 .. n : /\ c.txs[i] = b.txs[i] /\ c.callers[i] = b.callers[i]
                            /\ c.receipts[i] = b.receipts[i]
  <2>1. Len(c.txs) = n + 1 /\ c.txs[n + 1] = e.tx /\ \A i \in 1 .. n : c.txs[i] = b.txs[i]
    BY <1>2, <1>3, <1>9, Appended
  <2>2. /\ Len(c.callers) = n + 1 /\ c.callers[n + 1] = e.signer
        /\ \A i \in 1 .. n : c.callers[i] = b.callers[i]
    BY <1>1, <1>2, <1>3, <1>9, Appended
  <2>3. /\ Len(c.receipts) = n + 1 /\ c.receipts[n + 1] = r
        /\ \A i \in 1 .. n : c.receipts[i] = b.receipts[i]
    BY <1>1, <1>2, <1>8, <1>9, Appended
  <2> QED
    BY <2>1, <2>2, <2>3
<1> DEFINE vs == [i \in 0 .. n + 1 |-> IF i = n + 1 THEN v ELSE ws[i]]
           hs == [i \in 0 .. n + 1 |-> IF i = n + 1 THEN gas ELSE gs[i]]
<1> HIDE DEF n
<1>11. /\ vs \in [0 .. n + 1 -> Worlds] /\ hs \in [0 .. n + 1 -> Nat]
       /\ vs[n + 1] = v /\ hs[n + 1] = gas
       /\ \A i \in 0 .. n : vs[i] = ws[i] /\ hs[i] = gs[i]
  BY <1>1, <1>2, <1>5, <1>7
<1> HIDE DEF vs, hs
<1>12. ASSUME NEW i \in 1 .. n + 1 PROVE Step(c, i, vs[i - 1], hs[i - 1], vs[i], hs[i])
  <2>1. CASE i \in 1 .. n
    <3>1. i \in 0 .. n /\ i - 1 \in 0 .. n
      BY <1>2, <2>1
    <3>2. Step(b, i, ws[i - 1], gs[i - 1], ws[i], gs[i])
      BY <1>1, <2>1
    <3>3. Step(c, i, ws[i - 1], gs[i - 1], ws[i], gs[i])
      BY <1>10, <2>1, <3>2 DEF Step
    <3> QED
      BY <1>11, <3>1, <3>3
  <2>2. CASE i = n + 1
    <3>1. i - 1 = n /\ n \in 0 .. n
      BY <1>2, <2>2
    <3>2. vs[i - 1] = b.world /\ hs[i - 1] = b.gas /\ vs[i] = v /\ hs[i] = gas
      BY <1>1, <1>11, <2>2, <3>1
    <3>3. Step(c, i, b.world, b.gas, v, gas)
      BY <1>10, <1>7, <2>2 DEF Step, v, r, env
    <3> QED
      BY <3>2, <3>3
  <2> QED
    BY <1>2, <2>1, <2>2
<1>13. (n + 1) * MIN_GAS <= gas
  BY <1>1, <1>2, <1>6, <1>7 DEF MIN_GAS
<1>14. vs[0] = w /\ hs[0] = 0
  <2>1. 0 \in 0 .. n
    BY <1>2
  <2> QED
    BY <1>1, <1>11, <2>1
<1>15. Traced(c, w, vs, hs)
  BY <1>6, <1>9, <1>10, <1>11, <1>12, <1>13, <1>14 DEF Traced
<1> QED
  BY <1>15

\* The builder's block is one the miner may make.
LEMMA PayloadIsMined ==
    ASSUME NEW b, NEW w, NEW ws, NEW gs, Traced(b, w, ws, gs), b.txs # <<>>
    PROVE  PayloadOf(b) \in Blocks
<1> DEFINE n == Len(b.txs)
           txs == [i \in 1 .. n |-> encode_2718(b.txs[i])]
<1>1. /\ b.txs \in Seq(DecodedTxs) /\ b.gas \in Nat /\ n \in Nat /\ n * MIN_GAS <= b.gas
      /\ b.gas <= BLOCK_GAS
      /\ \A i \in 1 .. n : Step(b, i, ws[i - 1], gs[i - 1], ws[i], gs[i])
  BY DEF Traced, BuiltBlocks
<1>2. n # 0
  BY <1>1
<1>3. \A i \in 1 .. n : encode_2718(b.txs[i]) \in MinedRaws
  BY <1>1, PoolTxFacts DEF Step
<1> HIDE DEF n
<1>4. n \in 1 .. BLOCK_GAS \div MIN_GAS
  BY <1>1, <1>2, ChainAssumption DEF MIN_GAS
<1>5. txs \in [1 .. n -> MinedRaws]
  BY <1>3
<1>6. PayloadOf(b) = [txs |-> txs, base_fee |-> BASE_FEE, header_ok |-> TRUE, roots_ok |-> TRUE]
  BY DEF PayloadOf, n
<1> HIDE DEF txs
<1>7. PayloadOf(b) \in MinedBlocks
  BY <1>4, <1>5, <1>6 DEF MinedBlocks
<1> QED
  BY <1>7, NodeAssumption

\* The engine's next transaction, at place i, is e, and goes as it went for the builder.
Agrees(e, i, ws, gs) ==
    /\ NextAttempt = Ok([tx |-> e.tx, env |-> EnvOf(e).val])
    /\ built.txs[i] = e.tx /\ built.callers[i] = EnvOf(e).val.caller
    /\ ws[i] = Applied(EnvOf(e).val, job.world, BASE_FEE)
    /\ gs[i] = job.gas + GasUsed(EnvOf(e).val)
    /\ built.receipts[i] = build_receipt(e.tx, EnvOf(e).val, gs[i])

\* The engine's next transaction is the one the builder executed at that place, and goes
\* as it went there.
LEMMA NextAgrees ==
    ASSUME NEW ws, NEW gs, Traced(built, world, ws, gs), Follows(job, built, ws, gs),
           Len(job.txs) \in Nat, Len(job.txs) < Len(built.txs)
    PROVE  \E e \in PoolTxs : Agrees(e, Len(job.txs) + 1, ws, gs)
<1> DEFINE k == Len(job.txs)
<1>1. k + 1 \in 1 .. Len(built.txs) /\ (k + 1) - 1 = k
  BY DEF Traced, BuiltBlocks
<1>2. Step(built, k + 1, ws[k], gs[k], ws[k + 1], gs[k + 1])
  BY <1>1 DEF Traced
<1>3. /\ job.path = "engine" /\ job.block = PayloadOf(built) /\ job.world = ws[k]
      /\ job.gas = gs[k]
  BY DEF Follows
<1>4. PICK e \in PoolTxs :
        /\ built.txs[k + 1] = e.tx /\ built.callers[k + 1] = e.signer
        /\ Buildable(e, ws[k], gs[k])
        /\ ws[k + 1] = Applied(EnvOf(e).val, ws[k], BASE_FEE)
        /\ gs[k + 1] = gs[k] + GasUsed(EnvOf(e).val)
        /\ built.receipts[k + 1] = build_receipt(e.tx, EnvOf(e).val, gs[k + 1])
  BY <1>2 DEF Step
<1>5. NextRaw = encode_2718(e.tx) /\ job.block.base_fee = BASE_FEE
  BY <1>1, <1>3, <1>4 DEF NextRaw, PayloadOf
<1>6. NextAttempt = Ok([tx |-> e.tx, env |-> EnvOf(e).val])
  BY <1>3, <1>4, <1>5, EngineAgrees DEF NextAttempt
<1>7. EnvOf(e).val.caller = e.signer
  BY PoolEnvFacts
<1> QED
  BY <1>3, <1>4, <1>6, <1>7 DEF Agrees

----------------------------------------------------------------------------
(* One step per action                                                       *)

\* The miner, the pool and the client move the chain only as CosmosChain allows.
LEMMA NodeStepIsChainStep ==
    ASSUME IInv, NInv, [NodeNext]_allvars PROVE [Next]_vars
<1>1. CASE UNCHANGED vars
  BY <1>1
<1>2. CASE Boot \/ Stop \/ Engine \/ Store
  BY <1>2 DEF Boot, Stop, Engine, Store, Next
<1>3. CASE SubmitBuilt
  <2>1. built # NoBlock /\ built.txs # <<>> /\ Submit(PayloadOf(built))
    BY <1>3 DEF SubmitBuilt, PayloadOf
  <2>2. PICK ws, gs : Traced(built, world, ws, gs)
    BY <2>1 DEF NInv, RoundInv, InStep
  <2>3. PayloadOf(built) \in Blocks
    BY <2>1, <2>2, PayloadIsMined
  <2> QED
    BY <2>1, <2>3 DEF Next
<1>4. \/ UNCHANGED vars \/ Boot \/ Stop \/ Engine \/ Store \/ SubmitBuilt
  BY DEF NodeNext, allvars, SendOther, Maintain, StartBuild, BuildTx, ReadNonce, ReadBalance,
         ReadToBalance, Send, LoseCall, LateCall, Poll, Verify, TimeOut
<1> QED
  BY <1>1, <1>2, <1>3, <1>4

\* A step that leaves the chain and the miner alone.
LEMMA RoundSame ==
    ASSUME RoundInv, UNCHANGED <<mode, worlds, job, built>> PROVE RoundInv'
<1>1. world' = world /\ (Busy' <=> Busy)
  BY DEF world, Busy
<1>2. InStep => InStep'
  BY <1>1 DEF InStep
<1> QED
  BY <1>1, <1>2 DEF RoundInv

LEMMA RoundOver ==
    ASSUME job' = NoJob, built' = NoBlock PROVE RoundInv'
  BY DEF RoundInv, Busy, NoJob

LEMMA StartBuildKeeps ==
    ASSUME IInv, RoundInv, StartBuild PROVE RoundInv'
<1>1. ~Busy' /\ mode' = "node" /\ world' = world /\ built' = EmptyBlock
  BY DEF StartBuild, Answering, Busy, vars, world
<1>2. world \in Worlds
  BY DEF IInv, TypeOK, world
<1>3. \E ws, gs : Traced(built', world, ws, gs)
  BY <1>1, <1>2, TracedStart DEF EmptyBlock
<1> QED
  BY <1>1, <1>3 DEF RoundInv, InStep

LEMMA BuildTxKeeps ==
    ASSUME RoundInv, pool \subseteq PoolTxs, NEW e \in pool, BuildTx(e) PROVE RoundInv'
<1>1. /\ built # NoBlock /\ ~built.sealed /\ Buildable(e, built.world, built.gas)
      /\ built' = Extended(built, e) /\ UNCHANGED vars
  BY DEF BuildTx, Extended
<1>2. ~Busy /\ ~Busy' /\ mode' = mode /\ world' = world
  BY <1>1 DEF RoundInv, Busy, vars, world
<1>3. mode = "node" /\ \E ws, gs : Traced(built, world, ws, gs)
  BY <1>1 DEF RoundInv, InStep
<1>4. \E vs, hs : Traced(built', world, vs, hs)
  BY <1>1, <1>3, TracedNext
<1> QED
  BY <1>2, <1>3, <1>4 DEF RoundInv, InStep

LEMMA SubmitBuiltKeeps ==
    ASSUME RoundInv, SubmitBuilt PROVE RoundInv'
<1>1. /\ built # NoBlock /\ ~built.sealed /\ built.txs # <<>> /\ Submit(PayloadOf(built))
      /\ built' = [built EXCEPT !.sealed = TRUE]
  BY DEF SubmitBuilt, PayloadOf
<1>2. PICK ws, gs : Traced(built, world, ws, gs)
  BY <1>1 DEF RoundInv, InStep
<1>3. /\ built \in BuiltBlocks /\ ws[0] = world /\ gs[0] = 0 /\ Len(built.txs) \in Nat
  BY <1>2 DEF Traced, BuiltBlocks
<1>4. /\ built' \in BuiltBlocks /\ built'.txs = built.txs /\ built'.callers = built.callers
      /\ built'.receipts = built.receipts /\ built'.gas = built.gas
      /\ built'.world = built.world /\ built'.sealed = TRUE
  BY <1>1, <1>3 DEF BuiltBlocks
<1>5. /\ mode = "node" /\ mode' = mode /\ worlds' = worlds
      /\ job'.path = "engine" /\ job'.block = PayloadOf(built) /\ job'.txs = <<>>
      /\ job'.gas = 0 /\ job'.world = world
  BY <1>1 DEF Submit, RoundInv
<1>6. world' = world /\ PayloadOf(built') = PayloadOf(built) /\ Len(job'.txs) = 0
  BY <1>4, <1>5 DEF world, PayloadOf
<1>7. Traced(built', world', ws, gs)
  <2>1. \A i, w, g, v, h : Step(built, i, w, g, v, h) => Step(built', i, w, g, v, h)
    BY <1>4 DEF Step
  <2> QED
    BY <1>2, <1>4, <1>6, <2>1 DEF Traced
<1>8. Follows(job', built', ws, gs)
  BY <1>3, <1>4, <1>5, <1>6 DEF Follows
<1> QED
  BY <1>1, <1>4, <1>5, <1>7, <1>8 DEF RoundInv, InStep

LEMMA EngineValidateKeeps ==
    ASSUME IInv, RoundInv, Validate, built' = built PROVE RoundInv'
<1>0. Busy /\ job \in Jobs
  BY BusyJob DEF IInv, Validate
<1>1. /\ job'.txs = job.txs /\ job'.callers = job.callers /\ job'.receipts = job.receipts
      /\ job'.world = job.world /\ job'.block = job.block /\ job'.path = job.path
      /\ job'.gas = job.gas /\ mode' = mode /\ worlds' = worlds
  BY <1>0 DEF Validate, Jobs
<1>2. world' = world /\ Busy'
  BY <1>0, <1>1 DEF world, Busy
<1>3. \A ws, gs : Follows(job, built, ws, gs) => Follows(job', built, ws, gs)
  BY <1>1 DEF Follows
<1>4. InStep => InStep'
  BY <1>0, <1>1, <1>2, <1>3 DEF InStep
<1> QED
  BY <1>0, <1>1, <1>4 DEF RoundInv

LEMMA EngineExecuteKeeps ==
    ASSUME IInv, RoundInv, ExecuteNext, built' = built PROVE RoundInv'
<1>0. Busy /\ job \in Jobs /\ Len(job.txs) < Len(job.block.txs)
  BY BusyJob DEF IInv, ExecuteNext, Ready
<1>1. built.txs # <<>> /\ built.sealed
  BY <1>0 DEF RoundInv
<1>2. built # NoBlock
  BY <1>1 DEF NoBlock
<1>3. PICK ws, gs : Traced(built, world, ws, gs) /\ Follows(job, built, ws, gs)
  BY <1>0, <1>2 DEF RoundInv, InStep
<1> DEFINE k == Len(job.txs)
<1>4. /\ k \in Nat /\ Len(job.callers) = k /\ Len(job.receipts) = k
      /\ job.txs \in Seq(DecodedTxs) /\ job.callers \in Seq(Accounts)
      /\ job.receipts \in Seq(Receipts)
  BY <1>0, BusyJob DEF IInv, Jobs
<1>5. Len(job.block.txs) = Len(built.txs) /\ Len(built.txs) \in Nat
  <2>1. Len(built.txs) \in Nat
    BY <1>3 DEF Traced, BuiltBlocks
  <2> QED
    BY <1>3, <2>1 DEF Follows, PayloadOf
<1>6. PICK e \in PoolTxs : Agrees(e, k + 1, ws, gs)
  <2>1. Len(job.txs) \in Nat /\ Len(job.txs) < Len(built.txs)
    BY <1>0, <1>4, <1>5
  <2> QED
    BY <1>3, <2>1, NextAgrees
<1> DEFINE env == EnvOf(e).val
           r == build_receipt(e.tx, env, gs[k + 1])
<1>7. NextAttempt.val.tx = e.tx /\ NextAttempt.val.env = env /\ job.block.base_fee = BASE_FEE
  BY <1>3, <1>6 DEF Agrees, Ok, Follows, PayloadOf
<1>8. /\ job'.txs = Append(job.txs, e.tx) /\ job'.callers = Append(job.callers, env.caller)
      /\ job'.receipts = Append(job.receipts, r) /\ job'.gas = gs[k + 1]
      /\ job'.world = ws[k + 1] /\ job'.block = job.block /\ job'.path = job.path
      /\ mode' = mode /\ worlds' = worlds
  BY <1>0, <1>6, <1>7 DEF Agrees, ExecuteNext, Jobs
<1>9. e.tx \in DecodedTxs /\ env.caller \in Accounts
  BY PoolTxFacts, PoolEnvFacts
<1>10. r \in Receipts
  <2>1. /\ built \in BuiltBlocks /\ k + 1 \in 1 .. Len(built.receipts)
    BY <1>0, <1>3, <1>4, <1>5 DEF Traced
  <2>2. built.receipts \in Seq(Receipts)
    BY <2>1 DEF BuiltBlocks
  <2>3. built.receipts[k + 1] \in Receipts
    BY <2>1, <2>2
  <2> QED
    BY <1>6, <2>3 DEF Agrees
<1> HIDE DEF env, r, k
<1>11. /\ Len(job'.txs) = k + 1 /\ job'.txs[k + 1] = e.tx
       /\ \A i \in 1 .. k : job'.txs[i] = job.txs[i]
  BY <1>4, <1>8, <1>9, Appended DEF k
<1>12. /\ job'.callers[k + 1] = env.caller
       /\ \A i \in 1 .. k : job'.callers[i] = job.callers[i]
  BY <1>4, <1>8, <1>9, Appended
<1>13. /\ job'.receipts[k + 1] = r
       /\ \A i \in 1 .. k : job'.receipts[i] = job.receipts[i]
  BY <1>4, <1>8, <1>10, Appended
<1>14. \A i \in 1 .. k : /\ job.txs[i] = built.txs[i] /\ job.callers[i] = built.callers[i]
                         /\ job.receipts[i] = built.receipts[i]
  BY <1>3 DEF Follows, k
<1>15. ASSUME NEW i \in 1 .. k + 1
       PROVE  /\ job'.txs[i] = built.txs[i] /\ job'.callers[i] = built.callers[i]
              /\ job'.receipts[i] = built.receipts[i]
  <2>1. CASE i = k + 1
    BY <1>6, <1>11, <1>12, <1>13, <2>1 DEF Agrees, env, r
  <2>2. CASE i \in 1 .. k
    BY <1>11, <1>12, <1>13, <1>14, <2>2
  <2> QED
    BY <1>4, <2>1, <2>2
<1>16. k + 1 <= Len(built.txs)
  BY <1>0, <1>4, <1>5 DEF k
<1>17. Follows(job', built', ws, gs)
  BY <1>3, <1>8, <1>11, <1>15, <1>16 DEF Follows
<1>18. Busy' /\ world' = world
  BY <1>0, <1>8 DEF Busy, world
<1>19. InStep'
  BY <1>3, <1>17, <1>18 DEF InStep
<1> QED
  BY <1>1, <1>2, <1>8, <1>19 DEF RoundInv

\* The steps that change the pool, and those that change what is on its way there.
LEMMA PoolSteps ==
    ASSUME [NodeNext]_allvars
    PROVE  /\ \/ pool' = pool \/ (\E raw \in OtherRaws : SendOther(raw)) \/ Send \/ Maintain
              \/ Stop \/ \E raw \in late : LateCall(raw)
           /\ \/ late' = late \/ Stop \/ LoseCall \/ \E raw \in late : LateCall(raw)
<1> QED
  BY DEF NodeNext, allvars, nodevars, Boot, StartBuild, BuildTx, SubmitBuilt, Engine, Store,
         SendOther, Maintain, ReadNonce, ReadBalance, ReadToBalance, Send, LoseCall, Poll,
         Verify, TimeOut

\* The pool holds nothing but what was recovered from a submitted string.
LEMMA PoolKept ==
    ASSUME NInv, [NodeNext]_allvars PROVE pool' \subseteq PoolTxs
<1>0. pool \subseteq PoolTxs
  BY DEF NInv
<1>1. ASSUME NEW raw \in NodeRaws, Recovered[raw].ok
      PROVE  With(Recovered[raw].val) \subseteq PoolTxs
  BY <1>0, <1>1 DEF With, PoolTxs
<1>2. CASE \E raw \in OtherRaws : SendOther(raw)
  <2>1. PICK raw \in OtherRaws : Recovered[raw].ok /\ pool' = With(Recovered[raw].val)
    BY <1>2 DEF SendOther, Admitted
  <2> QED
    BY <1>1, <2>1 DEF NodeRaws
<1>3. CASE Send
  <2>1. client.raw \in NodeRaws
    BY <1>3 DEF Send, NInv, NodeRaws
  <2>2. pool' = pool \/ (Recovered[client.raw].ok /\ pool' = With(Recovered[client.raw].val))
    BY <1>3 DEF Send, Admitted
  <2> QED
    BY <1>0, <1>1, <2>1, <2>2
<1>4. CASE Maintain \/ Stop
  BY <1>0, <1>4 DEF Maintain, Stop
<1>5. CASE \E raw \in late : LateCall(raw)
  <2>1. PICK raw \in late : LateCall(raw)
    BY <1>5
  <2>2. raw \in NodeRaws
    BY DEF NInv, NodeRaws
  <2>3. pool' = pool \/ (Recovered[raw].ok /\ pool' = With(Recovered[raw].val))
    BY <2>1 DEF LateCall, Admitted
  <2> QED
    BY <1>0, <1>1, <2>2, <2>3
<1>6. \/ pool' = pool \/ (\E raw \in OtherRaws : SendOther(raw)) \/ Send \/ Maintain \/ Stop
      \/ \E raw \in late : LateCall(raw)
  BY PoolSteps
<1> QED
  BY <1>0, <1>2, <1>3, <1>4, <1>5, <1>6

\* The client works on one of its own transactions.
Working == {"signed", "read", "sending", "polling", "verifying"}

\* The steps that change the client.
LEMMA ClientSteps ==
    ASSUME [NodeNext]_allvars
    PROVE  \/ client' = client \/ (\E raw \in ClientRaws : ReadNonce(raw)) \/ ReadBalance
           \/ (\E calls \in {1, 2} : ReadToBalance(calls)) \/ TimeOut \/ Send \/ LoseCall
           \/ Poll \/ Verify
<1> QED
  BY DEF NodeNext, allvars, nodevars, Boot, Stop, StartBuild, BuildTx, SubmitBuilt, Engine,
         Store, SendOther, Maintain, LateCall

\* What a call's result makes of the client.
LEMMA SettleKinds ==
    ASSUME NEW r, Settle(r)
    PROVE  \/ client' = [client EXCEPT !.calls = @ - 1, !.results = client.results \cup {r}]
           \/ /\ client' = [phase |-> "polling", raw |-> client.raw, polls |-> 0,
                             before |-> client.before, toBefore |-> client.toBefore]
              /\ "fulfilled" \in client.results \cup {r}
           \/ client'.phase \in {"refused", "threw"}
           \/ /\ client' = Ended("failed") /\ "fulfilled" \in client.results \cup {r}
              /\ tx_hash(Recovered[client.raw].val.tx) # transaction_hash(client.raw)
  BY DEF Settle, Ended

LEMMA ClientKept ==
    ASSUME NInv, [NodeNext]_allvars
    PROVE  client'.phase \in Working => client'.raw \in ClientRaws
<1>0. client.phase \in Working => client.raw \in ClientRaws
  BY DEF NInv, Working
<1>1. \A how \in {"ok", "threw", "failed"} : Ended(how).phase \notin Working
  BY DEF Ended, Working
<1>2. CASE \E raw \in ClientRaws : ReadNonce(raw)
  BY <1>2 DEF ReadNonce
<1>3. CASE ReadBalance
  BY <1>0, <1>3 DEF ReadBalance, Working
<1>4. CASE \E calls \in {1, 2} : ReadToBalance(calls)
  BY <1>0, <1>4 DEF ReadToBalance, Working
<1>5. CASE TimeOut
  BY <1>0, <1>1, <1>5 DEF TimeOut
<1>6. CASE Send \/ LoseCall
  <2>1. client.raw \in ClientRaws
    BY <1>0, <1>6 DEF Send, LoseCall, Working
  <2>2. PICK r : Settle(r)
    BY <1>6 DEF Send, LoseCall
  <2> DEFINE more == [client EXCEPT !.calls = @ - 1, !.results = client.results \cup {r}]
             poll == [phase |-> "polling", raw |-> client.raw, polls |-> 0,
                      before |-> client.before, toBefore |-> client.toBefore]
  <2>3. \/ client' = more \/ client' = poll \/ client'.phase \in {"refused", "threw"}
        \/ client' = Ended("failed")
    BY <2>2, SettleKinds
  <2>4. poll.raw = client.raw /\ more.raw = client.raw
    OBVIOUS
  <2> HIDE DEF more, poll
  <2> QED
    BY <1>1, <2>1, <2>3, <2>4 DEF Working
<1>7. CASE Poll
  <2>1. client.raw \in ClientRaws
    BY <1>0, <1>7 DEF Poll, Working
  <2> DEFINE more == [client EXCEPT !.polls = @ + 1]
             ver(f) == [phase |-> "verifying", raw |-> client.raw, request |-> 1, fee |-> f,
                        before |-> client.before, toBefore |-> client.toBefore]
  <2>2. \/ client' = Ended("failed") \/ client' = Ended("threw") \/ client' = more
        \/ \E f : client' = ver(f)
    BY <1>7 DEF Poll
  <2>3. more.raw = client.raw /\ \A f : ver(f).raw = client.raw
    OBVIOUS
  <2> HIDE DEF more, ver
  <2> QED
    BY <1>1, <2>1, <2>2, <2>3
<1>8. CASE Verify
  <2>1. client.raw \in ClientRaws
    BY <1>0, <1>8 DEF Verify, Working
  <2> DEFINE more == [client EXCEPT !.request = @ + 1]
  <2>2. client' = Ended("failed") \/ client' = Ended("ok") \/ client' = more
    BY <1>8 DEF Verify
  <2>3. more.raw = client.raw
    OBVIOUS
  <2> HIDE DEF more
  <2> QED
    BY <1>1, <2>1, <2>2, <2>3
<1>9. CASE client' = client
  BY <1>0, <1>9
<1> QED
  BY <1>2, <1>3, <1>4, <1>5, <1>6, <1>7, <1>8, <1>9, ClientSteps

LEMMA LateKept ==
    ASSUME NInv, [NodeNext]_allvars PROVE late' \subseteq ClientRaws
<1>1. CASE LoseCall
  BY <1>1 DEF LoseCall, NInv
<1>2. CASE Stop \/ late' = late \/ \E raw \in late : LateCall(raw)
  BY <1>2 DEF Stop, LateCall, NInv
<1> QED
  BY <1>1, <1>2, PoolSteps

LEMMA RoundKept ==
    ASSUME IInv, NInv, [NodeNext]_allvars PROVE RoundInv'
<1> USE DEF NInv
<1>1. CASE Boot
  <2>1. mode = "down" /\ job = NoJob /\ job' = NoJob /\ built' = built
    BY <1>1 DEF Boot, StartNode, Open, IInv, DownEmpty, nodevars
  <2>2. built' = NoBlock
    BY <2>1 DEF RoundInv
  <2> QED
    BY <2>1, <2>2, RoundOver
<1>2. CASE Stop
  BY <1>2, RoundOver DEF Stop, Halt
<1>3. CASE StartBuild
  BY <1>3, StartBuildKeeps
<1>4. CASE \E e \in pool : BuildTx(e)
  BY <1>4, BuildTxKeeps
<1>5. CASE SubmitBuilt
  BY <1>5, SubmitBuiltKeeps
<1>6. CASE Engine
  <2>1. CASE Validate /\ UNCHANGED nodevars
    BY <2>1, EngineValidateKeeps DEF nodevars
  <2>2. CASE ExecuteNext /\ UNCHANGED nodevars
    BY <2>2, EngineExecuteKeeps DEF nodevars
  <2>3. CASE Commit /\ built' = NoBlock
    BY <2>3, RoundOver DEF Commit
  <2> QED
    BY <1>6, <2>1, <2>2, <2>3 DEF Engine
<1>7. CASE Store
  BY <1>7, RoundSame DEF Store, Persist, nodevars
<1>8. CASE UNCHANGED <<vars, built>>
  BY <1>8, RoundSame DEF vars
<1> QED
  BY <1>1, <1>2, <1>3, <1>4, <1>5, <1>6, <1>7, <1>8
     DEF NodeNext, allvars, nodevars, SendOther, Maintain, ReadNonce, ReadBalance,
         ReadToBalance, Send, LoseCall, LateCall, Poll, Verify, TimeOut

LEMMA NodeKept == IInv /\ NInv /\ [NodeNext]_allvars => (IInv /\ NInv)'
<1> SUFFICES ASSUME IInv, NInv, [NodeNext]_allvars PROVE (IInv /\ NInv)'
  OBVIOUS
<1>1. [Next]_vars
  BY NodeStepIsChainStep
<1>2. IInv'
  BY <1>1, NextKeeps
<1>3. /\ mode' \in {"down", "node"}
      /\ mode' = "node" => spec' = GENESIS_HASH
  <2>1. CASE Boot
    BY <2>1 DEF Boot, StartNode, Open
  <2>2. CASE Stop
    BY <2>2 DEF Stop, Halt
  <2>3. CASE mode' = mode /\ spec' = spec
    BY <2>3 DEF NInv
  <2>4. Boot \/ Stop \/ (mode' = mode /\ spec' = spec)
    BY DEF NodeNext, allvars, nodevars, vars, StartBuild, BuildTx, SubmitBuilt, Engine, Store,
           SendOther, Maintain, ReadNonce, ReadBalance, ReadToBalance, Send, LoseCall,
           LateCall, Poll, Verify, TimeOut, Submit, Validate, ExecuteNext, Commit, Persist
  <2> QED
    BY <2>1, <2>2, <2>3, <2>4
<1>4. pool' \subseteq PoolTxs
  BY PoolKept
<1>5. client'.phase \in Working => client'.raw \in ClientRaws
  BY ClientKept
<1>6. RoundInv'
  BY RoundKept
<1>7. late' \subseteq ClientRaws
  BY LateKept
<1> QED
  BY <1>2, <1>3, <1>4, <1>5, <1>6, <1>7 DEF NInv, Working

LEMMA NodeStarts == NodeInit => IInv /\ NInv
<1> SUFFICES ASSUME NodeInit PROVE IInv /\ NInv
  OBVIOUS
<1>1. IInv
  BY InitIInv DEF NodeInit
<1>2. RoundInv
  BY DEF NodeInit, Init, RoundInv, Busy, NoJob
<1>3. client.phase = "idle" /\ pool = {} /\ mode = "down" /\ late = {}
  BY DEF NodeInit, Init, Ended
<1> QED
  BY <1>1, <1>2, <1>3 DEF NInv

LEMMA NodeInvariance == NodeSpec => [](IInv /\ NInv)
  BY NodeStarts, NodeKept, PTL DEF NodeSpec

----------------------------------------------------------------------------
(* Theorems                                                                  *)

\* The node is a chain: whatever pool, miner, engine and client do, the chain they share
\* takes only steps of CosmosChain, so everything proved of every chain holds of it.
THEOREM NodeIsChain == NodeSpec => Spec
<1>1. NodeInit => Init
  BY DEF NodeInit
<1>2. IInv /\ NInv /\ [NodeNext]_allvars => [Next]_vars
  BY NodeStepIsChainStep
<1> QED
  BY <1>1, <1>2, NodeInvariance, PTL DEF NodeSpec, Spec

LEMMA JobPrefix ==
    ASSUME IInv, NInv, Busy
    PROVE  /\ job \in Jobs /\ Len(job.txs) \in Nat /\ mode = "node" /\ spec = GENESIS_HASH
           /\ \E ws, gs : Traced(built, world, ws, gs) /\ Follows(job, built, ws, gs)
<1>1. job \in Jobs
  BY BusyJob DEF IInv
<1>2. built.txs # <<>>
  BY DEF NInv, RoundInv
<1>3. built # NoBlock
  BY <1>2 DEF NoBlock
<1>4. mode = "node" /\ InStep
  BY <1>3 DEF NInv, RoundInv
<1> QED
  BY <1>1, <1>4 DEF Jobs, InStep, NInv

\* When the engine has executed the block, it has come to what the builder had.
LEMMA JobIsBuilt ==
    ASSUME IInv, NInv, Executed
    PROVE  /\ built # NoBlock /\ job.block.base_fee = BASE_FEE /\ job.txs = built.txs
           /\ job.callers = built.callers /\ job.receipts = built.receipts
           /\ job.world = built.world
<1>1. Busy /\ Len(job.txs) = Len(job.block.txs)
  BY DEF Executed
<1>2. PICK ws, gs : Traced(built, world, ws, gs) /\ Follows(job, built, ws, gs)
  BY <1>1, JobPrefix
<1> DEFINE n == Len(built.txs)
<1>3. /\ n \in Nat /\ job.block = PayloadOf(built) /\ Len(built.callers) = n
      /\ Len(built.receipts) = n /\ ws[n] = built.world /\ built.txs \in Seq(DecodedTxs)
      /\ built.callers \in Seq(Accounts) /\ built.receipts \in Seq(Receipts)
  BY <1>2 DEF Traced, BuiltBlocks, Follows
<1>4. Len(job.txs) = n /\ job.block.base_fee = BASE_FEE
  BY <1>1, <1>3 DEF PayloadOf
<1>5. /\ Len(job.callers) = n /\ Len(job.receipts) = n /\ job.txs \in Seq(DecodedTxs)
      /\ job.callers \in Seq(Accounts) /\ job.receipts \in Seq(Receipts)
  BY <1>1, <1>4, BusyJob DEF IInv, Jobs
<1>6. /\ job.world = ws[n]
      /\ \A i \in 1 .. n : /\ job.callers[i] = built.callers[i] /\ job.txs[i] = built.txs[i]
                           /\ job.receipts[i] = built.receipts[i]
  BY <1>2, <1>4 DEF Follows
<1>7. built # NoBlock
  BY <1>1 DEF NInv, RoundInv, NoBlock
<1>8. Len(built.txs) = n
  OBVIOUS
<1> HIDE DEF n
<1>9. job.callers = built.callers
  <2>1. Len(job.callers) = Len(built.callers)
        /\ \A i \in 1 .. Len(job.callers) : job.callers[i] = built.callers[i]
    BY <1>3, <1>5, <1>6
  <2> QED
    BY <1>3, <1>5, <2>1, SeqEqual
<1>10. job.receipts = built.receipts
  <2>1. Len(job.receipts) = Len(built.receipts)
        /\ \A i \in 1 .. Len(job.receipts) : job.receipts[i] = built.receipts[i]
    BY <1>3, <1>5, <1>6
  <2> QED
    BY <1>3, <1>5, <2>1, SeqEqual
<1>11. job.txs = built.txs
  <2>1. Len(job.txs) = Len(built.txs)
        /\ \A i \in 1 .. Len(job.txs) : job.txs[i] = built.txs[i]
    BY <1>4, <1>6, <1>8
  <2> QED
    BY <1>3, <1>5, <2>1, SeqEqual
<1> QED
  BY <1>3, <1>4, <1>6, <1>7, <1>9, <1>10, <1>11

\* The engine accepts every block the node's own builder makes: each of its transactions
\* decodes, verifies and executes again, to the callers, receipts and state the builder had.
THEOREM NodeAcceptsItsBlocks == NodeSpec => []OwnBlocksAccepted
<1>1. IInv /\ NInv => OwnBlocksAccepted
  <2> SUFFICES ASSUME IInv, NInv PROVE OwnBlocksAccepted
    OBVIOUS
  <2>1. \A e \in pool : EnvOf(e).ok
    BY PoolEnvFacts DEF NInv
  <2>2. ASSUME Busy PROVE PreExecutionOk(job.block)
    <3>1. PICK ws, gs : Traced(built, world, ws, gs) /\ Follows(job, built, ws, gs)
      BY <2>2, JobPrefix
    <3> DEFINE n == Len(built.txs)
               b == PayloadOf(built)
    <3>2. n \in Nat /\ job.block = b
      BY <3>1 DEF Traced, BuiltBlocks, Follows
    <3>3. Len(b.txs) = n /\ (\A i \in 1 .. n : b.txs[i] = encode_2718(built.txs[i])) /\ b.header_ok
      BY <3>2 DEF PayloadOf
    <3>4. ASSUME NEW i \in 1 .. n
          PROVE  /\ decode_2718_exact(b.txs[i]).ok
                 /\ decode_2718_exact(b.txs[i]).val = built.txs[i]
                 /\ recover_signer(built.txs[i]).ok
      <4>1. PICK e \in PoolTxs : built.txs[i] = e.tx
        BY <3>1 DEF Traced, Step
      <4>2. e.tx \in DecodedTxs /\ recover_signer(e.tx) = Ok(e.signer)
        BY PoolTxFacts
      <4>3. decode_2718_exact(b.txs[i]) = Ok(e.tx)
        BY <3>3, <4>1, <4>2, EncodingReturns
      <4>4. \A v : Ok(v).ok /\ Ok(v).val = v
        BY DEF Ok
      <4> QED
        BY <4>1, <4>2, <4>3, <4>4
    <3> HIDE DEF b, n
    <3> DEFINE txs == [i \in 1 .. Len(b.txs) |-> decode_2718_exact(b.txs[i]).val]
    <3>5. Len(txs) = n /\ \A i \in 1 .. n : txs[i] = built.txs[i]
      BY <3>2, <3>3, <3>4
    <3>6. ASSUME NEW i \in 1 .. n, IsCosmos(built.txs[i]) PROVE CosmosVerify(built.txs[i]).ok
      BY <3>4, <3>6 DEF recover_signer
    <3>7. spec = GENESIS_HASH
      BY <2>2, JobPrefix
    <3> HIDE DEF txs
    <3>8. verify_authorizations(txs)
      BY <3>5, <3>6, <3>7 DEF verify_authorizations
    <3> QED
      BY <3>2, <3>3, <3>4, <3>8 DEF PreExecutionOk, txs
  <2>3. ASSUME Ready PROVE NextAttempt.ok
    <3>1. Busy /\ Len(job.txs) < Len(job.block.txs)
      BY <2>3 DEF Ready
    <3>2. PICK ws, gs : Traced(built, world, ws, gs) /\ Follows(job, built, ws, gs)
      BY <3>1, JobPrefix
    <3>3. Len(job.txs) \in Nat
      BY <3>1, JobPrefix
    <3>4. Len(built.txs) \in Nat /\ job.block = PayloadOf(built)
      BY <3>2 DEF Traced, BuiltBlocks, Follows
    <3>5. Len(job.txs) < Len(built.txs)
      BY <3>1, <3>4 DEF PayloadOf
    <3>6. \E e \in PoolTxs : NextAttempt = Ok([tx |-> e.tx, env |-> EnvOf(e).val])
      BY <3>2, <3>3, <3>5, NextAgrees DEF Agrees
    <3> QED
      BY <3>6 DEF Ok
  <2>4. ASSUME Executed
        PROVE  /\ job.callers = built.callers /\ job.receipts = built.receipts
               /\ job.world = built.world
    BY <2>4, JobIsBuilt
  <2> QED
    BY <2>1, <2>2, <2>3, <2>4 DEF OwnBlocksAccepted
<1> QED
  BY <1>1, NodeInvariance, PTL

----------------------------------------------------------------------------
(* Receipts                                                                  *)

\* A transaction in memory is known by its hash.
LEMMA HashTells ==
    ASSUME NEW s \in DecodedTxs, NEW t \in DecodedTxs, tx_hash(s) = tx_hash(t)
    PROVE  s = t
<1>1. \A x, y : <<"keccak", x>> = <<"keccak", y>> => x = y
  OBVIOUS
<1>2. ASSUME NEW u \in DecodedTxs
      PROVE  \/ \E e : u = Ethereum(e) /\ e.ty \in EthereumTypes /\ tx_hash(u) = <<"keccak", e>>
             \/ \E op, key, sig : /\ u = SignedTx(op, key, sig)
                                  /\ tx_hash(u) = <<"keccak", encode_wire(op, key, sig)>>
  <2>1. CASE GoodEthereum(u)
    <3>1. PICK e \in EthereumTx : u = Ethereum(e)
      BY <2>1 DEF GoodEthereum
    <3>2. e.ty \in EthereumTypes /\ tx_hash(u) = <<"keccak", e>>
      BY <3>1 DEF EthereumTx, tx_hash, Ethereum, IsCosmos
    <3> QED
      BY <3>1, <3>2
  <2>2. CASE GoodCosmos(u)
    <3>1. PICK op, key, sig : u = SignedTx(op, key, sig)
      BY <2>2 DEF GoodCosmos
    <3>2. tx_hash(u) = <<"keccak", encode_wire(op, key, sig)>>
      BY <3>1 DEF SignedTx, tx_hash, IsCosmos, transaction_hash
    <3> QED
      BY <3>1, <3>2
  <2> QED
    BY <2>1, <2>2, DecodedShape
<1>3. \A op, key, sig : /\ encode_wire(op, key, sig).ty \notin EthereumTypes
                        /\ encode_wire(op, key, sig).key = key
                        /\ encode_wire(op, key, sig).sig = sig
                        /\ encode_wire(op, key, sig).payload.op = op
  BY DEF encode_wire, payload, TX_TYPE, EthereumTypes
<1>4. CASE \E e : s = Ethereum(e) /\ e.ty \in EthereumTypes /\ tx_hash(s) = <<"keccak", e>>
  BY <1>1, <1>2, <1>3, <1>4
<1>5. CASE \E op, key, sig : /\ s = SignedTx(op, key, sig)
                             /\ tx_hash(s) = <<"keccak", encode_wire(op, key, sig)>>
  <2>1. PICK op, key, sig : /\ s = SignedTx(op, key, sig)
                            /\ tx_hash(s) = <<"keccak", encode_wire(op, key, sig)>>
    BY <1>5
  <2>2. CASE \E e : t = Ethereum(e) /\ e.ty \in EthereumTypes /\ tx_hash(t) = <<"keccak", e>>
    BY <1>1, <1>3, <2>1, <2>2
  <2>3. CASE \E o, k, g : /\ t = SignedTx(o, k, g)
                          /\ tx_hash(t) = <<"keccak", encode_wire(o, k, g)>>
    <3>1. PICK o, k, g : /\ t = SignedTx(o, k, g)
                         /\ tx_hash(t) = <<"keccak", encode_wire(o, k, g)>>
      BY <2>3
    <3>2. encode_wire(o, k, g) = encode_wire(op, key, sig)
      BY <1>1, <2>1, <3>1
    <3>3. o = op /\ k = key /\ g = sig
      BY <1>3, <3>2
    <3> QED
      BY <2>1, <3>1, <3>3
  <2> QED
    BY <1>2, <2>2, <2>3
<1> QED
  BY <1>2, <1>4, <1>5

\* One hash, one place in the chain.
LEMMA HashPlace ==
    ASSUME IInv, mode # "down", NonceDiscipline,
           NEW n \in 1 .. Len(head), NEW m \in 1 .. Len(head),
           NEW i \in 1 .. Len(head[n].txs), NEW j \in 1 .. Len(head[m].txs),
           tx_hash(head[n].txs[i]) = tx_hash(head[m].txs[j])
    PROVE  n = m /\ i = j
<1>1. head[n] \in HeadBlocks /\ head[m] \in HeadBlocks
  BY DEF IInv, TypeOK
<1>2. head[n].txs[i] \in DecodedTxs /\ head[m].txs[j] \in DecodedTxs
  BY <1>1 DEF HeadBlocks
<1>3. head[n].txs[i] = head[m].txs[j]
  BY <1>2, HashTells
<1>4. ActsFor(head[n].txs[i], head[n].callers[i]) /\ ActsFor(head[m].txs[j], head[m].callers[j])
  BY DEF IInv, AuthorizedHistory, AllActFor
<1>5. head[n].callers[i] = head[m].callers[j]
  BY <1>3, <1>4 DEF ActsFor
<1>6. SlotAt(head, n, i) = SlotAt(head, m, j)
  BY <1>3, <1>5 DEF SlotAt
<1> QED
  BY <1>6 DEF NonceDiscipline, Disciplined, OneSlotOnce

\* f counts the events of the first m transactions of b.
LogRec(f, b, m) == f = [j \in 0 .. m |-> IF j = 0 THEN 0 ELSE f[j - 1] + LogCount(b, j)]
LogLeads(b, m, v) == (\E f : LogRec(f, b, m)) /\ (\A f : LogRec(f, b, m) => f[m] = v)

LEMMA FirstLogIs ==
    ASSUME NEW b, NEW i \in Nat, NEW v, LogLeads(b, i - 1, v) PROVE FirstLog(b, i) = v
<1> DEFINE f == CHOOSE g : LogRec(g, b, i - 1)
<1>1. FirstLog(b, i) = f[i - 1]
  BY DEF FirstLog, LogRec
<1>2. LogRec(f, b, i - 1)
  BY DEF LogLeads
<1> QED
  BY <1>1, <1>2 DEF LogLeads

LEMMA LogLeadsNone == ASSUME NEW b PROVE LogLeads(b, 0, 0)
<1>1. LogRec([j \in 0 .. 0 |-> 0], b, 0)
  BY DEF LogRec
<1>2. \A f : LogRec(f, b, 0) => f[0] = 0
  BY DEF LogRec
<1> QED
  BY <1>1, <1>2 DEF LogLeads

LEMMA LogLeadsSame ==
    ASSUME NEW b, NEW c, NEW m \in Nat, NEW v, LogLeads(b, m, v),
           \A j \in 1 .. m : LogCount(c, j) = LogCount(b, j)
    PROVE  LogLeads(c, m, v)
<1>1. \A f : LogRec(f, b, m) <=> LogRec(f, c, m)
  <2> SUFFICES ASSUME NEW f
               PROVE  [j \in 0 .. m |-> IF j = 0 THEN 0 ELSE f[j - 1] + LogCount(b, j)]
                        = [j \in 0 .. m |-> IF j = 0 THEN 0 ELSE f[j - 1] + LogCount(c, j)]
    BY DEF LogRec
  <2>1. \A j \in 0 .. m : j # 0 => LogCount(c, j) = LogCount(b, j)
    OBVIOUS
  <2> QED
    BY <2>1
<1> QED
  BY <1>1 DEF LogLeads

LEMMA LogLeadsNext ==
    ASSUME NEW b, NEW n \in Nat, NEW v, LogLeads(b, n, v)
    PROVE  LogLeads(b, n + 1, v + LogCount(b, n + 1))
<1>1. n \in Nat
  OBVIOUS
<1>2. PICK f : LogRec(f, b, n)
  BY DEF LogLeads
<1> DEFINE g == [i \in 0 .. n + 1 |-> IF i = n + 1 THEN f[n] + LogCount(b, n + 1) ELSE f[i]]
<1>3. LogRec(g, b, n + 1)
  <2>1. (\A i \in 0 .. n : g[i] = f[i]) /\ g[n + 1] = f[n] + LogCount(b, n + 1)
    BY <1>1
  <2>2. \A i \in 0 .. n : f[i] = IF i = 0 THEN 0 ELSE f[i - 1] + LogCount(b, i)
    BY <1>2 DEF LogRec
  <2> HIDE DEF g
  <2>3. ASSUME NEW i \in 0 .. n + 1
        PROVE  g[i] = IF i = 0 THEN 0 ELSE g[i - 1] + LogCount(b, i)
    <3>1. CASE i = 0
      BY <1>1, <2>1, <2>2, <3>1
    <3>2. CASE i \in 1 .. n
      <4>1. i \in 0 .. n /\ i - 1 \in 0 .. n /\ i # 0
        BY <1>1, <3>2
      <4> QED
        BY <1>1, <2>1, <2>2, <3>2, <4>1
    <3>3. CASE i = n + 1
      <4>1. i # 0 /\ i - 1 = n /\ n \in 0 .. n
        BY <1>1, <3>3
      <4> QED
        BY <1>1, <2>1, <3>3, <4>1
    <3> QED
      BY <1>1, <3>1, <3>2, <3>3
  <2>4. g = [i \in 0 .. n + 1 |-> g[i]]
    BY DEF g
  <2>5. g = [i \in 0 .. n + 1 |-> IF i = 0 THEN 0 ELSE g[i - 1] + LogCount(b, i)]
    BY <2>3, <2>4
  <2> QED
    BY <1>1, <2>5 DEF LogRec
<1> HIDE DEF g
<1>4. ASSUME NEW k, LogRec(k, b, n + 1)
      PROVE  k[n + 1] = v + LogCount(b, n + 1)
  <2>1. \A i \in 0 .. n + 1 : k[i] = IF i = 0 THEN 0 ELSE k[i - 1] + LogCount(b, i)
    BY <1>1, <1>4 DEF LogRec
  <2> DEFINE l == [i \in 0 .. n |-> k[i]]
  <2>2. \A i \in 0 .. n : l[i] = k[i]
    OBVIOUS
  <2>3. ASSUME NEW i \in 0 .. n
        PROVE  k[i] = IF i = 0 THEN 0 ELSE l[i - 1] + LogCount(b, i)
    <3>1. CASE i = 0
      <4>1. 0 \in 0 .. n + 1
        BY <1>1
      <4> HIDE DEF l
      <4> QED
        BY <2>1, <3>1, <4>1
    <3>2. CASE i # 0
      <4>1. i \in 0 .. n + 1 /\ i - 1 \in 0 .. n /\ i \in 1 .. n
        BY <1>1, <3>2
      <4> HIDE DEF l
      <4> QED
        BY <1>1, <2>1, <2>2, <3>2, <4>1
    <3> QED
      BY <3>1, <3>2
  <2>4. l = [i \in 0 .. n |-> IF i = 0 THEN 0 ELSE l[i - 1] + LogCount(b, i)]
    BY <2>3
  <2> HIDE DEF l
  <2>5. LogRec(l, b, n)
    BY <2>4 DEF LogRec
  <2>6. l[n] = v
    BY <2>5 DEF LogLeads
  <2>7. k[n] = v
    BY <1>1, <2>2, <2>6
  <2>8. n + 1 \in 0 .. n + 1 /\ n + 1 # 0 /\ (n + 1) - 1 = n
    BY <1>1
  <2> QED
    BY <1>1, <2>1, <2>7, <2>8
<1> QED
  BY <1>1, <1>3, <1>4 DEF LogLeads

\* F numbers the events of b: transaction i has those from F[i] up to F[i + 1].
Numbered(b, F) ==
    LET n == Len(b.txs) IN
    /\ F \in [1 .. n + 1 -> Nat] /\ F[1] = 0
    /\ \A i \in 1 .. n : F[i + 1] = F[i] + LogCount(b, i)
    /\ \A i \in 1 .. n + 1 : LogLeads(b, i - 1, F[i])
    /\ \A i \in 1 .. n + 1 : \A j \in 1 .. i : F[j] <= F[i]
    /\ \A x \in 0 .. F[n + 1] - 1 : \E i \in 1 .. n : F[i] <= x /\ x < F[i + 1]

Fit(b) == (\E F : Numbered(b, F)) /\ (\A i \in 1 .. Len(b.txs) : GasOf(b, i) >= MIN_GAS)

LastGas(b, g) == g = IF Len(b.txs) = 0 THEN 0 ELSE b.receipts[Len(b.txs)].cumulative_gas_used

LEMMA FitNone ==
    ASSUME NEW b, b.txs = <<>> PROVE Fit(b) /\ LastGas(b, 0)
<1> DEFINE F == [i \in 1 .. 1 |-> 0]
<1>1. Len(b.txs) = 0
  OBVIOUS
<1>2. F \in [1 .. 1 -> Nat] /\ F[1] = 0
  OBVIOUS
<1>3. \A i \in 1 .. 1 : i = 1
  OBVIOUS
<1> HIDE DEF F
<1>4. \A i \in 1 .. 1 : LogLeads(b, i - 1, F[i])
  BY <1>2, <1>3, LogLeadsNone
<1>5. Numbered(b, F)
  BY <1>1, <1>2, <1>3, <1>4 DEF Numbered
<1> QED
  BY <1>1, <1>5 DEF Fit, LastGas

LEMMA LogCountNat ==
    ASSUME NEW b, NEW i, b.txs[i] \in DecodedTxs PROVE LogCount(b, i) \in Nat
<1>1. Fields(b.txs[i]).to \in Accounts
  BY TxFields DEF ChainFields
<1> QED
  BY <1>1, NodeAssumption DEF LogCount

LEMMA NumberedNext ==
    ASSUME NEW b, NEW c, NEW F, Numbered(b, F), NEW tx \in DecodedTxs, NEW r \in Receipts,
           b.txs \in Seq(DecodedTxs), b.receipts \in Seq(Receipts),
           Len(b.receipts) = Len(b.txs),
           c.txs = Append(b.txs, tx), c.receipts = Append(b.receipts, r)
    PROVE  \E G : Numbered(c, G)
<1> DEFINE n == Len(b.txs)
           more == LogCount(c, n + 1)
<1>1. /\ n \in Nat /\ Len(c.txs) = n + 1 /\ c.txs[n + 1] = tx
      /\ \A i \in 1 .. n : c.txs[i] = b.txs[i]
  BY Appended
<1>2. \A i \in 1 .. n : c.receipts[i] = b.receipts[i]
  BY Appended
<1>3. /\ F \in [1 .. n + 1 -> Nat] /\ F[1] = 0
      /\ \A i \in 1 .. n : F[i + 1] = F[i] + LogCount(b, i)
      /\ \A i \in 1 .. n + 1 : LogLeads(b, i - 1, F[i])
      /\ \A i \in 1 .. n + 1 : \A j \in 1 .. i : F[j] <= F[i]
      /\ \A x \in 0 .. F[n + 1] - 1 : \E i \in 1 .. n : F[i] <= x /\ x < F[i + 1]
  BY DEF Numbered
<1>4. \A i \in 1 .. n : LogCount(c, i) = LogCount(b, i)
  BY <1>1, <1>2 DEF LogCount
<1>5. more \in Nat
  BY <1>1, LogCountNat
<1> HIDE DEF n, more
<1> DEFINE G == [i \in 1 .. n + 2 |-> IF i = n + 2 THEN F[n + 1] + more ELSE F[i]]
<1>6. n + 1 \in 1 .. n + 1 /\ F[n + 1] \in Nat
  BY <1>1, <1>3
<1>7. /\ G \in [1 .. n + 2 -> Nat] /\ G[n + 2] = F[n + 1] + more
      /\ \A i \in 1 .. n + 1 : G[i] = F[i] /\ F[i] \in Nat
  BY <1>1, <1>3, <1>5, <1>6
<1> HIDE DEF G
<1>8. G[1] = 0
  BY <1>1, <1>3, <1>7
<1>9. ASSUME NEW i \in 1 .. n + 1 PROVE G[i + 1] = G[i] + LogCount(c, i)
  <2>1. CASE i = n + 1
    BY <1>1, <1>6, <1>7, <2>1 DEF more
  <2>2. CASE i \in 1 .. n
    <3>1. i \in 1 .. n + 1 /\ i + 1 \in 1 .. n + 1
      BY <1>1, <2>2
    <3> QED
      BY <1>3, <1>4, <1>7, <2>2, <3>1
  <2> QED
    BY <1>1, <2>1, <2>2
<1>10. ASSUME NEW i \in 1 .. n + 1 PROVE LogLeads(c, i - 1, F[i])
  <2>1. i - 1 \in Nat /\ \A j \in 1 .. i - 1 : j \in 1 .. n
    BY <1>1
  <2>2. LogLeads(b, i - 1, F[i])
    BY <1>3
  <2> QED
    BY <1>4, <2>1, <2>2, LogLeadsSame
<1>11. LogLeads(c, n + 1, G[n + 2])
  <2>1. LogLeads(c, n, F[n + 1])
    <3>1. (n + 1) - 1 = n
      BY <1>1
    <3> QED
      BY <1>6, <1>10, <3>1
  <2>2. LogLeads(c, n + 1, F[n + 1] + LogCount(c, n + 1))
    BY <1>1, <2>1, LogLeadsNext
  <2> QED
    BY <1>7, <2>2 DEF more
<1>12. ASSUME NEW i \in 1 .. n + 2 PROVE LogLeads(c, i - 1, G[i])
  <2>1. CASE i = n + 2
    <3>1. i - 1 = n + 1
      BY <1>1, <2>1
    <3> QED
      BY <1>11, <2>1, <3>1
  <2>2. CASE i \in 1 .. n + 1
    BY <1>7, <1>10, <2>2
  <2> QED
    BY <1>1, <2>1, <2>2
<1>13. ASSUME NEW i \in 1 .. n + 2, NEW j \in 1 .. i PROVE G[j] <= G[i]
  <2>1. CASE i \in 1 .. n + 1
    <3>1. j \in 1 .. n + 1
      BY <1>1, <2>1
    <3> QED
      BY <1>3, <1>7, <2>1, <3>1
  <2>2. CASE i = n + 2 /\ j = n + 2
    BY <1>5, <1>6, <1>7, <2>2
  <2>3. CASE i = n + 2 /\ j # n + 2
    <3>1. j \in 1 .. n + 1
      BY <1>1, <2>3
    <3>2. F[j] <= F[n + 1] /\ F[j] \in Nat /\ G[j] = F[j]
      BY <1>3, <1>6, <1>7, <3>1
    <3> QED
      BY <1>5, <1>6, <1>7, <2>3, <3>2
  <2> QED
    BY <1>1, <2>1, <2>2, <2>3
<1>14. ASSUME NEW x \in 0 .. G[n + 2] - 1
       PROVE  \E i \in 1 .. n + 1 : G[i] <= x /\ x < G[i + 1]
  <2>0. x \in Nat /\ x < G[n + 2] /\ G[n + 2] \in Nat
    BY <1>5, <1>6, <1>7
  <2>1. CASE x < F[n + 1]
    <3>1. x \in 0 .. F[n + 1] - 1
      BY <1>6, <2>0, <2>1
    <3>2. PICK i \in 1 .. n : F[i] <= x /\ x < F[i + 1]
      BY <1>3, <3>1
    <3>3. i \in 1 .. n + 1 /\ i + 1 \in 1 .. n + 1
      BY <1>1
    <3>4. G[i] = F[i] /\ G[i + 1] = F[i + 1]
      BY <1>7, <3>3
    <3> QED
      BY <3>2, <3>3, <3>4
  <2>2. CASE ~ (x < F[n + 1])
    <3>1. F[n + 1] <= x /\ (n + 1) + 1 = n + 2
      BY <1>1, <1>6, <2>0, <2>2
    <3>2. G[n + 1] <= x /\ x < G[(n + 1) + 1]
      BY <1>6, <1>7, <2>0, <3>1
    <3> QED
      BY <1>6, <3>2
  <2> QED
    BY <2>1, <2>2
<1>15. (n + 1) + 1 = n + 2
  BY <1>1
<1>16. Numbered(c, G)
  BY <1>1, <1>7, <1>8, <1>9, <1>12, <1>13, <1>14, <1>15 DEF Numbered
<1> QED
  BY <1>16

LEMMA FitNext ==
    ASSUME NEW b, NEW c, NEW g \in Nat, NEW used \in Nat, MIN_GAS <= used,
           Fit(b), LastGas(b, g), NEW tx \in DecodedTxs, NEW r \in Receipts,
           b.txs \in Seq(DecodedTxs), b.receipts \in Seq(Receipts),
           Len(b.receipts) = Len(b.txs), r.cumulative_gas_used = g + used,
           c.txs = Append(b.txs, tx), c.receipts = Append(b.receipts, r)
    PROVE  Fit(c) /\ LastGas(c, g + used)
<1> DEFINE n == Len(b.txs)
<1>1. \E G : Numbered(c, G)
  BY NumberedNext DEF Fit
<1>2. n \in Nat /\ Len(c.txs) = n + 1
  BY Appended
<1>3. /\ c.receipts[n + 1] = r
      /\ \A i \in 1 .. n : c.receipts[i] = b.receipts[i]
  BY Appended
<1>4. \A i \in 1 .. n : GasOf(b, i) >= MIN_GAS
  BY DEF Fit
<1>5. g = IF n = 0 THEN 0 ELSE b.receipts[n].cumulative_gas_used
  BY DEF LastGas
<1> HIDE DEF n
<1>6. ASSUME NEW i \in 1 .. n + 1 PROVE GasOf(c, i) >= MIN_GAS
  <2>1. CASE i \in 1 .. n
    <3>1. i # 1 => i - 1 \in 1 .. n
      BY <1>2, <2>1
    <3>2. GasOf(c, i) = GasOf(b, i)
      BY <1>3, <2>1, <3>1 DEF GasOf
    <3> QED
      BY <1>4, <2>1, <3>2
  <2>2. CASE i = n + 1
    <3>1. i - 1 = n /\ (i = 1 <=> n = 0) /\ (n # 0 => n \in 1 .. n)
      BY <1>2, <2>2
    <3>2. (IF i = 1 THEN 0 ELSE c.receipts[i - 1].cumulative_gas_used) = g
      BY <1>3, <1>5, <3>1
    <3>3. GasOf(c, i) = (g + used) - g
      BY <1>3, <2>2, <3>2 DEF GasOf
    <3> QED
      BY <3>3 DEF MIN_GAS
  <2> QED
    BY <1>2, <2>1, <2>2
<1>7. LastGas(c, g + used)
  BY <1>2, <1>3 DEF LastGas
<1> QED
  BY <1>1, <1>2, <1>6, <1>7 DEF Fit

LEMMA FitSame ==
    ASSUME NEW b, NEW c, Fit(b), c.txs = b.txs, c.receipts = b.receipts
    PROVE  Fit(c) /\ \A g : LastGas(b, g) => LastGas(c, g)
<1>1. \A i : LogCount(c, i) = LogCount(b, i) /\ GasOf(c, i) = GasOf(b, i)
  BY DEF LogCount, GasOf
<1>2. \A m, v : LogLeads(b, m, v) => LogLeads(c, m, v)
  BY <1>1 DEF LogLeads, LogRec
<1>3. \A F : Numbered(b, F) => Numbered(c, F)
  BY <1>1, <1>2 DEF Numbered
<1> QED
  BY <1>1, <1>3 DEF Fit, LastGas

\* What a transaction that passes the checks takes, at least.
LEMMA AttemptGas ==
    ASSUME NEW raw \in SubmittedRaws, NEW path, NEW w \in Worlds, NEW fee, NEW gas,
           Attempt(path, raw, w, fee, gas).ok
    PROVE  LET used == GasUsed(Attempt(path, raw, w, fee, gas).val.env) IN
           used \in Nat /\ MIN_GAS <= used
<1> DEFINE a == Attempt(path, raw, w, fee, gas).val
           env == a.env
<1>1. GoodEnv(env)
  BY AttemptFacts
<1>2. ValidationError(env, w, fee, BLOCK_GAS - gas) = "none"
  BY DEF Attempt, AttemptDecoded, Err, Ok
<1> HIDE DEF env
<1>3. ~ (env.gas_limit < IntrinsicGas(env))
  BY <1>2 DEF ValidationError
<1>4. env.gas_limit \in Nat /\ env.data \in Nat
  BY <1>1 DEF GoodEnv
<1>5. IntrinsicGas(env) \in Nat /\ MIN_GAS <= IntrinsicGas(env) /\ MIN_GAS \in Nat
  BY <1>4 DEF IntrinsicGas, MIN_GAS
<1>6. CallGas(env) \in Nat /\ IntrinsicGas(env) <= CallGas(env)
  BY <1>5, EvmAssumption DEF CallGas
<1>7. GasUsed(env) \in Nat /\ MIN_GAS <= GasUsed(env)
  BY <1>3, <1>4, <1>5, <1>6 DEF GasUsed
<1> QED
  BY <1>7 DEF env

\* The receipts of every block, in memory, on disk and in the making.
FitInv ==
    /\ \A i \in 1 .. Len(head) : Fit(head[i])
    /\ \A i \in 1 .. Len(db) : Fit(LoadedBlock(db[i]))
    /\ Busy => Fit(job) /\ LastGas(job, job.gas)

LEMMA FitKept == IInv /\ FitInv /\ [Next]_vars => FitInv'
<1> SUFFICES ASSUME IInv, FitInv, [Next]_vars PROVE FitInv'
  OBVIOUS
<1>0. /\ TypeOK /\ Len(db) \in Nat /\ Len(head) \in Nat
      /\ head \in Seq(HeadBlocks) /\ db \in Seq(Rows)
  BY DEF IInv, TypeOK
<1>1. CASE StartNode \/ StartImport
  <2>1. PICK m : Open(m)
    BY <1>1 DEF StartNode, StartImport
  <2>2. /\ ~Busy' /\ db' = db /\ Len(head') = Len(db)
        /\ \A i \in 1 .. Len(db) : head'[i] = LoadedBlock(db[i])
    BY <1>0, <2>1 DEF Open, IInv, DownEmpty, Busy, NoJob
  <2> QED
    BY <2>2 DEF FitInv
<1>2. CASE Halt
  <2>1. head' = <<>> /\ db' = db /\ ~Busy'
    BY <1>2 DEF Halt, Busy, NoJob
  <2>2. Len(head') = 0
    BY <2>1
  <2> QED
    BY <2>1, <2>2 DEF FitInv
<1>3. CASE Reject \/ UNCHANGED vars
  <2>1. head' = head /\ db' = db /\ (Busy' => job' = job /\ Busy)
    BY <1>3 DEF Reject, vars, Busy, NoJob
  <2> QED
    BY <2>1 DEF FitInv
<1>4. CASE \E n \in 1 .. MaxHeight : Persist(n)
  <2>1. PICK n \in 1 .. MaxHeight : Persist(n)
    BY <1>4
  <2>2. /\ head' = head /\ job' = job /\ n \in Len(db) + 1 .. Len(head)
        /\ db' = [i \in 1 .. n |-> IF i <= Len(db) THEN db[i] ELSE StoredBlock(head[i])]
    BY <2>1 DEF Persist
  <2>3. Len(db') = n /\ n \in Nat
    BY <1>0, <2>2
  <2>4. ASSUME NEW i \in 1 .. n PROVE Fit(LoadedBlock(db'[i]))
    <3>1. CASE i <= Len(db)
      BY <1>0, <2>2, <2>3, <3>1 DEF FitInv
    <3>2. CASE ~ (i <= Len(db))
      <4>1. i \in 1 .. Len(head) /\ head[i] \in HeadBlocks /\ db'[i] = StoredBlock(head[i])
        BY <1>0, <2>2, <2>3, <3>2
      <4>2. LoadedBlock(db'[i]) = head[i]
        BY <4>1, StoredIsRow
      <4> QED
        BY <4>1, <4>2 DEF FitInv
    <3> QED
      BY <3>1, <3>2
  <2>5. Busy' <=> Busy
    BY <2>2 DEF Busy
  <2> QED
    BY <2>2, <2>3, <2>4, <2>5 DEF FitInv
<1>5. CASE \E b \in Blocks : Submit(b)
  <2>1. head' = head /\ db' = db /\ job'.txs = <<>> /\ job'.gas = 0
    BY <1>5 DEF Submit
  <2>2. Fit(job') /\ LastGas(job', job'.gas)
    BY <2>1, FitNone
  <2> QED
    BY <2>1, <2>2 DEF FitInv
<1>6. CASE Validate
  <2>1. job \in Jobs /\ Busy
    BY <1>0, <1>6, BusyJob DEF Validate
  <2>2. /\ job'.txs = job.txs /\ job'.receipts = job.receipts /\ job'.gas = job.gas
        /\ head' = head /\ db' = db
    BY <1>6, <2>1 DEF Validate, Jobs
  <2>3. Fit(job') /\ LastGas(job', job'.gas)
    BY <2>1, <2>2, FitSame DEF FitInv
  <2> QED
    BY <2>2, <2>3 DEF FitInv
<1>7. CASE ExecuteNext
  <2>0. Busy /\ job \in Jobs /\ Len(job.txs) < Len(job.block.txs) /\ NextAttempt.ok
    BY <1>0, <1>7, BusyJob DEF ExecuteNext, Ready
  <2> DEFINE tx == NextAttempt.val.tx
             env == NextAttempt.val.env
             used == GasUsed(env)
             r == build_receipt(tx, env, job.gas + used)
  <2>1. /\ Len(job.txs) \in Nat /\ job.world \in Worlds /\ job.txs \in Seq(DecodedTxs)
        /\ job.gas \in Nat /\ job.receipts \in Seq(Receipts)
        /\ Len(job.receipts) = Len(job.txs)
    BY <1>0, <2>0, BusyJob DEF Jobs
  <2>2. NextRaw \in SubmittedRaws
    <3>1. job.block.txs \in Seq(SubmittedRaws)
      BY <2>0, ChainAssumption DEF Jobs
    <3> QED
      BY <2>0, <2>1, <3>1 DEF NextRaw
  <2>3. tx \in DecodedTxs
    BY <2>0, <2>1, <2>2, AttemptFacts DEF NextAttempt
  <2>4. used \in Nat /\ MIN_GAS <= used
    BY <2>0, <2>1, <2>2, AttemptGas DEF NextAttempt
  <2>5. /\ job'.txs = Append(job.txs, tx) /\ job'.receipts = Append(job.receipts, r)
        /\ job'.gas = job.gas + used /\ head' = head /\ db' = db
    BY <1>7, <2>0 DEF ExecuteNext, Jobs
  <2> HIDE DEF tx, env
  <2>6. r.cumulative_gas_used = job.gas + used
    BY DEF build_receipt
  <2>7. r \in Receipts
    <3>1. ty(tx) \in EthereumTypes \cup {TX_TYPE}
      BY <2>3, TxFields
    <3>2. Succeeds(env) \in BOOLEAN /\ job.gas + used \in Nat
      BY <2>1, <2>4 DEF Succeeds
    <3> QED
      BY <3>1, <3>2 DEF build_receipt, Receipts
  <2> HIDE DEF used, r
  <2>8. Fit(job) /\ LastGas(job, job.gas)
    BY <2>0 DEF FitInv
  <2>9. Fit(job') /\ LastGas(job', job.gas + used)
    BY <2>1, <2>3, <2>4, <2>5, <2>6, <2>7, <2>8, FitNext
  <2> QED
    BY <2>5, <2>9 DEF FitInv
<1>8. CASE Commit
  <2>0. Busy /\ job \in Jobs
    BY <1>0, <1>8, BusyJob DEF Commit, Executed
  <2> DEFINE b == [txs |-> job.txs, callers |-> job.callers, receipts |-> job.receipts,
                   base_fee |-> job.block.base_fee]
  <2>1. /\ head' = Append(head, b) /\ job' = NoJob
        /\ (db' = db \/ db' = Append(db, StoredBlock(b)))
    BY <1>8 DEF Commit
  <2>2. ~Busy'
    BY <2>1 DEF Busy, NoJob
  <2>3. b \in HeadBlocks
    BY <2>0, ChainAssumption DEF Jobs, HeadBlocks
  <2>4. b.txs = job.txs /\ b.receipts = job.receipts
    OBVIOUS
  <2> HIDE DEF b
  <2>5. Fit(b)
    BY <2>0, <2>4, FitSame DEF FitInv
  <2>6. StoredBlock(b) \in Rows /\ LoadedBlock(StoredBlock(b)) = b
    BY <2>3, StoredIsRow
  <2>7. ASSUME NEW i \in 1 .. Len(head') PROVE Fit(head'[i])
    <3>1. /\ Len(head') = Len(head) + 1 /\ head'[Len(head) + 1] = b
          /\ \A j \in 1 .. Len(head) : head'[j] = head[j]
      BY <1>0, <2>1, <2>3, Appended
    <3>2. i = Len(head) + 1 \/ i \in 1 .. Len(head)
      BY <1>0, <3>1
    <3> QED
      BY <2>5, <3>1, <3>2 DEF FitInv
  <2>8. ASSUME NEW i \in 1 .. Len(db'), db' = Append(db, StoredBlock(b))
        PROVE  Fit(LoadedBlock(db'[i]))
    <3>1. /\ Len(db') = Len(db) + 1 /\ db'[Len(db) + 1] = StoredBlock(b)
          /\ \A j \in 1 .. Len(db) : db'[j] = db[j]
      BY <1>0, <2>6, <2>8, Appended
    <3>2. i = Len(db) + 1 \/ i \in 1 .. Len(db)
      BY <1>0, <3>1
    <3> QED
      BY <2>5, <2>6, <3>1, <3>2 DEF FitInv
  <2> QED
    BY <2>1, <2>2, <2>7, <2>8 DEF FitInv
<1>9. ValidateFails \/ ExecuteFails \/ CommitFails => Reject
  BY DEF ValidateFails, ExecuteFails, CommitFails
<1> QED
  BY <1>1, <1>2, <1>3, <1>4, <1>5, <1>6, <1>7, <1>8, <1>9 DEF Next

\* The numbers of the events of one transaction, as the RPC gives them.
NumbersOf(n, i) ==
    {RpcReceipt(n, i).inner.logs[k].log_index : k \in 1 .. LogCount(head[n], i)}

LEMMA NumbersAre ==
    ASSUME NEW n, NEW i \in Nat, NEW first \in Nat, FirstLog(head[n], i) = first,
           LogCount(head[n], i) \in Nat
    PROVE  NumbersOf(n, i) = first .. first + LogCount(head[n], i) - 1
<1> DEFINE c == LogCount(head[n], i)
<1>1. ASSUME NEW k \in 1 .. c PROVE RpcReceipt(n, i).inner.logs[k].log_index = first + k - 1
  BY <1>1 DEF RpcReceipt, receipt_converter
<1> HIDE DEF c
<1>2. NumbersOf(n, i) = {first + k - 1 : k \in 1 .. c}
  BY <1>1 DEF NumbersOf, c
<1>3. c \in Nat
  BY DEF c
<1>4. ASSUME NEW x \in first .. first + c - 1 PROVE \E k \in 1 .. c : x = first + k - 1
  <2>1. x - first + 1 \in 1 .. c /\ x = first + (x - first + 1) - 1
    BY <1>3
  <2> QED
    BY <2>1
<1>5. \A k \in 1 .. c : first + k - 1 \in first .. first + c - 1
  BY <1>3
<1>6. {first + k - 1 : k \in 1 .. c} = first .. first + c - 1
  BY <1>4, <1>5
<1> QED
  BY <1>2, <1>6 DEF c

\* Every hash finds its own transaction, every receipt has its own gas, and the events of
\* a block are numbered through all of its receipts, in every chain.
THEOREM ReceiptsFitTogether == NodeSpec => []ReceiptsAgree
<1>1. IInv /\ NonceDiscipline /\ FitInv => ReceiptsAgree
  <2> SUFFICES ASSUME IInv, NonceDiscipline, FitInv, NEW n \in 1 .. Len(head)
               PROVE  LET b == head[n]
                          Numbers(i) == NumbersOf(n, i)
                      IN  /\ \A i \in 1 .. Len(b.txs) :
                               /\ Located(tx_hash(b.txs[i])) = {<<n, i>>}
                               /\ GasOf(b, i) >= MIN_GAS
                               /\ Cardinality(Numbers(i)) = LogCount(b, i)
                               /\ \A j \in 1 .. i - 1 : Numbers(j) \cap Numbers(i) = {}
                          /\ LET all == UNION {Numbers(i) : i \in 1 .. Len(b.txs)}
                             IN  all = 0 .. Cardinality(all) - 1
    BY DEF ReceiptsAgree, NumbersOf
  <2> DEFINE b == head[n]
             m == Len(b.txs)
             all == UNION {NumbersOf(n, i) : i \in 1 .. m}
  <2>0. mode # "down"
    BY DEF IInv, DownEmpty
  <2>1. Len(head) \in Nat /\ b \in HeadBlocks /\ m \in Nat /\ b.txs \in Seq(DecodedTxs)
    <3>1. head \in Seq(HeadBlocks) /\ Len(head) \in Nat
      BY DEF IInv, TypeOK
    <3>2. b \in HeadBlocks
      BY <3>1
    <3> HIDE DEF b
    <3>3. b.txs \in Seq(DecodedTxs)
      BY <3>2 DEF HeadBlocks
    <3>4. m \in Nat
      BY <3>3
    <3> QED
      BY <3>1, <3>2, <3>3, <3>4
  <2>2. PICK F : Numbered(b, F)
    BY DEF FitInv, Fit
  <2>3. /\ F \in [1 .. m + 1 -> Nat] /\ F[1] = 0
        /\ \A i \in 1 .. m : F[i + 1] = F[i] + LogCount(b, i)
        /\ \A i \in 1 .. m + 1 : LogLeads(b, i - 1, F[i])
        /\ \A i \in 1 .. m + 1 : \A j \in 1 .. i : F[j] <= F[i]
        /\ \A x \in 0 .. F[m + 1] - 1 : \E i \in 1 .. m : F[i] <= x /\ x < F[i + 1]
    BY <2>2 DEF Numbered
  <2>4. \A i \in 1 .. m : LogCount(b, i) \in Nat
    BY <2>1, LogCountNat
  <2>5. ASSUME NEW i \in 1 .. m PROVE Located(tx_hash(b.txs[i])) = {<<n, i>>}
    <3> DEFINE h == tx_hash(b.txs[i])
               At1(k) == {<<k, j>> : j \in {l \in 1 .. Len(head[k].txs) : tx_hash(head[k].txs[l]) = h}}
    <3>1. Located(h) = UNION {At1(k) : k \in 1 .. Len(head)}
      BY DEF Located
    <3>2. <<n, i>> \in At1(n)
      OBVIOUS
    <3>3. ASSUME NEW k \in 1 .. Len(head), NEW p \in At1(k) PROVE p = <<n, i>>
      <4>1. PICK j \in 1 .. Len(head[k].txs) : tx_hash(head[k].txs[j]) = h /\ p = <<k, j>>
        OBVIOUS
      <4>2. n = k /\ i = j
        BY <2>0, <4>1, HashPlace
      <4> QED
        BY <4>1, <4>2
    <3> HIDE DEF At1, h
    <3>4. Located(h) = {<<n, i>>}
      BY <3>1, <3>2, <3>3
    <3> QED
      BY <3>4 DEF h
  <2>6. \A i \in 1 .. m : GasOf(b, i) >= MIN_GAS
    BY DEF FitInv, Fit
  <2> HIDE DEF b, m, all
  <2>7. \A i \in 1 .. m + 1 : F[i] \in Nat
    BY <2>1, <2>3
  <2>8. ASSUME NEW i \in 1 .. m
        PROVE  /\ i + 1 \in 1 .. m + 1 /\ F[i] \in Nat /\ F[i + 1] \in Nat
               /\ NumbersOf(n, i) = F[i] .. F[i + 1] - 1
    <3>1. i \in 1 .. m + 1 /\ i + 1 \in 1 .. m + 1 /\ i \in Nat
      BY <2>1
    <3>2. FirstLog(b, i) = F[i]
      BY <2>3, <3>1, FirstLogIs
    <3>3. F[i] \in Nat /\ F[i + 1] \in Nat
      BY <2>7, <3>1
    <3>4. NumbersOf(n, i) = F[i] .. F[i] + LogCount(b, i) - 1
      BY <2>4, <3>1, <3>2, <3>3, NumbersAre DEF b
    <3>5. F[i + 1] = F[i] + LogCount(b, i)
      BY <2>3
    <3>6. NumbersOf(n, i) = F[i] .. F[i + 1] - 1
      <4>1. \A z, c, x \in Nat : x = z + c => (z .. x - 1) = (z .. z + c - 1)
        OBVIOUS
      <4>2. (F[i] .. F[i + 1] - 1) = (F[i] .. F[i] + LogCount(b, i) - 1)
        BY <2>4, <3>3, <3>5, <4>1
      <4> QED
        BY <3>4, <4>2
    <3> QED
      BY <3>1, <3>3, <3>6
  <2>9. ASSUME NEW i \in 1 .. m PROVE Cardinality(NumbersOf(n, i)) = LogCount(b, i)
    <3>1. F[i] \in Int /\ F[i + 1] - 1 \in Int /\ F[i + 1] = F[i] + LogCount(b, i)
      BY <2>3, <2>8
    <3>2. Cardinality(NumbersOf(n, i))
            = IF F[i] > F[i + 1] - 1 THEN 0 ELSE F[i + 1] - 1 - F[i] + 1
      BY <2>8, <3>1, FS_Interval
    <3>3. LogCount(b, i) \in Nat /\ F[i] \in Nat
      BY <2>4, <2>8
    <3> QED
      BY <3>1, <3>2, <3>3
  <2>10. ASSUME NEW i \in 1 .. m, NEW j \in 1 .. i - 1
         PROVE  NumbersOf(n, j) \cap NumbersOf(n, i) = {}
    <3>1. j \in 1 .. m /\ j + 1 \in 1 .. i /\ i \in 1 .. m + 1
      BY <2>1
    <3>2. F[j + 1] <= F[i]
      BY <2>3, <3>1
    <3>3. /\ NumbersOf(n, j) = F[j] .. F[j + 1] - 1 /\ NumbersOf(n, i) = F[i] .. F[i + 1] - 1
          /\ F[j] \in Nat /\ F[j + 1] \in Nat /\ F[i] \in Nat
      BY <2>8, <3>1
    <3> QED
      BY <3>2, <3>3
  <2>11. all = 0 .. F[m + 1] - 1 /\ F[m + 1] \in Nat
    <3>1. F[m + 1] \in Nat
      BY <2>1, <2>7
    <3>2. ASSUME NEW x \in all PROVE x \in 0 .. F[m + 1] - 1
      <4>1. PICK i \in 1 .. m : x \in NumbersOf(n, i)
        BY DEF all
      <4>2. x \in F[i] .. F[i + 1] - 1 /\ F[i] \in Nat /\ F[i + 1] \in Nat
        BY <2>8, <4>1
      <4>3. i + 1 \in 1 .. m + 1 /\ m + 1 \in 1 .. m + 1
        BY <2>1
      <4>4. F[i + 1] <= F[m + 1]
        BY <2>3, <4>3
      <4> QED
        BY <3>1, <4>2, <4>4
    <3>3. ASSUME NEW x \in 0 .. F[m + 1] - 1 PROVE x \in all
      <4>1. PICK i \in 1 .. m : F[i] <= x /\ x < F[i + 1]
        BY <2>3
      <4>2. F[i] \in Nat /\ F[i + 1] \in Nat /\ x \in Int
        BY <2>8, <3>1
      <4>3. x \in F[i] .. F[i + 1] - 1
        BY <4>1, <4>2
      <4>4. x \in NumbersOf(n, i)
        BY <2>8, <4>3
      <4> QED
        BY <4>4 DEF all
    <3> QED
      BY <3>1, <3>2, <3>3
  <2>12. all = 0 .. Cardinality(all) - 1
    <3> DEFINE top == F[m + 1] - 1
    <3>0. top \in Int /\ 0 \in Int
      BY <2>11
    <3> HIDE DEF top
    <3>1a. Cardinality(0 .. top) = IF 0 > top THEN 0 ELSE top - 0 + 1
      BY <3>0, FS_Interval
    <3>1b. Cardinality(all) = Cardinality(0 .. top)
      BY <2>11 DEF top
    <3>1. Cardinality(all) = IF 0 > F[m + 1] - 1 THEN 0 ELSE F[m + 1] - 1 - 0 + 1
      BY <3>1a, <3>1b DEF top
    <3>2. Cardinality(all) = F[m + 1]
      BY <2>11, <3>1
    <3> QED
      BY <2>11, <3>2
  <2> QED
    BY <2>5, <2>6, <2>9, <2>10, <2>12 DEF b, m, all
<1>2. NodeInit => FitInv
  BY DEF NodeInit, Init, FitInv, Busy, NoJob
<1>3. NodeSpec => []FitInv
  <2>1. IInv /\ NInv /\ FitInv /\ [NodeNext]_allvars => FitInv'
    BY NodeStepIsChainStep, FitKept
  <2> QED
    BY <1>2, <2>1, NodeInvariance, PTL DEF NodeSpec
<1> QED
  BY <1>1, <1>3, NodeIsChain, NoncesDisciplined, NodeInvariance, PTL

----------------------------------------------------------------------------
(* The client                                                                *)

\* Transactions of the client that the pool can take.
Mine == {c \in ClientRaws : Recovered[c].ok}

LEMMA WireWhole ==
    ASSUME NEW op, NEW key, NEW sig
    PROVE  [encode_wire(op, key, sig) EXCEPT !.rest = 0] = encode_wire(op, key, sig)
<1> DEFINE raw == encode_wire(op, key, sig)
           p == payload(op)
<1>1. raw \in [ty : {TX_TYPE}, list : {TRUE}, payload : {p}, key : {key}, sig : {sig},
               minimal : {TRUE}, trailing : {0}, rest : {0}]
  BY DEF encode_wire
<1> HIDE DEF raw, p
<1>2. [raw EXCEPT !.rest = 0] = raw
  BY <1>1
<1> QED
  BY <1>2 DEF raw

LEMMA MineFacts ==
    ASSUME NEW c \in Mine
    PROVE  LET e == Recovered[c].val IN
           /\ c \in ClientRaws /\ e \in PoolTxs /\ e.tx \in DecodedTxs
           /\ e.tx = SignedTx(Op(c), c.key, c.sig)
           /\ e.signer = Op(c).sender /\ Op(c).sender \in Accounts /\ Op(c).to \in Accounts
           /\ Fields(e.tx) = Accessors(Op(c)) /\ ChainFields(Op(c))
           /\ tx_hash(e.tx) = transaction_hash(c) /\ ty(e.tx) = TX_TYPE
<1> DEFINE e == Recovered[c].val
           d == decode_2718_exact(c)
<1>1. c \in ClientRaws /\ c \in NodeRaws /\ Recovered[c].ok /\ c \in SubmittedRaws
  BY NodeAssumption DEF Mine, NodeRaws
<1>2. e \in PoolTxs
  BY <1>1 DEF PoolTxs
<1>3. e.tx \in DecodedTxs /\ e.signer \in Accounts /\ ActsFor(e.tx, e.signer)
  BY <1>2, PoolTxFacts
<1>4. c = encode_wire(Op(c), c.key, c.sig)
  BY <1>1, NodeAssumption
<1>5. c.ty = TX_TYPE /\ c.rest = 0 /\ c.ty \notin EthereumTypes
  <2>1. /\ encode_wire(Op(c), c.key, c.sig).ty = TX_TYPE
        /\ encode_wire(Op(c), c.key, c.sig).rest = 0
    BY DEF encode_wire
  <2> QED
    BY <1>4, <2>1 DEF TX_TYPE, EthereumTypes
<1>6. [c EXCEPT !.rest = 0] = c
  <2>1. [encode_wire(Op(c), c.key, c.sig) EXCEPT !.rest = 0] = encode_wire(Op(c), c.key, c.sig)
    BY WireWhole
  <2> QED
    BY <1>4, <2>1
<1>7. PoolTransaction(d).ok /\ e = PoolTransaction(d).val
  BY <1>1 DEF Recovered
<1> HIDE DEF d
<1>8. d.ok /\ PoolTransaction(d) = Ok([tx |-> d.val, signer |-> recover_signer(d.val).val])
  BY <1>7 DEF PoolTransaction
<1>9. e.tx = d.val
  BY <1>7, <1>8 DEF Ok
<1>10. typed_decode(c).ok /\ d.val = typed_decode(c).val.tx
  BY <1>8 DEF d, decode_2718_exact, WholeInput, Err, Ok
<1>11. typed_decode(c) = Ok([tx |-> SignedTx(Op(c), c.key, c.sig), rest |-> c.rest])
  BY <1>5, <1>6, <1>10, DecodedCosmos DEF Op
<1>12. e.tx = SignedTx(Op(c), c.key, c.sig)
  BY <1>9, <1>10, <1>11 DEF Ok
<1> HIDE DEF e
<1>13. IsCosmos(e.tx) /\ e.tx.operation = Op(c) /\ e.tx.hash = transaction_hash(c)
  BY <1>4, <1>12 DEF SignedTx, IsCosmos
<1>14. e.signer = Op(c).sender
  BY <1>3, <1>13 DEF ActsFor
<1>15. ChainFields(Op(c))
  BY <1>1, <1>5, RawTypes DEF Op
<1>16. Fields(e.tx) = Accessors(Op(c)) /\ tx_hash(e.tx) = transaction_hash(c) /\ ty(e.tx) = TX_TYPE
  BY <1>13 DEF Fields, tx_hash, ty
<1>17. Op(c).to \in Accounts
  BY <1>15 DEF ChainFields
<1> QED
  BY <1>1, <1>2, <1>3, <1>12, <1>14, <1>15, <1>16, <1>17 DEF e

LEMMA MineHash ==
    ASSUME NEW c \in Mine, NEW t \in DecodedTxs, tx_hash(t) = transaction_hash(c)
    PROVE  t = Recovered[c].val.tx
  BY MineFacts, HashTells

\* The pool transaction t neither uses nor pays the accounts of the client's transaction c.
LeavesAlone(t, c) == Avoids(t.signer, Fields(t.tx), c)

\* The assumption on the signed strings carries over to what the pool recovers from them.
LEMMA RecoveredAlone ==
    ASSUME NEW raw \in NodeRaws, Recovered[raw].ok, NEW c \in ClientRaws
    PROVE  \/ LeavesAlone(Recovered[raw].val, c)
           \/ raw \notin OtherRaws /\ Op(raw).sender = Op(c).sender
<1> DEFINE e == Recovered[raw].val
           d == decode_2718_exact(raw)
<1>1. e \in PoolTxs
  BY DEF PoolTxs
<1>2. ActsFor(e.tx, e.signer)
  BY <1>1, PoolTxFacts
<1>3. PoolTransaction(d).ok /\ e = PoolTransaction(d).val
  BY DEF Recovered
<1> HIDE DEF d
<1>4. d.ok /\ PoolTransaction(d) = Ok([tx |-> d.val, signer |-> recover_signer(d.val).val])
  BY <1>3 DEF PoolTransaction
<1>5. e.tx = d.val
  BY <1>3, <1>4 DEF Ok
<1>6. typed_decode(raw).ok /\ d.val = typed_decode(raw).val.tx
  BY <1>4 DEF d, decode_2718_exact, WholeInput, Err, Ok
<1> HIDE DEF e
<1>7. CASE raw.ty \in EthereumTypes
  <2>1. typed_decode(raw) = Ok([tx |-> Ethereum(raw.eth), rest |-> raw.rest])
    BY <1>7 DEF typed_decode
  <2>2. e.tx = Ethereum(raw.eth)
    BY <1>5, <1>6, <2>1 DEF Ok
  <2>3. ~IsCosmos(e.tx) /\ e.tx.tx = raw.eth
    BY <2>2 DEF Ethereum, IsCosmos
  <2>4. e.signer = raw.eth.signer /\ Fields(e.tx) = Accessors(raw.eth)
    BY <1>2, <2>3 DEF ActsFor, Fields
  <2>5. Avoids(raw.eth.signer, raw.eth, c)
    BY <1>7, NodeAssumption
  <2> QED
    BY <2>4, <2>5 DEF e, LeavesAlone, Avoids, Accessors
<1>8. CASE raw.ty \notin EthereumTypes
  <2> DEFINE one == [raw EXCEPT !.rest = 0]
  <2>1. /\ typed_decode(raw) = Ok([tx |-> SignedTx(one.payload.op, one.key, one.sig),
                                   rest |-> raw.rest])
        /\ one = encode_wire(one.payload.op, one.key, one.sig)
    BY <1>6, <1>8, DecodedCosmos
  <2>2. DOMAIN one = DOMAIN raw
    OBVIOUS
  <2>3. {"payload", "key", "sig"} \subseteq DOMAIN encode_wire(one.payload.op, one.key, one.sig)
    BY DEF encode_wire
  <2>4. {"payload", "key", "sig"} \subseteq DOMAIN raw
    BY <2>1, <2>2, <2>3
  <2>5. one.payload.op = Op(raw) /\ one.key = raw.key /\ one.sig = raw.sig
    BY <2>4 DEF Op
  <2> HIDE DEF one
  <2>6. e.tx = SignedTx(Op(raw), raw.key, raw.sig)
    BY <1>5, <1>6, <2>1, <2>5 DEF Ok
  <2>7. /\ IsCosmos(e.tx) /\ e.tx.operation = Op(raw) /\ e.tx.public_key = raw.key
        /\ e.tx.signature.rs = raw.sig
    BY <2>6 DEF SignedTx, IsCosmos
  <2>8. /\ e.signer = Op(raw).sender /\ Fields(e.tx) = Accessors(Op(raw))
        /\ Authorized(Op(raw), raw.key, raw.sig)
    BY <1>2, <2>7 DEF ActsFor, Fields
  <2>9. \/ Avoids(Op(raw).sender, Op(raw), c)
        \/ raw \notin OtherRaws /\ Op(raw).sender = Op(c).sender
    BY <1>8, <2>8, NodeAssumption
  <2> QED
    BY <2>8, <2>9 DEF e, LeavesAlone, Avoids, Accessors
<1> QED
  BY <1>7, <1>8

\* A pool transaction is the same client account's, or leaves the client's accounts alone.
LEMMA Strangers ==
    ASSUME NEW e \in PoolTxs, NEW c \in Mine
    PROVE  \/ LeavesAlone(e, c)
           \/ \E d \in Mine : e = Recovered[d].val /\ Op(d).sender = Op(c).sender
<1>1. PICK raw \in NodeRaws : Recovered[raw].ok /\ e = Recovered[raw].val
  BY DEF PoolTxs
<1>2. \/ LeavesAlone(e, c)
      \/ raw \notin OtherRaws /\ Op(raw).sender = Op(c).sender
  BY <1>1, RecoveredAlone DEF Mine
<1>3. raw \notin OtherRaws => raw \in Mine
  BY <1>1 DEF NodeRaws, Mine
<1> QED
  BY <1>1, <1>2, <1>3

\* What the client expects to pay.
Paid(c) == IF Expects(c) THEN Op(c).value ELSE 0

\* The environment of a pool transaction, field by field.
LEMMA EnvFields ==
    ASSUME NEW e \in PoolTxs
    PROVE  LET env == EnvOf(e).val
               f == Fields(e.tx)
           IN  /\ env.caller = e.signer /\ env.to = f.to /\ env.value = f.value
               /\ env.gas_limit = f.gas_limit /\ env.gas_price = f.max_fee_per_gas
               /\ env.data = f.input /\ env.nonce = f.nonce
               /\ env.gas_priority_fee = f.max_priority_fee_per_gas
<1> DEFINE f == Fields(e.tx)
<1>1. ActsFor(e.tx, e.signer)
  BY PoolTxFacts
<1>2. IsCosmos(e.tx) => e.signer = e.tx.operation.sender
  BY <1>1 DEF ActsFor
<1>3. EnvOf(e) = Ok([tx_type |-> IF IsCosmos(e.tx) THEN 2 ELSE ty(e.tx), caller |-> e.signer,
             gas_limit |-> f.gas_limit, gas_price |-> f.max_fee_per_gas, to |-> f.to,
             value |-> f.value, data |-> f.input, nonce |-> f.nonce,
             gas_priority_fee |-> f.max_priority_fee_per_gas])
  BY <1>2 DEF EnvOf, from_recovered_tx
<1> HIDE DEF f
<1> QED
  BY <1>3 DEF Ok, f

\* What a transaction does to the balance of an account.
Moved(env, a) ==
    LET tip == EffectiveTip(env, BASE_FEE)
        value == IF Succeeds(env) THEN env.value ELSE 0
    IN  (IF a = env.caller THEN 0 - value - GasUsed(env) * (BASE_FEE + tip) ELSE 0)
        + (IF a = env.to THEN value ELSE 0)
        + (IF a = Beneficiary THEN GasUsed(env) * tip ELSE 0)

LEMMA AppliedBalance ==
    ASSUME NEW env, NEW w, NEW a \in Accounts
    PROVE  Applied(env, w, BASE_FEE).balance[a] = w.balance[a] + Moved(env, a)
  BY DEF Applied, Moved

\* Others change neither the balances nor the nonces the client watches.
LEMMA AloneApplied ==
    ASSUME NEW e \in PoolTxs, NEW c \in Mine, LeavesAlone(e, c), NEW w \in Worlds,
           NEW a \in Touched(c)
    PROVE  LET v == Applied(EnvOf(e).val, w, BASE_FEE) IN
           v.balance[a] = w.balance[a] /\ v.nonce[a] = w.nonce[a]
<1> DEFINE env == EnvOf(e).val
           v == Applied(env, w, BASE_FEE)
<1>1. a \in Accounts /\ a # Beneficiary
  BY MineFacts, NodeAssumption DEF Touched
<1>2. GoodEnv(env)
  BY PoolEnvFacts
<1>3. env.caller = e.signer /\ env.to = Fields(e.tx).to /\ env.value = Fields(e.tx).value
  BY EnvFields
<1>4. a # env.caller /\ (env.value > 0 => a # env.to)
  BY <1>3 DEF LeavesAlone, Avoids
<1> HIDE DEF env
<1>5. env.value \in Nat /\ env.caller \in Accounts
  BY <1>2 DEF GoodEnv
<1>6. Moved(env, a) = 0
  BY <1>1, <1>4, <1>5 DEF Moved
<1>7. w.balance[a] \in Int /\ w.nonce \in [Accounts -> Nat]
  BY <1>1 DEF Worlds
<1>8. v.balance[a] = w.balance[a]
  BY <1>1, <1>6, <1>7, AppliedBalance
<1>9. v.nonce = [w.nonce EXCEPT ![env.caller] = @ + 1]
  BY <1>2, AppliedFacts, NodeAssumption
<1>10. v.nonce[a] = w.nonce[a]
  BY <1>1, <1>4, <1>7, <1>9
<1> QED
  BY <1>8, <1>10 DEF env

\* The client's own transaction costs what its receipt will say, and succeeds as expected.
LEMMA OwnApplied ==
    ASSUME NEW c \in Mine, NEW w \in Worlds, NEW gas,
           Buildable(Recovered[c].val, w, gas)
    PROVE  LET e == Recovered[c].val
               env == EnvOf(e).val
               v == Applied(env, w, BASE_FEE)
               fee == GasUsed(env) * effective_gas_price(e.tx, BASE_FEE)
           IN  /\ Succeeds(env) <=> Expects(c)
               /\ fee > 0
               /\ v.balance[Op(c).sender] = w.balance[Op(c).sender] - fee - Paid(c)
               /\ v.balance[Op(c).to] = w.balance[Op(c).to] + Paid(c)
<1> DEFINE e == Recovered[c].val
           env == EnvOf(e).val
           g == GasUsed(env)
           price == effective_gas_price(e.tx, BASE_FEE)
           tip == EffectiveTip(env, BASE_FEE)
<1>1. /\ c \in ClientRaws /\ e \in PoolTxs /\ e.signer = Op(c).sender
      /\ Op(c).sender \in Accounts /\ Op(c).to \in Accounts /\ Fields(e.tx) = Accessors(Op(c))
      /\ ChainFields(Op(c))
  BY MineFacts
<1> HIDE DEF e
<1>2. /\ env.caller = Op(c).sender /\ env.to = Op(c).to /\ env.value = Op(c).value
      /\ env.gas_limit = Op(c).gas_limit /\ env.gas_price = Op(c).max_fee_per_gas
      /\ env.data = Op(c).input /\ env.gas_priority_fee = Op(c).max_priority_fee_per_gas
  <2>1. /\ env.caller = e.signer /\ env.to = Fields(e.tx).to /\ env.value = Fields(e.tx).value
        /\ env.gas_limit = Fields(e.tx).gas_limit /\ env.gas_price = Fields(e.tx).max_fee_per_gas
        /\ env.data = Fields(e.tx).input
        /\ env.gas_priority_fee = Fields(e.tx).max_priority_fee_per_gas
    BY <1>1, EnvFields
  <2> QED
    BY <1>1, <2>1 DEF Accessors
<1>3. GoodEnv(env) /\ ValidationError(env, w, BASE_FEE, BLOCK_GAS - gas) = "none"
  BY <1>1, PoolEnvFacts DEF Buildable, e
<1> HIDE DEF env
<1>4. ~ (env.gas_price < BASE_FEE)
  BY <1>3 DEF ValidationError
<1>5. /\ Op(c).gas_limit >= MIN_GAS + 16 * Op(c).input
                              + (IF Op(c).to \in Contracts THEN CALL_GAS ELSE 0)
      /\ Beneficiary \notin Touched(c) /\ Op(c).to # Op(c).sender
  BY <1>1, NodeAssumption
<1>6. CallGas(env) <= env.gas_limit /\ CallGas(env) \in Nat /\ CallGas(env) > 0
  BY <1>2, <1>3, <1>5, EvmAssumption DEF CallGas, IntrinsicGas, GoodEnv, MIN_GAS
<1>7. g \in Nat /\ g > 0
  BY <1>6 DEF GasUsed
<1>8. Succeeds(env) <=> Expects(c)
  BY <1>2, <1>6 DEF Succeeds, Expects
<1>9. BASE_FEE \in Nat /\ BASE_FEE > 0
  BY NodeAssumption
<1>10. env.gas_price \in Nat /\ env.gas_priority_fee \in Nat /\ env.value \in Nat
  BY <1>3 DEF GoodEnv
<1>11. price = BASE_FEE + tip /\ tip \in Nat
  <2>1. price = IF BASE_FEE + env.gas_priority_fee <= env.gas_price
                THEN BASE_FEE + env.gas_priority_fee ELSE env.gas_price
    BY <1>1, <1>2 DEF effective_gas_price, Accessors
  <2> QED
    BY <1>4, <1>9, <1>10, <2>1 DEF EffectiveTip
<1> HIDE DEF g, price, tip
<1> DEFINE fee == g * price
<1>12. fee \in Nat /\ fee > 0
  <2>1. price \in Nat /\ price > 0
    BY <1>9, <1>11
  <2>2. \A x, y \in Nat : x > 0 /\ y > 0 => x * y \in Nat /\ x * y > 0
    OBVIOUS
  <2> QED
    BY <1>7, <2>1, <2>2
<1>13. /\ Op(c).sender # Beneficiary /\ Op(c).to # Beneficiary /\ Op(c).to # Op(c).sender
  BY <1>5 DEF Touched
<1>14. fee = g * (BASE_FEE + tip)
  BY <1>11
<1> HIDE DEF fee
<1>15. Paid(c) = (IF Succeeds(env) THEN env.value ELSE 0) /\ Paid(c) \in Nat
  BY <1>2, <1>8, <1>10 DEF Paid
<1>16. /\ Moved(env, Op(c).sender) = 0 - Paid(c) - fee + 0 + 0
       /\ Moved(env, Op(c).to) = 0 + Paid(c) + 0
  BY <1>2, <1>13, <1>14, <1>15 DEF Moved, g, tip
<1>17. w.balance[Op(c).sender] \in Int /\ w.balance[Op(c).to] \in Int
  BY <1>1 DEF Worlds
<1> DEFINE v == Applied(env, w, BASE_FEE)
<1>18. /\ v.balance[Op(c).sender] = w.balance[Op(c).sender] + (0 - Paid(c) - fee + 0 + 0)
       /\ v.balance[Op(c).to] = w.balance[Op(c).to] + (0 + Paid(c) + 0)
  BY <1>1, <1>16, AppliedBalance
<1> HIDE DEF v
<1>19. /\ v.balance[Op(c).sender] = w.balance[Op(c).sender] - fee - Paid(c)
       /\ v.balance[Op(c).to] = w.balance[Op(c).to] + Paid(c)
  BY <1>12, <1>15, <1>17, <1>18
<1> QED
  BY <1>8, <1>12, <1>19 DEF v, fee, g, price, env, e

\* What the receipt of transaction i of b says it cost.
FeeAt(b, i) == GasOf(b, i) * effective_gas_price(b.txs[i], BASE_FEE)

\* The block b, which leads from w to v, and the accounts of the client's transaction c.
Quiet(c, b, w, v) ==
    /\ \A i \in 1 .. Len(b.txs) : b.callers[i] # Op(c).sender
    /\ v.nonce[Op(c).sender] = w.nonce[Op(c).sender]
    /\ \A a \in Touched(c) : v.balance[a] = w.balance[a]

\* It has c, which did as the client expects.
Settled(c, b, i, w, v) ==
    /\ b.receipts[i].success = Expects(c) /\ b.receipts[i].tx_type = TX_TYPE
    /\ FeeAt(b, i) > 0
    /\ v.balance[Op(c).sender] = w.balance[Op(c).sender] - FeeAt(b, i) - Paid(c)
    /\ v.balance[Op(c).to] = w.balance[Op(c).to] + Paid(c)

\* It has one transaction of the same account, d.
OnceBy(c, d, b, i, w, v) ==
    /\ Op(d).sender = Op(c).sender /\ b.txs[i] = Recovered[d].val.tx
    /\ \A j \in 1 .. Len(b.txs) : b.callers[j] = Op(c).sender <=> j = i
    /\ Op(d).nonce = w.nonce[Op(c).sender]
    /\ v.nonce[Op(c).sender] = w.nonce[Op(c).sender] + 1
    /\ d = c => Settled(c, b, i, w, v)

Effect(c, b, w, v) ==
    \/ Quiet(c, b, w, v)
    \/ \E d \in Mine, i \in 1 .. Len(b.txs) : OnceBy(c, d, b, i, w, v)

LEMMA BuildableNonce ==
    ASSUME NEW e \in PoolTxs, NEW w \in Worlds, NEW gas, Buildable(e, w, gas)
    PROVE  Fields(e.tx).nonce = w.nonce[e.signer]
<1> DEFINE env == EnvOf(e).val
<1>1. /\ GoodEnv(env) /\ env.caller = e.signer /\ env.nonce = Fields(e.tx).nonce
      /\ ValidationError(env, w, BASE_FEE, BLOCK_GAS - gas) = "none"
  BY PoolEnvFacts DEF Buildable
<1> HIDE DEF env
<1>2. ~ (env.nonce < w.nonce[env.caller]) /\ ~ (env.nonce > w.nonce[env.caller])
  BY <1>1 DEF ValidationError
<1>3. env.nonce \in Nat /\ w.nonce[env.caller] \in Nat
  BY <1>1 DEF GoodEnv, Worlds
<1> QED
  BY <1>1, <1>2, <1>3

\* One more transaction in the block under construction.
LEMMA EffectNext ==
    ASSUME NEW b, NEW w \in Worlds, NEW ws, NEW gs, Traced(b, w, ws, gs), NEW e \in PoolTxs,
           Buildable(e, b.world, b.gas), NEW x, x = Extended(b, e), NEW c \in Mine,
           e.signer = Op(c).sender => Fields(e.tx).nonce <= w.nonce[e.signer],
           Effect(c, b, w, b.world)
    PROVE  Effect(c, x, w, x.world)
<1> DEFINE n == Len(b.txs)
           env == EnvOf(e).val
           gas == b.gas + GasUsed(env)
           rc == build_receipt(e.tx, env, gas)
           v == Applied(env, b.world, BASE_FEE)
           s == Op(c).sender
<1>1. /\ b \in BuiltBlocks /\ Len(b.callers) = n /\ Len(b.receipts) = n
      /\ gs \in [0 .. n -> Nat] /\ gs[0] = 0 /\ gs[n] = b.gas
      /\ \A i \in 1 .. n : Step(b, i, ws[i - 1], gs[i - 1], ws[i], gs[i])
  BY DEF Traced
<1>2. /\ b.txs \in Seq(DecodedTxs) /\ b.callers \in Seq(Accounts)
      /\ b.receipts \in Seq(Receipts) /\ b.gas \in Nat /\ b.world \in Worlds /\ n \in Nat
  BY <1>1 DEF BuiltBlocks
<1>3. e.tx \in DecodedTxs /\ e.signer \in Accounts /\ GoodEnv(env) /\ env.caller = e.signer
  BY PoolTxFacts, PoolEnvFacts
<1>4. GasUsed(env) \in Nat /\ v.nonce = [b.world.nonce EXCEPT ![e.signer] = @ + 1]
  <2>1. BASE_FEE \in Nat
    BY NodeAssumption
  <2> HIDE DEF env
  <2>2. /\ GasUsed(env) \in Nat
        /\ Applied(env, b.world, BASE_FEE).nonce = [b.world.nonce EXCEPT ![env.caller] = @ + 1]
    BY <1>2, <1>3, <2>1, AppliedFacts
  <2> QED
    BY <1>3, <2>2
<1>5. Fields(e.tx).nonce = b.world.nonce[e.signer]
  BY <1>2, BuildableNonce
<1> HIDE DEF env
<1>6. gas \in Nat /\ gas = b.gas + GasUsed(env)
  BY <1>2, <1>4
<1> HIDE DEF gas
<1>7. rc \in Receipts
  <2>1. ty(e.tx) \in EthereumTypes \cup {TX_TYPE}
    BY <1>3, TxFields
  <2>2. Succeeds(env) \in BOOLEAN
    BY DEF Succeeds
  <2> QED
    BY <1>6, <2>1, <2>2 DEF build_receipt, Receipts
<1> HIDE DEF v, rc
<1>8. /\ x.txs = Append(b.txs, e.tx) /\ x.callers = Append(b.callers, e.signer)
      /\ x.receipts = Append(b.receipts, rc) /\ x.world = v
  BY <1>1 DEF BuiltBlocks, Extended, env, gas, v, rc
<1>9. /\ Len(x.txs) = n + 1 /\ x.txs[n + 1] = e.tx /\ x.callers[n + 1] = e.signer
      /\ x.receipts[n + 1] = rc
      /\ \A i \in 1 .. n : /\ x.txs[i] = b.txs[i] /\ x.callers[i] = b.callers[i]
                           /\ x.receipts[i] = b.receipts[i]
  <2>1. Len(x.txs) = n + 1 /\ x.txs[n + 1] = e.tx /\ \A i \in 1 .. n : x.txs[i] = b.txs[i]
    BY <1>2, <1>3, <1>8, Appended
  <2>2. x.callers[n + 1] = e.signer /\ \A i \in 1 .. n : x.callers[i] = b.callers[i]
    BY <1>1, <1>2, <1>3, <1>8, Appended
  <2>3. x.receipts[n + 1] = rc /\ \A i \in 1 .. n : x.receipts[i] = b.receipts[i]
    BY <1>1, <1>2, <1>7, <1>8, Appended
  <2> QED
    BY <2>1, <2>2, <2>3
<1>10. GasOf(x, n + 1) = GasUsed(env)
  <2>1. rc.cumulative_gas_used = b.gas + GasUsed(env)
    BY <1>6 DEF rc, build_receipt
  <2>2. CASE n = 0
    BY <1>1, <1>2, <1>4, <1>9, <2>1, <2>2 DEF GasOf
  <2>3. CASE n > 0
    <3>1. n \in 1 .. n /\ n + 1 # 1 /\ (n + 1) - 1 = n
      BY <1>2, <2>3
    <3>2. Step(b, n, ws[n - 1], gs[n - 1], ws[n], gs[n])
      BY <1>1, <3>1
    <3>3. b.receipts[n].cumulative_gas_used = b.gas
      BY <1>1, <3>2 DEF Step, build_receipt
    <3>4. x.receipts[n] = b.receipts[n]
      BY <1>9, <3>1
    <3>5. GasOf(x, n + 1) = rc.cumulative_gas_used - b.receipts[n].cumulative_gas_used
      BY <1>9, <3>1, <3>4 DEF GasOf
    <3> QED
      BY <1>2, <1>4, <2>1, <3>3, <3>5
  <2> QED
    BY <1>2, <2>2, <2>3
<1>11. \A i \in 1 .. n : FeeAt(x, i) = FeeAt(b, i)
  <2> SUFFICES ASSUME NEW i \in 1 .. n PROVE FeeAt(x, i) = FeeAt(b, i)
    OBVIOUS
  <2>1. i = 1 \/ i - 1 \in 1 .. n
    BY <1>2
  <2>2. GasOf(x, i) = GasOf(b, i)
    BY <1>9, <2>1 DEF GasOf
  <2> QED
    BY <1>9, <2>2 DEF FeeAt
<1>12. s \in Accounts /\ s \in Touched(c) /\ Op(c).to \in Touched(c) /\ Op(c).to \in Accounts
  BY MineFacts DEF Touched
<1>13. n + 1 \in 1 .. n + 1 /\ \A i \in 1 .. n + 1 : i \in 1 .. n \/ i = n + 1
  BY <1>2
<1>13a. \A i \in 1 .. n : i \in 1 .. n + 1 /\ i # n + 1
  BY <1>2
<1> HIDE DEF n, s
<1>14. CASE LeavesAlone(e, c)
  <2>1. \A a \in Touched(c) : v.balance[a] = b.world.balance[a] /\ v.nonce[a] = b.world.nonce[a]
    BY <1>2, <1>14, AloneApplied DEF v, env
  <2>2. e.signer # s
    BY <1>12, <1>14 DEF LeavesAlone, Avoids
  <2>3. CASE Quiet(c, b, w, b.world)
    <3>1. \A i \in 1 .. n + 1 : x.callers[i] # s
      BY <1>9, <1>13, <2>2, <2>3 DEF Quiet, s, n
    <3>2. v.nonce[s] = w.nonce[s] /\ \A a \in Touched(c) : v.balance[a] = w.balance[a]
      BY <1>12, <2>1, <2>3 DEF Quiet, s
    <3> QED
      BY <1>8, <1>9, <3>1, <3>2 DEF Effect, Quiet, s
  <2>4. CASE \E d \in Mine, i \in 1 .. n : OnceBy(c, d, b, i, w, b.world)
    <3>1. PICK d \in Mine, i \in 1 .. n : OnceBy(c, d, b, i, w, b.world)
      BY <2>4
    <3>2. x.txs[i] = b.txs[i] /\ x.receipts[i] = b.receipts[i] /\ FeeAt(x, i) = FeeAt(b, i)
      BY <1>9, <1>11
    <3>3. \A j \in 1 .. n + 1 : x.callers[j] = s <=> j = i
      BY <1>9, <1>13, <1>13a, <2>2, <3>1 DEF OnceBy, s, n
    <3>4. v.nonce[s] = w.nonce[s] + 1
      BY <1>12, <2>1, <3>1 DEF OnceBy, s
    <3>5. ASSUME d = c PROVE Settled(c, x, i, w, v)
      BY <1>12, <2>1, <3>1, <3>2, <3>5 DEF OnceBy, Settled, s
    <3>6. OnceBy(c, d, x, i, w, v)
      BY <1>9, <3>1, <3>2, <3>3, <3>4, <3>5 DEF OnceBy, s
    <3> QED
      BY <1>8, <1>9, <1>13a, <3>6 DEF Effect
  <2> QED
    BY <2>3, <2>4 DEF Effect, n
<1>15. CASE \E d \in Mine : e = Recovered[d].val /\ Op(d).sender = Op(c).sender
  <2>1. PICK d \in Mine : e = Recovered[d].val /\ Op(d).sender = Op(c).sender
    BY <1>15
  <2>2. e.signer = s /\ Fields(e.tx).nonce = Op(d).nonce /\ ty(e.tx) = TX_TYPE
    <3>1. /\ e.signer = Op(d).sender /\ Fields(e.tx) = Accessors(Op(d)) /\ ty(e.tx) = TX_TYPE
      BY <2>1, MineFacts
    <3>2. Accessors(Op(d)).nonce = Op(d).nonce
      BY DEF Accessors
    <3> QED
      BY <2>1, <3>1, <3>2 DEF s
  <2>3. Op(d).nonce = b.world.nonce[s] /\ Op(d).nonce <= w.nonce[s]
    BY <1>5, <2>2 DEF s
  <2>4. w.nonce[s] \in Nat /\ b.world.nonce[s] \in Nat /\ b.world.nonce \in [Accounts -> Nat]
    BY <1>2, <1>12 DEF Worlds
  <2>5. Quiet(c, b, w, b.world)
    <3>1. ASSUME NEW i, NEW f, OnceBy(c, f, b, i, w, b.world) PROVE FALSE
      <4>1. b.world.nonce[s] = w.nonce[s] + 1
        BY <3>1 DEF OnceBy, s
      <4> QED
        BY <2>3, <2>4, <4>1
    <3> QED
      BY <3>1 DEF Effect
  <2>6. \A j \in 1 .. n + 1 : x.callers[j] = s <=> j = n + 1
    BY <1>9, <1>13, <1>13a, <2>2, <2>5 DEF Quiet, s, n
  <2>7. Op(d).nonce = w.nonce[s] /\ v.nonce[s] = w.nonce[s] + 1
    <3>1. b.world.nonce[s] = w.nonce[s]
      BY <2>5 DEF Quiet, s
    <3> QED
      BY <1>4, <1>12, <2>2, <2>3, <2>4, <3>1
  <2>8. ASSUME d = c PROVE Settled(c, x, n + 1, w, v)
    <3> DEFINE fee == GasUsed(env) * effective_gas_price(e.tx, BASE_FEE)
    <3>1. /\ Succeeds(env) <=> Expects(c)
          /\ fee > 0
          /\ v.balance[Op(c).sender] = b.world.balance[Op(c).sender] - fee - Paid(c)
          /\ v.balance[Op(c).to] = b.world.balance[Op(c).to] + Paid(c)
      BY <1>2, <2>1, <2>8, OwnApplied DEF v, env
    <3>2. FeeAt(x, n + 1) = fee
      BY <1>9, <1>10 DEF FeeAt
    <3>3. rc.tx_type = TX_TYPE /\ rc.success = Succeeds(env)
      BY <2>2 DEF rc, build_receipt
    <3>4. rc.success = Expects(c)
      BY <3>1, <3>3 DEF Succeeds, Expects
    <3>5. /\ b.world.balance[Op(c).sender] = w.balance[Op(c).sender]
          /\ b.world.balance[Op(c).to] = w.balance[Op(c).to]
      BY <1>12, <2>5 DEF Quiet, s
    <3> HIDE DEF fee
    <3> QED
      BY <1>9, <3>1, <3>2, <3>3, <3>4, <3>5 DEF Settled
  <2>9. OnceBy(c, d, x, n + 1, w, v)
    BY <1>9, <2>1, <2>6, <2>7, <2>8 DEF OnceBy, s
  <2> QED
    BY <1>8, <1>9, <1>13, <2>9 DEF Effect
<1> QED
  BY <1>14, <1>15, Strangers

LEMMA EffectSame ==
    ASSUME NEW c, NEW b, NEW x, NEW w, NEW v, Effect(c, b, w, v),
           x.txs = b.txs, x.callers = b.callers, x.receipts = b.receipts
    PROVE  Effect(c, x, w, v)
<1>1. \A i : FeeAt(x, i) = FeeAt(b, i)
  BY DEF FeeAt, GasOf
<1>2. \A i : Settled(c, b, i, w, v) => Settled(c, x, i, w, v)
  BY <1>1 DEF Settled
<1>3. \A d, i : OnceBy(c, d, b, i, w, v) => OnceBy(c, d, x, i, w, v)
  BY <1>2 DEF OnceBy
<1>4. Quiet(c, b, w, v) => Quiet(c, x, w, v)
  BY DEF Quiet
<1> QED
  BY <1>3, <1>4 DEF Effect

\* What is in the pool or on its way there.
Coming == pool \cup {Recovered[raw].val : raw \in late \cap Mine}

\* The chain and the state the next request is answered from, now or after the next start.
NowHead == IF mode = "down" THEN DbChain ELSE head
NowWorld == IF mode = "down" THEN dbworld ELSE world

\* The pool has no transaction of a client account ahead of its turn, and the miner's
\* block does to the client's accounts what the client expects of it.
PoolBehind ==
    \A e \in Coming, c \in Mine :
        e.signer = Op(c).sender => Fields(e.tx).nonce <= world.nonce[e.signer]
PInv ==
    /\ PoolBehind
    /\ built # NoBlock => \A c \in Mine : Effect(c, built, world, built.world)

\* The client has reason to wait for its transaction.
Ful(k) ==
    \/ k.phase \in {"polling", "verifying"}
    \/ k.phase = "sending" /\ "fulfilled" \in k.results

\* From the account of c nothing beyond c is under way, in the state w, the pool pl and
\* the miner's block b.
NoneBeyond(c, w, pl, b) ==
    /\ w.nonce[Op(c).sender] \in {Op(c).nonce, Op(c).nonce + 1}
    /\ \A e \in pl : e.signer = Op(c).sender => Fields(e.tx).nonce <= Op(c).nonce
    /\ b # NoBlock =>
         \A i \in 1 .. Len(b.txs) :
             b.callers[i] = Op(c).sender => Fields(b.txs[i]).nonce <= Op(c).nonce

\* Transaction i of block n of the chain h is c.
Found(c, h, n, i) ==
    n \in 1 .. Len(h) /\ i \in 1 .. Len(h[n].txs) /\ tx_hash(h[n].txs[i]) = transaction_hash(c)

\* Receipt i of the block b is the one the client k waits for, and the balances agree
\* with it.
FeeIn(b, i) == GasOf(b, i) * effective_gas_price(b.txs[i], b.base_fee)
Good(k, b, i, w) ==
    /\ b.receipts[i].success = Expects(k.raw) /\ b.receipts[i].tx_type = TX_TYPE
    /\ b.callers[i] = Op(k.raw).sender
    /\ FeeIn(b, i) > 0
    /\ w.balance[Op(k.raw).sender] = k.before - FeeIn(b, i) - Paid(k.raw)
    /\ w.balance[Op(k.raw).to] = k.toBefore + Paid(k.raw)

\* What the client has read is still so as long as its nonce is not used; once it is used,
\* and if by its own transaction, the difference is what the receipt says.
Turn(k, w) == w.nonce[Op(k.raw).sender] = Op(k.raw).nonce
Remembers(k, h, w) ==
    /\ k.phase # "signed" /\ Turn(k, w) => k.before = w.balance[Op(k.raw).sender]
    /\ k.phase \notin {"signed", "read"} /\ Turn(k, w) => k.toBefore = w.balance[Op(k.raw).to]
    /\ Ful(k) /\ ~Turn(k, w) => \A n, i : Found(k.raw, h, n, i) => Good(k, h[n], i, w)
    /\ k.phase = "verifying" => \E n, i : Found(k.raw, h, n, i) /\ k.fee = FeeIn(h[n], i)

\* The client's own variables.
Shaped(k) ==
    /\ k.phase = "sending" =>
         k = [phase |-> "sending", raw |-> k.raw, calls |-> k.calls, twice |-> k.twice,
              results |-> k.results, before |-> k.before, toBefore |-> k.toBefore]
    /\ k.phase = "polling" =>
         k = [phase |-> "polling", raw |-> k.raw, polls |-> k.polls, before |-> k.before,
              toBefore |-> k.toBefore]
    /\ k.phase = "verifying" =>
         /\ k = [phase |-> "verifying", raw |-> k.raw, request |-> k.request, fee |-> k.fee,
                 before |-> k.before, toBefore |-> k.toBefore]
         /\ k.request \in 1 .. Requests

CInv ==
    /\ Shaped(client)
    /\ Ful(client) => client.raw \in Mine
    /\ client.phase \in Working /\ client.raw \in Mine =>
         NoneBeyond(client.raw, NowWorld, Coming, built) /\ Remembers(client, NowHead, NowWorld)

\* Nothing is under way while the process is down; the rest holds unless a stop took blocks
\* back from a run.
QInv ==
    /\ mode = "down" => pool = {} /\ late = {}
    /\ ~taken => PInv /\ CInv

\* A step of a running node that leaves the chain alone.
LEMMA Answers ==
    ASSUME mode = "node", UNCHANGED vars
    PROVE  /\ NowWorld = world /\ NowHead = head /\ NowWorld' = world /\ NowHead' = head
           /\ world' = world /\ head' = head
  BY DEF NowWorld, NowHead, vars, world

LEMMA ComingSame ==
    ASSUME UNCHANGED <<pool, late>> PROVE Coming' = Coming
  BY DEF Coming

LEMMA PlaceFacts ==
    ASSUME IInv, NEW c \in Mine, NEW n, NEW i, Found(c, head, n, i)
    PROVE  head[n].txs[i] = Recovered[c].val.tx /\ head[n].callers[i] = Op(c).sender
<1>0. /\ n \in 1 .. Len(head) /\ i \in 1 .. Len(head[n].txs)
      /\ tx_hash(head[n].txs[i]) = transaction_hash(c)
  BY DEF Found
<1>1. head[n] \in HeadBlocks
  BY <1>0 DEF IInv, TypeOK
<1>2. head[n].txs[i] \in DecodedTxs
  BY <1>0, <1>1 DEF HeadBlocks
<1>3. head[n].txs[i] = Recovered[c].val.tx
  BY <1>0, <1>2, MineHash
<1>4. ActsFor(head[n].txs[i], head[n].callers[i])
  BY <1>0 DEF IInv, AuthorizedHistory, AllActFor
<1>5. Recovered[c].val.tx = SignedTx(Op(c), c.key, c.sig)
  BY MineFacts
<1>6. IsCosmos(Recovered[c].val.tx) /\ Recovered[c].val.tx.operation = Op(c)
  BY <1>5 DEF SignedTx, IsCosmos
<1> QED
  BY <1>3, <1>4, <1>6 DEF ActsFor

\* As long as its nonce is not used, a transaction is not in the chain.
LEMMA NotYet ==
    ASSUME IInv, NonceDiscipline, mode # "down", NEW c \in Mine,
           world.nonce[Op(c).sender] = Op(c).nonce, NEW n, NEW i
    PROVE  ~Found(c, head, n, i)
<1> SUFFICES ASSUME Found(c, head, n, i) PROVE FALSE
  OBVIOUS
<1>0. n \in 1 .. Len(head) /\ i \in 1 .. Len(head[n].txs)
  BY DEF Found
<1>1. head[n].txs[i] = Recovered[c].val.tx /\ head[n].callers[i] = Op(c).sender
  BY PlaceFacts
<1>2. Fields(Recovered[c].val.tx) = Accessors(Op(c)) /\ Op(c).nonce \in Nat
  BY MineFacts DEF ChainFields
<1>3. Fields(head[n].txs[i]).nonce = Op(c).nonce
  BY <1>1, <1>2 DEF Accessors
<1>4. SlotAt(head, n, i)[2] < world.nonce[SlotAt(head, n, i)[1]]
  BY <1>0 DEF NonceDiscipline, Disciplined, NoncesUsed
<1>5. Op(c).nonce < world.nonce[Op(c).sender]
  BY <1>1, <1>3, <1>4 DEF SlotAt
<1> QED
  BY <1>2, <1>5

----------------------------------------------------------------------------
(* The client: the pool and the miner's block                                *)

\* Nobody else sends for a client account.
LEMMA OtherSigner ==
    ASSUME NEW raw \in OtherRaws, Recovered[raw].ok, NEW c \in Mine
    PROVE  Recovered[raw].val.signer # Op(c).sender
<1>1. raw \in NodeRaws /\ c \in ClientRaws
  BY DEF NodeRaws, Mine
<1>2. LeavesAlone(Recovered[raw].val, c)
  BY <1>1, RecoveredAlone
<1> QED
  BY <1>2 DEF LeavesAlone, Avoids, Touched

\* The new head is the miner's block, and the state the one it built.
LEMMA CommitFacts ==
    ASSUME IInv, NInv, Commit
    PROVE  LET x == [txs |-> built.txs, callers |-> built.callers,
                     receipts |-> built.receipts, base_fee |-> BASE_FEE]
           IN  /\ built # NoBlock /\ mode = "node" /\ mode' = "node"
               /\ Len(head) \in Nat /\ Len(head') = Len(head) + 1
               /\ head'[Len(head) + 1] = x
               /\ \A n \in 1 .. Len(head) : head'[n] = head[n]
               /\ world \in Worlds /\ world' = built.world /\ built \in BuiltBlocks
<1> DEFINE x == [txs |-> built.txs, callers |-> built.callers,
                 receipts |-> built.receipts, base_fee |-> BASE_FEE]
<1>1. Executed /\ Busy
  BY DEF Commit, Executed
<1>2. /\ built # NoBlock /\ job.block.base_fee = BASE_FEE /\ job.txs = built.txs
      /\ job.callers = built.callers /\ job.receipts = built.receipts
      /\ job.world = built.world
  BY <1>1, JobIsBuilt
<1>3. head' = Append(head, x) /\ worlds' = Append(worlds, built.world) /\ mode' = mode
  BY <1>2 DEF Commit
<1>4. /\ head \in Seq(HeadBlocks) /\ worlds \in Seq(Worlds) /\ Len(worlds) = Len(head) + 1
  BY DEF IInv, TypeOK
<1>5. mode = "node" /\ built \in BuiltBlocks
  BY <1>1, JobPrefix DEF Traced
<1>6. world \in Worlds
  BY <1>4 DEF world
<1>7. world' = built.world
  BY <1>3, <1>4 DEF world
<1> HIDE DEF x
<1>8. /\ Len(head) \in Nat /\ Len(head') = Len(head) + 1 /\ head'[Len(head) + 1] = x
      /\ \A n \in 1 .. Len(head) : head'[n] = head[n]
  BY <1>3, <1>4
<1> QED
  BY <1>2, <1>3, <1>5, <1>6, <1>7, <1>8 DEF x

\* A block advances the nonce of a client account by at most one.
LEMMA EffectNonce ==
    ASSUME NEW c \in Mine, NEW b, NEW w \in Worlds, NEW v, Effect(c, b, w, v)
    PROVE  LET s == Op(c).sender IN
           /\ w.nonce[s] \in Nat
           /\ v.nonce[s] = w.nonce[s] \/ v.nonce[s] = w.nonce[s] + 1
<1>1. Op(c).sender \in Accounts
  BY MineFacts
<1>2. w.nonce[Op(c).sender] \in Nat
  BY <1>1 DEF Worlds
<1> QED
  BY <1>2 DEF Effect, Quiet, OnceBy

\* The steps, as far as the chain is concerned.
LEMMA StepKinds ==
    ASSUME [NodeNext]_allvars
    PROVE  /\ \/ Boot \/ Stop
              \/ Commit /\ built' = NoBlock /\ UNCHANGED <<pool, client, late>>
              \/ UNCHANGED <<mode, head, worlds>> /\ (mode = "down" => UNCHANGED <<db, dbworld>>)
           /\ Stop \/ taken' = taken
<1> QED
  BY DEF NodeNext, allvars, nodevars, vars, Boot, StartBuild, BuildTx, SubmitBuilt, Engine, Store,
         SendOther, Maintain, ReadNonce, ReadBalance, ReadToBalance, Send, LoseCall, LateCall,
         Poll, Verify, TimeOut, Submit, Validate, ExecuteNext, Persist

\* What comes up anew is of others, or the client's.
LEMMA Comes ==
    ASSUME NInv, [NodeNext]_allvars, NEW e \in Coming', e \notin Coming, NEW d \in Mine,
           e.signer = Op(d).sender
    PROVE  /\ (Send /\ Admitted(client.raw)) \/ LoseCall
           /\ client.phase = "sending" /\ client.raw \in Mine /\ e = Recovered[client.raw].val
<1>1. pool \subseteq Coming /\ \A raw \in late \cap Mine : Recovered[raw].val \in Coming
  BY DEF Coming
<1>2. CASE e \in pool'
  <2>1. CASE \E raw \in OtherRaws : SendOther(raw)
    <3>1. PICK raw \in OtherRaws : Recovered[raw].ok /\ pool' = With(Recovered[raw].val)
      BY <2>1 DEF SendOther, Admitted
    <3>2. e = Recovered[raw].val
      BY <1>1, <1>2, <3>1 DEF With
    <3> QED
      BY <3>1, <3>2, OtherSigner
  <2>2. CASE Send
    <3>1. client.phase = "sending" /\ client.raw \in ClientRaws
      BY <2>2 DEF Send, NInv
    <3>2. /\ Admitted(client.raw) /\ Recovered[client.raw].ok
          /\ pool' = With(Recovered[client.raw].val)
      BY <1>1, <1>2, <2>2 DEF Send, Admitted
    <3>3. e = Recovered[client.raw].val /\ client.raw \in Mine
      BY <1>1, <1>2, <3>1, <3>2 DEF With, Mine
    <3> QED
      BY <2>2, <3>1, <3>2, <3>3
  <2>3. CASE Maintain \/ Stop
    BY <1>1, <1>2, <2>3 DEF Maintain, Stop
  <2>4. CASE \E raw \in late : LateCall(raw)
    <3>1. PICK raw \in late : LateCall(raw)
      BY <2>4
    <3>2. raw \in ClientRaws
      BY DEF NInv
    <3>3. Recovered[raw].ok /\ pool' = With(Recovered[raw].val)
      BY <1>1, <1>2, <3>1 DEF LateCall, Admitted
    <3>4. raw \in Mine /\ e = Recovered[raw].val
      BY <1>1, <1>2, <3>2, <3>3 DEF With, Mine
    <3> QED
      BY <1>1, <3>4
  <2> QED
    BY <1>1, <1>2, <2>1, <2>2, <2>3, <2>4, PoolSteps
<1>3. CASE e \notin pool'
  <2>1. PICK raw \in late' \cap Mine : e = Recovered[raw].val
    BY <1>3 DEF Coming
  <2>2. raw \notin late
    BY <1>1, <2>1
  <2>3. LoseCall /\ raw = client.raw
    BY <2>1, <2>2, PoolSteps DEF Stop, LoseCall, LateCall
  <2> QED
    BY <2>1, <2>3 DEF LoseCall
<1> QED
  BY <1>2, <1>3

LEMMA PoolBehindKept ==
    ASSUME IInv, NInv, QInv, ~taken, ~Stop, [NodeNext]_allvars PROVE PoolBehind'
<1>0. PInv /\ CInv
  BY DEF QInv
<1>1. CASE Boot
  <2>1. mode = "down" /\ pool' = pool /\ late' = late
    BY <1>1 DEF Boot, StartNode, Open, nodevars
  <2>2. Coming' = {}
    BY <2>1 DEF QInv, Coming
  <2> QED
    BY <2>2 DEF PoolBehind
<1>3. CASE Commit /\ built' = NoBlock /\ UNCHANGED <<pool, client, late>>
  <2>1. built # NoBlock /\ world \in Worlds /\ world' = built.world
    BY <1>3, CommitFacts
  <2>2. ASSUME NEW e \in Coming, NEW c \in Mine, e.signer = Op(c).sender
        PROVE  Fields(e.tx).nonce <= world'.nonce[e.signer]
    <3>1. Effect(c, built, world, built.world)
      BY <1>0, <2>1 DEF PInv
    <3>2. /\ world.nonce[e.signer] \in Nat
          /\ \/ built.world.nonce[e.signer] = world.nonce[e.signer]
             \/ built.world.nonce[e.signer] = world.nonce[e.signer] + 1
      BY <2>1, <2>2, <3>1, EffectNonce
    <3>3. Fields(e.tx).nonce <= world.nonce[e.signer]
      BY <1>0, <2>2 DEF PInv, PoolBehind
    <3>4. Fields(e.tx).nonce \in Nat
      <4>1. e \in PoolTxs
        BY DEF NInv, Coming, Mine, PoolTxs, NodeRaws
      <4>2. e.tx \in DecodedTxs
        BY <4>1, PoolTxFacts
      <4> QED
        BY <4>2, TxFields DEF ChainFields
    <3> QED
      BY <2>1, <3>2, <3>3, <3>4
  <2> QED
    BY <1>3, <2>2, ComingSame DEF PoolBehind
<1>4. CASE UNCHANGED <<mode, head, worlds>>
  <2>0. world' = world
    BY <1>4 DEF world
  <2>1. ASSUME NEW e \in Coming', e \notin Coming, NEW c \in Mine, e.signer = Op(c).sender
        PROVE  Fields(e.tx).nonce <= world.nonce[e.signer]
    <3>1. client.phase = "sending" /\ client.raw \in Mine /\ e = Recovered[client.raw].val
      BY <2>1, Comes
    <3>2. mode = "node"
      <4>1. CASE Send
        BY <4>1 DEF Send, Answering
      <4>2. CASE LoseCall /\ mode = "down"
        <5>1. pool' = pool /\ late' = late
          BY <4>2 DEF LoseCall, Answering
        <5> QED
          BY <2>1, <5>1, ComingSame
      <4> QED
        BY <2>1, <4>1, <4>2, Comes DEF NInv
    <3>3. PICK c1 \in Mine : c1 = client.raw
      BY <3>1
    <3>4. /\ e.signer = Op(c1).sender /\ Fields(e.tx) = Accessors(Op(c1))
          /\ ChainFields(Op(c1))
      BY <3>1, <3>3, MineFacts
    <3>5. Fields(e.tx).nonce = Op(c1).nonce /\ Op(c1).nonce \in Nat
      BY <3>4 DEF Accessors, ChainFields
    <3>6. world.nonce[Op(c1).sender] \in {Op(c1).nonce, Op(c1).nonce + 1}
      BY <1>0, <3>1, <3>2, <3>3 DEF CInv, NoneBeyond, Working, NowWorld
    <3> QED
      BY <3>4, <3>5, <3>6
  <2> QED
    BY <1>0, <2>0, <2>1 DEF PInv, PoolBehind
<1> QED
  BY <1>1, <1>3, <1>4, StepKinds

LEMMA EffectKept ==
    ASSUME IInv, NInv, PInv, [NodeNext]_allvars, built' # NoBlock, NEW c \in Mine
    PROVE  Effect(c, built', world', built'.world)
<1>0. world \in Worlds
  BY DEF IInv, TypeOK, world
<1>1. CASE StartBuild
  <2>1. world' = world /\ built' = EmptyBlock
    BY <1>1 DEF StartBuild, vars, world
  <2>2. EmptyBlock.txs = <<>> /\ EmptyBlock.world = world
    BY DEF EmptyBlock
  <2> QED
    BY <2>1, <2>2 DEF Effect, Quiet
<1>2. CASE \E e \in pool : BuildTx(e)
  <2>1. PICK e \in pool : BuildTx(e)
    BY <1>2
  <2>2. /\ built # NoBlock /\ Buildable(e, built.world, built.gas)
        /\ built' = Extended(built, e) /\ world' = world
    BY <2>1 DEF BuildTx, Extended, vars, world
  <2>3. PICK ws, gs : Traced(built, world, ws, gs)
    BY <2>2 DEF NInv, RoundInv, InStep
  <2>4. Effect(c, built, world, built.world)
    BY <2>2 DEF PInv
  <2>5. e \in PoolTxs /\ (e.signer = Op(c).sender => Fields(e.tx).nonce <= world.nonce[e.signer])
    BY DEF NInv, PInv, PoolBehind, Coming
  <2> QED
    BY <1>0, <2>2, <2>3, <2>4, <2>5, EffectNext
<1>3. CASE SubmitBuilt
  <2>1. /\ built # NoBlock /\ built' = [built EXCEPT !.sealed = TRUE] /\ world' = world
    BY <1>3 DEF SubmitBuilt, Submit, world
  <2>2. built \in BuiltBlocks
    BY <2>1 DEF NInv, RoundInv, InStep, Traced
  <2>3. /\ built'.txs = built.txs /\ built'.callers = built.callers
        /\ built'.receipts = built.receipts /\ built'.world = built.world
    BY <2>1, <2>2 DEF BuiltBlocks
  <2>4. Effect(c, built, world, built.world)
    BY <2>1 DEF PInv
  <2> QED
    BY <2>1, <2>3, <2>4, EffectSame
<1>4. CASE built' = built /\ worlds' = worlds
  <2>1. world' = world
    BY <1>4 DEF world
  <2> QED
    BY <1>4, <2>1 DEF PInv
<1>5. CASE Boot
  <2>1. mode = "down" /\ built' = built
    BY <1>5 DEF Boot, StartNode, Open, nodevars
  <2> QED
    BY <2>1 DEF NInv, RoundInv
<1> QED
  BY <1>1, <1>2, <1>3, <1>4, <1>5
     DEF NodeNext, allvars, nodevars, vars, Stop, Engine, Store, SendOther, Maintain, ReadNonce,
         ReadBalance, ReadToBalance, Send, LoseCall, LateCall, Poll, Verify, TimeOut, Validate,
         ExecuteNext, Persist

\* Nothing comes up while the process is down.
LEMMA DownKept ==
    ASSUME IInv, NInv, QInv, [NodeNext]_allvars, mode' = "down" PROVE pool' = {} /\ late' = {}
<1>1. CASE Stop
  BY <1>1 DEF Stop
<1>2. CASE mode = "down"
  <2>1. pool = {} /\ late = {} /\ ~Answering
    BY <1>2 DEF QInv, Answering
  <2> QED
    BY <2>1, PoolSteps DEF Stop, SendOther, Send, Maintain, LoseCall
<1>3. ~Boot /\ ~Commit
  <2>1. ~Boot
    BY DEF Boot, StartNode, Open
  <2> QED
    BY <2>1, CommitFacts
<1> QED
  BY <1>1, <1>2, <1>3, StepKinds

\* A hash is looked up where it is.
LEMMA LocatedAt ==
    ASSUME NEW c, NEW p
    PROVE  p \in Located(transaction_hash(c)) <=> \E n, i : p = <<n, i>> /\ Found(c, head, n, i)
  BY DEF Located, Found

----------------------------------------------------------------------------
(* The client: what it remembers                                             *)

\* While the head stays, nothing beyond c comes up.
LEMMA NoneBeyondSame ==
    ASSUME NInv, [NodeNext]_allvars, UNCHANGED <<mode, head, worlds>>, NEW c \in Mine, NEW w,
           NoneBeyond(c, w, Coming, built),
           \A e \in Coming' : e \notin Coming /\ e.signer = Op(c).sender
                                => Fields(e.tx).nonce <= Op(c).nonce
    PROVE  NoneBeyond(c, w, Coming', built')
<1>1. \A e \in Coming' : e.signer = Op(c).sender => Fields(e.tx).nonce <= Op(c).nonce
  BY DEF NoneBeyond
<1>2. ASSUME built' # NoBlock, NEW i \in 1 .. Len(built'.txs), built'.callers[i] = Op(c).sender
      PROVE  Fields(built'.txs[i]).nonce <= Op(c).nonce
  <2>1. CASE StartBuild
    <3>1. built'.txs = <<>>
      BY <2>1 DEF StartBuild, EmptyBlock
    <3> QED
      BY <1>2, <3>1
  <2>2. CASE \E e \in pool : BuildTx(e)
    <3>1. PICK e \in pool : BuildTx(e)
      BY <2>2
    <3>2. built # NoBlock /\ built' = Extended(built, e)
      BY <3>1 DEF BuildTx, Extended
    <3>3. PICK ws, gs : Traced(built, world, ws, gs)
      BY <3>2 DEF NInv, RoundInv, InStep
    <3> DEFINE n == Len(built.txs)
    <3>4. /\ built \in BuiltBlocks /\ built.txs \in Seq(DecodedTxs)
          /\ built.callers \in Seq(Accounts) /\ Len(built.callers) = n /\ n \in Nat
      BY <3>3 DEF Traced, BuiltBlocks
    <3>5. e.tx \in DecodedTxs /\ e.signer \in Accounts
      BY PoolTxFacts DEF NInv
    <3>6. built'.txs = Append(built.txs, e.tx) /\ built'.callers = Append(built.callers, e.signer)
      BY <3>2, <3>4 DEF Extended, BuiltBlocks
    <3>7. /\ Len(built'.txs) = n + 1 /\ built'.txs[n + 1] = e.tx
          /\ \A j \in 1 .. n : built'.txs[j] = built.txs[j]
      BY <3>4, <3>5, <3>6, Appended
    <3>8. /\ built'.callers[n + 1] = e.signer
          /\ \A j \in 1 .. n : built'.callers[j] = built.callers[j]
      BY <3>4, <3>5, <3>6, Appended
    <3>9. i \in 1 .. n \/ i = n + 1
      BY <1>2, <3>4, <3>7
    <3>10. \A j \in 1 .. n :
             built.callers[j] = Op(c).sender => Fields(built.txs[j]).nonce <= Op(c).nonce
      BY <3>2 DEF NoneBeyond
    <3>11. e.signer = Op(c).sender => Fields(e.tx).nonce <= Op(c).nonce
      BY DEF NoneBeyond, Coming
    <3> HIDE DEF n
    <3> QED
      BY <1>2, <3>7, <3>8, <3>9, <3>10, <3>11
  <2>3. CASE SubmitBuilt
    <3>1. built # NoBlock /\ built' = [built EXCEPT !.sealed = TRUE]
      BY <2>3 DEF SubmitBuilt
    <3>2. built \in BuiltBlocks
      BY <3>1 DEF NInv, RoundInv, InStep, Traced
    <3>3. built'.txs = built.txs /\ built'.callers = built.callers
      BY <3>1, <3>2 DEF BuiltBlocks
    <3> QED
      BY <1>2, <3>1, <3>3 DEF NoneBeyond
  <2>4. CASE built' = built
    BY <1>2, <2>4 DEF NoneBeyond
  <2> QED
    BY <1>2, <2>1, <2>2, <2>3, <2>4
       DEF NodeNext, allvars, nodevars, vars, Boot, Stop, Engine, Store, SendOther, Maintain,
           ReadNonce, ReadBalance, ReadToBalance, Send, LoseCall, LateCall, Poll, Verify,
           TimeOut
<1> QED
  BY <1>1, <1>2 DEF NoneBeyond

\* A later form m of the client's memory k, on the same chain.
LEMMA RemembersSame ==
    ASSUME NEW k, NEW m, NEW h, NEW w, Remembers(k, h, w),
           k.phase \notin {"signed", "read"}, m.phase \in {"sending", "polling", "verifying"},
           m.raw = k.raw, m.before = k.before, m.toBefore = k.toBefore,
           Ful(m) => Ful(k) \/ Turn(k, w),
           m.phase = "verifying" => \E n, i : Found(k.raw, h, n, i) /\ m.fee = FeeIn(h[n], i)
    PROVE  Remembers(m, h, w)
<1>1. Turn(m, w) <=> Turn(k, w)
  BY DEF Turn
<1>2. \A b, i : Good(k, b, i, w) => Good(m, b, i, w)
  BY DEF Good
<1> QED
  BY <1>1, <1>2 DEF Remembers

\* What comes up while the client is at work is not beyond its transaction.
LEMMA ComesInTurn ==
    ASSUME NInv, [NodeNext]_allvars, UNCHANGED <<mode, head, worlds>>, client.raw \in Mine,
           NEW w, NoneBeyond(client.raw, w, Coming, built)
    PROVE  NoneBeyond(client.raw, w, Coming', built')
<1>1. PICK c \in Mine : c = client.raw
  OBVIOUS
<1>2. ASSUME NEW e \in Coming', e \notin Coming, e.signer = Op(c).sender
      PROVE  Fields(e.tx).nonce <= Op(c).nonce
  <2>1. e = Recovered[c].val
    BY <1>1, <1>2, Comes
  <2>2. Fields(e.tx) = Accessors(Op(c)) /\ ChainFields(Op(c))
    BY <2>1, MineFacts
  <2> QED
    BY <2>2 DEF Accessors, ChainFields
<1>3. NoneBeyond(c, w, Coming', built')
  BY <1>1, <1>2, NoneBeyondSame
<1> QED
  BY <1>1, <1>3

LEMMA NowSame ==
    ASSUME UNCHANGED <<mode, head, worlds>>, mode = "down" => UNCHANGED <<db, dbworld>>
    PROVE  NowHead' = NowHead /\ NowWorld' = NowWorld
<1>1. DbChain' = DbChain \/ mode # "down"
  BY DEF DbChain
<1> QED
  BY <1>1 DEF NowHead, NowWorld, world

\* Others take a step: the client's memory stays right.
LEMMA ClientWaits ==
    ASSUME NInv, CInv, [NodeNext]_allvars, UNCHANGED <<mode, head, worlds, client>>,
           mode = "down" => UNCHANGED <<db, dbworld>>
    PROVE  CInv'
<1>0. NowHead' = NowHead /\ NowWorld' = NowWorld
  BY NowSame
<1>1. ASSUME client.phase \in Working, client.raw \in Mine
      PROVE  NoneBeyond(client.raw, NowWorld', Coming', built')
  <2>1. NoneBeyond(client.raw, NowWorld, Coming, built)
    BY <1>1 DEF CInv
  <2>2. PICK w : w = NowWorld
    OBVIOUS
  <2>3. NoneBeyond(client.raw, w, Coming', built')
    BY <1>1, <2>1, <2>2, ComesInTurn
  <2> QED
    BY <1>0, <2>2, <2>3
<1> QED
  BY <1>0, <1>1 DEF CInv

\* A client that is not at work has nothing to remember.
LEMMA ClientRests ==
    ASSUME client'.phase \notin Working PROVE CInv'
  BY DEF CInv, Shaped, Ful, Working

LEMMA ReadNonceKeeps ==
    ASSUME IInv, NInv, PInv, NEW raw \in ClientRaws, ReadNonce(raw) PROVE CInv'
<1>1. /\ client' = [phase |-> "signed", raw |-> raw] /\ UNCHANGED <<vars, pool, built, late>>
      /\ world.nonce[Op(raw).sender] = Op(raw).nonce /\ mode = "node"
  BY DEF ReadNonce, Answering
<1>2. NowWorld' = world /\ NowHead' = head /\ Coming' = Coming /\ built' = built
  BY <1>1, Answers, ComingSame
<1>3. client'.phase = "signed" /\ client'.raw = raw
  BY <1>1
<1>4. ASSUME raw \in Mine PROVE NoneBeyond(raw, world, Coming, built)
  <2> DEFINE s == Op(raw).sender
  <2>1. ASSUME NEW e \in Coming, e.signer = s PROVE Fields(e.tx).nonce <= Op(raw).nonce
    BY <1>1, <1>4, <2>1 DEF PInv, PoolBehind
  <2>2. ASSUME built # NoBlock, NEW j \in 1 .. Len(built.txs), built.callers[j] = s
        PROVE  Fields(built.txs[j]).nonce <= Op(raw).nonce
    <3>1. Effect(raw, built, world, built.world)
      BY <1>4, <2>2 DEF PInv
    <3>2. ~Quiet(raw, built, world, built.world)
      BY <2>2 DEF Quiet
    <3>3. PICK d \in Mine, i \in 1 .. Len(built.txs) : OnceBy(raw, d, built, i, world, built.world)
      BY <3>1, <3>2 DEF Effect
    <3>4. j = i /\ built.txs[j] = Recovered[d].val.tx /\ Op(d).nonce = Op(raw).nonce
      BY <1>1, <2>2, <3>3 DEF OnceBy
    <3>5. Fields(Recovered[d].val.tx) = Accessors(Op(d)) /\ ChainFields(Op(d))
      BY MineFacts
    <3>6. Fields(built.txs[j]).nonce = Op(d).nonce /\ Op(d).nonce \in Nat
      BY <3>4, <3>5 DEF Accessors, ChainFields
    <3> QED
      BY <3>4, <3>6
  <2> QED
    BY <1>1, <2>1, <2>2 DEF NoneBeyond
<1>5. Remembers(client', head, world)
  BY <1>3 DEF Remembers, Ful
<1>6. Shaped(client') /\ ~Ful(client')
  BY <1>3 DEF Shaped, Ful
<1> QED
  BY <1>2, <1>3, <1>4, <1>5, <1>6 DEF CInv

LEMMA ReadBalanceKeeps ==
    ASSUME CInv, ReadBalance PROVE CInv'
<1> DEFINE m == [phase |-> "read", raw |-> client.raw, before |-> Balance(Op(client.raw).sender)]
<1>1. /\ client' = m /\ UNCHANGED <<vars, pool, built, late>> /\ client.phase = "signed"
      /\ mode = "node"
  BY DEF ReadBalance, Answering
<1>2. /\ NowWorld = world /\ NowHead = head /\ NowWorld' = world /\ NowHead' = head
      /\ Coming' = Coming /\ built' = built
  BY <1>1, Answers, ComingSame
<1>3. /\ m.phase = "read" /\ m.raw = client.raw
      /\ m.before = world.balance[Op(client.raw).sender]
  BY DEF Balance
<1> HIDE DEF m
<1>4. client.raw \in Mine => NoneBeyond(client.raw, world, Coming, built)
  BY <1>1, <1>2 DEF CInv, Working
<1>5. Remembers(m, head, world)
  BY <1>3 DEF Remembers, Ful
<1>6. Shaped(m) /\ ~Ful(m)
  BY <1>3 DEF Shaped, Ful
<1> QED
  BY <1>1, <1>2, <1>3, <1>4, <1>5, <1>6 DEF CInv

LEMMA ReadToBalanceKeeps ==
    ASSUME CInv, NEW calls, ReadToBalance(calls) PROVE CInv'
<1> DEFINE m == [phase |-> "sending", raw |-> client.raw, calls |-> calls, twice |-> calls > 1,
                 results |-> {}, before |-> client.before,
                 toBefore |-> Balance(Op(client.raw).to)]
<1>1. /\ client' = m /\ UNCHANGED <<vars, pool, built, late>> /\ client.phase = "read"
      /\ mode = "node"
  BY DEF ReadToBalance, Answering
<1>2. /\ NowWorld = world /\ NowHead = head /\ NowWorld' = world /\ NowHead' = head
      /\ Coming' = Coming /\ built' = built
  BY <1>1, Answers, ComingSame
<1>3. /\ m.phase = "sending" /\ m.raw = client.raw /\ m.results = {} /\ m.before = client.before
      /\ m.toBefore = world.balance[Op(client.raw).to]
  BY DEF Balance
<1>4. Shaped(m)
  BY DEF Shaped
<1> HIDE DEF m
<1>5. client.raw \in Mine =>
        /\ NoneBeyond(client.raw, world, Coming, built)
        /\ Turn(client, world) => client.before = world.balance[Op(client.raw).sender]
  BY <1>1, <1>2 DEF CInv, Working, Remembers
<1>6. client.raw \in Mine => Remembers(m, head, world)
  BY <1>3, <1>5 DEF Remembers, Ful, Turn
<1>7. ~Ful(m)
  BY <1>3 DEF Ful
<1> QED
  BY <1>1, <1>2, <1>3, <1>4, <1>5, <1>6, <1>7 DEF CInv

\* One call less, in all fields.
LEMMA SendingOn ==
    ASSUME NEW k, NEW r, NEW n, NEW u, NEW g, NEW b, NEW t,
           k = [phase |-> "sending", raw |-> r, calls |-> n, twice |-> u, results |-> g,
                before |-> b, toBefore |-> t],
           NEW f, NEW m, m = [k EXCEPT !.calls = @ - 1, !.results = f]
    PROVE  m = [phase |-> "sending", raw |-> r, calls |-> n - 1, twice |-> u, results |-> f,
                before |-> b, toBefore |-> t]
<1>1. k \in [phase : {"sending"}, raw : {r}, calls : {n}, twice : {u}, results : {g},
             before : {b}, toBefore : {t}]
  OBVIOUS
<1>2. k.calls = n
  OBVIOUS
<1>3. m \in [phase : {"sending"}, raw : {r}, calls : {n - 1}, twice : {u}, results : {f},
             before : {b}, toBefore : {t}]
  BY <1>1, <1>2
<1> QED
  BY <1>3

\* A call of the client has come to the result r.
LEMMA SettleKeeps ==
    ASSUME NInv, CInv, [NodeNext]_allvars, UNCHANGED vars, client.phase = "sending",
           client.raw \in ClientRaws, NEW r, Settle(r),
           r = "fulfilled" => client.raw \in Mine /\ Turn(client, NowWorld)
    PROVE  CInv' /\ client'.phase # "failed"
<1> DEFINE rs == client.results \cup {r}
           more == [client EXCEPT !.calls = @ - 1, !.results = rs]
           poll == [phase |-> "polling", raw |-> client.raw, polls |-> 0,
                    before |-> client.before, toBefore |-> client.toBefore]
           ful == "fulfilled" \in rs
<1>1. UNCHANGED <<mode, head, worlds, db, dbworld>>
  BY DEF vars
<1>2. NowHead' = NowHead /\ NowWorld' = NowWorld
  BY <1>1, NowSame
<1>3. PICK c \in ClientRaws : c = client.raw
  OBVIOUS
<1>4. PICK w, h : w = NowWorld /\ h = NowHead
  OBVIOUS
<1>5. client = [phase |-> "sending", raw |-> client.raw, calls |-> client.calls,
                twice |-> client.twice, results |-> client.results,
                before |-> client.before, toBefore |-> client.toBefore]
  BY DEF CInv, Shaped
<1>6. ful => c \in Mine /\ (Ful(client) \/ Turn(client, w))
  BY <1>3, <1>4 DEF CInv, Ful
<1>7. \/ client' = more
      \/ client' = poll /\ ful
      \/ client'.phase \in {"refused", "threw"}
  <2>1. ful => tx_hash(Recovered[client.raw].val.tx) = transaction_hash(client.raw)
    BY <1>3, <1>6, MineFacts
  <2> QED
    BY <2>1, SettleKinds
<1>8. ASSUME c \in Mine
      PROVE  NoneBeyond(c, w, Coming', built') /\ Remembers(client, h, w)
  <2>1. NoneBeyond(client.raw, w, Coming, built) /\ Remembers(client, h, w)
    BY <1>3, <1>4, <1>8 DEF CInv, Working
  <2>2. NoneBeyond(client.raw, w, Coming', built')
    BY <1>1, <1>3, <1>8, <2>1, ComesInTurn
  <2> QED
    BY <1>3, <2>1, <2>2
<1> HIDE DEF ful
<1>9. CASE client'.phase \in {"refused", "threw"}
  BY <1>9, ClientRests DEF Working
<1>10. CASE client' = more
  <2>1. /\ more.phase = "sending" /\ more.raw = client.raw /\ more.before = client.before
        /\ more.toBefore = client.toBefore /\ more.results = rs
        /\ more = [phase |-> "sending", raw |-> more.raw, calls |-> more.calls,
                   twice |-> more.twice, results |-> more.results, before |-> more.before,
                   toBefore |-> more.toBefore]
    <3>1. more = [client EXCEPT !.calls = @ - 1, !.results = rs]
      OBVIOUS
    <3> HIDE DEF more, rs
    <3>2. more = [phase |-> "sending", raw |-> client.raw, calls |-> client.calls - 1,
                  twice |-> client.twice, results |-> rs, before |-> client.before,
                  toBefore |-> client.toBefore]
      <4>1. PICK x, n, u, g, b, t, f :
              /\ x = client.raw /\ n = client.calls /\ u = client.twice /\ g = client.results
              /\ b = client.before /\ t = client.toBefore /\ f = rs
        OBVIOUS
      <4>2. PICK k, m : k = client /\ m = more
        OBVIOUS
      <4>3. k = [phase |-> "sending", raw |-> x, calls |-> n, twice |-> u, results |-> g,
                 before |-> b, toBefore |-> t]
        BY <1>5, <4>1, <4>2
      <4>4. m = [k EXCEPT !.calls = @ - 1, !.results = f]
        BY <3>1, <4>1, <4>2
      <4>5. m = [phase |-> "sending", raw |-> x, calls |-> n - 1, twice |-> u, results |-> f,
                 before |-> b, toBefore |-> t]
        BY <4>3, <4>4, SendingOn
      <4> QED
        BY <4>1, <4>2, <4>5
    <3> QED
      BY <3>2
  <2> HIDE DEF more
  <2>2. Shaped(more)
    BY <2>1 DEF Shaped
  <2>3. Ful(more) <=> ful
    BY <2>1 DEF Ful, ful
  <2> HIDE DEF rs
  <2>4. c \in Mine => Remembers(more, h, w)
    BY <1>6, <1>8, <2>1, <2>3, RemembersSame
  <2> QED
    BY <1>2, <1>3, <1>4, <1>6, <1>8, <1>10, <2>1, <2>2, <2>3, <2>4 DEF CInv
<1>11. CASE client' = poll /\ ful
  <2>1. /\ poll.phase = "polling" /\ poll.raw = client.raw /\ poll.before = client.before
        /\ poll.toBefore = client.toBefore
        /\ poll = [phase |-> "polling", raw |-> poll.raw, polls |-> poll.polls,
                   before |-> poll.before, toBefore |-> poll.toBefore]
    OBVIOUS
  <2> HIDE DEF poll, rs
  <2>2. Shaped(poll)
    BY <2>1 DEF Shaped
  <2>3. c \in Mine => Remembers(poll, h, w)
    BY <1>6, <1>8, <1>11, <2>1, RemembersSame
  <2> QED
    BY <1>2, <1>3, <1>4, <1>6, <1>8, <1>11, <2>1, <2>2, <2>3 DEF CInv
<1> HIDE DEF more, poll, rs
<1> QED
  BY <1>7, <1>9, <1>10, <1>11

LEMMA SendKeeps ==
    ASSUME NInv, CInv, [NodeNext]_allvars, Send PROVE CInv' /\ client'.phase # "failed"
<1> DEFINE ok == Admitted(client.raw)
           r == IF ok THEN "fulfilled" ELSE "rejected"
<1>1. /\ client.phase = "sending" /\ client.raw \in ClientRaws /\ mode = "node"
      /\ UNCHANGED vars /\ Settle(r)
  BY DEF Send, NInv, Answering
<1>2. NowWorld = world
  BY <1>1 DEF NowWorld
<1>3. PICK c \in ClientRaws : c = client.raw
  BY <1>1
<1>4. ASSUME ok PROVE c \in Mine /\ Turn(client, NowWorld)
  <2>1. c \in Mine
    BY <1>3, <1>4 DEF Admitted, Mine
  <2>2. /\ Recovered[c].val.signer = Op(c).sender
        /\ Fields(Recovered[c].val.tx) = Accessors(Op(c)) /\ ChainFields(Op(c))
    BY <2>1, MineFacts
  <2>3. Op(c).nonce >= world.nonce[Op(c).sender] /\ Op(c).nonce \in Nat
    BY <1>3, <1>4, <2>2 DEF Admitted, Admits, PoolFields, Accessors, ChainFields
  <2>4. world.nonce[Op(c).sender] \in {Op(c).nonce, Op(c).nonce + 1}
    BY <1>1, <1>2, <1>3, <2>1 DEF CInv, Working, NoneBeyond
  <2>5. world.nonce[Op(c).sender] = Op(c).nonce
    BY <2>3, <2>4
  <2> QED
    BY <1>2, <1>3, <2>1, <2>5 DEF Turn
<1>5. r = "fulfilled" => client.raw \in Mine /\ Turn(client, NowWorld)
  BY <1>3, <1>4
<1> HIDE DEF r, ok
<1> QED
  BY <1>1, <1>5, SettleKeeps

LEMMA LoseCallKeeps ==
    ASSUME NInv, CInv, [NodeNext]_allvars, LoseCall PROVE CInv' /\ client'.phase # "failed"
<1>1. /\ client.phase = "sending" /\ client.raw \in ClientRaws /\ UNCHANGED vars
      /\ Settle("lost")
  BY DEF LoseCall, NInv
<1> QED
  BY <1>1, SettleKeeps

\* The receipt the RPC gives is that of the block.
LEMMA ReceiptAt ==
    ASSUME NEW n, NEW i
    PROVE  /\ RpcReceipt(n, i).inner.success = head[n].receipts[i].success
           /\ RpcReceipt(n, i).inner.tx_type = head[n].receipts[i].tx_type
           /\ RpcReceipt(n, i).from = head[n].callers[i]
           /\ RpcReceipt(n, i).gas_used * RpcReceipt(n, i).effective_gas_price
                = FeeIn(head[n], i)
  BY DEF RpcReceipt, receipt_converter, FeeIn

LEMMA PollKeeps ==
    ASSUME IInv, NInv, CInv, NonceDiscipline, Poll PROVE CInv' /\ client'.phase # "failed"
<1> DEFINE found == Located(transaction_hash(client.raw))
           at == CHOOSE p \in found : TRUE
           r == RpcReceipt(at[1], at[2])
           more == [client EXCEPT !.polls = @ + 1]
           ver == [phase |-> "verifying", raw |-> client.raw, request |-> 1,
                   fee |-> r.gas_used * r.effective_gas_price,
                   before |-> client.before, toBefore |-> client.toBefore]
<1>1. /\ client.phase = "polling" /\ mode = "node" /\ UNCHANGED <<vars, pool, built, late>>
      /\ client' = IF found = {}
                   THEN IF client.polls + 1 = POLLS THEN Ended("threw") ELSE more
                   ELSE IF ~ReceiptOk(r) THEN Ended("failed") ELSE ver
  BY DEF Poll, Answering
<1>2. /\ NowWorld = world /\ NowHead = head /\ NowWorld' = world /\ NowHead' = head
      /\ Coming' = Coming /\ built' = built
  BY <1>1, Answers, ComingSame
<1>3. /\ client.raw \in Mine /\ Ful(client)
      /\ NoneBeyond(client.raw, world, Coming, built) /\ Remembers(client, head, world)
  BY <1>1, <1>2 DEF CInv, Ful, Working
<1>4. client = [phase |-> "polling", raw |-> client.raw, polls |-> client.polls,
                before |-> client.before, toBefore |-> client.toBefore]
  BY <1>1 DEF CInv, Shaped
<1>5. CASE found = {} /\ client' = Ended("threw")
  BY <1>5, ClientRests DEF Ended, Working
<1>6. CASE found = {} /\ client' = more
  <2>1. /\ more.phase = "polling" /\ more.raw = client.raw /\ more.before = client.before
        /\ more.toBefore = client.toBefore
        /\ more = [phase |-> "polling", raw |-> more.raw, polls |-> more.polls,
                   before |-> more.before, toBefore |-> more.toBefore]
    BY <1>4
  <2> HIDE DEF more
  <2>2. Shaped(more)
    BY <2>1 DEF Shaped
  <2>3. Remembers(more, head, world)
    BY <1>1, <1>3, <2>1, RemembersSame
  <2> QED
    BY <1>2, <1>3, <1>6, <2>1, <2>2, <2>3 DEF CInv
<1>7. CASE found # {}
  <2>1. at \in found
    BY <1>7
  <2> HIDE DEF at
  <2>2. PICK c \in Mine : c = client.raw
    BY <1>3
  <2>3. PICK n, i : at = <<n, i>> /\ Found(c, head, n, i)
    BY <2>1, <2>2, LocatedAt
  <2>4. at[1] = n /\ at[2] = i
    BY <2>3
  <2>5. ~Turn(client, world)
    BY <1>1, <2>2, <2>3, NotYet DEF Turn
  <2>6. Good(client, head[n], i, world)
    BY <1>3, <2>2, <2>3, <2>5 DEF Remembers
  <2>7. /\ r.inner.success = head[n].receipts[i].success
        /\ r.inner.tx_type = head[n].receipts[i].tx_type
        /\ r.from = head[n].callers[i]
        /\ r.gas_used * r.effective_gas_price = FeeIn(head[n], i)
    BY <2>4, ReceiptAt
  <2> HIDE DEF r
  <2>8. ReceiptOk(r)
    BY <2>6, <2>7 DEF ReceiptOk, Good
  <2>9. client' = ver
    BY <1>1, <1>7, <2>8
  <2>10. /\ ver.phase = "verifying" /\ ver.raw = client.raw /\ ver.before = client.before
         /\ ver.toBefore = client.toBefore /\ ver.fee = FeeIn(head[n], i) /\ ver.request = 1
         /\ ver = [phase |-> "verifying", raw |-> ver.raw, request |-> ver.request,
                   fee |-> ver.fee, before |-> ver.before, toBefore |-> ver.toBefore]
    BY <2>7
  <2> HIDE DEF ver
  <2>11. Shaped(ver)
    BY <2>10 DEF Shaped, Requests
  <2>12. Remembers(ver, head, world)
    BY <1>1, <1>3, <2>2, <2>3, <2>10, RemembersSame
  <2> QED
    BY <1>2, <1>3, <2>9, <2>10, <2>11, <2>12 DEF CInv
<1> QED
  BY <1>1, <1>5, <1>6, <1>7

LEMMA VerifyKeeps ==
    ASSUME IInv, NInv, CInv, NonceDiscipline, Verify
    PROVE  CInv' /\ client'.phase # "failed"
<1> DEFINE more == [client EXCEPT !.request = @ + 1]
<1>1. /\ client.phase = "verifying" /\ mode = "node" /\ UNCHANGED <<vars, pool, built, late>>
      /\ client' = IF ~AnswerOk(client.request) THEN Ended("failed")
                   ELSE IF client.request = Requests THEN Ended("ok") ELSE more
  BY DEF Verify, Answering
<1>2. /\ NowWorld = world /\ NowHead = head /\ NowWorld' = world /\ NowHead' = head
      /\ Coming' = Coming /\ built' = built
  BY <1>1, Answers, ComingSame
<1>3. /\ client.raw \in Mine /\ Ful(client)
      /\ NoneBeyond(client.raw, world, Coming, built) /\ Remembers(client, head, world)
  BY <1>1, <1>2 DEF CInv, Ful, Working
<1>4. /\ client = [phase |-> "verifying", raw |-> client.raw, request |-> client.request,
                   fee |-> client.fee, before |-> client.before, toBefore |-> client.toBefore]
      /\ client.request \in 1 .. Requests
  BY <1>1 DEF CInv, Shaped
<1>5. PICK c \in Mine : c = client.raw
  BY <1>3
<1>6. PICK n, i : Found(c, head, n, i) /\ client.fee = FeeIn(head[n], i)
  BY <1>1, <1>3, <1>5 DEF Remembers
<1>7. ~Turn(client, world)
  BY <1>1, <1>5, <1>6, NotYet DEF Turn
<1>8. Good(client, head[n], i, world)
  BY <1>3, <1>5, <1>6, <1>7 DEF Remembers
<1>9. world.nonce[Op(c).sender] = Op(c).nonce + 1
  BY <1>3, <1>5, <1>7 DEF NoneBeyond, Turn
<1>10. /\ world.balance[Op(c).sender] = client.before - client.fee - Paid(c)
       /\ world.balance[Op(c).to] = client.toBefore + Paid(c)
  BY <1>5, <1>6, <1>8 DEF Good
<1>11. <<n, i>> \in Located(transaction_hash(c))
  BY <1>6, LocatedAt
<1>12. head[n].txs[i] = SignedTx(Op(c), c.key, c.sig)
  BY <1>6, PlaceFacts, MineFacts
<1>13. LET t == serialize(head[n].txs[i]) IN
       t.tx_type = TX_TYPE /\ t.cosmos_signature = c.sig /\ t.public_key = c.key
  BY <1>12 DEF serialize, SignedTx
<1>14. AnswerOk(client.request)
  <2>0. <<n, i>>[1] = n /\ <<n, i>>[2] = i
    OBVIOUS
  <2>1. CASE client.request = 1
    BY <1>5, <1>10, <2>1 DEF AnswerOk, Balance, Paid
  <2>2. CASE client.request = 2
    BY <1>5, <1>10, <2>2 DEF AnswerOk, Balance, Paid
  <2>3. CASE client.request = 3
    BY <1>5, <1>9, <2>3 DEF AnswerOk
  <2>4. CASE client.request = 4
    BY <1>5, <1>11, <1>13, <2>0, <2>4 DEF AnswerOk
  <2> QED
    BY <1>4, <2>1, <2>2, <2>3, <2>4 DEF Requests
<1>15. CASE client' = Ended("ok")
  BY <1>15, ClientRests DEF Ended, Working
<1>16. CASE client.request # Requests /\ client' = more
  <2>1. /\ more.phase = "verifying" /\ more.raw = client.raw /\ more.before = client.before
        /\ more.toBefore = client.toBefore /\ more.fee = client.fee
        /\ more.request = client.request + 1
        /\ more = [phase |-> "verifying", raw |-> more.raw, request |-> more.request,
                   fee |-> more.fee, before |-> more.before, toBefore |-> more.toBefore]
    BY <1>4
  <2> HIDE DEF more
  <2>2. more.request \in 1 .. Requests
    BY <1>4, <1>16, <2>1 DEF Requests
  <2>3. Shaped(more)
    BY <2>1, <2>2 DEF Shaped
  <2>4. Remembers(more, head, world)
    BY <1>1, <1>3, <1>5, <1>6, <2>1, RemembersSame
  <2> QED
    BY <1>2, <1>3, <1>16, <2>1, <2>3, <2>4 DEF CInv
<1> QED
  BY <1>1, <1>14, <1>15, <1>16

\* A transaction of the miner's block that has the hash of c is c, for its sender.
LEMMA BuiltPlace ==
    ASSUME NInv, built # NoBlock, NEW c \in Mine, NEW i \in 1 .. Len(built.txs),
           tx_hash(built.txs[i]) = transaction_hash(c)
    PROVE  built.txs[i] = Recovered[c].val.tx /\ built.callers[i] = Op(c).sender
<1>1. PICK ws, gs : Traced(built, world, ws, gs)
  BY DEF NInv, RoundInv, InStep
<1>2. PICK e \in PoolTxs : built.txs[i] = e.tx /\ built.callers[i] = e.signer
  BY <1>1 DEF Traced, Step
<1>3. e.tx \in DecodedTxs /\ ActsFor(e.tx, e.signer)
  BY PoolTxFacts
<1>4. e.tx = Recovered[c].val.tx
  BY <1>2, <1>3, MineHash
<1>5. Recovered[c].val.tx = SignedTx(Op(c), c.key, c.sig)
  BY MineFacts
<1>6. IsCosmos(Recovered[c].val.tx) /\ Recovered[c].val.tx.operation = Op(c)
  BY <1>5 DEF SignedTx, IsCosmos
<1> QED
  BY <1>2, <1>3, <1>4, <1>6 DEF ActsFor

\* The new head in which the client's accounts are quiet.
LEMMA QuietCommit ==
    ASSUME IInv, NInv, Commit, NEW k, k.raw \in Mine,
           NoneBeyond(k.raw, world, Coming, built), Remembers(k, head, world),
           Quiet(k.raw, built, world, built.world)
    PROVE  NoneBeyond(k.raw, world', Coming, NoBlock) /\ Remembers(k, head', world')
<1> DEFINE x == [txs |-> built.txs, callers |-> built.callers,
                 receipts |-> built.receipts, base_fee |-> BASE_FEE]
<1>1. /\ built # NoBlock /\ Len(head) \in Nat /\ Len(head') = Len(head) + 1
      /\ head'[Len(head) + 1] = x /\ world' = built.world
      /\ \A n \in 1 .. Len(head) : head'[n] = head[n]
  BY CommitFacts
<1>2. PICK c \in Mine : c = k.raw
  OBVIOUS
<1>3. /\ world'.nonce[Op(c).sender] = world.nonce[Op(c).sender]
      /\ world'.balance[Op(c).sender] = world.balance[Op(c).sender]
      /\ world'.balance[Op(c).to] = world.balance[Op(c).to]
  BY <1>1, <1>2 DEF Quiet, Touched
<1>4. NoneBeyond(c, world', Coming, NoBlock)
  BY <1>2, <1>3 DEF NoneBeyond
<1>5. x.txs = built.txs
  OBVIOUS
<1> HIDE DEF x
<1>6. ASSUME NEW n, NEW i, Found(c, head', n, i)
      PROVE  Found(c, head, n, i) /\ head'[n] = head[n]
  <2>1. /\ n \in 1 .. Len(head) + 1 /\ i \in 1 .. Len(head'[n].txs)
        /\ tx_hash(head'[n].txs[i]) = transaction_hash(c)
    BY <1>1, <1>6 DEF Found
  <2>2. n # Len(head) + 1
    <3> SUFFICES ASSUME n = Len(head) + 1 PROVE FALSE
      OBVIOUS
    <3>1. i \in 1 .. Len(built.txs) /\ tx_hash(built.txs[i]) = transaction_hash(c)
      BY <1>1, <1>5, <2>1
    <3>2. built.callers[i] = Op(c).sender
      BY <1>1, <3>1, BuiltPlace
    <3> QED
      BY <1>2, <3>1, <3>2 DEF Quiet
  <2>3. n \in 1 .. Len(head)
    BY <1>1, <2>1, <2>2
  <2> QED
    BY <1>1, <2>1, <2>3 DEF Found
<1>7. ASSUME NEW n, NEW i, Found(c, head, n, i)
      PROVE  Found(c, head', n, i) /\ head'[n] = head[n]
  <2>1. /\ n \in 1 .. Len(head) /\ i \in 1 .. Len(head[n].txs)
        /\ tx_hash(head[n].txs[i]) = transaction_hash(c)
    BY <1>7 DEF Found
  <2>2. n \in 1 .. Len(head')
    BY <1>1, <2>1
  <2> QED
    BY <1>1, <2>1, <2>2 DEF Found
<1>8. Turn(k, world') <=> Turn(k, world)
  BY <1>2, <1>3 DEF Turn
<1>9. \A b, i : Good(k, b, i, world) => Good(k, b, i, world')
  BY <1>2, <1>3 DEF Good
<1>10. /\ k.phase # "signed" /\ Turn(k, world') => k.before = world'.balance[Op(k.raw).sender]
       /\ k.phase \notin {"signed", "read"} /\ Turn(k, world')
            => k.toBefore = world'.balance[Op(k.raw).to]
  BY <1>2, <1>3, <1>8 DEF Remembers
<1>11. ASSUME Ful(k), ~Turn(k, world'), NEW n, NEW i, Found(k.raw, head', n, i)
       PROVE  Good(k, head'[n], i, world')
  <2>1. Found(k.raw, head, n, i) /\ head'[n] = head[n]
    BY <1>2, <1>6, <1>11
  <2>2. Good(k, head[n], i, world)
    BY <1>8, <1>11, <2>1 DEF Remembers
  <2> QED
    BY <1>9, <2>1, <2>2
<1>12. ASSUME k.phase = "verifying"
       PROVE  \E n, i : Found(k.raw, head', n, i) /\ k.fee = FeeIn(head'[n], i)
  <2>1. PICK n, i : Found(k.raw, head, n, i) /\ k.fee = FeeIn(head[n], i)
    BY <1>12 DEF Remembers
  <2> QED
    BY <1>2, <1>7, <2>1
<1> QED
  BY <1>2, <1>4, <1>10, <1>11, <1>12 DEF Remembers

\* The new head with a transaction of the client's account: the turn of the client's
\* transaction has come and gone.
LEMMA OnceCommit ==
    ASSUME IInv, NInv, NonceDiscipline, Commit, NEW k, k.raw \in Mine, NEW d \in Mine,
           NEW p \in 1 .. Len(built.txs),
           NoneBeyond(k.raw, world, Coming, built), Remembers(k, head, world),
           OnceBy(k.raw, d, built, p, world, built.world)
    PROVE  NoneBeyond(k.raw, world', Coming, NoBlock) /\ Remembers(k, head', world')
<1> DEFINE x == [txs |-> built.txs, callers |-> built.callers,
                 receipts |-> built.receipts, base_fee |-> BASE_FEE]
<1>1. /\ built # NoBlock /\ Len(head) \in Nat /\ Len(head') = Len(head) + 1
      /\ head'[Len(head) + 1] = x /\ world' = built.world /\ mode = "node"
      /\ \A n \in 1 .. Len(head) : head'[n] = head[n]
      /\ world \in Worlds
  BY CommitFacts
<1>2. PICK c \in Mine : c = k.raw
  OBVIOUS
<1> DEFINE s == Op(c).sender
<1>3. /\ s \in Accounts /\ ChainFields(Op(c))
      /\ Recovered[c].val.tx = SignedTx(Op(c), c.key, c.sig)
      /\ tx_hash(Recovered[c].val.tx) = transaction_hash(c)
  BY MineFacts
<1>4. /\ Recovered[d].val.tx = SignedTx(Op(d), d.key, d.sig) /\ ChainFields(Op(d))
      /\ Fields(Recovered[d].val.tx) = Accessors(Op(d))
      /\ tx_hash(Recovered[d].val.tx) = transaction_hash(d)
  BY MineFacts
<1>5. /\ built.txs[p] = Recovered[d].val.tx
      /\ \A j \in 1 .. Len(built.txs) : built.callers[j] = s <=> j = p
      /\ Op(d).nonce = world.nonce[s] /\ world'.nonce[s] = world.nonce[s] + 1
      /\ d = c => Settled(c, built, p, world, world')
  BY <1>1, <1>2 DEF OnceBy
<1>6. world.nonce[s] = Op(c).nonce /\ world'.nonce[s] = Op(c).nonce + 1 /\ Op(c).nonce \in Nat
  <2>1. Fields(built.txs[p]).nonce = Op(d).nonce
    BY <1>4, <1>5 DEF Accessors
  <2>2. Op(d).nonce <= Op(c).nonce
    BY <1>1, <1>2, <1>5, <2>1 DEF NoneBeyond
  <2>3. world.nonce[s] \in {Op(c).nonce, Op(c).nonce + 1}
    BY <1>2 DEF NoneBeyond
  <2>4. Op(c).nonce \in Nat
    BY <1>3 DEF ChainFields
  <2> QED
    BY <1>5, <2>2, <2>3, <2>4
<1>7. NoneBeyond(c, world', Coming, NoBlock)
  BY <1>2, <1>6 DEF NoneBeyond
<1>8. Turn(k, world) /\ ~Turn(k, world')
  BY <1>2, <1>6 DEF Turn
<1>9. \A n, i : ~Found(c, head, n, i)
  BY <1>1, <1>6, NotYet
<1>10. k.phase # "verifying"
  BY <1>2, <1>9 DEF Remembers
<1>11. /\ x.txs = built.txs /\ x.callers = built.callers /\ x.receipts = built.receipts
       /\ x.base_fee = BASE_FEE
  OBVIOUS
<1> HIDE DEF x
<1>12. ASSUME Ful(k), NEW n, NEW i, Found(c, head', n, i) PROVE Good(k, head'[n], i, world')
  <2>1. /\ n \in 1 .. Len(head) + 1 /\ i \in 1 .. Len(head'[n].txs)
        /\ tx_hash(head'[n].txs[i]) = transaction_hash(c)
    BY <1>1, <1>12 DEF Found
  <2>2. n = Len(head) + 1
    <3> SUFFICES ASSUME n # Len(head) + 1 PROVE FALSE
      OBVIOUS
    <3>1. n \in 1 .. Len(head)
      BY <1>1, <2>1
    <3>2. Found(c, head, n, i)
      BY <1>1, <2>1, <3>1 DEF Found
    <3> QED
      BY <1>9, <3>2
  <2>3. i \in 1 .. Len(built.txs) /\ tx_hash(built.txs[i]) = transaction_hash(c)
    BY <1>1, <1>11, <2>1, <2>2
  <2>4. built.txs[i] = Recovered[c].val.tx /\ built.callers[i] = s
    BY <1>1, <2>3, BuiltPlace
  <2>5. i = p
    BY <1>5, <2>3, <2>4
  <2>6. d = c
    <3>1. transaction_hash(c) = transaction_hash(d)
      BY <1>3, <1>4, <1>5, <2>4, <2>5
    <3> QED
      BY <3>1 DEF transaction_hash
  <2>7. Settled(c, built, p, world, world')
    BY <1>5, <2>6
  <2>8. FeeIn(x, p) = FeeAt(built, p)
    BY <1>11 DEF FeeIn, FeeAt, GasOf
  <2>9. k.before = world.balance[s] /\ k.toBefore = world.balance[Op(c).to]
    BY <1>2, <1>8, <1>12 DEF Remembers, Ful
  <2>10. Good(k, x, p, world')
    BY <1>2, <1>11, <2>4, <2>5, <2>7, <2>8, <2>9 DEF Good, Settled
  <2> QED
    BY <1>1, <2>2, <2>5, <2>10
<1> QED
  BY <1>2, <1>7, <1>8, <1>10, <1>12 DEF Remembers

LEMMA CommitKeepsClient ==
    ASSUME IInv, NInv, PInv, CInv, NonceDiscipline, Commit, built' = NoBlock,
           UNCHANGED <<pool, client, late>>
    PROVE  CInv'
<1>0. /\ NowWorld = world /\ NowHead = head /\ NowWorld' = world' /\ NowHead' = head'
      /\ Coming' = Coming
  BY CommitFacts, ComingSame DEF NowWorld, NowHead
<1>1. ASSUME client.phase \in Working, client.raw \in Mine
      PROVE  NoneBeyond(client.raw, world', Coming, NoBlock) /\ Remembers(client, head', world')
  <2>1. PICK k : k = client
    OBVIOUS
  <2>2. k.raw \in Mine /\ NoneBeyond(k.raw, world, Coming, built) /\ Remembers(k, head, world)
    BY <1>0, <1>1, <2>1 DEF CInv
  <2>3. built # NoBlock
    BY CommitFacts
  <2>4. Effect(k.raw, built, world, built.world)
    BY <2>2, <2>3 DEF PInv
  <2>5. NoneBeyond(k.raw, world', Coming, NoBlock) /\ Remembers(k, head', world')
    <3>1. CASE Quiet(k.raw, built, world, built.world)
      BY <2>2, <3>1, QuietCommit
    <3>2. CASE \E d \in Mine, p \in 1 .. Len(built.txs) :
                 OnceBy(k.raw, d, built, p, world, built.world)
      BY <2>2, <3>2, OnceCommit
    <3> QED
      BY <2>4, <3>1, <3>2 DEF Effect
  <2> QED
    BY <2>1, <2>5
<1> QED
  BY <1>0, <1>1 DEF CInv

\* The node stops in a run and loses nothing: what it will start with is what it had.
LEMMA StopKeeps ==
    ASSUME IInv, NInv, CInv, ReplayEquivalence, Stop, ~taken' PROVE CInv'
<1>0. mode # "down" /\ mode' = "down" /\ UNCHANGED <<client, db, dbworld>>
      /\ pool' = {} /\ late' = {} /\ built' = NoBlock
  BY DEF Stop, Halt
<1>1. CASE AtRest
  <2>1. client'.phase \notin Working
    BY <1>0, <1>1 DEF AtRest, Working
  <2> QED
    BY <2>1, ClientRests
<1>2. CASE ~AtRest
  <2>1. /\ Len(db) \in Nat /\ Len(head) \in Nat /\ ~(Len(db) < Len(head))
        /\ Len(db) <= Len(head)
    <3>1. ~(Len(db) < Len(head))
      BY <1>2, Zenon DEF Stop
    <3>2. db \in Seq(Rows) /\ head \in Seq(HeadBlocks) /\ Len(db) <= Len(head)
      BY <1>0 DEF IInv, TypeOK, DiskBehind
    <3> QED
      BY <3>1, <3>2
  <2>2. Len(db) = Len(head) /\ \A i \in 1 .. Len(db) : LoadedBlock(db[i]) = head[i]
    BY <1>0, <2>1 DEF IInv, DiskBehind
  <2>3. head \in Seq(HeadBlocks)
    BY DEF IInv, TypeOK
  <2>4. DbChain = head
    <3>1. head = [i \in 1 .. Len(head) |-> head[i]]
      BY <2>3
    <3> QED
      BY <2>2, <3>1 DEF DbChain
  <2>5. dbworld = world
    BY <2>4 DEF ReplayEquivalence, DbChain
  <2>6. NowHead' = NowHead /\ NowWorld' = NowWorld
    <3>1. DbChain' = DbChain
      BY <1>0 DEF DbChain
    <3> QED
      BY <1>0, <2>4, <2>5, <3>1 DEF NowHead, NowWorld
  <2>7. Coming' = {}
    BY <1>0 DEF Coming
  <2>8. ASSUME client.phase \in Working, client.raw \in Mine
        PROVE  NoneBeyond(client.raw, NowWorld', Coming', built')
    <3>1. NoneBeyond(client.raw, NowWorld, Coming, built)
      BY <2>8 DEF CInv
    <3> QED
      BY <1>0, <2>6, <2>7, <3>1 DEF NoneBeyond
  <2> QED
    BY <1>0, <2>6, <2>8 DEF CInv
<1> QED
  BY <1>1, <1>2

LEMMA CInvKept ==
    ASSUME IInv, NInv, QInv, NonceDiscipline, ~taken, ~Stop, [NodeNext]_allvars
    PROVE  CInv' /\ (client'.phase = "failed" => client' = client)
<1>0. PInv /\ CInv
  BY DEF QInv
<1>1. CASE Boot
  <2>1. /\ mode = "down" /\ mode' = "node" /\ UNCHANGED <<client, pool, late, built>>
        /\ head' = DbChain /\ worlds' = [i \in 1 .. Len(db) + 1 |-> dbworld]
    BY <1>1 DEF Boot, StartNode, Open, nodevars, DbChain
  <2>2. world' = dbworld
    <3>1. Len(db) \in Nat
      BY DEF IInv, TypeOK
    <3>2. Len(worlds') = Len(db) + 1 /\ worlds'[Len(db) + 1] = dbworld
      BY <2>1, <3>1
    <3> QED
      BY <3>2 DEF world
  <2>3. NowHead' = NowHead /\ NowWorld' = NowWorld
    BY <2>1, <2>2 DEF NowHead, NowWorld
  <2> QED
    BY <1>0, <2>1, <2>3, ComingSame DEF CInv
<1>2. CASE Commit /\ built' = NoBlock /\ UNCHANGED <<pool, client, late>>
  BY <1>0, <1>2, CommitKeepsClient
<1>3. CASE UNCHANGED <<mode, head, worlds>> /\ (mode = "down" => UNCHANGED <<db, dbworld>>)
  <2>1. CASE client' = client
    BY <1>0, <1>3, <2>1, ClientWaits
  <2>2. CASE \E raw \in ClientRaws : ReadNonce(raw)
    BY <1>0, <2>2, ReadNonceKeeps DEF ReadNonce
  <2>3. CASE ReadBalance
    BY <1>0, <2>3, ReadBalanceKeeps DEF ReadBalance
  <2>4. CASE \E calls \in {1, 2} : ReadToBalance(calls)
    BY <1>0, <2>4, ReadToBalanceKeeps DEF ReadToBalance
  <2>5. CASE Send
    BY <1>0, <2>5, SendKeeps
  <2>6. CASE LoseCall
    BY <1>0, <2>6, LoseCallKeeps
  <2>7. CASE Poll
    BY <1>0, <2>7, PollKeeps
  <2>8. CASE Verify
    BY <1>0, <2>8, VerifyKeeps
  <2>9. CASE TimeOut
    <3>1. client'.phase = "threw"
      BY <2>9 DEF TimeOut, Ended
    <3> QED
      BY <3>1, ClientRests DEF Working
  <2> QED
    BY <2>1, <2>2, <2>3, <2>4, <2>5, <2>6, <2>7, <2>8, <2>9, ClientSteps
<1> QED
  BY <1>1, <1>2, <1>3, StepKinds

LEMMA QInvKept ==
    ASSUME IInv, NInv, QInv, NonceDiscipline, ReplayEquivalence, [NodeNext]_allvars PROVE QInv'
<1>1. mode' = "down" => pool' = {} /\ late' = {}
  BY DownKept
<1>2. CASE Stop
  <2>1. ASSUME ~taken' PROVE CInv'
    <3>1. CASE AtRest
      <4>1. client'.phase \notin Working
        BY <1>2, <3>1 DEF Stop, AtRest, Working
      <4> QED
        BY <4>1, ClientRests
    <3>2. CASE ~AtRest
      <4>1. ~taken
        BY <1>2, <2>1, <3>2 DEF Stop
      <4> QED
        BY <1>2, <2>1, <4>1, StopKeeps DEF QInv
    <3> QED
      BY <3>1, <3>2
  <2>2. PInv'
    <3>1. Coming' = {} /\ built' = NoBlock
      BY <1>2 DEF Stop, Coming
    <3> QED
      BY <3>1 DEF PInv, PoolBehind
  <2> QED
    BY <1>1, <2>1, <2>2 DEF QInv
<1>3. CASE ~Stop /\ ~taken
  <2>1. PInv
    BY <1>3 DEF QInv
  <2>2. PoolBehind'
    BY <1>3, PoolBehindKept
  <2>3. built' # NoBlock => \A c \in Mine : Effect(c, built', world', built'.world)
    BY <2>1, EffectKept
  <2>4. CInv'
    BY <1>3, CInvKept
  <2> QED
    BY <1>1, <2>2, <2>3, <2>4 DEF QInv, PInv
<1>4. CASE ~Stop /\ taken
  BY <1>1, <1>4, StepKinds DEF QInv
<1> QED
  BY <1>2, <1>3, <1>4

\* What the client asserts of hash, receipt, balances, nonce and stored transaction is so
\* when it asserts it, for any number of accounts of its own and any transactions of
\* others, with calls sent twice, lost or inserted late, runs given up, and stops that take
\* no block back from a run.
THEOREM ClientIsRight == NodeSpec => ClientVerified
<1>1. NodeInit => QInv
  <2> SUFFICES ASSUME NodeInit PROVE QInv
    OBVIOUS
  <2>1. client.phase = "idle" /\ pool = {} /\ late = {} /\ built = NoBlock
    BY DEF NodeInit, Ended
  <2>2. PInv
    BY <2>1 DEF PInv, PoolBehind, Coming
  <2>3. CInv
    BY <2>1 DEF CInv, Shaped, Ful, Working
  <2> QED
    BY <2>1, <2>2, <2>3 DEF QInv
<1>2. IInv /\ NInv /\ QInv /\ NonceDiscipline /\ ReplayEquivalence /\ [NodeNext]_allvars => QInv'
  BY QInvKept
<1>3. IInv /\ NInv /\ QInv /\ NonceDiscipline /\ [NodeNext]_allvars
        => [client'.phase = "failed" => client' = client \/ taken]_allvars
  <2> SUFFICES ASSUME IInv, NInv, QInv, NonceDiscipline, [NodeNext]_allvars, ~taken,
                      client'.phase = "failed"
               PROVE  client' = client
    OBVIOUS
  <2>1. CASE Stop
    BY <2>1 DEF Stop
  <2> QED
    BY <2>1, CInvKept
<1> QED
  BY <1>1, <1>2, <1>3, NodeInvariance, NodeIsChain, NoncesDisciplined, HistoryReplays, PTL
     DEF NodeSpec, ClientVerified
============================================================================
