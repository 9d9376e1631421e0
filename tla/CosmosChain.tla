---------------------------- MODULE CosmosChain ----------------------------
(***************************************************************************)
(* The chain as one node keeps it: blocks arrive through the engine (the   *)
(* node's own miner, or a consensus client) or from an imported file, are  *)
(* validated by CosmosConsensus and executed by CosmosEvmConfig, become    *)
(* the head, are written to the database, and are read back after a stop   *)
(* or a crash.                                                             *)
(*                                                                         *)
(* On the engine path the transactions of a payload are decoded, recovered *)
(* and executed one by one (tx_iterator_for_payload) while the payload is  *)
(* converted to a block and validated: neither waits for the other, and    *)
(* the block is accepted when both have succeeded.  The import path        *)
(* validates first, recovers senders with the unchecked methods, executes, *)
(* and writes the database itself.                                         *)
(***************************************************************************)
EXTENDS CosmosEvm, Sequences

CONSTANTS
    Blocks,         \* blocks that may be submitted:
                    \* [txs (raw strings), base_fee, header_ok, roots_ok]
    ChainSpecs,     \* genesis hashes of the --chain files an operator may use
    BLOCK_GAS,      \* gas limit of a block
    MaxHeight       \* bound: blocks in the chain

SubmittedRaws == UNION {{b.txs[i] : i \in 1 .. Len(b.txs)} : b \in Blocks}

\* The fields the chain reads have their Rust types, so that the lengths of their
\* encodings are those of the types.
ChainFields(t) ==
    /\ t.to \in Accounts
    /\ t.nonce \in Nat /\ t.value \in Nat /\ t.input \in Nat /\ t.gas_limit \in Nat
    /\ t.max_fee_per_gas \in Nat /\ t.max_priority_fee_per_gas \in Nat

EthereumTx == [ty : EthereumTypes, signer : Accounts \cup {NoSigner}, low_s : BOOLEAN,
               nonce : Nat, to : Accounts, value : Nat, input : Nat, gas_limit : Nat,
               max_fee_per_gas : Nat, max_priority_fee_per_gas : Nat]

ASSUME ChainAssumption ==
    /\ MaxHeight \in Nat
    /\ BLOCK_GAS \in Nat
    /\ NoSigner \notin Accounts
    /\ \A b \in Blocks : /\ b.txs \in Seq(SubmittedRaws)
                         /\ b.base_fee \in Nat
                         /\ b.header_ok \in BOOLEAN /\ b.roots_ok \in BOOLEAN
    /\ \A raw \in SubmittedRaws :
         IF raw.ty \in EthereumTypes
         THEN raw.eth \in EthereumTx /\ raw.eth.ty = raw.ty
         ELSE ChainFields(raw.payload.op) /\ LensOf(raw.payload.op) \in Lens

VARIABLES
    mode,       \* "down", "node" (launched from main) or "import" (the CLI command)
    spec,       \* genesis hash of the chain file, fixed for the whole behaviour
    head,       \* canonical blocks in memory: [txs, callers, receipts, base_fee]
    worlds,     \* worlds[i + 1] is the state after i blocks
    db,         \* blocks on disk, transactions in compact form
    dbworld,    \* the state on disk
    job         \* the block being processed, or NoJob

vars == <<mode, spec, head, worlds, db, dbworld, job>>

NoJob == [path |-> "none"]
Busy == job.path # "none"
world == worlds[Len(worlds)]

----------------------------------------------------------------------------
(* Reading the database                                                      *)

StoredBlock(b) == [txs |-> [i \in 1 .. Len(b.txs) |-> to_compact(b.txs[i])],
                   callers |-> b.callers, receipts |-> b.receipts, base_fee |-> b.base_fee]

Readable(row) == \A i \in 1 .. Len(row.txs) : from_compact(row.txs[i]).ok

LoadedBlock(row) == [txs |-> [i \in 1 .. Len(row.txs) |-> from_compact(row.txs[i]).val],
                     callers |-> row.callers, receipts |-> row.receipts,
                     base_fee |-> row.base_fee]

----------------------------------------------------------------------------
Init ==
    /\ mode = "down"
    /\ spec \in ChainSpecs
    /\ head = <<>>
    /\ worlds = <<GenesisWorld>>
    /\ db = <<>>
    /\ dbworld = GenesisWorld
    /\ job = NoJob

\* Mutant: only the last state is laid out.
Open_OneState(m) ==
    /\ mode = "down"
    /\ mode' = m
    /\ head' = [i \in 1 .. Len(db) |-> LoadedBlock(db[i])]
    /\ worlds' = <<dbworld>>
    /\ UNCHANGED <<spec, db, dbworld, job>>

\* Open the database: blocks are decoded as they are read.  The states before the
\* last are not kept on disk.
Open(m) ==
    /\ mode = "down"
    /\ \A i \in 1 .. Len(db) : Readable(db[i])
    /\ mode' = m
    /\ head' = [i \in 1 .. Len(db) |-> LoadedBlock(db[i])]
    /\ worlds' = [i \in 1 .. Len(db) + 1 |-> dbworld]
    /\ UNCHANGED <<spec, db, dbworld, job>>

\* main: the node refuses to start on any other genesis.
StartNode == spec = GENESIS_HASH /\ Open("node")

\* The import command gets the same consensus and EVM components, not that check.
StartImport == Open("import")

\* The process ends, cleanly or not, at any moment: memory is gone.
Halt ==
    /\ mode # "down"
    /\ mode' = "down"
    /\ head' = <<>>
    /\ worlds' = <<GenesisWorld>>
    /\ job' = NoJob
    /\ UNCHANGED <<spec, db, dbworld>>

\* The engine's persistence service writes blocks, and the state after them, behind
\* the head (external).
Persist(n) ==
    /\ mode = "node"
    /\ n \in Len(db) + 1 .. Len(head)
    /\ db' = [i \in 1 .. n |-> IF i <= Len(db) THEN db[i] ELSE StoredBlock(head[i])]
    /\ dbworld' = worlds[n + 1]
    /\ UNCHANGED <<mode, spec, head, worlds, job>>

----------------------------------------------------------------------------
(* Processing a block                                                        *)

\* Mutant: the block is executed on the state on disk, which may be behind the head.
Submit_OnDiskState(b) ==
    /\ mode # "down" /\ ~Busy
    /\ Len(head) < MaxHeight
    /\ job' = [path |-> IF mode = "node" THEN "engine" ELSE "import", block |-> b,
               validated |-> FALSE, txs |-> <<>>, callers |-> <<>>, receipts |-> <<>>,
               gas |-> 0, world |-> dbworld]
    /\ UNCHANGED <<mode, spec, head, worlds, db, dbworld>>

\* A payload (newPayload) or a block of the file is taken up; its parent is the head.
Submit(b) ==
    /\ mode # "down" /\ ~Busy
    /\ Len(head) < MaxHeight
    /\ job' = [path |-> IF mode = "node" THEN "engine" ELSE "import", block |-> b,
               validated |-> FALSE, txs |-> <<>>, callers |-> <<>>, receipts |-> <<>>,
               gas |-> 0, world |-> world]
    /\ UNCHANGED <<mode, spec, head, worlds, db, dbworld>>

\* The block is dropped; nothing else changes.
Reject ==
    /\ job' = NoJob
    /\ UNCHANGED <<mode, spec, head, worlds, db, dbworld>>

\* Mutant: the genesis of the chain is not looked at.
verify_authorizations_AnyChain(txs) ==
    \A i \in 1 .. Len(txs) : IsCosmos(txs[i]) => CosmosVerify(txs[i]).ok

\* CosmosConsensus::verify_authorizations
verify_authorizations(txs) ==
    /\ spec = GENESIS_HASH
    /\ \A i \in 1 .. Len(txs) : IsCosmos(txs[i]) => CosmosVerify(txs[i]).ok

\* convert_payload_to_block (or the block file's decoder), then
\* validate_block_pre_execution: authorisations first, upstream rules after.
PreExecutionOk(b) ==
    /\ \A i \in 1 .. Len(b.txs) : decode_2718_exact(b.txs[i]).ok
    /\ verify_authorizations([i \in 1 .. Len(b.txs) |-> decode_2718_exact(b.txs[i]).val])
    /\ b.header_ok

Validate ==
    /\ Busy /\ ~job.validated
    /\ PreExecutionOk(job.block)
    /\ job' = [job EXCEPT !.validated = TRUE]
    /\ UNCHANGED <<mode, spec, head, worlds, db, dbworld>>

ValidateFails ==
    /\ Busy /\ ~job.validated
    /\ ~PreExecutionOk(job.block)
    /\ Reject

\* The next transaction: decoded and recovered as the path does it, turned into a
\* transaction environment, checked and executed on the state so far.
NextRaw == job.block.txs[Len(job.txs) + 1]
Recover(path, tx) ==
    IF path = "engine" THEN recover_signer(tx) ELSE recover_signer_unchecked(tx)

\* What becomes of the next transaction: the environment it executes in, or an error.
AttemptDecoded(path, tx, w, base_fee, gas) ==
    LET signer == Recover(path, tx.val)
        env == from_recovered_tx(tx.val, signer.val)
        e == ValidationError(env.val, w, base_fee, BLOCK_GAS - gas)
    IN  IF ~tx.ok THEN tx
        ELSE IF ~signer.ok THEN signer
        ELSE IF ~env.ok THEN env
        ELSE IF e # "none" THEN Err(e)
        ELSE Ok([tx |-> tx.val, env |-> env.val])
Attempt(path, raw, w, base_fee, gas) ==
    AttemptDecoded(path, decode_2718_exact(raw), w, base_fee, gas)

NextAttempt == Attempt(job.path, NextRaw, job.world, job.block.base_fee, job.gas)

Ready ==
    /\ Busy
    /\ Len(job.txs) < Len(job.block.txs)
    /\ job.path = "import" => job.validated

ExecuteNext ==
    /\ Ready
    /\ NextAttempt.ok
    /\ LET tx == NextAttempt.val.tx
           env == NextAttempt.val.env
           gas == job.gas + GasUsed(env)
       IN  job' = [job EXCEPT
               !.txs = Append(@, tx),
               !.callers = Append(@, env.caller),
               !.receipts = Append(@, build_receipt(tx, env, gas)),
               !.gas = gas,
               !.world = Applied(env, @, job.block.base_fee)]
    /\ UNCHANGED <<mode, spec, head, worlds, db, dbworld>>

\* The iterator yields an error, or the executor does: the block is invalid.
ExecuteFails ==
    /\ Ready
    /\ ~NextAttempt.ok
    /\ Reject

Executed == Busy /\ job.validated /\ Len(job.txs) = Len(job.block.txs)

\* validate_block_post_execution and the state root: the header's commitments must
\* be those of this execution.
Commit ==
    /\ Executed
    /\ job.block.roots_ok
    /\ LET b == [txs |-> job.txs, callers |-> job.callers, receipts |-> job.receipts,
                 base_fee |-> job.block.base_fee]
       IN  /\ head' = Append(head, b)
           /\ worlds' = Append(worlds, job.world)
           /\ IF job.path = "import"
              THEN /\ db' = Append(db, StoredBlock(b))
                   /\ dbworld' = job.world
              ELSE UNCHANGED <<db, dbworld>>
    /\ job' = NoJob
    /\ UNCHANGED <<mode, spec>>

CommitFails ==
    /\ Executed
    /\ ~job.block.roots_ok
    /\ Reject

Next ==
    \/ StartNode \/ StartImport \/ Halt
    \/ \E n \in 1 .. MaxHeight : Persist(n)
    \/ \E b \in Blocks : Submit(b)
    \/ Validate \/ ValidateFails
    \/ ExecuteNext \/ ExecuteFails
    \/ Commit \/ CommitFails

Spec == Init /\ [][Next]_vars

----------------------------------------------------------------------------
(* Properties                                                                *)

\* tx was executed on behalf of caller, and caller asked for it.
ActsFor(tx, caller) ==
    IF IsCosmos(tx)
    THEN /\ caller = tx.operation.sender
         /\ Authorized(tx.operation, tx.public_key, tx.signature.rs)
    ELSE caller = tx.tx.signer /\ caller # NoSigner

AllActFor(b) == /\ Len(b.callers) = Len(b.txs)
                /\ \A i \in 1 .. Len(b.txs) : ActsFor(b.txs[i], b.callers[i])

\* Transactions that decode, blocks in memory, rows on disk, states, the job at hand.
DecodedTxs == {decode_2718_exact(r).val : r \in {s \in SubmittedRaws : decode_2718_exact(s).ok}}
Receipts == [tx_type : EthereumTypes \cup {TX_TYPE}, success : BOOLEAN,
             cumulative_gas_used : Nat]
HeadBlocks == [txs : Seq(DecodedTxs), callers : Seq(Accounts), receipts : Seq(Receipts),
               base_fee : Nat]
Rows == [txs : Seq({to_compact(t) : t \in DecodedTxs}), callers : Seq(Accounts),
         receipts : Seq(Receipts), base_fee : Nat]
Worlds == [nonce : [Accounts -> Nat], balance : [Accounts -> Int],
           slot : Accounts \cup {NoSigner}]
Jobs == [path : {"engine", "import"}, block : Blocks, validated : BOOLEAN,
         txs : Seq(DecodedTxs), callers : Seq(Accounts), receipts : Seq(Receipts),
         gas : Nat, world : Worlds]

\* The type invariant; a job has as many callers and receipts as transactions, at most
\* as many as its block, runs in the mode it was taken up in, and has room in the chain.
TypeOK ==
    /\ mode \in {"down", "node", "import"}
    /\ spec \in ChainSpecs
    /\ head \in Seq(HeadBlocks) /\ Len(head) <= MaxHeight
    /\ worlds \in Seq(Worlds) /\ Len(worlds) = Len(head) + 1
    /\ db \in Seq(Rows) /\ Len(db) <= MaxHeight
    /\ dbworld \in Worlds
    /\ \/ job = NoJob
       \/ /\ job \in Jobs
          /\ Len(job.callers) = Len(job.txs) /\ Len(job.receipts) = Len(job.txs)
          /\ Len(job.txs) <= Len(job.block.txs)
          /\ mode = IF job.path = "engine" THEN "node" ELSE "import"
          /\ Len(head) < MaxHeight

\* Every transaction of the canonical chain was authorised by the account it was
\* executed for (CosmosConsensus, every sender-recovery path, and tx_env agree).
AuthorizedHistory == \A i \in 1 .. Len(head) : AllActFor(head[i])

\* On the engine path this holds of every transaction that has been executed even
\* before, or without, the consensus validation of its block.
AuthorizedSpeculation == Busy => AllActFor(job)

\* No assertion fails while a block executes: the caller the EVM is given is the one
\* the operation names (a panic here would take the node down on a peer's block).
NoPanic == (Ready /\ ~NextAttempt.ok) => NextAttempt.err # "panic"

\* Sender and nonce of transaction i of block n of the chain bs.
SlotAt(bs, n, i) == <<bs[n].callers[i], Fields(bs[n].txs[i]).nonce>>

\* Two transactions of bs never share sender and nonce, in one block or in two; every
\* nonce used is below the account's nonce in w, and every nonce below it was used.
OneSlotOnce(bs) ==
    \A n, m \in 1 .. Len(bs) :
        \A i \in 1 .. Len(bs[n].txs), j \in 1 .. Len(bs[m].txs) :
            SlotAt(bs, n, i) = SlotAt(bs, m, j) => n = m /\ i = j
NoncesUsed(bs, w) ==
    \A n \in 1 .. Len(bs) : \A i \in 1 .. Len(bs[n].txs) :
        SlotAt(bs, n, i)[2] < w.nonce[SlotAt(bs, n, i)[1]]
NoGap(bs, w) ==
    \A a \in Accounts : \A k \in 0 .. w.nonce[a] - 1 :
        \E n \in 1 .. Len(bs) : \E i \in 1 .. Len(bs[n].txs) : SlotAt(bs, n, i) = <<a, k>>

Disciplined(bs, w) == OneSlotOnce(bs) /\ NoncesUsed(bs, w) /\ NoGap(bs, w)

\* No replay and no gap: the chain holds of every account the requests 0 .. n - 1,
\* each exactly once, where n is the account's nonce in the current state.  (Calls to accounts
\* only: contract creation and EIP-7702 authorisations use nonces outside a transaction's own.)
NonceDiscipline == mode # "down" => Disciplined(head, world)

\* What is on disk decodes (no assertion of from_tx_compact can fail on it) to exactly
\* the blocks in memory, wherever the process was stopped between blocks and writes.
StorageFaithful ==
    /\ \A i \in 1 .. Len(db) : Readable(db[i])
    /\ mode # "down" =>
         /\ Len(db) <= Len(head)
         /\ \A i \in 1 .. Len(db) : LoadedBlock(db[i]) = head[i]

\* On any other genesis nothing is ever executed into the chain or stored, although the
\* import command performs no start-up check.
ForeignGenesisFrozen == spec # GENESIS_HASH => head = <<>> /\ db = <<>>

\* Executing the blocks on disk again, from genesis, as re-execution after an export does.
ReplayTx(w, raw, base_fee) ==
    LET a == Attempt("import", raw, w, base_fee, 0) IN Applied(a.val.env, w, base_fee)

ReplayBlock(w, b) ==
    LET after[n \in 0 .. Len(b.txs)] ==
          IF n = 0 THEN w ELSE ReplayTx(after[n - 1], encode_2718(b.txs[n]), b.base_fee)
    IN  after[Len(b.txs)]

Replay(blocks) ==
    LET after[n \in 0 .. Len(blocks)] ==
          IF n = 0 THEN GenesisWorld ELSE ReplayBlock(after[n - 1], blocks[n])
    IN  after[Len(blocks)]

\* The state on disk is the one that decoding and re-executing the blocks on disk gives,
\* and the state in memory the one of the blocks in memory: state and history never part,
\* across rejected blocks, persistence behind the head, crashes and imports.
ReplayEquivalence ==
    /\ dbworld = Replay([i \in 1 .. Len(db) |-> LoadedBlock(db[i])])
    /\ world = Replay(head)

\* Only a request of the account itself, in the block being committed, lowers its balance
\* or advances its nonce.
OnlySignersPay ==
    [][\A a \in Accounts :
         (/\ mode' = mode /\ Len(head') = Len(head) + 1
          /\ \/ worlds'[Len(worlds')].balance[a] < world.balance[a]
             \/ worlds'[Len(worlds')].nonce[a] # world.nonce[a])
         => LET b == head'[Len(head')]
            IN  \E i \in 1 .. Len(b.txs) : b.callers[i] = a /\ ActsFor(b.txs[i], a)]_vars

----------------------------------------------------------------------------
(* Refinement of the abstract ledger                                         *)

\* A request: who asked for what (t is an operation or an Ethereum transaction).
Request(caller, t) == [sender |-> caller, nonce |-> t.nonce, to |-> t.to, value |-> t.value]

BatchOf(b) == [i \in 1 .. Len(b.txs) |-> Request(b.callers[i], Fields(b.txs[i]))]

\* The same, from a row of the database.
StoredBatch(row) ==
    [i \in 1 .. Len(row.txs) |->
       Request(row.callers[i], IF row.txs[i].ty = TxTypeToCompact(TX_TYPE)
                               THEN row.txs[i].body.payload.op ELSE row.txs[i].body.eth)]

\* While the process is down the ledger is what the disk holds.
Committed == IF mode = "down" THEN [i \in 1 .. Len(db) |-> StoredBatch(db[i])]
             ELSE [i \in 1 .. Len(head) |-> BatchOf(head[i])]

\* The authorised requests among those the submitted blocks can hold.
AuthorizedRequests ==
    {Request(raw.payload.op.sender, raw.payload.op) :
        raw \in {r \in SubmittedRaws : r.ty = TX_TYPE /\ Authorized(r.payload.op, r.key, r.sig)}}
    \cup {Request(raw.eth.signer, raw.eth) :
        raw \in {r \in SubmittedRaws : r.ty \in EthereumTypes /\ r.eth.signer # NoSigner}}

Abstract == INSTANCE Ledger WITH Users <- Accounts, Requests <- AuthorizedRequests,
                                 batches <- Committed, durable <- Len(db)

\* The chain implements the ledger: authorised batches in nonce order, atomically; a
\* durable prefix that survives every stop.
ImplementsLedger == Abstract!Spec
============================================================================
