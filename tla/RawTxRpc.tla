------------------------------ MODULE RawTxRpc ------------------------------
(***************************************************************************)
(* src/main.rs: cosmos_sendRawTransaction, and the pool it feeds.          *)
(*                                                                         *)
(* Calls run concurrently.  A call takes a permit or fails at once, makes  *)
(* its checks (the pool's size among them) and then awaits the upstream    *)
(* eth_sendRawTransaction, which recovers the sender and adds the          *)
(* transaction to the pool; the permit is returned however the call ends,  *)
(* also when its connection goes away at the await: upstream queues        *)
(* insertions and answers later, so the pool may then take the transaction *)
(* of a call that is gone and no longer holds a permit.  Transactions      *)
(* reach the pool by eth_sendRawTransaction and from peers as well,        *)
(* without permit and size check.                                          *)
(***************************************************************************)
EXTENDS CosmosTx, FiniteSets

CONSTANTS
    Calls,          \* identities of the calls of cosmos_sendRawTransaction
    Params,         \* their arguments: [hex, raw], see below
    OtherRaws,      \* raw transactions that arrive by the other ways
    PERMITS,        \* permits of the semaphore (8)
    POOL_LIMIT,     \* pool size from which calls are refused (3072)
    Senders         \* addresses transactions of the model recover to

\* The argument is a JSON value: "lower" for the lower-case hexadecimal form of raw,
\* "upper" for the same with capital digits, "broken" for other text behind the right
\* prefix, "none" for no string at all.
Hexes == {"lower", "upper", "broken", "none"}

Raws == OtherRaws \cup {p.raw : p \in {q \in Params : q.hex # "none"}}

ASSUME RpcAssumption ==
    /\ PERMITS \in Nat \ {0} /\ POOL_LIMIT \in Nat \ {0}
    /\ IsFiniteSet(Calls)
    /\ \A p \in Params : p.hex \in Hexes
    /\ NoSigner \notin Senders
    /\ \A k \in DOMAIN Hash160 : Hash160[k] \in Senders
    /\ \A raw \in Raws : raw.ty \in EthereumTypes => raw.eth.signer \in Senders \cup {NoSigner}
    /\ \A raw \in Raws : raw.ty \in EthereumTypes =>
           raw.eth.nonce \in Nat /\ raw.eth.max_fee_per_gas \in Nat
    /\ \A raw \in Raws : raw.ty = TX_TYPE =>
           raw.payload.op.nonce \in Nat /\ raw.payload.op.max_fee_per_gas \in Nat

\* CosmosPoolTransaction::from_pooled: the signer comes with the recovered transaction.
from_pooled(tx, signer) == [tx |-> tx, signer |-> signer]

\* External: what the first half of send_raw_transaction makes of each string, whatever
\* the state: decoded as one pooled transaction, sender recovered.
PoolTransaction(d) ==
    LET pooled == try_into_pooled(d.val)
        s == recover_signer(pooled.val)
    IN  IF ~d.ok THEN d
        ELSE IF ~pooled.ok THEN pooled
        ELSE IF ~s.ok THEN s
        ELSE Ok(from_pooled(pooled.val, s.val))
Recovered == [raw \in Raws |-> PoolTransaction(decode_2718_exact(raw))]

\* The endpoint's own look at the string ("0x" and two digits a byte) and at the bytes.
TooLong == {raw \in Raws : raw.ty = TX_TYPE /\ 2 + 2 * RawSize(raw) > 2 + 2 * MAX_RAW_TX}
WireCheck == [raw \in Raws |-> decode_wire(raw)]

VARIABLES
    pc,         \* where each call is: "idle", "entered" (holds a permit), "sending"
                \* (at the await) or "done"; dropped at the await, its insertion is
                \* "queued" and then settled, "gone"
    param,      \* its argument
    result,     \* what it returned
    permits,    \* free permits
    pool,       \* pool transactions, and by which way they came
    mined,      \* transactions that left the pool for a block
    nonces      \* account nonces at the head

vars == <<pc, param, result, permits, pool, mined, nonces>>

NoParam == [hex |-> "none"]

\* Holding a permit; past the checks, at the await.
Holding == {c \in Calls : pc[c] \in {"entered", "sending"}}
Sending == {c \in Calls : pc[c] = "sending"}

\* Dropped at the await; those of them whose insertion the pool may still make.
HungUp == {c \in Calls : pc[c] \in {"queued", "gone"}}
Queued == {c \in Calls : pc[c] = "queued"}

Init ==
    /\ pc = [c \in Calls |-> "idle"]
    /\ param = [c \in Calls |-> NoParam]
    /\ result = [c \in Calls |-> Err("none yet")]
    /\ permits = PERMITS
    /\ pool = {}
    /\ mined = {}
    /\ nonces = [s \in Senders |-> 0]

\* Mutants: the permit is returned only from the await, only with a hash, or always.
Return_FromAwait(c, r) ==
    /\ pc' = [pc EXCEPT ![c] = "done"]
    /\ result' = [result EXCEPT ![c] = r]
    /\ permits' = IF c \in Sending THEN permits + 1 ELSE permits
    /\ UNCHANGED param
Return_WithHash(c, r) ==
    /\ pc' = [pc EXCEPT ![c] = "done"]
    /\ result' = [result EXCEPT ![c] = r]
    /\ permits' = IF r.ok THEN permits + 1 ELSE permits
    /\ UNCHANGED param
Return_Always(c, r) ==
    /\ pc' = [pc EXCEPT ![c] = "done"]
    /\ result' = [result EXCEPT ![c] = r]
    /\ permits' = permits + 1
    /\ UNCHANGED param

\* The end of the handler: the permit, if it has one, is dropped with the future.
Return(c, r) ==
    /\ pc' = [pc EXCEPT ![c] = "done"]
    /\ result' = [result EXCEPT ![c] = r]
    /\ permits' = IF c \in Holding THEN permits + 1 ELSE permits
    /\ UNCHANGED param

\* Mutant: there is no semaphore.
Enter_Unlimited(c, p) ==
    /\ pc[c] = "idle"
    /\ pc' = [pc EXCEPT ![c] = "entered"]
    /\ param' = [param EXCEPT ![c] = p]
    /\ UNCHANGED <<result, permits, pool, mined, nonces>>

\* try_acquire_owned
Enter(c, p) ==
    /\ pc[c] = "idle"
    /\ permits > 0
    /\ permits' = permits - 1
    /\ pc' = [pc EXCEPT ![c] = "entered"]
    /\ param' = [param EXCEPT ![c] = p]
    /\ UNCHANGED <<result, pool, mined, nonces>>

Refuse(c) ==
    /\ pc[c] = "idle"
    /\ permits = 0
    /\ Return(c, Err("authorization capacity reached"))
    /\ UNCHANGED <<pool, mined, nonces>>

\* The checks, in their order; the pool's size is the one shared value they read.
CheckError(p) ==
    IF p.hex = "none" THEN "invalid params"
    ELSE IF \/ p.raw.ty # TX_TYPE \/ p.hex = "upper"
            \/ p.raw \in TooLong
         THEN "invalid Cosmos transaction type or size"
    ELSE IF Cardinality(pool) >= POOL_LIMIT THEN "transaction pool is full"
    ELSE IF p.hex = "broken" THEN "invalid transaction hex"
    ELSE IF ~WireCheck[p.raw].ok THEN WireCheck[p.raw].err
    ELSE "none"

\* Mutant: a full pool is waited for.
Check_Wait(c) ==
    /\ pc[c] = "entered"
    /\ CheckError(param[c]) # "transaction pool is full"
    /\ LET e == CheckError(param[c])
       IN  IF e = "none"
           THEN pc' = [pc EXCEPT ![c] = "sending"] /\ UNCHANGED <<param, result, permits>>
           ELSE Return(c, Err(e))
    /\ UNCHANGED <<pool, mined, nonces>>

Check(c) ==
    /\ pc[c] = "entered"
    /\ LET e == CheckError(param[c])
       IN  IF e = "none"
           THEN pc' = [pc EXCEPT ![c] = "sending"] /\ UNCHANGED <<param, result, permits>>
           ELSE Return(c, Err(e))
    /\ UNCHANGED <<pool, mined, nonces>>

Entry(t, by) == [tx |-> t.tx, signer |-> t.signer, by |-> by]

\* External: two transactions for the same place; only a dearer one replaces the other.
Rivals(e, t) == e.signer = t.signer /\ Fields(e.tx).nonce = Fields(t.tx).nonce
Dearer(t, e) ==
    /\ Fields(t.tx).max_fee_per_gas > Fields(e.tx).max_fee_per_gas
    /\ Fields(t.tx).max_priority_fee_per_gas > Fields(e.tx).max_priority_fee_per_gas

\* External: send_raw_transaction asks the pool, which refuses a transaction it has, a
\* nonce below the account's, and a replacement that is not dearer.
Admission(t) ==
    IF ~t.ok THEN t
    ELSE IF \E e \in pool : tx_hash(e.tx) = tx_hash(t.val.tx) THEN Err("already known")
    ELSE IF Fields(t.val.tx).nonce < nonces[t.val.signer] THEN Err("nonce too low")
    ELSE IF \E e \in pool : Rivals(e, t.val) /\ ~Dearer(t.val, e)
         THEN Err("replacement transaction underpriced")
    ELSE t
SendResult(raw) == Admission(Recovered[raw])

\* The pool with t, which replaces its rival.
With(t, by) == {e \in pool : ~Rivals(e, t)} \cup {Entry(t, by)}

\* The await completes.
Send(c) ==
    /\ pc[c] = "sending"
    /\ LET r == SendResult(param[c].raw)
       IN  IF r.ok THEN pool' = With(r.val, "cosmos") /\ Return(c, Ok(tx_hash(r.val.tx)))
           ELSE UNCHANGED pool /\ Return(c, r)
    /\ UNCHANGED <<mined, nonces>>

\* The connection is lost: the future is dropped at its one await, and the permit with
\* it; what it asked of the pool stays asked.
Hangup(c) ==
    /\ pc[c] = "sending"
    /\ pc' = [pc EXCEPT ![c] = "queued"]
    /\ result' = [result EXCEPT ![c] = Err("gone")]
    /\ permits' = permits + 1
    /\ UNCHANGED <<param, pool, mined, nonces>>

\* External: the pool comes to the insertion of a call that is gone.  (Dropped before it
\* was queued, the transaction never arrives: the call stays as it is.)
LateInsert(c) ==
    /\ pc[c] = "queued"
    /\ pc' = [pc EXCEPT ![c] = "gone"]
    /\ LET r == SendResult(param[c].raw)
       IN  IF r.ok THEN pool' = With(r.val, "cosmos") ELSE UNCHANGED pool
    /\ UNCHANGED <<param, result, permits, mined, nonces>>

\* eth_sendRawTransaction, and transactions from peers.
SendOther(raw) ==
    /\ LET r == SendResult(raw) IN r.ok /\ pool' = With(r.val, "other")
    /\ UNCHANGED <<pc, param, result, permits, mined, nonces>>

\* External: a block takes the account's next transaction; the pool is told.
Mine(e) ==
    /\ e \in pool
    /\ Fields(e.tx).nonce = nonces[e.signer]
    /\ nonces' = [nonces EXCEPT ![e.signer] = @ + 1]
    /\ mined' = mined \cup {e}
    /\ pool' = {t \in pool : t.signer # e.signer \/ Fields(t.tx).nonce > Fields(e.tx).nonce}
    /\ UNCHANGED <<pc, param, result, permits>>

Handler(c) == Check(c) \/ Send(c)

Next ==
    \/ \E c \in Calls : \E p \in Params : Enter(c, p)
    \/ \E c \in Calls : Refuse(c) \/ Hangup(c)
    \/ \E c \in Calls : Check(c)
    \/ \E c \in Calls : Send(c)
    \/ \E c \in Calls : LateInsert(c)
    \/ \E raw \in OtherRaws : SendOther(raw)
    \/ \E e \in pool : Mine(e)

Spec == Init /\ [][Next]_vars

\* The runtime polls every call that can proceed, and the upstream call returns.
FairSpec == Spec /\ \A c \in Calls : WF_vars(Handler(c))

----------------------------------------------------------------------------
(* Properties                                                                *)

Stages == {"idle", "entered", "sending", "done", "queued", "gone"}

\* The type invariant.
TypeOK ==
    /\ pc \in [Calls -> Stages]
    /\ param \in [Calls -> Params \cup {NoParam}]
    /\ permits \in 0 .. PERMITS
    /\ IsFiniteSet(pool)
    /\ \A e \in pool : e.signer \in Senders /\ e.by \in {"cosmos", "other"}
    /\ nonces \in [Senders -> Nat]

\* No permit is lost or made, whichever of its returns a call takes.
PermitsAccounted == permits + Cardinality(Holding) = PERMITS

ByCosmos == {e \in pool : e.by = "cosmos"}

\* The size check is not atomic with the insertion it guards: calls that passed it
\* together may all insert, and a call that hung up there has freed its permit for the
\* next to pass.  Whatever the pool gets from elsewhere, what this method put there and
\* may still put there is beyond the limit by less than the number of permits and of the
\* calls that hung up: permits alone bound it while no client goes away at the await.
BoundedOvershoot ==
    Cardinality(ByCosmos) + Cardinality(Sending) + Cardinality(Queued)
        <= POOL_LIMIT - 1 + PERMITS + Cardinality(HungUp)

\* Whatever is in the pool, by whichever way it came, was authorised by its sender; only
\* Cosmos transactions came by the Cosmos method.
PoolAuthorized ==
    \A e \in pool :
        /\ IF IsCosmos(e.tx)
           THEN /\ e.signer = e.tx.operation.sender
                /\ Authorized(e.tx.operation, e.tx.public_key, e.tx.signature.rs)
           ELSE e.signer = e.tx.tx.signer /\ e.signer # NoSigner
        /\ e.by = "cosmos" => IsCosmos(e.tx)

\* A hash in an answer names the bytes that were sent, and they did reach the pool: they
\* are in it, were mined, or made way for a dearer or a mined one with the same nonce.
\* (The pool of the model is below its own limits and no block is undone: a transaction
\* evicted for room, or lost with its block, is outside this.)
AnswerIsTrue ==
    \A c \in Calls :
        result[c].ok =>
            LET raw == param[c].raw
                op == raw.payload.op
            IN  /\ result[c].val = transaction_hash(raw)
                /\ \/ \E e \in pool \cup mined : encode_2718(e.tx) = raw
                   \/ \E e \in pool : /\ e.signer = op.sender /\ Fields(e.tx).nonce = op.nonce
                                       /\ Fields(e.tx).max_fee_per_gas > op.max_fee_per_gas
                   \/ op.nonce < nonces[op.sender]

\* Every call returns, or its client goes away first.
CallsReturn == \A c \in Calls : pc[c] = "entered" ~> c \notin Holding

\* Refusals for lack of capacity are temporary.
CapacityReturns == permits = 0 ~> permits > 0
============================================================================
