------------------------------ MODULE BlobPool ------------------------------
(***************************************************************************)
(* src/pool.rs: CosmosPoolTransaction, the form a transaction has in the   *)
(* pool, and the travels of a blob sidecar that its methods make possible. *)
(* A blob transaction arrives together with its sidecar; the validator     *)
(* takes the sidecar off (take_blob), and from then on it lives in the     *)
(* blob store alone, until the transaction is dropped or final.  A peer    *)
(* that asks for the transaction, and a reorganisation that returns it to  *)
(* the pool, put the two together again.  Cosmos transactions share the    *)
(* pool and every one of these ways, but never have a sidecar.             *)
(*                                                                         *)
(* Validator, pool, blob store and maintenance task are upstream code,     *)
(* modelled from how src/pool.rs and build_pool of src/node.rs use them.   *)
(***************************************************************************)
EXTENDS CosmosTx, Sequences, FiniteSets

CONSTANTS
    Txs,                    \* transactions as blocks hold them; those of type 3 have a
                            \* field blobs, what their versioned hashes commit to
    Sidecars,               \* sidecars that may come with one: [blobs, len]
    Signers,                \* addresses transactions recover to
    disable_blobs_support,  \* txpool option
    blobpool_max_count,     \* txpool option
    ETH_LEN,                \* length of an Ethereum transaction without sidecar
    MaxHeight               \* bound: blocks in the chain

IsBlob(tx) == ~IsCosmos(tx) /\ ty(tx) = 3
BlobTxs == {tx \in Txs : IsBlob(tx)}

NoSidecar == [blobs |-> "none", len |-> 0]

\* A block without transactions; the others have one.
Empty == [kind |-> "Empty"]

ASSUME BlobAssumption ==
    /\ NoSidecar \notin Sidecars
    /\ \A s \in Sidecars : s.len \in Nat
    /\ ETH_LEN \in Nat /\ MaxHeight \in Nat /\ blobpool_max_count \in Nat
    /\ disable_blobs_support \in BOOLEAN
    /\ Empty \notin Txs
    /\ \A tx \in Txs : recover_signer(tx).ok => recover_signer(tx).val \in Signers
    /\ \A t, u \in Txs : tx_hash(t) = tx_hash(u) => t = u
    /\ \A tx \in Txs : Fields(tx).nonce \in Nat /\ (IsCosmos(tx) => RawSize(tx.raw) \in Nat)

Signed == {tx \in Txs : recover_signer(tx).ok}
Sender(tx) == recover_signer(tx).val
Nonce(tx) == Fields(tx).nonce

VARIABLES
    pool,       \* pool transactions: [tx, signer, encoded_length, blob_sidecar]
    blobstore,  \* sidecar kept for each blob transaction, or NoSidecar
    chain,      \* canonical blocks, each a transaction or Empty
    finalized,  \* how many of them are final
    promised    \* history: transactions the pool took and has had no reason to drop

vars == <<pool, blobstore, chain, finalized, promised>>

----------------------------------------------------------------------------
(* CosmosPoolTransaction.  The pooled form of a transaction is what the      *)
(* network carries: [tx, sidecar], with a sidecar if it has blobs.           *)

NoneSidecar == [kind |-> "None"]
Missing == [kind |-> "Missing"]
Present(s) == [kind |-> "Present", sidecar |-> s]

encode_2718_len(pooled) ==
    (IF IsCosmos(pooled.tx) THEN RawSize(pooled.tx.raw) ELSE ETH_LEN) + pooled.sidecar.len

\* External: EthPooledTransaction::new, and its from_pooled, which keeps the sidecar.
EthPooledNew(tx, signer, len) ==
    [tx |-> tx, signer |-> signer, encoded_length |-> len,
     blob_sidecar |-> IF IsBlob(tx) THEN Missing ELSE NoneSidecar]
EthFromPooled(pooled, signer) ==
    [EthPooledNew(pooled.tx, signer, encode_2718_len(pooled)) EXCEPT
        !.blob_sidecar = IF IsBlob(pooled.tx) THEN Present(pooled.sidecar) ELSE @]

\* Mutant: the length is the one of the form blocks hold.
from_pooled_BlockLength(pooled, signer) ==
    [EthFromPooled(pooled, signer) EXCEPT
        !.encoded_length = encode_2718_len([pooled EXCEPT !.sidecar = NoSidecar])]

from_pooled(pooled, signer) ==
    IF IsCosmos(pooled.tx) THEN EthPooledNew(pooled.tx, signer, encode_2718_len(pooled))
    ELSE [EthPooledNew(pooled.tx, signer, encode_2718_len(pooled)) EXCEPT
            !.blob_sidecar = EthFromPooled(pooled, signer).blob_sidecar]

\* Mutant: the sidecar is copied, not taken.
take_blob_Copy(p) ==
    [taken |-> IF IsBlob(p.tx) THEN p.blob_sidecar ELSE NoneSidecar, left |-> p]

take_blob(p) ==
    IF IsBlob(p.tx) THEN [taken |-> p.blob_sidecar, left |-> [p EXCEPT !.blob_sidecar = Missing]]
    ELSE [taken |-> NoneSidecar, left |-> p]

try_into_pooled_eip4844(p, sidecar) ==
    IF IsBlob(p.tx) THEN Ok([pooled |-> [tx |-> p.tx, sidecar |-> sidecar], signer |-> p.signer])
    ELSE Err("not a blob transaction")

\* Mutant: the transaction is wrapped like one without blobs.
try_from_eip4844_Plain(tx, signer, sidecar) ==
    IF IsBlob(tx)
    THEN Ok([EthPooledNew(tx, signer, encode_2718_len([tx |-> tx, sidecar |-> sidecar]))
               EXCEPT !.blob_sidecar = NoneSidecar])
    ELSE Err("not a blob transaction")

try_from_eip4844(tx, signer, sidecar) ==
    IF IsBlob(tx) THEN Ok(from_pooled([tx |-> tx, sidecar |-> sidecar], signer))
    ELSE Err("not a blob transaction")

\* PoolTransaction::try_from_consensus, through Transaction -> PooledTransaction.
try_from_consensus(tx, signer) ==
    IF try_into_pooled(tx).ok THEN Ok(from_pooled([tx |-> tx, sidecar |-> NoSidecar], signer))
    ELSE Err("missing sidecar")

\* Mutant: the sidecar is not compared with the versioned hashes.
validate_blob_Any(p, sidecar) == IsBlob(p.tx)

validate_blob(p, sidecar) == IsBlob(p.tx) /\ sidecar.blobs = p.tx.tx.blobs

----------------------------------------------------------------------------
(* Validator and pool (external)                                             *)

\* build_pool: the switch it hands to the validator.
blobs_disabled == disable_blobs_support \/ blobpool_max_count = 0

\* Account nonces after the blocks of c.
NonceIn(c, a) == Cardinality({i \in 1 .. Len(c) : c[i] # Empty /\ Sender(c[i]) = a})

\* A sidecar taken off p satisfies the validator; one that is missing must be stored.
SidecarOk(taken, p) ==
    \/ taken.kind = "Present" /\ validate_blob(p, taken.sidecar)
    \/ taken.kind = "Missing" /\ blobstore[tx_hash(p.tx)] # NoSidecar

\* The validator takes a transaction on top of the blocks of c.
Valid(p, c) ==
    /\ Nonce(p.tx) >= NonceIn(c, p.signer)
    /\ IsBlob(p.tx) => ~blobs_disabled /\ SidecarOk(take_blob(p).taken, take_blob(p).left)

Held == {e.tx : e \in pool}
Rivals(tx) == {e \in pool : e.signer = Sender(tx) /\ Nonce(e.tx) = Nonce(tx)}

\* The store once the transactions of ps are in the pool, those of gone dropped.
Stored(ps, gone) ==
    [h \in DOMAIN blobstore |->
        IF \E p \in ps : tx_hash(p.tx) = h /\ take_blob(p).taken.kind = "Present"
        THEN (CHOOSE p \in ps : tx_hash(p.tx) = h).blob_sidecar.sidecar
        ELSE IF \E e \in gone : tx_hash(e.tx) = h THEN NoSidecar
        ELSE blobstore[h]]

Init ==
    /\ pool = {}
    /\ blobstore = [h \in {tx_hash(tx) : tx \in BlobTxs} |-> NoSidecar]
    /\ chain = <<>>
    /\ finalized = 0
    /\ promised = {}

\* A transaction from the RPC or a peer, in its pooled form.  A rival makes way, or the
\* transaction is refused as underpriced, which changes nothing.
Submit(tx, sidecar) ==
    /\ tx \in Signed
    /\ (sidecar = NoSidecar) <=> ~IsBlob(tx)
    /\ tx \notin Held
    /\ LET p == from_pooled([tx |-> tx, sidecar |-> sidecar], Sender(tx))
       IN  /\ Valid(p, chain)
           /\ pool' = (pool \ Rivals(tx)) \cup {take_blob(p).left}
           /\ blobstore' = Stored({p}, Rivals(tx))
    /\ promised' = (promised \ {e.tx : e \in Rivals(tx)}) \cup {tx}
    /\ UNCHANGED <<chain, finalized>>

\* A limit of the pool is reached.
Discard(e) ==
    /\ e \in pool
    /\ pool' = pool \ {e}
    /\ blobstore' = Stored({}, {e})
    /\ promised' = promised \ {e.tx}
    /\ UNCHANGED <<chain, finalized>>

\* What the maintenance task makes of a transaction of an abandoned block.
Reinjected(tx) ==
    IF ~IsBlob(tx) THEN try_from_consensus(tx, Sender(tx))
    ELSE IF blobstore[tx_hash(tx)] = NoSidecar THEN Err("no sidecar")
    ELSE try_from_eip4844(tx, Sender(tx), blobstore[tx_hash(tx)])

\* The chain becomes c, and the transactions of undone leave it; returned go back to the
\* pool, what others used the nonce of is dropped with its sidecar.
Canonical(c, undone) ==
    LET stale == {e \in pool : Nonce(e.tx) < NonceIn(c, e.signer)}
        returned == {p \in {Reinjected(tx).val : tx \in {t \in undone : Reinjected(t).ok}} :
                        Valid(p, c)}
        InChain(tx) == \E i \in 1 .. Len(c) : c[i] = tx
    IN  /\ chain' = c
        /\ pool' = (pool \ stale) \cup {take_blob(p).left : p \in returned}
        /\ blobstore' = Stored(returned, {e \in stale : ~InChain(e.tx)})
        /\ promised' = {tx \in promised : InChain(tx) \/ Nonce(tx) >= NonceIn(c, Sender(tx))}

\* A new head, from the node's own builder or from elsewhere: block b on top of the first k
\* blocks, a reorganisation unless these are all.
NewHead(k, b) ==
    /\ k >= finalized /\ k < MaxHeight
    /\ LET kept == SubSeq(chain, 1, k)
       IN  /\ b # Empty => Nonce(b) = NonceIn(kept, Sender(b))
           /\ Canonical(Append(kept, b), {chain[i] : i \in k + 1 .. Len(chain)} \ {b, Empty})
    /\ UNCHANGED finalized

\* Blocks become final; their sidecars are deleted.
Finalize(n) ==
    /\ n \in finalized + 1 .. Len(chain)
    /\ finalized' = n
    /\ blobstore' = [h \in DOMAIN blobstore |->
          IF \E i \in 1 .. n : chain[i] # Empty /\ tx_hash(chain[i]) = h
          THEN NoSidecar ELSE blobstore[h]]
    /\ UNCHANGED <<pool, chain, promised>>

\* The process stops and starts again: pool and store begin empty (the store's directory is
\* cleared when it is opened), and the sidecars of blocks that are not final are gone.
Restart ==
    /\ pool' = {}
    /\ blobstore' = [h \in DOMAIN blobstore |-> NoSidecar]
    /\ promised' = {tx \in promised \ BlobTxs : \E i \in 1 .. Len(chain) : chain[i] = tx}
    /\ UNCHANGED <<chain, finalized>>

Next ==
    \/ \E tx \in Txs : \E s \in Sidecars \cup {NoSidecar} : Submit(tx, s)
    \/ \E e \in pool : Discard(e)
    \/ \E k \in 0 .. Len(chain) : \E b \in Signed \cup {Empty} : NewHead(k, b)
    \/ \E n \in 1 .. MaxHeight : Finalize(n)
    \/ Restart

Spec == Init /\ [][Next]_vars

----------------------------------------------------------------------------
(* Properties                                                                *)

\* The type invariant.  No sidecar is kept twice: the pool holds none of its own.
TypeOK ==
    /\ \A e \in pool :
         /\ e.tx \in Signed /\ e.signer = Sender(e.tx) /\ e.encoded_length \in Nat
         /\ e.blob_sidecar = IF IsBlob(e.tx) THEN Missing ELSE NoneSidecar
    /\ blobstore \in [{tx_hash(tx) : tx \in BlobTxs} -> Sidecars \cup {NoSidecar}]
    /\ chain \in Seq(Signed \cup {Empty}) /\ Len(chain) <= MaxHeight
    /\ finalized \in 0 .. Len(chain)
    /\ promised \subseteq Signed

\* take_blob leaves Missing behind, so the store is the only place a pending transaction's
\* sidecar is in: it is there, and it is the right one, through replacement, mining,
\* finalisation, restart and every return to the pool after a reorganisation.
BlobsAtHand ==
    \A e \in pool :
        IsBlob(e.tx) => /\ blobstore[tx_hash(e.tx)] # NoSidecar
                        /\ blobstore[tx_hash(e.tx)].blobs = e.tx.tx.blobs

\* External: what a peer that asks for a pooled transaction is sent.
Served(e) ==
    IF IsBlob(e.tx) THEN try_into_pooled_eip4844(e, blobstore[tx_hash(e.tx)])
    ELSE IF ~try_into_pooled(e.tx).ok THEN try_into_pooled(e.tx)
    ELSE Ok([pooled |-> [tx |-> e.tx, sidecar |-> NoSidecar], signer |-> e.signer])

\* A peer is sent what was announced: the length the pool keeps for a transaction, however
\* it came there, is the length of the form a peer gets, and its sender the one the peer
\* will recover.
ServedAsAnnounced ==
    \A e \in pool :
        /\ Served(e).ok
        /\ encode_2718_len(Served(e).val.pooled) = e.encoded_length
        /\ recover_signer(Served(e).val.pooled.tx) = Ok(e.signer)

\* A transaction the pool took is not lost by a reorganisation: unless it was replaced,
\* evicted, overtaken or swept away by a restart, it is in the pool or in the chain.
NothingForgotten ==
    \A tx \in promised : tx \in Held \/ \E i \in 1 .. Len(chain) : chain[i] = tx
============================================================================
