--------------------------- MODULE BlobPoolProofs ---------------------------
(***************************************************************************)
(* Proofs about BlobPool, for any set of transactions, sidecars, either    *)
(* setting of the blob options and any length of the chain.                *)
(***************************************************************************)
EXTENDS BlobPool, CosmosTxProofs, FiniteSetTheorems, SequenceTheorems, TLAPS

----------------------------------------------------------------------------
(* The pool's form of a transaction                                          *)

\* What the pool holds of a transaction once the sidecar s is taken off it.
Stripped(tx, s) ==
    [tx |-> tx, signer |-> Sender(tx),
     encoded_length |-> encode_2718_len([tx |-> tx, sidecar |-> s]),
     blob_sidecar |-> IF IsBlob(tx) THEN Missing ELSE NoneSidecar]

LEMMA Arrival ==
    ASSUME NEW tx, NEW s
    PROVE  LET p == from_pooled([tx |-> tx, sidecar |-> s], Sender(tx)) IN
           /\ p.tx = tx /\ p.signer = Sender(tx)
           /\ IsBlob(tx) => /\ p.blob_sidecar = Present(s)
                            /\ take_blob(p).taken = Present(s)
           /\ ~IsBlob(tx) => take_blob(p).taken = NoneSidecar
           /\ take_blob(p).left = Stripped(tx, s)
<1> DEFINE pooled == [tx |-> tx, sidecar |-> s]
           p == from_pooled(pooled, Sender(tx))
           n == encode_2718_len(pooled)
           b == IF IsBlob(tx) THEN Present(s) ELSE NoneSidecar
<1>1. pooled.tx = tx /\ pooled.sidecar = s
  OBVIOUS
<1> HIDE DEF n
<1>2. p = [tx |-> tx, signer |-> Sender(tx), encoded_length |-> n, blob_sidecar |-> b]
  <2>1. CASE IsCosmos(tx)
    <3>1. ~IsBlob(tx)
      BY <2>1 DEF IsBlob
    <3> QED
      BY <2>1, <3>1 DEF from_pooled, EthPooledNew, n
  <2>2. CASE ~IsCosmos(tx) /\ IsBlob(tx)
    BY <2>2 DEF from_pooled, EthPooledNew, EthFromPooled, n
  <2>3. CASE ~IsCosmos(tx) /\ ~IsBlob(tx)
    BY <2>3 DEF from_pooled, EthPooledNew, EthFromPooled, n
  <2> QED
    BY <2>1, <2>2, <2>3
<1> HIDE DEF p
<1>3. p.tx = tx /\ p.signer = Sender(tx) /\ p.blob_sidecar = b
  BY <1>2
<1>4. CASE IsBlob(tx)
  <2>1. take_blob(p) = [taken |-> b, left |-> [p EXCEPT !.blob_sidecar = Missing]]
    BY <1>3, <1>4 DEF take_blob
  <2>2. [p EXCEPT !.blob_sidecar = Missing] = Stripped(tx, s)
    BY <1>2, <1>4 DEF Stripped, n
  <2> QED
    BY <1>3, <1>4, <2>1, <2>2 DEF p
<1>5. CASE ~IsBlob(tx)
  <2>1. take_blob(p) = [taken |-> NoneSidecar, left |-> p]
    BY <1>3, <1>5 DEF take_blob
  <2>2. p = Stripped(tx, s)
    BY <1>2, <1>5 DEF Stripped, n
  <2> QED
    BY <1>3, <1>5, <2>1, <2>2 DEF p
<1> QED
  BY <1>4, <1>5

\* Recovery says who sent it.
LEMMA Signature ==
    ASSUME NEW tx \in Signed PROVE tx \in Txs /\ recover_signer(tx) = Ok(Sender(tx))
<1>1. tx \in Txs /\ recover_signer(tx).ok
  BY DEF Signed
<1>2. CASE IsCosmos(tx)
  <2>1. recover_signer(tx) = verify(tx.operation, tx.public_key, tx.signature.rs, GENESIS_HASH)
    BY <1>2 DEF recover_signer, CosmosVerify
  <2>2. recover_signer(tx) = Ok(tx.operation.sender)
    BY <1>1, <2>1, VerifyAuthorizes
  <2> QED
    BY <1>1, <2>2 DEF Ok, Sender
<1>3. CASE ~IsCosmos(tx)
  <2>1. recover_signer(tx) = Ok(tx.tx.signer)
    BY <1>1, <1>3 DEF recover_signer, EthereumRecover, Err
  <2> QED
    BY <1>1, <2>1 DEF Ok, Sender
<1> QED
  BY <1>2, <1>3

----------------------------------------------------------------------------
(* Account nonces                                                            *)

\* The places of a's transactions among the first i blocks.
Places(c, i, a) == {j \in 1 .. i : c[j] # Empty /\ Sender(c[j]) = a}
Before(c, i, a) == Cardinality(Places(c, i, a))

LEMMA PlacesFinite ==
    ASSUME NEW c, NEW i \in Nat, NEW a
    PROVE  IsFiniteSet(Places(c, i, a)) /\ Before(c, i, a) \in Nat
<1>1. IsFiniteSet(1 .. i)
  BY FS_Interval
<1>2. Places(c, i, a) \subseteq 1 .. i
  BY DEF Places
<1> QED
  BY <1>1, <1>2, FS_Subset, FS_CardinalityType DEF Before

\* Later blocks only add to an account's nonce, and each of its transactions does.
LEMMA BeforeGrows ==
    ASSUME NEW c, NEW i \in Nat, NEW j \in Nat, i <= j, NEW a
    PROVE  /\ Before(c, i, a) <= Before(c, j, a)
           /\ i < j /\ c[j] # Empty /\ Sender(c[j]) = a => Before(c, i, a) < Before(c, j, a)
<1>1. Places(c, i, a) \subseteq Places(c, j, a)
  BY DEF Places
<1>2. IsFiniteSet(Places(c, j, a)) /\ IsFiniteSet(Places(c, i, a))
      /\ Before(c, i, a) \in Nat /\ Before(c, j, a) \in Nat
  BY PlacesFinite
<1>3. Before(c, i, a) <= Before(c, j, a)
  BY <1>1, <1>2, FS_Subset DEF Before
<1>4. ASSUME i < j, c[j] # Empty, Sender(c[j]) = a PROVE Before(c, i, a) < Before(c, j, a)
  <2>1. j \in Places(c, j, a) /\ j \notin Places(c, i, a)
    BY <1>4 DEF Places
  <2>2. Places(c, i, a) # Places(c, j, a)
    BY <2>1
  <2> QED
    BY <1>1, <1>2, <1>3, <2>2, FS_Subset DEF Before
<1> QED
  BY <1>3, <1>4

LEMMA BeforeNext ==
    ASSUME NEW c, NEW i \in Nat, NEW a, c[i + 1] # Empty, Sender(c[i + 1]) = a
    PROVE  Before(c, i + 1, a) = Before(c, i, a) + 1
<1>1. Places(c, i + 1, a) = Places(c, i, a) \cup {i + 1} /\ i + 1 \notin Places(c, i, a)
  BY DEF Places
<1> QED
  BY <1>1, PlacesFinite, FS_AddElement DEF Before

\* The nonce after i blocks is theirs alone.
LEMMA BeforeSame ==
    ASSUME NEW c, NEW d, NEW i \in Nat, \A j \in 1 .. i : c[j] = d[j], NEW a
    PROVE  Before(c, i, a) = Before(d, i, a)
<1>1. Places(c, i, a) = Places(d, i, a)
  BY DEF Places
<1> QED
  BY <1>1 DEF Before

LEMMA NonceBefore ==
    ASSUME NEW c, NEW a PROVE NonceIn(c, a) = Before(c, Len(c), a)
  BY DEF NonceIn, Before, Places

----------------------------------------------------------------------------
(* The inductive invariant                                                   *)

\* The sidecar that is kept for a transaction.
Kept(tx) == IF IsBlob(tx) THEN blobstore[tx_hash(tx)] ELSE NoSidecar

\* The store has nothing but sidecars that fit.
StoreOK ==
    /\ blobstore \in [{tx_hash(tx) : tx \in BlobTxs} -> Sidecars \cup {NoSidecar}]
    /\ \A tx \in BlobTxs : blobstore[tx_hash(tx)] # NoSidecar =>
                               blobstore[tx_hash(tx)].blobs = tx.tx.blobs

\* Each account's transactions are in the chain in the order of their nonces.
ChainOK ==
    /\ chain \in Seq(Signed \cup {Empty}) /\ Len(chain) <= MaxHeight
    /\ finalized \in 0 .. Len(chain)
    /\ \A i \in 1 .. Len(chain) : chain[i] # Empty =>
           Nonce(chain[i]) + 1 = Before(chain, i, Sender(chain[i]))

\* An entry of the pool is its transaction, stripped of the sidecar the store has, and
\* still ahead of the chain.
PoolOK ==
    \A e \in pool :
        /\ e.tx \in Signed
        /\ e = Stripped(e.tx, Kept(e.tx))
        /\ IsBlob(e.tx) => Kept(e.tx) # NoSidecar
        /\ Nonce(e.tx) >= NonceIn(chain, Sender(e.tx))

InChain(c, tx) == \E i \in 1 .. Len(c) : c[i] = tx

\* A promise is kept by the pool or the chain; one that a reorganisation can undo has its
\* sidecar still.
PromiseOK ==
    \A tx \in promised :
        /\ tx \in Signed
        /\ tx \in Held \/ InChain(chain, tx)
        /\ IsBlob(tx) => /\ ~blobs_disabled
                         /\ \A i \in finalized + 1 .. Len(chain) :
                                chain[i] = tx => Kept(tx) # NoSidecar

BInv == StoreOK /\ ChainOK /\ PoolOK /\ PromiseOK

----------------------------------------------------------------------------
(* What the invariant says of chain and pool                                 *)

LEMMA Numbers ==
    ASSUME NEW tx \in Signed PROVE Nonce(tx) \in Nat /\ tx \in Txs /\ tx # Empty
  BY BlobAssumption DEF Signed, Nonce

LEMMA SameHash ==
    ASSUME NEW t \in Txs, NEW u \in Txs, tx_hash(t) = tx_hash(u) PROVE t = u
  BY BlobAssumption

\* What is in the chain has a nonce below its account's.
LEMMA ChainUsed ==
    ASSUME ChainOK, NEW i \in 1 .. Len(chain), chain[i] # Empty
    PROVE  /\ chain[i] \in Signed
           /\ Nonce(chain[i]) < NonceIn(chain, Sender(chain[i]))
<1> DEFINE tx == chain[i]
           a == Sender(tx)
<1>1. tx \in Signed /\ Len(chain) \in Nat /\ i \in Nat /\ i <= Len(chain)
  BY DEF ChainOK
<1>2. Nonce(tx) \in Nat
  BY <1>1, Numbers
<1>3. Nonce(tx) + 1 = Before(chain, i, a)
  BY DEF ChainOK
<1> HIDE DEF tx, a
<1>4. Before(chain, i, a) <= Before(chain, Len(chain), a)
  BY <1>1, BeforeGrows
<1>5. Before(chain, i, a) \in Nat /\ Before(chain, Len(chain), a) \in Nat
  BY <1>1, PlacesFinite
<1>6. Nonce(tx) < NonceIn(chain, a)
  BY <1>2, <1>3, <1>4, <1>5, NonceBefore
<1> QED
  BY <1>1, <1>6 DEF tx, a

\* No transaction is in the pool and in the chain.
LEMMA Apart ==
    ASSUME ChainOK, NEW tx \in Signed, Nonce(tx) >= NonceIn(chain, Sender(tx))
    PROVE  ~InChain(chain, tx)
<1> SUFFICES ASSUME NEW i \in 1 .. Len(chain), chain[i] = tx PROVE FALSE
  BY DEF InChain
<1>1. tx # Empty /\ Nonce(tx) \in Nat
  BY Numbers
<1>2. Nonce(tx) < NonceIn(chain, Sender(tx))
  BY <1>1, ChainUsed
<1>3. NonceIn(chain, Sender(tx)) \in Nat
  BY NonceBefore, PlacesFinite DEF ChainOK
<1> QED
  BY <1>1, <1>2, <1>3

\* No transaction is in the chain twice.
LEMMA Once ==
    ASSUME ChainOK, NEW i \in 1 .. Len(chain), NEW j \in 1 .. Len(chain), i < j,
           chain[i] # Empty
    PROVE  chain[i] # chain[j]
<1> SUFFICES ASSUME chain[i] = chain[j] PROVE FALSE
  OBVIOUS
<1> DEFINE a == Sender(chain[j])
<1>1. i \in Nat /\ j \in Nat
  BY DEF ChainOK
<1>2. Nonce(chain[i]) + 1 = Before(chain, i, a) /\ Nonce(chain[j]) + 1 = Before(chain, j, a)
  BY DEF ChainOK
<1>3. Before(chain, i, a) < Before(chain, j, a)
  BY <1>1, BeforeGrows
<1>4. Before(chain, i, a) \in Nat /\ Before(chain, j, a) \in Nat
  BY <1>1, PlacesFinite
<1> HIDE DEF a
<1> QED
  BY <1>2, <1>3, <1>4

\* An entry does not change while its sidecar does not.
LEMMA KeptSame ==
    ASSUME NEW tx, IsBlob(tx) => blobstore'[tx_hash(tx)] = blobstore[tx_hash(tx)]
    PROVE  Kept(tx)' = Kept(tx)
  BY DEF Kept

----------------------------------------------------------------------------
(* The blob store                                                            *)

\* A transaction as it arrives, with a sidecar that fits if it has blobs.
Arrived(p) ==
    /\ p.tx \in Txs
    /\ IF IsBlob(p.tx)
       THEN /\ p.blob_sidecar.sidecar \in Sidecars
            /\ p.blob_sidecar.sidecar.blobs = p.tx.tx.blobs
            /\ take_blob(p).taken.kind = "Present"
       ELSE take_blob(p).taken.kind # "Present"

LEMMA StoredFacts ==
    ASSUME StoreOK, NEW ps, NEW gone, blobstore' = Stored(ps, gone),
           \A p \in ps : Arrived(p), \A p, q \in ps : p.tx = q.tx => p = q,
           \A e \in gone : e.tx \in Txs
    PROVE  /\ StoreOK'
           /\ \A p \in ps : IsBlob(p.tx) =>
                  blobstore'[tx_hash(p.tx)] = p.blob_sidecar.sidecar
           /\ \A tx \in BlobTxs :
                  (\A p \in ps : p.tx # tx) /\ (\A e \in gone : e.tx # tx) =>
                      blobstore'[tx_hash(tx)] = blobstore[tx_hash(tx)]
<1> DEFINE H == {tx_hash(tx) : tx \in BlobTxs}
           Comes(h) == \E p \in ps : tx_hash(p.tx) = h /\ take_blob(p).taken.kind = "Present"
           Goes(h) == \E e \in gone : tx_hash(e.tx) = h
           Come(h) == CHOOSE p \in ps : tx_hash(p.tx) = h
<1>1. DOMAIN blobstore = H /\ BlobTxs \subseteq Txs
  BY DEF StoreOK, BlobTxs
<1>2. blobstore' = [h \in H |-> IF Comes(h) THEN Come(h).blob_sidecar.sidecar
                               ELSE IF Goes(h) THEN NoSidecar ELSE blobstore[h]]
  BY <1>1 DEF Stored
<1>3. ASSUME NEW tx \in BlobTxs, Comes(tx_hash(tx))
      PROVE  /\ Come(tx_hash(tx)) \in ps /\ Come(tx_hash(tx)).tx = tx
             /\ Come(tx_hash(tx)).blob_sidecar.sidecar \in Sidecars
             /\ Come(tx_hash(tx)).blob_sidecar.sidecar.blobs = tx.tx.blobs
  <2> DEFINE q == Come(tx_hash(tx))
  <2>1. q \in ps /\ tx_hash(q.tx) = tx_hash(tx)
    BY <1>3
  <2> HIDE DEF q
  <2>2. q.tx \in Txs
    BY <2>1 DEF Arrived
  <2>3. q.tx = tx
    BY <1>1, <2>1, <2>2, SameHash
  <2>4. IsBlob(q.tx)
    BY <2>3 DEF BlobTxs
  <2>5. q.blob_sidecar.sidecar \in Sidecars /\ q.blob_sidecar.sidecar.blobs = tx.tx.blobs
    BY <2>1, <2>3, <2>4 DEF Arrived
  <2> QED
    BY <2>1, <2>3, <2>5 DEF q
<1>4. \A tx \in BlobTxs : tx_hash(tx) \in H
  OBVIOUS
<1> HIDE DEF H, Comes, Goes, Come
<1>5. ASSUME NEW tx \in BlobTxs
      PROVE  /\ blobstore'[tx_hash(tx)] \in Sidecars \cup {NoSidecar}
             /\ blobstore'[tx_hash(tx)] # NoSidecar => blobstore'[tx_hash(tx)].blobs = tx.tx.blobs
  BY <1>2, <1>3, <1>4 DEF StoreOK
<1>6. StoreOK'
  <2>1. \A h \in H : \E tx \in BlobTxs : h = tx_hash(tx)
    BY DEF H
  <2>2. blobstore' \in [H -> Sidecars \cup {NoSidecar}]
    BY <1>2, <1>5, <2>1
  <2> QED
    BY <1>5, <2>2 DEF StoreOK, H
<1>7. ASSUME NEW p \in ps, IsBlob(p.tx)
      PROVE  blobstore'[tx_hash(p.tx)] = p.blob_sidecar.sidecar
  <2>1. p.tx \in BlobTxs /\ Comes(tx_hash(p.tx))
    BY <1>7 DEF Arrived, BlobTxs, Comes
  <2>2. Come(tx_hash(p.tx)) = p
    BY <1>3, <2>1
  <2> QED
    BY <1>2, <1>4, <2>1, <2>2
<1>8. ASSUME NEW tx \in BlobTxs, \A p \in ps : p.tx # tx, \A e \in gone : e.tx # tx
      PROVE  blobstore'[tx_hash(tx)] = blobstore[tx_hash(tx)]
  <2>1. ~Comes(tx_hash(tx))
    BY <1>3, <1>8
  <2>2. ~Goes(tx_hash(tx))
    BY <1>1, <1>8, SameHash DEF Goes
  <2> QED
    BY <1>2, <1>4, <2>1, <2>2
<1> QED
  BY <1>6, <1>7, <1>8

----------------------------------------------------------------------------
(* The steps                                                                 *)

LEMMA InitBInv == Init => BInv
<1> SUFFICES ASSUME Init PROVE BInv
  OBVIOUS
<1>1. StoreOK
  <2> DEFINE H == {tx_hash(tx) : tx \in BlobTxs}
  <2>1. blobstore = [h \in H |-> NoSidecar]
    BY DEF Init
  <2>2. \A tx \in BlobTxs : tx_hash(tx) \in H
    OBVIOUS
  <2> HIDE DEF H
  <2>3. blobstore \in [H -> Sidecars \cup {NoSidecar}]
        /\ \A tx \in BlobTxs : blobstore[tx_hash(tx)] = NoSidecar
    BY <2>1, <2>2
  <2> QED
    BY <2>3 DEF StoreOK, H
<1>2. ChainOK
  <2>1. chain = <<>> /\ finalized = 0
    BY DEF Init
  <2>2. Len(chain) = 0 /\ chain \in Seq(Signed \cup {Empty})
    BY <2>1
  <2> QED
    BY <2>1, <2>2, BlobAssumption DEF ChainOK
<1>3. PoolOK /\ PromiseOK
  BY DEF Init, PoolOK, PromiseOK
<1> QED
  BY <1>1, <1>2, <1>3 DEF BInv

\* The signer of an entry is the sender of its transaction.
LEMMA EntryFacts ==
    ASSUME BInv, NEW e \in pool
    PROVE  /\ e.tx \in Signed /\ e.tx \in Txs /\ e.signer = Sender(e.tx)
           /\ ~InChain(chain, e.tx)
           /\ IsBlob(e.tx) => e.tx \in BlobTxs
<1>1. e.tx \in Signed /\ e = Stripped(e.tx, Kept(e.tx))
      /\ Nonce(e.tx) >= NonceIn(chain, Sender(e.tx))
  BY DEF BInv, PoolOK
<1>2. e.signer = Sender(e.tx)
  BY <1>1 DEF Stripped
<1>3. ~InChain(chain, e.tx)
  BY <1>1, Apart DEF BInv
<1> QED
  BY <1>1, <1>2, <1>3, Numbers DEF BlobTxs

\* Two entries of one transaction are one.
LEMMA EntryUnique ==
    ASSUME BInv, NEW e \in pool, NEW f \in pool, e.tx = f.tx PROVE e = f
  BY DEF BInv, PoolOK

LEMMA SubmitKeeps ==
    ASSUME BInv, NEW tx \in Txs, NEW s \in Sidecars \cup {NoSidecar}, Submit(tx, s)
    PROVE  BInv'
<1> DEFINE p == from_pooled([tx |-> tx, sidecar |-> s], Sender(tx))
           gone == Rivals(tx)
           n == Stripped(tx, s)
<1>1. /\ tx \in Signed /\ ((s = NoSidecar) <=> ~IsBlob(tx)) /\ tx \notin Held /\ Valid(p, chain)
      /\ pool' = (pool \ gone) \cup {take_blob(p).left} /\ blobstore' = Stored({p}, gone)
      /\ promised' = (promised \ {e.tx : e \in gone}) \cup {tx}
      /\ UNCHANGED <<chain, finalized>>
  BY DEF Submit
<1>2. /\ p.tx = tx /\ p.signer = Sender(tx)
      /\ IsBlob(tx) => p.blob_sidecar = Present(s) /\ take_blob(p).taken = Present(s)
      /\ ~IsBlob(tx) => take_blob(p).taken = NoneSidecar
      /\ take_blob(p).left = n
  BY Arrival
<1>3. gone \subseteq pool /\ \A e \in gone : e.signer = Sender(tx) /\ Nonce(e.tx) = Nonce(tx)
  BY DEF Rivals
<1>4. \A e \in pool \ gone : ~(e.signer = Sender(tx) /\ Nonce(e.tx) = Nonce(tx))
  BY DEF Rivals
<1>5. n.tx = tx
  BY DEF Stripped
<1> HIDE DEF p, gone, n
<1>6. Nonce(tx) >= NonceIn(chain, Sender(tx)) /\ (IsBlob(tx) => ~blobs_disabled)
  BY <1>1, <1>2 DEF Valid
<1>7. ~InChain(chain, tx)
  BY <1>1, <1>6, Apart DEF BInv
<1>8. IsBlob(tx) => s \in Sidecars /\ s.blobs = tx.tx.blobs
  <2> SUFFICES ASSUME IsBlob(tx) PROVE s \in Sidecars /\ s.blobs = tx.tx.blobs
    OBVIOUS
  <2>1. SidecarOk(Present(s), n)
    BY <1>1, <1>2 DEF Valid
  <2>2. Present(s).kind = "Present" /\ Present(s).sidecar = s
    BY DEF Present
  <2>3. validate_blob(n, s)
    BY <2>1, <2>2 DEF SidecarOk
  <2> QED
    BY <1>1, <1>5, <2>3 DEF validate_blob
<1>9. Arrived(p)
  BY <1>2, <1>8 DEF Arrived, Present, NoneSidecar
<1>10. \A e \in gone : e.tx \in Txs
  BY <1>3, EntryFacts
<1>11. /\ StoreOK'
       /\ IsBlob(tx) => blobstore'[tx_hash(tx)] = s
       /\ \A t \in BlobTxs : t # tx /\ (\A e \in gone : e.tx # t) =>
              blobstore'[tx_hash(t)] = blobstore[tx_hash(t)]
  <2> DEFINE ps == {p}
  <2>1. /\ blobstore' = Stored(ps, gone)
        /\ \A q \in ps : Arrived(q)
        /\ \A q, r \in ps : q.tx = r.tx => q = r
        /\ \A t : (\A q \in ps : q.tx # t) <=> tx # t
        /\ p \in ps
    BY <1>1, <1>2, <1>9
  <2> HIDE DEF ps
  <2>2. /\ StoreOK'
        /\ \A q \in ps : IsBlob(q.tx) => blobstore'[tx_hash(q.tx)] = q.blob_sidecar.sidecar
        /\ \A t \in BlobTxs : (\A q \in ps : q.tx # t) /\ (\A e \in gone : e.tx # t) =>
              blobstore'[tx_hash(t)] = blobstore[tx_hash(t)]
    BY <1>10, <2>1, StoredFacts DEF BInv
  <2> QED
    BY <1>2, <2>1, <2>2 DEF Present
<1>12. \A t \in Signed : IsBlob(t) => t \in BlobTxs
  BY DEF Signed, BlobTxs
<1>13. ASSUME NEW e \in pool \ gone
       PROVE  e.tx # tx /\ (\A g \in gone : g.tx # e.tx) /\ Kept(e.tx)' = Kept(e.tx)
  <2>1. e.tx # tx
    BY <1>1 DEF Held
  <2>2. \A g \in gone : g.tx # e.tx
    BY <1>3, <1>4, EntryFacts
  <2> QED
    BY <1>11, <2>1, <2>2, EntryFacts, KeptSame
<1>14. ChainOK'
  BY <1>1 DEF BInv, ChainOK
<1>15. Kept(tx)' = s
  BY <1>1, <1>11 DEF Kept
<1>16. pool' = (pool \ gone) \cup {n}
  BY <1>1, <1>2
<1>17. PoolOK'
  <2>1. ASSUME NEW e \in pool \ gone
        PROVE  /\ e.tx \in Signed /\ e = Stripped(e.tx, Kept(e.tx)')
               /\ IsBlob(e.tx) => Kept(e.tx)' # NoSidecar
               /\ Nonce(e.tx) >= NonceIn(chain', Sender(e.tx))
    BY <1>1, <1>13 DEF BInv, PoolOK
  <2>2. /\ n.tx \in Signed /\ n = Stripped(n.tx, Kept(n.tx)')
        /\ IsBlob(n.tx) => Kept(n.tx)' # NoSidecar
        /\ Nonce(n.tx) >= NonceIn(chain', Sender(n.tx))
    BY <1>1, <1>5, <1>6, <1>15 DEF n
  <2> QED
    BY <1>16, <2>1, <2>2 DEF PoolOK
<1>18. PromiseOK'
  <2>1. tx \in Held'
    BY <1>5, <1>16 DEF Held
  <2>2. ASSUME NEW t \in promised', t # tx
        PROVE  /\ t \in Signed /\ (t \in Held' \/ InChain(chain', t))
               /\ IsBlob(t) => /\ ~blobs_disabled
                               /\ \A i \in finalized' + 1 .. Len(chain') :
                                      chain'[i] = t => Kept(t)' # NoSidecar
    <3>1. t \in promised /\ \A e \in gone : e.tx # t
      BY <1>1, <2>2
    <3>2. t \in Signed /\ (t \in Held \/ InChain(chain, t))
      BY <3>1 DEF BInv, PromiseOK
    <3>3. t \in Held => t \in Held'
      BY <1>16, <3>1 DEF Held
    <3>4. IsBlob(t) => blobstore'[tx_hash(t)] = blobstore[tx_hash(t)]
      BY <1>11, <1>12, <2>2, <3>1, <3>2
    <3>5. Kept(t)' = Kept(t)
      BY <3>4, KeptSame
    <3> QED
      BY <1>1, <3>1, <3>2, <3>3, <3>5 DEF BInv, PromiseOK
  <2>3. \A i \in finalized' + 1 .. Len(chain') : chain'[i] # tx
    <3>1. finalized \in Nat /\ Len(chain) \in Nat
      BY DEF BInv, ChainOK
    <3> QED
      BY <1>1, <1>7, <3>1 DEF InChain
  <2> QED
    BY <1>1, <1>6, <2>1, <2>2, <2>3 DEF PromiseOK
<1> QED
  BY <1>11, <1>14, <1>17, <1>18 DEF BInv

LEMMA DiscardKeeps ==
    ASSUME BInv, NEW g \in pool, Discard(g) PROVE BInv'
<1>1. /\ pool' = pool \ {g} /\ blobstore' = Stored({}, {g}) /\ promised' = promised \ {g.tx}
      /\ UNCHANGED <<chain, finalized>>
  BY DEF Discard
<1>2. /\ StoreOK'
      /\ \A t \in BlobTxs : g.tx # t => blobstore'[tx_hash(t)] = blobstore[tx_hash(t)]
  <2>1. /\ StoreOK'
        /\ \A t \in BlobTxs : (\A q \in {} : q.tx # t) /\ (\A e \in {g} : e.tx # t) =>
              blobstore'[tx_hash(t)] = blobstore[tx_hash(t)]
    BY <1>1, EntryFacts, StoredFacts DEF BInv
  <2> QED
    BY <2>1
<1>3. ASSUME NEW t \in Signed, t # g.tx PROVE Kept(t)' = Kept(t)
  BY <1>2, <1>3, KeptSame DEF Signed, BlobTxs
<1>4. ChainOK'
  BY <1>1 DEF BInv, ChainOK
<1>5. PoolOK'
  <2>1. ASSUME NEW e \in pool \ {g}
        PROVE  /\ e.tx \in Signed /\ e = Stripped(e.tx, Kept(e.tx)')
               /\ IsBlob(e.tx) => Kept(e.tx)' # NoSidecar
               /\ Nonce(e.tx) >= NonceIn(chain', Sender(e.tx))
    <3>1. e.tx # g.tx
      BY EntryUnique
    <3>2. Kept(e.tx)' = Kept(e.tx)
      BY <1>3, <3>1, EntryFacts
    <3> QED
      BY <1>1, <3>2 DEF BInv, PoolOK
  <2> QED
    BY <1>1, <2>1 DEF PoolOK
<1>6. PromiseOK'
  <2>1. ASSUME NEW t \in promised'
        PROVE  /\ t \in Signed /\ (t \in Held' \/ InChain(chain', t))
               /\ IsBlob(t) => /\ ~blobs_disabled
                               /\ \A i \in finalized' + 1 .. Len(chain') :
                                      chain'[i] = t => Kept(t)' # NoSidecar
    <3>1. t \in promised /\ t # g.tx
      BY <1>1
    <3>2. t \in Signed /\ (t \in Held \/ InChain(chain, t))
      BY <3>1 DEF BInv, PromiseOK
    <3>3. t \in Held => t \in Held'
      BY <1>1, <3>1 DEF Held
    <3>4. Kept(t)' = Kept(t)
      BY <1>3, <3>1, <3>2
    <3> QED
      BY <1>1, <3>1, <3>2, <3>3, <3>4 DEF BInv, PromiseOK
  <2> QED
    BY <2>1 DEF PromiseOK
<1> QED
  BY <1>2, <1>4, <1>5, <1>6 DEF BInv

LEMMA FinalizeKeeps ==
    ASSUME BInv, NEW n \in 1 .. MaxHeight, Finalize(n) PROVE BInv'
<1> DEFINE Final(h) == \E i \in 1 .. n : chain[i] # Empty /\ tx_hash(chain[i]) = h
<1>1. /\ n \in finalized + 1 .. Len(chain) /\ finalized' = n
      /\ blobstore' = [h \in DOMAIN blobstore |-> IF Final(h) THEN NoSidecar ELSE blobstore[h]]
      /\ UNCHANGED <<pool, chain, promised>>
  BY DEF Finalize
<1>2. finalized \in Nat /\ Len(chain) \in Nat /\ n \in Nat /\ n <= Len(chain) /\ finalized < n
  BY <1>1, BlobAssumption DEF BInv, ChainOK
<1>3. ASSUME NEW t \in Signed, \A i \in 1 .. n : chain[i] # t PROVE Kept(t)' = Kept(t)
  <2> SUFFICES ASSUME IsBlob(t) PROVE blobstore'[tx_hash(t)] = blobstore[tx_hash(t)]
    BY KeptSame
  <2>1. ~Final(tx_hash(t))
    <3> SUFFICES ASSUME NEW i \in 1 .. n, chain[i] # Empty, tx_hash(chain[i]) = tx_hash(t)
                 PROVE  FALSE
      OBVIOUS
    <3>1. chain[i] \in Txs
      BY <1>2, Numbers DEF BInv, ChainOK
    <3> QED
      BY <1>3, <3>1, SameHash, Numbers
  <2>2. tx_hash(t) \in DOMAIN blobstore
    BY DEF Signed, BlobTxs, BInv, StoreOK
  <2> HIDE DEF Final
  <2> QED
    BY <1>1, <2>1, <2>2
<1> HIDE DEF Final
<1>4. StoreOK'
  <2> DEFINE H == {tx_hash(tx) : tx \in BlobTxs}
  <2>1. blobstore \in [H -> Sidecars \cup {NoSidecar}]
    BY DEF BInv, StoreOK
  <2>2. \A tx \in BlobTxs : tx_hash(tx) \in H
    OBVIOUS
  <2> HIDE DEF H
  <2>3. blobstore' \in [H -> Sidecars \cup {NoSidecar}]
    BY <1>1, <2>1
  <2>4. \A h \in H : blobstore'[h] # NoSidecar => blobstore'[h] = blobstore[h]
    BY <1>1, <2>1
  <2>5. \A tx \in BlobTxs : blobstore'[tx_hash(tx)] # NoSidecar =>
                               blobstore'[tx_hash(tx)].blobs = tx.tx.blobs
    BY <2>2, <2>4 DEF BInv, StoreOK
  <2> QED
    BY <2>3, <2>5 DEF StoreOK, H
<1>5. ChainOK'
  BY <1>1, <1>2 DEF BInv, ChainOK
<1>6. PoolOK'
  <2>1. ASSUME NEW e \in pool
        PROVE  /\ e.tx \in Signed /\ e = Stripped(e.tx, Kept(e.tx)')
               /\ IsBlob(e.tx) => Kept(e.tx)' # NoSidecar
               /\ Nonce(e.tx) >= NonceIn(chain', Sender(e.tx))
    <3>1. \A i \in 1 .. n : chain[i] # e.tx
      BY <1>2, EntryFacts DEF InChain
    <3>2. Kept(e.tx)' = Kept(e.tx)
      BY <1>3, <3>1, EntryFacts
    <3> QED
      BY <1>1, <3>2 DEF BInv, PoolOK
  <2> QED
    BY <1>1, <2>1 DEF PoolOK
<1>7. PromiseOK'
  <2>1. ASSUME NEW t \in promised'
        PROVE  /\ t \in Signed /\ (t \in Held' \/ InChain(chain', t))
               /\ IsBlob(t) => /\ ~blobs_disabled
                               /\ \A i \in finalized' + 1 .. Len(chain') :
                                      chain'[i] = t => Kept(t)' # NoSidecar
    <3>1. /\ t \in Signed /\ (t \in Held \/ InChain(chain, t))
          /\ IsBlob(t) => ~blobs_disabled
      BY <1>1 DEF BInv, PromiseOK
    <3>2. Held' = Held
      BY <1>1 DEF Held
    <3>3. ASSUME IsBlob(t), NEW i \in n + 1 .. Len(chain), chain[i] = t
          PROVE  Kept(t)' # NoSidecar
      <4>1. \A j \in 1 .. n : chain[j] # t
        BY <1>2, <3>1, <3>3, Once, Numbers DEF BInv
      <4>2. Kept(t)' = Kept(t)
        BY <1>3, <3>1, <4>1
      <4>3. i \in finalized + 1 .. Len(chain)
        BY <1>2
      <4> QED
        BY <1>1, <3>3, <4>2, <4>3 DEF BInv, PromiseOK
    <3> QED
      BY <1>1, <3>1, <3>2, <3>3
  <2> QED
    BY <2>1 DEF PromiseOK
<1> QED
  BY <1>4, <1>5, <1>6, <1>7 DEF BInv

LEMMA RestartKeeps ==
    ASSUME BInv, Restart PROVE BInv'
<1>1. /\ pool' = {} /\ blobstore' = [h \in DOMAIN blobstore |-> NoSidecar]
      /\ promised' = {tx \in promised \ BlobTxs : \E i \in 1 .. Len(chain) : chain[i] = tx}
      /\ UNCHANGED <<chain, finalized>>
  BY DEF Restart
<1>2. StoreOK'
  <2> DEFINE H == {tx_hash(tx) : tx \in BlobTxs}
  <2>1. DOMAIN blobstore = H
    BY DEF BInv, StoreOK
  <2>2. \A tx \in BlobTxs : tx_hash(tx) \in H
    OBVIOUS
  <2> HIDE DEF H
  <2>3. blobstore' \in [H -> Sidecars \cup {NoSidecar}]
    BY <1>1, <2>1
  <2>4. \A tx \in BlobTxs : blobstore'[tx_hash(tx)] = NoSidecar
    BY <1>1, <2>1, <2>2
  <2> QED
    BY <2>3, <2>4 DEF StoreOK, H
<1>3. ChainOK' /\ PoolOK'
  BY <1>1 DEF BInv, ChainOK, PoolOK
<1>4. PromiseOK'
  <2>1. ASSUME NEW t \in promised' PROVE t \in Signed /\ InChain(chain', t) /\ ~IsBlob(t)
    BY <1>1 DEF BInv, PromiseOK, InChain, Signed, BlobTxs
  <2> QED
    BY <2>1 DEF PromiseOK
<1> QED
  BY <1>2, <1>3, <1>4 DEF BInv

----------------------------------------------------------------------------
(* A new head                                                                *)

\* A transaction of an abandoned block, put together with the sidecar that was kept.
Back(tx) == from_pooled([tx |-> tx, sidecar |-> Kept(tx)], Sender(tx))

LEMMA ReinjectedFacts ==
    ASSUME NEW tx
    PROVE  /\ Reinjected(tx).ok <=> (IsBlob(tx) => Kept(tx) # NoSidecar)
           /\ Reinjected(tx).ok => Reinjected(tx).val = Back(tx)
<1>1. CASE IsBlob(tx) /\ blobstore[tx_hash(tx)] = NoSidecar
  <2>1. Reinjected(tx) = Err("no sidecar")
    BY <1>1 DEF Reinjected
  <2>2. ~Err("no sidecar").ok
    BY DEF Err
  <2>3. ~Reinjected(tx).ok
    BY <2>1, <2>2
  <2>4. Kept(tx) = NoSidecar
    BY <1>1 DEF Kept
  <2> QED
    BY <1>1, <2>3, <2>4
<1>2. CASE IsBlob(tx) /\ blobstore[tx_hash(tx)] # NoSidecar
  <2>1. Kept(tx) = blobstore[tx_hash(tx)]
    BY <1>2 DEF Kept
  <2>2. Reinjected(tx) = Ok(Back(tx))
    BY <1>2, <2>1 DEF Reinjected, try_from_eip4844, Back
  <2> QED
    BY <1>2, <2>1, <2>2 DEF Ok
<1>3. CASE ~IsBlob(tx)
  <2>1. try_into_pooled(tx).ok
    BY <1>3 DEF try_into_pooled, IsBlob, ty, Ok
  <2>2. Kept(tx) = NoSidecar
    BY <1>3 DEF Kept
  <2>3. Reinjected(tx) = Ok(Back(tx))
    BY <1>3, <2>1, <2>2 DEF Reinjected, try_from_consensus, Back
  <2> QED
    BY <1>3, <2>3 DEF Ok
<1> QED
  BY <1>1, <1>2, <1>3

LEMMA BackFacts ==
    ASSUME StoreOK, NEW tx \in Signed, IsBlob(tx) => Kept(tx) # NoSidecar
    PROVE  LET p == Back(tx) IN
           /\ p.tx = tx /\ p.signer = Sender(tx) /\ Arrived(p)
           /\ take_blob(p).left = Stripped(tx, Kept(tx))
           /\ IsBlob(tx) => p.blob_sidecar.sidecar = Kept(tx)
           /\ \A c : Nonce(tx) >= NonceIn(c, Sender(tx)) /\ (IsBlob(tx) => ~blobs_disabled)
                        => Valid(p, c)
<1> DEFINE p == Back(tx)
           s == Kept(tx)
<1>1. /\ p.tx = tx /\ p.signer = Sender(tx)
      /\ IsBlob(tx) => p.blob_sidecar = Present(s) /\ take_blob(p).taken = Present(s)
      /\ ~IsBlob(tx) => take_blob(p).taken = NoneSidecar
      /\ take_blob(p).left = Stripped(tx, s)
  BY Arrival DEF Back
<1>2. tx \in Txs
  BY DEF Signed
<1>3. IsBlob(tx) => s \in Sidecars /\ s.blobs = tx.tx.blobs
  BY <1>2 DEF StoreOK, Kept, BlobTxs
<1> HIDE DEF p, s
<1>4. Arrived(p)
  BY <1>1, <1>2, <1>3 DEF Arrived, Present, NoneSidecar
<1>5. Stripped(tx, s).tx = tx
  BY DEF Stripped
<1>6. IsBlob(tx) => SidecarOk(take_blob(p).taken, take_blob(p).left)
  <2> SUFFICES ASSUME IsBlob(tx) PROVE SidecarOk(Present(s), Stripped(tx, s))
    BY <1>1
  <2>1. validate_blob(Stripped(tx, s), s)
    BY <1>3, <1>5 DEF validate_blob
  <2>2. Present(s).kind = "Present" /\ Present(s).sidecar = s
    BY DEF Present
  <2> QED
    BY <2>1, <2>2 DEF SidecarOk
<1>7. \A c : Nonce(tx) >= NonceIn(c, Sender(tx)) /\ (IsBlob(tx) => ~blobs_disabled)
                => Valid(p, c)
  BY <1>1, <1>6 DEF Valid
<1>8. IsBlob(tx) => p.blob_sidecar.sidecar = s
  BY <1>1 DEF Present
<1> QED
  BY <1>1, <1>4, <1>7, <1>8 DEF p, s

\* The block's transaction is its sender's next, so the chain stays in order.
LEMMA NewChain ==
    ASSUME BInv, NEW k \in 0 .. Len(chain), NEW b \in Signed \cup {Empty}, NewHead(k, b)
    PROVE  LET c == Append(SubSeq(chain, 1, k), b) IN
           /\ chain' = c /\ finalized' = finalized /\ finalized <= k /\ k \in Nat
           /\ c \in Seq(Signed \cup {Empty}) /\ Len(c) = k + 1
           /\ \A i \in 1 .. k : c[i] = chain[i]
           /\ c[k + 1] = b
           /\ b # Empty => Nonce(b) = Before(chain, k, Sender(b))
           /\ ChainOK'
<1> DEFINE kept == SubSeq(chain, 1, k)
           c == Append(kept, b)
           S == Signed \cup {Empty}
<1>1. /\ k >= finalized /\ k < MaxHeight /\ finalized' = finalized /\ chain' = c
      /\ b # Empty => Nonce(b) = NonceIn(kept, Sender(b))
  BY DEF NewHead, Canonical
<1>2. /\ chain \in Seq(S) /\ finalized \in Nat /\ k \in Nat /\ k <= Len(chain)
      /\ Len(chain) \in Nat /\ MaxHeight \in Nat
  BY BlobAssumption DEF BInv, ChainOK
<1>3. kept \in Seq(S) /\ Len(kept) = k /\ \A i \in 1 .. k : kept[i] = chain[i]
  BY <1>2
<1> HIDE DEF kept
<1>4. /\ c \in Seq(S) /\ Len(c) = k + 1 /\ c[k + 1] = b
      /\ \A i \in 1 .. k : c[i] = kept[i]
  BY <1>2, <1>3
<1> HIDE DEF c, S
<1>5. \A i \in 1 .. k : c[i] = chain[i]
  BY <1>3, <1>4
<1>6. b # Empty => Nonce(b) = Before(chain, k, Sender(b))
  BY <1>1, <1>2, <1>3, NonceBefore, BeforeSame
<1>7. ASSUME NEW i \in 1 .. Len(c), c[i] # Empty
      PROVE  Nonce(c[i]) + 1 = Before(c, i, Sender(c[i]))
  <2>1. CASE i \in 1 .. k
    <3>1. i \in Nat /\ i \in 1 .. Len(chain) /\ c[i] = chain[i] /\ \A j \in 1 .. i : c[j] = chain[j]
      BY <1>2, <1>5, <2>1
    <3>2. Nonce(chain[i]) + 1 = Before(chain, i, Sender(chain[i]))
      BY <1>7, <3>1 DEF BInv, ChainOK
    <3>3. Before(c, i, Sender(chain[i])) = Before(chain, i, Sender(chain[i]))
      BY <3>1, BeforeSame
    <3> QED
      BY <3>1, <3>2, <3>3
  <2>2. CASE i = k + 1
    <3>1. Before(c, k + 1, Sender(b)) = Before(c, k, Sender(b)) + 1
      BY <1>2, <1>4, <1>7, <2>2, BeforeNext
    <3>2. Before(c, k, Sender(b)) = Before(chain, k, Sender(b))
      BY <1>2, <1>5, BeforeSame
    <3> QED
      BY <1>4, <1>6, <1>7, <2>2, <3>1, <3>2
  <2> QED
    BY <1>2, <1>4, <2>1, <2>2
<1>8. ChainOK'
  <2>1. chain' \in Seq(Signed \cup {Empty}) /\ Len(chain') <= MaxHeight
        /\ finalized' \in 0 .. Len(chain')
    BY <1>1, <1>2, <1>4 DEF S
  <2> QED
    BY <1>1, <1>7, <2>1 DEF ChainOK
<1> QED
  BY <1>1, <1>2, <1>4, <1>5, <1>6, <1>8 DEF c, kept, S

LEMMA NewHeadKeeps ==
    ASSUME BInv, NEW k \in 0 .. Len(chain), NEW b \in Signed \cup {Empty}, NewHead(k, b)
    PROVE  BInv'
<1> DEFINE c == Append(SubSeq(chain, 1, k), b)
           undone == {chain[i] : i \in k + 1 .. Len(chain)} \ {b, Empty}
           stale == {e \in pool : Nonce(e.tx) < NonceIn(c, e.signer)}
           R == {p \in {Reinjected(tx).val : tx \in {t \in undone : Reinjected(t).ok}} :
                    Valid(p, c)}
           gone == {e \in stale : ~InChain(c, e.tx)}
<1>1. /\ chain' = c /\ finalized' = finalized /\ finalized <= k /\ k \in Nat
      /\ c \in Seq(Signed \cup {Empty}) /\ Len(c) = k + 1
      /\ \A i \in 1 .. k : c[i] = chain[i]
      /\ c[k + 1] = b
      /\ b # Empty => Nonce(b) = Before(chain, k, Sender(b))
      /\ ChainOK'
  BY NewChain
<1>2. /\ pool' = (pool \ stale) \cup {take_blob(p).left : p \in R}
      /\ blobstore' = Stored(R, gone)
      /\ promised' = {tx \in promised : InChain(c, tx) \/ Nonce(tx) >= NonceIn(c, Sender(tx))}
  BY DEF NewHead, Canonical, InChain
<1>3. undone \subseteq Signed
  <2>1. chain \in Seq(Signed \cup {Empty}) /\ k \in Nat
    BY DEF BInv, ChainOK
  <2> QED
    BY <2>1
<1>4. ASSUME NEW p \in R
      PROVE  /\ p.tx \in undone /\ p.tx \in Signed /\ p = Back(p.tx) /\ Arrived(p)
             /\ take_blob(p).left = Stripped(p.tx, Kept(p.tx))
             /\ IsBlob(p.tx) => Kept(p.tx) # NoSidecar /\ p.blob_sidecar.sidecar = Kept(p.tx)
             /\ Nonce(p.tx) >= NonceIn(c, Sender(p.tx))
  <2>1. PICK tx \in undone : Reinjected(tx).ok /\ p = Reinjected(tx).val
    OBVIOUS
  <2>2. Valid(p, c)
    OBVIOUS
  <2> HIDE DEF undone, R, c
  <2>3. tx \in Signed /\ p = Back(tx) /\ (IsBlob(tx) => Kept(tx) # NoSidecar)
    BY <1>3, <2>1, ReinjectedFacts
  <2>4. /\ p.tx = tx /\ p.signer = Sender(tx) /\ Arrived(p)
        /\ take_blob(p).left = Stripped(tx, Kept(tx))
        /\ IsBlob(tx) => p.blob_sidecar.sidecar = Kept(tx)
    BY <2>3, BackFacts DEF BInv
  <2>5. Nonce(tx) >= NonceIn(c, Sender(tx))
    BY <2>2, <2>4 DEF Valid
  <2> QED
    BY <2>1, <2>3, <2>4, <2>5
<1>5. ASSUME NEW t \in undone, IsBlob(t) => Kept(t) # NoSidecar /\ ~blobs_disabled,
             Nonce(t) >= NonceIn(c, Sender(t))
      PROVE  Back(t) \in R /\ Back(t).tx = t
  <2>1. Reinjected(t).ok /\ Reinjected(t).val = Back(t)
    BY <1>5, ReinjectedFacts
  <2>2. Valid(Back(t), c) /\ Back(t).tx = t
    BY <1>3, <1>5, BackFacts DEF BInv
  <2> QED
    BY <2>1, <2>2
<1>6. gone \subseteq stale /\ stale \subseteq pool /\ (\A e \in gone : ~InChain(c, e.tx))
      /\ (\A e \in pool \ stale : ~(Nonce(e.tx) < NonceIn(c, e.signer)))
  OBVIOUS
<1>7. \A t : t \in undone <=> t # b /\ t # Empty /\ \E i \in k + 1 .. Len(chain) : chain[i] = t
  OBVIOUS
<1> HIDE DEF c, undone, stale, R, gone
<1>8. \A a : NonceIn(c, a) \in Nat
  BY <1>1, NonceBefore, PlacesFinite
<1>9. /\ StoreOK'
      /\ \A p \in R : IsBlob(p.tx) => blobstore'[tx_hash(p.tx)] = p.blob_sidecar.sidecar
      /\ \A tx \in BlobTxs :
            (\A p \in R : p.tx # tx) /\ (\A e \in gone : e.tx # tx) =>
                blobstore'[tx_hash(tx)] = blobstore[tx_hash(tx)]
  <2>1. \A p \in R : Arrived(p)
    BY <1>4
  <2>2. \A p, q \in R : p.tx = q.tx => p = q
    BY <1>4
  <2>3. \A e \in gone : e.tx \in Txs
    BY <1>6, EntryFacts
  <2> QED
    BY <1>2, <2>1, <2>2, <2>3, StoredFacts DEF BInv
<1>10. ASSUME NEW p \in R PROVE Kept(p.tx)' = Kept(p.tx)
  BY <1>4, <1>9, <1>10 DEF Kept
<1>11. ASSUME NEW t \in Signed, \A e \in gone : e.tx # t PROVE Kept(t)' = Kept(t)
  <2>1. CASE \E p \in R : p.tx = t
    BY <1>10, <2>1
  <2>2. CASE ~\E p \in R : p.tx = t
    <3>1. IsBlob(t) => t \in BlobTxs
      BY DEF Signed, BlobTxs
    <3> QED
      BY <1>9, <1>11, <2>2, <3>1, KeptSame
  <2> QED
    BY <2>1, <2>2
<1>12. PoolOK'
  <2>1. ASSUME NEW e \in pool \ stale
        PROVE  /\ e.tx \in Signed /\ e = Stripped(e.tx, Kept(e.tx)')
               /\ IsBlob(e.tx) => Kept(e.tx)' # NoSidecar
               /\ Nonce(e.tx) >= NonceIn(c, Sender(e.tx))
    <3>1. e.tx \in Signed /\ e.signer = Sender(e.tx) /\ Nonce(e.tx) \in Nat
      BY EntryFacts, Numbers
    <3>2. \A g \in gone : g.tx # e.tx
      BY <1>6, EntryUnique
    <3>3. Kept(e.tx)' = Kept(e.tx)
      BY <1>11, <3>1, <3>2
    <3>4. Nonce(e.tx) >= NonceIn(c, Sender(e.tx))
      BY <1>6, <1>8, <3>1
    <3> QED
      BY <3>1, <3>3, <3>4 DEF BInv, PoolOK
  <2>2. ASSUME NEW p \in R
        PROVE  LET e == take_blob(p).left IN
               /\ e.tx \in Signed /\ e = Stripped(e.tx, Kept(e.tx)')
               /\ IsBlob(e.tx) => Kept(e.tx)' # NoSidecar
               /\ Nonce(e.tx) >= NonceIn(c, Sender(e.tx))
    <3> DEFINE e == take_blob(p).left
    <3>1. e = Stripped(p.tx, Kept(p.tx)) /\ Kept(p.tx)' = Kept(p.tx)
      BY <1>4, <1>10
    <3>2. Stripped(p.tx, Kept(p.tx)).tx = p.tx
      BY DEF Stripped
    <3> HIDE DEF e
    <3>3. e.tx = p.tx
      BY <3>1, <3>2
    <3>4. e = Stripped(e.tx, Kept(e.tx)')
      BY <3>1, <3>3
    <3> QED
      BY <1>4, <3>1, <3>3, <3>4 DEF e
  <2>3. ASSUME NEW e \in pool'
        PROVE  /\ e.tx \in Signed /\ e = Stripped(e.tx, Kept(e.tx)')
               /\ IsBlob(e.tx) => Kept(e.tx)' # NoSidecar
               /\ Nonce(e.tx) >= NonceIn(c, Sender(e.tx))
    BY <1>2, <2>1, <2>2
  <2> QED
    BY <1>1, <2>3 DEF PoolOK
<1>13. ASSUME NEW t \in promised'
       PROVE  /\ t \in Signed
              /\ t \in Held' \/ InChain(c, t)
              /\ IsBlob(t) => ~blobs_disabled
  <2>1. /\ t \in promised /\ (InChain(c, t) \/ Nonce(t) >= NonceIn(c, Sender(t)))
    BY <1>2
  <2>2. /\ t \in Signed /\ (t \in Held \/ InChain(chain, t))
        /\ IsBlob(t) => /\ ~blobs_disabled
                        /\ \A i \in finalized + 1 .. Len(chain) :
                               chain[i] = t => Kept(t) # NoSidecar
    BY <2>1 DEF BInv, PromiseOK
  <2>3. CASE InChain(c, t)
    BY <2>2, <2>3
  <2>4. CASE ~InChain(c, t) /\ t \in Held
    <3>1. PICK e \in pool : e.tx = t
      BY <2>4 DEF Held
    <3>2. e.signer = Sender(t) /\ Nonce(t) \in Nat /\ Nonce(t) >= NonceIn(c, Sender(t))
      BY <2>1, <2>2, <2>4, <3>1, EntryFacts, Numbers
    <3>3. e \notin stale
      BY <1>8, <3>1, <3>2 DEF stale
    <3> QED
      BY <1>2, <2>2, <3>1, <3>3 DEF Held
  <2>5. CASE ~InChain(c, t) /\ t \notin Held
    <3>1. PICK i \in 1 .. Len(chain) : chain[i] = t
      BY <2>2, <2>5 DEF InChain
    <3>2. i \notin 1 .. k /\ t # b
      BY <1>1, <2>5, <3>1 DEF InChain
    <3>3. /\ i \in k + 1 .. Len(chain) /\ finalized \in Nat
          /\ i \in finalized + 1 .. Len(chain)
      BY <1>1, <3>1, <3>2 DEF BInv, ChainOK
    <3>4. t \in undone
      BY <1>7, <2>2, <3>1, <3>2, <3>3, Numbers
    <3>5. Back(t) \in R /\ Back(t).tx = t
      BY <1>5, <2>1, <2>2, <2>5, <3>1, <3>3, <3>4
    <3>6. take_blob(Back(t)).left \in pool' /\ take_blob(Back(t)).left = Stripped(t, Kept(t))
      BY <1>2, <1>4, <3>5
    <3>7. Stripped(t, Kept(t)).tx = t
      BY DEF Stripped
    <3>8. t \in Held'
      BY <3>6, <3>7 DEF Held
    <3> QED
      BY <2>2, <3>8
  <2> QED
    BY <2>3, <2>4, <2>5
<1>14. ASSUME NEW t \in promised', IsBlob(t), NEW i \in finalized + 1 .. k + 1, c[i] = t
       PROVE  Kept(t)' # NoSidecar
  <2>0. finalized \in Nat /\ k \in Nat /\ k <= Len(chain) /\ Len(chain) \in Nat /\ finalized <= k
    BY <1>1 DEF BInv, ChainOK
  <2>1. InChain(c, t)
    BY <1>1, <1>14, <2>0 DEF InChain
  <2>2. t \in promised /\ t \in Signed /\ (t \in Held \/ InChain(chain, t))
    BY <1>2 DEF BInv, PromiseOK
  <2>3. Kept(t)' = Kept(t)
    BY <1>6, <1>11, <2>1, <2>2
  <2>4. CASE t \in Held
    BY <1>14, <2>3, <2>4 DEF Held, BInv, PoolOK
  <2>5. CASE InChain(chain, t)
    <3>1. PICK j \in 1 .. Len(chain) : chain[j] = t
      BY <2>5 DEF InChain
    <3>2. CASE j \in finalized + 1 .. Len(chain)
      BY <1>14, <2>2, <2>3, <3>1, <3>2 DEF BInv, PromiseOK
    <3>3. CASE j <= finalized
      <4>1. t # Empty /\ Nonce(t) \in Nat
        BY <2>2, Numbers
      <4>2. CASE i <= k
        <5>1. chain[i] = t /\ j < i /\ i \in 1 .. Len(chain)
          BY <1>1, <1>14, <2>0, <3>3, <4>2
        <5> QED
          BY <3>1, <4>1, <5>1, Once DEF BInv
      <4>3. CASE i = k + 1
        <5>1. Nonce(t) = Before(chain, k, Sender(t))
          BY <1>1, <1>14, <4>1, <4>3
        <5>2. Nonce(t) + 1 = Before(chain, j, Sender(t))
          BY <3>1, <4>1 DEF BInv, ChainOK
        <5>3. j \in Nat /\ j <= k
          BY <2>0, <3>3
        <5>4. Before(chain, j, Sender(t)) <= Before(chain, k, Sender(t))
          BY <2>0, <5>3, BeforeGrows
        <5> QED
          BY <4>1, <5>1, <5>2, <5>4
      <4> QED
        BY <2>0, <4>2, <4>3
    <3> QED
      BY <2>0, <3>2, <3>3
  <2> QED
    BY <2>2, <2>4, <2>5
<1>15. PromiseOK'
  BY <1>1, <1>13, <1>14 DEF PromiseOK
<1> QED
  BY <1>1, <1>9, <1>12, <1>15 DEF BInv

----------------------------------------------------------------------------
(* Theorems                                                                  *)

LEMMA NextKeeps == BInv /\ [Next]_vars => BInv'
<1> SUFFICES ASSUME BInv, [Next]_vars PROVE BInv'
  OBVIOUS
<1>1. CASE \E tx \in Txs : \E s \in Sidecars \cup {NoSidecar} : Submit(tx, s)
  BY <1>1, SubmitKeeps
<1>2. CASE \E e \in pool : Discard(e)
  BY <1>2, DiscardKeeps
<1>3. CASE \E k \in 0 .. Len(chain) : \E b \in Signed \cup {Empty} : NewHead(k, b)
  BY <1>3, NewHeadKeeps
<1>4. CASE \E n \in 1 .. MaxHeight : Finalize(n)
  BY <1>4, FinalizeKeeps
<1>5. CASE Restart
  BY <1>5, RestartKeeps
<1>6. CASE UNCHANGED vars
  BY <1>6 DEF vars, BInv, StoreOK, ChainOK, PoolOK, PromiseOK, Kept, Held
<1> QED
  BY <1>1, <1>2, <1>3, <1>4, <1>5, <1>6 DEF Next

LEMMA Invariance == Spec => []BInv
  BY InitBInv, NextKeeps, PTL DEF Spec

\* The length a transaction has on the network is a number.
LEMMA LengthIsNat ==
    ASSUME NEW tx \in Txs, NEW s \in Sidecars \cup {NoSidecar}
    PROVE  encode_2718_len([tx |-> tx, sidecar |-> s]) \in Nat
<1>1. s.len \in Nat
  BY BlobAssumption DEF NoSidecar
<1> QED
  BY <1>1, BlobAssumption DEF encode_2718_len

LEMMA KeptIsSidecar ==
    ASSUME StoreOK, NEW tx \in Txs PROVE Kept(tx) \in Sidecars \cup {NoSidecar}
  BY DEF StoreOK, Kept, BlobTxs

\* Pool, store, chain and promises keep their types; no entry of the pool has a sidecar of
\* its own.
THEOREM TypesKept == Spec => []TypeOK
<1>1. BInv => TypeOK
  <2> SUFFICES ASSUME BInv PROVE TypeOK
    OBVIOUS
  <2>1. ASSUME NEW e \in pool
        PROVE  /\ e.tx \in Signed /\ e.signer = Sender(e.tx) /\ e.encoded_length \in Nat
               /\ e.blob_sidecar = IF IsBlob(e.tx) THEN Missing ELSE NoneSidecar
    <3>1. e.tx \in Signed /\ e.tx \in Txs /\ e = Stripped(e.tx, Kept(e.tx))
      BY EntryFacts DEF BInv, PoolOK
    <3>2. encode_2718_len([tx |-> e.tx, sidecar |-> Kept(e.tx)]) \in Nat
      BY <3>1, KeptIsSidecar, LengthIsNat DEF BInv
    <3> QED
      BY <3>1, <3>2 DEF Stripped
  <2> QED
    BY <2>1 DEF TypeOK, BInv, StoreOK, ChainOK, PromiseOK
<1> QED
  BY Invariance, <1>1, PTL

\* Of every blob transaction in the pool, whatever happened before, the store has the
\* sidecar, and it is the one its versioned hashes commit to.
THEOREM BlobsStayAtHand == Spec => []BlobsAtHand
<1>1. BInv => BlobsAtHand
  <2> SUFFICES ASSUME BInv, NEW e \in pool, IsBlob(e.tx)
               PROVE  /\ blobstore[tx_hash(e.tx)] # NoSidecar
                      /\ blobstore[tx_hash(e.tx)].blobs = e.tx.tx.blobs
    BY DEF BlobsAtHand
  <2>1. blobstore[tx_hash(e.tx)] # NoSidecar /\ e.tx \in BlobTxs
    BY EntryFacts DEF BInv, PoolOK, Kept
  <2> QED
    BY <2>1 DEF BInv, StoreOK
<1> QED
  BY Invariance, <1>1, PTL

\* A peer gets the transaction in the length the pool announced, and recovers the sender
\* the pool has for it.
THEOREM ServedIsAnnounced == Spec => []ServedAsAnnounced
<1>1. BInv => ServedAsAnnounced
  <2> SUFFICES ASSUME BInv, NEW e \in pool
               PROVE  /\ Served(e).ok
                      /\ encode_2718_len(Served(e).val.pooled) = e.encoded_length
                      /\ recover_signer(Served(e).val.pooled.tx) = Ok(e.signer)
    BY DEF ServedAsAnnounced
  <2>1. e.tx \in Signed /\ e.signer = Sender(e.tx) /\ e = Stripped(e.tx, Kept(e.tx))
    BY EntryFacts DEF BInv, PoolOK
  <2> DEFINE q == [tx |-> e.tx, sidecar |-> Kept(e.tx)]
             w == [pooled |-> q, signer |-> e.signer]
  <2>2. e.encoded_length = encode_2718_len(q)
    BY <2>1 DEF Stripped
  <2>3. Served(e) = Ok(w)
    <3>1. CASE IsBlob(e.tx)
      BY <3>1 DEF Served, try_into_pooled_eip4844, Kept
    <3>2. CASE ~IsBlob(e.tx)
      <4>1. try_into_pooled(e.tx).ok
        BY <3>2 DEF try_into_pooled, IsBlob, ty, Ok
      <4> QED
        BY <3>2, <4>1 DEF Served, Kept
    <3> QED
      BY <3>1, <3>2
  <2>4. q.tx = e.tx /\ w.pooled = q
    OBVIOUS
  <2> HIDE DEF q, w
  <2>5. Served(e).ok /\ Served(e).val = w
    BY <2>3 DEF Ok
  <2>6. recover_signer(e.tx) = Ok(e.signer)
    BY <2>1, Signature
  <2> QED
    BY <2>2, <2>4, <2>5, <2>6
<1> QED
  BY Invariance, <1>1, PTL

\* A reorganisation loses nothing the pool had taken: what leaves the chain finds its
\* sidecar and goes back to the pool.
THEOREM NothingIsForgotten == Spec => []NothingForgotten
<1>1. BInv => NothingForgotten
  BY DEF BInv, PromiseOK, InChain, NothingForgotten
<1> QED
  BY Invariance, <1>1, PTL
============================================================================
