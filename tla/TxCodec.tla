------------------------------ MODULE TxCodec ------------------------------
(***************************************************************************)
(* One transaction on its way through the node's representations: bytes    *)
(* from the network, from a raw-transaction RPC or from an imported file,  *)
(* the in-memory envelope, the compact database row and the JSON object.   *)
(* The conversions are those of CosmosTx, taken in any order and any       *)
(* number of times.                                                        *)
(***************************************************************************)
EXTENDS CosmosTx, FiniteSets

CONSTANTS
    RawInputs,      \* byte strings that may arrive, well formed or not
    RpcInputs,      \* JSON transactions that may arrive
    MaxAccepted     \* bound: transactions accepted from bytes in one behaviour

ASSUME MaxAcceptedAssumption == MaxAccepted \in Nat

\* What arrives has the fields of its Rust type: an upstream transaction those the
\* header of CosmosTx lists, an operation integers of the widths Lens gives.
ASSUME InputAssumption ==
    /\ \A raw \in RawInputs :
         IF raw.ty \in EthereumTypes
         THEN LET e == raw.eth IN
              /\ raw = [ty |-> e.ty, eth |-> e, rest |-> raw.rest]
              /\ e = [ty |-> e.ty, signer |-> e.signer, low_s |-> e.low_s, nonce |-> e.nonce,
                      to |-> e.to, value |-> e.value, input |-> e.input,
                      gas_limit |-> e.gas_limit, max_fee_per_gas |-> e.max_fee_per_gas,
                      max_priority_fee_per_gas |-> e.max_priority_fee_per_gas]
         ELSE LensOf(raw.payload.op) \in Lens
    /\ \A rpc \in RpcInputs : LensOf(rpc.operation) \in Lens

VARIABLES
    item,       \* the transaction at hand: [form, v], v its value in that form
    origin,     \* the envelope value as it was when the node first accepted it
    accepted    \* raw strings decoded successfully so far

vars == <<item, origin, accepted>>

Nothing == [form |-> "idle"]
NoTx == [kind |-> "none"]

Init == item = Nothing /\ origin = NoTx /\ accepted = {}

\* Bytes reach the node.
Receive(raw) ==
    /\ item.form = "idle"
    /\ Cardinality(accepted) < MaxAccepted
    /\ item' = [form |-> "wire", v |-> raw]
    /\ UNCHANGED <<origin, accepted>>

\* The envelope is decoded: the first transaction of a stream (typed_decode), or a
\* string that must be one transaction (decode_2718_exact).
FirstOfStream(raw) ==
    LET d == typed_decode(raw) IN IF d.ok THEN Ok(d.val.tx) ELSE d

Decode ==
    /\ item.form = "wire"
    /\ \E r \in {FirstOfStream(item.v), decode_2718_exact(item.v)} :
         IF r.ok
         THEN /\ item' = [form |-> "tx", v |-> r.val]
              /\ origin' = r.val
              /\ accepted' = accepted \cup {[item.v EXCEPT !.rest = 0]}
         ELSE /\ item' = [form |-> "rejected", v |-> item.v]
              /\ UNCHANGED <<origin, accepted>>

\* The transaction is encoded for a peer, a file or an engine payload.
Encode ==
    /\ item.form = "tx"
    /\ item' = [form |-> "again", v |-> encode_2718(item.v)]
    /\ UNCHANGED <<origin, accepted>>

\* ... and decoded again by the receiver.
Redecode ==
    /\ item.form = "again"
    /\ LET r == decode_2718_exact(item.v)
       IN  item' = IF r.ok THEN [form |-> "tx", v |-> r.val]
                   ELSE [form |-> "lost", v |-> item.v]
    /\ UNCHANGED <<origin, accepted>>

\* The transaction is written to the database ...
Store ==
    /\ item.form = "tx"
    /\ item' = [form |-> "db", v |-> to_compact(item.v)]
    /\ UNCHANGED <<origin, accepted>>

\* ... and read back, by the same process or after a restart.
Load ==
    /\ item.form = "db"
    /\ LET r == from_compact(item.v)
       IN  item' = IF r.ok THEN [form |-> "tx", v |-> r.val]
                   ELSE [form |-> "panic", v |-> r.err]
    /\ UNCHANGED <<origin, accepted>>

\* eth_getTransactionByHash shows a Cosmos transaction as JSON ...
Publish ==
    /\ item.form = "tx" /\ IsCosmos(item.v)
    /\ item' = [form |-> "rpc", v |-> serialize(item.v)]
    /\ UNCHANGED <<origin, accepted>>

\* ... which a client, or a debug consensus client, parses.
Parse ==
    /\ item.form = "rpc"
    /\ LET r == deserialize(item.v)
       IN  IF r.ok THEN item' = [form |-> "tx", v |-> r.val]
                        /\ origin' = IF origin = NoTx THEN r.val ELSE origin
           ELSE item' = [form |-> "refused"] /\ UNCHANGED origin
    /\ UNCHANGED accepted

\* JSON that this node did not write.
ReceiveRpc(rpc) ==
    /\ item.form = "idle"
    /\ item' = [form |-> "rpc", v |-> rpc]
    /\ UNCHANGED <<origin, accepted>>

\* The next transaction.
Forget ==
    /\ item.form \in {"tx", "rejected", "refused"}
    /\ item' = Nothing
    /\ origin' = NoTx
    /\ UNCHANGED accepted

Next ==
    \/ \E raw \in RawInputs : Receive(raw)
    \/ \E rpc \in RpcInputs : ReceiveRpc(rpc)
    \/ Decode \/ Encode \/ Redecode \/ Store \/ Load \/ Publish \/ Parse \/ Forget

Spec == Init /\ [][Next]_vars

----------------------------------------------------------------------------
(* Properties                                                                *)

\* The identity of a transaction (its hash, its bytes, every field, so also the
\* sender every recovery path derives) is the one it was accepted with, however it
\* travelled between bytes, database and JSON.
IdentityKept == item.form = "tx" => item.v = origin

\* Reading back what the node stored never trips an assertion of from_tx_compact or
\* CosmosTxType::from_compact, and what it encodes for others always decodes.
NothingLost == item.form \notin {"panic", "lost"}

\* One authorisation has one encoding: of all the strings that carry the same operation,
\* key and signature, at most one is ever accepted, so a transaction has one hash and
\* re-encoding it cannot give it a second one.
OneEncoding ==
    \A a, b \in accepted :
        (/\ a.ty = TX_TYPE /\ b.ty = TX_TYPE
         /\ a.payload.op = b.payload.op /\ a.key = b.key /\ a.sig = b.sig) => a = b

\* A rejected string is not the canonical encoding of an operation within the limits:
\* size, type and canonicity checks of the decoders refuse no honest transaction.
HonestAccepted ==
    (item.form = "rejected" /\ item.v.ty = TX_TYPE) =>
        LET raw == item.v IN
        ~ (/\ raw = encode_wire(raw.payload.op, raw.key, raw.sig)
           /\ raw.key.len = KEY_LEN /\ raw.sig.len = SIGNATURE_LEN
           /\ validate_limits(raw.payload.op))

\* Whatever the node holds as a Cosmos transaction is within the protocol limits and
\* carries exactly the cached bytes and hash its contents encode to.
HeldIsCanonical ==
    (item.form = "tx" /\ IsCosmos(item.v)) =>
        LET tx == item.v IN
        /\ validate_limits(tx.operation)
        /\ tx.raw = encode_wire(tx.operation, tx.public_key, tx.signature.rs)
        /\ tx.hash = transaction_hash(tx.raw)
        /\ RawSize(tx.raw) <= MAX_RAW_TX
        /\ LensOf(tx.operation) \in Lens
============================================================================
