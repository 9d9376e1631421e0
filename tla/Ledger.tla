------------------------------- MODULE Ledger -------------------------------
(***************************************************************************)
(* What the node promises its users, without blocks, encodings, processes  *)
(* or a database: a ledger of authorised requests that grows by whole      *)
(* batches, in which the requests of an account are exactly those numbered *)
(* 0, 1, 2, ..., in that order.  A durable prefix survives everything;     *)
(* the rest may be lost, again by whole batches, from the end.             *)
(***************************************************************************)
EXTENDS Integers, Sequences, FiniteSets

CONSTANTS
    Users,          \* accounts
    Requests        \* authorised requests: records with a sender and a nonce

VARIABLES
    batches,        \* the ledger: a sequence of batches of requests
    durable         \* how many batches are durable

vars == <<batches, durable>>

\* How many requests of user u a batch, or a sequence of batches, holds.
CountIn(batch, u) == Cardinality({i \in DOMAIN batch : batch[i].sender = u})
Count(bs, u) ==
    Cardinality(UNION {{<<n, i>> : i \in {j \in DOMAIN bs[n] : bs[n][j].sender = u}} :
                       n \in DOMAIN bs})

\* A batch continues the numbering of every user.
Continues(batch) ==
    \A i \in 1 .. Len(batch) :
        batch[i].nonce = Count(batches, batch[i].sender)
                           + CountIn(SubSeq(batch, 1, i - 1), batch[i].sender)

Init == batches = <<>> /\ durable = 0

\* A batch of authorised requests is executed.
Execute(batch) ==
    /\ batch \in Seq(Requests)
    /\ Continues(batch)
    /\ batches' = Append(batches, batch)
    /\ durable' \in {durable, Len(batches')}

\* More of the ledger becomes durable.
Harden(n) ==
    /\ durable' = n
    /\ UNCHANGED batches

\* Everything that is not durable is lost.
Lose ==
    /\ batches' = SubSeq(batches, 1, durable)
    /\ UNCHANGED durable

Next ==
    \/ Len(batches') = Len(batches) + 1 /\ Execute(batches'[Len(batches')])
    \/ \E n \in durable + 1 .. Len(batches) : Harden(n)
    \/ Lose

Spec == Init /\ [][Next]_vars
============================================================================
