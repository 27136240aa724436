---------------------------- MODULE MC_SQSQueue ----------------------------
(***************************************************************************)
(* Small instances of SQSQueue for TLC: a source queue and its dead-letter *)
(* queue, standard or FIFO, two clients.                                   *)
(***************************************************************************)
EXTENDS SQSQueue, TLC

CONSTANTS jobs, dead, c1, c2, g1, g2, d1, body

MCClients == {c1, c2}
ClientSymmetry == Permutations(MCClients)
MCQueues == {jobs, dead}

Attrs(vt, delay, cbd, redrive, allow) ==
    [visibilityTimeout |-> vt, delaySeconds |-> delay, contentDedup |-> cbd,
     redrive |-> redrive, allow |-> allow]

ToDead(n) == [target |-> dead, max |-> n]

Request(q, g, d, delay) == [queue |-> q, group |-> g, dedup |-> d, body |-> body, delay |-> delay]

NoUpdates == [q \in MCQueues |-> {}]
Update(names, values) == [names |-> names, values |-> values]

\* Standard queues: messages move to the dead-letter queue after one receive.
StdAttributes ==
    (jobs :> {Attrs(1, 0, FALSE, ToDead(1), {})}) @@ (dead :> {Attrs(1, 0, FALSE, NoRedrive, {jobs})})
StdRequests == {Request(jobs, NoGroup, NoDedup, 0)}

\* FIFO queues without delays; content-based deduplication of the source is
\* switched off while senders are at work.
FifoAttributes ==
    (jobs :> {Attrs(1, 0, TRUE, ToDead(1), {})}) @@ (dead :> {Attrs(1, 0, FALSE, NoRedrive, {jobs})})
FifoUpdates ==
    (jobs :> {Update({"contentDedup"}, Attrs(1, 0, FALSE, NoRedrive, {}))}) @@ (dead :> {})
FifoRequests ==
    {Request(jobs, g1, NoDedup, 0), Request(jobs, g1, d1, 0), Request(jobs, g2, d1, 0)}
=============================================================================
