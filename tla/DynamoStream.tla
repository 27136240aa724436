---------------------------- MODULE DynamoStream -----------------------------
(***************************************************************************)
(* The change records of one table stream, as its writers and readers see  *)
(* them: a set of records, each with the ordinal it was given (seq_ord)    *)
(* and what it carries.  Records are never removed.                        *)
(***************************************************************************)
EXTENDS Integers, FiniteSets, FiniteSetsExt

\* maxDynamoStreamSeqOrd: -1 when the stream is empty.
MaxOrd(stream) == IF stream = {} THEN -1 ELSE Max({r.ord : r \in stream})

\* nextDynamoStreamSeqOrd: read in one statement, used in a later one.
NextOrd(stream) == MaxOrd(stream) + 1

\* GetDynamoStreamRecords: the pages a read of at most limit records from
\* ordinal from may return.  ORDER BY seq_ord leaves the order of records
\* with one ordinal open, so the last ordinal of a page may be cut anywhere.
Pages(stream, from, limit) ==
    LET due == {r \in stream : r.ord >= from}
    IN {page \in SUBSET due :
          /\ Cardinality(page) = Min({limit, Cardinality(due)})
          /\ \A r \in page, d \in due \ page : r.ord <= d.ord}

\* Where the iterator that replaces the one that was read goes on.
After(page, from) == IF page = {} THEN from ELSE MaxOrd(page) + 1

=============================================================================
