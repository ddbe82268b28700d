---------------------------- MODULE MCUnlockNotify ----------------------------
(* Instances of UnlockNotify for TLC. *)
EXTENDS UnlockNotify, TLC

CONSTANTS schema, t1

\* Every statement; a transaction holds a read lock on the schema anyway, so that
\* reading it adds no state.
ReqAll == AllRequests \ {ReadOf(schema)}

Interchangeable == Permutations(Conns)
=============================================================================
