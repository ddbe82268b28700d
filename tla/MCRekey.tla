------------------------------ MODULE MCRekey ------------------------------
(* Values of the constants of Rekey. *)
EXTENDS Rekey, TLC

\* Passphrases and raw keys without a salt only.
NoOwnSalt == [s \in Secrets |-> NoSalt]

\* The other secret is a raw key with its salt.
NewHasSalt == [s \in Secrets |-> IF s = FirstSecret THEN NoSalt ELSE "own"]

\* No definition of Rekey tells one connection from another.
Interchangeable == Permutations(Conns)

\* The state without what no step reads before it assigns it: nxt outside of
\* the loop of a rekey, wrote between transactions, and the version of page 1
\* that goes with an empty cache.
InTx == \E c \in Conns : op[c] \in {"write", "commit", "rekey", "rekeycommit"}
Live ==
    <<file, journal, lock, op, ctx, cache, dirty, leak, tx, committed, anomaly,
      [c \in Conns |-> IF cache[c] = EmptyCache THEN NoKey ELSE vers[c]],
      [c \in Conns |-> IF op[c] = "rekey" THEN nxt[c] ELSE 1],
      IF InTx THEN wrote ELSE {}>>
=============================================================================
