---------------------------- MODULE MCCallbacks ----------------------------
(* Connections and addresses are interchangeable.                          *)
EXTENDS Callbacks, TLC
Interchangeable == {f @@ g : f \in Permutations(Conns), g \in Permutations(Ptrs)}
=============================================================================
