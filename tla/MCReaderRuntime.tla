--------------------------- MODULE MCReaderRuntime ---------------------------
(***************************************************************************)
(* Instances of ReaderRuntime for TLC.                                     *)
(***************************************************************************)
EXTENDS ReaderRuntime, TLC

CONSTANTS r1, r2, r3, t1, t2

\* Every request id is used once, or r1 a second time.
Once == [r \in RequestIds |-> 1]
FirstTwice == [r \in RequestIds |-> IF r = r1 THEN 2 ELSE 1]

Symmetry == Permutations(RequestIds) \union Permutations(Threads)
=============================================================================
