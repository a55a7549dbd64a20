---------------------------- MODULE MCEbpfEpoch ----------------------------
(* Instances of EbpfEpoch for TLC. *)
EXTENDS EbpfEpoch, TLC

\* Sessions are interchangeable, and so are memory blocks.
Symmetry == Permutations(Threads) \cup Permutations(Memory)
=============================================================================
