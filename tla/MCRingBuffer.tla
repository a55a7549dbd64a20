----------------------------- MODULE MCRingBuffer -----------------------------
(* Instances of RingBufferSubscription for TLC.                               *)
EXTENDS RingBufferSubscription, TLC

\* Subscribers are interchangeable; used for safety only.
Symmetry == Permutations(Subscribers)
=============================================================================
