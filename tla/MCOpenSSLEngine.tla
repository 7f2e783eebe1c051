-------------------------- MODULE MCOpenSSLEngine --------------------------
(* Instances of OpenSSLEngine for TLC.  The threads are interchangeable.   *)
EXTENDS OpenSSLEngine, TLC

Symmetry == Permutations(Threads)
=============================================================================
