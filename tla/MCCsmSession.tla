---------------------------- MODULE MCCsmSession ----------------------------
(* CsmSession for TLC: the clients and the ephemeral keys are              *)
(* interchangeable, the servers are not (one is certified, one is not).    *)
EXTENDS CsmSession, TLC

\* No guard reads ret, and every property reads ret only as the result of
\* a step: states that differ in ret alone have the same steps.
WithoutRet == <<st, owner, hellos, replies, packets>>

Symmetry == Permutations(Client) \cup Permutations(Key)
=============================================================================
