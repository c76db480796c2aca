---------------------------- MODULE MCCsmDatagram ----------------------------
(* CsmPorts for TLC. *)
EXTENDS CsmPorts, TLC

CONSTANTS c1, c2, s1, a1, t1, t2

(* Each implementation takes each of the four roles, and each pair of them *)
(* meets, in one of the deployments.                                       *)
MCDeployments ==
    {   c1 :> "C"      @@ c2 :> "Go"   @@ s1 :> "C"
     @@ a1 :> "C"      @@ t1 :> "C"    @@ t2 :> "Python",
        c1 :> "Go"     @@ c2 :> "none" @@ s1 :> "Python"
     @@ a1 :> "Go"     @@ t1 :> "Python" @@ t2 :> "Go",
        c1 :> "Python" @@ c2 :> "none" @@ s1 :> "Go"
     @@ a1 :> "Python" @@ t1 :> "Go"   @@ t2 :> "C"}

\* No guard reads ret, and every property reads ret only as the result of
\* a step: states that differ in ret alone have the same steps.
WithoutRet == <<cl, sv, mirror, certs, packets, impl>>
=============================================================================
