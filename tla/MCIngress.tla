------------------------------ MODULE MCIngress ------------------------------
(* Small instances of Ingress for TLC.                                     *)
EXTENDS Ingress, TLC

CONSTANTS p1, p2, w1, w2, w3, r1

\* One worker in each of two processes.
MCProcOfPair == (w1 :> p1) @@ (w2 :> p2)
\* Three workers in one process.
MCProcOfPool == (w1 :> p1) @@ (w2 :> p1) @@ (w3 :> p1)
\* All the envelopes belong to one room.
MCRoomOf == <<r1, r1>>
\* The workers of one process are interchangeable.
MCSymmetry == Permutations({w1, w2, w3})
=============================================================================
