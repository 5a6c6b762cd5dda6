----------------------------- MODULE MCWorkflows -----------------------------
(* Small instances of Workflows for TLC.                                   *)
EXTENDS Workflows, TLC

CONSTANTS s1, here, there, o1, o2, a1, a2, p1, p2

MCSubjectOf == [c \in Opener \cup Answerer |-> s1]
\* Both openers ask from one room; both answers come from the other one.
MCRoomOf == [c \in Opener \cup Answerer |-> IF c \in Opener THEN here ELSE there]
\* Openers, answerers and pollers are interchangeable among themselves.
MCSymmetry == Permutations({o1, o2}) \cup Permutations({a1, a2}) \cup Permutations({p1, p2})
=============================================================================
