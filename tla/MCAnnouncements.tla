--------------------------- MODULE MCAnnouncements ---------------------------
(* Small instances of Announcements for TLC.                               *)
EXTENDS Announcements

CONSTANTS n1, c1, c2, yes1, yes2, no1

\* Every call queues the one draft.
MCDraftOf == [c \in Caller |-> n1]
MCVerdictOf == [c \in Decider |-> IF c = no1 THEN "rejected" ELSE "approved"]
MCFlowOf == [c \in Caller |-> "van_hanh"]
\* One who may queue calls twice; or a colleague who may only write, too.
MCCasts == {[c \in Caller |-> "swe"], [c \in Caller |-> IF c = c1 THEN "ceo" ELSE "staff"]}
=============================================================================
