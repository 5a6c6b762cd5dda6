----------------------------- MODULE AtLeastOnce -----------------------------
(***************************************************************************)
(* What the ingress queue promises to those who publish and to those who   *)
(* work (the Broker and BrokerConsumer ports of message-ingest/deps.ts and *)
(* worker/types.ts): every envelope posted stays open, and may be handed   *)
(* to a worker again, until a turn has finished on it, it has been buried  *)
(* after MaxAttempts hand-outs, or the queue's length limit evicted it.    *)
(* It may be handed out again after it was finished.                       *)
(***************************************************************************)
EXTENDS Naturals

CONSTANTS
  Id,           \* envelopes
  MaxAttempts,  \* hand-outs before an envelope is buried
  Garbage       \* envelopes nobody can read: buried at the first hand-out

VARIABLES
  posted,    \* envelopes posted so far
  open,      \* envelopes that are in the queue
  attempts,  \* [Id -> Nat]: how often it was handed out
  done,      \* some turn has finished on it
  dead,      \* it is in the dead-letter queue
  evicted    \* dropped by the length limit

queue == <<posted, open, attempts, done, dead, evicted>>

Init ==
  /\ posted = {}
  /\ open = {}
  /\ attempts = [i \in Id |-> 0]
  /\ done = {}
  /\ dead = {}
  /\ evicted = {}

\* i enters the queue; older envelopes S may be evicted, and those of them
\* nobody had been handed (T) leave the queue at once.
Post(i) ==
  /\ i \in Id \ posted
  /\ \E S \in SUBSET posted, T \in SUBSET open :
       /\ T \subseteq S
       /\ evicted' = evicted \cup S
       /\ open' = (open \ T) \cup {i}
  /\ posted' = posted \cup {i}
  /\ UNCHANGED <<attempts, done, dead>>

Settled == done \cup dead \cup evicted

\* The envelopes of S are handed out; those of T, all settled, leave.
HandOut(S, T) ==
  /\ S \subseteq open
  /\ \A i \in S : attempts[i] < MaxAttempts
  /\ T \subseteq open \cap Settled
  /\ attempts' = [i \in Id |-> IF i \in S THEN attempts[i] + 1 ELSE attempts[i]]
  /\ open' = open \ T
  /\ UNCHANGED <<posted, done, dead, evicted>>

\* A turn on i ends without failing.
Finish(i) ==
  /\ i \in posted /\ attempts[i] > 0
  /\ done' = done \cup {i}
  /\ UNCHANGED <<posted, open, attempts, dead, evicted>>

\* i is copied to the dead-letter queue.
Bury(i) ==
  /\ i \in posted
  /\ attempts[i] = MaxAttempts \/ i \in Garbage
  /\ dead' = dead \cup {i}
  /\ UNCHANGED <<posted, open, attempts, done, evicted>>

Next ==
  \/ \E i \in Id : Post(i) \/ Finish(i) \/ Bury(i)
  \/ \E S, T \in SUBSET open : HandOut(S, T)

Spec == Init /\ [][Next]_queue
=============================================================================
