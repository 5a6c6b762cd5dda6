------------------------------ MODULE Proactive ------------------------------
(***************************************************************************)
(* Questions that nobody answers (src/proactive): the gateway considers     *)
(* every message of a group that does not address the agent, lets it wait   *)
(* in Redis, and a poller in every process picks up those whose time has    *)
(* come and that nobody has answered; it wakes the agent, seldom.          *)
(*                                                                         *)
(* Whether the agent is woken is a verdict of the judge (Verdict), which    *)
(* shares no state with the rest: here it comes out either way.            *)
(*                                                                         *)
(* One group. A message is its event time. The hash and the sorted set of   *)
(* pending.ts are keyed by the person who asks; the time of a member is     *)
(* reduced to whether it has come.                                         *)
(***************************************************************************)
EXTENDS Platform, FiniteSets, Verdict

CONSTANTS
  Person,      \* members of the group, and the agent
  MaxMessage,  \* bound on messages
  AuthorOf,    \* [Message -> Person]
  MaxPerHour   \* maxPerRoomPerHour of the agent's spec

Message == 1..MaxMessage
Asking  == {"new", "verify", "hset", "zadd", "out"}

ASSUME ProactiveAssumption ==
  /\ MaxMessage \in Nat /\ AuthorOf \in [Message -> Person] /\ MaxPerHour \in Nat
  /\ "none" \notin Person

VARIABLES
  room,      \* history of the group: it is wider than MaxMessage
  asking,    \* [Message -> where consider() is]
  payload,   \* [Person -> Message, or 0]: the hash
  waiting,   \* members of the sorted set
  ripe,      \* those whose time has come
  rate,      \* the counter of the hour
  expiring,  \* does it have a TTL?
  woken,     \* [Message -> Nat]: proactive envelopes in the ingress queue
  pick,      \* [Host -> where its tick is]
  members,   \* [Host -> SUBSET Person]: of the tick, still to claim
  member,    \* [Host -> the Person it claims, or "none"]
  held,      \* [Host -> Message or 0]: the JSON between HGET and HDEL
  claimed,   \* [Host -> SUBSET Message]: questions claimed, still to pick
  moot,      \* history variable: questions answered by the time of their claim
  waited,    \* history variable: questions whose own time had come
  crossed    \* history variable: persons who asked in the middle of a claim

redis      == <<payload, waiting, ripe>>
meter      == <<rate, expiring>>
picks      == <<pick, members, member, held, claimed>>
noticed    == <<moot, waited, crossed>>
funnelVars == <<room, asking, redis, meter, woken, picks, noticed>>

(* FunnelTypeOK: the type invariant; a tick claims all it can before it     *)
(* picks up the first.                                                     *)
FunnelTypeOK ==
  /\ room \subseteq Message
  /\ asking \in [Message -> Asking]
  /\ payload \in [Person -> {0} \cup Message]
  /\ waiting \subseteq Person /\ ripe \subseteq waiting
  /\ rate \in Nat /\ expiring \in BOOLEAN
  /\ woken \in [Message -> Nat]
  /\ pick \in [Host -> {"rest", "zrem", "hget", "hdel", "read", "incr", "expire", "judge", "publish"}]
  /\ \A h \in Host :
       /\ members[h] \subseteq Person
       /\ member[h] \in Person \cup {"none"}
       /\ member[h] # "none" <=> pick[h] \in {"hget", "hdel"}
       /\ held[h] \in {0} \cup Message
       /\ claimed[h] \subseteq Message
       /\ pick[h] \in {"read", "incr", "expire", "judge", "publish"} => members[h] = {} /\ claimed[h] # {}
  /\ moot \subseteq Message /\ waited \subseteq Message /\ crossed \subseteq Person

FunnelInit ==
  /\ room = {}
  /\ asking = [m \in Message |-> "new"]
  /\ payload = [s \in Person |-> 0]
  /\ waiting = {} /\ ripe = {}
  /\ rate = 0 /\ expiring = FALSE
  /\ woken = [m \in Message |-> 0]
  /\ pick = [h \in Host |-> "rest"]
  /\ members = [h \in Host |-> {}]
  /\ member = [h \in Host |-> "none"]
  /\ held = [h \in Host |-> 0]
  /\ claimed = [h \in Host |-> {}]
  /\ moot = {} /\ waited = {} /\ crossed = {}

-----------------------------------------------------------------------------
(* ingest.ts, at the end of a webhook.                                     *)

AskAt(m, where) == asking' = [asking EXCEPT ![m] = where]

\* A process has read this person's member as due, or is in the middle of its
\* claim.
InHand(s) == \E h \in Host : s \in members[h] \cup {member[h]}

\* The gateway has appended the message to the history. It does not concern
\* the funnel, or it passes the gate: a text in a group, by somebody else than
\* the agent, that mentions nobody.
Hear(m) ==
  /\ asking[m] = "new" /\ \A k \in Message : k < m => asking[k] # "new"
  /\ room' = room \cup {m}
  /\ AskAt(m, "verify") \/ AskAt(m, "out")
  /\ UNCHANGED <<redis, meter, woken, picks, noticed, faults>>

\* verify.ts: the group is bound and its budget is not spent, or not. Both ask
\* Postgres, so two messages may overtake each other.
Verify(m) ==
  /\ asking[m] = "verify"
  /\ AskAt(m, "hset") \/ AskAt(m, "out")
  /\ UNCHANGED <<room, redis, meter, woken, picks, noticed, faults>>

\* pending.schedule, HSET.
SetPayload(m) ==
  LET s == AuthorOf[m]  written == [payload EXCEPT ![s] = m] IN
  /\ asking[m] = "hset"
  /\ \/ payload' = written /\ AskAt(m, "zadd") /\ UNCHANGED faults
     \/ Fault /\ payload' \in {payload, written} /\ AskAt(m, "out")
  /\ crossed' = IF InHand(s) \/ s \in ripe THEN crossed \cup {s} ELSE crossed
  /\ UNCHANGED <<room, waiting, ripe, meter, woken, picks, moot, waited>>

\* pending.schedule, ZADD: the clock of the member starts again.
SetDue(m) ==
  LET s == AuthorOf[m] IN
  /\ asking[m] = "zadd"
  /\ \/ waiting' = waiting \cup {s} /\ ripe' = ripe \ {s} /\ UNCHANGED faults
     \/ Fault /\ waiting' \in {waiting, waiting \cup {s}} /\ ripe' = ripe \ (waiting' \ waiting)
  /\ AskAt(m, "out")
  /\ UNCHANGED <<room, payload, meter, woken, picks, noticed>>

\* waitMs has passed. It is minutes, the commands of one claim are milliseconds.
Ripen(s) ==
  /\ s \in waiting \ ripe /\ \A h \in Host : member[h] # s
  /\ ripe' = ripe \cup {s}
  /\ waited' = IF payload[s] = 0 THEN waited ELSE waited \cup {payload[s]}
  /\ crossed' = IF \E m \in Message : AuthorOf[m] = s /\ asking[m] = "zadd" THEN crossed \cup {s} ELSE crossed
  /\ UNCHANGED <<room, asking, payload, waiting, meter, woken, picks, moot, faults>>

-----------------------------------------------------------------------------
(* pending.ts claimDue.                                                    *)

\* Mutant of AfterClaim: what has been claimed is picked up at once.
AfterClaimAtOnce(h, rest, got) ==
  /\ pick' = [pick EXCEPT ![h] = IF got # {} THEN "read" ELSE IF rest # {} THEN "zrem" ELSE "rest"]
  /\ members' = [members EXCEPT ![h] = rest]
  /\ member' = [member EXCEPT ![h] = "none"]
  /\ held' = [held EXCEPT ![h] = 0]
  /\ claimed' = [claimed EXCEPT ![h] = got]

\* The tick comes to an end, or its claims do and the first pick begins. A
\* command that throws in claimDue drops what the tick had claimed.
AfterClaim(h, rest, got) ==
  /\ pick' = [pick EXCEPT ![h] = IF rest # {} THEN "zrem" ELSE IF got # {} THEN "read" ELSE "rest"]
  /\ members' = [members EXCEPT ![h] = rest]
  /\ member' = [member EXCEPT ![h] = "none"]
  /\ held' = [held EXCEPT ![h] = 0]
  /\ claimed' = [claimed EXCEPT ![h] = got]

EndTick(h) == AfterClaim(h, {}, {})

\* ZRANGEBYSCORE; CLAIM_BATCH is more than a group has.
StartTick(h) ==
  /\ pick[h] = "rest" /\ ripe # {}
  /\ pick' = [pick EXCEPT ![h] = "zrem"]
  /\ members' = [members EXCEPT ![h] = ripe]
  /\ UNCHANGED <<room, asking, redis, meter, woken, member, held, claimed, noticed, faults>>

\* Somebody else has spoken after the question.
Answered(m) == \E k \in room : k > m /\ AuthorOf[k] # AuthorOf[m]

\* Mutant of Zrem: whoever has read the member claims it.
ZremUnchecked(h) ==
  /\ pick[h] = "zrem"
  /\ \E s \in members[h] :
       /\ waiting' = waiting \ {s} /\ ripe' = ripe \ {s}
       /\ member' = [member EXCEPT ![h] = s]
       /\ members' = [members EXCEPT ![h] = @ \ {s}]
  /\ pick' = [pick EXCEPT ![h] = "hget"]
  /\ UNCHANGED <<room, asking, payload, meter, woken, held, claimed, noticed, faults>>

\* ZREM: who removes the member has claimed it, whatever its time is by now.
Zrem(h) ==
  /\ pick[h] = "zrem"
  /\ \E s \in members[h] :
       LET rest == members[h] \ {s} IN
       \/ /\ s \in waiting
          /\ waiting' = waiting \ {s} /\ ripe' = ripe \ {s}
          /\ pick' = [pick EXCEPT ![h] = "hget"]
          /\ member' = [member EXCEPT ![h] = s]
          /\ members' = [members EXCEPT ![h] = rest]
          /\ UNCHANGED <<held, claimed, faults>>
       \/ s \notin waiting /\ AfterClaim(h, rest, claimed[h]) /\ UNCHANGED <<waiting, ripe, faults>>
       \/ /\ Fault /\ EndTick(h)
          /\ waiting' \in {waiting, waiting \ {s}} /\ ripe' = ripe \cap waiting'
  /\ UNCHANGED <<room, asking, payload, meter, woken, noticed>>

Hget(h) ==
  /\ pick[h] = "hget"
  /\ \/ /\ held' = [held EXCEPT ![h] = payload[member[h]]]
        /\ pick' = [pick EXCEPT ![h] = "hdel"]
        /\ UNCHANGED <<members, member, claimed, faults>>
     \/ Fault /\ EndTick(h)
  /\ UNCHANGED <<room, asking, redis, meter, woken, noticed>>

\* HDEL, which also deletes what was scheduled since the ZREM.
Hdel(h) ==
  LET s == member[h]
      deleted == [payload EXCEPT ![s] = 0]
      got == IF held[h] = 0 THEN claimed[h] ELSE claimed[h] \cup {held[h]}
  IN
  /\ pick[h] = "hdel"
  /\ \/ payload' = deleted /\ AfterClaim(h, members[h], got) /\ UNCHANGED faults
     \/ Fault /\ payload' \in {payload, deleted} /\ EndTick(h)
  /\ moot' = IF held[h] # 0 /\ Answered(held[h]) THEN moot \cup {held[h]} ELSE moot
  /\ UNCHANGED <<room, asking, waiting, ripe, meter, woken, waited, crossed>>

-----------------------------------------------------------------------------
(* poller.ts pickUp, one question after the other.                         *)

Leave(h, m) ==
  /\ claimed' = [claimed EXCEPT ![h] = @ \ {m}]
  /\ pick' = [pick EXCEPT ![h] = IF claimed[h] = {m} THEN "rest" ELSE "read"]
  /\ held' = [held EXCEPT ![h] = 0]
  /\ UNCHANGED <<members, member>>

PickAt(h, m, where) ==
  /\ pick' = [pick EXCEPT ![h] = where]
  /\ held' = [held EXCEPT ![h] = m]
  /\ UNCHANGED <<members, member, claimed>>

\* The agent of the group may have switched the funnel off; history.recent.
ReadRoom(h) ==
  /\ pick[h] = "read"
  /\ \E m \in claimed[h] :
       \/ ~Answered(m) /\ PickAt(h, m, "incr") /\ UNCHANGED faults
       \/ Leave(h, m) /\ UNCHANGED faults
       \/ Fault /\ Leave(h, m)
  /\ UNCHANGED <<room, asking, redis, meter, woken, noticed>>

\* Mutant of FirstOfHour: the counter is thought to start at zero.
FirstOfHourOffByOne(count) == count = 0

FirstOfHour(count) == count = 1

\* underRateLimit, INCR.
Incr(h) ==
  LET m == held[h]  count == rate + 1 IN
  /\ pick[h] = "incr"
  /\ \/ /\ rate' = count
        /\ \/ FirstOfHour(count) /\ PickAt(h, m, "expire")
           \/ ~FirstOfHour(count) /\ count <= MaxPerHour /\ PickAt(h, m, "judge")
           \/ ~FirstOfHour(count) /\ count > MaxPerHour /\ Leave(h, m)
        /\ UNCHANGED faults
     \/ Fault /\ rate' \in {rate, count} /\ Leave(h, m)
  /\ UNCHANGED <<room, asking, redis, expiring, woken, noticed>>

\* underRateLimit, EXPIRE, after the first INCR of an hour.
SetHour(h) ==
  LET m == held[h] IN
  /\ pick[h] = "expire"
  /\ \/ expiring' = (rate > 0) /\ UNCHANGED faults
        /\ IF MaxPerHour > 0 THEN PickAt(h, m, "judge") ELSE Leave(h, m)
     \/ Fault /\ expiring' \in {expiring, rate > 0} /\ Leave(h, m)
  /\ UNCHANGED <<room, asking, redis, rate, woken, noticed>>

\* The hour is over.
HourEnds ==
  /\ expiring /\ rate' = 0 /\ expiring' = FALSE
  /\ UNCHANGED <<room, asking, redis, woken, picks, noticed, faults>>

\* judge.ts: the model's verdict against the thresholds, a failure is a no.
Judge(h) ==
  /\ pick[h] = "judge"
  /\ PickAt(h, held[h], "publish") \/ Leave(h, held[h])
  /\ UNCHANGED <<room, asking, redis, meter, woken, noticed, faults>>

Wake(h) ==
  LET m == held[h]  queued == [woken EXCEPT ![m] = @ + 1] IN
  /\ pick[h] = "publish"
  /\ \/ woken' = queued /\ UNCHANGED faults
     \/ Fault /\ woken' \in {woken, queued}
  /\ Leave(h, m)
  /\ UNCHANGED <<room, asking, redis, meter, noticed>>

\* The process dies in its tick, and with it what it had claimed.
DieInTick(h) ==
  /\ pick[h] # "rest" /\ Fault /\ EndTick(h)
  /\ UNCHANGED <<room, asking, redis, meter, woken, noticed>>

-----------------------------------------------------------------------------
Consider(m) == Hear(m) \/ Verify(m) \/ SetPayload(m) \/ SetDue(m)
ClaimDue(h) == StartTick(h) \/ Zrem(h) \/ Hget(h) \/ Hdel(h)
PickUp(h)   == ReadRoom(h) \/ Incr(h) \/ SetHour(h) \/ Judge(h) \/ Wake(h)

FunnelNext ==
  \/ HourEnds
  \/ \E m \in Message : Consider(m)
  \/ \E s \in Person : Ripen(s)
  \/ \E h \in Host : ClaimDue(h) \/ PickUp(h) \/ DieInTick(h)

FunnelSpec == FunnelInit /\ NoFault /\ [][FunnelNext]_<<funnelVars, faults>>

-----------------------------------------------------------------------------
(* Properties                                                              *)

(* PickedOnce: the agent is woken for a question once, however many         *)
(* processes tick, only after the question's own time of waiting, and not  *)
(* when somebody else had answered by the time it was claimed (pending.ts: *)
(* 4-9, poller.ts:68-73). Excepted are those who ask again while their     *)
(* member is due or in the hands of a tick: ZREM removes a member whatever *)
(* its time is by now, and HGET takes whatever the hash holds, so that two *)
(* ticks may hold one question.                                            *)
PickedOnce ==
  \A m \in {k \in Message : AuthorOf[k] \notin crossed} :
    /\ woken[m] <= 1
    /\ woken[m] > 0 => m \in waited /\ m \notin moot

(* HourIsOver: the counter of the hour always has a TTL once its EXPIRE is  *)
(* through; only a failure between INCR and EXPIRE leaves it without one,  *)
(* and then it silences the group for good (poller.ts:85-98).              *)
HourIsOver ==
  rate > 0 /\ ~expiring => faults > 0 \/ \E h \in Host : pick[h] = "expire"

(* PickedRightly: a question is picked up once and by a verdict of the      *)
(* judge, and no hour goes on for ever.                                    *)
PickedRightly == PickedOnce /\ HourIsOver /\ VerdictIsJudged
=============================================================================
