------------------------------ MODULE Workflows ------------------------------
(***************************************************************************)
(* Requests that wait for people of another room (src/workflows): a tool   *)
(* call opens one for a subject and asks the target room (engine.ts), a    *)
(* tool call in that room answers it and the result goes back, a poller in *)
(* every process reminds and expires (poller.ts).                          *)
(*                                                                         *)
(* The requests are rows of pending_actions (store.ts). Its idempotency_key*)
(* is "workflow:subject" and UNIQUE, so a subject has one row for ever and *)
(* the columns are functions of the subject. Postgres runs each statement  *)
(* atomically; everything between two statements interleaves. A mark or a  *)
(* deadline is a tick of the clock; 0 is SQL's NULL.                       *)
(***************************************************************************)
EXTENDS Naturals, FiniteSets

CONSTANTS
  Subject,    \* (workflow, normalised subject) pairs
  Room,       \* rooms that ask and answer
  Opener,     \* calls of openRequest
  Answerer,   \* calls of answerRequest
  Poller,     \* processes that run a workflow poller
  SubjectOf,  \* [Opener \cup Answerer -> Subject]
  RoomOf,     \* [Opener \cup Answerer -> Room]: where the call comes from
  Ttl,        \* def.ttlMs
  MaxTime,    \* bound: the last tick of the clock
  MaxFaults   \* bound: Redis, Postgres or channel calls that fail, crashes

Reminder == Poller \X Subject      \* the remind() of a poller for a subject
Asker    == Opener \cup Reminder   \* who runs dispatchAsk
Time     == 1..MaxTime

ASSUME WorkflowsAssumption ==
  /\ SubjectOf \in [Opener \cup Answerer -> Subject]
  /\ RoomOf \in [Opener \cup Answerer -> Room]
  /\ Ttl \in Nat \ {0} /\ MaxTime \in Nat /\ Ttl < MaxTime
  /\ MaxFaults \in Nat
  /\ Opener \cap Reminder = {} /\ Answerer \cap Asker = {}

VARIABLES
  clock,
  status,     \* [Subject -> "none", "Pending", "Approved" or "Expired"]
  target,     \* [Subject -> Room]: channel, conversation_id
  askCount,   \* [Subject -> Nat]: ask_count
  remindAt,   \* [Subject -> Time or NULL]: next_remind_at, the CAS cell
  expiresAt,  \* [Subject -> Time or NULL]: expires_at
  seen,       \* ask ids <<subject, count>> the dedupe has marked
  asks,       \* ask ids published to the target rooms
  results,    \* [Subject -> Nat]: result messages sent to the origin rooms
  step,       \* [Asker \cup Answerer -> where the call is]
  began,      \* [Opener -> nowMs of the call]
  number,     \* [Asker -> askCount of the ask in hand]
  expected,   \* [Reminder -> next_remind_at as the poller read it]
  tickStep,   \* [Poller -> where its tick is]
  now,        \* [Poller -> nowMs of its tick]
  faults

table   == <<status, target, askCount, remindAt, expiresAt>>
outside == <<seen, asks, results>>
calls   == <<step, began, number, expected>>
ticks   == <<tickStep, now>>
vars    == <<clock, table, outside, calls, ticks, faults>>

OpenerStep   == {"idle", "findOpen", "findAnswered", "resolve", "insert", "reread",
                 "see", "append", "publish", "asked", "already_open",
                 "already_answered", "failed", "raised"}
ReminderStep == {"idle", "claim", "see", "append", "publish"}
AnswererStep == {"idle", "close", "notify", "recorded", "not_found",
                 "closed", "raised"}

\* A closed row has no mark left, an open one has a deadline.
Columns ==
  \A s \in Subject :
    /\ status[s] \in {"Approved", "Expired"} => remindAt[s] = 0
    /\ status[s] # "none" => askCount[s] > 0 /\ expiresAt[s] > 0

(* TypeOK: the type invariant, and what the columns of a row say together   *)
(* (store.ts:149-158, 170-178).                                            *)
TypeOK ==
  /\ clock \in Time
  /\ status \in [Subject -> {"none", "Pending", "Approved", "Expired"}]
  /\ target \in [Subject -> Room]
  /\ askCount \in [Subject -> Nat]
  /\ remindAt \in [Subject -> Nat]
  /\ expiresAt \in [Subject -> Nat]
  /\ seen \subseteq Subject \X Nat
  /\ asks \subseteq seen
  /\ results \in [Subject -> Nat]
  /\ \A o \in Opener : step[o] \in OpenerStep
  /\ \A r \in Reminder : step[r] \in ReminderStep
  /\ \A a \in Answerer : step[a] \in AnswererStep
  /\ began \in [Opener -> 0..MaxTime]
  /\ number \in [Asker -> Nat]
  /\ expected \in [Reminder -> Nat]
  /\ tickStep \in [Poller -> {"rest", "expire", "due"}]
  /\ now \in [Poller -> 0..MaxTime]
  /\ faults \in 0..MaxFaults
  /\ Columns

Init ==
  /\ clock = 1
  /\ status = [s \in Subject |-> "none"]
  /\ target \in [Subject -> Room]
  /\ askCount = [s \in Subject |-> 0]
  /\ remindAt = [s \in Subject |-> 0]
  /\ expiresAt = [s \in Subject |-> 0]
  /\ seen = {}
  /\ asks = {}
  /\ results = [s \in Subject |-> 0]
  /\ step = [c \in Asker \cup Answerer |-> "idle"]
  /\ began = [o \in Opener |-> 0]
  /\ number = [d \in Asker |-> 0]
  /\ expected = [r \in Reminder |-> 0]
  /\ tickStep = [p \in Poller |-> "rest"]
  /\ now = [p \in Poller |-> 0]
  /\ faults = 0

-----------------------------------------------------------------------------
Subj(d) == IF d \in Reminder THEN d[2] ELSE SubjectOf[d]

Goto(c, where) == step' = [step EXCEPT ![c] = where]

Fault == faults < MaxFaults /\ faults' = faults + 1

\* What a call that throws leaves: a tool call reports it to the agent,
\* remindSafely logs it.
Thrown(d) == IF d \in Reminder THEN "idle" ELSE "raised"

\* nextRemindAt: some later mark, as interval and office hours have it.
Marks(t) == (t + 1)..(MaxTime + 1)

\* Time passes. The tool call that opens a request has the seconds of a turn,
\* its deadline is days away: it has inserted the row long before.
Passing ==
  /\ clock < MaxTime
  /\ \A o \in Opener :
       step[o] \in {"findOpen", "findAnswered", "resolve", "insert"} => clock + 1 < began[o] + Ttl
  /\ clock' = clock + 1
  /\ UNCHANGED <<table, outside, calls, ticks, faults>>

-----------------------------------------------------------------------------
(* engine.ts, openRequest.                                                 *)

Call(o) ==
  /\ step[o] = "idle"
  /\ clock + Ttl <= MaxTime
  /\ Goto(o, "findOpen")
  /\ began' = [began EXCEPT ![o] = clock]
  /\ UNCHANGED <<clock, table, outside, number, expected, ticks, faults>>

FindOpen(o) ==
  /\ step[o] = "findOpen"
  /\ Goto(o, IF status[SubjectOf[o]] = "Pending" THEN "already_open" ELSE "findAnswered")
  /\ UNCHANGED <<clock, table, outside, began, number, expected, ticks, faults>>

FindAnswered(o) ==
  /\ step[o] = "findAnswered"
  /\ Goto(o, IF status[SubjectOf[o]] = "Approved" THEN "already_answered" ELSE "resolve")
  /\ UNCHANGED <<clock, table, outside, began, number, expected, ticks, faults>>

\* def.resolveTarget, the operational system: a room (the one in target, which
\* it gives every time), or an unknown subject, no room, a failure.
ResolveTarget(o) ==
  /\ step[o] = "resolve"
  /\ Goto(o, "insert") \/ Goto(o, "failed")
  /\ UNCHANGED <<clock, table, outside, began, number, expected, ticks, faults>>

\* The new row, with the first ask counted.
NewRow(s, t) ==
  /\ status' = [status EXCEPT ![s] = "Pending"]
  /\ askCount' = [askCount EXCEPT ![s] = 1]
  /\ expiresAt' = [expiresAt EXCEPT ![s] = t + Ttl]
  /\ \E mark \in {0} \cup Marks(t) : remindAt' = [remindAt EXCEPT ![s] = mark]
  /\ UNCHANGED target

\* Where the call goes once the row is its own: a request to its own room is
\* not dispatched, the agent there asks at once.
Opened(o) ==
  /\ number' = [number EXCEPT ![o] = 1]
  /\ Goto(o, IF target[SubjectOf[o]] = RoomOf[o] THEN "asked" ELSE "see")

\* Mutant of Insert: no unique index, the row of the first caller is replaced.
InsertReplaces(o) ==
  /\ step[o] = "insert"
  /\ NewRow(SubjectOf[o], began[o]) /\ Opened(o) /\ UNCHANGED faults
  /\ UNCHANGED <<clock, outside, began, expected, ticks>>

\* store.open: INSERT ... ON CONFLICT DO NOTHING. The clause names the partial
\* index of the open requests only: a closed row, or an INSERT that overlaps
\* another one, trips the UNIQUE idempotency_key, which raises.
Insert(o) ==
  LET s == SubjectOf[o] IN
  /\ step[o] = "insert"
  /\ \/ /\ status[s] = "none"
        /\ NewRow(s, began[o])
        /\ \/ Opened(o) /\ UNCHANGED faults
           \/ Fault /\ Goto(o, "raised") /\ UNCHANGED number    \* reply lost
     \/ /\ status[s] = "Pending"
        /\ Goto(o, "reread") \/ Goto(o, "raised")
        /\ UNCHANGED <<table, number, faults>>
     \/ /\ status[s] \in {"Approved", "Expired"}
        /\ Goto(o, "raised")
        /\ UNCHANGED <<table, number, faults>>
  /\ UNCHANGED <<clock, outside, began, expected, ticks>>

Reread(o) ==
  /\ step[o] = "reread"
  /\ Goto(o, IF status[SubjectOf[o]] = "Pending" THEN "already_open" ELSE "failed")
  /\ UNCHANGED <<clock, table, outside, began, number, expected, ticks, faults>>

-----------------------------------------------------------------------------
(* engine.ts, dispatchAsk: dedupe, history, publish.                       *)

AskId(d) == <<Subj(d), number[d]>>

SeeAsk(d) ==
  /\ step[d] = "see"
  /\ \/ /\ AskId(d) \notin seen
        /\ seen' = seen \cup {AskId(d)}
        /\ Goto(d, "append") /\ UNCHANGED faults
     \/ /\ AskId(d) \in seen
        /\ Goto(d, IF d \in Reminder THEN "idle" ELSE "asked")
        /\ UNCHANGED <<seen, faults>>
     \/ /\ Fault
        /\ seen' \in {seen, seen \cup {AskId(d)}}
        /\ Goto(d, Thrown(d))
  /\ UNCHANGED <<clock, table, asks, results, began, number, expected, ticks>>

\* The history of the target room, which the worker must not find empty.
AppendAsk(d) ==
  /\ step[d] = "append"
  /\ \/ Goto(d, "publish") /\ UNCHANGED faults
     \/ Fault /\ Goto(d, Thrown(d))
  /\ UNCHANGED <<clock, table, outside, began, number, expected, ticks>>

PublishAsk(d) ==
  /\ step[d] = "publish"
  /\ \/ /\ asks' = asks \cup {AskId(d)}
        /\ Goto(d, IF d \in Reminder THEN "idle" ELSE "asked") /\ UNCHANGED faults
     \/ /\ Fault
        /\ asks' \in {asks, asks \cup {AskId(d)}}
        /\ Goto(d, Thrown(d))
  /\ UNCHANGED <<clock, table, seen, results, began, number, expected, ticks>>

-----------------------------------------------------------------------------
(* engine.ts, answerRequest and notifyOrigin.                              *)

Find(a) ==
  LET s == SubjectOf[a] IN
  /\ step[a] = "idle"
  /\ Goto(a, IF status[s] = "Pending" /\ target[s] = RoomOf[a] THEN "close" ELSE "not_found")
  /\ UNCHANGED <<clock, table, outside, began, number, expected, ticks, faults>>

\* The UPDATE of store.resolve.
Approve(s) ==
  /\ status' = [status EXCEPT ![s] = "Approved"]
  /\ remindAt' = [remindAt EXCEPT ![s] = 0]
  /\ UNCHANGED <<target, askCount, expiresAt>>

\* Mutant of Resolve: no status in the WHERE.
ResolveAnyStatus(a) ==
  /\ step[a] = "close"
  /\ Approve(SubjectOf[a])
  /\ Goto(a, "notify")
  /\ UNCHANGED <<clock, outside, began, number, expected, ticks, faults>>

\* Mutant of Resolve: a row that cannot be read back counts as closed by others.
ResolveSwallows(a) ==
  LET s == SubjectOf[a] IN
  /\ step[a] = "close"
  /\ \/ status[s] = "Pending" /\ Approve(s) /\ Goto(a, "notify") /\ UNCHANGED faults
     \/ status[s] = "Pending" /\ Approve(s) /\ Fault /\ Goto(a, "closed")
     \/ status[s] # "Pending" /\ Goto(a, "closed") /\ UNCHANGED <<table, faults>>
  /\ UNCHANGED <<clock, outside, began, number, expected, ticks>>

\* store.resolve: UPDATE ... WHERE status = Pending RETURNING. It raises when
\* the reply is lost or the returned row cannot be read.
Resolve(a) ==
  LET s == SubjectOf[a] IN
  /\ step[a] = "close"
  /\ \/ status[s] = "Pending" /\ Approve(s) /\ Goto(a, "notify") /\ UNCHANGED faults
     \/ status[s] = "Pending" /\ Approve(s) /\ Fault /\ Goto(a, "raised")
     \/ status[s] # "Pending" /\ Goto(a, "closed") /\ UNCHANGED <<table, faults>>
  /\ UNCHANGED <<clock, outside, began, number, expected, ticks>>

\* notifyOrigin: one broadcast; the copy for the history is best effort.
Notify(a) ==
  LET s == SubjectOf[a]  told == [results EXCEPT ![s] = @ + 1] IN
  /\ step[a] = "notify"
  /\ \/ results' = told /\ Goto(a, "recorded") /\ UNCHANGED faults
     \/ Fault /\ results' \in {results, told} /\ Goto(a, "raised")
  /\ UNCHANGED <<clock, table, seen, asks, began, number, expected, ticks>>

-----------------------------------------------------------------------------
(* poller.ts: tick and remind. Ticks of one poller do not overlap.         *)

StartTick(p) ==
  /\ tickStep[p] = "rest" /\ \A s \in Subject : step[<<p, s>>] = "idle"
  /\ now' = [now EXCEPT ![p] = clock]
  /\ tickStep' = [tickStep EXCEPT ![p] = "expire"]
  /\ UNCHANGED <<clock, table, outside, calls, faults>>

\* Mutant of Late: the poller expires what it reminds.
LateWithMark(p) ==
  {s \in Subject : status[s] = "Pending" /\ expiresAt[s] <= now[p] /\ remindAt[s] # 0}

Late(p) == {s \in Subject : status[s] = "Pending" /\ expiresAt[s] <= now[p]}

\* store.expireDue.
Expire(p) ==
  /\ tickStep[p] = "expire"
  /\ status' = [s \in Subject |-> IF s \in Late(p) THEN "Expired" ELSE status[s]]
  /\ remindAt' = [s \in Subject |-> IF s \in Late(p) THEN 0 ELSE remindAt[s]]
  /\ tickStep' = [tickStep EXCEPT ![p] = "due"]
  /\ UNCHANGED <<clock, target, askCount, expiresAt, outside, calls, now, faults>>

\* store.dueForRemind: the rows as this poller will remember them.
Due(p) ==
  /\ tickStep[p] = "due"
  /\ LET due == {s \in Subject : /\ status[s] = "Pending"
                                 /\ remindAt[s] # 0 /\ remindAt[s] <= now[p]}
         mine == {p} \X due IN
       /\ step' = [c \in DOMAIN step |-> IF c \in mine THEN "claim" ELSE step[c]]
       /\ expected' = [r \in Reminder |-> IF r \in mine THEN remindAt[r[2]] ELSE expected[r]]
       /\ number' = [d \in Asker |-> IF d \in mine THEN askCount[d[2]] + 1 ELSE number[d]]
  /\ tickStep' = [tickStep EXCEPT ![p] = "rest"]
  /\ UNCHANGED <<clock, table, outside, began, now, faults>>

\* Mutant of Free: the CAS does not look at the mark.
FreeIfPending(r) == status[r[2]] = "Pending"

\* The WHERE of store.claimRemind.
Free(r) == status[r[2]] = "Pending" /\ remindAt[r[2]] = expected[r]

\* remind: take the row, then ask. The def may be gone, or no longer remind.
Claim(r) ==
  LET s == r[2] IN
  /\ step[r] = "claim"
  /\ \/ /\ Free(r)
        /\ askCount' = [askCount EXCEPT ![s] = @ + 1]
        /\ \E mark \in Marks(now[r[1]]) : remindAt' = [remindAt EXCEPT ![s] = mark]
        /\ \/ Goto(r, "see") /\ UNCHANGED faults
           \/ Fault /\ Goto(r, "idle")                 \* reply lost
     \/ Goto(r, "idle") /\ UNCHANGED <<askCount, remindAt, faults>>
  /\ UNCHANGED <<clock, status, target, expiresAt, outside, began, number, expected, ticks>>

\* The process dies in its tick, or a query of the tick throws.
TickDies(p) ==
  /\ tickStep[p] # "rest" \/ \E s \in Subject : step[<<p, s>>] # "idle"
  /\ Fault
  /\ tickStep' = [tickStep EXCEPT ![p] = "rest"]
  /\ step' = [c \in DOMAIN step |-> IF c \in {p} \X Subject THEN "idle" ELSE step[c]]
  /\ UNCHANGED <<clock, table, outside, began, number, expected, now>>

-----------------------------------------------------------------------------
Dispatch(d) == SeeAsk(d) \/ AppendAsk(d) \/ PublishAsk(d)

OpenerNext(o) ==
  \/ Call(o) \/ FindOpen(o) \/ FindAnswered(o) \/ ResolveTarget(o)
  \/ Insert(o) \/ Reread(o) \/ Dispatch(o)

AnswererNext(a) == Find(a) \/ Resolve(a) \/ Notify(a)

PollerNext(p) ==
  \/ StartTick(p) \/ Expire(p) \/ Due(p)
  \/ \E s \in Subject : Claim(<<p, s>>) \/ Dispatch(<<p, s>>)

Next ==
  \/ Passing
  \/ \E o \in Opener : OpenerNext(o)
  \/ \E a \in Answerer : AnswererNext(a)
  \/ \E p \in Poller : PollerNext(p) \/ TickDies(p)

Spec == Init /\ [][Next]_vars

\* Fairness: time passes, and setInterval keeps every poller ticking.
FairSpec == Spec /\ WF_vars(Passing) /\ \A p \in Poller : WF_vars(PollerNext(p))

-----------------------------------------------------------------------------
(* Properties                                                              *)

(* FreshAsks: the first ask and every reminder of a request carry an id of  *)
(* their own, whichever pollers claim it, so that the dedupe never swallows *)
(* an ask (poller.ts:71-72, engine.ts:187-190).                            *)
FreshAsks ==
  \A d \in Asker : step[d] = "see" =>
    /\ AskId(d) \notin seen
    /\ \A e \in Asker \ {d} : step[e] = "see" => AskId(e) # AskId(d)

(* OneAsker: of all the calls that race to open one subject, in whatever     *)
(* process, at most one goes on to ask (engine.ts:97-98, store.ts:8-9).     *)
OneAsker ==
  \A o, q \in Opener :
    (/\ o # q /\ SubjectOf[o] = SubjectOf[q]
     /\ step[o] \in {"see", "append", "publish", "asked"})
    => step[q] \notin {"see", "append", "publish", "asked"}

(* ResultOnce: the origin room is told the result once, however many answers *)
(* race (store.ts:149-150).                                                *)
ResultOnce == \A s \in Subject : results[s] <= 1

(* ToldOrRaised: a request is never closed by an answer in silence: the      *)
(* origin is told, or an answerer is still at it, or saw the error          *)
(* (engine.ts:252-253, store.ts:162-163).                                  *)
ToldOrRaised ==
  \A s \in Subject : status[s] = "Approved" =>
    \/ results[s] > 0
    \/ \E a \in Answerer : SubjectOf[a] = s /\ step[a] \in {"notify", "raised"}

(* PendingCloses: every request is answered or expires, those of a def that  *)
(* does not remind too (poller.ts:84-85, types.ts:98).                      *)
PendingCloses == \A s \in Subject : (status[s] = "Pending") ~> (status[s] # "Pending")

(* ExpiredMayBeAskedAgain: a subject whose request expired can be opened     *)
(* anew ("khoa co the duoc hoi lai sau nhieu thang", store.ts:85). The      *)
(* UNIQUE idempotency_key refuses it.                                      *)
ExpiredMayBeAskedAgain ==
  [][\A o \in Opener :
       (step[o] = "insert" /\ step'[o] = "raised") => status[SubjectOf[o]] # "Expired"]_vars

=============================================================================
