------------------------------- MODULE Intake -------------------------------
(***************************************************************************)
(* From the webhook of a channel to the turn of a worker, in one room: the *)
(* gateway (message-ingest/gateway.ts), its duplicate guard                *)
(* (state/dedupe.ts), the history of the room (state/session.ts), the mark *)
(* of the room's newest message (state/turn-marker.ts) and the decision of *)
(* a worker to drop a turn for a newer one (worker/burst.ts).              *)
(*                                                                         *)
(* A message is its event time. A request is one delivery of its webhook;  *)
(* the channel repeats one that was answered 5xx, or not answered in time. *)
(* The ingress queue is what AtLeastOnce promises: entries in XADD order,  *)
(* handed out again when a turn failed, given up after MaxDeliveries.      *)
(***************************************************************************)
EXTENDS Naturals, Sequences, FiniteSets

CONSTANTS
  MaxMsg,         \* bound: messages sent in the room, 1 is the oldest
  MaxTries,       \* [1..MaxMsg -> Nat], bound: deliveries of its webhook
  Mixes,          \* the kinds a channel may give to the messages of the room
  SenderOf,       \* [1..MaxMsg -> people]
  MaxDeliveries,  \* hand-outs of an entry before it is given up
  MaxFaults,      \* bound: failed Redis calls and crashed requests
  InOrder         \* does the channel deliver messages in the order of their times?

Msg == 1..MaxMsg
Req == UNION {{<<m, k>> : k \in 1..MaxTries[m]} : m \in Msg}

\* plain: calls the agent; alone: a command or an intent-gated message, which
\* calls it too but is not isSupersedable; aside: does not call the agent.
Kind == {"plain", "alone", "aside"}

ASSUME IntakeAssumption ==
  /\ MaxMsg \in Nat /\ MaxTries \in [Msg -> Nat] /\ MaxFaults \in Nat
  /\ MaxDeliveries \in Nat \ {0}
  /\ Mixes \subseteq [Msg -> Kind]
  /\ DOMAIN SenderOf = Msg
  /\ InOrder \in BOOLEAN

VARIABLES
  kind,      \* [Msg -> Kind], as the adapter parsed the messages
  pc,        \* [Req -> where the request is in processMessage]
  seen,      \* messages with a dedupe key
  history,   \* messages appended to the room's history; a turn reads the newest
             \* HISTORY_WINDOW_TURNS of it, here all of it
  queue,     \* entries of the ingress stream, in XADD order
  marker,    \* the room's mark, 0 when there is none
  speaker,   \* who spoke last (speaker-tracker), {} or {person}
  busy,      \* index of the entry whose turn holds the room's lock, or 0
  lost,      \* [Msg -> XADDs that went through while their reply was lost]
  faults

gate == <<kind, pc, seen, lost>>
vars == <<kind, pc, seen, history, queue, marker, speaker, busy, lost, faults>>

Step  == {"unsent", "see", "append", "publish", "mark", "after", "release",
          "ok", "failed", "crashed"}
State == {"queued", "window", "start", "agent", "answered", "ignored",
          "superseded", "dead"}
Entry == [msg : Msg, sort : {"chat", "distill"}, state : State,
          tries : 0..MaxDeliveries, read : SUBSET Msg]

(* TypeOK: the type invariant; an entry is in a turn exactly while it holds *)
(* the room's lock (worker/pool.ts:48-61).                                 *)
TypeOK ==
  /\ kind \in Mixes
  /\ pc \in [Req -> Step]
  /\ seen \subseteq Msg
  /\ history \subseteq Msg
  /\ queue \in Seq(Entry)
  /\ marker \in 0..MaxMsg
  /\ \A e \in DOMAIN queue : queue[e].state \in {"window", "start", "agent"} <=> busy = e
  /\ lost \in [Msg -> Nat]
  /\ faults \in 0..MaxFaults

Init ==
  /\ kind \in Mixes
  /\ pc = [r \in Req |-> "unsent"]
  /\ seen = {}
  /\ history = {}
  /\ queue = << >>
  /\ marker = 0
  /\ speaker = {}
  /\ busy = 0
  /\ lost = [m \in Msg |-> 0]
  /\ faults = 0

-----------------------------------------------------------------------------
Supersedable(m) == kind[m] # "alone"

NewEntry(m, sort) == [msg |-> m, sort |-> sort, state |-> "queued", tries |-> 0, read |-> {}]

Goto(r, step) == pc' = [pc EXCEPT ![r] = step]

Fault == faults < MaxFaults /\ faults' = faults + 1

-----------------------------------------------------------------------------
(* The gateway: processMessage, one step per Redis call.                   *)

\* The channel delivers a webhook, for the first time or again.
Deliver(m, k) ==
  /\ pc[<<m, k>>] = "unsent"
  /\ k > 1 => pc[<<m, k - 1>>] # "unsent"
  /\ (InOrder /\ m > 1 /\ k = 1) => m - 1 \in history
  /\ Goto(<<m, k>>, "see")
  /\ UNCHANGED <<kind, seen, history, queue, marker, speaker, busy, lost, faults>>

\* Mutant of FirstSee: a GET, and no key set by the first request.
FirstSeeUnmarked(r) ==
  LET m == r[1] IN
  /\ pc[r] = "see"
  /\ Goto(r, IF m \in seen THEN "ok" ELSE "append")
  /\ UNCHANGED <<kind, seen, history, queue, marker, speaker, busy, lost, faults>>

\* dedupe.firstSee: SET NX. A duplicate is answered 200 at once. The call may
\* throw before or after the key was set; nothing releases it then.
FirstSee(r) ==
  LET m == r[1] IN
  /\ pc[r] = "see"
  /\ \/ m \in seen /\ Goto(r, "ok") /\ UNCHANGED <<seen, faults>>
     \/ m \notin seen /\ seen' = seen \cup {m} /\ Goto(r, "append") /\ UNCHANGED faults
     \/ Fault /\ seen' \in {seen, seen \cup {m}} /\ Goto(r, "failed")
  /\ UNCHANGED <<kind, history, queue, marker, speaker, busy, lost>>

\* Mutant of AppendHistory: best effort, like the message log.
AppendBestEffort(r) ==
  /\ pc[r] = "append"
  /\ Goto(r, "publish")
  /\ \/ history' = history \cup {r[1]} /\ UNCHANGED faults
     \/ Fault /\ UNCHANGED history
  /\ UNCHANGED <<kind, seen, queue, marker, speaker, busy, lost>>

\* history.append: every message, before anything is queued.
AppendHistory(r) ==
  /\ pc[r] = "append"
  /\ \/ history' = history \cup {r[1]} /\ Goto(r, "publish") /\ UNCHANGED faults
     \/ Fault /\ history' \in {history, history \cup {r[1]}} /\ Goto(r, "release")
  /\ UNCHANGED <<kind, seen, queue, marker, speaker, busy, lost>>

\* isReplyEnabled, then broker.publish, for a message that calls the agent.
Publish(r) ==
  LET m == r[1]  entry == NewEntry(m, "chat") IN
  /\ pc[r] = "publish"
  /\ \/ /\ kind[m] # "aside"
        /\ queue' = Append(queue, entry) /\ Goto(r, "mark") /\ UNCHANGED <<lost, faults>>
     \/ \* not addressed, or replies are off in this thread
        Goto(r, "after") /\ UNCHANGED <<queue, lost, faults>>
     \/ /\ kind[m] # "aside" /\ Fault /\ Goto(r, "release")
        /\ \/ UNCHANGED <<queue, lost>>
           \/ queue' = Append(queue, entry) /\ lost' = [lost EXCEPT ![m] = @ + 1]
  /\ UNCHANGED <<kind, seen, history, marker, speaker, busy>>

\* markLatestTurn: a plain SET, best effort.
Mark(r) ==
  /\ pc[r] = "mark"
  /\ Goto(r, "after")
  /\ \/ marker' = (IF Supersedable(r[1]) THEN r[1] ELSE marker) /\ UNCHANGED faults
     \/ Fault /\ UNCHANGED marker
  /\ UNCHANGED <<kind, seen, history, queue, speaker, busy, lost>>

\* trackSpeakerTurnover: GETSET of the last speaker; a message that does not
\* call the agent and answers somebody else's makes a distill entry. Best
\* effort, like the message log and the proactive funnel after it.
Aftermath(r) ==
  LET m == r[1] IN
  /\ pc[r] = "after"
  /\ Goto(r, "ok")
  /\ \/ /\ speaker' = {SenderOf[m]}
        /\ queue' = IF kind[m] = "aside" /\ speaker \ {SenderOf[m]} # {}
                    THEN Append(queue, NewEntry(m, "distill")) ELSE queue
        /\ UNCHANGED faults
     \/ Fault /\ speaker' \in {speaker, {SenderOf[m]}} /\ UNCHANGED queue
  /\ UNCHANGED <<kind, seen, history, marker, busy, lost>>

\* dedupe.release, then the 5xx.
Release(r) ==
  /\ pc[r] = "release"
  /\ Goto(r, "failed")
  /\ \/ seen' = seen \ {r[1]} /\ UNCHANGED faults
     \/ Fault /\ UNCHANGED seen
  /\ UNCHANGED <<kind, history, queue, marker, speaker, busy, lost>>

\* The process dies with the request in it.
CrashRequest(r) ==
  /\ pc[r] \notin {"unsent", "ok", "failed", "crashed"}
  /\ Fault
  /\ Goto(r, "crashed")
  /\ UNCHANGED <<kind, seen, history, queue, marker, speaker, busy, lost>>

-----------------------------------------------------------------------------
(* The worker, inside the lock of the room.                                *)

MoveTo(e, state) == queue' = [queue EXCEPT ![e].state = state]

\* The room's lock is free for e. Entries come in order the first time.
Take(e) ==
  /\ busy = 0
  /\ queue[e].state = "queued"
  /\ \A f \in 1..(e - 1) : queue[f].state = "queued" => queue[f].tries > 0 \/ queue[e].tries > 0
  /\ IF queue[e].sort = "distill"
     THEN MoveTo(e, "ignored") /\ UNCHANGED busy      \* distillOnly: no answer
     ELSE MoveTo(e, IF Supersedable(queue[e].msg) THEN "window" ELSE "start") /\ busy' = e
  /\ UNCHANGED <<gate, history, marker, speaker, faults>>

\* Mutant of Judge: a turn that cannot read the mark is dropped.
JudgeDropsOnError(e) ==
  /\ queue[e].state = "window"
  /\ \/ /\ marker > queue[e].msg
        /\ MoveTo(e, "superseded") /\ busy' = 0 /\ UNCHANGED faults
     \/ /\ marker <= queue[e].msg
        /\ MoveTo(e, "start") /\ UNCHANGED <<busy, faults>>
     \/ Fault /\ MoveTo(e, "superseded") /\ busy' = 0
  /\ UNCHANGED <<gate, history, marker, speaker>>

\* isSuperseded, once the burst window is over.
Judge(e) ==
  /\ queue[e].state = "window"
  /\ \/ /\ marker > queue[e].msg
        /\ MoveTo(e, "superseded") /\ busy' = 0 /\ UNCHANGED faults
     \/ /\ marker <= queue[e].msg
        /\ MoveTo(e, "start") /\ UNCHANGED <<busy, faults>>
     \/ Fault /\ MoveTo(e, "start") /\ UNCHANGED busy   \* abort, or the GET failed
  /\ UNCHANGED <<gate, history, marker, speaker>>

\* handleEnvelope leaves before the agent: a command, a blocked group, the
\* intent gate, the budget.
Leave(e) ==
  /\ queue[e].state = "start"
  /\ MoveTo(e, "ignored")
  /\ busy' = 0
  /\ UNCHANGED <<gate, history, marker, speaker, faults>>

\* ... or reads the history for the agent; an empty one fails the turn.
ReadHistory(e) ==
  /\ queue[e].state = "start"
  /\ history # {}
  /\ queue' = [queue EXCEPT ![e].state = "agent", ![e].read = history]
  /\ UNCHANGED <<gate, history, marker, speaker, busy, faults>>

\* The agent has answered.
Answer(e) ==
  /\ queue[e].state = "agent"
  /\ MoveTo(e, "answered")
  /\ busy' = 0
  /\ UNCHANGED <<gate, history, marker, speaker, faults>>

\* The turn failed, or its process died: the entry is handed out again.
Fail(e) ==
  /\ queue[e].state \in {"window", "start", "agent"}
  /\ queue' = [queue EXCEPT ![e].tries = @ + 1,
                            ![e].state = IF queue[e].tries + 1 = MaxDeliveries
                                         THEN "dead" ELSE "queued"]
  /\ busy' = 0
  /\ UNCHANGED <<gate, history, marker, speaker, faults>>

-----------------------------------------------------------------------------
GateStep(r) ==
  \/ FirstSee(r) \/ AppendHistory(r) \/ Publish(r) \/ Mark(r) \/ Aftermath(r)
  \/ Release(r) \/ CrashRequest(r)

TurnStep(e) ==
  Take(e) \/ Judge(e) \/ Leave(e) \/ ReadHistory(e) \/ Answer(e) \/ Fail(e)

Next ==
  \/ \E m \in Msg : \E k \in 1..MaxTries[m] : Deliver(m, k)
  \/ \E r \in Req : GateStep(r)
  \/ \E e \in DOMAIN queue : TurnStep(e)

Spec == Init /\ [][Next]_vars

-----------------------------------------------------------------------------
(* Properties                                                              *)

(* HistoryFirst: the agent never runs for a message the room's history does *)
(* not hold yet, however often it was retried or redelivered               *)
(* (gateway.ts:142-143, handler.ts:190-200).                               *)
HistoryFirst ==
  \A e \in DOMAIN queue : queue[e].state \in {"window", "start", "agent"} =>
    queue[e].msg \in history

\* A newer message that may speak for m has an entry of its own.
NewerQueued(m) ==
  {f \in DOMAIN queue : /\ queue[f].sort = "chat"
                        /\ queue[f].msg > m
                        /\ Supersedable(queue[f].msg)}

(* SupersededIsRead: a dropped message is, or will be, in the history that   *)
(* a newer turn reads (burst.ts:22-24), unless that turn ends before the    *)
(* agent answers.                                                          *)
SupersededIsRead ==
  \A e \in DOMAIN queue : queue[e].state = "superseded" =>
    \E f \in NewerQueued(queue[e].msg) :
      \/ queue[f].state # "answered"
      \/ queue[e].msg \in queue[f].read

(* QueuedOnce: however many webhooks of one message race or are retried, it  *)
(* has one entry in the queue, and one more for each XADD whose reply was   *)
(* lost (gateway.ts:137-139, dedupe.ts:3-5).                               *)
QueuedOnce ==
  \A m \in Msg :
    Cardinality({e \in DOMAIN queue : queue[e].msg = m /\ queue[e].sort = "chat"})
      <= 1 + lost[m]

(* AcceptedIsKept: a message whose last webhook was answered 200 is in the   *)
(* history ("tra lai mark de retry cua channel reprocess (khong mat tin)",  *)
(* gateway.ts:153).                                                        *)
AcceptedIsKept ==
  \A m \in Msg :
    (/\ \E k \in 1..MaxTries[m] : pc[<<m, k>>] = "ok"
     /\ \A k \in 1..MaxTries[m] : pc[<<m, k>>] \in {"unsent", "ok", "failed"})
    => m \in history

=============================================================================
