---------------------------- MODULE IntakeProofs ----------------------------
(***************************************************************************)
(* Theorems about Intake, for every number of messages, of deliveries of   *)
(* their webhooks and of faults. One inductive invariant, IInv, carries    *)
(* them all.                                                               *)
(***************************************************************************)
EXTENDS Intake, FiniteSetTheorems, TLAPS

\* The lock is held for an entry of the queue; an entry out of tries is dead.
Places ==
  /\ busy \in 0..Len(queue)
  /\ \A e \in DOMAIN queue : queue[e].state # "dead" => queue[e].tries < MaxDeliveries

\* Nothing is queued, and no request goes on to queue, before the history has
\* the message.
InHistory ==
  /\ \A e \in DOMAIN queue : queue[e].msg \in history
  /\ \A r \in Req : pc[r] \in {"publish", "mark", "after"} => r[1] \in history

\* The chat entries of m.
EntriesOf(m) == {e \in DOMAIN queue : queue[e].msg = m /\ queue[e].sort = "chat"}

\* A request that may still queue its message, or give it up for another try.
Holder(r) == pc[r] \in {"append", "publish", "release"}

\* One request at a time works on a message, under the dedupe key, and none
\* once an XADD has been answered.
Token ==
  /\ \A r \in Req : Holder(r) => r[1] \in seen
  /\ \A r, s \in Req : Holder(r) /\ Holder(s) /\ r[1] = s[1] => r = s
  /\ \A m \in Msg : Cardinality(EntriesOf(m)) > lost[m] =>
       m \in seen /\ \A r \in Req : Holder(r) => r[1] # m

\* The mark is that of a message in the queue; a request sets it afterwards.
Marked ==
  /\ marker # 0 =>
       /\ Supersedable(marker)
       /\ \E f \in DOMAIN queue : queue[f].msg = marker /\ queue[f].sort = "chat"
  /\ \A r \in Req : pc[r] = "mark" =>
       \E f \in DOMAIN queue : queue[f].msg = r[1] /\ queue[f].sort = "chat"

\* A dropped message was dropped for one that is in the queue.
Newer ==
  \A e \in DOMAIN queue : queue[e].state = "superseded" => NewerQueued(queue[e].msg) # {}

\* Under a channel that delivers in order, what is older than a message that
\* came in is in the history, and in the history its turn has read.
Ordered ==
  InOrder =>
    /\ \A m \in history : \A j \in Msg : j < m => j \in history
    /\ \A r \in Req : pc[r] # "unsent" => \A j \in Msg : j < r[1] => j \in history
    /\ \A e \in DOMAIN queue : queue[e].state \in {"agent", "answered"} =>
         \A j \in Msg : j < queue[e].msg => j \in queue[e].read

IInv ==
  TypeOK /\ Places /\ InHistory /\ Token /\ QueuedOnce /\ Marked /\ Newer /\ Ordered

-----------------------------------------------------------------------------
(* Requests and the queue                                                  *)

LEMMA Requests ==
  /\ \A m \in Msg : \A k \in 1..MaxTries[m] : <<m, k>> \in Req
  /\ \A r \in Req : r[1] \in Msg /\ r[2] \in 1..MaxTries[r[1]] /\ r = <<r[1], r[2]>>
BY DEF Req

\* The states of an entry whose turn holds the lock of the room.
InTurn == {"window", "start", "agent"}

LEMMA Grown ==
  ASSUME NEW q \in Seq(Entry), NEW x \in Entry
  PROVE  /\ Append(q, x) \in Seq(Entry)
         /\ Len(Append(q, x)) = Len(q) + 1
         /\ DOMAIN Append(q, x) = (DOMAIN q) \cup {Len(q) + 1}
         /\ Len(q) + 1 \notin DOMAIN q
         /\ Append(q, x)[Len(q) + 1] = x
         /\ \A f \in DOMAIN q : Append(q, x)[f] = q[f]
OBVIOUS

LEMMA Changed ==
  ASSUME NEW q \in Seq(Entry), NEW e \in DOMAIN q, NEW x \in Entry
  PROVE  /\ [q EXCEPT ![e] = x] \in Seq(Entry)
         /\ DOMAIN [q EXCEPT ![e] = x] = DOMAIN q
         /\ Len([q EXCEPT ![e] = x]) = Len(q)
         /\ [q EXCEPT ![e] = x][e] = x
         /\ \A f \in DOMAIN q : f # e => [q EXCEPT ![e] = x][f] = q[f]
OBVIOUS

LEMMA Places0 ==
  ASSUME TypeOK, Places
  PROVE  /\ Len(queue) \in Nat
         /\ DOMAIN queue = 1..Len(queue)
         /\ 0 \notin DOMAIN queue
         /\ \A e \in DOMAIN queue : queue[e] \in Entry
BY DEF TypeOK

\* What a step of a turn does to its entry.
TurnShape(e, x) ==
  /\ queue' = [queue EXCEPT ![e] = x]
  /\ x.msg = queue[e].msg /\ x.sort = queue[e].sort
  /\ x.state # "dead" => x.tries < MaxDeliveries
  /\ busy \in {0, e}
  /\ busy' = IF x.state \in InTurn THEN e ELSE 0
  /\ x.state = "superseded" => marker > x.msg
  /\ x.state \in {"agent", "answered"} =>
       x.read = history \/ (queue[e].state = "agent" /\ x.read = queue[e].read)
  /\ UNCHANGED <<gate, history, marker, speaker>>
  /\ faults' \in 0..MaxFaults

LEMMA TurnSteps ==
  ASSUME TypeOK, Places, NEW e \in DOMAIN queue, TurnStep(e)
  PROVE  \E x \in Entry : TurnShape(e, x)
<1> USE IntakeAssumption
<1>a. /\ queue \in Seq(Entry)
      /\ queue[e] \in Entry
      /\ queue[e].state \in InTurn <=> busy = e
      /\ queue[e].state # "dead" => queue[e].tries < MaxDeliveries
      /\ e # 0
      /\ faults \in 0..MaxFaults /\ history \subseteq Msg
  BY Places0 DEF TypeOK, Places, InTurn
<1>b. /\ queue[e].msg \in Msg /\ queue[e].sort \in {"chat", "distill"}
      /\ queue[e].state \in State /\ queue[e].tries \in 0..MaxDeliveries
      /\ queue[e].read \in SUBSET Msg
      /\ queue[e] = [msg |-> queue[e].msg, sort |-> queue[e].sort, state |-> queue[e].state,
                     tries |-> queue[e].tries, read |-> queue[e].read]
  BY <1>a DEF Entry
<1>1. ASSUME NEW s \in State
      PROVE  /\ [queue[e] EXCEPT !.state = s] \in Entry
             /\ [queue[e] EXCEPT !.state = s].msg = queue[e].msg
             /\ [queue[e] EXCEPT !.state = s].sort = queue[e].sort
             /\ [queue[e] EXCEPT !.state = s].state = s
             /\ [queue[e] EXCEPT !.state = s].tries = queue[e].tries
             /\ [queue[e] EXCEPT !.state = s].read = queue[e].read
  BY <1>a, <1>b DEF Entry
<1>2. ASSUME NEW s \in State, MoveTo(e, s), queue[e].state # "dead",
             busy \in {0, e},
             busy' = IF s \in InTurn THEN e ELSE 0,
             s = "superseded" => marker > queue[e].msg,
             s \notin {"agent", "dead"},
             s = "answered" => queue[e].state = "agent",
             UNCHANGED <<gate, history, marker, speaker>>,
             faults' \in 0..MaxFaults
      PROVE  \E x \in Entry : TurnShape(e, x)
  <2>1. queue' = [queue EXCEPT ![e] = [queue[e] EXCEPT !.state = s]]
    BY <1>2 DEF MoveTo
  <2> QED
    BY <1>a, <1>1, <1>2, <2>1 DEF TurnShape
<1>3. CASE Take(e)
  <2>1. busy = 0 /\ queue[e].state = "queued" /\ UNCHANGED <<gate, history, marker, speaker, faults>>
    BY <1>3 DEF Take
  <2>2. PICK s \in {"ignored", "window", "start"} :
          MoveTo(e, s) /\ busy' = IF s \in InTurn THEN e ELSE 0
    BY <1>3, <2>1 DEF Take, InTurn
  <2>3. s \in State /\ s \notin {"agent", "dead", "superseded", "answered"}
    BY DEF State
  <2> QED
    BY <1>a, <1>2, <2>1, <2>2, <2>3
<1>4. CASE Judge(e)
  <2>1. /\ queue[e].state = "window" /\ busy = e
        /\ UNCHANGED <<gate, history, marker, speaker>>
        /\ faults' \in 0..MaxFaults
    BY <1>4, <1>a DEF Judge, InTurn, Fault
  <2>2. PICK s \in {"superseded", "start"} :
          /\ MoveTo(e, s) /\ busy' = IF s \in InTurn THEN e ELSE 0
          /\ s = "superseded" => marker > queue[e].msg
    BY <1>4, <2>1 DEF Judge, InTurn
  <2>3. s \in State /\ s \notin {"agent", "dead", "answered"}
    BY DEF State
  <2> QED
    BY <1>a, <1>2, <2>1, <2>2, <2>3
<1>5. CASE Leave(e)
  <2>1. /\ queue[e].state = "start" /\ busy = e /\ MoveTo(e, "ignored") /\ busy' = 0
        /\ UNCHANGED <<gate, history, marker, speaker, faults>>
    BY <1>5, <1>a DEF Leave, InTurn
  <2>2. "ignored" \in State /\ "ignored" \notin InTurn
    BY DEF State, InTurn
  <2> QED
    BY <1>a, <1>2, <2>1, <2>2
<1>6. CASE Answer(e)
  <2>1. /\ queue[e].state = "agent" /\ busy = e /\ MoveTo(e, "answered") /\ busy' = 0
        /\ UNCHANGED <<gate, history, marker, speaker, faults>>
    BY <1>6, <1>a DEF Answer, InTurn
  <2>2. "answered" \in State /\ "answered" \notin InTurn
    BY DEF State, InTurn
  <2> QED
    BY <1>a, <1>2, <2>1, <2>2
<1>7. CASE ReadHistory(e)
  <2> DEFINE x == [queue[e] EXCEPT !.state = "agent", !.read = history]
  <2>1. /\ queue[e].state = "start" /\ busy = e /\ busy' = busy
        /\ queue' = [queue EXCEPT ![e].state = "agent", ![e].read = history]
        /\ UNCHANGED <<gate, history, marker, speaker, faults>>
    BY <1>7, <1>a DEF ReadHistory, InTurn
  <2>2. x \in Entry /\ x.msg = queue[e].msg /\ x.sort = queue[e].sort
        /\ x.state = "agent" /\ x.tries = queue[e].tries /\ x.read = history
    BY <1>a, <1>b DEF Entry, State
  <2>3. queue' = [queue EXCEPT ![e] = x]
    BY <1>a, <2>1
  <2> HIDE DEF x
  <2> QED
    BY <1>a, <2>1, <2>2, <2>3 DEF TurnShape, InTurn
<1>8. CASE Fail(e)
  <2> DEFINE s == IF queue[e].tries + 1 = MaxDeliveries THEN "dead" ELSE "queued"
             x == [queue[e] EXCEPT !.tries = @ + 1, !.state = s]
  <2>1. /\ queue[e].state \in InTurn /\ busy = e /\ busy' = 0
        /\ queue' = [queue EXCEPT ![e].tries = @ + 1, ![e].state = s]
        /\ UNCHANGED <<gate, history, marker, speaker, faults>>
    BY <1>8, <1>a DEF Fail, InTurn
  <2>2. queue[e].tries < MaxDeliveries
    BY <1>a, <2>1 DEF InTurn
  <2>3. s \in State /\ queue[e].tries + 1 \in 0..MaxDeliveries
    BY <1>b, <2>2 DEF State
  <2>4. x \in Entry /\ x.msg = queue[e].msg /\ x.sort = queue[e].sort
        /\ x.state = s /\ x.tries = queue[e].tries + 1
    BY <1>a, <1>b, <2>3 DEF Entry
  <2>5. queue' = [queue EXCEPT ![e] = x]
    BY <1>a, <2>1
  <2>6. s \notin InTurn /\ s \notin {"superseded", "agent", "answered"}
        /\ (s # "dead" => queue[e].tries + 1 < MaxDeliveries)
    BY <1>b, <2>2 DEF InTurn
  <2> HIDE DEF x, s
  <2> QED
    BY <1>a, <2>1, <2>4, <2>5, <2>6 DEF TurnShape
<1> QED
  BY <1>3, <1>4, <1>5, <1>6, <1>7, <1>8 DEF TurnStep

\* What a step of the gateway does to the queue: it adds x, or nothing.
LEMMA Appended ==
  ASSUME TypeOK, Places, NEW r \in Req, NEW sort \in {"chat", "distill"},
         queue' = Append(queue, NewEntry(r[1], sort)), UNCHANGED busy
  PROVE  /\ queue' \in Seq(Entry)
         /\ Len(queue') = Len(queue) + 1
         /\ DOMAIN queue' = (DOMAIN queue) \cup {Len(queue) + 1}
         /\ Len(queue) + 1 \notin DOMAIN queue
         /\ queue'[Len(queue) + 1] = NewEntry(r[1], sort)
         /\ \A f \in DOMAIN queue : queue'[f] = queue[f]
         /\ busy' \in 0..Len(queue')
         /\ \A f \in DOMAIN queue' : queue'[f].state \in InTurn <=> busy' = f
         /\ \A f \in DOMAIN queue' : queue'[f].state # "dead" => queue'[f].tries < MaxDeliveries
<1> DEFINE x == NewEntry(r[1], sort)
<1>1. x \in Entry /\ x.state = "queued" /\ x.tries = 0 /\ 0 < MaxDeliveries
  BY Requests, IntakeAssumption DEF NewEntry, Entry, State
<1>2. queue \in Seq(Entry) /\ queue' = Append(queue, x)
  BY DEF TypeOK
<1> HIDE DEF x
<1>3. /\ queue' \in Seq(Entry)
      /\ Len(queue') = Len(queue) + 1
      /\ DOMAIN queue' = (DOMAIN queue) \cup {Len(queue) + 1}
      /\ Len(queue) + 1 \notin DOMAIN queue
      /\ queue'[Len(queue) + 1] = x
      /\ \A f \in DOMAIN queue : queue'[f] = queue[f]
  BY <1>1, <1>2, Grown
<1>4. busy' \in 0..Len(queue') /\ busy' # Len(queue) + 1
  BY <1>3, Places0 DEF Places
<1>5. \A f \in DOMAIN queue' : queue'[f].state \in InTurn <=> busy' = f
  <2>1. \A f \in DOMAIN queue : queue'[f].state \in InTurn <=> busy' = f
    BY <1>3 DEF TypeOK, InTurn
  <2>2. queue'[Len(queue) + 1].state \notin InTurn
    BY <1>1, <1>3 DEF InTurn
  <2> QED
    BY <1>3, <1>4, <2>1, <2>2
<1>6. \A f \in DOMAIN queue' : queue'[f].state # "dead" => queue'[f].tries < MaxDeliveries
  BY <1>1, <1>3 DEF Places
<1> QED
  BY <1>3, <1>4, <1>5, <1>6 DEF x

LEMMA TypeInit == Init => TypeOK
<1> SUFFICES ASSUME Init PROVE TypeOK
  OBVIOUS
<1>1. queue \in Seq(Entry) /\ DOMAIN queue = {}
  BY DEF Init
<1> QED
  BY <1>1, IntakeAssumption DEF Init, TypeOK, Step

LEMMA TypeStep ==
  ASSUME TypeOK, Places, [Next]_vars
  PROVE  TypeOK' /\ Places'
<1> USE IntakeAssumption
<1>a. /\ kind \in Mixes
      /\ pc \in [Req -> Step]
      /\ seen \subseteq Msg
      /\ history \subseteq Msg
      /\ queue \in Seq(Entry)
      /\ marker \in 0..MaxMsg
      /\ lost \in [Msg -> Nat]
      /\ faults \in 0..MaxFaults
      /\ \A e \in DOMAIN queue : queue[e].state \in InTurn <=> busy = e
      /\ \A r \in Req : r[1] \in Msg
  BY Requests DEF TypeOK, InTurn
<1>1. ASSUME queue' \in Seq(Entry), busy' \in 0..Len(queue'),
             \A e \in DOMAIN queue' : queue'[e].state \in InTurn <=> busy' = e,
             \A e \in DOMAIN queue' : queue'[e].state # "dead" => queue'[e].tries < MaxDeliveries,
             kind' = kind, pc' \in [Req -> Step], seen' \subseteq Msg,
             history' \subseteq Msg, marker' \in 0..MaxMsg, lost' \in [Msg -> Nat],
             faults' \in 0..MaxFaults
      PROVE  TypeOK' /\ Places'
  BY <1>1, <1>a DEF TypeOK, Places, InTurn
<1>2. ASSUME UNCHANGED <<queue, busy>>,
             kind' = kind, pc' \in [Req -> Step], seen' \subseteq Msg,
             history' \subseteq Msg, marker' \in 0..MaxMsg, lost' \in [Msg -> Nat],
             faults' \in 0..MaxFaults
      PROVE  TypeOK' /\ Places'
  BY <1>2, <1>a, <1>1 DEF Places
<1>b. Fault => faults' \in 0..MaxFaults
  BY <1>a DEF Fault
<1>c. ASSUME NEW r \in Req, NEW s \in Step, Goto(r, s) PROVE pc' \in [Req -> Step]
  BY <1>c, <1>a DEF Goto
<1>d. /\ "see" \in Step /\ "append" \in Step /\ "publish" \in Step /\ "mark" \in Step
      /\ "after" \in Step /\ "release" \in Step /\ "ok" \in Step /\ "failed" \in Step
      /\ "crashed" \in Step
  BY DEF Step
<1>3. ASSUME NEW m \in Msg, NEW k \in 1..MaxTries[m], Deliver(m, k) PROVE TypeOK' /\ Places'
  <2>1. <<m, k>> \in Req /\ Goto(<<m, k>>, "see")
    BY <1>3, Requests DEF Deliver
  <2>2. pc' \in [Req -> Step]
    BY <2>1, <1>c, <1>d
  <2> QED
    BY <1>a, <1>2, <1>3, <2>2 DEF Deliver
<1>4. ASSUME NEW r \in Req, FirstSee(r) PROVE TypeOK' /\ Places'
  <2>1. pc' \in [Req -> Step]
    BY <1>4, <1>c, <1>d DEF FirstSee
  <2>2. faults' \in 0..MaxFaults /\ seen' \subseteq Msg
    BY <1>4, <1>a, <1>b DEF FirstSee
  <2> QED
    BY <1>a, <1>2, <1>4, <2>1, <2>2 DEF FirstSee
<1>5. ASSUME NEW r \in Req, AppendHistory(r) PROVE TypeOK' /\ Places'
  <2>1. pc' \in [Req -> Step]
    BY <1>5, <1>c, <1>d DEF AppendHistory
  <2>2. faults' \in 0..MaxFaults /\ history' \subseteq Msg
    BY <1>5, <1>a, <1>b DEF AppendHistory
  <2> QED
    BY <1>a, <1>2, <1>5, <2>1, <2>2 DEF AppendHistory
<1>6. ASSUME NEW r \in Req, Publish(r) PROVE TypeOK' /\ Places'
  <2>1. pc' \in [Req -> Step]
    BY <1>6, <1>c, <1>d DEF Publish
  <2>2. faults' \in 0..MaxFaults /\ lost' \in [Msg -> Nat]
    BY <1>6, <1>a, <1>b DEF Publish
  <2>3. UNCHANGED <<kind, seen, history, marker, busy>>
    BY <1>6 DEF Publish
  <2>4. CASE queue' = queue
    BY <1>a, <1>2, <2>1, <2>2, <2>3, <2>4
  <2>5. CASE queue' = Append(queue, NewEntry(r[1], "chat"))
    BY <1>a, <1>1, <2>1, <2>2, <2>3, <2>5, Appended
  <2> QED
    BY <1>6, <2>4, <2>5 DEF Publish
<1>7. ASSUME NEW r \in Req, Mark(r) PROVE TypeOK' /\ Places'
  <2>1. pc' \in [Req -> Step]
    BY <1>7, <1>c, <1>d DEF Mark
  <2>2. faults' \in 0..MaxFaults /\ marker' \in 0..MaxMsg
    BY <1>7, <1>a, <1>b DEF Mark, Msg
  <2> QED
    BY <1>a, <1>2, <1>7, <2>1, <2>2 DEF Mark
<1>8. ASSUME NEW r \in Req, Aftermath(r) PROVE TypeOK' /\ Places'
  <2>1. pc' \in [Req -> Step]
    BY <1>8, <1>c, <1>d DEF Aftermath
  <2>2. faults' \in 0..MaxFaults
    BY <1>8, <1>a, <1>b DEF Aftermath
  <2>3. UNCHANGED <<kind, seen, history, marker, busy, lost>>
    BY <1>8 DEF Aftermath
  <2>4. CASE queue' = queue
    BY <1>a, <1>2, <2>1, <2>2, <2>3, <2>4
  <2>5. CASE queue' = Append(queue, NewEntry(r[1], "distill"))
    BY <1>a, <1>1, <2>1, <2>2, <2>3, <2>5, Appended
  <2> QED
    BY <1>8, <2>4, <2>5 DEF Aftermath
<1>9. ASSUME NEW r \in Req, Release(r) \/ CrashRequest(r) PROVE TypeOK' /\ Places'
  <2>1. pc' \in [Req -> Step]
    BY <1>9, <1>c, <1>d DEF Release, CrashRequest
  <2>2. faults' \in 0..MaxFaults /\ seen' \subseteq Msg
    BY <1>9, <1>a, <1>b DEF Release, CrashRequest
  <2> QED
    BY <1>a, <1>2, <1>9, <2>1, <2>2 DEF Release, CrashRequest
<1>10. ASSUME NEW e \in DOMAIN queue, TurnStep(e) PROVE TypeOK' /\ Places'
  <2>1. PICK x \in Entry : TurnShape(e, x)
    BY <1>10, TurnSteps
  <2>2. /\ queue' \in Seq(Entry)
        /\ DOMAIN queue' = DOMAIN queue
        /\ Len(queue') = Len(queue)
        /\ queue'[e] = x
        /\ \A f \in DOMAIN queue : f # e => queue'[f] = queue[f]
    BY <1>a, <2>1, Changed DEF TurnShape
  <2>3. busy \in {0, e} /\ busy' = (IF x.state \in InTurn THEN e ELSE 0)
        /\ e \in 1..Len(queue) /\ Len(queue) \in Nat
    BY <2>1, Places0 DEF TurnShape
  <2>4. \A f \in DOMAIN queue' : queue'[f].state \in InTurn <=> busy' = f
    BY <1>a, <2>2, <2>3, Places0
  <2>5. \A f \in DOMAIN queue' : queue'[f].state # "dead" => queue'[f].tries < MaxDeliveries
    BY <2>1, <2>2 DEF TurnShape, Places
  <2>6. busy' \in 0..Len(queue')
    BY <2>2, <2>3
  <2>7. UNCHANGED <<kind, pc, seen, lost, history, marker>> /\ faults' \in 0..MaxFaults
    BY <2>1 DEF TurnShape, gate
  <2> QED
    BY <1>a, <1>1, <2>2, <2>4, <2>5, <2>6, <2>7
<1>11. CASE UNCHANGED vars
  BY <1>a, <1>2, <1>11 DEF vars
<1> QED
  BY <1>3, <1>4, <1>5, <1>6, <1>7, <1>8, <1>9, <1>10, <1>11 DEF Next, GateStep

-----------------------------------------------------------------------------
(* The history comes first                                                 *)

\* Entries stay, for the message and of the sort they were made.
LEMMA Kept ==
  ASSUME TypeOK, Places, [Next]_vars
  PROVE  /\ \A e \in DOMAIN queue : /\ e \in DOMAIN queue'
                                    /\ queue'[e].msg = queue[e].msg
                                    /\ queue'[e].sort = queue[e].sort
         /\ history \subseteq history'
         /\ kind' = kind
<1>1. ASSUME UNCHANGED queue
      PROVE  \A e \in DOMAIN queue : /\ e \in DOMAIN queue'
                                     /\ queue'[e].msg = queue[e].msg
                                     /\ queue'[e].sort = queue[e].sort
  BY <1>1
<1>2. ASSUME NEW r \in Req, NEW sort \in {"chat", "distill"}, UNCHANGED busy,
             queue' = Append(queue, NewEntry(r[1], sort))
      PROVE  \A e \in DOMAIN queue : /\ e \in DOMAIN queue'
                                     /\ queue'[e].msg = queue[e].msg
                                     /\ queue'[e].sort = queue[e].sort
  BY <1>2, Appended
<1>3. ASSUME NEW e \in DOMAIN queue, TurnStep(e)
      PROVE  /\ \A f \in DOMAIN queue : /\ f \in DOMAIN queue'
                                        /\ queue'[f].msg = queue[f].msg
                                        /\ queue'[f].sort = queue[f].sort
             /\ history' = history /\ kind' = kind
  <2>1. PICK x \in Entry : TurnShape(e, x)
    BY <1>3, TurnSteps
  <2> QED
    BY <2>1, Changed DEF TurnShape, TypeOK, gate
<1>4. ASSUME NEW r \in Req, GateStep(r)
      PROVE  /\ \A f \in DOMAIN queue : /\ f \in DOMAIN queue'
                                        /\ queue'[f].msg = queue[f].msg
                                        /\ queue'[f].sort = queue[f].sort
             /\ history \subseteq history' /\ kind' = kind
  <2>1. history \subseteq history' /\ kind' = kind
    BY <1>4 DEF GateStep, FirstSee, AppendHistory, Publish, Mark, Aftermath, Release,
                CrashRequest
  <2>2. CASE Publish(r)
    BY <1>1, <1>2, <2>1, <2>2 DEF Publish
  <2>3. CASE Aftermath(r)
    BY <1>1, <1>2, <2>1, <2>3 DEF Aftermath
  <2>4. CASE FirstSee(r) \/ AppendHistory(r) \/ Mark(r) \/ Release(r) \/ CrashRequest(r)
    BY <2>1, <2>4 DEF FirstSee, AppendHistory, Mark, Release, CrashRequest
  <2> QED
    BY <1>4, <2>2, <2>3, <2>4 DEF GateStep
<1>5. CASE UNCHANGED <<queue, history, kind>>
  BY <1>5
<1> QED
  BY <1>3, <1>4, <1>5 DEF Next, Deliver, vars

LEMMA InHistoryStep ==
  ASSUME TypeOK, Places, InHistory, [Next]_vars
  PROVE  InHistory'
<1>a. pc \in [Req -> Step] /\ history \subseteq history'
  BY Kept DEF TypeOK
<1>1. ASSUME UNCHANGED queue,
             \A r \in Req : pc'[r] \in {"publish", "mark", "after"} => r[1] \in history'
      PROVE  InHistory'
  BY <1>1, <1>a DEF InHistory
<1>2. ASSUME NEW r \in Req, NEW s, pc' = [pc EXCEPT ![r] = s],
             s \in {"publish", "mark", "after"} => r[1] \in history'
      PROVE  \A t \in Req : pc'[t] \in {"publish", "mark", "after"} => t[1] \in history'
  BY <1>2, <1>a DEF InHistory
<1>3. ASSUME NEW m \in Msg, NEW k \in 1..MaxTries[m], Deliver(m, k) PROVE InHistory'
  <2>1. <<m, k>> \in Req /\ pc' = [pc EXCEPT ![<<m, k>>] = "see"] /\ UNCHANGED queue
    BY <1>3, Requests DEF Deliver, Goto
  <2> QED
    BY <1>1, <1>2, <2>1
<1>4. ASSUME NEW r \in Req, FirstSee(r) \/ Mark(r) \/ Release(r) \/ CrashRequest(r)
      PROVE  InHistory'
  <2>1. PICK s : /\ pc' = [pc EXCEPT ![r] = s]
                 /\ s \in {"publish", "mark", "after"} => pc[r] = "mark"
    BY <1>4 DEF FirstSee, Mark, Release, CrashRequest, Goto
  <2>2. UNCHANGED queue
    BY <1>4 DEF FirstSee, Mark, Release, CrashRequest
  <2>3. s \in {"publish", "mark", "after"} => r[1] \in history'
    BY <1>a, <2>1 DEF InHistory
  <2> QED
    BY <1>1, <1>2, <2>1, <2>2, <2>3
<1>5. ASSUME NEW r \in Req, AppendHistory(r) PROVE InHistory'
  <2>1. PICK s : /\ pc' = [pc EXCEPT ![r] = s]
                 /\ s \in {"publish", "mark", "after"} => r[1] \in history'
    BY <1>5 DEF AppendHistory, Goto
  <2> QED
    BY <1>1, <1>2, <1>5, <2>1 DEF AppendHistory
<1>6. ASSUME NEW r \in Req, Publish(r) \/ Aftermath(r) PROVE InHistory'
  <2>1. r[1] \in history'
    BY <1>6, <1>a DEF InHistory, Publish, Aftermath
  <2>2. PICK s : pc' = [pc EXCEPT ![r] = s]
    BY <1>6 DEF Publish, Aftermath, Goto
  <2>3. \A t \in Req : pc'[t] \in {"publish", "mark", "after"} => t[1] \in history'
    BY <1>2, <2>1, <2>2
  <2>4. CASE UNCHANGED queue
    BY <1>1, <2>3, <2>4
  <2>5. ASSUME NEW sort \in {"chat", "distill"}, queue' = Append(queue, NewEntry(r[1], sort))
        PROVE  InHistory'
    <3>1. UNCHANGED busy
      BY <1>6 DEF Publish, Aftermath
    <3>2. /\ DOMAIN queue' = (DOMAIN queue) \cup {Len(queue) + 1}
          /\ queue'[Len(queue) + 1] = NewEntry(r[1], sort)
          /\ \A f \in DOMAIN queue : queue'[f] = queue[f]
      BY <2>5, <3>1, Appended
    <3>3. NewEntry(r[1], sort).msg = r[1]
      BY DEF NewEntry
    <3> QED
      BY <1>a, <2>1, <2>3, <3>2, <3>3 DEF InHistory
  <2> QED
    BY <1>6, <2>4, <2>5 DEF Publish, Aftermath
<1>7. ASSUME NEW e \in DOMAIN queue, TurnStep(e) PROVE InHistory'
  <2>1. PICK x \in Entry : TurnShape(e, x)
    BY <1>7, TurnSteps
  <2>2. DOMAIN queue' = DOMAIN queue /\ UNCHANGED pc
    BY <2>1, Changed DEF TurnShape, TypeOK, gate
  <2> QED
    BY <1>a, <2>2, Kept DEF InHistory
<1>8. CASE UNCHANGED vars
  BY <1>8 DEF vars, InHistory
<1> QED
  BY <1>3, <1>4, <1>5, <1>6, <1>7, <1>8 DEF Next, GateStep

-----------------------------------------------------------------------------
(* One entry for one message                                               *)

\* The entries of m, counted.
LEMMA Counts ==
  ASSUME TypeOK, Places, NEW m
  PROVE  IsFiniteSet(EntriesOf(m)) /\ Cardinality(EntriesOf(m)) \in Nat
<1>1. IsFiniteSet(1..Len(queue))
  BY Places0, FS_Interval
<1>2. EntriesOf(m) \subseteq 1..Len(queue)
  BY Places0 DEF EntriesOf
<1> QED
  BY <1>1, <1>2, FS_Subset, FS_CardinalityType

\* Steps that add no chat entry leave the entries of every message alone.
LEMMA SameEntries ==
  ASSUME TypeOK, Places, [Next]_vars, NEW m,
         \A f \in DOMAIN queue' : f \in DOMAIN queue \/ queue'[f].sort # "chat"
  PROVE  EntriesOf(m)' = EntriesOf(m)
BY Kept DEF EntriesOf

LEMMA TokenStep ==
  ASSUME TypeOK, Places, Token, QueuedOnce, [Next]_vars
  PROVE  Token' /\ QueuedOnce'
<1>a. /\ pc \in [Req -> Step] /\ seen \subseteq Msg /\ lost \in [Msg -> Nat]
      /\ \A r \in Req : r[1] \in Msg
  BY Requests DEF TypeOK
<1>b. \A m \in Msg : Cardinality(EntriesOf(m)) \in Nat
  BY Counts
<1>c. \A m \in Msg : Cardinality(EntriesOf(m)) <= 1 + lost[m]
  BY DEF QueuedOnce, EntriesOf
<1>d. ASSUME \A m \in Msg : Cardinality(EntriesOf(m)') <= 1 + lost'[m]
      PROVE  QueuedOnce'
  BY <1>d DEF QueuedOnce, EntriesOf
\* Nothing is queued and nobody becomes a holder or loses the key.
<1>1. ASSUME \A m \in Msg : EntriesOf(m)' = EntriesOf(m), UNCHANGED lost,
             \A r \in Req : Holder(r)' => Holder(r), seen \subseteq seen'
      PROVE  Token' /\ QueuedOnce'
  <2>1. QueuedOnce'
    BY <1>1, <1>c, <1>d
  <2> QED
    BY <1>1, <2>1 DEF Token
<1>e. ASSUME UNCHANGED queue PROVE \A m \in Msg : EntriesOf(m)' = EntriesOf(m)
  BY <1>e DEF EntriesOf
<1>2. ASSUME NEW r \in Req, NEW s, pc' = [pc EXCEPT ![r] = s],
             s \notin {"append", "publish", "release"} \/ Holder(r)
      PROVE  \A t \in Req : Holder(t)' => Holder(t)
  BY <1>2, <1>a DEF Holder
<1>3. ASSUME NEW m \in Msg, NEW k \in 1..MaxTries[m], Deliver(m, k)
      PROVE  Token' /\ QueuedOnce'
  <2>1. <<m, k>> \in Req /\ pc' = [pc EXCEPT ![<<m, k>>] = "see"]
    BY <1>3, Requests DEF Deliver, Goto
  <2> QED
    BY <1>1, <1>2, <1>3, <1>e, <2>1 DEF Deliver
<1>4. ASSUME NEW r \in Req, FirstSee(r) PROVE Token' /\ QueuedOnce'
  <2>1. UNCHANGED <<queue, lost>> /\ pc[r] = "see"
    BY <1>4 DEF FirstSee
  <2>2. CASE r[1] \notin seen /\ seen' = seen \cup {r[1]} /\ pc' = [pc EXCEPT ![r] = "append"]
    <3>1. \A t \in Req : Holder(t) => t[1] # r[1]
      BY <2>2 DEF Token
    <3>2. Cardinality(EntriesOf(r[1])) <= lost[r[1]]
      BY <1>a, <1>b, <2>2 DEF Token
    <3>3. \A t \in Req : Holder(t)' <=> Holder(t) \/ t = r
      BY <1>a, <2>2 DEF Holder
    <3>4. \A m \in Msg : EntriesOf(m)' = EntriesOf(m)
      BY <1>e, <2>1
    <3>5. QueuedOnce'
      BY <1>c, <1>d, <2>1, <3>4
    <3>6. \A t \in Req : Holder(t)' => t[1] \in seen'
      BY <2>2, <3>3 DEF Token
    <3>7. \A t, u \in Req : Holder(t)' /\ Holder(u)' /\ t[1] = u[1] => t = u
      BY <3>1, <3>3 DEF Token
    <3>8. \A m \in Msg : Cardinality(EntriesOf(m))' > lost'[m] =>
            m \in seen' /\ \A t \in Req : Holder(t)' => t[1] # m
      <4> SUFFICES ASSUME NEW m \in Msg, Cardinality(EntriesOf(m)) > lost[m]
                   PROVE  m \in seen' /\ \A t \in Req : Holder(t)' => t[1] # m
        BY <2>1, <3>4
      <4>1. m # r[1]
        BY <1>a, <1>b, <3>2
      <4> QED
        BY <2>2, <3>3, <4>1 DEF Token
    <3> QED
      BY <3>5, <3>6, <3>7, <3>8 DEF Token
  <2>3. CASE ~(r[1] \notin seen /\ seen' = seen \cup {r[1]} /\ pc' = [pc EXCEPT ![r] = "append"])
    <3>1. seen \subseteq seen'
      BY <1>4 DEF FirstSee
    <3>2. PICK s \in {"ok", "failed"} : pc' = [pc EXCEPT ![r] = s]
      BY <1>4, <2>3 DEF FirstSee, Goto
    <3> QED
      BY <1>1, <1>2, <1>e, <2>1, <3>1, <3>2
  <2> QED
    BY <2>2, <2>3
<1>5. ASSUME NEW r \in Req, AppendHistory(r) \/ Mark(r) \/ CrashRequest(r)
      PROVE  Token' /\ QueuedOnce'
  <2>1. UNCHANGED <<queue, lost, seen>>
    BY <1>5 DEF AppendHistory, Mark, CrashRequest
  <2>2. PICK s : /\ pc' = [pc EXCEPT ![r] = s]
                 /\ s \notin {"append", "publish", "release"} \/ Holder(r)
    BY <1>5 DEF AppendHistory, Mark, CrashRequest, Goto, Holder
  <2> QED
    BY <1>1, <1>2, <1>e, <2>1, <2>2
<1>6. ASSUME NEW r \in Req, Release(r) PROVE Token' /\ QueuedOnce'
  <2>1. /\ UNCHANGED <<queue, lost>> /\ Holder(r)
        /\ pc' = [pc EXCEPT ![r] = "failed"]
        /\ seen' \in {seen, seen \ {r[1]}}
    BY <1>6 DEF Release, Goto, Holder
  <2>2. \A m \in Msg : EntriesOf(m)' = EntriesOf(m)
    BY <1>e, <2>1
  <2>3. QueuedOnce'
    BY <1>c, <1>d, <2>1, <2>2
  <2>4. \A t \in Req : Holder(t)' => Holder(t) /\ t # r
    BY <1>a, <2>1 DEF Holder
  <2>5. \A t \in Req : Holder(t)' => t[1] \in seen' /\ t[1] # r[1]
    BY <2>1, <2>4 DEF Token
  <2>6. \A m \in Msg : Cardinality(EntriesOf(m))' > lost'[m] =>
            m \in seen' /\ \A t \in Req : Holder(t)' => t[1] # m
    BY <2>1, <2>2, <2>4 DEF Token
  <2> QED
    BY <2>3, <2>4, <2>5, <2>6 DEF Token
<1>7. ASSUME NEW r \in Req, Publish(r) PROVE Token' /\ QueuedOnce'
  <2>1. Holder(r) /\ UNCHANGED <<seen, busy>>
    BY <1>7 DEF Publish, Holder
  <2>2. PICK s \in {"mark", "after", "release"} : pc' = [pc EXCEPT ![r] = s]
    BY <1>7 DEF Publish, Goto
  <2>3. \A t \in Req : Holder(t)' => Holder(t)
    BY <1>2, <2>1, <2>2
  <2>4. CASE UNCHANGED <<queue, lost>>
    BY <1>1, <1>e, <2>1, <2>3, <2>4
  <2>5. CASE queue' = Append(queue, NewEntry(r[1], "chat"))
    <3>1. /\ DOMAIN queue' = (DOMAIN queue) \cup {Len(queue) + 1}
          /\ Len(queue) + 1 \notin DOMAIN queue
          /\ queue'[Len(queue) + 1] = NewEntry(r[1], "chat")
          /\ \A f \in DOMAIN queue : queue'[f] = queue[f]
      BY <2>1, <2>5, Appended
    <3>2. NewEntry(r[1], "chat").msg = r[1] /\ NewEntry(r[1], "chat").sort = "chat"
      BY DEF NewEntry
    <3>3. \A m \in Msg : m # r[1] => EntriesOf(m)' = EntriesOf(m)
      BY <3>1, <3>2 DEF EntriesOf
    <3>4. EntriesOf(r[1])' = EntriesOf(r[1]) \cup {Len(queue) + 1}
      BY <3>1, <3>2 DEF EntriesOf
    <3>5. Len(queue) + 1 \notin EntriesOf(r[1])
      BY <3>1 DEF EntriesOf
    <3>6. Cardinality(EntriesOf(r[1])') = Cardinality(EntriesOf(r[1])) + 1
      BY <3>4, <3>5, Counts, FS_AddElement
    <3>7. Cardinality(EntriesOf(r[1])) <= lost[r[1]]
      BY <1>a, <1>b, <2>1 DEF Token
    <3>8. CASE lost' = lost /\ s = "mark"
      <4>1. \A t \in Req : Holder(t)' => t # r
        BY <1>a, <2>2, <3>8 DEF Holder
      <4>2. \A t \in Req : Holder(t)' => t[1] # r[1]
        BY <2>1, <2>3, <4>1 DEF Token
      <4>3. QueuedOnce'
        BY <1>a, <1>b, <1>c, <1>d, <3>3, <3>6, <3>7, <3>8
      <4>4. r[1] \in seen
        BY <2>1 DEF Token
      <4>5. \A m \in Msg : Cardinality(EntriesOf(m)') > lost'[m] =>
              m \in seen' /\ \A t \in Req : Holder(t)' => t[1] # m
        BY <2>1, <2>3, <3>3, <3>8, <4>2, <4>4 DEF Token
      <4> QED
        BY <2>1, <2>3, <4>3, <4>5 DEF Token
    <3>9. CASE lost' = [lost EXCEPT ![r[1]] = @ + 1]
      <4>1. \A m \in Msg : m # r[1] => lost'[m] = lost[m]
        BY <1>a, <3>9
      <4>2. lost'[r[1]] = lost[r[1]] + 1 /\ lost[r[1]] \in Nat /\ r[1] \in Msg
        BY <1>a, <3>9
      <4>3. \A m \in Msg : Cardinality(EntriesOf(m)') <= 1 + lost'[m]
        BY <1>b, <1>c, <3>3, <3>6, <3>7, <4>1, <4>2
      <4>4. QueuedOnce'
        BY <1>d, <4>3
      <4>5. \A m \in Msg : Cardinality(EntriesOf(m)') > lost'[m] => m # r[1]
        BY <1>b, <3>6, <3>7, <4>2
      <4>6. \A m \in Msg : Cardinality(EntriesOf(m)') > lost'[m] =>
              m \in seen' /\ \A t \in Req : Holder(t)' => t[1] # m
        BY <2>1, <2>3, <3>3, <4>1, <4>5 DEF Token
      <4> QED
        BY <2>1, <2>3, <4>4, <4>6 DEF Token
    <3> QED
      <4>1. \/ lost' = lost /\ s = "mark"
            \/ lost' = [lost EXCEPT ![r[1]] = @ + 1]
        <5>1. queue' # queue
          BY <3>1
        <5>2. pc'[r] = s
          BY <1>a, <2>2
        <5> QED
          BY <1>7, <1>a, <5>1, <5>2 DEF Publish, Goto
      <4> QED
        BY <3>8, <3>9, <4>1
  <2> QED
    BY <1>7, <2>4, <2>5 DEF Publish
<1>8. ASSUME NEW r \in Req, Aftermath(r) PROVE Token' /\ QueuedOnce'
  <2>1. UNCHANGED <<seen, busy, lost>> /\ pc' = [pc EXCEPT ![r] = "ok"]
    BY <1>8 DEF Aftermath, Goto
  <2>2. \A f \in DOMAIN queue' : f \in DOMAIN queue \/ queue'[f].sort # "chat"
    <3>1. CASE queue' = queue
      BY <3>1
    <3>2. CASE queue' = Append(queue, NewEntry(r[1], "distill"))
      BY <2>1, <3>2, Appended DEF NewEntry
    <3> QED
      BY <1>8, <3>1, <3>2 DEF Aftermath
  <2> QED
    BY <1>1, <1>2, <2>1, <2>2, SameEntries
<1>9. ASSUME NEW e \in DOMAIN queue, TurnStep(e) PROVE Token' /\ QueuedOnce'
  <2>1. PICK x \in Entry : TurnShape(e, x)
    BY <1>9, TurnSteps
  <2>2. DOMAIN queue' = DOMAIN queue /\ UNCHANGED <<pc, seen, lost>>
    BY <2>1, Changed DEF TurnShape, TypeOK, gate
  <2>3. \A m \in Msg : EntriesOf(m)' = EntriesOf(m)
    BY <2>2, SameEntries
  <2> QED
    BY <1>1, <2>2, <2>3 DEF Holder
<1>10. CASE UNCHANGED vars
  BY <1>1, <1>e, <1>10 DEF vars, Holder
<1> QED
  BY <1>3, <1>4, <1>5, <1>6, <1>7, <1>8, <1>9, <1>10 DEF Next, GateStep

-----------------------------------------------------------------------------
(* The mark, and the messages dropped for it                               *)

LEMMA MarkedStep ==
  ASSUME TypeOK, Places, Marked, [Next]_vars
  PROVE  Marked'
<1>a. pc \in [Req -> Step] /\ \A r \in Req : r[1] \in Msg
  BY Requests DEF TypeOK
<1> DEFINE Has(m) == \E f \in DOMAIN queue : queue[f].msg = m /\ queue[f].sort = "chat"
           Will(m) == \E f \in DOMAIN queue' : queue'[f].msg = m /\ queue'[f].sort = "chat"
<1>b. \A m : Has(m) => Will(m)
  BY Kept
<1>c. kind' = kind
  BY Kept
<1>d. /\ marker # 0 => Supersedable(marker) /\ Has(marker)
      /\ \A r \in Req : pc[r] = "mark" => Has(r[1])
  BY DEF Marked
<1>e. ASSUME marker' # 0 => Supersedable(marker') /\ Will(marker'),
             \A r \in Req : pc'[r] = "mark" => Will(r[1])
      PROVE  Marked'
  BY <1>e, <1>c DEF Marked, Supersedable
<1> HIDE DEF Has, Will
<1>1. ASSUME UNCHANGED marker, \A r \in Req : pc'[r] = "mark" => pc[r] = "mark"
      PROVE  Marked'
  BY <1>1, <1>b, <1>c, <1>d, <1>e
<1>2. ASSUME NEW m \in Msg, NEW k \in 1..MaxTries[m], Deliver(m, k) PROVE Marked'
  BY <1>1, <1>2, <1>a, Requests DEF Deliver, Goto
<1>3. ASSUME NEW r \in Req,
             FirstSee(r) \/ AppendHistory(r) \/ Aftermath(r) \/ Release(r) \/ CrashRequest(r)
      PROVE  Marked'
  <2>1. PICK s : pc' = [pc EXCEPT ![r] = s] /\ s # "mark"
    BY <1>3 DEF FirstSee, AppendHistory, Aftermath, Release, CrashRequest, Goto
  <2>2. \A t \in Req : pc'[t] = "mark" => pc[t] = "mark"
    BY <1>a, <2>1
  <2>3. UNCHANGED marker
    BY <1>3 DEF FirstSee, AppendHistory, Aftermath, Release, CrashRequest
  <2> QED
    BY <1>1, <2>2, <2>3
<1>4. ASSUME NEW r \in Req, Publish(r) PROVE Marked'
  <2>1. UNCHANGED <<marker, busy>>
    BY <1>4 DEF Publish
  <2>2. PICK s : /\ pc' = [pc EXCEPT ![r] = s]
                 /\ s = "mark" => queue' = Append(queue, NewEntry(r[1], "chat"))
    BY <1>4 DEF Publish, Goto
  <2>3. s = "mark" => Will(r[1])
    <3> SUFFICES ASSUME s = "mark" PROVE Will(r[1])
      OBVIOUS
    <3>1. /\ Len(queue) + 1 \in DOMAIN queue'
          /\ queue'[Len(queue) + 1] = NewEntry(r[1], "chat")
      BY <2>1, <2>2, Appended
    <3> QED
      BY <3>1 DEF NewEntry, Will
  <2>4. \A t \in Req : pc'[t] = "mark" => Will(t[1])
    BY <1>a, <1>b, <1>d, <2>2, <2>3
  <2> QED
    BY <1>b, <1>c, <1>d, <1>e, <2>1, <2>4
<1>5. ASSUME NEW r \in Req, Mark(r) PROVE Marked'
  <2>1. pc[r] = "mark" /\ pc' = [pc EXCEPT ![r] = "after"]
    BY <1>5 DEF Mark, Goto
  <2>2. \A t \in Req : pc'[t] = "mark" => Will(t[1])
    BY <1>a, <1>b, <1>d, <2>1
  <2>3. marker' = marker \/ (Supersedable(r[1]) /\ marker' = r[1])
    BY <1>5 DEF Mark
  <2>4. marker' # 0 => Supersedable(marker') /\ Will(marker')
    BY <1>b, <1>c, <1>d, <2>1, <2>3
  <2> QED
    BY <1>e, <2>2, <2>4
<1>6. ASSUME NEW e \in DOMAIN queue, TurnStep(e) PROVE Marked'
  <2>1. UNCHANGED <<pc, marker>>
    BY <1>6, TurnSteps DEF TurnShape, gate
  <2> QED
    BY <1>1, <2>1
<1>7. CASE UNCHANGED vars
  BY <1>1, <1>7 DEF vars
<1> QED
  BY <1>2, <1>3, <1>4, <1>5, <1>6, <1>7 DEF Next, GateStep

\* What a step makes of an entry: a new one is queued; an old one stays or is
\* the one whose turn takes the step.
LEMMA EntryStep ==
  ASSUME TypeOK, Places, [Next]_vars, NEW f \in DOMAIN queue'
  PROVE  \/ queue'[f].state = "queued"
         \/ f \in DOMAIN queue /\ queue'[f] = queue[f]
         \/ f \in DOMAIN queue /\ TurnShape(f, queue'[f])
<1>1. CASE queue' = queue
  BY <1>1
<1>2. ASSUME NEW r \in Req, NEW sort \in {"chat", "distill"}, UNCHANGED busy,
             queue' = Append(queue, NewEntry(r[1], sort))
      PROVE  queue'[f].state = "queued" \/ (f \in DOMAIN queue /\ queue'[f] = queue[f])
  BY <1>2, Appended DEF NewEntry
<1>3. ASSUME NEW e \in DOMAIN queue, TurnStep(e)
      PROVE  f \in DOMAIN queue /\ (queue'[f] = queue[f] \/ TurnShape(f, queue'[f]))
  <2>1. PICK x \in Entry : TurnShape(e, x)
    BY <1>3, TurnSteps
  <2>2. /\ DOMAIN queue' = DOMAIN queue /\ queue'[e] = x
        /\ \A g \in DOMAIN queue : g # e => queue'[g] = queue[g]
    BY <2>1, Changed DEF TurnShape, TypeOK
  <2> QED
    BY <2>1, <2>2
<1>4. ASSUME NEW r \in Req, Publish(r)
      PROVE  queue'[f].state = "queued" \/ (f \in DOMAIN queue /\ queue'[f] = queue[f])
  BY <1>2, <1>4 DEF Publish
<1>5. ASSUME NEW r \in Req, Aftermath(r)
      PROVE  queue'[f].state = "queued" \/ (f \in DOMAIN queue /\ queue'[f] = queue[f])
  BY <1>2, <1>5 DEF Aftermath
<1> QED
  BY <1>1, <1>3, <1>4, <1>5
  DEF Next, GateStep, vars, Deliver, FirstSee, AppendHistory, Mark, Release, CrashRequest

LEMMA NewerStep ==
  ASSUME TypeOK, Places, Marked, Newer, [Next]_vars
  PROVE  Newer'
<1>1. \A m : NewerQueued(m) \subseteq NewerQueued(m)'
  BY Kept DEF NewerQueued, Supersedable
<1> SUFFICES ASSUME NEW e \in DOMAIN queue', queue'[e].state = "superseded"
             PROVE  (NewerQueued(queue[e].msg) # {})'
  BY DEF Newer
<1>2. CASE e \in DOMAIN queue /\ queue'[e] = queue[e]
  BY <1>1, <1>2 DEF Newer
<1>3. CASE e \in DOMAIN queue /\ TurnShape(e, queue'[e])
  <2>1. queue'[e].msg = queue[e].msg /\ marker > queue[e].msg
    BY <1>3 DEF TurnShape
  <2>2. marker # 0
    BY <1>3, <2>1, Places0 DEF Entry, Msg
  <2>3. NewerQueued(queue[e].msg) # {}
    BY <2>1, <2>2 DEF Marked, NewerQueued
  <2> QED
    BY <1>1, <2>1, <2>3
<1> QED
  BY <1>2, <1>3, EntryStep

LEMMA OrderedStep ==
  ASSUME TypeOK, Places, InHistory, Ordered, InOrder, [Next]_vars
  PROVE  Ordered'
<1>a. /\ pc \in [Req -> Step] /\ history \subseteq Msg /\ history \subseteq history'
      /\ \A r \in Req : r[1] \in Msg
      /\ MaxMsg \in Nat
  BY Requests, Kept, IntakeAssumption DEF TypeOK
<1>b. /\ \A m \in history : \A j \in Msg : j < m => j \in history
      /\ \A r \in Req : pc[r] # "unsent" => \A j \in Msg : j < r[1] => j \in history
      /\ \A e \in DOMAIN queue : queue[e].state \in {"agent", "answered"} =>
           \A j \in Msg : j < queue[e].msg => j \in queue[e].read
  BY DEF Ordered
<1>1. \A e \in DOMAIN queue' : queue'[e].state \in {"agent", "answered"} =>
        \A j \in Msg : j < queue'[e].msg => j \in queue'[e].read
  <2> SUFFICES ASSUME NEW e \in DOMAIN queue', queue'[e].state \in {"agent", "answered"},
                      NEW j \in Msg, j < queue'[e].msg
               PROVE  j \in queue'[e].read
    OBVIOUS
  <2>1. CASE e \in DOMAIN queue /\ queue'[e] = queue[e]
    BY <1>b, <2>1
  <2>2. CASE e \in DOMAIN queue /\ TurnShape(e, queue'[e])
    <3>1. j < queue[e].msg
      BY <2>2 DEF TurnShape
    <3>2. CASE queue'[e].read = history
      BY <1>b, <2>2, <3>1, <3>2 DEF InHistory
    <3>3. CASE queue[e].state = "agent" /\ queue'[e].read = queue[e].read
      BY <1>b, <2>2, <3>1, <3>3
    <3> QED
      BY <2>2, <3>2, <3>3 DEF TurnShape
  <2> QED
    BY <2>1, <2>2, EntryStep
<1>2. \A m \in history' : \A j \in Msg : j < m => j \in history'
  <2> SUFFICES ASSUME NEW m \in history', m \notin history, NEW j \in Msg, j < m
               PROVE  j \in history
    BY <1>a, <1>b
  <2>1. PICK r \in Req : AppendHistory(r)
    BY TurnSteps DEF Next, GateStep, vars, Deliver, FirstSee, Publish, Mark, Aftermath,
                     Release, CrashRequest, TurnShape
  <2>2. pc[r] # "unsent" /\ m = r[1]
    BY <2>1 DEF AppendHistory
  <2> QED
    BY <1>b, <2>2
<1>3. \A r \in Req : pc'[r] # "unsent" => \A j \in Msg : j < r[1] => j \in history'
  <2> SUFFICES ASSUME NEW r \in Req, pc'[r] # "unsent", NEW j \in Msg, j < r[1]
               PROVE  j \in history
    BY <1>a
  <2>1. CASE pc[r] # "unsent"
    BY <1>b, <2>1
  <2>2. CASE pc[r] = "unsent"
    <3>1. PICK m \in Msg : \E k \in 1..MaxTries[m] : Deliver(m, k) /\ r = <<m, k>>
      <4>1. ASSUME NEW t \in Req, GateStep(t) PROVE pc'[r] = pc[r]
        <5>1. PICK s : pc' = [pc EXCEPT ![t] = s]
          BY <4>1 DEF GateStep, FirstSee, AppendHistory, Publish, Mark, Aftermath,
                      Release, CrashRequest, Goto
        <5>2. pc[t] # "unsent"
          BY <4>1 DEF GateStep, FirstSee, AppendHistory, Publish, Mark, Aftermath,
                      Release, CrashRequest
        <5> QED
          BY <1>a, <2>2, <5>1, <5>2
      <4>2. ASSUME NEW e \in DOMAIN queue, TurnStep(e) PROVE pc'[r] = pc[r]
        BY <4>2, TurnSteps DEF TurnShape, gate
      <4>3. ~ UNCHANGED vars
        BY <2>2 DEF vars
      <4>4. PICK m \in Msg : \E k \in 1..MaxTries[m] : Deliver(m, k)
        BY <2>2, <4>1, <4>2, <4>3 DEF Next
      <4>5. PICK k \in 1..MaxTries[m] : Deliver(m, k)
        BY <4>4
      <4>6. pc' = [pc EXCEPT ![<<m, k>>] = "see"]
        BY <4>5 DEF Deliver, Goto
      <4>7. r = <<m, k>>
        BY <1>a, <2>2, <4>6
      <4> QED
        BY <4>5, <4>7
    <3>2. PICK k \in 1..MaxTries[m] : Deliver(m, k) /\ r = <<m, k>>
      BY <3>1
    <3>3. r[1] = m
      BY <3>2
    <3>4. CASE k = 1
      <4>1. m > 1 => m - 1 \in history
        BY <3>2, <3>4 DEF Deliver
      <4>2. m \in Nat /\ j \in Nat /\ j >= 1
        BY <1>a DEF Msg
      <4>3. m - 1 \in history /\ (j < m - 1 \/ j = m - 1)
        BY <3>3, <4>1, <4>2
      <4> QED
        BY <1>b, <4>3
    <3>5. CASE k # 1
      <4>1. k \in Nat /\ k > 1 /\ k - 1 \in 1..MaxTries[m]
        BY <3>5, IntakeAssumption
      <4>2. <<m, k - 1>> \in Req
        BY <4>1, Requests
      <4>3. pc[<<m, k - 1>>] # "unsent"
        BY <3>2, <4>1 DEF Deliver
      <4>4. <<m, k - 1>>[1] = m
        OBVIOUS
      <4> QED
        BY <1>b, <3>3, <4>2, <4>3, <4>4
    <3> QED
      BY <3>4, <3>5
  <2> QED
    BY <2>1, <2>2
<1> QED
  BY <1>1, <1>2, <1>3 DEF Ordered

-----------------------------------------------------------------------------
(* The theorems                                                            *)

LEMMA IInvInit == Init => IInv
<1> SUFFICES ASSUME Init PROVE IInv
  OBVIOUS
<1> USE IntakeAssumption
<1>1. TypeOK
  BY TypeInit
<1>2. DOMAIN queue = {} /\ Len(queue) = 0 /\ history = {} /\ busy = 0 /\ marker = 0
      /\ \A r \in Req : pc[r] = "unsent"
  BY DEF Init
<1>3. Places /\ InHistory /\ Marked /\ Newer
  BY <1>2 DEF Places, InHistory, Marked, Newer
<1>4. \A m : EntriesOf(m) = {} /\ Cardinality(EntriesOf(m)) = 0
  BY <1>2, FS_EmptySet DEF EntriesOf
<1>5. \A m \in Msg : lost[m] = 0
  BY DEF Init
<1>6. Token /\ QueuedOnce
  BY <1>2, <1>4, <1>5 DEF Token, QueuedOnce, Holder, EntriesOf
<1>7. Ordered
  BY <1>2 DEF Ordered
<1> QED
  BY <1>1, <1>3, <1>6, <1>7 DEF IInv

(* Inductive: IInv holds in every state the gateway and the workers reach.  *)
THEOREM Inductive == Spec => []IInv
<1>1. IInv /\ [Next]_vars => IInv'
  <2> SUFFICES ASSUME IInv, [Next]_vars PROVE IInv'
    OBVIOUS
  <2>1. TypeOK' /\ Places' /\ InHistory' /\ Token' /\ QueuedOnce' /\ Marked' /\ Newer'
    BY TypeStep, InHistoryStep, TokenStep, MarkedStep, NewerStep DEF IInv
  <2>2. Ordered'
    BY OrderedStep DEF IInv, Ordered
  <2> QED
    BY <2>1, <2>2 DEF IInv
<1> QED
  BY <1>1, IInvInit, PTL DEF Spec

(* TypeCorrect: the variables keep their types, and an entry is in a turn   *)
(* exactly while it holds the room's lock (worker/pool.ts:48-61).          *)
THEOREM TypeCorrect == Spec => []TypeOK
<1>1. IInv => TypeOK
  BY DEF IInv
<1> QED
  BY <1>1, Inductive, PTL

(* HeardBeforeAnswered: no turn runs for a message that the room's history  *)
(* lacks, whatever failed and was retried on the way (gateway.ts:142-143,  *)
(* handler.ts:190-200).                                                    *)
THEOREM HeardBeforeAnswered == Spec => []HistoryFirst
<1>1. IInv => HistoryFirst
  BY DEF IInv, InHistory, HistoryFirst
<1> QED
  BY <1>1, Inductive, PTL

(* OneEntryEach: racing and repeated webhooks of one message queue it once, *)
(* not counting the XADDs that went through unheard (gateway.ts:137-139,   *)
(* dedupe.ts:3-5).                                                         *)
THEOREM OneEntryEach == Spec => []QueuedOnce
<1>1. IInv => QueuedOnce
  BY DEF IInv
<1> QED
  BY <1>1, Inductive, PTL

(* DroppedIsRead: when the channel delivers in order, a message dropped for *)
(* a newer one is in the history the newer turn answers from, or that turn *)
(* has not answered (burst.ts:22-24).                                      *)
THEOREM DroppedIsRead ==
  ASSUME InOrder
  PROVE  Spec => []SupersededIsRead
<1>1. IInv => SupersededIsRead
  <2> SUFFICES ASSUME IInv, NEW e \in DOMAIN queue, queue[e].state = "superseded"
               PROVE  \E f \in NewerQueued(queue[e].msg) :
                        \/ queue[f].state # "answered"
                        \/ queue[e].msg \in queue[f].read
    BY DEF SupersededIsRead
  <2>1. PICK f \in NewerQueued(queue[e].msg) : TRUE
    BY DEF IInv, Newer
  <2>2. /\ f \in DOMAIN queue /\ queue[e].msg < queue[f].msg
        /\ queue[e].msg \in Msg /\ queue[f].msg \in Msg
    BY Places0 DEF IInv, NewerQueued, Entry, Msg
  <2>3. queue[f].state = "answered" => queue[e].msg \in queue[f].read
    BY <2>2 DEF IInv, Ordered
  <2> QED
    BY <2>3
<1> QED
  BY <1>1, Inductive, PTL
=============================================================================
