------------------------------- MODULE Ingress -------------------------------
(***************************************************************************)
(* The ingress queue and the worker pool of the agent: the Redis stream    *)
(* "dilim:ingress" read through one consumer group (broker/queue.ts), the  *)
(* workers that take one envelope at a time (worker/pool.ts) and the room  *)
(* lock that lives in the memory of each process (worker/lock.ts).         *)
(*                                                                         *)
(* An envelope is its entry id: the XADD order, 1, 2, 3, ...  What a turn  *)
(* does with it is abstracted to what the queue can tell apart: whether an *)
(* answer reached the room, and whether the result was "failed".           *)
(*                                                                         *)
(* Redis (external): the stream, the group's last-delivered id, the        *)
(* pending entries list (PEL) with its delivery counter and its idle time. *)
(* Idle time is one bit, "stale": idle >= RECLAIM_MIN_IDLE_MS.             *)
(***************************************************************************)
EXTENDS Naturals, Sequences, FiniteSets

CONSTANTS
  Proc,            \* processes that run the broker and a worker pool
  Worker,          \* all the worker loops
  ProcOf,          \* [Worker -> Proc]
  Room,            \* conversations
  MaxId,           \* bound: number of envelopes ever published
  RoomOf,          \* [1..MaxId -> Room]: envelope.conversationId
  Garbage,         \* entries whose payload parseEnvelope refuses
  MaxDeliveries,   \* MAX_DELIVERIES (3 in the code)
  StreamMaxLen,    \* STREAM_MAXLEN (100 000 in the code)
  MaxFaults,       \* bound: crashes, shutdowns and Redis errors in the pump
  HeldMayGoStale   \* may a delivery a live process holds reach the idle limit?
                   \* TRUE when WORKER_COUNT turns of TURN_TIMEOUT_MS in one
                   \* room outlast RECLAIM_MIN_IDLE_MS, or a turn overruns

Id == 1..MaxId

ASSUME IngressAssumption ==
  /\ IsFiniteSet(Worker)
  /\ ProcOf \in [Worker -> Proc]
  /\ MaxId \in Nat
  /\ RoomOf \in [Id -> Room]
  /\ Garbage \subseteq Id
  /\ MaxDeliveries \in Nat \ {0}
  /\ StreamMaxLen \in Nat \ {0}
  /\ MaxFaults \in Nat
  /\ HeldMayGoStale \in BOOLEAN

VARIABLES
  posted,      \* id of the newest XADD (0: none yet)
  stream,      \* ids whose entry is in the stream
  delivered,   \* last-delivered-id of the group
  pel,         \* ids in the pending entries list
  deliveries,  \* [Id -> Nat]: the PEL's delivery counter (kept once it left)
  stale,       \* ids of the PEL idle for RECLAIM_MIN_IDLE_MS or longer
  dlq,         \* records <<id, has its payload>> in dilim:ingress:dlq
  evicted,     \* ids the MAXLEN of an XADD has trimmed from the stream
  ask,         \* [Proc -> Nat]: COUNT of the outstanding XREADGROUP, 0 if none
  batch,       \* [Proc -> SUBSET Id]: entries read and not yet handed out
  doomed,      \* [Proc -> SUBSET Id]: scanned, to be dead-lettered
  retry,       \* [Proc -> SUBSET Id]: scanned, to be claimed
  grave,       \* [Proc -> Id or 0]: added to the DLQ, not yet acked
  mode,        \* [Proc -> "up", "draining" or "down"]
  at,          \* [Worker -> where its loop is]
  holds,       \* [Worker -> Id or 0]: the delivery in its hands
  lock,        \* [Proc -> [Room -> Seq(Worker)]]: ConversationLock.chains
  done,        \* ids some turn has ended on without "failed"
  faults       \* faults so far

redis  == <<posted, stream, delivered, pel, deliveries, stale, dlq, evicted>>
pump   == <<ask, batch, doomed, retry, grave>>
pool   == <<mode, at, holds, lock>>
ghosts == <<done>>
vars   == <<redis, pump, pool, ghosts, faults>>

Phase == {"idle", "queued", "turn", "sent", "ok", "failed", "off"}

RedisType ==
  /\ posted \in 0..MaxId
  /\ stream \subseteq Id
  /\ delivered \in 0..MaxId
  /\ pel \subseteq Id
  /\ deliveries \in [Id -> Nat]
  /\ stale \subseteq pel
  /\ dlq \subseteq Id \X BOOLEAN
  /\ evicted \subseteq Id

PumpType ==
  /\ ask \in [Proc -> Nat]
  /\ batch \in [Proc -> SUBSET Id]
  /\ doomed \in [Proc -> SUBSET Id]
  /\ retry \in [Proc -> SUBSET Id]
  /\ grave \in [Proc -> 0..MaxId]

PoolType ==
  /\ mode \in [Proc -> {"up", "draining", "down"}]
  /\ at \in [Worker -> Phase]
  /\ holds \in [Worker -> 0..MaxId]
  /\ lock \in [Proc -> [Room -> Seq(Worker)]]

\* A worker has a delivery in its hands from take() to ack() or retryLater().
HandsType ==
  \A w \in Worker :
    /\ at[w] \in {"idle", "off"} <=> holds[w] = 0
    /\ mode[ProcOf[w]] = "down" => at[w] = "off"

GhostType == done \subseteq Id /\ faults \in 0..MaxFaults

(* TypeOK: the type invariant of the queue, the pump and the pool; a worker *)
(* holds a delivery exactly while it is busy with one (pool.ts:37-81).     *)
TypeOK == RedisType /\ PumpType /\ PoolType /\ HandsType /\ GhostType

Init ==
  /\ posted = 0
  /\ stream = {}
  /\ delivered = 0
  /\ pel = {}
  /\ deliveries = [i \in Id |-> 0]
  /\ stale = {}
  /\ dlq = {}
  /\ evicted = {}
  /\ ask = [p \in Proc |-> 0]
  /\ batch = [p \in Proc |-> {}]
  /\ doomed = [p \in Proc |-> {}]
  /\ retry = [p \in Proc |-> {}]
  /\ grave = [p \in Proc |-> 0]
  /\ mode = [p \in Proc |-> "up"]
  /\ at = [w \in Worker |-> "idle"]
  /\ holds = [w \in Worker |-> 0]
  /\ lock = [p \in Proc |-> [r \in Room |-> << >>]]
  /\ done = {}
  /\ faults = 0

-----------------------------------------------------------------------------
(* Helpers                                                                 *)

\* Entries of the stream the group has not delivered to anybody.
Ready == {i \in stream : i > delivered}

\* What an XADD that trims the entries up to cut leaves in the stream.
Kept(cut) == {i \in stream : i > cut} \cup {posted + 1}

\* The members of S up to top: what a Redis range with a COUNT returns.
UpTo(S, top) == {i \in S : i <= top}

\* top closes a reply of at most n members of S, the oldest first.
Closes(S, top, n) ==
  Cardinality(UpTo(S, top)) = IF Cardinality(S) < n THEN Cardinality(S) ELSE n

\* Mutant of Oldest: the entries of a reply are taken in any order.
AnyOf(S, i) == i \in S

Oldest(S, i) == i \in S /\ \A j \in S : i <= j

WorkersOf(p) == {w \in Worker : ProcOf[w] = p}

\* Workers parked in take(): this.waiters.
Waiters(p) == {w \in WorkersOf(p) : at[w] = "idle"}

\* No iteration of the pump is in the middle of its work.
PumpFree(p) ==
  batch[p] = {} /\ doomed[p] = {} /\ retry[p] = {} /\ grave[p] = 0

\* The head of the pump's loop; a blocked XREADGROUP with nothing to read has
\* timed out (BLOCK_MS) and the loop comes round again.
Polling(p) ==
  /\ mode[p] = "up" /\ PumpFree(p) /\ Waiters(p) # {}
  /\ ask[p] = 0 \/ Ready = {}

\* Deliveries that some live process still has in memory.
Held == UNION {batch[p] : p \in Proc} \cup {holds[w] : w \in Worker}

\* Mutant of Poison: the limit compared with the count of the next delivery.
PoisonEarly(i) == deliveries[i] + 1 >= MaxDeliveries

\* Handed out as often as it may be: to be dead-lettered.
Poison(i) == deliveries[i] >= MaxDeliveries

\* Mutant of Claimable: XCLAIM with a min-idle-time of 0.
ClaimableAnyIdle(p) == retry[p] \cap pel

\* The entries p scanned that are still pending and still idle.
Claimable(p) == retry[p] \cap stale

-----------------------------------------------------------------------------
(* Ingest side: broker.publish, an XADD with an approximate MAXLEN. Redis  *)
(* may trim any number of the oldest entries that leaves StreamMaxLen.     *)
Publish ==
  /\ posted < MaxId
  /\ \E cut \in 0..posted :
       /\ cut = 0 \/ (cut \in stream /\ Cardinality(Kept(cut)) >= StreamMaxLen)
       /\ stream' = Kept(cut)
       /\ evicted' = evicted \cup (stream \ Kept(cut))
  /\ posted' = posted + 1
  /\ UNCHANGED <<delivered, pel, deliveries, stale, dlq, pump, pool, ghosts, faults>>

(* Time passes for a pending entry. A scan lasts milliseconds, so an entry  *)
(* in a scan's hands (retry) does not turn stale again before its XCLAIM.  *)
Age(i) ==
  /\ i \in pel \ stale
  /\ \A p \in Proc : i \notin retry[p]
  /\ HeldMayGoStale \/ i \notin Held
  /\ stale' = stale \cup {i}
  /\ UNCHANGED <<posted, stream, delivered, pel, deliveries, dlq, evicted,
                 pump, pool, ghosts, faults>>

-----------------------------------------------------------------------------
(* The pump: one loop per process, running while some worker waits.        *)

\* readNew: the XREADGROUP leaves with COUNT = the waiters there are now.
PumpRead(p) ==
  /\ Polling(p)
  /\ ask[p] # Cardinality(Waiters(p))
  /\ ask' = [ask EXCEPT ![p] = Cardinality(Waiters(p))]
  /\ UNCHANGED <<redis, batch, doomed, retry, grave, pool, ghosts, faults>>

\* Mutant of ReadReply: XREADGROUP with NOACK, so that nothing becomes pending.
ReadReplyNoAck(p) ==
  /\ ask[p] > 0
  /\ \E top \in Ready :
       /\ Closes(Ready, top, ask[p])
       /\ batch' = [batch EXCEPT ![p] = UpTo(Ready, top)]
       /\ deliveries' = [i \in Id |-> IF i \in UpTo(Ready, top) THEN 1 ELSE deliveries[i]]
       /\ delivered' = top
  /\ ask' = [ask EXCEPT ![p] = 0]
  /\ UNCHANGED <<posted, stream, pel, stale, dlq, evicted, doomed, retry, grave,
                 pool, ghosts, faults>>

\* ... and its reply arrives: the entries enter the PEL with a count of 1.
ReadReply(p) ==
  /\ ask[p] > 0
  /\ \E top \in Ready :
       /\ Closes(Ready, top, ask[p])
       /\ batch' = [batch EXCEPT ![p] = UpTo(Ready, top)]
       /\ pel' = pel \cup UpTo(Ready, top)
       /\ deliveries' = [i \in Id |-> IF i \in UpTo(Ready, top) THEN 1 ELSE deliveries[i]]
       /\ delivered' = top
  /\ ask' = [ask EXCEPT ![p] = 0]
  /\ UNCHANGED <<posted, stream, stale, dlq, evicted, doomed, retry, grave,
                 pool, ghosts, faults>>

\* Mutant of Scan: entries past the limit are skipped, not dead-lettered.
ScanSkipsPoison(p) ==
  /\ Polling(p)
  /\ \E top \in stale :
       /\ Closes(stale, top, Cardinality(Waiters(p)))
       /\ retry' = [retry EXCEPT ![p] = {i \in UpTo(stale, top) : ~Poison(i)}]
  /\ ask' = [ask EXCEPT ![p] = 0]
  /\ UNCHANGED <<redis, batch, doomed, grave, pool, ghosts, faults>>

\* reclaimStale: XPENDING IDLE of at most as many entries as workers wait.
Scan(p) ==
  /\ Polling(p)
  /\ \E top \in stale :
       /\ Closes(stale, top, Cardinality(Waiters(p)))
       /\ doomed' = [doomed EXCEPT ![p] = {i \in UpTo(stale, top) : Poison(i)}]
       /\ retry' = [retry EXCEPT ![p] = {i \in UpTo(stale, top) : ~Poison(i)}]
  /\ ask' = [ask EXCEPT ![p] = 0]
  /\ UNCHANGED <<redis, batch, grave, pool, ghosts, faults>>

\* deadLetterById, deadLetter: XRANGE for the payload, then XADD to the DLQ.
\* An entry that has left the stream meanwhile is recorded with no payload.
DlqAdd(p) ==
  /\ grave[p] = 0
  /\ \E i \in Id :
       /\ Oldest(doomed[p], i)
       /\ dlq' = dlq \cup {<<i, i \in stream>>}
       /\ doomed' = [doomed EXCEPT ![p] = @ \ {i}]
       /\ grave' = [grave EXCEPT ![p] = i]
  /\ UNCHANGED <<posted, stream, delivered, pel, deliveries, stale, evicted,
                 ask, batch, retry, pool, ghosts, faults>>

\* deadLetter, second half: XACK and XDEL.
DlqAck(p) ==
  /\ grave[p] # 0
  /\ pel' = pel \ {grave[p]}
  /\ stale' = stale \ {grave[p]}
  /\ stream' = stream \ {grave[p]}
  /\ grave' = [grave EXCEPT ![p] = 0]
  /\ UNCHANGED <<posted, delivered, deliveries, dlq, evicted, ask, batch,
                 doomed, retry, pool, ghosts, faults>>

\* XCLAIM: only entries still pending and still idle change hands; Redis
\* forgets those whose body was trimmed.
Claim(p) ==
  /\ doomed[p] = {} /\ grave[p] = 0 /\ retry[p] # {}
  /\ LET won == Claimable(p) IN
       /\ pel' = pel \ (won \ stream)
       /\ stale' = stale \ won
       /\ deliveries' = [i \in Id |-> IF i \in won \cap stream
                                      THEN deliveries[i] + 1 ELSE deliveries[i]]
       /\ batch' = [batch EXCEPT ![p] = won \cap stream]
  /\ retry' = [retry EXCEPT ![p] = {}]
  /\ UNCHANGED <<posted, stream, delivered, dlq, evicted, ask, doomed, grave,
                 pool, ghosts, faults>>

\* deliver: the oldest entry of the batch goes to a waiting worker, which
\* joins the chain of the entry's room before it runs anything else.
Deliver(p, w) ==
  /\ grave[p] = 0
  /\ w \in Waiters(p)
  /\ \E i \in Id \ Garbage :
       /\ Oldest(batch[p], i)
       /\ batch' = [batch EXCEPT ![p] = @ \ {i}]
       /\ at' = [at EXCEPT ![w] = "queued"]
       /\ holds' = [holds EXCEPT ![w] = i]
       /\ lock' = [lock EXCEPT ![p][RoomOf[i]] = Append(@, w)]
  /\ UNCHANGED <<redis, ask, doomed, retry, grave, mode, ghosts, faults>>

\* deliver, with every waiter gone (shutdown): the entry is buffered for a
\* take() that will not come, and stays in the PEL.
Shelve(p) ==
  /\ grave[p] = 0 /\ Waiters(p) = {}
  /\ \E i \in Id \ Garbage :
       /\ Oldest(batch[p], i)
       /\ batch' = [batch EXCEPT ![p] = @ \ {i}]
  /\ UNCHANGED <<redis, ask, doomed, retry, grave, pool, ghosts, faults>>

\* deliver, with a payload parseEnvelope refuses: straight to the DLQ, with
\* the payload the read returned.
DeliverGarbage(p) ==
  /\ grave[p] = 0
  /\ \E i \in Garbage :
       /\ Oldest(batch[p], i)
       /\ dlq' = dlq \cup {<<i, TRUE>>}
       /\ batch' = [batch EXCEPT ![p] = @ \ {i}]
       /\ grave' = [grave EXCEPT ![p] = i]
  /\ UNCHANGED <<posted, stream, delivered, pel, deliveries, stale, evicted,
                 ask, doomed, retry, pool, ghosts, faults>>

\* A Redis command of the pump throws, or its reply is lost: the iteration is
\* abandoned with whatever it had in memory. The XACK of a dead-lettered entry
\* may have gone through with its XDEL still to come.
PumpFails(p) ==
  /\ faults < MaxFaults
  /\ mode[p] # "down"
  /\ ~PumpFree(p)
  /\ \/ UNCHANGED <<pel, stale>>
     \/ /\ grave[p] # 0
        /\ pel' = pel \ {grave[p]}
        /\ stale' = stale \ {grave[p]}
  /\ batch' = [batch EXCEPT ![p] = {}]
  /\ doomed' = [doomed EXCEPT ![p] = {}]
  /\ retry' = [retry EXCEPT ![p] = {}]
  /\ grave' = [grave EXCEPT ![p] = 0]
  /\ faults' = faults + 1
  /\ UNCHANGED <<posted, stream, delivered, deliveries, dlq, evicted, ask,
                 pool, ghosts>>

-----------------------------------------------------------------------------
(* A worker: take -> lock.run(turn) -> ack or retryLater -> take.          *)

\* Mutant of StartTurn: the turn does not wait for its place in the chain.
StartTurnUnlocked(w) ==
  /\ at[w] = "queued"
  /\ at' = [at EXCEPT ![w] = "turn"]
  /\ UNCHANGED <<redis, pump, mode, holds, lock, ghosts, faults>>

\* The worker's place in the chain of its room is the first: its turn starts.
StartTurn(w) ==
  /\ at[w] = "queued"
  /\ Head(lock[ProcOf[w]][RoomOf[holds[w]]]) = w
  /\ at' = [at EXCEPT ![w] = "turn"]
  /\ UNCHANGED <<redis, pump, mode, holds, lock, ghosts, faults>>

\* handleEnvelope has broadcast an answer (a reply, a flash reply, a notice).
Answer(w) ==
  /\ at[w] = "turn"
  /\ at' = [at EXCEPT ![w] = "sent"]
  /\ UNCHANGED <<redis, pump, mode, holds, lock, done, faults>>

\* The turn's promise settles and the room's chain moves on. A turn may end
\* well with no answer (superseded, ignored, suspended), and may fail after
\* one (a media send that throws once the text is out).
EndTurn(w) ==
  /\ at[w] \in {"turn", "sent"}
  /\ \/ at' = [at EXCEPT ![w] = "ok"] /\ done' = done \cup {holds[w]}
     \/ at' = [at EXCEPT ![w] = "failed"] /\ UNCHANGED done
  /\ lock' = [lock EXCEPT ![ProcOf[w]][RoomOf[holds[w]]] = Tail(@)]
  /\ UNCHANGED <<redis, pump, mode, holds, faults>>

\* Mutant of Loop: the worker keeps the delivery it has settled.
LoopKeepsDelivery(w) ==
  /\ at' = [at EXCEPT ![w] = IF mode[ProcOf[w]] = "up" THEN "idle" ELSE "off"]
  /\ UNCHANGED holds

\* After an ack or a retryLater the loop takes again, unless shutdown came.
Loop(w) ==
  /\ at' = [at EXCEPT ![w] = IF mode[ProcOf[w]] = "up" THEN "idle" ELSE "off"]
  /\ holds' = [holds EXCEPT ![w] = 0]

\* delivery.ack(): XACK, then XDEL. Either may fail; the error is swallowed.
Ack(w) ==
  /\ at[w] = "ok"
  /\ \/ UNCHANGED <<pel, stale, stream>>
     \/ /\ pel' = pel \ {holds[w]}
        /\ stale' = stale \ {holds[w]}
        /\ stream' \in {stream, stream \ {holds[w]}}
  /\ Loop(w)
  /\ UNCHANGED <<posted, delivered, deliveries, dlq, evicted, pump, mode, lock,
                 ghosts, faults>>

\* Mutant of RetryLater: a failed turn is acknowledged like any other.
RetryLaterAcks(w) ==
  /\ at[w] = "failed"
  /\ pel' = pel \ {holds[w]}
  /\ stale' = stale \ {holds[w]}
  /\ stream' = stream \ {holds[w]}
  /\ Loop(w)
  /\ UNCHANGED <<posted, delivered, deliveries, dlq, evicted, pump, mode, lock,
                 ghosts, faults>>

\* delivery.retryLater(): the entry stays in the PEL for a later scan.
RetryLater(w) ==
  /\ at[w] = "failed"
  /\ Loop(w)
  /\ UNCHANGED <<redis, pump, mode, lock, ghosts, faults>>

-----------------------------------------------------------------------------
(* Processes stop, crash and come back.                                    *)

\* workers.stop(): the signal aborts every take(); turns run to their end.
Shutdown(p) ==
  /\ faults < MaxFaults
  /\ mode[p] = "up"
  /\ mode' = [mode EXCEPT ![p] = "draining"]
  /\ at' = [w \in Worker |-> IF w \in Waiters(p) THEN "off" ELSE at[w]]
  /\ faults' = faults + 1
  /\ UNCHANGED <<redis, pump, holds, lock, ghosts>>

\* The process is gone with its memory: pump, chains, deliveries in hand.
Vanish(p) ==
  /\ mode' = [mode EXCEPT ![p] = "down"]
  /\ at' = [w \in Worker |-> IF ProcOf[w] = p THEN "off" ELSE at[w]]
  /\ holds' = [w \in Worker |-> IF ProcOf[w] = p THEN 0 ELSE holds[w]]
  /\ lock' = [lock EXCEPT ![p] = [r \in Room |-> << >>]]
  /\ ask' = [ask EXCEPT ![p] = 0]
  /\ batch' = [batch EXCEPT ![p] = {}]
  /\ doomed' = [doomed EXCEPT ![p] = {}]
  /\ retry' = [retry EXCEPT ![p] = {}]
  /\ grave' = [grave EXCEPT ![p] = 0]
  /\ UNCHANGED <<redis, ghosts>>

\* Every worker loop has ended: the process closes Redis and exits.
Exit(p) ==
  /\ mode[p] = "draining"
  /\ \A w \in WorkersOf(p) : at[w] = "off"
  /\ Vanish(p)
  /\ UNCHANGED faults

Crash(p) ==
  /\ faults < MaxFaults
  /\ mode[p] # "down"
  /\ Vanish(p)
  /\ faults' = faults + 1

Restart(p) ==
  /\ mode[p] = "down"
  /\ mode' = [mode EXCEPT ![p] = "up"]
  /\ at' = [w \in Worker |-> IF ProcOf[w] = p THEN "idle" ELSE at[w]]
  /\ UNCHANGED <<redis, pump, holds, lock, ghosts, faults>>

-----------------------------------------------------------------------------
PumpStep(p) ==
  \/ PumpRead(p) \/ ReadReply(p) \/ Scan(p) \/ DlqAdd(p) \/ DlqAck(p)
  \/ Claim(p) \/ Shelve(p) \/ DeliverGarbage(p)
  \/ \E w \in WorkersOf(p) : Deliver(p, w)

WorkerStep(w) ==
  StartTurn(w) \/ Answer(w) \/ EndTurn(w) \/ Ack(w) \/ RetryLater(w)

Next ==
  \/ Publish
  \/ \E i \in Id : Age(i)
  \/ \E p \in Proc : PumpStep(p) \/ PumpFails(p) \/ Shutdown(p) \/ Exit(p)
                       \/ Crash(p) \/ Restart(p)
  \/ \E w \in Worker : WorkerStep(w)

Spec == Init /\ [][Next]_vars

(***************************************************************************)
(* Fairness. Time passes; a turn ends (turnSignal bounds it); a process    *)
(* that is down is restarted by its supervisor; the pump's loop never      *)
(* stops while a worker waits. A scan is due every RECLAIM_INTERVAL_MS and  *)
(* comes before the read in the loop, so it is not starved by new entries. *)
(***************************************************************************)
FairSpec ==
  /\ Spec
  /\ \A i \in Id : WF_vars(Age(i))
  /\ \A p \in Proc : /\ WF_vars(PumpStep(p)) /\ WF_vars(Scan(p))
                     /\ WF_vars(Exit(p)) /\ WF_vars(Restart(p))
  /\ \A w \in Worker : WF_vars(WorkerStep(w))

-----------------------------------------------------------------------------
(* Properties                                                              *)

\* An entry a turn has finished, that the DLQ holds with its payload, or that
\* the stream's MAXLEN trimmed: the ways an envelope may leave the queue.
Accounted(i) == i \in done \/ <<i, TRUE>> \in dlq \/ i \in evicted

\* Still to be read, or pending with its payload in the stream.
Recoverable(i) == i \in stream /\ (i > delivered \/ i \in pel)

(* NoSilentLoss: whatever process dies or whatever Redis command fails, and *)
(* between whichever two of them, a published envelope can still be read,  *)
(* or is accounted for (queue.ts:4-6, 231: ack after the work, DLQ record  *)
(* before the ack).                                                        *)
NoSilentLoss == \A i \in 1..posted : Recoverable(i) \/ Accounted(i)

(* DeliveryBound: a poison envelope is handed out at most MAX_DELIVERIES    *)
(* times, however many processes scan the same PEL at once (queue.ts:36).  *)
DeliveryBound == \A i \in Id : deliveries[i] <= MaxDeliveries

(* ImplementsAtLeastOnce: towards ingest and workers the stream, its PEL and *)
(* the DLQ are the queue of AtLeastOnce. An envelope leaves it only once it *)
(* is settled (queue.ts:4-6, 177-180, 231).                                *)
Queue == INSTANCE AtLeastOnce WITH
  MaxAttempts <- MaxDeliveries,
  posted      <- 1..posted,
  open        <- Ready \cup pel,
  attempts    <- deliveries,
  dead        <- {i \in Id : <<i, TRUE>> \in dlq}
ImplementsAtLeastOnce == Queue!Spec

(* OneTurnPerRoom: within one process, two turns never run at once in the   *)
(* same room, redelivered copies included (lock.ts:1-2).                   *)
OneTurnPerRoom ==
  \A v, w \in Worker :
    /\ v # w
    /\ ProcOf[v] = ProcOf[w]
    /\ {at[v], at[w]} \subseteq {"turn", "sent"}
    => RoomOf[holds[v]] # RoomOf[holds[w]]

(* RoomFifo: in one process the envelopes of a room wait for the room's lock *)
(* in the order they were published, redeliveries aside (lock.ts:1, the     *)
(* order-lock of docs/architecture/05-message-lifecycle.md step 5).         *)
RoomFifo ==
  \A p \in Proc, r \in Room :
    LET id(n) == holds[lock[p][r][n]] IN
    \A m, n \in DOMAIN lock[p][r] :
      (m < n /\ deliveries[id(m)] = 1 /\ deliveries[id(n)] = 1) => id(m) < id(n)

(* OnlyPoisonIsBuried: an envelope the DLQ holds was handed out              *)
(* MAX_DELIVERIES times, or could not be parsed (queue.ts:5-6).             *)
OnlyPoisonIsBuried ==
  \A rec \in dlq : deliveries[rec[1]] = MaxDeliveries \/ rec[1] \in Garbage

\* The envelope is neither waiting to be read nor pending.
Left(i) == i \notin pel /\ i \notin Ready

(* EveryEnvelopeSettles: once faults stop, a published envelope leaves the  *)
(* queue for good, finished, buried or trimmed; it neither stays in the PEL *)
(* nor goes round for ever (queue.ts:4-6).                                 *)
EveryEnvelopeSettles ==
  \A i \in Id : (i <= posted) ~> [](Left(i) /\ Accounted(i))

=============================================================================
