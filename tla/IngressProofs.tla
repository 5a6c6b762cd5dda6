---------------------------- MODULE IngressProofs ----------------------------
(***************************************************************************)
(* Theorems about Ingress, for every set of processes, workers and rooms,  *)
(* every bound and every number of faults.                                 *)
(*                                                                         *)
(* One inductive invariant, IInv, carries them all. It is the conjunction  *)
(* of the type invariant, the properties themselves and the parts that the *)
(* properties lean on: Bounded, Custody, Chains, Members, HandedOut and    *)
(* Order. The refinement of AtLeastOnce needs the same invariant.          *)
(***************************************************************************)
EXTENDS Ingress, FiniteSetTheorems, TLAPS

\* The entries the group has delivered to somebody.
Seen == 1..delivered

\* The stream holds published entries; nobody knows of an entry that the
\* group has not delivered.
Bounded ==
  /\ delivered <= posted
  /\ stream \subseteq 1..posted
  /\ pel \subseteq Seen
  /\ \A rec \in dlq : rec[1] \in Seen
  /\ \A p \in Proc : /\ batch[p] \subseteq Seen
                     /\ doomed[p] \subseteq Seen
                     /\ retry[p] \subseteq Seen
                     /\ grave[p] \in Seen \cup {0}
  /\ \A w \in Worker : holds[w] \in Seen \cup {0}

\* What is about to be acked is accounted for.
Custody ==
  /\ \A p \in Proc : grave[p] # 0 => Accounted(grave[p])
  /\ \A w \in Worker : at[w] = "ok" => holds[w] \in done

\* The chain of the room of the envelope w has in its hands.
ChainOf(w) == lock[ProcOf[w]][RoomOf[holds[w]]]

\* A worker between its delivery and the end of its turn is in the chain of
\* its room, and at its head while the turn runs.
Chains ==
  \A w \in Worker :
    /\ at[w] \in {"queued", "turn", "sent"} =>
         \E n \in 1..Len(ChainOf(w)) : ChainOf(w)[n] = w
    /\ at[w] \in {"turn", "sent"} => Head(ChainOf(w)) = w

\* What the pump plans to do with an entry agrees with the entry's count.
Counters ==
  /\ DeliveryBound
  /\ \A p \in Proc : \A i \in retry[p] \cap stale : deliveries[i] < MaxDeliveries
  /\ \A p \in Proc : \A i \in doomed[p] : deliveries[i] = MaxDeliveries
  /\ OnlyPoisonIsBuried

\* Whoever is in a chain waits or runs there, for that room, and once.
Members ==
  \A p \in Proc, r \in Room :
    /\ \A n \in 1..Len(lock[p][r]) :
         /\ at[lock[p][r][n]] \in {"queued", "turn", "sent"}
         /\ ProcOf[lock[p][r][n]] = p
         /\ RoomOf[holds[lock[p][r][n]]] = r
    /\ \A m, n \in 1..Len(lock[p][r]) : m # n => lock[p][r][m] # lock[p][r][n]

\* The delivery counter: 0 before an entry is read, 1 or more from then on
\* for an entry that is pending or in somebody's memory.
HandedOut ==
  /\ \A i \in Id \ Seen : deliveries[i] = 0
  /\ \A i \in pel : deliveries[i] > 0
  /\ \A p \in Proc : \A i \in batch[p] : deliveries[i] > 0
  /\ \A w \in Worker : holds[w] # 0 => deliveries[holds[w]] > 0

\* An entry read for the first time and not yet handed out is younger than
\* the first deliveries that wait in the chains of its process.
Order ==
  \A p \in Proc, r \in Room :
    \A n \in 1..Len(lock[p][r]), i \in batch[p] :
      deliveries[holds[lock[p][r][n]]] = 1 /\ deliveries[i] = 1
        => holds[lock[p][r][n]] < i

IInv ==
  /\ TypeOK
  /\ Bounded /\ NoSilentLoss /\ Custody /\ Counters
  /\ Chains /\ Members /\ HandedOut /\ Order /\ RoomFifo

-----------------------------------------------------------------------------
(* Types                                                                   *)

LEMMA WaitersCount == \A p : Cardinality(Waiters(p)) \in Nat
<1>1. IsFiniteSet(Worker)
  BY IngressAssumption
<1> TAKE p
<1>2. Waiters(p) \subseteq Worker
  BY DEF Waiters, WorkersOf
<1> QED
  BY <1>1, <1>2, FS_Subset, FS_CardinalityType

\* The chain moves on when its head leaves.
LEMMA TailType ==
  ASSUME NEW S, NEW s \in Seq(S), NEW n \in 1..Len(s)
  PROVE  /\ s # << >>
         /\ Tail(s) \in Seq(S)
         /\ Len(Tail(s)) = Len(s) - 1
         /\ \A m \in 1..Len(Tail(s)) : Tail(s)[m] = s[m + 1]
  OBVIOUS

LEMMA TypeInit == Init => TypeOK
<1> SUFFICES ASSUME Init PROVE TypeOK
  OBVIOUS
<1> QED
  BY IngressAssumption DEF Init, TypeOK, RedisType, PumpType, PoolType, HandsType,
                           GhostType, Id, Phase

-----------------------------------------------------------------------------
(* Types, one group of variables at a time                                 *)

LEMMA RedisTypeStep ==
  ASSUME RedisType, PumpType, PoolType, HandsType, [Next]_vars
  PROVE  RedisType'
<1> USE IngressAssumption DEF RedisType, Id
<1>1. CASE Publish
  <2>1. posted + 1 \in Id /\ posted' = posted + 1
    BY <1>1 DEF Publish
  <2>2. PICK cut \in 0..posted :
           stream' = Kept(cut) /\ evicted' = evicted \cup (stream \ Kept(cut))
    BY <1>1 DEF Publish
  <2>3. stream' \subseteq Id /\ evicted' \subseteq Id
    BY <2>1, <2>2 DEF Kept
  <2> QED
    BY <1>1, <2>1, <2>3 DEF Publish
<1>2. ASSUME NEW i \in Id, Age(i) PROVE RedisType'
  BY <1>2 DEF Age
<1>3. ASSUME NEW p \in Proc, ReadReply(p) PROVE RedisType'
  <2>1. PICK top \in Ready :
           /\ pel' = pel \cup UpTo(Ready, top)
           /\ deliveries' = [i \in Id |-> IF i \in UpTo(Ready, top) THEN 1 ELSE deliveries[i]]
           /\ delivered' = top
    BY <1>3 DEF ReadReply
  <2>2. UpTo(Ready, top) \subseteq Id /\ top \in Id
    BY DEF UpTo, Ready
  <2>3. deliveries' \in [Id -> Nat]
    BY <2>1
  <2>4. UNCHANGED <<posted, stream, stale, dlq, evicted>>
    BY <1>3 DEF ReadReply
  <2>5. pel' \subseteq Id /\ stale' \subseteq pel'
    BY <2>1, <2>2, <2>4
  <2>6. delivered' \in 0..MaxId
    BY <2>1, <2>2
  <2> QED
    BY <2>3, <2>4, <2>5, <2>6
<1>4. ASSUME NEW p \in Proc, DlqAdd(p) PROVE RedisType'
  <2>1. PICK i \in Id : dlq' = dlq \cup {<<i, i \in stream>>}
    BY <1>4 DEF DlqAdd
  <2>2. <<i, i \in stream>> \in Id \X BOOLEAN
    <3>1. \A b \in BOOLEAN : <<i, b>> \in Id \X BOOLEAN
      OBVIOUS
    <3>2. (i \in stream) \in BOOLEAN
      OBVIOUS
    <3> QED
      BY <3>1, <3>2, Zenon
  <2>3. dlq' \subseteq Id \X BOOLEAN
    BY <2>1, <2>2
  <2> QED
    BY <1>4, <2>3 DEF DlqAdd
<1>5. ASSUME NEW p \in Proc, DlqAck(p) PROVE RedisType'
  BY <1>5 DEF DlqAck
<1>6. ASSUME NEW p \in Proc, Claim(p) PROVE RedisType'
  <2>1. deliveries' \in [Id -> Nat]
    BY <1>6 DEF Claim
  <2>2. pel' \subseteq Id /\ stale' \subseteq pel'
    BY <1>6 DEF Claim
  <2> QED
    BY <1>6, <2>1, <2>2 DEF Claim
<1>7. ASSUME NEW p \in Proc, DeliverGarbage(p) PROVE RedisType'
  <2>1. PICK i \in Garbage : dlq' = dlq \cup {<<i, TRUE>>}
    BY <1>7 DEF DeliverGarbage
  <2>2. <<i, TRUE>> \in Id \X BOOLEAN
    OBVIOUS
  <2>3. dlq' \subseteq Id \X BOOLEAN
    BY <2>1, <2>2
  <2> QED
    BY <1>7, <2>3 DEF DeliverGarbage
<1>8. ASSUME NEW p \in Proc, PumpFails(p) PROVE RedisType'
  BY <1>8 DEF PumpFails
<1>9. ASSUME NEW w \in Worker, Ack(w) PROVE RedisType'
  BY <1>9 DEF Ack
<1>10. CASE UNCHANGED redis
  BY <1>10 DEF redis
<1> QED
  BY <1>1, <1>2, <1>3, <1>4, <1>5, <1>6, <1>7, <1>8, <1>9, <1>10
  DEF Next, vars, PumpStep, WorkerStep, WorkersOf, PumpRead, Scan, Deliver,
      Shelve, StartTurn, Answer, EndTurn, RetryLater, Shutdown, Vanish, Exit,
      Crash, Restart

LEMMA PumpTypeStep ==
  ASSUME RedisType, PumpType, [Next]_vars
  PROVE  PumpType'
<1> USE IngressAssumption DEF PumpType, Id
<1>1. ASSUME NEW p \in Proc, PumpRead(p) PROVE PumpType'
  BY <1>1, WaitersCount DEF PumpRead
<1>2. ASSUME NEW p \in Proc, ReadReply(p) PROVE PumpType'
  <2>1. \A top : UpTo(Ready, top) \in SUBSET Id
    BY DEF UpTo, Ready, RedisType
  <2> QED
    BY <1>2, <2>1 DEF ReadReply
<1>3. ASSUME NEW p \in Proc, Scan(p) PROVE PumpType'
  <2>1. PICK top \in stale :
           /\ doomed' = [doomed EXCEPT ![p] = {i \in UpTo(stale, top) : Poison(i)}]
           /\ retry' = [retry EXCEPT ![p] = {i \in UpTo(stale, top) : ~Poison(i)}]
    BY <1>3 DEF Scan
  <2>2. UpTo(stale, top) \subseteq Id
    BY DEF UpTo, RedisType
  <2> QED
    BY <1>3, <2>1, <2>2 DEF Scan
<1>4. ASSUME NEW p \in Proc, DlqAdd(p) PROVE PumpType'
  BY <1>4 DEF DlqAdd
<1>5. ASSUME NEW p \in Proc, DlqAck(p) PROVE PumpType'
  BY <1>5 DEF DlqAck
<1>6. ASSUME NEW p \in Proc, Claim(p) PROVE PumpType'
  BY <1>6 DEF Claim, Claimable, RedisType
<1>7. ASSUME NEW p \in Proc, NEW w \in Worker, Deliver(p, w) PROVE PumpType'
  BY <1>7 DEF Deliver
<1>8. ASSUME NEW p \in Proc, Shelve(p) PROVE PumpType'
  BY <1>8 DEF Shelve
<1>9. ASSUME NEW p \in Proc, DeliverGarbage(p) PROVE PumpType'
  BY <1>9 DEF DeliverGarbage
<1>10. ASSUME NEW p \in Proc, PumpFails(p) PROVE PumpType'
  BY <1>10 DEF PumpFails
<1>11. ASSUME NEW p \in Proc, Vanish(p) PROVE PumpType'
  BY <1>11 DEF Vanish
<1>12. CASE UNCHANGED pump
  BY <1>12 DEF pump
<1> QED
  BY <1>1, <1>2, <1>3, <1>4, <1>5, <1>6, <1>7, <1>8, <1>9, <1>10, <1>11, <1>12
  DEF Next, vars, PumpStep, WorkerStep, WorkersOf, Publish, Age, StartTurn,
      Answer, EndTurn, Ack, RetryLater, Shutdown, Exit, Crash, Restart

\* What a worker that is busy has in its hands, and where it queues.
LEMMA Busy ==
  ASSUME PoolType, HandsType, NEW w \in Worker, at[w] \notin {"idle", "off"}
  PROVE  /\ holds[w] \in Id
         /\ ProcOf[w] \in Proc
         /\ RoomOf[holds[w]] \in Room
         /\ ChainOf(w) \in Seq(Worker)
<1>1. holds[w] \in 0..MaxId /\ holds[w] # 0
  BY DEF PoolType, HandsType
<1>2. holds[w] \in Id
  BY <1>1, IngressAssumption DEF Id
<1>3. ProcOf[w] \in Proc /\ RoomOf[holds[w]] \in Room
  BY <1>2, IngressAssumption
<1> QED
  BY <1>2, <1>3 DEF PoolType, ChainOf

\* Chains is needed where a chain loses its head.
LEMMA PoolTypeStep ==
  ASSUME PumpType, PoolType, HandsType, Chains, [Next]_vars
  PROVE  PoolType'
<1> USE IngressAssumption DEF PoolType, Phase, Id
<1>1. ASSUME NEW p \in Proc, NEW w \in Worker, Deliver(p, w) PROVE PoolType'
  <2>1. PICK i \in Id : /\ at' = [at EXCEPT ![w] = "queued"]
                        /\ holds' = [holds EXCEPT ![w] = i]
                        /\ lock' = [lock EXCEPT ![p][RoomOf[i]] = Append(@, w)]
                        /\ UNCHANGED mode
    BY <1>1 DEF Deliver
  <2>2. lock[p][RoomOf[i]] \in Seq(Worker)
    OBVIOUS
  <2>3. Append(lock[p][RoomOf[i]], w) \in Seq(Worker)
    BY <2>2
  <2>4. lock' \in [Proc -> [Room -> Seq(Worker)]]
    BY <2>1, <2>3
  <2> QED
    BY <2>1, <2>4
<1>2. ASSUME NEW w \in Worker, StartTurn(w) PROVE PoolType'
  BY <1>2 DEF StartTurn
<1>3. ASSUME NEW w \in Worker, Answer(w) PROVE PoolType'
  BY <1>3 DEF Answer
<1>4. ASSUME NEW w \in Worker, EndTurn(w) PROVE PoolType'
  <2>1. ChainOf(w) \in Seq(Worker) /\ holds[w] \in Id
    BY <1>4, Busy DEF EndTurn
  <2>2. Tail(ChainOf(w)) \in Seq(Worker)
    BY <1>4, <2>1, TailType DEF EndTurn, Chains
  <2>3. lock' \in [Proc -> [Room -> Seq(Worker)]]
    BY <1>4, <2>2 DEF EndTurn, ChainOf
  <2> QED
    BY <1>4, <2>3 DEF EndTurn
<1>5. ASSUME NEW w \in Worker, Loop(w), UNCHANGED <<mode, lock>> PROVE PoolType'
  BY <1>5 DEF Loop
<1>6. ASSUME NEW p \in Proc, Shutdown(p) PROVE PoolType'
  BY <1>6 DEF Shutdown
<1>7. ASSUME NEW p \in Proc, Vanish(p) PROVE PoolType'
  BY <1>7 DEF Vanish
<1>8. ASSUME NEW p \in Proc, Restart(p) PROVE PoolType'
  BY <1>8 DEF Restart
<1>9. CASE UNCHANGED pool
  BY <1>9 DEF pool
<1> QED
  BY <1>1, <1>2, <1>3, <1>4, <1>5, <1>6, <1>7, <1>8, <1>9
  DEF Next, vars, PumpStep, WorkerStep, WorkersOf, Publish, Age, PumpRead,
      ReadReply, Scan, DlqAdd, DlqAck, Claim, Shelve, DeliverGarbage, PumpFails,
      Ack, RetryLater, Exit, Crash

LEMMA HandsTypeStep ==
  ASSUME PumpType, PoolType, HandsType, [Next]_vars
  PROVE  HandsType'
<1> USE IngressAssumption DEF PoolType, HandsType, Phase, Id
<1>1. ASSUME NEW p \in Proc, NEW w \in Worker, Deliver(p, w) PROVE HandsType'
  BY <1>1 DEF Deliver, Waiters
<1>2. ASSUME NEW w \in Worker, StartTurn(w) PROVE HandsType'
  BY <1>2 DEF StartTurn
<1>3. ASSUME NEW w \in Worker, Answer(w) PROVE HandsType'
  BY <1>3 DEF Answer
<1>4. ASSUME NEW w \in Worker, EndTurn(w) PROVE HandsType'
  BY <1>4 DEF EndTurn
<1>5. ASSUME NEW w \in Worker, Loop(w), UNCHANGED mode PROVE HandsType'
  BY <1>5 DEF Loop
<1>6. ASSUME NEW p \in Proc, Shutdown(p) PROVE HandsType'
  BY <1>6 DEF Shutdown, Waiters
<1>7. ASSUME NEW p \in Proc, Vanish(p) PROVE HandsType'
  BY <1>7 DEF Vanish
<1>8. ASSUME NEW p \in Proc, Restart(p) PROVE HandsType'
  BY <1>8 DEF Restart
<1>9. CASE UNCHANGED pool
  BY <1>9 DEF pool
<1> QED
  BY <1>1, <1>2, <1>3, <1>4, <1>5, <1>6, <1>7, <1>8, <1>9
  DEF Next, vars, PumpStep, WorkerStep, WorkersOf, Publish, Age, PumpRead,
      ReadReply, Scan, DlqAdd, DlqAck, Claim, Shelve, DeliverGarbage, PumpFails,
      Ack, RetryLater, Exit, Crash

LEMMA GhostTypeStep ==
  ASSUME PoolType, HandsType, GhostType, [Next]_vars
  PROVE  GhostType'
<1> USE IngressAssumption DEF GhostType, Id
<1>1. ASSUME NEW w \in Worker, Answer(w) PROVE GhostType'
  BY <1>1, Busy DEF Answer
<1>2. ASSUME NEW w \in Worker, EndTurn(w) PROVE GhostType'
  BY <1>2, Busy DEF EndTurn
<1>3. CASE UNCHANGED ghosts /\ faults' \in {faults, faults + 1} /\ (faults' # faults => faults < MaxFaults)
  BY <1>3 DEF ghosts
<1> QED
  BY <1>1, <1>2, <1>3
  DEF Next, vars, PumpStep, WorkerStep, WorkersOf, Publish, Age, PumpRead,
      ReadReply, Scan, DlqAdd, DlqAck, Claim, Deliver, Shelve, DeliverGarbage,
      PumpFails, StartTurn, Ack, RetryLater, Shutdown, Vanish, Exit, Crash, Restart

LEMMA TypeStep ==
  ASSUME TypeOK, Chains, [Next]_vars
  PROVE  TypeOK'
BY RedisTypeStep, PumpTypeStep, PoolTypeStep, HandsTypeStep, GhostTypeStep DEF TypeOK

-----------------------------------------------------------------------------
(* Who knows of which entries                                              *)

LEMMA BoundedStep ==
  ASSUME TypeOK, Bounded, [Next]_vars
  PROVE  Bounded'
<1> USE DEF Bounded
<1>a. /\ batch \in [Proc -> SUBSET Id]
      /\ doomed \in [Proc -> SUBSET Id]
      /\ retry \in [Proc -> SUBSET Id]
      /\ grave \in [Proc -> 0..MaxId]
      /\ holds \in [Worker -> 0..MaxId]
  BY DEF TypeOK, PumpType, PoolType
<1>b. posted \in Nat /\ delivered \in Nat
  BY IngressAssumption DEF TypeOK, RedisType
<1>1. CASE Publish
  <2>1. posted' = posted + 1 /\ UNCHANGED <<delivered, pel, dlq, pump, pool>>
    BY <1>1 DEF Publish
  <2>2. PICK cut \in 0..posted : stream' = Kept(cut)
    BY <1>1 DEF Publish
  <2>3. stream' \subseteq 1..posted'
    <3>1. 1..posted \subseteq 1..(posted + 1) /\ posted + 1 \in 1..(posted + 1)
      BY <1>b
    <3>2. Kept(cut) \subseteq 1..(posted + 1)
      BY <3>1 DEF Kept
    <3> QED
      BY <2>1, <2>2, <3>2
  <2>4. delivered' <= posted' /\ Seen' = Seen
    BY <1>b, <2>1 DEF Seen
  <2> QED
    BY <2>1, <2>3, <2>4 DEF pump, pool
<1>2. ASSUME NEW p \in Proc, ReadReply(p) PROVE Bounded'
  <2>1. PICK top \in Ready :
           /\ batch' = [batch EXCEPT ![p] = UpTo(Ready, top)]
           /\ pel' = pel \cup UpTo(Ready, top)
           /\ delivered' = top
    BY <1>2 DEF ReadReply
  <2>2. top \in 1..posted /\ delivered < top
    BY DEF Ready
  <2>3. UNCHANGED <<posted, stream, dlq, doomed, retry, grave, holds>>
    BY <1>2 DEF ReadReply, pool
  <2>4. Seen \subseteq Seen'
    BY <1>b, <2>1, <2>2 DEF Seen
  <2>5. UpTo(Ready, top) \subseteq Seen'
    <3>1. \A i \in 1..posted : i <= top => i \in 1..top
      BY <1>b, <2>2
    <3>2. UpTo(Ready, top) \subseteq 1..top
      BY <3>1 DEF UpTo, Ready
    <3> QED
      BY <2>1, <3>2 DEF Seen
  <2>6. delivered' <= posted'
    BY <2>1, <2>2, <2>3
  <2> QED
    BY <1>a, <2>1, <2>3, <2>4, <2>5, <2>6
<1>3. ASSUME UNCHANGED <<posted, delivered>>, stream' \subseteq stream, pel' \subseteq pel,
             UNCHANGED <<dlq, batch, doomed, retry, grave, holds>>
      PROVE  Bounded'
  BY <1>3 DEF Seen
<1>4. ASSUME NEW p \in Proc, Scan(p) PROVE Bounded'
  <2>1. PICK top \in stale :
           /\ doomed' = [doomed EXCEPT ![p] = {i \in UpTo(stale, top) : Poison(i)}]
           /\ retry' = [retry EXCEPT ![p] = {i \in UpTo(stale, top) : ~Poison(i)}]
    BY <1>4 DEF Scan
  <2>2. UpTo(stale, top) \subseteq Seen
    BY DEF UpTo, TypeOK, RedisType
  <2>3. UNCHANGED <<redis, batch, grave, holds>> /\ Seen' = Seen
    BY <1>4 DEF Scan, pool, redis, Seen
  <2> QED
    BY <1>a, <2>1, <2>2, <2>3 DEF redis
<1>5. ASSUME NEW p \in Proc, DlqAdd(p) PROVE Bounded'
  <2>1. PICK i \in doomed[p] :
           /\ dlq' = dlq \cup {<<i, i \in stream>>}
           /\ doomed' = [doomed EXCEPT ![p] = @ \ {i}]
           /\ grave' = [grave EXCEPT ![p] = i]
    BY <1>5 DEF DlqAdd, Oldest
  <2>2. UNCHANGED <<posted, stream, delivered, pel, batch, retry, holds>> /\ Seen' = Seen
    BY <1>5 DEF DlqAdd, pool, Seen
  <2>3. i \in Seen
    OBVIOUS
  <2>4. \A rec \in dlq' : rec[1] \in Seen
    BY <2>1, <2>3
  <2> QED
    BY <1>a, <2>1, <2>2, <2>3, <2>4
<1>6. ASSUME NEW p \in Proc, DlqAck(p) \/ PumpFails(p) \/ Shelve(p) PROVE Bounded'
  <2>1. /\ UNCHANGED <<posted, delivered, dlq, holds>> /\ Seen' = Seen
        /\ stream' \subseteq stream /\ pel' \subseteq pel
    BY <1>6 DEF DlqAck, PumpFails, Shelve, pool, redis, Seen
  <2>2. \A q \in Proc : /\ batch'[q] \subseteq batch[q]
                        /\ doomed'[q] \subseteq doomed[q]
                        /\ retry'[q] \subseteq retry[q]
                        /\ grave'[q] \in {grave[q], 0}
    BY <1>a, <1>6 DEF DlqAck, PumpFails, Shelve
  <2> QED
    BY <2>1, <2>2
<1>7. ASSUME NEW p \in Proc, Claim(p) PROVE Bounded'
  <2>1. /\ batch' = [batch EXCEPT ![p] = Claimable(p) \cap stream]
        /\ retry' = [retry EXCEPT ![p] = {}]
        /\ pel' \subseteq pel
        /\ UNCHANGED <<posted, stream, delivered, dlq, doomed, grave, holds>>
    BY <1>7 DEF Claim, pool
  <2>2. Seen' = Seen
    BY <2>1 DEF Seen
  <2>3. Claimable(p) \subseteq Seen
    BY DEF Claimable
  <2> QED
    BY <1>a, <2>1, <2>2, <2>3
<1>8. ASSUME NEW p \in Proc, NEW w \in Worker, Deliver(p, w) PROVE Bounded'
  <2>1. PICK i \in batch[p] : /\ batch' = [batch EXCEPT ![p] = @ \ {i}]
                              /\ holds' = [holds EXCEPT ![w] = i]
    BY <1>8 DEF Deliver, Oldest
  <2>2. UNCHANGED <<redis, doomed, retry, grave>> /\ Seen' = Seen
    BY <1>8 DEF Deliver, redis, Seen
  <2> QED
    BY <1>a, <2>1, <2>2 DEF redis
<1>9. ASSUME NEW p \in Proc, DeliverGarbage(p) PROVE Bounded'
  <2>1. PICK i \in batch[p] : /\ dlq' = dlq \cup {<<i, TRUE>>}
                              /\ batch' = [batch EXCEPT ![p] = @ \ {i}]
                              /\ grave' = [grave EXCEPT ![p] = i]
    BY <1>9 DEF DeliverGarbage, Oldest
  <2>2. UNCHANGED <<posted, stream, delivered, pel, doomed, retry, holds>> /\ Seen' = Seen
    BY <1>9 DEF DeliverGarbage, pool, Seen
  <2>3. i \in Seen
    OBVIOUS
  <2>4. \A b : <<i, b>>[1] = i
    OBVIOUS
  <2>5. \A rec \in dlq' : rec[1] \in Seen
    BY <2>1, <2>3, <2>4, Zenon
  <2> QED
    BY <1>a, <2>1, <2>2, <2>3, <2>5
<1>10. ASSUME NEW w \in Worker, Ack(w) \/ RetryLater(w) PROVE Bounded'
  <2>1. /\ UNCHANGED <<posted, delivered, dlq, pump>> /\ Seen' = Seen
        /\ stream' \subseteq stream /\ pel' \subseteq pel
    BY <1>10 DEF Ack, RetryLater, redis, Seen
  <2>2. \A v \in Worker : holds'[v] \in {holds[v], 0}
    BY <1>a, <1>10 DEF Ack, RetryLater, Loop
  <2> QED
    BY <2>1, <2>2 DEF pump
<1>11. ASSUME NEW p \in Proc, Vanish(p) PROVE Bounded'
  <2>1. UNCHANGED redis /\ Seen' = Seen
    BY <1>11 DEF Vanish, redis, Seen
  <2>2. \A v \in Worker : holds'[v] \in {holds[v], 0}
    BY <1>11 DEF Vanish
  <2>3. \A q \in Proc : /\ batch'[q] \subseteq batch[q]
                        /\ doomed'[q] \subseteq doomed[q]
                        /\ retry'[q] \subseteq retry[q]
                        /\ grave'[q] \in {grave[q], 0}
    BY <1>a, <1>11 DEF Vanish
  <2> QED
    BY <2>1, <2>2, <2>3 DEF redis
<1> QED
  BY <1>1, <1>2, <1>3, <1>4, <1>5, <1>6, <1>7, <1>8, <1>9, <1>10, <1>11
  DEF Next, vars, redis, pump, pool, PumpStep, WorkerStep, WorkersOf, Age,
      PumpRead, StartTurn, Answer, EndTurn, Shutdown, Exit, Crash, Restart

-----------------------------------------------------------------------------
(* Nothing is lost                                                         *)

\* What is accounted for stays so.
LEMMA AccountedStep ==
  ASSUME [Next]_vars, NEW i, Accounted(i)
  PROVE  Accounted(i)'
<1>1. done \subseteq done' /\ dlq \subseteq dlq' /\ evicted \subseteq evicted'
  BY ZenonT(60) DEF Next, vars, redis, pump, pool, ghosts, PumpStep, WorkerStep, WorkersOf,
         Publish, Age, PumpRead, ReadReply, Scan, DlqAdd, DlqAck, Claim, Deliver,
         Shelve, DeliverGarbage, PumpFails, StartTurn, Answer, EndTurn, Ack,
         RetryLater, Shutdown, Vanish, Exit, Crash, Restart
<1> QED
  BY <1>1 DEF Accounted

LEMMA CustodyStep ==
  ASSUME TypeOK, Bounded, NoSilentLoss, Custody, [Next]_vars
  PROVE  Custody'
<1> USE IngressAssumption DEF TypeOK, PumpType, PoolType, Custody, Id
<1>1. ASSUME NEW p \in Proc, DlqAdd(p) PROVE Custody'
  <2>1. PICK i \in doomed[p] : /\ dlq' = dlq \cup {<<i, i \in stream>>}
                               /\ grave' = [grave EXCEPT ![p] = i]
    BY <1>1 DEF DlqAdd, Oldest
  <2>2. Accounted(i)'
    <3>1. CASE i \in stream
      <4>1. (i \in stream) = TRUE
        BY <3>1, Zenon
      <4>2. <<i, TRUE>> \in dlq'
        BY <2>1, <4>1, Zenon
      <4> QED
        BY <4>2 DEF Accounted
    <3>2. CASE i \notin stream
      <4>1. i \in 1..posted
        BY IngressAssumption DEF Bounded, Seen, RedisType
      <4>2. Accounted(i)
        BY <3>2, <4>1 DEF NoSilentLoss, Recoverable
      <4> QED
        BY <4>2, AccountedStep
    <3> QED
      BY <3>1, <3>2
  <2>3. UNCHANGED <<at, holds, done>>
    BY <1>1 DEF DlqAdd, pool, ghosts
  <2> QED
    BY <2>1, <2>2, <2>3, AccountedStep
<1>2. ASSUME NEW p \in Proc, DeliverGarbage(p) PROVE Custody'
  <2>1. PICK i \in Id : /\ dlq' = dlq \cup {<<i, TRUE>>}
                        /\ grave' = [grave EXCEPT ![p] = i]
    BY <1>2 DEF DeliverGarbage
  <2>2. Accounted(i)'
    BY <2>1 DEF Accounted
  <2>3. UNCHANGED <<at, holds, done>>
    BY <1>2 DEF DeliverGarbage, pool, ghosts
  <2> QED
    BY <2>1, <2>2, <2>3, AccountedStep
<1>3. ASSUME NEW p \in Proc, DlqAck(p) PROVE Custody'
  BY <1>3, AccountedStep DEF DlqAck, pool, ghosts
<1>4. ASSUME NEW p \in Proc, PumpFails(p) PROVE Custody'
  BY <1>4, AccountedStep DEF PumpFails, pool, ghosts
<1>5. ASSUME NEW p \in Proc, Vanish(p) PROVE Custody'
  BY <1>5, AccountedStep DEF Vanish, ghosts
<1>6. ASSUME NEW w \in Worker, EndTurn(w) PROVE Custody'
  BY <1>6, AccountedStep DEF EndTurn, pump
<1>7. ASSUME NEW p \in Proc, NEW w \in Worker, Deliver(p, w) PROVE Custody'
  <2>1. /\ at' = [at EXCEPT ![w] = "queued"]
        /\ \A v \in Worker \ {w} : holds'[v] = holds[v]
        /\ UNCHANGED <<grave, done>>
    BY <1>7 DEF Deliver, ghosts
  <2> QED
    BY <2>1, AccountedStep
<1>8. ASSUME NEW w \in Worker, Loop(w), UNCHANGED <<grave, done>> PROVE Custody'
  BY <1>8, AccountedStep DEF Loop
<1>9. ASSUME NEW w \in Worker, at' \in {[at EXCEPT ![w] = "turn"], [at EXCEPT ![w] = "sent"]},
             UNCHANGED <<grave, done, holds>> PROVE Custody'
  BY <1>9, AccountedStep
<1>10. ASSUME NEW p \in Proc, Shutdown(p) \/ Restart(p) PROVE Custody'
  BY <1>10, AccountedStep DEF Shutdown, Restart, pump, ghosts
<1>11. CASE UNCHANGED <<grave, done, at, holds>>
  BY <1>11, AccountedStep
<1> QED
  BY <1>1, <1>2, <1>3, <1>4, <1>5, <1>6, <1>7, <1>8, <1>9, <1>10, <1>11
  DEF Next, vars, pump, pool, ghosts, PumpStep, WorkerStep, WorkersOf, Publish,
      Age, PumpRead, ReadReply, Scan, Claim, Shelve, StartTurn, Answer, Ack,
      RetryLater, Exit, Crash

LEMMA NoSilentLossStep ==
  ASSUME TypeOK, Bounded, NoSilentLoss, Custody, [Next]_vars
  PROVE  NoSilentLoss'
<1>a. posted \in Nat /\ delivered \in Nat
  BY IngressAssumption DEF TypeOK, RedisType
<1>1. CASE Publish
  <2>1. posted' = posted + 1 /\ UNCHANGED <<delivered, pel>>
    BY <1>1 DEF Publish
  <2>2. PICK cut \in 0..posted :
           stream' = Kept(cut) /\ evicted' = evicted \cup (stream \ Kept(cut))
    BY <1>1 DEF Publish
  <2> SUFFICES ASSUME NEW i \in 1..posted' PROVE Recoverable(i)' \/ Accounted(i)'
    BY DEF NoSilentLoss
  <2>3. CASE i = posted + 1
    <3>1. i \in stream'
      BY <2>2, <2>3 DEF Kept
    <3>2. i > delivered'
      BY <1>a, <2>1, <2>3 DEF Bounded
    <3> QED
      BY <3>1, <3>2 DEF Recoverable
  <2>4. CASE i # posted + 1
    <3>1. i \in 1..posted
      BY <1>a, <2>1, <2>4
    <3>2. CASE Accounted(i)
      BY <3>2, AccountedStep
    <3>3. CASE Recoverable(i) /\ i \notin Kept(cut)
      BY <2>2, <3>3 DEF Recoverable, Accounted
    <3>4. CASE Recoverable(i) /\ i \in Kept(cut)
      BY <2>1, <2>2, <3>4 DEF Recoverable
    <3> QED
      BY <3>1, <3>2, <3>3, <3>4 DEF NoSilentLoss
  <2> QED
    BY <2>3, <2>4
<1>2. ASSUME NEW p \in Proc, ReadReply(p) PROVE NoSilentLoss'
  <2>1. PICK top \in Ready : /\ pel' = pel \cup UpTo(Ready, top)
                             /\ delivered' = top
    BY <1>2 DEF ReadReply
  <2>2. UNCHANGED <<posted, stream>>
    BY <1>2 DEF ReadReply
  <2> SUFFICES ASSUME NEW i \in 1..posted PROVE Recoverable(i)' \/ Accounted(i)'
    BY <2>2 DEF NoSilentLoss
  <2>3. CASE Accounted(i)
    BY <2>3, AccountedStep
  <2>4. CASE i \in stream /\ i \in pel
    BY <2>1, <2>2, <2>4 DEF Recoverable
  <2>5. CASE i \in stream /\ i > delivered
    <3>1. top \in 1..posted
      BY DEF Ready, Bounded
    <3>2. i > top \/ i \in UpTo(Ready, top)
      BY <1>a, <2>5, <3>1 DEF UpTo, Ready
    <3> QED
      BY <2>1, <2>2, <2>5, <3>2 DEF Recoverable
  <2> QED
    BY <2>3, <2>4, <2>5 DEF NoSilentLoss, Recoverable
<1>3. ASSUME UNCHANGED <<posted, delivered>>,
             \A i \in stream \ stream' : Accounted(i),
             \A i \in pel \ pel' : Accounted(i) \/ i \notin stream
      PROVE  NoSilentLoss'
  <2> SUFFICES ASSUME NEW i \in 1..posted PROVE Recoverable(i)' \/ Accounted(i)'
    BY <1>3 DEF NoSilentLoss
  <2>1. CASE Accounted(i)
    BY <2>1, AccountedStep
  <2>2. CASE ~Accounted(i)
    <3>1. Recoverable(i)
      BY <2>2 DEF NoSilentLoss
    <3> QED
      BY <1>3, <2>2, <3>1 DEF Recoverable
  <2> QED
    BY <2>1, <2>2
<1>4. ASSUME NEW p \in Proc, DlqAck(p) PROVE NoSilentLoss'
  <2>1. /\ pel' = pel \ {grave[p]}
        /\ stream' = stream \ {grave[p]}
        /\ UNCHANGED <<posted, delivered>>
    BY <1>4 DEF DlqAck
  <2>2. Accounted(grave[p])
    BY <1>4 DEF DlqAck, Custody
  <2> QED
    BY <1>3, <2>1, <2>2
<1>5. ASSUME NEW p \in Proc, PumpFails(p) PROVE NoSilentLoss'
  <2>1. /\ pel' = pel \/ (grave[p] # 0 /\ pel' = pel \ {grave[p]})
        /\ UNCHANGED <<posted, stream, delivered>>
    BY <1>5 DEF PumpFails
  <2>2. grave[p] # 0 => Accounted(grave[p])
    BY DEF Custody
  <2> QED
    BY <1>3, <2>1, <2>2
<1>6. ASSUME NEW p \in Proc, Claim(p) PROVE NoSilentLoss'
  <2>1. pel' = pel \ (Claimable(p) \ stream) /\ UNCHANGED <<posted, stream, delivered>>
    BY <1>6 DEF Claim
  <2> QED
    BY <1>3, <2>1
<1>7. ASSUME NEW w \in Worker, Ack(w) PROVE NoSilentLoss'
  <2>1. Accounted(holds[w])
    BY <1>7 DEF Ack, Custody, Accounted
  <2>2. /\ pel' \in {pel, pel \ {holds[w]}}
        /\ stream' \in {stream, stream \ {holds[w]}}
        /\ UNCHANGED <<posted, delivered>>
    BY <1>7 DEF Ack
  <2> QED
    BY <1>3, <2>1, <2>2
<1>8. CASE UNCHANGED <<posted, stream, delivered, pel>>
  BY <1>8, AccountedStep DEF NoSilentLoss, Recoverable
<1> QED
  BY <1>1, <1>2, <1>4, <1>5, <1>6, <1>7, <1>8
  DEF Next, vars, redis, PumpStep, WorkerStep, WorkersOf, Age, PumpRead, Scan,
      DlqAdd, Deliver, Shelve, DeliverGarbage, StartTurn, Answer, EndTurn,
      RetryLater, Shutdown, Vanish, Exit, Crash, Restart

-----------------------------------------------------------------------------
(* The chains of the room locks                                            *)

LEMMA ChainsStep ==
  ASSUME TypeOK, Chains, [Next]_vars
  PROVE  Chains'
<1>a. /\ at \in [Worker -> Phase]
      /\ holds \in [Worker -> 0..MaxId]
      /\ lock \in [Proc -> [Room -> Seq(Worker)]]
      /\ ProcOf \in [Worker -> Proc]
  BY IngressAssumption DEF TypeOK, PoolType
<1>1. ASSUME NEW p \in Proc, NEW w \in Worker, Deliver(p, w) PROVE Chains'
  <2>1. PICK i \in Id : /\ at' = [at EXCEPT ![w] = "queued"]
                        /\ holds' = [holds EXCEPT ![w] = i]
                        /\ lock' = [lock EXCEPT ![p][RoomOf[i]] = Append(@, w)]
    BY <1>1 DEF Deliver
  <2>2. ProcOf[w] = p /\ RoomOf[i] \in Room
    BY <1>1, IngressAssumption DEF Deliver, Waiters, WorkersOf
  <2> DEFINE c == lock[p][RoomOf[i]]
  <2>3. c \in Seq(Worker)
    BY <1>a, <2>2
  <2>4. /\ Len(Append(c, w)) = Len(c) + 1
        /\ Append(c, w)[Len(c) + 1] = w
        /\ \A n \in 1..Len(c) : Append(c, w)[n] = c[n] /\ n \in 1..(Len(c) + 1)
        /\ Len(c) > 0 => Head(Append(c, w)) = Head(c)
        /\ Len(c) + 1 \in 1..(Len(c) + 1)
    BY <2>3
  <2>5. ChainOf(w)' = Append(c, w)
    BY <1>a, <2>1, <2>2 DEF ChainOf
  <2> SUFFICES ASSUME NEW v \in Worker, at'[v] \in {"queued", "turn", "sent"}
               PROVE  /\ \E n \in 1..Len(ChainOf(v)') : ChainOf(v)'[n] = v
                      /\ at'[v] \in {"turn", "sent"} => Head(ChainOf(v)') = v
    BY DEF Chains, ChainOf
  <2>6. CASE v = w
    BY <1>a, <2>1, <2>4, <2>5, <2>6
  <2>7. CASE v # w
    <3>1. at'[v] = at[v] /\ holds'[v] = holds[v]
      BY <1>a, <2>1, <2>7
    <3>2. RoomOf[holds[v]] \in Room
      BY <3>1, Busy DEF TypeOK
    <3>3. ChainOf(v)' = IF ProcOf[v] = p /\ RoomOf[holds[v]] = RoomOf[i]
                        THEN Append(c, w) ELSE ChainOf(v)
      BY <1>a, <2>1, <2>2, <3>1, <3>2 DEF ChainOf
    <3>4. PICK n \in 1..Len(ChainOf(v)) : ChainOf(v)[n] = v
      BY <3>1 DEF Chains
    <3>5. at[v] \in {"turn", "sent"} => Head(ChainOf(v)) = v
      BY DEF Chains
    <3>6. CASE ProcOf[v] = p /\ RoomOf[holds[v]] = RoomOf[i]
      <4>1. ChainOf(v) = c /\ ChainOf(v)' = Append(c, w)
        BY <3>3, <3>6 DEF ChainOf
      <4>2. Append(c, w)[n] = v /\ n \in 1..Len(Append(c, w)) /\ Len(c) > 0
        BY <2>3, <2>4, <3>4, <4>1
      <4> QED
        BY <2>4, <3>1, <3>5, <4>1, <4>2
    <3>7. CASE ~(ProcOf[v] = p /\ RoomOf[holds[v]] = RoomOf[i])
      BY <3>1, <3>3, <3>4, <3>5, <3>7
    <3> QED
      BY <3>6, <3>7
  <2> QED
    BY <2>6, <2>7
<1>2. ASSUME NEW w \in Worker, EndTurn(w) PROVE Chains'
  <2>1. /\ at' \in {[at EXCEPT ![w] = "ok"], [at EXCEPT ![w] = "failed"]}
        /\ lock' = [lock EXCEPT ![ProcOf[w]][RoomOf[holds[w]]] = Tail(@)]
        /\ UNCHANGED holds
        /\ at[w] \in {"turn", "sent"}
    BY <1>2 DEF EndTurn
  <2>2. /\ ProcOf[w] \in Proc
        /\ RoomOf[holds[w]] \in Room
        /\ ChainOf(w) \in Seq(Worker)
        /\ Head(ChainOf(w)) = w
    BY <2>1, Busy DEF TypeOK, Chains
  <2> SUFFICES ASSUME NEW v \in Worker, at'[v] \in {"queued", "turn", "sent"}
               PROVE  /\ \E n \in 1..Len(ChainOf(v)') : ChainOf(v)'[n] = v
                      /\ at'[v] \in {"turn", "sent"} => Head(ChainOf(v)') = v
    BY DEF Chains, ChainOf
  <2>3. v # w /\ at'[v] = at[v]
    BY <1>a, <2>1
  <2>4. RoomOf[holds[v]] \in Room
    BY <2>3, Busy DEF TypeOK
  <2>5. ChainOf(v)' = IF ProcOf[v] = ProcOf[w] /\ RoomOf[holds[v]] = RoomOf[holds[w]]
                      THEN Tail(ChainOf(w)) ELSE ChainOf(v)
    BY <1>a, <2>1, <2>2, <2>4 DEF ChainOf
  <2>6. PICK n \in 1..Len(ChainOf(v)) : ChainOf(v)[n] = v
    BY <2>3 DEF Chains
  <2>7. at[v] \in {"turn", "sent"} => Head(ChainOf(v)) = v
    BY DEF Chains
  <2>8. CASE ProcOf[v] = ProcOf[w] /\ RoomOf[holds[v]] = RoomOf[holds[w]]
    <3>1. ChainOf(v) = ChainOf(w) /\ ChainOf(v)' = Tail(ChainOf(w))
      BY <2>5, <2>8 DEF ChainOf
    <3>2. n # 1
      BY <2>2, <2>3, <2>6, <3>1
    <3>3. n - 1 \in 1..Len(Tail(ChainOf(w))) /\ Tail(ChainOf(w))[n - 1] = v
      BY <2>2, <2>6, <3>1, <3>2, TailType
    <3>4. at[v] \notin {"turn", "sent"}
      BY <2>2, <2>3, <2>7, <3>1
    <3> QED
      BY <2>3, <3>1, <3>3, <3>4
  <2>9. CASE ~(ProcOf[v] = ProcOf[w] /\ RoomOf[holds[v]] = RoomOf[holds[w]])
    BY <2>3, <2>5, <2>6, <2>7, <2>9
  <2> QED
    BY <2>8, <2>9
<1>3. ASSUME NEW w \in Worker, StartTurn(w) PROVE Chains'
  BY <1>a, <1>3 DEF StartTurn, Chains, ChainOf
<1>4. ASSUME NEW w \in Worker, Answer(w) PROVE Chains'
  BY <1>a, <1>4 DEF Answer, Chains, ChainOf
<1>5. ASSUME NEW w \in Worker, Loop(w), UNCHANGED lock PROVE Chains'
  BY <1>a, <1>5 DEF Loop, Chains, ChainOf
<1>6. ASSUME NEW p \in Proc, Shutdown(p) PROVE Chains'
  BY <1>a, <1>6 DEF Shutdown, Chains, ChainOf
<1>7. ASSUME NEW p \in Proc, Vanish(p) PROVE Chains'
  BY <1>a, <1>7 DEF Vanish, Chains, ChainOf
<1>8. ASSUME NEW p \in Proc, Restart(p) PROVE Chains'
  BY <1>a, <1>8 DEF Restart, Chains, ChainOf
<1>9. CASE UNCHANGED <<at, holds, lock>>
  BY <1>9 DEF Chains, ChainOf
<1> QED
  BY <1>1, <1>2, <1>3, <1>4, <1>5, <1>6, <1>7, <1>8, <1>9
  DEF Next, vars, pool, PumpStep, WorkerStep, WorkersOf, Publish, Age, PumpRead,
      ReadReply, Scan, DlqAdd, DlqAck, Claim, Shelve, DeliverGarbage, PumpFails,
      Ack, RetryLater, Exit, Crash

-----------------------------------------------------------------------------
(* Who is in the chains                                                    *)

LEMMA MembersStep ==
  ASSUME TypeOK, Chains, Members, [Next]_vars
  PROVE  Members'
<1>a. /\ at \in [Worker -> Phase]
      /\ holds \in [Worker -> 0..MaxId]
      /\ lock \in [Proc -> [Room -> Seq(Worker)]]
      /\ ProcOf \in [Worker -> Proc]
  BY IngressAssumption DEF TypeOK, PoolType
<1>b. \A q \in Proc, r \in Room :
        /\ lock[q][r] \in Seq(Worker)
        /\ \A n \in 1..Len(lock[q][r]) : lock[q][r][n] \in Worker
  BY <1>a
<1>1. ASSUME NEW p \in Proc, NEW w \in Worker, Deliver(p, w) PROVE Members'
  <2>1. PICK i \in Id : /\ at' = [at EXCEPT ![w] = "queued"]
                        /\ holds' = [holds EXCEPT ![w] = i]
                        /\ lock' = [lock EXCEPT ![p][RoomOf[i]] = Append(@, w)]
    BY <1>1 DEF Deliver
  <2>2. ProcOf[w] = p /\ at[w] = "idle" /\ RoomOf[i] \in Room
    BY <1>1, IngressAssumption DEF Deliver, Waiters, WorkersOf
  <2> SUFFICES ASSUME NEW q \in Proc, NEW r \in Room
               PROVE  /\ \A n \in 1..Len(lock'[q][r]) :
                           /\ at'[lock'[q][r][n]] \in {"queued", "turn", "sent"}
                           /\ ProcOf[lock'[q][r][n]] = q
                           /\ RoomOf[holds'[lock'[q][r][n]]] = r
                      /\ \A m, n \in 1..Len(lock'[q][r]) :
                           m # n => lock'[q][r][m] # lock'[q][r][n]
    BY DEF Members
  <2> DEFINE c == lock[q][r]
  <2>3. c \in Seq(Worker)
    BY <1>b
  <2>4. \A n \in 1..Len(c) : /\ c[n] # w
                             /\ at'[c[n]] \in {"queued", "turn", "sent"}
                             /\ ProcOf[c[n]] = q
                             /\ RoomOf[holds'[c[n]]] = r
    <3> SUFFICES ASSUME NEW n \in 1..Len(c)
                 PROVE  /\ c[n] # w
                        /\ at'[c[n]] \in {"queued", "turn", "sent"}
                        /\ ProcOf[c[n]] = q
                        /\ RoomOf[holds'[c[n]]] = r
      OBVIOUS
    <3>1. /\ at[c[n]] \in {"queued", "turn", "sent"}
          /\ ProcOf[c[n]] = q
          /\ RoomOf[holds[c[n]]] = r
          /\ c[n] \in Worker
      BY <1>b DEF Members
    <3>2. c[n] # w
      BY <2>2, <3>1
    <3>3. at'[c[n]] = at[c[n]] /\ holds'[c[n]] = holds[c[n]]
      BY <1>a, <2>1, <3>1, <3>2
    <3> QED
      BY <3>1, <3>2, <3>3
  <2>5. \A m, n \in 1..Len(c) : m # n => c[m] # c[n]
    BY DEF Members
  <2>6. CASE q = p /\ r = RoomOf[i]
    <3>1. lock'[q][r] = Append(c, w)
      BY <1>a, <2>1, <2>2, <2>6
    <3>2. /\ Len(Append(c, w)) = Len(c) + 1
          /\ Append(c, w)[Len(c) + 1] = w
          /\ \A n \in 1..Len(c) : Append(c, w)[n] = c[n]
          /\ \A n \in 1..(Len(c) + 1) : n \in 1..Len(c) \/ n = Len(c) + 1
      BY <2>3
    <3>3. at'[w] = "queued" /\ holds'[w] = i
      BY <1>a, <2>1
    <3> HIDE DEF c
    <3> QED
      BY <2>2, <2>4, <2>5, <2>6, <3>1, <3>2, <3>3
  <2>7. CASE ~(q = p /\ r = RoomOf[i])
    <3>1. lock'[q][r] = c
      BY <1>a, <2>1, <2>2, <2>7
    <3> QED
      BY <2>4, <2>5, <3>1
  <2> QED
    BY <2>6, <2>7
<1>2. ASSUME NEW w \in Worker, EndTurn(w) PROVE Members'
  <2>1. /\ at' \in {[at EXCEPT ![w] = "ok"], [at EXCEPT ![w] = "failed"]}
        /\ lock' = [lock EXCEPT ![ProcOf[w]][RoomOf[holds[w]]] = Tail(@)]
        /\ UNCHANGED holds
        /\ at[w] \in {"turn", "sent"}
    BY <1>2 DEF EndTurn
  <2>2. /\ ProcOf[w] \in Proc
        /\ RoomOf[holds[w]] \in Room
        /\ ChainOf(w) \in Seq(Worker)
        /\ Head(ChainOf(w)) = w
    BY <2>1, Busy DEF TypeOK, Chains
  <2>3. PICK k \in 1..Len(ChainOf(w)) : ChainOf(w)[k] = w
    BY <2>1 DEF Chains
  <2>4. ChainOf(w)[1] = w /\ 1 \in 1..Len(ChainOf(w))
    BY <2>2, <2>3
  <2> SUFFICES ASSUME NEW q \in Proc, NEW r \in Room
               PROVE  /\ \A n \in 1..Len(lock'[q][r]) :
                           /\ at'[lock'[q][r][n]] \in {"queued", "turn", "sent"}
                           /\ ProcOf[lock'[q][r][n]] = q
                           /\ RoomOf[holds'[lock'[q][r][n]]] = r
                      /\ \A m, n \in 1..Len(lock'[q][r]) :
                           m # n => lock'[q][r][m] # lock'[q][r][n]
    BY DEF Members
  <2> DEFINE c == lock[q][r]
  <2>5. \A n \in 1..Len(c) : /\ c[n] \in Worker
                             /\ at[c[n]] \in {"queued", "turn", "sent"}
                             /\ ProcOf[c[n]] = q
                             /\ RoomOf[holds[c[n]]] = r
    BY <1>b DEF Members
  <2>6. \A m, n \in 1..Len(c) : m # n => c[m] # c[n]
    BY DEF Members
  <2>7. \A v \in Worker : v # w => at'[v] = at[v]
    BY <1>a, <2>1
  <2>8. CASE q = ProcOf[w] /\ r = RoomOf[holds[w]]
    <3>1. c = ChainOf(w) /\ lock'[q][r] = Tail(c)
      BY <1>a, <2>1, <2>2, <2>8 DEF ChainOf
    <3>2. /\ Len(Tail(c)) = Len(c) - 1
          /\ \A n \in 1..Len(Tail(c)) : Tail(c)[n] = c[n + 1]
      BY <2>2, <2>4, <3>1, TailType
    <3>3. \A n \in 1..Len(Tail(c)) : n + 1 \in 1..Len(c) /\ n + 1 # 1
      BY <1>b, <3>2
    <3>4. c[1] = w /\ 1 \in 1..Len(c)
      BY <2>4, <3>1
    <3> HIDE DEF c
    <3>5. \A n \in 1..Len(Tail(c)) : Tail(c)[n] # w
      BY <2>6, <3>2, <3>3, <3>4
    <3>6. \A m, n \in 1..Len(Tail(c)) : m # n => Tail(c)[m] # Tail(c)[n]
      BY <2>6, <3>2, <3>3
    <3>7. \A n \in 1..Len(Tail(c)) : /\ Tail(c)[n] \in Worker
                                     /\ at[Tail(c)[n]] \in {"queued", "turn", "sent"}
                                     /\ ProcOf[Tail(c)[n]] = q
                                     /\ RoomOf[holds[Tail(c)[n]]] = r
      BY <2>5, <3>2, <3>3
    <3>8. \A n \in 1..Len(Tail(c)) :
            /\ at'[Tail(c)[n]] \in {"queued", "turn", "sent"}
            /\ RoomOf[holds'[Tail(c)[n]]] = r
      BY <2>1, <2>7, <3>5, <3>7
    <3>9. \A n \in 1..Len(lock'[q][r]) : /\ at'[lock'[q][r][n]] \in {"queued", "turn", "sent"}
                                        /\ ProcOf[lock'[q][r][n]] = q
                                        /\ RoomOf[holds'[lock'[q][r][n]]] = r
      BY <3>1, <3>7, <3>8
    <3>10. \A m, n \in 1..Len(lock'[q][r]) : m # n => lock'[q][r][m] # lock'[q][r][n]
      BY <3>1, <3>6
    <3> QED
      BY <3>9, <3>10
  <2>9. CASE ~(q = ProcOf[w] /\ r = RoomOf[holds[w]])
    <3>1. lock'[q][r] = c
      BY <1>a, <2>1, <2>2, <2>9
    <3>2. \A n \in 1..Len(c) : c[n] # w
      BY <2>5, <2>9
    <3> HIDE DEF c
    <3>3. \A n \in 1..Len(c) : /\ at'[c[n]] \in {"queued", "turn", "sent"}
                               /\ RoomOf[holds'[c[n]]] = r
      BY <2>1, <2>5, <2>7, <3>2
    <3> QED
      BY <2>5, <2>6, <3>1, <3>3
  <2> QED
    BY <2>8, <2>9
<1>3. ASSUME \A q \in Proc : lock'[q] = lock[q] \/ \A r \in Room : lock'[q][r] = << >>,
             \A q \in Proc, r \in Room : \A n \in 1..Len(lock[q][r]) :
               lock'[q] = lock[q] =>
                 /\ at'[lock[q][r][n]] \in {"queued", "turn", "sent"}
                 /\ holds'[lock[q][r][n]] = holds[lock[q][r][n]]
      PROVE  Members'
  <2> SUFFICES ASSUME NEW q \in Proc, NEW r \in Room
               PROVE  /\ \A n \in 1..Len(lock'[q][r]) :
                           /\ at'[lock'[q][r][n]] \in {"queued", "turn", "sent"}
                           /\ ProcOf[lock'[q][r][n]] = q
                           /\ RoomOf[holds'[lock'[q][r][n]]] = r
                      /\ \A m, n \in 1..Len(lock'[q][r]) :
                           m # n => lock'[q][r][m] # lock'[q][r][n]
    BY DEF Members
  <2>1. CASE lock'[q] = lock[q]
    BY <1>3, <2>1 DEF Members
  <2>2. CASE \A s \in Room : lock'[q][s] = << >>
    BY <2>2
  <2> QED
    BY <1>3, <2>1, <2>2
<1>4. ASSUME NEW w \in Worker, at[w] \notin {"queued", "turn", "sent"}
      PROVE  \A q \in Proc, r \in Room : \A n \in 1..Len(lock[q][r]) : lock[q][r][n] # w
  BY <1>4 DEF Members
<1>5. \A q \in Proc, r \in Room : \A n \in 1..Len(lock[q][r]) :
        /\ lock[q][r][n] \in Worker
        /\ at[lock[q][r][n]] \in {"queued", "turn", "sent"}
        /\ ProcOf[lock[q][r][n]] = q
  BY <1>b DEF Members
<1>6. ASSUME NEW w \in Worker, StartTurn(w) \/ Answer(w) PROVE Members'
  <2>1. /\ at' \in {[at EXCEPT ![w] = "turn"], [at EXCEPT ![w] = "sent"]}
        /\ UNCHANGED <<lock, holds>>
    BY <1>6 DEF StartTurn, Answer
  <2>2. \A v \in Worker : at'[v] \in {at[v], "turn", "sent"}
    BY <1>a, <2>1
  <2> QED
    BY <1>3, <1>5, <2>1, <2>2
<1>7. ASSUME NEW w \in Worker, Loop(w), at[w] \in {"ok", "failed"}, UNCHANGED lock
      PROVE  Members'
  <2>1. \A v \in Worker : v # w => at'[v] = at[v] /\ holds'[v] = holds[v]
    BY <1>a, <1>7 DEF Loop
  <2>2. \A q \in Proc, r \in Room : \A n \in 1..Len(lock[q][r]) : lock[q][r][n] # w
    BY <1>4, <1>7
  <2> QED
    BY <1>3, <1>5, <1>7, <2>1, <2>2
<1>8. ASSUME NEW p \in Proc, Shutdown(p) PROVE Members'
  <2>1. \A v \in Worker : at[v] # "idle" => at'[v] = at[v]
    BY <1>8 DEF Shutdown, Waiters
  <2>2. UNCHANGED <<lock, holds>>
    BY <1>8 DEF Shutdown
  <2> QED
    BY <1>3, <1>5, <2>1, <2>2
<1>9. ASSUME NEW p \in Proc, Vanish(p) PROVE Members'
  <2>1. /\ \A r \in Room : lock'[p][r] = << >>
        /\ \A q \in Proc : q # p => lock'[q] = lock[q]
    BY <1>a, <1>9 DEF Vanish
  <2>2. \A v \in Worker : ProcOf[v] # p => at'[v] = at[v] /\ holds'[v] = holds[v]
    BY <1>9 DEF Vanish
  <2>3. \A r \in Room : \A n \in 1..Len(lock[p][r]) : lock'[p] # lock[p]
    <3> SUFFICES ASSUME NEW r \in Room, NEW n \in 1..Len(lock[p][r]), lock'[p] = lock[p]
                 PROVE  FALSE
      OBVIOUS
    <3>1. lock[p][r] = << >>
      BY <2>1
    <3> QED
      BY <3>1
  <2> QED
    BY <1>3, <1>5, <2>1, <2>2, <2>3
<1>10. ASSUME NEW p \in Proc, Restart(p) PROVE Members'
  <2>1. /\ at' = [w \in Worker |-> IF ProcOf[w] = p THEN "idle" ELSE at[w]]
        /\ UNCHANGED <<lock, holds>>
        /\ mode[p] = "down"
    BY <1>10 DEF Restart
  <2>2. \A w \in Worker : ProcOf[w] = p => at[w] = "off"
    BY <2>1 DEF TypeOK, HandsType
  <2> QED
    BY <1>3, <1>5, <2>1, <2>2
<1>11. CASE UNCHANGED <<at, holds, lock>>
  BY <1>3, <1>5, <1>11
<1> QED
  BY <1>1, <1>2, <1>6, <1>7, <1>8, <1>9, <1>10, <1>11
  DEF Next, vars, pool, PumpStep, WorkerStep, WorkersOf, Publish, Age, PumpRead,
      ReadReply, Scan, DlqAdd, DlqAck, Claim, Shelve, DeliverGarbage, PumpFails,
      Ack, RetryLater, Exit, Crash

-----------------------------------------------------------------------------
(* Delivery counts                                                         *)

LEMMA CountersStep ==
  ASSUME TypeOK, Bounded, Counters, [Next]_vars
  PROVE  Counters'
<1>a. /\ deliveries \in [Id -> Nat]
      /\ stale \subseteq pel
      /\ delivered \in Nat
      /\ MaxDeliveries \in Nat \ {0}
      /\ Seen \subseteq Id
  BY IngressAssumption DEF TypeOK, RedisType, Seen, Id
<1>b. doomed \in [Proc -> SUBSET Id] /\ retry \in [Proc -> SUBSET Id]
  BY DEF TypeOK, PumpType
<1>c. /\ stale \subseteq Seen
      /\ \A p \in Proc : doomed[p] \subseteq Seen
      /\ \A rec \in dlq : rec[1] \in Seen
  BY <1>a DEF Bounded
<1>1. ASSUME UNCHANGED <<deliveries, dlq>>,
             \A p \in Proc : \A i \in retry'[p] \cap stale' :
                (i \in retry[p] \cap stale) \/ deliveries[i] < MaxDeliveries,
             \A p \in Proc : \A i \in doomed'[p] :
                i \in doomed[p] \/ deliveries[i] = MaxDeliveries
      PROVE  Counters'
  BY <1>1 DEF Counters, DeliveryBound, OnlyPoisonIsBuried
<1>2. ASSUME NEW i \in Id, Age(i) PROVE Counters'
  <2>1. /\ stale' = stale \cup {i}
        /\ UNCHANGED <<deliveries, dlq, doomed, retry>>
        /\ \A p \in Proc : i \notin retry[p]
    BY <1>2 DEF Age, pump
  <2> QED
    BY <1>1, <2>1
<1>3. ASSUME NEW p \in Proc, ReadReply(p) PROVE Counters'
  <2>1. PICK top \in Ready :
           deliveries' = [i \in Id |-> IF i \in UpTo(Ready, top) THEN 1 ELSE deliveries[i]]
    BY <1>3 DEF ReadReply
  <2>2. UNCHANGED <<stale, dlq, doomed, retry>>
    BY <1>3 DEF ReadReply
  <2>3. \A i \in UpTo(Ready, top) : i \notin Seen
    BY <1>a DEF UpTo, Ready, Seen
  <2>4. \A i \in Seen : deliveries'[i] = deliveries[i]
    BY <1>a, <2>1, <2>3
  <2>5. DeliveryBound'
    BY <1>a, <2>1 DEF DeliveryBound, Counters
  <2> QED
    BY <1>c, <2>2, <2>4, <2>5 DEF Counters, OnlyPoisonIsBuried
<1>4. ASSUME NEW p \in Proc, Scan(p) PROVE Counters'
  <2>1. PICK top \in stale :
           /\ doomed' = [doomed EXCEPT ![p] = {i \in UpTo(stale, top) : Poison(i)}]
           /\ retry' = [retry EXCEPT ![p] = {i \in UpTo(stale, top) : ~Poison(i)}]
    BY <1>4 DEF Scan
  <2>2. UNCHANGED <<deliveries, dlq, stale>>
    BY <1>4 DEF Scan, redis
  <2>3. \A i \in UpTo(stale, top) :
           /\ Poison(i) => deliveries[i] = MaxDeliveries
           /\ ~Poison(i) => deliveries[i] < MaxDeliveries
    BY <1>a, <1>c DEF UpTo, Poison, Counters, DeliveryBound
  <2> QED
    BY <1>1, <1>b, <2>1, <2>2, <2>3
<1>5. ASSUME NEW p \in Proc, Claim(p) PROVE Counters'
  <2>1. /\ stale' = stale \ Claimable(p)
        /\ deliveries' = [i \in Id |-> IF i \in Claimable(p) \cap stream
                                       THEN deliveries[i] + 1 ELSE deliveries[i]]
        /\ retry' = [retry EXCEPT ![p] = {}]
        /\ UNCHANGED <<dlq, doomed>>
    BY <1>5 DEF Claim
  <2>2. \A i \in Claimable(p) : deliveries[i] < MaxDeliveries
    BY DEF Claimable, Counters
  <2>3. DeliveryBound'
    BY <1>a, <2>1, <2>2 DEF DeliveryBound, Counters
  <2>4. \A i \in Id \ Claimable(p) : deliveries'[i] = deliveries[i]
    BY <1>a, <2>1
  <2>5. \A q \in Proc : \A i \in retry'[q] \cap stale' : deliveries'[i] < MaxDeliveries
    BY <1>a, <1>b, <1>c, <2>1, <2>4 DEF Counters
  <2>6. \A q \in Proc : \A i \in doomed'[q] : deliveries'[i] = MaxDeliveries
    BY <1>a, <1>c, <2>1, <2>2, <2>4 DEF Counters
  <2>7. OnlyPoisonIsBuried'
    BY <1>a, <1>c, <2>1, <2>2, <2>4 DEF Counters, OnlyPoisonIsBuried
  <2> QED
    BY <2>3, <2>5, <2>6, <2>7 DEF Counters
<1>6. ASSUME NEW p \in Proc, DlqAdd(p) PROVE Counters'
  <2>1. PICK i \in doomed[p] : /\ dlq' = dlq \cup {<<i, i \in stream>>}
                               /\ doomed' = [doomed EXCEPT ![p] = @ \ {i}]
    BY <1>6 DEF DlqAdd, Oldest
  <2>2. UNCHANGED <<deliveries, stale, retry>>
    BY <1>6 DEF DlqAdd
  <2>3. \A q \in Proc : doomed'[q] \subseteq doomed[q]
    BY <1>b, <2>1
  <2>4. OnlyPoisonIsBuried'
    BY <2>1, <2>2 DEF Counters, OnlyPoisonIsBuried
  <2> QED
    BY <2>2, <2>3, <2>4 DEF Counters, DeliveryBound
<1>7. ASSUME NEW p \in Proc, DeliverGarbage(p) PROVE Counters'
  <2>1. PICK i \in Garbage : dlq' = dlq \cup {<<i, TRUE>>}
    BY <1>7 DEF DeliverGarbage
  <2>2. UNCHANGED <<deliveries, stale, doomed, retry>>
    BY <1>7 DEF DeliverGarbage
  <2>3. \A b : <<i, b>>[1] = i
    OBVIOUS
  <2>4. \A rec \in dlq' : rec \in dlq \/ rec[1] = i
    BY <2>1, <2>3, Zenon
  <2>5. OnlyPoisonIsBuried'
    BY <2>2, <2>4 DEF Counters, OnlyPoisonIsBuried
  <2> QED
    BY <2>2, <2>5 DEF Counters, DeliveryBound
<1>8. ASSUME NEW p \in Proc, DlqAck(p) \/ PumpFails(p) \/ Vanish(p) PROVE Counters'
  <2>1. UNCHANGED <<deliveries, dlq>> /\ stale' \subseteq stale
    BY <1>8 DEF DlqAck, PumpFails, Vanish, redis
  <2>2. \A q \in Proc : retry'[q] \subseteq retry[q] /\ doomed'[q] \subseteq doomed[q]
    BY <1>b, <1>8 DEF DlqAck, PumpFails, Vanish
  <2> QED
    BY <1>1, <2>1, <2>2
<1>9. ASSUME UNCHANGED <<deliveries, dlq, doomed, retry>>, stale' \subseteq stale
      PROVE  Counters'
  BY <1>1, <1>9
<1> QED
  BY <1>2, <1>3, <1>4, <1>5, <1>6, <1>7, <1>8, <1>9
  DEF Next, vars, redis, pump, PumpStep, WorkerStep, WorkersOf, Publish, PumpRead,
      Deliver, Shelve, StartTurn, Answer, EndTurn, Ack, RetryLater, Shutdown,
      Exit, Crash, Restart

-----------------------------------------------------------------------------
(* The delivery counter and the order of first deliveries                  *)

LEMMA HandedOutStep ==
  ASSUME TypeOK, Bounded, HandedOut, [Next]_vars
  PROVE  HandedOut'
<1>a. /\ batch \in [Proc -> SUBSET Id]
      /\ holds \in [Worker -> 0..MaxId]
      /\ deliveries \in [Id -> Nat]
      /\ delivered \in Nat
      /\ stale \subseteq pel
      /\ Seen \subseteq Id
  BY IngressAssumption DEF TypeOK, RedisType, PumpType, PoolType, Seen, Id
<1>1. ASSUME UNCHANGED <<delivered, deliveries>>, pel' \subseteq pel,
             \A q \in Proc : batch'[q] \subseteq batch[q],
             \A v \in Worker : holds'[v] \in {holds[v], 0}
      PROVE  HandedOut'
  BY <1>1 DEF HandedOut, Seen
<1>2. ASSUME NEW p \in Proc, ReadReply(p) PROVE HandedOut'
  <2>1. PICK top \in Ready :
           /\ batch' = [batch EXCEPT ![p] = UpTo(Ready, top)]
           /\ pel' = pel \cup UpTo(Ready, top)
           /\ deliveries' = [i \in Id |-> IF i \in UpTo(Ready, top) THEN 1 ELSE deliveries[i]]
           /\ delivered' = top
    BY <1>2 DEF ReadReply
  <2>2. UNCHANGED holds
    BY <1>2 DEF ReadReply, pool
  <2>3. top \in Id /\ delivered < top /\ UpTo(Ready, top) \subseteq Id
    BY DEF Ready, UpTo, TypeOK, RedisType
  <2>4. \A i \in Id \ Seen' : i \notin Seen /\ i \notin UpTo(Ready, top)
    BY <1>a, <2>1, <2>3 DEF Seen, UpTo, Id
  <2>5. \A i \in UpTo(Ready, top) : deliveries'[i] = 1
    BY <2>1, <2>3
  <2>6. \A i \in Id : deliveries[i] > 0 => deliveries'[i] > 0
    BY <1>a, <2>1
  <2>7. pel \subseteq Id /\ \A v \in Worker : holds[v] # 0 => holds[v] \in Id
    BY <1>a DEF Bounded
  <2>8. \A i \in Id \ Seen' : deliveries'[i] = 0
    BY <2>1, <2>4 DEF HandedOut
  <2>9. \A q \in Proc : \A i \in batch'[q] : deliveries'[i] > 0
    BY <1>a, <2>1, <2>5, <2>6 DEF HandedOut
  <2>10. \A i \in pel' : deliveries'[i] > 0
    BY <2>1, <2>5, <2>6, <2>7 DEF HandedOut
  <2>11. \A v \in Worker : holds'[v] # 0 => deliveries'[holds'[v]] > 0
    BY <2>2, <2>6, <2>7 DEF HandedOut
  <2> QED
    BY <2>8, <2>9, <2>10, <2>11 DEF HandedOut
<1>3. ASSUME NEW p \in Proc, Claim(p) PROVE HandedOut'
  <2>1. /\ pel' = pel \ (Claimable(p) \ stream)
        /\ deliveries' = [i \in Id |-> IF i \in Claimable(p) \cap stream
                                       THEN deliveries[i] + 1 ELSE deliveries[i]]
        /\ batch' = [batch EXCEPT ![p] = Claimable(p) \cap stream]
        /\ UNCHANGED <<delivered, holds>>
    BY <1>3 DEF Claim, pool
  <2>2. Claimable(p) \subseteq pel /\ pel \subseteq Seen
    BY <1>a DEF Claimable, Bounded
  <2>3. \A i \in Id : deliveries[i] > 0 => deliveries'[i] > 0
    BY <1>a, <2>1
  <2>4. \A i \in Id \ Seen : deliveries'[i] = 0
    BY <1>a, <2>1, <2>2 DEF HandedOut
  <2>5. \A v \in Worker : holds[v] # 0 => holds[v] \in Id
    BY <1>a DEF Bounded
  <2>6. \A q \in Proc : \A i \in batch'[q] : deliveries'[i] > 0
    BY <1>a, <2>1, <2>2, <2>3 DEF HandedOut
  <2>7. \A i \in pel' : deliveries'[i] > 0
    BY <1>a, <2>1, <2>2, <2>3 DEF HandedOut
  <2>8. \A v \in Worker : holds'[v] # 0 => deliveries'[holds'[v]] > 0
    BY <2>1, <2>3, <2>5 DEF HandedOut
  <2>9. Seen' = Seen
    BY <2>1 DEF Seen
  <2> QED
    BY <2>4, <2>6, <2>7, <2>8, <2>9 DEF HandedOut
<1>4. ASSUME NEW p \in Proc, NEW w \in Worker, Deliver(p, w) PROVE HandedOut'
  <2>1. PICK i \in batch[p] : /\ batch' = [batch EXCEPT ![p] = @ \ {i}]
                              /\ holds' = [holds EXCEPT ![w] = i]
    BY <1>4 DEF Deliver, Oldest
  <2>2. UNCHANGED <<delivered, deliveries, pel>>
    BY <1>4 DEF Deliver, redis
  <2> QED
    BY <1>a, <2>1, <2>2 DEF HandedOut, Seen
<1>5. ASSUME NEW p \in Proc, DlqAck(p) \/ PumpFails(p) \/ Shelve(p) \/ DeliverGarbage(p)
      PROVE  HandedOut'
  <2>1. /\ UNCHANGED <<delivered, deliveries, holds>> /\ pel' \subseteq pel
        /\ \A q \in Proc : batch'[q] \subseteq batch[q]
    BY <1>a, <1>5 DEF DlqAck, PumpFails, Shelve, DeliverGarbage, redis, pool
  <2> QED
    BY <1>1, <2>1
<1>6. ASSUME NEW w \in Worker, Ack(w) \/ RetryLater(w) PROVE HandedOut'
  <2>1. UNCHANGED <<delivered, deliveries, batch>> /\ pel' \subseteq pel
    BY <1>6 DEF Ack, RetryLater, redis, pump
  <2>2. \A v \in Worker : holds'[v] \in {holds[v], 0}
    BY <1>a, <1>6 DEF Ack, RetryLater, Loop
  <2> QED
    BY <1>1, <2>1, <2>2
<1>7. ASSUME NEW p \in Proc, Vanish(p) PROVE HandedOut'
  <2>1. UNCHANGED <<delivered, deliveries, pel>>
    BY <1>7 DEF Vanish, redis
  <2>2. /\ \A v \in Worker : holds'[v] \in {holds[v], 0}
        /\ \A q \in Proc : batch'[q] \subseteq batch[q]
    BY <1>a, <1>7 DEF Vanish
  <2> QED
    BY <1>1, <2>1, <2>2
<1>8. CASE UNCHANGED <<delivered, deliveries, pel, batch, holds>>
  BY <1>1, <1>8
<1> QED
  BY <1>2, <1>3, <1>4, <1>5, <1>6, <1>7, <1>8
  DEF Next, vars, redis, pump, pool, PumpStep, WorkerStep, WorkersOf, Publish, Age,
      PumpRead, Scan, DlqAdd, StartTurn, Answer, EndTurn, Shutdown, Exit, Crash,
      Restart

\* The envelope at place n of the chain of room r in process p.
InChain(p, r, n) == holds[lock[p][r][n]]

LEMMA FifoStep ==
  ASSUME TypeOK, Bounded, Chains, Members, HandedOut, Order, RoomFifo, [Next]_vars
  PROVE  Order' /\ RoomFifo'
<1>a. /\ batch \in [Proc -> SUBSET Id]
      /\ holds \in [Worker -> 0..MaxId]
      /\ lock \in [Proc -> [Room -> Seq(Worker)]]
      /\ ProcOf \in [Worker -> Proc]
      /\ deliveries \in [Id -> Nat]
      /\ delivered \in Nat
      /\ stale \subseteq pel
      /\ Seen \subseteq Id
  BY IngressAssumption DEF TypeOK, RedisType, PumpType, PoolType, Seen, Id
<1>b. \A q \in Proc, r \in Room :
        /\ lock[q][r] \in Seq(Worker)
        /\ DOMAIN lock[q][r] = 1..Len(lock[q][r])
        /\ \A n \in 1..Len(lock[q][r]) :
             /\ lock[q][r][n] \in Worker
             /\ at[lock[q][r][n]] \in {"queued", "turn", "sent"}
             /\ ProcOf[lock[q][r][n]] = q
  BY <1>a DEF Members
<1>c. \A q \in Proc, r \in Room : \A n \in 1..Len(lock[q][r]) :
        InChain(q, r, n) \in Seen /\ deliveries[InChain(q, r, n)] > 0
  BY <1>b DEF Bounded, HandedOut, TypeOK, HandsType, InChain
<1>d. /\ \A q \in Proc, r \in Room : \A n \in 1..Len(lock[q][r]) : \A i \in batch[q] :
            deliveries[InChain(q, r, n)] = 1 /\ deliveries[i] = 1 => InChain(q, r, n) < i
      /\ \A q \in Proc, r \in Room : \A m, n \in 1..Len(lock[q][r]) :
            m < n /\ deliveries[InChain(q, r, m)] = 1 /\ deliveries[InChain(q, r, n)] = 1
              => InChain(q, r, m) < InChain(q, r, n)
  BY <1>b DEF Order, RoomFifo, InChain
<1>1. ASSUME \A q \in Proc : \/ lock'[q] = lock[q]
                             \/ \A r \in Room : lock'[q][r] = << >>,
             \A q \in Proc, r \in Room : \A n \in 1..Len(lock[q][r]) :
               lock'[q] = lock[q] => holds'[lock[q][r][n]] = holds[lock[q][r][n]],
             \A i \in Seen : deliveries[i] > 0 /\ deliveries'[i] = 1 => deliveries[i] = 1,
             \A q \in Proc : \A i \in batch'[q] :
               deliveries'[i] = 1 => \/ i \in batch[q] /\ deliveries[i] = 1
                                     \/ \A j \in Seen : j < i
      PROVE  Order' /\ RoomFifo'
  <2> SUFFICES ASSUME NEW q \in Proc, NEW r \in Room
               PROVE  /\ \A n \in 1..Len(lock'[q][r]) : \A i \in batch'[q] :
                           /\ deliveries'[holds'[lock'[q][r][n]]] = 1
                           /\ deliveries'[i] = 1
                           => holds'[lock'[q][r][n]] < i
                      /\ \A m, n \in DOMAIN lock'[q][r] :
                           /\ m < n
                           /\ deliveries'[holds'[lock'[q][r][m]]] = 1
                           /\ deliveries'[holds'[lock'[q][r][n]]] = 1
                           => holds'[lock'[q][r][m]] < holds'[lock'[q][r][n]]
    BY DEF Order, RoomFifo
  <2>1. CASE lock'[q] = lock[q]
    <3>1. \A n \in 1..Len(lock[q][r]) :
            /\ holds'[lock'[q][r][n]] = InChain(q, r, n)
            /\ deliveries'[InChain(q, r, n)] = 1 => deliveries[InChain(q, r, n)] = 1
      BY <1>1, <1>c, <2>1 DEF InChain
    <3> QED
      BY <1>1, <1>b, <1>c, <1>d, <2>1, <3>1, SMTT(30)
  <2>2. CASE \A s \in Room : lock'[q][s] = << >>
    BY <2>2
  <2> QED
    BY <1>1, <2>1, <2>2
<1>2. ASSUME NEW p \in Proc, ReadReply(p) PROVE Order' /\ RoomFifo'
  <2>1. PICK top \in Ready :
           /\ batch' = [batch EXCEPT ![p] = UpTo(Ready, top)]
           /\ deliveries' = [i \in Id |-> IF i \in UpTo(Ready, top) THEN 1 ELSE deliveries[i]]
    BY <1>2 DEF ReadReply
  <2>2. UNCHANGED <<holds, lock>>
    BY <1>2 DEF ReadReply, pool
  <2>3. \A i \in UpTo(Ready, top) : i \in Id /\ i \notin Seen /\ \A j \in Seen : j < i
    <3> SUFFICES ASSUME NEW i \in UpTo(Ready, top)
                 PROVE  i \in Id /\ i \notin Seen /\ \A j \in Seen : j < i
      OBVIOUS
    <3>1. i \in stream /\ i > delivered
      BY DEF UpTo, Ready
    <3>2. i \in Id /\ i \in Nat
      BY <3>1, IngressAssumption DEF TypeOK, RedisType, Id
    <3> QED
      BY <1>a, <3>1, <3>2 DEF Seen
  <2>4. \A i \in Seen : deliveries'[i] = deliveries[i]
    BY <1>a, <2>1, <2>3
  <2>5. \A q \in Proc : \A i \in batch'[q] :
          deliveries'[i] = 1 => \/ i \in batch[q] /\ deliveries[i] = 1
                                \/ \A j \in Seen : j < i
    BY <1>a, <2>1, <2>3, <2>4 DEF Bounded
  <2> QED
    BY <1>1, <2>2, <2>4, <2>5
<1>3. ASSUME NEW p \in Proc, Claim(p) PROVE Order' /\ RoomFifo'
  <2>1. /\ deliveries' = [i \in Id |-> IF i \in Claimable(p) \cap stream
                                       THEN deliveries[i] + 1 ELSE deliveries[i]]
        /\ batch' = [batch EXCEPT ![p] = Claimable(p) \cap stream]
        /\ UNCHANGED <<holds, lock>>
    BY <1>3 DEF Claim, pool
  <2>2. \A i \in Claimable(p) : i \in Seen /\ deliveries[i] > 0
    BY <1>a DEF Claimable, Bounded, HandedOut
  <2>3. \A i \in Seen : deliveries[i] > 0 /\ deliveries'[i] = 1 => deliveries[i] = 1
    BY <1>a, <2>1
  <2>4. \A i \in Claimable(p) \cap stream : deliveries'[i] # 1
    BY <1>a, <2>1, <2>2
  <2>5. \A q \in Proc : \A i \in batch[q] : i \in Seen /\ deliveries[i] > 0
    BY DEF Bounded, HandedOut
  <2>6. \A q \in Proc : \A i \in batch'[q] :
          deliveries'[i] = 1 => i \in batch[q] /\ deliveries[i] = 1
    BY <1>a, <2>1, <2>3, <2>4, <2>5
  <2> QED
    BY <1>1, <2>1, <2>3, <2>6
<1>4. ASSUME NEW p \in Proc, NEW w \in Worker, Deliver(p, w) PROVE Order' /\ RoomFifo'
  <2>1. PICK i \in Id : /\ Oldest(batch[p], i)
                        /\ batch' = [batch EXCEPT ![p] = @ \ {i}]
                        /\ holds' = [holds EXCEPT ![w] = i]
                        /\ lock' = [lock EXCEPT ![p][RoomOf[i]] = Append(@, w)]
    BY <1>4 DEF Deliver
  <2>2. /\ at[w] = "idle" /\ RoomOf[i] \in Room
        /\ UNCHANGED deliveries
    BY <1>4, IngressAssumption DEF Deliver, Waiters, redis
  <2>3. i \in batch[p] /\ \A j \in batch[p] \ {i} : i < j
    BY <1>a, <2>1 DEF Oldest, Id
  <2> SUFFICES ASSUME NEW q \in Proc, NEW r \in Room
               PROVE  /\ \A n \in 1..Len(lock'[q][r]) : \A j \in batch'[q] :
                           /\ deliveries[holds'[lock'[q][r][n]]] = 1
                           /\ deliveries[j] = 1
                           => holds'[lock'[q][r][n]] < j
                      /\ \A m, n \in DOMAIN lock'[q][r] :
                           /\ m < n
                           /\ deliveries[holds'[lock'[q][r][m]]] = 1
                           /\ deliveries[holds'[lock'[q][r][n]]] = 1
                           => holds'[lock'[q][r][m]] < holds'[lock'[q][r][n]]
    BY <2>2 DEF Order, RoomFifo
  <2> DEFINE c == lock[q][r]
  <2>4. \A n \in 1..Len(c) : holds'[c[n]] = InChain(q, r, n)
    <3>1. \A n \in 1..Len(c) : c[n] \in Worker /\ c[n] # w
      <4>1. \A n \in 1..Len(c) :
              c[n] \in Worker /\ at[c[n]] \in {"queued", "turn", "sent"}
        BY <1>b
      <4> QED
        BY <2>2, <4>1
    <3>2. \A v \in Worker : v # w => holds'[v] = holds[v]
      BY <1>a, <2>1
    <3> QED
      BY <3>1, <3>2 DEF InChain
  <2>5. batch'[q] \subseteq batch[q]
    BY <1>a, <2>1
  <2>6. CASE q = p /\ r = RoomOf[i]
    <3>1. lock'[q][r] = Append(c, w) /\ c \in Seq(Worker)
      BY <1>a, <2>1, <2>2, <2>6
    <3>2. /\ DOMAIN Append(c, w) = 1..Len(Append(c, w))
          /\ Append(c, w)[Len(c) + 1] = w
          /\ Len(c) \in Nat
          /\ \A n \in 1..Len(c) : Append(c, w)[n] = c[n]
          /\ \A n \in 1..Len(Append(c, w)) : n \in 1..Len(c) \/ n = Len(c) + 1
      BY <3>1
    <3>3. holds'[w] = i /\ batch'[q] = batch[q] \ {i}
      BY <1>a, <2>1, <2>6
    <3>4. \A n \in 1..Len(c) :
            deliveries[InChain(q, r, n)] = 1 /\ deliveries[i] = 1 => InChain(q, r, n) < i
      BY <1>d, <2>3, <2>6
    <3>5. \A n \in 1..Len(c) : \A j \in batch[q] :
            deliveries[InChain(q, r, n)] = 1 /\ deliveries[j] = 1 => InChain(q, r, n) < j
      BY <1>d
    <3>6. \A m, n \in 1..Len(c) :
            m < n /\ deliveries[InChain(q, r, m)] = 1 /\ deliveries[InChain(q, r, n)] = 1
              => InChain(q, r, m) < InChain(q, r, n)
      BY <1>d
    <3> HIDE DEF c
    <3>7. \A n \in 1..Len(Append(c, w)) : \A j \in batch'[q] :
            /\ deliveries[holds'[Append(c, w)[n]]] = 1
            /\ deliveries[j] = 1
            => holds'[Append(c, w)[n]] < j
      BY <2>3, <2>4, <2>6, <3>2, <3>3, <3>5
    <3>8. \A m, n \in 1..Len(Append(c, w)) :
            m < n => m \in 1..Len(c)
      BY <3>2
    <3>9. \A m, n \in 1..Len(Append(c, w)) :
            /\ m < n
            /\ deliveries[holds'[Append(c, w)[m]]] = 1
            /\ deliveries[holds'[Append(c, w)[n]]] = 1
            => holds'[Append(c, w)[m]] < holds'[Append(c, w)[n]]
      BY <2>4, <3>2, <3>3, <3>4, <3>6, <3>8
    <3> QED
      BY <3>1, <3>2, <3>7, <3>9
  <2>7. CASE ~(q = p /\ r = RoomOf[i])
    <3>1. lock'[q][r] = c
      BY <1>a, <2>1, <2>2, <2>7
    <3> QED
      BY <1>b, <1>d, <2>4, <2>5, <3>1
  <2> QED
    BY <2>6, <2>7
<1>5. ASSUME NEW w \in Worker, EndTurn(w) PROVE Order' /\ RoomFifo'
  <2>1. /\ lock' = [lock EXCEPT ![ProcOf[w]][RoomOf[holds[w]]] = Tail(@)]
        /\ UNCHANGED <<holds, deliveries, batch>>
        /\ at[w] \in {"turn", "sent"}
    BY <1>5 DEF EndTurn, redis, pump
  <2>2. /\ ProcOf[w] \in Proc
        /\ RoomOf[holds[w]] \in Room
        /\ ChainOf(w) \in Seq(Worker)
    BY <2>1, Busy DEF TypeOK
  <2>3. PICK k \in 1..Len(ChainOf(w)) : ChainOf(w)[k] = w
    BY <2>1 DEF Chains
  <2>6. holds' = holds /\ deliveries' = deliveries /\ batch' = batch
    BY <2>1
  <2> SUFFICES ASSUME NEW q \in Proc, NEW r \in Room
               PROVE  /\ \A n \in 1..Len(lock'[q][r]) : \A j \in batch'[q] :
                           /\ deliveries'[holds'[lock'[q][r][n]]] = 1
                           /\ deliveries'[j] = 1
                           => holds'[lock'[q][r][n]] < j
                      /\ \A m, n \in DOMAIN lock'[q][r] :
                           /\ m < n
                           /\ deliveries'[holds'[lock'[q][r][m]]] = 1
                           /\ deliveries'[holds'[lock'[q][r][n]]] = 1
                           => holds'[lock'[q][r][m]] < holds'[lock'[q][r][n]]
    BY DEF Order, RoomFifo
  <2> DEFINE c == lock[q][r]
  <2>4. CASE q = ProcOf[w] /\ r = RoomOf[holds[w]]
    <3>1. c = ChainOf(w) /\ lock'[q][r] = Tail(c)
      BY <1>a, <2>1, <2>2, <2>4 DEF ChainOf
    <3>2. /\ Tail(c) \in Seq(Worker)
          /\ Len(Tail(c)) = Len(c) - 1
          /\ \A n \in 1..Len(Tail(c)) : Tail(c)[n] = c[n + 1]
      BY <2>2, <2>3, <3>1, TailType
    <3>3. /\ DOMAIN Tail(c) = 1..Len(Tail(c))
          /\ \A n \in 1..Len(Tail(c)) : n + 1 \in 1..Len(c)
      BY <1>b, <3>2
    <3>4. \A n \in 1..Len(c) : holds[c[n]] = InChain(q, r, n)
      BY DEF InChain
    <3>5. \A n \in 1..Len(c) : \A j \in batch[q] :
            deliveries[InChain(q, r, n)] = 1 /\ deliveries[j] = 1 => InChain(q, r, n) < j
      BY <1>d
    <3>6. \A m, n \in 1..Len(c) :
            m < n /\ deliveries[InChain(q, r, m)] = 1 /\ deliveries[InChain(q, r, n)] = 1
              => InChain(q, r, m) < InChain(q, r, n)
      BY <1>d
    <3> HIDE DEF c
    <3>7. \A n \in 1..Len(Tail(c)) : holds[Tail(c)[n]] = InChain(q, r, n + 1)
      BY <3>2, <3>3, <3>4
    <3>8. \A n \in 1..Len(Tail(c)) : \A j \in batch[q] :
            /\ deliveries[holds[Tail(c)[n]]] = 1
            /\ deliveries[j] = 1
            => holds[Tail(c)[n]] < j
      BY <3>3, <3>5, <3>7
    <3>9. \A m, n \in 1..Len(Tail(c)) :
            /\ m < n
            /\ deliveries[holds[Tail(c)[m]]] = 1
            /\ deliveries[holds[Tail(c)[n]]] = 1
            => holds[Tail(c)[m]] < holds[Tail(c)[n]]
      BY <3>3, <3>6, <3>7
    <3> DEFINE d == Tail(c)
    <3>10. lock'[q][r] = d /\ DOMAIN d = 1..Len(d)
      BY <3>1, <3>3
    <3>11. /\ \A n \in 1..Len(d) : \A j \in batch[q] :
                /\ deliveries[holds[d[n]]] = 1
                /\ deliveries[j] = 1
                => holds[d[n]] < j
           /\ \A m, n \in 1..Len(d) :
                /\ m < n
                /\ deliveries[holds[d[m]]] = 1
                /\ deliveries[holds[d[n]]] = 1
                => holds[d[m]] < holds[d[n]]
      BY <3>8, <3>9
    <3> HIDE DEF d
    <3> QED
      BY <2>6, <3>10, <3>11
  <2>5. CASE ~(q = ProcOf[w] /\ r = RoomOf[holds[w]])
    <3>1. lock'[q][r] = c
      BY <1>a, <2>1, <2>2, <2>5
    <3>2. DOMAIN c = 1..Len(c)
      BY <1>b
    <3>3. /\ \A n \in 1..Len(c) : \A j \in batch[q] :
               /\ deliveries[holds[c[n]]] = 1
               /\ deliveries[j] = 1
               => holds[c[n]] < j
          /\ \A m, n \in 1..Len(c) :
               /\ m < n
               /\ deliveries[holds[c[m]]] = 1
               /\ deliveries[holds[c[n]]] = 1
               => holds[c[m]] < holds[c[n]]
      BY <1>d DEF InChain
    <3> HIDE DEF c
    <3> QED
      BY <2>6, <3>1, <3>2, <3>3
  <2> QED
    BY <2>4, <2>5
<1>6. ASSUME UNCHANGED deliveries, UNCHANGED <<lock, holds>>,
             \A q \in Proc : batch'[q] \subseteq batch[q]
      PROVE  Order' /\ RoomFifo'
  BY <1>1, <1>6
<1>7. ASSUME NEW p \in Proc,
             DlqAdd(p) \/ DlqAck(p) \/ PumpFails(p) \/ Shelve(p) \/ DeliverGarbage(p)
      PROVE  Order' /\ RoomFifo'
  <2>1. UNCHANGED <<deliveries, lock, holds>>
    BY <1>7 DEF DlqAdd, DlqAck, PumpFails, Shelve, DeliverGarbage, redis, pool
  <2>2. CASE DlqAdd(p) \/ DlqAck(p)
    BY <1>6, <2>1, <2>2 DEF DlqAdd, DlqAck
  <2>3. CASE PumpFails(p) \/ Shelve(p) \/ DeliverGarbage(p)
    <3>1. PICK S \in SUBSET batch[p] : batch' = [batch EXCEPT ![p] = S]
      BY <1>a, <2>3 DEF PumpFails, Shelve, DeliverGarbage
    <3>2. \A q \in Proc : batch'[q] \subseteq batch[q]
      BY <1>a, <3>1
    <3> QED
      BY <1>6, <2>1, <3>2
  <2> QED
    BY <1>7, <2>2, <2>3
<1>8. ASSUME NEW w \in Worker, Ack(w) \/ RetryLater(w) PROVE Order' /\ RoomFifo'
  <2>1. UNCHANGED <<deliveries, batch, lock>> /\ at[w] \in {"ok", "failed"}
    BY <1>8 DEF Ack, RetryLater, redis, pump
  <2>2. \A v \in Worker : v # w => holds'[v] = holds[v]
    BY <1>a, <1>8 DEF Ack, RetryLater, Loop
  <2>3. \A q \in Proc, r \in Room : \A n \in 1..Len(lock[q][r]) : lock[q][r][n] # w
    BY <1>b, <2>1
  <2> QED
    BY <1>1, <1>b, <2>1, <2>2, <2>3
<1>9. ASSUME NEW p \in Proc, Vanish(p) PROVE Order' /\ RoomFifo'
  <2>1. UNCHANGED deliveries
    BY <1>9 DEF Vanish, redis
  <2>2. /\ \A q \in Proc : batch'[q] \subseteq batch[q]
        /\ \A r \in Room : lock'[p][r] = << >>
        /\ \A q \in Proc : q # p => lock'[q] = lock[q]
    BY <1>a, <1>9 DEF Vanish
  <2>3. \A v \in Worker : ProcOf[v] # p => holds'[v] = holds[v]
    BY <1>9 DEF Vanish
  <2>4. \A r \in Room : \A n \in 1..Len(lock[p][r]) : lock'[p] # lock[p]
    <3> SUFFICES ASSUME NEW r \in Room, NEW n \in 1..Len(lock[p][r]), lock'[p] = lock[p]
                 PROVE  FALSE
      OBVIOUS
    <3>1. lock[p][r] = << >>
      BY <2>2
    <3> QED
      BY <3>1
  <2> QED
    BY <1>1, <1>b, <2>1, <2>2, <2>3, <2>4
<1>10. CASE UNCHANGED <<deliveries, batch, holds, lock>>
  BY <1>6, <1>10
<1> QED
  BY <1>2, <1>3, <1>4, <1>5, <1>7, <1>8, <1>9, <1>10
  DEF Next, vars, redis, pump, pool, PumpStep, WorkerStep, WorkersOf, Publish, Age,
      PumpRead, Scan, StartTurn, Answer, Shutdown, Exit, Crash, Restart

-----------------------------------------------------------------------------
(* The theorems                                                            *)

LEMMA IInvInit == Init => IInv
<1> SUFFICES ASSUME Init PROVE IInv
  OBVIOUS
<1>1. TypeOK
  BY TypeInit
<1>2. Bounded /\ NoSilentLoss
  BY IngressAssumption DEF Init, Bounded, NoSilentLoss, Seen
<1>3. Custody /\ Chains
  BY DEF Init, Custody, Chains
<1>4. Counters
  BY IngressAssumption DEF Init, Counters, DeliveryBound, OnlyPoisonIsBuried
<1>5. \A p \in Proc, r \in Room : Len(lock[p][r]) = 0 /\ DOMAIN lock[p][r] = {}
  BY DEF Init
<1>6. Members /\ Order /\ RoomFifo
  BY <1>5 DEF Members, Order, RoomFifo
<1>7. HandedOut
  BY DEF Init, HandedOut
<1> QED
  BY <1>1, <1>2, <1>3, <1>4, <1>6, <1>7 DEF IInv

(* Inductive: IInv holds in every state the queue, the pumps and the pools  *)
(* can reach.                                                              *)
THEOREM Inductive == Spec => []IInv
<1>1. IInv /\ [Next]_vars => IInv'
  BY TypeStep, BoundedStep, NoSilentLossStep, CustodyStep, CountersStep, ChainsStep,
     MembersStep, HandedOutStep, FifoStep
  DEF IInv
<1> QED
  BY <1>1, IInvInit, PTL DEF Spec

(* TypeCorrect: the variables keep their types, and a worker has a delivery *)
(* in its hands exactly while it is busy with one (pool.ts:37-81).         *)
THEOREM TypeCorrect == Spec => []TypeOK
<1>1. IInv => TypeOK
  BY DEF IInv
<1> QED
  BY <1>1, Inductive, PTL

(* NothingIsLost: whatever crashes or fails and whenever, a published       *)
(* envelope can still be read, or was finished, buried or trimmed          *)
(* (queue.ts:4-6, 231).                                                    *)
THEOREM NothingIsLost == Spec => []NoSilentLoss
<1>1. IInv => NoSilentLoss
  BY DEF IInv
<1> QED
  BY <1>1, Inductive, PTL

(* BoundedDeliveries: any number of processes that scan the same PEL hand a *)
(* poison envelope out at most MAX_DELIVERIES times (queue.ts:36, 201).    *)
THEOREM BoundedDeliveries == Spec => []DeliveryBound
<1>1. IInv => DeliveryBound
  BY DEF IInv, Counters
<1> QED
  BY <1>1, Inductive, PTL

(* BuriedWithCause: what the DLQ holds used up its deliveries or could not  *)
(* be parsed (queue.ts:5-6, 150-158, 201).                                 *)
THEOREM BuriedWithCause == Spec => []OnlyPoisonIsBuried
<1>1. IInv => OnlyPoisonIsBuried
  BY DEF IInv, Counters
<1> QED
  BY <1>1, Inductive, PTL

(* RoomsAreSerial: two turns of one process never run at once in one room,  *)
(* redelivered copies included (lock.ts:1-2, 8-22).                        *)
THEOREM RoomsAreSerial == Spec => []OneTurnPerRoom
<1>1. IInv => OneTurnPerRoom
  <2> SUFFICES ASSUME IInv, NEW v \in Worker, NEW w \in Worker,
                      v # w, ProcOf[v] = ProcOf[w],
                      {at[v], at[w]} \subseteq {"turn", "sent"},
                      RoomOf[holds[v]] = RoomOf[holds[w]]
               PROVE  FALSE
    BY DEF OneTurnPerRoom
  <2>1. Head(ChainOf(v)) = v /\ Head(ChainOf(w)) = w
    BY DEF IInv, Chains
  <2> QED
    BY <2>1 DEF ChainOf
<1> QED
  BY <1>1, Inductive, PTL

(* FirstComeFirstServed: the first deliveries of a room reach the lock of a *)
(* process in the order they were published, however the deliveries of     *)
(* other processes, redeliveries and crashes interleave (lock.ts:1,        *)
(* queue.ts:141-163).                                                      *)
THEOREM FirstComeFirstServed == Spec => []RoomFifo
<1>1. IInv => RoomFifo
  BY DEF IInv
<1> QED
  BY <1>1, Inductive, PTL

-----------------------------------------------------------------------------
(* Ingress implements AtLeastOnce                                          *)

LEMMA QueueInit == Init => Queue!Init
<1> SUFFICES ASSUME Init PROVE Queue!Init
  OBVIOUS
<1>1. 1..posted = {} /\ Ready \cup pel = {}
  BY DEF Init, Ready
<1>2. {i \in Id : <<i, TRUE>> \in dlq} = {}
  BY DEF Init
<1> QED
  BY <1>1, <1>2 DEF Init, Queue!Init

\* An entry that leaves the PEL has been settled.
LEMMA Leaving ==
  ASSUME IInv, NEW S, S \subseteq pel, \A i \in S : Accounted(i),
         pel' = pel \ S, Ready' = Ready,
         UNCHANGED <<posted, deliveries, done, dlq, evicted>>
  PROVE  Queue!HandOut({}, S)
<1>1. S \subseteq Id /\ deliveries \in [Id -> Nat]
  BY DEF IInv, TypeOK, RedisType
<1>2. \A i \in S : i \in done \cup {j \in Id : <<j, TRUE>> \in dlq} \cup evicted
  BY <1>1 DEF Accounted
<1>3. \A i \in S : i \notin Ready
  BY DEF IInv, Bounded, Seen, Ready, TypeOK, RedisType
<1>4. Ready' \cup pel' = (Ready \cup pel) \ S
  BY <1>3
<1>5. deliveries' = [i \in Id |-> IF i \in {} THEN deliveries[i] + 1 ELSE deliveries[i]]
  BY <1>1
<1> QED
  BY <1>2, <1>4, <1>5 DEF Queue!HandOut, Queue!Settled

\* A step posts, hands out, finishes or buries, or the queue stutters.
LEMMA QueueStep ==
  ASSUME IInv, [Next]_vars
  PROVE  [Queue!Next]_Queue!queue
<1> DEFINE open == Ready \cup pel
           dead == {i \in Id : <<i, TRUE>> \in dlq}
<1>a. /\ posted \in 0..MaxId
      /\ stream \subseteq Id
      /\ delivered \in 0..MaxId
      /\ pel \subseteq Id
      /\ deliveries \in [Id -> Nat]
      /\ stale \subseteq pel
      /\ MaxId \in Nat
      /\ MaxDeliveries \in Nat \ {0}
      /\ Seen \subseteq Id
      /\ Seen \subseteq 1..posted
      /\ pel \subseteq Seen
      /\ stream \subseteq 1..posted
  BY IngressAssumption DEF IInv, TypeOK, RedisType, Bounded, Seen, Id
<1>b. \A S, T \in SUBSET (Ready \cup pel) : Queue!HandOut(S, T) => Queue!Next
  BY DEF Queue!Next
<1>c. \A i \in Id : Queue!Post(i) \/ Queue!Finish(i) \/ Queue!Bury(i) => Queue!Next
  BY DEF Queue!Next
<1>1. CASE UNCHANGED <<posted, stream, delivered, pel, deliveries, dlq, evicted, done>>
  <2>1. Ready' = Ready
    BY <1>1 DEF Ready
  <2> QED
    BY <1>1, <2>1 DEF Queue!queue
<1>2. CASE Publish
  <2>1. /\ posted < MaxId /\ posted' = posted + 1
        /\ UNCHANGED <<delivered, pel, deliveries, dlq, done>>
    BY <1>2 DEF Publish, ghosts
  <2>2. PICK cut \in 0..posted :
          stream' = Kept(cut) /\ evicted' = evicted \cup (stream \ Kept(cut))
    BY <1>2 DEF Publish
  <2> DEFINE i == posted + 1
             S == stream \ Kept(cut)
             T == Ready \ Kept(cut)
  <2>3. i \in Id \ (1..posted) /\ 1..posted' = (1..posted) \cup {i}
    BY <1>a, <2>1 DEF Id
  <2>4. S \in SUBSET (1..posted) /\ T \in SUBSET open /\ T \subseteq S
    BY <1>a DEF Ready
  <2>5. Ready' \cup pel' = (open \ T) \cup {i}
    <3>1. \A j \in pel : j \notin Ready
      BY <1>a DEF Seen, Ready
    <3>2. \A j \in Kept(cut) : j \in stream \/ j = i
      BY DEF Kept
    <3>3. i > delivered /\ i \in Kept(cut) /\ i \notin stream
      BY <1>a, <2>1 DEF Kept, IInv, Bounded
    <3>4. Ready' = {j \in Kept(cut) : j > delivered}
      BY <2>1, <2>2 DEF Ready
    <3>5. Ready' = (Ready \ T) \cup {i}
      BY <3>2, <3>3, <3>4 DEF Ready
    <3> QED
      BY <2>1, <3>1, <3>3, <3>5
  <2>6. Queue!Post(i)
    BY <2>1, <2>2, <2>3, <2>4, <2>5 DEF Queue!Post
  <2> QED
    BY <1>c, <2>3, <2>6
<1>3. ASSUME NEW p \in Proc, ReadReply(p) PROVE Queue!Next
  <2>1. PICK top \in Ready :
           /\ pel' = pel \cup UpTo(Ready, top)
           /\ deliveries' = [i \in Id |-> IF i \in UpTo(Ready, top) THEN 1 ELSE deliveries[i]]
           /\ delivered' = top
    BY <1>3 DEF ReadReply
  <2>2. UNCHANGED <<posted, stream, dlq, evicted, done>>
    BY <1>3 DEF ReadReply, ghosts
  <2> DEFINE U == UpTo(Ready, top)
  <2>3. U \subseteq Ready /\ Ready \subseteq Id
    BY <1>a DEF UpTo, Ready
  <2>4. \A i \in U : deliveries[i] = 0
    <3>1. \A i \in U : i \in Id /\ i > delivered
      BY <2>3 DEF Ready
    <3>2. \A i \in U : i \in Id \ Seen
      BY <1>a, <3>1 DEF Seen, Id
    <3> QED
      BY <3>2 DEF IInv, HandedOut
  <2>5. deliveries' = [i \in Id |-> IF i \in U THEN deliveries[i] + 1 ELSE deliveries[i]]
    BY <1>a, <2>1, <2>4
  <2>6. Ready' \cup pel' = open \ {}
    <3>1. top \in Nat /\ delivered < top /\ delivered \in Nat /\ Ready \subseteq Nat
      BY <1>a, <2>3 DEF Ready, Id
    <3>2. \A i \in stream : i \in Nat
      BY <1>a DEF Id
    <3>3. Ready' = {i \in stream : i > top}
      BY <2>1, <2>2 DEF Ready
    <3>4. \A i \in stream : (i > delivered <=> i \in U \/ i > top)
      BY <3>1, <3>2 DEF UpTo, Ready
    <3>5. Ready' \cup U = Ready
      BY <2>3, <3>3, <3>4 DEF Ready
    <3> QED
      BY <2>1, <3>5
  <2>7. Queue!HandOut(U, {})
    BY <1>a, <2>2, <2>3, <2>4, <2>5, <2>6 DEF Queue!HandOut
  <2> QED
    BY <1>b, <2>3, <2>7
<1>4. ASSUME NEW p \in Proc, Claim(p) PROVE Queue!Next
  <2> DEFINE S == Claimable(p) \cap stream
             T == Claimable(p) \ stream
  <2>1. /\ pel' = pel \ T
        /\ deliveries' = [i \in Id |-> IF i \in S THEN deliveries[i] + 1 ELSE deliveries[i]]
        /\ UNCHANGED <<posted, stream, delivered, dlq, evicted, done>>
    BY <1>4 DEF Claim, ghosts
  <2>2. Claimable(p) \subseteq pel
    BY <1>a DEF Claimable
  <2>3. \A i \in S : deliveries[i] < MaxDeliveries
    BY DEF Claimable, IInv, Counters
  <2>4. \A i \in T : i \in Id /\ Accounted(i)
    <3>1. \A i \in T : i \in 1..posted /\ i \in Id /\ ~Recoverable(i)
      BY <1>a, <2>2 DEF Recoverable
    <3> QED
      BY <3>1 DEF IInv, NoSilentLoss
  <2>5. T \subseteq open \cap Queue!Settled
    BY <2>2, <2>4 DEF Accounted, Queue!Settled
  <2>6. \A i \in pel : i \notin Ready
    BY <1>a DEF Seen, Ready
  <2>7. Ready' \cup pel' = open \ T
    BY <2>1, <2>2, <2>6 DEF Ready
  <2>8. Queue!HandOut(S, T)
    BY <2>1, <2>2, <2>3, <2>5, <2>7 DEF Queue!HandOut
  <2> QED
    BY <1>b, <2>2, <2>8
<1>5. ASSUME NEW i \in Id, Accounted(i), i \in Seen,
             pel' \in {pel, pel \ {i}}, stream' \in {stream, stream \ {i}},
             UNCHANGED <<posted, delivered, deliveries, done, dlq, evicted>>
      PROVE  [Queue!Next]_Queue!queue
  <2>1. i \notin Ready /\ Ready' = Ready
    BY <1>a, <1>5 DEF Ready, Seen
  <2>2. pel' = pel \ (pel \ pel') /\ \A j \in pel \ pel' : Accounted(j)
    BY <1>5
  <2>3. Queue!HandOut({}, pel \ pel')
    BY <1>5, <2>1, <2>2, Leaving
  <2> QED
    BY <1>b, <2>3
<1>6. ASSUME NEW p \in Proc, DlqAdd(p) PROVE [Queue!Next]_Queue!queue
  <2>1. PICK i \in Id : i \in doomed[p] /\ dlq' = dlq \cup {<<i, i \in stream>>}
    BY <1>6 DEF DlqAdd, Oldest
  <2>2. UNCHANGED <<posted, stream, delivered, pel, deliveries, evicted, done>>
    BY <1>6 DEF DlqAdd, ghosts
  <2>3. Ready' = Ready
    BY <2>2 DEF Ready
  <2>4. CASE i \in stream
    <3>1. (i \in stream) = TRUE
      BY <2>4
    <3>2. dlq' = dlq \cup {<<i, TRUE>>}
      BY <2>1, <3>1
    <3>3. \A j : <<j, TRUE>> \in dlq' <=> <<j, TRUE>> \in dlq \/ j = i
      BY <3>2, Zenon
    <3>4. {j \in Id : <<j, TRUE>> \in dlq}' = dead \cup {i}
      BY <3>3
    <3>5. i \in 1..posted /\ deliveries[i] = MaxDeliveries
      BY <1>a, <2>1 DEF IInv, Bounded, Counters
    <3>6. Queue!Bury(i)
      BY <2>2, <2>3, <3>4, <3>5 DEF Queue!Bury
    <3> QED
      BY <1>c, <3>6
  <2>5. CASE i \notin stream
    <3>1. (i \in stream) = FALSE
      BY <2>5
    <3>2. dlq' = dlq \cup {<<i, FALSE>>}
      BY <2>1, <3>1
    <3>3. \A j : <<j, TRUE>> \in dlq' <=> <<j, TRUE>> \in dlq
      BY <3>2, Zenon
    <3>4. {j \in Id : <<j, TRUE>> \in dlq}' = dead
      BY <3>3
    <3> QED
      BY <2>2, <2>3, <3>4 DEF Queue!queue
  <2> QED
    BY <2>4, <2>5
<1>7. ASSUME NEW p \in Proc, DeliverGarbage(p) PROVE Queue!Next
  <2>1. PICK i \in Garbage : i \in batch[p] /\ dlq' = dlq \cup {<<i, TRUE>>}
    BY <1>7 DEF DeliverGarbage, Oldest
  <2>2. UNCHANGED <<posted, stream, delivered, pel, deliveries, evicted, done>>
    BY <1>7 DEF DeliverGarbage, ghosts
  <2>3. Ready' = Ready
    BY <2>2 DEF Ready
  <2>4. \A j : <<j, TRUE>> \in dlq' <=> <<j, TRUE>> \in dlq \/ j = i
    BY <2>1, Zenon
  <2>5. {j \in Id : <<j, TRUE>> \in dlq}' = dead \cup {i}
    BY <2>4, IngressAssumption
  <2>6. i \in 1..posted /\ i \in Id
    BY <1>a, <2>1 DEF IInv, Bounded
  <2>7. Queue!Bury(i)
    BY <2>2, <2>3, <2>5, <2>6 DEF Queue!Bury
  <2> QED
    BY <1>c, <2>6, <2>7
<1>8. ASSUME NEW w \in Worker, EndTurn(w) PROVE [Queue!Next]_Queue!queue
  <2>1. /\ done' \in {done, done \cup {holds[w]}}
        /\ UNCHANGED <<posted, stream, delivered, pel, deliveries, dlq, evicted>>
    BY <1>8 DEF EndTurn, redis
  <2>2. Ready' = Ready
    BY <2>1 DEF Ready
  <2>3. CASE done' = done
    BY <2>1, <2>2, <2>3 DEF Queue!queue
  <2>4. CASE done' = done \cup {holds[w]}
    <3>1. holds[w] \in Id
      BY <1>8, Busy DEF EndTurn, IInv, TypeOK
    <3>2. holds[w] \in 1..posted /\ deliveries[holds[w]] > 0
      BY <1>a, <3>1 DEF IInv, Bounded, HandedOut, Id
    <3>3. Queue!Finish(holds[w])
      BY <2>1, <2>2, <2>4, <3>2 DEF Queue!Finish
    <3> QED
      BY <1>c, <3>1, <3>3
  <2> QED
    BY <2>1, <2>3, <2>4
<1>9. ASSUME NEW w \in Worker, Ack(w) PROVE [Queue!Next]_Queue!queue
  <2>1. /\ pel' \in {pel, pel \ {holds[w]}}
        /\ stream' \in {stream, stream \ {holds[w]}}
        /\ UNCHANGED <<posted, delivered, deliveries, done, dlq, evicted>>
    BY <1>9 DEF Ack, ghosts
  <2>2. holds[w] \in Id /\ holds[w] \in done
    BY <1>9, Busy DEF Ack, IInv, TypeOK, Custody
  <2>3. holds[w] \in Seen /\ Accounted(holds[w])
    BY <2>2 DEF IInv, Bounded, Accounted, Id
  <2> QED
    BY <1>5, <2>1, <2>2, <2>3
<1>10. ASSUME NEW p \in Proc, DlqAck(p) \/ PumpFails(p) PROVE [Queue!Next]_Queue!queue
  <2>1. /\ pel' \in {pel, pel \ {grave[p]}}
        /\ stream' \in {stream, stream \ {grave[p]}}
        /\ grave[p] = 0 => pel' = pel /\ stream' = stream
        /\ UNCHANGED <<posted, delivered, deliveries, done, dlq, evicted>>
    BY <1>10 DEF DlqAck, PumpFails, ghosts
  <2>2. CASE grave[p] = 0
    BY <1>1, <2>1, <2>2
  <2>3. CASE grave[p] # 0
    <3>1. grave[p] \in Seen /\ grave[p] \in Id /\ Accounted(grave[p])
      BY <1>a, <2>3 DEF IInv, Bounded, Custody
    <3> QED
      BY <1>5, <2>1, <3>1
  <2> QED
    BY <2>2, <2>3
<1> HIDE DEF open, dead
<1> QED
  BY <1>1, <1>2, <1>3, <1>4, <1>6, <1>7, <1>8, <1>9, <1>10
  DEF Next, vars, redis, pump, pool, ghosts, PumpStep, WorkerStep, WorkersOf, Age,
      PumpRead, Scan, Deliver, Shelve, StartTurn, Answer, RetryLater, Shutdown,
      Vanish, Exit, Crash, Restart

(* AtLeastOnceRefined: every behaviour of the stream, its PEL and the DLQ,  *)
(* seen from ingest and from the workers, is one of the at-least-once queue *)
(* of AtLeastOnce (queue.ts:4-6, 177-180, 231).                            *)
THEOREM AtLeastOnceRefined == Spec => ImplementsAtLeastOnce
<1>1. IInv /\ [Next]_vars => [Queue!Next]_Queue!queue
  BY QueueStep
<1> QED
  BY <1>1, QueueInit, Inductive, PTL DEF Spec, ImplementsAtLeastOnce, Queue!Spec
=============================================================================
