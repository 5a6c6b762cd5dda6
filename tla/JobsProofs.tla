------------------------------ MODULE JobsProofs ------------------------------
(***************************************************************************)
(* Theorems about what a process does beside the turns of its rooms, for    *)
(* every set of processes, every bound and every number of faults: the jobs *)
(* of Scheduler and the daily run of KbDigest, the questions that nobody    *)
(* answers (Proactive), the verdicts of the judge (Verdict), the life of a  *)
(* process (Lifecycle) and who answers a message (Routing). Each has an     *)
(* inductive invariant of its own; the property of steps, FiredAsPlanned,   *)
(* follows from what SchedulerIInv says of the state before a claim.        *)
(* JobsIInv puts the six together as MCJobs does: the part that runs keeps   *)
(* its own invariant, the others their types.                              *)
(***************************************************************************)
EXTENDS MCJobs, TLAPS

-----------------------------------------------------------------------------
(* Scheduler                                                               *)

\* The types of the variables, function by function.
RowsTyped ==
  /\ clock \in 0..MaxClock
  /\ job \in [Job -> Row]
  /\ seen \subseteq Firing
  /\ noted \in [Firing -> Nat] /\ fired \in [Firing -> Nat]
  /\ ran \in [Firing -> 0..MaxClock]
  /\ round \in [Host -> {"rest", "claim", "see", "note", "publish"}]
  /\ lot \in [Host -> SUBSET Item]
  /\ due \in [Host -> Item \cup {<<>>}]
  /\ since \in [Host -> 0..MaxClock]
  /\ raced \subseteq Job

\* What SchedulerTypeOK relates.
RowsRelated ==
  /\ \A j \in Job : job[j].state \in {"none", "gone"} => job[j].next = 0
  /\ checked \subseteq {j \in Job : job[j].state = "none"}
  /\ \A h \in Host : due[h] # <<>> <=> round[h] \in {"see", "note", "publish"}
  /\ \A h \in Host : since[h] <= clock

\* A process is about to put the firing of the row it is at in the history, or
\* in the queue.
AtWork(h) == round[h] \in {"note", "publish"}

\* One process has marked a firing in the dedupe, and it alone goes on with it.
Tokens ==
  /\ \A h \in Host : due[h] # <<>> => due[h][3] # 0
  /\ \A h \in Host : AtWork(h) => CronMsgId(h) \in seen
  /\ \A h, k \in Host : AtWork(h) /\ AtWork(k) /\ CronMsgId(h) = CronMsgId(k) => h = k
  /\ \A h \in Host : round[h] = "note" => noted[CronMsgId(h)] = 0
  /\ \A h \in Host : round[h] = "publish" => noted[CronMsgId(h)] = 1 /\ fired[CronMsgId(h)] = 0
  /\ \A f \in Firing : f \notin seen => noted[f] = 0
  /\ \A f \in Firing : noted[f] <= 1 /\ fired[f] <= noted[f]

\* A job that has a mark is on, the mark is of its schedule, and it lies after
\* the start of every tick that claimed the job.
Planned(j) ==
  job[j].next # 0 =>
    /\ Enabled(j) /\ job[j].next % Day = job[j].at
    /\ \A f \in Firing : f[1] = j /\ ran[f] > 0 => ran[f] < job[j].next

\* A row as a tick remembers it: its mark is of its schedule; one read without
\* a mark is still as it was read while it has none.
AsRead(h, item) ==
  LET j == item[1] IN
  /\ item[3] # 0 => item[3] % Day = item[2]
  /\ item[3] = 0 /\ There(j) /\ job[j].next = 0 =>
       /\ Enabled(j) /\ item[2] = job[j].at
       /\ \A f \in Firing : f[1] = j => ran[f] <= since[h]

Marks ==
  /\ \A f \in Firing : ran[f] > 0 => f[2] <= ran[f]
  /\ \A f \in Firing : ran[f] <= clock
  /\ \A h \in Host : \A item \in lot[h] : item[3] <= since[h] /\ job[item[1]].state # "none"
  /\ \A j \in Job \ raced : Planned(j)
  /\ \A h \in Host : \A item \in lot[h] : item[1] \notin raced => AsRead(h, item)

\* The second half of FiredOnce.
MadeUpOnce ==
  \A f, g \in Firing :
    f[1] = g[1] /\ f[1] \notin raced /\ f[2] < g[2] /\ ran[f] > 0 /\ ran[g] > 0 => ran[f] < g[2]

SchedulerIInv == FaultsOK /\ RowsTyped /\ RowsRelated /\ Tokens /\ Marks /\ MadeUpOnce

-----------------------------------------------------------------------------
(* Minutes and days                                                        *)

LEMMA DayParts ==
  ASSUME NEW t \in Nat
  PROVE  /\ t \div Day \in Nat /\ t % Day \in Schedule
         /\ t = (t \div Day) * Day + (t % Day)
BY SchedulerAssumption DEF Schedule

LEMMA MinuteOfDay ==
  ASSUME NEW q \in Nat, NEW at \in Schedule
  PROVE  q * Day + at \in Nat /\ (q * Day + at) % Day = at
BY SchedulerAssumption DEF Schedule

\* A schedule names a minute in every day that follows.
LEMMA NextRun ==
  ASSUME NEW at \in Schedule, NEW t \in Nat
  PROVE  /\ NextRunAfter(at, t) \in (t + 1)..(t + Day)
         /\ NextRunAfter(at, t) % Day = at
<1> DEFINE q == t \div Day
           r == t % Day
<1>1. q \in Nat /\ r \in 0..(Day - 1) /\ t = q * Day + r /\ at \in 0..(Day - 1) /\ Day \in Nat
  BY DayParts, SchedulerAssumption DEF Schedule
<1>2. /\ q * Day + at \in Nat /\ (q * Day + at) % Day = at
      /\ (q + 1) * Day + at \in Nat /\ ((q + 1) * Day + at) % Day = at
  BY <1>1, MinuteOfDay
<1>3. (q + 1) * Day = q * Day + Day /\ q * Day \in Nat
  BY <1>1
<1> HIDE DEF q, r
<1>4. \E m \in (t + 1)..(t + Day) : m % Day = at
  <2>1. CASE at > r
    <3>1. q * Day + at \in (t + 1)..(t + Day)
      BY <1>1, <1>3, <2>1
    <3> QED
      BY <1>2, <3>1
  <2>2. CASE at <= r
    <3>1. (q + 1) * Day + at \in (t + 1)..(t + Day)
      BY <1>1, <1>3, <2>2
    <3> QED
      BY <1>2, <3>1
  <2> QED
    BY <1>1, <2>1, <2>2
<1> QED
  BY <1>4 DEF NextRunAfter

-----------------------------------------------------------------------------
(* Types                                                                   *)

LEMMA SchedulerTypes ==
  ASSUME RowsTyped, RowsRelated
  PROVE  SchedulerTypeOK
<1>1. ASSUME NEW h \in Host PROVE since[h] \in 0..clock
  <2>1. since[h] \in 0..MaxClock /\ clock \in 0..MaxClock /\ since[h] <= clock
    BY DEF RowsTyped, RowsRelated
  <2> QED
    BY <2>1, SchedulerAssumption
<1>2. \A h \in Host : lot[h] \subseteq Item /\ due[h] \in Item \cup {<<>>}
  BY DEF RowsTyped
<1> QED
  BY <1>1, <1>2 DEF SchedulerTypeOK, RowsTyped, RowsRelated

LEMMA ItemShape ==
  ASSUME NEW item \in Item
  PROVE  /\ item # <<>> /\ item[1] \in Job /\ item[2] \in Schedule
         /\ item[3] \in {0} \cup Mark
         /\ item[3] # 0 => <<item[1], item[3]>> \in Firing
BY DEF Item, Firing

LEMMA RowShape ==
  ASSUME NEW row \in Row
  PROVE  /\ row.state \in {"none", "on", "off", "gone"} /\ row.at \in Schedule
         /\ row.next \in {0} \cup Mark
BY DEF Row

LEMMA Numbers ==
  /\ Day \in Nat \ {0} /\ MaxClock \in Nat /\ Mark \subseteq Nat \ {0} /\ Schedule \subseteq Nat
  /\ \A f \in Firing : f[1] \in Job /\ f[2] \in Mark
BY SchedulerAssumption DEF Mark, Schedule, Firing

\* The mark that a claim computes.
LEMMA NextMark ==
  ASSUME RowsTyped, RowsRelated, NEW h \in Host, NEW at \in Schedule
  PROVE  /\ NextRunAfter(at, since[h]) \in Mark
         /\ NextRunAfter(at, since[h]) > since[h]
         /\ NextRunAfter(at, since[h]) % Day = at
<1>1. since[h] \in Nat /\ since[h] <= MaxClock /\ Day \in Nat /\ MaxClock \in Nat
  BY Numbers DEF RowsTyped
<1>2. /\ NextRunAfter(at, since[h]) \in (since[h] + 1)..(since[h] + Day)
      /\ NextRunAfter(at, since[h]) % Day = at
  BY <1>1, NextRun
<1> QED
  BY <1>1, <1>2 DEF Mark

\* One field of a row.
LEMMA RowUpdate ==
  ASSUME NEW row \in Row, NEW state \in {"none", "on", "off", "gone"}, NEW at \in Schedule,
         NEW next \in {0} \cup Mark
  PROVE  /\ [row EXCEPT !.next = next] = [state |-> row.state, at |-> row.at, next |-> next]
         /\ [state |-> state, at |-> at, next |-> next] \in Row
         /\ [row EXCEPT !.next = next] \in Row
BY DEF Row

-----------------------------------------------------------------------------
(* Rounds                                                                  *)

\* The types and relations of what a tick keeps, after a step.
RoundTypes ==
  /\ round' \in [Host -> {"rest", "claim", "see", "note", "publish"}]
  /\ lot' \in [Host -> SUBSET Item]
  /\ due' \in [Host -> Item \cup {<<>>}]
  /\ since' \in [Host -> 0..MaxClock]
  /\ \A k \in Host : due'[k] # <<>> <=> round'[k] \in {"see", "note", "publish"}
  /\ \A k \in Host : since'[k] <= clock

\* A step of the process h in its tick leaves the others alone, and reads no row.
Move(h) ==
  /\ lot'[h] \subseteq lot[h] /\ (lot'[h] = {} \/ since'[h] = since[h])
  /\ \A k \in Host \ {h} :
       round'[k] = round[k] /\ lot'[k] = lot[k] /\ due'[k] = due[k] /\ since'[k] = since[k]

LEMMA NextRowStep ==
  ASSUME RowsTyped, RowsRelated, NEW h \in Host, NEW rest \in SUBSET lot[h], NextRow(h, rest)
  PROVE  RoundTypes /\ Move(h) /\ due'[h] = <<>> /\ round'[h] \in {"rest", "claim"}
<1>a. /\ round \in [Host -> {"rest", "claim", "see", "note", "publish"}]
      /\ lot \in [Host -> SUBSET Item]
      /\ due \in [Host -> Item \cup {<<>>}]
      /\ since \in [Host -> 0..MaxClock]
      /\ clock \in Nat /\ 0 \in 0..MaxClock
  BY Numbers DEF RowsTyped
<1>1. /\ round' = [round EXCEPT ![h] = IF rest = {} THEN "rest" ELSE "claim"]
      /\ lot' = [lot EXCEPT ![h] = rest]
      /\ due' = [due EXCEPT ![h] = <<>>]
      /\ since' = [since EXCEPT ![h] = IF rest = {} THEN 0 ELSE @]
  BY DEF NextRow
<1>2. due'[h] = <<>> /\ round'[h] \in {"rest", "claim"}
  BY <1>a, <1>1
<1>3. Move(h)
  BY <1>a, <1>1 DEF Move
<1>4. /\ round' \in [Host -> {"rest", "claim", "see", "note", "publish"}]
      /\ lot' \in [Host -> SUBSET Item]
      /\ due' \in [Host -> Item \cup {<<>>}]
      /\ since' \in [Host -> 0..MaxClock]
  BY <1>a, <1>1
<1>5. \A k \in Host : due'[k] # <<>> <=> round'[k] \in {"see", "note", "publish"}
  BY <1>2, <1>3 DEF Move, RowsRelated
<1>6. \A k \in Host : since'[k] <= clock
  BY <1>a, <1>1 DEF RowsRelated
<1> QED
  BY <1>2, <1>3, <1>4, <1>5, <1>6 DEF RoundTypes

LEMMA StayAtStep ==
  ASSUME RowsTyped, RowsRelated, NEW h \in Host, due[h] # <<>>,
         NEW where \in {"note", "publish"}, StayAt(h, where)
  PROVE  RoundTypes /\ Move(h) /\ due' = due /\ round'[h] = where
BY DEF RowsTyped, RowsRelated, StayAt, RoundTypes, Move

\* What a tick does with rows that it does not claim.
LEMMA MarksFrame ==
  ASSUME Marks, MadeUpOnce, NEW h \in Host, Move(h), UNCHANGED <<clock, job, ran, raced>>
  PROVE  Marks' /\ MadeUpOnce'
<1>1. ASSUME NEW k \in Host, NEW item \in lot'[k]
      PROVE  /\ item[3] <= since'[k] /\ job'[item[1]].state # "none"
             /\ item[1] \notin raced' => AsRead(k, item)'
  <2>1. item \in lot[k] /\ since'[k] = since[k]
    BY <1>1 DEF Move
  <2> QED
    BY <2>1 DEF Marks, AsRead, There, Enabled
<1>2. Marks'
  BY <1>1 DEF Marks, Planned, Enabled
<1> QED
  BY <1>2 DEF MadeUpOnce

\* A claim that finds its row: the job gets its next mark, and the present one,
\* if it had one, is run.
LEMMA SwapStep ==
  ASSUME RowsTyped, RowsRelated, Marks, MadeUpOnce, NEW h \in Host, NEW item \in lot[h],
         Unclaimed(item), Move(h), UNCHANGED <<clock, raced>>,
         job' = [job EXCEPT ![item[1]] = [state |-> @.state, at |-> @.at,
                                          next |-> NextRunAfter(item[2], since[h])]],
         ran' = IF item[3] = 0 THEN ran ELSE [ran EXCEPT ![<<item[1], item[3]>>] = since[h]]
  PROVE  /\ job' \in [Job -> Row] /\ ran' \in [Firing -> 0..MaxClock]
         /\ \A j \in Job : job'[j].state = job[j].state
         /\ Marks' /\ MadeUpOnce'
<1>a. /\ job \in [Job -> Row] /\ ran \in [Firing -> 0..MaxClock]
      /\ since \in [Host -> 0..MaxClock] /\ clock \in 0..MaxClock
      /\ item \in Item
  BY DEF RowsTyped
<1> DEFINE j == item[1]
           m == item[3]
           next == NextRunAfter(item[2], since[h])
<1>1. /\ j \in Job /\ item[2] \in Schedule /\ m \in {0} \cup Mark
      /\ m # 0 => <<j, m>> \in Firing
  BY <1>a, ItemShape
<1>2. next \in Mark /\ next > since[h] /\ next % Day = item[2] /\ since[h] \in Nat
  BY <1>a, <1>1, NextMark, Numbers
<1>3. There(j) /\ job[j].next = m /\ m <= since[h] /\ since[h] <= clock
  BY DEF Unclaimed, Marks, RowsRelated
<1>4. /\ job' = [job EXCEPT ![j] = [state |-> job[j].state, at |-> job[j].at, next |-> next]]
      /\ ran' = IF m = 0 THEN ran ELSE [ran EXCEPT ![<<j, m>>] = since[h]]
  OBVIOUS
<1>5. j \notin raced => AsRead(h, item)
  BY DEF Marks
<1> HIDE DEF j, m, next
<1>6. job[j] \in Row /\ [state |-> job[j].state, at |-> job[j].at, next |-> next] \in Row
  BY <1>a, <1>1, <1>2, RowShape, RowUpdate
<1>7. /\ job' \in [Job -> Row] /\ ran' \in [Firing -> 0..MaxClock]
      /\ job'[j].state = job[j].state /\ job'[j].at = job[j].at /\ job'[j].next = next
      /\ \A k \in Job \ {j} : job'[k] = job[k]
  <2>1. PICK row \in Row : /\ row = [state |-> job[j].state, at |-> job[j].at, next |-> next]
                          /\ job' = [job EXCEPT ![j] = row]
    BY <1>4, <1>6
  <2>2. row.state = job[j].state /\ row.at = job[j].at /\ row.next = next
    BY <2>1
  <2>3. /\ job' \in [Job -> Row] /\ job'[j] = row
        /\ \A k \in Job \ {j} : job'[k] = job[k]
    BY <1>a, <1>1, <2>1
  <2>4. ran' \in [Firing -> 0..MaxClock]
    BY <1>a, <1>1, <1>4, ZenonT(60)
  <2> QED
    BY <2>2, <2>3, <2>4
<1>8. \A f \in Firing : ran'[f] = ran[f] \/ (m # 0 /\ f = <<j, m>> /\ ran'[f] = since[h])
  BY <1>a, <1>4
<1>9. \A f \in Firing : f[1] # j => ran'[f] = ran[f]
  BY <1>8
\* All that this job has run so far lies before the present mark, or, when it
\* had none, before the tick.
<1>10. ASSUME j \notin raced
       PROVE  /\ Enabled(j) /\ item[2] = job[j].at
              /\ \A f \in Firing : f[1] = j /\ ran[f] > 0 => ran[f] <= since[h]
              /\ m # 0 => \A f \in Firing : f[1] = j /\ ran[f] > 0 => ran[f] < m
  <2>1. CASE m = 0
    <3>1. /\ Enabled(j) /\ item[2] = job[j].at
          /\ \A f \in Firing : f[1] = j => ran[f] <= since[h]
      BY <1>3, <1>5, <1>10, <2>1 DEF AsRead, j, m
    <3> QED
      BY <2>1, <3>1
  <2>2. CASE m # 0
    <3>1. Planned(j)
      BY <1>1, <1>10 DEF Marks
    <3>2. /\ Enabled(j) /\ m % Day = job[j].at
          /\ \A f \in Firing : f[1] = j /\ ran[f] > 0 => ran[f] < m
      BY <1>3, <2>2, <3>1 DEF Planned
    <3>3. m % Day = item[2]
      BY <1>5, <1>10, <2>2 DEF AsRead, j, m
    <3>4. \A f \in Firing : f[1] = j /\ ran[f] > 0 => ran[f] <= since[h]
      BY <1>a, <1>1, <1>2, <1>3, <3>2, Numbers
    <3> QED
      BY <3>2, <3>3, <3>4
  <2> QED
    BY <2>1, <2>2
<1>11. \A f \in Firing : ran'[f] > 0 => f[2] <= ran'[f]
  BY <1>3, <1>8 DEF Marks
<1>12. \A f \in Firing : ran'[f] <= clock'
  BY <1>3, <1>8 DEF Marks
<1>13. ASSUME NEW k \in Job \ raced' PROVE Planned(k)'
  <2>1. CASE k # j
    BY <1>7, <1>9, <2>1 DEF Marks, Planned, Enabled
  <2>2. CASE k = j
    <3>1. \A f \in Firing : f[1] = j /\ ran'[f] > 0 => ran'[f] <= since[h]
      BY <1>8, <1>10, <1>13, <1>2, <2>2
    <3>2. \A f \in Firing : f[1] = j /\ ran'[f] > 0 => ran'[f] < next
      BY <1>2, <1>7, <3>1, Numbers
    <3>3. Enabled(j)' /\ job'[j].next % Day = job'[j].at
      BY <1>2, <1>7, <1>10, <1>13, <2>2 DEF Enabled
    <3> QED
      BY <1>7, <2>2, <3>2, <3>3 DEF Planned
  <2> QED
    BY <2>1, <2>2
<1>14. ASSUME NEW k \in Host, NEW other \in lot'[k]
       PROVE  /\ other[3] <= since'[k] /\ job'[other[1]].state # "none"
              /\ other[1] \notin raced' => AsRead(k, other)'
  <2>1. other \in lot[k] /\ since'[k] = since[k] /\ other[1] \in Job
    BY <1>14, ItemShape, ZenonT(60) DEF Move, RowsTyped
  <2>2. other[3] <= since'[k] /\ job'[other[1]].state # "none"
    BY <1>7, <2>1 DEF Marks
  <2>3. ASSUME other[1] \notin raced' PROVE AsRead(k, other)'
    <3>1. AsRead(k, other)
      BY <2>1, <2>3 DEF Marks
    <3>2. CASE other[1] = j
      <4>1. job'[j].next # 0
        BY <1>2, <1>7, Numbers
      <4> QED
        BY <3>1, <3>2, <4>1 DEF AsRead
    <3>3. CASE other[1] # j
      BY <1>7, <1>9, <2>1, <3>1, <3>3 DEF AsRead, There, Enabled
    <3> QED
      BY <3>2, <3>3
  <2> QED
    BY <2>2, <2>3
<1>15. Marks'
  BY <1>11, <1>12, <1>13, <1>14 DEF Marks
<1>16. MadeUpOnce'
  <2>1. SUFFICES ASSUME NEW f \in Firing, NEW g \in Firing,
                        f[1] = g[1], f[1] \notin raced, f[2] < g[2], ran'[f] > 0, ran'[g] > 0
                 PROVE  ran'[f] < g[2]
    BY DEF MadeUpOnce
  <2>2. CASE ran'[f] = ran[f] /\ ran'[g] = ran[g]
    BY <2>1, <2>2 DEF MadeUpOnce
  <2>3. CASE m # 0 /\ g = <<j, m>> /\ ran'[f] = ran[f]
    BY <1>10, <2>1, <2>3
  <2>4. CASE m # 0 /\ f = <<j, m>> /\ ran'[g] = ran[g]
    <3>1. g[2] <= ran[g]
      BY <2>1, <2>4 DEF Marks
    <3>2. ran[g] < m
      BY <1>10, <2>1, <2>4
    <3> QED
      BY <1>a, <1>1, <2>1, <2>4, <3>1, <3>2, Numbers
  <2>5. CASE f = <<j, m>> /\ g = <<j, m>>
    BY <1>1, <2>1, <2>5, Numbers
  <2> QED
    BY <1>8, <2>2, <2>3, <2>4, <2>5
<1>17. \A k \in Job : job'[k].state = job[k].state
  BY <1>7
<1> QED
  BY <1>7, <1>15, <1>16, <1>17

-----------------------------------------------------------------------------
(* Tokens                                                                  *)

\* The firing of the row that a process is at.
LEMMA AtFiring ==
  ASSUME RowsTyped, RowsRelated, Tokens, NEW h \in Host, due[h] # <<>>
  PROVE  CronMsgId(h) \in Firing
<1>1. due[h] \in Item /\ due[h][3] # 0
  BY DEF RowsTyped, Tokens
<1> QED
  BY <1>1, ItemShape DEF CronMsgId

\* A step that puts no process to work and nothing in the room.
LEMMA TokensFrame ==
  ASSUME Tokens, seen \subseteq seen', UNCHANGED <<noted, fired>>,
         \A k \in Host : due'[k] # <<>> => due'[k][3] # 0,
         \A k \in Host : AtWork(k)' => round'[k] = round[k] /\ due'[k] = due[k]
  PROVE  Tokens'
<1>1. \A k \in Host : AtWork(k)' => AtWork(k) /\ CronMsgId(k)' = CronMsgId(k)
  BY DEF AtWork, CronMsgId
<1>2. \A k \in Host : AtWork(k)' => CronMsgId(k)' \in seen'
  BY <1>1 DEF Tokens
<1>3. \A k, l \in Host : AtWork(k)' /\ AtWork(l)' /\ CronMsgId(k)' = CronMsgId(l)' => k = l
  BY <1>1 DEF Tokens
<1>4. \A k \in Host : round'[k] = "note" => noted'[CronMsgId(k)'] = 0
  BY <1>1 DEF Tokens, AtWork
<1>5. \A k \in Host : round'[k] = "publish" =>
        noted'[CronMsgId(k)'] = 1 /\ fired'[CronMsgId(k)'] = 0
  BY <1>1 DEF Tokens, AtWork
<1>6. /\ \A f \in Firing : f \notin seen' => noted'[f] = 0
      /\ \A f \in Firing : noted'[f] <= 1 /\ fired'[f] <= noted'[f]
  BY DEF Tokens
<1> QED
  BY <1>2, <1>3, <1>4, <1>5, <1>6 DEF Tokens

\* The row that a process is at when its tick moves on.
LEMMA TokensMove ==
  ASSUME Tokens, NEW h \in Host, Move(h), due'[h] = <<>>, round'[h] \in {"rest", "claim"},
         seen \subseteq seen', UNCHANGED <<noted, fired>>
  PROVE  Tokens'
<1>1. \A k \in Host : due'[k] # <<>> => due'[k][3] # 0
  BY DEF Tokens, Move
<1>2. \A k \in Host : AtWork(k)' => round'[k] = round[k] /\ due'[k] = due[k]
  BY DEF AtWork, Move
<1> QED
  BY <1>1, <1>2, TokensFrame

\* The first to see a firing goes on with it.
LEMMA TokensSeen ==
  ASSUME RowsTyped, RowsRelated, Tokens, NEW h \in Host, round[h] = "see",
         CronMsgId(h) \notin seen, seen' = seen \cup {CronMsgId(h)},
         Move(h), due' = due, round'[h] = "note", UNCHANGED <<noted, fired>>
  PROVE  Tokens'
<1>1. CronMsgId(h) \in Firing
  BY AtFiring DEF RowsRelated
<1>2. \A k \in Host : CronMsgId(k)' = CronMsgId(k)
  BY DEF CronMsgId
<1>3. \A k \in Host : k # h /\ AtWork(k)' => AtWork(k) /\ round'[k] = round[k]
  BY DEF AtWork, Move
<1>4. noted[CronMsgId(h)] = 0
  BY <1>1 DEF Tokens
<1>5. \A k \in Host : k # h /\ AtWork(k)' => CronMsgId(k) # CronMsgId(h)
  BY <1>3 DEF Tokens
<1>6. \A k \in Host : AtWork(k)' => CronMsgId(k)' \in seen'
  BY <1>2, <1>3 DEF Tokens
<1>7. \A k, l \in Host : AtWork(k)' /\ AtWork(l)' /\ CronMsgId(k)' = CronMsgId(l)' => k = l
  BY <1>2, <1>3, <1>5 DEF Tokens
<1>8. \A k \in Host : round'[k] = "note" => noted'[CronMsgId(k)'] = 0
  BY <1>2, <1>3, <1>4 DEF Tokens, AtWork
<1>9. \A k \in Host : round'[k] = "publish" =>
        noted'[CronMsgId(k)'] = 1 /\ fired'[CronMsgId(k)'] = 0
  BY <1>2, <1>3 DEF Tokens, AtWork
<1>10. /\ \A k \in Host : due'[k] # <<>> => due'[k][3] # 0
       /\ \A f \in Firing : f \notin seen' => noted'[f] = 0
       /\ \A f \in Firing : noted'[f] <= 1 /\ fired'[f] <= noted'[f]
  BY DEF Tokens
<1> QED
  BY <1>6, <1>7, <1>8, <1>9, <1>10 DEF Tokens

\* Whoever is at work with a firing alone adds to its counts.
LEMMA TokensAlone ==
  ASSUME RowsTyped, RowsRelated, Tokens, NEW h \in Host, AtWork(h), Move(h), seen' = seen,
         due'[h] \in {<<>>, due[h]},
         AtWork(h)' => due'[h] = due[h],
         \A f \in Firing : f # CronMsgId(h) => noted'[f] = noted[f] /\ fired'[f] = fired[f],
         noted'[CronMsgId(h)] <= 1, fired'[CronMsgId(h)] <= noted'[CronMsgId(h)],
         round'[h] \in {"rest", "claim", "publish"},
         round'[h] = "publish" => noted'[CronMsgId(h)] = 1 /\ fired'[CronMsgId(h)] = 0
  PROVE  Tokens'
<1>1. \A k \in Host : AtWork(k)' => AtWork(k) /\ CronMsgId(k)' = CronMsgId(k)
  BY DEF AtWork, CronMsgId, Move
<1>2. \A k \in Host : AtWork(k)' => CronMsgId(k) \in Firing /\ CronMsgId(k) \in seen
  BY <1>1, AtFiring DEF AtWork, RowsRelated, Tokens
<1>3. \A k \in Host : k # h /\ AtWork(k)' =>
        /\ CronMsgId(k) # CronMsgId(h) /\ round'[k] = round[k]
        /\ noted'[CronMsgId(k)] = noted[CronMsgId(k)] /\ fired'[CronMsgId(k)] = fired[CronMsgId(k)]
  BY <1>1, <1>2 DEF Tokens, Move
<1>4. \A k \in Host : AtWork(k)' => CronMsgId(k)' \in seen'
  BY <1>1, <1>2
<1>5. \A k, l \in Host : AtWork(k)' /\ AtWork(l)' /\ CronMsgId(k)' = CronMsgId(l)' => k = l
  BY <1>1 DEF Tokens
<1>6. \A k \in Host : round'[k] = "note" => noted'[CronMsgId(k)'] = 0
  BY <1>1, <1>3 DEF Tokens, AtWork
<1>7. \A k \in Host : round'[k] = "publish" =>
        noted'[CronMsgId(k)'] = 1 /\ fired'[CronMsgId(k)'] = 0
  BY <1>1, <1>3 DEF Tokens, AtWork
<1>8. \A k \in Host : due'[k] # <<>> => due'[k][3] # 0
  BY DEF Tokens, Move
<1>9. \A f \in Firing : f \notin seen' => noted'[f] = 0
  BY DEF Tokens
<1>10. \A f \in Firing : noted'[f] <= 1 /\ fired'[f] <= noted'[f]
  BY DEF Tokens
<1> QED
  BY <1>4, <1>5, <1>6, <1>7, <1>8, <1>9, <1>10 DEF Tokens

-----------------------------------------------------------------------------
(* Steps                                                                   *)

\* A row without a mark: one that /lich has written, in place of whatever there
\* was. A tick that has read it without a mark is raced.
LEMMA RowStep ==
  ASSUME RowsTyped, RowsRelated, Tokens, Marks, MadeUpOnce, NEW j \in Job,
         NEW row \in Row, row.next = 0, row.state # "none",
         job' = [job EXCEPT ![j] = row], checked' \subseteq checked \ {j},
         raced \subseteq raced', raced' \subseteq Job, UNCHANGED <<clock, board, rounds>>,
         \/ row.state = "gone"
         \/ job[j].state = "none"
         \/ ReadUnscheduled(j) => j \in raced'
  PROVE  RowsTyped' /\ RowsRelated' /\ Tokens' /\ Marks' /\ MadeUpOnce'
<1>1. UNCHANGED <<clock, seen, noted, fired, ran, round, lot, due, since>>
  BY DEF board, rounds
<1>2. /\ job' \in [Job -> Row] /\ job'[j] = row /\ \A k \in Job \ {j} : job'[k] = job[k]
  BY DEF RowsTyped
<1>3. RowsTyped'
  BY <1>1, <1>2 DEF RowsTyped
<1>4. RowsRelated'
  BY <1>1, <1>2 DEF RowsRelated
<1>5. Tokens'
  BY <1>1 DEF Tokens, AtWork, CronMsgId
<1>6. \A k \in Job \ raced' : Planned(k)'
  BY <1>1, <1>2 DEF Marks, Planned, Enabled
<1>7. ASSUME NEW h \in Host, NEW item \in lot'[h]
      PROVE  /\ item[3] <= since'[h] /\ job'[item[1]].state # "none"
             /\ item[1] \notin raced' => AsRead(h, item)'
  <2>1. item \in lot[h] /\ item[1] \in Job
    BY <1>1, <1>7, ItemShape DEF RowsTyped
  <2>2. item[3] <= since'[h] /\ job[item[1]].state # "none" /\ job'[item[1]].state # "none"
    BY <1>1, <1>2, <2>1 DEF Marks
  <2>3. ASSUME item[1] \notin raced' PROVE AsRead(h, item)'
    <3>1. AsRead(h, item)
      BY <2>1, <2>3 DEF Marks
    <3>2. CASE item[1] # j
      BY <1>1, <1>2, <2>1, <3>1, <3>2 DEF AsRead, There, Enabled
    <3>3. CASE item[1] = j /\ item[3] # 0
      BY <1>1, <3>1, <3>3 DEF AsRead
    <3>4. CASE item[1] = j /\ item[3] = 0
      <4>1. ReadUnscheduled(j)
        BY <2>1, <3>4 DEF ReadUnscheduled
      <4>2. ~There(j)'
        BY <1>2, <2>2, <2>3, <3>4, <4>1 DEF There
      <4> QED
        BY <3>4, <4>2 DEF AsRead
    <3> QED
      BY <3>2, <3>3, <3>4
  <2> QED
    BY <2>2, <2>3
<1>8. Marks'
  BY <1>1, <1>6, <1>7 DEF Marks
<1>9. MadeUpOnce'
  BY <1>1 DEF MadeUpOnce
<1> QED
  BY <1>3, <1>4, <1>5, <1>8, <1>9

LEMMA LichStep ==
  ASSUME RowsTyped, RowsRelated, Tokens, Marks, MadeUpOnce, NEW j \in Job, Lich(j)
  PROVE  RowsTyped' /\ RowsRelated' /\ Tokens' /\ Marks' /\ MadeUpOnce'
<1>a. job[j] \in Row /\ 0 \in {0} \cup Mark /\ raced \subseteq Job
  BY DEF RowsTyped
<1>1. CASE CountJobs(j)
  <2>1. /\ UNCHANGED <<clock, job, board, rounds, raced>>
        /\ checked' = checked \cup {j} /\ job[j].state = "none"
    BY <1>1 DEF CountJobs
  <2>2. UNCHANGED <<seen, noted, fired, ran, round, lot, due, since>>
    BY <2>1 DEF board, rounds
  <2>3. RowsTyped' /\ RowsRelated'
    BY <2>1, <2>2 DEF RowsTyped, RowsRelated
  <2>4. Tokens'
    BY <2>2 DEF Tokens, AtWork, CronMsgId
  <2>5. Marks' /\ MadeUpOnce'
    BY <2>1, <2>2 DEF Marks, MadeUpOnce, Planned, AsRead, There, Enabled
  <2> QED
    BY <2>3, <2>4, <2>5
<1>2. CASE CreateJob(j)
  <2>1. PICK at \in Schedule : job' = [job EXCEPT ![j] = [state |-> "on", at |-> at, next |-> 0]]
    BY <1>2 DEF CreateJob
  <2>2. [state |-> "on", at |-> at, next |-> 0] \in Row
    BY DEF Row
  <2>3. /\ job[j].state = "none" /\ checked' \subseteq checked \ {j}
        /\ UNCHANGED <<clock, board, rounds, raced>>
    BY <1>2 DEF CreateJob, RowsRelated
  <2> QED
    BY <1>a, <2>1, <2>2, <2>3, RowStep
<1>3. CASE UpdateJob(j) \/ ToggleJob(j) \/ RemoveJob(j)
  <2>1. /\ There(j) /\ checked' \subseteq checked \ {j}
        /\ UNCHANGED <<clock, board, rounds>>
    BY <1>3 DEF UpdateJob, ToggleJob, RemoveJob, RowsRelated, There
  <2>2. /\ raced \subseteq raced' /\ raced' \subseteq Job
        /\ RemoveJob(j) \/ (ReadUnscheduled(j) => j \in raced')
    BY <1>a, <1>3 DEF UpdateJob, ToggleJob, RemoveJob, Race
  <2>3. PICK state \in {"on", "off", "gone"}, at \in Schedule :
          /\ job' = [job EXCEPT ![j] = [state |-> state, at |-> at, next |-> 0]]
          /\ RemoveJob(j) => state = "gone"
    <3>1. job[j].at \in Schedule /\ job[j].state \in {"on", "off"}
      BY <1>a, <2>1, RowShape DEF There
    <3>2. CASE RemoveJob(j)
      BY <3>1, <3>2 DEF RemoveJob
    <3>3. CASE ~RemoveJob(j) /\ UpdateJob(j)
      BY <3>1, <3>3 DEF UpdateJob
    <3>4. CASE ~RemoveJob(j) /\ ToggleJob(j)
      BY <3>1, <3>4 DEF ToggleJob
    <3> QED
      BY <1>3, <3>2, <3>3, <3>4
  <2>4. [state |-> state, at |-> at, next |-> 0] \in Row
    BY DEF Row
  <2> QED
    BY <2>1, <2>2, <2>3, <2>4, RowStep
<1> QED
  BY <1>1, <1>2, <1>3 DEF Lich

LEMMA MinuteStep ==
  ASSUME RowsTyped, RowsRelated, Tokens, Marks, MadeUpOnce, Minute
  PROVE  RowsTyped' /\ RowsRelated' /\ Tokens' /\ Marks' /\ MadeUpOnce'
<1>1. /\ clock' \in 0..MaxClock /\ clock < clock' /\ clock \in Nat /\ clock' \in Nat
  BY Numbers DEF Minute, RowsTyped
<1>2. UNCHANGED <<job, checked, seen, noted, fired, ran, round, lot, due, since, raced>>
  BY DEF Minute, board, rounds
<1>3. RowsTyped'
  BY <1>1, <1>2 DEF RowsTyped
<1>4. \A h \in Host : since'[h] <= clock'
  BY <1>1, <1>2, Numbers DEF RowsTyped, RowsRelated
<1>5. RowsRelated'
  BY <1>2, <1>4 DEF RowsRelated
<1>6. Tokens'
  BY <1>2 DEF Tokens, AtWork, CronMsgId
<1>7. \A f \in Firing : ran'[f] <= clock'
  BY <1>1, <1>2, Numbers DEF RowsTyped, Marks
<1>8. Marks' /\ MadeUpOnce'
  BY <1>2, <1>7 DEF Marks, MadeUpOnce, Planned, AsRead, There, Enabled
<1> QED
  BY <1>3, <1>5, <1>6, <1>8

\* A tick reads the rows that are due.
LEMMA StartRoundStep ==
  ASSUME RowsTyped, RowsRelated, Tokens, Marks, MadeUpOnce, NEW h \in Host, StartRound(h)
  PROVE  RowsTyped' /\ RowsRelated' /\ Tokens' /\ Marks' /\ MadeUpOnce'
<1>a. /\ round \in [Host -> {"rest", "claim", "see", "note", "publish"}]
      /\ lot \in [Host -> SUBSET Item]
      /\ since \in [Host -> 0..MaxClock]
      /\ clock \in 0..MaxClock /\ clock \in Nat
  BY Numbers DEF RowsTyped
<1>1. /\ round[h] = "rest"
      /\ round' = [round EXCEPT ![h] = "claim"]
      /\ lot' = [lot EXCEPT ![h] = DueRows]
      /\ since' = [since EXCEPT ![h] = clock]
      /\ UNCHANGED <<clock, job, checked, seen, noted, fired, ran, due, raced>>
  BY DEF StartRound, board
<1>2. ASSUME NEW item \in DueRows
      PROVE  /\ item \in Item /\ item[3] <= clock /\ Enabled(item[1])
             /\ item[1] \in Job /\ item[2] = job[item[1]].at /\ item[3] = job[item[1]].next
  <2>1. PICK k \in Job : /\ Enabled(k) /\ job[k].next <= clock
                         /\ item = <<k, job[k].at, job[k].next>>
    BY <1>2 DEF DueRows
  <2>2. job[k] \in Row
    BY DEF RowsTyped
  <2> QED
    BY <2>1, <2>2, RowShape DEF Item
<1>3. /\ round' \in [Host -> {"rest", "claim", "see", "note", "publish"}]
      /\ lot' \in [Host -> SUBSET Item] /\ since' \in [Host -> 0..MaxClock]
      /\ round'[h] = "claim" /\ lot'[h] = DueRows /\ since'[h] = clock
      /\ \A k \in Host \ {h} : round'[k] = round[k] /\ lot'[k] = lot[k] /\ since'[k] = since[k]
  <2>1. DueRows \in SUBSET Item
    BY <1>2
  <2> QED
    BY <1>a, <1>1, <2>1
<1>4. RowsTyped'
  BY <1>1, <1>3 DEF RowsTyped
<1>5. RowsRelated'
  BY <1>a, <1>1, <1>3 DEF RowsRelated
<1>6. /\ \A k \in Host : due'[k] # <<>> => due'[k][3] # 0
      /\ \A k \in Host : AtWork(k)' => round'[k] = round[k] /\ due'[k] = due[k]
  BY <1>1, <1>3 DEF Tokens, AtWork
<1>7. Tokens'
  BY <1>1, <1>6, TokensFrame
<1>8. ASSUME NEW k \in Host, NEW item \in lot'[k]
      PROVE  /\ item[3] <= since'[k] /\ job'[item[1]].state # "none"
             /\ item[1] \notin raced' => AsRead(k, item)'
  <2>1. CASE k # h
    BY <1>1, <1>3, <1>8, <2>1 DEF Marks, AsRead, There, Enabled
  <2>2. CASE k = h
    <3>1. item \in DueRows /\ since'[k] = clock
      BY <1>3, <1>8, <2>2
    <3>2. item[3] <= since'[k] /\ job'[item[1]].state # "none"
      BY <1>1, <1>2, <3>1 DEF Enabled
    <3>3. ASSUME item[1] \notin raced PROVE AsRead(k, item)'
      <4>1. Planned(item[1])
        BY <1>2, <3>1, <3>3 DEF Marks
      <4>2. item[3] # 0 => item[3] % Day = item[2]
        BY <1>2, <3>1, <4>1 DEF Planned
      <4>3. Enabled(item[1])' /\ item[2] = job'[item[1]].at
        BY <1>1, <1>2, <3>1 DEF Enabled
      <4>4. \A f \in Firing : ran'[f] <= since'[k]
        BY <1>1, <3>1 DEF Marks
      <4> QED
        BY <4>2, <4>3, <4>4 DEF AsRead
    <3> QED
      BY <1>1, <3>2, <3>3
  <2> QED
    BY <2>1, <2>2
<1>9. Marks'
  BY <1>1, <1>8 DEF Marks, Planned, Enabled
<1>10. MadeUpOnce'
  BY <1>1 DEF MadeUpOnce
<1> QED
  BY <1>4, <1>5, <1>7, <1>9, <1>10

LEMMA ClaimJobStep ==
  ASSUME RowsTyped, RowsRelated, Tokens, Marks, MadeUpOnce, NEW h \in Host, ClaimJob(h)
  PROVE  RowsTyped' /\ RowsRelated' /\ Tokens' /\ Marks' /\ MadeUpOnce'
<1>a. /\ round \in [Host -> {"rest", "claim", "see", "note", "publish"}]
      /\ lot \in [Host -> SUBSET Item]
      /\ due \in [Host -> Item \cup {<<>>}]
      /\ since \in [Host -> 0..MaxClock]
      /\ clock \in 0..MaxClock
  BY DEF RowsTyped
<1> DEFINE Swap(item) ==
             /\ job' = [job EXCEPT ![item[1]] = [state |-> @.state, at |-> @.at,
                                                 next |-> NextRunAfter(item[2], since[h])]]
             /\ ran' = IF item[3] = 0 THEN ran ELSE [ran EXCEPT ![<<item[1], item[3]>>] = since[h]]
<1>1. PICK item \in lot[h] :
        \/ /\ Unclaimed(item) /\ item[3] # 0 /\ Swap(item)
           /\ round' = [round EXCEPT ![h] = "see"]
           /\ lot' = [lot EXCEPT ![h] = lot[h] \ {item}]
           /\ due' = [due EXCEPT ![h] = item]
           /\ since' = since
        \/ Unclaimed(item) /\ Swap(item) /\ NextRow(h, lot[h] \ {item})
        \/ NextRow(h, lot[h] \ {item}) /\ UNCHANGED <<job, ran>>
  BY DEF ClaimJob
<1>2. round[h] = "claim" /\ UNCHANGED <<clock, checked, seen, noted, fired, raced>>
  BY DEF ClaimJob
<1>3. /\ item \in Item /\ item # <<>>
  BY <1>a, ItemShape
<1>4. /\ RoundTypes /\ Move(h)
      /\ \/ due'[h] = <<>> /\ round'[h] \in {"rest", "claim"}
         \/ due'[h] = item /\ item[3] # 0 /\ round'[h] = "see"
  <2>1. CASE NextRow(h, lot[h] \ {item})
    <3>1. (lot[h] \ {item}) \in SUBSET lot[h]
      OBVIOUS
    <3> QED
      BY <2>1, <3>1, NextRowStep
  <2>2. CASE /\ item[3] # 0
             /\ round' = [round EXCEPT ![h] = "see"]
             /\ lot' = [lot EXCEPT ![h] = lot[h] \ {item}]
             /\ due' = [due EXCEPT ![h] = item]
             /\ since' = since
    <3>1. /\ round' \in [Host -> {"rest", "claim", "see", "note", "publish"}]
          /\ due' \in [Host -> Item \cup {<<>>}] /\ since' \in [Host -> 0..MaxClock]
          /\ due'[h] = item /\ round'[h] = "see"
      BY <1>a, <1>3, <2>2
    <3>2. lot' \in [Host -> SUBSET Item]
      <4>1. (lot[h] \ {item}) \in SUBSET Item
        BY <1>a
      <4> QED
        BY <1>a, <2>2, <4>1
    <3>3. Move(h)
      BY <1>a, <2>2 DEF Move
    <3>4. \A k \in Host : due'[k] # <<>> <=> round'[k] \in {"see", "note", "publish"}
      BY <1>3, <3>1, <3>3 DEF Move, RowsRelated
    <3>5. \A k \in Host : since'[k] <= clock
      BY <2>2 DEF RowsRelated
    <3> QED
      BY <2>2, <3>1, <3>2, <3>3, <3>4, <3>5 DEF RoundTypes
  <2> QED
    BY <1>1, <2>1, <2>2
<1>5. /\ job' \in [Job -> Row] /\ ran' \in [Firing -> 0..MaxClock]
      /\ \A j \in Job : job'[j].state = job[j].state
      /\ \A j \in Job : job[j].state \in {"none", "gone"} => job'[j].next = 0
      /\ Marks' /\ MadeUpOnce'
  <2>1. CASE UNCHANGED <<job, ran>>
    <3>1. Marks' /\ MadeUpOnce'
      BY <1>2, <1>4, <2>1, MarksFrame
    <3> QED
      BY <2>1, <3>1 DEF RowsTyped, RowsRelated
  <2>2. CASE Unclaimed(item) /\ Swap(item)
    <3>1. /\ job' \in [Job -> Row] /\ ran' \in [Firing -> 0..MaxClock]
          /\ \A j \in Job : job'[j].state = job[j].state
          /\ Marks' /\ MadeUpOnce'
      BY <1>2, <1>4, <2>2, SwapStep
    <3>2. \A j \in Job \ {item[1]} : job'[j] = job[j]
      BY <2>2 DEF RowsTyped
    <3>3. job[item[1]].state \in {"on", "off"}
      BY <2>2 DEF Unclaimed, There
    <3>4. \A j \in Job : job[j].state \in {"none", "gone"} => job'[j].next = 0
      BY <3>2, <3>3 DEF RowsRelated
    <3> QED
      BY <3>1, <3>4
  <2> QED
    BY <1>1, <2>1, <2>2
<1>6. RowsTyped'
  BY <1>2, <1>4, <1>5 DEF RowsTyped, RoundTypes
<1>7. RowsRelated'
  BY <1>2, <1>4, <1>5 DEF RowsRelated, RoundTypes
<1>8. /\ \A k \in Host : due'[k] # <<>> => due'[k][3] # 0
      /\ \A k \in Host : AtWork(k)' => round'[k] = round[k] /\ due'[k] = due[k]
  BY <1>4 DEF Tokens, AtWork, Move
<1>9. Tokens'
  BY <1>2, <1>8, TokensFrame
<1> QED
  BY <1>5, <1>6, <1>7, <1>9

\* A step of a tick between its claims: no row is read or written.
LEMMA Between ==
  ASSUME RowsTyped, RowsRelated, Marks, MadeUpOnce, NEW h \in Host, RoundTypes, Move(h),
         UNCHANGED <<clock, job, checked, ran, raced>>,
         seen' \subseteq Firing, noted' \in [Firing -> Nat], fired' \in [Firing -> Nat]
  PROVE  RowsTyped' /\ RowsRelated' /\ Marks' /\ MadeUpOnce'
<1>1. RowsTyped'
  BY DEF RowsTyped, RoundTypes
<1>2. RowsRelated'
  BY DEF RowsRelated, RoundTypes
<1> QED
  BY <1>1, <1>2, MarksFrame

LEMMA SeeStep ==
  ASSUME RowsTyped, RowsRelated, Tokens, Marks, MadeUpOnce, NEW h \in Host, SeeFiring(h)
  PROVE  RowsTyped' /\ RowsRelated' /\ Tokens' /\ Marks' /\ MadeUpOnce'
<1>1. /\ round[h] = "see" /\ due[h] # <<>>
      /\ UNCHANGED <<clock, job, checked, noted, fired, ran, raced>>
  BY DEF SeeFiring, RowsRelated
<1>2. CronMsgId(h) \in Firing
  BY <1>1, AtFiring
<1>3. seen \subseteq seen' /\ seen' \subseteq Firing
  BY <1>2 DEF SeeFiring, RowsTyped
<1>4. noted' \in [Firing -> Nat] /\ fired' \in [Firing -> Nat]
  BY <1>1 DEF RowsTyped
<1>5. CASE NextRow(h, lot[h])
  <2>1. RoundTypes /\ Move(h) /\ due'[h] = <<>> /\ round'[h] \in {"rest", "claim"}
    BY <1>5, NextRowStep
  <2>2. Tokens'
    BY <1>1, <1>3, <2>1, TokensMove
  <2> QED
    BY <1>1, <1>3, <1>4, <2>1, <2>2, Between
<1>6. CASE CronMsgId(h) \notin seen /\ seen' = seen \cup {CronMsgId(h)} /\ StayAt(h, "note")
  <2>1. RoundTypes /\ Move(h) /\ due' = due /\ round'[h] = "note"
    BY <1>1, <1>6, StayAtStep
  <2>2. Tokens'
    BY <1>1, <1>6, <2>1, TokensSeen
  <2> QED
    BY <1>1, <1>3, <1>4, <2>1, <2>2, Between
<1> QED
  BY <1>5, <1>6 DEF SeeFiring

LEMMA NoteStep ==
  ASSUME RowsTyped, RowsRelated, Tokens, Marks, MadeUpOnce, NEW h \in Host, NoteFiring(h)
  PROVE  RowsTyped' /\ RowsRelated' /\ Tokens' /\ Marks' /\ MadeUpOnce'
<1>1. /\ round[h] = "note" /\ due[h] # <<>> /\ AtWork(h)
      /\ UNCHANGED <<clock, job, checked, seen, fired, ran, raced>>
  BY DEF NoteFiring, RowsRelated, AtWork
<1>2. CronMsgId(h) \in Firing /\ noted[CronMsgId(h)] = 0 /\ fired[CronMsgId(h)] = 0
  <2>1. /\ CronMsgId(h) \in Firing /\ noted[CronMsgId(h)] = 0
        /\ fired[CronMsgId(h)] <= noted[CronMsgId(h)]
    BY <1>1, AtFiring DEF Tokens
  <2> QED
    BY <2>1 DEF RowsTyped
<1>3. PICK n \in {0, 1} :
        /\ noted' = [noted EXCEPT ![CronMsgId(h)] = n]
        /\ \/ n = 1 /\ StayAt(h, "publish")
           \/ NextRow(h, lot[h])
  <2>1. noted[CronMsgId(h)] + 1 = 1
    BY <1>2
  <2>2. noted = [noted EXCEPT ![CronMsgId(h)] = 0]
    BY <1>2 DEF RowsTyped
  <2> QED
    BY <2>1, <2>2 DEF NoteFiring
<1>4. /\ noted' \in [Firing -> Nat] /\ fired' \in [Firing -> Nat]
      /\ noted'[CronMsgId(h)] = n /\ fired'[CronMsgId(h)] = 0
      /\ \A f \in Firing : f # CronMsgId(h) => noted'[f] = noted[f] /\ fired'[f] = fired[f]
  BY <1>1, <1>2, <1>3 DEF RowsTyped
<1>5. /\ RoundTypes /\ Move(h)
      /\ \/ due'[h] = <<>> /\ round'[h] \in {"rest", "claim"}
         \/ due' = due /\ round'[h] = "publish" /\ n = 1
  <2>1. CASE NextRow(h, lot[h])
    BY <2>1, NextRowStep
  <2>2. CASE n = 1 /\ StayAt(h, "publish")
    BY <1>1, <2>2, StayAtStep
  <2> QED
    BY <1>3, <2>1, <2>2
<1>6. Tokens'
  <2>1. due'[h] \in {<<>>, due[h]} /\ (AtWork(h)' => due'[h] = due[h])
    BY <1>5 DEF AtWork
  <2>2. noted'[CronMsgId(h)] <= 1 /\ fired'[CronMsgId(h)] <= noted'[CronMsgId(h)]
    BY <1>4
  <2>3. /\ round'[h] \in {"rest", "claim", "publish"}
        /\ round'[h] = "publish" => noted'[CronMsgId(h)] = 1 /\ fired'[CronMsgId(h)] = 0
    BY <1>4, <1>5
  <2> QED
    BY <1>1, <1>4, <1>5, <2>1, <2>2, <2>3, TokensAlone
<1> QED
  BY <1>1, <1>4, <1>5, <1>6, Between DEF RowsTyped

LEMMA PublishStep ==
  ASSUME RowsTyped, RowsRelated, Tokens, Marks, MadeUpOnce, NEW h \in Host, PublishFiring(h)
  PROVE  RowsTyped' /\ RowsRelated' /\ Tokens' /\ Marks' /\ MadeUpOnce'
<1>1. /\ round[h] = "publish" /\ due[h] # <<>> /\ AtWork(h) /\ NextRow(h, lot[h])
      /\ UNCHANGED <<clock, job, checked, seen, noted, ran, raced>>
  BY DEF PublishFiring, RowsRelated, AtWork
<1>2. CronMsgId(h) \in Firing /\ noted[CronMsgId(h)] = 1 /\ fired[CronMsgId(h)] = 0
  BY <1>1, AtFiring DEF Tokens
<1>3. PICK n \in {0, 1} : fired' = [fired EXCEPT ![CronMsgId(h)] = n]
  <2>1. fired[CronMsgId(h)] + 1 = 1
    BY <1>2
  <2>2. fired = [fired EXCEPT ![CronMsgId(h)] = 0]
    BY <1>2 DEF RowsTyped
  <2> QED
    BY <2>1, <2>2 DEF PublishFiring
<1>4. /\ noted' \in [Firing -> Nat] /\ fired' \in [Firing -> Nat]
      /\ noted'[CronMsgId(h)] = 1 /\ fired'[CronMsgId(h)] = n
      /\ \A f \in Firing : f # CronMsgId(h) => noted'[f] = noted[f] /\ fired'[f] = fired[f]
  BY <1>1, <1>2, <1>3 DEF RowsTyped
<1>5. RoundTypes /\ Move(h) /\ due'[h] = <<>> /\ round'[h] \in {"rest", "claim"}
  BY <1>1, NextRowStep
<1>6. Tokens'
  <2>1. due'[h] \in {<<>>, due[h]} /\ (AtWork(h)' => due'[h] = due[h])
    BY <1>5 DEF AtWork
  <2>2. noted'[CronMsgId(h)] <= 1 /\ fired'[CronMsgId(h)] <= noted'[CronMsgId(h)]
    BY <1>4
  <2>3. round'[h] \in {"rest", "claim", "publish"} /\ round'[h] # "publish"
    BY <1>5
  <2> QED
    BY <1>1, <1>4, <1>5, <2>1, <2>2, <2>3, TokensAlone
<1> QED
  BY <1>1, <1>4, <1>5, <1>6, Between DEF RowsTyped

LEMMA DieStep ==
  ASSUME RowsTyped, RowsRelated, Tokens, Marks, MadeUpOnce, NEW h \in Host, DieInRound(h)
  PROVE  RowsTyped' /\ RowsRelated' /\ Tokens' /\ Marks' /\ MadeUpOnce'
<1>1. UNCHANGED <<clock, job, checked, seen, noted, fired, ran, raced>> /\ NextRow(h, {})
  BY DEF DieInRound, board
<1>2. RoundTypes /\ Move(h) /\ due'[h] = <<>> /\ round'[h] \in {"rest", "claim"}
  <2>1. {} \in SUBSET lot[h]
    OBVIOUS
  <2> QED
    BY <1>1, <2>1, NextRowStep
<1>3. Tokens'
  BY <1>1, <1>2, TokensMove
<1> QED
  BY <1>1, <1>2, <1>3, Between DEF RowsTyped

-----------------------------------------------------------------------------
(* The inductive invariant                                                 *)

LEMMA SchedulerInitial ==
  ASSUME SchedulerInit, NoFault
  PROVE  SchedulerIInv
<1>1. FaultsOK
  BY PlatformAssumption DEF NoFault, FaultsOK
<1>2. 0 \in 0..MaxClock /\ 0 \in Schedule
  BY Numbers DEF Schedule
<1>3. RowsTyped
  <2>1. [state |-> "none", at |-> 0, next |-> 0] \in Row
    BY <1>2 DEF Row
  <2> QED
    BY <1>2, <2>1 DEF SchedulerInit, RowsTyped
<1>4. RowsRelated
  BY DEF SchedulerInit, RowsRelated
<1>5. Tokens
  BY DEF SchedulerInit, Tokens, AtWork
<1>6. Marks
  <2>1. \A j \in Job : Planned(j)
    BY DEF SchedulerInit, Planned
  <2>2. /\ \A f \in Firing : ran[f] = 0
        /\ \A h \in Host : lot[h] = {}
        /\ clock = 0
    BY DEF SchedulerInit
  <2> QED
    BY <2>1, <2>2 DEF Marks
<1>7. MadeUpOnce
  BY DEF SchedulerInit, MadeUpOnce
<1> QED
  BY <1>1, <1>3, <1>4, <1>5, <1>6, <1>7 DEF SchedulerIInv

LEMMA RoundFaults ==
  ASSUME FaultsOK, [SchedulerNext]_<<schedulerVars, faults>>
  PROVE  FaultsOK'
<1>1. faults' = faults \/ Fault
  BY ZenonT(60) DEF SchedulerNext, Minute, Lich, CountJobs, CreateJob, UpdateJob, ToggleJob, RemoveJob,
         RoundNext, StartRound, ClaimJob, SeeFiring, NoteFiring, PublishFiring, DieInRound
<1> QED
  BY <1>1, PlatformAssumption DEF FaultsOK, Fault

LEMMA SchedulerStep ==
  ASSUME SchedulerIInv, [SchedulerNext]_<<schedulerVars, faults>>
  PROVE  SchedulerIInv'
<1>0. FaultsOK'
  BY RoundFaults DEF SchedulerIInv
<1>1. RowsTyped /\ RowsRelated /\ Tokens /\ Marks /\ MadeUpOnce
  BY DEF SchedulerIInv
<1>2. CASE UNCHANGED <<schedulerVars, faults>>
  <2>1. UNCHANGED <<clock, job, checked, seen, noted, fired, ran, round, lot, due, since, raced>>
    BY <1>2 DEF schedulerVars, board, rounds
  <2>2. RowsTyped' /\ RowsRelated'
    BY <1>1, <2>1 DEF RowsTyped, RowsRelated
  <2>3. Tokens'
    BY <1>1, <2>1 DEF Tokens, AtWork, CronMsgId
  <2>4. Marks' /\ MadeUpOnce'
    BY <1>1, <2>1 DEF Marks, MadeUpOnce, Planned, AsRead, There, Enabled
  <2> QED
    BY <1>0, <2>2, <2>3, <2>4 DEF SchedulerIInv
<1>3. CASE Minute
  BY <1>0, <1>1, <1>3, MinuteStep DEF SchedulerIInv
<1>4. CASE \E j \in Job : Lich(j)
  BY <1>0, <1>1, <1>4, LichStep DEF SchedulerIInv
<1>5. ASSUME NEW h \in Host, RoundNext(h) \/ DieInRound(h) PROVE SchedulerIInv'
  <2>1. CASE StartRound(h)
    BY <1>0, <1>1, <2>1, StartRoundStep DEF SchedulerIInv
  <2>2. CASE ClaimJob(h)
    BY <1>0, <1>1, <2>2, ClaimJobStep DEF SchedulerIInv
  <2>3. CASE SeeFiring(h)
    BY <1>0, <1>1, <2>3, SeeStep DEF SchedulerIInv
  <2>4. CASE NoteFiring(h)
    BY <1>0, <1>1, <2>4, NoteStep DEF SchedulerIInv
  <2>5. CASE PublishFiring(h)
    BY <1>0, <1>1, <2>5, PublishStep DEF SchedulerIInv
  <2>6. CASE DieInRound(h)
    BY <1>0, <1>1, <2>6, DieStep DEF SchedulerIInv
  <2> QED
    BY <1>5, <2>1, <2>2, <2>3, <2>4, <2>5, <2>6 DEF RoundNext
<1> QED
  BY <1>2, <1>3, <1>4, <1>5 DEF SchedulerNext

\* A claim that goes on to its firing, from the state before it.
LEMMA PlannedStep ==
  ASSUME SchedulerIInv, [SchedulerNext]_<<schedulerVars, faults>>, NEW h \in Host,
         round[h] = "claim", round'[h] = "see", due'[h][1] \notin raced
  PROVE  Enabled(due'[h][1]) /\ due'[h][3] % Day = job[due'[h][1]].at
<1>a. /\ RowsTyped /\ RowsRelated /\ Marks
      /\ round \in [Host -> {"rest", "claim", "see", "note", "publish"}]
      /\ due \in [Host -> Item \cup {<<>>}] /\ lot \in [Host -> SUBSET Item]
  BY DEF SchedulerIInv, RowsTyped
<1>1. ClaimJob(h)
  <2>1. round' # round
    OBVIOUS
  <2>2. PICK k \in Host : RoundNext(k) \/ DieInRound(k)
    BY <2>1 DEF SchedulerNext, Minute, Lich, CountJobs, CreateJob, UpdateJob, ToggleJob, RemoveJob,
                schedulerVars, rounds
  <2>3. k = h
    <3>1. \E where : round' = [round EXCEPT ![k] = where]
      BY <2>2 DEF RoundNext, StartRound, ClaimJob, SeeFiring, NoteFiring, PublishFiring,
                  DieInRound, NextRow, StayAt
    <3> QED
      BY <1>a, <3>1
  <2>4. ~NextRow(h, lot[h]) /\ ~NextRow(h, {})
    BY <1>a DEF NextRow
  <2> QED
    BY <2>2, <2>3, <2>4 DEF RoundNext, StartRound, SeeFiring, NoteFiring, PublishFiring, DieInRound
<1>2. PICK item \in lot[h] :
        /\ Unclaimed(item) /\ item[3] # 0 /\ due' = [due EXCEPT ![h] = item]
  <2>1. \A item \in lot[h] : ~NextRow(h, lot[h] \ {item})
    BY <1>a DEF NextRow
  <2> QED
    BY <1>1, <2>1 DEF ClaimJob
<1>3. due'[h] = item /\ item \in Item /\ item[1] \in Job /\ item[1] \notin raced
  BY <1>a, <1>2, ItemShape
<1>4. Planned(item[1]) /\ AsRead(h, item)
  BY <1>a, <1>3 DEF Marks
<1> QED
  BY <1>2, <1>3, <1>4 DEF Planned, AsRead, Unclaimed

-----------------------------------------------------------------------------
(* Theorems                                                                *)

(* SchedulerIInv is an invariant of the scheduler: the processes that tick, *)
(* the commands of the room and the failures together.                     *)
THEOREM SchedulerInductive == SchedulerSpec => []SchedulerIInv
<1>1. SchedulerInit /\ NoFault => SchedulerIInv
  BY SchedulerInitial
<1>2. SchedulerIInv /\ [SchedulerNext]_<<schedulerVars, faults>> => SchedulerIInv'
  BY SchedulerStep
<1> QED
  BY <1>1, <1>2, PTL DEF SchedulerSpec

(* The types of the variables, and which rows have no mark.                *)
THEOREM SchedulerTyped == SchedulerSpec => []SchedulerTypeOK
<1>1. SchedulerIInv => SchedulerTypeOK
  BY SchedulerTypes DEF SchedulerIInv
<1> QED
  BY <1>1, SchedulerInductive, PTL

(* A mark reaches the room at most once and the queue at most once, never  *)
(* the queue without the room, and marks missed are made up for once.      *)
THEOREM OneFiringPerMark == SchedulerSpec => []FiredOnce
<1>1. SchedulerIInv => FiredOnce
  BY DEF SchedulerIInv, Tokens, MadeUpOnce, FiredOnce
<1> QED
  BY <1>1, SchedulerInductive, PTL

(* A firing is claimed only for a job that is on, at a mark of its present *)
(* schedule, unless its mark was reset under a tick.                       *)
THEOREM FiringsArePlanned == SchedulerSpec => FiredAsPlanned
<1>1. SchedulerIInv /\ [SchedulerNext]_<<schedulerVars, faults>>
        => [\A h \in Host :
              LET j == due'[h][1] IN
              round[h] = "claim" /\ round'[h] = "see" /\ j \notin raced
                => Enabled(j) /\ due'[h][3] % Day = job[j].at]_schedulerVars
  BY PlannedStep
<1> QED
  BY <1>1, SchedulerInductive, PTL DEF SchedulerSpec, FiredAsPlanned

-----------------------------------------------------------------------------
(* KbDigest                                                                *)

\* The types that DigestTypeOK gives point by point.
Shapes ==
  /\ subject \in [Host -> Proposal \cup {<<>>}]
  /\ \A h \in Host : scan[h] = "insert" => facts[h] > 0

\* No fact of the group was proposed.
Bare(g) == \A p \in Proposal : p[1] = g => proposal[p] = "none"

\* What the day has seen of a group that a process digests.
Digesting(h) ==
  LET g == group[h] IN
  /\ run[g] \in {"Running", "Done"}
  /\ scan[h] # "failed" => run[g] = "Running"
  /\ scan[h] \in {"extract", "insert", "send"} => digests[g] = 0
  /\ scan[h] = "extract" => Bare(g)
  /\ scan[h] = "done" => digests[g] = 1 \/ Bare(g)

\* One process has a group, and only for a run it has claimed.
Runs ==
  /\ \A h, k \in Host : group[h] # "none" /\ group[h] = group[k] => h = k
  /\ \A h \in Host : group[h] # "none" => Digesting(h)
  /\ \A g \in Group : run[g] = "none" => digests[g] = 0

\* The knowledge base has the fact or one nearly the same.
Written(p) == base[p] > 0 \/ p \in like

\* A command that is about to say "approved" has found or written its fact.
Reviews ==
  /\ \A h \in Host : review[h] # "idle" => subject[h] \in Proposal
  /\ \A h \in Host : review[h] = "approve" => Written(subject[h])

DigestIInv ==
  FaultsOK /\ DigestTypeOK /\ Shapes /\ Runs /\ DigestOnce /\ Reviews /\ ApprovedIsWritten

-----------------------------------------------------------------------------
\* The types of the variables, function by function.
DeskTyped ==
  /\ desk \in Group \cup {"none"}
  /\ busy \subseteq Group
  /\ run \in [Group -> {"none", "Running", "Done", "Failed"}]
  /\ proposal \in [Proposal -> {"none", "Pending", "Approved", "Rejected"}]
  /\ digests \in [Group -> Nat]
  /\ base \in [Proposal -> Nat]
  /\ like \subseteq Proposal
  /\ scan \in [Host -> {"rest", "claim", "extract", "insert", "send", "done", "failed"}]
  /\ queue \in [Host -> SUBSET Group]
  /\ group \in [Host -> Group \cup {"none"}]
  /\ facts \in [Host -> 0..MaxFacts]
  /\ review \in [Host -> {"idle", "source", "near", "insert", "approve", "reject"}]
  /\ subject \in [Host -> Proposal \cup {<<>>}]
  /\ told \in [Proposal -> SUBSET {"approved", "rejected"}]

\* The two conjuncts of DigestTypeOK that relate variables.
DeskRelated ==
  /\ \A p \in Proposal : proposal[p] # "none" => run[p[1]] # "none"
  /\ \A h \in Host : group[h] # "none" <=> scan[h] \notin {"rest", "claim"}

LEMMA DigestTypes ==
  ASSUME Shapes
  PROVE  DigestTypeOK <=> DeskTyped /\ DeskRelated
BY DEF DigestTypeOK, Shapes, DeskTyped, DeskRelated

LEMMA DigestTypesNext ==
  ASSUME DeskTyped', DeskRelated', \A h \in Host : scan'[h] = "insert" => facts'[h] > 0
  PROVE  DigestTypeOK' /\ Shapes'
BY DEF DigestTypeOK, Shapes, DeskTyped, DeskRelated

LEMMA ProposalShape == \A p \in Proposal : p # <<>> /\ p[1] \in Group
BY DEF Proposal

LEMMA DigestFaults ==
  ASSUME FaultsOK, faults' = faults \/ Fault
  PROVE  FaultsOK' /\ faults' >= faults /\ faults \in Nat /\ (faults' = faults \/ faults' > 0)
BY PlatformAssumption DEF FaultsOK, Fault

\* The next group of the tick, or its end: the process holds none.
LEMMA NextGroupStep ==
  ASSUME DeskTyped, NEW h \in Host, NEW rest \in SUBSET Group, NextGroup(h, rest)
  PROVE  /\ scan' \in [Host -> {"rest", "claim", "extract", "insert", "send", "done", "failed"}]
         /\ queue' \in [Host -> SUBSET Group]
         /\ group' \in [Host -> Group \cup {"none"}]
         /\ facts' \in [Host -> 0..MaxFacts]
         /\ group'[h] = "none" /\ scan'[h] \in {"rest", "claim"}
         /\ \A k \in Host \ {h} : scan'[k] = scan[k] /\ group'[k] = group[k] /\ facts'[k] = facts[k]
BY KbDigestAssumption DEF DeskTyped, NextGroup

LEMMA ScanAtStep ==
  ASSUME DeskTyped, NEW h \in Host, NEW where \in {"done", "failed"}, ScanAt(h, where)
  PROVE  /\ scan' \in [Host -> {"rest", "claim", "extract", "insert", "send", "done", "failed"}]
         /\ queue' \in [Host -> SUBSET Group]
         /\ group' \in [Host -> Group \cup {"none"}]
         /\ facts' \in [Host -> 0..MaxFacts]
         /\ scan'[h] = where /\ group' = group
         /\ \A k \in Host \ {h} : scan'[k] = scan[k] /\ facts'[k] = facts[k]
BY DEF DeskTyped, ScanAt

\* What DigestOnce says of one group.
OnceAt(g) ==
  /\ digests[g] <= 1
  /\ run[g] = "Running" => faults > 0 \/ \E h \in Host : group[h] = g
  /\ \A p \in Proposal : run[g] = "Done" /\ p[1] = g /\ proposal[p] # "none" => digests[g] = 1

\* The parts that a step of the process h in its tick can disturb.
Scanned ==
  /\ DeskTyped' /\ DeskRelated' /\ Runs' /\ DigestOnce'
  /\ \A h \in Host : scan'[h] = "insert" => facts'[h] > 0

\* A step of h that concerns the group g alone.
LEMMA ScanFrame ==
  ASSUME DeskTyped, DeskRelated, Shapes, Runs, DigestOnce, DeskTyped', FaultsOK, faults' = faults \/ Fault,
         NEW h \in Host, NEW g \in Group,
         \A k \in Host \ {h} : scan'[k] = scan[k] /\ group'[k] = group[k] /\ facts'[k] = facts[k],
         \A k \in Host \ {h} : group[k] # g,
         group[h] \in {"none", g}, group'[h] \in {"none", g},
         \A e \in Group \ {g} : run'[e] = run[e] /\ digests'[e] = digests[e],
         \A p \in Proposal : p[1] # g => proposal'[p] = proposal[p],
         \A p \in Proposal : p[1] = g /\ proposal'[p] # "none" => run'[g] # "none",
         group'[h] # "none" <=> scan'[h] \notin {"rest", "claim"},
         scan'[h] = "insert" => facts'[h] > 0,
         group'[h] = g => Digesting(h)',
         run'[g] = "none" => digests'[g] = 0,
         OnceAt(g)'
  PROVE  Scanned
<1>1. DeskRelated'
  BY ProposalShape DEF DeskRelated
<1>2. \A e \in Group \ {g} : Bare(e) => Bare(e)'
  BY DEF Bare
<1>3. ASSUME NEW k \in Host \ {h}, group[k] # "none" PROVE Digesting(k)'
  <2>1. group[k] \in Group \ {g} /\ Digesting(k)
    BY <1>3 DEF DeskTyped, Runs
  <2> QED
    BY <1>2, <2>1 DEF Digesting
<1>4. Runs'
  <2>1. \A j, k \in Host : group'[j] # "none" /\ group'[j] = group'[k] => j = k
    BY DEF Runs
  <2>2. \A k \in Host : group'[k] # "none" => Digesting(k)'
    BY <1>3
  <2>3. \A e \in Group : run'[e] = "none" => digests'[e] = 0
    BY DEF Runs
  <2> QED
    BY <2>1, <2>2, <2>3 DEF Runs
<1>5. ASSUME NEW e \in Group \ {g} PROVE OnceAt(e)'
  <2>1. OnceAt(e) /\ run'[e] = run[e] /\ digests'[e] = digests[e]
    BY DEF DigestOnce, OnceAt
  <2>2. \A k \in Host : group[k] = e => group'[k] = e
    BY <1>5, KbDigestAssumption
  <2>3. faults > 0 => faults' > 0
    BY DigestFaults
  <2> QED
    BY <1>5, <2>1, <2>2, <2>3 DEF OnceAt
<1>6. DigestOnce'
  BY <1>5 DEF DigestOnce, OnceAt
<1> QED
  BY <1>1, <1>4, <1>6 DEF Scanned, Shapes

\* A step that leaves the day of every group, and who digests it, as they are.
LEMMA QuietStep ==
  ASSUME DeskTyped, DeskRelated, Shapes, Runs, DigestOnce, DeskTyped', FaultsOK, faults' = faults \/ Fault,
         UNCHANGED <<run, digests, group>>,
         \A h \in Host : \/ scan'[h] = scan[h] /\ facts'[h] = facts[h]
                         \/ {scan[h], scan'[h]} \subseteq {"rest", "claim"},
         \A p \in Proposal : proposal'[p] = "none" <=> proposal[p] = "none"
  PROVE  Scanned
<1>1. DeskRelated'
  BY DEF DeskRelated
<1>2. \A e \in Group : Bare(e) => Bare(e)'
  BY DEF Bare
<1>3. Runs'
  <2>1. ASSUME NEW k \in Host, group[k] # "none" PROVE Digesting(k)'
    <3>1. Digesting(k) /\ group[k] \in Group /\ scan'[k] = scan[k]
      BY <2>1 DEF DeskTyped, Runs, DeskRelated
    <3> QED
      BY <1>2, <3>1 DEF Digesting
  <2> QED
    BY <2>1 DEF Runs
<1>4. DigestOnce'
  BY DigestFaults DEF DigestOnce
<1>5. \A h \in Host : scan'[h] = "insert" => facts'[h] > 0
  BY DEF Shapes
<1> QED
  BY <1>1, <1>3, <1>4, <1>5 DEF Scanned

\* What a group's process knows of it.
LEMMA DigestingNow ==
  ASSUME DeskTyped, DeskRelated, Runs, NEW h \in Host, scan[h] \notin {"rest", "claim"}
  PROVE  /\ group[h] \in Group /\ Digesting(h)
         /\ \A k \in Host \ {h} : group[k] # group[h]
BY DEF DeskTyped, DeskRelated, Runs

LEMMA ScanStep ==
  ASSUME DigestIInv, NEW h \in Host, ScanNext(h)
  PROVE  Scanned
<1>a. DeskTyped /\ DeskRelated /\ Shapes /\ Runs /\ DigestOnce /\ FaultsOK
  BY DigestTypes DEF DigestIInv
<1>b. /\ run \in [Group -> {"none", "Running", "Done", "Failed"}]
      /\ proposal \in [Proposal -> {"none", "Pending", "Approved", "Rejected"}]
      /\ digests \in [Group -> Nat]
      /\ scan \in [Host -> {"rest", "claim", "extract", "insert", "send", "done", "failed"}]
      /\ queue \in [Host -> SUBSET Group]
      /\ group \in [Host -> Group \cup {"none"}]
      /\ facts \in [Host -> 0..MaxFacts]
      /\ busy \subseteq Group
      /\ faults \in Nat /\ MaxFacts \in Nat
  BY <1>a, PlatformAssumption, KbDigestAssumption DEF DeskTyped, FaultsOK
<1>c. UNCHANGED <<desk, busy, base, like, reviews>> /\ (faults' = faults \/ Fault)
  BY DEF ScanNext, StartDigest, ClaimRun, Extract, InsertProposal, SendDigest, FinishRun, DieInDigest
<1>t. ASSUME run' \in [Group -> {"none", "Running", "Done", "Failed"}],
             proposal' \in [Proposal -> {"none", "Pending", "Approved", "Rejected"}],
             digests' \in [Group -> Nat],
             scan' \in [Host -> {"rest", "claim", "extract", "insert", "send", "done", "failed"}],
             queue' \in [Host -> SUBSET Group],
             group' \in [Host -> Group \cup {"none"}],
             facts' \in [Host -> 0..MaxFacts]
      PROVE  DeskTyped'
  BY <1>a, <1>c, <1>t DEF DeskTyped, reviews
<1>1. ASSUME StartDigest(h) PROVE Scanned
  <2>1. /\ scan[h] = "rest" /\ scan' = [scan EXCEPT ![h] = "claim"]
        /\ queue' = [queue EXCEPT ![h] = busy \ {desk}]
        /\ UNCHANGED <<run, proposal, digests, group, facts>>
    BY <1>1 DEF StartDigest, store
  <2>2. DeskTyped'
    BY <1>b, <1>t, <2>1
  <2> QED
    BY <1>a, <1>b, <1>c, <2>1, <2>2, QuietStep
<1>2. ASSUME ClaimRun(h) PROVE Scanned
  <2>1. scan[h] = "claim" /\ UNCHANGED <<proposal, digests>>
    BY <1>2 DEF ClaimRun
  <2>2. PICK g \in queue[h] :
          LET won == [run EXCEPT ![g] = "Running"] IN
          \/ /\ RunIsFree(g) /\ run' = won
             /\ scan' = [scan EXCEPT ![h] = "extract"]
             /\ queue' = [queue EXCEPT ![h] = @ \ {g}]
             /\ group' = [group EXCEPT ![h] = g]
             /\ UNCHANGED facts
          \/ NextGroup(h, queue[h] \ {g}) /\ UNCHANGED run
          \/ Fault /\ NextGroup(h, {}) /\ run' \in {run, IF RunIsFree(g) THEN won ELSE run}
    BY <1>2 DEF ClaimRun
  <2>3. g \in Group /\ group[h] = "none" /\ g # "none"
    BY <1>a, <1>b, <2>1, KbDigestAssumption DEF DeskRelated
  <2>4. CASE UNCHANGED run /\ \E rest \in SUBSET Group : NextGroup(h, rest)
    <3>1. PICK rest \in SUBSET Group : NextGroup(h, rest)
      BY <2>4
    <3>2. /\ scan' \in [Host -> {"rest", "claim", "extract", "insert", "send", "done", "failed"}]
          /\ queue' \in [Host -> SUBSET Group]
          /\ group' \in [Host -> Group \cup {"none"}]
          /\ facts' \in [Host -> 0..MaxFacts]
          /\ group'[h] = "none" /\ scan'[h] \in {"rest", "claim"}
          /\ \A k \in Host \ {h} : scan'[k] = scan[k] /\ group'[k] = group[k] /\ facts'[k] = facts[k]
      BY <1>a, <3>1, NextGroupStep
    <3>3. group' = group
      BY <1>b, <2>3, <3>2
    <3>4. DeskTyped'
      BY <1>b, <1>t, <2>1, <2>4, <3>2
    <3> QED
      BY <1>a, <1>c, <2>1, <2>4, <3>2, <3>3, <3>4, QuietStep
  <2>5. CASE RunIsFree(g) /\ run' = [run EXCEPT ![g] = "Running"]
    <3>1. run[g] = "none" /\ run'[g] = "Running" /\ digests[g] = 0 /\ Bare(g)
          /\ \A e \in Group \ {g} : run'[e] = run[e]
      BY <1>a, <1>b, <2>3, <2>5 DEF RunIsFree, Runs, DeskRelated, Bare
    <3>2. \A k \in Host : group[k] # g
      BY <1>a, <2>3, <3>1 DEF Runs, Digesting
    <3>3. digests'[g] = 0 /\ Bare(g)'
      BY <2>1, <3>1 DEF Bare
    <3>4. CASE /\ scan' = [scan EXCEPT ![h] = "extract"]
               /\ queue' = [queue EXCEPT ![h] = @ \ {g}]
               /\ group' = [group EXCEPT ![h] = g]
               /\ UNCHANGED facts
      <4>1. DeskTyped'
        BY <1>b, <1>t, <2>1, <2>3, <2>5, <3>4
      <4>2. group'[h] = g /\ scan'[h] = "extract"
        BY <1>b, <3>4
      <4>3. Digesting(h)'
        BY <3>1, <3>3, <4>2 DEF Digesting
      <4>4. OnceAt(g)'
        BY <3>1, <3>3, <4>2 DEF OnceAt
      <4>5. \A k \in Host \ {h} : scan'[k] = scan[k] /\ group'[k] = group[k] /\ facts'[k] = facts[k]
        BY <1>b, <3>4
      <4> QED
        BY <1>a, <1>c, <2>1, <2>3, <3>1, <3>2, <3>3, <4>1, <4>2, <4>3, <4>4, <4>5, ScanFrame
    <3>5. CASE Fault /\ NextGroup(h, {})
      <4>1. /\ scan' \in [Host -> {"rest", "claim", "extract", "insert", "send", "done", "failed"}]
            /\ queue' \in [Host -> SUBSET Group]
            /\ group' \in [Host -> Group \cup {"none"}]
            /\ facts' \in [Host -> 0..MaxFacts]
            /\ group'[h] = "none" /\ scan'[h] \in {"rest", "claim"}
            /\ \A k \in Host \ {h} : scan'[k] = scan[k] /\ group'[k] = group[k] /\ facts'[k] = facts[k]
        BY <1>a, <3>5, NextGroupStep
      <4>2. DeskTyped'
        BY <1>b, <1>t, <2>1, <2>3, <2>5, <4>1
      <4>3. faults' > 0
        BY <1>b, <3>5 DEF Fault
      <4>4. OnceAt(g)'
        BY <3>1, <3>3, <4>3 DEF OnceAt
      <4> QED
        BY <1>a, <1>c, <2>1, <2>3, <3>1, <3>2, <3>3, <4>1, <4>2, <4>4, ScanFrame
    <3>6. \/ /\ scan' = [scan EXCEPT ![h] = "extract"]
             /\ queue' = [queue EXCEPT ![h] = @ \ {g}]
             /\ group' = [group EXCEPT ![h] = g]
             /\ UNCHANGED facts
          \/ Fault /\ NextGroup(h, {})
      BY <2>2, <2>5, <3>1
    <3> QED
      BY <3>4, <3>5, <3>6
  <2>6. queue[h] \ {g} \in SUBSET Group /\ {} \in SUBSET Group
    BY <1>b
  <2> QED
    BY <2>2, <2>4, <2>5, <2>6
\* From here on the process digests the group g.
<1>3. ASSUME NEW g \in Group, g = group[h], scan[h] \notin {"rest", "claim"},
             DeskTyped',
             \A k \in Host \ {h} : scan'[k] = scan[k] /\ group'[k] = group[k] /\ facts'[k] = facts[k],
             group'[h] \in {"none", g}, group'[h] = g <=> scan'[h] \notin {"rest", "claim"},
             scan'[h] = "insert" => facts'[h] > 0,
             \A e \in Group \ {g} : run'[e] = run[e] /\ digests'[e] = digests[e],
             \A p \in Proposal : p[1] # g => proposal'[p] = proposal[p],
             run'[g] # "none",
             group'[h] = g => Digesting(h)',
             OnceAt(g)'
      PROVE  Scanned
  <2>1. \A k \in Host \ {h} : group[k] # g
    BY <1>a, <1>3, DigestingNow
  <2>2. group'[h] # "none" <=> scan'[h] \notin {"rest", "claim"}
    BY <1>3, KbDigestAssumption
  <2> QED
    BY <1>a, <1>c, <1>3, <2>1, <2>2, ScanFrame
<1>4. ASSUME Extract(h) PROVE Scanned
  <2>1. /\ scan[h] = "extract" /\ UNCHANGED <<run, proposal, digests, queue, group>>
        /\ \/ \E n \in 0..MaxFacts :
                /\ scan' = [scan EXCEPT ![h] = IF n = 0 THEN "send" ELSE "insert"]
                /\ facts' = [facts EXCEPT ![h] = n]
           \/ /\ \E s \in {"done", "failed"} : scan' = [scan EXCEPT ![h] = s]
              /\ UNCHANGED facts
    BY <1>4 DEF Extract, ScanAt, store
  <2>2. PICK g \in Group : g = group[h] /\ Digesting(h)
    BY <1>a, <2>1, DigestingNow
  <2>3. DeskTyped'
    BY <1>b, <1>t, <2>1
  <2>4. \A k \in Host \ {h} : scan'[k] = scan[k] /\ group'[k] = group[k] /\ facts'[k] = facts[k]
    BY <1>b, <2>1
  <2>5. /\ group'[h] = g /\ scan'[h] \in {"send", "insert", "done", "failed"}
        /\ scan'[h] = "insert" => facts'[h] > 0
    BY <1>b, <2>1, <2>2
  <2>6. run[g] = "Running" /\ digests[g] = 0 /\ Bare(g)
    BY <2>1, <2>2 DEF Digesting
  <2>7. Digesting(h)'
    BY <2>1, <2>5, <2>6 DEF Digesting, Bare
  <2>8. OnceAt(g)'
    BY <2>1, <2>5, <2>6 DEF OnceAt
  <2> QED
    BY <1>3, <2>1, <2>2, <2>3, <2>4, <2>5, <2>6, <2>7, <2>8
<1>5. ASSUME InsertProposal(h) PROVE Scanned
  <2>1. /\ scan[h] = "insert" /\ UNCHANGED <<run, digests, queue, group>>
        /\ proposal' \in {proposal, [proposal EXCEPT ![<<group[h], facts[h]>>] = "Pending"]}
        /\ \/ /\ scan' = [scan EXCEPT ![h] = IF facts[h] = 1 THEN "send" ELSE "insert"]
              /\ facts' = [facts EXCEPT ![h] = @ - 1]
           \/ scan' = [scan EXCEPT ![h] = "failed"] /\ UNCHANGED facts
    BY <1>5 DEF InsertProposal, ScanAt
  <2>2. PICK g \in Group : g = group[h] /\ Digesting(h)
    BY <1>a, <2>1, DigestingNow
  <2>3. facts[h] \in 1..MaxFacts
    BY <1>a, <1>b, <2>1 DEF Shapes
  <2>4. DeskTyped'
    BY <1>b, <1>t, <2>1, <2>3
  <2>5. \A k \in Host \ {h} : scan'[k] = scan[k] /\ group'[k] = group[k] /\ facts'[k] = facts[k]
    BY <1>b, <2>1
  <2>6. /\ group'[h] = g /\ scan'[h] \in {"send", "insert", "failed"}
        /\ scan'[h] = "insert" => facts'[h] > 0
    BY <1>b, <2>1, <2>2, <2>3
  <2>7. run[g] = "Running" /\ digests[g] = 0
    BY <2>1, <2>2 DEF Digesting
  <2>8. Digesting(h)'
    BY <2>1, <2>6, <2>7 DEF Digesting
  <2>9. OnceAt(g)'
    BY <2>1, <2>6, <2>7 DEF OnceAt
  <2>10. \A p \in Proposal : p[1] # g => proposal'[p] = proposal[p]
    BY <1>b, <2>1, <2>2
  <2> QED
    BY <1>3, <2>1, <2>2, <2>4, <2>5, <2>6, <2>7, <2>8, <2>9, <2>10
<1>6. ASSUME SendDigest(h) PROVE Scanned
  <2>1. /\ scan[h] = "send" /\ UNCHANGED <<run, proposal, queue, group, facts>>
        /\ digests' \in {digests, [digests EXCEPT ![group[h]] = @ + 1]}
        /\ \/ /\ digests' = [digests EXCEPT ![group[h]] = @ + 1]
              /\ scan' = [scan EXCEPT ![h] = "done"]
           \/ scan' = [scan EXCEPT ![h] = "failed"]
    BY <1>6 DEF SendDigest, ScanAt, store
  <2>2. PICK g \in Group : g = group[h] /\ Digesting(h)
    BY <1>a, <2>1, DigestingNow
  <2>3. DeskTyped'
    BY <1>b, <1>t, <2>1, <2>2
  <2>4. \A k \in Host \ {h} : scan'[k] = scan[k] /\ group'[k] = group[k] /\ facts'[k] = facts[k]
    BY <1>b, <2>1
  <2>5. run[g] = "Running" /\ digests[g] = 0
    BY <2>1, <2>2 DEF Digesting
  <2>6. /\ group'[h] = g /\ scan'[h] \in {"done", "failed"} /\ digests'[g] <= 1
        /\ scan'[h] = "done" => digests'[g] = 1
    BY <1>b, <2>1, <2>2, <2>5
  <2>7. \A e \in Group \ {g} : digests'[e] = digests[e]
    BY <1>b, <2>1, <2>2
  <2>8. Digesting(h)'
    BY <2>1, <2>5, <2>6 DEF Digesting
  <2>9. OnceAt(g)'
    BY <2>1, <2>5, <2>6 DEF OnceAt
  <2> QED
    BY <1>3, <2>1, <2>2, <2>3, <2>4, <2>5, <2>6, <2>7, <2>8, <2>9
<1>7. ASSUME FinishRun(h) PROVE Scanned
  <2> DEFINE end == IF scan[h] = "done" THEN "Done" ELSE "Failed"
  <2>1. /\ scan[h] \in {"done", "failed"} /\ UNCHANGED <<proposal, digests>>
        /\ \/ /\ run' = [run EXCEPT ![group[h]] = end] /\ NextGroup(h, queue[h])
           \/ /\ Fault /\ run' \in {run, [run EXCEPT ![group[h]] = end]}
              /\ IF scan[h] = "done" THEN ScanAt(h, "failed") ELSE NextGroup(h, queue[h])
    BY <1>7 DEF FinishRun
  <2>2. PICK g \in Group : g = group[h] /\ Digesting(h)
    BY <1>a, <2>1, DigestingNow
  <2>3. run[g] \in {"Running", "Done"} /\ (scan[h] = "done" => digests[g] = 1 \/ Bare(g))
        /\ OnceAt(g) /\ digests[g] <= 1
    BY <1>a, <2>1, <2>2 DEF Digesting, DigestOnce, OnceAt
  <2>4. /\ run' \in [Group -> {"none", "Running", "Done", "Failed"}]
        /\ \A e \in Group \ {g} : run'[e] = run[e]
        /\ run'[g] \in {run[g], end}
    BY <1>b, <2>1, <2>2
  <2>5. run'[g] = "Done" => \A p \in Proposal : p[1] = g /\ proposal[p] # "none" => digests[g] = 1
    BY <2>3, <2>4 DEF OnceAt, Bare
  <2>6. CASE NextGroup(h, queue[h]) /\ (run'[g] = end \/ Fault)
    <3>1. /\ scan' \in [Host -> {"rest", "claim", "extract", "insert", "send", "done", "failed"}]
          /\ queue' \in [Host -> SUBSET Group]
          /\ group' \in [Host -> Group \cup {"none"}]
          /\ facts' \in [Host -> 0..MaxFacts]
          /\ group'[h] = "none" /\ scan'[h] \in {"rest", "claim"}
          /\ \A k \in Host \ {h} : scan'[k] = scan[k] /\ group'[k] = group[k] /\ facts'[k] = facts[k]
      BY <1>a, <1>b, <2>6, NextGroupStep
    <3>2. DeskTyped'
      BY <1>b, <1>t, <2>1, <2>4, <3>1
    <3>3. OnceAt(g)'
      BY <1>b, <2>1, <2>3, <2>4, <2>5, <2>6 DEF OnceAt, Fault
    <3>4. g # "none"
      BY KbDigestAssumption
    <3> QED
      BY <1>3, <2>1, <2>2, <2>3, <2>4, <3>1, <3>2, <3>3, <3>4
  <2>7. CASE ScanAt(h, "failed") /\ Fault
    <3>1. /\ scan' \in [Host -> {"rest", "claim", "extract", "insert", "send", "done", "failed"}]
          /\ queue' \in [Host -> SUBSET Group]
          /\ group' \in [Host -> Group \cup {"none"}]
          /\ facts' \in [Host -> 0..MaxFacts]
          /\ scan'[h] = "failed" /\ group' = group
          /\ \A k \in Host \ {h} : scan'[k] = scan[k] /\ facts'[k] = facts[k]
      BY <1>a, <2>7, ScanAtStep
    <3>2. DeskTyped'
      BY <1>b, <1>t, <2>1, <2>4, <3>1
    <3>3. OnceAt(g)'
      BY <1>b, <2>1, <2>3, <2>4, <2>5, <2>7 DEF OnceAt, Fault
    <3>4. scan[h] = "done"
      BY <1>b, <2>1, <2>7, <3>1 DEF ScanAt, NextGroup
    <3>5. Digesting(h)'
      BY <2>2, <2>3, <2>4, <3>1, <3>4 DEF Digesting
    <3> QED
      BY <1>3, <2>1, <2>2, <2>3, <2>4, <3>1, <3>2, <3>3, <3>5
  <2> QED
    BY <1>b, <2>1, <2>2, <2>6, <2>7
<1>8. ASSUME DieInDigest(h) PROVE Scanned
  <2>1. scan[h] # "rest" /\ Fault /\ NextGroup(h, {}) /\ UNCHANGED <<run, proposal, digests>>
    BY <1>8 DEF DieInDigest, store
  <2>2. /\ scan' \in [Host -> {"rest", "claim", "extract", "insert", "send", "done", "failed"}]
        /\ queue' \in [Host -> SUBSET Group]
        /\ group' \in [Host -> Group \cup {"none"}]
        /\ facts' \in [Host -> 0..MaxFacts]
        /\ group'[h] = "none" /\ scan'[h] \in {"rest", "claim"}
        /\ \A k \in Host \ {h} : scan'[k] = scan[k] /\ group'[k] = group[k] /\ facts'[k] = facts[k]
    BY <1>a, <2>1, NextGroupStep
  <2>3. DeskTyped'
    BY <1>b, <1>t, <2>1, <2>2
  <2>4. CASE scan[h] = "claim"
    <3>1. group' = group
      BY <1>a, <1>b, <2>2, <2>4 DEF DeskRelated
    <3> QED
      BY <1>a, <1>c, <2>1, <2>2, <2>3, <2>4, <3>1, QuietStep
  <2>5. CASE scan[h] # "claim"
    <3>1. PICK g \in Group : g = group[h] /\ Digesting(h)
      BY <1>a, <2>1, <2>5, DigestingNow
    <3>2. OnceAt(g)'
      BY <1>a, <1>b, <2>1 DEF DigestOnce, OnceAt, Fault
    <3>3. run'[g] # "none" /\ g # "none"
      BY <2>1, <3>1, KbDigestAssumption DEF Digesting
    <3> QED
      BY <1>3, <2>1, <2>2, <2>3, <2>5, <3>1, <3>2, <3>3
  <2> QED
    BY <2>4, <2>5
<1> QED
  BY <1>1, <1>2, <1>4, <1>5, <1>6, <1>7, <1>8 DEF ScanNext

-----------------------------------------------------------------------------
(* The review                                                              *)

\* What Reviews and ApprovedIsWritten say of a process and of a proposal.
Sound(h) ==
  /\ review[h] # "idle" => subject[h] \in Proposal
  /\ review[h] = "approve" => Written(subject[h])

True(p) == proposal[p] = "Approved" \/ "approved" \in told[p] => Written(p)

LEMMA ReviewParts ==
  Reviews /\ ApprovedIsWritten <=> (\A h \in Host : Sound(h)) /\ (\A p \in Proposal : True(p))
BY DEF Reviews, ApprovedIsWritten, Sound, True, Written

LEMMA ReviewPartsNext ==
  ASSUME \A h \in Host : Sound(h)', \A p \in Proposal : True(p)'
  PROVE  Reviews' /\ ApprovedIsWritten'
BY DEF Reviews, ApprovedIsWritten, Sound, True, Written

\* A step outside the review: no proposal becomes approved by it.
LEMMA OutsideReview ==
  ASSUME Reviews, ApprovedIsWritten, UNCHANGED <<base, like, reviews>>,
         \A p \in Proposal : proposal'[p] = "Approved" => proposal[p] = "Approved"
  PROVE  Reviews' /\ ApprovedIsWritten'
BY DEF Reviews, ApprovedIsWritten, Written, reviews

LEMMA ReviewStep ==
  ASSUME DigestIInv, NEW h \in Host, ReviewNext(h)
  PROVE  Scanned /\ Reviews' /\ ApprovedIsWritten'
<1>a. DeskTyped /\ DeskRelated /\ Shapes /\ Runs /\ DigestOnce /\ FaultsOK
  BY DigestTypes DEF DigestIInv
<1>b. /\ proposal \in [Proposal -> {"none", "Pending", "Approved", "Rejected"}]
      /\ base \in [Proposal -> Nat] /\ like \subseteq Proposal
      /\ review \in [Host -> {"idle", "source", "near", "insert", "approve", "reject"}]
      /\ subject \in [Host -> Proposal \cup {<<>>}]
      /\ told \in [Proposal -> SUBSET {"approved", "rejected"}]
  BY <1>a DEF DeskTyped
<1>c. (\A k \in Host : Sound(k)) /\ (\A p \in Proposal : True(p))
  BY ReviewParts DEF DigestIInv
<1>d. UNCHANGED <<desk, busy, run, digests, scans>> /\ (faults' = faults \/ Fault)
  BY DEF ReviewNext, ApproveCommand, RejectCommand, HasSource, NearDuplicate, InsertFact, Decide,
         store
<1>e. ASSUME proposal' \in [Proposal -> {"none", "Pending", "Approved", "Rejected"}],
             base' \in [Proposal -> Nat], like' \subseteq Proposal,
             review' \in [Host -> {"idle", "source", "near", "insert", "approve", "reject"}],
             subject' \in [Host -> Proposal \cup {<<>>}],
             told' \in [Proposal -> SUBSET {"approved", "rejected"}],
             \A p \in Proposal : proposal'[p] = "none" <=> proposal[p] = "none"
      PROVE  Scanned
  <2>1. DeskTyped'
    BY <1>a, <1>d, <1>e DEF DeskTyped, scans
  <2> QED
    BY <1>a, <1>d, <1>e, <2>1, QuietStep DEF scans
\* The knowledge base only grows, and the others have their own commands.
<1>f. ASSUME \A p \in Proposal : Written(p) => Written(p)',
             \A k \in Host \ {h} : review'[k] = review[k] /\ subject'[k] = subject[k],
             Sound(h)', \A p \in Proposal : True(p)'
      PROVE  Reviews' /\ ApprovedIsWritten'
  <2>1. \A k \in Host \ {h} : Sound(k)'
    BY <1>c, <1>f DEF Sound
  <2> QED
    BY <1>f, <2>1, ReviewPartsNext
<1>1. ASSUME NEW p \in Proposal, ApproveCommand(h, p) \/ RejectCommand(h, p)
      PROVE  Scanned /\ Reviews' /\ ApprovedIsWritten'
  <2>1. PICK s \in {"source", "reject"} : review' = [review EXCEPT ![h] = s]
    BY <1>1 DEF ApproveCommand, RejectCommand
  <2>2. subject' = [subject EXCEPT ![h] = p] /\ UNCHANGED <<proposal, base, like, told>>
    BY <1>1 DEF ApproveCommand, RejectCommand, store
  <2>3. Scanned
    BY <1>b, <1>e, <2>1, <2>2
  <2>4. Sound(h)' /\ \A k \in Host \ {h} : review'[k] = review[k] /\ subject'[k] = subject[k]
    BY <1>b, <2>1, <2>2 DEF Sound
  <2>5. \A q \in Proposal : (Written(q) => Written(q)') /\ True(q)'
    BY <1>c, <2>2 DEF True, Written
  <2> QED
    BY <1>f, <2>3, <2>4, <2>5
\* A statement of memory.write, after which the command goes on or ends.
<1>2. ASSUME UNCHANGED <<proposal, told>>, base' \in [Proposal -> Nat], like' \subseteq Proposal,
             \A p \in Proposal : Written(p) => Written(p)',
             subject[h] \in Proposal,
             \/ EndReview(h)
             \/ \E s \in {"near", "insert", "approve"} :
                  /\ review' = [review EXCEPT ![h] = s] /\ UNCHANGED subject
                  /\ s = "approve" => Written(subject[h])'
      PROVE  Scanned /\ Reviews' /\ ApprovedIsWritten'
  <2>1. /\ review' \in [Host -> {"idle", "source", "near", "insert", "approve", "reject"}]
        /\ subject' \in [Host -> Proposal \cup {<<>>}]
        /\ \A k \in Host \ {h} : review'[k] = review[k] /\ subject'[k] = subject[k]
    BY <1>b, <1>2 DEF EndReview
  <2>2. Scanned
    BY <1>b, <1>e, <1>2, <2>1
  <2>3. Sound(h)'
    <3>1. CASE EndReview(h)
      BY <1>b, <3>1 DEF EndReview, Sound
    <3>2. CASE \E s \in {"near", "insert", "approve"} :
                  /\ review' = [review EXCEPT ![h] = s] /\ UNCHANGED subject
                  /\ s = "approve" => Written(subject[h])'
      BY <1>b, <1>2, <3>2 DEF Sound
    <3> QED
      BY <1>2, <3>1, <3>2
  <2>4. \A p \in Proposal : True(p)'
    BY <1>c, <1>2 DEF True
  <2> QED
    BY <1>f, <1>2, <2>1, <2>2, <2>3, <2>4
<1>3. ASSUME HasSource(h) PROVE Scanned /\ Reviews' /\ ApprovedIsWritten'
  <2>1. subject[h] \in Proposal
    BY <1>3, <1>c DEF HasSource, Sound
  <2>2. UNCHANGED <<proposal, base, like, told>>
    BY <1>3 DEF HasSource, ReviewAt, store
  <2>3. \A p \in Proposal : Written(p) => Written(p)'
    BY <2>2 DEF Written
  <2>4. \/ EndReview(h)
        \/ \E s \in {"near", "insert", "approve"} :
             /\ review' = [review EXCEPT ![h] = s] /\ UNCHANGED subject
             /\ s = "approve" => Written(subject[h])'
    BY <1>3, <2>2 DEF HasSource, ReviewAt, Written
  <2> QED
    BY <1>2, <1>b, <2>1, <2>2, <2>3, <2>4
<1>4. ASSUME NearDuplicate(h) PROVE Scanned /\ Reviews' /\ ApprovedIsWritten'
  <2>1. subject[h] \in Proposal
    BY <1>4, <1>c DEF NearDuplicate, Sound
  <2>2. /\ UNCHANGED <<proposal, base, told>>
        /\ \/ /\ like' = IF base[subject[h]] = 0 THEN like \cup {subject[h]} ELSE like
              /\ ReviewAt(h, "approve")
           \/ UNCHANGED like /\ (ReviewAt(h, "insert") \/ EndReview(h))
    BY <1>4 DEF NearDuplicate, ReviewAt, store
  <2>3. like' \subseteq Proposal /\ like \subseteq like'
    BY <1>b, <2>1, <2>2
  <2>4. \A p \in Proposal : Written(p) => Written(p)'
    BY <2>2, <2>3 DEF Written
  <2>5. \/ EndReview(h)
        \/ \E s \in {"near", "insert", "approve"} :
             /\ review' = [review EXCEPT ![h] = s] /\ UNCHANGED subject
             /\ s = "approve" => Written(subject[h])'
    <3>1. base[subject[h]] \in Nat
      BY <1>b, <2>1
    <3> QED
      BY <2>2, <3>1 DEF ReviewAt, Written
  <2> QED
    BY <1>2, <1>b, <2>1, <2>2, <2>3, <2>4, <2>5
<1>5. ASSUME InsertFact(h) PROVE Scanned /\ Reviews' /\ ApprovedIsWritten'
  <2>1. subject[h] \in Proposal
    BY <1>5, <1>c DEF InsertFact, Sound
  <2>2. /\ UNCHANGED <<proposal, like, told>>
        /\ \/ base' = [base EXCEPT ![subject[h]] = @ + 1] /\ ReviewAt(h, "approve")
           \/ base' \in {base, [base EXCEPT ![subject[h]] = @ + 1]} /\ EndReview(h)
    BY <1>5 DEF InsertFact, ReviewAt, store
  <2>3. base' \in [Proposal -> Nat] /\ \A p \in Proposal : base'[p] >= base[p]
    <3>1. PICK q \in Proposal : q = subject[h]
      BY <2>1
    <3>2. base' = base \/ base' = [base EXCEPT ![q] = base[q] + 1]
      BY <2>2, <3>1
    <3>3. base[q] + 1 \in Nat
      BY <1>b
    <3> QED
      BY <1>b, <3>2, <3>3
  <2>4. \A p \in Proposal : Written(p) => Written(p)'
    BY <1>b, <2>2, <2>3 DEF Written
  <2>5. \/ EndReview(h)
        \/ \E s \in {"near", "insert", "approve"} :
             /\ review' = [review EXCEPT ![h] = s] /\ UNCHANGED subject
             /\ s = "approve" => Written(subject[h])'
    BY <1>b, <2>1, <2>2 DEF ReviewAt, Written
  <2> QED
    BY <1>2, <1>b, <2>1, <2>2, <2>3, <2>4, <2>5
<1>6. ASSUME Decide(h) PROVE Scanned /\ Reviews' /\ ApprovedIsWritten'
  <2>1. subject[h] \in Proposal /\ (review[h] = "approve" => Written(subject[h]))
    BY <1>6, <1>c DEF Decide, Sound
  <2>2. PICK p \in Proposal : p = subject[h]
    BY <2>1
  <2>3. /\ EndReview(h) /\ UNCHANGED <<base, like>>
        /\ \/ proposal' = proposal
           \/ \E v \in {"Approved", "Rejected"} :
                /\ proposal' = [proposal EXCEPT ![p] = IF StillPending(p) THEN v ELSE @]
                /\ v = "Approved" => review[h] = "approve"
        /\ \/ told' = told
           \/ \E w \in {"approved", "rejected"} :
                /\ told' = [told EXCEPT ![p] = @ \cup {w}]
                /\ w = "approved" => review[h] = "approve"
    BY <1>6, <2>2 DEF Decide, Say
  <2>4. proposal' \in [Proposal -> {"none", "Pending", "Approved", "Rejected"}]
        /\ told' \in [Proposal -> SUBSET {"approved", "rejected"}]
    <3>1. proposal' \in [Proposal -> {"none", "Pending", "Approved", "Rejected"}]
      BY <1>b, <2>3
    <3>2. told' \in [Proposal -> SUBSET {"approved", "rejected"}]
      BY <1>b, <2>3
    <3> QED
      BY <3>1, <3>2
  <2>5. \A q \in Proposal : proposal'[q] = "none" <=> proposal[q] = "none"
    BY <1>b, <2>3 DEF StillPending
  <2>6. /\ review' \in [Host -> {"idle", "source", "near", "insert", "approve", "reject"}]
        /\ subject' \in [Host -> Proposal \cup {<<>>}]
        /\ \A k \in Host \ {h} : review'[k] = review[k] /\ subject'[k] = subject[k]
        /\ review'[h] = "idle"
    BY <1>b, <2>3 DEF EndReview
  <2>7. Scanned
    BY <1>b, <1>e, <2>3, <2>4, <2>5, <2>6
  <2>8. \A q \in Proposal : Written(q)' <=> Written(q)
    BY <2>3 DEF Written
  <2>9. \A q \in Proposal : True(q)'
    BY <1>b, <1>c, <2>1, <2>2, <2>3, <2>8 DEF True
  <2>10. Sound(h)'
    BY <2>6 DEF Sound
  <2> QED
    BY <1>f, <2>6, <2>7, <2>8, <2>9, <2>10
<1> QED
  BY <1>1, <1>3, <1>4, <1>5, <1>6 DEF ReviewNext

-----------------------------------------------------------------------------
LEMMA DigestInitial == DigestInit /\ NoFault => DigestIInv
<1> SUFFICES ASSUME DigestInit, NoFault PROVE DigestIInv
  OBVIOUS
<1>1. FaultsOK
  BY PlatformAssumption DEF NoFault, FaultsOK
<1>2. Shapes
  BY DEF DigestInit, Shapes
<1>3. DigestTypeOK
  BY KbDigestAssumption DEF DigestInit, DigestTypeOK
<1>4. Runs /\ DigestOnce
  BY DEF DigestInit, Runs, DigestOnce
<1>5. Reviews /\ ApprovedIsWritten
  BY DEF DigestInit, Reviews, ApprovedIsWritten
<1> QED
  BY <1>1, <1>2, <1>3, <1>4, <1>5 DEF DigestIInv

LEMMA DigestStep == DigestIInv /\ [DigestNext]_<<digestVars, faults>> => DigestIInv'
<1> SUFFICES ASSUME DigestIInv, [DigestNext]_<<digestVars, faults>> PROVE DigestIInv'
  OBVIOUS
<1>a. DeskTyped /\ DeskRelated /\ Shapes /\ Runs /\ DigestOnce /\ FaultsOK /\ Reviews /\ ApprovedIsWritten
  BY DigestTypes DEF DigestIInv
<1>b. ASSUME Scanned, Reviews', ApprovedIsWritten', faults' = faults \/ Fault PROVE DigestIInv'
  BY <1>a, <1>b, DigestTypesNext, DigestFaults DEF Scanned, DigestIInv
<1>1. CASE UNCHANGED <<busy, store, digests, base, like, scans, reviews, faults>>
           /\ desk' \in Group \cup {"none"}
  <2>1. DeskTyped'
    BY <1>a, <1>1 DEF DeskTyped, store, scans, reviews
  <2>2. Scanned
    BY <1>a, <1>1, <2>1, QuietStep DEF store, scans
  <2>3. Reviews' /\ ApprovedIsWritten'
    BY <1>a, <1>1, OutsideReview DEF store
  <2> QED
    BY <1>1, <1>b, <2>2, <2>3
<1>2. ASSUME NEW g \in Group, StaffWrites(g) PROVE DigestIInv'
  <2>1. UNCHANGED <<desk, run, proposal, digests, base, like, scans, reviews, faults>>
        /\ busy' \subseteq Group
    BY <1>2, <1>a DEF StaffWrites, store, DeskTyped
  <2>2. DeskTyped'
    BY <1>a, <2>1 DEF DeskTyped, scans, reviews
  <2>3. Scanned
    BY <1>a, <2>1, <2>2, QuietStep DEF scans
  <2>4. Reviews' /\ ApprovedIsWritten'
    BY <1>a, <2>1, OutsideReview
  <2> QED
    BY <1>b, <2>1, <2>3, <2>4
<1>3. ASSUME NEW h \in Host, ScanNext(h) PROVE DigestIInv'
  <2>1. Scanned
    BY <1>3, ScanStep
  <2>2. UNCHANGED <<base, like, reviews>> /\ (faults' = faults \/ Fault)
    BY <1>3 DEF ScanNext, StartDigest, ClaimRun, Extract, InsertProposal, SendDigest, FinishRun,
                DieInDigest
  <2>3. proposal' = proposal
        \/ proposal' = [proposal EXCEPT ![<<group[h], facts[h]>>] = "Pending"]
    BY <1>3 DEF ScanNext, StartDigest, ClaimRun, Extract, InsertProposal, SendDigest, FinishRun,
                DieInDigest, store
  <2>4. \A p \in Proposal : proposal'[p] = "Approved" => proposal[p] = "Approved"
    BY <1>a, <2>3 DEF DeskTyped
  <2>5. Reviews' /\ ApprovedIsWritten'
    BY <1>a, <2>2, <2>4, OutsideReview
  <2> QED
    BY <1>b, <2>1, <2>2, <2>5
<1>4. ASSUME NEW h \in Host, ReviewNext(h) PROVE DigestIInv'
  <2>1. faults' = faults \/ Fault
    BY <1>4 DEF ReviewNext, ApproveCommand, RejectCommand, HasSource, NearDuplicate, InsertFact,
                Decide
  <2> QED
    BY <1>4, <1>b, <2>1, ReviewStep
<1>5. ASSUME NEW g \in Group, BindDesk(g) PROVE DigestIInv'
  BY <1>1, <1>5 DEF BindDesk
<1>6. CASE UNCHANGED <<digestVars, faults>>
  BY <1>1, <1>6, <1>a DEF digestVars, DeskTyped
<1> QED
  BY <1>2, <1>3, <1>4, <1>5, <1>6 DEF DigestNext

(* Every reachable state satisfies the inductive invariant.                *)
THEOREM DigestInductive == DigestSpec => []DigestIInv
<1>1. DigestInit /\ NoFault => DigestIInv
  BY DigestInitial
<1>2. DigestIInv /\ [DigestNext]_<<digestVars, faults>> => DigestIInv'
  BY DigestStep
<1> QED
  BY <1>1, <1>2, PTL DEF DigestSpec

(* The types hold, only a claimed group has proposals, and a process digests *)
(* a group exactly between claim and finish.                               *)
THEOREM DigestTyped == DigestSpec => []DigestTypeOK
<1>1. DigestIInv => DigestTypeOK
  BY DEF DigestIInv
<1> QED
  BY <1>1, DigestInductive, PTL

(* However many processes tick, and whatever fails, a group gets one digest *)
(* a day, and every proposal of a run that is done was in it.              *)
THEOREM OneDigestADay == DigestSpec => []DigestOnce
<1>1. DigestIInv => DigestOnce
  BY DEF DigestIInv
<1> QED
  BY <1>1, DigestInductive, PTL

(* What staff read as approved, and what stands as approved, is in the      *)
(* knowledge base, with any number of reviews at the same time and of       *)
(* statements that fail.                                                   *)
THEOREM ApprovedFactsAreWritten == DigestSpec => []ApprovedIsWritten
<1>1. DigestIInv => ApprovedIsWritten
  BY DEF DigestIInv
<1> QED
  BY <1>1, DigestInductive, PTL

-----------------------------------------------------------------------------
(* Verdict                                                                 *)

\* A verdict that is still open has met nothing but trouble worth another attempt,
\* and has one left.
StillOpen ==
  /\ court = "asked" => attempt = 0
  /\ court \in {"attempt", "sleep"} =>
       attempt < MaxAttempts /\ (attempt > 0 => replies[attempt] \in {"busy", "lost"})

VerdictIInv == VerdictTypeOK /\ StillOpen /\ VerdictIsJudged

LEMMA VerdictInitial ==
  ASSUME VerdictInit
  PROVE  VerdictIInv
<1>1. MaxAttempts \in Nat \ {0}
  BY VerdictAssumption
<1>2. replies \in Seq(Outcome) /\ Len(replies) = 0 /\ attempt = 0
  BY DEF VerdictInit, VerdictIdle
<1>3. 0 \in 0..MaxAttempts /\ ~(attempt > 0)
  BY <1>1, <1>2
<1>4. VerdictTypeOK
  BY <1>2, <1>3 DEF VerdictInit, VerdictIdle, VerdictTypeOK
<1>5. StillOpen /\ VerdictIsJudged
  BY <1>2, <1>3 DEF VerdictInit, VerdictIdle, StillOpen, VerdictIsJudged
<1> QED
  BY <1>4, <1>5 DEF VerdictIInv

\* What an attempt adds to the replies, and leaves of them.
LEMMA MetMore ==
  ASSUME VerdictIInv, NEW what \in Outcome, Met(what)
  PROVE  /\ attempt' = attempt + 1 /\ attempt \in Nat
         /\ replies' \in Seq(Outcome) /\ Len(replies') = attempt'
         /\ replies'[attempt'] = what
         /\ \A i \in 1..attempt : replies'[i] = replies[i]
BY VerdictAssumption DEF VerdictIInv, VerdictTypeOK, Met

\* Before an attempt all the replies were worth another one.
LEMMA AllRetried ==
  ASSUME VerdictIInv, court = "attempt"
  PROVE  /\ attempt < MaxAttempts /\ MaxAttempts \in Nat /\ attempt \in Nat
         /\ \A i \in 1..attempt : replies[i] \in {"busy", "lost"}
<1>1. attempt \in Nat /\ MaxAttempts \in Nat /\ attempt < MaxAttempts
  BY VerdictAssumption DEF VerdictIInv, VerdictTypeOK, StillOpen
<1>2. ASSUME NEW i \in 1..attempt PROVE replies[i] \in {"busy", "lost"}
  <2>1. attempt > 0 /\ (i = attempt \/ i \in 1..(attempt - 1))
    BY <1>1, <1>2
  <2> QED
    BY <2>1, <1>1 DEF VerdictIInv, StillOpen, VerdictIsJudged
<1> QED
  BY <1>1, <1>2

\* An attempt that ends the verdict, with a ruling that its reply bears.
LEMMA RuleAfter ==
  ASSUME VerdictIInv, court = "attempt", UNCHANGED <<gate, aborted>>,
         NEW what \in Outcome, Met(what), NEW word \in {"run", "pass", "raised"}, Rule(word),
         word = "run" => what = "yes",
         word = "raised" <=> what = "torn",
         word = "pass" => what \in {"no", "odd", "refused"} \/ attempt + 1 = MaxAttempts \/ aborted
  PROVE  VerdictIInv'
<1>1. /\ attempt' = attempt + 1 /\ attempt \in Nat
      /\ replies' \in Seq(Outcome) /\ Len(replies') = attempt'
      /\ replies'[attempt'] = what
      /\ \A i \in 1..attempt : replies'[i] = replies[i]
  BY MetMore
<1>2. /\ attempt < MaxAttempts /\ MaxAttempts \in Nat
      /\ \A i \in 1..attempt : replies[i] \in {"busy", "lost"}
  BY AllRetried
<1>3. attempt' \in 0..MaxAttempts /\ attempt' - 1 = attempt
  BY <1>1, <1>2
<1>4. court' = "over" /\ ruling' = word
  BY DEF Rule
<1>5. VerdictTypeOK'
  BY <1>1, <1>3, <1>4 DEF VerdictIInv, VerdictTypeOK
<1>6. VerdictIsJudged'
  BY <1>1, <1>2, <1>3, <1>4 DEF VerdictIsJudged
<1> QED
  BY <1>4, <1>5, <1>6 DEF VerdictIInv, StillOpen

\* An attempt after which there is another one.
LEMMA SleepAfter ==
  ASSUME VerdictIInv, court = "attempt", UNCHANGED <<gate, aborted, ruling>>,
         NEW what \in {"busy", "lost"}, Met(what), court' = "sleep", attempt + 1 < MaxAttempts
  PROVE  VerdictIInv'
<1>1. /\ attempt' = attempt + 1 /\ attempt \in Nat
      /\ replies' \in Seq(Outcome) /\ Len(replies') = attempt'
      /\ replies'[attempt'] = what
      /\ \A i \in 1..attempt : replies'[i] = replies[i]
  BY MetMore DEF Outcome
<1>2. /\ attempt < MaxAttempts /\ MaxAttempts \in Nat
      /\ \A i \in 1..attempt : replies[i] \in {"busy", "lost"}
  BY AllRetried
<1>3. attempt' \in 0..MaxAttempts /\ attempt' - 1 = attempt /\ attempt' < MaxAttempts
  BY <1>1, <1>2
<1>4. ruling = "none"
  BY DEF VerdictIInv, VerdictTypeOK
<1>5. VerdictTypeOK'
  BY <1>1, <1>3, <1>4 DEF VerdictIInv, VerdictTypeOK
<1>6. VerdictIsJudged'
  BY <1>1, <1>2, <1>3, <1>4 DEF VerdictIsJudged
<1> QED
  BY <1>1, <1>3, <1>5, <1>6 DEF VerdictIInv, StillOpen

LEMMA FailedStep ==
  ASSUME VerdictIInv, court = "attempt", UNCHANGED <<gate, aborted>>,
         NEW what \in {"odd", "refused", "busy", "lost"}, Met(what), Failed(what)
  PROVE  VerdictIInv'
<1>1. attempt \in Nat /\ MaxAttempts \in Nat /\ attempt < MaxAttempts
  BY AllRetried
<1>2. CASE Retryable(what) /\ attempt + 1 < MaxAttempts
  <2>1. what \in {"busy", "lost"} /\ court' = "sleep" /\ UNCHANGED ruling
    BY <1>2 DEF Retryable, Failed
  <2> QED
    BY <1>2, <2>1, SleepAfter
<1>3. CASE ~(Retryable(what) /\ attempt + 1 < MaxAttempts)
  <2>1. Rule("pass")
    BY <1>3 DEF Failed
  <2>2. what \in {"odd", "refused"} \/ attempt + 1 = MaxAttempts \/ aborted
    BY <1>1, <1>3 DEF Retryable
  <2>3. what \in Outcome /\ what # "torn"
    BY DEF Outcome
  <2> QED
    BY <2>1, <2>2, <2>3, RuleAfter
<1> QED
  BY <1>2, <1>3

LEMMA VerdictStep ==
  ASSUME VerdictIInv, [VerdictNext]_verdictVars
  PROVE  VerdictIInv'
<1>1. CASE Abort
  <2>1. /\ aborted' = TRUE /\ gate = "intake" /\ court # "over" /\ UNCHANGED <<gate, court, attempt, ruling, replies>>
    BY <1>1 DEF Abort
  <2>2. VerdictTypeOK'
    BY <2>1 DEF VerdictIInv, VerdictTypeOK
  <2>3. StillOpen' /\ VerdictIsJudged'
    BY <2>1 DEF VerdictIInv, StillOpen, VerdictIsJudged
  <2> QED
    BY <2>2, <2>3 DEF VerdictIInv
<1>2. CASE Ask
  <2>1. /\ attempt = 0 /\ ruling = "none" /\ MaxAttempts \in Nat \ {0}
        /\ UNCHANGED <<gate, attempt, aborted, replies>>
    BY <1>2, VerdictAssumption DEF Ask, VerdictIInv, VerdictTypeOK, StillOpen
  <2>2. \/ court' = "over" /\ ruling' \in {"run", "pass"}
        \/ court' = "attempt" /\ UNCHANGED ruling
    BY <1>2 DEF Ask, Rule
  <2>3. VerdictTypeOK'
    BY <2>1, <2>2 DEF VerdictIInv, VerdictTypeOK
  <2> QED
    BY <2>1, <2>2, <2>3 DEF VerdictIInv, StillOpen, VerdictIsJudged
<1>3. CASE Attempt
  <2>1. court = "attempt" /\ UNCHANGED <<gate, aborted>>
    BY <1>3 DEF Attempt
  <2>2. "yes" \in Outcome /\ "no" \in Outcome /\ "torn" \in Outcome
    BY DEF Outcome
  <2>3. CASE Met("yes") /\ Rule("run")
    BY <2>1, <2>2, <2>3, RuleAfter
  <2>4. CASE Met("no") /\ Rule("pass")
    BY <2>1, <2>2, <2>4, RuleAfter
  <2>5. CASE \E what \in {"odd", "refused", "busy"} : Met(what) /\ Failed(what)
    BY <2>1, <2>5, FailedStep
  <2>6. CASE Met("lost") /\ Failed("lost")
    BY <2>1, <2>6, FailedStep
  <2>7. CASE Met("torn") /\ Rule("raised")
    BY <2>1, <2>2, <2>7, RuleAfter
  <2> QED
    BY <1>3, <2>3, <2>4, <2>5, <2>6, <2>7 DEF Attempt, Judged
<1>4. CASE TryAgain
  <2>1. court = "sleep" /\ court' = "attempt" /\ UNCHANGED <<gate, attempt, aborted, ruling, replies>>
    BY <1>4 DEF TryAgain
  <2> QED
    BY <2>1 DEF VerdictIInv, VerdictTypeOK, StillOpen, VerdictIsJudged
<1>5. CASE UNCHANGED verdictVars
  BY <1>5 DEF verdictVars, VerdictIInv, VerdictTypeOK, StillOpen, VerdictIsJudged
<1> QED
  BY <1>1, <1>2, <1>3, <1>4, <1>5 DEF VerdictNext

(* VerdictInductive: an open verdict has met nothing but trouble that is     *)
(* worth another attempt, and has one left (judge/jev.ts).                 *)
THEOREM VerdictInductive == VerdictSpec => []VerdictIInv
<1>1. VerdictInit => VerdictIInv
  BY VerdictInitial
<1>2. VerdictIInv /\ [VerdictNext]_verdictVars => VerdictIInv'
  BY VerdictStep
<1> QED
  BY <1>1, <1>2, PTL DEF VerdictSpec

(* VerdictTyped: a verdict is over exactly when there is a ruling, and each  *)
(* attempt has met one reply.                                              *)
THEOREM VerdictTyped == VerdictSpec => []VerdictTypeOK
<1>1. VerdictIInv => VerdictTypeOK
  BY DEF VerdictIInv
<1> QED
  BY <1>1, VerdictInductive, PTL

(* GatesAreJudged: for any number of attempts, a gate opens on the judge's   *)
(* own yes or for what needs none, and nothing is asked again that has      *)
(* been answered or refused (jev.ts:114-123, intake.ts:97-101).             *)
THEOREM GatesAreJudged == VerdictSpec => []VerdictIsJudged
<1>1. VerdictIInv => VerdictIsJudged
  BY DEF VerdictIInv
<1> QED
  BY <1>1, VerdictInductive, PTL

-----------------------------------------------------------------------------
(* Lifecycle                                                               *)

\* What is there to work with in each phase.
Stocked ==
  /\ phase = "off" => named = {} /\ connected = {}
  /\ phase \in {"off", "infra"} => open = {}
  /\ phase \in {"skills", "mcp"} => open = {"db", "redis"}
  /\ phase \in {"agents", "start", "up"} => open = Resource
  /\ running # {} => open = Resource
  /\ phase \notin {"up", "stopping"} => working = {}

\* What stop() has left behind: it does its work in order, and what comes before in
\* that order has stopped, the requests of the gateway excepted.
Behind ==
  /\ Len(toStop) <= 10
  /\ \A i \in 1..Len(toStop) : toStop[i] = StopOrder[i + (10 - Len(toStop))]
  /\ phase = "stopping" =>
       \A i \in 1..(10 - Len(toStop)) :
         StopOrder[i] \notin running /\ StopOrder[i] \notin working \ {"gateway"}

LifecycleIInv == FaultsOK /\ LifecycleTypeOK /\ Stocked /\ Behind /\ NothingStranded

\* What the invariants say of a process that has not yet come up.
LEMMA NotYetUp ==
  ASSUME LifecycleIInv, phase \in {"off", "infra", "skills", "mcp", "agents", "start"}
  PROVE  running = {} /\ working = {} /\ toStop = <<>>
BY DEF LifecycleIInv, LifecycleTypeOK, Stocked

LEMMA LifecycleInitial ==
  ASSUME LifecycleInit, NoFault
  PROVE  LifecycleIInv
<1>1. FaultsOK
  BY PlatformAssumption DEF NoFault, FaultsOK
<1>2. LifecycleTypeOK
  BY DEF LifecycleInit, LifecycleTypeOK
<1>3. Stocked /\ NothingStranded
  BY DEF LifecycleInit, Stocked, NothingStranded
<1>4. Behind
  <2>1. toStop = <<>> /\ phase = "off" /\ Len(toStop) = 0
    BY DEF LifecycleInit
  <2> QED
    BY <2>1 DEF Behind
<1> QED
  BY <1>1, <1>2, <1>3, <1>4 DEF LifecycleIInv

\* A step before the services run: one phase ends, or the process does.
LEMMA BootStep ==
  ASSUME LifecycleIInv, phase \in {"off", "infra", "skills", "mcp", "agents"},
         UNCHANGED <<running, working, toStop, stranded, faults>>,
         passed' \subseteq {"config", "infra", "skills", "mcp", "agents"},
         named' \subseteq Server, connected' \subseteq named',
         \/ phase' = "gone" /\ open' = {}
         \/ phase' = "infra" /\ open' = {}
         \/ phase' \in {"skills", "mcp"} /\ open' = {"db", "redis"}
         \/ phase' \in {"agents", "start"} /\ open' = Resource
  PROVE  LifecycleIInv'
<1>1. running = {} /\ working = {} /\ toStop = <<>>
  BY NotYetUp
<1>2. LifecycleTypeOK'
  BY <1>1 DEF LifecycleIInv, LifecycleTypeOK, Resource
<1>3. Stocked'
  BY <1>1 DEF LifecycleIInv, Stocked
<1>4. Behind' /\ NothingStranded'
  BY <1>1 DEF LifecycleIInv, Behind, NothingStranded
<1> QED
  BY <1>2, <1>3, <1>4 DEF LifecycleIInv, FaultsOK

\* Steps that load no configuration keep what it named; the last two of them
\* only pass a check.
LEMMA Booted ==
  ASSUME LifecycleIInv, Booting, UNCHANGED faults
  PROVE  LifecycleIInv'
<1>1. named \subseteq Server /\ connected \subseteq named
      /\ passed \subseteq {"config", "infra", "skills", "mcp", "agents"}
  BY DEF LifecycleIInv, LifecycleTypeOK
<1>2. CASE LoadConfig
  <2>1. phase = "off" /\ UNCHANGED <<connected, running, working, toStop, stranded>>
        /\ open = {} /\ named = {} /\ connected = {}
    BY <1>2 DEF LoadConfig, services, LifecycleIInv, Stocked
  <2>2. PICK entries \in McpEntries :
          \/ /\ ServersFromEnv(entries)
             /\ Passes("config", "infra") /\ named' = Range(entries) /\ UNCHANGED open
          \/ Throws /\ UNCHANGED named
    BY <1>2 DEF LoadConfig
  <2>3. CASE Throws /\ UNCHANGED named
    BY <1>1, <2>1, <2>3, BootStep DEF Throws
  <2>4. CASE ServersFromEnv(entries) /\ Passes("config", "infra") /\ named' = Range(entries) /\ UNCHANGED open
    <3>1. named' \subseteq Server
      BY <2>4 DEF ServersFromEnv, Range
    <3>2. phase' = "infra" /\ open' = {} /\ connected' \subseteq named'
          /\ passed' \subseteq {"config", "infra", "skills", "mcp", "agents"}
      BY <1>1, <2>1, <2>4 DEF Passes
    <3> QED
      BY <2>1, <3>1, <3>2, BootStep
  <2> QED
    BY <2>2, <2>3, <2>4
<1>3. CASE CheckInfra
  <2>1. /\ phase = "infra" /\ UNCHANGED <<named, connected, running, working, toStop, stranded>>
        /\ \/ phase' = "gone" /\ open' = {} /\ UNCHANGED passed
           \/ phase' = "skills" /\ passed' = passed \cup {"infra"} /\ open' = {"db", "redis"}
    BY <1>3 DEF CheckInfra, services, Throws, Passes
  <2> QED
    BY <1>1, <2>1, BootStep
<1>4. CASE LoadSkills
  <2>1. /\ phase = "skills" /\ UNCHANGED <<named, connected, running, working, toStop, stranded>>
        /\ open = {"db", "redis"}
        /\ \/ phase' = "gone" /\ open' = {} /\ UNCHANGED passed
           \/ phase' = "mcp" /\ passed' = passed \cup {"skills"} /\ open' = open
    BY <1>4 DEF LoadSkills, services, Throws, Passes, LifecycleIInv, Stocked
  <2> QED
    BY <1>1, <2>1, BootStep
<1>5. CASE ConnectServers
  <2>1. phase = "mcp" /\ UNCHANGED <<named, running, working, toStop, stranded>>
        /\ open = {"db", "redis"}
    BY <1>5 DEF ConnectServers, services, LifecycleIInv, Stocked
  <2>2. PICK remote \in [named -> Remote] :
          \/ Throws /\ UNCHANGED connected
          \/ /\ connected' = {s \in named : remote[s] = "alive"}
             /\ Passes("mcp", "agents") /\ open' = open \cup {"mcp"}
    BY <1>5 DEF ConnectServers
  <2>3. connected' \subseteq named
    BY <1>1, <2>2
  <2>4. \/ phase' = "gone" /\ open' = {} /\ UNCHANGED passed
        \/ phase' = "agents" /\ open' = Resource /\ passed' = passed \cup {"mcp"}
    BY <2>1, <2>2 DEF Throws, Passes, Resource
  <2> QED
    BY <1>1, <2>1, <2>3, <2>4, BootStep
<1>6. CASE CheckScopes
  <2>1. /\ phase = "agents" /\ UNCHANGED <<named, connected, running, working, toStop, stranded>>
        /\ open = Resource
        /\ \/ phase' = "gone" /\ open' = {} /\ UNCHANGED passed
           \/ phase' = "start" /\ passed' = passed \cup {"agents"} /\ open' = open
    BY <1>6 DEF CheckScopes, services, Throws, Passes, LifecycleIInv, Stocked
  <2> QED
    BY <1>1, <2>1, BootStep
<1>7. CASE StartServices
  <2>1. /\ phase = "start" /\ phase' = "up" /\ running' = Service
        /\ UNCHANGED <<named, connected, passed, working, toStop, open, stranded>>
        /\ open = Resource /\ working = {} /\ toStop = <<>>
    BY <1>7, NotYetUp DEF StartServices, checks, LifecycleIInv, Stocked
  <2>2. LifecycleTypeOK'
    BY <2>1 DEF LifecycleIInv, LifecycleTypeOK
  <2>3. Stocked' /\ Behind' /\ NothingStranded'
    BY <2>1 DEF LifecycleIInv, Stocked, Behind, NothingStranded
  <2> QED
    BY <2>2, <2>3 DEF LifecycleIInv, FaultsOK
<1> QED
  BY <1>2, <1>3, <1>4, <1>5, <1>6, <1>7 DEF Booting

\* stop() stops every service before it closes anything.
LEMMA StoppedFirst ==
  ASSUME LifecycleIInv, phase = "stopping",
         toStop = <<>> \/ Head(toStop) \in Resource
  PROVE  running = {} /\ working \subseteq {"gateway"}
<1>1. Len(toStop) \in Nat /\ Len(toStop) <= 10 /\ (toStop # <<>> => Len(toStop) > 0)
  BY DEF LifecycleIInv, LifecycleTypeOK, Behind
<1>2. ASSUME toStop # <<>> PROVE toStop[1] \in Resource /\ toStop[1] = StopOrder[1 + (10 - Len(toStop))]
  BY <1>1, <1>2 DEF LifecycleIInv, Behind
<1>3. 10 - Len(toStop) >= 7
  BY <1>1, <1>2 DEF StopOrder, Resource
<1>4. \A s \in Service : \E i \in 1..7 : StopOrder[i] = s
  <2>1. /\ StopOrder[1] = "funnel" /\ StopOrder[2] = "digest" /\ StopOrder[3] = "announce"
        /\ StopOrder[4] = "workflow" /\ StopOrder[5] = "scheduler" /\ StopOrder[6] = "workers"
        /\ StopOrder[7] = "gateway"
    BY DEF StopOrder
  <2>2. 1 \in 1..7 /\ 2 \in 1..7 /\ 3 \in 1..7 /\ 4 \in 1..7 /\ 5 \in 1..7 /\ 6 \in 1..7 /\ 7 \in 1..7
    OBVIOUS
  <2> QED
    BY <2>1, <2>2 DEF Service, Poller
<1>5. \A i \in 1..7 : i \in 1..(10 - Len(toStop))
  BY <1>1, <1>3
<1>6. \A s \in Service : s \notin running /\ s \notin working \ {"gateway"}
  BY <1>4, <1>5 DEF LifecycleIInv, Behind
<1> QED
  BY <1>6 DEF LifecycleIInv, LifecycleTypeOK

\* One more of them has stopped, or is closed.
LEMMA TailBehind ==
  ASSUME LifecycleIInv, toStop # <<>>, toStop' = Tail(toStop), UNCHANGED <<running, working, phase>>,
         Head(toStop) \notin running, Head(toStop) \notin working \ {"gateway"}
  PROVE  Behind'
<1>1. /\ toStop \in Seq(Service \cup Resource) /\ Len(toStop) \in Nat /\ Len(toStop) > 0
      /\ Len(toStop) <= 10 /\ Len(toStop') = Len(toStop) - 1
      /\ \A i \in 1..Len(toStop') : toStop'[i] = toStop[i + 1]
  BY DEF LifecycleIInv, LifecycleTypeOK, Behind
<1>2. Head(toStop) = StopOrder[1 + (10 - Len(toStop))]
  BY <1>1 DEF LifecycleIInv, Behind
<1>3. ASSUME NEW i \in 1..Len(toStop') PROVE toStop'[i] = StopOrder[i + (10 - Len(toStop'))]
  <2>1. i + 1 \in 1..Len(toStop) /\ (i + 1) + (10 - Len(toStop)) = i + (10 - Len(toStop'))
    BY <1>1
  <2> QED
    BY <1>1, <2>1 DEF LifecycleIInv, Behind
<1>4. ASSUME phase = "stopping", NEW i \in 1..(10 - Len(toStop'))
      PROVE  StopOrder[i] \notin running /\ StopOrder[i] \notin working \ {"gateway"}
  <2>1. i \in 1..(10 - Len(toStop)) \/ i = 1 + (10 - Len(toStop))
    BY <1>1
  <2> QED
    BY <1>2, <1>4, <2>1 DEF LifecycleIInv, Behind
<1>5. Len(toStop') <= 10
  BY <1>1
<1> QED
  BY <1>3, <1>4, <1>5 DEF Behind

LEMMA WorkStep ==
  ASSUME LifecycleIInv, UNCHANGED faults, NEW s \in Service, Work(s) \/ Done(s)
  PROVE  LifecycleIInv'
<1>1. CASE Work(s)
  <2>1. /\ s \in running /\ working' = working \cup {s}
        /\ UNCHANGED <<phase, named, connected, passed, running, toStop, open, stranded>>
    BY <1>1 DEF Work, checks
  <2>2. open = Resource /\ phase \in {"up", "stopping"}
    BY <2>1 DEF LifecycleIInv, LifecycleTypeOK, Stocked
  <2>3. LifecycleTypeOK'
    BY <2>1 DEF LifecycleIInv, LifecycleTypeOK
  <2>4. Stocked' /\ NothingStranded'
    BY <2>1, <2>2 DEF LifecycleIInv, Stocked, NothingStranded, Resource
  <2>5. Behind'
    BY <2>1 DEF LifecycleIInv, Behind
  <2> QED
    BY <2>3, <2>4, <2>5 DEF LifecycleIInv, FaultsOK
<1>2. CASE Done(s)
  <2>1. /\ s \in working /\ working' = working \ {s}
        /\ stranded' = IF Needs(s) \subseteq open THEN stranded ELSE stranded \cup {s}
        /\ UNCHANGED <<phase, named, connected, passed, running, toStop, open>>
    BY <1>2 DEF Done, checks
  <2>2. s # "gateway" => stranded' = stranded
    BY <2>1 DEF LifecycleIInv, NothingStranded, Needs
  <2>3. LifecycleTypeOK'
    BY <2>1 DEF LifecycleIInv, LifecycleTypeOK
  <2>4. Stocked' /\ NothingStranded'
    BY <2>1, <2>2 DEF LifecycleIInv, Stocked, NothingStranded
  <2>5. Behind'
    BY <2>1 DEF LifecycleIInv, Behind
  <2> QED
    BY <2>3, <2>4, <2>5 DEF LifecycleIInv, FaultsOK
<1> QED
  BY <1>1, <1>2

LEMMA StopStep ==
  ASSUME LifecycleIInv, Stopping, UNCHANGED faults
  PROVE  LifecycleIInv'
<1>1. CASE Signal
  <2>1. /\ phase = "up" /\ phase' = "stopping" /\ toStop' = StopOrder
        /\ UNCHANGED <<named, connected, passed, running, working, open, stranded>>
    BY <1>1 DEF Signal, checks, services
  <2>2. StopOrder \in Seq(Service \cup Resource) /\ Len(StopOrder) = 10
    BY DEF StopOrder, Service, Poller, Resource
  <2>3. LifecycleTypeOK'
    BY <2>1, <2>2 DEF LifecycleIInv, LifecycleTypeOK
  <2>4. Stocked' /\ NothingStranded'
    BY <2>1 DEF LifecycleIInv, Stocked, NothingStranded
  <2>5. Behind'
    BY <2>1, <2>2 DEF Behind
  <2> QED
    BY <2>3, <2>4, <2>5 DEF LifecycleIInv, FaultsOK
<1>2. CASE Halt
  <2>1. /\ phase = "stopping" /\ running' = running \ {Head(toStop)}
        /\ UNCHANGED <<phase, named, connected, passed, working, toStop, open, stranded>>
    BY <1>2 DEF Halt, checks
  <2>2. LifecycleTypeOK'
    BY <2>1 DEF LifecycleIInv, LifecycleTypeOK
  <2>3. Stocked' /\ NothingStranded'
    BY <2>1 DEF LifecycleIInv, Stocked, NothingStranded
  <2>4. Behind'
    BY <2>1 DEF LifecycleIInv, Behind
  <2> QED
    BY <2>2, <2>3, <2>4 DEF LifecycleIInv, FaultsOK
<1>3. CASE Halted
  <2>1. /\ phase = "stopping" /\ toStop # <<>> /\ Head(toStop) \notin running
        /\ Head(toStop) \notin working \ {"gateway"} /\ toStop' = Tail(toStop)
        /\ UNCHANGED <<phase, named, connected, passed, running, working, open, stranded>>
    BY <1>3 DEF Halted, checks, services
  <2>2. LifecycleTypeOK'
    BY <2>1 DEF LifecycleIInv, LifecycleTypeOK
  <2>3. Stocked' /\ NothingStranded'
    BY <2>1 DEF LifecycleIInv, Stocked, NothingStranded
  <2>4. Behind'
    BY <2>1, TailBehind
  <2> QED
    BY <2>2, <2>3, <2>4 DEF LifecycleIInv, FaultsOK
<1> QED
  BY <1>1, <1>2, <1>3 DEF Stopping

LEMMA CloseStep ==
  ASSUME LifecycleIInv, Close
  PROVE  LifecycleIInv'
<1>1. /\ phase = "stopping" /\ toStop # <<>> /\ Head(toStop) \in Resource
      /\ UNCHANGED <<phase, named, connected, passed, running, working, stranded>>
  BY DEF Close, checks, services
<1>2. running = {} /\ working \subseteq {"gateway"}
  BY <1>1, StoppedFirst
<1>3. /\ toStop' = Tail(toStop) \/ toStop' = <<>>
      /\ open' = open \/ open' = open \ {Head(toStop)}
      /\ FaultsOK'
  <2>1. faults' = faults \/ (faults < MaxFaults /\ faults' = faults + 1)
    BY DEF Close, Fault
  <2>2. FaultsOK'
    BY <2>1, PlatformAssumption DEF LifecycleIInv, FaultsOK
  <2> QED
    BY <2>2 DEF Close
<1>4. LifecycleTypeOK'
  <2>1. toStop' \in Seq(Service \cup Resource)
    <3>1. toStop \in Seq(Service \cup Resource)
      BY DEF LifecycleIInv, LifecycleTypeOK
    <3>2. Tail(toStop) \in Seq(Service \cup Resource)
      BY <1>1, <3>1
    <3>3. CASE toStop' = Tail(toStop)
      BY <3>2, <3>3
    <3>4. CASE toStop' = <<>>
      BY <3>4
    <3> QED
      BY <1>3, <3>3, <3>4
  <2>2. open' \subseteq Resource
    BY <1>3 DEF LifecycleIInv, LifecycleTypeOK
  <2> QED
    BY <1>1, <1>2, <2>1, <2>2 DEF LifecycleIInv, LifecycleTypeOK
<1>5. Stocked' /\ NothingStranded'
  BY <1>1, <1>2, <1>3 DEF LifecycleIInv, Stocked, NothingStranded
<1>6. Behind'
  <2>1. Head(toStop) \notin running /\ Head(toStop) \notin working \ {"gateway"}
    BY <1>2
  <2>2. CASE toStop' = Tail(toStop)
    BY <1>1, <2>1, <2>2, TailBehind
  <2>3. CASE toStop' = <<>>
    <3>1. Len(toStop') = 0
      BY <2>3
    <3> QED
      <4>1. running' = {} /\ working' \subseteq {"gateway"}
        BY <1>1, <1>2
      <4>2. \A i \in 1..Len(toStop') : FALSE
        BY <3>1
      <4>3. Len(toStop') <= 10
        BY <3>1
      <4> QED
        BY <4>1, <4>2, <4>3 DEF Behind
  <2> QED
    BY <1>3, <2>2, <2>3
<1> QED
  BY <1>3, <1>4, <1>5, <1>6 DEF LifecycleIInv

LEMMA ExitStep ==
  ASSUME LifecycleIInv, Exit
  PROVE  LifecycleIInv'
<1>1. /\ phase' = "gone" /\ running' = {} /\ working' = {} /\ toStop' = <<>> /\ open' = {}
      /\ UNCHANGED <<named, connected, passed, stranded>>
  BY DEF Exit, checks
<1>2. FaultsOK'
  <2>1. faults' = faults \/ (faults < MaxFaults /\ faults' = faults + 1)
    BY DEF Exit, Fault
  <2> QED
    BY <2>1, PlatformAssumption DEF LifecycleIInv, FaultsOK
<1>3. LifecycleTypeOK'
  BY <1>1 DEF LifecycleIInv, LifecycleTypeOK
<1>4. Stocked' /\ NothingStranded'
  BY <1>1 DEF LifecycleIInv, Stocked, NothingStranded
<1>5. Behind'
  <2>1. Len(toStop') = 0
    BY <1>1
  <2> QED
    BY <1>1, <2>1 DEF Behind
<1> QED
  BY <1>2, <1>3, <1>4, <1>5 DEF LifecycleIInv

LEMMA LifecycleStep ==
  ASSUME LifecycleIInv, [LifecycleNext]_<<lifecycleVars, faults>>
  PROVE  LifecycleIInv'
<1>1. CASE Booting /\ UNCHANGED faults
  BY <1>1, Booted
<1>2. CASE (\E s \in Service : Work(s) \/ Done(s)) /\ UNCHANGED faults
  BY <1>2, WorkStep
<1>3. CASE Stopping /\ UNCHANGED faults
  BY <1>3, StopStep
<1>4. CASE Close
  BY <1>4, CloseStep
<1>5. CASE Exit
  BY <1>5, ExitStep
<1>6. CASE UNCHANGED <<lifecycleVars, faults>>
  <2>1. UNCHANGED <<phase, named, connected, passed, running, working, toStop, open, stranded, faults>>
    BY <1>6 DEF lifecycleVars, checks, services
  <2> QED
    BY <2>1 DEF LifecycleIInv, FaultsOK, LifecycleTypeOK, Stocked, Behind, NothingStranded
<1> QED
  BY <1>1, <1>2, <1>3, <1>4, <1>5, <1>6 DEF LifecycleNext

(* LifecycleInductive: what is open in each phase, and what stop() has left   *)
(* behind it (bootstrap/index.ts).                                         *)
THEOREM LifecycleInductive == LifecycleSpec => []LifecycleIInv
<1>1. LifecycleInit /\ NoFault => LifecycleIInv
  BY LifecycleInitial
<1>2. LifecycleIInv /\ [LifecycleNext]_<<lifecycleVars, faults>> => LifecycleIInv'
  BY LifecycleStep
<1> QED
  BY <1>1, <1>2, PTL DEF LifecycleSpec

(* LifecycleTyped: no service runs before the process is up, and only a      *)
(* server that the configuration names is connected.                       *)
THEOREM LifecycleTyped == LifecycleSpec => []LifecycleTypeOK
<1>1. LifecycleIInv => LifecycleTypeOK
  BY DEF LifecycleIInv
<1> QED
  BY <1>1, LifecycleInductive, PTL

(* NobodyIsStranded: whatever a service but the gateway has begun it ends    *)
(* while what it needs is open, with any number of servers and failures     *)
(* (bootstrap/index.ts:546-557).                                           *)
THEOREM NobodyIsStranded == LifecycleSpec => []NothingStranded
<1>1. LifecycleIInv => NothingStranded
  BY DEF LifecycleIInv
<1> QED
  BY <1>1, LifecycleInductive, PTL

-----------------------------------------------------------------------------
(* Routing                                                                 *)

\* What the envelope says was found under the configuration the message was taken
\* in, whichever process has carried it since.
Carried ==
  /\ place = "sent" => envelope = [gate |-> FALSE, source |-> "channel"]
  /\ place = "waiting" => PassesGate(taken) /\ ~envelope.gate
  /\ place \in {"waiting", "queued", "running"} => mail.channel \in taken.channels
  /\ envelope.gate => Gated(taken) /\ envelope.source = "channel"
  /\ envelope.source = "proactive" => PassesGate(taken)

RoutingIInv == FaultsOK /\ RoutingTypeOK /\ Carried /\ ServedByItsRoom

\* The profiles, and the channels each answers.
Agent == {"dealer", "operations", "boss", "personal", "warehouse", "customer", "sale-facebook",
          "xac-nhan-don", "kiem-kho"}

LEMMA ChannelAgents ==
  ASSUME NEW c \in Channel
  PROVE  /\ ChannelAgent(c) \in Agent \ {"xac-nhan-don", "kiem-kho"}
         /\ ChannelAgent(c) = "operations" => c = "van-hanh"
         /\ c \in Public => ChannelAgent(c) \in {"customer", "sale-facebook"}
BY DEF Channel, ZaloChannel, ChannelAgent, Agent, Public

LEMMA RoomAgents ==
  ASSUME NEW c \in {"zalo", "zalo-kho"}
  PROVE  RoomAgent(c) \in {"xac-nhan-don", "kiem-kho"}
BY DEF RoomAgent

\* What a message is served by: the agent of its room, or that of its channel.
LEMMA Served ==
  ASSUME RoutingTypeOK, NEW e \in Env
  PROVE  LET agent == AgentOf(e, mail.channel, mail.chat)
             dedicated == Dedicated(e, mail.channel, mail.chat)
         IN  /\ agent \in Agent
             /\ dedicated => mail.chat = "named" /\ agent = RoomAgent(mail.channel)
                        /\ agent \in {"xac-nhan-don", "kiem-kho"}
                        /\ ChannelAgent(mail.channel) \notin {"xac-nhan-don", "kiem-kho"}
             /\ agent \in {"xac-nhan-don", "kiem-kho"} => dedicated
             /\ agent = "operations" => mail.channel = "van-hanh"
             /\ mail.channel \in Public => agent \in {"customer", "sale-facebook"}
<1> DEFINE agent == AgentOf(e, mail.channel, mail.chat)
           dedicated == Dedicated(e, mail.channel, mail.chat)
<1>1. mail.channel \in Channel /\ (mail.chat = "named" => mail.channel \in {"zalo", "zalo-kho"})
  BY DEF RoutingTypeOK, Mail
<1>2. dedicated => mail.chat = "named"
  BY DEF Dedicated
<1>3. CASE dedicated
  <2>1. agent = RoomAgent(mail.channel) /\ mail.channel \in {"zalo", "zalo-kho"} /\ mail.chat = "named"
    BY <1>1, <1>2, <1>3 DEF AgentOf
  <2>2. agent \in {"xac-nhan-don", "kiem-kho"} /\ ChannelAgent(mail.channel) \notin {"xac-nhan-don", "kiem-kho"}
    BY <1>1, <2>1, RoomAgents, ChannelAgents
  <2>3. mail.channel \notin Public /\ agent \in Agent
    BY <2>1, <2>2 DEF Public, Agent
  <2> QED
    BY <1>3, <2>1, <2>2, <2>3
<1>4. CASE ~dedicated
  <2>1. agent = ChannelAgent(mail.channel)
    BY <1>4 DEF AgentOf
  <2> QED
    BY <1>1, <1>4, <2>1, ChannelAgents
<1> QED
  BY <1>3, <1>4

\* The tools of the rooms, of the company's books and of the dealers' are not
\* given to another profile.
LEMMA ToolsApart ==
  ASSUME NEW e, NEW agent \in Agent
  PROVE  /\ ToolsOf(e, agent) \cap (XacNhanTools \cup InventoryCountTools) # {}
              => agent \in {"xac-nhan-don", "kiem-kho"}
         /\ ToolsOf(e, agent) \cap (InternalDailyTools \cup InternalValidateTools) # {}
              => agent = "operations"
         /\ agent \in {"customer", "sale-facebook"}
              => ToolsOf(e, agent) \subseteq CommonTools \cup CustomerLeadTools \cup VisionTools \cup DocTools
         /\ agent \in {"xac-nhan-don", "kiem-kho"}
              => ToolsOf(e, agent) \cap DealerAgentTools = {}
<1>1. ToolsOf(e, agent) \subseteq CommonTools \cup OwnTools(agent) \cup RemoteTools(e, agent)
  BY DEF ToolsOf
<1>2. RemoteTools(e, agent) \subseteq {"mcp__kho"} /\ (agent # "dealer" => RemoteTools(e, agent) = {})
  BY DEF RemoteTools
<1>3. CASE agent = "dealer"
  <2>1. OwnTools(agent) = DealerAgentTools
    BY <1>3 DEF OwnTools
  <2>2. (CommonTools \cup DealerAgentTools \cup {"mcp__kho"})
          \cap (XacNhanTools \cup InventoryCountTools \cup InternalDailyTools \cup InternalValidateTools) = {}
    BY DEF CommonTools, DealerAgentTools, XacNhanTools, InventoryCountTools, InternalDailyTools,
           InternalValidateTools, OrderTools, PaymentBatchTools, DealerValidateTools, DealerTools,
           DealerTierTools, DailyTools, PoscakeTools, VisionTools, DocTools, WorkflowReplyTools,
           WorkflowListTools
  <2> QED
    BY <1>1, <1>2, <1>3, <2>1, <2>2
<1>4. CASE agent = "warehouse"
  <2>1. OwnTools(agent) = WarehouseAgentTools
    BY <1>4 DEF OwnTools
  <2>2. (CommonTools \cup WarehouseAgentTools)
          \cap (XacNhanTools \cup InventoryCountTools \cup InternalDailyTools \cup InternalValidateTools) = {}
    BY DEF CommonTools, WarehouseAgentTools, XacNhanTools, InventoryCountTools, InternalDailyTools,
           InternalValidateTools, VisionTools, DocTools, WorkflowAskTools, WorkflowListTools,
           WarehouseAnnounceTools
  <2> QED
    BY <1>1, <1>2, <1>4, <2>1, <2>2
<1>5. CASE agent = "operations"
  <2>1. OwnTools(agent) = OperationsAgentTools
    BY <1>5 DEF OwnTools
  <2>2. (CommonTools \cup OperationsAgentTools) \cap (XacNhanTools \cup InventoryCountTools) = {}
    BY DEF CommonTools, OperationsAgentTools, XacNhanTools, InventoryCountTools, InternalDailyTools,
           InternalValidateTools, OpsAnnounceTools
  <2> QED
    BY <1>1, <1>2, <1>5, <2>1, <2>2
<1>6. CASE agent \in {"customer", "sale-facebook"}
  <2>1. OwnTools(agent) \subseteq CustomerLeadTools \cup VisionTools \cup DocTools
    BY <1>6 DEF OwnTools, CustomerAgentTools, SaleFacebookAgentTools
  <2>2. (CommonTools \cup CustomerLeadTools \cup VisionTools \cup DocTools)
          \cap (XacNhanTools \cup InventoryCountTools \cup InternalDailyTools \cup InternalValidateTools) = {}
    BY DEF CommonTools, CustomerLeadTools, XacNhanTools, InventoryCountTools, InternalDailyTools,
           InternalValidateTools, VisionTools, DocTools
  <2> QED
    BY <1>1, <1>2, <1>6, <2>1, <2>2
<1>7. CASE agent \in {"xac-nhan-don", "kiem-kho"}
  <2>1. OwnTools(agent) \subseteq XacNhanTools \cup InventoryCountTools
    BY <1>7 DEF OwnTools
  <2>2. (CommonTools \cup XacNhanTools \cup InventoryCountTools)
          \cap (DealerAgentTools \cup InternalDailyTools \cup InternalValidateTools) = {}
    BY DEF CommonTools, DealerAgentTools, XacNhanTools, InventoryCountTools, InternalDailyTools,
           InternalValidateTools, OrderTools, PaymentBatchTools, DealerValidateTools, DealerTools,
           DealerTierTools, DailyTools, PoscakeTools, VisionTools, DocTools, WorkflowReplyTools,
           WorkflowListTools
  <2> QED
    BY <1>1, <1>2, <1>7, <2>1, <2>2
<1>8. CASE agent \in {"boss", "personal"}
  <2>1. OwnTools(agent) = {}
    BY <1>8 DEF OwnTools
  <2>2. CommonTools
          \cap (XacNhanTools \cup InventoryCountTools \cup InternalDailyTools \cup InternalValidateTools) = {}
    BY DEF CommonTools, XacNhanTools, InventoryCountTools, InternalDailyTools, InternalValidateTools
  <2> QED
    BY <1>1, <1>2, <1>8, <2>1, <2>2
<1> QED
  BY <1>3, <1>4, <1>5, <1>6, <1>7, <1>8 DEF Agent

LEMMA RoutingInitial ==
  ASSUME RoutingInit, NoFault
  PROVE  RoutingIInv
<1>1. FaultsOK
  BY PlatformAssumption DEF NoFault, FaultsOK
<1>2. /\ env \in [Host -> Env] /\ mail \in Mail /\ place = "sent"
      /\ envelope = [gate |-> FALSE, source |-> "channel"] /\ runner = "none"
      /\ taken \in Env /\ by = taken /\ outcome = Nothing
  BY DEF RoutingInit, RoutingStart
<1>3. RoutingTypeOK
  BY <1>2 DEF RoutingTypeOK, Envelope, Nothing, Word
<1>4. Carried /\ ServedByItsRoom
  BY <1>2 DEF Carried, ServedByItsRoom, Nothing
<1> QED
  BY <1>1, <1>3, <1>4 DEF RoutingIInv

\* A message that ends without an answer.
LEMMA EndsStep ==
  ASSUME RoutingIInv, UNCHANGED <<mail, envelope, faults>>,
         env' \in [Host -> Env], by' \in Env, taken' \in Env, runner' \in Host \cup {"none"},
         taken' = taken \/ (~envelope.gate /\ envelope.source = "channel"),
         NEW word \in Word \ {"nothing", "reply"}, Ends(word)
  PROVE  RoutingIInv'
<1>1. place' = "over" /\ outcome' = [word |-> word, agent |-> "none", tools |-> {}, sent |-> FALSE]
  BY DEF Ends, Over, Nothing
<1>2. RoutingTypeOK'
  BY <1>1 DEF RoutingIInv, RoutingTypeOK
<1>3. Carried'
  BY <1>1 DEF RoutingIInv, Carried, Gated, PassesGate, Addressed, IsGroup
<1>4. ServedByItsRoom'
  BY <1>1 DEF ServedByItsRoom
<1> QED
  BY <1>2, <1>3, <1>4 DEF RoutingIInv, FaultsOK

LEMMA TakeInStep ==
  ASSUME RoutingIInv, NEW h \in Host, TakeIn(h)
  PROVE  RoutingIInv'
<1>1. /\ place = "sent" /\ taken' = env[h] /\ env[h] \in Env /\ by \in Env
      /\ UNCHANGED <<env, mail, runner, by, faults>>
      /\ envelope = [gate |-> FALSE, source |-> "channel"] /\ outcome.word = "nothing"
      /\ runner \in Host \cup {"none"} /\ env \in [Host -> Env]
  BY DEF TakeIn, RoutingIInv, RoutingTypeOK, Carried
<1>2. CASE UNCHANGED envelope /\ \E word \in {"unknown", "dropped", "history"} : Ends(word)
  <2>1. PICK word \in {"unknown", "dropped", "history"} : Ends(word)
    BY <1>2
  <2>2. word \in Word \ {"nothing", "reply"}
    BY DEF Word
  <2>3. ~envelope.gate /\ envelope.source = "channel"
    BY <1>1
  <2> QED
    BY <1>1, <1>2, <2>1, <2>2, <2>3, EndsStep
<1>3. CASE /\ mail.channel \in Registered(env[h]) /\ (Addressed \/ Gated(env[h])) /\ place' = "queued"
           /\ envelope' = [gate |-> Gated(env[h]), source |-> "channel"] /\ UNCHANGED outcome
  <2>1. Gated(env[h]) \in BOOLEAN
    BY DEF Gated
  <2>2. RoutingTypeOK'
    BY <1>1, <1>3, <2>1 DEF RoutingIInv, RoutingTypeOK, Envelope
  <2>3. Carried'
    BY <1>1, <1>3 DEF Carried, Gated, Registered, Addressed, IsGroup
  <2>4. ServedByItsRoom'
    BY <1>1, <1>3 DEF ServedByItsRoom
  <2> QED
    BY <1>1, <2>2, <2>3, <2>4 DEF RoutingIInv, FaultsOK
<1>4. CASE /\ mail.channel \in Registered(env[h]) /\ PassesGate(env[h]) /\ place' = "waiting"
           /\ UNCHANGED <<envelope, outcome>>
  <2>1. RoutingTypeOK'
    BY <1>1, <1>4 DEF RoutingIInv, RoutingTypeOK
  <2>2. Carried'
    BY <1>1, <1>4 DEF Carried, PassesGate, Registered, IsGroup
  <2>3. ServedByItsRoom'
    BY <1>1, <1>4 DEF ServedByItsRoom
  <2> QED
    BY <1>1, <2>1, <2>2, <2>3 DEF RoutingIInv, FaultsOK
<1> QED
  BY <1>2, <1>3, <1>4 DEF TakeIn

LEMMA PickedStep ==
  ASSUME RoutingIInv, NEW h \in Host, Picked(h)
  PROVE  RoutingIInv'
<1>1. /\ place = "waiting" /\ UNCHANGED <<env, mail, runner, taken, by, faults>>
      /\ PassesGate(taken) /\ ~envelope.gate /\ mail.channel \in taken.channels
      /\ taken \in Env /\ by \in Env /\ runner \in Host \cup {"none"} /\ env \in [Host -> Env]
      /\ outcome.word = "nothing"
  BY DEF Picked, RoutingIInv, RoutingTypeOK, Carried
<1>2. CASE Ends("ignored") /\ UNCHANGED envelope
  <2>1. "ignored" \in Word \ {"nothing", "reply"}
    BY DEF Word
  <2>2. /\ env' \in [Host -> Env] /\ by' \in Env /\ taken' \in Env /\ runner' \in Host \cup {"none"}
        /\ UNCHANGED <<mail, envelope, faults>>
    BY <1>1, <1>2
  <2>3. taken' = taken \/ (~envelope.gate /\ envelope.source = "channel")
    BY <1>1
  <2> QED
    BY <1>2, <2>1, <2>2, <2>3, EndsStep
<1>3. CASE place' = "queued" /\ envelope' = [gate |-> FALSE, source |-> "proactive"] /\ UNCHANGED outcome
  <2>1. RoutingTypeOK'
    BY <1>1, <1>3 DEF RoutingIInv, RoutingTypeOK, Envelope
  <2>2. Carried'
    BY <1>1, <1>3 DEF Carried, PassesGate, IsGroup
  <2>3. ServedByItsRoom'
    BY <1>1, <1>3 DEF ServedByItsRoom
  <2> QED
    BY <1>1, <2>1, <2>2, <2>3 DEF RoutingIInv, FaultsOK
<1> QED
  BY <1>2, <1>3 DEF Picked

\* The turn that answers: what ServedByItsRoom says, part by part.
LEMMA ReplyStep ==
  ASSUME RoutingIInv, NEW e \in Env, place = "running", by' = e, LetIn(e),
         UNCHANGED <<env, mail, envelope, runner, taken, faults>>,
         NEW agent, agent = AgentOf(e, mail.channel, mail.chat),
         Over([word |-> "reply", agent |-> agent, tools |-> ToolsOf(e, agent), sent |-> Sends(e)])
  PROVE  RoutingIInv'
<1> DEFINE dedicated == Dedicated(e, mail.channel, mail.chat)
<1>1. /\ place' = "over"
      /\ outcome' = [word |-> "reply", agent |-> agent, tools |-> ToolsOf(e, agent), sent |-> Sends(e)]
  BY DEF Over
<1>2. /\ agent \in Agent
      /\ dedicated => mail.chat = "named" /\ agent = RoomAgent(mail.channel)
                 /\ agent \in {"xac-nhan-don", "kiem-kho"}
                 /\ ChannelAgent(mail.channel) \notin {"xac-nhan-don", "kiem-kho"}
      /\ agent \in {"xac-nhan-don", "kiem-kho"} => dedicated
      /\ agent = "operations" => mail.channel = "van-hanh"
      /\ mail.channel \in Public => agent \in {"customer", "sale-facebook"}
  BY Served DEF RoutingIInv
<1>3. RoutingTypeOK'
  <2>1. agent # "none"
    BY <1>2 DEF Agent
  <2> QED
    BY <1>1, <2>1 DEF RoutingIInv, RoutingTypeOK, Word
<1>4. Carried'
  BY <1>1 DEF RoutingIInv, Carried, Gated, PassesGate, Addressed, IsGroup
<1>5. envelope.gate => /\ dedicated /\ agent = RoomAgent(mail.channel) /\ ~mail.own /\ mail.text # "none"
                       /\ (mail.text # "template" => "jev" \in e.keys)
  BY <1>2 DEF RoutingIInv, Carried, LetIn, CheckIntake, Gated
<1>6. /\ outcome'.tools \cap (XacNhanTools \cup InventoryCountTools) # {} => mail.chat = "named"
      /\ outcome'.tools \cap (InternalDailyTools \cup InternalValidateTools) # {}
           => mail.channel = "van-hanh"
      /\ mail.channel \in Public
           => outcome'.tools \subseteq CommonTools \cup CustomerLeadTools \cup VisionTools \cup DocTools
      /\ dedicated => outcome'.tools \cap DealerAgentTools = {}
  <2>1. outcome'.tools = ToolsOf(e, agent)
    BY <1>1
  <2> QED
    BY <1>2, <2>1, ToolsApart
<1>7. taken = e /\ envelope.source = "proactive" => agent = "dealer"
  BY DEF RoutingIInv, Carried, PassesGate, HasFunnel
<1>8. taken = e /\ mail.channel \in e.egress => Sends(e)
  BY DEF RoutingIInv, Carried, Sends
<1>9. ServedByItsRoom'
  <2>1. /\ mail' = mail /\ envelope' = envelope /\ taken' = taken /\ by' = e
        /\ outcome'.agent = agent /\ outcome'.sent = Sends(e)
    BY <1>1
  <2> HIDE DEF dedicated
  <2> SUFFICES
        /\ envelope.gate => /\ Dedicated(e, mail.channel, mail.chat) /\ agent = RoomAgent(mail.channel)
                            /\ ~mail.own /\ mail.text # "none"
        /\ outcome'.tools \cap (XacNhanTools \cup InventoryCountTools) # {} => mail.chat = "named"
        /\ outcome'.tools \cap (InternalDailyTools \cup InternalValidateTools) # {}
             => mail.channel = "van-hanh"
        /\ mail.channel \in Public
             => outcome'.tools \subseteq CommonTools \cup CustomerLeadTools \cup VisionTools \cup DocTools
        /\ Dedicated(e, mail.channel, mail.chat)
             => /\ agent # ChannelAgent(mail.channel)
                /\ outcome'.tools \cap DealerAgentTools = {}
        /\ taken = e /\ envelope.source = "proactive" => agent = "dealer"
        /\ envelope.gate /\ mail.text # "template" => "jev" \in e.keys
        /\ taken = e /\ mail.channel \in e.egress => Sends(e)
    BY <2>1 DEF ServedByItsRoom
  <2> QED
    BY <1>2, <1>5, <1>6, <1>7, <1>8 DEF dedicated
<1> QED
  BY <1>3, <1>4, <1>9 DEF RoutingIInv, FaultsOK

LEMMA AnswerStep ==
  ASSUME RoutingIInv, NEW h \in Host, Answer(h)
  PROVE  RoutingIInv'
<1>1. /\ place = "running" /\ by' = env[h] /\ env[h] \in Env /\ taken \in Env
      /\ UNCHANGED <<env, mail, envelope, runner, taken, faults>>
      /\ runner \in Host \cup {"none"} /\ env \in [Host -> Env]
  BY DEF Answer, RoutingIInv, RoutingTypeOK
<1>2. CASE \E word \in {"command", "ignored", "failed"} : Ends(word)
  <2>1. PICK word \in {"command", "ignored", "failed"} : Ends(word)
    BY <1>2
  <2>2. word \in Word \ {"nothing", "reply"}
    BY DEF Word
  <2>3. /\ env' \in [Host -> Env] /\ by' \in Env /\ taken' \in Env /\ runner' \in Host \cup {"none"}
        /\ UNCHANGED <<mail, envelope, faults>>
    BY <1>1
  <2>4. taken' = taken \/ (~envelope.gate /\ envelope.source = "channel")
    BY <1>1
  <2> QED
    BY <2>1, <2>2, <2>3, <2>4, EndsStep
<1>3. CASE /\ LetIn(env[h])
           /\ Over([word |-> "reply", agent |-> AgentOf(env[h], mail.channel, mail.chat),
                    tools |-> ToolsOf(env[h], AgentOf(env[h], mail.channel, mail.chat)),
                    sent |-> Sends(env[h])])
  BY <1>1, <1>3, ReplyStep
<1> QED
  BY <1>2, <1>3 DEF Answer

LEMMA RoutingStep ==
  ASSUME RoutingIInv, [RoutingNext]_<<routingVars, faults>>
  PROVE  RoutingIInv'
<1>1. ASSUME NEW h \in Host, TakeIn(h) \/ Picked(h) \/ Answer(h) PROVE RoutingIInv'
  BY <1>1, TakeInStep, PickedStep, AnswerStep
<1>2. ASSUME NEW h \in Host, Start(h) PROVE RoutingIInv'
  <2>1. /\ place = "queued" /\ place' = "running" /\ runner' = h
        /\ UNCHANGED <<env, mail, envelope, taken, by, outcome, faults>>
    BY <1>2 DEF Start
  <2>2. outcome.word = "nothing" /\ h # "none"
    BY <2>1, RoutingAssumption DEF RoutingIInv, RoutingTypeOK
  <2>3. RoutingTypeOK'
    BY <2>1, <2>2 DEF RoutingIInv, RoutingTypeOK
  <2>4. Carried'
    BY <2>1 DEF RoutingIInv, Carried, Gated, PassesGate, Addressed, IsGroup
  <2>5. ServedByItsRoom'
    BY <2>1, <2>2 DEF ServedByItsRoom
  <2> QED
    BY <2>1, <2>3, <2>4, <2>5 DEF RoutingIInv, FaultsOK
<1>3. ASSUME NEW h \in Host, Redeploy(h) PROVE RoutingIInv'
  <2>1. /\ faults < MaxFaults /\ faults' = faults + 1 /\ place # "over" /\ env' \in [Host -> Env]
        /\ UNCHANGED <<mail, envelope, taken, by, outcome>>
        /\ \/ place = "running" /\ place' = "queued" /\ runner' = "none"
           \/ UNCHANGED <<place, runner>>
    BY <1>3 DEF Redeploy, Fault, RoutingIInv, RoutingTypeOK
  <2>2. FaultsOK'
    BY <2>1, PlatformAssumption DEF RoutingIInv, FaultsOK
  <2>3. RoutingTypeOK' /\ Carried'
    BY <2>1 DEF RoutingIInv, RoutingTypeOK, Carried, Gated, PassesGate, Addressed, IsGroup
  <2>4. ServedByItsRoom'
    BY <2>1 DEF RoutingIInv, RoutingTypeOK, ServedByItsRoom
  <2> QED
    BY <2>2, <2>3, <2>4 DEF RoutingIInv
<1>4. CASE UNCHANGED <<routingVars, faults>>
  <2>1. UNCHANGED <<env, mail, place, envelope, runner, taken, by, outcome, faults>>
    BY <1>4 DEF routingVars, journey
  <2> QED
    BY <2>1 DEF RoutingIInv, FaultsOK, RoutingTypeOK, Carried, Gated, PassesGate, Addressed, IsGroup,
                ServedByItsRoom
<1> QED
  BY <1>1, <1>2, <1>3, <1>4 DEF RoutingNext

(* RoutingInductive: what the envelope of a message says was found under the *)
(* configuration it was taken in, whoever has carried it since (gateway.ts,  *)
(* adapters/zalo.ts, worker/handler.ts).                                   *)
THEOREM RoutingInductive == RoutingSpec => []RoutingIInv
<1>1. RoutingInit /\ NoFault => RoutingIInv
  BY RoutingInitial
<1>2. RoutingIInv /\ [RoutingNext]_<<routingVars, faults>> => RoutingIInv'
  BY RoutingStep
<1> QED
  BY <1>1, <1>2, PTL DEF RoutingSpec

(* RoutingTyped: a message is over when something has become of it, and only *)
(* a reply has an agent.                                                   *)
THEOREM RoutingTyped == RoutingSpec => []RoutingTypeOK
<1>1. RoutingIInv => RoutingTypeOK
  BY DEF RoutingIInv
<1> QED
  BY <1>1, RoutingInductive, PTL

(* RightlyServed: for every set of configurations and processes, a message   *)
(* that only its room lets in is answered by the agent of that room, the    *)
(* books of the company and of the dealers and the registers of the rooms    *)
(* are within reach of their own profiles only, and nobody answers unasked  *)
(* who has no funnel (dedicated-rooms.ts:15-17, intake.ts:87-91,            *)
(* agents/roots).                                                          *)
THEOREM RightlyServed == RoutingSpec => []ServedByItsRoom
<1>1. RoutingIInv => ServedByItsRoom
  BY DEF RoutingIInv
<1> QED
  BY <1>1, RoutingInductive, PTL

-----------------------------------------------------------------------------
(* Proactive                                                               *)

\* The types of the variables, function by function.
FunnelTyped ==
  /\ payload \in [Person -> {0} \cup Message]
  /\ pick \in [Host -> {"rest", "zrem", "hget", "hdel", "read", "incr", "expire", "judge", "publish"}]
  /\ members \in [Host -> SUBSET Person]
  /\ member \in [Host -> Person \cup {"none"}]
  /\ held \in [Host -> {0} \cup Message]
  /\ claimed \in [Host -> SUBSET Message]
  /\ woken \in [Message -> Nat]
  /\ asking \in [Message -> Asking]

\* A process decides on one of the questions it has claimed.
Deciding(h) == pick[h] \in {"incr", "expire", "judge", "publish"}

\* Where a question may be found, whoever asks it.
Kept ==
  /\ \A s \in Person : payload[s] # 0 =>
       AuthorOf[payload[s]] = s /\ asking[payload[s]] \in {"zadd", "out"}
  /\ \A h \in Host : pick[h] = "hdel" /\ held[h] # 0 => AuthorOf[held[h]] = member[h]
  /\ \A h \in Host : Deciding(h) => held[h] \in claimed[h]
  /\ \A m \in moot : Answered(m)

\* One claim of a person's member at a time, of the question whose time it was.
Steady(s) ==
  /\ s \in ripe \/ InHand(s) => \A m \in Message : AuthorOf[m] = s => asking[m] # "zadd"
  /\ \A h \in Host : member[h] = s => s \notin waiting
  /\ \A h, k \in Host : member[h] = s /\ member[k] = s => h = k
  /\ \A h \in Host : s \in members[h] /\ s \in waiting => s \in ripe
  /\ s \in ripe \/ (\E h \in Host : member[h] = s) => payload[s] \in waited \cup {0}
  /\ \A h \in Host : pick[h] = "hdel" /\ member[h] = s => held[h] = payload[s]

\* One claim of a question, which has left the hash by then.
Claimed(m) == woken[m] > 0 \/ \E h \in Host : m \in claimed[h]

Once(m) ==
  /\ Claimed(m) => payload[AuthorOf[m]] # m /\ m \in waited /\ asking[m] \in {"zadd", "out"}
  /\ \A h, k \in Host : m \in claimed[h] /\ m \in claimed[k] => h = k
  /\ \A h \in Host : m \in claimed[h] => woken[m] = 0
  /\ \A h \in Host : Deciding(h) /\ held[h] = m => m \notin moot
  /\ woken[m] <= 1 /\ (woken[m] > 0 => m \notin moot)

FunnelIInv ==
  /\ FaultsOK /\ FunnelTypeOK /\ FunnelTyped /\ Kept /\ HourIsOver
  /\ \A s \in Person \ crossed : Steady(s)
  /\ \A m \in Message : AuthorOf[m] \notin crossed => Once(m)

\* What the invariant says of the variables.
LEMMA FunnelShapes ==
  ASSUME FunnelIInv
  PROVE  /\ FunnelTyped
         /\ "none" \notin Person /\ AuthorOf \in [Message -> Person] /\ MaxFaults \in Nat /\ faults \in Nat
         /\ Message \subseteq Nat /\ 0 \notin Message
         /\ room \subseteq Message /\ waiting \subseteq Person /\ ripe \subseteq waiting /\ rate \in Nat
         /\ \A h \in Host : member[h] # "none" <=> pick[h] \in {"hget", "hdel"}
         /\ \A h \in Host : pick[h] \in {"read", "incr", "expire", "judge", "publish"}
                              => members[h] = {} /\ claimed[h] # {}
<1>1. FunnelTyped /\ FunnelTypeOK /\ FaultsOK
  BY DEF FunnelIInv
<1>2. /\ "none" \notin Person /\ AuthorOf \in [Message -> Person] /\ MaxFaults \in Nat
      /\ MaxMessage \in Nat
  BY ProactiveAssumption, PlatformAssumption
<1>3. faults \in Nat /\ Message \subseteq Nat /\ 0 \notin Message
  BY <1>1, <1>2 DEF FaultsOK, Message
<1>4. /\ room \subseteq Message /\ waiting \subseteq Person /\ ripe \subseteq waiting /\ rate \in Nat
      /\ \A h \in Host : member[h] # "none" <=> pick[h] \in {"hget", "hdel"}
      /\ \A h \in Host : pick[h] \in {"read", "incr", "expire", "judge", "publish"}
                           => members[h] = {} /\ claimed[h] # {}
  BY <1>1, Zenon DEF FunnelTypeOK
<1> QED
  BY <1>1, <1>2, <1>3, <1>4

LEMMA FunnelInitial ==
  ASSUME FunnelInit, NoFault
  PROVE  FunnelIInv
<1>1. FaultsOK /\ "none" \notin Person
  BY PlatformAssumption, ProactiveAssumption DEF NoFault, FaultsOK
<1>2. FunnelTyped
  BY DEF FunnelInit, FunnelTyped, Asking
<1>3. FunnelTypeOK
  BY <1>1, <1>2 DEF FunnelInit, FunnelTypeOK, FunnelTyped
<1>4. Kept /\ HourIsOver
  BY DEF FunnelInit, Kept, Deciding, HourIsOver
<1>5. \A s \in Person : Steady(s)
  BY <1>1 DEF FunnelInit, Steady, InHand
<1>6. \A m \in Message : Once(m)
  BY <1>1, ProactiveAssumption DEF FunnelInit, Once, Claimed, Deciding
<1> QED
  BY <1>1, <1>2, <1>3, <1>4, <1>5, <1>6 DEF FunnelIInv

\* A command that fails uses up one fault; a step that does not fail uses none.
LEMMA FaultCount ==
  ASSUME FaultsOK, UNCHANGED faults \/ Fault
  PROVE  FaultsOK' /\ (faults > 0 => faults' > 0)
BY PlatformAssumption DEF FaultsOK, Fault

-----------------------------------------------------------------------------
(* Proactive: the gateway                                                  *)

\* A step of the gateway, or of the clock, leaves the ticks alone.
LEMMA PicksStay ==
  ASSUME FunnelIInv, UNCHANGED <<meter, woken, picks>>, UNCHANGED faults \/ Fault
  PROVE  FaultsOK' /\ HourIsOver'
<1>1. FaultsOK' /\ (faults > 0 => faults' > 0)
  BY FaultCount DEF FunnelIInv
<1> QED
  BY <1>1 DEF FunnelIInv, HourIsOver, meter, picks

LEMMA HearStep ==
  ASSUME FunnelIInv, NEW n \in Message, Hear(n)
  PROVE  FunnelIInv'
<1>a. FunnelTyped
  BY FunnelShapes
<1>1. /\ asking[n] = "new" /\ room' = room \cup {n}
      /\ asking' = [asking EXCEPT ![n] = "verify"] \/ asking' = [asking EXCEPT ![n] = "out"]
      /\ UNCHANGED <<payload, waiting, ripe, rate, expiring, woken, pick, members, member, held, claimed,
                     moot, waited, crossed, faults>>
  BY DEF Hear, AskAt, redis, meter, picks, noticed
<1>2. /\ asking' \in [Message -> Asking] /\ asking'[n] # "zadd" /\ asking'[n] \in Asking
      /\ \A m \in Message \ {n} : asking'[m] = asking[m]
  BY <1>a, <1>1 DEF FunnelTyped, Asking
<1>3. FaultsOK' /\ HourIsOver'
  BY <1>1, PicksStay DEF meter, picks
<1>4. FunnelTyped'
  BY <1>a, <1>1, <1>2 DEF FunnelTyped
<1>5. FunnelTypeOK'
  BY <1>1, <1>2 DEF FunnelIInv, FunnelTypeOK
<1>6. Kept'
  BY <1>a, <1>1, <1>2 DEF FunnelIInv, Kept, Answered, Deciding, FunnelTyped
<1>7. ASSUME NEW s \in Person \ crossed' PROVE Steady(s)'
  <2>1. Steady(s)
    BY <1>1 DEF FunnelIInv
  <2> QED
    BY <2>1, <1>1, <1>2 DEF Steady, InHand
<1>8. ASSUME NEW m \in Message, AuthorOf[m] \notin crossed' PROVE Once(m)'
  <2>1. Once(m)
    BY <1>1, <1>8 DEF FunnelIInv
  <2> QED
    BY <2>1, <1>1, <1>2 DEF Once, Claimed, Deciding
<1> QED
  BY <1>3, <1>4, <1>5, <1>6, <1>7, <1>8 DEF FunnelIInv

LEMMA VerifyStep ==
  ASSUME FunnelIInv, NEW n \in Message, Verify(n)
  PROVE  FunnelIInv'
<1>a. FunnelTyped
  BY FunnelShapes
<1>1. /\ asking[n] = "verify"
      /\ asking' = [asking EXCEPT ![n] = "hset"] \/ asking' = [asking EXCEPT ![n] = "out"]
      /\ UNCHANGED <<room, payload, waiting, ripe, rate, expiring, woken, pick, members, member, held,
                     claimed, moot, waited, crossed, faults>>
  BY DEF Verify, AskAt, redis, meter, picks, noticed
<1>2. /\ asking' \in [Message -> Asking] /\ asking'[n] # "zadd" /\ asking'[n] \in Asking
      /\ \A m \in Message \ {n} : asking'[m] = asking[m]
  BY <1>a, <1>1 DEF FunnelTyped, Asking
<1>3. FaultsOK' /\ HourIsOver'
  BY <1>1, PicksStay DEF meter, picks
<1>4. FunnelTyped'
  BY <1>a, <1>1, <1>2 DEF FunnelTyped
<1>5. FunnelTypeOK'
  BY <1>1, <1>2 DEF FunnelIInv, FunnelTypeOK
<1>6. Kept'
  BY <1>a, <1>1, <1>2 DEF FunnelIInv, Kept, Answered, Deciding, FunnelTyped
<1>7. ASSUME NEW s \in Person \ crossed' PROVE Steady(s)'
  <2>1. Steady(s)
    BY <1>1 DEF FunnelIInv
  <2> QED
    BY <2>1, <1>1, <1>2 DEF Steady, InHand
<1>8. ASSUME NEW m \in Message, AuthorOf[m] \notin crossed' PROVE Once(m)'
  <2>1. Once(m)
    BY <1>1, <1>8 DEF FunnelIInv
  <2> QED
    BY <2>1, <1>1, <1>2 DEF Once, Claimed, Deciding
<1> QED
  BY <1>3, <1>4, <1>5, <1>6, <1>7, <1>8 DEF FunnelIInv

\* The question goes into the hash; while the person's member is due or in hand,
\* they count as crossed.
LEMMA SetPayloadStep ==
  ASSUME FunnelIInv, NEW n \in Message, SetPayload(n)
  PROVE  FunnelIInv'
<1> DEFINE p == AuthorOf[n]
<1>a. FunnelTyped /\ p \in Person /\ 0 \notin Message
  BY FunnelShapes
<1>1. /\ asking[n] = "hset"
      /\ payload' = payload \/ payload' = [payload EXCEPT ![p] = n]
      /\ asking' = [asking EXCEPT ![n] = "zadd"] \/ asking' = [asking EXCEPT ![n] = "out"]
      /\ crossed' = IF InHand(p) \/ p \in ripe THEN crossed \cup {p} ELSE crossed
      /\ UNCHANGED faults \/ Fault
      /\ UNCHANGED <<room, waiting, ripe, rate, expiring, woken, pick, members, member, held, claimed,
                     moot, waited>>
  BY DEF SetPayload, AskAt, meter, picks
<1>2. /\ asking' \in [Message -> Asking] /\ asking'[n] \in {"zadd", "out"}
      /\ \A m \in Message \ {n} : asking'[m] = asking[m]
  BY <1>a, <1>1 DEF FunnelTyped, Asking
<1>3. /\ payload' \in [Person -> {0} \cup Message] /\ payload'[p] \in {payload[p], n}
      /\ \A s \in Person \ {p} : payload'[s] = payload[s]
  BY <1>a, <1>1 DEF FunnelTyped
<1>4. crossed \subseteq crossed' /\ crossed' \subseteq Person /\ (p \notin crossed' => ~InHand(p) /\ p \notin ripe)
  BY <1>a, <1>1 DEF FunnelIInv, FunnelTypeOK
<1> HIDE DEF p
<1>5. FaultsOK' /\ HourIsOver'
  BY <1>1, PicksStay DEF meter, picks
<1>6. FunnelTyped'
  BY <1>a, <1>1, <1>2, <1>3 DEF FunnelTyped
<1>7. FunnelTypeOK'
  BY <1>1, <1>2, <1>3, <1>4 DEF FunnelIInv, FunnelTypeOK
<1>8. Kept'
  <2>1. ASSUME NEW s \in Person, payload'[s] # 0
        PROVE  AuthorOf[payload'[s]] = s /\ asking'[payload'[s]] \in {"zadd", "out"}
    <3>1. CASE payload'[s] = payload[s]
      BY <3>1, <2>1, <1>a, <1>1, <1>2 DEF FunnelIInv, Kept, FunnelTyped
    <3>2. CASE s = p /\ payload'[s] = n
      BY <3>2, <1>2 DEF p
    <3> QED
      BY <3>1, <3>2, <1>3
  <2> QED
    BY <2>1, <1>1 DEF FunnelIInv, Kept, Answered, Deciding
<1>9. ASSUME NEW s \in Person \ crossed' PROVE Steady(s)'
  <2>1. Steady(s)
    BY <1>4 DEF FunnelIInv
  <2>2. CASE s = p
    <3>1. ~InHand(p) /\ p \notin ripe /\ ~InHand(p)'
      BY <1>1, <1>4, <1>9, <2>2 DEF InHand
    <3>2. \A h \in Host : member[h] # p /\ p \notin members[h]
      BY <3>1 DEF InHand
    <3> QED
      BY <2>1, <2>2, <3>1, <3>2, <1>1 DEF Steady
  <2>3. CASE s # p
    <3>1. payload'[s] = payload[s] /\ \A m \in Message : AuthorOf[m] = s => asking'[m] = asking[m]
      BY <2>3, <1>2, <1>3 DEF p
    <3> QED
      BY <2>1, <3>1, <1>1 DEF Steady, InHand
  <2> QED
    BY <2>2, <2>3
<1>10. ASSUME NEW m \in Message, AuthorOf[m] \notin crossed' PROVE Once(m)'
  <2>1. Once(m)
    BY <1>4, <1>10 DEF FunnelIInv
  <2>2. Claimed(m) => m # n
    BY <2>1, <1>1 DEF Once
  <2>3. payload'[AuthorOf[m]] \in {payload[AuthorOf[m]], n}
    BY <1>3, FunnelShapes
  <2> QED
    BY <2>1, <2>2, <2>3, <1>1, <1>2 DEF Once, Claimed, Deciding
<1> QED
  BY <1>5, <1>6, <1>7, <1>8, <1>9, <1>10 DEF FunnelIInv

\* The member is put in, and its time starts again; nobody has it in hand.
LEMMA SetDueStep ==
  ASSUME FunnelIInv, NEW n \in Message, SetDue(n)
  PROVE  FunnelIInv'
<1> DEFINE p == AuthorOf[n]
<1>a. FunnelTyped /\ p \in Person /\ 0 \notin Message /\ waiting \subseteq Person /\ ripe \subseteq waiting
  BY FunnelShapes
<1>1. /\ asking[n] = "zadd" /\ asking' = [asking EXCEPT ![n] = "out"]
      /\ \/ waiting' = waiting \cup {p} /\ ripe' = ripe \ {p}
         \/ waiting' \in {waiting, waiting \cup {p}} /\ ripe' = ripe \ (waiting' \ waiting)
      /\ UNCHANGED faults \/ Fault
      /\ UNCHANGED <<room, payload, rate, expiring, woken, pick, members, member, held, claimed,
                     moot, waited, crossed>>
  BY DEF SetDue, AskAt, meter, picks, noticed
<1>2. /\ asking' \in [Message -> Asking] /\ asking'[n] = "out"
      /\ \A m \in Message \ {n} : asking'[m] = asking[m]
  BY <1>a, <1>1 DEF FunnelTyped, Asking
<1>3. /\ waiting' \subseteq Person /\ ripe' \subseteq waiting' /\ ripe' \subseteq ripe
      /\ \A s \in Person \ {p} : (s \in waiting' <=> s \in waiting) /\ (s \in ripe' <=> s \in ripe)
  BY <1>a, <1>1
<1> HIDE DEF p
<1>5. FaultsOK' /\ HourIsOver'
  BY <1>1, PicksStay DEF meter, picks
<1>6. FunnelTyped'
  BY <1>a, <1>1, <1>2 DEF FunnelTyped
<1>7. FunnelTypeOK'
  BY <1>1, <1>2, <1>3 DEF FunnelIInv, FunnelTypeOK
<1>8. Kept'
  BY <1>a, <1>1, <1>2 DEF FunnelIInv, Kept, Answered, Deciding, FunnelTyped
<1>9. ASSUME NEW s \in Person \ crossed' PROVE Steady(s)'
  <2>1. Steady(s)
    BY <1>1 DEF FunnelIInv
  <2>2. CASE s = p
    <3>1. ~InHand(p) /\ p \notin ripe
      BY <2>1, <2>2, <1>1 DEF Steady, p
    <3>2. /\ p \notin ripe' /\ ~InHand(p)'
          /\ \A h \in Host : member[h] # p /\ p \notin members[h]
      BY <3>1, <1>1, <1>3 DEF InHand
    <3> QED
      BY <2>1, <2>2, <3>2, <1>1 DEF Steady
  <2>3. CASE s # p
    <3>1. (s \in waiting' <=> s \in waiting) /\ (s \in ripe' <=> s \in ripe)
      BY <2>3, <1>3
    <3> QED
      BY <2>1, <3>1, <1>1, <1>2 DEF Steady, InHand
  <2> QED
    BY <2>2, <2>3
<1>10. ASSUME NEW m \in Message, AuthorOf[m] \notin crossed' PROVE Once(m)'
  <2>1. Once(m)
    BY <1>1, <1>10 DEF FunnelIInv
  <2> QED
    BY <2>1, <1>1, <1>2 DEF Once, Claimed, Deciding
<1> QED
  BY <1>5, <1>6, <1>7, <1>8, <1>9, <1>10 DEF FunnelIInv

\* The time of a member has come, and with it that of its question.
LEMMA RipenStep ==
  ASSUME FunnelIInv, NEW p \in Person, Ripen(p)
  PROVE  FunnelIInv'
<1>a. FunnelTyped /\ ripe \subseteq waiting
  BY FunnelShapes
<1>1. /\ p \in waiting /\ (\A h \in Host : member[h] # p) /\ ripe' = ripe \cup {p}
      /\ waited' = IF payload[p] = 0 THEN waited ELSE waited \cup {payload[p]}
      /\ crossed' = IF \E m \in Message : AuthorOf[m] = p /\ asking[m] = "zadd"
                    THEN crossed \cup {p} ELSE crossed
      /\ UNCHANGED <<room, asking, payload, waiting, rate, expiring, woken, pick, members, member, held,
                     claimed, moot, faults>>
  BY DEF Ripen, meter, picks
<1>2. /\ waited \subseteq waited' /\ payload[p] \in waited' \cup {0} /\ waited' \subseteq Message
      /\ crossed \subseteq crossed' /\ crossed' \subseteq Person
      /\ p \notin crossed' => \A m \in Message : AuthorOf[m] = p => asking[m] # "zadd"
  BY <1>a, <1>1 DEF FunnelIInv, FunnelTypeOK, FunnelTyped
<1>5. FaultsOK' /\ HourIsOver'
  BY <1>1, PicksStay DEF meter, picks
<1>6. FunnelTyped'
  BY <1>a, <1>1 DEF FunnelTyped
<1>7. FunnelTypeOK'
  BY <1>1, <1>2 DEF FunnelIInv, FunnelTypeOK
<1>8. Kept'
  BY <1>1 DEF FunnelIInv, Kept, Answered, Deciding
<1>9. ASSUME NEW s \in Person \ crossed' PROVE Steady(s)'
  <2>1. Steady(s)
    BY <1>2 DEF FunnelIInv
  <2> QED
    BY <2>1, <1>1, <1>2, <1>9 DEF Steady, InHand
<1>10. ASSUME NEW m \in Message, AuthorOf[m] \notin crossed' PROVE Once(m)'
  <2>1. Once(m)
    BY <1>2, <1>10 DEF FunnelIInv
  <2> QED
    BY <2>1, <1>1, <1>2 DEF Once, Claimed, Deciding
<1> QED
  BY <1>5, <1>6, <1>7, <1>8, <1>9, <1>10 DEF FunnelIInv

-----------------------------------------------------------------------------
(* Proactive: the ticks                                                    *)

\* What a step of one process leaves of the others.
Others(h) ==
  \A k \in Host \ {h} :
    /\ pick'[k] = pick[k] /\ members'[k] = members[k] /\ member'[k] = member[k]
    /\ held'[k] = held[k] /\ claimed'[k] = claimed[k]

PicksTyped ==
  /\ pick \in [Host -> {"rest", "zrem", "hget", "hdel", "read", "incr", "expire", "judge", "publish"}]
  /\ members \in [Host -> SUBSET Person]
  /\ member \in [Host -> Person \cup {"none"}]
  /\ held \in [Host -> {0} \cup Message]
  /\ claimed \in [Host -> SUBSET Message]

LEMMA AfterClaimSays ==
  ASSUME FunnelTyped, NEW h \in Host, NEW rest \in SUBSET Person, NEW got \in SUBSET Message,
         AfterClaim(h, rest, got)
  PROVE  /\ PicksTyped' /\ Others(h)
         /\ pick'[h] = IF rest # {} THEN "zrem" ELSE IF got # {} THEN "read" ELSE "rest"
         /\ members'[h] = rest /\ member'[h] = "none" /\ held'[h] = 0 /\ claimed'[h] = got
BY DEF FunnelTyped, AfterClaim, PicksTyped, Others

LEMMA LeaveSays ==
  ASSUME FunnelTyped, NEW h \in Host, NEW m \in Message, Leave(h, m)
  PROVE  /\ PicksTyped' /\ Others(h)
         /\ pick'[h] = IF claimed[h] = {m} THEN "rest" ELSE "read"
         /\ members'[h] = members[h] /\ member'[h] = member[h] /\ held'[h] = 0
         /\ claimed'[h] = claimed[h] \ {m}
BY DEF FunnelTyped, Leave, PicksTyped, Others

LEMMA PickAtSays ==
  ASSUME FunnelTyped, NEW h \in Host, NEW m \in Message,
         NEW where \in {"incr", "expire", "judge", "publish"}, PickAt(h, m, where)
  PROVE  /\ PicksTyped' /\ Others(h)
         /\ pick'[h] = where /\ members'[h] = members[h] /\ member'[h] = member[h]
         /\ held'[h] = m /\ claimed'[h] = claimed[h]
BY DEF FunnelTyped, PickAt, PicksTyped, Others

\* The hour does not concern a process that is not at its EXPIRE.
LEMMA HourStays ==
  ASSUME FunnelIInv, NEW h \in Host, pick[h] # "expire", Others(h), UNCHANGED <<rate, expiring>>,
         UNCHANGED faults \/ Fault
  PROVE  FaultsOK' /\ HourIsOver'
<1>1. FaultsOK' /\ (faults > 0 => faults' > 0)
  BY FaultCount DEF FunnelIInv
<1>2. ASSUME NEW k \in Host, pick[k] = "expire" PROVE pick'[k] = "expire"
  BY <1>2 DEF Others
<1> QED
  BY <1>1, <1>2 DEF FunnelIInv, HourIsOver

\* A tick that ends early drops what it had claimed, whether or not its command
\* took effect.
LEMMA DropStep ==
  ASSUME FunnelIInv, NEW h \in Host, EndTick(h), Fault,
         UNCHANGED <<room, asking, rate, expiring, woken, waited, crossed>>,
         waiting' \subseteq waiting, ripe' = ripe \cap waiting',
         \/ UNCHANGED payload
         \/ pick[h] = "hdel" /\ payload' = [payload EXCEPT ![member[h]] = 0],
         \/ UNCHANGED moot
         \/ pick[h] = "hdel" /\ held[h] # 0 /\ Answered(held[h]) /\ moot' = moot \cup {held[h]}
  PROVE  FunnelIInv'
<1>a. /\ FunnelTyped /\ ripe \subseteq waiting /\ waiting \subseteq Person /\ "none" \notin Person
      /\ \A k \in Host : member[k] # "none" <=> pick[k] \in {"hget", "hdel"}
  BY FunnelShapes
<1>1. /\ PicksTyped' /\ Others(h) /\ pick'[h] = "rest"
      /\ members'[h] = {} /\ member'[h] = "none" /\ held'[h] = 0 /\ claimed'[h] = {}
  BY <1>a, AfterClaimSays DEF EndTick
<1>2. FaultsOK' /\ HourIsOver'
  <2>1. faults' > 0 /\ FaultsOK'
    BY PlatformAssumption DEF FunnelIInv, FaultsOK, Fault
  <2> QED
    BY <2>1 DEF HourIsOver
<1>3. /\ payload' \in [Person -> {0} \cup Message]
      /\ \A s \in Person : payload'[s] \in {payload[s], 0}
      /\ \A s \in Person : s # member[h] => payload'[s] = payload[s]
  BY <1>a DEF FunnelTyped
<1>4. moot' \subseteq Message /\ (\A m \in moot' : m \in moot \/ (pick[h] = "hdel" /\ held[h] = m /\ Answered(m)))
  BY <1>a DEF FunnelIInv, FunnelTypeOK, FunnelTyped
<1>5. FunnelTyped'
  BY <1>a, <1>1, <1>3 DEF FunnelTyped, PicksTyped
<1>6. FunnelTypeOK'
  <2>1. \A k \in Host :
          /\ member'[k] # "none" <=> pick'[k] \in {"hget", "hdel"}
          /\ pick'[k] \in {"read", "incr", "expire", "judge", "publish"} => members'[k] = {} /\ claimed'[k] # {}
    BY <1>1 DEF FunnelIInv, FunnelTypeOK, Others
  <2> QED
    BY <1>a, <1>1, <1>3, <1>4, <1>5, <2>1 DEF FunnelIInv, FunnelTypeOK, FunnelTyped
<1>7. Kept'
  <2>1. \A k \in Host : Deciding(k)' => k # h /\ Deciding(k)
    BY <1>1 DEF Deciding, Others
  <2>2. \A s \in Person : payload'[s] # 0 => payload'[s] = payload[s]
    BY <1>3
  <2>3. \A m \in moot' : Answered(m)'
    BY <1>4 DEF FunnelIInv, Kept, Answered
  <2> QED
    BY <1>1, <2>1, <2>2, <2>3 DEF FunnelIInv, Kept, Others
<1>8. ASSUME NEW s \in Person \ crossed' PROVE Steady(s)'
  <2>1. Steady(s)
    BY DEF FunnelIInv
  <2>2. InHand(s)' => InHand(s)
    BY <1>1, <1>a DEF InHand, Others
  <2>3. \A k \in Host : member'[k] = s => k # h /\ member[k] = s
    BY <1>1, <1>a DEF Others
  <2>4. \A k \in Host : s \in members'[k] => k # h /\ s \in members[k]
    BY <1>1 DEF Others
  <2>5. \A k \in Host : pick'[k] = "hdel" /\ member'[k] = s =>
          pick[k] = "hdel" /\ member[k] = s /\ held'[k] = held[k] /\ s # member[h]
    BY <1>1, <2>1, <2>3 DEF Others, Steady
  <2> QED
    BY <2>1, <2>2, <2>3, <2>4, <2>5, <1>3 DEF Steady
<1>9. ASSUME NEW m \in Message, AuthorOf[m] \notin crossed' PROVE Once(m)'
  <2>1. Once(m)
    BY <1>9 DEF FunnelIInv
  <2>2. \A k \in Host : m \in claimed'[k] => k # h /\ m \in claimed[k]
    BY <1>1 DEF Others
  <2>3. \A k \in Host : Deciding(k)' => k # h /\ Deciding(k) /\ held'[k] = held[k]
    BY <1>1 DEF Deciding, Others
  <2>4. m \in moot' /\ m \notin moot => ~Claimed(m)
    <3>1. SUFFICES ASSUME pick[h] = "hdel", held[h] = m PROVE ~Claimed(m)
      BY <1>4
    <3>2. m # 0 /\ AuthorOf[m] = member[h] /\ AuthorOf[m] \in Person
      BY <3>1, FunnelShapes DEF FunnelIInv, Kept
    <3>3. held[h] = payload[AuthorOf[m]]
      BY <3>1, <3>2, <1>9 DEF FunnelIInv, Steady
    <3> QED
      BY <2>1, <3>1, <3>3 DEF Once
  <2>5. ASSUME NEW k \in Host, Deciding(k), held[k] = m PROVE Claimed(m)
    BY <2>5 DEF FunnelIInv, Kept, Claimed
  <2>6. Claimed(m)' => Claimed(m)
    BY <2>2 DEF Claimed
  <2>7. payload'[AuthorOf[m]] \in {payload[AuthorOf[m]], 0} /\ m # 0
    BY <1>3, FunnelShapes
  <2>8. woken[m] > 0 => Claimed(m)
    BY DEF Claimed
  <2> QED
    BY <2>1, <2>2, <2>3, <2>4, <2>5, <2>6, <2>7, <2>8 DEF Once
<1> QED
  BY <1>2, <1>5, <1>6, <1>7, <1>8, <1>9 DEF FunnelIInv

LEMMA StartTickStep ==
  ASSUME FunnelIInv, NEW h \in Host, StartTick(h)
  PROVE  FunnelIInv'
<1>a. /\ FunnelTyped /\ ripe \subseteq waiting /\ waiting \subseteq Person /\ "none" \notin Person
      /\ \A k \in Host : member[k] # "none" <=> pick[k] \in {"hget", "hdel"}
  BY FunnelShapes
<1>1. /\ pick[h] = "rest" /\ pick' = [pick EXCEPT ![h] = "zrem"]
      /\ members' = [members EXCEPT ![h] = ripe]
      /\ UNCHANGED <<room, asking, payload, waiting, ripe, rate, expiring, woken, member, held, claimed,
                     moot, waited, crossed, faults>>
  BY DEF StartTick, redis, meter, noticed
<1>2. /\ PicksTyped' /\ Others(h) /\ pick'[h] = "zrem" /\ members'[h] = ripe
      /\ member[h] = "none"
  BY <1>a, <1>1 DEF FunnelTyped, PicksTyped, Others
<1>3. FaultsOK' /\ HourIsOver'
  BY <1>1, <1>2, HourStays
<1>4. FunnelTyped'
  BY <1>a, <1>1, <1>2 DEF FunnelTyped, PicksTyped
<1>5. FunnelTypeOK'
  <2>1. \A k \in Host :
          /\ member'[k] # "none" <=> pick'[k] \in {"hget", "hdel"}
          /\ pick'[k] \in {"read", "incr", "expire", "judge", "publish"} => members'[k] = {} /\ claimed'[k] # {}
    BY <1>1, <1>2 DEF FunnelIInv, FunnelTypeOK, Others
  <2> QED
    BY <1>1, <1>4, <2>1 DEF FunnelIInv, FunnelTypeOK, FunnelTyped
<1>6. Kept'
  <2>1. \A k \in Host : Deciding(k)' => k # h /\ Deciding(k)
    BY <1>1, <1>2 DEF Deciding, Others
  <2> QED
    BY <1>1, <1>2, <2>1 DEF FunnelIInv, Kept, Answered, Others
<1>7. ASSUME NEW s \in Person \ crossed' PROVE Steady(s)'
  <2>1. Steady(s)
    BY <1>1 DEF FunnelIInv
  <2>2. InHand(s)' => InHand(s) \/ s \in ripe
    BY <1>1, <1>2, <1>a DEF InHand, Others
  <2>3. \A k \in Host : s \in members'[k] => s \in ripe \/ s \in members[k]
    BY <1>2 DEF Others
  <2>4. \A k \in Host : pick'[k] = "hdel" => pick[k] = "hdel"
    BY <1>2 DEF Others
  <2> QED
    BY <2>1, <2>2, <2>3, <2>4, <1>1 DEF Steady
<1>8. ASSUME NEW m \in Message, AuthorOf[m] \notin crossed' PROVE Once(m)'
  <2>1. Once(m)
    BY <1>1, <1>8 DEF FunnelIInv
  <2>2. \A k \in Host : Deciding(k)' => Deciding(k)
    BY <1>2 DEF Deciding, Others
  <2> QED
    BY <2>1, <2>2, <1>1 DEF Once, Claimed
<1> QED
  BY <1>3, <1>4, <1>5, <1>6, <1>7, <1>8 DEF FunnelIInv

\* ZREM has removed the member: this process and no other has it in its claim.
LEMMA RemovedStep ==
  ASSUME FunnelIInv, NEW h \in Host, NEW p \in members[h], pick[h] = "zrem", p \in waiting,
         waiting' = waiting \ {p}, ripe' = ripe \ {p},
         pick' = [pick EXCEPT ![h] = "hget"],
         member' = [member EXCEPT ![h] = p],
         members' = [members EXCEPT ![h] = members[h] \ {p}],
         UNCHANGED <<room, asking, payload, meter, woken, held, claimed, noticed, faults>>
  PROVE  FunnelIInv'
<1>a. /\ FunnelTyped /\ ripe \subseteq waiting /\ waiting \subseteq Person /\ "none" \notin Person
      /\ \A k \in Host : member[k] # "none" <=> pick[k] \in {"hget", "hdel"}
  BY FunnelShapes
<1>1. UNCHANGED <<room, asking, payload, rate, expiring, woken, held, claimed, moot, waited, crossed, faults>>
  BY DEF meter, noticed
<1>2. /\ PicksTyped' /\ Others(h) /\ pick'[h] = "hget" /\ members'[h] = members[h] \ {p}
      /\ member'[h] = p /\ member[h] = "none" /\ p \in Person
  BY <1>a, <1>1 DEF FunnelTyped, PicksTyped, Others
<1>3. FaultsOK' /\ HourIsOver'
  BY <1>1, <1>2, HourStays
<1>4. FunnelTyped'
  BY <1>a, <1>1, <1>2 DEF FunnelTyped, PicksTyped
<1>5. FunnelTypeOK'
  <2>1. \A k \in Host :
          /\ member'[k] # "none" <=> pick'[k] \in {"hget", "hdel"}
          /\ pick'[k] \in {"read", "incr", "expire", "judge", "publish"} => members'[k] = {} /\ claimed'[k] # {}
    BY <1>1, <1>2, <1>a DEF FunnelIInv, FunnelTypeOK, Others
  <2>2. waiting' \subseteq Person /\ ripe' \subseteq waiting'
    BY <1>a
  <2> QED
    BY <1>1, <1>4, <2>1, <2>2 DEF FunnelIInv, FunnelTypeOK, FunnelTyped
<1>6. Kept'
  <2>1. \A k \in Host : Deciding(k)' => k # h /\ Deciding(k)
    BY <1>2 DEF Deciding, Others
  <2> QED
    BY <1>1, <1>2, <2>1 DEF FunnelIInv, Kept, Answered, Others
<1>7. ASSUME NEW s \in Person \ crossed' PROVE Steady(s)'
  <2>1. Steady(s)
    BY <1>1 DEF FunnelIInv
  <2>2. InHand(s)' => InHand(s)
    BY <1>2, <1>a DEF InHand, Others
  <2>3. \A k \in Host : member'[k] = s => (k # h /\ member[k] = s /\ s # p) \/ (k = h /\ s = p)
    <3>1. s = p => \A k \in Host : member[k] # p
      BY <2>1 DEF Steady
    <3> QED
      BY <3>1, <1>2 DEF Others
  <2>4. s = p => s \in ripe /\ s \notin ripe' /\ s \notin waiting'
    BY <2>1 DEF Steady
  <2>5. s # p => (s \in ripe' <=> s \in ripe) /\ (s \in waiting' <=> s \in waiting)
    OBVIOUS
  <2>6. \A k \in Host : s \in members'[k] => s \in members[k]
    BY <1>2 DEF Others
  <2>7. \A k \in Host : pick'[k] = "hdel" => k # h /\ pick[k] = "hdel"
    BY <1>2 DEF Others
  <2>8. s \in ripe' \/ InHand(s)' => \A m \in Message : AuthorOf[m] = s => asking'[m] # "zadd"
    BY <2>1, <2>2, <2>4, <2>5, <1>1 DEF Steady
  <2>9. s \in ripe' \/ (\E k \in Host : member'[k] = s) => payload'[s] \in waited' \cup {0}
    BY <2>1, <2>3, <2>4, <2>5, <1>1 DEF Steady
  <2>10. \A k \in Host : pick'[k] = "hdel" /\ member'[k] = s => held'[k] = payload'[s]
    BY <2>1, <2>3, <2>7, <1>1 DEF Steady
  <2>11. \A k \in Host : member'[k] = s => s \notin waiting'
    BY <2>1, <2>3, <2>4, <2>5 DEF Steady
  <2>12. \A k, i \in Host : member'[k] = s /\ member'[i] = s => k = i
    BY <2>1, <2>3 DEF Steady
  <2>13. \A k \in Host : s \in members'[k] /\ s \in waiting' => s \in ripe'
    BY <2>1, <2>4, <2>5, <2>6 DEF Steady
  <2> QED
    BY <2>8, <2>9, <2>10, <2>11, <2>12, <2>13 DEF Steady
<1>8. ASSUME NEW m \in Message, AuthorOf[m] \notin crossed' PROVE Once(m)'
  <2>1. Once(m)
    BY <1>1, <1>8 DEF FunnelIInv
  <2>2. \A k \in Host : Deciding(k)' => Deciding(k)
    BY <1>2 DEF Deciding, Others
  <2> QED
    BY <2>1, <2>2, <1>1 DEF Once, Claimed
<1> QED
  BY <1>3, <1>4, <1>5, <1>6, <1>7, <1>8 DEF FunnelIInv

\* Another process has claimed the member: this one goes on to the next.
LEMMA MissedStep ==
  ASSUME FunnelIInv, NEW h \in Host, pick[h] = "zrem", NEW p \in members[h],
         AfterClaim(h, members[h] \ {p}, claimed[h]),
         UNCHANGED <<room, asking, payload, waiting, ripe, meter, woken, noticed, faults>>
  PROVE  FunnelIInv'
<1>a. /\ FunnelTyped /\ ripe \subseteq waiting /\ waiting \subseteq Person /\ "none" \notin Person
      /\ \A k \in Host : member[k] # "none" <=> pick[k] \in {"hget", "hdel"}
  BY FunnelShapes
<1>1. UNCHANGED <<room, asking, payload, waiting, ripe, rate, expiring, woken, moot, waited, crossed, faults>>
  BY DEF meter, noticed
<1>2. /\ PicksTyped' /\ Others(h) /\ members'[h] = members[h] \ {p}
      /\ pick'[h] = IF members'[h] # {} THEN "zrem" ELSE IF claimed'[h] # {} THEN "read" ELSE "rest"
      /\ member'[h] = "none" /\ held'[h] = 0 /\ claimed'[h] = claimed[h]
  <2>1. members[h] \ {p} \in SUBSET Person /\ claimed[h] \in SUBSET Message
    BY <1>a DEF FunnelTyped
  <2> QED
    BY <1>a, <2>1, AfterClaimSays
<1>3. FaultsOK' /\ HourIsOver'
  BY <1>1, <1>2, HourStays
<1>4. FunnelTyped'
  BY <1>a, <1>1, <1>2 DEF FunnelTyped, PicksTyped
<1>5. FunnelTypeOK'
  <2>1. \A k \in Host :
          /\ member'[k] # "none" <=> pick'[k] \in {"hget", "hdel"}
          /\ pick'[k] \in {"read", "incr", "expire", "judge", "publish"} => members'[k] = {} /\ claimed'[k] # {}
    BY <1>2 DEF FunnelIInv, FunnelTypeOK, Others
  <2> QED
    BY <1>1, <1>4, <2>1 DEF FunnelIInv, FunnelTypeOK, FunnelTyped
<1>6. Kept'
  <2>1. \A k \in Host : Deciding(k)' => k # h /\ Deciding(k)
    BY <1>2 DEF Deciding, Others
  <2> QED
    BY <1>1, <1>2, <2>1 DEF FunnelIInv, Kept, Answered, Others
<1>7. ASSUME NEW s \in Person \ crossed' PROVE Steady(s)'
  <2>1. Steady(s)
    BY <1>1 DEF FunnelIInv
  <2>2. InHand(s)' => InHand(s)
    BY <1>2, <1>a DEF InHand, Others
  <2>3. \A k \in Host : member'[k] = s => k # h /\ member[k] = s
    BY <1>2, <1>a DEF Others
  <2>4. \A k \in Host : s \in members'[k] => s \in members[k]
    BY <1>2 DEF Others
  <2>5. \A k \in Host : pick'[k] = "hdel" => pick[k] = "hdel" /\ held'[k] = held[k]
    BY <1>2 DEF Others
  <2> QED
    BY <2>1, <2>2, <2>3, <2>4, <2>5, <1>1 DEF Steady
<1>8. ASSUME NEW m \in Message, AuthorOf[m] \notin crossed' PROVE Once(m)'
  <2>1. Once(m)
    BY <1>1, <1>8 DEF FunnelIInv
  <2>2. \A k \in Host : Deciding(k)' => Deciding(k) /\ held'[k] = held[k]
    BY <1>2 DEF Deciding, Others
  <2>3. \A k \in Host : claimed'[k] = claimed[k]
    BY <1>2 DEF Others
  <2> QED
    BY <2>1, <2>2, <2>3, <1>1 DEF Once, Claimed
<1> QED
  BY <1>3, <1>4, <1>5, <1>6, <1>7, <1>8 DEF FunnelIInv

\* HGET has read the hash for a member this process holds.
LEMMA ReadHashStep ==
  ASSUME FunnelIInv, NEW h \in Host, pick[h] = "hget",
         held' = [held EXCEPT ![h] = payload[member[h]]],
         pick' = [pick EXCEPT ![h] = "hdel"],
         UNCHANGED <<room, asking, redis, meter, woken, members, member, claimed, noticed, faults>>
  PROVE  FunnelIInv'
<1>a. /\ FunnelTyped /\ "none" \notin Person
      /\ \A k \in Host : member[k] # "none" <=> pick[k] \in {"hget", "hdel"}
  BY FunnelShapes
<1>1. UNCHANGED <<room, asking, payload, waiting, ripe, rate, expiring, woken, members, member, claimed,
                  moot, waited, crossed, faults>>
  BY DEF redis, meter, noticed
<1>2. /\ member[h] \in Person /\ payload[member[h]] \in {0} \cup Message
      /\ PicksTyped' /\ Others(h) /\ pick'[h] = "hdel" /\ held'[h] = payload[member[h]]
  BY <1>a, <1>1 DEF FunnelTyped, PicksTyped, Others
<1>3. FaultsOK' /\ HourIsOver'
  BY <1>1, <1>2, HourStays
<1>4. FunnelTyped'
  BY <1>a, <1>1, <1>2 DEF FunnelTyped, PicksTyped
<1>5. FunnelTypeOK'
  <2>1. \A k \in Host :
          /\ member'[k] # "none" <=> pick'[k] \in {"hget", "hdel"}
          /\ pick'[k] \in {"read", "incr", "expire", "judge", "publish"} => members'[k] = {} /\ claimed'[k] # {}
    BY <1>1, <1>2, <1>a DEF FunnelIInv, FunnelTypeOK, Others
  <2> QED
    BY <1>1, <1>4, <2>1 DEF FunnelIInv, FunnelTypeOK, FunnelTyped
<1>6. Kept'
  <2>1. \A k \in Host : Deciding(k)' => k # h /\ Deciding(k) /\ held'[k] = held[k]
    BY <1>2 DEF Deciding, Others
  <2>2. \A k \in Host : pick'[k] = "hdel" /\ held'[k] # 0 => AuthorOf[held'[k]] = member'[k]
    BY <1>1, <1>2 DEF FunnelIInv, Kept, Others
  <2> QED
    BY <1>1, <2>1, <2>2 DEF FunnelIInv, Kept, Answered
<1>7. ASSUME NEW s \in Person \ crossed' PROVE Steady(s)'
  <2>1. Steady(s)
    BY <1>1 DEF FunnelIInv
  <2>2. \A k \in Host : pick'[k] = "hdel" /\ member'[k] = s => held'[k] = payload'[s]
    BY <2>1, <1>1, <1>2 DEF Steady, Others
  <2> QED
    BY <2>1, <2>2, <1>1 DEF Steady, InHand
<1>8. ASSUME NEW m \in Message, AuthorOf[m] \notin crossed' PROVE Once(m)'
  <2>1. Once(m)
    BY <1>1, <1>8 DEF FunnelIInv
  <2>2. \A k \in Host : Deciding(k)' => Deciding(k) /\ held'[k] = held[k]
    BY <1>2 DEF Deciding, Others
  <2> QED
    BY <2>1, <2>2, <1>1 DEF Once, Claimed
<1> QED
  BY <1>3, <1>4, <1>5, <1>6, <1>7, <1>8 DEF FunnelIInv

\* HDEL has deleted what the hash held of the member: the question is claimed.
LEMMA DeletedStep ==
  ASSUME FunnelIInv, NEW h \in Host, pick[h] = "hdel",
         payload' = [payload EXCEPT ![member[h]] = 0],
         AfterClaim(h, members[h], IF held[h] = 0 THEN claimed[h] ELSE claimed[h] \cup {held[h]}),
         moot' = IF held[h] # 0 /\ Answered(held[h]) THEN moot \cup {held[h]} ELSE moot,
         UNCHANGED <<room, asking, waiting, ripe, meter, woken, waited, crossed, faults>>
  PROVE  FunnelIInv'
<1> DEFINE got == IF held[h] = 0 THEN claimed[h] ELSE claimed[h] \cup {held[h]}
           p == member[h]
<1>a. /\ FunnelTyped /\ "none" \notin Person /\ 0 \notin Message
      /\ \A k \in Host : member[k] # "none" <=> pick[k] \in {"hget", "hdel"}
  BY FunnelShapes
<1>1. UNCHANGED <<room, asking, waiting, ripe, rate, expiring, woken, waited, crossed, faults>>
  BY DEF meter
<1>2. /\ PicksTyped' /\ Others(h) /\ members'[h] = members[h]
      /\ pick'[h] = IF members'[h] # {} THEN "zrem" ELSE IF claimed'[h] # {} THEN "read" ELSE "rest"
      /\ member'[h] = "none" /\ held'[h] = 0 /\ claimed'[h] = got
  <2>1. members[h] \in SUBSET Person /\ got \in SUBSET Message
    BY <1>a DEF FunnelTyped
  <2> QED
    BY <1>a, <2>1, AfterClaimSays
<1>b. p \in Person /\ claimed[h] \subseteq got /\ (\A m \in got : m \in claimed[h] \/ m = held[h])
  BY <1>a DEF FunnelTyped
<1> HIDE DEF got, p
<1>c. /\ payload' \in [Person -> {0} \cup Message] /\ payload'[p] = 0
      /\ \A s \in Person \ {p} : payload'[s] = payload[s]
  BY <1>a, <1>b DEF FunnelTyped, p
<1>d. moot' \subseteq Message /\ (\A m \in moot' : m \in moot \/ (m = held[h] /\ m # 0 /\ Answered(m)))
  BY <1>a DEF FunnelIInv, FunnelTypeOK, FunnelTyped
<1>3. FaultsOK' /\ HourIsOver'
  BY <1>1, <1>2, HourStays
<1>4. FunnelTyped'
  BY <1>a, <1>1, <1>2, <1>c DEF FunnelTyped, PicksTyped
<1>5. FunnelTypeOK'
  <2>1. \A k \in Host :
          /\ member'[k] # "none" <=> pick'[k] \in {"hget", "hdel"}
          /\ pick'[k] \in {"read", "incr", "expire", "judge", "publish"} => members'[k] = {} /\ claimed'[k] # {}
    BY <1>2 DEF FunnelIInv, FunnelTypeOK, Others
  <2> QED
    BY <1>1, <1>4, <1>d, <2>1 DEF FunnelIInv, FunnelTypeOK, FunnelTyped
<1>6. Kept'
  <2>1. \A k \in Host : Deciding(k)' => k # h /\ Deciding(k)
    BY <1>2 DEF Deciding, Others
  <2>2. \A s \in Person : payload'[s] # 0 => payload'[s] = payload[s]
    BY <1>c
  <2>3. \A m \in moot' : Answered(m)'
    BY <1>1, <1>d DEF FunnelIInv, Kept, Answered
  <2> QED
    BY <1>1, <1>2, <2>1, <2>2, <2>3 DEF FunnelIInv, Kept, Others
<1>7. ASSUME NEW s \in Person \ crossed' PROVE Steady(s)'
  <2>1. Steady(s)
    BY <1>1 DEF FunnelIInv
  <2>2. InHand(s)' => InHand(s)
    BY <1>2, <1>a DEF InHand, Others
  <2>3. \A k \in Host : member'[k] = s => k # h /\ member[k] = s /\ s # p
    BY <1>2, <1>a, <2>1 DEF Others, Steady, p
  <2>4. \A k \in Host : s \in members'[k] => s \in members[k]
    BY <1>2 DEF Others
  <2>5. \A k \in Host : pick'[k] = "hdel" => pick[k] = "hdel" /\ held'[k] = held[k]
    BY <1>2 DEF Others
  <2>6. payload'[s] = payload[s] \/ (s = p /\ payload'[s] = 0)
    BY <1>c
  <2> QED
    BY <2>1, <2>2, <2>3, <2>4, <2>5, <2>6, <1>1 DEF Steady
<1>8. ASSUME NEW m \in Message, AuthorOf[m] \notin crossed' PROVE Once(m)'
  <2>1. Once(m) /\ m # 0 /\ AuthorOf[m] \in Person
    BY <1>1, <1>8, FunnelShapes DEF FunnelIInv
  <2>2. \A k \in Host : Deciding(k)' => k # h /\ Deciding(k) /\ held'[k] = held[k] /\ Claimed(held[k])
    BY <1>2 DEF Deciding, Others, FunnelIInv, Kept, Claimed
  <2>3. \A k \in Host \ {h} : claimed'[k] = claimed[k]
    BY <1>2 DEF Others
  <2>4. CASE m = held[h]
    <3>1. AuthorOf[m] = p /\ payload[p] = m /\ m \in waited /\ Steady(p)
      <4>1. AuthorOf[m] = p
        BY <2>1, <2>4 DEF FunnelIInv, Kept, p
      <4>2. Steady(p)
        BY <4>1, <1>1, <1>8, <2>1 DEF FunnelIInv
      <4> QED
        BY <4>1, <4>2, <2>1, <2>4 DEF Steady, p
    <3>2. ~Claimed(m) /\ asking[m] \in {"zadd", "out"}
      BY <2>1, <3>1 DEF Once, FunnelIInv, Kept
    <3>3. woken[m] = 0 /\ (\A k \in Host : m \notin claimed[k])
      BY <3>2, <1>a DEF Claimed, FunnelTyped
    <3>4. \A k \in Host : Deciding(k)' => held'[k] # m
      BY <2>2, <3>2
    <3>5. \A k \in Host : m \in claimed'[k] => k = h
      BY <2>3, <3>3
    <3> QED
      BY <2>1, <3>1, <3>2, <3>3, <3>4, <3>5, <1>1, <1>c DEF Once
  <2>5. CASE m # held[h]
    <3>1. \A k \in Host : m \in claimed'[k] => m \in claimed[k]
      BY <2>3, <2>5, <1>2, <1>b
    <3>2. m \in moot' => m \in moot
      BY <2>5, <1>d
    <3>3. Claimed(m)' => Claimed(m)
      BY <3>1, <1>1 DEF Claimed
    <3>4. payload'[AuthorOf[m]] \in {payload[AuthorOf[m]], 0}
      BY <2>1, <1>c
    <3> QED
      BY <2>1, <2>2, <3>1, <3>2, <3>3, <3>4, <1>1 DEF Once
  <2> QED
    BY <2>4, <2>5
<1> QED
  BY <1>3, <1>4, <1>5, <1>6, <1>7, <1>8 DEF FunnelIInv

\* A question that a process has claimed: it goes on with it or leaves it, and wakes
\* the agent at most as it leaves it.
LEMMA PickStep ==
  ASSUME FunnelIInv, NEW h \in Host, NEW m \in claimed[h],
         \/ pick[h] = "read"
         \/ Deciding(h) /\ held[h] = m,
         \/ Leave(h, m)
         \/ /\ \E where \in {"incr", "expire", "judge", "publish"} : PickAt(h, m, where)
            /\ Deciding(h) \/ ~Answered(m)
            /\ UNCHANGED woken,
         \/ UNCHANGED woken
         \/ Deciding(h) /\ woken' = [woken EXCEPT ![m] = @ + 1],
         UNCHANGED <<room, asking, redis, noticed>>,
         FaultsOK', HourIsOver', rate' \in Nat, expiring' \in BOOLEAN
  PROVE  FunnelIInv'
<1>a. /\ FunnelTyped /\ "none" \notin Person /\ 0 \notin Message /\ m \in Message
      /\ \A k \in Host : member[k] # "none" <=> pick[k] \in {"hget", "hdel"}
      /\ members[h] = {} /\ claimed[h] # {}
  BY FunnelShapes DEF Deciding, FunnelTyped
<1>1. UNCHANGED <<room, asking, payload, waiting, ripe, moot, waited, crossed>>
  BY DEF redis, noticed
<1>2. /\ PicksTyped' /\ Others(h) /\ members'[h] = members[h] /\ member'[h] = member[h]
      /\ \/ /\ pick'[h] = (IF claimed[h] = {m} THEN "rest" ELSE "read")
            /\ held'[h] = 0 /\ claimed'[h] = claimed[h] \ {m}
         \/ /\ pick'[h] \in {"incr", "expire", "judge", "publish"}
            /\ held'[h] = m /\ claimed'[h] = claimed[h]
            /\ Deciding(h) \/ ~Answered(m)
            /\ UNCHANGED woken
  <2>1. CASE Leave(h, m)
    BY <1>a, <2>1, LeaveSays
  <2>2. ASSUME NEW where \in {"incr", "expire", "judge", "publish"}, PickAt(h, m, where)
        PROVE  /\ PicksTyped' /\ Others(h) /\ members'[h] = members[h] /\ member'[h] = member[h]
               /\ pick'[h] = where /\ held'[h] = m /\ claimed'[h] = claimed[h]
    BY <1>a, <2>2, PickAtSays
  <2> QED
    BY <2>1, <2>2
<1>b. member[h] = "none" /\ pick[h] # "hdel" /\ pick'[h] \notin {"hget", "hdel"}
  BY <1>a, <1>2 DEF Deciding
<1>c. /\ woken' \in [Message -> Nat]
      /\ \A k \in Message \ {m} : woken'[k] = woken[k]
      /\ woken'[m] = woken[m] \/ (Deciding(h) /\ woken'[m] = woken[m] + 1 /\ claimed'[h] = claimed[h] \ {m})
      /\ woken[m] \in Nat
  BY <1>a, <1>2, LeaveSays DEF FunnelTyped
<1>3. FunnelTyped'
  BY <1>a, <1>1, <1>2, <1>c DEF FunnelTyped, PicksTyped
<1>4. FunnelTypeOK'
  <2>1. \A k \in Host :
          /\ member'[k] # "none" <=> pick'[k] \in {"hget", "hdel"}
          /\ pick'[k] \in {"read", "incr", "expire", "judge", "publish"} => members'[k] = {} /\ claimed'[k] # {}
    BY <1>2, <1>a, <1>b DEF FunnelIInv, FunnelTypeOK, Others
  <2> QED
    BY <1>1, <1>3, <2>1 DEF FunnelIInv, FunnelTypeOK, FunnelTyped
<1>5. Kept'
  <2>1. \A k \in Host : Deciding(k)' => held'[k] \in claimed'[k]
    <3>1. \A k \in Host \ {h} : Deciding(k)' => Deciding(k)
      BY <1>2 DEF Deciding, Others
    <3> QED
      BY <1>2, <3>1 DEF Deciding, Others, FunnelIInv, Kept
  <2>2. \A k \in Host : pick'[k] = "hdel" =>
          pick[k] = "hdel" /\ held'[k] = held[k] /\ member'[k] = member[k]
    BY <1>2, <1>b DEF Others
  <2> QED
    BY <1>1, <2>1, <2>2 DEF FunnelIInv, Kept, Answered
<1>6. ASSUME NEW s \in Person \ crossed' PROVE Steady(s)'
  <2>1. Steady(s)
    BY <1>1 DEF FunnelIInv
  <2>2. \A k \in Host : member'[k] = member[k] /\ members'[k] = members[k]
    BY <1>2 DEF Others
  <2>3. \A k \in Host : pick'[k] = "hdel" => pick[k] = "hdel" /\ held'[k] = held[k]
    BY <1>2, <1>b DEF Others
  <2>4. InHand(s)' => InHand(s)
    BY <2>2 DEF InHand
  <2> QED
    BY <2>1, <2>2, <2>3, <2>4, <1>1 DEF Steady
<1>7. ASSUME NEW n \in Message, AuthorOf[n] \notin crossed' PROVE Once(n)'
  <2>1. Once(n)
    BY <1>1, <1>7 DEF FunnelIInv
  <2>2. \A k \in Host : claimed'[k] \subseteq claimed[k]
    BY <1>2 DEF Others
  <2>3. \A k \in Host \ {h} : Deciding(k)' => Deciding(k) /\ held'[k] = held[k]
    BY <1>2 DEF Deciding, Others
  <2>4. Deciding(h)' /\ held'[h] = n => n = m /\ ((Deciding(h) /\ held[h] = n) \/ ~Answered(n))
    BY <1>2 DEF Deciding
  <2>5. \A k \in Host : Deciding(k)' /\ held'[k] = n => n \notin moot
    BY <2>1, <2>3, <2>4 DEF Once, FunnelIInv, Kept
  <2>6. Claimed(n)' => Claimed(n)
    BY <2>2, <1>c DEF Claimed
  <2>7. CASE woken'[n] = woken[n]
    BY <2>1, <2>2, <2>5, <2>6, <2>7, <1>1 DEF Once
  <2>8. CASE woken'[n] # woken[n]
    <3>1. n = m /\ Deciding(h) /\ woken'[m] = woken[m] + 1 /\ claimed'[h] = claimed[h] \ {m}
      BY <2>8, <1>c
    <3>2. woken[n] = 0 /\ (\A k \in Host : n \in claimed[k] => k = h)
      BY <2>1, <3>1 DEF Once
    <3>3. \A k \in Host : n \notin claimed'[k]
      BY <2>2, <3>1, <3>2
    <3>4. held[h] = n /\ n \notin moot
      BY <2>1, <3>1 DEF Once, Deciding
    <3>5. woken'[n] <= 1
      BY <3>1, <3>2
    <3> QED
      BY <2>1, <2>5, <2>6, <3>3, <3>4, <3>5, <1>1 DEF Once
  <2> QED
    BY <2>7, <2>8
<1> QED
  BY <1>3, <1>4, <1>5, <1>6, <1>7 DEF FunnelIInv

LEMMA ClaimStep ==
  ASSUME FunnelIInv, NEW h \in Host, ClaimDue(h)
  PROVE  FunnelIInv'
<1>1. CASE StartTick(h)
  BY <1>1, StartTickStep
<1>2. CASE Zrem(h)
  <2>1. PICK p \in members[h] :
          \/ /\ p \in waiting
             /\ waiting' = waiting \ {p} /\ ripe' = ripe \ {p}
             /\ pick' = [pick EXCEPT ![h] = "hget"]
             /\ member' = [member EXCEPT ![h] = p]
             /\ members' = [members EXCEPT ![h] = members[h] \ {p}]
             /\ UNCHANGED <<held, claimed, faults>>
          \/ /\ p \notin waiting /\ AfterClaim(h, members[h] \ {p}, claimed[h])
             /\ UNCHANGED <<waiting, ripe, faults>>
          \/ /\ Fault /\ EndTick(h)
             /\ waiting' \in {waiting, waiting \ {p}} /\ ripe' = ripe \cap waiting'
    BY <1>2 DEF Zrem
  <2>2. pick[h] = "zrem" /\ UNCHANGED <<room, asking, payload, meter, woken, noticed>>
    BY <1>2 DEF Zrem
  <2>3. CASE /\ p \in waiting
             /\ waiting' = waiting \ {p} /\ ripe' = ripe \ {p}
             /\ pick' = [pick EXCEPT ![h] = "hget"]
             /\ member' = [member EXCEPT ![h] = p]
             /\ members' = [members EXCEPT ![h] = members[h] \ {p}]
             /\ UNCHANGED <<held, claimed, faults>>
    BY <2>2, <2>3, RemovedStep
  <2>4. CASE AfterClaim(h, members[h] \ {p}, claimed[h]) /\ UNCHANGED <<waiting, ripe, faults>>
    BY <2>2, <2>4, MissedStep
  <2>5. CASE /\ Fault /\ EndTick(h)
             /\ waiting' \in {waiting, waiting \ {p}} /\ ripe' = ripe \cap waiting'
    <3>1. UNCHANGED <<room, asking, rate, expiring, woken, waited, crossed, payload, moot>>
      BY <2>2 DEF meter, noticed
    <3>2. waiting' \subseteq waiting
      BY <2>5
    <3> QED
      BY <2>5, <3>1, <3>2, DropStep
  <2> QED
    BY <2>1, <2>3, <2>4, <2>5
<1>3. CASE Hget(h)
  <2>1. pick[h] = "hget" /\ UNCHANGED <<room, asking, redis, meter, woken, noticed>>
    BY <1>3 DEF Hget
  <2>2. CASE /\ held' = [held EXCEPT ![h] = payload[member[h]]]
             /\ pick' = [pick EXCEPT ![h] = "hdel"]
             /\ UNCHANGED <<members, member, claimed, faults>>
    BY <2>1, <2>2, ReadHashStep
  <2>3. CASE Fault /\ EndTick(h)
    <3>1. UNCHANGED <<room, asking, rate, expiring, woken, waited, crossed, payload, moot, waiting, ripe>>
      BY <2>1 DEF meter, noticed, redis
    <3>2. waiting' \subseteq waiting /\ ripe' = ripe \cap waiting'
      BY <3>1, FunnelShapes
    <3> QED
      BY <2>3, <3>1, <3>2, DropStep
  <2> QED
    BY <1>3, <2>2, <2>3 DEF Hget
<1>4. CASE Hdel(h)
  <2>1. /\ pick[h] = "hdel"
        /\ moot' = IF held[h] # 0 /\ Answered(held[h]) THEN moot \cup {held[h]} ELSE moot
        /\ UNCHANGED <<room, asking, waiting, ripe, meter, woken, waited, crossed>>
    BY <1>4 DEF Hdel
  <2>2. CASE /\ payload' = [payload EXCEPT ![member[h]] = 0]
             /\ AfterClaim(h, members[h], IF held[h] = 0 THEN claimed[h] ELSE claimed[h] \cup {held[h]})
             /\ UNCHANGED faults
    BY <2>1, <2>2, DeletedStep
  <2>3. CASE /\ Fault /\ payload' \in {payload, [payload EXCEPT ![member[h]] = 0]}
             /\ EndTick(h)
    <3>1. UNCHANGED <<room, asking, rate, expiring, woken, waited, crossed, waiting, ripe>>
      BY <2>1 DEF meter
    <3>2. waiting' \subseteq waiting /\ ripe' = ripe \cap waiting'
      BY <3>1, FunnelShapes
    <3> QED
      BY <2>1, <2>3, <3>1, <3>2, DropStep
  <2> QED
    BY <1>4, <2>2, <2>3 DEF Hdel
<1> QED
  BY <1>1, <1>2, <1>3, <1>4 DEF ClaimDue

\* What one claimed question leaves of the hour.
LEMMA DecidingOn ==
  ASSUME FunnelIInv, NEW h \in Host, Deciding(h)
  PROVE  held[h] \in claimed[h] /\ rate \in Nat /\ expiring \in BOOLEAN
BY FunnelShapes DEF FunnelIInv, Kept, FunnelTypeOK

LEMMA PickOthers ==
  ASSUME FunnelIInv, NEW h \in Host, NEW m \in Message,
         \/ Leave(h, m)
         \/ \E where \in {"incr", "expire", "judge", "publish"} : PickAt(h, m, where)
  PROVE  Others(h)
BY FunnelShapes, LeaveSays, PickAtSays

LEMMA PickUpStep ==
  ASSUME FunnelIInv, NEW h \in Host, PickUp(h)
  PROVE  FunnelIInv'
<1>a. FunnelTyped /\ rate \in Nat /\ expiring \in BOOLEAN
  BY FunnelShapes DEF FunnelIInv, FunnelTypeOK
<1>b. UNCHANGED faults \/ Fault
  BY DEF PickUp, ReadRoom, Incr, SetHour, Judge, Wake
<1>c. FaultsOK' /\ (faults > 0 => faults' > 0) /\ (Fault => faults' > 0)
  BY <1>b, FaultCount, PlatformAssumption DEF FunnelIInv, FaultsOK, Fault
<1>1. CASE ReadRoom(h)
  <2>1. /\ pick[h] = "read"
        /\ UNCHANGED <<room, asking, redis, meter, woken, noticed>>
    BY <1>1 DEF ReadRoom
  <2>2. PICK m \in claimed[h] : (~Answered(m) /\ PickAt(h, m, "incr")) \/ Leave(h, m)
    BY <1>1 DEF ReadRoom
  <2>3. UNCHANGED <<rate, expiring>> /\ m \in Message
    BY <1>a, <2>1 DEF meter, FunnelTyped
  <2>4. Others(h)
    BY <2>2, <2>3, PickOthers
  <2>5. HourIsOver'
    BY <1>b, <2>1, <2>3, <2>4, HourStays
  <2>6. rate' \in Nat /\ expiring' \in BOOLEAN
    BY <1>a, <2>3
  <2> QED
    BY <1>c, <2>1, <2>2, <2>5, <2>6, PickStep
<1>2. CASE Incr(h)
  <2> DEFINE m == held[h]
  <2>1. pick[h] = "incr" /\ UNCHANGED <<room, asking, redis, expiring, woken, noticed>>
    BY <1>2 DEF Incr
  <2>2. Deciding(h) /\ m \in claimed[h] /\ m \in Message
    BY <1>a, <2>1, DecidingOn DEF Deciding, FunnelTyped
  <2>3. \/ rate' = rate + 1 /\ rate' = 1 /\ PickAt(h, m, "expire")
        \/ rate' = rate + 1 /\ rate' # 1 /\ (PickAt(h, m, "judge") \/ Leave(h, m))
        \/ Fault /\ rate' \in {rate, rate + 1} /\ Leave(h, m)
    BY <1>2 DEF Incr, FirstOfHour
  <2> HIDE DEF m
  <2>4. rate' \in Nat /\ expiring' \in BOOLEAN
    BY <1>a, <2>1, <2>3
  <2>5. PickAt(h, m, "expire") \/ PickAt(h, m, "judge") \/ Leave(h, m)
    BY <2>3
  <2>6. Others(h)
    BY <2>2, <2>5, PickOthers
  <2>7. HourIsOver'
    <3>1. CASE Fault
      BY <1>c, <3>1 DEF HourIsOver
    <3>2. CASE PickAt(h, m, "expire")
      <4>1. pick'[h] = "expire"
        BY <1>a, <2>2, <3>2, PickAtSays
      <4> QED
        BY <4>1 DEF HourIsOver
    <3>3. CASE rate' = rate + 1 /\ rate' # 1
      <4>1. rate > 0
        BY <1>a, <3>3
      <4>2. \A k \in Host : pick[k] = "expire" => pick'[k] = "expire"
        BY <2>1, <2>6 DEF Others
      <4> QED
        BY <1>c, <2>1, <4>1, <4>2 DEF FunnelIInv, HourIsOver
    <3> QED
      BY <2>3, <3>1, <3>2, <3>3
  <2>8. PickAt(h, m, "expire") \/ PickAt(h, m, "judge") =>
          \E where \in {"incr", "expire", "judge", "publish"} : PickAt(h, m, where)
    OBVIOUS
  <2>9. Deciding(h) /\ held[h] = m
    BY <2>2 DEF m
  <2> QED
    BY <1>c, <2>1, <2>2, <2>4, <2>5, <2>7, <2>8, <2>9, PickStep
<1>3. CASE SetHour(h)
  <2> DEFINE m == held[h]
  <2>1. pick[h] = "expire" /\ UNCHANGED <<room, asking, redis, rate, woken, noticed>>
    BY <1>3 DEF SetHour
  <2>2. Deciding(h) /\ m \in claimed[h] /\ m \in Message
    BY <1>a, <2>1, DecidingOn DEF Deciding, FunnelTyped
  <2>3. /\ expiring' = (rate > 0) \/ (Fault /\ expiring' \in {expiring, rate > 0})
        /\ PickAt(h, m, "judge") \/ Leave(h, m)
    BY <1>3 DEF SetHour
  <2> HIDE DEF m
  <2>a. (rate > 0) \in BOOLEAN
    OBVIOUS
  <2>b. expiring' = (rate > 0) \/ expiring' = expiring
    BY <2>3
  <2>c. expiring' \in BOOLEAN
    BY <1>a, <2>a, <2>b, Zenon
  <2>4. rate' \in Nat /\ expiring' \in BOOLEAN
    BY <1>a, <2>1, <2>c
  <2>5. HourIsOver'
    BY <1>c, <2>1, <2>3 DEF HourIsOver
  <2>6. PickAt(h, m, "judge") =>
          \E where \in {"incr", "expire", "judge", "publish"} : PickAt(h, m, where)
    OBVIOUS
  <2>7. Deciding(h) /\ held[h] = m
    BY <2>2 DEF m
  <2> QED
    BY <1>c, <2>1, <2>2, <2>3, <2>4, <2>5, <2>6, <2>7, PickStep
<1>4. CASE Judge(h)
  <2> DEFINE m == held[h]
  <2>1. pick[h] = "judge" /\ UNCHANGED <<room, asking, redis, meter, woken, noticed>>
    BY <1>4 DEF Judge
  <2>2. Deciding(h) /\ m \in claimed[h] /\ m \in Message
    BY <1>a, <2>1, DecidingOn DEF Deciding, FunnelTyped
  <2>3. PickAt(h, m, "publish") \/ Leave(h, m)
    BY <1>4 DEF Judge
  <2> HIDE DEF m
  <2>4. UNCHANGED <<rate, expiring>> /\ rate' \in Nat /\ expiring' \in BOOLEAN
    BY <1>a, <2>1 DEF meter
  <2>5. HourIsOver'
    <3>1. Others(h)
      BY <2>2, <2>3, PickOthers
    <3> QED
      BY <1>b, <2>1, <2>4, <3>1, HourStays
  <2>6. PickAt(h, m, "publish") =>
          \E where \in {"incr", "expire", "judge", "publish"} : PickAt(h, m, where)
    OBVIOUS
  <2>7. Deciding(h) /\ held[h] = m
    BY <2>2 DEF m
  <2> QED
    BY <1>c, <2>1, <2>2, <2>3, <2>4, <2>5, <2>6, <2>7, PickStep
<1>5. CASE Wake(h)
  <2> DEFINE m == held[h]
  <2>1. pick[h] = "publish" /\ UNCHANGED <<room, asking, redis, meter, noticed>>
    BY <1>5 DEF Wake
  <2>2. Deciding(h) /\ m \in claimed[h] /\ m \in Message
    BY <1>a, <2>1, DecidingOn DEF Deciding, FunnelTyped
  <2>3. /\ UNCHANGED woken \/ woken' = [woken EXCEPT ![m] = @ + 1]
        /\ Leave(h, m)
    BY <1>5 DEF Wake
  <2> HIDE DEF m
  <2>4. UNCHANGED <<rate, expiring>> /\ rate' \in Nat /\ expiring' \in BOOLEAN
    BY <1>a, <2>1 DEF meter
  <2>5. HourIsOver'
    <3>1. Others(h)
      BY <2>2, <2>3, PickOthers
    <3> QED
      BY <1>b, <2>1, <2>4, <3>1, HourStays
  <2>6. Deciding(h) /\ held[h] = m
    BY <2>2 DEF m
  <2> QED
    BY <1>c, <2>1, <2>2, <2>3, <2>4, <2>5, <2>6, PickStep
<1> QED
  BY <1>1, <1>2, <1>3, <1>4, <1>5 DEF PickUp

LEMMA DieInTickStep ==
  ASSUME FunnelIInv, NEW h \in Host, DieInTick(h)
  PROVE  FunnelIInv'
<1>1. /\ Fault /\ EndTick(h)
      /\ UNCHANGED <<room, asking, rate, expiring, woken, waited, crossed, payload, moot, waiting, ripe>>
  BY DEF DieInTick, meter, noticed, redis
<1>2. waiting' \subseteq waiting /\ ripe' = ripe \cap waiting'
  BY <1>1, FunnelShapes
<1> QED
  BY <1>1, <1>2, DropStep

LEMMA HourEndsStep ==
  ASSUME FunnelIInv, HourEnds
  PROVE  FunnelIInv'
<1>1. /\ rate' = 0 /\ expiring' = FALSE
      /\ UNCHANGED <<room, asking, payload, waiting, ripe, woken, pick, members, member, held, claimed, moot,
                     waited, crossed, faults>>
  BY DEF HourEnds, redis, picks, noticed
<1>2. FaultsOK' /\ FunnelTyped' /\ FunnelTypeOK'
  BY <1>1 DEF FunnelIInv, FaultsOK, FunnelTyped, FunnelTypeOK
<1>3. HourIsOver'
  BY <1>1 DEF HourIsOver
<1>4. Kept'
  BY <1>1 DEF FunnelIInv, Kept, Answered, Deciding
<1>5. \A s \in Person \ crossed' : Steady(s)'
  BY <1>1 DEF FunnelIInv, Steady, InHand
<1>6. \A m \in Message : AuthorOf[m] \notin crossed' => Once(m)'
  BY <1>1 DEF FunnelIInv, Once, Claimed, Deciding
<1> QED
  BY <1>2, <1>3, <1>4, <1>5, <1>6 DEF FunnelIInv

LEMMA FunnelStep ==
  ASSUME FunnelIInv, [FunnelNext]_<<funnelVars, faults>>
  PROVE  FunnelIInv'
<1>1. CASE HourEnds
  BY <1>1, HourEndsStep
<1>2. ASSUME NEW m \in Message, Consider(m) PROVE FunnelIInv'
  BY <1>2, HearStep, VerifyStep, SetPayloadStep, SetDueStep DEF Consider
<1>3. ASSUME NEW s \in Person, Ripen(s) PROVE FunnelIInv'
  BY <1>3, RipenStep
<1>4. ASSUME NEW h \in Host, ClaimDue(h) \/ PickUp(h) \/ DieInTick(h) PROVE FunnelIInv'
  BY <1>4, ClaimStep, PickUpStep, DieInTickStep
<1>5. CASE UNCHANGED <<funnelVars, faults>>
  <2>1. UNCHANGED <<room, asking, payload, waiting, ripe, rate, expiring, woken, pick, members, member, held,
                    claimed, moot, waited, crossed, faults>>
    BY <1>5 DEF funnelVars, redis, meter, picks, noticed
  <2>2. FaultsOK' /\ FunnelTyped' /\ FunnelTypeOK' /\ HourIsOver'
    BY <2>1 DEF FunnelIInv, FaultsOK, FunnelTyped, FunnelTypeOK, HourIsOver
  <2>3. Kept'
    BY <2>1 DEF FunnelIInv, Kept, Answered, Deciding
  <2>4. \A s \in Person \ crossed' : Steady(s)'
    BY <2>1 DEF FunnelIInv, Steady, InHand
  <2>5. \A m \in Message : AuthorOf[m] \notin crossed' => Once(m)'
    BY <2>1 DEF FunnelIInv, Once, Claimed, Deciding
  <2> QED
    BY <2>2, <2>3, <2>4, <2>5 DEF FunnelIInv
<1> QED
  BY <1>1, <1>2, <1>3, <1>4, <1>5 DEF FunnelNext

(* FunnelInductive: for whoever does not ask in the middle of a claim, one   *)
(* process at a time holds their member, and the question it finds has left *)
(* the hash before another could find it (proactive/pending.ts).            *)
THEOREM FunnelInductive == FunnelSpec => []FunnelIInv
<1>1. FunnelInit /\ NoFault => FunnelIInv
  BY FunnelInitial
<1>2. FunnelIInv /\ [FunnelNext]_<<funnelVars, faults>> => FunnelIInv'
  BY FunnelStep
<1> QED
  BY <1>1, <1>2, PTL DEF FunnelSpec

(* FunnelTypeCorrect: a tick holds a member exactly while it claims it, and has   *)
(* claimed all it can before it picks up the first question.               *)
THEOREM FunnelTypeCorrect == FunnelSpec => []FunnelTypeOK
<1>1. FunnelIInv => FunnelTypeOK
  BY DEF FunnelIInv
<1> QED
  BY <1>1, FunnelInductive, PTL

(* QuestionsPickedOnce: for any number of processes, persons and questions,   *)
(* the agent is woken once for a question, after its own time and not when  *)
(* somebody had answered by its claim (pending.ts:4-9, poller.ts:68-73).     *)
THEOREM QuestionsPickedOnce == FunnelSpec => []PickedOnce
<1>1. ASSUME FunnelIInv, NEW m \in Message, AuthorOf[m] \notin crossed
      PROVE  woken[m] <= 1 /\ (woken[m] > 0 => m \in waited /\ m \notin moot)
  <2>1. Once(m)
    BY <1>1 DEF FunnelIInv
  <2> QED
    BY <2>1 DEF Once, Claimed
<1>2. FunnelIInv => PickedOnce
  BY <1>1 DEF PickedOnce
<1> QED
  BY <1>2, FunnelInductive, PTL

(* HourHasAnEnd: the counter of the hour has a TTL unless a command failed or *)
(* a process is about to set it (poller.ts:85-98).                         *)
THEOREM HourHasAnEnd == FunnelSpec => []HourIsOver
<1>1. FunnelIInv => HourIsOver
  BY DEF FunnelIInv
<1> QED
  BY <1>1, FunnelInductive, PTL

(* PickedAsJudged: the funnel and the judge it asks, which share no variable, *)
(* keep together what each promises: a question is picked up once and by a  *)
(* verdict, and no hour goes on for ever.                                  *)
THEOREM PickedAsJudged == FunnelSpec /\ VerdictSpec => []PickedRightly
<1>1. PickedOnce /\ HourIsOver /\ VerdictIsJudged => PickedRightly
  BY DEF PickedRightly
<1> QED
  BY <1>1, QuestionsPickedOnce, HourHasAnEnd, GatesAreJudged, PTL

-----------------------------------------------------------------------------
(* The jobs together                                                       *)

\* What holds of the part that runs. The judge spends no fault of the platform,
\* so that its invariant does not depend on which part that is.
Working ==
  /\ part = "scheduler" => SchedulerIInv
  /\ part = "digest" => DigestIInv
  /\ part = "funnel" => FunnelIInv
  /\ part = "lifecycle" => LifecycleIInv
  /\ part = "routing" => RoutingIInv

\* The types of the parts, those that do not run included.
Resting ==
  RowsTyped /\ RowsRelated /\ DigestTypeOK /\ FunnelTypeOK /\ LifecycleTypeOK /\ RoutingTypeOK

JobsIInv == FaultsOK /\ VerdictIInv /\ Working /\ Resting

LEMMA SchedulerRests ==
  ASSUME RowsTyped, RowsRelated, UNCHANGED schedulerVars
  PROVE  RowsTyped' /\ RowsRelated'
BY DEF schedulerVars, board, rounds, RowsTyped, RowsRelated

LEMMA DigestRests ==
  ASSUME DigestTypeOK, UNCHANGED digestVars
  PROVE  DigestTypeOK'
BY DEF digestVars, scans, reviews, store, DigestTypeOK

LEMMA FunnelRests ==
  ASSUME FunnelTypeOK, UNCHANGED funnelVars
  PROVE  FunnelTypeOK'
BY DEF funnelVars, redis, meter, picks, noticed, FunnelTypeOK

LEMMA LifecycleRests ==
  ASSUME LifecycleTypeOK, UNCHANGED lifecycleVars
  PROVE  LifecycleTypeOK'
BY DEF lifecycleVars, checks, services, LifecycleTypeOK

LEMMA RoutingRests ==
  ASSUME RoutingTypeOK, UNCHANGED routingVars
  PROVE  RoutingTypeOK'
BY DEF routingVars, journey, RoutingTypeOK

\* Where none is answered there is a configuration all the same, and a message.
LEMMA RoutingAtRest ==
  ASSUME RoutingIdle
  PROVE  RoutingInit
<1>1. (CHOOSE e \in Env : TRUE) \in Env
  BY RoutingAssumption
<1>2. (CHOOSE m \in Mail : TRUE) \in Mail
  <2>1. [channel |-> "zalo", chat |-> "direct", text |-> "talk", mention |-> "nobody", own |-> FALSE] \in Mail
    BY DEF Mail, Channel, ZaloChannel, Chat
  <2> QED
    BY <2>1
<1> QED
  BY <1>1, <1>2 DEF RoutingIdle, RoutingInit

LEMMA JobsInitial ==
  ASSUME Init
  PROVE  JobsIInv
<1>1. SchedulerInit /\ DigestInit /\ FunnelInit /\ LifecycleInit /\ NoFault /\ VerdictInit /\ RoutingInit
  BY RoutingAtRest DEF Init
<1>2. /\ SchedulerIInv /\ DigestIInv /\ FunnelIInv /\ LifecycleIInv /\ VerdictIInv /\ RoutingIInv
  BY <1>1, SchedulerInitial, DigestInitial, FunnelInitial, LifecycleInitial, VerdictInitial, RoutingInitial
<1> QED
  BY <1>2 DEF JobsIInv, Working, Resting, SchedulerIInv, DigestIInv, FunnelIInv, LifecycleIInv, RoutingIInv

LEMMA JobsStep ==
  ASSUME JobsIInv, [Next]_vars
  PROVE  JobsIInv'
<1>a. FaultsOK /\ VerdictIInv /\ Working /\ Resting
  BY DEF JobsIInv
\* The other parts rest.
<1>1. ASSUME UNCHANGED schedulerVars \/ (RowsTyped /\ RowsRelated)', UNCHANGED digestVars \/ DigestTypeOK',
             UNCHANGED funnelVars \/ FunnelTypeOK', UNCHANGED lifecycleVars \/ LifecycleTypeOK',
             UNCHANGED routingVars \/ RoutingTypeOK'
      PROVE  Resting'
  BY <1>a, <1>1, SchedulerRests, DigestRests, FunnelRests, LifecycleRests, RoutingRests DEF Resting
<1>2. ASSUME part = "scheduler", SchedulerNext, UNCHANGED part,
             UNCHANGED <<digestVars, funnelVars, lifecycleVars, routingVars, verdictVars>>
      PROVE  JobsIInv'
  <2>1. SchedulerIInv
    BY <1>a, <1>2 DEF Working
  <2>2. SchedulerIInv'
    BY <1>2, <2>1, SchedulerStep
  <2>3. (RowsTyped /\ RowsRelated)' /\ FaultsOK'
    BY <2>2 DEF SchedulerIInv
  <2>4. Resting'
    BY <1>2, <1>1, <2>3
  <2>5. VerdictIInv'
    BY <1>a, <1>2, VerdictStep
  <2> QED
    BY <1>2, <2>2, <2>3, <2>4, <2>5 DEF JobsIInv, Working
<1>3. ASSUME part = "digest", DigestNext, UNCHANGED part,
             UNCHANGED <<schedulerVars, funnelVars, lifecycleVars, routingVars, verdictVars>>
      PROVE  JobsIInv'
  <2>1. DigestIInv
    BY <1>a, <1>3 DEF Working
  <2>2. DigestIInv'
    BY <1>3, <2>1, DigestStep
  <2>3. DigestTypeOK' /\ FaultsOK'
    BY <2>2 DEF DigestIInv
  <2>4. Resting'
    BY <1>3, <1>1, <2>3
  <2>5. VerdictIInv'
    BY <1>a, <1>3, VerdictStep
  <2> QED
    BY <1>3, <2>2, <2>3, <2>4, <2>5 DEF JobsIInv, Working
<1>4. ASSUME part = "funnel", FunnelNext, UNCHANGED part,
             UNCHANGED <<schedulerVars, digestVars, lifecycleVars, routingVars, verdictVars>>
      PROVE  JobsIInv'
  <2>1. FunnelIInv
    BY <1>a, <1>4 DEF Working
  <2>2. FunnelIInv'
    BY <1>4, <2>1, FunnelStep
  <2>3. FunnelTypeOK' /\ FaultsOK'
    BY <2>2 DEF FunnelIInv
  <2>4. Resting'
    BY <1>4, <1>1, <2>3
  <2>5. VerdictIInv'
    BY <1>a, <1>4, VerdictStep
  <2> QED
    BY <1>4, <2>2, <2>3, <2>4, <2>5 DEF JobsIInv, Working
<1>5. ASSUME part = "lifecycle", LifecycleNext, UNCHANGED part,
             UNCHANGED <<schedulerVars, digestVars, funnelVars, routingVars, verdictVars>>
      PROVE  JobsIInv'
  <2>1. LifecycleIInv
    BY <1>a, <1>5 DEF Working
  <2>2. LifecycleIInv'
    BY <1>5, <2>1, LifecycleStep
  <2>3. LifecycleTypeOK' /\ FaultsOK'
    BY <2>2 DEF LifecycleIInv
  <2>4. Resting'
    BY <1>5, <1>1, <2>3
  <2>5. VerdictIInv'
    BY <1>a, <1>5, VerdictStep
  <2> QED
    BY <1>5, <2>2, <2>3, <2>4, <2>5 DEF JobsIInv, Working
<1>6. ASSUME part = "routing", RoutingNext, UNCHANGED part,
             UNCHANGED <<schedulerVars, digestVars, funnelVars, lifecycleVars, verdictVars>>
      PROVE  JobsIInv'
  <2>1. RoutingIInv
    BY <1>a, <1>6 DEF Working
  <2>2. RoutingIInv'
    BY <1>6, <2>1, RoutingStep
  <2>3. RoutingTypeOK' /\ FaultsOK'
    BY <2>2 DEF RoutingIInv
  <2>4. Resting'
    BY <1>6, <1>1, <2>3
  <2>5. VerdictIInv'
    BY <1>a, <1>6, VerdictStep
  <2> QED
    BY <1>6, <2>2, <2>3, <2>4, <2>5 DEF JobsIInv, Working
<1>7. ASSUME part = "judge", [VerdictNext]_verdictVars, UNCHANGED part,
             UNCHANGED <<schedulerVars, digestVars, funnelVars, lifecycleVars, routingVars, faults>>
      PROVE  JobsIInv'
  <2>1. VerdictIInv'
    BY <1>a, <1>7, VerdictStep
  <2>2. FaultsOK'
    BY <1>a, <1>7 DEF FaultsOK
  <2>3. Resting'
    BY <1>7, <1>1
  <2> QED
    BY <1>7, <2>1, <2>2, <2>3 DEF JobsIInv, Working
<1>8. CASE Next
  BY <1>8, <1>2, <1>3, <1>4, <1>5, <1>6, <1>7 DEF Next
<1>9. CASE UNCHANGED vars
  <2>1. UNCHANGED <<part, faults, schedulerVars, digestVars, funnelVars, lifecycleVars, routingVars, verdictVars>>
    BY <1>9 DEF vars
  <2>2. VerdictIInv'
    BY <1>a, <2>1, VerdictStep
  <2>3. FaultsOK'
    BY <1>a, <2>1 DEF FaultsOK
  <2>4. Resting'
    BY <1>1, <2>1
  <2>5. part = "scheduler" => SchedulerIInv'
    BY <1>a, <2>1, SchedulerStep DEF Working
  <2>6. part = "digest" => DigestIInv'
    BY <1>a, <2>1, DigestStep DEF Working
  <2>7. part = "funnel" => FunnelIInv'
    BY <1>a, <2>1, FunnelStep DEF Working
  <2>8. part = "lifecycle" => LifecycleIInv'
    BY <1>a, <2>1, LifecycleStep DEF Working
  <2>9. part = "routing" => RoutingIInv'
    BY <1>a, <2>1, RoutingStep DEF Working
  <2> QED
    BY <2>1, <2>2, <2>3, <2>4, <2>5, <2>6, <2>7, <2>8, <2>9 DEF JobsIInv, Working
<1> QED
  BY <1>8, <1>9

(* JobsInductive: whichever of the jobs runs, it keeps its own invariant,   *)
(* and the others keep their types (bootstrap/index.ts starts them all).    *)
THEOREM JobsInductive == Spec => []JobsIInv
<1>1. Init => JobsIInv
  BY JobsInitial
<1>2. JobsIInv /\ [Next]_vars => JobsIInv'
  BY JobsStep
<1> QED
  BY <1>1, <1>2, PTL DEF Spec

(* JobsKeepTypes: the variables of all six parts keep their types, the       *)
(* bounds of their counters included.                                      *)
THEOREM JobsKeepTypes == Spec => []TypeOK
<1>1. JobsIInv => TypeOK
  BY SchedulerTypes DEF JobsIInv, Resting, TypeOK, VerdictIInv
<1> QED
  BY <1>1, JobsInductive, PTL

=============================================================================
