------------------------------ MODULE Scheduler ------------------------------
(***************************************************************************)
(* Jobs that run by the clock (src/scheduler): staff write them with /lich *)
(* in a room, a poller in every process claims those that are due by a     *)
(* compare-and-swap on next_run_at and fires each as a message of its room.*)
(*                                                                         *)
(* Time is counted in minutes, a day has Day of them, and a schedule is a  *)
(* time of the day, which is all that /lich can write: dailyCron.          *)
(* A mark is a minute; 0 stands for NULL. One room: a command reaches only *)
(* jobs of the room it is typed in.                                        *)
(***************************************************************************)
EXTENDS Platform, FiniteSets

CONSTANTS
  Job,             \* ids that crypto.randomUUID will give
  Day,             \* minutes of a day
  MaxClock,        \* bound on time
  MaxJobsPerGroup  \* MAX_JOBS_PER_GROUP

Schedule == 0..(Day - 1)

ASSUME SchedulerAssumption ==
  Day \in Nat \ {0} /\ MaxClock \in Nat /\ MaxJobsPerGroup \in Nat

VARIABLES
  clock,     \* minutes since the start
  job,       \* [Job -> Row]: scheduler_jobs
  checked,   \* jobs whose /lich has counted the others and not yet inserted
  seen,      \* dedupe: firings that firstSee has marked
  noted,     \* [Firing -> Nat]: entries in the history of the room
  fired,     \* [Firing -> Nat]: envelopes in the ingress queue
  ran,       \* [Firing -> Nat]: start of the tick that claimed it, 0 if none
  round,     \* [Host -> where its tick is]
  lot,       \* [Host -> SUBSET Item]: rows of the tick still to do
  due,       \* [Host -> the Item it is at, or <<>>]
  since,     \* [Host -> nowMs of its tick]
  raced      \* history variable: jobs whose mark was reset while a tick that
             \* had read next_run_at as NULL was still to claim them

Mark   == 1..(MaxClock + Day)
Row    == [state : {"none", "on", "off", "gone"}, at : Schedule, next : {0} \cup Mark]
Item   == Job \X Schedule \X ({0} \cup Mark)   \* id, schedule, next_run_at
Firing == Job \X Mark

board         == <<seen, noted, fired, ran>>
rounds        == <<round, lot, due, since>>
schedulerVars == <<clock, job, checked, board, rounds, raced>>

(* SchedulerTypeOK: the type invariant; a row that is not there has no      *)
(* mark, and a tick is at a row exactly between its claim and its end.     *)
SchedulerTypeOK ==
  /\ clock \in 0..MaxClock
  /\ job \in [Job -> Row]
  /\ \A j \in Job : job[j].state \in {"none", "gone"} => job[j].next = 0
  /\ checked \subseteq {j \in Job : job[j].state = "none"}
  /\ seen \subseteq Firing
  /\ noted \in [Firing -> Nat] /\ fired \in [Firing -> Nat]
  /\ ran \in [Firing -> 0..MaxClock]
  /\ round \in [Host -> {"rest", "claim", "see", "note", "publish"}]
  /\ \A h \in Host :
       /\ lot[h] \subseteq Item
       /\ due[h] \in Item \cup {<<>>}
       /\ due[h] # <<>> <=> round[h] \in {"see", "note", "publish"}
       /\ since[h] \in 0..clock
  /\ raced \subseteq Job

SchedulerInit ==
  /\ clock = 0
  /\ job = [j \in Job |-> [state |-> "none", at |-> 0, next |-> 0]]
  /\ checked = {}
  /\ seen = {}
  /\ noted = [f \in Firing |-> 0]
  /\ fired = [f \in Firing |-> 0]
  /\ ran = [f \in Firing |-> 0]
  /\ round = [h \in Host |-> "rest"]
  /\ lot = [h \in Host |-> {}]
  /\ due = [h \in Host |-> <<>>]
  /\ since = [h \in Host |-> 0]
  /\ raced = {}

-----------------------------------------------------------------------------
\* The first minute after t that a schedule names: at least one minute on.
NextRunAfter(at, t) == CHOOSE m \in (t + 1)..(t + Day) : m % Day = at

There(j)   == job[j].state \in {"on", "off"}
Enabled(j) == job[j].state = "on"

\* The clock of all hosts.
Minute ==
  /\ clock < MaxClock
  /\ clock' = clock + 1
  /\ UNCHANGED <<job, checked, board, rounds, raced, faults>>

-----------------------------------------------------------------------------
(* /lich (flash-command/commands/lich.ts) and the statements behind it.    *)

\* createJob: listByTarget, and no more than MAX_JOBS_PER_GROUP enabled ones.
CountJobs(j) ==
  /\ job[j].state = "none" /\ j \notin checked
  /\ Cardinality({k \in Job : Enabled(k)}) < MaxJobsPerGroup
  /\ checked' = checked \cup {j}
  /\ UNCHANGED <<clock, job, board, rounds, raced, faults>>

\* repo.create: next_run_at is left to the poller.
CreateJob(j) ==
  /\ j \in checked
  /\ \E at \in Schedule : job' = [job EXCEPT ![j] = [state |-> "on", at |-> at, next |-> 0]]
  /\ checked' = checked \ {j}
  /\ UNCHANGED <<clock, board, rounds, raced, faults>>

\* A tick has this row in hand with next_run_at NULL.
ReadUnscheduled(j) == \E h \in Host : \E item \in lot[h] : item[1] = j /\ item[3] = 0

Race(j) == raced' = IF ReadUnscheduled(j) THEN raced \cup {j} ELSE raced

\* editJob, repo.update with a schedule. An edit of the text alone leaves all
\* that is modelled here as it is.
UpdateJob(j) ==
  /\ There(j)
  /\ \E at \in Schedule : job' = [job EXCEPT ![j] = [state |-> @.state, at |-> at, next |-> 0]]
  /\ Race(j)
  /\ UNCHANGED <<clock, checked, board, rounds, faults>>

\* Mutant of ToggleJob: only switching on resets the mark.
ToggleKeepsMark(j) ==
  /\ There(j)
  /\ job' = [job EXCEPT ![j] = [state |-> IF @.state = "on" THEN "off" ELSE "on", at |-> @.at,
                                next |-> IF @.state = "on" THEN @.next ELSE 0]]
  /\ UNCHANGED <<clock, checked, board, rounds, raced, faults>>

\* toggleJob, repo.setEnabled.
ToggleJob(j) ==
  /\ There(j)
  /\ job' = [job EXCEPT ![j] = [state |-> IF @.state = "on" THEN "off" ELSE "on", at |-> @.at,
                                next |-> 0]]
  /\ Race(j)
  /\ UNCHANGED <<clock, checked, board, rounds, faults>>

\* removeJob, repo.remove.
RemoveJob(j) ==
  /\ There(j)
  /\ job' = [job EXCEPT ![j] = [state |-> "gone", at |-> @.at, next |-> 0]]
  /\ UNCHANGED <<clock, checked, board, rounds, raced, faults>>

-----------------------------------------------------------------------------
(* poller.ts and fire.ts.                                                  *)

\* repo.due at this minute. MAX_JOBS_PER_TICK is more than a room has.
DueRows == {<<j, job[j].at, job[j].next>> :
              j \in {k \in Job : Enabled(k) /\ job[k].next <= clock}}

\* tick: nowMs is taken once. Rounds of one host do not overlap.
StartRound(h) ==
  /\ round[h] = "rest" /\ DueRows # {}
  /\ round' = [round EXCEPT ![h] = "claim"]
  /\ lot' = [lot EXCEPT ![h] = DueRows]
  /\ since' = [since EXCEPT ![h] = clock]
  /\ UNCHANGED <<clock, job, checked, board, due, raced, faults>>

\* The next row of the round, or its end: errors are per job.
NextRow(h, rest) ==
  /\ round' = [round EXCEPT ![h] = IF rest = {} THEN "rest" ELSE "claim"]
  /\ lot' = [lot EXCEPT ![h] = rest]
  /\ due' = [due EXCEPT ![h] = <<>>]
  /\ since' = [since EXCEPT ![h] = IF rest = {} THEN 0 ELSE @]

StayAt(h, where) == round' = [round EXCEPT ![h] = where] /\ UNCHANGED <<lot, due, since>>

\* The WHERE of repo.claim: it asks for the mark, not for enabled.
Unclaimed(item) == There(item[1]) /\ job[item[1]].next = item[3]

\* runJob up to its claim. The next mark counts from the start of the tick; a
\* row without a mark gets its first and is not fired.
ClaimJob(h) ==
  \E item \in lot[h] :
    LET j == item[1]
        rest == lot[h] \ {item}
        next == NextRunAfter(item[2], since[h])
        Swapped == /\ job' = [job EXCEPT ![j] = [state |-> @.state, at |-> @.at, next |-> next]]
                   /\ ran' = IF item[3] = 0 THEN ran ELSE [ran EXCEPT ![<<j, item[3]>>] = since[h]]
    IN
    /\ round[h] = "claim"
    /\ \A other \in lot[h] : item[3] <= other[3]       \* NULLS FIRST, then by mark
    /\ \/ Unclaimed(item) /\ item[3] # 0 /\ Swapped /\ UNCHANGED faults
          /\ round' = [round EXCEPT ![h] = "see"]
          /\ lot' = [lot EXCEPT ![h] = rest]
          /\ due' = [due EXCEPT ![h] = item]
          /\ UNCHANGED since
       \/ Unclaimed(item) /\ item[3] = 0 /\ Swapped /\ NextRow(h, rest) /\ UNCHANGED faults
       \/ Unclaimed(item) /\ Fault /\ Swapped /\ NextRow(h, rest)         \* reply lost
       \/ ~Unclaimed(item) /\ NextRow(h, rest) /\ UNCHANGED <<job, ran, faults>>
    /\ UNCHANGED <<clock, checked, seen, noted, fired, raced>>

\* cronMsgId: the job and its mark, whoever fires it.
CronMsgId(h) == <<due[h][1], due[h][3]>>

\* Mutant of SeeFiring: no dedupe.
SeeFiringAlways(h) ==
  /\ round[h] = "see"
  /\ seen' = seen \cup {CronMsgId(h)}
  /\ StayAt(h, "note")
  /\ UNCHANGED <<clock, job, checked, noted, fired, ran, raced, faults>>

\* fireJob, firstSee. The notice to the room that follows is best effort and
\* leaves nothing behind here.
SeeFiring(h) ==
  LET f == CronMsgId(h)  marked == seen \cup {f} IN
  /\ round[h] = "see"
  /\ \/ f \notin seen /\ seen' = marked /\ StayAt(h, "note") /\ UNCHANGED faults
     \/ f \in seen /\ NextRow(h, lot[h]) /\ UNCHANGED <<seen, faults>>
     \/ Fault /\ seen' \in {seen, marked} /\ NextRow(h, lot[h])
  /\ UNCHANGED <<clock, job, checked, noted, fired, ran, raced>>

\* fireJob, history.append: the agent finds its work there.
NoteFiring(h) ==
  LET entered == [noted EXCEPT ![CronMsgId(h)] = @ + 1] IN
  /\ round[h] = "note"
  /\ \/ noted' = entered /\ StayAt(h, "publish") /\ UNCHANGED faults
     \/ Fault /\ noted' \in {noted, entered} /\ NextRow(h, lot[h])
  /\ UNCHANGED <<clock, job, checked, seen, fired, ran, raced>>

\* fireJob, broker.publish.
PublishFiring(h) ==
  LET queued == [fired EXCEPT ![CronMsgId(h)] = @ + 1] IN
  /\ round[h] = "publish"
  /\ \/ fired' = queued /\ UNCHANGED faults
     \/ Fault /\ fired' \in {fired, queued}
  /\ NextRow(h, lot[h])
  /\ UNCHANGED <<clock, job, checked, seen, noted, ran, raced>>

\* The process dies in its round. What it had claimed is not fired.
DieInRound(h) ==
  /\ round[h] # "rest" /\ Fault
  /\ NextRow(h, {})
  /\ UNCHANGED <<clock, job, checked, board, raced>>

-----------------------------------------------------------------------------
Lich(j)     == CountJobs(j) \/ CreateJob(j) \/ UpdateJob(j) \/ ToggleJob(j) \/ RemoveJob(j)
RoundNext(h) == StartRound(h) \/ ClaimJob(h) \/ SeeFiring(h) \/ NoteFiring(h) \/ PublishFiring(h)

SchedulerNext ==
  \/ Minute
  \/ \E j \in Job : Lich(j)
  \/ \E h \in Host : RoundNext(h) \/ DieInRound(h)

SchedulerSpec == SchedulerInit /\ NoFault /\ [][SchedulerNext]_<<schedulerVars, faults>>

-----------------------------------------------------------------------------
(* Properties                                                              *)

(* FiredOnce: a mark of a job reaches the room at most once and the queue   *)
(* at most once, however many processes tick, and never the queue without  *)
(* the history (repo.ts:3-5, fire.ts:4-9, poller.ts:3-6). Of two marks of  *)
(* one job, the later is after the start of the tick that made up for the  *)
(* earlier: a job that was down is fired once, not once per mark missed.   *)
FiredOnce ==
  /\ \A f \in Firing : noted[f] <= 1 /\ fired[f] <= noted[f]
  /\ \A f, g \in Firing :
       f[1] = g[1] /\ f[1] \notin raced /\ f[2] < g[2] /\ ran[f] > 0 /\ ran[g] > 0
         => ran[f] < g[2]

(* FiredAsPlanned: a firing is claimed only for a job that is switched on,  *)
(* and only at a mark of its present schedule, although the row was read   *)
(* some time before and the claim looks at next_run_at alone (types.ts:    *)
(* 91-92, 101-104). Excepted is a job whose mark was reset while a tick    *)
(* that had read it as unscheduled was under way: next_run_at is NULL      *)
(* before and after, and the compare-and-swap does not notice.             *)
FiredAsPlanned ==
  [][\A h \in Host :
       LET j == due'[h][1] IN
       round[h] = "claim" /\ round'[h] = "see" /\ j \notin raced
         => Enabled(j) /\ due'[h][3] % Day = job[j].at]_schedulerVars
=============================================================================
