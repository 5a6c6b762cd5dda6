------------------------------ MODULE Spending ------------------------------
(***************************************************************************)
(* What a room may spend on the model in a day (src/usage): every turn asks *)
(* the gate before it runs, and enters what it has spent when it is over.   *)
(* Postgres holds the ledger, a row for each message; Redis holds a counter *)
(* of the day, which a gate that misses it sums up anew from the ledger.    *)
(*                                                                         *)
(* One room, one day. The room's lock is that of a process: a process has   *)
(* one turn of the room at a time, two processes may have one each.         *)
(***************************************************************************)
EXTENDS Platform, Integers, FiniteSets

CONSTANTS
  Bill,       \* messages whose turns may cost something
  MaxRuns,    \* bound: deliveries of all messages
  MaxCost,    \* bound: cost of one turn
  Limit       \* the day's limit of the agent that serves the room

ASSUME SpendingAssumption ==
  /\ IsFiniteSet(Host) /\ IsFiniteSet(Bill) /\ "none" \notin Bill
  /\ MaxRuns \in Nat /\ MaxCost \in Nat \ {0} /\ Limit \in Nat \ {0}

VARIABLES
  ledger,    \* [Bill -> Nat]: cost_pico_usd in llm_usage_log, 0 without a row
  counter,   \* the Redis counter, -1 when the key is absent
  purse,     \* [Host -> where its turn is]
  bill,      \* [Host -> the Bill of its turn, or "none"]
  sum,       \* [Host -> Nat]: what the gate has read
  cost,      \* [Host -> Nat]: what the meter shows
  runs,      \* [Bill -> Nat]: deliveries
  spent,     \* history variable: what the model's provider has charged
  beside     \* history variable: turns that began while another one was on

purses       == <<purse, bill, sum, cost>>
spendingVars == <<ledger, counter, purses, runs, spent, beside>>

\* The sum of what f holds, at most top each, as the number of the units in it.
Amount(f, top) == Cardinality({u \in (DOMAIN f) \X (1..top) : u[2] <= f[u[1]]})

\* sumFromLedger's SUM.
Total == Amount(ledger, MaxCost)

(* SpendingTypeOK: the type invariant; a turn has spent something exactly   *)
(* when it has something to enter.                                         *)
SpendingTypeOK ==
  /\ ledger \in [Bill -> 0..MaxCost]
  /\ counter \in Nat \cup {-1}
  /\ purse \in [Host -> {"idle", "get", "sum", "set", "run", "insert", "incr", "expire"}]
  /\ bill \in [Host -> Bill \cup {"none"}]
  /\ sum \in [Host -> Nat] /\ cost \in [Host -> 0..MaxCost]
  /\ \A h \in Host :
       /\ bill[h] = "none" <=> purse[h] = "idle"
       /\ cost[h] > 0 <=> purse[h] \in {"insert", "incr", "expire"}
  /\ runs \in [Bill -> 0..MaxRuns]
  /\ spent \in Nat /\ beside \in Nat

SpendingInit ==
  /\ ledger = [b \in Bill |-> 0]
  /\ counter = -1
  /\ purse = [h \in Host |-> "idle"]
  /\ bill = [h \in Host |-> "none"]
  /\ sum = [h \in Host |-> 0]
  /\ cost = [h \in Host |-> 0]
  /\ runs = [b \in Bill |-> 0]
  /\ spent = 0 /\ beside = 0

-----------------------------------------------------------------------------
PurseAt(h, where) == purse' = [purse EXCEPT ![h] = where] /\ UNCHANGED <<bill, sum, cost>>

EndTurn(h) ==
  /\ purse' = [purse EXCEPT ![h] = "idle"]
  /\ bill' = [bill EXCEPT ![h] = "none"]
  /\ sum' = [sum EXCEPT ![h] = 0]
  /\ cost' = [cost EXCEPT ![h] = 0]

\* A delivery of the message comes to the gate. It may be a redelivery, after a
\* turn that failed or whose ack was lost.
BeginTurn(h, b) ==
  /\ purse[h] = "idle" /\ Amount(runs, MaxRuns) < MaxRuns
  /\ purse' = [purse EXCEPT ![h] = "get"]
  /\ bill' = [bill EXCEPT ![h] = b]
  /\ runs' = [runs EXCEPT ![b] = @ + 1]
  /\ beside' = IF \E g \in Host : purse[g] # "idle" THEN beside + 1 ELSE beside
  /\ UNCHANGED <<ledger, counter, sum, cost, spent, faults>>

\* Mutant of Gate: a total that has just reached the limit passes.
GateOffByOne(h, total) == IF total > Limit THEN EndTurn(h) ELSE PurseAt(h, "run")

\* checkDailyBudget: a turn that is over the limit ends with a notice.
Gate(h, total) == IF total >= Limit THEN EndTurn(h) ELSE PurseAt(h, "run")

\* spentTodayPicoUsd, GET.
GetCounter(h) ==
  /\ purse[h] = "get"
  /\ \/ counter # -1 /\ Gate(h, counter) /\ UNCHANGED faults
     \/ counter = -1 /\ PurseAt(h, "sum") /\ UNCHANGED faults
     \/ Fault /\ EndTurn(h)
  /\ UNCHANGED <<ledger, counter, runs, spent, beside>>

\* spentTodayPicoUsd, sumFromLedger.
SumLedger(h) ==
  /\ purse[h] = "sum"
  /\ \/ /\ sum' = [sum EXCEPT ![h] = Total]
        /\ purse' = [purse EXCEPT ![h] = "set"]
        /\ UNCHANGED <<bill, cost, faults>>
     \/ Fault /\ EndTurn(h)
  /\ UNCHANGED <<ledger, counter, runs, spent, beside>>

\* spentTodayPicoUsd, SET.
SetCounter(h) ==
  /\ purse[h] = "set"
  /\ \/ counter' = sum[h] /\ Gate(h, sum[h]) /\ UNCHANGED faults
     \/ Fault /\ counter' \in {counter, sum[h]} /\ EndTurn(h)
  /\ UNCHANGED <<ledger, runs, spent, beside>>

\* The turn calls the model, or ends before it does. Failed or not, it enters
\* its cost: recordUsage stands in a finally.
CallModel(h) ==
  /\ purse[h] = "run"
  /\ \/ EndTurn(h) /\ UNCHANGED spent
     \/ \E c \in 1..MaxCost :
          /\ spent' = spent + c
          /\ cost' = [cost EXCEPT ![h] = c]
          /\ purse' = [purse EXCEPT ![h] = "insert"]
          /\ UNCHANGED <<bill, sum>>
  /\ UNCHANGED <<ledger, counter, runs, beside, faults>>

\* record, INSERT ... ON CONFLICT (msg_id) DO NOTHING RETURNING id. A failure is
\* logged and swallowed by recordUsage.
InsertBill(h) ==
  LET b == bill[h]  entered == [ledger EXCEPT ![b] = cost[h]] IN
  /\ purse[h] = "insert"
  /\ \/ ledger[b] = 0 /\ ledger' = entered /\ PurseAt(h, "incr") /\ UNCHANGED faults
     \/ ledger[b] # 0 /\ EndTurn(h) /\ UNCHANGED <<ledger, faults>>
     \/ Fault /\ ledger' \in {ledger, IF ledger[b] = 0 THEN entered ELSE ledger} /\ EndTurn(h)
  /\ UNCHANGED <<counter, runs, spent, beside>>

\* What INCRBY makes of the counter: it creates one that is absent.
Increased(h) == (IF counter = -1 THEN 0 ELSE counter) + cost[h]

\* record, INCRBY. A counter that it has created still needs its EXPIRE.
IncrCounter(h) ==
  LET after == Increased(h) IN
  /\ purse[h] = "incr"
  /\ \/ counter' = after /\ UNCHANGED faults
        /\ IF after = cost[h] THEN PurseAt(h, "expire") ELSE EndTurn(h)
     \/ Fault /\ counter' \in {counter, after} /\ EndTurn(h)
  /\ UNCHANGED <<ledger, runs, spent, beside>>

\* record, EXPIRE. The key bears the day, so that one without a TTL is litter.
ExpireCounter(h) ==
  /\ purse[h] = "expire" /\ EndTurn(h)
  /\ UNCHANGED <<ledger, counter, runs, spent, beside, faults>>

\* Redis loses what it holds.
LoseCounter ==
  /\ counter # -1 /\ Fault /\ counter' = -1
  /\ UNCHANGED <<ledger, purses, runs, spent, beside>>

\* The process dies in its turn.
DieInTurn(h) ==
  /\ purse[h] # "idle" /\ Fault /\ EndTurn(h)
  /\ UNCHANGED <<ledger, counter, runs, spent, beside>>

-----------------------------------------------------------------------------
GateNext(h)   == GetCounter(h) \/ SumLedger(h) \/ SetCounter(h)
RecordNext(h) == InsertBill(h) \/ IncrCounter(h) \/ ExpireCounter(h)

SpendingNext ==
  \/ LoseCounter
  \/ \E h \in Host :
       \/ \E b \in Bill : BeginTurn(h, b)
       \/ GateNext(h) \/ CallModel(h) \/ RecordNext(h) \/ DieInTurn(h)

SpendingSpec == SpendingInit /\ NoFault /\ [][SpendingNext]_<<spendingVars, faults>>

-----------------------------------------------------------------------------
(* Properties                                                              *)

\* Deliveries of a message that another one has come before.
Again == Amount([b \in Bill |-> IF runs[b] = 0 THEN 0 ELSE runs[b] - 1], MaxRuns)

(* OverrunBound: a room overruns its limit by at most one turn (gate.ts:    *)
(* 5-6), and one more for each turn that ran beside another one in a       *)
(* second process, whose SET may hide what the other has entered, and for  *)
(* each redelivery, whose row ON CONFLICT drops. Nothing else is spent     *)
(* over the limit, and a counter that is missed is summed up anew.         *)
OverrunBound ==
  faults = 0 => spent <= Limit - 1 + MaxCost * (1 + beside + Again)
=============================================================================
