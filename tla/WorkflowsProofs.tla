--------------------------- MODULE WorkflowsProofs ---------------------------
(***************************************************************************)
(* Theorems about Workflows, for every set of subjects, calls and pollers, *)
(* every deadline, any time and any number of faults.                      *)
(*                                                                         *)
(* One inductive invariant, IInv. Its parts follow the life of a row: who  *)
(* may dispatch its first ask (Owned), how the counter of its asks and the *)
(* mark of its next reminder keep the ids apart (Numbered, Claims), and    *)
(* who has closed it (Closed).                                             *)
(***************************************************************************)
EXTENDS Workflows, TLAPS

Caller == Asker \cup Answerer

\* What an opener does with a row that is its own.
Asking == {"see", "append", "publish", "asked"}

\* Every caller is somewhere, and a row without a request was never counted.
Steps ==
  /\ step \in [Caller -> OpenerStep \cup ReminderStep \cup AnswererStep]
  /\ \A s \in Subject : status[s] = "none" => askCount[s] = 0

\* An opener that asks has inserted the row, alone.
Owned ==
  /\ \A o \in Opener : step[o] \in Asking => status[SubjectOf[o]] # "none"
  /\ OneAsker

\* An ask id in use, or in hand, is one that the row has counted; while the ask is
\* still to be marked as seen, nobody else has its id.
Numbered ==
  /\ \A id \in seen : id[2] <= askCount[id[1]]
  /\ \A d \in Asker : step[d] = "see" => number[d] \in 1..askCount[Subj(d)]
  /\ \A d \in Asker : step[d] \in {"append", "publish"} => AskId(d) \in seen
  /\ FreshAsks

\* A reminder that is to be claimed holds a mark no later than the clock of its tick
\* and than the mark of the row, and knows the count if the two marks are one.
Claims ==
  \A r \in Reminder : step[r] = "claim" =>
    /\ 0 < expected[r] /\ expected[r] <= now[r[1]] /\ status[r[2]] # "none"
    /\ status[r[2]] = "Pending" =>
         /\ expected[r] <= remindAt[r[2]]
         /\ expected[r] = remindAt[r[2]] => number[r] = askCount[r[2]] + 1

\* A result is sent, or about to be, only of a request that was answered, and then by
\* one answerer.
Closed ==
  /\ \A s \in Subject : results[s] > 0 => status[s] = "Approved"
  /\ \A a \in Answerer : step[a] = "notify" =>
       /\ status[SubjectOf[a]] = "Approved" /\ results[SubjectOf[a]] = 0
       /\ \A b \in Answerer \ {a} : SubjectOf[b] = SubjectOf[a] => step[b] # "notify"

IInv == TypeOK /\ Steps /\ Owned /\ Numbered /\ Claims /\ Closed /\ ResultOnce /\ ToldOrRaised

-----------------------------------------------------------------------------
(* Calls and reminders                                                     *)

\* No call is of two kinds, and each knows its subject.
LEMMA Kinds ==
  /\ \A o \in Opener : /\ o \in Asker /\ o \in Caller /\ o \notin Reminder /\ o \notin Answerer
                       /\ SubjectOf[o] \in Subject /\ Subj(o) = SubjectOf[o]
  /\ \A r \in Reminder : /\ r \in Asker /\ r \in Caller /\ r \notin Opener /\ r \notin Answerer
                         /\ r[1] \in Poller /\ r[2] \in Subject /\ Subj(r) = r[2]
  /\ \A a \in Answerer : a \in Caller /\ a \notin Asker /\ SubjectOf[a] \in Subject
  /\ \A d \in Asker : Subj(d) \in Subject
  /\ \A p \in Poller, s \in Subject : <<p, s>> \in Reminder /\ <<p, s>>[1] = p /\ <<p, s>>[2] = s
BY WorkflowsAssumption DEF Caller, Asker, Reminder, Subj

\* Types and steps, where no column but the status is changed.
LEMMA TypeInit == Init => TypeOK /\ Steps
<1> SUFFICES ASSUME Init PROVE TypeOK /\ Steps
  OBVIOUS
<1>1. step \in [Caller -> {"idle"}] /\ 1 \in Time
  BY WorkflowsAssumption DEF Init, Caller, Time
<1>2. \A c \in Caller : step[c] = "idle"
  BY <1>1
<1>3. TypeOK
  BY <1>1, <1>2, Kinds, WorkflowsAssumption
  DEF Init, TypeOK, Columns, OpenerStep, ReminderStep, AnswererStep
<1>4. Steps
  BY <1>1 DEF Init, Steps, OpenerStep
<1> QED
  BY <1>3, <1>4

LEMMA TypeStep ==
  ASSUME TypeOK, Steps, Owned, Numbered, [Next]_vars
  PROVE  TypeOK' /\ Steps'
<1> USE WorkflowsAssumption, Kinds DEF TypeOK, Steps, Columns, OpenerStep, ReminderStep, AnswererStep, Goto
<1>1. CASE Passing
  BY <1>1 DEF Passing, table, outside, calls, ticks, Time
<1>2. ASSUME NEW o \in Opener, Call(o) PROVE TypeOK' /\ Steps'
  BY <1>2 DEF Call, table, outside, ticks, Time
<1>3. ASSUME NEW o \in Opener, FindOpen(o) PROVE TypeOK' /\ Steps'
  BY <1>3 DEF FindOpen, table, outside, ticks
<1>4. ASSUME NEW o \in Opener, FindAnswered(o) PROVE TypeOK' /\ Steps'
  BY <1>4 DEF FindAnswered, table, outside, ticks
<1>5. ASSUME NEW o \in Opener, ResolveTarget(o) PROVE TypeOK' /\ Steps'
  BY <1>5, SMTT(30) DEF ResolveTarget, table, outside, ticks
<1>6. ASSUME NEW o \in Opener, Insert(o) PROVE TypeOK' /\ Steps'
  <2>1. PICK w \in {"see", "asked", "raised", "reread"} : step' = [step EXCEPT ![o] = w]
    BY <1>6 DEF Insert, Opened
  <2>2. number' \in [Asker -> Nat] /\ faults' \in 0..MaxFaults
    BY <1>6 DEF Insert, Opened, Fault
  <2>3. \/ UNCHANGED table
        \/ \E mark \in Nat :
             /\ status' = [status EXCEPT ![SubjectOf[o]] = "Pending"]
             /\ askCount' = [askCount EXCEPT ![SubjectOf[o]] = 1]
             /\ expiresAt' = [expiresAt EXCEPT ![SubjectOf[o]] = began[o] + Ttl]
             /\ remindAt' = [remindAt EXCEPT ![SubjectOf[o]] = mark]
             /\ UNCHANGED target
    <3>1. \A mark \in {0} \cup Marks(began[o]) : mark \in Nat
      BY DEF Marks
    <3> QED
      BY <1>6, <3>1 DEF Insert, NewRow
  <2>4. UNCHANGED <<clock, seen, asks, results, began, expected, tickStep, now>>
    BY <1>6 DEF Insert, outside, ticks
  <2>5. CASE UNCHANGED table
    BY <2>1, <2>2, <2>4, <2>5 DEF table
  <2>6. CASE ~UNCHANGED table
    <3>1. PICK mark \in Nat :
             /\ status' = [status EXCEPT ![SubjectOf[o]] = "Pending"]
             /\ askCount' = [askCount EXCEPT ![SubjectOf[o]] = 1]
             /\ expiresAt' = [expiresAt EXCEPT ![SubjectOf[o]] = began[o] + Ttl]
             /\ remindAt' = [remindAt EXCEPT ![SubjectOf[o]] = mark]
             /\ UNCHANGED target
      BY <2>3, <2>6
    <3> QED
      BY <2>1, <2>2, <2>4, <3>1
  <2> QED
    BY <2>5, <2>6
<1>7. ASSUME NEW o \in Opener, Reread(o) PROVE TypeOK' /\ Steps'
  BY <1>7 DEF Reread, table, outside, ticks
<1>8. ASSUME NEW d \in Asker, SeeAsk(d) PROVE TypeOK' /\ Steps'
  BY <1>8, SMTT(30) DEF SeeAsk, AskId, Fault, Thrown, table, ticks
<1>9. ASSUME NEW d \in Asker, AppendAsk(d) PROVE TypeOK' /\ Steps'
  BY <1>9, SMTT(30) DEF AppendAsk, Fault, Thrown, table, outside, ticks
<1>10. ASSUME NEW d \in Asker, PublishAsk(d) PROVE TypeOK' /\ Steps'
  BY <1>10 DEF PublishAsk, Numbered, Fault, Thrown, table, ticks
<1>11. ASSUME NEW a \in Answerer, Find(a) PROVE TypeOK' /\ Steps'
  BY <1>11 DEF Find, table, outside, ticks
<1>12. ASSUME NEW a \in Answerer, Resolve(a) PROVE TypeOK' /\ Steps'
  <2>1. PICK w \in {"notify", "raised", "closed"} : step' = [step EXCEPT ![a] = w]
    BY <1>12 DEF Resolve
  <2>2. faults' \in 0..MaxFaults
    BY <1>12 DEF Resolve, Fault
  <2>3. CASE status[SubjectOf[a]] = "Pending"
    <3>1. Approve(SubjectOf[a]) /\ UNCHANGED <<clock, outside, began, number, expected, ticks>>
      BY <1>12, <2>3 DEF Resolve
    <3> QED
      BY <2>1, <2>3, <2>2, <3>1 DEF Approve, outside, ticks
  <2>4. CASE status[SubjectOf[a]] # "Pending"
    <3>1. UNCHANGED <<clock, table, outside, began, number, expected, ticks>>
      BY <1>12, <2>4 DEF Resolve
    <3> QED
      BY <2>1, <2>2, <3>1 DEF table, outside, ticks
  <2> QED
    BY <2>3, <2>4
<1>13. ASSUME NEW a \in Answerer, Notify(a) PROVE TypeOK' /\ Steps'
  <2>1. step' \in {[step EXCEPT ![a] = w] : w \in {"recorded", "raised"}}
    BY <1>13 DEF Notify
  <2>2. results' \in {results, [results EXCEPT ![SubjectOf[a]] = @ + 1]} /\ faults' \in 0..MaxFaults
    BY <1>13 DEF Notify, Fault
  <2>3. UNCHANGED <<clock, table, seen, asks, began, number, expected, ticks>>
    BY <1>13 DEF Notify
  <2> QED
    BY <2>1, <2>2, <2>3 DEF table, ticks
<1>14. ASSUME NEW p \in Poller, StartTick(p) PROVE TypeOK' /\ Steps'
  BY <1>14 DEF StartTick, table, outside, calls, Time
<1>15. ASSUME NEW p \in Poller, Expire(p) PROVE TypeOK' /\ Steps'
  BY <1>15 DEF Expire, Late, outside, calls
<1>16. ASSUME NEW p \in Poller, Due(p) PROVE TypeOK' /\ Steps'
  BY <1>16 DEF Due, table, outside
<1>17. ASSUME NEW r \in Reminder, Claim(r) PROVE TypeOK' /\ Steps'
  BY <1>17 DEF Claim, Free, Marks, Fault, outside, ticks
<1>18. ASSUME NEW p \in Poller, TickDies(p) PROVE TypeOK' /\ Steps'
  BY <1>18 DEF TickDies, Fault, table, outside
<1>19. CASE UNCHANGED vars
  BY <1>19 DEF vars, table, outside, calls, ticks
<1> QED
  BY <1>1, <1>2, <1>3, <1>4, <1>5, <1>6, <1>7, <1>8, <1>9, <1>10, <1>11, <1>12, <1>13,
     <1>14, <1>15, <1>16, <1>17, <1>18, <1>19
  DEF Next, OpenerNext, AnswererNext, PollerNext, Dispatch

-----------------------------------------------------------------------------
(* One asker                                                               *)

LEMMA OwnedStep ==
  ASSUME TypeOK, Steps, Owned, [Next]_vars
  PROVE  Owned'
<1> USE Kinds DEF Asking, Goto
<1>a. /\ step \in [Caller -> OpenerStep \cup ReminderStep \cup AnswererStep]
      /\ status \in [Subject -> {"none", "Pending", "Approved", "Expired"}]
  BY DEF TypeOK, Steps
<1>1. ASSUME \A s \in Subject : status[s] # "none" => status'[s] # "none",
             \A o \in Opener : step'[o] \in Asking => step[o] \in Asking
      PROVE  Owned'
  BY <1>1 DEF Owned, OneAsker
<1>2. ASSUME NEW o \in Opener, Insert(o) PROVE Owned'
  <2>1. PICK w \in {"see", "asked", "raised", "reread"} : step' = [step EXCEPT ![o] = w]
    BY <1>2 DEF Insert, Opened
  <2>2. CASE status[SubjectOf[o]] = "none"
    <3>1. status' = [status EXCEPT ![SubjectOf[o]] = "Pending"]
      BY <1>2, <2>2 DEF Insert, NewRow
    <3>2. \A q \in Opener : SubjectOf[q] = SubjectOf[o] => step[q] \notin Asking
      BY <2>2 DEF Owned
    <3> QED
      BY <1>a, <2>1, <3>1, <3>2 DEF Owned, OneAsker
  <2>3. CASE status[SubjectOf[o]] # "none"
    <3>1. UNCHANGED status /\ step'[o] \notin Asking
      BY <1>a, <1>2, <2>3 DEF Insert, table
    <3> QED
      BY <1>1, <1>a, <2>1, <3>1
  <2> QED
    BY <2>2, <2>3
<1>3. ASSUME NEW d \in Asker, Dispatch(d) PROVE Owned'
  <2>1. UNCHANGED status /\ step[d] \in Asking
    BY <1>3 DEF Dispatch, SeeAsk, AppendAsk, PublishAsk, table
  <2>2. \E w : step' = [step EXCEPT ![d] = w]
    BY <1>3 DEF Dispatch, SeeAsk, AppendAsk, PublishAsk
  <2> QED
    BY <1>1, <1>a, <2>1, <2>2
<1>4. ASSUME NEW a \in Answerer, AnswererNext(a) PROVE Owned'
  <2>1. \E w : step' = [step EXCEPT ![a] = w]
    BY <1>4 DEF AnswererNext, Find, Resolve, Notify
  <2>2. UNCHANGED status \/ status' = [status EXCEPT ![SubjectOf[a]] = "Approved"]
    BY <1>4 DEF AnswererNext, Find, Resolve, Notify, Approve, table
  <2> QED
    BY <1>1, <1>a, <2>1, <2>2
<1>5. ASSUME NEW p \in Poller, Expire(p) PROVE Owned'
  BY <1>1, <1>a, <1>5 DEF Expire, Late, calls
<1>6. ASSUME NEW p \in Poller, Due(p) \/ TickDies(p) PROVE Owned'
  <2>1. \A o \in Opener : step'[o] = step[o]
    BY <1>a, <1>6 DEF Due, TickDies
  <2> QED
    BY <1>1, <1>6, <2>1 DEF Due, TickDies, table
<1>7. ASSUME NEW r \in Reminder, Claim(r) PROVE Owned'
  <2>1. \E w : step' = [step EXCEPT ![r] = w]
    BY <1>7 DEF Claim
  <2> QED
    BY <1>1, <1>a, <1>7, <2>1 DEF Claim
<1>8. ASSUME NEW o \in Opener, Call(o) \/ FindOpen(o) \/ FindAnswered(o) \/ ResolveTarget(o) \/ Reread(o)
      PROVE  Owned'
  <2>1. \E w \in {"findOpen", "already_open", "findAnswered", "already_answered", "resolve", "insert", "failed"} :
           step' = [step EXCEPT ![o] = w]
    BY <1>8 DEF Call, FindOpen, FindAnswered, ResolveTarget, Reread
  <2>2. UNCHANGED status
    BY <1>8 DEF Call, FindOpen, FindAnswered, ResolveTarget, Reread, table
  <2> QED
    BY <1>1, <1>a, <2>1, <2>2
<1>9. CASE UNCHANGED <<step, status>>
  BY <1>1, <1>9
<1> QED
  BY <1>2, <1>3, <1>4, <1>5, <1>6, <1>7, <1>8, <1>9
  DEF Next, OpenerNext, PollerNext, Passing, StartTick, vars, table, calls

-----------------------------------------------------------------------------
(* The ids of the asks                                                     *)

LEMMA NumberedStep ==
  ASSUME TypeOK, Steps, Numbered, Claims, [Next]_vars
  PROVE  Numbered'
<1> USE Kinds DEF Goto, AskId
<1>a. /\ step \in [Caller -> OpenerStep \cup ReminderStep \cup AnswererStep]
      /\ askCount \in [Subject -> Nat] /\ number \in [Asker -> Nat]
      /\ seen \subseteq Subject \X Nat
  BY DEF TypeOK, Steps
\* What is not new is as it was.
<1>1. ASSUME \A s \in Subject : askCount[s] <= askCount'[s] /\ askCount'[s] \in Nat,
             UNCHANGED seen,
             \A d \in Asker : step'[d] \in {"see", "append", "publish"} =>
                number'[d] = number[d]
                  /\ (step'[d] = step[d] \/ (step'[d] = "publish" /\ step[d] = "append"))
      PROVE  Numbered'
  BY <1>1, <1>a DEF Numbered, FreshAsks
\* A new id is one above those counted so far.
<1>2. ASSUME NEW d \in Asker, UNCHANGED seen,
             askCount' = [askCount EXCEPT ![Subj(d)] = @ + 1],
             number'[d] = askCount[Subj(d)] + 1,
             \A e \in Asker \ {d} : step'[e] = step[e] /\ number'[e] = number[e],
             step'[d] \notin {"append", "publish"}
      PROVE  Numbered'
  <2>1. \A e \in Asker : Subj(e)' = Subj(e)
    BY DEF Subj
  <2>2. \A id \in seen : id[2] <= askCount'[id[1]] /\ id # <<Subj(d), number'[d]>>
    BY <1>2, <1>a DEF Numbered
  <2>3. \A e \in Asker \ {d} : step[e] = "see" =>
           /\ number[e] \in 1..askCount'[Subj(e)]
           /\ <<Subj(e), number[e]>> # <<Subj(d), number'[d]>>
    BY <1>2, <1>a DEF Numbered
  <2>4. number'[d] \in 1..askCount'[Subj(d)]
    BY <1>2, <1>a
  <2> QED
    BY <1>2, <2>1, <2>2, <2>3, <2>4 DEF Numbered, FreshAsks
<1>3. ASSUME NEW o \in Opener, Insert(o) PROVE Numbered'
  <2>1. PICK w \in {"see", "asked", "raised", "reread"} : step' = [step EXCEPT ![o] = w]
    BY <1>3 DEF Insert, Opened
  <2>2. UNCHANGED seen
    BY <1>3 DEF Insert, outside
  <2>3. CASE status[SubjectOf[o]] = "none"
    <3>1. askCount' = [askCount EXCEPT ![Subj(o)] = @ + 1] /\ askCount[Subj(o)] = 0
      BY <1>3, <1>a, <2>3 DEF Insert, NewRow, Steps
    <3>2. CASE w = "raised"
      <4>1. \A e \in Asker : step'[e] # "raised" => step'[e] = step[e] /\ number'[e] = number[e]
        BY <1>3, <1>a, <2>1, <2>3, <3>2 DEF Insert, Opened
      <4> QED
        BY <1>1, <1>a, <2>2, <3>1, <4>1
    <3>3. CASE w # "raised"
      <4>1. number' = [number EXCEPT ![o] = 1] /\ w \in {"see", "asked"}
        BY <1>3, <1>a, <2>1, <2>3, <3>3 DEF Insert, Opened
      <4>2. number'[o] = askCount[Subj(o)] + 1 /\ step'[o] = w
        BY <1>a, <2>1, <3>1, <4>1
      <4>3. \A e \in Asker \ {o} : step'[e] = step[e] /\ number'[e] = number[e]
        BY <1>a, <2>1, <4>1
      <4> QED
        BY <1>2, <2>2, <3>1, <4>1, <4>2, <4>3
    <3> QED
      BY <3>2, <3>3
  <2>4. CASE status[SubjectOf[o]] # "none"
    <3>1. UNCHANGED <<askCount, number>> /\ w \in {"raised", "reread"}
      BY <1>3, <1>a, <2>1, <2>4 DEF Insert, table
    <3> QED
      BY <1>1, <1>a, <2>1, <2>2, <3>1
  <2> QED
    BY <2>3, <2>4
<1>4. ASSUME NEW d \in Asker, SeeAsk(d) PROVE Numbered'
  <2>1. UNCHANGED <<askCount, number>> /\ step[d] = "see"
    BY <1>4 DEF SeeAsk, table
  <2>2. PICK w \in {"append", "idle", "asked", "raised"} :
           /\ step' = [step EXCEPT ![d] = w]
           /\ w = "append" => AskId(d) \in seen'
           /\ seen' \in {seen, seen \cup {AskId(d)}}
    BY <1>4 DEF SeeAsk, Thrown
  <2>3. \A id \in seen' : id[2] <= askCount[id[1]]
    BY <1>a, <2>1, <2>2 DEF Numbered
  <2>4. \A e \in Asker \ {d} : step[e] = "see" => <<Subj(e), number[e]>> \notin seen'
    BY <1>a, <2>1, <2>2 DEF Numbered, FreshAsks
  <2>5. \A e \in Asker : Subj(e)' = Subj(e)
    BY DEF Subj
  <2>6. \A e \in Asker \ {d} : step'[e] = step[e]
    BY <1>a, <2>2
  <2>7. step'[d] = w
    BY <1>a, <2>2, Zenon DEF Caller
  <2>8. \A e \in Asker : step'[e] \in {"append", "publish"} => <<Subj(e), number[e]>> \in seen'
    BY <2>2, <2>6, <2>7 DEF Numbered
  <2>9. \A e \in Asker : step'[e] = "see" => e # d /\ step[e] = "see"
    BY <2>6, <2>7
  <2> QED
    BY <2>1, <2>3, <2>4, <2>5, <2>8, <2>9 DEF Numbered, FreshAsks
<1>5. ASSUME NEW d \in Asker, AppendAsk(d) \/ PublishAsk(d) PROVE Numbered'
  <2>1. UNCHANGED <<askCount, number, seen>> /\ step[d] \in {"append", "publish"}
    BY <1>5 DEF AppendAsk, PublishAsk, table, outside
  <2>2. PICK w \in {"publish", "idle", "asked", "raised"} :
           step' = [step EXCEPT ![d] = w] /\ (w = "publish" => step[d] = "append")
    BY <1>5 DEF AppendAsk, PublishAsk, Thrown
  <2> QED
    BY <1>1, <1>a, <2>1, <2>2
<1>6. ASSUME NEW a \in Answerer, AnswererNext(a) PROVE Numbered'
  <2>1. \E w : step' = [step EXCEPT ![a] = w]
    BY <1>6 DEF AnswererNext, Find, Resolve, Notify
  <2>2. UNCHANGED <<askCount, number, seen>>
    BY <1>6 DEF AnswererNext, Find, Resolve, Notify, Approve, table, outside
  <2> QED
    BY <1>1, <1>a, <2>1, <2>2
<1>7. ASSUME NEW p \in Poller, Due(p) PROVE Numbered'
  <2>1. UNCHANGED <<askCount, seen>>
    BY <1>7 DEF Due, table, outside
  <2>2. \A d \in Asker : step'[d] = "claim" \/ (step'[d] = step[d] /\ number'[d] = number[d])
    BY <1>7, <1>a DEF Due, Caller
  <2> QED
    BY <1>1, <1>a, <2>1, <2>2
<1>8. ASSUME NEW p \in Poller, TickDies(p) PROVE Numbered'
  <2>1. UNCHANGED <<askCount, seen, number>>
    BY <1>8 DEF TickDies, table, outside
  <2>2. \A d \in Asker : step'[d] \in {"idle", step[d]}
    BY <1>8, <1>a DEF TickDies, Caller
  <2> QED
    BY <1>1, <1>a, <2>1, <2>2
<1>9. ASSUME NEW r \in Reminder, Claim(r) PROVE Numbered'
  <2>1. UNCHANGED <<seen, number>> /\ step[r] = "claim"
    BY <1>9 DEF Claim, outside
  <2>2. PICK w \in {"see", "idle"} : step' = [step EXCEPT ![r] = w]
    BY <1>9 DEF Claim
  <2>3. CASE Free(r) /\ askCount' = [askCount EXCEPT ![r[2]] = @ + 1]
    <3>1. number[r] = askCount[r[2]] + 1
      BY <2>1, <2>3 DEF Free, Claims
    <3>2. step'[r] = w /\ number'[r] = askCount[Subj(r)] + 1
      BY <1>a, <2>1, <2>2, <3>1
    <3>3. \A e \in Asker \ {r} : step'[e] = step[e] /\ number'[e] = number[e]
      BY <1>a, <2>1, <2>2
    <3> QED
      BY <1>2, <2>1, <2>2, <2>3, <3>2, <3>3
  <2>4. CASE UNCHANGED askCount /\ w = "idle"
    BY <1>1, <1>a, <2>1, <2>2, <2>4
  <2> QED
    BY <1>9, <1>a, <2>2, <2>3, <2>4 DEF Claim
<1>10. ASSUME NEW o \in Opener, Call(o) \/ FindOpen(o) \/ FindAnswered(o) \/ ResolveTarget(o) \/ Reread(o)
      PROVE  Numbered'
  <2>1. \E w \in {"findOpen", "already_open", "findAnswered", "already_answered", "resolve", "insert", "failed"} :
           step' = [step EXCEPT ![o] = w]
    BY <1>10 DEF Call, FindOpen, FindAnswered, ResolveTarget, Reread
  <2>2. UNCHANGED <<askCount, number, seen>>
    BY <1>10 DEF Call, FindOpen, FindAnswered, ResolveTarget, Reread, table, outside
  <2> QED
    BY <1>1, <1>a, <2>1, <2>2
<1>11. CASE UNCHANGED <<step, askCount, number, seen>>
  BY <1>1, <1>a, <1>11
<1> QED
  BY <1>3, <1>4, <1>5, <1>6, <1>7, <1>8, <1>9, <1>10, <1>11
  DEF Next, OpenerNext, PollerNext, Dispatch, Passing, StartTick, Expire, vars, table, outside, calls

\* The marks of a row grow as long as it is open.
LEMMA ClaimsStep ==
  ASSUME TypeOK, Steps, Claims, [Next]_vars
  PROVE  Claims'
<1> USE Kinds DEF Goto
<1>a. /\ step \in [Caller -> OpenerStep \cup ReminderStep \cup AnswererStep]
      /\ status \in [Subject -> {"none", "Pending", "Approved", "Expired"}]
      /\ askCount \in [Subject -> Nat] /\ remindAt \in [Subject -> Nat]
      /\ number \in [Asker -> Nat] /\ expected \in [Reminder -> Nat]
      /\ now \in [Poller -> 0..MaxTime]
  BY DEF TypeOK, Steps
<1>1. ASSUME \A r \in Reminder : step'[r] = "claim" =>
                /\ step[r] = "claim" /\ expected'[r] = expected[r]
                /\ number'[r] = number[r] /\ now'[r[1]] = now[r[1]],
             \A s \in Subject : status'[s] = "Pending" /\ status[s] # "none" =>
                /\ status[s] = "Pending" /\ remindAt'[s] = remindAt[s] /\ askCount'[s] = askCount[s],
             \A s \in Subject : status[s] # "none" => status'[s] # "none"
      PROVE  Claims'
  BY <1>1 DEF Claims
<1>2. ASSUME NEW o \in Opener, Insert(o) PROVE Claims'
  <2>1. PICK w \in {"see", "asked", "raised", "reread"} : step' = [step EXCEPT ![o] = w]
    BY <1>2 DEF Insert, Opened
  <2>2. \A r \in Reminder : number'[r] = number[r]
    BY <1>2, <1>a DEF Insert, Opened
  <2>3. UNCHANGED <<expected, now>>
    BY <1>2 DEF Insert, ticks
  <2>4. CASE status[SubjectOf[o]] = "none"
    <3>1. \A s \in Subject : s # SubjectOf[o] =>
             status'[s] = status[s] /\ remindAt'[s] = remindAt[s] /\ askCount'[s] = askCount[s]
      BY <1>2, <1>a, <2>4 DEF Insert, NewRow
    <3> QED
      BY <1>1, <1>a, <2>1, <2>2, <2>3, <2>4, <3>1
  <2>5. CASE status[SubjectOf[o]] # "none"
    <3>1. UNCHANGED table
      BY <1>2, <1>a, <2>5 DEF Insert
    <3> QED
      BY <1>1, <1>a, <2>1, <2>2, <2>3, <3>1 DEF table
  <2> QED
    BY <2>4, <2>5
<1>3. ASSUME NEW c \in Opener \cup Asker, (OpenerNext(c) /\ ~Insert(c)) \/ Dispatch(c) PROVE Claims'
  <2>1. UNCHANGED <<table, number, expected, now>>
    BY <1>3 DEF OpenerNext, Dispatch, Call, FindOpen, FindAnswered, ResolveTarget, Reread,
                SeeAsk, AppendAsk, PublishAsk, ticks
  <2>2. \E w : step' = [step EXCEPT ![c] = w] /\ w # "claim"
    BY <1>3 DEF OpenerNext, Dispatch, Call, FindOpen, FindAnswered, ResolveTarget, Reread,
                SeeAsk, AppendAsk, PublishAsk, Thrown
  <2> QED
    BY <1>1, <1>a, <2>1, <2>2 DEF table
<1>4. ASSUME NEW a \in Answerer, AnswererNext(a) PROVE Claims'
  <2>1. \E w : step' = [step EXCEPT ![a] = w]
    BY <1>4 DEF AnswererNext, Find, Resolve, Notify
  <2>2. UNCHANGED <<number, expected, now>>
    BY <1>4 DEF AnswererNext, Find, Resolve, Notify, ticks
  <2>3. UNCHANGED table \/ Approve(SubjectOf[a])
    BY <1>4 DEF AnswererNext, Find, Resolve, Notify, table
  <2> QED
    BY <1>1, <1>a, <2>1, <2>2, <2>3 DEF Approve, table
<1>5. ASSUME NEW p \in Poller, StartTick(p) PROVE Claims'
  <2>1. UNCHANGED <<table, step, number, expected>>
    BY <1>5 DEF StartTick, calls
  <2>2. \A r \in Reminder : step[r] = "claim" => r[1] # p
    BY <1>5 DEF StartTick, Reminder
  <2> QED
    BY <1>1, <1>5, <1>a, <2>1, <2>2 DEF StartTick, table
<1>6. ASSUME NEW p \in Poller, Expire(p) PROVE Claims'
  <2>1. UNCHANGED <<step, number, expected, now, askCount>>
    BY <1>6 DEF Expire, calls
  <2>2. \A s \in Subject : \/ status'[s] = status[s] /\ remindAt'[s] = remindAt[s]
                           \/ status'[s] = "Expired"
    BY <1>6, <1>a DEF Expire
  <2> QED
    BY <1>1, <1>a, <2>1, <2>2
<1>7. ASSUME NEW p \in Poller, Due(p) PROVE Claims'
  <2>1. UNCHANGED <<table, now>>
    BY <1>7 DEF Due
  <2> DEFINE due == {s \in Subject : status[s] = "Pending" /\ remindAt[s] # 0 /\ remindAt[s] <= now[p]}
  <2>2. \A r \in Reminder : r \notin {p} \X due =>
           step'[r] = step[r] /\ number'[r] = number[r] /\ expected'[r] = expected[r]
    BY <1>7, <1>a DEF Due
  <2>3. \A r \in Reminder : r \in {p} \X due =>
           /\ r[1] = p /\ r[2] \in due
           /\ number'[r] = askCount[r[2]] + 1 /\ expected'[r] = remindAt[r[2]]
    BY <1>7, <1>a DEF Due
  <2> QED
    BY <1>a, <2>1, <2>2, <2>3 DEF Claims, table
<1>8. ASSUME NEW p \in Poller, TickDies(p) PROVE Claims'
  <2>1. UNCHANGED <<table, number, expected, now>>
    BY <1>8 DEF TickDies
  <2>2. \A r \in Reminder : step'[r] \in {"idle", step[r]}
    BY <1>8, <1>a DEF TickDies
  <2> QED
    BY <1>1, <1>a, <2>1, <2>2 DEF table
<1>9. ASSUME NEW r \in Reminder, Claim(r) PROVE Claims'
  <2>1. UNCHANGED <<status, expected, number, now>> /\ step[r] = "claim"
    BY <1>9 DEF Claim, ticks
  <2>2. PICK w \in {"see", "idle"} : step' = [step EXCEPT ![r] = w]
    BY <1>9 DEF Claim
  <2>3. CASE UNCHANGED <<askCount, remindAt>>
    BY <1>1, <1>a, <2>1, <2>2, <2>3
  <2>4. CASE ~UNCHANGED <<askCount, remindAt>>
    <3>1. Free(r)
      BY <1>9, <2>4 DEF Claim
    <3>2. PICK mark \in Marks(now[r[1]]) :
             /\ remindAt' = [remindAt EXCEPT ![r[2]] = mark]
             /\ askCount' = [askCount EXCEPT ![r[2]] = @ + 1]
      BY <1>9, <2>4 DEF Claim
    <3>3. mark \in Nat /\ remindAt[r[2]] < mark
      BY <1>a, <2>1, <3>1 DEF Marks, Free, Claims
    <3>4. \A q \in Reminder : step'[q] = "claim" => q # r /\ step[q] = "claim"
      BY <1>a, <2>2
    <3>5. \A q \in Reminder : step[q] = "claim" /\ q[2] = r[2] => expected[q] < mark
      BY <1>a, <3>1, <3>3 DEF Claims, Free
    <3> QED
      BY <1>a, <2>1, <3>2, <3>3, <3>4, <3>5 DEF Claims
  <2> QED
    BY <2>3, <2>4
<1>10. CASE UNCHANGED <<table, step, number, expected, now>>
  BY <1>1, <1>10 DEF table
<1> QED
  BY <1>2, <1>3, <1>4, <1>5, <1>6, <1>7, <1>8, <1>9, <1>10
  DEF Next, OpenerNext, PollerNext, Passing, vars, calls, ticks

-----------------------------------------------------------------------------
(* The answer                                                              *)

LEMMA ClosedStep ==
  ASSUME TypeOK, Steps, Closed, ResultOnce, [Next]_vars
  PROVE  Closed' /\ ResultOnce'
<1> USE Kinds DEF Goto
<1>a. /\ step \in [Caller -> OpenerStep \cup ReminderStep \cup AnswererStep]
      /\ status \in [Subject -> {"none", "Pending", "Approved", "Expired"}]
      /\ results \in [Subject -> Nat]
  BY DEF TypeOK, Steps
<1>1. ASSUME UNCHANGED results,
             \A s \in Subject : status[s] = "Approved" => status'[s] = "Approved",
             \A a \in Answerer : step'[a] = "notify" => step[a] = "notify"
      PROVE  Closed' /\ ResultOnce'
  BY <1>1 DEF Closed, ResultOnce
<1>2. ASSUME NEW o \in Opener, Insert(o) PROVE Closed' /\ ResultOnce'
  <2>1. \E w : step' = [step EXCEPT ![o] = w]
    BY <1>2 DEF Insert, Opened
  <2>2. UNCHANGED results
    BY <1>2 DEF Insert, outside
  <2>3. UNCHANGED status \/ (status[SubjectOf[o]] = "none" /\ status' = [status EXCEPT ![SubjectOf[o]] = "Pending"])
    BY <1>2 DEF Insert, NewRow, table
  <2> QED
    BY <1>1, <1>a, <2>1, <2>2, <2>3
<1>3. ASSUME NEW c \in Opener \cup Asker, (OpenerNext(c) /\ ~Insert(c)) \/ Dispatch(c)
      PROVE  Closed' /\ ResultOnce'
  <2>1. UNCHANGED <<status, results>>
    BY <1>3 DEF OpenerNext, Dispatch, Call, FindOpen, FindAnswered, ResolveTarget, Reread,
                SeeAsk, AppendAsk, PublishAsk, table, outside
  <2>2. \E w : step' = [step EXCEPT ![c] = w]
    BY <1>3 DEF OpenerNext, Dispatch, Call, FindOpen, FindAnswered, ResolveTarget, Reread,
                SeeAsk, AppendAsk, PublishAsk
  <2> QED
    BY <1>1, <1>a, <2>1, <2>2
<1>4. ASSUME NEW a \in Answerer, Find(a) PROVE Closed' /\ ResultOnce'
  <2>1. \E w \in {"close", "not_found"} : step' = [step EXCEPT ![a] = w]
    BY <1>4 DEF Find
  <2>2. UNCHANGED <<status, results>>
    BY <1>4 DEF Find, table, outside
  <2> QED
    BY <1>1, <1>a, <2>1, <2>2
<1>5. ASSUME NEW a \in Answerer, Resolve(a) PROVE Closed' /\ ResultOnce'
  <2>1. PICK w \in {"notify", "raised", "closed"} : step' = [step EXCEPT ![a] = w]
    BY <1>5 DEF Resolve
  <2>2. UNCHANGED results
    BY <1>5 DEF Resolve, outside
  <2>3. CASE status[SubjectOf[a]] = "Pending"
    <3>1. status' = [status EXCEPT ![SubjectOf[a]] = "Approved"]
      BY <1>5, <2>3 DEF Resolve, Approve
    <3>2. results[SubjectOf[a]] = 0
      BY <1>a, <2>3 DEF Closed
    <3>3. \A b \in Answerer : step[b] = "notify" => SubjectOf[b] # SubjectOf[a]
      BY <2>3 DEF Closed
    <3> QED
      BY <1>a, <2>1, <2>2, <3>1, <3>2, <3>3 DEF Closed, ResultOnce
  <2>4. CASE status[SubjectOf[a]] # "Pending"
    <3>1. UNCHANGED status /\ w = "closed"
      BY <1>5, <1>a, <2>1, <2>4 DEF Resolve, table
    <3> QED
      BY <1>1, <1>a, <2>1, <2>2, <3>1
  <2> QED
    BY <2>3, <2>4
<1>6. ASSUME NEW a \in Answerer, Notify(a) PROVE Closed' /\ ResultOnce'
  <2>1. \E w \in {"recorded", "raised"} : step' = [step EXCEPT ![a] = w]
    BY <1>6 DEF Notify
  <2>2. results' \in {results, [results EXCEPT ![SubjectOf[a]] = @ + 1]} /\ UNCHANGED status
    BY <1>6 DEF Notify, table
  <2>3. /\ status[SubjectOf[a]] = "Approved" /\ results[SubjectOf[a]] = 0
        /\ \A b \in Answerer \ {a} : SubjectOf[b] = SubjectOf[a] => step[b] # "notify"
    BY <1>6 DEF Notify, Closed
  <2>4. \A s \in Subject : results'[s] = results[s] \/ (s = SubjectOf[a] /\ results'[s] = 1)
    BY <1>a, <2>2, <2>3
  <2>5. ResultOnce'
    BY <2>4 DEF ResultOnce
  <2>6. \A b \in Answerer : step'[b] = "notify" => b # a /\ step[b] = "notify"
    BY <1>a, <2>1
  <2>7. Closed'
    BY <2>2, <2>3, <2>4, <2>6 DEF Closed
  <2> QED
    BY <2>5, <2>7
<1>7. ASSUME NEW p \in Poller, Expire(p) PROVE Closed' /\ ResultOnce'
  BY <1>1, <1>a, <1>7 DEF Expire, Late, outside, calls
<1>8. ASSUME NEW p \in Poller, Due(p) \/ TickDies(p) PROVE Closed' /\ ResultOnce'
  <2>1. \A a \in Answerer : step'[a] = step[a]
    BY <1>a, <1>8 DEF Due, TickDies
  <2> QED
    BY <1>1, <1>8, <2>1 DEF Due, TickDies, table, outside
<1>9. ASSUME NEW r \in Reminder, Claim(r) PROVE Closed' /\ ResultOnce'
  <2>1. \E w : step' = [step EXCEPT ![r] = w]
    BY <1>9 DEF Claim
  <2> QED
    BY <1>1, <1>a, <1>9, <2>1 DEF Claim, outside
<1>10. CASE UNCHANGED <<status, results, step>>
  BY <1>1, <1>10
<1> QED
  BY <1>2, <1>3, <1>4, <1>5, <1>6, <1>7, <1>8, <1>9, <1>10
  DEF Next, OpenerNext, AnswererNext, PollerNext, Passing, StartTick, vars, table, outside, calls

LEMMA ToldStep ==
  ASSUME TypeOK, Steps, ToldOrRaised, [Next]_vars
  PROVE  ToldOrRaised'
<1> USE Kinds DEF Goto
<1>a. /\ step \in [Caller -> OpenerStep \cup ReminderStep \cup AnswererStep]
      /\ status \in [Subject -> {"none", "Pending", "Approved", "Expired"}]
      /\ results \in [Subject -> Nat]
  BY DEF TypeOK, Steps
<1>1. ASSUME \A s \in Subject : status'[s] = "Approved" => status[s] = "Approved",
             UNCHANGED results,
             \A a \in Answerer : step[a] \in {"notify", "raised"} => step'[a] = step[a]
      PROVE  ToldOrRaised'
  BY <1>1 DEF ToldOrRaised
<1>2. ASSUME NEW a \in Answerer, Find(a) PROVE ToldOrRaised'
  <2>1. \E w : step' = [step EXCEPT ![a] = w]
    BY <1>2 DEF Find
  <2> QED
    BY <1>1, <1>2, <1>a, <2>1 DEF Find, table, outside
<1>3. ASSUME NEW a \in Answerer, Resolve(a) PROVE ToldOrRaised'
  <2>1. PICK w \in {"notify", "raised", "closed"} : step' = [step EXCEPT ![a] = w]
    BY <1>3 DEF Resolve
  <2>2. UNCHANGED results /\ step[a] = "close"
    BY <1>3 DEF Resolve, outside
  <2>3. CASE status[SubjectOf[a]] = "Pending"
    <3>1. status' = [status EXCEPT ![SubjectOf[a]] = "Approved"] /\ w \in {"notify", "raised"}
      BY <1>3, <1>a, <2>1, <2>3 DEF Resolve, Approve
    <3>2. step'[a] \in {"notify", "raised"}
      BY <1>a, <2>1, <3>1
    <3>3. \A b \in Answerer : step[b] \in {"notify", "raised"} => step'[b] = step[b]
      BY <1>a, <2>1, <2>2
    <3> SUFFICES ASSUME NEW s \in Subject, status'[s] = "Approved"
                 PROVE  \/ results'[s] > 0
                        \/ \E b \in Answerer : SubjectOf[b] = s /\ step'[b] \in {"notify", "raised"}
      BY DEF ToldOrRaised
    <3>4. CASE s = SubjectOf[a]
      BY <3>2, <3>4
    <3>5. CASE s # SubjectOf[a]
      BY <1>a, <2>2, <3>1, <3>3, <3>5 DEF ToldOrRaised
    <3> QED
      BY <3>4, <3>5
  <2>4. CASE status[SubjectOf[a]] # "Pending"
    <3>1. UNCHANGED status
      BY <1>3, <2>4 DEF Resolve, table
    <3> QED
      BY <1>1, <1>a, <2>1, <2>2, <3>1
  <2> QED
    BY <2>3, <2>4
<1>4. ASSUME NEW a \in Answerer, Notify(a) PROVE ToldOrRaised'
  <2>1. UNCHANGED status /\ step[a] = "notify"
    BY <1>4 DEF Notify, table
  <2>2. PICK w \in {"recorded", "raised"} :
           /\ step' = [step EXCEPT ![a] = w]
           /\ w = "recorded" => results' = [results EXCEPT ![SubjectOf[a]] = @ + 1]
           /\ results' \in {results, [results EXCEPT ![SubjectOf[a]] = @ + 1]}
    BY <1>4 DEF Notify
  <2>3. \A s \in Subject : results[s] > 0 => results'[s] > 0
    BY <1>a, <2>2
  <2>4. \A b \in Answerer : SubjectOf[b] # SubjectOf[a] => step'[b] = step[b]
    BY <1>a, <2>2
  <2>5. results'[SubjectOf[a]] > 0 \/ step'[a] = "raised"
    BY <1>a, <2>2
  <2> QED
    BY <2>1, <2>3, <2>4, <2>5 DEF ToldOrRaised
<1>5. ASSUME NEW o \in Opener, Insert(o) PROVE ToldOrRaised'
  <2>1. \E w : step' = [step EXCEPT ![o] = w]
    BY <1>5 DEF Insert, Opened
  <2>2. UNCHANGED status \/ status' = [status EXCEPT ![SubjectOf[o]] = "Pending"]
    BY <1>5 DEF Insert, NewRow, table
  <2> QED
    BY <1>1, <1>5, <1>a, <2>1, <2>2 DEF Insert, outside
<1>6. ASSUME NEW c \in Opener \cup Asker, (OpenerNext(c) /\ ~Insert(c)) \/ Dispatch(c)
      PROVE  ToldOrRaised'
  <2>1. UNCHANGED <<status, results>>
    BY <1>6 DEF OpenerNext, Dispatch, Call, FindOpen, FindAnswered, ResolveTarget, Reread,
                SeeAsk, AppendAsk, PublishAsk, table, outside
  <2>2. \E w : step' = [step EXCEPT ![c] = w]
    BY <1>6 DEF OpenerNext, Dispatch, Call, FindOpen, FindAnswered, ResolveTarget, Reread,
                SeeAsk, AppendAsk, PublishAsk
  <2> QED
    BY <1>1, <1>a, <2>1, <2>2
<1>7. ASSUME NEW p \in Poller, Expire(p) PROVE ToldOrRaised'
  BY <1>1, <1>a, <1>7 DEF Expire, Late, outside, calls
<1>8. ASSUME NEW p \in Poller, Due(p) \/ TickDies(p) PROVE ToldOrRaised'
  <2>1. \A a \in Answerer : step'[a] = step[a]
    BY <1>a, <1>8 DEF Due, TickDies
  <2> QED
    BY <1>1, <1>8, <2>1 DEF Due, TickDies, table, outside
<1>9. ASSUME NEW r \in Reminder, Claim(r) PROVE ToldOrRaised'
  <2>1. \E w : step' = [step EXCEPT ![r] = w]
    BY <1>9 DEF Claim
  <2> QED
    BY <1>1, <1>a, <1>9, <2>1 DEF Claim, outside
<1>10. CASE UNCHANGED <<status, results, step>>
  BY <1>1, <1>10
<1> QED
  BY <1>2, <1>3, <1>4, <1>5, <1>6, <1>7, <1>8, <1>9, <1>10
  DEF Next, OpenerNext, AnswererNext, PollerNext, Passing, StartTick, vars, table, outside, calls

-----------------------------------------------------------------------------
(* The theorems                                                            *)

LEMMA IInvInit == Init => IInv
<1> SUFFICES ASSUME Init PROVE IInv
  OBVIOUS
<1>1. \A c \in Caller : step[c] = "idle"
  BY DEF Init, Caller
<1>2. seen = {} /\ \A s \in Subject : status[s] = "none" /\ results[s] = 0
  BY DEF Init
<1>3. \A d \in Asker : step[d] = "idle"
  BY <1>1, Kinds DEF Caller
<1>4. Owned
  BY <1>1, Kinds DEF Owned, OneAsker, Asking
<1>5. Numbered /\ Claims
  BY <1>2, <1>3, Kinds DEF Numbered, FreshAsks, Claims
<1>6. Closed /\ ResultOnce /\ ToldOrRaised
  BY <1>1, <1>2, Kinds DEF Closed, ResultOnce, ToldOrRaised
<1> QED
  BY <1>4, <1>5, <1>6, TypeInit DEF IInv

(* Inductive: IInv holds in every state the rows, the calls and the pollers *)
(* can reach.                                                              *)
THEOREM Inductive == Spec => []IInv
<1>1. IInv /\ [Next]_vars => IInv'
  BY TypeStep, OwnedStep, NumberedStep, ClaimsStep, ClosedStep, ToldStep DEF IInv
<1> QED
  BY <1>1, IInvInit, PTL DEF Spec

(* TypeCorrect: the columns of a row stay consistent: a closed request has  *)
(* no reminder left, an open one has a deadline (store.ts:149-158).        *)
THEOREM TypeCorrect == Spec => []TypeOK
<1>1. IInv => TypeOK
  BY DEF IInv
<1> QED
  BY <1>1, Inductive, PTL

(* AskedByOne: of any number of calls that race to open one subject, in     *)
(* whatever processes, one dispatches the first ask (engine.ts:97-98).     *)
THEOREM AskedByOne == Spec => []OneAsker
<1>1. IInv => OneAsker
  BY DEF IInv, Owned
<1> QED
  BY <1>1, Inductive, PTL

(* AsksAreFresh: however many pollers race for a reminder, no two asks of a *)
(* request have one id, and the dedupe swallows none (poller.ts:71-72).    *)
THEOREM AsksAreFresh == Spec => []FreshAsks
<1>1. IInv => FreshAsks
  BY DEF IInv, Numbered
<1> QED
  BY <1>1, Inductive, PTL

(* ToldAtMostOnce: however many answers race, with each other and with the  *)
(* expiry, the origin room gets one result (store.ts:149-150).             *)
THEOREM ToldAtMostOnce == Spec => []ResultOnce
<1>1. IInv => ResultOnce
  BY DEF IInv
<1> QED
  BY <1>1, Inductive, PTL

(* NeverClosedInSilence: a request that an answer closed was told to the    *)
(* origin, is about to be, or its answerer saw an error (engine.ts:252).   *)
THEOREM NeverClosedInSilence == Spec => []ToldOrRaised
<1>1. IInv => ToldOrRaised
  BY DEF IInv
<1> QED
  BY <1>1, Inductive, PTL
=============================================================================
