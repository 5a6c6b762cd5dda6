------------------------- MODULE AnnouncementsProofs -------------------------
(***************************************************************************)
(* Theorems about Announcements, for every set of drafts, rooms, callers,  *)
(* deciders and pollers, every limit and every number of faults. One       *)
(* inductive invariant, IInv, carries them all.                            *)
(***************************************************************************)
EXTENDS Announcements, TLAPS

\* The types that TypeOK gives point by point.
Shapes ==
  /\ batch \in [Poller -> SUBSET Item]
  /\ hand \in [Poller -> Item \cup {<<>>}]
  /\ report.step # "none" =>
       /\ report.of \in Announcement
       /\ report.state \in {"Awaiting", "Approved", "Rejected"}
       /\ report.sent \subseteq Delivery /\ report.failed \subseteq Delivery
  /\ report.step # "none" =>
       report = [step |-> report.step, of |-> report.of, state |-> report.state,
                 sent |-> report.sent, failed |-> report.failed]

\* A caller that has taken its draft, or created an announcement from it.
Took(c) == qstep[c] \in {"rooms", "create"} \/ state[c] # "none"

\* A draft is taken once, by its author, and let through by its flow.
Drafts ==
  /\ \A c \in Caller : qstep[c] = "take" \/ Took(c) => SendGate(FlowOf[c], role[c])
  /\ \A c \in Caller : Took(c) => c \notin stranger /\ draft[DraftOf[c]] = "gone"
  /\ \A c, e \in Caller : Took(c) /\ Took(e) /\ DraftOf[c] = DraftOf[e] => c = e
  /\ \A c \in Caller : state[c] # "none" => qstep[c] \in {"awaiting_approval", "raised"}

\* The state that a verdict leaves an announcement in.
StateFor(v) == IF v = "approved" THEN "Approved" ELSE "Rejected"

\* Whoever reports a decision found it in the table; only an approved
\* announcement has marks, attempts and receivers.
Decisions ==
  /\ \A d \in Delivery : state[d[1]] # "Approved" =>
       mark[d] = 0 /\ attempts[d] = 0 /\ received[d] = 0
  /\ \A c \in Decider : dstep[c] = "stateOf" => VerdictOf[c] = "approved"
  /\ \A c \in Decider : dstep[c] = "origin" => state[of[c]] = StateFor(VerdictOf[c])
  /\ \A a \in Announcement, v \in Verdict : told[a][v] > 0 => state[a] = StateFor(v)

\* A row as a tick remembers it: the mark and the attempts went together, and
\* a mark that still stands is due.
Remembered(item) ==
  LET d == item[1] IN
  /\ item[2] > 0 /\ item[3] = item[2] - 1
  /\ state[d[1]] = "Approved" /\ status[d] # "none"
  /\ status[d] = "Pending" => /\ item[2] <= mark[d]
                              /\ item[2] = mark[d] => past[d]

\* A row in the hands of a poller: claimed, so its attempt is counted.
Claimed(p) ==
  LET d == hand[p][1] IN
  /\ state[d[1]] = "Approved" /\ status[d] # "none"
  /\ attempts[d] >= hand[p][3] + 1
  /\ pstep[p] \in {"sent", "history"} => received[d] > 0

Batches ==
  /\ \A p \in Poller : \A item \in batch[p] : Remembered(item)
  /\ \A p \in Poller : hand[p] = <<>> <=> pstep[p] \in {"rest", "claim"}
  /\ \A p \in Poller : hand[p] # <<>> => Claimed(p)
  /\ \A d \in Delivery : status[d] = "Sent" => received[d] > 0
  /\ \A d \in Delivery : status[d] = "Failed" => attempts[d] >= MaxAttempts

\* The text reached the group and the row does not say so yet.
Unwritten(d) == \E p \in Poller : pstep[p] = "sent" /\ hand[p][1] = d

\* When deliveries end before their back-off, one poller at a time has a row,
\* and nobody else changes it.
InTime ==
  ~SlowTicks =>
    /\ \A p, q \in Poller : hand[p] # <<>> /\ hand[q] # <<>> /\ p # q
                              => hand[p][1] # hand[q][1]
    /\ \A p \in Poller : hand[p] # <<>> => ~past[hand[p][1]]
    /\ \A p \in Poller : pstep[p] \in {"send", "failed", "sent"} =>
         status[hand[p][1]] = "Pending"
    /\ \A p \in Poller : pstep[p] = "history" => status[hand[p][1]] = "Sent"
    /\ \A d \in Delivery : received[d] <= faults + 1
    /\ \A d \in Delivery : received[d] <= faults \/ status[d] = "Sent" \/ Unwritten(d)
    /\ \A d \in history : status[d] = "Sent"

\* What the status tool has read stays so.
Told ==
  report.step # "none" =>
    /\ \A d \in report.sent : received[d] > 0 /\ status[d] = "Sent"
    /\ \A d \in report.failed : status[d] = "Failed"
    /\ report.state # "Awaiting" => state[report.of] = report.state

IInv ==
  TypeOK /\ Shapes /\ Drafts /\ Decisions /\ Batches /\ InTime /\ Told

-----------------------------------------------------------------------------
LEMMA ItemShape ==
  ASSUME NEW item \in Item
  PROVE  /\ item # <<>>
         /\ item[1] \in Delivery /\ item[2] \in Nat /\ item[3] \in Nat
         /\ item[1][1] \in Announcement
BY DEF Item, Delivery

\* The types of the variables, function by function.
Typed ==
  /\ draft \in [Draft -> {"none", "live", "gone"}]
  /\ blocked \subseteq Room
  /\ state \in [Announcement -> {"none", "Awaiting", "Approved", "Rejected"}]
  /\ status \in [Delivery -> {"none", "Pending", "Sent", "Failed"}]
  /\ attempts \in [Delivery -> Nat]
  /\ mark \in [Delivery -> Nat]
  /\ past \in [Delivery -> BOOLEAN]
  /\ received \in [Delivery -> Nat]
  /\ history \subseteq Delivery
  /\ told \in [Announcement -> [Verdict -> Nat]]
  /\ qstep \in [Caller -> QueueStep]
  /\ rooms \in [Caller -> SUBSET Room]
  /\ dstep \in [Decider -> DecideStep]
  /\ of \in [Decider -> Announcement]
  /\ pstep \in [Poller -> {"rest", "claim", "send", "failed", "sent", "history"}]
  /\ batch \in [Poller -> SUBSET Item]
  /\ hand \in [Poller -> Item \cup {<<>>}]
  /\ faults \in Nat
  /\ DraftOf \in [Caller -> Draft] /\ VerdictOf \in [Decider -> Verdict]

LEMMA Types == ASSUME TypeOK, Shapes PROVE Typed
BY AnnouncementsAssumption DEF TypeOK, Shapes, Typed

\* The hands of a poller that is at work.
LEMMA Hands ==
  ASSUME Typed, Batches, NEW p \in Poller, pstep[p] \notin {"rest", "claim"}
  PROVE  hand[p] \in Item /\ hand[p] # <<>>
BY DEF Typed, Batches

LEMMA TypeInit == Init => TypeOK /\ Shapes
<1> SUFFICES ASSUME Init PROVE TypeOK /\ Shapes
  OBVIOUS
<1>1. report.step = "none"
  BY DEF Init, NoReport
<1> QED
  BY <1>1, AnnouncementsAssumption
  DEF Init, TypeOK, Shapes, Columns, QueueStep, DecideStep

-----------------------------------------------------------------------------
(* Types                                                                   *)

LEMMA QueueTypeStep ==
  ASSUME TypeOK, Shapes, [Next]_vars
  PROVE  /\ draft' \in [Draft -> {"none", "live", "gone"}]
         /\ blocked' \subseteq Room
         /\ qstep' \in [Caller -> QueueStep]
         /\ rooms' \in [Caller -> SUBSET Room]
         /\ dstep' \in [Decider -> DecideStep]
         /\ UNCHANGED <<stranger, of, role>>
<1>a. /\ draft \in [Draft -> {"none", "live", "gone"}]
      /\ blocked \subseteq Room
      /\ qstep \in [Caller -> QueueStep]
      /\ rooms \in [Caller -> SUBSET Room]
      /\ dstep \in [Decider -> DecideStep]
      /\ VerdictOf \in [Decider -> Verdict]
  BY AnnouncementsAssumption DEF TypeOK
<1>b. /\ {"take", "denied", "no_approver", "not_author", "rooms", "expired", "raised",
          "no_room", "create", "awaiting_approval"} \subseteq QueueStep
      /\ {"stateOf", "origin", "raised", "not_found"} \cup Verdict \subseteq DecideStep
  BY DEF QueueStep, DecideStep, Verdict
<1>1. ASSUME NEW r \in Room, Block(r) PROVE blocked' \subseteq Room
  BY <1>1, <1>a DEF Block
<1>2. ASSUME NEW n \in Draft, PutDraft(n) \/ ExpireDraft(n)
      PROVE  draft' \in [Draft -> {"none", "live", "gone"}]
  BY <1>2, <1>a DEF PutDraft, ExpireDraft
<1>3. ASSUME NEW c \in Caller, Queue(c) PROVE qstep' \in [Caller -> QueueStep]
  BY <1>3, <1>a, <1>b DEF Queue, QGoto
<1>4. ASSUME NEW c \in Caller, Take(c)
      PROVE  qstep' \in [Caller -> QueueStep] /\ draft' \in [Draft -> {"none", "live", "gone"}]
  <2>1. PICK s \in QueueStep : qstep' = [qstep EXCEPT ![c] = s]
    BY <1>4, <1>b DEF Take, QGoto
  <2>2. draft' \in {draft, [draft EXCEPT ![DraftOf[c]] = "gone"]}
    BY <1>4 DEF Take
  <2> QED
    BY <1>a, <2>1, <2>2
<1>5. ASSUME NEW c \in Caller, ReadRooms(c)
      PROVE  qstep' \in [Caller -> QueueStep] /\ rooms' \in [Caller -> SUBSET Room]
  BY <1>5, <1>a, <1>b DEF ReadRooms, QGoto
<1>6. ASSUME NEW c \in Caller, Create(c)
      PROVE  qstep' \in [Caller -> QueueStep] /\ rooms' \in [Caller -> SUBSET Room]
  BY <1>6, <1>a, <1>b DEF Create, QGoto
<1>7. ASSUME NEW c \in Decider, DeciderNext(c) PROVE dstep' \in [Decider -> DecideStep]
  <2>1. PICK s \in DecideStep : dstep' = [dstep EXCEPT ![c] = s]
    BY <1>7, <1>a, <1>b DEF DeciderNext, Approve, StateOf, Reject, NotifyOrigin, DGoto
  <2> QED
    BY <1>a, <2>1
<1>8. CASE \E p \in Poller : PollerNext(p) \/ Crash(p)
  BY <1>8, <1>a DEF PollerNext, Tick, Claim, Send, MarkFailed, MarkSent, AppendHistory, Crash,
                    queuing, given
<1> QED
  BY <1>a, <1>1, <1>2, <1>3, <1>4, <1>5, <1>6, <1>7, <1>8
  DEF Next, vars, CallerNext, DeciderNext, Block, PutDraft, ExpireDraft, Queue, Take,
      ReadRooms, Create, Approve, StateOf, Reject, NotifyOrigin, Elapse, ReadHead, ReadRows,
      queuing, given

\* Decisions is needed for the columns of the rows that an approval unlocks,
\* Batches for those that a poller claims.
LEMMA RowTypeStep ==
  ASSUME TypeOK, Shapes, Drafts, Decisions, Batches, [Next]_vars
  PROVE  /\ state' \in [Announcement -> {"none", "Awaiting", "Approved", "Rejected"}]
         /\ status' \in [Delivery -> {"none", "Pending", "Sent", "Failed"}]
         /\ attempts' \in [Delivery -> Nat]
         /\ mark' \in [Delivery -> Nat]
         /\ past' \in [Delivery -> BOOLEAN]
         /\ Columns'
<1> DEFINE Rows ==
      /\ state' \in [Announcement -> {"none", "Awaiting", "Approved", "Rejected"}]
      /\ status' \in [Delivery -> {"none", "Pending", "Sent", "Failed"}]
      /\ attempts' \in [Delivery -> Nat]
      /\ mark' \in [Delivery -> Nat]
      /\ past' \in [Delivery -> BOOLEAN]
      /\ Columns'
<1> SUFFICES Rows
  OBVIOUS
<1>a. /\ state \in [Announcement -> {"none", "Awaiting", "Approved", "Rejected"}]
      /\ status \in [Delivery -> {"none", "Pending", "Sent", "Failed"}]
      /\ attempts \in [Delivery -> Nat]
      /\ mark \in [Delivery -> Nat]
      /\ past \in [Delivery -> BOOLEAN]
      /\ of \in [Decider -> Announcement]
      /\ hand \in [Poller -> Item \cup {<<>>}]
      /\ batch \in [Poller -> SUBSET Item]
      /\ \A d \in Delivery : d[1] \in Announcement
  BY Types DEF Typed, Delivery
<1>b. Columns
  BY DEF TypeOK
<1>1. CASE UNCHANGED <<state, rows>>
  BY <1>1, <1>a, <1>b DEF rows, Columns
<1>2. ASSUME NEW c \in Caller, Create(c) PROVE Rows
  <2>1. CASE UNCHANGED <<state, status>>
    BY <1>1, <1>2, <2>1 DEF Create, rows
  <2>2. CASE /\ state' = [state EXCEPT ![c] = "Awaiting"]
             /\ status' = [d \in Delivery |-> IF d[1] = c /\ d[2] \in rooms[c]
                                                THEN "Pending" ELSE status[d]]
    <3>1. UNCHANGED <<attempts, mark, past>> /\ qstep[c] = "create"
      BY <1>2 DEF Create
    <3>2. state[c] = "none"
      BY <3>1 DEF Drafts
    <3>3. c \in Announcement
      BY DEF Announcement
    <3>4. \A d \in Delivery : d[1] = c => mark[d] = 0 /\ attempts[d] = 0
      BY <3>2 DEF Decisions
    <3> QED
      BY <1>a, <1>b, <2>2, <3>1, <3>3, <3>4 DEF Columns
  <2> QED
    BY <1>2, <2>1, <2>2 DEF Create
<1>3. ASSUME NEW c \in Decider, Approve(c) PROVE Rows
  <2>1. CASE UNCHANGED <<state, rows>>
    BY <1>1, <2>1
  <2>2. CASE state[of[c]] = "Awaiting" /\ state' = [state EXCEPT ![of[c]] = "Approved"]
             /\ Unlock(Unlocked(of[c]))
    <3>1. \A d \in Unlocked(of[c]) : /\ d \in Delivery /\ status[d] = "Pending"
                                     /\ d[1] = of[c] /\ attempts[d] = 0
      BY <2>2 DEF Unlocked, Decisions
    <3>2. UNCHANGED <<status, attempts>>
          /\ mark' = [d \in Delivery |-> IF d \in Unlocked(of[c]) THEN 1 ELSE mark[d]]
          /\ past' = [d \in Delivery |-> IF d \in Unlocked(of[c]) THEN TRUE ELSE past[d]]
      BY <2>2 DEF Unlock
    <3>3. /\ state' \in [Announcement -> {"none", "Awaiting", "Approved", "Rejected"}]
          /\ mark' \in [Delivery -> Nat] /\ past' \in [Delivery -> BOOLEAN]
      BY <1>a, <2>2, <3>2
    <3>4. Columns'
      BY <1>a, <1>b, <2>2, <3>1, <3>2 DEF Columns
    <3> QED
      BY <1>a, <3>2, <3>3, <3>4
  <2> QED
    BY <1>3, <2>1, <2>2 DEF Approve
<1>4. ASSUME NEW c \in Decider, Reject(c) PROVE Rows
  <2>1. UNCHANGED rows
    BY <1>4 DEF Reject
  <2>2. state' = state \/ state' = [state EXCEPT ![of[c]] = "Rejected"]
    BY <1>4 DEF Reject
  <2> QED
    BY <1>a, <1>b, <2>1, <2>2 DEF rows, Columns
<1>5. ASSUME NEW d \in Delivery, Elapse(d) PROVE Rows
  <2>1. UNCHANGED <<state, status, attempts, mark>> /\ mark[d] > 0
        /\ past' = [past EXCEPT ![d] = TRUE]
    BY <1>5 DEF Elapse
  <2> QED
    BY <1>a, <1>b, <2>1 DEF Columns
<1>6. ASSUME NEW p \in Poller, Claim(p) PROVE Rows
  <2>1. PICK item \in batch[p] :
          LET d == item[1] IN
          \/ /\ Free(item)
             /\ mark' = [mark EXCEPT ![d] = @ + 1]
             /\ past' = [past EXCEPT ![d] = FALSE]
             /\ attempts' = [attempts EXCEPT ![d] = @ + 1]
          \/ UNCHANGED <<mark, past, attempts>>
    BY <1>6 DEF Claim
  <2>2. UNCHANGED <<state, status>>
    BY <1>6 DEF Claim
  <2>3. CASE UNCHANGED <<mark, past, attempts>>
    BY <1>1, <2>2, <2>3 DEF rows
  <2>4. CASE /\ Free(item)
             /\ mark' = [mark EXCEPT ![item[1]] = @ + 1]
             /\ past' = [past EXCEPT ![item[1]] = FALSE]
             /\ attempts' = [attempts EXCEPT ![item[1]] = @ + 1]
    <3>1. item \in Item /\ Remembered(item)
      BY <1>a DEF Batches
    <3>2. item[1] \in Delivery /\ mark[item[1]] > 0 /\ status[item[1]] = "Pending"
      BY <2>4, <3>1, ItemShape DEF Free, Remembered
    <3>3. attempts[item[1]] = mark[item[1]] - 1
      BY <1>b, <3>2 DEF Columns
    <3> QED
      BY <1>a, <1>b, <2>2, <2>4, <3>2, <3>3 DEF Columns
  <2> QED
    BY <2>1, <2>3, <2>4
<1>7. ASSUME NEW p \in Poller, MarkFailed(p) \/ MarkSent(p) PROVE Rows
  <2>1. hand[p] \in Item
    BY <1>7, Types, Hands DEF MarkFailed, MarkSent
  <2>2. hand[p][1] \in Delivery
    BY <2>1, ItemShape
  <2>3. UNCHANGED <<state, attempts>>
    BY <1>7 DEF MarkFailed, MarkSent
  <2>4. CASE UNCHANGED <<status, mark, past>>
    BY <1>1, <2>3, <2>4 DEF rows
  <2>5. ASSUME NEW v \in {"Sent", "Failed"}, Close(hand[p][1], v), status[hand[p][1]] = "Pending"
        PROVE Rows
    BY <1>a, <1>b, <2>2, <2>3, <2>5 DEF Close, Columns
  <2> QED
    BY <1>7, <2>4, <2>5 DEF MarkFailed, MarkSent
<1> QED
  BY <1>1, <1>2, <1>3, <1>4, <1>5, <1>6, <1>7
  DEF Next, vars, CallerNext, DeciderNext, PollerNext, Block, PutDraft, ExpireDraft, Queue, Take,
      ReadRooms, StateOf, NotifyOrigin, ReadHead, ReadRows, Tick, Send, AppendHistory, Crash

LEMMA TickTypeStep ==
  ASSUME TypeOK, Shapes, Batches, [Next]_vars
  PROVE  /\ received' \in [Delivery -> Nat]
         /\ history' \subseteq Delivery
         /\ told' \in [Announcement -> [Verdict -> Nat]]
         /\ pstep' \in [Poller -> {"rest", "claim", "send", "failed", "sent", "history"}]
         /\ batch' \in [Poller -> SUBSET Item]
         /\ hand' \in [Poller -> Item \cup {<<>>}]
         /\ faults' \in 0..MaxFaults
<1> DEFINE Ticks ==
         /\ received' \in [Delivery -> Nat]
         /\ history' \subseteq Delivery
         /\ told' \in [Announcement -> [Verdict -> Nat]]
         /\ pstep' \in [Poller -> {"rest", "claim", "send", "failed", "sent", "history"}]
         /\ batch' \in [Poller -> SUBSET Item]
         /\ hand' \in [Poller -> Item \cup {<<>>}]
         /\ faults' \in 0..MaxFaults
<1> SUFFICES Ticks
  OBVIOUS
<1>a. /\ received \in [Delivery -> Nat]
      /\ history \subseteq Delivery
      /\ told \in [Announcement -> [Verdict -> Nat]]
      /\ pstep \in [Poller -> {"rest", "claim", "send", "failed", "sent", "history"}]
      /\ batch \in [Poller -> SUBSET Item]
      /\ hand \in [Poller -> Item \cup {<<>>}]
      /\ mark \in [Delivery -> Nat] /\ attempts \in [Delivery -> Nat]
      /\ of \in [Decider -> Announcement] /\ VerdictOf \in [Decider -> Verdict]
  BY Types DEF Typed
<1>b. faults \in 0..MaxFaults /\ (faults' = faults \/ Fault => faults' \in 0..MaxFaults)
  BY AnnouncementsAssumption DEF Fault, TypeOK
<1>c. ASSUME UNCHANGED <<received, history, told>>, faults' = faults \/ Fault,
             NEW p \in Poller, NEW s \in {"rest", "claim", "send", "failed", "sent", "history"},
             NEW b \in SUBSET Item, NEW h \in Item \cup {<<>>},
             pstep' = [pstep EXCEPT ![p] = s], batch' = [batch EXCEPT ![p] = b],
             hand' = [hand EXCEPT ![p] = h]
      PROVE  Ticks
  BY <1>a, <1>b, <1>c
<1>1. CASE UNCHANGED <<received, history, told, ticks>> /\ (faults' = faults \/ Fault)
  BY <1>1, <1>a, <1>b DEF ticks
<1>2. ASSUME NEW c \in Decider, NotifyOrigin(c) PROVE Ticks
  <2> DEFINE more == [told[of[c]] EXCEPT ![VerdictOf[c]] = @ + 1]
  <2>1. told' = told \/ told' = [told EXCEPT ![of[c]] = more]
    BY <1>2 DEF NotifyOrigin
  <2>2. more \in [Verdict -> Nat]
    BY <1>a
  <2> HIDE DEF more
  <2>3. told' \in [Announcement -> [Verdict -> Nat]]
    BY <1>a, <2>1, <2>2
  <2> QED
    BY <1>2, <1>a, <1>b, <2>3 DEF NotifyOrigin, ticks
<1>3. ASSUME NEW p \in Poller, Tick(p) PROVE Ticks
  <2>1. Due \subseteq Item
    BY <1>a DEF Due, Item
  <2>2. PICK lot \in SUBSET Item :
          /\ batch' = [batch EXCEPT ![p] = lot]
          /\ pstep' = [pstep EXCEPT ![p] = "claim"]
    BY <1>3, <2>1 DEF Tick
  <2> QED
    BY <1>3, <1>a, <1>b, <2>2 DEF Tick, outside
<1>4. ASSUME NEW p \in Poller, NEW rest \in SUBSET Item, Proceed(p, rest),
             UNCHANGED <<received, history, told>>, faults' = faults \/ Fault
      PROVE  Ticks
  BY <1>4, <1>c DEF Proceed
<1>5. ASSUME NEW p \in Poller, Claim(p) PROVE Ticks
  <2>1. PICK item \in batch[p] :
          \/ /\ hand' = [hand EXCEPT ![p] = item]
             /\ batch' = [batch EXCEPT ![p] = batch[p] \ {item}]
             /\ pstep' = [pstep EXCEPT ![p] = "send"]
          \/ Proceed(p, batch[p] \ {item})
    BY <1>5 DEF Claim
  <2>2. item \in Item /\ batch[p] \ {item} \in SUBSET Item
    BY <1>a
  <2>3. UNCHANGED <<received, history, told>> /\ (faults' = faults \/ Fault)
    BY <1>5 DEF Claim, outside
  <2> QED
    BY <1>4, <1>c, <2>1, <2>2, <2>3
<1>6. ASSUME NEW p \in Poller, Send(p) PROVE Ticks
  <2>1. hand[p][1] \in Delivery
    BY <1>6, Types, Hands, ItemShape DEF Send
  <2>2. received' = received \/ received' = [received EXCEPT ![hand[p][1]] = @ + 1]
    BY <1>6 DEF Send
  <2>3. received' \in [Delivery -> Nat]
    <3> DEFINE d == hand[p][1]
    <3>1. received[d] + 1 \in Nat
      BY <1>a, <2>1
    <3>2. received' = received \/ received' = [received EXCEPT ![d] = received[d] + 1]
      BY <2>2
    <3> HIDE DEF d
    <3> QED
      BY <1>a, <3>1, <3>2
  <2>4. faults' = faults \/ Fault
    BY <1>6 DEF Send
  <2>5. pstep' \in [Poller -> {"rest", "claim", "send", "failed", "sent", "history"}]
    BY <1>6, <1>a DEF Send
  <2> QED
    BY <1>6, <1>a, <1>b, <2>3, <2>4, <2>5 DEF Send
<1>7. ASSUME NEW p \in Poller, MarkFailed(p) PROVE Ticks
  <2>1. UNCHANGED <<received, history, told>> /\ (faults' = faults \/ Fault) /\ Proceed(p, batch[p])
    BY <1>7 DEF MarkFailed, outside
  <2> QED
    BY <1>4, <1>a, <2>1
<1>8. ASSUME NEW p \in Poller, MarkSent(p) PROVE Ticks
  <2>1. UNCHANGED <<received, history, told>> /\ (faults' = faults \/ Fault)
    BY <1>8 DEF MarkSent, outside
  <2>2. CASE Proceed(p, batch[p])
    BY <1>4, <1>a, <2>1, <2>2
  <2>3. CASE pstep' = [pstep EXCEPT ![p] = "history"] /\ UNCHANGED <<batch, hand>>
    BY <1>a, <1>b, <2>1, <2>3
  <2> QED
    BY <1>8, <2>2, <2>3 DEF MarkSent
<1>9. ASSUME NEW p \in Poller, AppendHistory(p) PROVE Ticks
  <2>1. hand[p][1] \in Delivery
    BY <1>9, Types, Hands, ItemShape DEF AppendHistory
  <2>2. history' \subseteq Delivery
    BY <1>9, <1>a, <2>1 DEF AppendHistory
  <2>3. UNCHANGED <<received, told>> /\ (faults' = faults \/ Fault) /\ Proceed(p, batch[p])
    BY <1>9 DEF AppendHistory
  <2> QED
    BY <1>a, <1>b, <2>2, <2>3 DEF Proceed
<1>10. ASSUME NEW p \in Poller, Crash(p) PROVE Ticks
  BY <1>10, <1>c DEF Crash, outside
<1> QED
  BY <1>1, <1>2, <1>3, <1>5, <1>6, <1>7, <1>8, <1>9, <1>10
  DEF Next, vars, outside, CallerNext, DeciderNext, PollerNext, Block, PutDraft, ExpireDraft,
      Queue, Take, ReadRooms, Create, Approve, StateOf, Reject, Elapse, ReadHead, ReadRows

LEMMA ReportTypeStep ==
  ASSUME TypeOK, Shapes, [Next]_vars
  PROVE  /\ report'.step \in {"none", "rows", "told"}
         /\ report'.step # "none" =>
              /\ report'.of \in Announcement
              /\ report'.state \in {"Awaiting", "Approved", "Rejected"}
              /\ report'.sent \subseteq Delivery /\ report'.failed \subseteq Delivery
              /\ report'.sent \cap report'.failed = {}
              /\ report' = [step |-> report'.step, of |-> report'.of, state |-> report'.state,
                            sent |-> report'.sent, failed |-> report'.failed]
<1>1. CASE UNCHANGED report
  BY <1>1 DEF TypeOK, Shapes
<1>2. ASSUME NEW c \in Caller, NEW a \in Announcement, ReadHead(c, a)
      PROVE  report' = [step |-> "rows", of |-> a, state |-> state[a], sent |-> {}, failed |-> {}]
             /\ state[a] \in {"Awaiting", "Approved", "Rejected"}
  BY <1>2 DEF ReadHead, TypeOK
<1>3. ASSUME ReadRows
      PROVE  \E sent, failed \in SUBSET Delivery :
               /\ sent \cap failed = {}
               /\ report' = [step |-> "told", of |-> report.of, state |-> report.state,
                             sent |-> sent, failed |-> failed]
  <2> DEFINE With(st) == IF report.state = "Approved"
                           THEN {d \in Delivery : d[1] = report.of /\ status[d] = st} ELSE {}
  <2>1. /\ With("Sent") \subseteq Delivery /\ With("Failed") \subseteq Delivery
        /\ With("Sent") \cap With("Failed") = {}
    OBVIOUS
  <2>2. report' = [step |-> "told", of |-> report.of, state |-> report.state,
                   sent |-> With("Sent"), failed |-> With("Failed")]
    BY <1>3 DEF ReadRows
  <2> HIDE DEF With
  <2> QED
    BY <2>1, <2>2
<1>4. ASSUME ReadRows PROVE report.step # "none"
  BY <1>4 DEF ReadRows
<1>5. CASE \E c \in Caller : \E a \in Announcement : ReadHead(c, a)
  BY <1>2, <1>5
<1>6. CASE ReadRows
  BY <1>3, <1>4, <1>6 DEF Shapes
<1> QED
  BY <1>1, <1>5, <1>6
  DEF Next, vars, given, CallerNext, DeciderNext, PollerNext, Block, PutDraft, ExpireDraft,
      Queue, Take, ReadRooms, Create, Approve, StateOf, Reject, NotifyOrigin, Elapse,
      Tick, Claim, Send, MarkFailed, MarkSent, AppendHistory, Crash

LEMMA TypeStep ==
  ASSUME TypeOK, Shapes, Drafts, Decisions, Batches, [Next]_vars
  PROVE  TypeOK' /\ Shapes'
<1>1. Shapes'
  BY TickTypeStep, ReportTypeStep DEF Shapes
<1>2. /\ stranger' \subseteq Caller /\ of' \in [Decider -> Announcement] /\ role' \in Casts
  BY QueueTypeStep DEF TypeOK
<1>3. \A p \in Poller : batch'[p] \subseteq Item /\ hand'[p] \in Item \cup {<<>>}
  BY TickTypeStep
<1> QED
  BY <1>1, <1>2, <1>3, QueueTypeStep, RowTypeStep, TickTypeStep, ReportTypeStep DEF TypeOK

-----------------------------------------------------------------------------
(* Drafts and decisions                                                    *)

LEMMA DraftsStep ==
  ASSUME Typed, Drafts, [Next]_vars
  PROVE  Drafts'
<1>a. /\ draft \in [Draft -> {"none", "live", "gone"}]
      /\ qstep \in [Caller -> QueueStep]
      /\ state \in [Caller -> {"none", "Awaiting", "Approved", "Rejected"}]
      /\ of \in [Decider -> Caller] /\ DraftOf \in [Caller -> Draft]
  BY DEF Typed, Announcement
<1>b. UNCHANGED <<stranger, role>>
  BY DEF Next, vars, given, CallerNext, DeciderNext, PollerNext, Block, PutDraft, ExpireDraft,
      Queue, Take, ReadRooms, Create, Approve, StateOf, Reject, NotifyOrigin, Elapse, ReadHead,
      ReadRows, Tick, Claim, Send, MarkFailed, MarkSent, AppendHistory, Crash
<1>1. ASSUME UNCHANGED qstep,
             \A n \in Draft : draft[n] = "gone" => draft'[n] = "gone",
             \A c \in Caller : state'[c] # "none" => state[c] # "none"
      PROVE  Drafts'
  BY <1>a, <1>b, <1>1 DEF Drafts, Took
<1>2. ASSUME NEW c \in Caller, Queue(c) PROVE Drafts'
  BY <1>a, <1>b, <1>2 DEF Queue, QGoto, Drafts, Took
<1>3. ASSUME NEW c \in Caller, Take(c) PROVE Drafts'
  <2>1. qstep[c] = "take" /\ UNCHANGED state
    BY <1>3 DEF Take
  <2>2. PICK s \in QueueStep :
          /\ qstep' = [qstep EXCEPT ![c] = s]
          /\ s \in {"rooms", "not_author", "expired", "raised"}
          /\ s = "rooms" => /\ draft[DraftOf[c]] = "live" /\ c \notin stranger
                            /\ draft' = [draft EXCEPT ![DraftOf[c]] = "gone"]
    BY <1>3 DEF Take, QGoto, QueueStep
  <2>3. \A n \in Draft : draft[n] = "gone" => draft'[n] = "gone"
    BY <1>3, <1>a DEF Take
  <2>4. state[c] = "none"
    BY <2>1 DEF Drafts
  <2>5. CASE s # "rooms"
    BY <1>a, <1>b, <2>1, <2>2, <2>3, <2>4, <2>5 DEF Drafts, Took
  <2>6. CASE s = "rooms"
    <3>1. \A e \in Caller : Took(e) => DraftOf[e] # DraftOf[c]
      BY <2>2, <2>6 DEF Drafts
    <3>2. \A e \in Caller : Took(e)' => e = c \/ Took(e)
      BY <1>a, <2>1, <2>2 DEF Took
    <3>3. draft'[DraftOf[c]] = "gone" /\ c \notin stranger
      BY <1>a, <2>2, <2>6
    <3>4. \A e \in Caller : Took(e)' => e \notin stranger' /\ draft'[DraftOf[e]] = "gone"
      BY <1>a, <1>b, <2>3, <3>2, <3>3 DEF Drafts
    <3>5. \A e, f \in Caller : Took(e)' /\ Took(f)' /\ DraftOf[e] = DraftOf[f] => e = f
      BY <3>1, <3>2 DEF Drafts
    <3>6. \A e \in Caller : qstep'[e] = "take" \/ Took(e)' => SendGate(FlowOf[e], role'[e])
      BY <1>a, <1>b, <2>1, <2>2, <3>2 DEF Drafts
    <3>7. \A e \in Caller : state'[e] # "none" => qstep'[e] \in {"awaiting_approval", "raised"}
      BY <1>a, <2>1, <2>2, <2>4 DEF Drafts
    <3> QED
      BY <3>4, <3>5, <3>6, <3>7 DEF Drafts
  <2> QED
    BY <2>5, <2>6
<1>4. ASSUME NEW c \in Caller, ReadRooms(c) PROVE Drafts'
  <2>1. PICK s \in {"no_room", "create"} : qstep' = [qstep EXCEPT ![c] = s]
    BY <1>4 DEF ReadRooms, QGoto
  <2>2. qstep[c] = "rooms" /\ UNCHANGED <<draft, state>>
    BY <1>4 DEF ReadRooms
  <2>3. \A e \in Caller : Took(e)' => Took(e)
    BY <1>a, <2>1, <2>2 DEF Took
  <2>4. \A e \in Caller : state'[e] # "none" => qstep'[e] \in {"awaiting_approval", "raised"}
    BY <1>a, <2>1, <2>2 DEF Drafts
  <2>5. \A e \in Caller : qstep'[e] = "take" => qstep[e] = "take"
    BY <1>a, <2>1
  <2> QED
    BY <1>b, <2>2, <2>3, <2>4, <2>5 DEF Drafts
<1>5. ASSUME NEW c \in Caller, Create(c) PROVE Drafts'
  <2>1. PICK s \in {"awaiting_approval", "raised"} : qstep' = [qstep EXCEPT ![c] = s]
    BY <1>5 DEF Create, QGoto
  <2>2. qstep[c] = "create" /\ UNCHANGED draft
        /\ (state' = state \/ state' = [state EXCEPT ![c] = "Awaiting"])
    BY <1>5 DEF Create
  <2>3. \A e \in Caller : Took(e)' => Took(e)
    BY <1>a, <2>1, <2>2 DEF Took
  <2>4. \A e \in Caller : state'[e] # "none" => qstep'[e] \in {"awaiting_approval", "raised"}
    BY <1>a, <2>1, <2>2 DEF Drafts
  <2>5. \A e \in Caller : qstep'[e] = "take" => qstep[e] = "take"
    BY <1>a, <2>1
  <2> QED
    BY <1>b, <2>2, <2>3, <2>4, <2>5 DEF Drafts
<1>6. ASSUME NEW c \in Decider, DeciderNext(c) PROVE Drafts'
  <2>1. UNCHANGED <<draft, qstep>>
    BY <1>6 DEF DeciderNext, Approve, StateOf, Reject, NotifyOrigin, queuing
  <2>2. \/ UNCHANGED state
        \/ state[of[c]] = "Awaiting" /\ \E v : state' = [state EXCEPT ![of[c]] = v]
    BY <1>6 DEF DeciderNext, Approve, StateOf, Reject, NotifyOrigin
  <2> QED
    BY <1>1, <1>a, <2>1, <2>2
<1>7. ASSUME NEW n \in Draft, PutDraft(n) \/ ExpireDraft(n) PROVE Drafts'
  BY <1>1, <1>7, <1>a DEF PutDraft, ExpireDraft, queuing
<1>8. CASE UNCHANGED <<draft, state, qstep>>
  BY <1>1, <1>8
<1> QED
  BY <1>2, <1>3, <1>4, <1>5, <1>6, <1>7, <1>8
  DEF Next, vars, queuing, CallerNext, PollerNext, Block, Elapse, ReadHead, ReadRows,
      Tick, Claim, Send, MarkFailed, MarkSent, AppendHistory, Crash

LEMMA DecisionsStep ==
  ASSUME Typed, Drafts, Decisions, Batches, [Next]_vars
  PROVE  Decisions'
<1>a. /\ state \in [Announcement -> {"none", "Awaiting", "Approved", "Rejected"}]
      /\ attempts \in [Delivery -> Nat] /\ mark \in [Delivery -> Nat]
      /\ received \in [Delivery -> Nat]
      /\ told \in [Announcement -> [Verdict -> Nat]]
      /\ dstep \in [Decider -> DecideStep]
      /\ of \in [Decider -> Announcement] /\ VerdictOf \in [Decider -> Verdict]
      /\ \A d \in Delivery : d[1] \in Announcement
  BY DEF Typed, Delivery
<1>b. UNCHANGED of
  BY DEF Next, vars, given, CallerNext, DeciderNext, PollerNext, Block, PutDraft, ExpireDraft,
      Queue, Take, ReadRooms, Create, Approve, StateOf, Reject, NotifyOrigin, Elapse, ReadHead,
      ReadRows, Tick, Claim, Send, MarkFailed, MarkSent, AppendHistory, Crash
<1> DEFINE Bare(d) == mark[d] = 0 /\ attempts[d] = 0 /\ received[d] = 0
<1>c. \A d \in Delivery : state[d[1]] # "Approved" => Bare(d)
  BY DEF Decisions
<1>1. ASSUME UNCHANGED <<dstep, told>>,
             \A a \in Announcement : state[a] \in {"Approved", "Rejected"} => state'[a] = state[a],
             \A d \in Delivery : state'[d[1]] # "Approved" => Bare(d)'
      PROVE  Decisions'
  BY <1>a, <1>b, <1>1 DEF Decisions, StateFor
<1>2. CASE UNCHANGED <<dstep, told, state, mark, attempts, received>>
  BY <1>1, <1>2, <1>c
<1>3. ASSUME NEW c \in Caller, Create(c) PROVE Decisions'
  <2>1. state[c] = "none" /\ c \in Announcement
    BY <1>3 DEF Create, Drafts, Announcement
  <2>2. UNCHANGED <<dstep, told, mark, attempts, received>>
    BY <1>3 DEF Create, outside
  <2>3. state' = state \/ state' = [state EXCEPT ![c] = "Awaiting"]
    BY <1>3 DEF Create
  <2>4. \A d \in Delivery : state'[d[1]] # "Approved" => Bare(d)'
    BY <1>a, <1>c, <2>1, <2>2, <2>3
  <2> QED
    BY <1>1, <1>a, <2>1, <2>2, <2>3, <2>4
<1>4. ASSUME NEW c \in Decider, Approve(c) \/ Reject(c) PROVE Decisions'
  <2>1. PICK s \in {"stateOf", "origin", "not_found", "raised"} : dstep' = [dstep EXCEPT ![c] = s]
          /\ (s = "stateOf" => VerdictOf[c] = "approved")
          /\ (s = "origin" => state'[of[c]] = StateFor(VerdictOf[c]))
    BY <1>4, <1>a DEF Approve, Reject, DGoto, StateFor
  <2>2. \/ UNCHANGED <<state, mark>>
        \/ /\ state[of[c]] = "Awaiting"
           /\ state' = [state EXCEPT ![of[c]] = StateFor(VerdictOf[c])]
           /\ \A d \in Delivery : d[1] # of[c] => mark'[d] = mark[d]
           /\ VerdictOf[c] = "rejected" => UNCHANGED mark
    BY <1>4 DEF Approve, Reject, Unlock, Unlocked, rows, StateFor
  <2>3. UNCHANGED <<attempts, received, told>>
    BY <1>4 DEF Approve, Reject, Unlock, rows, outside
  <2>4. \A a \in Announcement : state[a] \in {"Approved", "Rejected"} => state'[a] = state[a]
    BY <1>a, <2>2
  <2>5. \A d \in Delivery : state'[d[1]] # "Approved" => Bare(d)'
    BY <1>a, <1>c, <2>2, <2>3 DEF StateFor, Verdict
  <2>6. \A e \in Decider : dstep'[e] = "stateOf" => VerdictOf[e] = "approved"
    BY <1>a, <2>1 DEF Decisions
  <2>7. \A e \in Decider : dstep'[e] = "origin" => state'[of[e]] = StateFor(VerdictOf[e])
    BY <1>a, <2>1, <2>4 DEF Decisions, StateFor
  <2>8. \A a \in Announcement, v \in Verdict : told'[a][v] > 0 => state'[a] = StateFor(v)
    BY <2>3, <2>4 DEF Decisions, StateFor
  <2> QED
    BY <1>b, <2>5, <2>6, <2>7, <2>8 DEF Decisions
<1>5. ASSUME NEW c \in Decider, StateOf(c) PROVE Decisions'
  <2>1. dstep[c] = "stateOf" /\ VerdictOf[c] = "approved"
    BY <1>5 DEF StateOf, Decisions
  <2>2. PICK s \in {"origin", "not_found"} : dstep' = [dstep EXCEPT ![c] = s]
          /\ (s = "origin" => state[of[c]] = "Approved")
    BY <1>5 DEF StateOf, DGoto
  <2>3. UNCHANGED <<told, state, mark, attempts, received>>
    BY <1>5 DEF StateOf, rows, outside
  <2> QED
    BY <1>a, <1>b, <2>1, <2>2, <2>3 DEF Decisions, StateFor
<1>6. ASSUME NEW c \in Decider, NotifyOrigin(c) PROVE Decisions'
  <2> DEFINE more == [told[of[c]] EXCEPT ![VerdictOf[c]] = @ + 1]
  <2>1. dstep[c] = "origin" /\ state[of[c]] = StateFor(VerdictOf[c])
    BY <1>6 DEF NotifyOrigin, Decisions
  <2>2. dstep' = [dstep EXCEPT ![c] = VerdictOf[c]] /\ VerdictOf[c] \notin {"stateOf", "origin"}
    BY <1>6, <1>a DEF NotifyOrigin, DGoto, Verdict
  <2>3. UNCHANGED <<state, mark, attempts, received>>
    BY <1>6 DEF NotifyOrigin, rows
  <2>4. told' = told \/ told' = [told EXCEPT ![of[c]] = more]
    BY <1>6 DEF NotifyOrigin
  <2>5. \A v \in Verdict : v # VerdictOf[c] => more[v] = told[of[c]][v]
    BY <1>a
  <2> HIDE DEF more
  <2>6. \A a \in Announcement, v \in Verdict :
          told'[a][v] = told[a][v] \/ (a = of[c] /\ v = VerdictOf[c])
    BY <1>a, <2>4, <2>5
  <2>7. \A a \in Announcement, v \in Verdict : told'[a][v] > 0 => state'[a] = StateFor(v)
    BY <2>1, <2>3, <2>6 DEF Decisions
  <2> QED
    BY <1>a, <1>b, <2>2, <2>3, <2>7 DEF Decisions
<1>7. ASSUME NEW p \in Poller, Claim(p) PROVE Decisions'
  <2>1. PICK item \in batch[p] :
          \/ UNCHANGED <<mark, attempts>>
          \/ /\ mark' = [mark EXCEPT ![item[1]] = @ + 1]
             /\ attempts' = [attempts EXCEPT ![item[1]] = @ + 1]
    BY <1>7 DEF Claim
  <2>2. state[item[1][1]] = "Approved"
    BY DEF Batches, Remembered
  <2>3. UNCHANGED <<dstep, told, state, received>>
    BY <1>7 DEF Claim, outside
  <2>4. \A d \in Delivery : state'[d[1]] # "Approved" => Bare(d)'
    BY <1>a, <1>c, <2>1, <2>2, <2>3
  <2> QED
    BY <1>1, <2>3, <2>4
<1>8. ASSUME NEW p \in Poller, Send(p) PROVE Decisions'
  <2>1. state[hand[p][1][1]] = "Approved"
    BY <1>8, Hands DEF Send, Batches, Claimed
  <2>2. received' = received \/ received' = [received EXCEPT ![hand[p][1]] = @ + 1]
    BY <1>8 DEF Send
  <2>3. UNCHANGED <<dstep, told, state, mark, attempts>>
    BY <1>8 DEF Send, rows
  <2>4. \A d \in Delivery : state'[d[1]] # "Approved" => Bare(d)'
    BY <1>a, <1>c, <2>1, <2>2, <2>3
  <2> QED
    BY <1>1, <2>3, <2>4
<1>9. ASSUME NEW p \in Poller, MarkFailed(p) \/ MarkSent(p) PROVE Decisions'
  <2>1. UNCHANGED <<dstep, told, state, attempts, received>>
    BY <1>9 DEF MarkFailed, MarkSent, outside
  <2>2. mark' = mark \/ mark' = [mark EXCEPT ![hand[p][1]] = 0]
    BY <1>9 DEF MarkFailed, MarkSent, Close
  <2>3. \A d \in Delivery : state'[d[1]] # "Approved" => Bare(d)'
    BY <1>a, <1>c, <2>1, <2>2
  <2> QED
    BY <1>1, <2>1, <2>3
<1> QED
  BY <1>2, <1>3, <1>4, <1>5, <1>6, <1>7, <1>8, <1>9
  DEF Next, vars, rows, outside, CallerNext, DeciderNext, PollerNext, Block, PutDraft, ExpireDraft,
      Queue, Take, ReadRooms, Elapse, ReadHead, ReadRows, Tick, AppendHistory, Crash

-----------------------------------------------------------------------------
(* Batches and hands                                                       *)

\* What no step takes back from a row that some tick has read.
Later(d) ==
  /\ state[d[1]] = "Approved" => state'[d[1]] = "Approved"
  /\ status[d] # "none" => status'[d] # "none"
  /\ attempts'[d] >= attempts[d] /\ received'[d] >= received[d]
  /\ status[d] # "none" /\ status'[d] = "Pending" =>
       /\ status[d] = "Pending" /\ mark'[d] >= mark[d]
       /\ mark'[d] = mark[d] /\ past[d] => past'[d]

LEMMA LaterStep ==
  ASSUME Typed, Columns, Drafts, Decisions, Batches, [Next]_vars
  PROVE  \A d \in Delivery : Later(d)
<1>a. /\ state \in [Announcement -> {"none", "Awaiting", "Approved", "Rejected"}]
      /\ status \in [Delivery -> {"none", "Pending", "Sent", "Failed"}]
      /\ attempts \in [Delivery -> Nat] /\ mark \in [Delivery -> Nat]
      /\ past \in [Delivery -> BOOLEAN]
      /\ received \in [Delivery -> Nat]
      /\ \A d \in Delivery : d[1] \in Announcement
  BY DEF Typed, Delivery
<1> SUFFICES ASSUME NEW d \in Delivery PROVE Later(d)
  OBVIOUS
<1>1. CASE UNCHANGED <<state, rows, received>>
  BY <1>1, <1>a DEF rows, Later
<1>2. ASSUME NEW c \in Caller, Create(c) PROVE Later(d)
  <2>1. state[c] = "none" /\ c \in Announcement
    BY <1>2 DEF Create, Drafts, Announcement
  <2>2. UNCHANGED <<mark, past, attempts, received>>
    BY <1>2 DEF Create, outside
  <2>3. state' = state \/ state' = [state EXCEPT ![c] = "Awaiting"]
    BY <1>2 DEF Create
  <2>5. \/ status' = status
        \/ status' = [e \in Delivery |-> IF e[1] = c /\ e[2] \in rooms[c]
                                           THEN "Pending" ELSE status[e]]
    BY <1>2 DEF Create
  <2>6. status'[d] # status[d] => d[1] = c /\ status'[d] = "Pending"
    BY <2>5
  <2>4. d[1] = c => status[d] = "none"
    BY <2>1 DEF Columns
  <2> QED
    BY <1>a, <2>1, <2>2, <2>3, <2>4, <2>6 DEF Later
<1>3. ASSUME NEW c \in Decider, Approve(c) \/ Reject(c) PROVE Later(d)
  <2>1. \/ UNCHANGED <<state, mark, past>>
        \/ /\ state[of[c]] = "Awaiting"
           /\ \E v : state' = [state EXCEPT ![of[c]] = v]
           /\ d[1] # of[c] => mark'[d] = mark[d] /\ past'[d] = past[d]
           /\ \/ mark'[d] = mark[d] /\ past'[d] = past[d]
              \/ mark'[d] = 1
    BY <1>3 DEF Approve, Reject, Unlock, Unlocked, rows
  <2>2. UNCHANGED <<status, attempts, received>>
    BY <1>3 DEF Approve, Reject, Unlock, rows, outside
  <2>3. d[1] = of[c] /\ state[of[c]] = "Awaiting" => mark[d] = 0
    BY DEF Decisions
  <2> QED
    BY <1>a, <2>1, <2>2, <2>3 DEF Later
<1>4. ASSUME NEW e \in Delivery, Elapse(e) PROVE Later(d)
  BY <1>4, <1>a DEF Elapse, outside, Later
<1>5. ASSUME NEW p \in Poller, Claim(p) PROVE Later(d)
  <2>1. PICK item \in batch[p] :
          \/ UNCHANGED <<mark, past, attempts>>
          \/ /\ mark' = [mark EXCEPT ![item[1]] = @ + 1]
             /\ past' = [past EXCEPT ![item[1]] = FALSE]
             /\ attempts' = [attempts EXCEPT ![item[1]] = @ + 1]
    BY <1>5 DEF Claim
  <2>2. UNCHANGED <<state, status, received>>
    BY <1>5 DEF Claim, outside
  <2> QED
    BY <1>a, <2>1, <2>2 DEF Later
<1>6. ASSUME NEW p \in Poller, Send(p) PROVE Later(d)
  <2>1. UNCHANGED <<state, rows>>
    BY <1>6 DEF Send
  <2>2. received' = received \/ received' = [received EXCEPT ![hand[p][1]] = @ + 1]
    BY <1>6 DEF Send
  <2> QED
    BY <1>a, <2>1, <2>2 DEF Later, rows
<1>7. ASSUME NEW p \in Poller, MarkFailed(p) \/ MarkSent(p) PROVE Later(d)
  <2>1. UNCHANGED <<state, attempts, received>>
    BY <1>7 DEF MarkFailed, MarkSent, outside
  <2>2. \/ UNCHANGED <<status, mark, past>>
        \/ \E v \in {"Sent", "Failed"} : Close(hand[p][1], v)
    BY <1>7 DEF MarkFailed, MarkSent
  <2> QED
    BY <1>a, <2>1, <2>2 DEF Later, Close
<1> QED
  BY <1>1, <1>2, <1>3, <1>4, <1>5, <1>6, <1>7
  DEF Next, vars, outside, CallerNext, DeciderNext, PollerNext, Block, PutDraft, ExpireDraft,
      Queue, Take, ReadRooms, StateOf, NotifyOrigin, ReadHead, ReadRows, Tick, AppendHistory, Crash

LEMMA RememberedLater ==
  ASSUME Typed, Typed', NEW item \in Item, Remembered(item), Later(item[1])
  PROVE  Remembered(item)'
<1> DEFINE d == item[1]
<1>1. /\ d \in Delivery /\ item[2] \in Nat
      /\ mark[d] \in Nat /\ mark'[d] \in Nat
  BY ItemShape DEF Typed
<1>2. /\ item[2] > 0 /\ item[3] = item[2] - 1
      /\ state[d[1]] = "Approved" /\ status[d] # "none"
      /\ status[d] = "Pending" => /\ item[2] <= mark[d]
                                  /\ item[2] = mark[d] => past[d]
  BY DEF Remembered
<1>3. /\ state'[d[1]] = "Approved" /\ status'[d] # "none"
      /\ status'[d] = "Pending" => /\ status[d] = "Pending" /\ mark'[d] >= mark[d]
                                   /\ mark'[d] = mark[d] /\ past[d] => past'[d]
  BY <1>2 DEF Later
<1> HIDE DEF d
<1>4. status'[d] = "Pending" => item[2] <= mark'[d] /\ (item[2] = mark'[d] => past'[d])
  BY <1>1, <1>2, <1>3
<1> QED
  BY <1>2, <1>3, <1>4 DEF Remembered, d

LEMMA ClaimedLater ==
  ASSUME Typed, Typed', NEW p \in Poller, hand[p] \in Item, Claimed(p), Later(hand[p][1]),
         hand'[p] = hand[p], pstep'[p] \in {"sent", "history"} => received'[hand[p][1]] > 0
  PROVE  Claimed(p)'
<1>1. /\ hand[p][1] \in Delivery /\ hand[p][3] \in Nat
      /\ attempts[hand[p][1]] \in Nat /\ attempts'[hand[p][1]] \in Nat
  BY ItemShape DEF Typed
<1> QED
  BY <1>1 DEF Claimed, Later

\* A poller that a step leaves alone keeps what Batches says of it.
LEMMA BatchesFrame ==
  ASSUME Typed, Typed', Batches, \A d \in Delivery : Later(d),
         NEW p \in Poller, batch'[p] \subseteq batch[p],
         hand'[p] = hand[p], pstep'[p] = pstep[p]
  PROVE  /\ \A item \in batch'[p] : Remembered(item)'
         /\ hand'[p] = <<>> <=> pstep'[p] \in {"rest", "claim"}
         /\ hand'[p] # <<>> => Claimed(p)'
<1>1. ASSUME NEW item \in batch'[p] PROVE Remembered(item)'
  <2>1. item \in Item /\ Remembered(item)
    BY DEF Batches, Typed
  <2>2. Later(item[1])
    BY <2>1, ItemShape
  <2> QED
    BY <2>1, <2>2, RememberedLater
<1>2. ASSUME hand[p] # <<>> PROVE Claimed(p)'
  <2>1. hand[p] \in Item /\ Claimed(p)
    BY <1>2 DEF Typed, Batches
  <2>2. hand[p][1] \in Delivery
    BY <2>1, ItemShape
  <2>3. Later(hand[p][1])
    BY <2>2
  <2>4. pstep'[p] \in {"sent", "history"} => received'[hand[p][1]] > 0
    BY <2>1, <2>2, <2>3 DEF Claimed, Later, Typed
  <2> QED
    BY <2>1, <2>3, <2>4, ClaimedLater
<1> QED
  BY <1>1, <1>2 DEF Batches

\* What Batches says of one poller.
Held(p) ==
  /\ \A item \in batch[p] : Remembered(item)
  /\ hand[p] = <<>> <=> pstep[p] \in {"rest", "claim"}
  /\ hand[p] # <<>> => Claimed(p)

LEMMA BatchesStep ==
  ASSUME Typed, Typed', Columns, Drafts, Decisions, Batches, [Next]_vars
  PROVE  Batches'
<1>a. /\ status \in [Delivery -> {"none", "Pending", "Sent", "Failed"}]
      /\ attempts \in [Delivery -> Nat] /\ mark \in [Delivery -> Nat]
      /\ past \in [Delivery -> BOOLEAN]
      /\ received \in [Delivery -> Nat] /\ received' \in [Delivery -> Nat]
      /\ attempts' \in [Delivery -> Nat]
      /\ pstep \in [Poller -> {"rest", "claim", "send", "failed", "sent", "history"}]
      /\ batch \in [Poller -> SUBSET Item]
      /\ hand \in [Poller -> Item \cup {<<>>}]
  BY DEF Typed
<1>b. \A d \in Delivery : Later(d)
  BY LaterStep
<1>c. ASSUME NEW q \in Poller, batch'[q] \subseteq batch[q], hand'[q] = hand[q],
             pstep'[q] = pstep[q]
      PROVE  Held(q)'
  BY <1>b, <1>c, BatchesFrame DEF Held
<1>d. ASSUME \A q \in Poller : Held(q)',
             \A d \in Delivery : status'[d] = "Sent" => status[d] = "Sent" \/ received[d] > 0,
             \A d \in Delivery :
               status'[d] = "Failed" => status[d] = "Failed" \/ attempts[d] >= MaxAttempts
      PROVE  Batches'
  <2>1. \A d \in Delivery : status'[d] = "Sent" => received'[d] > 0
    BY <1>a, <1>b, <1>d DEF Later, Batches
  <2>2. \A d \in Delivery : status'[d] = "Failed" => attempts'[d] >= MaxAttempts
    BY <1>a, <1>b, <1>d, AnnouncementsAssumption DEF Later, Batches
  <2> QED
    BY <1>d, <2>1, <2>2 DEF Batches, Held
\* A poller lets go of its row, if it had one, and goes on.
<1>e. ASSUME NEW p \in Poller, NEW rest \in SUBSET batch[p], Proceed(p, rest)
      PROVE  \A q \in Poller : Held(q)'
  <2>1. /\ batch'[p] = rest /\ hand'[p] = <<>> /\ pstep'[p] \in {"rest", "claim"}
        /\ \A q \in Poller \ {p} : batch'[q] = batch[q] /\ hand'[q] = hand[q] /\ pstep'[q] = pstep[q]
    BY <1>a, <1>e DEF Proceed
  <2>2. \A item \in rest : Remembered(item)'
    <3>1. SUFFICES ASSUME NEW item \in rest PROVE Remembered(item)'
      OBVIOUS
    <3>2. item \in Item /\ Remembered(item)
      BY <1>a DEF Batches
    <3> QED
      BY <1>b, <3>2, ItemShape, RememberedLater
  <2>3. Held(p)'
    BY <2>1, <2>2 DEF Held
  <2> QED
    BY <1>c, <2>1, <2>3
<1>1. CASE UNCHANGED ticks /\ \A d \in Delivery : status'[d] \in {status[d], "Pending"}
  BY <1>1, <1>c, <1>d DEF ticks
<1>2. ASSUME NEW c \in Caller, Create(c) PROVE Batches'
  <2>1. \/ status' = status
        \/ status' = [e \in Delivery |-> IF e[1] = c /\ e[2] \in rooms[c]
                                           THEN "Pending" ELSE status[e]]
    BY <1>2 DEF Create
  <2>2. \A d \in Delivery : status'[d] \in {status[d], "Pending"}
    BY <2>1
  <2> QED
    BY <1>1, <1>2, <2>2 DEF Create
<1>3. ASSUME NEW p \in Poller, Tick(p) PROVE Batches'
  <2>1. PICK lot \in SUBSET Due : batch' = [batch EXCEPT ![p] = lot]
    BY <1>3 DEF Tick
  <2>2. pstep[p] = "rest" /\ pstep' = [pstep EXCEPT ![p] = "claim"]
        /\ UNCHANGED <<hand, state, status, attempts, mark, past>>
    BY <1>3 DEF Tick, rows
  <2>3. \A item \in Due : Remembered(item)'
    <3>1. SUFFICES ASSUME NEW item \in Due PROVE Remembered(item)'
      OBVIOUS
    <3>2. PICK d \in Delivery : /\ item = <<d, mark[d], attempts[d]>>
                                /\ state[d[1]] = "Approved" /\ status[d] = "Pending" /\ past[d]
      BY DEF Due
    <3>3. mark[d] > 0 /\ attempts[d] = mark[d] - 1 /\ mark[d] \in Nat
      BY <1>a, <3>2 DEF Columns
    <3> QED
      BY <2>2, <3>2, <3>3 DEF Remembered
  <2>4. Held(p)'
    BY <1>a, <2>1, <2>2, <2>3 DEF Held, Batches
  <2>5. \A q \in Poller \ {p} : Held(q)'
    BY <1>a, <1>c, <2>1, <2>2
  <2> QED
    BY <1>d, <2>2, <2>4, <2>5
<1>4. ASSUME NEW p \in Poller, Claim(p) PROVE Batches'
  <2>1. PICK item \in batch[p] :
          \/ /\ Free(item)
             /\ attempts' = [attempts EXCEPT ![item[1]] = @ + 1]
             /\ hand' = [hand EXCEPT ![p] = item]
             /\ batch' = [batch EXCEPT ![p] = batch[p] \ {item}]
             /\ pstep' = [pstep EXCEPT ![p] = "send"]
          \/ Proceed(p, batch[p] \ {item})
    BY <1>4 DEF Claim
  <2>2. UNCHANGED <<state, status>>
    BY <1>4 DEF Claim
  <2>3. CASE Proceed(p, batch[p] \ {item})
    BY <1>d, <1>e, <2>2, <2>3
  <2>4. CASE /\ Free(item)
             /\ attempts' = [attempts EXCEPT ![item[1]] = @ + 1]
             /\ hand' = [hand EXCEPT ![p] = item]
             /\ batch' = [batch EXCEPT ![p] = batch[p] \ {item}]
             /\ pstep' = [pstep EXCEPT ![p] = "send"]
    <3>1. item \in Item /\ Remembered(item)
      BY <1>a DEF Batches
    <3>2. /\ item # <<>> /\ item[1] \in Delivery /\ item[2] \in Nat /\ item[3] = item[2] - 1
          /\ state[item[1][1]] = "Approved" /\ status[item[1]] = "Pending"
          /\ mark[item[1]] = item[2] /\ item[2] > 0
      BY <2>4, <3>1, ItemShape DEF Remembered, Free
    <3>3. attempts'[item[1]] = item[3] + 1
      BY <1>a, <2>4, <3>2 DEF Columns
    <3>4. hand'[p] = item /\ pstep'[p] = "send" /\ batch'[p] \subseteq batch[p]
      BY <1>a, <2>4
    <3>5. \A other \in batch'[p] : Remembered(other)'
      <4>1. SUFFICES ASSUME NEW other \in batch'[p] PROVE Remembered(other)'
        OBVIOUS
      <4>2. other \in Item /\ Remembered(other)
        BY <1>a, <3>4 DEF Batches
      <4> QED
        BY <1>b, <4>2, ItemShape, RememberedLater
    <3>6. Claimed(p)'
      BY <2>2, <3>2, <3>3, <3>4 DEF Claimed
    <3>7. Held(p)'
      BY <3>2, <3>4, <3>5, <3>6 DEF Held
    <3>8. \A q \in Poller \ {p} : Held(q)'
      BY <1>a, <1>c, <2>4
    <3> QED
      BY <1>d, <2>2, <3>7, <3>8
  <2> QED
    BY <2>1, <2>3, <2>4
<1>5. ASSUME NEW p \in Poller, Send(p) PROVE Batches'
  <2>1. hand[p] \in Item /\ hand[p] # <<>> /\ Claimed(p) /\ hand[p][1] \in Delivery
    BY <1>5, Hands, ItemShape DEF Send, Batches
  <2>2. UNCHANGED <<batch, hand, status>>
    BY <1>5 DEF Send, rows
  <2>3. PICK s \in {"sent", "failed"} : pstep' = [pstep EXCEPT ![p] = s]
          /\ (s = "sent" => received' = [received EXCEPT ![hand[p][1]] = @ + 1])
    BY <1>5 DEF Send
  <2>4. s = "sent" => received'[hand[p][1]] > 0
    BY <1>a, <2>1, <2>3
  <2>5. Claimed(p)'
    BY <1>a, <1>b, <2>1, <2>2, <2>3, <2>4, ClaimedLater
  <2>6. \A item \in batch'[p] : Remembered(item)'
    <3>1. SUFFICES ASSUME NEW item \in batch[p] PROVE Remembered(item)'
      BY <2>2
    <3>2. item \in Item /\ Remembered(item)
      BY <1>a DEF Batches
    <3> QED
      BY <1>b, <3>2, ItemShape, RememberedLater
  <2>7. Held(p)'
    BY <1>a, <2>1, <2>2, <2>3, <2>5, <2>6 DEF Held
  <2>8. \A q \in Poller \ {p} : Held(q)'
    BY <1>a, <1>c, <2>2, <2>3
  <2> QED
    BY <1>d, <2>2, <2>7, <2>8
<1>6. ASSUME NEW p \in Poller, MarkFailed(p) PROVE Batches'
  <2>1. hand[p] \in Item /\ Claimed(p) /\ hand[p][1] \in Delivery /\ hand[p][3] \in Nat
    BY <1>6, Hands, ItemShape DEF MarkFailed, Batches
  <2>2. Proceed(p, batch[p])
    BY <1>6 DEF MarkFailed
  <2>3. \/ status' = status
        \/ GiveUp(p) /\ status' = [status EXCEPT ![hand[p][1]] = "Failed"]
    BY <1>6 DEF MarkFailed, Close, GiveUp
  <2>4. GiveUp(p) => attempts[hand[p][1]] >= MaxAttempts
    BY <1>a, <2>1, AnnouncementsAssumption DEF GiveUp, Claimed
  <2>5. \A d \in Delivery : status'[d] = "Sent" => status[d] = "Sent"
    BY <1>a, <2>3
  <2>6. \A d \in Delivery :
          status'[d] = "Failed" => status[d] = "Failed" \/ attempts[d] >= MaxAttempts
    BY <1>a, <2>3, <2>4
  <2>7. \A q \in Poller : Held(q)'
    BY <1>e, <2>2
  <2> QED
    BY <1>d, <2>5, <2>6, <2>7
<1>7. ASSUME NEW p \in Poller, MarkSent(p) PROVE Batches'
  <2>1. hand[p] \in Item /\ hand[p] # <<>> /\ Claimed(p) /\ hand[p][1] \in Delivery
        /\ pstep[p] = "sent"
    BY <1>7, Hands, ItemShape DEF MarkSent, Batches
  <2>2. received[hand[p][1]] > 0
    BY <2>1 DEF Claimed
  <2>3. status' = status \/ status' = [status EXCEPT ![hand[p][1]] = "Sent"]
    BY <1>7 DEF MarkSent, Close
  <2>4. \A d \in Delivery : status'[d] = "Sent" => status[d] = "Sent" \/ received[d] > 0
    BY <1>a, <2>2, <2>3
  <2>5. \A d \in Delivery : status'[d] = "Failed" => status[d] = "Failed"
    BY <1>a, <2>3
  <2>6. CASE Proceed(p, batch[p])
    <3>1. \A q \in Poller : Held(q)'
      BY <1>e, <2>6
    <3> QED
      BY <1>d, <2>4, <2>5, <3>1
  <2>7. CASE pstep' = [pstep EXCEPT ![p] = "history"] /\ UNCHANGED <<batch, hand>>
    <3>1. received' = received
      BY <1>7 DEF MarkSent, outside
    <3>2. Claimed(p)'
      BY <1>b, <2>1, <2>2, <2>7, <3>1, ClaimedLater
    <3>3. \A item \in batch'[p] : Remembered(item)'
      <4>1. SUFFICES ASSUME NEW item \in batch[p] PROVE Remembered(item)'
        BY <2>7
      <4>2. item \in Item /\ Remembered(item)
        BY <1>a DEF Batches
      <4> QED
        BY <1>b, <4>2, ItemShape, RememberedLater
    <3>4. Held(p)'
      BY <1>a, <2>1, <2>7, <3>2, <3>3 DEF Held
    <3>5. \A q \in Poller \ {p} : Held(q)'
      BY <1>a, <1>c, <2>7
    <3> QED
      BY <1>d, <2>4, <2>5, <3>4, <3>5
  <2> QED
    BY <1>7, <2>6, <2>7 DEF MarkSent
<1>8. ASSUME NEW p \in Poller, AppendHistory(p) PROVE Batches'
  <2>1. UNCHANGED status /\ Proceed(p, batch[p])
    BY <1>8 DEF AppendHistory, rows
  <2>2. \A q \in Poller : Held(q)'
    BY <1>e, <2>1
  <2> QED
    BY <1>d, <2>1, <2>2
<1>9. ASSUME NEW p \in Poller, Crash(p) PROVE Batches'
  <2>1. UNCHANGED status /\ Proceed(p, {})
    BY <1>9 DEF Crash, Proceed, rows
  <2>2. \A q \in Poller : Held(q)'
    BY <1>e, <2>1
  <2> QED
    BY <1>d, <2>1, <2>2
<1> QED
  BY <1>1, <1>2, <1>3, <1>4, <1>5, <1>6, <1>7, <1>8, <1>9
  DEF Next, vars, rows, Unlock, CallerNext, DeciderNext, PollerNext, Block, PutDraft, ExpireDraft,
      Queue, Take, ReadRooms, Approve, StateOf, Reject, NotifyOrigin, Elapse, ReadHead, ReadRows

-----------------------------------------------------------------------------
(* Deliveries that end before their back-off                               *)

\* The parts of InTime: who has a row, what the row says meanwhile, and what
\* the group has received by then.
Alone ==
  \A p, q \in Poller : hand[p] # <<>> /\ hand[q] # <<>> /\ p # q => hand[p][1] # hand[q][1]

Waiting(p) ==
  /\ hand[p] # <<>> => ~past[hand[p][1]]
  /\ pstep[p] \in {"send", "failed", "sent"} => status[hand[p][1]] = "Pending"
  /\ pstep[p] = "history" => status[hand[p][1]] = "Sent"

Counted(d) ==
  /\ received[d] <= faults + 1
  /\ received[d] <= faults \/ status[d] = "Sent" \/ Unwritten(d)
  /\ d \in history => status[d] = "Sent"

LEMMA InTimeParts ==
  ASSUME ~SlowTicks, history \subseteq Delivery
  PROVE  InTime <=> /\ Alone
                    /\ \A p \in Poller : Waiting(p)
                    /\ \A d \in Delivery : Counted(d)
BY DEF InTime, Alone, Waiting, Counted

LEMMA InTimeStep ==
  ASSUME ~SlowTicks, Typed, Typed', Columns, Drafts, Decisions, Batches, InTime, [Next]_vars
  PROVE  InTime'
<1>a. /\ state \in [Announcement -> {"none", "Awaiting", "Approved", "Rejected"}]
      /\ status \in [Delivery -> {"none", "Pending", "Sent", "Failed"}]
      /\ mark \in [Delivery -> Nat]
      /\ past \in [Delivery -> BOOLEAN]
      /\ received \in [Delivery -> Nat]
      /\ pstep \in [Poller -> {"rest", "claim", "send", "failed", "sent", "history"}]
      /\ batch \in [Poller -> SUBSET Item]
      /\ hand \in [Poller -> Item \cup {<<>>}]
      /\ history \subseteq Delivery /\ history' \subseteq Delivery
      /\ faults \in Nat
      /\ \A d \in Delivery : d[1] \in Announcement
  BY DEF Typed, Delivery
<1>b. /\ Alone
      /\ \A p \in Poller : Waiting(p)
      /\ \A d \in Delivery : Counted(d)
  BY <1>a, InTimeParts
<1>c. ASSUME Alone', \A p \in Poller : Waiting(p)', \A d \in Delivery : Counted(d)'
      PROVE  InTime'
  BY <1>c, <1>a DEF InTime, Alone, Waiting, Counted
<1>d. ASSUME NEW p \in Poller, hand[p] # <<>>
      PROVE  /\ hand[p] \in Item /\ hand[p][1] \in Delivery /\ state[hand[p][1][1]] = "Approved"
             /\ pstep[p] \in {"send", "failed", "sent", "history"}
  BY <1>a, <1>d, ItemShape DEF Batches, Claimed
\* A step that leaves the pollers and what the groups have got as they are.
<1>e. ASSUME UNCHANGED <<pstep, hand, received, history>>,
             \A p \in Poller : hand[p] # <<>> => /\ status'[hand[p][1]] = status[hand[p][1]]
                                                 /\ past'[hand[p][1]] = past[hand[p][1]],
             \A d \in Delivery : status[d] = "Sent" => status'[d] = "Sent",
             faults' \in {faults, faults + 1}
      PROVE  InTime'
  <2>1. Alone'
    BY <1>b, <1>e DEF Alone
  <2>2. \A p \in Poller : Waiting(p)'
    BY <1>b, <1>d, <1>e DEF Waiting, Batches
  <2>3. \A d \in Delivery : Unwritten(d) => Unwritten(d)'
    BY <1>e DEF Unwritten
  <2>4. \A d \in Delivery : Counted(d)'
    BY <1>a, <1>b, <1>e, <2>3 DEF Counted
  <2> QED
    BY <1>c, <2>1, <2>2, <2>4
\* A step of the poller p, which has a row in hand and may close it: the others
\* have other rows.
<1>f. ASSUME NEW p \in Poller, hand[p] # <<>>
      PROVE  \A q \in Poller \ {p} : hand[q] # <<>> => hand[q][1] # hand[p][1]
  BY <1>b, <1>f DEF Alone
<1>g. ASSUME NEW p \in Poller, NEW rest, Proceed(p, rest)
      PROVE  /\ hand'[p] = <<>> /\ pstep'[p] \in {"rest", "claim"}
             /\ \A q \in Poller \ {p} : hand'[q] = hand[q] /\ pstep'[q] = pstep[q]
  BY <1>a, <1>g DEF Proceed
\* The poller p drops its row: the row, if there was one, is settled or a fault
\* has been spent on it.
<1>h. ASSUME NEW p \in Poller, NEW rest, Proceed(p, rest), UNCHANGED received,
             \A q \in Poller \ {p} : hand[q] # <<>> =>
               /\ status'[hand[q][1]] = status[hand[q][1]] /\ past'[hand[q][1]] = past[hand[q][1]],
             \A d \in Delivery : status[d] = "Sent" => status'[d] = "Sent",
             \A d \in Delivery : d \in history' => status'[d] = "Sent",
             \/ faults' = faults + 1
             \/ faults' = faults /\ (pstep[p] = "sent" => status'[hand[p][1]] = "Sent")
      PROVE  InTime'
  <2>1. Alone'
    BY <1>b, <1>g, <1>h DEF Alone
  <2>2. \A q \in Poller : Waiting(q)'
    <3>1. Waiting(p)'
      BY <1>g, <1>h DEF Waiting
    <3>2. ASSUME NEW q \in Poller \ {p} PROVE Waiting(q)'
      BY <1>b, <1>g, <1>h, <3>2 DEF Waiting, Batches
    <3> QED
      BY <3>1, <3>2
  <2>3. CASE faults' = faults + 1
    BY <1>a, <1>b, <1>c, <1>h, <2>1, <2>2, <2>3 DEF Counted
  <2>4. CASE faults' = faults /\ (pstep[p] = "sent" => status'[hand[p][1]] = "Sent")
    <3>1. \A d \in Delivery : Unwritten(d) => Unwritten(d)' \/ status'[d] = "Sent"
      BY <1>g, <1>h, <2>4 DEF Unwritten
    <3>2. \A d \in Delivery : Counted(d)'
      BY <1>b, <1>h, <2>4, <3>1 DEF Counted
    <3> QED
      BY <1>c, <2>1, <2>2, <3>2
  <2> QED
    BY <1>h, <2>3, <2>4
<1>i. faults' \in {faults, faults + 1} \/ faults' = faults
  BY DEF Next, vars, Fault, CallerNext, DeciderNext, PollerNext, Block, PutDraft, ExpireDraft,
      Queue, Take, ReadRooms, Create, Approve, StateOf, Reject, NotifyOrigin, Elapse, ReadHead,
      ReadRows, Tick, Claim, Send, MarkFailed, MarkSent, AppendHistory, Crash
<1>1. CASE UNCHANGED <<pstep, hand, received, history, status, past>>
  BY <1>1, <1>e, <1>i
<1>2. ASSUME NEW c \in Caller, Create(c) PROVE InTime'
  <2>1. state[c] = "none" /\ c \in Announcement
    BY <1>2 DEF Create, Drafts, Announcement
  <2>2. \/ status' = status
        \/ status' = [e \in Delivery |-> IF e[1] = c /\ e[2] \in rooms[c]
                                           THEN "Pending" ELSE status[e]]
    BY <1>2 DEF Create
  <2>3. \A d \in Delivery : status'[d] = status[d] \/ d[1] = c
    BY <2>2
  <2>4. \A d \in Delivery : d[1] = c => status[d] = "none"
    BY <2>1 DEF Columns
  <2>5. \A p \in Poller : hand[p] # <<>> => hand[p][1] \in Delivery /\ hand[p][1][1] # c
    BY <1>d, <2>1
  <2>6. UNCHANGED <<pstep, hand, received, history, past>>
    BY <1>2 DEF Create, ticks, outside
  <2> QED
    BY <1>e, <1>i, <2>3, <2>4, <2>5, <2>6
<1>3. ASSUME NEW c \in Decider, Approve(c) PROVE InTime'
  <2>1. UNCHANGED <<pstep, hand, received, history, status>>
    BY <1>3 DEF Approve, Unlock, rows, ticks, outside
  <2>2. \/ UNCHANGED past
        \/ /\ state[of[c]] = "Awaiting"
           /\ past' = [d \in Delivery |-> IF d \in Unlocked(of[c]) THEN TRUE ELSE past[d]]
    BY <1>3 DEF Approve, Unlock, rows
  <2>3. \A p \in Poller : hand[p] # <<>> =>
          hand[p][1] \in Delivery /\ state[hand[p][1][1]] = "Approved"
    BY <1>d
  <2>4. \A d \in Delivery : d[1] # of[c] => d \notin Unlocked(of[c])
    BY DEF Unlocked
  <2>5. \A p \in Poller : hand[p] # <<>> => past'[hand[p][1]] = past[hand[p][1]]
    BY <2>2, <2>3, <2>4
  <2> QED
    BY <1>e, <1>i, <2>1, <2>5
<1>4. ASSUME NEW d \in Delivery, Elapse(d) PROVE InTime'
  <2>1. \A p \in Poller : hand[p] # <<>> => hand[p][1] # d
    BY <1>4 DEF Elapse
  <2>2. UNCHANGED <<pstep, hand, received, history, status>> /\ past' = [past EXCEPT ![d] = TRUE]
    BY <1>4 DEF Elapse, ticks, outside
  <2>3. \A p \in Poller : hand[p] # <<>> => past'[hand[p][1]] = past[hand[p][1]]
    BY <1>a, <1>d, <2>1, <2>2
  <2> QED
    BY <1>e, <1>i, <2>2, <2>3
<1>5. ASSUME NEW p \in Poller, Tick(p) PROVE InTime'
  <2>1. /\ pstep[p] = "rest" /\ pstep' = [pstep EXCEPT ![p] = "claim"]
        /\ UNCHANGED <<hand, received, history, status, past, faults>>
    BY <1>5 DEF Tick, rows, outside
  <2>2. Alone'
    BY <1>b, <2>1 DEF Alone
  <2>3. \A q \in Poller : Waiting(q)'
    BY <1>a, <1>b, <2>1 DEF Waiting
  <2>4. \A d \in Delivery : Unwritten(d) => Unwritten(d)'
    BY <1>a, <2>1 DEF Unwritten
  <2>5. \A d \in Delivery : Counted(d)'
    BY <1>b, <2>1, <2>4 DEF Counted
  <2> QED
    BY <1>c, <2>2, <2>3, <2>5
<1>6. ASSUME NEW p \in Poller, Claim(p) PROVE InTime'
  <2>1. PICK item \in batch[p] :
          \/ /\ Free(item)
             /\ past' = [past EXCEPT ![item[1]] = FALSE]
             /\ \/ /\ hand' = [hand EXCEPT ![p] = item]
                   /\ pstep' = [pstep EXCEPT ![p] = "send"]
                   /\ UNCHANGED faults
                \/ Fault /\ Proceed(p, batch[p] \ {item})
          \/ Proceed(p, batch[p] \ {item}) /\ UNCHANGED <<past, faults>>
    BY <1>6 DEF Claim
  <2>2. pstep[p] = "claim" /\ UNCHANGED <<status, received, history>>
    BY <1>6 DEF Claim, outside
  <2>3. \A d \in Delivery : d \in history' => status'[d] = "Sent"
    BY <1>b, <2>2 DEF Counted
  <2>4. CASE Proceed(p, batch[p] \ {item}) /\ UNCHANGED <<past, faults>>
    BY <1>h, <2>2, <2>3, <2>4
  <2>5. CASE Free(item) /\ past' = [past EXCEPT ![item[1]] = FALSE]
    <3>1. item \in Item /\ Remembered(item)
      BY <1>a DEF Batches
    <3>2. item # <<>> /\ item[1] \in Delivery /\ status[item[1]] = "Pending" /\ past[item[1]]
      BY <2>5, <3>1, ItemShape DEF Remembered, Free
    <3>3. \A q \in Poller : hand[q] # <<>> => hand[q][1] # item[1]
      BY <1>b, <3>2 DEF Waiting
    <3>4. \A q \in Poller : hand[q] # <<>> => past'[hand[q][1]] = past[hand[q][1]]
      BY <1>a, <1>d, <2>5, <3>3
    <3>5. CASE Fault /\ Proceed(p, batch[p] \ {item})
      BY <1>h, <2>2, <2>3, <3>4, <3>5 DEF Fault
    <3>6. CASE /\ hand' = [hand EXCEPT ![p] = item]
               /\ pstep' = [pstep EXCEPT ![p] = "send"]
               /\ UNCHANGED faults
      <4>1. /\ hand'[p] = item /\ pstep'[p] = "send"
            /\ \A q \in Poller \ {p} : hand'[q] = hand[q] /\ pstep'[q] = pstep[q]
        BY <1>a, <3>6
      <4>2. Alone'
        BY <1>b, <3>3, <4>1 DEF Alone
      <4>3. Waiting(p)'
        BY <1>a, <2>2, <2>5, <3>2, <4>1 DEF Waiting
      <4>4. \A q \in Poller \ {p} : Waiting(q)'
        BY <1>b, <2>2, <3>4, <4>1 DEF Waiting, Batches
      <4>5. \A d \in Delivery : Unwritten(d) => Unwritten(d)'
        BY <2>2, <4>1 DEF Unwritten
      <4>6. \A d \in Delivery : Counted(d)'
        BY <1>b, <2>2, <3>6, <4>5 DEF Counted
      <4> QED
        BY <1>c, <4>2, <4>3, <4>4, <4>6
    <3> QED
      BY <1>h, <2>1, <2>2, <2>3, <2>5, <3>4, <3>5, <3>6
  <2> QED
    BY <2>1, <2>4, <2>5
<1>7. ASSUME NEW p \in Poller, Send(p) PROVE InTime'
  <2>1. PICK d \in Delivery : hand[p] # <<>> /\ d = hand[p][1] /\ pstep[p] = "send"
    BY <1>7, <1>d, Hands DEF Send
  <2>2. UNCHANGED <<hand, history, status, past>>
    BY <1>7 DEF Send, rows
  <2>3. PICK s \in {"sent", "failed"} :
          /\ pstep' = [pstep EXCEPT ![p] = s]
          /\ \/ received' = received /\ faults' = faults
             \/ /\ received' = [received EXCEPT ![d] = @ + 1]
                /\ (s = "sent" /\ faults' = faults) \/ faults' = faults + 1
    BY <1>7, <2>1 DEF Send, Fault
  <2>4. ~Unwritten(d)
    BY <1>b, <1>d, <2>1 DEF Unwritten, Alone, Batches
  <2>5. status[d] = "Pending"
    BY <1>b, <2>1 DEF Waiting
  <2>6. received[d] <= faults
    BY <1>b, <2>1, <2>4, <2>5 DEF Counted
  <2>7. Alone'
    BY <1>b, <2>2 DEF Alone
  <2>8. \A q \in Poller : Waiting(q)'
    BY <1>a, <1>b, <2>1, <2>2, <2>3 DEF Waiting
  <2>9. \A e \in Delivery : Unwritten(e) => Unwritten(e)'
    BY <1>a, <2>1, <2>2, <2>3 DEF Unwritten
  <2>10. s = "sent" => Unwritten(d)'
    BY <1>a, <2>1, <2>2, <2>3 DEF Unwritten
  <2>11. \A e \in Delivery \ {d} : Counted(e)'
    BY <1>a, <1>b, <2>2, <2>3, <2>9 DEF Counted
  <2>12. Counted(d)'
    BY <1>a, <1>b, <2>1, <2>2, <2>3, <2>5, <2>6, <2>10 DEF Counted
  <2> QED
    BY <1>c, <2>7, <2>8, <2>11, <2>12
<1>8. ASSUME NEW p \in Poller, MarkFailed(p) PROVE InTime'
  <2> DEFINE d == hand[p][1]
  <2>1. hand[p] # <<>> /\ d \in Delivery /\ pstep[p] = "failed" /\ status[d] = "Pending"
    BY <1>8, <1>b, <1>d, Hands DEF MarkFailed, Waiting
  <2>2. UNCHANGED <<received, history>> /\ Proceed(p, batch[p]) /\ faults' \in {faults, faults + 1}
    BY <1>8 DEF MarkFailed, outside, Fault
  <2>3. \/ UNCHANGED <<status, past>>
        \/ /\ status' = [status EXCEPT ![d] = "Failed"]
           /\ past' = [past EXCEPT ![d] = FALSE]
    BY <1>8 DEF MarkFailed, Close
  <2>4. \A q \in Poller \ {p} : hand[q] # <<>> => hand[q][1] # d
    BY <1>f, <2>1
  <2> HIDE DEF d
  <2>5. \A q \in Poller \ {p} : hand[q] # <<>> =>
          status'[hand[q][1]] = status[hand[q][1]] /\ past'[hand[q][1]] = past[hand[q][1]]
    BY <1>a, <1>d, <2>3, <2>4
  <2>6. \A e \in Delivery : status[e] = "Sent" => status'[e] = "Sent"
    BY <1>a, <2>1, <2>3
  <2>7. \A e \in Delivery : e \in history' => status'[e] = "Sent"
    BY <1>b, <2>2, <2>6 DEF Counted
  <2> QED
    BY <1>h, <2>1, <2>2, <2>5, <2>6, <2>7
<1>9. ASSUME NEW p \in Poller, MarkSent(p) PROVE InTime'
  <2> DEFINE d == hand[p][1]
  <2>1. hand[p] # <<>> /\ d \in Delivery /\ pstep[p] = "sent" /\ status[d] = "Pending"
    BY <1>9, <1>b, <1>d, Hands DEF MarkSent, Waiting
  <2>2. UNCHANGED <<received, history>>
    BY <1>9 DEF MarkSent, outside
  <2>3. \/ UNCHANGED <<status, past>>
        \/ /\ status' = [status EXCEPT ![d] = "Sent"]
           /\ past' = [past EXCEPT ![d] = FALSE]
    BY <1>9 DEF MarkSent, Close
  <2>4. \A q \in Poller \ {p} : hand[q] # <<>> => hand[q][1] # d
    BY <1>f, <2>1
  <2>5. \/ /\ status' = [status EXCEPT ![d] = "Sent"]
           /\ past' = [past EXCEPT ![d] = FALSE]
           /\ pstep' = [pstep EXCEPT ![p] = "history"]
           /\ UNCHANGED <<hand, faults>>
        \/ faults' = faults + 1 /\ Proceed(p, batch[p])
    BY <1>9, <2>1 DEF MarkSent, Close, Fault
  <2> HIDE DEF d
  <2>6. \A q \in Poller \ {p} : hand[q] # <<>> =>
          status'[hand[q][1]] = status[hand[q][1]] /\ past'[hand[q][1]] = past[hand[q][1]]
    BY <1>a, <1>d, <2>3, <2>4
  <2>7. \A e \in Delivery : status[e] = "Sent" => status'[e] = "Sent"
    BY <1>a, <2>1, <2>3
  <2>8. \A e \in Delivery : e \in history' => status'[e] = "Sent"
    BY <1>b, <2>2, <2>7 DEF Counted
  <2>9. CASE faults' = faults + 1 /\ Proceed(p, batch[p])
    BY <1>h, <2>1, <2>2, <2>6, <2>7, <2>8, <2>9
  <2>10. CASE /\ status' = [status EXCEPT ![d] = "Sent"]
              /\ past' = [past EXCEPT ![d] = FALSE]
              /\ pstep' = [pstep EXCEPT ![p] = "history"]
              /\ UNCHANGED <<hand, faults>>
    <3>1. Alone'
      BY <1>b, <2>10 DEF Alone
    <3>2. Waiting(p)'
      BY <1>a, <2>1, <2>10 DEF Waiting, d
    <3>3. ASSUME NEW q \in Poller \ {p} PROVE Waiting(q)'
      <4>1. hand'[q] = hand[q] /\ pstep'[q] = pstep[q]
        BY <1>a, <2>10
      <4>2. Waiting(q) /\ (hand[q] = <<>> => pstep[q] \in {"rest", "claim"})
        BY <1>b DEF Batches
      <4> QED
        BY <2>6, <4>1, <4>2 DEF Waiting
    <3>4. \A e \in Delivery : Unwritten(e) => Unwritten(e)' \/ status'[e] = "Sent"
      BY <1>a, <2>1, <2>10 DEF Unwritten, d
    <3>5. \A e \in Delivery : Counted(e)'
      BY <1>b, <2>2, <2>7, <2>8, <2>10, <3>4 DEF Counted
    <3> QED
      BY <1>c, <3>1, <3>2, <3>3, <3>5
  <2> QED
    BY <2>5, <2>9, <2>10
<1>10. ASSUME NEW p \in Poller, AppendHistory(p) PROVE InTime'
  <2>1. status[hand[p][1]] = "Sent" /\ pstep[p] = "history"
    BY <1>10, <1>b DEF AppendHistory, Waiting
  <2>2. UNCHANGED <<status, past, received>> /\ Proceed(p, batch[p])
        /\ history' \in {history, history \cup {hand[p][1]}} /\ faults' \in {faults, faults + 1}
    BY <1>10 DEF AppendHistory, rows, Fault
  <2>3. \A e \in Delivery : e \in history' => status'[e] = "Sent"
    BY <1>b, <2>1, <2>2 DEF Counted
  <2> QED
    BY <1>h, <2>1, <2>2, <2>3
<1>11. ASSUME NEW p \in Poller, Crash(p) PROVE InTime'
  <2>1. UNCHANGED <<status, past, received, history>> /\ Proceed(p, {}) /\ faults' = faults + 1
    BY <1>11 DEF Crash, Proceed, rows, outside, Fault
  <2>2. \A e \in Delivery : e \in history' => status'[e] = "Sent"
    BY <1>b, <2>1 DEF Counted
  <2> QED
    BY <1>h, <2>1, <2>2
<1> QED
  BY <1>1, <1>2, <1>3, <1>4, <1>5, <1>6, <1>7, <1>8, <1>9, <1>10, <1>11
  DEF Next, vars, rows, outside, ticks, CallerNext, DeciderNext, PollerNext, Block, PutDraft,
      ExpireDraft, Queue, Take, ReadRooms, StateOf, Reject, NotifyOrigin, ReadHead, ReadRows

-----------------------------------------------------------------------------
(* What the status tool tells                                              *)

LEMMA ToldStep ==
  ASSUME Typed, Typed', Shapes, Columns, Drafts, Decisions, Batches, Told, [Next]_vars
  PROVE  Told'
<1>a. /\ state \in [Announcement -> {"none", "Awaiting", "Approved", "Rejected"}]
      /\ status \in [Delivery -> {"none", "Pending", "Sent", "Failed"}]
      /\ received \in [Delivery -> Nat] /\ received' \in [Delivery -> Nat]
      /\ \A d \in Delivery : d[1] \in Announcement
  BY DEF Typed, Delivery
<1>b. \A d \in Delivery : received'[d] >= received[d]
  BY LaterStep DEF Later
<1>c. ASSUME UNCHANGED report,
             \A d \in Delivery : status[d] \in {"Sent", "Failed"} => status'[d] = status[d],
             \A a \in Announcement : state[a] \in {"Approved", "Rejected"} => state'[a] = state[a]
      PROVE  Told'
  <2>1. SUFFICES ASSUME report.step # "none" PROVE Told'
    BY <1>c DEF Told
  <2>2. /\ report.of \in Announcement
        /\ report.state \in {"Awaiting", "Approved", "Rejected"}
        /\ report.sent \subseteq Delivery /\ report.failed \subseteq Delivery
    BY <2>1 DEF Shapes
  <2>3. \A d \in report.sent : received'[d] > 0 /\ status'[d] = "Sent"
    BY <1>a, <1>b, <1>c, <2>1, <2>2 DEF Told
  <2>4. \A d \in report.failed : status'[d] = "Failed"
    BY <1>c, <2>1, <2>2 DEF Told
  <2>5. report.state # "Awaiting" => state'[report.of] = report.state
    BY <1>c, <2>1, <2>2 DEF Told
  <2> QED
    BY <1>c, <2>3, <2>4, <2>5 DEF Told
<1>1. CASE UNCHANGED <<report, status, state>>
  BY <1>1, <1>c
<1>2. ASSUME NEW c \in Caller, Create(c) PROVE Told'
  <2>1. state[c] = "none" /\ c \in Announcement
    BY <1>2 DEF Create, Drafts, Announcement
  <2>2. \/ status' = status
        \/ status' = [e \in Delivery |-> IF e[1] = c /\ e[2] \in rooms[c]
                                           THEN "Pending" ELSE status[e]]
    BY <1>2 DEF Create
  <2>3. \A d \in Delivery : d[1] = c => status[d] = "none"
    BY <2>1 DEF Columns
  <2>4. \A d \in Delivery : status[d] \in {"Sent", "Failed"} => status'[d] = status[d]
    BY <2>2, <2>3
  <2>5. UNCHANGED report /\ (state' = state \/ state' = [state EXCEPT ![c] = "Awaiting"])
    BY <1>2 DEF Create, given
  <2> QED
    BY <1>a, <1>c, <2>1, <2>4, <2>5
<1>3. ASSUME NEW c \in Decider, Approve(c) \/ Reject(c) PROVE Told'
  <2>1. \/ UNCHANGED state
        \/ state[of[c]] = "Awaiting" /\ \E v : state' = [state EXCEPT ![of[c]] = v]
    BY <1>3 DEF Approve, Reject
  <2>2. UNCHANGED <<report, status>>
    BY <1>3 DEF Approve, Reject, Unlock, rows, given
  <2> QED
    BY <1>a, <1>c, <2>1, <2>2
<1>4. ASSUME NEW p \in Poller, MarkFailed(p) \/ MarkSent(p) PROVE Told'
  <2>1. \/ UNCHANGED status
        \/ /\ status[hand[p][1]] = "Pending"
           /\ \E v : status' = [status EXCEPT ![hand[p][1]] = v]
    BY <1>4 DEF MarkFailed, MarkSent, Close
  <2>2. UNCHANGED <<report, state>>
    BY <1>4 DEF MarkFailed, MarkSent, given
  <2> QED
    BY <1>a, <1>c, <2>1, <2>2
<1>5. ASSUME NEW c \in Caller, NEW a \in Announcement, ReadHead(c, a) PROVE Told'
  <2>1. report' = [step |-> "rows", of |-> a, state |-> state[a], sent |-> {}, failed |-> {}]
        /\ UNCHANGED state
    BY <1>5 DEF ReadHead
  <2> QED
    BY <2>1 DEF Told
<1>6. CASE ReadRows
  <2> DEFINE With(st) == IF report.state = "Approved"
                           THEN {d \in Delivery : d[1] = report.of /\ status[d] = st} ELSE {}
  <2>1. \A d \in With("Sent") : received[d] > 0 /\ status[d] = "Sent"
    BY DEF Batches
  <2>2. \A d \in With("Failed") : status[d] = "Failed"
    OBVIOUS
  <2>3. report' = [step |-> "told", of |-> report.of, state |-> report.state,
                   sent |-> With("Sent"), failed |-> With("Failed")]
        /\ UNCHANGED <<state, status, received>> /\ report.step # "none"
    BY <1>6 DEF ReadRows, rows, outside
  <2>4. report.state # "Awaiting" => state[report.of] = report.state
    BY <2>3 DEF Told
  <2> HIDE DEF With
  <2> QED
    BY <2>1, <2>2, <2>3, <2>4 DEF Told
<1> QED
  BY <1>1, <1>2, <1>3, <1>4, <1>5, <1>6
  DEF Next, vars, rows, given, CallerNext, DeciderNext, PollerNext, Block, PutDraft,
      ExpireDraft, Queue, Take, ReadRooms, StateOf, NotifyOrigin, Elapse, Tick, Claim,
      Send, AppendHistory, Crash

-----------------------------------------------------------------------------
LEMMA IInvInit == Init => IInv
<1> SUFFICES ASSUME Init PROVE IInv
  OBVIOUS
<1>1. TypeOK /\ Shapes
  BY TypeInit
<1>2. Drafts
  BY DEF Init, Drafts, Took, Announcement
<1>3. Decisions
  BY DEF Init, Decisions, Delivery
<1>4. Batches
  BY DEF Init, Batches
<1>5. InTime
  BY DEF Init, InTime
<1>6. Told
  BY DEF Init, NoReport, Told
<1> QED
  BY <1>1, <1>2, <1>3, <1>4, <1>5, <1>6 DEF IInv

LEMMA IInvStep == IInv /\ [Next]_vars => IInv'
<1> SUFFICES ASSUME IInv, [Next]_vars PROVE IInv'
  OBVIOUS
<1>1. TypeOK /\ Shapes /\ Drafts /\ Decisions /\ Batches /\ InTime /\ Told
  BY DEF IInv
<1>2. Typed /\ Columns
  BY <1>1, Types DEF TypeOK
<1>3. TypeOK' /\ Shapes'
  BY <1>1, TypeStep
<1>4. Typed'
  BY <1>3, AnnouncementsAssumption DEF TypeOK, Shapes, Typed
<1>5. Drafts' /\ Decisions' /\ Batches' /\ Told'
  BY <1>1, <1>2, <1>4, DraftsStep, DecisionsStep, BatchesStep, ToldStep
<1>6. InTime'
  <2>1. CASE SlowTicks
    BY <2>1 DEF InTime
  <2>2. CASE ~SlowTicks
    BY <1>1, <1>2, <1>4, <2>2, InTimeStep
  <2> QED
    BY <2>1, <2>2
<1> QED
  BY <1>3, <1>5, <1>6 DEF IInv

(* Every reachable state satisfies the inductive invariant.                *)
THEOREM Inductive == Spec => []IInv
<1>1. Init => IInv
  BY IInvInit
<1>2. IInv /\ [Next]_vars => IInv'
  BY IInvStep
<1> QED
  BY <1>1, <1>2, PTL DEF Spec

(* The types and the columns of a delivery hold in every state.            *)
THEOREM TypeCorrect == Spec => []TypeOK
<1>1. IInv => TypeOK
  BY DEF IInv
<1> QED
  BY <1>1, Inductive, PTL

(* However many calls queue one draft, and whoever makes them, at most one  *)
(* announcement comes of it, by the author and by leave of the flow.       *)
THEOREM DraftTakenOnce == Spec => []DraftOnce
<1>1. IInv => DraftOnce
  BY DEF IInv, Drafts, Took, DraftOnce
<1> QED
  BY <1>1, Inductive, PTL

(* No group gets a text that does not stand approved, and the origin never  *)
(* hears the opposite of what stands, whatever the order of the decisions. *)
THEOREM ApprovedBeforeSent == Spec => []ApprovedFirst
<1>1. ASSUME IInv PROVE ApprovedFirst
  <2>1. Typed /\ Decisions
    BY <1>1, Types DEF IInv
  <2>2. \A d \in Delivery : received[d] > 0 \/ mark[d] > 0 => state[d[1]] = "Approved"
    BY <2>1 DEF Decisions
  <2>3. \A a \in Announcement, v \in Verdict : told[a][v] > 0 => state[a] = StateFor(v)
    BY <2>1 DEF Decisions
  <2>4. "approved" \in Verdict /\ "rejected" \in Verdict
    BY DEF Verdict
  <2> QED
    BY <2>2, <2>3, <2>4 DEF ApprovedFirst, StateFor
<1> QED
  BY <1>1, Inductive, PTL

(* As long as deliveries end before the back-off their claim has set, a     *)
(* group gets a text again only for a failed call or a crash, with any      *)
(* number of pollers.                                                       *)
THEOREM SentOnceInTime ==
  ASSUME ~SlowTicks
  PROVE  Spec => []SentOnce
<1>1. ASSUME IInv PROVE SentOnce
  <2>1. Typed /\ InTime
    BY <1>1, Types DEF IInv
  <2> QED
    BY <2>1 DEF Typed, InTime, SentOnce
<1> QED
  BY <1>1, Inductive, PTL

(* Under the same condition, what the table, the history and the status     *)
(* tool say of a delivery is what happened to it, and it stays so.         *)
THEOREM RowsAreTrue ==
  ASSUME ~SlowTicks
  PROVE  Spec => []RowTellsTruth
<1>1. ASSUME IInv PROVE RowTellsTruth
  <2>1. Typed /\ Shapes /\ Decisions /\ Batches /\ InTime /\ Told
    BY <1>1, Types DEF IInv
  <2>2. \A d \in Delivery : status[d] = "Sent" => received[d] > 0
    BY <2>1 DEF Batches
  <2>3. \A d \in Delivery : status[d] = "Failed" => attempts[d] >= MaxAttempts
    BY <2>1 DEF Batches
  <2>4. \A d \in Delivery : status[d] = "Failed" => received[d] <= faults
    <3>1. \A d \in Delivery : Unwritten(d) => status[d] = "Pending"
      BY <2>1 DEF InTime, Unwritten
    <3> QED
      BY <2>1, <3>1 DEF InTime
  <2>5. \A d \in history : status[d] = "Sent"
    BY <2>1 DEF InTime
  <2>6. ASSUME report.step = "told"
        PROVE  /\ \A d \in report.sent : received[d] > 0 /\ status[d] = "Sent"
               /\ \A d \in report.failed : received[d] <= faults /\ status[d] = "Failed"
               /\ report.state # "Awaiting" => state[report.of] = report.state
               /\ report.state = "Rejected" =>
                    \A d \in Delivery : d[1] = report.of => received[d] = 0
    <3>1. report.step # "none" /\ report.failed \subseteq Delivery
      BY <2>1, <2>6 DEF Shapes
    <3>2. report.state = "Rejected" => \A d \in Delivery : d[1] = report.of => received[d] = 0
      BY <2>1, <3>1 DEF Told, Decisions
    <3> QED
      BY <2>1, <2>4, <3>1, <3>2 DEF Told
  <2> QED
    BY <2>2, <2>3, <2>4, <2>5, <2>6 DEF RowTellsTruth
<1> QED
  BY <1>1, Inductive, PTL
=============================================================================
