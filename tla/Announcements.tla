---------------------------- MODULE Announcements ----------------------------
(***************************************************************************)
(* One text to the groups of every dealer (src/announcements): a draft is  *)
(* put in Redis (drafts.ts), a second tool call queues it (service.ts), the *)
(* approver's flash command approves or rejects it, a poller in every      *)
(* process sends it to each group, with retries (poller.ts), and a third   *)
(* tool tells how far it has come (tools/impl/announce/notice.ts).         *)
(*                                                                         *)
(* An announcement carries the name of the queue() call that created it;   *)
(* a delivery is its row for one group (store.ts). Postgres and Redis run  *)
(* each statement atomically; everything between two of them interleaves.  *)
(* Every mark that backoffFrom gives a row lies after the one it replaces, *)
(* since the poller read that one as due: marks of a row are therefore     *)
(* numbered (0 is NULL), and "past" tells whether the time of the present  *)
(* one has come.                                                           *)
(***************************************************************************)
EXTENDS Naturals, FiniteSets

CONSTANTS
  Draft,           \* draft ids
  Room,            \* dealers' groups
  Caller,          \* calls of queue()
  Decider,         \* calls of approve() or reject() by the named approver
  Poller,          \* processes that run an announcement poller
  DraftOf,         \* [Caller -> Draft]
  VerdictOf,       \* [Decider -> Verdict]
  FlowOf,          \* [Caller -> Flow]: whose tools the call is one of
  Casts,           \* the roles that the callers may have, [Caller -> Role]
  MaxAttempts,     \* MAX_ATTEMPTS
  MaxSendPerTick,  \* MAX_SEND_PER_TICK
  SlowTicks,       \* may a send outlast the back-off its claim has set?
  MaxFaults        \* bound: calls that fail or lose their reply, crashes

Verdict      == {"approved", "rejected"}
Flow         == {"het_hang", "van_hanh"}
Role         == {"warehouse", "ceo", "swe", "staff", "other"}   \* "staff": any other slug, or none
Announcement == Caller
Delivery     == Announcement \X Room
Item         == Delivery \X Nat \X Nat   \* a row as a tick read it: mark, attempts

ASSUME AnnouncementsAssumption ==
  /\ DraftOf \in [Caller -> Draft]
  /\ VerdictOf \in [Decider -> Verdict]
  /\ FlowOf \in [Caller -> Flow] /\ Casts \subseteq [Caller -> Role]
  /\ MaxAttempts \in Nat \ {0} /\ MaxSendPerTick \in Nat \ {0}
  /\ SlowTicks \in BOOLEAN
  /\ MaxFaults \in Nat

VARIABLES
  draft,     \* [Draft -> "none", "live" or "gone"]
  blocked,   \* group_block: rooms the operators switched off
  state,     \* [Announcement -> "none", "Awaiting", "Approved" or "Rejected"]
  status,    \* [Delivery -> "none", "Pending", "Sent" or "Failed"]
  attempts,  \* [Delivery -> Nat]
  mark,      \* [Delivery -> Nat]: next_attempt_at, the CAS cell
  past,      \* [Delivery -> BOOLEAN]: mark <= now
  received,  \* [Delivery -> Nat]: times the group got the text
  history,   \* deliveries whose text is in the history of the group
  told,      \* [Announcement -> [Verdict -> Nat]]: results told to the origin
  qstep,     \* [Caller -> where its queue() is]
  rooms,     \* [Caller -> SUBSET Room]: what allEnabled() gave it
  dstep,     \* [Decider -> where the call is]
  stranger,  \* the callers that did not write the draft they queue
  of,        \* [Decider -> Announcement]: the id it was given
  role,      \* [Caller -> Role]
  report,    \* a call of the status tool, with what it has read and tells
  pstep,     \* [Poller -> where its tick is]
  batch,     \* [Poller -> SUBSET Item]: rows of the tick still to do
  hand,      \* [Poller -> the Item being delivered, or <<>>]
  faults

rows    == <<status, attempts, mark, past>>
outside == <<received, history, told>>
queuing == <<qstep, rooms>>
given   == <<stranger, of, role, report>>
ticks   == <<pstep, batch, hand>>
vars    == <<draft, blocked, state, rows, outside, queuing, dstep, given, ticks, faults>>

QueueStep  == {"idle", "denied", "take", "rooms", "create", "awaiting_approval", "expired",
               "not_author", "no_room", "no_approver", "raised"}
DecideStep == {"idle", "stateOf", "origin", "not_found", "raised"} \cup Verdict

NoReport == [step |-> "none"]

\* What the columns of a row say together (store.ts:207-238).
Columns ==
  \A d \in Delivery :
    /\ status[d] = "Pending" /\ mark[d] > 0 => attempts[d] = mark[d] - 1
    /\ status[d] # "Pending" => mark[d] = 0
    /\ past[d] => mark[d] > 0
    /\ status[d] # "none" => state[d[1]] # "none"

(* TypeOK: the type invariant, with the columns of a delivery: only a       *)
(* pending row has a mark, and a claim moves mark and attempts together.   *)
TypeOK ==
  /\ draft \in [Draft -> {"none", "live", "gone"}]
  /\ blocked \subseteq Room
  /\ state \in [Announcement -> {"none", "Awaiting", "Approved", "Rejected"}]
  /\ status \in [Delivery -> {"none", "Pending", "Sent", "Failed"}]
  /\ attempts \in [Delivery -> Nat]
  /\ mark \in [Delivery -> Nat]
  /\ past \in [Delivery -> BOOLEAN]
  /\ received \in [Delivery -> Nat]
  /\ history \subseteq Delivery
  /\ told \in [Announcement -> [Verdict -> Nat]]
  /\ qstep \in [Caller -> QueueStep]
  /\ rooms \in [Caller -> SUBSET Room]
  /\ dstep \in [Decider -> DecideStep]
  /\ stranger \subseteq Caller
  /\ of \in [Decider -> Announcement]
  /\ role \in Casts
  /\ report.step \in {"none", "rows", "told"}
  /\ report.step # "none" => report.of \in Announcement /\ report.sent \cap report.failed = {}
  /\ pstep \in [Poller -> {"rest", "claim", "send", "failed", "sent", "history"}]
  /\ \A p \in Poller : batch[p] \subseteq Item /\ hand[p] \in Item \cup {<<>>}
  /\ faults \in 0..MaxFaults
  /\ Columns

\* flows.ts: who may write a text of a flow, and who may queue it.
DraftGate(flow, who) ==
  CASE flow = "het_hang" -> who \in {"warehouse", "swe"}
    [] flow = "van_hanh" -> who # "other"

SendGate(flow, who) ==
  CASE flow = "het_hang" -> who \in {"warehouse", "swe"}
    [] flow = "van_hanh" -> who \in {"ceo", "swe"}

\* The callers that are not strangers are one person, who wrote the draft, with the
\* tool of any flow: a draft does not say of which.
Init ==
  /\ draft = [n \in Draft |-> "none"]
  /\ blocked = {}
  /\ state = [a \in Announcement |-> "none"]
  /\ status = [d \in Delivery |-> "none"]
  /\ attempts = [d \in Delivery |-> 0]
  /\ mark = [d \in Delivery |-> 0]
  /\ past = [d \in Delivery |-> FALSE]
  /\ received = [d \in Delivery |-> 0]
  /\ history = {}
  /\ told = [a \in Announcement |-> [v \in Verdict |-> 0]]
  /\ qstep = [c \in Caller |-> "idle"]
  /\ rooms = [c \in Caller |-> {}]
  /\ dstep = [c \in Decider |-> "idle"]
  /\ stranger \in SUBSET Caller
  /\ of \in [Decider -> Announcement]
  /\ role \in Casts
  /\ \A c \in Caller \ stranger :
       /\ \E flow \in Flow : DraftGate(flow, role[c])
       /\ \A e \in Caller \ stranger : DraftOf[c] = DraftOf[e] => role[c] = role[e]
  /\ report = NoReport
  /\ pstep = [p \in Poller |-> "rest"]
  /\ batch = [p \in Poller |-> {}]
  /\ hand = [p \in Poller |-> <<>>]
  /\ faults = 0

-----------------------------------------------------------------------------
Fault == faults < MaxFaults /\ faults' = faults + 1

QGoto(c, where) == qstep' = [qstep EXCEPT ![c] = where]
DGoto(c, where) == dstep' = [dstep EXCEPT ![c] = where]

\* blockGroup and unblockGroup, behind /block and /unlock.
Block(r) ==
  /\ blocked' \in {blocked \cup {r}, blocked \ {r}}
  /\ UNCHANGED <<draft, state, rows, outside, queuing, dstep, given, ticks, faults>>

-----------------------------------------------------------------------------
(* service.ts, draft and queue, as notice.ts calls them.                   *)

\* runDraft: there is a group to send to, and the text is not too long.
PutDraft(n) ==
  /\ draft[n] = "none" /\ Room \ blocked # {}
  /\ draft' = [draft EXCEPT ![n] = "live"]
  /\ UNCHANGED <<blocked, state, rows, outside, queuing, dstep, given, ticks, faults>>

\* DRAFT_TTL_SEC has passed.
ExpireDraft(n) ==
  /\ draft[n] = "live"
  /\ draft' = [draft EXCEPT ![n] = "gone"]
  /\ UNCHANGED <<blocked, state, rows, outside, queuing, dstep, given, ticks, faults>>

\* runSend: the gate of the flow, and a room to report to; resolveApprover comes
\* before the draft is taken.
Queue(c) ==
  /\ qstep[c] = "idle" /\ draft[DraftOf[c]] # "none"
  /\ \/ SendGate(FlowOf[c], role[c]) /\ (QGoto(c, "take") \/ QGoto(c, "no_approver"))
     \/ QGoto(c, "denied")
  /\ UNCHANGED <<draft, blocked, state, rows, outside, rooms, dstep, given, ticks, faults>>

\* Mutant of Take: a GET with the DEL left to a later command.
TakeKeeps(c) ==
  /\ qstep[c] = "take"
  /\ IF draft[DraftOf[c]] # "live" THEN QGoto(c, "expired")
     ELSE QGoto(c, IF c \in stranger THEN "not_author" ELSE "rooms")
  /\ UNCHANGED <<draft, blocked, state, rows, outside, rooms, dstep, given, ticks, faults>>

\* drafts.take: GETDEL. A stranger's call burns the draft, so does a lost reply.
Take(c) ==
  LET n == DraftOf[c]  taken == [draft EXCEPT ![n] = "gone"] IN
  /\ qstep[c] = "take"
  /\ \/ /\ draft[n] = "live"
        /\ draft' = taken
        /\ QGoto(c, IF c \in stranger THEN "not_author" ELSE "rooms")
        /\ UNCHANGED faults
     \/ draft[n] = "gone" /\ QGoto(c, "expired") /\ UNCHANGED <<draft, faults>>
     \/ Fault /\ draft' \in {draft, taken} /\ QGoto(c, "raised")
  /\ UNCHANGED <<blocked, state, rows, outside, rooms, dstep, given, ticks>>

\* rooms.allEnabled: one room for each dealer that has one, none blocked.
\* group_map is the work of others: it may hold any rooms.
ReadRooms(c) ==
  /\ qstep[c] = "rooms"
  /\ \E enabled \in SUBSET (Room \ blocked) :
       /\ rooms' = [rooms EXCEPT ![c] = enabled]
       /\ QGoto(c, IF enabled = {} THEN "no_room" ELSE "create")
  /\ UNCHANGED <<draft, blocked, state, rows, outside, dstep, given, ticks, faults>>

\* store.create: the announcement and its locked rows in one statement. The
\* request to the approver is best effort and leaves nothing behind here.
Create(c) ==
  /\ qstep[c] = "create"
  /\ \/ /\ state' = [state EXCEPT ![c] = "Awaiting"]
        /\ status' = [d \in Delivery |-> IF d[1] = c /\ d[2] \in rooms[c]
                                           THEN "Pending" ELSE status[d]]
        /\ \/ QGoto(c, "awaiting_approval") /\ UNCHANGED faults
           \/ Fault /\ QGoto(c, "raised")
     \/ Fault /\ QGoto(c, "raised") /\ UNCHANGED <<state, status>>
  /\ rooms' = [rooms EXCEPT ![c] = {}]
  /\ UNCHANGED <<draft, blocked, attempts, mark, past, outside, dstep, given, ticks>>

-----------------------------------------------------------------------------
(* service.ts, approve, reject and notifyOrigin.                           *)

\* The rows that the UPDATE of store.approve unlocks.
Unlocked(a) ==
  {d \in Delivery : d[1] = a /\ status[d] = "Pending" /\ d[2] \notin blocked}

Unlock(ds) ==
  /\ mark' = [d \in Delivery |-> IF d \in ds THEN 1 ELSE mark[d]]
  /\ past' = [d \in Delivery |-> IF d \in ds THEN TRUE ELSE past[d]]
  /\ UNCHANGED <<status, attempts>>

\* Mutant of Approve: the rows are unlocked by a second statement, which a
\* fault may prevent.
ApproveThenUnlock(c) ==
  LET a == of[c] IN
  /\ dstep[c] = "idle" /\ VerdictOf[c] = "approved"
  /\ \/ /\ state[a] = "Awaiting"
        /\ state' = [state EXCEPT ![a] = "Approved"]
        /\ \/ Unlock(Unlocked(a)) /\ DGoto(c, "origin") /\ UNCHANGED faults
           \/ Fault /\ UNCHANGED rows /\ DGoto(c, "raised")
     \/ state[a] \in {"Approved", "Rejected"} /\ DGoto(c, "not_found")
        /\ UNCHANGED <<state, rows, faults>>
  /\ UNCHANGED <<draft, blocked, outside, queuing, given, ticks>>

\* store.approve: an announcement that waits is approved and its rows unlocked.
\* No row back, because every group is blocked or because the announcement
\* waits no more, leads to a second statement, stateOf.
Approve(c) ==
  LET a == of[c] IN
  /\ dstep[c] = "idle" /\ VerdictOf[c] = "approved"
  /\ \/ /\ state[a] = "Awaiting"
        /\ state' = [state EXCEPT ![a] = "Approved"]
        /\ Unlock(Unlocked(a))
        /\ \/ DGoto(c, IF Unlocked(a) = {} THEN "stateOf" ELSE "origin") /\ UNCHANGED faults
           \/ Fault /\ DGoto(c, "raised")
     \/ state[a] \in {"Approved", "Rejected"} /\ DGoto(c, "stateOf")
        /\ UNCHANGED <<state, rows, faults>>
  /\ UNCHANGED <<draft, blocked, outside, queuing, given, ticks>>

StateOf(c) ==
  /\ dstep[c] = "stateOf"
  /\ DGoto(c, IF state[of[c]] = "Approved" THEN "origin" ELSE "not_found")
  /\ UNCHANGED <<draft, blocked, state, rows, outside, queuing, given, ticks, faults>>

\* Mutant of Reject: no status in the WHERE.
RejectAnyStatus(c) ==
  LET a == of[c] IN
  /\ dstep[c] = "idle" /\ VerdictOf[c] = "rejected" /\ state[a] # "none"
  /\ state' = [state EXCEPT ![a] = "Rejected"] /\ DGoto(c, "origin")
  /\ UNCHANGED <<draft, blocked, rows, outside, queuing, given, ticks, faults>>

Reject(c) ==
  LET a == of[c] IN
  /\ dstep[c] = "idle" /\ VerdictOf[c] = "rejected"
  /\ \/ /\ state[a] = "Awaiting"
        /\ state' = [state EXCEPT ![a] = "Rejected"]
        /\ \/ DGoto(c, "origin") /\ UNCHANGED faults
           \/ Fault /\ DGoto(c, "raised")
     \/ state[a] \in {"Approved", "Rejected"} /\ DGoto(c, "not_found")
        /\ UNCHANGED <<state, faults>>
  /\ UNCHANGED <<draft, blocked, rows, outside, queuing, given, ticks>>

\* notifyOrigin: best effort, the decision stands.
NotifyOrigin(c) ==
  /\ dstep[c] = "origin"
  /\ \/ told' = [told EXCEPT ![of[c]][VerdictOf[c]] = @ + 1] /\ UNCHANGED faults
     \/ Fault /\ UNCHANGED told
  /\ DGoto(c, VerdictOf[c])
  /\ UNCHANGED <<draft, blocked, state, rows, received, history, queuing, given, ticks>>

-----------------------------------------------------------------------------
(* poller.ts: tick and deliver. Ticks of one poller do not overlap.        *)

\* The time of a mark comes. Unless SlowTicks, a delivery is over long before
\* the mark that its claim has set.
Elapse(d) ==
  /\ mark[d] > 0 /\ ~past[d]
  /\ SlowTicks \/ \A p \in Poller : hand[p] # <<>> => hand[p][1] # d
  /\ past' = [past EXCEPT ![d] = TRUE]
  /\ UNCHANGED <<draft, blocked, state, status, attempts, mark, outside, queuing, dstep,
                 given, ticks, faults>>

\* store.dueForSend, the rows as the tick will remember them.
Due == {<<d, mark[d], attempts[d]>> :
          d \in {e \in Delivery : state[e[1]] = "Approved" /\ status[e] = "Pending" /\ past[e]}}

\* tick: at most MaxSendPerTick of them, to be done one after the other.
Tick(p) ==
  /\ pstep[p] = "rest" /\ Due # {}
  /\ \E lot \in SUBSET Due :
       /\ Cardinality(lot) = IF Cardinality(Due) < MaxSendPerTick
                               THEN Cardinality(Due) ELSE MaxSendPerTick
       /\ batch' = [batch EXCEPT ![p] = lot]
  /\ pstep' = [pstep EXCEPT ![p] = "claim"]
  /\ UNCHANGED <<draft, blocked, state, rows, outside, queuing, dstep, given, hand, faults>>

\* The next row of the batch, or the end of the tick.
Proceed(p, rest) ==
  /\ batch' = [batch EXCEPT ![p] = rest]
  /\ hand' = [hand EXCEPT ![p] = <<>>]
  /\ pstep' = [pstep EXCEPT ![p] = IF rest = {} THEN "rest" ELSE "claim"]

\* Mutant of Free: the CAS does not look at the mark.
FreeIfPending(item) == status[item[1]] = "Pending"

\* The WHERE of store.claim.
Free(item) == status[item[1]] = "Pending" /\ mark[item[1]] = item[2]

\* store.claim: the next mark and the attempt in one statement.
Claim(p) ==
  /\ pstep[p] = "claim"
  /\ \E item \in batch[p] :
       LET d == item[1]  rest == batch[p] \ {item} IN
       \/ /\ Free(item)
          /\ mark' = [mark EXCEPT ![d] = @ + 1]
          /\ past' = [past EXCEPT ![d] = FALSE]
          /\ attempts' = [attempts EXCEPT ![d] = @ + 1]
          /\ \/ /\ hand' = [hand EXCEPT ![p] = item]
                /\ batch' = [batch EXCEPT ![p] = rest]
                /\ pstep' = [pstep EXCEPT ![p] = "send"]
                /\ UNCHANGED faults
             \/ Fault /\ Proceed(p, rest)                \* reply lost
       \/ ~Free(item) /\ Proceed(p, rest) /\ UNCHANGED <<mark, past, attempts, faults>>
  /\ UNCHANGED <<draft, blocked, state, status, outside, queuing, dstep, given>>

\* broadcaster.send. The channel may refuse; the group may also get a text
\* whose send is reported as failed.
Send(p) ==
  LET d == hand[p][1]  arrived == [received EXCEPT ![d] = @ + 1] IN
  /\ pstep[p] = "send"
  /\ \/ received' = arrived /\ pstep' = [pstep EXCEPT ![p] = "sent"] /\ UNCHANGED faults
     \/ pstep' = [pstep EXCEPT ![p] = "failed"] /\ UNCHANGED <<received, faults>>
     \/ Fault /\ received' = arrived /\ pstep' = [pstep EXCEPT ![p] = "failed"]
  /\ UNCHANGED <<draft, blocked, state, rows, history, told, queuing, dstep, given, batch, hand>>

\* A row leaves the due-index.
Close(d, verdict) ==
  /\ status' = [status EXCEPT ![d] = verdict]
  /\ mark' = [mark EXCEPT ![d] = 0]
  /\ past' = [past EXCEPT ![d] = FALSE]

\* Mutant of GiveUp: one attempt short.
GiveUpEarly(p) == hand[p][3] + 2 >= MaxAttempts

GiveUp(p) == hand[p][3] + 1 >= MaxAttempts

\* store.markFailed: the last attempt closes the row, another only notes why.
MarkFailed(p) ==
  LET d == hand[p][1] IN
  /\ pstep[p] = "failed"
  /\ \/ /\ IF GiveUp(p) /\ status[d] = "Pending"
             THEN Close(d, "Failed") ELSE UNCHANGED <<status, mark, past>>
        /\ UNCHANGED faults
     \/ Fault /\ UNCHANGED <<status, mark, past>>
  /\ Proceed(p, batch[p])
  /\ UNCHANGED <<draft, blocked, state, attempts, outside, queuing, dstep, given>>

\* store.markSent.
MarkSent(p) ==
  LET d == hand[p][1]
      Sent == IF status[d] = "Pending" THEN Close(d, "Sent") ELSE UNCHANGED <<status, mark, past>>
  IN
  /\ pstep[p] = "sent"
  /\ \/ /\ Sent
        /\ pstep' = [pstep EXCEPT ![p] = "history"]
        /\ UNCHANGED <<batch, hand, faults>>
     \/ Fault /\ Proceed(p, batch[p]) /\ (Sent \/ UNCHANGED <<status, mark, past>>)
  /\ UNCHANGED <<draft, blocked, state, attempts, outside, queuing, dstep, given>>

\* history.append: best effort.
AppendHistory(p) ==
  /\ pstep[p] = "history"
  /\ \/ history' = history \cup {hand[p][1]} /\ UNCHANGED faults
     \/ Fault /\ UNCHANGED history
  /\ Proceed(p, batch[p])
  /\ UNCHANGED <<draft, blocked, state, rows, received, told, queuing, dstep, given>>

\* The process dies in its tick.
Crash(p) ==
  /\ pstep[p] # "rest" /\ Fault
  /\ batch' = [batch EXCEPT ![p] = {}]
  /\ hand' = [hand EXCEPT ![p] = <<>>]
  /\ pstep' = [pstep EXCEPT ![p] = "rest"]
  /\ UNCHANGED <<draft, blocked, state, rows, outside, queuing, dstep, given>>

-----------------------------------------------------------------------------
(* runStatus of notice.ts, and store.status: two statements.               *)

\* The head of an announcement, asked for by its id or as one's latest.
ReadHead(c, a) ==
  /\ report = NoReport /\ state[a] # "none" /\ DraftGate(FlowOf[c], role[c])
  /\ report' = [step |-> "rows", of |-> a, state |-> state[a], sent |-> {}, failed |-> {}]
  /\ UNCHANGED <<draft, blocked, state, rows, outside, queuing, dstep, stranger, of, role, ticks, faults>>

\* Its rows, and what the tool tells: of one that waits or was rejected, no rows.
ReadRows ==
  LET With(st) == IF report.state = "Approved" THEN {d \in Delivery : d[1] = report.of /\ status[d] = st}
                  ELSE {}
  IN /\ report.step = "rows"
     /\ report' = [step |-> "told", of |-> report.of, state |-> report.state,
                   sent |-> With("Sent"), failed |-> With("Failed")]
     /\ UNCHANGED <<draft, blocked, state, rows, outside, queuing, dstep, stranger, of, role, ticks, faults>>

-----------------------------------------------------------------------------
CallerNext(c)  == Queue(c) \/ Take(c) \/ ReadRooms(c) \/ Create(c)
DeciderNext(c) == Approve(c) \/ StateOf(c) \/ Reject(c) \/ NotifyOrigin(c)
PollerNext(p)  == Tick(p) \/ Claim(p) \/ Send(p) \/ MarkFailed(p) \/ MarkSent(p) \/ AppendHistory(p)

Next ==
  \/ \E r \in Room : Block(r)
  \/ \E n \in Draft : PutDraft(n) \/ ExpireDraft(n)
  \/ \E c \in Caller : CallerNext(c) \/ \E a \in Announcement : ReadHead(c, a)
  \/ ReadRows
  \/ \E c \in Decider : DeciderNext(c)
  \/ \E d \in Delivery : Elapse(d)
  \/ \E p \in Poller : PollerNext(p) \/ Crash(p)

Spec == Init /\ [][Next]_vars

\* Fairness: time passes, and setInterval keeps every poller ticking.
FairSpec == Spec /\ (\A d \in Delivery : WF_vars(Elapse(d)))
                 /\ (\A p \in Poller : WF_vars(PollerNext(p)))

-----------------------------------------------------------------------------
(* Properties                                                              *)

(* DraftOnce: however many calls queue one draft at the same time, it       *)
(* becomes one announcement, never a stranger's nor of somebody whom the    *)
(* flow does not let queue it (drafts.ts:27-31, service.ts:93-104,         *)
(* notice.ts:180-195).                                                     *)
DraftOnce ==
  \A c, e \in Caller :
    state[c] # "none" => /\ c \notin stranger /\ SendGate(FlowOf[c], role[c])
                         /\ state[e] # "none" /\ DraftOf[e] = DraftOf[c] => e = c

(* ApprovedFirst: a group that has received a text received one that stands *)
(* approved, and the origin was never told the opposite of what stands,     *)
(* whatever the order of two decisions (service.ts:144-186).                *)
ApprovedFirst ==
  /\ \A d \in Delivery : received[d] > 0 \/ mark[d] > 0 => state[d[1]] = "Approved"
  /\ \A a \in Announcement :
       /\ told[a]["approved"] > 0 => state[a] = "Approved"
       /\ told[a]["rejected"] > 0 => state[a] = "Rejected"

(* SentOnce: two pollers never send one row both; a group receives a text   *)
(* again only if a call or a process failed about it (store.ts:4-7,        *)
(* poller.ts:3-4). It presumes deliveries that end before their back-off.   *)
SentOnce == \A d \in Delivery : received[d] <= 1 + faults

(* RowTellsTruth: what status() reports of a row is what happened: "sent"   *)
(* was received, "failed" was tried to the end and not received unless a    *)
(* reply was lost, and the history of a group shows only what it received   *)
(* (store.ts:240-279, poller.ts:119-121). What a person was told of an      *)
(* announcement stays true however it goes on: the groups named as reached  *)
(* or given up are, and one told to be rejected is never sent.              *)
RowTellsTruth ==
  /\ \A d \in Delivery :
       /\ status[d] = "Sent" => received[d] > 0
       /\ status[d] = "Failed" => attempts[d] >= MaxAttempts /\ received[d] <= faults
       /\ d \in history => status[d] = "Sent"
  /\ report.step = "told" =>
       /\ \A d \in report.sent : received[d] > 0 /\ status[d] = "Sent"
       /\ \A d \in report.failed : received[d] <= faults /\ status[d] = "Failed"
       /\ report.state # "Awaiting" => state[report.of] = report.state
       /\ report.state = "Rejected" => \A d \in Delivery : d[1] = report.of => received[d] = 0

(* ApprovedSettles: once an announcement is approved, each of its groups    *)
(* that nobody blocks gets its text or is given up, through crashes and     *)
(* failed statements (store.ts:92-94).                                     *)
ApprovedSettles ==
  \A d \in Delivery :
    [](d[2] \notin blocked) =>
      (state[d[1]] = "Approved" /\ status[d] # "none" ~> status[d] \in {"Sent", "Failed"})

(* ToldOnce: the origin hears of a decision once: a second approval finds   *)
(* no row to update and does not report (store.ts:96-97).                   *)
ToldOnce == \A a \in Announcement : \A v \in Verdict : told[a][v] <= 1
=============================================================================
