# Dilim agent in TLA+

Dilim is a chat agent for dealers, warehouses and sales staff (TypeScript on Bun, with Redis and
Postgres). Webhooks of Zalo, Messenger and the Zalo official account come in, an agent answers in
the room with tools that read and write an operational system, and several pollers start turns or
send messages by themselves. This directory models the way of a message from the webhook to the
reply and everything that runs beside it, as far as the *order* of steps, or what is told of them,
can go wrong. Wording, prompts and parsing are left out.

All paths are relative to the repository root, which is `src/` here (so `src/src/broker/queue.ts`).

## 1. Inventory

| component | state it keeps | operations | hard behaviour | what makes it correct |
|---|---|---|---|---|
| ingress queue, `broker/queue.ts` | Redis stream `dilim:ingress`, consumer group with last id and pending entries list (PEL), DLQ stream; in memory: waiters, buffer, one pump | `publish`, `take`, pump (`reclaimStale`, `readNew`, `deliver`), `deadLetter`, `ack`, `retryLater` | crashes and failed commands between any two Redis calls, several processes scanning one PEL, trimming, shutdown with a read outstanding | nothing lost in silence, bounded hand-outs, only poison buried, every envelope settles |
| worker pool, `worker/pool.ts`, `worker/lock.ts` | N loops, one promise chain per room, an abort signal | take, lock, turn, ack or retry; `stop` | redelivery of an envelope somebody still holds, queueing behind a slow turn | one turn per room, first deliveries in order |
| burst window, `worker/burst.ts`, `state/turn-marker.ts` | newest event time of each room (Redis) | `mark`, `isSuperseded` | mark late, out of order, unreadable | a dropped message is spoken for by another |
| intake, `message-ingest/gateway.ts` | dedupe keys, room history, last speaker (Redis) | `processMessage`: firstSee, append, publish, mark, speaker turnover, release | concurrent and retried webhooks, every Redis call may fail before or after it took effect | history before queue, queued once, accepted means kept |
| channel adapters, router, dedicated rooms, `message-ingest/adapters`, `agents/` | none; the configuration of each process | parse, gate, choose the agent and its tools | two processes with different configurations, a room that is dedicated on one of them | a room is answered by its agent, with its tools and no others |
| turn handler, `worker/handler.ts`, agent loop, `agents/runtime` | none of its own; the turn's meter | auth, command, block, intent gate, budget, state, agent, broadcast, memory, ledger | failure after part of the answer was sent, a redelivery that runs the whole turn again | told again only after a failure, silent only when meant, every model call billed |
| broadcast, `broadcast/` | the access token of the official account and the one call for it | `splitReply`, `capForChannel`, `extractQrMedia`, send, `get` | two turns share a token that the backend replaces at any time; a picture that is not confirmed | every line once and in order, every code, no second try with a token known to be dead |
| usage and budget, `usage/` | ledger (Postgres), counter of the day (Redis) | `spentTodayPicoUsd`, `record`, `checkDailyBudget` | a refill racing an increment, a lost counter, a redelivered turn | a room overruns its limit by one turn |
| identity, `auth/` | bindings, members, groups (Postgres), cached roles (Redis, 8 h) | `resolve`, bind, connect and disconnect, invalidation | cache filled after its invalidation | no role outlives a change by more than the TTL |
| room memory, `state/session.ts`, `compactor.ts`, `memory-writer.ts`, `memory.ts` | buffer, summary, two cursors (Redis), facts (Postgres) | `append`, `recent`, `afterTurn`, `distill`, `write` | two writes that belong together, a cursor behind a trimmed buffer | what leaves the window is in the summary, facts are written once |
| operational tools, `tools/impl`, `operational/` | none; the operational system's books | look up, upgrade, approve, batch, register, count, report, price | a write whose answer is lost, records that move between the look and the write, answers of an unexpected shape | what the model is told is what was done or read |
| workflows, `workflows/` | rows of `pending_actions` | `openRequest`, `dispatchAsk`, `answerRequest`, `notifyOrigin`, poller `tick` and `remind` | racing openers, answerers and pollers over several processes, failure between close and notify | one asker, fresh ask ids, one result, never closed in silence, always closes |
| announcements, `announcements/`, `tools/impl/announce` | drafts (Redis), announcements and their recipients (Postgres) | draft, queue, approve, reject, status, tick, deliver | double approval, a send that outlasts its back-off, crash between send and mark | approved before sent, sent once, the row tells the truth |
| scheduler, `scheduler/` | job rows with `next_run_at` | create, update, enable, remove, tick, fire | stale job in hand, CAS on one column, crash after the claim | fired once per mark, by its present schedule |
| KB digest, `kb-digest/` | runs of the day, proposals, knowledge base | `runDay`, `digestGroup`, `approve`, `reject` | crash in a run, two reviewers, two writes per approval | one digest per day and group, approved means written |
| proactive funnel, `proactive/` | pending questions (sorted set and hash), counter of the hour | `consider`, `schedule`, `claimDue`, `pickUp` | interleaved multi-key writes, an answer arriving meanwhile | a question is picked once, only when unanswered, and the counter resets |
| start and stop, `index.ts`, `bootstrap/`, `config.ts`, `db/`, `redis/`, `mcp/` | connections, services, list of tools of MCP servers | configuration, `assertInfra`, `start`, `stop` | work under way while what it needs is closed | nothing is left behind by the shutdown |
| prompt context, `context/`, `worker/handler.ts` | none; what a turn gathers | history window, owner of the room, open requests, speakers, facts, one read after another | the room writes on, changes hands or has a request closed between two reads | what is shown is the room's, in order, and no other customer's |
| reading, `vision/`, `doc/`, `skills/` and their tools | one call | check the link, download, describe or convert, OCR once more; hand out a skill and its references | every call may fail, some failures are the sender's and some are not | what is told of an attachment or a skill is so |
| judge, `judge/`, `worker/intake.ts`, `proactive/judge.ts` | one verdict | ask, try again, give up | aborted while it waits, three attempts | a gate opens on a yes only, nothing answered is asked again |
| models, workflow definitions, observability | per call | calls of external services, tables of parameters | none of their own | see section 8 |

How they interact:

    channel --webhook--> adapter --> gateway --RPUSH--> history <--LRANGE-- handler --send--> channel
                                        |                                     ^  |
                                        +--XADD--> ingress stream --take--> worker +--> tools --> operational system
                                        |              ^                     lock  |
                                        +--SET mark----|-----------------> isSuperseded
                                                       |                           +--> ledger, summary, facts
    scheduler, workflow poller, proactive, distill ----+
    tool call in a turn --> openRequest / answerRequest --> pending_actions <-- workflow poller
    tool call in a turn --> draft, queue --> announcements <-- command of the approver, announcement poller

Everything that starts a turn goes through the one stream. Processes share Redis and Postgres and
nothing else; the room lock, the pump, the token and the meter live in the memory of one process.
Each model therefore lets everything between two commands to Redis or Postgres interleave, and one
command is atomic.

The hazards of each component, with the line where each bites and the properties that cover it,
are listed under `hazards` in `PROJECT.json`.

## 2. Modules

| module | models | checked by |
|---|---|---|
| `AtLeastOnce` | what the queue promises: an envelope stays open until finished, buried or evicted | refined by `Ingress` |
| `Ingress` | `broker/queue.ts`, `worker/pool.ts`, `worker/lock.ts` and the Redis stream under them | `MCIngress` |
| `IngressProofs` | theorems about `Ingress` | TLAPS |
| `Intake` | `gateway.ts`, dedupe, history, marker, speaker tracker, `burst.ts`, the path of a turn to its answer | `MCIntake` |
| `Workflows` | `workflows/engine.ts`, `store.ts`, `poller.ts` | `MCWorkflows` |
| `Announcements` | `announcements/`, and the tools of `tools/impl/announce` | `MCAnnouncements` |
| `Platform` | what the following share: processes and the bound on faults | extended |
| `Scheduler` | `scheduler/`, `flash-command` for `/lich` | `MCJobs` |
| `KbDigest` | `kb-digest/`, its commands, the writing half of `state/memory.ts` | `MCJobs` |
| `Proactive` | `proactive/pending.ts`, `poller.ts`, `gate.ts` | `MCJobs` |
| `Verdict` | `judge/`, `worker/intake.ts`, `proactive/judge.ts` | `MCJobs` |
| `Lifecycle` | `index.ts`, `bootstrap/index.ts`, `config.ts`, `mcp/registry.ts` | `MCJobs` |
| `Routing` | adapters, `agents/`, `tools/index.ts`, the gate of a dedicated room | `MCJobs` |
| `Turn` | `worker/handler.ts`, `agents/runtime` | `MCTurns` |
| `Context` | `context/`, the steps of `worker/handler.ts` that gather it | `MCTurns` |
| `Spending` | `usage/` | `MCTurns` |
| `Identity` | `auth/` and the commands that change it | `MCTurns` |
| `Desk` | the tools that write the operational system, `operational/agent-api.ts` | `MCTurns` |
| `Reports` | the tools that only read it, the ports they read through | `MCTurns` |
| `Reading` | `vision/`, `doc/`, `skills/` and the tools that use them | `MCTurns` |
| `Egress` | `broadcast/` | `MCTurns` |
| `RoomMemory` | `state/session.ts`, `compactor.ts`, `memory-writer.ts`, `memory.ts` | `MCTurns` |
| `IntakeProofs`, `WorkflowsProofs`, `AnnouncementsProofs` | theorems about the module of that name | TLAPS |
| `JobsProofs` | theorems about `Scheduler`, `KbDigest`, `Proactive`, `Verdict`, `Lifecycle` and `Routing`, and about `MCJobs` | TLAPS |
| `TurnsProofs` | theorems about `Turn`, `Identity`, `Desk`, `Spending`, `Context` and `RoomMemory` | TLAPS |
| `WordsProofs` | theorems about `Egress`, `Reports` and `Reading`, and lemmas on recursion and sums | TLAPS |
| `WorkerProofs` | theorems about `MCTurns`, from those of `TurnsProofs` and `WordsProofs` | TLAPS |

Definitions named `XAnyIdle`, `XUnlocked` and the like, commented "Mutant of X", are the plausible
bug of the definition after them. No behaviour uses them: each shows that a property fails when
the code is wrong in that way.

`MCJobs` and `MCTurns` put several components into one instance. Those components share no
variable but the bound on faults, so an interleaving of two of them reaches nothing that each does
not reach alone; a variable `part` chooses which of them runs, and the state space is the sum of
theirs and not the product. Where components do meet, they meet in one module: pump, pool and lock
in `Ingress`, webhook, history, mark and burst in `Intake`, the handler and the agent's loop in
`Turn`, buffer and two cursors in `RoomMemory`.

The processes of a deployment are `Host`; a failed command did or did not take effect before it
failed, and a process that dies loses its local variables and starts again at rest.

### Ingress

An envelope is its position in the stream. `posted`, `stream`, `delivered`, `pel`, `deliveries`,
`stale`, `dlq` are Redis; `ask`, `batch`, `doomed`, `retry`, `grave` are the local variables of
one iteration of `pump` at each `await`; `at`, `holds`, `lock` are the worker loops and the
chains of `ConversationLock`. One action per Redis command or per callback that changes state:

* `Publish` is the XADD. Its approximate MAXLEN may trim any number of the oldest entries.
* `PumpRead`, `ReadReply`: the XREADGROUP leaves with the number of waiters, and its reply may
  come after those waiters were aborted (`Shelve`).
* `Scan`, `DlqAdd`, `DlqAck`, `Claim`: `reclaimStale`, between whose commands another process,
  a late `ack` or a trim may come.
* `Deliver`, `DeliverGarbage`: hand-out, and the payload that does not parse.
* `StartTurn`, `Answer`, `EndTurn`, `Ack`, `RetryLater`: the worker. A turn may end well without
  an answer and badly after one. `Ack` may fail before the XACK, between XACK and XDEL, or after.
* `PumpFails`, `Crash`, `Shutdown`, `Exit`, `Restart`.

Idle time is one bit, `stale`, set by `Age`. `HeldMayGoStale` says whether an envelope that a live
process holds may reach the idle limit. In the code it may: `RECLAIM_MIN_IDLE_MS` is five minutes,
a turn has 20 seconds plus the burst window, and an envelope waits in the lock behind the turns
before it. `Age` leaves alone an entry between its XPENDING and its XCLAIM, which are milliseconds
apart.

### Intake

One room. A message is its event time, a request one delivery of its webhook. `pc` is where the
request is between two Redis calls of `processMessage`; the steps that can fail do so before or
after they took effect. `kind` abstracts the adapter's parse to what the code branches on: calls
the agent and may be grouped (`plain`), calls it alone (`alone`: a command, or an intent-gated
message), does not call it (`aside`). The worker half takes entries as `AtLeastOnce` hands them out
and keeps the room's lock from the window to the end of the turn.

### Workflows

The UNIQUE `idempotency_key` gives a subject at most one row, so columns are functions of the
subject. Calls (`Opener`, `Answerer`) and the reminders of each poller step between statements.
`Insert` gives the three outcomes Postgres has for the statement in `store.open`: a new row,
nothing (the partial index of the Pending rows), or an error (the UNIQUE key). Time is a small
clock; `Passing` keeps a call that inserts a row shorter than the request's life.

### Announcements

An announcement carries the name of the `queue` call that created it, a delivery is its row for one
group. `qstep` and `dstep` are the tool calls and the approver's commands between two statements;
`pstep`, `batch` and `hand` are the tick of each poller: the rows it has read and not yet come to,
and the one it delivers. `of`, `stranger` and `role` are inputs chosen once: the id an approver
types, which callers queue a draft they did not write, and who they are. `FlowOf` says whose tools
a call is one of (out of stock, operations): `DraftGate` and `SendGate` are what `flows.ts` asks of
a role. `report` is a call of the status tool between its two reads, the announcement and its
rows. Calls of approve or reject by anybody but the named approver change nothing and are left out.

There is no clock. `backoffFrom` gives a row a mark that lies after the one the tick has read as
due, so marks of a row are numbered, the CAS compares numbers, and `Elapse` lets the time of a mark
come. `SlowTicks` says whether that may happen while the delivery that set the mark still runs. The
back-off counts from the *start* of the tick (`poller.ts:87`): four minutes for the first attempt,
against up to thirty sends of at most fifteen seconds and half a second each (`broadcast/zalo.ts:20`,
`poller.ts:25`, `store.ts:31`), so with more than one process and a very slow bridge it may. The runs take it as
FALSE; with TRUE, `SentOnce` fails with no fault at all, although `poller.ts:3-4` and `store.ts:4-7`
say that no lock runs out in the middle of a send.

### Scheduler, KbDigest, Proactive, Verdict

Three pollers, each a variable that says at which await the tick of a host stands, and what it has
in hand.

* `Scheduler`: a job is its row; `next = 0` is NULL. A tick first schedules rows without a mark,
  then claims each due row by the compare-and-swap on `next_run_at` and fires it: dedupe, history,
  queue. Staff write, move, switch and remove jobs between any two of these. `raced` are jobs whose
  mark was NULL when a tick read it, was set and is NULL again: the one ABA that the CAS has.
* `KbDigest`: one day; a run is claimed by its unique row, a failure closes it as failed, a crash
  leaves it running for good (the code has no other way to end it). Approval is two writes in two
  tables, first the fact, then the decision; a fact that is nearly the same as one already there
  is taken for written.
* `Proactive`: the hash and the sorted set are written and claimed by separate commands. `crossed`
  are people who asked again while a tick was claiming them; what happens to their questions then
  is outside the promise (`PickedOnce` excepts them).
* `Verdict`: one question to the judge, asked by the intake gate of a dedicated room, whose turn may
  be aborted (`Abort`), or by the funnel, which passes no signal. `Attempt` is one call with its
  outcome, `Failed` what a `JudgeError` leads to, `replies` what each attempt has met.

### Lifecycle and Routing

`Lifecycle` is one process: every check of the boot in its order, with its way to fail; services that
work at times of their own; the order of `stop()`. Settings fall into three kinds (required, with a
range, optional): the reader of a setting decides which, and all settings of a kind behave alike.

`Routing` is one message between two processes that may be restarted with another configuration in
between. A message is its channel, its chat (direct, a group, the group the configuration names), whom
it mentions and what it holds. `TakeIn` is the adapter and the gateway's decision, `Picked` the
proactive funnel, `Start` the gate of a dedicated room, `Answer` the router, the tools and whether
there is a way to send. A server that lists a tool twice makes the call of the model fail (`Doubled`).

### Turn, Context, Spending, Identity, RoomMemory

* `Turn`: one envelope through all its deliveries, with one step per await of `handler.ts` and of
  the loop of `runAgentLoop`. History variables count what the outside saw: answers shown, commands
  run, calls made.
* `Context`: a turn reads the history window, the owner of the room, its open requests, the roles of its
  speakers and the facts, each in an action of its own (`Gather`); `Beside` is what others do meanwhile:
  write, connect the room to a customer, open and close requests. An entry is its position. `held`,
  `open` and `stayed` remember who had the room, and which requests were open, while the turn ran.
  A turn may also only distill. `sort` is the kind of the chat, since an agent that serves personal
  chats keeps facts by person and the others by customer or room.
* `Spending`: gate and ledger of the turns of one room in two processes. `beside` counts turns that
  began while another was on, whose SET may hide an increment.
* `Identity`: up to three queries, then SET with a TTL; a command deletes the key. `raced` marks a DEL
  under a resolution that had missed the key.
* `RoomMemory`: entries are numbers; the buffer is the last `Buffer` of them. The end of a turn writes
  facts from the entries before it and then compacts what has left the window, each under its cursor.
  A cursor that lies before the buffer is taken for no cursor, as in the code.

### Desk, Reports, Reading, Egress

* `Desk`: a call is gate, read, check, write, word. The external system answers, refuses, fails
  before or after it did what was asked, or answers with a body that cannot be read; its records move
  at any time. A day has five spans, since a slot has two boundaries: when it is full and when it is over.
* `Reports`: what a port makes of an answer (`Outcome`), and what the tool tells of it, for each of
  thirteen tools. The books change while a call reads them, page by page or four at once.
* `Reading`: one call of the picture tool, the document tool or a skill. `cause` remembers what went
  wrong, `length` what the attachment holds, `contacted` which hosts were asked, `scans` the calls
  with OCR, `blind` whether a directory could not be listed. A failure is told to the model as the
  sender's (`Blame`) or thrown to the runner (`Raise`).
* `Egress`: a reply is a sequence of lines; a message carries line numbers. The token is a number that
  the backend raises; `fetch` are calls for it, of which one is shared by those who wait.

## 3. Abstract specification

`AtLeastOnce` has no Redis in it: `Post`, `HandOut`, `Finish`, `Bury`. It says that an envelope
leaves the queue only when it is settled (a turn finished on it, or the DLQ has it, or MAXLEN
evicted it), that it is handed out at most `MaxAttempts` times and buried only then or when it is
unreadable. It does not say that a finished envelope is not handed out again, because the code
does not give that. `Ingress!ImplementsAtLeastOnce` maps `open` to the entries not yet read or
pending, `attempts` to the PEL's delivery counter, `dead` to the DLQ records that have a payload.

## 4. Runs

| run | question | instance |
|---|---|---|
| `ingress` | is anything lost, handed out too often, buried without cause or left for ever? | 2 processes with a worker each, 2 envelopes of one room (the second unreadable), 2 deliveries, MAXLEN 1, 1 fault |
| `rooms` | are turns of a room serial and in order? | 1 process, 3 interchangeable workers, 2 envelopes, 3 deliveries, 1 fault |
| `intake` | history first, a dropped message read by another, queued once? | 2 messages in order, the older webhook delivered twice, 3 mixes of kinds, 2 deliveries, 1 fault |
| `accepted` (violation) | does a 200 mean the message is kept? | as `intake`, plain messages |
| `workflows` | one asker, one result, told or raised? | 1 subject, 2 openers, 2 answerers, 2 pollers, clock 1..3, 1 fault |
| `reminders` | fresh ids, and does every request close? | 1 subject, 1 opener, 2 pollers, clock 1..4, 1 fault |
| `reopen` (violation) | can an expired subject be asked again? | 1 subject, 2 openers, 1 poller, clock 1..5 |
| `announcements` | one announcement per draft, nothing before approval, one text, do the rows tell the truth, do all settle? | 1 draft, 2 callers in two casts (any of them strangers), 1 approval, 1 rejection, 1 status call, 1 group, 2 pollers, 2 attempts, 1 fault |
| `told_twice` (violation) | is a decision told once? | as `announcements`, 2 approvals, no fault |
| `jobs` | what runs by the clock, the process around it, and who answers | scheduler: 1 job, 2 hosts, 3 minutes of days of 2, at most 1 job; digest: 2 groups, 1 fact each; funnel: 2 people, 3 messages, 1 wake-up per hour; lifecycle: 2 servers; routing: 5 configurations, 2 hosts, every kind of message; judge: 3 attempts; 1 fault |
| `turns` | what a worker does with an envelope | turn: 3 iterations, 1 repair, 2 messages; context: 2 customers, 2 people, 1 request, window of 2, 3 entries, 2 turns, 1 connection; spending: 2 bills of up to 2, 4 deliveries in all, limit 2; identity: 2 customers, TTL 2, time 0..2; desk: 2 calls, 3 tiers, 3 days with a Sunday, 2 repeats; reports: books of up to 2 rows, pages of 1, 2 products of which 1 is listed, carts of 2 lines; reading: a document of up to 3 with a cap of 2, 3 references of up to 3, a budget of 4; egress: 2 senders, 2 messages, limit 2, tokens 1..2; memory: 1 keeper, 6 entries, buffer 3, window 1; 1 fault |
| `counted` (violation) | is a count that is told to be refused not recorded? | as `turns` |

What the properties of `jobs` and `turns` say:

| property | of | says |
|---|---|---|
| `FiredOnce` | `Scheduler` | a mark reaches history and queue at most once, never the queue alone; missed marks are made up by one firing |
| `FiredAsPlanned` | `Scheduler` | a claim succeeds only on a job that is on, at a mark of its present schedule |
| `DigestOnce` | `KbDigest` | one digest per group and day; a claimed run is closed unless something failed |
| `ApprovedIsWritten` | `KbDigest` | what was approved is in the knowledge base, through a crash between the two writes |
| `PickedRightly` | `Proactive`, `Verdict` | woken once per question, after its own wait, not after somebody answered; the counter of the hour has a TTL, unless the EXPIRE was lost; a gate opens only on a yes, and nothing answered or refused is asked again |
| `NothingStranded` | `Lifecycle` | what a service began it ends with everything it needs still open |
| `ServedByItsRoom` | `Routing` | the right agent, with the tools of its side, and the reply back to its channel |
| `PromptFits` | `Context` | the window is shown once, in order and ends with a person; facts are the owner's although the room changes hands; requests open all the while are shown |
| `OverrunBound` | `Spending` | the limit is overrun by one turn, plus those beside each other and redelivered ones |
| `RoleIsFresh` | `Identity` | no dealer's role outlives the TTL, nor a revocation that went well |
| `RoomRemembers` | `RoomMemory` | what left the buffer is in the summary; facts are written once per source |
| `ToldAgain`, `SilenceIsMeant` | `Turn` | a second answer only after a failure, and none only on purpose |
| `CallsAreBilled` | `Turn` | every model call has a row, unless the ledger failed or an earlier delivery has the row |
| `WordsAreTrue` | `Desk`, `Reports`, `Reading` | what a tool says it did or read is so; who is blamed for a failure is to blame |
| `WritesAreSound` | `Desk` | a write contradicts the records only if they moved under it |
| `ReplyArrives` | `Egress` | each line once and in order, each code, within the limits, with one call per token |

Why the bounds are enough. Two processes are the smallest number whose scans of a PEL, claims and
ticks interfere; two envelopes the smallest at which order, batches and trimming matter, and
`MAX_DELIVERIES` of 2 has a first, a last and a too-late delivery (`rooms` uses 3, the value of the
code). `MAXLEN` 1 trims at the second XADD. One fault can strike at every step, and a redelivery
follows each; a *pair* of faults is not covered by TLC; for the properties that section 6 proves,
its theorems cover any number, and any number of processes, calls and messages. Three workers are needed for one to hold a turn, one to wait in the chain and one
to receive a redelivered copy. In `workflows` the deadline is two ticks away, so an answer can fall
before, at or after it, and in `reminders` three, so two reminders and the expiry follow each
other. In `announcements` deliveries do not share state, so one group is enough for two pollers to
meet on its row; two attempts give a first and a last one, and the fault adds a third.
`MAX_SEND_PER_TICK` never binds there.

In `jobs` a day of two minutes and a clock of three lets a mark be missed, moved and made up; the
third message of the funnel is the answer of another person, after two questions of one. The five
configurations of `MCEnv` are: everything; no dedicated room; one of them, no keys and a bare
server; no host of photos and a tool listed twice; one channel that cannot be sent to. In `turns`
two bills and four deliveries let two processes overlap and a later delivery meet the counter they
left; a TTL of two and a clock up to two let a role expire before and after a change. The buffer is
three times the window, and six entries turn it over with entries in between that no turn looked at.
In `Context` a window of two and three entries push the question out of sight, two turns let one learn
what the other is shown, and one connection falls between any two reads; two requests and four entries
with two connections passed alone (4.4 million states). In `Reading` two of three references fit the
budget, or one, or none, and a document may hold nothing, just the cap, or more. The three attempts of
`Verdict` are those of the code.
`Desk` pairs every tool with a lookup and three tools with one that writes the same record
(`MCTools`): the others write records that no tool of a second call touches. The replies of
`MCReply` have more spans than messages, a span that is too long, and one code twice.

The room memory is checked with one process. With two, 15.9 million states passed for smaller
bounds (5 entries, buffer 3, window 1), and its properties except overlapping turns: two processes
may interleave the two SETs of a compaction so that a segment is in no summary, which the lock of
the room, being one per process, does not prevent.

Deadlock is not checked (`CHECK_DEADLOCK FALSE`) because every instance really stops: all the
envelopes, webhooks, calls and ticks the bounds allow have been used.

## 5. Fairness

`Ingress!FairSpec`: a pending entry ages (time passes); a turn ends (`turnSignal` bounds it, and
its abort ends every call it makes); the pump runs while somebody waits, and its scan comes round
(`reclaimStale` is tried before `readNew` on each iteration, so new entries do not starve it); a
draining process exits and a process that is down is restarted (the container's restart policy).
Nothing is assumed of publishing, of faults, or of an answer's being sent. `Workflows!FairSpec`:
time passes and `setInterval` keeps each poller ticking; a tick that failed is followed by another.
`Announcements!FairSpec` assumes the same; nothing is assumed of the approver or of the channel,
which may refuse every send.
No fairness is assumed of openers or answerers: `PendingCloses` holds because of expiry alone.

The other components state no liveness: a firing, a digest or a question that is lost by a crash
after its claim is not made up for, and the code says so; a turn ends by `Ingress`'s account of it.

## 6. What is proved

Each theorem holds for every value of the constants that the assumptions of its module admit: any
number of processes, workers, rooms, calls, messages and faults, any limits. `Spec` is the
specification without fairness.

| theorem | module | property | it says |
|---|---|---|---|
| `NothingIsLost` | `IngressProofs` | `NoSilentLoss` | a published envelope can still be read or was settled, whatever crashes |
| `BoundedDeliveries` | `IngressProofs` | `DeliveryBound` | poison is handed out at most `MAX_DELIVERIES` times |
| `BuriedWithCause` | `IngressProofs` | `OnlyPoisonIsBuried` | the DLQ holds only what used up its deliveries or does not parse |
| `RoomsAreSerial` | `IngressProofs` | `OneTurnPerRoom` | one turn per room and process, redelivered copies included |
| `FirstComeFirstServed` | `IngressProofs` | `RoomFifo` | first deliveries reach the lock in the order of their XADDs |
| `AtLeastOnceRefined` | `IngressProofs` | `ImplementsAtLeastOnce` | every behaviour of Redis, pumps and pools is one of the abstract queue |
| `HeardBeforeAnswered` | `IntakeProofs` | `HistoryFirst` | no turn for a message that the history lacks |
| `OneEntryEach` | `IntakeProofs` | `QueuedOnce` | racing and repeated webhooks queue a message once |
| `DroppedIsRead` | `IntakeProofs` | `SupersededIsRead` | a message that a burst drops is read by the turn it was dropped for, if the channel keeps the order |
| `AskedByOne` | `WorkflowsProofs` | `OneAsker` | of racing openers one dispatches the ask |
| `AsksAreFresh` | `WorkflowsProofs` | `FreshAsks` | no two asks share an id |
| `ToldAtMostOnce` | `WorkflowsProofs` | `ResultOnce` | one result, however answers and expiry race |
| `NeverClosedInSilence` | `WorkflowsProofs` | `ToldOrRaised` | an answer that closed a request is told or raised |
| `DraftTakenOnce` | `AnnouncementsProofs` | `DraftOnce` | one draft, one announcement |
| `ApprovedBeforeSent` | `AnnouncementsProofs` | `ApprovedFirst` | nothing is sent that does not stand approved |
| `SentOnceInTime` | `AnnouncementsProofs` | `SentOnce` | one text per group but for failures, if deliveries end before their back-off |
| `RowsAreTrue` | `AnnouncementsProofs` | `RowTellsTruth` | table, history and status tool agree with what was sent, on the same condition |
| `OneFiringPerMark` | `JobsProofs` | `FiredOnce` | a mark fires once, and missed ones are made up for once |
| `FiringsArePlanned` | `JobsProofs` | `FiredAsPlanned` | a claim finds the job on, at a mark of its present schedule (an action property) |
| `OneDigestADay` | `JobsProofs` | `DigestOnce` | one digest per group and day |
| `ApprovedFactsAreWritten` | `JobsProofs` | `ApprovedIsWritten` | what stands or is told as approved is in the knowledge base |
| `PickedAsJudged` | `JobsProofs` | `PickedRightly` | a question is picked up once, after its wait and by a verdict |
| `NobodyIsStranded` | `JobsProofs` | `NothingStranded` | `stop()` closes nothing under a service at work |
| `RightlyServed` | `JobsProofs` | `ServedByItsRoom` | a room gets its agent and the tools of its side |
| `AnswersAreNotRepeated` | `TurnsProofs` | `ToldAgain` | a second answer only after a counted failure |
| `NothingFailsInSilence` | `TurnsProofs` | `SilenceIsMeant` | no word only for the reasons the code has |
| `CallsAreEntered` | `TurnsProofs` | `CallsAreBilled` | every call of the model is in the ledger |
| `OverrunIsBounded` | `TurnsProofs` | `OverrunBound` | one turn over the limit, and one for each that ran beside another or was redelivered |
| `RolesAreFresh` | `TurnsProofs` | `RoleIsFresh` | no role outlives its TTL, nor a revocation that went well |
| `WritesAreRight` | `TurnsProofs` | `WritesAreSound` | a write contradicts the records only if they moved |
| `WordsAreKept` | `TurnsProofs` | (part of `WordsAreTrue`) | what is told of a write is what came of it |
| `ModelSeesTheRoom` | `TurnsProofs` | `PromptFits` | the model sees the window once and in order, facts of those who had the room, requests open all the while |
| `NothingIsForgotten` | `TurnsProofs` | `RoomRemembers` | what left the buffer is in the summary; facts are written once |
| `RepliesArrive` | `WordsProofs` | `ReplyArrives` | a reply arrives whole and in order, each code once, and what is cut says so |
| `ReportsTellTheTruth` | `WordsProofs` | (part of `WordsAreTrue`) | none is told only of what was read and empty; a price is for every piece of the cart |
| `WhatIsReadIsTrue` | `WordsProofs` | (part of `WordsAreTrue`) | whole, cut or to blame as told; nothing of a skill is hidden |
| `ToolsTellTheTruth` | `WorkerProofs` | `WordsAreTrue` | what the tools of a worker tell the model is so |
| `WorkerKeepsTypes` | `WorkerProofs` | `TypeOK` of `MCTurns` | the nine parts of a worker keep their types |
| `JobsKeepTypes` | `JobsProofs` | `TypeOK` of `MCJobs` | so do the six that run beside the turns |

The type invariant of each component is a theorem too (`TypeCorrect`, or with the component's name:
`TurnTyped`, `ReadingKeepsTypes`, `SchedulerTyped` and so on). `WorkerKeepsTypes` and `JobsKeepTypes` put
them together as `MCTurns` and `MCJobs` do; the small sets of those modules (`MCTools`, `MCBooks`, `MCReply`) choose
among the initial states and are not used by the proofs.

### The argument

Hardly a safety property above is inductive as it stands. Each proof module defines a strengthening, called `IInv` or
with the component's name before it, of named parts; shows that the initial states satisfy it and
that each action preserves it, one lemma per action; and derives the properties from it. Each
was first checked by TLC as an invariant of the instances of section 4 or smaller ones. What the parts add:

* `Ingress`. `NoSilentLoss` needs to know why an entry may leave the PEL: whatever a worker is about
  to ack has been finished, and whatever the pump is about to ack is in the DLQ with its payload or
  was trimmed (`Custody`). `DeliveryBound` needs that an entry in a scan's hands was below the
  limit when it was scanned and cannot have been claimed by another since, unless it has become
  fresh, in which case XCLAIM skips it (`Bounded`, `Counters`). `OneTurnPerRoom` needs that a worker in a turn heads its
  room's chain and appears in the chains once (`Chains`, `Members`). `RoomFifo` needs that of the
  first deliveries a process holds, those of the batch in hand come after those handed out
  (`HandedOut`, `Order`). The refinement maps each step of the pump, the workers, trimming and
  crashes to a step of `AtLeastOnce` or a stutter, with `IInv` at hand.
* `Intake`. One request at a time holds the dedupe key of a message, and the entries of a message are
  counted against the XADDs whose reply was lost (`Token`, with a lemma on cardinalities); nothing goes on to
  the queue before the history has it (`InHistory`); the mark is that of a queued message and a dropped one
  has a newer one in the queue (`Marked`, `Newer`); in order of events, what is older than a message that came in is in
  the history, and in what its turn has read (`Ordered`).
* `Workflows`. Only whoever inserted the row dispatches (`Owned`); an ask id in hand is counted by
  the row and nobody else's (`Numbered`); a reminder about to claim holds a mark no later than the
  row's, and the count if the marks agree, so that the CAS on the mark protects the count
  (`Claims`); a result is due only from the one who closed the row (`Closed`).
* `Announcements`. Whoever took a draft is its author and alone (`Drafts`); marks, attempts and receivers exist only under
  an approval (`Decisions`); a row a tick remembers has a mark no later than the table's (`Batches`);
  without slow ticks a row in the hands of one poller is in nobody else's and its time has not
  come (`InTime`); what the status tool has read of finished rows stays so (`Told`).
* `Scheduler`. The dedupe gives a firing to one process (`Tokens`); a mark in the table is of the
  present schedule and later than every run (`Planned`); a row in a tick's hands whose mark still stands is
  as it was read (`AsRead`), unless it is one of `raced`. `FiredAsPlanned` follows from `Marks` in the state before the claim.
* `KbDigest`. A process digests a group exactly under a run it has claimed, and what the run's row
  says is settled by how far it is (`Runs`); a command about to say "approved" has found or
  written its fact (`Reviews`).
* `Proactive`. A question lies in the hash under its author only (`Kept`); for whoever is not in
  `crossed`, one process at a time holds a member of the sorted set (`Steady`), and a question that was
  claimed has left the hash (`Once`), although set and hash are written and claimed by separate commands.
  `Verdict`: an open verdict has met nothing but what is worth another attempt (`StillOpen`).
  `PickedAsJudged` puts the two together, which share no variable.
* `Lifecycle`. What is open in each phase (`Stocked`) and what `stop()` has left behind (`Behind`).
  `Routing`. What an envelope says was found under the configuration it was taken in by (`Carried`).
* `Turn`. What was shown and run is excused by failures, the present delivery's own not yet counted
  (`Excused`); a turn past a step has shown something (`Evident`); nothing is metered before the loop (`Counted`).
* `Identity`. A dealer's key expires within a TTL of the last time he was one (`Current`, `Kept`); what a
  lookup has read of the tables is of this step, and what it took from the cache of the last TTL
  (`Resolving`); once he is none and no deletion is outstanding, neither the cache nor a lookup under
  way takes him for one, unless something failed or a lookup raced the deletion (`Revoked`).
* `Spending`. A sum is said as the number of its units (`Amount`), so that one summand's move moves it (lemma
  `AmountMoves`). `Slack` is what the turns under way may still spend, or have spent and the counter does not
  show. While the counter is missing or somebody is still to set what it has summed up, `Slack` and what is spent are
  covered by one turn and those that began beside another (`Unsummed`); from the last such SET on, by the counter and
  a turn's worth for each `Credit`: the turns beside another, the redeliveries, and the messages that await their
  row, less the turns that have entered nothing (`Summed`). A gate that passes turns the second into the bound.
* `Desk`. What a call has decided to write agrees with the records as long as nothing moved under
  it, from the gate to the POST (`Prepared`); only a call that is over has written wrongly (`Wrongs`).
* `Context`. The window is a stretch of the history that nobody's writing changes and the entry to answer
  is in it or before it (`Windowed`), so that moving one entry to the end, which is all
  `endWithUserTurn` does (lemma `MovedLast`), loses and swaps none; what is so now was so while the turn ran
  (`Watching`); the owner it has found had the room in that time, and a fact bears an owner who had it when
  it was learned (`Scoped`, `Learned`).
* `RoomMemory`. What a keeper holds of the buffer (`Hands`, `Sight`); and, as long as no two turns overlap
  (`Serial`), that it alone writes, that the cursor's prefix is in the summary or was pushed out unread, that the batch
  it merges follows the cursor, and, without faults and with bursts the buffer is made for,
  that the cursor keeps up with the buffer (`KeepsUp`).
* `Egress`. What stands in the chat, what was skipped and what is still to do are together the parts of the
  reply, in their order, for a sender at any step (`InTurn`, with `Left` and `Fine`); a part whose confirmation is
  lost may stand there twice; one call for a token is under way at a time, and a second try is made with what it brought
  (`TokenInv`). That the parts are the reply is a lemma on `splitReply` and `extractQrMedia`, by induction over the lines.
* `Reports`. What has been read of a source is the reading of a length that its book had while the call ran, or of
  a failure (`Heard`); a line with a code has its product from the start (`Priced`). That the merged cart holds every
  piece is a lemma on sums: those by product are a partition of the lines.
* `Reading`. What a call has met at each step, and that it blames nothing before its end (`OnTheWay`). That
  the smallest references are loaded first and the rest would not fit is a lemma on `bundleReferences`, by induction
  over the sorted names.
* `MCTurns` and `MCJobs`. The part that runs keeps its invariant (`Working`), the others keep their types
  (`Resting`); those that spend no fault keep theirs whichever part runs (`WorkerIInv`, `JobsIInv`).

Recursion and induction over data. The library's induction theorems take an operator as a parameter, which the
provers cannot instantiate; `WordsProofs` states them with a set instead. `Climb`: a set that has 0 and with each number
below `N` the next one has `N`. `Recursion`: for a first value and a rule, given as a function, there is the function
that follows them; with it the values of `Splitting`, `Collecting` and `Loading` are what their equations say. `FillUp` is
the same induction over a finite set, and from it come the sums of the community modules' folds (`SumAdd`, `SumTake`,
`SumUnion`).

### From which assumptions

`PlatformAssumption`, and the assumption of each module, say little more than that bounds are
natural numbers and functions have their domains. Those that say more:

* `WorkflowsAssumption`: no answer is a call that asks (`Answerer \cap Asker = {}`), which only names calls apart.
* `KbDigestAssumption`, `ProactiveAssumption`, `RoutingAssumption`, `IdentityAssumption`: the model's
  words for "nobody" are not the name of anybody.
* `DeskAssumption`: no two Sundays in a row, since a registration that falls on one moves to the next day.
* `RoomMemoryAssumption`: the window is not larger than the buffer (`session.ts`).
* `ContextAssumption`: customers, people and the words for the room, the agent and nobody are all different.
* `RoutingAssumption` also: there is a configuration to start a process with.
* `ReadingAssumption`, `ReportsAssumption`: references and products are finitely many, since both are added up.
* `EgressAssumption`: a reply is a sequence of words, markers and codes.
* `SpendingAssumption`: processes and bills are finitely many (the bound adds up over them), and "none" is not a bill.
* `DroppedIsRead` assumes `InOrder`, and `SentOnceInTime` and `RowsAreTrue` assume `~SlowTicks`.
  Without these the properties fail (sections 2 and 7); the runs have the same values.

## 7. What is only model-checked

Liveness (`EveryEnvelopeSettles`, `PendingCloses`, `ApprovedSettles`) is under fairness and stays
with TLC: ENABLED, on which fairness rests, is out of the prover's reach. Every other property of the passing runs is
a theorem of section 6. The four properties that fail (below) are TLC's too: each is refuted by a counterexample.

### Where code and documentation disagree

Shown by a run:

* `AcceptedIsKept`: `gateway.ts:153` says that no message is lost because the mark is released.
  When the mark is set and its reply lost, or when the release fails too, the retry is taken for a
  duplicate.
* `ExpiredMayBeAskedAgain`: `workflows/store.ts:85` expects a subject to be asked again months
  later. After an expiry the UNIQUE `idempotency_key` refuses it for ever.
* `ToldOnce`: `announcements/store.ts:96-97` says that a second approval is not reported. It is:
  `approve` returns 0 instead of `undefined` for an announcement that is already approved, and 0
  means "approved, every group blocked". The test of this case (`announcements.test.ts:501`) runs on
  a fake store.
* `CountIsTold`: `ghi-ton-kho.ts:9` knows a refusal and "unknown". An answer with a 2xx status that
  cannot be read is told as a refusal, although the count was recorded.

Met while modelling, and kept in the models as the code has them:

* Delivery. `docs/architecture/09-nguyen-tac-thiet-ke.md:5` asks for dedupe by `msgId` when the broker
  retries, and `message-ingest/deps.ts:30` says that the worker's is authoritative; no worker code
  does it, and `ToldAgain` counts the repetitions. `worker/burst.ts:12-13` says that skewed times
  never drop a message; with `InOrder` FALSE, `SupersededIsRead` fails: the newer message is answered
  before the older one reaches the history. What a tool of a turn announced before the model
  declined to answer stays in the room (`handler.ts:241-242`).
* Money. When Redis loses the counter of the day under a turn, INCRBY creates it anew with that
  turn's cost only (`usage/store.ts:70`, against its head :3-6). The calls of a redelivered turn are
  swallowed by ON CONFLICT; `CallsAreBilled` excepts them by `row`.
* Memory. The cursor of the facts passes over what a long monologue pushed out of the buffer, and messages that
  arrive during a turn count as distilled although the writer was not given them.
* Announcements. `status` with an explicit id answers about anybody's announcement, though the tool is
  meant for the asker's own (`notice.ts`, `runStatus`). `store.ts:241-242` says that a rejected
  announcement has no rows left; they stay Pending. A delivery whose group is blocked at the approval stays
  Pending without a mark, so the status tool says "a few more minutes" for ever. A draft does not
  record its flow: a tool of the other flow may queue it. When the reply of `create` is lost the caller hears that
  the draft expired, writes it again, and one text has two announcements.
* Knowledge base. Neither `approve` nor `reject` looks at what `decide` returned
  (`kb-digest/service.ts:189-208`): of two reviewers who decide one proposal at once, both read that
  theirs stands.
* Reports. Data of another shape than an array or object is told as none
  (`order-api.ts` cameras, `profile-api.ts` profile, QR and wallet), against their heads. A row
  without a tracking number is dropped in silence. The four sections of a day's report are read
  at different moments. A single search hit is taken although its name is another's. Merged lines of a
  cart may exceed `MAX_QUANTITY`.
* Attachments and skills. `xem-anh.ts:101-102` and `doc-file.ts:80-81` send failures of the network to
  the runner, but a download that fails before its status is told to the sender as a fault of the
  file; one that breaks off in its body is thrown raw. A 429 of the converter is told as a format that
  cannot be read (`anydoc.ts:197`). A malformed escape in a link is a `URIError` for the runner
  (`anydoc.ts:219`). A description cut at its token limit is told as whole. `loader.ts:127-130` says
  that other errors are thrown on; they end as an empty list, and the skill seems to have no references.
* Judge. `jev.ts:119` reads the body outside the try, though its head promises a `JudgeError` for
  every failure. A shutdown that aborts a message of a dedicated room while the judge is asked makes
  it `ignored`: it is acked and dropped, where `pool.ts:62-64` leaves a turn that broke off unacked.
* Context. `lastUserText` (`assembler.ts:260-264`) takes the last entry even when the agent wrote it,
  though its comment says the nearest turn of a person. What was said in a room before it was
  connected, or for another customer, is distilled into the facts of the present one
  (`handler.ts:662-680`). `state/types.ts:32` says that every group reads the company's knowledge;
  no code recalls that scope, only the digest writes it.
* Configuration. `tra_gia_le` is declared by no agent, though `tools/index.ts:67` gives it to the
  Messenger agent. The Messenger adapter is commented out (`message-ingest/index.ts:33-35`), so its
  webhook is always 404, although its way to send is registered and a comment (:18-19) says the type
  checker would not allow it. `bootstrap/index.ts:525-527` and `tools/index.ts:152` describe an older
  state. `mcp/registry.ts:79` says that connecting never throws; the `close` of a server without
  usable tools (:114) is outside its try, and fails the boot. A server that lists one tool twice
  makes every dealer's turn fail. With two configurations deployed at once, an envelope of the
  funnel may be run by the agent of a dedicated room, and a reply of a process without the channel's
  way to send is printed and lost.
* Stopping. `stop()` has no try: when closing the database fails, Redis stays open. Requests that
  the gateway is serving when its server stops may meet a closed Redis (`NothingStranded` excepts them).
* Sending. A forced `get` may join a call that began before the backend replaced the token, so the
  second try can fail as well. Two turns that were both rejected make one call each. A picture whose confirmation is lost is
  sent again as a link. The name that is put before the first message is added after its length was
  cut. When a reply is nothing but the link of a code, the link stays in what is remembered
  (`handler.ts:266-275` says it is taken out).

## 8. What is not modelled

* Time-outs of Redis keys that are longer than what a model covers (dedupe, marker, history,
  summary), clock differences between processes, and Redis losing writes it has acknowledged, except
  the counter of the day and the cursor of the facts, whose loss the code speaks of.
* The parsing of RESP, JSON, webhooks and commands beyond "parses or not" and what the code branches on.
* The clients of language models (`llm/`), and inside `vision/`, `doc/` and `judge/` how a request is
  written: one call in and out; what they answer is nondeterministic where it matters. Their answers
  are bounded by the turn's signal.
* The wording of prompts, the loading of skills at the start, the definitions of workflows
  (`workflows/defs`): assembly of text and tables of parameters; `Workflows` takes a definition's
  deadline and reminders as constants.
* Logging, type declarations, schema and migrations, apart from the constraints that `Workflows`,
  `KbDigest` and `Spending` rest on. Together these are most of the lines the map leaves out.
* Tools that open, answer or list workflows appear as the calls of `Workflows`.
* Effects of a write that arrive after its caller has given up waiting (`Desk` lets a lost answer
  have its effect at once), and reading the catalogue and the profile as two steps.

## 9. Plan

The order is by what a failure costs.

1. Done: `AtLeastOnce`, `Ingress` and its proofs, `Intake`, `Workflows`, `Announcements`.
2. Done: `Spending`, `Scheduler`, `KbDigest`, `Proactive`, `Verdict`, `RoomMemory`, `Identity`, `Turn`,
   `Context`, `Desk`, `Reports`, `Reading`, `Egress`, `Lifecycle`, `Routing`, with `MCJobs` and `MCTurns`.
3. Done: a proof of every safety property, and of the type invariant, of every module, of the refinement of
   `AtLeastOnce`, and of the two compositions `MCJobs` and `MCTurns`.
4. Left: what `Egress` says of tokens (why a forced call may bring the dead one again) as a property of its own;
   time-outs of Redis keys; the two hazards in `PROJECT.json` that no property covers.
