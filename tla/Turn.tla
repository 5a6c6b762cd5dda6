-------------------------------- MODULE Turn --------------------------------
(***************************************************************************)
(* One envelope on its way through a worker (worker/handler.ts), and the    *)
(* agent's loop of model calls and tools inside it (agents/runtime). The    *)
(* queue delivers the envelope again after a turn that failed, a process    *)
(* that died, or an ack that was lost; what had been shown, run or spent    *)
(* by then stays.                                                          *)
(***************************************************************************)
EXTENDS Platform

CONSTANTS
  MaxIterations,   \* agentMaxIterations
  MaxReplyFixes,   \* MAX_REPLY_FIXES
  MaxChunks        \* MAX_CHUNKS of split.ts

ASSUME TurnAssumption ==
  MaxIterations \in Nat \ {0} /\ MaxReplyFixes \in Nat /\ MaxChunks \in Nat \ {0}

\* A mention or a private message, a flash command, a message behind the intent
\* gate, a turn of the proactive funnel, and a turn that only distills.
Kind == {"talk", "flash", "intake", "proactive", "distill"}

VARIABLES
  letter,    \* what the envelope is
  step,      \* where its turn is
  result,    \* how the turn ends: its AgentResult, or "none"
  calls,     \* model calls of the loop
  metered,   \* what the turn's meter shows, in calls
  fixes,     \* drafts that were sent back
  draft,     \* is there a draft that was sent back?
  chunks,    \* messages of the reply still to be sent
  media,     \* images of the reply still to be sent
  showing,   \* has this delivery shown something of its answer?
  shown,     \* history variable: deliveries that showed something of an answer
  ran,       \* history variable: runs of the flash command
  excuses,   \* history variable: deliveries that failed, died or were not
             \* acked, other than by a failure of a later message
  row,       \* is there a row for the message in llm_usage_log?
  unbilled,  \* history variable: calls that no row tells of
  lapses     \* history variable: failed entries in the ledger, and crashes

loopVars == <<calls, fixes, draft>>
outVars  == <<chunks, media, showing>>
tallies  == <<shown, ran, excuses, unbilled, lapses>>
turnVars == <<letter, step, result, metered, row, loopVars, outVars, tallies>>

Result == {"reply", "quiet", "empty", "failed"}

(* TurnTypeOK: the type invariant; the loop stays within its bounds, and a  *)
(* turn has a result exactly when it is over.                              *)
TurnTypeOK ==
  /\ letter \in Kind
  /\ step \in {"queued", "distill", "auth", "command", "note", "send", "block", "intent", "budget",
               "state", "ctx", "route", "chat", "tools", "chunks", "remember", "blank", "record",
               "settle", "acked"}
  /\ result \in Result \cup {"none"}
  /\ result # "none" <=> step \in {"record", "settle", "acked"}
  /\ calls \in 0..MaxIterations /\ metered \in 0..(MaxIterations + 1)
  /\ fixes \in 0..MaxReplyFixes /\ draft \in BOOLEAN
  /\ fixes < calls + 1 /\ (draft => fixes > 0)
  /\ chunks \in 0..MaxChunks /\ media \in 0..1 /\ showing \in BOOLEAN
  /\ row \in BOOLEAN /\ shown \in Nat /\ ran \in Nat /\ excuses \in 0..faults /\ unbilled \in Nat
  /\ lapses \in 0..faults

TurnInit ==
  /\ letter \in Kind
  /\ step = "queued" /\ result = "none"
  /\ calls = 0 /\ metered = 0 /\ fixes = 0 /\ draft = FALSE
  /\ chunks = 0 /\ media = 0 /\ showing = FALSE
  /\ row = FALSE /\ shown = 0 /\ ran = 0 /\ excuses = 0 /\ unbilled = 0 /\ lapses = 0

-----------------------------------------------------------------------------
At(where) == step = where

Go(where) == step' = where /\ UNCHANGED result

\* A return of handleEnvelope: its finally comes next.
Return(r) == step' = "record" /\ result' = r

\* A command that fails, and is caught by handleEnvelope.
Fail == Fault /\ Return("failed") /\ excuses' = excuses + 1

Same == UNCHANGED <<letter, metered, row, loopVars, outVars>>

\* An operation that goes on to one of the given steps, or fails.
Operation(where) ==
  /\ \/ (\E w \in where : Go(w)) /\ UNCHANGED <<excuses, faults>>
     \/ Fail
  /\ UNCHANGED <<shown, ran, unbilled, lapses>> /\ Same

\* A worker has taken the envelope, and the room's lock.
Deliver ==
  /\ At("queued")
  /\ Go(IF letter = "distill" THEN "distill" ELSE "auth")
  /\ UNCHANGED <<faults, tallies>> /\ Same

\* distillOnly; there may be nothing to do.
DistillOnly ==
  /\ At("distill")
  /\ \/ Return("quiet") /\ UNCHANGED <<excuses, faults>>
     \/ Fail
  /\ UNCHANGED <<shown, ran, unbilled, lapses>> /\ Same

\* AUTH. A private chat is not asked for its block.
Auth ==
  /\ At("auth")
  /\ Operation(IF letter = "flash" THEN {"command"}
               ELSE IF letter = "intake" THEN {"block", "intent"} ELSE {"block", "budget"})

\* FLASH: dispatch catches what the command throws.
RunCommand ==
  /\ At("command") /\ Go("note") /\ ran' = ran + 1
  /\ UNCHANGED <<shown, excuses, unbilled, lapses, faults>> /\ Same

\* The reply of a command or the notice of the budget enters the history ...
NoteReply == At("note") /\ Operation({"send"})

Show ==
  /\ showing' = TRUE
  /\ shown' = IF showing THEN shown ELSE shown + 1

\* ... and is sent, capped. A send that fails may have arrived.
SendReply ==
  /\ At("send")
  /\ \/ Show /\ Return("reply") /\ UNCHANGED <<excuses, faults>>
     \/ Show /\ Fail
     \/ Fail /\ UNCHANGED <<showing, shown>>
  /\ UNCHANGED <<letter, metered, row, loopVars, chunks, media, ran, unbilled, lapses>>

\* A turn that ends in silence.
Ignored == Return("quiet") /\ UNCHANGED <<faults, tallies>> /\ Same

Block ==
  /\ At("block")
  /\ Ignored \/ Operation({IF letter = "intake" THEN "intent" ELSE "budget"})

\* The room is no longer a dedicated one, the judge refuses or is out, or the
\* template or the judge lets the message pass.
Intent == At("intent") /\ (Ignored \/ Operation({"budget"}))

\* The room may be over its limit: a proactive turn is silent about it.
Budget ==
  /\ At("budget")
  /\ \/ Operation({"state"} \cup IF letter = "proactive" THEN {} ELSE {"note"})
     \/ letter = "proactive" /\ Ignored

\* STATE: an empty history is a failure too.
ReadState == At("state") /\ Operation({"ctx"})

\* The room's customer; the summary, the pending requests and the speakers are
\* best effort. An agent with sub-agents has the model choose one.
ReadContext == At("ctx") /\ Operation({"route", "chat"})

\* chooseSubAgent.
Route ==
  /\ At("route")
  /\ \/ Go("chat") /\ metered' = metered + 1 /\ UNCHANGED <<excuses, faults>>
     \/ Fail /\ UNCHANGED metered
  /\ UNCHANGED <<letter, row, loopVars, outVars, shown, ran, unbilled, lapses>>

-----------------------------------------------------------------------------
(* loop.ts runAgentLoop.                                                   *)

\* splitReply and extractQrMedia make messages and images of a text; one of
\* markers only makes nothing of it.
Answer ==
  /\ chunks' \in 0..MaxChunks /\ media' \in 0..1
  /\ Go(IF chunks' + media' = 0 THEN "blank" ELSE "chunks")

\* The text is not to be sent: it is empty, or a proactive turn declines.
Withhold ==
  /\ \/ Return("empty")
     \/ letter = "proactive" /\ Return("quiet")
  /\ UNCHANGED <<chunks, media>>

\* Mutant of HasCall: one call too many.
HasCallOffByOne == calls <= MaxIterations

HasCall == calls < MaxIterations

\* The model's next answer, when its calls are not used up: it wants tools, or
\* has a text, a refusal or nothing to say. The meter counts every call that
\* returned.
Chat ==
  /\ At("chat") /\ HasCall
  /\ \/ /\ calls' = calls + 1 /\ metered' = metered + 1
        /\ \/ Go("tools") /\ UNCHANGED <<fixes, draft, chunks, media>>
           \/ (Answer \/ Withhold) /\ UNCHANGED <<fixes, draft>>
           \/ /\ fixes < MaxReplyFixes /\ Go("chat")      \* a check sends it back
              /\ fixes' = fixes + 1 /\ draft' = TRUE
              /\ UNCHANGED <<chunks, media>>
        /\ UNCHANGED <<excuses, faults>>
     \/ Fail /\ UNCHANGED <<calls, metered, fixes, draft, chunks, media>>
  /\ UNCHANGED <<letter, row, showing, shown, ran, unbilled, lapses>>

\* The calls are used up: the last draft is sent, or an excuse.
Exhausted ==
  /\ At("chat") /\ ~HasCall
  /\ Answer \/ (draft /\ Withhold)
  /\ UNCHANGED <<letter, metered, row, loopVars, showing, shown, ran, excuses, unbilled, lapses, faults>>

\* The tools run, and return what they throw. Before it the first of a turn that
\* has a sentence to say is announced, whatever becomes of that.
RunTools == At("tools") /\ Go("chat") /\ UNCHANGED <<tallies, faults>> /\ Same

-----------------------------------------------------------------------------
(* BROADCAST, and the end of the turn.                                     *)

\* Mutant of SendFirst: a first message that fails is logged.
SendFirstOrLog ==
  /\ At("chunks") /\ ~showing /\ chunks > 0
  /\ chunks' = chunks - 1
  /\ \/ Show /\ UNCHANGED faults
     \/ Fault /\ UNCHANGED <<showing, shown>>
  /\ Go("chunks")
  /\ UNCHANGED <<letter, metered, row, loopVars, media, ran, excuses, unbilled, lapses>>

\* sendReplyChunks: the first message; the turn fails with it.
SendFirst ==
  /\ At("chunks") /\ ~showing /\ chunks > 0
  /\ \/ Show /\ Go("chunks") /\ chunks' = chunks - 1 /\ UNCHANGED <<excuses, faults>>
     \/ Show /\ Fail /\ UNCHANGED chunks
     \/ Fail /\ UNCHANGED <<chunks, showing, shown>>
  /\ UNCHANGED <<letter, metered, row, loopVars, media, ran, unbilled, lapses>>

\* Mutant of SendRest: a later one fails the turn too.
SendRestStrictly ==
  /\ At("chunks") /\ showing /\ chunks > 0
  /\ \/ Go("chunks") /\ UNCHANGED faults
     \/ Fault /\ Return("failed")
  /\ chunks' = chunks - 1
  /\ UNCHANGED <<letter, metered, row, loopVars, media, showing, tallies>>

\* sendReplyChunks: a later one; a failure is logged.
SendRest ==
  /\ At("chunks") /\ showing /\ chunks > 0
  /\ Go("chunks") /\ chunks' = chunks - 1
  /\ UNCHANGED faults \/ Fault
  /\ UNCHANGED <<letter, metered, row, loopVars, media, showing, tallies>>

\* The images; one that fails fails the turn, whose text has been read.
SendMedia ==
  /\ At("chunks") /\ chunks = 0
  /\ \/ /\ Go("remember") /\ media' = 0
        /\ IF media = 1 THEN Show ELSE UNCHANGED <<showing, shown>>
        /\ UNCHANGED <<excuses, faults>>
     \/ media = 1 /\ Show /\ Fail /\ UNCHANGED media
     \/ media = 1 /\ Fail /\ UNCHANGED <<showing, shown, media>>
  /\ UNCHANGED <<letter, metered, row, loopVars, chunks, ran, unbilled, lapses>>

\* rememberTurn logs whatever fails in it.
Remember ==
  /\ \/ At("remember") /\ Return("reply")
     \/ At("blank") /\ Return("empty")
  /\ UNCHANGED faults \/ Fault
  /\ UNCHANGED tallies /\ Same

\* INSERT ... ON CONFLICT (msg_id) DO NOTHING: a redelivery adds nothing.
Enter ==
  /\ row' = (row \/ metered > 0)
  /\ unbilled' = IF row THEN unbilled + metered ELSE unbilled

Recorded == step' = "settle" /\ UNCHANGED <<letter, result, metered, loopVars, outVars, shown, ran, excuses>>

\* Mutant of RecordUsage: it stands before the return, not in the finally.
RecordOnSuccess ==
  /\ At("record") /\ Recorded
  /\ \/ result # "failed" /\ Enter
     \/ result = "failed" /\ unbilled' = unbilled + metered /\ UNCHANGED row
  /\ UNCHANGED <<lapses, faults>>

\* recordUsage, in the finally. A failure is logged.
RecordUsage ==
  /\ At("record") /\ Recorded
  /\ \/ Enter /\ UNCHANGED <<lapses, faults>>
     \/ /\ metered > 0 /\ Fault /\ lapses' = lapses + 1
        /\ Enter \/ (unbilled' = unbilled + metered /\ UNCHANGED row)

\* The envelope is the queue's again, without what its turn held.
Requeue ==
  /\ step' = "queued" /\ result' = "none" /\ metered' = 0
  /\ calls' = 0 /\ fixes' = 0 /\ draft' = FALSE
  /\ chunks' = 0 /\ media' = 0 /\ showing' = FALSE
  /\ UNCHANGED <<letter, row>>

\* pool.ts: retryLater leaves a failed one pending, whether it succeeds or not;
\* so does an ack that fails.
Settle ==
  /\ At("settle")
  /\ \/ /\ result # "failed" /\ step' = "acked"
        /\ UNCHANGED <<result, excuses, faults>> /\ Same
     \/ result = "failed" /\ Requeue /\ UNCHANGED <<excuses, faults>>
     \/ result # "failed" /\ Fault /\ Requeue /\ excuses' = excuses + 1
  /\ UNCHANGED <<shown, ran, unbilled, lapses>>

\* The process dies.
DieWithIt ==
  /\ step \notin {"queued", "acked"} /\ Fault /\ Requeue
  /\ excuses' = excuses + 1 /\ lapses' = lapses + 1
  /\ unbilled' = unbilled + metered
  /\ UNCHANGED <<shown, ran>>

-----------------------------------------------------------------------------
Gates     == DistillOnly \/ Auth \/ RunCommand \/ NoteReply \/ SendReply \/ Block \/ Intent \/ Budget
AgentStep == ReadState \/ ReadContext \/ Route \/ Chat \/ Exhausted \/ RunTools
Broadcast == SendFirst \/ SendRest \/ SendMedia \/ Remember
Finally   == RecordUsage \/ Settle \/ DieWithIt

TurnNext == Deliver \/ Gates \/ AgentStep \/ Broadcast \/ Finally

TurnSpec == TurnInit /\ NoFault /\ [][TurnNext]_<<turnVars, faults>>

-----------------------------------------------------------------------------
(* Properties                                                              *)

(* ToldAgain: a person reads an answer to his message, and a command runs,  *)
(* a second time only after a delivery that died, lost its ack, or failed   *)
(* in a step other than a later message of the reply: a broken second part  *)
(* does not repeat the first (handler.ts:297-299).                         *)
ToldAgain == shown <= 1 + excuses /\ ran <= 1 + excuses

(* SilenceIsMeant: an envelope leaves the queue with nothing shown only if  *)
(* the turn was meant to be silent or the model had no text: no failure of  *)
(* a channel or a store ends in silence (zalo.ts:5-6).                     *)
SilenceIsMeant ==
  step = "acked" /\ shown = 0 => result \in {"quiet", "empty"}

(* CallsAreBilled: the model calls of a turn that failed or succeeded are   *)
(* entered (handler.ts:55-57), unless the ledger failed, the process died, *)
(* or an earlier delivery of the message has been entered.                 *)
CallsAreBilled == unbilled > 0 => lapses > 0 \/ row
=============================================================================
