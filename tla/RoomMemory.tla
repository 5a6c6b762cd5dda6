----------------------------- MODULE RoomMemory -----------------------------
(***************************************************************************)
(* What the agent remembers of a room (src/state): the buffer of the last   *)
(* entries in Redis, a rolling summary of what has left the agent's window, *)
(* and facts distilled into the long-term store. The buffer is written by   *)
(* every webhook; the summary and the facts at the end of a turn, and the   *)
(* facts also by a distill envelope.                                       *)
(*                                                                         *)
(* One room. Entries are numbered in the order they were appended. The      *)
(* room's lock is that of a process: a process is at one turn of the room   *)
(* at a time, two processes may be at one each. Less than a week passes,    *)
(* so that no key expires.                                                 *)
(***************************************************************************)
EXTENDS Platform, FiniteSets

CONSTANTS
  Keeper,      \* worker processes that serve the room
  MaxSaid,     \* bound on entries
  Buffer,      \* HISTORY_BUFFER_TURNS
  Window,      \* HISTORY_WINDOW_TURNS, which is also KEEP_RECENT_ENTRIES
  MinEntries,  \* COMPACT_MIN_ENTRIES
  MinPending   \* DISTILL_MIN_PENDING

Entry == 1..MaxSaid

ASSUME RoomMemoryAssumption ==
  /\ MaxSaid \in Nat /\ Window \in Nat \ {0} /\ Buffer \in Nat /\ Window <= Buffer
  /\ MinEntries \in Nat \ {0} /\ MinPending \in Nat \ {0}

VARIABLES
  said,     \* entries appended
  summary,  \* SUBSET Entry: what the summary tells of
  mark,     \* the entry up to which the summary goes, 0 for none
  lore,     \* the entry up to which facts were distilled, 0 for none
  sourced,  \* [Entry -> Nat]: batches of facts written with it as their source
  close,    \* [Keeper -> where the end of its turn is]
  seen,     \* [Keeper -> SUBSET Entry]: the entries its writer is given
  end,      \* [Keeper -> Entry or 0]: the last of them, 0 if it is not appended
  view,     \* [Keeper -> SUBSET Entry]: the entries its compactor is given
  since,    \* [Keeper -> Entry or 0]: the cursor it has read
  tale,     \* [Keeper -> SUBSET Entry]: the summary it has read or made
  looked,   \* history variable: the newest entry the compactor has looked at
  burst,    \* history variable: most entries between two of its looks
  overlap,  \* history variable: have two turns of the room overlapped?
  missed    \* history variable: entries newer than the summary's cursor that
            \* the buffer has dropped

long       == <<lore, sourced>>
closes     == <<close, seen, end, view, since, tale>>
watch      == <<looked, burst, overlap, missed>>
memoryVars == <<said, summary, mark, long, closes, watch>>

(* MemoryTypeOK: the type invariant; a process that ends a turn has entries *)
(* before it.                                                              *)
MemoryTypeOK ==
  /\ said \in 0..MaxSaid /\ mark \in 0..said /\ lore \in 0..said
  /\ summary \subseteq 1..said
  /\ sourced \in [Entry -> Nat]
  /\ close \in [Keeper -> {"rest", "turn", "buffer", "mark", "tale", "chat", "summary", "setmark",
                         "lore", "setlore", "distill", "embed", "insert"}]
  /\ \A h \in Keeper :
       /\ view[h] \subseteq 1..said
       /\ seen[h] \subseteq 1..said /\ end[h] \in 0..said
       /\ close[h] = "rest" => seen[h] = {} /\ view[h] = {}
       /\ close[h] \in {"mark", "tale", "chat", "summary", "setmark"} => view[h] # {}
       /\ since[h] \in 0..said
       /\ tale[h] \subseteq 1..said
  /\ looked \in 0..said /\ burst \in 0..MaxSaid /\ overlap \in BOOLEAN
  /\ missed \subseteq 1..said

MemoryInit ==
  /\ said = 0 /\ summary = {} /\ mark = 0
  /\ lore = 0 /\ sourced = [e \in Entry |-> 0]
  /\ close = [h \in Keeper |-> "rest"]
  /\ seen = [h \in Keeper |-> {}]
  /\ end = [h \in Keeper |-> 0]
  /\ view = [h \in Keeper |-> {}]
  /\ since = [h \in Keeper |-> 0]
  /\ tale = [h \in Keeper |-> {}]
  /\ looked = 0 /\ burst = 0 /\ overlap = FALSE /\ missed = {}

-----------------------------------------------------------------------------
\* history.recent: LRANGE of the newest n entries of k.
Recent(k, n) == {e \in 1..k : e > k - n}

Newest(entries) == CHOOSE e \in entries : \A f \in entries : f <= e

CloseAt(h, where) == close' = [close EXCEPT ![h] = where] /\ UNCHANGED <<seen, end, view, since, tale>>

EndClose(h) ==
  /\ close' = [close EXCEPT ![h] = "rest"]
  /\ seen' = [seen EXCEPT ![h] = {}]
  /\ end' = [end EXCEPT ![h] = 0]
  /\ view' = [view EXCEPT ![h] = {}]
  /\ since' = [since EXCEPT ![h] = 0]
  /\ tale' = [tale EXCEPT ![h] = {}]

\* LTRIM has dropped all but the newest Buffer entries.
Trim == missed' = missed \cup {e \in 1..said' : mark < e /\ e <= said' - Buffer}

\* history.append by the gateway. RPUSH adds the entry and LTRIM drops all but
\* the newest Buffer, which is all that anybody reads.
AppendEntry ==
  /\ said < MaxSaid /\ said' = said + 1 /\ Trim
  /\ UNCHANGED <<summary, mark, long, closes, looked, burst, overlap, faults>>

-----------------------------------------------------------------------------
(* handler.ts rememberTurn, and compactor.ts afterTurn.                    *)

Begin(h, where) ==
  /\ said > 0 /\ close[h] = "rest"
  /\ close' = [close EXCEPT ![h] = where]
  /\ overlap' = (overlap \/ \E g \in Keeper : close[g] # "rest")

\* A turn reads its window; messages may come while it runs.
OpenTurn(h) ==
  /\ Begin(h, "turn")
  /\ seen' = [seen EXCEPT ![h] = Recent(said, Window)]
  /\ UNCHANGED <<said, summary, mark, long, end, view, since, tale, looked, burst, missed, faults>>

\* The reply is appended. If that fails it is logged, and the writer is given
\* the reply all the same.
AppendReply(h) ==
  /\ close[h] = "turn"
  /\ close' = [close EXCEPT ![h] = "buffer"]
  /\ \/ /\ said < MaxSaid
        /\ \/ said' = said + 1 /\ UNCHANGED faults
           \/ said' \in {said, said + 1} /\ Fault
     \/ said = MaxSaid /\ Fault /\ UNCHANGED said
  /\ Trim
  /\ LET last == IF said' = said THEN 0 ELSE said' IN
     /\ end' = [end EXCEPT ![h] = last]
     /\ seen' = [seen EXCEPT ![h] = @ \cup ({last} \ {0})]
  /\ UNCHANGED <<summary, mark, long, view, since, tale, looked, burst, overlap>>

\* The compactor is given the whole buffer.
ReadBuffer(h) ==
  /\ close[h] = "buffer"
  /\ \/ /\ view' = [view EXCEPT ![h] = Recent(said, Buffer)]
        /\ close' = [close EXCEPT ![h] = "mark"]
        /\ looked' = said
        /\ burst' = IF said - looked > burst THEN said - looked ELSE burst
        /\ UNCHANGED <<seen, end, since, tale, faults>>
     \/ Fault /\ CloseAt(h, "lore") /\ UNCHANGED <<looked, burst>>
  /\ UNCHANGED <<said, summary, mark, long, overlap, missed>>

\* Mutant of Older: one entry too many is kept verbatim.
OlderOffByOne(h, cursor) ==
  LET pending == {e \in view[h] : e > cursor} IN
  {e \in pending : Cardinality({f \in pending : f > e}) > Window}

\* What has left the window and is not in the summary. A cursor that is no
\* longer in the buffer is older than all of it.
Older(h, cursor) ==
  LET pending == {e \in view[h] : e > cursor} IN
  {e \in pending : Cardinality({f \in pending : f > e}) >= Window}

\* getCursor. There is enough to compact, or little but long, or nothing; a
\* failure is logged, and the turn goes on with its facts.
ReadMark(h) ==
  LET older == Older(h, mark) IN
  /\ close[h] = "mark"
  /\ \/ /\ older # {}
        /\ since' = [since EXCEPT ![h] = mark]
        /\ close' = [close EXCEPT ![h] = "tale"]
        /\ UNCHANGED <<seen, end, view, tale, faults>>
     \/ Cardinality(older) < MinEntries /\ CloseAt(h, "lore") /\ UNCHANGED faults
     \/ Fault /\ CloseAt(h, "lore")
  /\ UNCHANGED <<said, summary, mark, long, watch>>

\* The previous summary.
ReadTale(h) ==
  /\ close[h] = "tale"
  /\ \/ /\ tale' = [tale EXCEPT ![h] = summary]
        /\ close' = [close EXCEPT ![h] = "chat"]
        /\ UNCHANGED <<seen, end, view, since, faults>>
     \/ Fault /\ CloseAt(h, "lore")
  /\ UNCHANGED <<said, summary, mark, long, watch>>

\* summarize: the model merges them, or fails, and the cursor stays.
Summarize(h) ==
  /\ close[h] = "chat"
  /\ \/ /\ tale' = [tale EXCEPT ![h] = @ \cup Older(h, since[h])]
        /\ close' = [close EXCEPT ![h] = "summary"]
        /\ UNCHANGED <<seen, end, view, since, faults>>
     \/ Fault /\ CloseAt(h, "lore")
  /\ UNCHANGED <<said, summary, mark, long, watch>>

\* RedisSummaryStore.set, the first SET ...
SetSummary(h) ==
  /\ close[h] = "summary"
  /\ \/ summary' = tale[h] /\ CloseAt(h, "setmark") /\ UNCHANGED faults
     \/ Fault /\ summary' \in {summary, tale[h]} /\ CloseAt(h, "lore")
  /\ UNCHANGED <<said, mark, long, watch>>

\* ... and the second.
SetMark(h) ==
  LET reached == Newest(Older(h, since[h])) IN
  /\ close[h] = "setmark"
  /\ \/ mark' = reached /\ UNCHANGED faults
     \/ Fault /\ mark' \in {mark, reached}
  /\ CloseAt(h, "lore")
  /\ UNCHANGED <<said, summary, long, watch>>

-----------------------------------------------------------------------------
(* memory-writer.ts afterTurn, at the end of a turn or in a distill turn.   *)

\* distillOnly: another one has spoken, the writer is given the buffer.
BeginDistill(h) ==
  /\ Begin(h, "lore")
  /\ seen' = [seen EXCEPT ![h] = Recent(said, Buffer)]
  /\ end' = [end EXCEPT ![h] = said]
  /\ UNCHANGED <<said, summary, mark, long, view, since, tale, looked, burst, missed, faults>>

\* What the writer is given and what is later than the cursor of the facts.
Pending(h) ==
  Cardinality({e \in seen[h] : e > lore}) + (IF end[h] = 0 THEN 1 ELSE 0)

\* The cursor, and whether there is enough since.
ReadLore(h) ==
  /\ close[h] = "lore"
  /\ \/ Pending(h) >= MinPending /\ CloseAt(h, "setlore") /\ UNCHANGED faults
     \/ Pending(h) < MinPending /\ EndClose(h) /\ UNCHANGED faults
     \/ Fault /\ EndClose(h)
  /\ UNCHANGED <<said, summary, mark, long, watch>>

\* The cursor is set before the model is asked: a failure is not tried again. A
\* cursor that names no entry of the buffer is like none.
SetLore(h) ==
  /\ close[h] = "setlore"
  /\ \/ lore' = end[h] /\ CloseAt(h, "distill") /\ UNCHANGED faults
     \/ Fault /\ lore' \in {lore, end[h]} /\ EndClose(h)
  /\ UNCHANGED <<said, summary, mark, sourced, watch>>

\* A batch with this source is there.
HasSource(h) == end[h] # 0 /\ sourced[end[h]] > 0

\* distill, and write as far as hasSource. There is nothing to keep, or there
\* are facts.
Distill(h) ==
  /\ close[h] = "distill"
  /\ \/ EndClose(h) /\ UNCHANGED faults
     \/ ~HasSource(h) /\ CloseAt(h, "embed") /\ UNCHANGED faults
     \/ Fault /\ EndClose(h)
  /\ UNCHANGED <<said, summary, mark, long, watch>>

\* The embedding of the facts.
Embed(h) ==
  /\ close[h] = "embed"
  /\ \/ CloseAt(h, "insert") /\ UNCHANGED faults
     \/ Fault /\ EndClose(h)
  /\ UNCHANGED <<said, summary, mark, long, watch>>

\* The INSERTs, less what is nearly there already.
InsertLore(h) ==
  LET written == [e \in Entry |-> IF e = end[h] THEN sourced[e] + 1 ELSE sourced[e]] IN
  /\ close[h] = "insert"
  /\ \/ sourced' = written /\ UNCHANGED faults
     \/ Fault /\ sourced' \in {sourced, written}
  /\ EndClose(h)
  /\ UNCHANGED <<said, summary, mark, lore, watch>>

\* The process dies at the end of a turn.
DieInClose(h) ==
  /\ close[h] # "rest" /\ Fault /\ EndClose(h)
  /\ UNCHANGED <<said, summary, mark, long, watch>>

\* Redis loses the cursor of the facts.
LoseLore ==
  /\ lore # 0 /\ Fault /\ lore' = 0
  /\ UNCHANGED <<said, summary, mark, sourced, closes, watch>>

-----------------------------------------------------------------------------
Compact(h) == ReadBuffer(h) \/ ReadMark(h) \/ ReadTale(h) \/ Summarize(h) \/ SetSummary(h) \/ SetMark(h)
Learn(h)   == ReadLore(h) \/ SetLore(h) \/ Distill(h) \/ Embed(h) \/ InsertLore(h)

MemoryNext ==
  \/ AppendEntry \/ LoseLore
  \/ \E h \in Keeper : OpenTurn(h) \/ AppendReply(h) \/ BeginDistill(h) \/ Compact(h) \/ Learn(h) \/ DieInClose(h)

MemorySpec == MemoryInit /\ NoFault /\ [][MemoryNext]_<<memoryVars, faults>>

-----------------------------------------------------------------------------
(* Properties                                                              *)

(* SummaryReaches: unless two turns of the room overlap, the summary tells  *)
(* of everything up to its cursor but what the buffer had dropped by then,  *)
(* whatever fails between the two SETs (compactor.ts:78-83); and an entry   *)
(* leaves the buffer only after it has entered the summary, provided that   *)
(* nothing failed and that no more than a burst of entries comes between    *)
(* two turns (compactor.ts:46-47).                                         *)
SummaryReaches ==
  ~overlap =>
    /\ 1..mark \subseteq summary \cup missed
    /\ faults = 0 /\ burst <= Buffer - Window - MinEntries + 1
         => \A e \in 1..looked : e \in summary \cup Recent(looked, Buffer)

(* LearnedOnce: a batch of facts is written once for its last entry, also   *)
(* when the cursor was lost, unless two turns overlapped (memory.ts:44-45). *)
LearnedOnce == ~overlap => \A e \in Entry : sourced[e] <= 1

(* RoomRemembers: nothing of the room is lost between buffer and summary,   *)
(* and nothing of it is learned twice.                                     *)
RoomRemembers == SummaryReaches /\ LearnedOnce
=============================================================================
