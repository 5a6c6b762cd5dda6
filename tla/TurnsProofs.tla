----------------------------- MODULE TurnsProofs -----------------------------
(***************************************************************************)
(* Theorems about what a worker does with an envelope, for every set of     *)
(* people, every bound and every number of faults: the turn itself (Turn),  *)
(* who its sender is taken for (Identity), what its tools write (Desk),     *)
(* what the room may spend (Spending), what a turn shows the model of the   *)
(* room (Context) and what is remembered of it afterwards (RoomMemory).     *)
(* Each has an inductive invariant of its own.                              *)
(***************************************************************************)
EXTENDS Turn, Spending, Identity, Desk, Context, RoomMemory, FiniteSetTheorems, SequenceTheorems,
        NaturalsInduction, WellFoundedInduction, TLAPS

-----------------------------------------------------------------------------
(* Turn                                                                    *)

\* A delivery that has failed is excused by its failure, one under way not yet.
Excused ==
  /\ shown <= 1 + excuses /\ ran <= 1 + excuses
  /\ ~showing \/ result = "failed" => shown <= excuses
  /\ step \notin {"note", "send", "record", "settle", "acked"} \/ result = "failed"
       => ran <= excuses

\* Where a turn cannot be without having shown something, and that a failed one
\* does not leave the queue.
Evident ==
  /\ showing \/ result = "reply" => shown > 0
  /\ step = "chunks" => showing \/ chunks + media > 0
  /\ step = "remember" => showing
  /\ step = "acked" => result # "failed"

\* The meter shows the calls of the loop, and the one that routes.
Counted ==
  /\ metered <= calls + 1
  /\ step \in {"queued", "distill", "auth", "command", "note", "send", "block", "intent", "budget",
               "state", "ctx", "route"} => calls = 0 /\ metered = 0

TurnIInv == FaultsOK /\ TurnTypeOK /\ Excused /\ Evident /\ Counted /\ CallsAreBilled

\* What the parts of the invariant say in numbers.
LEMMA TurnNumbers ==
  ASSUME TurnIInv
  PROVE  /\ MaxIterations \in Nat \ {0} /\ MaxReplyFixes \in Nat /\ MaxChunks \in Nat \ {0}
         /\ MaxFaults \in Nat /\ faults \in Nat /\ excuses \in Nat /\ lapses \in Nat
         /\ calls \in Nat /\ metered \in Nat /\ fixes \in Nat /\ chunks \in Nat /\ media \in Nat
         /\ shown \in Nat /\ ran \in Nat /\ unbilled \in Nat
BY TurnAssumption, PlatformAssumption DEF TurnIInv, TurnTypeOK, FaultsOK

LEMMA TurnInitial ==
  ASSUME TurnInit, NoFault
  PROVE  TurnIInv
<1>1. FaultsOK
  BY PlatformAssumption DEF NoFault, FaultsOK
<1>2. TurnTypeOK
  <2>1. /\ 0 \in 0..MaxIterations /\ 0 \in 0..(MaxIterations + 1) /\ 0 \in 0..MaxReplyFixes
        /\ 0 \in 0..MaxChunks /\ 0 \in 0..1 /\ 0 \in 0..faults /\ 0 < 0 + 1
    BY TurnAssumption DEF NoFault
  <2> QED
    BY <2>1 DEF TurnInit, TurnTypeOK
<1>3. Excused /\ Evident /\ Counted /\ CallsAreBilled
  BY DEF TurnInit, Excused, Evident, Counted, CallsAreBilled
<1> QED
  BY <1>1, <1>2, <1>3 DEF TurnIInv

\* A step that fails: the turn is over, and excused.
LEMMA FailStep ==
  ASSUME TurnIInv, Fail, result = "none",
         showing' \in BOOLEAN, chunks' \in 0..MaxChunks, media' \in 0..1,
         UNCHANGED <<letter, metered, row, calls, fixes, draft, ran, unbilled, lapses>>,
         \/ UNCHANGED <<showing, shown>>
         \/ Show
  PROVE  TurnIInv'
<1>a. TurnTypeOK /\ FaultsOK /\ Excused /\ Evident /\ Counted /\ CallsAreBilled
  BY DEF TurnIInv
<1>1. /\ faults' = faults + 1 /\ faults < MaxFaults /\ excuses' = excuses + 1
      /\ step' = "record" /\ result' = "failed"
  BY DEF Fail, Fault, Return
<1>2. FaultsOK'
  BY <1>1, TurnNumbers DEF FaultsOK
<1>3. shown' \in Nat /\ shown' <= shown + 1 /\ (showing => shown' = shown) /\ shown <= shown'
      /\ (showing' => showing \/ shown' = shown + 1)
  BY TurnNumbers DEF Show
<1>4. TurnTypeOK'
  BY <1>a, <1>1, <1>3, TurnNumbers DEF TurnTypeOK, Result
<1>5. Excused'
  BY <1>a, <1>1, <1>3, TurnNumbers DEF Excused
<1>6. Evident'
  BY <1>a, <1>1, <1>3, TurnNumbers DEF Evident
<1>7. Counted' /\ CallsAreBilled'
  BY <1>a, <1>1 DEF Counted, CallsAreBilled
<1> QED
  BY <1>2, <1>4, <1>5, <1>6, <1>7 DEF TurnIInv

\* The gates and the look at the room: nothing is shown or counted.
LEMMA Onward ==
  ASSUME TurnIInv, result = "none", step # "chunks", step # "remember",
         result' = "none", step' \in {"distill", "auth", "block", "intent", "budget", "state", "ctx",
                                      "route", "chat"},
         \/ step \in {"queued", "distill", "auth", "block", "intent", "budget", "state", "ctx", "route"}
         \/ step' = "chat",
         step \notin {"note", "send"},
         UNCHANGED <<faults, tallies>>, Same
  PROVE  TurnIInv'
<1>a. TurnTypeOK /\ FaultsOK /\ Excused /\ Evident /\ Counted /\ CallsAreBilled
  BY DEF TurnIInv
<1>1. UNCHANGED <<faults, shown, ran, excuses, unbilled, lapses, letter, metered, row, calls, fixes,
                  draft, chunks, media, showing>>
  BY DEF tallies, Same, loopVars, outVars
<1>2. TurnTypeOK'
  BY <1>a, <1>1 DEF TurnTypeOK
<1>3. Excused' /\ Evident'
  <2>1. step \notin {"note", "send", "record", "settle", "acked"}
    BY <1>a DEF TurnTypeOK
  <2> QED
    BY <1>a, <1>1, <2>1 DEF Excused, Evident
<1>4. Counted' /\ FaultsOK' /\ CallsAreBilled'
  BY <1>a, <1>1 DEF Counted, FaultsOK, CallsAreBilled
<1> QED
  BY <1>2, <1>3, <1>4 DEF TurnIInv

\* A turn that ends in silence.
LEMMA QuietStep ==
  ASSUME TurnIInv, result = "none", step \notin {"note", "send"}, Return("quiet"),
         UNCHANGED <<faults, tallies>>, Same
  PROVE  TurnIInv'
<1>a. TurnTypeOK /\ FaultsOK /\ Excused /\ Evident /\ Counted /\ CallsAreBilled
  BY DEF TurnIInv
<1>1. UNCHANGED <<faults, shown, ran, excuses, unbilled, lapses, letter, metered, row, calls, fixes,
                  draft, chunks, media, showing>>
  BY DEF tallies, Same, loopVars, outVars
<1>2. step' = "record" /\ result' = "quiet"
  BY DEF Return
<1>3. TurnTypeOK'
  BY <1>a, <1>1, <1>2 DEF TurnTypeOK, Result
<1>4. Excused' /\ Evident'
  BY <1>a, <1>1, <1>2 DEF Excused, Evident
<1>5. Counted' /\ FaultsOK' /\ CallsAreBilled'
  BY <1>a, <1>1, <1>2 DEF Counted, FaultsOK, CallsAreBilled
<1> QED
  BY <1>3, <1>4, <1>5 DEF TurnIInv

\* A failure with nothing shown.
LEMMA FailQuietly ==
  ASSUME TurnIInv, Fail, result = "none", Same, UNCHANGED <<shown, ran, unbilled, lapses>>
  PROVE  TurnIInv'
<1>1. UNCHANGED <<letter, metered, row, calls, fixes, draft, chunks, media, showing>>
  BY DEF Same, loopVars, outVars
<1>2. showing \in BOOLEAN /\ chunks \in 0..MaxChunks /\ media \in 0..1
  BY DEF TurnIInv, TurnTypeOK
<1> QED
  BY <1>1, <1>2, FailStep

LEMMA GatesStep ==
  ASSUME TurnIInv, Deliver \/ Gates
  PROVE  TurnIInv'
<1>a. TurnTypeOK /\ FaultsOK /\ Excused /\ Evident /\ Counted /\ CallsAreBilled
  BY DEF TurnIInv
<1>b. result = "none"
  BY <1>a DEF Deliver, Gates, DistillOnly, Auth, RunCommand, NoteReply, SendReply, Block, Intent,
              Budget, At, TurnTypeOK
<1>1. CASE Deliver
  BY <1>b, <1>1, Onward DEF Deliver, At, Go
<1>2. CASE DistillOnly
  <2>1. CASE Return("quiet") /\ UNCHANGED <<excuses, faults>>
    BY <1>b, <1>2, <2>1, QuietStep DEF DistillOnly, At, tallies
  <2>2. CASE Fail
    BY <1>b, <1>2, <2>2, FailQuietly DEF DistillOnly
  <2> QED
    BY <1>2, <2>1, <2>2 DEF DistillOnly
\* A flash command, and the notice of the budget, take a way of their own.
<1>3. ASSUME NEW w \in {"command", "note", "send"}, At("auth") \/ At("budget") \/ At("note"),
             w = "send" <=> At("note"), w = "note" <=> At("budget"),
             Go(w), UNCHANGED <<faults, tallies>>, Same
      PROVE  TurnIInv'
  <2>1. UNCHANGED <<faults, shown, ran, excuses, unbilled, lapses, letter, metered, row, calls, fixes,
                    draft, chunks, media, showing>>
    BY <1>3 DEF tallies, Same, loopVars, outVars
  <2>2. step' = w /\ result' = "none"
    BY <1>b, <1>3 DEF Go
  <2>3. TurnTypeOK'
    BY <1>a, <2>1, <2>2 DEF TurnTypeOK
  <2>4. Excused' /\ Evident'
    BY <1>a, <1>3, <2>1, <2>2 DEF Excused, Evident, At
  <2>5. Counted' /\ FaultsOK' /\ CallsAreBilled'
    BY <1>a, <1>3, <2>1, <2>2 DEF Counted, FaultsOK, CallsAreBilled, At
  <2> QED
    BY <2>3, <2>4, <2>5 DEF TurnIInv
<1>4. ASSUME NEW where \in SUBSET {"command", "note", "send", "block", "intent", "budget", "state"},
             Operation(where), step \in {"auth", "note", "block", "intent", "budget"},
             "send" \in where <=> At("note"), At("note") => where = {"send"},
             "note" \in where => At("budget"), "command" \in where => At("auth")
      PROVE  TurnIInv'
  <2>1. CASE Fail
    BY <1>b, <1>4, <2>1, FailQuietly DEF Operation
  <2>2. CASE (\E w \in where : Go(w)) /\ UNCHANGED <<excuses, faults>>
    <3>1. PICK w \in where : Go(w)
      BY <2>2
    <3>2. UNCHANGED <<faults, tallies>> /\ Same
      BY <1>4, <2>2 DEF Operation, tallies
    <3>3. CASE w \in {"command", "note", "send"}
      <4>1. /\ At("auth") \/ At("budget") \/ At("note")
            /\ w = "send" <=> At("note")
            /\ w = "note" <=> At("budget")
        BY <1>4, <3>1, <3>3 DEF At
      <4> QED
        BY <1>3, <3>1, <3>2, <3>3, <4>1
    <3>4. CASE w \notin {"command", "note", "send"}
      <4>1. ~At("note")
        BY <1>4, <3>1, <3>4
      <4> QED
        BY <1>4, <1>b, <3>1, <3>2, <3>4, <4>1, Onward DEF Go, At
    <3> QED
      BY <3>3, <3>4
  <2> QED
    BY <1>4, <2>1, <2>2 DEF Operation
<1>5. CASE Auth
  BY <1>4, <1>5 DEF Auth, At
<1>6. CASE RunCommand
  <2>1. UNCHANGED <<faults, shown, excuses, unbilled, lapses, letter, metered, row, calls, fixes,
                    draft, chunks, media, showing>>
    BY <1>6 DEF RunCommand, Same, loopVars, outVars
  <2>2. step = "command" /\ step' = "note" /\ result' = "none" /\ ran' = ran + 1
    BY <1>b, <1>6 DEF RunCommand, At, Go
  <2>3. TurnTypeOK'
    BY <1>a, <2>1, <2>2 DEF TurnTypeOK
  <2>4. Excused'
    BY <1>a, <1>b, <2>1, <2>2, TurnNumbers DEF Excused
  <2>5. Evident'
    BY <1>a, <2>1, <2>2 DEF Evident
  <2>6. Counted' /\ FaultsOK' /\ CallsAreBilled'
    BY <1>a, <2>1, <2>2 DEF Counted, FaultsOK, CallsAreBilled
  <2> QED
    BY <2>3, <2>4, <2>5, <2>6 DEF TurnIInv
<1>7. CASE NoteReply
  BY <1>4, <1>7 DEF NoteReply, At
<1>8. CASE SendReply
  <2>1. UNCHANGED <<letter, metered, row, calls, fixes, draft, chunks, media, ran, unbilled, lapses>>
    BY <1>8 DEF SendReply, loopVars
  <2>2. CASE Fail /\ (Show \/ UNCHANGED <<showing, shown>>)
    <3>1. showing' \in BOOLEAN /\ chunks' \in 0..MaxChunks /\ media' \in 0..1
      BY <1>a, <2>1, <2>2 DEF Show, TurnTypeOK
    <3> QED
      BY <1>b, <2>1, <2>2, <3>1, FailStep
  <2>3. CASE Show /\ Return("reply") /\ UNCHANGED <<excuses, faults>>
    <3>1. /\ step' = "record" /\ result' = "reply" /\ UNCHANGED <<excuses, faults>> /\ showing' = TRUE
          /\ shown' \in Nat /\ shown' <= shown + 1 /\ (showing => shown' = shown)
          /\ (~showing => shown' = shown + 1)
      BY <2>3, TurnNumbers DEF Show, Return
    <3>2. TurnTypeOK'
      BY <1>a, <2>1, <3>1 DEF TurnTypeOK, Result
    <3>3. Excused'
      BY <1>a, <1>b, <1>8, <2>1, <3>1, TurnNumbers DEF Excused, SendReply, At
    <3>4. Evident'
      BY <1>a, <3>1, TurnNumbers DEF Evident
    <3>5. Counted' /\ FaultsOK' /\ CallsAreBilled'
      BY <1>a, <2>1, <3>1 DEF Counted, FaultsOK, CallsAreBilled
    <3> QED
      BY <3>2, <3>3, <3>4, <3>5 DEF TurnIInv
  <2> QED
    BY <1>8, <2>2, <2>3 DEF SendReply
<1>9. CASE Block
  <2>1. CASE Ignored
    BY <1>b, <1>9, <2>1, QuietStep DEF Block, Ignored, At
  <2>2. CASE ~Ignored
    BY <1>4, <1>9, <2>2 DEF Block, At
  <2> QED
    BY <2>1, <2>2
<1>10. CASE Intent
  <2>1. CASE Ignored
    BY <1>b, <1>10, <2>1, QuietStep DEF Intent, Ignored, At
  <2>2. CASE ~Ignored
    BY <1>4, <1>10, <2>2 DEF Intent, At
  <2> QED
    BY <2>1, <2>2
<1>11. CASE Budget
  <2>1. CASE Ignored
    BY <1>b, <1>11, <2>1, QuietStep DEF Budget, Ignored, At
  <2>2. CASE ~Ignored
    BY <1>4, <1>11, <2>2 DEF Budget, At
  <2> QED
    BY <2>1, <2>2
<1> QED
  BY <1>1, <1>2, <1>5, <1>6, <1>7, <1>8, <1>9, <1>10, <1>11 DEF Gates

\* The loop goes on, or ends with something to send or with nothing to say.
LEMMA LoopMove ==
  ASSUME TurnIInv, result = "none", step \in {"state", "ctx", "route", "chat", "tools"},
         UNCHANGED <<faults, tallies, letter, row, showing>>,
         calls' \in 0..MaxIterations, metered' \in 0..(MaxIterations + 1), metered' <= calls' + 1,
         fixes' \in 0..MaxReplyFixes, draft' \in BOOLEAN, fixes' < calls' + 1,
         draft' => fixes' > 0,
         chunks' \in 0..MaxChunks, media' \in 0..1,
         \/ step' \in {"chat", "tools", "blank", "chunks"} /\ result' = "none"
         \/ step' = "record" /\ result' \in {"empty", "quiet"},
         step' = "chunks" => chunks' + media' > 0
  PROVE  TurnIInv'
<1>a. TurnTypeOK /\ FaultsOK /\ Excused /\ Evident /\ Counted /\ CallsAreBilled
  BY DEF TurnIInv
<1>1. UNCHANGED <<faults, shown, ran, excuses, unbilled, lapses, letter, row, showing>>
  BY DEF tallies
<1>2. TurnTypeOK'
  BY <1>a, <1>1 DEF TurnTypeOK, Result
<1>3. Excused'
  BY <1>a, <1>1 DEF Excused
<1>4. Evident'
  <2>1. result' # "reply" /\ step' # "remember" /\ step' # "acked"
    OBVIOUS
  <2>2. showing' => shown' > 0
    BY <1>a, <1>1 DEF Evident
  <2> QED
    BY <2>1, <2>2 DEF Evident
<1>5. Counted'
  BY DEF Counted
<1>6. FaultsOK' /\ CallsAreBilled'
  BY <1>a, <1>1 DEF FaultsOK, CallsAreBilled
<1> QED
  BY <1>2, <1>3, <1>4, <1>5, <1>6 DEF TurnIInv

LEMMA AgentsStep ==
  ASSUME TurnIInv, AgentStep
  PROVE  TurnIInv'
<1>a. TurnTypeOK /\ FaultsOK /\ Excused /\ Evident /\ Counted /\ CallsAreBilled
  BY DEF TurnIInv
<1>b. result = "none"
  BY <1>a DEF AgentStep, ReadState, ReadContext, Route, Chat, Exhausted, RunTools, At, TurnTypeOK
<1>c. /\ calls \in 0..MaxIterations /\ metered \in 0..(MaxIterations + 1)
      /\ fixes \in 0..MaxReplyFixes /\ draft \in BOOLEAN
      /\ chunks \in 0..MaxChunks /\ media \in 0..1
      /\ fixes < calls + 1 /\ (draft => fixes > 0) /\ metered <= calls + 1
  BY <1>a DEF TurnTypeOK, Counted
<1>d. /\ MaxIterations \in Nat /\ calls \in Nat /\ metered \in Nat /\ fixes \in Nat
      /\ MaxReplyFixes \in Nat
  BY TurnNumbers
<1>1. ASSUME NEW where \in SUBSET {"ctx", "route", "chat"}, Operation(where),
             step \in {"state", "ctx"}
      PROVE  TurnIInv'
  <2>1. CASE Fail
    BY <1>b, <1>1, <2>1, FailQuietly DEF Operation
  <2>2. CASE (\E w \in where : Go(w)) /\ UNCHANGED <<excuses, faults>>
    <3>1. PICK w \in where : Go(w)
      BY <2>2
    <3>2. UNCHANGED <<faults, tallies>> /\ Same
      BY <1>1, <2>2 DEF Operation, tallies
    <3> QED
      BY <1>1, <1>b, <3>1, <3>2, Onward DEF Go
  <2> QED
    BY <1>1, <2>1, <2>2 DEF Operation
<1>2. CASE ReadState
  BY <1>1, <1>2 DEF ReadState, At
<1>3. CASE ReadContext
  BY <1>1, <1>3 DEF ReadContext, At
<1>4. CASE Route
  <2>1. CASE Fail
    <3>2. UNCHANGED <<letter, row, loopVars, outVars, shown, ran, unbilled, lapses>>
      BY <1>4 DEF Route
    <3>3. CASE UNCHANGED metered
      <4>1. Same
        BY <3>2, <3>3 DEF Same
      <4> QED
        BY <1>b, <2>1, <3>2, <4>1, FailQuietly
    <3>4. CASE UNCHANGED faults
      BY <2>1, <3>4, TurnNumbers DEF Fail, Fault
    <3> QED
      BY <1>4, <3>3, <3>4 DEF Route
  <2>2. CASE Go("chat") /\ metered' = metered + 1 /\ UNCHANGED <<excuses, faults>>
    <3>1. /\ UNCHANGED <<faults, tallies, letter, row, showing, calls, fixes, draft, chunks, media>>
          /\ step = "route" /\ step' = "chat" /\ result' = "none"
      BY <1>4, <1>b, <2>2 DEF Route, loopVars, outVars, tallies, At, Go
    <3>2. calls = 0 /\ metered = 0
      BY <1>a, <3>1 DEF Counted
    <3>3. metered' \in 0..(MaxIterations + 1) /\ metered' <= calls' + 1
      BY <1>d, <2>2, <3>1, <3>2
    <3> QED
      BY <1>b, <1>c, <3>1, <3>3, LoopMove
  <2> QED
    BY <1>4, <2>1, <2>2 DEF Route
<1>5. ASSUME Answer \/ Withhold, UNCHANGED <<faults, tallies, letter, row, showing, fixes, draft>>,
             step = "chat", calls' \in 0..MaxIterations, metered' \in 0..(MaxIterations + 1),
             metered' <= calls' + 1, fixes < calls' + 1
      PROVE  TurnIInv'
  <2>1. CASE Answer
    <3>1. /\ chunks' \in 0..MaxChunks /\ media' \in 0..1 /\ result' = "none"
          /\ step' \in {"blank", "chunks"} /\ (step' = "chunks" => chunks' + media' # 0)
      BY <1>b, <2>1 DEF Answer, Go
    <3>2. step' = "chunks" => chunks' + media' > 0
      <4>1. chunks' \in Nat /\ media' \in Nat
        BY <3>1, TurnNumbers
      <4>2. \A m, n \in Nat : m + n # 0 => m + n > 0
        OBVIOUS
      <4> QED
        BY <3>1, <4>1, <4>2
    <3> QED
      BY <1>5, <1>b, <1>c, <3>1, <3>2, LoopMove
  <2>2. CASE Withhold
    <3>1. /\ step' = "record" /\ result' \in {"empty", "quiet"} /\ UNCHANGED <<chunks, media>>
      BY <2>2 DEF Withhold, Return
    <3> QED
      BY <1>5, <1>b, <1>c, <3>1, LoopMove
  <2> QED
    BY <1>5, <2>1, <2>2
<1>6. CASE Chat
  <2>0. step = "chat" /\ calls < MaxIterations
    BY <1>6 DEF Chat, At, HasCall
  <2>1. CASE Fail
    <3>1. CASE UNCHANGED <<calls, metered, fixes, draft, chunks, media>>
      <4>1. Same
        BY <1>6, <3>1 DEF Chat, Same, loopVars, outVars
      <4> QED
        BY <1>b, <1>6, <2>1, <4>1, FailQuietly DEF Chat
    <3>2. CASE UNCHANGED <<excuses, faults>>
      BY <2>1, <3>2, TurnNumbers DEF Fail, Fault
    <3> QED
      BY <1>6, <3>1, <3>2 DEF Chat
  <2>2. CASE ~Fail
    <3>1. /\ calls' = calls + 1 /\ metered' = metered + 1
          /\ UNCHANGED <<faults, tallies, letter, row, showing>>
          /\ \/ Go("tools") /\ UNCHANGED <<fixes, draft, chunks, media>>
             \/ (Answer \/ Withhold) /\ UNCHANGED <<fixes, draft>>
             \/ /\ fixes < MaxReplyFixes /\ Go("chat")
                /\ fixes' = fixes + 1 /\ draft' = TRUE
                /\ UNCHANGED <<chunks, media>>
      BY <1>6, <2>2 DEF Chat, tallies
    <3>2. /\ calls' \in 0..MaxIterations /\ metered' \in 0..(MaxIterations + 1)
          /\ metered' <= calls' + 1 /\ fixes < calls' + 1
          /\ fixes + 1 < calls' + 1
      BY <1>c, <1>d, <2>0, <3>1
    <3>3. CASE Go("tools") /\ UNCHANGED <<fixes, draft, chunks, media>>
      BY <1>b, <1>c, <2>0, <3>1, <3>2, <3>3, LoopMove DEF Go
    <3>4. CASE (Answer \/ Withhold) /\ UNCHANGED <<fixes, draft>>
      BY <1>5, <2>0, <3>1, <3>2, <3>4
    <3>5. CASE /\ fixes < MaxReplyFixes /\ Go("chat")
               /\ fixes' = fixes + 1 /\ draft' = TRUE
               /\ UNCHANGED <<chunks, media>>
      <4>0. fixes < MaxReplyFixes /\ fixes' = fixes + 1 /\ draft' = TRUE
        BY <3>5
      <4>1. fixes' \in 0..MaxReplyFixes /\ fixes' > 0
        BY <1>d, <4>0
      <4>3. fixes' < calls' + 1
        BY <3>2, <4>0
      <4>2. step' = "chat" /\ result' = "none"
        BY <1>b, <3>5 DEF Go
      <4> QED
        BY <1>b, <1>c, <2>0, <3>1, <3>2, <3>5, <4>0, <4>1, <4>2, <4>3, LoopMove
    <3> QED
      BY <3>1, <3>3, <3>4, <3>5
  <2> QED
    BY <2>1, <2>2
<1>7. CASE Exhausted
  <2>1. /\ UNCHANGED <<faults, tallies, letter, row, showing, fixes, draft, calls, metered>>
        /\ Answer \/ Withhold
    BY <1>7 DEF Exhausted, loopVars, tallies
  <2> QED
    BY <1>5, <1>7, <1>c, <2>1 DEF Exhausted, At
<1>8. CASE RunTools
  BY <1>b, <1>8, Onward DEF RunTools, At, Go
<1> QED
  BY <1>2, <1>3, <1>4, <1>6, <1>7, <1>8 DEF AgentStep

\* Messages leave, and something of the answer has been shown.
LEMMA OutMove ==
  ASSUME TurnIInv, step = "chunks", result = "none", faults' = faults \/ Fault,
         UNCHANGED <<letter, metered, row, loopVars, ran, excuses, unbilled, lapses>>,
         chunks' \in 0..MaxChunks, media' \in 0..1,
         Show \/ (showing /\ UNCHANGED <<showing, shown>>),
         step' \in {"chunks", "remember"}, result' = "none"
  PROVE  TurnIInv'
<1>a. TurnTypeOK /\ FaultsOK /\ Excused /\ Evident /\ Counted /\ CallsAreBilled
  BY DEF TurnIInv
<1>1. UNCHANGED <<letter, metered, row, calls, fixes, draft, ran, excuses, unbilled, lapses>>
  BY DEF loopVars
<1>2. faults' \in 0..MaxFaults /\ faults <= faults' /\ faults' \in Nat
  BY <1>a, TurnNumbers DEF FaultsOK, Fault
<1>3. /\ showing' = TRUE /\ shown' \in Nat /\ (showing => shown' = shown)
      /\ (~showing => shown' = shown + 1)
  BY <1>a, TurnNumbers DEF Show, TurnTypeOK
<1>4. excuses' \in 0..faults' /\ lapses' \in 0..faults'
  BY <1>a, <1>1, <1>2, TurnNumbers DEF TurnTypeOK
<1>5. TurnTypeOK'
  BY <1>a, <1>1, <1>3, <1>4 DEF TurnTypeOK
<1>6. Excused'
  BY <1>a, <1>1, <1>3, TurnNumbers DEF Excused
<1>7. Evident'
  BY <1>a, <1>3, TurnNumbers DEF Evident
<1>8. Counted' /\ FaultsOK' /\ CallsAreBilled'
  BY <1>a, <1>1, <1>2 DEF Counted, FaultsOK, CallsAreBilled
<1> QED
  BY <1>5, <1>6, <1>7, <1>8 DEF TurnIInv

LEMMA BroadcastStep ==
  ASSUME TurnIInv, Broadcast
  PROVE  TurnIInv'
<1>a. TurnTypeOK /\ FaultsOK /\ Excused /\ Evident /\ Counted /\ CallsAreBilled
  BY DEF TurnIInv
<1>b. result = "none"
  BY <1>a DEF Broadcast, SendFirst, SendRest, SendMedia, Remember, At, TurnTypeOK
<1>c. /\ chunks \in 0..MaxChunks /\ media \in 0..1 /\ showing \in BOOLEAN /\ chunks \in Nat
      /\ MaxChunks \in Nat
  BY <1>a, TurnNumbers DEF TurnTypeOK
<1>1. ASSUME Fail, Show \/ UNCHANGED <<showing, shown>>, UNCHANGED <<chunks, media>>,
             UNCHANGED <<letter, metered, row, loopVars, ran, unbilled, lapses>>
      PROVE  TurnIInv'
  <2>1. showing' \in BOOLEAN /\ chunks' \in 0..MaxChunks /\ media' \in 0..1
    BY <1>c, <1>1 DEF Show
  <2>2. UNCHANGED <<calls, fixes, draft>>
    BY <1>1 DEF loopVars
  <2> QED
    BY <1>b, <1>1, <2>1, <2>2, FailStep
<1>2. CASE SendFirst
  <2>1. CASE Fail /\ UNCHANGED chunks
    BY <1>1, <1>2, <2>1 DEF SendFirst
  <2>2. CASE Show /\ Go("chunks") /\ chunks' = chunks - 1 /\ UNCHANGED <<excuses, faults>>
    <3>1. chunks' \in 0..MaxChunks
      BY <1>c, <1>2, <2>2 DEF SendFirst
    <3>2. /\ step = "chunks" /\ step' = "chunks" /\ result' = "none" /\ media' \in 0..1
          /\ UNCHANGED <<letter, metered, row, loopVars, ran, excuses, unbilled, lapses, faults>>
      BY <1>b, <1>c, <1>2, <2>2 DEF SendFirst, At, Go
    <3> QED
      BY <1>b, <2>2, <3>1, <3>2, OutMove
  <2> QED
    BY <1>2, <2>1, <2>2 DEF SendFirst
<1>3. CASE SendRest
  <2>1. /\ step = "chunks" /\ step' = "chunks" /\ result' = "none" /\ media' \in 0..1
        /\ UNCHANGED <<letter, metered, row, loopVars, ran, excuses, unbilled, lapses>>
        /\ showing /\ UNCHANGED <<showing, shown>> /\ (faults' = faults \/ Fault)
        /\ chunks' = chunks - 1 /\ chunks > 0
    BY <1>b, <1>c, <1>3 DEF SendRest, At, Go, tallies
  <2>2. chunks' \in 0..MaxChunks
    BY <1>c, <2>1
  <2> QED
    BY <1>b, <2>1, <2>2, OutMove
<1>4. CASE SendMedia
  <2>1. CASE Fail /\ UNCHANGED media
    BY <1>1, <1>4, <2>1 DEF SendMedia
  <2>2. CASE /\ Go("remember") /\ media' = 0
             /\ IF media = 1 THEN Show ELSE UNCHANGED <<showing, shown>>
             /\ UNCHANGED <<excuses, faults>>
    <3>1. Show \/ (showing /\ UNCHANGED <<showing, shown>>)
      <4>1. CASE media = 1
        BY <2>2, <4>1
      <4>2. CASE media # 1
        <5>1. chunks = 0 /\ media = 0 /\ step = "chunks"
          BY <1>4, <1>c, <4>2 DEF SendMedia, At
        <5>2. showing
          BY <1>a, <5>1 DEF Evident
        <5> QED
          BY <2>2, <4>2, <5>2
      <4> QED
        BY <4>1, <4>2
    <3>2. /\ step = "chunks" /\ step' = "remember" /\ result' = "none"
          /\ media' \in 0..1 /\ chunks' \in 0..MaxChunks
          /\ UNCHANGED <<letter, metered, row, loopVars, ran, excuses, unbilled, lapses, faults>>
      BY <1>b, <1>c, <1>4, <2>2 DEF SendMedia, At, Go
    <3> QED
      BY <1>b, <3>1, <3>2, OutMove
  <2> QED
    BY <1>4, <2>1, <2>2 DEF SendMedia
<1>5. CASE Remember
  <2>1. UNCHANGED <<shown, ran, excuses, unbilled, lapses, letter, metered, row, calls, fixes, draft,
                    chunks, media, showing>>
    BY <1>5 DEF Remember, tallies, Same, loopVars, outVars
  <2>2. /\ step' = "record"
        /\ (step = "remember" /\ result' = "reply") \/ (step = "blank" /\ result' = "empty")
    BY <1>5 DEF Remember, At, Return
  <2>3. faults' \in 0..MaxFaults /\ faults <= faults' /\ faults' \in Nat
    BY <1>a, <1>5, TurnNumbers DEF FaultsOK, Fault, Remember
  <2>4. excuses' \in 0..faults' /\ lapses' \in 0..faults'
    BY <1>a, <2>1, <2>3, TurnNumbers DEF TurnTypeOK
  <2>5. TurnTypeOK'
    BY <1>a, <2>1, <2>2, <2>4 DEF TurnTypeOK, Result
  <2>6. Excused' /\ Evident'
    BY <1>a, <1>b, <2>1, <2>2 DEF Excused, Evident
  <2>7. Counted' /\ FaultsOK' /\ CallsAreBilled'
    BY <1>a, <2>1, <2>2, <2>3 DEF Counted, FaultsOK, CallsAreBilled
  <2> QED
    BY <2>5, <2>6, <2>7 DEF TurnIInv
<1> QED
  BY <1>2, <1>3, <1>4, <1>5 DEF Broadcast

\* The envelope is the queue's again: excused, or its failure was.
LEMMA RequeueStep ==
  ASSUME TurnIInv, Requeue, UNCHANGED <<shown, ran>>,
         faults' \in 0..MaxFaults, faults <= faults', excuses <= excuses',
         excuses' \in 0..faults', lapses' \in 0..faults', lapses <= lapses',
         excuses' > excuses \/ result = "failed",
         unbilled' \in Nat, unbilled' = unbilled \/ lapses' > 0
  PROVE  TurnIInv'
<1>a. TurnTypeOK /\ FaultsOK /\ Excused /\ Evident /\ Counted /\ CallsAreBilled
  BY DEF TurnIInv
<1>1. /\ step' = "queued" /\ result' = "none" /\ metered' = 0
      /\ calls' = 0 /\ fixes' = 0 /\ draft' = FALSE
      /\ chunks' = 0 /\ media' = 0 /\ showing' = FALSE
      /\ UNCHANGED <<letter, row>>
  BY DEF Requeue
<1>2. /\ 0 \in 0..MaxIterations /\ 0 \in 0..(MaxIterations + 1) /\ 0 \in 0..MaxReplyFixes
      /\ 0 \in 0..MaxChunks /\ 0 \in 0..1 /\ 0 < 0 + 1 /\ 0 <= 0 + 1
  BY TurnAssumption
<1>3. TurnTypeOK'
  BY <1>a, <1>1, <1>2 DEF TurnTypeOK
<1>4. Excused'
  <2>1. excuses' \in Nat /\ shown <= excuses' /\ ran <= excuses'
    BY <1>a, TurnNumbers DEF Excused
  <2> QED
    BY <1>1, <2>1, TurnNumbers DEF Excused
<1>5. Evident'
  BY <1>1 DEF Evident
<1>6. Counted' /\ FaultsOK'
  BY <1>1, <1>2 DEF Counted, FaultsOK
<1>7. CallsAreBilled'
  BY <1>a, <1>1, TurnNumbers DEF CallsAreBilled
<1> QED
  BY <1>3, <1>4, <1>5, <1>6, <1>7 DEF TurnIInv

LEMMA FinallyStep ==
  ASSUME TurnIInv, Finally
  PROVE  TurnIInv'
<1>a. TurnTypeOK /\ FaultsOK /\ Excused /\ Evident /\ Counted /\ CallsAreBilled
  BY DEF TurnIInv
<1>b. Fault => faults' \in 0..MaxFaults /\ faults' = faults + 1
  BY TurnNumbers DEF Fault
<1>c. excuses <= faults /\ lapses <= faults /\ faults \in 0..MaxFaults
  BY <1>a, TurnNumbers DEF TurnTypeOK, FaultsOK
<1>1. CASE RecordUsage
  <2>1. /\ step = "record" /\ step' = "settle"
        /\ UNCHANGED <<letter, result, metered, calls, fixes, draft, chunks, media, showing, shown,
                       ran, excuses>>
    BY <1>1 DEF RecordUsage, Recorded, At, loopVars, outVars
  <2>2. /\ unbilled' \in Nat /\ row' \in BOOLEAN
        /\ faults' \in 0..MaxFaults /\ faults <= faults'
        /\ lapses' \in 0..faults' /\ excuses' \in 0..faults'
    <3>1. row \in BOOLEAN
      BY <1>a DEF TurnTypeOK
    <3>2. /\ (row' = (row \/ metered > 0)) \/ (row' = row)
          /\ unbilled' = unbilled \/ unbilled' = unbilled + metered
          /\ \/ UNCHANGED <<lapses, faults>>
             \/ Fault /\ lapses' = lapses + 1
      BY <1>1 DEF RecordUsage, Enter
    <3>3. row' \in BOOLEAN
      BY <3>1, <3>2
    <3>4. unbilled' \in Nat
      BY <3>2, TurnNumbers
    <3>5. /\ faults' \in 0..MaxFaults /\ faults <= faults'
          /\ lapses' \in 0..faults' /\ excuses' \in 0..faults'
      BY <1>b, <1>c, <2>1, <3>2, TurnNumbers
    <3> QED
      BY <3>3, <3>4, <3>5
  <2>3. TurnTypeOK'
    BY <1>a, <2>1, <2>2 DEF TurnTypeOK
  <2>4. Excused' /\ Evident'
    BY <1>a, <2>1 DEF Excused, Evident
  <2>5. Counted' /\ FaultsOK'
    BY <1>a, <2>1, <2>2 DEF Counted, FaultsOK
  <2>6. CallsAreBilled'
    <3>1. CASE Enter /\ UNCHANGED <<lapses, faults>>
      BY <1>a, <3>1 DEF CallsAreBilled, Enter, TurnTypeOK
    <3>2. CASE lapses' = lapses + 1
      BY <3>2, TurnNumbers DEF CallsAreBilled
    <3> QED
      BY <1>1, <3>1, <3>2 DEF RecordUsage
  <2> QED
    BY <2>3, <2>4, <2>5, <2>6 DEF TurnIInv
<1>2. CASE Settle
  <2>0. step = "settle" /\ UNCHANGED <<shown, ran, unbilled, lapses>>
    BY <1>2 DEF Settle, At
  <2>1. CASE result # "failed" /\ step' = "acked" /\ UNCHANGED <<result, excuses, faults>> /\ Same
    <3>1. UNCHANGED <<letter, metered, row, calls, fixes, draft, chunks, media, showing>>
      BY <2>1 DEF Same, loopVars, outVars
    <3>2. TurnTypeOK'
      BY <1>a, <2>0, <2>1, <3>1 DEF TurnTypeOK
    <3>3. Excused' /\ Evident'
      BY <1>a, <2>0, <2>1, <3>1 DEF Excused, Evident
    <3>4. Counted' /\ FaultsOK' /\ CallsAreBilled'
      BY <1>a, <2>0, <2>1, <3>1 DEF Counted, FaultsOK, CallsAreBilled
    <3> QED
      BY <3>2, <3>3, <3>4 DEF TurnIInv
  <2>2. CASE result = "failed" /\ Requeue /\ UNCHANGED <<excuses, faults>>
    <3>1. /\ faults' \in 0..MaxFaults /\ faults <= faults' /\ excuses <= excuses'
          /\ excuses' \in 0..faults' /\ lapses' \in 0..faults' /\ lapses <= lapses'
          /\ unbilled' \in Nat
      BY <1>c, <2>0, <2>2, TurnNumbers
    <3> QED
      BY <2>0, <2>2, <3>1, RequeueStep
  <2>3. CASE result # "failed" /\ Fault /\ Requeue /\ excuses' = excuses + 1
    <3>1. /\ faults' \in 0..MaxFaults /\ faults <= faults' /\ excuses <= excuses'
          /\ excuses' \in 0..faults' /\ lapses' \in 0..faults' /\ lapses <= lapses'
          /\ unbilled' \in Nat /\ excuses' > excuses
      BY <1>b, <1>c, <2>0, <2>3, TurnNumbers
    <3> QED
      BY <2>0, <2>3, <3>1, RequeueStep
  <2> QED
    BY <1>2, <2>1, <2>2, <2>3 DEF Settle
<1>3. CASE DieWithIt
  <2>1. /\ Requeue /\ UNCHANGED <<shown, ran>> /\ Fault
        /\ excuses' = excuses + 1 /\ lapses' = lapses + 1 /\ unbilled' = unbilled + metered
    BY <1>3 DEF DieWithIt
  <2>2. /\ faults' \in 0..MaxFaults /\ faults <= faults' /\ excuses <= excuses'
        /\ excuses' \in 0..faults' /\ lapses' \in 0..faults' /\ lapses <= lapses'
        /\ unbilled' \in Nat /\ excuses' > excuses /\ lapses' > 0
    BY <1>b, <1>c, <2>1, TurnNumbers
  <2> QED
    BY <2>1, <2>2, RequeueStep
<1> QED
  BY <1>1, <1>2, <1>3 DEF Finally

LEMMA TurnStep ==
  ASSUME TurnIInv, [TurnNext]_<<turnVars, faults>>
  PROVE  TurnIInv'
<1>1. CASE UNCHANGED <<turnVars, faults>>
  <2>1. UNCHANGED <<letter, step, result, metered, row, calls, fixes, draft, chunks, media, showing,
                    shown, ran, excuses, unbilled, lapses, faults>>
    BY <1>1 DEF turnVars, loopVars, outVars, tallies
  <2> QED
    BY <2>1 DEF TurnIInv, FaultsOK, TurnTypeOK, Excused, Evident, Counted, CallsAreBilled
<1>2. CASE TurnNext
  BY <1>2, GatesStep, AgentsStep, BroadcastStep, FinallyStep DEF TurnNext
<1> QED
  BY <1>1, <1>2

(* TurnIInv is an invariant of an envelope's way through a worker, through  *)
(* any number of deliveries.                                               *)
THEOREM TurnInductive == TurnSpec => []TurnIInv
<1>1. TurnInit /\ NoFault => TurnIInv
  BY TurnInitial
<1>2. TurnIInv /\ [TurnNext]_<<turnVars, faults>> => TurnIInv'
  BY TurnStep
<1> QED
  BY <1>1, <1>2, PTL DEF TurnSpec

(* TurnTyped: the loop stays within its bounds of calls and repairs, and a  *)
(* turn has a result exactly when it is over (loop.ts:78-87).              *)
THEOREM TurnTyped == TurnSpec => []TurnTypeOK
<1>1. TurnIInv => TurnTypeOK
  BY DEF TurnIInv
<1> QED
  BY <1>1, TurnInductive, PTL

(* AnswersAreNotRepeated: a second answer or a second run of a command has  *)
(* a delivery that died, lost its ack or failed before it, other than by a *)
(* later message of its reply (handler.ts:297-299).                        *)
THEOREM AnswersAreNotRepeated == TurnSpec => []ToldAgain
<1>1. TurnIInv => ToldAgain
  BY DEF TurnIInv, Excused, ToldAgain
<1> QED
  BY <1>1, TurnInductive, PTL

(* NothingFailsInSilence: an envelope that is acked with nothing shown had  *)
(* a turn that meant to be silent, or a model without a text (zalo.ts:5-6). *)
THEOREM NothingFailsInSilence == TurnSpec => []SilenceIsMeant
<1>1. TurnIInv => SilenceIsMeant
  <2>1. SUFFICES ASSUME TurnIInv, step = "acked", shown = 0
                 PROVE  result \in {"quiet", "empty"}
    BY DEF SilenceIsMeant
  <2>2. result \in Result \cup {"none"} /\ result # "none" /\ result # "failed" /\ result # "reply"
    BY <2>1 DEF TurnIInv, TurnTypeOK, Evident
  <2> QED
    BY <2>2 DEF Result
<1> QED
  BY <1>1, TurnInductive, PTL

(* CallsAreEntered: a model call of a turn that failed or succeeded is in   *)
(* the ledger, unless an entry failed, a process died, or the message has  *)
(* a row of an earlier delivery (handler.ts:55-57).                        *)
THEOREM CallsAreEntered == TurnSpec => []CallsAreBilled
<1>1. TurnIInv => CallsAreBilled
  BY DEF TurnIInv
<1> QED
  BY <1>1, TurnInductive, PTL

-----------------------------------------------------------------------------
(* Identity                                                                *)

\* What the history variable keeps: the days of what is so now.
Current ==
  /\ \A x \in {"member"} \cup Customer : last[x] <= now
  /\ member => last["member"] = now
  /\ owner \in Customer => last[owner] = now

\* What a resolution under way has read is of this step, and what it has taken
\* from the cache is of the last shift.
Resolving ==
  \A h \in Host :
    /\ resolve[h] = "owner" => last["member"] = now
    /\ resolve[h] = "set" => role[h] # "guest"
    /\ resolve[h] = "set" /\ role[h] \in Customer => last["member"] = now /\ last[role[h]] = now
    /\ resolve[h] = "done" /\ role[h] \in Customer
         => now < last["member"] + TTL /\ now < last[role[h]] + TTL

\* A dealer's key expires within a shift after he last was one.
Kept ==
  cache # <<>> =>
    /\ cache[2] \in Nat
    /\ cache[1] \in Customer => cache[2] <= last["member"] + TTL /\ cache[2] <= last[cache[1]] + TTL

Deleting == \E h \in Host : desk[h] = "delete"

\* Neither the cache nor a resolution takes him for a dealer.
NoDealer ==
  /\ cache # <<>> => cache[1] \notin Customer
  /\ \A h \in Host : resolve[h] # "owner" /\ (resolve[h] = "set" => role[h] \notin Customer)

Revoked == faults = 0 /\ ~raced /\ ~member /\ ~Deleting => NoDealer

IdentityIInv == FaultsOK /\ IdentityTypeOK /\ Current /\ Resolving /\ Kept /\ Revoked

LEMMA IdentityNumbers ==
  ASSUME IdentityIInv
  PROVE  /\ now \in Nat /\ TTL \in Nat /\ TTL > 0 /\ MaxNow \in Nat /\ MaxFaults \in Nat
         /\ faults \in Nat
         /\ \A x \in {"member"} \cup Customer : last[x] \in Nat /\ last[x] <= MaxNow
BY IdentityAssumption, PlatformAssumption DEF IdentityIInv, IdentityTypeOK, FaultsOK

LEMMA IdentityInitial ==
  ASSUME IdentityInit, NoFault
  PROVE  IdentityIInv
<1>1. FaultsOK
  BY PlatformAssumption DEF NoFault, FaultsOK
<1>2. 0 \in 0..MaxNow
  BY IdentityAssumption
<1>3. IdentityTypeOK
  BY <1>2 DEF IdentityInit, IdentityTypeOK, Role
<1>4. Current
  BY <1>2, IdentityAssumption DEF IdentityInit, Current
<1>5. Resolving /\ Kept /\ Revoked
  BY DEF IdentityInit, Resolving, Kept, Revoked, NoDealer
<1> QED
  BY <1>1, <1>3, <1>4, <1>5 DEF IdentityIInv

\* A resolution takes a step, and may put what it has found into the cache.
LEMMA ResolutionMove ==
  ASSUME IdentityIInv, NEW h \in Host,
         NEW w \in {"idle", "get", "staff", "member", "owner", "set", "done"},
         NEW r \in Role \cup {"none"},
         UNCHANGED <<now, directory, desk, last, raced>>, faults' = faults \/ Fault,
         resolve' = [resolve EXCEPT ![h] = w], role' = [role EXCEPT ![h] = r],
         r # "none" <=> w \in {"set", "done"},
         w = "owner" => member \/ resolve[h] = "owner",
         w = "set" => r # "guest",
         w = "set" /\ r \in Customer => resolve[h] = "owner" /\ r = owner,
         w = "done" /\ r \in Customer
           => now < last["member"] + TTL /\ now < last[r] + TTL,
         cache' = cache \/ (resolve[h] = "set" /\ cache' = <<role[h], now + TTL>>)
  PROVE  IdentityIInv'
<1>a. /\ FaultsOK /\ IdentityTypeOK /\ Current /\ Resolving /\ Kept /\ Revoked
      /\ UNCHANGED <<bound, member, owner>>
      /\ resolve \in [Host -> {"idle", "get", "staff", "member", "owner", "set", "done"}]
      /\ role \in [Host -> Role \cup {"none"}]
  BY DEF IdentityIInv, IdentityTypeOK, directory
<1>b. /\ resolve'[h] = w /\ role'[h] = r
      /\ \A g \in Host : g # h => resolve'[g] = resolve[g] /\ role'[g] = role[g]
  BY <1>a
<1>c. now \in Nat /\ TTL \in Nat /\ TTL > 0 /\ now + TTL > now /\ now + TTL \in Nat
  BY IdentityNumbers
<1>1. FaultsOK' /\ (faults' = 0 => faults = 0)
  BY <1>a, IdentityNumbers DEF FaultsOK, Fault
<1>2. cache' # <<>> => cache'[1] \in Role \ {"guest"} /\ cache'[2] > now'
  <2>1. CASE cache' = cache
    BY <1>a, <2>1 DEF IdentityTypeOK
  <2>2. CASE resolve[h] = "set" /\ cache' = <<role[h], now + TTL>>
    <3>1. cache'[1] = role[h] /\ cache'[2] = now + TTL
      BY <2>2
    <3>2. role[h] \in Role /\ role[h] # "guest"
      BY <1>a, <2>2 DEF IdentityTypeOK, Resolving
    <3> QED
      BY <1>c, <3>1, <3>2
  <2> QED
    BY <2>1, <2>2
<1>3. IdentityTypeOK'
  <2>1. resolve' \in [Host -> {"idle", "get", "staff", "member", "owner", "set", "done"}]
    BY <1>a
  <2>2. role' \in [Host -> Role \cup {"none"}]
    BY <1>a
  <2>3. \A g \in Host : role'[g] # "none" <=> resolve'[g] \in {"set", "done"}
    BY <1>a, <1>b DEF IdentityTypeOK
  <2> QED
    BY <1>a, <1>2, <2>1, <2>2, <2>3 DEF IdentityTypeOK
<1>4. Current'
  BY <1>a DEF Current
<1>5. Resolving'
  <2> SUFFICES ASSUME NEW g \in Host
               PROVE  /\ resolve'[g] = "owner" => last["member"] = now
                      /\ resolve'[g] = "set" => role'[g] # "guest"
                      /\ resolve'[g] = "set" /\ role'[g] \in Customer
                           => last["member"] = now /\ last[role'[g]] = now
                      /\ resolve'[g] = "done" /\ role'[g] \in Customer
                           => now < last["member"] + TTL /\ now < last[role'[g]] + TTL
    BY DEF Resolving
  <2>1. CASE g # h
    BY <1>a, <1>b, <2>1 DEF Resolving
  <2>2. CASE g = h
    BY <1>a, <1>b, <2>2 DEF Resolving, Current
  <2> QED
    BY <2>1, <2>2
<1>6. Kept'
  <2>1. CASE cache' = cache
    BY <1>a, <2>1 DEF Kept
  <2>2. CASE resolve[h] = "set" /\ cache' = <<role[h], now + TTL>>
    <3>1. cache'[1] = role[h] /\ cache'[2] = now + TTL
      BY <2>2
    <3>2. role[h] \in Customer => last["member"] = now /\ last[role[h]] = now
      BY <1>a, <2>2 DEF Resolving
    <3>3. now + TTL <= now + TTL
      BY <1>c
    <3> QED
      BY <1>c, <3>1, <3>2, <3>3 DEF Kept
  <2> QED
    BY <2>1, <2>2
<1>7. Revoked'
  <2> SUFFICES ASSUME faults' = 0, ~raced, ~member, ~Deleting
               PROVE  NoDealer'
    BY <1>a DEF Revoked, Deleting
  <2>1. NoDealer
    BY <1>a, <1>1 DEF Revoked
  <2>2. cache' # <<>> => cache'[1] \notin Customer
    BY <2>1 DEF NoDealer
  <2>3. \A g \in Host : resolve'[g] # "owner" /\ (resolve'[g] = "set" => role'[g] \notin Customer)
    BY <1>b, <2>1 DEF NoDealer
  <2> QED
    BY <2>2, <2>3 DEF NoDealer
<1> QED
  BY <1>1, <1>3, <1>4, <1>5, <1>6, <1>7 DEF IdentityIInv

LEMMA ResolveStep ==
  ASSUME IdentityIInv, NEW h \in Host, ResolveNext(h)
  PROVE  IdentityIInv'
<1>a. /\ FaultsOK /\ IdentityTypeOK /\ Current /\ Resolving /\ Kept
      /\ resolve \in [Host -> {"idle", "get", "staff", "member", "owner", "set", "done"}]
      /\ role \in [Host -> Role \cup {"none"}]
  BY DEF IdentityIInv, IdentityTypeOK
<1>b. /\ role[h] # "none" <=> resolve[h] \in {"set", "done"}
      /\ role[h] \in Role \cup {"none"}
      /\ role = [role EXCEPT ![h] = role[h]]
  BY <1>a DEF IdentityTypeOK
<1>c. now \in Nat /\ TTL \in Nat /\ TTL > 0 /\ now < now + TTL
  BY IdentityNumbers
<1>d. "none" \in Role \cup {"none"} /\ "guest" \in Role /\ "staff" \in Role /\ Customer \subseteq Role
  BY DEF Role
<1>e. "guest" \notin Customer /\ "staff" \notin Customer /\ "none" \notin Customer
      /\ "none" \notin Role
  BY IdentityAssumption DEF Role
\* A query fails, or the turn has its role.
<1>1. ASSUME EndResolve(h), faults' = faults \/ Fault, UNCHANGED <<now, directory, desk, last, raced>>,
             cache' = cache \/ (resolve[h] = "set" /\ cache' = <<role[h], now + TTL>>)
      PROVE  IdentityIInv'
  BY <1>1, <1>d, <1>e, ResolutionMove DEF EndResolve
<1>2. CASE AskCache(h)
  <2>1. CASE cache # <<>> /\ Found(h, cache[1], "done")
    <3>1. cache[1] \in Role \cup {"none"} /\ cache[1] # "none"
      BY <1>a, <1>e, <2>1 DEF IdentityTypeOK
    <3>2. cache[1] \in Customer => now < last["member"] + TTL /\ now < last[cache[1]] + TTL
      <4>1. /\ cache[2] \in Nat /\ cache[2] > now
            /\ cache[1] \in Customer
                 => cache[2] <= last["member"] + TTL /\ cache[2] <= last[cache[1]] + TTL
        BY <1>a, <2>1 DEF Kept, IdentityTypeOK
      <4>2. last["member"] \in Nat /\ (cache[1] \in Customer => last[cache[1]] \in Nat)
        BY IdentityNumbers
      <4> QED
        BY <1>c, <4>1, <4>2
    <3> QED
      BY <1>2, <2>1, <3>1, <3>2, ResolutionMove DEF AskCache, Found
  <2>2. CASE ResolveAt(h, "staff")
    BY <1>2, <1>b, <2>2, ResolutionMove DEF AskCache, ResolveAt
  <2> QED
    BY <1>2, <2>1, <2>2 DEF AskCache
<1>3. CASE AskStaff(h)
  <2>1. CASE Found(h, "staff", "set") /\ UNCHANGED faults
    BY <1>3, <1>d, <1>e, <2>1, ResolutionMove DEF AskStaff, Found
  <2>2. CASE ResolveAt(h, "member") /\ UNCHANGED faults
    BY <1>3, <1>b, <2>2, ResolutionMove DEF AskStaff, ResolveAt
  <2> QED
    BY <1>1, <1>3, <2>1, <2>2 DEF AskStaff
<1>4. CASE AskMember(h)
  <2>1. CASE member /\ ResolveAt(h, "owner") /\ UNCHANGED faults
    BY <1>4, <1>b, <2>1, ResolutionMove DEF AskMember, ResolveAt
  <2>2. CASE Found(h, "guest", "done") /\ UNCHANGED faults
    BY <1>4, <1>d, <1>e, <2>2, ResolutionMove DEF AskMember, Found
  <2> QED
    BY <1>1, <1>4, <2>1, <2>2 DEF AskMember
<1>5. CASE AskOwner(h)
  <2>1. CASE owner # "none" /\ Found(h, owner, "set") /\ UNCHANGED faults
    <3>1. owner \in Customer
      BY <1>a, <2>1 DEF IdentityTypeOK
    <3> QED
      BY <1>5, <1>d, <1>e, <2>1, <3>1, ResolutionMove DEF AskOwner, Found
  <2>2. CASE Found(h, "guest", "done") /\ UNCHANGED faults
    BY <1>5, <1>d, <1>e, <2>2, ResolutionMove DEF AskOwner, Found
  <2> QED
    BY <1>1, <1>5, <2>1, <2>2 DEF AskOwner
<1>6. CASE KeepRole(h)
  <2>1. CASE cache' = <<role[h], now + TTL>> /\ ResolveAt(h, "done") /\ UNCHANGED faults
    <3>1. resolve[h] = "set"
      BY <1>6 DEF KeepRole
    <3>2. role[h] \in Customer => now < last["member"] + TTL /\ now < last[role[h]] + TTL
      BY <1>a, <1>c, <3>1 DEF Resolving
    <3> QED
      BY <1>6, <1>b, <2>1, <3>1, <3>2, ResolutionMove DEF KeepRole, ResolveAt
  <2>2. CASE Fault /\ cache' \in {cache, <<role[h], now + TTL>>} /\ EndResolve(h)
    BY <1>1, <1>6, <2>2 DEF KeepRole
  <2> QED
    BY <1>6, <2>1, <2>2 DEF KeepRole
<1>7. CASE UseRole(h)
  BY <1>1, <1>7 DEF UseRole
<1> QED
  BY <1>2, <1>3, <1>4, <1>5, <1>6, <1>7 DEF ResolveNext

\* Time passes only between resolutions.
LEMMA PassStep ==
  ASSUME IdentityIInv, Pass
  PROVE  IdentityIInv'
<1>a. /\ FaultsOK /\ IdentityTypeOK /\ Current /\ Resolving /\ Kept /\ Revoked
      /\ \A h \in Host : resolve[h] = "idle"
      /\ UNCHANGED <<bound, member, owner, resolve, role, desk, raced, faults>>
      /\ last \in [{"member"} \cup Customer -> 0..MaxNow]
  BY DEF IdentityIInv, IdentityTypeOK, Pass, directory, resolutions
<1>b. /\ now' = now + 1 /\ now' \in Nat /\ now' \in 0..MaxNow /\ now < now' /\ 0 \in 0..MaxNow
      /\ now \in Nat /\ TTL \in Nat
  BY IdentityNumbers DEF Pass
<1>c. \A x \in {"member"} \cup Customer :
        /\ last'[x] = IF (x = "member" /\ member) \/ x = owner THEN now + 1 ELSE last[x]
        /\ last[x] \in Nat /\ last[x] <= now
  BY <1>a, IdentityNumbers DEF Pass, Current
<1>d. \A x \in {"member"} \cup Customer : last'[x] \in Nat /\ last'[x] <= now' /\ last[x] <= last'[x]
  BY <1>b, <1>c
<1>e. owner \in Customer \cup {"none"} /\ "member" \notin Customer
  BY <1>a, IdentityAssumption DEF IdentityTypeOK
<1>f. \/ cache' = <<>>
      \/ cache' = cache /\ (cache = <<>> \/ ~(cache[2] <= now + 1))
  BY DEF Pass
<1>1. cache' # <<>> => cache' = cache /\ cache[2] \in Nat /\ cache[2] > now'
  <2> SUFFICES ASSUME cache' # <<>>
               PROVE  cache' = cache /\ cache[2] \in Nat /\ cache[2] > now'
    OBVIOUS
  <2>1. cache' = cache /\ cache # <<>> /\ ~(cache[2] <= now + 1)
    BY <1>f
  <2>2. cache[2] \in Nat
    BY <1>a, <2>1 DEF Kept
  <2> QED
    BY <1>b, <2>1, <2>2
<1>2. IdentityTypeOK'
  <2>1. last' \in [{"member"} \cup Customer -> 0..MaxNow]
    <3>1. last' = [x \in {"member"} \cup Customer |->
                     IF (x = "member" /\ member) \/ x = owner THEN now + 1 ELSE last[x]]
      BY <1>a DEF Pass
    <3> QED
      BY <1>a, <1>b, <3>1
  <2>2. cache' # <<>> => cache'[1] \in Role \ {"guest"} /\ cache'[2] > now'
    BY <1>a, <1>1 DEF IdentityTypeOK
  <2> QED
    BY <1>a, <1>b, <2>1, <2>2 DEF IdentityTypeOK
<1>3. Current'
  <2>1. member => last'["member"] = now'
    BY <1>b, <1>c
  <2>2. owner \in Customer => last'[owner] = now'
    BY <1>b, <1>c
  <2> QED
    BY <1>a, <1>d, <2>1, <2>2 DEF Current
<1>4. Resolving'
  BY <1>a DEF Resolving
<1>5. Kept'
  <2> SUFFICES ASSUME cache' # <<>>
               PROVE  /\ cache[2] \in Nat
                      /\ cache[1] \in Customer
                           => cache[2] <= last'["member"] + TTL /\ cache[2] <= last'[cache[1]] + TTL
    BY <1>1 DEF Kept
  <2>1. /\ cache # <<>> /\ cache[2] \in Nat
        /\ cache[1] \in Customer
             => cache[2] <= last["member"] + TTL /\ cache[2] <= last[cache[1]] + TTL
    BY <1>a, <1>1 DEF Kept
  <2>2. /\ last'["member"] \in Nat /\ last["member"] <= last'["member"] /\ last["member"] \in Nat
        /\ cache[1] \in Customer
             => /\ last'[cache[1]] \in Nat /\ last[cache[1]] <= last'[cache[1]]
                /\ last[cache[1]] \in Nat
    BY <1>c, <1>d
  <2> QED
    BY <1>b, <2>1, <2>2
<1>6. Revoked'
  <2>1. NoDealer => NoDealer'
    BY <1>a, <1>1 DEF NoDealer
  <2> QED
    BY <1>a, <2>1 DEF Revoked, Deleting
<1>7. FaultsOK'
  BY <1>a DEF FaultsOK
<1> QED
  BY <1>2, <1>3, <1>4, <1>5, <1>6, <1>7 DEF IdentityIInv

\* Somebody changes the directory, or a key is deleted.
LEMMA DirectoryMove ==
  ASSUME IdentityIInv, UNCHANGED <<now, resolve, role>>, faults' = faults \/ Fault,
         bound' \in BOOLEAN, member' \in BOOLEAN, owner' \in Customer \cup {"none"},
         desk' \in [Host -> {"idle", "assign", "delete"}], raced' \in BOOLEAN,
         last' \in [{"member"} \cup Customer -> 0..MaxNow],
         \A x \in {"member"} \cup Customer : last'[x] \in {last[x], now},
         cache' = cache \/ cache' = <<>>,
         member' => last'["member"] = now,
         owner' \in Customer => last'[owner'] = now,
         Revoked'
  PROVE  IdentityIInv'
<1>a. FaultsOK /\ IdentityTypeOK /\ Current /\ Resolving /\ Kept
  BY DEF IdentityIInv
<1>b. /\ now \in Nat /\ TTL \in Nat
      /\ \A x \in {"member"} \cup Customer :
           last[x] \in Nat /\ last'[x] \in Nat /\ last[x] <= last'[x] /\ last'[x] <= now
  <2>1. now \in Nat /\ TTL \in Nat /\ \A x \in {"member"} \cup Customer : last[x] \in Nat /\ last[x] <= now
    BY <1>a, IdentityNumbers DEF Current
  <2> QED
    BY <2>1
<1>1. FaultsOK'
  BY <1>a, IdentityNumbers DEF FaultsOK, Fault
<1>2. IdentityTypeOK'
  BY <1>a DEF IdentityTypeOK
<1>3. Current'
  BY <1>b DEF Current
<1>4. Resolving'
  <2> SUFFICES ASSUME NEW h \in Host
               PROVE  /\ resolve[h] = "owner" => last'["member"] = now
                      /\ resolve[h] = "set" => role[h] # "guest"
                      /\ resolve[h] = "set" /\ role[h] \in Customer
                           => last'["member"] = now /\ last'[role[h]] = now
                      /\ resolve[h] = "done" /\ role[h] \in Customer
                           => now < last'["member"] + TTL /\ now < last'[role[h]] + TTL
    BY DEF Resolving
  <2>1. resolve[h] = "owner" => last'["member"] = now
    BY <1>a DEF Resolving
  <2>2. resolve[h] = "set" => role[h] # "guest"
    BY <1>a DEF Resolving
  <2>3. resolve[h] = "set" /\ role[h] \in Customer => last'["member"] = now /\ last'[role[h]] = now
    BY <1>a DEF Resolving
  <2>4. resolve[h] = "done" /\ role[h] \in Customer
          => now < last'["member"] + TTL /\ now < last'[role[h]] + TTL
    <3> SUFFICES ASSUME resolve[h] = "done", role[h] \in Customer
                 PROVE  now < last'["member"] + TTL /\ now < last'[role[h]] + TTL
      OBVIOUS
    <3>1. now < last["member"] + TTL /\ now < last[role[h]] + TTL
      BY <1>a DEF Resolving
    <3>2. ASSUME NEW x \in {"member"} \cup Customer, now < last[x] + TTL
          PROVE  now < last'[x] + TTL
      BY <1>b, <3>2
    <3> QED
      BY <3>1, <3>2
  <2> QED
    BY <2>1, <2>2, <2>3, <2>4
<1>5. Kept'
  <2> SUFFICES ASSUME cache' # <<>>
               PROVE  /\ cache[2] \in Nat
                      /\ cache[1] \in Customer
                           => cache[2] <= last'["member"] + TTL /\ cache[2] <= last'[cache[1]] + TTL
    BY DEF Kept
  <2>0. cache # <<>>
    OBVIOUS
  <2> QED
    <3>1. /\ cache[2] \in Nat
          /\ cache[1] \in Customer
               => cache[2] <= last["member"] + TTL /\ cache[2] <= last[cache[1]] + TTL
      BY <1>a DEF Kept
    <3>2. ASSUME NEW x \in {"member"} \cup Customer, cache[2] <= last[x] + TTL
          PROVE  cache[2] <= last'[x] + TTL
      BY <1>b, <3>1, <3>2
    <3> QED
      BY <3>1, <3>2
<1> QED
  BY <1>1, <1>2, <1>3, <1>4, <1>5 DEF IdentityIInv

LEMMA DirectoryStep ==
  ASSUME IdentityIInv, BindUser \/ LoseRole \/ \E h \in Host : DeskNext(h)
  PROVE  IdentityIInv'
<1>a. /\ FaultsOK /\ IdentityTypeOK /\ Current /\ Revoked
      /\ bound \in BOOLEAN /\ member \in BOOLEAN /\ owner \in Customer \cup {"none"}
      /\ raced \in BOOLEAN /\ desk \in [Host -> {"idle", "assign", "delete"}]
      /\ last \in [{"member"} \cup Customer -> 0..MaxNow]
      /\ member => last["member"] = now
      /\ owner \in Customer => last[owner] = now
  BY DEF IdentityIInv, IdentityTypeOK, Current
<1>b. now \in 0..MaxNow
  BY <1>a DEF IdentityTypeOK
<1>c. Fault => faults' # 0
  BY IdentityNumbers DEF Fault
<1>d. faults' # 0 => Revoked'
  BY DEF Revoked
<1>e. /\ member' = member /\ raced' = raced /\ faults' = faults /\ UNCHANGED <<cache, resolve, role>>
      /\ (Deleting => Deleting')
      => Revoked'
  BY <1>a DEF Revoked, NoDealer
<1>f. \A h \in Host, where \in {"idle", "assign", "delete"} :
        DeskAt(h, where) => /\ desk' \in [Host -> {"idle", "assign", "delete"}]
                            /\ desk'[h] = where
                            /\ \A g \in Host : g # h => desk'[g] = desk[g]
  BY <1>a DEF DeskAt
<1>1. CASE BindUser
  <2>1. Revoked'
    BY <1>1, <1>e DEF BindUser, Deleting, resolutions
  <2> QED
    BY <1>1, <1>a, <2>1, DirectoryMove DEF BindUser, resolutions
<1>2. CASE LoseRole
  BY <1>2, <1>a, <1>c, <1>d, DirectoryMove DEF LoseRole, directory, resolutions
<1>3. ASSUME NEW h \in Host, ConnectDealer(h)
      PROVE  IdentityIInv'
  <2>1. PICK c \in Customer :
          /\ owner' = c
          /\ last' = [x \in DOMAIN last |-> IF x \in {c, owner} THEN now ELSE last[x]]
    BY <1>3 DEF ConnectDealer
  <2>2. /\ last' \in [{"member"} \cup Customer -> 0..MaxNow]
        /\ \A x \in {"member"} \cup Customer : last'[x] \in {last[x], now}
        /\ last'[c] = now
    BY <1>a, <1>b, <2>1
  <2>3. UNCHANGED <<now, bound, member, cache, resolve, role, raced, faults>> /\ desk[h] = "idle"
    BY <1>3 DEF ConnectDealer, resolutions
  <2>4. member => last'["member"] = now
    BY <1>a, <2>2
  <2>5. PICK where \in {"idle", "assign"} : DeskAt(h, where)
    BY <1>3 DEF ConnectDealer
  <2>6. /\ desk' \in [Host -> {"idle", "assign", "delete"}]
        /\ \A g \in Host : g # h => desk'[g] = desk[g]
    BY <1>f, <2>5
  <2>7. Revoked'
    BY <1>e, <2>3, <2>6 DEF Deleting
  <2> QED
    BY <1>a, <2>1, <2>2, <2>3, <2>4, <2>6, <2>7, DirectoryMove
<1>4. ASSUME NEW h \in Host, AssignDealer(h)
      PROVE  IdentityIInv'
  <2>1. /\ UNCHANGED <<now, bound, owner, cache, resolve, role, raced>> /\ desk[h] = "assign"
        /\ faults' = faults \/ Fault
        /\ member' = TRUE \/ (Fault /\ member' = member)
        /\ DeskAt(h, "delete") \/ DeskAt(h, "idle")
    BY <1>4 DEF AssignDealer, resolutions
  <2>2. last' = IF member' THEN [last EXCEPT !["member"] = now] ELSE last
    BY <1>4 DEF AssignDealer
  <2>3. member' \in BOOLEAN
    BY <1>a, <2>1
  <2>4. /\ last' \in [{"member"} \cup Customer -> 0..MaxNow]
        /\ \A x \in {"member"} \cup Customer : last'[x] \in {last[x], now}
        /\ member' => last'["member"] = now
        /\ owner \in Customer => last'[owner] = now
    BY <1>a, <1>b, <2>2
  <2>5. desk' \in [Host -> {"idle", "assign", "delete"}]
    BY <1>f, <2>1
  <2>6. Revoked'
    <3>1. CASE member' = TRUE
      BY <3>1 DEF Revoked
    <3>2. CASE Fault
      BY <1>c, <1>d, <3>2
    <3> QED
      BY <2>1, <3>1, <3>2
  <2> QED
    BY <1>a, <2>1, <2>3, <2>4, <2>5, <2>6, DirectoryMove
<1>5. ASSUME NEW h \in Host, RevokeDealer(h)
      PROVE  IdentityIInv'
  <2>1. /\ UNCHANGED <<now, bound, owner, cache, resolve, role, last, raced>> /\ desk[h] = "idle"
        /\ faults' = faults \/ Fault
        /\ member' = FALSE \/ member' = member
        /\ DeskAt(h, "delete") \/ (Fault /\ desk' = desk)
    BY <1>5 DEF RevokeDealer, resolutions
  <2>2. desk' \in [Host -> {"idle", "assign", "delete"}] /\ (Fault \/ Deleting')
    BY <1>a, <1>f, <2>1 DEF Deleting
  <2>3. Revoked'
    <3>1. CASE Deleting'
      BY <3>1 DEF Revoked
    <3>2. CASE Fault
      BY <1>c, <1>d, <3>2
    <3> QED
      BY <2>2, <3>1, <3>2
  <2>4. member' \in BOOLEAN /\ (member' => last["member"] = now)
    <3>1. CASE member' = FALSE
      BY <3>1
    <3>2. CASE member' = member
      BY <1>a, <3>2
    <3> QED
      BY <2>1, <3>1, <3>2
  <2> QED
    BY <1>a, <2>1, <2>2, <2>3, <2>4, DirectoryMove
<1>6. ASSUME NEW h \in Host, DeleteRole(h)
      PROVE  IdentityIInv'
  <2>1. /\ UNCHANGED <<now, bound, member, owner, resolve, role, last>>
        /\ (cache' = <<>> /\ faults' = faults) \/ (Fault /\ cache' \in {cache, <<>>})
        /\ DeskAt(h, "idle")
        /\ raced' = (raced \/ \E g \in Host : resolve[g] \in {"staff", "member", "owner", "set"})
    BY <1>6 DEF DeleteRole, directory, resolutions
  <2>2. desk' \in [Host -> {"idle", "assign", "delete"}] /\ raced' \in BOOLEAN
    BY <1>a, <1>f, <2>1
  <2>3. Revoked'
    <3>1. CASE Fault
      BY <1>c, <1>d, <3>1
    <3>2. CASE cache' = <<>> /\ ~raced'
      BY <2>1, <3>2 DEF Revoked, NoDealer
    <3>3. CASE raced'
      BY <3>3 DEF Revoked
    <3> QED
      BY <2>1, <3>1, <3>2, <3>3
  <2> QED
    BY <1>a, <2>1, <2>2, <2>3, DirectoryMove
<1>7. ASSUME NEW h \in Host, DieInCommand(h)
      PROVE  IdentityIInv'
  <2>1. /\ UNCHANGED <<now, bound, member, owner, cache, resolve, role, last, raced>>
        /\ Fault /\ DeskAt(h, "idle")
    BY <1>7 DEF DieInCommand, directory, resolutions
  <2>2. desk' \in [Host -> {"idle", "assign", "delete"}] /\ Revoked'
    BY <1>c, <1>d, <1>f, <2>1
  <2> QED
    BY <1>a, <2>1, <2>2, DirectoryMove
<1> QED
  BY <1>1, <1>2, <1>3, <1>4, <1>5, <1>6, <1>7 DEF DeskNext

LEMMA IdentityStep ==
  ASSUME IdentityIInv, [IdentityNext]_<<identityVars, faults>>
  PROVE  IdentityIInv'
<1>1. CASE UNCHANGED <<identityVars, faults>>
  <2>1. UNCHANGED <<now, bound, member, owner, cache, resolve, role, desk, last, raced, faults>>
    BY <1>1 DEF identityVars, directory, resolutions
  <2> QED
    BY <2>1 DEF IdentityIInv, FaultsOK, IdentityTypeOK, Current, Resolving, Kept, Revoked, NoDealer,
                Deleting
<1>2. CASE IdentityNext
  BY <1>2, PassStep, ResolveStep, DirectoryStep DEF IdentityNext
<1> QED
  BY <1>1, <1>2

(* IdentityIInv is an invariant of any number of hosts' resolutions and    *)
(* commands about one person.                                              *)
THEOREM IdentityInductive == IdentitySpec => []IdentityIInv
<1>1. IdentityInit /\ NoFault => IdentityIInv
  BY IdentityInitial
<1>2. IdentityIInv /\ [IdentityNext]_<<identityVars, faults>> => IdentityIInv'
  BY IdentityStep
<1> QED
  BY <1>1, <1>2, PTL DEF IdentitySpec

(* IdentityTyped: guests are never cached, and a key is gone when its time  *)
(* is over (cached-resolver.ts).                                           *)
THEOREM IdentityTyped == IdentitySpec => []IdentityTypeOK
<1>1. IdentityIInv => IdentityTypeOK
  BY DEF IdentityIInv
<1> QED
  BY <1>1, IdentityInductive, PTL

(* RolesAreFresh: whoever is served as a dealer of a customer was one       *)
(* within the last TTL, whichever deletion failed or came too early; and a *)
(* revoked dealer is out at once when none did (cached-resolver.ts:7-9).   *)
THEOREM RolesAreFresh == IdentitySpec => []RoleIsFresh
<1>1. IdentityIInv => RoleIsFresh
  <2> SUFFICES ASSUME IdentityIInv
               PROVE  RoleIsFresh
    OBVIOUS
  <2>1. \A h \in Host :
          resolve[h] = "done" /\ role[h] \in Customer
            => now < last["member"] + TTL /\ now < last[role[h]] + TTL
    BY DEF IdentityIInv, Resolving
  <2>2. ASSUME faults = 0, ~raced, ~member, \A h \in Host : desk[h] # "delete"
        PROVE  cache = <<>> \/ cache[1] = "staff"
    <3>1. NoDealer /\ (cache # <<>> => cache[1] \in Role \ {"guest"})
      BY <2>2 DEF IdentityIInv, Revoked, Deleting, IdentityTypeOK
    <3> QED
      BY <3>1 DEF NoDealer, Role
  <2> QED
    BY <2>1, <2>2 DEF RoleIsFresh
<1> QED
  BY <1>1, IdentityInductive, PTL

-----------------------------------------------------------------------------
(* Desk                                                                    *)

\* What a call has decided by holds, as long as nothing moved under it.
PreparedFor(c) ==
  /\ at[c] = "write" =>
       /\ tool[c] \in Writer
       /\ tool[c] = "count" => sheet[c] \in {"true", "shifted"}
       /\ tool[c] = "upgrade" /\ ~moved[c] => target[c] > tier /\ target[c] # MaxTier
       /\ tool[c] = "paid" /\ ~moved[c] => order # "awaiting"
       /\ tool[c] = "register" /\ ~moved[c] => ~Misbooked(booking[c])
  /\ at[c] \in {"read", "check"} /\ tool[c] = "register" =>
       /\ booking[c].day = booking[c].asked
       /\ ~moved[c] => (booking[c].today <=> booking[c].asked = DayOf(clock))

Prepared == \A c \in Call : PreparedFor(c)

Wrongs == \A c \in Call : wrong[c] => at[c] = "over"

DeskIInv == DeskTypeOK /\ Prepared /\ Wrongs /\ WritesAreTold /\ WritesAreSound

LEMMA Calendar ==
  ASSUME clock \in Times
  PROVE  /\ Days \in Nat /\ DayOf(clock) \in Nat /\ DayOf(clock) < Days
         /\ SpanOf(clock) \in 0..4
BY DeskAssumption DEF Times, DayOf, SpanOf

\* A registration that is due today gets a slot that is open, or the next
\* working day, and is said to be on time when it is.
LEMMA BookedOpen ==
  ASSUME clock \in Times, NEW b \in Booking, b.day = b.asked
  PROVE  LET n == Rescheduled(b) m == [n EXCEPT !.onTime = IsOnTime(n)]
         IN  m \in Booking /\ ((b.today <=> b.asked = DayOf(clock)) => ~Misbooked(m))
<1> DEFINE n == Rescheduled(b)
<1> DEFINE m == [n EXCEPT !.onTime = IsOnTime(n)]
<1>a. /\ Days \in Nat /\ DayOf(clock) \in Nat /\ SpanOf(clock) \in 0..4 /\ DayOf(clock) < Days
  BY Calendar
<1>b. /\ b.asked \in 0..(Days - 1) /\ b.day \in 0..(Days + 1) /\ b.slot \in {1, 2}
      /\ b.today \in BOOLEAN /\ b.onTime \in BOOLEAN
  BY DEF Booking
<1>c. LateFrom(1) = 1 /\ LateFrom(2) = 3
  BY DEF LateFrom
<1>d. /\ NextWorkingDay(b.day) \in 0..(Days + 1)
      /\ b.day < NextWorkingDay(b.day)
      /\ NextWorkingDay(b.day) \notin Sundays
  BY <1>a, <1>b, DeskAssumption DEF NextWorkingDay
<1>1. \/ n = b /\ (b.day # DayOf(clock) \/ b.day \in Sundays \/ SpanOf(clock) < LateFrom(b.slot))
      \/ /\ n = [b EXCEPT !.slot = 2] /\ b.day = DayOf(clock) /\ b.day \notin Sundays
         /\ SpanOf(clock) < LateFrom(2)
      \/ n = [b EXCEPT !.day = NextWorkingDay(@), !.slot = 1] /\ b.day = DayOf(clock)
  BY DEF Rescheduled
<1>2. n \in Booking
  BY <1>1, <1>b, <1>d DEF Booking
<1>3. /\ n.asked = b.asked /\ n.today = b.today
      /\ \/ /\ n.day = b.day /\ n.slot = b.slot
            /\ b.day # DayOf(clock) \/ b.day \in Sundays \/ SpanOf(clock) < LateFrom(b.slot)
         \/ /\ n.day = b.day /\ n.slot = 2 /\ b.day = DayOf(clock) /\ b.day \notin Sundays
            /\ SpanOf(clock) < LateFrom(2)
         \/ /\ n.day = NextWorkingDay(b.day) /\ n.slot = 1 /\ b.day = DayOf(clock)
  BY <1>1, <1>b DEF Booking
<1> HIDE DEF n
<1>4. IsOnTime(n) \in BOOLEAN
  BY DEF IsOnTime
<1>5. /\ m \in Booking /\ m.asked = n.asked /\ m.today = n.today /\ m.day = n.day /\ m.slot = n.slot
      /\ (m.onTime <=> IsOnTime(n))
  BY <1>2, <1>4 DEF Booking
<1> HIDE DEF m
<1>6. IsOnTime(m) <=> IsOnTime(n)
  BY <1>5 DEF IsOnTime
<1>7. ASSUME b.today <=> b.asked = DayOf(clock), m.today, m.asked \notin Sundays
      PROVE  /\ m.day \notin Sundays
             /\ ~(m.day < DayOf(clock) \/ (m.day = DayOf(clock) /\ SpanOf(clock) >= LateFrom(m.slot)))
  <2>1. b.day = DayOf(clock) /\ b.day \notin Sundays
    BY <1>3, <1>5, <1>7
  <2>2. CASE n.day = b.day /\ n.slot = b.slot /\ SpanOf(clock) < LateFrom(b.slot)
    <3>1. LateFrom(b.slot) \in Nat
      BY <1>b, <1>c
    <3> QED
      BY <1>a, <1>5, <2>1, <2>2, <3>1
  <2>3. CASE n.day = b.day /\ n.slot = 2 /\ SpanOf(clock) < LateFrom(2)
    BY <1>a, <1>c, <1>5, <2>1, <2>3
  <2>4. CASE n.day = NextWorkingDay(b.day)
    BY <1>a, <1>b, <1>d, <1>5, <2>1, <2>4
  <2> QED
    BY <1>3, <2>1, <2>2, <2>3, <2>4
<1>8. (b.today <=> b.asked = DayOf(clock)) => ~Misbooked(m)
  BY <1>5, <1>6, <1>7 DEF Misbooked
<1> QED
  BY <1>5, <1>8 DEF m, n

LEMMA PiecesSplit ==
  ASSUME NEW f, \A i \in Row : f[i] \in Nat, NEW coded \in SUBSET Row
  PROVE  /\ Pieces(f, coded) \in Nat /\ Pieces(f, Row \ coded) \in Nat
         /\ Pieces(f, Row) = Pieces(f, coded) + Pieces(f, Row \ coded)
<1>1. /\ 1 \in Row /\ 2 \in Row /\ 3 \in Row
      /\ f[1] \in Nat /\ f[2] \in Nat /\ f[3] \in Nat
  BY DEF Row
<1>2. \A i \in Row : i \in Row \ coded <=> i \notin coded
  OBVIOUS
<1>3. Pieces(f, coded) = (IF 1 \in coded THEN f[1] ELSE 0) + (IF 2 \in coded THEN f[2] ELSE 0)
                           + (IF 3 \in coded THEN f[3] ELSE 0)
  BY DEF Pieces
<1>4. Pieces(f, Row \ coded) = (IF 1 \in coded THEN 0 ELSE f[1]) + (IF 2 \in coded THEN 0 ELSE f[2])
                                 + (IF 3 \in coded THEN 0 ELSE f[3])
  BY <1>1, <1>2 DEF Pieces
<1>5. Pieces(f, Row) = f[1] + f[2] + f[3]
  BY <1>1 DEF Pieces
<1> QED
  BY <1>1, <1>3, <1>4, <1>5

\* Two sheets that differ in one row.
LEMMA PiecesDiffer ==
  ASSUME NEW f, \A i \in Row : f[i] \in Nat, NEW g, \A i \in Row : g[i] \in Nat,
         NEW j \in Row, \A i \in Row : i # j => f[i] = g[i], NEW rows \in SUBSET Row
  PROVE  /\ j \notin rows => Pieces(f, rows) = Pieces(g, rows)
         /\ j \in rows /\ f[j] # g[j] => Pieces(f, rows) # Pieces(g, rows)
<1>1. /\ 1 \in Row /\ 2 \in Row /\ 3 \in Row
      /\ f[1] \in Nat /\ f[2] \in Nat /\ f[3] \in Nat
      /\ g[1] \in Nat /\ g[2] \in Nat /\ g[3] \in Nat
  BY DEF Row
<1>2. j = 1 \/ j = 2 \/ j = 3
  BY DEF Row
<1>3. CASE j = 1
  BY <1>1, <1>3 DEF Pieces
<1>4. CASE j = 2
  BY <1>1, <1>4 DEF Pieces
<1>5. CASE j = 3
  BY <1>1, <1>5 DEF Pieces
<1> QED
  BY <1>2, <1>3, <1>4, <1>5

\* The printed total catches a number that was read wrong and a row left out,
\* but for the rows without a code.
LEMMA TotalCatches ==
  ASSUME NEW s \in [Row -> 0..MaxCount], NEW coded \in SUBSET Row, NEW r \in Readings(s),
         NEW total \in {Pieces(s, Row), Pieces(s, coded)}, TotalMatches(r, coded, total)
  PROVE  Compared(r, s, coded) \in {"true", "shifted"}
<1> DEFINE f == [i \in Row |-> IF i \in DOMAIN r THEN r[i] ELSE 0]
<1>a. MaxCount \in Nat /\ 3 \in Row
  BY DeskAssumption DEF Row
<1>1. /\ DOMAIN r \subseteq Row
      /\ \A i \in DOMAIN r : r[i] \in Nat
      /\ \E j \in Row : \A i \in Row : i # j => i \in DOMAIN r /\ r[i] = s[i]
  <2>1. CASE r = s
    BY <1>a, <2>1
  <2>2. CASE \E i \in Row, n \in 0..MaxCount : r = [s EXCEPT ![i] = n]
    BY <1>a, <2>2
  <2>3. CASE r = [i \in Row \ {3} |-> s[i]]
    BY <1>a, <2>3
  <2> QED
    BY <2>1, <2>2, <2>3 DEF Readings
<1>2. /\ \A i \in Row : f[i] \in Nat
      /\ \A i \in Row : s[i] \in Nat
  BY <1>a, <1>1
<1>3. PICK j \in Row : \A i \in Row : i # j => f[i] = s[i]
  BY <1>1
<1>4. /\ Pieces(r, DOMAIN r) = Pieces(f, Row)
      /\ Pieces(r, coded \cap DOMAIN r) = Pieces(f, coded)
  <2>1. /\ 1 \in Row /\ 2 \in Row /\ 3 \in Row
    BY DEF Row
  <2> QED
    BY <2>1, <1>1 DEF Pieces
<1>5. \A i \in Row : f[i] = IF i \in DOMAIN r THEN r[i] ELSE 0
  OBVIOUS
<1> HIDE DEF f
<1>6. CASE \A i \in coded : s[i] = f[i]
  <2>1. \A i \in coded : s[i] = (IF i \in DOMAIN r THEN r[i] ELSE 0)
    BY <1>5, <1>6
  <2> QED
    BY <2>1 DEF Compared
<1>7. CASE ~\A i \in coded : s[i] = f[i]
  <2>1. j \in coded /\ f[j] # s[j]
    BY <1>3, <1>7
  <2> DEFINE shownNow == Pieces(s, coded)
             readNow == Pieces(f, coded)
             rest == Pieces(s, Row \ coded)
  <2>2. Row \ coded \in SUBSET Row /\ j \notin Row \ coded
    BY <2>1
  <2>3. /\ Pieces(f, coded) # Pieces(s, coded)
        /\ Pieces(f, Row \ coded) = Pieces(s, Row \ coded)
    BY <1>2, <1>3, <2>1, <2>2, PiecesDiffer
  <2>4. /\ shownNow \in Nat /\ readNow \in Nat /\ rest \in Nat /\ readNow # shownNow
        /\ Pieces(s, Row) = shownNow + rest /\ Pieces(f, Row) = readNow + rest
    BY <1>2, <2>3, PiecesSplit
  <2>5. total \in {shownNow + rest, shownNow} /\ total \in {readNow + rest, readNow}
    BY <1>4, <2>4 DEF TotalMatches
  <2>6. Compared(r, s, coded) = IF shownNow = readNow + rest \/ readNow = shownNow + rest
                                THEN "shifted" ELSE "false"
    <3>1. ~\A i \in coded : s[i] = (IF i \in DOMAIN r THEN r[i] ELSE 0)
      BY <1>5, <1>7
    <3> QED
      BY <1>4, <3>1 DEF Compared
  <2> HIDE DEF shownNow, readNow, rest
  <2>7. shownNow = readNow + rest \/ readNow = shownNow + rest
    BY <2>4, <2>5
  <2> QED
    BY <2>6, <2>7
<1> QED
  BY <1>6, <1>7

LEMMA StaysPrepared ==
  ASSUME NEW g \in Call, PreparedFor(g), at'[g] = at[g], tool'[g] = tool[g],
         target'[g] = target[g], booking'[g] = booking[g], sheet'[g] = sheet[g],
         moved[g] => moved'[g],
         at[g] \in {"read", "check", "write"} /\ ~moved'[g] => UNCHANGED <<tier, order, clock>>
  PROVE  PreparedFor(g)'
<1>1. at[g] = "write" =>
        /\ tool[g] \in Writer
        /\ tool[g] = "count" => sheet'[g] \in {"true", "shifted"}
        /\ tool[g] = "upgrade" /\ ~moved'[g] => target'[g] > tier' /\ target'[g] # MaxTier
        /\ tool[g] = "paid" /\ ~moved'[g] => order' # "awaiting"
  BY DEF PreparedFor
<1>2. at[g] = "write" /\ tool[g] = "register" /\ ~moved'[g] => ~Misbooked(booking[g])'
  <2> SUFFICES ASSUME at[g] = "write", tool[g] = "register", ~moved'[g]
               PROVE  ~Misbooked(booking[g])'
    OBVIOUS
  <2>1. ~Misbooked(booking[g]) /\ clock' = clock
    BY DEF PreparedFor
  <2> QED
    BY <2>1 DEF Misbooked, IsOnTime, DayOf, SpanOf, LateFrom, EndOf
<1>3. at[g] \in {"read", "check"} /\ tool[g] = "register" =>
        /\ booking'[g].day = booking'[g].asked
        /\ ~moved'[g] => (booking'[g].today <=> booking'[g].asked = DayOf(clock)')
  <2> SUFFICES ASSUME at[g] \in {"read", "check"}, tool[g] = "register"
               PROVE  /\ booking'[g].day = booking'[g].asked
                      /\ ~moved'[g] => (booking'[g].today <=> booking'[g].asked = DayOf(clock)')
    OBVIOUS
  <2>1. ~moved'[g] => clock' = clock /\ ~moved[g]
    OBVIOUS
  <2> QED
    BY <2>1 DEF PreparedFor, DayOf
<1> QED
  BY <1>1, <1>2, <1>3 DEF PreparedFor

LEMMA DeskInitial ==
  ASSUME DeskInit
  PROVE  DeskIInv
<1>a. /\ MaxTier \in Nat \ {0} /\ Days \in Nat \ {0} /\ Retries \in Nat
  BY DeskAssumption
<1>1. NoBooking \in Booking
  BY <1>a DEF NoBooking, Booking
<1>2. tier \in 0..MaxTier /\ listed \subseteq 1..MaxTier
      /\ order \in {"fresh", "awaiting", "approved"} /\ clock \in Times
  BY <1>a DEF DeskInit, Times
<1>3. /\ 0 \in 0..Retries /\ 0 \in 0..MaxTier
  BY <1>a
<1>4. DeskTypeOK
  BY <1>1, <1>2, <1>3 DEF DeskInit, DeskTypeOK
<1>5. Prepared /\ Wrongs /\ WritesAreTold /\ WritesAreSound
  BY DEF DeskInit, Prepared, PreparedFor, Wrongs, WritesAreTold, WritesAreSound
<1> QED
  BY <1>4, <1>5 DEF DeskIInv

\* What a step makes of a call.
Becomes(c, w, v, n, t, b, s, a) ==
  /\ at' = [at EXCEPT ![c] = w] /\ word' = [word EXCEPT ![c] = v]
  /\ tries' = [tries EXCEPT ![c] = n] /\ target' = [target EXCEPT ![c] = t]
  /\ booking' = [booking EXCEPT ![c] = b] /\ sheet' = [sheet EXCEPT ![c] = s]
  /\ heard' = [heard EXCEPT ![c] = a]

\* A call goes on or ends without a write.
LEMMA CallMove ==
  ASSUME DeskIInv, NEW c \in Call, at[c] # "over",
         NEW w \in {"read", "check", "write", "over"},
         NEW v \in {"nothing", "refused", "unread", "none", "done", "error"},
         NEW n \in 0..Retries, NEW t \in 0..MaxTier, NEW b \in Booking,
         NEW s \in {"true", "shifted", "false"},
         NEW a \in {"nothing", "ok", "absent", "fail", "cut"},
         Becomes(c, w, v, n, t, b, s, a),
         UNCHANGED <<tool, writes, wrong, moved, tier, listed, order, clock>>,
         w = "over" <=> v # "nothing",
         w = "check" => tool[c] = "register",
         w = "write" =>
           /\ tool[c] \in Writer
           /\ tool[c] = "count" => s \in {"true", "shifted"}
           /\ tool[c] = "upgrade" /\ ~moved[c] => t > tier /\ t # MaxTier
           /\ tool[c] = "paid" /\ ~moved[c] => order # "awaiting"
           /\ tool[c] = "register" /\ ~moved[c] => ~Misbooked(b),
         w \in {"read", "check"} /\ tool[c] = "register" =>
           /\ b.day = b.asked
           /\ ~moved[c] => (b.today <=> b.asked = DayOf(clock)),
         v = "done" => tool[c] = "lookup", v = "none" => a = "absent"
  PROVE  DeskIInv'
<1>a. DeskTypeOK /\ Prepared /\ Wrongs /\ WritesAreTold /\ WritesAreSound
  BY DEF DeskIInv
<1>b. /\ at'[c] = w /\ word'[c] = v /\ target'[c] = t /\ booking'[c] = b /\ sheet'[c] = s
      /\ heard'[c] = a
      /\ \A g \in Call : g # c => /\ at'[g] = at[g] /\ word'[g] = word[g] /\ target'[g] = target[g]
                                  /\ booking'[g] = booking[g] /\ sheet'[g] = sheet[g]
                                  /\ heard'[g] = heard[g]
  BY <1>a DEF DeskTypeOK, Becomes
<1>c. writes[c] = 0 /\ ~wrong[c]
  BY <1>a DEF DeskTypeOK, Wrongs
<1>1. DeskTypeOK'
  <2>1. /\ at' \in [Call -> {"gate", "read", "check", "write", "over"}]
        /\ tries' \in [Call -> 0..Retries]
        /\ target' \in [Call -> 0..MaxTier] /\ booking' \in [Call -> Booking]
        /\ sheet' \in [Call -> {"true", "shifted", "false"}]
        /\ word' \in [Call -> {"nothing", "refused", "unread", "none", "denied", "unsure", "done",
                               "error"}]
        /\ heard' \in [Call -> {"nothing", "ok", "absent", "fail", "cut"}]
    BY <1>a DEF DeskTypeOK, Becomes
  <2>2. \A g \in Call : /\ at'[g] = "over" <=> word'[g] # "nothing"
                        /\ writes[g] > 0 => at'[g] = "over" /\ tool[g] \in Writer
                        /\ at'[g] = "check" => tool[g] = "register"
    BY <1>a, <1>b, <1>c DEF DeskTypeOK
  <2> QED
    BY <1>a, <2>1, <2>2 DEF DeskTypeOK
<1>2. Prepared'
  <2> SUFFICES ASSUME NEW g \in Call
               PROVE  PreparedFor(g)'
    BY DEF Prepared
  <2>1. CASE g # c
    BY <1>a, <1>b, <2>1, StaysPrepared DEF Prepared
  <2>2. CASE g = c
    <3>1. Misbooked(booking[c])' <=> Misbooked(b)
      BY <1>b DEF Misbooked, IsOnTime, DayOf, SpanOf, LateFrom, EndOf
    <3>2. DayOf(clock)' = DayOf(clock)
      BY DEF DayOf
    <3> QED
      BY <1>b, <2>2, <3>1, <3>2 DEF PreparedFor
  <2> QED
    BY <2>1, <2>2
<1>3. Wrongs'
  BY <1>a, <1>b, <1>c DEF Wrongs
<1>4. WritesAreTold'
  <2> SUFFICES ASSUME NEW g \in Call
               PROVE  /\ writes[g] <= 1
                      /\ word'[g] = "done" /\ tool[g] \in Writer => writes[g] = 1
                      /\ word'[g] \in {"refused", "unread"} => writes[g] = 0
                      /\ word'[g] = "denied" /\ tool[g] # "count" => writes[g] = 0
                      /\ word'[g] = "none" => heard'[g] = "absent" \/ tool[g] \in {"customer", "register"}
                      /\ word'[g] = "none" /\ tool[g] # "customer" => writes[g] = 0
    BY DEF WritesAreTold
  <2>1. CASE g # c
    BY <1>a, <1>b, <2>1 DEF WritesAreTold
  <2>2. CASE g = c
    BY <1>b, <1>c, <2>2 DEF Writer
  <2> QED
    BY <2>1, <2>2
<1>5. WritesAreSound'
  BY <1>a, <1>b, <1>c DEF WritesAreSound
<1> QED
  BY <1>1, <1>2, <1>3, <1>4, <1>5 DEF DeskIInv

LEMMA ReadsStep ==
  ASSUME DeskIInv, NEW c \in Call,
         \/ EnterTool(c) \/ GetAgain(c) \/ LookUp(c) \/ LoadTier(c) \/ LoadOrder(c)
         \/ FindDealer(c) \/ CheckPurchase(c) \/ ReadSheet(c)
  PROVE  DeskIInv'
<1>a. DeskTypeOK /\ Prepared
  BY DEF DeskIInv
<1>b. /\ tool[c] \in Tool
      /\ at[c] \in {"gate", "read", "check", "write", "over"}
      /\ tries[c] \in 0..Retries /\ target[c] \in 0..MaxTier /\ booking[c] \in Booking
      /\ sheet[c] \in {"true", "shifted", "false"}
      /\ heard[c] \in {"nothing", "ok", "absent", "fail", "cut"}
      /\ at[c] = "over" <=> word[c] # "nothing"
      /\ at[c] = "check" => tool[c] = "register"
      /\ tier \in 0..MaxTier /\ listed \subseteq 1..MaxTier /\ clock \in Times
  BY <1>a DEF DeskTypeOK
<1>c. /\ at = [at EXCEPT ![c] = at[c]] /\ word = [word EXCEPT ![c] = word[c]]
      /\ tries = [tries EXCEPT ![c] = tries[c]] /\ target = [target EXCEPT ![c] = target[c]]
      /\ booking = [booking EXCEPT ![c] = booking[c]] /\ sheet = [sheet EXCEPT ![c] = sheet[c]]
      /\ heard = [heard EXCEPT ![c] = heard[c]]
  BY <1>a DEF DeskTypeOK
<1>d. at[c] \in {"read", "check"} /\ tool[c] = "register" =>
        /\ booking[c].day = booking[c].asked
        /\ ~moved[c] => (booking[c].today <=> booking[c].asked = DayOf(clock))
  BY <1>a DEF Prepared, PreparedFor
<1>e. 0 \in 0..Retries /\ MaxTier \in Nat /\ Days \in Nat \ {0} /\ Retries \in Nat
  BY DeskAssumption
<1>1. CASE EnterTool(c)
  <2>0. at[c] = "gate" /\ word[c] = "nothing"
        /\ UNCHANGED <<tool, tries, target, sheet, heard, writes, wrong, moved, tier, listed, order,
                       clock>>
    BY <1>1, <1>b DEF EnterTool, Still, opsVars
  <2>1. PICK b \in Booking :
          /\ booking' = [booking EXCEPT ![c] = b]
          /\ tool[c] = "register" =>
               b.day = b.asked /\ (b.today <=> b.asked = DayOf(clock))
    <3>1. CASE tool[c] # "register"
      BY <1>1, <1>b, <1>c, <3>1 DEF EnterTool
    <3>2. CASE tool[c] = "register"
      <4>1. PICK asked \in 0..(Days - 1), slot \in {1, 2} :
              booking' = [booking EXCEPT ![c] = [asked |-> asked, day |-> asked, slot |-> slot,
                                                 today |-> asked = DayOf(clock), onTime |-> FALSE]]
        BY <1>1, <3>2 DEF EnterTool
      <4>2. asked \in 0..(Days + 1)
        BY <1>e
      <4> DEFINE b == [asked |-> asked, day |-> asked, slot |-> slot,
                       today |-> asked = DayOf(clock), onTime |-> FALSE]
      <4>3. b \in Booking /\ b.day = b.asked /\ (b.today <=> b.asked = DayOf(clock))
        BY <4>2 DEF Booking
      <4> QED
        BY <4>1, <4>3
    <3> QED
      BY <3>1, <3>2
  <2>2. \/ GoTo(c, IF tool[c] \in {"lookup", "upgrade", "paid", "count", "register"}
                   THEN "read" ELSE "write")
        \/ Tell(c, "refused")
    BY <1>1 DEF EnterTool
  <2>3. CASE Tell(c, "refused")
    <3>1. Becomes(c, "over", "refused", tries[c], target[c], b, sheet[c], heard[c])
      BY <1>c, <2>0, <2>1, <2>3 DEF Tell, Becomes
    <3> QED
      BY <1>b, <2>0, <2>1, <3>1, CallMove
  <2>4. CASE GoTo(c, "read") /\ tool[c] \in {"lookup", "upgrade", "paid", "count", "register"}
    <3>1. Becomes(c, "read", "nothing", tries[c], target[c], b, sheet[c], heard[c])
      BY <1>c, <2>0, <2>1, <2>4 DEF GoTo, Becomes
    <3> QED
      BY <1>b, <2>0, <2>1, <3>1, CallMove
  <2>5. CASE GoTo(c, "write") /\ tool[c] \notin {"lookup", "upgrade", "paid", "count", "register"}
    <3>1. tool[c] \in Writer /\ tool[c] # "upgrade" /\ tool[c] # "paid" /\ tool[c] # "count"
          /\ tool[c] # "register"
      BY <1>b, <2>5 DEF Writer
    <3>2. Becomes(c, "write", "nothing", tries[c], target[c], b, sheet[c], heard[c])
      BY <1>c, <2>0, <2>1, <2>5 DEF GoTo, Becomes
    <3> QED
      BY <1>b, <2>0, <2>1, <3>1, <3>2, CallMove
  <2> QED
    BY <2>2, <2>3, <2>4, <2>5
<1>2. CASE GetAgain(c)
  <2>1. /\ at[c] \in {"read", "check"} /\ word[c] = "nothing"
        /\ UNCHANGED <<tool, at, target, booking, sheet, word, heard, writes, wrong, moved, tier,
                       listed, order, clock>>
        /\ tries' = [tries EXCEPT ![c] = tries[c] + 1] /\ tries[c] < Retries
    BY <1>2, <1>b DEF GetAgain, plans, Still, opsVars
  <2>2. tries[c] + 1 \in 0..Retries
    BY <1>b, <1>e, <2>1
  <2>3. Becomes(c, at[c], "nothing", tries[c] + 1, target[c], booking[c], sheet[c], heard[c])
    BY <1>c, <2>1 DEF Becomes
  <2> QED
    BY <1>b, <1>d, <2>1, <2>2, <2>3, CallMove
\* A GET ends.
<1>3. ASSUME NEW where \in {"read", "check"}, NEW answer \in {"ok", "absent", "fail", "cut"},
             GetEnds(c, where, answer), UNCHANGED plans,
             NEW what \in {"refused", "unread", "none", "done", "error"}, Tell(c, what),
             what = "done" => tool[c] = "lookup", what = "none" => answer = "absent"
      PROVE  DeskIInv'
  <2>1. /\ at[c] = where
        /\ UNCHANGED <<tool, target, booking, sheet, writes, wrong, moved, tier, listed, order, clock>>
        /\ heard' = [heard EXCEPT ![c] = answer] /\ tries' = [tries EXCEPT ![c] = 0]
        /\ at' = [at EXCEPT ![c] = "over"] /\ word' = [word EXCEPT ![c] = what]
    BY <1>3 DEF GetEnds, plans, Still, opsVars, Tell
  <2>2. Becomes(c, "over", what, 0, target[c], booking[c], sheet[c], answer)
    BY <1>c, <2>1 DEF Becomes
  <2> QED
    BY <1>3, <1>b, <1>e, <2>1, <2>2, CallMove
<1>4. ASSUME NEW where \in {"read", "check"}, NEW answer \in {"ok", "absent", "fail", "cut"},
             GetEnds(c, where, answer), NotRead(c, answer)
      PROVE  DeskIInv'
  BY <1>3, <1>4 DEF NotRead
<1>5. CASE LookUp(c)
  <2>1. PICK answer \in {"ok", "absent", "fail", "cut"} :
          /\ GetEnds(c, "read", answer)
          /\ \/ answer = "ok" /\ Tell(c, "done") /\ UNCHANGED plans
             \/ answer = "absent" /\ Tell(c, "none") /\ UNCHANGED plans
             \/ NotRead(c, answer)
    BY <1>5 DEF LookUp
  <2>2. tool[c] = "lookup"
    BY <1>5 DEF LookUp
  <2>3. CASE answer = "ok" /\ Tell(c, "done") /\ UNCHANGED plans
    BY <1>3, <2>1, <2>2, <2>3
  <2>4. CASE answer = "absent" /\ Tell(c, "none") /\ UNCHANGED plans
    BY <1>3, <2>1, <2>4
  <2>5. CASE NotRead(c, answer)
    BY <1>4, <2>1, <2>5
  <2> QED
    BY <2>1, <2>3, <2>4, <2>5
\* A GET brought what a write needs.
<1>6. ASSUME NEW where \in {"read", "check"}, GetEnds(c, where, "ok"), NEW w \in {"check", "write"},
             GoTo(c, w),
             NEW t \in 0..MaxTier, NEW b \in Booking,
             target' = [target EXCEPT ![c] = t], booking' = [booking EXCEPT ![c] = b],
             UNCHANGED sheet,
             tool[c] \in {"upgrade", "paid", "register"}, w = "check" => tool[c] = "register" /\ b = booking[c],
             tool[c] = "upgrade" => t > tier /\ t # MaxTier,
             tool[c] = "paid" => order # "awaiting",
             w = "write" /\ tool[c] = "register" /\ ~moved[c] => ~Misbooked(b)
      PROVE  DeskIInv'
  <2>1. /\ at[c] = where /\ word[c] = "nothing"
        /\ UNCHANGED <<tool, sheet, word, writes, wrong, moved, tier, listed, order, clock>>
        /\ heard' = [heard EXCEPT ![c] = "ok"] /\ tries' = [tries EXCEPT ![c] = 0]
        /\ at' = [at EXCEPT ![c] = w]
    BY <1>6, <1>b DEF GetEnds, Still, opsVars, GoTo
  <2>2. tool[c] \in Writer /\ tool[c] # "count"
    BY <1>6 DEF Writer, Tool
  <2>3. Becomes(c, w, "nothing", 0, t, b, sheet[c], "ok")
    BY <1>6, <1>c, <2>1 DEF Becomes
  <2> QED
    BY <1>6, <1>b, <1>d, <1>e, <2>1, <2>2, <2>3, CallMove
<1>7. CASE LoadTier(c)
  <2>1. tool[c] = "upgrade"
    BY <1>7 DEF LoadTier
  <2>2. ASSUME GetEnds(c, "read", "ok"), NEW to \in 1..MaxTier, UNCHANGED <<booking, sheet>>,
               CurrentIsKnown, to \in listed, MayUpgrade(ShownTier, to),
               GoTo(c, "write"), target' = [target EXCEPT ![c] = to]
        PROVE  DeskIInv'
    <3>1. ShownTier = tier
      BY <2>2, <1>b DEF ShownTier, CurrentIsKnown
    <3>2. to > tier /\ to # MaxTier /\ to \in 0..MaxTier
      BY <1>e, <2>2, <3>1 DEF MayUpgrade
    <3> QED
      BY <1>6, <1>b, <1>c, <2>1, <2>2, <3>2
  <2>3. CASE GetEnds(c, "read", "ok") /\ Tell(c, "refused") /\ UNCHANGED <<target, booking, sheet>>
    BY <1>3, <2>3 DEF plans
  <2>4. CASE \E answer \in {"fail", "cut"} : GetEnds(c, "read", answer) /\ NotRead(c, answer)
    BY <1>4, <2>4
  <2> QED
    BY <1>7, <2>2, <2>3, <2>4 DEF LoadTier
<1>8. CASE LoadOrder(c)
  <2>1. PICK answer \in {"ok", "absent", "fail", "cut"} :
          /\ GetEnds(c, "read", answer)
          /\ \/ answer = "ok" /\ Eligible /\ GoTo(c, "write") /\ UNCHANGED plans
             \/ answer = "ok" /\ ~Eligible /\ Tell(c, "refused") /\ UNCHANGED plans
             \/ answer = "absent" /\ Tell(c, "none") /\ UNCHANGED plans
             \/ NotRead(c, answer)
    BY <1>8 DEF LoadOrder
  <2>2. tool[c] = "paid"
    BY <1>8 DEF LoadOrder
  <2>3. CASE answer = "ok" /\ Eligible /\ GoTo(c, "write") /\ UNCHANGED plans
    BY <1>6, <1>b, <1>c, <2>1, <2>2, <2>3 DEF plans, Eligible
  <2>4. CASE answer = "ok" /\ ~Eligible /\ Tell(c, "refused") /\ UNCHANGED plans
    BY <1>3, <2>1, <2>4
  <2>5. CASE answer = "absent" /\ Tell(c, "none") /\ UNCHANGED plans
    BY <1>3, <2>1, <2>5
  <2>6. CASE NotRead(c, answer)
    BY <1>4, <2>1, <2>6
  <2> QED
    BY <2>1, <2>3, <2>4, <2>5, <2>6
\* The slot is chosen.
<1>9. ASSUME NEW where \in {"read", "check"}, GetEnds(c, where, "ok"), tool[c] = "register", Book(c)
      PROVE  DeskIInv'
  <2> DEFINE n == Rescheduled(booking[c])
             b == [n EXCEPT !.onTime = IsOnTime(n)]
  <2>1. /\ GoTo(c, "write") /\ booking' = [booking EXCEPT ![c] = b] /\ UNCHANGED <<target, sheet>>
        /\ at[c] = where
    BY <1>9 DEF Book, GetEnds
  <2>2. b \in Booking /\ (~moved[c] => ~Misbooked(b))
    <3>1. /\ booking[c].day = booking[c].asked
          /\ ~moved[c] => (booking[c].today <=> booking[c].asked = DayOf(clock))
      BY <1>9, <1>d, <2>1
    <3> QED
      BY <1>b, <3>1, BookedOpen
  <2> HIDE DEF b, n
  <2> QED
    BY <1>6, <1>9, <1>b, <1>c, <2>1, <2>2
<1>10. CASE FindDealer(c)
  <2>1. PICK answer \in {"ok", "absent", "fail", "cut"} :
          /\ GetEnds(c, "read", answer)
          /\ \/ answer = "ok" /\ Book(c)
             \/ answer = "ok" /\ GoTo(c, "check") /\ UNCHANGED plans
             \/ answer = "absent" /\ Tell(c, "none") /\ UNCHANGED plans
             \/ NotRead(c, answer)
    BY <1>10 DEF FindDealer
  <2>2. tool[c] = "register"
    BY <1>10 DEF FindDealer
  <2>3. CASE answer = "ok" /\ Book(c)
    BY <1>9, <2>1, <2>2, <2>3
  <2>4. CASE answer = "ok" /\ GoTo(c, "check") /\ UNCHANGED plans
    BY <1>6, <1>b, <1>c, <2>1, <2>2, <2>4 DEF plans
  <2>5. CASE answer = "absent" /\ Tell(c, "none") /\ UNCHANGED plans
    BY <1>3, <2>1, <2>5
  <2>6. CASE NotRead(c, answer)
    BY <1>4, <2>1, <2>6
  <2> QED
    BY <2>1, <2>3, <2>4, <2>5, <2>6
<1>11. CASE CheckPurchase(c)
  <2>1. \A answer : GetEnds(c, "check", answer) => tool[c] = "register"
    BY <1>b DEF GetEnds
  <2>2. CASE GetEnds(c, "check", "ok") /\ Book(c)
    BY <1>9, <2>1, <2>2
  <2>3. CASE GetEnds(c, "check", "ok") /\ Tell(c, "refused") /\ UNCHANGED plans
    BY <1>3, <2>3
  <2>4. CASE \E answer \in {"fail", "cut"} : GetEnds(c, "check", answer) /\ NotRead(c, answer)
    BY <1>4, <2>4
  <2> QED
    BY <1>11, <2>2, <2>3, <2>4 DEF CheckPurchase
<1>12. CASE ReadSheet(c)
  <2>1. /\ tool[c] = "count" /\ at[c] = "read" /\ word[c] = "nothing"
        /\ UNCHANGED <<tool, tries, heard, writes, wrong, moved, tier, listed, order, clock, target,
                       booking>>
    BY <1>12, <1>b DEF ReadSheet, Still, opsVars, plans
  <2>2. ASSUME NEW what \in {"refused", "error"}, Tell(c, what), UNCHANGED sheet
        PROVE  DeskIInv'
    <3>1. Becomes(c, "over", what, tries[c], target[c], booking[c], sheet[c], heard[c])
      BY <1>c, <2>1, <2>2 DEF Tell, Becomes
    <3> QED
      BY <1>b, <2>1, <2>2, <3>1, CallMove
  <2>3. ASSUME NEW s \in [Row -> 0..MaxCount], NEW coded \in SUBSET Row, NEW r \in Readings(s),
               NEW total \in {Pieces(s, Row), Pieces(s, coded)}, TotalMatches(r, coded, total),
               GoTo(c, "write"), sheet' = [sheet EXCEPT ![c] = Compared(r, s, coded)]
        PROVE  DeskIInv'
    <3>1. Compared(r, s, coded) \in {"true", "shifted"}
      BY <2>3, TotalCatches
    <3>2. tool[c] \in Writer
      BY <2>1 DEF Writer, Tool
    <3>3. Becomes(c, "write", "nothing", tries[c], target[c], booking[c], Compared(r, s, coded),
                  heard[c])
      BY <1>c, <2>1, <2>3 DEF GoTo, Becomes
    <3> QED
      BY <1>b, <2>1, <3>1, <3>2, <3>3, CallMove
  <2> QED
    BY <1>12, <2>2, <2>3 DEF ReadSheet, plans
<1> QED
  BY <1>1, <1>2, <1>5, <1>7, <1>8, <1>10, <1>11, <1>12

\* The records or the day move, and no call but one that writes takes a step.
LEMMA OthersStay ==
  ASSUME DeskIInv, Moves, NEW g \in Call, at'[g] = at[g], tool'[g] = tool[g],
         target'[g] = target[g], booking'[g] = booking[g], sheet'[g] = sheet[g]
  PROVE  PreparedFor(g)' /\ (moved[g] => moved'[g])
<1>1. moved'[g] = (moved[g] \/ (at[g] \in {"read", "check", "write"} /\ at'[g] = at[g] /\ opsVars' # opsVars))
  BY DEF Moves
<1>2. at[g] \in {"read", "check", "write"} /\ ~moved'[g] => UNCHANGED <<tier, order, clock>>
  BY <1>1 DEF opsVars
<1>3. moved[g] => moved'[g]
  BY <1>1
<1> QED
  BY <1>2, <1>3, StaysPrepared DEF DeskIInv, Prepared

LEMMA WorldStep ==
  ASSUME DeskIInv, OfficeMovesTier \/ OfficeMovesOrder \/ ClockStrikes
  PROVE  DeskIInv'
<1>a. DeskTypeOK /\ Wrongs /\ WritesAreTold /\ WritesAreSound
  BY DEF DeskIInv
<1>b. /\ UNCHANGED <<tool, at, tries, target, booking, sheet, word, heard, writes, wrong>>
      /\ Moves /\ listed' = listed
  BY DEF OfficeMovesTier, OfficeMovesOrder, ClockStrikes, callVars, plans
<1>c. tier' \in 0..MaxTier /\ order' \in {"fresh", "awaiting", "approved"} /\ clock' \in Times
  BY <1>a DEF OfficeMovesTier, OfficeMovesOrder, ClockStrikes, DeskTypeOK
<1>d. \A g \in Call : PreparedFor(g)' /\ (moved[g] => moved'[g])
  BY <1>b, OthersStay
<1>1. moved' \in [Call -> BOOLEAN]
  BY <1>a, <1>b DEF Moves, DeskTypeOK
<1>2. DeskTypeOK'
  BY <1>a, <1>b, <1>c, <1>1 DEF DeskTypeOK
<1>3. Prepared'
  BY <1>d DEF Prepared
<1>4. Wrongs' /\ WritesAreTold'
  BY <1>a, <1>b DEF Wrongs, WritesAreTold
<1>5. WritesAreSound'
  BY <1>a, <1>b, <1>d DEF WritesAreSound
<1> QED
  BY <1>2, <1>3, <1>4, <1>5 DEF DeskIInv

\* What a tool says of its write fits what can have become of it.
LEMMA WordsFit ==
  \A t \in Writer : \A o \in Outcomes(t) \ {"cut"} : \A effect \in Effects(o) :
    /\ WordOf(t, o) \in {"done", "unsure", "denied", "none"}
    /\ WordOf(t, o) = "done" => effect = TRUE
    /\ WordOf(t, o) = "denied" /\ t # "count" => effect = FALSE
    /\ WordOf(t, o) = "none" => t \in {"customer", "register"}
    /\ WordOf(t, o) = "none" /\ t # "customer" => effect = FALSE
<1> SUFFICES ASSUME NEW t \in Writer, NEW o \in Outcomes(t) \ {"cut"}, NEW effect \in Effects(o)
             PROVE  /\ WordOf(t, o) \in {"done", "unsure", "denied", "none"}
                    /\ WordOf(t, o) = "done" => effect = TRUE
                    /\ WordOf(t, o) = "denied" /\ t # "count" => effect = FALSE
                    /\ WordOf(t, o) = "none" => t \in {"customer", "register"}
                    /\ WordOf(t, o) = "none" /\ t # "customer" => effect = FALSE
  OBVIOUS
<1>a. o \in {"ok", "bare", "odd", "absent", "refuse", "lost", "idle"}
      /\ (o = "idle" => t \in {"customer", "register"})
  BY DEF Outcomes
<1>b. /\ o \in {"ok", "bare", "odd"} => effect = TRUE
      /\ o \in {"absent", "refuse", "idle"} => effect = FALSE
  BY <1>a DEF Effects
<1>c. t \in {"upgrade", "paid", "validate", "batch", "shop", "customer", "count", "register"}
  BY DEF Writer, Tool
<1>1. CASE t = "upgrade"
  BY <1>1, <1>a, <1>b DEF WordOf, UpgradeWord
<1>2. CASE t \in {"paid", "validate"}
  BY <1>2, <1>a, <1>b DEF WordOf, ApproveWord
<1>3. CASE t = "batch"
  BY <1>3, <1>a, <1>b DEF WordOf, BatchWord
<1>4. CASE t = "shop"
  BY <1>4, <1>a, <1>b DEF WordOf, ShopWord
<1>5. CASE t = "customer"
  BY <1>5, <1>a, <1>b DEF WordOf, CustomerWord
<1>6. CASE t = "count"
  BY <1>6, <1>a, <1>b DEF WordOf, CountWord
<1>7. CASE t = "register"
  BY <1>7, <1>a, <1>b DEF WordOf, RegisterWord
<1> QED
  BY <1>c, <1>1, <1>2, <1>3, <1>4, <1>5, <1>6, <1>7

LEMMA PostStep ==
  ASSUME DeskIInv, NEW c \in Call, PostOnce(c)
  PROVE  DeskIInv'
<1>a. DeskTypeOK /\ Prepared /\ Wrongs /\ WritesAreTold /\ WritesAreSound
  BY DEF DeskIInv
<1>b. /\ at[c] = "write" /\ tool[c] \in Writer /\ PreparedFor(c)
      /\ UNCHANGED <<tool, tries, target, booking, sheet, heard>>
  BY <1>a DEF PostOnce, plans, Prepared, PreparedFor
<1>c. writes[c] = 0 /\ ~wrong[c]
  BY <1>a, <1>b DEF DeskTypeOK, Wrongs
<1>0. PICK o \in Outcomes(tool[c]) : \E effect \in Effects(o) :
        /\ Tell(c, IF o = "cut" THEN "error" ELSE WordOf(tool[c], o))
        /\ IF effect THEN TakesEffect(c) ELSE UNCHANGED <<writes, wrong>> /\ Still
  BY DEF PostOnce
<1>1. PICK effect \in Effects(o) :
        /\ Tell(c, IF o = "cut" THEN "error" ELSE WordOf(tool[c], o))
        /\ IF effect THEN TakesEffect(c) ELSE UNCHANGED <<writes, wrong>> /\ Still
  BY <1>0
<1>2. PICK v \in {"done", "unsure", "denied", "none", "error"} :
        /\ at' = [at EXCEPT ![c] = "over"] /\ word' = [word EXCEPT ![c] = v]
        /\ v = "done" => effect
        /\ v = "denied" /\ tool[c] # "count" => ~effect
        /\ v = "none" => tool[c] \in {"customer", "register"}
        /\ v = "none" /\ tool[c] # "customer" => ~effect
  <2>1. CASE o = "cut"
    BY <1>1, <2>1 DEF Tell
  <2>2. CASE o # "cut"
    <3>1. /\ at' = [at EXCEPT ![c] = "over"]
          /\ word' = [word EXCEPT ![c] = WordOf(tool[c], o)]
      BY <1>1, <2>2 DEF Tell
    <3>2. /\ WordOf(tool[c], o) \in {"done", "unsure", "denied", "none"}
          /\ WordOf(tool[c], o) = "done" => effect = TRUE
          /\ WordOf(tool[c], o) = "denied" /\ tool[c] # "count" => effect = FALSE
          /\ WordOf(tool[c], o) = "none" => tool[c] \in {"customer", "register"}
          /\ WordOf(tool[c], o) = "none" /\ tool[c] # "customer" => effect = FALSE
      <4>1. tool[c] \in Writer /\ o \in Outcomes(tool[c]) /\ o # "cut" /\ effect \in Effects(o)
        BY <1>b, <2>2
      <4> QED
        BY <4>1, WordsFit
    <3> QED
      BY <3>1, <3>2
  <2> QED
    BY <2>1, <2>2
<1>3. /\ at'[c] = "over" /\ word'[c] = v
      /\ \A g \in Call : g # c => at'[g] = at[g] /\ word'[g] = word[g]
      /\ at' \in [Call -> {"gate", "read", "check", "write", "over"}]
      /\ word' \in [Call -> {"nothing", "refused", "unread", "none", "denied", "unsure", "done",
                             "error"}]
  BY <1>a, <1>2 DEF DeskTypeOK
\* Whether it takes effect or not.
<1>4. /\ writes' \in [Call -> Nat] /\ wrong' \in [Call -> BOOLEAN] /\ moved' \in [Call -> BOOLEAN]
      /\ tier' \in 0..MaxTier /\ order' \in {"fresh", "awaiting", "approved"}
      /\ UNCHANGED <<listed, clock>>
      /\ \A g \in Call : g # c => /\ writes'[g] = writes[g] /\ wrong'[g] = wrong[g]
                                  /\ PreparedFor(g)'
      /\ \A g \in Call : moved[g] => moved'[g]
      /\ writes'[c] <= 1 /\ (effect => writes'[c] = 1) /\ (~effect => writes'[c] = 0)
      /\ wrong'[c] => moved'[c] \/ (tool[c] = "count" /\ sheet[c] = "shifted")
  <2>1. CASE effect
    <3>1. TakesEffect(c)
      BY <1>1, <2>1
    <3> DEFINE W == CASE tool[c] = "upgrade" -> target[c] <= tier \/ target[c] = MaxTier
                      [] tool[c] = "paid" -> order = "awaiting"
                      [] tool[c] = "register" -> Misbooked(booking[c])
                      [] tool[c] = "count" -> sheet[c] # "true"
                      [] OTHER -> FALSE
    <3>2. /\ writes' = [writes EXCEPT ![c] = writes[c] + 1]
          /\ wrong' = [wrong EXCEPT ![c] = W]
          /\ tier' = IF tool[c] = "upgrade" THEN target[c] ELSE tier
          /\ order' = IF tool[c] \in {"paid", "validate"} THEN "approved" ELSE order
          /\ UNCHANGED <<listed, clock>> /\ Moves
      BY <3>1 DEF TakesEffect
    <3>3. W \in BOOLEAN /\ (W => moved[c] \/ (tool[c] = "count" /\ sheet[c] = "shifted"))
      <4>1. CASE tool[c] = "upgrade"
        <5>1. W = (target[c] <= tier \/ target[c] = MaxTier)
          BY <4>1
        <5>2. tier \in Nat /\ target[c] \in Nat
          BY <1>a, DeskAssumption DEF DeskTypeOK
        <5>3. ~moved[c] => target[c] > tier /\ target[c] # MaxTier
          BY <1>b, <4>1 DEF PreparedFor
        <5> HIDE DEF W
        <5>4. target[c] > tier => ~(target[c] <= tier)
          BY <5>2
        <5> QED
          BY <5>1, <5>3, <5>4
      <4>2. CASE tool[c] = "paid"
        BY <1>b, <4>2 DEF PreparedFor
      <4>3. CASE tool[c] = "register"
        <5>1. Misbooked(booking[c]) \in BOOLEAN
          BY DEF Misbooked
        <5> QED
          BY <1>b, <4>3, <5>1 DEF PreparedFor
      <4>4. CASE tool[c] = "count"
        BY <1>b, <4>4 DEF PreparedFor
      <4>5. CASE tool[c] \notin {"upgrade", "paid", "register", "count"}
        BY <4>5
      <4> QED
        BY <4>1, <4>2, <4>3, <4>4, <4>5
    <3> HIDE DEF W
    <3>4. /\ writes' \in [Call -> Nat] /\ writes'[c] = 1
          /\ \A g \in Call : g # c => writes'[g] = writes[g]
      BY <1>a, <1>c, <3>2 DEF DeskTypeOK
    <3>5. /\ wrong' \in [Call -> BOOLEAN] /\ wrong'[c] = W
          /\ \A g \in Call : g # c => wrong'[g] = wrong[g]
      BY <1>a, <3>2, <3>3 DEF DeskTypeOK
    <3>6. moved' \in [Call -> BOOLEAN] /\ \A g \in Call : moved[g] => moved'[g]
      BY <1>a, <3>2 DEF Moves, DeskTypeOK
    <3>7. tier' \in 0..MaxTier /\ order' \in {"fresh", "awaiting", "approved"}
      BY <1>a, <3>2 DEF DeskTypeOK
    <3>8. \A g \in Call : g # c => PreparedFor(g)'
      BY <1>3, <1>b, <3>2, OthersStay
    <3>9. writes'[c] <= 1
      BY <3>4
    <3> QED
      BY <2>1, <3>2, <3>3, <3>4, <3>5, <3>6, <3>7, <3>8, <3>9
  <2>2. CASE ~effect
    <3>1. UNCHANGED <<writes, wrong, moved, tier, listed, order, clock>>
      BY <1>1, <2>2 DEF Still, opsVars
    <3>2. \A g \in Call : g # c => PreparedFor(g)'
      BY <1>3, <1>a, <1>b, <3>1, StaysPrepared DEF Prepared
    <3>3. writes'[c] = 0 /\ writes'[c] <= 1 /\ ~wrong'[c]
      BY <1>c, <3>1
    <3> QED
      BY <1>a, <2>2, <3>1, <3>2, <3>3 DEF DeskTypeOK
  <2> QED
    BY <2>1, <2>2
<1>5. DeskTypeOK'
  <2>1. \A g \in Call : /\ at'[g] = "over" <=> word'[g] # "nothing"
                        /\ writes'[g] > 0 => at'[g] = "over" /\ tool[g] \in Writer
                        /\ at'[g] = "check" => tool[g] = "register"
    <3> SUFFICES ASSUME NEW g \in Call
                 PROVE  /\ at'[g] = "over" <=> word'[g] # "nothing"
                        /\ writes'[g] > 0 => at'[g] = "over" /\ tool[g] \in Writer
                        /\ at'[g] = "check" => tool[g] = "register"
      OBVIOUS
    <3>1. CASE g = c
      BY <1>b, <1>2, <1>3, <3>1
    <3>2. CASE g # c
      BY <1>a, <1>3, <1>4, <3>2 DEF DeskTypeOK
    <3> QED
      BY <3>1, <3>2
  <2> QED
    BY <1>a, <1>b, <1>3, <1>4, <2>1 DEF DeskTypeOK
<1>6. Prepared'
  <2>1. PreparedFor(c)'
    BY <1>3 DEF PreparedFor
  <2> QED
    BY <1>4, <2>1 DEF Prepared
<1>7. Wrongs'
  BY <1>a, <1>3, <1>4 DEF Wrongs
<1>8. WritesAreTold'
  <2> SUFFICES ASSUME NEW g \in Call
               PROVE  /\ writes'[g] <= 1
                      /\ word'[g] = "done" /\ tool[g] \in Writer => writes'[g] = 1
                      /\ word'[g] \in {"refused", "unread"} => writes'[g] = 0
                      /\ word'[g] = "denied" /\ tool[g] # "count" => writes'[g] = 0
                      /\ word'[g] = "none" => heard[g] = "absent" \/ tool[g] \in {"customer", "register"}
                      /\ word'[g] = "none" /\ tool[g] # "customer" => writes'[g] = 0
    BY <1>b DEF WritesAreTold
  <2>1. CASE g # c
    BY <1>a, <1>3, <1>4, <2>1 DEF WritesAreTold
  <2>2. CASE g = c
    BY <1>2, <1>3, <1>4, <2>2
  <2> QED
    BY <2>1, <2>2
<1>9. WritesAreSound'
  BY <1>a, <1>b, <1>4 DEF WritesAreSound
<1> QED
  BY <1>5, <1>6, <1>7, <1>8, <1>9 DEF DeskIInv

LEMMA DeskStep ==
  ASSUME DeskIInv, [ToolNext]_deskVars
  PROVE  DeskIInv'
<1>1. CASE UNCHANGED deskVars
  <2>1. UNCHANGED <<tool, at, tries, target, booking, sheet, word, heard, writes, wrong, moved, tier,
                    listed, order, clock>>
    BY <1>1 DEF deskVars, callVars, plans, opsVars
  <2>2. DeskTypeOK' /\ Wrongs' /\ WritesAreTold' /\ WritesAreSound'
    BY <2>1 DEF DeskIInv, DeskTypeOK, Wrongs, WritesAreTold, WritesAreSound
  <2>3. Prepared'
    BY <2>1, StaysPrepared DEF DeskIInv, Prepared
  <2> QED
    BY <2>2, <2>3 DEF DeskIInv
<1>2. CASE ToolNext
  BY <1>2, ReadsStep, PostStep, WorldStep DEF ToolNext
<1> QED
  BY <1>1, <1>2

(* DeskIInv is an invariant of any number of calls of a dealer's rooms, and *)
(* of an office that works on the same records.                            *)
THEOREM DeskInductive == DeskSpec => []DeskIInv
<1>1. DeskInit => DeskIInv
  BY DeskInitial
<1>2. DeskIInv /\ [ToolNext]_deskVars => DeskIInv'
  BY DeskStep
<1> QED
  BY <1>1, <1>2, PTL DEF DeskSpec

(* DeskTyped: a call has a word exactly when it is over, and writes nothing *)
(* before (tools/impl).                                                    *)
THEOREM DeskTyped == DeskSpec => []DeskTypeOK
<1>1. DeskIInv => DeskTypeOK
  BY DEF DeskIInv
<1> QED
  BY <1>1, DeskInductive, PTL

(* WordsAreKept: what a tool tells the model of its write is what came of   *)
(* it, however the operational system answered (operational/client.ts).    *)
THEOREM WordsAreKept == DeskSpec => []WritesAreTold
<1>1. DeskIInv => WritesAreTold
  BY DEF DeskIInv
<1> QED
  BY <1>1, DeskInductive, PTL

(* WritesAreRight: unless the records moved under the call, what it writes  *)
(* agrees with them; a count may be off by what the rows without a code    *)
(* hold (dealer/discount.ts, don-hang, xacnhan, kho).                      *)
THEOREM WritesAreRight == DeskSpec => []WritesAreSound
<1>1. DeskIInv => WritesAreSound
  BY DEF DeskIInv
<1> QED
  BY <1>1, DeskInductive, PTL

-----------------------------------------------------------------------------
(* Spending                                                                *)

\* Where a turn may still spend, or has spent what the counter does not show.
Active == {"get", "sum", "set", "run", "insert", "incr"}

\* The turns that have not entered anything, and the messages that await their row.
Gated == Active \ {"incr"}

Unentered == {h \in Host : purse[h] \in Gated}
Rowless == {b \in Bill : ledger[b] = 0 /\ \E h \in Unentered : bill[h] = b}

\* What a turn may still add to what the counter will not show, and what it may spend
\* once it is past the gate.
Slack == [h \in Host |-> IF purse[h] \in {"get", "sum", "set", "run"} THEN MaxCost
                         ELSE IF purse[h] \in {"insert", "incr"} THEN MaxCost - cost[h] ELSE 0]

Passed == [h \in Host |-> IF purse[h] = "run" THEN MaxCost ELSE 0]

\* The turns that may be over the limit: one, those beside another, those that are
\* redelivered and enter nothing.
One(places) == IF \E h \in Host : purse[h] \in places THEN 1 ELSE 0

Credit == One(Active) + beside + Again + Cardinality(Rowless) - Cardinality(Unentered)

\* The counter is not there, or one is about to be set that may hide what is entered.
Summing == counter = -1 \/ \E h \in Host : purse[h] \in {"sum", "set"}

Delivered == \A b \in Bill : ledger[b] # 0 \/ (\E h \in Host : bill[h] = b) => runs[b] > 0

Credited == Cardinality(Unentered) <= Again + Cardinality(Rowless)

Absent == counter = -1 => \A h \in Host : purse[h] \in {"idle", "get", "sum", "set"}

Unsummed == Summing =>
  Amount(Slack, MaxCost) + spent <= MaxCost * (One(Active \cup {"expire"}) + beside)

Summed == ~Summing =>
  /\ Amount(Passed, MaxCost) + spent <= Limit - 1 + MaxCost * (1 + beside + Again)
  /\ Amount(Slack, MaxCost) + spent <= counter + MaxCost * Credit

\* What holds of the account as long as nothing has failed.
Booked == Credited /\ Absent /\ Unsummed /\ Summed

SpendingIInv ==
  /\ FaultsOK /\ SpendingTypeOK /\ Delivered
  /\ faults = 0 => Booked

-----------------------------------------------------------------------------
(* Sums                                                                    *)

\* The units of all but x.
Others(f, top, x) == {u \in (DOMAIN f \ {x}) \X (1..top) : u[2] <= f[u[1]]}

\* A sum is what x holds and what the others hold.
LEMMA AmountSplit ==
  ASSUME NEW S, IsFiniteSet(S), NEW top \in Nat, NEW f \in [S -> 0..top], NEW x \in S
  PROVE  /\ Cardinality(Others(f, top, x)) \in Nat
         /\ Amount(f, top) = Cardinality(Others(f, top, x)) + f[x]
<1> DEFINE mine == {x} \X (1..f[x])
           units == {u \in S \X (1..top) : u[2] <= f[u[1]]}
           rest == Others(f, top, x)
<1>1. DOMAIN f = S /\ f[x] \in 0..top /\ f[x] \in Int /\ \A y \in S : f[y] \in 0..top
  OBVIOUS
<1>2. IsFiniteSet(mine) /\ Cardinality(mine) = f[x]
  <2>1. IsFiniteSet(1..f[x]) /\ Cardinality(1..f[x]) = f[x]
    BY <1>1, FS_Interval
  <2>2. IsFiniteSet({x}) /\ Cardinality({x}) = 1
    BY FS_Singleton
  <2>3. IsFiniteSet(mine) /\ Cardinality(mine) = Cardinality({x}) * Cardinality(1..f[x])
    BY <2>1, <2>2, FS_Product
  <2> QED
    BY <1>1, <2>1, <2>2, <2>3
<1>3. IsFiniteSet(rest)
  <2>1. IsFiniteSet(1..top)
    BY FS_Interval
  <2>2. IsFiniteSet(S \X (1..top))
    BY <2>1, FS_Product
  <2>3. rest \in SUBSET (S \X (1..top))
    BY <1>1 DEF Others
  <2> HIDE DEF rest
  <2> QED
    BY <2>2, <2>3, FS_Subset
<1>4. units = rest \cup mine /\ rest \cap mine = {}
  <2>1. ASSUME NEW u \in units
        PROVE  u \in rest \cup mine
    <3>1. PICK y \in S, n \in 1..top : u = <<y, n>> /\ n <= f[y]
      OBVIOUS
    <3>2. CASE y = x
      <4>1. n \in 1..f[x]
        BY <1>1, <3>1, <3>2
      <4> QED
        BY <3>1, <3>2, <4>1
    <3>3. CASE y # x
      BY <1>1, <3>1, <3>3 DEF Others
    <3> QED
      BY <3>2, <3>3
  <2>2. ASSUME NEW u \in mine
        PROVE  u \in units
    <3>1. PICK n \in 1..f[x] : u = <<x, n>>
      OBVIOUS
    <3>2. n \in 1..top /\ n <= f[x]
      BY <1>1, <3>1
    <3> QED
      BY <3>1, <3>2
  <2>3. rest \subseteq units /\ rest \cap mine = {}
    BY <1>1 DEF Others
  <2> HIDE DEF units, rest, mine
  <2> QED
    BY <2>1, <2>2, <2>3
<1>5. Cardinality(rest) \in Nat
  BY <1>3, FS_CardinalityType
<1>6. Amount(f, top) = Cardinality(units)
  BY <1>1 DEF Amount
<1>7. Cardinality(units) = Cardinality(rest) + Cardinality(mine) - Cardinality({})
  <2> HIDE DEF units, rest, mine
  <2> QED
    BY <1>2, <1>3, <1>4, FS_Union
<1> HIDE DEF units, rest, mine
<1>8. Cardinality(rest) \in Nat /\ Amount(f, top) = Cardinality(rest) + f[x]
  BY <1>1, <1>2, <1>5, <1>6, <1>7, FS_EmptySet
<1> QED
  BY <1>8 DEF rest

LEMMA AmountTyped ==
  ASSUME NEW S, IsFiniteSet(S), NEW top \in Nat, NEW f \in [S -> 0..top]
  PROVE  Amount(f, top) \in Nat
<1> DEFINE units == {u \in S \X (1..top) : u[2] <= f[u[1]]}
<1>1. IsFiniteSet(S \X (1..top))
  <2>1. IsFiniteSet(1..top)
    BY FS_Interval
  <2> QED
    BY <2>1, FS_Product
<1>2. IsFiniteSet(units)
  <2>1. units \in SUBSET (S \X (1..top))
    OBVIOUS
  <2> HIDE DEF units
  <2> QED
    BY <1>1, <2>1, FS_Subset
<1>3. Amount(f, top) = Cardinality(units)
  BY DEF Amount
<1> HIDE DEF units
<1> QED
  BY <1>2, <1>3, FS_CardinalityType

\* A sum moves by what one summand moves.
LEMMA AmountMoves ==
  ASSUME NEW S, IsFiniteSet(S), NEW top \in Nat, NEW f \in [S -> 0..top], NEW g \in [S -> 0..top],
         NEW x \in S, \A y \in S \ {x} : g[y] = f[y]
  PROVE  /\ Amount(f, top) \in Nat /\ Amount(g, top) \in Nat
         /\ Amount(g, top) = Amount(f, top) + g[x] - f[x]
<1>1. Others(g, top, x) = Others(f, top, x)
  BY DEF Others
<1>2. Cardinality(Others(f, top, x)) \in Nat /\ Amount(f, top) = Cardinality(Others(f, top, x)) + f[x]
  BY AmountSplit
<1>3. Amount(g, top) = Cardinality(Others(g, top, x)) + g[x]
  BY AmountSplit
<1>4. f[x] \in Nat /\ g[x] \in Nat
  OBVIOUS
<1> QED
  BY <1>1, <1>2, <1>3, <1>4

\* No summand is more than the sum, and a sum of more is no less.
LEMMA AmountCovers ==
  ASSUME NEW S, IsFiniteSet(S), NEW top \in Nat, NEW f \in [S -> 0..top], NEW x \in S
  PROVE  f[x] <= Amount(f, top)
<1>1. f[x] \in Nat
  OBVIOUS
<1> QED
  BY <1>1, AmountSplit

LEMMA AmountLess ==
  ASSUME NEW S, IsFiniteSet(S), NEW top \in Nat, NEW f \in [S -> 0..top], NEW g \in [S -> 0..top],
         \A y \in S : f[y] <= g[y]
  PROVE  Amount(f, top) <= Amount(g, top)
<1> DEFINE less == {u \in S \X (1..top) : u[2] <= f[u[1]]}
           more == {u \in S \X (1..top) : u[2] <= g[u[1]]}
<1>1. IsFiniteSet(S \X (1..top))
  <2>1. IsFiniteSet(1..top)
    BY FS_Interval
  <2> QED
    BY <2>1, FS_Product
<1>2. less \subseteq more
  <2>1. ASSUME NEW y \in S, NEW n \in 1..top, n <= f[y]
        PROVE  n <= g[y]
    <3>1. f[y] \in 0..top /\ g[y] \in 0..top
      OBVIOUS
    <3> QED
      BY <2>1, <3>1
  <2> QED
    BY <2>1
<1>3. IsFiniteSet(more)
  <2>1. more \in SUBSET (S \X (1..top))
    OBVIOUS
  <2> HIDE DEF more
  <2> QED
    BY <1>1, <2>1, FS_Subset
<1>4. Amount(f, top) = Cardinality(less) /\ Amount(g, top) = Cardinality(more)
  BY DEF Amount
<1> HIDE DEF less, more
<1> QED
  BY <1>2, <1>3, <1>4, FS_Subset

\* The sum of nothing.
LEMMA AmountNone ==
  ASSUME NEW S, NEW top \in Nat, NEW f \in [S -> 0..top], \A y \in S : f[y] = 0
  PROVE  Amount(f, top) = 0
<1>1. {u \in (DOMAIN f) \X (1..top) : u[2] <= f[u[1]]} = {}
  <2>1. ASSUME NEW y \in S, NEW n \in 1..top
        PROVE  ~(n <= f[y])
    BY <2>1
  <2> QED
    BY <2>1
<1> QED
  BY <1>1, FS_EmptySet DEF Amount

LEMMA MoreTurns ==
  ASSUME NEW m \in Nat, NEW x \in Int, NEW y \in Int, NEW k \in {-1, 0, 1}, y >= x + k
  PROVE  /\ m * x \in Int /\ m * y \in Int /\ m * y >= m * x + k * m
         /\ k * m = (IF k = 1 THEN m ELSE IF k = 0 THEN 0 ELSE -m)
<1>1. PICK d \in Nat : y = x + k + d
  <2>1. y - x - k \in Nat
    OBVIOUS
  <2>2. y = x + k + (y - x - k)
    OBVIOUS
  <2> QED
    BY <2>1, <2>2
<1>2. m * d >= 0 /\ m * d \in Int
  OBVIOUS
<1>3. m * y = m * x + m * k + m * d
  BY <1>1
<1> QED
  BY <1>2, <1>3

-----------------------------------------------------------------------------
(* Types                                                                   *)

LEMMA SpendingNumbers ==
  ASSUME SpendingTypeOK
  PROVE  /\ MaxCost \in Nat \ {0} /\ MaxRuns \in Nat /\ Limit \in Nat \ {0}
         /\ IsFiniteSet(Host) /\ IsFiniteSet(Bill)
         /\ spent \in Nat /\ beside \in Nat /\ counter \in Int /\ (counter # -1 => counter \in Nat)
         /\ ledger \in [Bill -> 0..MaxCost] /\ runs \in [Bill -> 0..MaxRuns]
         /\ cost \in [Host -> 0..MaxCost]
BY SpendingAssumption DEF SpendingTypeOK

\* The turn of one process and its message.
PurseTyped(h) ==
  /\ purse[h] \in {"idle", "get", "sum", "set", "run", "insert", "incr", "expire"}
  /\ bill[h] \in Bill \cup {"none"}
  /\ bill[h] = "none" <=> purse[h] = "idle"
  /\ sum[h] \in Nat /\ cost[h] \in 0..MaxCost
  /\ cost[h] > 0 <=> purse[h] \in {"insert", "incr", "expire"}

\* Only the turn of h has moved.
Alone(h) ==
  /\ purse' \in [Host -> {"idle", "get", "sum", "set", "run", "insert", "incr", "expire"}]
  /\ bill' \in [Host -> Bill \cup {"none"}]
  /\ sum' \in [Host -> Nat] /\ cost' \in [Host -> 0..MaxCost]
  /\ \A g \in Host \ {h} : purse'[g] = purse[g] /\ bill'[g] = bill[g] /\ cost'[g] = cost[g]
  /\ PurseTyped(h)'

LEMMA MovesTyped ==
  ASSUME SpendingTypeOK, NEW h \in Host, Alone(h),
         ledger' \in [Bill -> 0..MaxCost], counter' \in Nat \cup {-1},
         runs' \in [Bill -> 0..MaxRuns], spent' \in Nat, beside' \in Nat
  PROVE  SpendingTypeOK'
<1>1. ASSUME NEW g \in Host
      PROVE  /\ bill'[g] = "none" <=> purse'[g] = "idle"
             /\ cost'[g] > 0 <=> purse'[g] \in {"insert", "incr", "expire"}
  BY DEF SpendingTypeOK, Alone, PurseTyped
<1> QED
  BY <1>1 DEF SpendingTypeOK, Alone

LEMMA EndAlone ==
  ASSUME SpendingTypeOK, NEW h \in Host, EndTurn(h)
  PROVE  Alone(h) /\ purse'[h] = "idle" /\ bill'[h] = "none" /\ cost'[h] = 0
<1>1. 0 \in 0..MaxCost /\ 0 \in Nat
  BY SpendingNumbers
<1>2. /\ purse' = [purse EXCEPT ![h] = "idle"] /\ bill' = [bill EXCEPT ![h] = "none"]
      /\ sum' = [sum EXCEPT ![h] = 0] /\ cost' = [cost EXCEPT ![h] = 0]
  BY DEF EndTurn
<1>3. ~(0 > 0)
  OBVIOUS
<1> QED
  BY <1>1, <1>2, <1>3 DEF SpendingTypeOK, Alone, PurseTyped

LEMMA AtAlone ==
  ASSUME SpendingTypeOK, NEW h \in Host, purse[h] # "idle",
         NEW where \in {"sum", "set", "run", "insert", "incr", "expire"}, PurseAt(h, where),
         cost[h] > 0 <=> where \in {"insert", "incr", "expire"}
  PROVE  Alone(h) /\ purse'[h] = where /\ bill'[h] = bill[h] /\ cost'[h] = cost[h]
BY DEF SpendingTypeOK, Alone, PurseTyped, PurseAt

\* A turn that is under way has a message, and a price once the model was called.
LEMMA Underway ==
  ASSUME SpendingTypeOK, NEW h \in Host, purse[h] # "idle"
  PROVE  /\ bill[h] \in Bill /\ ledger[bill[h]] \in 0..MaxCost
         /\ purse[h] \in {"insert", "incr", "expire"} => cost[h] \in 1..MaxCost
         /\ purse[h] \in {"get", "sum", "set", "run"} => cost[h] = 0
<1>1. MaxCost \in Nat /\ cost[h] \in 0..MaxCost
  BY SpendingNumbers
<1>2. cost[h] > 0 <=> purse[h] \in {"insert", "incr", "expire"}
  BY DEF SpendingTypeOK
<1>3. bill[h] \in Bill /\ ledger[bill[h]] \in 0..MaxCost
  BY DEF SpendingTypeOK
<1> QED
  BY <1>1, <1>2, <1>3

-----------------------------------------------------------------------------
(* What a step moves                                                       *)

LEMMA SlackTyped ==
  ASSUME SpendingTypeOK
  PROVE  /\ Slack \in [Host -> 0..MaxCost] /\ Passed \in [Host -> 0..MaxCost]
         /\ Amount(Slack, MaxCost) \in Nat /\ Amount(Passed, MaxCost) \in Nat
<1>1. IsFiniteSet(Host) /\ MaxCost \in Nat
  BY SpendingNumbers
<1>2. ASSUME NEW h \in Host
      PROVE  MaxCost \in 0..MaxCost /\ 0 \in 0..MaxCost /\ MaxCost - cost[h] \in 0..MaxCost
  <2>1. cost[h] \in 0..MaxCost
    BY SpendingNumbers
  <2> QED
    BY <1>1, <2>1
<1>3. Slack \in [Host -> 0..MaxCost]
  BY <1>2 DEF Slack
<1>4. Passed \in [Host -> 0..MaxCost]
  BY <1>2 DEF Passed
<1> QED
  BY <1>1, <1>3, <1>4, AmountTyped

LEMMA SlackTypedNext ==
  ASSUME SpendingTypeOK'
  PROVE  /\ Slack' \in [Host -> 0..MaxCost] /\ Passed' \in [Host -> 0..MaxCost]
         /\ Amount(Slack', MaxCost) \in Nat /\ Amount(Passed', MaxCost) \in Nat
<1>1. IsFiniteSet(Host) /\ MaxCost \in Nat
  BY SpendingAssumption
<1>2. ASSUME NEW h \in Host
      PROVE  MaxCost \in 0..MaxCost /\ 0 \in 0..MaxCost /\ MaxCost - cost'[h] \in 0..MaxCost
  <2>1. cost'[h] \in 0..MaxCost
    BY DEF SpendingTypeOK
  <2> QED
    BY <1>1, <2>1
<1>3. Slack' \in [Host -> 0..MaxCost]
  BY <1>2 DEF Slack
<1>4. Passed' \in [Host -> 0..MaxCost]
  BY <1>2 DEF Passed
<1> QED
  BY <1>1, <1>3, <1>4, AmountTyped

LEMMA SlackMoves ==
  ASSUME SpendingTypeOK, SpendingTypeOK', NEW h \in Host, Alone(h)
  PROVE  /\ Slack[h] \in 0..MaxCost /\ Slack'[h] \in 0..MaxCost
         /\ Passed[h] \in 0..MaxCost /\ Passed'[h] \in 0..MaxCost
         /\ Amount(Slack', MaxCost) = Amount(Slack, MaxCost) + Slack'[h] - Slack[h]
         /\ Amount(Passed', MaxCost) = Amount(Passed, MaxCost) + Passed'[h] - Passed[h]
<1>1. \A g \in Host \ {h} : Slack'[g] = Slack[g] /\ Passed'[g] = Passed[g]
  BY DEF Slack, Passed, Alone
<1>2. IsFiniteSet(Host) /\ MaxCost \in Nat
  BY SpendingNumbers
<1>3. /\ Slack \in [Host -> 0..MaxCost] /\ Passed \in [Host -> 0..MaxCost]
      /\ Slack' \in [Host -> 0..MaxCost] /\ Passed' \in [Host -> 0..MaxCost]
  BY SlackTyped, SlackTypedNext
<1>4. Amount(Slack', MaxCost) = Amount(Slack, MaxCost) + Slack'[h] - Slack[h]
  BY <1>1, <1>2, <1>3, AmountMoves
<1>5. Amount(Passed', MaxCost) = Amount(Passed, MaxCost) + Passed'[h] - Passed[h]
  BY <1>1, <1>2, <1>3, AmountMoves
<1> QED
  BY <1>3, <1>4, <1>5

\* A turn that is past the gate may spend what it might have spent before.
LEMMA PassedIsSlack ==
  ASSUME SpendingTypeOK'
  PROVE  Amount(Passed', MaxCost) <= Amount(Slack', MaxCost)
<1>1. IsFiniteSet(Host) /\ MaxCost \in Nat
  BY SpendingAssumption
<1>2. Slack' \in [Host -> 0..MaxCost] /\ Passed' \in [Host -> 0..MaxCost]
  BY SlackTypedNext
<1>3. ASSUME NEW g \in Host
      PROVE  Passed'[g] <= Slack'[g]
  <2>1. CASE purse'[g] = "run"
    <3>1. Passed'[g] = MaxCost /\ Slack'[g] = MaxCost
      BY <2>1 DEF Passed, Slack
    <3> QED
      BY <1>1, <3>1
  <2>2. CASE purse'[g] # "run"
    <3>1. Passed'[g] = 0 /\ Slack'[g] \in 0..MaxCost
      BY <1>2, <2>2 DEF Passed
    <3> QED
      BY <1>1, <3>1
  <2> QED
    BY <2>1, <2>2
<1> QED
  BY <1>1, <1>2, <1>3, AmountLess

LEMMA Counts ==
  ASSUME SpendingTypeOK
  PROVE  /\ IsFiniteSet(Unentered) /\ IsFiniteSet(Rowless)
         /\ Cardinality(Unentered) \in Nat /\ Cardinality(Rowless) \in Nat
         /\ Again \in Nat
         /\ \A places : One(places) \in {0, 1}
<1>1. IsFiniteSet(Host) /\ IsFiniteSet(Bill) /\ MaxRuns \in Nat /\ runs \in [Bill -> 0..MaxRuns]
  BY SpendingNumbers
<1>2. IsFiniteSet(Unentered) /\ IsFiniteSet(Rowless)
  BY <1>1, FS_Subset DEF Unentered, Rowless
<1>3. Again \in Nat
  <2> DEFINE f == [b \in Bill |-> IF runs[b] = 0 THEN 0 ELSE runs[b] - 1]
  <2>1. f \in [Bill -> 0..MaxRuns]
    BY <1>1
  <2> HIDE DEF f
  <2>2. Amount(f, MaxRuns) \in Nat
    BY <1>1, <2>1, AmountTyped
  <2> QED
    BY <2>2 DEF f, Again
<1> QED
  BY <1>2, <1>3, FS_CardinalityType DEF One

LEMMA CountsNext ==
  ASSUME SpendingTypeOK'
  PROVE  /\ IsFiniteSet(Unentered') /\ IsFiniteSet(Rowless')
         /\ Cardinality(Unentered') \in Nat /\ Cardinality(Rowless') \in Nat
         /\ Again' \in Nat
         /\ One(Active)' \in {0, 1} /\ One(Active \cup {"expire"})' \in {0, 1}
<1>1. IsFiniteSet(Host) /\ IsFiniteSet(Bill) /\ MaxRuns \in Nat /\ runs' \in [Bill -> 0..MaxRuns]
  BY SpendingAssumption DEF SpendingTypeOK
<1>2. IsFiniteSet(Unentered') /\ IsFiniteSet(Rowless')
  BY <1>1, FS_Subset DEF Unentered, Rowless
<1>3. Again' \in Nat
  <2> DEFINE f == [b \in Bill |-> IF runs'[b] = 0 THEN 0 ELSE runs'[b] - 1]
  <2>1. f \in [Bill -> 0..MaxRuns]
    BY <1>1
  <2> HIDE DEF f
  <2>2. Amount(f, MaxRuns) \in Nat
    BY <1>1, <2>1, AmountTyped
  <2> QED
    BY <2>2 DEF f, Again
<1> QED
  BY <1>2, <1>3, FS_CardinalityType DEF One

\* No more messages await their row than turns have entered nothing.
LEMMA RowlessArePending ==
  ASSUME SpendingTypeOK
  PROVE  Cardinality(Rowless) <= Cardinality(Unentered)
<1> DEFINE f == [b \in Rowless |-> CHOOSE h \in Unentered : bill[h] = b]
<1>1. \A b \in Rowless : f[b] \in Unentered /\ bill[f[b]] = b
  BY DEF Rowless
<1>2. f \in Injection(Rowless, Unentered)
  <2>1. f \in [Rowless -> Unentered]
    BY <1>1
  <2>2. \A a, b \in Rowless : f[a] = f[b] => a = b
    BY <1>1
  <2> HIDE DEF f
  <2> QED
    BY <2>1, <2>2 DEF Injection, IsInjective
<1> HIDE DEF f
<1> QED
  BY <1>2, Counts, FS_Injection

LEMMA PendingMoves ==
  ASSUME SpendingTypeOK, SpendingTypeOK', NEW h \in Host, Alone(h)
  PROVE  Cardinality(Unentered') = Cardinality(Unentered)
           + (IF purse'[h] \in Gated THEN 1 ELSE 0) - (IF purse[h] \in Gated THEN 1 ELSE 0)
<1>1. Unentered' \ {h} = Unentered \ {h}
  BY DEF Unentered, Alone
<1>2. /\ h \in Unentered <=> purse[h] \in Gated
      /\ h \in Unentered' <=> purse'[h] \in Gated
  BY DEF Unentered
<1>3. /\ IsFiniteSet(Unentered) /\ IsFiniteSet(Unentered')
      /\ Cardinality(Unentered) \in Nat /\ Cardinality(Unentered') \in Nat
  BY Counts, CountsNext
<1>4. Cardinality(Unentered \ {h}) = IF h \in Unentered THEN Cardinality(Unentered) - 1 ELSE Cardinality(Unentered)
  BY <1>3, FS_RemoveElement
<1>5. Cardinality(Unentered' \ {h}) = IF h \in Unentered' THEN Cardinality(Unentered') - 1 ELSE Cardinality(Unentered')
  BY <1>3, FS_RemoveElement
<1>6. (IF h \in Unentered THEN Cardinality(Unentered) - 1 ELSE Cardinality(Unentered))
        = IF h \in Unentered' THEN Cardinality(Unentered') - 1 ELSE Cardinality(Unentered')
  BY <1>1, <1>4, <1>5
<1> QED
  BY <1>2, <1>3, <1>6

\* When a turn leaves off or has entered its row, its message at most awaits none.
LEMMA RowlessLeaves ==
  ASSUME SpendingTypeOK, SpendingTypeOK', NEW h \in Host, Alone(h),
         purse'[h] \notin Gated, \A c \in Bill \ {bill[h]} : ledger'[c] = ledger[c]
  PROVE  /\ Cardinality(Rowless') >= Cardinality(Rowless) - 1
         /\ bill[h] \notin Rowless => Cardinality(Rowless') >= Cardinality(Rowless)
<1>1. Rowless \ {bill[h]} \subseteq Rowless'
  <2>1. ASSUME NEW c \in Rowless \ {bill[h]}
        PROVE  c \in Rowless'
    <3>1. PICK g \in Unentered : bill[g] = c
      BY DEF Rowless
    <3>2. g # h /\ g \in Host
      BY <2>1, <3>1 DEF Unentered
    <3>3. purse'[g] = purse[g] /\ bill'[g] = bill[g]
      BY <3>2 DEF Alone
    <3>4. g \in Unentered' /\ bill'[g] = c
      BY <3>1, <3>2, <3>3 DEF Unentered
    <3>5. c \in Bill /\ ledger'[c] = 0
      BY <2>1 DEF Rowless
    <3> QED
      BY <3>4, <3>5 DEF Rowless
  <2> QED
    BY <2>1
<1>2. /\ IsFiniteSet(Rowless) /\ IsFiniteSet(Rowless')
      /\ Cardinality(Rowless) \in Nat /\ Cardinality(Rowless') \in Nat
  BY Counts, CountsNext
<1>3. Cardinality(Rowless \ {bill[h]})
        = IF bill[h] \in Rowless THEN Cardinality(Rowless) - 1 ELSE Cardinality(Rowless)
  BY <1>2, FS_RemoveElement
<1>4. Cardinality(Rowless \ {bill[h]}) <= Cardinality(Rowless')
  BY <1>1, <1>2, FS_Subset
<1> QED
  BY <1>2, <1>3, <1>4

\* Nothing that awaits a row has changed.
LEMMA RowlessStays ==
  ASSUME SpendingTypeOK, SpendingTypeOK', NEW h \in Host, Alone(h), ledger' = ledger,
         purse'[h] \in Gated <=> purse[h] \in Gated,
         purse'[h] \in Gated => bill'[h] = bill[h]
  PROVE  Cardinality(Unentered') = Cardinality(Unentered) /\ Rowless' = Rowless
<1>1. Unentered' = Unentered
  BY DEF Unentered, Alone
<1>2. \A g \in Unentered : bill'[g] = bill[g]
  <2>1. ASSUME NEW g \in Unentered
        PROVE  bill'[g] = bill[g]
    <3>1. CASE g = h
      BY <2>1, <3>1 DEF Unentered
    <3>2. CASE g # h
      BY <2>1, <3>2 DEF Unentered, Alone
    <3> QED
      BY <3>1, <3>2
  <2> QED
    BY <2>1
<1> QED
  BY <1>1, <1>2 DEF Rowless

\* A turn counts for one as long as there is any.
LEMMA OneMoves ==
  ASSUME NEW h \in Host, Alone(h)
  PROVE  /\ purse[h] \in Active => One(Active) = 1
         /\ purse'[h] \in Active => One(Active)' = 1
         /\ purse[h] \notin Active /\ purse'[h] \notin Active => One(Active)' = One(Active)
         /\ purse[h] \in Active \cup {"expire"} => One(Active \cup {"expire"}) = 1
         /\ purse'[h] \in Active \cup {"expire"} => One(Active \cup {"expire"})' = 1
BY DEF One, Alone

\* Past the gate a turn is not the one that sums up: another one is.
LEMMA SummingStays ==
  ASSUME NEW h \in Host, Alone(h), Absent, purse[h] \in {"run", "insert", "incr", "expire"},
         purse'[h] \notin {"sum", "set"}, counter' # -1
  PROVE  /\ counter # -1
         /\ Summing' <=> Summing
         /\ Summing => One(Active \cup {"expire"})' = 1
<1>1. counter # -1
  BY DEF Absent
<1>2. purse[h] \notin {"sum", "set"}
  OBVIOUS
<1>3. \A g \in Host : g # h => purse'[g] = purse[g]
  BY DEF Alone
<1>4. Summing' <=> Summing
  BY <1>1, <1>2, <1>3 DEF Summing
<1>5. ASSUME Summing
      PROVE  One(Active \cup {"expire"})' = 1
  <2>1. PICK g \in Host : purse'[g] \in {"sum", "set"}
    BY <1>4, <1>5 DEF Summing
  <2>2. purse'[g] \in Active \cup {"expire"}
    BY <2>1 DEF Active
  <2> QED
    BY <2>2 DEF One
<1> QED
  BY <1>1, <1>4, <1>5

-----------------------------------------------------------------------------
(* The account                                                             *)

\* So many turns' worth.
Worth(k) == IF k = 1 THEN MaxCost ELSE IF k = 0 THEN 0 ELSE -MaxCost

Outlasts(a, b, c, d, x, y, k) ==
  /\ MaxCost \in Nat /\ x \in Int /\ y \in Int /\ k \in {-1, 0, 1}
  /\ a \in Int /\ b \in Int /\ c \in Int /\ d \in Int
  /\ a <= c + MaxCost * x /\ b - d <= a - c + Worth(k) /\ y >= x + k

LEMMA Outlast ==
  ASSUME NEW x, NEW y, NEW k, NEW a, NEW b, NEW c, NEW d, Outlasts(a, b, c, d, x, y, k)
  PROVE  b <= d + MaxCost * y
<1>0. /\ MaxCost \in Nat /\ x \in Int /\ y \in Int /\ k \in {-1, 0, 1}
      /\ a \in Int /\ b \in Int /\ c \in Int /\ d \in Int
      /\ a <= c + MaxCost * x /\ b - d <= a - c + Worth(k) /\ y >= x + k
  BY DEF Outlasts
<1>1. /\ MaxCost * x \in Int /\ MaxCost * y \in Int
      /\ MaxCost * y >= MaxCost * x + k * MaxCost /\ k * MaxCost = Worth(k)
  BY <1>0, MoreTurns DEF Worth
<1>2. Worth(k) \in Int
  BY <1>0 DEF Worth
<1> QED
  BY <1>0, <1>1, <1>2

LEMMA Figures ==
  ASSUME SpendingTypeOK, SpendingTypeOK'
  PROVE  /\ MaxCost \in Nat /\ MaxCost > 0 /\ Limit \in Nat /\ Limit > 0
         /\ spent \in Nat /\ spent' \in Nat /\ beside \in Nat /\ beside' \in Nat
         /\ counter \in Int /\ counter' \in Int /\ counter >= -1 /\ counter' >= -1
         /\ Again \in Nat /\ Again' \in Nat
         /\ Cardinality(Unentered) \in Nat /\ Cardinality(Unentered') \in Nat
         /\ Cardinality(Rowless) \in Nat /\ Cardinality(Rowless') \in Nat
         /\ One(Active) \in {0, 1} /\ One(Active)' \in {0, 1}
         /\ One(Active \cup {"expire"}) \in {0, 1} /\ One(Active \cup {"expire"})' \in {0, 1}
         /\ Amount(Slack, MaxCost) \in Nat /\ Amount(Slack', MaxCost) \in Nat
         /\ Amount(Passed, MaxCost) \in Nat /\ Amount(Passed', MaxCost) \in Nat
         /\ Credit \in Int /\ Credit' \in Int
<1>1. /\ MaxCost \in Nat /\ MaxCost > 0 /\ Limit \in Nat /\ Limit > 0
      /\ spent \in Nat /\ spent' \in Nat /\ beside \in Nat /\ beside' \in Nat
      /\ counter \in Int /\ counter' \in Int /\ counter >= -1 /\ counter' >= -1
  BY SpendingAssumption DEF SpendingTypeOK
<1>2. /\ Again \in Nat /\ Again' \in Nat
      /\ Cardinality(Unentered) \in Nat /\ Cardinality(Unentered') \in Nat
      /\ Cardinality(Rowless) \in Nat /\ Cardinality(Rowless') \in Nat
      /\ One(Active) \in {0, 1} /\ One(Active)' \in {0, 1}
      /\ One(Active \cup {"expire"}) \in {0, 1} /\ One(Active \cup {"expire"})' \in {0, 1}
  BY Counts, CountsNext
<1>3. Credit \in Int /\ Credit' \in Int
  BY <1>1, <1>2 DEF Credit
<1> QED
  BY <1>1, <1>2, <1>3, SlackTyped, SlackTypedNext

(* CarriedOn: a step that spends no more than it adds to what the room may  *)
(* spend keeps the account, summed up or not.                               *)
LEMMA CarriedOn ==
  ASSUME SpendingTypeOK, SpendingTypeOK', Unsummed, Summed, Summing' <=> Summing,
         NEW j \in {-1, 0, 1}, NEW k \in {-1, 0, 1},
         Summing =>
           /\ Amount(Slack', MaxCost) + spent' <= Amount(Slack, MaxCost) + spent + Worth(j)
           /\ One(Active \cup {"expire"})' + beside' >= One(Active \cup {"expire"}) + beside + j,
         ~Summing =>
           /\ Amount(Passed', MaxCost) + spent' <= Amount(Passed, MaxCost) + spent
           /\ beside' + Again' >= beside + Again
           /\ Amount(Slack', MaxCost) + spent' - counter' <= Amount(Slack, MaxCost) + spent - counter + Worth(k)
           /\ Credit' >= Credit + k
  PROVE  Unsummed' /\ Summed'
<1>1. Unsummed'
  <2>1. ASSUME Summing
        PROVE  Amount(Slack', MaxCost) + spent' <= MaxCost * (One(Active \cup {"expire"})' + beside')
    <3> DEFINE a == Amount(Slack, MaxCost) + spent
               b == Amount(Slack', MaxCost) + spent'
               x == One(Active \cup {"expire"}) + beside
               y == One(Active \cup {"expire"})' + beside'
    <3>1. MaxCost \in Nat /\ a \in Int /\ b \in Int /\ x \in Int /\ y \in Int
      BY Figures
    <3>2. a <= MaxCost * x
      BY <2>1 DEF Unsummed
    <3>3. b <= a + Worth(j) /\ y >= x + j
      BY <2>1
    <3> HIDE DEF a, b, x, y
    <3>4. Worth(j) \in Int /\ MaxCost * x \in Int /\ MaxCost * y \in Int
      BY <3>1 DEF Worth
    <3>5. PICK c \in Int : c = 0
      OBVIOUS
    <3>6. a <= c + MaxCost * x /\ b - c <= a - c + Worth(j)
      BY <3>1, <3>2, <3>3, <3>4, <3>5
    <3>a. Outlasts(a, b, c, c, x, y, j)
      BY <3>1, <3>3, <3>5, <3>6 DEF Outlasts
    <3>7. b <= c + MaxCost * y
      BY <3>a, Outlast
    <3>8. b <= MaxCost * y
      BY <3>1, <3>4, <3>5, <3>7
    <3> QED
      BY <3>8 DEF b, y
  <2> QED
    BY <2>1 DEF Unsummed
<1>2. Summed'
  <2>1. ASSUME ~Summing
        PROVE  Amount(Passed', MaxCost) + spent' <= Limit - 1 + MaxCost * (1 + beside' + Again')
    <3> DEFINE a == Amount(Passed, MaxCost) + spent
               b == Amount(Passed', MaxCost) + spent'
               x == 1 + beside + Again
               y == 1 + beside' + Again'
    <3>1. /\ MaxCost \in Nat /\ a \in Int /\ b \in Int /\ x \in Int /\ y \in Int /\ Limit - 1 \in Int
      BY Figures
    <3>2. a <= Limit - 1 + MaxCost * x
      BY <2>1 DEF Summed
    <3>3. b <= a /\ y >= x
      BY <2>1, Figures
    <3> HIDE DEF a, b, x, y
    <3>4. PICK c \in Int : c = Limit - 1
      BY <3>1
    <3>5. PICK i \in {-1, 0, 1} : i = 0
      OBVIOUS
    <3>6. a <= c + MaxCost * x /\ b - c <= a - c + Worth(i) /\ y >= x + i
      BY <3>1, <3>2, <3>3, <3>4, <3>5 DEF Worth
    <3>a. Outlasts(a, b, c, c, x, y, i)
      BY <3>1, <3>4, <3>5, <3>6 DEF Outlasts
    <3>7. b <= c + MaxCost * y
      BY <3>a, Outlast
    <3>8. b <= Limit - 1 + MaxCost * y
      BY <3>4, <3>7
    <3> QED
      BY <3>8 DEF b, y
  <2>2. ASSUME ~Summing
        PROVE  Amount(Slack', MaxCost) + spent' <= counter' + MaxCost * Credit'
    <3> DEFINE a == Amount(Slack, MaxCost) + spent
               b == Amount(Slack', MaxCost) + spent'
    <3>1. /\ MaxCost \in Nat /\ a \in Int /\ b \in Int /\ Credit \in Int /\ Credit' \in Int
          /\ counter \in Int /\ counter' \in Int
      BY Figures
    <3>2. a <= counter + MaxCost * Credit
      BY <2>2 DEF Summed
    <3>0. /\ Amount(Slack', MaxCost) + spent' - counter' <= Amount(Slack, MaxCost) + spent - counter + Worth(k)
          /\ Credit' >= Credit + k
      BY <2>2
    <3>3. b - counter' <= a - counter + Worth(k) /\ Credit' >= Credit + k
      <4>1. Worth(k) \in Int
        BY <3>1 DEF Worth
      <4> QED
        BY <3>0, <4>1, Figures
    <3> HIDE DEF a, b
    <3>5. Outlasts(a, b, counter, counter', Credit, Credit', k)
      BY <3>1, <3>2, <3>3, Figures DEF Outlasts
    <3>4. b <= counter' + MaxCost * Credit'
      BY <3>5, Outlast
    <3> QED
      BY <3>4 DEF b
  <2> QED
    BY <2>1, <2>2 DEF Summed
<1> QED
  BY <1>1, <1>2

LEMMA BeginAlone ==
  ASSUME SpendingTypeOK, NEW h \in Host, NEW b \in Bill, BeginTurn(h, b)
  PROVE  /\ Alone(h) /\ purse[h] = "idle" /\ purse'[h] = "get" /\ bill'[h] = b /\ cost'[h] = cost[h]
         /\ cost[h] = 0
<1>1. /\ purse' = [purse EXCEPT ![h] = "get"] /\ bill' = [bill EXCEPT ![h] = b]
      /\ sum' = sum /\ cost' = cost /\ purse[h] = "idle"
  BY DEF BeginTurn
<1>2. b # "none"
  BY SpendingAssumption
<1>3. cost[h] \in 0..MaxCost /\ ~(cost[h] > 0) /\ MaxCost \in Nat
  BY <1>1, SpendingNumbers DEF SpendingTypeOK
<1>4. cost[h] = 0
  BY <1>3
<1> QED
  BY <1>1, <1>2, <1>3, <1>4 DEF SpendingTypeOK, Alone, PurseTyped

\* A redelivery is counted as one, and a first delivery waits for its row.
LEMMA BeginCounts ==
  ASSUME SpendingTypeOK, SpendingTypeOK', Delivered, NEW h \in Host, NEW b \in Bill, BeginTurn(h, b)
  PROVE  /\ Again' >= Again
         /\ Again' + Cardinality(Rowless') >= Again + Cardinality(Rowless) + 1
         /\ Cardinality(Unentered') = Cardinality(Unentered) + 1
<1> DEFINE f == [c \in Bill |-> IF runs[c] = 0 THEN 0 ELSE runs[c] - 1]
           g == [c \in Bill |-> IF runs'[c] = 0 THEN 0 ELSE runs'[c] - 1]
<1>1. Alone(h) /\ purse[h] = "idle" /\ purse'[h] = "get" /\ bill'[h] = b
  BY BeginAlone
<1>2. ledger' = ledger /\ runs' = [runs EXCEPT ![b] = @ + 1]
  BY DEF BeginTurn
<1>3. /\ IsFiniteSet(Bill) /\ MaxRuns \in Nat /\ runs \in [Bill -> 0..MaxRuns]
      /\ runs' \in [Bill -> 0..MaxRuns]
  BY SpendingNumbers DEF SpendingTypeOK
<1>4. f \in [Bill -> 0..MaxRuns] /\ g \in [Bill -> 0..MaxRuns]
  BY <1>3
<1>5. \A c \in Bill \ {b} : g[c] = f[c]
  BY <1>2, <1>3
<1>6. /\ f[b] = (IF runs[b] = 0 THEN 0 ELSE runs[b] - 1) /\ g[b] = runs[b]
      /\ runs[b] \in Nat
  <2>1. runs'[b] = runs[b] + 1 /\ runs[b] \in Nat
    BY <1>2, <1>3
  <2> QED
    BY <2>1
<1>7. Again = Amount(f, MaxRuns) /\ Again' = Amount(g, MaxRuns)
  BY DEF Again
<1> HIDE DEF f, g
<1>8. Again' = Again + g[b] - f[b]
  BY <1>3, <1>4, <1>5, <1>7, AmountMoves
<1>9. Cardinality(Unentered') = Cardinality(Unentered) + 1
  <2>1. purse'[h] \in Gated /\ purse[h] \notin Gated
    BY <1>1 DEF Gated, Active
  <2>2. Cardinality(Unentered') = Cardinality(Unentered) + 1 - 0
    BY <1>1, <2>1, PendingMoves
  <2> QED
    BY <2>2, Figures
<1>10. Rowless \subseteq Rowless'
  <2>1. ASSUME NEW c \in Rowless
        PROVE  c \in Rowless'
    <3>1. PICK e \in Unentered : bill[e] = c
      BY DEF Rowless
    <3>2. e # h /\ e \in Host
      BY <1>1, <3>1 DEF Unentered, Gated, Active
    <3>3. purse'[e] = purse[e] /\ bill'[e] = bill[e]
      BY <1>1, <3>2 DEF Alone
    <3>4. e \in Unentered' /\ bill'[e] = c
      BY <3>1, <3>2, <3>3 DEF Unentered
    <3> QED
      BY <1>2, <3>4 DEF Rowless
  <2> QED
    BY <2>1
<1>11. /\ IsFiniteSet(Rowless) /\ IsFiniteSet(Rowless')
       /\ Cardinality(Rowless) \in Nat /\ Cardinality(Rowless') \in Nat
  BY Counts, CountsNext
<1>12. CASE runs[b] # 0
  <2>1. Again' = Again + 1
    BY <1>6, <1>8, <1>12, Figures
  <2>2. Cardinality(Rowless') >= Cardinality(Rowless)
    BY <1>10, <1>11, FS_Subset
  <2> QED
    BY <1>9, <1>11, <2>1, <2>2, Figures
<1>13. CASE runs[b] = 0
  <2>1. Again' = Again
    BY <1>6, <1>8, <1>13, Figures
  <2>2. ledger[b] = 0 /\ \A e \in Host : bill[e] # b
    <3>1. ~(runs[b] > 0)
      BY <1>13
    <3> QED
      BY <3>1 DEF Delivered
  <2>3. b \notin Rowless
    BY <2>2 DEF Rowless, Unentered
  <2>4. b \in Rowless'
    <3>1. h \in Unentered'
      BY <1>1 DEF Unentered, Gated, Active
    <3> QED
      BY <1>1, <1>2, <2>2, <3>1 DEF Rowless
  <2>5. IsFiniteSet(Rowless \cup {b}) /\ Cardinality(Rowless \cup {b}) = Cardinality(Rowless) + 1
    BY <1>11, <2>3, FS_AddElement
  <2>6. Rowless \cup {b} \in SUBSET Rowless'
    BY <1>10, <2>4
  <2>7. Cardinality(Rowless \cup {b}) <= Cardinality(Rowless')
    BY <1>11, <2>6, FS_Subset
  <2> QED
    BY <1>9, <1>11, <2>1, <2>5, <2>7, Figures
<1> QED
  BY <1>12, <1>13

LEMMA BeginBooked ==
  ASSUME SpendingTypeOK, SpendingTypeOK', Delivered, Booked,
         NEW h \in Host, NEW b \in Bill, BeginTurn(h, b)
  PROVE  Booked'
<1>1. /\ Alone(h) /\ purse[h] = "idle" /\ purse'[h] = "get" /\ bill'[h] = b
      /\ counter' = counter /\ spent' = spent
  BY BeginAlone DEF BeginTurn
<1>2. /\ Again' >= Again
      /\ Again' + Cardinality(Rowless') >= Again + Cardinality(Rowless) + 1
      /\ Cardinality(Unentered') = Cardinality(Unentered) + 1
  BY BeginCounts
<1>3. /\ Amount(Slack', MaxCost) = Amount(Slack, MaxCost) + MaxCost
      /\ Amount(Passed', MaxCost) = Amount(Passed, MaxCost)
  <2>1. Slack[h] = 0 /\ Slack'[h] = MaxCost /\ Passed[h] = 0 /\ Passed'[h] = 0
    BY <1>1 DEF Slack, Passed
  <2>2. /\ Amount(Slack', MaxCost) = Amount(Slack, MaxCost) + Slack'[h] - Slack[h]
        /\ Amount(Passed', MaxCost) = Amount(Passed, MaxCost) + Passed'[h] - Passed[h]
    BY <1>1, SlackMoves
  <2> QED
    BY <2>1, <2>2, Figures
<1>4. /\ One(Active)' = 1 /\ One(Active \cup {"expire"})' = 1
      /\ One(Active)' + beside' >= One(Active) + beside + 1
      /\ One(Active \cup {"expire"})' + beside' >= One(Active \cup {"expire"}) + beside + 1
      /\ beside' >= beside
  <2>1. One(Active)' = 1 /\ One(Active \cup {"expire"})' = 1
    BY <1>1, OneMoves DEF Active
  <2>2. CASE \E g \in Host : purse[g] # "idle"
    <3>1. beside' = beside + 1
      BY <2>2 DEF BeginTurn
    <3> QED
      BY <2>1, <3>1, Figures
  <2>3. CASE ~\E g \in Host : purse[g] # "idle"
    <3>1. beside' = beside
      BY <2>3 DEF BeginTurn
    <3>2. One(Active) = 0 /\ One(Active \cup {"expire"}) = 0
      BY <2>3 DEF One, Active
    <3> QED
      BY <2>1, <3>1, <3>2, Figures
  <2> QED
    BY <2>2, <2>3
<1>5. Credited'
  BY <1>2, Figures DEF Booked, Credited
<1>6. Absent'
  BY <1>1 DEF Booked, Absent, Alone
<1>7. Summing' <=> Summing
  BY <1>1 DEF Summing, Alone
<1>8. PICK j \in {-1, 0, 1} : j = 1
  OBVIOUS
<1>9. Credit' >= Credit + 1
  BY <1>2, <1>4, Figures DEF Credit
<1>10. /\ Amount(Slack', MaxCost) + spent' <= Amount(Slack, MaxCost) + spent + Worth(j)
       /\ One(Active \cup {"expire"})' + beside' >= One(Active \cup {"expire"}) + beside + j
       /\ Amount(Passed', MaxCost) + spent' <= Amount(Passed, MaxCost) + spent
       /\ beside' + Again' >= beside + Again
       /\ Amount(Slack', MaxCost) + spent' - counter' <= Amount(Slack, MaxCost) + spent - counter + Worth(j)
       /\ Credit' >= Credit + j
  BY <1>1, <1>2, <1>3, <1>4, <1>8, <1>9, Figures DEF Worth
<1>11. Unsummed' /\ Summed'
  BY <1>7, <1>10, CarriedOn DEF Booked
<1> QED
  BY <1>5, <1>6, <1>11 DEF Booked

\* What neither a new delivery nor the end of a process changes.
NoneBegins == runs' = runs /\ beside' = beside

\* A turn that leaves off or enters its row takes its message along at most.
LEMMA GatedLeaves ==
  ASSUME SpendingTypeOK, SpendingTypeOK', NEW h \in Host, Alone(h),
         purse[h] \in Gated, purse'[h] \notin Gated,
         \A c \in Bill \ {bill[h]} : ledger'[c] = ledger[c]
  PROVE  /\ Cardinality(Rowless') - Cardinality(Unentered') >= Cardinality(Rowless) - Cardinality(Unentered)
         /\ bill[h] \notin Rowless =>
              Cardinality(Rowless') - Cardinality(Unentered') >= Cardinality(Rowless) - Cardinality(Unentered) + 1
<1>1. Cardinality(Unentered') = Cardinality(Unentered) + 0 - 1
  BY PendingMoves
<1> QED
  BY <1>1, RowlessLeaves, Figures

\* A turn ends that has spent nothing.
LEMMA EndBooked ==
  ASSUME SpendingTypeOK, SpendingTypeOK', Booked, NoneBegins, NEW h \in Host, EndTurn(h),
         purse[h] \in {"get", "run"}, ledger' = ledger, counter' = counter, spent' = spent
  PROVE  Booked'
<1>1. Alone(h) /\ purse'[h] = "idle"
  BY EndAlone
<1>2. Again' = Again /\ beside' = beside
  BY DEF NoneBegins, Again
<1>3. Cardinality(Rowless') - Cardinality(Unentered') >= Cardinality(Rowless) - Cardinality(Unentered)
  <2>1. purse[h] \in Gated /\ purse'[h] \notin Gated
    BY <1>1 DEF Gated, Active
  <2> QED
    BY <1>1, <2>1, GatedLeaves
<1>4. /\ Amount(Slack', MaxCost) = Amount(Slack, MaxCost) - MaxCost
      /\ Amount(Passed', MaxCost) <= Amount(Passed, MaxCost)
  <2>1. Slack[h] = MaxCost /\ Slack'[h] = 0 /\ Passed'[h] = 0
    BY <1>1 DEF Slack, Passed
  <2>2. /\ Amount(Slack', MaxCost) = Amount(Slack, MaxCost) + Slack'[h] - Slack[h]
        /\ Amount(Passed', MaxCost) = Amount(Passed, MaxCost) + Passed'[h] - Passed[h]
        /\ Passed[h] \in 0..MaxCost
    BY <1>1, SlackMoves
  <2> QED
    BY <2>1, <2>2, Figures
<1>5. Credited'
  BY <1>2, <1>3, Figures DEF Booked, Credited
<1>6. Absent'
  BY <1>1 DEF Booked, Absent, Alone
<1>7. Summing' <=> Summing
  BY <1>1 DEF Summing, Alone
<1>8. PICK j \in {-1, 0, 1} : j = -1
  OBVIOUS
<1>9. Credit' >= Credit - 1
  BY <1>2, <1>3, Figures DEF Credit
<1>10. /\ Amount(Slack', MaxCost) + spent' <= Amount(Slack, MaxCost) + spent + Worth(j)
       /\ One(Active \cup {"expire"})' + beside' >= One(Active \cup {"expire"}) + beside + j
       /\ Amount(Passed', MaxCost) + spent' <= Amount(Passed, MaxCost) + spent
       /\ beside' + Again' >= beside + Again
       /\ Amount(Slack', MaxCost) + spent' - counter' <= Amount(Slack, MaxCost) + spent - counter + Worth(j)
       /\ Credit' >= Credit + j
  BY <1>2, <1>4, <1>8, <1>9, Figures DEF Worth
<1>11. Unsummed' /\ Summed'
  BY <1>7, <1>10, CarriedOn DEF Booked
<1> QED
  BY <1>5, <1>6, <1>11 DEF Booked

\* The model is called: what is spent is no longer to be spent.
LEMMA CallBooked ==
  ASSUME SpendingTypeOK, SpendingTypeOK', Booked, NoneBegins, NEW h \in Host, Alone(h),
         purse[h] = "run", purse'[h] = "insert", bill'[h] = bill[h], NEW c \in 1..MaxCost,
         cost'[h] = c, spent' = spent + c, ledger' = ledger, counter' = counter
  PROVE  Booked'
<1>1. Again' = Again /\ beside' = beside /\ c \in Nat
  BY DEF NoneBegins, Again
<1>2. Cardinality(Unentered') = Cardinality(Unentered) /\ Rowless' = Rowless
  <2>1. purse[h] \in Gated /\ purse'[h] \in Gated
    BY DEF Gated, Active
  <2> QED
    BY <2>1, RowlessStays
<1>3. /\ Amount(Slack', MaxCost) = Amount(Slack, MaxCost) - c
      /\ Amount(Passed', MaxCost) = Amount(Passed, MaxCost) - MaxCost
  <2>1. Slack[h] = MaxCost /\ Slack'[h] = MaxCost - c /\ Passed[h] = MaxCost /\ Passed'[h] = 0
    BY DEF Slack, Passed
  <2>2. /\ Amount(Slack', MaxCost) = Amount(Slack, MaxCost) + Slack'[h] - Slack[h]
        /\ Amount(Passed', MaxCost) = Amount(Passed, MaxCost) + Passed'[h] - Passed[h]
    BY SlackMoves
  <2> QED
    BY <1>1, <2>1, <2>2, Figures
<1>4. One(Active)' = One(Active) /\ One(Active \cup {"expire"})' = One(Active \cup {"expire"})
  BY OneMoves DEF Active
<1>5. Credited'
  BY <1>1, <1>2, Figures DEF Booked, Credited
<1>6. Absent' /\ counter # -1
  BY DEF Booked, Absent, Alone
<1>7. Summing' <=> Summing
  BY DEF Summing, Alone
<1>8. PICK j \in {-1, 0, 1} : j = 0
  OBVIOUS
<1>9. Credit' = Credit
  BY <1>1, <1>2, <1>4 DEF Credit
<1>10. /\ Amount(Slack', MaxCost) + spent' <= Amount(Slack, MaxCost) + spent + Worth(j)
       /\ One(Active \cup {"expire"})' + beside' >= One(Active \cup {"expire"}) + beside + j
       /\ Amount(Passed', MaxCost) + spent' <= Amount(Passed, MaxCost) + spent
       /\ beside' + Again' >= beside + Again
       /\ Amount(Slack', MaxCost) + spent' - counter' <= Amount(Slack, MaxCost) + spent - counter + Worth(j)
       /\ Credit' >= Credit + j
  <2>1. c <= MaxCost
    OBVIOUS
  <2> QED
    BY <1>1, <1>3, <1>4, <1>8, <1>9, <2>1, Figures DEF Worth
<1>11. Unsummed' /\ Summed'
  BY <1>7, <1>10, CarriedOn DEF Booked
<1> QED
  BY <1>5, <1>6, <1>11 DEF Booked

\* A message gets its row.
LEMMA EnterBooked ==
  ASSUME SpendingTypeOK, SpendingTypeOK', Booked, NoneBegins, NEW h \in Host, Alone(h),
         purse[h] = "insert", purse'[h] = "incr", cost'[h] = cost[h],
         \A c \in Bill \ {bill[h]} : ledger'[c] = ledger[c],
         counter' = counter, spent' = spent
  PROVE  Booked'
<1>1. Again' = Again /\ beside' = beside
  BY DEF NoneBegins, Again
<1>2. Cardinality(Rowless') - Cardinality(Unentered') >= Cardinality(Rowless) - Cardinality(Unentered)
  <2>1. purse[h] \in Gated /\ purse'[h] \notin Gated
    BY DEF Gated, Active
  <2> QED
    BY <2>1, GatedLeaves
<1>3. /\ Amount(Slack', MaxCost) = Amount(Slack, MaxCost)
      /\ Amount(Passed', MaxCost) = Amount(Passed, MaxCost)
  <2>1. Slack'[h] = Slack[h] /\ Passed'[h] = Passed[h]
    BY DEF Slack, Passed
  <2>2. /\ Amount(Slack', MaxCost) = Amount(Slack, MaxCost) + Slack'[h] - Slack[h]
        /\ Amount(Passed', MaxCost) = Amount(Passed, MaxCost) + Passed'[h] - Passed[h]
        /\ Passed[h] \in 0..MaxCost /\ Slack[h] \in 0..MaxCost
    BY SlackMoves
  <2> QED
    BY <2>1, <2>2, Figures
<1>4. One(Active)' = One(Active) /\ One(Active \cup {"expire"})' = One(Active \cup {"expire"})
  BY OneMoves DEF Active
<1>5. Credited'
  BY <1>1, <1>2, Figures DEF Booked, Credited
<1>6. Absent'
  BY DEF Booked, Absent, Alone
<1>7. Summing' <=> Summing
  BY DEF Summing, Alone
<1>8. PICK j \in {-1, 0, 1} : j = 0
  OBVIOUS
<1>9. Credit' >= Credit
  BY <1>1, <1>2, <1>4, Figures DEF Credit
<1>10. /\ Amount(Slack', MaxCost) + spent' <= Amount(Slack, MaxCost) + spent + Worth(j)
       /\ One(Active \cup {"expire"})' + beside' >= One(Active \cup {"expire"}) + beside + j
       /\ Amount(Passed', MaxCost) + spent' <= Amount(Passed, MaxCost) + spent
       /\ beside' + Again' >= beside + Again
       /\ Amount(Slack', MaxCost) + spent' - counter' <= Amount(Slack, MaxCost) + spent - counter + Worth(j)
       /\ Credit' >= Credit + j
  BY <1>1, <1>3, <1>4, <1>8, <1>9, Figures DEF Worth
<1>11. Unsummed' /\ Summed'
  BY <1>7, <1>10, CarriedOn DEF Booked
<1> QED
  BY <1>5, <1>6, <1>11 DEF Booked

\* ON CONFLICT drops the row of a redelivery, which does not await one.
LEMMA DropBooked ==
  ASSUME SpendingTypeOK, SpendingTypeOK', Booked, NoneBegins, NEW h \in Host, EndTurn(h),
         purse[h] = "insert", ledger[bill[h]] # 0, ledger' = ledger, counter' = counter, spent' = spent
  PROVE  Booked'
<1>1. Alone(h) /\ purse'[h] = "idle"
  BY EndAlone
<1>2. Again' = Again /\ beside' = beside
  BY DEF NoneBegins, Again
<1>3. Cardinality(Rowless') - Cardinality(Unentered') >= Cardinality(Rowless) - Cardinality(Unentered) + 1
  <2>1. purse[h] \in Gated /\ purse'[h] \notin Gated /\ bill[h] \notin Rowless
    BY <1>1 DEF Gated, Active, Rowless
  <2> QED
    BY <1>1, <2>1, GatedLeaves
<1>4. /\ Amount(Slack', MaxCost) <= Amount(Slack, MaxCost)
      /\ Amount(Passed', MaxCost) <= Amount(Passed, MaxCost)
  <2>1. Slack'[h] = 0 /\ Passed'[h] = 0
    BY <1>1 DEF Slack, Passed
  <2>2. /\ Amount(Slack', MaxCost) = Amount(Slack, MaxCost) + Slack'[h] - Slack[h]
        /\ Amount(Passed', MaxCost) = Amount(Passed, MaxCost) + Passed'[h] - Passed[h]
        /\ Passed[h] \in 0..MaxCost /\ Slack[h] \in 0..MaxCost
    BY <1>1, SlackMoves
  <2> QED
    BY <2>1, <2>2, Figures
<1>5. Credited'
  BY <1>2, <1>3, Figures DEF Booked, Credited
<1>6. Absent'
  BY <1>1 DEF Booked, Absent, Alone
<1>7. counter # -1 /\ (Summing' <=> Summing) /\ (Summing => One(Active \cup {"expire"})' = 1)
  <2>1. counter # -1
    BY DEF Booked, Absent
  <2> QED
    BY <1>1, <2>1, SummingStays DEF Booked
<1>8. PICK j \in {-1, 0, 1} : j = 0
  OBVIOUS
<1>9. Credit' >= Credit
  BY <1>2, <1>3, Figures DEF Credit
<1>10. /\ Amount(Slack', MaxCost) + spent' <= Amount(Slack, MaxCost) + spent + Worth(j)
       /\ Summing => One(Active \cup {"expire"})' + beside' >= One(Active \cup {"expire"}) + beside + j
       /\ Amount(Passed', MaxCost) + spent' <= Amount(Passed, MaxCost) + spent
       /\ beside' + Again' >= beside + Again
       /\ Amount(Slack', MaxCost) + spent' - counter' <= Amount(Slack, MaxCost) + spent - counter + Worth(j)
       /\ Credit' >= Credit + j
  BY <1>2, <1>4, <1>7, <1>8, <1>9, Figures DEF Worth
<1>11. Unsummed' /\ Summed'
  BY <1>7, <1>10, CarriedOn DEF Booked
<1> QED
  BY <1>5, <1>6, <1>11 DEF Booked

\* The counter shows what the turn has spent.
LEMMA IncrBooked ==
  ASSUME SpendingTypeOK, SpendingTypeOK', Booked, NoneBegins, NEW h \in Host, Alone(h),
         purse[h] = "incr", purse'[h] \in {"idle", "expire"}, ledger' = ledger,
         counter' = counter + cost[h], spent' = spent
  PROVE  Booked'
<1>1. Again' = Again /\ beside' = beside
  BY DEF NoneBegins, Again
<1>2. cost[h] \in 1..MaxCost /\ cost[h] \in Nat
  BY Underway
<1>3. Cardinality(Unentered') = Cardinality(Unentered) /\ Rowless' = Rowless
  <2>1. purse[h] \notin Gated /\ purse'[h] \notin Gated
    BY DEF Gated, Active
  <2> QED
    BY <2>1, RowlessStays
<1>4. /\ Amount(Slack', MaxCost) = Amount(Slack, MaxCost) - (MaxCost - cost[h])
      /\ Amount(Passed', MaxCost) = Amount(Passed, MaxCost)
  <2>1. Slack[h] = MaxCost - cost[h] /\ Slack'[h] = 0 /\ Passed[h] = 0 /\ Passed'[h] = 0
    BY DEF Slack, Passed
  <2>2. /\ Amount(Slack', MaxCost) = Amount(Slack, MaxCost) + Slack'[h] - Slack[h]
        /\ Amount(Passed', MaxCost) = Amount(Passed, MaxCost) + Passed'[h] - Passed[h]
    BY SlackMoves
  <2> QED
    BY <1>2, <2>1, <2>2, Figures
<1>5. counter # -1 /\ counter' # -1
  <2>1. counter # -1
    BY DEF Booked, Absent
  <2> QED
    BY <1>2, <2>1, Figures
<1>6. Credited'
  BY <1>1, <1>3, Figures DEF Booked, Credited
<1>7. Absent'
  BY <1>5 DEF Absent
<1>8. (Summing' <=> Summing) /\ (Summing => One(Active \cup {"expire"})' = 1)
  BY <1>5, SummingStays DEF Booked
<1>9. PICK j \in {-1, 0, 1} : j = 0
  OBVIOUS
<1>10. PICK k \in {-1, 0, 1} : k = -1
  OBVIOUS
<1>11. Credit' >= Credit - 1
  BY <1>1, <1>3, Figures DEF Credit
<1>12. /\ Amount(Slack', MaxCost) + spent' <= Amount(Slack, MaxCost) + spent + Worth(j)
       /\ Summing => One(Active \cup {"expire"})' + beside' >= One(Active \cup {"expire"}) + beside + j
       /\ Amount(Passed', MaxCost) + spent' <= Amount(Passed, MaxCost) + spent
       /\ beside' + Again' >= beside + Again
       /\ Amount(Slack', MaxCost) + spent' - counter' <= Amount(Slack, MaxCost) + spent - counter + Worth(k)
       /\ Credit' >= Credit + k
  BY <1>1, <1>2, <1>4, <1>8, <1>9, <1>10, <1>11, Figures DEF Worth
<1>13. Unsummed' /\ Summed'
  BY <1>8, <1>12, CarriedOn DEF Booked
<1> QED
  BY <1>6, <1>7, <1>13 DEF Booked

\* The last step of a turn concerns the counter's TTL only.
LEMMA ExpireBooked ==
  ASSUME SpendingTypeOK, SpendingTypeOK', Booked, NoneBegins, NEW h \in Host, Alone(h),
         purse[h] = "expire", purse'[h] = "idle", ledger' = ledger, counter' = counter, spent' = spent
  PROVE  Booked'
<1>1. Again' = Again /\ beside' = beside
  BY DEF NoneBegins, Again
<1>2. Cardinality(Unentered') = Cardinality(Unentered) /\ Rowless' = Rowless
  <2>1. purse[h] \notin Gated /\ purse'[h] \notin Gated
    BY DEF Gated, Active
  <2> QED
    BY <2>1, RowlessStays
<1>3. /\ Amount(Slack', MaxCost) = Amount(Slack, MaxCost)
      /\ Amount(Passed', MaxCost) = Amount(Passed, MaxCost)
  <2>1. Slack[h] = 0 /\ Slack'[h] = 0 /\ Passed[h] = 0 /\ Passed'[h] = 0
    BY DEF Slack, Passed
  <2>2. /\ Amount(Slack', MaxCost) = Amount(Slack, MaxCost) + Slack'[h] - Slack[h]
        /\ Amount(Passed', MaxCost) = Amount(Passed, MaxCost) + Passed'[h] - Passed[h]
    BY SlackMoves
  <2> QED
    BY <2>1, <2>2, Figures
<1>4. One(Active)' = One(Active)
  BY OneMoves DEF Active
<1>5. Credited'
  BY <1>1, <1>2, Figures DEF Booked, Credited
<1>6. Absent' /\ counter # -1
  BY DEF Booked, Absent, Alone
<1>7. (Summing' <=> Summing) /\ (Summing => One(Active \cup {"expire"})' = 1)
  BY <1>6, SummingStays DEF Booked
<1>8. PICK j \in {-1, 0, 1} : j = 0
  OBVIOUS
<1>9. Credit' = Credit
  BY <1>1, <1>2, <1>4 DEF Credit
<1>10. /\ Amount(Slack', MaxCost) + spent' <= Amount(Slack, MaxCost) + spent + Worth(j)
       /\ Summing => One(Active \cup {"expire"})' + beside' >= One(Active \cup {"expire"}) + beside + j
       /\ Amount(Passed', MaxCost) + spent' <= Amount(Passed, MaxCost) + spent
       /\ beside' + Again' >= beside + Again
       /\ Amount(Slack', MaxCost) + spent' - counter' <= Amount(Slack, MaxCost) + spent - counter + Worth(j)
       /\ Credit' >= Credit + j
  BY <1>1, <1>3, <1>7, <1>8, <1>9, Figures DEF Worth
<1>11. Unsummed' /\ Summed'
  BY <1>7, <1>10, CarriedOn DEF Booked
<1> QED
  BY <1>5, <1>6, <1>11 DEF Booked

\* A turn goes on to sum up, or has summed up, while there is no counter or another's sum is
\* still to be set.
LEMMA SumBooked ==
  ASSUME SpendingTypeOK, SpendingTypeOK', Booked, NoneBegins, NEW h \in Host, Alone(h),
         \/ purse[h] = "get" /\ purse'[h] = "sum" /\ counter = -1
         \/ purse[h] = "sum" /\ purse'[h] = "set",
         bill'[h] = bill[h], ledger' = ledger, counter' = counter, spent' = spent
  PROVE  Booked'
<1>1. Again' = Again /\ beside' = beside
  BY DEF NoneBegins, Again
<1>2. Cardinality(Unentered') = Cardinality(Unentered) /\ Rowless' = Rowless
  <2>1. purse[h] \in Gated /\ purse'[h] \in Gated
    BY DEF Gated, Active
  <2> QED
    BY <2>1, RowlessStays
<1>3. Amount(Slack', MaxCost) = Amount(Slack, MaxCost)
  <2>1. Slack[h] = MaxCost /\ Slack'[h] = MaxCost
    BY DEF Slack
  <2>2. Amount(Slack', MaxCost) = Amount(Slack, MaxCost) + Slack'[h] - Slack[h]
    BY SlackMoves
  <2> QED
    BY <2>1, <2>2, Figures
<1>4. One(Active \cup {"expire"})' = One(Active \cup {"expire"})
  BY OneMoves DEF Active
<1>5. Credited'
  BY <1>1, <1>2, Figures DEF Booked, Credited
<1>6. Absent'
  BY DEF Booked, Absent, Alone
<1>7. Summing /\ Summing'
  BY DEF Summing
<1>8. Unsummed'
  <2>1. Amount(Slack, MaxCost) + spent <= MaxCost * (One(Active \cup {"expire"}) + beside)
    BY <1>7 DEF Booked, Unsummed
  <2>2. Amount(Slack', MaxCost) + spent' <= MaxCost * (One(Active \cup {"expire"})' + beside')
    BY <1>1, <1>3, <1>4, <2>1
  <2> QED
    BY <2>2 DEF Unsummed
<1>9. Summed'
  BY <1>7 DEF Summed
<1> QED
  BY <1>5, <1>6, <1>8, <1>9 DEF Booked

\* A counter below the limit lets a turn pass: what all of them may spend is what the
\* counter leaves, and a turn for each credit.
LEMMA PassBooked ==
  ASSUME SpendingTypeOK, SpendingTypeOK', Booked, NoneBegins, NEW h \in Host, Alone(h),
         purse[h] = "get", purse'[h] = "run", bill'[h] = bill[h], counter # -1, counter < Limit,
         ledger' = ledger, counter' = counter, spent' = spent
  PROVE  Booked'
<1>1. Again' = Again /\ beside' = beside
  BY DEF NoneBegins, Again
<1>2. Cardinality(Unentered') = Cardinality(Unentered) /\ Rowless' = Rowless
  <2>1. purse[h] \in Gated /\ purse'[h] \in Gated
    BY DEF Gated, Active
  <2> QED
    BY <2>1, RowlessStays
<1>3. Amount(Slack', MaxCost) = Amount(Slack, MaxCost)
  <2>1. Slack[h] = MaxCost /\ Slack'[h] = MaxCost
    BY DEF Slack
  <2>2. Amount(Slack', MaxCost) = Amount(Slack, MaxCost) + Slack'[h] - Slack[h]
    BY SlackMoves
  <2> QED
    BY <2>1, <2>2, Figures
<1>4. One(Active)' = One(Active) /\ One(Active \cup {"expire"})' = One(Active \cup {"expire"})
  BY OneMoves DEF Active
<1>5. Credited'
  BY <1>1, <1>2, Figures DEF Booked, Credited
<1>6. Absent'
  BY DEF Absent
<1>7. Summing' <=> Summing
  BY DEF Summing, Alone
<1>8. Unsummed'
  <2>1. ASSUME Summing
        PROVE  Amount(Slack', MaxCost) + spent' <= MaxCost * (One(Active \cup {"expire"})' + beside')
    <3>1. Amount(Slack, MaxCost) + spent <= MaxCost * (One(Active \cup {"expire"}) + beside)
      BY <2>1 DEF Booked, Unsummed
    <3> QED
      BY <1>1, <1>3, <1>4, <3>1
  <2> QED
    BY <1>7, <2>1 DEF Unsummed
<1>9. Summed'
  <2>1. ASSUME ~Summing
        PROVE  /\ Amount(Passed', MaxCost) + spent' <= Limit - 1 + MaxCost * (1 + beside' + Again')
               /\ Amount(Slack', MaxCost) + spent' <= counter' + MaxCost * Credit'
    <3>1. Amount(Slack, MaxCost) + spent <= counter + MaxCost * Credit
      BY <2>1 DEF Booked, Summed
    <3>2. Credit' = Credit
      BY <1>1, <1>2, <1>4 DEF Credit
    <3>3. Amount(Passed', MaxCost) <= Amount(Slack, MaxCost)
      BY <1>3, PassedIsSlack
    <3>4. Credit <= 1 + beside' + Again'
      BY <1>1, RowlessArePending, Figures DEF Credit
    <3> DEFINE y == 1 + beside' + Again'
               a == Amount(Slack, MaxCost) + spent
               b == Amount(Passed', MaxCost) + spent'
    <3>5. PICK i \in {-1, 0, 1} : i = 0
      OBVIOUS
    <3>6. PICK d \in Int : d = Limit - 1
      BY Figures
    <3>7. /\ MaxCost \in Nat /\ Credit \in Int /\ y \in Int /\ a \in Int /\ b \in Int /\ counter \in Int
          /\ y >= Credit + i /\ a <= counter + MaxCost * Credit
          /\ b <= a /\ counter <= d
      BY <3>1, <3>3, <3>4, <3>5, <3>6, Figures
    <3> HIDE DEF a, b, y
    <3>8. b - d <= a - counter + Worth(i)
      BY <3>5, <3>6, <3>7 DEF Worth
    <3>a. Outlasts(a, b, counter, d, Credit, y, i)
      BY <3>5, <3>6, <3>7, <3>8 DEF Outlasts
    <3>9. b <= d + MaxCost * y
      BY <3>a, Outlast
    <3> QED
      BY <1>3, <3>1, <3>2, <3>6, <3>9 DEF b, y
  <2> QED
    BY <1>7, <2>1 DEF Summed
<1> QED
  BY <1>5, <1>6, <1>8, <1>9 DEF Booked

\* What has been summed up is set, and the turn passes or ends. From the last sum that is
\* set on the counter may be relied on.
LEMMA SetBooked ==
  ASSUME SpendingTypeOK, SpendingTypeOK', Booked, NoneBegins, NEW h \in Host, Alone(h),
         purse[h] = "set", purse'[h] \in {"idle", "run"}, purse'[h] = "run" => bill'[h] = bill[h],
         counter' \in Nat, ledger' = ledger, spent' = spent
  PROVE  Booked'
<1>1. Again' = Again /\ beside' = beside
  BY DEF NoneBegins, Again
<1>2. Cardinality(Rowless') - Cardinality(Unentered') >= Cardinality(Rowless) - Cardinality(Unentered)
  <2>1. purse[h] \in Gated
    BY DEF Gated, Active
  <2>2. CASE purse'[h] = "idle"
    <3>1. purse'[h] \notin Gated
      BY <2>2 DEF Gated, Active
    <3> QED
      BY <2>1, <3>1, GatedLeaves
  <2>3. CASE purse'[h] = "run"
    <3>1. purse'[h] \in Gated
      BY <2>3 DEF Gated, Active
    <3>2. Cardinality(Unentered') = Cardinality(Unentered) /\ Rowless' = Rowless
      BY <2>1, <2>3, <3>1, RowlessStays
    <3> QED
      BY <3>2, Figures
  <2> QED
    BY <2>2, <2>3
<1>3. Amount(Slack', MaxCost) = Amount(Slack, MaxCost) - (IF purse'[h] = "run" THEN 0 ELSE MaxCost)
  <2>1. Slack[h] = MaxCost /\ Slack'[h] = IF purse'[h] = "run" THEN MaxCost ELSE 0
    BY DEF Slack
  <2>2. Amount(Slack', MaxCost) = Amount(Slack, MaxCost) + Slack'[h] - Slack[h]
    BY SlackMoves
  <2> QED
    BY <2>1, <2>2, Figures
<1>4. /\ One(Active \cup {"expire"}) = 1
      /\ purse'[h] = "run" => One(Active)' = 1 /\ One(Active \cup {"expire"})' = 1
  BY OneMoves DEF Active
<1>5. Credited'
  BY <1>1, <1>2, Figures DEF Booked, Credited
<1>6. Absent'
  BY Figures DEF Absent
\* So many turns are left.
<1> DEFINE k == IF purse'[h] = "run" THEN 0 ELSE -1
           a == Amount(Slack, MaxCost) + spent
           b == Amount(Slack', MaxCost) + spent'
           x == 1 + beside
<1>7. a <= MaxCost * x /\ a \in Int /\ b \in Int /\ x \in Int /\ MaxCost \in Nat /\ MaxCost * x \in Int
  <2>1. Summing
    BY DEF Summing
  <2> QED
    BY <1>4, <2>1, Figures DEF Booked, Unsummed
<1>8. b <= a + Worth(k) /\ k \in {-1, 0, 1} /\ Worth(k) \in Int
  BY <1>3, Figures DEF Worth
<1>9. ASSUME NEW y \in Int, y >= x + k
      PROVE  b <= MaxCost * y
  <2>1. PICK c \in Int : c = 0
    OBVIOUS
  <2> HIDE DEF a, b, x, k
  <2>2. a <= c + MaxCost * x /\ b - c <= a - c + Worth(k)
    BY <1>7, <1>8, <2>1
  <2>3. /\ MaxCost \in Nat /\ x \in Int /\ y \in Int /\ k \in {-1, 0, 1}
        /\ a \in Int /\ b \in Int /\ c \in Int /\ y >= x + k
    BY <1>7, <1>8, <1>9, <2>1
  <2>6. Outlasts(a, b, c, c, x, y, k)
    BY <2>2, <2>3 DEF Outlasts
  <2>4. b <= c + MaxCost * y
    BY <2>6, Outlast
  <2>5. MaxCost * y \in Int
    BY <2>3
  <2> QED
    BY <2>1, <2>3, <2>4, <2>5
<1>10. Unsummed'
  <2>1. One(Active \cup {"expire"})' + beside' \in Int
    BY Figures
  <2>2. One(Active \cup {"expire"})' + beside' >= x + k
    BY <1>1, <1>4, Figures
  <2>3. b <= MaxCost * (One(Active \cup {"expire"})' + beside')
    BY <1>9, <2>1, <2>2
  <2> QED
    BY <2>3 DEF Unsummed
<1>11. Summed'
  <2>1. Amount(Slack', MaxCost) + spent' <= counter' + MaxCost * Credit'
    <3>1. Credit' >= x + k
      <4>1. One(Active)' + beside' >= x + k
        BY <1>1, <1>4, Figures
      <4>2. Credit' >= One(Active)' + beside'
        BY <1>5, Figures DEF Credit, Credited
      <4>3. Credit' \in Int /\ One(Active)' + beside' \in Int /\ x + k \in Int
        BY <1>7, <1>8, Figures
      <4> QED
        BY <4>1, <4>2, <4>3
    <3>2. b <= MaxCost * Credit'
      BY <1>9, <3>1, Figures
    <3>3. MaxCost * Credit' \in Int
      BY Figures
    <3> QED
      BY <1>7, <3>2, <3>3
  <2>2. Amount(Passed', MaxCost) + spent' <= Limit - 1 + MaxCost * (1 + beside' + Again')
    <3>1. 1 + beside' + Again' \in Int /\ 1 + beside' + Again' >= x + k
      BY <1>1, Figures
    <3>2. b <= MaxCost * (1 + beside' + Again')
      BY <1>9, <3>1
    <3>3. Amount(Passed', MaxCost) <= Amount(Slack', MaxCost)
      BY PassedIsSlack
    <3>4. MaxCost * (1 + beside' + Again') \in Int
      BY <3>1, Figures
    <3> QED
      BY <1>7, <3>2, <3>3, <3>4, Figures
  <2> QED
    BY <2>1, <2>2 DEF Summed
<1> QED
  BY <1>5, <1>6, <1>10, <1>11 DEF Booked

-----------------------------------------------------------------------------
(* The steps                                                               *)

LEMMA SpendingInitial ==
  ASSUME SpendingInit, NoFault
  PROVE  SpendingIInv
<1>1. FaultsOK
  BY PlatformAssumption DEF NoFault, FaultsOK
<1>2. SpendingTypeOK
  <2>1. 0 \in 0..MaxCost /\ 0 \in 0..MaxRuns /\ 0 \in Nat /\ ~(0 > 0)
    BY SpendingAssumption
  <2> QED
    BY <2>1 DEF SpendingInit, SpendingTypeOK
<1>3. Delivered /\ Absent /\ Summing
  BY SpendingAssumption DEF SpendingInit, Delivered, Absent, Summing
<1>4. Unentered = {} /\ Rowless = {}
  BY DEF SpendingInit, Unentered, Gated, Active, Rowless
<1>5. Credited
  <2>1. Cardinality(Unentered) = 0 /\ Cardinality(Rowless) = 0
    BY <1>4, FS_EmptySet
  <2>2. Again \in Nat
    BY <1>2, Counts
  <2> QED
    BY <2>1, <2>2 DEF Credited
<1>6. Unsummed
  <2>1. Slack \in [Host -> 0..MaxCost] /\ \A h \in Host : Slack[h] = 0
    BY <1>2, SlackTyped DEF SpendingInit, Slack
  <2>2. Amount(Slack, MaxCost) = 0
    BY <1>2, <2>1, SpendingNumbers, AmountNone
  <2>3. One(Active \cup {"expire"}) = 0
    BY DEF SpendingInit, One, Active
  <2>4. MaxCost * 0 = 0
    BY SpendingAssumption
  <2> QED
    BY <2>2, <2>3, <2>4 DEF SpendingInit, Unsummed
<1>7. Summed
  BY <1>3 DEF Summed
<1> QED
  BY <1>1, <1>2, <1>3, <1>5, <1>6, <1>7 DEF SpendingIInv, Booked

\* A failure is counted.
LEMMA SpendingFaults ==
  ASSUME FaultsOK, UNCHANGED faults \/ Fault
  PROVE  FaultsOK' /\ (faults' = 0 => faults = 0 /\ UNCHANGED faults) /\ (Fault => faults' # 0)
BY PlatformAssumption DEF FaultsOK, Fault

\* A step of a turn under way keeps the types, and that what has a row or is in a turn
\* has been delivered.
LEMMA MoveKeeps ==
  ASSUME SpendingIInv, NEW h \in Host, Alone(h), NoneBegins, purse[h] # "idle",
         bill'[h] \in {bill[h], "none"},
         ledger' \in [Bill -> 0..MaxCost], \A c \in Bill \ {bill[h]} : ledger'[c] = ledger[c],
         counter' \in Nat \cup {-1}, spent' \in Nat, UNCHANGED faults \/ Fault,
         SpendingTypeOK' /\ faults' = 0 /\ faults = 0 => Booked'
  PROVE  SpendingIInv'
<1>1. SpendingTypeOK'
  <2>1. runs' \in [Bill -> 0..MaxRuns] /\ beside' \in Nat
    BY DEF NoneBegins, SpendingIInv, SpendingTypeOK
  <2> QED
    BY <2>1, MovesTyped DEF SpendingIInv
<1>2. Delivered'
  <2>1. ASSUME NEW b \in Bill, ledger'[b] # 0 \/ \E g \in Host : bill'[g] = b
        PROVE  ledger[b] # 0 \/ \E g \in Host : bill[g] = b
    <3>1. CASE ledger'[b] # 0
      BY <3>1
    <3>2. CASE \E g \in Host : bill'[g] = b
      <4>1. PICK g \in Host : bill'[g] = b
        BY <3>2
      <4>2. b # "none"
        BY SpendingAssumption
      <4> QED
        BY <4>1, <4>2 DEF Alone
    <3> QED
      BY <2>1, <3>1, <3>2
  <2> QED
    BY <2>1 DEF SpendingIInv, Delivered, NoneBegins
<1>3. FaultsOK' /\ (faults' = 0 => faults = 0)
  BY SpendingFaults DEF SpendingIInv
<1> QED
  BY <1>1, <1>2, <1>3 DEF SpendingIInv

\* The same of a turn that ends for a failure: the account is off.
LEMMA FailedTurn ==
  ASSUME SpendingIInv, NEW h \in Host, EndTurn(h), NoneBegins, purse[h] # "idle",
         ledger' \in [Bill -> 0..MaxCost], \A c \in Bill \ {bill[h]} : ledger'[c] = ledger[c],
         counter' \in Nat \cup {-1}, spent' = spent, Fault
  PROVE  SpendingIInv'
<1>1. Alone(h) /\ bill'[h] = "none"
  BY EndAlone DEF SpendingIInv
<1>2. faults' # 0
  BY SpendingFaults DEF SpendingIInv
<1>3. spent' \in Nat
  BY DEF SpendingIInv, SpendingTypeOK
<1> QED
  BY <1>1, <1>2, <1>3, MoveKeeps

LEMMA BeginStep ==
  ASSUME SpendingIInv, NEW h \in Host, NEW b \in Bill, BeginTurn(h, b)
  PROVE  SpendingIInv'
<1>1. SpendingTypeOK /\ Delivered /\ (faults = 0 => Booked)
  BY DEF SpendingIInv
<1>2. /\ Alone(h) /\ bill'[h] = b /\ ledger' = ledger /\ counter' = counter /\ spent' = spent
      /\ runs' = [runs EXCEPT ![b] = @ + 1] /\ faults' = faults /\ Amount(runs, MaxRuns) < MaxRuns
      /\ beside' \in {beside, beside + 1}
  BY <1>1, BeginAlone DEF BeginTurn
<1>3. runs' \in [Bill -> 0..MaxRuns] /\ \A c \in Bill : runs[c] \in Nat
  <2>1. /\ IsFiniteSet(Bill) /\ MaxRuns \in Nat /\ runs \in [Bill -> 0..MaxRuns]
        /\ Amount(runs, MaxRuns) \in Nat
    BY <1>1, SpendingNumbers, AmountTyped
  <2>2. runs[b] <= Amount(runs, MaxRuns)
    BY <2>1, AmountCovers
  <2>3. runs[b] + 1 \in 0..MaxRuns
    BY <1>2, <2>1, <2>2
  <2> QED
    BY <1>2, <2>1, <2>3
<1>4. SpendingTypeOK'
  <2>1. /\ ledger' \in [Bill -> 0..MaxCost] /\ counter' \in Nat \cup {-1}
        /\ spent' \in Nat /\ beside' \in Nat
    BY <1>1, <1>2 DEF SpendingTypeOK
  <2> QED
    BY <1>1, <1>2, <1>3, <2>1, MovesTyped
<1>5. Delivered'
  <2>1. \A c \in Bill : runs'[c] = (IF c = b THEN runs[b] + 1 ELSE runs[c])
    BY <1>1, <1>2 DEF SpendingTypeOK
  <2>2. runs[b] + 1 > 0
    BY <1>3
  <2>3. ASSUME NEW c \in Bill, c # b, ledger'[c] # 0 \/ \E g \in Host : bill'[g] = c
        PROVE  runs'[c] > 0
    <3>1. ledger[c] # 0 \/ \E g \in Host : bill[g] = c
      BY <1>2, <2>3 DEF Alone
    <3>2. runs[c] > 0
      BY <1>1, <3>1 DEF Delivered
    <3> QED
      BY <2>1, <2>3, <3>2
  <2>4. runs'[b] > 0
    BY <2>1, <2>2
  <2> QED
    BY <2>3, <2>4 DEF Delivered
<1>6. faults' = 0 => Booked'
  BY <1>1, <1>2, <1>4, BeginBooked
<1>7. FaultsOK'
  BY <1>2, SpendingFaults DEF SpendingIInv
<1> QED
  BY <1>4, <1>5, <1>6, <1>7 DEF SpendingIInv

\* What the steps of the gate have in common.
LEMMA GetStep ==
  ASSUME SpendingIInv, NEW h \in Host, GetCounter(h)
  PROVE  SpendingIInv'
<1>1. SpendingTypeOK /\ (faults = 0 => Booked)
  BY DEF SpendingIInv
<1>2. /\ purse[h] = "get" /\ ledger' = ledger /\ counter' = counter /\ spent' = spent /\ NoneBegins
  BY DEF GetCounter, NoneBegins
<1>3. /\ ledger' \in [Bill -> 0..MaxCost] /\ counter' \in Nat \cup {-1} /\ spent' \in Nat
      /\ counter \in Int /\ Limit \in Int /\ bill[h] \in Bill /\ cost[h] = 0
  BY <1>1, <1>2, SpendingNumbers, Underway DEF SpendingTypeOK
<1>4. CASE Fault /\ EndTurn(h)
  BY <1>2, <1>3, <1>4, FailedTurn
<1>5. CASE EndTurn(h) /\ UNCHANGED faults
  <2>1. Alone(h) /\ bill'[h] = "none"
    BY <1>1, <1>5, EndAlone
  <2>2. SpendingTypeOK' /\ faults = 0 => Booked'
    BY <1>1, <1>2, <1>5, EndBooked
  <2> QED
    BY <1>2, <1>3, <1>5, <2>1, <2>2, MoveKeeps
<1>6. CASE counter # -1 /\ counter < Limit /\ PurseAt(h, "run") /\ UNCHANGED faults
  <2>1. Alone(h) /\ purse'[h] = "run" /\ bill'[h] = bill[h]
    BY <1>1, <1>2, <1>3, <1>6, AtAlone
  <2>2. SpendingTypeOK' /\ faults = 0 => Booked'
    BY <1>1, <1>2, <1>6, <2>1, PassBooked
  <2> QED
    BY <1>2, <1>3, <1>6, <2>1, <2>2, MoveKeeps
<1>7. CASE counter = -1 /\ PurseAt(h, "sum") /\ UNCHANGED faults
  <2>1. Alone(h) /\ purse'[h] = "sum" /\ bill'[h] = bill[h]
    BY <1>1, <1>2, <1>3, <1>7, AtAlone
  <2>2. SpendingTypeOK' /\ faults = 0 => Booked'
    BY <1>1, <1>2, <1>7, <2>1, SumBooked
  <2> QED
    BY <1>2, <1>3, <1>7, <2>1, <2>2, MoveKeeps
<1>8. counter >= Limit \/ counter < Limit
  BY <1>3
<1> QED
  BY <1>4, <1>5, <1>6, <1>7, <1>8 DEF GetCounter, Gate

LEMMA SumStep ==
  ASSUME SpendingIInv, NEW h \in Host, SumLedger(h)
  PROVE  SpendingIInv'
<1>1. SpendingTypeOK /\ (faults = 0 => Booked)
  BY DEF SpendingIInv
<1>2. /\ purse[h] = "sum" /\ ledger' = ledger /\ counter' = counter /\ spent' = spent /\ NoneBegins
  BY DEF SumLedger, NoneBegins
<1>3. /\ ledger' \in [Bill -> 0..MaxCost] /\ counter' \in Nat \cup {-1} /\ spent' \in Nat
      /\ bill[h] \in Bill /\ cost[h] = 0
  BY <1>1, <1>2, Underway DEF SpendingTypeOK
<1>4. CASE Fault /\ EndTurn(h)
  BY <1>2, <1>3, <1>4, FailedTurn
<1>5. CASE /\ sum' = [sum EXCEPT ![h] = Total] /\ purse' = [purse EXCEPT ![h] = "set"]
           /\ UNCHANGED <<bill, cost, faults>>
  <2>1. Total \in Nat
    BY <1>1, SpendingNumbers, AmountTyped DEF Total
  <2>2. ~(cost[h] > 0)
    BY <1>3
  <2>3. Alone(h) /\ purse'[h] = "set" /\ bill'[h] = bill[h]
    BY <1>1, <1>2, <1>3, <1>5, <2>1, <2>2 DEF SpendingTypeOK, Alone, PurseTyped
  <2>4. SpendingTypeOK' /\ faults = 0 => Booked'
    BY <1>1, <1>2, <2>3, SumBooked
  <2> QED
    BY <1>2, <1>3, <1>5, <2>3, <2>4, MoveKeeps
<1> QED
  BY <1>4, <1>5 DEF SumLedger

LEMMA SetStep ==
  ASSUME SpendingIInv, NEW h \in Host, SetCounter(h)
  PROVE  SpendingIInv'
<1>1. SpendingTypeOK /\ (faults = 0 => Booked)
  BY DEF SpendingIInv
<1>2. /\ purse[h] = "set" /\ ledger' = ledger /\ spent' = spent /\ NoneBegins
  BY DEF SetCounter, NoneBegins
<1>3. /\ ledger' \in [Bill -> 0..MaxCost] /\ spent' \in Nat /\ sum[h] \in Nat
      /\ counter \in Nat \cup {-1} /\ bill[h] \in Bill /\ cost[h] = 0
  BY <1>1, <1>2, Underway DEF SpendingTypeOK
<1>4. CASE Fault /\ counter' \in {counter, sum[h]} /\ EndTurn(h)
  BY <1>2, <1>3, <1>4, FailedTurn
<1>5. CASE counter' = sum[h] /\ EndTurn(h) /\ UNCHANGED faults
  <2>1. Alone(h) /\ purse'[h] = "idle" /\ bill'[h] = "none" /\ counter' \in Nat
    BY <1>1, <1>3, <1>5, EndAlone
  <2>2. SpendingTypeOK' /\ faults = 0 => Booked'
    BY <1>1, <1>2, <2>1, SetBooked
  <2> QED
    BY <1>2, <1>3, <1>5, <2>1, <2>2, MoveKeeps
<1>6. CASE counter' = sum[h] /\ PurseAt(h, "run") /\ UNCHANGED faults
  <2>1. Alone(h) /\ purse'[h] = "run" /\ bill'[h] = bill[h] /\ counter' \in Nat
    BY <1>1, <1>2, <1>3, <1>6, AtAlone
  <2>2. SpendingTypeOK' /\ faults = 0 => Booked'
    BY <1>1, <1>2, <2>1, SetBooked
  <2> QED
    BY <1>2, <1>3, <1>6, <2>1, <2>2, MoveKeeps
<1> QED
  BY <1>4, <1>5, <1>6 DEF SetCounter, Gate

LEMMA CallStep ==
  ASSUME SpendingIInv, NEW h \in Host, CallModel(h)
  PROVE  SpendingIInv'
<1>1. SpendingTypeOK /\ (faults = 0 => Booked)
  BY DEF SpendingIInv
<1>2. /\ purse[h] = "run" /\ ledger' = ledger /\ counter' = counter /\ faults' = faults /\ NoneBegins
  BY DEF CallModel, NoneBegins
<1>3. /\ ledger' \in [Bill -> 0..MaxCost] /\ counter' \in Nat \cup {-1} /\ spent \in Nat
      /\ bill[h] \in Bill /\ bill[h] # "none" /\ MaxCost \in Nat
  BY <1>1, <1>2, Underway, SpendingAssumption DEF SpendingTypeOK
<1>4. CASE EndTurn(h) /\ UNCHANGED spent
  <2>1. Alone(h) /\ bill'[h] = "none"
    BY <1>1, <1>4, EndAlone
  <2>2. SpendingTypeOK' /\ faults = 0 => Booked'
    BY <1>1, <1>2, <1>4, EndBooked
  <2> QED
    BY <1>2, <1>3, <1>4, <2>1, <2>2, MoveKeeps
<1>5. ASSUME NEW c \in 1..MaxCost, spent' = spent + c, cost' = [cost EXCEPT ![h] = c],
             purse' = [purse EXCEPT ![h] = "insert"], UNCHANGED <<bill, sum>>
      PROVE  SpendingIInv'
  <2>1. c \in 0..MaxCost /\ c > 0 /\ spent' \in Nat
    BY <1>3, <1>5
  <2>2. Alone(h) /\ purse'[h] = "insert" /\ bill'[h] = bill[h] /\ cost'[h] = c
    BY <1>1, <1>3, <1>5, <2>1 DEF SpendingTypeOK, Alone, PurseTyped
  <2>3. SpendingTypeOK' /\ faults = 0 => Booked'
    BY <1>1, <1>2, <1>5, <2>2, CallBooked
  <2> QED
    BY <1>2, <1>3, <2>1, <2>2, <2>3, MoveKeeps
<1> QED
  BY <1>4, <1>5 DEF CallModel

LEMMA InsertStep ==
  ASSUME SpendingIInv, NEW h \in Host, InsertBill(h)
  PROVE  SpendingIInv'
<1> DEFINE entered == [ledger EXCEPT ![bill[h]] = cost[h]]
<1>1. SpendingTypeOK /\ (faults = 0 => Booked)
  BY DEF SpendingIInv
<1>2. /\ purse[h] = "insert" /\ counter' = counter /\ spent' = spent /\ NoneBegins
  BY DEF InsertBill, NoneBegins
<1>3. /\ ledger \in [Bill -> 0..MaxCost] /\ counter' \in Nat \cup {-1} /\ spent' \in Nat
      /\ bill[h] \in Bill /\ cost[h] \in 1..MaxCost /\ cost[h] \in 0..MaxCost /\ cost[h] > 0
  <2>1. cost[h] \in 1..MaxCost /\ bill[h] \in Bill /\ MaxCost \in Nat
    BY <1>1, <1>2, Underway, SpendingAssumption
  <2>2. cost[h] \in 0..MaxCost /\ cost[h] > 0
    BY <2>1
  <2> QED
    BY <1>1, <1>2, <2>1, <2>2 DEF SpendingTypeOK
<1>4. entered \in [Bill -> 0..MaxCost] /\ \A c \in Bill \ {bill[h]} : entered[c] = ledger[c]
  BY <1>3
<1>5. CASE Fault /\ ledger' \in {ledger, entered} /\ EndTurn(h)
  <2>1. ledger' \in [Bill -> 0..MaxCost] /\ \A c \in Bill \ {bill[h]} : ledger'[c] = ledger[c]
    BY <1>3, <1>4, <1>5
  <2> QED
    BY <1>2, <1>3, <1>5, <2>1, FailedTurn
<1>6. CASE ledger[bill[h]] # 0 /\ EndTurn(h) /\ UNCHANGED <<ledger, faults>>
  <2>1. Alone(h) /\ bill'[h] = "none"
    BY <1>1, <1>6, EndAlone
  <2>2. SpendingTypeOK' /\ faults = 0 => Booked'
    BY <1>1, <1>2, <1>6, DropBooked
  <2> QED
    BY <1>2, <1>3, <1>6, <2>1, <2>2, MoveKeeps
<1>7. CASE ledger' = entered /\ PurseAt(h, "incr") /\ UNCHANGED faults
  <2>1. Alone(h) /\ purse'[h] = "incr" /\ bill'[h] = bill[h] /\ cost'[h] = cost[h]
    BY <1>1, <1>2, <1>3, <1>7, AtAlone
  <2>2. \A c \in Bill \ {bill[h]} : ledger'[c] = ledger[c]
    BY <1>4, <1>7
  <2>3. SpendingTypeOK' /\ faults = 0 => Booked'
    BY <1>1, <1>2, <2>1, <2>2, EnterBooked
  <2> QED
    BY <1>2, <1>3, <1>4, <1>7, <2>1, <2>2, <2>3, MoveKeeps
<1> QED
  BY <1>5, <1>6, <1>7 DEF InsertBill

LEMMA IncrStep ==
  ASSUME SpendingIInv, NEW h \in Host, IncrCounter(h)
  PROVE  SpendingIInv'
<1>1. SpendingTypeOK /\ (faults = 0 => Booked)
  BY DEF SpendingIInv
<1>2. /\ purse[h] = "incr" /\ ledger' = ledger /\ spent' = spent /\ NoneBegins
  BY DEF IncrCounter, NoneBegins
<1>3. /\ ledger' \in [Bill -> 0..MaxCost] /\ spent' \in Nat /\ bill[h] \in Bill
      /\ counter \in Nat \cup {-1} /\ cost[h] \in Nat /\ cost[h] > 0
  <2>1. cost[h] \in 1..MaxCost /\ bill[h] \in Bill
    BY <1>1, <1>2, Underway
  <2> QED
    BY <1>1, <1>2, <2>1, SpendingAssumption DEF SpendingTypeOK
<1>4. Increased(h) \in Nat /\ (counter # -1 => Increased(h) = counter + cost[h])
  BY <1>3 DEF Increased
<1>5. faults = 0 => counter # -1
  BY <1>1, <1>2 DEF Booked, Absent
<1>6. CASE Fault /\ counter' \in {counter, Increased(h)} /\ EndTurn(h)
  <2>1. counter' \in Nat \cup {-1}
    BY <1>3, <1>4, <1>6
  <2> QED
    BY <1>2, <1>3, <1>6, <2>1, FailedTurn
<1>7. CASE counter' = Increased(h) /\ UNCHANGED faults /\ (PurseAt(h, "expire") \/ EndTurn(h))
  <2>1. Alone(h) /\ purse'[h] \in {"idle", "expire"} /\ bill'[h] \in {bill[h], "none"}
    <3>1. CASE EndTurn(h)
      BY <1>1, <3>1, EndAlone
    <3>2. CASE PurseAt(h, "expire")
      BY <1>1, <1>2, <1>3, <3>2, AtAlone
    <3> QED
      BY <1>7, <3>1, <3>2
  <2>2. SpendingTypeOK' /\ faults = 0 => Booked'
    BY <1>1, <1>2, <1>4, <1>5, <1>7, <2>1, IncrBooked
  <2>3. counter' \in Nat \cup {-1}
    BY <1>4, <1>7
  <2> QED
    BY <1>2, <1>3, <1>7, <2>1, <2>2, <2>3, MoveKeeps
<1> QED
  BY <1>6, <1>7 DEF IncrCounter

LEMMA ExpireStep ==
  ASSUME SpendingIInv, NEW h \in Host, ExpireCounter(h)
  PROVE  SpendingIInv'
<1>1. SpendingTypeOK /\ (faults = 0 => Booked)
  BY DEF SpendingIInv
<1>2. /\ purse[h] = "expire" /\ ledger' = ledger /\ counter' = counter /\ spent' = spent /\ NoneBegins
      /\ EndTurn(h) /\ faults' = faults
  BY DEF ExpireCounter, NoneBegins
<1>3. ledger' \in [Bill -> 0..MaxCost] /\ counter' \in Nat \cup {-1} /\ spent' \in Nat
  BY <1>1, <1>2 DEF SpendingTypeOK
<1>4. Alone(h) /\ purse'[h] = "idle" /\ bill'[h] = "none"
  BY <1>1, <1>2, EndAlone
<1>5. SpendingTypeOK' /\ faults = 0 => Booked'
  BY <1>1, <1>2, <1>4, ExpireBooked
<1> QED
  BY <1>2, <1>3, <1>4, <1>5, MoveKeeps

LEMMA DieStep ==
  ASSUME SpendingIInv, NEW h \in Host, DieInTurn(h)
  PROVE  SpendingIInv'
<1>1. /\ ledger' = ledger /\ counter' = counter /\ spent' = spent /\ NoneBegins
      /\ purse[h] # "idle" /\ EndTurn(h) /\ Fault
  BY DEF DieInTurn, NoneBegins
<1>2. ledger' \in [Bill -> 0..MaxCost] /\ counter' \in Nat \cup {-1}
  BY <1>1 DEF SpendingIInv, SpendingTypeOK
<1> QED
  BY <1>1, <1>2, FailedTurn

LEMMA LoseStep ==
  ASSUME SpendingIInv, LoseCounter
  PROVE  SpendingIInv'
<1>1. /\ Fault /\ counter' = -1 /\ ledger' = ledger /\ purse' = purse /\ bill' = bill /\ sum' = sum
      /\ cost' = cost /\ runs' = runs /\ spent' = spent /\ beside' = beside
  BY DEF LoseCounter, purses
<1>2. SpendingTypeOK' /\ Delivered'
  BY <1>1 DEF SpendingIInv, SpendingTypeOK, Delivered
<1>3. FaultsOK' /\ faults' # 0
  BY <1>1, SpendingFaults DEF SpendingIInv
<1> QED
  BY <1>2, <1>3 DEF SpendingIInv

LEMMA SpendingStep ==
  ASSUME SpendingIInv, [SpendingNext]_<<spendingVars, faults>>
  PROVE  SpendingIInv'
<1>1. CASE SpendingNext
  <2>1. ASSUME NEW h \in Host, GateNext(h) \/ RecordNext(h)
        PROVE  SpendingIInv'
    BY <2>1, GetStep, SumStep, SetStep, InsertStep, IncrStep, ExpireStep DEF GateNext, RecordNext
  <2> QED
    BY <1>1, <2>1, LoseStep, BeginStep, CallStep, DieStep DEF SpendingNext
<1>2. CASE UNCHANGED <<spendingVars, faults>>
  <2>1. /\ ledger' = ledger /\ counter' = counter /\ purse' = purse /\ bill' = bill /\ sum' = sum
        /\ cost' = cost /\ runs' = runs /\ spent' = spent /\ beside' = beside /\ faults' = faults
    BY <1>2 DEF spendingVars, purses
  <2>2. SpendingTypeOK' /\ Delivered' /\ FaultsOK'
    BY <2>1 DEF SpendingIInv, SpendingTypeOK, Delivered, FaultsOK
  <2>3. Slack' = Slack /\ Passed' = Passed /\ Unentered' = Unentered /\ Rowless' = Rowless
    BY <2>1 DEF Slack, Passed, Unentered, Rowless
  <2>4. Again' = Again /\ One(Active)' = One(Active) /\ One(Active \cup {"expire"})' = One(Active \cup {"expire"})
    BY <2>1 DEF Again, One
  <2>5. (Summing' <=> Summing) /\ Credit' = Credit
    BY <2>1, <2>3, <2>4 DEF Summing, Credit
  <2>6. Credited' <=> Credited
    BY <2>3, <2>4 DEF Credited
  <2>7. Absent' <=> Absent
    BY <2>1 DEF Absent
  <2>8. (Unsummed' <=> Unsummed) /\ (Summed' <=> Summed)
    BY <2>1, <2>3, <2>4, <2>5 DEF Unsummed, Summed
  <2> QED
    BY <2>1, <2>2, <2>6, <2>7, <2>8 DEF SpendingIInv, Booked
<1> QED
  BY <1>1, <1>2

(* SpendingInductive: what the turns under way may still spend is covered   *)
(* by the counter and a turn's worth for each credit, once the last sum is  *)
(* set, and by the turns that ran beside one another before.                *)
THEOREM SpendingInductive == SpendingSpec => []SpendingIInv
<1>1. SpendingInit /\ NoFault => SpendingIInv
  BY SpendingInitial
<1>2. SpendingIInv /\ [SpendingNext]_<<spendingVars, faults>> => SpendingIInv'
  BY SpendingStep
<1> QED
  BY <1>1, <1>2, PTL DEF SpendingSpec

(* SpendingTyped: a turn has something to enter exactly from the call of    *)
(* the model to the end of recordUsage (usage/store.ts).                    *)
THEOREM SpendingTyped == SpendingSpec => []SpendingTypeOK
<1>1. SpendingIInv => SpendingTypeOK
  BY DEF SpendingIInv
<1> QED
  BY <1>1, SpendingInductive, PTL

(* OverrunIsBounded: for any limit, price, number of messages, processes and *)
(* redeliveries, a room overruns its day by one turn, one for each turn that *)
(* ran beside another and one for each redelivery (gate.ts:5-6).            *)
THEOREM OverrunIsBounded == SpendingSpec => []OverrunBound
<1>1. ASSUME SpendingIInv
      PROVE  OverrunBound
  <2>1. SUFFICES ASSUME faults = 0
                 PROVE  spent <= Limit - 1 + MaxCost * (1 + beside + Again)
    BY DEF OverrunBound
  <2>2. Booked /\ SpendingTypeOK
    BY <1>1, <2>1 DEF SpendingIInv
  <2> DEFINE y == 1 + beside + Again
  <2>3. /\ MaxCost \in Nat /\ Limit \in Nat \ {0} /\ spent \in Nat /\ beside \in Nat /\ Again \in Nat
        /\ Amount(Slack, MaxCost) \in Nat /\ Amount(Passed, MaxCost) \in Nat
        /\ One(Active \cup {"expire"}) \in {0, 1} /\ y \in Int /\ MaxCost * y \in Int
    BY <2>2, SpendingNumbers, SlackTyped, Counts
  <2>4. CASE Summing
    <3> DEFINE x == One(Active \cup {"expire"}) + beside
    <3>1. Amount(Slack, MaxCost) + spent <= MaxCost * x
      BY <2>2, <2>4 DEF Booked, Unsummed
    <3>2. PICK k \in {-1, 0, 1} : k = 0
      OBVIOUS
    <3>3. x \in Int /\ y \in Int /\ y >= x + k
      BY <2>3, <3>2
    <3> HIDE DEF x, y
    <3>4. MaxCost * y >= MaxCost * x + k * MaxCost /\ k * MaxCost = 0 /\ MaxCost * x \in Int
      BY <2>3, <3>2, <3>3, MoreTurns
    <3>5. spent <= Limit - 1 + MaxCost * y
      BY <2>3, <3>1, <3>4
    <3> QED
      BY <3>5 DEF y
  <2>5. CASE ~Summing
    <3>1. Amount(Passed, MaxCost) + spent <= Limit - 1 + MaxCost * y
      BY <2>2, <2>5 DEF Booked, Summed
    <3> HIDE DEF y
    <3>2. spent <= Limit - 1 + MaxCost * y
      BY <2>3, <3>1
    <3> QED
      BY <3>2 DEF y
  <2> QED
    BY <2>4, <2>5
<1> QED
  BY <1>1, SpendingInductive, PTL

-----------------------------------------------------------------------------
(* Context                                                                 *)

\* Where a turn that has an entry to answer has its window.
InPrompt == {"owner", "pending", "speakers", "recall", "agent"}

\* The window is a stretch of the history, all of it or as long as one may be, and
\* the entry to answer is in it or before it.
Stretch(base, n) ==
  /\ window = [i \in 1..n |-> base + i] /\ base + n <= Len(talk)
  /\ n <= ShownTurns /\ (n = ShownTurns \/ base = 0)
  /\ station \in InPrompt /\ question # 0 => n > 0 /\ question <= base + n

Windowed == \E base, n \in Nat : Stretch(base, n)

\* Which turns have an entry to answer, and what no turn has at its beginning.
Answering ==
  /\ station = "idle" => question = 0 /\ notices = {}
  /\ station \in {"history", "pending", "speakers", "recall", "agent"} => question # 0
  /\ station \notin {"agent", "learn"} => recalled = {}

\* What has been so while the turn ran includes what is so now.
Watching ==
  /\ held \subseteq Landlord \cup {"none"}
  /\ station # "idle" => holder \in held /\ Opened \subseteq open /\ stayed \subseteq Opened

\* The room was the owner's at some time, or nobody's.
Belongs(one, who) == one \in Landlord \cap who \/ (one = "room" /\ "none" \in who)

Scoped ==
  station \in {"pending", "speakers", "recall", "agent", "learn"} =>
    /\ sort = "personal" => scope \in Talker /\ (question # 0 => scope = talk[question])
    /\ sort = "group" => Belongs(scope, held)
    /\ sort \in {"direct", "strayed"} => scope = "none"

Learned == sort = "group" => \A f \in facts : f.here => Belongs(f.owner, f.held)

\* What a turn has gathered is still so.
Gathered ==
  /\ notices \subseteq open
  /\ recalled \subseteq Mine
  /\ faults = 0 /\ station \in {"speakers", "recall", "agent"} => stayed \cap Answerable \subseteq notices
  /\ faults = 0 /\ station \in {"recall", "agent"} =>
       \A i \in DOMAIN window : IsUser(window[i]) => talk[window[i]] \in known

ContextIInv ==
  /\ FaultsOK /\ ContextTypeOK
  /\ Windowed /\ Answering /\ Watching /\ Scoped /\ Learned /\ Gathered

-----------------------------------------------------------------------------
\* The values of the constants and variables of Context that are numbers or sequences.
LEMMA ContextShapes ==
  ASSUME ContextIInv
  PROVE  /\ ShownTurns \in Nat \ {0} /\ MaxTalk \in Nat /\ MaxFaults \in Nat /\ faults \in Nat
         /\ talk \in Seq(Talker \cup {"agent"}) /\ Len(talk) \in Nat /\ Len(talk) <= MaxTalk
         /\ \A e \in 1..Len(talk) : talk[e] \in Talker \cup {"agent"}
         /\ question \in Nat /\ question <= Len(talk)
         /\ "agent" \notin Talker /\ "none" \notin Talker \cup Landlord
         /\ "room" \notin Talker \cup Landlord /\ Landlord \cap Talker = {}
<1>1. talk \in Seq(Talker \cup {"agent"}) /\ Len(talk) <= MaxTalk /\ question \in 0..Len(talk)
  BY DEF ContextIInv, ContextTypeOK
<1>2. faults \in 0..MaxFaults /\ MaxFaults \in Nat
  BY PlatformAssumption DEF ContextIInv, FaultsOK
<1> QED
  BY <1>1, <1>2, ContextAssumption, LenProperties, ElementOfSeq

\* What a window is that is a stretch of the first entries.
LEMMA StretchIs ==
  ASSUME NEW w, NEW base \in Nat, NEW n \in Nat, NEW top \in Nat,
         w = [i \in 1..n |-> base + i], base + n <= top
  PROVE  /\ w \in Seq(Nat) /\ Len(w) = n /\ DOMAIN w = 1..n
         /\ \A i \in DOMAIN w : w[i] \in 1..top /\ w[i] = w[1] + i - 1 /\ w[i] = base + i
         /\ n = 0 => w = <<>>
         /\ n > 0 => w # <<>>
<1>1. w \in [1..n -> Nat] /\ DOMAIN w = 1..n
  OBVIOUS
<1>2. w \in Seq(Nat)
  BY <1>1, SeqDef
<1>3. Len(w) = n
  BY <1>1, <1>2, LenProperties
<1>4. \A i \in 1..n : w[i] = base + i
  OBVIOUS
<1>5. ASSUME NEW i \in 1..n
      PROVE  w[i] \in 1..top /\ w[i] = w[1] + i - 1
  <2>1. 1 \in 1..n
    OBVIOUS
  <2> QED
    BY <1>4, <2>1
<1>6. n = 0 <=> w = <<>>
  BY <1>2, <1>3, EmptySeq
<1> QED
  BY <1>1, <1>2, <1>3, <1>4, <1>5, <1>6

\* A nonempty set of positions has a last one.
LEMMA LastOf ==
  ASSUME NEW n \in Nat, NEW S \in SUBSET (1..n), S # {}
  PROVE  Max(S) \in S /\ \A u \in S : u <= Max(S)
<1> DEFINE T == {n - u : u \in S}
<1>1. T \subseteq Nat /\ T # {}
  <2>1. ASSUME NEW u \in S
        PROVE  n - u \in Nat
    <3>1. u \in 1..n
      OBVIOUS
    <3> QED
      BY <3>1
  <2>2. PICK u \in S : TRUE
    OBVIOUS
  <2>3. n - u \in T
    OBVIOUS
  <2> QED
    BY <2>1, <2>3
<1>2. IsWellFoundedOn(OpToRel(<, Nat), Nat)
  BY NatLessThanWellFounded
<1>3. PICK t \in T : \A y \in T : ~(<<y, t>> \in OpToRel(<, Nat))
  BY <1>1, <1>2, WFMin
<1>4. \A y \in T : ~(y < t)
  BY <1>1, <1>3 DEF OpToRel
<1>5. PICK m \in S : t = n - m
  OBVIOUS
<1>6. \A u \in S : m >= u
  BY <1>4, <1>5
<1>7. \E x \in S : \A y \in S : x >= y
  BY <1>6
<1>8. Max(S) \in S /\ \A y \in S : Max(S) >= y
  BY <1>7 DEF Max
<1> QED
  BY <1>8

\* The numbers after base, and the same with the one at m at the end.
Counting(w, base, n) == w \in Seq(Nat) /\ Len(w) = n /\ \A i \in 1..n : w[i] = base + i

Moved(s, base, n, m) ==
  /\ Len(s) = n /\ DOMAIN s = 1..n
  /\ \A i \in 1..n : s[i] = IF i < m THEN base + i ELSE IF i < n THEN base + i + 1 ELSE base + m

(* MovedLast: what endWithUserTurn makes of a stretch when it moves the entry *)
(* at m to the end.                                                         *)
LEMMA MovedLast ==
  ASSUME NEW w, NEW base \in Nat, NEW n \in Nat, NEW m \in 1..n, Counting(w, base, n),
         NEW s, s = Append(RemoveAt(w, m), w[m])
  PROVE  Moved(s, base, n, m)
<1> DEFINE a == SubSeq(w, 1, m - 1)
           b == SubSeq(w, m + 1, n)
<1>1. w \in Seq(Nat) /\ Len(w) = n /\ \A i \in 1..n : w[i] = base + i /\ w[i] \in Nat
  BY DEF Counting
<1>2. a \in Seq(Nat) /\ Len(a) = m - 1 /\ \A i \in 1..(m - 1) : a[i] = w[i]
  <2>1. \A i \in 1..(m - 1) : w[i] \in Nat
    BY <1>1
  <2>2. /\ a \in Seq(Nat)
        /\ Len(a) = IF 1 <= m - 1 THEN m - 1 - 1 + 1 ELSE 0
        /\ \A i \in 1..(m - 1 - 1 + 1) : a[i] = w[1 + i - 1]
    <3>1. 1 \in Int /\ m - 1 \in Int
      OBVIOUS
    <3> HIDE DEF a
    <3> QED
      BY <2>1, <3>1, SubSeqProperties, SMTT(60) DEF a
  <2> HIDE DEF a
  <2> QED
    BY <2>2
<1>3. b \in Seq(Nat) /\ Len(b) = n - m /\ \A i \in 1..(n - m) : b[i] = w[m + i]
  <2>1. \A i \in (m + 1)..n : w[i] \in Nat
    BY <1>1
  <2>2. /\ b \in Seq(Nat)
        /\ Len(b) = IF m + 1 <= n THEN n - (m + 1) + 1 ELSE 0
        /\ \A i \in 1..(n - (m + 1) + 1) : b[i] = w[m + 1 + i - 1]
    <3>1. m + 1 \in Int /\ n \in Int
      OBVIOUS
    <3> HIDE DEF b
    <3> QED
      BY <2>1, <3>1, SubSeqProperties, SMTT(60) DEF b
  <2> HIDE DEF b
  <2> QED
    BY <2>2
<1> HIDE DEF a, b
<1>4. /\ a \o b \in Seq(Nat) /\ Len(a \o b) = n - 1
      /\ \A i \in 1..(n - 1) : (a \o b)[i] = IF i < m THEN w[i] ELSE w[i + 1]
  <2>1. /\ a \o b \in Seq(Nat) /\ Len(a \o b) = Len(a) + Len(b)
        /\ \A i \in 1..(Len(a) + Len(b)) : (a \o b)[i] = IF i <= Len(a) THEN a[i] ELSE b[i - Len(a)]
    BY <1>2, <1>3, ConcatProperties
  <2>a. Len(a) = m - 1 /\ Len(a) + Len(b) = n - 1
    BY <1>2, <1>3
  <2>b. /\ Len(a \o b) = n - 1
        /\ \A i \in 1..(n - 1) : (a \o b)[i] = IF i <= m - 1 THEN a[i] ELSE b[i - (m - 1)]
    BY <2>1, <2>a, Zenon
  <2>2. ASSUME NEW i \in 1..(n - 1)
        PROVE  (a \o b)[i] = IF i < m THEN w[i] ELSE w[i + 1]
    <3>1. (a \o b)[i] = IF i <= m - 1 THEN a[i] ELSE b[i - (m - 1)]
      BY <2>b
    <3>2. CASE i < m
      BY <1>2, <3>1, <3>2
    <3>3. CASE ~(i < m)
      <4>1. i - (m - 1) \in 1..(n - m) /\ m + (i - (m - 1)) = i + 1
        BY <3>3
      <4> QED
        BY <1>3, <3>1, <3>3, <4>1
    <3> QED
      BY <3>2, <3>3
  <2> QED
    BY <2>1, <2>b, <2>2
<1>5. w[m] \in Nat
  BY <1>1
<1>0. s = Append(a \o b, w[m])
  BY <1>1 DEF RemoveAt, a, b
<1>6. /\ s \in Seq(Nat) /\ Len(s) = n - 1 + 1
      /\ \A i \in 1..(n - 1) : s[i] = (a \o b)[i]
      /\ s[n - 1 + 1] = w[m]
  BY <1>0, <1>4, <1>5, AppendProperties
<1>7. DOMAIN s = 1..n /\ Len(s) = n /\ s[n] = w[m]
  BY <1>6, LenProperties
<1>8. ASSUME NEW i \in 1..n
      PROVE  s[i] = IF i < m THEN base + i ELSE IF i < n THEN base + i + 1 ELSE base + m
  <2>1. CASE i = n
    BY <1>1, <1>7, <2>1
  <2>2. CASE i # n
    <3>1. i \in 1..(n - 1) /\ i + 1 \in 1..n /\ i < n
      BY <2>2
    <3>2. s[i] = IF i < m THEN w[i] ELSE w[i + 1]
      BY <1>4, <1>6, <3>1
    <3>3. w[i] = base + i /\ w[i + 1] = base + i + 1
      BY <1>1, <3>1
    <3> QED
      BY <3>1, <3>2, <3>3
  <2> QED
    BY <2>1, <2>2
<1> QED
  BY <1>7, <1>8 DEF Moved

\* A position among the first entries is one.
LEMMA WindowShape ==
  ASSUME ContextIInv, NEW base \in Nat, NEW n \in Nat, Stretch(base, n)
  PROVE  /\ window \in Seq(Nat) /\ Len(window) = n /\ DOMAIN window = 1..n
         /\ \A i \in 1..n : window[i] \in 1..Len(talk) /\ window[i] = base + i
<1>1. window = [i \in 1..n |-> base + i] /\ base + n <= Len(talk) /\ Len(talk) \in Nat
  BY ContextShapes DEF Stretch
<1> QED
  BY <1>1, StretchIs

LEMMA ContextInitial ==
  ASSUME ContextInit, NoFault
  PROVE  ContextIInv
<1>1. FaultsOK
  BY PlatformAssumption DEF NoFault, FaultsOK
<1>2. /\ talk \in Seq(Talker \cup {"agent"}) /\ Len(talk) = 0
      /\ DOMAIN window = {} /\ window = [i \in 1..0 |-> 0 + i]
  BY EmptySeq DEF ContextInit
<1>3. facts \subseteq [owner : Owner \ {"none"}, here : BOOLEAN, held : SUBSET (Landlord \cup {"none"})]
  <2>1. "none" \notin Landlord \cup Talker
    BY ContextAssumption
  <2>2. ASSUME NEW w \in Landlord \cup Talker
        PROVE  /\ w \in Owner \ {"none"} /\ FALSE \in BOOLEAN
               /\ {w} \cap Landlord \in SUBSET (Landlord \cup {"none"})
    BY <2>1 DEF Owner
  <2>3. ASSUME NEW f \in Elsewhere
        PROVE  f \in [owner : Owner \ {"none"}, here : BOOLEAN, held : SUBSET (Landlord \cup {"none"})]
    <3>1. PICK w \in Landlord \cup Talker : f = [owner |-> w, here |-> FALSE, held |-> {w} \cap Landlord]
      BY DEF Elsewhere
    <3> QED
      BY <2>2, <3>1
  <2> QED
    BY <2>3 DEF ContextInit
<1>4. ContextTypeOK
  <2>a. 0 \in 0..Len(talk) /\ Len(talk) <= MaxTalk /\ 0 \in 0..MaxTurns /\ 0 \in 0..MaxBinds
    BY <1>2, ContextAssumption
  <2>b. question = 0 /\ turns = 0 /\ binds = 0
    BY DEF ContextInit
  <2>1. /\ question \in 0..Len(talk) /\ (question # 0 => talk[question] \in Talker)
        /\ turns \in 0..MaxTurns /\ binds \in 0..MaxBinds /\ Len(talk) <= MaxTalk
    BY <2>a, <2>b
  <2>2. \A i \in DOMAIN window : window[i] \in Entries /\ window[i] = window[1] + i - 1
    BY <1>2
  <2> QED
    BY <1>2, <1>3, <2>1, <2>2 DEF ContextInit, ContextTypeOK, Owner
<1>5. Windowed
  <2>1. Stretch(0, 0)
    BY <1>2, ContextAssumption DEF ContextInit, Stretch, InPrompt
  <2> QED
    BY <2>1 DEF Windowed
<1>6. Answering /\ Watching /\ Scoped /\ Gathered
  BY DEF ContextInit, Answering, Watching, Scoped, Gathered, Opened
<1>7. Learned
  BY DEF ContextInit, Learned, Elsewhere
<1> QED
  BY <1>1, <1>4, <1>5, <1>6, <1>7 DEF ContextIInv

\* A failure is counted.
LEMMA MoreFaults ==
  ASSUME ContextIInv, UNCHANGED faults \/ Fault
  PROVE  FaultsOK' /\ (faults' = 0 => faults = 0)
BY PlatformAssumption DEF ContextIInv, FaultsOK, Fault

(* AtRest: a turn that is over leaves nothing of itself.                    *)
LEMMA AtRest ==
  ASSUME ContextIInv, EndContext, UNCHANGED <<outside, turns>>, UNCHANGED faults \/ Fault,
         facts' \subseteq [owner : Owner \ {"none"}, here : BOOLEAN, held : SUBSET (Landlord \cup {"none"})],
         Learned'
  PROVE  ContextIInv'
<1>1. FaultsOK'
  BY MoreFaults
<1>2. /\ sort' = sort /\ talk' = talk /\ holder' = holder /\ ticket' = ticket /\ binds' = binds
      /\ turns' = turns
  BY DEF outside
<1>3. Windowed'
  <2>1. window' = [i \in 1..0 |-> 0 + i]
    BY DEF EndContext
  <2>2. 0 <= Len(talk') /\ 0 <= ShownTurns /\ 0 + 0 = 0
    BY <1>2, ContextShapes
  <2>3. Stretch(0, 0)'
    BY <2>1, <2>2 DEF EndContext, Stretch, InPrompt, To
  <2> QED
    BY <2>3 DEF Windowed
<1>4. ContextTypeOK'
  <2>1. question' = 0 /\ question' \in 0..Len(talk')
    BY <1>2, ContextShapes DEF EndContext
  <2>2. /\ talk' \in Seq(Talker \cup {"agent"}) /\ Len(talk') <= MaxTalk
        /\ turns' \in 0..MaxTurns /\ binds' \in 0..MaxBinds
    BY <1>2 DEF ContextIInv, ContextTypeOK
  <2>3. DOMAIN window' = {}
    BY DEF EndContext
  <2>4. /\ sort' \in {"group", "direct", "personal", "strayed"}
        /\ holder' \in Landlord \cup {"none"} /\ (~Grouped' => holder' = "none")
        /\ ticket' \in [Ticket -> {"none", "open", "closed"}]
    BY <1>2 DEF ContextIInv, ContextTypeOK, Grouped
  <2>5. /\ station' = "idle" /\ scope' = "none" /\ notices' = {} /\ known' = {} /\ recalled' = {}
        /\ held' = {} /\ open' = {} /\ stayed' = {}
    BY DEF EndContext, To
  <2>6. \A i \in DOMAIN window' : window'[i] \in Entries' /\ window'[i] = window'[1] + i - 1
    BY <2>3
  <2> QED
    BY <2>1, <2>2, <2>4, <2>5, <2>6 DEF ContextTypeOK, Owner
<1>5. Answering' /\ Watching' /\ Scoped' /\ Gathered'
  BY DEF EndContext, To, Answering, Watching, Scoped, Gathered
<1> QED
  BY <1>1, <1>3, <1>4, <1>5 DEF ContextIInv

\* The same of a turn that has learned nothing.
LEMMA AtRestUnlearned ==
  ASSUME ContextIInv, EndContext, UNCHANGED <<outside, facts, turns>>, UNCHANGED faults \/ Fault
  PROVE  ContextIInv'
<1>1. facts' = facts /\ sort' = sort
  BY DEF outside
<1>2. facts' \subseteq [owner : Owner \ {"none"}, here : BOOLEAN, held : SUBSET (Landlord \cup {"none"})]
  BY <1>1 DEF ContextIInv, ContextTypeOK
<1>3. Learned'
  BY <1>1 DEF ContextIInv, Learned
<1> QED
  BY <1>2, <1>3, AtRest

LEMMA LostStep ==
  ASSUME ContextIInv, Lost
  PROVE  ContextIInv'
BY AtRestUnlearned DEF Lost

-----------------------------------------------------------------------------
\* The history has grown, or stands.
Longer ==
  /\ talk' \in Seq(Talker \cup {"agent"}) /\ Len(talk') <= MaxTalk
  /\ Len(talk') >= Len(talk) /\ \A e \in 1..Len(talk) : talk'[e] = talk[e]

LEMMA HistoryStands ==
  ASSUME ContextIInv, talk' = talk
  PROVE  Longer
BY ContextShapes DEF Longer

LEMMA Growing ==
  ASSUME ContextIInv, NEW p \in Talker \cup {"agent"}, Len(talk) < MaxTalk, talk' = Append(talk, p)
  PROVE  Longer
<1>1. /\ talk' \in Seq(Talker \cup {"agent"}) /\ Len(talk') = Len(talk) + 1
      /\ \A e \in 1..Len(talk) : talk'[e] = talk[e]
  BY ContextShapes, AppendProperties
<1>2. Len(talk) \in Nat /\ MaxTalk \in Nat
  BY ContextShapes
<1> QED
  BY <1>1, <1>2 DEF Longer

\* A window stays a stretch of the history.
LEMMA WindowStands ==
  ASSUME ContextIInv, Longer, window' = window, question' = question,
         station' \in InPrompt /\ question # 0 => station \in InPrompt
  PROVE  Windowed'
<1>1. PICK base \in Nat, n \in Nat : Stretch(base, n)
  BY DEF ContextIInv, Windowed
<1>2. Len(talk) \in Nat /\ Len(talk') \in Nat /\ Len(talk') >= Len(talk)
  BY ContextShapes, LenProperties DEF Longer
<1>3. base + n <= Len(talk')
  BY <1>1, <1>2 DEF Stretch
<1>4. Stretch(base, n)'
  BY <1>1, <1>3 DEF Stretch
<1> QED
  BY <1>4 DEF Windowed

\* What the type invariant says of the history and of what a turn reads of it.
TalkTyped ==
  /\ talk \in Seq(Talker \cup {"agent"}) /\ Len(talk) <= MaxTalk
  /\ question \in 0..Len(talk) /\ (question # 0 => talk[question] \in Talker)
  /\ \A i \in DOMAIN window : window[i] \in Entries /\ window[i] = window[1] + i - 1

LEMMA TalkStands ==
  ASSUME ContextIInv, Longer, Windowed',
         question' = question \/ (question' \in Entries /\ talk[question'] \in Talker)
  PROVE  TalkTyped'
<1>1. Len(talk) \in Nat /\ Len(talk') \in Nat /\ Len(talk') >= Len(talk)
  BY ContextShapes, LenProperties DEF Longer
<1>2. question' \in 0..Len(talk) /\ (question' # 0 => talk[question'] \in Talker)
  BY <1>1 DEF ContextIInv, ContextTypeOK, Entries
<1>3. question' \in 0..Len(talk') /\ (question' # 0 => talk'[question'] \in Talker)
  BY <1>1, <1>2 DEF Longer
<1>4. PICK base \in Nat, n \in Nat : window' = [i \in 1..n |-> base + i] /\ base + n <= Len(talk')
  BY DEF Windowed, Stretch
<1>5. \A i \in DOMAIN window' : window'[i] \in 1..Len(talk') /\ window'[i] = window'[1] + i - 1
  BY <1>1, <1>4, StretchIs
<1> QED
  BY <1>3, <1>5 DEF TalkTyped, Entries, Longer

\* The rest of it.
RestTyped ==
  /\ sort \in {"group", "direct", "personal", "strayed"}
  /\ holder \in Landlord \cup {"none"} /\ (~Grouped => holder = "none")
  /\ ticket \in [Ticket -> {"none", "open", "closed"}]
  /\ facts \subseteq [owner : Owner \ {"none"}, here : BOOLEAN, held : SUBSET (Landlord \cup {"none"})]
  /\ station \in {"idle", "history", "owner", "pending", "speakers", "recall", "agent", "learn"}
  /\ scope \in Owner /\ notices \subseteq Answerable /\ known \subseteq Talker
  /\ recalled \subseteq facts
  /\ stayed \subseteq open /\ open \subseteq Ticket
  /\ station = "idle" <=> held = {}

CountsTyped == turns \in 0..MaxTurns /\ binds \in 0..MaxBinds

LEMMA TypeParts ==
  ContextTypeOK <=>
    /\ TalkTyped /\ RestTyped /\ CountsTyped
    /\ station \in {"pending", "speakers", "recall", "agent"} => window # <<>>
BY DEF ContextTypeOK, TalkTyped, RestTyped, CountsTyped

\* A turn that has an entry to answer has a window.
LEMMA WindowThere ==
  ASSUME Windowed', station' \in {"pending", "speakers", "recall", "agent"}, question' # 0, Len(talk') \in Nat
  PROVE  window' # <<>>
<1>1. PICK base \in Nat, n \in Nat : Stretch(base, n)'
  BY DEF Windowed
<1>2. window' = [i \in 1..n |-> base + i] /\ base + n <= Len(talk') /\ n > 0
  BY <1>1 DEF Stretch, InPrompt
<1> QED
  BY <1>2, StretchIs

\* The conjuncts of the invariant together.
LEMMA Together ==
  ASSUME ContextIInv, UNCHANGED faults \/ Fault, Longer, Windowed', Answering',
         question' = question \/ (question' \in Entries /\ talk[question'] \in Talker),
         RestTyped', CountsTyped', Watching', Scoped', Learned', Gathered'
  PROVE  ContextIInv'
<1>1. FaultsOK'
  BY MoreFaults
<1>2. TalkTyped'
  BY TalkStands
<1>3. Len(talk') \in Nat
  BY LenProperties DEF Longer
<1>4. station' \in {"pending", "speakers", "recall", "agent"} => window' # <<>>
  BY <1>3, WindowThere DEF Answering
<1>5. ContextTypeOK'
  <2>1. ContextTypeOK' <=>
          /\ TalkTyped' /\ RestTyped' /\ CountsTyped'
          /\ station' \in {"pending", "speakers", "recall", "agent"} => window' # <<>>
    BY DEF ContextTypeOK, TalkTyped, RestTyped, CountsTyped
  <2> QED
    BY <1>2, <1>4, <2>1
<1> QED
  BY <1>1, <1>5 DEF ContextIInv

\* What a window shows of the history stays so.
LEMMA ShownStands ==
  ASSUME ContextIInv, Longer, window' = window, NEW i \in DOMAIN window
  PROVE  talk'[window[i]] = talk[window[i]]
<1>1. PICK base \in Nat, n \in Nat : Stretch(base, n)
  BY DEF ContextIInv, Windowed
<1>2. window[i] \in 1..Len(talk)
  BY <1>1, WindowShape
<1> QED
  BY <1>2 DEF Longer

(* TalkGrows: what is written meanwhile, and the answer, change nothing of   *)
(* what the turn has gathered.                                              *)
LEMMA TalkGrows ==
  ASSUME ContextIInv, Longer, UNCHANGED <<sort, holder, ticket, binds, facts, gathered, turns, watched>>,
         station' = station \/ (station = "agent" /\ station' = "learn"),
         UNCHANGED faults \/ Fault
  PROVE  ContextIInv'
<1>1. /\ sort' = sort /\ holder' = holder /\ ticket' = ticket /\ binds' = binds /\ facts' = facts
      /\ question' = question /\ window' = window /\ scope' = scope /\ notices' = notices
      /\ known' = known /\ recalled' = recalled /\ turns' = turns
      /\ held' = held /\ open' = open /\ stayed' = stayed
  BY DEF gathered, watched
<1>2. Windowed'
  BY <1>1, WindowStands DEF InPrompt
<1>3. Answering'
  BY <1>1 DEF ContextIInv, Answering
<1>4. RestTyped' /\ CountsTyped'
  <2>1. RestTyped /\ CountsTyped
    BY TypeParts DEF ContextIInv
  <2> QED
    BY <1>1, <2>1 DEF RestTyped, CountsTyped, Grouped
<1>5. Watching' /\ Learned'
  BY <1>1 DEF ContextIInv, Watching, Learned, Opened
<1>6. Scoped'
  <2>1. question # 0 => talk'[question] = talk[question]
    BY ContextShapes DEF Longer
  <2>2. station' \in {"pending", "speakers", "recall", "agent", "learn"}
          => station \in {"pending", "speakers", "recall", "agent", "learn"}
    OBVIOUS
  <2> QED
    BY <1>1, <2>1, <2>2 DEF ContextIInv, Scoped
<1>7. Gathered'
  <2>1. faults' = 0 => faults = 0
    BY MoreFaults
  <2>2. \A i \in DOMAIN window : talk'[window[i]] = talk[window[i]]
    BY <1>1, ShownStands
  <2>3. notices' \subseteq open' /\ recalled' \subseteq Mine'
    BY <1>1 DEF ContextIInv, Gathered, Mine
  <2>4. faults' = 0 /\ station' \in {"speakers", "recall", "agent"} => stayed' \cap Answerable \subseteq notices'
    BY <1>1, <2>1 DEF ContextIInv, Gathered
  <2>5. ASSUME faults' = 0, station' \in {"recall", "agent"}, NEW i \in DOMAIN window', IsUser(window[i])'
        PROVE  talk'[window'[i]] \in known'
    <3>1. talk'[window[i]] = talk[window[i]] /\ IsUser(window[i])
      BY <1>1, <2>2, <2>5 DEF IsUser
    <3>2. station \in {"recall", "agent"}
      BY <2>5
    <3> QED
      BY <1>1, <2>1, <2>5, <3>1, <3>2 DEF ContextIInv, Gathered
  <2>6. faults' = 0 /\ station' \in {"recall", "agent"} =>
          \A i \in DOMAIN window' : IsUser(window[i])' => talk'[window'[i]] \in known'
    BY <2>5
  <2> QED
    BY <1>1, <2>3, <2>4, <2>6 DEF Gathered, IsUser
<1> QED
  BY <1>1, <1>2, <1>3, <1>4, <1>5, <1>6, <1>7, Together

-----------------------------------------------------------------------------
(* What others do beside the turn.                                         *)

\* What Aside leaves alone.
LEMMA AsideLeaves ==
  ASSUME Aside
  PROVE  /\ sort' = sort /\ facts' = facts /\ station' = station /\ turns' = turns /\ faults' = faults
         /\ question' = question /\ window' = window /\ scope' = scope /\ notices' = notices
         /\ known' = known /\ recalled' = recalled
BY DEF Aside, gathered

LEMMA SayStep ==
  ASSUME ContextIInv, NEW p \in Talker, Say(p)
  PROVE  ContextIInv'
<1>1. Longer
  <2>1. Len(talk) < MaxTalk /\ talk' = Append(talk, p) /\ p \in Talker \cup {"agent"}
    BY DEF Say
  <2> QED
    BY <2>1, Growing
<1>2. UNCHANGED <<sort, holder, ticket, binds, facts, gathered, turns, watched>> /\ station' = station
      /\ UNCHANGED faults
  BY DEF Say, Aside
<1> QED
  BY <1>1, <1>2, TalkGrows

\* What connecting the room, or a request of another one, leaves of the invariant.
LEMMA BesideLeaves ==
  ASSUME ContextIInv, Aside, talk' = talk
  PROVE  /\ Longer /\ Windowed' /\ Answering' /\ Learned'
         /\ recalled' \subseteq Mine'
         /\ faults' = 0 /\ station' \in {"recall", "agent"} =>
              \A i \in DOMAIN window' : IsUser(window[i])' => talk'[window'[i]] \in known'
<1>1. Longer
  BY HistoryStands
<1>2. Windowed'
  BY <1>1, AsideLeaves, WindowStands
<1>3. Answering' /\ Learned'
  BY AsideLeaves DEF ContextIInv, Answering, Learned
<1>4. recalled' \subseteq Mine'
  BY AsideLeaves DEF ContextIInv, Gathered, Mine
<1>5. faults' = 0 /\ station' \in {"recall", "agent"} =>
        \A i \in DOMAIN window' : IsUser(window[i])' => talk'[window'[i]] \in known'
  BY AsideLeaves DEF ContextIInv, Gathered, IsUser
<1> QED
  BY <1>1, <1>2, <1>3, <1>4, <1>5

LEMMA ConnectStep ==
  ASSUME ContextIInv, NEW c \in Landlord, Connect(c)
  PROVE  ContextIInv'
<1>1. /\ Aside /\ talk' = talk /\ ticket' = ticket /\ open' = open /\ stayed' = stayed
      /\ holder' = c /\ binds < MaxBinds /\ binds' = binds + 1 /\ Grouped
      /\ station = "idle" => held' = {}
      /\ station # "idle" => held' = held \cup {c}
  BY DEF Connect, HeldBy
<1>2. station = "idle" <=> held = {}
  BY DEF ContextIInv, ContextTypeOK
<1>3. held \subseteq held' /\ (station' = "idle" <=> held' = {})
  BY <1>1, <1>2, AsideLeaves
<1>4. RestTyped'
  <2>1. RestTyped
    BY TypeParts DEF ContextIInv
  <2> QED
    BY <1>1, <1>3, <2>1, AsideLeaves DEF RestTyped, Grouped
<1>5. CountsTyped'
  <2>1. CountsTyped /\ MaxBinds \in Nat
    BY TypeParts, ContextAssumption DEF ContextIInv
  <2> QED
    BY <1>1, <2>1, AsideLeaves DEF CountsTyped
<1>6. Watching'
  BY <1>1, AsideLeaves DEF ContextIInv, Watching, Opened
<1>7. Scoped'
  BY <1>1, <1>3, AsideLeaves DEF ContextIInv, Scoped, Belongs
<1>8. Gathered'
  <2>1. /\ notices' \subseteq open'
        /\ faults' = 0 /\ station' \in {"speakers", "recall", "agent"} => stayed' \cap Answerable \subseteq notices'
    BY <1>1, AsideLeaves DEF ContextIInv, Gathered
  <2> QED
    BY <1>1, <2>1, BesideLeaves DEF Gathered
<1> QED
  BY <1>1, <1>4, <1>5, <1>6, <1>7, <1>8, AsideLeaves, BesideLeaves, Together

LEMMA OpenTicketStep ==
  ASSUME ContextIInv, NEW t \in Ticket, OpenTicket(t)
  PROVE  ContextIInv'
<1>1. /\ Aside /\ talk' = talk /\ holder' = holder /\ binds' = binds /\ held' = held /\ stayed' = stayed
      /\ ticket[t] = "none" /\ ticket' = [ticket EXCEPT ![t] = "open"]
      /\ open' = IF station = "idle" THEN open ELSE open \cup {t}
  BY DEF OpenTicket
<1>2. ticket \in [Ticket -> {"none", "open", "closed"}]
  BY DEF ContextIInv, ContextTypeOK
<1>3. Opened' = Opened \cup {t} /\ open \subseteq open' /\ (station # "idle" => open' = open \cup {t})
      /\ open' \subseteq open \cup {t}
  BY <1>1, <1>2 DEF Opened
<1>4. RestTyped' /\ CountsTyped'
  <2>1. RestTyped /\ CountsTyped
    BY TypeParts DEF ContextIInv
  <2>2. ticket' \in [Ticket -> {"none", "open", "closed"}]
    BY <1>1, <1>2
  <2> QED
    BY <1>1, <1>3, <2>1, <2>2, AsideLeaves DEF RestTyped, CountsTyped, Grouped
<1>5. Watching'
  BY <1>1, <1>3, AsideLeaves DEF ContextIInv, Watching
<1>6. Scoped'
  BY <1>1, AsideLeaves DEF ContextIInv, Scoped
<1>7. Gathered'
  <2>1. /\ notices' \subseteq open'
        /\ faults' = 0 /\ station' \in {"speakers", "recall", "agent"} => stayed' \cap Answerable \subseteq notices'
    BY <1>1, <1>3, AsideLeaves DEF ContextIInv, Gathered
  <2> QED
    BY <1>1, <2>1, BesideLeaves DEF Gathered
<1> QED
  BY <1>1, <1>4, <1>5, <1>6, <1>7, AsideLeaves, BesideLeaves, Together

LEMMA CloseTicketStep ==
  ASSUME ContextIInv, NEW t \in Ticket, CloseTicket(t)
  PROVE  ContextIInv'
<1>1. /\ Aside /\ talk' = talk /\ holder' = holder /\ binds' = binds /\ held' = held /\ open' = open
      /\ ticket[t] = "open" /\ ticket' = [ticket EXCEPT ![t] = "closed"] /\ stayed' = stayed \ {t}
  BY DEF CloseTicket
<1>2. ticket \in [Ticket -> {"none", "open", "closed"}]
  BY DEF ContextIInv, ContextTypeOK
<1>3. Opened' = Opened \ {t}
  BY <1>1, <1>2 DEF Opened
<1>4. RestTyped' /\ CountsTyped'
  <2>1. RestTyped /\ CountsTyped
    BY TypeParts DEF ContextIInv
  <2>2. ticket' \in [Ticket -> {"none", "open", "closed"}]
    BY <1>1, <1>2
  <2> QED
    BY <1>1, <2>1, <2>2, AsideLeaves DEF RestTyped, CountsTyped, Grouped
<1>5. Watching'
  BY <1>1, <1>3, AsideLeaves DEF ContextIInv, Watching
<1>6. Scoped'
  BY <1>1, AsideLeaves DEF ContextIInv, Scoped
<1>7. Gathered'
  <2>1. /\ notices' \subseteq open'
        /\ faults' = 0 /\ station' \in {"speakers", "recall", "agent"} => stayed' \cap Answerable \subseteq notices'
    BY <1>1, AsideLeaves DEF ContextIInv, Gathered
  <2> QED
    BY <1>1, <2>1, BesideLeaves DEF Gathered
<1> QED
  BY <1>1, <1>4, <1>5, <1>6, <1>7, AsideLeaves, BesideLeaves, Together

-----------------------------------------------------------------------------
(* The turn.                                                               *)

LEMMA StartStep ==
  ASSUME ContextIInv, StartTurn
  PROVE  ContextIInv'
<1>1. /\ sort' = sort /\ talk' = talk /\ holder' = holder /\ ticket' = ticket /\ binds' = binds
      /\ facts' = facts /\ window' = window /\ scope' = scope /\ notices' = notices
      /\ known' = known /\ recalled' = recalled /\ faults' = faults
      /\ station = "idle" /\ turns < MaxTurns /\ turns' = turns + 1
      /\ held' = {holder} /\ open' = Opened /\ stayed' = Opened
  BY DEF StartTurn, outside
<1>2. \/ station' = "history" /\ question' \in Entries /\ talk[question'] # "agent"
      \/ station' = "owner" /\ question' = question
  BY DEF StartTurn, To
<1>3. Longer
  BY <1>1, HistoryStands
<1>4. question = 0 /\ notices = {} /\ recalled = {}
  BY <1>1 DEF ContextIInv, Answering
<1>5. Windowed'
  <2>1. PICK base \in Nat, n \in Nat : Stretch(base, n)
    BY DEF ContextIInv, Windowed
  <2>2. station' \in InPrompt => question' = 0
    BY <1>2, <1>4 DEF InPrompt
  <2>3. Stretch(base, n)'
    BY <1>1, <2>1, <2>2 DEF Stretch
  <2> QED
    BY <2>3 DEF Windowed
<1>6. question' = question \/ (question' \in Entries /\ talk[question'] \in Talker)
  BY <1>2, ContextShapes DEF Entries
<1>7. Answering'
  <2>1. \A e \in Entries : e # 0
    BY ContextShapes DEF Entries
  <2> QED
    BY <1>1, <1>2, <1>4, <2>1 DEF Answering
<1>8. RestTyped'
  <2>1. RestTyped
    BY TypeParts DEF ContextIInv
  <2> QED
    BY <1>1, <1>2, <2>1 DEF RestTyped, Grouped, Opened
<1>9. CountsTyped'
  <2>1. CountsTyped /\ MaxTurns \in Nat
    BY TypeParts, ContextAssumption DEF ContextIInv
  <2> QED
    BY <1>1, <2>1 DEF CountsTyped
<1>10. Watching'
  <2>1. holder \in Landlord \cup {"none"}
    BY DEF ContextIInv, ContextTypeOK
  <2> QED
    BY <1>1, <2>1 DEF Watching, Opened
<1>11. Scoped' /\ Learned' /\ Gathered'
  BY <1>1, <1>2, <1>4 DEF ContextIInv, Scoped, Learned, Gathered, Mine
<1> QED
  BY <1>1, <1>3, <1>5, <1>6, <1>7, <1>8, <1>9, <1>10, <1>11, Together

LEMMA WindowStep ==
  ASSUME ContextIInv, ReadWindow
  PROVE  ContextIInv'
<1> DEFINE n == IF Len(talk) < ShownTurns THEN Len(talk) ELSE ShownTurns
           start == Len(talk) - n
<1>1. CASE Lost
  BY <1>1, LostStep
<1>2. CASE ~Lost
  <2>1. /\ sort' = sort /\ talk' = talk /\ holder' = holder /\ ticket' = ticket /\ binds' = binds
        /\ facts' = facts /\ question' = question /\ scope' = scope /\ notices' = notices
        /\ known' = known /\ recalled' = recalled /\ faults' = faults /\ turns' = turns
        /\ held' = held /\ open' = open /\ stayed' = stayed
        /\ station = "history" /\ station' = "owner"
        /\ window' = [i \in 1..n |-> Len(talk) - n + i]
    BY <1>2 DEF ReadWindow, outside, watched, To
  <2>2. Longer
    BY <2>1, HistoryStands
  <2>3. question # 0 /\ recalled = {}
    BY <2>1 DEF ContextIInv, Answering
  <2>4. /\ n \in Nat /\ start \in Nat /\ start + n = Len(talk) /\ n <= ShownTurns
        /\ n = ShownTurns \/ start = 0
        /\ n > 0 /\ question <= start + n
    BY <2>3, ContextShapes
  <2>5. window' = [i \in 1..n |-> start + i]
    BY <2>1
  <2> HIDE DEF n, start
  <2>6. PICK base \in Nat, k \in Nat : base = start /\ k = n
    BY <2>4
  <2>7. Windowed'
    <3>1. /\ base + k = Len(talk) /\ k <= ShownTurns /\ (k = ShownTurns \/ base = 0)
          /\ k > 0 /\ question <= base + k
      BY <2>4, <2>6
    <3>2. window' = [i \in 1..k |-> base + i]
      BY <2>5, <2>6
    <3>3. base + k <= Len(talk')
      BY <2>1, <3>1
    <3>4. Stretch(base, k)'
      BY <2>1, <3>1, <3>2, <3>3 DEF Stretch
    <3> QED
      BY <3>4 DEF Windowed
  <2>8. Answering' /\ Watching' /\ Scoped' /\ Learned' /\ Gathered'
    BY <2>1, <2>3 DEF ContextIInv, Answering, Watching, Scoped, Learned, Gathered, Opened, Mine
  <2>9. RestTyped' /\ CountsTyped'
    <3>1. RestTyped /\ CountsTyped
      BY TypeParts DEF ContextIInv
    <3> QED
      BY <2>1, <3>1 DEF RestTyped, CountsTyped, Grouped
  <2> QED
    BY <2>1, <2>2, <2>7, <2>8, <2>9, Together
<1> QED
  BY <1>1, <1>2

\* The owner that a turn finds is one that the room has now, or its asker.
LEMMA ScopeOf ==
  ASSUME ContextIInv, NEW one \in MemoryScope(holder), station # "idle"
  PROVE  /\ one \in Owner
         /\ sort = "personal" => one \in Talker /\ (question # 0 => one = talk[question])
         /\ sort = "group" => Belongs(one, held)
         /\ sort \in {"direct", "strayed"} => one = "none"
<1>1. sort \in {"group", "direct", "personal", "strayed"} /\ holder \in Landlord \cup {"none"}
      /\ (question # 0 => talk[question] \in Talker)
  BY DEF ContextIInv, ContextTypeOK
<1>2. holder \in held
  BY DEF ContextIInv, Watching
<1>3. CASE sort = "personal"
  BY <1>1, <1>3 DEF MemoryScope, Owner
<1>4. CASE sort = "group"
  <2>1. one = IF holder # "none" THEN holder ELSE "room"
    BY <1>4 DEF MemoryScope
  <2> QED
    BY <1>1, <1>2, <1>4, <2>1 DEF Belongs, Owner
<1>5. CASE sort \in {"direct", "strayed"}
  BY <1>5 DEF MemoryScope, Owner
<1> QED
  BY <1>1, <1>3, <1>4, <1>5

LEMMA OwnerStep ==
  ASSUME ContextIInv, ReadOwner
  PROVE  ContextIInv'
<1>1. CASE Lost
  BY <1>1, LostStep
<1>2. CASE EndContext /\ UNCHANGED <<outside, facts, turns, faults>>
  BY <1>2, AtRestUnlearned
<1>3. ASSUME /\ scope' \in MemoryScope(holder)
             /\ (question # 0 /\ To("pending")) \/ (question = 0 /\ scope' # "none" /\ To("learn"))
             /\ UNCHANGED <<outside, facts, question, window, notices, known, recalled, turns, watched, faults>>
             /\ station = "owner"
      PROVE  ContextIInv'
  <2>1. /\ sort' = sort /\ talk' = talk /\ holder' = holder /\ ticket' = ticket /\ binds' = binds
        /\ facts' = facts /\ question' = question /\ window' = window /\ notices' = notices
        /\ known' = known /\ recalled' = recalled /\ faults' = faults /\ turns' = turns
        /\ held' = held /\ open' = open /\ stayed' = stayed
        /\ station = "owner" /\ station' \in {"pending", "learn"}
        /\ station' = "pending" => question # 0
    BY <1>3 DEF outside, watched, To
  <2>2. Longer
    BY <2>1, HistoryStands
  <2>3. recalled = {}
    BY <2>1 DEF ContextIInv, Answering
  <2>4. Windowed'
    BY <2>1, <2>2, WindowStands DEF InPrompt
  <2>5. /\ scope' \in Owner
        /\ sort = "personal" => scope' \in Talker /\ (question # 0 => scope' = talk[question])
        /\ sort = "group" => Belongs(scope', held)
        /\ sort \in {"direct", "strayed"} => scope' = "none"
    BY <1>3, ScopeOf
  <2>6. Scoped'
    BY <2>1, <2>5 DEF Scoped, Belongs
  <2>7. Answering' /\ Watching' /\ Learned'
    BY <2>1, <2>3 DEF ContextIInv, Answering, Watching, Learned, Opened
  <2>8. Gathered'
    BY <2>1, <2>3 DEF ContextIInv, Gathered
  <2>9. RestTyped' /\ CountsTyped'
    <3>1. RestTyped /\ CountsTyped
      BY TypeParts DEF ContextIInv
    <3> QED
      BY <2>1, <2>5, <3>1 DEF RestTyped, CountsTyped, Grouped
  <2> QED
    BY <2>1, <2>2, <2>4, <2>6, <2>7, <2>8, <2>9, Together
<1> QED
  BY <1>1, <1>2, <1>3 DEF ReadOwner

LEMMA NoticesStep ==
  ASSUME ContextIInv, ReadNotices
  PROVE  ContextIInv'
<1>1. /\ sort' = sort /\ talk' = talk /\ holder' = holder /\ ticket' = ticket /\ binds' = binds
      /\ facts' = facts /\ question' = question /\ window' = window /\ scope' = scope
      /\ known' = known /\ recalled' = recalled /\ turns' = turns
      /\ held' = held /\ open' = open /\ stayed' = stayed
      /\ station = "pending" /\ station' = "speakers"
      /\ \/ notices' = Opened \cap Answerable /\ faults' = faults
         \/ Fault /\ notices' = notices
  BY DEF ReadNotices, outside, watched, To
<1>2. UNCHANGED faults \/ Fault
  BY <1>1
<1>3. Longer
  BY <1>1, HistoryStands
<1>4. question # 0 /\ recalled = {}
  BY <1>1 DEF ContextIInv, Answering
<1>5. Windowed'
  BY <1>1, <1>3, WindowStands DEF InPrompt
<1>6. Opened \subseteq open /\ stayed \subseteq Opened /\ notices \subseteq open
  BY <1>1 DEF ContextIInv, Watching, Gathered
<1>7. faults' = 0 => notices' = Opened \cap Answerable
  BY <1>1, ContextShapes DEF Fault
<1>8. Answering' /\ Watching' /\ Scoped' /\ Learned'
  BY <1>1, <1>4 DEF ContextIInv, Answering, Watching, Scoped, Learned, Opened
<1>9. Gathered'
  BY <1>1, <1>4, <1>6, <1>7 DEF Gathered
<1>10. RestTyped' /\ CountsTyped'
  <2>1. RestTyped /\ CountsTyped
    BY TypeParts DEF ContextIInv
  <2>2. notices' \subseteq Answerable
    BY <1>1, <2>1 DEF RestTyped
  <2>3. held # {}
    BY <1>1, <2>1 DEF RestTyped
  <2> QED
    BY <1>1, <2>1, <2>2, <2>3 DEF RestTyped, CountsTyped, Grouped
<1> QED
  BY <1>1, <1>2, <1>3, <1>5, <1>8, <1>9, <1>10, Together

LEMMA SpeakersStep ==
  ASSUME ContextIInv, ReadSpeakers
  PROVE  ContextIInv'
<1> DEFINE asker == talk[question]
           others == {talk[window[i]] : i \in DOMAIN window} \ {"agent", asker}
<1>1. /\ sort' = sort /\ talk' = talk /\ holder' = holder /\ ticket' = ticket /\ binds' = binds
      /\ facts' = facts /\ question' = question /\ window' = window /\ scope' = scope
      /\ notices' = notices /\ recalled' = recalled /\ turns' = turns
      /\ held' = held /\ open' = open /\ stayed' = stayed
      /\ station = "speakers" /\ station' = "recall"
      /\ \/ known' = {asker} \cup others /\ faults' = faults
         \/ \E p \in others : known' = {asker} \cup (others \ {p}) /\ Fault
  BY DEF ReadSpeakers, outside, watched, To
<1>2. UNCHANGED faults \/ Fault
  BY <1>1
<1>3. Longer
  BY <1>1, HistoryStands
<1>4. question # 0 /\ recalled = {}
  BY <1>1 DEF ContextIInv, Answering
<1>5. Windowed'
  BY <1>1, <1>3, WindowStands DEF InPrompt
<1>6. others \subseteq Talker /\ asker \in Talker
  <2>1. PICK base \in Nat, n \in Nat : Stretch(base, n)
    BY DEF ContextIInv, Windowed
  <2>2. \A i \in DOMAIN window : window[i] \in 1..Len(talk)
    BY <2>1, WindowShape
  <2>3. \A i \in DOMAIN window : talk[window[i]] \in Talker \cup {"agent"}
    BY <2>2, ContextShapes
  <2>4. asker \in Talker
    BY <1>4 DEF ContextIInv, ContextTypeOK
  <2> QED
    BY <2>3, <2>4
<1>7. faults' = 0 => known' = {asker} \cup others
  BY <1>1, ContextShapes DEF Fault
<1>8. Answering' /\ Watching' /\ Scoped' /\ Learned'
  BY <1>1, <1>4 DEF ContextIInv, Answering, Watching, Scoped, Learned, Opened
<1>9. Gathered'
  <2>1. faults' = 0 => faults = 0
    BY <1>2, MoreFaults
  <2>2. /\ notices' \subseteq open' /\ recalled' \subseteq Mine'
        /\ faults' = 0 => stayed' \cap Answerable \subseteq notices'
    BY <1>1, <1>4, <2>1 DEF ContextIInv, Gathered
  <2>3. faults' = 0 => \A i \in DOMAIN window' : IsUser(window[i])' => talk'[window'[i]] \in known'
    BY <1>1, <1>7 DEF IsUser
  <2> QED
    BY <1>1, <2>2, <2>3 DEF Gathered, IsUser
<1>10. RestTyped' /\ CountsTyped'
  <2>1. RestTyped /\ CountsTyped
    BY TypeParts DEF ContextIInv
  <2>2. known' \subseteq Talker
    BY <1>1, <1>6
  <2>3. held # {}
    BY <1>1, <2>1 DEF RestTyped
  <2> HIDE DEF asker, others
  <2> QED
    BY <1>1, <2>1, <2>2, <2>3 DEF RestTyped, CountsTyped, Grouped
<1> QED
  BY <1>1, <1>2, <1>3, <1>5, <1>8, <1>9, <1>10, Together

LEMMA RecallStep ==
  ASSUME ContextIInv, Recall
  PROVE  ContextIInv'
<1>1. /\ sort' = sort /\ talk' = talk /\ holder' = holder /\ ticket' = ticket /\ binds' = binds
      /\ facts' = facts /\ question' = question /\ window' = window /\ scope' = scope
      /\ notices' = notices /\ known' = known /\ turns' = turns /\ faults' = faults
      /\ held' = held /\ open' = open /\ stayed' = stayed
      /\ station = "recall" /\ station' = "agent" /\ recalled' \subseteq Mine
  BY DEF Recall, outside, watched, To
<1>2. Longer
  BY <1>1, HistoryStands
<1>3. question # 0
  BY <1>1 DEF ContextIInv, Answering
<1>4. Windowed'
  BY <1>1, <1>2, WindowStands DEF InPrompt
<1>5. Answering' /\ Watching' /\ Scoped' /\ Learned'
  BY <1>1, <1>3 DEF ContextIInv, Answering, Watching, Scoped, Learned, Opened
<1>6. Gathered'
  BY <1>1 DEF ContextIInv, Gathered, Mine, IsUser
<1>7. RestTyped' /\ CountsTyped'
  <2>1. RestTyped /\ CountsTyped
    BY TypeParts DEF ContextIInv
  <2>2. recalled' \subseteq facts
    BY <1>1 DEF Mine
  <2>3. held # {}
    BY <1>1, <2>1 DEF RestTyped
  <2> QED
    BY <1>1, <2>1, <2>2, <2>3 DEF RestTyped, CountsTyped, Grouped
<1> QED
  BY <1>1, <1>2, <1>4, <1>5, <1>6, <1>7, Together

LEMMA AnswerStep ==
  ASSUME ContextIInv, AppendAnswer
  PROVE  ContextIInv'
<1>1. CASE EndContext /\ UNCHANGED <<outside, facts, turns, faults>>
  BY <1>1, AtRestUnlearned
<1>2. CASE ~EndContext
  <2>1. /\ UNCHANGED <<sort, holder, ticket, binds, facts, gathered, turns, watched>>
        /\ station = "agent" /\ station' = "learn"
        /\ \/ Len(talk) < MaxTalk /\ talk' = Append(talk, "agent") /\ UNCHANGED faults
           \/ Fault /\ talk' = talk
    BY <1>2 DEF AppendAnswer, To
  <2>2. Longer
    BY <2>1, HistoryStands, Growing
  <2> QED
    BY <2>1, <2>2, TalkGrows
<1> QED
  BY <1>1, <1>2 DEF AppendAnswer, EndContext, To

LEMMA KeepStep ==
  ASSUME ContextIInv, Keep
  PROVE  ContextIInv'
<1>1. /\ station = "learn" /\ EndContext /\ UNCHANGED <<outside, turns>> /\ UNCHANGED faults
      /\ sort' = sort
  BY DEF Keep, outside
<1>2. CASE facts' = facts
  BY <1>1, <1>2, AtRestUnlearned
<1>3. CASE scope # "none" /\ facts' = facts \cup {[owner |-> scope, here |-> TRUE, held |-> held]}
  <2>1. scope \in Owner /\ held \subseteq Landlord \cup {"none"}
        /\ facts \subseteq [owner : Owner \ {"none"}, here : BOOLEAN, held : SUBSET (Landlord \cup {"none"})]
    BY DEF ContextIInv, ContextTypeOK, Watching
  <2>2. facts' \subseteq [owner : Owner \ {"none"}, here : BOOLEAN, held : SUBSET (Landlord \cup {"none"})]
    <3>1. [owner |-> scope, here |-> TRUE, held |-> held]
            \in [owner : Owner \ {"none"}, here : BOOLEAN, held : SUBSET (Landlord \cup {"none"})]
      BY <1>3, <2>1
    <3> QED
      BY <1>3, <2>1, <3>1
  <2>3. sort = "group" => Belongs(scope, held)
    BY <1>1 DEF ContextIInv, Scoped
  <2>4. Learned'
    <3>1. ASSUME sort = "group", NEW f \in facts', f.here
          PROVE  Belongs(f.owner, f.held)
      BY <1>3, <2>3, <3>1 DEF ContextIInv, Learned
    <3> QED
      BY <1>1, <3>1 DEF Learned, Belongs
  <2> QED
    BY <1>1, <2>2, <2>4, AtRest
<1> QED
  BY <1>2, <1>3 DEF Keep

LEMMA ContextStep ==
  ASSUME ContextIInv, [ContextNext]_<<contextVars, faults>>
  PROVE  ContextIInv'
<1>1. CASE Beside
  BY <1>1, SayStep, ConnectStep, OpenTicketStep, CloseTicketStep DEF Beside
<1>2. CASE Gather
  BY <1>2, StartStep, WindowStep, OwnerStep, NoticesStep, SpeakersStep, RecallStep DEF Gather
<1>3. CASE AppendAnswer \/ Keep \/ DieInContext
  BY <1>3, AnswerStep, KeepStep, LostStep DEF DieInContext
<1>4. CASE UNCHANGED <<contextVars, faults>>
  <2>1. /\ UNCHANGED <<sort, holder, ticket, binds, facts, gathered, turns, watched>>
        /\ talk' = talk /\ station' = station /\ UNCHANGED faults
    BY <1>4 DEF contextVars, outside
  <2> QED
    BY <2>1, HistoryStands, TalkGrows
<1> QED
  BY <1>1, <1>2, <1>3, <1>4 DEF ContextNext

(* ContextInductive: what a turn has gathered is of the room it was gathered *)
(* for, whoever writes, connects or asks meanwhile.                         *)
THEOREM ContextInductive == ContextSpec => []ContextIInv
<1>1. ContextInit /\ NoFault => ContextIInv
  BY ContextInitial
<1>2. ContextIInv /\ [ContextNext]_<<contextVars, faults>> => ContextIInv'
  BY ContextStep
<1> QED
  BY <1>1, <1>2, PTL DEF ContextSpec

(* ContextTyped: a turn that is about to ask the model has a window, and what *)
(* it has gathered has its types (context/assembler.ts).                    *)
THEOREM ContextTyped == ContextSpec => []ContextTypeOK
<1>1. ContextIInv => ContextTypeOK
  BY DEF ContextIInv
<1> QED
  BY <1>1, ContextInductive, PTL

\* The model sees the window.
LEMMA WindowIsSeen ==
  ASSUME ContextIInv
  PROVE  WindowIsShown
<1> SUFFICES ASSUME station = "agent"
             PROVE  WindowIsShown
  BY DEF WindowIsShown
<1>1. PICK base \in Nat, n \in Nat : Stretch(base, n)
  BY DEF ContextIInv, Windowed
<1>2. /\ window = [i \in 1..n |-> base + i] /\ base + n <= Len(talk)
      /\ n > 0 /\ question <= base + n /\ question # 0 /\ question \in Nat
      /\ n = ShownTurns \/ base = 0
      /\ ShownTurns \in Nat
  BY <1>1, ContextShapes DEF Stretch, InPrompt, ContextIInv, Answering
<1>3. /\ window \in Seq(Nat) /\ Len(window) = n /\ DOMAIN window = 1..n
      /\ \A i \in 1..n : window[i] = base + i
  BY <1>1, WindowShape
<1> DEFINE users == {i \in DOMAIN window : talk[window[i]] # "agent"}
<1>4. question \in Range(window) \/ Last(window) - question >= ShownTurns
  <2>1. CASE question > base
    <3>1. question - base \in 1..n /\ base + (question - base) = question
      BY <1>2, <2>1
    <3>2. window[question - base] = question
      BY <1>3, <3>1
    <3> QED
      BY <1>3, <3>1, <3>2 DEF Range
  <2>2. CASE question <= base
    <3>1. n \in 1..n /\ Last(window) = base + n
      BY <1>2, <1>3 DEF Last
    <3> QED
      BY <1>2, <2>2, <3>1
  <2> QED
    BY <1>2, <2>1, <2>2
<1>5. CASE users = {}
  <2>1. Messages = window
    BY <1>5 DEF Messages, EndWithUserTurn
  <2>2. \A i, j \in DOMAIN window : i < j => window[i] < window[j]
    BY <1>3
  <2>3. ~\E i \in DOMAIN window : IsUser(window[i])
    BY <1>5 DEF IsUser
  <2> QED
    BY <1>4, <2>1, <2>2, <2>3 DEF WindowIsShown
<1>6. CASE users # {}
  <2> DEFINE m == Max(users)
  <2>1. m \in 1..n /\ m \in users /\ \A u \in users : u <= m
    BY <1>3, <1>6, LastOf
  <2>2. Messages = Append(RemoveAt(window, m), window[m])
    BY <1>6 DEF Messages, EndWithUserTurn
  <2> HIDE DEF m
  <2>3. /\ Len(Messages) = n /\ DOMAIN Messages = 1..n
        /\ \A i \in 1..n : Messages[i] = IF i < m THEN base + i ELSE IF i < n THEN base + i + 1 ELSE base + m
    <3>1. Counting(window, base, n)
      BY <1>3 DEF Counting
    <3>2. Moved(Messages, base, n, m)
      BY <2>1, <2>2, <3>1, MovedLast
    <3> QED
      BY <3>2 DEF Moved
  <2>4. \A k \in 1..n : talk[base + k] # "agent" => k <= m
    BY <1>3, <2>1
  <2>5. talk[base + m] # "agent"
    BY <1>3, <2>1
  <2>6. Range(Messages) \subseteq Range(window)
    <3>1. ASSUME NEW i \in 1..n
          PROVE  Messages[i] \in Range(window)
      <4>1. \E k \in 1..n : Messages[i] = base + k
        <5>1. CASE i < m
          BY <2>3, <5>1
        <5>2. CASE ~(i < m) /\ i < n
          <6>1. i + 1 \in 1..n /\ Messages[i] = base + (i + 1)
            BY <2>3, <5>2
          <6> QED
            BY <6>1
        <5>3. CASE ~(i < m) /\ ~(i < n)
          BY <2>1, <2>3, <5>3
        <5> QED
          BY <5>1, <5>2, <5>3
      <4> QED
        BY <1>3, <4>1 DEF Range
    <3> QED
      BY <2>3, <3>1 DEF Range
  <2>7. Range(window) \subseteq Range(Messages)
    <3>1. ASSUME NEW k \in 1..n
          PROVE  window[k] \in Range(Messages)
      <4>1. \E i \in 1..n : Messages[i] = base + k
        <5>1. CASE k < m
          BY <2>3, <5>1
        <5>2. CASE k = m
          <6>1. n \in 1..n /\ Messages[n] = base + m
            BY <1>2, <2>1, <2>3
          <6> QED
            BY <5>2, <6>1
        <5>3. CASE k > m
          <6>1. k - 1 \in 1..n /\ ~(k - 1 < m) /\ k - 1 < n /\ base + (k - 1) + 1 = base + k
            BY <2>1, <5>3
          <6>2. Messages[k - 1] = base + k
            BY <2>3, <6>1
          <6> QED
            BY <6>1, <6>2
        <5> QED
          BY <2>1, <5>1, <5>2, <5>3
      <4> QED
        BY <1>3, <2>3, <4>1 DEF Range
    <3> QED
      BY <1>3, <3>1 DEF Range
  <2>8. ASSUME NEW i \in 1..n, NEW j \in 1..n, i < j, IsUser(Messages[i]) <=> IsUser(Messages[j])
        PROVE  Messages[i] < Messages[j]
    <3>1. CASE j < n
      BY <2>1, <2>3, <2>8, <3>1
    <3>2. CASE ~(j < n)
      <4>1. j = n /\ Messages[j] = base + m
        BY <2>1, <2>3, <3>2
      <4>2. talk[Messages[i]] # "agent"
        BY <2>5, <2>8, <4>1 DEF IsUser
      <4>3. CASE i < m
        BY <2>1, <2>3, <4>1, <4>3
      <4>4. CASE ~(i < m)
        <5>1. i + 1 \in 1..n /\ Messages[i] = base + (i + 1)
          BY <2>3, <2>8, <4>1, <4>4
        <5>2. i + 1 <= m
          BY <2>4, <4>2, <5>1
        <5> QED
          BY <2>1, <4>4, <5>2
      <4> QED
        BY <4>3, <4>4
    <3> QED
      BY <3>1, <3>2
  <2>9. IsUser(Last(Messages))
    <3>1. n \in 1..n /\ Messages[n] = base + m
      BY <1>2, <2>1, <2>3
    <3> QED
      BY <2>3, <2>5, <3>1 DEF IsUser, Last
  <2> QED
    BY <1>3, <1>4, <2>3, <2>6, <2>7, <2>8, <2>9 DEF WindowIsShown
<1> QED
  BY <1>5, <1>6

(* ModelSeesTheRoom: for a window of any length and however much the room    *)
(* writes, changes hands, or is asked while a turn gathers its context, the  *)
(* model is shown the window once and in order, the facts of those who had   *)
(* the room, and the requests that were open all the while                  *)
(* (assembler.ts:169-178, handler.ts:192, 662-680, pending-block.ts:3-6).    *)
THEOREM ModelSeesTheRoom == ContextSpec => []PromptFits
<1>1. ASSUME ContextIInv
      PROVE  FactsAreTheOwners
  <2>1. ASSUME station = "agent", NEW f \in recalled
        PROVE  f.here /\ IF sort = "personal" THEN f.owner = talk[question] ELSE f.held \cap held # {}
    <3>1. f \in facts /\ f.owner = scope /\ f.here /\ question # 0
      BY <1>1, <2>1 DEF ContextIInv, Gathered, Mine, Answering
    <3>2. /\ sort = "personal" => scope = talk[question]
          /\ sort = "group" => Belongs(scope, held)
          /\ sort \in {"direct", "strayed"} => scope = "none"
      BY <1>1, <2>1, <3>1 DEF ContextIInv, Scoped
    <3>3. sort \in {"group", "direct", "personal", "strayed"} /\ f.owner # "none"
      BY <1>1, <3>1 DEF ContextIInv, ContextTypeOK
    <3>4. CASE sort = "group"
      <4>1. Belongs(f.owner, f.held) /\ Belongs(f.owner, held)
        BY <1>1, <3>1, <3>2, <3>4 DEF ContextIInv, Learned
      <4>2. "room" \notin Landlord
        BY ContextAssumption
      <4> QED
        BY <3>1, <3>4, <4>1, <4>2 DEF Belongs
    <3> QED
      BY <3>1, <3>2, <3>3, <3>4
  <2> QED
    BY <2>1 DEF FactsAreTheOwners
<1>2. ASSUME ContextIInv
      PROVE  RequestsAreShown
  BY <1>2 DEF ContextIInv, Gathered, RequestsAreShown
<1>3. ContextIInv => PromptFits
  BY <1>1, <1>2, WindowIsSeen DEF PromptFits
<1> QED
  BY <1>3, ContextInductive, PTL

-----------------------------------------------------------------------------
(* RoomMemory                                                              *)

\* Where the compactor has a view of the buffer, and where it has something to do.
Sighted    == {"mark", "tale", "chat", "summary", "setmark"}
Compacting == Sighted \ {"mark"}

Stage == Sighted \cup {"rest", "turn", "buffer", "lore", "setlore", "distill", "embed", "insert"}

\* What has left the window of a turn that saw the buffer at k, by its definition in
\* RoomMemory a matter of how many entries are newer.
Bygone(k, cursor) == {e \in 1..k : e > cursor /\ e > k - Buffer /\ e <= k - Window}

\* What a compactor sees was the buffer at some time, and there is something in it
\* that it is to compact.
Sight(h) ==
  /\ close[h] # "rest" => said > 0
  /\ close[h] \in Sighted => \E k \in 1..said : view[h] = Recent(k, Buffer)
  /\ close[h] \in Compacting => Older(h, since[h]) # {}

\* Nobody else is at the end of a turn.
OneCloses == \A g, h \in Keeper : close[g] # "rest" /\ close[h] # "rest" => g = h

\* What the buffer has dropped after the cursor is missed.
Noticed == \A e \in 1..said : mark < e /\ e <= said - Buffer => e \in missed

Reached == 1..mark \subseteq summary \cup missed

\* How far a compaction has come, and what it has read is still so.
Merging(h) ==
  /\ close[h] \in Sighted => view[h] = Recent(looked, Buffer)
  /\ close[h] \in Compacting => since[h] = mark
  /\ close[h] = "chat" => tale[h] = summary
  /\ close[h] = "summary" => tale[h] = summary \cup Older(h, mark)
  /\ close[h] = "setmark" => Older(h, mark) \subseteq summary

\* Facts are written for an entry that has none.
Sourcing(h) == close[h] \in {"embed", "insert"} => end[h] = 0 \/ sourced[end[h]] = 0

\* No failure, and bursts that the buffer is made for.
Calm == faults = 0 /\ burst <= Buffer - Window - MinEntries + 1

\* Then the summary tells of all up to its cursor, and its cursor keeps up.
KeepsUp ==
  /\ 1..mark \subseteq summary
  /\ mark >= looked - Buffer
  /\ (\A h \in Keeper : close[h] \notin Sighted) => mark > looked - Window - MinEntries

\* What each keeper has in hand is a function of the keeper.
Hands ==
  /\ close \in [Keeper -> Stage] /\ seen \in [Keeper -> SUBSET Nat] /\ end \in [Keeper -> Nat]
  /\ view \in [Keeper -> SUBSET Nat] /\ since \in [Keeper -> Nat] /\ tale \in [Keeper -> SUBSET Nat]

\* What holds as long as no two turns have overlapped.
Serial ==
  /\ OneCloses /\ Noticed /\ Reached
  /\ \A h \in Keeper : Merging(h) /\ Sourcing(h)
  /\ \A e \in Entry : sourced[e] <= 1
  /\ Calm => KeepsUp

(* MemoryIInv: the inductive invariant.                                    *)
MemoryIInv ==
  /\ FaultsOK /\ MemoryTypeOK /\ Hands
  /\ \A h \in Keeper : Sight(h)
  /\ ~overlap => Serial

LEMMA MemoryNumbers ==
  ASSUME MemoryIInv
  PROVE  /\ MaxSaid \in Nat /\ Window \in Nat /\ Window > 0 /\ Buffer \in Nat /\ Window <= Buffer
         /\ MinEntries \in Nat /\ MinEntries > 0 /\ MaxFaults \in Nat /\ faults \in Nat
         /\ said \in Nat /\ said <= MaxSaid /\ mark \in Nat /\ mark <= said /\ lore \in Nat /\ lore <= said
         /\ looked \in Nat /\ looked <= said /\ burst \in Nat /\ burst <= MaxSaid
         /\ overlap \in BOOLEAN
BY RoomMemoryAssumption, PlatformAssumption DEF MemoryIInv, MemoryTypeOK, FaultsOK

(* OlderIs: the entries of which at least Window are newer are those that the *)
(* window has passed (compactor.ts pendingTurns).                           *)
LEMMA OlderIs ==
  ASSUME NEW h \in Keeper, NEW k \in Nat, view[h] = Recent(k, Buffer), NEW cursor \in Nat
  PROVE  Older(h, cursor) = Bygone(k, cursor)
<1> DEFINE pending == {e \in view[h] : e > cursor}
<1>1. Buffer \in Nat /\ Window \in Nat \ {0} /\ Window <= Buffer
  BY RoomMemoryAssumption
<1>2. ASSUME NEW e \in pending
      PROVE  Cardinality({f \in pending : f > e}) = k - e
  <2>1. e \in 1..k /\ e > k - Buffer /\ e > cursor /\ e \in Nat
    BY <1>1 DEF Recent
  <2>2. {f \in pending : f > e} = (e + 1)..k
    BY <1>1, <2>1 DEF Recent
  <2>3. e + 1 \in Int /\ k \in Int
    BY <2>1
  <2>4. Cardinality((e + 1)..k) = IF e + 1 > k THEN 0 ELSE k - (e + 1) + 1
    BY <2>3, FS_Interval
  <2>5. (IF e + 1 > k THEN 0 ELSE k - (e + 1) + 1) = k - e
    BY <2>1
  <2> QED
    BY <2>2, <2>4, <2>5, Zenon
<1>3. Older(h, cursor) = {e \in pending : Cardinality({f \in pending : f > e}) >= Window}
  BY DEF Older
<1>4. Older(h, cursor) = {e \in pending : k - e >= Window}
  BY <1>2, <1>3
<1> QED
  BY <1>1, <1>4 DEF Recent, Bygone

\* The newest of them is the last that the window has passed.
LEMMA NewestIs ==
  ASSUME NEW k \in Nat, NEW cursor \in Nat, Bygone(k, cursor) # {}
  PROVE  Newest(Bygone(k, cursor)) = k - Window /\ k - Window \in Bygone(k, cursor)
<1>1. Buffer \in Nat /\ Window \in Nat \ {0} /\ Window <= Buffer
  BY RoomMemoryAssumption
<1>2. PICK e \in Bygone(k, cursor) : TRUE
  OBVIOUS
<1>3. k - Window \in Bygone(k, cursor)
  BY <1>1, <1>2 DEF Bygone
<1>4. \A f \in Bygone(k, cursor) : f <= k - Window /\ f \in Nat
  BY <1>1 DEF Bygone
<1>5. \A x \in Bygone(k, cursor) : (\A f \in Bygone(k, cursor) : f <= x) => x = k - Window
  BY <1>1, <1>3, <1>4
<1>6. /\ Newest(Bygone(k, cursor)) \in Bygone(k, cursor)
      /\ \A f \in Bygone(k, cursor) : f <= Newest(Bygone(k, cursor))
  BY <1>3, <1>4 DEF Newest
<1> QED
  BY <1>3, <1>5, <1>6

-----------------------------------------------------------------------------
\* The keepers other than h stand still.
Standing(h) ==
  \A g \in Keeper \ {h} :
    /\ close'[g] = close[g] /\ seen'[g] = seen[g] /\ end'[g] = end[g]
    /\ view'[g] = view[g] /\ since'[g] = since[g] /\ tale'[g] = tale[g]

\* What the type invariant says of one keeper.
Fits(h) ==
  /\ close[h] \in {"rest", "turn", "buffer", "mark", "tale", "chat", "summary", "setmark",
                   "lore", "setlore", "distill", "embed", "insert"}
  /\ view[h] \subseteq 1..said
  /\ seen[h] \subseteq 1..said /\ end[h] \in 0..said
  /\ close[h] = "rest" => seen[h] = {} /\ view[h] = {}
  /\ close[h] \in Sighted => view[h] # {}
  /\ since[h] \in 0..said
  /\ tale[h] \subseteq 1..said

LEMMA AllFit ==
  ASSUME MemoryIInv, NEW h \in Keeper
  PROVE  Fits(h)
<1>1. close[h] \in {"rest", "turn", "buffer", "mark", "tale", "chat", "summary", "setmark",
                    "lore", "setlore", "distill", "embed", "insert"}
  BY DEF MemoryIInv, MemoryTypeOK
<1> QED
  BY <1>1 DEF MemoryIInv, MemoryTypeOK, Fits, Sighted

\* The types after a step of one keeper.
LEMMA KeeperTyped ==
  ASSUME MemoryIInv, NEW h \in Keeper, Hands', Standing(h), Fits(h)', Sight(h)',
         said' \in 0..MaxSaid, said' >= said, mark' \in 0..said', lore' \in 0..said',
         summary' \subseteq 1..said', sourced' \in [Entry -> Nat], looked' \in 0..said',
         burst' \in 0..MaxSaid, overlap' \in BOOLEAN, missed' \subseteq 1..said', FaultsOK'
  PROVE  FaultsOK' /\ MemoryTypeOK' /\ Hands' /\ \A g \in Keeper : Sight(g)'
<1>a. said \in Nat /\ said' \in Nat /\ MaxSaid \in Nat
  BY MemoryNumbers
<1>1. ASSUME NEW g \in Keeper
      PROVE  Fits(g)' /\ Sight(g)'
  <2>1. CASE g = h
    BY <2>1
  <2>2. CASE g # h
    <3>1. Fits(g) /\ Sight(g)
      BY AllFit DEF MemoryIInv
    <3>2. /\ close'[g] = close[g] /\ seen'[g] = seen[g] /\ end'[g] = end[g]
          /\ view'[g] = view[g] /\ since'[g] = since[g] /\ tale'[g] = tale[g]
      BY <2>2 DEF Standing
    <3>3. 1..said \subseteq 1..said' /\ 0..said \subseteq 0..said'
      BY <1>a
    <3>4. Fits(g)'
      BY <3>1, <3>2, <3>3 DEF Fits
    <3>5. Older(g, since[g])' = Older(g, since[g])
      BY <3>2 DEF Older
    <3>6. ASSUME close[g] \in Sighted
          PROVE  \E k \in 1..said' : view[g] = Recent(k, Buffer)
      BY <3>1, <3>3, <3>6 DEF Sight
    <3>7. close[g] # "rest" => said' > 0
      BY <3>1, <1>a DEF Sight
    <3>8. Sight(g)'
      BY <3>1, <3>2, <3>5, <3>6, <3>7 DEF Sight, Recent
    <3> QED
      BY <3>4, <3>8
  <2> QED
    BY <2>1, <2>2
<1>2. close' \in [Keeper -> {"rest", "turn", "buffer", "mark", "tale", "chat", "summary", "setmark",
                             "lore", "setlore", "distill", "embed", "insert"}]
  BY <1>1 DEF Hands, Fits
<1>3. \A g \in Keeper :
        /\ view'[g] \subseteq 1..said'
        /\ seen'[g] \subseteq 1..said' /\ end'[g] \in 0..said'
        /\ close'[g] = "rest" => seen'[g] = {} /\ view'[g] = {}
        /\ close'[g] \in {"mark", "tale", "chat", "summary", "setmark"} => view'[g] # {}
        /\ since'[g] \in 0..said'
        /\ tale'[g] \subseteq 1..said'
  BY <1>1 DEF Fits, Sighted
<1>4. MemoryTypeOK'
  BY <1>2, <1>3 DEF MemoryTypeOK
<1> QED
  BY <1>1, <1>4

\* What remains to be shown of a step at the end of the only turn.
LEMMA KeeperSerial ==
  ASSUME MemoryIInv, ~overlap, NEW h \in Keeper, close[h] # "rest", Standing(h),
         Noticed', Reached', Merging(h)', Sourcing(h)',
         \A e \in Entry : sourced'[e] <= 1, Calm' => KeepsUp'
  PROVE  Serial'
<1>1. \A g \in Keeper \ {h} : close[g] = "rest" /\ close'[g] = "rest"
  BY DEF MemoryIInv, Serial, OneCloses, Standing
<1>2. OneCloses'
  BY <1>1 DEF OneCloses
<1>3. \A g \in Keeper \ {h} : Merging(g)' /\ Sourcing(g)'
  BY <1>1 DEF Merging, Sourcing, Sighted, Compacting
<1>4. \A g \in Keeper : Merging(g)' /\ Sourcing(g)'
  BY <1>3
<1> QED
  BY <1>2, <1>4 DEF Serial

-----------------------------------------------------------------------------
LEMMA MemoryInitial ==
  ASSUME MemoryInit, NoFault
  PROVE  MemoryIInv
<1>a. /\ MaxSaid \in Nat /\ Window \in Nat /\ Window > 0 /\ Buffer \in Nat /\ Window <= Buffer
      /\ MinEntries \in Nat /\ MinEntries > 0
  BY RoomMemoryAssumption
<1>1. FaultsOK
  BY PlatformAssumption DEF NoFault, FaultsOK
<1>2. \A h \in Keeper : /\ close[h] = "rest" /\ seen[h] = {} /\ end[h] = 0
                        /\ view[h] = {} /\ since[h] = 0 /\ tale[h] = {}
  BY DEF MemoryInit
<1>3. Hands
  BY DEF MemoryInit, Hands, Stage
<1>4. MemoryTypeOK
  <2>1. close \in [Keeper -> {"rest", "turn", "buffer", "mark", "tale", "chat", "summary", "setmark",
                              "lore", "setlore", "distill", "embed", "insert"}]
    BY DEF MemoryInit
  <2>2. /\ said = 0 /\ summary = {} /\ mark = 0 /\ lore = 0 /\ looked = 0 /\ burst = 0
        /\ overlap = FALSE /\ missed = {} /\ sourced \in [Entry -> Nat]
    BY DEF MemoryInit
  <2>3. \A h \in Keeper :
          /\ view[h] \subseteq 1..said
          /\ seen[h] \subseteq 1..said /\ end[h] \in 0..said
          /\ close[h] = "rest" => seen[h] = {} /\ view[h] = {}
          /\ close[h] \in {"mark", "tale", "chat", "summary", "setmark"} => view[h] # {}
          /\ since[h] \in 0..said
          /\ tale[h] \subseteq 1..said
    BY <1>2, <2>2
  <2>4. /\ said \in 0..MaxSaid /\ mark \in 0..said /\ lore \in 0..said /\ looked \in 0..said
        /\ burst \in 0..MaxSaid
    BY <1>a, <2>2
  <2>5. summary \subseteq 1..said /\ missed \subseteq 1..said /\ overlap \in BOOLEAN
    BY <2>2
  <2> QED
    BY <2>1, <2>2, <2>3, <2>4, <2>5, Zenon DEF MemoryTypeOK
<1>5. \A h \in Keeper : Sight(h)
  BY <1>2 DEF Sight, Sighted, Compacting
<1>6. Serial
  <2>1. OneCloses /\ \A h \in Keeper : Merging(h) /\ Sourcing(h)
    BY <1>2 DEF OneCloses, Merging, Sourcing, Sighted, Compacting
  <2>2. Noticed /\ Reached /\ KeepsUp
    BY <1>a DEF MemoryInit, Noticed, Reached, KeepsUp
  <2>3. \A e \in Entry : sourced[e] <= 1
    BY DEF MemoryInit
  <2> QED
    BY <2>1, <2>2, <2>3 DEF Serial
<1> QED
  BY <1>1, <1>3, <1>4, <1>5, <1>6 DEF MemoryIInv

-----------------------------------------------------------------------------
\* A failure is counted.
LEMMA FaultCounts ==
  ASSUME FaultsOK, Fault
  PROVE  FaultsOK' /\ faults' # 0 /\ ~Calm'
BY PlatformAssumption DEF FaultsOK, Fault, Calm

LEMMA AppendEntryStep ==
  ASSUME MemoryIInv, AppendEntry
  PROVE  MemoryIInv'
<1>a. /\ said \in Nat /\ said' = said + 1 /\ said' <= MaxSaid /\ MaxSaid \in Nat /\ mark \in Nat
      /\ Buffer \in Nat
  BY MemoryNumbers DEF AppendEntry
<1>1. UNCHANGED <<summary, mark, lore, sourced, close, seen, end, view, since, tale,
                  looked, burst, overlap, faults>>
  BY DEF AppendEntry, long, closes
<1>2. missed' = missed \cup {e \in 1..said' : mark < e /\ e <= said' - Buffer}
  BY DEF AppendEntry, Trim
<1>3. 1..said \subseteq 1..said' /\ 0..said \subseteq 0..said' /\ said' \in 0..MaxSaid
  BY <1>a
<1>4. FaultsOK' /\ Hands'
  BY <1>1 DEF MemoryIInv, FaultsOK, Hands
<1>5. MemoryTypeOK'
  <2>1. missed' \subseteq 1..said'
    BY <1>2, <1>3 DEF MemoryIInv, MemoryTypeOK
  <2>2. /\ mark' \in 0..said' /\ lore' \in 0..said' /\ looked' \in 0..said'
        /\ summary' \subseteq 1..said'
    BY <1>1, <1>3 DEF MemoryIInv, MemoryTypeOK
  <2>3. /\ sourced' \in [Entry -> Nat] /\ burst' \in 0..MaxSaid /\ overlap' \in BOOLEAN
        /\ close' \in [Keeper -> {"rest", "turn", "buffer", "mark", "tale", "chat", "summary", "setmark",
                                  "lore", "setlore", "distill", "embed", "insert"}]
    BY <1>1 DEF MemoryIInv, MemoryTypeOK
  <2>4. \A h \in Keeper :
          /\ view'[h] \subseteq 1..said'
          /\ seen'[h] \subseteq 1..said' /\ end'[h] \in 0..said'
          /\ close'[h] = "rest" => seen'[h] = {} /\ view'[h] = {}
          /\ close'[h] \in {"mark", "tale", "chat", "summary", "setmark"} => view'[h] # {}
          /\ since'[h] \in 0..said'
          /\ tale'[h] \subseteq 1..said'
    BY <1>1, <1>3, AllFit DEF Fits, Sighted
  <2> QED
    BY <1>3, <2>1, <2>2, <2>3, <2>4 DEF MemoryTypeOK
<1>6. ASSUME NEW h \in Keeper PROVE Sight(h)'
  <2>1. Sight(h)
    BY DEF MemoryIInv
  <2>2. Older(h, since[h])' = Older(h, since[h])
    BY <1>1 DEF Older
  <2>3. close[h] \in Sighted => \E k \in 1..said' : view[h] = Recent(k, Buffer)
    BY <1>3, <2>1 DEF Sight
  <2>4. said' > 0
    BY <1>a
  <2> QED
    BY <1>1, <2>1, <2>2, <2>3, <2>4 DEF Sight, Recent
<1>7. ASSUME ~overlap PROVE Serial'
  <2>1. Serial
    BY <1>7 DEF MemoryIInv
  <2>2. OneCloses'
    BY <1>1, <2>1 DEF Serial, OneCloses
  <2>3. Noticed'
    BY <1>1, <1>2 DEF Noticed
  <2>4. Reached'
    BY <1>1, <1>2, <2>1 DEF Serial, Reached
  <2>5. \A h \in Keeper : Merging(h)' /\ Sourcing(h)'
    BY <1>1, <2>1 DEF Serial, Merging, Sourcing, Older, Recent
  <2>6. \A e \in Entry : sourced'[e] <= 1
    BY <1>1, <2>1 DEF Serial
  <2>7. Calm' => KeepsUp'
    BY <1>1, <2>1 DEF Serial, Calm, KeepsUp
  <2> QED
    BY <2>2, <2>3, <2>4, <2>5, <2>6, <2>7 DEF Serial
<1> QED
  BY <1>1, <1>4, <1>5, <1>6, <1>7 DEF MemoryIInv

LEMMA LoseLoreStep ==
  ASSUME MemoryIInv, LoseLore
  PROVE  MemoryIInv'
<1>1. UNCHANGED <<said, summary, mark, sourced, close, seen, end, view, since, tale,
                  looked, burst, overlap, missed>>
  BY DEF LoseLore, closes, watch
<1>2. lore' = 0 /\ FaultsOK' /\ ~Calm'
  BY FaultCounts DEF LoseLore, MemoryIInv
<1>3. Hands' /\ \A h \in Keeper : Sight(h)'
  BY <1>1 DEF MemoryIInv, Hands, Sight, Older, Recent
<1>4. lore' \in 0..said'
  BY <1>1, <1>2, MemoryNumbers
<1>5. MemoryTypeOK'
  BY <1>1, <1>4 DEF MemoryIInv, MemoryTypeOK
<1>6. ASSUME ~overlap PROVE Serial'
  <2>1. Serial
    BY <1>6 DEF MemoryIInv
  <2>2. OneCloses' /\ Noticed' /\ Reached' /\ \A e \in Entry : sourced'[e] <= 1
    BY <1>1, <2>1 DEF Serial, OneCloses, Noticed, Reached
  <2>3. \A h \in Keeper : Merging(h)' /\ Sourcing(h)'
    BY <1>1, <2>1 DEF Serial, Merging, Sourcing, Older, Recent
  <2> QED
    BY <1>2, <2>2, <2>3 DEF Serial
<1> QED
  BY <1>1, <1>2, <1>3, <1>5, <1>6 DEF MemoryIInv

-----------------------------------------------------------------------------
\* A turn begins, and sees some entries.
LEMMA BeginClosingStep ==
  ASSUME MemoryIInv, NEW h \in Keeper, NEW where \in {"turn", "lore"}, Begin(h, where),
         NEW entries \in SUBSET (1..said), NEW newest \in 0..said,
         seen' = [seen EXCEPT ![h] = entries], end' = [end EXCEPT ![h] = newest],
         UNCHANGED <<said, summary, mark, long, view, since, tale, looked, burst, missed, faults>>
  PROVE  MemoryIInv'
<1>a. said \in Nat /\ said > 0 /\ MaxSaid \in Nat /\ said <= MaxSaid
  BY MemoryNumbers DEF Begin
<1>1. /\ close' = [close EXCEPT ![h] = where] /\ close[h] = "rest"
      /\ overlap' = (overlap \/ \E g \in Keeper : close[g] # "rest")
      /\ lore' = lore /\ sourced' = sourced
  BY DEF Begin, long
<1>2. entries \subseteq Nat /\ newest \in Nat
  BY <1>a
<1>3. Hands'
  <2>1. close' \in [Keeper -> Stage]
    BY <1>1 DEF MemoryIInv, Hands, Stage
  <2>2. seen' \in [Keeper -> SUBSET Nat] /\ end' \in [Keeper -> Nat]
    BY <1>2 DEF MemoryIInv, Hands
  <2> QED
    BY <2>1, <2>2 DEF MemoryIInv, Hands
<1>4. Standing(h) /\ close'[h] = where /\ seen'[h] = entries /\ end'[h] = newest
  BY <1>1 DEF MemoryIInv, Hands, Standing
<1>5. Fits(h)'
  <2>1. Fits(h)
    BY AllFit
  <2> QED
    BY <1>4, <2>1 DEF Fits, Sighted
<1>6. Sight(h)'
  BY <1>4, <1>a DEF Sight, Sighted, Compacting
<1>7. overlap' \in BOOLEAN
  BY <1>1, Zenon DEF MemoryIInv, MemoryTypeOK
<1>8. FaultsOK' /\ MemoryTypeOK' /\ Hands' /\ \A g \in Keeper : Sight(g)'
  <2>1. /\ said' \in 0..MaxSaid /\ said' >= said /\ mark' \in 0..said' /\ lore' \in 0..said'
        /\ summary' \subseteq 1..said' /\ sourced' \in [Entry -> Nat] /\ looked' \in 0..said'
        /\ burst' \in 0..MaxSaid /\ missed' \subseteq 1..said' /\ FaultsOK'
    BY <1>1, <1>a DEF MemoryIInv, MemoryTypeOK, FaultsOK
  <2> QED
    BY <1>3, <1>4, <1>5, <1>6, <1>7, <2>1, KeeperTyped
<1>9. ASSUME ~overlap' PROVE Serial'
  <2>1. Serial /\ \A g \in Keeper : close[g] = "rest"
    BY <1>1, <1>9 DEF MemoryIInv
  <2>2. \A g \in Keeper : g # h => close'[g] = "rest"
    BY <1>4, <2>1 DEF Standing
  <2>3. OneCloses'
    BY <2>2 DEF OneCloses
  <2>4. \A g \in Keeper : close'[g] \in {"rest", "turn", "lore"}
    BY <1>4, <2>2
  <2>5. \A g \in Keeper : Merging(g)' /\ Sourcing(g)'
    BY <2>4 DEF Merging, Sourcing, Sighted, Compacting
  <2>6. Noticed' /\ Reached' /\ \A e \in Entry : sourced'[e] <= 1
    BY <1>1, <2>1 DEF Serial, Noticed, Reached
  <2>7. Calm' => KeepsUp'
    BY <2>1 DEF Serial, Calm, KeepsUp, Sighted
  <2> QED
    BY <2>3, <2>5, <2>6, <2>7 DEF Serial
<1> QED
  BY <1>8, <1>9 DEF MemoryIInv

LEMMA OpenTurnStep ==
  ASSUME MemoryIInv, NEW h \in Keeper, OpenTurn(h)
  PROVE  MemoryIInv'
<1>1. Recent(said, Window) \in SUBSET (1..said) /\ end[h] \in 0..said
  BY AllFit DEF Recent, Fits
<1>2. end' = [end EXCEPT ![h] = end[h]]
  BY DEF OpenTurn, MemoryIInv, Hands
<1>3. Begin(h, "turn")
  BY DEF OpenTurn
<1> QED
  BY <1>1, <1>2, <1>3, BeginClosingStep DEF OpenTurn

LEMMA BeginDistillStep ==
  ASSUME MemoryIInv, NEW h \in Keeper, BeginDistill(h)
  PROVE  MemoryIInv'
<1>1. Recent(said, Buffer) \in SUBSET (1..said) /\ said \in 0..said
  BY MemoryNumbers DEF Recent
<1>2. Begin(h, "lore")
  BY DEF BeginDistill
<1> QED
  BY <1>1, <1>2, BeginClosingStep DEF BeginDistill

-----------------------------------------------------------------------------
LEMMA ClosedAt ==
  ASSUME MemoryIInv, NEW h \in Keeper, NEW w \in Stage, CloseAt(h, w)
  PROVE  /\ close'[h] = w /\ Hands' /\ Standing(h)
         /\ UNCHANGED <<seen, end, view, since, tale>>
<1>1. close' = [close EXCEPT ![h] = w] /\ UNCHANGED <<seen, end, view, since, tale>>
  BY DEF CloseAt
<1>2. close' \in [Keeper -> Stage] /\ close'[h] = w /\ \A g \in Keeper \ {h} : close'[g] = close[g]
  BY <1>1 DEF MemoryIInv, Hands
<1> QED
  BY <1>1, <1>2 DEF MemoryIInv, Hands, Standing

LEMMA EndedClose ==
  ASSUME MemoryIInv, NEW h \in Keeper, EndClose(h)
  PROVE  /\ close'[h] = "rest" /\ seen'[h] = {} /\ end'[h] = 0
         /\ view'[h] = {} /\ since'[h] = 0 /\ tale'[h] = {}
         /\ Hands' /\ Standing(h)
<1>1. close' \in [Keeper -> Stage] /\ close'[h] = "rest" /\ \A g \in Keeper \ {h} : close'[g] = close[g]
  BY DEF EndClose, MemoryIInv, Hands, Stage
<1>2. seen' \in [Keeper -> SUBSET Nat] /\ seen'[h] = {} /\ \A g \in Keeper \ {h} : seen'[g] = seen[g]
  BY DEF EndClose, MemoryIInv, Hands
<1>3. end' \in [Keeper -> Nat] /\ end'[h] = 0 /\ \A g \in Keeper \ {h} : end'[g] = end[g]
  BY DEF EndClose, MemoryIInv, Hands
<1>4. view' \in [Keeper -> SUBSET Nat] /\ view'[h] = {} /\ \A g \in Keeper \ {h} : view'[g] = view[g]
  BY DEF EndClose, MemoryIInv, Hands
<1>5. since' \in [Keeper -> Nat] /\ since'[h] = 0 /\ \A g \in Keeper \ {h} : since'[g] = since[g]
  BY DEF EndClose, MemoryIInv, Hands
<1>6. tale' \in [Keeper -> SUBSET Nat] /\ tale'[h] = {} /\ \A g \in Keeper \ {h} : tale'[g] = tale[g]
  BY DEF EndClose, MemoryIInv, Hands
<1> QED
  BY <1>1, <1>2, <1>3, <1>4, <1>5, <1>6 DEF Hands, Standing

\* What the bounds on the shared variables are after a step that leaves them alone.
LEMMA SharedTyped ==
  ASSUME MemoryIInv, UNCHANGED <<said, summary, mark, looked, burst, overlap, missed>>
  PROVE  /\ said' \in 0..MaxSaid /\ said' >= said /\ mark' \in 0..said' /\ summary' \subseteq 1..said'
         /\ looked' \in 0..said' /\ burst' \in 0..MaxSaid /\ overlap' \in BOOLEAN
         /\ missed' \subseteq 1..said'
<1>1. said' >= said
  BY MemoryNumbers
<1> QED
  BY <1>1 DEF MemoryIInv, MemoryTypeOK

\* A keeper turns to the facts, to a step of theirs that writes none, or to rest. It
\* has nothing more to compact, or something failed.
LEMMA RetireStep ==
  ASSUME MemoryIInv, NEW h \in Keeper, close[h] # "rest",
         NEW w \in {"lore", "setlore", "distill"}, CloseAt(h, w) \/ EndClose(h),
         UNCHANGED <<said, summary, mark, sourced, looked, burst, overlap, missed>>,
         lore' \in 0..said, FaultsOK', faults' = 0 => faults = 0,
         ~overlap /\ close[h] \in Sighted => ~Calm' \/ mark > looked - Window - MinEntries
  PROVE  MemoryIInv'
<1>1. /\ close'[h] \in {"lore", "setlore", "distill", "rest"} /\ Hands' /\ Standing(h) /\ Fits(h)'
  <2>1. CASE CloseAt(h, w)
    <3>1. w \in Stage
      BY DEF Stage
    <3>2. /\ close'[h] = w /\ Hands' /\ Standing(h)
          /\ UNCHANGED <<seen, end, view, since, tale>>
      BY <2>1, <3>1, ClosedAt
    <3>3. Fits(h)'
      BY <3>2, AllFit DEF Fits, Sighted
    <3> QED
      BY <3>2, <3>3
  <2>2. CASE EndClose(h)
    <3>1. /\ close'[h] = "rest" /\ seen'[h] = {} /\ end'[h] = 0
          /\ view'[h] = {} /\ since'[h] = 0 /\ tale'[h] = {}
          /\ Hands' /\ Standing(h)
      BY <2>2, EndedClose
    <3>2. 0 \in 0..said'
      BY MemoryNumbers
    <3>3. Fits(h)'
      BY <3>1, <3>2 DEF Fits, Sighted
    <3> QED
      BY <3>1, <3>3
  <2> QED
    BY <2>1, <2>2
<1>2. close'[h] \notin Sighted /\ close'[h] \notin Compacting /\ close'[h] \notin {"embed", "insert"}
  BY <1>1 DEF Sighted, Compacting
<1>3. said' > 0
  BY DEF MemoryIInv, Sight
<1>4. Sight(h)' /\ Merging(h)' /\ Sourcing(h)'
  BY <1>2, <1>3 DEF Sight, Merging, Sourcing, Compacting, Sighted
<1>5. FaultsOK' /\ MemoryTypeOK' /\ Hands' /\ \A g \in Keeper : Sight(g)'
  <2>1. sourced' \in [Entry -> Nat] /\ lore' \in 0..said'
    BY DEF MemoryIInv, MemoryTypeOK
  <2> QED
    BY <1>1, <1>4, <2>1, SharedTyped, KeeperTyped
<1>6. ASSUME ~overlap PROVE Serial'
  <2>1. Serial
    BY <1>6 DEF MemoryIInv
  <2>2. Noticed' /\ Reached' /\ \A e \in Entry : sourced'[e] <= 1
    BY <2>1 DEF Serial, Noticed, Reached
  <2>3. Calm' => KeepsUp'
    <3>1. ASSUME Calm' PROVE KeepsUp
      BY <2>1, <3>1 DEF Serial, Calm
    <3>2. ASSUME Calm', close[h] \notin Sighted PROVE \A g \in Keeper : close[g] \notin Sighted
      BY <2>1, <3>2 DEF Serial, OneCloses, Sighted
    <3>3. ASSUME Calm' PROVE mark > looked - Window - MinEntries
      BY <1>6, <3>1, <3>2, <3>3 DEF KeepsUp
    <3> QED
      BY <3>1, <3>3 DEF KeepsUp
  <2> QED
    BY <1>1, <1>4, <1>6, <2>2, <2>3, KeeperSerial
<1> QED
  BY <1>5, <1>6 DEF MemoryIInv

\* A keeper takes a step of its own that changes nothing else.
LEMMA InnerStep ==
  ASSUME MemoryIInv, NEW h \in Keeper, close[h] # "rest", Hands', Standing(h), Fits(h)', Sight(h)',
         UNCHANGED <<said, summary, mark, lore, sourced, looked, burst, overlap, missed, faults>>,
         close[h] \in Sighted <=> close'[h] \in Sighted,
         ~overlap => Merging(h)' /\ Sourcing(h)'
  PROVE  MemoryIInv'
<1>1. FaultsOK' /\ MemoryTypeOK' /\ Hands' /\ \A g \in Keeper : Sight(g)'
  <2>1. sourced' \in [Entry -> Nat] /\ lore' \in 0..said' /\ FaultsOK'
    BY DEF MemoryIInv, MemoryTypeOK, FaultsOK
  <2> QED
    BY <2>1, SharedTyped, KeeperTyped
<1>2. ASSUME ~overlap PROVE Serial'
  <2>1. Serial
    BY <1>2 DEF MemoryIInv
  <2>2. Noticed' /\ Reached' /\ \A e \in Entry : sourced'[e] <= 1
    BY <2>1 DEF Serial, Noticed, Reached
  <2>3. Calm' => KeepsUp'
    <3>1. \A g \in Keeper : close[g] \in Sighted <=> close'[g] \in Sighted
      BY DEF Standing
    <3>2. Calm' => KeepsUp
      BY <2>1 DEF Serial, Calm
    <3> QED
      BY <3>1, <3>2 DEF KeepsUp
  <2> QED
    BY <1>2, <2>2, <2>3, KeeperSerial
<1> QED
  BY <1>1, <1>2 DEF MemoryIInv

-----------------------------------------------------------------------------
(* The compactor                                                           *)

LEMMA AppendReplyStep ==
  ASSUME MemoryIInv, NEW h \in Keeper, AppendReply(h)
  PROVE  MemoryIInv'
<1> DEFINE newest == IF said' = said THEN 0 ELSE said'
<1>a. /\ said \in Nat /\ said > 0 /\ MaxSaid \in Nat /\ said <= MaxSaid /\ mark \in Nat /\ Buffer \in Nat
      /\ faults \in Nat
  BY MemoryNumbers DEF MemoryIInv, Sight, AppendReply
<1>1. /\ close[h] = "turn" /\ close' = [close EXCEPT ![h] = "buffer"]
      /\ end' = [end EXCEPT ![h] = newest] /\ seen' = [seen EXCEPT ![h] = @ \cup ({newest} \ {0})]
      /\ UNCHANGED <<summary, mark, lore, sourced, view, since, tale, looked, burst, overlap>>
      /\ missed' = missed \cup {e \in 1..said' : mark < e /\ e <= said' - Buffer}
  BY DEF AppendReply, Trim, long
<1>2. said' \in {said, said + 1} /\ said' <= MaxSaid
  BY <1>a DEF AppendReply, Fault
<1>3. FaultsOK' /\ (Calm' => Calm)
  BY <1>1, FaultCounts DEF AppendReply, MemoryIInv, FaultsOK, Calm
<1>4. 1..said \subseteq 1..said' /\ 0..said \subseteq 0..said' /\ said' \in 0..MaxSaid /\ said' >= said
  BY <1>a, <1>2
<1>5. newest \in 0..said' /\ newest \in Nat /\ {newest} \ {0} \subseteq 1..said' /\ {newest} \ {0} \subseteq Nat
  BY <1>a, <1>2
<1> HIDE DEF newest
<1>6. close' \in [Keeper -> Stage] /\ close'[h] = "buffer" /\ \A g \in Keeper \ {h} : close'[g] = close[g]
  BY <1>1 DEF MemoryIInv, Hands, Stage
<1>7. /\ seen' \in [Keeper -> SUBSET Nat] /\ seen'[h] = seen[h] \cup ({newest} \ {0})
      /\ \A g \in Keeper \ {h} : seen'[g] = seen[g]
  BY <1>1, <1>5 DEF MemoryIInv, Hands
<1>8. /\ end' \in [Keeper -> Nat] /\ end'[h] = newest
      /\ \A g \in Keeper \ {h} : end'[g] = end[g]
  BY <1>1, <1>5 DEF MemoryIInv, Hands
<1>9. Hands' /\ Standing(h)
  BY <1>1, <1>6, <1>7, <1>8 DEF MemoryIInv, Hands, Standing
<1>10. Fits(h)'
  <2>1. Fits(h)
    BY AllFit
  <2>2. seen'[h] \subseteq 1..said' /\ end'[h] \in 0..said'
    BY <1>4, <1>5, <1>7, <1>8, <2>1 DEF Fits
  <2>3. view'[h] \subseteq 1..said' /\ since'[h] \in 0..said' /\ tale'[h] \subseteq 1..said'
    BY <1>1, <1>4, <2>1 DEF Fits
  <2> QED
    BY <1>6, <2>2, <2>3 DEF Fits, Sighted
<1>11. said' > 0
  BY <1>a, <1>2
<1>12. Sight(h)' /\ Merging(h)' /\ Sourcing(h)'
  BY <1>6, <1>11 DEF Sight, Merging, Sourcing, Sighted, Compacting
<1>13. FaultsOK' /\ MemoryTypeOK' /\ Hands' /\ \A g \in Keeper : Sight(g)'
  <2>1. missed' \subseteq 1..said'
    BY <1>1, <1>4 DEF MemoryIInv, MemoryTypeOK
  <2>2. /\ mark' \in 0..said' /\ lore' \in 0..said' /\ looked' \in 0..said' /\ summary' \subseteq 1..said'
        /\ sourced' \in [Entry -> Nat] /\ burst' \in 0..MaxSaid /\ overlap' \in BOOLEAN
    BY <1>1, <1>4 DEF MemoryIInv, MemoryTypeOK
  <2> QED
    BY <1>3, <1>4, <1>9, <1>10, <1>12, <2>1, <2>2, KeeperTyped
<1>14. ASSUME ~overlap PROVE Serial'
  <2>1. Serial
    BY <1>14 DEF MemoryIInv
  <2>2. Noticed'
    BY <1>1 DEF Noticed
  <2>3. Reached' /\ \A e \in Entry : sourced'[e] <= 1
    BY <1>1, <2>1 DEF Serial, Reached
  <2>4. Calm' => KeepsUp'
    <3>1. \A g \in Keeper : close[g] \in Sighted <=> close'[g] \in Sighted
      BY <1>1, <1>6 DEF Sighted
    <3> QED
      BY <1>1, <1>3, <2>1, <3>1 DEF Serial, KeepsUp
  <2> QED
    BY <1>1, <1>9, <1>12, <1>14, <2>2, <2>3, <2>4, KeeperSerial
<1> QED
  BY <1>1, <1>13, <1>14 DEF MemoryIInv

\* A failure on the way sends a keeper to the facts.
LEMMA FailsToLore ==
  ASSUME MemoryIInv, NEW h \in Keeper, close[h] # "rest", Fault, CloseAt(h, "lore"),
         UNCHANGED <<said, summary, mark, lore, sourced, looked, burst, overlap, missed>>
  PROVE  MemoryIInv'
<1>1. FaultsOK' /\ faults' # 0 /\ ~Calm'
  BY FaultCounts DEF MemoryIInv
<1>2. lore' \in 0..said
  BY DEF MemoryIInv, MemoryTypeOK
<1> QED
  BY <1>1, <1>2, RetireStep

LEMMA ReadBufferStep ==
  ASSUME MemoryIInv, NEW h \in Keeper, ReadBuffer(h)
  PROVE  MemoryIInv'
<1>a. /\ said \in Nat /\ said > 0 /\ MaxSaid \in Nat /\ said <= MaxSaid /\ mark \in Nat /\ Buffer \in Nat
      /\ looked \in Nat /\ looked <= said /\ burst \in Nat /\ Buffer > 0
      /\ Window \in Nat /\ MinEntries \in Nat /\ burst <= MaxSaid
  BY MemoryNumbers DEF MemoryIInv, Sight, ReadBuffer
<1>1. /\ close[h] = "buffer"
      /\ UNCHANGED <<said, summary, mark, lore, sourced, overlap, missed>>
  BY DEF ReadBuffer, long
<1>2. CASE Fault /\ CloseAt(h, "lore") /\ UNCHANGED <<looked, burst>>
  BY <1>1, <1>2, FailsToLore
<1>3. ASSUME view' = [view EXCEPT ![h] = Recent(said, Buffer)],
             close' = [close EXCEPT ![h] = "mark"],
             looked' = said,
             burst' = IF said - looked > burst THEN said - looked ELSE burst,
             UNCHANGED <<seen, end, since, tale, faults>>
      PROVE  MemoryIInv'
  <2>1. close' \in [Keeper -> Stage] /\ close'[h] = "mark" /\ \A g \in Keeper \ {h} : close'[g] = close[g]
    BY <1>3 DEF MemoryIInv, Hands, Stage, Sighted
  <2>2. Recent(said, Buffer) \subseteq 1..said /\ Recent(said, Buffer) \subseteq Nat /\ said \in Recent(said, Buffer)
    BY <1>a DEF Recent
  <2>3. /\ view' \in [Keeper -> SUBSET Nat] /\ view'[h] = Recent(said, Buffer)
        /\ \A g \in Keeper \ {h} : view'[g] = view[g]
    BY <1>3, <2>2 DEF MemoryIInv, Hands
  <2>4. Hands' /\ Standing(h)
    BY <1>3, <2>1, <2>3 DEF MemoryIInv, Hands, Standing
  <2>5. Fits(h)'
    <3>1. view'[h] \subseteq 1..said' /\ view'[h] # {}
      BY <1>1, <2>2, <2>3
    <3> QED
      BY <1>1, <1>3, <2>1, <3>1, AllFit DEF Fits
  <2>6. \E k \in 1..said' : view'[h] = Recent(k, Buffer)
    BY <1>a, <1>1, <2>3
  <2>7. Sight(h)'
    BY <1>a, <1>1, <2>1, <2>6 DEF Sight, Sighted, Compacting, Recent
  <2>8. /\ looked' = said /\ burst' \in Nat /\ burst' >= burst /\ burst' >= said - looked /\ burst' <= MaxSaid
    BY <1>a, <1>3
  <2>9. FaultsOK' /\ MemoryTypeOK' /\ Hands' /\ \A g \in Keeper : Sight(g)'
    <3>1. said' \in 0..MaxSaid /\ said' >= said /\ looked' \in 0..said' /\ burst' \in 0..MaxSaid
      BY <1>a, <1>1, <2>8
    <3>2. /\ mark' \in 0..said' /\ lore' \in 0..said' /\ summary' \subseteq 1..said'
          /\ sourced' \in [Entry -> Nat] /\ overlap' \in BOOLEAN /\ missed' \subseteq 1..said' /\ FaultsOK'
      BY <1>1, <1>3 DEF MemoryIInv, MemoryTypeOK, FaultsOK
    <3> QED
      BY <2>4, <2>5, <2>7, <3>1, <3>2, KeeperTyped
  <2>10. ASSUME ~overlap PROVE Serial'
    <3>1. Serial
      BY <2>10 DEF MemoryIInv
    <3>2. Noticed' /\ Reached' /\ \A e \in Entry : sourced'[e] <= 1
      BY <1>1, <3>1 DEF Serial, Noticed, Reached
    <3>3. Merging(h)' /\ Sourcing(h)'
      BY <2>1, <2>3, <2>8 DEF Merging, Sourcing, Sighted, Compacting, Recent
    <3>4. ASSUME Calm' PROVE KeepsUp'
      <4>1. burst' <= Buffer - Window - MinEntries + 1 /\ Calm
        BY <1>a, <1>3, <2>8, <3>4 DEF Calm
      <4>2. \A g \in Keeper : close[g] \notin Sighted
        BY <1>1, <3>1 DEF Serial, OneCloses, Sighted
      <4>3. 1..mark \subseteq summary /\ mark > looked - Window - MinEntries
        BY <3>1, <4>1, <4>2 DEF Serial, KeepsUp
      <4>4. mark >= said - Buffer
        BY <1>a, <2>8, <4>1, <4>3
      <4>5. close'[h] \in Sighted
        BY <2>1 DEF Sighted
      <4> QED
        BY <1>1, <2>8, <4>3, <4>4, <4>5 DEF KeepsUp
    <3> QED
      BY <1>1, <2>4, <2>10, <3>2, <3>3, <3>4, KeeperSerial
  <2> QED
    BY <1>1, <2>9, <2>10 DEF MemoryIInv
<1> QED
  BY <1>2, <1>3 DEF ReadBuffer

\* What a compactor that saw the buffer at k has to compact.
LEMMA SeesOlder ==
  ASSUME MemoryIInv, NEW h \in Keeper, close[h] \in Sighted, NEW cursor \in Nat
  PROVE  /\ \E k \in 1..said : view[h] = Recent(k, Buffer) /\ Older(h, cursor) = Bygone(k, cursor)
         /\ ~overlap => view[h] = Recent(looked, Buffer) /\ Older(h, cursor) = Bygone(looked, cursor)
<1>1. PICK k \in 1..said : view[h] = Recent(k, Buffer)
  BY DEF MemoryIInv, Sight
<1>2. k \in Nat /\ looked \in Nat
  BY MemoryNumbers
<1>3. Older(h, cursor) = Bygone(k, cursor)
  BY <1>1, <1>2, OlderIs
<1>4. ASSUME ~overlap PROVE view[h] = Recent(looked, Buffer)
  BY <1>4 DEF MemoryIInv, Serial, Merging
<1>5. ASSUME ~overlap PROVE Older(h, cursor) = Bygone(looked, cursor)
  BY <1>2, <1>4, <1>5, OlderIs
<1> QED
  BY <1>1, <1>3, <1>4, <1>5

LEMMA ReadMarkStep ==
  ASSUME MemoryIInv, NEW h \in Keeper, ReadMark(h)
  PROVE  MemoryIInv'
<1>a. /\ close[h] = "mark" /\ close[h] \in Sighted /\ close[h] # "rest" /\ mark \in Nat /\ mark <= said
      /\ said \in Nat /\ said > 0
  BY MemoryNumbers DEF ReadMark, Sighted, MemoryIInv, Sight
<1>1. UNCHANGED <<said, summary, mark, lore, sourced, looked, burst, overlap, missed>>
  BY DEF ReadMark, long, watch
<1>2. CASE Fault /\ CloseAt(h, "lore")
  BY <1>a, <1>1, <1>2, FailsToLore
<1>3. ASSUME Cardinality(Older(h, mark)) < MinEntries, CloseAt(h, "lore"), UNCHANGED faults
      PROVE  MemoryIInv'
  <2>1. FaultsOK' /\ lore' \in 0..said
    BY <1>1, <1>3 DEF MemoryIInv, MemoryTypeOK, FaultsOK
  <2>a. /\ Window \in Nat /\ Buffer \in Nat /\ MinEntries \in Nat /\ looked \in Nat /\ MinEntries > 0
    BY MemoryNumbers
  <2>2. ASSUME ~overlap, Calm PROVE mark > looked - Window - MinEntries
    <3>1. mark >= looked - Buffer
      BY <2>2 DEF MemoryIInv, Serial, KeepsUp
    <3>2. Older(h, mark) = Bygone(looked, mark)
      BY <1>a, <2>2, SeesOlder
    <3>3. CASE looked - Window <= mark
      BY <1>a, <2>a, <3>3
    <3>4. CASE looked - Window > mark
      <4>1. Bygone(looked, mark) = (mark + 1)..(looked - Window)
        BY <1>a, <2>a, <3>1, <3>4 DEF Bygone
      <4>2. mark + 1 \in Int /\ looked - Window \in Int /\ ~(mark + 1 > looked - Window)
        BY <1>a, <2>a, <3>4
      <4>3. Cardinality((mark + 1)..(looked - Window)) = (looked - Window) - (mark + 1) + 1
        BY <4>2, FS_Interval
      <4>4. (looked - Window) - (mark + 1) + 1 < MinEntries
        BY <1>3, <3>2, <4>1, <4>3
      <4> QED
        BY <1>a, <2>a, <4>4
    <3> QED
      BY <1>a, <2>a, <3>3, <3>4
  <2>3. Calm' => Calm
    BY <1>1, <1>3 DEF Calm
  <2> QED
    BY <1>a, <1>1, <1>3, <2>1, <2>2, <2>3, RetireStep
<1>4. ASSUME Older(h, mark) # {}, since' = [since EXCEPT ![h] = mark], close' = [close EXCEPT ![h] = "tale"],
             UNCHANGED <<seen, end, view, tale, faults>>
      PROVE  MemoryIInv'
  <2>1. close' \in [Keeper -> Stage] /\ close'[h] = "tale" /\ \A g \in Keeper \ {h} : close'[g] = close[g]
    BY <1>4 DEF MemoryIInv, Hands, Stage, Sighted
  <2>2. since' \in [Keeper -> Nat] /\ since'[h] = mark /\ \A g \in Keeper \ {h} : since'[g] = since[g]
    BY <1>a, <1>4 DEF MemoryIInv, Hands
  <2>3. Hands' /\ Standing(h)
    BY <1>4, <2>1, <2>2 DEF MemoryIInv, Hands, Standing
  <2>4. Fits(h)'
    <3>1. mark \in 0..said
      BY <1>a
    <3> QED
      BY <1>a, <1>1, <1>4, <2>1, <2>2, <3>1, AllFit DEF Fits
  <2>5. Older(h, since[h])' = Older(h, mark)
    BY <1>4, <2>2 DEF Older
  <2>6. Sight(h)'
    BY <1>a, <1>1, <1>4, <2>1, <2>5 DEF MemoryIInv, Sight, Recent
  <2>7. close'[h] \in Sighted
    BY <2>1 DEF Sighted
  <2>8. ~overlap => Merging(h)' /\ Sourcing(h)'
    BY <1>a, <1>1, <1>4, <2>1, <2>2 DEF MemoryIInv, Serial, Merging, Sourcing, Recent
  <2> QED
    BY <1>a, <1>1, <1>4, <2>3, <2>4, <2>6, <2>7, <2>8, InnerStep
<1> QED
  BY <1>2, <1>3, <1>4 DEF ReadMark

LEMMA ReadTaleStep ==
  ASSUME MemoryIInv, NEW h \in Keeper, ReadTale(h)
  PROVE  MemoryIInv'
<1>a. close[h] = "tale" /\ close[h] \in Sighted /\ close[h] # "rest"
  BY DEF ReadTale, Sighted
<1>1. UNCHANGED <<said, summary, mark, lore, sourced, looked, burst, overlap, missed>>
  BY DEF ReadTale, long, watch
<1>2. CASE Fault /\ CloseAt(h, "lore")
  BY <1>a, <1>1, <1>2, FailsToLore
<1>3. ASSUME tale' = [tale EXCEPT ![h] = summary], close' = [close EXCEPT ![h] = "chat"],
             UNCHANGED <<seen, end, view, since, faults>>
      PROVE  MemoryIInv'
  <2>a. summary \subseteq 1..said /\ summary \subseteq Nat
    BY MemoryNumbers DEF MemoryIInv, MemoryTypeOK
  <2>1. close' \in [Keeper -> Stage] /\ close'[h] = "chat" /\ \A g \in Keeper \ {h} : close'[g] = close[g]
    BY <1>3 DEF MemoryIInv, Hands, Stage, Sighted
  <2>2. tale' \in [Keeper -> SUBSET Nat] /\ tale'[h] = summary /\ \A g \in Keeper \ {h} : tale'[g] = tale[g]
    BY <2>a, <1>3 DEF MemoryIInv, Hands
  <2>3. Hands' /\ Standing(h)
    BY <1>3, <2>1, <2>2 DEF MemoryIInv, Hands, Standing
  <2>4. Fits(h)'
    BY <1>a, <1>1, <1>3, <2>a, <2>1, <2>2, AllFit DEF Fits
  <2>5. Older(h, since[h])' = Older(h, since[h])
    BY <1>3 DEF Older
  <2>6. Sight(h)'
    BY <1>a, <1>1, <1>3, <2>1, <2>5 DEF MemoryIInv, Sight, Recent, Compacting
  <2>7. close'[h] \in Sighted
    BY <2>1 DEF Sighted
  <2>8. ~overlap => Merging(h)' /\ Sourcing(h)'
    BY <1>a, <1>1, <1>3, <2>1, <2>2 DEF MemoryIInv, Serial, Merging, Sourcing, Recent, Compacting
  <2> QED
    BY <1>a, <1>1, <1>3, <2>3, <2>4, <2>6, <2>7, <2>8, InnerStep
<1> QED
  BY <1>2, <1>3 DEF ReadTale

LEMMA SummarizeStep ==
  ASSUME MemoryIInv, NEW h \in Keeper, Summarize(h)
  PROVE  MemoryIInv'
<1>a. close[h] = "chat" /\ close[h] \in Sighted /\ close[h] # "rest"
  BY DEF Summarize, Sighted
<1>1. UNCHANGED <<said, summary, mark, lore, sourced, looked, burst, overlap, missed>>
  BY DEF Summarize, long, watch
<1>2. CASE Fault /\ CloseAt(h, "lore")
  BY <1>a, <1>1, <1>2, FailsToLore
<1>3. ASSUME tale' = [tale EXCEPT ![h] = @ \cup Older(h, since[h])],
             close' = [close EXCEPT ![h] = "summary"],
             UNCHANGED <<seen, end, view, since, faults>>
      PROVE  MemoryIInv'
  <2>a. Fits(h) /\ 1..said \subseteq Nat
    BY AllFit, MemoryNumbers
  <2>b. Older(h, since[h]) \subseteq 1..said /\ tale[h] \cup Older(h, since[h]) \in SUBSET Nat
    BY <2>a DEF Older, Fits
  <2>1. close' \in [Keeper -> Stage] /\ close'[h] = "summary" /\ \A g \in Keeper \ {h} : close'[g] = close[g]
    BY <1>3 DEF MemoryIInv, Hands, Stage, Sighted
  <2>2. /\ tale' \in [Keeper -> SUBSET Nat] /\ tale'[h] = tale[h] \cup Older(h, since[h])
        /\ \A g \in Keeper \ {h} : tale'[g] = tale[g]
    BY <2>b, <1>3 DEF MemoryIInv, Hands
  <2>3. Hands' /\ Standing(h)
    BY <1>3, <2>1, <2>2 DEF MemoryIInv, Hands, Standing
  <2>4. Fits(h)'
    BY <1>a, <1>1, <1>3, <2>a, <2>b, <2>1, <2>2 DEF Fits
  <2>5. Older(h, since[h])' = Older(h, since[h])
    BY <1>3 DEF Older
  <2>6. Sight(h)'
    BY <1>a, <1>1, <1>3, <2>1, <2>5 DEF MemoryIInv, Sight, Recent, Compacting
  <2>7. close'[h] \in Sighted
    BY <2>1 DEF Sighted
  <2>8. ASSUME ~overlap PROVE Merging(h)' /\ Sourcing(h)'
    <3>1. Merging(h)
      BY <2>8 DEF MemoryIInv, Serial
    <3>2. since[h] = mark /\ tale[h] = summary
      BY <1>a, <3>1 DEF Merging, Compacting
    <3>3. Older(h, mark)' = Older(h, mark)
      BY <1>1, <1>3 DEF Older
    <3> QED
      BY <1>a, <1>1, <1>3, <2>1, <2>2, <3>1, <3>2, <3>3 DEF Merging, Sourcing, Recent, Compacting
  <2> QED
    BY <1>a, <1>1, <1>3, <2>3, <2>4, <2>6, <2>7, <2>8, InnerStep
<1> QED
  BY <1>2, <1>3 DEF Summarize

LEMMA SetSummaryStep ==
  ASSUME MemoryIInv, NEW h \in Keeper, SetSummary(h)
  PROVE  MemoryIInv'
<1>a. close[h] = "summary" /\ close[h] \in Sighted /\ close[h] \in Compacting /\ close[h] # "rest"
  BY DEF SetSummary, Sighted, Compacting
<1>1. /\ UNCHANGED <<said, mark, lore, sourced, looked, burst, overlap, missed>>
      /\ UNCHANGED <<seen, end, view, since, tale>>
  BY DEF SetSummary, long, watch, CloseAt
<1>2. /\ summary' \in {summary, tale[h]} /\ FaultsOK' /\ (Calm' => Calm)
      /\ \/ CloseAt(h, "setmark") /\ summary' = tale[h]
         \/ CloseAt(h, "lore") /\ ~Calm'
  BY <1>1, FaultCounts DEF SetSummary, MemoryIInv, FaultsOK, Calm
<1>3. /\ close'[h] \in {"setmark", "lore"} /\ Hands' /\ Standing(h)
      /\ close'[h] = "setmark" => summary' = tale[h]
      /\ close'[h] = "lore" => ~Calm'
  <2>1. "setmark" \in Stage /\ "lore" \in Stage
    BY DEF Stage, Sighted
  <2> QED
    BY <1>2, <2>1, ClosedAt
<1>4. Fits(h)'
  BY <1>a, <1>1, <1>3, AllFit DEF Fits
<1>5. Older(h, since[h])' = Older(h, since[h])
  BY <1>1 DEF Older
<1>6. Sight(h)'
  BY <1>a, <1>1, <1>3, <1>5 DEF MemoryIInv, Sight, Recent, Compacting
<1>7. FaultsOK' /\ MemoryTypeOK' /\ Hands' /\ \A g \in Keeper : Sight(g)'
  <2>1. summary' \subseteq 1..said' /\ said' >= said
    BY <1>1, <1>2, AllFit, MemoryNumbers DEF MemoryIInv, MemoryTypeOK, Fits
  <2>2. /\ said' \in 0..MaxSaid /\ mark' \in 0..said' /\ lore' \in 0..said' /\ looked' \in 0..said'
        /\ sourced' \in [Entry -> Nat] /\ burst' \in 0..MaxSaid /\ overlap' \in BOOLEAN
        /\ missed' \subseteq 1..said'
    BY <1>1 DEF MemoryIInv, MemoryTypeOK
  <2> QED
    BY <1>2, <1>3, <1>4, <1>6, <2>1, <2>2, KeeperTyped
<1>8. ASSUME ~overlap PROVE Serial'
  <2>1. Serial /\ Merging(h)
    BY <1>8 DEF MemoryIInv, Serial
  <2>2. tale[h] = summary \cup Older(h, mark) /\ since[h] = mark /\ view[h] = Recent(looked, Buffer)
    BY <1>a, <2>1 DEF Merging
  <2>3. summary \subseteq summary'
    BY <1>2, <2>2
  <2>4. Noticed' /\ Reached' /\ \A e \in Entry : sourced'[e] <= 1
    BY <1>1, <2>1, <2>3 DEF Serial, Noticed, Reached
  <2>5. Older(h, mark)' = Older(h, mark)
    BY <1>1 DEF Older
  <2>6. Merging(h)' /\ Sourcing(h)'
    BY <1>1, <1>3, <2>2, <2>5 DEF Merging, Sourcing, Sighted, Compacting, Recent
  <2>7. ASSUME Calm' PROVE KeepsUp'
    <3>1. close'[h] = "setmark"
      BY <1>3, <2>7
    <3>2. close'[h] \in Sighted
      BY <3>1 DEF Sighted
    <3>3. KeepsUp
      BY <1>2, <2>1, <2>7 DEF Serial
    <3> QED
      BY <1>1, <2>3, <3>2, <3>3 DEF KeepsUp
  <2> QED
    BY <1>a, <1>1, <1>3, <1>8, <2>4, <2>6, <2>7, KeeperSerial
<1> QED
  BY <1>1, <1>7, <1>8 DEF MemoryIInv

LEMMA SetMarkStep ==
  ASSUME MemoryIInv, NEW h \in Keeper, SetMark(h)
  PROVE  MemoryIInv'
<1> DEFINE reached == Newest(Older(h, since[h]))
<1>a. /\ close[h] = "setmark" /\ close[h] \in Sighted /\ close[h] \in Compacting /\ close[h] # "rest"
      /\ since[h] \in Nat
  BY DEF SetMark, Sighted, Compacting, MemoryIInv, Hands
<1>b. /\ said \in Nat /\ said > 0 /\ mark \in Nat /\ mark <= said /\ looked \in Nat /\ looked <= said
      /\ Window \in Nat /\ Window > 0 /\ Buffer \in Nat /\ Window <= Buffer
      /\ MinEntries \in Nat /\ MinEntries > 0
  BY <1>a, MemoryNumbers DEF MemoryIInv, Sight
<1>1. /\ UNCHANGED <<said, summary, lore, sourced, looked, burst, overlap, missed>>
      /\ UNCHANGED <<seen, end, view, since, tale>>
  BY DEF SetMark, long, watch, CloseAt
<1>2. /\ mark' = reached \/ (mark' = mark /\ ~Calm')
      /\ FaultsOK' /\ (Calm' => Calm)
  <2>1. CASE mark' = reached /\ UNCHANGED faults
    BY <1>1, <2>1 DEF MemoryIInv, FaultsOK, Calm
  <2>2. CASE Fault /\ mark' \in {mark, reached}
    BY <2>2, FaultCounts DEF MemoryIInv
  <2> QED
    BY <2>1, <2>2 DEF SetMark
<1>3. Older(h, since[h]) # {}
  BY <1>a DEF MemoryIInv, Sight
<1>4. reached \in 1..said
  <2>1. PICK k \in 1..said : Older(h, since[h]) = Bygone(k, since[h])
    BY <1>a, SeesOlder
  <2>2. k \in Nat
    BY <1>b
  <2>3. reached \in Bygone(k, since[h])
    BY <1>a, <1>3, <2>1, <2>2, NewestIs
  <2> QED
    BY <1>b, <2>1, <2>3 DEF Bygone
<1>5. ASSUME ~overlap
      PROVE  /\ reached = looked - Window /\ mark < reached
             /\ Bygone(looked, mark) \subseteq summary
  <2>1. Merging(h)
    BY <1>5 DEF MemoryIInv, Serial
  <2>2. since[h] = mark /\ Older(h, mark) \subseteq summary
    BY <1>a, <2>1 DEF Merging
  <2>3. Older(h, mark) = Bygone(looked, mark)
    BY <1>5, <1>a, <1>b, SeesOlder
  <2>4. Newest(Bygone(looked, mark)) = looked - Window /\ looked - Window \in Bygone(looked, mark)
    BY <1>b, <1>3, <2>2, <2>3, NewestIs
  <2> QED
    BY <1>b, <2>2, <2>3, <2>4 DEF Bygone
<1> HIDE DEF reached
<1>6. close'[h] = "lore" /\ Hands' /\ Standing(h)
  <2>1. "lore" \in Stage /\ CloseAt(h, "lore")
    BY DEF Stage, SetMark
  <2> QED
    BY <2>1, ClosedAt
<1>7. Fits(h)' /\ Sight(h)' /\ Merging(h)' /\ Sourcing(h)'
  BY <1>b, <1>1, <1>6, AllFit DEF Fits, Sight, Merging, Sourcing, Sighted, Compacting
<1>8. FaultsOK' /\ MemoryTypeOK' /\ Hands' /\ \A g \in Keeper : Sight(g)'
  <2>1. mark' \in 0..said' /\ said' >= said
    BY <1>b, <1>1, <1>2, <1>4
  <2>2. /\ said' \in 0..MaxSaid /\ lore' \in 0..said' /\ looked' \in 0..said' /\ summary' \subseteq 1..said'
        /\ sourced' \in [Entry -> Nat] /\ burst' \in 0..MaxSaid /\ overlap' \in BOOLEAN
        /\ missed' \subseteq 1..said'
    BY <1>1 DEF MemoryIInv, MemoryTypeOK
  <2> QED
    BY <1>2, <1>6, <1>7, <2>1, <2>2, KeeperTyped
<1>9. ASSUME ~overlap PROVE Serial'
  <2>1. Serial
    BY <1>9 DEF MemoryIInv
  <2>2. mark' \in Nat /\ mark' >= mark /\ (mark' = mark \/ mark' = looked - Window)
    BY <1>b, <1>2, <1>4, <1>5, <1>9
  <2>3. Noticed'
    BY <1>b, <1>1, <2>1, <2>2 DEF Serial, Noticed
  <2>4. ASSUME NEW e \in 1..mark'
        PROVE  /\ e \in summary \cup missed
               /\ Calm => e \in summary
    <3>a. e \in Nat /\ e >= 1 /\ e <= mark'
      BY <2>2
    <3>1. CASE e <= mark
      <4>1. e \in 1..mark
        BY <1>b, <3>a, <3>1
      <4> QED
        BY <2>1, <4>1 DEF Serial, Reached, KeepsUp
    <3>2. CASE e > mark
      <4>1. mark' = looked - Window /\ e <= looked - Window
        BY <1>b, <2>2, <3>a, <3>2
      <4>2. CASE e > looked - Buffer
        <5>1. e \in Bygone(looked, mark)
          BY <1>b, <3>a, <3>2, <4>1, <4>2 DEF Bygone
        <5> QED
          BY <1>5, <1>9, <5>1
      <4>3. CASE e <= looked - Buffer
        <5>1. e \in 1..said /\ mark < e /\ e <= said - Buffer
          BY <1>b, <3>a, <3>2, <4>3
        <5>2. e \in missed
          BY <2>1, <5>1 DEF Serial, Noticed
        <5>3. Calm => mark >= looked - Buffer
          BY <2>1 DEF Serial, KeepsUp
        <5> QED
          BY <1>b, <3>a, <3>2, <4>3, <5>2, <5>3
      <4> QED
        BY <1>b, <3>a, <4>2, <4>3
    <3> QED
      BY <1>b, <3>a, <3>1, <3>2
  <2>5. Reached' /\ \A e \in Entry : sourced'[e] <= 1
    BY <1>1, <2>1, <2>4 DEF Serial, Reached
  <2>6. ASSUME Calm' PROVE KeepsUp'
    <3>1. mark' = looked - Window /\ KeepsUp /\ Calm
      BY <1>2, <1>5, <1>9, <2>1, <2>6 DEF Serial
    <3>2. mark' >= looked' - Buffer /\ mark' > looked' - Window - MinEntries
      BY <1>b, <1>1, <3>1
    <3>3. 1..mark' \subseteq summary'
      BY <1>1, <2>4, <3>1
    <3> QED
      BY <3>2, <3>3 DEF KeepsUp
  <2> QED
    BY <1>a, <1>1, <1>6, <1>7, <1>9, <2>3, <2>5, <2>6, KeeperSerial
<1> QED
  BY <1>1, <1>8, <1>9 DEF MemoryIInv

-----------------------------------------------------------------------------
(* The facts                                                               *)

LEMMA ReadLoreStep ==
  ASSUME MemoryIInv, NEW h \in Keeper, ReadLore(h)
  PROVE  MemoryIInv'
<1>1. /\ close[h] # "rest" /\ close[h] \notin Sighted
      /\ UNCHANGED <<said, summary, mark, lore, sourced, looked, burst, overlap, missed>>
      /\ CloseAt(h, "setlore") \/ EndClose(h)
  BY DEF ReadLore, Sighted, long, watch
<1>2. FaultsOK' /\ (faults' = 0 => faults = 0)
  BY FaultCounts DEF ReadLore, MemoryIInv, FaultsOK
<1>3. lore' \in 0..said
  BY <1>1 DEF MemoryIInv, MemoryTypeOK
<1> QED
  BY <1>1, <1>2, <1>3, RetireStep

LEMMA SetLoreStep ==
  ASSUME MemoryIInv, NEW h \in Keeper, SetLore(h)
  PROVE  MemoryIInv'
<1>1. /\ close[h] # "rest" /\ close[h] \notin Sighted
      /\ UNCHANGED <<said, summary, mark, sourced, looked, burst, overlap, missed>>
      /\ CloseAt(h, "distill") \/ EndClose(h)
      /\ lore' \in {lore, end[h]}
  BY DEF SetLore, Sighted, watch
<1>2. FaultsOK' /\ (faults' = 0 => faults = 0)
  BY FaultCounts DEF SetLore, MemoryIInv, FaultsOK
<1>3. lore' \in 0..said
  BY <1>1, AllFit DEF MemoryIInv, MemoryTypeOK, Fits
<1> QED
  BY <1>1, <1>2, <1>3, RetireStep

LEMMA EndsQuietly ==
  ASSUME MemoryIInv, NEW h \in Keeper, close[h] # "rest", EndClose(h), FaultsOK',
         UNCHANGED <<said, summary, mark, lore, sourced, looked, burst, overlap, missed>>,
         UNCHANGED faults \/ Fault, close[h] \in Sighted => Fault
  PROVE  MemoryIInv'
<1>1. (faults' = 0 => faults = 0) /\ (Fault => ~Calm')
  BY FaultCounts DEF MemoryIInv
<1>2. lore' \in 0..said
  BY DEF MemoryIInv, MemoryTypeOK
<1> QED
  BY <1>1, <1>2, RetireStep

LEMMA DistillStep ==
  ASSUME MemoryIInv, NEW h \in Keeper, Distill(h)
  PROVE  MemoryIInv'
<1>1. /\ close[h] = "distill" /\ close[h] # "rest" /\ close[h] \notin Sighted
      /\ UNCHANGED <<said, summary, mark, lore, sourced, looked, burst, overlap, missed>>
  BY DEF Distill, Sighted, long, watch
<1>2. FaultsOK' /\ (UNCHANGED faults \/ Fault)
  BY FaultCounts DEF Distill, MemoryIInv, FaultsOK
<1>3. CASE EndClose(h)
  BY <1>1, <1>2, <1>3, EndsQuietly
<1>4. ASSUME ~HasSource(h), CloseAt(h, "embed"), UNCHANGED faults
      PROVE  MemoryIInv'
  <2>1. "embed" \in Stage
    BY DEF Stage
  <2>2. close'[h] = "embed" /\ Hands' /\ Standing(h) /\ UNCHANGED <<seen, end, view, since, tale>>
    BY <1>4, <2>1, ClosedAt
  <2>3. close'[h] \notin Sighted /\ close'[h] \notin Compacting
    BY <2>2 DEF Sighted, Compacting
  <2>4. Fits(h)'
    BY <1>1, <2>2, <2>3, AllFit DEF Fits
  <2>5. Sight(h)' /\ Merging(h)'
    BY <1>1, <2>2, <2>3 DEF MemoryIInv, Sight, Merging
  <2>6. Sourcing(h)'
    <3>1. end[h] # 0 => end[h] \in Entry /\ sourced[end[h]] \in Nat
      <4>1. end[h] \in 0..said /\ said \in Nat /\ MaxSaid \in Nat /\ said <= MaxSaid
        BY AllFit, MemoryNumbers DEF Fits
      <4>2. sourced \in [Entry -> Nat]
        BY DEF MemoryIInv, MemoryTypeOK
      <4> QED
        BY <4>1, <4>2 DEF Entry
    <3> QED
      BY <1>1, <1>4, <2>2, <3>1 DEF HasSource, Sourcing
  <2> QED
    BY <1>1, <1>4, <2>2, <2>3, <2>4, <2>5, <2>6, InnerStep
<1> QED
  BY <1>3, <1>4 DEF Distill

LEMMA EmbedStep ==
  ASSUME MemoryIInv, NEW h \in Keeper, Embed(h)
  PROVE  MemoryIInv'
<1>1. /\ close[h] = "embed" /\ close[h] # "rest" /\ close[h] \notin Sighted
      /\ UNCHANGED <<said, summary, mark, lore, sourced, looked, burst, overlap, missed>>
  BY DEF Embed, Sighted, long, watch
<1>2. FaultsOK' /\ (UNCHANGED faults \/ Fault)
  BY FaultCounts DEF Embed, MemoryIInv, FaultsOK
<1>3. CASE EndClose(h)
  BY <1>1, <1>2, <1>3, EndsQuietly
<1>4. ASSUME CloseAt(h, "insert"), UNCHANGED faults
      PROVE  MemoryIInv'
  <2>1. "insert" \in Stage
    BY DEF Stage
  <2>2. close'[h] = "insert" /\ Hands' /\ Standing(h) /\ UNCHANGED <<seen, end, view, since, tale>>
    BY <1>4, <2>1, ClosedAt
  <2>3. close'[h] \notin Sighted /\ close'[h] \notin Compacting
    BY <2>2 DEF Sighted, Compacting
  <2>4. Fits(h)'
    BY <1>1, <2>2, <2>3, AllFit DEF Fits
  <2>5. Sight(h)' /\ Merging(h)'
    BY <1>1, <2>2, <2>3 DEF MemoryIInv, Sight, Merging
  <2>6. ~overlap => Sourcing(h)'
    BY <1>1, <2>2 DEF MemoryIInv, Serial, Sourcing
  <2> QED
    BY <1>1, <1>4, <2>2, <2>3, <2>4, <2>5, <2>6, InnerStep
<1> QED
  BY <1>3, <1>4 DEF Embed

LEMMA InsertLoreStep ==
  ASSUME MemoryIInv, NEW h \in Keeper, InsertLore(h)
  PROVE  MemoryIInv'
<1> DEFINE written == [e \in Entry |-> IF e = end[h] THEN sourced[e] + 1 ELSE sourced[e]]
<1>1. /\ close[h] = "insert" /\ close[h] # "rest" /\ close[h] \notin Sighted
      /\ UNCHANGED <<said, summary, mark, lore, looked, burst, overlap, missed>>
      /\ EndClose(h) /\ sourced' \in {sourced, written}
  BY DEF InsertLore, Sighted, watch
<1>2. FaultsOK' /\ (Calm' => Calm)
  BY <1>1, FaultCounts DEF InsertLore, MemoryIInv, FaultsOK, Calm
<1>3. /\ close'[h] = "rest" /\ seen'[h] = {} /\ end'[h] = 0
      /\ view'[h] = {} /\ since'[h] = 0 /\ tale'[h] = {}
      /\ Hands' /\ Standing(h)
  BY <1>1, EndedClose
<1>4. 0 \in 0..said'
  BY MemoryNumbers, <1>1
<1>5. Fits(h)' /\ Sight(h)' /\ Merging(h)' /\ Sourcing(h)'
  BY <1>3, <1>4 DEF Fits, Sight, Merging, Sourcing, Sighted, Compacting
<1>6. sourced \in [Entry -> Nat]
  BY DEF MemoryIInv, MemoryTypeOK
<1>7. sourced' \in [Entry -> Nat]
  BY <1>1, <1>6
<1>8. FaultsOK' /\ MemoryTypeOK' /\ Hands' /\ \A g \in Keeper : Sight(g)'
  <2>1. lore' \in 0..said'
    BY <1>1 DEF MemoryIInv, MemoryTypeOK
  <2> QED
    BY <1>1, <1>2, <1>3, <1>5, <1>7, <2>1, SharedTyped, KeeperTyped
<1>9. ASSUME ~overlap PROVE Serial'
  <2>1. Serial /\ Sourcing(h)
    BY <1>9 DEF MemoryIInv, Serial
  <2>2. Noticed' /\ Reached'
    BY <1>1, <2>1 DEF Serial, Noticed, Reached
  <2>3. ASSUME NEW e \in Entry PROVE sourced'[e] <= 1
    <3>1. sourced[e] \in Nat /\ sourced[e] <= 1 /\ 0 \notin Entry
      BY <1>6, <2>1 DEF Serial, Entry
    <3>2. e = end[h] => sourced[e] = 0
      BY <1>1, <2>1, <3>1 DEF Sourcing
    <3>3. sourced'[e] \in {sourced[e], IF e = end[h] THEN sourced[e] + 1 ELSE sourced[e]}
      BY <1>1
    <3> QED
      BY <3>1, <3>2, <3>3
  <2>4. Calm' => KeepsUp'
    <3>1. \A g \in Keeper : close[g] \in Sighted <=> close'[g] \in Sighted
      BY <1>1, <1>3 DEF Standing, Sighted
    <3> QED
      BY <1>1, <1>2, <2>1, <3>1 DEF Serial, KeepsUp
  <2> QED
    BY <1>1, <1>3, <1>5, <1>9, <2>2, <2>3, <2>4, KeeperSerial
<1> QED
  BY <1>1, <1>8, <1>9 DEF MemoryIInv

LEMMA DieInCloseStep ==
  ASSUME MemoryIInv, NEW h \in Keeper, DieInClose(h)
  PROVE  MemoryIInv'
<1>1. /\ close[h] # "rest" /\ EndClose(h) /\ Fault
      /\ UNCHANGED <<said, summary, mark, lore, sourced, looked, burst, overlap, missed>>
  BY DEF DieInClose, long, watch
<1>2. FaultsOK'
  BY <1>1, FaultCounts DEF MemoryIInv
<1> QED
  BY <1>1, <1>2, EndsQuietly

-----------------------------------------------------------------------------
LEMMA MemoryStep ==
  ASSUME MemoryIInv, [MemoryNext]_<<memoryVars, faults>>
  PROVE  MemoryIInv'
<1>1. CASE AppendEntry
  BY <1>1, AppendEntryStep
<1>2. CASE LoseLore
  BY <1>2, LoseLoreStep
<1>3. ASSUME NEW h \in Keeper, OpenTurn(h) \/ AppendReply(h) \/ BeginDistill(h) \/ DieInClose(h)
      PROVE  MemoryIInv'
  BY <1>3, OpenTurnStep, AppendReplyStep, BeginDistillStep, DieInCloseStep
<1>4. ASSUME NEW h \in Keeper, Compact(h)
      PROVE  MemoryIInv'
  BY <1>4, ReadBufferStep, ReadMarkStep, ReadTaleStep, SummarizeStep, SetSummaryStep, SetMarkStep
  DEF Compact
<1>5. ASSUME NEW h \in Keeper, Learn(h)
      PROVE  MemoryIInv'
  BY <1>5, ReadLoreStep, SetLoreStep, DistillStep, EmbedStep, InsertLoreStep DEF Learn
<1>6. CASE UNCHANGED <<memoryVars, faults>>
  <2>1. UNCHANGED <<said, summary, mark, lore, sourced, close, seen, end, view, since, tale,
                    looked, burst, overlap, missed, faults>>
    BY <1>6 DEF memoryVars, long, closes, watch
  <2>2. FaultsOK' /\ MemoryTypeOK' /\ Hands'
    BY <2>1 DEF MemoryIInv, FaultsOK, MemoryTypeOK, Hands
  <2>3. \A h \in Keeper : Sight(h)'
    BY <2>1 DEF MemoryIInv, Sight, Older, Recent
  <2>4. ASSUME ~overlap PROVE Serial'
    <3>1. Serial
      BY <2>4 DEF MemoryIInv
    <3>2. OneCloses' /\ Noticed' /\ Reached' /\ \A e \in Entry : sourced'[e] <= 1
      BY <2>1, <3>1 DEF Serial, OneCloses, Noticed, Reached
    <3>3. \A h \in Keeper : Merging(h)' /\ Sourcing(h)'
      BY <2>1, <3>1 DEF Serial, Merging, Sourcing, Older, Recent
    <3>4. Calm' => KeepsUp'
      BY <2>1, <3>1 DEF Serial, Calm, KeepsUp
    <3> QED
      BY <3>2, <3>3, <3>4 DEF Serial
  <2> QED
    BY <2>1, <2>2, <2>3, <2>4 DEF MemoryIInv
<1> QED
  BY <1>1, <1>2, <1>3, <1>4, <1>5, <1>6 DEF MemoryNext

(* MemoryInductive: until two turns of the room overlap, the compactor and   *)
(* the writer of facts find what they left, whatever fails between.         *)
THEOREM MemoryInductive == MemorySpec => []MemoryIInv
<1>1. MemoryInit /\ NoFault => MemoryIInv
  BY MemoryInitial
<1>2. MemoryIInv /\ [MemoryNext]_<<memoryVars, faults>> => MemoryIInv'
  BY MemoryStep
<1> QED
  BY <1>1, <1>2, PTL DEF MemorySpec

(* MemoryTyped: cursors and summary name entries that were appended, and a   *)
(* process compacts only what it has seen.                                  *)
THEOREM MemoryTyped == MemorySpec => []MemoryTypeOK
<1>1. MemoryIInv => MemoryTypeOK
  BY DEF MemoryIInv
<1> QED
  BY <1>1, MemoryInductive, PTL

(* NothingIsForgotten: for any sizes of buffer, window and batches, however   *)
(* many entries and failures, what leaves the buffer has entered the        *)
(* summary (compactor.ts:46-47, 78-83) and facts are written once per last  *)
(* entry (memory.ts:44-45), under the conditions of RoomRemembers: no two   *)
(* turns of the room overlap and, where it speaks of the buffer, nothing    *)
(* failed and no burst is longer than the buffer is made for.               *)
THEOREM NothingIsForgotten == MemorySpec => []RoomRemembers
<1>1. ASSUME MemoryIInv, ~overlap
      PROVE  1..mark \subseteq summary \cup missed
  BY <1>1 DEF MemoryIInv, Serial, Reached
<1>2. ASSUME MemoryIInv, ~overlap, faults = 0, burst <= Buffer - Window - MinEntries + 1,
             NEW e \in 1..looked
      PROVE  e \in summary \cup Recent(looked, Buffer)
  <2>a. looked \in Nat /\ mark \in Nat /\ Buffer \in Nat
    BY <1>2, MemoryNumbers
  <2>1. 1..mark \subseteq summary /\ mark >= looked - Buffer
    BY <1>2 DEF MemoryIInv, Serial, Calm, KeepsUp
  <2>2. CASE e <= mark
    BY <2>a, <2>1, <2>2
  <2>3. CASE e > mark
    BY <2>a, <2>1, <2>3 DEF Recent
  <2> QED
    BY <2>a, <2>2, <2>3
<1>3. MemoryIInv => SummaryReaches
  BY <1>1, <1>2 DEF SummaryReaches
<1>4. MemoryIInv => LearnedOnce
  BY DEF MemoryIInv, Serial, LearnedOnce
<1>5. MemoryIInv => RoomRemembers
  BY <1>3, <1>4 DEF RoomRemembers
<1> QED
  BY <1>5, MemoryInductive, PTL

=============================================================================
