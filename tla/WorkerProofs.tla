----------------------------- MODULE WorkerProofs -----------------------------
(***************************************************************************)
(* Theorems about a worker as a whole, as MCTurns puts it together from its *)
(* nine parts: for every set of processes, customers, calls, senders and    *)
(* keepers and every bound, its variables keep their types, and what its    *)
(* tools tell the model is so. A part that runs keeps its own inductive     *)
(* invariant, which TurnsProofs and WordsProofs prove; a part that does not *)
(* run keeps its variables, and with them their types.                      *)
(***************************************************************************)
EXTENDS MCTurns, TurnsProofs, WordsProofs

\* What holds of the part that runs. The tools spend no fault of the platform, so
\* that their invariants do not depend on which part that is.
Working ==
  /\ part = "turn" => TurnIInv
  /\ part = "context" => ContextIInv
  /\ part = "spending" => SpendingIInv
  /\ part = "identity" => IdentityIInv
  /\ part = "egress" => EgressIInv
  /\ part = "memory" => MemoryIInv

\* The types of the other parts; the turn that never began excuses nothing.
Resting ==
  /\ TurnTypeOK /\ ContextTypeOK /\ SpendingTypeOK /\ IdentityTypeOK /\ EgressTypeOK /\ MemoryTypeOK
  /\ part # "turn" => excuses = 0 /\ lapses = 0

WorkerIInv == FaultsOK /\ DeskIInv /\ ReportsIInv /\ ReadingIInv /\ Working /\ Resting

-----------------------------------------------------------------------------
(* A part that does not run                                                *)

LEMMA TurnRests ==
  ASSUME TurnTypeOK, UNCHANGED turnVars, excuses = 0, lapses = 0, FaultsOK'
  PROVE  TurnTypeOK'
<1>1. UNCHANGED <<letter, step, result, calls, metered, fixes, draft, chunks, media, showing, row,
                  shown, ran, excuses, unbilled, lapses>>
  BY DEF turnVars, loopVars, outVars, tallies
<1>2. 0 \in 0..faults'
  BY PlatformAssumption DEF FaultsOK
<1> QED
  BY <1>1, <1>2 DEF TurnTypeOK

LEMMA ContextRests ==
  ASSUME ContextTypeOK, UNCHANGED contextVars
  PROVE  ContextTypeOK'
BY DEF contextVars, outside, gathered, watched, ContextTypeOK, Grouped, Entries

LEMMA SpendingRests ==
  ASSUME SpendingTypeOK, UNCHANGED spendingVars
  PROVE  SpendingTypeOK'
BY DEF spendingVars, purses, SpendingTypeOK

LEMMA IdentityRests ==
  ASSUME IdentityTypeOK, UNCHANGED identityVars
  PROVE  IdentityTypeOK'
BY DEF identityVars, directory, resolutions, IdentityTypeOK

LEMMA EgressRests ==
  ASSUME EgressTypeOK, UNCHANGED egressVars
  PROVE  EgressTypeOK'
BY DEF egressVars, source, attempt, outbox, received, EgressTypeOK

LEMMA MemoryRests ==
  ASSUME MemoryTypeOK, UNCHANGED memoryVars
  PROVE  MemoryTypeOK'
BY DEF memoryVars, long, closes, watch, MemoryTypeOK

\* A call to Egress spends at most one fault.
LEMMA FaultsOfEgress ==
  ASSUME EgressNext
  PROVE  faults' = faults \/ Fault
BY DEF EgressNext, NextPart, Get, Rejected, Sent, Refused, Issue, Arrive, FetchFails, Replace, Expire

LEMMA ToolsRest ==
  ASSUME DeskIInv, ReportsIInv, ReadingIInv,
         [ToolNext]_deskVars, [ReportsNext]_reportVars, [ReadingNext]_readingVars
  PROVE  DeskIInv' /\ ReportsIInv' /\ ReadingIInv'
BY DeskStep, ReportsStep, ReadingStep

-----------------------------------------------------------------------------
(* The worker                                                              *)

LEMMA WorkerInitial ==
  ASSUME Init
  PROVE  WorkerIInv
<1>1. /\ TurnInit /\ ContextInit /\ SpendingInit /\ IdentityInit /\ MemoryInit /\ EgressInit /\ NoFault
      /\ DeskInit /\ ReportsInit
  BY DEF Init
<1>2. ReadingInit
  <2>1. CASE part = "reading"
    BY <2>1 DEF Init
  <2>2. CASE part # "reading"
    <3>1. 0 \in 0..MaxRef
      BY ReadingAssumption
    <3> QED
      BY <2>2, <3>1 DEF Init, ReadingInit
  <2> QED
    BY <2>1, <2>2
<1>3. /\ TurnIInv /\ ContextIInv /\ SpendingIInv /\ IdentityIInv /\ MemoryIInv /\ EgressIInv
      /\ DeskIInv /\ ReportsIInv /\ ReadingIInv
  BY <1>1, <1>2, TurnInitial, ContextInitial, SpendingInitial, IdentityInitial, MemoryInitial,
     EgressStarts, DeskInitial, ReportsInitial, ReadingInitial
<1>4. excuses = 0 /\ lapses = 0
  BY <1>1 DEF TurnInit
<1> QED
  BY <1>3, <1>4 DEF WorkerIInv, Working, Resting, TurnIInv, ContextIInv, SpendingIInv, IdentityIInv,
     MemoryIInv, EgressIInv, EgressTyped

LEMMA WorkerStep ==
  ASSUME WorkerIInv, [Next]_vars
  PROVE  WorkerIInv'
<1>a. /\ FaultsOK /\ DeskIInv /\ ReportsIInv /\ ReadingIInv /\ Working /\ Resting
      /\ TurnTypeOK /\ ContextTypeOK /\ SpendingTypeOK /\ IdentityTypeOK /\ EgressTypeOK /\ MemoryTypeOK
  BY DEF WorkerIInv, Resting
\* The other parts rest.
<1>1. ASSUME UNCHANGED part, FaultsOK',
             (UNCHANGED turnVars /\ excuses = 0 /\ lapses = 0) \/ (TurnTypeOK' /\ part = "turn"),
             UNCHANGED contextVars \/ ContextTypeOK', UNCHANGED spendingVars \/ SpendingTypeOK',
             UNCHANGED identityVars \/ IdentityTypeOK', UNCHANGED egressVars \/ EgressTypeOK',
             UNCHANGED memoryVars \/ MemoryTypeOK'
      PROVE  Resting'
  <2>1. TurnTypeOK'
    BY <1>a, <1>1, TurnRests
  <2>2. (excuses = 0 /\ lapses = 0)' \/ part' = "turn"
    BY <1>1 DEF turnVars, tallies
  <2>3. /\ ContextTypeOK' /\ SpendingTypeOK' /\ IdentityTypeOK' /\ EgressTypeOK' /\ MemoryTypeOK'
    BY <1>a, <1>1, ContextRests, SpendingRests, IdentityRests, EgressRests, MemoryRests
  <2> QED
    BY <2>1, <2>2, <2>3 DEF Resting
<1>b. part # "turn" => excuses = 0 /\ lapses = 0
  BY <1>a DEF Resting
<1>2. ASSUME part = "turn", TurnNext, UNCHANGED part,
             UNCHANGED <<contextVars, spendingVars, identityVars,
                         egressVars, memoryVars, deskVars, reportVars, readingVars>>
      PROVE  WorkerIInv'
  <2>1. TurnIInv
    BY <1>a, <1>2 DEF Working
  <2>2. TurnIInv'
    BY <1>2, <2>1, TurnStep
  <2>3. TurnTypeOK' /\ FaultsOK'
    BY <2>2 DEF TurnIInv
  <2>4. Resting'
    BY <1>b, <1>2, <1>1, <2>3
  <2>5. DeskIInv' /\ ReportsIInv' /\ ReadingIInv'
    BY <1>a, <1>2, ToolsRest
  <2> QED
    BY <1>2, <2>2, <2>3, <2>4, <2>5 DEF WorkerIInv, Working
<1>3. ASSUME part = "context", ContextNext, UNCHANGED part,
             UNCHANGED <<turnVars, spendingVars, identityVars,
                         egressVars, memoryVars, deskVars, reportVars, readingVars>>
      PROVE  WorkerIInv'
  <2>1. ContextIInv
    BY <1>a, <1>3 DEF Working
  <2>2. ContextIInv'
    BY <1>3, <2>1, ContextStep
  <2>3. ContextTypeOK' /\ FaultsOK'
    BY <2>2 DEF ContextIInv
  <2>4. Resting'
    BY <1>b, <1>3, <1>1, <2>3
  <2>5. DeskIInv' /\ ReportsIInv' /\ ReadingIInv'
    BY <1>a, <1>3, ToolsRest
  <2> QED
    BY <1>3, <2>2, <2>3, <2>4, <2>5 DEF WorkerIInv, Working
<1>4. ASSUME part = "spending", SpendingNext, UNCHANGED part,
             UNCHANGED <<turnVars, contextVars, identityVars,
                         egressVars, memoryVars, deskVars, reportVars, readingVars>>
      PROVE  WorkerIInv'
  <2>1. SpendingIInv
    BY <1>a, <1>4 DEF Working
  <2>2. SpendingIInv'
    BY <1>4, <2>1, SpendingStep
  <2>3. SpendingTypeOK' /\ FaultsOK'
    BY <2>2 DEF SpendingIInv
  <2>4. Resting'
    BY <1>b, <1>4, <1>1, <2>3
  <2>5. DeskIInv' /\ ReportsIInv' /\ ReadingIInv'
    BY <1>a, <1>4, ToolsRest
  <2> QED
    BY <1>4, <2>2, <2>3, <2>4, <2>5 DEF WorkerIInv, Working
<1>5. ASSUME part = "identity", IdentityNext, UNCHANGED part,
             UNCHANGED <<turnVars, contextVars, spendingVars,
                         egressVars, memoryVars, deskVars, reportVars, readingVars>>
      PROVE  WorkerIInv'
  <2>1. IdentityIInv
    BY <1>a, <1>5 DEF Working
  <2>2. IdentityIInv'
    BY <1>5, <2>1, IdentityStep
  <2>3. IdentityTypeOK' /\ FaultsOK'
    BY <2>2 DEF IdentityIInv
  <2>4. Resting'
    BY <1>b, <1>5, <1>1, <2>3
  <2>5. DeskIInv' /\ ReportsIInv' /\ ReadingIInv'
    BY <1>a, <1>5, ToolsRest
  <2> QED
    BY <1>5, <2>2, <2>3, <2>4, <2>5 DEF WorkerIInv, Working
<1>6. ASSUME part = "egress", EgressNext, UNCHANGED part,
             UNCHANGED <<turnVars, contextVars, spendingVars,
                         identityVars, memoryVars, deskVars, reportVars, readingVars>>
      PROVE  WorkerIInv'
  <2>1. EgressIInv
    BY <1>a, <1>6 DEF Working
  <2>2. EgressIInv'
    BY <1>6, <2>1, EgressStep
  <2>3. EgressTypeOK' /\ FaultsOK'
    <3>1. faults' = faults \/ Fault
      BY <1>6, FaultsOfEgress
    <3>2. FaultsOK'
      BY <1>a, <3>1, PlatformAssumption DEF FaultsOK, Fault
    <3> QED
      BY <2>2, <3>2 DEF EgressIInv, EgressTyped
  <2>4. Resting'
    BY <1>b, <1>6, <1>1, <2>3
  <2>5. DeskIInv' /\ ReportsIInv' /\ ReadingIInv'
    BY <1>a, <1>6, ToolsRest
  <2> QED
    BY <1>6, <2>2, <2>3, <2>4, <2>5 DEF WorkerIInv, Working
<1>7. ASSUME part = "memory", MemoryNext, UNCHANGED part,
             UNCHANGED <<turnVars, contextVars, spendingVars,
                         identityVars, egressVars, deskVars, reportVars, readingVars>>
      PROVE  WorkerIInv'
  <2>1. MemoryIInv
    BY <1>a, <1>7 DEF Working
  <2>2. MemoryIInv'
    BY <1>7, <2>1, MemoryStep
  <2>3. MemoryTypeOK' /\ FaultsOK'
    BY <2>2 DEF MemoryIInv
  <2>4. Resting'
    BY <1>b, <1>7, <1>1, <2>3
  <2>5. DeskIInv' /\ ReportsIInv' /\ ReadingIInv'
    BY <1>a, <1>7, ToolsRest
  <2> QED
    BY <1>7, <2>2, <2>3, <2>4, <2>5 DEF WorkerIInv, Working
<1>8. ASSUME part \notin {"turn", "context", "spending", "identity", "egress", "memory"},
             [ToolNext]_deskVars, [ReportsNext]_reportVars, [ReadingNext]_readingVars, UNCHANGED part,
             UNCHANGED <<turnVars, contextVars, spendingVars, identityVars, egressVars, memoryVars, faults>>
      PROVE  WorkerIInv'
  <2>1. DeskIInv' /\ ReportsIInv' /\ ReadingIInv'
    BY <1>a, <1>8, ToolsRest
  <2>2. FaultsOK'
    BY <1>a, <1>8 DEF FaultsOK
  <2>3. Resting'
    BY <1>b, <1>8, <1>1, <2>2
  <2> QED
    BY <1>8, <2>1, <2>2, <2>3 DEF WorkerIInv, Working
<1>9. CASE Next
  BY <1>9, <1>2, <1>3, <1>4, <1>5, <1>6, <1>7, <1>8 DEF Next
<1>10. CASE UNCHANGED vars
  <2>1. /\ UNCHANGED <<part, faults, turnVars, contextVars, spendingVars, identityVars, egressVars, memoryVars,
                       deskVars, reportVars, readingVars>>
    BY <1>10 DEF vars
  <2>2. DeskIInv' /\ ReportsIInv' /\ ReadingIInv'
    BY <1>a, <2>1, ToolsRest
  <2>3. FaultsOK'
    BY <1>a, <2>1 DEF FaultsOK
  <2>4. part = "turn" => TurnIInv'
    BY <1>a, <2>1, TurnStep DEF Working
  <2>5. part = "context" => ContextIInv'
    BY <1>a, <2>1, ContextStep DEF Working
  <2>6. part = "spending" => SpendingIInv'
    BY <1>a, <2>1, SpendingStep DEF Working
  <2>7. part = "identity" => IdentityIInv'
    BY <1>a, <2>1, IdentityStep DEF Working
  <2>8. part = "egress" => EgressIInv'
    BY <1>a, <2>1, EgressStep DEF Working
  <2>9. part = "memory" => MemoryIInv'
    BY <1>a, <2>1, MemoryStep DEF Working
  <2>10. Resting'
    <3>1. CASE part = "turn"
      <4>1. TurnTypeOK'
        BY <2>4, <3>1 DEF TurnIInv
      <4> QED
        BY <1>1, <2>1, <2>3, <3>1, <4>1
    <3>2. CASE part # "turn"
      BY <1>1, <1>b, <2>1, <2>3, <3>2
    <3> QED
      BY <3>1, <3>2
  <2> QED
    BY <2>1, <2>2, <2>3, <2>4, <2>5, <2>6, <2>7, <2>8, <2>9, <2>10 DEF WorkerIInv, Working
<1> QED
  BY <1>9, <1>10

(* WorkerInductive: whichever part of a worker runs, it keeps its own       *)
(* invariant, and what its tools told stays so: the dispatch of an envelope *)
(* to the nine parts (worker/pool.ts, worker/handler.ts).                   *)
THEOREM WorkerInductive == Spec => []WorkerIInv
<1>1. Init => WorkerIInv
  BY WorkerInitial
<1>2. WorkerIInv /\ [Next]_vars => WorkerIInv'
  BY WorkerStep
<1> QED
  BY <1>1, <1>2, PTL DEF Spec

(* WorkerKeepsTypes: the variables of the nine parts of a worker keep their *)
(* types, the bounds of the loops and counters in them included.            *)
THEOREM WorkerKeepsTypes == Spec => []TypeOK
<1>1. WorkerIInv => TypeOK
  BY DEF WorkerIInv, Resting, TypeOK, DeskIInv, ReportsIInv, ReadingIInv
<1> QED
  BY <1>1, WorkerInductive, PTL

(* ToolsTellTheTruth: what a tool tells the model of a write, of a report    *)
(* or of what it read is so, in a worker as in the part alone.              *)
THEOREM ToolsTellTheTruth == Spec => []WordsAreTrue
<1>1. WorkerIInv => WordsAreTrue
  BY DEF WorkerIInv, WordsAreTrue, DeskIInv, ReportsIInv, ReadingIInv
<1> QED
  BY <1>1, WorkerInductive, PTL
=============================================================================
