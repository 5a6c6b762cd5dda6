------------------------------- MODULE MCTurns -------------------------------
(***************************************************************************)
(* A small instance of what a worker does with an envelope: the turn       *)
(* itself, what the model is shown in it, what the room may spend on it,    *)
(* who its sender is taken for, what its tools do to the operational system *)
(* and read from elsewhere, how the reply leaves, and what is remembered of *)
(* the room afterwards. They share no state but the bound on faults, so    *)
(* that in a behaviour one of them runs.                                   *)
(***************************************************************************)
EXTENDS Turn, Context, Spending, Identity, Desk, Reports, Reading, Egress, RoomMemory, TLC

CONSTANTS h1, h2, b1, b2, c1, c2, d1, d2, s1, s2, a1, a2, p1, p2

\* Two calls that write the same record, or one beside a call that only reads.
MCTools ==
  (Tool \X {"lookup"}) \cup {<<"upgrade", "upgrade">>, <<"paid", "paid">>, <<"paid", "validate">>}

\* The books a report reads are of any length, those of a day of each.
MCBooks ==
  CASE report = "day" -> {[s \in Source |-> CASE s = "charges" -> 1 [] s \in {"it", "refunds"} -> 0
                                              [] OTHER -> MaxRows]}
    [] report = "price" -> {[s \in Source |-> 0]}
    [] OTHER -> {[s \in Source |-> IF s = "it" THEN n ELSE 0] : n \in 0..MaxRows}

\* More spans than messages, and one that is too long; the same code twice; and a
\* word, of a turn that shares the token.
MCReply == {<<"words", "marker", "words", "words", "marker", "words", "qr1">>,
            <<"marker", "qr1", "qr2", "qr1">>, <<"words">>}

VARIABLE part   \* the component that runs

\* What the parts that do not run are about is fixed.
Init ==
  /\ part \in {"turn", "context", "spending", "identity", "desk", "reports", "reading", "egress",
             "memory"}
  /\ TurnInit /\ (part # "turn" => letter = "talk")
  /\ ContextInit /\ (part # "context" => sort = "group")
  /\ IF part = "reading" THEN ReadingInit
     ELSE /\ asks = "doc_file" /\ link = "none" /\ visible = TRUE /\ shelf = [r \in Ref |-> 0]
          /\ ReadingIdle
  /\ ReportsInit
  /\ IF part = "reports" THEN book \in MCBooks
     ELSE report = "price" /\ book = [s \in Source |-> 0]
  /\ DeskInit
  /\ IF part = "desk" THEN <<tool[d1], tool[d2]>> \in MCTools ELSE tool = [c \in Call |-> "lookup"]
  /\ EgressInit /\ reply[a2] = <<"words">> /\ medium[a2] = "official"
  /\ IF part = "egress" THEN reply[a1] # reply[a2]
     ELSE reply[a1] = reply[a2] /\ medium[a1] = medium[a2] /\ kept = NoToken
  /\ SpendingInit /\ IdentityInit /\ MemoryInit /\ NoFault

Next ==
  \/ part = "turn" /\ TurnNext
     /\ UNCHANGED <<part, contextVars, spendingVars, identityVars, deskVars, reportVars,
                    readingVars, egressVars, memoryVars>>
  \/ part = "context" /\ ContextNext
     /\ UNCHANGED <<part, turnVars, spendingVars, identityVars, deskVars, reportVars,
                    readingVars, egressVars, memoryVars>>
  \/ part = "spending" /\ SpendingNext
     /\ UNCHANGED <<part, turnVars, contextVars, identityVars, deskVars, reportVars, readingVars,
                    egressVars, memoryVars>>
  \/ part = "identity" /\ IdentityNext
     /\ UNCHANGED <<part, turnVars, contextVars, spendingVars, deskVars, reportVars, readingVars,
                    egressVars, memoryVars>>
  \/ part = "desk" /\ ToolNext
     /\ UNCHANGED <<part, turnVars, contextVars, spendingVars, identityVars, reportVars,
                    readingVars, egressVars, memoryVars, faults>>
  \/ part = "reports" /\ ReportsNext
     /\ UNCHANGED <<part, turnVars, contextVars, spendingVars, identityVars, deskVars,
                    readingVars, egressVars, memoryVars, faults>>
  \/ part = "reading" /\ ReadingNext
     /\ UNCHANGED <<part, turnVars, contextVars, spendingVars, identityVars, deskVars,
                    reportVars, egressVars, memoryVars, faults>>
  \/ part = "egress" /\ EgressNext
     /\ UNCHANGED <<part, turnVars, contextVars, spendingVars, identityVars, deskVars,
                    reportVars, readingVars, memoryVars>>
  \/ part = "memory" /\ MemoryNext
     /\ UNCHANGED <<part, turnVars, contextVars, spendingVars, identityVars, deskVars,
                    reportVars, readingVars, egressVars>>

vars == <<part, turnVars, contextVars, spendingVars, identityVars, deskVars,
          reportVars, readingVars, egressVars, memoryVars, faults>>

Spec == Init /\ [][Next]_vars

(* TypeOK: the type invariants of the nine and of their faults.             *)
TypeOK ==
  /\ FaultsOK /\ TurnTypeOK /\ ContextTypeOK /\ SpendingTypeOK /\ IdentityTypeOK
  /\ DeskTypeOK /\ ReportsTypeOK /\ ReadingTypeOK /\ EgressTypeOK /\ MemoryTypeOK

(* WordsAreTrue: what the tools tell the model, of what they did and of     *)
(* what they read, is so: WritesAreTold of Desk, ReportsAreTrue of Reports  *)
(* and ReadingIsTrue of Reading.                                            *)
WordsAreTrue == WritesAreTold /\ ReportsAreTrue /\ ReadingIsTrue

\* Processes and customers are interchangeable.
MCSymmetry == Permutations({h1, h2}) \cup Permutations({c1, c2})
=============================================================================
