------------------------------ MODULE Verdict ------------------------------
(***************************************************************************)
(* The judge (src/judge): a small model that two gates ask for a verdict,   *)
(* whether a message of a dedicated room is worth a turn (worker/intake.ts) *)
(* and whether an open question of a group is one for the agent            *)
(* (proactive/judge.ts). Both close when the judge is out.                  *)
(*                                                                         *)
(* One verdict. What is asked is reduced to whether the answer reaches the  *)
(* thresholds.                                                             *)
(***************************************************************************)
EXTENDS Integers, Sequences

CONSTANT MaxAttempts   \* attempts of one verdict, RETRY_BACKOFF_MS of jev.ts and one

ASSUME VerdictAssumption == MaxAttempts \in Nat \ {0}

VARIABLES
  gate,      \* who asks: "intake" or "funnel"
  court,     \* where the verdict is
  attempt,   \* attempts so far
  aborted,   \* has the turn's signal been aborted, by its deadline or a shutdown?
  ruling,    \* "none" yet, "run", "pass", or an error that is "raised"
  replies    \* history variable: what each attempt has met

verdictVars == <<gate, court, attempt, aborted, ruling, replies>>

\* An answer above the thresholds or below; one that is not understood; a refusal of
\* the key or the question; 429 or from 500 on; no response; and one that breaks off.
Outcome == {"yes", "no", "odd", "refused", "busy", "lost", "torn"}

(* VerdictTypeOK: the type invariant; the funnel passes no signal.          *)
VerdictTypeOK ==
  /\ gate \in {"intake", "funnel"}
  /\ court \in {"asked", "attempt", "sleep", "over"}
  /\ attempt \in 0..MaxAttempts
  /\ aborted \in BOOLEAN /\ (gate = "funnel" => ~aborted)
  /\ ruling \in {"none", "run", "pass", "raised"}
  /\ ruling # "none" <=> court = "over"
  /\ replies \in Seq(Outcome) /\ Len(replies) = attempt

VerdictIdle == court = "asked" /\ attempt = 0 /\ aborted = FALSE /\ ruling = "none" /\ replies = <<>>

VerdictInit == gate \in {"intake", "funnel"} /\ VerdictIdle

-----------------------------------------------------------------------------
Rule(what) == court' = "over" /\ ruling' = what

\* The pool aborts the turn.
Abort ==
  /\ gate = "intake" /\ court \in {"attempt", "sleep"} /\ ~aborted /\ aborted' = TRUE
  /\ UNCHANGED <<gate, court, attempt, ruling, replies>>

\* A message that fits the room's template needs no judge; without a key there is
\* none, and the gate is closed.
Ask ==
  /\ court = "asked"
  /\ \/ gate = "intake" /\ Rule("run")
     \/ Rule("pass")
     \/ court' = "attempt" /\ UNCHANGED ruling
  /\ UNCHANGED <<gate, attempt, aborted, replies>>

Met(what) == attempt' = attempt + 1 /\ replies' = Append(replies, what)

\* Mutant of Retryable: every failure is worth another attempt.
RetryableAlways(what) == TRUE

\* A call that got no answer is tried again unless the caller has given up; 429 and
\* what is from 500 on, too; a refusal and an answer that is not understood are not.
Retryable(what) == what = "busy" \/ (what = "lost" /\ ~aborted)

\* After a JudgeError: another attempt after a sleep, which nobody can wake, or a
\* gate that stays closed.
Failed(what) ==
  IF Retryable(what) /\ attempt + 1 < MaxAttempts
  THEN court' = "sleep" /\ UNCHANGED ruling
  ELSE Rule("pass")

\* decideIntake and quyetDinh: an answer above the thresholds opens the gate.
Judged == \/ Met("yes") /\ Rule("run")
          \/ Met("no") /\ Rule("pass")

\* send and attempt. A body that breaks off while it is read is no JudgeError, and
\* both gates throw it on. Nothing is answered to a call that was aborted.
Attempt ==
  /\ court = "attempt"
  /\ \/ ~aborted /\ Judged
     \/ ~aborted /\ \E what \in {"odd", "refused", "busy"} : Met(what) /\ Failed(what)
     \/ Met("lost") /\ Failed("lost")
     \/ Met("torn") /\ Rule("raised")
  /\ UNCHANGED <<gate, aborted>>

TryAgain ==
  /\ court = "sleep" /\ court' = "attempt"
  /\ UNCHANGED <<gate, attempt, aborted, ruling, replies>>

VerdictNext == Abort \/ Ask \/ Attempt \/ TryAgain

VerdictSpec == VerdictInit /\ [][VerdictNext]_verdictVars

-----------------------------------------------------------------------------
(* Properties                                                              *)

(* VerdictIsJudged: a gate opens only on the judge's own yes, or for a       *)
(* message that needs none; once it has asked, it closes on an answer, or   *)
(* after a trouble that another attempt would not mend, or that lasted for *)
(* every attempt, or in a turn that was aborted (jev.ts:114-123, intake.ts: *)
(* 97-101, judge.ts:141-145); and nothing is asked again that has been     *)
(* answered or refused. The fault of a body is raised.                     *)
VerdictIsJudged ==
  attempt > 0 =>
    LET met == replies[attempt] IN
    /\ \A i \in 1..(attempt - 1) : replies[i] \in {"busy", "lost"}
    /\ ruling = "run" => met = "yes"
    /\ ruling = "raised" <=> met = "torn"
    /\ ruling = "pass" => met \in {"no", "odd", "refused"} \/ attempt = MaxAttempts \/ aborted
=============================================================================
