------------------------------ MODULE KbDigest ------------------------------
(***************************************************************************)
(* The digest of the day and the knowledge base (src/kb-digest): in the     *)
(* evening a poller in every process claims each dealers' group in which    *)
(* staff wrote that day, has a model extract facts from its log, keeps them *)
(* as proposals and sends one digest to the review group. There staff       *)
(* approve or reject each proposal by a command; an approved one is written *)
(* to the long-term memory that every group reads.                         *)
(*                                                                         *)
(* One day. Commands of the review group run one at a time in each process, *)
(* under the lock of that room, so a process has at most one at a time.    *)
(***************************************************************************)
EXTENDS Platform, FiniteSets

CONSTANTS
  Group,     \* groups of the scanned channel
  MaxFacts   \* bound: facts that one extraction proposes

ASSUME KbDigestAssumption == MaxFacts \in Nat /\ "none" \notin Group

Proposal == Group \X (1..MaxFacts)

VARIABLES
  desk,      \* kb_review_config: the review group, "none" before /kiemduyet-kb
  busy,      \* groups in whose log a message of staff lies
  run,       \* [Group -> "none", "Running", "Done" or "Failed"]: kb_digest_run
  proposal,  \* [Proposal -> "none", "Pending", "Approved" or "Rejected"]
  digests,   \* [Group -> Nat]: digests about the group that reached a desk
  base,      \* [Proposal -> Nat]: rows of ORG_KB_SCOPE written for it
  like,      \* proposals that are nearly the same as a fact already there
  scan,      \* [Host -> where its runDay is]
  queue,     \* [Host -> SUBSET Group]: groups of the tick still to claim
  group,     \* [Host -> the Group it digests, or "none"]
  facts,     \* [Host -> 0..MaxFacts]: proposals it has still to insert
  review,    \* [Host -> where its review command is]
  subject,   \* [Host -> the Proposal of the command, or <<>>]
  told       \* [Proposal -> SUBSET {"approved", "rejected"}]: what staff read

scans      == <<scan, queue, group, facts>>
reviews    == <<review, subject, told>>
store      == <<run, proposal>>
digestVars == <<desk, busy, store, digests, base, like, scans, reviews>>

(* DigestTypeOK: the type invariant; only a group that was claimed has      *)
(* proposals, and a process digests a group exactly while it is between    *)
(* claim and finish.                                                       *)
DigestTypeOK ==
  /\ desk \in Group \cup {"none"}
  /\ busy \subseteq Group
  /\ run \in [Group -> {"none", "Running", "Done", "Failed"}]
  /\ proposal \in [Proposal -> {"none", "Pending", "Approved", "Rejected"}]
  /\ \A p \in Proposal : proposal[p] # "none" => run[p[1]] # "none"
  /\ digests \in [Group -> Nat]
  /\ base \in [Proposal -> Nat]
  /\ like \subseteq Proposal
  /\ scan \in [Host -> {"rest", "claim", "extract", "insert", "send", "done", "failed"}]
  /\ queue \in [Host -> SUBSET Group]
  /\ group \in [Host -> Group \cup {"none"}]
  /\ \A h \in Host : group[h] # "none" <=> scan[h] \notin {"rest", "claim"}
  /\ facts \in [Host -> 0..MaxFacts]
  /\ review \in [Host -> {"idle", "source", "near", "insert", "approve", "reject"}]
  /\ \A h \in Host : subject[h] \in Proposal \cup {<<>>}
  /\ told \in [Proposal -> SUBSET {"approved", "rejected"}]

DigestInit ==
  /\ desk = "none" /\ busy = {}
  /\ run = [g \in Group |-> "none"]
  /\ proposal = [p \in Proposal |-> "none"]
  /\ digests = [g \in Group |-> 0]
  /\ base = [p \in Proposal |-> 0]
  /\ like = {}
  /\ scan = [h \in Host |-> "rest"]
  /\ queue = [h \in Host |-> {}]
  /\ group = [h \in Host |-> "none"]
  /\ facts = [h \in Host |-> 0]
  /\ review = [h \in Host |-> "idle"]
  /\ subject = [h \in Host |-> <<>>]
  /\ told = [p \in Proposal |-> {}]

-----------------------------------------------------------------------------
ScanAt(h, where) == scan' = [scan EXCEPT ![h] = where] /\ UNCHANGED <<queue, group, facts>>

\* The next group of the tick, or its end.
NextGroup(h, rest) ==
  /\ scan' = [scan EXCEPT ![h] = IF rest = {} THEN "rest" ELSE "claim"]
  /\ queue' = [queue EXCEPT ![h] = rest]
  /\ group' = [group EXCEPT ![h] = "none"]
  /\ facts' = [facts EXCEPT ![h] = 0]

\* /kiemduyet-kb in a group: upsertConfig.
BindDesk(g) ==
  /\ desk # g /\ desk' = g
  /\ UNCHANGED <<busy, store, digests, base, like, scans, reviews, faults>>

\* The gateway logs a message that a member of staff writes.
StaffWrites(g) ==
  /\ g \notin busy /\ busy' = busy \cup {g}
  /\ UNCHANGED <<desk, store, digests, base, like, scans, reviews, faults>>

-----------------------------------------------------------------------------
(* poller.ts tick and service.ts runDay, after run_time of the day.        *)

\* staffActiveGroups: every such group but the desk, claimed or not.
StartDigest(h) ==
  /\ scan[h] = "rest" /\ desk # "none" /\ busy \ {desk} # {}
  /\ scan' = [scan EXCEPT ![h] = "claim"]
  /\ queue' = [queue EXCEPT ![h] = busy \ {desk}]
  /\ UNCHANGED <<desk, busy, store, digests, base, like, group, facts, reviews, faults>>

\* Mutant of RunIsFree: a run that failed is claimed again.
RunIsFreeAfterFailure(g) == run[g] \in {"none", "Failed"}

\* claimRun: INSERT ... ON CONFLICT DO NOTHING.
RunIsFree(g) == run[g] = "none"

ClaimRun(h) ==
  /\ scan[h] = "claim"
  /\ \E g \in queue[h] :
       LET claimed == [run EXCEPT ![g] = "Running"] IN
       \/ /\ RunIsFree(g) /\ run' = claimed
          /\ scan' = [scan EXCEPT ![h] = "extract"]
          /\ queue' = [queue EXCEPT ![h] = @ \ {g}]
          /\ group' = [group EXCEPT ![h] = g]
          /\ UNCHANGED <<facts, faults>>
       \/ ~RunIsFree(g) /\ NextGroup(h, queue[h] \ {g}) /\ UNCHANGED <<run, faults>>
       \* claimRun stands outside the try: its failure ends the tick.
       \/ Fault /\ NextGroup(h, {}) /\ run' \in {run, IF RunIsFree(g) THEN claimed ELSE run}
  /\ UNCHANGED <<desk, busy, proposal, digests, base, like, reviews>>

\* messagesForDay and the extractor, whose answer may not parse. A quiet day
\* has nothing to send; a day may have problems and no fact.
Extract(h) ==
  /\ scan[h] = "extract"
  /\ \/ \E n \in 0..MaxFacts :
          /\ scan' = [scan EXCEPT ![h] = IF n = 0 THEN "send" ELSE "insert"]
          /\ facts' = [facts EXCEPT ![h] = n]
          /\ UNCHANGED <<queue, group>>
     \/ ScanAt(h, "done")
     \/ ScanAt(h, "failed")
  /\ UNCHANGED <<desk, busy, store, digests, base, like, reviews, faults>>

\* insertProposals, one INSERT for each fact.
InsertProposal(h) ==
  LET p == <<group[h], facts[h]>>
      inserted == [proposal EXCEPT ![p] = "Pending"]
  IN
  /\ scan[h] = "insert"
  /\ \/ /\ proposal' = inserted
        /\ scan' = [scan EXCEPT ![h] = IF facts[h] = 1 THEN "send" ELSE "insert"]
        /\ facts' = [facts EXCEPT ![h] = @ - 1]
        /\ UNCHANGED <<queue, group, faults>>
     \/ Fault /\ proposal' \in {proposal, inserted} /\ ScanAt(h, "failed")
  /\ UNCHANGED <<desk, busy, run, digests, base, like, reviews>>

\* broadcaster.send to the desk that the tick has read.
SendDigest(h) ==
  LET arrived == [digests EXCEPT ![group[h]] = @ + 1] IN
  /\ scan[h] = "send"
  /\ \/ digests' = arrived /\ ScanAt(h, "done") /\ UNCHANGED faults
     \/ Fault /\ digests' \in {digests, arrived} /\ ScanAt(h, "failed")
  /\ UNCHANGED <<desk, busy, store, base, like, reviews>>

\* finishRun. When that of a finished run fails it is taken for a failed one,
\* and finishFailedQuietly may fail in turn.
FinishRun(h) ==
  LET finished == [run EXCEPT ![group[h]] = IF scan[h] = "done" THEN "Done" ELSE "Failed"] IN
  /\ scan[h] \in {"done", "failed"}
  /\ \/ run' = finished /\ NextGroup(h, queue[h]) /\ UNCHANGED faults
     \/ /\ Fault /\ run' \in {run, finished}
        /\ IF scan[h] = "done" THEN ScanAt(h, "failed") ELSE NextGroup(h, queue[h])
  /\ UNCHANGED <<desk, busy, proposal, digests, base, like, reviews>>

\* The process dies in its tick.
DieInDigest(h) ==
  /\ scan[h] # "rest" /\ Fault /\ NextGroup(h, {})
  /\ UNCHANGED <<desk, busy, store, digests, base, like, reviews>>

-----------------------------------------------------------------------------
(* KbReviewService, behind /duyet-kb and /tuchoi-kb.                       *)

EndReview(h) ==
  review' = [review EXCEPT ![h] = "idle"] /\ subject' = [subject EXCEPT ![h] = <<>>]

Say(p, what) == told' = [told EXCEPT ![p] = @ \cup {what}]

ReviewAt(h, where) == review' = [review EXCEPT ![h] = where] /\ UNCHANGED <<subject, told>>

\* A command names a proposal, and findPendingByShortId finds those that wait.
ApproveCommand(h, p) ==
  /\ review[h] = "idle" /\ desk # "none" /\ proposal[p] = "Pending"
  /\ review' = [review EXCEPT ![h] = "source"]
  /\ subject' = [subject EXCEPT ![h] = p]
  /\ UNCHANGED <<desk, busy, store, digests, base, like, scans, told, faults>>

RejectCommand(h, p) ==
  /\ review[h] = "idle" /\ desk # "none" /\ proposal[p] = "Pending"
  /\ review' = [review EXCEPT ![h] = "reject"]
  /\ subject' = [subject EXCEPT ![h] = p]
  /\ UNCHANGED <<desk, busy, store, digests, base, like, scans, told, faults>>

\* Mutant of HasSource: an embedder that fails counts as nothing to write.
HasSourceOrSkip(h) ==
  /\ review[h] = "source"
  /\ \/ ReviewAt(h, IF base[subject[h]] > 0 THEN "approve" ELSE "near") /\ UNCHANGED faults
     \/ Fault /\ ReviewAt(h, "approve")
  /\ UNCHANGED <<desk, busy, store, digests, base, like, scans>>

\* approve writes the knowledge base first. memory.write: hasSource, then the
\* embedding, which may fail.
HasSource(h) ==
  /\ review[h] = "source"
  /\ \/ ReviewAt(h, IF base[subject[h]] > 0 THEN "approve" ELSE "near") /\ UNCHANGED faults
     \/ Fault /\ EndReview(h) /\ UNCHANGED told
  /\ UNCHANGED <<desk, busy, store, digests, base, like, scans>>

\* memory.write: hasNearDuplicate, which skips the fact.
NearDuplicate(h) ==
  LET p == subject[h] IN
  /\ review[h] = "near"
  /\ \/ like' = (IF base[p] = 0 THEN like \cup {p} ELSE like) /\ ReviewAt(h, "approve")
        /\ UNCHANGED faults
     \/ base[p] = 0 /\ ReviewAt(h, "insert") /\ UNCHANGED <<like, faults>>
     \/ Fault /\ EndReview(h) /\ UNCHANGED <<like, told>>
  /\ UNCHANGED <<desk, busy, store, digests, base, scans>>

\* memory.write: the INSERT.
InsertFact(h) ==
  LET inserted == [base EXCEPT ![subject[h]] = @ + 1] IN
  /\ review[h] = "insert"
  /\ \/ base' = inserted /\ ReviewAt(h, "approve") /\ UNCHANGED faults
     \/ Fault /\ base' \in {base, inserted} /\ EndReview(h) /\ UNCHANGED told
  /\ UNCHANGED <<desk, busy, store, digests, like, scans>>

\* The WHERE of decide.
StillPending(p) == proposal[p] = "Pending"

\* decide. Neither approve nor reject looks at what it returns.
Decide(h) ==
  LET p == subject[h]
      verdict == IF review[h] = "approve" THEN "Approved" ELSE "Rejected"
      decided == [proposal EXCEPT ![p] = IF StillPending(p) THEN verdict ELSE @]
  IN
  /\ review[h] \in {"approve", "reject"}
  /\ \/ proposal' = decided /\ Say(p, IF verdict = "Approved" THEN "approved" ELSE "rejected")
        /\ UNCHANGED faults
     \/ Fault /\ proposal' \in {proposal, decided} /\ UNCHANGED told
  /\ EndReview(h)
  /\ UNCHANGED <<desk, busy, run, digests, base, like, scans>>

-----------------------------------------------------------------------------
ScanNext(h) ==
  \/ StartDigest(h) \/ ClaimRun(h) \/ Extract(h) \/ InsertProposal(h) \/ SendDigest(h) \/ FinishRun(h)
  \/ DieInDigest(h)

ReviewNext(h) ==
  \/ \E p \in Proposal : ApproveCommand(h, p) \/ RejectCommand(h, p)
  \/ HasSource(h) \/ NearDuplicate(h) \/ InsertFact(h) \/ Decide(h)

DigestNext ==
  \/ \E g \in Group : BindDesk(g) \/ StaffWrites(g)
  \/ \E h \in Host : ScanNext(h) \/ ReviewNext(h)

DigestSpec == DigestInit /\ NoFault /\ [][DigestNext]_<<digestVars, faults>>

-----------------------------------------------------------------------------
(* Properties                                                              *)

(* DigestOnce: a group is digested once a day however many processes tick   *)
(* and whatever failed before, and a run that was claimed is closed unless *)
(* a statement failed or its process died (service.ts:48-52, 5-6). Every   *)
(* proposal of a run that is done was in a digest that reached the desk.   *)
DigestOnce ==
  \A g \in Group :
    /\ digests[g] <= 1
    /\ run[g] = "Running" => faults > 0 \/ \E h \in Host : group[h] = g
    /\ \A p \in Proposal : run[g] = "Done" /\ p[1] = g /\ proposal[p] # "none" => digests[g] = 1

(* ApprovedIsWritten: whatever staff read as approved, and whatever stands  *)
(* as approved, is in the knowledge base, itself or a fact nearly the same, *)
(* through a crash between the two writes (service.ts:190-195).            *)
ApprovedIsWritten ==
  \A p \in Proposal :
    proposal[p] = "Approved" \/ "approved" \in told[p] => base[p] > 0 \/ p \in like
=============================================================================
