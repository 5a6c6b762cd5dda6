------------------------------ MODULE Reading ------------------------------
(***************************************************************************)
(* What the model can have read to it: a picture or a document that        *)
(* somebody attached (src/vision, src/doc and their tools), and a skill     *)
(* with its references (src/skills). A tool that cannot read says so to the *)
(* model, which asks the sender for another file; what is the system's own *)
(* trouble is thrown to the runner, which reports it and tells the model    *)
(* that the tool is out of order.                                          *)
(*                                                                         *)
(* One call of a tool. Lengths are counted in coarse units. What an address *)
(* or a text says is left out.                                             *)
(***************************************************************************)
EXTENDS Integers, SequencesExt

CONSTANTS
  TextCap,     \* MAX_MARKDOWN_CHARS
  MaxText,     \* bound on what a document holds
  Ref,         \* references of the skill
  RefBudget,   \* REFERENCE_BUDGET_CHARS
  MaxRef       \* bound on the length of a reference

ASSUME ReadingAssumption ==
  /\ TextCap \in Nat \ {0} /\ MaxText \in Nat /\ RefBudget \in Nat /\ MaxRef \in Nat
  /\ IsFiniteSet(Ref)

VARIABLES
  asks,       \* the tool
  link,       \* its url: "none" is given, or it is "bad", of a "foreign" host or
              \* of a "listed" one
  visible,    \* does the agent see the skill?
  shelf,      \* [Ref -> Nat]: lengths of the references
  place,      \* where the call is
  words,      \* what the model is told
  given,      \* SUBSET Ref: references that it was handed
  pointed,    \* SUBSET Ref: references that it was told the name of
  cause,      \* history variable: what went wrong
  length,     \* history variable: what the attachment holds, -1 if nobody knows
  contacted,  \* history variable: hosts that were asked
  scans,      \* history variable: calls that asked for OCR
  blind       \* history variable: did the references fail to be listed?

call        == <<asks, link, visible, shelf>>
traces      == <<cause, length, contacted, scans, blind>>
readingVars == <<call, place, words, given, pointed, traces>>

(* ReadingTypeOK: the type invariant; whatever a call ends with is told.    *)
ReadingTypeOK ==
  /\ asks \in {"xem_anh", "doc_file", "use_skill"}
  /\ link \in {"none", "bad", "foreign", "listed"}
  /\ visible \in BOOLEAN /\ shelf \in [Ref -> 0..MaxRef]
  /\ place \in {"asked", "fetch", "body", "name", "describe", "plain", "ocr", "skill", "over"}
  /\ words \in {"none", "missing", "whole", "cut", "fault", "incident"}
  /\ place = "over" <=> words # "none"
  /\ given \subseteq Ref /\ pointed \subseteq Ref
  /\ cause \in {"none", "link", "download", "stream", "file", "name", "service", "busy"}
  /\ length \in -1..MaxText /\ scans \in 0..1 /\ blind \in BOOLEAN
  /\ contacted \subseteq {"listed", "foreign", "service"}

\* A call that has not begun.
ReadingIdle ==
  /\ place = "asked" /\ words = "none" /\ given = {} /\ pointed = {}
  /\ cause = "none" /\ length = -1 /\ contacted = {} /\ scans = 0 /\ blind = FALSE

\* A skill has no link, an attachment no references.
ReadingInit ==
  /\ asks \in {"xem_anh", "doc_file", "use_skill"}
  /\ link \in {"none", "bad", "foreign", "listed"} /\ (asks = "use_skill" => link = "none")
  /\ visible \in BOOLEAN /\ (asks # "use_skill" => visible)
  /\ shelf \in [Ref -> 0..MaxRef] /\ (asks # "use_skill" \/ ~visible => \A r \in Ref : shelf[r] = 0)
  /\ ReadingIdle

-----------------------------------------------------------------------------
Move(where) == place' = where /\ UNCHANGED words

EndWith(what) == place' = "over" /\ words' = what

\* ImageReadError and DocReadError are for the model, any other error for the runner.
Blame(what) == EndWith("fault") /\ cause' = what
Raise(what) == EndWith("incident") /\ cause' = what

NoRefs == UNCHANGED <<call, given, pointed, blind>>

-----------------------------------------------------------------------------
(* image-vision.ts and anydoc.ts: the attachment is fetched.                *)

\* The tool's input, then checkUrl, before anything is asked of the network.
CheckUrl ==
  /\ place = "asked" /\ asks # "use_skill"
  /\ CASE link = "none" -> EndWith("missing") /\ UNCHANGED cause
       [] link \in {"bad", "foreign"} -> Blame("link")
       [] OTHER -> Move("fetch") /\ UNCHANGED cause
  /\ UNCHANGED <<length, contacted, scans>> /\ NoRefs

\* Mutant of Download: a redirection is followed.
DownloadFollows ==
  /\ place = "fetch"
  /\ \/ Move("body") /\ contacted' \in {{"listed"}, {"listed", "foreign"}} /\ UNCHANGED cause
     \/ contacted' \in {{}, {"listed"}} /\ Blame("download")
  /\ UNCHANGED <<length, scans>> /\ NoRefs

\* download, up to the status: it fails, is too late, sends elsewhere or refuses.
Download ==
  /\ place = "fetch"
  /\ \/ Move("body") /\ contacted' = {"listed"} /\ UNCHANGED cause
     \/ contacted' \in {{}, {"listed"}} /\ Blame("download")
  /\ UNCHANGED <<length, scans>> /\ NoRefs

\* readMimeType of a picture, and readCapped: it is of another kind, empty, too
\* large, or there. A connection that breaks in it is nobody's to catch.
ReadBody ==
  /\ place = "body"
  /\ \/ length' \in 0..MaxText /\ Move(IF asks = "xem_anh" THEN "describe" ELSE "name") /\ UNCHANGED cause
     \/ Blame("file") /\ UNCHANGED length
     \/ Raise("stream") /\ UNCHANGED length
  /\ UNCHANGED <<contacted, scans>> /\ NoRefs

\* The name of the document is the one in the call, or is decoded from the link,
\* whose escapes may be malformed.
NameFile ==
  /\ place = "name"
  /\ (Move("plain") /\ UNCHANGED cause) \/ Raise("name")
  /\ UNCHANGED <<length, contacted, scans>> /\ NoRefs

Serve == contacted' = contacted \cup {"service"}

\* GeminiVision.describe: it is unreachable, refuses, or answers something else than
\* JSON; or it has a text, or none: of a picture without text, or out of scruple.
\* The text may end at MAX_OUTPUT_TOKENS, of which nothing is said.
Describe ==
  /\ place = "describe" /\ Serve
  /\ \/ length > 0 /\ EndWith("whole") /\ UNCHANGED cause
     \/ Blame("file")
     \/ Raise("service")
  /\ UNCHANGED <<length, scans>> /\ NoRefs

\* Mutant of Text: what is too long is cut and nothing said.
TextCutQuietly == IF length = 0 THEN Blame("file") ELSE EndWith("whole") /\ UNCHANGED cause

\* AnydocDocReader.read, its end: a document without text, or one that is cut.
Text ==
  IF length = 0 THEN Blame("file")
  ELSE EndWith(IF length > TextCap THEN "cut" ELSE "whole") /\ UNCHANGED cause

\* convert: the answers of anydoc but the one that there is no text without OCR.
AnyAnswer ==
  \/ Text
  \/ Blame("file")       \* 413 and every other status, ...
  \/ Blame("busy")       \* ... 429 among them, whose file is said to be unreadable
  \/ Raise("service")   \* unreachable, 401, 403, from 500 on, or no JSON

\* convert without OCR ...
Convert ==
  /\ place = "plain" /\ Serve
  /\ \/ AnyAnswer /\ UNCHANGED scans
     \/ Move("ocr") /\ UNCHANGED <<cause, scans>>
  /\ UNCHANGED length /\ NoRefs

\* ... and once more with it, for a document of pictures.
ConvertByOcr ==
  /\ place = "ocr" /\ scans' = scans + 1 /\ Serve
  /\ AnyAnswer
  /\ UNCHANGED length /\ NoRefs

-----------------------------------------------------------------------------
(* skills/selector.ts                                                      *)

TextOf(refs) == SumFunctionOnSet(shelf, refs)

\* The small ones first; of two of a length, the one that readdir names first.
Orders(refs) ==
  {docs \in [1..Cardinality(refs) -> refs] :
     Range(docs) = refs /\ \A i, j \in DOMAIN docs : i < j => shelf[docs[i]] <= shelf[docs[j]]}

\* bundleReferences: what is handed over of the first n documents, ...
Loading(docs) ==
  LET loaded[n \in 0..Len(docs)] ==
        IF n = 0 THEN {}
        ELSE IF TextOf(loaded[n - 1]) + shelf[docs[n]] <= RefBudget THEN loaded[n - 1] \cup {docs[n]}
        ELSE loaded[n - 1]
  IN  loaded

\* ... and of all, as many as the budget holds.
Bundle(docs) == Loading(docs)[Len(docs)]

\* resolveVisible: a skill of other agents is as good as none.
Unseen == ~visible /\ EndWith("missing")

\* readBody and readReference: a file that cannot be read is the runner's, ...
Unreadable == visible /\ Raise("service")

\* ... but in listReferences a directory that cannot be read is taken for none.
Unlisted == blind' = TRUE

\* use_skill: the body of a skill that the agent sees and the references that fit are
\* handed to it, and the others named.
UseSkill ==
  /\ place = "asked" /\ asks = "use_skill"
  /\ \/ Unseen /\ UNCHANGED <<cause, given, pointed, blind>>
     \/ /\ visible /\ place' = "skill" /\ words' = words
        /\ \/ (\E docs \in Orders(Ref) : given' = Bundle(docs)) /\ pointed' = Ref \ given' /\ UNCHANGED blind
           \/ Unlisted /\ UNCHANGED <<given, pointed>>
        /\ UNCHANGED cause
     \/ Unreadable /\ UNCHANGED <<given, pointed, blind>>
  /\ UNCHANGED <<call, length, contacted, scans>>

\* use_reference, of one that was named; or the model has read enough. It is told
\* that there is no such reference if they cannot be listed.
UseReference ==
  /\ place = "skill"
  /\ \/ /\ \E r \in pointed \ given : given' = given \cup {r}
        /\ UNCHANGED <<place, words, cause, blind>>
     \/ EndWith("whole") /\ UNCHANGED <<cause, given, blind>>
     \/ pointed # {} /\ EndWith("missing") /\ Unlisted /\ UNCHANGED <<cause, given>>
     \/ pointed # {} /\ Unreadable /\ UNCHANGED <<given, blind>>
  /\ UNCHANGED <<call, pointed, length, contacted, scans>>

-----------------------------------------------------------------------------
ReadingNext ==
  \/ CheckUrl \/ Download \/ ReadBody \/ NameFile
  \/ Describe \/ Convert \/ ConvertByOcr
  \/ UseSkill \/ UseReference

ReadingSpec == ReadingInit /\ [][ReadingNext]_readingVars

-----------------------------------------------------------------------------
(* Properties                                                              *)

(* WholeIsWhole: of a document whose text is cut the model is told so, and  *)
(* what it is not told of has all been read to it; it is not told that a   *)
(* file was read of which there is nothing (anydoc.ts:27-30).               *)
WholeIsWhole ==
  /\ words = "cut" => asks = "doc_file" /\ length > TextCap
  /\ words = "whole" /\ asks # "use_skill" => length > 0
  /\ words = "whole" /\ asks = "doc_file" => length <= TextCap

(* BlameIsFair: the sender is asked for another file only if his link, its  *)
(* download or the file itself failed, or the service was busy; and what    *)
(* reaches the runner is none of these (xem-anh.ts:101-102,                *)
(* doc-file.ts:80-81).                                                     *)
BlameIsFair ==
  /\ words = "fault" => cause \in {"link", "download", "file", "busy"}
  /\ words = "incident" => cause \in {"stream", "name", "service"}
  /\ words \in {"whole", "cut"} => cause = "none"

(* FetchedAsListed: no host outside the allowlist is asked, and the service *)
(* only about what came from one inside it, by OCR at most once and only    *)
(* for a document (anydoc.ts:7-14).                                         *)
FetchedAsListed ==
  /\ contacted \subseteq {"listed", "service"}
  /\ "service" \in contacted => link = "listed" /\ "listed" \in contacted
  /\ scans <= 1 /\ (scans = 1 => asks = "doc_file")

(* NothingIsHidden: of a skill that it sees the model is handed or told the *)
(* name of every reference, unless they could not be listed; what it is    *)
(* handed with the skill fits the budget and leaves out nothing that would *)
(* still fit, the longest first; of one it does not see it gets nothing     *)
(* (selector.ts:67-79, 158-161).                                           *)
NothingIsHidden ==
  LET handed == given \ pointed IN
  /\ place = "skill" /\ ~blind => given \cup pointed = Ref
  /\ TextOf(handed) <= RefBudget
  /\ \A r \in pointed :
       /\ \A g \in handed : shelf[g] <= shelf[r]
       /\ TextOf(handed) + shelf[r] > RefBudget
  /\ ~visible => given \cup pointed = {}
  /\ asks = "use_skill" /\ words = "missing" => ~visible \/ blind

(* ReadingIsTrue: what the model is told of an attachment or a skill is so. *)
ReadingIsTrue == WholeIsWhole /\ BlameIsFair /\ FetchedAsListed /\ NothingIsHidden
=============================================================================
