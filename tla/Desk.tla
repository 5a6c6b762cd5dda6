-------------------------------- MODULE Desk --------------------------------
(***************************************************************************)
(* The tools of the agent that read and write the operational system        *)
(* (src/tools/impl), and the client they share (src/operational). A call    *)
(* reads, decides by what it read, writes, and has a word for what came of  *)
(* it. The system is the external part: it answers, refuses, fails before   *)
(* or after it did what it was asked, or answers what nobody can read.      *)
(*                                                                         *)
(* The calls are those of one dealer's rooms. Two reads that run in         *)
(* parallel (the catalogue and the profile) are one step: what changes      *)
(* between them has changed since the call looked.                         *)
(***************************************************************************)
EXTENDS Naturals

CONSTANTS
  Call,       \* tool calls
  MaxTier,    \* bound: the tiers are 1..MaxTier, the last one the shareholders'
  Days,       \* bound: days 0..Days-1 of the confirmation book
  Sundays,    \* the days on which no customer is called, no two in a row
  MaxCount,   \* bound: pieces on a row of the stock sheet
  Retries     \* attempts of a GET after the first (RETRY_BACKOFF_MS)

ASSUME DeskAssumption ==
  /\ MaxTier \in Nat \ {0} /\ Days \in Nat \ {0} /\ MaxCount \in Nat /\ Retries \in Nat
  /\ Sundays \subseteq Nat /\ \A d \in Sundays : d + 1 \notin Sundays

\* tra_don_hang, nang_bac_chiet_khau, duyet_don_da_thanh_toan, duyet_don_qua_kho,
\* tao_phieu_thanh_toan, nap_poscake, ghi_nhan_khach, ghi_ton_kho, ghi_dang_ky.
Tool == {"lookup", "upgrade", "paid", "validate", "batch", "shop", "customer", "count", "register"}
Writer == Tool \ {"lookup"}

VARIABLES
  tool,      \* the tool of each call
  at,        \* where the call is: "gate", "read", "check", "write" or "over"
  tries,     \* failed attempts of the GET that is running
  target,    \* the tier an upgrade asks for
  booking,   \* what a registration asks for, and then what it will write
  sheet,     \* how the numbers a count will write stand to the sheet: "true",
             \* "shifted" by what the rows without a code hold, or "false"
  word,      \* what the call told the model
  heard,      \* history variable: the last answer the system gave to a GET
  writes,    \* history variable: how often the system did what the call asked
  moved,     \* history variable: has the system or the day moved since the call looked?
  wrong,     \* history variable: did the call's effect contradict the system as it stood?
  tier,      \* external: the dealer's tier, 0 for none
  listed,    \* external: the tiers of the catalogue
  order,     \* external: the dealer's order is "fresh", "awaiting" or "approved"
  clock      \* the time, in spans of the day

plans    == <<target, booking, sheet>>
opsVars  == <<tier, listed, order, clock>>
callVars == <<tool, at, tries, plans, word, heard, writes, wrong>>
deskVars == <<callVars, moved, opsVars>>

\* A day has five spans: until 11:31, until 12:00, until 16:31, until 17:00, the
\* rest. A slot, 1 (trua) or 2 (chieu), is full from LateFrom and over from EndOf.
DayOf(t) == t \div 5
SpanOf(t) == t % 5
LateFrom(slot) == 2 * slot - 1
EndOf(slot) == 2 * slot
Times == 0..(5 * Days - 1)

Booking == [asked : 0..(Days - 1), day : 0..(Days + 1), slot : {1, 2}, today : BOOLEAN, onTime : BOOLEAN]
NoBooking == [asked |-> 0, day |-> 0, slot |-> 1, today |-> FALSE, onTime |-> FALSE]

(* DeskTypeOK: the type invariant; a call has a word exactly when it is     *)
(* over, nothing is written before, and a GET is tried Retries times more.  *)
DeskTypeOK ==
  /\ tool \in [Call -> Tool]
  /\ at \in [Call -> {"gate", "read", "check", "write", "over"}]
  /\ tries \in [Call -> 0..Retries]
  /\ target \in [Call -> 0..MaxTier] /\ booking \in [Call -> Booking]
  /\ sheet \in [Call -> {"true", "shifted", "false"}]
  /\ word \in [Call -> {"nothing", "refused", "unread", "none", "denied", "unsure", "done", "error"}]
  /\ heard \in [Call -> {"nothing", "ok", "absent", "fail", "cut"}]
  /\ writes \in [Call -> Nat] /\ moved \in [Call -> BOOLEAN] /\ wrong \in [Call -> BOOLEAN]
  /\ \A c \in Call :
       /\ at[c] = "over" <=> word[c] # "nothing"
       /\ writes[c] > 0 => at[c] = "over" /\ tool[c] \in Writer
       /\ at[c] = "check" => tool[c] = "register"
  /\ tier \in 0..MaxTier /\ listed \subseteq 1..MaxTier
  /\ order \in {"fresh", "awaiting", "approved"} /\ clock \in Times

Uses(tools) == \E c \in Call : tool[c] \in tools

\* What no call looks at stands still.
DeskInit ==
  /\ tool \in [Call -> Tool]
  /\ at = [c \in Call |-> "gate"] /\ tries = [c \in Call |-> 0]
  /\ target = [c \in Call |-> 0] /\ booking = [c \in Call |-> NoBooking]
  /\ sheet = [c \in Call |-> "true"]
  /\ word = [c \in Call |-> "nothing"] /\ heard = [c \in Call |-> "nothing"]
  /\ writes = [c \in Call |-> 0]
  /\ moved = [c \in Call |-> FALSE] /\ wrong = [c \in Call |-> FALSE]
  /\ tier \in IF Uses({"upgrade"}) THEN 0..MaxTier ELSE {0}
  /\ listed \in IF Uses({"upgrade"}) THEN SUBSET (1..MaxTier) ELSE {{}}
  /\ order \in IF Uses({"paid"}) THEN {"fresh", "awaiting", "approved"} ELSE {"fresh"}
  /\ clock \in IF Uses({"register"}) THEN Times ELSE {0}

-----------------------------------------------------------------------------
(* The ways a call ends, and what it notices of the world's changes.       *)
GoTo(c, where) == at' = [at EXCEPT ![c] = where] /\ UNCHANGED word

Tell(c, what) == at' = [at EXCEPT ![c] = "over"] /\ word' = [word EXCEPT ![c] = what]

\* The world moves under every call that has looked and has not finished.
Moves ==
  moved' = [c \in Call |->
    moved[c] \/ (at[c] \in {"read", "check", "write"} /\ at'[c] = at[c] /\ opsVars' # opsVars)]

Still == UNCHANGED <<moved, opsVars>>

\* resolvePrincipal: the dealer of the room, or the dealer who speaks.
HasDealer(role, room) == room \/ role = "dealer"

\* Whom a tool serves: the checks at the head of every run.
Admits(t, role, room) ==
  CASE t \in {"validate", "count"} -> role = "staff"
    [] t = "upgrade" -> role = "staff" /\ HasDealer(role, room)
    [] t \in {"paid", "shop"} -> role # "guest" /\ HasDealer(role, room)
    [] t \in {"lookup", "batch"} -> HasDealer(role, room)
    [] t \in {"customer", "register"} -> TRUE

\* runToolCall: the call begins. The role, the room and the input are those of
\* the turn; a registration reads the day on its way in.
EnterTool(c) ==
  /\ at[c] = "gate"
  /\ \E role \in {"staff", "dealer", "guest"}, room, valid \in BOOLEAN :
       IF valid /\ Admits(tool[c], role, room)
       THEN GoTo(c, IF tool[c] \in {"lookup", "upgrade", "paid", "count", "register"}
                    THEN "read" ELSE "write")
       ELSE Tell(c, "refused")
  /\ IF tool[c] = "register"
     THEN \E asked \in 0..(Days - 1), slot \in {1, 2} :
            booking' = [booking EXCEPT ![c] = [asked |-> asked, day |-> asked, slot |-> slot,
                                               today |-> asked = DayOf(clock), onTime |-> FALSE]]
     ELSE UNCHANGED booking
  /\ UNCHANGED <<tool, tries, target, sheet, heard, writes, wrong>> /\ Still

-----------------------------------------------------------------------------
(* AgentApiClient.get. An attempt that fails in transport or with a 5xx is  *)
(* made again; a 4xx, an unreadable answer and the last failure end it.    *)
GetAgain(c) ==
  /\ at[c] \in {"read", "check"} /\ tool[c] # "count" /\ tries[c] < Retries
  /\ tries' = [tries EXCEPT ![c] = @ + 1]
  /\ UNCHANGED <<tool, at, plans, word, heard, writes, wrong>> /\ Still

\* A GET ends: with data, a 404, an AgentApiError, or with the raw error of a
\* body that was cut off, which the runner reports.
GetEnds(c, where, answer) ==
  /\ at[c] = where
  /\ heard' = [heard EXCEPT ![c] = answer]
  /\ tries' = [tries EXCEPT ![c] = 0]
  /\ UNCHANGED <<tool, writes, wrong>> /\ Still

\* What is told of a read that brought nothing to decide by.
NotRead(c, answer) ==
  /\ answer \in {"fail", "cut"}
  /\ Tell(c, IF answer = "fail" THEN "unread" ELSE "error")
  /\ UNCHANGED plans

\* Mutant of LookUp: an answer that could not be had is no such order.
LookUpBlindly(c) ==
  /\ tool[c] = "lookup"
  /\ \E answer \in {"ok", "absent", "fail", "cut"} :
       /\ GetEnds(c, "read", answer)
       /\ Tell(c, IF answer = "ok" THEN "done" ELSE "none") /\ UNCHANGED plans

\* tra_don_hang: a 404 is the answer that the dealer has no such order.
LookUp(c) ==
  /\ tool[c] = "lookup"
  /\ \E answer \in {"ok", "absent", "fail", "cut"} :
       /\ GetEnds(c, "read", answer)
       /\ \/ answer = "ok" /\ Tell(c, "done") /\ UNCHANGED plans
          \/ answer = "absent" /\ Tell(c, "none") /\ UNCHANGED plans
          \/ NotRead(c, answer)

\* checkUpgrade: up the ordinary scale, and for those who stand on it.
MayUpgrade(from, to) == to # MaxTier /\ from # MaxTier /\ to > from

\* loadView: a dealer without a tier, or with one of the catalogue.
CurrentIsKnown == tier = 0 \/ tier \in listed

\* loadView, runUpgrade: the tier as the profile and the catalogue show it.
ShownTier == IF tier \in listed THEN tier ELSE 0

LoadTier(c) ==
  /\ tool[c] = "upgrade"
  /\ \/ /\ GetEnds(c, "read", "ok")
        /\ \E to \in 1..MaxTier :
             IF CurrentIsKnown /\ to \in listed /\ MayUpgrade(ShownTier, to)
             THEN GoTo(c, "write") /\ target' = [target EXCEPT ![c] = to]
             ELSE Tell(c, "refused") /\ UNCHANGED target
        /\ UNCHANGED <<booking, sheet>>
     \/ \E answer \in {"fail", "cut"} : GetEnds(c, "read", answer) /\ NotRead(c, answer)

\* validate-paid: an order that waits for the dealer's money stays where it is.
Eligible == order # "awaiting"

LoadOrder(c) ==
  /\ tool[c] = "paid"
  /\ \E answer \in {"ok", "absent", "fail", "cut"} :
       /\ GetEnds(c, "read", answer)
       /\ \/ answer = "ok" /\ Eligible /\ GoTo(c, "write") /\ UNCHANGED plans
          \/ answer = "ok" /\ ~Eligible /\ Tell(c, "refused") /\ UNCHANGED plans
          \/ answer = "absent" /\ Tell(c, "none") /\ UNCHANGED plans
          \/ NotRead(c, answer)

-----------------------------------------------------------------------------
(* ghi_dang_ky: the dealer, the customer's purchase, then the slot.        *)
NextWorkingDay(day) == IF day + 1 \in Sundays THEN day + 2 ELSE day + 1

\* Mutant of Rescheduled: the loop ends after its first round.
RescheduledOnce(b) ==
  IF b.day # DayOf(clock) \/ b.day \in Sundays \/ SpanOf(clock) < LateFrom(b.slot) THEN b
  ELSE IF b.slot = 1 THEN [b EXCEPT !.slot = 2]
       ELSE [b EXCEPT !.day = NextWorkingDay(@), !.slot = 1]

\* rescheduleIfLate: noon, then the afternoon, then the next working day.
Rescheduled(b) ==
  IF b.day # DayOf(clock) \/ b.day \in Sundays \/ SpanOf(clock) < LateFrom(b.slot) THEN b
  ELSE IF b.slot = 1 /\ SpanOf(clock) < LateFrom(2) THEN [b EXCEPT !.slot = 2]
       ELSE [b EXCEPT !.day = NextWorkingDay(@), !.slot = 1]

\* isOnTime.
IsOnTime(b) ==
  /\ b.day \notin Sundays
  /\ b.day > DayOf(clock) \/ (b.day = DayOf(clock) /\ SpanOf(clock) < EndOf(b.slot))

Book(c) ==
  LET b == Rescheduled(booking[c])
  IN  /\ GoTo(c, "write")
      /\ booking' = [booking EXCEPT ![c] = [b EXCEPT !.onTime = IsOnTime(b)]]
      /\ UNCHANGED <<target, sheet>>

\* verifyDealer; a customer who is said to use the product is looked up next.
FindDealer(c) ==
  /\ tool[c] = "register"
  /\ \E answer \in {"ok", "absent", "fail", "cut"} :
       /\ GetEnds(c, "read", answer)
       /\ \/ answer = "ok" /\ Book(c)
          \/ answer = "ok" /\ GoTo(c, "check") /\ UNCHANGED plans
          \/ answer = "absent" /\ Tell(c, "none") /\ UNCHANGED plans
          \/ NotRead(c, answer)

\* verifyPurchase: bought, or the sale insists; otherwise the sale is asked.
CheckPurchase(c) ==
  \/ /\ GetEnds(c, "check", "ok")
     /\ \E bought, insists \in BOOLEAN :
          IF bought \/ insists THEN Book(c) ELSE Tell(c, "refused") /\ UNCHANGED plans
  \/ \E answer \in {"fail", "cut"} : GetEnds(c, "check", answer) /\ NotRead(c, answer)

-----------------------------------------------------------------------------
(* ghi_ton_kho: the picture of a sheet with three rows, read by a model     *)
(* that may take a number for another or leave the last row out; what STT,  *)
(* code or day it reads wrong is refused or named. The printed total counts *)
(* every row, or those with a code.                                        *)
Row == 1..3
Pieces(s, rows) ==
  LET Of(i) == IF i \in rows THEN s[i] ELSE 0 IN Of(1) + Of(2) + Of(3)

Readings(s) ==
  {s} \cup {[s EXCEPT ![i] = n] : i \in Row, n \in 0..MaxCount} \cup {[i \in Row \ {3} |-> s[i]]}

\* totalMismatch.
TotalMatches(r, coded, total) ==
  total \in {Pieces(r, DOMAIN r), Pieces(r, coded \cap DOMAIN r)}

\* formulaMismatch: in the evening every row adds up to its last number.
RowsAddUp(r, s, evening) == evening => \A i \in DOMAIN r : r[i] = s[i]

\* How the rows that were read stand to those of the sheet.
Compared(r, s, coded) ==
  LET shown == Pieces(s, coded)
      read == Pieces(r, coded \cap DOMAIN r)
      rest == Pieces(s, Row \ coded)
  IN  IF \A i \in coded : s[i] = (IF i \in DOMAIN r THEN r[i] ELSE 0) THEN "true"
      ELSE IF shown = read + rest \/ read = shown + rest THEN "shifted"
      ELSE "false"

ReadSheet(c) ==
  /\ tool[c] = "count" /\ at[c] = "read"
  /\ \/ /\ \E s \in [Row -> 0..MaxCount], coded \in SUBSET Row, evening \in BOOLEAN :
             \E r \in Readings(s), total \in {Pieces(s, Row), Pieces(s, coded)} :
               IF TotalMatches(r, coded, total) /\ RowsAddUp(r, s, evening)
               THEN GoTo(c, "write") /\ sheet' = [sheet EXCEPT ![c] = Compared(r, s, coded)]
               ELSE Tell(c, "refused") /\ UNCHANGED sheet
        /\ UNCHANGED <<target, booking>>
     \/ \E what \in {"refused", "error"} : Tell(c, what) /\ UNCHANGED plans
  /\ UNCHANGED <<tool, tries, heard, writes, wrong>> /\ Still

-----------------------------------------------------------------------------
(* The words for a POST that was done ("ok"), had nothing to do ("idle"),   *)
(* was answered without the fields that prove it ("bare") or unreadably     *)
(* ("odd"), was a 404 ("absent"), another 4xx ("refuse"), or was lost.     *)
UpgradeWord(o) == IF o = "ok" THEN "done" ELSE "unsure"

ApproveWord(o) == IF o \in {"ok", "bare"} THEN "done" ELSE "unsure"

BatchWord(o) ==
  CASE o = "ok" -> "done" [] o = "absent" -> "denied" [] OTHER -> "unsure"

ShopWord(o) ==
  CASE o = "ok" -> "done" [] o \in {"absent", "refuse"} -> "denied" [] OTHER -> "unsure"

CustomerWord(o) ==
  CASE o = "ok" -> "done" [] o \in {"idle", "bare"} -> "none"
    [] o \in {"absent", "refuse"} -> "denied" [] OTHER -> "unsure"

CountWord(o) ==
  CASE o \in {"ok", "bare"} -> "done" [] o = "lost" -> "unsure" [] OTHER -> "denied"

RegisterWord(o) ==
  CASE o \in {"ok", "bare"} -> "done" [] o = "idle" -> "none"
    [] o \in {"absent", "refuse"} -> "denied" [] OTHER -> "unsure"

WordOf(t, o) ==
  CASE t = "upgrade" -> UpgradeWord(o) [] t \in {"paid", "validate"} -> ApproveWord(o)
    [] t = "batch" -> BatchWord(o)     [] t = "shop" -> ShopWord(o)
    [] t = "customer" -> CustomerWord(o) [] t = "count" -> CountWord(o)
    [] t = "register" -> RegisterWord(o)

\* What may have become of a request that ends this way.
Effects(o) ==
  CASE o \in {"ok", "bare", "odd"} -> {TRUE} [] o \in {"lost", "cut"} -> BOOLEAN [] OTHER -> {FALSE}

\* A booking that was on time when it was not, or that was moved, and not to a
\* slot that is open.
Misbooked(b) ==
  LET gone == b.day < DayOf(clock) \/ (b.day = DayOf(clock) /\ SpanOf(clock) >= LateFrom(b.slot))
  IN  \/ b.onTime /\ ~IsOnTime(b)
      \/ b.today /\ b.asked \notin Sundays /\ (b.day \in Sundays \/ gone)

\* The system does what the call asks for.
TakesEffect(c) ==
  /\ writes' = [writes EXCEPT ![c] = @ + 1]
  /\ wrong' = [wrong EXCEPT ![c] =
       CASE tool[c] = "upgrade" -> target[c] <= tier \/ target[c] = MaxTier
         [] tool[c] = "paid" -> order = "awaiting"
         [] tool[c] = "register" -> Misbooked(booking[c])
         [] tool[c] = "count" -> sheet[c] # "true"
         [] OTHER -> FALSE]
  /\ tier' = IF tool[c] = "upgrade" THEN target[c] ELSE tier
  /\ order' = IF tool[c] \in {"paid", "validate"} THEN "approved" ELSE order
  /\ UNCHANGED <<listed, clock>> /\ Moves

Outcomes(t) ==
  {"ok", "bare", "odd", "absent", "refuse", "lost", "cut"}
    \cup (IF t \in {"customer", "register"} THEN {"idle"} ELSE {})

\* AgentApiClient.post: one attempt, whatever comes of it.
PostOnce(c) ==
  /\ at[c] = "write"
  /\ \E o \in Outcomes(tool[c]) : \E effect \in Effects(o) :
       /\ Tell(c, IF o = "cut" THEN "error" ELSE WordOf(tool[c], o))
       /\ IF effect THEN TakesEffect(c) ELSE UNCHANGED <<writes, wrong>> /\ Still
  /\ UNCHANGED <<tool, tries, plans, heard>>

-----------------------------------------------------------------------------
(* The office works on the same records, and the day goes on.              *)
OfficeMovesTier ==
  /\ \E c \in Call : tool[c] = "upgrade" /\ at[c] = "write"
  /\ tier' \in (0..MaxTier) \ {tier}
  /\ UNCHANGED <<callVars, listed, order, clock>> /\ Moves

OfficeMovesOrder ==
  /\ \E c \in Call : tool[c] = "paid" /\ at[c] = "write"
  /\ order' \in {"fresh", "awaiting", "approved"} \ {order}
  /\ UNCHANGED <<callVars, tier, listed, clock>> /\ Moves

ClockStrikes ==
  /\ \E c \in Call : tool[c] = "register" /\ at[c] \in {"read", "check", "write"}
  /\ clock + 1 \in Times /\ clock' = clock + 1
  /\ UNCHANGED <<callVars, tier, listed, order>> /\ Moves

ToolNext ==
  \/ \E c \in Call :
       \/ EnterTool(c) \/ GetAgain(c) \/ LookUp(c) \/ LoadTier(c) \/ LoadOrder(c)
       \/ FindDealer(c) \/ CheckPurchase(c) \/ ReadSheet(c) \/ PostOnce(c)
  \/ OfficeMovesTier \/ OfficeMovesOrder \/ ClockStrikes

DeskSpec == DeskInit /\ [][ToolNext]_deskVars

-----------------------------------------------------------------------------
(* WritesAreTold: what a call tells of its write is what came of it: "done"  *)
(* was done, once; "refused", "unread", "denied" left the system as it was; *)
(* "none" is never said of what could not be read. It goes wrong where the  *)
(* client's failures and a tool's words do not fit: where an answer that is *)
(* lost, or that nobody can read, is taken for a no. (Two exceptions: the   *)
(* count, see CountIsTold; and a customer whose match cannot be read, whom  *)
(* the tool takes for unmatched, so that no call is promised in vain.)     *)
WritesAreTold ==
  \A c \in Call :
    /\ writes[c] <= 1
    /\ word[c] = "done" /\ tool[c] \in Writer => writes[c] = 1
    /\ word[c] \in {"refused", "unread"} => writes[c] = 0
    /\ word[c] = "denied" /\ tool[c] # "count" => writes[c] = 0
    /\ word[c] = "none" => heard[c] = "absent" \/ tool[c] \in {"customer", "register"}
    /\ word[c] = "none" /\ tool[c] # "customer" => writes[c] = 0

(* WritesAreSound: unless the records moved under the call, an upgrade      *)
(* raises the dealer's tier and makes no shareholder, an approval passes no *)
(* order that waits for the dealer's money, a registration that is on time  *)
(* or moved has a slot that is open, and a count writes what the sheet      *)
(* shows; the rows without a code are the one thing the sheet's own sum     *)
(* cannot tell from a number that was read wrong.                          *)
WritesAreSound ==
  \A c \in Call : wrong[c] => moved[c] \/ (tool[c] = "count" /\ sheet[c] = "shifted")

(* CountIsTold: a count that is told to be refused was not recorded. The    *)
(* head of ghi-ton-kho.ts knows no other answer to a failure than a refusal *)
(* or not knowing; an answer nobody can read has status 200, and is told as *)
(* a refusal.                                                              *)
CountIsTold == \A c \in Call : tool[c] = "count" /\ word[c] = "denied" => writes[c] = 0
=============================================================================
