------------------------------ MODULE Context ------------------------------
(***************************************************************************)
(* What the model is shown in a turn (src/context, and the steps of         *)
(* worker/handler.ts that gather it): a window of what was said in the      *)
(* room, the requests the room still has to answer, who its speakers are,  *)
(* and facts that earlier turns have learned for the same owner. None of    *)
(* it is read in one transaction: while a turn gathers its context people   *)
(* write on, staff connect the room to a customer or to another one, and    *)
(* requests are opened and closed.                                         *)
(*                                                                         *)
(* One room and one process. The summary that is shown too is that of       *)
(* RoomMemory. What a text says is left out.                               *)
(***************************************************************************)
EXTENDS Platform, SequencesExt

CONSTANTS
  Landlord,    \* customers a room may be connected to
  Talker,      \* people who write in the room
  Ticket,      \* requests of the workflows that the room is to answer
  Answerable,  \* those of them with a subject and a definition in the catalog
  ShownTurns,  \* HISTORY_WINDOW_TURNS
  MaxTalk,     \* bound on entries
  MaxTurns,    \* bound on turns
  MaxBinds     \* bound on connections of the room

ASSUME ContextAssumption ==
  /\ Answerable \subseteq Ticket /\ ShownTurns \in Nat \ {0}
  /\ MaxTalk \in Nat /\ MaxTurns \in Nat /\ MaxBinds \in Nat
  /\ {"room", "none", "agent"} \cap (Landlord \cup Talker) = {} /\ Landlord \cap Talker = {}

\* Who owns what is learned: a customer, a person, the room itself, or nobody.
Owner == Landlord \cup Talker \cup {"room", "none"}

VARIABLES
  sort,      \* the chat: a "group"; a "direct" one; a "personal" one, of an agent
             \* that only serves such chats; or a group where that one has "strayed"
  talk,      \* Seq(Talker or "agent"): who has written what is in the history
  holder,    \* group_map: the customer of the room, or "none"
  ticket,    \* [Ticket -> {"none", "open", "closed"}]
  facts,     \* agent_memory: sets of facts of one turn, with their owner
  station,   \* where the turn is
  question,  \* the entry it is to answer, 0 in a turn that only distills
  window,    \* Seq of entries: the history it has read
  scope,     \* the owner it has found
  notices,   \* SUBSET Ticket: the requests it has read
  known,     \* SUBSET Talker: the speakers whose role it knows
  recalled,  \* the facts it has been given
  turns,     \* turns so far
  binds,     \* connections so far
  held,      \* history variable: who had the room while the turn ran
  open,      \* history variable: requests that were open while it ran
  stayed     \* history variable: requests that were open all the while

outside     == <<sort, talk, holder, ticket, binds>>
gathered    == <<question, window, scope, notices, known, recalled>>
watched     == <<held, open, stayed>>
contextVars == <<outside, facts, station, gathered, turns, watched>>

Entries == 1..Len(talk)

Grouped == sort \in {"group", "strayed"}

Opened == {t \in Ticket : ticket[t] = "open"}

\* The owners a turn under way may have found the room to have.
HeldBy(who) == IF station = "idle" THEN {} ELSE held \cup who

(* ContextTypeOK: the type invariant; a turn is shown entries in their      *)
(* order, the last one it has seen included.                               *)
ContextTypeOK ==
  /\ sort \in {"group", "direct", "personal", "strayed"}
  /\ talk \in Seq(Talker \cup {"agent"}) /\ Len(talk) <= MaxTalk
  /\ holder \in Landlord \cup {"none"} /\ (~Grouped => holder = "none")
  /\ ticket \in [Ticket -> {"none", "open", "closed"}]
  /\ facts \subseteq [owner : Owner \ {"none"}, here : BOOLEAN, held : SUBSET (Landlord \cup {"none"})]
  /\ station \in {"idle", "history", "owner", "pending", "speakers", "recall", "agent", "learn"}
  /\ question \in 0..Len(talk) /\ (question # 0 => talk[question] \in Talker)
  /\ \A i \in DOMAIN window : window[i] \in Entries /\ window[i] = window[1] + i - 1
  /\ station \in {"pending", "speakers", "recall", "agent"} => window # <<>>
  /\ scope \in Owner /\ notices \subseteq Answerable /\ known \subseteq Talker
  /\ recalled \subseteq facts
  /\ turns \in 0..MaxTurns /\ binds \in 0..MaxBinds
  /\ stayed \subseteq open /\ open \subseteq Ticket
  /\ station = "idle" <=> held = {}

\* Other rooms of the same owners have facts of their own.
Elsewhere == {[owner |-> w, here |-> FALSE, held |-> {w} \cap Landlord] : w \in Landlord \cup Talker}

ContextInit ==
  /\ sort \in {"group", "direct", "personal", "strayed"}
  /\ talk = <<>> /\ holder = "none" /\ ticket = [t \in Ticket |-> "none"] /\ binds = 0
  /\ facts = Elsewhere
  /\ station = "idle" /\ question = 0 /\ window = <<>> /\ scope = "none"
  /\ notices = {} /\ known = {} /\ recalled = {}
  /\ turns = 0 /\ held = {} /\ open = {} /\ stayed = {}

-----------------------------------------------------------------------------
(* What others do beside the turn.                                         *)

Aside == UNCHANGED <<sort, facts, station, gathered, turns, faults>>

\* The gateway appends a message. In a chat of two it is always the same person's.
Say(p) ==
  /\ Len(talk) < MaxTalk /\ talk' = Append(talk, p)
  /\ Grouped \/ Range(talk) \subseteq {p, "agent"}
  /\ UNCHANGED <<holder, ticket, binds, watched>> /\ Aside

\* /ketnoi-daily.
Connect(c) ==
  /\ Grouped /\ binds < MaxBinds /\ holder # c
  /\ holder' = c /\ binds' = binds + 1 /\ held' = HeldBy({c})
  /\ UNCHANGED <<talk, ticket, open, stayed>> /\ Aside

\* Another room asks this one, ...
OpenTicket(t) ==
  /\ Grouped /\ ticket[t] = "none" /\ ticket' = [ticket EXCEPT ![t] = "open"]
  /\ open' = IF station = "idle" THEN open ELSE open \cup {t}
  /\ UNCHANGED <<talk, holder, binds, held, stayed>> /\ Aside

\* ... and has its answer, or waits no longer.
CloseTicket(t) ==
  /\ ticket[t] = "open" /\ ticket' = [ticket EXCEPT ![t] = "closed"]
  /\ stayed' = stayed \ {t}
  /\ UNCHANGED <<talk, holder, binds, held, open>> /\ Aside

-----------------------------------------------------------------------------
(* The turn.                                                               *)

To(where) == station' = where

\* The turn is over; one that failed may be delivered again.
EndContext ==
  /\ To("idle") /\ question' = 0 /\ window' = <<>> /\ scope' = "none"
  /\ notices' = {} /\ known' = {} /\ recalled' = {}
  /\ held' = {} /\ open' = {} /\ stayed' = {}

Lost == Fault /\ EndContext /\ UNCHANGED <<outside, facts, turns>>

\* A worker takes the envelope of a message, or one that only distills.
StartTurn ==
  /\ station = "idle" /\ turns < MaxTurns /\ turns' = turns + 1
  /\ \/ To("history") /\ question' \in {e \in Entries : talk[e] # "agent"}
     \/ To("owner") /\ talk # <<>> /\ UNCHANGED question
  /\ held' = {holder} /\ open' = Opened /\ stayed' = Opened
  /\ UNCHANGED <<outside, facts, window, scope, notices, known, recalled, faults>>

\* history.recent. An empty history, or none to be had, fails the turn.
ReadWindow ==
  LET n == IF Len(talk) < ShownTurns THEN Len(talk) ELSE ShownTurns IN
  /\ station = "history"
  /\ \/ /\ window' = [i \in 1..n |-> Len(talk) - n + i] /\ To("owner")
        /\ UNCHANGED <<outside, facts, question, scope, notices, known, recalled, turns, watched, faults>>
     \/ Lost

\* Mutant of MemoryScope: where the room has no customer, that of the asker's
\* cached identity is taken for its owner.
MemoryScopeOfAsker(customer) ==
  IF sort = "personal" THEN (IF question = 0 THEN {"none"} ELSE {talk[question]})
  ELSE IF sort # "group" THEN {"none"}
  ELSE IF customer # "none" THEN {customer} ELSE Landlord

\* resolveMemoryScope: an asker in a chat of his own, the customer of a group, or
\* the group itself. A distill envelope of a personal chat bears its sender.
MemoryScope(customer) ==
  CASE sort = "personal" -> IF question = 0 THEN Talker ELSE {talk[question]}
    [] sort = "group" -> {IF customer # "none" THEN customer ELSE "room"}
    [] OTHER -> {"none"}

\* resolveRoomCustomer asks only for a group; a failure fails the turn. A turn
\* without an owner has nothing to distill.
ReadOwner ==
  /\ station = "owner"
  /\ \/ /\ scope' \in MemoryScope(holder)
        /\ \/ question # 0 /\ To("pending")
           \/ question = 0 /\ scope' # "none" /\ To("learn")
        /\ UNCHANGED <<outside, facts, question, window, notices, known, recalled, turns, watched, faults>>
     \/ /\ question = 0 /\ MemoryScope(holder) = {"none"} /\ EndContext
        /\ UNCHANGED <<outside, facts, turns, faults>>
     \/ sort = "group" /\ Lost

\* readPendingNotices, best effort, of a group: the room's open requests that the
\* model can answer by their key.
ReadNotices ==
  /\ station = "pending" /\ To("speakers")
  /\ \/ notices' = Opened \cap Answerable /\ UNCHANGED faults
     \/ Grouped /\ Fault /\ UNCHANGED notices
  /\ UNCHANGED <<outside, facts, question, window, scope, known, recalled, turns, watched>>

\* resolveSpeakers: the asker is known from before, each other writer of the window
\* is resolved, best effort.
ReadSpeakers ==
  LET asker == talk[question]
      others == {talk[window[i]] : i \in DOMAIN window} \ {"agent", asker} IN
  /\ station = "speakers" /\ To("recall")
  /\ \/ known' = {asker} \cup others /\ UNCHANGED faults
     \/ \E p \in others : known' = {asker} \cup (others \ {p}) /\ Fault
  /\ UNCHANGED <<outside, facts, question, window, scope, notices, recalled, turns, watched>>

\* The WHERE of recall: owner, channel and conversation.
Mine == {f \in facts : f.owner = scope /\ f.here}

\* renderMemoryBlock: of the owner's facts in this room those that are near enough
\* to the last entry, the nearest few, and as many as the block holds. None if
\* that entry has no text, or the embedding or the query fails.
Recall ==
  /\ station = "recall" /\ To("agent")
  /\ recalled' \in SUBSET Mine
  /\ UNCHANGED <<outside, facts, question, window, scope, notices, known, turns, watched, faults>>

\* Mutant of EndWithUserTurn: what the agent said last is dropped.
EndAtUserTurn(entries) ==
  LET users == {i \in DOMAIN entries : talk[entries[i]] # "agent"} IN
  IF users = {} THEN entries ELSE SubSeq(entries, 1, Max(users))

\* endWithUserTurn: the agent's last entries move before the user's last one.
EndWithUserTurn(entries) ==
  LET users == {i \in DOMAIN entries : talk[entries[i]] # "agent"} IN
  IF users = {} THEN entries
  ELSE Append(RemoveAt(entries, Max(users)), entries[Max(users)])

\* toMessages.
Messages == EndWithUserTurn(window)

\* The model replies, and the reply is appended, best effort; or the turn ends.
AppendAnswer ==
  /\ station = "agent"
  /\ \/ /\ To("learn")
        /\ \/ Len(talk) < MaxTalk /\ talk' = Append(talk, "agent") /\ UNCHANGED faults
           \/ Fault /\ UNCHANGED talk
        /\ UNCHANGED <<sort, holder, ticket, binds, facts, gathered, turns, watched>>
     \/ EndContext /\ UNCHANGED <<outside, facts, turns, faults>>

\* The writer keeps what it has learned for the owner found at the beginning.
Keep ==
  /\ station = "learn"
  /\ \/ /\ scope # "none"
        /\ facts' = facts \cup {[owner |-> scope, here |-> TRUE, held |-> held]}
     \/ UNCHANGED facts
  /\ EndContext /\ UNCHANGED <<outside, turns, faults>>

\* The process dies in its turn, or a step of it fails.
DieInContext == station # "idle" /\ Lost

-----------------------------------------------------------------------------
Beside ==
  \/ \E p \in Talker : Say(p)
  \/ \E c \in Landlord : Connect(c)
  \/ \E t \in Ticket : OpenTicket(t) \/ CloseTicket(t)

Gather == StartTurn \/ ReadWindow \/ ReadOwner \/ ReadNotices \/ ReadSpeakers \/ Recall

ContextNext == Beside \/ Gather \/ AppendAnswer \/ Keep \/ DieInContext

ContextSpec == ContextInit /\ NoFault /\ [][ContextNext]_<<contextVars, faults>>

-----------------------------------------------------------------------------
(* Properties                                                              *)

IsUser(e) == talk[e] # "agent"

(* WindowIsShown: the model sees every entry of the window once, people and *)
(* agent each in their order, and a person's message last if there is one   *)
(* (assembler.ts:169-178); the one it is to answer is among them unless a   *)
(* whole window was written after it (handler.ts:192).                     *)
WindowIsShown ==
  station = "agent" =>
    /\ Len(Messages) = Len(window) /\ Range(Messages) = Range(window)
    /\ \A i, j \in DOMAIN Messages :
         i < j /\ (IsUser(Messages[i]) <=> IsUser(Messages[j])) => Messages[i] < Messages[j]
    /\ (\E i \in DOMAIN window : IsUser(window[i])) => IsUser(Last(Messages))
    /\ question \in Range(Messages) \/ Last(window) - question >= ShownTurns

(* FactsAreTheOwners: a fact that the model is shown was learned in this    *)
(* room, by the same person, or in a turn that ran while the room was      *)
(* connected as it was at some time of this one: connecting the room to    *)
(* another customer at any point of a turn shows nobody the facts of the   *)
(* one before (handler.ts:662-680).                                        *)
FactsAreTheOwners ==
  station = "agent" =>
    \A f \in recalled :
      /\ f.here
      /\ IF sort = "personal" THEN f.owner = talk[question] ELSE f.held \cap held # {}

(* RequestsAreShown: a request with a key that was open all the while is    *)
(* shown, unless a read failed, and one that is shown was open at some time *)
(* of the turn; nothing else of the speakers is unknown then, either       *)
(* (pending-block.ts:3-6).                                                 *)
RequestsAreShown ==
  station = "agent" =>
    /\ notices \subseteq open
    /\ faults = 0 =>
         /\ stayed \cap Answerable \subseteq notices
         /\ \A i \in DOMAIN window : IsUser(window[i]) => talk[window[i]] \in known

(* PromptFits: what the model is shown is the room's.                       *)
PromptFits == WindowIsShown /\ FactsAreTheOwners /\ RequestsAreShown
=============================================================================
