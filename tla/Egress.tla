-------------------------------- MODULE Egress --------------------------------
(***************************************************************************)
(* How a reply leaves the process (src/broadcast): the links of QR codes   *)
(* are taken out of it (qr.ts), the rest is split into messages (split.ts), *)
(* and each is sent by the client of its channel, with an access token of  *)
(* the backend for the official account (zalo-oa.ts, zalo-oa-token.ts).    *)
(*                                                                         *)
(* Several turns of one process send at the same time and share the token. *)
(* The backend may replace the token whenever it likes, which kills the    *)
(* old one.                                                                *)
(***************************************************************************)
EXTENDS Platform, Sequences, SequencesExt

CONSTANTS
  Sender,        \* turns that send
  Reply,         \* replies of the model: sequences of lines
  MaxMessages,   \* MAX_CHUNKS of split.ts
  ChannelLimit,  \* limitForChannel, in lines
  MaxToken       \* bound on the tokens the backend issues

Code == {"qr1", "qr2"}   \* lines that are the link of a QR code

ASSUME EgressAssumption ==
  /\ Reply \subseteq Seq({"words", "marker"} \cup Code)
  /\ MaxMessages \in Nat \ {0} /\ ChannelLimit \in Nat \ {0} /\ MaxToken \in Nat \ {0}

Medium  == {"official", "bridge", "messenger"}
NoToken == 0
NoFetch == [state |-> "none", token |-> NoToken]

VARIABLES
  reply,     \* [Sender -> Reply]: what the model said
  medium,    \* [Sender -> Medium]: the client of its channel
  live,      \* the token that the platform accepts
  kept,      \* #cache of the token source, or NoToken; what expired is not kept
  fetch,     \* [1..2 -> a call of the backend for a token]
  inflight,  \* #inflight: which of them is shared, or 0
  todo,      \* [Sender -> Seq]: the parts left to send, the first one under way
  asLink,    \* [Sender -> BOOLEAN]: the picture is being sent as a link
  phase,     \* [Sender -> where its turn stands]
  forced,    \* [Sender -> BOOLEAN]: the second try of a message
  token,     \* [Sender -> the token it sends with]
  awaits,    \* [Sender -> the call it waits for, or 0]
  fresh,     \* history variable: its token came of a call it waited for
  stale,     \* history variable: senders that tried a second time with an old one
  chat,      \* history variable: [Sender -> what the person received]
  skipped,   \* history variable: [Sender -> the lines given up]
  echo       \* history variable: senders of which a message arrived that was not
             \* confirmed

source     == <<kept, fetch, inflight>>
attempt    == <<forced, token, awaits, fresh, stale>>
outbox     == <<todo, asLink, phase>>
received   == <<chat, skipped, echo>>
egressVars == <<reply, medium, live, source, attempt, outbox, received>>

-----------------------------------------------------------------------------
(* qr.ts and split.ts. A message carries lines of the reply, by number.    *)

\* extractQrMedia: every link is cut out, the same one is one picture. What is
\* collected of the first n lines ...
Collecting(d) ==
  LET urls[n \in 0..Len(d)] ==
        IF n = 0 THEN <<>>
        ELSE IF d[n] \in Code /\ \A j \in 1..(n - 1) : d[j] # d[n] THEN Append(urls[n - 1], n)
        ELSE urls[n - 1]
  IN  urls

\* ... and of all.
Pictured(d) == Collecting(d)[Len(d)]

\* flush: no message is empty.
Flush(acc) ==
  IF acc.current = <<>> THEN acc
  ELSE [chunks |-> Append(acc.chunks, acc.current), current |-> <<>>]

\* A line is a marker, or goes to the current message; a link has been cut out.
SplitLine(d, acc, n) ==
  CASE d[n] = "marker" -> Flush(acc)
    [] d[n] = "words"  -> [acc EXCEPT !.current = Append(@, n)]
    [] OTHER           -> acc

\* The messages and the current one after each line.
Splitting(d) ==
  LET after[n \in 0..Len(d)] ==
        IF n = 0 THEN [chunks |-> <<>>, current |-> <<>>] ELSE SplitLine(d, after[n - 1], n)
  IN  after

\* The lines between two markers, none of them empty.
Spans(d) == Flush(Splitting(d)[Len(d)]).chunks

\* splitReply: what is too much is put into the last message.
SplitReply(d) ==
  LET p == Spans(d) IN
  IF Len(p) <= MaxMessages THEN p
  ELSE Append(SubSeq(p, 1, MaxMessages - 1), FlattenSeq(SubSeq(p, MaxMessages, Len(p))))

\* capForChannel: the message that is cut says so.
Cap(m) ==
  IF Len(m.lines) <= ChannelLimit THEN m
  ELSE [m EXCEPT !.lines = SubSeq(@, 1, ChannelLimit), !.cut = TRUE]

\* What handleEnvelope sends of a reply: the messages, then the pictures.
TextPart(m)    == Cap([kind |-> "text", lines |-> m, cut |-> FALSE])
PicturePart(i) == [kind |-> "image", lines |-> <<i>>, cut |-> FALSE]

Parts(d) ==
  LET messages == SplitReply(d)
      pictures == Pictured(d)
  IN  [i \in DOMAIN messages |-> TextPart(messages[i])] \o [i \in DOMAIN pictures |-> PicturePart(pictures[i])]

-----------------------------------------------------------------------------
Phase == {"begin", "get", "await", "try", "replied", "failed"}

(* EgressTypeOK: the type invariant; only who waits for a call is waiting.  *)
EgressTypeOK ==
  /\ reply \in [Sender -> Reply] /\ medium \in [Sender -> Medium]
  /\ live \in 1..MaxToken /\ kept \in 0..live
  /\ \A i \in 1..2 : fetch[i].state \in {"none", "asked", "answered"} /\ fetch[i].token \in 0..live
  /\ inflight \in 0..2
  /\ phase \in [Sender -> Phase] /\ forced \in [Sender -> BOOLEAN] /\ asLink \in [Sender -> BOOLEAN]
  /\ token \in [Sender -> 0..live] /\ awaits \in [Sender -> 0..2] /\ fresh \in [Sender -> BOOLEAN]
  /\ stale \subseteq Sender /\ echo \subseteq Sender
  /\ \A s \in Sender : awaits[s] # 0 <=> phase[s] = "await"

EgressInit ==
  /\ reply \in [Sender -> Reply] /\ medium \in [Sender -> Medium]
  /\ live = 1 /\ kept \in {NoToken, 1} /\ fetch = [i \in 1..2 |-> NoFetch] /\ inflight = 0
  /\ todo = [s \in Sender |-> Parts(reply[s])]
  /\ asLink = [s \in Sender |-> FALSE] /\ phase = [s \in Sender |-> "begin"]
  /\ forced = [s \in Sender |-> FALSE] /\ token = [s \in Sender |-> NoToken]
  /\ awaits = [s \in Sender |-> 0] /\ fresh = [s \in Sender |-> FALSE] /\ stale = {}
  /\ chat = [s \in Sender |-> <<>>] /\ skipped = [s \in Sender |-> {}] /\ echo = {}

Goto(s, where) == phase' = [phase EXCEPT ![s] = where]

\* A message is begun: the official account needs a token for it.
Prepare(s) == Goto(s, IF medium[s] = "official" THEN "get" ELSE "try")

NextPart(s) ==
  /\ phase[s] = "begin"
  /\ IF todo[s] = <<>> THEN Goto(s, "replied") ELSE Prepare(s)
  /\ forced' = [forced EXCEPT ![s] = FALSE]
  /\ UNCHANGED <<reply, medium, live, source, token, awaits, fresh, stale, todo, asLink, received, faults>>

-----------------------------------------------------------------------------
(* ZaloOaTokenSource.                                                      *)

\* Mutant of AtHand: the second try is made with the token at hand.
AtHandAlways(s) == kept # NoToken

AtHand(s) == ~forced[s] /\ kept # NoToken

\* get(force): without an await up to the call, which callers share.
Get(s) ==
  /\ phase[s] = "get"
  /\ IF AtHand(s)
     THEN /\ token' = [token EXCEPT ![s] = kept] /\ fresh' = [fresh EXCEPT ![s] = FALSE]
          /\ Goto(s, "try")
          /\ UNCHANGED <<source, awaits>>
     ELSE /\ kept' = IF forced[s] THEN NoToken ELSE kept
          /\ IF inflight # 0
             THEN awaits' = [awaits EXCEPT ![s] = inflight] /\ UNCHANGED <<fetch, inflight>>
             ELSE \E i \in 1..2 :
                    /\ fetch[i] = NoFetch
                    /\ fetch' = [fetch EXCEPT ![i].state = "asked"]
                    /\ inflight' = i /\ awaits' = [awaits EXCEPT ![s] = i]
          /\ Goto(s, "await")
          /\ UNCHANGED <<token, fresh>>
  /\ UNCHANGED <<reply, medium, live, forced, stale, todo, asLink, received, faults>>

\* The backend answers with the token that is alive, after it has replaced it or
\* not; or replaces it at a time of its own.
Issue(i) ==
  /\ fetch[i].state = "asked"
  /\ fetch' = [fetch EXCEPT ![i] = [state |-> "answered", token |-> live]]
  /\ UNCHANGED <<reply, medium, live, kept, inflight, attempt, outbox, received, faults>>

Replace ==
  /\ live < MaxToken /\ live' = live + 1
  /\ UNCHANGED <<reply, medium, source, attempt, outbox, received, faults>>

Expire ==
  /\ kept # NoToken /\ kept' = NoToken
  /\ UNCHANGED <<reply, medium, live, fetch, inflight, attempt, outbox, received, faults>>

\* #fetchToken resolves: it is cached, the call is over, and its callers go on.
Arrive(i) ==
  /\ fetch[i].state = "answered"
  /\ kept' = fetch[i].token /\ fetch' = [fetch EXCEPT ![i] = NoFetch] /\ inflight' = 0
  /\ token' = [s \in Sender |-> IF awaits[s] = i THEN fetch[i].token ELSE token[s]]
  /\ fresh' = [s \in Sender |-> awaits[s] = i \/ fresh[s]]
  /\ phase' = [s \in Sender |-> IF awaits[s] = i THEN "try" ELSE phase[s]]
  /\ awaits' = [s \in Sender |-> IF awaits[s] = i THEN 0 ELSE awaits[s]]
  /\ UNCHANGED <<reply, medium, live, forced, stale, todo, asLink, received, faults>>

-----------------------------------------------------------------------------
(* The clients of the channels, and sendReplyChunks.                       *)

Message(s) == [Head(todo[s]) EXCEPT !.kind = IF asLink[s] THEN "link" ELSE @]

\* The first message of the reply is the one under way.
IsFirst(s) == Len(todo[s]) = Len(Parts(reply[s]))

Advance(s) == todo' = [todo EXCEPT ![s] = Tail(@)] /\ asLink' = [asLink EXCEPT ![s] = FALSE]

\* What comes of a post that throws, for each of its callers S: a picture is sent
\* once more as a link, but not by the bridge; a later message is given up; the
\* first one, and the link, fail the turn.
Throw(S) ==
  LET Linked(s) == Head(todo[s]).kind = "image" /\ ~asLink[s] /\ medium[s] # "bridge"
      Given(s)  == Head(todo[s]).kind = "text" /\ ~IsFirst(s)
  IN /\ phase' = [s \in Sender |->
                   IF s \notin S THEN phase[s] ELSE IF Linked(s) \/ Given(s) THEN "begin" ELSE "failed"]
     /\ asLink' = [s \in Sender |-> IF s \in S THEN Linked(s) ELSE asLink[s]]
     /\ todo' = [s \in Sender |-> IF s \in S /\ Given(s) THEN Tail(todo[s]) ELSE todo[s]]
     /\ skipped' = [s \in Sender |->
                      IF s \in S /\ Given(s) THEN skipped[s] \cup Range(Head(todo[s]).lines) ELSE skipped[s]]

\* The call of the backend fails, or its answer holds no token.
FetchFails(i) ==
  /\ fetch[i].state \in {"asked", "answered"} /\ Fault
  /\ fetch' = [fetch EXCEPT ![i] = NoFetch] /\ inflight' = 0
  /\ Throw({s \in Sender : awaits[s] = i})
  /\ awaits' = [s \in Sender |-> IF awaits[s] = i THEN 0 ELSE awaits[s]]
  /\ UNCHANGED <<reply, medium, live, kept, forced, token, fresh, stale, chat, echo>>

Accepted(s) == medium[s] = "official" => token[s] = live

\* sendOnce says that the token was rejected: a new one, once.
Rejected(s) ==
  /\ phase[s] = "try" /\ ~Accepted(s)
  /\ IF forced[s]
     THEN /\ Throw({s}) /\ stale' = IF fresh[s] THEN stale ELSE stale \cup {s}
          /\ UNCHANGED forced
     ELSE /\ forced' = [forced EXCEPT ![s] = TRUE] /\ Goto(s, "get")
          /\ UNCHANGED <<stale, todo, asLink, skipped>>
  /\ UNCHANGED <<reply, medium, live, source, token, awaits, fresh, chat, echo, faults>>

Reach(s) == chat' = [chat EXCEPT ![s] = Append(@, Message(s))]

Sent(s) ==
  /\ phase[s] = "try" /\ Accepted(s)
  /\ Reach(s) /\ Advance(s) /\ Goto(s, "begin")
  /\ UNCHANGED <<reply, medium, live, source, attempt, skipped, echo, faults>>

\* The platform takes no picture of this form; or the call fails, and the message
\* has arrived or not.
Refused(s) ==
  /\ phase[s] = "try" /\ Accepted(s)
  /\ \/ Message(s).kind = "image" /\ UNCHANGED <<chat, echo, faults>>
     \/ Fault /\ UNCHANGED <<chat, echo>>
     \/ Fault /\ Reach(s) /\ echo' = echo \cup {s}
  /\ Throw({s})
  /\ UNCHANGED <<reply, medium, live, source, attempt>>

-----------------------------------------------------------------------------
EgressNext ==
  \/ \E s \in Sender : NextPart(s) \/ Get(s) \/ Rejected(s) \/ Sent(s) \/ Refused(s)
  \/ \E i \in 1..2 : Issue(i) \/ Arrive(i) \/ FetchFails(i)
  \/ Replace \/ Expire

EgressSpec == EgressInit /\ NoFault /\ [][EgressNext]_<<egressVars, faults>>

-----------------------------------------------------------------------------
(* Properties                                                              *)

\* The lines that messages of the given kinds brought.
Brought(s, kinds) ==
  UNION {Range(chat[s][m].lines) : m \in {n \in DOMAIN chat[s] : chat[s][n].kind \in kinds}}

Words(s)    == {i \in DOMAIN reply[s] : reply[s][i] = "words"}
Texts(s)    == {i \in DOMAIN chat[s] : chat[s][i].kind = "text"}
Pictures(s) == DOMAIN chat[s] \ Texts(s)

\* A line at the end of a message that was cut.
CutOff(s, i) ==
  \E m \in DOMAIN SplitReply(reply[s]) :
    /\ i \in Range(SplitReply(reply[s])[m])
    /\ Parts(reply[s])[m].cut /\ Last(Parts(reply[s])[m].lines) < i

(* ReplyArrives: of a turn that counts as replied, the person received all  *)
(* the lines in their order, each once, but those of later messages that    *)
(* were given up and the end of a message that says that it was cut, in at  *)
(* most MAX_CHUNKS messages, and then every QR code, as a picture or a      *)
(* link, in their order and not as both unless a message arrived whose      *)
(* sending was not confirmed (split.ts, qr.ts, limits.ts,                   *)
(* handler.ts:253-334). A second try is never made with the token that was  *)
(* rejected or one that was held before, and turns that ask at the same     *)
(* time make one call for a token (zalo-oa.ts:70-84,                        *)
(* zalo-oa-token.ts:50-61).                                                 *)
ReplyArrives ==
  /\ \A s \in Sender : phase[s] = "replied" =>
       LET lines(m) == chat[s][m].lines
           told     == Brought(s, {"text"}) \cup skipped[s]
           codes    == Brought(s, {"image", "link"})
           says(i)  == reply[s][i]
       IN /\ told \subseteq Words(s)
          /\ \A i \in Words(s) \ told : CutOff(s, i)
          /\ s \notin echo => Brought(s, {"text"}) \cap skipped[s] = {}
          /\ \A m, n \in Texts(s) : \A i \in DOMAIN lines(m), j \in DOMAIN lines(n) :
               m < n \/ (m = n /\ i < j) => lines(m)[i] < lines(n)[j]
          /\ Cardinality(Texts(s)) <= MaxMessages
          /\ \A i \in Texts(s), j \in Pictures(s) : i < j
          /\ \A i \in codes : says(i) \in Code
          /\ \A i \in DOMAIN reply[s] : says(i) \in Code => \E j \in codes : j <= i /\ says(j) = says(i)
          /\ \A i, j \in codes : says(i) = says(j) => i = j
          /\ s \notin echo => \A m, n \in Pictures(s) : m < n => Head(lines(m)) < Head(lines(n))
  /\ stale = {}
  /\ \E i \in 1..2 : fetch[i] = NoFetch
=============================================================================
