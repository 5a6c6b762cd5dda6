------------------------------- MODULE Routing -------------------------------
(***************************************************************************)
(* Who answers a message, and with which tools: the channels and rooms of  *)
(* the configuration (src/config.ts), the adapter that parses the webhook  *)
(* (message-ingest/adapters), the router and the dedicated rooms           *)
(* (src/agents), the gate of a dedicated room (worker/intake.ts) and the    *)
(* tools an agent declares (src/tools/index.ts).                           *)
(*                                                                         *)
(* One message. A process takes it in, another one may answer it, and in   *)
(* between either may be started again with another configuration.         *)
(***************************************************************************)
EXTENDS Platform

CONSTANTS
  Env   \* configurations a process may be started with

\* The channels by their platform; a chat is with one person, in a group, or in
\* the group that the configuration may name.
ZaloChannel == {"zalo", "van-hanh", "zalo-sep", "zalo-canhan", "zalo-kho"}
Channel     == ZaloChannel \cup {"zalo-oa", "meta"}
Chat        == {"direct", "group", "named"}

\* A configuration: the channels it has credentials of, those it can send to,
\* those with a dedicated room, the keys it has, and what the MCP server `kho`
\* lists: nothing, a tool, or one tool twice.
EnvRecord ==
  [channels : SUBSET Channel, egress : SUBSET Channel, rooms : SUBSET {"zalo", "zalo-kho"},
   keys : SUBSET {"gemini", "hosts", "anydoc", "jev"}, kho : 0..2]

ASSUME RoutingAssumption == Env # {} /\ Env \subseteq EnvRecord /\ "none" \notin Host

-----------------------------------------------------------------------------
(* agents/types.ts and router.ts.                                          *)

\* resolveAgentType, the table of the channels.
ChannelAgent(c) ==
  CASE c = "zalo" -> "dealer"          [] c = "van-hanh" -> "operations"
    [] c = "zalo-sep" -> "boss"        [] c = "zalo-canhan" -> "personal"
    [] c = "zalo-kho" -> "warehouse"   [] c = "zalo-oa" -> "customer"
    [] c = "meta" -> "sale-facebook"

\* xacNhanRoom and kiemKhoRoom.
RoomAgent(c) == CASE c = "zalo" -> "xac-nhan-don" [] c = "zalo-kho" -> "kiem-kho"

\* dedicatedRoomOf: a group, of this channel, that the configuration names.
Dedicated(e, c, chat) == chat = "named" /\ c \in e.rooms

\* Mutant of AgentOf: the router is asked without the room.
AgentOfChannel(e, c, chat) == ChannelAgent(c)

AgentOf(e, c, chat) == IF Dedicated(e, c, chat) THEN RoomAgent(c) ELSE ChannelAgent(c)

\* proactiveSpecFor: the only agent with a funnel is the dealers'.
HasFunnel(e, c, chat) == AgentOf(e, c, chat) = "dealer"

-----------------------------------------------------------------------------
(* tools/index.ts.                                                         *)
CommonTools          == {"whoami", "use_skill", "use_reference"}
CustomerLeadTools    == {"ghi_nhan_khach"}
RetailPricingTools   == {"tra_gia_le"}
XacNhanTools         == {"ghi_dang_ky"}
InventoryCountTools  == {"ghi_ton_kho"}
OrderTools           == {"tra_don_hang", "tra_tien_can_chuyen", "video_don_hang", "kiem_tra_gia_cod"}
PaymentBatchTools    == {"tao_phieu_thanh_toan"}
DealerTools          == {"tra_ho_so_dai_ly", "lay_qr_nap_vi", "tra_lich_su_vi"}
DealerTierTools      == {"tra_bac_chiet_khau", "nang_bac_chiet_khau"}
DailyTools           == {"bao_cao_ngay", "chi_tiet_so_ngay"}
InternalDailyTools   == {"don_xuat_kho", "don_da_hoa_don", "don_chua_hoa_don"}
InternalValidateTools == {"duyet_don_qua_kho"}
DealerValidateTools  == {"duyet_don_da_thanh_toan"}
PoscakeTools         == {"nap_poscake"}
VisionTools          == {"xem_anh"}
DocTools             == {"doc_file"}
WorkflowAskTools     == {"mo_viec_cho"}
WorkflowReplyTools   == {"tra_loi_viec"}
WorkflowListTools    == {"viec_dang_cho"}
WarehouseAnnounceTools == {"het_hang: draft", "het_hang: send", "het_hang: status"}
OpsAnnounceTools     == {"van_hanh: draft", "van_hanh: send", "van_hanh: status"}

\* roots/dealer.ts
DealerAgentTools ==
  OrderTools \cup PaymentBatchTools \cup DealerValidateTools \cup DealerTools \cup DealerTierTools
    \cup DailyTools \cup PoscakeTools \cup VisionTools \cup DocTools
    \cup WorkflowReplyTools \cup WorkflowListTools

\* roots/warehouse.ts
WarehouseAgentTools ==
  WorkflowAskTools \cup WorkflowListTools \cup VisionTools \cup DocTools \cup WarehouseAnnounceTools

\* roots/operations.ts
OperationsAgentTools == InternalDailyTools \cup InternalValidateTools \cup OpsAnnounceTools

\* roots/customer.ts and sale-facebook.ts
CustomerAgentTools == CustomerLeadTools \cup VisionTools \cup DocTools
SaleFacebookAgentTools == VisionTools \cup DocTools

\* What each profile declares beside COMMON_TOOLS; nothing for the boss, for one's
\* personal assistant, and for the default.
OwnTools(agent) ==
  CASE agent = "dealer" -> DealerAgentTools         [] agent = "warehouse" -> WarehouseAgentTools
    [] agent = "operations" -> OperationsAgentTools [] agent = "customer" -> CustomerAgentTools
    [] agent = "sale-facebook" -> SaleFacebookAgentTools
    [] agent = "xac-nhan-don" -> XacNhanTools       [] agent = "kiem-kho" -> InventoryCountTools
    [] OTHER -> {}

\* mcpServers of a profile: of the dealers' only.
RemoteTools(e, agent) == IF agent = "dealer" /\ e.kho > 0 THEN {"mcp__kho"} ELSE {}

\* ToolRegistry throws on a name that comes twice, in every turn.
Doubled(e, agent) == agent = "dealer" /\ e.kho = 2

\* bootstrap: which ports there are. The tools that read a photo or a file are
\* declared all the same, and say that they are not ready.
Ready(e, t) ==
  CASE t \in VisionTools \cup InventoryCountTools -> {"gemini", "hosts"} \subseteq e.keys
    [] t \in DocTools -> {"anydoc", "hosts"} \subseteq e.keys
    [] OTHER -> TRUE

ToolsOf(e, agent) == {t \in CommonTools \cup OwnTools(agent) \cup RemoteTools(e, agent) : Ready(e, t)}

-----------------------------------------------------------------------------
VARIABLES
  env,       \* [Host -> Env]: what each process was started with
  mail,      \* the message as it was written
  place,     \* sent, waiting (for an answer of somebody), queued, running, over
  envelope,  \* what the ingress queue carries of it
  runner,    \* the process in whose turn it is, or "none"
  taken,     \* history variable: the configuration it was taken in under
  by,        \* history variable: the one it was answered under
  outcome    \* what became of it

journey     == <<place, envelope, runner, taken, by, outcome>>
routingVars == <<env, mail, journey>>

\* A text that fits a template of the room, any other one, a command, the words that
\* the bridge may write where there is only a photo or a file, or none; by the
\* agent's own account or by somebody; with a mention of the agent, of somebody
\* else, or none.
Mail ==
  {m \in [channel : Channel, chat : Chat, text : {"template", "talk", "command", "attached", "none"},
          mention : {"agent", "other", "nobody"}, own : BOOLEAN] :
     /\ m.chat # "direct" => m.channel \in ZaloChannel
     /\ m.chat = "named" => m.channel \in {"zalo", "zalo-kho"}}

Envelope == [gate : BOOLEAN, source : {"channel", "proactive"}]
Nothing  == [word |-> "nothing", agent |-> "none", tools |-> {}, sent |-> FALSE]
Word     == {"nothing", "unknown", "dropped", "history", "command", "ignored", "failed", "reply"}

(* RoutingTypeOK: the type invariant; a message is over when something has  *)
(* become of it, and only a reply has an agent.                            *)
RoutingTypeOK ==
  /\ env \in [Host -> Env] /\ taken \in Env /\ by \in Env
  /\ mail \in Mail /\ envelope \in Envelope
  /\ place \in {"sent", "waiting", "queued", "running", "over"}
  /\ runner \in Host \cup {"none"}
  /\ place = "running" => runner # "none"
  /\ outcome.word \in Word /\ place = "over" <=> outcome.word # "nothing"
  /\ outcome.agent # "none" <=> outcome.word = "reply"

RoutingStart ==
  /\ place = "sent" /\ envelope = [gate |-> FALSE, source |-> "channel"]
  /\ runner = "none" /\ taken \in {env[h] : h \in Host} /\ by = taken
  /\ outcome = Nothing

RoutingInit == env \in [Host -> Env] /\ mail \in Mail /\ RoutingStart

\* The state of the component where a model runs another one.
RoutingIdle ==
  /\ env = [h \in Host |-> CHOOSE e \in Env : TRUE]
  /\ mail = (CHOOSE m \in Mail : TRUE) /\ RoutingStart

Over(what) == place' = "over" /\ outcome' = what

Ends(word) == Over([Nothing EXCEPT !.word = word])

-----------------------------------------------------------------------------
(* The webhook: message-ingest.                                            *)

\* buildChannelFactory: the channels with credentials; the adapter of Messenger is
\* not registered.
Registered(e) == e.channels \ {"meta"}

\* ZaloIngestor: whatever is not sent to the account is in a group, its own
\* messages in a chat with one person among them.
IsGroup == mail.channel \in ZaloChannel /\ (mail.chat # "direct" \/ mail.own)

\* isAddressed.
Addressed == ~IsGroup \/ mail.text = "command" \/ mail.mention = "agent"

\* intentGate: a text in a dedicated room that does not address the agent, and
\* that is not its own.
Gated(e) ==
  ~Addressed /\ mail.text # "none" /\ ~mail.own /\ Dedicated(e, mail.channel, mail.chat)

\* passesProactiveGate: no mention of anybody, a text, not the agent's own.
PassesGate(e) ==
  /\ IsGroup /\ HasFunnel(e, mail.channel, mail.chat)
  /\ ~mail.own /\ mail.mention = "nobody" /\ mail.text \notin {"attached", "none"}

\* MESSAGE_EVENTS of the official account: what people write to it.
Dropped == mail.channel = "zalo-oa" /\ mail.own

TakeIn(h) ==
  LET e == env[h] IN
  /\ place = "sent" /\ taken' = e
  /\ \/ mail.channel \notin Registered(e) /\ Ends("unknown") /\ UNCHANGED envelope
     \/ mail.channel \in Registered(e) /\ Dropped /\ Ends("dropped") /\ UNCHANGED envelope
     \/ /\ mail.channel \in Registered(e) /\ ~Dropped
        /\ IF Addressed \/ Gated(e)
           THEN /\ place' = "queued" /\ envelope' = [gate |-> Gated(e), source |-> "channel"]
                /\ UNCHANGED outcome
           ELSE \/ PassesGate(e) /\ place' = "waiting" /\ UNCHANGED <<envelope, outcome>>
                \/ Ends("history") /\ UNCHANGED envelope   \* or verify says no
  /\ UNCHANGED <<env, mail, runner, by, faults>>

\* proactive/poller.ts pickUp: without the judge no question is picked.
Picked(h) ==
  /\ place = "waiting"
  /\ \/ /\ HasFunnel(env[h], mail.channel, mail.chat) /\ "jev" \in env[h].keys
        /\ place' = "queued" /\ envelope' = [gate |-> FALSE, source |-> "proactive"]
        /\ UNCHANGED outcome
     \/ Ends("ignored") /\ UNCHANGED envelope
  /\ UNCHANGED <<env, mail, runner, taken, by, faults>>

-----------------------------------------------------------------------------
(* The turn: worker/handler.ts.                                            *)

Start(h) ==
  /\ place = "queued" /\ place' = "running" /\ runner' = h
  /\ UNCHANGED <<env, mail, envelope, taken, by, outcome, faults>>

\* checkIntake: the text fits a template of the room, or there is a judge, who may
\* say that it belongs to the room.
CheckIntake(e) == mail.text = "template" \/ "jev" \in e.keys

\* A gated message is run if its room still is one and checkIntake says so.
LetIn(e) == envelope.gate => Dedicated(e, mail.channel, mail.chat) /\ CheckIntake(e)

\* BroadcastRouter: a channel without an adapter prints to the console.
Sends(e) == mail.channel \in e.egress \cap e.channels

\* handleEnvelope. A turn may also end without the agent (a room that is blocked,
\* out of its budget, a verdict below the mark, a proactive turn that declines).
Answer(h) ==
  LET e == env[h]  agent == AgentOf(e, mail.channel, mail.chat) IN
  /\ place = "running" /\ runner = h /\ by' = e
  /\ \/ mail.text = "command" /\ Ends("command")
     \/ mail.text # "command" /\ Ends("ignored")
     \/ mail.text # "command" /\ (Doubled(e, agent) \/ envelope.gate) /\ Ends("failed")
     \/ /\ mail.text # "command" /\ LetIn(e) /\ ~Doubled(e, agent)
        /\ Over([word |-> "reply", agent |-> agent, tools |-> ToolsOf(e, agent), sent |-> Sends(e)])
  /\ UNCHANGED <<env, mail, envelope, runner, taken, faults>>

\* The process is started again, with another configuration; its turn is handed
\* out again.
Redeploy(h) ==
  /\ Fault /\ place # "over"
  /\ \E e \in Env \ {env[h]} : env' = [env EXCEPT ![h] = e]
  /\ IF place = "running" /\ runner = h
     THEN place' = "queued" /\ runner' = "none"
     ELSE UNCHANGED <<place, runner>>
  /\ UNCHANGED <<mail, envelope, taken, by, outcome>>

RoutingNext == \E h \in Host : TakeIn(h) \/ Picked(h) \/ Start(h) \/ Answer(h) \/ Redeploy(h)

RoutingSpec == RoutingInit /\ NoFault /\ [][RoutingNext]_<<routingVars, faults>>

-----------------------------------------------------------------------------
(* Properties                                                              *)

\* Who writes to these has not been told apart from anybody else.
Public == {"zalo-oa", "meta"}

(* ServedByItsRoom: whatever the processes were started with in between,    *)
(*  - a message that only its dedicated room lets in is answered by the     *)
(*    agent of that room or not at all, and without a judge only when it    *)
(*    fits a template (dedicated-rooms.ts:15-17, intake.ts:87-91);          *)
(*  - the register and the stock count are written from their room only,    *)
(*    the company's books are open to the operations channel only, and an   *)
(*    agent of the public holds no tool that reads or writes the books of a *)
(*    dealer (agents/roots/customer.ts:4-7, sale-facebook.ts:3-6).          *)
(*  - a group that is dedicated where the turn runs is never answered by    *)
(*    the agent of its channel.                                             *)
(* And while the two processes agree on their configuration, the agent that *)
(* answers unasked is one that has a funnel, and the reply goes to the      *)
(* channel when there is a way to send it.                                  *)
ServedByItsRoom ==
  outcome.word = "reply" =>
    LET same == taken = by
        room == Dedicated(by, mail.channel, mail.chat)
    IN  /\ envelope.gate => /\ room /\ outcome.agent = RoomAgent(mail.channel)
                            /\ ~mail.own /\ mail.text # "none"
        /\ outcome.tools \cap (XacNhanTools \cup InventoryCountTools) # {} => mail.chat = "named"
        /\ outcome.tools \cap (InternalDailyTools \cup InternalValidateTools) # {}
             => mail.channel = "van-hanh"
        /\ mail.channel \in Public
             => outcome.tools \subseteq CommonTools \cup CustomerLeadTools \cup VisionTools \cup DocTools
        /\ room => /\ outcome.agent # ChannelAgent(mail.channel)
                    /\ outcome.tools \cap DealerAgentTools = {}
        /\ same /\ envelope.source = "proactive" => outcome.agent = "dealer"
        /\ envelope.gate /\ mail.text # "template" => "jev" \in by.keys
        /\ same /\ mail.channel \in by.egress => outcome.sent
=============================================================================
