------------------------------ MODULE Lifecycle ------------------------------
(***************************************************************************)
(* One process from its start to its end (src/index.ts, src/bootstrap):    *)
(* the checks before its port opens, the services it then runs beside one  *)
(* another, and the shutdown, which stops them one after the other and     *)
(* closes what they share. A service works at times of its own: a request, *)
(* a tick of a poller, a turn of a worker.                                 *)
(***************************************************************************)
EXTENDS Platform, Sequences, Functions

CONSTANTS
  Server   \* the MCP servers there are

Poller   == {"scheduler", "workflow", "announce", "digest", "funnel"}
Service  == {"gateway", "workers"} \cup Poller
Resource == {"mcp", "db", "redis"}

\* What a server may turn out to be at the start: it answers and has enabled
\* tools; it is unreachable or does not list them; it has none that can be used;
\* nor can its connection be closed.
Remote == {"alive", "dead", "bare", "stuck"}

\* How a variable of the environment is read, and what it may hold.
Setting == {"required", "ranged", "optional"}
Value   == {"missing", "wrong", "good"}

\* required refuses a missing value; oneOf, portFromEnv, positiveIntEnv and
\* rateEnv a wrong one, and have a default for a missing one; optional, csvEnv and
\* boolEnv take whatever there is.
Usable(how, value) ==
  CASE how = "required" -> value # "missing"
    [] how = "ranged"   -> value # "wrong"
    [] how = "optional" -> TRUE

\* MCP_SERVERS: a list of entries; one of them may be malformed (no name, no URL, no
\* tools), and no two may have one name.
McpEntries == UNION {[1..n -> Server \cup {"malformed"}] : n \in 0..2}

ServersFromEnv(entries) ==
  /\ \A i \in DOMAIN entries : entries[i] \in Server
  /\ \A i, j \in DOMAIN entries : entries[i] = entries[j] => i = j

VARIABLES
  named,      \* SUBSET Server: those of MCP_SERVERS
  phase,      \* off, config, infra, skills, mcp, agents, start, up, stopping, gone
  connected,  \* SUBSET Server: those whose tools the agents get
  running,    \* SUBSET Service: take up new work
  working,    \* SUBSET Service: in the middle of some
  toStop,     \* what stop() still has to do, in order
  open,       \* SUBSET Resource
  passed,     \* history variable: the checks this process has passed
  stranded    \* history variable: services whose work met a closed resource

checks        == <<named, connected, passed>>
services      == <<running, working>>
lifecycleVars == <<phase, checks, services, toStop, open, stranded>>

(* LifecycleTypeOK: the type invariant; nothing runs outside of start() and *)
(* stop(), and only what runs or is being waited for is at work.           *)
LifecycleTypeOK ==
  /\ phase \in {"off", "config", "infra", "skills", "mcp", "agents", "start", "up",
                "stopping", "gone"}
  /\ named \subseteq Server /\ connected \subseteq named
  /\ running \subseteq Service /\ working \subseteq Service
  /\ toStop \in Seq(Service \cup Resource)
  /\ open \subseteq Resource
  /\ passed \subseteq {"config", "infra", "skills", "mcp", "agents"}
  /\ stranded \subseteq Service
  /\ running # {} => phase \in {"up", "stopping"}
  /\ toStop # <<>> => phase = "stopping"

LifecycleInit ==
  /\ phase = "off" /\ named = {} /\ connected = {} /\ running = {} /\ working = {}
  /\ toStop = <<>> /\ open = {} /\ passed = {} /\ stranded = {}

-----------------------------------------------------------------------------
(* bootstrap(): each step throws, and the process ends with it.            *)

Throws == phase' = "gone" /\ open' = {} /\ UNCHANGED passed

Passes(check, next) == phase' = next /\ passed' = passed \cup {check}

\* config.ts, when it is imported.
LoadConfig ==
  /\ phase = "off"
  /\ \E value \in [Setting -> Value], entries \in McpEntries :
       IF (\A how \in Setting : Usable(how, value[how])) /\ ServersFromEnv(entries)
       THEN Passes("config", "infra") /\ named' = Range(entries) /\ UNCHANGED open
       ELSE Throws /\ UNCHANGED named
  /\ UNCHANGED <<connected, services, toStop, stranded>>

\* pingDb and pingRedis, both or none.
CheckInfra ==
  /\ phase = "infra"
  /\ Throws \/ (Passes("infra", "skills") /\ open' = {"db", "redis"})
  /\ UNCHANGED <<named, connected, services, toStop, stranded>>

\* buildSkillRegistry, and the group of the ingress stream.
LoadSkills ==
  /\ phase = "skills"
  /\ Throws \/ (Passes("skills", "mcp") /\ UNCHANGED open)
  /\ UNCHANGED <<named, connected, services, toStop, stranded>>

\* buildMcpRegistry, one server after the other: a dead one and one without
\* tools are left out, but to close the latter is no part of the try.
ConnectServers ==
  /\ phase = "mcp"
  /\ \E remote \in [named -> Remote] :
       IF \E s \in named : remote[s] = "stuck"
       THEN Throws /\ UNCHANGED connected
       ELSE /\ connected' = {s \in named : remote[s] = "alive"}
            /\ Passes("mcp", "agents") /\ open' = open \cup {"mcp"}
  /\ UNCHANGED <<named, services, toStop, stranded>>

\* assertSkillAgentScopes: no skill is for an agent that does not exist.
CheckScopes ==
  /\ phase = "agents"
  /\ Throws \/ (Passes("agents", "start") /\ UNCHANGED open)
  /\ UNCHANGED <<named, connected, services, toStop, stranded>>

\* start(), without an await: the port, the workers, the five pollers.
StartServices ==
  /\ phase = "start"
  /\ running' = Service
  /\ phase' = "up"
  /\ UNCHANGED <<checks, working, toStop, open, stranded>>

-----------------------------------------------------------------------------
(* The services at work.                                                   *)

Work(s) ==
  /\ s \in running \ working
  /\ working' = working \cup {s}
  /\ UNCHANGED <<phase, checks, running, toStop, open, stranded>>

\* A piece of work ends, well or not. All of it needs Redis or Postgres, and a
\* turn may need a tool of an MCP server.
Needs(s) == IF s = "workers" THEN Resource ELSE {"db", "redis"}

Done(s) ==
  /\ s \in working
  /\ working' = working \ {s}
  /\ stranded' = IF Needs(s) \subseteq open THEN stranded ELSE stranded \cup {s}
  /\ UNCHANGED <<phase, checks, running, toStop, open>>

-----------------------------------------------------------------------------
(* SIGINT and SIGTERM, and stop().                                         *)

\* Mutant of StopOrder: the pools are closed before the workers are drained.
StopOrderDbFirst ==
  <<"funnel", "digest", "announce", "workflow", "scheduler", "db", "workers",
    "gateway", "mcp", "redis">>

StopOrder ==
  <<"funnel", "digest", "announce", "workflow", "scheduler", "workers", "gateway",
    "mcp", "db", "redis">>

\* A signal during stop() is ignored; one before start() has returned ends the
\* process, as does a crash at any time.
Signal ==
  /\ phase = "up"
  /\ phase' = "stopping" /\ toStop' = StopOrder
  /\ UNCHANGED <<checks, services, open, stranded>>

\* A poller takes up no new tick, the pool no envelope.
Halt ==
  /\ phase = "stopping" /\ toStop # <<>> /\ Head(toStop) \in running
  /\ running' = running \ {Head(toStop)}
  /\ UNCHANGED <<phase, checks, working, toStop, open, stranded>>

\* stop() of a poller awaits its tick, that of the pool its loops;
\* server.stop(true) closes the connections and does not wait for the handlers.
Halted ==
  /\ phase = "stopping" /\ toStop # <<>> /\ Head(toStop) \in Service \ running
  /\ Head(toStop) = "gateway" \/ Head(toStop) \notin working
  /\ toStop' = Tail(toStop)
  /\ UNCHANGED <<phase, checks, services, open, stranded>>

\* mcp.close(), closeDb(), closeRedis(). McpRegistry.close catches what its
\* connections throw; when closing the pool fails the rest is not done.
Close ==
  /\ phase = "stopping" /\ toStop # <<>> /\ Head(toStop) \in Resource
  /\ \/ open' = open \ {Head(toStop)} /\ toStop' = Tail(toStop) /\ UNCHANGED faults
     \/ Head(toStop) = "db" /\ Fault /\ toStop' = <<>> /\ UNCHANGED open
  /\ UNCHANGED <<phase, checks, services, stranded>>

\* process.exit, when all is closed; or the process dies.
Exit ==
  /\ \/ phase = "stopping" /\ toStop = <<>> /\ open = {} /\ UNCHANGED faults
     \/ phase # "gone" /\ Fault
  /\ phase' = "gone" /\ running' = {} /\ working' = {} /\ toStop' = <<>> /\ open' = {}
  /\ UNCHANGED <<checks, stranded>>

-----------------------------------------------------------------------------
Booting ==
  LoadConfig \/ CheckInfra \/ LoadSkills \/ ConnectServers \/ CheckScopes \/ StartServices

Stopping == Signal \/ Halt \/ Halted

LifecycleNext ==
  \/ Booting /\ UNCHANGED faults
  \/ (\E s \in Service : Work(s) \/ Done(s)) /\ UNCHANGED faults
  \/ Stopping /\ UNCHANGED faults
  \/ Close \/ Exit

LifecycleSpec == LifecycleInit /\ NoFault /\ [][LifecycleNext]_<<lifecycleVars, faults>>

-----------------------------------------------------------------------------
(* Properties                                                              *)

(* NothingStranded: whatever a service has begun it ends while the database, *)
(* Redis and the MCP servers are open to it: a tick or a turn is neither    *)
(* taken up before they are nor left behind by the shutdown. Only requests  *)
(* of the gateway are, since its server stops without waiting for them      *)
(* (bootstrap/index.ts:546-557).                                           *)
NothingStranded ==
  /\ stranded \subseteq {"gateway"}
  /\ working \ {"gateway"} # {} => {"db", "redis"} \subseteq open
  /\ "workers" \in working => open = Resource
=============================================================================
