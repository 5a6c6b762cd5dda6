------------------------------- MODULE MCJobs -------------------------------
(***************************************************************************)
(* A small instance of what every process does beside the turns of its     *)
(* rooms: the scheduler, the digest of the day and the proactive funnel,   *)
(* which run by the clock; the judge that gates ask; how the process starts *)
(* and stops; and who answers a message under the configurations it may be *)
(* started with. They share no state but the bound on faults, so that an   *)
(* interleaving of two of them shows nothing that each alone does not: in  *)
(* a behaviour one of them runs.                                           *)
(***************************************************************************)
EXTENDS Scheduler, KbDigest, Proactive, Lifecycle, Routing, TLC

CONSTANTS ann, bob, h1, h2, g1, g2

\* Ann asks, asks again, and Bob speaks.
MCAuthorOf == [m \in Message |-> IF m = 3 THEN bob ELSE ann]

\* Everything configured; no rooms; one of them, no keys and a server without
\* tools; no host of photos, and a tool listed twice; one channel, one-way.
Full == [channels |-> Channel, egress |-> Channel, rooms |-> {"zalo", "zalo-kho"},
         keys |-> {"gemini", "hosts", "anydoc", "jev"}, kho |-> 1]
MCEnv == {Full, [Full EXCEPT !.rooms = {}],
          [Full EXCEPT !.rooms = {"zalo"}, !.keys = {}, !.kho = 0],
          [Full EXCEPT !.keys = {"gemini", "anydoc"}, !.kho = 2],
          [Full EXCEPT !.channels = {"zalo"}, !.egress = {}]}

VARIABLE part   \* the component that runs

\* Where none is answered, one message stands for all, and one configuration.
Init ==
  /\ part \in {"scheduler", "digest", "funnel", "judge", "lifecycle", "routing"}
  /\ SchedulerInit /\ DigestInit /\ FunnelInit /\ LifecycleInit /\ NoFault
  /\ VerdictInit /\ (part # "judge" => gate = "funnel")
  /\ IF part = "routing" THEN RoutingInit ELSE RoutingIdle

Next ==
  \/ /\ part = "scheduler" /\ SchedulerNext
     /\ UNCHANGED <<part, digestVars, funnelVars, verdictVars, lifecycleVars, routingVars>>
  \/ /\ part = "digest" /\ DigestNext
     /\ UNCHANGED <<part, schedulerVars, funnelVars, verdictVars, lifecycleVars, routingVars>>
  \/ /\ part = "funnel" /\ FunnelNext
     /\ UNCHANGED <<part, schedulerVars, digestVars, verdictVars, lifecycleVars, routingVars>>
  \/ /\ part = "judge" /\ VerdictNext
     /\ UNCHANGED <<part, schedulerVars, digestVars, funnelVars, lifecycleVars, routingVars, faults>>
  \/ /\ part = "lifecycle" /\ LifecycleNext
     /\ UNCHANGED <<part, schedulerVars, digestVars, funnelVars, verdictVars, routingVars>>
  \/ /\ part = "routing" /\ RoutingNext
     /\ UNCHANGED <<part, schedulerVars, digestVars, funnelVars, verdictVars, lifecycleVars>>

vars ==
  <<part, schedulerVars, digestVars, funnelVars, verdictVars, lifecycleVars, routingVars, faults>>

Spec == Init /\ [][Next]_vars

(* TypeOK: the type invariants of the six and of their faults.             *)
TypeOK ==
  /\ FaultsOK /\ SchedulerTypeOK /\ DigestTypeOK /\ FunnelTypeOK /\ VerdictTypeOK
  /\ LifecycleTypeOK /\ RoutingTypeOK

\* Processes and groups are interchangeable.
MCSymmetry == Permutations({h1, h2}) \cup Permutations({g1, g2})
=============================================================================
