------------------------------ MODULE Identity ------------------------------
(***************************************************************************)
(* Who is writing (src/auth): a worker resolves the sender of a turn to     *)
(* staff, a dealer of the group's customer, or a guest. Postgres is asked   *)
(* for it in up to three queries, and what it says is kept in Redis for a   *)
(* shift. Staff change roles by commands, some of which delete the cached   *)
(* role.                                                                   *)
(*                                                                         *)
(* One person in one group. Time is counted in coarse steps, TTL of them    *)
(* make a shift; the queries of one resolution fall into one of them.      *)
(***************************************************************************)
EXTENDS Platform

CONSTANTS
  Customer,  \* customers of the operational system
  TTL,       \* TTL_SEC, in steps
  MaxNow     \* bound on time

ASSUME IdentityAssumption ==
  TTL \in Nat \ {0} /\ MaxNow \in Nat /\ {"staff", "guest", "none", "member"} \cap Customer = {}

Role == {"staff", "guest"} \cup Customer   \* a dealer's role is his customer

VARIABLES
  now,      \* steps since the start
  bound,    \* user_binding: is he staff?
  member,   \* group_member: is he a dealer in this group?
  owner,    \* group_map: the customer of the group, or "none"
  cache,    \* the role in Redis and when it expires, or <<>>
  resolve,  \* [Host -> where its resolution is]
  role,     \* [Host -> the role it has found, or "none"]
  desk,     \* [Host -> where its command is]
  last,     \* history variable: when he last was a dealer, and the group last
            \* each customer's
  raced     \* history variable: was a key deleted under a resolution that had
            \* missed it?

directory    == <<bound, member, owner>>
resolutions  == <<resolve, role>>
identityVars == <<now, directory, cache, resolutions, desk, last, raced>>

(* IdentityTypeOK: the type invariant; guests are not cached.               *)
IdentityTypeOK ==
  /\ now \in 0..MaxNow
  /\ bound \in BOOLEAN /\ member \in BOOLEAN
  /\ owner \in Customer \cup {"none"}
  /\ cache # <<>> => cache[1] \in Role \ {"guest"} /\ cache[2] > now
  /\ resolve \in [Host -> {"idle", "get", "staff", "member", "owner", "set", "done"}]
  /\ role \in [Host -> Role \cup {"none"}]
  /\ \A h \in Host : role[h] # "none" <=> resolve[h] \in {"set", "done"}
  /\ desk \in [Host -> {"idle", "assign", "delete"}]
  /\ last \in [{"member"} \cup Customer -> 0..MaxNow]
  /\ raced \in BOOLEAN

IdentityInit ==
  /\ now = 0
  /\ bound = FALSE /\ member = FALSE /\ owner = "none"
  /\ cache = <<>>
  /\ resolve = [h \in Host |-> "idle"]
  /\ role = [h \in Host |-> "none"]
  /\ desk = [h \in Host |-> "idle"]
  /\ last = [x \in {"member"} \cup Customer |-> 0]
  /\ raced = FALSE

-----------------------------------------------------------------------------
\* Time passes; a key whose TTL is over is gone. `last` is kept up to date with
\* what the directory says.
Pass ==
  /\ now < MaxNow
  /\ \A h \in Host : resolve[h] = "idle"
  /\ now' = now + 1
  /\ cache' = IF cache # <<>> /\ cache[2] <= now + 1 THEN <<>> ELSE cache
  /\ last' = [x \in DOMAIN last |->
                IF (x = "member" /\ member) \/ x = owner THEN now + 1 ELSE last[x]]
  /\ UNCHANGED <<directory, resolutions, desk, raced, faults>>

-----------------------------------------------------------------------------
(* cached-resolver.ts resolve, and resolver.ts behind it.                  *)

ResolveAt(h, where) == resolve' = [resolve EXCEPT ![h] = where] /\ UNCHANGED role

Found(h, r, where) ==
  resolve' = [resolve EXCEPT ![h] = where] /\ role' = [role EXCEPT ![h] = r]

\* A query fails and with it the turn, or the turn goes on with the role.
EndResolve(h) ==
  resolve' = [resolve EXCEPT ![h] = "idle"] /\ role' = [role EXCEPT ![h] = "none"]

AskCache(h) ==
  /\ resolve[h] = "idle"
  /\ \/ cache # <<>> /\ Found(h, cache[1], "done") /\ UNCHANGED faults
     \/ cache = <<>> /\ ResolveAt(h, "staff") /\ UNCHANGED faults
  /\ UNCHANGED <<now, directory, cache, desk, last, raced>>

AskStaff(h) ==
  /\ resolve[h] = "staff"
  /\ \/ bound /\ Found(h, "staff", "set") /\ UNCHANGED faults
     \/ ~bound /\ ResolveAt(h, "member") /\ UNCHANGED faults
     \/ Fault /\ EndResolve(h)
  /\ UNCHANGED <<now, directory, cache, desk, last, raced>>

AskMember(h) ==
  /\ resolve[h] = "member"
  /\ \/ member /\ ResolveAt(h, "owner") /\ UNCHANGED faults
     \/ ~member /\ Found(h, "guest", "done") /\ UNCHANGED faults
     \/ Fault /\ EndResolve(h)
  /\ UNCHANGED <<now, directory, cache, desk, last, raced>>

AskOwner(h) ==
  /\ resolve[h] = "owner"
  /\ \/ owner # "none" /\ Found(h, owner, "set") /\ UNCHANGED faults
     \/ owner = "none" /\ Found(h, "guest", "done") /\ UNCHANGED faults
     \/ Fault /\ EndResolve(h)
  /\ UNCHANGED <<now, directory, cache, desk, last, raced>>

\* SET with its TTL, whatever has been deleted since the GET.
KeepRole(h) ==
  LET kept == <<role[h], now + TTL>> IN
  /\ resolve[h] = "set"
  /\ \/ cache' = kept /\ ResolveAt(h, "done") /\ UNCHANGED faults
     \/ Fault /\ cache' \in {cache, kept} /\ EndResolve(h)
  /\ UNCHANGED <<now, directory, desk, last, raced>>

UseRole(h) ==
  /\ resolve[h] = "done" /\ EndResolve(h)
  /\ UNCHANGED <<now, directory, cache, desk, last, raced, faults>>

-----------------------------------------------------------------------------
(* flash-command/commands: what staff may change, and identity-repo.ts.     *)

DeskAt(h, where) == desk' = [desk EXCEPT ![h] = where]

\* /ketnoi-hethong, bindUser.
BindUser ==
  /\ ~bound /\ bound' = TRUE
  /\ UNCHANGED <<now, member, owner, cache, resolutions, desk, last, raced, faults>>

\* /ketnoi-daily, upsertGroupMap; the customer is whom the operational system
\* has for the group. The command goes on for this person or for another one,
\* of whom it refuses those who are staff.
ConnectDealer(h) ==
  /\ desk[h] = "idle"
  /\ \E c \in Customer :
       /\ owner' = c
       /\ last' = [x \in DOMAIN last |-> IF x \in {c, owner} THEN now ELSE last[x]]
  /\ DeskAt(h, "idle") \/ (~bound /\ DeskAt(h, "assign"))
  /\ UNCHANGED <<now, bound, member, cache, resolutions, raced, faults>>

\* /ketnoi-daily, assignDealer.
AssignDealer(h) ==
  /\ desk[h] = "assign"
  /\ \/ member' = TRUE /\ DeskAt(h, "delete") /\ UNCHANGED faults
     \/ Fault /\ member' \in {member, TRUE} /\ DeskAt(h, "idle")
  /\ last' = IF member' THEN [last EXCEPT !["member"] = now] ELSE last
  /\ UNCHANGED <<now, bound, owner, cache, resolutions, raced>>

\* Mutant of RevokeDealer: the role is revoked, the key stays.
RevokeQuietly(h) ==
  /\ desk[h] = "idle"
  /\ member' = FALSE
  /\ UNCHANGED <<now, bound, owner, cache, resolutions, desk, last, raced, faults>>

\* /huy-ketnoi, revokeDealer.
RevokeDealer(h) ==
  /\ desk[h] = "idle"
  /\ \/ member' = FALSE /\ DeskAt(h, "delete") /\ UNCHANGED faults
     \/ Fault /\ member' \in {member, FALSE} /\ UNCHANGED desk
  /\ UNCHANGED <<now, bound, owner, cache, resolutions, last, raced>>

\* assignDealer and revokeDealer, DEL of the person's key.
DeleteRole(h) ==
  /\ desk[h] = "delete"
  /\ \/ cache' = <<>> /\ UNCHANGED faults
     \/ Fault /\ cache' \in {cache, <<>>}
  /\ DeskAt(h, "idle")
  /\ raced' = (raced \/ \E g \in Host : resolve[g] \in {"staff", "member", "owner", "set"})
  /\ UNCHANGED <<now, directory, resolutions, last>>

\* The process dies in a command.
DieInCommand(h) ==
  /\ desk[h] # "idle" /\ Fault /\ DeskAt(h, "idle")
  /\ UNCHANGED <<now, directory, cache, resolutions, last, raced>>

\* Redis loses the key.
LoseRole ==
  /\ cache # <<>> /\ Fault /\ cache' = <<>>
  /\ UNCHANGED <<now, directory, resolutions, desk, last, raced>>

-----------------------------------------------------------------------------
ResolveNext(h) ==
  AskCache(h) \/ AskStaff(h) \/ AskMember(h) \/ AskOwner(h) \/ KeepRole(h) \/ UseRole(h)

DeskNext(h) ==
  ConnectDealer(h) \/ AssignDealer(h) \/ RevokeDealer(h) \/ DeleteRole(h) \/ DieInCommand(h)

IdentityNext ==
  \/ Pass \/ BindUser \/ LoseRole
  \/ \E h \in Host : ResolveNext(h) \/ DeskNext(h)

IdentitySpec == IdentityInit /\ NoFault /\ [][IdentityNext]_<<identityVars, faults>>

-----------------------------------------------------------------------------
(* Properties                                                              *)

(* RoleIsFresh: whoever is served as a dealer of a customer was one within  *)
(* the last TTL, and the group was that customer's, whatever deletion      *)
(* failed, was missing or came too early: the TTL is the safety net of the *)
(* cache (cached-resolver.ts:7-9). And a dealer whose role was revoked is  *)
(* out at once, unless a step failed or a resolution that had missed the   *)
(* key was under way at its DEL.                                           *)
RoleIsFresh ==
  /\ \A h \in Host :
       resolve[h] = "done" /\ role[h] \in Customer
         => now < last["member"] + TTL /\ now < last[role[h]] + TTL
  /\ faults = 0 /\ ~raced /\ ~member /\ (\A h \in Host : desk[h] # "delete")
       => cache = <<>> \/ cache[1] = "staff"
=============================================================================
