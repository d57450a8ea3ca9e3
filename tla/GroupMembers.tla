----------------------------- MODULE GroupMembers -----------------------------
(***************************************************************************)
(* The members of a gathering.  A PUT names all of them; the code reads who   *)
(* is a member already and writes the difference, so that PUTs which overlap  *)
(* mix.  Accounts are deleted and purged meanwhile, gatherings too.          *)
(***************************************************************************)
EXTENDS FiniteSets

CONSTANTS
  Gatherings,  \* gathering ids
  People,      \* user ids
  FirstMembers, \* the members of every gathering at the start
  Puts         \* concurrent requests, each used again and again

ASSUME GroupConstants == FirstMembers \subseteq People

VARIABLES
  held,      \* gatherings: the ids that are there
  roster,    \* gathering_group_members of each
  standing,  \* users.deletion_status: active, deleted, or deleted and purged
  put,       \* the requests
  answered   \* history: what was asked for by the last PUT and those it overlapped

groupVars == <<held, roster, standing, put, answered>>

NoPut == [pc |-> "idle", to |-> {}, want |-> {}, add |-> {}, remove |-> {}]
Put == [pc: {"idle", "users", "current", "apply"}, to: SUBSET Gatherings,
        want: SUBSET People, add: SUBSET People, remove: SUBSET People]

ActivePeople == {u \in People : standing[u] = "active"}
UnderWay(g) == {p \in Puts : put[p].pc = "apply" /\ put[p].to = {g}}
PutEnds(p) == put' = [put EXCEPT ![p] = NoPut]

(* replaceGatheringMembers: ensureGatheringExists, *)
StartPut(p, g, want) ==
  /\ put[p] = NoPut /\ g \in held
  /\ put' = [put EXCEPT ![p] = [NoPut EXCEPT !.pc = "users", !.to = {g}, !.want = want]]
  /\ UNCHANGED <<held, roster, standing, answered>>

(* findMissingUserIds, *)
CheckPeople(p) ==
  /\ put[p].pc = "users"
  /\ IF put[p].want \subseteq ActivePeople
       THEN put' = [put EXCEPT ![p].pc = "current"] ELSE PutEnds(p)
  /\ UNCHANGED <<held, roster, standing, answered>>

(* findByGatheringId, and the difference; without one the PUT is answered. *)
ReadMembers(p, g) ==
  /\ put[p].pc = "current" /\ put[p].to = {g}
  /\ LET add == put[p].want \ roster[g]
         remove == roster[g] \ put[p].want
         before == IF UnderWay(g) = {} THEN {} ELSE answered[g]
     IN IF add \cup remove = {}
          THEN PutEnds(p) /\ answered' = [answered EXCEPT ![g] = before \cup {put[p].want}]
          ELSE /\ put' = [put EXCEPT ![p].pc = "apply", ![p].add = add, ![p].remove = remove]
               /\ answered' = [answered EXCEPT ![g] = before]
  /\ UNCHANGED <<held, roster, standing>>

(* Mutant: the check made before is relied on. *)
AllAdded(add) == add
(* buildAddMembersStatement: WHERE deletion_status = 'active'. *)
Added(add) == add \cap ActivePeople

(* applyMemberDiff: one batch.  A gathering that is gone fails the foreign     *)
(* key, and the answer is 404. *)
ApplyMemberDiff(p, g) ==
  /\ put[p].pc = "apply" /\ put[p].to = {g}
  /\ IF g \in held
       THEN /\ roster' = [roster EXCEPT ![g] = (@ \ put[p].remove) \cup Added(put[p].add)]
            /\ answered' = [answered EXCEPT ![g] = @ \cup {put[p].want}]
       ELSE UNCHANGED <<roster, answered>>
  /\ PutEnds(p)
  /\ UNCHANGED <<held, standing>>

(* A statement throws, or the invocation dies. *)
PutBreaks(p) ==
  /\ put[p] # NoPut
  /\ PutEnds(p)
  /\ UNCHANGED <<held, roster, standing, answered>>

(* The settings of the event delete the gathering; its members go along. *)
DropGathering(g) ==
  /\ g \in held
  /\ held' = held \ {g}
  /\ roster' = [roster EXCEPT ![g] = {}]
  /\ UNCHANGED <<standing, put, answered>>

(* Accounts: markAsDeleted, and later the purge with its deleteByUserId. *)
DeleteAccount(u) ==
  /\ standing[u] = "active"
  /\ standing' = [standing EXCEPT ![u] = "deleted"]
  /\ UNCHANGED <<held, roster, put, answered>>

PurgeMember(u) ==
  /\ standing[u] = "deleted"
  /\ standing' = [standing EXCEPT ![u] = "purged"]
  /\ roster' = [g \in Gatherings |-> roster[g] \ {u}]
  /\ UNCHANGED <<held, put, answered>>

GroupInit ==
  /\ held = Gatherings
  /\ roster = [g \in Gatherings |-> FirstMembers]
  /\ standing = [u \in People |-> "active"]
  /\ put = [p \in Puts |-> NoPut]
  /\ answered = [g \in Gatherings |-> {}]

GroupNext ==
  \/ \E p \in Puts, g \in Gatherings :
       \/ (\E want \in SUBSET People : StartPut(p, g, want))
       \/ ReadMembers(p, g) \/ ApplyMemberDiff(p, g)
  \/ \E p \in Puts : CheckPeople(p) \/ PutBreaks(p)
  \/ \E g \in Gatherings : DropGathering(g)
  \/ \E u \in People : DeleteAccount(u) \/ PurgeMember(u)

GroupSpec == GroupInit /\ [][GroupNext]_groupVars

-----------------------------------------------------------------------------
(* When no PUT is under way, the members are between what the last PUT and     *)
(* those it overlapped all asked for and what any of them did: PUTs of the     *)
(* same set leave that set, in whatever order they read and wrote.  And a      *)
(* purged user is nowhere a member again.                                    *)
RosterBetween ==
  /\ \A g \in held : UnderWay(g) = {} /\ answered[g] # {} =>
       /\ {u \in ActivePeople : \A want \in answered[g] : u \in want} \subseteq roster[g]
       /\ roster[g] \subseteq UNION answered[g]
  /\ \A g \in Gatherings : \A u \in roster[g] : standing[u] # "purged"
==============================================================================
