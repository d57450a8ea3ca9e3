---------------------------- MODULE AccountsProps ----------------------------
(***************************************************************************)
(* What signing in and out, staff rights and the deletion of accounts       *)
(* promise.                                                                *)
(***************************************************************************)
EXTENDS Accounts

(* Rows and requests are well typed. *)
AccountsTypeOK ==
  /\ user \in [Users -> User]
  /\ traces \in [Users -> SUBSET Traces]
  /\ late \in [Users -> SUBSET Kinds]
  /\ link \in [Accounts -> Users \cup {Nobody}]
  /\ session \in [Sessions -> Users \cup {Nobody}]
  /\ device \in [Devices -> Users \cup {Nobody}]
  /\ marker \in [Markers -> Users \cup {Nobody}]
  /\ bearers \subseteq Users
  /\ req \in [Handlers -> Req]
  /\ calls \in 0 .. MaxCalls /\ breaks \in Nat

(* createUserWithMicrosoftLink is no transaction: the users row comes       *)
(* before its link.  Unless something breaks, a user row made by a sign-in   *)
(* belongs to its account, is still being dealt with, or has been deleted.   *)
NoOrphanUser ==
  \A u \in Users :
    breaks = 0 /\ Active(u) /\ user[u].by # Nobody =>
      link[user[u].by] = u \/ \E r \in Handlers : req[r].user = u

(* upsertUser matches an account with a registered person before it makes a  *)
(* new user: nobody is split into two users unless the registered one was    *)
(* deleted.  For students an unknown error while linking makes an exception. *)
NotSplit ==
  \A u \in Users, a \in Accounts :
    LET person == Owner[a] IN
    /\ user[u].by = a /\ person \in Registered
    /\ person \in Teachers \/ breaks = 0
    => ~Active(person)

(* Once purged_at is set, nothing is left of the name, the number and the    *)
(* rows the purge is there for as they were when the account was deleted:    *)
(* what is left was written later.  An admin's PUT, a notification for the    *)
(* user and a request authenticated before write with no regard for the       *)
(* status.  Sessions are deleted by the request alone, never by the cron,     *)
(* which may be done before it. *)
NothingOldIsLeft ==
  \A u \in Users : user[u].purged =>
    /\ user[u].named => "name" \in late[u]
    /\ traces[u] \subseteq late[u]
    /\ "device" \in late[u] \/ UserDevices(u) = {}
    /\ \/ breaks > 0 \/ "session" \in late[u] \/ UserSessions(u) = {}
       \/ \E r \in Handlers : At(r, "dropSessions") /\ req[r].user = u

(* A request takes sessions and devices away from its own user alone, even   *)
(* if the ids it was given have passed to another. *)
OthersUntouched ==
  [][\A r \in Handlers : req'[r] # req[r] =>
       /\ \A s \in Sessions :
            session[s] # Nobody /\ session'[s] # session[s] => session[s] = req[r].user
       /\ \A d \in Devices :
            device[d] # Nobody /\ device'[d] = Nobody => device[d] = req[r].user
    ]_accountsVars

(* Two members of staff may revoke or suspend each other at once: the last   *)
(* active one goes only by deleting the account. *)
SomeStaffRemains ==
  [][ActiveStaff # {} /\ ActiveStaff' = {} =>
       \E u \in ActiveStaff : user'[u].status = "deleted"]_accountsVars

(* A deletion that was accepted is completed, whatever request died on it. *)
EveryDeletionCompletes ==
  (\E u \in Users : Pending(u)) ~> (\A u \in Users : ~Pending(u))
==============================================================================
