--------------------------- MODULE AccountsProofs ---------------------------
(***************************************************************************)
(* What holds of accounts for any number of people, requests and faults.    *)
(***************************************************************************)
EXTENDS AccountsProps, TLAPS

(* Where a request is about a user; where a user is being purged. *)
WithUser == (LoginPc \ {"find", "person", "create", "racedCreate"})
              \cup (DeletePc \ {"findMarked"}) \cup PurgePc \cup OtherPc
Purging == PurgePc \ {"purge"}
Gone == {"deleted", "undone"}

Sound(v) ==
  /\ v \in Req
  /\ v.pc \in WithUser => v.user \in Users
  /\ v.pc = "rotate" => v.session \in Sessions

(* A purge is of a user that is gone for good.  A session that is rotated is  *)
(* its user's until somebody deletes it: no other session gets its id.        *)
PurgesGone == \A r \in Handlers : req[r].pc \in Purging => user[req[r].user].status \in Gone
RotatesOwn ==
  \A r \in Handlers : req[r].pc = "rotate" => session[req[r].session] \in {req[r].user, Nobody}

AccountsInv ==
  /\ AccountsTypeOK
  /\ \A r \in Handlers : Sound(req[r])
  /\ PurgesGone
  /\ RotatesOwn

(* A user is added somewhere by a SELECT of active users. *)
Joins(u) == AddMember(u) \/ AddRecipient(u)

(* What a request becomes fits the rows its step leaves. *)
Turn(r, v) == req' = [req EXCEPT ![r] = v]
Fits(v) ==
  /\ Sound(v)
  /\ v.pc \in Purging => user'[v.user].status \in Gone
  /\ v.pc = "rotate" => session'[v.session] \in {v.user, Nobody}
Turns(r) == \E v \in Req : Turn(r, v) /\ Fits(v)

(* What a step may do to the rows under the other requests. *)
Onward ==
  /\ user' \in [Users -> User]
  /\ traces' \in [Users -> SUBSET Traces]
  /\ late' \in [Users -> SUBSET Kinds]
  /\ link' \in [Accounts -> Users \cup {Nobody}]
  /\ session' \in [Sessions -> Users \cup {Nobody}]
  /\ device' \in [Devices -> Users \cup {Nobody}]
  /\ marker' \in [Markers -> Users \cup {Nobody}]
  /\ bearers' \subseteq Users
  /\ calls' \in 0 .. MaxCalls /\ breaks' \in Nat
  /\ \A u \in Users : user[u].status \in Gone => user'[u].status \in Gone
  /\ \A s \in Sessions : session'[s] \in {session[s], Nobody}
                           \/ \A q \in Handlers : req[q].session # s

-----------------------------------------------------------------------------
(* The shape of a step *)

LEMMA OneOfThem == ASSUME NEW S, NEW x \in OneOf(S) PROVE x \in S
  BY DEF OneOf

LEMMA Stepped ==
  ASSUME AccountsInv, NEW r \in Handlers, Onward, Turns(r)
  PROVE  AccountsInv'
<1>1. PICK v \in Req : Turn(r, v) /\ Fits(v)
  BY DEF Turns
<1>2. /\ req' \in [Handlers -> Req]
      /\ req'[r] = v
      /\ \A q \in Handlers \ {r} : req'[q] = req[q]
  BY <1>1 DEF Turn, AccountsInv, AccountsTypeOK
<1>3. AccountsTypeOK'
  BY <1>2 DEF Onward, AccountsTypeOK
<1>4. ASSUME NEW q \in Handlers
      PROVE  /\ Sound(req'[q])
             /\ req'[q].pc \in Purging => user'[req'[q].user].status \in Gone
             /\ req'[q].pc = "rotate" => session'[req'[q].session] \in {req'[q].user, Nobody}
  <2>1. CASE q = r
    BY <1>1, <1>2, <2>1 DEF Fits
  <2>2. CASE q # r
    <3>1. req'[q] = req[q] /\ Sound(req[q])
      BY <1>2, <2>2 DEF AccountsInv
    <3>2. ASSUME req[q].pc \in Purging
          PROVE  user'[req[q].user].status \in Gone
      BY <3>1, <3>2 DEF AccountsInv, PurgesGone, Onward, Sound, Purging, WithUser
    <3>3. ASSUME req[q].pc = "rotate"
          PROVE  session'[req[q].session] \in {req[q].user, Nobody}
      BY <3>1, <3>3 DEF AccountsInv, RotatesOwn, Onward, Sound
    <3> QED BY <3>1, <3>2, <3>3
  <2> QED BY <2>1, <2>2
<1>5. (\A q \in Handlers : Sound(req[q]))'
  BY <1>4 DEF Sound
<1> QED BY <1>3, <1>4, <1>5 DEF AccountsInv, PurgesGone, RotatesOwn

Pcs == {"idle"} \cup LoginPc \cup DeletePc \cup PurgePc \cup OtherPc

LEMMA Going ==
  ASSUME AccountsInv, NEW r \in Handlers, NEW pc \in Pcs \ {"rotate"}, Goto(r, pc),
         pc \in WithUser => req[r].user \in Users,
         pc \in Purging => user'[req[r].user].status \in Gone
  PROVE  Turns(r)
<1> DEFINE v == [req[r] EXCEPT !.pc = pc]
<1>1. req[r] \in Req /\ Turn(r, v)
  BY DEF AccountsInv, AccountsTypeOK, Goto, Turn
<1>2. v \in Req /\ v.pc = pc /\ v.user = req[r].user
  BY <1>1 DEF Req, Pcs
<1>3. Fits(v)
  BY <1>2 DEF Fits, Sound
<1> QED BY <1>1, <1>2, <1>3 DEF Turns

LEMMA GoingFor ==
  ASSUME AccountsInv, NEW r \in Handlers, NEW pc \in Pcs \ {"rotate"},
         NEW u \in Users \cup {Nobody}, GotoFor(r, pc, u),
         pc \in WithUser => u \in Users,
         pc \notin Purging
  PROVE  Turns(r)
<1> DEFINE w == [req[r] EXCEPT !.pc = pc]
           v == [w EXCEPT !.user = u]
<1>1. req[r] \in Req /\ Turn(r, v)
  BY DEF AccountsInv, AccountsTypeOK, GotoFor, Turn
<1>2. v \in Req /\ v.pc = pc /\ v.user = u
  <2>1. w \in Req /\ w.pc = pc
    BY <1>1 DEF Req, Pcs
  <2> HIDE DEF w
  <2> QED BY <2>1 DEF Req
<1>3. Fits(v)
  BY <1>2 DEF Fits, Sound
<1> QED BY <1>1, <1>2, <1>3 DEF Turns

LEMMA NoRequest == NoReq \in Req /\ NoReq.pc = "idle" /\ "idle" \notin WithUser \cup Purging
<1>1. NoReq.pc = "idle" /\ NoReq \in Req
  BY DEF NoReq, Req
<1> QED BY <1>1 DEF WithUser, Purging, LoginPc, DeletePc, PurgePc, OtherPc

LEMMA Finishing ==
  ASSUME NEW r \in Handlers, Finish(r)
  PROVE  Turns(r)
  BY NoRequest DEF Finish, Turns, Turn, Fits, Sound

(* A call starts a request of its own. *)
LEMMA Calling ==
  ASSUME AccountsInv, calls < MaxCalls, NEW r, NEW v \in Req, Call(r, v), Fits(v)
  PROVE  r \in Handlers /\ Turns(r) /\ calls' \in 0 .. MaxCalls
<1>1. r \in Callers
  BY OneOfThem DEF Call
<1>2. calls' \in 0 .. MaxCalls
  BY AccountsConstants DEF Call, AccountsInv, AccountsTypeOK
<1> QED BY <1>1, <1>2 DEF Call, Handlers, Turns, Turn

LEMMA Untouched ==
  ASSUME AccountsInv, UNCHANGED <<people, keys>>,
         calls' \in 0 .. MaxCalls, breaks' \in Nat
  PROVE  Onward
  BY DEF AccountsInv, AccountsTypeOK, Onward, people, keys

-----------------------------------------------------------------------------
(* Each action: what it does to the rows, and what its request becomes *)

(* Where there is a user. *)
LEMMA Busy ==
  ASSUME AccountsInv, NEW r \in Handlers
  PROVE  /\ req[r] \in Req
         /\ req[r].pc \in WithUser => req[r].user \in Users
         /\ req[r].pc \in Purging => user[req[r].user].status \in Gone
         /\ req[r].pc = "rotate" => /\ req[r].session \in Sessions
                                    /\ session[req[r].session] \in {req[r].user, Nobody}
  BY DEF AccountsInv, AccountsTypeOK, Sound, PurgesGone, RotatesOwn

LEMMA Places ==
  /\ {"status", "update", "link", "raced", "insertLink", "undo", "gate", "session",
      "spend", "unlink", "mark", "dropSessions", "dropDevices", "purge", "rotate",
      "outDevice", "outLatest", "outSession", "register", "command",
      "assign", "addStaff", "revoke", "removeStaff", "suspend", "restore",
      "edit", "rewrite", "move", "target"}
       \subseteq (Pcs \cap WithUser) \ Purging
  /\ {"name", "readDevices", "audience", "recipient", "purgeDevices", "actor", "staff",
      "teacher", "student", "member", "markPurged"} \subseteq Pcs \cap WithUser \cap Purging
  /\ {"idle", "find", "person", "create", "racedCreate", "findMarked"}
       \subseteq (Pcs \ WithUser) \ Purging
  BY DEF Pcs, WithUser, Purging, LoginPc, DeletePc, PurgePc, OtherPc

LEMMA SignInReads ==
  ASSUME AccountsInv, NEW r \in Handlers,
         \/ FindLinked(r) \/ CheckLinked(r) \/ FindPerson(r) \/ LinkErrorSwallowed(r)
         \/ FindRaced(r) \/ LinkBroken(r) \/ FindRacedUser(r) \/ GateLogin(r)
  PROVE  Onward /\ Turns(r)
<1>1. Onward
  <2>1. UNCHANGED <<people, keys>> /\ UNCHANGED calls
        /\ (UNCHANGED breaks \/ (breaks < MaxBreaks /\ breaks' = breaks + 1))
    BY DEF FindLinked, CheckLinked, FindPerson, LinkErrorSwallowed, FindRaced, LinkBroken,
           FindRacedUser, GateLogin
  <2> QED BY <2>1, Untouched, AccountsConstants DEF AccountsInv, AccountsTypeOK
<1>3. CASE FindLinked(r)
  BY <1>1, <1>3, Places, Going, GoingFor DEF FindLinked, LinkedTo
<1>4. CASE CheckLinked(r)
  BY <1>1, <1>4, Places, Going, Finishing, Busy DEF CheckLinked, At
<1>5. CASE FindPerson(r)
  <2>1. CASE Goto(r, "create")
    BY <1>1, <2>1, Places, Going
  <2>2. CASE FoundStudent(r)
    BY <1>1, <2>2, Places, GoingFor, AccountsConstants DEF FoundStudent, Registered
  <2>3. CASE FoundTeacher(r)
    BY <1>1, <2>3, Places, GoingFor, Finishing, AccountsConstants DEF FoundTeacher, Registered
  <2> QED BY <1>5, <2>1, <2>2, <2>3 DEF FindPerson
<1>6. CASE LinkErrorSwallowed(r)
  BY <1>1, <1>6, Places, GoingFor DEF LinkErrorSwallowed
<1>7. CASE FindRaced(r)
  BY <1>1, <1>7, Places, GoingFor, Finishing DEF FindRaced, LinkedTo
<1>8. CASE LinkBroken(r)
  <2> DEFINE w == [req[r] EXCEPT !.pc = "undo"]
             v == [w EXCEPT !.found = TRUE]
  <2>1. req[r] \in Req /\ req[r].user \in Users /\ Turn(r, v)
    <3>1. req[r] \in Req /\ req[r].user \in Users
      BY <1>8, Busy, Places DEF LinkBroken, At
    <3>2. req' = [req EXCEPT ![r].pc = "undo", ![r].found = TRUE]
      BY <1>8 DEF LinkBroken
    <3> QED BY <3>1, <3>2 DEF Turn, AccountsInv, AccountsTypeOK
  <2>2. w \in Req /\ w.pc = "undo" /\ w.user = req[r].user
    BY <2>1, Places DEF Req, Pcs
  <2>3. v \in Req /\ v.pc = "undo" /\ v.user = req[r].user
    <3> HIDE DEF w
    <3> QED BY <2>2 DEF Req
  <2> QED BY <1>1, <2>1, <2>3, Places DEF Turns, Fits, Sound
<1>9. CASE FindRacedUser(r)
  BY <1>1, <1>9, Places, GoingFor, Finishing DEF FindRacedUser, LinkedTo
<1>10. CASE GateLogin(r)
  BY <1>1, <1>10, Places, Going, Finishing, Busy DEF GateLogin, At
<1> QED BY <1>3, <1>4, <1>5, <1>6, <1>7, <1>8, <1>9, <1>10

LEMMA OtherReads ==
  ASSUME AccountsInv, NEW r \in Handlers,
         \/ LogoutDeviceFails(r) \/ LogoutSelect(r) \/ PurgeCheck(r) \/ ReadDevices(r)
         \/ EnsureAssigned(r) \/ EnsureRevoked(r) \/ FindEdited(r) \/ Break(r)
  PROVE  Onward /\ Turns(r)
<1>1. Onward
  <2>1. UNCHANGED <<people, keys>> /\ UNCHANGED calls
        /\ (UNCHANGED breaks \/ (breaks < MaxBreaks /\ breaks' = breaks + 1))
    BY DEF LogoutDeviceFails, LogoutSelect, PurgeCheck, ReadDevices, EnsureAssigned,
           EnsureRevoked, EnsureUser, FindEdited, Break
  <2> QED BY <2>1, Untouched, AccountsConstants DEF AccountsInv, AccountsTypeOK
<1>2. CASE LogoutDeviceFails(r)
  BY <1>1, <1>2, Places, Going, Busy DEF LogoutDeviceFails, At
<1>3. CASE LogoutSelect(r)
  <2>1. CASE Goto(r, "outSession")
    BY <1>1, <1>3, <2>1, Places, Going, Busy DEF LogoutSelect, At
  <2>2. ASSUME NEW s \in UserSessions(req[r].user),
               req' = [req EXCEPT ![r].pc = "outSession", ![r].session = s]
        PROVE  Turns(r)
    <3> DEFINE w == [req[r] EXCEPT !.pc = "outSession"]
               v == [w EXCEPT !.session = s]
    <3>1. req[r] \in Req /\ req[r].user \in Users /\ Turn(r, v)
      <4>1. req[r] \in Req /\ req[r].user \in Users
        BY <1>3, Busy, Places DEF LogoutSelect, At
      <4> QED BY <2>2, <4>1 DEF Turn, AccountsInv, AccountsTypeOK
    <3>2. w \in Req /\ w.pc = "outSession" /\ w.user = req[r].user
      BY <3>1, Places DEF Req, Pcs
    <3>3. v \in Req /\ v.pc = "outSession" /\ v.user = req[r].user
      <4> HIDE DEF w
      <4> QED BY <3>2 DEF Req, UserSessions
    <3> QED BY <3>1, <3>3, Places DEF Turns, Fits, Sound
  <2>3. CASE Finish(r)
    BY <1>1, <2>3, Finishing
  <2> QED BY <1>1, <1>3, <2>1, <2>2, <2>3 DEF LogoutSelect
<1>4. CASE PurgeCheck(r)
  <2>1. CASE Pending(req[r].user) /\ Goto(r, "name")
    <3>1. user'[req[r].user].status \in Gone
      BY <1>4, <2>1 DEF PurgeCheck, Pending, Gone, people
    <3> QED BY <1>1, <1>4, <2>1, <3>1, Places, Going, Busy DEF PurgeCheck, At
  <2>2. CASE Finish(r)
    BY <1>1, <2>2, Finishing
  <2> QED BY <1>4, <2>1, <2>2 DEF PurgeCheck
<1>5. CASE ReadDevices(r)
  <2> DEFINE w == [req[r] EXCEPT !.pc = "audience"]
             v == [w EXCEPT !.found = (UserDevices(req[r].user) # {})]
  <2>1. req[r] \in Req /\ req[r].user \in Users /\ user'[req[r].user].status \in Gone
        /\ Turn(r, v)
    <3>1. req[r] \in Req /\ req[r].user \in Users /\ user'[req[r].user].status \in Gone
      BY <1>5, Busy, Places DEF ReadDevices, At, people
    <3>2. req' = [req EXCEPT ![r].pc = "audience", ![r].found = (UserDevices(req[r].user) # {})]
      BY <1>5 DEF ReadDevices
    <3> QED BY <3>1, <3>2 DEF Turn, AccountsInv, AccountsTypeOK
  <2>2. w \in Req /\ w.pc = "audience" /\ w.user = req[r].user
    BY <2>1, Places DEF Req, Pcs
  <2>3. v \in Req /\ v.pc = "audience" /\ v.user = req[r].user
    <3>1. (UserDevices(req[r].user) # {}) \in BOOLEAN
      OBVIOUS
    <3> HIDE DEF w
    <3> QED BY <2>2, <3>1 DEF Req
  <2> QED BY <1>1, <2>1, <2>3, Places DEF Turns, Fits, Sound
<1>6. CASE EnsureAssigned(r)
  BY <1>1, <1>6, Places, Going, Finishing, Busy DEF EnsureAssigned, EnsureUser, At
<1>7. CASE EnsureRevoked(r)
  BY <1>1, <1>7, Places, Going, Finishing, Busy DEF EnsureRevoked, EnsureUser, At
<1>8. CASE Break(r)
  BY <1>1, <1>8, Finishing DEF Break
<1>9. CASE FindEdited(r)
  BY <1>1, <1>9, Places, Going, Finishing, Busy DEF FindEdited, At
<1> QED BY <1>2, <1>3, <1>4, <1>5, <1>6, <1>7, <1>8, <1>9

(* Steps that write the users row. *)
LEMMA Rewriting ==
  ASSUME AccountsInv, NEW u \in Users, NEW row \in User,
         user' = [user EXCEPT ![u] = row],
         user[u].status \in Gone => row.status \in Gone,
         UNCHANGED <<traces, late, keys, calls, breaks>>
  PROVE  Onward
  BY DEF Onward, AccountsInv, AccountsTypeOK, keys

LEMMA Rows ==
  ASSUME NEW row \in User, NEW b \in BOOLEAN
  PROVE  /\ [row EXCEPT !.named = b] \in User
         /\ [row EXCEPT !.live = b] \in User
         /\ [row EXCEPT !.purged = b] \in User
         /\ [row EXCEPT !.status = "deleted"] \in User
         /\ [row EXCEPT !.named = b].status = row.status
         /\ [row EXCEPT !.live = b].status = row.status
         /\ [row EXCEPT !.purged = b].status = row.status
         /\ [row EXCEPT !.status = "deleted"].status \in Gone
  BY DEF User, Gone

LEMMA Taken ==
  /\ [NoUser EXCEPT !.status = "undone"] \in User
  /\ [NoUser EXCEPT !.status = "undone"].status \in Gone
  BY DEF NoUser, User, Gone

LEMMA UserWrites ==
  ASSUME AccountsInv, NEW r \in Handlers,
         \/ UpdateUser(r) \/ (\E u \in Users : CreateUser(r, u)) \/ UndoUser(r)
         \/ MarkDeleted(r) \/ AnonymizeUser(r) \/ MarkPurged(r) \/ Suspend(r) \/ Restore(r)
  PROVE  Onward /\ Turns(r)
<1> DEFINE x == req[r].user
<1>1. UNCHANGED user /\ UNCHANGED <<traces, late, keys, calls, breaks>> => Onward
  BY DEF Onward, AccountsInv, AccountsTypeOK, keys
<1>2. \A u \in Users : user[u] \in User
  BY DEF AccountsInv, AccountsTypeOK
<1>3. CASE UpdateUser(r)
  <2>1. x \in Users
    BY <1>3, Busy, Places DEF UpdateUser, At
  <2>2. UNCHANGED <<traces, late, keys, calls, breaks>>
        /\ (UNCHANGED user \/ user' = [user EXCEPT ![x] = [user[x] EXCEPT !.named = TRUE]])
    BY <1>3, <2>1 DEF UpdateUser, AccountsInv, AccountsTypeOK
  <2>3. Onward
    BY <1>1, <1>2, <2>1, <2>2, Rows, Rewriting
  <2> QED BY <1>3, <2>3, Places, Going, Finishing, Busy DEF UpdateUser, At
<1>4. ASSUME NEW u \in Users, CreateUser(r, u)
      PROVE  Onward /\ Turns(r)
  <2> DEFINE row == [status |-> "active", live |-> TRUE, purged |-> FALSE,
                     named |-> TRUE, by |-> req[r].account]
  <2>1. user[u].status \notin Gone /\ row \in User
    BY <1>4, Busy, OneOfThem DEF CreateUser, FreshUser, Req, User, Gone
  <2>2. Onward
    BY <1>4, <2>1, Rewriting DEF CreateUser
  <2> QED BY <1>4, <2>2, Places, GoingFor DEF CreateUser
<1>5. CASE UndoUser(r)
  <2>1. x \in Users
    BY <1>5, Busy, Places DEF UndoUser, At
  <2>2. CASE Held(x)
    <3>1. UNCHANGED <<people, keys, calls>> /\ breaks' \in Nat /\ Finish(r)
      BY <1>5, <2>2 DEF UndoUser, people, AccountsInv, AccountsTypeOK
    <3>2. Onward
      BY <3>1, Untouched DEF AccountsInv, AccountsTypeOK
    <3> QED BY <3>1, <3>2, Finishing
  <2>3. CASE ~Held(x)
    <3>1. Onward
      BY <1>5, <2>1, <2>3, Taken, Rewriting DEF UndoUser, TakenBack
    <3> QED BY <1>5, <2>3, <3>1, Places, GoingFor, Finishing DEF UndoUser
  <2> QED BY <2>2, <2>3
<1>6. CASE MarkDeleted(r)
  <2>1. x \in Users
    BY <1>6, Busy, Places DEF MarkDeleted, At
  <2>2. UNCHANGED <<traces, late, keys, calls, breaks>>
        /\ user' = [user EXCEPT ![x] = [user[x] EXCEPT !.status = "deleted"]]
    BY <1>6, <2>1 DEF MarkDeleted, AccountsInv, AccountsTypeOK
  <2>3. Onward
    BY <1>2, <2>1, <2>2, Rows, Rewriting
  <2> QED BY <1>6, <2>1, <2>3, Places, Going DEF MarkDeleted
<1>7. CASE AnonymizeUser(r)
  <2>1. x \in Users /\ user[x].status \in Gone
    BY <1>7, Busy, Places DEF AnonymizeUser, At
  <2>2. UNCHANGED <<traces, late, keys, calls, breaks>>
        /\ user' = [user EXCEPT ![x] = [user[x] EXCEPT !.named = FALSE]]
    BY <1>7, <2>1 DEF AnonymizeUser, AccountsInv, AccountsTypeOK
  <2>3. Onward
    BY <1>2, <2>1, <2>2, Rows, Rewriting
  <2>4. user'[x].status \in Gone
    BY <2>1, <2>3 DEF Onward
  <2> QED BY <1>7, <2>1, <2>3, <2>4, Places, Going DEF AnonymizeUser
<1>8. CASE MarkPurged(r)
  <2> DEFINE b == (user[x].status = "deleted")
  <2>1. x \in Users
    BY <1>8, Busy, Places DEF MarkPurged, At
  <2>2. UNCHANGED <<traces, late, keys, calls, breaks>>
        /\ user' = [user EXCEPT ![x] = [user[x] EXCEPT !.purged = b]]
    BY <1>8, <2>1 DEF MarkPurged, AccountsInv, AccountsTypeOK
  <2>3. b \in BOOLEAN
    OBVIOUS
  <2>4. Onward
    <3> HIDE DEF b
    <3> QED BY <1>2, <2>1, <2>2, <2>3, Rows, Rewriting
  <2> QED BY <1>8, <2>4, Finishing DEF MarkPurged
<1>9. CASE Suspend(r)
  <2>1. x \in Users
    BY <1>9, Busy, Places DEF Suspend, At
  <2>2. UNCHANGED <<traces, late, keys, calls, breaks>>
        /\ (UNCHANGED user \/ user' = [user EXCEPT ![x] = [user[x] EXCEPT !.live = FALSE]])
    BY <1>9, <2>1 DEF Suspend, AccountsInv, AccountsTypeOK
  <2>3. Onward
    BY <1>1, <1>2, <2>1, <2>2, Rows, Rewriting
  <2> QED BY <1>9, <2>3, Finishing DEF Suspend
<1>10. CASE Restore(r)
  <2>1. x \in Users
    BY <1>10, Busy, Places DEF Restore, At
  <2>2. UNCHANGED <<traces, late, keys, calls, breaks>>
        /\ (UNCHANGED user \/ user' = [user EXCEPT ![x] = [user[x] EXCEPT !.live = TRUE]])
    BY <1>10, <2>1 DEF Restore, AccountsInv, AccountsTypeOK
  <2>3. Onward
    BY <1>1, <1>2, <2>1, <2>2, Rows, Rewriting
  <2> QED BY <1>10, <2>3, Finishing DEF Restore
<1> QED BY <1>3, <1>4, <1>5, <1>6, <1>7, <1>8, <1>9, <1>10

(* Steps that write one of the other tables, or a key in KV. *)
LEMMA LinkWrites ==
  ASSUME AccountsInv, NEW r \in Handlers, LinkPerson(r) \/ InsertLink(r) \/ Unlink(r)
  PROVE  Onward /\ Turns(r)
<1>1. ASSUME link' \in [Accounts -> Users \cup {Nobody}],
             UNCHANGED <<people, session, device, marker, bearers, calls, breaks>>
      PROVE  Onward
  BY <1>1 DEF Onward, AccountsInv, AccountsTypeOK, people
<1>2. req[r].pc \in WithUser => req[r].user \in Users
  BY Busy
<1>3. CASE LinkPerson(r)
  <2>1. req[r].user \in Users
    BY <1>2, <1>3, Places DEF LinkPerson, At
  <2>2. Onward
    BY <1>1, <1>3, <2>1 DEF LinkPerson, AccountsInv, AccountsTypeOK
  <2> QED BY <1>3, <2>1, <2>2, Places, Going, Finishing DEF LinkPerson
<1>4. CASE InsertLink(r)
  <2>1. req[r].user \in Users
    BY <1>2, <1>4, Places DEF InsertLink, At
  <2>2. Onward
    BY <1>1, <1>4, <2>1 DEF InsertLink, AccountsInv, AccountsTypeOK
  <2> QED BY <1>4, <2>1, <2>2, Places, Going DEF InsertLink
<1>5. CASE Unlink(r)
  <2>1. req[r].user \in Users
    BY <1>2, <1>5, Places DEF Unlink, At
  <2>2. Onward
    BY <1>1, <1>5, <2>1 DEF Unlink, AccountsInv, AccountsTypeOK
  <2> QED BY <1>5, <2>1, <2>2, Places, Going DEF Unlink
<1> QED BY <1>3, <1>4, <1>5

LEMMA LateKinds ==
  ASSUME AccountsInv, NEW u, NEW kinds \in SUBSET Kinds,
         Lately(u, kinds)
  PROVE  late' \in [Users -> SUBSET Kinds]
  BY DEF Lately, AccountsInv, AccountsTypeOK

LEMMA SessionWrites ==
  ASSUME AccountsInv, NEW r \in Handlers,
         \/ \E s \in Sessions : CreateSession(r, s) \/ Rotate(r, s)
         \/ LogoutSession(r) \/ DropSessions(r)
  PROVE  Onward /\ Turns(r)
<1> DEFINE x == req[r].user
<1>1. ASSUME session' \in [Sessions -> Users \cup {Nobody}],
             \A s \in Sessions : session'[s] \in {session[s], Nobody}
                                   \/ \A q \in Handlers : req[q].session # s,
             late' \in [Users -> SUBSET Kinds],
             bearers' \subseteq Users,
             UNCHANGED <<user, traces, link, device, marker, calls, breaks>>
      PROVE  Onward
  BY <1>1 DEF Onward, AccountsInv, AccountsTypeOK
<1>2. session \in [Sessions -> Users \cup {Nobody}] /\ bearers \subseteq Users
      /\ late \in [Users -> SUBSET Kinds]
  BY DEF AccountsInv, AccountsTypeOK
<1>3. ASSUME NEW s \in Sessions, CreateSession(r, s)
      PROVE  Onward /\ Turns(r)
  <2>1. x \in Users
    BY <1>3, Busy, Places DEF CreateSession, At
  <2>2. \A q \in Handlers : req[q].session # s
    BY <1>3, OneOfThem DEF CreateSession, FreshSession
  <2>3. late' \in [Users -> SUBSET Kinds]
    BY <1>3, LateKinds DEF CreateSession, Kinds
  <2>4. Onward
    BY <1>1, <1>2, <1>3, <2>1, <2>2, <2>3 DEF CreateSession
  <2> QED BY <1>3, <2>4, Finishing DEF CreateSession
<1>4. ASSUME NEW s \in Sessions, Rotate(r, s)
      PROVE  Onward /\ Turns(r)
  <2>1. x \in Users
    BY <1>4, Busy, Places DEF Rotate, At
  <2>2. \A q \in Handlers : req[q].session # s
    BY <1>4, OneOfThem DEF Rotate, FreshSession
  <2>3. late' \in [Users -> SUBSET Kinds]
    BY <1>4, LateKinds DEF Rotate, Kinds
  <2>4. Onward
    BY <1>1, <1>2, <1>4, <2>1, <2>2, <2>3 DEF Rotate, Rotated
  <2> QED BY <1>4, <2>4, Finishing DEF Rotate
<1>5. CASE LogoutSession(r)
  <2>1. Onward
    BY <1>1, <1>2, <1>5 DEF LogoutSession, people
  <2> QED BY <1>5, <2>1, Finishing DEF LogoutSession
<1>6. CASE DropSessions(r)
  <2>1. x \in Users
    BY <1>6, Busy, Places DEF DropSessions, At
  <2>2. Onward
    BY <1>1, <1>2, <1>6 DEF DropSessions, people
  <2> QED BY <1>6, <2>1, <2>2, Places, Going DEF DropSessions
<1> QED BY <1>3, <1>4, <1>5, <1>6

LEMMA MarkerWrites ==
  ASSUME AccountsInv, NEW r \in Handlers,
         (\E m \in Markers : MarkDeletion(r, m)) \/ SpendMarker(r)
  PROVE  Onward /\ Turns(r)
<1>1. ASSUME marker' \in [Markers -> Users \cup {Nobody}],
             UNCHANGED <<people, link, session, device, bearers, calls, breaks>>
      PROVE  Onward
  BY <1>1 DEF Onward, AccountsInv, AccountsTypeOK, people
<1>2. ASSUME NEW m \in Markers, MarkDeletion(r, m)
      PROVE  Onward /\ Turns(r)
  <2>1. Onward
    BY <1>1, <1>2 DEF MarkDeletion, LinkedTo, AccountsInv, AccountsTypeOK
  <2> QED BY <1>2, <2>1, Finishing DEF MarkDeletion
<1>3. CASE SpendMarker(r)
  <2>1. Onward
    BY <1>1, <1>3 DEF SpendMarker, AccountsInv, AccountsTypeOK
  <2> QED BY <1>3, <2>1, Places, Going, Busy DEF SpendMarker, At
<1> QED BY <1>2, <1>3

LEMMA DeviceWrites ==
  ASSUME AccountsInv, NEW r \in Handlers,
         LogoutDevice(r) \/ DropDevices(r) \/ PurgeDevices(r) \/ Register(r)
  PROVE  Onward /\ Turns(r)
<1> DEFINE x == req[r].user
<1>1. ASSUME device' \in [Devices -> Users \cup {Nobody}],
             late' \in [Users -> SUBSET Kinds],
             UNCHANGED <<user, traces, link, session, marker, bearers, calls, breaks>>
      PROVE  Onward
  BY <1>1 DEF Onward, AccountsInv, AccountsTypeOK
<1>2. device \in [Devices -> Users \cup {Nobody}]
      /\ late \in [Users -> SUBSET Kinds]
  BY DEF AccountsInv, AccountsTypeOK
<1>3. CASE LogoutDevice(r)
  <2>1. Onward
    BY <1>1, <1>2, <1>3 DEF LogoutDevice, people
  <2> QED BY <1>3, <2>1, Places, Going, Busy DEF LogoutDevice, At
<1>4. CASE DropDevices(r)
  <2>1. Onward
    BY <1>1, <1>2, <1>4 DEF DropDevices, WithoutDevices, people
  <2> QED BY <1>4, <2>1, Places, Going, Busy DEF DropDevices, At
<1>5. CASE PurgeDevices(r)
  <2>1. Onward
    BY <1>1, <1>2, <1>5 DEF PurgeDevices, WithoutDevices, people
  <2>2. x \in Users /\ user'[x].status \in Gone
    BY <1>5, Busy, Places DEF PurgeDevices, At, people
  <2> QED BY <1>5, <2>1, <2>2, Places, Going DEF PurgeDevices
<1>6. CASE Register(r)
  <2>1. x \in Users
    BY <1>6, Busy, Places DEF Register, At
  <2>2. late' \in [Users -> SUBSET Kinds]
    BY <1>6, LateKinds DEF Register, Kinds
  <2>3. Onward
    BY <1>1, <1>2, <1>6, <2>1, <2>2 DEF Register
  <2> QED BY <1>6, <2>3, Finishing DEF Register
<1> QED BY <1>3, <1>4, <1>5, <1>6

(* What the database says of a user. *)
TraceSteps(r) ==
  \/ DeleteAudiences(r) \/ AnonymizeRecipients(r) \/ AnonymizeActors(r) \/ DeleteStaff(r)
  \/ DeleteTeacher(r) \/ AnonymizeStudent(r) \/ DeleteMembers(r)

LEMMA TraceWrites ==
  ASSUME AccountsInv, NEW r \in Handlers,
         \/ TraceSteps(r) \/ Command(r) \/ AddStaff(r) \/ RemoveStaff(r)
         \/ MoveStudent(r) \/ TargetUser(r) \/ Rewrite(r)
  PROVE  Onward /\ Turns(r)
<1> DEFINE x == req[r].user
<1>1. ASSUME traces' \in [Users -> SUBSET Traces],
             late' \in [Users -> SUBSET Kinds],
             UNCHANGED <<user, keys, calls, breaks>>
      PROVE  Onward
  BY <1>1 DEF Onward, AccountsInv, AccountsTypeOK, keys
<1>2. traces \in [Users -> SUBSET Traces]
      /\ late \in [Users -> SUBSET Kinds]
  BY DEF AccountsInv, AccountsTypeOK
<1>3. ASSUME NEW kind, NEW next \in Pcs \ {"rotate"}, PurgeTrace(r, kind, next),
             kind \in Purging
      PROVE  Onward /\ Turns(r)
  <2>1. Onward
    BY <1>1, <1>2, <1>3 DEF PurgeTrace
  <2>2. x \in Users /\ user'[x].status \in Gone
    BY <1>3, Busy DEF PurgeTrace, At, Purging, WithUser
  <2> QED BY <1>3, <2>1, <2>2, Going DEF PurgeTrace
<1>4. CASE TraceSteps(r)
  BY <1>3, <1>4, Places
  DEF TraceSteps, DeleteAudiences, AnonymizeRecipients, AnonymizeActors, DeleteStaff,
      DeleteTeacher, AnonymizeStudent, DeleteMembers
<1>5. ASSUME NEW pc, NEW kind \in Traces, WriteTrace(r, pc, kind)
      PROVE  Onward /\ Turns(r)
  <2>1. late' \in [Users -> SUBSET Kinds]
    BY <1>5, LateKinds DEF WriteTrace, Kinds
  <2>2. Onward
    BY <1>1, <1>2, <1>5, <2>1 DEF WriteTrace
  <2> QED BY <1>5, <2>2, Finishing DEF WriteTrace
<1>6. {"actor", "staff", "student", "audience"} \subseteq Traces
  BY DEF Traces
<1>7. CASE Command(r) \/ MoveStudent(r) \/ TargetUser(r)
  BY <1>5, <1>6, <1>7 DEF Command, MoveStudent, TargetUser
<1>8. CASE AddStaff(r)
  BY <1>1, <1>2, <1>5, <1>6, <1>8, Finishing DEF AddStaff, people
<1>9. CASE RemoveStaff(r)
  <2>1. Onward
    BY <1>1, <1>2, <1>9 DEF RemoveStaff
  <2> QED BY <1>9, <2>1, Finishing DEF RemoveStaff
<1>10. CASE Rewrite(r)
  <2>0. x \in Users
    BY <1>10, Busy, Places DEF Rewrite, At
  <2>1. /\ x \in Users /\ user \in [Users -> User]
        /\ [user[x] EXCEPT !.named = TRUE] \in User
        /\ [user[x] EXCEPT !.named = TRUE].status = user[x].status
    <3>1. user \in [Users -> User] /\ user[x] \in User
      BY <2>0 DEF AccountsInv, AccountsTypeOK
    <3> QED BY <2>0, <3>1, Rows
  <2>2. CASE UNCHANGED people
    BY <1>1, <1>2, <1>10, <2>2, Finishing DEF Rewrite, people
  <2>3. ASSUME user' = [user EXCEPT ![x].named = TRUE], NEW kept \in SUBSET Traces,
               traces' = [traces EXCEPT ![x] = @ \cup kept], Lately(x, kept \cup {"name"})
        PROVE  Onward /\ Turns(r)
    <3>1. late' \in [Users -> SUBSET Kinds]
      BY <2>3, LateKinds DEF Kinds
    <3>2. traces' \in [Users -> SUBSET Traces]
      BY <1>2, <2>3
    <3>3. /\ user' = [user EXCEPT ![x] = [user[x] EXCEPT !.named = TRUE]]
          /\ user' \in [Users -> User]
          /\ \A u \in Users : user[u].status \in Gone => user'[u].status \in Gone
      BY <2>1, <2>3
    <3>4. UNCHANGED <<keys, calls, breaks>>
      BY <1>10 DEF Rewrite
    <3>5. Onward
      BY <3>1, <3>2, <3>3, <3>4 DEF Onward, AccountsInv, AccountsTypeOK, keys
    <3> QED BY <1>10, <3>5, Finishing DEF Rewrite
  <2>4. (IF x \in Students THEN {"student"} ELSE {}) \in SUBSET Traces
    BY <1>6
  <2> QED BY <1>10, <2>2, <2>3, <2>4 DEF Rewrite
<1> QED BY <1>4, <1>7, <1>8, <1>9, <1>10

-----------------------------------------------------------------------------
(* Requests that begin *)

LEMMA CallerSound ==
  ASSUME NEW u \in Users, NEW pc \in Pcs
  PROVE  /\ Caller(pc, u) \in Req
         /\ Caller(pc, u).pc = pc /\ Caller(pc, u).user = u
  BY NoRequest DEF Caller, NoReq, Req, Pcs

LEMMA CallerKey ==
  ASSUME NEW v \in Req,
         NEW k \in Sessions \cup Devices \cup Markers \cup {Nobody},
         NEW s \in Sessions \cup {Nobody}
  PROVE  /\ [v EXCEPT !.key = k] \in Req
         /\ [v EXCEPT !.key = k].pc = v.pc /\ [v EXCEPT !.key = k].user = v.user
         /\ [v EXCEPT !.session = s] \in Req
         /\ [v EXCEPT !.session = s].pc = v.pc /\ [v EXCEPT !.session = s].user = v.user
         /\ [v EXCEPT !.session = s].session = s
  BY DEF Req

(* A request starts where there was none. *)
Entries == {"find", "findMarked", "rotate", "spend", "outDevice", "outLatest", "register",
            "command", "assign", "revoke", "suspend", "restore", "purge", "edit", "move",
            "target"}
Starts(r) ==
  /\ r \in Handlers /\ Onward /\ Turns(r)
  /\ req[r] = NoReq /\ req'[r].pc \in Entries
  /\ UNCHANGED <<people, keys, breaks>>

LEMMA EntriesApart == Entries \cap Purging = {} /\ "idle" \notin Entries
  BY Places DEF Entries

LEMMA Starting ==
  ASSUME AccountsInv, calls < MaxCalls, NEW r, NEW v \in Req, Call(r, v),
         v.pc \in WithUser => v.user \in Users, v.pc \in Entries \ {"rotate"},
         UNCHANGED <<people, keys, breaks>>
  PROVE  Starts(r)
<1>1. r \in Handlers /\ Turns(r) /\ calls' \in 0 .. MaxCalls
  BY Calling, EntriesApart DEF Fits, Sound
<1>2. req[r] = NoReq /\ req'[r] = v
  BY <1>1, OneOfThem DEF Call, AccountsInv, AccountsTypeOK
<1>3. Onward
  BY <1>1, Untouched DEF AccountsInv, AccountsTypeOK
<1> QED BY <1>1, <1>2, <1>3 DEF Starts

LEMMA SignInBegins ==
  ASSUME AccountsInv, calls < MaxCalls, NEW r, NEW a \in Accounts, NEW c \in Clients,
         StartToken(r, a, c) \/ StartCampusToken(r, a, c) \/ StartDeleteToken(r, a, c)
  PROVE  Starts(r)
<1>1. PICK pc \in {"find", "findMarked"} : Exchanged(r, a, c, pc)
  BY DEF StartToken, StartCampusToken, StartDeleteToken
<1> DEFINE v == [NoReq EXCEPT !.pc = pc, !.account = a, !.client = c]
<1>2. v = [NoReq EXCEPT !.pc = pc, !.account = a, !.client = c] /\ v.pc = pc
  BY DEF NoReq
<1>3. v \in Req
  BY Places DEF NoReq, Req, Pcs
<1> QED BY <1>1, <1>2, <1>3, Starting, Places DEF Exchanged, Entries

LEMMA RefreshBegins ==
  ASSUME AccountsInv, calls < MaxCalls, NEW r, NEW s \in Sessions, StartRefresh(r, s)
  PROVE  Starts(r)
<1> DEFINE u == session[s]
           w == Caller("rotate", u)
           v == [w EXCEPT !.session = s]
<1>1. u \in Users
  BY DEF StartRefresh
<1>2. w \in Req /\ w.pc = "rotate" /\ w.user = u
  BY <1>1, CallerSound, Places
<1>3. Call(r, v) /\ UNCHANGED <<people, keys, breaks>>
  BY DEF StartRefresh
<1>4. v \in Req /\ v.pc = "rotate" /\ v.user = u /\ v.session = s
  <2> HIDE DEF w, u
  <2> QED BY <1>2, CallerKey
<1>5. Fits(v)
  BY <1>1, <1>3, <1>4, Places DEF Fits, Sound, keys
<1>6. r \in Handlers /\ Turns(r) /\ calls' \in 0 .. MaxCalls
  <2> HIDE DEF v
  <2> QED BY <1>3, <1>4, <1>5, Calling
<1>7. Onward
  BY <1>3, <1>6, Untouched DEF AccountsInv, AccountsTypeOK
<1>8. req[r] = NoReq /\ req'[r] = v
  BY <1>3, <1>6, OneOfThem DEF Call, AccountsInv, AccountsTypeOK
<1>9. v.pc \in Entries
  BY <1>4 DEF Entries
<1> HIDE DEF v
<1> QED BY <1>3, <1>6, <1>7, <1>8, <1>9 DEF Starts

LEMMA DeleteBegins ==
  ASSUME AccountsInv, calls < MaxCalls, NEW r, NEW m \in Markers, StartDelete(r, m)
  PROVE  Starts(r)
<1> DEFINE u == marker[m]
           w == Caller("spend", u)
           v == [w EXCEPT !.key = m]
<1>1. u \in Users /\ Call(r, v) /\ UNCHANGED <<people, keys, breaks>>
  BY DEF StartDelete
<1>2. w \in Req /\ w.pc = "spend" /\ w.user = u
  BY <1>1, CallerSound, Places
<1>3. v \in Req /\ v.pc = "spend" /\ v.user = u
  <2> HIDE DEF w, u
  <2> QED BY <1>2, CallerKey
<1> HIDE DEF v
<1> QED BY <1>1, <1>3, Starting, Places DEF Entries

LEMMA LogoutBegins ==
  ASSUME AccountsInv, calls < MaxCalls, NEW r, NEW u \in Users,
         NEW d \in Devices \cup {Nobody}, NEW s \in Sessions \cup {Nobody},
         StartLogout(r, u, d, s)
  PROVE  Starts(r)
<1>1. PICK pc \in {"outLatest", "outDevice"} :
        /\ Call(r, [Caller(pc, u) EXCEPT !.key = d, !.session = s])
        /\ UNCHANGED <<people, keys, breaks>>
  BY DEF StartLogout
<1> DEFINE w == Caller(pc, u)
           x == [w EXCEPT !.key = d]
           v == [x EXCEPT !.session = s]
<1>2. w \in Req /\ w.pc = pc /\ w.user = u
  BY CallerSound, Places
<1>3. x \in Req /\ x.pc = pc /\ x.user = u
  <2> HIDE DEF w
  <2> QED BY <1>2, CallerKey
<1>4. v \in Req /\ v.pc = pc /\ v.user = u
  <2> HIDE DEF x
  <2> QED BY <1>3, CallerKey
<1>5. Call(r, v)
  BY <1>1
<1> HIDE DEF v
<1> QED BY <1>1, <1>4, <1>5, Starting, Places DEF Entries

LEMMA RegisterBegins ==
  ASSUME AccountsInv, calls < MaxCalls, NEW r, NEW u \in Users, NEW d \in Devices,
         StartRegister(r, u, d)
  PROVE  Starts(r)
<1> DEFINE w == Caller("register", u)
           v == [w EXCEPT !.key = d]
<1>1. Call(r, v) /\ UNCHANGED <<people, keys, breaks>>
  BY DEF StartRegister
<1>2. w \in Req /\ w.pc = "register" /\ w.user = u
  BY CallerSound, Places
<1>3. v \in Req /\ v.pc = "register" /\ v.user = u
  <2> HIDE DEF w
  <2> QED BY <1>2, CallerKey
<1> HIDE DEF v
<1> QED BY <1>1, <1>3, Starting, Places DEF Entries

LEMMA StaffBegins ==
  ASSUME AccountsInv, calls < MaxCalls, NEW r, NEW u \in Users,
         \/ StartCommand(r, u)
         \/ \E o \in Users : \/ StartAssign(r, o, u) \/ StartRevoke(r, o, u)
                            \/ StartSuspend(r, o, u) \/ StartRestore(r, o, u)
                            \/ StartEdit(r, o, u) \/ StartMove(r, o, u)
                            \/ StartTarget(r, o, u)
  PROVE  Starts(r)
<1>1. PICK pc \in {"command", "assign", "revoke", "suspend", "restore", "edit", "move", "target"} :
        Call(r, Caller(pc, u)) /\ UNCHANGED <<people, keys, breaks>>
  BY DEF StartCommand, StartAssign, StartRevoke, StartSuspend, StartRestore, StartEdit,
         StartMove, StartTarget, StaffCall
<1>2. Caller(pc, u) \in Req /\ Caller(pc, u).pc = pc /\ Caller(pc, u).user = u
  BY CallerSound, Places
<1> QED BY <1>1, <1>2, Starting, Places DEF Entries

LEMMA Begins ==
  ASSUME AccountsInv, calls < MaxCalls, NEW r \in Callers, Begin(r)
  PROVE  Starts(r)
  BY SignInBegins, RefreshBegins, DeleteBegins, LogoutBegins, RegisterBegins, StaffBegins
  DEF Begin

LEMMA PurgeBegins ==
  ASSUME AccountsInv, NEW u \in Users, StartPurge(u)
  PROVE  Starts(Nightly)
<1>1. Onward
  BY Untouched DEF StartPurge, AccountsInv, AccountsTypeOK
<1>2. Caller("purge", u) \in Req /\ Caller("purge", u).pc = "purge"
      /\ Caller("purge", u).user = u
  BY CallerSound, Places
<1>3. Fits(Caller("purge", u))
  BY <1>2, Places DEF Fits, Sound
<1>4. Nightly \in Handlers /\ Turns(Nightly)
  BY <1>2, <1>3 DEF StartPurge, Turns, Turn, Handlers
<1>5. req'[Nightly].pc = "purge"
  BY <1>2, <1>4 DEF StartPurge, AccountsInv, AccountsTypeOK
<1> QED BY <1>1, <1>4, <1>5 DEF StartPurge, Starts, Entries

-----------------------------------------------------------------------------
(* The invariant *)

LEMMA Proceeds ==
  ASSUME AccountsInv, NEW r \in Handlers, Proceed(r)
  PROVE  Onward /\ Turns(r)
<1>1. CASE SignIn(r)
  BY <1>1, SignInReads, UserWrites, LinkWrites, SessionWrites, MarkerWrites DEF SignIn
<1>2. CASE SignOut(r)
  BY <1>2, OtherReads, SessionWrites, DeviceWrites DEF SignOut
<1>3. CASE Delete(r)
  BY <1>3, UserWrites, LinkWrites, SessionWrites, MarkerWrites, DeviceWrites DEF Delete
<1>4. CASE Manage(r)
  BY <1>4, OtherReads, UserWrites, DeviceWrites, TraceWrites DEF Manage
<1>5. CASE PurgeStep(r)
  BY <1>5, OtherReads, UserWrites, DeviceWrites, TraceWrites DEF PurgeStep, TraceSteps
<1>6. CASE Break(r)
  BY <1>6, OtherReads
<1> QED BY <1>1, <1>2, <1>3, <1>4, <1>5, <1>6 DEF Proceed

(* A session expires, a member is added. *)
LEMMA Elsewhere ==
  ASSUME AccountsInv,
         (\E s \in Sessions : SessionExpires(s)) \/ (\E u \in Users : Joins(u))
  PROVE  Onward /\ UNCHANGED <<user, device, req>>
<1>1. ASSUME NEW s \in Sessions, SessionExpires(s)
      PROVE  Onward /\ UNCHANGED <<user, device, req>>
  BY <1>1 DEF SessionExpires, Onward, AccountsInv, AccountsTypeOK, people
<1>2. ASSUME NEW u \in Users, Joins(u)
      PROVE  Onward /\ UNCHANGED <<user, device, req>>
  <2>1. calls' \in 0 .. MaxCalls
    BY <1>2, AccountsConstants DEF Joins, AddMember, AddRecipient, AccountsInv, AccountsTypeOK
  <2> QED BY <1>2, <2>1
    DEF Joins, AddMember, AddRecipient, Onward, AccountsInv, AccountsTypeOK, keys, Traces
<1> QED BY <1>1, <1>2

LEMMA Waited ==
  ASSUME AccountsInv, Onward, UNCHANGED req
  PROVE  AccountsInv'
<1>1. ASSUME NEW q \in Handlers
      PROVE  /\ Sound(req[q])
             /\ req[q].pc \in Purging => user'[req[q].user].status \in Gone
             /\ req[q].pc = "rotate" => session'[req[q].session] \in {req[q].user, Nobody}
  BY Busy DEF AccountsInv, Onward, Sound, Purging, WithUser
<1>2. AccountsTypeOK'
  BY DEF Onward, AccountsInv, AccountsTypeOK
<1>3. (\A r \in Handlers : Sound(req[r]))'
  BY <1>1 DEF Sound
<1> QED BY <1>1, <1>2, <1>3 DEF AccountsInv, PurgesGone, RotatesOwn

LEMMA SomeNext ==
  ASSUME AccountsInv, AccountsNext
  PROVE  \/ Onward /\ UNCHANGED req
         \/ \E r \in Handlers : Onward /\ Turns(r)
  BY Begins, PurgeBegins, Proceeds, Elsewhere DEF AccountsNext, Joins, Starts

LEMMA AccountsStep ==
  ASSUME AccountsInv, [AccountsNext]_accountsVars
  PROVE  AccountsInv'
<1>1. CASE AccountsNext
  BY <1>1, SomeNext, Stepped, Waited
<1>2. CASE UNCHANGED accountsVars
  <2>1. Onward /\ UNCHANGED req
    BY <1>2, Untouched DEF accountsVars, AccountsInv, AccountsTypeOK
  <2> QED BY <2>1, Waited
<1> QED BY <1>1, <1>2

LEMMA AccountsStart ==
  ASSUME AccountsInit
  PROVE  AccountsInv
<1>1. user \in [Users -> User]
  BY DEF AccountsInit, User, NoUser
<1>2. traces \in [Users -> SUBSET Traces] /\ late \in [Users -> SUBSET Kinds]
  BY DEF AccountsInit, Traces
<1>3. /\ link \in [Accounts -> Users \cup {Nobody}]
      /\ session \in [Sessions -> Users \cup {Nobody}]
      /\ device \in [Devices -> Users \cup {Nobody}]
      /\ marker \in [Markers -> Users \cup {Nobody}]
      /\ bearers \subseteq Users
  BY AccountsConstants DEF AccountsInit
<1>4. req = [r \in Handlers |-> NoReq] /\ calls \in 0 .. MaxCalls /\ breaks \in Nat
  BY AccountsConstants DEF AccountsInit
<1>5. AccountsTypeOK
  BY <1>1, <1>2, <1>3, <1>4, NoRequest DEF AccountsTypeOK
<1>6. \A r \in Handlers : Sound(req[r]) /\ req[r].pc = "idle"
  BY <1>4, NoRequest DEF Sound
<1> QED BY <1>5, <1>6, NoRequest DEF AccountsInv, PurgesGone, RotatesOwn

(* Rows and requests are well typed, and requests know whom they are about:  *)
(* the types of the tables, and of the values handlers carry between awaits. *)
THEOREM AccountsTyped == AccountsSpec => []AccountsTypeOK
<1>1. AccountsSpec => []AccountsInv
  BY AccountsStart, AccountsStep, PTL DEF AccountsSpec
<1>2. AccountsInv => AccountsTypeOK
  BY DEF AccountsInv
<1> QED BY <1>1, <1>2, PTL

-----------------------------------------------------------------------------
(* What the steps write, seen from the rows *)

WritesUser(r) ==
  \/ UpdateUser(r) \/ (\E u \in Users : CreateUser(r, u)) \/ UndoUser(r)
  \/ MarkDeleted(r) \/ AnonymizeUser(r) \/ MarkPurged(r) \/ Suspend(r) \/ Restore(r)
WritesTraces(r) ==
  \/ TraceSteps(r) \/ Command(r) \/ AddStaff(r) \/ RemoveStaff(r)
  \/ MoveStudent(r) \/ TargetUser(r)

LEMMA OnlyTheyWrite ==
  ASSUME AccountsInv, AccountsNext
  PROVE  \/ UNCHANGED <<user, traces>>
         \/ \E u \in Users : Joins(u)
         \/ \E r \in Handlers : WritesUser(r) \/ WritesTraces(r) \/ Rewrite(r)
<1>1. ASSUME NEW r \in Handlers, Proceed(r)
      PROVE  UNCHANGED <<user, traces>> \/ WritesUser(r) \/ WritesTraces(r) \/ Rewrite(r)
  <2>1. CASE SignIn(r)
    BY <2>1
    DEF SignIn, WritesUser, FindLinked, CheckLinked, FindPerson, LinkPerson,
        LinkErrorSwallowed, FindRaced, InsertLink, LinkBroken, FindRacedUser, GateLogin,
        CreateSession, MarkDeletion, people
  <2>2. CASE SignOut(r)
    BY <2>2 DEF SignOut, Rotate, LogoutDevice, LogoutDeviceFails, LogoutSelect,
                LogoutSession, people
  <2>3. CASE Delete(r)
    BY <2>3 DEF Delete, WritesUser, SpendMarker, Unlink, DropSessions, DropDevices, people
  <2>4. CASE Manage(r)
    BY <2>4 DEF Manage, WritesUser, WritesTraces, Register, EnsureAssigned, EnsureRevoked,
                EnsureUser, FindEdited, people
  <2>5. CASE PurgeStep(r)
    BY <2>5 DEF PurgeStep, WritesUser, WritesTraces, TraceSteps, PurgeCheck, ReadDevices,
                PurgeDevices, people
  <2>6. CASE Break(r)
    BY <2>6 DEF Break, people
  <2> QED BY <1>1, <2>1, <2>2, <2>3, <2>4, <2>5, <2>6 DEF Proceed
<1>2. \A s \in Sessions : SessionExpires(s) => UNCHANGED <<user, traces>>
  BY DEF SessionExpires, people
<1> QED BY <1>1, <1>2, Begins, PurgeBegins DEF AccountsNext, Joins, Starts, people

(* A users row, and what happened to it. *)
Rewritten(r, u) ==
  /\ \A v \in Users \ {u} : user'[v] = user[v]
  /\ \/ /\ Active(u)
        /\ user'[u] = [user[u] EXCEPT !.named = TRUE]
     \/ /\ At(r, "create") /\ user[u].status = "none"
        /\ user'[u] = [status |-> "active", live |-> TRUE, purged |-> FALSE,
                       named |-> TRUE, by |-> req[r].account]
        /\ GotoFor(r, "insertLink", u)
     \/ /\ At(r, "undo") /\ req[r].user = u /\ ~Held(u)
        /\ user'[u] = [NoUser EXCEPT !.status = "undone"]
     \/ /\ At(r, "mark") /\ req[r].user = u /\ Goto(r, "dropSessions")
        /\ user'[u] = [user[u] EXCEPT !.status = "deleted"]
     \/ /\ At(r, "name") /\ req[r].user = u
        /\ user'[u] = [user[u] EXCEPT !.named = FALSE]
     \/ /\ At(r, "markPurged") /\ req[r].user = u
        /\ user'[u] = [user[u] EXCEPT !.purged = (user[u].status = "deleted")]
     \/ /\ Active(u) /\ OtherActiveStaff(u)
        /\ user'[u] = [user[u] EXCEPT !.live = FALSE]
     \/ /\ Active(u)
        /\ user'[u] = [user[u] EXCEPT !.live = TRUE]

LEMMA UserForms ==
  ASSUME AccountsInv, NEW r \in Handlers, WritesUser(r)
  PROVE  /\ UNCHANGED <<traces, late, keys>>
         /\ UNCHANGED user \/ \E u \in Users : Rewritten(r, u)
<1> DEFINE x == req[r].user
<1>1. user \in [Users -> User] /\ (req[r].pc \in WithUser => x \in Users)
  BY Busy DEF AccountsInv, AccountsTypeOK
<1>2. UNCHANGED <<traces, late, keys>>
  BY DEF WritesUser, UpdateUser, CreateUser, UndoUser, MarkDeleted, AnonymizeUser, MarkPurged,
         Suspend, Restore
<1>3. CASE UpdateUser(r)
  BY <1>1, <1>2, <1>3, Places DEF UpdateUser, Updatable, Rewritten, At
<1>4. ASSUME NEW u \in Users, CreateUser(r, u)
      PROVE  Rewritten(r, u)
  BY <1>1, <1>4, OneOfThem DEF CreateUser, FreshUser, Rewritten
<1>5. CASE UndoUser(r)
  BY <1>1, <1>2, <1>5, Places DEF UndoUser, TakenBack, Rewritten, At
<1>6. CASE MarkDeleted(r)
  BY <1>1, <1>2, <1>6, Places DEF MarkDeleted, Rewritten, At
<1>7. CASE AnonymizeUser(r)
  BY <1>1, <1>2, <1>7, Places DEF AnonymizeUser, Rewritten, At
<1>8. CASE MarkPurged(r)
  BY <1>1, <1>2, <1>8, Places DEF MarkPurged, Rewritten, At
<1>9. CASE Suspend(r)
  BY <1>1, <1>2, <1>9, Places DEF Suspend, Rewritten, At
<1>10. CASE Restore(r)
  BY <1>1, <1>2, <1>10, Places DEF Restore, Rewritten, At
<1> QED BY <1>2, <1>3, <1>4, <1>5, <1>6, <1>7, <1>8, <1>9, <1>10 DEF WritesUser

(* The rows about a user, and what happened to them. *)
Traced(r, u) ==
  /\ \A v \in Users \ {u} : traces'[v] = traces[v]
  /\ \/ \E kind \in Purging, next \in Purging :
          req[r].user = u /\ PurgeTrace(r, kind, next)
     \/ \E kind \in Traces : /\ traces'[u] = traces[u] \cup {kind}
                            /\ Lately(u, {kind})
     \/ /\ OtherActiveStaff(u) /\ UNCHANGED late
        /\ traces'[u] = traces[u] \ {"staff"}

LEMMA TraceForms ==
  ASSUME AccountsInv, NEW r \in Handlers, WritesTraces(r)
  PROVE  /\ UNCHANGED <<user, keys>>
         /\ UNCHANGED <<traces, late>> \/ \E u \in Users : Traced(r, u)
<1> DEFINE x == req[r].user
<1>1. traces \in [Users -> SUBSET Traces] /\ (req[r].pc \in WithUser => x \in Users)
  BY Busy DEF AccountsInv, AccountsTypeOK
<1>2. ASSUME NEW kind \in Purging, NEW next \in Purging, PurgeTrace(r, kind, next)
      PROVE  UNCHANGED <<user, keys>> /\ x \in Users /\ Traced(r, x)
  BY <1>1, <1>2 DEF PurgeTrace, Traced, At, Purging, WithUser
<1>3. CASE TraceSteps(r)
  BY <1>2, <1>3, Places
  DEF TraceSteps, DeleteAudiences, AnonymizeRecipients, AnonymizeActors, DeleteStaff,
      DeleteTeacher, AnonymizeStudent, DeleteMembers
<1>4. ASSUME NEW pc \in WithUser, NEW kind \in Traces, WriteTrace(r, pc, kind)
      PROVE  UNCHANGED <<user, keys>> /\ x \in Users /\ Traced(r, x)
  BY <1>1, <1>4 DEF WriteTrace, Traced, At
<1>5. {"actor", "staff", "student", "audience"} \subseteq Traces
  BY DEF Traces
<1>6. CASE Command(r) \/ AddStaff(r) \/ MoveStudent(r) \/ TargetUser(r)
  BY <1>4, <1>5, <1>6, Places DEF Command, AddStaff, MoveStudent, TargetUser, people
<1>7. CASE RemoveStaff(r)
  BY <1>1, <1>7, Places DEF RemoveStaff, Traced, At
<1> QED BY <1>3, <1>6, <1>7 DEF WritesTraces

(* Both at once: a person as an admin gives it. *)
Renamed(u) ==
  /\ \A v \in Users \ {u} : user'[v] = user[v] /\ traces'[v] = traces[v]
  /\ user'[u] = [user[u] EXCEPT !.named = TRUE]
  /\ \E kept \in SUBSET Traces : /\ traces'[u] = traces[u] \cup kept
                               /\ Lately(u, kept \cup {"name"})

LEMMA RewriteForms ==
  ASSUME AccountsInv, NEW r \in Handlers, Rewrite(r)
  PROVE  UNCHANGED keys /\ (UNCHANGED people \/ \E u \in Users : Renamed(u))
<1> DEFINE x == req[r].user
<1>1. /\ traces \in [Users -> SUBSET Traces] /\ user \in [Users -> User] /\ x \in Users
      /\ {"student"} \in SUBSET Traces /\ {} \in SUBSET Traces
  BY Busy, Places DEF Rewrite, At, AccountsInv, AccountsTypeOK, Traces
<1>2. ASSUME user' = [user EXCEPT ![x].named = TRUE], NEW kept \in SUBSET Traces,
             traces' = [traces EXCEPT ![x] = @ \cup kept], Lately(x, kept \cup {"name"})
      PROVE  Renamed(x)
  BY <1>1, <1>2 DEF Renamed
<1>3. UNCHANGED people \/ Renamed(x)
  BY <1>1, <1>2 DEF Rewrite
<1> QED BY <1>1, <1>3 DEF Rewrite

-----------------------------------------------------------------------------
(* The last active member of staff *)

LEMMA StaffKept ==
  ASSUME AccountsInv, AccountsNext, ActiveStaff # {}, ActiveStaff' = {}
  PROVE  \E u \in ActiveStaff : user'[u].status = "deleted"
<1>1. user \in [Users -> User] /\ traces \in [Users -> SUBSET Traces]
  BY DEF AccountsInv, AccountsTypeOK
<1>2. PICK v \in ActiveStaff : TRUE
  OBVIOUS
<1>3. ASSUME NEW u \in Users, OtherActiveStaff(u)
      PROVE  \E w \in ActiveStaff : w # u
  BY <1>3 DEF OtherActiveStaff
<1>4. CASE UNCHANGED <<user, traces>>
  BY <1>2, <1>4 DEF ActiveStaff, Active, IsStaff
<1>5. ASSUME NEW u \in Users, Joins(u)
      PROVE  FALSE
  BY <1>1, <1>2, <1>5 DEF Joins, AddMember, AddRecipient, ActiveStaff, Active, IsStaff
<1>6. ASSUME NEW r \in Handlers, WritesUser(r)
      PROVE  \E u \in ActiveStaff : user'[u].status = "deleted"
  <2>1. UNCHANGED traces /\ (UNCHANGED user \/ \E u \in Users : Rewritten(r, u))
    BY <1>6, UserForms
  <2>2. CASE UNCHANGED user
    BY <1>4, <2>1, <2>2
  <2>3. ASSUME NEW u \in Users, Rewritten(r, u)
        PROVE  \E w \in ActiveStaff : user'[w].status = "deleted"
    <3>1. \A w \in ActiveStaff : w = u
      BY <2>1, <2>3 DEF Rewritten, ActiveStaff, Active, IsStaff
    <3>2. v = u /\ Active(u) /\ user[u].live /\ IsStaff(u) /\ ~OtherActiveStaff(u)
      BY <1>2, <1>3, <3>1 DEF ActiveStaff
    <3>3. ~(user'[u].status = "active" /\ user'[u].live)
      BY <2>1, <3>2 DEF ActiveStaff, Active, IsStaff
    <3>4. user[u] \in User /\ ~(user[u].status = "none") /\ Held(u)
      BY <1>1, <3>2 DEF Active, IsStaff, Held
    <3> QED BY <1>2, <2>3, <3>2, <3>3, <3>4 DEF Rewritten, User, Active
  <2> QED BY <2>1, <2>2, <2>3
<1>7. ASSUME NEW r \in Handlers, WritesTraces(r)
      PROVE  FALSE
  <2>1. UNCHANGED user /\ (UNCHANGED traces \/ \E u \in Users : Traced(r, u))
    BY <1>7, TraceForms
  <2>2. CASE UNCHANGED traces
    BY <1>2, <2>1, <2>2 DEF ActiveStaff, Active, IsStaff
  <2>3. ASSUME NEW u \in Users, Traced(r, u)
        PROVE  FALSE
    <3>1. \A w \in ActiveStaff : w = u
      BY <2>1, <2>3 DEF Traced, ActiveStaff, Active, IsStaff
    <3>2. v = u /\ Active(u) /\ user[u].live /\ IsStaff(u) /\ ~OtherActiveStaff(u)
      BY <1>2, <1>3, <3>1 DEF ActiveStaff
    <3>3. "staff" \notin traces'[u]
      BY <2>1, <3>2 DEF ActiveStaff, Active, IsStaff
    <3>4. \E kind \in Purging : req[r].user = u /\ At(r, kind)
      BY <2>3, <3>2, <3>3 DEF Traced, PurgeTrace, IsStaff
    <3>5. user[u].status \in Gone
      BY <3>4, Busy DEF At
    <3> QED BY <3>2, <3>5 DEF Active, Gone
  <2> QED BY <2>1, <2>2, <2>3
<1>8. ASSUME NEW r \in Handlers, Rewrite(r)
      PROVE  FALSE
  <2>1. ASSUME NEW u \in Users, Renamed(u)
        PROVE  /\ user'[v].status = user[v].status /\ user'[v].live = user[v].live
               /\ traces[v] \subseteq traces'[v]
    BY <1>1, <1>2, <2>1 DEF Renamed, User, ActiveStaff
  <2>2. CASE UNCHANGED people
    BY <1>2, <2>2 DEF ActiveStaff, Active, IsStaff, people
  <2> QED BY <1>2, <1>8, <2>1, <2>2, RewriteForms DEF ActiveStaff, Active, IsStaff
<1> QED BY <1>4, <1>5, <1>6, <1>7, <1>8, OnlyTheyWrite

(* Revocations and suspensions alone never leave the application without an   *)
(* active member of staff: the conditional DELETE and UPDATE of StaffService  *)
(* and UserStatusService, however many of them run at once. *)
THEOREM StaffRemains == AccountsSpec => SomeStaffRemains
<1>1. AccountsSpec => []AccountsInv
  BY AccountsStart, AccountsStep, PTL DEF AccountsSpec
<1>2. AccountsInv /\ [AccountsNext]_accountsVars
      => [ActiveStaff # {} /\ ActiveStaff' = {} =>
            \E u \in ActiveStaff : user'[u].status = "deleted"]_accountsVars
  BY StaffKept
<1> QED BY <1>1, <1>2, PTL DEF AccountsSpec, SomeStaffRemains

-----------------------------------------------------------------------------
(* Sessions and devices of others *)

OwnKeys(r) ==
  /\ \A s \in Sessions :
       session[s] # Nobody /\ session'[s] # session[s] => session[s] = req[r].user
  /\ \A d \in Devices :
       device[d] # Nobody /\ device'[d] = Nobody => device[d] = req[r].user

LEMMA OwnKeysOnly ==
  ASSUME AccountsInv, NEW r \in Handlers, Proceed(r)
  PROVE  OwnKeys(r)
<1>1. /\ session \in [Sessions -> Users \cup {Nobody}]
      /\ device \in [Devices -> Users \cup {Nobody}]
  BY DEF AccountsInv, AccountsTypeOK
<1>2. CASE UNCHANGED <<session, device>>
  BY <1>2 DEF OwnKeys
<1>3. CASE SignIn(r)
  <2>1. ASSUME NEW s \in Sessions, CreateSession(r, s)
        PROVE  OwnKeys(r)
    <3>1. session[s] = Nobody
      BY <2>1, OneOfThem DEF CreateSession, FreshSession
    <3> QED BY <1>1, <2>1, <3>1 DEF CreateSession, OwnKeys
  <2>2. UNCHANGED <<session, device>> \/ \E s \in Sessions : CreateSession(r, s)
    BY <1>3
    DEF SignIn, FindLinked, CheckLinked, UpdateUser, FindPerson, LinkPerson,
        LinkErrorSwallowed, FindRaced, CreateUser, InsertLink, LinkBroken, UndoUser,
        FindRacedUser, GateLogin, MarkDeletion, keys
  <2> QED BY <1>2, <2>1, <2>2
<1>4. CASE SignOut(r)
  <2>1. ASSUME NEW s \in Sessions, Rotate(r, s)
        PROVE  OwnKeys(r)
    <3>1. session[s] = Nobody
      BY <2>1, OneOfThem DEF Rotate, FreshSession
    <3>2. req[r].session \in Sessions /\ session[req[r].session] \in {req[r].user, Nobody}
      BY <2>1, Busy DEF Rotate, At
    <3> QED BY <1>1, <2>1, <3>1, <3>2 DEF Rotate, Rotated, OwnKeys
  <2>2. CASE LogoutDevice(r)
    BY <1>1, <2>2 DEF LogoutDevice, OwnDevice, OwnKeys
  <2>3. CASE LogoutSession(r)
    BY <1>1, <2>3 DEF LogoutSession, OwnKeys
  <2>4. CASE LogoutDeviceFails(r) \/ LogoutSelect(r)
    BY <1>2, <2>4 DEF LogoutDeviceFails, LogoutSelect, keys
  <2> QED BY <1>4, <2>1, <2>2, <2>3, <2>4 DEF SignOut
<1>5. CASE Delete(r)
  <2>1. CASE DropSessions(r)
    BY <1>1, <2>1 DEF DropSessions, OwnKeys
  <2>2. CASE DropDevices(r)
    BY <1>1, <2>2 DEF DropDevices, WithoutDevices, OwnKeys
  <2>3. CASE SpendMarker(r) \/ Unlink(r) \/ MarkDeleted(r)
    BY <1>2, <2>3 DEF SpendMarker, Unlink, MarkDeleted, keys
  <2> QED BY <1>5, <2>1, <2>2, <2>3 DEF Delete
<1>6. CASE Manage(r)
  <2>1. CASE Register(r)
    <3>1. req[r].user \in Users
      BY <2>1, Busy, Places DEF Register, At
    <3> QED BY <1>1, <2>1, <3>1, AccountsConstants DEF Register, OwnKeys
  <2>2. UNCHANGED <<session, device>> \/ Register(r)
    BY <1>6 DEF Manage, Command, AddStaff, WriteTrace, RemoveStaff, EnsureAssigned,
                EnsureRevoked, EnsureUser, Suspend, Restore, FindEdited, Rewrite,
                MoveStudent, TargetUser, keys
  <2> QED BY <1>2, <2>1, <2>2
<1>7. CASE PurgeStep(r)
  <2>1. CASE PurgeDevices(r)
    BY <1>1, <2>1 DEF PurgeDevices, WithoutDevices, OwnKeys
  <2>2. UNCHANGED <<session, device>> \/ PurgeDevices(r)
    BY <1>7
    DEF PurgeStep, PurgeCheck, AnonymizeUser, ReadDevices, DeleteAudiences, MarkPurged,
        AnonymizeRecipients, AnonymizeActors, DeleteStaff, DeleteTeacher, AnonymizeStudent,
        DeleteMembers, PurgeTrace, keys
  <2> QED BY <1>2, <2>1, <2>2
<1>8. CASE Break(r)
  BY <1>2, <1>8 DEF Break, keys
<1> QED BY <1>3, <1>4, <1>5, <1>6, <1>7, <1>8 DEF Proceed

(* The step of a request leaves every other request where it was. *)
LEMMA OneTurn ==
  ASSUME AccountsInv, NEW r \in Handlers, Turns(r), NEW q \in Handlers, req'[q] # req[q]
  PROVE  q = r
  BY DEF Turns, Turn, AccountsInv, AccountsTypeOK

LEMMA OthersKept ==
  ASSUME AccountsInv, AccountsNext, NEW q \in Handlers, req'[q] # req[q]
  PROVE  OwnKeys(q)
<1>1. ASSUME NEW r \in Handlers, Proceed(r)
      PROVE  OwnKeys(q)
  BY <1>1, OwnKeysOnly, Proceeds, OneTurn
<1>2. ASSUME UNCHANGED <<people, keys>>
      PROVE  OwnKeys(q)
  BY <1>2 DEF keys, OwnKeys
<1> QED BY <1>1, <1>2, Begins, PurgeBegins, Elsewhere DEF AccountsNext, Joins, Starts

(* The ids a logout or a deletion was given may have passed to another user:   *)
(* every DELETE repeats whose row it is about. *)
THEOREM OthersAreUntouched == AccountsSpec => OthersUntouched
<1>1. AccountsSpec => []AccountsInv
  BY AccountsStart, AccountsStep, PTL DEF AccountsSpec
<1>2. AccountsInv /\ [AccountsNext]_accountsVars
      => [\A r \in Handlers : req'[r] # req[r] =>
            /\ \A s \in Sessions :
                 session[s] # Nobody /\ session'[s] # session[s] => session[s] = req[r].user
            /\ \A d \in Devices :
                 device[d] # Nobody /\ device'[d] = Nobody => device[d] = req[r].user
         ]_accountsVars
  BY OthersKept DEF OwnKeys
<1> QED BY <1>1, <1>2, PTL DEF AccountsSpec, OthersUntouched

-----------------------------------------------------------------------------
(* What a purge leaves *)

(* How the history, the keys and the count of breaks may change. *)
KeysOnward(r) ==
  /\ UNCHANGED late \/ \E u \in Users, kinds \in SUBSET Kinds : Lately(u, kinds)
  /\ \A d \in Devices : \/ device'[d] \in {device[d], Nobody}
                        \/ device'[d] = req[r].user /\ Lately(req[r].user, {"device"})
  /\ \A s \in Sessions : \/ session'[s] \in {session[s], Nobody}
                         \/ session'[s] = req[r].user /\ Lately(req[r].user, {"session"})
  /\ breaks' \in {breaks, breaks + 1}

LEMMA KeysGoOn ==
  ASSUME AccountsInv, NEW r \in Handlers, Proceed(r)
  PROVE  KeysOnward(r)
<1>1. /\ session \in [Sessions -> Users \cup {Nobody}]
      /\ device \in [Devices -> Users \cup {Nobody}]
      /\ req[r].pc \in WithUser => req[r].user \in Users
  BY Busy DEF AccountsInv, AccountsTypeOK
<1>2. CASE UNCHANGED <<late, session, device>> /\ breaks' \in {breaks, breaks + 1}
  BY <1>2 DEF KeysOnward
<1>3. CASE SignIn(r)
  <2>1. ASSUME NEW s \in Sessions, CreateSession(r, s)
        PROVE  KeysOnward(r)
    BY <1>1, <2>1, Places DEF CreateSession, KeysOnward, Kinds, At
  <2>2. \/ \E s \in Sessions : CreateSession(r, s)
        \/ UNCHANGED <<late, session, device>> /\ breaks' \in {breaks, breaks + 1}
    BY <1>3
    DEF SignIn, FindLinked, CheckLinked, UpdateUser, FindPerson, LinkPerson,
        LinkErrorSwallowed, FindRaced, CreateUser, InsertLink, LinkBroken, UndoUser,
        FindRacedUser, GateLogin, MarkDeletion, people, keys
  <2> QED BY <1>2, <2>1, <2>2
<1>4. CASE SignOut(r)
  <2>1. ASSUME NEW s \in Sessions, Rotate(r, s)
        PROVE  KeysOnward(r)
    BY <1>1, <2>1, Places DEF Rotate, Rotated, KeysOnward, Kinds, At
  <2>2. CASE LogoutDevice(r)
    BY <1>1, <2>2 DEF LogoutDevice, KeysOnward, people
  <2>3. CASE LogoutSession(r)
    BY <1>1, <2>3 DEF LogoutSession, KeysOnward, people
  <2>4. CASE LogoutDeviceFails(r) \/ LogoutSelect(r)
    BY <1>2, <2>4 DEF LogoutDeviceFails, LogoutSelect, people, keys
  <2> QED BY <1>4, <2>1, <2>2, <2>3, <2>4 DEF SignOut
<1>5. CASE Delete(r)
  <2>1. CASE DropSessions(r)
    BY <1>1, <2>1 DEF DropSessions, KeysOnward, people
  <2>2. CASE DropDevices(r)
    BY <1>1, <2>2 DEF DropDevices, WithoutDevices, KeysOnward, people
  <2>3. CASE SpendMarker(r) \/ Unlink(r) \/ MarkDeleted(r)
    BY <1>2, <2>3 DEF SpendMarker, Unlink, MarkDeleted, people, keys
  <2> QED BY <1>5, <2>1, <2>2, <2>3 DEF Delete
<1>6. CASE Manage(r)
  <2>1. CASE Register(r)
    BY <1>1, <2>1, Places DEF Register, KeysOnward, Kinds, At
  <2>2. ASSUME NEW pc \in WithUser, NEW kind \in Traces, WriteTrace(r, pc, kind)
        PROVE  KeysOnward(r)
    BY <1>1, <2>2 DEF WriteTrace, KeysOnward, Kinds, At, keys
  <2>3. CASE Command(r) \/ AddStaff(r) \/ MoveStudent(r) \/ TargetUser(r)
    <3>1. {"actor", "staff", "student", "audience"} \subseteq Traces
      BY DEF Traces
    <3> QED BY <1>2, <2>2, <2>3, <3>1, Places
            DEF Command, AddStaff, MoveStudent, TargetUser, people, keys
  <2>4. CASE Rewrite(r)
    <3>1. UNCHANGED <<session, device, breaks>>
      BY <2>4 DEF Rewrite, keys
    <3>2. UNCHANGED late \/ \E u \in Users, kinds \in SUBSET Kinds : Lately(u, kinds)
      BY <2>4, RewriteForms DEF Renamed, Kinds, people
    <3> QED BY <3>1, <3>2 DEF KeysOnward
  <2>5. \/ UNCHANGED <<late, session, device>> /\ breaks' \in {breaks, breaks + 1}
        \/ Register(r) \/ Command(r) \/ AddStaff(r) \/ MoveStudent(r) \/ TargetUser(r)
        \/ Rewrite(r)
    BY <1>6 DEF Manage, RemoveStaff, EnsureAssigned, EnsureRevoked, EnsureUser, Suspend,
                Restore, FindEdited, people, keys
  <2> QED BY <1>2, <2>1, <2>3, <2>4, <2>5
<1>7. CASE PurgeStep(r)
  <2>1. CASE PurgeDevices(r)
    BY <1>1, <2>1 DEF PurgeDevices, WithoutDevices, KeysOnward, people
  <2>2. \/ PurgeDevices(r)
        \/ UNCHANGED <<late, session, device>> /\ breaks' \in {breaks, breaks + 1}
    BY <1>7
    DEF PurgeStep, PurgeCheck, AnonymizeUser, ReadDevices, DeleteAudiences, MarkPurged,
        AnonymizeRecipients, AnonymizeActors, DeleteStaff, DeleteTeacher, AnonymizeStudent,
        DeleteMembers, PurgeTrace, people, keys
  <2> QED BY <1>2, <2>1, <2>2
<1>8. CASE Break(r)
  BY <1>2, <1>8 DEF Break, people, keys
<1> QED BY <1>3, <1>4, <1>5, <1>6, <1>7, <1>8 DEF Proceed

(* What is said of a user that is gone, and was not written too late. *)
Left(u, kind) == kind \in traces[u] => kind \in late[u]
Nameless(u) == user[u].named => "name" \in late[u]
NamelessThen(u) == user'[u].named => "name" \in late'[u]
NoDevice(u) == "device" \in late[u] \/ \A d \in Devices : device[d] # u
LeftThen(u, kind) == kind \in traces'[u] => kind \in late'[u]
NoDeviceThen(u) == "device" \in late'[u] \/ \A d \in Devices : device'[d] # u

(* Nothing comes back of a user that is gone but what is written late. *)
GoneOnward(u) ==
  /\ Nameless(u) => NamelessThen(u)
  /\ late[u] \subseteq late'[u]
  /\ \A kind \in Traces : kind \in traces'[u] => kind \in traces[u] \cup late'[u]
  /\ NoDevice(u) => NoDeviceThen(u)

LEMMA GoneGoOn ==
  ASSUME AccountsInv, AccountsNext, NEW u \in Users, user[u].status \in Gone
  PROVE  GoneOnward(u)
<1>1. /\ user \in [Users -> User] /\ traces \in [Users -> SUBSET Traces]
      /\ late \in [Users -> SUBSET Kinds]
      /\ ~Active(u) /\ user[u].status # "none"
  BY DEF AccountsInv, AccountsTypeOK, Active, Gone
<1>2. /\ late[u] \subseteq late'[u]
      /\ NoDevice(u) => NoDeviceThen(u)
  <2>1. ASSUME NEW r \in Handlers, Proceed(r)
        PROVE  late[u] \subseteq late'[u] /\ (NoDevice(u) => NoDeviceThen(u))
    <3>1. KeysOnward(r)
      BY <2>1, KeysGoOn
    <3>2. late[u] \subseteq late'[u]
      BY <1>1, <3>1 DEF KeysOnward, Lately
    <3>3. ASSUME NEW d \in Devices, device'[d] = u, device[d] # u
          PROVE  "device" \in late'[u]
      BY <1>1, <3>1, <3>3, AccountsConstants DEF KeysOnward, Lately
    <3> QED BY <3>2, <3>3 DEF NoDevice, NoDeviceThen
  <2>2. ASSUME UNCHANGED <<late, device>>
        PROVE  late[u] \subseteq late'[u] /\ (NoDevice(u) => NoDeviceThen(u))
    BY <2>2 DEF NoDevice, NoDeviceThen
  <2>3. \A s \in Sessions : SessionExpires(s) => UNCHANGED <<late, device>>
    BY DEF SessionExpires, people
  <2>4. \A v \in Users : Joins(v) => UNCHANGED <<late, device>>
    BY DEF Joins, AddMember, AddRecipient, keys
  <2>5. UNCHANGED <<people, keys>> => UNCHANGED <<late, device>>
    BY DEF people, keys
  <2> QED BY <2>1, <2>2, <2>3, <2>4, <2>5, Begins, PurgeBegins DEF AccountsNext, Joins, Starts
<1>3. /\ user'[u].named => user[u].named \/ "name" \in late'[u]
      /\ \A kind \in Traces : kind \in traces'[u] => kind \in traces[u] \cup late'[u]
  <2>1. CASE UNCHANGED <<user, traces>>
    BY <2>1
  <2>2. ASSUME NEW v \in Users, Joins(v)
        PROVE  UNCHANGED user /\ traces'[u] = traces[u]
    BY <1>1, <2>2 DEF Joins, AddMember, AddRecipient
  <2>3. ASSUME NEW r \in Handlers, WritesUser(r)
        PROVE  UNCHANGED traces /\ (user'[u].named => user[u].named)
    <3>1. UNCHANGED traces /\ (UNCHANGED user \/ \E v \in Users : Rewritten(r, v))
      BY <2>3, UserForms
    <3>2. ASSUME NEW v \in Users, Rewritten(r, v)
          PROVE  user'[u].named => user[u].named
      <4>1. CASE v # u
        BY <3>2, <4>1 DEF Rewritten
      <4>2. CASE v = u
        <5>1. user[u] \in User
          BY <1>1
        <5> QED BY <1>1, <3>2, <4>2, <5>1 DEF Rewritten, User, NoUser
      <4> QED BY <4>1, <4>2
    <3> QED BY <3>1, <3>2
  <2>4. ASSUME NEW r \in Handlers, WritesTraces(r)
        PROVE  /\ UNCHANGED user
               /\ \A kind \in Traces : kind \in traces'[u] => kind \in traces[u] \cup late'[u]
    <3>1. UNCHANGED user /\ (UNCHANGED traces \/ \E v \in Users : Traced(r, v))
      BY <2>4, TraceForms
    <3>2. ASSUME NEW v \in Users, Traced(r, v)
          PROVE  \A kind \in Traces : kind \in traces'[u] => kind \in traces[u] \cup late'[u]
      <4>1. CASE v # u
        BY <3>2, <4>1 DEF Traced
      <4>2. CASE v = u
        BY <1>1, <3>2, <4>2 DEF Traced, PurgeTrace, Lately
      <4> QED BY <4>1, <4>2
    <3> QED BY <3>1, <3>2
  <2>5. ASSUME NEW r \in Handlers, Rewrite(r)
        PROVE  /\ user'[u].named => user[u].named \/ "name" \in late'[u]
               /\ \A kind \in Traces : kind \in traces'[u] => kind \in traces[u] \cup late'[u]
    <3>1. CASE UNCHANGED people
      BY <3>1 DEF people
    <3>2. ASSUME NEW v \in Users, Renamed(v)
          PROVE  /\ user'[u].named => user[u].named \/ "name" \in late'[u]
                 /\ \A kind \in Traces : kind \in traces'[u] => kind \in traces[u] \cup late'[u]
      <4>1. CASE v # u
        BY <3>2, <4>1 DEF Renamed
      <4>2. CASE v = u
        <5>1. PICK kept \in SUBSET Traces :
                traces'[u] = traces[u] \cup kept /\ Lately(u, kept \cup {"name"})
          BY <3>2, <4>2 DEF Renamed
        <5>2. late'[u] = late[u] \cup (kept \cup {"name"})
          BY <1>1, <5>1 DEF Lately
        <5> QED BY <5>1, <5>2
      <4> QED BY <4>1, <4>2
    <3> QED BY <2>5, <3>1, <3>2, RewriteForms
  <2> QED BY <2>1, <2>2, <2>3, <2>4, <2>5, OnlyTheyWrite
<1>4. Nameless(u) => NamelessThen(u)
  BY <1>2, <1>3 DEF Nameless, NamelessThen
<1> QED BY <1>2, <1>3, <1>4 DEF GoneOnward

(* The steps of a purge, each with those after it. *)
FromMember == {"member", "markPurged"}
FromStudent == {"student"} \cup FromMember
FromTeacher == {"teacher"} \cup FromStudent
FromStaff == {"staff"} \cup FromTeacher
FromActor == {"actor"} \cup FromStaff
FromDevices == {"purgeDevices"} \cup FromActor
FromRecipient == {"recipient"} \cup FromDevices
FromReading == {"readDevices", "audience"} \cup FromRecipient

(* A purge that has got so far has left nothing behind it. *)
Behind(v) ==
  /\ v.pc \in FromReading => Nameless(v.user)
  /\ v.pc \in FromRecipient => Left(v.user, "audience")
  /\ v.pc \in FromDevices => Left(v.user, "recipient")
  /\ v.pc \in {"audience", "recipient", "purgeDevices"} /\ ~v.found => NoDevice(v.user)
  /\ v.pc \in FromActor => NoDevice(v.user)
  /\ v.pc \in FromStaff => Left(v.user, "actor")
  /\ v.pc \in FromTeacher => Left(v.user, "staff")
  /\ v.pc \in FromStudent => Left(v.user, "teacher")
  /\ v.pc \in FromMember => Left(v.user, "student")
  /\ v.pc = "markPurged" => Left(v.user, "member")

(* Behind a purge of the same user a step later. *)
BehindThen(v) ==
  /\ v.pc \in FromReading => NamelessThen(v.user)
  /\ v.pc \in FromRecipient => LeftThen(v.user, "audience")
  /\ v.pc \in FromDevices => LeftThen(v.user, "recipient")
  /\ v.pc \in {"audience", "recipient", "purgeDevices"} /\ ~v.found => NoDeviceThen(v.user)
  /\ v.pc \in FromActor => NoDeviceThen(v.user)
  /\ v.pc \in FromStaff => LeftThen(v.user, "actor")
  /\ v.pc \in FromTeacher => LeftThen(v.user, "staff")
  /\ v.pc \in FromStudent => LeftThen(v.user, "teacher")
  /\ v.pc \in FromMember => LeftThen(v.user, "student")
  /\ v.pc = "markPurged" => LeftThen(v.user, "member")

Clean(u) == Nameless(u) /\ (\A kind \in Traces : Left(u, kind)) /\ NoDevice(u)
SignedOut(u) ==
  \/ breaks > 0 \/ "session" \in late[u]
  \/ \A s \in Sessions : session[s] # u
  \/ \E r \in Handlers : At(r, "dropSessions") /\ req[r].user = u

PurgeInv ==
  /\ \A r \in Handlers : Behind(req[r])
  /\ \A u \in Users : user[u].purged => user[u].status = "deleted" /\ Clean(u)
  /\ \A u \in Users : user[u].status = "deleted" => SignedOut(u)

LEMMA FromPurging == FromReading \subseteq Purging
  BY DEF FromReading, FromRecipient, FromDevices, FromActor, FromStaff, FromTeacher,
         FromStudent, FromMember, Purging, PurgePc

(* Behind a purge that does not move. *)
LEMMA StillBehind ==
  ASSUME AccountsInv, AccountsNext, NEW v \in Req, Behind(v),
         v.pc \in Purging => v.user \in Users /\ user[v.user].status \in Gone
  PROVE  BehindThen(v)
<1>1. ASSUME v.pc \in Purging
      PROVE  GoneOnward(v.user)
  BY <1>1, GoneGoOn
<1>2. ASSUME v.pc \in Purging, NEW kind \in Traces, Left(v.user, kind)
      PROVE  LeftThen(v.user, kind)
  BY <1>1, <1>2 DEF GoneOnward, Left, LeftThen
<1>3. {"audience", "recipient", "actor", "staff", "teacher", "student", "member"} \subseteq Traces
  BY DEF Traces
<1>4. CASE v.pc \in Purging
  <2>1. (v.pc \in FromReading => NamelessThen(v.user)) /\ (NoDevice(v.user) => NoDeviceThen(v.user))
    BY <1>1, <1>4 DEF Behind, GoneOnward
  <2> QED BY <1>2, <1>3, <1>4, <2>1 DEF Behind, BehindThen
<1>5. CASE v.pc \notin Purging
  BY <1>5, FromPurging
  DEF BehindThen, FromReading, FromRecipient, FromDevices, FromActor, FromStaff, FromTeacher,
      FromStudent, FromMember
<1> QED BY <1>4, <1>5

LEMMA NotPurging ==
  ASSUME NEW v, v.pc \notin Purging \ {"name"}
  PROVE  BehindThen(v)
  BY FromPurging
  DEF BehindThen, FromReading, FromRecipient, FromDevices, FromActor, FromStaff, FromTeacher,
      FromStudent, FromMember, Purging, PurgePc

(* A purge that takes a step. *)
LEMMA PurgeMoves ==
  ASSUME AccountsInv, AccountsNext, NEW r \in Handlers, PurgeStep(r), Behind(req[r])
  PROVE  BehindThen(req'[r])
<1> DEFINE x == req[r].user
<1>1. req \in [Handlers -> Req] /\ req[r] \in Req /\ user \in [Users -> User]
  BY DEF AccountsInv, AccountsTypeOK
<1>2. req[r].pc \in Purging => x \in Users /\ user[x].status \in Gone
  BY Busy DEF Purging, WithUser
<1>3. BehindThen(req[r])
  BY <1>1, <1>2, StillBehind
<1>4. ASSUME Finish(r)
      PROVE  BehindThen(req'[r])
  <2>1. req'[r].pc = "idle"
    BY <1>1, <1>4, NoRequest DEF Finish
  <2> QED BY <2>1, NotPurging, Places
<1> USE DEF FromReading, FromRecipient, FromDevices, FromActor, FromStaff, FromTeacher,
            FromStudent, FromMember
<1>5. CASE PurgeCheck(r)
  <2>1. CASE Goto(r, "name")
    <3>1. req'[r].pc = "name"
      BY <1>1, <2>1 DEF Goto, Req
    <3> QED BY <3>1 DEF BehindThen
  <2> QED BY <1>4, <1>5, <2>1 DEF PurgeCheck
<1>6. CASE AnonymizeUser(r)
  <2>1. req'[r].pc = "readDevices" /\ req'[r].user = x /\ x \in Users
    BY <1>1, <1>2, <1>6, Places DEF AnonymizeUser, Goto, Req, At
  <2>2. ~user'[x].named
    BY <1>1, <1>6, <2>1 DEF AnonymizeUser, User
  <2> QED BY <2>1, <2>2 DEF BehindThen, NamelessThen
<1>7. CASE ReadDevices(r)
  <2>1. /\ req[r].pc = "readDevices" /\ req'[r].pc = "audience" /\ req'[r].user = x
        /\ req'[r].found = (UserDevices(x) # {})
    BY <1>1, <1>7 DEF ReadDevices, Req, At
  <2>2. ~req'[r].found => NoDeviceThen(x)
    BY <1>7, <2>1 DEF ReadDevices, UserDevices, NoDevice, NoDeviceThen, keys
  <2> QED BY <1>3, <2>1, <2>2 DEF BehindThen
<1>8. CASE PurgeDevices(r)
  <2>1. /\ req[r].pc = "purgeDevices" /\ req'[r].pc = "actor" /\ req'[r].user = x
        /\ x \in Users
    BY <1>1, <1>2, <1>8, Places DEF PurgeDevices, Goto, Req, At
  <2>2. NoDeviceThen(x)
    <3>1. CASE req[r].found
      BY <1>8, <2>1, <3>1, AccountsConstants
      DEF PurgeDevices, WithoutDevices, NoDevice, NoDeviceThen, AccountsInv, AccountsTypeOK
    <3>2. CASE ~req[r].found
      BY <1>3, <2>1, <3>2 DEF BehindThen
    <3> QED BY <3>1, <3>2
  <2> QED BY <1>3, <2>1, <2>2 DEF BehindThen
<1>9. ASSUME NEW kind \in Traces, NEW next \in Pcs, PurgeTrace(r, kind, next)
      PROVE  /\ req[r].pc = kind /\ req'[r].pc = next /\ req'[r].user = x
             /\ req'[r].found = req[r].found
             /\ kind \in Purging => LeftThen(x, kind)
  <2>1. /\ req[r].pc = kind /\ req'[r].pc = next /\ req'[r].user = x
        /\ req'[r].found = req[r].found
    BY <1>1, <1>9 DEF PurgeTrace, Goto, Req, At
  <2>2. ASSUME kind \in Purging
        PROVE  kind \notin traces'[x]
    BY <1>2, <1>9, <2>1, <2>2 DEF PurgeTrace, AccountsInv, AccountsTypeOK
  <2> QED BY <2>1, <2>2 DEF LeftThen
<1>10. {"audience", "recipient", "actor", "staff", "teacher", "student", "member"} \subseteq Traces
  BY DEF Traces
<1>11. CASE DeleteAudiences(r)
  BY <1>3, <1>9, <1>10, <1>11, Places DEF DeleteAudiences, BehindThen
<1>12. CASE AnonymizeRecipients(r)
  BY <1>3, <1>9, <1>10, <1>12, Places DEF AnonymizeRecipients, BehindThen
<1>13. CASE AnonymizeActors(r)
  BY <1>3, <1>9, <1>10, <1>13, Places DEF AnonymizeActors, BehindThen
<1>14. CASE DeleteStaff(r)
  BY <1>3, <1>9, <1>10, <1>14, Places DEF DeleteStaff, BehindThen
<1>15. CASE DeleteTeacher(r)
  BY <1>3, <1>9, <1>10, <1>15, Places DEF DeleteTeacher, BehindThen
<1>16. CASE AnonymizeStudent(r)
  BY <1>3, <1>9, <1>10, <1>16, Places DEF AnonymizeStudent, BehindThen
<1>17. CASE DeleteMembers(r)
  BY <1>3, <1>9, <1>10, <1>17, Places DEF DeleteMembers, BehindThen
<1>18. CASE MarkPurged(r)
  BY <1>4, <1>18 DEF MarkPurged
<1> QED BY <1>5, <1>6, <1>7, <1>8, <1>11, <1>12, <1>13, <1>14, <1>15, <1>16, <1>17, <1>18
        DEF PurgeStep

(* Nothing but a purge gets a request past the check of a purge. *)
LEMMA OutsidePurge ==
  ASSUME AccountsInv, NEW r \in Handlers, Proceed(r), ~PurgeStep(r)
  PROVE  req'[r].pc \notin Purging
<1>1. req \in [Handlers -> Req] /\ req[r] \in Req
  BY DEF AccountsInv, AccountsTypeOK
<1>2. ASSUME NEW pc \in Pcs \ Purging, Goto(r, pc)
      PROVE  req'[r].pc \notin Purging
  BY <1>1, <1>2 DEF Goto, Req
<1>3. ASSUME NEW pc \in Pcs \ Purging, NEW u, GotoFor(r, pc, u)
      PROVE  req'[r].pc \notin Purging
  BY <1>1, <1>3 DEF GotoFor, Req
<1>4. ASSUME Finish(r)
      PROVE  req'[r].pc \notin Purging
  BY <1>1, <1>4, NoRequest DEF Finish
<1>5. CASE SignIn(r)
  <2>1. CASE LinkBroken(r)
    BY <1>1, <2>1, Places DEF LinkBroken, Req
  <2>2. CASE FindLinked(r) \/ CheckLinked(r) \/ UpdateUser(r)
    BY <1>2, <1>3, <1>4, <2>2, Places DEF FindLinked, CheckLinked, UpdateUser
  <2>3. CASE FindPerson(r) \/ LinkPerson(r) \/ LinkErrorSwallowed(r) \/ FindRaced(r)
    BY <1>2, <1>3, <1>4, <2>3, Places
    DEF FindPerson, FoundStudent, FoundTeacher, LinkPerson, LinkErrorSwallowed, FindRaced
  <2>4. CASE (\E u \in Users : CreateUser(r, u)) \/ InsertLink(r) \/ UndoUser(r)
    BY <1>2, <1>3, <1>4, <2>4, Places DEF CreateUser, InsertLink, UndoUser
  <2>5. CASE \/ FindRacedUser(r) \/ GateLogin(r) \/ (\E s \in Sessions : CreateSession(r, s))
             \/ (\E m \in Markers : MarkDeletion(r, m))
    BY <1>2, <1>3, <1>4, <2>5, Places DEF FindRacedUser, GateLogin, CreateSession, MarkDeletion
  <2> QED BY <1>5, <2>1, <2>2, <2>3, <2>4, <2>5 DEF SignIn
<1>6. CASE SignOut(r)
  BY <1>1, <1>2, <1>4, <1>6, Places
  DEF SignOut, Rotate, LogoutDevice, LogoutDeviceFails, LogoutSelect, LogoutSession, Req
<1>7. CASE Delete(r)
  BY <1>2, <1>7, Places DEF Delete, SpendMarker, Unlink, MarkDeleted, DropSessions, DropDevices
<1>8. CASE Manage(r)
  BY <1>2, <1>4, <1>8, Places
  DEF Manage, Register, Command, EnsureAssigned, EnsureRevoked, EnsureUser, AddStaff,
      WriteTrace, RemoveStaff, Suspend, Restore, FindEdited, Rewrite, MoveStudent, TargetUser
<1>9. CASE Break(r)
  BY <1>4, <1>9 DEF Break
<1> QED BY <1>5, <1>6, <1>7, <1>8, <1>9 DEF Proceed

(* What the request does next that has marked a user deleted. *)
LEMMA AfterMark ==
  ASSUME NEW r \in Handlers, Proceed(r), At(r, "dropSessions")
  PROVE  DropSessions(r) \/ Break(r)
<1>1. ~SignIn(r)
  BY DEF SignIn, FindLinked, CheckLinked, UpdateUser, FindPerson, LinkPerson,
         LinkErrorSwallowed, FindRaced, CreateUser, InsertLink, LinkBroken, UndoUser,
         FindRacedUser, GateLogin, CreateSession, MarkDeletion, At
<1>2. ~SignOut(r) /\ ~Manage(r)
  BY DEF SignOut, Rotate, LogoutDevice, LogoutDeviceFails, LogoutSelect, LogoutSession,
         Manage, Register, Command, EnsureAssigned, EnsureRevoked, EnsureUser, AddStaff,
         WriteTrace, RemoveStaff, Suspend, Restore, FindEdited, Rewrite, MoveStudent,
         TargetUser, At
<1>3. ~PurgeStep(r)
  BY DEF PurgeStep, PurgeCheck, AnonymizeUser, ReadDevices, PurgeDevices, DeleteAudiences,
         AnonymizeRecipients, AnonymizeActors, DeleteStaff, DeleteTeacher, AnonymizeStudent,
         DeleteMembers, PurgeTrace, MarkPurged, At
<1>4. Delete(r) => DropSessions(r)
  BY DEF Delete, SpendMarker, Unlink, MarkDeleted, DropDevices, At
<1> QED BY <1>1, <1>2, <1>3, <1>4 DEF Proceed

LEMMA BehindOn ==
  ASSUME AccountsInv, PurgeInv, AccountsNext
  PROVE  \A q \in Handlers : BehindThen(req'[q])
<1> SUFFICES ASSUME NEW q \in Handlers
             PROVE  BehindThen(req'[q])
  OBVIOUS
<1>1. CASE req'[q] = req[q]
  BY <1>1, StillBehind, Busy DEF PurgeInv, Purging, WithUser
<1>2. CASE req'[q] # req[q]
  <2>1. ASSUME NEW r, Starts(r)
        PROVE  BehindThen(req'[q])
    BY <1>2, <2>1, OneTurn, EntriesApart, NotPurging DEF Starts
  <2>2. ASSUME NEW r \in Handlers, Proceed(r)
        PROVE  BehindThen(req'[q])
    <3>1. r = q
      BY <1>2, <2>2, Proceeds, OneTurn
    <3>2. CASE PurgeStep(r)
      BY <3>1, <3>2, PurgeMoves DEF PurgeInv
    <3>3. CASE ~PurgeStep(r)
      BY <2>2, <3>1, <3>3, OutsidePurge, NotPurging
    <3> QED BY <3>2, <3>3
  <2> QED BY <1>2, <2>1, <2>2, Begins, PurgeBegins, Elsewhere DEF AccountsNext, Joins
<1> QED BY <1>1, <1>2

LEMMA CleanOn ==
  ASSUME AccountsInv, PurgeInv, AccountsNext, NEW u \in Users, user'[u].purged
  PROVE  user'[u].status = "deleted" /\ NamelessThen(u) /\ NoDeviceThen(u)
         /\ \A kind \in Traces : LeftThen(u, kind)
<1>1. user[u] \in User
  BY DEF AccountsInv, AccountsTypeOK
<1>2. UNCHANGED user \/ \E r \in Handlers, v \in Users : Rewritten(r, v) \/ Renamed(v)
  BY OnlyTheyWrite, TraceForms, UserForms, RewriteForms DEF Joins, AddMember, AddRecipient, people
<1>3. ASSUME user[u].status = "deleted", Clean(u)
      PROVE  user'[u].status = "deleted" /\ NamelessThen(u) /\ NoDeviceThen(u)
             /\ \A kind \in Traces : LeftThen(u, kind)
  <2>1. GoneOnward(u)
    BY <1>3, GoneGoOn DEF Gone
  <2>2. ASSUME NEW r \in Handlers, Rewritten(r, u) \/ Renamed(u)
        PROVE  user'[u].status = "deleted"
    BY <1>1, <1>3, <2>2 DEF Rewritten, Renamed, Active, User, NoUser
  <2>3. ASSUME NEW r \in Handlers, NEW v \in Users, v # u, Rewritten(r, v) \/ Renamed(v)
        PROVE  user'[u] = user[u]
    BY <2>3 DEF Rewritten, Renamed
  <2>4. user'[u].status = "deleted"
    BY <1>2, <1>3, <2>2, <2>3
  <2> QED BY <1>3, <2>1, <2>4 DEF Clean, GoneOnward, Left, LeftThen
<1>4. CASE user[u].purged
  BY <1>3, <1>4 DEF PurgeInv
<1>5. CASE ~user[u].purged
  <2>1. PICK r \in Handlers, v \in Users : Rewritten(r, v)
    <3>1. ASSUME NEW v \in Users, Renamed(v)
          PROVE  FALSE
      BY <1>1, <1>5, <3>1 DEF Renamed, User
    <3> QED BY <1>2, <1>5, <3>1
  <2>2. At(r, "markPurged") /\ req[r].user = u /\ user[u].status = "deleted"
    BY <1>1, <1>5, <2>1 DEF Rewritten, User, NoUser
  <2>3. Clean(u)
    BY <2>2 DEF PurgeInv, Behind, At, Clean, Traces, FromReading, FromRecipient, FromDevices,
                FromActor, FromStaff, FromTeacher, FromStudent, FromMember
  <2> QED BY <1>3, <2>2, <2>3
<1> QED BY <1>4, <1>5

LEMMA StatusKept ==
  ASSUME AccountsInv, NEW r \in Handlers, Rewrite(r), NEW u \in Users
  PROVE  user'[u] = [user[u] EXCEPT !.named = user'[u].named]
<1>1. user[u] \in User
  BY DEF AccountsInv, AccountsTypeOK
<1> QED BY <1>1, RewriteForms DEF Renamed, User, people

LEMMA SignedOutOn ==
  ASSUME AccountsInv, PurgeInv, AccountsNext, NEW u \in Users, user'[u].status = "deleted"
  PROVE  \/ breaks' > 0 \/ "session" \in late'[u]
         \/ \A s \in Sessions : session'[s] # u
         \/ \E r \in Handlers : req'[r].pc = "dropSessions" /\ req'[r].user = u
<1>1. /\ session \in [Sessions -> Users \cup {Nobody}] /\ breaks \in Nat
      /\ req \in [Handlers -> Req]
      /\ late \in [Users -> SUBSET Kinds]
  BY DEF AccountsInv, AccountsTypeOK
<1>2. CASE user[u].status = "deleted"
  <2>1. late[u] \subseteq late'[u] /\ ~Active(u)
    BY <1>2, GoneGoOn DEF GoneOnward, Gone, Active
  <2>2. breaks' \in {breaks, breaks + 1}
    BY KeysGoOn, Begins, PurgeBegins
    DEF AccountsNext, KeysOnward, Starts, SessionExpires, Joins, AddMember, AddRecipient
  <2>3. CASE breaks > 0 \/ "session" \in late[u]
    BY <1>1, <2>1, <2>2, <2>3
  <2>4. CASE \A s \in Sessions : session[s] # u
    <3>1. ASSUME NEW s \in Sessions, session'[s] = u
          PROVE  "session" \in late'[u]
      <4>1. ASSUME NEW r \in Handlers, Proceed(r)
            PROVE  "session" \in late'[u]
        BY <1>1, <2>1, <2>4, <3>1, <4>1, KeysGoOn, AccountsConstants
        DEF KeysOnward, Lately
      <4>2. ~UNCHANGED session /\ \A t \in Sessions : ~SessionExpires(t)
        BY <1>1, <2>4, <3>1, AccountsConstants DEF SessionExpires
      <4> QED BY <4>1, <4>2, Begins, PurgeBegins
        DEF AccountsNext, Starts, Joins, AddMember, AddRecipient, keys
    <3> QED BY <3>1
  <2>5. ASSUME NEW r \in Handlers, At(r, "dropSessions"), req[r].user = u
        PROVE  \/ breaks' > 0 \/ \A s \in Sessions : session'[s] # u
               \/ req'[r].pc = "dropSessions" /\ req'[r].user = u
    <3>1. CASE req'[r] = req[r]
      BY <2>5, <3>1 DEF At
    <3>2. CASE req'[r] # req[r]
      <4>1. ~(\E q \in Handlers : Starts(q))
        BY <2>5, <3>2, OneTurn, NoRequest DEF Starts, At
      <4>2. Proceed(r)
        BY <3>2, <4>1, Begins, PurgeBegins, Elsewhere, Proceeds, OneTurn
        DEF AccountsNext, Joins, Starts
      <4>3. CASE DropSessions(r)
        BY <1>1, <2>5, <4>3, AccountsConstants DEF DropSessions
      <4>4. CASE Break(r)
        BY <1>1, <4>4 DEF Break
      <4> QED BY <2>5, <4>2, <4>3, <4>4, AfterMark
    <3> QED BY <3>1, <3>2
  <2>6. SignedOut(u)
    BY <1>2 DEF PurgeInv
  <2> QED BY <2>3, <2>4, <2>5, <2>6 DEF SignedOut
<1>3. CASE user[u].status # "deleted"
  <2>1. PICK r \in Handlers : WritesUser(r)
    <3>1. (\E v \in Users : Joins(v)) => UNCHANGED user
      BY DEF Joins, AddMember, AddRecipient
    <3>2. \A r \in Handlers : WritesTraces(r) => UNCHANGED user
      BY TraceForms
    <3>3. ASSUME NEW r \in Handlers, Rewrite(r)
          PROVE  user'[u].status = user[u].status
      <4>1. user[u] \in User
        BY DEF AccountsInv, AccountsTypeOK
      <4> QED BY <3>3, <4>1, StatusKept DEF User
    <3> QED BY <1>3, <3>1, <3>2, <3>3, OnlyTheyWrite
  <2>2. PICK v \in Users : Rewritten(r, v)
    BY <1>3, <2>1, UserForms
  <2>3. user[u] \in User
    BY DEF AccountsInv, AccountsTypeOK
  <2>4. req[r].user = u /\ Goto(r, "dropSessions")
    BY <1>3, <2>2, <2>3 DEF Rewritten, User, NoUser
  <2>5. req'[r].pc = "dropSessions" /\ req'[r].user = u
    BY <1>1, <2>4 DEF Goto, Req
  <2> QED BY <2>5
<1> QED BY <1>2, <1>3

LEMMA PurgeStarts ==
  ASSUME AccountsInit
  PROVE  PurgeInv
<1>1. \A r \in Handlers : req[r].pc = "idle"
  BY NoRequest DEF AccountsInit
<1>2. \A u \in Users : ~user[u].purged /\ user[u].status # "deleted"
  BY DEF AccountsInit, NoUser
<1> QED BY <1>1, <1>2
    DEF PurgeInv, Behind, FromReading, FromRecipient, FromDevices, FromActor, FromStaff,
        FromTeacher, FromStudent, FromMember

LEMMA PurgeGoesOn ==
  ASSUME AccountsInv, PurgeInv, [AccountsNext]_accountsVars
  PROVE  PurgeInv'
<1>1. CASE AccountsNext
  <2>1. (\A r \in Handlers : Behind(req[r]))'
    BY <1>1, BehindOn
    DEF Behind, BehindThen, Left, LeftThen, Nameless, NamelessThen, NoDevice, NoDeviceThen
  <2>2. (\A u \in Users : user[u].purged => user[u].status = "deleted" /\ Clean(u))'
    BY <1>1, CleanOn DEF Clean, Left, LeftThen, Nameless, NamelessThen, NoDevice, NoDeviceThen
  <2>3. (\A u \in Users : user[u].status = "deleted" => SignedOut(u))'
    BY <1>1, SignedOutOn DEF SignedOut, At
  <2> QED BY <2>1, <2>2, <2>3 DEF PurgeInv
<1>2. CASE UNCHANGED accountsVars
  BY <1>2
  DEF accountsVars, people, keys, PurgeInv, Behind, Clean, SignedOut, Left, Nameless, NoDevice, At
<1> QED BY <1>1, <1>2

(* Once purged_at is set nothing is left of the user's name, number and rows as  *)
(* they were when the account was deleted: what is left was written later, by an *)
(* admin's PUT or a request authenticated before.  In whatever order the         *)
(* requests and the cron went, and wherever they died.                           *)
THEOREM PurgeLeavesNothingOld == AccountsSpec => []NothingOldIsLeft
<1>1. AccountsSpec => []AccountsInv
  BY AccountsStart, AccountsStep, PTL DEF AccountsSpec
<1>2. AccountsSpec => []PurgeInv
  BY <1>1, PurgeStarts, PurgeGoesOn, PTL DEF AccountsSpec
<1>3. AccountsInv /\ PurgeInv => NothingOldIsLeft
  <2> SUFFICES ASSUME AccountsInv, PurgeInv, NEW u \in Users, user[u].purged
               PROVE  /\ user[u].named => "name" \in late[u]
                      /\ traces[u] \subseteq late[u]
                      /\ "device" \in late[u] \/ UserDevices(u) = {}
                      /\ \/ breaks > 0 \/ "session" \in late[u] \/ UserSessions(u) = {}
                         \/ \E r \in Handlers : At(r, "dropSessions") /\ req[r].user = u
    BY DEF NothingOldIsLeft
  <2>1. Clean(u) /\ user[u].status = "deleted" /\ traces[u] \subseteq Traces
    BY DEF PurgeInv, AccountsInv, AccountsTypeOK
  <2> QED BY <2>1 DEF PurgeInv, Clean, SignedOut, Left, Nameless, NoDevice, UserDevices, UserSessions
<1> QED BY <1>1, <1>2, <1>3, PTL

-----------------------------------------------------------------------------
(* Users that a sign-in makes *)

(* The person an account names has not signed up twice. *)
Alone(a) ==
  a \in Accounts /\ Owner[a] \in Registered /\ (Owner[a] \in Teachers \/ breaks = 0) =>
    user[Owner[a]].status \in Gone
Making == {"insertLink", "undo"}
Handled(u) == \E r \in Handlers : req[r].pc \in Making \cup {"mark"} /\ req[r].user = u

MadeInv ==
  /\ \A u \in Registered : user[u].status # "none"
  /\ \A u \in Registered : Active(u) =>
       (u \in Students => "student" \in traces[u]) /\ (u \in Teachers => "teacher" \in traces[u])
  /\ \A r \in Handlers : At(r, "link") => req[r].user = Owner[req[r].account]
  /\ \A r \in Handlers : At(r, "create") => Alone(req[r].account)
  /\ \A r \in Handlers : req[r].pc \in Making =>
       /\ user[req[r].user].status # "none"
       /\ user[req[r].user].by \in {Nobody, req[r].account}
  /\ \A u \in Users : Alone(user[u].by)
  /\ \A u \in Users : breaks = 0 /\ Active(u) /\ user[u].by # Nobody =>
       link[user[u].by] = u \/ Handled(u)

(* Where the steps of a sign-in lead that makes a user. *)
LEMMA IntoMaking ==
  ASSUME AccountsInv, NEW r \in Handlers, Proceed(r),
         req'[r].pc \in {"link", "create", "insertLink", "undo"}
  PROVE  \/ FindPerson(r) \/ LinkErrorSwallowed(r) \/ InsertLink(r) \/ LinkBroken(r)
         \/ \E u \in Users : CreateUser(r, u)
<1> DEFINE Into == {"link", "create", "insertLink", "undo"}
<1>1. req \in [Handlers -> Req] /\ req[r] \in Req /\ Into \cap Purging = {}
  BY Places DEF AccountsInv, AccountsTypeOK
<1>2. ASSUME NEW pc, pc \notin Into, Goto(r, pc)
      PROVE  FALSE
  BY <1>1, <1>2 DEF Goto, Req
<1>3. ASSUME NEW pc, pc \notin Into, NEW u, GotoFor(r, pc, u)
      PROVE  FALSE
  BY <1>1, <1>3 DEF GotoFor, Req
<1>4. ASSUME Finish(r)
      PROVE  FALSE
  BY <1>1, <1>4, NoRequest DEF Finish
<1>5. CASE SignIn(r)
  <2>1. ~(FindLinked(r) \/ CheckLinked(r) \/ UpdateUser(r))
    BY <1>2, <1>3, <1>4 DEF FindLinked, CheckLinked, UpdateUser
  <2>2. ~(LinkPerson(r) \/ FindRaced(r))
    BY <1>2, <1>3, <1>4 DEF LinkPerson, FindRaced
  <2>3. ~(UndoUser(r) \/ FindRacedUser(r) \/ GateLogin(r))
    BY <1>2, <1>3, <1>4 DEF UndoUser, FindRacedUser, GateLogin
  <2>4. ~((\E s \in Sessions : CreateSession(r, s)) \/ (\E m \in Markers : MarkDeletion(r, m)))
    BY <1>4 DEF CreateSession, MarkDeletion
  <2> QED BY <1>5, <2>1, <2>2, <2>3, <2>4 DEF SignIn
<1>6. ~SignOut(r)
  BY <1>1, <1>2, <1>4
  DEF SignOut, Rotate, LogoutDevice, LogoutDeviceFails, LogoutSelect, LogoutSession, Req
<1>7. ~Delete(r)
  BY <1>2 DEF Delete, SpendMarker, Unlink, MarkDeleted, DropSessions, DropDevices
<1>8. ~Manage(r)
  BY <1>2, <1>4
  DEF Manage, Register, Command, EnsureAssigned, EnsureRevoked, EnsureUser, AddStaff,
      WriteTrace, RemoveStaff, Suspend, Restore, FindEdited, Rewrite, MoveStudent, TargetUser
<1>9. ~PurgeStep(r)
  BY <1>1, <1>2, <1>4
  DEF PurgeStep, PurgeCheck, AnonymizeUser, ReadDevices, PurgeDevices, DeleteAudiences,
      AnonymizeRecipients, AnonymizeActors, DeleteStaff, DeleteTeacher, AnonymizeStudent,
      DeleteMembers, PurgeTrace, MarkPurged, Req
<1>10. ~Break(r)
  BY <1>4 DEF Break
<1> QED BY <1>5, <1>6, <1>7, <1>8, <1>9, <1>10 DEF Proceed

(* What a request does that has a new user in hand, or a deletion to mark. *)
LEMMA OutOfMaking ==
  ASSUME NEW r \in Handlers, Proceed(r), req[r].pc \in Making \cup {"mark"}
  PROVE  InsertLink(r) \/ LinkBroken(r) \/ UndoUser(r) \/ MarkDeleted(r) \/ Break(r)
<1>1. SignIn(r) => InsertLink(r) \/ LinkBroken(r) \/ UndoUser(r)
  BY DEF SignIn, FindLinked, CheckLinked, UpdateUser, FindPerson, LinkPerson, Making,
         LinkErrorSwallowed, FindRaced, CreateUser, FindRacedUser, GateLogin, CreateSession,
         MarkDeletion, At
<1>2. ~SignOut(r) /\ ~Manage(r)
  BY DEF SignOut, Rotate, LogoutDevice, LogoutDeviceFails, LogoutSelect, LogoutSession,
         Manage, Register, Command, EnsureAssigned, EnsureRevoked, EnsureUser, AddStaff,
         WriteTrace, RemoveStaff, Suspend, Restore, FindEdited, Rewrite, MoveStudent,
         TargetUser, At, Making
<1>3. ~PurgeStep(r)
  BY DEF PurgeStep, PurgeCheck, AnonymizeUser, ReadDevices, PurgeDevices, DeleteAudiences,
         AnonymizeRecipients, AnonymizeActors, DeleteStaff, DeleteTeacher, AnonymizeStudent,
         DeleteMembers, PurgeTrace, MarkPurged, At, Making
<1>4. Delete(r) => MarkDeleted(r)
  BY DEF Delete, SpendMarker, Unlink, DropSessions, DropDevices, At, Making
<1> QED BY <1>1, <1>2, <1>3, <1>4 DEF Proceed

(* Links come where there is none, and go with a deletion. *)
LEMMA LinkForms ==
  ASSUME AccountsInv, NEW r \in Handlers, Proceed(r)
  PROVE  \/ UNCHANGED link \/ Unlink(r)
         \/ \E a \in Accounts : link[a] = Nobody /\ \A b \in Accounts \ {a} : link'[b] = link[b]
<1>1. link \in [Accounts -> Users \cup {Nobody}] /\ req[r] \in Req
  BY Busy DEF AccountsInv, AccountsTypeOK
<1>2. CASE SignIn(r)
  <2>1. CASE LinkPerson(r) \/ InsertLink(r)
    <3>1. PICK u : \/ UNCHANGED link
                   \/ /\ link[req[r].account] = Nobody
                      /\ link' = [link EXCEPT ![req[r].account] = u]
      BY <2>1 DEF LinkPerson, InsertLink
    <3>2. CASE req[r].account \in Accounts
      BY <1>1, <3>1, <3>2
    <3>3. CASE req[r].account \notin Accounts
      BY <1>1, <3>1, <3>3
    <3> QED BY <3>2, <3>3
  <2>2. UNCHANGED link \/ LinkPerson(r) \/ InsertLink(r)
    BY <1>2
    DEF SignIn, FindLinked, CheckLinked, UpdateUser, FindPerson, LinkErrorSwallowed,
        FindRaced, CreateUser, LinkBroken, UndoUser, FindRacedUser, GateLogin, CreateSession,
        MarkDeletion, keys
  <2> QED BY <2>1, <2>2
<1>3. CASE SignOut(r)
  BY <1>3 DEF SignOut, Rotate, LogoutDevice, LogoutDeviceFails, LogoutSelect, LogoutSession,
              keys
<1>4. CASE Delete(r)
  BY <1>4 DEF Delete, SpendMarker, MarkDeleted, DropSessions, DropDevices, keys
<1>5. CASE Manage(r)
  BY <1>5 DEF Manage, Register, Command, AddStaff, WriteTrace, RemoveStaff, EnsureAssigned,
              EnsureRevoked, EnsureUser, Suspend, Restore, FindEdited, Rewrite, MoveStudent,
              TargetUser, keys
<1>6. CASE PurgeStep(r)
  BY <1>6
  DEF PurgeStep, PurgeCheck, AnonymizeUser, ReadDevices, PurgeDevices, DeleteAudiences,
      MarkPurged, AnonymizeRecipients, AnonymizeActors, DeleteStaff, DeleteTeacher,
      AnonymizeStudent, DeleteMembers, PurgeTrace, keys
<1>7. CASE Break(r)
  BY <1>7 DEF Break, keys
<1> QED BY <1>2, <1>3, <1>4, <1>5, <1>6, <1>7 DEF Proceed

LEMMA BreaksCount ==
  ASSUME AccountsInv, AccountsNext
  PROVE  breaks \in Nat /\ breaks' \in {breaks, breaks + 1}
<1>1. breaks \in Nat
  BY DEF AccountsInv, AccountsTypeOK
<1> QED BY <1>1, KeysGoOn, Begins, PurgeBegins
        DEF AccountsNext, KeysOnward, Starts, SessionExpires, Joins, AddMember, AddRecipient

(* A users row changes as a whole. *)
LEMMA RowForms ==
  ASSUME AccountsInv, AccountsNext, NEW u \in Users, user'[u] # user[u]
  PROVE  \/ \E r \in Handlers : WritesUser(r) /\ Rewritten(r, u)
         \/ Renamed(u)
<1>1. CASE \E r \in Handlers : WritesUser(r)
  <2>1. PICK r \in Handlers : WritesUser(r)
    BY <1>1
  <2>2. PICK v \in Users : Rewritten(r, v)
    BY <2>1, UserForms
  <2> QED BY <2>1, <2>2 DEF Rewritten
<1>2. ASSUME NEW r \in Handlers, Rewrite(r)
      PROVE  Renamed(u)
  <2>1. PICK v \in Users : Renamed(v)
    BY <1>2, RewriteForms DEF people
  <2> QED BY <2>1 DEF Renamed
<1> QED BY <1>1, <1>2, OnlyTheyWrite, TraceForms DEF Joins, AddMember, AddRecipient

(* A new state of a row keeps who made it, or is new, or is taken back. *)
LEMMA RowSteps ==
  ASSUME AccountsInv, AccountsNext, NEW u \in Users
  PROVE  \/ /\ user'[u].by = user[u].by
            /\ user[u].status = "none" <=> user'[u].status = "none"
            /\ user'[u].status = "active" => user[u].status = "active"
         \/ /\ user[u].status = "none" /\ user'[u].status = "active"
            /\ \E r \in Handlers : /\ At(r, "create") /\ GotoFor(r, "insertLink", u)
                                  /\ user'[u].by = req[r].account
         \/ /\ user'[u].status = "undone" /\ user'[u].by = Nobody
            /\ \E r \in Handlers : At(r, "undo") /\ req[r].user = u
         \/ /\ user'[u].status = "deleted" /\ user'[u].by = user[u].by
            /\ \E r \in Handlers : At(r, "mark") /\ req[r].user = u
<1>1. user[u] \in User
  BY DEF AccountsInv, AccountsTypeOK
<1>2. CASE user'[u] = user[u]
  BY <1>2
<1>3. ASSUME NEW r \in Handlers, Rewritten(r, u), user'[u] # user[u]
      PROVE  \/ /\ user'[u].by = user[u].by
                /\ user[u].status = "none" <=> user'[u].status = "none"
                /\ user'[u].status = "active" => user[u].status = "active"
             \/ /\ user[u].status = "none" /\ user'[u].status = "active"
                /\ At(r, "create") /\ GotoFor(r, "insertLink", u)
                /\ user'[u].by = req[r].account
             \/ /\ user'[u].status = "undone" /\ user'[u].by = Nobody
                /\ At(r, "undo") /\ req[r].user = u
             \/ /\ user'[u].status = "deleted" /\ user'[u].by = user[u].by
                /\ At(r, "mark") /\ req[r].user = u
  BY <1>1, <1>3 DEF Rewritten, User, NoUser, Active
<1>4. CASE Renamed(u)
  BY <1>1, <1>4 DEF Renamed, User
<1> QED BY <1>2, <1>3, <1>4, RowForms

LEMMA AloneOn ==
  ASSUME AccountsInv, MadeInv, AccountsNext, NEW a, Alone(a)
  PROVE  a \in Accounts /\ Owner[a] \in Registered /\ (Owner[a] \in Teachers \/ breaks' = 0) =>
           user'[Owner[a]].status \in Gone
<1>1. breaks' = 0 => breaks = 0
  BY BreaksCount
<1>2. \A u \in Users : user[u].status \in Gone => user'[u].status \in Gone
  BY SomeNext DEF Onward
<1> QED BY <1>1, <1>2, AccountsConstants DEF Alone

(* A registered person keeps its number or its address until it is gone. *)
LEMMA KindsKept ==
  ASSUME AccountsInv, MadeInv, AccountsNext, NEW u \in Registered, user'[u].status = "active",
         NEW kind \in {"student", "teacher"}, kind \in traces[u]
  PROVE  kind \in traces'[u]
<1>1. u \in Users /\ traces \in [Users -> SUBSET Traces] /\ kind \in Purging
  BY AccountsConstants, Places DEF AccountsInv, AccountsTypeOK
<1>2. user[u].status \notin Gone
  BY <1>1, SomeNext DEF Onward, Gone
<1>3. CASE UNCHANGED traces
  BY <1>3
<1>4. ASSUME NEW v \in Users, Joins(v)
      PROVE  kind \in traces'[u]
  BY <1>1, <1>4 DEF Joins, AddMember, AddRecipient
<1>5. ASSUME NEW r \in Handlers, NEW v \in Users, Traced(r, v)
      PROVE  kind \in traces'[u]
  <2>1. CASE v # u
    BY <1>1, <1>5, <2>1 DEF Traced
  <2>2. CASE v = u
    <3>1. ~(\E k \in Purging, next \in Purging : req[r].user = u /\ PurgeTrace(r, k, next))
      BY <1>2, Busy DEF PurgeTrace, At
    <3> QED BY <1>1, <1>5, <2>2, <3>1 DEF Traced
  <2> QED BY <2>1, <2>2
<1>6. ASSUME NEW v \in Users, Renamed(v)
      PROVE  kind \in traces'[u]
  BY <1>1, <1>6 DEF Renamed
<1> QED BY <1>3, <1>4, <1>5, <1>6, OnlyTheyWrite, UserForms, TraceForms, RewriteForms DEF people

LEMMA MakingMoves ==
  ASSUME AccountsInv, AccountsNext, NEW q \in Handlers, req'[q] # req[q],
         req'[q].pc \in {"link", "create", "insertLink", "undo"}
  PROVE  \/ FindPerson(q) \/ LinkErrorSwallowed(q) \/ InsertLink(q) \/ LinkBroken(q)
         \/ \E u \in Users : CreateUser(q, u)
<1>1. ASSUME NEW r, Starts(r)
      PROVE  FALSE
  BY <1>1, OneTurn DEF Starts, Entries
<1>2. PICK r \in Handlers : Proceed(r)
  BY <1>1, Begins, PurgeBegins, Elsewhere DEF AccountsNext, Joins
<1>3. r = q
  BY <1>2, Proceeds, OneTurn
<1> QED BY <1>2, <1>3, IntoMaking

LEMMA LinkOn ==
  ASSUME AccountsInv, MadeInv, AccountsNext, NEW q \in Handlers, req'[q].pc = "link"
  PROVE  req'[q].user = Owner[req'[q].account]
<1>1. req \in [Handlers -> Req] /\ req[q] \in Req
  BY DEF AccountsInv, AccountsTypeOK
<1>2. CASE req'[q] = req[q]
  BY <1>2 DEF MadeInv, At
<1>3. CASE FindPerson(q)
  <2>1. PICK u \in Candidate(req[q].account) : GotoFor(q, "link", u)
    BY <1>1, <1>3, NoRequest DEF FindPerson, FoundStudent, FoundTeacher, Goto, Finish, Req
  <2>2. req'[q].user = u /\ req'[q].account = req[q].account
    BY <1>1, <2>1 DEF GotoFor, Req
  <2> QED BY <2>1, <2>2 DEF Candidate, Named
<1>4. ~(LinkErrorSwallowed(q) \/ InsertLink(q) \/ LinkBroken(q) \/ \E u \in Users : CreateUser(q, u))
  BY <1>1 DEF LinkErrorSwallowed, InsertLink, LinkBroken, CreateUser, Goto, GotoFor, Req
<1> QED BY <1>2, <1>3, <1>4, MakingMoves

LEMMA CreateOn ==
  ASSUME AccountsInv, MadeInv, AccountsNext, NEW q \in Handlers, req'[q].pc = "create",
         NEW a \in Accounts, a = req'[q].account, Owner[a] \in Registered,
         Owner[a] \in Teachers \/ breaks' = 0
  PROVE  user'[Owner[a]].status \in Gone
<1>1. req \in [Handlers -> Req] /\ req[q] \in Req
  BY DEF AccountsInv, AccountsTypeOK
<1>2. CASE req'[q] = req[q]
  BY <1>2, AloneOn DEF MadeInv, At
<1>3. CASE FindPerson(q)
  <2>1. Goto(q, "create") /\ \A u \in Candidate(req[q].account) : ~Active(u)
    BY <1>1, <1>3, NoRequest
    DEF FindPerson, FoundStudent, FoundTeacher, Goto, GotoFor, Finish, Req
  <2>2. a = req[q].account /\ UNCHANGED user
    BY <1>1, <1>3, <2>1 DEF Goto, Req, FindPerson, people
  <2>3. ~Active(Owner[a])
    BY <2>1, <2>2 DEF Candidate, Named, MadeInv, Registered
  <2>4. user[Owner[a]] \in User /\ user[Owner[a]].status # "none"
    BY AccountsConstants DEF MadeInv, AccountsInv, AccountsTypeOK
  <2> QED BY <2>2, <2>3, <2>4 DEF Active, Gone, User
<1>4. CASE LinkErrorSwallowed(q)
  <2>1. req'[q].account = req[q].account /\ At(q, "link")
    BY <1>1, <1>4 DEF LinkErrorSwallowed, GotoFor, Req
  <2>2. Owner[a] \in Students
    BY <1>4, <2>1 DEF LinkErrorSwallowed, MadeInv
  <2>3. Owner[a] \notin Teachers
    BY <2>2, AccountsConstants
  <2>4. breaks' # 0
    BY <1>4, BreaksCount DEF LinkErrorSwallowed
  <2> QED BY <2>3, <2>4
<1>5. ~(InsertLink(q) \/ LinkBroken(q) \/ \E u \in Users : CreateUser(q, u))
  BY <1>1 DEF InsertLink, LinkBroken, CreateUser, Goto, GotoFor, Req
<1> QED BY <1>2, <1>3, <1>4, <1>5, MakingMoves

LEMMA MakingOn ==
  ASSUME AccountsInv, MadeInv, AccountsNext, NEW q \in Handlers, req'[q].pc \in Making
  PROVE  /\ user'[req'[q].user].status # "none"
         /\ user'[req'[q].user].by \in {Nobody, req'[q].account}
<1>1. req \in [Handlers -> Req] /\ req[q] \in Req
  BY DEF AccountsInv, AccountsTypeOK
<1>2. ASSUME req[q].pc \in Making, req'[q].user = req[q].user, req'[q].account = req[q].account
      PROVE  /\ user'[req'[q].user].status # "none"
             /\ user'[req'[q].user].by \in {Nobody, req'[q].account}
  <2>1. req[q].user \in Users
    BY <1>2, Busy, Places DEF Making
  <2> QED BY <1>2, <2>1, RowSteps DEF MadeInv
<1>3. CASE req'[q] = req[q]
  BY <1>2, <1>3
<1>4. CASE InsertLink(q) \/ LinkBroken(q)
  <2>1. req[q].pc \in Making /\ req'[q].user = req[q].user /\ req'[q].account = req[q].account
    BY <1>1, <1>4 DEF InsertLink, LinkBroken, At, Making, Goto, Req
  <2> QED BY <1>2, <2>1
<1>5. ASSUME NEW u \in Users, CreateUser(q, u)
      PROVE  /\ user'[req'[q].user].status # "none"
             /\ user'[req'[q].user].by \in {Nobody, req'[q].account}
  <2>1. req'[q].user = u /\ req'[q].account = req[q].account
    BY <1>1, <1>5 DEF CreateUser, GotoFor, Req
  <2>2. user'[u].status = "active" /\ user'[u].by = req[q].account
    BY <1>5 DEF CreateUser, AccountsInv, AccountsTypeOK
  <2> QED BY <2>1, <2>2
<1>6. ~(FindPerson(q) \/ LinkErrorSwallowed(q))
  BY <1>1, NoRequest
  DEF FindPerson, FoundStudent, FoundTeacher, LinkErrorSwallowed, Goto, GotoFor, Finish, Req,
      Making
<1> QED BY <1>3, <1>4, <1>5, <1>6, MakingMoves DEF Making

LEMMA MadeAloneOn ==
  ASSUME AccountsInv, MadeInv, AccountsNext, NEW u \in Users, NEW a \in Accounts,
         a = user'[u].by, Owner[a] \in Registered, Owner[a] \in Teachers \/ breaks' = 0
  PROVE  user'[Owner[a]].status \in Gone
<1>1. CASE a = user[u].by
  BY <1>1, AloneOn DEF MadeInv
<1>2. ASSUME NEW r \in Handlers, At(r, "create"), a = req[r].account
      PROVE  user'[Owner[a]].status \in Gone
  BY <1>2, AloneOn DEF MadeInv
<1> QED BY <1>1, <1>2, RowSteps, AccountsConstants

(* While nothing breaks, a new user has its link or its sign-in. *)
LEMMA OrphanOn ==
  ASSUME AccountsInv, MadeInv, AccountsNext, NEW u \in Users,
         breaks' = 0, user'[u].status = "active", user'[u].by # Nobody
  PROVE  \/ link'[user'[u].by] = u
         \/ \E r \in Handlers : req'[r].pc \in Making \cup {"mark"} /\ req'[r].user = u
<1>1. /\ req \in [Handlers -> Req] /\ link \in [Accounts -> Users \cup {Nobody}]
      /\ user \in [Users -> User]
  BY DEF AccountsInv, AccountsTypeOK
<1>2. breaks = 0
  BY BreaksCount
<1>3. ASSUME NEW r \in Handlers, At(r, "create"), GotoFor(r, "insertLink", u)
      PROVE  req'[r].pc \in Making /\ req'[r].user = u
  BY <1>1, <1>3 DEF GotoFor, Req, Making
<1>4. CASE user'[u].by = user[u].by /\ user[u].status = "active"
  <2> DEFINE a == user[u].by
  <2>1. a \in Accounts /\ u # Nobody
    BY <1>1, <1>4, AccountsConstants DEF User
  <2>2. link[a] = u \/ Handled(u)
    BY <1>2, <1>4 DEF MadeInv, Active
  <2>3. CASE link[a] = u /\ link'[a] # u
    <3>1. ASSUME NEW r \in Handlers, Proceed(r)
          PROVE  req'[r].pc = "mark" /\ req'[r].user = u
      <4>1. Unlink(r)
        BY <2>1, <2>3, <3>1, LinkForms
      <4>2. req[r].user = u
        BY <1>1, <2>1, <2>3, <4>1 DEF Unlink
      <4> QED BY <1>1, <4>1, <4>2 DEF Unlink, Goto, Req
    <3>2. ~UNCHANGED link
      BY <2>3
    <3> QED BY <3>1, <3>2, Begins, PurgeBegins
            DEF AccountsNext, Starts, SessionExpires, Joins, AddMember, AddRecipient, keys
  <2>4. ASSUME NEW r \in Handlers, req[r].pc \in Making \cup {"mark"}, req[r].user = u
        PROVE  \/ link'[a] = u
               \/ req'[r].pc \in Making \cup {"mark"} /\ req'[r].user = u
    <3>1. CASE req'[r] = req[r]
      BY <2>4, <3>1
    <3>2. CASE req'[r] # req[r]
      <4>1. ~(\E q \in Handlers : Starts(q))
        BY <2>4, <3>2, OneTurn, NoRequest DEF Starts, Making
      <4>2. Proceed(r)
        BY <3>2, <4>1, Begins, PurgeBegins, Elsewhere, Proceeds, OneTurn
        DEF AccountsNext, Joins, Starts
      <4>3. CASE InsertLink(r)
        <5>1. a = req[r].account
          BY <1>4, <2>1, <2>4, <4>3, AccountsConstants DEF MadeInv, InsertLink, At, Making
        <5>2. CASE link[a] = Nobody
          BY <1>1, <2>1, <2>4, <4>3, <5>1, <5>2 DEF InsertLink
        <5>3. CASE link[a] # Nobody
          BY <1>1, <2>4, <4>3, <5>1, <5>3 DEF InsertLink, Goto, Req, Making
        <5> QED BY <5>2, <5>3
      <4>4. ~(LinkBroken(r) \/ Break(r))
        BY <1>2 DEF LinkBroken, Break
      <4>5. CASE UndoUser(r)
        <5>1. ~Held(u)
          BY <1>2, <2>4, <4>5 DEF UndoUser
        <5> QED BY <1>1, <2>4, <4>5, <5>1 DEF UndoUser, TakenBack, NoUser
      <4>6. CASE MarkDeleted(r)
        BY <1>1, <2>4, <4>6 DEF MarkDeleted
      <4> QED BY <2>4, <4>2, <4>3, <4>4, <4>5, <4>6, OutOfMaking
    <3> QED BY <3>1, <3>2
  <2> QED BY <1>4, <2>2, <2>3, <2>4 DEF Handled
<1> QED BY <1>3, <1>4, RowSteps

LEMMA MadeStarts ==
  ASSUME AccountsInit
  PROVE  MadeInv
<1>1. \A r \in Handlers : req[r].pc = "idle"
  BY NoRequest DEF AccountsInit
<1>2. \A u \in Users : user[u].by = Nobody
  BY DEF AccountsInit, NoUser
<1>3. \A u \in Registered :
        /\ user[u].status = "active"
        /\ u \in Students => "student" \in traces[u]
        /\ u \in Teachers => "teacher" \in traces[u]
  BY AccountsConstants DEF AccountsInit, Registered
<1>4. Nobody \notin Accounts
  BY AccountsConstants
<1> QED BY <1>1, <1>2, <1>3, <1>4 DEF MadeInv, At, Alone, Making

LEMMA MadeGoesOn ==
  ASSUME AccountsInv, MadeInv, [AccountsNext]_accountsVars
  PROVE  MadeInv'
<1>1. CASE AccountsNext
  <2>1. (\A u \in Registered : user[u].status # "none")'
    BY <1>1, RowSteps, AccountsConstants DEF MadeInv
  <2>2. (\A u \in Registered : Active(u) =>
           (u \in Students => "student" \in traces[u])
             /\ (u \in Teachers => "teacher" \in traces[u]))'
    <3> SUFFICES ASSUME NEW u \in Registered, user'[u].status = "active"
                 PROVE  (u \in Students => "student" \in traces'[u])
                          /\ (u \in Teachers => "teacher" \in traces'[u])
      BY DEF Active
    <3>1. user[u].status = "active"
      BY <1>1, RowSteps, AccountsConstants DEF MadeInv
    <3> QED BY <1>1, <3>1, KindsKept DEF MadeInv, Active
  <2>3. (\A r \in Handlers : At(r, "link") => req[r].user = Owner[req[r].account])'
    BY <1>1, LinkOn DEF At
  <2>4. (\A r \in Handlers : At(r, "create") => Alone(req[r].account))'
    BY <1>1, CreateOn DEF At, Alone
  <2>5. (\A r \in Handlers : req[r].pc \in Making =>
           /\ user[req[r].user].status # "none"
           /\ user[req[r].user].by \in {Nobody, req[r].account})'
    BY <1>1, MakingOn
  <2>6. (\A u \in Users : Alone(user[u].by))'
    BY <1>1, MadeAloneOn DEF Alone
  <2>7. (\A u \in Users : breaks = 0 /\ Active(u) /\ user[u].by # Nobody =>
           link[user[u].by] = u \/ Handled(u))'
    BY <1>1, OrphanOn DEF Active, Handled
  <2> QED BY <2>1, <2>2, <2>3, <2>4, <2>5, <2>6, <2>7 DEF MadeInv
<1>2. CASE UNCHANGED accountsVars
  BY <1>2 DEF accountsVars, people, keys, MadeInv, Alone, Handled, Active, At
<1> QED BY <1>1, <1>2

LEMMA MadeAlways == AccountsSpec => [](AccountsInv /\ MadeInv)
<1>1. AccountsSpec => []AccountsInv
  BY AccountsStart, AccountsStep, PTL DEF AccountsSpec
<1>2. AccountsSpec => []MadeInv
  BY <1>1, MadeStarts, MadeGoesOn, PTL DEF AccountsSpec
<1> QED BY <1>1, <1>2, PTL

(* A person the school registered is not split into two users by a sign-in:   *)
(* the lookup, the check of its status and the INSERT are apart.              *)
THEOREM PersonsAreWhole == AccountsSpec => []NotSplit
<1>1. AccountsInv /\ MadeInv => NotSplit
  BY DEF NotSplit, MadeInv, Alone, Active, Gone
<1> QED BY <1>1, MadeAlways, PTL

(* Two sign-ins of a new account at once leave no users row without its link.  *)
THEOREM UsersAreLinked == AccountsSpec => []NoOrphanUser
<1>1. AccountsInv /\ MadeInv => NoOrphanUser
  BY DEF NoOrphanUser, MadeInv, Handled
<1> QED BY <1>1, MadeAlways, PTL
============
