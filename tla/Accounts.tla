------------------------------ MODULE Accounts ------------------------------
(***************************************************************************)
(* Accounts of people: signing in with Microsoft, refresh sessions, signing *)
(* out, the registration of devices, staff rights, and the deletion of an  *)
(* account, which a request starts and a daily cron completes.  Every       *)
(* request is a process: its reads and writes are steps, and the rows may   *)
(* change between any two of them.                                         *)
(***************************************************************************)
EXTENDS Naturals, FiniteSets

CONSTANTS
  Users,      \* user ids
  Students,   \* the users registered as students: found by student number
  Teachers,   \* the users registered as teachers: found by e-mail address
  Officers,   \* the users that are staff at the start
  Accounts,   \* Microsoft accounts (oid, tid)
  Owner,      \* Owner[a]: whom a's e-mail address names, or Nobody
  FirstLink,  \* FirstLink[a]: the user a is linked to at the start, or Nobody
  FirstKeys,  \* the sessions, devices and markers of users at the start
  Clients,    \* client types: web and mobile
  Web,        \* the client type only staff may sign in with
  Sessions,   \* ids of refresh sessions
  Devices,    \* FCM tokens
  Markers,    \* deletion confirmation tokens
  Callers,    \* concurrent requests
  Nightly,    \* the cron that purges
  Nobody,     \* no user, no account, no key
  MaxCalls,   \* bound: requests made
  MaxBreaks   \* bound: breaks that come from outside

Registered == Students \cup Teachers
Handlers == Callers \cup {Nightly}
Traces == {"audience", "recipient", "actor", "staff", "teacher", "student", "member"}
Kinds == Traces \cup {"session", "device", "name"}

ASSUME AccountsConstants ==
  /\ Registered \subseteq Users /\ Students \cap Teachers = {}
  /\ Officers \subseteq Registered
  /\ Nobody \notin Users \cup Accounts \cup Sessions \cup Devices \cup Markers \cup Clients
  /\ Owner \in [Accounts -> Registered \cup {Nobody}]
  /\ FirstLink \in [Accounts -> Registered \cup {Nobody}]
  /\ FirstKeys \in [Sessions \cup Devices \cup Markers -> Registered \cup {Nobody}]
  /\ Web \in Clients /\ Nightly \notin Callers
  /\ MaxCalls \in Nat /\ MaxBreaks \in Nat

VARIABLES
  user,       \* users: status, live, purged, whether a real name shows, creator
  traces,     \* what else the database says of a user
  link,       \* microsoft_account_links
  session,    \* refresh_sessions: the user of each
  device,     \* firebase_tokens: the user of each
  marker,     \* KV deletion_confirmation: the user, or Nobody
  bearers,    \* the users that hold an access token
  req,        \* the requests
  late,       \* history: what was written of a user after its deletion
  calls,
  breaks      \* statements that threw, and requests that died

people == <<user, traces, late>>
keys == <<link, session, device, marker, bearers>>
accountsVars == <<people, keys, req, calls, breaks>>

-----------------------------------------------------------------------------
(* Rows and requests *)

User ==
  [status: {"none", "active", "deleted", "undone"}, live: BOOLEAN,
   purged: BOOLEAN, named: BOOLEAN, by: Accounts \cup {Nobody}]
NoUser == [status |-> "none", live |-> FALSE, purged |-> FALSE, named |-> FALSE, by |-> Nobody]

LoginPc == {"find", "status", "update", "person", "link", "raced", "create",
            "insertLink", "undo", "racedCreate", "gate", "session"}
DeletePc == {"findMarked", "spend", "unlink", "mark", "dropSessions", "dropDevices"}
PurgePc == {"purge", "name", "readDevices", "audience", "recipient", "purgeDevices",
            "actor", "staff", "teacher", "student", "member", "markPurged"}
OtherPc == {"rotate", "outDevice", "outLatest", "outSession", "register", "command",
            "assign", "addStaff", "revoke", "removeStaff", "suspend", "restore",
            "edit", "rewrite", "move", "target"}
Req ==
  [pc: {"idle"} \cup LoginPc \cup DeletePc \cup PurgePc \cup OtherPc,
   user: Users \cup {Nobody}, account: Accounts \cup {Nobody},
   client: Clients \cup {Nobody},
   key: Sessions \cup Devices \cup Markers \cup {Nobody},
   session: Sessions \cup {Nobody}, found: BOOLEAN]
NoReq == [pc |-> "idle", user |-> Nobody, account |-> Nobody, client |-> Nobody,
          key |-> Nobody, session |-> Nobody, found |-> FALSE]

Goto(r, pc) == req' = [req EXCEPT ![r].pc = pc]
GotoFor(r, pc, u) == req' = [req EXCEPT ![r].pc = pc, ![r].user = u]
Finish(r) == req' = [req EXCEPT ![r] = NoReq]
(* Which request, and which new id, makes no difference. *)
OneOf(ids) == IF ids = {} THEN {} ELSE {CHOOSE i \in ids : TRUE}
Call(r, fields) ==
  /\ r \in OneOf({c \in Callers : req[c] = NoReq})
  /\ calls' = calls + 1
  /\ req' = [req EXCEPT ![r] = fields]

At(r, pc) == req[r].pc = pc
Caller(pc, u) == [NoReq EXCEPT !.pc = pc, !.user = u]

Active(u) == user[u].status = "active"
(* rejectInactiveUser *)
Inactive(u) == ~user[u].live
(* Mutant: the id of the Microsoft account is taken for the user's. *)
MicrosoftId(a) == IF link[a] \in Users THEN a ELSE Nobody
LinkedTo(a) == IF link[a] \in Users THEN link[a] ELSE Nobody
IsStaff(u) == "staff" \in traces[u]
ActiveStaff == {u \in Users : Active(u) /\ user[u].live /\ IsStaff(u)}
UserSessions(u) == {s \in Sessions : session[s] = u}
UserDevices(u) == {d \in Devices : device[d] = u}

(* Writing of a user whose account is deleted leaves something a purge may  *)
(* already have gone past. *)
Lately(u, kinds) ==
  late' = IF Active(u) THEN late ELSE [late EXCEPT ![u] = @ \cup kinds]

FreshSession == OneOf({s \in Sessions : session[s] = Nobody /\ \A r \in Handlers : req[r].session # s})
FreshMarker == OneOf({m \in Markers : marker[m] = Nobody /\ \A r \in Handlers : req[r].key # m})
FreshUser == OneOf({u \in Users : user[u].status = "none"})

-----------------------------------------------------------------------------
(* Signing in *)

(* A sign-in begins once its authorization code is exchanged (SignInStates). *)
Exchanged(r, a, client, pc) ==
  /\ Call(r, [NoReq EXCEPT !.pc = pc, !.account = a, !.client = client])
  /\ UNCHANGED <<people, keys, breaks>>

StartToken(r, a, client) == Exchanged(r, a, client, "find")
StartDeleteToken(r, a, client) == Exchanged(r, a, client, "findMarked")

(* /campus-token: a Microsoft refresh token stands for the code. *)
StartCampusToken(r, a, client) == Exchanged(r, a, client, "find") /\ client # Web

(* upsertUser: the user the Microsoft account is linked to, or the person    *)
(* its e-mail address names.                                                *)
FindLinked(r) ==
  /\ At(r, "find")
  /\ LET u == LinkedTo(req[r].account) IN
       IF u = Nobody THEN Goto(r, "person") ELSE GotoFor(r, "status", u)
  /\ UNCHANGED <<people, keys, calls, breaks>>

CheckLinked(r) ==
  /\ At(r, "status")
  /\ IF Active(req[r].user) THEN Goto(r, "update") ELSE Finish(r)
  /\ UNCHANGED <<people, keys, calls, breaks>>

(* updateUser: WHERE deletion_status = 'active'. *)
Updatable(u) == Active(u)
UpdateUser(r) ==
  /\ At(r, "update")
  /\ LET u == req[r].user IN
       IF Updatable(u)
         THEN user' = [user EXCEPT ![u].named = TRUE] /\ Goto(r, "gate")
         ELSE UNCHANGED user /\ Finish(r)
  /\ UNCHANGED <<traces, late, keys, calls, breaks>>

(* A purge changes a student's number and deletes the teachers row; the query *)
(* for teachers leaves out the deleted.                                      *)
Named(a) ==
  {u \in {Owner[a]} : \/ u \in Students /\ "student" \in traces[u]
                      \/ u \in Teachers /\ "teacher" \in traces[u] /\ Active(u)}

(* Mutant: a suspended teacher counts as no candidate. *)
LiveCandidate(a) == {u \in Named(a) : user[u].live}

(* findByStudentNum, findMicrosoftLinkCandidateByEmail *)
Candidate(a) == Named(a)

(* A deleted person signs up as somebody new, a suspended teacher is refused. *)
FoundStudent(r) ==
  \E u \in Candidate(req[r].account) \cap Students :
    Active(u) /\ GotoFor(r, "link", u)

FoundTeacher(r) ==
  \E u \in Candidate(req[r].account) \cap Teachers :
    /\ Active(u)
    /\ IF user[u].live THEN GotoFor(r, "link", u) ELSE Finish(r)

(* The candidate and its status. *)
FindPerson(r) ==
  /\ At(r, "person")
  /\ \/ (\A u \in Candidate(req[r].account) : ~Active(u)) /\ Goto(r, "create")
     \/ FoundStudent(r)
     \/ FoundTeacher(r)
  /\ UNCHANGED <<people, keys, calls, breaks>>

(* linkMicrosoftAccount: INSERT ... SELECT.  The link of an account and the   *)
(* link of a user are both unique, and a row that offends both may be refused  *)
(* for either.  A student that is linked already ends there, even if it is     *)
(* linked to this account; a teacher looks who came first. *)
Linkable(u) ==
  /\ Active(u)
  /\ u \in Teachers => user[u].live /\ "teacher" \in traces[u]

LinkPerson(r) ==
  /\ At(r, "link")
  /\ LET u == req[r].user  a == req[r].account IN
     \/ /\ ~Linkable(u)
        /\ Finish(r) /\ UNCHANGED link
     \/ /\ Linkable(u) /\ \E b \in Accounts : link[b] = u
        /\ IF u \in Teachers THEN Goto(r, "raced") ELSE Finish(r)
        /\ UNCHANGED link
     \/ /\ Linkable(u) /\ link[a] # Nobody
        /\ Goto(r, "raced") /\ UNCHANGED link
     \/ /\ Linkable(u) /\ link[a] = Nobody /\ \A b \in Accounts : link[b] # u
        /\ link' = [link EXCEPT ![a] = u]
        /\ Goto(r, "gate")
  /\ UNCHANGED <<people, session, device, marker, bearers, calls, breaks>>

(* An error the code does not know: a student goes on as if there were no    *)
(* candidate, a teacher does not. *)
LinkErrorSwallowed(r) ==
  /\ At(r, "link") /\ req[r].user \in Students
  /\ breaks < MaxBreaks /\ breaks' = breaks + 1
  /\ GotoFor(r, "create", Nobody)
  /\ UNCHANGED <<people, keys, calls>>

(* The same account was linked meanwhile: whoever came first counts.  For a  *)
(* teacher it must be this teacher. *)
FindRaced(r) ==
  /\ At(r, "raced")
  /\ LET u == LinkedTo(req[r].account) IN
       IF u = Nobody \/ (req[r].user \in Teachers /\ u # req[r].user)
         THEN Finish(r) ELSE GotoFor(r, "gate", u)
  /\ UNCHANGED <<people, keys, calls, breaks>>

(* createUserWithMicrosoftLink: the users row first, for its id. *)
CreateUser(r, u) ==
  /\ At(r, "create")
  /\ u \in FreshUser
  /\ user' = [user EXCEPT ![u] = [status |-> "active", live |-> TRUE, purged |-> FALSE,
                                  named |-> TRUE, by |-> req[r].account]]
  /\ GotoFor(r, "insertLink", u)
  /\ UNCHANGED <<traces, late, keys, calls, breaks>>

InsertLink(r) ==
  /\ At(r, "insertLink")
  /\ LET a == req[r].account IN
       IF link[a] = Nobody
         THEN link' = [link EXCEPT ![a] = req[r].user] /\ Goto(r, "gate")
         ELSE UNCHANGED link /\ Goto(r, "undo")
  /\ UNCHANGED <<people, session, device, marker, bearers, calls, breaks>>

(* Any error takes the users row back. *)
LinkBroken(r) ==
  /\ At(r, "insertLink")
  /\ breaks < MaxBreaks /\ breaks' = breaks + 1
  /\ req' = [req EXCEPT ![r].pc = "undo", ![r].found = TRUE]
  /\ UNCHANGED <<people, keys, calls>>

(* Staff and members refer to a users row, which then cannot be deleted. *)
Held(u) == traces[u] \cap {"staff", "member"} # {}
(* Mutant: the compensation is left out. *)
NotUndone(u) == UNCHANGED user
TakenBack(u) == user' = [user EXCEPT ![u] = [NoUser EXCEPT !.status = "undone"]]

(* After a conflict the account's first user is updated instead; another     *)
(* error ends the request, and so does the DELETE if it throws. *)
UndoUser(r) ==
  /\ At(r, "undo")
  /\ IF Held(req[r].user)
       THEN breaks' = breaks + 1 /\ UNCHANGED user /\ Finish(r)
       ELSE /\ TakenBack(req[r].user) /\ UNCHANGED breaks
            /\ IF req[r].found THEN Finish(r) ELSE GotoFor(r, "racedCreate", Nobody)
  /\ UNCHANGED <<traces, late, keys, calls>>

FindRacedUser(r) ==
  /\ At(r, "racedCreate")
  /\ LET u == LinkedTo(req[r].account) IN
       IF u = Nobody THEN Finish(r) ELSE GotoFor(r, "update", u)
  /\ UNCHANGED <<people, keys, calls, breaks>>

(* issueLoginSession: the web is for staff. *)
GateLogin(r) ==
  /\ At(r, "gate")
  /\ IF req[r].client = Web /\ ~IsStaff(req[r].user) THEN Finish(r) ELSE Goto(r, "session")
  /\ UNCHANGED <<people, keys, calls, breaks>>

CreateSession(r, s) ==
  /\ At(r, "session")
  /\ s \in FreshSession
  /\ session' = [session EXCEPT ![s] = req[r].user]
  /\ bearers' = bearers \cup {req[r].user}
  /\ Lately(req[r].user, {"session"})
  /\ Finish(r)
  /\ UNCHANGED <<user, traces, link, device, marker, calls, breaks>>

(* /delete-token: only an account that is linked gets a confirmation. *)
MarkDeletion(r, m) ==
  /\ At(r, "findMarked")
  /\ IF LinkedTo(req[r].account) = Nobody THEN UNCHANGED marker
     ELSE /\ m \in FreshMarker
          /\ marker' = [marker EXCEPT ![m] = LinkedTo(req[r].account)]
  /\ Finish(r)
  /\ UNCHANGED <<people, link, session, device, bearers, calls, breaks>>

-----------------------------------------------------------------------------
(* Refreshing and signing out *)

(* /refresh: the session, then the status and the activity of its user. *)
StartRefresh(r, s) ==
  /\ Call(r, [Caller("rotate", session[s]) EXCEPT !.session = s])
  /\ session[s] \in Users
  /\ Active(session[s]) /\ ~Inactive(session[s])
  /\ UNCHANGED <<people, keys, breaks>>

(* rotate: a new row from what was read, whether or not the old row is still *)
(* there. *)
Rotated(r, s) == [session EXCEPT ![s] = req[r].user, ![req[r].session] = Nobody]
Rotate(r, s) ==
  /\ At(r, "rotate")
  /\ s \in FreshSession
  /\ session' = Rotated(r, s)
  /\ bearers' = bearers \cup {req[r].user}
  /\ Lately(req[r].user, {"session"})
  /\ Finish(r)
  /\ UNCHANGED <<user, traces, link, device, marker, calls, breaks>>

SessionExpires(s) ==
  /\ session[s] # Nobody
  /\ session' = [session EXCEPT ![s] = Nobody]
  /\ UNCHANGED <<people, link, device, marker, bearers, req, calls, breaks>>

(* authenticateActiveUser *)
Recognised(u) == u \in bearers /\ Active(u)

(* /logout: the device and the session are optional, and the client may name *)
(* any, such as those of the user before. *)
StartLogout(r, u, d, s) ==
  /\ Call(r, [Caller(IF d = Nobody THEN "outLatest" ELSE "outDevice", u)
                EXCEPT !.key = d, !.session = s])
  /\ Recognised(u)
  /\ UNCHANGED <<people, keys, breaks>>

(* Mutant: the token is deleted whoever it belongs to. *)
AnyDevice(u, d) == TRUE
OwnDevice(u, d) == device[d] = u

LogoutDevice(r) ==
  /\ At(r, "outDevice")
  /\ LET d == req[r].key IN
       device' = IF OwnDevice(req[r].user, d) THEN [device EXCEPT ![d] = Nobody] ELSE device
  /\ Goto(r, "outLatest")
  /\ UNCHANGED <<people, link, session, marker, bearers, calls, breaks>>

(* attempt: an error is kept for the answer, and the session cleaned up. *)
LogoutDeviceFails(r) ==
  /\ At(r, "outDevice")
  /\ breaks < MaxBreaks /\ breaks' = breaks + 1
  /\ Goto(r, "outLatest")
  /\ UNCHANGED <<people, keys, calls>>

(* cleanupForUser: the session named, or the latest of the user. *)
LogoutSelect(r) ==
  /\ At(r, "outLatest")
  /\ \/ /\ req[r].session # Nobody
        /\ Goto(r, "outSession")
     \/ /\ req[r].session = Nobody
        /\ \E s \in UserSessions(req[r].user) :
             req' = [req EXCEPT ![r].pc = "outSession", ![r].session = s]
     \/ /\ req[r].session = Nobody /\ UserSessions(req[r].user) = {}
        /\ Finish(r)
  /\ UNCHANGED <<people, keys, calls, breaks>>

(* WHERE refresh_token_id = ? AND user_id = ? *)
LogoutSession(r) ==
  /\ At(r, "outSession")
  /\ LET s == req[r].session IN
       session' = IF session[s] = req[r].user THEN [session EXCEPT ![s] = Nobody] ELSE session
  /\ Finish(r)
  /\ UNCHANGED <<people, link, device, marker, bearers, calls, breaks>>

-----------------------------------------------------------------------------
(* Deleting an account: DELETE /auth/me, startAccountDeletion *)

(* The confirmation is read, and then overwritten: two requests may both     *)
(* have read it. *)
StartDelete(r, m) ==
  /\ Call(r, [Caller("spend", marker[m]) EXCEPT !.key = m])
  /\ marker[m] \in Users
  /\ UNCHANGED <<people, keys, breaks>>

SpendMarker(r) ==
  /\ At(r, "spend")
  /\ marker' = [marker EXCEPT ![req[r].key] = Nobody]
  /\ Goto(r, "unlink")
  /\ UNCHANGED <<people, link, session, device, bearers, calls, breaks>>

(* markAsDeleted: the links first, then the status. *)
Unlink(r) ==
  /\ At(r, "unlink")
  /\ link' = [a \in Accounts |-> IF link[a] = req[r].user THEN Nobody ELSE link[a]]
  /\ Goto(r, "mark")
  /\ UNCHANGED <<people, session, device, marker, bearers, calls, breaks>>

MarkDeleted(r) ==
  /\ At(r, "mark")
  /\ user' = [user EXCEPT ![req[r].user].status = "deleted"]
  /\ Goto(r, "dropSessions")
  /\ UNCHANGED <<traces, late, keys, calls, breaks>>

DropSessions(r) ==
  /\ At(r, "dropSessions")
  /\ session' = [s \in Sessions |-> IF session[s] = req[r].user THEN Nobody ELSE session[s]]
  /\ Goto(r, "dropDevices")
  /\ UNCHANGED <<people, link, device, marker, bearers, calls, breaks>>

WithoutDevices(u) == [d \in Devices |-> IF device[d] = u THEN Nobody ELSE device[d]]
DropDevices(r) ==
  /\ At(r, "dropDevices")
  /\ device' = WithoutDevices(req[r].user)
  /\ Goto(r, "purge")
  /\ UNCHANGED <<people, link, session, marker, bearers, calls, breaks>>

-----------------------------------------------------------------------------
(* Purging: deleteRelatedData, of a deletion or of the cron *)

Pending(u) == user[u].status = "deleted" /\ ~user[u].purged

(* Mutant: the cron waits for the sessions to be gone. *)
SignedOutPending(u) == Pending(u) /\ UserSessions(u) = {}
(* findPendingPurgeUserIds *)
Purgeable(u) == Pending(u)

(* retryPendingPurges: the users are purged one after the other. *)
StartPurge(u) ==
  /\ req[Nightly] = NoReq
  /\ Purgeable(u)
  /\ req' = [req EXCEPT ![Nightly] = Caller("purge", u)]
  /\ UNCHANGED <<people, keys, calls, breaks>>

PurgeCheck(r) ==
  /\ At(r, "purge")
  /\ IF Pending(req[r].user) THEN Goto(r, "name") ELSE Finish(r)
  /\ UNCHANGED <<people, keys, calls, breaks>>

AnonymizeUser(r) ==
  /\ At(r, "name")
  /\ user' = [user EXCEPT ![req[r].user].named = FALSE]
  /\ Goto(r, "readDevices")
  /\ UNCHANGED <<traces, late, keys, calls, breaks>>

(* purgeUserNotificationData: the tokens are deleted if there were any. *)
ReadDevices(r) ==
  /\ At(r, "readDevices")
  /\ req' = [req EXCEPT ![r].pc = "audience",
                        ![r].found = UserDevices(req[r].user) # {}]
  /\ UNCHANGED <<people, keys, calls, breaks>>

PurgeDevices(r) ==
  /\ At(r, "purgeDevices")
  /\ device' = IF req[r].found THEN WithoutDevices(req[r].user) ELSE device
  /\ Goto(r, "actor")
  /\ UNCHANGED <<people, link, session, marker, bearers, calls, breaks>>

PurgeTrace(r, kind, next) ==
  /\ At(r, kind)
  /\ traces' = [traces EXCEPT ![req[r].user] = @ \ {kind}]
  /\ Goto(r, next)
  /\ UNCHANGED <<user, late, keys, calls, breaks>>

DeleteAudiences(r) == PurgeTrace(r, "audience", "recipient")
AnonymizeRecipients(r) == PurgeTrace(r, "recipient", "purgeDevices")
AnonymizeActors(r) == PurgeTrace(r, "actor", "staff")
DeleteStaff(r) == PurgeTrace(r, "staff", "teacher")
DeleteTeacher(r) == PurgeTrace(r, "teacher", "student")

(* Mutant: members are left to markAsPurged. *)
SkipMembers(r) == PurgeTrace(r, "student", "markPurged")
(* The students row stays, under another number and in no class. *)
AnonymizeStudent(r) == PurgeTrace(r, "student", "member")
DeleteMembers(r) == PurgeTrace(r, "member", "markPurged")

MarkPurged(r) ==
  /\ At(r, "markPurged")
  /\ user' = [user EXCEPT ![req[r].user].purged = (user[req[r].user].status = "deleted")]
  /\ Finish(r)
  /\ UNCHANGED <<traces, late, keys, calls, breaks>>

PurgeStep(r) ==
  \/ PurgeCheck(r) \/ AnonymizeUser(r) \/ ReadDevices(r) \/ PurgeDevices(r)
  \/ DeleteAudiences(r) \/ AnonymizeRecipients(r) \/ AnonymizeActors(r)
  \/ DeleteStaff(r) \/ DeleteTeacher(r) \/ AnonymizeStudent(r) \/ DeleteMembers(r)
  \/ MarkPurged(r)

-----------------------------------------------------------------------------
(* Devices, staff rights and suspensions *)

(* bearerAuthentication and requireAuth, before the handler. *)
Authenticated(u) == u \in bearers /\ Active(u) /\ ~Inactive(u)
(* requireStaff *)
Authorized(u) == Authenticated(u) /\ IsStaff(u)

StartRegister(r, u, d) ==
  /\ Call(r, [Caller("register", u) EXCEPT !.key = d])
  /\ Authenticated(u)
  /\ UNCHANGED <<people, keys, breaks>>

(* register: a token moves to the user that registers it. *)
Register(r) ==
  /\ At(r, "register")
  /\ device' = [device EXCEPT ![req[r].key] = req[r].user]
  /\ Lately(req[r].user, {"device"})
  /\ Finish(r)
  /\ UNCHANGED <<user, traces, link, session, marker, bearers, calls, breaks>>

(* An admin command writes the user that gave it. *)
StartCommand(r, u) ==
  /\ Call(r, Caller("command", u))
  /\ Authorized(u)
  /\ UNCHANGED <<people, keys, breaks>>

WriteTrace(r, pc, kind) ==
  /\ At(r, pc)
  /\ traces' = [traces EXCEPT ![req[r].user] = @ \cup {kind}]
  /\ Lately(req[r].user, {kind})
  /\ Finish(r)
  /\ UNCHANGED <<user, keys, calls, breaks>>

Command(r) == WriteTrace(r, "command", "actor")

(* A PUT of members inserts them by a SELECT of active users (GroupMembers). *)
AddMember(u) ==
  /\ calls < MaxCalls /\ calls' = calls + 1
  /\ Active(u)
  /\ traces' = [traces EXCEPT ![u] = @ \cup {"member"}]
  /\ UNCHANGED <<user, late, keys, req, breaks>>

(* The resolver inserts recipients by a SELECT of live, active users. *)
AddRecipient(u) ==
  /\ calls < MaxCalls /\ calls' = calls + 1
  /\ Active(u) /\ user[u].live
  /\ traces' = [traces EXCEPT ![u] = @ \cup {"recipient"}]
  /\ UNCHANGED <<user, late, keys, req, breaks>>

(* A staff member asks something about u. *)
StaffCall(r, pc, operator, u) ==
  /\ Call(r, Caller(pc, u))
  /\ Authorized(operator)
  /\ user[u].status # "none"
  /\ UNCHANGED <<people, keys, breaks>>

StartAssign(r, operator, u) == StaffCall(r, "assign", operator, u)
StartRevoke(r, operator, u) == operator # u /\ StaffCall(r, "revoke", operator, u)
StartSuspend(r, operator, u) == operator # u /\ StaffCall(r, "suspend", operator, u)
StartRestore(r, operator, u) == StaffCall(r, "restore", operator, u)

(* ensureUserExists *)
EnsureUser(r, from, to) ==
  /\ At(r, from)
  /\ IF Active(req[r].user) THEN Goto(r, to) ELSE Finish(r)
  /\ UNCHANGED <<people, keys, calls, breaks>>

EnsureAssigned(r) == EnsureUser(r, "assign", "addStaff")
EnsureRevoked(r) == EnsureUser(r, "revoke", "removeStaff")

(* The row refers to a user that is still there. *)
AddStaff(r) ==
  /\ At(r, "addStaff")
  /\ IF user[req[r].user].status # "undone" THEN WriteTrace(r, "addStaff", "staff")
     ELSE Finish(r) /\ UNCHANGED <<people, keys, calls, breaks>>

(* PUT of a student or a teacher.  Neither asks for the status of the account. *)
StartEdit(r, operator, u) == u \in Registered /\ StaffCall(r, "edit", operator, u)
StartMove(r, operator, u) == u \in Students /\ StaffCall(r, "move", operator, u)
(* A notification for u: that its users row is there is all that is asked. *)
StartTarget(r, operator, u) == user[u].status # "undone" /\ StaffCall(r, "target", operator, u)

(* A students row stays for good, a teachers row until a purge. *)
FindEdited(r) ==
  /\ At(r, "edit")
  /\ IF req[r].user \in Teachers => "teacher" \in traces[req[r].user]
       THEN Goto(r, "rewrite") ELSE Finish(r)
  /\ UNCHANGED <<people, keys, calls, breaks>>

(* update of students and of teachers, one batch each.  The name is written,  *)
(* and the number of a student, unless a version was                          *)
(* given that is stale by now or a class room is gone.  Without a version the  *)
(* name is written even if the teachers row went after it was found. *)
Rewrite(r) ==
  /\ At(r, "rewrite")
  /\ LET u == req[r].user
         kept == IF u \in Students THEN {"student"} ELSE {} IN
     \/ UNCHANGED people
     \/ /\ user' = [user EXCEPT ![u].named = TRUE]
        /\ traces' = [traces EXCEPT ![u] = @ \cup kept]
        /\ Lately(u, kept \cup {"name"})
  /\ Finish(r)
  /\ UNCHANGED <<keys, calls, breaks>>

(* updateClassRoom: the class and the number in it. *)
MoveStudent(r) == WriteTrace(r, "move", "student")
TargetUser(r) == WriteTrace(r, "target", "audience")

(* Mutant: the check is left to an earlier statement. *)
NoOtherNeeded(u) == TRUE
(* EXISTS (another staff member that is live and active) *)
OtherActiveStaff(u) == ActiveStaff \ {u} # {}

(* deleteByUserIdUnlessLastActiveStaff *)
RemoveStaff(r) ==
  /\ At(r, "removeStaff")
  /\ traces' = IF OtherActiveStaff(req[r].user)
                 THEN [traces EXCEPT ![req[r].user] = @ \ {"staff"}] ELSE traces
  /\ Finish(r)
  /\ UNCHANGED <<user, late, keys, calls, breaks>>

(* updateLiveActive *)
Suspend(r) ==
  /\ At(r, "suspend")
  /\ LET u == req[r].user IN
       user' = IF Active(u) /\ OtherActiveStaff(u)
                 THEN [user EXCEPT ![u].live = FALSE] ELSE user
  /\ Finish(r)
  /\ UNCHANGED <<traces, late, keys, calls, breaks>>

Restore(r) ==
  /\ At(r, "restore")
  /\ LET u == req[r].user IN
       user' = IF Active(u) THEN [user EXCEPT ![u].live = TRUE] ELSE user
  /\ Finish(r)
  /\ UNCHANGED <<traces, late, keys, calls, breaks>>

-----------------------------------------------------------------------------
(* A statement throws, or the invocation dies. *)
Break(r) ==
  /\ req[r] # NoReq
  /\ breaks < MaxBreaks /\ breaks' = breaks + 1
  /\ Finish(r)
  /\ UNCHANGED <<people, keys, calls>>

AccountsInit ==
  /\ user = [u \in Users |->
       IF u \in Registered
         THEN [status |-> "active", live |-> TRUE, purged |-> FALSE, named |-> TRUE, by |-> Nobody]
         ELSE NoUser]
  /\ traces = [u \in Users |->
       IF u \notin Registered THEN {}
       ELSE {"audience", "recipient", "member"}
            \cup {IF u \in Students THEN "student" ELSE "teacher"}
            \cup (IF u \in Officers THEN {"staff", "actor"} ELSE {})]
  /\ late = [u \in Users |-> {}]
  /\ link = FirstLink
  /\ session = [s \in Sessions |-> FirstKeys[s]]
  /\ device = [d \in Devices |-> FirstKeys[d]]
  /\ marker = [m \in Markers |-> FirstKeys[m]]
  /\ bearers = {FirstLink[a] : a \in Accounts} \ {Nobody}
  /\ req = [r \in Handlers |-> NoReq]
  /\ calls = 0 /\ breaks = 0

(* The requests that are made. *)
Begin(r) ==
  \/ \E a \in Accounts, c \in Clients :
       StartToken(r, a, c) \/ StartCampusToken(r, a, c) \/ StartDeleteToken(r, a, c)
  \/ \E s \in Sessions : StartRefresh(r, s)
  \/ \E m \in Markers : StartDelete(r, m)
  \/ \E u \in Users, d \in Devices \cup {Nobody}, s \in Sessions \cup {Nobody} :
       StartLogout(r, u, d, s)
  \/ \E u \in Users : StartCommand(r, u) \/ \E d \in Devices : StartRegister(r, u, d)
  \/ \E o, u \in Users : \/ StartAssign(r, o, u) \/ StartRevoke(r, o, u)
                         \/ StartSuspend(r, o, u) \/ StartRestore(r, o, u)
                         \/ StartEdit(r, o, u) \/ StartMove(r, o, u) \/ StartTarget(r, o, u)

SignIn(r) ==
  \/ FindLinked(r) \/ CheckLinked(r) \/ UpdateUser(r) \/ FindPerson(r) \/ LinkPerson(r)
  \/ LinkErrorSwallowed(r) \/ FindRaced(r) \/ (\E u \in Users : CreateUser(r, u))
  \/ InsertLink(r) \/ LinkBroken(r) \/ UndoUser(r) \/ FindRacedUser(r) \/ GateLogin(r)
  \/ (\E s \in Sessions : CreateSession(r, s)) \/ (\E m \in Markers : MarkDeletion(r, m))

SignOut(r) ==
  \/ \E s \in Sessions : Rotate(r, s)
  \/ LogoutDevice(r) \/ LogoutDeviceFails(r) \/ LogoutSelect(r) \/ LogoutSession(r)

Delete(r) ==
  SpendMarker(r) \/ Unlink(r) \/ MarkDeleted(r) \/ DropSessions(r) \/ DropDevices(r)

Manage(r) ==
  \/ Register(r) \/ Command(r) \/ EnsureAssigned(r) \/ EnsureRevoked(r) \/ AddStaff(r)
  \/ RemoveStaff(r) \/ Suspend(r) \/ Restore(r)
  \/ FindEdited(r) \/ Rewrite(r) \/ MoveStudent(r) \/ TargetUser(r)

Proceed(r) == SignIn(r) \/ SignOut(r) \/ Delete(r) \/ Manage(r) \/ PurgeStep(r) \/ Break(r)

AccountsNext ==
  \/ \E s \in Sessions : SessionExpires(s)
  \/ calls < MaxCalls /\ \E r \in Callers : Begin(r)
  \/ \E u \in Users : AddMember(u) \/ AddRecipient(u) \/ StartPurge(u)
  \/ \E r \in Handlers : req[r] # NoReq /\ Proceed(r)

(* The cron comes again every day and finishes what it starts. *)
AccountsFairness ==
  /\ WF_accountsVars(\E u \in Users : StartPurge(u))
  /\ WF_accountsVars(PurgeStep(Nightly))

AccountsSpec == AccountsInit /\ [][AccountsNext]_accountsVars /\ AccountsFairness

=============================================================================
