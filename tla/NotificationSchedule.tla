------------------------- MODULE NotificationSchedule -------------------------
(***************************************************************************)
(* One notification and its schedules, from their creation to the moment   *)
(* the recipients are fixed and PushDelivery takes over.  Resolver crons   *)
(* turn audiences into recipients while staff edit, delete, cancel and     *)
(* resend, while targets disappear and users come and go.  A statement or  *)
(* a batch is one step.                                                    *)
(***************************************************************************)
EXTENDS Integers, FiniteSets

CONSTANTS
  Schedules,    \* ids the notification_schedules may get
  First,        \* the one created with the notification
  Targets,      \* what an audience may name
  Everyone,     \* the target of audience_type 'all'
  UserTargets,  \* targets of audience_type 'user'
  Source,       \* the gathering an automatic notification is about
  Users,
  Resolvers,    \* overlapping invocations of the minute cron
  Editors,      \* concurrent staff requests
  Nobody,       \* no schedule, no target
  MaxEdits,     \* bound: staff requests
  Returning,    \* bound: the users who join targets or are restored
  MaxFaults     \* bound: statements of a resolver that throw, and crashes

ASSUME ScheduleConstants ==
  /\ First \in Schedules
  /\ UserTargets \subseteq Targets /\ Everyone \notin UserTargets
  /\ Source \in Targets \ (UserTargets \cup {Everyone})
  /\ Returning \subseteq Users
  /\ Nobody \notin Targets \cup Schedules
  /\ MaxEdits \in Nat /\ MaxFaults \in Nat

VARIABLES
  automatic,     \* source_type = 'gathering', with source_id = Source
  notification,  \* the notifications row: absent, present or deleted
  content,       \* its push texts, a version that flips with every edit
  schedule,      \* its notification_schedules rows
  audience,      \* the notification_audiences of each schedule
  recipients,    \* the notification_recipients of each schedule
  exists,        \* the targets that are still there
  members,       \* the users of each target
  active,        \* users with is_live_active = 1, deletion_status = 'active'
  resolver,      \* resolver invocations
  editor,        \* staff requests between their check and their batch
  steady,        \* history: users a started schedule meant all the time
  edits, faults

rows == <<notification, content, schedule, audience, recipients>>
people == <<automatic, exists, members, active>>
vars == <<automatic, notification, content, schedule, audience, recipients, exists,
          members, active, resolver, editor, steady, edits, faults>>

-----------------------------------------------------------------------------
(* Rows and invocations *)

SendStatus == {"scheduled", "resolving", "sending", "failed", "stopped"}

(* started: started_at, resolved: recipients_resolved_at, due: send_at has  *)
(* come, held: failed_reason = AUTOMATIC_SYNC_PENDING.  `unused` is an id   *)
(* not given out yet; sending stands for all that PushDelivery does later.  *)
ScheduleRow ==
  [status: SendStatus \cup {"unused", "deleted"},
   started: BOOLEAN, resolved: BOOLEAN, due: BOOLEAN, held: BOOLEAN]
NoRow(status) == [status |-> status, started |-> FALSE, resolved |-> FALSE,
                  due |-> FALSE, held |-> FALSE]
NewSchedule(due) == [NoRow("scheduled") EXCEPT !.due = due]

AudienceState == {"none", "open", "resolved"}
NoAudience == [t \in Targets |-> "none"]
Opened(T) == [t \in Targets |-> IF t \in T THEN "open" ELSE "none"]

ResolverPc == {"idle", "claim", "audiences", "check", "insert", "complete", "fail"}
ResolverState ==
  [pc: ResolverPc, todo: SUBSET Schedules, claims: SUBSET Schedules,
   current: Schedules \cup {Nobody}, list: SUBSET Targets,
   target: Targets \cup {Nobody}]
IdleResolver == [pc |-> "idle", todo |-> {}, claims |-> {}, current |-> Nobody,
                 list |-> {}, target |-> Nobody]

EditorState ==
  [pc: {"idle", "patch", "delete"}, schedule: Schedules \cup {Nobody},
   targets: SUBSET Targets, later: BOOLEAN]
IdleEditor == [pc |-> "idle", schedule |-> Nobody, targets |-> {}, later |-> FALSE]

Present(s) == schedule[s].status \notin {"unused", "deleted"}
NoneStarted == \A s \in Schedules : Present(s) => ~schedule[s].started
TargetsOf(s) == {t \in Targets : audience[s][t] # "none"}

(* areAudienceTargetsAvailable *)
Available(t) == t = Everyone \/ t \in exists

(* buildAudienceUserSelect *)
MembersOf(t) == IF t = Everyone THEN active ELSE members[t] \cap active

-----------------------------------------------------------------------------
(* resolveDueSchedules *)

(* findDueCandidates *)
Candidate(s) ==
  /\ schedule[s].status \in {"scheduled", "resolving"}
  /\ ~schedule[s].resolved /\ ~schedule[s].held /\ schedule[s].due

(* On to the next candidate.  They come in the order of send_at, which the  *)
(* model leaves open.                                                       *)
Turn(r, todo, claims) ==
  IF todo = {} THEN resolver' = [resolver EXCEPT ![r] = IdleResolver]
  ELSE \E s \in todo : resolver' = [resolver EXCEPT ![r] =
         [IdleResolver EXCEPT !.pc = IF s \in claims THEN "claim" ELSE "audiences",
                              !.todo = todo \ {s}, !.claims = claims \ {s},
                              !.current = s]]
Leave(r) == Turn(r, resolver[r].todo, resolver[r].claims)

FindDueCandidates(r) ==
  LET found == {s \in Schedules : Candidate(s)}
  IN /\ resolver[r].pc = "idle"
     /\ found # {}
     /\ Turn(r, found, {s \in found : schedule[s].status = "scheduled"})
     /\ UNCHANGED <<rows, people, editor, steady, edits, faults>>

Resolving(s) == schedule[s].status = "resolving" /\ ~schedule[s].resolved

(* Mutant: the claim trusts the list of candidates. *)
ClaimableUnchecked(s) == schedule[s].status = "scheduled" /\ schedule[s].due

Claimable(s) ==
  /\ schedule[s].status = "scheduled" /\ ~schedule[s].resolved
  /\ ~schedule[s].held /\ schedule[s].due

(* Mutant: the claim does not set started_at. *)
ClaimedUnmarked(row) == [row EXCEPT !.status = "resolving"]
Claimed(row) == [row EXCEPT !.status = "resolving", !.started = TRUE]

ClaimScheduled(r) ==
  LET s == resolver[r].current
  IN /\ resolver[r].pc = "claim"
     /\ IF Claimable(s)
          THEN /\ schedule' = [schedule EXCEPT ![s] = Claimed(@)]
               /\ steady' = [steady EXCEPT ![s] =
                    UNION {MembersOf(t) : t \in TargetsOf(s)}]
               /\ resolver' = [resolver EXCEPT ![r].pc = "audiences"]
          ELSE Leave(r) /\ UNCHANGED <<schedule, steady>>
     /\ UNCHANGED <<notification, content, audience, recipients, people, editor,
                    edits, faults>>

(* On to the next audience, if there is one left. *)
Proceed(r, list) == resolver' = [resolver EXCEPT
  ![r].pc = IF list = {} THEN "complete" ELSE "check",
  ![r].list = list, ![r].target = Nobody]

FindUnresolvedAudiences(r) ==
  LET s == resolver[r].current
  IN /\ resolver[r].pc = "audiences"
     /\ Proceed(r, {t \in Targets : audience[s][t] = "open" /\ Resolving(s)})
     /\ UNCHANGED <<rows, people, editor, steady, edits, faults>>

(* resolveAudience, first its own SELECT: is the target still there?  A      *)
(* target that is gone fails the schedule.                                  *)
CheckTarget(r) ==
  /\ resolver[r].pc = "check"
  /\ \E t \in resolver[r].list :
       resolver' = [resolver EXCEPT
         ![r].pc = IF Available(t) THEN "insert" ELSE "fail",
         ![r].list = @ \ {t}, ![r].target = t]
  /\ UNCHANGED <<rows, people, editor, steady, edits, faults>>

(* Mutants of the batch: the users are inserted whatever became of the       *)
(* schedule, or after the audience was marked; or the ids of the target are  *)
(* inserted instead of those of its users.                                  *)
InsertedAfterMark(s, t) ==
  IF audience[s][t] = "resolved" /\ Resolving(s) THEN MembersOf(t) ELSE {}
InsertedUnguarded(s, t) == IF audience[s][t] = "open" THEN MembersOf(t) ELSE {}
InsertedTargets(s, t) ==
  IF audience[s][t] = "open" /\ Resolving(s) THEN {t} ELSE {}

(* ... then one batch that inserts its users and marks the audience. *)
Inserted(s, t) ==
  IF audience[s][t] = "open" /\ Resolving(s) THEN MembersOf(t) ELSE {}

InsertRecipients(r) ==
  LET s == resolver[r].current
      t == resolver[r].target
  IN /\ resolver[r].pc = "insert"
     /\ recipients' = [recipients EXCEPT ![s] = @ \cup Inserted(s, t)]
     /\ audience' = [audience EXCEPT ![s][t] =
          IF @ = "open" /\ Resolving(s) THEN "resolved" ELSE @]
     /\ Proceed(r, resolver[r].list)
     /\ UNCHANGED <<notification, content, schedule, people, editor, steady, edits,
                    faults>>

(* completeScheduleIfResolved *)
Completable(s) == Resolving(s) /\ \A t \in Targets : audience[s][t] # "open"

CompleteScheduleIfResolved(r) ==
  LET s == resolver[r].current
  IN /\ resolver[r].pc = "complete"
     /\ schedule' = IF Completable(s)
          THEN [schedule EXCEPT ![s].resolved = TRUE] ELSE schedule
     /\ Leave(r)
     /\ UNCHANGED <<notification, content, audience, recipients, people, editor,
                    steady, edits, faults>>

(* Mutant: the schedule is left to be tried again. *)
FailedLeft(row) == row
Failed(row) == [row EXCEPT !.status = "failed"]

FailSchedule(r) ==
  LET s == resolver[r].current
  IN /\ resolver[r].pc = "fail"
     /\ schedule' = IF Resolving(s)
          THEN [schedule EXCEPT ![s] = Failed(@)] ELSE schedule
     /\ Leave(r)
     /\ UNCHANGED <<notification, content, audience, recipients, people, editor,
                    steady, edits, faults>>

(* A statement throws: the schedule is left for the next cron.  Or the      *)
(* whole invocation dies.                                                   *)
ResolverFails(r) ==
  /\ resolver[r].pc # "idle"
  /\ faults < MaxFaults
  /\ faults' = faults + 1
  /\ \/ Leave(r)
     \/ resolver' = [resolver EXCEPT ![r] = IdleResolver]
  /\ UNCHANGED <<rows, people, editor, steady, edits>>

Resolve(r) ==
  \/ FindDueCandidates(r) \/ ClaimScheduled(r)
  \/ FindUnresolvedAudiences(r) \/ CheckTarget(r) \/ InsertRecipients(r)
  \/ CompleteScheduleIfResolved(r) \/ FailSchedule(r)

-----------------------------------------------------------------------------
(* Staff *)

Request(e) == edits < MaxEdits /\ edits' = edits + 1 /\ editor[e].pc = "idle"

(* createNotification: notification, schedule and audiences in one batch.   *)
(* The targets are checked before it.                                       *)
Created(T, due) ==
  /\ notification = "absent"
  /\ notification' = "present"
  /\ schedule' = [schedule EXCEPT ![First] = NewSchedule(due)]
  /\ audience' = [audience EXCEPT ![First] = Opened(T)]
  /\ UNCHANGED <<content, recipients, people, resolver, editor, steady, faults>>

CreateNotification(e) ==
  /\ Request(e)
  /\ ~automatic
  /\ \E T \in SUBSET Targets \ {{}}, due \in BOOLEAN :
       (\A t \in T : Available(t)) /\ Created(T, due)

(* patchNotification, first its checks: nothing has started, the schedule   *)
(* belongs to the notification, the new targets are there.                  *)
PatchNotification(e) ==
  /\ Request(e)
  /\ notification = "present" /\ NoneStarted
  /\ \E s \in Schedules, T \in SUBSET Targets, later \in BOOLEAN :
       /\ Present(s)
       /\ \A t \in T : Available(t)
       /\ editor' = [editor EXCEPT ![e] =
            [pc |-> "patch", schedule |-> s, targets |-> T, later |-> later]]
  /\ UNCHANGED <<rows, people, resolver, steady, faults>>

(* Mutant: the batch relies on the checks made before it. *)
EditableUnchecked(s) == notification = "present" /\ Present(s)

Editable(s) == notification = "present" /\ NoneStarted /\ Present(s)

(* ... then update, one batch whose statements carry the same guard: the    *)
(* texts, send_at if it is moved, the audiences if there are new ones.      *)
ApplyPatch(e) ==
  LET s == editor[e].schedule
  IN /\ editor[e].pc = "patch"
     /\ IF Editable(s)
          THEN /\ content' = 1 - content
               /\ schedule' = [schedule EXCEPT
                    ![s].due = @ /\ ~editor[e].later]
               /\ audience' = IF editor[e].targets = {} THEN audience
                    ELSE [audience EXCEPT ![s] = Opened(editor[e].targets)]
          ELSE UNCHANGED <<content, schedule, audience>>
     /\ editor' = [editor EXCEPT ![e] = IdleEditor]
     /\ UNCHANGED <<notification, recipients, people, resolver, steady, edits, faults>>

DeleteNotification(e) ==
  /\ Request(e)
  /\ ~automatic
  /\ notification = "present" /\ NoneStarted
  /\ editor' = [editor EXCEPT ![e] = [IdleEditor EXCEPT !.pc = "delete"]]
  /\ UNCHANGED <<rows, people, resolver, steady, faults>>

(* Deleting a schedule takes its audiences and recipients along (cascade). *)
Deleted(S) ==
  /\ schedule' = [s \in Schedules |->
       IF s \in S THEN NoRow("deleted") ELSE schedule[s]]
  /\ audience' = [s \in Schedules |-> IF s \in S THEN NoAudience ELSE audience[s]]
  /\ recipients' = [s \in Schedules |-> IF s \in S THEN {} ELSE recipients[s]]
  /\ steady' = [s \in Schedules |-> IF s \in S THEN {} ELSE steady[s]]

(* deleteUnstartedManual: all schedules if none has started, and the        *)
(* notification if no schedule is left.                                     *)
ApplyDelete(e) ==
  LET S == {s \in Schedules : Present(s) /\ NoneStarted}
  IN /\ editor[e].pc = "delete"
     /\ Deleted(S)
     /\ notification' =
          IF notification = "present" /\ \A s \in Schedules : Present(s) => s \in S
            THEN "deleted" ELSE notification
     /\ editor' = [editor EXCEPT ![e] = IdleEditor]
     /\ UNCHANGED <<content, people, resolver, edits, faults>>

(* Mutant: a schedule that is being resolved can be cancelled. *)
CancellableResolving(s) == Present(s) /\ ~schedule[s].resolved /\ recipients[s] = {}

(* cancelUnstarted, one statement *)
Cancellable(s) ==
  /\ schedule[s].status = "scheduled" /\ ~schedule[s].started
  /\ ~schedule[s].resolved /\ recipients[s] = {}

CancelSchedule(e) ==
  /\ Request(e)
  /\ \E s \in Schedules : Cancellable(s) /\ Deleted({s})
  /\ UNCHANGED <<notification, content, people, resolver, editor, faults>>

(* createResend: a new schedule with the audiences of another one, unless   *)
(* the gathering it is about has gone.                                      *)
ResendSchedule(e) ==
  /\ Request(e)
  /\ automatic => Source \in exists
  /\ \E from, s \in Schedules, due \in BOOLEAN :
       /\ Present(from) /\ s # First /\ schedule[s].status = "unused"
       /\ schedule' = [schedule EXCEPT ![s] = NewSchedule(due)]
       /\ audience' = [audience EXCEPT ![s] = Opened(TargetsOf(from))]
  /\ UNCHANGED <<notification, content, recipients, people, resolver, editor, steady,
                 faults>>

Staff(e) ==
  \/ CreateNotification(e) \/ PatchNotification(e) \/ ApplyPatch(e)
  \/ DeleteNotification(e) \/ ApplyDelete(e) \/ CancelSchedule(e) \/ ResendSchedule(e)

-----------------------------------------------------------------------------
(* What other components and the clock do to the rows *)

BecomeDue(s) ==
  /\ schedule[s].status = "scheduled" /\ ~schedule[s].due
  /\ schedule' = [schedule EXCEPT ![s].due = TRUE]
  /\ UNCHANGED <<notification, content, audience, recipients, people, resolver,
                 editor, steady, edits, faults>>

(* The gathering sync creates the notification, holds its schedule back or  *)
(* lifts the hold, and rewrites it; staff may have changed it meanwhile.    *)
CreateAutomatic ==
  /\ automatic /\ Source \in exists
  /\ \E due \in BOOLEAN : Created({Source}, due)
  /\ UNCHANGED edits

Syncable ==
  /\ automatic /\ Source \in exists
  /\ schedule[First].status = "scheduled" /\ ~schedule[First].started

ChangeHold ==
  /\ Syncable
  /\ schedule' = [schedule EXCEPT ![First].held = ~@]
  /\ UNCHANGED <<notification, content, audience, recipients, people, resolver,
                 editor, steady, edits, faults>>

RewriteAutomatic ==
  /\ Syncable /\ NoneStarted
  /\ content' = 1 - content
  /\ \E due \in BOOLEAN : schedule' = [schedule EXCEPT ![First].due = due]
  /\ UNCHANGED <<notification, audience, recipients, people, resolver, editor,
                 steady, edits, faults>>

(* prepareResolvedSchedule of PushDelivery takes over. *)
StartSending(s) ==
  /\ schedule[s].status = "resolving" /\ schedule[s].resolved
  /\ schedule' = [schedule EXCEPT ![s].status = "sending"]
  /\ UNCHANGED <<notification, content, audience, recipients, people, resolver,
                 editor, steady, edits, faults>>

(* Staff stop what is sending. *)
Stop(s) ==
  /\ schedule[s].status = "sending"
  /\ schedule' = [schedule EXCEPT ![s].status = "stopped"]
  /\ UNCHANGED <<notification, content, audience, recipients, people, resolver,
                 editor, steady, edits, faults>>

(* A user whom an audience no longer means need not be reached by it. *)
Forgotten(s, lost, T) ==
  IF TargetsOf(s) \cap T = {} THEN steady[s] ELSE steady[s] \ lost

(* notificationCleanup with the deletion of the source: what has started is *)
(* stopped, what has not is deleted, and so is a notification without       *)
(* schedules.                                                               *)
Unstarted(s) == schedule[s].status = "scheduled" /\ ~schedule[s].started
CleanUp ==
  /\ schedule' = [s \in Schedules |->
       IF Unstarted(s) THEN NoRow("deleted")
       ELSE IF schedule[s].status \in {"resolving", "sending"}
         THEN [schedule[s] EXCEPT !.status = "stopped"]
       ELSE schedule[s]]
  /\ audience' = [s \in Schedules |->
       IF Unstarted(s) THEN NoAudience ELSE audience[s]]
  /\ notification' =
       IF notification = "present" /\ \A s \in Schedules : Present(s) => Unstarted(s)
         THEN "deleted" ELSE notification

(* A class room, gathering or event is deleted, or a user account. *)
DropTarget(t) ==
  /\ t \in exists
  /\ exists' = exists \ {t}
  /\ members' = [members EXCEPT ![t] = {}]
  /\ steady' = [s \in Schedules |-> Forgotten(s, members[t], {t})]
  /\ IF automatic /\ t = Source THEN CleanUp
       ELSE UNCHANGED <<notification, schedule, audience>>
  /\ UNCHANGED <<automatic, content, recipients, active, resolver, editor, edits,
                 faults>>

(* deleteDirectUserAudiencesByUserId: the purge of a deleted account fails  *)
(* the schedules that name the user and drops these audiences.              *)
PurgeUserTarget(t) ==
  /\ t \in UserTargets \ exists
  /\ schedule' = [s \in Schedules |->
       IF /\ audience[s][t] # "none" /\ ~schedule[s].resolved
          /\ schedule[s].status \in {"scheduled", "resolving"}
         THEN [schedule[s] EXCEPT !.status = "failed"] ELSE schedule[s]]
  /\ audience' = [s \in Schedules |-> [audience[s] EXCEPT ![t] = "none"]]
  /\ UNCHANGED <<notification, content, recipients, people, resolver, editor, steady,
                 edits, faults>>

(* Users join and leave targets, are suspended and come back. *)
Join(u, t) ==
  /\ u \in Returning /\ t \in exists /\ u \notin members[t]
  /\ members' = [members EXCEPT ![t] = @ \cup {u}]
  /\ UNCHANGED <<rows, automatic, exists, active, resolver, editor, steady, edits,
                 faults>>

Depart(u, t) ==
  /\ u \in members[t] /\ t \notin UserTargets
  /\ members' = [members EXCEPT ![t] = @ \ {u}]
  /\ steady' = [s \in Schedules |-> Forgotten(s, {u}, {t})]
  /\ UNCHANGED <<rows, automatic, exists, active, resolver, editor, edits, faults>>

Suspend(u) ==
  /\ u \in active
  /\ active' = active \ {u}
  /\ steady' = [s \in Schedules |-> steady[s] \ {u}]
  /\ UNCHANGED <<rows, automatic, exists, members, resolver, editor, edits, faults>>

Restore(u) ==
  /\ u \in Returning \ active
  /\ active' = active \cup {u}
  /\ UNCHANGED <<rows, automatic, exists, members, resolver, editor, steady, edits,
                 faults>>

World ==
  \/ \E s \in Schedules : BecomeDue(s) \/ StartSending(s) \/ Stop(s)
  \/ CreateAutomatic \/ ChangeHold \/ RewriteAutomatic
  \/ \E t \in Targets : DropTarget(t) \/ PurgeUserTarget(t)
  \/ \E u \in Users, t \in Targets : Join(u, t) \/ Depart(u, t)
  \/ \E u \in Users : Suspend(u) \/ Restore(u)

-----------------------------------------------------------------------------
Init ==
  /\ automatic \in BOOLEAN
  /\ notification = "absent" /\ content = 0
  /\ schedule = [s \in Schedules |-> NoRow("unused")]
  /\ audience = [s \in Schedules |-> NoAudience]
  /\ recipients = [s \in Schedules |-> {}]
  /\ exists = Targets \ {Everyone}
  /\ members = [t \in Targets |-> IF t = Everyone THEN {} ELSE Users]
  /\ active = Users
  /\ resolver = [r \in Resolvers |-> IdleResolver]
  /\ editor = [e \in Editors |-> IdleEditor]
  /\ steady = [s \in Schedules |-> {}]
  /\ edits = 0 /\ faults = 0

Next ==
  \/ \E r \in Resolvers : Resolve(r) \/ ResolverFails(r)
  \/ \E e \in Editors : Staff(e)
  \/ World

Spec == Init /\ [][Next]_vars
=============================================================================
