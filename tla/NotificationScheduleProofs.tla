---------------------- MODULE NotificationScheduleProofs ----------------------
(***************************************************************************)
(* What holds of a notification and its schedules for every number of      *)
(* schedules, targets, users, resolvers and staff requests.                *)
(***************************************************************************)
EXTENDS NotificationScheduleProps, TLAPS

-----------------------------------------------------------------------------
(* Types of the rows and of the invocations *)

LEMMA RowTypes ==
  /\ \A status \in SendStatus \cup {"unused", "deleted"} : NoRow(status) \in ScheduleRow
  /\ \A due \in BOOLEAN : NewSchedule(due) \in ScheduleRow
  /\ \A row \in ScheduleRow : Claimed(row) \in ScheduleRow /\ Failed(row) \in ScheduleRow
  BY DEF NoRow, NewSchedule, Claimed, Failed, ScheduleRow, SendStatus

LEMMA RowUpdates ==
  ASSUME NEW row \in ScheduleRow, NEW b \in BOOLEAN, NEW status \in SendStatus
  PROVE  /\ [row EXCEPT !.due = b] \in ScheduleRow
         /\ [row EXCEPT !.held = b] \in ScheduleRow
         /\ [row EXCEPT !.status = status] \in ScheduleRow
  BY DEF ScheduleRow

LEMMA AudienceTypes ==
  /\ NoAudience \in [Targets -> AudienceState]
  /\ \A T : Opened(T) \in [Targets -> AudienceState]
  BY DEF NoAudience, Opened, AudienceState

LEMMA IdleTypes == IdleResolver \in BusyResolver /\ IdleEditor \in EditorState
  BY DEF IdleResolver, BusyResolver, ResolverState, ResolverPc, IdleEditor, EditorState

LEMMA MembersType ==
  ASSUME TypeOK, NEW t \in Targets
  PROVE  MembersOf(t) \in SUBSET Users
  BY DEF MembersOf, TypeOK

LEMMA TurnType ==
  ASSUME TypeOK, NEW r \in Resolvers, NEW todo \in SUBSET Schedules,
         NEW claims \in SUBSET Schedules, Turn(r, todo, claims)
  PROVE  resolver' \in [Resolvers -> BusyResolver]
<1>1. CASE todo = {}
  BY <1>1, IdleTypes DEF Turn, TypeOK
<1>2. CASE todo # {}
  <2> DEFINE pc(s) == IF s \in claims THEN "claim" ELSE "audiences"
             v(s) == [IdleResolver EXCEPT !.pc = pc(s), !.todo = todo \ {s},
                        !.claims = claims \ {s}, !.current = s]
  <2>1. PICK s \in todo : resolver' = [resolver EXCEPT ![r] = v(s)]
    BY <1>2 DEF Turn
  <2>2. v(s) \in BusyResolver
    <3> DEFINE p == pc(s)
               rest == todo \ {s}
               unclaimed == claims \ {s}
    <3>1. /\ p \in ResolverPc \ {"insert"} /\ s \in Schedules
          /\ rest \in SUBSET Schedules /\ unclaimed \in SUBSET Schedules
      BY DEF ResolverPc
    <3> HIDE DEF p, rest, unclaimed
    <3>2. [IdleResolver EXCEPT !.pc = p, !.todo = rest, !.claims = unclaimed, !.current = s]
            \in BusyResolver
      BY <3>1, IdleTypes DEF BusyResolver, ResolverState
    <3> QED
      BY <3>2 DEF p, rest, unclaimed
  <2> HIDE DEF v
  <2> QED
    BY <2>1, <2>2 DEF TypeOK
<1> QED
  BY <1>1, <1>2

LEMMA LeaveType ==
  ASSUME TypeOK, NEW r \in Resolvers, Leave(r)
  PROVE  resolver' \in [Resolvers -> BusyResolver]
  BY TurnType DEF Leave, TypeOK, BusyResolver, ResolverState

LEMMA ProceedType ==
  ASSUME TypeOK, NEW r \in Resolvers, resolver[r].pc # "idle",
         NEW list \in SUBSET Targets, Proceed(r, list)
  PROVE  resolver' \in [Resolvers -> BusyResolver]
<1> DEFINE pc == IF list = {} THEN "complete" ELSE "check"
           v == [resolver[r] EXCEPT !.pc = pc, !.list = list, !.target = Nobody]
<1>1. /\ pc \in ResolverPc \ {"insert"}
      /\ resolver[r] \in ResolverState /\ resolver[r].current \in Schedules
  BY DEF ResolverPc, TypeOK, BusyResolver
<1>2. v \in BusyResolver
  <2> HIDE DEF pc
  <2> QED
    BY <1>1 DEF BusyResolver, ResolverState
<1>3. resolver' = [resolver EXCEPT ![r] = v]
  BY DEF Proceed, TypeOK
<1> HIDE DEF v
<1> QED
  BY <1>2, <1>3 DEF TypeOK

-----------------------------------------------------------------------------
(* Type correctness, action by action *)

LEMMA ClaimTypeOK ==
  ASSUME TypeOK, NEW r \in Resolvers, ClaimScheduled(r)
  PROVE  TypeOK'
<1> USE DEF rows, people
<1> DEFINE s == resolver[r].current
           meant == UNION {MembersOf(t) : t \in TargetsOf(s)}
<1>1. /\ resolver[r] \in ResolverState /\ s \in Schedules
      /\ \A z \in Schedules : schedule[z] \in ScheduleRow
  BY DEF TypeOK, BusyResolver, ClaimScheduled
<1>2. meant \in SUBSET Users
  BY MembersType DEF TargetsOf
<1>3. CASE ~Claimable(s)
  BY <1>3, LeaveType DEF ClaimScheduled, TypeOK
<1>4. CASE Claimable(s)
  <2>1. schedule' \in [Schedules -> ScheduleRow]
    BY <1>1, <1>4, RowTypes DEF ClaimScheduled, TypeOK
  <2>2. steady' = [steady EXCEPT ![s] = meant]
    BY <1>4 DEF ClaimScheduled
  <2>3. [resolver[r] EXCEPT !.pc = "audiences"] \in BusyResolver
    BY <1>1 DEF BusyResolver, ResolverState, ResolverPc
  <2>4. resolver' \in [Resolvers -> BusyResolver]
    BY <1>4, <2>3 DEF ClaimScheduled, TypeOK
  <2> HIDE DEF meant, s
  <2>5. steady' \in [Schedules -> SUBSET Users]
    BY <1>2, <2>2 DEF TypeOK
  <2> QED
    BY <2>1, <2>4, <2>5 DEF ClaimScheduled, TypeOK
<1> QED
  BY <1>3, <1>4

LEMMA CheckTypeOK ==
  ASSUME TypeOK, NEW r \in Resolvers, CheckTarget(r)
  PROVE  TypeOK'
<1> USE DEF rows, people
<1>1. resolver[r] \in ResolverState /\ resolver[r].current \in Schedules
  BY DEF TypeOK, BusyResolver, CheckTarget
<1>2. PICK t \in resolver[r].list :
        resolver' = [resolver EXCEPT ![r].pc = IF Available(t) THEN "insert" ELSE "fail",
                                     ![r].list = @ \ {t}, ![r].target = t]
  BY DEF CheckTarget
<1> DEFINE pc == IF Available(t) THEN "insert" ELSE "fail"
           list == resolver[r].list \ {t}
           v == [resolver[r] EXCEPT !.pc = pc, !.list = list, !.target = t]
<1>3. pc \in ResolverPc /\ list \in SUBSET Targets /\ t \in Targets
  BY <1>1 DEF ResolverPc, ResolverState
<1>4. v \in BusyResolver
  <2> HIDE DEF pc, list
  <2> QED
    BY <1>1, <1>3 DEF BusyResolver, ResolverState
<1>5. resolver' = [resolver EXCEPT ![r] = v]
  BY <1>2 DEF TypeOK
<1> HIDE DEF v
<1> QED
  BY <1>4, <1>5 DEF CheckTarget, TypeOK

LEMMA InsertTypeOK ==
  ASSUME TypeOK, NEW r \in Resolvers, InsertRecipients(r)
  PROVE  TypeOK'
<1> USE DEF rows, people
<1> DEFINE s == resolver[r].current
           t == resolver[r].target
           inserted == Inserted(s, t)
           mark == IF audience[s][t] = "open" /\ Resolving(s)
                     THEN "resolved" ELSE audience[s][t]
<1>1. resolver[r] \in ResolverState /\ s \in Schedules /\ t \in Targets
  BY DEF TypeOK, BusyResolver, InsertRecipients
<1>2. resolver' \in [Resolvers -> BusyResolver]
  BY <1>1, ProceedType DEF InsertRecipients, ResolverState
<1>3. inserted \in SUBSET Users
  BY <1>1, MembersType DEF Inserted
<1>4. recipients' \in [Schedules -> SUBSET Users]
  <2>1. recipients' = [recipients EXCEPT ![s] = @ \cup inserted]
    BY DEF InsertRecipients
  <2> HIDE DEF inserted, s
  <2> QED
    BY <1>1, <1>3, <2>1 DEF TypeOK
<1>5. audience' \in [Schedules -> [Targets -> AudienceState]]
  <2>1. audience' = [audience EXCEPT ![s] = [audience[s] EXCEPT ![t] = mark]]
    BY DEF InsertRecipients, TypeOK
  <2>2. mark \in AudienceState
    BY <1>1 DEF TypeOK, AudienceState
  <2> HIDE DEF mark, s, t
  <2> QED
    BY <1>1, <2>1, <2>2 DEF TypeOK
<1> QED
  BY <1>2, <1>4, <1>5 DEF InsertRecipients, TypeOK

LEMMA ResolveTypeOK ==
  ASSUME TypeOK, NEW r \in Resolvers, Resolve(r)
  PROVE  TypeOK'
<1> USE DEF rows, people
<1>1. \A s \in Schedules : schedule[s] \in ScheduleRow
  BY DEF TypeOK
<1>2. CASE FindDueCandidates(r)
  <2>1. resolver' \in [Resolvers -> BusyResolver]
    BY <1>2, TurnType DEF FindDueCandidates
  <2> QED
    BY <1>2, <2>1 DEF FindDueCandidates, TypeOK
<1>3. CASE FindUnresolvedAudiences(r)
  <2>1. resolver' \in [Resolvers -> BusyResolver]
    BY <1>3, ProceedType DEF FindUnresolvedAudiences
  <2> QED
    BY <1>3, <2>1 DEF FindUnresolvedAudiences, TypeOK
<1>4. CASE CompleteScheduleIfResolved(r)
  <2>1. schedule' \in [Schedules -> ScheduleRow]
    BY <1>1, <1>4 DEF CompleteScheduleIfResolved, TypeOK, ScheduleRow
  <2> QED
    BY <1>4, <2>1, LeaveType DEF CompleteScheduleIfResolved, TypeOK
<1>5. CASE FailSchedule(r)
  <2>1. schedule' \in [Schedules -> ScheduleRow]
    BY <1>1, <1>5, RowTypes DEF FailSchedule, TypeOK
  <2> QED
    BY <1>5, <2>1, LeaveType DEF FailSchedule, TypeOK
<1> QED
  BY <1>2, <1>3, <1>4, <1>5, ClaimTypeOK, CheckTypeOK, InsertTypeOK DEF Resolve

LEMMA DeletedType ==
  ASSUME TypeOK, NEW S \in SUBSET Schedules, Deleted(S)
  PROVE  /\ schedule' \in [Schedules -> ScheduleRow]
         /\ audience' \in [Schedules -> [Targets -> AudienceState]]
         /\ recipients' \in [Schedules -> SUBSET Users]
         /\ steady' \in [Schedules -> SUBSET Users]
  BY RowTypes, AudienceTypes DEF Deleted, TypeOK

LEMMA CreatedType ==
  ASSUME TypeOK, NEW T, NEW due \in BOOLEAN, Created(T, due)
  PROVE  /\ schedule' \in [Schedules -> ScheduleRow]
         /\ audience' \in [Schedules -> [Targets -> AudienceState]]
  BY RowTypes, AudienceTypes DEF Created, TypeOK

LEMMA StaffTypeOK ==
  ASSUME TypeOK, NEW e \in Editors, Staff(e)
  PROVE  TypeOK'
<1> USE DEF rows, people
<1>1. Request(e) => edits' \in 0 .. MaxEdits
  BY ScheduleConstants DEF Request, TypeOK
<1>2. CASE CreateNotification(e)
  BY <1>1, <1>2, CreatedType DEF CreateNotification, Created, TypeOK
<1>3. CASE PatchNotification(e)
  <2>1. editor' \in [Editors -> EditorState]
    BY <1>3 DEF PatchNotification, TypeOK, EditorState
  <2> QED
    BY <1>1, <1>3, <2>1 DEF PatchNotification, TypeOK
<1>4. CASE ApplyPatch(e)
  <2> DEFINE s == editor[e].schedule
             due == schedule[s].due /\ ~editor[e].later
  <2>1. editor' \in [Editors -> EditorState] /\ content' \in 0 .. 1
    BY <1>4, IdleTypes DEF ApplyPatch, TypeOK
  <2>2. audience' \in [Schedules -> [Targets -> AudienceState]]
    BY <1>4, AudienceTypes DEF ApplyPatch, TypeOK
  <2>3. schedule' \in [Schedules -> ScheduleRow]
    <3>1. \/ schedule' = schedule
          \/ schedule' = [schedule EXCEPT ![s] = [schedule[s] EXCEPT !.due = due]]
      BY <1>4 DEF ApplyPatch, TypeOK
    <3>2. s \in Schedules => [schedule[s] EXCEPT !.due = due] \in ScheduleRow
      BY RowUpdates DEF TypeOK, SendStatus
    <3> HIDE DEF due, s
    <3> QED
      BY <3>1, <3>2 DEF TypeOK
  <2> QED
    BY <1>4, <2>1, <2>2, <2>3 DEF ApplyPatch, TypeOK
<1>5. CASE DeleteNotification(e)
  <2>1. [IdleEditor EXCEPT !.pc = "delete"] \in EditorState
    BY IdleTypes DEF EditorState
  <2> QED
    BY <1>1, <1>5, <2>1 DEF DeleteNotification, TypeOK
<1>6. CASE ApplyDelete(e)
  <2> DEFINE S == {s \in Schedules : Present(s) /\ NoneStarted}
  <2>1. Deleted(S) /\ S \in SUBSET Schedules
    BY <1>6 DEF ApplyDelete
  <2> HIDE DEF S
  <2>2. /\ schedule' \in [Schedules -> ScheduleRow]
        /\ audience' \in [Schedules -> [Targets -> AudienceState]]
        /\ recipients' \in [Schedules -> SUBSET Users]
        /\ steady' \in [Schedules -> SUBSET Users]
    BY <2>1, DeletedType
  <2> QED
    BY <1>6, <2>2, IdleTypes DEF ApplyDelete, TypeOK
<1>7. CASE CancelSchedule(e)
  <2>1. /\ schedule' \in [Schedules -> ScheduleRow]
        /\ audience' \in [Schedules -> [Targets -> AudienceState]]
        /\ recipients' \in [Schedules -> SUBSET Users]
        /\ steady' \in [Schedules -> SUBSET Users]
    BY <1>7, DeletedType DEF CancelSchedule
  <2> QED
    BY <1>1, <1>7, <2>1 DEF CancelSchedule, Request, TypeOK
<1>8. CASE ResendSchedule(e)
  <2>1. /\ schedule' \in [Schedules -> ScheduleRow]
        /\ audience' \in [Schedules -> [Targets -> AudienceState]]
    BY <1>8, RowTypes, AudienceTypes DEF ResendSchedule, TypeOK
  <2> QED
    BY <1>1, <1>8, <2>1 DEF ResendSchedule, Request, TypeOK
<1> QED
  BY <1>2, <1>3, <1>4, <1>5, <1>6, <1>7, <1>8 DEF Staff

LEMMA ForgottenType ==
  ASSUME TypeOK, NEW s \in Schedules, NEW lost, NEW T
  PROVE  Forgotten(s, lost, T) \in SUBSET Users
  BY DEF Forgotten, TypeOK

LEMMA DropTypeOK ==
  ASSUME TypeOK, NEW t \in Targets, DropTarget(t)
  PROVE  TypeOK'
<1>1. steady' \in [Schedules -> SUBSET Users]
  BY ForgottenType DEF DropTarget
<1>2. /\ notification' \in {"absent", "present", "deleted"}
      /\ schedule' \in [Schedules -> ScheduleRow]
      /\ audience' \in [Schedules -> [Targets -> AudienceState]]
  <2>1. CASE CleanUp
    <3>1. \A s \in Schedules : [schedule[s] EXCEPT !.status = "stopped"] \in ScheduleRow
      BY DEF TypeOK, ScheduleRow, SendStatus
    <3>2. schedule' \in [Schedules -> ScheduleRow]
      BY <2>1, <3>1, RowTypes DEF CleanUp, TypeOK
    <3>3. audience' \in [Schedules -> [Targets -> AudienceState]]
      BY <2>1, AudienceTypes DEF CleanUp, TypeOK
    <3> QED
      BY <2>1, <3>2, <3>3 DEF CleanUp, TypeOK
  <2> QED
    BY <2>1 DEF DropTarget, TypeOK
<1> QED
  BY <1>1, <1>2 DEF DropTarget, TypeOK

LEMMA WorldTypeOK ==
  ASSUME TypeOK, World
  PROVE  TypeOK'
<1> USE DEF rows, people
<1>1. ASSUME NEW s \in Schedules, BecomeDue(s) \/ StartSending(s) \/ Stop(s)
      PROVE  TypeOK'
  <2>1. schedule' \in [Schedules -> ScheduleRow]
    <3>1. PICK row \in {[schedule[s] EXCEPT !.due = TRUE],
                        [schedule[s] EXCEPT !.status = "sending"],
                        [schedule[s] EXCEPT !.status = "stopped"]} :
            schedule' = [schedule EXCEPT ![s] = row]
      BY <1>1 DEF BecomeDue, StartSending, Stop, TypeOK
    <3>2. row \in ScheduleRow
      BY RowUpdates DEF TypeOK, SendStatus
    <3> QED
      BY <3>1, <3>2 DEF TypeOK
  <2> QED
    BY <1>1, <2>1 DEF BecomeDue, StartSending, Stop, TypeOK
<1>2. CASE CreateAutomatic
  BY <1>2, CreatedType DEF CreateAutomatic, Created, TypeOK
<1>3. CASE ChangeHold \/ RewriteAutomatic
  <2>1. schedule' \in [Schedules -> ScheduleRow]
    <3>1. PICK b \in BOOLEAN :
            schedule' \in {[schedule EXCEPT ![First] = [schedule[First] EXCEPT !.held = b]],
                          [schedule EXCEPT ![First] = [schedule[First] EXCEPT !.due = b]]}
      BY <1>3 DEF ChangeHold, RewriteAutomatic, TypeOK
    <3>2. /\ [schedule[First] EXCEPT !.held = b] \in ScheduleRow
          /\ [schedule[First] EXCEPT !.due = b] \in ScheduleRow
      BY RowUpdates, ScheduleConstants DEF TypeOK, SendStatus
    <3> QED
      BY <3>1, <3>2 DEF TypeOK
  <2>2. content' \in 0 .. 1
    BY <1>3 DEF ChangeHold, RewriteAutomatic, TypeOK
  <2> QED
    BY <1>3, <2>1, <2>2 DEF ChangeHold, RewriteAutomatic, TypeOK
<1>4. ASSUME NEW t \in Targets, PurgeUserTarget(t)
      PROVE  TypeOK'
  <2>1. \A s \in Schedules : [schedule[s] EXCEPT !.status = "failed"] \in ScheduleRow
    BY DEF TypeOK, ScheduleRow, SendStatus
  <2>2. \A s \in Schedules : [audience[s] EXCEPT ![t] = "none"] \in [Targets -> AudienceState]
    BY DEF TypeOK, AudienceState
  <2> QED
    BY <1>4, <2>1, <2>2 DEF PurgeUserTarget, TypeOK
<1>5. ASSUME NEW u \in Users, NEW t \in Targets, Join(u, t) \/ Depart(u, t)
      PROVE  TypeOK'
  <2>1. members' \in [Targets -> SUBSET Users]
    BY <1>5 DEF Join, Depart, TypeOK
  <2>2. steady' \in [Schedules -> SUBSET Users]
    BY <1>5, ForgottenType DEF Join, Depart, TypeOK
  <2> QED
    BY <1>5, <2>1, <2>2 DEF Join, Depart, TypeOK
<1>6. ASSUME NEW u \in Users, Suspend(u) \/ Restore(u)
      PROVE  TypeOK'
  BY <1>6 DEF Suspend, Restore, TypeOK
<1> QED
  BY <1>1, <1>2, <1>3, <1>4, <1>5, <1>6, DropTypeOK DEF World

LEMMA InitTypeOK == Init => TypeOK
  BY RowTypes, AudienceTypes, IdleTypes, ScheduleConstants DEF Init, TypeOK

LEMMA NextTypeOK == TypeOK /\ [Next]_vars => TypeOK'
<1> SUFFICES ASSUME TypeOK, [Next]_vars
             PROVE  TypeOK'
  OBVIOUS
<1>1. CASE UNCHANGED vars
  BY <1>1 DEF vars, TypeOK
<1>2. ASSUME NEW r \in Resolvers, ResolverFails(r)
      PROVE  TypeOK'
  <2>1. resolver' \in [Resolvers -> BusyResolver]
    BY <1>2, LeaveType, IdleTypes DEF ResolverFails, TypeOK
  <2>2. faults' \in 0 .. MaxFaults
    BY <1>2, ScheduleConstants DEF ResolverFails, TypeOK
  <2> QED
    BY <1>2, <2>1, <2>2 DEF ResolverFails, rows, people, TypeOK
<1> QED
  BY <1>1, <1>2, ResolveTypeOK, StaffTypeOK, WorldTypeOK DEF Next

(* The type invariant; a resolver at work always has a schedule in hand,   *)
(* and an existing target when it comes to insert its users.               *)
THEOREM SpecTypeOK == Spec => []TypeOK
  BY InitTypeOK, NextTypeOK, PTL DEF Spec

-----------------------------------------------------------------------------
(* Before the start and after it.  A row that is being resolved or sent,    *)
(* or whose recipients are fixed, has started; one that has not started     *)
(* has settled nothing; one that has is still there.  Before the            *)
(* notification exists no id has been given out.                            *)

StartedRow(s) ==
  /\ schedule[s].started => Present(s) /\ schedule[s].status # "scheduled"
  /\ schedule[s].status \in {"resolving", "sending"} \/ schedule[s].resolved =>
       schedule[s].started
  /\ ~schedule[s].started =>
       recipients[s] = {} /\ \A t \in Targets : audience[s][t] # "resolved"
  /\ schedule[s].resolved => \A t \in Targets : audience[s][t] # "open"

RowInv ==
  /\ \A s \in Schedules : StartedRow(s)
  /\ notification = "absent" => \A s \in Schedules : schedule[s].status = "unused"

LEMMA SameRowsKeep ==
  ASSUME RowInv, UNCHANGED <<notification, schedule, audience, recipients>>
  PROVE  RowInv'
  BY DEF RowInv, StartedRow, Present

(* The status of a started row moves on, or only due and held change. *)
LEMMA MovedRowsKeep ==
  ASSUME RowInv, UNCHANGED <<notification, audience, recipients>>,
         \A s \in Schedules :
           /\ schedule'[s].started = schedule[s].started
           /\ schedule'[s].resolved = schedule[s].resolved
           /\ \/ schedule'[s].status = schedule[s].status
              \/ schedule[s].started /\ schedule'[s].status \in {"sending", "stopped"}
  PROVE  RowInv'
  BY DEF RowInv, StartedRow, Present

LEMMA ClaimEffect ==
  ASSUME TypeOK, NEW r \in Resolvers, ClaimScheduled(r), Claimable(resolver[r].current)
  PROVE  LET s == resolver[r].current
         IN  /\ s \in Schedules
             /\ schedule'[s].status = "resolving" /\ schedule'[s].started
             /\ ~schedule'[s].resolved
             /\ \A z \in Schedules : z # s => schedule'[z] = schedule[z]
<1> DEFINE s == resolver[r].current
<1>1. /\ s \in Schedules /\ schedule[s] \in ScheduleRow
      /\ schedule' = [schedule EXCEPT ![s] = Claimed(schedule[s])]
  BY DEF ClaimScheduled, TypeOK, BusyResolver
<1>2. /\ schedule'[s].status = "resolving" /\ schedule'[s].started
      /\ ~schedule'[s].resolved
  BY <1>1 DEF Claimable, Claimed, TypeOK, ScheduleRow
<1>3. \A z \in Schedules : z # s => schedule'[z] = schedule[z]
  BY <1>1 DEF TypeOK
<1> QED
  BY <1>1, <1>2, <1>3

LEMMA ResolveKeeps ==
  ASSUME TypeOK, RowInv, NEW r \in Resolvers, Resolve(r)
  PROVE  RowInv'
<1> USE DEF rows, people
<1>1. CASE FindDueCandidates(r) \/ FindUnresolvedAudiences(r) \/ CheckTarget(r)
  BY <1>1, SameRowsKeep DEF FindDueCandidates, FindUnresolvedAudiences, CheckTarget
<1>2. CASE ClaimScheduled(r)
  <2> DEFINE s == resolver[r].current
  <2>1. CASE ~Claimable(s)
    BY <1>2, <2>1, SameRowsKeep DEF ClaimScheduled
  <2>2. CASE Claimable(s)
    <3>1. /\ s \in Schedules
          /\ schedule'[s].status = "resolving" /\ schedule'[s].started
          /\ ~schedule'[s].resolved
          /\ \A z \in Schedules : z # s => schedule'[z] = schedule[z]
      BY <1>2, <2>2, ClaimEffect
    <3>2. notification # "absent"
      BY <2>2, <3>1 DEF Claimable, RowInv
    <3> HIDE DEF s
    <3> QED
      BY <1>2, <3>1, <3>2 DEF ClaimScheduled, RowInv, StartedRow, Present
  <2> QED
    BY <2>1, <2>2
<1>3. CASE InsertRecipients(r)
  <2> DEFINE s == resolver[r].current
             t == resolver[r].target
  <2>1. CASE Resolving(s)
    BY <1>3, <2>1 DEF InsertRecipients, Resolving, RowInv, StartedRow, Present,
                      TypeOK, ScheduleRow
  <2>2. CASE ~Resolving(s)
    <3>1. recipients' = recipients
      BY <1>3, <2>2 DEF InsertRecipients, Inserted, TypeOK
    <3>2. audience' = audience
      BY <1>3, <2>2 DEF InsertRecipients, TypeOK
    <3> QED
      BY <1>3, <3>1, <3>2, SameRowsKeep DEF InsertRecipients
  <2> QED
    BY <2>1, <2>2
<1>4. CASE CompleteScheduleIfResolved(r)
  BY <1>4 DEF CompleteScheduleIfResolved, Completable, Resolving, RowInv, StartedRow,
              Present, TypeOK, ScheduleRow
<1>5. CASE FailSchedule(r)
  BY <1>5 DEF FailSchedule, Failed, Resolving, RowInv, StartedRow, Present,
              TypeOK, ScheduleRow
<1> QED
  BY <1>1, <1>2, <1>3, <1>4, <1>5 DEF Resolve

LEMMA CreatedKeeps ==
  ASSUME TypeOK, RowInv, NEW T, NEW due \in BOOLEAN, Created(T, due)
  PROVE  RowInv'
  BY ScheduleConstants DEF Created, NewSchedule, NoRow, Opened, RowInv, StartedRow,
     Present, TypeOK

LEMMA DeletedKeeps ==
  ASSUME RowInv, NEW S \in SUBSET Schedules, Deleted(S)
  PROVE  \A s \in Schedules : StartedRow(s)'
  BY DEF Deleted, NoRow, NoAudience, RowInv, StartedRow, Present

LEMMA StaffKeeps ==
  ASSUME TypeOK, RowInv, NEW e \in Editors, Staff(e)
  PROVE  RowInv'
<1> USE DEF rows, people
<1>1. CASE CreateNotification(e)
  BY <1>1, CreatedKeeps DEF CreateNotification
<1>2. CASE PatchNotification(e) \/ DeleteNotification(e)
  BY <1>2, SameRowsKeep DEF PatchNotification, DeleteNotification
<1>3. CASE ApplyPatch(e)
  <2>1. CASE Editable(editor[e].schedule)
    <3>1. \A s \in Schedules : ~schedule[s].started
      BY <2>1 DEF Editable, NoneStarted, RowInv, StartedRow
    <3>2. \A s \in Schedules :
            /\ schedule'[s].started = schedule[s].started
            /\ schedule'[s].resolved = schedule[s].resolved
            /\ schedule'[s].status = schedule[s].status
      BY <1>3, <2>1 DEF ApplyPatch, TypeOK, ScheduleRow
    <3>3. \A s \in Schedules, t \in Targets :
            audience'[s][t] = audience[s][t] \/ audience'[s][t] # "resolved"
      BY <1>3, <2>1 DEF ApplyPatch, Opened, TypeOK
    <3> QED
      BY <1>3, <3>1, <3>2, <3>3 DEF ApplyPatch, RowInv, StartedRow, Present
  <2>2. CASE ~Editable(editor[e].schedule)
    BY <1>3, <2>2, SameRowsKeep DEF ApplyPatch
  <2> QED
    BY <2>1, <2>2
<1>4. CASE ApplyDelete(e)
  <2> DEFINE S == {s \in Schedules : Present(s) /\ NoneStarted}
  <2>1. Deleted(S)
    BY <1>4 DEF ApplyDelete
  <2>2. notification' = "absent" => \A s \in Schedules : s \notin S
    BY <1>4 DEF ApplyDelete, RowInv, Present
  <2>3. notification' = "absent" => notification = "absent"
    BY <1>4 DEF ApplyDelete
  <2>4. S \in SUBSET Schedules
    OBVIOUS
  <2> HIDE DEF S
  <2> QED
    BY <2>1, <2>2, <2>3, <2>4, DeletedKeeps DEF Deleted, RowInv
<1>5. CASE CancelSchedule(e)
  <2>1. PICK s \in Schedules : Cancellable(s) /\ Deleted({s})
    BY <1>5 DEF CancelSchedule
  <2>2. notification # "absent"
    BY <2>1 DEF Cancellable, RowInv
  <2> QED
    BY <1>5, <2>1, <2>2, DeletedKeeps DEF CancelSchedule, RowInv
<1>6. CASE ResendSchedule(e)
  BY <1>6 DEF ResendSchedule, NewSchedule, NoRow, Opened, RowInv, StartedRow, Present,
              TypeOK, ScheduleRow
<1> QED
  BY <1>1, <1>2, <1>3, <1>4, <1>5, <1>6 DEF Staff

LEMMA WorldKeeps ==
  ASSUME TypeOK, RowInv, World
  PROVE  RowInv'
<1> USE DEF rows, people
<1>1. ASSUME NEW s \in Schedules, BecomeDue(s) \/ StartSending(s) \/ Stop(s)
      PROVE  RowInv'
  <2>1. schedule[s].status \in {"resolving", "sending"} => schedule[s].started
    BY DEF RowInv, StartedRow
  <2>2. \A z \in Schedules :
          /\ schedule'[z].started = schedule[z].started
          /\ schedule'[z].resolved = schedule[z].resolved
          /\ \/ schedule'[z].status = schedule[z].status
             \/ schedule[z].started /\ schedule'[z].status \in {"sending", "stopped"}
    <3>1. CASE BecomeDue(s)
      BY <3>1 DEF BecomeDue, TypeOK, ScheduleRow
    <3>2. CASE StartSending(s)
      BY <2>1, <3>2 DEF StartSending, TypeOK, ScheduleRow
    <3>3. CASE Stop(s)
      BY <2>1, <3>3 DEF Stop, TypeOK, ScheduleRow
    <3> QED
      BY <1>1, <3>1, <3>2, <3>3
  <2> QED
    BY <1>1, <2>2, MovedRowsKeep DEF BecomeDue, StartSending, Stop
<1>2. CASE CreateAutomatic
  BY <1>2, CreatedKeeps DEF CreateAutomatic
<1>3. CASE ChangeHold \/ RewriteAutomatic
  <2>1. \A z \in Schedules :
          /\ schedule'[z].started = schedule[z].started
          /\ schedule'[z].resolved = schedule[z].resolved
          /\ schedule'[z].status = schedule[z].status
    <3>1. CASE ChangeHold
      BY <3>1 DEF ChangeHold, TypeOK, ScheduleRow
    <3>2. CASE RewriteAutomatic
      BY <3>2 DEF RewriteAutomatic, TypeOK, ScheduleRow
    <3> QED
      BY <1>3, <3>1, <3>2
  <2> QED
    BY <1>3, <2>1, MovedRowsKeep DEF ChangeHold, RewriteAutomatic
<1>4. ASSUME NEW t \in Targets, DropTarget(t)
      PROVE  RowInv'
  <2>1. CASE CleanUp
    BY <1>4, <2>1 DEF DropTarget, CleanUp, Unstarted, NoRow, NoAudience, RowInv,
                      StartedRow, Present, TypeOK, ScheduleRow
  <2>2. CASE UNCHANGED <<notification, schedule, audience>>
    BY <1>4, <2>2, SameRowsKeep DEF DropTarget
  <2> QED
    BY <1>4, <2>1, <2>2 DEF DropTarget
<1>5. ASSUME NEW t \in Targets, PurgeUserTarget(t)
      PROVE  RowInv'
  BY <1>5 DEF PurgeUserTarget, RowInv, StartedRow, Present, TypeOK, ScheduleRow
<1>6. ASSUME NEW u \in Users, NEW t \in Targets, Join(u, t) \/ Depart(u, t)
      PROVE  RowInv'
  BY <1>6, SameRowsKeep DEF Join, Depart
<1>7. ASSUME NEW u \in Users, Suspend(u) \/ Restore(u)
      PROVE  RowInv'
  BY <1>7, SameRowsKeep DEF Suspend, Restore
<1> QED
  BY <1>1, <1>2, <1>3, <1>4, <1>5, <1>6, <1>7 DEF World

LEMMA SpecRowInv == Spec => []RowInv
<1>1. Init => RowInv
  BY DEF Init, NoRow, NoAudience, RowInv, StartedRow, Present
<1>2. TypeOK /\ RowInv /\ [Next]_vars => RowInv'
  <2> SUFFICES ASSUME TypeOK, RowInv, [Next]_vars
               PROVE  RowInv'
    OBVIOUS
  <2>1. CASE UNCHANGED vars
    BY <2>1, SameRowsKeep DEF vars
  <2>2. ASSUME NEW r \in Resolvers, ResolverFails(r)
        PROVE  RowInv'
    BY <2>2, SameRowsKeep DEF ResolverFails, rows
  <2> QED
    BY <2>1, <2>2, ResolveKeeps, StaffKeeps, WorldKeeps DEF Next
<1> QED
  BY <1>1, <1>2, SpecTypeOK, PTL DEF Spec

(* What staff may still edit has reached nobody.                            *)
THEOREM SpecUnstartedReachedNobody == Spec => []UnstartedReachedNobody
<1>1. RowInv => UnstartedReachedNobody
  BY DEF RowInv, StartedRow, UnstartedReachedNobody
<1> QED
  BY <1>1, SpecRowInv, PTL

-----------------------------------------------------------------------------
(* What one step may do to one schedule. *)

Kept(s) ==
  schedule[s].started =>
    /\ schedule'[s].started
    /\ content' = content
    /\ \A t \in Targets : audience'[s][t] # audience[s][t] =>
         \/ audience[s][t] = "open" /\ audience'[s][t] = "resolved"
         \/ audience'[s][t] = "none" /\ t \in UserTargets \ exists

Withheld(s) == schedule[s].held /\ ~schedule[s].started => ~schedule'[s].started

Closed(s) ==
  schedule[s].resolved \/ schedule[s].status \in {"failed", "stopped"} =>
    recipients'[s] \subseteq recipients[s]

RightStep(s) == Kept(s) /\ Withheld(s) /\ Closed(s)

LEMMA SameRowsStep ==
  ASSUME NEW s \in Schedules, UNCHANGED <<content, schedule, audience, recipients>>
  PROVE  RightStep(s)
  BY DEF RightStep, Kept, Withheld, Closed

LEMMA ResolveStep ==
  ASSUME TypeOK, RowInv, NEW r \in Resolvers, Resolve(r), NEW s \in Schedules
  PROVE  RightStep(s)
<1> USE DEF rows, people
<1>1. CASE FindDueCandidates(r) \/ FindUnresolvedAudiences(r) \/ CheckTarget(r)
  BY <1>1, SameRowsStep DEF FindDueCandidates, FindUnresolvedAudiences, CheckTarget
<1>2. CASE ClaimScheduled(r)
  <2>1. CASE ~Claimable(resolver[r].current)
    BY <1>2, <2>1, SameRowsStep DEF ClaimScheduled
  <2>2. CASE Claimable(resolver[r].current)
    <3>1. schedule[s].started => schedule'[s].started
      BY <1>2, <2>2, ClaimEffect
    <3>2. schedule[s].held => schedule'[s] = schedule[s]
      BY <1>2, <2>2, ClaimEffect DEF Claimable
    <3> QED
      BY <1>2, <3>1, <3>2 DEF ClaimScheduled, RightStep, Kept, Withheld, Closed
  <2> QED
    BY <2>1, <2>2
<1>3. CASE InsertRecipients(r)
  <2> DEFINE c == resolver[r].current
             t == resolver[r].target
  <2>1. c \in Schedules /\ t \in Targets
    BY <1>3 DEF InsertRecipients, TypeOK, BusyResolver
  <2>2. CASE Resolving(c)
    BY <1>3, <2>1, <2>2 DEF InsertRecipients, Resolving, RightStep, Kept, Withheld,
                            Closed, TypeOK
  <2>3. CASE ~Resolving(c)
    <3>1. recipients' = recipients /\ audience' = audience
      BY <1>3, <2>3 DEF InsertRecipients, Inserted, TypeOK
    <3> QED
      BY <1>3, <3>1, SameRowsStep DEF InsertRecipients
  <2> QED
    BY <2>2, <2>3
<1>4. CASE CompleteScheduleIfResolved(r)
  BY <1>4 DEF CompleteScheduleIfResolved, RightStep, Kept, Withheld, Closed,
              TypeOK, ScheduleRow
<1>5. CASE FailSchedule(r)
  BY <1>5 DEF FailSchedule, Failed, RightStep, Kept, Withheld, Closed,
              TypeOK, ScheduleRow
<1> QED
  BY <1>1, <1>2, <1>3, <1>4, <1>5 DEF Resolve

LEMMA CreatedStep ==
  ASSUME TypeOK, RowInv, NEW T, NEW due \in BOOLEAN, Created(T, due), NEW s \in Schedules
  PROVE  RightStep(s)
  BY ScheduleConstants DEF Created, NewSchedule, NoRow, RightStep, Kept, Withheld,
     Closed, RowInv, StartedRow, Present, TypeOK

(* Only schedules that have not started are ever deleted. *)
LEMMA DeletedStep ==
  ASSUME RowInv, NEW S \in SUBSET Schedules, Deleted(S), UNCHANGED content,
         \A z \in S : ~schedule[z].started, NEW s \in Schedules
  PROVE  RightStep(s)
  BY DEF Deleted, NoRow, RightStep, Kept, Withheld, Closed

LEMMA StaffStep ==
  ASSUME TypeOK, RowInv, NEW e \in Editors, Staff(e), NEW s \in Schedules
  PROVE  RightStep(s)
<1> USE DEF rows, people
<1>1. CASE CreateNotification(e)
  BY <1>1, CreatedStep DEF CreateNotification
<1>2. CASE PatchNotification(e) \/ DeleteNotification(e)
  BY <1>2, SameRowsStep DEF PatchNotification, DeleteNotification
<1>3. CASE ApplyPatch(e)
  <2>1. CASE Editable(editor[e].schedule)
    <3>1. ~schedule[s].started
      BY <2>1 DEF Editable, NoneStarted, RowInv, StartedRow
    <3>2. schedule'[s].started = schedule[s].started
      BY <1>3, <2>1 DEF ApplyPatch, TypeOK, ScheduleRow
    <3> QED
      BY <1>3, <3>1, <3>2 DEF ApplyPatch, RightStep, Kept, Withheld, Closed
  <2>2. CASE ~Editable(editor[e].schedule)
    BY <1>3, <2>2, SameRowsStep DEF ApplyPatch
  <2> QED
    BY <2>1, <2>2
<1>4. CASE ApplyDelete(e)
  <2> DEFINE S == {z \in Schedules : Present(z) /\ NoneStarted}
  <2>1. Deleted(S) /\ S \in SUBSET Schedules /\ \A z \in S : ~schedule[z].started
    BY <1>4 DEF ApplyDelete, NoneStarted
  <2> HIDE DEF S
  <2> QED
    BY <1>4, <2>1, DeletedStep DEF ApplyDelete
<1>5. CASE CancelSchedule(e)
  BY <1>5, DeletedStep DEF CancelSchedule, Cancellable
<1>6. CASE ResendSchedule(e)
  BY <1>6 DEF ResendSchedule, NewSchedule, NoRow, RightStep, Kept, Withheld, Closed,
              RowInv, StartedRow, Present, TypeOK
<1> QED
  BY <1>1, <1>2, <1>3, <1>4, <1>5, <1>6 DEF Staff

LEMMA WorldStep ==
  ASSUME TypeOK, RowInv, World, NEW s \in Schedules
  PROVE  RightStep(s)
<1> USE DEF rows, people
<1>1. ASSUME NEW z \in Schedules, BecomeDue(z) \/ StartSending(z) \/ Stop(z)
      PROVE  RightStep(s)
  <2>1. schedule'[s].started = schedule[s].started
    BY <1>1 DEF BecomeDue, StartSending, Stop, TypeOK, ScheduleRow
  <2> QED
    BY <1>1, <2>1 DEF BecomeDue, StartSending, Stop, RightStep, Kept, Withheld, Closed
<1>2. CASE CreateAutomatic
  BY <1>2, CreatedStep DEF CreateAutomatic
<1>3. CASE ChangeHold \/ RewriteAutomatic
  <2>1. schedule'[s].started = schedule[s].started
    BY <1>3 DEF ChangeHold, RewriteAutomatic, TypeOK, ScheduleRow
  <2>2. schedule[s].started => content' = content
    BY <1>3 DEF ChangeHold, RewriteAutomatic, NoneStarted, RowInv, StartedRow
  <2> QED
    BY <1>3, <2>1, <2>2 DEF ChangeHold, RewriteAutomatic, RightStep, Kept, Withheld, Closed
<1>4. ASSUME NEW t \in Targets, DropTarget(t)
      PROVE  RightStep(s)
  <2>1. CASE CleanUp
    BY <1>4, <2>1 DEF DropTarget, CleanUp, Unstarted, NoRow, RightStep, Kept, Withheld,
                      Closed, TypeOK, ScheduleRow
  <2>2. CASE UNCHANGED <<notification, schedule, audience>>
    BY <1>4, <2>2, SameRowsStep DEF DropTarget
  <2> QED
    BY <1>4, <2>1, <2>2 DEF DropTarget
<1>5. ASSUME NEW t \in Targets, PurgeUserTarget(t)
      PROVE  RightStep(s)
  <2>1. schedule'[s].started = schedule[s].started
    BY <1>5 DEF PurgeUserTarget, TypeOK, ScheduleRow
  <2>2. \A z \in Targets : audience'[s][z] # audience[s][z] =>
          audience'[s][z] = "none" /\ z \in UserTargets \ exists
    BY <1>5 DEF PurgeUserTarget, TypeOK
  <2> QED
    BY <1>5, <2>1, <2>2 DEF PurgeUserTarget, RightStep, Kept, Withheld, Closed
<1>6. ASSUME NEW u \in Users, NEW t \in Targets, Join(u, t) \/ Depart(u, t)
      PROVE  RightStep(s)
  BY <1>6, SameRowsStep DEF Join, Depart
<1>7. ASSUME NEW u \in Users, Suspend(u) \/ Restore(u)
      PROVE  RightStep(s)
  BY <1>7, SameRowsStep DEF Suspend, Restore
<1> QED
  BY <1>1, <1>2, <1>3, <1>4, <1>5, <1>6, <1>7 DEF World

LEMMA NextStep ==
  ASSUME TypeOK, RowInv, [Next]_vars
  PROVE  \A s \in Schedules : RightStep(s)
<1> SUFFICES ASSUME NEW s \in Schedules
             PROVE  RightStep(s)
  OBVIOUS
<1>1. CASE UNCHANGED vars
  BY <1>1, SameRowsStep DEF vars
<1>2. ASSUME NEW r \in Resolvers, ResolverFails(r)
      PROVE  RightStep(s)
  BY <1>2, SameRowsStep DEF ResolverFails, rows
<1> QED
  BY <1>1, <1>2, ResolveStep, StaffStep, WorldStep DEF Next

LEMMA SpecRightStep == Spec => [][\A s \in Schedules : RightStep(s)]_vars
<1>1. TypeOK /\ RowInv /\ [Next]_vars => [\A s \in Schedules : RightStep(s)]_vars
  BY NextStep
<1> QED
  BY <1>1, SpecTypeOK, SpecRowInv, PTL DEF Spec

(* Once a schedule has started, its audiences are only resolved or purged,  *)
(* the texts of its notification stay and it is not deleted.                *)
THEOREM SpecStartedIsKept == Spec => StartedIsKept
<1>1. [\A s \in Schedules : RightStep(s)]_vars =>
        [\A s \in Schedules : schedule[s].started =>
           /\ schedule'[s].started
           /\ content' = content
           /\ \A t \in Targets : audience'[s][t] # audience[s][t] =>
                \/ audience[s][t] = "open" /\ audience'[s][t] = "resolved"
                \/ audience'[s][t] = "none" /\ t \in UserTargets \ exists]_vars
  BY DEF RightStep, Kept
<1> QED
  BY <1>1, SpecRightStep, PTL DEF StartedIsKept

(* Once its recipients are fixed, or it has ended, a schedule gets no more. *)
THEOREM SpecRecipientsClosed == Spec => RecipientsClosed
<1>1. [\A s \in Schedules : RightStep(s)]_vars =>
        [\A s \in Schedules :
           schedule[s].resolved \/ schedule[s].status \in {"failed", "stopped"} =>
             recipients'[s] \subseteq recipients[s]]_vars
  BY DEF RightStep, Closed
<1> QED
  BY <1>1, SpecRightStep, PTL DEF RecipientsClosed

(* The resolver starts no schedule that is held when it claims it, however  *)
(* old its list of candidates is.                                           *)
THEOREM SpecHeldNeverStarts == Spec => HeldNeverStarts
<1>1. [\A s \in Schedules : RightStep(s)]_vars =>
        [\A s \in Schedules : schedule[s].held /\ ~schedule[s].started =>
           ~schedule'[s].started]_vars
  BY DEF RightStep, Withheld
<1> QED
  BY <1>1, SpecRightStep, PTL DEF HeldNeverStarts

-----------------------------------------------------------------------------
(* Nobody is forgotten.  Every user a started schedule has meant all the    *)
(* time is a recipient or still belongs to an audience that is open; a      *)
(* target that is gone has no users.                                        *)

Waiting(s, u) == \E t \in Targets : audience[s][t] = "open" /\ u \in MembersOf(t)

Covered(s) ==
  schedule[s].started => \A u \in steady[s] : u \in recipients[s] \/ Waiting(s, u)

GoneIsEmpty == \A t \in Targets \ exists : members[t] = {}

CoverInv == GoneIsEmpty /\ \A s \in Schedules : Covered(s)

LEMMA SameCover ==
  ASSUME CoverInv, UNCHANGED <<audience, recipients, exists, members, active>>,
         \A s \in Schedules : /\ schedule'[s].started => schedule[s].started
                              /\ steady'[s] \subseteq steady[s]
  PROVE  CoverInv'
  BY DEF CoverInv, GoneIsEmpty, Covered, Waiting, MembersOf

LEMMA ResolveCovers ==
  ASSUME TypeOK, RowInv, CoverInv, NEW r \in Resolvers, Resolve(r)
  PROVE  CoverInv'
<1> USE DEF rows, people
<1>1. CASE FindDueCandidates(r) \/ FindUnresolvedAudiences(r) \/ CheckTarget(r)
  BY <1>1, SameCover DEF FindDueCandidates, FindUnresolvedAudiences, CheckTarget
<1>2. CASE ClaimScheduled(r)
  <2> DEFINE c == resolver[r].current
  <2>1. CASE ~Claimable(c)
    BY <1>2, <2>1, SameCover DEF ClaimScheduled
  <2>2. CASE Claimable(c)
    <3>1. c \in Schedules /\ \A z \in Schedules : z # c => schedule'[z] = schedule[z]
      BY <1>2, <2>2, ClaimEffect
    <3>2. ~schedule[c].started
      BY <2>2, <3>1 DEF Claimable, RowInv, StartedRow
    <3>3. \A t \in TargetsOf(c) : audience[c][t] = "open"
      BY <3>1, <3>2 DEF TargetsOf, RowInv, StartedRow, TypeOK, AudienceState
    <3>4. steady' = [steady EXCEPT ![c] = UNION {MembersOf(t) : t \in TargetsOf(c)}]
      BY <1>2, <2>2 DEF ClaimScheduled
    <3>5. \A u \in steady'[c] : Waiting(c, u)
      BY <3>1, <3>3, <3>4 DEF Waiting, TargetsOf, TypeOK
    <3>6. \A z \in Schedules : z # c => steady'[z] = steady[z]
      BY <3>1, <3>4 DEF TypeOK
    <3>7. UNCHANGED <<audience, recipients, exists, members, active>>
      BY <1>2 DEF ClaimScheduled
    <3> HIDE DEF c
    <3> QED
      BY <3>1, <3>5, <3>6, <3>7 DEF CoverInv, GoneIsEmpty, Covered, Waiting, MembersOf
  <2> QED
    BY <2>1, <2>2
<1>3. CASE InsertRecipients(r)
  <2> DEFINE c == resolver[r].current
             t == resolver[r].target
  <2>1. /\ c \in Schedules /\ t \in Targets
        /\ UNCHANGED <<schedule, exists, members, active, steady>>
    BY <1>3 DEF InsertRecipients, TypeOK, BusyResolver
  <2>2. CASE Resolving(c) /\ audience[c][t] = "open"
    <3>1. /\ recipients' = [recipients EXCEPT ![c] = @ \cup MembersOf(t)]
          /\ audience' = [audience EXCEPT ![c][t] = "resolved"]
      BY <1>3, <2>2 DEF InsertRecipients, Inserted
    <3> HIDE DEF c, t
    <3> QED
      BY <2>1, <3>1 DEF CoverInv, GoneIsEmpty, Covered, Waiting, MembersOf, TypeOK
  <2>3. CASE ~(Resolving(c) /\ audience[c][t] = "open")
    <3>1. recipients' = recipients /\ audience' = audience
      BY <1>3, <2>3 DEF InsertRecipients, Inserted, TypeOK
    <3> QED
      BY <2>1, <3>1, SameCover
  <2> QED
    BY <2>2, <2>3
<1>4. CASE CompleteScheduleIfResolved(r) \/ FailSchedule(r)
  <2>1. \A s \in Schedules : schedule'[s].started = schedule[s].started
    <3>1. CASE CompleteScheduleIfResolved(r)
      BY <3>1 DEF CompleteScheduleIfResolved, TypeOK, ScheduleRow
    <3>2. CASE FailSchedule(r)
      BY <3>2 DEF FailSchedule, Failed, TypeOK, ScheduleRow
    <3> QED
      BY <1>4, <3>1, <3>2
  <2> QED
    BY <1>4, <2>1, SameCover DEF CompleteScheduleIfResolved, FailSchedule
<1> QED
  BY <1>1, <1>2, <1>3, <1>4 DEF Resolve

(* A schedule that has not started asks for nothing. *)
LEMMA UnstartedCover ==
  ASSUME CoverInv, UNCHANGED <<exists, members, active>>,
         \A s \in Schedules : schedule'[s].started =>
           /\ schedule[s].started
           /\ audience'[s] = audience[s] /\ recipients'[s] = recipients[s]
           /\ steady'[s] = steady[s]
  PROVE  CoverInv'
  BY DEF CoverInv, GoneIsEmpty, Covered, Waiting, MembersOf

LEMMA StaffCovers ==
  ASSUME TypeOK, RowInv, CoverInv, NEW e \in Editors, Staff(e)
  PROVE  CoverInv'
<1> USE DEF rows, people
<1>1. CASE PatchNotification(e) \/ DeleteNotification(e)
  BY <1>1, SameCover DEF PatchNotification, DeleteNotification
<1>2. CASE CreateNotification(e)
  BY <1>2, UnstartedCover
     DEF CreateNotification, Created, NewSchedule, NoRow, TypeOK
<1>3. CASE ApplyPatch(e)
  <2>1. CASE Editable(editor[e].schedule)
    <3>1. \A s \in Schedules : ~schedule[s].started
      BY <2>1 DEF Editable, NoneStarted, RowInv, StartedRow
    <3>2. \A s \in Schedules : schedule'[s].started = schedule[s].started
      BY <1>3, <2>1 DEF ApplyPatch, TypeOK, ScheduleRow
    <3> QED
      BY <1>3, <3>1, <3>2, UnstartedCover DEF ApplyPatch
  <2>2. CASE ~Editable(editor[e].schedule)
    BY <1>3, <2>2, SameCover DEF ApplyPatch
  <2> QED
    BY <2>1, <2>2
<1>4. ASSUME NEW S \in SUBSET Schedules, Deleted(S), UNCHANGED people
      PROVE  CoverInv'
  BY <1>4, UnstartedCover DEF Deleted, NoRow
<1>5. CASE ApplyDelete(e)
  <2> DEFINE S == {z \in Schedules : Present(z) /\ NoneStarted}
  <2>1. Deleted(S) /\ S \in SUBSET Schedules
    BY <1>5 DEF ApplyDelete
  <2> HIDE DEF S
  <2> QED
    BY <1>4, <1>5, <2>1 DEF ApplyDelete
<1>6. CASE CancelSchedule(e)
  BY <1>4, <1>6 DEF CancelSchedule
<1>7. CASE ResendSchedule(e)
  BY <1>7, UnstartedCover DEF ResendSchedule, NewSchedule, NoRow, TypeOK
<1> QED
  BY <1>1, <1>2, <1>3, <1>5, <1>6, <1>7 DEF Staff

(* Whoever leaves a target of a schedule is no longer meant all the time.   *)
LEMMA LeavingCover ==
  ASSUME TypeOK, CoverInv, NEW t \in Targets, NEW lost \in SUBSET Users,
         members' = [members EXCEPT ![t] = @ \ lost],
         steady' = [s \in Schedules |-> Forgotten(s, lost, {t})],
         UNCHANGED <<recipients, active>>,
         \A s \in Schedules : schedule'[s].started =>
           schedule[s].started /\ audience'[s] = audience[s]
  PROVE  \A s \in Schedules : Covered(s)'
<1> SUFFICES ASSUME NEW s \in Schedules, schedule'[s].started, NEW u \in steady'[s],
                    u \notin recipients'[s]
             PROVE  Waiting(s, u)'
  BY DEF Covered
<1>1. u \in steady[s] /\ (TargetsOf(s) \cap {t} # {} => u \notin lost)
  BY DEF Forgotten
<1>2. PICK w \in Targets : audience[s][w] = "open" /\ u \in MembersOf(w)
  BY <1>1 DEF CoverInv, Covered, Waiting
<1>3. w = t => u \notin lost
  BY <1>1, <1>2 DEF TargetsOf
<1>4. u \in MembersOf(w)'
  BY <1>2, <1>3 DEF MembersOf, TypeOK
<1> QED
  BY <1>2, <1>4 DEF Waiting

LEMMA WorldCovers ==
  ASSUME TypeOK, RowInv, CoverInv, World
  PROVE  CoverInv'
<1> USE DEF rows, people
<1>1. ASSUME NEW s \in Schedules, BecomeDue(s) \/ StartSending(s) \/ Stop(s)
      PROVE  CoverInv'
  <2>1. \A z \in Schedules : schedule'[z].started = schedule[z].started
    BY <1>1 DEF BecomeDue, StartSending, Stop, TypeOK, ScheduleRow
  <2> QED
    BY <1>1, <2>1, SameCover DEF BecomeDue, StartSending, Stop
<1>2. CASE CreateAutomatic
  BY <1>2, UnstartedCover DEF CreateAutomatic, Created, NewSchedule, NoRow, TypeOK
<1>3. CASE ChangeHold \/ RewriteAutomatic
  <2>1. \A z \in Schedules : schedule'[z].started = schedule[z].started
    BY <1>3 DEF ChangeHold, RewriteAutomatic, TypeOK, ScheduleRow
  <2> QED
    BY <1>3, <2>1, SameCover DEF ChangeHold, RewriteAutomatic
<1>4. ASSUME NEW t \in Targets, DropTarget(t)
      PROVE  CoverInv'
  <2>1. \A s \in Schedules : schedule'[s].started =>
          schedule[s].started /\ audience'[s] = audience[s]
    <3>1. CASE CleanUp
      BY <3>1 DEF CleanUp, Unstarted, NoRow, TypeOK, ScheduleRow
    <3>2. CASE UNCHANGED <<notification, schedule, audience>>
      BY <3>2
    <3> QED
      BY <1>4, <3>1, <3>2 DEF DropTarget
  <2>2. members' = [members EXCEPT ![t] = @ \ members[t]] /\ members[t] \in SUBSET Users
    BY <1>4 DEF DropTarget, TypeOK
  <2>3. GoneIsEmpty'
    BY <1>4 DEF DropTarget, CoverInv, GoneIsEmpty, TypeOK
  <2> QED
    BY <1>4, <2>1, <2>2, <2>3, LeavingCover DEF DropTarget, CoverInv
<1>5. ASSUME NEW t \in Targets, PurgeUserTarget(t)
      PROVE  CoverInv'
  <2>1. \A s \in Schedules : schedule'[s].started = schedule[s].started
    BY <1>5 DEF PurgeUserTarget, TypeOK, ScheduleRow
  <2>2. MembersOf(t) = {}
    BY <1>5, ScheduleConstants DEF PurgeUserTarget, MembersOf, CoverInv, GoneIsEmpty
  <2>3. \A s \in Schedules, w \in Targets : w # t => audience'[s][w] = audience[s][w]
    BY <1>5 DEF PurgeUserTarget, TypeOK
  <2> QED
    BY <1>5, <2>1, <2>2, <2>3
       DEF PurgeUserTarget, CoverInv, GoneIsEmpty, Covered, Waiting, MembersOf
<1>6. ASSUME NEW u \in Users, NEW t \in Targets, Join(u, t)
      PROVE  CoverInv'
  BY <1>6 DEF Join, CoverInv, GoneIsEmpty, Covered, Waiting, MembersOf, TypeOK
<1>7. ASSUME NEW u \in Users, NEW t \in Targets, Depart(u, t)
      PROVE  CoverInv'
  <2>1. GoneIsEmpty'
    BY <1>7 DEF Depart, CoverInv, GoneIsEmpty, TypeOK
  <2> QED
    BY <1>7, <2>1, LeavingCover DEF Depart, CoverInv
<1>8. ASSUME NEW u \in Users, Suspend(u) \/ Restore(u)
      PROVE  CoverInv'
  BY <1>8 DEF Suspend, Restore, CoverInv, GoneIsEmpty, Covered, Waiting, MembersOf, TypeOK
<1> QED
  BY <1>1, <1>2, <1>3, <1>4, <1>5, <1>6, <1>7, <1>8 DEF World

LEMMA SpecCoverInv == Spec => []CoverInv
<1>1. Init => CoverInv
  BY DEF Init, NoRow, CoverInv, GoneIsEmpty, Covered
<1>2. TypeOK /\ RowInv /\ CoverInv /\ [Next]_vars => CoverInv'
  <2> SUFFICES ASSUME TypeOK, RowInv, CoverInv, [Next]_vars
               PROVE  CoverInv'
    OBVIOUS
  <2>1. CASE UNCHANGED vars
    BY <2>1, SameCover DEF vars
  <2>2. ASSUME NEW r \in Resolvers, ResolverFails(r)
        PROVE  CoverInv'
    BY <2>2, SameCover DEF ResolverFails, rows, people
  <2> QED
    BY <2>1, <2>2, ResolveCovers, StaffCovers, WorldCovers DEF Next
<1> QED
  BY <1>1, <1>2, SpecTypeOK, SpecRowInv, PTL DEF Spec

(* The recipients are complete when they are declared so, for any number    *)
(* of overlapping resolvers that fail any number of times.                  *)
THEOREM SpecNobodyForgotten == Spec => []NobodyForgotten
<1>1. RowInv /\ CoverInv => NobodyForgotten
  BY DEF RowInv, StartedRow, CoverInv, Covered, Waiting, NobodyForgotten
<1> QED
  BY <1>1, SpecRowInv, SpecCoverInv, PTL

-----------------------------------------------------------------------------
(* Resolvers, staff and everybody else implement NoticeLife.  A schedule    *)
(* belongs to a notification that is there, and staff are not deleting an   *)
(* automatic one.                                                           *)

OwnerInv ==
  /\ \A s \in Schedules : Present(s) => notification = "present"
  /\ automatic => \A e \in Editors : editor[e].pc # "delete"

LEMMA SameOwnerKeep ==
  ASSUME OwnerInv, notification' = notification, UNCHANGED <<automatic, editor>>,
         \A s \in Schedules : Present(s)' => Present(s)
  PROVE  OwnerInv'
  BY DEF OwnerInv

LEMMA ResolveOwner ==
  ASSUME TypeOK, RowInv, OwnerInv, NEW r \in Resolvers, Resolve(r)
  PROVE  OwnerInv'
<1> USE DEF rows, people
<1>1. \A s \in Schedules : Present(s)' => Present(s)
  <2>1. CASE FindDueCandidates(r) \/ FindUnresolvedAudiences(r) \/ CheckTarget(r)
             \/ InsertRecipients(r)
    BY <2>1 DEF FindDueCandidates, FindUnresolvedAudiences, CheckTarget,
                InsertRecipients, Present
  <2>2. CASE ClaimScheduled(r)
    <3>1. CASE Claimable(resolver[r].current)
      BY <2>2, <3>1, ClaimEffect DEF Claimable, Present
    <3>2. CASE ~Claimable(resolver[r].current)
      BY <2>2, <3>2 DEF ClaimScheduled, Present
    <3> QED
      BY <3>1, <3>2
  <2>3. CASE CompleteScheduleIfResolved(r)
    BY <2>3 DEF CompleteScheduleIfResolved, Present, TypeOK, ScheduleRow
  <2>4. CASE FailSchedule(r)
    BY <2>4 DEF FailSchedule, Failed, Resolving, Present, TypeOK, ScheduleRow
  <2> QED
    BY <2>1, <2>2, <2>3, <2>4 DEF Resolve
<1>2. notification' = notification /\ UNCHANGED <<automatic, editor>>
  BY DEF Resolve, FindDueCandidates, ClaimScheduled, FindUnresolvedAudiences,
         CheckTarget, InsertRecipients, CompleteScheduleIfResolved, FailSchedule
<1> QED
  BY <1>1, <1>2, SameOwnerKeep

LEMMA CreatedOwner ==
  ASSUME TypeOK, OwnerInv, NEW T, NEW due \in BOOLEAN, Created(T, due)
  PROVE  OwnerInv'
  BY DEF Created, people, OwnerInv

LEMMA StaffOwner ==
  ASSUME TypeOK, RowInv, OwnerInv, NEW e \in Editors, Staff(e)
  PROVE  OwnerInv'
<1> USE DEF rows, people
<1>1. CASE CreateNotification(e)
  BY <1>1, CreatedOwner DEF CreateNotification
<1>2. CASE PatchNotification(e)
  <2>1. \A z \in Editors : editor'[z].pc \in {"patch", editor[z].pc}
    BY <1>2 DEF PatchNotification, TypeOK
  <2> QED
    BY <1>2, <2>1 DEF PatchNotification, OwnerInv, Present
<1>3. CASE ApplyPatch(e)
  <2>1. \A z \in Editors : editor'[z].pc \in {"idle", editor[z].pc}
    BY <1>3 DEF ApplyPatch, IdleEditor, TypeOK
  <2>2. \A s \in Schedules : Present(s)' => Present(s)
    BY <1>3 DEF ApplyPatch, Present, TypeOK, ScheduleRow
  <2> QED
    BY <1>3, <2>1, <2>2 DEF ApplyPatch, OwnerInv
<1>4. CASE DeleteNotification(e)
  BY <1>4 DEF DeleteNotification, OwnerInv, Present
<1>5. CASE ApplyDelete(e)
  <2>1. ~automatic /\ automatic' = automatic
    BY <1>5 DEF ApplyDelete, OwnerInv
  <2>2. \A s \in Schedules : Present(s)' => Present(s) /\ notification' = "present"
    BY <1>5 DEF ApplyDelete, Deleted, NoRow, Present, OwnerInv
  <2> QED
    BY <2>1, <2>2 DEF OwnerInv
<1>6. CASE CancelSchedule(e)
  BY <1>6, SameOwnerKeep DEF CancelSchedule, Deleted, NoRow, Present
<1>7. CASE ResendSchedule(e)
  BY <1>7 DEF ResendSchedule, OwnerInv
<1> QED
  BY <1>1, <1>2, <1>3, <1>4, <1>5, <1>6, <1>7 DEF Staff

LEMMA WorldOwner ==
  ASSUME TypeOK, RowInv, OwnerInv, World
  PROVE  OwnerInv'
<1> USE DEF rows, people
<1>1. ASSUME NEW s \in Schedules, BecomeDue(s) \/ StartSending(s) \/ Stop(s)
      PROVE  OwnerInv'
  <2>1. \A z \in Schedules : Present(z)' => Present(z)
    BY <1>1 DEF BecomeDue, StartSending, Stop, Present, TypeOK, ScheduleRow
  <2> QED
    BY <1>1, <2>1, SameOwnerKeep DEF BecomeDue, StartSending, Stop
<1>2. CASE CreateAutomatic
  BY <1>2, CreatedOwner DEF CreateAutomatic
<1>3. CASE ChangeHold \/ RewriteAutomatic
  <2>1. \A z \in Schedules : Present(z)' => Present(z)
    <3>1. CASE ChangeHold
      BY <3>1 DEF ChangeHold, Present, TypeOK, ScheduleRow
    <3>2. CASE RewriteAutomatic
      BY <3>2 DEF RewriteAutomatic, Present, TypeOK, ScheduleRow
    <3> QED
      BY <1>3, <3>1, <3>2
  <2> QED
    BY <1>3, <2>1, SameOwnerKeep DEF ChangeHold, RewriteAutomatic
<1>4. ASSUME NEW t \in Targets, DropTarget(t)
      PROVE  OwnerInv'
  <2>1. CASE CleanUp
    <3>1. \A z \in Schedules : Present(z)' => Present(z) /\ notification' = notification
      BY <2>1 DEF CleanUp, Unstarted, NoRow, Present, TypeOK, ScheduleRow
    <3> QED
      BY <1>4, <3>1 DEF DropTarget, OwnerInv
  <2>2. CASE UNCHANGED <<notification, schedule, audience>>
    BY <1>4, <2>2, SameOwnerKeep DEF DropTarget, Present
  <2> QED
    BY <1>4, <2>1, <2>2 DEF DropTarget
<1>5. ASSUME NEW t \in Targets, PurgeUserTarget(t)
      PROVE  OwnerInv'
  <2>1. \A z \in Schedules : Present(z)' => Present(z)
    BY <1>5 DEF PurgeUserTarget, Present, TypeOK, ScheduleRow
  <2> QED
    BY <1>5, <2>1, SameOwnerKeep DEF PurgeUserTarget
<1>6. ASSUME NEW u \in Users, NEW t \in Targets, Join(u, t) \/ Depart(u, t)
      PROVE  OwnerInv'
  BY <1>6, SameOwnerKeep DEF Join, Depart, Present
<1>7. ASSUME NEW u \in Users, Suspend(u) \/ Restore(u)
      PROVE  OwnerInv'
  BY <1>7, SameOwnerKeep DEF Suspend, Restore, Present
<1> QED
  BY <1>1, <1>2, <1>3, <1>4, <1>5, <1>6, <1>7 DEF World

LEMMA SpecOwnerInv == Spec => []OwnerInv
<1>1. Init => OwnerInv
  BY DEF Init, NoRow, IdleEditor, OwnerInv, Present
<1>2. TypeOK /\ RowInv /\ OwnerInv /\ [Next]_vars => OwnerInv'
  <2> SUFFICES ASSUME TypeOK, RowInv, OwnerInv, [Next]_vars
               PROVE  OwnerInv'
    OBVIOUS
  <2>1. CASE UNCHANGED vars
    BY <2>1, SameOwnerKeep DEF vars, Present
  <2>2. ASSUME NEW r \in Resolvers, ResolverFails(r)
        PROVE  OwnerInv'
    BY <2>2, SameOwnerKeep DEF ResolverFails, rows, people, Present
  <2> QED
    BY <2>1, <2>2, ResolveOwner, StaffOwner, WorldOwner DEF Next
<1> QED
  BY <1>1, <1>2, SpecTypeOK, SpecRowInv, PTL DEF Spec

LEMMA LifeInit == Init => Life!Init
  BY ScheduleConstants DEF Init, NoRow, Unstarted, Life!Init, SourceState, NoticeStatus,
     NoticeHeld, WaitingResends, BegunResends

(* A manual notification has no part in it. *)
LEMMA ManualStutters ==
  ASSUME ~automatic, automatic' = automatic
  PROVE  UNCHANGED Life!vars
  BY DEF Life!vars, SourceState, NoticeStatus, NoticeHeld, NoticeText, WaitingResends,
     BegunResends

(* What the schedules s of the notification look like from outside. *)
SameSchedule(s) ==
  /\ Unstarted(s)' = Unstarted(s) /\ schedule'[s].started = schedule[s].started
  /\ Unstarted(s) => schedule'[s].held = schedule[s].held

LEMMA SchedulesSame ==
  ASSUME automatic' = automatic, notification' = notification,
         \A s \in Schedules : SameSchedule(s)
  PROVE  UNCHANGED <<NoticeStatus, NoticeHeld, WaitingResends, BegunResends>>
<1>1. \A s \in Schedules \ {First} :
        Unstarted(s)' = Unstarted(s) /\ schedule'[s].started = schedule[s].started
  BY DEF SameSchedule
<1>2. SameSchedule(First)
  BY ScheduleConstants
<1> QED
  BY <1>1, <1>2 DEF SameSchedule, NoticeStatus, NoticeHeld, WaitingResends, BegunResends

(* If the schedules stay, the notice is rewritten before it has begun, or   *)
(* nothing happens to it.                                                   *)
RewrittenAtMost ==
  /\ automatic' = automatic /\ notification' = notification /\ SourceState' = SourceState
  /\ \A s \in Schedules : SameSchedule(s)
  /\ content' = content \/ (notification = "present" /\ NoneStarted)

LEMMA RewrittenImplements ==
  ASSUME TypeOK, RowInv, OwnerInv, RewrittenAtMost
  PROVE  [Life!Next]_Life!vars
<1> USE DEF RewrittenAtMost
<1>1. UNCHANGED <<NoticeStatus, NoticeHeld, WaitingResends, BegunResends>>
  BY SchedulesSame
<1>2. CASE content' = content \/ ~automatic
  BY <1>1, <1>2, ManualStutters DEF Life!vars, NoticeText
<1>3. CASE automatic /\ notification = "present" /\ NoneStarted
  <2>1. \A s \in Schedules : ~schedule[s].started
    BY <1>3 DEF NoneStarted, RowInv, StartedRow
  <2>2. NoticeStatus \notin {"none", "started"} /\ BegunResends = {}
    BY <1>3, <2>1, ScheduleConstants DEF NoticeStatus, BegunResends
  <2> QED
    BY <1>1, <2>2 DEF Life!Next, Life!Rewrite, Life!HasBegun
<1> QED
  BY <1>2, <1>3

LEMMA SameRowsImplement ==
  ASSUME TypeOK, RowInv, OwnerInv, automatic' = automatic, SourceState' = SourceState,
         UNCHANGED <<notification, content, schedule>>
  PROVE  [Life!Next]_Life!vars
<1>1. RewrittenAtMost
  BY DEF RewrittenAtMost, SameSchedule, Unstarted
<1> QED
  BY <1>1, RewrittenImplements

(* The claim is the start of the notice or of a resend. *)
LEMMA ClaimImplements ==
  ASSUME TypeOK, RowInv, OwnerInv, NEW r \in Resolvers, ClaimScheduled(r)
  PROVE  [Life!Next]_Life!vars
<1> USE DEF rows, people
<1>1. UNCHANGED <<automatic, notification, content, exists>>
  BY DEF ClaimScheduled
<1>2. SourceState' = SourceState
  BY <1>1 DEF SourceState
<1>3. CASE ~Claimable(resolver[r].current)
  <2>1. schedule' = schedule
    BY <1>3 DEF ClaimScheduled
  <2> QED
    BY <1>1, <1>2, <2>1, SameRowsImplement
<1>4. CASE ~automatic
  BY <1>1, <1>4, ManualStutters
<1>5. CASE Claimable(resolver[r].current) /\ automatic
  <2>1. PICK s \in Schedules :
          /\ Claimable(s) /\ schedule'[s].started
          /\ \A z \in Schedules : z # s => schedule'[z] = schedule[z]
    BY <1>5, ClaimEffect
  <2>2. Unstarted(s) /\ ~schedule[s].held /\ notification = "present"
    BY <2>1 DEF Claimable, Unstarted, RowInv, StartedRow, OwnerInv, Present
  <2>3. ~Unstarted(s)'
    BY <2>1 DEF Unstarted
  <2>4. \A z \in Schedules : z # s =>
          Unstarted(z)' = Unstarted(z) /\ schedule'[z] = schedule[z]
    BY <2>1 DEF Unstarted
  <2>5. CASE s = First
    <3>1. NoticeStatus = "scheduled" /\ ~NoticeHeld /\ NoticeStatus' = "started" /\ ~NoticeHeld'
      BY <1>1, <1>5, <2>1, <2>2, <2>5 DEF NoticeStatus, NoticeHeld, Unstarted
    <3>2. UNCHANGED <<NoticeText, WaitingResends, BegunResends>>
      BY <1>1, <2>4, <2>5 DEF NoticeText, WaitingResends, BegunResends
    <3> QED
      BY <1>2, <3>1, <3>2 DEF Life!Next, Life!Start
  <2>6. CASE s # First
    <3>1. UNCHANGED <<NoticeStatus, NoticeHeld, NoticeText>>
      BY <1>1, <2>4, <2>6, ScheduleConstants DEF NoticeStatus, NoticeHeld, NoticeText
    <3>2. s \in WaitingResends /\ WaitingResends' = WaitingResends \ {s}
      BY <1>1, <1>5, <2>2, <2>3, <2>4, <2>6 DEF WaitingResends
    <3>3. BegunResends' = BegunResends \cup {s}
      BY <1>1, <1>5, <2>1, <2>4, <2>6 DEF BegunResends
    <3>4. Life!StartResend(s)
      BY <1>2, <3>1, <3>2, <3>3 DEF Life!StartResend
    <3> QED
      BY <2>6, <3>4 DEF Life!Next
  <2> QED
    BY <2>5, <2>6
<1> QED
  BY <1>3, <1>4, <1>5

LEMMA ResolveImplements ==
  ASSUME TypeOK, RowInv, OwnerInv, NEW r \in Resolvers, Resolve(r)
  PROVE  [Life!Next]_Life!vars
<1> USE DEF rows, people
<1>1. UNCHANGED <<automatic, notification, content, exists>>
  BY DEF Resolve, FindDueCandidates, ClaimScheduled, FindUnresolvedAudiences,
         CheckTarget, InsertRecipients, CompleteScheduleIfResolved, FailSchedule
<1>2. SourceState' = SourceState
  BY <1>1 DEF SourceState
<1>3. CASE FindDueCandidates(r) \/ FindUnresolvedAudiences(r) \/ CheckTarget(r)
           \/ InsertRecipients(r)
  BY <1>1, <1>2, <1>3, SameRowsImplement
     DEF FindDueCandidates, FindUnresolvedAudiences, CheckTarget, InsertRecipients
<1>4. CASE CompleteScheduleIfResolved(r)
  <2>1. \A s \in Schedules : SameSchedule(s)
    BY <1>4 DEF CompleteScheduleIfResolved, SameSchedule, Unstarted, TypeOK, ScheduleRow
  <2> QED
    BY <1>1, <1>2, <2>1, RewrittenImplements DEF RewrittenAtMost
<1>5. CASE FailSchedule(r)
  <2>1. \A s \in Schedules : SameSchedule(s)
    BY <1>5 DEF FailSchedule, Failed, Resolving, SameSchedule, Unstarted, TypeOK, ScheduleRow
  <2> QED
    BY <1>1, <1>2, <2>1, RewrittenImplements DEF RewrittenAtMost
<1> QED
  BY <1>3, <1>4, <1>5, ClaimImplements DEF Resolve

LEMMA CreatedImplements ==
  ASSUME TypeOK, RowInv, OwnerInv, NEW T, NEW due \in BOOLEAN, Created(T, due),
         automatic, Source \in exists
  PROVE  [Life!Next]_Life!vars
<1> USE DEF people
<1>1. automatic' = automatic /\ SourceState = "there" /\ SourceState' = SourceState
  BY DEF Created, SourceState
<1>2. \A s \in Schedules : ~Unstarted(s) /\ ~schedule[s].started
  BY DEF Created, RowInv, StartedRow, Unstarted, Present
<1>3. \A s \in Schedules \ {First} : schedule'[s] = schedule[s]
  BY ScheduleConstants DEF Created, TypeOK
<1>4. schedule'[First] = NewSchedule(due)
  BY ScheduleConstants DEF Created, TypeOK
<1>5. NoticeStatus = "none" /\ NoticeStatus' = "scheduled" /\ ~NoticeHeld'
  BY <1>1, <1>4 DEF Created, NoticeStatus, NoticeHeld, NewSchedule, NoRow, Unstarted
<1>6. UNCHANGED <<WaitingResends, BegunResends>>
  BY <1>1, <1>3 DEF WaitingResends, BegunResends, Unstarted
<1> QED
  BY <1>1, <1>5, <1>6 DEF Life!Next, Life!Create

(* Schedules that have not started end, and the notification stays. *)
LEMMA WithdrawnImplements ==
  ASSUME TypeOK, RowInv, OwnerInv,
         UNCHANGED <<automatic, notification, content, exists>>,
         \A s \in Schedules :
           /\ schedule'[s].started = schedule[s].started
           /\ Unstarted(s)' => schedule'[s] = schedule[s]
  PROVE  [Life!Next]_Life!vars
<1>1. SourceState' = SourceState /\ NoticeText' = NoticeText /\ BegunResends' = BegunResends
  BY DEF SourceState, NoticeText, BegunResends
<1>2. \A s \in Schedules : Unstarted(s)' => Unstarted(s)
  BY DEF Unstarted
<1>3. WaitingResends' \subseteq WaitingResends
  BY <1>2 DEF WaitingResends
<1>4. \/ UNCHANGED <<NoticeStatus, NoticeHeld>>
      \/ NoticeStatus = "scheduled" /\ NoticeStatus' = "cancelled" /\ ~NoticeHeld'
  BY <1>2, ScheduleConstants DEF NoticeStatus, NoticeHeld, Unstarted
<1> QED
  BY <1>1, <1>3, <1>4 DEF Life!Next, Life!Withdraw

LEMMA StaffImplements ==
  ASSUME TypeOK, RowInv, OwnerInv, NEW e \in Editors, Staff(e)
  PROVE  [Life!Next]_Life!vars
<1> USE DEF rows, people
<1>1. UNCHANGED <<automatic, exists>> /\ SourceState' = SourceState
  BY DEF Staff, CreateNotification, Created, PatchNotification, ApplyPatch,
         DeleteNotification, ApplyDelete, CancelSchedule, ResendSchedule, SourceState
<1>2. CASE ~automatic
  BY <1>1, <1>2, ManualStutters
<1>3. CASE CreateNotification(e) \/ DeleteNotification(e) \/ ApplyDelete(e)
  BY <1>1, <1>3, ManualStutters
     DEF CreateNotification, DeleteNotification, ApplyDelete, OwnerInv
<1>4. CASE PatchNotification(e)
  BY <1>1, <1>4, SameRowsImplement DEF PatchNotification
<1>5. CASE ApplyPatch(e)
  <2>1. CASE Editable(editor[e].schedule)
    <3>1. \A s \in Schedules : /\ schedule'[s].status = schedule[s].status
                               /\ schedule'[s].started = schedule[s].started
                               /\ schedule'[s].held = schedule[s].held
      BY <1>5, <2>1 DEF ApplyPatch, TypeOK, ScheduleRow
    <3>2. \A s \in Schedules : SameSchedule(s)
      BY <3>1 DEF SameSchedule, Unstarted
    <3> QED
      BY <1>1, <1>5, <2>1, <3>2, RewrittenImplements
         DEF ApplyPatch, Editable, RewrittenAtMost
  <2>2. CASE ~Editable(editor[e].schedule)
    BY <1>1, <1>5, <2>2, SameRowsImplement DEF ApplyPatch
  <2> QED
    BY <2>1, <2>2
<1>6. CASE CancelSchedule(e)
  <2>1. PICK s \in Schedules : Cancellable(s) /\ Deleted({s})
    BY <1>6 DEF CancelSchedule
  <2>2. \A z \in Schedules : /\ schedule'[z].started = schedule[z].started
                             /\ Unstarted(z)' => schedule'[z] = schedule[z]
    BY <2>1 DEF Cancellable, Deleted, NoRow, Unstarted, TypeOK, ScheduleRow
  <2> QED
    BY <1>1, <1>6, <2>2, WithdrawnImplements DEF CancelSchedule
<1>7. CASE ResendSchedule(e) /\ automatic
  <2>1. PICK from, s \in Schedules, due \in BOOLEAN :
          /\ Present(from) /\ s # First /\ schedule[s].status = "unused"
          /\ schedule' = [schedule EXCEPT ![s] = NewSchedule(due)]
    BY <1>7 DEF ResendSchedule
  <2>2. notification = "present" /\ UNCHANGED <<notification, content>>
    BY <1>7, <2>1 DEF ResendSchedule, OwnerInv
  <2>3. ~schedule[s].started
    BY <2>1 DEF RowInv, StartedRow, Present
  <2>4. /\ schedule'[s] = NewSchedule(due)
        /\ \A z \in Schedules : z # s => schedule'[z] = schedule[z]
    BY <2>1 DEF TypeOK
  <2>5. UNCHANGED <<NoticeStatus, NoticeHeld, NoticeText>> /\ NoticeStatus # "none"
    BY <1>1, <1>7, <2>1, <2>2, <2>4, ScheduleConstants
       DEF NoticeStatus, NoticeHeld, NoticeText, Unstarted
  <2>6. s \notin WaitingResends \cup BegunResends
    BY <2>1, <2>3 DEF WaitingResends, BegunResends, Unstarted
  <2>7. WaitingResends' = WaitingResends \cup {s}
    BY <1>1, <1>7, <2>1, <2>4 DEF WaitingResends, Unstarted, NewSchedule, NoRow
  <2>8. BegunResends' = BegunResends
    BY <1>1, <2>3, <2>4 DEF BegunResends, NewSchedule, NoRow
  <2>9. SourceState = "there"
    BY <1>7 DEF ResendSchedule, SourceState
  <2>10. Life!Resend(s)
    BY <1>1, <2>5, <2>6, <2>7, <2>8, <2>9 DEF Life!Resend
  <2> QED
    BY <2>1, <2>10 DEF Life!Next
<1> QED
  BY <1>2, <1>3, <1>4, <1>5, <1>6, <1>7 DEF Staff

(* The clean-up ends the life of the notice, as far as it has not begun. *)
LEMMA CleanUpImplements ==
  ASSUME TypeOK, RowInv, OwnerInv, automatic, DropTarget(Source)
  PROVE  [Life!Next]_Life!vars
<1>1. CleanUp /\ UNCHANGED <<automatic, content>>
  BY DEF DropTarget
<1>2. SourceState = "there" /\ SourceState' = "gone"
  BY <1>1 DEF DropTarget, SourceState
<1>3. \A s \in Schedules :
        ~Unstarted(s)' /\ schedule'[s].started = schedule[s].started
  BY <1>1 DEF CleanUp, Unstarted, NoRow, TypeOK, ScheduleRow
<1>4. WaitingResends' = {} /\ BegunResends' = BegunResends
  BY <1>1, <1>3 DEF WaitingResends, BegunResends
<1>5. \A s \in Schedules : schedule[s].started => notification' = notification
  BY <1>1 DEF CleanUp, Unstarted, RowInv, StartedRow
<1>6. IF NoticeStatus = "started" THEN UNCHANGED <<NoticeStatus, NoticeHeld>>
      ELSE NoticeStatus' \in {"none", "cancelled"} /\ ~NoticeHeld'
  BY <1>1, <1>3, <1>5, ScheduleConstants DEF NoticeStatus, NoticeHeld
<1>7. NoticeText' = NoticeText
  BY <1>1 DEF NoticeText
<1> QED
  BY <1>2, <1>4, <1>6, <1>7 DEF Life!Next, Life!End

LEMMA WorldImplements ==
  ASSUME TypeOK, RowInv, OwnerInv, World
  PROVE  [Life!Next]_Life!vars
<1> USE DEF rows, people
<1>1. ASSUME NEW s \in Schedules, BecomeDue(s) \/ StartSending(s) \/ Stop(s)
      PROVE  [Life!Next]_Life!vars
  <2>1. CASE BecomeDue(s)
    <3>1. \A z \in Schedules : SameSchedule(z)
      BY <2>1 DEF BecomeDue, SameSchedule, Unstarted, TypeOK, ScheduleRow
    <3> QED
      BY <2>1, <3>1, RewrittenImplements DEF BecomeDue, RewrittenAtMost, SourceState
  <2>2. CASE StartSending(s)
    <3>1. \A z \in Schedules : SameSchedule(z)
      BY <2>2 DEF StartSending, SameSchedule, Unstarted, TypeOK, ScheduleRow
    <3> QED
      BY <2>2, <3>1, RewrittenImplements DEF StartSending, RewrittenAtMost, SourceState
  <2>3. CASE Stop(s)
    <3>1. \A z \in Schedules : SameSchedule(z)
      BY <2>3 DEF Stop, SameSchedule, Unstarted, TypeOK, ScheduleRow
    <3> QED
      BY <2>3, <3>1, RewrittenImplements DEF Stop, RewrittenAtMost, SourceState
  <2> QED
    BY <1>1, <2>1, <2>2, <2>3
<1>2. CASE CreateAutomatic
  BY <1>2, CreatedImplements DEF CreateAutomatic
<1>3. CASE ChangeHold
  <2>1. /\ UNCHANGED <<automatic, notification, content, exists>> /\ automatic
        /\ Unstarted(First) /\ First \in Schedules
    BY <1>3, ScheduleConstants DEF ChangeHold, Syncable, Unstarted
  <2>2. \A s \in Schedules : /\ schedule'[s].started = schedule[s].started
                             /\ Unstarted(s)' = Unstarted(s)
    BY <1>3 DEF ChangeHold, Unstarted, TypeOK, ScheduleRow
  <2>3. NoticeStatus = "scheduled" /\ NoticeStatus' = NoticeStatus
    BY <2>1, <2>2 DEF NoticeStatus, Unstarted, OwnerInv, Present
  <2>4. UNCHANGED <<SourceState, NoticeText, WaitingResends, BegunResends>>
    BY <2>1, <2>2 DEF SourceState, NoticeText, WaitingResends, BegunResends
  <2>5. NoticeHeld' \in BOOLEAN
    BY DEF NoticeHeld
  <2> QED
    BY <2>3, <2>4, <2>5 DEF Life!Next, Life!HoldOrRelease
<1>4. CASE RewriteAutomatic
  <2>1. \A z \in Schedules : SameSchedule(z)
    BY <1>4 DEF RewriteAutomatic, SameSchedule, Unstarted, TypeOK, ScheduleRow
  <2>2. notification = "present"
    BY <1>4, ScheduleConstants DEF RewriteAutomatic, Syncable, OwnerInv, Present
  <2> QED
    BY <1>4, <2>1, <2>2, RewrittenImplements
       DEF RewriteAutomatic, RewrittenAtMost, SourceState
<1>5. ASSUME NEW t \in Targets, DropTarget(t)
      PROVE  [Life!Next]_Life!vars
  <2>1. CASE automatic /\ t = Source
    BY <1>5, <2>1, CleanUpImplements
  <2>2. CASE ~(automatic /\ t = Source)
    <3>1. automatic' = automatic /\ SourceState' = SourceState
      BY <1>5, <2>2 DEF DropTarget, SourceState
    <3> QED
      BY <1>5, <2>2, <3>1, SameRowsImplement DEF DropTarget
  <2> QED
    BY <2>1, <2>2
<1>6. ASSUME NEW t \in Targets, PurgeUserTarget(t)
      PROVE  [Life!Next]_Life!vars
  <2>1. \A s \in Schedules : /\ schedule'[s].started = schedule[s].started
                             /\ Unstarted(s)' => schedule'[s] = schedule[s]
    BY <1>6 DEF PurgeUserTarget, Unstarted, TypeOK, ScheduleRow
  <2> QED
    BY <1>6, <2>1, WithdrawnImplements DEF PurgeUserTarget
<1>7. ASSUME NEW u \in Users, NEW t \in Targets, Join(u, t) \/ Depart(u, t)
      PROVE  [Life!Next]_Life!vars
  BY <1>7, SameRowsImplement DEF Join, Depart, SourceState
<1>8. ASSUME NEW u \in Users, Suspend(u) \/ Restore(u)
      PROVE  [Life!Next]_Life!vars
  BY <1>8, SameRowsImplement DEF Suspend, Restore, SourceState
<1> QED
  BY <1>1, <1>2, <1>3, <1>4, <1>5, <1>6, <1>7, <1>8 DEF World

(* Every step of a resolver, of staff or of another component is a step in  *)
(* the life of the automatic notification, or none: what the gathering sync *)
(* relies on holds whatever these do.                                       *)
THEOREM SpecImplementsNoticeLife == Spec => ImplementsNoticeLife
<1>1. TypeOK /\ RowInv /\ OwnerInv /\ [Next]_vars => [Life!Next]_Life!vars
  <2> SUFFICES ASSUME TypeOK, RowInv, OwnerInv, [Next]_vars
               PROVE  [Life!Next]_Life!vars
    OBVIOUS
  <2>1. CASE UNCHANGED vars
    BY <2>1, SameRowsImplement DEF vars, SourceState
  <2>2. ASSUME NEW r \in Resolvers, ResolverFails(r)
        PROVE  [Life!Next]_Life!vars
    BY <2>2, SameRowsImplement DEF ResolverFails, rows, people, SourceState
  <2> QED
    BY <2>1, <2>2, ResolveImplements, StaffImplements, WorldImplements DEF Next
<1> QED
  BY <1>1, LifeInit, SpecTypeOK, SpecRowInv, SpecOwnerInv, PTL
     DEF Spec, ImplementsNoticeLife, Life!Spec

(* Inherited from NoticeLife: however the deletion of a gathering meets     *)
(* resolvers, edits, purges and resends, no schedule about it is left that  *)
(* has not started.                                                         *)
THEOREM SpecNothingWaits ==
  Spec => [](automatic /\ Source \notin exists => \A s \in Schedules : ~Unstarted(s))
<1>1. Life!Init => Life!NothingWaits
  BY DEF Life!Init, Life!NothingWaits
<1>2. Life!NothingWaits /\ [Life!Next]_Life!vars => Life!NothingWaits'
  BY DEF Life!NothingWaits, Life!Next, Life!vars, Life!Appear, Life!Create,
         Life!HoldOrRelease, Life!Rewrite, Life!Start, Life!Withdraw, Life!Resend,
         Life!StartResend, Life!End
<1>3. OwnerInv /\ Life!NothingWaits =>
        (automatic /\ Source \notin exists => \A s \in Schedules : ~Unstarted(s))
  <2> SUFFICES ASSUME OwnerInv, Life!NothingWaits, automatic, Source \notin exists,
                      NEW s \in Schedules, Unstarted(s)
               PROVE  FALSE
    OBVIOUS
  <2>1. notification = "present"
    BY DEF OwnerInv, Present, Unstarted
  <2>2. NoticeStatus # "scheduled" /\ WaitingResends = {}
    BY DEF Life!NothingWaits, SourceState
  <2>3. CASE s = First
    BY <2>1, <2>2, <2>3 DEF NoticeStatus, Unstarted
  <2>4. CASE s # First
    BY <2>2, <2>4 DEF WaitingResends
  <2> QED
    BY <2>3, <2>4
<1> QED
  BY <1>1, <1>2, <1>3, SpecImplementsNoticeLife, SpecOwnerInv, PTL
     DEF ImplementsNoticeLife, Life!Spec
=============================================================================
