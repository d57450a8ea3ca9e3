---------------------- MODULE NotificationScheduleProps ----------------------
(***************************************************************************)
(* What the life of a schedule up to its delivery has to guarantee.        *)
(***************************************************************************)
EXTENDS NotificationSchedule

(* Every variable holds a value of its type, and a resolver at work has a  *)
(* schedule in hand, and a target when it inserts its users.               *)
BusyResolver ==
  {v \in ResolverState : /\ v.pc # "idle" => v.current \in Schedules
                         /\ v.pc = "insert" => v.target \in Targets}

TypeOK ==
  /\ automatic \in BOOLEAN
  /\ notification \in {"absent", "present", "deleted"}
  /\ content \in 0 .. 1
  /\ schedule \in [Schedules -> ScheduleRow]
  /\ audience \in [Schedules -> [Targets -> AudienceState]]
  /\ recipients \in [Schedules -> SUBSET Users]
  /\ exists \in SUBSET Targets
  /\ members \in [Targets -> SUBSET Users]
  /\ active \in SUBSET Users
  /\ resolver \in [Resolvers -> BusyResolver]
  /\ editor \in [Editors -> EditorState]
  /\ steady \in [Schedules -> SUBSET Users]
  /\ edits \in 0 .. MaxEdits /\ faults \in 0 .. MaxFaults

(* What staff may still edit has reached nobody, and what has recipients   *)
(* was started: a schedule that has not started, and one that is gone, has *)
(* no recipients and no audience that was resolved.                        *)
UnstartedReachedNobody ==
  \A s \in Schedules :
    ~schedule[s].started =>
      recipients[s] = {} /\ \A t \in Targets : audience[s][t] # "resolved"

(* Nothing is decided behind the back of a schedule that has started: its  *)
(* audiences are only resolved, or purged with an account, the texts of    *)
(* its notification stay, and it is not deleted.                           *)
StartedIsKept ==
  [][\A s \in Schedules : schedule[s].started =>
       /\ schedule'[s].started
       /\ content' = content
       /\ \A t \in Targets : audience'[s][t] # audience[s][t] =>
            \/ audience[s][t] = "open" /\ audience'[s][t] = "resolved"
            \/ audience'[s][t] = "none" /\ t \in UserTargets \ exists]_vars

(* The recipients are complete when they are declared so: every user whom  *)
(* the audiences meant from the claim on is among them, whichever          *)
(* invocations resolved them and however often they failed.                *)
NobodyForgotten ==
  \A s \in Schedules : schedule[s].resolved => steady[s] \subseteq recipients[s]

(* Once the recipients are fixed, or the schedule has ended, none is added. *)
RecipientsClosed ==
  [][\A s \in Schedules :
       schedule[s].resolved \/ schedule[s].status \in {"failed", "stopped"} =>
         recipients'[s] \subseteq recipients[s]]_vars

(* A held schedule is not started, whatever the resolver saw before.       *)
HeldNeverStarts ==
  [][\A s \in Schedules : schedule[s].held /\ ~schedule[s].started =>
       ~schedule'[s].started]_vars

(* The life of an automatic notification, as NotificationSchedule sees it:   *)
(* a manual one has no part in it.                                          *)
SourceState ==
  IF ~automatic THEN "new" ELSE IF Source \in exists THEN "there" ELSE "gone"
NoticeStatus ==
  IF ~automatic \/ notification # "present" THEN "none"
  ELSE IF schedule[First].started THEN "started"
  ELSE IF Unstarted(First) THEN "scheduled" ELSE "cancelled"
NoticeHeld == NoticeStatus = "scheduled" /\ schedule[First].held
NoticeText == IF automatic THEN content ELSE 0
WaitingResends == {s \in Schedules \ {First} : automatic /\ Unstarted(s)}
BegunResends == {s \in Schedules \ {First} : automatic /\ schedule[s].started}

Life == INSTANCE NoticeLife WITH
  Resends <- Schedules \ {First}, source <- SourceState, status <- NoticeStatus,
  held <- NoticeHeld, text <- NoticeText, waiting <- WaitingResends, begun <- BegunResends

(* Resolvers, staff, purges and the clean-up after a gathering implement     *)
(* the same life as the gathering sync does.                                *)
ImplementsNoticeLife == Life!Spec

(* An audience whose target has disappeared is not settled as an empty one *)
(* (the comment in resolveAudience).                                       *)
NoEmptyAudience ==
  [][\A s \in Schedules, t \in Targets :
       audience[s][t] = "open" /\ audience'[s][t] = "resolved" => Available(t)]_vars

(* A schedule that is due gets on: it is resolved, fails, is stopped or    *)
(* withdrawn, unless it is held back or moved to a later time.             *)
EveryDueScheduleGetsOn ==
  \A s \in Schedules : Candidate(s) ~> ~Candidate(s)

Fairness == \A r \in Resolvers : WF_vars(Resolve(r))
FairSpec == Spec /\ Fairness
=============================================================================
