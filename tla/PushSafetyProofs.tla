-------------------------- MODULE PushSafetyProofs --------------------------
(***************************************************************************)
(* The safety of the sending phase.  First the statuses of schedules and   *)
(* deliveries: every step is one of a few shapes, from which the agreement *)
(* of the statuses, the bound on the attempts and the refinement of        *)
(* PushLifecycle follow.  Then what a step does between a consumer and one *)
(* delivery, from which the honesty of the outcome, the fence and the      *)
(* exclusive lease follow.                                                 *)
(***************************************************************************)
EXTENDS PushDeliveryProofs

-----------------------------------------------------------------------------
(* What a step may do to one row *)

SameAttempt(d) == delivery'[d].attempt = delivery[d].attempt
IsActive(d) == delivery[d].status \in ActiveStatus

Kept(d) == SameAttempt(d) /\ delivery'[d].status = delivery[d].status

Settled(d) ==
  /\ IsActive(d) /\ SameAttempt(d)
  /\ \/ delivery'[d].status \in {"sent", "failed"}
     \/ delivery'[d].status = "stopped" /\ StatusOf(d) = "stopped"

Deferred(d) ==
  /\ delivery[d].status = "sending" /\ SameAttempt(d)
  /\ delivery'[d].status = "retry_wait" /\ StatusOf(d) # "stopped"

Claimed(d) ==
  /\ IsActive(d) /\ StatusOf(d) = "sending"
  /\ delivery'[d].status = "sending"
  /\ \/ delivery'[d].attempt = 1
     \/ /\ delivery[d].status = "pending" \/ delivery[d].attempt < MaxAttempts
        /\ delivery'[d].attempt = delivery[d].attempt + 1

RowsMove ==
  /\ UNCHANGED schedule
  /\ \A d \in Deliveries : Kept(d) \/ Settled(d) \/ Deferred(d) \/ Claimed(d)

SchedulesComplete ==
  UNCHANGED delivery /\ \E S \in SUBSET Schedules : CompleteIfDone(S)

StepShape ==
  \/ RowsMove
  \/ SchedulesComplete
  \/ \E s \in Schedules :
       ReadyCronPrepare(s) \/ ReadyCronMarkFailed(s) \/ StopSchedule(s)

LEMMA QuietMoves == UNCHANGED <<schedule, delivery>> => RowsMove
  BY DEF RowsMove, Kept, SameAttempt

LEMMA FailPendingMoves ==
  ASSUME RowsTyped, NEW S, FailPendingWithoutToken(S), UNCHANGED schedule
  PROVE  RowsMove
<1> SUFFICES ASSUME NEW d \in Deliveries PROVE Kept(d) \/ Settled(d)
  BY DEF RowsMove
<1>1. CASE delivery'[d] = delivery[d]
  BY <1>1 DEF Kept, SameAttempt
<1>2. CASE delivery[d].status = "pending" /\ delivery'[d] = Ended(delivery[d], "failed")
  BY <1>2, EndedRow DEF Settled, IsActive, SameAttempt, ActiveStatus, TerminalStatus, RowsTyped
<1> QED
  BY <1>1, <1>2 DEF FailPendingWithoutToken

LEMMA RetireMoves ==
  ASSUME RowsTyped, NEW age, RetireUnsendableDeliveries(age), UNCHANGED schedule
  PROVE  RowsMove
<1> SUFFICES ASSUME NEW d \in Deliveries PROVE Kept(d) \/ Settled(d)
  BY DEF RowsMove
<1>1. CASE ~Retirable(d, age)
  BY <1>1 DEF Kept, SameAttempt, RetireUnsendableDeliveries
<1>2. CASE Retirable(d, age)
  <2> DEFINE status == IF StatusOf(d) = "stopped" THEN "stopped" ELSE "failed"
  <2>1. delivery'[d] = Ended(delivery[d], status)
    BY <1>2 DEF RetireUnsendableDeliveries
  <2>2. IsActive(d)
    BY <1>2 DEF Retirable, LeaseLapsed, IsActive, ActiveStatus
  <2>3. status \in TerminalStatus
    BY DEF TerminalStatus
  <2>4. delivery'[d].status = status /\ SameAttempt(d)
    BY <2>1, <2>3, EndedRow DEF RowsTyped, SameAttempt
  <2> QED
    BY <2>2, <2>4 DEF Settled
<1> QED
  BY <1>1, <1>2

LEMMA SettleMoves ==
  ASSUME RowsTyped, NEW w, NEW e \in Deliveries, NEW outcome \in {"sent", "failed"},
         Settle(w, e, outcome), UNCHANGED schedule
  PROVE  RowsMove
<1> SUFFICES ASSUME NEW d \in Deliveries PROVE Kept(d) \/ Settled(d)
  BY DEF RowsMove
<1>1. CASE delivery'[d] = delivery[d]
  BY <1>1 DEF Kept, SameAttempt
<1>2. CASE delivery[d].status = "sending" /\ delivery'[d] = Ended(delivery[d], outcome)
  BY <1>2, EndedRow DEF Settled, IsActive, SameAttempt, ActiveStatus, TerminalStatus, RowsTyped
<1> QED
  BY <1>1, <1>2 DEF Settle, Owns, RowsTyped

LEMMA SaveRetryMoves ==
  ASSUME RowsTyped, NEW w, NEW e \in Deliveries, NEW isConfig \in BOOLEAN,
         NEW delay \in Int, consumer[w].age \in Int, SaveRetry(w, e, isConfig, delay),
         UNCHANGED schedule
  PROVE  RowsMove
<1> SUFFICES ASSUME NEW d \in Deliveries PROVE Kept(d) \/ Settled(d) \/ Deferred(d)
  BY DEF RowsMove
<1> DEFINE next == delay - consumer[w].age
<1>1. CASE delivery'[d] = delivery[d]
  BY <1>1 DEF Kept, SameAttempt
<1>2. CASE delivery[d].status = "sending" /\ delivery'[d] = RetryRow(d, isConfig, next)
  <2>1. next \in Int
    OBVIOUS
  <2> HIDE DEF next
  <2>2. /\ SameAttempt(d)
        /\ delivery'[d].status = IF StatusOf(d) = "stopped" THEN "stopped"
                                 ELSE IF ~HasToken(d) THEN "failed" ELSE "retry_wait"
    BY <1>2, <2>1, WaitingRow DEF RowsTyped, SameAttempt
  <2> QED
    BY <1>2, <2>2 DEF Settled, Deferred, IsActive, ActiveStatus
<1> QED
  BY <1>1, <1>2 DEF SaveRetry, Owns, RowsTyped

LEMMA ClaimMoves ==
  ASSUME TypeOK, NEW w \in Consumers, ClaimUpdate(w)
  PROVE  RowsMove
<1>0. UNCHANGED schedule
  BY DEF ClaimUpdate
<1> SUFFICES ASSUME NEW d \in Deliveries PROVE Kept(d) \/ Claimed(d)
  BY <1>0 DEF RowsMove
<1> DEFINE age == consumer[w].age
<1>1. CASE delivery'[d] = delivery[d]
  BY <1>1 DEF Kept, SameAttempt
<1>2. CASE Eligible(w, d, age) /\ delivery'[d] = ClaimedRow(d, age)
  <2>1. age \in Nat /\ delivery[d] \in TimedRow
    BY DEF TypeOK, ConsumerState
  <2>2. PendingEligible(d) \/ RetryEligible(d, age)
    BY <1>2 DEF Eligible
  <2> HIDE DEF age
  <2>3. /\ delivery'[d].status = "sending"
        /\ delivery'[d].attempt = IF delivery[d].config THEN 1 ELSE delivery[d].attempt + 1
    BY <1>2, <2>1, AttemptedRow
  <2>4. IsActive(d) /\ StatusOf(d) = "sending"
    BY <2>2 DEF PendingEligible, RetryEligible, RetryDue, LeaseLapsed, IsActive, ActiveStatus
  <2>5. \/ delivery[d].status = "pending"
        \/ delivery[d].config \/ delivery[d].attempt < MaxAttempts
    BY <2>2 DEF PendingEligible, RetryEligible
  <2> QED
    BY <2>3, <2>4, <2>5 DEF Claimed
<1> QED
  BY <1>1, <1>2 DEF ClaimUpdate

-----------------------------------------------------------------------------
(* Every step has one of the shapes *)

LEMMA CompleteShape ==
  ASSUME NEW S \in SUBSET Schedules, CompleteIfDone(S), UNCHANGED delivery
  PROVE  SchedulesComplete
  BY DEF SchedulesComplete

LEMMA CronShape ==
  ASSUME TypeOK, RetryCronStep \/ ReadyCronStep
  PROVE  StepShape
<1> USE DEF StepShape
<1>1. CASE RetryCronRetire
  BY <1>1, RetireMoves DEF RetryCronRetire, TypeOK, RowsTyped
<1>2. CASE RetryCronComplete
  <2>1. retryCron.retired \in SUBSET Schedules
    BY DEF TypeOK, RetryCronState
  <2> QED
    BY <1>2, <2>1, CompleteShape DEF RetryCronComplete
<1>3. CASE RetryCronBegin \/ RetryCronEnqueue \/ ReadyCronFind \/ ReadyCronEnqueue
  BY <1>3, QuietMoves DEF RetryCronBegin, RetryCronEnqueue, ReadyCronFind, ReadyCronEnqueue, dbVars
<1>4. ASSUME NEW s \in Schedules,
             \/ ReadyCronPrepare(s) \/ ReadyCronPrepareFails(s)
             \/ ReadyCronMarkFailed(s)
             \/ ReadyCronSweep(s) \/ ReadyCronCount(s)
      PROVE  StepShape
  <2>1. CASE ReadyCronPrepare(s) \/ ReadyCronMarkFailed(s)
    BY <2>1
  <2>2. CASE ReadyCronPrepareFails(s)
    BY <2>2, QuietMoves DEF ReadyCronPrepareFails, dbVars
  <2>3. CASE ReadyCronSweep(s)
    BY <2>3, FailPendingMoves DEF ReadyCronSweep, TypeOK, RowsTyped
  <2>4. CASE ReadyCronCount(s)
    BY <2>4, QuietMoves, CompleteShape DEF ReadyCronCount
  <2> QED
    BY <1>4, <2>1, <2>2, <2>3, <2>4
<1> QED
  BY <1>1, <1>2, <1>3, <1>4 DEF RetryCronStep, ReadyCronStep

LEMMA JobShape ==
  ASSUME TypeOK, NEW w \in Consumers, NEW d \in Deliveries, JobStep(w, d)
  PROVE  RowsMove
<1> USE DEF RowsTyped
<1>0. consumer[w].age \in Int
  BY DEF TypeOK, ConsumerState
<1>1. ASSUME MarkFailed(w, d) PROVE RowsMove
  BY <1>1, SettleMoves DEF MarkFailed, TypeOK
<1>2. ASSUME \E isConfig \in BOOLEAN, delay \in Int : SaveRetry(w, d, isConfig, delay)
      PROVE RowsMove
  BY <1>0, <1>2, SaveRetryMoves DEF SaveRetry, TypeOK
<1>3. CASE RenewDeliveryLease(w, d)
  <2>0. delivery \in [Deliveries -> DeliveryRow]
    BY DEF TypeOK, TimedRow
  <2>1. ASSUME NEW e \in Deliveries PROVE Kept(e)
    <3>1. \/ delivery' = delivery
          \/ delivery' = [delivery EXCEPT ![d] = [delivery[d] EXCEPT !.last = consumer[w].age]]
      BY <1>3 DEF RenewDeliveryLease
    <3>2. delivery'[e] = delivery[e] \/
          delivery'[e] = [delivery[e] EXCEPT !.last = consumer[w].age]
      BY <2>0, <3>1
    <3>3. delivery[e] \in DeliveryRow
      BY <2>0
    <3> QED
      BY <3>2, <3>3 DEF Kept, SameAttempt, DeliveryRow
  <2> QED
    BY <1>3, <2>1 DEF RenewDeliveryLease, RowsMove
<1>4. CASE FcmAccepts(w, d) \/ FcmUnregistered(w, d) \/ JobThrows(w, d)
  BY <1>4, QuietMoves DEF FcmAccepts, FcmUnregistered, JobThrows, dbVars
<1>5. CASE MarkSent(w, d)
  BY <1>5, SettleMoves DEF MarkSent, TypeOK
<1>6. CASE FcmTemporaryError(w, d) \/ FcmAnswerLost(w, d)
  BY <1>1, <1>2, <1>6, TemporaryEnds DEF FcmTemporaryError, FcmAnswerLost
<1>7. CASE FcmPermanentError(w, d) \/ MarkRejected(w, d)
  BY <1>1, <1>7 DEF FcmPermanentError, MarkRejected
<1>8. CASE FcmConfigurationError(w, d)
  <2>1. ConfigDelay \in Int
    BY PushConstants
  <2>2. SaveRetry(w, d, TRUE, ConfigDelay)
    BY <1>8 DEF FcmConfigurationError
  <2> QED
    BY <1>2, <2>1, <2>2
<1> QED
  BY <1>3, <1>4, <1>5, <1>6, <1>7, <1>8 DEF JobStep

LEMMA ConsumerShape ==
  ASSUME TypeOK, NEW w \in Consumers, ConsumerStep(w)
  PROVE  StepShape
<1> USE DEF StepShape, RowsTyped
<1>1. CASE SendStart(w)
  BY <1>1, FailPendingMoves DEF SendStart, TypeOK
<1>2. CASE RetryStart(w)
  BY <1>2, RetireMoves DEF RetryStart, TypeOK
<1>3. CASE ClaimSelect(w) \/ ClaimDetails(w) \/ BatchEnds(w)
  BY <1>3, QuietMoves DEF ClaimSelect, ClaimDetails, BatchEnds, dbVars
<1>4. CASE ClaimUpdate(w)
  BY <1>4, ClaimMoves
<1>5. CASE \E d \in Deliveries : JobStep(w, d)
  BY <1>5, JobShape
<1>6. CASE SendSweep(w)
  BY <1>6, FailPendingMoves DEF SendSweep, TypeOK
<1>7. CASE MessageEnds(w)
  <2>1. consumer[w].touched \in SUBSET Schedules /\ consumer[w].msg.schedules \in SUBSET Schedules
    BY DEF TypeOK, ConsumerState, Message
  <2> QED
    BY <1>7, <2>1, CompleteShape DEF MessageEnds
<1> QED
  BY <1>1, <1>2, <1>3, <1>4, <1>5, <1>6, <1>7 DEF ConsumerStep

LEMMA Shape ==
  ASSUME TypeOK, [Next]_vars
  PROVE  StepShape
<1> USE DEF StepShape
<1>1. CASE Environment
  <2>1. CASE \E w \in Consumers : ConsumerDies(w)
    BY <2>1, QuietMoves DEF ConsumerDies, dbVars
  <2>2. CASE CronDies \/ \E t \in Tokens : DeleteToken(t) \/ SuspendUser(t) \/ RestoreUser(t)
    BY <2>2, QuietMoves DEF CronDies, DeleteToken, SuspendUser, RestoreUser, dbVars
  <2>3. CASE Tick
    <3>1. \A d \in Deliveries : Kept(d)
      BY <2>3, OlderRow DEF Tick, Kept, SameAttempt, TypeOK
    <3> QED
      BY <2>3, <3>1 DEF Tick, RowsMove
  <2> QED
    BY <1>1, <2>1, <2>2, <2>3 DEF Environment
<1>2. CASE UNCHANGED vars
  BY <1>2, QuietMoves DEF vars
<1> QED
  BY <1>1, <1>2, CronShape, ConsumerShape DEF Next

-----------------------------------------------------------------------------
(* The statuses agree *)

LEMMA PreparedRow ==
  ASSUME NEW s \in Schedules, ReadyCronPrepare(s), NEW d \in Deliveries
  PROVE  \/ delivery'[d] = delivery[d]
         \/ /\ d \in Inserted(s)
            /\ delivery'[d].status = "pending" /\ delivery'[d].attempt = 0
  BY DEF ReadyCronPrepare, AbsentRow

LEMMA StoppedRow ==
  ASSUME TypeOK, NEW s \in Schedules, StopSchedule(s), NEW d \in Deliveries
  PROVE  /\ delivery'[d].attempt = delivery[d].attempt
         /\ delivery'[d].status =
              IF ScheduleOf[d] = s /\ delivery[d].status \in {"pending", "retry_wait"}
                THEN "stopped" ELSE delivery[d].status
<1>1. delivery[d] \in DeliveryRow
  BY DEF TypeOK, TimedRow
<1> QED
  BY <1>1 DEF StopSchedule, DeliveryRow

LEMMA StatusesStep ==
  ASSUME TypeOK, StatusesAgree, StepShape
  PROVE  StatusesAgree'
<1>0. \A d \in Deliveries : ScheduleOf[d] \in Schedules
  BY ScheduleOfType
<1>1. CASE RowsMove
  BY <1>1 DEF RowsMove, Kept, Settled, Deferred, Claimed, IsActive, ActiveStatus,
              StatusesAgree, StatusOf
<1>2. CASE SchedulesComplete
  BY <1>0, <1>2 DEF SchedulesComplete, CompleteIfDone, IsDone, DeliveriesOf, ActiveStatus,
                    StatusesAgree, StatusOf
<1>3. ASSUME NEW s \in Schedules, ReadyCronPrepare(s) PROVE StatusesAgree'
  <2> SUFFICES ASSUME NEW d \in Deliveries
      PROVE (/\ delivery[d].status \in {"pending", "retry_wait"} => StatusOf(d) = "sending"
             /\ delivery[d].status = "sending" => StatusOf(d) \in {"sending", "stopped"}
             /\ StatusOf(d) \in {"resolving", "failed"} => delivery[d].status = "absent")'
    BY DEF StatusesAgree
  <2>1. /\ delivery[d].status \in {"pending", "retry_wait"} => StatusOf(d) = "sending"
        /\ delivery[d].status = "sending" => StatusOf(d) \in {"sending", "stopped"}
        /\ StatusOf(d) \in {"resolving", "failed"} => delivery[d].status = "absent"
    BY DEF StatusesAgree
  <2>2. CASE ScheduleOf[d] # s
    <3>1. delivery'[d] = delivery[d]
      BY <1>3, <2>2, PreparedRow DEF Inserted, DeliveriesOf
    <3>2. schedule'[ScheduleOf[d]] = schedule[ScheduleOf[d]]
      BY <1>0, <1>3, <2>2 DEF ReadyCronPrepare, TypeOK
    <3> QED
      BY <2>1, <3>1, <3>2 DEF StatusOf
  <2>3. CASE ScheduleOf[d] = s
    <3> DEFINE started == schedule[s] = "resolving"
               completed == \/ started /\ Inserted(s) = {}
                            \/ schedule[s] = "sending" /\ IsDone(s)
    <3>1. schedule'[s] = IF completed THEN "completed"
                         ELSE IF started THEN "sending" ELSE schedule[s]
      BY <1>3 DEF ReadyCronPrepare, TypeOK
    <3>2. CASE d \in Inserted(s)
      <4>1. schedule'[s] = "sending"
        BY <3>1, <3>2 DEF Inserted
      <4>2. delivery'[d].status \in {"pending", "absent"}
        BY <1>3, <3>2, PreparedRow DEF Inserted
      <4> QED
        BY <2>3, <4>1, <4>2 DEF StatusOf
    <3>3. CASE d \notin Inserted(s)
      <4>1. delivery'[d] = delivery[d]
        BY <1>3, <3>3, PreparedRow
      <4>2. CASE started
        BY <2>1, <2>3, <3>1, <4>1, <4>2 DEF StatusOf
      <4>3. CASE schedule[s] = "sending" /\ IsDone(s)
        <5>1. delivery[d].status \notin ActiveStatus
          BY <2>3, <4>3 DEF IsDone, DeliveriesOf
        <5> QED
          BY <2>3, <3>1, <4>1, <4>3, <5>1 DEF StatusOf, ActiveStatus
      <4>4. CASE ~started /\ ~completed
        BY <2>1, <2>3, <3>1, <4>1, <4>4 DEF StatusOf
      <4> QED
        BY <4>2, <4>3, <4>4
    <3> QED
      BY <3>2, <3>3
  <2> QED
    BY <2>2, <2>3
<1>4. ASSUME NEW s \in Schedules, ReadyCronMarkFailed(s) PROVE StatusesAgree'
  BY <1>0, <1>4 DEF ReadyCronMarkFailed, StatusesAgree, StatusOf, TypeOK
<1>5. ASSUME NEW s \in Schedules, StopSchedule(s) PROVE StatusesAgree'
  <2>1. schedule' = [schedule EXCEPT ![s] = "stopped"]
    BY <1>5 DEF StopSchedule
  <2> QED
    BY <1>0, <1>5, <2>1, StoppedRow DEF StatusesAgree, StatusOf, TypeOK
<1> QED
  BY <1>1, <1>2, <1>3, <1>4, <1>5 DEF StepShape

(* Crons, consumers and the admin stop write the statuses of a schedule    *)
(* and of its deliveries in separate statements, and yet they always agree.*)
THEOREM SpecStatusesAgree == Spec => []StatusesAgree
<1>1. Init => StatusesAgree
  BY DEF Init, StatusesAgree, AbsentRow
<1>2. TypeOK /\ StatusesAgree /\ [Next]_vars => StatusesAgree'
  BY Shape, StatusesStep
<1> QED
  BY <1>1, <1>2, SpecTypeOK, PTL DEF Spec

-----------------------------------------------------------------------------
(* The attempts are bounded *)

AttemptsCounted ==
  \A d \in Deliveries :
    /\ delivery[d].attempt <= MaxAttempts
    /\ delivery[d].status \in {"absent", "pending"} => delivery[d].attempt = 0

LEMMA MaxAttemptsPositive == MaxAttempts \in Nat \ {0}
  BY FS_CardinalityType, PushConstants DEF MaxAttempts

LEMMA AttemptsStep ==
  ASSUME TypeOK, AttemptsCounted, StepShape
  PROVE  AttemptsCounted'
<1>0. \A d \in Deliveries : delivery[d].attempt \in Nat
  BY DEF TypeOK, TimedRow, DeliveryRow
<1>1. CASE RowsMove
  BY <1>0, <1>1, MaxAttemptsPositive
  DEF RowsMove, Kept, Settled, Deferred, Claimed, IsActive, SameAttempt, AttemptsCounted
<1>2. CASE SchedulesComplete
  BY <1>2 DEF SchedulesComplete, AttemptsCounted
<1>3. ASSUME NEW s \in Schedules, ReadyCronPrepare(s) PROVE AttemptsCounted'
  BY <1>3, PreparedRow, MaxAttemptsPositive DEF AttemptsCounted
<1>4. ASSUME NEW s \in Schedules, ReadyCronMarkFailed(s) PROVE AttemptsCounted'
  BY <1>4 DEF ReadyCronMarkFailed, AttemptsCounted
<1>5. ASSUME NEW s \in Schedules, StopSchedule(s) PROVE AttemptsCounted'
  BY <1>5, StoppedRow DEF AttemptsCounted
<1> QED
  BY <1>1, <1>2, <1>3, <1>4, <1>5 DEF StepShape

LEMMA SpecAttemptsCounted == Spec => []AttemptsCounted
<1>1. Init => AttemptsCounted
  BY MaxAttemptsPositive DEF Init, AttemptsCounted, AbsentRow
<1>2. TypeOK /\ AttemptsCounted /\ [Next]_vars => AttemptsCounted'
  BY Shape, AttemptsStep
<1> QED
  BY <1>1, <1>2, SpecTypeOK, PTL DEF Spec

(* FCM is asked at most MaxAttempts times in a row for one delivery: the   *)
(* claim that would start one attempt more finds the row ineligible, also  *)
(* when leases lapse and consumers overtake one another.                   *)
THEOREM SpecAttemptsBounded == Spec => []AttemptsBounded
<1>1. AttemptsCounted => AttemptsBounded
  BY DEF AttemptsCounted, AttemptsBounded
<1> QED
  BY <1>1, SpecAttemptsCounted, PTL

-----------------------------------------------------------------------------
(* The phase implements PushLifecycle *)

OutcomeOf(d) ==
  IF delivery[d].status \in ActiveStatus THEN "open" ELSE delivery[d].status
OutcomeMap == [d \in Deliveries |-> OutcomeOf(d)]

LEMMA OutcomeTyped ==
  ASSUME TypeOK PROVE \A d \in Deliveries : OutcomeOf(d) \in Lifecycle!Outcome
<1>1. \A d \in Deliveries : delivery[d].status \in DeliveryStatus
  BY DEF TypeOK, TimedRow, DeliveryRow
<1> QED
  BY <1>1 DEF OutcomeOf, Lifecycle!Outcome, DeliveryStatus, TerminalStatus

LEMMA RowsMoveRefine ==
  ASSUME TypeOK, TypeOK', RowsMove
  PROVE  Lifecycle!Settle
<1>1. UNCHANGED schedule
  BY DEF RowsMove
<1>2. OutcomeMap' \in [Deliveries -> Lifecycle!Outcome]
  <2>1. \A d \in Deliveries : OutcomeOf(d)' \in Lifecycle!Outcome
    BY OutcomeTyped DEF OutcomeOf, TypeOK, TimedRow, DeliveryRow, DeliveryStatus,
                        TerminalStatus, Lifecycle!Outcome
  <2> QED
    BY <2>1 DEF OutcomeMap
<1>3. ASSUME NEW d \in Deliveries
      PROVE \/ OutcomeOf(d)' = OutcomeOf(d)
            \/ /\ OutcomeOf(d) = "open"
               /\ \/ OutcomeOf(d)' \in {"sent", "failed"}
                  \/ OutcomeOf(d)' = "stopped" /\ schedule'[ScheduleOf[d]] = "stopped"
  <2>1. CASE Kept(d)
    BY <2>1 DEF Kept, OutcomeOf
  <2>2. CASE Settled(d)
    BY <1>1, <2>2 DEF Settled, IsActive, OutcomeOf, ActiveStatus, StatusOf
  <2>3. CASE Deferred(d) \/ Claimed(d)
    BY <2>3 DEF Deferred, Claimed, IsActive, OutcomeOf, ActiveStatus
  <2> QED
    BY <2>1, <2>2, <2>3 DEF RowsMove
<1> QED
  BY <1>1, <1>2, <1>3 DEF Lifecycle!Settle, Lifecycle!MaySettle, OutcomeMap, OutcomeOf

LEMMA SchedulesCompleteRefine ==
  ASSUME TypeOK, SchedulesComplete
  PROVE  \E S \in SUBSET Schedules : Lifecycle!Complete(S)
<1>1. PICK S \in SUBSET Schedules : CompleteIfDone(S)
  BY DEF SchedulesComplete
<1> DEFINE ending == {s \in S : schedule[s] = "sending" /\ IsDone(s)}
<1>2. schedule' = [s \in Schedules |-> IF s \in ending THEN "completed" ELSE schedule[s]]
  BY <1>1 DEF CompleteIfDone
<1>3. OutcomeMap' = OutcomeMap
  BY DEF SchedulesComplete, OutcomeMap, OutcomeOf
<1>4. \A s \in ending : schedule[s] = "sending" /\
        \A d \in Lifecycle!Of(s) : OutcomeMap[d] # "open"
  BY DEF IsDone, DeliveriesOf, Lifecycle!Of, OutcomeMap, OutcomeOf, TypeOK,
         TimedRow, DeliveryRow, DeliveryStatus, ActiveStatus, TerminalStatus
<1>5. ending \in SUBSET Schedules
  OBVIOUS
<1> HIDE DEF ending
<1>6. Lifecycle!Complete(ending)
  BY <1>2, <1>3, <1>4 DEF Lifecycle!Complete, OutcomeMap, OutcomeOf
<1> QED
  BY <1>5, <1>6

LEMMA PrepareRefines ==
  ASSUME TypeOK, NEW s \in Schedules, ReadyCronPrepare(s)
  PROVE  \/ UNCHANGED <<schedule, OutcomeMap>>
         \/ \E D \in SUBSET Lifecycle!Of(s) : Lifecycle!Start(s, D)
         \/ Lifecycle!Complete({s})
<1> DEFINE started == schedule[s] = "resolving"
           completed == \/ started /\ Inserted(s) = {}
                        \/ schedule[s] = "sending" /\ IsDone(s)
<1>1. schedule' = [schedule EXCEPT ![s] = IF completed THEN "completed"
                                          ELSE IF started THEN "sending" ELSE schedule[s]]
  BY DEF ReadyCronPrepare
<1>2. ASSUME NEW d \in Deliveries
      PROVE  OutcomeOf(d)' = IF d \in Inserted(s) THEN "open" ELSE OutcomeOf(d)
  BY DEF ReadyCronPrepare, AbsentRow, OutcomeOf, ActiveStatus
<1>3. CASE started
  <2>1. PICK D : D = Inserted(s)
    OBVIOUS
  <2>2. D \in SUBSET Lifecycle!Of(s)
    BY <2>1 DEF Inserted, DeliveriesOf, Lifecycle!Of
  <2>3. OutcomeMap' = [d \in Deliveries |-> IF d \in D THEN "open" ELSE OutcomeMap[d]]
    BY <1>2, <2>1 DEF OutcomeMap
  <2>4. schedule' = [schedule EXCEPT ![s] = IF D = {} THEN "completed" ELSE "sending"]
    BY <1>1, <1>3, <2>1
  <2>5. Lifecycle!Start(s, D)
    BY <1>3, <2>3, <2>4 DEF Lifecycle!Start, OutcomeMap, OutcomeOf
  <2> QED
    BY <2>2, <2>5
<1>4. CASE ~started
  <2>1. Inserted(s) = {}
    BY <1>4 DEF Inserted
  <2>2. OutcomeMap' = OutcomeMap
    BY <1>2, <2>1 DEF OutcomeMap
  <2>3. CASE schedule[s] = "sending" /\ IsDone(s)
    <3>1. schedule' = [r \in Schedules |-> IF r \in {s} THEN "completed" ELSE schedule[r]]
      BY <1>1, <2>3 DEF TypeOK
    <3>2. \A d \in Lifecycle!Of(s) : OutcomeMap[d] # "open"
      BY <2>3 DEF IsDone, DeliveriesOf, Lifecycle!Of, OutcomeMap, OutcomeOf, TypeOK,
                  TimedRow, DeliveryRow, DeliveryStatus, ActiveStatus, TerminalStatus
    <3> QED
      BY <2>2, <2>3, <3>1, <3>2 DEF Lifecycle!Complete, OutcomeMap, OutcomeOf
  <2>4. CASE ~(schedule[s] = "sending" /\ IsDone(s))
    <3>1. schedule' = schedule
      BY <1>1, <1>4, <2>4 DEF TypeOK
    <3> QED
      BY <2>2, <3>1
  <2> QED
    BY <2>3, <2>4
<1> QED
  BY <1>3, <1>4

LEMMA MarkFailedRefines ==
  ASSUME TypeOK, NEW s \in Schedules, ReadyCronMarkFailed(s)
  PROVE  UNCHANGED <<schedule, OutcomeMap>> \/ Lifecycle!Abandon(s)
<1>1. OutcomeMap' = OutcomeMap
  BY DEF ReadyCronMarkFailed, OutcomeMap, OutcomeOf
<1>2. CASE schedule[s] = "resolving"
  BY <1>1, <1>2 DEF ReadyCronMarkFailed, Lifecycle!Abandon, OutcomeMap, OutcomeOf
<1>3. CASE schedule[s] # "resolving"
  BY <1>1, <1>3 DEF ReadyCronMarkFailed, TypeOK
<1> QED
  BY <1>2, <1>3

LEMMA StopRefines ==
  ASSUME TypeOK, TypeOK', NEW s \in Schedules, StopSchedule(s)
  PROVE  Lifecycle!Stop(s)
<1>1. ASSUME NEW d \in Deliveries
      PROVE  \/ OutcomeOf(d)' = OutcomeOf(d)
             \/ /\ d \in Lifecycle!Of(s) /\ OutcomeOf(d) = "open"
                /\ OutcomeOf(d)' = "stopped"
  BY StoppedRow DEF OutcomeOf, ActiveStatus, Lifecycle!Of
<1>2. \A d \in Deliveries : OutcomeOf(d)' \in Lifecycle!Outcome
  BY OutcomeTyped, <1>1 DEF Lifecycle!Outcome
<1> QED
  BY <1>1, <1>2 DEF StopSchedule, Lifecycle!Stop, OutcomeMap, OutcomeOf

(* The refinement: whatever the retries, leases and crashes underneath,    *)
(* the rest of the application sees a schedule that starts once, settles   *)
(* each delivery once and for all, and completes when nothing is open.     *)
THEOREM SpecImplementsLifecycle == Spec => ImplementsLifecycle
<1>1. Init => Lifecycle!Init
  BY DEF Init, Lifecycle!Init, AbsentRow, ActiveStatus
<1>2. ASSUME TypeOK, TypeOK', [Next]_vars
      PROVE  [Lifecycle!Next]_(Lifecycle!vars)
  <2>1. CASE RowsMove
    BY <1>2, <2>1, RowsMoveRefine DEF Lifecycle!Next
  <2>2. CASE SchedulesComplete
    BY <1>2, <2>2, SchedulesCompleteRefine DEF Lifecycle!Next
  <2>3. ASSUME NEW s \in Schedules, ReadyCronPrepare(s)
        PROVE  [Lifecycle!Next]_(Lifecycle!vars)
    <3>1. CASE UNCHANGED <<schedule, OutcomeMap>>
      BY <3>1 DEF Lifecycle!vars, OutcomeMap, OutcomeOf
    <3>2. CASE \E D \in SUBSET Lifecycle!Of(s) : Lifecycle!Start(s, D)
      BY <3>2 DEF Lifecycle!Next
    <3>3. CASE Lifecycle!Complete({s})
      <4>1. {s} \in SUBSET Schedules
        OBVIOUS
      <4> QED
        BY <3>3, <4>1 DEF Lifecycle!Next
    <3> QED
      BY <1>2, <2>3, <3>1, <3>2, <3>3, PrepareRefines
  <2>4. ASSUME NEW s \in Schedules, ReadyCronMarkFailed(s)
        PROVE  [Lifecycle!Next]_(Lifecycle!vars)
    <3>1. CASE UNCHANGED <<schedule, OutcomeMap>>
      BY <3>1 DEF Lifecycle!vars, OutcomeMap, OutcomeOf
    <3>2. CASE Lifecycle!Abandon(s)
      BY <3>2 DEF Lifecycle!Next
    <3> QED
      BY <1>2, <2>4, <3>1, <3>2, MarkFailedRefines
  <2>5. ASSUME NEW s \in Schedules, StopSchedule(s)
        PROVE  [Lifecycle!Next]_(Lifecycle!vars)
    BY <1>2, <2>5, StopRefines DEF Lifecycle!Next
  <2> QED
    BY <1>2, <2>1, <2>2, <2>3, <2>4, <2>5, Shape DEF StepShape
<1> QED
  BY <1>1, <1>2, SpecTypeOK, PTL DEF Spec, ImplementsLifecycle, Lifecycle!Spec

-----------------------------------------------------------------------------
(* What a step may do between a consumer and one delivery *)

(* w has d in hand: claimed and not read back yet, or with a job under way. *)
Engaged(w, d) ==
  \/ consumer[w].pc = "send" /\ consumer[w].job[d].stage # "none"
  \/ consumer[w].pc = "details" /\ d \in consumer[w].ids

(* w does not begin to deal with d, and what it knows of d stays. *)
Steady(w, d) ==
  Engaged(w, d)' =>
    /\ Engaged(w, d)
    /\ consumer'[w].pc = consumer[w].pc
    /\ consumer'[w].age = consumer[w].age
    /\ consumer'[w].job[d] = consumer[w].job[d]

OthersSteady(w, d) == \A v \in Consumers \ {w} : Steady(v, d)

SameCounts(d) == accepted'[d] = accepted[d] /\ holder'[d] = holder[d]
SameHistory(d) == SameCounts(d) /\ uncertain'[d] = uncertain[d]

(* The row stays, is prepared, or is given up without a consumer's doing.  *)
QuietRow(d) ==
  /\ SameAttempt(d)
  /\ delivery'[d].config => delivery[d].config
  /\ \/ delivery'[d] = delivery[d]
     \/ delivery[d].status = "absent" /\ delivery'[d].status = "pending"
     \/ /\ delivery[d].status \in {"pending", "retry_wait"}
        /\ delivery'[d].status \in {"failed", "stopped"}
     \/ /\ \E age \in Nat : LeaseLapsed(d, age)
        /\ uncertain'[d] /\ delivery'[d].status \in {"failed", "stopped"}

Quiet(d) ==
  /\ QuietRow(d) /\ SameCounts(d)
  /\ uncertain[d] => uncertain'[d]
  /\ \A v \in Consumers : Steady(v, d)

(* ClaimUpdate, for a row that w wins. *)
Claims(w, d) ==
  LET age == consumer[w].age
  IN /\ consumer[w].pc = "claim"
     /\ PendingEligible(d) \/ RetryEligible(d, age)
     /\ delivery'[d] = ClaimedRow(d, age)
     /\ uncertain'[d] = (uncertain[d] \/ LeaseLapsed(d, age))
     /\ accepted'[d] = accepted[d] /\ holder'[d] = {w}
     /\ consumer'[w].pc = "details" /\ consumer'[w].age = age
     /\ OthersSteady(w, d)

(* w keeps its job, at another stage. *)
Advances(w, d, stage) ==
  /\ consumer'[w].pc = "send" /\ consumer'[w].age = consumer[w].age
  /\ consumer'[w].job[d].stage = stage
  /\ consumer'[w].job[d].attempt = consumer[w].job[d].attempt
  /\ OthersSteady(w, d)

(* ClaimDetails, for a row that is still the one w claimed. *)
Loads(w, d) ==
  /\ consumer[w].pc = "details" /\ d \in consumer[w].ids
  /\ delivery[d].status = "sending" /\ delivery[d].last = consumer[w].age
  /\ delivery'[d] = delivery[d] /\ SameHistory(d)
  /\ consumer'[w].pc = "send" /\ consumer'[w].age = consumer[w].age
  /\ consumer'[w].job[d].stage = "claimed"
  /\ consumer'[w].job[d].attempt = delivery[d].attempt
  /\ OthersSteady(w, d)

Renews(w, d) ==
  /\ InStage(w, d, "claimed") /\ Owns(w, d)
  /\ delivery'[d] = [delivery[d] EXCEPT !.last = consumer[w].age]
  /\ SameHistory(d) /\ Advances(w, d, "calling")

Accepts(w, d) ==
  /\ InStage(w, d, "calling")
  /\ accepted'[d] = (IF accepted[d] = 0 THEN 1 ELSE 2)
  /\ delivery'[d] = delivery[d]
  /\ uncertain'[d] = uncertain[d] /\ holder'[d] = holder[d]
  /\ Advances(w, d, "accepted")

Rejects(w, d) ==
  /\ InStage(w, d, "calling")
  /\ delivery'[d] = delivery[d] /\ SameHistory(d)
  /\ Advances(w, d, "rejected")

(* The last write of a job, which its fence may hold back. *)
Concludes(w, d) ==
  /\ Owns(w, d) /\ SameAttempt(d)
  /\ delivery'[d].config => "configuration" \in Outcomes
  /\ \/ InStage(w, d, "accepted") /\ delivery'[d].status = "sent"
     \/ ~InStage(w, d, "accepted") /\ delivery'[d].status \in {"failed", "stopped"}
     \/ /\ ~InStage(w, d, "accepted") /\ delivery'[d].status = "retry_wait"
        /\ delivery'[d].first = delivery[d].first
        /\ delivery'[d].next \in Int \/ StatusOf(d) \notin {"sending", "stopped"}
        /\ \/ delivery'[d].next = Null \/ "configuration" \in Outcomes
           \/ delivery'[d].next + consumer[w].age > 0

(* The job is over, with an answer that was lost or without.               *)
Ends(w, d) ==
  /\ consumer[w].pc = "send" /\ consumer[w].job[d].stage # "none"
  /\ delivery'[d] = delivery[d] \/ Concludes(w, d)
  /\ holder'[d] = holder[d]
  /\ \/ SameHistory(d)
     \/ /\ InStage(w, d, "calling") /\ uncertain'[d]
        /\ accepted'[d] = (IF accepted[d] = 0 THEN 1 ELSE 2)
  /\ ~Engaged(w, d)' /\ OthersSteady(w, d)

Dealing(w, d) ==
  \/ Claims(w, d) \/ Loads(w, d) \/ Renews(w, d)
  \/ Accepts(w, d) \/ Rejects(w, d) \/ Ends(w, d)

(* Every step, as a delivery sees it. *)
DealingShape ==
  \/ Tick
  \/ \A d \in Deliveries : Quiet(d) \/ \E w \in Consumers : Dealing(w, d)

-----------------------------------------------------------------------------
(* The inductive invariants *)

(* A row that waits knows since when, and until when. *)
WaitsTimed ==
  \A d \in Deliveries :
    delivery[d].status = "retry_wait" => delivery[d].next # Null /\ delivery[d].first # Null

(* While nothing was lost, one consumer at a time deals with d, d is in    *)
(* flight then, and FCM took it only if that is still to be written down.  *)
HonestSoFar(d) ==
  /\ delivery[d].status = "sent" => accepted[d] > 0
  /\ \A w \in Consumers : InStage(w, d, "accepted") => accepted[d] > 0
  /\ ~uncertain[d] =>
       /\ accepted[d] = 0 \/ (accepted[d] = 1 /\ delivery[d].status \in {"sending", "sent"})
       /\ \A w \in Consumers : Engaged(w, d) =>
            /\ delivery[d].status = "sending" /\ holder[d] = {w}
            /\ ~InStage(w, d, "accepted") => accepted[d] = 0

Honesty == \A d \in Deliveries : HonestSoFar(d)

(* The job of w carries no later attempt than the row, and the same one    *)
(* only while w holds the row, under the lease it took.                    *)
JobFenced(w, d) ==
  LET row == delivery[d]
  IN consumer[w].pc = "send" /\ consumer[w].job[d].stage # "none" =>
       /\ consumer[w].job[d].attempt <= row.attempt
       /\ Owns(w, d) => holder[d] = {w} /\ row.last = consumer[w].age
       /\ InStage(w, d, "calling") /\ consumer[w].age <= Timeout => Owns(w, d)

(* A row that w has claimed and not read back yet was claimed at the clock *)
(* of w, or later by another, and is not due at the clock of w.            *)
ClaimFenced(w, d) ==
  LET row == delivery[d]
      age == consumer[w].age
  IN consumer[w].pc = "details" /\ d \in consumer[w].ids =>
       /\ row.status \notin {"absent", "pending"}
       /\ row.status = "sending" => row.last < age \/ (row.last = age /\ holder[d] = {w})
       /\ row.status = "retry_wait" => row.next = Null \/ row.next + age > 0

Fenced ==
  \A d \in Deliveries :
    /\ ~delivery[d].config
    /\ \A w \in Consumers : JobFenced(w, d) /\ ClaimFenced(w, d)

-----------------------------------------------------------------------------
(* Rows that wait know how long; nothing is stranded *)

LEMMA ClaimedFields ==
  ASSUME TypeOK, NEW w \in Consumers, NEW d \in Deliveries, Claims(w, d)
  PROVE  /\ delivery'[d].status = "sending"
         /\ delivery'[d].attempt =
              IF delivery[d].config THEN 1 ELSE delivery[d].attempt + 1
         /\ delivery'[d].last = consumer[w].age
         /\ ~delivery'[d].config
<1>1. delivery[d] \in DeliveryRow /\ consumer[w].age \in Nat
  BY DEF TypeOK, TimedRow, ConsumerState
<1> QED
  BY <1>1 DEF Claims, ClaimedRow, DeliveryRow

LEMMA RenewedFields ==
  ASSUME TypeOK, NEW w \in Consumers, NEW d \in Deliveries, Renews(w, d)
  PROVE  /\ delivery'[d].status = delivery[d].status
         /\ delivery'[d].attempt = delivery[d].attempt
         /\ delivery'[d].last = consumer[w].age
         /\ delivery'[d].config = delivery[d].config
         /\ delivery[d].status = "sending"
<1>1. delivery[d] \in DeliveryRow /\ consumer[w].age \in Nat
  BY DEF TypeOK, TimedRow, ConsumerState
<1> QED
  BY <1>1 DEF Renews, Owns, DeliveryRow

(* What a tick leaves of a row, and of the clock of a consumer. *)
LEMMA TickedRow ==
  ASSUME TypeOK, Tick, NEW d \in Deliveries
  PROVE  LET row == delivery[d]
         IN /\ delivery'[d].status = row.status
            /\ delivery'[d].attempt = row.attempt
            /\ delivery'[d].config = row.config
            /\ row.status = "sending" => delivery'[d].last = Older(row.last, LastCap)
            /\ row.status = "retry_wait" =>
                 /\ delivery'[d].first = Older(row.first, FirstCap)
                 /\ delivery'[d].next =
                      IF row.next = Null \/ row.next <= -MaxStall
                        THEN row.next ELSE row.next - 1
<1>1. delivery[d] \in DeliveryRow /\ delivery'[d] = Aged(delivery[d])
  BY DEF TypeOK, TimedRow, Tick
<1>2. CASE delivery[d].status \notin {"sending", "retry_wait"}
  BY <1>1, <1>2 DEF Aged, DeliveryRow
<1>3. CASE delivery[d].status = "sending"
  BY <1>1, <1>3 DEF Aged, DeliveryRow
<1>4. CASE delivery[d].status = "retry_wait"
  BY <1>1, <1>4 DEF Aged, DeliveryRow
<1> QED
  BY <1>2, <1>3, <1>4

LEMMA TickedConsumer ==
  ASSUME TypeOK, Tick, NEW w \in Consumers
  PROVE  /\ consumer'[w].pc = consumer[w].pc
         /\ consumer'[w].ids = consumer[w].ids
         /\ consumer'[w].job = consumer[w].job
         /\ HasReadClock(w) =>
              consumer'[w].age = consumer[w].age + 1 /\ consumer[w].age < MaxStall
<1>1. consumer[w] \in ConsumerState
  BY DEF TypeOK
<1> QED
  BY <1>1 DEF Tick, ConsumerState

LEMMA WaitsTimedStep ==
  ASSUME TypeOK, StatusesAgree, WaitsTimed, DealingShape
  PROVE  WaitsTimed'
<1> SUFFICES ASSUME NEW d \in Deliveries, delivery'[d].status = "retry_wait"
    PROVE  delivery'[d].next # Null /\ delivery'[d].first # Null
  BY DEF WaitsTimed
<1>0. delivery[d] \in TimedRow /\ Null \notin Int
  BY PushConstants DEF TypeOK
<1>1. CASE Tick
  <2>1. delivery[d].status = "retry_wait"
    BY <1>1, TickedRow
  <2>2. delivery[d].next \in Int /\ delivery[d].first \in Nat
    BY <1>0, <2>1 DEF WaitsTimed, TimedRow, DeliveryRow
  <2>3. FirstCap \in Nat /\ MaxStall \in Nat
    BY PushConstants DEF FirstCap
  <2>4. delivery'[d].next \in Int
    BY <1>1, <2>1, <2>2, <2>3, TickedRow
  <2>5. delivery'[d].first \in Nat
    BY <1>1, <2>1, <2>2, <2>3, TickedRow DEF Older
  <2> QED
    BY <1>0, <2>4, <2>5
<1>2. CASE Quiet(d)
  BY <1>2 DEF Quiet, QuietRow, WaitsTimed
<1>3. ASSUME NEW w \in Consumers, Dealing(w, d)
      PROVE  delivery'[d].next # Null /\ delivery'[d].first # Null
  <2>1. CASE Claims(w, d)
    BY <2>1, ClaimedFields
  <2>2. CASE Renews(w, d)
    BY <2>2, RenewedFields
  <2>3. CASE Concludes(w, d)
    <3>1. delivery[d].status = "sending" /\ delivery[d].first # Null
      BY <1>0, <2>3 DEF Concludes, Owns, TimedRow
    <3>2. StatusOf(d) \in {"sending", "stopped"}
      BY <3>1 DEF StatusesAgree
    <3> QED
      BY <1>0, <2>3, <3>1, <3>2 DEF Concludes
  <2>4. CASE delivery'[d] = delivery[d]
    BY <2>4 DEF WaitsTimed
  <2> QED
    BY <1>3, <2>1, <2>2, <2>3, <2>4 DEF Dealing, Loads, Accepts, Rejects, Ends
<1> QED
  BY <1>1, <1>2, <1>3 DEF DealingShape

LEMMA NothingStranded ==
  ASSUME TypeOK, StatusesAgree, AttemptsCounted, WaitsTimed
  PROVE  NoStrandedDelivery
<1> SUFFICES ASSUME NEW d \in Deliveries, DueRow(d)
    PROVE  (PendingEligible(d) \/ RetryEligible(d, 0)) # Retirable(d, 0)
  BY DEF NoStrandedDelivery, WaitsTimed
<1>1. CASE delivery[d].status = "pending"
  <2>1. StatusOf(d) = "sending" /\ delivery[d].attempt = 0
    BY <1>1 DEF StatusesAgree, AttemptsCounted
  <2>2. ~(delivery[d].attempt >= MaxAttempts)
    BY <2>1, MaxAttemptsPositive
  <2> QED
    BY <1>1, <2>1, <2>2
    DEF PendingEligible, RetryEligible, RetryDue, LeaseLapsed, Retirable
<1>2. CASE RetryDue(d, 0) \/ LeaseLapsed(d, 0)
  <2>1. delivery[d].first # Null /\ delivery[d].attempt \in Nat /\ MaxAttempts \in Nat
    BY <1>2, MaxAttemptsPositive
    DEF RetryDue, LeaseLapsed, WaitsTimed, TypeOK, TimedRow, DeliveryRow
  <2>2. delivery[d].status \in {"retry_wait", "sending"}
    BY <1>2 DEF RetryDue, LeaseLapsed
  <2>3. StatusOf(d) \in {"sending", "stopped"}
    BY <2>2 DEF StatusesAgree
  <2>4. delivery[d].attempt >= MaxAttempts <=> ~(delivery[d].attempt < MaxAttempts)
    BY <2>1
  <2>5. delivery[d].status = "retry_wait" \/ LeaseLapsed(d, 0)
    BY <1>2 DEF RetryDue
  <2>6. ~PendingEligible(d)
    BY <2>2 DEF PendingEligible
  <2> HIDE DEF RetryDue, LeaseLapsed
  <2>7. RetryEligible(d, 0) <=>
          /\ delivery[d].config \/ (delivery[d].attempt < MaxAttempts /\ WithinWindow(d, 0))
          /\ StatusOf(d) = "sending" /\ Sendable(d)
    BY <1>2 DEF RetryEligible
  <2>8. Retirable(d, 0) <=>
          \/ ~Sendable(d)
          \/ ~delivery[d].config /\ delivery[d].attempt >= MaxAttempts
          \/ StatusOf(d) = "stopped"
          \/ ~delivery[d].config /\ ~WithinWindow(d, 0)
    BY <2>1, <2>2, <2>5 DEF Retirable
  <2> QED
    BY <2>3, <2>4, <2>6, <2>7, <2>8
<1> QED
  BY <1>1, <1>2 DEF DueRow

-----------------------------------------------------------------------------
(* The outcome is honest *)

LEMMA HonestyStep ==
  ASSUME TypeOK, TypeOK', Honesty, DealingShape
  PROVE  Honesty'
<1> SUFFICES ASSUME NEW d \in Deliveries PROVE HonestSoFar(d)'
  BY DEF Honesty
<1>0. /\ HonestSoFar(d) /\ accepted[d] \in 0 .. 2
      /\ uncertain[d] \in BOOLEAN /\ uncertain'[d] \in BOOLEAN
  BY DEF Honesty, TypeOK
<1>1. CASE Tick
  <2>1. /\ delivery'[d].status = delivery[d].status
        /\ accepted' = accepted /\ uncertain' = uncertain /\ holder' = holder
    BY <1>1, TickedRow DEF Tick, history
  <2>2. ASSUME NEW w \in Consumers
        PROVE  /\ Engaged(w, d)' => Engaged(w, d)
               /\ InStage(w, d, "accepted")' = InStage(w, d, "accepted")
    BY <1>1, TickedConsumer DEF Engaged, InStage
  <2> QED
    BY <1>0, <2>1, <2>2 DEF HonestSoFar
<1>2. CASE Quiet(d)
  <2>1. ASSUME NEW w \in Consumers
        PROVE  /\ Engaged(w, d)' => Engaged(w, d)
               /\ InStage(w, d, "accepted")' => InStage(w, d, "accepted")
               /\ Engaged(w, d)' /\ InStage(w, d, "accepted") => InStage(w, d, "accepted")'
    BY <1>2 DEF Quiet, Steady, Engaged, InStage
  <2> QED
    BY <1>0, <1>2, <2>1 DEF HonestSoFar, Quiet, QuietRow, SameCounts, LeaseLapsed
<1>3. ASSUME NEW w \in Consumers, Dealing(w, d)
      PROVE  HonestSoFar(d)'
  <2>1. ASSUME OthersSteady(w, d), NEW v \in Consumers, v # w
        PROVE  /\ Engaged(v, d)' => Engaged(v, d)
               /\ InStage(v, d, "accepted")' => InStage(v, d, "accepted")
               /\ Engaged(v, d)' /\ InStage(v, d, "accepted") => InStage(v, d, "accepted")'
    BY <2>1 DEF OthersSteady, Steady, Engaged, InStage
  <2>2. CASE Claims(w, d)
    BY <1>0, <2>1, <2>2, ClaimedFields
    DEF HonestSoFar, Claims, Engaged, InStage, PendingEligible, RetryEligible, RetryDue
  <2>3. CASE Loads(w, d)
    BY <1>0, <2>1, <2>3 DEF HonestSoFar, Loads, Engaged, InStage, SameHistory, SameCounts
  <2>4. CASE Renews(w, d)
    BY <1>0, <2>1, <2>4, RenewedFields
    DEF HonestSoFar, Renews, Advances, Engaged, InStage, SameHistory, SameCounts
  <2>5. CASE Accepts(w, d)
    <3>1. /\ Engaged(w, d) /\ ~InStage(w, d, "accepted")
          /\ InStage(w, d, "accepted")' /\ OthersSteady(w, d)
          /\ delivery'[d] = delivery[d]
          /\ uncertain'[d] = uncertain[d] /\ holder'[d] = holder[d]
      BY <2>5 DEF Accepts, Advances, Engaged, InStage
    <3>2. accepted'[d] > 0 /\ (accepted[d] = 0 => accepted'[d] = 1)
      BY <2>5 DEF Accepts
    <3>3. ~uncertain[d] =>
            /\ accepted[d] = 0 /\ delivery[d].status = "sending" /\ holder[d] = {w}
            /\ \A v \in Consumers : Engaged(v, d) => v = w
      BY <1>0, <3>1 DEF HonestSoFar
    <3> QED
      BY <1>0, <2>1, <3>1, <3>2, <3>3 DEF HonestSoFar
  <2>6. CASE Rejects(w, d)
    BY <1>0, <2>1, <2>6
    DEF HonestSoFar, Rejects, Advances, Engaged, InStage, SameHistory, SameCounts
  <2>7. CASE Ends(w, d)
    <3>1. Engaged(w, d) /\ ~Engaged(w, d)' /\ ~InStage(w, d, "accepted")'
      BY <2>7 DEF Ends, Engaged, InStage
    <3>2. ~uncertain[d] => \A v \in Consumers : ~Engaged(v, d)'
      BY <1>0, <2>1, <2>7, <3>1 DEF HonestSoFar, Ends
    <3>3. \A v \in Consumers : InStage(v, d, "accepted")' => InStage(v, d, "accepted")
      BY <2>1, <2>7, <3>1 DEF Ends
    <3>4. accepted'[d] = accepted[d] \/ accepted'[d] > 0
      BY <1>0, <2>7 DEF Ends, SameHistory, SameCounts
    <3>5. accepted[d] > 0 => accepted'[d] > 0
      BY <1>0, <3>4
    <3>6. delivery'[d].status = "sent" => accepted'[d] > 0
      BY <1>0, <2>7, <3>5 DEF HonestSoFar, Ends, Concludes
    <3>7. CASE uncertain'[d]
      BY <1>0, <3>3, <3>5, <3>6, <3>7 DEF HonestSoFar
    <3>8. CASE ~uncertain'[d]
      <4>1. ~uncertain[d] /\ accepted'[d] = accepted[d]
        BY <2>7, <3>8 DEF Ends, SameHistory, SameCounts
      <4>2. ~InStage(w, d, "accepted") => accepted[d] = 0
        BY <1>0, <3>1, <4>1 DEF HonestSoFar
      <4>3. accepted'[d] = 0 \/ (accepted'[d] = 1 /\ delivery'[d].status \in {"sending", "sent"})
        BY <1>0, <2>7, <4>1, <4>2 DEF HonestSoFar, Ends, Concludes
      <4> QED
        BY <1>0, <3>2, <3>3, <3>5, <3>6, <4>1, <4>3 DEF HonestSoFar
    <3> QED
      BY <3>7, <3>8
  <2> QED
    BY <1>3, <2>2, <2>3, <2>4, <2>5, <2>6, <2>7 DEF Dealing
<1> QED
  BY <1>1, <1>2, <1>3 DEF DealingShape

LEMMA HonestyHonest ==
  ASSUME Honesty, TypeOK PROVE HonestOutcome
  BY DEF Honesty, HonestSoFar, HonestOutcome, TypeOK

-----------------------------------------------------------------------------
(* The fence, and the lease *)

LEMMA FencedStep ==
  ASSUME "configuration" \notin Outcomes, TypeOK, TypeOK', AttemptsCounted, Fenced, DealingShape
  PROVE  Fenced'
<1> SUFFICES ASSUME NEW d \in Deliveries
    PROVE  /\ ~delivery'[d].config
           /\ \A v \in Consumers : JobFenced(v, d)' /\ ClaimFenced(v, d)'
  BY DEF Fenced
<1>0. /\ ~delivery[d].config
      /\ \A v \in Consumers : JobFenced(v, d) /\ ClaimFenced(v, d)
      /\ \A v \in Consumers : consumer[v].age \in Nat /\ consumer[v].job[d].attempt \in Nat
      /\ Timeout \in Nat /\ MaxStall \in Nat /\ Null \notin Int
  BY PushConstants DEF Fenced, TypeOK, ConsumerState, Job
<1>a. /\ delivery[d].attempt \in Nat /\ delivery[d].last \in Nat \cup {Null}
      /\ delivery[d].next \in Int \cup {Null}
      /\ delivery[d].status = "sending" => delivery[d].last \in Nat
  BY DEF TypeOK, TimedRow, DeliveryRow
<1>1. CASE Tick
  <2>1. /\ delivery'[d].status = delivery[d].status
        /\ delivery'[d].attempt = delivery[d].attempt
        /\ delivery'[d].config = delivery[d].config
        /\ holder' = holder
    BY <1>1, TickedRow DEF Tick, history
  <2> SUFFICES ASSUME NEW v \in Consumers PROVE JobFenced(v, d)' /\ ClaimFenced(v, d)'
    BY <1>0, <2>1
  <2>2. /\ consumer'[v].pc = consumer[v].pc /\ consumer'[v].ids = consumer[v].ids
        /\ consumer'[v].job = consumer[v].job
        /\ consumer[v].pc \in {"send", "details"} =>
             consumer'[v].age = consumer[v].age + 1 /\ consumer[v].age < MaxStall
    BY <1>1, TickedConsumer DEF HasReadClock
  <2>3. LastCap = Timeout + MaxStall + 1
    BY DEF LastCap
  <2>4. delivery[d].status = "sending" =>
          /\ delivery'[d].last \in Nat /\ delivery'[d].last <= delivery[d].last + 1
          /\ delivery[d].last < MaxStall => delivery'[d].last = delivery[d].last + 1
    BY <1>0, <1>1, <1>a, <2>3, TickedRow DEF Older
  <2>5. JobFenced(v, d)'
    <3> SUFFICES ASSUME consumer[v].pc = "send" /\ consumer[v].job[d].stage # "none"
        PROVE /\ consumer[v].job[d].attempt <= delivery[d].attempt
              /\ Owns(v, d)' => holder[d] = {v} /\ delivery'[d].last = consumer'[v].age
              /\ InStage(v, d, "calling") /\ consumer'[v].age <= Timeout => Owns(v, d)'
      BY <2>1, <2>2 DEF JobFenced, InStage
    <3>1. Owns(v, d)' = Owns(v, d)
      BY <2>1, <2>2 DEF Owns
    <3>2. consumer'[v].age <= Timeout => consumer[v].age <= Timeout
      BY <1>0, <2>2
    <3>3. Owns(v, d) => delivery'[d].last = consumer'[v].age
      BY <1>0, <2>2, <2>4 DEF JobFenced, Owns
    <3> QED
      BY <1>0, <3>1, <3>2, <3>3 DEF JobFenced
  <2>6. ClaimFenced(v, d)'
    <3> SUFFICES ASSUME consumer[v].pc = "details" /\ d \in consumer[v].ids
        PROVE /\ delivery[d].status \notin {"absent", "pending"}
              /\ delivery[d].status = "sending" =>
                   \/ delivery'[d].last < consumer'[v].age
                   \/ delivery'[d].last = consumer'[v].age /\ holder[d] = {v}
              /\ delivery[d].status = "retry_wait" =>
                   delivery'[d].next = Null \/ delivery'[d].next + consumer'[v].age > 0
      BY <2>1, <2>2 DEF ClaimFenced
    <3>1. delivery[d].status = "sending" =>
            \/ delivery'[d].last < consumer'[v].age
            \/ delivery'[d].last = consumer'[v].age /\ holder[d] = {v}
      BY <1>0, <1>a, <2>2, <2>4 DEF ClaimFenced
    <3>2. delivery[d].status = "retry_wait" =>
            delivery'[d].next = Null \/ delivery'[d].next + consumer'[v].age > 0
      BY <1>0, <1>1, <1>a, <2>2, TickedRow DEF ClaimFenced
    <3> QED
      BY <1>0, <3>1, <3>2 DEF ClaimFenced
  <2> QED
    BY <2>5, <2>6
<1>2. CASE Quiet(d)
  <2> SUFFICES ASSUME NEW v \in Consumers PROVE JobFenced(v, d)' /\ ClaimFenced(v, d)'
    BY <1>0, <1>2 DEF Quiet, QuietRow
  <2>1. QuietRow(d) /\ holder'[d] = holder[d] /\ Steady(v, d)
    BY <1>2 DEF Quiet, SameCounts
  <2>2. delivery'[d] = delivery[d] \/ delivery'[d].status \in {"pending", "failed", "stopped"}
    BY <2>1 DEF QuietRow
  <2>3. JobFenced(v, d)'
    <3> SUFFICES ASSUME consumer'[v].pc = "send", consumer'[v].job[d].stage # "none"
        PROVE /\ consumer'[v].job[d].attempt <= delivery'[d].attempt
              /\ Owns(v, d)' => holder'[d] = {v} /\ delivery'[d].last = consumer'[v].age
              /\ InStage(v, d, "calling")' /\ consumer'[v].age <= Timeout => Owns(v, d)'
      BY DEF JobFenced
    <3>1. /\ consumer[v].pc = "send" /\ consumer[v].job[d].stage # "none"
          /\ consumer'[v].age = consumer[v].age /\ consumer'[v].job[d] = consumer[v].job[d]
      BY <2>1 DEF Steady, Engaged
    <3>2. delivery'[d].attempt = delivery[d].attempt
      BY <2>1 DEF QuietRow, SameAttempt
    <3>3. Owns(v, d)' => Owns(v, d) /\ delivery'[d] = delivery[d]
      BY <2>2, <3>1, <3>2 DEF Owns
    <3>4. InStage(v, d, "calling") /\ consumer[v].age <= Timeout => Owns(v, d)'
      <4> SUFFICES ASSUME InStage(v, d, "calling"), consumer[v].age <= Timeout
          PROVE  Owns(v, d)'
        OBVIOUS
      <4>1. Owns(v, d) /\ delivery[d].last <= Timeout
        BY <1>0, <3>1 DEF JobFenced
      <4>2. \A age \in Nat : ~LeaseLapsed(d, age)
        BY <1>0, <1>a, <4>1 DEF LeaseLapsed, Owns
      <4>3. delivery'[d] = delivery[d]
        BY <2>1, <4>1, <4>2 DEF QuietRow, Owns
      <4> QED
        BY <3>1, <4>1, <4>3 DEF Owns
    <3>5. InStage(v, d, "calling")' => InStage(v, d, "calling")
      BY <3>1 DEF InStage
    <3> QED
      BY <1>0, <2>1, <3>1, <3>2, <3>3, <3>4, <3>5 DEF JobFenced
  <2>4. ClaimFenced(v, d)'
    BY <1>0, <2>1 DEF ClaimFenced, Steady, Engaged, QuietRow
  <2> QED
    BY <2>3, <2>4
<1>3. ASSUME NEW w \in Consumers, Dealing(w, d)
      PROVE  /\ ~delivery'[d].config
             /\ \A v \in Consumers : JobFenced(v, d)' /\ ClaimFenced(v, d)'
  <2>0. ~delivery'[d].config
    BY <1>0, <1>3, ClaimedFields, RenewedFields
    DEF Dealing, Loads, Accepts, Rejects, Ends, Concludes
  <2>1. ASSUME OthersSteady(w, d), NEW v \in Consumers, v # w, Engaged(v, d)'
        PROVE  /\ Engaged(v, d) /\ consumer'[v].pc = consumer[v].pc
               /\ consumer'[v].age = consumer[v].age
               /\ consumer'[v].job[d] = consumer[v].job[d]
    BY <2>1 DEF OthersSteady, Steady
  <2>2. ASSUME NEW v \in Consumers, ~Engaged(v, d)'
        PROVE  JobFenced(v, d)' /\ ClaimFenced(v, d)'
    BY <2>2 DEF Engaged, JobFenced, ClaimFenced
  <2>3. ASSUME \A v \in Consumers : Engaged(v, d)' => JobFenced(v, d)' /\ ClaimFenced(v, d)'
        PROVE  \A v \in Consumers : JobFenced(v, d)' /\ ClaimFenced(v, d)'
    BY <2>2, <2>3
  <2>4. ASSUME delivery'[d] = delivery[d], holder'[d] = holder[d], OthersSteady(w, d),
               NEW v \in Consumers, v # w
        PROVE  JobFenced(v, d)' /\ ClaimFenced(v, d)'
    <3>1. CASE Engaged(v, d)'
      <4>1. Owns(v, d)' = Owns(v, d) /\ InStage(v, d, "calling")' = InStage(v, d, "calling")
        BY <2>1, <2>4, <3>1 DEF Owns, InStage
      <4>2. JobFenced(v, d) /\ ClaimFenced(v, d)
        BY <1>0
      <4>3. JobFenced(v, d)'
        BY <2>1, <2>4, <3>1, <4>1, <4>2 DEF JobFenced, Engaged
      <4>4. ClaimFenced(v, d)'
        BY <2>1, <2>4, <3>1, <4>2 DEF ClaimFenced, Engaged
      <4> QED
        BY <4>3, <4>4
    <3> QED
      BY <2>2, <3>1
  <2>5. CASE Claims(w, d)
    <3>1. /\ delivery'[d].status = "sending" /\ holder'[d] = {w}
          /\ delivery'[d].attempt = delivery[d].attempt + 1
          /\ delivery'[d].last = consumer[w].age
          /\ consumer'[w].pc = "details" /\ consumer'[w].age = consumer[w].age
      BY <1>0, <2>5, ClaimedFields DEF Claims
    <3>2. \/ delivery[d].status = "pending"
          \/ /\ delivery[d].status = "retry_wait" /\ delivery[d].next # Null
             /\ delivery[d].next + consumer[w].age <= 0
          \/ delivery[d].status = "sending" /\ delivery[d].last - consumer[w].age > Timeout
      BY <2>5 DEF Claims, PendingEligible, RetryEligible, RetryDue, LeaseLapsed
    <3>3. JobFenced(w, d)' /\ ClaimFenced(w, d)'
      BY <1>0, <3>1 DEF JobFenced, ClaimFenced
    <3>4. ASSUME NEW v \in Consumers, v # w, Engaged(v, d)'
          PROVE  JobFenced(v, d)' /\ ClaimFenced(v, d)'
      <4>1. /\ Engaged(v, d) /\ consumer'[v].pc = consumer[v].pc
            /\ consumer'[v].age = consumer[v].age
            /\ consumer'[v].job[d] = consumer[v].job[d]
        BY <2>1, <2>5, <3>4 DEF Claims
      <4>2. JobFenced(v, d)'
        <5> SUFFICES ASSUME consumer[v].pc = "send", consumer[v].job[d].stage # "none"
            PROVE /\ consumer[v].job[d].attempt <= delivery'[d].attempt
                  /\ ~Owns(v, d)'
                  /\ ~(InStage(v, d, "calling")' /\ consumer[v].age <= Timeout)
          BY <4>1 DEF JobFenced
        <5>1. consumer[v].job[d].attempt < delivery'[d].attempt
          BY <1>0, <1>a, <3>1 DEF JobFenced
        <5>2. ~Owns(v, d)'
          BY <1>0, <1>a, <3>1, <4>1, <5>1 DEF Owns
        <5>3. ~(InStage(v, d, "calling") /\ consumer[v].age <= Timeout)
          <6>1. Owns(v, d) /\ delivery[d].last = consumer[v].age =>
                  ~(consumer[v].age <= Timeout)
            BY <1>0, <1>a, <3>2 DEF Owns
          <6> QED
            BY <1>0, <6>1 DEF JobFenced
        <5>4. InStage(v, d, "calling")' = InStage(v, d, "calling")
          BY <4>1 DEF InStage
        <5> QED
          BY <1>0, <1>a, <3>1, <5>1, <5>2, <5>3, <5>4
      <4>3. ClaimFenced(v, d)'
        <5> SUFFICES ASSUME consumer[v].pc = "details", d \in consumer[v].ids
            PROVE  consumer[w].age < consumer[v].age
          BY <3>1, <4>1 DEF ClaimFenced, Engaged
        <5>1. ClaimFenced(v, d)
          BY <1>0
        <5> QED
          BY <1>0, <1>a, <3>2, <5>1 DEF ClaimFenced
      <4> QED
        BY <4>2, <4>3
    <3> QED
      BY <2>0, <2>3, <3>3, <3>4
  <2>6. CASE Loads(w, d)
    <3>1. JobFenced(w, d)' /\ ClaimFenced(w, d)'
      BY <1>0, <1>a, <2>6
      DEF Loads, JobFenced, ClaimFenced, Owns, InStage, SameHistory, SameCounts
    <3> QED
      BY <2>0, <2>4, <2>6, <3>1 DEF Loads, SameHistory, SameCounts
  <2>7. CASE Renews(w, d)
    <3>1. /\ holder[d] = {w} /\ delivery[d].last = consumer[w].age
          /\ consumer[w].job[d].attempt <= delivery[d].attempt /\ Owns(w, d)
      BY <1>0, <2>7 DEF Renews, InStage, JobFenced
    <3>2. delivery'[d] = delivery[d]
      BY <2>7, <3>1 DEF Renews, TypeOK, TimedRow, DeliveryRow
    <3>3. JobFenced(w, d)' /\ ClaimFenced(w, d)'
      BY <1>0, <2>7, <3>1, <3>2
      DEF Renews, Advances, JobFenced, ClaimFenced, Owns, InStage, SameHistory, SameCounts
    <3> QED
      BY <2>0, <2>4, <2>7, <3>2, <3>3 DEF Renews, Advances, SameHistory, SameCounts
  <2>8. CASE Accepts(w, d) \/ Rejects(w, d)
    <3>1. /\ delivery'[d] = delivery[d] /\ holder'[d] = holder[d]
          /\ InStage(w, d, "calling") /\ OthersSteady(w, d)
          /\ Advances(w, d, "accepted") \/ Advances(w, d, "rejected")
      BY <2>8 DEF Accepts, Rejects, Advances, SameHistory, SameCounts
    <3>2. JobFenced(w, d)' /\ ClaimFenced(w, d)'
      BY <1>0, <3>1 DEF Advances, JobFenced, ClaimFenced, Owns, InStage
    <3> QED
      BY <2>0, <2>4, <3>1, <3>2
  <2>9. CASE Ends(w, d)
    <3>1. ~Engaged(w, d)' /\ OthersSteady(w, d) /\ holder'[d] = holder[d]
      BY <2>9 DEF Ends
    <3>2. CASE delivery'[d] = delivery[d]
      BY <2>0, <2>2, <2>4, <3>1, <3>2
    <3>3. CASE Concludes(w, d)
      <4>1. holder[d] = {w} /\ delivery[d].last = consumer[w].age
        BY <1>0, <2>9, <3>3 DEF Ends, Concludes, JobFenced
      <4>2. ASSUME NEW v \in Consumers, v # w, Engaged(v, d)'
            PROVE  JobFenced(v, d)' /\ ClaimFenced(v, d)'
        <5>1. /\ Engaged(v, d) /\ consumer'[v].pc = consumer[v].pc
              /\ consumer'[v].age = consumer[v].age
              /\ consumer'[v].job[d] = consumer[v].job[d]
          BY <2>1, <3>1, <4>2
        <5>2. JobFenced(v, d) /\ ClaimFenced(v, d) /\ holder[d] # {v}
          BY <1>0, <4>1, <4>2
        <5>3. /\ delivery[d].status = "sending" /\ delivery'[d].status # "sending"
              /\ delivery'[d].attempt = delivery[d].attempt
          BY <3>3 DEF Concludes, Owns, SameAttempt
        <5>4. JobFenced(v, d)'
          BY <5>1, <5>2, <5>3 DEF JobFenced, Owns, InStage
        <5>5. ClaimFenced(v, d)'
          <6> SUFFICES ASSUME consumer[v].pc = "details", d \in consumer[v].ids
              PROVE  /\ delivery'[d].status \notin {"absent", "pending"}
                     /\ delivery'[d].status = "retry_wait" =>
                          delivery'[d].next = Null \/ delivery'[d].next + consumer[v].age > 0
            BY <5>1, <5>3 DEF ClaimFenced, Engaged
          <6>1. consumer[w].age < consumer[v].age
            BY <1>a, <4>1, <5>2, <5>3 DEF ClaimFenced
          <6>2. delivery'[d].status = "retry_wait" =>
                  delivery'[d].next = Null \/ delivery'[d].next + consumer[w].age > 0
            BY <3>3 DEF Concludes
          <6>3. delivery'[d].next \in Int \cup {Null}
            BY DEF TypeOK, TimedRow, DeliveryRow
          <6>4. delivery'[d].status \notin {"absent", "pending"}
            BY <3>3 DEF Concludes
          <6> QED
            BY <1>0, <6>1, <6>2, <6>3, <6>4
        <5> QED
          BY <5>4, <5>5
      <4> QED
        BY <2>0, <2>2, <2>3, <3>1, <4>2
    <3> QED
      BY <2>9, <3>2, <3>3 DEF Ends
  <2> QED
    BY <1>3, <2>5, <2>6, <2>7, <2>8, <2>9 DEF Dealing
<1> QED
  BY <1>1, <1>2, <1>3 DEF DealingShape

LEMMA FencedNames ==
  ASSUME Fenced PROVE FenceNamesHolder
  BY DEF Fenced, JobFenced, FenceNamesHolder

LEMMA FencedExclusive ==
  ASSUME Fenced PROVE FreshLeaseIsExclusive
<1> SUFFICES ASSUME NEW d \in Deliveries, NEW v \in Consumers, NEW w \in Consumers, v # w,
                    \A u \in {v, w} : InStage(u, d, "calling") /\ consumer[u].age <= Timeout
    PROVE  FALSE
  BY DEF FreshLeaseIsExclusive
<1>1. holder[d] = {v} /\ holder[d] = {w}
  BY DEF Fenced, JobFenced, InStage
<1> QED
  BY <1>1

-----------------------------------------------------------------------------
(* Every step has that shape: the consumers *)

LEMMA AllSteady ==
  ASSUME UNCHANGED consumer, NEW v, NEW d PROVE Steady(v, d)
  BY DEF Steady, Engaged

LEMMA MovesAlone ==
  ASSUME TypeOK, NEW w \in Consumers, NEW c, consumer' = [consumer EXCEPT ![w] = c]
  PROVE  /\ consumer'[w] = c
         /\ \A v \in Consumers \ {w} : consumer'[v] = consumer[v]
         /\ \A d : OthersSteady(w, d)
  BY DEF TypeOK, OthersSteady, Steady, Engaged

LEMMA LeavesBatch ==
  ASSUME TypeOK, NEW w \in Consumers, NEW c, consumer' = [consumer EXCEPT ![w] = c],
         c.pc \notin {"details", "send"}, NEW d \in Deliveries
  PROVE  \A v \in Consumers : Steady(v, d)
  BY MovesAlone DEF OthersSteady, Steady, Engaged

LEMMA LeaveLoopSteady ==
  ASSUME TypeOK, NEW w \in Consumers, LeaveLoop(w), NEW d \in Deliveries
  PROVE  \A v \in Consumers : Steady(v, d)
<1> DEFINE c == [consumer[w] EXCEPT !.pc = IF IsRetry(w) THEN "complete" ELSE "sweep",
                   !.age = 0, !.ids = {}, !.claimed = 0]
<1>1. consumer' = [consumer EXCEPT ![w] = c]
  BY DEF LeaveLoop
<1>2. c.pc \notin {"details", "send"}
  BY DEF TypeOK, ConsumerState
<1> QED
  BY <1>1, <1>2, LeavesBatch

LEMMA GiveBackSteady ==
  ASSUME TypeOK, NEW w \in Consumers, consumer' = [consumer EXCEPT ![w] = IdleConsumer],
         NEW d \in Deliveries
  PROVE  \A v \in Consumers : Steady(v, d)
<1>1. IdleConsumer.pc \notin {"details", "send"}
  BY DEF IdleConsumer
<1> QED
  BY <1>1, LeavesBatch

LEMMA AcceptSteady ==
  ASSUME TypeOK, NEW w \in Consumers, NEW m, NEW touched, Accept(w, m, touched),
         NEW d \in Deliveries
  PROVE  \A v \in Consumers : Steady(v, d)
<1> DEFINE c == [IdleConsumer EXCEPT !.pc = "select", !.msg = m, !.touched = touched]
<1>1. consumer' = [consumer EXCEPT ![w] = c]
  BY DEF Accept
<1>2. c.pc \notin {"details", "send"}
  BY DEF IdleConsumer
<1> QED
  BY <1>1, <1>2, LeavesBatch

(* A job that ends, or enters another stage, concerns its delivery alone. *)
LEMMA EndedJob ==
  ASSUME TypeOK, NEW w \in Consumers, NEW e \in Deliveries, NEW error,
         \/ EndJob(w, e)
         \/ consumer' = [consumer EXCEPT ![w].job[e] = NoJob, ![w].error = error]
  PROVE  /\ ~Engaged(w, e)' \/ consumer[w].pc # "send"
         /\ \A d \in Deliveries : OthersSteady(w, d)
         /\ \A d \in Deliveries \ {e}, v \in Consumers : Steady(v, d)
<1>1. consumer[w] \in ConsumerState
  BY DEF TypeOK
<1>2. PICK c : /\ consumer' = [consumer EXCEPT ![w] = c]
               /\ c.pc = consumer[w].pc /\ c.age = consumer[w].age /\ c.ids = consumer[w].ids
               /\ c.job = [consumer[w].job EXCEPT ![e] = NoJob]
  <2>1. CASE EndJob(w, e)
    <3> DEFINE c == [consumer[w] EXCEPT !.job[e] = NoJob]
    <3>1. consumer' = [consumer EXCEPT ![w] = c]
      BY <2>1 DEF EndJob
    <3>2. /\ c.pc = consumer[w].pc /\ c.age = consumer[w].age /\ c.ids = consumer[w].ids
          /\ c.job = [consumer[w].job EXCEPT ![e] = NoJob]
      BY <1>1 DEF ConsumerState
    <3> HIDE DEF c
    <3> QED
      BY <3>1, <3>2
  <2>2. CASE consumer' = [consumer EXCEPT ![w].job[e] = NoJob, ![w].error = error]
    <3> DEFINE c == [consumer[w] EXCEPT !.job[e] = NoJob, !.error = error]
    <3>1. consumer' = [consumer EXCEPT ![w] = c]
      BY <2>2 DEF TypeOK
    <3>2. /\ c.pc = consumer[w].pc /\ c.age = consumer[w].age /\ c.ids = consumer[w].ids
          /\ c.job = [consumer[w].job EXCEPT ![e] = NoJob]
      BY <1>1 DEF ConsumerState
    <3> HIDE DEF c
    <3> QED
      BY <3>1, <3>2
  <2> QED
    BY <2>1, <2>2
<1>3. consumer'[w] = c /\ \A d \in Deliveries : OthersSteady(w, d)
  BY <1>2, MovesAlone
<1>4. \A d \in Deliveries \ {e} : c.job[d] = consumer[w].job[d]
  BY <1>1, <1>2 DEF ConsumerState
<1>5. c.job[e].stage = "none"
  BY <1>1, <1>2 DEF ConsumerState, NoJob
<1>6. ~Engaged(w, e)' \/ consumer[w].pc # "send"
  BY <1>2, <1>3, <1>5 DEF Engaged
<1>7. \A d \in Deliveries \ {e} : Steady(w, d)
  BY <1>2, <1>3, <1>4 DEF Steady, Engaged
<1> QED
  BY <1>3, <1>6, <1>7 DEF OthersSteady

LEMMA EnteredStage ==
  ASSUME TypeOK, NEW w \in Consumers, NEW e \in Deliveries, NEW stage,
         Enter(w, e, stage), consumer[w].pc = "send"
  PROVE  /\ Advances(w, e, stage)
         /\ \A d \in Deliveries \ {e}, v \in Consumers : Steady(v, d)
<1> DEFINE c == [consumer[w] EXCEPT !.job[e].stage = stage]
<1>1. consumer[w] \in ConsumerState /\ consumer' = [consumer EXCEPT ![w] = c]
  BY DEF TypeOK, Enter
<1>2. consumer[w].job[e] \in Job
  BY <1>1 DEF ConsumerState
<1>3. /\ c.pc = consumer[w].pc /\ c.age = consumer[w].age /\ c.ids = consumer[w].ids
      /\ c.job[e].stage = stage /\ c.job[e].attempt = consumer[w].job[e].attempt
      /\ \A d \in Deliveries \ {e} : c.job[d] = consumer[w].job[d]
  BY <1>1, <1>2 DEF ConsumerState, Job
<1> HIDE DEF c
<1>4. consumer'[w] = c /\ \A d \in Deliveries : OthersSteady(w, d)
  BY <1>1, MovesAlone
<1>5. \A d \in Deliveries \ {e} : Steady(w, d)
  BY <1>3, <1>4 DEF Steady, Engaged
<1> QED
  BY <1>3, <1>4, <1>5 DEF Advances, OthersSteady

-----------------------------------------------------------------------------
(* Every step has that shape: the rows *)

LEMMA SameRow ==
  ASSUME NEW d \in Deliveries, delivery'[d] = delivery[d] PROVE QuietRow(d)
  BY DEF QuietRow, SameAttempt

LEMMA GivenUpRow ==
  ASSUME RowsTyped, NEW d \in Deliveries, NEW status \in {"failed", "stopped"},
         delivery'[d] = Ended(delivery[d], status),
         \/ delivery[d].status \in {"pending", "retry_wait"}
         \/ uncertain'[d] /\ \E age \in Nat : LeaseLapsed(d, age)
  PROVE  QuietRow(d)
<1>1. /\ delivery'[d].status = status /\ delivery'[d].attempt = delivery[d].attempt
      /\ ~delivery'[d].config
  BY DEF Ended, RowsTyped, TimedRow, DeliveryRow
<1> QED
  BY <1>1 DEF QuietRow, SameAttempt

LEMMA FailPendingQuiet ==
  ASSUME RowsTyped, NEW S, FailPendingWithoutToken(S), NEW d \in Deliveries
  PROVE  QuietRow(d)
<1>1. \/ delivery'[d] = delivery[d]
      \/ delivery[d].status = "pending" /\ delivery'[d] = Ended(delivery[d], "failed")
  BY DEF FailPendingWithoutToken
<1> QED
  BY <1>1, SameRow, GivenUpRow

LEMMA RetireQuiet ==
  ASSUME TypeOK, NEW age \in Nat, RetireUnsendableDeliveries(age), NEW d \in Deliveries
  PROVE  QuietRow(d) /\ (uncertain[d] => uncertain'[d])
<1>1. uncertain'[d] = (uncertain[d] \/ (Retirable(d, age) /\ LeaseLapsed(d, age)))
  BY DEF RetireUnsendableDeliveries
<1>2. CASE ~Retirable(d, age)
  BY <1>1, <1>2, SameRow DEF RetireUnsendableDeliveries
<1>3. CASE Retirable(d, age)
  <2> DEFINE status == IF StatusOf(d) = "stopped" THEN "stopped" ELSE "failed"
  <2>1. delivery'[d] = Ended(delivery[d], status) /\ status \in {"failed", "stopped"}
    BY <1>3 DEF RetireUnsendableDeliveries
  <2>2. delivery[d].status \in {"pending", "retry_wait"} \/ LeaseLapsed(d, age)
    BY <1>3 DEF Retirable
  <2> HIDE DEF status
  <2> QED
    BY <1>1, <1>3, <2>1, <2>2, GivenUpRow DEF RowsTyped, TypeOK
<1> QED
  BY <1>2, <1>3

LEMMA PreparedQuiet ==
  ASSUME TypeOK, AttemptsCounted, NEW s \in Schedules, ReadyCronPrepare(s),
         NEW d \in Deliveries
  PROVE  QuietRow(d)
<1>1. CASE d \in Inserted(s)
  <2>1. delivery'[d] = [AbsentRow EXCEPT !.status = "pending"] /\ delivery[d].status = "absent"
    BY <1>1 DEF ReadyCronPrepare, Inserted
  <2>2. /\ delivery'[d].status = "pending" /\ delivery'[d].attempt = 0
        /\ ~delivery'[d].config
    BY <2>1 DEF AbsentRow
  <2> QED
    BY <2>1, <2>2 DEF QuietRow, SameAttempt, AttemptsCounted
<1>2. CASE d \notin Inserted(s)
  BY <1>2, SameRow DEF ReadyCronPrepare
<1> QED
  BY <1>1, <1>2

LEMMA StoppedQuiet ==
  ASSUME TypeOK, NEW s \in Schedules, StopSchedule(s), NEW d \in Deliveries
  PROVE  QuietRow(d)
<1>1. CASE ScheduleOf[d] = s /\ delivery[d].status \in {"pending", "retry_wait"}
  <2>1. delivery'[d] = [delivery[d] EXCEPT !.status = "stopped", !.next = Null]
    BY <1>1 DEF StopSchedule
  <2>2. /\ delivery'[d].status = "stopped" /\ delivery'[d].attempt = delivery[d].attempt
        /\ delivery'[d].config = delivery[d].config
    BY <2>1 DEF TypeOK, TimedRow, DeliveryRow
  <2> QED
    BY <1>1, <2>2 DEF QuietRow, SameAttempt
<1>2. CASE ~(ScheduleOf[d] = s /\ delivery[d].status \in {"pending", "retry_wait"})
  BY <1>2, SameRow DEF StopSchedule
<1> QED
  BY <1>1, <1>2

-----------------------------------------------------------------------------
(* Every step has that shape: claims and jobs *)

LEMMA ClaimUpdateDeals ==
  ASSUME TypeOK, NEW w \in Consumers, ClaimUpdate(w), NEW d \in Deliveries
  PROVE  Quiet(d) \/ Claims(w, d)
<1> DEFINE age == consumer[w].age
           won == {e \in consumer[w].ids : Eligible(w, e, age)}
           next == [consumer[w] EXCEPT !.pc = "details", !.ids = won]
<1>0. /\ consumer[w].pc = "claim"
      /\ delivery'[d] = IF d \in won THEN ClaimedRow(d, age) ELSE delivery[d]
      /\ uncertain'[d] = (uncertain[d] \/ (d \in won /\ LeaseLapsed(d, age)))
      /\ holder'[d] = IF d \in won THEN {w} ELSE holder[d]
      /\ accepted' = accepted
      /\ IF won = {} THEN LeaveLoop(w) ELSE consumer' = [consumer EXCEPT ![w] = next]
  BY DEF ClaimUpdate
<1>1. /\ next.pc = "details" /\ next.ids = won /\ next.age = age
  BY DEF TypeOK, ConsumerState
<1>2. d \in won => Eligible(w, d, age)
  OBVIOUS
<1> HIDE DEF won, next
<1>3. CASE d \in won
  <2>1. consumer'[w] = next /\ OthersSteady(w, d)
    BY <1>0, <1>3, MovesAlone
  <2>2. PendingEligible(d) \/ RetryEligible(d, age)
    BY <1>2, <1>3 DEF Eligible
  <2> QED
    BY <1>0, <1>1, <1>3, <2>1, <2>2 DEF Claims
<1>4. CASE d \notin won
  <2>1. \A v \in Consumers : Steady(v, d)
    <3>1. CASE won = {}
      BY <1>0, <3>1, LeaveLoopSteady
    <3>2. CASE won # {}
      <4>1. consumer'[w] = next /\ OthersSteady(w, d)
        BY <1>0, <3>2, MovesAlone
      <4>2. Steady(w, d)
        BY <1>1, <1>4, <4>1 DEF Steady, Engaged
      <4> QED
        BY <4>1, <4>2 DEF OthersSteady
    <3> QED
      BY <3>1, <3>2
  <2> QED
    BY <1>0, <1>4, <2>1, SameRow DEF Quiet, SameCounts
<1> QED
  BY <1>3, <1>4

LEMMA ClaimDetailsDeals ==
  ASSUME TypeOK, NEW w \in Consumers, ClaimDetails(w), NEW d \in Deliveries
  PROVE  Quiet(d) \/ Loads(w, d)
<1> DEFINE rows == {e \in consumer[w].ids :
                      /\ delivery[e].status = "sending"
                      /\ delivery[e].last = consumer[w].age
                      /\ HasToken(e)}
<1>0. /\ consumer[w].pc = "details"
      /\ delivery' = delivery /\ accepted' = accepted
      /\ uncertain' = uncertain /\ holder' = holder
      /\ IF rows = {} THEN LeaveLoop(w)
         ELSE consumer' = [consumer EXCEPT ![w] = Loaded(w, rows)]
  BY DEF ClaimDetails, dbVars, history
<1>1. d \in rows => /\ d \in consumer[w].ids /\ delivery[d].status = "sending"
                    /\ delivery[d].last = consumer[w].age
  OBVIOUS
<1> HIDE DEF rows
<1>2. CASE rows = {}
  BY <1>0, <1>2, LeaveLoopSteady, SameRow DEF Quiet, SameCounts
<1>3. CASE rows # {}
  <2> DEFINE next == Loaded(w, rows)
  <2>1. consumer'[w] = next /\ OthersSteady(w, d)
    BY <1>0, <1>3, MovesAlone
  <2>2. /\ next.pc = "send" /\ next.age = consumer[w].age
        /\ next.job[d] = IF d \in rows
             THEN [stage |-> "claimed", attempt |-> delivery[d].attempt,
                   elapsed |-> delivery[d].first - consumer[w].age]
             ELSE NoJob
    <3>1. consumer[w] \in ConsumerState
      BY DEF TypeOK
    <3> QED
      BY <3>1 DEF Loaded, ConsumerState
  <2> HIDE DEF next
  <2>3. CASE d \in rows
    BY <1>0, <1>1, <2>1, <2>2, <2>3 DEF Loads, SameHistory, SameCounts
  <2>4. CASE d \notin rows
    <3>1. ~Engaged(w, d)'
      BY <2>1, <2>2, <2>4 DEF Engaged, NoJob
    <3>2. \A v \in Consumers : Steady(v, d)
      BY <2>1, <3>1 DEF OthersSteady, Steady
    <3> QED
      BY <1>0, <3>2, SameRow DEF Quiet, SameCounts
  <2> QED
    BY <2>3, <2>4
<1> QED
  BY <1>2, <1>3

LEMMA SettleConcludes ==
  ASSUME TypeOK, NEW w \in Consumers, NEW e \in Deliveries,
         NEW outcome \in {"sent", "failed"}, Settle(w, e, outcome),
         InStage(w, e, "accepted") <=> outcome = "sent"
  PROVE  /\ \A d \in Deliveries \ {e} : delivery'[d] = delivery[d]
         /\ delivery'[e] = delivery[e] \/ Concludes(w, e)
<1>1. delivery \in [Deliveries -> DeliveryRow]
  BY DEF TypeOK, TimedRow
<1>2. \A d \in Deliveries \ {e} : delivery'[d] = delivery[d]
  BY <1>1 DEF Settle
<1>3. CASE ~Owns(w, e)
  BY <1>2, <1>3 DEF Settle
<1>4. CASE Owns(w, e)
  <2>1. delivery'[e] = Ended(delivery[e], outcome)
    BY <1>1, <1>4 DEF Settle
  <2>2. /\ delivery'[e].status = outcome /\ delivery'[e].attempt = delivery[e].attempt
        /\ ~delivery'[e].config
    BY <1>1, <2>1 DEF Ended, DeliveryRow
  <2> QED
    BY <1>2, <1>4, <2>2 DEF Concludes, SameAttempt
<1> QED
  BY <1>3, <1>4

LEMMA SaveRetryConcludes ==
  ASSUME TypeOK, NEW w \in Consumers, NEW e \in Deliveries, NEW isConfig \in BOOLEAN,
         NEW delay \in Int, SaveRetry(w, e, isConfig, delay),
         ~InStage(w, e, "accepted"),
         "configuration" \in Outcomes \/ (~isConfig /\ delay > 0)
  PROVE  /\ \A d \in Deliveries \ {e} : delivery'[d] = delivery[d]
         /\ delivery'[e] = delivery[e] \/ Concludes(w, e)
<1> DEFINE next == delay - consumer[w].age
<1>1. delivery \in [Deliveries -> DeliveryRow] /\ consumer[w].age \in Nat /\ Null \notin Int
  BY PushConstants DEF TypeOK, TimedRow, ConsumerState
<1>2. \A d \in Deliveries \ {e} : delivery'[d] = delivery[d]
  BY <1>1 DEF SaveRetry
<1>3. CASE ~Owns(w, e)
  BY <1>2, <1>3 DEF SaveRetry
<1>4. CASE Owns(w, e)
  <2>1. delivery'[e] = RetryRow(e, isConfig, next)
    BY <1>1, <1>4 DEF SaveRetry
  <2>2. next \in Int /\ next + consumer[w].age = delay
    BY <1>1
  <2> HIDE DEF next
  <2>3. /\ delivery'[e].status = IF StatusOf(e) = "stopped" THEN "stopped"
                                 ELSE IF ~HasToken(e) THEN "failed" ELSE "retry_wait"
        /\ delivery'[e].attempt = delivery[e].attempt
        /\ delivery'[e].first = delivery[e].first
        /\ delivery'[e].config = isConfig
        /\ delivery'[e].next = IF HasToken(e) /\ StatusOf(e) = "sending" THEN next ELSE Null
    BY <1>1, <2>1 DEF RetryRow, DeliveryRow
  <2>4. delivery'[e].status = "retry_wait" =>
          /\ delivery'[e].next \in Int \/ StatusOf(e) \notin {"sending", "stopped"}
          /\ \/ delivery'[e].next = Null \/ "configuration" \in Outcomes
             \/ delivery'[e].next + consumer[w].age > 0
    BY <2>2, <2>3
  <2>5. delivery'[e].status \in {"failed", "stopped", "retry_wait"}
    BY <2>3
  <2>6. delivery'[e].config => "configuration" \in Outcomes
    BY <2>3
  <2> QED
    BY <1>2, <1>4, <2>3, <2>4, <2>5, <2>6 DEF Concludes, SameAttempt
<1> QED
  BY <1>3, <1>4

(* A temporary error waits for a milestone that is still to come. *)
LEMMA TemporaryConcludes ==
  ASSUME TypeOK, NEW w \in Consumers, NEW e \in Deliveries, HandleTemporary(w, e),
         InStage(w, e, "calling")
  PROVE  /\ EndJob(w, e)
         /\ \A d \in Deliveries \ {e} : delivery'[d] = delivery[d]
         /\ delivery'[e] = delivery[e] \/ Concludes(w, e)
<1> DEFINE elapsed == consumer[w].job[e].elapsed
           delay(milestone, after) ==
             IF milestone - elapsed >= after THEN milestone - elapsed ELSE after
<1>1. elapsed \in Int /\ ~InStage(w, e, "accepted")
  BY DEF TypeOK, ConsumerState, Job, InStage
<1>2. \A milestone \in Offsets, after \in RetryAfters :
        milestone > elapsed =>
          delay(milestone, after) \in Int /\ delay(milestone, after) > 0
  <2>1. Offsets \subseteq Int /\ RetryAfters \subseteq Int
    BY PushConstants
  <2> SUFFICES ASSUME NEW milestone \in Offsets, NEW after \in RetryAfters,
                      milestone > elapsed
      PROVE  delay(milestone, after) \in Int /\ delay(milestone, after) > 0
    OBVIOUS
  <2>2. milestone \in Int /\ after \in Int
    BY <2>1
  <2> HIDE DEF elapsed
  <2> QED
    BY <1>1, <2>2
<1>3. \/ MarkFailed(w, e)
      \/ \E milestone \in Offsets, after \in RetryAfters :
           milestone > elapsed /\ SaveRetry(w, e, FALSE, delay(milestone, after))
  BY DEF HandleTemporary
<1>4. CASE MarkFailed(w, e)
  BY <1>1, <1>4, SettleConcludes DEF MarkFailed
<1> HIDE DEF delay
<1>5. ASSUME NEW milestone \in Offsets, NEW after \in RetryAfters,
             milestone > elapsed, SaveRetry(w, e, FALSE, delay(milestone, after))
      PROVE  /\ EndJob(w, e)
             /\ \A d \in Deliveries \ {e} : delivery'[d] = delivery[d]
             /\ delivery'[e] = delivery[e] \/ Concludes(w, e)
  <2>1. delay(milestone, after) \in Int /\ delay(milestone, after) > 0
    BY <1>2, <1>5
  <2>2. PICK wait \in Int : wait > 0 /\ SaveRetry(w, e, FALSE, wait)
    BY <1>5, <2>1
  <2> QED
    BY <1>1, <2>2, SaveRetryConcludes DEF SaveRetry
<1> QED
  BY <1>3, <1>4, <1>5

LEMMA JobEnds ==
  ASSUME TypeOK, NEW w \in Consumers, NEW e \in Deliveries,
         consumer[w].pc = "send", consumer[w].job[e].stage # "none",
         NEW error,
         \/ EndJob(w, e)
         \/ consumer' = [consumer EXCEPT ![w].job[e] = NoJob, ![w].error = error],
         \A d \in Deliveries \ {e} : delivery'[d] = delivery[d] /\ SameHistory(d),
         delivery'[e] = delivery[e] \/ Concludes(w, e),
         holder'[e] = holder[e],
         \/ SameHistory(e)
         \/ /\ InStage(w, e, "calling") /\ uncertain'[e]
            /\ accepted'[e] = (IF accepted[e] = 0 THEN 1 ELSE 2)
  PROVE  DealingShape
<1>1. /\ ~Engaged(w, e)' /\ OthersSteady(w, e)
      /\ \A d \in Deliveries \ {e}, v \in Consumers : Steady(v, d)
  BY EndedJob
<1>2. Dealing(w, e)
  BY <1>1 DEF Dealing, Ends
<1>3. \A d \in Deliveries \ {e} : Quiet(d)
  BY <1>1, SameRow DEF Quiet, SameHistory, SameCounts
<1> QED
  BY <1>2, <1>3 DEF DealingShape

LEMMA JobEnters ==
  ASSUME TypeOK, NEW w \in Consumers, NEW e \in Deliveries, NEW stage,
         Enter(w, e, stage), consumer[w].pc = "send",
         \A d \in Deliveries \ {e} : delivery'[d] = delivery[d] /\ SameHistory(d),
         Advances(w, e, stage) => Dealing(w, e)
  PROVE  DealingShape
<1>1. /\ Advances(w, e, stage)
      /\ \A d \in Deliveries \ {e}, v \in Consumers : Steady(v, d)
  BY EnteredStage
<1>2. \A d \in Deliveries \ {e} : Quiet(d)
  BY <1>1, SameRow DEF Quiet, SameHistory, SameCounts
<1> QED
  BY <1>1, <1>2 DEF DealingShape

LEMMA JobDeals ==
  ASSUME TypeOK, NEW w \in Consumers, NEW e \in Deliveries, JobStep(w, e)
  PROVE  DealingShape
<1>0. /\ delivery \in [Deliveries -> DeliveryRow]
      /\ accepted \in [Deliveries -> 0 .. 2] /\ uncertain \in [Deliveries -> BOOLEAN]
  BY DEF TypeOK, TimedRow
<1>1. ASSUME UNCHANGED <<accepted, uncertain, holder>>, NEW d \in Deliveries
      PROVE SameHistory(d)
  BY <1>1 DEF SameHistory, SameCounts
<1>2. ASSUME UNCHANGED <<accepted, uncertain, holder>>, EndJob(w, e),
             consumer[w].pc = "send", consumer[w].job[e].stage # "none",
             \A d \in Deliveries \ {e} : delivery'[d] = delivery[d],
             delivery'[e] = delivery[e] \/ Concludes(w, e)
      PROVE  DealingShape
  BY <1>1, <1>2, JobEnds
<1>3. ASSUME MarkFailed(w, e), InStage(w, e, "calling") \/ InStage(w, e, "rejected"),
             UNCHANGED <<accepted, uncertain, holder>>
      PROVE  DealingShape
  <2>1. ~InStage(w, e, "accepted") /\ consumer[w].pc = "send" /\ consumer[w].job[e].stage # "none"
    BY <1>3 DEF InStage
  <2> QED
    BY <1>2, <1>3, <2>1, SettleConcludes DEF MarkFailed
<1>4. CASE RenewDeliveryLease(w, e)
  <2>1. /\ consumer[w].pc = "send" /\ consumer[w].job[e].stage # "none"
        /\ UNCHANGED <<accepted, uncertain, holder>>
    BY <1>4 DEF RenewDeliveryLease, InStage, history
  <2>2. CASE Renewable(w, e)
    <3>1. /\ delivery' = [delivery EXCEPT ![e].last = consumer[w].age]
          /\ Enter(w, e, "calling") /\ InStage(w, e, "claimed") /\ Owns(w, e)
      BY <1>4, <2>2 DEF RenewDeliveryLease, Renewable
    <3>2. /\ delivery'[e] = [delivery[e] EXCEPT !.last = consumer[w].age]
          /\ \A d \in Deliveries \ {e} : delivery'[d] = delivery[d]
      BY <1>0, <3>1
    <3>3. Advances(w, e, "calling") => Dealing(w, e)
      BY <1>1, <2>1, <3>1, <3>2 DEF Dealing, Renews
    <3> QED
      BY <1>1, <2>1, <3>1, <3>2, <3>3, JobEnters
  <2>3. CASE ~Renewable(w, e)
    BY <1>2, <1>4, <2>1, <2>3 DEF RenewDeliveryLease
  <2> QED
    BY <2>2, <2>3
<1>5. CASE FcmAccepts(w, e)
  <2>1. /\ InStage(w, e, "calling") /\ consumer[w].pc = "send" /\ Enter(w, e, "accepted")
        /\ accepted' = [accepted EXCEPT ![e] = IF @ = 0 THEN 1 ELSE 2]
        /\ UNCHANGED <<delivery, uncertain, holder>>
    BY <1>5 DEF FcmAccepts, CountAccepted, InStage, dbVars
  <2>2. accepted'[e] = (IF accepted[e] = 0 THEN 1 ELSE 2)
    BY <1>0, <2>1
  <2>3. \A d \in Deliveries \ {e} : delivery'[d] = delivery[d] /\ SameHistory(d)
    BY <1>0, <2>1 DEF SameHistory, SameCounts
  <2>4. Advances(w, e, "accepted") => Dealing(w, e)
    BY <2>1, <2>2 DEF Dealing, Accepts
  <2> QED
    BY <2>1, <2>3, <2>4, JobEnters
<1>6. CASE MarkSent(w, e)
  BY <1>2, <1>6, SettleConcludes DEF MarkSent, InStage, history
<1>7. CASE FcmTemporaryError(w, e)
  BY <1>2, <1>7, TemporaryConcludes DEF FcmTemporaryError, InStage, history
<1>8. CASE FcmAnswerLost(w, e)
  <2>1. /\ InStage(w, e, "calling") /\ HandleTemporary(w, e)
        /\ accepted' = [accepted EXCEPT ![e] = IF @ = 0 THEN 1 ELSE 2]
        /\ uncertain' = [uncertain EXCEPT ![e] = TRUE] /\ holder' = holder
    BY <1>8 DEF FcmAnswerLost, CountAccepted
  <2>2. /\ EndJob(w, e)
        /\ \A d \in Deliveries \ {e} : delivery'[d] = delivery[d]
        /\ delivery'[e] = delivery[e] \/ Concludes(w, e)
    BY <2>1, TemporaryConcludes
  <2>3. accepted'[e] = (IF accepted[e] = 0 THEN 1 ELSE 2) /\ uncertain'[e]
    BY <1>0, <2>1
  <2>4. \A d \in Deliveries \ {e} : SameHistory(d)
    BY <1>0, <2>1 DEF SameHistory, SameCounts
  <2>5. consumer[w].pc = "send" /\ consumer[w].job[e].stage # "none"
    BY <2>1 DEF InStage
  <2> QED
    BY <2>1, <2>2, <2>3, <2>4, <2>5, JobEnds
<1>9. CASE FcmPermanentError(w, e) \/ MarkRejected(w, e)
  BY <1>3, <1>9 DEF FcmPermanentError, MarkRejected, history
<1>10. CASE FcmUnregistered(w, e)
  <2>1. /\ InStage(w, e, "calling") /\ consumer[w].pc = "send" /\ Enter(w, e, "rejected")
        /\ UNCHANGED <<delivery, accepted, uncertain, holder>>
    BY <1>10 DEF FcmUnregistered, InStage, history
  <2>2. Advances(w, e, "rejected") => Dealing(w, e)
    BY <1>1, <2>1 DEF Dealing, Rejects
  <2> QED
    BY <1>1, <2>1, <2>2, JobEnters
<1>11. CASE FcmConfigurationError(w, e)
  <2>0. ConfigDelay \in Int
    BY PushConstants
  <2>1. /\ "configuration" \in Outcomes /\ InStage(w, e, "calling")
        /\ SaveRetry(w, e, TRUE, ConfigDelay) /\ UNCHANGED <<accepted, uncertain, holder>>
    BY <1>11 DEF FcmConfigurationError, history
  <2>2. ~InStage(w, e, "accepted") /\ consumer[w].pc = "send" /\ consumer[w].job[e].stage # "none"
    BY <2>1 DEF InStage
  <2>3. /\ \A d \in Deliveries \ {e} : delivery'[d] = delivery[d]
        /\ delivery'[e] = delivery[e] \/ Concludes(w, e)
    BY <2>0, <2>1, <2>2, SaveRetryConcludes
  <2> QED
    BY <1>2, <2>1, <2>2, <2>3 DEF SaveRetry
<1>12. CASE JobThrows(w, e)
  <2>1. /\ consumer[w].pc = "send" /\ consumer[w].job[e].stage # "none"
        /\ consumer' = [consumer EXCEPT ![w].job[e] = NoJob, ![w].error = TRUE]
        /\ UNCHANGED <<delivery, accepted, uncertain, holder>>
    BY <1>12 DEF JobThrows, dbVars, history
  <2> QED
    BY <1>1, <2>1, JobEnds
<1> QED
  BY <1>4, <1>5, <1>6, <1>7, <1>8, <1>9, <1>10, <1>11, <1>12 DEF JobStep

-----------------------------------------------------------------------------
(* Every step has that shape *)

LEMMA AllQuiet ==
  ASSUME UNCHANGED <<accepted, holder>>,
         \A d \in Deliveries : /\ QuietRow(d)
                               /\ uncertain[d] => uncertain'[d]
                               /\ \A v \in Consumers : Steady(v, d)
  PROVE  DealingShape
  BY DEF DealingShape, Quiet, SameCounts

LEMMA CronDeals ==
  ASSUME TypeOK, AttemptsCounted, RetryCronStep \/ ReadyCronStep
  PROVE  DealingShape
<1>0. UNCHANGED <<consumer, accepted, holder>>
  BY DEF RetryCronStep, ReadyCronStep, RetryCronBegin, RetryCronRetire,
         RetryCronComplete, RetryCronEnqueue, ReadyCronFind, ReadyCronEnqueue,
         ReadyCronPrepare, ReadyCronPrepareFails, ReadyCronMarkFailed,
         ReadyCronSweep, ReadyCronCount, history
<1>1. ASSUME NEW d \in Deliveries
      PROVE  QuietRow(d) /\ (uncertain[d] => uncertain'[d])
  <2>1. CASE RetryCronRetire
    <3>1. retryCron.age \in Nat
      BY DEF TypeOK, RetryCronState
    <3> QED
      BY <2>1, <3>1, RetireQuiet DEF RetryCronRetire
  <2>2. ASSUME NEW s \in Schedules, ReadyCronPrepare(s)
        PROVE  QuietRow(d) /\ (uncertain[d] => uncertain'[d])
    BY <2>2, PreparedQuiet DEF ReadyCronPrepare, history
  <2>3. ASSUME NEW s \in Schedules, ReadyCronSweep(s)
        PROVE  QuietRow(d) /\ (uncertain[d] => uncertain'[d])
    BY <2>3, FailPendingQuiet DEF ReadyCronSweep, history, RowsTyped, TypeOK
  <2>4. ASSUME UNCHANGED <<delivery, uncertain>>
        PROVE  QuietRow(d) /\ (uncertain[d] => uncertain'[d])
    BY <2>4, SameRow
  <2> QED
    BY <2>1, <2>2, <2>3, <2>4
    DEF RetryCronStep, ReadyCronStep, RetryCronBegin, RetryCronComplete,
        RetryCronEnqueue, ReadyCronFind, ReadyCronEnqueue, ReadyCronPrepareFails,
        ReadyCronMarkFailed, ReadyCronCount, history, dbVars
<1> QED
  BY <1>0, <1>1, AllSteady, AllQuiet

LEMMA ConsumerDeals ==
  ASSUME TypeOK, NEW w \in Consumers, ConsumerStep(w)
  PROVE  DealingShape
<1>0. ASSUME UNCHANGED <<delivery, accepted, uncertain, holder>>,
             \A d \in Deliveries, v \in Consumers : Steady(v, d)
      PROVE  DealingShape
  BY <1>0, SameRow, AllQuiet
<1>1. CASE SendStart(w)
  <2>1. PICK m : FailPendingWithoutToken(m.schedules) /\ Accept(w, m, {})
    BY <1>1 DEF SendStart
  <2>2. UNCHANGED <<accepted, uncertain, holder>>
    BY <1>1 DEF SendStart, history
  <2> QED
    BY <2>1, <2>2, FailPendingQuiet, AcceptSteady, AllQuiet DEF RowsTyped, TypeOK
<1>2. CASE RetryStart(w)
  <2>1. PICK m : Accept(w, m, RetiredSchedules(0))
    BY <1>2 DEF RetryStart
  <2>2. UNCHANGED <<accepted, holder>> /\ RetireUnsendableDeliveries(0) /\ 0 \in Nat
    BY <1>2 DEF RetryStart
  <2>3. \A d \in Deliveries : QuietRow(d) /\ (uncertain[d] => uncertain'[d])
    BY <2>2, RetireQuiet
  <2> QED
    BY <2>1, <2>2, <2>3, AcceptSteady, AllQuiet
<1>3. CASE ClaimSelect(w)
  <2>1. \/ LeaveLoop(w)
        \/ \E cand : consumer' = [consumer EXCEPT
             ![w].pc = "claim", ![w].age = 0, ![w].ids = cand]
    BY <1>3 DEF ClaimSelect
  <2>2. ASSUME NEW cand, consumer' = [consumer EXCEPT
                 ![w].pc = "claim", ![w].age = 0, ![w].ids = cand]
        PROVE  \A d \in Deliveries, v \in Consumers : Steady(v, d)
    <3> DEFINE c == [consumer[w] EXCEPT !.pc = "claim", !.age = 0, !.ids = cand]
    <3>1. consumer' = [consumer EXCEPT ![w] = c]
      BY <2>2 DEF TypeOK
    <3>2. c.pc \notin {"details", "send"}
      BY DEF TypeOK, ConsumerState
    <3> QED
      BY <3>1, <3>2, LeavesBatch
  <2>3. \A d \in Deliveries, v \in Consumers : Steady(v, d)
    BY <2>1, <2>2, LeaveLoopSteady
  <2>4. UNCHANGED <<delivery, accepted, uncertain, holder>>
    BY <1>3 DEF ClaimSelect, dbVars, history
  <2> QED
    BY <1>0, <2>3, <2>4
<1>4. CASE ClaimUpdate(w)
  BY <1>4, ClaimUpdateDeals DEF DealingShape, Dealing
<1>5. CASE ClaimDetails(w)
  BY <1>5, ClaimDetailsDeals DEF DealingShape, Dealing
<1>6. CASE \E d \in Deliveries : JobStep(w, d)
  BY <1>6, JobDeals
<1>7. CASE BatchEnds(w)
  <2>1. UNCHANGED <<delivery, accepted, uncertain, holder>>
    BY <1>7 DEF BatchEnds, dbVars, history
  <2>2. CASE GiveBack(w)
    BY <1>0, <2>1, <2>2, GiveBackSteady DEF GiveBack
  <2>3. CASE consumer' = [consumer EXCEPT ![w].pc = "select", ![w].age = 0]
    <3> DEFINE c == [consumer[w] EXCEPT !.pc = "select", !.age = 0]
    <3>1. consumer' = [consumer EXCEPT ![w] = c]
      BY <2>3 DEF TypeOK
    <3>2. c.pc \notin {"details", "send"}
      BY DEF TypeOK, ConsumerState
    <3>3. \A d \in Deliveries, v \in Consumers : Steady(v, d)
      BY <3>1, <3>2, LeavesBatch
    <3> QED
      BY <1>0, <2>1, <3>3
  <2> QED
    BY <1>7, <2>2, <2>3 DEF BatchEnds
<1>8. CASE SendSweep(w)
  <2> DEFINE c == [consumer[w] EXCEPT !.pc = "complete"]
  <2>1. /\ FailPendingWithoutToken(consumer[w].msg.schedules)
        /\ UNCHANGED <<accepted, uncertain, holder>>
    BY <1>8 DEF SendSweep, history
  <2>2. consumer' = [consumer EXCEPT ![w] = c]
    BY <1>8 DEF SendSweep
  <2>3. c.pc \notin {"details", "send"}
    BY DEF TypeOK, ConsumerState
  <2>4. \A d \in Deliveries, v \in Consumers : Steady(v, d)
    BY <2>2, <2>3, LeavesBatch
  <2> QED
    BY <2>1, <2>4, FailPendingQuiet, AllQuiet DEF RowsTyped, TypeOK
<1>9. CASE MessageEnds(w)
  <2>1. /\ UNCHANGED <<delivery, accepted, uncertain, holder>>
        /\ consumer' = [consumer EXCEPT ![w] = IdleConsumer]
    BY <1>9 DEF MessageEnds, GiveBack, history
  <2> QED
    BY <1>0, <2>1, GiveBackSteady
<1> QED
  BY <1>1, <1>2, <1>3, <1>4, <1>5, <1>6, <1>7, <1>8, <1>9 DEF ConsumerStep

LEMMA Deals ==
  ASSUME TypeOK, AttemptsCounted, [Next]_vars
  PROVE  DealingShape
<1>0. ASSUME UNCHANGED <<delivery, accepted, uncertain, holder>>,
             \A d \in Deliveries, v \in Consumers : Steady(v, d)
      PROVE  DealingShape
  BY <1>0, SameRow, AllQuiet
<1>1. CASE Environment
  <2>1. ASSUME NEW w \in Consumers, ConsumerDies(w) PROVE DealingShape
    BY <1>0, <2>1, GiveBackSteady DEF ConsumerDies, GiveBack, dbVars, history
  <2>2. CASE CronDies \/ \E t \in Tokens : DeleteToken(t) \/ SuspendUser(t) \/ RestoreUser(t)
    BY <1>0, <2>2, AllSteady
    DEF CronDies, DeleteToken, SuspendUser, RestoreUser, dbVars, history
  <2>3. ASSUME NEW s \in Schedules, StopSchedule(s) PROVE DealingShape
    <3>1. UNCHANGED <<consumer, accepted, uncertain, holder>>
      BY <2>3 DEF StopSchedule, history
    <3> QED
      BY <2>3, <3>1, StoppedQuiet, AllSteady, AllQuiet
  <2>4. CASE Tick
    BY <2>4 DEF DealingShape
  <2> QED
    BY <1>1, <2>1, <2>2, <2>3, <2>4 DEF Environment
<1>2. CASE UNCHANGED vars
  BY <1>0, <1>2, AllSteady DEF vars
<1> QED
  BY <1>1, <1>2, CronDeals, ConsumerDeals DEF Next

-----------------------------------------------------------------------------
(* The theorems *)

(* The claim of the consumers and the clean-up of the cron are two SQL     *)
(* texts that partition the due rows: no due row falls through both, and   *)
(* none that may still be sent is given up.                                *)
THEOREM SpecNoStrandedDelivery == Spec => []NoStrandedDelivery
<1>1. Init => WaitsTimed
  BY DEF Init, WaitsTimed, AbsentRow
<1>2. TypeOK /\ AttemptsCounted /\ StatusesAgree /\ WaitsTimed /\ [Next]_vars => WaitsTimed'
  BY Deals, WaitsTimedStep
<1> QED
  BY <1>1, <1>2, SpecTypeOK, SpecStatusesAgree, SpecAttemptsCounted, NothingStranded, PTL
  DEF Spec

(* What a delivery reports is what happened, whatever consumers overtake,  *)
(* crash or throw: `sent` only if FCM took the message, and, unless a      *)
(* lease lapsed or an answer was lost, never twice and never `failed` or   *)
(* `stopped` after FCM took it.                                            *)
THEOREM SpecHonestOutcome == Spec => []HonestOutcome
<1>1. Init => Honesty
  BY DEF Init, Honesty, HonestSoFar, AbsentRow, InStage, Engaged, IdleConsumer
<1>2. TypeOK /\ TypeOK' /\ AttemptsCounted /\ Honesty /\ [Next]_vars => Honesty'
  BY Deals, HonestyStep
<1> QED
  BY <1>1, <1>2, SpecTypeOK, SpecAttemptsCounted, HonestyHonest, PTL DEF Spec

LEMMA SpecFenced == "configuration" \notin Outcomes => (Spec => []Fenced)
<1> SUFFICES ASSUME "configuration" \notin Outcomes PROVE Spec => []Fenced
  OBVIOUS
<1>1. Init => Fenced
  BY DEF Init, Fenced, JobFenced, ClaimFenced, AbsentRow, IdleConsumer
<1>2. TypeOK /\ TypeOK' /\ AttemptsCounted /\ Fenced /\ [Next]_vars => Fenced'
  BY Deals, FencedStep
<1> QED
  BY <1>1, <1>2, SpecTypeOK, SpecAttemptsCounted, PTL DEF Spec

(* A consumer whose claim was taken over writes nothing any more, neither  *)
(* a lease nor a result, as long as FCM reports no configuration error:    *)
(* that answer starts the count of the attempts, which is the fence, anew. *)
THEOREM SpecFenceNamesHolder ==
  "configuration" \notin Outcomes => (Spec => []FenceNamesHolder)
<1> SUFFICES ASSUME "configuration" \notin Outcomes PROVE Spec => []FenceNamesHolder
  OBVIOUS
<1> QED
  BY SpecFenced, FencedNames, PTL

(* While an answer of FCM is awaited within the lease, no other consumer   *)
(* calls FCM for the same row, under the same condition.                   *)
THEOREM SpecFreshLeaseIsExclusive ==
  "configuration" \notin Outcomes => (Spec => []FreshLeaseIsExclusive)
<1> SUFFICES ASSUME "configuration" \notin Outcomes PROVE Spec => []FreshLeaseIsExclusive
  OBVIOUS
<1> QED
  BY SpecFenced, FencedExclusive, PTL
=============================================================================
