------------------------- MODULE PushDeliveryProofs -------------------------
(***************************************************************************)
(* What holds of the sending phase for every number of schedules,          *)
(* deliveries, tokens and consumers, and for every retry policy.           *)
(***************************************************************************)
EXTENDS PushDeliveryProps, FiniteSetTheorems, TLAPS

-----------------------------------------------------------------------------
(* The rows that the statements leave behind *)

LEMMA StatusWords ==
  /\ ActiveStatus \subseteq DeliveryStatus
  /\ TerminalStatus \subseteq DeliveryStatus
  BY DEF DeliveryStatus

LEMMA EndedRow ==
  ASSUME NEW row \in TimedRow, NEW status \in TerminalStatus
  PROVE  /\ Ended(row, status) \in TimedRow
         /\ Ended(row, status).status = status
         /\ Ended(row, status).attempt = row.attempt
<1>1. /\ Ended(row, status) \in DeliveryRow
      /\ Ended(row, status).status = status
      /\ Ended(row, status).attempt = row.attempt
  BY StatusWords DEF Ended, TimedRow, DeliveryRow
<1> QED
  BY <1>1 DEF TimedRow, TerminalStatus

LEMMA PendingRow == [AbsentRow EXCEPT !.status = "pending"] \in TimedRow
  BY DEF AbsentRow, TimedRow, DeliveryRow, DeliveryStatus, ActiveStatus

LEMMA AttemptedRow ==
  ASSUME NEW d \in Deliveries, delivery[d] \in TimedRow, NEW a \in Nat
  PROVE  /\ ClaimedRow(d, a) \in TimedRow
         /\ ClaimedRow(d, a).status = "sending"
         /\ ClaimedRow(d, a).attempt =
              IF delivery[d].config THEN 1 ELSE delivery[d].attempt + 1
<1> DEFINE row == delivery[d]
           first == IF row.config \/ row.first = Null THEN a ELSE row.first
           attempt == IF row.config THEN 1 ELSE row.attempt + 1
<1>1. first \in Nat /\ attempt \in Nat
  BY DEF TimedRow, DeliveryRow
<1>2. ClaimedRow(d, a) = [row EXCEPT !.status = "sending", !.first = first,
                            !.last = a, !.attempt = attempt, !.next = Null,
                            !.config = FALSE]
  BY DEF ClaimedRow, TimedRow, DeliveryRow
<1>3. a # Null /\ first # Null
  BY <1>1, PushConstants
<1> HIDE DEF first, attempt
<1>4. /\ ClaimedRow(d, a) \in TimedRow
      /\ ClaimedRow(d, a).status = "sending"
      /\ ClaimedRow(d, a).attempt = attempt
  BY <1>1, <1>2, <1>3 DEF TimedRow, DeliveryRow, DeliveryStatus, ActiveStatus
<1> QED
  BY <1>4 DEF attempt

LEMMA WaitingRow ==
  ASSUME NEW d \in Deliveries, delivery[d] \in TimedRow,
         NEW isConfig \in BOOLEAN, NEW next \in Int
  PROVE  /\ RetryRow(d, isConfig, next) \in TimedRow
         /\ RetryRow(d, isConfig, next).status =
              IF StatusOf(d) = "stopped" THEN "stopped"
              ELSE IF ~HasToken(d) THEN "failed" ELSE "retry_wait"
         /\ RetryRow(d, isConfig, next).attempt = delivery[d].attempt
<1> DEFINE status == IF StatusOf(d) = "stopped" THEN "stopped"
                     ELSE IF ~HasToken(d) THEN "failed" ELSE "retry_wait"
           wait == IF HasToken(d) /\ StatusOf(d) = "sending" THEN next ELSE Null
<1>1. status \in DeliveryStatus \ {"sending"} /\ wait \in Int \cup {Null}
  BY DEF DeliveryStatus, ActiveStatus, TerminalStatus
<1>2. RetryRow(d, isConfig, next) =
        [delivery[d] EXCEPT !.status = status, !.config = isConfig, !.next = wait]
  BY DEF RetryRow
<1> HIDE DEF status, wait
<1>3. /\ RetryRow(d, isConfig, next) \in TimedRow
      /\ RetryRow(d, isConfig, next).status = status
      /\ RetryRow(d, isConfig, next).attempt = delivery[d].attempt
  BY <1>1, <1>2 DEF TimedRow, DeliveryRow
<1> QED
  BY <1>3 DEF status

LEMMA OlderAge ==
  ASSUME NEW age \in Nat \cup {Null}, NEW cap \in Nat
  PROVE  Older(age, cap) \in Nat \cup {Null} /\ (age # Null => Older(age, cap) # Null)
  BY PushConstants DEF Older

LEMMA OlderRow ==
  ASSUME NEW row \in TimedRow
  PROVE  /\ Aged(row) \in TimedRow
         /\ Aged(row).status = row.status
         /\ Aged(row).attempt = row.attempt
<1> DEFINE first == Older(row.first, FirstCap)
           last == Older(row.last, LastCap)
           next == IF row.next = Null \/ row.next <= -MaxStall THEN row.next
                   ELSE row.next - 1
<1>1. FirstCap \in Nat /\ LastCap \in Nat
  BY PushConstants DEF FirstCap, LastCap
<1>2. /\ row \in DeliveryRow
      /\ row.first \in Nat \cup {Null} /\ row.last \in Nat \cup {Null}
      /\ row.next \in Int \cup {Null}
      /\ row.status = "sending" => row.first # Null /\ row.last # Null
  BY DEF TimedRow, DeliveryRow
<1>3. /\ first \in Nat \cup {Null} /\ last \in Nat \cup {Null}
      /\ row.status = "sending" => first # Null /\ last # Null
  BY <1>1, <1>2, OlderAge
<1>4. next \in Int \cup {Null}
  BY <1>2, PushConstants
<1>5. CASE row.status \notin {"sending", "retry_wait"}
  BY <1>2, <1>5 DEF Aged, TimedRow, DeliveryRow
<1>6. CASE row.status \in {"sending", "retry_wait"}
  <2> DEFINE lease == IF row.status = "sending" THEN last ELSE Null
  <2>1. Aged(row) = [row EXCEPT !.first = first, !.last = lease, !.next = next]
    BY <1>2, <1>6 DEF Aged, DeliveryRow
  <2>2. lease \in Nat \cup {Null} /\ (row.status = "sending" => lease # Null)
    BY <1>3
  <2> HIDE DEF first, next, lease
  <2> QED
    BY <1>2, <1>3, <1>4, <2>1, <2>2 DEF TimedRow, DeliveryRow
<1> QED
  BY <1>5, <1>6

-----------------------------------------------------------------------------
(* The statements several handlers share *)

RowsTyped == delivery \in [Deliveries -> TimedRow]

LEMMA FailPendingType ==
  ASSUME RowsTyped, NEW S, FailPendingWithoutToken(S)
  PROVE  RowsTyped'
  BY EndedRow DEF RowsTyped, FailPendingWithoutToken, TerminalStatus

LEMMA RetireType ==
  ASSUME RowsTyped, NEW age, RetireUnsendableDeliveries(age)
  PROVE  RowsTyped' /\ uncertain' \in [Deliveries -> BOOLEAN]
<1>1. RowsTyped'
  <2> DEFINE status(d) == IF StatusOf(d) = "stopped" THEN "stopped" ELSE "failed"
  <2>1. \A d \in Deliveries : status(d) \in TerminalStatus
    BY DEF TerminalStatus
  <2>2. delivery' = [d \in Deliveries |->
          IF Retirable(d, age) THEN Ended(delivery[d], status(d)) ELSE delivery[d]]
    BY DEF RetireUnsendableDeliveries
  <2> HIDE DEF status
  <2> QED
    BY <2>1, <2>2, EndedRow DEF RowsTyped
<1>2. uncertain' \in [Deliveries -> BOOLEAN]
  BY DEF RetireUnsendableDeliveries
<1> QED
  BY <1>1, <1>2

LEMMA CompleteType ==
  ASSUME schedule \in [Schedules -> ScheduleStatus], NEW S, CompleteIfDone(S)
  PROVE  schedule' \in [Schedules -> ScheduleStatus]
  BY DEF CompleteIfDone, ScheduleStatus

LEMMA ScheduleOfType == \A d \in Deliveries : ScheduleOf[d] \in Schedules
  BY PushConstants

LEMMA RetiredType == \A age : RetiredSchedules(age) \in SUBSET Schedules
  BY ScheduleOfType DEF RetiredSchedules

LEMMA SettleType ==
  ASSUME RowsTyped, NEW w, NEW d \in Deliveries,
         NEW outcome \in TerminalStatus, Settle(w, d, outcome)
  PROVE  RowsTyped'
  BY EndedRow DEF RowsTyped, Settle

LEMMA SaveRetryType ==
  ASSUME RowsTyped, NEW w, NEW d \in Deliveries, NEW isConfig \in BOOLEAN,
         NEW delay \in Int, consumer[w].age \in Int, SaveRetry(w, d, isConfig, delay)
  PROVE  RowsTyped'
<1>1. delay - consumer[w].age \in Int
  OBVIOUS
<1> QED
  BY <1>1, WaitingRow DEF RowsTyped, SaveRetry

-----------------------------------------------------------------------------
(* The states a consumer moves through *)

LEMMA JobsTyped ==
  /\ NoJob \in Job
  /\ \A d \in Deliveries, c \in ConsumerState, stage \in JobStage :
       /\ [c EXCEPT !.job[d].stage = stage] \in ConsumerState
       /\ [c EXCEPT !.job[d] = NoJob] \in ConsumerState
<1>1. NoJob \in Job
  BY DEF NoJob, Job, JobStage
<1>2. ASSUME NEW d \in Deliveries, NEW c \in ConsumerState, NEW stage \in JobStage
      PROVE /\ [c EXCEPT !.job[d].stage = stage] \in ConsumerState
            /\ [c EXCEPT !.job[d] = NoJob] \in ConsumerState
  <2>1. /\ [c.job EXCEPT ![d].stage = stage] \in [Deliveries -> Job]
        /\ [c.job EXCEPT ![d] = NoJob] \in [Deliveries -> Job]
    BY <1>1 DEF ConsumerState, Job
  <2> QED
    BY <2>1 DEF ConsumerState
<1> QED
  BY <1>1, <1>2

ConsumersTyped == consumer \in [Consumers -> ConsumerState]

LEMMA IdleType == IdleConsumer \in ConsumerState
<1>1. [d \in Deliveries |-> NoJob] \in [Deliveries -> Job]
  BY JobsTyped
<1> QED
  BY <1>1 DEF IdleConsumer, ConsumerState, ConsumerPc, NoMessage, Message

LEMMA EnterType ==
  ASSUME ConsumersTyped, NEW w \in Consumers, NEW d \in Deliveries,
         NEW stage \in JobStage, Enter(w, d, stage)
  PROVE  ConsumersTyped'
<1>1. consumer' = [consumer EXCEPT ![w] = [consumer[w] EXCEPT !.job[d].stage = stage]]
  BY DEF Enter
<1> QED
  BY <1>1, JobsTyped DEF ConsumersTyped

LEMMA EndJobType ==
  ASSUME ConsumersTyped, NEW w \in Consumers, NEW d \in Deliveries, EndJob(w, d)
  PROVE  ConsumersTyped'
<1>1. consumer' = [consumer EXCEPT ![w] = [consumer[w] EXCEPT !.job[d] = NoJob]]
  BY DEF EndJob
<1>2. "none" \in JobStage
  BY DEF JobStage
<1> QED
  BY <1>1, <1>2, JobsTyped DEF ConsumersTyped

LEMMA LeaveLoopType ==
  ASSUME ConsumersTyped, NEW w \in Consumers, LeaveLoop(w)
  PROVE  ConsumersTyped'
<1> DEFINE pc == IF IsRetry(w) THEN "complete" ELSE "sweep"
           left == [consumer[w] EXCEPT !.pc = pc, !.age = 0, !.ids = {}, !.claimed = 0]
<1>1. consumer' = [consumer EXCEPT ![w] = left]
  BY DEF LeaveLoop
<1>2. pc \in ConsumerPc
  BY DEF ConsumerPc
<1> HIDE DEF pc
<1>3. left \in ConsumerState
  BY <1>2 DEF ConsumersTyped, ConsumerState
<1> HIDE DEF left
<1> QED
  BY <1>1, <1>3 DEF ConsumersTyped

LEMMA GiveBackType ==
  ASSUME ConsumersTyped, queue \in SUBSET Message, NEW w \in Consumers, GiveBack(w)
  PROVE  ConsumersTyped' /\ queue' \in SUBSET Message
<1>1. consumer[w].msg \in Message
  BY DEF ConsumersTyped, ConsumerState
<1> QED
  BY <1>1, IdleType DEF GiveBack, ConsumersTyped

LEMMA AcceptType ==
  ASSUME ConsumersTyped, queue \in SUBSET Message, NEW w \in Consumers,
         NEW m \in queue, NEW touched \in SUBSET Schedules, Accept(w, m, touched)
  PROVE  ConsumersTyped' /\ queue' \in SUBSET Message
<1> DEFINE begun == [IdleConsumer EXCEPT !.pc = "select", !.msg = m, !.touched = touched]
<1>1. begun \in ConsumerState
  BY IdleType DEF ConsumerState, ConsumerPc
<1>2. consumer' = [consumer EXCEPT ![w] = begun] /\ queue' = queue \ {m}
  BY DEF Accept
<1> HIDE DEF begun
<1> QED
  BY <1>1, <1>2 DEF ConsumersTyped

-----------------------------------------------------------------------------
(* Every step keeps the types *)

LEMMA RetryCronType ==
  ASSUME TypeOK, RetryCronStep
  PROVE  TypeOK'
<1>0. CASE RetryCronBegin
  <2>1. retryCron' \in RetryCronState
    BY <1>0 DEF RetryCronBegin, RetryCronState, TypeOK
  <2> QED
    BY <1>0, <2>1 DEF RetryCronBegin, TypeOK, history, dbVars
<1>1. CASE RetryCronRetire
  <2>1. retryCron' \in RetryCronState
    BY <1>1, RetiredType DEF RetryCronRetire, RetryCronState, TypeOK
  <2> QED
    BY <1>1, <2>1, RetireType DEF RetryCronRetire, TypeOK, RowsTyped
<1>2. CASE RetryCronComplete
  <2>1. retryCron' \in RetryCronState
    BY <1>2 DEF RetryCronComplete, RetryCronState, TypeOK
  <2> QED
    BY <1>2, <2>1, CompleteType DEF RetryCronComplete, TypeOK, history
<1>3. CASE RetryCronEnqueue
  <2>1. retryCron' \in RetryCronState
    BY <1>3 DEF RetryCronEnqueue, IdleRetryCron, RetryCronState
  <2>2. queue' \in SUBSET Message
    BY <1>3 DEF RetryCronEnqueue, Message, TypeOK
  <2> QED
    BY <1>3, <2>1, <2>2 DEF RetryCronEnqueue, TypeOK, history, dbVars
<1> QED
  BY <1>0, <1>1, <1>2, <1>3 DEF RetryCronStep

LEMMA ReadyCronType ==
  ASSUME TypeOK, ReadyCronStep
  PROVE  TypeOK'
<1>1. CASE ReadyCronFind
  <2>1. readyCron' \in ReadyCronState
    BY <1>1 DEF ReadyCronFind, ReadyCronState, ReadyStage, TypeOK
  <2> QED
    BY <1>1, <2>1 DEF ReadyCronFind, TypeOK, history, dbVars
<1>2. CASE ReadyCronEnqueue
  <2>1. readyCron' \in ReadyCronState
    BY <1>2 DEF ReadyCronEnqueue, IdleReadyCron, ReadyCronState, ReadyStage
  <2>2. queue' \in SUBSET Message
    BY <1>2 DEF ReadyCronEnqueue, Message, TypeOK, ReadyCronState
  <2> QED
    BY <1>2, <2>1, <2>2 DEF ReadyCronEnqueue, TypeOK, history, dbVars
<1>3. ASSUME NEW s \in Schedules, ReadyCronPrepare(s) PROVE TypeOK'
  <2>1. readyCron' \in ReadyCronState
    BY <1>3 DEF ReadyCronPrepare, ReadyCronState, ReadyStage, TypeOK
  <2>2. delivery' \in [Deliveries -> TimedRow]
    BY <1>3, PendingRow DEF ReadyCronPrepare, TypeOK
  <2>3. schedule' \in [Schedules -> ScheduleStatus]
    BY <1>3 DEF ReadyCronPrepare, TypeOK, ScheduleStatus
  <2> QED
    BY <1>3, <2>1, <2>2, <2>3 DEF ReadyCronPrepare, TypeOK, history
<1>4. ASSUME NEW s \in Schedules, ReadyCronPrepareFails(s) PROVE TypeOK'
  <2>1. readyCron' \in ReadyCronState
    BY <1>4 DEF ReadyCronPrepareFails, ReadyCronState, ReadyStage, TypeOK
  <2>2. upsets' \in 0 .. MaxUpsets
    BY <1>4, PushConstants DEF ReadyCronPrepareFails, TypeOK
  <2> QED
    BY <1>4, <2>1, <2>2 DEF ReadyCronPrepareFails, TypeOK, history, dbVars
<1>5. ASSUME NEW s \in Schedules, ReadyCronMarkFailed(s) PROVE TypeOK'
  <2>1. readyCron' \in ReadyCronState
    BY <1>5 DEF ReadyCronMarkFailed, ReadyCronState, ReadyStage, TypeOK
  <2>2. schedule' \in [Schedules -> ScheduleStatus]
    BY <1>5 DEF ReadyCronMarkFailed, TypeOK, ScheduleStatus
  <2> QED
    BY <1>5, <2>1, <2>2 DEF ReadyCronMarkFailed, TypeOK, history
<1>6. ASSUME NEW s \in Schedules, ReadyCronSweep(s) PROVE TypeOK'
  <2>1. readyCron' \in ReadyCronState
    BY <1>6 DEF ReadyCronSweep, ReadyCronState, ReadyStage, TypeOK
  <2> QED
    BY <1>6, <2>1, FailPendingType DEF ReadyCronSweep, TypeOK, history, RowsTyped
<1>7. ASSUME NEW s \in Schedules, ReadyCronCount(s) PROVE TypeOK'
  <2>1. readyCron' \in ReadyCronState
    BY <1>7 DEF ReadyCronCount, ReadyCronState, ReadyStage, TypeOK
  <2>2. schedule' \in [Schedules -> ScheduleStatus]
    BY <1>7, CompleteType DEF ReadyCronCount, TypeOK
  <2> QED
    BY <1>7, <2>1, <2>2 DEF ReadyCronCount, TypeOK, history
<1> QED
  BY <1>1, <1>2, <1>3, <1>4, <1>5, <1>6, <1>7 DEF ReadyCronStep

LEMMA ClaimType ==
  ASSUME TypeOK, NEW w \in Consumers,
         \/ SendStart(w) \/ RetryStart(w)
         \/ ClaimSelect(w) \/ ClaimUpdate(w) \/ ClaimDetails(w)
  PROVE  TypeOK'
<1> USE DEF RowsTyped, ConsumersTyped
<1>0. consumer[w] \in ConsumerState
  BY DEF TypeOK
<1>1. CASE SendStart(w)
  <2>1. PICK m \in queue : FailPendingWithoutToken(m.schedules) /\ Accept(w, m, {})
    BY <1>1 DEF SendStart
  <2> QED
    BY <1>1, <2>1, FailPendingType, AcceptType DEF SendStart, TypeOK, history
<1>2. CASE RetryStart(w)
  <2>1. PICK m \in queue : Accept(w, m, RetiredSchedules(0))
    BY <1>2 DEF RetryStart
  <2> QED
    BY <1>2, <2>1, RetireType, AcceptType, RetiredType DEF RetryStart, TypeOK
<1>3. CASE ClaimSelect(w)
  <2>1. CASE LeaveLoop(w)
    BY <1>3, <2>1, LeaveLoopType DEF ClaimSelect, TypeOK, history, dbVars
  <2>2. CASE ~LeaveLoop(w)
    <3>1. PICK cand \in SUBSET Deliveries :
            consumer' = [consumer EXCEPT ![w].pc = "claim", ![w].age = 0, ![w].ids = cand]
      BY <1>3, <2>2 DEF ClaimSelect
    <3> DEFINE next == [consumer[w] EXCEPT !.pc = "claim", !.age = 0, !.ids = cand]
    <3>2. next \in ConsumerState
      BY <1>0 DEF ConsumerState, ConsumerPc
    <3>3. consumer' = [consumer EXCEPT ![w] = next]
      BY <3>1
    <3> HIDE DEF next
    <3> QED
      BY <1>3, <3>2, <3>3 DEF ClaimSelect, TypeOK, history, dbVars
  <2> QED
    BY <2>1, <2>2
<1>4. CASE ClaimUpdate(w)
  <2> DEFINE won == {d \in consumer[w].ids : Eligible(w, d, consumer[w].age)}
             next == [consumer[w] EXCEPT !.pc = "details", !.ids = won]
  <2>1. consumer[w].age \in Nat /\ consumer[w].ids \in SUBSET Deliveries
    BY DEF TypeOK, ConsumerState
  <2>2. delivery' \in [Deliveries -> TimedRow]
    BY <1>4, <2>1, AttemptedRow DEF ClaimUpdate, TypeOK
  <2>3. uncertain' \in [Deliveries -> BOOLEAN]
    BY <1>4 DEF ClaimUpdate
  <2>4. holder' \in [Deliveries -> SUBSET Consumers]
    BY <1>4 DEF ClaimUpdate, TypeOK
  <2>5. consumer' \in [Consumers -> ConsumerState]
    <3>1. won \in SUBSET Deliveries
      BY <2>1
    <3>2. LeaveLoop(w) \/ consumer' = [consumer EXCEPT ![w] = next]
      BY <1>4 DEF ClaimUpdate
    <3> HIDE DEF won
    <3>3. next \in ConsumerState
      BY <1>0, <3>1 DEF ConsumerState, ConsumerPc
    <3> HIDE DEF next
    <3> QED
      BY <3>2, <3>3, LeaveLoopType DEF TypeOK
  <2> QED
    BY <1>4, <2>2, <2>3, <2>4, <2>5 DEF ClaimUpdate, TypeOK
<1>5. CASE ClaimDetails(w)
  <2> DEFINE rows == {d \in consumer[w].ids : /\ delivery[d].status = "sending"
                                             /\ delivery[d].last = consumer[w].age
                                             /\ HasToken(d)}
             claimed == IF IsRetry(w) THEN consumer[w].claimed
                        ELSE consumer[w].claimed + Cardinality(rows)
             touched == IF IsRetry(w)
                          THEN consumer[w].touched \cup {ScheduleOf[d] : d \in rows}
                          ELSE consumer[w].touched
             job == [d \in Deliveries |->
                      IF d \in rows
                        THEN [stage |-> "claimed", attempt |-> delivery[d].attempt,
                              elapsed |-> delivery[d].first - consumer[w].age]
                        ELSE NoJob]
             next == [consumer[w] EXCEPT !.pc = "send", !.ids = {}, !.claimed = claimed,
                                         !.touched = touched, !.job = job]
  <2>1. /\ consumer[w].ids \in SUBSET Deliveries /\ consumer[w].touched \in SUBSET Schedules
        /\ consumer[w].claimed \in Nat /\ consumer[w].age \in Nat
    BY <1>0 DEF ConsumerState
  <2>2. rows \in SUBSET Deliveries
    BY <2>1
  <2>3. claimed \in Nat
    BY <2>1, <2>2, FS_Subset, FS_CardinalityType, PushConstants
  <2>4. touched \in SUBSET Schedules
    BY <2>1, <2>2, ScheduleOfType
  <2>5. job \in [Deliveries -> Job]
    <3>1. ASSUME NEW d \in rows
          PROVE [stage |-> "claimed", attempt |-> delivery[d].attempt,
                 elapsed |-> delivery[d].first - consumer[w].age] \in Job
      <4>1. delivery[d] \in TimedRow /\ delivery[d].status = "sending"
        BY <2>2 DEF TypeOK
      <4>2. delivery[d].attempt \in Nat /\ delivery[d].first \in Nat
        BY <4>1 DEF TimedRow, DeliveryRow
      <4> QED
        BY <2>1, <4>2 DEF Job, JobStage
    <3> HIDE DEF rows
    <3> QED
      BY <3>1, JobsTyped
  <2>6. LeaveLoop(w) \/ consumer' = [consumer EXCEPT ![w] = Loaded(w, rows)]
    BY <1>5 DEF ClaimDetails
  <2>9. Loaded(w, rows) = next
    BY DEF Loaded
  <2> HIDE DEF claimed, touched, job, rows
  <2>7. next \in ConsumerState
    BY <1>0, <2>3, <2>4, <2>5 DEF ConsumerState, ConsumerPc
  <2> HIDE DEF next
  <2>8. consumer' \in [Consumers -> ConsumerState]
    BY <2>6, <2>7, <2>9, LeaveLoopType DEF TypeOK
  <2> QED
    BY <1>5, <2>8 DEF ClaimDetails, TypeOK, history, dbVars
<1> QED
  BY <1>1, <1>2, <1>3, <1>4, <1>5

LEMMA OutcomeType ==
  ASSUME TypeOK, NEW w \in Consumers, NEW d \in Deliveries,
         \/ MarkFailed(w, d)
         \/ \E isConfig \in BOOLEAN, delay \in Int : SaveRetry(w, d, isConfig, delay)
  PROVE  /\ delivery' \in [Deliveries -> TimedRow]
         /\ consumer' \in [Consumers -> ConsumerState]
         /\ UNCHANGED <<schedule, token, active, queue, retryCron, readyCron>>
<1> USE DEF RowsTyped, ConsumersTyped
<1>1. consumer' \in [Consumers -> ConsumerState]
  BY EndJobType DEF MarkFailed, SaveRetry, TypeOK
<1>2. consumer[w].age \in Int
  BY DEF TypeOK, ConsumerState
<1>3. delivery' \in [Deliveries -> TimedRow]
  <2>1. CASE MarkFailed(w, d)
    BY <2>1, SettleType DEF MarkFailed, TypeOK, TerminalStatus
  <2>2. CASE \E isConfig \in BOOLEAN, delay \in Int : SaveRetry(w, d, isConfig, delay)
    BY <1>2, <2>2, SaveRetryType DEF TypeOK
  <2> QED
    BY <2>1, <2>2
<1> QED
  BY <1>1, <1>3 DEF MarkFailed, SaveRetry

(* A temporary error ends as a saved retry or as a failure. *)
LEMMA TemporaryEnds ==
  ASSUME TypeOK, NEW w \in Consumers, NEW d \in Deliveries, HandleTemporary(w, d)
  PROVE  \/ MarkFailed(w, d)
         \/ \E isConfig \in BOOLEAN, delay \in Int : SaveRetry(w, d, isConfig, delay)
<1> DEFINE elapsed == consumer[w].job[d].elapsed
           delay(milestone, after) ==
             IF milestone - elapsed >= after THEN milestone - elapsed ELSE after
<1>1. elapsed \in Int
  <2>1. consumer[w] \in ConsumerState
    BY DEF TypeOK
  <2>2. consumer[w].job[d] \in Job
    BY <2>1 DEF ConsumerState
  <2> QED
    BY <2>2 DEF Job
<1>2. \A milestone \in Offsets, after \in RetryAfters : delay(milestone, after) \in Int
  BY <1>1, PushConstants
<1>3. \/ MarkFailed(w, d)
      \/ \E milestone \in Offsets, after \in RetryAfters :
           SaveRetry(w, d, FALSE, delay(milestone, after))
  BY DEF HandleTemporary
<1> HIDE DEF delay
<1> QED
  BY <1>2, <1>3

LEMMA JobType ==
  ASSUME TypeOK, NEW w \in Consumers, NEW d \in Deliveries, JobStep(w, d)
  PROVE  TypeOK'
<1> USE DEF RowsTyped, ConsumersTyped
<1>1. CASE RenewDeliveryLease(w, d)
  <2>1. consumer[w].age \in Nat /\ consumer[w].age # Null /\ delivery[d] \in TimedRow
    BY PushConstants DEF TypeOK, ConsumerState
  <2>2. [delivery[d] EXCEPT !.last = consumer[w].age] \in TimedRow
    BY <2>1 DEF TimedRow, DeliveryRow
  <2>3. \/ delivery' = [delivery EXCEPT ![d] = [delivery[d] EXCEPT !.last = consumer[w].age]]
        \/ delivery' = delivery
    BY <1>1 DEF RenewDeliveryLease
  <2>4. delivery' \in [Deliveries -> TimedRow]
    BY <2>2, <2>3 DEF TypeOK
  <2>5. consumer' \in [Consumers -> ConsumerState]
    BY <1>1, EnterType, EndJobType DEF RenewDeliveryLease, TypeOK, JobStage
  <2> QED
    BY <1>1, <2>4, <2>5 DEF RenewDeliveryLease, TypeOK, history
<1>2. CASE FcmAccepts(w, d)
  <2>1. consumer' \in [Consumers -> ConsumerState]
    BY <1>2, EnterType DEF FcmAccepts, TypeOK, JobStage
  <2> QED
    BY <1>2, <2>1 DEF FcmAccepts, CountAccepted, TypeOK, dbVars
<1>3. CASE MarkSent(w, d)
  <2>1. delivery' \in [Deliveries -> TimedRow]
    BY <1>3, SettleType DEF MarkSent, TypeOK, TerminalStatus
  <2>2. consumer' \in [Consumers -> ConsumerState]
    BY <1>3, EndJobType DEF MarkSent, TypeOK
  <2> QED
    BY <1>3, <2>1, <2>2 DEF MarkSent, TypeOK, history
<1>4. CASE FcmTemporaryError(w, d)
  BY <1>4, OutcomeType, TemporaryEnds DEF FcmTemporaryError, TypeOK, history
<1>5. CASE FcmAnswerLost(w, d)
  <2>1. /\ accepted' \in [Deliveries -> 0 .. 2]
        /\ uncertain' \in [Deliveries -> BOOLEAN]
    BY <1>5 DEF FcmAnswerLost, CountAccepted, TypeOK
  <2> QED
    BY <1>5, <2>1, OutcomeType, TemporaryEnds DEF FcmAnswerLost, TypeOK
<1>6. CASE FcmPermanentError(w, d)
  BY <1>6, OutcomeType DEF FcmPermanentError, TypeOK, history
<1>7. CASE FcmUnregistered(w, d)
  <2>1. consumer' \in [Consumers -> ConsumerState]
    BY <1>7, EnterType DEF FcmUnregistered, TypeOK, JobStage
  <2> QED
    BY <1>7, <2>1 DEF FcmUnregistered, TypeOK, history
<1>8. CASE MarkRejected(w, d)
  BY <1>8, OutcomeType DEF MarkRejected, TypeOK, history
<1>9. CASE FcmConfigurationError(w, d)
  <2>1. upsets' \in 0 .. MaxUpsets
    BY <1>9, PushConstants DEF FcmConfigurationError, TypeOK
  <2>2. SaveRetry(w, d, TRUE, ConfigDelay)
    BY <1>9 DEF FcmConfigurationError
  <2>3. ConfigDelay \in Int
    BY PushConstants
  <2> QED
    BY <1>9, <2>1, <2>2, <2>3, OutcomeType DEF FcmConfigurationError, TypeOK, history
<1>10. CASE JobThrows(w, d)
  <2> DEFINE next == [consumer[w] EXCEPT !.job[d] = NoJob, !.error = TRUE]
  <2>1. consumer[w] \in ConsumerState
    BY DEF TypeOK
  <2>2. [consumer[w].job EXCEPT ![d] = NoJob] \in [Deliveries -> Job]
    BY <2>1, JobsTyped DEF ConsumerState
  <2>3. next \in ConsumerState
    BY <2>1, <2>2 DEF ConsumerState
  <2>4. consumer' = [consumer EXCEPT ![w] = next]
    BY <1>10 DEF JobThrows
  <2>5. upsets' \in 0 .. MaxUpsets
    BY <1>10, PushConstants DEF JobThrows, TypeOK
  <2> HIDE DEF next
  <2> QED
    BY <1>10, <2>3, <2>4, <2>5 DEF JobThrows, TypeOK, history, dbVars
<1> QED
  BY <1>1, <1>2, <1>3, <1>4, <1>5, <1>6, <1>7, <1>8, <1>9, <1>10 DEF JobStep

LEMMA MessageEndType ==
  ASSUME TypeOK, NEW w \in Consumers, BatchEnds(w) \/ SendSweep(w) \/ MessageEnds(w)
  PROVE  TypeOK'
<1> USE DEF RowsTyped, ConsumersTyped
<1>0. consumer[w] \in ConsumerState
  BY DEF TypeOK
<1>1. CASE BatchEnds(w)
  <2> DEFINE next == [consumer[w] EXCEPT !.pc = "select", !.age = 0]
  <2>1. next \in ConsumerState
    BY <1>0 DEF ConsumerState, ConsumerPc
  <2>2. GiveBack(w) \/ (consumer' = [consumer EXCEPT ![w] = next] /\ UNCHANGED queue)
    BY <1>1 DEF BatchEnds
  <2> HIDE DEF next
  <2> QED
    BY <1>1, <2>1, <2>2, GiveBackType DEF BatchEnds, TypeOK, history, dbVars
<1>2. CASE SendSweep(w)
  <2> DEFINE next == [consumer[w] EXCEPT !.pc = "complete"]
  <2>1. next \in ConsumerState
    BY <1>0 DEF ConsumerState, ConsumerPc
  <2>2. consumer' = [consumer EXCEPT ![w] = next]
    BY <1>2 DEF SendSweep
  <2>3. FailPendingWithoutToken(consumer[w].msg.schedules)
    BY <1>2 DEF SendSweep
  <2> HIDE DEF next
  <2> QED
    BY <1>2, <2>1, <2>2, <2>3, FailPendingType DEF SendSweep, TypeOK, history
<1>3. CASE MessageEnds(w)
  <2>1. schedule' \in [Schedules -> ScheduleStatus]
    BY <1>3, CompleteType DEF MessageEnds, TypeOK
  <2>2. GiveBack(w) \/ (consumer' = [consumer EXCEPT ![w] = IdleConsumer] /\ UNCHANGED queue)
    BY <1>3 DEF MessageEnds
  <2> QED
    BY <1>3, <2>1, <2>2, GiveBackType, IdleType DEF MessageEnds, TypeOK, history
<1> QED
  BY <1>1, <1>2, <1>3

LEMMA EnvironmentType ==
  ASSUME TypeOK, Environment
  PROVE  TypeOK'
<1> USE DEF RowsTyped, ConsumersTyped
<1>1. ASSUME NEW w \in Consumers, ConsumerDies(w) PROVE TypeOK'
  <2>1. upsets' \in 0 .. MaxUpsets
    BY <1>1, PushConstants DEF ConsumerDies, TypeOK
  <2> QED
    BY <1>1, <2>1, GiveBackType DEF ConsumerDies, TypeOK, history, dbVars
<1>2. CASE CronDies
  <2>1. upsets' \in 0 .. MaxUpsets
    BY <1>2, PushConstants DEF CronDies, TypeOK
  <2>2. IdleRetryCron \in RetryCronState /\ IdleReadyCron \in ReadyCronState
    BY DEF IdleRetryCron, RetryCronState, IdleReadyCron, ReadyCronState, ReadyStage
  <2> QED
    BY <1>2, <2>1, <2>2 DEF CronDies, TypeOK, history, dbVars
<1>3. ASSUME NEW s \in Schedules, StopSchedule(s) PROVE TypeOK'
  <2>1. ASSUME NEW d \in Deliveries
        PROVE [delivery[d] EXCEPT !.status = "stopped", !.next = Null] \in TimedRow
    <3>1. delivery[d] \in TimedRow
      BY DEF TypeOK
    <3>2. "stopped" \in DeliveryStatus
      BY DEF DeliveryStatus, TerminalStatus
    <3> QED
      BY <3>1, <3>2 DEF TimedRow, DeliveryRow
  <2>2. delivery' \in [Deliveries -> TimedRow]
    BY <1>3, <2>1 DEF StopSchedule, TypeOK
  <2>3. schedule' \in [Schedules -> ScheduleStatus]
    BY <1>3 DEF StopSchedule, TypeOK, ScheduleStatus
  <2> QED
    BY <1>3, <2>2, <2>3 DEF StopSchedule, TypeOK, history
<1>4. ASSUME NEW t \in Tokens, DeleteToken(t) \/ SuspendUser(t) \/ RestoreUser(t)
      PROVE TypeOK'
  <2>1. CASE DeleteToken(t)
    BY <2>1 DEF DeleteToken, TypeOK, history
  <2>2. CASE SuspendUser(t)
    <3>1. upsets' \in 0 .. MaxUpsets
      BY <2>2, PushConstants DEF SuspendUser, TypeOK
    <3> QED
      BY <2>2, <3>1 DEF SuspendUser, TypeOK, history
  <2>3. CASE RestoreUser(t)
    BY <2>3 DEF RestoreUser, TypeOK, history
  <2> QED
    BY <1>4, <2>1, <2>2, <2>3
<1>5. CASE Tick
  <2>1. delivery' \in [Deliveries -> TimedRow]
    BY <1>5, OlderRow DEF Tick, TypeOK
  <2>2. consumer' \in [Consumers -> ConsumerState]
    <3>1. ASSUME NEW c \in ConsumerState PROVE [c EXCEPT !.age = @ + 1] \in ConsumerState
      BY DEF ConsumerState
    <3> QED
      BY <1>5, <3>1 DEF Tick, TypeOK
  <2>3. retryCron' \in RetryCronState
    <3>1. [retryCron EXCEPT !.age = @ + 1] \in RetryCronState
      BY DEF TypeOK, RetryCronState
    <3> QED
      BY <1>5, <3>1 DEF Tick, TypeOK
  <2> QED
    BY <1>5, <2>1, <2>2, <2>3 DEF Tick, TypeOK, history
<1> QED
  BY <1>1, <1>2, <1>3, <1>4, <1>5 DEF Environment

LEMMA InitType == Init => TypeOK
<1> SUFFICES ASSUME Init PROVE TypeOK
  OBVIOUS
<1>1. AbsentRow \in TimedRow
  BY DEF AbsentRow, TimedRow, DeliveryRow, DeliveryStatus
<1>2. IdleRetryCron \in RetryCronState /\ IdleReadyCron \in ReadyCronState
  BY DEF IdleRetryCron, RetryCronState, IdleReadyCron, ReadyCronState, ReadyStage
<1>3. 0 \in 0 .. MaxUpsets
  BY PushConstants
<1> QED
  BY <1>1, <1>2, <1>3, IdleType DEF Init, TypeOK, ScheduleStatus

LEMMA StepType == TypeOK /\ [Next]_vars => TypeOK'
<1> SUFFICES ASSUME TypeOK, [Next]_vars PROVE TypeOK'
  OBVIOUS
<1>1. CASE RetryCronStep
  BY <1>1, RetryCronType
<1>2. CASE ReadyCronStep
  BY <1>2, ReadyCronType
<1>3. ASSUME NEW w \in Consumers, ConsumerStep(w) PROVE TypeOK'
  BY <1>3, ClaimType, JobType, MessageEndType DEF ConsumerStep
<1>4. CASE Environment
  BY <1>4, EnvironmentType
<1>5. CASE UNCHANGED vars
  BY <1>5 DEF vars, TypeOK
<1> QED
  BY <1>1, <1>2, <1>3, <1>4, <1>5 DEF Next

(* Whatever crons, consumers, admins and faults do, every variable keeps   *)
(* its type and a row in flight keeps the times its lease is judged by.    *)
THEOREM SpecTypeOK == Spec => []TypeOK
  BY InitType, StepType, PTL DEF Spec
=============================================================================
