---------------------------- MODULE PushDelivery ----------------------------
(***************************************************************************)
(* The sending phase of a notification schedule: the rows of               *)
(* notification_push_deliveries, the two minute crons that feed the        *)
(* delivery queue, the queue consumers that claim rows under a lease and   *)
(* call FCM, the admin stop, and the token and user changes they race      *)
(* with.  A D1 statement or batch is one step; whatever the code awaits    *)
(* between two statements may interleave.                                  *)
(*                                                                         *)
(* Time is kept as ages, in ticks: a row knows how long ago it was first   *)
(* and last attempted and how long it still has to wait, a consumer knows  *)
(* how long ago it read its clock.  Ages stop growing once no comparison   *)
(* can tell them apart, so that time itself is unbounded.                  *)
(***************************************************************************)
EXTENDS Integers, FiniteSets

CONSTANTS
  Schedules,     \* notification_schedules whose recipients are resolved
  Deliveries,    \* the possible (recipient, token) rows
  Tokens,        \* firebase_tokens rows (an id is never reused)
  Consumers,     \* concurrent invocations of the queue handler
  ScheduleOf,    \* Deliveries -> Schedules
  TokenOf,       \* Deliveries -> Tokens
  Offsets,       \* FCM_RETRY_OFFSETS_SECONDS, in ticks
  Window,        \* FCM_RETRY_WINDOW_SECONDS
  Timeout,       \* FCM_PROCESSING_TIMEOUT_SECONDS, the lease
  ConfigDelay,   \* FCM_CONFIG_RETRY_DELAY_SECONDS
  RetryAfters,   \* delays a rate limit or a Retry-After header may ask for
  Outcomes,      \* answers FCM may give, a subset of AllOutcomes
  BatchSize,     \* MAX_CONCURRENT_FCM_REQUESTS, rows claimed at a time
  ClaimLimit,    \* NOTIFICATION_PUSH_DELIVERY_CANDIDATE_LIMIT per message
  Null,          \* an SQL NULL in a column that holds a time
  MaxStall,      \* bound: ticks an invocation outlives its last clock reading
  MaxUpsets      \* bound: crashes, DB errors, config errors, suspensions

AllOutcomes ==
  {"accepted", "lost", "temporary", "permanent", "unregistered", "configuration"}

MaxAttempts == Cardinality(Offsets) + 1

ASSUME PushConstants ==
  /\ IsFiniteSet(Deliveries)
  /\ ScheduleOf \in [Deliveries -> Schedules]
  /\ TokenOf \in [Deliveries -> Tokens]
  /\ IsFiniteSet(Offsets) /\ Offsets \subseteq Nat \ {0}
  /\ Window \in Nat /\ \A o \in Offsets : o <= Window
  /\ Timeout \in Nat /\ ConfigDelay \in Nat
  /\ RetryAfters \subseteq Nat
  /\ Outcomes \subseteq AllOutcomes
  /\ BatchSize \in Nat \ {0} /\ ClaimLimit \in Nat \ {0}
  /\ Null \notin Int
  /\ MaxStall \in Nat /\ MaxUpsets \in Nat

VARIABLES
  schedule,    \* send_status of each schedule
  delivery,    \* the row of each delivery
  token,       \* whether the firebase_tokens row exists
  active,      \* whether the owner of the token is a live, undeleted user
  queue,       \* messages in the delivery queue
  consumer,    \* state of each queue handler invocation
  retryCron,   \* the cron that retires and re-enqueues due rows
  readyCron,   \* the cron that prepares and enqueues schedules
  upsets,      \* disturbances so far, at most MaxUpsets
  accepted,    \* history: FCM requests accepted per delivery, counted to 2
  uncertain,   \* history: a lease lapsed or an FCM answer was lost
  holder       \* history: the consumer that claimed the row last

dbVars == <<schedule, delivery, token, active>>
history == <<accepted, uncertain, holder>>
vars == <<schedule, delivery, token, active, queue, consumer,
          retryCron, readyCron, upsets, accepted, uncertain, holder>>

-----------------------------------------------------------------------------
(* Rows, messages and invocations *)

ScheduleStatus == {"resolving", "sending", "completed", "failed", "stopped"}
ActiveStatus == {"pending", "sending", "retry_wait"}
TerminalStatus == {"sent", "failed", "stopped"}
DeliveryStatus == {"absent"} \cup ActiveStatus \cup TerminalStatus

FirstCap == Window + MaxStall + 1
LastCap == Timeout + MaxStall + 1

DeliveryRow ==
  [status: DeliveryStatus,
   attempt: Nat,                 \* attempt_count
   first: Nat \cup {Null},       \* age of first_attempt_at
   last: Nat \cup {Null},        \* age of last_attempt_at, the lease
   next: Int \cup {Null},        \* time left until next_retry_at
   config: BOOLEAN]              \* failed_reason = FCM_CONFIG_BLOCKED

AbsentRow == [status |-> "absent", attempt |-> 0, first |-> Null,
              last |-> Null, next |-> Null, config |-> FALSE]

(* NotificationDeliveryMessage: retry # {} is a retryDeliveryIds message. *)
Message == [schedules: SUBSET Schedules, retry: SUBSET Deliveries]
NoMessage == [schedules |-> {}, retry |-> {}]

JobStage == {"none", "claimed", "calling", "accepted", "rejected"}
Job == [stage: JobStage, attempt: Nat, elapsed: Int]
NoJob == [stage |-> "none", attempt |-> 0, elapsed |-> 0]

ConsumerPc == {"idle", "select", "claim", "details", "send",
               "sweep", "complete"}
ConsumerState ==
  [pc: ConsumerPc, msg: Message, age: Nat, ids: SUBSET Deliveries,
   claimed: Nat, touched: SUBSET Schedules, error: BOOLEAN,
   job: [Deliveries -> Job]]
IdleConsumer ==
  [pc |-> "idle", msg |-> NoMessage, age |-> 0, ids |-> {}, claimed |-> 0,
   touched |-> {}, error |-> FALSE, job |-> [d \in Deliveries |-> NoJob]]

RetryCronState ==
  [pc: {"idle", "retire", "complete", "enqueue"}, retired: SUBSET Schedules, age: Nat]
ReadyStage == {"none", "prepare", "markFailed", "sweep", "count"}
ReadyCronState ==
  [stage: [Schedules -> ReadyStage], queued: SUBSET Schedules]
IdleRetryCron == [pc |-> "idle", retired |-> {}, age |-> 0]
IdleReadyCron == [stage |-> [s \in Schedules |-> "none"], queued |-> {}]

-----------------------------------------------------------------------------
(* Conditions the SQL statements share *)

DeliveriesOf(s) == {d \in Deliveries : ScheduleOf[d] = s}
StatusOf(d) == schedule[ScheduleOf[d]]

(* firebase_token_id: the foreign key is SET NULL when the token goes. *)
HasToken(d) == token[TokenOf[d]]

(* sendableRecipientSql: the token still belongs to an active user. *)
Sendable(d) == HasToken(d) /\ active[TokenOf[d]]

(* Times are compared with the clock the statement binds, read `age` ago. *)
WithinWindow(d, age) ==
  delivery[d].first # Null /\ delivery[d].first - age <= Window

(* Mutant: a lease lapses a tick early. *)
LeaseLapsedEarly(d, age) ==
  delivery[d].status = "sending" /\ delivery[d].last - age >= Timeout

LeaseLapsed(d, age) ==
  delivery[d].status = "sending" /\ delivery[d].last - age > Timeout
RetryDue(d, age) ==
  /\ delivery[d].status = "retry_wait"
  /\ delivery[d].next # Null /\ delivery[d].next + age <= 0

(* The eligibility of claimPendingDeliveries and of claimRetryDeliveries. *)
PendingEligible(d) ==
  /\ delivery[d].status = "pending"
  /\ StatusOf(d) = "sending"
  /\ Sendable(d)

(* Mutant: the bound on the attempts is forgotten. *)
RetryEligibleUncounted(d, age) ==
  /\ delivery[d].config \/ WithinWindow(d, age)
  /\ RetryDue(d, age) \/ LeaseLapsed(d, age)
  /\ StatusOf(d) = "sending"
  /\ Sendable(d)

RetryEligible(d, age) ==
  /\ delivery[d].config \/ (delivery[d].attempt < MaxAttempts /\ WithinWindow(d, age))
  /\ RetryDue(d, age) \/ LeaseLapsed(d, age)
  /\ StatusOf(d) = "sending"
  /\ Sendable(d)

(* Mutants of the clause below: rows in flight lose their lease, rows        *)
(* blocked by a configuration error get the usual window, and rows in flight *)
(* are left out once the window is over.                                     *)
GivenUp(d) ==
  \/ ~Sendable(d)
  \/ ~delivery[d].config /\ delivery[d].attempt >= MaxAttempts
  \/ StatusOf(d) = "stopped"

RetirableInFlight(d, age) == delivery[d].status \in ActiveStatus /\ GivenUp(d)

RetirableDespiteConfig(d, age) ==
  /\ delivery[d].status \in {"pending", "retry_wait"} \/ LeaseLapsed(d, age)
  /\ \/ GivenUp(d)
     \/ delivery[d].first # Null /\ ~WithinWindow(d, age)

RetirableUnlessInFlight(d, age) ==
  /\ delivery[d].status \in {"pending", "retry_wait"} \/ LeaseLapsed(d, age)
  /\ \/ GivenUp(d)
     \/ /\ ~delivery[d].config /\ delivery[d].status = "retry_wait"
        /\ delivery[d].first # Null /\ ~WithinWindow(d, age)

(* The WHERE clause of retireUnsendableDeliveries. *)
Retirable(d, age) ==
  /\ delivery[d].status \in {"pending", "retry_wait"} \/ LeaseLapsed(d, age)
  /\ \/ ~Sendable(d)
     \/ ~delivery[d].config /\ delivery[d].attempt >= MaxAttempts
     \/ StatusOf(d) = "stopped"
     \/ /\ ~delivery[d].config
        /\ delivery[d].status \in {"retry_wait", "sending"}
        /\ delivery[d].first # Null /\ ~WithinWindow(d, age)

(* Mutant: a row in flight does not keep its schedule open. *)
IsDoneButInFlight(s) ==
  \A d \in DeliveriesOf(s) : delivery[d].status \notin {"pending", "retry_wait"}

IsDone(s) == \A d \in DeliveriesOf(s) : delivery[d].status \notin ActiveStatus

-----------------------------------------------------------------------------
(* Statements used by several handlers *)

(* What ending a row writes, whichever statement does it. *)
Ended(row, status) ==
  [row EXCEPT !.status = status, !.config = FALSE, !.next = Null]

(* markPendingDeliveriesWithoutTokenFailed *)
FailPendingWithoutToken(S) ==
  delivery' = [d \in Deliveries |->
    IF ScheduleOf[d] \in S /\ delivery[d].status = "pending" /\ ~Sendable(d)
      THEN Ended(delivery[d], "failed") ELSE delivery[d]]

(* completeScheduleIfDone *)
CompleteIfDone(S) ==
  schedule' = [s \in Schedules |->
    IF s \in S /\ schedule[s] = "sending" /\ IsDone(s)
      THEN "completed" ELSE schedule[s]]

(* retireUnsendableDeliveries: one UPDATE over the whole table. *)
RetireUnsendableDeliveries(age) ==
  /\ delivery' = [d \in Deliveries |->
       IF Retirable(d, age)
         THEN Ended(delivery[d], IF StatusOf(d) = "stopped" THEN "stopped" ELSE "failed")
         ELSE delivery[d]]
  /\ uncertain' = [d \in Deliveries |->
       uncertain[d] \/ (Retirable(d, age) /\ LeaseLapsed(d, age))]

RetiredSchedules(age) ==
  {ScheduleOf[d] : d \in {e \in Deliveries : Retirable(e, age)}}

-----------------------------------------------------------------------------
(* Retry cron: enqueueDueDeliveries *)

(* Its clock is the time it was scheduled for. *)
RetryCronBegin ==
  /\ retryCron.pc = "idle"
  /\ retryCron' = [retryCron EXCEPT !.pc = "retire"]
  /\ UNCHANGED <<dbVars, queue, consumer, readyCron, upsets, history>>

RetryCronRetire ==
  /\ retryCron.pc = "retire"
  /\ RetireUnsendableDeliveries(retryCron.age)
  /\ LET retired == RetiredSchedules(retryCron.age)
     IN retryCron' = [retryCron EXCEPT
          !.pc = IF retired = {} THEN "enqueue" ELSE "complete", !.retired = retired]
  /\ UNCHANGED <<schedule, token, active, queue, consumer, readyCron, upsets,
                 accepted, holder>>

RetryCronComplete ==
  /\ retryCron.pc = "complete"
  /\ CompleteIfDone(retryCron.retired)
  /\ retryCron' = [retryCron EXCEPT !.pc = "enqueue", !.retired = {}]
  /\ UNCHANGED <<delivery, token, active, queue, consumer, readyCron, upsets,
                 history>>

(* findDueRetryDeliveryIds and enqueueMany.  The pages of 90 ids collapse    *)
(* into one message; rows may change while it waits in the queue.            *)
RetryCronEnqueue ==
  /\ retryCron.pc = "enqueue"
  /\ LET due == {d \in Deliveries : RetryEligible(d, retryCron.age)}
     IN queue' = IF due = {} THEN queue
                 ELSE queue \cup {[schedules |-> {}, retry |-> due]}
  /\ retryCron' = IdleRetryCron
  /\ UNCHANGED <<dbVars, consumer, readyCron, upsets, history>>

-----------------------------------------------------------------------------
(* Ready cron: enqueueReadySchedules.  Its loop treats one schedule after    *)
(* the other; here each candidate advances through the loop body on its own. *)

(* Mutant: a schedule nobody completed is not found again. *)
IsReadyIfPending(s) ==
  \/ schedule[s] = "resolving"
  \/ /\ schedule[s] = "sending"
     /\ \E d \in DeliveriesOf(s) : delivery[d].status = "pending"

IsReady(s) ==
  \/ schedule[s] = "resolving"
  \/ /\ schedule[s] = "sending"
     /\ \/ \E d \in DeliveriesOf(s) : delivery[d].status = "pending"
        \/ IsDone(s)

ReadyCronFind ==
  /\ readyCron = IdleReadyCron
  /\ readyCron' = [readyCron EXCEPT !.stage = [s \in Schedules |->
       IF ~IsReady(s) THEN "none"
       ELSE IF schedule[s] = "resolving" THEN "prepare" ELSE "sweep"]]
  /\ UNCHANGED <<dbVars, queue, consumer, retryCron, upsets, history>>

(* Mutant: rows are inserted whatever became of the schedule. *)
InsertedUnguarded(s) ==
  {d \in DeliveriesOf(s) : HasToken(d) /\ delivery[d].status = "absent"}

(* A row per recipient and token, ON CONFLICT DO NOTHING. *)
Inserted(s) ==
  {d \in DeliveriesOf(s) : /\ schedule[s] = "resolving"
                           /\ HasToken(d) /\ delivery[d].status = "absent"}

(* prepareResolvedSchedule, one batch: insert the rows, start the schedule,  *)
(* and complete it at once when it has nothing to send.                      *)
ReadyCronPrepare(s) ==
  LET started == schedule[s] = "resolving"
      completed == (started /\ Inserted(s) = {}) \/ (schedule[s] = "sending" /\ IsDone(s))
  IN /\ readyCron.stage[s] = "prepare"
     /\ delivery' = [d \in Deliveries |->
          IF d \in Inserted(s)
            THEN [AbsentRow EXCEPT !.status = "pending"] ELSE delivery[d]]
     /\ schedule' = [schedule EXCEPT ![s] =
          IF completed THEN "completed" ELSE IF started THEN "sending" ELSE @]
     /\ readyCron' = [readyCron EXCEPT !.stage[s] =
          IF completed THEN "none" ELSE "sweep"]
     /\ UNCHANGED <<token, active, queue, consumer, retryCron, upsets, history>>

(* The batch throws; markScheduleFailed follows as a statement of its own. *)
ReadyCronPrepareFails(s) ==
  /\ readyCron.stage[s] = "prepare"
  /\ upsets < MaxUpsets
  /\ upsets' = upsets + 1
  /\ readyCron' = [readyCron EXCEPT !.stage[s] = "markFailed"]
  /\ UNCHANGED <<dbVars, queue, consumer, retryCron, history>>

ReadyCronMarkFailed(s) ==
  /\ readyCron.stage[s] = "markFailed"
  /\ schedule' = [schedule EXCEPT ![s] = IF @ = "resolving" THEN "failed" ELSE @]
  /\ readyCron' = [readyCron EXCEPT !.stage[s] = "none"]
  /\ UNCHANGED <<delivery, token, active, queue, consumer, retryCron, upsets,
                 history>>

ReadyCronSweep(s) ==
  /\ readyCron.stage[s] = "sweep"
  /\ FailPendingWithoutToken({s})
  /\ readyCron' = [readyCron EXCEPT !.stage[s] = "count"]
  /\ UNCHANGED <<schedule, token, active, queue, consumer, retryCron, upsets,
                 history>>

(* countPendingDeliveries, and completeScheduleIfDone when it is zero. *)
ReadyCronCount(s) ==
  LET sendable == {d \in DeliveriesOf(s) :
                     delivery[d].status = "pending" /\ Sendable(d)}
  IN /\ readyCron.stage[s] = "count"
     /\ IF sendable = {} THEN CompleteIfDone({s}) ELSE UNCHANGED schedule
     /\ readyCron' = [readyCron EXCEPT !.stage[s] = "none",
          !.queued = IF sendable = {} THEN @ ELSE @ \cup {s}]
     /\ UNCHANGED <<delivery, token, active, queue, consumer, retryCron, upsets,
                    history>>

ReadyCronEnqueue ==
  /\ readyCron.queued # {} /\ \A s \in Schedules : readyCron.stage[s] = "none"
  /\ queue' = queue \cup {[schedules |-> readyCron.queued, retry |-> {}]}
  /\ readyCron' = IdleReadyCron
  /\ UNCHANGED <<dbVars, consumer, retryCron, upsets, history>>

-----------------------------------------------------------------------------
(* Queue consumer: consumeNotificationDeliveryQueue, with                    *)
(* sendQueuedNotifications for a schedule message and retryDueDeliveries for *)
(* a retry message.                                                          *)

IsRetry(w) == consumer[w].msg.retry # {}

Accept(w, m, touched) ==
  /\ queue' = queue \ {m}
  /\ consumer' = [consumer EXCEPT ![w] =
       [IdleConsumer EXCEPT !.pc = "select", !.msg = m, !.touched = touched]]

(* A message is hidden from the other consumers while it is processed.  The *)
(* first statement of its handler precedes the claim loop.                  *)
SendStart(w) ==
  /\ consumer[w].pc = "idle"
  /\ \E m \in queue :
       /\ m.retry = {}
       /\ FailPendingWithoutToken(m.schedules)
       /\ Accept(w, m, {})
  /\ UNCHANGED <<schedule, token, active, retryCron, readyCron, upsets, history>>

RetryStart(w) ==
  /\ consumer[w].pc = "idle"
  /\ RetireUnsendableDeliveries(0)
  /\ \E m \in queue : m.retry # {} /\ Accept(w, m, RetiredSchedules(0))
  /\ UNCHANGED <<schedule, token, active, retryCron, readyCron, upsets, accepted,
                 holder>>

Eligible(w, d, age) ==
  IF IsRetry(w) THEN d \in consumer[w].msg.retry /\ RetryEligible(d, age)
  ELSE ScheduleOf[d] \in consumer[w].msg.schedules /\ PendingEligible(d)

AtClaimLimit(w) == ~IsRetry(w) /\ consumer[w].claimed >= ClaimLimit

(* Out of the claim loop; what it worked with is forgotten. *)
LeaveLoop(w) ==
  consumer' = [consumer EXCEPT
    ![w].pc = IF IsRetry(w) THEN "complete" ELSE "sweep",
    ![w].age = 0, ![w].ids = {}, ![w].claimed = 0]

(* claimDeliveries, 1 of 3: read the clock and SELECT candidates (LIMIT). *)
ClaimSelect(w) ==
  LET eligible == {d \in Deliveries : Eligible(w, d, 0)}
  IN /\ consumer[w].pc = "select"
     /\ IF eligible = {} \/ AtClaimLimit(w)
          THEN LeaveLoop(w)
          ELSE \E cand \in SUBSET eligible :
                 /\ IF Cardinality(eligible) <= BatchSize
                      THEN cand = eligible ELSE Cardinality(cand) = BatchSize
                 /\ consumer' = [consumer EXCEPT
                      ![w].pc = "claim", ![w].age = 0, ![w].ids = cand]
     /\ UNCHANGED <<dbVars, queue, retryCron, readyCron, upsets, history>>

(* Mutant: taking over a lapsed lease does not count as an attempt. *)
ClaimedRowUncounted(d, a) ==
  [delivery[d] EXCEPT
    !.status = "sending",
    !.first = IF delivery[d].config \/ @ = Null THEN a ELSE @,
    !.last = a,
    !.attempt = IF delivery[d].config THEN 1
                ELSE IF delivery[d].status = "sending" THEN @ ELSE @ + 1,
    !.next = Null, !.config = FALSE]

(* The row a claim at clock age a leaves behind. *)
ClaimedRow(d, a) ==
  [delivery[d] EXCEPT
    !.status = "sending",
    !.first = IF delivery[d].config \/ @ = Null THEN a ELSE @,
    !.last = a,
    !.attempt = IF delivery[d].config THEN 1 ELSE @ + 1,
    !.next = Null, !.config = FALSE]

(* claimDeliveries, 2 of 3: the batch of UPDATEs, each with the guard of the *)
(* SELECT once more.                                                         *)
ClaimUpdate(w) ==
  LET won == {d \in consumer[w].ids : Eligible(w, d, consumer[w].age)}
  IN /\ consumer[w].pc = "claim"
     /\ delivery' = [d \in Deliveries |->
          IF d \in won THEN ClaimedRow(d, consumer[w].age) ELSE delivery[d]]
     /\ uncertain' = [d \in Deliveries |->
          uncertain[d] \/ (d \in won /\ LeaseLapsed(d, consumer[w].age))]
     /\ holder' = [d \in Deliveries |-> IF d \in won THEN {w} ELSE holder[d]]
     /\ IF won = {} THEN LeaveLoop(w)
        ELSE consumer' = [consumer EXCEPT ![w].pc = "details", ![w].ids = won]
     /\ UNCHANGED <<schedule, token, active, queue, retryCron, readyCron, upsets,
                    accepted>>

(* The consumer with a job for each of the rows it read back. *)
Loaded(w, rows) ==
  [consumer[w] EXCEPT
    !.pc = "send",
    !.ids = {},
    !.claimed = IF IsRetry(w) THEN @ ELSE @ + Cardinality(rows),
    !.touched = IF IsRetry(w) THEN @ \cup {ScheduleOf[d] : d \in rows} ELSE @,
    !.job = [d \in Deliveries |->
      IF d \in rows
        THEN [stage |-> "claimed", attempt |-> delivery[d].attempt,
              elapsed |-> delivery[d].first - consumer[w].age]
        ELSE NoJob]]

(* claimDeliveries, 3 of 3: SELECT what was claimed at this clock reading,   *)
(* joined with its token.                                                    *)
ClaimDetails(w) ==
  LET rows == {d \in consumer[w].ids :
                 /\ delivery[d].status = "sending"
                 /\ delivery[d].last = consumer[w].age
                 /\ HasToken(d)}
  IN /\ consumer[w].pc = "details"
     /\ IF rows = {} THEN LeaveLoop(w)
        ELSE consumer' = [consumer EXCEPT ![w] = Loaded(w, rows)]
     /\ UNCHANGED <<dbVars, queue, retryCron, readyCron, upsets, history>>

-----------------------------------------------------------------------------
(* One claimed delivery: sendClaimedDelivery.  The jobs of a batch run       *)
(* concurrently; `now` is the clock reading of the claim.                    *)

(* The fence every write of a consumer carries. *)
Owns(w, d) ==
  /\ delivery[d].status = "sending"
  /\ delivery[d].attempt = consumer[w].job[d].attempt

InStage(w, d, stage) == consumer[w].pc = "send" /\ consumer[w].job[d].stage = stage
Enter(w, d, stage) == consumer' = [consumer EXCEPT ![w].job[d].stage = stage]
EndJob(w, d) == consumer' = [consumer EXCEPT ![w].job[d] = NoJob]

(* renewDeliveryLease *)
Renewable(w, d) ==
  /\ Owns(w, d)
  /\ delivery[d].last <= consumer[w].age + Timeout
  /\ delivery[d].first <= consumer[w].age + Window
  /\ Sendable(d)
  /\ StatusOf(d) = "sending"

RenewDeliveryLease(w, d) ==
  /\ InStage(w, d, "claimed")
  /\ IF Renewable(w, d)
       THEN /\ delivery' = [delivery EXCEPT ![d].last = consumer[w].age]
            /\ Enter(w, d, "calling")
       ELSE /\ UNCHANGED delivery
            /\ EndJob(w, d)
  /\ UNCHANGED <<schedule, token, active, queue, retryCron, readyCron, upsets,
                 history>>

CountAccepted(d) ==
  accepted' = [accepted EXCEPT ![d] = IF @ = 0 THEN 1 ELSE 2]

FcmAccepts(w, d) ==
  /\ "accepted" \in Outcomes
  /\ InStage(w, d, "calling")
  /\ Enter(w, d, "accepted")
  /\ CountAccepted(d)
  /\ UNCHANGED <<dbVars, queue, retryCron, readyCron, upsets, uncertain, holder>>

(* markSent and markFailed share their fence. *)
Settle(w, d, outcome) ==
  delivery' = IF Owns(w, d)
    THEN [delivery EXCEPT ![d] = Ended(@, outcome)] ELSE delivery

(* Mutant: the row gets the status word of a schedule. *)
MarkCompleted(w, d) ==
  /\ InStage(w, d, "accepted")
  /\ Settle(w, d, "completed")
  /\ EndJob(w, d)
  /\ UNCHANGED <<schedule, token, active, queue, retryCron, readyCron, upsets,
                 history>>

MarkSent(w, d) ==
  /\ InStage(w, d, "accepted")
  /\ Settle(w, d, "sent")
  /\ EndJob(w, d)
  /\ UNCHANGED <<schedule, token, active, queue, retryCron, readyCron, upsets,
                 history>>

MarkFailed(w, d) ==
  /\ Settle(w, d, "failed")
  /\ EndJob(w, d)
  /\ UNCHANGED <<schedule, token, active, queue, retryCron, readyCron>>

(* What saveRetry leaves behind, with `next` ticks left to wait. *)
RetryRow(d, isConfig, next) ==
  [delivery[d] EXCEPT
    !.status = IF StatusOf(d) = "stopped" THEN "stopped"
               ELSE IF ~HasToken(d) THEN "failed" ELSE "retry_wait",
    !.config = isConfig,
    !.next = IF HasToken(d) /\ StatusOf(d) = "sending" THEN next ELSE Null]

(* saveRetry; delay counts from the clock reading of the claim. *)
SaveRetry(w, d, isConfig, delay) ==
  /\ delivery' = IF Owns(w, d)
       THEN [delivery EXCEPT ![d] = RetryRow(d, isConfig, delay - consumer[w].age)]
       ELSE delivery
  /\ EndJob(w, d)
  /\ UNCHANGED <<schedule, token, active, queue, retryCron, readyCron>>

(* A temporary error: the next milestone after the claim, or later when a    *)
(* rate limit asks for it; the attempt fails for good beyond the window.     *)
HandleTemporary(w, d) ==
  LET elapsed == consumer[w].job[d].elapsed
      later == {o \in Offsets : o > elapsed}
      delay(milestone, after) ==
        IF milestone - elapsed >= after THEN milestone - elapsed ELSE after
  IN \/ later = {} /\ MarkFailed(w, d)
     \/ \E milestone \in later, after \in RetryAfters :
          /\ \A o \in later : milestone <= o
          /\ IF elapsed + delay(milestone, after) > Window
               THEN MarkFailed(w, d)
               ELSE SaveRetry(w, d, FALSE, delay(milestone, after))

FcmTemporaryError(w, d) ==
  /\ "temporary" \in Outcomes
  /\ InStage(w, d, "calling")
  /\ HandleTemporary(w, d)
  /\ UNCHANGED <<upsets, history>>

(* FCM accepts but the answer never arrives: fetch rejects, which            *)
(* classifyFcmError calls temporary.                                         *)
FcmAnswerLost(w, d) ==
  /\ "lost" \in Outcomes
  /\ InStage(w, d, "calling")
  /\ HandleTemporary(w, d)
  /\ CountAccepted(d)
  /\ uncertain' = [uncertain EXCEPT ![d] = TRUE]
  /\ UNCHANGED <<upsets, holder>>

FcmPermanentError(w, d) ==
  /\ "permanent" \in Outcomes
  /\ InStage(w, d, "calling")
  /\ MarkFailed(w, d)
  /\ UNCHANGED <<upsets, history>>

(* UNREGISTERED deletes the token row first, for every delivery that has it. *)
FcmUnregistered(w, d) ==
  /\ "unregistered" \in Outcomes
  /\ InStage(w, d, "calling")
  /\ token' = [token EXCEPT ![TokenOf[d]] = FALSE]
  /\ Enter(w, d, "rejected")
  /\ UNCHANGED <<schedule, delivery, active, queue, retryCron, readyCron, upsets,
                 history>>

MarkRejected(w, d) ==
  /\ InStage(w, d, "rejected")
  /\ MarkFailed(w, d)
  /\ UNCHANGED <<upsets, history>>

FcmConfigurationError(w, d) ==
  /\ "configuration" \in Outcomes
  /\ upsets < MaxUpsets
  /\ upsets' = upsets + 1
  /\ InStage(w, d, "calling")
  /\ SaveRetry(w, d, TRUE, ConfigDelay)
  /\ UNCHANGED history

(* A statement of the job throws: the row stays as it is, the error is kept. *)
JobThrows(w, d) ==
  /\ consumer[w].pc = "send"
  /\ consumer[w].job[d].stage \in {"claimed", "calling", "accepted", "rejected"}
  /\ upsets < MaxUpsets
  /\ upsets' = upsets + 1
  /\ consumer' = [consumer EXCEPT ![w].job[d] = NoJob, ![w].error = TRUE]
  /\ UNCHANGED <<dbVars, queue, retryCron, readyCron, history>>

JobStep(w, d) ==
  \/ RenewDeliveryLease(w, d)
  \/ FcmAccepts(w, d) \/ MarkSent(w, d)
  \/ FcmTemporaryError(w, d) \/ FcmAnswerLost(w, d)
  \/ FcmPermanentError(w, d)
  \/ FcmUnregistered(w, d) \/ MarkRejected(w, d)
  \/ FcmConfigurationError(w, d)
  \/ JobThrows(w, d)

-----------------------------------------------------------------------------
(* End of a batch, end of the message *)

(* message.retry: back to the queue, or gone once max_retries is used up. *)
GiveBack(w) ==
  /\ queue' \in {queue \cup {consumer[w].msg}, queue}
  /\ consumer' = [consumer EXCEPT ![w] = IdleConsumer]

BatchEnds(w) ==
  /\ consumer[w].pc = "send"
  /\ \A d \in Deliveries : consumer[w].job[d] = NoJob
  /\ IF consumer[w].error /\ ~IsRetry(w)
       THEN GiveBack(w)
       ELSE /\ consumer' = [consumer EXCEPT
                 ![w].pc = "select", ![w].age = 0]
            /\ UNCHANGED queue
  /\ UNCHANGED <<dbVars, retryCron, readyCron, upsets, history>>

SendSweep(w) ==
  /\ consumer[w].pc = "sweep"
  /\ FailPendingWithoutToken(consumer[w].msg.schedules)
  /\ consumer' = [consumer EXCEPT ![w].pc = "complete"]
  /\ UNCHANGED <<schedule, token, active, queue, retryCron, readyCron, upsets,
                 history>>

(* completeScheduleIfDone for the schedules of the message or, after a       *)
(* retry, for those it retired or sent from; then ack or message.retry.      *)
MessageEnds(w) ==
  /\ consumer[w].pc = "complete"
  /\ CompleteIfDone(IF IsRetry(w) THEN consumer[w].touched
                    ELSE consumer[w].msg.schedules)
  /\ IF consumer[w].error
       THEN GiveBack(w)
       ELSE consumer' = [consumer EXCEPT ![w] = IdleConsumer] /\ UNCHANGED queue
  /\ UNCHANGED <<delivery, token, active, retryCron, readyCron, upsets, history>>

ConsumerStep(w) ==
  \/ SendStart(w) \/ RetryStart(w)
  \/ ClaimSelect(w) \/ ClaimUpdate(w) \/ ClaimDetails(w)
  \/ \E d \in Deliveries : JobStep(w, d)
  \/ BatchEnds(w) \/ SendSweep(w) \/ MessageEnds(w)

-----------------------------------------------------------------------------
(* Crashes, and the rest of the application *)

(* The invocation dies, or a statement outside a job throws. *)
ConsumerDies(w) ==
  /\ consumer[w].pc # "idle"
  /\ upsets < MaxUpsets
  /\ upsets' = upsets + 1
  /\ GiveBack(w)
  /\ UNCHANGED <<dbVars, retryCron, readyCron, history>>

CronDies ==
  /\ upsets < MaxUpsets
  /\ upsets' = upsets + 1
  /\ \/ retryCron.pc # "idle" /\ retryCron' = IdleRetryCron /\ UNCHANGED readyCron
     \/ readyCron # IdleReadyCron /\ readyCron' = IdleReadyCron /\ UNCHANGED retryCron
  /\ UNCHANGED <<dbVars, queue, consumer, history>>

(* buildNotificationStopStatements, one batch.  An admin may stop a sending  *)
(* schedule; deleting the source also stops a resolving one.  A row that is  *)
(* being sent keeps its status until the answer of FCM is saved.             *)
StopSchedule(s) ==
  /\ schedule[s] \in {"resolving", "sending"}
  /\ schedule' = [schedule EXCEPT ![s] = "stopped"]
  /\ delivery' = [d \in Deliveries |->
       IF ScheduleOf[d] = s /\ delivery[d].status \in {"pending", "retry_wait"}
         THEN [delivery[d] EXCEPT !.status = "stopped", !.next = Null]
         ELSE delivery[d]]
  /\ UNCHANGED <<token, active, queue, consumer, retryCron, readyCron, upsets,
                 history>>

(* Logout, transfer to another user and account deletion delete the row. *)
DeleteToken(t) ==
  /\ token[t]
  /\ token' = [token EXCEPT ![t] = FALSE]
  /\ UNCHANGED <<schedule, delivery, active, queue, consumer, retryCron, readyCron,
                 upsets, history>>

SuspendUser(t) ==
  /\ active[t]
  /\ upsets < MaxUpsets
  /\ upsets' = upsets + 1
  /\ active' = [active EXCEPT ![t] = FALSE]
  /\ UNCHANGED <<schedule, delivery, token, queue, consumer, retryCron, readyCron,
                 history>>

RestoreUser(t) ==
  /\ ~active[t]
  /\ active' = [active EXCEPT ![t] = TRUE]
  /\ UNCHANGED <<schedule, delivery, token, queue, consumer, retryCron, readyCron,
                 upsets, history>>

-----------------------------------------------------------------------------
(* Time.  A time no statement can read any more is forgotten. *)

Older(age, cap) == IF age = Null \/ age >= cap THEN age ELSE age + 1

Aged(row) ==
  IF row.status \notin {"sending", "retry_wait"}
    THEN [row EXCEPT !.first = Null, !.last = Null, !.next = Null]
    ELSE [row EXCEPT
      !.first = Older(@, FirstCap),
      !.last = IF row.status = "sending" THEN Older(@, LastCap) ELSE Null,
      !.next = IF @ = Null \/ @ <= -MaxStall THEN @ ELSE @ - 1]

HasReadClock(w) == consumer[w].pc \in {"claim", "details", "send"}

(* The platform limits how long an invocation may stall. *)
Tick ==
  /\ \A w \in Consumers : HasReadClock(w) => consumer[w].age < MaxStall
  /\ retryCron.age < MaxStall
  /\ delivery' = [d \in Deliveries |-> Aged(delivery[d])]
  /\ consumer' = [w \in Consumers |->
       IF HasReadClock(w) THEN [consumer[w] EXCEPT !.age = @ + 1] ELSE consumer[w]]
  /\ retryCron' = IF retryCron.pc = "idle" THEN retryCron
                  ELSE [retryCron EXCEPT !.age = @ + 1]
  /\ UNCHANGED <<schedule, token, active, queue, readyCron, upsets, history>>

-----------------------------------------------------------------------------
Init ==
  /\ schedule = [s \in Schedules |-> "resolving"]
  /\ delivery = [d \in Deliveries |-> AbsentRow]
  /\ token = [t \in Tokens |-> TRUE]
  /\ active = [t \in Tokens |-> TRUE]
  /\ queue = {}
  /\ consumer = [w \in Consumers |-> IdleConsumer]
  /\ retryCron = IdleRetryCron
  /\ readyCron = IdleReadyCron
  /\ upsets = 0
  /\ accepted = [d \in Deliveries |-> 0]
  /\ uncertain = [d \in Deliveries |-> FALSE]
  /\ holder = [d \in Deliveries |-> {}]

RetryCronStep ==
  RetryCronBegin \/ RetryCronRetire \/ RetryCronComplete \/ RetryCronEnqueue

ReadyCronStep ==
  \/ ReadyCronFind \/ ReadyCronEnqueue
  \/ \E s \in Schedules :
       \/ ReadyCronPrepare(s) \/ ReadyCronPrepareFails(s) \/ ReadyCronMarkFailed(s)
       \/ ReadyCronSweep(s) \/ ReadyCronCount(s)

Environment ==
  \/ \E w \in Consumers : ConsumerDies(w)
  \/ CronDies
  \/ \E s \in Schedules : StopSchedule(s)
  \/ \E t \in Tokens : DeleteToken(t) \/ SuspendUser(t) \/ RestoreUser(t)
  \/ Tick

Next ==
  \/ RetryCronStep
  \/ ReadyCronStep
  \/ \E w \in Consumers : ConsumerStep(w)
  \/ Environment

Spec == Init /\ [][Next]_vars

=============================================================================
