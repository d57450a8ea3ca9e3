-------------------------- MODULE PushDeliveryProps --------------------------
(***************************************************************************)
(* What the sending phase has to guarantee, stated over PushDelivery.      *)
(***************************************************************************)
EXTENDS PushDelivery

(* Every variable holds a value of its type, and a row in flight knows     *)
(* when it was first and last attempted.                                   *)
TimedRow ==
  {row \in DeliveryRow : row.status = "sending" => row.first # Null /\ row.last # Null}

TypeOK ==
  /\ schedule \in [Schedules -> ScheduleStatus]
  /\ delivery \in [Deliveries -> TimedRow]
  /\ token \in [Tokens -> BOOLEAN]
  /\ active \in [Tokens -> BOOLEAN]
  /\ queue \in SUBSET Message
  /\ consumer \in [Consumers -> ConsumerState]
  /\ retryCron \in RetryCronState
  /\ readyCron \in ReadyCronState
  /\ upsets \in 0 .. MaxUpsets
  /\ accepted \in [Deliveries -> 0 .. 2]
  /\ uncertain \in [Deliveries -> BOOLEAN]
  /\ holder \in [Deliveries -> SUBSET Consumers]

(* The status of a schedule and of its deliveries, written by crons,       *)
(* consumers and the admin stop, agree: nothing waits to be sent unless    *)
(* the schedule is sending, a row in flight outlives only a stop, and a    *)
(* finished schedule has nothing left to do.                               *)
StatusesAgree ==
  \A d \in Deliveries :
    /\ delivery[d].status \in {"pending", "retry_wait"} => StatusOf(d) = "sending"
    /\ delivery[d].status = "sending" => StatusOf(d) \in {"sending", "stopped"}
    /\ StatusOf(d) \in {"resolving", "failed"} => delivery[d].status = "absent"

(* No delivery is stranded: once its timer has run out an active row is    *)
(* either claimable by a consumer or retirable by the next cron, and never *)
(* both, so a row that may still be sent is not given up.  The claim of    *)
(* claimDeliveries and the WHERE clause of retireUnsendableDeliveries are  *)
(* separate SQL texts that have to partition the due rows.                 *)
DueRow(d) ==
  delivery[d].status = "pending" \/ RetryDue(d, 0) \/ LeaseLapsed(d, 0)

NoStrandedDelivery ==
  \A d \in Deliveries :
    /\ delivery[d].status = "retry_wait" => delivery[d].next # Null
    /\ DueRow(d) => (PendingEligible(d) \/ RetryEligible(d, 0)) # Retirable(d, 0)

(* What is reported is what happened, as far as the sender can know: a     *)
(* delivery is `sent` only if FCM took it; it is `failed` or `stopped`     *)
(* only if FCM did not, and no device is pushed twice, unless a lease      *)
(* lapsed or an answer of FCM was lost on the way.                         *)
HonestOutcome ==
  \A d \in Deliveries :
    /\ delivery[d].status = "sent" => accepted[d] > 0
    /\ ~uncertain[d] =>
         /\ accepted[d] <= 1
         /\ delivery[d].status \in {"failed", "stopped", "pending", "retry_wait"} =>
              accepted[d] = 0

(* The fence (status, attempt_count) that every write of a consumer        *)
(* carries lets only the consumer that claimed the row last through: a     *)
(* consumer that was overtaken can neither renew the lease nor overwrite   *)
(* the result.                                                             *)
FenceNamesHolder ==
  \A w \in Consumers, d \in Deliveries :
    /\ consumer[w].pc = "send"
    /\ consumer[w].job[d].stage # "none"
    /\ Owns(w, d)
    => holder[d] = {w}

(* attempt_count never exceeds MaxAttempts: neither a retry nor the        *)
(* takeover of a lapsed lease starts an attempt beyond the last milestone. *)
AttemptsBounded ==
  \A d \in Deliveries : delivery[d].attempt <= MaxAttempts

(* A job that may call FCM belongs to a delivery whose lease is at least   *)
(* as young as the job's clock: while the answer is awaited within the     *)
(* lease, no other consumer can call FCM for the same row.                 *)
FreshLeaseIsExclusive ==
  \A d \in Deliveries, v, w \in Consumers :
    /\ v # w
    /\ \A u \in {v, w} : InStage(u, d, "calling") /\ consumer[u].age <= Timeout
    => FALSE

(* Every delivery that is started is eventually settled, whatever crashes, *)
(* stops, suspensions and token deletions happen on the way.               *)
EveryDeliverySettles ==
  \A d \in Deliveries :
    delivery[d].status \in ActiveStatus ~> delivery[d].status \in TerminalStatus

(* Every schedule whose recipients are resolved reaches a final status.    *)
EveryScheduleEnds ==
  \A s \in Schedules : <>(schedule[s] \in {"completed", "failed", "stopped"})

(* The phase implements the lifecycle the rest of the application relies   *)
(* on, whatever the retries, leases and crashes underneath.                *)
Lifecycle == INSTANCE PushLifecycle WITH
  outcome <- [d \in Deliveries |->
    IF delivery[d].status \in ActiveStatus THEN "open" ELSE delivery[d].status]
ImplementsLifecycle == Lifecycle!Spec

-----------------------------------------------------------------------------
(* Fairness: the platform keeps invoking the crons and the queue handler,  *)
(* and an invocation keeps running until it ends or dies.                  *)
(* Nothing obliges an admin, a user or a fault to act.                     *)
Fairness ==
  /\ WF_vars(RetryCronStep)
  /\ WF_vars(ReadyCronStep)
  /\ \A w \in Consumers : WF_vars(ConsumerStep(w))
  /\ WF_vars(Tick)

FairSpec == Spec /\ Fairness
=============================================================================
