---------------------------- MODULE PushLifecycle ----------------------------
(***************************************************************************)
(* What the sending phase promises to the rest of the application, without *)
(* leases, queues, retries or clocks: a schedule starts once with a fixed  *)
(* set of deliveries, every delivery is settled once and for all, a        *)
(* schedule completes only when all its deliveries are settled, and a      *)
(* delivery is reported as stopped only under a stopped schedule.          *)
(***************************************************************************)

CONSTANTS Schedules, Deliveries, ScheduleOf

VARIABLES
  schedule,   \* resolving, sending, completed, failed or stopped
  outcome     \* absent, open, sent, failed or stopped, per delivery

vars == <<schedule, outcome>>

ScheduleStatus == {"resolving", "sending", "completed", "failed", "stopped"}
Outcome == {"absent", "open", "sent", "failed", "stopped"}

Of(s) == {d \in Deliveries : ScheduleOf[d] = s}

Init ==
  /\ schedule = [s \in Schedules |-> "resolving"]
  /\ outcome = [d \in Deliveries |-> "absent"]

(* The schedule starts with deliveries D, or ends at once without any. *)
Start(s, D) ==
  /\ schedule[s] = "resolving"
  /\ schedule' = [schedule EXCEPT ![s] = IF D = {} THEN "completed" ELSE "sending"]
  /\ outcome' = [d \in Deliveries |-> IF d \in D THEN "open" ELSE outcome[d]]

Abandon(s) ==
  /\ schedule[s] = "resolving"
  /\ schedule' = [schedule EXCEPT ![s] = "failed"]
  /\ UNCHANGED outcome

(* Some open deliveries are settled; "stopped" needs a stopped schedule. *)
MaySettle(d, result) ==
  \/ result = outcome[d]
  \/ /\ outcome[d] = "open"
     /\ \/ result \in {"sent", "failed"}
        \/ result = "stopped" /\ schedule'[ScheduleOf[d]] = "stopped"

Settle ==
  /\ UNCHANGED schedule
  /\ outcome' \in [Deliveries -> Outcome]
  /\ \A d \in Deliveries : MaySettle(d, outcome'[d])

Stop(s) ==
  /\ schedule[s] \in {"resolving", "sending"}
  /\ schedule' = [schedule EXCEPT ![s] = "stopped"]
  /\ outcome' \in [Deliveries -> Outcome]
  /\ \A d \in Deliveries : outcome'[d] # outcome[d] =>
       d \in Of(s) /\ outcome[d] = "open" /\ outcome'[d] = "stopped"

Complete(S) ==
  /\ \A s \in S : schedule[s] = "sending" /\ \A d \in Of(s) : outcome[d] # "open"
  /\ schedule' = [s \in Schedules |-> IF s \in S THEN "completed" ELSE schedule[s]]
  /\ UNCHANGED outcome

Next ==
  \/ \E s \in Schedules :
       (\E D \in SUBSET Of(s) : Start(s, D)) \/ Abandon(s) \/ Stop(s)
  \/ Settle
  \/ \E S \in SUBSET Schedules : Complete(S)

Spec == Init /\ [][Next]_vars
=============================================================================
