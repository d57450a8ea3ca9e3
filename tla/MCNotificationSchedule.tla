----------------------- MODULE MCNotificationSchedule -----------------------
(* Instances of NotificationSchedule for TLC; values come from the .cfg files. *)
EXTENDS NotificationScheduleProps, TLC

Symmetry == Permutations(Resolvers) \cup Permutations(Editors)

(* Two resolvers, faults and one request on the first schedule, or one       *)
(* resolver without faults on the first and a resend.                       *)
OnlyResolver == CHOOSE r \in Resolvers : TRUE
RacesOrResend ==
  \/ edits <= 1 /\ \A s \in Schedules \ {First} : schedule[s].status = "unused"
  \/ faults = 0 /\ active = Users /\ \A r \in Resolvers \ {OnlyResolver} : resolver[r] = IdleResolver
=============================================================================
