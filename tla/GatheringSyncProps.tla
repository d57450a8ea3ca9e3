-------------------------- MODULE GatheringSyncProps --------------------------
(***************************************************************************)
(* What the sync of a gathering and its notice has to guarantee.           *)
(***************************************************************************)
EXTENDS GatheringSync

(* Every variable holds a value of its type, and a generator that is about *)
(* to use up an attempt has one left.                                      *)
CountedGen ==
  {v \in Gen : /\ v.pc = "read" => v.loops > 0
               /\ v.pc \in {"create", "write"} => v.tries > 0}

TypeOK ==
  /\ gathering \in Gathering
  /\ notice \in Notice
  /\ resend \in {"none", "scheduled", "started"}
  /\ gen \in [Generators -> CountedGen]
  /\ now \in 0 .. Horizon
  /\ created \in 0 .. 2
  /\ saves \in 0 .. MaxSaves /\ faults \in 0 .. MaxFaults

(* However many generators find no notification, they create one of them:  *)
(* createAutomaticNotificationIfSourceAbsent decides in the INSERT.        *)
AtMostOneNotice == created <= 1

(* A deleted gathering leaves nothing behind that would still be sent,     *)
(* although generators and resends may be under way when it is deleted.    *)
NoOrphanNotice ==
  gathering.state = "deleted" => notice.status # "scheduled" /\ resend # "scheduled"

(* Once any schedule of the notification has started, its text stays what  *)
(* it was: createOrUpdateAutomatic checks this once more while it writes.  *)
FrozenOnceStarted == [][HasStarted => notice'.time = notice.time]_vars

(* The life of the notice, as everybody else relies on it: what the texts   *)
(* say, which generators run and when they look again is forgotten.         *)
SourceState ==
  CASE gathering.state = "new" -> "new" [] gathering.state = "live" -> "there" [] OTHER -> "gone"
ResendIf(state) == IF resend = state THEN {"resend"} ELSE {}

Life == INSTANCE NoticeLife WITH
  Resends <- {"resend"}, source <- SourceState, status <- notice.status, held <- notice.held,
  text <- notice.time, waiting <- ResendIf("scheduled"), begun <- ResendIf("started")

(* The sync with its generators, holds and resends implements it.           *)
ImplementsNoticeLife == Life!Spec

(* A notice that names an outdated time is held back, or a generator is    *)
(* still at work that will look at the gathering again: nobody goes home   *)
(* leaving a wrong notice free to be sent.                                 *)
Outdated ==
  /\ notice.status = "scheduled" /\ ~HasStarted
  /\ Live /\ notice.time # gathering.time
AtWork(g) == gen[g].pc \notin {"idle", "apply", "clear"}
StaleIsBeingSynced == Outdated /\ ~notice.held => \E g \in Generators : AtWork(g)

(* The hold is lifted when the notice is in sync again, and not before.    *)
ReleasedInSync ==
  [][notice.held /\ notice'.status = "scheduled" /\ ~notice'.held
       => notice'.time = gathering'.time]_vars

(* No notice is held back for ever: while the gathering has a time, its    *)
(* notice is eventually sent or withdrawn, whatever failed before.         *)
EveryNoticeGoes ==
  notice.status = "scheduled" /\ Live /\ gathering.time # Unset
    ~> notice.status # "scheduled" \/ gathering.time = Unset

(* Fairness: the crons run every minute, an invocation runs until it ends  *)
(* or dies, and time passes.  Staff and faults are under no obligation.    *)
Fairness ==
  /\ \A p \in Savers : WF_vars(Generate(p) \/ SaveFails(p))
  /\ WF_vars(CronStep)
  /\ WF_vars(ClaimScheduled)
  /\ WF_vars(Tick)

FairSpec == Spec /\ Fairness
=============================================================================
