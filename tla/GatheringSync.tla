---------------------------- MODULE GatheringSync ----------------------------
(***************************************************************************)
(* The automatic notice of a gathering: "be there at ...".  Saving the     *)
(* gathering settings of an event holds the notice back and changes the    *)
(* time in one transaction; a generator then brings the notice up to date  *)
(* and lifts the hold.  Every save runs a generator, and the hourly        *)
(* reconciliation runs one more.  The model follows one gathering, from    *)
(* its creation to its deletion: the statements of a generator name the    *)
(* gathering they are about, and no two gatherings share a row.            *)
(***************************************************************************)
EXTENDS Integers

CONSTANTS
  Savers,     \* concurrent requests that save the settings of the event
  Cron,       \* the hourly reconciliation
  Times,      \* gathering times, in ticks of the clock
  Unset,      \* gathering_time '99:59'
  Saved,      \* what a save may ask for, a subset of Times and Unset
  Lead,       \* buildEventNotificationSendAt: minutesBefore
  Cut,        \* reconcileAll leaves alone what is sent within this time
  Hour,       \* ticks between two reconciliations
  Attempts,   \* GENERATOR_SYNC_MAX_ATTEMPTS, AUTOMATIC_SYNC_MAX_ATTEMPTS
  None,       \* no time, no cutoff
  Horizon,    \* bound: the clock stops here
  MaxSaves,   \* bound: settings saved
  MaxFaults   \* bound: statements of a generator that throw, or crashes

Generators == Savers \cup {Cron}

ASSUME SyncConstants ==
  /\ Cron \notin Savers
  /\ Saved \subseteq Times \cup {Unset}
  /\ Times \subseteq Nat /\ Lead \in Nat /\ Cut \in Nat
  /\ Hour \in Nat \ {0} /\ Attempts \in Nat \ {0}
  /\ Unset \notin Int /\ None \notin Int /\ None # Unset
  /\ Horizon \in Nat /\ MaxSaves \in Nat /\ MaxFaults \in Nat

VARIABLES
  gathering,  \* the gatherings row: new (not created yet), live or deleted
  notice,     \* its notification and the automatic schedule of it
  resend,     \* a schedule by which staff send the same notification again
  gen,        \* the save requests and the cron, each with its generator
  now,        \* the clock
  created,    \* history: notifications created for the gathering, up to 2
  saves, faults

vars == <<gathering, notice, resend, gen, now, created, saves, faults>>

-----------------------------------------------------------------------------
(* Rows and invocations *)

Gathering == [state: {"new", "live", "deleted"}, time: Times \cup {Unset}]

(* status: none (no notification), scheduled, started, or cancelled (a      *)
(* notification without its automatic schedule).  source_hash, the texts    *)
(* and send_at are functions of `time`; held is failed_reason =             *)
(* AUTOMATIC_SYNC_PENDING.                                                  *)
Notice ==
  [status: {"none", "scheduled", "started", "cancelled"},
   time: Times \cup {None}, held: BOOLEAN]
NoNotice == [status |-> "none", time |-> None, held |-> FALSE]

GenPc == {"idle", "apply", "read", "source", "started", "find", "create",
          "write", "reread", "clear", "hold"}
Gen ==
  [pc: GenPc, seen: Gathering, cutoff: Nat \cup {None},
   time: Times \cup {None}, prev: Times \cup {None},
   loops: 0 .. Attempts, tries: 0 .. Attempts]
NewRow == [state |-> "new", time |-> Unset]
Idle ==
  [pc |-> "idle", seen |-> NewRow, cutoff |-> None,
   time |-> None, prev |-> None, loops |-> 0, tries |-> 0]

Live == gathering.state = "live"
SendAt(time) == time - Lead

(* hasStartedSourceSchedule *)
HasStarted == notice.status = "started" \/ resend = "started"

-----------------------------------------------------------------------------
(* saveEventGatheringSettings *)

(* The current settings are read. *)
SaveRead(p) ==
  /\ gen[p].pc = "idle"
  /\ saves < MaxSaves
  /\ gathering.state # "deleted"
  /\ saves' = saves + 1
  /\ gen' = [gen EXCEPT ![p].pc = "apply", ![p].seen = gathering]
  /\ UNCHANGED <<gathering, notice, resend, now, created, faults>>

StartGenerating(p) ==
  gen' = [gen EXCEPT ![p] = [Idle EXCEPT !.pc = "read", !.loops = Attempts]]

(* Nothing is written when the lock_version is stale, a gathering spot is   *)
(* missing or members are left.  The lock_version is optional: a save       *)
(* without one is applied whatever happened since the settings were read.   *)
SaveFails(p) ==
  /\ gen[p].pc = "apply"
  /\ gen' = [gen EXCEPT ![p] = Idle]
  /\ UNCHANGED <<gathering, notice, resend, now, created, saves, faults>>

SaveCreates(p, time) ==
  /\ gen[p].pc = "apply"
  /\ gen[p].seen.state = "new" /\ gathering.state = "new"
  /\ gathering' = [state |-> "live", time |-> time]
  /\ StartGenerating(p)
  /\ UNCHANGED <<notice, resend, now, created, saves, faults>>

(* holdNotificationSyncGatheringIds: only if the time differs from the one  *)
(* that was read. *)
Held(row, time) ==
  IF notice.status = "scheduled" /\ row.time # time
    THEN [notice EXCEPT !.held = TRUE] ELSE notice

(* Another field may change with the time, or alone.  An UPDATE of a row    *)
(* that has gone meanwhile changes nothing.                                 *)
SaveEdits(p, time) ==
  /\ gen[p].pc = "apply"
  /\ gen[p].seen.state = "live"
  /\ notice' = Held(gen[p].seen, time)
  /\ gathering' = IF Live THEN [gathering EXCEPT !.time = time] ELSE gathering
  /\ StartGenerating(p)
  /\ UNCHANGED <<resend, now, created, saves, faults>>

(* Nothing to write for this gathering: it is generated all the same. *)
SaveWritesNothing(p) ==
  /\ gen[p].pc = "apply"
  /\ StartGenerating(p)
  /\ UNCHANGED <<gathering, notice, resend, now, created, saves, faults>>

(* notificationCleanup: schedules that have not started are deleted, and    *)
(* the notification too once it has no schedule left.                       *)
CleanedUp(n) ==
  IF n.status = "started" THEN n
  ELSE IF resend = "started" THEN [n EXCEPT !.status = "cancelled", !.held = FALSE]
  ELSE NoNotice

SaveDeletes(p) ==
  /\ gen[p].pc = "apply"
  /\ gen[p].seen.state = "live" /\ Live
  /\ gathering' = [gathering EXCEPT !.state = "deleted"]
  /\ notice' = CleanedUp(notice)
  /\ resend' = IF resend = "started" THEN "started" ELSE "none"
  /\ StartGenerating(p)
  /\ UNCHANGED <<now, created, saves, faults>>

Save(p) ==
  \/ SaveRead(p) \/ SaveFails(p)
  \/ \E time \in Saved : SaveCreates(p, time) \/ SaveEdits(p, time)
  \/ SaveWritesNothing(p) \/ SaveDeletes(p)

-----------------------------------------------------------------------------
(* reconcileAll, for this gathering *)

CronBegin ==
  /\ gen[Cron].pc = "idle"
  /\ now % Hour = 0
  /\ Live /\ gathering.time # Unset
  /\ gen' = [gen EXCEPT ![Cron] =
       [Idle EXCEPT !.pc = "read", !.cutoff = now + Cut, !.loops = Attempts]]
  /\ UNCHANGED <<gathering, notice, resend, now, created, saves, faults>>

(* After an error the reconciliation holds the notice; a save swallows it.  *)
Thrown(g) == [gen EXCEPT ![g] =
  [Idle EXCEPT !.pc = IF g = Cron THEN "hold" ELSE "idle"]]

Goto(g, pc) == gen' = [gen EXCEPT ![g].pc = pc]

(* createOrUpdateAutomatic returns; what it read is forgotten. *)
Return(g) == gen' = [gen EXCEPT ![g].pc = "reread", ![g].prev = None, ![g].tries = 0]

CronHold ==
  /\ gen[Cron].pc = "hold"
  /\ notice' = IF notice.status = "scheduled" THEN [notice EXCEPT !.held = TRUE] ELSE notice
  /\ gen' = [gen EXCEPT ![Cron] = Idle]
  /\ UNCHANGED <<gathering, resend, now, created, saves, faults>>

-----------------------------------------------------------------------------
(* generate, with createOrUpdateAutomatic *)

TooLate(g, time) == gen[g].cutoff # None /\ SendAt(time) < gen[g].cutoff

GenRead(g) ==
  /\ gen[g].pc = "read"
  /\ gen' = IF ~Live THEN [gen EXCEPT ![g] = Idle]
            ELSE IF gathering.time = Unset THEN Thrown(g)
            ELSE [gen EXCEPT
              ![g].pc = IF TooLate(g, gathering.time) THEN "reread" ELSE "source",
              ![g].time = gathering.time,
              ![g].loops = @ - 1,
              ![g].tries = IF TooLate(g, gathering.time) THEN 0 ELSE Attempts]
  /\ UNCHANGED <<gathering, notice, resend, now, created, saves, faults>>

GenSource(g) ==
  /\ gen[g].pc = "source"
  /\ IF Live THEN Goto(g, "started") ELSE Return(g)
  /\ UNCHANGED <<gathering, notice, resend, now, created, saves, faults>>

GenStarted(g) ==
  /\ gen[g].pc = "started"
  /\ IF HasStarted THEN Return(g) ELSE Goto(g, "find")
  /\ UNCHANGED <<gathering, notice, resend, now, created, saves, faults>>

(* Nothing to do: the notice is up to date, no longer the generator's to    *)
(* change, or too close to its time for the reconciliation to touch it.     *)
UpToDate(g) ==
  notice.status \in {"scheduled", "started"} /\ notice.time = gen[g].time
Settled(g) ==
  \/ notice.status \in {"started", "cancelled"}
  \/ notice.status = "scheduled" /\ TooLate(g, notice.time)
  \/ UpToDate(g)

(* findAutomaticReminder; with no attempt left only an up-to-date notice    *)
(* ends the loop without an error.                                          *)
GenFind(g) ==
  /\ gen[g].pc = "find"
  /\ IF gen[g].tries = 0
       THEN IF UpToDate(g) THEN Return(g) ELSE gen' = Thrown(g)
       ELSE \/ notice.status = "none" /\ Goto(g, "create")
            \/ Settled(g) /\ Return(g)
            \/ /\ notice.status = "scheduled" /\ ~Settled(g)
               /\ gen' = [gen EXCEPT ![g].pc = "write", ![g].prev = notice.time]
  /\ UNCHANGED <<gathering, notice, resend, now, created, saves, faults>>

(* Overtaken: the loop starts over, or ends in its last check. *)
Retry(g) == gen' = [gen EXCEPT
  ![g].tries = @ - 1,
  ![g].prev = None,
  ![g].pc = IF gen[g].tries = 1 THEN "started" ELSE "source"]

(* Mutants of the INSERT: it trusts the SELECTs made before it. *)
InsertableTwice(g) == Live
InsertableForDeleted(g) == notice.status = "none"

(* createAutomaticNotificationIfSourceAbsent: the INSERT checks again that  *)
(* there is a gathering and no notification.                                *)
Insertable(g) == Live /\ notice.status = "none"

GenCreate(g) ==
  /\ gen[g].pc = "create"
  /\ IF Insertable(g)
       THEN /\ notice' = [status |-> "scheduled", time |-> gen[g].time, held |-> FALSE]
            /\ created' = IF created = 0 THEN 1 ELSE 2
            /\ Return(g)
       ELSE Retry(g) /\ UNCHANGED <<notice, created>>
  /\ UNCHANGED <<gathering, resend, now, saves, faults>>

(* Mutant: the batch does not check again whether a schedule has started. *)
WritableStarted(g) == notice.status # "none" /\ notice.time = gen[g].prev

(* The compare-and-swap on source_hash, with every other condition again.   *)
Writable(g) ==
  /\ notice.status = "scheduled"
  /\ notice.time = gen[g].prev
  /\ ~HasStarted
  /\ ~TooLate(g, notice.time)

GenWrite(g) ==
  /\ gen[g].pc = "write"
  /\ IF Writable(g)
       THEN notice' = [notice EXCEPT !.time = gen[g].time] /\ Return(g)
       ELSE Retry(g) /\ UNCHANGED notice
  /\ UNCHANGED <<gathering, resend, now, created, saves, faults>>

(* Mutant: the generator does not look again. *)
RereadAlwaysSame(g) == TRUE

(* Is the time still the one the notice was made for? *)
RereadSame(g) == gathering.time = gen[g].time

GenReread(g) ==
  /\ gen[g].pc = "reread"
  /\ gen' = IF ~Live THEN [gen EXCEPT ![g] = Idle]
            ELSE IF RereadSame(g) THEN [gen EXCEPT ![g].pc = "clear"]
            ELSE IF gen[g].loops = 0 THEN Thrown(g)
            ELSE [gen EXCEPT ![g].pc = "read"]
  /\ UNCHANGED <<gathering, notice, resend, now, created, saves, faults>>

(* Mutant: the hold is lifted only when the notice is not about to be sent. *)
LiftsUnlessLate(g) ==
  /\ notice.status = "scheduled" /\ Live /\ gathering.time = gen[g].time
  /\ ~TooLate(g, notice.time)

(* clearAutomaticScheduleHold for the expected time *)
Lifts(g) == notice.status = "scheduled" /\ Live /\ gathering.time = gen[g].time

GenClear(g) ==
  /\ gen[g].pc = "clear"
  /\ notice' = IF Lifts(g) THEN [notice EXCEPT !.held = FALSE] ELSE notice
  /\ gen' = [gen EXCEPT ![g] = Idle]
  /\ UNCHANGED <<gathering, resend, now, created, saves, faults>>

Generate(g) ==
  \/ GenRead(g) \/ GenSource(g) \/ GenStarted(g) \/ GenFind(g)
  \/ GenCreate(g) \/ GenWrite(g) \/ GenReread(g) \/ GenClear(g)

(* A statement of the generator throws, or the invocation dies. *)
GenFails(g) ==
  /\ gen[g].pc \notin {"idle", "apply"}
  /\ faults < MaxFaults
  /\ faults' = faults + 1
  /\ \/ gen[g].pc # "hold" /\ gen' = Thrown(g)
     \/ gen' = [gen EXCEPT ![g] = Idle]
  /\ UNCHANGED <<gathering, notice, resend, now, created, saves>>

-----------------------------------------------------------------------------
(* The resolver cron, staff and the clock *)

(* findDueCandidates and claimScheduled of the audience resolver *)
ClaimScheduled ==
  /\ notice.status = "scheduled" /\ ~notice.held
  /\ SendAt(notice.time) <= now
  /\ notice' = [notice EXCEPT !.status = "started"]
  /\ UNCHANGED <<gathering, resend, gen, now, created, saves, faults>>

(* Mutant: a withdrawn schedule is kept as a stopped one. *)
CancelAsStopped ==
  /\ notice.status = "scheduled"
  /\ notice' = [notice EXCEPT !.status = "stopped"]
  /\ UNCHANGED <<gathering, resend, gen, now, created, saves, faults>>

(* cancelUnstarted *)
CancelUnstarted ==
  /\ notice.status = "scheduled"
  /\ notice' = [notice EXCEPT !.status = "cancelled", !.held = FALSE]
  /\ UNCHANGED <<gathering, resend, gen, now, created, saves, faults>>

(* createResend: a schedule to copy, and the gathering, must be there. *)
Resendable == notice.status \in {"scheduled", "started"} /\ Live

CreateResend ==
  /\ resend = "none"
  /\ Resendable
  /\ resend' = "scheduled"
  /\ UNCHANGED <<gathering, notice, gen, now, created, saves, faults>>

(* Its send_at is up to staff: it may start at any time. *)
ClaimResend ==
  /\ resend = "scheduled"
  /\ resend' = "started"
  /\ UNCHANGED <<gathering, notice, gen, now, created, saves, faults>>

CancelResend ==
  /\ resend = "scheduled"
  /\ resend' = "none"
  /\ UNCHANGED <<gathering, notice, gen, now, created, saves, faults>>

Tick ==
  /\ now < Horizon
  /\ now' = now + 1
  /\ UNCHANGED <<gathering, notice, resend, gen, created, saves, faults>>

-----------------------------------------------------------------------------
Init ==
  /\ gathering = NewRow
  /\ notice = NoNotice
  /\ resend = "none"
  /\ gen = [g \in Generators |-> Idle]
  /\ now = 0
  /\ created = 0 /\ saves = 0 /\ faults = 0

CronStep == CronBegin \/ CronHold \/ Generate(Cron)

Next ==
  \/ \E p \in Savers : Save(p) \/ Generate(p)
  \/ CronStep
  \/ \E g \in Generators : GenFails(g)
  \/ ClaimScheduled \/ CancelUnstarted
  \/ CreateResend \/ ClaimResend \/ CancelResend
  \/ Tick

Spec == Init /\ [][Next]_vars
=============================================================================
