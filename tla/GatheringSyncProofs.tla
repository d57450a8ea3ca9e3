------------------------- MODULE GatheringSyncProofs -------------------------
(***************************************************************************)
(* What holds of the gathering sync for every number of savers, all times, *)
(* attempts and cutoffs, and however long it runs.                         *)
(***************************************************************************)
EXTENDS GatheringSyncProps, FiniteSetTheorems, TLAPS

-----------------------------------------------------------------------------
(* The states of an invocation *)

LEMMA RestingGen ==
  /\ Idle \in CountedGen
  /\ [Idle EXCEPT !.pc = "hold"] \in CountedGen
  /\ [Idle EXCEPT !.pc = "read", !.loops = Attempts] \in CountedGen
<1>1. Idle \in Gen /\ Idle.pc = "idle"
  BY SyncConstants DEF Idle, Gen, GenPc, Gathering, NewRow
<1>2. Attempts \in 0 .. Attempts /\ Attempts > 0
  BY SyncConstants
<1> QED
  BY <1>1, <1>2 DEF CountedGen, Gen, GenPc

(* A program counter that uses up no attempt may follow any other. *)
LEMMA MovedGen ==
  ASSUME NEW v \in CountedGen, NEW pc \in GenPc \ {"read", "create", "write"}
  PROVE  [v EXCEPT !.pc = pc] \in CountedGen
  BY DEF CountedGen, Gen

LEMMA ReadingGen ==
  ASSUME NEW v \in CountedGen, v.loops # 0
  PROVE  [v EXCEPT !.pc = "read"] \in CountedGen
<1>1. v \in Gen /\ v.loops \in 0 .. Attempts
  BY DEF CountedGen, Gen
<1>2. v.loops > 0
  BY <1>1, SyncConstants
<1> QED
  BY <1>1, <1>2 DEF CountedGen, Gen, GenPc

LEMMA WritingGen ==
  ASSUME NEW v \in CountedGen, v.tries # 0, NEW pc \in {"create", "write"},
         NEW t \in Times \cup {None}
  PROVE  /\ [v EXCEPT !.pc = pc] \in CountedGen
         /\ [v EXCEPT !.pc = pc, !.prev = t] \in CountedGen
<1>1. v \in Gen /\ v.tries \in 0 .. Attempts
  BY DEF CountedGen, Gen
<1>2. v.tries > 0
  BY <1>1, SyncConstants
<1> QED
  BY <1>1, <1>2 DEF CountedGen, Gen, GenPc

LEMMA ReturnedGen ==
  ASSUME NEW v \in CountedGen
  PROVE  [v EXCEPT !.pc = "reread", !.prev = None, !.tries = 0] \in CountedGen
<1>1. 0 \in 0 .. Attempts /\ None \in Times \cup {None} /\ "reread" \in GenPc
  BY SyncConstants DEF GenPc
<1> QED
  BY <1>1 DEF CountedGen, Gen

LEMMA RetriedGen ==
  ASSUME NEW v \in CountedGen, v.tries > 0
  PROVE  [v EXCEPT !.tries = v.tries - 1, !.prev = None,
                   !.pc = IF v.tries = 1 THEN "started" ELSE "source"] \in CountedGen
<1> DEFINE pc == IF v.tries = 1 THEN "started" ELSE "source"
           tries == v.tries - 1
<1>1. pc \in GenPc \ {"read", "create", "write"} /\ tries \in 0 .. Attempts
  BY SyncConstants DEF CountedGen, Gen, GenPc
<1> HIDE DEF pc, tries
<1>2. [v EXCEPT !.tries = tries, !.prev = None, !.pc = pc] \in CountedGen
  BY <1>1 DEF CountedGen, Gen
<1> QED
  BY <1>2 DEF pc, tries

LEMMA StartedGen ==
  ASSUME NEW v \in CountedGen, v.pc = "read", NEW t \in Times, NEW late \in BOOLEAN
  PROVE  [v EXCEPT !.pc = IF late THEN "reread" ELSE "source", !.time = t,
                   !.loops = v.loops - 1,
                   !.tries = IF late THEN 0 ELSE Attempts] \in CountedGen
<1> DEFINE pc == IF late THEN "reread" ELSE "source"
           loops == v.loops - 1
           tries == IF late THEN 0 ELSE Attempts
<1>1. /\ pc \in GenPc \ {"read", "create", "write"}
      /\ loops \in 0 .. Attempts /\ tries \in 0 .. Attempts
  BY SyncConstants DEF CountedGen, Gen, GenPc
<1> HIDE DEF pc, loops, tries
<1>2. [v EXCEPT !.pc = pc, !.time = t, !.loops = loops, !.tries = tries] \in CountedGen
  BY <1>1 DEF CountedGen, Gen
<1> QED
  BY <1>2 DEF pc, loops, tries

-----------------------------------------------------------------------------
(* Type correctness, action by action *)

LEMMA GenStep ==
  ASSUME TypeOK, NEW g \in Generators, NEW v \in CountedGen,
         gen' = [gen EXCEPT ![g] = v]
  PROVE  gen' \in [Generators -> CountedGen]
  BY DEF TypeOK

(* What a generator does to its own state when it stops or returns. *)
LEMMA LeavingGen ==
  ASSUME TypeOK, NEW g \in Generators
  PROVE  /\ [gen EXCEPT ![g] = Idle] \in [Generators -> CountedGen]
         /\ Thrown(g) \in [Generators -> CountedGen]
         /\ Return(g) => gen' \in [Generators -> CountedGen]
         /\ StartGenerating(g) => gen' \in [Generators -> CountedGen]
         /\ \A pc \in GenPc \ {"read", "create", "write"} :
              Goto(g, pc) => gen' \in [Generators -> CountedGen]
<1>1. gen \in [Generators -> CountedGen] /\ gen[g] \in CountedGen
  BY DEF TypeOK
<1>2. [gen EXCEPT ![g] = Idle] \in [Generators -> CountedGen]
  BY <1>1, RestingGen
<1>3. Thrown(g) \in [Generators -> CountedGen]
  <2>1. CASE g = Cron
    BY <1>1, <2>1, RestingGen DEF Thrown
  <2>2. CASE g # Cron
    <3>1. [Idle EXCEPT !.pc = "idle"] = Idle
      BY DEF Idle
    <3> QED
      BY <1>1, <2>2, <3>1, RestingGen DEF Thrown
  <2> QED
    BY <2>1, <2>2
<1>4. ASSUME Return(g)
      PROVE  gen' \in [Generators -> CountedGen]
  <2>1. gen' = [gen EXCEPT ![g] =
                  [gen[g] EXCEPT !.pc = "reread", !.prev = None, !.tries = 0]]
    BY <1>1, <1>4 DEF Return
  <2> QED
    BY <1>1, <2>1, ReturnedGen
<1>5. ASSUME StartGenerating(g)
      PROVE  gen' \in [Generators -> CountedGen]
  BY <1>1, <1>5, RestingGen DEF StartGenerating
<1>6. ASSUME NEW pc \in GenPc \ {"read", "create", "write"}, Goto(g, pc)
      PROVE  gen' \in [Generators -> CountedGen]
  BY <1>1, <1>6, MovedGen DEF Goto
<1> QED
  BY <1>2, <1>3, <1>4, <1>5, <1>6

LEMMA SaveTypeOK ==
  ASSUME TypeOK, NEW p \in Savers, Save(p)
  PROVE  TypeOK'
<1> p \in Generators
  BY DEF Generators
<1>1. CASE SaveRead(p)
  <2>1. gen[p] \in CountedGen /\ gathering \in Gathering
    BY DEF TypeOK
  <2>2. [gen[p] EXCEPT !.pc = "apply", !.seen = gathering] \in CountedGen
    BY <2>1 DEF CountedGen, Gen, GenPc
  <2>3. gen' = [gen EXCEPT ![p] = [gen[p] EXCEPT !.pc = "apply", !.seen = gathering]]
    BY <1>1 DEF SaveRead, TypeOK
  <2> QED
    BY <1>1, <2>2, <2>3, GenStep, SyncConstants DEF SaveRead, TypeOK
<1>2. CASE SaveFails(p)
  BY <1>2, LeavingGen DEF SaveFails, TypeOK
<1>3. CASE SaveWritesNothing(p)
  BY <1>3, LeavingGen DEF SaveWritesNothing, TypeOK
<1>4. ASSUME NEW time \in Saved, SaveCreates(p, time)
      PROVE  TypeOK'
  <2>1. gathering' \in Gathering
    BY <1>4, SyncConstants DEF SaveCreates, Gathering
  <2> QED
    BY <1>4, <2>1, LeavingGen DEF SaveCreates, TypeOK
<1>5. ASSUME NEW time \in Saved, SaveEdits(p, time)
      PROVE  TypeOK'
  <2>1. gathering' \in Gathering
    BY <1>5, SyncConstants DEF SaveEdits, TypeOK, Gathering
  <2>2. notice' \in Notice
    BY <1>5 DEF SaveEdits, Held, TypeOK, Notice
  <2> QED
    BY <1>5, <2>1, <2>2, LeavingGen DEF SaveEdits, TypeOK
<1>6. CASE SaveDeletes(p)
  <2>1. gathering' \in Gathering
    BY <1>6 DEF SaveDeletes, TypeOK, Gathering
  <2>2. notice' \in Notice
    BY <1>6 DEF SaveDeletes, CleanedUp, TypeOK, Notice, NoNotice
  <2> QED
    BY <1>6, <2>1, <2>2, LeavingGen DEF SaveDeletes, TypeOK
<1> QED
  BY <1>1, <1>2, <1>3, <1>4, <1>5, <1>6 DEF Save

LEMMA GenReadTypeOK ==
  ASSUME TypeOK, NEW g \in Generators, GenRead(g)
  PROVE  TypeOK'
<1>1. gen \in [Generators -> CountedGen] /\ gen[g] \in CountedGen
  BY DEF TypeOK
<1>2. CASE ~Live \/ gathering.time = Unset
  BY <1>2, LeavingGen DEF GenRead, TypeOK
<1>3. CASE Live /\ gathering.time # Unset
  <2> DEFINE late == TooLate(g, gathering.time)
             v == [gen[g] EXCEPT !.pc = IF late THEN "reread" ELSE "source",
                                 !.time = gathering.time, !.loops = gen[g].loops - 1,
                                 !.tries = IF late THEN 0 ELSE Attempts]
  <2>1. gathering.time \in Times /\ gen[g].pc = "read" /\ late \in BOOLEAN
    BY <1>3 DEF GenRead, TypeOK, Gathering, TooLate
  <2>2. gen' = [gen EXCEPT ![g] = v]
    BY <1>1, <1>3 DEF GenRead
  <2>3. v \in CountedGen
    <3> HIDE DEF late
    <3> QED
      BY <1>1, <2>1, StartedGen
  <2> HIDE DEF v
  <2> QED
    BY <2>2, <2>3, GenStep DEF GenRead, TypeOK
<1> QED
  BY <1>2, <1>3

LEMMA GenFindTypeOK ==
  ASSUME TypeOK, NEW g \in Generators, GenFind(g)
  PROVE  TypeOK'
<1>1. gen \in [Generators -> CountedGen] /\ gen[g] \in CountedGen
  BY DEF TypeOK
<1>2. notice.time \in Times \cup {None}
  BY DEF TypeOK, Notice
<1>3. gen' \in [Generators -> CountedGen]
  <2>1. CASE gen' = Thrown(g) \/ Return(g)
    BY <2>1, LeavingGen
  <2>2. CASE gen[g].tries # 0 /\ Goto(g, "create")
    BY <1>1, <1>2, <2>2, WritingGen DEF Goto
  <2>3. CASE gen[g].tries # 0 /\ gen' = [gen EXCEPT ![g].pc = "write", ![g].prev = notice.time]
    <3>1. gen' = [gen EXCEPT ![g] = [gen[g] EXCEPT !.pc = "write", !.prev = notice.time]]
      BY <1>1, <2>3
    <3>2. [gen[g] EXCEPT !.pc = "write", !.prev = notice.time] \in CountedGen
      BY <1>1, <1>2, <2>3, WritingGen
    <3> QED
      BY <3>1, <3>2, GenStep
  <2> QED
    BY <2>1, <2>2, <2>3 DEF GenFind
<1> QED
  BY <1>3 DEF GenFind, TypeOK

LEMMA RetryTypeOK ==
  ASSUME TypeOK, NEW g \in Generators, gen[g].pc \in {"create", "write"}, Retry(g)
  PROVE  gen' \in [Generators -> CountedGen]
<1> DEFINE v == [gen[g] EXCEPT !.tries = gen[g].tries - 1, !.prev = None,
                   !.pc = IF gen[g].tries = 1 THEN "started" ELSE "source"]
<1>1. gen \in [Generators -> CountedGen] /\ gen[g] \in CountedGen /\ gen[g].tries > 0
  BY DEF TypeOK, CountedGen
<1>2. gen' = [gen EXCEPT ![g] = v]
  BY <1>1 DEF Retry
<1>3. v \in CountedGen
  BY <1>1, RetriedGen
<1> HIDE DEF v
<1> QED
  BY <1>2, <1>3, GenStep

LEMMA GenerateTypeOK ==
  ASSUME TypeOK, NEW g \in Generators, Generate(g)
  PROVE  TypeOK'
<1>1. gen \in [Generators -> CountedGen] /\ gen[g] \in CountedGen
  BY DEF TypeOK
<1>2. CASE GenRead(g)
  BY <1>2, GenReadTypeOK
<1>3. CASE GenSource(g) \/ GenStarted(g)
  <2>1. {"started", "find"} \subseteq GenPc \ {"read", "create", "write"}
    BY DEF GenPc
  <2> QED
    BY <1>3, <2>1, LeavingGen DEF GenSource, GenStarted, TypeOK
<1>4. CASE GenFind(g)
  BY <1>4, GenFindTypeOK
<1>5. CASE GenCreate(g)
  <2>1. gen' \in [Generators -> CountedGen]
    BY <1>5, LeavingGen, RetryTypeOK DEF GenCreate
  <2>2. gen[g].time \in Times \cup {None}
    BY <1>1 DEF CountedGen, Gen
  <2>3. [status |-> "scheduled", time |-> gen[g].time, held |-> FALSE] \in Notice
    BY <2>2 DEF Notice
  <2>4. notice' \in Notice
    BY <1>5, <2>3 DEF GenCreate, TypeOK
  <2>5. created' \in 0 .. 2
    BY <1>5 DEF GenCreate, TypeOK
  <2> QED
    BY <1>5, <2>1, <2>4, <2>5 DEF GenCreate, TypeOK
<1>6. CASE GenWrite(g)
  <2>1. gen' \in [Generators -> CountedGen]
    BY <1>6, LeavingGen, RetryTypeOK DEF GenWrite
  <2>2. gen[g].time \in Times \cup {None}
    BY <1>1 DEF CountedGen, Gen
  <2>3. notice' \in Notice
    BY <1>6, <2>2 DEF GenWrite, TypeOK, Notice
  <2> QED
    BY <1>6, <2>1, <2>3 DEF GenWrite, TypeOK
<1>7. CASE GenReread(g)
  <2>1. "clear" \in GenPc \ {"read", "create", "write"}
    BY DEF GenPc
  <2>2. gen' \in [Generators -> CountedGen]
    BY <1>1, <1>7, <2>1, LeavingGen, MovedGen, ReadingGen DEF GenReread
  <2> QED
    BY <1>7, <2>2 DEF GenReread, TypeOK
<1>8. CASE GenClear(g)
  <2>1. notice' \in Notice
    BY <1>8 DEF GenClear, TypeOK, Notice
  <2> QED
    BY <1>8, <2>1, LeavingGen DEF GenClear, TypeOK
<1> QED
  BY <1>2, <1>3, <1>4, <1>5, <1>6, <1>7, <1>8 DEF Generate

(* The resolver, staff, the clock, the cron's own steps and failures. *)
LEMMA OtherTypeOK ==
  ASSUME TypeOK,
         \/ CronBegin \/ CronHold
         \/ \E g \in Generators : GenFails(g)
         \/ ClaimScheduled \/ CancelUnstarted
         \/ CreateResend \/ ClaimResend \/ CancelResend
         \/ Tick
  PROVE  TypeOK'
<1> Cron \in Generators
  BY DEF Generators
<1>1. CASE CronBegin
  <2> DEFINE v == [Idle EXCEPT !.pc = "read", !.cutoff = now + Cut, !.loops = Attempts]
  <2>1. now + Cut \in Nat \cup {None} /\ Attempts \in 0 .. Attempts /\ Attempts > 0
    BY SyncConstants DEF TypeOK
  <2>2. v \in CountedGen
    <3> DEFINE cutoff == now + Cut
    <3> cutoff \in Nat \cup {None}
      BY <2>1
    <3> HIDE DEF cutoff
    <3>1. ASSUME NEW r \in CountedGen
          PROVE  [r EXCEPT !.cutoff = cutoff] \in CountedGen
      BY DEF CountedGen, Gen
    <3>2. [[Idle EXCEPT !.pc = "read", !.loops = Attempts] EXCEPT !.cutoff = cutoff]
            \in CountedGen
      BY <3>1, RestingGen
    <3>3. [Idle EXCEPT !.pc = "read", !.cutoff = cutoff, !.loops = Attempts]
            = [[Idle EXCEPT !.pc = "read", !.loops = Attempts] EXCEPT !.cutoff = cutoff]
      BY DEF Idle
    <3> QED
      BY <3>2, <3>3 DEF cutoff
  <2>3. gen' = [gen EXCEPT ![Cron] = v]
    BY <1>1 DEF CronBegin
  <2> HIDE DEF v
  <2> QED
    BY <1>1, <2>2, <2>3, GenStep DEF CronBegin, TypeOK
<1>2. CASE CronHold
  <2>1. notice' \in Notice
    BY <1>2 DEF CronHold, TypeOK, Notice
  <2> QED
    BY <1>2, <2>1, LeavingGen DEF CronHold, TypeOK
<1>3. ASSUME NEW g \in Generators, GenFails(g)
      PROVE  TypeOK'
  <2>1. gen' \in [Generators -> CountedGen]
    BY <1>3, LeavingGen DEF GenFails
  <2>2. faults' \in 0 .. MaxFaults
    BY <1>3, SyncConstants DEF GenFails, TypeOK
  <2> QED
    BY <1>3, <2>1, <2>2 DEF GenFails, TypeOK
<1>4. CASE ClaimScheduled \/ CancelUnstarted
  <2>1. notice' \in Notice
    BY <1>4 DEF ClaimScheduled, CancelUnstarted, TypeOK, Notice
  <2> QED
    BY <1>4, <2>1 DEF ClaimScheduled, CancelUnstarted, TypeOK
<1>5. CASE CreateResend \/ ClaimResend \/ CancelResend
  BY <1>5 DEF CreateResend, ClaimResend, CancelResend, TypeOK
<1>6. CASE Tick
  BY <1>6, SyncConstants DEF Tick, TypeOK
<1> QED
  BY <1>1, <1>2, <1>3, <1>4, <1>5, <1>6

LEMMA InitTypeOK == Init => TypeOK
<1>1. NewRow \in Gathering /\ NoNotice \in Notice
  BY DEF NewRow, Gathering, NoNotice, Notice
<1>2. [g \in Generators |-> Idle] \in [Generators -> CountedGen]
  BY RestingGen
<1> QED
  BY <1>1, <1>2, SyncConstants DEF Init, TypeOK

LEMMA NextTypeOK == TypeOK /\ [Next]_vars => TypeOK'
<1> SUFFICES ASSUME TypeOK, [Next]_vars
             PROVE  TypeOK'
  OBVIOUS
<1>1. CASE UNCHANGED vars
  BY <1>1 DEF vars, TypeOK
<1>2. CASE \E p \in Savers : Save(p)
  BY <1>2, SaveTypeOK
<1>3. CASE \E g \in Generators : Generate(g)
  BY <1>3, GenerateTypeOK
<1> QED
  BY <1>1, <1>2, <1>3, OtherTypeOK DEF Next, CronStep, Generators

(* The type invariant, with the attempts a generator has left. *)
THEOREM SpecTypeOK == Spec => []TypeOK
  BY InitTypeOK, NextTypeOK, PTL DEF Spec

-----------------------------------------------------------------------------
(* One notification at most, and what is left of it.  `created` counts what *)
(* has ever been created: the count says nothing of the next INSERT unless  *)
(* a notification that was created is still there, or its gathering is gone *)
(* for good.  A resend needs the notification it sends again.               *)

CountsNotice ==
  /\ created <= 1
  /\ notice.status # "none" => created = 1
  /\ created = 1 => notice.status # "none" \/ gathering.state = "deleted"

ResendHasNotice == notice.status = "none" => resend = "none"

NoticeInv == CountsNotice /\ NoOrphanNotice /\ ResendHasNotice

(* Most steps leave every row in the state it is in: they rewrite, hold or  *)
(* release the notice at most.                                              *)
SameRows ==
  /\ gathering' = gathering /\ notice'.status = notice.status
  /\ resend' = resend /\ created' = created

LEMMA SameRowsKeep ==
  ASSUME NoticeInv, SameRows
  PROVE  NoticeInv'
  BY DEF NoticeInv, SameRows, CountsNotice, NoOrphanNotice, ResendHasNotice

LEMMA SaveKeeps ==
  ASSUME TypeOK, NoticeInv, NEW p \in Savers, Save(p)
  PROVE  NoticeInv'
<1>1. CASE SaveRead(p) \/ SaveFails(p) \/ SaveWritesNothing(p)
  BY <1>1, SameRowsKeep DEF SaveRead, SaveFails, SaveWritesNothing, SameRows
<1>2. ASSUME NEW time \in Saved, SaveCreates(p, time)
      PROVE  NoticeInv'
  BY <1>2 DEF SaveCreates, NoticeInv, CountsNotice, NoOrphanNotice, ResendHasNotice
<1>3. ASSUME NEW time \in Saved, SaveEdits(p, time)
      PROVE  NoticeInv'
  <2>1. notice'.status = notice.status
    BY <1>3 DEF SaveEdits, Held, TypeOK, Notice
  <2>2. gathering'.state = gathering.state
    BY <1>3 DEF SaveEdits, TypeOK, Gathering
  <2> QED
    BY <1>3, <2>1, <2>2
       DEF SaveEdits, NoticeInv, CountsNotice, NoOrphanNotice, ResendHasNotice
<1>4. CASE SaveDeletes(p)
  <2>1. gathering'.state = "deleted"
    BY <1>4 DEF SaveDeletes, TypeOK, Gathering
  <2>2. /\ notice'.status # "scheduled"
        /\ notice'.status = "none" => resend # "started"
        /\ notice'.status # "none" => notice.status # "none"
    BY <1>4 DEF SaveDeletes, CleanedUp, NoNotice, TypeOK, Notice,
                NoticeInv, ResendHasNotice
  <2> QED
    BY <1>4, <2>1, <2>2
       DEF SaveDeletes, NoticeInv, CountsNotice, NoOrphanNotice, ResendHasNotice
<1> QED
  BY <1>1, <1>2, <1>3, <1>4 DEF Save

LEMMA GenerateKeeps ==
  ASSUME TypeOK, NoticeInv, NEW g \in Generators, Generate(g)
  PROVE  NoticeInv'
<1>1. CASE GenRead(g) \/ GenSource(g) \/ GenStarted(g) \/ GenFind(g) \/ GenReread(g)
  BY <1>1, SameRowsKeep DEF GenRead, GenSource, GenStarted, GenFind, GenReread, SameRows
<1>2. CASE GenWrite(g) \/ GenClear(g)
  <2>1. notice'.status = notice.status
    BY <1>2 DEF GenWrite, GenClear, TypeOK, Notice
  <2> QED
    BY <1>2, <2>1, SameRowsKeep DEF GenWrite, GenClear, SameRows
<1>3. CASE GenCreate(g)
  <2>1. CASE ~Insertable(g)
    BY <1>3, <2>1, SameRowsKeep DEF GenCreate, SameRows
  <2>2. CASE Insertable(g)
    <3>1. created = 0 /\ resend = "none"
      BY <2>2 DEF Insertable, Live, TypeOK, NoticeInv, CountsNotice, ResendHasNotice
    <3>2. notice'.status = "scheduled" /\ created' = 1
      BY <1>3, <2>2, <3>1 DEF GenCreate
    <3> QED
      BY <1>3, <2>2, <3>1, <3>2
         DEF GenCreate, Insertable, Live, NoticeInv, CountsNotice, NoOrphanNotice,
             ResendHasNotice
  <2> QED
    BY <2>1, <2>2
<1> QED
  BY <1>1, <1>2, <1>3 DEF Generate

LEMMA OtherKeeps ==
  ASSUME TypeOK, NoticeInv,
         \/ CronBegin \/ CronHold
         \/ \E g \in Generators : GenFails(g)
         \/ ClaimScheduled \/ CancelUnstarted
         \/ CreateResend \/ ClaimResend \/ CancelResend
         \/ Tick
  PROVE  NoticeInv'
<1>1. CASE CronBegin \/ (\E g \in Generators : GenFails(g)) \/ Tick
  BY <1>1, SameRowsKeep DEF CronBegin, GenFails, Tick, SameRows
<1>2. CASE CronHold
  <2>1. notice'.status = notice.status
    BY <1>2 DEF CronHold, TypeOK, Notice
  <2> QED
    BY <1>2, <2>1, SameRowsKeep DEF CronHold, SameRows
<1>3. CASE ClaimScheduled \/ CancelUnstarted
  <2>1. notice.status = "scheduled" /\ notice'.status \in {"started", "cancelled"}
    BY <1>3 DEF ClaimScheduled, CancelUnstarted, TypeOK, Notice
  <2> QED
    BY <1>3, <2>1 DEF ClaimScheduled, CancelUnstarted, NoticeInv, CountsNotice,
                      NoOrphanNotice, ResendHasNotice
<1>4. CASE CreateResend \/ ClaimResend \/ CancelResend
  BY <1>4 DEF CreateResend, Resendable, Live, ClaimResend, CancelResend, NoticeInv,
              CountsNotice, NoOrphanNotice, ResendHasNotice
<1> QED
  BY <1>1, <1>2, <1>3, <1>4

LEMMA NextNoticeInv == TypeOK /\ NoticeInv /\ [Next]_vars => NoticeInv'
<1> SUFFICES ASSUME TypeOK, NoticeInv, [Next]_vars
             PROVE  NoticeInv'
  OBVIOUS
<1>1. CASE UNCHANGED vars
  BY <1>1, SameRowsKeep DEF vars, SameRows
<1>2. CASE \E p \in Savers : Save(p)
  BY <1>2, SaveKeeps
<1>3. CASE \E g \in Generators : Generate(g)
  BY <1>3, GenerateKeeps
<1> QED
  BY <1>1, <1>2, <1>3, OtherKeeps DEF Next, CronStep, Generators

LEMMA SpecNoticeInv == Spec => []NoticeInv
<1>1. Init => NoticeInv
  BY DEF Init, NewRow, NoNotice, NoticeInv, CountsNotice, NoOrphanNotice, ResendHasNotice
<1> QED
  BY <1>1, NextNoticeInv, SpecTypeOK, PTL DEF Spec

(* However many generators run, and whenever each was delayed, one          *)
(* notification is created for the gathering at most.                       *)
THEOREM SpecAtMostOneNotice == Spec => []AtMostOneNotice
<1>1. NoticeInv => AtMostOneNotice
  BY DEF NoticeInv, CountsNotice, AtMostOneNotice
<1> QED
  BY <1>1, SpecNoticeInv, PTL

(* Nothing that would still be sent outlives its gathering.                 *)
THEOREM SpecNoOrphanNotice == Spec => []NoOrphanNotice
<1>1. NoticeInv => NoOrphanNotice
  BY DEF NoticeInv
<1> QED
  BY <1>1, SpecNoticeInv, PTL

-----------------------------------------------------------------------------
(* A started notification keeps its text.  The delicate steps are those     *)
(* that set a time: the INSERT, which needs a notification that is not      *)
(* there and so has no resend, the compare-and-swap, which asks again, and  *)
(* the deletion, which drops the row only while nothing of it has started.  *)

Frozen == HasStarted => notice'.time = notice.time

LEMMA NextFrozen ==
  ASSUME TypeOK, NoticeInv, [Next]_vars
  PROVE  Frozen
<1>1. CASE UNCHANGED notice
  BY <1>1 DEF Frozen
<1>2. ASSUME NEW p \in Savers, Save(p), ~UNCHANGED notice
      PROVE  Frozen
  <2>1. ASSUME NEW time \in Saved, SaveEdits(p, time)
        PROVE  Frozen
    BY <2>1 DEF SaveEdits, Held, Frozen, TypeOK, Notice
  <2>2. CASE SaveDeletes(p)
    BY <2>2 DEF SaveDeletes, CleanedUp, HasStarted, Frozen, TypeOK, Notice
  <2> QED
    BY <1>2, <2>1, <2>2 DEF Save, SaveRead, SaveFails, SaveCreates, SaveWritesNothing
<1>3. ASSUME NEW g \in Generators, Generate(g), ~UNCHANGED notice
      PROVE  Frozen
  <2>1. CASE GenCreate(g)
    BY <1>3, <2>1 DEF GenCreate, Insertable, HasStarted, Frozen, NoticeInv, ResendHasNotice
  <2>2. CASE GenWrite(g)
    BY <1>3, <2>2 DEF GenWrite, Writable, Frozen
  <2>3. CASE GenClear(g)
    BY <2>3 DEF GenClear, Frozen, TypeOK, Notice
  <2> QED
    BY <1>3, <2>1, <2>2, <2>3
       DEF Generate, GenRead, GenSource, GenStarted, GenFind, GenReread
<1>4. CASE CronHold \/ ClaimScheduled \/ CancelUnstarted
  BY <1>4 DEF CronHold, ClaimScheduled, CancelUnstarted, Frozen, TypeOK, Notice
<1>5. CASE \/ CronBegin \/ CreateResend \/ ClaimResend \/ CancelResend \/ Tick
           \/ \E g \in Generators : GenFails(g)
  BY <1>1, <1>5 DEF CronBegin, CreateResend, ClaimResend, CancelResend, Tick, GenFails
<1> QED
  BY <1>1, <1>2, <1>3, <1>4, <1>5 DEF Next, CronStep, Generators, vars

(* Once a schedule of the notification has started, no step changes what    *)
(* the notification says.                                                   *)
THEOREM SpecFrozenOnceStarted == Spec => FrozenOnceStarted
<1>1. TypeOK /\ NoticeInv /\ [Next]_vars => [HasStarted => notice'.time = notice.time]_vars
  BY NextFrozen DEF Frozen
<1> QED
  BY <1>1, SpecTypeOK, SpecNoticeInv, PTL DEF Spec, FrozenOnceStarted

-----------------------------------------------------------------------------
(* An outdated notice has somebody at work on it.  `held` plays no part:    *)
(* while the notice is missing or names an outdated time, some generator    *)
(* will bring it up to date, whatever the others do in the meantime.        *)

OutOfSync ==
  /\ Live /\ ~HasStarted
  /\ \/ notice.status = "none"
     \/ notice.status = "scheduled" /\ notice.time # gathering.time

(* createOrUpdateAutomatic under way: the time was read a while ago.        *)
Checking == {"source", "started", "find", "create", "write"}

(* The reconciliation may write an outdated time and then find the notice   *)
(* too close to its time to correct it.  A save always corrects its own.    *)
CronMayStrike == gen[Cron].pc \in Checking /\ gen[Cron].time # gathering.time

(* Another generator wrote since this one looked: it needs one attempt more. *)
Overtaken(g) ==
  \/ gen[g].pc = "create" /\ notice.status # "none"
  \/ gen[g].pc = "write" /\ (notice.status # "scheduled" \/ notice.time # gen[g].prev)

SaverWillSync(p) ==
  \/ gen[p].pc = "read"
  \/ /\ gen[p].pc \in Checking
     /\ gen[p].tries > (IF CronMayStrike THEN 1 ELSE 0) + (IF Overtaken(p) THEN 1 ELSE 0)
  \/ gen[p].pc = "reread" /\ gen[p].time # gathering.time

CronWillSync ==
  /\ notice.status = "scheduled"
  /\ ~TooLate(Cron, gathering.time) /\ ~TooLate(Cron, notice.time)
  /\ \/ gen[Cron].pc = "read"
     \/ gen[Cron].pc \in {"source", "started", "find"} /\ gen[Cron].tries > 0
     \/ gen[Cron].pc = "write" /\ notice.time = gen[Cron].prev
     \/ gen[Cron].pc = "reread" /\ gen[Cron].time # gathering.time

SyncInv == OutOfSync => CronWillSync \/ \E p \in Savers : SaverWillSync(p)

(* A cutoff belongs to the reconciliation, which leaves alone what it has   *)
(* read too late.                                                           *)
CutoffInv ==
  /\ \A p \in Savers : gen[p].cutoff = None
  /\ gen[Cron].pc \in Checking => ~TooLate(Cron, gen[Cron].time)

TimeInv == Live => gathering.time # Unset

(* Nobody gives up: a generator that has been overtaken reads again.        *)
AttemptsLeft ==
  /\ \A g \in Generators :
       gen[g].pc = "reread" /\ Live /\ gen[g].time # gathering.time => gen[g].loops > 0
  /\ CronMayStrike => Attempts > 1

-----------------------------------------------------------------------------
(* What a step does to the generators *)

Alone(g) == \A h \in Generators \ {g} : gen'[h] = gen[h]

LEMMA ThrownAlone ==
  ASSUME TypeOK, NEW g \in Generators, NEW v, gen' = [gen EXCEPT ![g] = v]
  PROVE  gen'[g] = v /\ Alone(g)
  BY DEF TypeOK, Alone

LEMMA CronMoves ==
  ASSUME TypeOK, CronBegin \/ CronHold
  PROVE  /\ Alone(Cron) /\ gen'[Cron].pc \in {"read", "idle"}
         /\ gen[Cron].pc \in {"idle", "hold"}
         /\ gen'[Cron].pc = "read" => Live /\ gen'[Cron].loops = Attempts
<1> DEFINE v == [Idle EXCEPT !.pc = "read", !.cutoff = now + Cut, !.loops = Attempts]
<1>1. v.pc = "read" /\ v.loops = Attempts /\ Idle.pc = "idle"
  BY DEF Idle
<1>2. \/ gen' = [gen EXCEPT ![Cron] = v] /\ Live
      \/ gen' = [gen EXCEPT ![Cron] = Idle]
  BY DEF CronBegin, CronHold
<1> HIDE DEF v
<1>3. Alone(Cron) /\ ((gen'[Cron] = v /\ Live) \/ gen'[Cron] = Idle)
  BY <1>2, ThrownAlone DEF Generators
<1> QED
  BY <1>1, <1>3 DEF CronBegin, CronHold

LEMMA IdleMoves ==
  ASSUME TypeOK, NEW g \in Generators,
         gen' = [gen EXCEPT ![g] = Idle] \/ gen' = Thrown(g)
  PROVE  /\ Alone(g) /\ gen'[g].pc \in {"idle", "hold"} /\ gen'[g].cutoff = None
         /\ g # Cron => gen'[g].pc = "idle"
<1>1. \A pc : [Idle EXCEPT !.pc = pc].pc = pc /\ [Idle EXCEPT !.pc = pc].cutoff = None
  BY DEF Idle
<1>2. Idle.pc = "idle" /\ Idle.cutoff = None
  BY DEF Idle
<1>3. CASE gen' = [gen EXCEPT ![g] = Idle]
  BY <1>2, <1>3, ThrownAlone
<1>4. CASE gen' = Thrown(g)
  <2> DEFINE pc == IF g = Cron THEN "hold" ELSE "idle"
  <2>1. gen' = [gen EXCEPT ![g] = [Idle EXCEPT !.pc = pc]]
    BY <1>4 DEF Thrown
  <2>2. Alone(g) /\ gen'[g] = [Idle EXCEPT !.pc = pc]
    BY <2>1, ThrownAlone
  <2>3. gen'[g].pc = pc /\ gen'[g].cutoff = None
    <3> HIDE DEF pc
    <3> QED
      BY <1>1, <2>2
  <2> QED
    BY <2>2, <2>3
<1> QED
  BY <1>3, <1>4

LEMMA ReturnMoves ==
  ASSUME TypeOK, NEW g \in Generators, Return(g)
  PROVE  /\ Alone(g)
         /\ gen'[g] = [gen[g] EXCEPT !.pc = "reread", !.prev = None, !.tries = 0]
         /\ gen'[g].pc = "reread" /\ gen'[g].time = gen[g].time
         /\ gen'[g].loops = gen[g].loops /\ gen'[g].cutoff = gen[g].cutoff
<1>1. gen \in [Generators -> CountedGen] /\ gen[g] \in Gen
  BY DEF TypeOK, CountedGen
<1> QED
  BY <1>1 DEF Return, Alone, Gen

LEMMA GotoMoves ==
  ASSUME TypeOK, NEW g \in Generators, NEW pc, Goto(g, pc)
  PROVE  /\ Alone(g)
         /\ gen'[g] = [gen[g] EXCEPT !.pc = pc]
         /\ gen'[g].pc = pc /\ gen'[g].time = gen[g].time
         /\ gen'[g].tries = gen[g].tries /\ gen'[g].prev = gen[g].prev
         /\ gen'[g].loops = gen[g].loops /\ gen'[g].cutoff = gen[g].cutoff
<1>1. gen \in [Generators -> CountedGen] /\ gen[g] \in Gen
  BY DEF TypeOK, CountedGen
<1> QED
  BY <1>1 DEF Goto, Alone, Gen

LEMMA RetryMoves ==
  ASSUME TypeOK, NEW g \in Generators, Retry(g)
  PROVE  /\ Alone(g)
         /\ gen'[g].pc = IF gen[g].tries = 1 THEN "started" ELSE "source"
         /\ gen'[g].tries = gen[g].tries - 1 /\ gen'[g].time = gen[g].time
         /\ gen'[g].loops = gen[g].loops /\ gen'[g].cutoff = gen[g].cutoff
<1>1. gen \in [Generators -> CountedGen] /\ gen[g] \in Gen
  BY DEF TypeOK, CountedGen
<1> QED
  BY <1>1 DEF Retry, Alone, Gen

LEMMA ReadMoves ==
  ASSUME TypeOK, NEW g \in Generators, GenRead(g), Live, gathering.time # Unset
  PROVE  /\ Alone(g)
         /\ gen'[g].pc = IF TooLate(g, gathering.time) THEN "reread" ELSE "source"
         /\ gen'[g].tries = IF TooLate(g, gathering.time) THEN 0 ELSE Attempts
         /\ gen'[g].time = gathering.time
         /\ gen'[g].loops = gen[g].loops - 1 /\ gen'[g].cutoff = gen[g].cutoff
<1>1. gen \in [Generators -> CountedGen] /\ gen[g] \in Gen
  BY DEF TypeOK, CountedGen
<1> QED
  BY <1>1 DEF GenRead, Alone, Gen

(* The notice that was found is remembered until it is written.             *)
LEMMA FindMoves ==
  ASSUME TypeOK, NEW g \in Generators, GenFind(g)
  PROVE  \/ gen' = Thrown(g) /\ gen[g].tries = 0
         \/ Return(g) /\ (UpToDate(g) \/ Settled(g))
         \/ Goto(g, "create") /\ notice.status = "none" /\ gen[g].tries # 0
         \/ /\ notice.status = "scheduled" /\ ~Settled(g) /\ gen[g].tries # 0
            /\ Alone(g)
            /\ gen'[g].pc = "write" /\ gen'[g].prev = notice.time
            /\ gen'[g].tries = gen[g].tries /\ gen'[g].time = gen[g].time
            /\ gen'[g].loops = gen[g].loops /\ gen'[g].cutoff = gen[g].cutoff
<1>1. gen \in [Generators -> CountedGen] /\ gen[g] \in Gen
  BY DEF TypeOK, CountedGen
<1>2. CASE gen' = [gen EXCEPT ![g].pc = "write", ![g].prev = notice.time]
  <2>1. /\ Alone(g)
        /\ gen'[g].pc = "write" /\ gen'[g].prev = notice.time
        /\ gen'[g].tries = gen[g].tries /\ gen'[g].time = gen[g].time
        /\ gen'[g].loops = gen[g].loops /\ gen'[g].cutoff = gen[g].cutoff
    BY <1>1, <1>2 DEF Alone, Gen
  <2> QED
    BY <2>1 DEF GenFind
<1> QED
  BY <1>2 DEF GenFind

-----------------------------------------------------------------------------
(* Who will sync keeps it while others move *)

LEMMA TriesLeft ==
  ASSUME TypeOK, NEW g \in Generators
  PROVE  /\ gen[g].tries \in Nat /\ gen[g].loops \in 0 .. Attempts
         /\ gen[g].pc \in {"create", "write"} => gen[g].tries > 0
  BY SyncConstants DEF TypeOK, CountedGen, Gen

(* Nothing about a save changes when the rows and its generator stay, and   *)
(* the reconciliation has not read a time that is outdated now.             *)
LEMMA SaverKeepsOn ==
  ASSUME TypeOK, NEW p \in Savers, SaverWillSync(p), gen'[p] = gen[p],
         gathering' = gathering, notice'.status = notice.status,
         notice'.time = notice.time, CronMayStrike' => CronMayStrike
  PROVE  SaverWillSync(p)'
<1>1. Overtaken(p)' => Overtaken(p)
  BY DEF Overtaken
<1>2. CASE gen[p].pc \in {"read", "reread"}
  BY <1>2 DEF SaverWillSync, Checking
<1>3. CASE gen[p].pc \in Checking
  <2>1. gen[p].tries > (IF CronMayStrike THEN 1 ELSE 0) + (IF Overtaken(p) THEN 1 ELSE 0)
    BY <1>3 DEF SaverWillSync, Checking
  <2>2. gen[p].tries \in Nat
    BY TriesLeft DEF Generators
  <2> QED
    BY <1>1, <1>3, <2>1, <2>2 DEF SaverWillSync
<1> QED
  BY <1>2, <1>3 DEF SaverWillSync

(* A save at work syncs, whatever it had to do. *)
LEMMA SomeSaver ==
  ASSUME NEW p \in Savers, SaverWillSync(p)'
  PROVE  SyncInv'
  BY DEF SyncInv

(* A step of one generator that leaves the rows alone and makes no new      *)
(* strike possible: whoever else was going to sync still is.                *)
LEMMA OthersKeepOn ==
  ASSUME TypeOK, SyncInv, NEW g \in Generators, Alone(g),
         gathering' = gathering, notice'.status = notice.status,
         notice'.time = notice.time, resend' = resend,
         CronMayStrike' => CronMayStrike,
         IF g = Cron THEN OutOfSync' /\ CronWillSync => CronWillSync'
         ELSE OutOfSync' /\ SaverWillSync(g) => SaverWillSync(g)'
  PROVE  SyncInv'
<1> SUFFICES ASSUME OutOfSync'
             PROVE  CronWillSync' \/ \E p \in Savers : SaverWillSync(p)'
  BY DEF SyncInv
<1>1. OutOfSync
  BY DEF OutOfSync, Live, HasStarted
<1>2. ASSUME NEW p \in Savers, SaverWillSync(p)
      PROVE  SaverWillSync(p)'
  <2>1. CASE p = g
    BY <1>2, <2>1, SyncConstants
  <2>2. CASE p # g
    <3>1. gen'[p] = gen[p]
      BY <2>2 DEF Alone, Generators
    <3> QED
      BY <1>2, <3>1, SaverKeepsOn
  <2> QED
    BY <2>1, <2>2
<1>3. CASE CronWillSync
  <2>1. CASE g = Cron
    BY <1>3, <2>1
  <2>2. CASE g # Cron
    <3>1. gen'[Cron] = gen[Cron]
      BY <2>2 DEF Alone, Generators
    <3> QED
      BY <1>3, <3>1 DEF CronWillSync, TooLate, SendAt
  <2> QED
    BY <2>1, <2>2
<1> QED
  BY <1>1, <1>2, <1>3 DEF SyncInv

(* A save writes the time that it read: either that is the time of the      *)
(* gathering, or the save will see that it is not.                          *)
LEMMA SaverWrites ==
  ASSUME TypeOK, NEW p \in Savers, Return(p),
         gathering' = gathering, notice'.status = "scheduled",
         notice'.time = gen[p].time
  PROVE  SyncInv'
<1>1. gen'[p].pc = "reread" /\ gen'[p].time = gen[p].time
  BY ReturnMoves DEF Generators
<1>2. OutOfSync' => gen'[p].time # gathering'.time
  BY <1>1 DEF OutOfSync
<1> QED
  BY <1>1, <1>2 DEF SyncInv, SaverWillSync

(* What it found overtaken it tries again. *)
LEMMA SaverRetries ==
  ASSUME TypeOK, SyncInv, NEW p \in Savers, Retry(p), gen[p].pc \in {"create", "write"},
         gathering' = gathering, notice' = notice, resend' = resend,
         OutOfSync => Overtaken(p)
  PROVE  SyncInv'
<1> p \in Generators /\ p # Cron /\ Cron \in Generators
  BY SyncConstants DEF Generators
<1>1. /\ Alone(p)
      /\ gen'[p].pc = IF gen[p].tries = 1 THEN "started" ELSE "source"
      /\ gen'[p].tries = gen[p].tries - 1
  BY RetryMoves
<1>2. CronMayStrike' = CronMayStrike
  BY <1>1 DEF Alone, CronMayStrike
<1>3. ASSUME OutOfSync', SaverWillSync(p)
      PROVE  SaverWillSync(p)'
  <2>1. Overtaken(p)
    BY <1>3 DEF OutOfSync, Live, HasStarted
  <2>2. gen[p].tries > (IF CronMayStrike THEN 1 ELSE 0) + 1 /\ gen[p].tries \in Nat
    BY <1>3, <2>1, TriesLeft DEF SaverWillSync, Checking
  <2>3. gen'[p].pc \in Checking /\ ~Overtaken(p)'
    BY <1>1 DEF Checking, Overtaken
  <2> QED
    BY <1>1, <1>2, <2>2, <2>3 DEF SaverWillSync
<1> QED
  BY <1>1, <1>2, <1>3, OthersKeepOn

LEMMA SaverSyncs ==
  ASSUME TypeOK, CutoffInv, TimeInv, AttemptsLeft, SyncInv, NEW p \in Savers, Generate(p)
  PROVE  SyncInv'
<1> p \in Generators /\ p # Cron /\ Cron \in Generators
  BY SyncConstants DEF Generators
<1>1. \A time : ~TooLate(p, time)
  BY DEF CutoffInv, TooLate
<1>2. \A v : gen' = [gen EXCEPT ![p] = v] => gen'[p] = v /\ Alone(p)
  BY ThrownAlone
<1>3. Alone(p) => gen'[Cron] = gen[Cron] /\ (gathering' = gathering => CronMayStrike' = CronMayStrike)
  BY DEF Alone, CronMayStrike
<1>4. CASE GenRead(p)
  <2>1. CASE Live
    <3>1. gathering.time # Unset
      BY <2>1 DEF TimeInv
    <3>2. /\ Alone(p) /\ gen'[p].pc = "source" /\ gen'[p].tries = Attempts
      BY <1>1, <1>4, <2>1, <3>1, ReadMoves
    <3>3. CronMayStrike' => Attempts > 1
      BY <1>3, <1>4, <3>2 DEF GenRead, AttemptsLeft
    <3>4. ~Overtaken(p)'
      BY <3>2 DEF Overtaken
    <3>5. SaverWillSync(p)'
      BY <3>2, <3>3, <3>4, SyncConstants DEF SaverWillSync, Checking
    <3> QED
      BY <3>5, SomeSaver
  <2>2. CASE ~Live
    BY <1>4, <2>2 DEF GenRead, SyncInv, OutOfSync, Live
  <2> QED
    BY <2>1, <2>2
<1>5. CASE GenSource(p) \/ GenStarted(p)
  <2>1. CASE OutOfSync
    <3>1. \/ gen[p].pc = "source" /\ Goto(p, "started")
          \/ gen[p].pc = "started" /\ Goto(p, "find")
      BY <1>5, <2>1 DEF GenSource, GenStarted, OutOfSync
    <3>2. Alone(p) /\ gen'[p].pc \in {"started", "find"} /\ gen'[p].tries = gen[p].tries
      BY <3>1, GotoMoves
    <3>3. ~Overtaken(p)' /\ ~Overtaken(p)
      BY <3>1, <3>2 DEF Overtaken
    <3>4. gathering' = gathering /\ notice' = notice /\ resend' = resend
      BY <1>5 DEF GenSource, GenStarted
    <3>5. SaverWillSync(p) => SaverWillSync(p)'
      BY <1>3, <3>1, <3>2, <3>3, <3>4 DEF SaverWillSync, Checking
    <3> QED
      BY <1>3, <3>2, <3>4, <3>5, OthersKeepOn
  <2>2. CASE ~OutOfSync
    BY <1>5, <2>2 DEF GenSource, GenStarted, SyncInv, OutOfSync, Live, HasStarted
  <2> QED
    BY <2>1, <2>2
<1>6. CASE GenFind(p)
  <2> SUFFICES ASSUME OutOfSync'
               PROVE  SyncInv'
    BY DEF SyncInv
  <2>1. gathering' = gathering /\ notice' = notice /\ resend' = resend /\ OutOfSync
    BY <1>6 DEF GenFind, OutOfSync, Live, HasStarted
  <2>2. gen[p].pc = "find" /\ gen[p].tries \in Nat /\ ~Overtaken(p)
    BY <1>6, TriesLeft DEF GenFind, Overtaken
  <2>3. CASE gen' = Thrown(p) /\ gen[p].tries = 0
    <3>1. Alone(p)
      BY <1>2, <2>3 DEF Thrown
    <3>2. ~SaverWillSync(p)
      BY <2>2, <2>3 DEF SaverWillSync, Checking
    <3> QED
      BY <1>3, <2>1, <3>1, <3>2, OthersKeepOn
  <2>4. CASE Return(p) /\ (UpToDate(p) \/ Settled(p))
    <3>1. notice.status = "scheduled" /\ notice.time = gen[p].time
      BY <1>1, <2>1, <2>4 DEF UpToDate, Settled, OutOfSync, HasStarted
    <3> QED
      BY <2>1, <2>4, <3>1, SaverWrites
  <2>5. CASE Goto(p, "create") /\ notice.status = "none"
    <3>1. Alone(p) /\ gen'[p].pc = "create" /\ gen'[p].tries = gen[p].tries
      BY <2>5, GotoMoves
    <3>2. ~Overtaken(p)'
      BY <2>1, <2>5, <3>1 DEF Overtaken
    <3>3. SaverWillSync(p) => SaverWillSync(p)'
      BY <1>3, <2>1, <2>2, <3>1, <3>2 DEF SaverWillSync, Checking
    <3> QED
      BY <1>3, <2>1, <3>1, <3>3, OthersKeepOn
  <2>6. CASE /\ notice.status = "scheduled" /\ Alone(p)
             /\ gen'[p].pc = "write" /\ gen'[p].prev = notice.time
             /\ gen'[p].tries = gen[p].tries
    <3>1. ~Overtaken(p)'
      BY <2>1, <2>6 DEF Overtaken
    <3>2. SaverWillSync(p) => SaverWillSync(p)'
      BY <1>3, <2>1, <2>2, <2>6, <3>1 DEF SaverWillSync, Checking
    <3> QED
      BY <1>3, <2>1, <2>6, <3>2, OthersKeepOn
  <2> QED
    BY <1>6, <2>3, <2>4, <2>5, <2>6, FindMoves
<1>7. CASE GenCreate(p)
  <2>1. CASE Insertable(p)
    BY <1>7, <2>1, SaverWrites DEF GenCreate
  <2>2. CASE ~Insertable(p)
    <3>1. OutOfSync => Overtaken(p)
      BY <1>7, <2>2 DEF GenCreate, Insertable, OutOfSync, Overtaken
    <3> QED
      BY <1>7, <2>2, <3>1, SaverRetries DEF GenCreate
  <2> QED
    BY <2>1, <2>2
<1>8. CASE GenWrite(p)
  <2>1. CASE Writable(p)
    <3>1. notice'.status = "scheduled" /\ notice'.time = gen[p].time
      BY <1>8, <2>1 DEF GenWrite, Writable, TypeOK, Notice
    <3> QED
      BY <1>8, <2>1, <3>1, SaverWrites DEF GenWrite
  <2>2. CASE ~Writable(p)
    <3>1. OutOfSync => Overtaken(p)
      BY <1>1, <1>8, <2>2 DEF GenWrite, Writable, OutOfSync, Overtaken
    <3> QED
      BY <1>8, <2>2, <3>1, SaverRetries DEF GenWrite
  <2> QED
    BY <2>1, <2>2
<1>9. CASE GenReread(p)
  <2>1. CASE Live /\ ~RereadSame(p)
    <3>1. gen[p].loops > 0
      BY <1>9, <2>1 DEF GenReread, RereadSame, AttemptsLeft
    <3>2. gen' = [gen EXCEPT ![p].pc = "read"]
      BY <1>9, <2>1, <3>1 DEF GenReread
    <3>3. gen'[p].pc = "read"
      BY <3>2 DEF TypeOK, CountedGen, Gen
    <3> QED
      BY <3>3, SomeSaver DEF SaverWillSync
  <2>2. CASE Live /\ RereadSame(p)
    <3>1. Goto(p, "clear")
      BY <1>9, <2>2 DEF GenReread, Goto
    <3>2. Alone(p)
      BY <3>1, GotoMoves
    <3>3. ~SaverWillSync(p)
      BY <1>9, <2>2 DEF GenReread, RereadSame, SaverWillSync, Checking
    <3> QED
      BY <1>3, <1>9, <3>2, <3>3, OthersKeepOn DEF GenReread
  <2>3. CASE ~Live
    BY <1>9, <2>3 DEF GenReread, SyncInv, OutOfSync, Live
  <2> QED
    BY <2>1, <2>2, <2>3
<1>10. CASE GenClear(p)
  <2>1. Alone(p) /\ ~SaverWillSync(p)
    BY <1>2, <1>10 DEF GenClear, SaverWillSync, Checking
  <2>2. notice'.status = notice.status /\ notice'.time = notice.time
    BY <1>10 DEF GenClear, TypeOK, Notice
  <2> QED
    BY <1>3, <1>10, <2>1, <2>2, OthersKeepOn DEF GenClear
<1> QED
  BY <1>4, <1>5, <1>6, <1>7, <1>8, <1>9, <1>10 DEF Generate

(* A strike: the reconciliation writes a time that is outdated.  It can do  *)
(* so once before it reads again, and every save with an attempt to spare   *)
(* outlasts it.  The notice was in sync before: then it is not too close to *)
(* its time, and the reconciliation corrects what it has done.              *)
LEMMA CronStrikes ==
  ASSUME TypeOK, CutoffInv, SyncInv, Return(Cron), gen[Cron].pc \in {"create", "write"},
         gathering' = gathering, resend' = resend,
         notice'.status = "scheduled", notice'.time = gen[Cron].time,
         \/ notice.status = "none"
         \/ notice.status = "scheduled" /\ ~TooLate(Cron, notice.time)
  PROVE  SyncInv'
<1> Cron \in Generators
  BY DEF Generators
<1> SUFFICES ASSUME OutOfSync'
             PROVE  CronWillSync' \/ \E p \in Savers : SaverWillSync(p)'
  BY DEF SyncInv
<1>1. /\ Alone(Cron) /\ gen'[Cron].pc = "reread" /\ gen'[Cron].time = gen[Cron].time
      /\ gen'[Cron].cutoff = gen[Cron].cutoff
  BY ReturnMoves
<1>2. gen'[Cron].time # gathering.time
  BY <1>1 DEF OutOfSync
<1>3. CronMayStrike /\ ~CronMayStrike'
  BY <1>1, <1>2 DEF CronMayStrike, Checking
<1>4. ~TooLate(Cron, notice.time)' /\ (TooLate(Cron, gathering.time)' = TooLate(Cron, gathering.time))
  BY <1>1 DEF CutoffInv, Checking, TooLate, SendAt
<1>5. ~TooLate(Cron, gathering.time) => CronWillSync'
  BY <1>1, <1>2, <1>4 DEF CronWillSync
<1>6. CASE OutOfSync /\ ~CronWillSync
  <2>1. PICK p \in Savers : SaverWillSync(p)
    BY <1>6 DEF SyncInv
  <2>2. p \in Generators /\ p # Cron
    BY SyncConstants DEF Generators
  <2>3. gen'[p] = gen[p] /\ gen[p].tries \in Nat
    BY <1>1, <2>2, TriesLeft DEF Alone
  <2>4. CASE gen[p].pc \in {"read", "reread"}
    BY <2>1, <2>3, <2>4 DEF SaverWillSync, Checking
  <2>5. CASE gen[p].pc \in Checking
    <3>1. gen[p].tries > 1
      BY <1>3, <2>1, <2>3, <2>5 DEF SaverWillSync, Checking
    <3>2. SaverWillSync(p)'
      BY <1>3, <2>3, <2>5, <3>1 DEF SaverWillSync
    <3> QED
      BY <3>2
  <2> QED
    BY <2>1, <2>4, <2>5 DEF SaverWillSync
<1>7. CASE CronWillSync
  BY <1>5, <1>7 DEF CronWillSync
<1>8. CASE ~OutOfSync
  <2>1. notice.status = "scheduled" /\ notice.time = gathering.time /\ ~TooLate(Cron, notice.time)
    BY <1>8 DEF OutOfSync, Live, HasStarted
  <2> QED
    BY <1>5, <2>1
<1> QED
  BY <1>6, <1>7, <1>8

LEMMA CronSyncs ==
  ASSUME TypeOK, CutoffInv, TimeInv, AttemptsLeft, SyncInv, Generate(Cron)
  PROVE  SyncInv'
<1> Cron \in Generators
  BY DEF Generators
<1>1. \A v : gen' = [gen EXCEPT ![Cron] = v] => gen'[Cron] = v /\ Alone(Cron)
  BY ThrownAlone
<1>2. CASE GenRead(Cron)
  <2>1. CASE Live
    <3>1. gathering.time # Unset
      BY <2>1 DEF TimeInv
    <3>2. /\ Alone(Cron) /\ gen'[Cron].time = gathering.time
          /\ gen'[Cron].cutoff = gen[Cron].cutoff
          /\ ~TooLate(Cron, gathering.time) =>
               gen'[Cron].pc = "source" /\ gen'[Cron].tries = Attempts
      BY <1>2, <2>1, <3>1, ReadMoves
    <3>3. gathering' = gathering /\ notice' = notice /\ resend' = resend
      BY <1>2 DEF GenRead
    <3>4. ~CronMayStrike'
      BY <3>2, <3>3 DEF CronMayStrike
    <3>5. CronWillSync => CronWillSync'
      BY <3>2, <3>3, SyncConstants DEF CronWillSync, TooLate
    <3> QED
      BY <3>2, <3>3, <3>4, <3>5, OthersKeepOn
  <2>2. CASE ~Live
    BY <1>2, <2>2 DEF GenRead, SyncInv, OutOfSync, Live
  <2> QED
    BY <2>1, <2>2
<1>3. CASE GenSource(Cron) \/ GenStarted(Cron)
  <2>1. CASE OutOfSync
    <3>1. \/ gen[Cron].pc = "source" /\ Goto(Cron, "started")
          \/ gen[Cron].pc = "started" /\ Goto(Cron, "find")
      BY <1>3, <2>1 DEF GenSource, GenStarted, OutOfSync
    <3>2. /\ Alone(Cron) /\ gen'[Cron].pc \in {"started", "find"}
          /\ gen'[Cron].tries = gen[Cron].tries /\ gen'[Cron].time = gen[Cron].time
          /\ gen'[Cron].cutoff = gen[Cron].cutoff
      BY <3>1, GotoMoves
    <3>3. gathering' = gathering /\ notice' = notice /\ resend' = resend
      BY <1>3 DEF GenSource, GenStarted
    <3>4. CronMayStrike' => CronMayStrike
      BY <3>1, <3>2, <3>3 DEF CronMayStrike, Checking
    <3>5. CronWillSync => CronWillSync'
      BY <3>1, <3>2, <3>3 DEF CronWillSync, TooLate
    <3> QED
      BY <3>2, <3>3, <3>4, <3>5, OthersKeepOn
  <2>2. CASE ~OutOfSync
    BY <1>3, <2>2 DEF GenSource, GenStarted, SyncInv, OutOfSync, Live, HasStarted
  <2> QED
    BY <2>1, <2>2
<1>4. CASE GenFind(Cron)
  <2> SUFFICES ASSUME OutOfSync'
               PROVE  SyncInv'
    BY DEF SyncInv
  <2>1. gathering' = gathering /\ notice' = notice /\ resend' = resend /\ OutOfSync
    BY <1>4 DEF GenFind, OutOfSync, Live, HasStarted
  <2>2. gen[Cron].pc = "find"
    BY <1>4 DEF GenFind
  <2>3. CASE gen' = Thrown(Cron) /\ gen[Cron].tries = 0
    <3>1. Alone(Cron) /\ gen'[Cron].pc = "hold"
      BY <1>1, <2>3 DEF Thrown, Idle
    <3>2. ~CronWillSync /\ ~CronMayStrike'
      BY <2>2, <2>3, <3>1 DEF CronWillSync, CronMayStrike, Checking
    <3> QED
      BY <2>1, <3>1, <3>2, OthersKeepOn
  <2>4. CASE Return(Cron) /\ (UpToDate(Cron) \/ Settled(Cron))
    <3>1. /\ Alone(Cron) /\ gen'[Cron].pc = "reread"
          /\ gen'[Cron].time = gen[Cron].time /\ gen'[Cron].cutoff = gen[Cron].cutoff
      BY <2>4, ReturnMoves
    <3>2. ~CronMayStrike'
      BY <3>1 DEF CronMayStrike, Checking
    <3>3. CronWillSync => CronWillSync'
      <4> SUFFICES ASSUME CronWillSync
                   PROVE  CronWillSync'
        OBVIOUS
      <4>1. notice.status = "scheduled" /\ notice.time = gen[Cron].time
        BY <2>4 DEF UpToDate, Settled, CronWillSync
      <4>2. gen[Cron].time # gathering.time
        BY <2>1, <4>1 DEF OutOfSync
      <4> QED
        BY <2>1, <3>1, <4>2 DEF CronWillSync, TooLate
    <3> QED
      BY <2>1, <3>1, <3>2, <3>3, OthersKeepOn
  <2>5. CASE Goto(Cron, "create") /\ notice.status = "none"
    <3>1. /\ Alone(Cron) /\ gen'[Cron].pc = "create" /\ gen'[Cron].time = gen[Cron].time
      BY <2>5, GotoMoves
    <3>2. ~CronWillSync
      BY <2>5 DEF CronWillSync
    <3>3. CronMayStrike' => CronMayStrike
      BY <2>1, <2>2, <3>1 DEF CronMayStrike, Checking
    <3> QED
      BY <2>1, <3>1, <3>2, <3>3, OthersKeepOn
  <2>6. CASE /\ notice.status = "scheduled" /\ Alone(Cron)
             /\ gen'[Cron].pc = "write" /\ gen'[Cron].prev = notice.time
             /\ gen'[Cron].time = gen[Cron].time /\ gen'[Cron].cutoff = gen[Cron].cutoff
    <3>1. CronMayStrike' => CronMayStrike
      BY <2>1, <2>2, <2>6 DEF CronMayStrike, Checking
    <3>2. CronWillSync => CronWillSync'
      BY <2>1, <2>6 DEF CronWillSync, TooLate
    <3> QED
      BY <2>1, <2>6, <3>1, <3>2, OthersKeepOn
  <2> QED
    BY <1>4, <2>3, <2>4, <2>5, <2>6, FindMoves
<1>5. CASE GenCreate(Cron) /\ Insertable(Cron)
  BY <1>5, CronStrikes DEF GenCreate, Insertable
<1>6. CASE GenWrite(Cron) /\ Writable(Cron)
  <2>1. notice'.status = "scheduled" /\ notice'.time = gen[Cron].time
    BY <1>6 DEF GenWrite, Writable, TypeOK, Notice
  <2> QED
    BY <1>6, <2>1, CronStrikes DEF GenWrite, Writable
<1>7. CASE \/ GenCreate(Cron) /\ ~Insertable(Cron)
           \/ GenWrite(Cron) /\ ~Writable(Cron)
  <2> SUFFICES ASSUME OutOfSync'
               PROVE  SyncInv'
    BY DEF SyncInv
  <2>1. Retry(Cron) /\ gathering' = gathering /\ notice' = notice /\ resend' = resend
    BY <1>7 DEF GenCreate, GenWrite
  <2>2. OutOfSync
    BY <2>1 DEF OutOfSync, Live, HasStarted
  <2>3. /\ Alone(Cron) /\ gen'[Cron].time = gen[Cron].time
    BY <2>1, RetryMoves
  <2>4. CronMayStrike' => CronMayStrike
    BY <1>7, <2>1, <2>3 DEF GenCreate, GenWrite, CronMayStrike, Checking
  <2>5. ~CronWillSync
    BY <1>7, <2>2 DEF GenCreate, GenWrite, Writable, CronWillSync, OutOfSync
  <2> QED
    BY <2>1, <2>3, <2>4, <2>5, OthersKeepOn
<1>8. CASE GenReread(Cron)
  <2>1. gathering' = gathering /\ notice' = notice /\ resend' = resend
    BY <1>8 DEF GenReread
  <2>2. CASE Live /\ ~RereadSame(Cron)
    <3>1. gen[Cron].loops > 0
      BY <1>8, <2>2 DEF GenReread, RereadSame, AttemptsLeft
    <3>2. Goto(Cron, "read")
      BY <1>8, <2>2, <3>1 DEF GenReread, Goto
    <3>3. Alone(Cron) /\ gen'[Cron].pc = "read" /\ gen'[Cron].cutoff = gen[Cron].cutoff
      BY <3>2, GotoMoves
    <3>4. ~CronMayStrike'
      BY <3>3 DEF CronMayStrike, Checking
    <3>5. CronWillSync => CronWillSync'
      BY <2>1, <3>3 DEF CronWillSync, TooLate
    <3> QED
      BY <2>1, <3>3, <3>4, <3>5, OthersKeepOn
  <2>3. CASE Live /\ RereadSame(Cron)
    <3>1. Goto(Cron, "clear")
      BY <1>8, <2>3 DEF GenReread, Goto
    <3>2. Alone(Cron) /\ gen'[Cron].pc = "clear"
      BY <3>1, GotoMoves
    <3>3. ~CronWillSync /\ ~CronMayStrike'
      BY <1>8, <2>3, <3>2 DEF GenReread, RereadSame, CronWillSync, CronMayStrike, Checking
    <3> QED
      BY <2>1, <3>2, <3>3, OthersKeepOn
  <2>4. CASE ~Live
    BY <2>1, <2>4 DEF SyncInv, OutOfSync, Live
  <2> QED
    BY <2>2, <2>3, <2>4
<1>9. CASE GenClear(Cron)
  <2>1. Alone(Cron) /\ gen'[Cron].pc = "idle" /\ ~CronWillSync
    BY <1>1, <1>9 DEF GenClear, CronWillSync, Idle
  <2>2. notice'.status = notice.status /\ notice'.time = notice.time
    BY <1>9 DEF GenClear, TypeOK, Notice
  <2>3. ~CronMayStrike'
    BY <2>1 DEF CronMayStrike, Checking
  <2> QED
    BY <1>9, <2>1, <2>2, <2>3, OthersKeepOn DEF GenClear
<1> QED
  BY <1>2, <1>3, <1>4, <1>5, <1>6, <1>7, <1>8, <1>9 DEF Generate

-----------------------------------------------------------------------------
(* The other steps, and the theorem *)

LEMMA SaveStepSyncs ==
  ASSUME TypeOK, SyncInv, NEW p \in Savers, Save(p)
  PROVE  SyncInv'
<1> p \in Generators /\ p # Cron /\ Cron \in Generators
  BY SyncConstants DEF Generators
<1>1. CASE SaveRead(p) \/ SaveFails(p)
  <2>1. Alone(p) /\ gen[p].pc \in {"idle", "apply"}
    BY <1>1, ThrownAlone DEF SaveRead, SaveFails, TypeOK, Alone
  <2>2. ~SaverWillSync(p)
    BY <2>1 DEF SaverWillSync, Checking
  <2>3. gathering' = gathering /\ notice' = notice /\ resend' = resend
    BY <1>1 DEF SaveRead, SaveFails
  <2>4. CronMayStrike' => CronMayStrike
    BY <2>1, <2>3 DEF Alone, CronMayStrike
  <2> QED
    BY <2>1, <2>2, <2>3, <2>4, OthersKeepOn
<1>2. CASE StartGenerating(p)
  <2>1. gen'[p].pc = "read"
    BY <1>2 DEF StartGenerating, TypeOK, Idle
  <2> QED
    BY <2>1, SomeSaver DEF SaverWillSync
<1> QED
  BY <1>1, <1>2 DEF Save, SaveCreates, SaveEdits, SaveWritesNothing, SaveDeletes

(* Steps that leave every generator alone. *)
LEMMA RowsStepSyncs ==
  ASSUME TypeOK, SyncInv, UNCHANGED <<gen, gathering>>, OutOfSync' => OutOfSync,
         OutOfSync' => notice' = notice
  PROVE  SyncInv'
<1> SUFFICES ASSUME OutOfSync'
             PROVE  CronWillSync' \/ \E p \in Savers : SaverWillSync(p)'
  BY DEF SyncInv
<1>1. CronMayStrike' = CronMayStrike
  BY DEF CronMayStrike
<1>2. ASSUME NEW p \in Savers, SaverWillSync(p)
      PROVE  SaverWillSync(p)'
  BY <1>1, <1>2, SaverKeepsOn
<1>3. CronWillSync => CronWillSync'
  BY DEF CronWillSync, TooLate, SendAt
<1> QED
  BY <1>2, <1>3 DEF SyncInv

LEMMA OtherStepSyncs ==
  ASSUME TypeOK, SyncInv, MaxFaults = 0,
         \/ CronBegin \/ CronHold
         \/ \E g \in Generators : GenFails(g)
         \/ ClaimScheduled \/ CancelUnstarted
         \/ CreateResend \/ ClaimResend \/ CancelResend
         \/ Tick
  PROVE  SyncInv'
<1> Cron \in Generators
  BY DEF Generators
<1>1. CASE CronBegin \/ CronHold
  <2>1. /\ Alone(Cron) /\ gen'[Cron].pc \in {"read", "idle"}
        /\ gen[Cron].pc \in {"idle", "hold"}
    BY <1>1, CronMoves
  <2>2. ~CronWillSync /\ ~CronMayStrike'
    BY <2>1 DEF CronWillSync, CronMayStrike, Checking
  <2>3. /\ gathering' = gathering /\ resend' = resend
        /\ notice'.status = notice.status /\ notice'.time = notice.time
    BY <1>1 DEF CronBegin, CronHold, TypeOK, Notice
  <2> QED
    BY <2>1, <2>2, <2>3, OthersKeepOn
<1>2. ASSUME NEW g \in Generators, GenFails(g)
      PROVE  FALSE
  BY <1>2 DEF GenFails, TypeOK
<1>3. CASE ClaimScheduled \/ CancelUnstarted
  <2>1. ~OutOfSync'
    BY <1>3 DEF ClaimScheduled, CancelUnstarted, OutOfSync, TypeOK, Notice
  <2> QED
    BY <2>1 DEF SyncInv
<1>4. CASE CreateResend \/ ClaimResend \/ CancelResend \/ Tick
  <2>1. OutOfSync' => OutOfSync
    BY <1>4 DEF CreateResend, ClaimResend, CancelResend, Tick, OutOfSync, Live, HasStarted
  <2> QED
    BY <1>4, <2>1, RowsStepSyncs DEF CreateResend, ClaimResend, CancelResend, Tick
<1> QED
  BY <1>1, <1>2, <1>3, <1>4

LEMMA NextSyncInv ==
  ASSUME TypeOK, CutoffInv, TimeInv, AttemptsLeft, SyncInv, MaxFaults = 0, [Next]_vars
  PROVE  SyncInv'
<1>1. CASE UNCHANGED vars
  <2>1. OutOfSync' => OutOfSync
    BY <1>1 DEF vars, OutOfSync, Live, HasStarted
  <2> QED
    BY <1>1, <2>1, RowsStepSyncs DEF vars
<1>2. CASE \E p \in Savers : Save(p)
  BY <1>2, SaveStepSyncs
<1>3. CASE \E p \in Savers : Generate(p)
  BY <1>3, SaverSyncs
<1>4. CASE Generate(Cron)
  BY <1>4, CronSyncs
<1> QED
  BY <1>1, <1>2, <1>3, <1>4, OtherStepSyncs DEF Next, CronStep

LEMMA NextTimeInv ==
  ASSUME TypeOK, TimeInv, Unset \notin Saved, [Next]_vars
  PROVE  TimeInv'
<1>1. CASE UNCHANGED gathering
  BY <1>1 DEF TimeInv, Live
<1>2. ASSUME NEW p \in Savers, NEW time \in Saved, SaveCreates(p, time) \/ SaveEdits(p, time)
      PROVE  TimeInv'
  BY <1>2 DEF SaveCreates, SaveEdits, TimeInv, Live, TypeOK, Gathering
<1>3. ASSUME NEW p \in Savers, SaveDeletes(p)
      PROVE  TimeInv'
  BY <1>3 DEF SaveDeletes, TimeInv, Live, TypeOK, Gathering
<1> QED
  BY <1>1, <1>2, <1>3
     DEF Next, vars, Save, SaveRead, SaveFails, SaveWritesNothing, CronStep, CronBegin,
         CronHold, Generate, GenRead, GenSource, GenStarted, GenFind, GenCreate, GenWrite,
         GenReread, GenClear, GenFails, ClaimScheduled, CancelUnstarted, CreateResend,
         ClaimResend, CancelResend, Tick

(* The cutoff of a generator changes only when its request or the           *)
(* reconciliation begins.                                                   *)
LEMMA GenerateCutoff ==
  ASSUME TypeOK, CutoffInv, TimeInv, NEW g \in Generators, Generate(g)
  PROVE  /\ Alone(g)
         /\ gen'[g].cutoff \in {gen[g].cutoff, None}
         /\ gen'[g].pc \in Checking => gen'[g].cutoff = gen[g].cutoff
         /\ gen'[g].pc \in Checking =>
              \/ gen[g].pc \in Checking /\ gen'[g].time = gen[g].time
              \/ ~TooLate(g, gen'[g].time)
<1>3. ASSUME gen' = [gen EXCEPT ![g] = Idle] \/ gen' = Thrown(g)
      PROVE  Alone(g) /\ gen'[g].cutoff = None /\ gen'[g].pc \notin Checking
  BY <1>3, IdleMoves DEF Checking
<1>4. CASE GenRead(g) /\ Live /\ gathering.time # Unset
  BY <1>4, ReadMoves DEF Checking
<1>5. CASE GenRead(g) /\ ~(Live /\ gathering.time # Unset)
  BY <1>3, <1>5 DEF GenRead
<1>6. ASSUME NEW pc, Goto(g, pc), gen[g].pc \in Checking \/ pc \notin Checking
      PROVE  /\ Alone(g) /\ gen'[g].cutoff = gen[g].cutoff /\ gen'[g].time = gen[g].time
             /\ gen'[g].pc \in Checking => gen[g].pc \in Checking
  <2>1. /\ Alone(g) /\ gen'[g].cutoff = gen[g].cutoff /\ gen'[g].time = gen[g].time
        /\ gen'[g].pc = pc
    BY <1>6, GotoMoves
  <2> QED
    BY <1>6, <2>1
<1>7. ASSUME Return(g)
      PROVE  Alone(g) /\ gen'[g].cutoff = gen[g].cutoff /\ gen'[g].pc \notin Checking
  BY <1>7, ReturnMoves DEF Checking
<1>8. CASE GenSource(g) \/ GenStarted(g)
  BY <1>6, <1>7, <1>8 DEF GenSource, GenStarted, Checking
<1>9. CASE GenFind(g)
  <2>1. gen[g].pc \in Checking
    BY <1>9 DEF GenFind, Checking
  <2> QED
    BY <1>3, <1>6, <1>7, <1>9, <2>1, FindMoves
<1>10. CASE GenCreate(g) \/ GenWrite(g)
  <2>1. gen[g].pc \in Checking /\ (Return(g) \/ Retry(g))
    BY <1>10 DEF GenCreate, GenWrite, Checking
  <2> QED
    BY <1>7, <2>1, RetryMoves
<1>11. CASE GenReread(g)
  <2>1. \/ gen' = [gen EXCEPT ![g] = Idle] \/ gen' = Thrown(g)
        \/ Goto(g, "clear") \/ Goto(g, "read")
    BY <1>11 DEF GenReread, Goto
  <2>2. {"clear", "read"} \cap Checking = {}
    BY DEF Checking
  <2> QED
    BY <1>3, <1>6, <2>1, <2>2
<1>12. CASE GenClear(g)
  BY <1>3, <1>12 DEF GenClear
<1> QED
  BY <1>4, <1>5, <1>8, <1>9, <1>10, <1>11, <1>12 DEF Generate

LEMMA NextCutoffInv ==
  ASSUME TypeOK, CutoffInv, TimeInv, [Next]_vars
  PROVE  CutoffInv'
<1> Cron \in Generators /\ Savers \subseteq Generators /\ Cron \notin Savers
  BY SyncConstants DEF Generators
<1>1. CASE UNCHANGED gen
  BY <1>1 DEF CutoffInv, TooLate, SendAt
<1>2. ASSUME NEW p \in Savers, Save(p)
      PROVE  CutoffInv'
  <2>1. PICK v : gen' = [gen EXCEPT ![p] = v] /\ v.cutoff = None
    <3>1. CASE SaveRead(p)
      <4>1. gen' = [gen EXCEPT ![p] = [gen[p] EXCEPT !.pc = "apply", !.seen = gathering]]
        BY <3>1 DEF SaveRead, TypeOK
      <4>2. [gen[p] EXCEPT !.pc = "apply", !.seen = gathering].cutoff = None
        BY DEF CutoffInv, TypeOK, CountedGen, Gen
      <4> QED
        BY <4>1, <4>2
    <3>2. CASE gen' = [gen EXCEPT ![p] = Idle]
      <4>1. Idle.cutoff = None
        BY DEF Idle
      <4> QED
        BY <3>2, <4>1
    <3>3. CASE StartGenerating(p)
      <4>1. [Idle EXCEPT !.pc = "read", !.loops = Attempts].cutoff = None
        BY DEF Idle
      <4> QED
        BY <3>3, <4>1 DEF StartGenerating
    <3> QED
      BY <1>2, <3>1, <3>2, <3>3
         DEF Save, SaveFails, SaveCreates, SaveEdits, SaveWritesNothing, SaveDeletes
  <2>2. gen'[p] = v /\ Alone(p)
    BY <2>1, ThrownAlone
  <2> QED
    BY <2>1, <2>2 DEF Alone, CutoffInv, TooLate, SendAt
<1>3. ASSUME NEW g \in Generators, Generate(g)
      PROVE  CutoffInv'
  BY <1>3, GenerateCutoff DEF Alone, CutoffInv, TooLate, SendAt
<1>4. CASE CronBegin \/ CronHold
  BY <1>4, CronMoves DEF Alone, CutoffInv, Checking
<1>5. ASSUME NEW g \in Generators, GenFails(g)
      PROVE  CutoffInv'
  <2>1. /\ Alone(g) /\ gen'[g].cutoff = None /\ gen'[g].pc \notin Checking
    BY <1>5, IdleMoves DEF GenFails, Checking
  <2> QED
    BY <2>1 DEF Alone, CutoffInv, TooLate, SendAt
<1> QED
  BY <1>1, <1>2, <1>3, <1>4, <1>5
     DEF Next, vars, CronStep, Generators, ClaimScheduled, CancelUnstarted, CreateResend,
         ClaimResend, CancelResend, Tick

LEMMA InitSync == Init => CutoffInv /\ TimeInv /\ SyncInv
<1> SUFFICES ASSUME Init
             PROVE  CutoffInv /\ TimeInv /\ SyncInv
  OBVIOUS
<1>1. ~Live
  BY DEF Init, NewRow, Live
<1>2. \A g \in Generators : gen[g].cutoff = None /\ gen[g].pc = "idle"
  BY DEF Init, Idle
<1> QED
  BY <1>1, <1>2 DEF CutoffInv, TimeInv, SyncInv, OutOfSync, Generators, Checking

LEMMA SyncedMeansWorked == SyncInv => StaleIsBeingSynced
<1> SUFFICES ASSUME SyncInv, Outdated
             PROVE  \E g \in Generators : AtWork(g)
  BY DEF StaleIsBeingSynced
<1>1. OutOfSync
  BY DEF Outdated, OutOfSync
<1>2. CASE CronWillSync
  BY <1>2 DEF CronWillSync, AtWork, Generators
<1>3. ASSUME NEW p \in Savers, SaverWillSync(p)
      PROVE  AtWork(p) /\ p \in Generators
  BY <1>3 DEF SaverWillSync, Checking, AtWork, Generators
<1> QED
  BY <1>1, <1>2, <1>3 DEF SyncInv

(* As long as no generator is overtaken until it gives up, and without      *)
(* faults, an outdated notice has a generator at work on it: however many   *)
(* saves there are, and whether or not the notice is held.                  *)
THEOREM SpecSyncedWhileAttemptsLast ==
  MaxFaults = 0 /\ Unset \notin Saved =>
    (Spec /\ []AttemptsLeft => []StaleIsBeingSynced)
<1> SUFFICES ASSUME MaxFaults = 0, Unset \notin Saved
             PROVE  Spec /\ []AttemptsLeft => []StaleIsBeingSynced
  OBVIOUS
<1> DEFINE Inv == CutoffInv /\ TimeInv /\ SyncInv
<1>1. Init => Inv
  BY InitSync
<1>2. TypeOK /\ AttemptsLeft /\ Inv /\ [Next]_vars => Inv'
  BY NextCutoffInv, NextTimeInv, NextSyncInv
<1>3. Inv => StaleIsBeingSynced
  BY SyncedMeansWorked
<1> QED
  BY <1>1, <1>2, <1>3, SpecTypeOK, PTL DEF Spec

-----------------------------------------------------------------------------
(* Attempts suffice for as many saves.  Every time a generator finds that   *)
(* it was overtaken, the time has changed since it read it; the changes are *)
(* made by saves, and one save came before the generator began.             *)

Applying == {p \in Savers : gen[p].pc = "apply"}
Applied == saves - Cardinality(Applying)

Counted(g) ==
  /\ gen[g].pc = "read" => Attempts - gen[g].loops + 1 <= Applied
  /\ gen[g].pc \in Checking \cup {"reread"} =>
       /\ gen[g].loops < Attempts
       /\ Attempts - gen[g].loops <= Applied
       /\ gen[g].time # gathering.time => Attempts - gen[g].loops + 1 <= Applied

CountInv ==
  /\ IsFiniteSet(Applying) /\ Applied \in Nat
  /\ Live => Applied >= 1
  /\ \A g \in Generators : Counted(g)

LEMMA CountSuffices ==
  ASSUME TypeOK, CountInv, MaxSaves <= Attempts
  PROVE  AttemptsLeft
<1>1. Applied <= MaxSaves /\ Applied \in Nat
  <2>1. Cardinality(Applying) \in Nat
    BY FS_CardinalityType DEF CountInv
  <2> QED
    BY <2>1, SyncConstants DEF TypeOK, CountInv, Applied
<1>2. ASSUME NEW g \in Generators, gen[g].pc = "reread", gen[g].time # gathering.time
      PROVE  gen[g].loops > 0
  BY <1>1, <1>2, TriesLeft, SyncConstants DEF CountInv, Counted
<1>3. ASSUME CronMayStrike
      PROVE  Attempts > 1
  BY <1>1, <1>3, TriesLeft, SyncConstants DEF CountInv, Counted, CronMayStrike, Generators
<1> QED
  BY <1>2, <1>3 DEF AttemptsLeft

(* A step that moves one generator and lets no save begin or end.           *)
LEMMA CountKept ==
  ASSUME TypeOK, CountInv, NEW g \in Generators, Alone(g),
         gen[g].pc # "apply", gen'[g].pc # "apply",
         saves' = saves, gathering' = gathering, Counted(g)'
  PROVE  CountInv'
<1>1. Applying' = Applying
  BY DEF Applying, Alone, Generators
<1>2. Applied' = Applied
  BY <1>1 DEF Applied
<1>3. ASSUME NEW h \in Generators \ {g}
      PROVE  Counted(h)'
  BY <1>2, <1>3 DEF Counted, CountInv, Alone
<1> QED
  BY <1>1, <1>2, <1>3 DEF CountInv, Live

(* One save more has been applied: it may have changed the time.            *)
LEMMA CountApplied ==
  ASSUME TypeOK, CountInv, NEW p \in Savers, Alone(p),
         gen[p].pc = "apply", gen'[p].pc \in {"idle", "read"},
         gen'[p].pc = "read" => gen'[p].loops = Attempts, saves' = saves
  PROVE  CountInv'
<1>1. Applying' = Applying \ {p} /\ p \in Applying
  BY DEF Applying, Alone, Generators
<1>2. /\ IsFiniteSet(Applying') /\ Cardinality(Applying') = Cardinality(Applying) - 1
      /\ Cardinality(Applying) \in Nat
  BY <1>1, FS_RemoveElement, FS_CardinalityType DEF CountInv
<1>3. Applied' = Applied + 1 /\ Applied \in Nat
  BY <1>2 DEF Applied, CountInv, TypeOK
<1>4. ASSUME NEW h \in Generators \ {p}
      PROVE  Counted(h)'
  <2>1. gen'[h] = gen[h] /\ Counted(h) /\ gen[h].loops \in 0 .. Attempts
    BY TriesLeft DEF Alone, CountInv
  <2> QED
    BY <1>3, <2>1, SyncConstants DEF Counted
<1>5. Counted(p)'
  BY <1>3, SyncConstants DEF Counted, Checking
<1> QED
  BY <1>2, <1>3, <1>4, <1>5 DEF CountInv

LEMMA SaveCounts ==
  ASSUME TypeOK, CountInv, NEW p \in Savers, Save(p)
  PROVE  CountInv'
<1> p \in Generators
  BY DEF Generators
<1>1. CASE SaveRead(p)
  <2>1. gen' = [gen EXCEPT ![p] = [gen[p] EXCEPT !.pc = "apply", !.seen = gathering]]
    BY <1>1 DEF SaveRead, TypeOK
  <2>2. [gen[p] EXCEPT !.pc = "apply", !.seen = gathering].pc = "apply"
    BY DEF TypeOK, CountedGen, Gen
  <2>3. Alone(p) /\ gen'[p].pc = "apply" /\ gen[p].pc = "idle"
    BY <1>1, <2>1, <2>2, ThrownAlone DEF SaveRead
  <2>4. Applying' = Applying \cup {p} /\ p \notin Applying
    BY <2>3 DEF Applying, Alone, Generators
  <2>5. /\ IsFiniteSet(Applying') /\ Cardinality(Applying') = Cardinality(Applying) + 1
        /\ Cardinality(Applying) \in Nat
    BY <2>4, FS_AddElement, FS_CardinalityType DEF CountInv
  <2>6. Applied' = Applied
    BY <1>1, <2>5 DEF SaveRead, Applied, TypeOK
  <2>7. ASSUME NEW h \in Generators \ {p}
        PROVE  Counted(h)'
    BY <1>1, <2>3, <2>6 DEF SaveRead, Counted, CountInv, Alone
  <2>8. Counted(p)'
    BY <2>3 DEF Counted, Checking
  <2> QED
    BY <1>1, <2>5, <2>6, <2>7, <2>8 DEF SaveRead, CountInv, Live
<1>2. CASE SaveFails(p)
  <2>1. Idle.pc = "idle"
    BY DEF Idle
  <2>2. Alone(p) /\ gen'[p].pc = "idle"
    BY <1>2, <2>1, ThrownAlone DEF SaveFails
  <2> QED
    BY <1>2, <2>2, CountApplied DEF SaveFails
<1>3. CASE StartGenerating(p) /\ gen[p].pc = "apply" /\ saves' = saves
  <2>1. /\ [Idle EXCEPT !.pc = "read", !.loops = Attempts].pc = "read"
        /\ [Idle EXCEPT !.pc = "read", !.loops = Attempts].loops = Attempts
    BY DEF Idle
  <2>2. Alone(p) /\ gen'[p].pc = "read" /\ gen'[p].loops = Attempts
    BY <1>3, <2>1, ThrownAlone DEF StartGenerating
  <2> QED
    BY <1>3, <2>2, CountApplied
<1> QED
  BY <1>1, <1>2, <1>3 DEF Save, SaveCreates, SaveEdits, SaveWritesNothing, SaveDeletes

(* What a generator has read, and how often, changes only when it reads.    *)
LEMMA GenerateCounts ==
  ASSUME TypeOK, CountInv, TimeInv, NEW g \in Generators, Generate(g)
  PROVE  CountInv'
<1>1. gen[g].pc # "apply" /\ saves' = saves /\ gathering' = gathering
  BY DEF Generate, GenRead, GenSource, GenStarted, GenFind, GenCreate, GenWrite, GenReread,
         GenClear
<1>2. Alone(g) /\ gen'[g].pc # "apply" => Applied' = Applied /\ Applied \in Nat
  <2>1. Alone(g) /\ gen'[g].pc # "apply" => Applying' = Applying
    BY <1>1 DEF Applying, Alone, Generators
  <2> QED
    BY <1>1, <2>1 DEF Applied, CountInv
<1>3. Counted(g) /\ gen[g].loops \in 0 .. Attempts
  BY TriesLeft DEF CountInv
<1>4. ASSUME gen' = [gen EXCEPT ![g] = Idle] \/ gen' = Thrown(g)
      PROVE  CountInv'
  <2>1. Alone(g) /\ gen'[g].pc \in {"idle", "hold"}
    BY <1>4, IdleMoves
  <2> QED
    BY <1>1, <2>1, CountKept DEF Counted, Checking
<1>5. ASSUME Alone(g), gen'[g].loops = gen[g].loops, gen'[g].time = gen[g].time,
             gen[g].pc \in Checking, gen'[g].pc \in Checking \cup {"reread"}
      PROVE  CountInv'
  <2>1. gen'[g].pc # "apply"
    BY <1>5 DEF Checking
  <2>2. Counted(g)'
    BY <1>1, <1>2, <1>3, <1>5, <2>1 DEF Counted, Checking
  <2> QED
    BY <1>1, <1>5, <2>1, <2>2, CountKept
<1>6. CASE GenRead(g)
  <2>1. CASE Live
    <3>1. gathering.time # Unset
      BY <2>1 DEF TimeInv
    <3>2. /\ Alone(g) /\ gen'[g].pc \in {"source", "reread"}
          /\ gen'[g].time = gathering.time /\ gen'[g].loops = gen[g].loops - 1
      BY <1>6, <2>1, <3>1, ReadMoves
    <3>3. Attempts - gen[g].loops + 1 <= Applied
      BY <1>3, <1>6 DEF GenRead, Counted
    <3>4. Counted(g)'
      BY <1>1, <1>2, <1>3, <3>2, <3>3, SyncConstants DEF Counted
    <3> QED
      BY <1>1, <3>2, <3>4, CountKept
  <2>2. CASE ~Live
    BY <1>4, <1>6, <2>2 DEF GenRead
  <2> QED
    BY <2>1, <2>2
<1>7. CASE GenSource(g) \/ GenStarted(g) \/ GenFind(g) \/ GenCreate(g) \/ GenWrite(g)
  <2>1. gen[g].pc \in Checking
    BY <1>7 DEF GenSource, GenStarted, GenFind, GenCreate, GenWrite, Checking
  <2>2. CASE Return(g)
    BY <1>5, <2>1, <2>2, ReturnMoves
  <2>3. CASE Retry(g)
    BY <1>5, <2>1, <2>3, RetryMoves DEF Checking
  <2>4. ASSUME NEW pc \in Checking, Goto(g, pc)
        PROVE  CountInv'
    <3>1. /\ Alone(g) /\ gen'[g].pc = pc /\ gen'[g].time = gen[g].time
          /\ gen'[g].loops = gen[g].loops
      BY <2>4, GotoMoves
    <3> QED
      BY <1>5, <2>1, <3>1
  <2>5. CASE GenFind(g)
    BY <1>4, <1>5, <2>1, <2>2, <2>4, <2>5, FindMoves DEF Checking
  <2> QED
    BY <1>7, <2>2, <2>3, <2>4, <2>5 DEF GenSource, GenStarted, GenCreate, GenWrite, Checking
<1>8. CASE GenReread(g)
  <2>1. CASE Live /\ RereadSame(g)
    <3>1. Goto(g, "clear")
      BY <1>8, <2>1 DEF GenReread, Goto
    <3>2. Alone(g) /\ gen'[g].pc = "clear"
      BY <3>1, GotoMoves
    <3> QED
      BY <1>1, <3>2, CountKept DEF Counted, Checking
  <2>2. CASE Live /\ ~RereadSame(g) /\ gen[g].loops # 0
    <3>1. Goto(g, "read")
      BY <1>8, <2>2 DEF GenReread, Goto
    <3>2. Alone(g) /\ gen'[g].pc = "read" /\ gen'[g].loops = gen[g].loops
      BY <3>1, GotoMoves
    <3>3. Attempts - gen[g].loops + 1 <= Applied
      BY <1>3, <1>8, <2>2 DEF GenReread, RereadSame, Counted
    <3>4. Counted(g)'
      BY <1>2, <3>2, <3>3 DEF Counted, Checking
    <3> QED
      BY <1>1, <3>2, <3>4, CountKept
  <2> QED
    BY <1>4, <1>8, <2>1, <2>2 DEF GenReread
<1>9. CASE GenClear(g)
  BY <1>4, <1>9 DEF GenClear
<1> QED
  BY <1>6, <1>7, <1>8, <1>9 DEF Generate

LEMMA NextCountInv ==
  ASSUME TypeOK, CountInv, TimeInv, [Next]_vars
  PROVE  CountInv'
<1> Cron \in Generators
  BY DEF Generators
<1>1. CASE UNCHANGED <<gen, gathering, saves>>
  <2>1. Applying' = Applying /\ Applied' = Applied
    BY <1>1 DEF Applying, Applied
  <2> QED
    BY <1>1, <2>1 DEF CountInv, Counted, Live
<1>2. CASE \E p \in Savers : Save(p)
  BY <1>2, SaveCounts
<1>3. CASE \E g \in Generators : Generate(g)
  BY <1>3, GenerateCounts
<1>4. CASE CronBegin \/ CronHold
  <2>1. /\ Alone(Cron) /\ gen'[Cron].pc \in {"read", "idle"} /\ gen[Cron].pc # "apply"
        /\ gen'[Cron].pc = "read" => Live /\ gen'[Cron].loops = Attempts
    BY <1>4, CronMoves
  <2>2. saves' = saves /\ gathering' = gathering
    BY <1>4 DEF CronBegin, CronHold
  <2>3. Applying' = Applying
    BY <2>1 DEF Applying, Alone, Generators
  <2>4. Counted(Cron)'
    BY <2>1, <2>2, <2>3, SyncConstants DEF Counted, CountInv, Applied, Checking
  <2> QED
    BY <2>1, <2>2, <2>4, CountKept
<1>5. ASSUME NEW g \in Generators, GenFails(g)
      PROVE  CountInv'
  <2>1. Alone(g) /\ gen'[g].pc \in {"idle", "hold"} /\ gen[g].pc # "apply"
    BY <1>5, IdleMoves DEF GenFails
  <2> QED
    BY <1>5, <2>1, CountKept DEF GenFails, Counted, Checking
<1> QED
  BY <1>1, <1>2, <1>3, <1>4, <1>5
     DEF Next, vars, CronStep, Generators, ClaimScheduled, CancelUnstarted, CreateResend,
         ClaimResend, CancelResend, Tick

LEMMA InitCount == Init => CountInv
<1> SUFFICES ASSUME Init
             PROVE  CountInv
  OBVIOUS
<1>1. \A g \in Generators : gen[g].pc = "idle"
  BY DEF Init, Idle
<1>2. Applying = {}
  BY <1>1 DEF Applying, Generators
<1>3. IsFiniteSet(Applying) /\ Applied = 0
  BY <1>2, FS_EmptySet DEF Applied, Init
<1>4. \A g \in Generators : Counted(g)
  BY <1>1 DEF Counted, Checking
<1> QED
  BY <1>3, <1>4 DEF CountInv, Init, Live, NewRow

(* With as many attempts as saves no outdated notice is left without a      *)
(* generator at work on it, whatever the order of their statements.         *)
THEOREM SpecStaleIsBeingSynced ==
  MaxFaults = 0 /\ Unset \notin Saved /\ MaxSaves <= Attempts =>
    (Spec => []StaleIsBeingSynced)
<1> SUFFICES ASSUME MaxFaults = 0, Unset \notin Saved, MaxSaves <= Attempts
             PROVE  Spec => []StaleIsBeingSynced
  OBVIOUS
<1> DEFINE Inv == TimeInv /\ CountInv
<1>1. Init => Inv
  BY InitSync, InitCount
<1>2. TypeOK /\ Inv /\ [Next]_vars => Inv'
  BY NextTimeInv, NextCountInv
<1>3. TypeOK /\ Inv => AttemptsLeft
  BY CountSuffices
<1>4. Spec /\ []AttemptsLeft => []StaleIsBeingSynced
  BY SpecSyncedWhileAttemptsLast
<1> QED
  BY <1>1, <1>2, <1>3, <1>4, SpecTypeOK, PTL DEF Spec

-----------------------------------------------------------------------------
(* The sync implements NoticeLife *)

LEMMA LifeInit == Init => Life!Init
  BY DEF Init, Life!Init, NewRow, NoNotice, SourceState, ResendIf

(* What a step that keeps the gathering and the resend does to the notice.  *)
NoticeOnly ==
  /\ gathering'.state = gathering.state /\ resend' = resend
  /\ \/ notice' = notice
     \/ /\ notice.status = "scheduled" /\ notice'.held \in BOOLEAN
        /\ notice'.status = notice.status /\ notice'.time = notice.time
     \/ /\ notice.status = "scheduled" /\ ~HasStarted
        /\ notice'.status = notice.status /\ notice'.held = notice.held
     \/ /\ notice.status = "scheduled" /\ notice'.time = notice.time /\ ~notice'.held
        /\ \/ notice'.status = "started" /\ ~notice.held
           \/ notice'.status = "cancelled"
     \/ notice.status = "none" /\ Live /\ notice'.status = "scheduled" /\ ~notice'.held

LEMMA NoticeOnlyImplements ==
  ASSUME TypeOK, NoticeOnly
  PROVE  [Life!Next]_Life!vars
<1>1. /\ UNCHANGED <<SourceState, ResendIf("scheduled"), ResendIf("started")>>
  BY DEF NoticeOnly, SourceState, ResendIf
<1>2. CASE notice' = notice
  BY <1>1, <1>2 DEF Life!vars
<1>3. CASE /\ notice.status = "scheduled" /\ notice'.held \in BOOLEAN
           /\ notice'.status = notice.status /\ notice'.time = notice.time
  BY <1>1, <1>3 DEF Life!Next, Life!HoldOrRelease
<1>4. CASE /\ notice.status = "scheduled" /\ ~HasStarted
           /\ notice'.status = notice.status /\ notice'.held = notice.held
  <2>1. ~Life!HasBegun
    BY <1>4 DEF HasStarted, Life!HasBegun, ResendIf
  <2> QED
    BY <1>1, <1>4, <2>1 DEF Life!Next, Life!Rewrite
<1>5. CASE /\ notice.status = "scheduled" /\ notice'.time = notice.time /\ ~notice'.held
           /\ \/ notice'.status = "started" /\ ~notice.held
              \/ notice'.status = "cancelled"
  BY <1>1, <1>5 DEF Life!Next, Life!Start, Life!Withdraw
<1>6. CASE notice.status = "none" /\ Live /\ notice'.status = "scheduled" /\ ~notice'.held
  BY <1>1, <1>6 DEF Life!Next, Life!Create, Live, SourceState
<1> QED
  BY <1>2, <1>3, <1>4, <1>5, <1>6 DEF NoticeOnly

LEMMA SaveImplements ==
  ASSUME TypeOK, NoticeInv, NEW p \in Savers, Save(p)
  PROVE  [Life!Next]_Life!vars
<1>1. CASE SaveRead(p) \/ SaveFails(p) \/ SaveWritesNothing(p)
  BY <1>1, NoticeOnlyImplements DEF SaveRead, SaveFails, SaveWritesNothing, NoticeOnly
<1>2. ASSUME NEW time \in Saved, SaveCreates(p, time)
      PROVE  [Life!Next]_Life!vars
  BY <1>2 DEF SaveCreates, Life!Next, Life!Appear, SourceState, ResendIf
<1>3. ASSUME NEW time \in Saved, SaveEdits(p, time)
      PROVE  [Life!Next]_Life!vars
  <2>1. gathering'.state = gathering.state
    BY <1>3 DEF SaveEdits, TypeOK, Gathering
  <2>2. NoticeOnly
    BY <1>3, <2>1 DEF SaveEdits, Held, TypeOK, Notice, NoticeOnly
  <2> QED
    BY <2>2, NoticeOnlyImplements
<1>4. CASE SaveDeletes(p)
  <2>1. SourceState = "there" /\ SourceState' = "gone"
    BY <1>4 DEF SaveDeletes, Live, TypeOK, Gathering, SourceState
  <2>2. ResendIf("scheduled")' = {} /\ ResendIf("started")' = ResendIf("started")
    BY <1>4 DEF SaveDeletes, ResendIf
  <2>3. IF notice.status = "started" THEN notice' = notice
        ELSE notice'.status \in {"none", "cancelled"} /\ ~notice'.held
    BY <1>4 DEF SaveDeletes, CleanedUp, NoNotice, TypeOK, Notice
  <2>4. Life!HasBegun => notice'.time = notice.time
    <3>1. Life!HasBegun => HasStarted
      BY DEF Life!HasBegun, HasStarted, ResendIf
    <3> QED
      BY <1>4, <3>1 DEF SaveDeletes, CleanedUp, HasStarted, TypeOK, Notice
  <2> QED
    BY <2>1, <2>2, <2>3, <2>4 DEF Life!Next, Life!End
<1> QED
  BY <1>1, <1>2, <1>3, <1>4 DEF Save

LEMMA GenerateImplements ==
  ASSUME TypeOK, NoticeInv, NEW g \in Generators, Generate(g)
  PROVE  [Life!Next]_Life!vars
<1>1. CASE GenRead(g) \/ GenSource(g) \/ GenStarted(g) \/ GenFind(g) \/ GenReread(g)
  BY <1>1, NoticeOnlyImplements
     DEF GenRead, GenSource, GenStarted, GenFind, GenReread, NoticeOnly
<1>2. CASE GenCreate(g)
  BY <1>2, NoticeOnlyImplements DEF GenCreate, Insertable, NoticeOnly
<1>3. CASE GenWrite(g)
  <2>1. NoticeOnly
    BY <1>3 DEF GenWrite, Writable, NoticeOnly, TypeOK, Notice
  <2> QED
    BY <2>1, NoticeOnlyImplements
<1>4. CASE GenClear(g)
  <2>1. NoticeOnly
    BY <1>4 DEF GenClear, Lifts, NoticeOnly, TypeOK, Notice
  <2> QED
    BY <2>1, NoticeOnlyImplements
<1> QED
  BY <1>1, <1>2, <1>3, <1>4 DEF Generate

LEMMA OtherImplements ==
  ASSUME TypeOK, NoticeInv,
         \/ CronBegin \/ CronHold
         \/ \E g \in Generators : GenFails(g)
         \/ ClaimScheduled \/ CancelUnstarted
         \/ CreateResend \/ ClaimResend \/ CancelResend
         \/ Tick
  PROVE  [Life!Next]_Life!vars
<1>1. CASE CronBegin \/ (\E g \in Generators : GenFails(g)) \/ Tick
  BY <1>1, NoticeOnlyImplements DEF CronBegin, GenFails, Tick, NoticeOnly
<1>2. CASE CronHold \/ ClaimScheduled \/ CancelUnstarted
  <2>1. NoticeOnly
    BY <1>2 DEF CronHold, ClaimScheduled, CancelUnstarted, NoticeOnly, TypeOK, Notice
  <2> QED
    BY <2>1, NoticeOnlyImplements
<1>3. CASE CreateResend
  <2>1. Life!Resend("resend")
    BY <1>3 DEF CreateResend, Resendable, Live, Life!Resend, SourceState, ResendIf
  <2> QED
    BY <2>1 DEF Life!Next
<1>4. CASE ClaimResend
  <2>1. Life!StartResend("resend")
    BY <1>4 DEF ClaimResend, Life!StartResend, SourceState, ResendIf
  <2> QED
    BY <2>1 DEF Life!Next
<1>5. CASE CancelResend
  <2>1. Life!Withdraw
    BY <1>5 DEF CancelResend, Life!Withdraw, SourceState, ResendIf
  <2> QED
    BY <2>1 DEF Life!Next
<1> QED
  BY <1>1, <1>2, <1>3, <1>4, <1>5

(* Every step of a save, a generator, the reconciliation, staff or the      *)
(* resolver is a step in the life of the notice, or none.                   *)
THEOREM SpecImplementsNoticeLife == Spec => ImplementsNoticeLife
<1>1. TypeOK /\ NoticeInv /\ [Next]_vars => [Life!Next]_Life!vars
  <2> SUFFICES ASSUME TypeOK, NoticeInv, [Next]_vars
               PROVE  [Life!Next]_Life!vars
    OBVIOUS
  <2>1. CASE UNCHANGED vars
    BY <2>1, NoticeOnlyImplements DEF vars, NoticeOnly
  <2>2. CASE \E p \in Savers : Save(p)
    BY <2>2, SaveImplements
  <2>3. CASE \E g \in Generators : Generate(g)
    BY <2>3, GenerateImplements
  <2> QED
    BY <2>1, <2>2, <2>3, OtherImplements DEF Next, CronStep, Generators
<1> QED
  BY <1>1, LifeInit, SpecTypeOK, SpecNoticeInv, PTL DEF Spec, ImplementsNoticeLife, Life!Spec
=============================================================================
