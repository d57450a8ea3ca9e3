-------------------------- MODULE MasterImportProofs --------------------------
(***************************************************************************)
(* What holds of an import for files of every length, any number of admins   *)
(* that commit it and any timeout of the lock.                              *)
(***************************************************************************)
EXTENDS MasterImport, TLAPS

ImportTypeOK ==
  /\ imports \in Kinds
  /\ fileSession \in {"none", "validated", "committed", "gone"}
  /\ stored \subseteq FileRows /\ taken \subseteq FileRows
  /\ lock \in [token : Committers \cup {NoToken}, since : Nat]
  /\ committer \in [Committers -> Committer]
  /\ ticks \in Nat

(* Whoever is within its time has the lock. *)
HoldsWhileFresh ==
  \A c \in Committers :
    Working(c) /\ LockFresh(committer[c].since) =>
      lock.token = c /\ lock.since = committer[c].since

LockInv == ImportTypeOK /\ HoldsWhileFresh

(* The rows of the file a request has written and answers for. *)
Written(v) == IF v.pc \in {"write", "undo", "save"} THEN FileRows \ v.todo ELSE {}

(* What a request has left to write is all that is not there. *)
RestOfFile(v) ==
  /\ v.pc = "users" => imports = "teachers"
  /\ v.pc \in {"users", "write"} /\ imports # "classrooms" => FileRows \ stored \subseteq v.todo
  /\ v.pc = "save" => stored = FileRows

(* Class rooms come in chunks, which nobody but their request takes back. *)
ChunkRows(v) ==
  imports = "classrooms" =>
    /\ Written(v) \subseteq stored
    /\ v.pc = "save" => v.todo = {}
    /\ fileSession = "committed" /\ v.pc # "save" => Written(v) = {}

Apart ==
  imports = "classrooms" =>
    \A c, d \in Committers : c # d => Written(committer[c]) \cap Written(committer[d]) = {}

RowsInv ==
  /\ ImportTypeOK
  /\ \A c \in Committers : RestOfFile(committer[c]) /\ ChunkRows(committer[c])
  /\ Apart
  /\ CommittedMeansImported

-----------------------------------------------------------------------------
(* Type correctness *)

LEMMA IdleCommitter == Idle \in Committer /\ Idle.pc = "idle" /\ Idle.todo = {}
  BY DEF Idle, Committer

LEMMA MovedCommitter ==
  ASSUME ImportTypeOK, NEW c \in Committers,
         NEW pc \in {"idle", "begin", "wait", "inspect", "users", "write", "undo",
                     "save", "release"}
  PROVE  /\ [committer[c] EXCEPT !.pc = pc] \in Committer
         /\ \A todo \in SUBSET FileRows :
              [committer[c] EXCEPT !.pc = pc, !.todo = todo] \in Committer
         /\ [committer[c] EXCEPT !.pc = pc, !.since = ticks] \in Committer
  BY DEF ImportTypeOK, Committer

(* A step of one request leaves one new state of it. *)
LEMMA OneCommitter ==
  ASSUME ImportTypeOK, NEW c \in Committers, NEW v \in Committer,
         committer' = [committer EXCEPT ![c] = v]
  PROVE  /\ committer' \in [Committers -> Committer]
         /\ committer'[c] = v
         /\ \A d \in Committers \ {c} : committer'[d] = committer[d]
  BY DEF ImportTypeOK

(* What each step of a request leaves. *)
LEMMA Requests ==
  ASSUME ImportTypeOK, NEW c \in Committers,
         BeginCommit(c) \/ TryBegin(c) \/ AwaitOther(c) \/ InspectRows(c) \/ InsertUsers(c)
         \/ WriteRows(c) \/ UndoRows(c) \/ SaveSession(c) \/ ReleaseLock(c) \/ CommitDies(c)
         \/ CallFails(c) \/ BatchFails(c) \/ UndoFails(c)
  PROVE  \E v \in Committer : committer' = [committer EXCEPT ![c] = v]
<1> USE DEF Step, Answer
<1>1. CASE BeginCommit(c)
  BY <1>1, MovedCommitter DEF BeginCommit
<1>2. CASE TryBegin(c)
  <2>1. /\ [committer[c] EXCEPT !.pc = "wait"] \in Committer
        /\ [committer[c] EXCEPT !.pc = "inspect", !.since = ticks] \in Committer
    BY MovedCommitter
  <2> QED
    BY <1>2, <2>1 DEF TryBegin
<1>3. CASE AwaitOther(c) \/ ReleaseLock(c) \/ CommitDies(c)
  BY <1>3, IdleCommitter DEF AwaitOther, ReleaseLock, CommitDies
<1>4. CASE InspectRows(c)
  <2>1. ASSUME NEW pc \in {"users", "write"}, NEW todo \in SUBSET FileRows,
               Inspect(c, pc, todo)
        PROVE  \E v \in Committer : committer' = [committer EXCEPT ![c] = v]
    <3>1. [committer[c] EXCEPT !.pc = pc, !.todo = todo] \in Committer
          /\ [committer[c] EXCEPT !.pc = "release"] \in Committer
      BY MovedCommitter
    <3> QED
      BY <2>1, <3>1 DEF Inspect, ImportTypeOK
  <2> QED
    BY <1>4, <2>1 DEF InspectRows, InspectStudents, InspectClassRooms, InspectTeachers,
       ExistingStudents
<1>5. CASE InsertUsers(c) \/ SaveSession(c) \/ UndoRows(c)
  BY <1>5, MovedCommitter DEF InsertUsers, SaveSession, UndoRows
<1>6. CASE WriteRows(c)
  <2>1. ASSUME NEW fits, NEW failed \in {"release", "undo"}, OneBatch(c, fits, failed)
        PROVE  \E v \in Committer : committer' = [committer EXCEPT ![c] = v]
    BY <2>1, MovedCommitter DEF OneBatch
  <2>2. CASE WriteClassRooms(c)
    <3>1. ASSUME NEW row, committer' = [committer EXCEPT ![c].todo = @ \ {row}]
          PROVE  \E v \in Committer : committer' = [committer EXCEPT ![c] = v]
      <4>1. [committer[c] EXCEPT !.todo = @ \ {row}] \in Committer
        BY DEF ImportTypeOK, Committer
      <4> QED
        BY <3>1, <4>1 DEF ImportTypeOK
    <3> QED
      BY <2>2, <3>1, MovedCommitter DEF WriteClassRooms
  <2> QED
    BY <1>6, <2>1, <2>2 DEF WriteRows, WriteStudents, WriteTeachers
<1>7. CASE CallFails(c) \/ BatchFails(c) \/ UndoFails(c)
  BY <1>7, MovedCommitter DEF CallFails, BatchFails, UndoFails
<1> QED
  BY <1>1, <1>2, <1>3, <1>4, <1>5, <1>6, <1>7

LEMMA LockTyped ==
  ASSUME ImportTypeOK, NEW c \in Committers
  PROVE  /\ TryBegin(c) => lock' \in [token : Committers \cup {NoToken}, since : Nat]
         /\ ReleaseLock(c) => lock' \in [token : Committers \cup {NoToken}, since : Nat]
<1>1. ASSUME TryBegin(c)
      PROVE  lock' \in [token : Committers \cup {NoToken}, since : Nat]
  BY <1>1 DEF TryBegin, ImportTypeOK
<1>2. ASSUME ReleaseLock(c)
      PROVE  lock' \in [token : Committers \cup {NoToken}, since : Nat]
  BY <1>2 DEF ReleaseLock, Unlocked, ImportTypeOK
<1> QED
  BY <1>1, <1>2

LEMMA StoredTyped ==
  ASSUME ImportTypeOK, NEW c \in Committers,
         WriteRows(c) \/ UndoRows(c) \/ BatchFails(c) \/ UndoFails(c)
  PROVE  stored' \subseteq FileRows
<1>1. committer[c].todo \subseteq FileRows /\ stored \subseteq FileRows
  BY DEF ImportTypeOK, Committer
<1>2. CASE WriteRows(c)
  BY <1>1, <1>2 DEF WriteRows, WriteStudents, WriteTeachers, WriteClassRooms, OneBatch
<1>3. CASE UndoRows(c)
  BY <1>1, <1>3 DEF UndoRows, UndoClassRooms, UndoTeachers
<1>4. CASE BatchFails(c)
  BY <1>1, <1>4 DEF BatchFails, Batch
<1>5. CASE UndoFails(c)
  BY <1>1, <1>5 DEF UndoFails
<1> QED
  BY <1>2, <1>3, <1>4, <1>5

LEMMA ImportTypeStep == ImportTypeOK /\ [ImportNext]_importVars => ImportTypeOK'
<1> SUFFICES ASSUME ImportTypeOK, [ImportNext]_importVars
             PROVE  ImportTypeOK'
  OBVIOUS
<1>1. CASE CreateImport \/ SessionGone \/ Tick
  BY <1>1 DEF CreateImport, SessionGone, Tick, ImportTypeOK
<1>2. ASSUME NEW row \in FileRows, EnterRow(row) \/ TakeNumber(row)
      PROVE  ImportTypeOK'
  BY <1>2 DEF EnterRow, TakeNumber, ImportTypeOK
<1>3. ASSUME NEW c \in Committers,
             BeginCommit(c) \/ TryBegin(c) \/ AwaitOther(c) \/ InspectRows(c) \/ InsertUsers(c)
             \/ WriteRows(c) \/ UndoRows(c) \/ SaveSession(c) \/ ReleaseLock(c) \/ CommitDies(c)
             \/ CallFails(c) \/ BatchFails(c) \/ UndoFails(c)
      PROVE  ImportTypeOK'
  <2>1. committer' \in [Committers -> Committer]
    BY <1>3, Requests, OneCommitter
  <2>2. CASE BeginCommit(c) \/ AwaitOther(c) \/ InspectRows(c) \/ InsertUsers(c) \/ CommitDies(c)
             \/ CallFails(c)
    BY <2>1, <2>2
       DEF BeginCommit, AwaitOther, InspectRows, InsertUsers, CommitDies, CallFails, ImportTypeOK
  <2>3. CASE WriteRows(c) \/ UndoRows(c) \/ BatchFails(c) \/ UndoFails(c)
    BY <2>1, <2>3, StoredTyped DEF WriteRows, UndoRows, BatchFails, UndoFails, ImportTypeOK
  <2>4. CASE TryBegin(c) \/ ReleaseLock(c)
    BY <2>1, <2>4, LockTyped DEF TryBegin, ReleaseLock, ImportTypeOK
  <2>5. CASE SaveSession(c)
    BY <2>1, <2>5 DEF SaveSession, ImportTypeOK
  <2> QED
    BY <1>3, <2>2, <2>3, <2>4, <2>5
<1>4. CASE UNCHANGED importVars
  BY <1>4 DEF importVars, ImportTypeOK
<1> QED
  BY <1>1, <1>2, <1>3, <1>4 DEF ImportNext

LEMMA ImportTypeInit == ImportInit => ImportTypeOK
  BY IdleCommitter DEF ImportInit, ImportTypeOK, Unlocked

-----------------------------------------------------------------------------
(* The lock *)

LEMMA LockInitially == ImportInit => LockInv
  BY ImportTypeInit DEF ImportInit, LockInv, HoldsWhileFresh, Working, Idle

(* A request that does not ask for the lock or give it up. *)
LEMMA LockLeftAlone ==
  ASSUME LockInv, ImportTypeOK', NEW c \in Committers, NEW v \in Committer,
         committer' = [committer EXCEPT ![c] = v], UNCHANGED <<lock, ticks>>,
         v.pc \in {"idle", "begin", "wait"} \/ (Working(c) /\ v.since = committer[c].since)
  PROVE  LockInv'
<1> SUFFICES ASSUME NEW d \in Committers, Working(d)', LockFresh(committer[d].since)'
             PROVE  lock.token = d /\ lock.since = committer'[d].since
  BY DEF LockInv, HoldsWhileFresh
<1>1. CASE d = c
  <2>1. committer'[d] = v
    BY <1>1, OneCommitter DEF LockInv
  <2>2. Working(c) /\ v.since = committer[c].since
    BY <2>1 DEF Working
  <2> QED
    BY <1>1, <2>1, <2>2 DEF LockInv, HoldsWhileFresh, LockFresh
<1>2. CASE d # c
  <2>1. committer'[d] = committer[d]
    BY <1>2, OneCommitter DEF LockInv
  <2> QED
    BY <2>1 DEF LockInv, HoldsWhileFresh, LockFresh, Working
<1> QED
  BY <1>1, <1>2

LEMMA MovedSince ==
  ASSUME NEW v \in Committer, NEW pc, NEW todo
  PROVE  /\ [v EXCEPT !.pc = pc].since = v.since
         /\ [v EXCEPT !.todo = todo].since = v.since
         /\ [v EXCEPT !.pc = pc, !.todo = todo].since = v.since
  BY DEF Committer

(* At work, a request keeps the time at which it got the lock. *)
LEMMA WorkKeepsSince ==
  ASSUME ImportTypeOK, NEW c \in Committers,
         InspectRows(c) \/ InsertUsers(c) \/ WriteRows(c) \/ UndoRows(c) \/ SaveSession(c)
         \/ CallFails(c) \/ BatchFails(c) \/ UndoFails(c)
  PROVE  Working(c) /\ committer'[c].since = committer[c].since
<1>1. Working(c)
  BY DEF Working, InspectRows, InsertUsers, WriteRows, UndoRows, SaveSession, CallFails,
     BatchFails, UndoFails
<1>2. committer[c] \in Committer
  BY DEF ImportTypeOK
<1>3. ASSUME NEW v, committer' = [committer EXCEPT ![c] = v]
      PROVE  committer'[c] = v
  BY <1>3 DEF ImportTypeOK
<1>4. ASSUME NEW pc, Step(c, pc)
      PROVE  committer'[c].since = committer[c].since
  BY <1>2, <1>3, <1>4, MovedSince DEF Step
<1>5. ASSUME NEW pc, NEW todo, Inspect(c, pc, todo)
      PROVE  committer'[c].since = committer[c].since
  BY <1>2, <1>3, <1>5, MovedSince DEF Inspect
<1>6. ASSUME NEW row, committer' = [committer EXCEPT ![c].todo = @ \ {row}]
      PROVE  committer'[c].since = committer[c].since
  BY <1>2, <1>3, <1>6, MovedSince
<1>7. CASE InspectRows(c)
  BY <1>1, <1>5, <1>7 DEF InspectRows, InspectStudents, InspectClassRooms, InspectTeachers
<1>8. CASE InsertUsers(c) \/ UndoRows(c) \/ SaveSession(c) \/ CallFails(c) \/ BatchFails(c)
           \/ UndoFails(c)
  BY <1>1, <1>4, <1>8 DEF InsertUsers, UndoRows, SaveSession, CallFails, BatchFails, UndoFails
<1>9. CASE WriteRows(c)
  <2>1. ASSUME NEW fits, NEW failed, OneBatch(c, fits, failed)
        PROVE  committer'[c].since = committer[c].since
    BY <1>4, <2>1 DEF OneBatch
  <2>2. CASE WriteClassRooms(c)
    BY <1>1, <1>4, <1>6, <2>2 DEF WriteClassRooms
  <2> QED
    BY <1>1, <1>9, <2>1, <2>2 DEF WriteRows, WriteStudents, WriteTeachers
<1> QED
  BY <1>1, <1>7, <1>8, <1>9

(* The lock passes on only when its holder is late. *)
LEMMA TryBeginLocks ==
  ASSUME LockInv, ImportTypeOK', NEW c \in Committers, TryBegin(c)
  PROVE  LockInv'
<1>1. CASE lock.token # NoToken /\ LockFresh(lock.since)
  <2>1. /\ committer' = [committer EXCEPT ![c] = [committer[c] EXCEPT !.pc = "wait"]]
        /\ UNCHANGED <<lock, ticks>>
    BY <1>1 DEF TryBegin, Step
  <2>2. /\ [committer[c] EXCEPT !.pc = "wait"] \in Committer
        /\ [committer[c] EXCEPT !.pc = "wait"].pc = "wait"
    BY DEF LockInv, ImportTypeOK, Committer
  <2> QED
    BY <2>1, <2>2, LockLeftAlone
<1>2. CASE ~(lock.token # NoToken /\ LockFresh(lock.since))
  <2>1. /\ lock' = [token |-> c, since |-> ticks]
        /\ committer' = [committer EXCEPT ![c] = [committer[c] EXCEPT !.pc = "inspect", !.since = ticks]]
        /\ ticks' = ticks
    BY <1>2 DEF TryBegin
  <2>2. committer'[c].since = ticks /\ \A d \in Committers \ {c} : committer'[d] = committer[d]
    BY <2>1 DEF LockInv, ImportTypeOK, Committer
  <2>3. \A d \in Committers : Working(d) => ~LockFresh(committer[d].since)
    BY <1>2, MasterImportConstants DEF LockInv, HoldsWhileFresh
  <2> QED
    BY <2>1, <2>2, <2>3 DEF LockInv, HoldsWhileFresh, Working, LockFresh
<1> QED
  BY <1>1, <1>2

(* A request that is late leaves the lock of the next alone. *)
LEMMA ReleaseUnlocks ==
  ASSUME LockInv, ImportTypeOK', NEW c \in Committers, ReleaseLock(c)
  PROVE  LockInv'
<1>1. /\ committer' = [committer EXCEPT ![c] = Idle] /\ ticks' = ticks
      /\ lock.token # c => lock' = lock
  BY DEF ReleaseLock, Answer, OwnToken
<1>2. committer'[c].pc = "idle" /\ \A d \in Committers \ {c} : committer'[d] = committer[d]
  BY <1>1, OneCommitter, IdleCommitter DEF LockInv
<1> QED
  BY <1>1, <1>2 DEF LockInv, HoldsWhileFresh, Working, LockFresh

LEMMA LockStep == LockInv /\ [ImportNext]_importVars => LockInv'
<1> SUFFICES ASSUME LockInv, [ImportNext]_importVars
             PROVE  LockInv'
  OBVIOUS
<1>1. ImportTypeOK /\ ImportTypeOK'
  BY ImportTypeStep DEF LockInv
<1>2. CASE UNCHANGED <<lock, committer, ticks>>
  BY <1>1, <1>2 DEF LockInv, HoldsWhileFresh, Working, LockFresh
<1>3. CASE Tick
  <2> SUFFICES ASSUME NEW d \in Committers, Working(d)', LockFresh(committer[d].since)'
               PROVE  lock'.token = d /\ lock'.since = committer'[d].since
    BY <1>1 DEF LockInv, HoldsWhileFresh
  <2>1. UNCHANGED <<lock, committer>> /\ committer[d].since \in Nat
    BY <1>1, <1>3 DEF Tick, ImportTypeOK, Committer
  <2>2. LockFresh(committer[d].since)
    <3>1. ticks' - committer[d].since < LockTimeout /\ ticks' = ticks + 1
      BY <1>3, <2>1 DEF Tick, LockFresh
    <3> QED
      BY <1>1, <2>1, <3>1, MasterImportConstants DEF ImportTypeOK, LockFresh
  <2> QED
    BY <2>1, <2>2 DEF LockInv, HoldsWhileFresh, Working
<1>4. ASSUME NEW c \in Committers, BeginCommit(c) \/ AwaitOther(c) \/ CommitDies(c)
      PROVE  LockInv'
  <2>1. \E v \in Committer : /\ committer' = [committer EXCEPT ![c] = v]
                             /\ v.pc \in {"idle", "begin", "wait"}
    <3>1. CASE BeginCommit(c)
      <4>1. /\ [committer[c] EXCEPT !.pc = "begin"] \in Committer
            /\ [committer[c] EXCEPT !.pc = "begin"].pc = "begin"
        BY <1>1 DEF ImportTypeOK, Committer
      <4> QED
        BY <3>1, <4>1 DEF BeginCommit, Step
    <3>2. CASE AwaitOther(c) \/ CommitDies(c)
      BY <3>2, IdleCommitter DEF AwaitOther, CommitDies, Answer
    <3> QED
      BY <1>4, <3>1, <3>2
  <2>2. UNCHANGED <<lock, ticks>>
    BY <1>4 DEF BeginCommit, AwaitOther, CommitDies
  <2> QED
    BY <1>1, <2>1, <2>2, LockLeftAlone
<1>5. ASSUME NEW c \in Committers,
             InspectRows(c) \/ InsertUsers(c) \/ WriteRows(c) \/ UndoRows(c) \/ SaveSession(c)
             \/ CallFails(c) \/ BatchFails(c) \/ UndoFails(c)
      PROVE  LockInv'
  <2>1. PICK v \in Committer : committer' = [committer EXCEPT ![c] = v]
    BY <1>1, <1>5, Requests
  <2>2. Working(c) /\ v.since = committer[c].since
    BY <1>1, <1>5, <2>1, WorkKeepsSince, OneCommitter
  <2>3. UNCHANGED <<lock, ticks>>
    BY <1>5 DEF InspectRows, InsertUsers, WriteRows, UndoRows, SaveSession, CallFails,
       BatchFails, UndoFails
  <2> QED
    BY <1>1, <2>1, <2>2, <2>3, LockLeftAlone
<1>6. ASSUME NEW row \in FileRows, EnterRow(row) \/ TakeNumber(row)
      PROVE  UNCHANGED <<lock, committer, ticks>>
  BY <1>6 DEF EnterRow, TakeNumber
<1>7. CASE CreateImport \/ SessionGone \/ UNCHANGED importVars
  BY <1>2, <1>7 DEF CreateImport, SessionGone, importVars
<1> QED
  BY <1>1, <1>2, <1>3, <1>4, <1>5, <1>6, <1>7, TryBeginLocks, ReleaseUnlocks DEF ImportNext

(* Within its time, whoever began a commit is alone: one that outstayed its    *)
(* time neither keeps nor takes the lock of the next (tryBegin and end of the   *)
(* Durable Object).                                                         *)
THEOREM ImportFreshCommitIsExclusive == ImportSpec => []FreshCommitIsExclusive
<1>1. LockInv => FreshCommitIsExclusive
  BY DEF LockInv, HoldsWhileFresh, FreshCommitIsExclusive
<1> QED
  BY <1>1, LockInitially, LockStep, PTL DEF ImportSpec

-----------------------------------------------------------------------------
(* The rows *)

LEMMA RowsInitially == ImportInit => RowsInv
  BY ImportTypeInit DEF ImportInit, RowsInv, RestOfFile, ChunkRows, Apart, Written, Idle,
     CommittedMeansImported

(* A request that takes back no row, and answers for no more of them. *)
LEMMA NoRowWritten ==
  ASSUME RowsInv, ImportTypeOK', NEW c \in Committers, NEW v \in Committer,
         committer' = [committer EXCEPT ![c] = v], UNCHANGED <<imports, fileSession>>,
         stored \subseteq stored',
         RestOfFile(v), ChunkRows(v),
         imports = "classrooms" => Written(v) \subseteq Written(committer[c])
  PROVE  RowsInv'
<1>1. committer'[c] = v /\ \A d \in Committers \ {c} : committer'[d] = committer[d]
  BY OneCommitter DEF RowsInv
<1>2. \A d \in Committers : RestOfFile(committer'[d]) /\ ChunkRows(committer'[d])
  BY <1>1 DEF RowsInv
<1>3. stored \subseteq FileRows /\ stored' \subseteq FileRows
  BY DEF RowsInv, ImportTypeOK, FileRows
<1>4. (\A d \in Committers : RestOfFile(committer[d]) /\ ChunkRows(committer[d]))'
  <2>1. \A d \in Committers : RestOfFile(committer[d])'
    BY <1>2, <1>3 DEF RestOfFile, FileRows
  <2>2. \A d \in Committers : ChunkRows(committer[d])'
    BY <1>2 DEF ChunkRows, Written, FileRows
  <2> QED
    BY <2>1, <2>2
<1>5. Apart'
  <2> SUFFICES ASSUME imports = "classrooms", NEW d \in Committers, NEW e \in Committers, d # e
               PROVE  Written(committer'[d]) \cap Written(committer'[e]) = {}
    BY DEF Apart, Written, FileRows
  <2>1. Written(committer[d]) \cap Written(committer[e]) = {}
    BY DEF RowsInv, Apart
  <2>2. /\ Written(committer'[d]) \subseteq Written(committer[d])
        /\ Written(committer'[e]) \subseteq Written(committer[e])
    BY <1>1
  <2> QED
    BY <2>1, <2>2
<1>6. CommittedMeansImported'
  BY <1>3 DEF RowsInv, CommittedMeansImported, FileRows
<1> QED
  BY <1>4, <1>5, <1>6 DEF RowsInv

(* A request that is not at the rows answers for none. *)
LEMMA OffTheRows ==
  ASSUME NEW v, v.pc \notin {"users", "write", "undo", "save"}
  PROVE  RestOfFile(v) /\ ChunkRows(v) /\ Written(v) = {}
  BY DEF RestOfFile, ChunkRows, Written

LEMMA NoRowStep ==
  ASSUME RowsInv, ImportTypeOK', NEW c \in Committers,
         BeginCommit(c) \/ TryBegin(c) \/ AwaitOther(c) \/ ReleaseLock(c) \/ CommitDies(c)
         \/ CallFails(c)
  PROVE  RowsInv'
<1>1. committer[c] \in Committer
  BY DEF RowsInv, ImportTypeOK
<1>2. \E v \in Committer : /\ committer' = [committer EXCEPT ![c] = v]
                           /\ v.pc \in {"idle", "begin", "wait", "inspect", "release"}
  <2>1. CASE AwaitOther(c) \/ ReleaseLock(c) \/ CommitDies(c)
    BY <2>1, IdleCommitter DEF AwaitOther, ReleaseLock, CommitDies, Answer
  <2>2. ASSUME NEW pc \in {"begin", "wait", "release"}, Step(c, pc)
        PROVE  \E v \in Committer : /\ committer' = [committer EXCEPT ![c] = v]
                                    /\ v.pc \in {"idle", "begin", "wait", "inspect", "release"}
    <3>1. [committer[c] EXCEPT !.pc = pc] \in Committer /\ [committer[c] EXCEPT !.pc = pc].pc = pc
      BY <1>1 DEF Committer
    <3> QED
      BY <2>2, <3>1 DEF Step
  <2>3. CASE committer' = [committer EXCEPT ![c].pc = "inspect", ![c].since = ticks]
    <3> DEFINE v == [committer[c] EXCEPT !.pc = "inspect", !.since = ticks]
    <3>1. v \in Committer /\ v.pc = "inspect"
      BY <1>1 DEF Committer, RowsInv, ImportTypeOK
    <3>2. committer' = [committer EXCEPT ![c] = v]
      BY <2>3
    <3> QED
      BY <3>1, <3>2
  <2> QED
    BY <2>1, <2>2, <2>3 DEF BeginCommit, TryBegin, CallFails
<1>3. UNCHANGED <<imports, stored, fileSession>>
  BY DEF BeginCommit, TryBegin, AwaitOther, ReleaseLock, CommitDies, CallFails
<1> QED
  BY <1>2, <1>3, OffTheRows, NoRowWritten

(* The rows are inspected: class rooms are written from the first, students    *)
(* that are there left out. *)
LEMMA InspectRowsKeeps ==
  ASSUME RowsInv, ImportTypeOK', NEW c \in Committers, InspectRows(c)
  PROVE  RowsInv'
<1>1. committer[c] \in Committer /\ UNCHANGED <<imports, stored, fileSession>>
  BY DEF InspectRows, RowsInv, ImportTypeOK
<1>2. ASSUME NEW pc \in {"users", "write"}, NEW todo \in SUBSET FileRows,
             Inspect(c, pc, todo),
             pc = "users" => imports = "teachers",
             FileRows \ stored \subseteq todo,
             imports = "classrooms" => todo = FileRows
      PROVE  RowsInv'
  <2> DEFINE v == [committer[c] EXCEPT !.pc = pc, !.todo = todo]
             w == [committer[c] EXCEPT !.pc = "release"]
  <2>1. v \in Committer /\ v.pc = pc /\ v.todo = todo /\ w \in Committer /\ w.pc = "release"
    BY <1>1 DEF Committer
  <2>2. committer' = [committer EXCEPT ![c] = v] \/ committer' = [committer EXCEPT ![c] = w]
    BY <1>2 DEF Inspect
  <2> HIDE DEF v, w
  <2>3. RestOfFile(v) /\ ChunkRows(v) /\ (imports = "classrooms" => Written(v) = {})
    BY <1>2, <2>1 DEF RestOfFile, ChunkRows, Written
  <2>4. RestOfFile(w) /\ ChunkRows(w) /\ Written(w) = {}
    BY <2>1, OffTheRows
  <2>5. CASE committer' = [committer EXCEPT ![c] = v]
    BY <1>1, <2>1, <2>3, <2>5, NoRowWritten
  <2>6. CASE committer' = [committer EXCEPT ![c] = w]
    BY <1>1, <2>1, <2>4, <2>6, NoRowWritten
  <2> QED
    BY <2>2, <2>5, <2>6
<1>3. stored \subseteq FileRows
  BY DEF RowsInv, ImportTypeOK
<1>4. CASE InspectStudents(c)
  BY <1>2, <1>4 DEF InspectStudents, ExistingStudents
<1>5. CASE InspectClassRooms(c)
  BY <1>2, <1>5 DEF InspectClassRooms
<1>6. CASE InspectTeachers(c)
  BY <1>2, <1>6 DEF InspectTeachers
<1> QED
  BY <1>4, <1>5, <1>6 DEF InspectRows

LEMMA InsertUsersKeeps ==
  ASSUME RowsInv, ImportTypeOK', NEW c \in Committers, InsertUsers(c)
  PROVE  RowsInv'
<1> DEFINE v == [committer[c] EXCEPT !.pc = "write"]
<1>1. v \in Committer /\ v.pc = "write" /\ v.todo = committer[c].todo
  BY DEF RowsInv, ImportTypeOK, Committer
<1>2. committer[c].pc = "users" /\ imports = "teachers"
  BY DEF InsertUsers, RowsInv, RestOfFile
<1>3. committer' = [committer EXCEPT ![c] = v] /\ UNCHANGED <<imports, stored, fileSession>>
  BY DEF InsertUsers, Step
<1> HIDE DEF v
<1>4. RestOfFile(v) /\ ChunkRows(v)
  BY <1>1, <1>2 DEF RowsInv, RestOfFile, ChunkRows
<1> QED
  BY <1>1, <1>2, <1>3, <1>4, NoRowWritten

(* A request that gives up writing: students are left alone, class rooms will  *)
(* be taken back. *)
LEMMA GivesUp ==
  ASSUME RowsInv, ImportTypeOK', NEW c \in Committers, committer[c].pc = "write",
         NEW pc \in {"release", "undo"}, Step(c, pc),
         UNCHANGED <<imports, fileSession>>, stored \subseteq stored'
  PROVE  RowsInv'
<1> DEFINE v == [committer[c] EXCEPT !.pc = pc]
<1>1. v \in Committer /\ v.pc = pc /\ v.todo = committer[c].todo
  BY DEF RowsInv, ImportTypeOK, Committer
<1>2. committer' = [committer EXCEPT ![c] = v]
  BY DEF Step
<1> HIDE DEF v
<1>3. Written(v) \subseteq Written(committer[c])
  BY <1>1 DEF Written
<1>4. RestOfFile(v) /\ ChunkRows(v)
  BY <1>1, <1>3 DEF RowsInv, RestOfFile, ChunkRows, Written
<1> QED
  BY <1>1, <1>2, <1>3, <1>4, NoRowWritten

(* What is left is written and nothing is missing any more. *)
LEMMA BatchWritten ==
  ASSUME RowsInv, ImportTypeOK', NEW c \in Committers, committer[c].pc = "write",
         imports # "classrooms", stored' = stored \cup committer[c].todo, Step(c, "save"),
         UNCHANGED <<imports, fileSession>>
  PROVE  RowsInv'
<1> DEFINE v == [committer[c] EXCEPT !.pc = "save"]
<1>1. v \in Committer /\ v.pc = "save" /\ v.todo = committer[c].todo
  BY DEF RowsInv, ImportTypeOK, Committer
<1>2. committer' = [committer EXCEPT ![c] = v]
  BY DEF Step
<1> HIDE DEF v
<1>3. committer'[c] = v /\ \A d \in Committers \ {c} : committer'[d] = committer[d]
  BY <1>1, <1>2, OneCommitter DEF RowsInv
<1>4. stored' = FileRows
  BY DEF RowsInv, RestOfFile, ImportTypeOK, FileRows
<1>5. \A d \in Committers : RestOfFile(committer[d])'
  BY <1>1, <1>3, <1>4 DEF RowsInv, RestOfFile, FileRows
<1>6. Apart' /\ CommittedMeansImported' /\ \A d \in Committers : ChunkRows(committer[d])'
  BY <1>4 DEF Apart, CommittedMeansImported, ChunkRows, FileRows
<1> QED
  BY <1>5, <1>6 DEF RowsInv

(* One chunk of class rooms. *)
LEMMA ChunkWritten ==
  ASSUME RowsInv, ImportTypeOK', NEW c \in Committers, committer[c].pc = "write",
         imports = "classrooms", NEW row \in committer[c].todo, row \notin stored,
         stored' = stored \cup {row},
         committer' = [committer EXCEPT ![c].todo = @ \ {row}],
         UNCHANGED <<imports, fileSession>>
  PROVE  RowsInv'
<1> DEFINE v == [committer[c] EXCEPT !.todo = @ \ {row}]
<1>1. /\ v \in Committer /\ v.pc = "write" /\ v.todo = committer[c].todo \ {row}
      /\ row \in FileRows
  BY DEF RowsInv, ImportTypeOK, Committer
<1>2. committer' = [committer EXCEPT ![c] = v]
  OBVIOUS
<1> HIDE DEF v
<1>3. committer'[c] = v /\ \A d \in Committers \ {c} : committer'[d] = committer[d]
  BY <1>1, <1>2, OneCommitter DEF RowsInv
<1>4. Written(v) \subseteq Written(committer[c]) \cup {row}
  BY <1>1 DEF Written
<1>5. \A d \in Committers : Written(committer[d]) \subseteq stored
  BY DEF RowsInv, ChunkRows
<1>6. fileSession # "committed"
  BY <1>1 DEF RowsInv, CommittedMeansImported
<1>7. \A d \in Committers : RestOfFile(committer[d])'
  <2>1. \A d \in Committers : committer[d].pc # "save"
    BY <1>1 DEF RowsInv, RestOfFile
  <2> QED
    BY <1>1, <1>3, <2>1 DEF RowsInv, RestOfFile, FileRows
<1>8. \A d \in Committers : ChunkRows(committer[d])'
  BY <1>1, <1>3, <1>4, <1>5, <1>6 DEF RowsInv, ChunkRows, Written, FileRows
<1>9. Apart'
  <2>1. \A d \in Committers \ {c} :
          Written(committer[d]) \cap (Written(committer[c]) \cup {row}) = {}
    BY <1>5 DEF RowsInv, Apart
  <2>2. \A d, e \in Committers : d # e => Written(committer'[d]) \cap Written(committer'[e]) = {}
    BY <1>3, <1>4, <2>1 DEF RowsInv, Apart
  <2> QED
    BY <2>2 DEF Apart, Written, FileRows
<1>10. CommittedMeansImported'
  BY <1>6 DEF CommittedMeansImported
<1> QED
  BY <1>7, <1>8, <1>9, <1>10 DEF RowsInv

LEMMA ChunksDone ==
  ASSUME RowsInv, ImportTypeOK', NEW c \in Committers, committer[c].pc = "write",
         imports = "classrooms", committer[c].todo = {}, Step(c, "save"),
         UNCHANGED <<imports, stored, fileSession>>
  PROVE  RowsInv'
<1> DEFINE v == [committer[c] EXCEPT !.pc = "save"]
<1>1. v \in Committer /\ v.pc = "save" /\ v.todo = {}
  BY DEF RowsInv, ImportTypeOK, Committer
<1>2. committer' = [committer EXCEPT ![c] = v]
  BY DEF Step
<1> HIDE DEF v
<1>3. Written(v) = FileRows /\ Written(committer[c]) = FileRows
  BY <1>1 DEF Written
<1>4. stored = FileRows
  BY <1>3 DEF RowsInv, ChunkRows, ImportTypeOK
<1>5. RestOfFile(v) /\ ChunkRows(v)
  BY <1>1, <1>3, <1>4 DEF RestOfFile, ChunkRows
<1> QED
  BY <1>1, <1>2, <1>3, <1>5, NoRowWritten

LEMMA WriteRowsKeeps ==
  ASSUME RowsInv, ImportTypeOK', NEW c \in Committers, WriteRows(c)
  PROVE  RowsInv'
<1>1. committer[c].pc = "write" /\ UNCHANGED <<imports, fileSession>>
  BY DEF WriteRows
<1>2. ASSUME NEW fits, NEW failed \in {"release", "undo"}, OneBatch(c, fits, failed),
             imports # "classrooms"
      PROVE  RowsInv'
  BY <1>1, <1>2, BatchWritten, GivesUp DEF OneBatch
<1>3. CASE WriteClassRooms(c)
  <2>1. imports = "classrooms"
    BY <1>3 DEF WriteClassRooms
  <2>2. CASE committer[c].todo = {}
    BY <1>1, <1>3, <2>1, <2>2, ChunksDone DEF WriteClassRooms
  <2>3. CASE committer[c].todo # {}
    <3>1. PICK row \in committer[c].todo :
            IF row \in stored THEN UNCHANGED stored /\ Step(c, "undo")
            ELSE /\ stored' = stored \cup {row}
                 /\ committer' = [committer EXCEPT ![c].todo = @ \ {row}]
      BY <1>3, <2>3 DEF WriteClassRooms
    <3>2. CASE row \in stored
      BY <1>1, <3>1, <3>2, GivesUp
    <3>3. CASE row \notin stored
      BY <1>1, <2>1, <3>1, <3>3, ChunkWritten
    <3> QED
      BY <3>2, <3>3
  <2> QED
    BY <2>2, <2>3
<1> QED
  BY <1>2, <1>3 DEF WriteRows, WriteStudents, WriteTeachers

(* Only rows the request wrote itself are taken back, and never after the      *)
(* session says committed. *)
LEMMA TakenBack ==
  ASSUME RowsInv, ImportTypeOK', NEW c \in Committers, committer[c].pc = "undo", Step(c, "release"),
         UNCHANGED <<imports, fileSession>>,
         \/ UNCHANGED stored
         \/ imports = "classrooms" /\ \E gone \in SUBSET OwnChunks(c) : stored' = stored \ gone
  PROVE  RowsInv'
<1> DEFINE v == [committer[c] EXCEPT !.pc = "release"]
<1>1. v \in Committer /\ v.pc = "release"
  BY DEF RowsInv, ImportTypeOK, Committer
<1>2. /\ committer' = [committer EXCEPT ![c] = v] /\ UNCHANGED <<imports, fileSession>>
      /\ committer[c].pc = "undo"
  BY DEF Step
<1> HIDE DEF v
<1>3. RestOfFile(v) /\ ChunkRows(v) /\ Written(v) = {}
  BY <1>1, OffTheRows
<1>4. CASE UNCHANGED stored
  BY <1>1, <1>2, <1>3, <1>4, NoRowWritten
<1>5. ASSUME imports = "classrooms", NEW gone \in SUBSET OwnChunks(c), stored' = stored \ gone
      PROVE  RowsInv'
  <2>1. gone \subseteq Written(committer[c])
    BY <1>2 DEF OwnChunks, Written
  <2>2. committer'[c] = v /\ \A d \in Committers \ {c} : committer'[d] = committer[d]
    BY <1>1, <1>2, OneCommitter DEF RowsInv
  <2>3. \A d \in Committers \ {c} :
          /\ Written(committer[d]) \subseteq stored'
          /\ committer[d].pc = "save" => stored' = FileRows
    <3> TAKE d \in Committers \ {c}
    <3>1. Written(committer[d]) \cap Written(committer[c]) = {}
      BY <1>5, <2>1 DEF RowsInv, Apart
    <3>2. Written(committer[d]) \subseteq stored
      BY <1>5, <2>1 DEF RowsInv, ChunkRows
    <3>3. committer[d].pc = "save" => Written(committer[d]) = FileRows
      BY <1>5, <2>1 DEF RowsInv, ChunkRows, Written
    <3> QED
      BY <1>5, <2>1, <3>1, <3>2, <3>3 DEF RowsInv, ImportTypeOK
  <2>4. \A d \in Committers : RestOfFile(committer[d])'
    BY <1>1, <1>2, <1>5, <2>1, <2>2, <2>3 DEF RowsInv, RestOfFile, FileRows
  <2>5. \A d \in Committers : ChunkRows(committer[d])'
    BY <1>1, <1>2, <1>5, <2>1, <2>2, <2>3 DEF RowsInv, ChunkRows, Written, FileRows
  <2>6. Apart'
    <3>1. \A d, e \in Committers : d # e => Written(committer'[d]) \cap Written(committer'[e]) = {}
      BY <1>3, <1>5, <2>1, <2>2 DEF RowsInv, Apart
    <3> QED
      BY <3>1 DEF Apart, Written, FileRows
  <2>7. CommittedMeansImported'
    <3>1. fileSession = "committed" => Written(committer[c]) = {}
      BY <1>2, <1>5, <2>1 DEF RowsInv, ChunkRows
    <3> QED
      BY <1>2, <1>5, <2>1, <3>1 DEF RowsInv, CommittedMeansImported, FileRows
  <2> QED
    BY <2>4, <2>5, <2>6, <2>7 DEF RowsInv
<1> QED
  BY <1>4, <1>5

LEMMA UndoRowsKeeps ==
  ASSUME RowsInv, ImportTypeOK', NEW c \in Committers, UndoRows(c) \/ UndoFails(c)
  PROVE  RowsInv'
<1>1. committer[c].pc = "undo" /\ Step(c, "release") /\ UNCHANGED <<imports, fileSession>>
  BY DEF UndoRows, UndoFails
<1>2. \/ UNCHANGED stored
      \/ imports = "classrooms" /\ \E gone \in SUBSET OwnChunks(c) : stored' = stored \ gone
  BY DEF UndoRows, UndoFails, UndoTeachers, UndoClassRooms
<1> QED
  BY <1>1, <1>2, TakenBack

LEMMA BatchFailsKeeps ==
  ASSUME RowsInv, ImportTypeOK', NEW c \in Committers, BatchFails(c)
  PROVE  RowsInv'
<1> DEFINE pc == IF imports = "students" THEN "release" ELSE "undo"
<1>1. committer[c].pc = "write" /\ UNCHANGED <<imports, fileSession>> /\ stored \subseteq stored'
  BY DEF BatchFails
<1>2. pc \in {"release", "undo"} /\ Step(c, pc)
  BY DEF BatchFails
<1> HIDE DEF pc
<1> QED
  BY <1>1, <1>2, GivesUp

LEMMA SaveSessionKeeps ==
  ASSUME RowsInv, ImportTypeOK', NEW c \in Committers, SaveSession(c)
  PROVE  RowsInv'
<1> DEFINE v == [committer[c] EXCEPT !.pc = "release"]
<1>1. v \in Committer /\ v.pc = "release"
  BY DEF RowsInv, ImportTypeOK, Committer
<1>2. /\ committer' = [committer EXCEPT ![c] = v] /\ UNCHANGED <<imports, stored>>
      /\ committer[c].pc = "save" /\ fileSession' = "committed"
  BY DEF SaveSession, Step
<1> HIDE DEF v
<1>3. committer'[c] = v /\ \A d \in Committers \ {c} : committer'[d] = committer[d]
  BY <1>1, <1>2, OneCommitter DEF RowsInv
<1>4. stored = FileRows
  BY <1>2 DEF RowsInv, RestOfFile
<1>5. imports = "classrooms" =>
        \A d \in Committers \ {c} : Written(committer[d]) = {}
  <2>1. imports = "classrooms" => Written(committer[c]) = FileRows
    BY <1>2 DEF RowsInv, ChunkRows, Written
  <2> QED
    BY <1>4, <2>1 DEF RowsInv, Apart, ChunkRows
<1>6. \A d \in Committers : RestOfFile(committer[d])'
  BY <1>1, <1>2, <1>3 DEF RowsInv, RestOfFile, FileRows
<1>7. \A d \in Committers : ChunkRows(committer[d])'
  BY <1>1, <1>2, <1>3, <1>5 DEF RowsInv, ChunkRows, Written, FileRows
<1>8. Apart'
  <2>1. Written(v) = {}
    BY <1>1, OffTheRows
  <2>2. imports = "classrooms" =>
          \A d, e \in Committers : d # e => Written(committer'[d]) \cap Written(committer'[e]) = {}
    BY <1>3, <2>1 DEF RowsInv, Apart
  <2> QED
    BY <1>2, <2>2 DEF Apart, Written, FileRows
<1>9. CommittedMeansImported'
  BY <1>2, <1>4 DEF CommittedMeansImported, FileRows
<1> QED
  BY <1>6, <1>7, <1>8, <1>9 DEF RowsInv

(* What others do to the session and the rows. *)
LEMMA OthersKeep ==
  ASSUME RowsInv, ImportTypeOK', UNCHANGED <<imports, committer>>,
         stored \subseteq stored', fileSession' = "committed" => fileSession = "committed"
  PROVE  RowsInv'
<1>1. stored' \subseteq FileRows /\ stored \subseteq FileRows
  BY DEF ImportTypeOK, RowsInv, FileRows
<1>2. \A d \in Committers : RestOfFile(committer[d])'
  BY <1>1 DEF RowsInv, RestOfFile, FileRows
<1>3. \A d \in Committers : ChunkRows(committer[d])'
  BY <1>1 DEF RowsInv, ChunkRows, Written, FileRows
<1>4. Apart' /\ CommittedMeansImported'
  BY <1>1 DEF RowsInv, Apart, Written, CommittedMeansImported, FileRows
<1> QED
  BY <1>2, <1>3, <1>4 DEF RowsInv

LEMMA RowsStep == RowsInv /\ [ImportNext]_importVars => RowsInv'
<1> SUFFICES ASSUME RowsInv, [ImportNext]_importVars
             PROVE  RowsInv'
  OBVIOUS
<1>1. ImportTypeOK'
  BY ImportTypeStep DEF RowsInv
<1>2. CASE CreateImport \/ SessionGone \/ Tick
  BY <1>1, <1>2, OthersKeep DEF CreateImport, SessionGone, Tick
<1>3. ASSUME NEW row \in FileRows, EnterRow(row) \/ TakeNumber(row)
      PROVE  RowsInv'
  BY <1>1, <1>3, OthersKeep DEF EnterRow, TakeNumber
<1>4. CASE UNCHANGED importVars
  BY <1>1, <1>4, OthersKeep DEF importVars
<1> QED
  BY <1>1, <1>2, <1>3, <1>4, NoRowStep, InspectRowsKeeps, InsertUsersKeeps, WriteRowsKeeps,
     UndoRowsKeeps, BatchFailsKeeps, SaveSessionKeeps DEF ImportNext

(* A session that says committed has its rows in D1, whatever requests         *)
(* overlapped on it after their lock timed out and whatever a failed chunk     *)
(* took back (commitByType and the compensation of createMany).                *)
THEOREM ImportCommittedIsStored == ImportSpec => []CommittedMeansImported
<1>1. RowsInv => CommittedMeansImported
  BY DEF RowsInv
<1> QED
  BY <1>1, RowsInitially, RowsStep, PTL DEF ImportSpec
==============================================================================
