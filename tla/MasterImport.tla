----------------------------- MODULE MasterImport -----------------------------
(***************************************************************************)
(* Importing master data from a file.  A file is validated into a session    *)
(* kept in KV; a commit writes its rows to D1 and then says so in the        *)
(* session.  Requests that commit the same session are kept apart by a      *)
(* Durable Object whose lock times out, so a slow one may still be at work   *)
(* when the next begins.                                                    *)
(***************************************************************************)
EXTENDS Integers

CONSTANTS
  RowCount,     \* rows of the file
  Committers,   \* admins that commit the session, again and again
  NoToken,      \* no lock
  LockTimeout,  \* LOCK_TIMEOUT_MS, in ticks
  MaxTicks      \* bound: the clock stops here

ASSUME MasterImportConstants ==
  /\ RowCount \in Nat
  /\ NoToken \notin Committers
  /\ LockTimeout \in Nat \ {0} /\ MaxTicks \in Nat

FileRows == 1 .. RowCount

VARIABLES
  imports,     \* what the file holds: students, classrooms or teachers
  fileSession, \* KV master-import:<id>: its status
  stored,      \* the rows of the file that are in D1
  taken,       \* rows of students whose attendance number another one has
  lock,        \* the Durable Object: whose token, and since when
  committer,   \* the requests
  ticks

importVars == <<imports, fileSession, stored, taken, lock, committer, ticks>>

Kinds == {"students", "classrooms", "teachers"}
Committer == [pc : {"idle", "begin", "wait", "inspect", "users", "write", "undo", "save", "release"},
              todo : SUBSET FileRows, since : Nat]
Unlocked == [token |-> NoToken, since |-> 0]

LockFresh(since) == ticks - since < LockTimeout
Idle == [pc |-> "idle", todo |-> {}, since |-> 0]
Step(c, pc) == committer' = [committer EXCEPT ![c].pc = pc]
Answer(c) == committer' = [committer EXCEPT ![c] = Idle]

(* A student that is there is left out of the import; one whose attendance number  *)
(* another has is an error. *)
ExistingStudents == stored
TakenNumbers == taken \ ExistingStudents
(* A class room or a teacher that is there is an error. *)
ExistingClassCodes == stored
ExistingEmails == stored

StudentErrors == TakenNumbers
ClassRoomErrors == ExistingClassCodes
TeacherErrors == ExistingEmails

NoErrors ==
  \/ imports = "students" /\ StudentErrors = {}
  \/ imports = "classrooms" /\ ClassRoomErrors = {}
  \/ imports = "teachers" /\ TeacherErrors = {}

(* A session with errors is never committed. *)
CreateImport ==
  /\ fileSession = "none" /\ NoErrors
  /\ fileSession' = "validated"
  /\ UNCHANGED <<imports, stored, taken, lock, committer, ticks>>

(* An admin enters by hand one of the rows, or a student with the number of one. *)
EnterRow(row) ==
  /\ row \notin taken
  /\ stored' = stored \cup {row}
  /\ UNCHANGED <<imports, fileSession, taken, lock, committer, ticks>>

TakeNumber(row) ==
  /\ imports = "students" /\ row \notin stored
  /\ taken' = taken \cup {row}
  /\ UNCHANGED <<imports, fileSession, stored, lock, committer, ticks>>

(* commitImport: the session is read before the lock is asked for, and what KV    *)
(* answers may be behind what was saved. *)
BeginCommit(c) ==
  /\ committer[c].pc = "idle"
  /\ fileSession \in {"validated", "committed"}
  /\ Step(c, "begin")
  /\ UNCHANGED <<imports, fileSession, stored, taken, lock, ticks>>

TryBegin(c) ==
  /\ committer[c].pc = "begin"
  /\ IF lock.token # NoToken /\ LockFresh(lock.since)
       THEN Step(c, "wait") /\ UNCHANGED lock
       ELSE /\ lock' = [token |-> c, since |-> ticks]
            /\ committer' = [committer EXCEPT ![c].pc = "inspect", ![c].since = ticks]
  /\ UNCHANGED <<imports, fileSession, stored, taken, ticks>>

(* Another is at work: until the session says so, or the attempts are used up. *)
AwaitOther(c) ==
  /\ committer[c].pc = "wait"
  /\ Answer(c)
  /\ UNCHANGED <<imports, fileSession, stored, taken, lock, ticks>>

(* commitByType: the rows are inspected again. *)
Inspect(c, next, todo) ==
  committer' = IF NoErrors THEN [committer EXCEPT ![c].pc = next, ![c].todo = todo]
               ELSE [committer EXCEPT ![c].pc = "release"]

InspectStudents(c) == imports = "students" /\ Inspect(c, "write", FileRows \ ExistingStudents)
InspectClassRooms(c) == imports = "classrooms" /\ Inspect(c, "write", FileRows)
InspectTeachers(c) == imports = "teachers" /\ Inspect(c, "users", FileRows)

InspectRows(c) ==
  /\ committer[c].pc = "inspect"
  /\ InspectStudents(c) \/ InspectClassRooms(c) \/ InspectTeachers(c)
  /\ UNCHANGED <<imports, fileSession, stored, taken, lock, ticks>>

(* The teachers' users are inserted first, in a batch of their own. *)
InsertUsers(c) ==
  /\ committer[c].pc = "users"
  /\ Step(c, "write")
  /\ UNCHANGED <<imports, fileSession, stored, taken, lock, ticks>>

(* Rows in one batch: one that came meanwhile breaks it. *)
OneBatch(c, fits, failed) ==
  IF fits THEN stored' = stored \cup committer[c].todo /\ Step(c, "save")
  ELSE UNCHANGED stored /\ Step(c, failed)

WriteStudents(c) ==
  imports = "students" /\ OneBatch(c, committer[c].todo \cap (stored \cup taken) = {}, "release")

WriteTeachers(c) ==
  imports = "teachers" /\ OneBatch(c, committer[c].todo \cap stored = {}, "undo")

(* Class rooms in several: a chunk that fails takes back the ones before it. *)
WriteClassRooms(c) ==
  /\ imports = "classrooms"
  /\ IF committer[c].todo = {} THEN UNCHANGED stored /\ Step(c, "save")
     ELSE \E row \in committer[c].todo :
            /\ \A other \in committer[c].todo : row <= other
            /\ IF row \in stored THEN UNCHANGED stored /\ Step(c, "undo")
               ELSE /\ stored' = stored \cup {row}
                    /\ committer' = [committer EXCEPT ![c].todo = @ \ {row}]

WriteRows(c) ==
  /\ committer[c].pc = "write"
  /\ WriteStudents(c) \/ WriteClassRooms(c) \/ WriteTeachers(c)
  /\ UNCHANGED <<imports, fileSession, taken, lock, ticks>>

(* Mutant: everything the file names is taken back. *)
AllOfFile(c) == FileRows
OwnChunks(c) == FileRows \ committer[c].todo

UndoClassRooms(c) == imports = "classrooms" /\ stored' = stored \ OwnChunks(c)
(* The users' rows go, which no row of the file was written for. *)
UndoTeachers == imports = "teachers" /\ UNCHANGED stored

UndoRows(c) ==
  /\ committer[c].pc = "undo"
  /\ UndoClassRooms(c) \/ UndoTeachers
  /\ Step(c, "release")
  /\ UNCHANGED <<imports, fileSession, taken, lock, ticks>>

SaveSession(c) ==
  /\ committer[c].pc = "save"
  /\ fileSession' = "committed"
  /\ Step(c, "release")
  /\ UNCHANGED <<imports, stored, taken, lock, ticks>>

(* Mutant: whoever is done unlocks. *)
AnyToken(c) == TRUE
OwnToken(c) == lock.token = c

(* In a finally. *)
ReleaseLock(c) ==
  /\ committer[c].pc = "release"
  /\ lock' = IF OwnToken(c) THEN Unlocked ELSE lock
  /\ Answer(c)
  /\ UNCHANGED <<imports, fileSession, stored, taken, ticks>>

(* A statement throws, and what the catch and the finally do comes next.  A batch  *)
(* may have taken effect all the same, its answer being lost. *)
CallFails(c) ==
  /\ committer[c].pc \in {"inspect", "users", "save"}
  /\ Step(c, "release")
  /\ UNCHANGED <<imports, fileSession, stored, taken, lock, ticks>>

Batch(c) ==
  IF imports # "classrooms" THEN committer[c].todo
  ELSE {row \in committer[c].todo : \A other \in committer[c].todo : row <= other}

BatchFails(c) ==
  /\ committer[c].pc = "write" /\ Batch(c) # {}
  /\ \/ UNCHANGED stored
     \/ Batch(c) \cap (stored \cup taken) = {} /\ stored' = stored \cup Batch(c)
  /\ Step(c, IF imports = "students" THEN "release" ELSE "undo")
  /\ UNCHANGED <<imports, fileSession, taken, lock, ticks>>

(* Part of what was to be taken back stays. *)
UndoFails(c) ==
  /\ committer[c].pc = "undo"
  /\ \/ UNCHANGED stored
     \/ imports = "classrooms" /\ \E gone \in SUBSET OwnChunks(c) : stored' = stored \ gone
  /\ Step(c, "release")
  /\ UNCHANGED <<imports, fileSession, taken, lock, ticks>>

(* The invocation dies, and nothing releases the lock. *)
CommitDies(c) ==
  /\ committer[c].pc # "idle"
  /\ Answer(c)
  /\ UNCHANGED <<imports, fileSession, stored, taken, lock, ticks>>

(* A session lives 30 minutes in KV; only its tombstone is there after that. *)
SessionGone ==
  /\ fileSession \in {"validated", "committed"}
  /\ fileSession' = "gone"
  /\ UNCHANGED <<imports, stored, taken, lock, committer, ticks>>

Tick ==
  /\ ticks < MaxTicks
  /\ ticks' = ticks + 1
  /\ UNCHANGED <<imports, fileSession, stored, taken, lock, committer>>

ImportInit ==
  /\ imports \in Kinds
  /\ fileSession = "none" /\ stored = {} /\ taken = {} /\ lock = Unlocked /\ ticks = 0
  /\ committer = [c \in Committers |-> Idle]

ImportNext ==
  \/ CreateImport \/ SessionGone \/ Tick
  \/ \E row \in FileRows : EnterRow(row) \/ TakeNumber(row)
  \/ \E c \in Committers :
       \/ BeginCommit(c) \/ TryBegin(c) \/ AwaitOther(c) \/ InspectRows(c) \/ InsertUsers(c)
       \/ WriteRows(c) \/ UndoRows(c) \/ SaveSession(c) \/ ReleaseLock(c)
       \/ CallFails(c) \/ BatchFails(c) \/ UndoFails(c) \/ CommitDies(c)

ImportSpec == ImportInit /\ [][ImportNext]_importVars

-----------------------------------------------------------------------------
Working(c) == committer[c].pc \in {"inspect", "users", "write", "undo", "save", "release"}

(* Within its time, whoever began a commit is alone: one that outstayed its    *)
(* time neither keeps nor takes the lock of the next.                        *)
FreshCommitIsExclusive ==
  \A c, d \in Committers :
    c # d /\ Working(c) /\ Working(d) =>
      ~LockFresh(committer[c].since) \/ ~LockFresh(committer[d].since)

(* A session that says committed has its rows in D1, whatever overlapped and    *)
(* whatever was taken back. *)
CommittedMeansImported == fileSession = "committed" => stored = FileRows
==============================================================================
