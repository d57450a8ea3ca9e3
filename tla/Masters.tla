------------------------------- MODULE Masters -------------------------------
(***************************************************************************)
(* The master data: teachers, class rooms and students.  An editor reads a  *)
(* row with its lock_version and later saves it with a PUT that may carry    *)
(* that version; imports, sign-ins, suspensions, deletions of accounts and   *)
(* PUTs without a version write the same rows meanwhile.  Every write is     *)
(* one D1 batch, which is atomic.                                           *)
(***************************************************************************)
EXTENDS Naturals

CONSTANTS
  TeacherIds,  \* teachers, each with its users row
  RoomIds,     \* class_rooms
  StudentIds,  \* students, each with its users row
  Names,       \* what an edit writes besides the assignment: names, codes, e-mail
  FirstRows,   \* the rows that are there at the start
  Editors,     \* admins with an editing screen open
  Gone,        \* NULL: no teacher, no room, no version
  MaxWrites    \* bound: writes

ASSUME MastersConstants ==
  /\ Gone \notin TeacherIds \cup RoomIds \cup StudentIds
  /\ TeacherIds \cap RoomIds = {} /\ TeacherIds \cap StudentIds = {}
  /\ RoomIds \cap StudentIds = {}
  /\ MaxWrites \in Nat

VARIABLES
  teacher,  \* teachers JOIN users: there, name, is_live_active, lock_version
  room,     \* class_rooms: there, name, teacher_id, lock_version
  pupil,    \* students JOIN users: there, name, class_room_id, lock_version
  editor,   \* what each editor has read
  writes    \* how many writes were made

mastersVars == <<teacher, room, pupil, editor, writes>>

Teacher == [there : BOOLEAN, name : Names, live : BOOLEAN, version : Nat]
Room == [there : BOOLEAN, name : Names, teacher : TeacherIds \cup {Gone}, version : Nat]
Pupil == [there : BOOLEAN, name : Names, room : RoomIds \cup {Gone}, version : Nat]
Editor ==
  [pc : {"idle", "row", "read", "saved"}, id : TeacherIds \cup RoomIds \cup StudentIds \cup {Gone},
   version : Nat, name : Names, rooms : SUBSET RoomIds, ref : TeacherIds \cup RoomIds \cup {Gone}]

RoomsThere == {r \in RoomIds : room[r].there}
RoomsOf(t) == {r \in RoomIds : room[r].there /\ room[r].teacher = t}
OwnersOf(rooms) == {room[r].teacher : r \in rooms \cap RoomsThere} \ {Gone}
PupilsOf(r) == {p \in StudentIds : pupil[p].room = r}
Suspended(t) == t \in TeacherIds /\ ~teacher[t].live

(* A suspended teacher is not shown as the teacher of a room. *)
ShownTeacher(r) == IF Suspended(room[r].teacher) THEN Gone ELSE room[r].teacher

Write == writes < MaxWrites /\ writes' = writes + 1

(* lock_version = lock_version + 1 of teachers and of rooms *)
Bumped(rows, ids) ==
  [i \in DOMAIN rows |->
     IF i \in ids THEN [rows[i] EXCEPT !.version = @ + 1] ELSE rows[i]]

(* The rooms, each with its teacher, version counted on. *)
Assigned(rooms, t) ==
  [r \in RoomIds |->
     IF r \in rooms THEN [room[r] EXCEPT !.teacher = t, !.version = @ + 1] ELSE room[r]]

-----------------------------------------------------------------------------
(* What is read for an editing screen *)

Reads(e, fields) == editor' = [editor EXCEPT ![e] = fields]
Keep == UNCHANGED <<teacher, room, pupil, writes>>

(* TeacherRepository.findById: the row, and then the rooms. *)
ReadTeacherRow(e, t) ==
  /\ teacher[t].there
  /\ Reads(e, [pc |-> "row", id |-> t, version |-> teacher[t].version,
               name |-> teacher[t].name, rooms |-> {}, ref |-> Gone])
  /\ Keep

(* loadClassRoomsByTeacherIds *)
ReadTeacherRooms(e) ==
  /\ editor[e].pc = "row"
  /\ Reads(e, [editor[e] EXCEPT !.pc = "read", !.rooms = RoomsOf(editor[e].id)])
  /\ Keep

(* ClassRoomRepository.findOne *)
ReadRoom(e, r) ==
  /\ room[r].there
  /\ Reads(e, [pc |-> "read", id |-> r, version |-> room[r].version, name |-> room[r].name,
               rooms |-> {}, ref |-> ShownTeacher(r)])
  /\ Keep

(* StudentRepository.findById *)
ReadStudent(e, p) ==
  /\ pupil[p].there
  /\ Reads(e, [pc |-> "read", id |-> p, version |-> pupil[p].version, name |-> pupil[p].name,
               rooms |-> {}, ref |-> pupil[p].room])
  /\ Keep

-----------------------------------------------------------------------------
(* Teachers *)

NeverTeacher(t) == ~teacher[t].there /\ teacher[t].version = 0
NewTeacher(t, name) ==
  [teacher EXCEPT ![t] = [there |-> TRUE, name |-> name, live |-> TRUE, version |-> 0]]

ClassRoomsExist(rooms) == rooms \subseteq RoomsThere

(* TeacherRepository.create: every room named is still there, or nothing happens. *)
InsertTeacher(t, name, rooms) ==
  /\ teacher' = Bumped(NewTeacher(t, name), OwnersOf(rooms))
  /\ room' = Assigned(rooms, t)

CreateTeacher(t, name, rooms) ==
  /\ Write
  /\ NeverTeacher(t) /\ ClassRoomsExist(rooms)
  /\ InsertTeacher(t, name, rooms)
  /\ UNCHANGED <<pupil, editor>>

(* createMany, of commitTeacherImport: without rooms. *)
ImportTeachers(ts, name) ==
  /\ Write
  /\ \A t \in ts : NeverTeacher(t)
  /\ teacher' = [t \in TeacherIds |-> IF t \in ts THEN NewTeacher(t, name)[t] ELSE teacher[t]]
  /\ UNCHANGED <<room, pupil, editor>>

(* Mutant: a teacher that loses a room to another keeps its version. *)
OnlyOwnVersion(t, rooms) == Bumped(teacher, {t})
(* The teachers the rooms are taken from count on, and the row itself. *)
TeachersBumped(t, rooms) == Bumped(teacher, {t} \cup OwnersOf(rooms))

(* The old rooms are given up, the new ones that are still there taken. *)
RoomsReassigned(t, rooms) ==
  [r \in RoomIds |->
     IF r \in rooms \cap RoomsThere THEN Assigned({r}, t)[r]
     ELSE IF r \in RoomsOf(t) THEN Assigned({r}, Gone)[r] ELSE room[r]]

(* TeacherRepository.update, one batch. *)
WriteTeacher(t, name, rooms) ==
  /\ teacher' = [TeachersBumped(t, rooms) EXCEPT ![t].name = name]
  /\ room' = RoomsReassigned(t, rooms)

PutTeacher(t, name, rooms) ==
  /\ Write
  /\ teacher[t].there
  /\ WriteTeacher(t, name, rooms)
  /\ UNCHANGED <<pupil, editor>>

(* With a version: the batch writes nothing unless it is still the row's. *)
TeacherUnchanged(e) ==
  LET t == editor[e].id IN teacher[t].there /\ teacher[t].version = editor[e].version

SaveTeacher(e, name, rooms) ==
  LET t == editor[e].id IN
  /\ editor[e].pc = "read" /\ t \in TeacherIds
  /\ Write
  /\ TeacherUnchanged(e)
  /\ WriteTeacher(t, name, rooms)
  /\ editor' = [editor EXCEPT ![e].pc = "saved"]
  /\ UNCHANGED pupil

(* deleteByUserId, of a purged account.  Ids are not used again, and a row     *)
(* that was there once has counted on. *)
DeleteTeacherRow(t) ==
  /\ Write
  /\ teacher[t].there
  /\ teacher' = [teacher EXCEPT ![t].there = FALSE, ![t].version = @ + 1]
  /\ room' = Assigned(RoomsOf(t), Gone)
  /\ UNCHANGED <<pupil, editor>>

BumpRoomsOf(t) == room' = Bumped(room, RoomsOf(t))

(* updateLiveActive; Accounts says when it is allowed. *)
SetTeacherLive(t, live) ==
  /\ Write
  /\ teacher[t].there /\ teacher[t].live # live
  /\ BumpRoomsOf(t)
  /\ teacher' = [teacher EXCEPT ![t].live = live]
  /\ UNCHANGED <<pupil, editor>>

(* bumpPersonVersions, of a sign-in (updateUser) or a purge (anonymizeUser):  *)
(* users.user_name changes. *)
RenameTeacher(t, name) ==
  /\ Write
  /\ teacher[t].there /\ teacher[t].name # name
  /\ teacher' = [teacher EXCEPT ![t].name = name, ![t].version = @ + 1]
  /\ UNCHANGED <<room, pupil, editor>>

RenameStudent(p, name) ==
  /\ Write
  /\ pupil[p].there /\ pupil[p].name # name
  /\ pupil' = [pupil EXCEPT ![p].name = name, ![p].version = @ + 1]
  /\ UNCHANGED <<teacher, room, editor>>

-----------------------------------------------------------------------------
(* Class rooms *)

TeacherThere(t) == t \in {Gone} \cup {x \in TeacherIds : teacher[x].there}
NewRoom(name, t) == [there |-> TRUE, name |-> name, teacher |-> t, version |-> 0]
NeverRoom(r) == ~room[r].there /\ room[r].version = 0

(* bumpTeachersStatement *)
BumpTeachers(ts) == teacher' = Bumped(teacher, ts)

(* ClassRoomRepository.create; its team is in Teams. *)
InsertRoom(r, name, t) ==
  /\ room' = [room EXCEPT ![r] = NewRoom(name, t)]
  /\ BumpTeachers({t} \ {Gone})

CreateRoom(r, name, t) ==
  /\ Write
  /\ NeverRoom(r) /\ TeacherThere(t)
  /\ InsertRoom(r, name, t)
  /\ UNCHANGED <<pupil, editor>>

(* createMany: a chunk is a batch, committed chunks are deleted if a later     *)
(* one fails (DeleteRoom). *)
ImportRooms(rs, name) ==
  /\ Write
  /\ \A r \in rs : NeverRoom(r)
  /\ room' = [r \in RoomIds |-> IF r \in rs THEN NewRoom(name, Gone) ELSE room[r]]
  /\ UNCHANGED <<teacher, pupil, editor>>

(* effectiveTeacherId: no teacher leaves a suspended one where it is. *)
EffectiveTeacher(r, t) ==
  IF t = Gone /\ Suspended(room[r].teacher) THEN room[r].teacher ELSE t

(* buildUpdateStatements: a change counts on the old and the new teacher. *)
WriteRoom(r, name, t) ==
  LET next == EffectiveTeacher(r, t) IN
  /\ BumpTeachers(IF next # room[r].teacher THEN {room[r].teacher, t} \ {Gone} ELSE {})
  /\ room' = [room EXCEPT ![r].name = name, ![r].teacher = next, ![r].version = @ + 1]

PutRoom(r, name, t) ==
  /\ Write
  /\ room[r].there /\ TeacherThere(t)
  /\ WriteRoom(r, name, t)
  /\ UNCHANGED <<pupil, editor>>

RoomUnchanged(e) ==
  LET r == editor[e].id IN room[r].there /\ room[r].version = editor[e].version

SaveRoom(e, name, t) ==
  LET r == editor[e].id IN
  /\ editor[e].pc = "read" /\ r \in RoomIds
  /\ Write
  /\ RoomUnchanged(e) /\ TeacherThere(t)
  /\ WriteRoom(r, name, t)
  /\ editor' = [editor EXCEPT ![e].pc = "saved"]
  /\ UNCHANGED pupil

(* deleteAndCleanupTeam.  The teacher's version stays. *)
RemoveRoomRow(r) ==
  room' = [room EXCEPT ![r].there = FALSE, ![r].teacher = Gone, ![r].version = @ + 1]

(* A room with students is refused, by hasStudents or by the foreign key. *)
DeleteRoom(r) ==
  /\ Write
  /\ room[r].there /\ PupilsOf(r) = {}
  /\ RemoveRoomRow(r)
  /\ UNCHANGED <<teacher, pupil, editor>>

(* TeamRepository.delete: the rooms of the team count on (Teams moves them). *)
RegroupRooms(rooms) ==
  /\ Write
  /\ rooms \subseteq RoomsThere
  /\ room' = Bumped(room, rooms)
  /\ UNCHANGED <<teacher, pupil, editor>>

-----------------------------------------------------------------------------
(* Students *)

RoomThere(r) == r \in {Gone} \cup RoomsThere
NewPupil(name, r) == [there |-> TRUE, name |-> name, room |-> r, version |-> 0]
NeverPupil(p) == ~pupil[p].there /\ pupil[p].version = 0

InsertStudent(p, name, r) == pupil' = [pupil EXCEPT ![p] = NewPupil(name, r)]

CreateStudent(p, name, r) ==
  /\ Write
  /\ NeverPupil(p) /\ RoomThere(r)
  /\ InsertStudent(p, name, r)
  /\ UNCHANGED <<teacher, room, editor>>

(* createMany, of commitStudentImport: the rooms that are missing come with   *)
(* the students, in one batch. *)
ImportStudents(ps, name, r) ==
  /\ Write
  /\ \A p \in ps : NeverPupil(p)
  /\ room[r].there \/ NeverRoom(r)
  /\ room' = IF room[r].there THEN room ELSE [room EXCEPT ![r] = NewRoom(name, Gone)]
  /\ pupil' = [p \in StudentIds |-> IF p \in ps THEN NewPupil(name, r) ELSE pupil[p]]
  /\ UNCHANGED <<teacher, editor>>

WriteStudent(p, name, r) ==
  pupil' = [pupil EXCEPT ![p].name = name, ![p].room = r, ![p].version = @ + 1]

PutStudent(p, name, r) ==
  /\ Write
  /\ pupil[p].there /\ RoomThere(r)
  /\ WriteStudent(p, name, r)
  /\ UNCHANGED <<teacher, room, editor>>

StudentUnchanged(e) ==
  LET p == editor[e].id IN pupil[p].there /\ pupil[p].version = editor[e].version

SaveStudent(e, name, r) ==
  LET p == editor[e].id IN
  /\ editor[e].pc = "read" /\ p \in StudentIds
  /\ Write
  /\ StudentUnchanged(e) /\ RoomThere(r)
  /\ WriteStudent(p, name, r)
  /\ editor' = [editor EXCEPT ![e].pc = "saved"]
  /\ UNCHANGED <<teacher, room>>

(* updateClassRoom, of a PATCH: lock_version is left alone. *)
MoveStudent(p, r) == pupil' = [pupil EXCEPT ![p].room = r]

PatchStudent(p, r) ==
  /\ Write
  /\ pupil[p].there /\ RoomThere(r)
  /\ MoveStudent(p, r)
  /\ UNCHANGED <<teacher, room, editor>>

(* anonymizeByUserId *)
AnonymizeStudentRow(p) ==
  /\ Write
  /\ pupil[p].there
  /\ pupil' = [pupil EXCEPT ![p].room = Gone, ![p].version = @ + 1]
  /\ UNCHANGED <<teacher, room, editor>>

-----------------------------------------------------------------------------
MastersInit ==
  \E name \in Names, first \in {Gone} \cup (FirstRows \cap TeacherIds) :
    /\ teacher = [t \in TeacherIds |->
                    [there |-> t \in FirstRows, name |-> name, live |-> TRUE, version |-> 0]]
    /\ room = [r \in RoomIds |->
                 [there |-> r \in FirstRows, name |-> name,
                  teacher |-> IF r \in FirstRows THEN first ELSE Gone, version |-> 0]]
    /\ pupil = [p \in StudentIds |->
                  [there |-> p \in FirstRows, name |-> name, room |-> Gone, version |-> 0]]
    /\ editor = [e \in Editors |-> [pc |-> "idle", id |-> Gone, version |-> 0,
                                    name |-> name, rooms |-> {}, ref |-> Gone]]
    /\ writes = 0

EditTeachers ==
  \/ \E t \in TeacherIds, name \in Names, rooms \in SUBSET RoomIds :
       CreateTeacher(t, name, rooms) \/ PutTeacher(t, name, rooms)
  \/ \E e \in Editors :
       \/ (\E t \in TeacherIds : ReadTeacherRow(e, t)) \/ ReadTeacherRooms(e)
       \/ \E name \in Names, rooms \in SUBSET RoomIds : SaveTeacher(e, name, rooms)
  \/ \E ts \in SUBSET TeacherIds \ {{}}, name \in Names : ImportTeachers(ts, name)
  \/ \E t \in TeacherIds :
       \/ DeleteTeacherRow(t)
       \/ \E live \in BOOLEAN : SetTeacherLive(t, live)
       \/ \E name \in Names : RenameTeacher(t, name)

EditRooms ==
  \/ \E r \in RoomIds, name \in Names, t \in TeacherIds \cup {Gone} :
       CreateRoom(r, name, t) \/ PutRoom(r, name, t)
  \/ \E e \in Editors :
       \/ \E r \in RoomIds : ReadRoom(e, r)
       \/ \E name \in Names, t \in TeacherIds \cup {Gone} : SaveRoom(e, name, t)
  \/ \E rs \in SUBSET RoomIds \ {{}}, name \in Names : ImportRooms(rs, name)
  \/ \E r \in RoomIds : DeleteRoom(r)
  \/ \E rooms \in SUBSET RoomIds \ {{}} : RegroupRooms(rooms)

EditStudents ==
  \/ \E p \in StudentIds, name \in Names, r \in RoomIds \cup {Gone} :
       CreateStudent(p, name, r) \/ PutStudent(p, name, r)
  \/ \E p \in StudentIds, r \in RoomIds \cup {Gone} : PatchStudent(p, r)
  \/ \E e \in Editors :
       \/ \E p \in StudentIds : ReadStudent(e, p)
       \/ \E name \in Names, r \in RoomIds \cup {Gone} : SaveStudent(e, name, r)
  \/ \E ps \in SUBSET StudentIds \ {{}}, name \in Names, r \in RoomIds : ImportStudents(ps, name, r)
  \/ \E p \in StudentIds :
       AnonymizeStudentRow(p) \/ \E name \in Names : RenameStudent(p, name)

MastersNext == EditTeachers \/ EditRooms \/ EditStudents
MastersSpec == MastersInit /\ [][MastersNext]_mastersVars
==============================================================================
