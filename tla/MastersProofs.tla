----------------------------- MODULE MastersProofs -----------------------------
(***************************************************************************)
(* A lock_version stands for what an editing screen shows, for any number of *)
(* teachers, rooms, students and editors and however long it runs.           *)
(***************************************************************************)
EXTENDS MastersProps, TLAPS

(* A row that is there, or was. *)
Known(row) == row.there \/ row.version > 0
Screen(e) == editor[e].pc \in {"row", "read"}

(* What an editor has read is of a row that was there, and still so unless the  *)
(* row's version counted on. *)
TeacherSeen(e) ==
  LET t == editor[e].id IN
  /\ Known(teacher[t]) /\ editor[e].version <= teacher[t].version
  /\ teacher[t].there /\ teacher[t].version = editor[e].version =>
       /\ teacher[t].name = editor[e].name
       /\ editor[e].pc = "read" => RoomsOf(t) = editor[e].rooms \cap RoomsThere

RoomSeen(e) ==
  LET r == editor[e].id IN
  /\ Known(room[r]) /\ editor[e].version <= room[r].version
  /\ room[r].there /\ room[r].version = editor[e].version => RoomAsRead(e)

StudentSeen(e) ==
  LET p == editor[e].id IN
  /\ Known(pupil[p]) /\ editor[e].version <= pupil[p].version
  /\ pupil[p].there /\ pupil[p].version = editor[e].version => StudentAsRead(e)

RowsSeen ==
  \A e \in Editors : Screen(e) =>
    /\ editor[e].id \in TeacherIds => TeacherSeen(e)
    /\ editor[e].id \in RoomIds => RoomSeen(e)
    /\ editor[e].id \in StudentIds => StudentSeen(e)
    /\ \A r \in editor[e].rooms : Known(room[r])

(* class_rooms.teacher_id names a teacher that is there. *)
TeachersThere ==
  \A r \in RoomIds : room[r].there /\ room[r].teacher # Gone =>
    room[r].teacher \in TeacherIds /\ teacher[room[r].teacher].there

MastersInv == MastersTypeOK /\ RowsSeen /\ TeachersThere

-----------------------------------------------------------------------------
(* What every write does: versions never go back, a row that is gone does not  *)
(* come again, and a row whose version stays shows the same.                  *)

Onward(old, new) ==
  /\ old.version <= new.version
  /\ Known(old) => Known(new)
  /\ Known(old) /\ new.there => old.there
Same(old, new) == Known(old) /\ new.there /\ new.version = old.version

TeachersOnward ==
  \A t \in TeacherIds :
    /\ Onward(teacher[t], teacher'[t])
    /\ Same(teacher[t], teacher'[t]) =>
         teacher'[t].name = teacher[t].name /\ RoomsOf(t)' = RoomsOf(t) \cap RoomsThere'

RoomsOnward ==
  \A r \in RoomIds :
    /\ Onward(room[r], room'[r])
    /\ Same(room[r], room'[r]) =>
         room'[r].name = room[r].name /\ ShownTeacher(r)' = ShownTeacher(r)

StudentsOnward ==
  \A p \in StudentIds :
    /\ Onward(pupil[p], pupil'[p])
    /\ Same(pupil[p], pupil'[p]) => pupil'[p].name = pupil[p].name

TablesTypeOK ==
  /\ teacher \in [TeacherIds -> Teacher]
  /\ room \in [RoomIds -> Room]
  /\ pupil \in [StudentIds -> Pupil]

RowsOnward ==
  TablesTypeOK' /\ TeachersOnward /\ RoomsOnward /\ StudentsOnward /\ TeachersThere'

(* A teacher that keeps its version keeps its rooms, but for those deleted. *)
LEMMA TeachersAdvance ==
  ASSUME \A t \in TeacherIds :
           /\ Onward(teacher[t], teacher'[t])
           /\ Same(teacher[t], teacher'[t]) =>
                /\ teacher'[t].name = teacher[t].name
                /\ \A r \in RoomIds : room'[r].there =>
                     (room'[r].teacher = t <=> (room[r].there /\ room[r].teacher = t))
  PROVE  TeachersOnward
  BY DEF TeachersOnward, RoomsOf, RoomsThere

(* A room that keeps its version keeps its teacher, suspended or not. *)
LEMMA RoomsAdvance ==
  ASSUME \A r \in RoomIds :
           /\ Onward(room[r], room'[r])
           /\ Same(room[r], room'[r]) =>
                /\ room'[r].name = room[r].name /\ room'[r].teacher = room[r].teacher
                /\ room[r].teacher \in TeacherIds =>
                     teacher'[room[r].teacher].live = teacher[room[r].teacher].live
  PROVE  RoomsOnward
  BY DEF RoomsOnward, ShownTeacher, Suspended

-----------------------------------------------------------------------------
(* The rows after a write, field by field *)

LEMMA RowTypes ==
  /\ \A there, live \in BOOLEAN, name \in Names, version \in Nat :
       [there |-> there, name |-> name, live |-> live, version |-> version] \in Teacher
  /\ \A there \in BOOLEAN, name \in Names, version \in Nat, t \in TeacherIds \cup {Gone} :
       [there |-> there, name |-> name, teacher |-> t, version |-> version] \in Room
  /\ \A there \in BOOLEAN, name \in Names, version \in Nat, r \in RoomIds \cup {Gone} :
       [there |-> there, name |-> name, room |-> r, version |-> version] \in Pupil
  BY DEF Teacher, Room, Pupil

LEMMA CountedTeacher ==
  ASSUME NEW row \in Teacher, NEW name \in Names
  PROVE  LET gone == [row EXCEPT !.there = FALSE, !.version = @ + 1]
             renamed == [row EXCEPT !.name = name, !.version = @ + 1]
         IN /\ gone \in Teacher /\ ~gone.there /\ gone.version = row.version + 1
            /\ renamed \in Teacher /\ renamed.there = row.there /\ renamed.live = row.live
            /\ renamed.version = row.version + 1
<1> DEFINE version == row.version + 1
<1>1. version \in Nat
  BY DEF Teacher
<1> HIDE DEF version
<1>2. LET gone == [row EXCEPT !.there = FALSE, !.version = version]
          renamed == [row EXCEPT !.name = name, !.version = version]
      IN /\ gone \in Teacher /\ ~gone.there /\ gone.version = version
         /\ renamed \in Teacher /\ renamed.there = row.there /\ renamed.live = row.live
         /\ renamed.version = version
  BY <1>1 DEF Teacher
<1> QED
  BY <1>2 DEF version

LEMMA CountedRoom ==
  ASSUME NEW row \in Room
  PROVE  LET gone == [row EXCEPT !.there = FALSE, !.teacher = Gone, !.version = @ + 1]
         IN gone \in Room /\ ~gone.there /\ gone.version = row.version + 1
<1> DEFINE version == row.version + 1
<1>1. version \in Nat
  BY DEF Room
<1> HIDE DEF version
<1>2. LET gone == [row EXCEPT !.there = FALSE, !.teacher = Gone, !.version = version]
      IN gone \in Room /\ ~gone.there /\ gone.version = version
  BY <1>1 DEF Room
<1> QED
  BY <1>2 DEF version

LEMMA CountedStudent ==
  ASSUME NEW row \in Pupil, NEW name \in Names, NEW r \in RoomIds \cup {Gone}
  PROVE  LET renamed == [row EXCEPT !.name = name, !.version = @ + 1]
             cleared == [row EXCEPT !.room = r, !.version = @ + 1]
         IN /\ renamed \in Pupil /\ renamed.there = row.there /\ renamed.version = row.version + 1
            /\ cleared \in Pupil /\ cleared.there = row.there /\ cleared.version = row.version + 1
<1> DEFINE version == row.version + 1
<1>1. version \in Nat
  BY DEF Pupil
<1> HIDE DEF version
<1>2. LET renamed == [row EXCEPT !.name = name, !.version = version]
          cleared == [row EXCEPT !.room = r, !.version = version]
      IN /\ renamed \in Pupil /\ renamed.there = row.there /\ renamed.version = version
         /\ cleared \in Pupil /\ cleared.there = row.there /\ cleared.version = version
  BY <1>1 DEF Pupil
<1> QED
  BY <1>2 DEF version

LEMMA BumpedTeachers ==
  ASSUME NEW rows \in [TeacherIds -> Teacher], NEW ids
  PROVE  /\ Bumped(rows, ids) \in [TeacherIds -> Teacher]
         /\ \A t \in TeacherIds :
              /\ Bumped(rows, ids)[t].there = rows[t].there
              /\ Bumped(rows, ids)[t].name = rows[t].name
              /\ Bumped(rows, ids)[t].live = rows[t].live
              /\ Bumped(rows, ids)[t].version =
                   IF t \in ids THEN rows[t].version + 1 ELSE rows[t].version
  BY DEF Bumped, Teacher

LEMMA BumpedRooms ==
  ASSUME NEW rows \in [RoomIds -> Room], NEW ids
  PROVE  /\ Bumped(rows, ids) \in [RoomIds -> Room]
         /\ \A r \in RoomIds :
              /\ Bumped(rows, ids)[r].there = rows[r].there
              /\ Bumped(rows, ids)[r].name = rows[r].name
              /\ Bumped(rows, ids)[r].teacher = rows[r].teacher
              /\ Bumped(rows, ids)[r].version =
                   IF r \in ids THEN rows[r].version + 1 ELSE rows[r].version
  BY DEF Bumped, Room

LEMMA AssignedRooms ==
  ASSUME TablesTypeOK, NEW rooms, NEW t \in TeacherIds \cup {Gone}
  PROVE  /\ Assigned(rooms, t) \in [RoomIds -> Room]
         /\ \A r \in RoomIds :
              /\ Assigned(rooms, t)[r].there = room[r].there
              /\ Assigned(rooms, t)[r].name = room[r].name
              /\ Assigned(rooms, t)[r].teacher = IF r \in rooms THEN t ELSE room[r].teacher
              /\ Assigned(rooms, t)[r].version =
                   IF r \in rooms THEN room[r].version + 1 ELSE room[r].version
<1> DEFINE row(r) == IF r \in rooms
                     THEN [room[r] EXCEPT !.teacher = t, !.version = @ + 1] ELSE room[r]
<1>1. ASSUME NEW r \in RoomIds
      PROVE  /\ row(r) \in Room
             /\ row(r).there = room[r].there /\ row(r).name = room[r].name
             /\ row(r).teacher = IF r \in rooms THEN t ELSE room[r].teacher
             /\ row(r).version = IF r \in rooms THEN room[r].version + 1 ELSE room[r].version
  <2>1. room[r] \in Room
    BY DEF TablesTypeOK
  <2>2. CASE r \in rooms
    <3> DEFINE version == room[r].version + 1
               new == [room[r] EXCEPT !.teacher = t, !.version = version]
    <3>1. version \in Nat
      BY <2>1 DEF Room
    <3> HIDE DEF version
    <3>2. /\ new \in Room /\ new.there = room[r].there /\ new.name = room[r].name
          /\ new.teacher = t /\ new.version = version
      BY <2>1, <3>1 DEF Room
    <3>3. row(r) = new
      BY <2>2 DEF version
    <3> HIDE DEF new, row
    <3> QED
      BY <2>2, <3>2, <3>3 DEF version
  <2>3. CASE r \notin rooms
    BY <2>1, <2>3
  <2> QED
    BY <2>2, <2>3
<1>2. Assigned(rooms, t) = [r \in RoomIds |-> row(r)]
  BY DEF Assigned
<1> HIDE DEF row
<1> QED
  BY <1>1, <1>2

LEMMA NewTeachers ==
  ASSUME TablesTypeOK, NEW t \in TeacherIds, NEW name \in Names
  PROVE  /\ NewTeacher(t, name) \in [TeacherIds -> Teacher]
         /\ \A u \in TeacherIds \ {t} : NewTeacher(t, name)[u] = teacher[u]
         /\ NewTeacher(t, name)[t].there /\ NewTeacher(t, name)[t].version = 0
         /\ NewTeacher(t, name)[t].live
<1> DEFINE new == [there |-> TRUE, name |-> name, live |-> TRUE, version |-> 0]
<1>1. new \in Teacher /\ new.there /\ new.version = 0 /\ new.live
  BY RowTypes
<1>2. NewTeacher(t, name) = [teacher EXCEPT ![t] = new]
  BY DEF NewTeacher
<1> HIDE DEF new
<1> QED
  BY <1>1, <1>2 DEF TablesTypeOK

(* A row that did not change, or only counted on. *)
LEMMA RowOnward ==
  ASSUME NEW old, NEW new, old.version \in Nat, new.version \in Nat,
         old.version <= new.version, new.there => old.there,
         new.there \/ new.version > old.version \/ ~old.there
  PROVE  Onward(old, new)
  BY DEF Onward, Known

(* A row that was never there. *)
LEMMA NewRowOnward ==
  ASSUME NEW old, NEW new, ~old.there, old.version = 0, new.version = 0
  PROVE  Onward(old, new) /\ ~Same(old, new)
  BY DEF Onward, Known, Same

LEMMA RowFields ==
  ASSUME TablesTypeOK
  PROVE  /\ \A t \in TeacherIds : /\ teacher[t].version \in Nat /\ teacher[t].there \in BOOLEAN
                                  /\ teacher[t].name \in Names /\ teacher[t].live \in BOOLEAN
         /\ \A r \in RoomIds : /\ room[r].version \in Nat /\ room[r].there \in BOOLEAN
                               /\ room[r].name \in Names
                               /\ room[r].teacher \in TeacherIds \cup {Gone}
         /\ \A p \in StudentIds : /\ pupil[p].version \in Nat /\ pupil[p].there \in BOOLEAN
                                  /\ pupil[p].name \in Names
                                  /\ pupil[p].room \in RoomIds \cup {Gone}
  BY DEF TablesTypeOK, Teacher, Room, Pupil

LEMMA StudentsUntouched ==
  ASSUME TablesTypeOK, UNCHANGED pupil
  PROVE  StudentsOnward /\ pupil' \in [StudentIds -> Pupil]
  BY RowFields DEF StudentsOnward, Onward, Same, Known, TablesTypeOK

LEMMA RoomsAndTeachersUntouched ==
  ASSUME TablesTypeOK, TeachersThere, UNCHANGED <<teacher, room>>
  PROVE  TeachersOnward /\ RoomsOnward /\ TeachersThere'
         /\ teacher' \in [TeacherIds -> Teacher] /\ room' \in [RoomIds -> Room]
<1>1. TeachersOnward
  <2>1. \A t \in TeacherIds : Onward(teacher[t], teacher'[t])
    BY RowFields DEF Onward, Known
  <2>2. \A t \in TeacherIds : RoomsOf(t)' = RoomsOf(t) \cap RoomsThere'
    BY DEF RoomsOf, RoomsThere
  <2> QED
    BY <2>1, <2>2 DEF TeachersOnward
<1>2. RoomsOnward
  BY RowFields DEF RoomsOnward, Onward, Known, ShownTeacher, Suspended
<1> QED
  BY <1>1, <1>2 DEF TeachersThere, TablesTypeOK

-----------------------------------------------------------------------------
(* Writes of teachers *)

LEMMA CreateTeacherOnward ==
  ASSUME TablesTypeOK, TeachersThere, NEW t \in TeacherIds, NEW name \in Names,
         NEW rooms \in SUBSET RoomIds, CreateTeacher(t, name, rooms)
  PROVE  RowsOnward
<1> DEFINE owners == OwnersOf(rooms)
           fresh == NewTeacher(t, name)
<1>1. /\ ~teacher[t].there /\ teacher[t].version = 0 /\ rooms \subseteq RoomsThere
      /\ teacher' = Bumped(fresh, owners) /\ room' = Assigned(rooms, t) /\ pupil' = pupil
  BY DEF CreateTeacher, NeverTeacher, ClassRoomsExist, InsertTeacher
<1>2. /\ fresh \in [TeacherIds -> Teacher]
      /\ \A u \in TeacherIds \ {t} : fresh[u] = teacher[u]
      /\ fresh[t].there /\ fresh[t].version = 0 /\ fresh[t].live
  BY NewTeachers
<1>3. owners = {room[r].teacher : r \in rooms} \ {Gone}
  BY <1>1 DEF OwnersOf, RoomsThere
<1>4. t \notin owners
  BY <1>1, <1>3 DEF TeachersThere, RoomsThere
<1> HIDE DEF fresh, owners
<1>5. /\ teacher' \in [TeacherIds -> Teacher]
      /\ teacher'[t].there /\ teacher'[t].version = 0
      /\ \A u \in TeacherIds \ {t} :
           /\ teacher'[u].there = teacher[u].there /\ teacher'[u].name = teacher[u].name
           /\ teacher'[u].live = teacher[u].live
           /\ teacher'[u].version = IF u \in owners THEN teacher[u].version + 1
                                    ELSE teacher[u].version
  BY <1>1, <1>2, <1>4, BumpedTeachers
<1>6. /\ room' \in [RoomIds -> Room]
      /\ \A r \in RoomIds :
           /\ room'[r].there = room[r].there /\ room'[r].name = room[r].name
           /\ room'[r].teacher = IF r \in rooms THEN t ELSE room[r].teacher
           /\ room'[r].version = IF r \in rooms THEN room[r].version + 1 ELSE room[r].version
  BY <1>1, AssignedRooms
<1>7. TeachersOnward
  <2>1. ASSUME NEW u \in TeacherIds
        PROVE  /\ Onward(teacher[u], teacher'[u])
               /\ Same(teacher[u], teacher'[u]) =>
                    u # t /\ u \notin owners /\ teacher'[u].name = teacher[u].name
    <3>1. CASE u = t
      BY <1>1, <1>5, <3>1, NewRowOnward
    <3>2. CASE u # t
      BY <1>5, <3>2, RowFields DEF Onward, Same, Known
    <3> QED
      BY <3>1, <3>2
  <2>2. ASSUME NEW u \in TeacherIds \ {t}, u \notin owners, NEW r \in RoomIds, room'[r].there
        PROVE  room'[r].teacher = u <=> (room[r].there /\ room[r].teacher = u)
    <3>1. u # Gone
      BY MastersConstants
    <3> QED
      BY <1>3, <1>6, <2>2, <3>1
  <2> QED
    BY <2>1, <2>2, TeachersAdvance
<1>8. RoomsOnward
  <2>1. ASSUME NEW r \in RoomIds
        PROVE  /\ Onward(room[r], room'[r])
               /\ Same(room[r], room'[r]) => r \notin rooms /\ room[r].there
    BY <1>6, RowFields DEF Onward, Same, Known
  <2>2. ASSUME NEW r \in RoomIds, room[r].there, room[r].teacher \in TeacherIds
        PROVE  teacher'[room[r].teacher].live = teacher[room[r].teacher].live
    BY <1>1, <1>5, <2>2, MastersConstants DEF TeachersThere
  <2> QED
    BY <1>6, <2>1, <2>2, RoomsAdvance
<1>9. TeachersThere'
  <2>1. \A u \in TeacherIds : teacher[u].there => teacher'[u].there
    BY <1>5
  <2> QED
    BY <1>5, <1>6, <2>1 DEF TeachersThere
<1> QED
  BY <1>1, <1>5, <1>6, <1>7, <1>8, <1>9, StudentsUntouched DEF RowsOnward, TablesTypeOK

LEMMA ImportTeachersOnward ==
  ASSUME TablesTypeOK, TeachersThere, NEW ts \in SUBSET TeacherIds, NEW name \in Names,
         ImportTeachers(ts, name)
  PROVE  RowsOnward
<1>1. /\ \A t \in ts : ~teacher[t].there /\ teacher[t].version = 0
      /\ teacher' = [t \in TeacherIds |-> IF t \in ts THEN NewTeacher(t, name)[t] ELSE teacher[t]]
      /\ UNCHANGED <<room, pupil>>
  BY DEF ImportTeachers, NeverTeacher
<1>2. /\ \A t \in ts : /\ teacher'[t] \in Teacher /\ teacher'[t].there
                       /\ teacher'[t].version = 0
      /\ \A t \in TeacherIds \ ts : teacher'[t] = teacher[t] /\ teacher'[t] \in Teacher
  <2>1. ASSUME NEW t \in ts
        PROVE  /\ teacher'[t] = NewTeacher(t, name)[t] /\ NewTeacher(t, name)[t] \in Teacher
               /\ teacher'[t].there /\ teacher'[t].version = 0
    BY <1>1, NewTeachers
  <2>2. ASSUME NEW t \in TeacherIds \ ts
        PROVE  teacher'[t] = teacher[t] /\ teacher[t] \in Teacher
    BY <1>1 DEF TablesTypeOK
  <2> QED
    BY <2>1, <2>2
<1>3. teacher' \in [TeacherIds -> Teacher] /\ room' \in [RoomIds -> Room]
  BY <1>1, <1>2 DEF TablesTypeOK
<1>4. TeachersOnward
  <2>1. \A t \in TeacherIds :
          /\ Onward(teacher[t], teacher'[t])
          /\ Same(teacher[t], teacher'[t]) => teacher'[t].name = teacher[t].name
    <3> TAKE t \in TeacherIds
    <3>1. CASE t \in ts
      BY <1>1, <1>2, <3>1, NewRowOnward
    <3>2. CASE t \notin ts
      BY <1>2, <3>2, RowFields DEF Onward, Known
    <3> QED
      BY <3>1, <3>2
  <2> QED
    BY <1>1, <2>1, TeachersAdvance
<1>5. RoomsOnward
  <2>1. \A r \in RoomIds : /\ Onward(room[r], room'[r])
                           /\ Same(room[r], room'[r]) => room[r].there
    BY <1>1, RowFields DEF Onward, Same, Known
  <2>2. ASSUME NEW r \in RoomIds, room[r].there, room[r].teacher \in TeacherIds
        PROVE  teacher'[room[r].teacher].live = teacher[room[r].teacher].live
    BY <1>1, <1>2, <2>2, MastersConstants DEF TeachersThere
  <2> QED
    BY <1>1, <2>1, <2>2, RoomsAdvance
<1>6. TeachersThere'
  <2>1. \A t \in TeacherIds : teacher[t].there => teacher'[t].there
    BY <1>2
  <2> QED
    BY <1>1, <2>1 DEF TeachersThere
<1> QED
  BY <1>1, <1>3, <1>4, <1>5, <1>6, StudentsUntouched DEF RowsOnward, TablesTypeOK

(* The rooms after an update of a teacher. *)
LEMMA ReassignedRooms ==
  ASSUME TablesTypeOK, NEW t \in TeacherIds, NEW rooms \in SUBSET RoomIds
  PROVE  /\ RoomsReassigned(t, rooms) \in [RoomIds -> Room]
         /\ \A r \in RoomIds :
              LET new == RoomsReassigned(t, rooms)[r]
                  moved == r \in rooms \cap RoomsThere \/ r \in RoomsOf(t)
              IN /\ new.there = room[r].there /\ new.name = room[r].name
                 /\ new.teacher = IF r \in rooms \cap RoomsThere THEN t
                                  ELSE IF r \in RoomsOf(t) THEN Gone ELSE room[r].teacher
                 /\ new.version = IF moved THEN room[r].version + 1 ELSE room[r].version
<1> DEFINE new(r) == IF r \in rooms \cap RoomsThere THEN Assigned({r}, t)[r]
                     ELSE IF r \in RoomsOf(t) THEN Assigned({r}, Gone)[r] ELSE room[r]
<1>1. ASSUME NEW r \in RoomIds
      PROVE  /\ new(r) \in Room
             /\ new(r).there = room[r].there /\ new(r).name = room[r].name
             /\ new(r).teacher = IF r \in rooms \cap RoomsThere THEN t
                                 ELSE IF r \in RoomsOf(t) THEN Gone ELSE room[r].teacher
             /\ new(r).version = IF r \in rooms \cap RoomsThere \/ r \in RoomsOf(t)
                                 THEN room[r].version + 1 ELSE room[r].version
  <2>1. CASE r \in rooms \cap RoomsThere
    BY <2>1, AssignedRooms
  <2>2. CASE r \notin rooms \cap RoomsThere /\ r \in RoomsOf(t)
    BY <2>2, AssignedRooms
  <2>3. CASE r \notin rooms \cap RoomsThere /\ r \notin RoomsOf(t)
    BY <2>3 DEF TablesTypeOK
  <2> QED
    BY <2>1, <2>2, <2>3
<1>2. RoomsReassigned(t, rooms) = [r \in RoomIds |-> new(r)]
  BY DEF RoomsReassigned
<1> HIDE DEF new
<1> QED
  BY <1>1, <1>2

(* The row itself and the teachers its new rooms are taken from count on, and  *)
(* so does every room that changes hands. *)
LEMMA WriteTeacherOnward ==
  ASSUME TablesTypeOK, TeachersThere, NEW t \in TeacherIds, NEW name \in Names,
         NEW rooms \in SUBSET RoomIds, teacher[t].there,
         WriteTeacher(t, name, rooms), UNCHANGED pupil
  PROVE  RowsOnward
<1> DEFINE bumped == {t} \cup OwnersOf(rooms)
           rows == Bumped(teacher, bumped)
           taken == rooms \cap RoomsThere
<1>1. teacher' = [rows EXCEPT ![t].name = name] /\ room' = RoomsReassigned(t, rooms)
  BY DEF WriteTeacher, TeachersBumped
<1>2. /\ rows \in [TeacherIds -> Teacher]
      /\ \A u \in TeacherIds :
           /\ rows[u].there = teacher[u].there /\ rows[u].name = teacher[u].name
           /\ rows[u].live = teacher[u].live
           /\ rows[u].version = IF u \in bumped THEN teacher[u].version + 1
                                ELSE teacher[u].version
  BY BumpedTeachers DEF TablesTypeOK
<1>3. \A u \in TeacherIds : u \notin bumped =>
        u # t /\ \A r \in taken : room[r].teacher # u
  BY MastersConstants DEF OwnersOf
<1> HIDE DEF rows, bumped
<1>4. /\ teacher' \in [TeacherIds -> Teacher]
      /\ \A u \in TeacherIds :
           /\ teacher'[u].there = teacher[u].there /\ teacher'[u].live = teacher[u].live
           /\ u \notin bumped => teacher'[u].name = teacher[u].name
           /\ teacher'[u].version = IF u \in bumped THEN teacher[u].version + 1
                                    ELSE teacher[u].version
  <2>1. [rows[t] EXCEPT !.name = name] \in Teacher
        /\ [rows[t] EXCEPT !.name = name].there = rows[t].there
        /\ [rows[t] EXCEPT !.name = name].live = rows[t].live
        /\ [rows[t] EXCEPT !.name = name].version = rows[t].version
    BY <1>2 DEF Teacher
  <2>2. /\ teacher' \in [TeacherIds -> Teacher]
        /\ teacher'[t] = [rows[t] EXCEPT !.name = name]
        /\ \A u \in TeacherIds \ {t} : teacher'[u] = rows[u]
    BY <1>1, <1>2, <2>1
  <2>3. t \in bumped
    BY DEF bumped
  <2> QED
    BY <1>2, <2>1, <2>2, <2>3
<1>5. /\ room' \in [RoomIds -> Room]
      /\ \A r \in RoomIds :
           /\ room'[r].there = room[r].there /\ room'[r].name = room[r].name
           /\ room'[r].teacher = IF r \in taken THEN t
                                 ELSE IF r \in RoomsOf(t) THEN Gone ELSE room[r].teacher
           /\ room'[r].version = IF r \in taken \/ r \in RoomsOf(t)
                                 THEN room[r].version + 1 ELSE room[r].version
  BY <1>1, ReassignedRooms
<1> HIDE DEF taken
<1>6. TeachersOnward
  <2>1. \A u \in TeacherIds :
          /\ Onward(teacher[u], teacher'[u])
          /\ Same(teacher[u], teacher'[u]) =>
               u \notin bumped /\ teacher'[u].name = teacher[u].name
    BY <1>4, RowFields DEF Onward, Same, Known
  <2>2. ASSUME NEW u \in TeacherIds, u \notin bumped, NEW r \in RoomIds, room'[r].there
        PROVE  room'[r].teacher = u <=> (room[r].there /\ room[r].teacher = u)
    <3>1. u # Gone /\ u # t /\ (r \in RoomsOf(t) => room[r].teacher = t)
      BY <1>3, <2>2, MastersConstants DEF RoomsOf
    <3> QED
      BY <1>3, <1>5, <2>2, <3>1
  <2> QED
    BY <2>1, <2>2, TeachersAdvance
<1>7. RoomsOnward
  <2>1. ASSUME NEW r \in RoomIds
        PROVE  /\ Onward(room[r], room'[r])
               /\ Same(room[r], room'[r]) => room'[r].teacher = room[r].teacher
    BY <1>5, RowFields DEF Onward, Same, Known
  <2> QED
    BY <1>4, <1>5, <2>1, RoomsAdvance
<1>8. TeachersThere'
  BY <1>4, <1>5 DEF TeachersThere
<1> QED
  BY <1>4, <1>5, <1>6, <1>7, <1>8, StudentsUntouched DEF RowsOnward, TablesTypeOK

LEMMA DeleteTeacherRowOnward ==
  ASSUME TablesTypeOK, TeachersThere, NEW t \in TeacherIds, DeleteTeacherRow(t)
  PROVE  RowsOnward
<1> DEFINE gone == [teacher[t] EXCEPT !.there = FALSE, !.version = @ + 1]
<1>1. /\ teacher' = [teacher EXCEPT ![t] = gone]
      /\ room' = Assigned(RoomsOf(t), Gone) /\ pupil' = pupil
  BY DEF DeleteTeacherRow
<1>2. gone \in Teacher /\ ~gone.there /\ gone.version = teacher[t].version + 1
  <2>1. teacher[t] \in Teacher /\ teacher[t].name \in Names
    BY RowFields DEF TablesTypeOK
  <2> QED
    BY <2>1, CountedTeacher
<1> HIDE DEF gone
<1>3. /\ teacher' \in [TeacherIds -> Teacher] /\ teacher'[t] = gone
      /\ \A u \in TeacherIds \ {t} : teacher'[u] = teacher[u]
  BY <1>1, <1>2 DEF TablesTypeOK
<1>4. /\ room' \in [RoomIds -> Room]
      /\ \A r \in RoomIds :
           /\ room'[r].there = room[r].there /\ room'[r].name = room[r].name
           /\ room'[r].teacher = IF r \in RoomsOf(t) THEN Gone ELSE room[r].teacher
           /\ room'[r].version = IF r \in RoomsOf(t) THEN room[r].version + 1
                                 ELSE room[r].version
  BY <1>1, AssignedRooms
<1>5. \A u \in TeacherIds :
        /\ Onward(teacher[u], teacher'[u])
        /\ Same(teacher[u], teacher'[u]) => u # t /\ teacher'[u].name = teacher[u].name
  <2> TAKE u \in TeacherIds
  <2>1. CASE u = t
    BY <1>2, <1>3, <2>1, RowFields DEF Onward, Same, Known
  <2>2. CASE u # t
    BY <1>3, <2>2, RowFields DEF Onward, Known
  <2> QED
    BY <2>1, <2>2
<1>6. TeachersOnward
  <2>1. ASSUME NEW u \in TeacherIds \ {t}, NEW r \in RoomIds, room'[r].there
        PROVE  room'[r].teacher = u <=> (room[r].there /\ room[r].teacher = u)
    BY <1>4, <2>1, MastersConstants DEF RoomsOf
  <2> QED
    BY <1>5, <2>1, TeachersAdvance
<1>7. RoomsOnward
  <2>1. \A r \in RoomIds :
          /\ Onward(room[r], room'[r])
          /\ Same(room[r], room'[r]) => room[r].there /\ r \notin RoomsOf(t)
    BY <1>4, RowFields DEF Onward, Same, Known
  <2>2. ASSUME NEW r \in RoomIds, room[r].there, r \notin RoomsOf(t),
               room[r].teacher \in TeacherIds
        PROVE  teacher'[room[r].teacher].live = teacher[room[r].teacher].live
    BY <1>3, <2>2 DEF RoomsOf
  <2> QED
    BY <1>4, <2>1, <2>2, RoomsAdvance
<1>8. TeachersThere'
  BY <1>3, <1>4 DEF TeachersThere, RoomsOf
<1> QED
  BY <1>1, <1>3, <1>4, <1>6, <1>7, <1>8, StudentsUntouched DEF RowsOnward, TablesTypeOK

LEMMA SetTeacherLiveOnward ==
  ASSUME TablesTypeOK, TeachersThere, NEW t \in TeacherIds, NEW live \in BOOLEAN,
         SetTeacherLive(t, live)
  PROVE  RowsOnward
<1> DEFINE new == [teacher[t] EXCEPT !.live = live]
<1>1. /\ teacher' = [teacher EXCEPT ![t] = new]
      /\ room' = Bumped(room, RoomsOf(t)) /\ pupil' = pupil
  BY DEF SetTeacherLive, BumpRoomsOf
<1>2. /\ new \in Teacher /\ new.there = teacher[t].there /\ new.name = teacher[t].name
      /\ new.version = teacher[t].version
  BY DEF TablesTypeOK, Teacher
<1> HIDE DEF new
<1>3. /\ teacher' \in [TeacherIds -> Teacher] /\ teacher'[t] = new
      /\ \A u \in TeacherIds \ {t} : teacher'[u] = teacher[u]
  BY <1>1, <1>2 DEF TablesTypeOK
<1>4. /\ room' \in [RoomIds -> Room]
      /\ \A r \in RoomIds :
           /\ room'[r].there = room[r].there /\ room'[r].name = room[r].name
           /\ room'[r].teacher = room[r].teacher
           /\ room'[r].version = IF r \in RoomsOf(t) THEN room[r].version + 1
                                 ELSE room[r].version
  BY <1>1, BumpedRooms DEF TablesTypeOK
<1>5. \A u \in TeacherIds :
        teacher'[u].there = teacher[u].there /\ teacher'[u].name = teacher[u].name
        /\ teacher'[u].version = teacher[u].version
  BY <1>2, <1>3
<1>6. TeachersOnward
  <2>1. \A u \in TeacherIds : Onward(teacher[u], teacher'[u])
    BY <1>5, RowFields DEF Onward, Known
  <2> QED
    BY <1>4, <1>5, <2>1, TeachersAdvance
<1>7. RoomsOnward
  <2>1. \A r \in RoomIds :
          /\ Onward(room[r], room'[r])
          /\ Same(room[r], room'[r]) => room[r].there /\ r \notin RoomsOf(t)
    BY <1>4, RowFields DEF Onward, Same, Known
  <2>2. ASSUME NEW r \in RoomIds, room[r].there, r \notin RoomsOf(t),
               room[r].teacher \in TeacherIds
        PROVE  teacher'[room[r].teacher].live = teacher[room[r].teacher].live
    BY <1>3, <2>2 DEF RoomsOf
  <2> QED
    BY <1>4, <2>1, <2>2, RoomsAdvance
<1>8. TeachersThere'
  BY <1>4, <1>5 DEF TeachersThere
<1> QED
  BY <1>1, <1>3, <1>4, <1>6, <1>7, <1>8, StudentsUntouched DEF RowsOnward, TablesTypeOK

LEMMA RegroupRoomsOnward ==
  ASSUME TablesTypeOK, TeachersThere, NEW rooms \in SUBSET RoomIds, RegroupRooms(rooms)
  PROVE  RowsOnward
<1>1. teacher' = teacher /\ room' = Bumped(room, rooms) /\ pupil' = pupil
  BY DEF RegroupRooms
<1>2. /\ room' \in [RoomIds -> Room]
      /\ \A r \in RoomIds :
           /\ room'[r].there = room[r].there /\ room'[r].name = room[r].name
           /\ room'[r].teacher = room[r].teacher
           /\ room'[r].version = IF r \in rooms THEN room[r].version + 1 ELSE room[r].version
  BY <1>1, BumpedRooms DEF TablesTypeOK
<1>3. TeachersOnward
  <2>1. \A t \in TeacherIds : Onward(teacher[t], teacher'[t])
    BY <1>1, RowFields DEF Onward, Known
  <2> QED
    BY <1>1, <1>2, <2>1, TeachersAdvance
<1>4. RoomsOnward
  <2>1. \A r \in RoomIds : Onward(room[r], room'[r])
    BY <1>2, RowFields DEF Onward, Known
  <2> QED
    BY <1>1, <1>2, <2>1, RoomsAdvance
<1>5. TeachersThere'
  BY <1>1, <1>2 DEF TeachersThere
<1> QED
  BY <1>1, <1>2, <1>3, <1>4, <1>5, StudentsUntouched DEF RowsOnward, TablesTypeOK

LEMMA RenameTeacherOnward ==
  ASSUME TablesTypeOK, TeachersThere, NEW t \in TeacherIds, NEW name \in Names,
         RenameTeacher(t, name)
  PROVE  RowsOnward
<1> DEFINE new == [teacher[t] EXCEPT !.name = name, !.version = @ + 1]
<1>1. teacher' = [teacher EXCEPT ![t] = new] /\ UNCHANGED <<room, pupil>>
  BY DEF RenameTeacher
<1>2. /\ new \in Teacher /\ new.there = teacher[t].there /\ new.live = teacher[t].live
      /\ new.version = teacher[t].version + 1
  <2>1. teacher[t] \in Teacher
    BY DEF TablesTypeOK
  <2> QED
    BY <2>1, CountedTeacher
<1> HIDE DEF new
<1>3. /\ teacher' \in [TeacherIds -> Teacher] /\ teacher'[t] = new
      /\ \A u \in TeacherIds \ {t} : teacher'[u] = teacher[u]
  BY <1>1, <1>2 DEF TablesTypeOK
<1>4. \A u \in TeacherIds :
        teacher'[u].there = teacher[u].there /\ teacher'[u].live = teacher[u].live
  BY <1>2, <1>3
<1>5. TeachersOnward
  <2>1. \A u \in TeacherIds :
          /\ Onward(teacher[u], teacher'[u])
          /\ Same(teacher[u], teacher'[u]) => teacher'[u].name = teacher[u].name
    <3> TAKE u \in TeacherIds
    <3>1. CASE u = t
      BY <1>2, <1>3, <3>1, RowFields DEF Onward, Same, Known
    <3>2. CASE u # t
      BY <1>3, <3>2, RowFields DEF Onward, Known
    <3> QED
      BY <3>1, <3>2
  <2> QED
    BY <1>1, <2>1, TeachersAdvance
<1>6. RoomsOnward
  <2>1. \A r \in RoomIds : Onward(room[r], room'[r])
    BY <1>1, RowFields DEF Onward, Known
  <2> QED
    BY <1>1, <1>4, <2>1, RoomsAdvance
<1>7. TeachersThere'
  BY <1>1, <1>4 DEF TeachersThere
<1> QED
  BY <1>1, <1>3, <1>5, <1>6, <1>7, StudentsUntouched DEF RowsOnward, TablesTypeOK

-----------------------------------------------------------------------------
(* Writes of rooms *)

LEMMA NewRooms ==
  ASSUME NEW name \in Names, NEW t \in TeacherIds \cup {Gone}
  PROVE  /\ NewRoom(name, t) \in Room /\ NewRoom(name, t).there
         /\ NewRoom(name, t).teacher = t /\ NewRoom(name, t).version = 0
  BY RowTypes DEF NewRoom

(* The teachers when some of them count on. *)
LEMMA TeachersCounted ==
  ASSUME TablesTypeOK, NEW ids, BumpTeachers(ids)
  PROVE  /\ teacher' \in [TeacherIds -> Teacher]
         /\ \A u \in TeacherIds :
              /\ teacher'[u].there = teacher[u].there /\ teacher'[u].live = teacher[u].live
              /\ Onward(teacher[u], teacher'[u])
              /\ Same(teacher[u], teacher'[u]) =>
                   u \notin ids /\ teacher'[u].name = teacher[u].name
<1>1. /\ teacher' \in [TeacherIds -> Teacher]
      /\ \A u \in TeacherIds :
           /\ teacher'[u].there = teacher[u].there /\ teacher'[u].name = teacher[u].name
           /\ teacher'[u].live = teacher[u].live
           /\ teacher'[u].version = IF u \in ids THEN teacher[u].version + 1
                                    ELSE teacher[u].version
  BY BumpedTeachers DEF TablesTypeOK, BumpTeachers
<1> QED
  BY <1>1, RowFields DEF Onward, Same, Known

LEMMA CreateRoomOnward ==
  ASSUME TablesTypeOK, TeachersThere, NEW r \in RoomIds, NEW name \in Names,
         NEW t \in TeacherIds \cup {Gone}, CreateRoom(r, name, t)
  PROVE  RowsOnward
<1>1. /\ ~room[r].there /\ room[r].version = 0 /\ (t # Gone => teacher[t].there)
      /\ room' = [room EXCEPT ![r] = NewRoom(name, t)] /\ pupil' = pupil
      /\ BumpTeachers({t} \ {Gone})
  BY DEF CreateRoom, NeverRoom, TeacherThere, InsertRoom
<1>2. /\ teacher' \in [TeacherIds -> Teacher]
      /\ \A u \in TeacherIds :
           /\ teacher'[u].there = teacher[u].there /\ teacher'[u].live = teacher[u].live
           /\ Onward(teacher[u], teacher'[u])
           /\ Same(teacher[u], teacher'[u]) =>
                u \notin {t} \ {Gone} /\ teacher'[u].name = teacher[u].name
  BY <1>1, TeachersCounted
<1>3. /\ room' \in [RoomIds -> Room]
      /\ room'[r].there /\ room'[r].teacher = t /\ room'[r].version = 0
      /\ \A q \in RoomIds \ {r} : room'[q] = room[q]
  BY <1>1, NewRooms DEF TablesTypeOK
<1>4. TeachersOnward
  <2>1. ASSUME NEW u \in TeacherIds, u \notin {t} \ {Gone}, NEW q \in RoomIds, room'[q].there
        PROVE  room'[q].teacher = u <=> (room[q].there /\ room[q].teacher = u)
    BY <1>1, <1>3, <2>1, MastersConstants
  <2> QED
    BY <1>2, <2>1, TeachersAdvance
<1>5. RoomsOnward
  <2>1. ASSUME NEW q \in RoomIds
        PROVE  /\ Onward(room[q], room'[q])
               /\ Same(room[q], room'[q]) => room'[q] = room[q]
    <3>1. CASE q = r
      BY <1>1, <1>3, <3>1, NewRowOnward
    <3>2. CASE q # r
      BY <1>3, <3>2, RowFields DEF Onward, Known
    <3> QED
      BY <3>1, <3>2
  <2> QED
    BY <1>2, <2>1, RoomsAdvance
<1>6. TeachersThere'
  BY <1>1, <1>2, <1>3 DEF TeachersThere
<1> QED
  BY <1>1, <1>2, <1>3, <1>4, <1>5, <1>6, StudentsUntouched DEF RowsOnward, TablesTypeOK

(* Rooms that come without a teacher, by an import of rooms or of students. *)
LEMMA RoomsAddedOnward ==
  ASSUME TablesTypeOK, TeachersThere, NEW rs \in SUBSET RoomIds, NEW name \in Names,
         \A r \in rs : NeverRoom(r), teacher' = teacher,
         room' = [r \in RoomIds |-> IF r \in rs THEN NewRoom(name, Gone) ELSE room[r]]
  PROVE  /\ TeachersOnward /\ RoomsOnward /\ TeachersThere'
         /\ teacher' \in [TeacherIds -> Teacher] /\ room' \in [RoomIds -> Room]
<1>1. \A r \in rs : ~room[r].there /\ room[r].version = 0
  BY DEF NeverRoom
<1>2. /\ \A r \in rs : /\ room'[r] \in Room /\ room'[r].there
                       /\ room'[r].teacher = Gone /\ room'[r].version = 0
      /\ \A r \in RoomIds \ rs : room'[r] = room[r] /\ room'[r] \in Room
  BY NewRooms DEF TablesTypeOK
<1>3. teacher' \in [TeacherIds -> Teacher] /\ room' \in [RoomIds -> Room]
  BY <1>2 DEF TablesTypeOK
<1>4. TeachersOnward
  <2>1. \A u \in TeacherIds : Onward(teacher[u], teacher'[u])
    BY RowFields DEF Onward, Known
  <2>2. ASSUME NEW u \in TeacherIds, NEW r \in RoomIds, room'[r].there
        PROVE  room'[r].teacher = u <=> (room[r].there /\ room[r].teacher = u)
    BY <1>1, <1>2, <2>2, MastersConstants
  <2> QED
    BY <2>1, <2>2, TeachersAdvance
<1>5. RoomsOnward
  <2>1. ASSUME NEW r \in RoomIds
        PROVE  /\ Onward(room[r], room'[r])
               /\ Same(room[r], room'[r]) => room'[r] = room[r]
    <3>1. CASE r \in rs
      BY <1>1, <1>2, <3>1, NewRowOnward
    <3>2. CASE r \notin rs
      BY <1>2, <3>2, RowFields DEF Onward, Known
    <3> QED
      BY <3>1, <3>2
  <2> QED
    BY <2>1, RoomsAdvance
<1>6. TeachersThere'
  BY <1>2 DEF TeachersThere
<1> QED
  BY <1>3, <1>4, <1>5, <1>6

LEMMA ImportRoomsOnward ==
  ASSUME TablesTypeOK, TeachersThere, NEW rs \in SUBSET RoomIds, NEW name \in Names,
         ImportRooms(rs, name)
  PROVE  RowsOnward
  BY RoomsAddedOnward, StudentsUntouched DEF ImportRooms, RowsOnward, TablesTypeOK

(* A room that changes hands counts on the old and the new teacher; the teacher  *)
(* it is not shown stays. *)
LEMMA WriteRoomOnward ==
  ASSUME TablesTypeOK, TeachersThere, NEW r \in RoomIds, NEW name \in Names,
         NEW t \in TeacherIds \cup {Gone}, room[r].there, TeacherThere(t),
         WriteRoom(r, name, t), UNCHANGED pupil
  PROVE  RowsOnward
<1> DEFINE old == room[r].teacher
           next == EffectiveTeacher(r, t)
           bumped == IF next # old THEN {old, t} \ {Gone} ELSE {}
           new == [room[r] EXCEPT !.name = name, !.teacher = next, !.version = @ + 1]
<1>1. BumpTeachers(bumped) /\ room' = [room EXCEPT ![r] = new]
  BY DEF WriteRoom
<1>2. next \in {old, t} /\ (next # old => next = t)
  BY DEF EffectiveTeacher
<1>3. old \in TeacherIds \cup {Gone} /\ next \in TeacherIds \cup {Gone} /\ room[r] \in Room
  BY <1>2, RowFields DEF TablesTypeOK
<1>4. /\ old # Gone => teacher[old].there
      /\ t # Gone => teacher[t].there
  BY <1>3 DEF TeachersThere, TeacherThere
<1> HIDE DEF next
<1>5. /\ new \in Room /\ new.there = room[r].there /\ new.teacher = next
      /\ new.version = room[r].version + 1
  <2> DEFINE version == room[r].version + 1
  <2>1. version \in Nat
    BY <1>3 DEF Room
  <2> HIDE DEF version
  <2>2. LET row == [room[r] EXCEPT !.name = name, !.teacher = next, !.version = version]
        IN /\ row \in Room /\ row.there = room[r].there /\ row.teacher = next
           /\ row.version = version
    BY <1>3, <2>1 DEF Room
  <2> QED
    BY <2>2 DEF version
<1> HIDE DEF bumped, new
<1>6. /\ room' \in [RoomIds -> Room] /\ room'[r] = new
      /\ \A q \in RoomIds \ {r} : room'[q] = room[q]
  BY <1>1, <1>5 DEF TablesTypeOK
<1>7. /\ teacher' \in [TeacherIds -> Teacher]
      /\ \A u \in TeacherIds :
           /\ teacher'[u].there = teacher[u].there /\ teacher'[u].live = teacher[u].live
           /\ Onward(teacher[u], teacher'[u])
           /\ Same(teacher[u], teacher'[u]) =>
                u \notin bumped /\ teacher'[u].name = teacher[u].name
  BY <1>1, TeachersCounted
<1>8. TeachersOnward
  <2>1. ASSUME NEW u \in TeacherIds, u \notin bumped, NEW q \in RoomIds, room'[q].there
        PROVE  room'[q].teacher = u <=> (room[q].there /\ room[q].teacher = u)
    <3>1. u # Gone
      BY MastersConstants
    <3>2. CASE q = r
      BY <1>2, <1>5, <1>6, <2>1, <3>1, <3>2 DEF bumped
    <3>3. CASE q # r
      BY <1>6, <2>1, <3>3
    <3> QED
      BY <3>2, <3>3
  <2> QED
    BY <1>7, <2>1, TeachersAdvance
<1>9. RoomsOnward
  <2>1. ASSUME NEW q \in RoomIds
        PROVE  /\ Onward(room[q], room'[q])
               /\ Same(room[q], room'[q]) => room'[q] = room[q]
    <3>1. CASE q = r
      BY <1>5, <1>6, <3>1, RowFields DEF Onward, Same, Known
    <3>2. CASE q # r
      BY <1>6, <3>2, RowFields DEF Onward, Known
    <3> QED
      BY <3>1, <3>2
  <2> QED
    BY <1>7, <2>1, RoomsAdvance
<1>10. TeachersThere'
  BY <1>2, <1>3, <1>4, <1>5, <1>6, <1>7 DEF TeachersThere
<1> QED
  BY <1>6, <1>7, <1>8, <1>9, <1>10, StudentsUntouched DEF RowsOnward, TablesTypeOK

LEMMA DeleteRoomOnward ==
  ASSUME TablesTypeOK, TeachersThere, NEW r \in RoomIds, DeleteRoom(r)
  PROVE  RowsOnward
<1> DEFINE gone == [room[r] EXCEPT !.there = FALSE, !.teacher = Gone, !.version = @ + 1]
<1>1. room' = [room EXCEPT ![r] = gone] /\ UNCHANGED <<teacher, pupil>>
  BY DEF DeleteRoom, RemoveRoomRow
<1>2. gone \in Room /\ ~gone.there /\ gone.version = room[r].version + 1
  BY CountedRoom DEF TablesTypeOK
<1> HIDE DEF gone
<1>3. /\ room' \in [RoomIds -> Room] /\ room'[r] = gone
      /\ \A q \in RoomIds \ {r} : room'[q] = room[q]
  BY <1>1, <1>2 DEF TablesTypeOK
<1>4. TeachersOnward
  <2>1. \A u \in TeacherIds : Onward(teacher[u], teacher'[u])
    BY <1>1, RowFields DEF Onward, Known
  <2>2. ASSUME NEW u \in TeacherIds, NEW q \in RoomIds, room'[q].there
        PROVE  room'[q].teacher = u <=> (room[q].there /\ room[q].teacher = u)
    BY <1>2, <1>3, <2>2
  <2> QED
    BY <1>1, <2>1, <2>2, TeachersAdvance
<1>5. RoomsOnward
  <2>1. ASSUME NEW q \in RoomIds
        PROVE  /\ Onward(room[q], room'[q])
               /\ Same(room[q], room'[q]) => room'[q] = room[q]
    <3>1. CASE q = r
      BY <1>2, <1>3, <3>1, RowFields DEF Onward, Same, Known
    <3>2. CASE q # r
      BY <1>3, <3>2, RowFields DEF Onward, Known
    <3> QED
      BY <3>1, <3>2
  <2> QED
    BY <1>1, <2>1, RoomsAdvance
<1>6. TeachersThere'
  BY <1>1, <1>2, <1>3 DEF TeachersThere
<1> QED
  BY <1>1, <1>3, <1>4, <1>5, <1>6, StudentsUntouched DEF RowsOnward, TablesTypeOK

-----------------------------------------------------------------------------
(* Writes of students *)

LEMMA StudentRowWritten ==
  ASSUME TablesTypeOK, TeachersThere, NEW p \in StudentIds, NEW new \in Pupil,
         pupil' = [pupil EXCEPT ![p] = new], UNCHANGED <<teacher, room>>,
         new.there = pupil[p].there,
         \/ new.version = pupil[p].version + 1
         \/ new.version = pupil[p].version /\ new.name = pupil[p].name
  PROVE  RowsOnward
<1>1. /\ pupil' \in [StudentIds -> Pupil] /\ pupil'[p] = new
      /\ \A q \in StudentIds \ {p} : pupil'[q] = pupil[q]
  BY DEF TablesTypeOK
<1>2. StudentsOnward
  <2> SUFFICES ASSUME NEW q \in StudentIds
               PROVE  /\ Onward(pupil[q], pupil'[q])
                      /\ Same(pupil[q], pupil'[q]) => pupil'[q].name = pupil[q].name
    BY DEF StudentsOnward
  <2>1. CASE q = p
    BY <1>1, <2>1, RowFields DEF Onward, Same, Known
  <2>2. CASE q # p
    BY <1>1, <2>2, RowFields DEF Onward, Known
  <2> QED
    BY <2>1, <2>2
<1> QED
  BY <1>1, <1>2, RoomsAndTeachersUntouched DEF RowsOnward, TablesTypeOK

LEMMA WriteStudentOnward ==
  ASSUME TablesTypeOK, TeachersThere, NEW p \in StudentIds, NEW name \in Names,
         NEW r \in RoomIds \cup {Gone}, WriteStudent(p, name, r), UNCHANGED <<teacher, room>>
  PROVE  RowsOnward
<1> DEFINE new == [pupil[p] EXCEPT !.name = name, !.room = r, !.version = @ + 1]
<1>1. new \in Pupil /\ new.there = pupil[p].there /\ new.version = pupil[p].version + 1
  <2> DEFINE version == pupil[p].version + 1
  <2>1. pupil[p] \in Pupil /\ version \in Nat
    BY DEF TablesTypeOK, Pupil
  <2> HIDE DEF version
  <2>2. LET row == [pupil[p] EXCEPT !.name = name, !.room = r, !.version = version]
        IN row \in Pupil /\ row.there = pupil[p].there /\ row.version = version
    BY <2>1 DEF Pupil
  <2> QED
    BY <2>2 DEF version
<1>2. pupil' = [pupil EXCEPT ![p] = new]
  BY DEF WriteStudent
<1> HIDE DEF new
<1> QED
  BY <1>1, <1>2, StudentRowWritten

LEMMA RenameStudentOnward ==
  ASSUME TablesTypeOK, TeachersThere, NEW p \in StudentIds, NEW name \in Names,
         RenameStudent(p, name)
  PROVE  RowsOnward
<1> DEFINE new == [pupil[p] EXCEPT !.name = name, !.version = @ + 1]
<1>1. new \in Pupil /\ new.there = pupil[p].there /\ new.version = pupil[p].version + 1
  <2>1. Gone \in RoomIds \cup {Gone}
    OBVIOUS
  <2> QED
    BY <2>1, CountedStudent DEF TablesTypeOK
<1>2. pupil' = [pupil EXCEPT ![p] = new] /\ UNCHANGED <<teacher, room>>
  BY DEF RenameStudent
<1> HIDE DEF new
<1> QED
  BY <1>1, <1>2, StudentRowWritten

(* A PATCH leaves the version and the name. *)
LEMMA PatchStudentOnward ==
  ASSUME TablesTypeOK, TeachersThere, NEW p \in StudentIds, NEW r \in RoomIds \cup {Gone},
         PatchStudent(p, r)
  PROVE  RowsOnward
<1> DEFINE new == [pupil[p] EXCEPT !.room = r]
<1>1. /\ new \in Pupil /\ new.there = pupil[p].there /\ new.name = pupil[p].name
      /\ new.version = pupil[p].version
  BY DEF TablesTypeOK, Pupil
<1>2. pupil' = [pupil EXCEPT ![p] = new] /\ UNCHANGED <<teacher, room>>
  BY DEF PatchStudent, MoveStudent
<1> HIDE DEF new
<1> QED
  BY <1>1, <1>2, StudentRowWritten

LEMMA AnonymizeStudentOnward ==
  ASSUME TablesTypeOK, TeachersThere, NEW p \in StudentIds, AnonymizeStudentRow(p)
  PROVE  RowsOnward
<1> DEFINE new == [pupil[p] EXCEPT !.room = Gone, !.version = @ + 1]
<1>1. new \in Pupil /\ new.there = pupil[p].there /\ new.version = pupil[p].version + 1
  <2>1. pupil[p] \in Pupil /\ pupil[p].name \in Names /\ Gone \in RoomIds \cup {Gone}
    BY RowFields DEF TablesTypeOK
  <2> QED
    BY <2>1, CountedStudent
<1>2. pupil' = [pupil EXCEPT ![p] = new] /\ UNCHANGED <<teacher, room>>
  BY DEF AnonymizeStudentRow
<1> HIDE DEF new
<1> QED
  BY <1>1, <1>2, StudentRowWritten

LEMMA NewPupils ==
  ASSUME NEW name \in Names, NEW r \in RoomIds \cup {Gone}
  PROVE  NewPupil(name, r) \in Pupil /\ NewPupil(name, r).version = 0
  BY RowTypes DEF NewPupil

(* Students that come, one by one or with an import. *)
LEMMA StudentsAdded ==
  ASSUME TablesTypeOK, NEW ps \in SUBSET StudentIds, NEW name \in Names,
         NEW r \in RoomIds \cup {Gone}, \A p \in ps : NeverPupil(p),
         pupil' = [p \in StudentIds |-> IF p \in ps THEN NewPupil(name, r) ELSE pupil[p]]
  PROVE  StudentsOnward /\ pupil' \in [StudentIds -> Pupil]
<1>1. NewPupil(name, r) \in Pupil /\ NewPupil(name, r).version = 0
  BY NewPupils
<1>2. /\ pupil' \in [StudentIds -> Pupil]
      /\ \A p \in ps : pupil'[p].version = 0
      /\ \A p \in StudentIds \ ps : pupil'[p] = pupil[p]
  BY <1>1 DEF TablesTypeOK
<1>3. StudentsOnward
  <2> SUFFICES ASSUME NEW p \in StudentIds
               PROVE  /\ Onward(pupil[p], pupil'[p])
                      /\ Same(pupil[p], pupil'[p]) => pupil'[p].name = pupil[p].name
    BY DEF StudentsOnward
  <2>1. CASE p \in ps
    BY <1>2, <2>1, NewRowOnward DEF NeverPupil
  <2>2. CASE p \notin ps
    BY <1>2, <2>2, RowFields DEF Onward, Known
  <2> QED
    BY <2>1, <2>2
<1> QED
  BY <1>2, <1>3

LEMMA CreateStudentOnward ==
  ASSUME TablesTypeOK, TeachersThere, NEW p \in StudentIds, NEW name \in Names,
         NEW r \in RoomIds \cup {Gone}, CreateStudent(p, name, r)
  PROVE  RowsOnward
<1>1. UNCHANGED <<teacher, room>> /\ \A q \in {p} : NeverPupil(q)
  BY DEF CreateStudent
<1>2. pupil' = [q \in StudentIds |-> IF q \in {p} THEN NewPupil(name, r) ELSE pupil[q]]
  BY DEF CreateStudent, InsertStudent, TablesTypeOK
<1>3. StudentsOnward /\ pupil' \in [StudentIds -> Pupil]
  <2>1. {p} \in SUBSET StudentIds
    OBVIOUS
  <2> QED
    BY <1>1, <1>2, <2>1, StudentsAdded
<1> QED
  BY <1>1, <1>3, RoomsAndTeachersUntouched DEF RowsOnward, TablesTypeOK

LEMMA ImportStudentsOnward ==
  ASSUME TablesTypeOK, TeachersThere, NEW ps \in SUBSET StudentIds, NEW name \in Names,
         NEW r \in RoomIds, ImportStudents(ps, name, r)
  PROVE  RowsOnward
<1>1. /\ \A p \in ps : NeverPupil(p)
      /\ pupil' = [p \in StudentIds |-> IF p \in ps THEN NewPupil(name, r) ELSE pupil[p]]
      /\ teacher' = teacher /\ (room[r].there \/ NeverRoom(r))
      /\ room' = IF room[r].there THEN room ELSE [room EXCEPT ![r] = NewRoom(name, Gone)]
  BY DEF ImportStudents
<1>2. StudentsOnward /\ pupil' \in [StudentIds -> Pupil]
  BY <1>1, StudentsAdded
<1>3. CASE room[r].there
  BY <1>1, <1>2, <1>3, RoomsAndTeachersUntouched DEF RowsOnward, TablesTypeOK
<1>4. CASE ~room[r].there
  <2>1. room' = [q \in RoomIds |-> IF q \in {r} THEN NewRoom(name, Gone) ELSE room[q]]
        /\ \A q \in {r} : NeverRoom(q)
    BY <1>1, <1>4 DEF TablesTypeOK
  <2> QED
    BY <1>1, <1>2, <2>1, RoomsAddedOnward DEF RowsOnward, TablesTypeOK
<1> QED
  BY <1>3, <1>4

-----------------------------------------------------------------------------
(* The editors *)

LEMMA EditorFields ==
  ASSUME MastersTypeOK, NEW e \in Editors
  PROVE  /\ editor[e] \in Editor /\ editor[e].version \in Nat
         /\ editor[e].rooms \in SUBSET RoomIds
  BY DEF MastersTypeOK, Editor

(* What an editor has seen stays so while rows go onward. *)
LEMMA SeenStays ==
  ASSUME MastersInv, MastersTypeOK', RowsOnward,
         \A e \in Editors : editor'[e] = editor[e] \/ editor'[e].pc = "saved"
  PROVE  MastersInv'
<1> SUFFICES ASSUME NEW e \in Editors, Screen(e)'
             PROVE  /\ editor'[e].id \in TeacherIds => TeacherSeen(e)'
                    /\ editor'[e].id \in RoomIds => RoomSeen(e)'
                    /\ editor'[e].id \in StudentIds => StudentSeen(e)'
                    /\ \A r \in editor'[e].rooms : Known(room'[r])
  BY DEF MastersInv, RowsOnward, RowsSeen, Known
<1>1. editor'[e] = editor[e] /\ Screen(e)
  BY DEF Screen
<1> PICK i : i = editor[e].id
  OBVIOUS
<1>2. TablesTypeOK /\ TablesTypeOK' /\ editor[e].version \in Nat
  BY EditorFields DEF MastersInv, MastersTypeOK, TablesTypeOK
<1>3. ASSUME i \in TeacherIds
      PROVE  TeacherSeen(e)'
  <2>1. TeacherSeen(e) /\ Onward(teacher[i], teacher'[i])
    BY <1>1, <1>3 DEF MastersInv, RowsSeen, RowsOnward, TeachersOnward
  <2>2. /\ teacher[i].version \in Nat /\ teacher'[i].version \in Nat
    BY <1>2, <1>3, RowFields DEF TablesTypeOK, Teacher
  <2>3. Known(teacher'[i]) /\ editor[e].version <= teacher'[i].version
    BY <1>2, <2>1, <2>2 DEF TeacherSeen, Onward
  <2>4. ASSUME teacher'[i].there, teacher'[i].version = editor[e].version
        PROVE  /\ teacher'[i].name = editor[e].name
               /\ editor[e].pc = "read" => RoomsOf(i)' = editor[e].rooms \cap RoomsThere'
    <3>1. /\ teacher[i].there /\ teacher[i].version = editor[e].version
          /\ Same(teacher[i], teacher'[i])
      BY <1>2, <2>1, <2>2, <2>4 DEF TeacherSeen, Onward, Same
    <3>2. /\ teacher'[i].name = teacher[i].name
          /\ RoomsOf(i)' = RoomsOf(i) \cap RoomsThere'
      BY <1>3, <3>1 DEF RowsOnward, TeachersOnward
    <3>3. /\ teacher[i].name = editor[e].name
          /\ editor[e].pc = "read" => RoomsOf(i) = editor[e].rooms \cap RoomsThere
      BY <2>1, <3>1 DEF TeacherSeen
    <3>4. \A r \in editor[e].rooms : r \in RoomsThere' => r \in RoomsThere
      <4> TAKE r \in editor[e].rooms
      <4>1. r \in RoomIds /\ Known(room[r])
        BY <1>1, EditorFields DEF MastersInv, RowsSeen
      <4>2. Onward(room[r], room'[r])
        BY <4>1 DEF RowsOnward, RoomsOnward
      <4> QED
        BY <4>1, <4>2 DEF Onward, RoomsThere
    <3> QED
      BY <3>2, <3>3, <3>4
  <2> QED
    BY <1>1, <2>3, <2>4 DEF TeacherSeen, Known
<1>4. ASSUME i \in RoomIds
      PROVE  RoomSeen(e)'
  <2>1. RoomSeen(e) /\ Onward(room[i], room'[i])
    BY <1>1, <1>4 DEF MastersInv, RowsSeen, RowsOnward, RoomsOnward
  <2>2. room[i].version \in Nat /\ room'[i].version \in Nat
    BY <1>2, <1>4, RowFields DEF TablesTypeOK, Room
  <2>3. Known(room'[i]) /\ editor[e].version <= room'[i].version
    BY <1>2, <2>1, <2>2 DEF RoomSeen, Onward
  <2>4. ASSUME room'[i].there, room'[i].version = editor[e].version
        PROVE  room'[i].name = editor[e].name /\ ShownTeacher(i)' = editor[e].ref
    <3>1. /\ room[i].there /\ room[i].version = editor[e].version
          /\ Same(room[i], room'[i])
      BY <1>2, <2>1, <2>2, <2>4 DEF RoomSeen, Onward, Same
    <3>2. room'[i].name = room[i].name /\ ShownTeacher(i)' = ShownTeacher(i)
      BY <1>4, <3>1 DEF RowsOnward, RoomsOnward
    <3> QED
      BY <2>1, <3>1, <3>2 DEF RoomSeen, RoomAsRead
  <2> QED
    BY <1>1, <2>3, <2>4 DEF RoomSeen, RoomAsRead, Known
<1>5. ASSUME i \in StudentIds
      PROVE  StudentSeen(e)'
  <2>1. StudentSeen(e) /\ Onward(pupil[i], pupil'[i])
    BY <1>1, <1>5 DEF MastersInv, RowsSeen, RowsOnward, StudentsOnward
  <2>2. pupil[i].version \in Nat /\ pupil'[i].version \in Nat
    BY <1>2, <1>5, RowFields DEF TablesTypeOK, Pupil
  <2>3. Known(pupil'[i]) /\ editor[e].version <= pupil'[i].version
    BY <1>2, <2>1, <2>2 DEF StudentSeen, Onward
  <2>4. ASSUME pupil'[i].there, pupil'[i].version = editor[e].version
        PROVE  pupil'[i].name = editor[e].name
    <3>1. /\ pupil[i].there /\ pupil[i].version = editor[e].version
          /\ Same(pupil[i], pupil'[i])
      BY <1>2, <2>1, <2>2, <2>4 DEF StudentSeen, Onward, Same
    <3> QED
      BY <1>5, <2>1, <3>1 DEF RowsOnward, StudentsOnward, StudentSeen, StudentAsRead
  <2> QED
    BY <1>1, <2>3, <2>4 DEF StudentSeen, StudentAsRead, Known
<1>6. \A r \in editor[e].rooms : Known(room'[r])
  <2> TAKE r \in editor[e].rooms
  <2>1. r \in RoomIds /\ Known(room[r])
    BY <1>1, EditorFields DEF MastersInv, RowsSeen
  <2> QED
    BY <2>1 DEF RowsOnward, RoomsOnward, Onward
<1> QED
  BY <1>1, <1>3, <1>4, <1>5, <1>6

-----------------------------------------------------------------------------
(* What an editor reads, it has seen. *)

LEMMA EditorReads ==
  ASSUME MastersTypeOK, NEW e \in Editors, NEW fields \in Editor, Reads(e, fields), Keep
  PROVE  /\ MastersTypeOK' /\ editor'[e] = fields
         /\ \A d \in Editors \ {e} : editor'[d] = editor[d]
  BY DEF MastersTypeOK, Reads, Keep

LEMMA ReadKeeps ==
  ASSUME MastersInv, MastersTypeOK', Keep, NEW e \in Editors,
         \A d \in Editors \ {e} : editor'[d] = editor[d],
         Screen(e)',
         editor'[e].id \in TeacherIds => TeacherSeen(e)',
         editor'[e].id \in RoomIds => RoomSeen(e)',
         editor'[e].id \in StudentIds => StudentSeen(e)',
         \A r \in editor'[e].rooms : Known(room[r])
  PROVE  MastersInv'
<1>1. UNCHANGED <<teacher, room, pupil>>
  BY DEF Keep
<1>2. TeachersThere'
  BY <1>1 DEF MastersInv, TeachersThere
<1>3. RowsSeen'
  <2> SUFFICES ASSUME NEW d \in Editors, Screen(d)'
               PROVE  /\ editor'[d].id \in TeacherIds => TeacherSeen(d)'
                      /\ editor'[d].id \in RoomIds => RoomSeen(d)'
                      /\ editor'[d].id \in StudentIds => StudentSeen(d)'
                      /\ \A r \in editor'[d].rooms : Known(room[r])
    BY <1>1 DEF RowsSeen, Known
  <2>1. CASE d = e
    BY <2>1
  <2>2. CASE d # e
    <3>1. editor'[d] = editor[d] /\ Screen(d)
      BY <2>2 DEF Screen
    <3> QED
      BY <1>1, <3>1 DEF MastersInv, RowsSeen, TeacherSeen, RoomSeen, StudentSeen, RoomAsRead,
         StudentAsRead, RoomsOf, RoomsThere, ShownTeacher, Suspended
  <2> QED
    BY <2>1, <2>2
<1> QED
  BY <1>2, <1>3 DEF MastersInv

LEMMA ReadTeacherRowKeeps ==
  ASSUME MastersInv, NEW e \in Editors, NEW t \in TeacherIds, ReadTeacherRow(e, t)
  PROVE  MastersInv'
<1> DEFINE fields == [pc |-> "row", id |-> t, version |-> teacher[t].version,
                      name |-> teacher[t].name, rooms |-> {}, ref |-> Gone]
<1>1. teacher[t].there /\ teacher[t].version \in Nat /\ teacher[t].name \in Names
  BY RowFields DEF MastersInv, MastersTypeOK, TablesTypeOK, ReadTeacherRow
<1>2. fields \in Editor /\ Reads(e, fields) /\ Keep
  BY <1>1 DEF ReadTeacherRow, Editor
<1>3. /\ MastersTypeOK' /\ editor'[e] = fields
      /\ \A d \in Editors \ {e} : editor'[d] = editor[d]
  BY <1>2, EditorReads DEF MastersInv
<1>4. TeacherSeen(e)' /\ Screen(e)'
  BY <1>1, <1>2, <1>3 DEF TeacherSeen, Screen, Known, Keep
<1> QED
  BY <1>2, <1>3, <1>4, ReadKeeps, MastersConstants

LEMMA ReadTeacherRoomsKeeps ==
  ASSUME MastersInv, NEW e \in Editors, ReadTeacherRooms(e)
  PROVE  MastersInv'
<1> PICK i : i = editor[e].id
  OBVIOUS
<1> DEFINE fields == [editor[e] EXCEPT !.pc = "read", !.rooms = RoomsOf(i)]
<1>1. /\ fields \in Editor /\ fields.pc = "read" /\ fields.id = i
      /\ fields.version = editor[e].version /\ fields.name = editor[e].name
      /\ fields.rooms = RoomsOf(i) /\ fields.ref = editor[e].ref
  BY DEF MastersInv, MastersTypeOK, Editor, RoomsOf
<1>2. Reads(e, fields) /\ Keep
  BY DEF ReadTeacherRooms
<1> HIDE DEF fields
<1>3. /\ MastersTypeOK' /\ editor'[e] = fields
      /\ \A d \in Editors \ {e} : editor'[d] = editor[d]
  BY <1>1, <1>2, EditorReads DEF MastersInv
<1>4. UNCHANGED <<teacher, room, pupil>> /\ Screen(e)
  BY <1>2 DEF Keep, ReadTeacherRooms, Screen
<1>5. RoomsOf(i) = RoomsOf(i) \cap RoomsThere /\ \A r \in RoomsOf(i) : Known(room[r])
  BY DEF RoomsOf, RoomsThere, Known
<1>6. RoomsOf(i)' = RoomsOf(i) /\ RoomsThere' = RoomsThere
  BY <1>4 DEF RoomsOf, RoomsThere
<1>7. i \in TeacherIds => TeacherSeen(e)'
  BY <1>1, <1>3, <1>4, <1>5, <1>6 DEF MastersInv, RowsSeen, TeacherSeen
<1>8. i \in RoomIds => RoomSeen(e)'
  BY <1>1, <1>3, <1>4 DEF MastersInv, RowsSeen, RoomSeen, RoomAsRead, ShownTeacher, Suspended
<1>9. i \in StudentIds => StudentSeen(e)'
  BY <1>1, <1>3, <1>4 DEF MastersInv, RowsSeen, StudentSeen, StudentAsRead
<1>10. Screen(e)'
  BY <1>1, <1>3 DEF Screen
<1> QED
  BY <1>1, <1>2, <1>3, <1>5, <1>7, <1>8, <1>9, <1>10, ReadKeeps

LEMMA ReadRoomKeeps ==
  ASSUME MastersInv, NEW e \in Editors, NEW r \in RoomIds, ReadRoom(e, r)
  PROVE  MastersInv'
<1> DEFINE fields == [pc |-> "read", id |-> r, version |-> room[r].version,
                      name |-> room[r].name, rooms |-> {}, ref |-> ShownTeacher(r)]
<1>1. room[r].there /\ room[r].version \in Nat /\ room[r].name \in Names
      /\ ShownTeacher(r) \in TeacherIds \cup {Gone}
  BY RowFields DEF MastersInv, MastersTypeOK, TablesTypeOK, ReadRoom, ShownTeacher
<1>2. fields \in Editor /\ Reads(e, fields) /\ Keep
  BY <1>1 DEF ReadRoom, Editor
<1>3. /\ MastersTypeOK' /\ editor'[e] = fields
      /\ \A d \in Editors \ {e} : editor'[d] = editor[d]
  BY <1>2, EditorReads DEF MastersInv
<1>4. RoomSeen(e)' /\ Screen(e)'
  BY <1>1, <1>2, <1>3 DEF RoomSeen, RoomAsRead, ShownTeacher, Suspended, Screen, Known, Keep
<1> QED
  BY <1>2, <1>3, <1>4, ReadKeeps, MastersConstants

LEMMA ReadStudentKeeps ==
  ASSUME MastersInv, NEW e \in Editors, NEW p \in StudentIds, ReadStudent(e, p)
  PROVE  MastersInv'
<1> DEFINE fields == [pc |-> "read", id |-> p, version |-> pupil[p].version,
                      name |-> pupil[p].name, rooms |-> {}, ref |-> pupil[p].room]
<1>1. pupil[p].there /\ pupil[p].version \in Nat /\ pupil[p].name \in Names
      /\ pupil[p].room \in RoomIds \cup {Gone}
  BY RowFields DEF MastersInv, MastersTypeOK, TablesTypeOK, ReadStudent
<1>2. fields \in Editor /\ Reads(e, fields) /\ Keep
  BY <1>1 DEF ReadStudent, Editor
<1>3. /\ MastersTypeOK' /\ editor'[e] = fields
      /\ \A d \in Editors \ {e} : editor'[d] = editor[d]
  BY <1>2, EditorReads DEF MastersInv
<1>4. StudentSeen(e)' /\ Screen(e)'
  BY <1>1, <1>2, <1>3 DEF StudentSeen, StudentAsRead, Screen, Known, Keep
<1> QED
  BY <1>2, <1>3, <1>4, ReadKeeps, MastersConstants

-----------------------------------------------------------------------------
(* A save with a version makes its screen done. *)

LEMMA EditorSaved ==
  ASSUME MastersTypeOK, NEW e \in Editors, editor' = [editor EXCEPT ![e].pc = "saved"]
  PROVE  /\ editor' \in [Editors -> Editor] /\ editor'[e].pc = "saved"
         /\ \A d \in Editors \ {e} : editor'[d] = editor[d]
<1>1. [editor[e] EXCEPT !.pc = "saved"] \in Editor
      /\ [editor[e] EXCEPT !.pc = "saved"].pc = "saved"
  BY DEF MastersTypeOK, Editor
<1> QED
  BY <1>1 DEF MastersTypeOK

LEMMA Written ==
  ASSUME MastersTypeOK, Write
  PROVE  writes' \in Nat
  BY DEF MastersTypeOK, Write

LEMMA WriteKeeps ==
  ASSUME MastersInv, RowsOnward, Write,
         \/ UNCHANGED editor
         \/ \E e \in Editors : editor' = [editor EXCEPT ![e].pc = "saved"]
  PROVE  MastersInv'
<1>1. writes' \in Nat
  BY Written DEF MastersInv
<1>2. CASE UNCHANGED editor
  BY <1>1, <1>2, SeenStays DEF MastersInv, MastersTypeOK, RowsOnward, TablesTypeOK
<1>3. ASSUME NEW e \in Editors, editor' = [editor EXCEPT ![e].pc = "saved"]
      PROVE  MastersInv'
  <2>1. /\ editor' \in [Editors -> Editor]
        /\ \A d \in Editors : editor'[d] = editor[d] \/ editor'[d].pc = "saved"
    BY <1>3, EditorSaved DEF MastersInv
  <2> QED
    BY <1>1, <2>1, SeenStays DEF MastersInv, MastersTypeOK, RowsOnward, TablesTypeOK
<1> QED
  BY <1>2, <1>3

LEMMA Tables == MastersInv => TablesTypeOK /\ TeachersThere
  BY DEF MastersInv, MastersTypeOK, TablesTypeOK

LEMMA EditTeachersKeeps ==
  ASSUME MastersInv, EditTeachers
  PROVE  MastersInv'
<1>1. TablesTypeOK /\ TeachersThere
  BY Tables
<1>2. ASSUME NEW t \in TeacherIds, NEW name \in Names, NEW rooms \in SUBSET RoomIds,
             CreateTeacher(t, name, rooms) \/ PutTeacher(t, name, rooms)
      PROVE  MastersInv'
  <2>1. RowsOnward
    BY <1>1, <1>2, CreateTeacherOnward, WriteTeacherOnward DEF PutTeacher
  <2> QED
    BY <1>2, <2>1, WriteKeeps DEF CreateTeacher, PutTeacher
<1>3. ASSUME NEW e \in Editors, NEW name \in Names, NEW rooms \in SUBSET RoomIds,
             SaveTeacher(e, name, rooms)
      PROVE  MastersInv'
  <2>1. RowsOnward
    BY <1>1, <1>3, WriteTeacherOnward DEF SaveTeacher, TeacherUnchanged
  <2> QED
    BY <1>3, <2>1, WriteKeeps DEF SaveTeacher
<1>4. ASSUME NEW ts \in SUBSET TeacherIds, NEW name \in Names, ImportTeachers(ts, name)
      PROVE  MastersInv'
  <2>1. RowsOnward
    BY <1>1, <1>4, ImportTeachersOnward
  <2> QED
    BY <1>4, <2>1, WriteKeeps DEF ImportTeachers
<1>5. ASSUME NEW t \in TeacherIds, DeleteTeacherRow(t)
      PROVE  MastersInv'
  <2>1. RowsOnward
    BY <1>1, <1>5, DeleteTeacherRowOnward
  <2> QED
    BY <1>5, <2>1, WriteKeeps DEF DeleteTeacherRow
<1>6. ASSUME NEW t \in TeacherIds, NEW live \in BOOLEAN, SetTeacherLive(t, live)
      PROVE  MastersInv'
  <2>1. RowsOnward
    BY <1>1, <1>6, SetTeacherLiveOnward
  <2> QED
    BY <1>6, <2>1, WriteKeeps DEF SetTeacherLive
<1>7. ASSUME NEW t \in TeacherIds, NEW name \in Names, RenameTeacher(t, name)
      PROVE  MastersInv'
  <2>1. RowsOnward
    BY <1>1, <1>7, RenameTeacherOnward
  <2> QED
    BY <1>7, <2>1, WriteKeeps DEF RenameTeacher
<1> QED
  BY <1>2, <1>3, <1>4, <1>5, <1>6, <1>7, ReadTeacherRowKeeps, ReadTeacherRoomsKeeps
     DEF EditTeachers

LEMMA EditRoomsKeeps ==
  ASSUME MastersInv, EditRooms
  PROVE  MastersInv'
<1>1. TablesTypeOK /\ TeachersThere
  BY Tables
<1>2. ASSUME NEW r \in RoomIds, NEW name \in Names, NEW t \in TeacherIds \cup {Gone},
             CreateRoom(r, name, t) \/ PutRoom(r, name, t)
      PROVE  MastersInv'
  <2>1. RowsOnward
    BY <1>1, <1>2, CreateRoomOnward, WriteRoomOnward DEF PutRoom
  <2> QED
    BY <1>2, <2>1, WriteKeeps DEF CreateRoom, PutRoom
<1>3. ASSUME NEW e \in Editors, NEW name \in Names, NEW t \in TeacherIds \cup {Gone},
             SaveRoom(e, name, t)
      PROVE  MastersInv'
  <2>1. RowsOnward
    BY <1>1, <1>3, WriteRoomOnward DEF SaveRoom, RoomUnchanged
  <2> QED
    BY <1>3, <2>1, WriteKeeps DEF SaveRoom
<1>4. ASSUME NEW rs \in SUBSET RoomIds, NEW name \in Names, ImportRooms(rs, name)
      PROVE  MastersInv'
  <2>1. RowsOnward
    BY <1>1, <1>4, ImportRoomsOnward
  <2> QED
    BY <1>4, <2>1, WriteKeeps DEF ImportRooms
<1>5. ASSUME NEW r \in RoomIds, DeleteRoom(r)
      PROVE  MastersInv'
  <2>1. RowsOnward
    BY <1>1, <1>5, DeleteRoomOnward
  <2> QED
    BY <1>5, <2>1, WriteKeeps DEF DeleteRoom
<1>6. ASSUME NEW rooms \in SUBSET RoomIds, RegroupRooms(rooms)
      PROVE  MastersInv'
  <2>1. RowsOnward
    BY <1>1, <1>6, RegroupRoomsOnward
  <2> QED
    BY <1>6, <2>1, WriteKeeps DEF RegroupRooms
<1> QED
  BY <1>2, <1>3, <1>4, <1>5, <1>6, ReadRoomKeeps DEF EditRooms

LEMMA EditStudentsKeeps ==
  ASSUME MastersInv, EditStudents
  PROVE  MastersInv'
<1>1. TablesTypeOK /\ TeachersThere
  BY Tables
<1>2. ASSUME NEW p \in StudentIds, NEW name \in Names, NEW r \in RoomIds \cup {Gone},
             CreateStudent(p, name, r) \/ PutStudent(p, name, r)
      PROVE  MastersInv'
  <2>1. RowsOnward
    BY <1>1, <1>2, CreateStudentOnward, WriteStudentOnward DEF PutStudent
  <2> QED
    BY <1>2, <2>1, WriteKeeps DEF CreateStudent, PutStudent
<1>3. ASSUME NEW e \in Editors, NEW name \in Names, NEW r \in RoomIds \cup {Gone},
             SaveStudent(e, name, r)
      PROVE  MastersInv'
  <2>1. RowsOnward
    BY <1>1, <1>3, WriteStudentOnward DEF SaveStudent
  <2> QED
    BY <1>3, <2>1, WriteKeeps DEF SaveStudent
<1>4. ASSUME NEW p \in StudentIds, NEW r \in RoomIds \cup {Gone}, PatchStudent(p, r)
      PROVE  MastersInv'
  <2>1. RowsOnward
    BY <1>1, <1>4, PatchStudentOnward
  <2> QED
    BY <1>4, <2>1, WriteKeeps DEF PatchStudent
<1>5. ASSUME NEW ps \in SUBSET StudentIds, NEW name \in Names, NEW r \in RoomIds,
             ImportStudents(ps, name, r)
      PROVE  MastersInv'
  <2>1. RowsOnward
    BY <1>1, <1>5, ImportStudentsOnward
  <2> QED
    BY <1>5, <2>1, WriteKeeps DEF ImportStudents
<1>6. ASSUME NEW p \in StudentIds, AnonymizeStudentRow(p)
      PROVE  MastersInv'
  <2>1. RowsOnward
    BY <1>1, <1>6, AnonymizeStudentOnward
  <2> QED
    BY <1>6, <2>1, WriteKeeps DEF AnonymizeStudentRow
<1>7. ASSUME NEW p \in StudentIds, NEW name \in Names, RenameStudent(p, name)
      PROVE  MastersInv'
  <2>1. RowsOnward
    BY <1>1, <1>7, RenameStudentOnward
  <2> QED
    BY <1>7, <2>1, WriteKeeps DEF RenameStudent
<1> QED
  BY <1>2, <1>3, <1>4, <1>5, <1>6, <1>7, ReadStudentKeeps DEF EditStudents

-----------------------------------------------------------------------------
(* The theorems *)

LEMMA MastersInitially == MastersInit => MastersInv
<1> SUFFICES ASSUME MastersInit
             PROVE  MastersInv
  OBVIOUS
<1>1. PICK name \in Names, first \in {Gone} \cup (FirstRows \cap TeacherIds) :
        /\ teacher = [t \in TeacherIds |->
                        [there |-> t \in FirstRows, name |-> name, live |-> TRUE, version |-> 0]]
        /\ room = [r \in RoomIds |->
                     [there |-> r \in FirstRows, name |-> name,
                      teacher |-> IF r \in FirstRows THEN first ELSE Gone, version |-> 0]]
        /\ pupil = [p \in StudentIds |->
                      [there |-> p \in FirstRows, name |-> name, room |-> Gone, version |-> 0]]
        /\ editor = [e \in Editors |-> [pc |-> "idle", id |-> Gone, version |-> 0,
                                        name |-> name, rooms |-> {}, ref |-> Gone]]
        /\ writes = 0
  BY DEF MastersInit
<1>2. teacher \in [TeacherIds -> Teacher] /\ room \in [RoomIds -> Room]
      /\ pupil \in [StudentIds -> Pupil]
  <2>1. \A t \in TeacherIds :
          [there |-> t \in FirstRows, name |-> name, live |-> TRUE, version |-> 0] \in Teacher
    BY DEF Teacher
  <2>2. \A r \in RoomIds :
          [there |-> r \in FirstRows, name |-> name,
           teacher |-> IF r \in FirstRows THEN first ELSE Gone, version |-> 0] \in Room
    BY DEF Room
  <2>3. \A p \in StudentIds :
          [there |-> p \in FirstRows, name |-> name, room |-> Gone, version |-> 0] \in Pupil
    BY DEF Pupil
  <2> QED
    BY <1>1, <2>1, <2>2, <2>3
<1>3. editor \in [Editors -> Editor] /\ \A e \in Editors : editor[e].pc = "idle"
  BY <1>1 DEF Editor
<1>4. TeachersThere
  BY <1>1 DEF TeachersThere
<1>5. RowsSeen
  BY <1>3 DEF RowsSeen, Screen
<1> QED
  BY <1>1, <1>2, <1>3, <1>4, <1>5 DEF MastersInv, MastersTypeOK

LEMMA MastersStep == MastersInv /\ [MastersNext]_mastersVars => MastersInv'
<1> SUFFICES ASSUME MastersInv, [MastersNext]_mastersVars
             PROVE  MastersInv'
  OBVIOUS
<1>1. CASE UNCHANGED mastersVars
  BY <1>1 DEF mastersVars, MastersInv, MastersTypeOK, RowsSeen, TeachersThere, Screen, TeacherSeen,
     RoomSeen, StudentSeen, RoomAsRead, StudentAsRead, RoomsOf, RoomsThere, ShownTeacher, Suspended
<1> QED
  BY <1>1, EditTeachersKeeps, EditRoomsKeeps, EditStudentsKeeps DEF MastersNext

(* A PUT that does not name the teacher of a room leaves a suspended one.      *)
LEMMA SuspendedStays ==
  ASSUME MastersInv, NEW e \in Editors, NEW name \in Names, NEW t \in TeacherIds \cup {Gone},
         SaveRoom(e, name, t), RoomAsRead(e)
  PROVE  HiddenTeacherKept(e)
<1> PICK r : r = editor[e].id
  OBVIOUS
<1> DEFINE next == EffectiveTeacher(r, t)
<1>1. r \in RoomIds /\ WriteRoom(r, name, t)
  BY DEF SaveRoom
<1>2. room'[r].teacher = next
  <2>1. /\ room[r] \in Room
        /\ room' = [room EXCEPT ![r] = [room[r] EXCEPT !.name = name, !.teacher = next,
                                                      !.version = room[r].version + 1]]
    BY <1>1 DEF WriteRoom, MastersInv, MastersTypeOK
  <2> QED
    BY <1>1, <2>1 DEF Room, MastersInv, MastersTypeOK
<1>3. CASE Suspended(room[r].teacher)
  <2>1. next # Gone
    BY <1>3, MastersConstants DEF EffectiveTeacher, Suspended
  <2> QED
    BY <1>2, <2>1 DEF HiddenTeacherKept
<1>4. CASE ~Suspended(room[r].teacher)
  BY <1>4 DEF HiddenTeacherKept, RoomAsRead, ShownTeacher
<1> QED
  BY <1>3, <1>4

(* Only a save with a version ends a screen as saved. *)
LEMMA SavesAreSaves ==
  ASSUME MastersInv, MastersNext, NEW e \in Editors, editor[e].pc = "read", editor'[e].pc = "saved"
  PROVE  \/ \E name \in Names, rooms \in SUBSET RoomIds : SaveTeacher(e, name, rooms)
         \/ \E name \in Names, t \in TeacherIds \cup {Gone} : SaveRoom(e, name, t)
         \/ \E name \in Names, r \in RoomIds \cup {Gone} : SaveStudent(e, name, r)
<1>1. ASSUME UNCHANGED editor
      PROVE  FALSE
  BY <1>1
<1>2. ASSUME NEW d \in Editors, d # e, editor' = [editor EXCEPT ![d].pc = "saved"]
      PROVE  FALSE
  BY <1>2
<1>3. ASSUME NEW d \in Editors, NEW fields, Reads(d, fields), fields.pc # "saved"
      PROVE  FALSE
  BY <1>3 DEF Reads, MastersInv, MastersTypeOK
<1>4. ASSUME NEW d \in Editors
      PROVE  /\ ~ReadTeacherRooms(d)
             /\ \A t \in TeacherIds : ~ReadTeacherRow(d, t)
             /\ \A r \in RoomIds : ~ReadRoom(d, r)
             /\ \A p \in StudentIds : ~ReadStudent(d, p)
  <2>1. editor[d] \in Editor
    BY DEF MastersInv, MastersTypeOK
  <2>2. [editor[d] EXCEPT !.pc = "read", !.rooms = RoomsOf(editor[d].id)].pc = "read"
    BY <2>1 DEF Editor
  <2> QED
    BY <1>3, <2>2 DEF ReadTeacherRooms, ReadTeacherRow, ReadRoom, ReadStudent
<1>5. CASE EditTeachers
  BY <1>1, <1>2, <1>4, <1>5 DEF EditTeachers, CreateTeacher, PutTeacher, SaveTeacher,
     ImportTeachers, DeleteTeacherRow, SetTeacherLive, RenameTeacher
<1>6. CASE EditRooms
  BY <1>1, <1>2, <1>4, <1>6 DEF EditRooms, CreateRoom, PutRoom, SaveRoom, ImportRooms, DeleteRoom,
     RegroupRooms
<1>7. CASE EditStudents
  BY <1>1, <1>2, <1>4, <1>7 DEF EditStudents, CreateStudent, PutStudent, SaveStudent, PatchStudent,
     ImportStudents, AnonymizeStudentRow, RenameStudent
<1> QED
  BY <1>5, <1>6, <1>7 DEF MastersNext

(* Rows and editors are well typed. *)
THEOREM MastersTyped == MastersSpec => []MastersTypeOK
<1>1. MastersInv => MastersTypeOK
  BY DEF MastersInv
<1> QED
  BY <1>1, MastersInitially, MastersStep, PTL DEF MastersSpec

(* A save that is accepted finds what its editor was shown, though rooms are   *)
(* given away through other teachers, teachers through rooms, and suspensions   *)
(* hide them meanwhile; and it takes nothing away its editor was not shown     *)
(* (bumpTeachersStatement, updateLiveActive and the guarded batches).          *)
THEOREM MastersSaved == MastersSpec => MastersSavedAsRead
<1>1. ASSUME MastersInv, [MastersNext]_mastersVars, NEW e \in Editors
      PROVE  /\ Saves(e, TeacherIds) => TeacherAsRead(e)
             /\ Saves(e, RoomIds) => RoomAsRead(e) /\ HiddenTeacherKept(e)
             /\ Saves(e, StudentIds) => StudentAsRead(e)
  <2> SUFFICES ASSUME editor[e].pc = "read", editor'[e].pc = "saved"
               PROVE  /\ editor[e].id \in TeacherIds => TeacherAsRead(e)
                      /\ editor[e].id \in RoomIds => RoomAsRead(e) /\ HiddenTeacherKept(e)
                      /\ editor[e].id \in StudentIds => StudentAsRead(e)
    BY DEF Saves
  <2>1. MastersNext
    BY <1>1 DEF mastersVars
  <2>2. Screen(e)
    BY DEF Screen
  <2>3. ASSUME NEW name \in Names, NEW rooms \in SUBSET RoomIds, SaveTeacher(e, name, rooms)
        PROVE  editor[e].id \in TeacherIds /\ TeacherAsRead(e)
    BY <1>1, <2>2, <2>3 DEF SaveTeacher, TeacherUnchanged, MastersInv, RowsSeen, TeacherSeen,
       TeacherAsRead
  <2>4. ASSUME NEW name \in Names, NEW t \in TeacherIds \cup {Gone}, SaveRoom(e, name, t)
        PROVE  editor[e].id \in RoomIds /\ RoomAsRead(e) /\ HiddenTeacherKept(e)
    <3>1. editor[e].id \in RoomIds /\ RoomAsRead(e)
      BY <1>1, <2>2, <2>4 DEF SaveRoom, RoomUnchanged, MastersInv, RowsSeen, RoomSeen
    <3> QED
      BY <1>1, <2>4, <3>1, SuspendedStays
  <2>5. ASSUME NEW name \in Names, NEW r \in RoomIds \cup {Gone}, SaveStudent(e, name, r)
        PROVE  editor[e].id \in StudentIds /\ StudentAsRead(e)
    BY <1>1, <2>2, <2>5 DEF SaveStudent, StudentUnchanged, MastersInv, RowsSeen, StudentSeen
  <2> QED
    BY <1>1, <2>1, <2>3, <2>4, <2>5, SavesAreSaves, MastersConstants
<1>2. MastersInv /\ [MastersNext]_mastersVars =>
        [\A e \in Editors :
           /\ Saves(e, TeacherIds) => TeacherAsRead(e)
           /\ Saves(e, RoomIds) => RoomAsRead(e) /\ HiddenTeacherKept(e)
           /\ Saves(e, StudentIds) => StudentAsRead(e)]_mastersVars
  BY <1>1
<1> QED
  BY <1>2, MastersInitially, MastersStep, PTL DEF MastersSpec, MastersSavedAsRead
==============================================================================
