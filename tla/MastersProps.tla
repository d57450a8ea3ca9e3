----------------------------- MODULE MastersProps -----------------------------
(***************************************************************************)
(* Optimistic locking of the master data: a save with a lock_version writes  *)
(* over nothing its editor has not seen.                                    *)
(***************************************************************************)
EXTENDS Masters

(* Rows and editors are well typed. *)
MastersTypeOK ==
  /\ teacher \in [TeacherIds -> Teacher]
  /\ room \in [RoomIds -> Room]
  /\ pupil \in [StudentIds -> Pupil]
  /\ editor \in [Editors -> Editor]
  /\ writes \in Nat

Saves(e, ids) == editor[e].pc = "read" /\ editor'[e].pc = "saved" /\ editor[e].id \in ids

(* The version of a teacher stands for the name and the rooms, though the     *)
(* rooms are read by a query of their own; a deleted room makes no difference. *)
TeacherAsRead(e) ==
  LET t == editor[e].id IN
  teacher[t].name = editor[e].name /\ RoomsOf(t) = editor[e].rooms \cap RoomsThere

(* That of a room stands for its name and the teacher it shows. *)
RoomAsRead(e) ==
  LET r == editor[e].id IN
  room[r].name = editor[e].name /\ ShownTeacher(r) = editor[e].ref

(* A room loses a teacher to nobody only if its editor was shown that teacher: *)
(* a suspended one stays, even if restored meanwhile. *)
HiddenTeacherKept(e) ==
  LET r == editor[e].id IN
  room[r].teacher \in {Gone, editor[e].ref} \/ room'[r].teacher # Gone

(* That of a student stands for the name; a PATCH moves a student to another   *)
(* room without counting it on (see README). *)
StudentAsRead(e) == pupil[editor[e].id].name = editor[e].name

(* A save that is accepted finds what its editor was shown, though rooms are   *)
(* given away through other teachers, teachers through rooms, and suspensions  *)
(* hide them meanwhile; and it takes nothing away its editor was not shown.    *)
MastersSavedAsRead ==
  [][\A e \in Editors :
       /\ Saves(e, TeacherIds) => TeacherAsRead(e)
       /\ Saves(e, RoomIds) => RoomAsRead(e) /\ HiddenTeacherKept(e)
       /\ Saves(e, StudentIds) => StudentAsRead(e)
    ]_mastersVars
==============================================================================
