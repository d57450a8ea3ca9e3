------------------------------ MODULE MCAccounts ------------------------------
(* An instance of Accounts for TLC; the sets come from the .cfg file.       *)
EXTENDS AccountsProps, TLC

CONSTANTS student, teacher, newcomer, aStudent, aTeacher, aNewcomer, aOther, aStranger

(* A student and a teacher, both staff, with their Microsoft accounts linked; *)
(* a teacher who has never signed in; a second account that names the first   *)
(* teacher, and one that names nobody.                                      *)
OwnerDef ==
  aStudent :> student @@ aTeacher :> teacher @@ aNewcomer :> newcomer
    @@ aOther :> teacher @@ aStranger :> Nobody
LinkDef ==
  aStudent :> student @@ aTeacher :> teacher @@ aNewcomer :> Nobody
    @@ aOther :> Nobody @@ aStranger :> Nobody
(* The student is signed in, with a device, and may have confirmed a deletion. *)
KeysDef ==
  [k \in Sessions \cup Devices \cup Markers |->
     IF k \in OneOf(Sessions) \cup Devices \cup Markers THEN student ELSE Nobody]
=============================================================================
