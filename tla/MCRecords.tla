------------------------------ MODULE MCRecords ------------------------------
(***************************************************************************)
(* Instances for TLC of the parts that share no variables with each other:    *)
(* the initial state picks the part that is looked at, and every step is one  *)
(* of its.  Values come from the .cfg file.                                 *)
(***************************************************************************)
EXTENDS SignInStates, MastersProps, MasterImport, Teams, GroupMembers, Places,
        NotificationViews, FcmClient, TLC

CONSTANTS FirstName, venue, spot, image1, image2, image3, image4

VARIABLE part

Parts == {"signIn", "masters", "import", "teams", "members", "places", "views",
          "history", "fcm"}

PathDef == image1 :> venue @@ image2 :> venue @@ image3 :> spot @@ image4 :> venue

(* Two pages of the admin list, one of them filtered, whose dates end within    *)
(* the second in which everything is sent. *)
Listing ==
  [from |-> 1, to |-> 3, filterFrom |-> 0, filterTo |-> 9, status |-> "any", page |-> 1,
   limit |-> 2, method |-> "any", sortBy |-> "none", desc |-> FALSE, matches |-> NoteIds]
ListingsDef ==
  {[Listing EXCEPT !.sortBy = "sendAt"],
   [Listing EXCEPT !.to = 2, !.status = "sending", !.method = "manual", !.limit = 1]}
HistoryPagesDef == {[limit |-> 1, offset |-> 1], [limit |-> 2, offset |-> 0]}

(* The requests of an admin and of a participant only read the tables: each is  *)
(* looked at apart from the other. *)
signInPart == <<signInVars, part>>
mastersPart == <<mastersVars, importVars>>
teamsPart == <<teamsVars, groupVars>>
placesPart == <<placesVars, viewsVars, fcmVars>>
recordsVars == <<signInPart, mastersPart, teamsPart, placesPart>>

(* A part that is not looked at starts in one way only, and which of the names  *)
(* the rows have makes no difference. *)
OneStart ==
  /\ \A r \in RoomIds : room[r].name = FirstName /\ (part # "masters" => room[r].teacher = Gone)
  /\ part # "import" => imports = "students"

RecordsInit ==
  /\ part \in Parts
  /\ SignInInit /\ MastersInit /\ ImportInit /\ TeamsInit /\ GroupInit
  /\ PlacesInit /\ ViewsInit /\ FcmInit
  /\ OneStart

RecordsNext ==
  \/ /\ part = "signIn" /\ SignInNext
     /\ UNCHANGED <<part, mastersPart, teamsPart, placesPart>>
  \/ /\ part = "masters" /\ MastersNext
     /\ UNCHANGED <<signInPart, importVars, teamsPart, placesPart>>
  \/ /\ part = "import" /\ ImportNext
     /\ UNCHANGED <<signInPart, mastersVars, teamsPart, placesPart>>
  \/ /\ part = "teams" /\ TeamsNext
     /\ UNCHANGED <<signInPart, mastersPart, groupVars, placesPart>>
  \/ /\ part = "members" /\ GroupNext
     /\ UNCHANGED <<signInPart, mastersPart, teamsVars, placesPart>>
  \/ /\ part = "places" /\ PlacesNext
     /\ UNCHANGED <<signInPart, mastersPart, teamsPart, viewsVars, fcmVars>>
  \/ /\ part = "views" /\ (WriteNotices \/ ReadLists)
     /\ UNCHANGED <<signInPart, mastersPart, teamsPart, placesVars, fcmVars>>
  \/ /\ part = "history" /\ (WriteNotices \/ ReadHistories)
     /\ UNCHANGED <<signInPart, mastersPart, teamsPart, placesVars, fcmVars>>
  \/ /\ part = "fcm" /\ FcmNext
     /\ UNCHANGED <<signInPart, mastersPart, teamsPart, placesVars, viewsVars>>

RecordsSpec == RecordsInit /\ [][RecordsNext]_recordsVars
=============================================================================
