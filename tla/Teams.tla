-------------------------------- MODULE Teams --------------------------------
(***************************************************************************)
(* Teams of class rooms and their scores.  Every room is in a team, its own  *)
(* provisional one if in no other; a team that is left without rooms and     *)
(* without a score is cleaned up by whoever took its last room.  A request   *)
(* reads which teams it takes rooms from before it takes them.               *)
(***************************************************************************)
EXTENDS Integers, FiniteSets

CONSTANTS
  TeamIds,     \* ids of teams, never used again
  Classes,     \* class rooms
  FirstClasses, \* the rooms that are there at the start
  Titles,      \* names admins give
  Deleting,    \* the temporary name of a team being deleted
  Admins,      \* concurrent requests
  NoTeam,      \* no team, no room
  MaxScore,    \* bound: scores are 0 to this
  MaxAsks      \* bound: requests made

(* A team named after a room is that room's provisional team. *)
TeamNames == Titles \cup Classes \cup {Deleting}

ASSUME TeamsConstants ==
  /\ FirstClasses \subseteq Classes
  /\ NoTeam \notin TeamIds \cup Classes
  /\ Deleting \notin Titles \cup Classes /\ Titles \cap Classes = {}
  /\ \E f \in [FirstClasses -> TeamIds] : \A r, q \in FirstClasses : f[r] = f[q] => r = q
  /\ MaxScore \in Nat /\ MaxAsks \in Nat

VARIABLES
  squad,    \* teams LEFT JOIN team_scores: state, name, scores
  inTeam,   \* class_rooms.team_id
  teamReq,  \* the requests
  asks      \* how many were made

teamsVars == <<squad, inTeam, teamReq, asks>>

NoReqT == [pc |-> "idle", team |-> NoTeam, title |-> Deleting, rooms |-> {}, out |-> {}, from |-> {}]

TeamsThere == {t \in TeamIds : squad[t].state = "there"}
NewTeams == {t \in TeamIds : squad[t].state = "new"}
NewTeamId == IF NewTeams = {} THEN {} ELSE {CHOOSE t \in NewTeams : TRUE}
ClassesOf(t) == {r \in Classes : inTeam[r] = t}
RoomsHere == {r \in Classes : inTeam[r] # NoTeam}
NameFree(s, name) == \A t \in TeamIds : s[t].state = "there" => s[t].name # name
Add(s, t, name) == [s EXCEPT ![t] = [state |-> "there", name |-> name, score |-> 0]]
Goes(a, fields) == teamReq' = [teamReq EXCEPT ![a] = fields] /\ UNCHANGED asks
Ask(a, fields) ==
  /\ asks < MaxAsks /\ asks' = asks + 1
  /\ teamReq[a] = NoReqT
  /\ teamReq' = [teamReq EXCEPT ![a] = fields]
Reply(a) == Goes(a, NoReqT)

(* buildCleanupEmptyTeamStatements: a score row of 0 goes first. *)
CleanedUp(s, where, teams) ==
  [t \in TeamIds |->
     IF t \in teams /\ s[t].state = "there" /\ s[t].score = 0 /\ \A r \in Classes : where[r] # t
       THEN [s[t] EXCEPT !.state = "gone"] ELSE s[t]]

Moved(rooms, t) == [r \in Classes |-> IF r \in rooms THEN t ELSE inTeam[r]]

(* assertClassCodesAssignable: a room is taken from a team of its own only. *)
Assignable(rooms, t) ==
  /\ rooms \subseteq RoomsHere
  /\ \A r \in rooms : inTeam[r] = t \/ Cardinality(ClassesOf(inTeam[r])) = 1

(* TeamService.createTeam: which teams the rooms are in, and then the batch. *)
AskCreate(a, name, rooms) ==
  /\ Ask(a, [NoReqT EXCEPT !.pc = "create", !.title = name, !.rooms = rooms,
                           !.from = {inTeam[r] : r \in rooms}])
  /\ Assignable(rooms, NoTeam)
  /\ UNCHANGED <<squad, inTeam>>

CreateTeam(a, t) ==
  /\ teamReq[a].pc = "create" /\ t \in NewTeamId
  /\ LET q == teamReq[a]  where == Moved(q.rooms \cap RoomsHere, t) IN
       IF NameFree(squad, q.title)
         THEN inTeam' = where /\ squad' = CleanedUp(Add(squad, t, q.title), where, q.from)
         ELSE UNCHANGED <<squad, inTeam>>
  /\ Reply(a)

(* TeamService.updateTeam: the name, *)
RenameTeam(a, t, name, rooms) ==
  /\ Ask(a, [NoReqT EXCEPT !.pc = "current", !.team = t, !.rooms = rooms])
  /\ t \in TeamsThere /\ Assignable(rooms, t)
  /\ NameFree([squad EXCEPT ![t].state = "gone"], name)
  /\ squad' = [squad EXCEPT ![t].name = name]
  /\ UNCHANGED inTeam

(* the rooms to let go, *)
ReadCurrent(a) ==
  /\ teamReq[a].pc = "current"
  /\ Goes(a, [teamReq[a] EXCEPT !.pc = "detach",
                                !.out = ClassesOf(teamReq[a].team) \ teamReq[a].rooms])
  /\ UNCHANGED <<squad, inTeam>>

(* each of them into a provisional team, wherever it is by now, *)
Detach(a, r, t) ==
  /\ teamReq[a].pc = "detach" /\ r \in teamReq[a].out /\ t \in NewTeamId
  /\ IF NameFree(squad, r)
       THEN /\ squad' = Add(squad, t, r)
            /\ inTeam' = Moved({r} \cap RoomsHere, t)
            /\ Goes(a, [teamReq[a] EXCEPT !.out = @ \ {r}])
       ELSE Reply(a) /\ UNCHANGED <<squad, inTeam>>

(* and the rooms it gets.  A team that is gone fails the foreign key. *)
ReadPrevious(a) ==
  /\ teamReq[a].pc = "detach" /\ teamReq[a].out = {}
  /\ Goes(a, [teamReq[a] EXCEPT !.pc = "attach",
               !.from = {inTeam[r] : r \in teamReq[a].rooms} \ {NoTeam, teamReq[a].team}])
  /\ UNCHANGED <<squad, inTeam>>

Attach(a) ==
  /\ teamReq[a].pc = "attach"
  /\ LET q == teamReq[a]  where == Moved(q.rooms \cap RoomsHere, q.team) IN
       IF q.team \in TeamsThere
         THEN inTeam' = where /\ squad' = CleanedUp(squad, where, q.from)
         ELSE UNCHANGED <<squad, inTeam>>
  /\ Reply(a)

(* A new team for each room. *)
Provisional(rooms) ==
  LET all == {own \in [rooms -> NewTeams] : \A r, q \in rooms : own[r] = own[q] => r = q}
  IN IF all = {} THEN {} ELSE {CHOOSE own \in all : TRUE}

(* Mutant: the score is looked at in an earlier query only. *)
AnyScore(t) == TRUE
Unscored(t) == squad[t].score = 0

(* TeamRepository.delete: one batch.  Its rooms go back to provisional teams. *)
DeleteTeam(t) ==
  /\ t \in TeamsThere /\ Unscored(t)
  /\ LET rooms == ClassesOf(t)
         renamed == [squad EXCEPT ![t].name = Deleting]
     IN \E own \in Provisional(rooms) :
          /\ \A r \in rooms : NameFree(renamed, r)
          /\ inTeam' = [r \in Classes |-> IF r \in rooms THEN own[r] ELSE inTeam[r]]
          /\ squad' = CleanedUp(
                        [u \in TeamIds |->
                           IF \E r \in rooms : own[r] = u
                             THEN [state |-> "there", name |-> CHOOSE r \in rooms : own[r] = u, score |-> 0]
                             ELSE renamed[u]],
                        inTeam', {t})
  /\ UNCHANGED <<teamReq, asks>>

(* RankingService.addScore *)
AddScore(t, points) ==
  /\ t \in TeamsThere
  /\ squad[t].score + points \in 0 .. MaxScore
  /\ squad' = [squad EXCEPT ![t].score = @ + points]
  /\ UNCHANGED <<inTeam, teamReq, asks>>

-----------------------------------------------------------------------------
(* From the side of the rooms (ClassRoomService) *)

(* ClassRoomRepository.create: in a team, or in a provisional one. *)
CreateClassIn(r, t) ==
  /\ inTeam[r] = NoTeam /\ t \in TeamsThere
  /\ inTeam' = [inTeam EXCEPT ![r] = t]
  /\ UNCHANGED <<squad, teamReq, asks>>

InsertClass(r, t) ==
  /\ inTeam[r] = NoTeam /\ t \in NewTeamId /\ NameFree(squad, r)
  /\ squad' = Add(squad, t, r)
  /\ inTeam' = [inTeam EXCEPT ![r] = t]

CreateClassAlone(r, t) == InsertClass(r, t) /\ UNCHANGED <<teamReq, asks>>

(* createMany, of an import: one chunk after the other, here of one room. *)
AskImport(a) ==
  /\ Ask(a, [NoReqT EXCEPT !.pc = "import"])
  /\ UNCHANGED <<squad, inTeam>>

ImportClass(a, r, t) ==
  /\ teamReq[a].pc = "import"
  /\ InsertClass(r, t)
  /\ Goes(a, [teamReq[a] EXCEPT !.rooms = @ \cup {r}])

(* deleteClassRoomsAndTeamsByInputs, if a later chunk fails: the rooms by their *)
(* codes, and then the teams by the rooms' names, whosever they are by now.     *)
TakeBackClasses(a) ==
  /\ teamReq[a].pc = "import" /\ teamReq[a].rooms # {}
  /\ inTeam' = Moved(teamReq[a].rooms, NoTeam)
  /\ Goes(a, [teamReq[a] EXCEPT !.pc = "undo"])
  /\ UNCHANGED squad

NamedAfter(rooms) == {t \in TeamsThere : squad[t].name \in rooms}

(* The foreign keys of class_rooms and team_scores. *)
Unreferenced(t) == squad[t].score = 0 /\ ClassesOf(t) = {}

TakeBackTeams(a) ==
  LET teams == NamedAfter(teamReq[a].rooms) IN
  /\ teamReq[a].pc = "undo"
  /\ \A t \in teams : Unreferenced(t)
  /\ squad' = [t \in TeamIds |-> IF t \in teams THEN [squad[t] EXCEPT !.state = "gone"] ELSE squad[t]]
  /\ Reply(a)
  /\ UNCHANGED inTeam

(* All is imported, or a foreign key or a failure ends the taking back. *)
ImportEnds(a) ==
  /\ teamReq[a].pc \in {"import", "undo"}
  /\ Reply(a)
  /\ UNCHANGED <<squad, inTeam>>

(* updateClassRoom, deleteClassRoom: the team is read first. *)
ReadClassTeam(a, r, t) ==
  /\ r \in RoomsHere /\ t \in TeamsThere \cup {NoTeam}
  /\ Ask(a, [NoReqT EXCEPT !.pc = "move", !.team = t, !.rooms = {r}, !.from = {inTeam[r]}])
  /\ UNCHANGED <<squad, inTeam>>

MoveClass(a) ==
  /\ teamReq[a].pc = "move"
  /\ LET q == teamReq[a]  where == Moved(q.rooms \cap RoomsHere, q.team) IN
       IF q.team \in TeamsThere \cup {NoTeam}
         THEN inTeam' = where /\ squad' = CleanedUp(squad, where, q.from)
         ELSE UNCHANGED <<squad, inTeam>>
  /\ Reply(a)

TeamsInit ==
  /\ LET team == CHOOSE f \in [FirstClasses -> TeamIds] :
                     \A r, q \in FirstClasses : f[r] = f[q] => r = q
     IN
       /\ inTeam = [r \in Classes |-> IF r \in FirstClasses THEN team[r] ELSE NoTeam]
       /\ squad = [t \in TeamIds |->
                     IF \E r \in FirstClasses : team[r] = t
                       THEN [state |-> "there", name |-> CHOOSE r \in FirstClasses : team[r] = t,
                             score |-> 0]
                       ELSE [state |-> "new", name |-> Deleting, score |-> 0]]
  /\ teamReq = [a \in Admins |-> NoReqT] /\ asks = 0

TeamsNext ==
  \/ \E t \in TeamIds :
       \/ DeleteTeam(t) \/ AddScore(t, 1) \/ AddScore(t, -1)
       \/ \E r \in Classes : CreateClassIn(r, t) \/ CreateClassAlone(r, t)
  \/ \E a \in Admins :
       \/ ReadCurrent(a) \/ ReadPrevious(a) \/ Attach(a) \/ MoveClass(a)
       \/ AskImport(a) \/ TakeBackClasses(a) \/ TakeBackTeams(a) \/ ImportEnds(a)
       \/ \E r \in Classes, t \in TeamIds : ImportClass(a, r, t)
       \/ \E name \in Titles, rooms \in SUBSET Classes :
            AskCreate(a, name, rooms) \/ \E t \in TeamIds : RenameTeam(a, t, name, rooms)
       \/ \E t \in TeamIds : CreateTeam(a, t)
       \/ \E r \in Classes, t \in TeamIds \cup {NoTeam} : Detach(a, r, t) \/ ReadClassTeam(a, r, t)

TeamsSpec == TeamsInit /\ [][TeamsNext]_teamsVars

-----------------------------------------------------------------------------
(* A team with a score neither disappears nor is broken up by a deletion or   *)
(* a clean-up, whoever scored or moved its rooms meanwhile; and no room is     *)
(* ever in a team that is not there.                                         *)
ScoredTeamKept ==
  [][/\ \A t \in TeamsThere : squad[t].score # 0 =>
          squad'[t].state = "there" /\ squad'[t].name # Deleting
     /\ \A r \in Classes : inTeam'[r] # NoTeam => squad'[inTeam'[r]].state = "there"
    ]_teamsVars
==============================================================================
