----------------------------- MODULE RecordsProofs -----------------------------
(***************************************************************************)
(* Proofs about the records: states of sign-ins, teams, members of            *)
(* gatherings, rows of events and places with their images, tokens for FCM,     *)
(* and views of notifications.  Each part has an inductive invariant of its    *)
(* own, and one step per action.                                            *)
(***************************************************************************)
EXTENDS SignInStates, Teams, GroupMembers, Places, FcmClient, NotificationViews,
        FiniteSetTheorems, TLAPS

-----------------------------------------------------------------------------
(* Sign-in states *)

ExchangedState == [made : Nat, purpose : SignInPurposes, client : ClientTypes, at : Nat]

SignInTyped ==
  /\ made \in Seq(Made) /\ exchanged \in Seq(ExchangedState)
  /\ authState \in [StateIds -> 0 .. Len(made)] /\ signInClock \in Nat

(* A state has one row, or none, *)
OneRowEach ==
  \A s, t \in StateIds : s # t /\ authState[s] # 0 => authState[s] # authState[t]

(* none once it was exchanged, *)
ConsumedOnce ==
  \A i \in 1 .. Len(exchanged) :
    /\ exchanged[i].made \in 1 .. Len(made)
    /\ \A s \in StateIds : authState[s] # exchanged[i].made
    /\ \A j \in 1 .. Len(exchanged) \ {i} : exchanged[j].made # exchanged[i].made

(* and it was exchanged for what it was stored for. *)
AsMade ==
  \A i \in 1 .. Len(exchanged) :
    LET e == exchanged[i] IN
    /\ e.purpose = made[e.made].purpose /\ e.client = made[e.made].client
    /\ e.at < made[e.made].until

SignInInv == SignInTyped /\ OneRowEach /\ ConsumedOnce /\ AsMade

LEMMA StatesStored ==
  ASSUME SignInInv, NEW s \in StateIds, NEW c \in ClientTypes, NEW purpose \in SignInPurposes,
         StoreState(s, purpose, c)
  PROVE  SignInInv'
<1> DEFINE m == [purpose |-> purpose, client |-> c, until |-> signInClock + StateTtl]
<1>1. m \in Made
  BY SignInConstants DEF Made, SignInInv, SignInTyped
<1>2. made' = Append(made, m) /\ UNCHANGED <<exchanged, signInClock>>
      /\ authState' = [authState EXCEPT ![s] = Len(made')]
  BY DEF StoreState
<1> HIDE DEF m
<1>3. /\ made' \in Seq(Made) /\ Len(made') = Len(made) + 1 /\ Len(made) \in Nat
      /\ \A n \in 1 .. Len(made) : made'[n] = made[n]
  BY <1>1, <1>2 DEF SignInInv, SignInTyped
<1>4. /\ authState'[s] = Len(made) + 1 /\ \A t \in StateIds \ {s} : authState'[t] = authState[t]
      /\ \A t \in StateIds : authState[t] \in 0 .. Len(made)
  BY <1>2, <1>3 DEF SignInInv, SignInTyped
<1>5. SignInTyped'
  BY <1>2, <1>3 DEF SignInInv, SignInTyped
<1>6. OneRowEach'
  BY <1>3, <1>4 DEF SignInInv, OneRowEach
<1>7. ConsumedOnce'
  BY <1>2, <1>3, <1>4 DEF SignInInv, ConsumedOnce
<1>8. AsMade'
  BY <1>2, <1>3 DEF SignInInv, AsMade, ConsumedOnce
<1> QED BY <1>5, <1>6, <1>7, <1>8 DEF SignInInv

(* Rows go. *)
LEMMA RowsGo ==
  ASSUME SignInInv, authState' \in [StateIds -> 0 .. Len(made)],
         \A s \in StateIds : authState'[s] \in {authState[s], 0},
         UNCHANGED <<made, exchanged>>, signInClock' \in Nat
  PROVE  SignInInv'
<1>1. \A i \in 1 .. Len(exchanged) : exchanged[i].made # 0
  BY DEF SignInInv, SignInTyped, ConsumedOnce
<1>2. ConsumedOnce'
  BY <1>1 DEF SignInInv, ConsumedOnce
<1>3. OneRowEach'
  BY DEF SignInInv, OneRowEach
<1> QED BY <1>2, <1>3 DEF SignInInv, SignInTyped, AsMade

LEMMA CodesExchanged ==
  ASSUME SignInInv, NEW s \in StateIds, NEW c \in ClientTypes, NEW purpose \in SignInPurposes,
         ExchangeCode(s, purpose, c)
  PROVE  SignInInv'
<1> DEFINE n == authState[s]
           e == [made |-> n, purpose |-> purpose, client |-> c, at |-> signInClock]
<1>1. /\ authState' = [authState EXCEPT ![s] = 0] /\ UNCHANGED <<made, signInClock>>
      /\ n # 0 /\ n \in 1 .. Len(made) /\ Len(made) \in Nat
  BY DEF ExchangeCode, ConsumeState, SignInInv, SignInTyped
<1>2. /\ authState' \in [StateIds -> 0 .. Len(made)] /\ authState'[s] = 0
      /\ \A t \in StateIds \ {s} : authState'[t] = authState[t]
  BY <1>1 DEF SignInInv, SignInTyped
<1>3. CASE UNCHANGED exchanged
  BY <1>1, <1>2, <1>3, RowsGo DEF SignInInv, SignInTyped
<1>4. CASE Acceptable(n, purpose, c) /\ exchanged' = Append(exchanged, e)
  <2>1. e \in ExchangedState /\ e.made = n /\ e.purpose = purpose /\ e.client = c /\ e.at = signInClock
    BY <1>1 DEF ExchangedState, SignInInv, SignInTyped
  <2> HIDE DEF e
  <2>2. /\ exchanged' \in Seq(ExchangedState) /\ Len(exchanged') = Len(exchanged) + 1 /\ Len(exchanged) \in Nat
        /\ \A i \in 1 .. Len(exchanged) : exchanged'[i] = exchanged[i]
        /\ exchanged'[Len(exchanged) + 1] = e
    BY <1>4, <2>1 DEF SignInInv, SignInTyped
  <2>3. made[n] \in Made /\ made[n].client = c /\ made[n].purpose = purpose /\ signInClock < made[n].until
    <3>1. made[n] \in Made
      BY <1>1 DEF SignInInv, SignInTyped
    <3> QED BY <1>4, <3>1 DEF Acceptable, StateExpired, Made, SignInInv, SignInTyped
  <2>4. ASSUME NEW i \in 1 .. Len(exchanged') PROVE i \in 1 .. Len(exchanged) \/ i = Len(exchanged) + 1
    BY <2>2
  <2>5. \A i \in 1 .. Len(exchanged) : exchanged[i].made # n /\ exchanged[i].made # 0
    BY DEF SignInInv, ConsumedOnce, SignInTyped
  <2>6. \A t \in StateIds : authState'[t] # n /\ authState'[t] \in {0, authState[t]}
    BY <1>1, <1>2 DEF SignInInv, OneRowEach
  <2>7. OneRowEach'
    BY <1>2 DEF SignInInv, OneRowEach
  <2>8. ASSUME NEW i \in 1 .. Len(exchanged')
        PROVE  /\ exchanged'[i].made \in 1 .. Len(made)
               /\ \A t \in StateIds : authState'[t] # exchanged'[i].made
               /\ \A j \in 1 .. Len(exchanged') \ {i} : exchanged'[j].made # exchanged'[i].made
    <3>1. CASE i \in 1 .. Len(exchanged)
      <4>1. exchanged'[i] = exchanged[i] /\ exchanged[i].made \in 1 .. Len(made)
        BY <2>2, <3>1 DEF SignInInv, ConsumedOnce
      <4>2. \A t \in StateIds : authState'[t] # exchanged[i].made
        BY <2>5, <2>6, <3>1 DEF SignInInv, ConsumedOnce
      <4>3. ASSUME NEW j \in 1 .. Len(exchanged') \ {i} PROVE exchanged'[j].made # exchanged'[i].made
        BY <2>1, <2>2, <2>4, <2>5, <3>1 DEF SignInInv, ConsumedOnce
      <4> QED BY <4>1, <4>2, <4>3
    <3>2. CASE i = Len(exchanged) + 1
      <4>1. exchanged'[i].made = n
        BY <2>1, <2>2, <3>2
      <4>2. ASSUME NEW j \in 1 .. Len(exchanged') \ {i} PROVE exchanged'[j].made # n
        BY <2>2, <2>4, <2>5, <3>2
      <4> QED BY <1>1, <2>6, <4>1, <4>2
    <3> QED BY <2>4, <3>1, <3>2
  <2>9. ConsumedOnce'
    BY <1>1, <2>8 DEF ConsumedOnce
  <2>10. ASSUME NEW i \in 1 .. Len(exchanged')
         PROVE  LET x == exchanged'[i] IN
                /\ x.purpose = made[x.made].purpose /\ x.client = made[x.made].client
                /\ x.at < made[x.made].until
    <3>1. CASE i \in 1 .. Len(exchanged)
      BY <2>2, <3>1 DEF SignInInv, AsMade
    <3>2. CASE i = Len(exchanged) + 1
      BY <2>1, <2>2, <2>3, <3>2
    <3> QED BY <2>4, <3>1, <3>2
  <2>11. AsMade'
    BY <1>1, <2>10 DEF AsMade
  <2> QED BY <1>1, <1>2, <2>2, <2>7, <2>9, <2>11 DEF SignInInv, SignInTyped
<1> QED BY <1>3, <1>4 DEF ExchangeCode

(* A state serves one exchange at most, of its purpose, client and time, for any  *)
(* number of states, whose ids come again.                                   *)
THEOREM StatesExchangedAsMade == SignInSpec => []ExchangedAsMade
<1>1. SignInInit => SignInInv
  BY DEF SignInInit, SignInInv, SignInTyped, OneRowEach, ConsumedOnce, AsMade
<1>2. SignInInv /\ [SignInNext]_signInVars => SignInInv'
  <2> SUFFICES ASSUME SignInInv, [SignInNext]_signInVars PROVE SignInInv'
    OBVIOUS
  <2>1. ASSUME NEW s \in StateIds, NEW c \in ClientTypes,
               \/ LoginState(s, c) \/ DeletionState(s, c)
               \/ TokenRequest(s, c) \/ ResolveCampus(s) \/ DeleteTokenRequest(s, c)
        PROVE  SignInInv'
    BY <2>1, StatesStored, CodesExchanged, SignInConstants
       DEF LoginState, DeletionState, TokenRequest, ResolveCampus, DeleteTokenRequest, SignInPurposes
  <2>2. CASE DeleteExpiredStates
    <3>1. /\ authState' \in [StateIds -> 0 .. Len(made)] /\ UNCHANGED <<made, exchanged, signInClock>>
          /\ \A s \in StateIds : authState'[s] \in {authState[s], 0}
      BY <2>2 DEF DeleteExpiredStates, SignInInv, SignInTyped
    <3> QED BY <3>1, RowsGo DEF SignInInv, SignInTyped
  <2>3. CASE ClockTicks
    BY <2>3, RowsGo DEF ClockTicks, SignInInv, SignInTyped
  <2>4. CASE UNCHANGED signInVars
    BY <2>4, RowsGo DEF signInVars, SignInInv, SignInTyped
  <2> QED BY <2>1, <2>2, <2>3, <2>4 DEF SignInNext
<1>3. SignInInv => ExchangedAsMade
  BY DEF SignInInv, AsMade, ConsumedOnce, ExchangedAsMade
<1> QED BY <1>1, <1>2, <1>3, PTL DEF SignInSpec

-----------------------------------------------------------------------------
(* Teams *)

Team == [state: {"new", "there", "gone"}, name: TeamNames, score: Int]
TeamReq == [pc: {"idle", "create", "current", "detach", "attach", "move", "import", "undo"},
            team: TeamIds \cup {NoTeam}, title: TeamNames, rooms: SUBSET Classes,
            out: SUBSET Classes, from: SUBSET (TeamIds \cup {NoTeam})]

(* Teams that are there have a name of their own, *)
Named(s) ==
  /\ s \in [TeamIds -> Team]
  /\ \A t \in TeamIds : s[t].state = "there" => s[t].name # Deleting

(* and rooms are in such teams. *)
Housed(s, where) ==
  /\ where \in [Classes -> TeamIds \cup {NoTeam}]
  /\ \A r \in Classes : where[r] # NoTeam => s[where[r]].state = "there"

Scored(s) == {t \in TeamIds : s[t].state = "there" /\ s[t].score # 0}

TeamsInv ==
  /\ Named(squad) /\ Housed(squad, inTeam)
  /\ teamReq \in [Admins -> TeamReq]
  /\ \A a \in Admins : teamReq[a].pc = "create" => teamReq[a].title # Deleting

(* What a step does to teams and rooms. *)
TeamsGoOn ==
  /\ Named(squad') /\ Housed(squad', inTeam')
  /\ \A t \in Scored(squad) : squad'[t].state = "there"

LEMMA CleanedUpKeeps ==
  ASSUME NEW s, NEW where, NEW teams, Named(s), Housed(s, where)
  PROVE  LET u == CleanedUp(s, where, teams) IN
         /\ Named(u) /\ Housed(u, where)
         /\ \A t \in Scored(s) : u[t].state = "there"
<1> DEFINE u == CleanedUp(s, where, teams)
<1>1. ASSUME NEW t \in TeamIds
      PROVE  /\ u[t] \in {s[t], [s[t] EXCEPT !.state = "gone"]}
             /\ u[t] # s[t] => s[t].score = 0 /\ \A r \in Classes : where[r] # t
  BY DEF CleanedUp
<1>2. ASSUME NEW t \in TeamIds
      PROVE  u[t] \in Team /\ (u[t].state = "there" => u[t].name # Deleting)
             /\ (u[t] # s[t] => u[t].state = "gone")
  <2>1. s[t] \in Team /\ (s[t].state = "there" => s[t].name # Deleting)
    BY DEF Named
  <2>2. [s[t] EXCEPT !.state = "gone"] \in Team /\ [s[t] EXCEPT !.state = "gone"].state = "gone"
    BY <2>1 DEF Team
  <2> QED BY <1>1, <2>1, <2>2
<1>3. u = [t \in TeamIds |-> u[t]]
  BY DEF CleanedUp
<1> HIDE DEF u
<1>4. Named(u)
  BY <1>2, <1>3 DEF Named
<1>5. Housed(u, where)
  BY <1>1 DEF Housed
<1>6. \A t \in Scored(s) : u[t].state = "there"
  BY <1>1 DEF Scored
<1> QED BY <1>4, <1>5, <1>6 DEF u

LEMMA TakenNew ==
  ASSUME NEW t \in NewTeamId
  PROVE  t \in TeamIds /\ squad[t].state = "new"
  BY DEF NewTeamId, NewTeams

LEMMA TeamAdded ==
  ASSUME TeamsInv, NEW t \in NewTeamId, NEW name \in Titles \cup Classes,
         NEW where, where \in [Classes -> TeamIds \cup {NoTeam}],
         \A r \in Classes : where[r] \in {t, inTeam[r]}
  PROVE  LET u == Add(squad, t, name) IN
         /\ Named(u) /\ Housed(u, where)
         /\ \A o \in Scored(squad) : o \in Scored(u)
<1> DEFINE u == Add(squad, t, name)
           v == [state |-> "there", name |-> name, score |-> 0]
<1>1. t \in TeamIds /\ squad[t].state = "new"
  BY TakenNew
<1>2. v \in Team /\ v.name # Deleting /\ v.state = "there"
  BY TeamsConstants DEF Team, TeamNames
<1>3. u \in [TeamIds -> Team] /\ u[t] = v /\ \A o \in TeamIds \ {t} : u[o] = squad[o]
  BY <1>1, <1>2 DEF Add, TeamsInv, Named
<1> HIDE DEF u, v
<1>4. Named(u)
  BY <1>2, <1>3 DEF Named, TeamsInv
<1>5. Housed(u, where)
  BY <1>1, <1>2, <1>3 DEF Housed, TeamsInv
<1>6. \A o \in Scored(squad) : o \in Scored(u)
  BY <1>1, <1>3 DEF Scored
<1> QED BY <1>4, <1>5, <1>6 DEF u

(* Rooms are moved into a team that is there, or out of all. *)
LEMMA MovedHoused ==
  ASSUME TeamsInv, NEW rooms, NEW t \in TeamsThere \cup {NoTeam}
  PROVE  Housed(squad, Moved(rooms, t))
<1>1. Moved(rooms, t) \in [Classes -> TeamIds \cup {NoTeam}]
  BY DEF Moved, TeamsThere, TeamsInv, Housed
<1>2. \A r \in Classes : Moved(rooms, t)[r] \in {t, inTeam[r]}
  BY DEF Moved
<1> QED BY <1>1, <1>2 DEF Housed, TeamsInv, TeamsThere

LEMMA MovedTyped ==
  ASSUME TeamsInv, NEW rooms, NEW t \in TeamIds \cup {NoTeam}
  PROVE  /\ Moved(rooms, t) \in [Classes -> TeamIds \cup {NoTeam}]
         /\ \A r \in Classes : Moved(rooms, t)[r] \in {t, inTeam[r]}
  BY DEF Moved, TeamsInv, Housed

LEMMA ScoredStay ==
  ASSUME TeamsInv
  PROVE  \A t \in Scored(squad) : squad[t].state = "there"
  BY DEF Scored

(* The steps that take or give teams. *)
LEMMA TeamTaken ==
  ASSUME TeamsInv, NEW a \in Admins, NEW t \in TeamIds, CreateTeam(a, t)
  PROVE  TeamsGoOn
<1> DEFINE q == teamReq[a]
           where == Moved(q.rooms \cap RoomsHere, t)
           u == Add(squad, t, q.title)
<1>1. t \in NewTeamId /\ q.title \in Titles \cup Classes
  BY DEF CreateTeam, TeamsInv, TeamReq, TeamNames
<1>2. Named(u) /\ Housed(u, where) /\ \A o \in Scored(squad) : o \in Scored(u)
  BY <1>1, MovedTyped, TeamAdded
<1>3. CASE inTeam' = where /\ squad' = CleanedUp(u, where, q.from)
  <2> HIDE DEF u, where
  <2> QED BY <1>2, <1>3, CleanedUpKeeps DEF TeamsGoOn
<1>4. CASE UNCHANGED <<squad, inTeam>>
  BY <1>4, ScoredStay DEF TeamsGoOn, TeamsInv
<1> QED BY <1>3, <1>4 DEF CreateTeam

LEMMA TeamMoves ==
  ASSUME TeamsInv, NEW a \in Admins, Attach(a) \/ MoveClass(a)
  PROVE  TeamsGoOn
<1> DEFINE q == teamReq[a]
           where == Moved(q.rooms \cap RoomsHere, q.team)
<1>1. CASE q.team \in TeamsThere \cup {NoTeam} /\ inTeam' = where /\ squad' = CleanedUp(squad, where, q.from)
  <2>1. Housed(squad, where)
    BY <1>1, MovedHoused
  <2> HIDE DEF where
  <2> QED BY <1>1, <2>1, CleanedUpKeeps DEF TeamsGoOn, TeamsInv
<1>2. CASE UNCHANGED <<squad, inTeam>>
  BY <1>2, ScoredStay DEF TeamsGoOn, TeamsInv
<1> QED BY <1>1, <1>2 DEF Attach, MoveClass

LEMMA TeamDetached ==
  ASSUME TeamsInv, NEW a \in Admins, NEW r \in Classes, NEW t \in TeamIds \cup {NoTeam}, Detach(a, r, t)
  PROVE  TeamsGoOn
<1> DEFINE where == Moved({r} \cap RoomsHere, t)
           u == Add(squad, t, r)
<1>1. t \in NewTeamId
  BY DEF Detach
<1>2. Named(u) /\ Housed(u, where) /\ \A o \in Scored(squad) : o \in Scored(u)
  BY <1>1, MovedTyped, TeamAdded
<1>3. CASE inTeam' = where /\ squad' = u
  <2> HIDE DEF u, where
  <2> QED BY <1>2, <1>3 DEF TeamsGoOn, Scored
<1>4. CASE UNCHANGED <<squad, inTeam>>
  BY <1>4, ScoredStay DEF TeamsGoOn, TeamsInv
<1> QED BY <1>3, <1>4 DEF Detach

LEMMA TeamDeleted ==
  ASSUME TeamsInv, NEW t \in TeamIds, DeleteTeam(t)
  PROVE  TeamsGoOn
<1> DEFINE rooms == ClassesOf(t)
           renamed == [squad EXCEPT ![t].name = Deleting]
<1>1. PICK own \in Provisional(rooms) :
        /\ inTeam' = [r \in Classes |-> IF r \in rooms THEN own[r] ELSE inTeam[r]]
        /\ squad' = CleanedUp(
                      [u \in TeamIds |->
                         IF \E r \in rooms : own[r] = u
                           THEN [state |-> "there", name |-> CHOOSE r \in rooms : own[r] = u, score |-> 0]
                           ELSE renamed[u]],
                      inTeam', {t})
  BY DEF DeleteTeam
<1>2. own \in [rooms -> NewTeams]
  BY <1>1 DEF Provisional
<1> DEFINE given(u) == [state |-> "there", name |-> CHOOSE r \in rooms : own[r] = u, score |-> 0]
           s == [u \in TeamIds |-> IF \E r \in rooms : own[r] = u THEN given(u) ELSE renamed[u]]
<1>3. t \in TeamIds /\ squad[t].state = "there" /\ squad[t].score = 0 /\ squad[t] \in Team
  BY DEF DeleteTeam, TeamsThere, Unscored, TeamsInv, Named
<1>4. /\ renamed[t] \in Team /\ renamed[t].state = "there" /\ renamed[t].score = 0
      /\ \A u \in TeamIds \ {t} : renamed[u] = squad[u]
  BY <1>3 DEF TeamsInv, Named, Team, TeamNames
<1>5. ASSUME NEW u \in TeamIds, \E r \in rooms : own[r] = u
      PROVE  /\ given(u) \in Team /\ given(u).name # Deleting /\ given(u).state = "there"
             /\ squad[u].state = "new" /\ u # t
  <2>1. (CHOOSE r \in rooms : own[r] = u) \in Classes
    BY <1>5 DEF ClassesOf
  <2>2. squad[u].state = "new"
    BY <1>2, <1>5 DEF NewTeams
  <2> QED BY <1>3, <2>1, <2>2, TeamsConstants DEF Team, TeamNames
<1> HIDE DEF given, renamed
<1>6. ASSUME NEW u \in TeamIds
      PROVE  /\ s[u] \in Team /\ (u # t /\ s[u].state = "there" => s[u].name # Deleting)
             /\ u = t => s[u] = renamed[t]
             /\ squad[u].state = "there" /\ u # t => s[u] = squad[u]
  BY <1>4, <1>5 DEF TeamsInv, Named
<1>7. inTeam' \in [Classes -> TeamIds \cup {NoTeam}]
  BY <1>1, <1>2 DEF NewTeams, TeamsInv, Housed
<1>8. ASSUME NEW r \in Classes, inTeam'[r] # NoTeam
      PROVE  inTeam'[r] \in TeamIds \ {t} /\ s[inTeam'[r]].state = "there"
  <2>1. CASE r \in rooms
    <3>1. inTeam'[r] = own[r] /\ own[r] \in TeamIds
      BY <1>1, <1>2, <2>1 DEF NewTeams
    <3> QED BY <1>5, <2>1, <3>1
  <2>2. CASE r \notin rooms
    <3>1. inTeam'[r] = inTeam[r] /\ inTeam[r] # t /\ inTeam[r] \in TeamIds
      BY <1>1, <1>7, <1>8, <2>2 DEF ClassesOf
    <3>2. squad[inTeam[r]].state = "there"
      BY <1>8, <3>1 DEF TeamsInv, Housed
    <3> QED BY <1>6, <3>1, <3>2
  <2> QED BY <2>1, <2>2
<1>9. squad' = CleanedUp(s, inTeam', {t})
  BY <1>1 DEF given, renamed
<1>10. s = [u \in TeamIds |-> s[u]]
  OBVIOUS
<1> HIDE DEF s
<1>11. ASSUME NEW u \in TeamIds
       PROVE  /\ u # t => squad'[u] = s[u]
              /\ u = t => squad'[u] = [s[t] EXCEPT !.state = "gone"]
  <2>1. \A r \in Classes : inTeam'[r] # t
    BY <1>3, <1>8, TeamsConstants
  <2>2. s[t].state = "there" /\ s[t].score = 0
    BY <1>3, <1>4, <1>6
  <2> QED BY <1>9, <2>1, <2>2 DEF CleanedUp
<1>12. squad'[t] \in Team /\ squad'[t].state = "gone"
  <2>1. s[t] \in Team
    BY <1>3, <1>6
  <2> QED BY <1>3, <1>11, <2>1 DEF Team
<1>13. Named(squad')
  <2>1. squad' = [u \in TeamIds |-> squad'[u]]
    BY <1>9 DEF CleanedUp
  <2> QED BY <1>6, <1>11, <1>12, <2>1 DEF Named
<1>14. Housed(squad', inTeam')
  BY <1>7, <1>8, <1>11 DEF Housed
<1>15. ASSUME NEW u \in Scored(squad)
       PROVE  squad'[u].state = "there"
  BY <1>3, <1>6, <1>11, <1>15 DEF Scored
<1> QED BY <1>13, <1>14, <1>15 DEF TeamsGoOn

LEMMA OneTeamChanged ==
  ASSUME TeamsInv, NEW t \in TeamIds, squad[t].state = "there", NEW v \in Team,
         v.state = "there", v.name # Deleting, squad' = [squad EXCEPT ![t] = v], UNCHANGED inTeam
  PROVE  TeamsGoOn
<1>1. squad' \in [TeamIds -> Team] /\ squad'[t] = v /\ \A u \in TeamIds \ {t} : squad'[u] = squad[u]
  BY DEF TeamsInv, Named
<1>2. \A u \in TeamIds : squad[u].state = "there" => squad'[u].state = "there"
  BY <1>1
<1>3. Named(squad')
  BY <1>1 DEF Named, TeamsInv
<1>4. Housed(squad', inTeam')
  BY <1>2 DEF Housed, TeamsInv
<1> QED BY <1>2, <1>3, <1>4 DEF TeamsGoOn, Scored

LEMMA TeamRewritten ==
  ASSUME TeamsInv, NEW t \in TeamIds,
         \/ AddScore(t, 1) \/ AddScore(t, -1)
         \/ \E a \in Admins, name \in Titles, rooms \in SUBSET Classes : RenameTeam(a, t, name, rooms)
  PROVE  TeamsGoOn
<1>1. squad[t] \in Team /\ (squad[t].state = "there" => squad[t].name # Deleting)
  BY DEF TeamsInv, Named
<1>2. ASSUME NEW points \in {1, -1}, AddScore(t, points)
      PROVE  TeamsGoOn
  <2> DEFINE v == [squad[t] EXCEPT !.score = squad[t].score + points]
  <2>1. squad[t].state = "there" /\ squad' = [squad EXCEPT ![t] = v] /\ UNCHANGED inTeam
    BY <1>2 DEF AddScore, TeamsThere
  <2>2. v \in Team /\ v.state = "there" /\ v.name # Deleting
    BY <1>1, <2>1 DEF Team
  <2> HIDE DEF v
  <2> QED BY <2>1, <2>2, OneTeamChanged
<1>3. ASSUME NEW a \in Admins, NEW name \in Titles, NEW rooms \in SUBSET Classes, RenameTeam(a, t, name, rooms)
      PROVE  TeamsGoOn
  <2> DEFINE v == [squad[t] EXCEPT !.name = name]
  <2>1. squad[t].state = "there" /\ squad' = [squad EXCEPT ![t] = v] /\ UNCHANGED inTeam
    BY <1>3 DEF RenameTeam, TeamsThere
  <2>2. v \in Team /\ v.state = "there" /\ v.name # Deleting
    BY <1>1, <2>1, TeamsConstants DEF Team, TeamNames
  <2> HIDE DEF v
  <2> QED BY <2>1, <2>2, OneTeamChanged
<1> QED BY <1>2, <1>3

LEMMA ClassCreated ==
  ASSUME TeamsInv, NEW r \in Classes, NEW t \in TeamIds, CreateClassIn(r, t) \/ InsertClass(r, t)
  PROVE  TeamsGoOn
<1>1. /\ inTeam' = [inTeam EXCEPT ![r] = t]
      /\ inTeam' \in [Classes -> TeamIds \cup {NoTeam}]
      /\ \A q \in Classes : inTeam'[q] \in {t, inTeam[q]}
  BY DEF CreateClassIn, InsertClass, TeamsInv, Housed
<1>2. CASE CreateClassIn(r, t)
  <2>1. squad[t].state = "there" /\ UNCHANGED squad
    BY <1>2 DEF CreateClassIn, TeamsThere
  <2> QED BY <1>1, <2>1, ScoredStay DEF TeamsGoOn, TeamsInv, Housed
<1>3. CASE InsertClass(r, t)
  <2>1. t \in NewTeamId /\ squad' = Add(squad, t, r)
    BY <1>3 DEF InsertClass
  <2>2. Named(squad') /\ Housed(squad', inTeam') /\ \A o \in Scored(squad) : o \in Scored(squad')
    BY <1>1, <2>1, TeamAdded
  <2> QED BY <2>2 DEF TeamsGoOn, Scored
<1> QED BY <1>2, <1>3

(* An import that is taken back. *)
LEMMA ClassesTakenBack ==
  ASSUME TeamsInv, NEW a \in Admins, TakeBackClasses(a)
  PROVE  TeamsGoOn
<1>1. Housed(squad, Moved(teamReq[a].rooms, NoTeam))
  BY MovedHoused
<1> QED BY <1>1, ScoredStay DEF TakeBackClasses, TeamsGoOn, TeamsInv

LEMMA TeamsTakenBack ==
  ASSUME TeamsInv, NEW a \in Admins, TakeBackTeams(a)
  PROVE  TeamsGoOn
<1> DEFINE teams == NamedAfter(teamReq[a].rooms)
           gone(t) == [squad[t] EXCEPT !.state = "gone"]
<1>1. /\ squad' = [t \in TeamIds |-> IF t \in teams THEN gone(t) ELSE squad[t]]
      /\ \A t \in teams : squad[t].score = 0 /\ \A r \in Classes : inTeam[r] # t
      /\ inTeam' = inTeam
  BY DEF TakeBackTeams, Unreferenced, ClassesOf
<1> HIDE DEF teams
<1>2. \A t \in TeamIds : squad[t] \in Team /\ gone(t) \in Team /\ gone(t).state = "gone"
  BY DEF TeamsInv, Named, Team
<1> HIDE DEF gone
<1>3. Named(squad')
  BY <1>1, <1>2 DEF Named, TeamsInv
<1>4. Housed(squad', inTeam')
  BY <1>1 DEF Housed, TeamsInv
<1> QED BY <1>1, <1>3, <1>4 DEF TeamsGoOn, Scored

-----------------------------------------------------------------------------
(* Requests *)
LEMMA NoRequestTyped == NoReqT \in TeamReq /\ NoReqT.pc = "idle"
  BY DEF NoReqT, TeamReq, TeamNames

TeamReqsGoOn ==
  /\ teamReq' \in [Admins -> TeamReq]
  /\ \A a \in Admins : teamReq'[a].pc = "create" => teamReq'[a].title # Deleting

LEMMA RequestSet ==
  ASSUME TeamsInv, NEW a \in Admins, NEW v \in TeamReq, teamReq' = [teamReq EXCEPT ![a] = v],
         v.pc = "create" => v.title # Deleting
  PROVE  TeamReqsGoOn
  BY DEF TeamsInv, TeamReqsGoOn

LEMMA RequestsAsked ==
  ASSUME TeamsInv, NEW a \in Admins,
         \/ \E name \in Titles, rooms \in SUBSET Classes :
              AskCreate(a, name, rooms) \/ \E t \in TeamIds : RenameTeam(a, t, name, rooms)
         \/ AskImport(a) \/ \E r \in Classes, t \in TeamIds \cup {NoTeam} : ReadClassTeam(a, r, t)
  PROVE  TeamReqsGoOn
<1>1. ASSUME NEW name \in Titles, NEW rooms \in SUBSET Classes, AskCreate(a, name, rooms)
      PROVE  TeamReqsGoOn
  <2> DEFINE from == {inTeam[r] : r \in rooms}
             v == [NoReqT EXCEPT !.pc = "create", !.title = name, !.rooms = rooms, !.from = from]
  <2>1. from \in SUBSET (TeamIds \cup {NoTeam})
    BY DEF TeamsInv, Housed
  <2>2. teamReq' = [teamReq EXCEPT ![a] = v]
    BY <1>1 DEF AskCreate, Ask
  <2> HIDE DEF from
  <2>3. v \in TeamReq /\ v.title = name
    BY <2>1 DEF NoReqT, TeamReq, TeamNames
  <2> HIDE DEF v
  <2> QED BY <2>2, <2>3, RequestSet, TeamsConstants
<1>2. ASSUME NEW name \in Titles, NEW rooms \in SUBSET Classes, NEW t \in TeamIds, RenameTeam(a, t, name, rooms)
      PROVE  TeamReqsGoOn
  <2> DEFINE v == [NoReqT EXCEPT !.pc = "current", !.team = t, !.rooms = rooms]
  <2>1. teamReq' = [teamReq EXCEPT ![a] = v]
    BY <1>2 DEF RenameTeam, Ask
  <2>2. v \in TeamReq /\ v.pc = "current"
    BY DEF NoReqT, TeamReq, TeamNames
  <2> HIDE DEF v
  <2> QED BY <2>1, <2>2, RequestSet
<1>3. ASSUME NEW r \in Classes, NEW t \in TeamIds \cup {NoTeam}, ReadClassTeam(a, r, t)
      PROVE  TeamReqsGoOn
  <2> DEFINE v == [NoReqT EXCEPT !.pc = "move", !.team = t, !.rooms = {r}, !.from = {inTeam[r]}]
  <2>1. teamReq' = [teamReq EXCEPT ![a] = v]
    BY <1>3 DEF ReadClassTeam, Ask
  <2>2. inTeam[r] \in TeamIds \cup {NoTeam}
    BY DEF TeamsInv, Housed
  <2>3. v \in TeamReq /\ v.pc = "move"
    BY <2>2 DEF NoReqT, TeamReq, TeamNames
  <2> HIDE DEF v
  <2> QED BY <2>1, <2>3, RequestSet
<1>4. CASE AskImport(a)
  <2> DEFINE v == [NoReqT EXCEPT !.pc = "import"]
  <2>1. teamReq' = [teamReq EXCEPT ![a] = v]
    BY <1>4 DEF AskImport, Ask
  <2>2. v \in TeamReq /\ v.pc = "import"
    BY DEF NoReqT, TeamReq, TeamNames
  <2> HIDE DEF v
  <2> QED BY <2>1, <2>2, RequestSet
<1> QED BY <1>1, <1>2, <1>3, <1>4

LEMMA RequestsServed ==
  ASSUME TeamsInv, NEW a \in Admins,
         \/ ReadCurrent(a) \/ ReadPrevious(a) \/ Attach(a) \/ MoveClass(a)
         \/ TakeBackClasses(a) \/ TakeBackTeams(a) \/ ImportEnds(a)
         \/ \E r \in Classes, t \in TeamIds : ImportClass(a, r, t)
         \/ \E t \in TeamIds : CreateTeam(a, t)
         \/ \E r \in Classes, t \in TeamIds \cup {NoTeam} : Detach(a, r, t)
  PROVE  TeamReqsGoOn
<1> DEFINE q == teamReq[a]
<1>1. q \in TeamReq
  BY DEF TeamsInv
<1>2. CASE Reply(a)
  BY <1>2, NoRequestTyped, RequestSet DEF Reply, Goes
<1>3. CASE ReadCurrent(a)
  <2> DEFINE o == ClassesOf(q.team) \ q.rooms
             v == [teamReq[a] EXCEPT !.pc = "detach", !.out = o]
  <2>1. o \in SUBSET Classes
    BY DEF ClassesOf
  <2>2. teamReq' = [teamReq EXCEPT ![a] = v]
    BY <1>3 DEF ReadCurrent, Goes
  <2> HIDE DEF o
  <2>3. v \in TeamReq /\ v.pc = "detach"
    BY <1>1, <2>1 DEF TeamReq
  <2> HIDE DEF v
  <2> QED BY <2>2, <2>3, RequestSet
<1>4. CASE ReadPrevious(a)
  <2> DEFINE from == {inTeam[r] : r \in q.rooms} \ {NoTeam, q.team}
             v == [teamReq[a] EXCEPT !.pc = "attach", !.from = from]
  <2>1. from \in SUBSET (TeamIds \cup {NoTeam})
    BY <1>1 DEF TeamsInv, Housed, TeamReq
  <2>2. teamReq' = [teamReq EXCEPT ![a] = v]
    BY <1>4 DEF ReadPrevious, Goes
  <2> HIDE DEF from
  <2>3. v \in TeamReq /\ v.pc = "attach"
    BY <1>1, <2>1 DEF TeamReq
  <2> HIDE DEF v
  <2> QED BY <2>2, <2>3, RequestSet
<1>5. ASSUME NEW r \in Classes, NEW t \in TeamIds \cup {NoTeam}, Detach(a, r, t)
      PROVE  TeamReqsGoOn
  <2> DEFINE v == [teamReq[a] EXCEPT !.out = teamReq[a].out \ {r}]
  <2>1. CASE teamReq' = [teamReq EXCEPT ![a] = v]
    <3>1. v \in TeamReq /\ v.pc = q.pc
      BY <1>1 DEF TeamReq
    <3>2. q.pc = "detach"
      BY <1>5 DEF Detach
    <3> HIDE DEF v
    <3> QED BY <2>1, <3>1, <3>2, RequestSet
  <2> QED BY <1>2, <1>5, <2>1 DEF Detach, Goes
<1>6. ASSUME NEW r \in Classes, NEW t \in TeamIds, ImportClass(a, r, t)
      PROVE  TeamReqsGoOn
  <2> DEFINE v == [teamReq[a] EXCEPT !.rooms = teamReq[a].rooms \cup {r}]
  <2>1. teamReq' = [teamReq EXCEPT ![a] = v] /\ q.pc = "import"
    BY <1>6 DEF ImportClass, Goes
  <2>2. v \in TeamReq /\ v.pc = q.pc
    BY <1>1 DEF TeamReq
  <2> HIDE DEF v
  <2> QED BY <2>1, <2>2, RequestSet
<1>7. CASE TakeBackClasses(a)
  <2> DEFINE v == [teamReq[a] EXCEPT !.pc = "undo"]
  <2>1. teamReq' = [teamReq EXCEPT ![a] = v]
    BY <1>7 DEF TakeBackClasses, Goes
  <2>2. v \in TeamReq /\ v.pc = "undo"
    BY <1>1 DEF TeamReq
  <2> HIDE DEF v
  <2> QED BY <2>1, <2>2, RequestSet
<1> QED BY <1>2, <1>3, <1>4, <1>5, <1>6, <1>7
        DEF Attach, MoveClass, CreateTeam, TakeBackTeams, ImportEnds

LEMMA TeamsSteps ==
  ASSUME TeamsInv, TeamsNext
  PROVE  TeamsInv' /\ TeamsGoOn
<1>1. ASSUME TeamsGoOn, TeamReqsGoOn \/ UNCHANGED teamReq PROVE TeamsInv' /\ TeamsGoOn
  BY <1>1 DEF TeamsGoOn, TeamReqsGoOn, TeamsInv
<1>2. ASSUME UNCHANGED <<squad, inTeam>> PROVE TeamsGoOn
  BY <1>2, ScoredStay DEF TeamsGoOn, TeamsInv
<1>3. ASSUME NEW t \in TeamIds,
             \/ DeleteTeam(t) \/ AddScore(t, 1) \/ AddScore(t, -1)
             \/ \E r \in Classes : CreateClassIn(r, t) \/ CreateClassAlone(r, t)
      PROVE  TeamsInv' /\ TeamsGoOn
  <2>1. UNCHANGED teamReq
    BY <1>3 DEF DeleteTeam, AddScore, CreateClassIn, CreateClassAlone
  <2> QED BY <1>1, <1>3, <2>1, TeamDeleted, TeamRewritten, ClassCreated DEF CreateClassAlone
<1>4. ASSUME NEW a \in Admins, ReadCurrent(a) \/ ReadPrevious(a) \/ Attach(a) \/ MoveClass(a)
      PROVE  TeamsInv' /\ TeamsGoOn
  <2>1. TeamReqsGoOn
    BY <1>4, RequestsServed
  <2>2. CASE ReadCurrent(a) \/ ReadPrevious(a)
    BY <1>1, <1>2, <2>1, <2>2 DEF ReadCurrent, ReadPrevious
  <2>3. CASE Attach(a) \/ MoveClass(a)
    BY <1>1, <2>1, <2>3, TeamMoves
  <2> QED BY <1>4, <2>2, <2>3
<1>5. ASSUME NEW a \in Admins, NEW name \in Titles, NEW rooms \in SUBSET Classes,
             AskCreate(a, name, rooms) \/ \E t \in TeamIds : RenameTeam(a, t, name, rooms)
      PROVE  TeamsInv' /\ TeamsGoOn
  <2>1. TeamReqsGoOn
    BY <1>5, RequestsAsked
  <2>2. CASE AskCreate(a, name, rooms)
    BY <1>1, <1>2, <2>1, <2>2 DEF AskCreate
  <2>3. ASSUME NEW t \in TeamIds, RenameTeam(a, t, name, rooms) PROVE TeamsGoOn
    BY <2>3, TeamRewritten
  <2> QED BY <1>1, <1>5, <2>1, <2>2, <2>3
<1>6. ASSUME NEW a \in Admins, NEW t \in TeamIds, CreateTeam(a, t)
      PROVE  TeamsInv' /\ TeamsGoOn
  BY <1>1, <1>6, RequestsServed, TeamTaken
<1>7. ASSUME NEW a \in Admins, NEW r \in Classes, NEW t \in TeamIds \cup {NoTeam},
             Detach(a, r, t) \/ ReadClassTeam(a, r, t)
      PROVE  TeamsInv' /\ TeamsGoOn
  <2>1. CASE Detach(a, r, t)
    BY <1>1, <2>1, RequestsServed, TeamDetached
  <2>2. CASE ReadClassTeam(a, r, t)
    <3>1. TeamReqsGoOn
      BY <2>2, RequestsAsked
    <3> QED BY <1>1, <1>2, <2>2, <3>1 DEF ReadClassTeam
  <2> QED BY <1>7, <2>1, <2>2
<1>8. ASSUME NEW a \in Admins,
             \/ AskImport(a) \/ TakeBackClasses(a) \/ TakeBackTeams(a) \/ ImportEnds(a)
             \/ \E r \in Classes, t \in TeamIds : ImportClass(a, r, t)
      PROVE  TeamsInv' /\ TeamsGoOn
  <2>1. TeamReqsGoOn
    BY <1>8, RequestsAsked, RequestsServed
  <2>2. CASE AskImport(a) \/ ImportEnds(a)
    BY <1>1, <1>2, <2>1, <2>2 DEF AskImport, ImportEnds
  <2>3. CASE TakeBackClasses(a) \/ TakeBackTeams(a)
    BY <1>1, <2>1, <2>3, ClassesTakenBack, TeamsTakenBack
  <2>4. ASSUME NEW r \in Classes, NEW t \in TeamIds, ImportClass(a, r, t)
        PROVE  TeamsGoOn
    BY <2>4, ClassCreated DEF ImportClass
  <2> QED BY <1>1, <1>8, <2>1, <2>2, <2>3, <2>4
<1> QED BY <1>3, <1>4, <1>5, <1>6, <1>7, <1>8 DEF TeamsNext

LEMMA TeamsStart == TeamsInit => TeamsInv
<1> SUFFICES ASSUME TeamsInit PROVE TeamsInv
  OBVIOUS
<1> DEFINE ok(f) == \A r, q \in FirstClasses : f[r] = f[q] => r = q
           team == CHOOSE f \in [FirstClasses -> TeamIds] : ok(f)
<1>1. team \in [FirstClasses -> TeamIds] /\ ok(team)
  BY TeamsConstants
<1>2. /\ inTeam = [r \in Classes |-> IF r \in FirstClasses THEN team[r] ELSE NoTeam]
      /\ squad = [t \in TeamIds |->
                    IF \E r \in FirstClasses : team[r] = t
                      THEN [state |-> "there", name |-> CHOOSE r \in FirstClasses : team[r] = t, score |-> 0]
                      ELSE [state |-> "new", name |-> Deleting, score |-> 0]]
      /\ teamReq = [a \in Admins |-> NoReqT]
  BY DEF TeamsInit
<1> HIDE DEF team
<1>3. ASSUME NEW t \in TeamIds
      PROVE  /\ squad[t] \in Team /\ (squad[t].state = "there" => squad[t].name # Deleting)
             /\ (\E r \in FirstClasses : team[r] = t) => squad[t].state = "there"
  <2>1. CASE \E r \in FirstClasses : team[r] = t
    <3> DEFINE n == CHOOSE r \in FirstClasses : team[r] = t
    <3>1. n \in Classes
      BY <2>1, TeamsConstants
    <3>2. squad[t] = [state |-> "there", name |-> n, score |-> 0]
      BY <1>2, <2>1
    <3> HIDE DEF n
    <3> QED BY <3>1, <3>2, TeamsConstants DEF Team, TeamNames
  <2>2. CASE ~\E r \in FirstClasses : team[r] = t
    <3>1. squad[t] = [state |-> "new", name |-> Deleting, score |-> 0]
      BY <1>2, <2>2
    <3> QED BY <2>2, <3>1 DEF Team, TeamNames
  <2> QED BY <2>1, <2>2
<1>4. Named(squad)
  BY <1>2, <1>3 DEF Named
<1>5. Housed(squad, inTeam)
  BY <1>1, <1>2, <1>3 DEF Housed
<1> QED BY <1>2, <1>4, <1>5, NoRequestTyped DEF TeamsInv

(* A team with a score stays, and no room is in a team that is not there, for    *)
(* any number of rooms, teams and requests.                                  *)
THEOREM ScoredTeamsKept == TeamsSpec => ScoredTeamKept
<1>1. TeamsInv /\ UNCHANGED teamsVars => TeamsInv' /\ TeamsGoOn
  BY ScoredStay DEF teamsVars, TeamsInv, TeamsGoOn
<1>2. TeamsSpec => []TeamsInv
  BY <1>1, TeamsStart, TeamsSteps, PTL DEF TeamsSpec
<1>3. ASSUME TeamsInv, [TeamsNext]_teamsVars
      PROVE  /\ \A t \in TeamsThere : squad[t].score # 0 =>
                  squad'[t].state = "there" /\ squad'[t].name # Deleting
             /\ \A r \in Classes : inTeam'[r] # NoTeam => squad'[inTeam'[r]].state = "there"
  <2>1. TeamsGoOn
    BY <1>1, <1>3, TeamsSteps
  <2> QED BY <2>1 DEF TeamsGoOn, Named, Housed, Scored, TeamsThere
<1>4. TeamsInv /\ [TeamsNext]_teamsVars =>
        [/\ \A t \in TeamsThere : squad[t].score # 0 =>
               squad'[t].state = "there" /\ squad'[t].name # Deleting
         /\ \A r \in Classes : inTeam'[r] # NoTeam => squad'[inTeam'[r]].state = "there"]_teamsVars
  BY <1>3
<1> QED BY <1>2, <1>4, PTL DEF TeamsSpec, ScoredTeamKept

-----------------------------------------------------------------------------
(* Members of gatherings *)

GroupTyped ==
  /\ held \subseteq Gatherings
  /\ roster \in [Gatherings -> SUBSET People]
  /\ standing \in [People -> {"active", "deleted", "purged"}]
  /\ put \in [Puts -> Put]
  /\ answered \in [Gatherings -> SUBSET SUBSET People]

(* A PUT takes nobody it asked for, and gives nobody else. *)
Difference(v) == v.pc = "apply" => v.add \subseteq v.want /\ v.remove \cap v.want = {}

(* Once a PUT was answered, the members are between those that were. *)
MembersBetween(g) ==
  answered[g] # {} =>
    /\ \A u \in ActivePeople : (\A want \in answered[g] : u \in want) => u \in roster[g]
    /\ \A u \in roster[g] : \E want \in answered[g] : u \in want

(* Before the first answer, each PUT under way knows the members. *)
Known(g) ==
  answered[g] = {} =>
    \A p \in UnderWay(g) :
      /\ \A u \in roster[g] : u \in put[p].want \/ u \in put[p].remove
      /\ \A u \in ActivePeople : u \in put[p].want => u \in roster[g] \/ u \in put[p].add

NobodyPurged == \A g \in Gatherings : \A u \in roster[g] : standing[u] # "purged"

GroupInv ==
  /\ GroupTyped
  /\ \A p \in Puts : Difference(put[p])
  /\ \A g \in held : MembersBetween(g) /\ Known(g)
  /\ NobodyPurged

LEMMA PutFields ==
  ASSUME NEW v \in Put
  PROVE  /\ v.want \in SUBSET People /\ v.add \in SUBSET People /\ v.remove \in SUBSET People
         /\ NoPut \in Put /\ NoPut.pc = "idle"
  BY DEF Put, NoPut

(* A PUT moves, and is not under way afterwards. *)
LEMMA PutMoves ==
  ASSUME GroupInv, NEW p \in Puts, NEW v \in Put, v.pc # "apply", put' = [put EXCEPT ![p] = v],
         UNCHANGED <<held, roster, standing, answered>>
  PROVE  GroupInv'
<1>1. put'[p] = v /\ \A q \in Puts \ {p} : put'[q] = put[q]
  BY DEF GroupInv, GroupTyped
<1>2. GroupTyped'
  BY DEF GroupInv, GroupTyped
<1>3. \A q \in Puts : Difference(put[q])'
  BY <1>1 DEF GroupInv, Difference
<1>4. ASSUME NEW g \in held PROVE MembersBetween(g)' /\ Known(g)'
  <2>1. \A q \in UnderWay(g)' : q \in UnderWay(g) /\ put'[q] = put[q]
    BY <1>1 DEF UnderWay
  <2> QED BY <2>1 DEF GroupInv, MembersBetween, Known, ActivePeople
<1> QED BY <1>2, <1>3, <1>4 DEF GroupInv, NobodyPurged

LEMMA PutStarts ==
  ASSUME GroupInv, NEW p \in Puts,
         \/ \E g \in Gatherings, want \in SUBSET People : StartPut(p, g, want)
         \/ CheckPeople(p) \/ PutBreaks(p)
  PROVE  GroupInv'
<1>1. put[p] \in Put
  BY DEF GroupInv, GroupTyped
<1>2. CASE PutEnds(p) /\ UNCHANGED <<held, roster, standing, answered>>
  BY <1>1, <1>2, PutFields, PutMoves DEF PutEnds
<1>3. ASSUME NEW g \in Gatherings, NEW want \in SUBSET People, StartPut(p, g, want)
      PROVE  GroupInv'
  <2> DEFINE v == [NoPut EXCEPT !.pc = "users", !.to = {g}, !.want = want]
  <2>1. v \in Put /\ v.pc = "users"
    BY DEF NoPut, Put
  <2>2. put' = [put EXCEPT ![p] = v] /\ UNCHANGED <<held, roster, standing, answered>>
    BY <1>3 DEF StartPut
  <2> HIDE DEF v
  <2> QED BY <2>1, <2>2, PutMoves
<1>4. CASE CheckPeople(p) /\ ~PutEnds(p)
  <2> DEFINE v == [put[p] EXCEPT !.pc = "current"]
  <2>1. v \in Put /\ v.pc = "current"
    BY <1>1 DEF Put
  <2>2. put' = [put EXCEPT ![p] = v] /\ UNCHANGED <<held, roster, standing, answered>>
    BY <1>4 DEF CheckPeople
  <2> HIDE DEF v
  <2> QED BY <2>1, <2>2, PutMoves
<1> QED BY <1>2, <1>3, <1>4 DEF CheckPeople, PutBreaks

LEMMA MembersRead ==
  ASSUME GroupInv, NEW p \in Puts, NEW g \in Gatherings, ReadMembers(p, g)
  PROVE  GroupInv'
<1> DEFINE want == put[p].want
           add == want \ roster[g]
           remove == roster[g] \ want
           before == IF UnderWay(g) = {} THEN {} ELSE answered[g]
           a == [put[p] EXCEPT !.pc = "apply"]
           b == [a EXCEPT !.add = add]
           v == [b EXCEPT !.remove = remove]
<1>1. put[p] \in Put /\ put[p].pc = "current" /\ put[p].to = {g} /\ want \in SUBSET People
      /\ roster[g] \in SUBSET People /\ UNCHANGED <<held, roster, standing>>
  BY PutFields DEF GroupInv, GroupTyped, ReadMembers
<1>2. before \in SUBSET SUBSET People
  BY DEF GroupInv, GroupTyped
<1>3. CASE /\ add \cup remove = {} /\ PutEnds(p)
           /\ answered' = [answered EXCEPT ![g] = before \cup {want}]
  <2>1. put'[p] = NoPut /\ \A q \in Puts \ {p} : put'[q] = put[q]
    BY <1>3 DEF PutEnds, GroupInv, GroupTyped
  <2>2. answered'[g] = before \cup {want} /\ \A h \in Gatherings \ {g} : answered'[h] = answered[h]
    BY <1>3 DEF GroupInv, GroupTyped
  <2>3. GroupTyped'
    BY <1>1, <1>2, <1>3, PutFields DEF PutEnds, GroupInv, GroupTyped
  <2>4. \A q \in Puts : Difference(put[q])'
    BY <2>1, PutFields, <1>1 DEF GroupInv, Difference
  <2>5. roster[g] = want
    BY <1>3
  <2>6. MembersBetween(g)' /\ Known(g)'
    BY <1>1, <2>2, <2>5 DEF MembersBetween, Known, ActivePeople
  <2>7. ASSUME NEW h \in held, h # g PROVE MembersBetween(h)' /\ Known(h)'
    <3>1. \A q \in UnderWay(h)' : q \in UnderWay(h) /\ put'[q] = put[q]
      BY <1>1, <2>1, PutFields DEF UnderWay
    <3>2. answered'[h] = answered[h] /\ MembersBetween(h) /\ Known(h)
      BY <2>2, <2>7 DEF GroupInv, GroupTyped
    <3> QED BY <1>1, <3>1, <3>2 DEF MembersBetween, Known, ActivePeople
  <2> QED BY <1>1, <2>3, <2>4, <2>6, <2>7 DEF GroupInv, NobodyPurged
<1>4. CASE /\ put' = [put EXCEPT ![p] = v]
           /\ answered' = [answered EXCEPT ![g] = before]
  <2>1. v \in Put /\ v.pc = "apply" /\ v.add = add /\ v.remove = remove /\ v.want = want /\ v.to = {g}
    <3>0. add \in SUBSET People /\ remove \in SUBSET People
      BY <1>1
    <3> HIDE DEF add, remove
    <3>1. a \in Put /\ a.pc = "apply" /\ a.want = want /\ a.to = {g}
      BY <1>1 DEF Put
    <3> HIDE DEF a
    <3>2. b \in Put /\ b.pc = "apply" /\ b.want = want /\ b.to = {g} /\ b.add = add
      BY <3>0, <3>1 DEF Put
    <3> HIDE DEF b
    <3> QED BY <3>0, <3>2 DEF Put
  <2> HIDE DEF v
  <2>2. put'[p] = v /\ \A q \in Puts \ {p} : put'[q] = put[q]
    BY <1>4 DEF GroupInv, GroupTyped
  <2>3. answered'[g] = before /\ \A h \in Gatherings \ {g} : answered'[h] = answered[h]
    BY <1>4 DEF GroupInv, GroupTyped
  <2>4. GroupTyped'
    BY <1>1, <1>2, <1>4, <2>1 DEF GroupInv, GroupTyped
  <2>5. \A q \in Puts : Difference(put[q])'
    BY <2>1, <2>2 DEF GroupInv, Difference
  <2>6. ASSUME g \in held PROVE MembersBetween(g)' /\ Known(g)'
    <3>1. MembersBetween(g) /\ Known(g)
      BY <2>6 DEF GroupInv
    <3>2. MembersBetween(g)'
      BY <1>1, <2>3, <3>1 DEF MembersBetween, ActivePeople
    <3>3. ASSUME answered'[g] = {}, NEW q \in UnderWay(g)'
          PROVE  /\ \A u \in roster[g] : u \in put'[q].want \/ u \in put'[q].remove
                 /\ \A u \in ActivePeople : u \in put'[q].want => u \in roster[g] \/ u \in put'[q].add
      <4>1. CASE q = p
        BY <2>1, <2>2, <4>1
      <4>2. CASE q # p
        <5>1. q \in UnderWay(g) /\ put'[q] = put[q]
          BY <2>2, <3>3, <4>2 DEF UnderWay
        <5>2. answered[g] = {}
          BY <2>3, <3>3, <5>1
        <5> QED BY <3>1, <5>1, <5>2 DEF Known
      <4> QED BY <4>1, <4>2
    <3>4. Known(g)'
      BY <1>1, <3>3 DEF Known, ActivePeople
    <3> QED BY <3>2, <3>4
  <2>7. ASSUME NEW h \in held, h # g PROVE MembersBetween(h)' /\ Known(h)'
    <3>1. \A q \in UnderWay(h)' : q \in UnderWay(h) /\ put'[q] = put[q]
      BY <2>1, <2>2, <2>7 DEF UnderWay
    <3>2. answered'[h] = answered[h] /\ MembersBetween(h) /\ Known(h)
      BY <2>3, <2>7 DEF GroupInv, GroupTyped
    <3> QED BY <1>1, <3>1, <3>2 DEF MembersBetween, Known, ActivePeople
  <2> QED BY <1>1, <2>4, <2>5, <2>6, <2>7 DEF GroupInv, NobodyPurged
<1> QED BY <1>3, <1>4 DEF ReadMembers

LEMMA DiffApplied ==
  ASSUME GroupInv, NEW p \in Puts, NEW g \in Gatherings, ApplyMemberDiff(p, g)
  PROVE  GroupInv'
<1> DEFINE want == put[p].want
           next == (roster[g] \ put[p].remove) \cup Added(put[p].add)
<1>1. put[p] \in Put /\ put[p].pc = "apply" /\ put[p].to = {g} /\ UNCHANGED <<held, standing>>
      /\ Difference(put[p]) /\ p \in UnderWay(g) /\ PutEnds(p)
  BY DEF ApplyMemberDiff, GroupInv, GroupTyped, UnderWay
<1>2. CASE g \notin held
  BY <1>1, <1>2, PutFields, PutMoves DEF ApplyMemberDiff, PutEnds
<1>3. CASE g \in held
  <2>1. /\ roster' = [roster EXCEPT ![g] = next]
        /\ answered' = [answered EXCEPT ![g] = answered[g] \cup {want}]
    BY <1>3 DEF ApplyMemberDiff
  <2>2. /\ roster'[g] = next /\ \A h \in Gatherings \ {g} : roster'[h] = roster[h]
        /\ answered'[g] = answered[g] \cup {want} /\ \A h \in Gatherings \ {g} : answered'[h] = answered[h]
        /\ put'[p] = NoPut /\ \A q \in Puts \ {p} : put'[q] = put[q]
    BY <1>1, <2>1 DEF PutEnds, GroupInv, GroupTyped
  <2>3. next \in SUBSET People /\ want \in SUBSET People /\ \A u \in next : u \in roster[g] \/ u \in ActivePeople
    BY <1>1, PutFields DEF Added, ActivePeople, GroupInv, GroupTyped
  <2>4. GroupTyped'
    BY <1>1, <2>1, <2>3, PutFields DEF PutEnds, GroupInv, GroupTyped
  <2>5. \A q \in Puts : Difference(put[q])'
    BY <1>1, <2>2, PutFields DEF GroupInv, Difference
  <2>6. ActivePeople' = ActivePeople
    BY <1>1 DEF ActivePeople
  <2>7. ASSUME NEW u \in ActivePeople, u \in want, u \in roster[g] \/ u \in put[p].add
        PROVE  u \in next
    BY <1>1, <2>7 DEF Added, Difference
  <2>8. ASSUME NEW u \in next
        PROVE  u \in want \/ (u \in roster[g] /\ u \notin put[p].remove)
    BY <1>1, <2>8 DEF Added, Difference
  <2>9. MembersBetween(g) /\ Known(g)
    BY <1>3 DEF GroupInv
  <2>10. ASSUME NEW u \in ActivePeople, \A w \in answered'[g] : u \in w
         PROVE  u \in next
    <3>1. u \in want
      BY <2>2, <2>10
    <3>2. CASE answered[g] = {}
      BY <1>1, <2>7, <2>9, <3>1, <3>2 DEF Known
    <3>3. CASE answered[g] # {}
      BY <2>2, <2>7, <2>9, <2>10, <3>1, <3>3 DEF MembersBetween
    <3> QED BY <3>2, <3>3
  <2>11. ASSUME NEW u \in next
         PROVE  \E w \in answered'[g] : u \in w
    <3>1. CASE u \in want
      BY <2>2, <3>1
    <3>2. CASE u \in roster[g] /\ u \notin put[p].remove /\ u \notin want
      <4>1. answered[g] # {}
        BY <1>1, <2>9, <3>2 DEF Known
      <4> QED BY <2>2, <2>9, <3>2, <4>1 DEF MembersBetween
    <3> QED BY <2>8, <3>1, <3>2
  <2>12. MembersBetween(g)' /\ Known(g)'
    BY <2>2, <2>6, <2>10, <2>11 DEF MembersBetween, Known
  <2>13. ASSUME NEW h \in held, h # g PROVE MembersBetween(h)' /\ Known(h)'
    <3>1. \A q \in UnderWay(h)' : q \in UnderWay(h) /\ put'[q] = put[q]
      BY <1>1, <2>2, PutFields DEF UnderWay
    <3>2. answered'[h] = answered[h] /\ roster'[h] = roster[h] /\ MembersBetween(h) /\ Known(h)
      BY <2>2, <2>13 DEF GroupInv, GroupTyped
    <3> QED BY <2>6, <3>1, <3>2 DEF MembersBetween, Known
  <2>14. NobodyPurged'
    BY <1>1, <2>2, <2>3 DEF NobodyPurged, GroupInv, ActivePeople
  <2> QED BY <1>1, <2>4, <2>5, <2>12, <2>13, <2>14 DEF GroupInv
<1> QED BY <1>2, <1>3

(* Accounts and gatherings go. *)
LEMMA PeopleLeave ==
  ASSUME GroupInv, NEW u \in People, DeleteAccount(u) \/ PurgeMember(u)
  PROVE  GroupInv'
<1>1. UNCHANGED <<held, put, answered>>
  BY DEF DeleteAccount, PurgeMember
<1>2. standing' \in [People -> {"active", "deleted", "purged"}]
  BY DEF DeleteAccount, PurgeMember, GroupInv, GroupTyped
<1>3. ActivePeople' \subseteq ActivePeople
  BY DEF DeleteAccount, PurgeMember, ActivePeople, GroupInv, GroupTyped
<1>4. ASSUME NEW g \in Gatherings
      PROVE  /\ roster'[g] \subseteq roster[g]
             /\ \A o \in roster[g] : o \in ActivePeople => o \in roster'[g]
             /\ \A o \in roster'[g] : standing'[o] # "purged"
  <2>1. CASE DeleteAccount(u)
    BY <2>1 DEF DeleteAccount, GroupInv, GroupTyped, NobodyPurged
  <2>2. CASE PurgeMember(u)
    <3>1. roster'[g] = roster[g] \ {u} /\ standing[u] = "deleted" /\ \A o \in People \ {u} : standing'[o] = standing[o]
      BY <2>2 DEF PurgeMember, GroupInv, GroupTyped
    <3> QED BY <3>1 DEF ActivePeople, GroupInv, GroupTyped, NobodyPurged
  <2> QED BY <2>1, <2>2
<1>5. roster' \in [Gatherings -> SUBSET People]
  BY DEF DeleteAccount, PurgeMember, GroupInv, GroupTyped
<1>6. ASSUME NEW g \in held PROVE MembersBetween(g)' /\ Known(g)'
  <2>1. MembersBetween(g) /\ Known(g) /\ g \in Gatherings
    BY DEF GroupInv, GroupTyped
  <2>2. MembersBetween(g)'
    BY <1>1, <1>3, <1>4, <2>1 DEF MembersBetween
  <2>3. UnderWay(g)' = UnderWay(g)
    BY <1>1 DEF UnderWay
  <2>4. Known(g)'
    BY <1>1, <1>3, <1>4, <2>1, <2>3 DEF Known
  <2> QED BY <2>2, <2>4
<1> QED BY <1>1, <1>2, <1>4, <1>5, <1>6 DEF GroupInv, GroupTyped, Difference, NobodyPurged

LEMMA GatheringGoes ==
  ASSUME GroupInv, NEW g \in Gatherings, DropGathering(g)
  PROVE  GroupInv'
<1>1. /\ held' = held \ {g} /\ UNCHANGED <<standing, put, answered>>
      /\ roster' \in [Gatherings -> SUBSET People]
      /\ roster'[g] = {} /\ \A h \in Gatherings \ {g} : roster'[h] = roster[h]
  BY DEF DropGathering, GroupInv, GroupTyped
<1>2. ASSUME NEW h \in held' PROVE MembersBetween(h)' /\ Known(h)'
  <2>1. MembersBetween(h) /\ Known(h) /\ roster'[h] = roster[h]
    BY <1>1, <1>2 DEF GroupInv, GroupTyped
  <2> QED BY <1>1, <2>1 DEF MembersBetween, Known, ActivePeople, UnderWay
<1>3. NobodyPurged'
  BY <1>1 DEF GroupInv, NobodyPurged
<1> QED BY <1>1, <1>2, <1>3 DEF GroupInv, GroupTyped, Difference

(* The members a PUT leaves are between what the PUTs that overlapped asked for,  *)
(* however many do and whatever they ask for.                                *)
THEOREM RostersBetween == GroupSpec => []RosterBetween
<1>1. GroupInit => GroupInv
  <2> SUFFICES ASSUME GroupInit PROVE GroupInv
    OBVIOUS
  <2>1. GroupTyped
    BY GroupConstants DEF GroupInit, GroupTyped, Put, NoPut
  <2>2. \A p \in Puts : put[p].pc = "idle"
    BY DEF GroupInit, NoPut
  <2>3. \A g \in held : MembersBetween(g) /\ Known(g)
    BY <2>2 DEF GroupInit, MembersBetween, Known, UnderWay
  <2> QED BY <2>1, <2>2, <2>3, GroupConstants DEF GroupInit, GroupInv, Difference, NobodyPurged
<1>2. GroupInv /\ [GroupNext]_groupVars => GroupInv'
  <2>1. ASSUME GroupInv, GroupNext PROVE GroupInv'
    BY <2>1, PutStarts, MembersRead, DiffApplied, GatheringGoes, PeopleLeave DEF GroupNext
  <2>2. ASSUME GroupInv, UNCHANGED groupVars PROVE GroupInv'
    BY <2>2 DEF groupVars, GroupInv, GroupTyped, Difference, MembersBetween, Known, NobodyPurged,
                  ActivePeople, UnderWay
  <2> QED BY <2>1, <2>2
<1>3. GroupInv => RosterBetween
  BY DEF GroupInv, MembersBetween, NobodyPurged, RosterBetween
<1> QED BY <1>1, <1>2, <1>3, PTL DEF GroupSpec

-----------------------------------------------------------------------------
(* Events, places and images *)

(* A request knows its row, which is a place unless the row is only removed. *)
Request ==
  {v \in ImageReq :
     /\ v.pc # "idle" => v.row \in RowIds
     /\ v.pc \notin {"idle", "remove"} => v.row \in PlaceIds}

RowsTyped ==
  /\ row \in [RowIds -> Row]
  /\ imageReq \in [ImageRequests -> Request]
  /\ rowEditor \in RowEditor

(* What an editor was shown is what the row holds as long as it has that version. *)
SeenHolds ==
  rowEditor.pc \in {"read", "checked"} =>
    LET i == rowEditor.row IN
    /\ i \in RowIds /\ row[i].status # "new"
    /\ rowEditor.seen.version <= row[i].version
    /\ There(i) /\ row[i].version = rowEditor.seen.version => row[i] = rowEditor.seen
    /\ rowEditor.pc = "checked" /\ i \in PlaceIds => rowEditor.venues = {}

EditorInv == RowsTyped /\ SeenHolds

(* What a step may do to a row: a version stands for one content, a row that    *)
(* is gone does not come back.                                              *)
RowGoesOn(i) ==
  /\ row'[i] \in Row
  /\ row[i].status # "new" =>
       /\ row'[i].status # "new"
       /\ row[i].version <= row'[i].version
       /\ \/ row'[i] = row[i] \/ row[i].version < row'[i].version \/ row'[i].status = "gone"
RowsGoOn == row' \in [RowIds -> Row] /\ \A i \in RowIds : RowGoesOn(i)

LEMMA RowParts ==
  ASSUME NEW v \in Row
  PROVE  /\ v.status \in {"new", "there", "gone"} /\ v.name \in EventNames
         /\ v.image \in Images \cup {NoImage} /\ v.venues \in SUBSET Venues /\ v.version \in Nat
  BY DEF Row

LEMMA FreshRowTyped == FreshRow \in Row /\ FreshRow.status = "new" /\ FreshRow.image = NoImage /\ FreshRow.version = 0
<1>1. (CHOOSE n \in EventNames : TRUE) \in EventNames
  BY PlacesConstants
<1> QED BY <1>1 DEF FreshRow, Row

LEMMA NoEditorTyped == NoEditor \in RowEditor /\ NoEditor.pc = "idle"
  BY FreshRowTyped, RowParts DEF NoEditor, RowEditor

LEMMA SameRows ==
  ASSUME RowsTyped, UNCHANGED row
  PROVE  RowsGoOn
  BY RowParts DEF RowsTyped, RowsGoOn, RowGoesOn

(* One row is written: from v0, which is there, to v. *)
LEMMA OneRow ==
  ASSUME RowsTyped, NEW i \in RowIds, NEW v \in Row, row' = [row EXCEPT ![i] = v],
         \/ row[i].status = "new"
         \/ /\ v.status = row[i].status /\ row[i].version < v.version
         \/ /\ v.status = "gone" /\ v.version = row[i].version
  PROVE  RowsGoOn /\ row'[i] = v
<1>1. row' \in [RowIds -> Row] /\ row'[i] = v /\ \A j \in RowIds \ {i} : row'[j] = row[j]
  BY DEF RowsTyped
<1>2. RowGoesOn(i)
  BY <1>1, RowParts DEF RowGoesOn, RowsTyped
<1>3. ASSUME NEW j \in RowIds \ {i} PROVE RowGoesOn(j)
  BY <1>1, RowParts DEF RowGoesOn, RowsTyped
<1> QED BY <1>1, <1>2, <1>3 DEF RowsGoOn

LEMMA SavedRow ==
  ASSUME RowsTyped, NEW i \in RowIds, NEW name \in EventNames, NEW vs \in SUBSET Venues,
         Saved(i, name, vs)
  PROVE  RowsGoOn /\ row'[i].name = name /\ row'[i].venues = vs
<1> DEFINE a == [row[i] EXCEPT !.name = name]
           b == [a EXCEPT !.venues = vs]
           v == [b EXCEPT !.version = row[i].version + 1]
<1>1. row[i] \in Row /\ row[i].version \in Nat
  BY RowParts DEF RowsTyped
<1>2. a \in Row /\ a.status = row[i].status /\ a.version = row[i].version /\ a.name = name
  BY <1>1 DEF Row
<1>3. b \in Row /\ b.status = row[i].status /\ b.version = row[i].version /\ b.name = name /\ b.venues = vs
  <2> HIDE DEF a
  <2> QED BY <1>2 DEF Row
<1>4. v \in Row /\ v.status = row[i].status /\ v.version = row[i].version + 1 /\ v.name = name /\ v.venues = vs
  <2> HIDE DEF b
  <2> QED BY <1>1, <1>3 DEF Row
<1>5. row' = [row EXCEPT ![i] = v]
  BY <1>1 DEF Saved, RowsTyped, Row
<1> HIDE DEF v
<1>6. row[i].version < v.version
  BY <1>1, <1>4
<1>7. RowsGoOn /\ row'[i] = v
  BY <1>4, <1>5, <1>6, OneRow
<1> QED BY <1>4, <1>7
(* An editor's reading stays true of rows that go on. *)
LEMMA SeenGoesOn ==
  ASSUME RowsTyped, SeenHolds, RowsGoOn, UNCHANGED rowEditor
  PROVE  SeenHolds'
<1>1. CASE rowEditor.pc \notin {"read", "checked"}
  BY <1>1 DEF SeenHolds
<1>2. CASE rowEditor.pc \in {"read", "checked"}
  <2> DEFINE i == rowEditor.row
  <2>1. i \in RowIds /\ rowEditor.seen \in Row /\ row[i] \in Row
    BY <1>2 DEF SeenHolds, RowsTyped, RowEditor
  <2>2. RowGoesOn(i)
    BY <2>1 DEF RowsGoOn
  <2>3. row'[i].status # "new" /\ rowEditor.seen.version <= row'[i].version
    BY <1>2, <2>1, <2>2, RowParts DEF SeenHolds, RowGoesOn
  <2>4. ASSUME There(i)', row'[i].version = rowEditor.seen.version
        PROVE  row'[i] = rowEditor.seen
    BY <1>2, <2>1, <2>2, <2>4, RowParts DEF SeenHolds, RowGoesOn, There
  <2> QED BY <1>2, <2>1, <2>3, <2>4 DEF SeenHolds
<1> QED BY <1>1, <1>2
(* A request that goes on, and one that ends. *)
LEMMA RequestSteps ==
  ASSUME RowsTyped, NEW r \in ImageRequests,
         NEW pc \in {"put", "swap", "undo", "inUse", "drop", "readKey", "remove"},
         \/ ImageStep(r, pc) /\ imageReq[r].pc # "idle" /\ imageReq[r].row \in PlaceIds
         \/ ImageEnd(r)
  PROVE  imageReq' \in [ImageRequests -> Request]
<1>1. ASSUME imageReq[r].pc # "idle", imageReq[r].row \in PlaceIds
      PROVE  [imageReq[r] EXCEPT !.pc = pc] \in Request
  BY <1>1 DEF RowsTyped, ImageReq, Request, RowIds
<1>2. NoImageReq \in Request
  BY DEF NoImageReq, ImageReq, Request
<1>3. CASE ImageStep(r, pc) /\ imageReq[r].pc # "idle" /\ imageReq[r].row \in PlaceIds
  <2>1. imageReq' = [imageReq EXCEPT ![r] = [imageReq[r] EXCEPT !.pc = pc]]
    BY <1>3 DEF ImageStep
  <2> QED BY <1>1, <1>3, <2>1 DEF RowsTyped
<1>4. CASE ImageEnd(r)
  BY <1>2, <1>4 DEF ImageEnd, RowsTyped
<1> QED BY <1>3, <1>4

(* Whom a request is about. *)
LEMMA RequestPlace ==
  ASSUME RowsTyped, NEW r \in ImageRequests
  PROVE  /\ imageReq[r] \in ImageReq
         /\ imageReq[r].pc # "idle" => imageReq[r].row \in RowIds
         /\ imageReq[r].pc \notin {"idle", "remove"} => imageReq[r].row \in PlaceIds
  BY DEF RowsTyped, Request

LEMMA SwapRows ==
  ASSUME EditorInv, NEW r \in ImageRequests, ReplaceImageKey(r) \/ ReplaceAnswerLost(r)
  PROVE  RowsGoOn /\ imageReq' \in [ImageRequests -> Request] /\ UNCHANGED rowEditor
<1> DEFINE q == imageReq[r]
<1>1. q \in ImageReq /\ (q.pc = "swap" => q.row \in PlaceIds)
  BY RequestPlace DEF EditorInv
<1>2. imageReq' \in [ImageRequests -> Request]
  BY <1>1, RequestSteps DEF ReplaceImageKey, ReplaceAnswerLost, EditorInv
<1>3. RowsGoOn
  <2>1. CASE UNCHANGED row
    BY <2>1, SameRows DEF EditorInv
  <2>2. CASE /\ Replaceable(q.row, q.old)
             /\ row' = [row EXCEPT ![q.row].image = q.new, ![q.row].version = @ + 1]
    <3>1. CASE q.row \in RowIds
      <4> DEFINE a == [row[q.row] EXCEPT !.image = q.new]
                 v == [a EXCEPT !.version = row[q.row].version + 1]
      <4>1. row[q.row] \in Row /\ row[q.row].version \in Nat /\ q.new \in Images \cup {NoImage}
        BY <1>1, <3>1, RowParts DEF EditorInv, RowsTyped, ImageReq
      <4>2. a \in Row /\ a.status = row[q.row].status /\ a.version = row[q.row].version
        BY <4>1 DEF Row
      <4>3. v \in Row /\ v.status = row[q.row].status /\ v.version = row[q.row].version + 1
        <5> HIDE DEF a
        <5> QED BY <4>1, <4>2 DEF Row
      <4>4. row' = [row EXCEPT ![q.row] = v]
        BY <2>2, <4>1 DEF EditorInv, RowsTyped, Row
      <4>5. row[q.row].version < v.version
        BY <4>1, <4>3
      <4> HIDE DEF v
      <4> QED BY <3>1, <4>3, <4>4, <4>5, OneRow DEF EditorInv
    <3>2. CASE q.row \notin RowIds
      <4>1. row' = row
        BY <2>2, <3>2 DEF EditorInv, RowsTyped
      <4> QED BY <4>1, SameRows DEF EditorInv
    <3> QED BY <3>1, <3>2
  <2> QED BY <2>1, <2>2 DEF ReplaceImageKey, ReplaceAnswerLost, ImageKeyReplaced
<1> QED BY <1>2, <1>3 DEF ReplaceImageKey, ReplaceAnswerLost

LEMMA RemovedRows ==
  ASSUME EditorInv, NEW r \in ImageRequests, RemoveRow(r)
  PROVE  RowsGoOn /\ imageReq' \in [ImageRequests -> Request] /\ UNCHANGED rowEditor
<1> DEFINE i == imageReq[r].row
<1>1. imageReq' \in [ImageRequests -> Request]
  <2>1. i \in RowIds
    BY RequestPlace DEF RemoveRow, EditorInv
  <2> QED BY <2>1, RequestPlace, RequestSteps DEF RemoveRow, EditorInv, RowIds
<1>2. RowsGoOn
  <2>1. CASE UNCHANGED row
    BY <2>1, SameRows DEF EditorInv
  <2>2. CASE row' = [row EXCEPT ![i] = [FreshRow EXCEPT !.status = "gone", !.version = row[i].version]]
    <3>1. CASE i \in RowIds
      <4> DEFINE a == [FreshRow EXCEPT !.status = "gone"]
                 v == [a EXCEPT !.version = row[i].version]
      <4>1. row[i].version \in Nat
        BY <3>1, RowParts DEF EditorInv, RowsTyped
      <4>2. a \in Row /\ a.status = "gone"
        BY FreshRowTyped DEF Row
      <4>3. v \in Row /\ v.status = "gone" /\ v.version = row[i].version
        <5> HIDE DEF a
        <5> QED BY <4>1, <4>2 DEF Row
      <4>4. row' = [row EXCEPT ![i] = v]
        BY <2>2, FreshRowTyped DEF Row
      <4> HIDE DEF v
      <4> QED BY <3>1, <4>3, <4>4, OneRow DEF EditorInv
    <3>2. CASE i \notin RowIds
      <4>1. row' = row
        BY <2>2, <3>2 DEF EditorInv, RowsTyped
      <4> QED BY <4>1, SameRows DEF EditorInv
    <3> QED BY <3>1, <3>2
  <2> QED BY <2>1, <2>2 DEF RemoveRow
<1> QED BY <1>1, <1>2 DEF RemoveRow

(* A request that begins. *)
LEMMA RequestsBegin ==
  ASSUME EditorInv, NEW r \in ImageRequests, NEW i \in RowIds,
         \/ i \in PlaceIds /\ (StartSetImage(r, i) \/ StartDeleteImage(r, i))
         \/ DeleteVenue(r, i) \/ DeleteSpot(r, i) \/ DeleteEvent(r, i)
  PROVE  UNCHANGED row /\ imageReq' \in [ImageRequests -> Request] /\ UNCHANGED rowEditor
<1>1. row[i].image \in Images \cup {NoImage}
  BY RowParts DEF EditorInv, RowsTyped
<1>2. CASE i \in PlaceIds /\ StartSetImage(r, i)
  <2>1. PICK k \in FreshKey(i) :
          imageReq' = [imageReq EXCEPT ![r] = [pc |-> "put", row |-> i, old |-> row[i].image, new |-> k]]
    BY <1>2 DEF StartSetImage
  <2>2. k \in Images
    BY DEF FreshKey
  <2>3. [pc |-> "put", row |-> i, old |-> row[i].image, new |-> k] \in Request
    BY <1>1, <1>2, <2>2 DEF ImageReq, Request, StartSetImage
  <2> QED BY <1>2, <2>1, <2>3 DEF StartSetImage, EditorInv, RowsTyped
<1>3. CASE i \in PlaceIds /\ StartDeleteImage(r, i)
  <2>1. [pc |-> "swap", row |-> i, old |-> row[i].image, new |-> NoImage] \in Request
    BY <1>1, <1>3 DEF ImageReq, Request
  <2> QED BY <1>3, <2>1 DEF StartDeleteImage, EditorInv, RowsTyped
<1>4. ASSUME NEW pc \in {"readKey", "remove"}, StartRemove(r, i, pc),
             pc = "readKey" => i \in PlaceIds
      PROVE  UNCHANGED row /\ imageReq' \in [ImageRequests -> Request] /\ UNCHANGED rowEditor
  <2> DEFINE a == [imageReq[r] EXCEPT !.pc = pc]
             v == [a EXCEPT !.row = i]
  <2>1. a \in ImageReq /\ a.pc = pc
    BY RequestPlace DEF EditorInv, ImageReq
  <2>2. v \in Request
    <3> HIDE DEF a
    <3> QED BY <1>4, <2>1 DEF ImageReq, Request
  <2>3. imageReq' = [imageReq EXCEPT ![r] = v]
    BY <1>4 DEF StartRemove
  <2> QED BY <1>4, <2>2, <2>3 DEF StartRemove, EditorInv, RowsTyped
<1> QED BY <1>2, <1>3, <1>4 DEF DeleteVenue, DeleteSpot, DeleteEvent, PlaceIds

LEMMA RequestsGoOn ==
  ASSUME EditorInv, NEW r \in ImageRequests,
         \/ PutImage(r) \/ ReplaceFails(r) \/ UndoImage(r) \/ CheckImageUse(r) \/ DropImage(r)
         \/ ImageRequestDies(r) \/ ReadKey(r)
  PROVE  UNCHANGED row /\ imageReq' \in [ImageRequests -> Request] /\ UNCHANGED rowEditor
<1>1. CASE ReadKey(r)
  <2> DEFINE i == imageReq[r].row
             a == [imageReq[r] EXCEPT !.pc = "remove"]
             v == [a EXCEPT !.old = row[i].image]
  <2>1. i \in RowIds /\ row[i].image \in Images \cup {NoImage}
    BY <1>1, RequestPlace, RowParts DEF ReadKey, EditorInv, RowsTyped
  <2>2. a \in ImageReq /\ a.pc = "remove" /\ a.row = i
    BY RequestPlace DEF EditorInv, ImageReq
  <2>3. v \in Request
    <3> HIDE DEF a
    <3> QED BY <2>1, <2>2 DEF ImageReq, Request
  <2>4. imageReq' = [imageReq EXCEPT ![r] = v]
    BY <1>1 DEF ReadKey
  <2> QED BY <1>1, <2>3, <2>4 DEF ReadKey, EditorInv, RowsTyped
<1>2. CASE PutImage(r) \/ ReplaceFails(r) \/ CheckImageUse(r)
  BY <1>2, RequestPlace, RequestSteps DEF PutImage, ReplaceFails, CheckImageUse, EditorInv
<1>3. CASE UndoImage(r) \/ DropImage(r) \/ ImageRequestDies(r)
  BY <1>3, RequestSteps DEF UndoImage, DropImage, ImageRequestDies, EditorInv
<1> QED BY <1>1, <1>2, <1>3
LEMMA CreatedRows ==
  ASSUME EditorInv, NEW i \in RowIds, NEW name \in EventNames, NEW vs \in SUBSET Venues,
         CreateRow(i, name, vs)
  PROVE  RowsGoOn
<1> DEFINE a == [row[i] EXCEPT !.status = "there"]
           b == [a EXCEPT !.name = name]
           v == [b EXCEPT !.venues = vs]
<1>1. row[i] \in Row
  BY DEF EditorInv, RowsTyped
<1>2. a \in Row
  BY <1>1 DEF Row
<1>3. b \in Row
  <2> HIDE DEF a
  <2> QED BY <1>2 DEF Row
<1>4. v \in Row
  <2> HIDE DEF b
  <2> QED BY <1>3 DEF Row
<1>5. row' = [row EXCEPT ![i] = v]
  BY DEF CreateRow
<1>6. row[i].status = "new"
  BY DEF CreateRow
<1> HIDE DEF v
<1> QED BY <1>4, <1>5, <1>6, OneRow DEF EditorInv

(* The form of an editor. *)
LEMMA FormSteps ==
  ASSUME EditorInv
  PROVE  /\ \A i \in RowIds : ReadRow(i) => UNCHANGED <<row, imageReq>> /\ SeenHolds' /\ rowEditor' \in RowEditor
         /\ \A name \in EventNames, vs \in SUBSET Venues :
              CheckSave(name, vs) => UNCHANGED <<row, imageReq>> /\ SeenHolds' /\ rowEditor' \in RowEditor
<1>1. ASSUME NEW i \in RowIds, ReadRow(i)
      PROVE  UNCHANGED <<row, imageReq>> /\ SeenHolds' /\ rowEditor' \in RowEditor
  <2> DEFINE a == [NoEditor EXCEPT !.pc = "read"]
             b == [a EXCEPT !.row = i]
             v == [b EXCEPT !.seen = row[i]]
  <2>1. rowEditor' = v /\ There(i) /\ row[i] \in Row /\ UNCHANGED <<row, imageReq>>
    BY <1>1 DEF ReadRow, ReadVenue, ReadSpot, ReadEvent, SeesRow, EditorInv, RowsTyped
  <2>2. a \in RowEditor /\ a.pc = "read"
    BY NoEditorTyped DEF RowEditor
  <2>3. b \in RowEditor /\ b.pc = "read" /\ b.row = i
    <3> HIDE DEF a
    <3> QED BY <2>2 DEF RowEditor
  <2>4. v \in RowEditor /\ v.pc = "read" /\ v.row = i /\ v.seen = row[i]
    <3> HIDE DEF b
    <3> QED BY <2>1, <2>3 DEF RowEditor
  <2> HIDE DEF v
  <2> QED BY <2>1, <2>4, RowParts DEF SeenHolds, There
<1>2. ASSUME NEW name \in EventNames, NEW vs \in SUBSET Venues, CheckSave(name, vs)
      PROVE  UNCHANGED <<row, imageReq>> /\ SeenHolds' /\ rowEditor' \in RowEditor
  <2> DEFINE a == [rowEditor EXCEPT !.pc = "checked"]
             b == [a EXCEPT !.name = name]
             v == [b EXCEPT !.venues = vs]
  <2>1. CASE rowEditor' = NoEditor
    BY <1>2, <2>1, NoEditorTyped DEF CheckSave, SeenHolds
  <2>2. CASE rowEditor' = v
    <3>1. rowEditor \in RowEditor /\ rowEditor.pc = "read" /\ UNCHANGED <<row, imageReq>>
      BY <1>2 DEF CheckSave, EditorInv, RowsTyped
    <3>2. a \in RowEditor /\ a.pc = "checked" /\ a.row = rowEditor.row /\ a.seen = rowEditor.seen
      BY <3>1 DEF RowEditor
    <3>3. b \in RowEditor /\ b.pc = "checked" /\ b.row = rowEditor.row /\ b.seen = rowEditor.seen
      <4> HIDE DEF a
      <4> QED BY <3>2 DEF RowEditor
    <3>4. v \in RowEditor /\ v.pc = "checked" /\ v.row = rowEditor.row /\ v.seen = rowEditor.seen
          /\ v.venues = vs
      <4> HIDE DEF b
      <4> QED BY <3>3 DEF RowEditor
    <3>5. rowEditor.row \in PlaceIds => vs = {}
      BY <1>2 DEF CheckSave
    <3> HIDE DEF v
    <3> QED BY <2>2, <3>1, <3>4, <3>5 DEF SeenHolds, EditorInv, There
  <2> QED BY <1>2, <2>1, <2>2 DEF CheckSave
<1> QED BY <1>1, <1>2

(* A save with a version: nothing, or what was given onto what was read. *)
LEMMA SaveRowSteps ==
  ASSUME EditorInv, SaveRow
  PROVE  /\ RowsGoOn /\ rowEditor' = NoEditor /\ UNCHANGED imageReq
         /\ row' # row =>
              LET i == rowEditor.row IN
              /\ row[i] = rowEditor.seen
              /\ row'[i].name = rowEditor.name /\ row'[i].venues = rowEditor.venues
<1> DEFINE i == rowEditor.row
<1>1. i \in RowIds /\ rowEditor.name \in EventNames /\ rowEditor.venues \in SUBSET Venues
      /\ (i \in PlaceIds => rowEditor.venues = {}) /\ rowEditor.pc = "checked"
  BY DEF SaveRow, EditorInv, SeenHolds, RowsTyped, RowEditor
<1>2. CASE UNCHANGED row
  BY <1>2, SameRows DEF SaveRow, EditorInv
<1>3. CASE /\ Unchanged(i, rowEditor.seen.version)
           /\ SaveVenue(i) \/ SaveSpot(i) \/ SaveEvent(i)
  <2>1. row[i] = rowEditor.seen
    BY <1>1, <1>3 DEF Unchanged, EditorInv, SeenHolds
  <2>2. Saved(i, rowEditor.name, rowEditor.venues)
    BY <1>1, <1>3 DEF SaveVenue, SaveSpot, SaveEvent, PlaceIds
  <2>3. RowsGoOn /\ row'[i].name = rowEditor.name /\ row'[i].venues = rowEditor.venues
    BY <1>1, <2>2, SavedRow DEF EditorInv
  <2> QED BY <2>1, <2>3 DEF SaveRow
<1> QED BY <1>2, <1>3 DEF SaveRow

LEMMA PlacesSteps ==
  ASSUME EditorInv, PlacesNext
  PROVE  /\ EditorInv'
         /\ rowEditor.pc = "checked" /\ rowEditor'.pc = "idle" /\ row' # row => SaveRow
<1>1. CASE SaveRow
  BY <1>1, SaveRowSteps, NoEditorTyped DEF EditorInv, RowsTyped, SeenHolds, RowsGoOn
<1>2. ASSUME RowsGoOn, imageReq' \in [ImageRequests -> Request], UNCHANGED rowEditor
      PROVE  EditorInv' /\ ~(rowEditor.pc = "checked" /\ rowEditor'.pc = "idle")
  BY <1>2, SeenGoesOn DEF EditorInv, RowsTyped, RowsGoOn
<1>3. ASSUME UNCHANGED <<row, imageReq>>, SeenHolds', rowEditor' \in RowEditor
      PROVE  EditorInv' /\ row' = row
  BY <1>3 DEF EditorInv, RowsTyped
<1>4. ASSUME NEW name \in EventNames, NEW vs \in SUBSET Venues,
             \/ CheckSave(name, vs)
             \/ \E i \in RowIds : SaveBlindly(i, name, vs)
             \/ \E e \in Events : CreateEvent(e, name, vs)
             \/ \E v \in Venues : CreateVenue(v, name)
             \/ \E p \in Spots : CreateSpot(p, name)
      PROVE  EditorInv' /\ ~(rowEditor.pc = "checked" /\ rowEditor'.pc = "idle" /\ row' # row)
  <2>1. CASE CheckSave(name, vs)
    BY <1>3, <2>1, FormSteps
  <2>2. ASSUME NEW i \in RowIds, SaveBlindly(i, name, vs)
        PROVE  RowsGoOn /\ UNCHANGED <<imageReq, rowEditor>>
    BY <2>2, SavedRow DEF SaveBlindly, EditorInv
  <2>3. ASSUME NEW i \in RowIds, \/ CreateEvent(i, name, vs) \/ CreateVenue(i, name) \/ CreateSpot(i, name)
        PROVE  RowsGoOn /\ UNCHANGED <<imageReq, rowEditor>>
    BY <2>3, CreatedRows DEF CreateEvent, CreateVenue, CreateSpot, CreateRow
  <2> QED BY <1>2, <1>4, <2>1, <2>2, <2>3 DEF EditorInv, RowsTyped, RowIds, PlaceIds
<1>5. ASSUME NEW i \in RowIds, ReadRow(i)
      PROVE  EditorInv' /\ row' = row
  BY <1>3, <1>5, FormSteps
<1>6. ASSUME NEW e \in Events,
             ClearGatherings(e) \/ AddAudience(e) \/ DropAudience(e) \/ \E p \in Spots : AddGathering(e, p)
      PROVE  EditorInv' /\ row' = row
  <2>1. UNCHANGED <<row, imageReq, rowEditor>>
    BY <1>6 DEF ClearGatherings, AddAudience, DropAudience, AddGathering
  <2> QED BY <1>2, <2>1, SameRows DEF EditorInv, RowsTyped
<1>7. ASSUME NEW r \in ImageRequests,
             \/ PutImage(r) \/ ReplaceImageKey(r) \/ ReplaceFails(r) \/ ReplaceAnswerLost(r)
             \/ UndoImage(r) \/ CheckImageUse(r) \/ DropImage(r) \/ ImageRequestDies(r) \/ ReadKey(r) \/ RemoveRow(r)
             \/ \E i \in PlaceIds : StartSetImage(r, i) \/ StartDeleteImage(r, i)
             \/ (\E v \in Venues : DeleteVenue(r, v)) \/ (\E p \in Spots : DeleteSpot(r, p))
             \/ \E e \in Events : DeleteEvent(r, e)
      PROVE  EditorInv' /\ ~(rowEditor.pc = "checked" /\ rowEditor'.pc = "idle")
  <2>1. RowsGoOn /\ imageReq' \in [ImageRequests -> Request] /\ UNCHANGED rowEditor
    <3>1. CASE ReplaceImageKey(r) \/ ReplaceAnswerLost(r)
      BY <3>1, SwapRows
    <3>2. CASE RemoveRow(r)
      BY <3>2, RemovedRows
    <3>3. ASSUME NEW i \in RowIds,
                 \/ i \in PlaceIds /\ (StartSetImage(r, i) \/ StartDeleteImage(r, i))
                 \/ DeleteVenue(r, i) \/ DeleteSpot(r, i) \/ DeleteEvent(r, i)
          PROVE  RowsGoOn /\ imageReq' \in [ImageRequests -> Request] /\ UNCHANGED rowEditor
      BY <3>3, RequestsBegin, SameRows DEF EditorInv
    <3>4. CASE PutImage(r) \/ ReplaceFails(r) \/ UndoImage(r) \/ CheckImageUse(r) \/ DropImage(r)
               \/ ImageRequestDies(r) \/ ReadKey(r)
      BY <3>4, RequestsGoOn, SameRows DEF EditorInv
    <3> QED BY <1>7, <3>1, <3>2, <3>3, <3>4 DEF RowIds, PlaceIds
  <2> QED BY <1>2, <2>1
<1> QED BY <1>1, <1>4, <1>5, <1>6, <1>7, PlacesConstants DEF PlacesNext

LEMMA PlacesStart == PlacesInit => EditorInv
<1> SUFFICES ASSUME PlacesInit PROVE EditorInv
  OBVIOUS
<1>1. \A st \in {"there", "new"} : [FreshRow EXCEPT !.status = st] \in Row
  BY FreshRowTyped DEF Row
<1>2. row \in [RowIds -> Row]
  BY <1>1 DEF PlacesInit
<1>3. imageReq \in [ImageRequests -> Request]
  BY DEF PlacesInit, NoImageReq, ImageReq, Request
<1> QED BY <1>2, <1>3, NoEditorTyped DEF PlacesInit, EditorInv, RowsTyped, SeenHolds

(* A save with a version is based on the row as it was read, whatever was saved  *)
(* without one, whichever images were replaced and places removed meanwhile.  *)
THEOREM RowsSavedAsRead == PlacesSpec => RowSavedAsRead
<1>1. EditorInv /\ UNCHANGED placesVars => EditorInv'
  BY DEF placesVars, EditorInv, RowsTyped, SeenHolds, There
<1>2. PlacesSpec => []EditorInv
  BY <1>1, PlacesStart, PlacesSteps, PTL DEF PlacesSpec
<1>3. ASSUME EditorInv, [PlacesNext]_placesVars, NEW i \in RowIds,
             rowEditor.pc = "checked", rowEditor.row = i, rowEditor'.pc = "idle", row'[i] # row[i]
      PROVE  /\ row[i] = rowEditor.seen
             /\ row'[i].name = rowEditor.name /\ row'[i].venues = rowEditor.venues
  <2>1. PlacesNext /\ row' # row
    BY <1>3 DEF placesVars
  <2>2. SaveRow
    BY <1>3, <2>1, PlacesSteps
  <2> QED BY <1>3, <2>1, <2>2, SaveRowSteps
<1>4. EditorInv /\ [PlacesNext]_placesVars =>
        [\A i \in RowIds :
           /\ rowEditor.pc = "checked" /\ rowEditor.row = i
           /\ rowEditor'.pc = "idle" /\ row'[i] # row[i]
           => /\ row[i] = rowEditor.seen
              /\ row'[i].name = rowEditor.name /\ row'[i].venues = rowEditor.venues]_placesVars
  BY <1>3
<1> QED BY <1>2, <1>4, PTL DEF PlacesSpec, RowSavedAsRead

(* A request that has an image for a row, which is not named yet. *)
Storing(v) == v.pc \in {"put", "swap", "undo"} /\ v.new \notin {NoImage} \cup doubted
Dropping(v) == v.pc \in {"inUse", "drop"}

(* The image of a row is stored, or in doubt, and lies under the path of the row. *)
RowImages ==
  \A i \in RowIds :
    /\ ~There(i) => row[i].image = NoImage
    /\ i \in PlaceIds /\ row[i].image # NoImage =>
         row[i].image \in bucket \cup doubted /\ PathOf[row[i].image] = i

(* What is stored was stored for a row that was there. *)
Stored == bucket \subseteq Images /\ \A k \in bucket : row[PathOf[k]].status # "new"

(* A new image is named by nobody yet, and nobody else has it in hand. *)
NewApart ==
  \A r, q \in ImageRequests : Storing(imageReq[r]) =>
    /\ imageReq[q].old # imageReq[r].new
    /\ q # r /\ Storing(imageReq[q]) => imageReq[q].new # imageReq[r].new

NewImage(v) ==
  /\ v.pc = "put" => Storing(v)
  /\ v.pc = "swap" /\ v.new # NoImage => Storing(v)
  /\ Storing(v) =>
       /\ PathOf[v.new] = v.row /\ row[v.row].status # "new"
       /\ \A i \in PlaceIds : row[i].image # v.new
       /\ v.pc = "swap" => v.new \in bucket

(* An image that is deleted is named by nobody any more. *)
OldImage(v) ==
  v.pc = "drop" => v.old # NoImage /\ \A i \in PlaceIds : row[i].image # v.old

NoneLost ==
  faults = 0 =>
    \A k \in bucket : There(PathOf[k]) => row[PathOf[k]].image = k \/ InHand(k)

ImageInv ==
  /\ RowsTyped /\ faults \in Nat
  /\ RowImages /\ Stored /\ NewApart
  /\ \A r \in ImageRequests : NewImage(imageReq[r]) /\ OldImage(imageReq[r])
  /\ NoneLost

LEMMA Fields ==
  ASSUME NEW v \in ImageReq
  PROVE  /\ v.pc \in {"idle", "put", "swap", "undo", "inUse", "drop", "readKey", "remove"}
         /\ v.row \in RowIds \cup {NoImage}
         /\ v.old \in Images \cup {NoImage} /\ v.new \in Images \cup {NoImage}
         /\ v.new # NoImage => v.new \in Images /\ PathOf[v.new] \in PlaceIds
         /\ \A pc \in {"put", "swap", "undo", "inUse", "drop", "readKey", "remove"} :
              LET w == [v EXCEPT !.pc = pc] IN
                w \in ImageReq /\ w.pc = pc /\ w.row = v.row /\ w.old = v.old /\ w.new = v.new
         /\ NoImageReq \in ImageReq /\ NoImageReq.pc = "idle" /\ NoImageReq.old = NoImage
  BY PlacesConstants DEF ImageReq, NoImageReq

(* A request moves on: it stores no other image than it had, and has a row's   *)
(* image, or none, to delete. *)
Moves(r, v) ==
  /\ v \in ImageReq /\ v.pc # "put" /\ UNCHANGED doubted
  /\ imageReq' = [imageReq EXCEPT ![r] = v]
  /\ v.pc = "swap" /\ v.new # NoImage => Storing(v)
  /\ Storing(v) => Storing(imageReq[r]) /\ v.new = imageReq[r].new /\ v.row = imageReq[r].row
  /\ v.old \in {imageReq[r].old, NoImage} \/ \E i \in PlaceIds : v.old = row[i].image

LEMMA RequestMoved ==
  ASSUME ImageInv, NEW r \in ImageRequests, NEW v, Moves(r, v)
  PROVE  /\ imageReq'[r] = v /\ \A q \in ImageRequests \ {r} : imageReq'[q] = imageReq[q]
         /\ NewApart'
<1>1. imageReq'[r] = v /\ \A q \in ImageRequests \ {r} : imageReq'[q] = imageReq[q]
  BY DEF Moves, ImageInv, RowsTyped
<1>2. ASSUME NEW p \in ImageRequests, Storing(imageReq'[p])
      PROVE  /\ Storing(imageReq[p]) /\ imageReq'[p].new = imageReq[p].new
             /\ imageReq[p].new # NoImage
             /\ \A i \in PlaceIds : row[i].image # imageReq[p].new
  <2>1. Storing(imageReq[p]) /\ imageReq'[p].new = imageReq[p].new
    BY <1>1, <1>2 DEF Moves
  <2> QED BY <2>1 DEF ImageInv, NewImage, Storing
<1>3. ASSUME NEW p \in ImageRequests, NEW q \in ImageRequests, Storing(imageReq'[p])
      PROVE  /\ imageReq'[q].old # imageReq'[p].new
             /\ q # p /\ Storing(imageReq'[q]) => imageReq'[q].new # imageReq'[p].new
  <2>1. imageReq[q].old # imageReq[p].new
    BY <1>2, <1>3 DEF ImageInv, NewApart
  <2>2. imageReq'[q].old # imageReq'[p].new
    BY <1>1, <1>2, <1>3, <2>1 DEF Moves
  <2>3. ASSUME q # p, Storing(imageReq'[q])
        PROVE  imageReq'[q].new # imageReq'[p].new
    BY <1>2, <1>3, <2>3 DEF ImageInv, NewApart
  <2> QED BY <2>2, <2>3
<1> QED BY <1>1, <1>3 DEF Moves, NewApart, Storing
Holds(v, k) ==
  \/ v.pc \in {"put", "swap", "undo"} /\ v.new = k
  \/ v.pc \in {"inUse", "drop"} /\ v.old = k

LEMMA HandKept ==
  ASSUME NEW r \in ImageRequests, NEW v, NEW k, InHand(k), imageReq'[r] = v,
         \A q \in ImageRequests \ {r} : imageReq'[q] = imageReq[q],
         Holds(imageReq[r], k) => Holds(v, k)
  PROVE  InHand(k)'
<1>1. PICK q \in ImageRequests : Holds(imageReq[q], k)
  BY DEF InHand, Holds
<1>2. Holds(imageReq'[q], k)
  BY <1>1
<1> QED BY <1>2 DEF InHand, Holds

(* Steps that change neither which rows are there nor their images. *)
SameImages ==
  \A i \in RowIds : row'[i].image = row[i].image /\ row'[i].status = row[i].status

LEMMA PathOfIn == \A k \in Images : PathOf[k] \in PlaceIds /\ PathOf[k] \in RowIds
  BY PlacesConstants DEF RowIds

LEMMA RowsAlone ==
  ASSUME ImageInv, RowsTyped', SameImages, UNCHANGED <<bucket, imageReq, faults, doubted>>
  PROVE  ImageInv'
<1>1. RowImages' /\ Stored'
  BY PathOfIn DEF ImageInv, RowImages, Stored, SameImages, There, RowIds
<1>2. NewApart'
  BY DEF ImageInv, NewApart, Storing
<1>3. ASSUME NEW r \in ImageRequests
      PROVE  NewImage(imageReq[r])' /\ OldImage(imageReq[r])'
  <2>1. NewImage(imageReq[r]) /\ OldImage(imageReq[r]) /\ (imageReq[r].pc # "idle" => imageReq[r].row \in RowIds)
    BY RequestPlace DEF ImageInv
  <2> QED BY <2>1 DEF SameImages, NewImage, OldImage, Storing, RowIds
<1>4. NoneLost'
  <2>1. \A k \in bucket : There(PathOf[k])' = There(PathOf[k]) /\ row'[PathOf[k]].image = row[PathOf[k]].image
    BY PathOfIn DEF ImageInv, Stored, SameImages, There
  <2>2. \A k : InHand(k)' = InHand(k)
    BY DEF InHand
  <2> QED BY <2>1, <2>2 DEF ImageInv, NoneLost
<1> QED BY <1>1, <1>2, <1>3, <1>4 DEF ImageInv

(* A request moves on and no row changes: what is left to show. *)
LEMMA MovesAlone ==
  ASSUME ImageInv, RowsTyped', UNCHANGED row, NEW r \in ImageRequests, NEW v, Moves(r, v),
         faults' \in Nat, faults' = 0 => faults = 0,
         bucket' \subseteq Images, \A k \in bucket' : k \in bucket \/ (Storing(v) /\ k = v.new),
         \A k \in bucket \ bucket' : /\ k \in doubted \/ \A i \in PlaceIds : row[i].image # k
                                  /\ \A q \in ImageRequests \ {r} : Storing(imageReq[q]) => imageReq[q].new # k,
         Storing(v) => bucket \subseteq bucket',
         v.pc = "swap" /\ Storing(v) => v.new \in bucket',
         OldImage(v),
         faults' = 0 => \A k \in bucket' :
            /\ Holds(imageReq[r], k) /\ There(PathOf[k]) => Holds(v, k) \/ row[PathOf[k]].image = k
            /\ k \notin bucket => Holds(v, k)
  PROVE  ImageInv'
<1>1. /\ imageReq'[r] = v /\ \A q \in ImageRequests \ {r} : imageReq'[q] = imageReq[q]
      /\ NewApart'
  BY RequestMoved
<1>2. RowImages'
  BY DEF Moves, ImageInv, RowImages, There
<1>3. Storing(v) => NewImage(imageReq[r]) /\ Storing(imageReq[r]) /\ v.new = imageReq[r].new /\ v.row = imageReq[r].row
  BY DEF Moves, ImageInv
<1>4. Stored'
  <2>1. \A k \in bucket' : row[PathOf[k]].status # "new"
    BY <1>3 DEF ImageInv, Stored, NewImage
  <2> QED BY <2>1 DEF Stored
<1>5. NewImage(v)' /\ OldImage(v)'
  BY <1>3 DEF NewImage, OldImage, Moves, Storing
<1>6. ASSUME NEW q \in ImageRequests \ {r}
      PROVE  NewImage(imageReq[q])' /\ OldImage(imageReq[q])'
  <2>1. NewImage(imageReq[q]) /\ OldImage(imageReq[q]) /\ imageReq'[q] = imageReq[q]
    BY <1>1 DEF ImageInv
  <2> QED BY <2>1 DEF Moves, NewImage, OldImage, Storing
<1>7. NewImage(imageReq[r])' /\ OldImage(imageReq[r])'
  BY <1>1, <1>5 DEF NewImage, OldImage, Storing
<1>8. NoneLost'
  <2>1. SUFFICES ASSUME faults' = 0, NEW k \in bucket', There(PathOf[k])
                 PROVE  row[PathOf[k]].image = k \/ InHand(k)'
    BY DEF NoneLost, There
  <2>2. CASE k \notin bucket
    BY <1>1, <2>1, <2>2 DEF InHand, Holds
  <2>3. CASE k \in bucket /\ InHand(k)
    <3>1. CASE Holds(imageReq[r], k) => Holds(v, k)
      BY <1>1, <2>3, <3>1, HandKept
    <3>2. CASE Holds(imageReq[r], k) /\ ~Holds(v, k)
      BY <2>1, <3>2
    <3> QED BY <3>1, <3>2
  <2>4. CASE k \in bucket /\ ~InHand(k)
    BY <2>1, <2>4 DEF ImageInv, NoneLost
  <2> QED BY <2>2, <2>3, <2>4
<1> QED BY <1>1, <1>2, <1>4, <1>6, <1>7, <1>8 DEF ImageInv
(* Where a request is before it moves. *)
LEMMA Before ==
  ASSUME ImageInv, NEW r \in ImageRequests
  PROVE  /\ imageReq[r] \in ImageReq /\ NewImage(imageReq[r]) /\ OldImage(imageReq[r])
         /\ NoImage \notin bucket
         /\ NoImageReq \in ImageReq /\ NoImageReq.pc = "idle" /\ NoImageReq.old = NoImage
         /\ ~Storing(NoImageReq)
  BY RequestPlace, PlacesConstants DEF ImageInv, Stored, ImageReq, NoImageReq, Storing

LEMMA StepsOn ==
  ASSUME ImageInv, NEW r \in ImageRequests,
         NEW pc \in {"swap", "undo", "inUse", "drop", "readKey", "remove"}, ImageStep(r, pc),
         pc \in {"swap", "undo"} => imageReq[r].pc \in {"put", "swap", "undo"},
         pc = "swap" => imageReq[r].pc = "put", UNCHANGED doubted
  PROVE  LET v == [imageReq[r] EXCEPT !.pc = pc] IN
           /\ Moves(r, v) /\ v.pc = pc /\ v.old = imageReq[r].old /\ v.new = imageReq[r].new
           /\ v.row = imageReq[r].row
<1> DEFINE v == [imageReq[r] EXCEPT !.pc = pc]
<1>1. imageReq[r] \in ImageReq
  BY Before
<1>2. /\ v \in ImageReq /\ v.pc = pc /\ v.old = imageReq[r].old /\ v.new = imageReq[r].new
      /\ v.row = imageReq[r].row
  BY <1>1 DEF ImageReq
<1>3. imageReq' = [imageReq EXCEPT ![r] = v]
  BY DEF ImageStep
<1> HIDE DEF v
<1>4. Moves(r, v)
  BY <1>2, <1>3, Before DEF Moves, Storing, NewImage
<1> QED BY <1>2, <1>4 DEF v

LEMMA EndMoves ==
  ASSUME ImageInv, NEW r \in ImageRequests, ImageEnd(r), UNCHANGED doubted
  PROVE  Moves(r, NoImageReq)
  BY Before DEF Moves, ImageEnd

LEMMA ImageSteps ==
  ASSUME ImageInv, RowsTyped', UNCHANGED row, NEW r \in ImageRequests,
         \/ PutImage(r) \/ ReplaceFails(r) \/ CheckImageUse(r) \/ ReadKey(r)
         \/ UndoImage(r) \/ DropImage(r) \/ ImageRequestDies(r) \/ ReplaceImageKey(r) \/ RemoveRow(r)
  PROVE  ImageInv'
<1> DEFINE q == imageReq[r]
<1>0. UNCHANGED doubted
  BY DEF PutImage, ReplaceFails, CheckImageUse, ReadKey, UndoImage, DropImage, ImageRequestDies,
         ReplaceImageKey, RemoveRow
<1>1. bucket \subseteq Images /\ NoImage \notin bucket /\ faults \in Nat
  BY Before DEF ImageInv, Stored
<1>2. CASE PutImage(r)
  <2> DEFINE v == [imageReq[r] EXCEPT !.pc = "swap"]
  <2>1. /\ Moves(r, v) /\ v.pc = "swap" /\ v.old = q.old /\ v.new = q.new /\ q.pc = "put"
    BY <1>2, <1>0, StepsOn DEF PutImage
  <2> HIDE DEF v
  <2>2. Storing(q) /\ Storing(v) /\ q.new \in Images
    <3>1. Storing(q) /\ q \in ImageReq
      BY <2>1, Before DEF NewImage
    <3>2. q.new \in Images
      BY <3>1 DEF Storing, ImageReq
    <3>3. Storing(v)
      BY <2>1, <3>1 DEF Storing
    <3> QED BY <3>1, <3>2, <3>3
  <2>3. bucket' = bucket \cup {q.new} /\ UNCHANGED faults
    BY <1>2 DEF PutImage
  <2>4. ASSUME NEW k, Holds(q, k) \/ k \notin bucket, k \in bucket' PROVE Holds(v, k)
    BY <2>1, <2>3, <2>4 DEF Holds
  <2> QED BY <1>1, <2>1, <2>2, <2>3, <2>4, MovesAlone DEF OldImage
<1>3. CASE ReplaceFails(r)
  <2> DEFINE v == [imageReq[r] EXCEPT !.pc = "undo"]
  <2>1. /\ Moves(r, v) /\ v.pc = "undo"
    BY <1>3, <1>0, StepsOn DEF ReplaceFails
  <2> HIDE DEF v
  <2>2. faults' = faults + 1 /\ UNCHANGED bucket
    BY <1>3 DEF ReplaceFails, Fault
  <2>3. faults' \in Nat /\ faults' # 0
    BY <1>1, <2>2
  <2> QED BY <1>1, <2>1, <2>2, <2>3, MovesAlone DEF OldImage
<1>4. CASE ImageRequestDies(r)
  <2>1. Moves(r, NoImageReq) /\ NoImageReq.pc = "idle" /\ ~Storing(NoImageReq)
    BY <1>4, <1>0, EndMoves, Before DEF ImageRequestDies
  <2>2. faults' = faults + 1 /\ UNCHANGED bucket
    BY <1>4 DEF ImageRequestDies, Fault
  <2>3. faults' \in Nat /\ faults' # 0
    BY <1>1, <2>2
  <2> QED BY <1>1, <2>1, <2>2, <2>3, MovesAlone DEF OldImage
<1>5. CASE UndoImage(r)
  <2>1. Moves(r, NoImageReq) /\ NoImageReq.pc = "idle" /\ ~Storing(NoImageReq) /\ q.pc = "undo"
    BY <1>5, <1>0, EndMoves, Before DEF UndoImage
  <2>2. bucket' = bucket \ {q.new} /\ UNCHANGED faults
    BY <1>5 DEF UndoImage
  <2>3. ASSUME NEW k \in bucket \ bucket'
        PROVE  /\ k \in doubted \/ \A i \in PlaceIds : row[i].image # k
               /\ \A p \in ImageRequests \ {r} : Storing(imageReq[p]) => imageReq[p].new # k
    <3>1. k = q.new /\ k # NoImage
      BY <1>1, <2>2
    <3>2. CASE k \in doubted
      BY <3>1, <3>2 DEF Storing
    <3>3. CASE k \notin doubted
      <4>1. Storing(q)
        BY <2>1, <3>1, <3>3 DEF Storing
      <4> QED BY <3>1, <4>1, Before DEF NewImage, ImageInv, NewApart
    <3> QED BY <3>2, <3>3
  <2>4. ASSUME NEW k \in bucket' PROVE ~Holds(q, k) /\ k \in bucket
    BY <2>1, <2>2 DEF Holds
  <2> QED BY <1>1, <2>1, <2>2, <2>3, <2>4, MovesAlone DEF OldImage
<1>6. CASE DropImage(r)
  <2>1. Moves(r, NoImageReq) /\ NoImageReq.pc = "idle" /\ ~Storing(NoImageReq) /\ q.pc = "drop"
    BY <1>6, <1>0, EndMoves, Before DEF DropImage
  <2>2. bucket' = bucket \ {q.old} /\ UNCHANGED faults
    BY <1>6 DEF DropImage
  <2>3. ASSUME NEW k \in bucket \ bucket'
        PROVE  /\ k \in doubted \/ \A i \in PlaceIds : row[i].image # k
               /\ \A p \in ImageRequests \ {r} : Storing(imageReq[p]) => imageReq[p].new # k
    <3>1. k = q.old
      BY <2>2
    <3> QED BY <2>1, <3>1, Before DEF OldImage, ImageInv, NewApart
  <2>4. ASSUME NEW k \in bucket' PROVE ~Holds(q, k) /\ k \in bucket
    BY <2>1, <2>2 DEF Holds
  <2> QED BY <1>1, <2>1, <2>2, <2>3, <2>4, MovesAlone DEF OldImage
<1>7. CASE CheckImageUse(r)
  <2>1. q.pc = "inUse" /\ UNCHANGED <<bucket, faults>>
    BY <1>7 DEF CheckImageUse
  <2>2. CASE ImageEnd(r) /\ (q.old = NoImage \/ \E i \in PlaceIds : There(i) /\ row[i].image = q.old)
    <3>1. Moves(r, NoImageReq) /\ NoImageReq.pc = "idle" /\ ~Storing(NoImageReq)
      BY <2>2, <1>0, EndMoves, Before
    <3>2. ASSUME NEW k \in bucket, Holds(q, k) PROVE row[PathOf[k]].image = k
      <4>1. k = q.old /\ k # NoImage
        BY <1>1, <2>1, <3>2 DEF Holds
      <4>2. PICK i \in PlaceIds : row[i].image = k
        BY <2>2, <4>1
      <4>3. PathOf[k] = i
        BY <4>1, <4>2 DEF ImageInv, RowImages, RowIds
      <4> QED BY <4>2, <4>3
    <3> QED BY <1>1, <2>1, <3>1, <3>2, MovesAlone DEF OldImage
  <2>3. CASE ImageStep(r, "drop") /\ ~(q.old = NoImage \/ \E i \in PlaceIds : There(i) /\ row[i].image = q.old)
    <3> DEFINE v == [imageReq[r] EXCEPT !.pc = "drop"]
    <3>1. Moves(r, v) /\ v.pc = "drop" /\ v.old = q.old
      BY <2>3, <1>0, StepsOn
    <3> HIDE DEF v
    <3>2. OldImage(v)
      BY <2>3, <3>1 DEF OldImage, ImageInv, RowImages, RowIds
    <3>3. \A k : Holds(q, k) => Holds(v, k)
      BY <2>1, <3>1 DEF Holds
    <3>4. ~Storing(v)
      BY <3>1 DEF Storing
    <3> QED BY <1>1, <2>1, <3>1, <3>2, <3>3, <3>4, MovesAlone
  <2> QED BY <1>7, <2>2, <2>3 DEF CheckImageUse
<1>8. CASE ReadKey(r)
  <2> DEFINE i == q.row
             a == [imageReq[r] EXCEPT !.pc = "remove"]
             v == [a EXCEPT !.old = row[i].image]
  <2>1. q \in ImageReq /\ i \in PlaceIds /\ q.pc = "readKey" /\ UNCHANGED <<bucket, faults>>
    BY <1>8, RequestPlace DEF ReadKey, ImageInv
  <2>2. row[i].image \in Images \cup {NoImage}
    BY <2>1, RowParts DEF ImageInv, RowsTyped, RowIds
  <2>3. a \in ImageReq /\ a.pc = "remove" /\ a.row = i
    BY <2>1 DEF ImageReq
  <2>4. v \in ImageReq /\ v.pc = "remove" /\ v.old = row[i].image
    <3> HIDE DEF a
    <3> QED BY <2>2, <2>3 DEF ImageReq
  <2>5. imageReq' = [imageReq EXCEPT ![r] = v]
    BY <1>8 DEF ReadKey
  <2> HIDE DEF v
  <2>6. Moves(r, v) /\ ~Storing(v)
    BY <1>0, <2>1, <2>4, <2>5 DEF Moves, Storing
  <2>7. \A k : ~Holds(q, k)
    BY <2>1 DEF Holds
  <2> QED BY <1>1, <2>1, <2>4, <2>6, <2>7, MovesAlone DEF OldImage
<1>9. CASE ReplaceImageKey(r)
  <2>0. q.pc = "swap" /\ UNCHANGED <<bucket, faults>> /\ q \in ImageReq /\ q.row \in PlaceIds
    BY <1>9, RequestPlace DEF ReplaceImageKey, ImageInv
  <2>1. CASE ImageEnd(r) /\ q.new = NoImage
    <3>1. Moves(r, NoImageReq) /\ NoImageReq.pc = "idle" /\ ~Storing(NoImageReq)
      BY <2>1, <1>0, EndMoves, Before
    <3>2. ASSUME NEW k \in bucket PROVE ~Holds(q, k)
      BY <1>1, <2>0, <2>1 DEF Holds
    <3> QED BY <1>1, <2>0, <3>1, <3>2, MovesAlone DEF OldImage
  <2>2. CASE ImageStep(r, "undo")
    <3> DEFINE v == [imageReq[r] EXCEPT !.pc = "undo"]
    <3>1. Moves(r, v) /\ v.pc = "undo" /\ v.new = q.new
      BY <2>0, <2>2, <1>0, StepsOn
    <3> HIDE DEF v
    <3>2. \A k : Holds(q, k) => Holds(v, k)
      BY <2>0, <3>1 DEF Holds
    <3> QED BY <1>1, <2>0, <3>1, <3>2, MovesAlone DEF OldImage
  <2>3. CASE ImageStep(r, "inUse") /\ Replaceable(q.row, q.old)
             /\ row' = [row EXCEPT ![q.row].image = q.new, ![q.row].version = @ + 1]
    <3>1. row[q.row] \in Row /\ row[q.row].version \in Nat
      BY <2>0, RowParts DEF ImageInv, RowsTyped, RowIds
    <3>2. row'[q.row].version = row[q.row].version + 1
      BY <2>0, <2>3, <3>1 DEF ImageInv, RowsTyped, RowIds, Row
    <3> QED BY <3>1, <3>2
  <2> QED BY <1>9, <2>1, <2>2, <2>3 DEF ReplaceImageKey, ImageKeyReplaced
<1>10. CASE RemoveRow(r)
  <2>0. q.pc = "remove" /\ UNCHANGED <<bucket, faults>> /\ q.row \in RowIds
    BY <1>10, RequestPlace DEF RemoveRow, ImageInv
  <2>1. CASE ImageEnd(r)
    <3>1. Moves(r, NoImageReq) /\ NoImageReq.pc = "idle" /\ ~Storing(NoImageReq)
      BY <2>1, <1>0, EndMoves, Before
    <3>2. \A k : ~Holds(q, k)
      BY <2>0 DEF Holds
    <3> QED BY <1>1, <2>0, <3>1, <3>2, MovesAlone DEF OldImage
  <2>2. CASE ImageStep(r, "inUse")
    <3> DEFINE v == [imageReq[r] EXCEPT !.pc = "inUse"]
    <3>1. Moves(r, v) /\ v.pc = "inUse" /\ v.new = q.new
      BY <2>0, <2>2, <1>0, StepsOn
    <3> HIDE DEF v
    <3>2. \A k : ~Holds(q, k)
      BY <2>0, <3>1 DEF Holds
    <3>3. ~Storing(v)
      BY <3>1 DEF Storing
    <3> QED BY <1>1, <2>0, <3>1, <3>2, <3>3, MovesAlone DEF OldImage
  <2> QED BY <1>10, <2>1, <2>2 DEF RemoveRow
<1> QED BY <1>2, <1>3, <1>4, <1>5, <1>6, <1>7, <1>8, <1>9, <1>10

(* A place is given its new image; the one it had is in hand of the request. *)
LEMMA ImageSwapped ==
  ASSUME ImageInv, RowsTyped', NEW r \in ImageRequests, ReplaceImageKey(r)
  PROVE  ImageInv'
<1> DEFINE q == imageReq[r]
           i == q.row
           v == [imageReq[r] EXCEPT !.pc = "inUse"]
<1>0. CASE UNCHANGED row
  BY <1>0, ImageSteps
<1>1. CASE row' = [row EXCEPT ![i].image = q.new, ![i].version = @ + 1]
           /\ Replaceable(i, q.old) /\ ImageStep(r, "inUse")
  <2>1. /\ q.pc = "swap" /\ UNCHANGED <<bucket, faults, doubted>> /\ q \in ImageReq /\ i \in PlaceIds /\ i \in RowIds
        /\ NewImage(q)
    BY <1>1, RequestPlace, Before DEF ReplaceImageKey, ImageInv, RowIds
  <2>2. Moves(r, v) /\ v.pc = "inUse" /\ v.old = q.old /\ v.new = q.new
    BY <1>1, <2>1, StepsOn
  <2>3. row[i] \in Row /\ There(i) /\ row[i].image = q.old
    BY <1>1, <2>1 DEF Replaceable, ImageInv, RowsTyped
  <2>4. /\ row'[i].image = q.new /\ row'[i].status = row[i].status
        /\ \A j \in RowIds \ {i} : row'[j] = row[j]
    BY <1>1, <2>1, <2>3 DEF ImageInv, RowsTyped, Row
  <2> HIDE DEF v
  <2>5. imageReq'[r] = v /\ (\A p \in ImageRequests \ {r} : imageReq'[p] = imageReq[p]) /\ NewApart'
    BY <2>2, RequestMoved
  <2>6. q.new # NoImage => Storing(q) /\ q.new \in bucket /\ PathOf[q.new] = i
    BY <2>1 DEF Storing, NewImage
  <2>7. \A j \in RowIds : row'[j].status = row[j].status
    BY <2>4
  <2>8. RowImages'
    BY <2>1, <2>3, <2>4, <2>6 DEF ImageInv, RowImages, There
  <2>9. Stored'
    BY <2>1, <2>7, PathOfIn DEF ImageInv, Stored
  <2>10. ASSUME NEW p \in ImageRequests
         PROVE  NewImage(imageReq[p])' /\ OldImage(imageReq[p])'
    <3>1. CASE p = r
      BY <2>2, <2>5, <3>1 DEF NewImage, OldImage, Storing
    <3>2. CASE p # r
      <4> DEFINE w == imageReq[p]
      <4>1. imageReq'[p] = w /\ NewImage(w) /\ OldImage(w) /\ (w.pc # "idle" => w.row \in RowIds)
        BY <2>5, <3>2, RequestPlace, Before DEF ImageInv
      <4>2. Storing(w) => w.new # q.new
        BY <2>6, <3>2 DEF ImageInv, NewApart, Storing
      <4>3. w.pc = "drop" => w.old # q.new
        BY <2>6, <4>1 DEF ImageInv, NewApart, OldImage
      <4>4. \A j \in PlaceIds : row'[j].image \in {row[j].image, q.new}
        BY <2>4 DEF RowIds
      <4>5. NewImage(imageReq[p])'
        BY <2>1, <2>7, <4>1, <4>2, <4>4 DEF NewImage, Storing
      <4>6. OldImage(imageReq[p])'
        BY <4>1, <4>3, <4>4 DEF OldImage
      <4> QED BY <4>5, <4>6
    <3> QED BY <3>1, <3>2
  <2>11. NoneLost'
    <3>1. SUFFICES ASSUME faults = 0, NEW k \in bucket, There(PathOf[k])'
                   PROVE  row'[PathOf[k]].image = k \/ InHand(k)'
      BY <2>1 DEF NoneLost, There
    <3>2. k \in Images /\ PathOf[k] \in RowIds /\ There(PathOf[k]) /\ k # NoImage
      BY <2>7, <3>1, PathOfIn, PlacesConstants DEF ImageInv, Stored, There
    <3>3. CASE k = q.new
      BY <2>4, <2>6, <3>2, <3>3
    <3>4. CASE k # q.new /\ k = q.old
      <4>1. Holds(v, k)
        BY <2>2, <3>4 DEF Holds
      <4> QED BY <2>5, <4>1 DEF InHand, Holds
    <3>5. CASE k # q.new /\ k # q.old
      <4>1. ~Holds(q, k)
        BY <3>5 DEF Holds
      <4>2. InHand(k) => InHand(k)'
        BY <2>5, <4>1, HandKept
      <4>3. ~InHand(k) => row[PathOf[k]].image = k
        BY <3>1, <3>2 DEF ImageInv, NoneLost
      <4>4. row[PathOf[k]].image = k => row'[PathOf[k]].image = k
        BY <2>3, <2>4, <3>2, <3>5
      <4> QED BY <4>2, <4>3, <4>4
    <3> QED BY <3>3, <3>4, <3>5
  <2> QED BY <2>1, <2>5, <2>8, <2>9, <2>10, <2>11 DEF ImageInv
<1> QED BY <1>0, <1>1 DEF ReplaceImageKey, ImageKeyReplaced

(* The row names the image and the request goes for it all the same. *)
LEMMA AnswerLost ==
  ASSUME ImageInv, RowsTyped', NEW r \in ImageRequests, ReplaceAnswerLost(r)
  PROVE  ImageInv'
<1> DEFINE q == imageReq[r]
           i == q.row
           v == [imageReq[r] EXCEPT !.pc = "undo"]
<1>1. /\ q.pc = "swap" /\ q.new # NoImage /\ UNCHANGED bucket /\ faults' = faults + 1
      /\ q \in ImageReq /\ i \in PlaceIds /\ i \in RowIds /\ NewImage(q)
      /\ doubted' = doubted \cup {q.new}
  BY RequestPlace, Before DEF ReplaceAnswerLost, Fault, ImageInv, RowIds
<1>2. Storing(q) /\ q.new \in bucket /\ PathOf[q.new] = i
  BY <1>1 DEF NewImage
<1>3. v.pc = "undo" /\ v.old = q.old /\ v.new = q.new
  BY <1>1 DEF ImageReq
<1>4. imageReq' = [imageReq EXCEPT ![r] = v]
  BY DEF ReplaceAnswerLost, ImageStep
<1> HIDE DEF v
<1>5. imageReq'[r] = v /\ \A p \in ImageRequests \ {r} : imageReq'[p] = imageReq[p]
  BY <1>4 DEF ImageInv, RowsTyped
<1>6. row[i] \in Row /\ There(i)
  BY <1>1 DEF ReplaceAnswerLost, Replaceable, ImageInv, RowsTyped
<1>7. /\ row'[i].image = q.new /\ row'[i].status = row[i].status
      /\ \A j \in RowIds \ {i} : row'[j] = row[j]
  BY <1>1, <1>6 DEF ReplaceAnswerLost, ImageKeyReplaced, ImageInv, RowsTyped, Row
<1>8. \A j \in RowIds : row'[j].status = row[j].status
  BY <1>7
<1>9. RowImages'
  BY <1>1, <1>2, <1>6, <1>7 DEF ImageInv, RowImages, There
<1>10. Stored'
  BY <1>1, <1>8, PathOfIn DEF ImageInv, Stored
<1>11. ASSUME NEW p \in ImageRequests, Storing(imageReq[p])'
       PROVE  p # r /\ imageReq'[p] = imageReq[p] /\ Storing(imageReq[p])
  BY <1>1, <1>3, <1>5, <1>11 DEF Storing
<1>12. \A p \in ImageRequests : imageReq'[p].old = imageReq[p].old
  BY <1>3, <1>5
<1>13. NewApart'
  BY <1>11, <1>12 DEF ImageInv, NewApart
<1>14. ASSUME NEW p \in ImageRequests
       PROVE  NewImage(imageReq[p])' /\ OldImage(imageReq[p])'
  <2>1. CASE p = r
    BY <1>1, <1>3, <1>5, <2>1 DEF NewImage, OldImage, Storing
  <2>2. CASE p # r
    <3> DEFINE w == imageReq[p]
    <3>1. imageReq'[p] = w /\ NewImage(w) /\ OldImage(w) /\ (w.pc # "idle" => w.row \in RowIds)
      BY <1>5, <2>2, RequestPlace, Before DEF ImageInv
    <3>2. w.old # q.new /\ (Storing(w) => w.new # q.new)
      BY <1>2, <2>2 DEF ImageInv, NewApart
    <3>3. \A j \in PlaceIds : row'[j].image \in {row[j].image, q.new}
      BY <1>7 DEF RowIds
    <3>4. Storing(w)' <=> Storing(w) /\ w.new # q.new
      BY <1>1, <3>1 DEF Storing
    <3>5. NewImage(imageReq[p])'
      BY <1>1, <1>8, <3>1, <3>2, <3>3, <3>4 DEF NewImage, Storing
    <3>6. OldImage(imageReq[p])'
      BY <3>1, <3>2, <3>3 DEF OldImage
    <3> QED BY <3>5, <3>6
  <2> QED BY <2>1, <2>2
<1>15. faults' \in Nat /\ faults' # 0
  BY <1>1 DEF ImageInv
<1> QED BY <1>9, <1>10, <1>13, <1>14, <1>15 DEF ImageInv, NoneLost

(* A row that is removed or created has no image afterwards. *)
LEMMA ImageRowRemoved ==
  ASSUME ImageInv, RowsTyped', NEW r \in ImageRequests, RemoveRow(r)
  PROVE  ImageInv'
<1> DEFINE q == imageReq[r]
           i == q.row
           g == [FreshRow EXCEPT !.status = "gone", !.version = row[i].version]
<1>0. CASE UNCHANGED row
  BY <1>0, ImageSteps
<1>1. CASE row' = [row EXCEPT ![i] = g] /\ There(i) /\ (ImageEnd(r) \/ ImageStep(r, "inUse"))
  <2>1. q.pc = "remove" /\ UNCHANGED <<bucket, faults, doubted>> /\ i \in RowIds
    BY <1>1, RequestPlace DEF RemoveRow, ImageInv
  <2>2. PICK v : /\ Moves(r, v) /\ ~Storing(v) /\ v.pc \in {"idle", "inUse"}
    <3>1. CASE ImageEnd(r)
      BY <2>1, <3>1, EndMoves, Before
    <3>2. CASE ImageStep(r, "inUse")
      BY <2>1, <3>2, StepsOn DEF Storing
    <3> QED BY <1>1, <3>1, <3>2
  <2>3. imageReq'[r] = v /\ (\A p \in ImageRequests \ {r} : imageReq'[p] = imageReq[p]) /\ NewApart'
    BY <2>2, RequestMoved
  <2>4. /\ row'[i].image = NoImage /\ row'[i].status = "gone"
        /\ \A j \in RowIds \ {i} : row'[j] = row[j]
    BY <1>1, <2>1 DEF ImageInv, RowsTyped, FreshRow
  <2>5. \A j \in RowIds : row[j].status # "new" => row'[j].status # "new"
    BY <2>4
  <2>6. RowImages'
    BY <2>1, <2>4 DEF ImageInv, RowImages, There
  <2>7. Stored'
    BY <2>1, <2>5, PathOfIn DEF ImageInv, Stored
  <2>8. ASSUME NEW p \in ImageRequests
        PROVE  NewImage(imageReq[p])' /\ OldImage(imageReq[p])'
    <3>1. CASE p = r
      BY <2>2, <2>3, <3>1 DEF NewImage, OldImage, Storing
    <3>2. CASE p # r
      <4> DEFINE w == imageReq[p]
      <4>1. imageReq'[p] = w /\ NewImage(w) /\ OldImage(w) /\ w \in ImageReq
            /\ (w.pc # "idle" => w.row \in RowIds)
        BY <2>3, <3>2, RequestPlace, Before DEF ImageInv
      <4>4. \A j \in PlaceIds : row'[j].image \in {row[j].image, NoImage}
        BY <2>4 DEF RowIds
      <4>5. NewImage(imageReq[p])'
        BY <2>1, <2>5, <4>1, <4>4 DEF NewImage, Storing
      <4>6. OldImage(imageReq[p])'
        BY <4>1, <4>4 DEF OldImage
      <4> QED BY <4>5, <4>6
    <3> QED BY <3>1, <3>2
  <2>9. NoneLost'
    <3>1. SUFFICES ASSUME faults = 0, NEW k \in bucket, There(PathOf[k])'
                   PROVE  row'[PathOf[k]].image = k \/ InHand(k)'
      BY <2>1 DEF NoneLost, There
    <3>2. PathOf[k] \in RowIds \ {i}
      BY <2>4, <3>1, PathOfIn DEF ImageInv, Stored, There
    <3>3. There(PathOf[k]) /\ row'[PathOf[k]] = row[PathOf[k]]
      BY <2>4, <3>1, <3>2 DEF There
    <3>4. ~Holds(q, k)
      BY <2>1 DEF Holds
    <3>5. InHand(k) => InHand(k)'
      BY <2>3, <3>4, HandKept
    <3> QED BY <3>1, <3>3, <3>5 DEF ImageInv, NoneLost
  <2> QED BY <2>1, <2>3, <2>6, <2>7, <2>8, <2>9 DEF ImageInv
<1> QED BY <1>0, <1>1 DEF RemoveRow

LEMMA ImageRowCreated ==
  ASSUME ImageInv, RowsTyped', NEW i \in RowIds, NEW name, NEW vs, CreateRow(i, name, vs)
  PROVE  ImageInv'
<1>1. row[i] \in Row /\ row[i].status = "new" /\ row[i].image = NoImage
  BY DEF CreateRow, ImageInv, RowsTyped, RowImages, There
<1>2. UNCHANGED <<bucket, imageReq, faults, doubted>>
  BY DEF CreateRow
<1>3. /\ row'[i].image = NoImage /\ row'[i].status = "there"
      /\ \A j \in RowIds \ {i} : row'[j] = row[j]
  BY <1>1 DEF CreateRow, ImageInv, RowsTyped, Row
<1>4. \A j \in RowIds : row[j].status # "new" => row'[j].status # "new"
  BY <1>3
<1>5. \A j \in RowIds : row'[j].image = row[j].image
  BY <1>1, <1>3
<1>6. RowImages'
  BY <1>2, <1>3 DEF ImageInv, RowImages, There
<1>7. Stored'
  BY <1>2, <1>4, PathOfIn DEF ImageInv, Stored
<1>8. ASSUME NEW p \in ImageRequests
      PROVE  NewImage(imageReq[p])' /\ OldImage(imageReq[p])'
  <2>1. NewImage(imageReq[p]) /\ OldImage(imageReq[p]) /\ (imageReq[p].pc # "idle" => imageReq[p].row \in RowIds)
    BY RequestPlace DEF ImageInv
  <2>2. \A j \in PlaceIds : row'[j].image = row[j].image
    BY <1>5 DEF RowIds
  <2> QED BY <1>2, <1>4, <2>1, <2>2 DEF NewImage, OldImage, Storing
<1>9. NoneLost'
  <2>1. \A k \in bucket : PathOf[k] \in RowIds \ {i}
    BY <1>1, PathOfIn DEF ImageInv, Stored
  <2>2. \A k \in bucket : row'[PathOf[k]] = row[PathOf[k]]
    BY <1>3, <2>1
  <2>3. \A k : InHand(k)' = InHand(k)
    BY <1>2 DEF InHand
  <2> QED BY <1>2, <2>2, <2>3 DEF ImageInv, NoneLost, There
<1>10. NewApart'
  BY <1>2 DEF ImageInv, NewApart, Storing
<1> QED BY <1>2, <1>6, <1>7, <1>8, <1>9, <1>10 DEF ImageInv

(* A new image is chosen: nobody has it, and nobody names it. *)
LEMMA ImageChosen ==
  ASSUME ImageInv, RowsTyped', NEW r \in ImageRequests, NEW i \in PlaceIds, StartSetImage(r, i)
  PROVE  ImageInv'
<1>1. PICK k \in FreshKey(i) :
        imageReq' = [imageReq EXCEPT ![r] = [pc |-> "put", row |-> i, old |-> row[i].image, new |-> k]]
  BY DEF StartSetImage
<1>2. /\ k \in Images /\ PathOf[k] = i /\ k \notin bucket /\ k # NoImage /\ k \notin doubted
      /\ \A j \in PlaceIds : row[j].image # k
      /\ \A p \in ImageRequests : imageReq[p].old # k /\ imageReq[p].new # k
  BY <1>1, PlacesConstants DEF FreshKey
<1>3. imageReq[r] = NoImageReq /\ There(i) /\ UNCHANGED <<row, bucket, faults, doubted>> /\ i \in RowIds
  BY DEF StartSetImage, RowIds
<1> DEFINE v == [pc |-> "put", row |-> i, old |-> row[i].image, new |-> k]
<1>4. imageReq'[r] = v /\ \A p \in ImageRequests \ {r} : imageReq'[p] = imageReq[p]
  BY <1>1 DEF ImageInv, RowsTyped
<1>5. v.pc = "put" /\ v.row = i /\ v.old = row[i].image /\ v.new = k /\ Storing(v)
  BY <1>2 DEF Storing
<1> HIDE DEF v
<1>6. RowImages' /\ Stored'
  BY <1>3 DEF ImageInv, RowImages, Stored, There
<1>7. NewApart'
  <2>1. ASSUME NEW p \in ImageRequests, NEW q \in ImageRequests, Storing(imageReq'[p])
        PROVE  /\ imageReq'[q].old # imageReq'[p].new
               /\ q # p /\ Storing(imageReq'[q]) => imageReq'[q].new # imageReq'[p].new
    <3>1. CASE p = r
      BY <1>2, <1>4, <1>5, <3>1
    <3>2. CASE p # r /\ q = r
      <4>1. Storing(imageReq[p]) /\ imageReq'[p] = imageReq[p]
        BY <1>4, <2>1, <3>2
      <4>2. row[i].image # imageReq[p].new
        BY <4>1, Before DEF NewImage
      <4> QED BY <1>2, <1>4, <1>5, <3>2, <4>1, <4>2
    <3>3. CASE p # r /\ q # r
      BY <1>4, <2>1, <3>3 DEF ImageInv, NewApart
    <3> QED BY <3>1, <3>2, <3>3
  <2> QED BY <1>3, <2>1 DEF NewApart, Storing
<1>8. ASSUME NEW p \in ImageRequests
      PROVE  NewImage(imageReq[p])' /\ OldImage(imageReq[p])'
  <2>1. CASE p = r
    BY <1>2, <1>3, <1>4, <1>5, <2>1 DEF NewImage, OldImage, Storing, There
  <2>2. CASE p # r
    <3>1. NewImage(imageReq[p]) /\ OldImage(imageReq[p]) /\ imageReq'[p] = imageReq[p]
      BY <1>4, <2>2, Before
    <3> QED BY <1>3, <3>1 DEF NewImage, OldImage, Storing
  <2> QED BY <2>1, <2>2
<1>9. NoneLost'
  <2>1. \A j \in bucket : InHand(j) => InHand(j)'
    <3>1. \A j : ~Holds(imageReq[r], j)
      BY <1>3 DEF Holds, NoImageReq
    <3> QED BY <1>4, <3>1, HandKept
  <2> QED BY <1>3, <2>1 DEF ImageInv, NoneLost, There
<1> QED BY <1>3, <1>6, <1>7, <1>8, <1>9 DEF ImageInv

(* The other requests begin with nothing in hand. *)
LEMMA ImageRequestBegins ==
  ASSUME ImageInv, RowsTyped', NEW r \in ImageRequests, imageReq[r] = NoImageReq,
         UNCHANGED <<row, bucket, faults, doubted>>, NEW v \in ImageReq,
         imageReq' = [imageReq EXCEPT ![r] = v],
         v.new = NoImage, v.pc \in {"swap", "readKey", "remove"},
         v.old = NoImage \/ \E i \in PlaceIds : v.old = row[i].image
  PROVE  ImageInv'
<1>1. Moves(r, v) /\ ~Storing(v)
  BY DEF Moves, Storing
<1>2. \A k : ~Holds(imageReq[r], k)
  BY DEF Holds, NoImageReq
<1>3. bucket \subseteq Images /\ faults \in Nat
  BY DEF ImageInv, Stored
<1> QED BY <1>1, <1>2, <1>3, MovesAlone DEF OldImage

LEMMA ImageRequestsBegin ==
  ASSUME ImageInv, RowsTyped', NEW r \in ImageRequests, NEW i \in RowIds,
         \/ i \in PlaceIds /\ (StartSetImage(r, i) \/ StartDeleteImage(r, i))
         \/ DeleteVenue(r, i) \/ DeleteSpot(r, i) \/ DeleteEvent(r, i)
  PROVE  ImageInv'
<1>1. CASE i \in PlaceIds /\ StartSetImage(r, i)
  BY <1>1, ImageChosen
<1>2. CASE i \in PlaceIds /\ StartDeleteImage(r, i)
  <2> DEFINE v == [pc |-> "swap", row |-> i, old |-> row[i].image, new |-> NoImage]
  <2>1. row[i].image \in Images \cup {NoImage}
    BY RowParts DEF ImageInv, RowsTyped
  <2>2. v \in ImageReq /\ v.pc = "swap" /\ v.new = NoImage /\ v.old = row[i].image
    BY <2>1 DEF ImageReq
  <2>3. /\ imageReq[r] = NoImageReq /\ UNCHANGED <<row, bucket, faults, doubted>>
        /\ imageReq' = [imageReq EXCEPT ![r] = v]
    BY <1>2 DEF StartDeleteImage
  <2> HIDE DEF v
  <2> QED BY <1>2, <2>2, <2>3, ImageRequestBegins
<1>3. ASSUME NEW pc \in {"readKey", "remove"}, StartRemove(r, i, pc)
      PROVE  ImageInv'
  <2> DEFINE a == [imageReq[r] EXCEPT !.pc = pc]
             v == [a EXCEPT !.row = i]
  <2>1. imageReq[r] = NoImageReq /\ UNCHANGED <<row, bucket, faults, doubted>> /\ imageReq' = [imageReq EXCEPT ![r] = v]
    BY <1>3 DEF StartRemove
  <2>2. a \in ImageReq /\ a.pc = pc /\ a.new = NoImage /\ a.old = NoImage
    BY <2>1, Before DEF ImageReq, NoImageReq
  <2>3. v \in ImageReq /\ v.pc = pc /\ v.new = NoImage /\ v.old = NoImage
    <3> HIDE DEF a
    <3> QED BY <2>2 DEF ImageReq
  <2> HIDE DEF v
  <2> QED BY <2>1, <2>3, ImageRequestBegins
<1> QED BY <1>1, <1>2, <1>3 DEF DeleteVenue, DeleteSpot, DeleteEvent

LEMMA SavedImages ==
  ASSUME RowsTyped, NEW i \in RowIds, NEW name, NEW vs, Saved(i, name, vs)
  PROVE  SameImages
BY DEF Saved, SameImages, RowsTyped, Row

LEMMA ImagesGoOn ==
  ASSUME ImageInv, EditorInv, RowsTyped', PlacesNext
  PROVE  ImageInv'
<1>1. ASSUME UNCHANGED <<row, bucket, imageReq, faults, doubted>>
      PROVE  ImageInv'
  BY <1>1, RowsAlone DEF SameImages
<1>2. CASE SaveRow
  <2>1. UNCHANGED <<bucket, imageReq, faults, doubted>>
    BY <1>2 DEF SaveRow
  <2>2. rowEditor.row \in RowIds
    BY <1>2 DEF SaveRow, EditorInv, SeenHolds, RowsTyped, RowEditor
  <2>3. UNCHANGED row \/ \E vs : Saved(rowEditor.row, rowEditor.name, vs)
    BY <1>2 DEF SaveRow, SaveVenue, SaveSpot, SaveEvent
  <2>4. SameImages
    BY <2>2, <2>3, SavedImages DEF SameImages, ImageInv
  <2> QED BY <2>1, <2>4, RowsAlone
<1>3. ASSUME NEW name \in EventNames, NEW vs \in SUBSET Venues,
             \/ CheckSave(name, vs)
             \/ \E i \in RowIds : SaveBlindly(i, name, vs)
             \/ \E e \in Events : CreateEvent(e, name, vs)
             \/ \E v \in Venues : CreateVenue(v, name)
             \/ \E p \in Spots : CreateSpot(p, name)
      PROVE  ImageInv'
  <2>1. CASE CheckSave(name, vs)
    BY <1>1, <2>1 DEF CheckSave
  <2>2. ASSUME NEW i \in RowIds, SaveBlindly(i, name, vs) PROVE ImageInv'
    BY <2>2, SavedImages, RowsAlone DEF SaveBlindly, ImageInv
  <2>3. ASSUME NEW i \in RowIds, \/ CreateEvent(i, name, vs) \/ CreateVenue(i, name) \/ CreateSpot(i, name)
        PROVE ImageInv'
    BY <2>3, ImageRowCreated DEF CreateEvent, CreateVenue, CreateSpot
  <2> QED BY <1>3, <2>1, <2>2, <2>3 DEF RowIds, PlaceIds
<1>4. ASSUME NEW i \in RowIds, ReadRow(i) PROVE ImageInv'
  BY <1>1, <1>4 DEF ReadRow
<1>5. ASSUME NEW e \in Events,
             ClearGatherings(e) \/ AddAudience(e) \/ DropAudience(e) \/ \E p \in Spots : AddGathering(e, p)
      PROVE  ImageInv'
  BY <1>1, <1>5 DEF ClearGatherings, AddAudience, DropAudience, AddGathering
<1>6. ASSUME NEW r \in ImageRequests,
             \/ PutImage(r) \/ ReplaceImageKey(r) \/ ReplaceFails(r) \/ ReplaceAnswerLost(r)
             \/ UndoImage(r) \/ CheckImageUse(r) \/ DropImage(r) \/ ImageRequestDies(r) \/ ReadKey(r) \/ RemoveRow(r)
             \/ \E i \in PlaceIds : StartSetImage(r, i) \/ StartDeleteImage(r, i)
             \/ (\E v \in Venues : DeleteVenue(r, v)) \/ (\E p \in Spots : DeleteSpot(r, p))
             \/ \E e \in Events : DeleteEvent(r, e)
      PROVE  ImageInv'
  <2>1. CASE ReplaceImageKey(r) \/ ReplaceAnswerLost(r)
    BY <2>1, ImageSwapped, AnswerLost
  <2>2. CASE RemoveRow(r)
    BY <2>2, ImageRowRemoved
  <2>3. ASSUME NEW i \in RowIds,
               \/ i \in PlaceIds /\ (StartSetImage(r, i) \/ StartDeleteImage(r, i))
               \/ DeleteVenue(r, i) \/ DeleteSpot(r, i) \/ DeleteEvent(r, i)
        PROVE  ImageInv'
    BY <2>3, ImageRequestsBegin
  <2>4. CASE PutImage(r) \/ ReplaceFails(r) \/ UndoImage(r) \/ CheckImageUse(r) \/ DropImage(r)
             \/ ImageRequestDies(r) \/ ReadKey(r)
    <3>1. UNCHANGED row
      BY <2>4, RequestsGoOn
    <3> QED BY <2>4, <3>1, ImageSteps
  <2> QED BY <1>6, <2>1, <2>2, <2>3, <2>4 DEF RowIds, PlaceIds
<1> QED BY <1>2, <1>3, <1>4, <1>5, <1>6, PlacesConstants DEF PlacesNext

LEMMA ImagesStart == PlacesInit => ImageInv
<1> SUFFICES ASSUME PlacesInit PROVE ImageInv
  OBVIOUS
<1>1. RowsTyped
  BY PlacesStart DEF EditorInv
<1>2. bucket = {} /\ doubted = {} /\ faults = 0 /\ imageReq = [r \in ImageRequests |-> NoImageReq]
  BY DEF PlacesInit
<1>3. \A i \in RowIds : row[i].image = NoImage
  BY FreshRowTyped DEF PlacesInit, FreshRow
<1>4. RowImages /\ Stored /\ NoneLost
  BY <1>2, <1>3, PathOfIn DEF RowImages, Stored, NoneLost, RowIds
<1>5. NewApart /\ \A r \in ImageRequests : NewImage(imageReq[r]) /\ OldImage(imageReq[r])
  BY <1>2 DEF NewApart, NewImage, OldImage, Storing, NoImageReq
<1> QED BY <1>1, <1>2, <1>4, <1>5 DEF ImageInv

(* The image a place shows is stored, unless the answer to the replaceImageKey    *)
(* that named it was lost; and while nothing has failed, no image is left behind, *)
(* for any number of requests about any images.                              *)
THEOREM ImagesMatch == PlacesSpec => []ImagesMatchRows
<1>1. EditorInv /\ ImageInv /\ [PlacesNext]_placesVars => (EditorInv /\ ImageInv)'
  <2>1. ASSUME EditorInv, ImageInv, PlacesNext PROVE (EditorInv /\ ImageInv)'
    <3>1. EditorInv' /\ RowsTyped'
      BY <2>1, PlacesSteps DEF EditorInv
    <3> QED BY <2>1, <3>1, ImagesGoOn
  <2>2. ASSUME EditorInv, ImageInv, UNCHANGED placesVars PROVE (EditorInv /\ ImageInv)'
    <3>1. EditorInv' /\ RowsTyped'
      BY <2>2 DEF placesVars, EditorInv, RowsTyped, SeenHolds, There
    <3>2. SameImages /\ UNCHANGED <<bucket, imageReq, faults, doubted>>
      BY <2>2 DEF placesVars, SameImages
    <3> QED BY <2>2, <3>1, <3>2, RowsAlone
  <2> QED BY <2>1, <2>2
<1>2. ImageInv => ImagesMatchRows
  BY DEF ImageInv, RowImages, NoneLost, ImagesMatchRows, RowIds
<1> QED BY <1>1, <1>2, PlacesStart, ImagesStart, PTL DEF PlacesSpec

-----------------------------------------------------------------------------
(* Tokens for FCM *)

(* A token is used only while a fetch can still end before it expires. *)
CachedLasts == cached.refreshAt > 0 => cached.refreshAt + FetchTime <= cached.expires

(* An exchange is aborted after FetchTime, *)
ExchangeAge ==
  exchange.underWay => exchange.issuedAt <= clock /\ clock <= exchange.issuedAt + FetchTime

(* and so is a fetch, whose token lasts that long. *)
FetchLasts ==
  \A c \in Sends : send[c].pc = "fetch" =>
    /\ clock <= send[c].since + FetchTime
    /\ send[c].since + FetchTime <= send[c].expires

WaitersAwaited == \A c \in Sends : Waiting(send[c]) => exchange.underWay

FcmInv == FcmTypeOK /\ CachedLasts /\ ExchangeAge /\ FetchLasts /\ WaitersAwaited

-----------------------------------------------------------------------------
LEMMA SendMoves ==
  ASSUME NEW s \in Send, NEW pc \in {"idle", "check", "wait", "again", "waitAgain", "fetch"}
  PROVE  /\ [s EXCEPT !.pc = pc] \in Send
         /\ [s EXCEPT !.pc = pc].pc = pc
         /\ NoSend \in Send /\ NoSend.pc = "idle"
  BY DEF Send, NoSend

(* A send that gets a token goes on to ask for it again, or fetches with it. *)
LEMMA GotFetches ==
  ASSUME NEW s \in Send, NEW expires \in Nat, clock \in Nat
  PROVE  /\ Got(s, expires) \in Send
         /\ ~Waiting(Got(s, expires))
         /\ Got(s, expires).pc = "fetch" =>
              Got(s, expires).since = clock /\ Got(s, expires).expires = expires
<1>1. CASE s.pc \in {"check", "wait"}
  BY <1>1, SendMoves DEF Got, Waiting
<1>2. CASE s.pc \notin {"check", "wait"}
  <2>1. Got(s, expires) = [pc |-> "fetch", since |-> clock, expires |-> expires]
    BY <1>2 DEF Got
  <2> QED
    BY <2>1 DEF Send, Waiting
<1> QED
  BY <1>1, <1>2

(* A token is refreshed a margin before it expires, or at once. *)
LEMMA RefreshInTime ==
  ASSUME NEW t \in Nat
  PROVE  RefreshAt(t) \in Nat /\ RefreshAt(t) + FetchTime <= t + TokenTtl
  BY FcmConstants DEF RefreshAt

-----------------------------------------------------------------------------
LEMMA FcmInitially == FcmInit => FcmInv
<1> SUFFICES ASSUME FcmInit
             PROVE  FcmInv
  OBVIOUS
<1>1. \A c \in Sends : send[c] \in Send /\ send[c].pc = "idle"
  BY DEF FcmInit, NoSend, Send
<1>2. FcmTypeOK
  BY <1>1 DEF FcmInit, FcmTypeOK, NoTokenYet, Token, NoExchange, Exchange
<1>3. CachedLasts /\ ExchangeAge
  BY DEF FcmInit, CachedLasts, ExchangeAge, NoTokenYet, NoExchange
<1>4. FetchLasts /\ WaitersAwaited
  BY <1>1 DEF FetchLasts, WaitersAwaited, Waiting
<1> QED
  BY <1>2, <1>3, <1>4 DEF FcmInv

(* A step of one send that changes neither the clock nor the token. *)
LEMMA OneSendMoves ==
  ASSUME FcmInv, NEW c \in Sends, NEW s \in Send,
         send' = [send EXCEPT ![c] = s], UNCHANGED <<clock, cached>>,
         exchange' \in Exchange, ExchangeAge',
         Waiting(s) => exchange'.underWay,
         exchange.underWay => exchange'.underWay,
         s.pc = "fetch" => /\ clock <= s.since + FetchTime
                           /\ s.since + FetchTime <= s.expires
  PROVE  FcmInv'
<1>1. FcmTypeOK'
  BY DEF FcmInv, FcmTypeOK
<1>2. \A d \in Sends : send'[d] = IF d = c THEN s ELSE send[d]
  BY DEF FcmInv, FcmTypeOK
<1>3. CachedLasts'
  BY DEF FcmInv, CachedLasts
<1>4. FetchLasts'
  BY <1>2 DEF FcmInv, FetchLasts
<1>5. WaitersAwaited'
  BY <1>2 DEF FcmInv, WaitersAwaited, Waiting
<1> QED
  BY <1>1, <1>3, <1>4, <1>5 DEF FcmInv

LEMMA StartSendKeeps ==
  ASSUME FcmInv, NEW c \in Sends, StartSend(c)
  PROVE  FcmInv'
<1> DEFINE s == [send[c] EXCEPT !.pc = "check"]
<1>1. s \in Send /\ s.pc = "check"
  BY SendMoves DEF FcmInv, FcmTypeOK
<1>2. send' = [send EXCEPT ![c] = s]
  BY DEF StartSend
<1>3. UNCHANGED <<clock, cached, exchange>> /\ ExchangeAge' /\ exchange' \in Exchange
  BY DEF StartSend, FcmInv, FcmTypeOK, ExchangeAge
<1> HIDE DEF s
<1> QED
  BY <1>1, <1>2, <1>3, OneSendMoves DEF Waiting

LEMMA FetchedKeeps ==
  ASSUME FcmInv, NEW c \in Sends, Fetched(c)
  PROVE  FcmInv'
<1>1. UNCHANGED <<clock, cached, exchange>> /\ ExchangeAge' /\ exchange' \in Exchange
  BY DEF Fetched, FcmInv, FcmTypeOK, ExchangeAge
<1>2. send' = [send EXCEPT ![c] = NoSend]
  BY DEF Fetched
<1>3. NoSend \in Send /\ NoSend.pc = "idle"
  BY DEF Send, NoSend
<1> QED
  BY <1>1, <1>2, <1>3, OneSendMoves DEF Waiting

LEMMA TakeCachedKeeps ==
  ASSUME FcmInv, NEW c \in Sends, TakeCached(c)
  PROVE  FcmInv'
<1> DEFINE s == Got(send[c], cached.expires)
<1>1. clock \in Nat /\ send[c] \in Send /\ cached \in Token
  BY DEF FcmInv, FcmTypeOK
<1>2. cached.expires \in Nat /\ cached.refreshAt \in Nat
  BY <1>1 DEF Token
<1>3. /\ s \in Send /\ ~Waiting(s)
      /\ s.pc = "fetch" => s.since = clock /\ s.expires = cached.expires
  BY <1>1, <1>2, GotFetches
<1>4. clock + FetchTime <= cached.expires
  <2>1. clock < cached.refreshAt
    BY DEF TakeCached
  <2>2. cached.refreshAt + FetchTime <= cached.expires
    BY <1>1, <1>2, <2>1 DEF FcmInv, CachedLasts
  <2> QED
    BY <1>1, <1>2, <2>1, <2>2, FcmConstants
<1>5. s.pc = "fetch" => clock <= s.since + FetchTime /\ s.since + FetchTime <= s.expires
  BY <1>1, <1>3, <1>4, FcmConstants
<1>6. UNCHANGED <<clock, cached, exchange>> /\ ExchangeAge' /\ exchange' \in Exchange
  BY DEF TakeCached, FcmInv, FcmTypeOK, ExchangeAge
<1>7. send' = [send EXCEPT ![c] = s]
  BY DEF TakeCached
<1> HIDE DEF s
<1> QED
  BY <1>3, <1>5, <1>6, <1>7, OneSendMoves

LEMMA AwaitExchangeKeeps ==
  ASSUME FcmInv, NEW c \in Sends, AwaitExchange(c)
  PROVE  FcmInv'
<1> DEFINE pc == IF send[c].pc = "check" THEN "wait" ELSE "waitAgain"
           s == [send[c] EXCEPT !.pc = pc]
<1>1. s \in Send /\ s.pc = pc
  <2>1. send[c] \in Send /\ pc \in {"wait", "waitAgain"}
    BY DEF FcmInv, FcmTypeOK
  <2> HIDE DEF pc
  <2> QED
    BY <2>1 DEF Send
<1>2. exchange' \in Exchange /\ exchange'.underWay /\ ExchangeAge'
  <2>1. CASE exchange.underWay
    BY <2>1 DEF AwaitExchange, FcmInv, FcmTypeOK, ExchangeAge
  <2>2. CASE ~exchange.underWay
    <3>1. exchange' = [underWay |-> TRUE, issuedAt |-> clock] /\ clock' = clock
      BY <2>2 DEF AwaitExchange
    <3> QED
      BY <3>1, FcmConstants DEF FcmInv, FcmTypeOK, Exchange, ExchangeAge
  <2> QED
    BY <2>1, <2>2
<1>3. send' = [send EXCEPT ![c] = s] /\ UNCHANGED <<clock, cached>>
  BY DEF AwaitExchange
<1>4. s.pc # "fetch"
  BY <1>1
<1> HIDE DEF s, pc
<1> QED
  BY <1>1, <1>2, <1>3, <1>4, OneSendMoves

-----------------------------------------------------------------------------
LEMMA ExchangeDoneKeeps ==
  ASSUME FcmInv, ExchangeDone
  PROVE  FcmInv'
<1> DEFINE expires == exchange.issuedAt + TokenTtl
<1>1. /\ clock \in Nat /\ clock' = clock /\ exchange' = NoExchange
      /\ cached' = [refreshAt |-> RefreshAt(exchange.issuedAt), expires |-> expires]
      /\ send' = [c \in Sends |-> IF Waiting(send[c]) THEN Got(send[c], expires) ELSE send[c]]
  BY DEF FcmInv, FcmTypeOK, ExchangeDone
<1>2. exchange.issuedAt \in Nat /\ expires \in Nat
  BY FcmConstants DEF FcmInv, FcmTypeOK, Exchange
<1>3. clock + FetchTime <= expires
  BY <1>1, <1>2, FcmConstants DEF FcmInv, ExchangeAge, ExchangeDone
<1>4. RefreshAt(exchange.issuedAt) \in Nat
      /\ RefreshAt(exchange.issuedAt) + FetchTime <= expires
  BY <1>2, RefreshInTime
<1> HIDE DEF expires
<1>5. \A c \in Sends :
        /\ send'[c] \in Send /\ ~Waiting(send'[c])
        /\ send'[c].pc = "fetch" =>
             /\ clock <= send'[c].since + FetchTime
             /\ send'[c].since + FetchTime <= send'[c].expires
  <2>1. TAKE c \in Sends
  <2>2. CASE Waiting(send[c])
    <3>1. send'[c] = Got(send[c], expires) /\ send[c] \in Send
      BY <1>1, <2>2 DEF FcmInv, FcmTypeOK
    <3> QED
      BY <1>1, <1>2, <1>3, <3>1, GotFetches, FcmConstants
  <2>3. CASE ~Waiting(send[c])
    BY <1>1, <2>3 DEF FcmInv, FcmTypeOK, FetchLasts
  <2> QED
    BY <2>2, <2>3
<1>6. FcmTypeOK'
  BY <1>1, <1>2, <1>4, <1>5 DEF FcmTypeOK, Token, Exchange, NoExchange
<1>7. CachedLasts' /\ ExchangeAge'
  BY <1>1, <1>4 DEF CachedLasts, ExchangeAge, NoExchange
<1>8. FetchLasts' /\ WaitersAwaited'
  BY <1>1, <1>5 DEF FetchLasts, WaitersAwaited, Waiting
<1> QED
  BY <1>6, <1>7, <1>8 DEF FcmInv

LEMMA ExchangeFailsKeeps ==
  ASSUME FcmInv, ExchangeFails
  PROVE  FcmInv'
<1>1. /\ send' = [c \in Sends |-> IF Waiting(send[c]) THEN NoSend ELSE send[c]]
      /\ UNCHANGED <<clock, cached>> /\ exchange' = NoExchange
  BY DEF ExchangeFails
<1>2. NoSend \in Send /\ NoSend.pc = "idle" /\ ~Waiting(NoSend)
  BY DEF NoSend, Send, Waiting
<1>3. \A c \in Sends :
        /\ send'[c] \in Send /\ ~Waiting(send'[c])
        /\ send'[c].pc = "fetch" => send'[c] = send[c]
  BY <1>1, <1>2 DEF FcmInv, FcmTypeOK
<1>4. FcmTypeOK'
  BY <1>1, <1>3 DEF FcmInv, FcmTypeOK, Exchange, NoExchange
<1>5. CachedLasts' /\ ExchangeAge'
  BY <1>1 DEF FcmInv, CachedLasts, ExchangeAge, NoExchange
<1>6. FetchLasts' /\ WaitersAwaited'
  BY <1>1, <1>3 DEF FcmInv, FetchLasts, WaitersAwaited, Waiting
<1> QED
  BY <1>4, <1>5, <1>6 DEF FcmInv

LEMMA ClockTickKeeps ==
  ASSUME FcmInv, ClockTick
  PROVE  FcmInv'
<1>1. clock \in Nat /\ clock' = clock + 1 /\ UNCHANGED <<cached, exchange, send>>
  BY DEF FcmInv, FcmTypeOK, ClockTick
<1>2. FcmTypeOK' /\ CachedLasts' /\ WaitersAwaited'
  BY <1>1 DEF FcmInv, FcmTypeOK, CachedLasts, WaitersAwaited, Waiting
<1>3. ExchangeAge'
  BY <1>1, FcmConstants DEF FcmInv, FcmTypeOK, Exchange, ExchangeAge, ClockTick
<1>4. FetchLasts'
  BY <1>1, FcmConstants DEF FcmInv, FcmTypeOK, Send, FetchLasts, ClockTick
<1> QED
  BY <1>2, <1>3, <1>4 DEF FcmInv

LEMMA FcmStep == FcmInv /\ [FcmNext]_fcmVars => FcmInv'
<1> SUFFICES ASSUME FcmInv, [FcmNext]_fcmVars
             PROVE  FcmInv'
  OBVIOUS
<1>1. ASSUME NEW c \in Sends, StartSend(c) \/ TakeCached(c) \/ AwaitExchange(c) \/ Fetched(c)
      PROVE  FcmInv'
  BY <1>1, StartSendKeeps, TakeCachedKeeps, AwaitExchangeKeeps, FetchedKeeps
<1>2. CASE UNCHANGED fcmVars
  BY <1>2 DEF fcmVars, FcmInv, FcmTypeOK, CachedLasts, ExchangeAge, FetchLasts,
     WaitersAwaited, Waiting
<1> QED
  BY <1>1, <1>2, ExchangeDoneKeeps, ExchangeFailsKeeps, ClockTickKeeps DEF FcmNext

(* However long sends and exchanges wait for the network, FCM is never given   *)
(* a token that has expired, and whoever waits for a token waits for an         *)
(* exchange that is under way: sendNotificationToToken and getAccessToken.     *)
THEOREM FcmTokenInTime == FcmSpec => []TokenInTime
<1>1. FcmInv => TokenInTime
  <2> SUFFICES ASSUME FcmInv, NEW c \in Sends
               PROVE  /\ send[c].pc = "fetch" => clock <= send[c].expires
                      /\ Waiting(send[c]) => exchange.underWay
    BY DEF TokenInTime
  <2>1. send[c] \in Send /\ clock \in Nat
    BY DEF FcmInv, FcmTypeOK
  <2> QED
    BY <2>1, FcmConstants DEF FcmInv, FetchLasts, WaitersAwaited, Send
<1> QED
  BY <1>1, FcmInitially, FcmStep, PTL DEF FcmSpec

-----------------------------------------------------------------------------
(* Views: sorted lists *)

(* A strict total order of a set. *)
Orders(R, S) ==
  /\ \A x \in S : <<x, x>> \notin R
  /\ \A x, y \in S : x # y => <<x, y>> \in R \/ <<y, x>> \in R
  /\ \A x, y, z \in S : <<x, y>> \in R /\ <<y, z>> \in R => <<x, z>> \in R

Sorts(f, S, R) ==
  /\ f \in [1 .. Cardinality(S) -> S]
  /\ \A i, j \in 1 .. Cardinality(S) : i < j => <<f[i], f[j]>> \in R

(* A finite set can be sorted: an element goes where the number of those    *)
(* before it says.                                                          *)
LEMMA SortedExists ==
  ASSUME NEW S, IsFiniteSet(S), NEW R, Orders(R, S)
  PROVE  \E f : Sorts(f, S, R)
<1> DEFINE n == Cardinality(S)
           Below(x) == {y \in S : <<y, x>> \in R}
           rank == [x \in S |-> Cardinality(Below(x)) + 1]
           f == [i \in 1 .. n |-> CHOOSE x \in S : rank[x] = i]
<1>1. n \in Nat
  BY FS_CardinalityType
<1>2. ASSUME NEW x \in S
      PROVE  /\ IsFiniteSet(Below(x)) /\ Cardinality(Below(x)) \in Nat
             /\ rank[x] \in 1 .. n
  <2>1. Below(x) \subseteq S \ {x}
    BY DEF Orders
  <2>2. IsFiniteSet(S \ {x}) /\ Cardinality(S \ {x}) = n - 1
    BY FS_RemoveElement
  <2>3. IsFiniteSet(Below(x)) /\ Cardinality(Below(x)) <= n - 1
    <3> HIDE DEF Below, n
    <3> QED
      BY <2>1, <2>2, FS_Subset
  <2>4. Cardinality(Below(x)) \in Nat
    BY <2>3, FS_CardinalityType
  <2> HIDE DEF Below, n
  <2> QED
    BY <1>1, <2>3, <2>4
<1>3. ASSUME NEW x \in S, NEW y \in S, <<x, y>> \in R
      PROVE  rank[x] < rank[y]
  <2>1. Below(x) \subseteq Below(y) /\ x \in Below(y) /\ x \notin Below(x)
    BY <1>3 DEF Orders
  <2>2. /\ IsFiniteSet(Below(y)) /\ Cardinality(Below(x)) \in Nat
        /\ Cardinality(Below(y)) \in Nat
    BY <1>2
  <2>3. Cardinality(Below(x)) < Cardinality(Below(y))
    <3> HIDE DEF Below
    <3>1. Cardinality(Below(x)) <= Cardinality(Below(y))
      BY <2>1, <2>2, FS_Subset
    <3>2. Cardinality(Below(x)) # Cardinality(Below(y))
      BY <2>1, <2>2, FS_Subset
    <3> QED
      BY <2>2, <3>1, <3>2
  <2> HIDE DEF Below
  <2> QED
    BY <2>2, <2>3
<1> HIDE DEF Below
<1>4. rank \in Injection(S, 1 .. n)
  <2>1. rank \in [S -> 1 .. n]
    BY <1>2
  <2>2. ASSUME NEW x \in S, NEW y \in S, rank[x] = rank[y]
        PROVE  x = y
    <3>1. rank[x] \in Int /\ rank[y] \in Int
      BY <1>1, <1>2
    <3> HIDE DEF rank
    <3>2. <<x, y>> \notin R /\ <<y, x>> \notin R
      BY <1>3, <2>2, <3>1
    <3> QED
      BY <3>2 DEF Orders
  <2> HIDE DEF rank
  <2> QED
    BY <2>1, <2>2 DEF Injection, IsInjective
<1>5. rank \in Surjection(S, 1 .. n)
  <2>1. IsFiniteSet(1 .. n) /\ Cardinality(1 .. n) = n
    BY <1>1, FS_Interval
  <2> HIDE DEF rank
  <2> QED
    BY <1>4, <2>1, FS_Injection
<1> HIDE DEF rank
<1>6. ASSUME NEW i \in 1 .. n
      PROVE  f[i] \in S /\ rank[f[i]] = i
  BY <1>5 DEF Surjection
<1>7. ASSUME NEW i \in 1 .. n, NEW j \in 1 .. n, i < j
      PROVE  <<f[i], f[j]>> \in R
  <2>1. /\ f[i] \in S /\ f[j] \in S /\ rank[f[i]] = i /\ rank[f[j]] = j
    BY <1>6
  <2> HIDE DEF f, n
  <2>2. f[i] # f[j] /\ ~(rank[f[j]] < rank[f[i]])
    BY <1>1, <1>7, <2>1
  <2> QED
    BY <1>3, <2>1, <2>2 DEF Orders
<1>8. f \in [1 .. n -> S]
  BY <1>6
<1> HIDE DEF f
<1> QED
  BY <1>7, <1>8 DEF Sorts

(* A list that has every element of a set, at one place. *)
Lists(f, S) ==
  /\ Cardinality(S) \in Nat /\ f \in Seq(S) /\ Len(f) = Cardinality(S)
  /\ DOMAIN f = 1 .. Cardinality(S)
  /\ \A i \in DOMAIN f : f[i] \in S
  /\ \A i, j \in DOMAIN f : f[i] = f[j] => i = j
  /\ \A x \in S : \E i \in DOMAIN f : f[i] = x

LEMMA SortedOnce ==
  ASSUME NEW S, IsFiniteSet(S), NEW R, Orders(R, S), NEW f, Sorts(f, S, R)
  PROVE  Lists(f, S)
<1> DEFINE n == Cardinality(S)
<1>1. n \in Nat
  BY FS_CardinalityType
<1>2. f \in [1 .. n -> S]
  BY DEF Sorts
<1>3. f \in Seq(S) /\ Len(f) = n
  BY <1>1, <1>2
<1>4. ASSUME NEW i \in 1 .. n, NEW j \in 1 .. n, f[i] = f[j]
      PROVE  i = j
  <2>1. f[i] \in S /\ <<f[i], f[i]>> \notin R
    BY <1>2 DEF Orders
  <2>2. ~(i < j) /\ ~(j < i)
    BY <1>4, <2>1 DEF Sorts
  <2> QED
    BY <1>1, <2>2
<1>5. f \in Injection(1 .. n, S)
  BY <1>2, <1>4 DEF Injection, IsInjective
<1>6. f \in Surjection(1 .. n, S)
  <2>1. IsFiniteSet(1 .. n) /\ Cardinality(1 .. n) = n
    BY <1>1, FS_Interval
  <2> QED
    BY <1>5, <2>1, FS_Injection
<1> HIDE DEF n
<1>7. \A x \in S : \E i \in 1 .. n : f[i] = x
  BY <1>6 DEF Surjection
<1> QED
  BY <1>1, <1>2, <1>3, <1>4, <1>7 DEF n, Lists

(* A finite set has a first element in any order. *)
LEMMA OneFirst ==
  ASSUME NEW S, IsFiniteSet(S), S # {}, NEW R, Orders(R, S)
  PROVE  \E x \in S : \A y \in S \ {x} : <<x, y>> \in R
<1>1. PICK f : Sorts(f, S, R)
  BY SortedExists
<1>2. Cardinality(S) \in Nat \ {0}
  BY FS_CardinalityType, FS_EmptySet
<1>3. f[1] \in S
  BY <1>1, <1>2 DEF Sorts
<1>4. ASSUME NEW y \in S \ {f[1]}
      PROVE  <<f[1], y>> \in R
  <2>1. PICK i \in 1 .. Cardinality(S) : f[i] = y
    BY <1>1, SortedOnce DEF Lists
  <2>2. 1 < i
    BY <1>2, <1>4, <2>1
  <2> QED
    BY <1>1, <1>2, <2>1, <2>2 DEF Sorts
<1> QED
  BY <1>3, <1>4

-----------------------------------------------------------------------------
(* Views: the tables *)

NoteRow == [state : {"new", "there", "gone"}, automatic : BOOLEAN]
SchedRow ==
  [of : NoteIds \cup {0}, sendAt : Nat,
   status : {"none", "scheduled", "sending", "stopped", "gone"}]
ViewsTyped ==
  /\ note \in [NoteIds -> NoteRow] /\ sched \in [SchedIds -> SchedRow]
  /\ recip \in [SchedIds -> [Readers -> {"none", "user", "anonymous"}]]

(* At any time there are finitely many rows, and a schedule belongs to a     *)
(* notification that has not been deleted.                                  *)
NotesThere == {n \in NoteIds : note[n].state = "there"}
RowsInv ==
  /\ IsFiniteSet(Shown) /\ IsFiniteSet(NotesThere)
  /\ \A s \in Shown : sched[s].of \in NotesThere

TablesInv == ViewsTyped /\ RowsInv

LEMMA NoRow ==
  /\ NoSched \in SchedRow /\ NoSched.of = 0
  /\ [NoSched EXCEPT !.status = "gone"] \in SchedRow
  /\ [NoSched EXCEPT !.status = "gone"].of = 0
  /\ \A n \in NoteIds : n # 0
  BY ViewsConstants DEF NoSched, SchedRow

(* A step that adds no schedule, and takes away no notification that has one. *)
LEMMA RowsKept ==
  ASSUME RowsInv, Shown' \subseteq Shown, NotesThere' \subseteq NotesThere,
         \A s \in Shown' : sched'[s].of = sched[s].of /\ sched[s].of \in NotesThere'
  PROVE  RowsInv'
  BY FS_Subset DEF RowsInv

LEMMA AddedSchedule ==
  ASSUME TablesInv, NEW n \in NoteIds, NEW s \in SchedIds, NEW t \in SendTimes,
         sched' = [sched EXCEPT ![s] = [of |-> n, sendAt |-> t, status |-> "scheduled"]],
         NotesThere' = NotesThere \cup {n}
  PROVE  RowsInv' /\ sched' \in [SchedIds -> SchedRow]
<1>1. sched' \in [SchedIds -> SchedRow]
  BY ViewsConstants DEF TablesInv, ViewsTyped, SchedRow
<1>2. sched'[s].of = n /\ n # 0 /\ \A r \in SchedIds \ {s} : sched'[r] = sched[r]
  BY NoRow DEF TablesInv, ViewsTyped
<1>3. Shown' = Shown \cup {s}
  BY <1>2 DEF Shown
<1>4. IsFiniteSet(Shown') /\ IsFiniteSet(NotesThere')
  BY <1>3, FS_AddElement DEF TablesInv, RowsInv
<1>5. \A r \in Shown' : sched'[r].of \in NotesThere'
  BY <1>2, <1>3 DEF TablesInv, RowsInv, Shown
<1> QED
  BY <1>1, <1>4, <1>5 DEF RowsInv

LEMMA ViewsInitTables == ViewsInit => TablesInv
<1> SUFFICES ASSUME ViewsInit
             PROVE  TablesInv
  OBVIOUS
<1>1. ViewsTyped
  BY NoRow DEF ViewsInit, ViewsTyped, NoteRow
<1>2. Shown = {} /\ NotesThere = {}
  BY NoRow DEF ViewsInit, Shown, NotesThere
<1> QED
  BY <1>1, <1>2, FS_EmptySet DEF TablesInv, RowsInv

LEMMA ViewsNextTables ==
  ASSUME TablesInv, [ViewsNext]_viewsVars
  PROVE  TablesInv'
<1> USE DEF TablesInv, ViewsTyped
<1>1. CASE UNCHANGED tables
  BY <1>1, RowsKept DEF tables, Shown, NotesThere, RowsInv
<1>2. ASSUME NEW n \in NoteIds, DeleteNote(n)
      PROVE  TablesInv'
  <2>1. note' \in [NoteIds -> NoteRow] /\ NotesThere' = NotesThere \ {n}
    BY <1>2 DEF DeleteNote, NoteRow, NotesThere
  <2>2. sched' \in [SchedIds -> SchedRow]
    BY <1>2, NoRow DEF DeleteNote
  <2>3. \A s \in SchedIds : IF s \in SchedulesOf(n) THEN sched'[s].of = 0 ELSE sched'[s] = sched[s]
    BY <1>2, NoRow DEF DeleteNote
  <2>4. Shown' = Shown \ SchedulesOf(n)
    BY <2>3 DEF Shown, SchedulesOf
  <2>5. \A s \in Shown' : sched'[s].of = sched[s].of /\ sched[s].of \in NotesThere'
    BY <2>1, <2>3, <2>4 DEF Shown, SchedulesOf, RowsInv
  <2> QED
    BY <1>2, <2>1, <2>2, <2>4, <2>5, RowsKept DEF DeleteNote
<1>3. ASSUME NEW n \in NoteIds, NEW s \in SchedIds, NEW t \in SendTimes, ResendNote(n, s, t)
      PROVE  TablesInv'
  <2>1. n \in NotesThere
    BY <1>3 DEF ResendNote, SchedulesOf, RowsInv
  <2>2. NotesThere' = NotesThere \cup {n}
    BY <1>3, <2>1 DEF ResendNote, NotesThere
  <2> QED
    BY <1>3, <2>2, AddedSchedule DEF ResendNote
<1>4. ASSUME NEW n \in NoteIds, NEW s \in SchedIds, NEW t \in SendTimes,
             NEW automatic \in BOOLEAN, CreateNote(n, s, t, automatic)
      PROVE  TablesInv'
  <2>1. note' \in [NoteIds -> NoteRow] /\ NotesThere' = NotesThere \cup {n}
    BY <1>4 DEF CreateNote, NoteRow, NotesThere
  <2> QED
    BY <1>4, <2>1, AddedSchedule DEF CreateNote
<1>5. ASSUME NEW s \in SchedIds, CancelUnsent(s)
      PROVE  TablesInv'
  <2>1. sched' \in [SchedIds -> SchedRow] /\ sched'[s].of = 0
    BY <1>5, NoRow DEF CancelUnsent
  <2>2. \A r \in SchedIds \ {s} : sched'[r] = sched[r]
    BY <1>5 DEF CancelUnsent
  <2>3. Shown' \subseteq Shown /\ NotesThere' = NotesThere
    BY <1>5, <2>1, <2>2 DEF CancelUnsent, Shown, NotesThere
  <2>4. \A r \in Shown' : sched'[r].of = sched[r].of /\ sched[r].of \in NotesThere'
    BY <2>1, <2>2, <2>3 DEF Shown, RowsInv
  <2> QED
    BY <1>5, <2>1, <2>3, <2>4, RowsKept DEF CancelUnsent
<1>6. ASSUME sched' \in [SchedIds -> SchedRow], note' = note,
             recip' \in [SchedIds -> [Readers -> {"none", "user", "anonymous"}]],
             \A s \in SchedIds : sched'[s].of = sched[s].of
      PROVE  TablesInv'
  <2>1. Shown' = Shown /\ NotesThere' = NotesThere
    BY <1>6 DEF Shown, NotesThere
  <2> QED
    BY <1>6, <2>1, RowsKept DEF RowsInv, Shown
<1>7. ASSUME NEW s \in SchedIds,
             \/ StopSchedule(s) \/ \E t \in SendTimes : MoveSchedule(s, t)
             \/ \E who \in SUBSET Readers, devices \in SUBSET Tokens : ResolveNote(s, who, devices)
      PROVE  TablesInv'
  <2>1. /\ sched' \in [SchedIds -> SchedRow] /\ note' = note
        /\ \A r \in SchedIds : sched'[r].of = sched[r].of
    <3>1. CASE StopSchedule(s)
      BY <3>1 DEF StopSchedule, SchedRow
    <3>2. ASSUME NEW t \in SendTimes, MoveSchedule(s, t)
          PROVE  /\ sched' \in [SchedIds -> SchedRow] /\ note' = note
                 /\ \A r \in SchedIds : sched'[r].of = sched[r].of
      <4>1. t \in Nat
        BY ViewsConstants
      <4> QED
        BY <3>2, <4>1 DEF MoveSchedule, SchedRow
    <3>3. ASSUME NEW who, NEW devices, ResolveNote(s, who, devices)
          PROVE  /\ sched' \in [SchedIds -> SchedRow] /\ note' = note
                 /\ \A r \in SchedIds : sched'[r].of = sched[r].of
      BY <3>3 DEF ResolveNote, SchedRow
    <3> QED
      BY <1>7, <3>1, <3>2, <3>3
  <2>2. recip' \in [SchedIds -> [Readers -> {"none", "user", "anonymous"}]]
    BY <1>7 DEF StopSchedule, MoveSchedule, ResolveNote
  <2> QED
    BY <1>6, <2>1, <2>2
<1>8. ASSUME NEW u \in Readers, AnonymizeReader(u)
      PROVE  TablesInv'
  <2>1. recip' \in [SchedIds -> [Readers -> {"none", "user", "anonymous"}]]
    BY <1>8 DEF AnonymizeReader
  <2> QED
    BY <1>6, <1>8, <2>1 DEF AnonymizeReader
<1>9. ASSUME NEW s \in SchedIds, NEW u \in Readers, NEW d \in Tokens,
             NEW status \in DeliveryStatuses, SettleDelivery(s, u, d, status)
      PROVE  TablesInv'
  BY <1>6, <1>9 DEF SettleDelivery
<1> QED
  BY <1>1, <1>2, <1>3, <1>4, <1>5, <1>7, <1>8, <1>9
     DEF ViewsNext, WriteNotices, ReadLists, ReadHistories, viewsVars, tables, ReadCount, ReadIds, ReadUnpaged, ReadItems, AnswerList,
         AskHistory, ReadHistoryRows, ReadHistoryTotal, AnswerHistory

-----------------------------------------------------------------------------
(* Views: lists *)

(* A second begins with a multiple, and later times are in no earlier one. *)
LEMMA Seconds ==
  /\ \A t \in Nat : Second(t) \in Nat
  /\ \A a, b \in Nat : a <= b => Second(a) <= Second(b)
<1>1. ASSUME NEW t \in Nat
      PROVE  /\ Second(t) \in Int
             /\ Second(t) * PerSecond <= t /\ t < Second(t) * PerSecond + PerSecond
  <2> DEFINE d == t \div PerSecond
             m == t % PerSecond
  <2>1. PerSecond \in Nat \ {0}
    BY ViewsConstants
  <2>2. d \in Int /\ m \in 0 .. PerSecond - 1 /\ t = d * PerSecond + m
    BY <2>1, Z3
  <2> HIDE DEF d, m
  <2>3. d * PerSecond \in Int
    BY <2>1, <2>2
  <2>4. d * PerSecond <= t /\ t < d * PerSecond + PerSecond
    BY <2>1, <2>2, <2>3
  <2> QED
    BY <2>2, <2>4 DEF d, Second
<1>2. ASSUME NEW a \in Int, NEW b \in Int, a < b
      PROVE  a * PerSecond + PerSecond <= b * PerSecond
  <2>1. PerSecond \in Nat \ {0}
    BY ViewsConstants
  <2>2. (b - a - 1) * PerSecond >= 0
    BY <1>2, <2>1
  <2>3. (b - a - 1) * PerSecond = b * PerSecond - a * PerSecond - PerSecond
    BY <2>1
  <2> QED
    BY <2>1, <2>2, <2>3
<1>3. PerSecond \in Nat \ {0}
  BY ViewsConstants
<1>4. ASSUME NEW t \in Nat
      PROVE  Second(t) >= 0
  <2>1. Second(t) < 0 => Second(t) * PerSecond + PerSecond <= 0 * PerSecond
    BY <1>1, <1>2
  <2>2. Second(t) \in Int /\ t < Second(t) * PerSecond + PerSecond /\ 0 * PerSecond = 0
        /\ Second(t) * PerSecond \in Int
    BY <1>1, <1>3
  <2> QED
    BY <1>3, <2>1, <2>2
<1>5. ASSUME NEW a \in Nat, NEW b \in Nat, a <= b
      PROVE  Second(a) <= Second(b)
  <2>1. Second(b) < Second(a) => Second(b) * PerSecond + PerSecond <= Second(a) * PerSecond
    BY <1>1, <1>2
  <2>2. /\ Second(a) \in Int /\ Second(b) \in Int
        /\ Second(a) * PerSecond <= a /\ b < Second(b) * PerSecond + PerSecond
        /\ Second(a) * PerSecond \in Int /\ Second(b) * PerSecond \in Int
    BY <1>1, <1>3
  <2> QED
    BY <1>3, <1>5, <2>1, <2>2
<1> QED
  BY <1>1, <1>4, <1>5

LEMMA CalendarSorted ==
  ASSUME TablesInv, NEW q \in Listings
  PROVE  Lists(Calendar(q), {s \in Shown : BetweenSeconds(s, q.from, q.to)})
<1> DEFINE S == {s \in Shown : BetweenSeconds(s, q.from, q.to)}
           at(s) == Second(sched[s].sendAt)
           Precedes(s, t) == at(s) < at(t) \/ (at(s) = at(t) /\ s < t)
           R == {p \in S \X S : Precedes(p[1], p[2])}
           n == Cardinality(S)
           InOrder(f) == \A i, j \in 1 .. n : i < j => Precedes(f[i], f[j])
<1>1. IsFiniteSet(S)
  BY FS_Subset DEF TablesInv, RowsInv
<1>2. \A s \in S : s \in Nat /\ at(s) \in Nat
  <2>1. \A s \in S : s \in Nat /\ sched[s].sendAt \in Nat
    BY ViewsConstants DEF TablesInv, ViewsTyped, SchedRow, Shown
  <2> QED
    BY <2>1, Seconds
<1>3. \A s, t : <<s, t>> \in R <=> s \in S /\ t \in S /\ Precedes(s, t)
  OBVIOUS
<1>4. Calendar(q) = CHOOSE f \in [1 .. n -> S] : InOrder(f)
  BY DEF Calendar, OrderBy
<1> HIDE DEF S, R, at
<1>5. Orders(R, S)
  BY <1>2, <1>3 DEF Orders
<1> HIDE DEF Precedes
<1>6. PICK f : Sorts(f, S, R)
  BY <1>1, <1>5, SortedExists
<1>7. f \in [1 .. n -> S] /\ InOrder(f)
  BY <1>3, <1>6 DEF Sorts
<1> HIDE DEF InOrder
<1>8. Calendar(q) \in [1 .. n -> S] /\ InOrder(Calendar(q))
  BY <1>4, <1>7, Zenon
<1>9. Sorts(Calendar(q), S, R)
  BY <1>3, <1>8 DEF Sorts, InOrder
<1> QED
  BY <1>1, <1>5, <1>9, SortedOnce DEF S

LEMMA UnpagedSorted ==
  ASSUME TablesInv, NEW q \in Listings
  PROVE  Lists(Unpaged(q), {n \in NotesThere : InDates(n, q) # {}})
<1> DEFINE S == {n \in NoteIds : note[n].state = "there" /\ InDates(n, q) # {}}
           R == {p \in S \X S : p[1] > p[2]}
           c == Cardinality(S)
           InOrder(f) == \A i, j \in 1 .. c : i < j => f[i] > f[j]
<1>1. IsFiniteSet(S) /\ S = {n \in NotesThere : InDates(n, q) # {}}
  <2>1. S = {n \in NotesThere : InDates(n, q) # {}}
    BY DEF NotesThere
  <2> QED
    BY <2>1, FS_Subset DEF TablesInv, RowsInv
<1>2. \A n \in S : n \in Nat
  BY ViewsConstants
<1>3. \A n, m : <<n, m>> \in R <=> n \in S /\ m \in S /\ n > m
  OBVIOUS
<1>4. Unpaged(q) = CHOOSE f \in [1 .. c -> S] : InOrder(f)
  BY DEF Unpaged, OrderBy
<1> HIDE DEF S, R
<1>5. Orders(R, S)
  BY <1>2, <1>3 DEF Orders
<1>6. PICK f : Sorts(f, S, R)
  BY <1>1, <1>5, SortedExists
<1>7. f \in [1 .. c -> S] /\ InOrder(f)
  BY <1>3, <1>6 DEF Sorts
<1> HIDE DEF InOrder
<1>8. Unpaged(q) \in [1 .. c -> S] /\ InOrder(Unpaged(q))
  BY <1>4, <1>7, Zenon
<1>9. Sorts(Unpaged(q), S, R)
  BY <1>3, <1>8 DEF Sorts, InOrder
<1> QED
  BY <1>1, <1>5, <1>9, SortedOnce

(* The schedule that represents a notification is one the filter leaves. *)
LEMMA RepresentativeIn ==
  ASSUME TablesInv, NEW q \in Listings, NEW n \in Scope(q)
  PROVE  Representative(n, q) \in Filtered(n, q)
<1> DEFINE S == Filtered(n, q)
           R == {p \in S \X S : Nearer(p[1], p[2])}
           First(s) == \A t \in S \ {s} : Nearer(s, t)
<1>1. S # {} /\ S \subseteq Shown
  BY DEF Scope, Filtered, InDates, SchedulesOf
<1>2. IsFiniteSet(S)
  BY <1>1, FS_Subset DEF TablesInv, RowsInv
<1>3. \A s \in S : s \in Nat /\ sched[s].sendAt \in Nat
  BY <1>1, ViewsConstants DEF TablesInv, ViewsTyped, SchedRow, Shown
<1>4. \A s, t : <<s, t>> \in R <=> s \in S /\ t \in S /\ Nearer(s, t)
  OBVIOUS
<1>5. Representative(n, q) = CHOOSE s \in S : First(s)
  BY DEF Representative
<1> HIDE DEF S, R
<1>6. Orders(R, S)
  BY <1>3, <1>4, ViewsConstants DEF Orders, Nearer
<1>7. PICK s \in S : First(s)
  <2>1. PICK s \in S : \A t \in S \ {s} : <<s, t>> \in R
    BY <1>1, <1>2, <1>6, OneFirst
  <2> QED
    BY <1>4, <2>1
<1> HIDE DEF First
<1>8. Representative(n, q) \in S
  BY <1>5, <1>7, Zenon
<1> QED
  BY <1>8 DEF S

LEMMA OrderedSorted ==
  ASSUME TablesInv, NEW q \in Listings
  PROVE  Lists(Ordered(q), Matched(q))
<1> DEFINE S == Matched(q)
           value == [n \in Scope(q) |-> SortValue(n, q)]
           Precedes(n, m) == \/ value[n] # value[m] /\ (value[n] > value[m]) = q.desc
                             \/ value[n] = value[m] /\ n > m
           R == {p \in S \X S : Precedes(p[1], p[2])}
           c == Cardinality(S)
           InOrder(f) == \A i, j \in 1 .. c : i < j => Precedes(f[i], f[j])
<1>1. IsFiniteSet(S)
  <2>1. S \subseteq NotesThere
    BY DEF Matched, Scope, NotesThere
  <2> QED
    BY <2>1, FS_Subset DEF TablesInv, RowsInv
<1>2. \A n \in S : n \in Nat /\ value[n] \in Nat
  <2>1. ASSUME NEW n \in S
        PROVE  n \in Nat /\ SortValue(n, q) \in Nat
    <3>1. n \in Scope(q) /\ n \in Nat
      BY ViewsConstants DEF Matched, Scope
    <3>2. Representative(n, q) \in SchedIds
      BY <3>1, RepresentativeIn DEF Filtered, InDates, SchedulesOf, Shown
    <3>3. sched[Representative(n, q)].sendAt \in Nat
      BY <3>2 DEF TablesInv, ViewsTyped, SchedRow
    <3> QED
      BY <3>1, <3>3 DEF SortValue
  <2>2. S \subseteq Scope(q)
    BY DEF Matched
  <2> QED
    BY <2>1, <2>2
<1>3. \A n, m : <<n, m>> \in R <=> n \in S /\ m \in S /\ Precedes(n, m)
  OBVIOUS
<1>4. Ordered(q) = CHOOSE f \in [1 .. c -> S] : InOrder(f)
  BY DEF Ordered, OrderBy
<1> HIDE DEF S, R, value
<1>5. Orders(R, S)
  <2>1. ASSUME NEW n \in S, NEW m \in S
        PROVE  /\ Precedes(n, m) => n # m
               /\ n # m => Precedes(n, m) \/ Precedes(m, n)
    BY <1>2, ViewsConstants
  <2>2. CASE q.desc = TRUE
    <3>1. \A n, m : Precedes(n, m) <=> \/ value[n] # value[m] /\ value[n] > value[m]
                                       \/ value[n] = value[m] /\ n > m
      BY <2>2
    <3> HIDE DEF Precedes
    <3> QED
      BY <1>2, <1>3, <2>1, <3>1 DEF Orders
  <2>3. CASE q.desc = FALSE
    <3>1. \A n, m : Precedes(n, m) <=> \/ value[n] # value[m] /\ (value[n] > value[m]) = FALSE
                                       \/ value[n] = value[m] /\ n > m
      BY <2>3, Zenon
    <3>2. \A n, m : Precedes(n, m) <=> \/ value[n] # value[m] /\ ~(value[n] > value[m])
                                       \/ value[n] = value[m] /\ n > m
      <4> HIDE DEF Precedes
      <4> QED
        BY <3>1
    <3> HIDE DEF Precedes
    <3> QED
      BY <1>2, <1>3, <2>1, <3>2 DEF Orders
  <2> QED
    BY <2>2, <2>3, ViewsConstants
<1> HIDE DEF Precedes
<1>6. PICK f : Sorts(f, S, R)
  BY <1>1, <1>5, SortedExists
<1>7. f \in [1 .. c -> S] /\ InOrder(f)
  BY <1>3, <1>6 DEF Sorts
<1> HIDE DEF InOrder
<1>8. Ordered(q) \in [1 .. c -> S] /\ InOrder(Ordered(q))
  BY <1>4, <1>7, Zenon
<1>9. Sorts(Ordered(q), S, R)
  BY <1>3, <1>8 DEF Sorts, InOrder
<1> QED
  BY <1>1, <1>5, <1>9, SortedOnce DEF S

(* The items of a page are in the places of their ids. *)
LEMMA PlacedInOrder ==
  ASSUME NEW ids \in Seq(NoteIds), NEW S \in SUBSET NoteIds,
         \A n \in S : \E i \in DOMAIN ids : ids[i] = n
  PROVE  LET shown == InPositions(ids, S) IN
         /\ Lists(shown, S) /\ Len(shown) <= Len(ids)
         /\ \A i, j \in DOMAIN shown : i < j => Position(ids, shown[i]) < Position(ids, shown[j])
         /\ \A n \in S : Position(ids, n) \in DOMAIN ids /\ ids[Position(ids, n)] = n
<1> DEFINE Precedes(n, m) == Position(ids, n) < Position(ids, m)
           R == {p \in S \X S : Precedes(p[1], p[2])}
           c == Cardinality(S)
           InOrder(f) == \A i, j \in 1 .. c : i < j => Precedes(f[i], f[j])
           place == [n \in S |-> Position(ids, n)]
<1>1. \A n \in S : Position(ids, n) \in DOMAIN ids /\ ids[Position(ids, n)] = n
  BY DEF Position
<1>2. DOMAIN ids = 1 .. Len(ids) /\ Len(ids) \in Nat
  OBVIOUS
<1>3. place \in Injection(S, 1 .. Len(ids))
  <2>1. place \in [S -> 1 .. Len(ids)]
    BY <1>1, <1>2
  <2>2. \A n, m \in S : place[n] = place[m] => n = m
    BY <1>1
  <2> HIDE DEF place
  <2> QED
    BY <2>1, <2>2 DEF Injection, IsInjective
<1>4. IsFiniteSet(S) /\ c <= Len(ids)
  <2>1. IsFiniteSet(1 .. Len(ids)) /\ Cardinality(1 .. Len(ids)) = Len(ids)
    BY <1>2, FS_Interval
  <2> HIDE DEF place
  <2> QED
    BY <1>3, <2>1, FS_Injection
<1>5. \A n, m : <<n, m>> \in R <=> n \in S /\ m \in S /\ Precedes(n, m)
  OBVIOUS
<1>6. InPositions(ids, S) = CHOOSE f \in [1 .. c -> S] : InOrder(f)
  BY DEF InPositions, OrderBy
<1> HIDE DEF R, place
<1>7. Orders(R, S)
  BY <1>1, <1>2, <1>5 DEF Orders
<1>8. PICK f : Sorts(f, S, R)
  BY <1>4, <1>7, SortedExists
<1>9. f \in [1 .. c -> S] /\ InOrder(f)
  BY <1>5, <1>8 DEF Sorts
<1> HIDE DEF InOrder
<1>10. InPositions(ids, S) \in [1 .. c -> S] /\ InOrder(InPositions(ids, S))
  BY <1>6, <1>9, Zenon
<1>11. Sorts(InPositions(ids, S), S, R)
  BY <1>5, <1>10 DEF Sorts, InOrder
<1>12. Lists(InPositions(ids, S), S)
  BY <1>4, <1>7, <1>11, SortedOnce
<1> QED
  BY <1>1, <1>4, <1>10, <1>12 DEF InOrder, Lists

(* LIMIT and OFFSET: the rows from the offset on, up to the limit. *)
LEMMA WindowRows ==
  ASSUME NEW S, NEW seq \in Seq(S), NEW offset \in Nat, NEW limit \in Nat \ {0}
  PROVE  LET rows == Window(seq, offset, limit)
         IN  /\ rows \in Seq(S)
             /\ Len(rows) <= limit
             /\ \A i : i \in DOMAIN rows <=> i \in 1 .. limit /\ i + offset <= Len(seq)
             /\ \A i \in DOMAIN rows : rows[i] = seq[i + offset]
<1> DEFINE last == IF offset + limit < Len(seq) THEN offset + limit ELSE Len(seq)
           rows == Window(seq, offset, limit)
<1>1. last \in Int /\ last <= Len(seq) /\ last <= offset + limit
      /\ (last = Len(seq) \/ last = offset + limit)
  OBVIOUS
<1>2. rows = SubSeq(seq, offset + 1, last)
  BY DEF Window
<1> HIDE DEF last, rows
<1>3. DOMAIN rows = 1 .. (last - offset)
  BY <1>1, <1>2
<1>4. ASSUME NEW i \in DOMAIN rows
      PROVE  rows[i] = seq[i + offset]
  <2>1. i \in 1 .. (last - offset) /\ i + (offset + 1) - 1 = i + offset
    BY <1>1, <1>3
  <2>2. rows[i] = seq[i + (offset + 1) - 1]
    BY <1>1, <1>2, <2>1
  <2> QED
    BY <2>1, <2>2
<1>5. Len(rows) <= limit
  <2>1. CASE offset <= last
    BY <1>1, <1>2, <2>1
  <2>2. CASE last < offset
    <3>1. rows = <<>>
      BY <1>1, <1>2, <2>2
    <3> QED
      BY <3>1
  <2> QED
    BY <1>1, <2>1, <2>2
<1>6. \A i : i \in DOMAIN rows <=> i \in 1 .. limit /\ i + offset <= Len(seq)
  BY <1>1, <1>3
<1>7. rows \in Seq(S)
  <2>1. \A i \in offset + 1 .. last : seq[i] \in S
    BY <1>1
  <2> QED
    BY <1>1, <1>2, <2>1
<1> QED
  BY <1>4, <1>5, <1>6, <1>7 DEF rows

LEMMA PageTaken ==
  ASSUME NEW S, NEW seq \in Seq(S), NEW page \in Nat \ {0}, NEW limit \in Nat \ {0}
  PROVE  Page(seq, page, limit) \in Seq(S)
<1>1. (page - 1) * limit \in Nat
  OBVIOUS
<1> QED
  BY <1>1, WindowRows DEF Page

(* A request for a page holds a list of ids, and what is shown is in their order. *)
ListingTyped ==
  listing \in [pc : {"idle", "counted", "ids", "shown"}, of : SUBSET Listings, total : Nat,
               ids : Seq(NoteIds), shown : Seq(NoteIds)]
ListingInv == ListingTyped /\ PageInOrder

LEMMA EmptyListing == NoListing \in [pc : {"idle", "counted", "ids", "shown"}, of : SUBSET Listings,
                                     total : Nat, ids : Seq(NoteIds), shown : Seq(NoteIds)]
                      /\ NoListing.pc = "idle"
  BY DEF NoListing

LEMMA ScopeCounted ==
  ASSUME TablesInv, NEW q \in Listings
  PROVE  Cardinality(Scope(q)) \in Nat /\ Cardinality(Matched(q)) \in Nat
<1>1. Scope(q) \subseteq NotesThere /\ Matched(q) \subseteq NotesThere
  BY DEF Matched, Scope, NotesThere
<1> QED
  BY <1>1, FS_Subset, FS_CardinalityType DEF TablesInv, RowsInv

LEMMA UnpagedShown ==
  ASSUME TablesInv, ListingInv, NEW q \in Listings, ReadUnpaged(q)
  PROVE  ListingInv'
<1> DEFINE c == Unpaged(q)
           l == [NoListing EXCEPT !.pc = "shown", !.total = Len(c), !.ids = c, !.shown = c]
<1>1. listing' = l
  BY DEF ReadUnpaged
<1>2. c \in Seq({n \in NotesThere : InDates(n, q) # {}}) /\ DOMAIN c = 1 .. Len(c) /\ Len(c) \in Nat
  BY UnpagedSorted DEF Lists
<1>3. c \in Seq(NoteIds)
  BY <1>2 DEF NotesThere
<1> HIDE DEF c
<1>4. ListingTyped'
  BY <1>1, <1>2, <1>3, EmptyListing DEF ListingTyped
<1>5. listing'.ids = c /\ listing'.shown = c
  BY <1>1, EmptyListing
<1> HIDE DEF l
<1>6. PageInOrder'
  BY <1>2, <1>5 DEF PageInOrder
<1> QED
  BY <1>4, <1>6 DEF ListingInv

LEMMA IdsRead ==
  ASSUME TablesInv, ListingInv, NEW q \in Listings, ReadIds(q)
  PROVE  ListingInv'
<1> DEFINE p == Page(Ordered(q), q.page, q.limit)
<1>1. p \in Seq(NoteIds)
  <2>1. Ordered(q) \in Seq(Matched(q))
    BY OrderedSorted DEF Lists
  <2>2. Ordered(q) \in Seq(NoteIds)
    BY <2>1 DEF Matched, Scope
  <2> QED
    BY <2>2, PageTaken, ViewsConstants
<1> HIDE DEF p
<1>2. PICK n \in Nat : listing' = [listing EXCEPT !.pc = "ids", !.ids = p, !.total = n]
  <2>1. Cardinality(Matched(q)) \in Nat /\ listing.total \in Nat
    BY ScopeCounted DEF ListingInv, ListingTyped
  <2> QED
    BY <2>1 DEF ReadIds, p
<1> QED
  BY <1>1, <1>2 DEF ListingInv, ListingTyped, PageInOrder

LEMMA ItemsShown ==
  ASSUME ListingInv, ReadItems
  PROVE  ListingInv'
<1> DEFINE S == {n \in NoteIds : note[n].state = "there" /\ \E i \in DOMAIN listing.ids : listing.ids[i] = n}
           c == InPositions(listing.ids, S)
<1>1. listing.ids \in Seq(NoteIds)
  BY DEF ListingInv, ListingTyped
<1>2. listing' = [listing EXCEPT !.pc = "shown", !.shown = c]
  BY DEF ReadItems
<1>3. \A n \in S : \E i \in DOMAIN listing.ids : listing.ids[i] = n
  OBVIOUS
<1>4. S \subseteq NoteIds
  OBVIOUS
<1> HIDE DEF S
<1>5. /\ Lists(c, S) /\ Len(c) <= Len(listing.ids)
      /\ \A i, j \in DOMAIN c : i < j => Position(listing.ids, c[i]) < Position(listing.ids, c[j])
      /\ \A n \in S : Position(listing.ids, n) \in DOMAIN listing.ids
                      /\ listing.ids[Position(listing.ids, n)] = n
  BY <1>1, <1>3, <1>4, PlacedInOrder
<1> HIDE DEF c
<1>6. c \in Seq(NoteIds) /\ \A i \in DOMAIN c : c[i] \in S
  BY <1>4, <1>5 DEF Lists
<1>7. listing'.ids = listing.ids /\ listing'.shown = c
  BY <1>2 DEF ListingInv, ListingTyped
<1>8. ListingTyped'
  BY <1>2, <1>6 DEF ListingInv, ListingTyped
<1>9. \A i, j \in DOMAIN c : i < j =>
        \E k, l \in DOMAIN listing.ids : k < l /\ listing.ids[k] = c[i] /\ listing.ids[l] = c[j]
  BY <1>5, <1>6
<1> QED
  BY <1>5, <1>7, <1>8, <1>9 DEF ListingInv, PageInOrder

LEMMA ViewsNextListing ==
  ASSUME TablesInv, ListingInv, [ViewsNext]_viewsVars
  PROVE  ListingInv'
<1>1. CASE UNCHANGED listing
  BY <1>1 DEF ListingInv, ListingTyped, PageInOrder
<1>2. ASSUME NEW q \in Listings, ReadCount(q)
      PROVE  ListingInv'
  BY <1>2, EmptyListing, ScopeCounted DEF ReadCount, ListingInv, ListingTyped, PageInOrder
<1>3. CASE AnswerList
  BY <1>3, EmptyListing DEF AnswerList, ListingInv, ListingTyped, PageInOrder
<1> QED
  BY <1>1, <1>2, <1>3, UnpagedShown, IdsRead, ItemsShown
     DEF ViewsNext, WriteNotices, ReadLists, ReadHistories, viewsVars, DeleteNote, ResendNote, CreateNote, CancelUnsent, StopSchedule,
         MoveSchedule, ResolveNote, SettleDelivery, AnonymizeReader,
         AskHistory, ReadHistoryRows, ReadHistoryTotal, AnswerHistory

-----------------------------------------------------------------------------
(* Views: the calendar *)

LEMMA CalendarAlwaysAgrees ==
  ASSUME TablesInv
  PROVE  CalendarAgrees
<1> SUFFICES ASSUME NEW q \in Listings
             PROVE  LET c == Calendar(q)
                        listed == Unpaged(q)
                        onCalendar == {c[i] : i \in DOMAIN c}
                        onList == UNION {InDates(listed[i], q) : i \in DOMAIN listed}
                    IN /\ onList \subseteq onCalendar
                       /\ \A s \in onCalendar \ onList :
                            Second(sched[s].sendAt) \in {Second(q.from), Second(q.to)}
                       /\ \A s \in onCalendar : s \in DOMAIN Detail(sched[s].of)
  BY DEF CalendarAgrees
<1> DEFINE c == Calendar(q)
           listed == Unpaged(q)
           S == {s \in Shown : BetweenSeconds(s, q.from, q.to)}
           L == {s \in Shown : Between(s, q.from, q.to)}
           T == {n \in NotesThere : InDates(n, q) # {}}
<1>1. {c[i] : i \in DOMAIN c} = S
  <2>1. Lists(c, S)
    BY CalendarSorted
  <2> HIDE DEF c, S
  <2> QED
    BY <2>1 DEF Lists
<1>2. UNION {InDates(listed[i], q) : i \in DOMAIN listed} = UNION {InDates(n, q) : n \in T}
  <2>1. Lists(listed, T)
    BY UnpagedSorted
  <2> HIDE DEF listed, T
  <2>2. \A i \in DOMAIN listed : listed[i] \in T
    BY <2>1 DEF Lists
  <2>3. \A n \in T : \E i \in DOMAIN listed : listed[i] = n
    BY <2>1 DEF Lists
  <2> QED
    BY <2>2, <2>3
<1>3. L = UNION {InDates(n, q) : n \in T}
  BY DEF TablesInv, RowsInv, InDates, SchedulesOf
<1>4. \A s \in Shown : sched[s].sendAt \in Nat
  BY DEF TablesInv, ViewsTyped, SchedRow, Shown
<1>5. q.from \in Nat /\ q.to \in Nat
  BY ViewsConstants
<1>6. L \subseteq S
  BY <1>4, <1>5, Seconds DEF Between, BetweenSeconds
<1>7. ASSUME NEW s \in S \ L
      PROVE  Second(sched[s].sendAt) \in {Second(q.from), Second(q.to)}
  <2>1. /\ sched[s].sendAt < q.from \/ q.to < sched[s].sendAt
        /\ Second(q.from) <= Second(sched[s].sendAt) /\ Second(sched[s].sendAt) <= Second(q.to)
    BY <1>4, <1>5 DEF Between, BetweenSeconds
  <2>2. /\ Second(q.from) \in Nat /\ Second(sched[s].sendAt) \in Nat /\ Second(q.to) \in Nat
        /\ sched[s].sendAt < q.from => Second(sched[s].sendAt) <= Second(q.from)
        /\ q.to < sched[s].sendAt => Second(q.to) <= Second(sched[s].sendAt)
    BY <1>4, <1>5, Seconds
  <2> QED
    BY <2>1, <2>2
<1>8. \A s \in S : s \in DOMAIN Detail(sched[s].of)
  BY DEF Detail, SchedulesOf
<1> HIDE DEF c, listed, S, L, T
<1> QED
  BY <1>1, <1>2, <1>3, <1>6, <1>7, <1>8 DEF c, listed

-----------------------------------------------------------------------------
(* Views: counts *)

(* The rows of a finite set that have a property, and the others. *)
LEMMA CountedApart ==
  ASSUME NEW S, IsFiniteSet(S), NEW A, NEW B, S = A \cup B, A \cap B = {}
  PROVE  /\ IsFiniteSet(A) /\ IsFiniteSet(B)
         /\ Cardinality(A) \in Nat /\ Cardinality(B) \in Nat
         /\ Cardinality(S) = Cardinality(A) + Cardinality(B)
<1>1. IsFiniteSet(A) /\ IsFiniteSet(B)
  BY FS_Subset
<1>2. Cardinality(A) \in Nat /\ Cardinality(B) \in Nat
  BY <1>1, FS_CardinalityType
<1>3. Cardinality(A \cap B) = 0
  BY FS_EmptySet
<1>4. Cardinality(A \cup B) = Cardinality(A) + Cardinality(B) - Cardinality(A \cap B)
  BY <1>1, FS_Union
<1> QED
  BY <1>1, <1>2, <1>3, <1>4

LEMMA CountsAlwaysAddUp ==
  ASSUME TablesInv
  PROVE  CountsAddUp
<1> SUFFICES ASSUME NEW s \in Shown
             PROVE  LET r == RecipientSummary(s) IN
                    /\ r.total = r.success + r.failed + r.noTarget
                    /\ r.total = Cardinality(ScheduleResults(s))
                                   + Cardinality({u \in Readers : recip[s][u] = "anonymous"})
                    /\ r.success <= DeliveryProgress(s)["sent"]
  BY DEF CountsAddUp
<1> DEFINE all == Recipients(s)
           success == {u \in all : HasSent(s, u)}
           failed == {u \in all : HasDelivery(s, u) /\ ~HasSent(s, u)}
           noTarget == {u \in all : ~HasDelivery(s, u)}
           users == ScheduleResults(s)
           anonymous == {u \in Readers : recip[s][u] = "anonymous"}
           sent == {p \in all \X Tokens : deliv[s][p[1]][p[2]] = "sent"}
           sentTo == [u \in success |-> <<u, CHOOSE d \in Tokens : deliv[s][u][d] = "sent">>]
<1>1. /\ RecipientSummary(s).total = Cardinality(all)
      /\ RecipientSummary(s).success = Cardinality(success)
      /\ RecipientSummary(s).failed = Cardinality(failed)
      /\ RecipientSummary(s).noTarget = Cardinality(noTarget)
  BY DEF RecipientSummary
<1>2. DeliveryProgress(s)["sent"] = Cardinality(sent)
  BY DEF DeliveryProgress, DeliveryStatuses
<1>3. \A u : HasSent(s, u) => HasDelivery(s, u)
  BY DEF HasSent, HasDelivery
<1>4. all = success \cup (failed \cup noTarget) /\ success \cap (failed \cup noTarget) = {}
      /\ failed \cap noTarget = {}
  BY <1>3
<1>5. all = users \cup anonymous /\ users \cap anonymous = {}
  BY DEF TablesInv, ViewsTyped, Recipients, ScheduleResults, Shown
<1>6. IsFiniteSet(all)
  BY ViewsConstants, FS_Subset DEF Recipients
<1>7. IsFiniteSet(sent)
  <2>1. IsFiniteSet(all \X Tokens)
    <3> HIDE DEF all
    <3> QED
      BY <1>6, ViewsConstants, FS_Product
  <2> QED
    BY <2>1, FS_Subset
<1>8. sentTo \in Injection(success, sent)
  <2>1. ASSUME NEW u \in success
        PROVE  sentTo[u] \in sent /\ sentTo[u][1] = u
    <3>1. PICK d \in Tokens : deliv[s][u][d] = "sent"
      BY DEF HasSent
    <3> QED
      BY <3>1
  <2> HIDE DEF sent, success
  <2>2. sentTo \in [success -> sent]
    BY <2>1
  <2> HIDE DEF sentTo
  <2> QED
    BY <2>1, <2>2 DEF Injection, IsInjective
<1> HIDE DEF all, success, failed, noTarget, users, anonymous, sent, sentTo
<1>9. /\ IsFiniteSet(success) /\ IsFiniteSet(failed \cup noTarget)
      /\ Cardinality(success) \in Nat
      /\ Cardinality(all) = Cardinality(success) + Cardinality(failed \cup noTarget)
  BY <1>4, <1>6, CountedApart
<1>10. /\ Cardinality(failed) \in Nat /\ Cardinality(noTarget) \in Nat
       /\ Cardinality(failed \cup noTarget) = Cardinality(failed) + Cardinality(noTarget)
  BY <1>4, <1>9, CountedApart
<1>11. Cardinality(all) = Cardinality(users) + Cardinality(anonymous)
  BY <1>5, <1>6, CountedApart
<1>12. Cardinality(success) <= Cardinality(sent)
  BY <1>7, <1>8, FS_Injection
<1> QED
  BY <1>1, <1>2, <1>9, <1>10, <1>11, <1>12 DEF users, anonymous

-----------------------------------------------------------------------------
(* Views: the history *)

Listed(u) == {s \in ReceivedBy(u) : s \in LatestReceived(u, sched[s].of)}

LEMMA TotalCounted ==
  ASSUME TablesInv, NEW u \in Readers
  PROVE  HistoryTotal(u) \in Nat
<1> DEFINE N == {sched[s].of : s \in ReceivedBy(u)}
<1>1. N \subseteq NotesThere
  BY DEF ReceivedBy, TablesInv, RowsInv
<1> HIDE DEF N
<1>2. Cardinality(N) \in Nat
  BY <1>1, FS_Subset, FS_CardinalityType DEF TablesInv, RowsInv
<1> QED
  BY <1>2 DEF HistoryTotal, N

LEMMA HistorySorted ==
  ASSUME TablesInv, NEW u \in Readers
  PROVE  /\ Lists(History(u), Listed(u))
         /\ \A i, j \in DOMAIN History(u) : i < j => Later(History(u)[i], History(u)[j])
<1> DEFINE S == {s \in ReceivedBy(u) : s \in LatestReceived(u, sched[s].of)}
           R == {p \in S \X S : Later(p[1], p[2])}
           c == Cardinality(S)
           InOrder(f) == \A i, j \in 1 .. c : i < j => Later(f[i], f[j])
<1>1. IsFiniteSet(S)
  <2>1. S \subseteq Shown
    BY DEF ReceivedBy
  <2> QED
    BY <2>1, FS_Subset DEF TablesInv, RowsInv
<1>2. \A s \in S : s \in Nat /\ sched[s].sendAt \in Nat
  BY ViewsConstants DEF TablesInv, ViewsTyped, SchedRow, Shown, ReceivedBy
<1>3. \A s, t : <<s, t>> \in R <=> s \in S /\ t \in S /\ Later(s, t)
  OBVIOUS
<1>4. History(u) = CHOOSE f \in [1 .. c -> S] : InOrder(f)
  BY DEF History, OrderBy
<1> HIDE DEF S, R
<1>5. Orders(R, S)
  BY <1>2, <1>3 DEF Orders, Later
<1>6. PICK f : Sorts(f, S, R)
  BY <1>1, <1>5, SortedExists
<1>7. f \in [1 .. c -> S] /\ InOrder(f)
  BY <1>3, <1>6 DEF Sorts
<1> HIDE DEF InOrder
<1>8. History(u) \in [1 .. c -> S] /\ InOrder(History(u))
  BY <1>4, <1>7, Zenon
<1>9. Sorts(History(u), S, R)
  BY <1>3, <1>8 DEF Sorts, InOrder
<1>10. Lists(History(u), S)
  BY <1>1, <1>5, <1>9, SortedOnce
<1> QED
  BY <1>8, <1>10 DEF S, Listed, InOrder

(* Of the schedules of a notification that a user received, one is the latest. *)
LEMMA OneLatest ==
  ASSUME TablesInv, NEW u \in Readers, NEW r \in ReceivedBy(u)
  PROVE  \E s \in Listed(u) : sched[s].of = sched[r].of
<1> DEFINE S == ReceivedBy(u) \cap SchedulesOf(sched[r].of)
           R == {p \in S \X S : Later(p[1], p[2])}
<1>1. r \in S /\ S \subseteq Shown
  BY DEF ReceivedBy, SchedulesOf
<1>2. IsFiniteSet(S)
  BY <1>1, FS_Subset DEF TablesInv, RowsInv
<1>3. \A s \in S : s \in Nat /\ sched[s].sendAt \in Nat
  BY <1>1, ViewsConstants DEF TablesInv, ViewsTyped, SchedRow, Shown
<1>4. \A s, t : <<s, t>> \in R <=> s \in S /\ t \in S /\ Later(s, t)
  OBVIOUS
<1> HIDE DEF R
<1>5. Orders(R, S)
  <2> HIDE DEF S
  <2> QED
    BY <1>3, <1>4 DEF Orders, Later
<1>6. PICK s \in S : \A t \in S \ {s} : <<s, t>> \in R
  <2> HIDE DEF S
  <2> QED
    BY <1>1, <1>2, <1>5, OneFirst
<1>7. s \in ReceivedBy(u) /\ sched[s].of = sched[r].of
  BY <1>6 DEF SchedulesOf
<1>8. s \in LatestReceived(u, sched[s].of)
  BY <1>4, <1>6, <1>7 DEF LatestReceived
<1> QED
  BY <1>7, <1>8 DEF Listed

LEMMA LatestOnce ==
  ASSUME TablesInv, NEW u \in Readers, NEW s \in Listed(u), NEW t \in Listed(u),
         sched[s].of = sched[t].of
  PROVE  s = t
<1> SUFFICES ASSUME s # t
             PROVE  FALSE
  OBVIOUS
<1>1. Later(s, t) /\ Later(t, s)
  BY DEF Listed, LatestReceived
<1>2. s \in Nat /\ t \in Nat /\ sched[s].sendAt \in Nat /\ sched[t].sendAt \in Nat
  BY ViewsConstants DEF TablesInv, ViewsTyped, SchedRow, Shown, ReceivedBy, Listed
<1> QED
  BY <1>1, <1>2 DEF Later

LEMMA HistoryAlwaysComplete ==
  ASSUME TablesInv
  PROVE  HistoryComplete
<1> SUFFICES ASSUME NEW u \in Readers
             PROVE  LET h == History(u) IN
                    /\ Len(h) = HistoryTotal(u)
                    /\ \A n \in {sched[s].of : s \in ReceivedBy(u)} :
                         Cardinality({i \in DOMAIN h : sched[h[i]].of = n}) = 1
  BY DEF HistoryComplete
<1> DEFINE h == History(u)
           S == Listed(u)
           N == {sched[s].of : s \in ReceivedBy(u)}
           noteOf == [s \in S |-> sched[s].of]
<1>1. Lists(h, S)
  BY HistorySorted
<1>2. S \subseteq ReceivedBy(u)
  BY DEF Listed
<1>3. IsFiniteSet(S)
  BY <1>2, FS_Subset DEF ReceivedBy, TablesInv, RowsInv
<1>4. \A n \in N : \E s \in S : sched[s].of = n
  BY OneLatest
<1>5. \A s, t \in S : sched[s].of = sched[t].of => s = t
  BY LatestOnce
<1>6. Len(h) = Cardinality(N)
  <2>1. noteOf \in Bijection(S, N)
    <3>1. noteOf \in [S -> N]
      BY <1>2
    <3> HIDE DEF S, N
    <3> QED
      BY <3>1, <1>4, <1>5 DEF Bijection, Injection, Surjection, IsInjective
  <2> HIDE DEF S, N, noteOf
  <2>2. Cardinality(S) = Cardinality(N)
    BY <1>3, <2>1, FS_Bijection DEF ExistsBijection
  <2> QED
    BY <1>1, <2>2 DEF Lists
<1>7. ASSUME NEW n \in N
      PROVE  Cardinality({i \in DOMAIN h : sched[h[i]].of = n}) = 1
  <2> HIDE DEF h, S, N
  <2>1. PICK s \in S : sched[s].of = n
    BY <1>4
  <2>2. PICK i \in DOMAIN h : h[i] = s
    BY <1>1, <2>1 DEF Lists
  <2>3. \A j \in DOMAIN h : sched[h[j]].of = n => j = i
    BY <1>1, <1>5, <2>1, <2>2 DEF Lists
  <2>4. {j \in DOMAIN h : sched[h[j]].of = n} = {i}
    BY <2>1, <2>2, <2>3
  <2> QED
    BY <2>4, FS_Singleton
<1> QED
  BY <1>6, <1>7 DEF HistoryTotal

-----------------------------------------------------------------------------
(* Views: pages *)

(* The rows of a page. *)
LEMMA PageRows ==
  ASSUME NEW S, NEW seq \in Seq(S), NEW page \in Nat \ {0}, NEW limit \in Nat \ {0}
  PROVE  LET skipped == (page - 1) * limit
             rows == Page(seq, page, limit)
         IN  /\ skipped \in Nat
             /\ Len(rows) <= limit
             /\ \A i : i \in DOMAIN rows <=>
                         i \in 1 .. limit /\ i + skipped <= Len(seq)
             /\ \A i \in DOMAIN rows : rows[i] = seq[i + skipped]
<1> DEFINE skipped == (page - 1) * limit
           rows == Page(seq, page, limit)
<1>1. skipped \in Nat
  OBVIOUS
<1>2. rows = Window(seq, skipped, limit)
  BY DEF Page
<1> HIDE DEF skipped, rows
<1>3. LET w == Window(seq, skipped, limit)
      IN  /\ Len(w) <= limit
          /\ \A i : i \in DOMAIN w <=> i \in 1 .. limit /\ i + skipped <= Len(seq)
          /\ \A i \in DOMAIN w : w[i] = seq[i + skipped]
  BY <1>1, WindowRows, Zenon
<1>4. /\ skipped \in Nat
      /\ Len(rows) <= limit
      /\ \A i : i \in DOMAIN rows <=> i \in 1 .. limit /\ i + skipped <= Len(seq)
      /\ \A i \in DOMAIN rows : rows[i] = seq[i + skipped]
  BY <1>1, <1>2, <1>3, Zenon
<1> QED
  BY <1>4, Zenon DEF skipped, rows

(* Where a row is: on the page its place says, and on no other. *)
LEMMA PageOfPlace ==
  ASSUME NEW k \in Nat \ {0}, NEW limit \in Nat \ {0}
  PROVE  \E p \in 1 .. k : (p - 1) * limit < k /\ k <= (p - 1) * limit + limit
<1> DEFINE d == (k - 1) \div limit
           m == (k - 1) % limit
<1>1. d \in Int /\ m \in 0 .. limit - 1 /\ k - 1 = d * limit + m
  BY Z3
<1> HIDE DEF d, m
<1>2. d >= 0
  <2>1. d < 0 => d * limit <= 0 - limit
    BY <1>1
  <2> QED
    BY <1>1, <2>1
<1>3. d <= d * limit
  BY <1>1, <1>2
<1>4. ((d + 1) - 1) * limit = d * limit /\ d * limit \in Int
  BY <1>1
<1>5. d + 1 \in 1 .. k
  BY <1>1, <1>2, <1>3, <1>4
<1>6. ((d + 1) - 1) * limit < k /\ k <= ((d + 1) - 1) * limit + limit
  BY <1>1, <1>4
<1> QED
  BY <1>5, <1>6

LEMMA OnePagePerPlace ==
  ASSUME NEW k \in Nat, NEW limit \in Nat \ {0}, NEW p \in Nat \ {0}, NEW r \in Nat \ {0},
         (p - 1) * limit < k, k <= (p - 1) * limit + limit,
         (r - 1) * limit < k, k <= (r - 1) * limit + limit
  PROVE  p = r
<1>1. ASSUME NEW a \in Nat, NEW b \in Nat, a < b
      PROVE  a * limit + limit <= b * limit
  <2>1. (b - a - 1) * limit >= 0
    BY <1>1
  <2>2. (b - a - 1) * limit = b * limit - a * limit - limit
    OBVIOUS
  <2> QED
    BY <2>1, <2>2
<1>2. ~(p - 1 < r - 1) /\ ~(r - 1 < p - 1)
  BY <1>1
<1> QED
  BY <1>2

(* A row more is a page more if those before it are full. *)
LEMMA PagesAnnounced ==
  ASSUME NEW c \in Nat \ {0}, NEW limit \in Nat \ {0}
  PROVE  LET t == TotalPages(c, limit)
         IN  t \in Nat \ {0} /\ c <= t * limit /\ (t - 1) * limit < c
<1> DEFINE d == (c + limit - 1) \div limit
           m == (c + limit - 1) % limit
<1>1. d \in Int /\ m \in 0 .. limit - 1 /\ c + limit - 1 = d * limit + m
  BY Z3
<1>2. TotalPages(c, limit) = d
  BY DEF TotalPages
<1> HIDE DEF d, m
<1>3. d > 0
  <2>1. d <= 0 => d * limit <= 0
    BY <1>1
  <2> QED
    BY <1>1, <2>1
<1>4. (d - 1) * limit = d * limit - limit /\ d * limit \in Int
  BY <1>1
<1>5. c <= d * limit /\ (d - 1) * limit < c
  BY <1>1, <1>4
<1> QED
  BY <1>1, <1>2, <1>3, <1>5

LEMMA PagesAlwaysComplete ==
  ASSUME TablesInv
  PROVE  PagesComplete
<1> SUFFICES ASSUME NEW q \in Listings
             PROVE  LET pages == 1 .. TotalPages(Cardinality(Matched(q)), q.limit)
                    IN /\ \A p \in pages :
                            /\ Len(Page(Ordered(q), p, q.limit)) <= q.limit
                            /\ Matched(q) # {} => \E n \in Matched(q) : OnPage(n, q, p)
                       /\ \A n \in Matched(q) : \E p \in pages :
                            OnPage(n, q, p) /\ \A r \in pages \ {p} : ~OnPage(n, q, r)
  BY DEF PagesComplete
<1> DEFINE f == Ordered(q)
           S == Matched(q)
           limit == q.limit
           t == TotalPages(Cardinality(S), limit)
<1>1. Lists(f, S)
  BY OrderedSorted
<1>2. limit \in Nat \ {0}
  BY ViewsConstants
<1>3. f \in Seq(S) /\ Len(f) \in Nat /\ Len(f) = Cardinality(S) /\ DOMAIN f = 1 .. Len(f)
  BY <1>1 DEF Lists
<1>4. \A n, p : OnPage(n, q, p) <=>
        \E i \in DOMAIN Page(f, p, limit) : Page(f, p, limit)[i] = n
  BY DEF OnPage
<1>5. /\ t \in Nat \ {0}
      /\ Len(f) # 0 => Len(f) <= t * limit /\ (t - 1) * limit < Len(f)
  <2>1. CASE Len(f) = 0
    BY <1>3, <2>1 DEF TotalPages
  <2>2. CASE Len(f) # 0
    BY <1>2, <1>3, <2>2, PagesAnnounced
  <2> QED
    BY <2>1, <2>2
<1> HIDE DEF f, S, limit, t
<1>6. ASSUME NEW p \in 1 .. t
      PROVE  Len(Page(f, p, limit)) <= limit
  BY <1>2, <1>3, <1>5, PageRows
<1>7. ASSUME NEW p \in 1 .. t, NEW k \in DOMAIN f
      PROVE  OnPage(f[k], q, p) <=> (p - 1) * limit < k /\ k <= (p - 1) * limit + limit
  <2> DEFINE skipped == (p - 1) * limit
             rows == Page(f, p, limit)
  <2>1. /\ skipped \in Nat
        /\ \A i : i \in DOMAIN rows <=> i \in 1 .. limit /\ i + skipped <= Len(f)
        /\ \A i \in DOMAIN rows : rows[i] = f[i + skipped]
    <3>1. p \in Nat \ {0} /\ f \in Seq(S)
      BY <1>3, <1>5
    <3> QED
      BY <1>2, <3>1, PageRows
  <2>2. OnPage(f[k], q, p) <=> \E i \in DOMAIN rows : rows[i] = f[k]
    BY <1>4
  <2> HIDE DEF skipped, rows
  <2>3. ASSUME NEW i \in DOMAIN rows, rows[i] = f[k]
        PROVE  skipped < k /\ k <= skipped + limit
    <3>1. i \in 1 .. limit /\ i + skipped \in DOMAIN f /\ f[i + skipped] = f[k]
      BY <1>2, <1>3, <2>1, <2>3
    <3>2. i + skipped = k
      BY <1>1, <3>1 DEF Lists
    <3> QED
      BY <1>2, <2>1, <3>1, <3>2
  <2>4. ASSUME skipped < k, k <= skipped + limit
        PROVE  \E i \in DOMAIN rows : rows[i] = f[k]
    <3>1. k - skipped \in 1 .. limit /\ (k - skipped) + skipped = k /\ k <= Len(f)
      BY <1>2, <1>3, <2>1, <2>4
    <3>2. k - skipped \in DOMAIN rows
      BY <2>1, <3>1
    <3>3. rows[k - skipped] = f[k]
      BY <2>1, <3>1, <3>2
    <3> QED
      BY <3>2, <3>3
  <2> QED
    BY <2>2, <2>3, <2>4 DEF skipped
<1>8. ASSUME NEW a \in Nat, NEW b \in Nat, a <= b
      PROVE  a * limit <= b * limit /\ a * limit \in Nat /\ b * limit \in Nat
  <2>1. (b - a) * limit >= 0 /\ (b - a) * limit = b * limit - a * limit
    BY <1>2, <1>8
  <2> QED
    BY <1>2, <2>1
<1>9. ASSUME NEW n \in S
      PROVE  \E p \in 1 .. t :
               OnPage(n, q, p) /\ \A r \in (1 .. t) \ {p} : ~OnPage(n, q, r)
  <2>1. PICK k \in DOMAIN f : f[k] = n
    BY <1>1 DEF Lists
  <2>2. k \in Nat \ {0} /\ k <= Len(f)
    BY <1>3
  <2>3. PICK p \in 1 .. k : (p - 1) * limit < k /\ k <= (p - 1) * limit + limit
    BY <1>2, <2>2, PageOfPlace
  <2>4. p \in 1 .. t
    <3>1. k <= t * limit
      BY <1>2, <1>3, <1>5, <2>2
    <3>2. t <= p - 1 => t * limit <= (p - 1) * limit
      BY <1>5, <1>8, <2>2
    <3>3. (p - 1) * limit \in Nat /\ t * limit \in Nat
      BY <1>2, <1>5, <2>2
    <3> QED
      BY <1>5, <2>2, <2>3, <3>1, <3>2, <3>3
  <2>5. OnPage(n, q, p)
    BY <1>7, <2>1, <2>3, <2>4
  <2>6. ASSUME NEW r \in 1 .. t, OnPage(n, q, r)
        PROVE  r = p
    <3>1. (r - 1) * limit < k /\ k <= (r - 1) * limit + limit
      BY <1>7, <2>1, <2>6
    <3>2. r \in Nat \ {0} /\ p \in Nat \ {0} /\ k \in Nat
      BY <1>5, <2>2
    <3> QED
      BY <1>2, <2>3, <3>1, <3>2, OnePagePerPlace
  <2> QED
    BY <2>4, <2>5, <2>6
<1>10. ASSUME NEW p \in 1 .. t, S # {}
       PROVE  \E n \in S : OnPage(n, q, p)
  <2> DEFINE skipped == (p - 1) * limit
             k == skipped + 1
  <2>1. Len(f) # 0
    BY <1>1, <1>3, <1>10 DEF Lists
  <2>2. skipped \in Nat /\ skipped <= (t - 1) * limit /\ (t - 1) * limit \in Nat
    BY <1>5, <1>8
  <2> HIDE DEF skipped
  <2>3. k \in DOMAIN f
    BY <1>3, <1>5, <2>1, <2>2
  <2>4. skipped < k /\ k <= skipped + limit
    BY <1>2, <2>2
  <2>5. OnPage(f[k], q, p)
    BY <1>7, <2>3, <2>4 DEF skipped
  <2>6. f[k] \in S
    BY <1>1, <2>3 DEF Lists
  <2> QED
    BY <2>5, <2>6
<1> QED
  BY <1>6, <1>9, <1>10 DEF f, S, limit, t

-----------------------------------------------------------------------------
(* Views: a request for the history *)

(* Only what is being sent, or was stopped, has recipients. *)
UnsentUnread ==
  \A s \in SchedIds, u \in Readers :
    sched[s].status \notin {"sending", "stopped"} => recip[s][u] = "none"

(* A schedule with recipients stays where and when it is, and its recipients    *)
(* stay, if only anonymous. *)
LEMMA ReceivedStays ==
  ASSUME TablesInv, UnsentUnread, [ViewsNext]_viewsVars, NEW s \in SchedIds, NEW u \in Readers
  PROVE  /\ sched'[s].status \notin {"sending", "stopped"} => recip'[s][u] = "none"
         /\ recip[s][u] # "none" =>
              /\ sched'[s].of = sched[s].of /\ sched'[s].sendAt = sched[s].sendAt
              /\ recip'[s][u] \in {recip[s][u], "anonymous"}
<1> DEFINE Stays == /\ sched'[s].status \notin {"sending", "stopped"} => recip'[s][u] = "none"
                    /\ recip[s][u] # "none" =>
                         /\ sched'[s].of = sched[s].of /\ sched'[s].sendAt = sched[s].sendAt
                         /\ recip'[s][u] \in {recip[s][u], "anonymous"}
<1> USE DEF TablesInv, ViewsTyped
<1>1. sched[s].status \notin {"sending", "stopped"} => recip[s][u] = "none"
  BY DEF UnsentUnread
<1>2. ASSUME sched'[s] = sched[s], recip'[s] = recip[s]
      PROVE  Stays
  BY <1>1, <1>2
<1>3. ASSUME sched[s].status \in {"none", "scheduled"}, recip'[s] = recip[s]
      PROVE  Stays
  BY <1>1, <1>3
<1>4. ASSUME UNCHANGED tables
      PROVE  Stays
  BY <1>2, <1>4 DEF tables
<1>5. ASSUME NEW n \in NoteIds, DeleteNote(n)
      PROVE  Stays
  <2>1. CASE s \in SchedulesOf(n)
    BY <1>3, <1>5, <2>1 DEF DeleteNote
  <2>2. CASE s \notin SchedulesOf(n)
    BY <1>2, <1>5, <2>2 DEF DeleteNote
  <2> QED
    BY <2>1, <2>2
<1>6. ASSUME NEW r \in SchedIds, sched[r].status \in {"none", "scheduled"}, recip' = recip,
             \A q \in SchedIds \ {r} : sched'[q] = sched[q]
      PROVE  Stays
  BY <1>2, <1>3, <1>6
<1>7. ASSUME NEW n \in NoteIds, NEW r \in SchedIds, NEW t \in SendTimes,
             \/ ResendNote(n, r, t)
             \/ \E automatic \in BOOLEAN : CreateNote(n, r, t, automatic)
      PROVE  Stays
  <2>1. /\ sched[r].status = "none" /\ recip' = recip
        /\ \A q \in SchedIds \ {r} : sched'[q] = sched[q]
    BY <1>7 DEF ResendNote, CreateNote
  <2> HIDE DEF Stays
  <2> QED
    BY <1>6, <2>1
<1>8. ASSUME NEW r \in SchedIds, CancelUnsent(r) \/ \E t \in SendTimes : MoveSchedule(r, t)
      PROVE  Stays
  <2>1. /\ sched[r].status = "scheduled" /\ recip' = recip
        /\ \A q \in SchedIds \ {r} : sched'[q] = sched[q]
    BY <1>8 DEF CancelUnsent, MoveSchedule
  <2> HIDE DEF Stays
  <2> QED
    BY <1>6, <2>1
<1>9. ASSUME NEW r \in SchedIds, StopSchedule(r)
      PROVE  Stays
  <2>1. CASE s = r
    <3>1. sched'[s].status = "stopped" /\ sched'[s].of = sched[s].of
          /\ sched'[s].sendAt = sched[s].sendAt
      BY <1>9, <2>1 DEF StopSchedule, SchedRow
    <3>2. recip' = recip
      BY <1>9 DEF StopSchedule
    <3> QED
      BY <3>1, <3>2
  <2>2. CASE s # r
    BY <1>2, <1>9, <2>2 DEF StopSchedule
  <2> QED
    BY <2>1, <2>2
<1>10. ASSUME NEW r \in SchedIds, NEW who, NEW devices, ResolveNote(r, who, devices)
       PROVE  Stays
  <2>1. CASE s = r
    <3>1. sched[s].status = "scheduled" /\ sched'[s].status = "sending"
      BY <1>10, <2>1 DEF ResolveNote, SchedRow
    <3> QED
      BY <1>1, <3>1
  <2>2. CASE s # r
    BY <1>2, <1>10, <2>2 DEF ResolveNote
  <2> QED
    BY <2>1, <2>2
<1>11. ASSUME NEW v \in Readers, AnonymizeReader(v)
       PROVE  Stays
  <2>1. sched' = sched
    BY <1>11 DEF AnonymizeReader
  <2>2. recip'[s][u] = recip[s][u] \/ (recip[s][u] = "user" /\ recip'[s][u] = "anonymous")
    BY <1>11 DEF AnonymizeReader
  <2> QED
    BY <1>1, <2>1, <2>2
<1>12. ASSUME NEW r \in SchedIds, NEW v \in Readers, NEW d \in Tokens,
              NEW status \in DeliveryStatuses, SettleDelivery(r, v, d, status)
       PROVE  Stays
  BY <1>2, <1>12 DEF SettleDelivery
<1> HIDE DEF Stays, TablesInv, ViewsTyped
<1>13. Stays
  BY <1>4, <1>5, <1>7, <1>8, <1>9, <1>10, <1>11, <1>12
     DEF ViewsNext, WriteNotices, ReadLists, ReadHistories, viewsVars, tables, ReadCount, ReadIds, ReadUnpaged, ReadItems, AnswerList,
         AskHistory, ReadHistoryRows, ReadHistoryTotal, AnswerHistory
<1> QED
  BY <1>13 DEF Stays

(* What a user who is not purged has received is received for good, so the      *)
(* history only grows. *)
LEMMA HistoryGrows ==
  ASSUME TablesInv, TablesInv', UnsentUnread, [ViewsNext]_viewsVars, NEW u \in Readers, ~Purged(u)'
  PROVE  /\ ~Purged(u)
         /\ \A s \in ReceivedBy(u) : /\ s \in ReceivedBy(u)'
                                     /\ sched'[s].of = sched[s].of
                                     /\ sched'[s].sendAt = sched[s].sendAt
         /\ HistoryTotal(u) \in Nat /\ HistoryTotal(u)' \in Nat
         /\ HistoryTotal(u) <= HistoryTotal(u)'
<1> DEFINE N == {sched[s].of : s \in ReceivedBy(u)}
           M == {sched'[s].of : s \in ReceivedBy(u)'}
<1>1. ~Purged(u)
  BY ReceivedStays DEF Purged
<1>2. ASSUME NEW s \in ReceivedBy(u)
      PROVE  /\ s \in ReceivedBy(u)'
             /\ sched'[s].of = sched[s].of /\ sched'[s].sendAt = sched[s].sendAt
  <2>1. s \in SchedIds /\ sched[s].of # 0 /\ recip[s][u] = "user"
    BY DEF ReceivedBy, Shown
  <2>2. sched'[s].of = sched[s].of /\ sched'[s].sendAt = sched[s].sendAt
        /\ recip'[s][u] \in {"user", "anonymous"}
    BY <2>1, ReceivedStays
  <2>3. recip'[s][u] # "anonymous"
    BY <2>1 DEF Purged
  <2> QED
    BY <2>1, <2>2, <2>3 DEF ReceivedBy, Shown
<1>3. N \subseteq M
  BY <1>2
<1>4. IsFiniteSet(M)
  <2>1. M \subseteq NotesThere'
    BY DEF ReceivedBy, TablesInv, RowsInv
  <2> HIDE DEF M
  <2> QED
    BY <2>1, FS_Subset DEF TablesInv, RowsInv
<1>5. HistoryTotal(u) = Cardinality(N) /\ HistoryTotal(u)' = Cardinality(M)
  BY DEF HistoryTotal
<1> HIDE DEF N, M
<1>6. Cardinality(N) \in Nat /\ Cardinality(M) \in Nat /\ Cardinality(N) <= Cardinality(M)
  BY <1>3, <1>4, FS_Subset, FS_CardinalityType
<1> QED
  BY <1>1, <1>2, <1>5, <1>6

HistoryRequest ==
  [user : Readers, limit : Nat \ {0}, offset : Nat, had : Nat,
   left : SUBSET {"rows", "total"}, rows : Seq(SchedIds), total : Nat]

TotalOk(h) == h.had <= h.total /\ h.total <= HistoryTotal(h.user)
RowsOk(h) ==
  /\ Len(h.rows) <= h.limit
  /\ Len(h.rows) < h.limit => h.had <= h.offset + Len(h.rows)
  /\ h.rows # <<>> => h.offset + Len(h.rows) <= HistoryTotal(h.user)
  /\ \A i \in DOMAIN h.rows : h.rows[i] \in ReceivedBy(h.user)
  /\ \A i, j \in DOMAIN h.rows : i < j =>
       sched[h.rows[i]].of # sched[h.rows[j]].of /\ Later(h.rows[i], h.rows[j])
Told(h) ==
  ~Purged(h.user) =>
    /\ h.had <= HistoryTotal(h.user)
    /\ "total" \notin h.left => TotalOk(h)
    /\ "rows" \notin h.left => RowsOk(h)

HistoryInv ==
  UnsentUnread /\ \A h \in history : h \in HistoryRequest /\ Told(h)

(* What was true when it was read stays true as the history grows. *)
LEMMA ToldKept ==
  ASSUME TablesInv, TablesInv', UnsentUnread, [ViewsNext]_viewsVars,
         NEW h \in HistoryRequest, Told(h)
  PROVE  Told(h)'
<1> SUFFICES ASSUME ~Purged(h.user)'
             PROVE  /\ h.had <= HistoryTotal(h.user)'
                    /\ "total" \notin h.left => TotalOk(h)'
                    /\ "rows" \notin h.left => RowsOk(h)'
  BY DEF Told
<1> DEFINE u == h.user
<1>1. /\ u \in Readers /\ h.had \in Nat /\ h.total \in Nat /\ h.offset \in Nat
      /\ h.rows \in Seq(SchedIds)
  BY DEF HistoryRequest
<1>2. /\ ~Purged(u)
      /\ \A s \in ReceivedBy(u) : /\ s \in ReceivedBy(u)'
                                  /\ sched'[s].of = sched[s].of
                                  /\ sched'[s].sendAt = sched[s].sendAt
      /\ HistoryTotal(u) \in Nat /\ HistoryTotal(u)' \in Nat
      /\ HistoryTotal(u) <= HistoryTotal(u)'
  BY <1>1, HistoryGrows
<1>3. h.had <= HistoryTotal(u)'
  BY <1>1, <1>2 DEF Told
<1>4. ASSUME "total" \notin h.left
      PROVE  TotalOk(h)'
  <2>1. TotalOk(h)
    BY <1>2, <1>4 DEF Told
  <2> QED
    BY <1>1, <1>2, <2>1 DEF TotalOk
<1>5. ASSUME "rows" \notin h.left
      PROVE  RowsOk(h)'
  <2>1. RowsOk(h)
    BY <1>2, <1>5 DEF Told
  <2>2. Len(h.rows) \in Nat
    BY <1>1
  <2>3. h.rows # <<>> => h.offset + Len(h.rows) <= HistoryTotal(u)'
    BY <1>1, <1>2, <2>1, <2>2 DEF RowsOk
  <2>4. ASSUME NEW i \in DOMAIN h.rows, NEW j \in DOMAIN h.rows, i < j
        PROVE  /\ sched'[h.rows[i]].of # sched'[h.rows[j]].of
               /\ Later(h.rows[i], h.rows[j])'
    BY <1>2, <2>1, <2>4 DEF RowsOk, Later
  <2>5. \A i \in DOMAIN h.rows : h.rows[i] \in ReceivedBy(u)'
    BY <1>2, <2>1 DEF RowsOk
  <2> QED
    BY <2>1, <2>3, <2>4, <2>5 DEF RowsOk
<1> QED
  BY <1>3, <1>4, <1>5

(* A page of the history as it is read. *)
LEMMA RowsRead ==
  ASSUME TablesInv, NEW u \in Readers, NEW limit \in Nat \ {0}, NEW offset \in Nat,
         NEW g \in HistoryRequest, g.user = u, g.limit = limit, g.offset = offset,
         g.rows = Window(History(u), offset, limit), g.had <= HistoryTotal(u)
  PROVE  RowsOk(g)
<1> DEFINE f == History(u)
           S == Listed(u)
           rows == g.rows
<1>1. Lists(f, S) /\ \A i, j \in DOMAIN f : i < j => Later(f[i], f[j])
  BY HistorySorted
<1>2. Len(f) = HistoryTotal(u)
  BY HistoryAlwaysComplete DEF HistoryComplete
<1>3. S \subseteq ReceivedBy(u)
  BY DEF Listed
<1>4. \A s, t \in S : sched[s].of = sched[t].of => s = t
  BY LatestOnce
<1> HIDE DEF f, S
<1>5. f \in Seq(S) /\ DOMAIN f = 1 .. Len(f) /\ Len(f) \in Nat
      /\ (\A i, j \in DOMAIN f : f[i] = f[j] => i = j)
  BY <1>1 DEF Lists
<1>6. /\ Len(rows) <= limit
      /\ \A i : i \in DOMAIN rows <=> i \in 1 .. limit /\ i + offset <= Len(f)
      /\ \A i \in DOMAIN rows : rows[i] = f[i + offset]
  BY <1>5, WindowRows DEF f
<1>7. Len(rows) \in Nat /\ DOMAIN rows = 1 .. Len(rows) /\ g.had \in Nat
      /\ (rows # <<>> => Len(rows) # 0)
  BY DEF HistoryRequest
<1> HIDE DEF rows
<1>8. Len(rows) < limit => g.had <= offset + Len(rows)
  <2>1. ASSUME Len(rows) < limit
        PROVE  ~(Len(rows) + 1 + offset <= Len(f))
    <3>1. Len(rows) + 1 \in 1 .. limit /\ Len(rows) + 1 \notin DOMAIN rows
      BY <1>7, <2>1
    <3> QED
      BY <1>6, <3>1
  <2> QED
    BY <1>2, <1>5, <1>7, <2>1
<1>9. rows # <<>> => offset + Len(rows) <= HistoryTotal(u)
  <2>1. ASSUME rows # <<>>
        PROVE  Len(rows) \in DOMAIN rows
    BY <1>7, <2>1
  <2> QED
    BY <1>2, <1>5, <1>6, <1>7, <2>1
<1>10. ASSUME NEW i \in DOMAIN rows
       PROVE  /\ i \in Nat /\ i + offset \in DOMAIN f /\ rows[i] = f[i + offset]
              /\ rows[i] \in S
  <2>1. i \in Nat /\ i + offset \in DOMAIN f /\ rows[i] = f[i + offset]
    BY <1>5, <1>6
  <2> QED
    BY <1>5, <2>1
<1>11. ASSUME NEW i \in DOMAIN rows, NEW j \in DOMAIN rows, i < j
       PROVE  sched[rows[i]].of # sched[rows[j]].of /\ Later(rows[i], rows[j])
  <2>1. i + offset < j + offset /\ i + offset # j + offset
    BY <1>10, <1>11
  <2>2. Later(rows[i], rows[j]) /\ rows[i] # rows[j]
    BY <1>1, <1>5, <1>10, <2>1
  <2> QED
    BY <1>4, <1>10, <2>2
<1> QED
  BY <1>3, <1>6, <1>8, <1>9, <1>10, <1>11 DEF RowsOk, rows

(* A request as a step leaves it says what is true before the step. *)
LEMMA RequestStep ==
  ASSUME TablesInv, HistoryInv, [ViewsNext]_viewsVars, NEW g \in history'
  PROVE  g \in HistoryRequest /\ Told(g)
<1>1. CASE history' = history
  BY <1>1 DEF HistoryInv
<1>2. ASSUME NEW u \in Readers, NEW p \in HistoryPages, AskHistory(u, p)
      PROVE  g \in HistoryRequest /\ Told(g)
  <2>1. p.limit \in Nat \ {0} /\ p.offset \in Nat
    BY ViewsConstants
  <2>2. HistoryTotal(u) \in Nat
    BY TotalCounted
  <2>3. g = [user |-> u, limit |-> p.limit, offset |-> p.offset, had |-> HistoryTotal(u),
             left |-> {"rows", "total"}, rows |-> <<>>, total |-> 0]
    BY <1>2 DEF AskHistory
  <2>4. g \in HistoryRequest
    BY <2>1, <2>2, <2>3 DEF HistoryRequest
  <2>5. Told(g)
    BY <2>2, <2>3 DEF Told
  <2> QED
    BY <2>4, <2>5
<1>3. ASSUME NEW h \in history, ReadHistoryRows(h)
      PROVE  g \in HistoryRequest /\ Told(g)
  <2>1. h \in HistoryRequest /\ Told(h)
    BY DEF HistoryInv
  <2> DEFINE rows == Window(History(h.user), h.offset, h.limit)
  <2>2. rows \in Seq(SchedIds)
    <3>1. History(h.user) \in Seq(Listed(h.user)) /\ Listed(h.user) \subseteq SchedIds
      BY <2>1, HistorySorted DEF Lists, Listed, ReceivedBy, Shown, HistoryRequest
    <3>2. History(h.user) \in Seq(SchedIds)
      BY <3>1
    <3> QED
      BY <2>1, <3>2, WindowRows DEF HistoryRequest
  <2>3. g = [h EXCEPT !.left = @ \ {"rows"}, !.rows = rows]
    BY <1>3 DEF ReadHistoryRows
  <2> HIDE DEF rows
  <2>4. /\ g \in HistoryRequest /\ g.user = h.user /\ g.limit = h.limit
        /\ g.offset = h.offset /\ g.had = h.had /\ g.total = h.total /\ g.rows = rows
        /\ g.left = h.left \ {"rows"}
    BY <2>1, <2>2, <2>3 DEF HistoryRequest
  <2>5. ASSUME ~Purged(g.user)
        PROVE  RowsOk(g)
    BY <2>1, <2>4, <2>5, RowsRead DEF rows, Told, HistoryRequest
  <2>6. Told(g)
    BY <2>1, <2>4, <2>5 DEF Told, TotalOk
  <2> QED
    BY <2>4, <2>6
<1>4. ASSUME NEW h \in history, ReadHistoryTotal(h)
      PROVE  g \in HistoryRequest /\ Told(g)
  <2>1. h \in HistoryRequest /\ Told(h)
    BY DEF HistoryInv
  <2> DEFINE total == HistoryTotal(h.user)
  <2>2. total \in Nat
    BY <2>1, TotalCounted DEF HistoryRequest
  <2>3. g = [h EXCEPT !.left = @ \ {"total"}, !.total = total]
    BY <1>4 DEF ReadHistoryTotal
  <2> HIDE DEF total
  <2>4. /\ g \in HistoryRequest /\ g.user = h.user /\ g.limit = h.limit
        /\ g.offset = h.offset /\ g.had = h.had /\ g.total = total /\ g.rows = h.rows
        /\ g.left = h.left \ {"total"}
    BY <2>1, <2>2, <2>3 DEF HistoryRequest
  <2>5. ASSUME ~Purged(g.user)
        PROVE  TotalOk(g)
    BY <2>1, <2>2, <2>4, <2>5 DEF TotalOk, Told, total
  <2>6. Told(g)
    BY <2>1, <2>4, <2>5 DEF Told, RowsOk
  <2> QED
    BY <2>4, <2>6
<1>5. ASSUME NEW h \in history, AnswerHistory(h)
      PROVE  g \in HistoryRequest /\ Told(g)
  BY <1>5 DEF AnswerHistory
<1> QED
  BY <1>1, <1>2, <1>3, <1>4, <1>5
     DEF ViewsNext, WriteNotices, ReadLists, ReadHistories, viewsVars, DeleteNote, ResendNote, CreateNote, CancelUnsent, StopSchedule,
         MoveSchedule, ResolveNote, SettleDelivery, AnonymizeReader,
         ReadCount, ReadIds, ReadUnpaged, ReadItems, AnswerList

LEMMA ViewsNextHistory ==
  ASSUME TablesInv, TablesInv', HistoryInv, [ViewsNext]_viewsVars
  PROVE  HistoryInv'
<1>1. UnsentUnread'
  BY ReceivedStays DEF HistoryInv, UnsentUnread
<1>2. ASSUME NEW g \in history'
      PROVE  g \in HistoryRequest /\ Told(g)'
  BY RequestStep, ToldKept DEF HistoryInv
<1> QED
  BY <1>1, <1>2 DEF HistoryInv

-----------------------------------------------------------------------------

ViewsInv == TablesInv /\ ListingInv /\ HistoryInv

LEMMA ViewsInvAgree ==
  ASSUME ViewsInv
  PROVE  ViewsAgree
<1>1. HistoryAnswered
  BY DEF ViewsInv, HistoryInv, HistoryAnswered, Told, TotalOk, RowsOk
<1> QED
  BY <1>1, HistoryAlwaysComplete, CountsAlwaysAddUp, PagesAlwaysComplete, CalendarAlwaysAgrees
     DEF ViewsInv, ListingInv, ViewsAgree

(* What participants and admins are shown of notifications agrees with the      *)
(* tables and with itself at any time: for any number of notifications,         *)
(* schedules, participants, devices and queries, and any changes to the tables   *)
(* between the reads of a page, or of the rows and the total of the history     *)
(* (AdminNotificationQueryRepository,                                        *)
(* NotificationScheduleQueryRepository, NotificationResultQueryRepository,      *)
(* MobileNotificationRepository).                                           *)
THEOREM SpecViewsAgree == ViewsSpec => []ViewsAgree
<1>1. ViewsInit => ViewsInv
  <2>1. ViewsInit => ListingInv
    BY EmptyListing DEF ViewsInit, ListingInv, ListingTyped, PageInOrder
  <2>2. ViewsInit => HistoryInv
    BY DEF ViewsInit, HistoryInv, UnsentUnread
  <2> QED
    BY <2>1, <2>2, ViewsInitTables DEF ViewsInv
<1>2. ViewsInv /\ [ViewsNext]_viewsVars => ViewsInv'
  BY ViewsNextTables, ViewsNextListing, ViewsNextHistory DEF ViewsInv
<1>3. ViewsInv => ViewsAgree
  BY ViewsInvAgree
<1> QED
  BY <1>1, <1>2, <1>3, PTL DEF ViewsSpec

==============================================================================
