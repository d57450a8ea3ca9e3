---------------------------- MODULE SignInStates ----------------------------
(***************************************************************************)
(* The state parameter of a Microsoft sign-in.  /login and /delete-login    *)
(* store one with a purpose, a client type and a time to live; the exchange *)
(* of the authorization code consumes it.  A mobile client chooses the id   *)
(* itself, so an id may come again.                                        *)
(***************************************************************************)
EXTENDS Integers, Sequences

CONSTANTS
  StateIds,     \* values of state
  ClientTypes,  \* web and mobile
  Mobile,       \* the client type that sends its own state
  StateTtl,     \* AUTH_STATE_TTL_SEC, in ticks
  MaxMade,      \* bound: states stored
  MaxSignInClock \* bound: the clock stops here

SignInPurposes == {"login", "account_deletion"}

ASSUME SignInConstants ==
  /\ Mobile \in ClientTypes
  /\ StateTtl \in Nat \ {0} /\ MaxMade \in Nat /\ MaxSignInClock \in Nat

VARIABLES
  authState,  \* auth_states: the number in `made` of the row of each id, or 0
  made,       \* history: the states stored, in order
  exchanged,  \* history: the codes exchanged
  signInClock

signInVars == <<authState, made, exchanged, signInClock>>

Made == [purpose : SignInPurposes, client : ClientTypes, until : Nat]
Exchanges == [made : 1 .. MaxMade, purpose : SignInPurposes, client : ClientTypes, at : Nat]

StateExpired(n) == made[n].until <= signInClock

(* An expired row is deleted, then ON CONFLICT DO NOTHING. *)
Free(s) == authState[s] # 0 => StateExpired(authState[s])

(* AuthStateRepository.create *)
StoreState(s, purpose, client) ==
  /\ Free(s) /\ Len(made) < MaxMade
  /\ made' = Append(made, [purpose |-> purpose, client |-> client, until |-> signInClock + StateTtl])
  /\ authState' = [authState EXCEPT ![s] = Len(made')]
  /\ UNCHANGED <<exchanged, signInClock>>

(* The web gets a state nobody has seen; a mobile state that is taken is an   *)
(* error. *)
LoginState(s, client) ==
  (client = Mobile \/ authState[s] = 0) /\ StoreState(s, "login", client)
DeletionState(s, client) ==
  (client = Mobile \/ authState[s] = 0) /\ StoreState(s, "account_deletion", client)

(* AuthStateRepository.consume: the row goes whatever comes of the request. *)
ConsumeState(s) == authState' = [authState EXCEPT ![s] = 0]

(* Mutant: the purpose is not looked at. *)
AcceptableClient(n, purpose, client) == ~StateExpired(n) /\ made[n].client = client
Acceptable(n, purpose, client) ==
  ~StateExpired(n) /\ made[n].client = client /\ made[n].purpose = purpose

(* exchangeMicrosoftAuthorizationCode; Microsoft may refuse the code. *)
ExchangeCode(s, purpose, client) ==
  /\ authState[s] # 0
  /\ ConsumeState(s)
  /\ \/ /\ Acceptable(authState[s], purpose, client)
        /\ exchanged' = Append(exchanged, [made |-> authState[s], purpose |-> purpose,
                                           client |-> client, at |-> signInClock])
     \/ UNCHANGED exchanged
  /\ UNCHANGED <<made, signInClock>>

(* /token signs in, /resolve-campus only tells a mobile client which campus is *)
(* its own, /delete-token confirms a deletion. *)
TokenRequest(s, client) == ExchangeCode(s, "login", client)
ResolveCampus(s) == ExchangeCode(s, "login", Mobile)
DeleteTokenRequest(s, client) == ExchangeCode(s, "account_deletion", client)

(* The daily cron. *)
DeleteExpiredStates ==
  /\ authState' = [s \in StateIds |->
       IF authState[s] # 0 /\ StateExpired(authState[s]) THEN 0 ELSE authState[s]]
  /\ UNCHANGED <<made, exchanged, signInClock>>

ClockTicks ==
  /\ signInClock < MaxSignInClock
  /\ signInClock' = signInClock + 1
  /\ UNCHANGED <<authState, made, exchanged>>

SignInInit ==
  /\ authState = [s \in StateIds |-> 0]
  /\ made = <<>> /\ exchanged = <<>> /\ signInClock = 0

SignInNext ==
  \/ \E s \in StateIds, c \in ClientTypes :
       \/ LoginState(s, c) \/ DeletionState(s, c)
       \/ TokenRequest(s, c) \/ ResolveCampus(s) \/ DeleteTokenRequest(s, c)
  \/ DeleteExpiredStates \/ ClockTicks

SignInSpec == SignInInit /\ [][SignInNext]_signInVars

-----------------------------------------------------------------------------
(* A state that was stored serves one exchange at most, for the purpose and  *)
(* the client it was stored for, within its time, even if its id is used      *)
(* again: a confirmation of a deletion never signs anybody in.               *)
ExchangedAsMade ==
  \A i \in 1 .. Len(exchanged) :
    LET e == exchanged[i] IN
    /\ e.purpose = made[e.made].purpose /\ e.client = made[e.made].client
    /\ e.at < made[e.made].until
    /\ \A j \in 1 .. Len(exchanged) \ {i} : exchanged[j].made # e.made
==============================================================================
