------------------------------- MODULE FcmClient -------------------------------
(***************************************************************************)
(* The client of FCM.  Sends share an access token, which is exchanged once   *)
(* however many wait for it, kept until shortly before it expires, and        *)
(* exchanged again by whoever comes after.  Only what waits for the network   *)
(* takes time.                                                              *)
(***************************************************************************)
EXTENDS Naturals

CONSTANTS
  Sends,       \* concurrent sends of one credential
  TokenTtl,    \* expires_in of a token, in ticks
  Margin,      \* ACCESS_TOKEN_REFRESH_MARGIN_MS
  FetchTime,   \* the time after which a fetch is aborted
  MaxClock     \* bound: the clock stops here

(* 3600, 300 and 30 seconds *)
ASSUME FcmConstants ==
  /\ TokenTtl \in Nat /\ Margin \in Nat /\ FetchTime \in Nat /\ MaxClock \in Nat
  /\ FetchTime <= Margin /\ FetchTime + FetchTime <= TokenTtl

VARIABLES
  clock,
  cached,     \* cacheEntry.token: until when it is used, when it expires
  exchange,   \* cacheEntry.request: under way or not, and since when
  send        \* the sends

fcmVars == <<clock, cached, exchange, send>>

Token == [refreshAt: Nat, expires: Nat]
NoTokenYet == [refreshAt |-> 0, expires |-> 0]
Exchange == [underWay: BOOLEAN, issuedAt: Nat]
NoExchange == [underWay |-> FALSE, issuedAt |-> 0]
Send == [pc: {"idle", "check", "wait", "again", "waitAgain", "fetch"}, since: Nat, expires: Nat]
NoSend == [pc |-> "idle", since |-> 0, expires |-> 0]

FcmTypeOK ==
  /\ clock \in Nat /\ cached \in Token /\ exchange \in Exchange
  /\ send \in [Sends -> Send]

(* Mutant: a token is kept until it expires. *)
RefreshAtExpiry(issuedAt) == issuedAt + TokenTtl
(* issuedAt + max(0, TokenTtl - Margin) *)
RefreshAt(issuedAt) == IF Margin <= TokenTtl THEN issuedAt + (TokenTtl - Margin) ELSE issuedAt

(* What a send does with a token it gets from the cache, or from the exchange. *)
Got(s, expires) ==
  IF s.pc \in {"check", "wait"} THEN [s EXCEPT !.pc = "again"]
  ELSE [pc |-> "fetch", since |-> clock, expires |-> expires]
Waiting(s) == s.pc \in {"wait", "waitAgain"}

(* sendNotificationToToken: ensureConfigured gets a token, and drops it. *)
StartSend(c) ==
  /\ send[c].pc = "idle"
  /\ send' = [send EXCEPT ![c].pc = "check"]
  /\ UNCHANGED <<clock, cached, exchange>>

(* getAccessToken: the token in the cache, or the exchange under way, or a new one. *)
TakeCached(c) ==
  /\ send[c].pc \in {"check", "again"} /\ clock < cached.refreshAt
  /\ send' = [send EXCEPT ![c] = Got(@, cached.expires)]
  /\ UNCHANGED <<clock, cached, exchange>>

AwaitExchange(c) ==
  /\ send[c].pc \in {"check", "again"} /\ clock >= cached.refreshAt
  /\ exchange' = IF exchange.underWay THEN exchange ELSE [underWay |-> TRUE, issuedAt |-> clock]
  /\ send' = [send EXCEPT ![c].pc = IF @ = "check" THEN "wait" ELSE "waitAgain"]
  /\ UNCHANGED <<clock, cached>>

(* createAccessToken: everyone that waits gets the token, *)
ExchangeDone ==
  /\ exchange.underWay
  /\ LET expires == exchange.issuedAt + TokenTtl IN
       /\ cached' = [refreshAt |-> RefreshAt(exchange.issuedAt), expires |-> expires]
       /\ send' = [c \in Sends |-> IF Waiting(send[c]) THEN Got(send[c], expires) ELSE send[c]]
  /\ exchange' = NoExchange
  /\ UNCHANGED clock

(* or fails with it, and the next tries again. *)
ExchangeFails ==
  /\ exchange.underWay
  /\ send' = [c \in Sends |-> IF Waiting(send[c]) THEN NoSend ELSE send[c]]
  /\ exchange' = NoExchange
  /\ UNCHANGED <<clock, cached>>

(* FCM takes the message, refuses it, or the fetch is aborted. *)
Fetched(c) ==
  /\ send[c].pc = "fetch"
  /\ send' = [send EXCEPT ![c] = NoSend]
  /\ UNCHANGED <<clock, cached, exchange>>

ClockTick ==
  /\ clock < MaxClock
  /\ exchange.underWay => clock < exchange.issuedAt + FetchTime
  /\ \A c \in Sends :
       /\ send[c].pc \notin {"check", "again"}
       /\ send[c].pc = "fetch" => clock < send[c].since + FetchTime
  /\ clock' = clock + 1
  /\ UNCHANGED <<cached, exchange, send>>

FcmInit ==
  /\ clock = 0 /\ cached = NoTokenYet /\ exchange = NoExchange
  /\ send = [c \in Sends |-> NoSend]

FcmNext ==
  \/ ExchangeDone \/ ExchangeFails \/ ClockTick
  \/ \E c \in Sends : StartSend(c) \/ TakeCached(c) \/ AwaitExchange(c) \/ Fetched(c)

FcmSpec == FcmInit /\ [][FcmNext]_fcmVars

-----------------------------------------------------------------------------
(* However long sends and exchanges wait for the network, FCM is never given    *)
(* a token that has expired, and whoever waits for a token waits for an          *)
(* exchange that is under way. *)
TokenInTime ==
  \A c \in Sends :
    /\ send[c].pc = "fetch" => clock <= send[c].expires
    /\ Waiting(send[c]) => exchange.underWay
==============================================================================
