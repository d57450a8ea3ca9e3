------------------------------ MODULE NoticeLife ------------------------------
(***************************************************************************)
(* What everybody relies on in the automatic notification of a gathering,   *)
(* whoever writes it: the gathering sync, the resolver, staff or a          *)
(* deletion.  It is created once and for a gathering that is there; it is   *)
(* rewritten only until it or a resend of it has started; it does not start *)
(* while it is held; and nothing waits to be sent once the gathering has    *)
(* gone.  Targets, recipients, generators and clocks do not appear.         *)
(***************************************************************************)

CONSTANT Resends    \* the schedules by which it may be sent again

VARIABLES
  source,   \* the gathering: new, there or gone
  status,   \* none, scheduled, started, or cancelled: it has lost its schedule
  held,     \* its schedule is held back
  text,     \* what it says, of any kind
  waiting,  \* resends that have not started
  begun     \* resends that have

vars == <<source, status, held, text, waiting, begun>>

HasBegun == status = "started" \/ begun # {}

Init ==
  /\ source \in {"new", "there"} /\ status = "none" /\ ~held
  /\ waiting = {} /\ begun = {}

Appear ==
  /\ source = "new" /\ source' = "there"
  /\ UNCHANGED <<status, held, text, waiting, begun>>

Create ==
  /\ source = "there" /\ status = "none"
  /\ status' = "scheduled" /\ ~held'
  /\ UNCHANGED <<source, waiting, begun>>

HoldOrRelease ==
  /\ status = "scheduled"
  /\ held' \in BOOLEAN
  /\ UNCHANGED <<source, status, text, waiting, begun>>

Rewrite ==
  /\ status # "none" /\ ~HasBegun
  /\ UNCHANGED <<source, status, held, waiting, begun>>

Start ==
  /\ status = "scheduled" /\ ~held
  /\ status' = "started" /\ ~held'
  /\ UNCHANGED <<source, text, waiting, begun>>

(* What has not started is cancelled, or fails with an account it names. *)
Withdraw ==
  /\ \/ UNCHANGED <<status, held>>
     \/ status = "scheduled" /\ status' = "cancelled" /\ ~held'
  /\ waiting' \subseteq waiting
  /\ UNCHANGED <<source, text, begun>>

Resend(r) ==
  /\ source = "there" /\ status # "none"
  /\ r \notin waiting \cup begun
  /\ waiting' = waiting \cup {r}
  /\ UNCHANGED <<source, status, held, text, begun>>

StartResend(r) ==
  /\ r \in waiting
  /\ waiting' = waiting \ {r} /\ begun' = begun \cup {r}
  /\ UNCHANGED <<source, status, held, text>>

(* The gathering is deleted. *)
End ==
  /\ source = "there" /\ source' = "gone"
  /\ IF status = "started" THEN UNCHANGED <<status, held>>
     ELSE status' \in {"none", "cancelled"} /\ ~held'
  /\ HasBegun => UNCHANGED text
  /\ waiting' = {}
  /\ UNCHANGED begun

Next ==
  \/ Appear \/ Create \/ HoldOrRelease \/ Rewrite \/ Start \/ Withdraw \/ End
  \/ \E r \in Resends : Resend(r) \/ StartResend(r)

Spec == Init /\ [][Next]_vars

(* What every implementation inherits: once the gathering has gone, nothing *)
(* about it waits to be sent.                                               *)
NothingWaits == source = "gone" => status # "scheduled" /\ waiting = {}
=============================================================================
