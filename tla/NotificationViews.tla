--------------------------- MODULE NotificationViews ---------------------------
(***************************************************************************)
(* What admins and participants are shown of notifications: lists with       *)
(* filters and pages, results, progress, and the history of a participant.   *)
(* The views are operators over the tables; a page of the admin list and one  *)
(* of the history take several reads, and the tables change between them.    *)
(***************************************************************************)
EXTENDS Naturals, FiniteSets, Sequences

CONSTANTS
  NoteIds,      \* ids of notifications, in the order they are created
  SchedIds,     \* ids of schedules, in the order they are created
  Readers,      \* the participants
  Tokens,       \* the devices of each
  SendTimes,    \* times of sending
  PerSecond,    \* how many times of the model are in one second
  Listings,     \* the queries an admin makes
  HistoryPages, \* limit and offset, as participants give them
  NowAt,        \* referenceTime
  MaxChanges    \* bound: changes to the tables

ASSUME ViewsConstants ==
  /\ NoteIds \subseteq Nat \ {0} /\ SchedIds \subseteq Nat \ {0}
  /\ IsFiniteSet(Readers) /\ IsFiniteSet(Tokens)
  /\ SendTimes \subseteq Nat /\ NowAt \in Nat /\ MaxChanges \in Nat
  /\ PerSecond \in Nat \ {0}
  /\ HistoryPages \subseteq [limit : Nat \ {0}, offset : Nat]
  /\ \A q \in Listings :
       /\ q.from \in Nat /\ q.to \in Nat /\ q.filterFrom \in Nat /\ q.filterTo \in Nat
       /\ q.page \in Nat \ {0} /\ q.limit \in Nat \ {0}
       /\ q.method \in {"any", "manual", "automatic"}
       /\ q.sortBy \in {"none", "notificationId", "sendAt"} /\ q.desc \in BOOLEAN
       /\ q.matches \subseteq NoteIds  \* the notifications the words occur in

VARIABLES
  note,      \* notifications
  sched,     \* notification_schedules
  recip,     \* notification_recipients: a user, or anonymous
  deliv,     \* notification_push_deliveries: a status for each device
  listing,   \* an admin's request for a page
  history,   \* a participant's request for the history, or none
  changes

viewsVars == <<note, sched, recip, deliv, listing, history, changes>>
tables == <<note, sched, recip, deliv>>

DeliveryStatuses == {"pending", "sending", "retry_wait", "sent", "failed", "stopped"}
NoSched == [of |-> 0, sendAt |-> 0, status |-> "none"]
NoListing == [pc |-> "idle", of |-> {}, total |-> 0, ids |-> <<>>, shown |-> <<>>]

Shown == {s \in SchedIds : sched[s].of # 0}
SchedulesOf(n) == {s \in Shown : sched[s].of = n}

(* julianday(): to the millisecond *)
Between(s, from, to) == from <= sched[s].sendAt /\ sched[s].sendAt <= to

(* datetime(): in whole seconds *)
Second(t) == t \div PerSecond
BetweenSeconds(s, from, to) ==
  Second(from) <= Second(sched[s].sendAt) /\ Second(sched[s].sendAt) <= Second(to)

(* ORDER BY: every row once. *)
OrderBy(rows, Before(_, _)) ==
  CHOOSE seq \in [1 .. Cardinality(rows) -> rows] :
    \A i, j \in 1 .. Cardinality(rows) : i < j => Before(seq[i], seq[j])

(* slice, LIMIT and OFFSET *)
Window(seq, offset, limit) ==
  SubSeq(seq, offset + 1, IF offset + limit < Len(seq) THEN offset + limit ELSE Len(seq))
Page(seq, page, limit) == Window(seq, (page - 1) * limit, limit)

(* Math.max(1, Math.ceil(totalCount / limit)) *)
TotalPages(total, limit) ==
  IF total = 0 THEN 1 ELSE (total + limit - 1) \div limit

-----------------------------------------------------------------------------
(* The admin list: AdminNotificationQueryRepository *)

InDates(n, q) == {s \in SchedulesOf(n) : Between(s, q.from, q.to)}

(* What the status and the dates of the filter leave of them. *)
Filtered(n, q) ==
  {s \in InDates(n, q) : /\ q.status \in {"any", sched[s].status}
                         /\ Between(s, q.filterFrom, q.filterTo)}

CreatedBy(n, method) ==
  /\ method = "manual" => ~note[n].automatic
  /\ method = "automatic" => note[n].automatic

Scope(q) ==
  {n \in NoteIds : note[n].state = "there" /\ Filtered(n, q) # {} /\ CreatedBy(n, q.method)}

(* The words are looked for in the title, the text, the names: *)
Matched(q) == Scope(q) \cap q.matches
NeedsCandidates(q) == q.sortBy # "none" \/ q.matches # NoteIds

(* The schedule a notification is sorted by: the next to come, or else the      *)
(* last that was. *)
Nearer(s, t) ==
  \/ sched[s].sendAt >= NowAt /\ sched[t].sendAt < NowAt
  \/ sched[s].sendAt >= NowAt /\ sched[t].sendAt >= NowAt /\ sched[s].sendAt < sched[t].sendAt
  \/ sched[s].sendAt < NowAt /\ sched[t].sendAt < NowAt /\ sched[s].sendAt > sched[t].sendAt
  \/ sched[s].sendAt = sched[t].sendAt /\ s < t
Representative(n, q) ==
  CHOOSE s \in Filtered(n, q) : \A t \in Filtered(n, q) \ {s} : Nearer(s, t)

SortValue(n, q) ==
  CASE q.sortBy = "sendAt" -> sched[Representative(n, q)].sendAt
    [] q.sortBy = "notificationId" -> n
    [] OTHER -> 0

(* The latest first, and a sort by value keeps that order. *)
Ordered(q) ==
  LET value == [n \in Scope(q) |-> SortValue(n, q)]
  IN OrderBy(Matched(q),
       LAMBDA n, m : \/ value[n] # value[m] /\ (value[n] > value[m]) = q.desc
                     \/ value[n] = value[m] /\ n > m)

(* positions: the items are read in any order, and sorted as their ids are.     *)
Position(ids, n) == CHOOSE i \in DOMAIN ids : ids[i] = n
InPositions(ids, rows) ==
  OrderBy(rows, LAMBDA n, m : Position(ids, n) < Position(ids, m))

(* Without a page, everything in the dates is one batch. *)
Unpaged(q) ==
  OrderBy({n \in NoteIds : note[n].state = "there" /\ InDates(n, q) # {}}, >)

ReadUnpaged(q) ==
  /\ listing.pc = "idle"
  /\ listing' = [NoListing EXCEPT !.pc = "shown", !.total = Len(Unpaged(q)),
                               !.ids = Unpaged(q), !.shown = Unpaged(q)]
  /\ UNCHANGED <<tables, history, changes>>

(* The candidates of a search or a sort are counted as they are read; otherwise   *)
(* the count is a read of its own, and the ids of the page are the next. *)
ReadCount(q) ==
  /\ listing.pc = "idle" /\ ~NeedsCandidates(q)
  /\ listing' = [NoListing EXCEPT !.pc = "counted", !.of = {q}, !.total = Cardinality(Scope(q))]
  /\ UNCHANGED <<tables, history, changes>>

ReadIds(q) ==
  /\ IF NeedsCandidates(q) THEN listing.pc = "idle" ELSE listing.pc = "counted" /\ listing.of = {q}
  /\ listing' = [listing EXCEPT !.pc = "ids", !.ids = Page(Ordered(q), q.page, q.limit),
                    !.total = IF NeedsCandidates(q) THEN Cardinality(Matched(q)) ELSE @]
  /\ UNCHANGED <<tables, history, changes>>

(* The notifications that are still there, in a batch with their schedules. *)
ReadItems ==
  /\ listing.pc = "ids"
  /\ LET rows == {n \in NoteIds : note[n].state = "there" /\ \E i \in DOMAIN listing.ids : listing.ids[i] = n}
     IN listing' = [listing EXCEPT !.pc = "shown", !.shown = InPositions(listing.ids, rows)]
  /\ UNCHANGED <<tables, history, changes>>

AnswerList ==
  /\ listing.pc = "shown"
  /\ listing' = NoListing
  /\ UNCHANGED <<tables, history, changes>>

-----------------------------------------------------------------------------
(* Results and progress *)

Recipients(s) == {u \in Readers : recip[s][u] # "none"}
HasDelivery(s, u) == \E d \in Tokens : deliv[s][u][d] # "none"
HasSent(s, u) == \E d \in Tokens : deliv[s][u][d] = "sent"

(* recipient_push_summary: recipients are counted, not devices. *)
RecipientSummary(s) ==
  [total |-> Cardinality(Recipients(s)),
   success |-> Cardinality({u \in Recipients(s) : HasSent(s, u)}),
   failed |-> Cardinality({u \in Recipients(s) : HasDelivery(s, u) /\ ~HasSent(s, u)}),
   noTarget |-> Cardinality({u \in Recipients(s) : ~HasDelivery(s, u)})]

(* findById: the notification with all its schedules, and what each came to. *)
Detail(n) == [s \in SchedulesOf(n) |-> RecipientSummary(s)]

(* The calendar of schedules: NotificationScheduleQueryRepository.findAll. *)
Calendar(q) ==
  OrderBy({s \in Shown : BetweenSeconds(s, q.from, q.to)},
    LAMBDA s, t : \/ Second(sched[s].sendAt) < Second(sched[t].sendAt)
                  \/ Second(sched[s].sendAt) = Second(sched[t].sendAt) /\ s < t)

(* NotificationScheduleQueryRepository.findById: devices are counted. *)
DeliveryProgress(s) ==
  [status \in DeliveryStatuses |->
     Cardinality({p \in Recipients(s) \X Tokens : deliv[s][p[1]][p[2]] = status})]

(* NotificationResultQueryRepository: an anonymized recipient is left out. *)
ScheduleResults(s) == {u \in Readers : recip[s][u] = "user"}

(* MobileNotificationRepository: the schedules a user is a recipient of. *)
ReceivedBy(u) == {s \in Shown : recip[s][u] = "user"}
Later(s, t) == \/ sched[s].sendAt > sched[t].sendAt
               \/ sched[s].sendAt = sched[t].sendAt /\ s > t

(* Mutant: the latest schedule of the notification, whoever received it. *)
LatestOfAll(u, n) == {s \in SchedulesOf(n) : \A t \in SchedulesOf(n) \ {s} : Later(s, t)}
LatestReceived(u, n) ==
  {s \in ReceivedBy(u) \cap SchedulesOf(n) :
     \A t \in (ReceivedBy(u) \cap SchedulesOf(n)) \ {s} : Later(s, t)}

History(u) ==
  OrderBy({s \in ReceivedBy(u) : s \in LatestReceived(u, sched[s].of)}, Later)
HistoryTotal(u) == Cardinality({sched[s].of : s \in ReceivedBy(u)})

(* findAllForUser: the rows and the total are two queries under Promise.all,   *)
(* which are answered in any order; left are those that are not.  had is what  *)
(* the total was when the request was made (a history variable).              *)
AskHistory(u, p) ==
  /\ history = {}
  /\ history' = {[user |-> u, limit |-> p.limit, offset |-> p.offset, had |-> HistoryTotal(u),
                  left |-> {"rows", "total"}, rows |-> <<>>, total |-> 0]}
  /\ UNCHANGED <<tables, listing, changes>>

ReadHistoryRows(h) ==
  /\ "rows" \in h.left
  /\ history' = {[h EXCEPT !.left = @ \ {"rows"},
                           !.rows = Window(History(h.user), h.offset, h.limit)]}
  /\ UNCHANGED <<tables, listing, changes>>

ReadHistoryTotal(h) ==
  /\ "total" \in h.left
  /\ history' = {[h EXCEPT !.left = @ \ {"total"}, !.total = HistoryTotal(h.user)]}
  /\ UNCHANGED <<tables, listing, changes>>

AnswerHistory(h) ==
  /\ h.left = {} /\ history' = {}
  /\ UNCHANGED <<tables, listing, changes>>

-----------------------------------------------------------------------------
(* The tables, as the other modules change them *)

Change == changes < MaxChanges /\ changes' = changes + 1

CreateNote(n, s, t, automatic) ==
  /\ Change /\ note[n].state = "new" /\ \A m \in NoteIds : m < n => note[m].state # "new"
  /\ sched[s].status = "none" /\ \A r \in SchedIds : r < s => sched[r].status # "none"
  /\ note' = [note EXCEPT ![n] = [state |-> "there", automatic |-> automatic]]
  /\ sched' = [sched EXCEPT ![s] = [of |-> n, sendAt |-> t, status |-> "scheduled"]]
  /\ UNCHANGED <<recip, deliv, listing, history>>

(* A notification is sent again, as a schedule of its own. *)
ResendNote(n, s, t) ==
  /\ Change /\ SchedulesOf(n) # {}
  /\ sched[s].status = "none" /\ \A r \in SchedIds : r < s => sched[r].status # "none"
  /\ sched' = [sched EXCEPT ![s] = [of |-> n, sendAt |-> t, status |-> "scheduled"]]
  /\ UNCHANGED <<note, recip, deliv, listing, history>>

(* The audience becomes recipients, with a delivery for each device. *)
ResolveNote(s, who, devices) ==
  /\ Change /\ sched[s].status = "scheduled"
  /\ sched' = [sched EXCEPT ![s].status = "sending"]
  /\ recip' = [recip EXCEPT ![s] = [u \in Readers |-> IF u \in who THEN "user" ELSE "none"]]
  /\ deliv' = [deliv EXCEPT ![s] =
                 [u \in Readers |-> [d \in Tokens |-> IF u \in who /\ d \in devices THEN "pending" ELSE "none"]]]
  /\ UNCHANGED <<note, listing, history>>

SettleDelivery(s, u, d, status) ==
  /\ Change /\ deliv[s][u][d] = "pending" /\ status # "pending"
  /\ deliv' = [deliv EXCEPT ![s][u][d] = status]
  /\ UNCHANGED <<note, sched, recip, listing, history>>

(* What was not sent yet is put off, cancelled, or stopped. *)
MoveSchedule(s, t) ==
  /\ Change /\ sched[s].status = "scheduled" /\ t # sched[s].sendAt
  /\ sched' = [sched EXCEPT ![s].sendAt = t]
  /\ UNCHANGED <<note, recip, deliv, listing, history>>

CancelUnsent(s) ==
  /\ Change /\ sched[s].status = "scheduled"
  /\ sched' = [sched EXCEPT ![s] = [NoSched EXCEPT !.status = "gone"]]
  /\ UNCHANGED <<note, recip, deliv, listing, history>>

StopSchedule(s) ==
  /\ Change /\ sched[s].status = "sending"
  /\ sched' = [sched EXCEPT ![s].status = "stopped"]
  /\ deliv' = [deliv EXCEPT ![s] =
                 [u \in Readers |-> [d \in Tokens |-> IF @[u][d] = "pending" THEN "stopped" ELSE @[u][d]]]]
  /\ UNCHANGED <<note, recip, listing, history>>

(* The purge of an account. *)
AnonymizeReader(u) ==
  /\ Change
  /\ recip' = [s \in SchedIds |-> [recip[s] EXCEPT ![u] = IF @ = "user" THEN "anonymous" ELSE @]]
  /\ UNCHANGED <<note, sched, deliv, listing, history>>

(* A notification of which nothing was sent is deleted, its schedules too. *)
DeleteNote(n) ==
  /\ Change /\ note[n].state = "there" /\ \A s \in SchedulesOf(n) : sched[s].status = "scheduled"
  /\ note' = [note EXCEPT ![n].state = "gone"]
  /\ sched' = [s \in SchedIds |-> IF s \in SchedulesOf(n) THEN [NoSched EXCEPT !.status = "gone"] ELSE sched[s]]
  /\ UNCHANGED <<recip, deliv, listing, history>>

ViewsInit ==
  /\ note = [n \in NoteIds |-> [state |-> "new", automatic |-> FALSE]]
  /\ sched = [s \in SchedIds |-> NoSched]
  /\ recip = [s \in SchedIds |-> [u \in Readers |-> "none"]]
  /\ deliv = [s \in SchedIds |-> [u \in Readers |-> [d \in Tokens |-> "none"]]]
  /\ listing = NoListing /\ history = {} /\ changes = 0

ReadLists ==
  \/ \E q \in Listings : ReadCount(q) \/ ReadIds(q) \/ ReadUnpaged(q)
  \/ ReadItems \/ AnswerList

ReadHistories ==
  \/ \E u \in Readers, p \in HistoryPages : AskHistory(u, p)
  \/ \E h \in history : ReadHistoryRows(h) \/ ReadHistoryTotal(h) \/ AnswerHistory(h)

WriteNotices ==
  \/ \E n \in NoteIds : DeleteNote(n)
  \/ \E n \in NoteIds, s \in SchedIds, t \in SendTimes :
       ResendNote(n, s, t) \/ \E automatic \in BOOLEAN : CreateNote(n, s, t, automatic)
  \/ \E s \in SchedIds :
       \/ CancelUnsent(s) \/ StopSchedule(s) \/ \E t \in SendTimes : MoveSchedule(s, t)
       \/ \E who \in SUBSET Readers, devices \in SUBSET Tokens : ResolveNote(s, who, devices)
       \/ \E u \in Readers, d \in Tokens, status \in DeliveryStatuses : SettleDelivery(s, u, d, status)
  \/ \E u \in Readers : AnonymizeReader(u)

ViewsNext == ReadLists \/ ReadHistories \/ WriteNotices

ViewsSpec == ViewsInit /\ [][ViewsNext]_viewsVars

-----------------------------------------------------------------------------
(* Over the same tables, the history of a user lists every notification the    *)
(* user received once, and the total counts the same. *)
HistoryComplete ==
  \A u \in Readers :
    LET h == History(u) IN
      /\ Len(h) = HistoryTotal(u)
      /\ \A n \in {sched[s].of : s \in ReceivedBy(u)} :
           Cardinality({i \in DOMAIN h : sched[h[i]].of = n}) = 1

(* Rows and total are read apart, while notifications arrive.  As long as the   *)
(* user is not purged, both lie between what the history had when it was asked  *)
(* for and what it has now: a page ends before its limit only where the history *)
(* did, and shows nothing that is not there, and no notification twice.         *)
Purged(u) == \E s \in SchedIds : recip[s][u] = "anonymous"
HistoryAnswered ==
  \A h \in history :
    ~Purged(h.user) =>
      /\ "total" \notin h.left => h.had <= h.total /\ h.total <= HistoryTotal(h.user)
      /\ "rows" \notin h.left =>
           /\ Len(h.rows) <= h.limit
           /\ Len(h.rows) < h.limit => h.had <= h.offset + Len(h.rows)
           /\ h.rows # <<>> => h.offset + Len(h.rows) <= HistoryTotal(h.user)
           /\ \A i \in DOMAIN h.rows : h.rows[i] \in ReceivedBy(h.user)
           /\ \A i, j \in DOMAIN h.rows : i < j =>
                sched[h.rows[i]].of # sched[h.rows[j]].of /\ Later(h.rows[i], h.rows[j])

(* The recipients an admin sees counted are those of the results and the        *)
(* anonymized, each counted once however many devices; and the progress counts  *)
(* each device once. *)
CountsAddUp ==
  \A s \in Shown :
    LET r == RecipientSummary(s) IN
      /\ r.total = r.success + r.failed + r.noTarget
      /\ r.total = Cardinality(ScheduleResults(s))
                     + Cardinality({u \in Readers : recip[s][u] = "anonymous"})
      /\ r.success <= DeliveryProgress(s)["sent"]

(* A page shows what is left of the ids it was read for, in their order. *)
PageInOrder ==
  listing.pc = "shown" =>
    /\ Len(listing.shown) <= Len(listing.ids)
    /\ \A i, j \in DOMAIN listing.shown : i < j =>
         \E k, l \in DOMAIN listing.ids :
           k < l /\ listing.ids[k] = listing.shown[i] /\ listing.ids[l] = listing.shown[j]

(* Over the same tables, the calendar shows every schedule the list shows in    *)
(* the same dates, and any other it shows is out of them by less than a second;  *)
(* and the detail of the notification of each has it. *)
CalendarAgrees ==
  \A q \in Listings :
    LET c == Calendar(q)
        listed == Unpaged(q)
        onCalendar == {c[i] : i \in DOMAIN c}
        onList == UNION {InDates(listed[i], q) : i \in DOMAIN listed}
    IN /\ onList \subseteq onCalendar
       /\ \A s \in onCalendar \ onList : Second(sched[s].sendAt) \in {Second(q.from), Second(q.to)}
       /\ \A s \in onCalendar : s \in DOMAIN Detail(sched[s].of)

(* As long as the tables stay as they are, every notification a query finds is  *)
(* on exactly one of the pages that are announced, none of which is longer than *)
(* its limit, or empty when something was found. *)
OnPage(n, q, p) ==
  LET rows == Page(Ordered(q), p, q.limit) IN \E i \in DOMAIN rows : rows[i] = n
PagesComplete ==
  \A q \in Listings :
    LET pages == 1 .. TotalPages(Cardinality(Matched(q)), q.limit)
    IN /\ \A p \in pages :
            /\ Len(Page(Ordered(q), p, q.limit)) <= q.limit
            /\ Matched(q) # {} => \E n \in Matched(q) : OnPage(n, q, p)
       /\ \A n \in Matched(q) : \E p \in pages :
            OnPage(n, q, p) /\ \A r \in pages \ {p} : ~OnPage(n, q, r)

(* What participants and admins are shown agrees with the tables and with       *)
(* itself, after resends that reach others, purges and deletions. *)
ViewsAgree ==
  /\ HistoryComplete /\ HistoryAnswered
  /\ CountsAddUp /\ PageInOrder /\ PagesComplete /\ CalendarAgrees
==============================================================================
