-------------------------------- MODULE Places --------------------------------
(***************************************************************************)
(* Events, the venues they take place at, the spots their participants       *)
(* gather at, and the images of both.  A row is saved as the version that    *)
(* was read; an image is stored in R2 first, then named by its row, and the  *)
(* one it replaces is deleted last.                                         *)
(***************************************************************************)
EXTENDS Naturals, FiniteSets

CONSTANTS
  Venues,       \* ids of venues
  Spots,        \* ids of gathering spots
  Events,       \* ids of events
  EventNames,   \* names rows are given
  Images,       \* keys of images in R2
  PathOf,       \* PathOf[k]: the place under whose path key k lies
  FirstPlaces,  \* the rows that are there at the start
  ImageRequests, \* concurrent requests about images and removals
  NoImage,      \* no image, no row
  MaxTurns,     \* bound: requests made
  MaxFaults     \* bound: statements that throw, or requests that die

PlaceIds == Venues \cup Spots
RowIds == PlaceIds \cup Events

ASSUME PlacesConstants ==
  /\ Venues \cap Spots = {} /\ Events \cap PlaceIds = {}
  /\ PathOf \in [Images -> PlaceIds]
  /\ FirstPlaces \subseteq RowIds /\ EventNames # {}
  /\ NoImage \notin Images \cup RowIds
  /\ MaxTurns \in Nat /\ MaxFaults \in Nat

VARIABLES
  row,        \* venues, gathering_spots, and events with their event_venues
  refs,       \* what refers to events: gatherings with their spot, audiences without
  bucket,     \* R2: the images stored
  imageReq,   \* the requests about images and removals
  rowEditor,  \* an admin that reads a row and saves it
  doubted,    \* history: images named by a replaceImageKey whose answer was lost
  turns, faults

placesVars == <<row, refs, bucket, imageReq, rowEditor, doubted, turns, faults>>

Row == [status: {"new", "there", "gone"}, name: EventNames, image: Images \cup {NoImage},
        venues: SUBSET Venues, version: Nat]
FreshRow == [status |-> "new", name |-> CHOOSE n \in EventNames : TRUE, image |-> NoImage,
             venues |-> {}, version |-> 0]

ImageReq == [pc: {"idle", "put", "swap", "undo", "inUse", "drop", "readKey", "remove"},
             row: RowIds \cup {NoImage}, old: Images \cup {NoImage}, new: Images \cup {NoImage}]
NoImageReq == [pc |-> "idle", row |-> NoImage, old |-> NoImage, new |-> NoImage]

RowEditor == [pc: {"idle", "read", "checked"}, row: RowIds \cup {NoImage}, seen: Row,
              name: EventNames, venues: SUBSET Venues]
NoEditor == [pc |-> "idle", row |-> NoImage, seen |-> FreshRow, name |-> FreshRow.name, venues |-> {}]

There(i) == row[i].status = "there"
VenuesThere(vs) == \A v \in vs : There(v)
VenueHasEvents(v) == \E e \in Events : There(e) /\ v \in row[e].venues
SpotHasGatherings(s) == \E g \in refs : g.spot = s
EventHasGatherings(e) == \E g \in refs : g.event = e /\ g.spot # NoImage
EventHasReferences(e) == \E g \in refs : g.event = e
InUse(i) ==
  \/ i \in Venues /\ VenueHasEvents(i)
  \/ i \in Spots /\ SpotHasGatherings(i)
  \/ i \in Events /\ EventHasReferences(i)

(* Audiences have no foreign key. *)
Kept(i) == IF i \in Events THEN EventHasGatherings(i) ELSE InUse(i)

(* uq_venues_venue_name *)
NameTaken(i, name) ==
  i \in Venues /\ \E v \in Venues \ {i} : There(v) /\ row[v].name = name

Turn == turns < MaxTurns /\ turns' = turns + 1
Fault == faults < MaxFaults /\ faults' = faults + 1
ImageStep(r, pc) == imageReq' = [imageReq EXCEPT ![r].pc = pc]
ImageEnd(r) == imageReq' = [imageReq EXCEPT ![r] = NoImageReq]

-----------------------------------------------------------------------------
(* Images: PlaceImageService *)

(* A new key is a UUID under the path of its place. *)
FreshKey(i) ==
  LET free == {k \in Images : /\ PathOf[k] = i /\ k \notin bucket \cup doubted
                              /\ \A j \in PlaceIds : row[j].image # k
                              /\ \A r \in ImageRequests : k \notin {imageReq[r].old, imageReq[r].new}}
  IN IF free = {} THEN {} ELSE {CHOOSE k \in free : TRUE}

(* setImage: findImageKey. *)
StartSetImage(r, i) ==
  /\ imageReq[r] = NoImageReq /\ There(i) /\ Turn
  /\ \E k \in FreshKey(i) :
       imageReq' = [imageReq EXCEPT ![r] = [pc |-> "put", row |-> i, old |-> row[i].image, new |-> k]]
  /\ UNCHANGED <<row, refs, bucket, rowEditor, faults, doubted>>

PutImage(r) ==
  /\ imageReq[r].pc = "put"
  /\ bucket' = bucket \cup {imageReq[r].new}
  /\ ImageStep(r, "swap")
  /\ UNCHANGED <<row, refs, rowEditor, turns, faults, doubted>>

(* deleteImage: a row without an image is left alone. *)
StartDeleteImage(r, i) ==
  /\ imageReq[r] = NoImageReq /\ There(i) /\ row[i].image # NoImage /\ Turn
  /\ imageReq' = [imageReq EXCEPT ![r] =
                    [pc |-> "swap", row |-> i, old |-> row[i].image, new |-> NoImage]]
  /\ UNCHANGED <<row, refs, bucket, rowEditor, faults, doubted>>

(* Mutant: the key is written over whatever is there. *)
ReplaceAny(i, old) == There(i)
(* WHERE image_key = the key that was read *)
Replaceable(i, old) == There(i) /\ row[i].image = old

ImageKeyReplaced(q) == row' = [row EXCEPT ![q.row].image = q.new, ![q.row].version = @ + 1]

(* replaceImageKey; an image that is not named is deleted again. *)
ReplaceImageKey(r) ==
  /\ imageReq[r].pc = "swap"
  /\ LET q == imageReq[r] IN
     \/ /\ Replaceable(q.row, q.old)
        /\ ImageKeyReplaced(q)
        /\ ImageStep(r, "inUse")
     \/ /\ ~Replaceable(q.row, q.old)
        /\ UNCHANGED row
        /\ IF q.new = NoImage THEN ImageEnd(r) ELSE ImageStep(r, "undo")
  /\ UNCHANGED <<refs, bucket, rowEditor, turns, faults, doubted>>

(* replaceImageKey throws: the finally of setImage deletes the new image. *)
ReplaceFails(r) ==
  /\ imageReq[r].pc = "swap" /\ imageReq[r].new # NoImage /\ Fault
  /\ ImageStep(r, "undo")
  /\ UNCHANGED <<row, refs, bucket, rowEditor, turns, doubted>>

(* It throws although the row was written: the answer is lost, and the finally  *)
(* goes for the image the row now names. *)
ReplaceAnswerLost(r) ==
  /\ imageReq[r].pc = "swap" /\ imageReq[r].new # NoImage /\ Fault
  /\ LET q == imageReq[r] IN
     /\ Replaceable(q.row, q.old)
     /\ ImageKeyReplaced(q)
     /\ doubted' = doubted \cup {q.new}
  /\ ImageStep(r, "undo")
  /\ UNCHANGED <<refs, bucket, rowEditor, turns>>

UndoImage(r) ==
  /\ imageReq[r].pc = "undo"
  /\ bucket' = bucket \ {imageReq[r].new}
  /\ ImageEnd(r)
  /\ UNCHANGED <<row, refs, rowEditor, turns, faults, doubted>>

(* deleteUnusedImage: isInUse, and then R2, whose error is only logged. *)
CheckImageUse(r) ==
  /\ imageReq[r].pc = "inUse"
  /\ IF imageReq[r].old = NoImage \/ \E i \in PlaceIds : There(i) /\ row[i].image = imageReq[r].old
       THEN ImageEnd(r) ELSE ImageStep(r, "drop")
  /\ UNCHANGED <<row, refs, bucket, rowEditor, turns, faults, doubted>>

DropImage(r) ==
  /\ imageReq[r].pc = "drop"
  /\ bucket' = bucket \ {imageReq[r].old}
  /\ ImageEnd(r)
  /\ UNCHANGED <<row, refs, rowEditor, turns, faults, doubted>>

(* A statement throws, or the invocation dies. *)
ImageRequestDies(r) ==
  /\ imageReq[r] # NoImageReq /\ Fault
  /\ ImageEnd(r)
  /\ UNCHANGED <<row, refs, bucket, rowEditor, turns, doubted>>

-----------------------------------------------------------------------------
(* Removing: VenueService, GatheringSpotService, EventService *)

(* The row is not in use. *)
StartRemove(r, i, pc) ==
  /\ imageReq[r] = NoImageReq /\ ~InUse(i) /\ Turn
  /\ imageReq' = [imageReq EXCEPT ![r].pc = pc, ![r].row = i]
  /\ UNCHANGED <<row, refs, bucket, rowEditor, faults, doubted>>

DeleteVenue(r, v) == v \in Venues /\ StartRemove(r, v, "readKey")
DeleteSpot(r, s) == s \in Spots /\ StartRemove(r, s, "readKey")
DeleteEvent(r, e) == e \in Events /\ StartRemove(r, e, "remove")

(* findImageKey *)
ReadKey(r) ==
  /\ imageReq[r].pc = "readKey"
  /\ imageReq' = [imageReq EXCEPT ![r].pc = "remove", ![r].old = row[imageReq[r].row].image]
  /\ UNCHANGED <<row, refs, bucket, rowEditor, turns, faults, doubted>>

(* A foreign key keeps a row that came to be used; an event takes its          *)
(* event_venues along. *)
RemoveRow(r) ==
  /\ imageReq[r].pc = "remove"
  /\ LET i == imageReq[r].row IN
     \/ /\ There(i) /\ ~Kept(i)
        /\ row' = [row EXCEPT ![i] = [FreshRow EXCEPT !.status = "gone", !.version = row[i].version]]
        /\ IF i \in Events THEN ImageEnd(r) ELSE ImageStep(r, "inUse")
     \/ /\ ~There(i) \/ Kept(i)
        /\ UNCHANGED row /\ ImageEnd(r)
  /\ UNCHANGED <<refs, bucket, rowEditor, turns, faults, doubted>>

-----------------------------------------------------------------------------
(* Rows *)

(* The event and its venues are one batch; a venue that is not there fails     *)
(* the foreign key. *)
CreateRow(i, name, vs) ==
  /\ row[i].status = "new" /\ VenuesThere(vs) /\ ~NameTaken(i, name)
  /\ row' = [row EXCEPT ![i].status = "there", ![i].name = name, ![i].venues = vs]
  /\ UNCHANGED <<refs, bucket, imageReq, rowEditor, turns, faults, doubted>>

CreateVenue(v, name) == v \in Venues /\ CreateRow(v, name, {})
CreateSpot(s, name) == s \in Spots /\ CreateRow(s, name, {})
CreateEvent(e, name, vs) == e \in Events /\ CreateRow(e, name, vs)

(* The settings of an event (GatheringSync) name spots. *)
AddGathering(e, s) ==
  /\ There(e) /\ There(s) /\ Turn
  /\ refs' = refs \cup {[event |-> e, spot |-> s]}
  /\ UNCHANGED <<row, bucket, imageReq, rowEditor, faults, doubted>>

ClearGatherings(e) ==
  /\ refs' = {g \in refs : g.event = e => g.spot = NoImage}
  /\ UNCHANGED <<row, bucket, imageReq, rowEditor, turns, faults, doubted>>

(* A notification for the participants of an event, and its deletion. *)
AddAudience(e) ==
  /\ There(e) /\ Turn
  /\ refs' = refs \cup {[event |-> e, spot |-> NoImage]}
  /\ UNCHANGED <<row, bucket, imageReq, rowEditor, faults, doubted>>

DropAudience(e) ==
  /\ refs' = refs \ {[event |-> e, spot |-> NoImage]}
  /\ UNCHANGED <<row, bucket, imageReq, rowEditor, turns, faults, doubted>>

SeesRow(i) == rowEditor' = [NoEditor EXCEPT !.pc = "read", !.row = i, !.seen = row[i]]
ReadVenue(i) == i \in Venues /\ SeesRow(i)
ReadSpot(i) == i \in Spots /\ SeesRow(i)
(* findEventWithVenues: the event and its venues in one batch. *)
ReadEvent(i) == i \in Events /\ SeesRow(i)

ReadRow(i) ==
  /\ rowEditor = NoEditor /\ There(i) /\ Turn
  /\ ReadVenue(i) \/ ReadSpot(i) \/ ReadEvent(i)
  /\ UNCHANGED <<row, refs, bucket, imageReq, faults, doubted>>

(* Checked before the batch: the event and the venues are there. *)
EventAndVenuesThere(i, vs) == i \in Events => There(i) /\ VenuesThere(vs)

CheckSave(name, vs) ==
  /\ rowEditor.pc = "read"
  /\ rowEditor.row \in PlaceIds => vs = {}
  /\ IF EventAndVenuesThere(rowEditor.row, vs)
       THEN rowEditor' = [rowEditor EXCEPT !.pc = "checked", !.name = name, !.venues = vs]
       ELSE rowEditor' = NoEditor
  /\ UNCHANGED <<row, refs, bucket, imageReq, turns, faults, doubted>>

(* WHERE lock_version = the version read *)
Unchanged(i, version) == There(i) /\ row[i].version = version

(* Mutant: the event is updated first, which fails the condition of the others. *)
VersionFirst(i, name, vs) ==
  row' = [row EXCEPT ![i].name = name, ![i].version = @ + 1]
Saved(i, name, vs) ==
  row' = [row EXCEPT ![i].name = name, ![i].venues = vs, ![i].version = @ + 1]

SaveVenue(i) == i \in Venues /\ Saved(i, rowEditor.name, {})
SaveSpot(i) == i \in Spots /\ Saved(i, rowEditor.name, {})
SaveEvent(i) == i \in Events /\ Saved(i, rowEditor.name, rowEditor.venues)

SaveRow ==
  /\ rowEditor.pc = "checked"
  /\ LET i == rowEditor.row IN
       IF /\ Unchanged(i, rowEditor.seen.version) /\ VenuesThere(rowEditor.venues)
          /\ ~NameTaken(i, rowEditor.name)
         THEN SaveVenue(i) \/ SaveSpot(i) \/ SaveEvent(i) ELSE UNCHANGED row
  /\ rowEditor' = NoEditor
  /\ UNCHANGED <<refs, bucket, imageReq, turns, faults, doubted>>

(* A save without a version asks for nothing. *)
SaveBlindly(i, name, vs) ==
  /\ There(i) /\ VenuesThere(vs) /\ ~NameTaken(i, name) /\ Turn
  /\ i \in PlaceIds => vs = {}
  /\ Saved(i, name, vs)
  /\ UNCHANGED <<refs, bucket, imageReq, rowEditor, faults, doubted>>

PlacesInit ==
  /\ row = [i \in RowIds |->
              [FreshRow EXCEPT !.status = IF i \in FirstPlaces THEN "there" ELSE "new"]]
  /\ refs = {} /\ bucket = {} /\ doubted = {}
  /\ imageReq = [r \in ImageRequests |-> NoImageReq]
  /\ rowEditor = NoEditor /\ turns = 0 /\ faults = 0

PlacesNext ==
  \/ SaveRow
  \/ \E name \in EventNames, vs \in SUBSET Venues :
       \/ CheckSave(name, vs)
       \/ \E i \in RowIds : SaveBlindly(i, name, vs)
       \/ \E e \in Events : CreateEvent(e, name, vs)
  \/ \E name \in EventNames :
       (\E v \in Venues : CreateVenue(v, name)) \/ (\E s \in Spots : CreateSpot(s, name))
  \/ \E i \in RowIds : ReadRow(i)
  \/ \E e \in Events : ClearGatherings(e) \/ AddAudience(e) \/ DropAudience(e) \/ \E s \in Spots : AddGathering(e, s)
  \/ \E r \in ImageRequests :
       \/ PutImage(r) \/ ReplaceImageKey(r) \/ ReplaceFails(r) \/ ReplaceAnswerLost(r) \/ UndoImage(r)
       \/ CheckImageUse(r) \/ DropImage(r) \/ ImageRequestDies(r) \/ ReadKey(r) \/ RemoveRow(r)
       \/ \E i \in PlaceIds : StartSetImage(r, i) \/ StartDeleteImage(r, i)
       \/ (\E v \in Venues : DeleteVenue(r, v)) \/ (\E s \in Spots : DeleteSpot(r, s))
       \/ \E e \in Events : DeleteEvent(r, e)

PlacesSpec == PlacesInit /\ [][PlacesNext]_placesVars

-----------------------------------------------------------------------------
(* Whom an image waits for: the request that stored it, or one that deletes it. *)
InHand(k) ==
  \E r \in ImageRequests :
    \/ imageReq[r].pc \in {"put", "swap", "undo"} /\ imageReq[r].new = k
    \/ imageReq[r].pc \in {"inUse", "drop"} /\ imageReq[r].old = k

(* Rows and bucket agree: the image a place shows is stored, whichever of the   *)
(* statements failed before it took effect and wherever a request died; only    *)
(* the lost answer of the replaceImageKey that named it takes it away.  And as  *)
(* long as nothing failed, an image of a place that is there is the one it      *)
(* shows, or a request still has it in hand, however many replaced it at once.  *)
ImagesMatchRows ==
  /\ \A i \in PlaceIds :
       There(i) /\ row[i].image # NoImage => row[i].image \in bucket \cup doubted
  /\ faults = 0 =>
       \A k \in bucket : There(PathOf[k]) => row[PathOf[k]].image = k \/ InHand(k)

(* A save with a version is based on the row as it was read, its venues and     *)
(* its image too, and leaves it with exactly what was given.                 *)
RowSavedAsRead ==
  [][\A i \in RowIds :
       /\ rowEditor.pc = "checked" /\ rowEditor.row = i
       /\ rowEditor'.pc = "idle" /\ row'[i] # row[i]
       => /\ row[i] = rowEditor.seen
          /\ row'[i].name = rowEditor.name /\ row'[i].venues = rowEditor.venues
    ]_placesVars
==============================================================================
