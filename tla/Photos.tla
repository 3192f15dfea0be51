-------------------------------- MODULE Photos ---------------------------------
(***************************************************************************)
(* A booking's visit photos (photos): operators upload and remove them,    *)
(* mark the set as ready, which is told to the guest, and the guest looks  *)
(* at the set on the ticket page.  Each request is a few statements, none  *)
(* of them under a lock.                                                   *)
(***************************************************************************)
EXTENDS Naturals, FiniteSets

CONSTANTS
  Uploads,           \* requests in progress at once
  Shots,             \* bound: photos ever uploaded
  PHOTOS_PER_BOOKING
ASSUME PhotosAssumption ==
  PHOTOS_PER_BOOKING \in Nat \ {0} /\ IsFiniteSet(Uploads) /\ IsFiniteSet(Shots)

VARIABLES
  album,           \* the booking's rows of booking_photos
  shot,            \* history: photos ever saved, or on their way
  visitOver,       \* the booking was cancelled
  photosReadyAt,   \* the booking's column, as a yes or no
  photoCall,       \* the requests
  thinned          \* history: a photo was removed while a set was being marked ready
photoVars == <<album, shot, visitOver, photosReadyAt, photoCall, thinned>>

NoPhotoCall == [step |-> "idle"]
Starts(k) == UNCHANGED <<visitOver, photosReadyAt>> /\ photoCall[k] = NoPhotoCall
Reply(k) == photoCall' = [photoCall EXCEPT ![k] = NoPhotoCall]

PhotosTypeOK ==
  /\ album \subseteq shot /\ shot \subseteq Shots
  /\ \A k \in Uploads : photoCall[k].step \in {"idle", "save", "mark", "count", "tell"}

PhotosInit ==
  /\ album = {} /\ shot = {} /\ visitOver = FALSE /\ photosReadyAt = FALSE /\ thinned = FALSE
  /\ photoCall = [k \in Uploads |-> NoPhotoCall]

\* A photo of a booking that is not cancelled and, counted now, has room.
addPhoto(k, p) ==
  /\ Starts(k) /\ p \notin shot /\ ~visitOver /\ Cardinality(album) < PHOTOS_PER_BOOKING
  /\ photoCall' = [photoCall EXCEPT ![k] = [step |-> "save", photo |-> p]] /\ shot' = shot \cup {p}
  /\ UNCHANGED <<album, thinned>>

savePhoto(k) ==
  /\ photoCall[k].step = "save" /\ album' = album \cup {photoCall[k].photo} /\ Reply(k)
  /\ UNCHANGED <<shot, visitOver, photosReadyAt, thinned>>

removePhoto(k, p) ==
  /\ Starts(k) /\ p \in album /\ album' = album \ {p}
  /\ thinned' = (thinned \/ \E j \in Uploads : photoCall[j].step \in {"mark", "count"})
  /\ UNCHANGED <<shot, photoCall>>

markReady(k) ==
  /\ Starts(k) /\ album # {} /\ photoCall' = [photoCall EXCEPT ![k] = [step |-> "mark"]]
  /\ thinned' = (thinned /\ \E j \in Uploads : photoCall[j].step \in {"mark", "count", "tell"})
  /\ UNCHANGED <<album, shot>>

writeReady(k) ==
  /\ photoCall[k].step = "mark" /\ photosReadyAt' = TRUE
  /\ photoCall' = [photoCall EXCEPT ![k] = [step |-> "count"]] /\ UNCHANGED <<album, shot, visitOver, thinned>>

\* The message's number is that of the set read afterwards.
readSet(k) ==
  /\ photoCall[k].step = "count"
  /\ photoCall' = [photoCall EXCEPT ![k] = [step |-> "tell", count |-> Cardinality(album)]]
  /\ UNCHANGED <<album, shot, visitOver, photosReadyAt, thinned>>

tellReady(k) == photoCall[k].step = "tell" /\ Reply(k) /\ UNCHANGED <<album, shot, visitOver, photosReadyAt, thinned>>

cancelVisit == ~visitOver /\ visitOver' = TRUE /\ UNCHANGED <<album, shot, photosReadyAt, photoCall, thinned>>

\* What the ticket page shows.
photoSet == [photosReadyAt |-> photosReadyAt, count |-> Cardinality(album), photos |-> album]

PhotosNext ==
  \/ cancelVisit
  \/ \E k \in Uploads :
       \/ \E p \in Shots : addPhoto(k, p) \/ removePhoto(k, p)
       \/ savePhoto(k) \/ markReady(k) \/ writeReady(k) \/ readSet(k) \/ tellReady(k)

-----------------------------------------------------------------------------
(* The count before an upload is taken without a lock: uploads at the same *)
(* moment may exceed the limit, but never by more than all of them but one *)
(* (add).                                                                  *)
AlbumNearLimit ==
  LET saving == {k \in Uploads : photoCall[k].step = "save"} IN
  Cardinality(album) + Cardinality(saving) <= PHOTOS_PER_BOOKING + Cardinality(Uploads) - 1

(* A guest told that the photos are ready is told of at least one, of all  *)
(* that are there, and finds the set marked ready, unless one is removed   *)
(* while it is being marked (markReady, set, sendPhotosReady).             *)
ReadyMeansPhotos ==
  \A k \in Uploads : photoCall[k].step = "tell" /\ ~thinned => photoCall[k].count > 0 /\ photoSet.photosReadyAt

PhotosHold == AlbumNearLimit /\ ReadyMeansPhotos
=============================================================================
