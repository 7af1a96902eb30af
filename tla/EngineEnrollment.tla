-------------------------- MODULE EngineEnrollment --------------------------
(***************************************************************************)
(* An enrollment in the Windows driver's engine adapter (analysis/         *)
(* win-decomp/EngineAdapter.c).  UpdateEnrollment adds each image to the   *)
(* matcher's session and counts it, either as enrolled or as a tip: an     *)
(* image that overlaps the earlier ones too much and costs the user        *)
(* another touch.  Of the first two tips in a row the better one is meant  *)
(* to stay: the first is taken out again and held as the backup image,     *)
(* the second is weighed against it.  The enrollment is done when enough   *)
(* images are enrolled or the session is full.                             *)
(*                                                                         *)
(* The counters and the backup image are globals of the driver: the        *)
(* counters are reset by the next enrollment, the backup image is not.     *)
(***************************************************************************)
EXTENDS Integers, Sequences

CONSTANTS
    SAMPLES,        \* 0x428: images to enroll
    MAX_TIPS,       \* 0x45c: tips in one enrollment
    MAX_CONT,       \* 0x468: tips in a row
    TIP_FROM,       \* 0x460, 0x464: images whose enrollment may be a tip
    TIP_TO,
    CHOOSE_LESS,    \* 0x4a5: keep the better of two tips
    SENSOR_C        \* the sensor is of type 0xc

ASSUME EngineEnrollmentAssumption ==
    /\ SAMPLES \in Nat \ {0}
    /\ MAX_TIPS \in Nat
    /\ MAX_CONT \in Nat
    /\ TIP_FROM \in Nat
    /\ TIP_TO \in Nat
    /\ CHOOSE_LESS \in BOOLEAN
    /\ SENSOR_C \in BOOLEAN

VARIABLES
    inProgress,     \* the context's flag
    open,           \* the context has a session of the matcher
    gallery,        \* the session, and how many images were added to it
    touched,        \* images the matcher accepted
    enrolled,       \* ... of them counted as enrolled
    tipped,         \* ... of them counted as tips
    lastTipped,     \* the number of the last tip
    contTip,        \* tips in a row
    backup,         \* the backup image
    packed,         \* the finished template: none, or the images in it
    answer,         \* what the framework was told last
    good,           \* history: images counted as enrolled
    startFailed     \* history: the matcher gave no session

vars == <<inProgress, open, gallery, touched, enrolled, tipped, lastTipped,
          contTip, backup, packed, answer, good, startFailed>>

counters == <<touched, enrolled, tipped, lastTipped, good>>
context == <<inProgress, open, packed, startFailed>>

\* Mutant: session.max without the tips.
BugMaxImages == SAMPLES

\* What session.max is set to.
MaxImages == SAMPLES + MAX_TIPS

\* An image is the number of its touch; one of an earlier enrollment is 0.
Foreign == 0
Image == 0..MaxImages
None == -1

\* What an addition may come to besides storing the image: the session was full
\* or the image had no features, and was counted all the same; a backup image
\* of an earlier enrollment came in; the image taken out did not go in again.
Oddity == {"full", "empty", "adopted", "unrestored"}

Gallery == [kept : Seq(Image), used : 0..MaxImages, images : Nat,
            odd : SUBSET Oddity]

EmptyGallery == [kept |-> <<>>, used |-> 0, images |-> 0, odd |-> {}]

Ids(g) == {g.kept[i] : i \in 1..Len(g.kept)}

-----------------------------------------------------------------------------
(* The matcher's session.                                                  *)

Marks(g, img, how) ==
    (IF img = Foreign THEN {"adopted"} ELSE {})
        \union (IF g.used = MaxImages THEN {"full"} ELSE {})
        \union (IF how = "empty" THEN {"empty"} ELSE {})

\* enrolAddImage answering 0, and the adapter counting the image.
Added(g, img, how) ==
    [kept |-> IF g.used < MaxImages /\ how = "stored" THEN Append(g.kept, img)
                                                       ELSE g.kept,
     used |-> IF g.used < MaxImages THEN g.used + 1 ELSE g.used,
     images |-> g.images + 1,
     odd |-> g.odd \union Marks(g, img, how)]

\* enrolDeleteImage takes out the image stored last, whichever it is.
Deleted(g) ==
    [kept |-> IF g.kept = <<>> THEN <<>> ELSE SubSeq(g.kept, 1, Len(g.kept) - 1),
     used |-> IF g.used > 0 THEN g.used - 1 ELSE 0,
     images |-> g.images - 1,
     odd |-> g.odd]

How == {"stored", "empty"}

\* _AdapterCheckBackupEnrollImg: the galleries it may leave.
WithBackup(g) ==
    IF backup = None THEN {g}
    ELSE {g} \union {Added(g, backup, how) : how \in How}

\* Mutant: what was taken out is not put back.
BugRestored(g, img) == {g}

\* The current image goes in again, and is counted even when it does not.
Restored(g, img) ==
    {Added(g, img, how) : how \in How}
        \union {[kept |-> g.kept, used |-> g.used, images |-> g.images + 1,
                 odd |-> g.odd \union {"unrestored"}]}

\* Mutant: the tip held is taken out as well, which it is not in any more.
BugLessOverlay(g, img) ==
    {g} \union {Added(Deleted(Deleted(g)), backup, how) : how \in How}
        \union Restored(Deleted(g), img)

\* _AdapterChooseLessOverlayEnrollImg: the current image stays, or makes way for
\* the backup image, or is put back when that one cannot be added.
LessOverlay(g, img) ==
    {g} \union {Added(Deleted(g), backup, how) : how \in How}
        \union Restored(Deleted(g), img)

-----------------------------------------------------------------------------
Init ==
    /\ inProgress = FALSE
    /\ open = FALSE
    /\ gallery = EmptyGallery
    /\ touched = 0
    /\ enrolled = 0
    /\ tipped = 0
    /\ lastTipped = 0
    /\ contTip = 0
    /\ backup = None
    /\ packed = {}
    /\ answer = "idle"
    /\ good = {}
    /\ startFailed = FALSE

\* The framework starts an enrollment when the last one ended or failed.
MayStart == answer \in {"idle", "failed", "refused"}

(* EngineAdapterCreateEnrollment.  The backup image, if any, is from now on
   one of an earlier enrollment. *)
Start ==
    /\ MayStart
    /\ ~inProgress
    /\ inProgress' = TRUE
    /\ open' = TRUE
    /\ gallery' = EmptyGallery
    /\ touched' = 0
    /\ enrolled' = 0
    /\ tipped' = 0
    /\ lastTipped' = 0
    /\ contTip' = 0
    /\ good' = {}
    /\ backup' = IF backup = None THEN None ELSE Foreign
    /\ answer' = "started"
    /\ UNCHANGED <<packed, startFailed>>

\* enrolStart gave no session: the flag is set all the same.
StartFails ==
    /\ MayStart
    /\ ~inProgress
    /\ inProgress' = TRUE
    /\ startFailed' = TRUE
    /\ answer' = "failed"
    /\ UNCHANGED <<open, packed, gallery, counters, contTip, backup>>

\* The user has ten records already.
StartRefused ==
    /\ MayStart
    /\ ~inProgress
    /\ answer' = "refused"
    /\ UNCHANGED <<context, gallery, counters, contTip, backup>>

\* Already in progress: nothing is done, and the answer is success.
StartAgain ==
    /\ MayStart
    /\ inProgress
    /\ answer' = "started"
    /\ UNCHANGED <<context, gallery, counters, contTip, backup>>

-----------------------------------------------------------------------------
(* EngineAdapterUpdateEnrollment with a sample of the next touch.          *)

\* The framework goes on while it is told to.
MayUpdate == answer \in {"started", "more", "bad"}

Touch == touched + 1

\* The touch is late enough for a tip, and tips are left.
TipAllowed ==
    /\ enrolled + 1 \in TIP_FROM..TIP_TO
    /\ tipped < MAX_TIPS
    /\ contTip < MAX_CONT

\* The first of a row is taken out again and held as the backup image; an older
\* one is dropped.  Without memory nothing is held and the image stays in.
HoldTip(g) ==
    \/ backup' = Touch /\ gallery' = Deleted(g)
    \/ backup' = None /\ gallery' = g

\* Of the second both overlays are above the deletion thresholds.
WeighTip(g) ==
    /\ gallery' \in IF backup = None THEN {g} ELSE LessOverlay(g, Touch)
    /\ backup' = None

\* Of the second one is not.
RejoinTip(g) ==
    /\ gallery' \in WithBackup(g)
    /\ backup' = None

PlainTip(g) ==
    /\ gallery' = g
    /\ UNCHANGED backup

TipUpdate ==
    /\ MayUpdate
    /\ inProgress
    /\ open
    /\ TipAllowed
    /\ touched' = Touch
    /\ tipped' = tipped + 1
    /\ lastTipped' = Touch
    /\ contTip' = contTip + 1
    /\ \E how \in How :
        LET g == Added(gallery, Touch, how)
        IN  \/ CHOOSE_LESS /\ contTip' = 1 /\ HoldTip(g)
            \/ CHOOSE_LESS /\ contTip' = 2 /\ (WeighTip(g) \/ RejoinTip(g))
            \/ (~CHOOSE_LESS \/ contTip' # 2) /\ PlainTip(g)
    /\ answer' = "bad"
    /\ UNCHANGED <<context, enrolled, good>>

\* _AdapterCheckEnrollmentStatus on the state the update leaves.
Status(g, done) ==
    IF g.used < MaxImages /\ done < SAMPLES
    THEN /\ answer' = "more"
         /\ UNCHANGED packed
    ELSE \/ answer' = "ok" /\ packed' = {g.kept}
         \/ answer' = "nomem" /\ packed' = {}

\* Not a tip: a backup image comes back only right after a tip, and only on a
\* sensor of type 0xc.
GoodUpdate ==
    /\ MayUpdate
    /\ inProgress
    /\ open
    /\ touched' = Touch
    /\ enrolled' = enrolled + 1
    /\ good' = good \union {Touch}
    /\ contTip' = 0
    /\ \E how \in How :
        LET g == Added(gallery, Touch, how)
        IN  IF lastTipped # 0 /\ lastTipped = touched /\ CHOOSE_LESS /\ SENSOR_C
            THEN RejoinTip(g)
            ELSE PlainTip(g)
    /\ Status(gallery', enrolled')
    /\ UNCHANGED <<inProgress, open, startFailed, tipped, lastTipped>>

\* The matcher rejects the image.
BadUpdate ==
    /\ MayUpdate
    /\ inProgress
    /\ open
    /\ contTip' = 0
    /\ answer' = "bad"
    /\ UNCHANGED <<context, gallery, counters, backup>>

\* Mutant: the flag is left set.
BugDestroy ==
    /\ open' = FALSE
    /\ packed' = {}
    /\ UNCHANGED <<inProgress, startFailed>>

\* _AdapterDestroyEnrollmentTemplate, and the same in EngineAdapterClearContext:
\* the flag goes with the session.
Destroy ==
    /\ open' = FALSE
    /\ inProgress' = IF open THEN FALSE ELSE inProgress
    /\ packed' = {}
    /\ UNCHANGED startFailed

\* The matcher's error 0x83 ends the enrollment with the answer of a bad image.
FatalUpdate ==
    /\ MayUpdate
    /\ inProgress
    /\ open
    /\ Destroy
    /\ contTip' = 0
    /\ answer' = "bad"
    /\ UNCHANGED <<gallery, counters, backup>>

UpdateRefused ==
    /\ MayUpdate
    /\ ~inProgress
    /\ answer' = "refused"
    /\ UNCHANGED <<context, gallery, counters, contTip, backup>>

\* In progress without a session: the status is read through a null pointer.
UpdateCrashes ==
    /\ MayUpdate
    /\ inProgress
    /\ ~open
    /\ answer' = "crashed"
    /\ UNCHANGED <<context, gallery, counters, contTip, backup>>

-----------------------------------------------------------------------------
(* The other handlers.                                                     *)

GetEnrollmentStatus ==
    /\ MayUpdate \/ answer = "nomem"
    /\ inProgress
    /\ open
    /\ Status(gallery, enrolled)
    /\ UNCHANGED <<inProgress, open, startFailed, gallery, counters, contTip, backup>>

Ended == answer # "crashed"

DiscardEnrollment ==
    /\ Ended
    /\ inProgress
    /\ Destroy
    /\ answer' = "idle"
    /\ UNCHANGED <<gallery, counters, contTip, backup>>

ClearContext ==
    /\ Ended
    /\ Destroy
    /\ answer' = "idle"
    /\ UNCHANGED <<gallery, counters, contTip, backup>>

\* Detach frees the context, Attach makes a new one; the globals stay.
Reattach ==
    /\ Ended
    /\ inProgress' = FALSE
    /\ open' = FALSE
    /\ packed' = {}
    /\ startFailed' = FALSE
    /\ answer' = "idle"
    /\ UNCHANGED <<gallery, counters, contTip, backup>>

\* The host process is started again after a crash.
Restart ==
    /\ ~Ended
    /\ inProgress' = FALSE
    /\ open' = FALSE
    /\ gallery' = EmptyGallery
    /\ touched' = 0
    /\ enrolled' = 0
    /\ tipped' = 0
    /\ lastTipped' = 0
    /\ contTip' = 0
    /\ backup' = None
    /\ packed' = {}
    /\ answer' = "idle"
    /\ good' = {}
    /\ startFailed' = FALSE

Next ==
    \/ Start
    \/ StartFails
    \/ StartRefused
    \/ StartAgain
    \/ TipUpdate
    \/ GoodUpdate
    \/ BadUpdate
    \/ FatalUpdate
    \/ UpdateRefused
    \/ UpdateCrashes
    \/ GetEnrollmentStatus
    \/ DiscardEnrollment
    \/ ClearContext
    \/ Reattach
    \/ Restart

Spec == Init /\ [][Next]_vars

-----------------------------------------------------------------------------
(* What holds.                                                             *)

Answers == {"idle", "started", "failed", "refused", "more", "bad", "ok",
            "nomem", "crashed"}

TypeOK ==
    /\ inProgress \in BOOLEAN
    /\ open \in BOOLEAN
    /\ gallery \in Gallery
    /\ touched \in 0..MaxImages
    /\ enrolled \in 0..SAMPLES
    /\ tipped \in 0..MAX_TIPS
    /\ lastTipped \in 0..MaxImages
    /\ contTip \in 0..MAX_CONT
    /\ backup \in Image \union {None}
    /\ packed \in SUBSET Seq(Image)
    /\ answer \in Answers
    /\ good \subseteq 1..MaxImages
    /\ startFailed \in BOOLEAN

\* A session is open exactly while an enrollment is in progress, except after
\* the matcher gave none: only then does a handler use a null session (no other
\* way through Destroy, ClearContext or the error 0x83 leads there).
SessionFlag ==
    /\ open => inProgress
    /\ inProgress /\ ~open => startFailed
    /\ answer = "crashed" => startFailed

\* However tips are held, weighed and put back, no image is in the session
\* twice, and at most one of an earlier enrollment is.
NoImageTwice ==
    \A i, j \in 1..Len(gallery.kept) : gallery.kept[i] = gallery.kept[j] => i = j

\* The number by which get_enroll_avg_result divides is the number of images the
\* session counts, unless it was full or an image could not be put back.
ImagesCounted ==
    gallery.odd \intersect {"full", "unrestored"} = {}
        => gallery.images = gallery.used

\* While images are still to be enrolled the session has room for them and for
\* every tip that is left.  It fills up early, and ends the enrollment early,
\* only with an image of an earlier enrollment in it.
FullExplained ==
    /\ "full" \in gallery.odd => "adopted" \in gallery.odd
    /\ open /\ packed # {} /\ enrolled < SAMPLES => "adopted" \in gallery.odd

\* Weighing the tips never costs an image that was counted as enrolled: the
\* image taken out is the last one, and that is a tip.
EnrolledImagesKept ==
    gallery.odd \intersect {"full", "empty"} = {} => good \subseteq Ids(gallery)

\* Of the tips in a row one is in the session or held, unless an image could
\* not be put back.
TippedRunKeepsOne ==
    contTip > 0 /\ gallery.odd \intersect {"full", "empty", "unrestored"} = {}
        => \E n \in (touched - contTip + 1)..touched : n \in Ids(gallery) \union {backup}

\* The template handed out is that of the session that is open.
PackedBelongs == packed # {} => open /\ packed = {gallery.kept}

\* Each accepted image is enrolled or one of at most MAX_TIPS tips: the user is
\* asked for at most SAMPLES + MAX_TIPS of them, and the counters agree.
TouchesBounded ==
    /\ touched = enrolled + tipped
    /\ touched <= SAMPLES + MAX_TIPS

=============================================================================
