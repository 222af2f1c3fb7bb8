----------------------------- MODULE MediaLibrary -----------------------------
(***************************************************************************)
(* Files of the media library and where they are used: the two-step upload *)
(* of core/src/write/uploads.ts, deletion by hand of write/media.ts, the   *)
(* nightly collection of jobs.ts, and the screens that attach a file.      *)
(*                                                                         *)
(* A deletion is three steps: the rows and their uses are read, the rows   *)
(* go, the objects go.  What a deleted row does to its uses is the foreign *)
(* key's business (database/prisma/schema.prisma).                         *)
(***************************************************************************)
EXTENDS Integers, FiniteSets

CONSTANTS
    Files,           \* media rows that may come to be
    UseKinds,        \* the kinds of use the instance allows
    Cleaners,        \* deletions and passes of the collection at work
    MediaOverlap,    \* may a file be attached or confirmed while a deletion is at work?
    MaxStoreFaults   \* bound: deletions that die, or whose objects cannot be removed

\* Uses that a deletion looks for, and that look for a READY file themselves.
CountedUses == {"product", "category", "brand", "banner", "review"}
ReadyUses == {"banner", "review", "blog", "badge"}

ASSUME MediaAssumption ==
    /\ UseKinds \subseteq CountedUses \cup ReadyUses
    /\ MediaOverlap \in BOOLEAN
    /\ MaxStoreFaults \in Nat

VARIABLES
    media,       \* Media: the row of each file; files are never used twice, their keys being ULIDs
    stored,      \* the files whose object is in the bucket
    uses,        \* what refers to each file
    cleaner,     \* what each deletion is doing
    storeFaults  \* faults so far

mediaVars == <<media, stored, uses, cleaner, storeFaults>>

\* age: younger than a day, than a week, or older.
MediaRows == [status : {"none", "PENDING", "READY", "FAILED", "deleted"}, age : {"new", "day", "week"}]

NoCleaning == [at |-> "idle", doomed |-> {}]

MediaInit ==
    /\ media = [f \in Files |-> [status |-> "none", age |-> "new"]]
    /\ stored = {}
    /\ uses = [f \in Files |-> {}]
    /\ cleaner = [c \in Cleaners |-> NoCleaning]
    /\ storeFaults = 0

Cleaning == \E c \in Cleaners : cleaner[c] # NoCleaning

MayTouchMedia == MediaOverlap \/ ~ Cleaning

StoreFault == storeFaults < MaxStoreFaults /\ storeFaults' = storeFaults + 1

Present(f) == media[f].status \in {"PENDING", "READY", "FAILED"}

-----------------------------------------------------------------------------

PresignMedia(f) ==
    /\ media[f].status = "none"
    /\ media' = [media EXCEPT ![f].status = "PENDING"]
    /\ UNCHANGED <<stored, uses, cleaner, storeFaults>>

\* The browser puts the bytes in the bucket, at an address that dies young,
\* whatever has become of the row.
BrowserUploads(f) ==
    /\ media[f].status \in {"PENDING", "FAILED", "deleted"} /\ media[f].age = "new"
    /\ f \notin stored
    /\ stored' = stored \cup {f}
    /\ UNCHANGED <<media, uses, cleaner, storeFaults>>

Landed(f) == f \in stored

\* completeMediaUpload asks the bucket, not the browser; a file of another size
\* is FAILED too.
CompleteMedia(f) ==
    /\ MayTouchMedia
    /\ Present(f)
    /\ media' = [media EXCEPT ![f].status = IF Landed(f) THEN "READY" ELSE "FAILED"]
    /\ UNCHANGED <<stored, uses, cleaner, storeFaults>>

\* The image fetcher of an import stores the object and then makes a READY row.
FetchedImage(f) ==
    /\ media[f].status = "none"
    /\ stored' = stored \cup {f}
    /\ media' = [media EXCEPT ![f].status = "READY"]
    /\ UNCHANGED <<uses, cleaner, storeFaults>>

\* Some screens ask for a READY file; products, categories and brands offer
\* only those and ask for nothing.
AttachMedia(f, kind) ==
    /\ MayTouchMedia
    /\ media[f].status = "READY"
    /\ kind \notin uses[f]
    /\ uses' = [uses EXCEPT ![f] = @ \cup {kind}]
    /\ UNCHANGED <<media, stored, cleaner, storeFaults>>

DetachMedia(f, kind) ==
    /\ kind \in uses[f]
    /\ uses' = [uses EXCEPT ![f] = @ \ {kind}]
    /\ UNCHANGED <<media, stored, cleaner, storeFaults>>

CountedAsUsed(f) == uses[f] \cap CountedUses # {}

StalePendingMedia == {f \in Files : media[f].status \in {"PENDING", "FAILED"} /\ media[f].age # "new"}

UnreferencedMedia == {f \in Files : media[f] = [status |-> "READY", age |-> "week"] /\ ~ CountedAsUsed(f)}

StartCleaning(c, doomed) ==
    /\ MediaOverlap \/ ~ Cleaning
    /\ cleaner[c] = NoCleaning
    /\ doomed # {}
    /\ cleaner' = [cleaner EXCEPT ![c] = [at |-> "rows", doomed |-> doomed]]
    /\ UNCHANGED <<media, stored, uses, storeFaults>>

\* The nightly pass: uploads a day old that were never confirmed, and files a
\* week old that nothing it looks at uses.
StartCollection(c) == StartCleaning(c, StalePendingMedia \cup UnreferencedMedia)

\* One file, or many of which the used ones are passed over.
StartDeletion(c) ==
    \E chosen \in SUBSET {f \in Files : Present(f)} :
        StartCleaning(c, {f \in chosen : ~ CountedAsUsed(f)})

\* A banner or a review keeps its file: the whole statement fails.
HeldByForeignKey(f) == uses[f] \cap {"banner", "review"} # {}

\* Uses that hold a foreign key go with the row, or let go of it; a badge is an
\* id in a setting and stays.
DeleteRows(c) ==
    /\ cleaner[c].at = "rows"
    /\ LET gone == {f \in cleaner[c].doomed : Present(f)}
       IN  IF \E f \in gone : HeldByForeignKey(f)
           THEN /\ cleaner' = [cleaner EXCEPT ![c] = NoCleaning]
                /\ UNCHANGED <<media, uses>>
           ELSE /\ media' = [f \in Files |-> IF f \in gone THEN [media[f] EXCEPT !.status = "deleted"]
                                             ELSE media[f]]
                /\ uses' = [f \in Files |-> IF f \in gone THEN uses[f] \cap {"badge"} ELSE uses[f]]
                /\ cleaner' = [cleaner EXCEPT ![c].at = "objects"]
    /\ UNCHANGED <<stored, storeFaults>>

DeleteObjects(c) ==
    /\ cleaner[c].at = "objects"
    /\ \/ stored' = stored \ cleaner[c].doomed /\ UNCHANGED storeFaults
       \/ StoreFault /\ UNCHANGED stored
    /\ cleaner' = [cleaner EXCEPT ![c] = NoCleaning]
    /\ UNCHANGED <<media, uses>>

CleanerDies(c) ==
    /\ cleaner[c] # NoCleaning
    /\ StoreFault
    /\ cleaner' = [cleaner EXCEPT ![c] = NoCleaning]
    /\ UNCHANGED <<media, stored, uses>>

MediaAges(f) ==
    /\ Present(f)
    /\ \/ media[f].age = "new" /\ media' = [media EXCEPT ![f].age = "day"]
       \/ media[f].age = "day" /\ media' = [media EXCEPT ![f].age = "week"]
    /\ UNCHANGED <<stored, uses, cleaner, storeFaults>>

MediaNext ==
    \/ \E f \in Files : \/ PresignMedia(f) \/ BrowserUploads(f) \/ CompleteMedia(f)
                        \/ FetchedImage(f) \/ MediaAges(f)
    \/ \E f \in Files, kind \in UseKinds : AttachMedia(f, kind) \/ DetachMedia(f, kind)
    \/ \E c \in Cleaners :
          StartCollection(c) \/ StartDeletion(c) \/ DeleteRows(c) \/ DeleteObjects(c) \/ CleanerDies(c)

MediaSpec == MediaInit /\ [][MediaNext]_mediaVars

\* Time passes, and the collection is run every night, whatever is deleted by
\* hand meanwhile; uploads may stop anywhere.
MediaFairness ==
    /\ \A f \in Files : WF_mediaVars(MediaAges(f))
    /\ \A c \in Cleaners : WF_mediaVars(DeleteRows(c) \/ DeleteObjects(c))
    /\ SF_mediaVars(\E c \in Cleaners : StartCollection(c))

-----------------------------------------------------------------------------
(* What the library promises.                                              *)

MediaTypeOK ==
    /\ media \in [Files -> MediaRows]
    /\ stored \subseteq Files
    /\ uses \in [Files -> SUBSET UseKinds]
    /\ cleaner \in [Cleaners -> [at : {"idle", "rows", "objects"}, doomed : SUBSET Files]]
    /\ storeFaults \in Nat

\* Nothing a customer looks at points at a file that is not there, whichever
\* step a deletion dies at ("Rows first, objects second").
NoBrokenImage == \A f \in Files : uses[f] # {} => Present(f) /\ f \in stored

\* A file goes only when nothing refers to it ("Anything currently referenced
\* is never touched", jobs.ts; "refuses while anything still references a
\* file", media.ts).
ReferencedIsKept ==
    [][\A f \in Files : Present(f) /\ uses[f] # {} => media'[f].status # "deleted"]_mediaVars

\* An upload that is never confirmed does not stay (the reason the upload is a
\* handshake of two steps).
UnconfirmedIsSwept ==
    \A f \in Files : media[f].status \in {"PENDING", "FAILED"} ~> media[f].status \in {"deleted", "READY"}
-----------------------------------------------------------------------------
(* Why it holds: nothing is attached while a deletion is at work, and what *)
(* it deletes was used by nothing when it began.                           *)

OneCleaner == \A c, d \in Cleaners : cleaner[c].at # "idle" /\ cleaner[d].at # "idle" => c = d

\* What is to be deleted is used nowhere, and its object goes after its row.
DoomedIsUnused ==
    \A c \in Cleaners : \A f \in cleaner[c].doomed :
        /\ cleaner[c].at = "rows" => uses[f] = {} /\ media[f].status # "none"
        /\ cleaner[c].at = "objects" => uses[f] = {} /\ media[f].status = "deleted"

\* A row that is READY has its bytes, and only such a row is attached.
ReadyIsStored ==
    \A f \in Files : /\ media[f].status = "READY" => f \in stored
                     /\ uses[f] # {} => media[f].status = "READY"

MediaInv == MediaTypeOK /\ OneCleaner /\ DoomedIsUnused /\ ReadyIsStored
=============================================================================
