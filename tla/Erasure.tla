-------------------------------- MODULE Erasure --------------------------------
(***************************************************************************)
(* Deleting one customer's account: core/src/write/privacy-erasure.ts, and *)
(* the handling of the requests for it in write/privacy-requests.ts.       *)
(*                                                                         *)
(* An eraser is one call at work: a customer confirming with a code, a     *)
(* shop manager moving a request along, "erase now", or the daily job.     *)
(* What eraseCustomer reads before its transaction is one step, the        *)
(* transaction another, the removal of photos from storage a third.        *)
(***************************************************************************)
EXTENDS Integers, FiniteSets

CONSTANTS
    Requests,         \* privacy requests of type ERASURE that may be made
    Erasers,          \* calls at work
    HandStatuses,     \* bound: the statuses the shop sets by hand in the instance
    ErasureOverlap,   \* may anything else commit between an erasure's checks and its transaction?
    MaxErasureFaults  \* bound: deaths, and photos that storage would not remove

StandingStatuses == {"OPEN", "IN_PROGRESS", "SCHEDULED"}
ClosedStatuses == {"DONE", "REJECTED", "CANCELLED"}

ASSUME ErasureAssumption ==
    /\ HandStatuses \subseteq StandingStatuses \cup ClosedStatuses
    /\ ErasureOverlap \in BOOLEAN
    /\ MaxErasureFaults \in Nat

VARIABLES
    request,       \* PrivacyRequest: status, and whether its week is up
    erased,        \* Customer.erasedAt
    owing,         \* an order is open or unpaid, or a payment in progress
    photo,         \* a photo the customer sent to support: in storage, and named by its message or not
    eraser,        \* what each call is doing
    erasureFaults  \* faults so far

erasureVars == <<request, erased, owing, photo, eraser, erasureFaults>>

\* What a call holds: its request, the rest of the job's list, the status it
\* will write, and whether it saw the photo.
NoErasing == [at |-> "idle", request |-> "none", rest |-> {}, to |-> "none", sawPhoto |-> FALSE]

ErasureInit ==
    /\ request = [r \in Requests |-> [status |-> "none", due |-> FALSE]]
    /\ erased = FALSE
    /\ owing = FALSE
    /\ photo = "none"
    /\ eraser = [e \in Erasers |-> NoErasing]
    /\ erasureFaults = 0

\* Nobody is between what eraseCustomer reads and what it writes.
ErasureQuiet == ErasureOverlap \/ \A e \in Erasers : eraser[e].at \notin {"read", "erase"}

ErasureFault == erasureFaults < MaxErasureFaults /\ erasureFaults' = erasureFaults + 1

Standing(r) == request[r].status \in StandingStatuses

-----------------------------------------------------------------------------
(* The customer.                                                           *)

\* Orders and payments begin and end; an account that is gone starts none.
OwingChanges ==
    /\ ErasureQuiet
    /\ ~ erased \/ owing
    /\ owing' = ~ owing
    /\ UNCHANGED <<request, erased, photo, eraser, erasureFaults>>

SendPhoto ==
    /\ ErasureQuiet
    /\ ~ erased /\ photo = "none"
    /\ photo' = "named"
    /\ UNCHANGED <<request, erased, owing, eraser, erasureFaults>>

\* confirmMyErasure, its code spent: nothing owing, and none scheduled yet.
OpenConfirmation(e) ==
    /\ ErasureQuiet
    /\ eraser[e] = NoErasing
    /\ ~ erased /\ ~ owing
    /\ \A r \in Requests : request[r].status # "SCHEDULED"
    /\ \E r \in Requests : request[r].status = "none"
    /\ eraser' = [eraser EXCEPT ![e].at = "schedule"]
    /\ UNCHANGED <<request, erased, owing, photo, erasureFaults>>

ScheduleErasure(e, r) ==
    /\ eraser[e].at = "schedule"
    /\ ErasureQuiet
    /\ request[r].status = "none"
    /\ request' = [request EXCEPT ![r].status = "SCHEDULED"]
    /\ eraser' = [eraser EXCEPT ![e] = NoErasing]
    /\ UNCHANGED <<erased, owing, photo, erasureFaults>>

\* cancelMyErasure: what is scheduled, in one conditional update.
CancelMyErasure ==
    /\ ErasureQuiet
    /\ ~ erased
    /\ \E r \in Requests : request[r].status = "SCHEDULED"
    /\ request' = [r \in Requests |-> IF request[r].status = "SCHEDULED"
                                      THEN [request[r] EXCEPT !.status = "CANCELLED"] ELSE request[r]]
    /\ UNCHANGED <<erased, owing, photo, eraser, erasureFaults>>

\* cancelMyPrivacyRequest: one the shop recorded and has not started on.
WithdrawRequest(r) ==
    /\ ErasureQuiet
    /\ ~ erased
    /\ request[r].status = "OPEN"
    /\ request' = [request EXCEPT ![r].status = "CANCELLED"]
    /\ UNCHANGED <<erased, owing, photo, eraser, erasureFaults>>

-----------------------------------------------------------------------------
(* The shop.                                                               *)

RecordRequest(r) ==
    /\ ErasureQuiet
    /\ request[r].status = "none" /\ ~ erased
    /\ request' = [request EXCEPT ![r].status = "OPEN"]
    /\ UNCHANGED <<erased, owing, photo, eraser, erasureFaults>>

\* A deletion that is scheduled is not moved by hand.
MovedByHand(r, status) == request[r].status \notin {"none", "SCHEDULED"} /\ status # "SCHEDULED"

\* updatePrivacyRequest: read, and then written whatever it is by then.
OpenUpdate(e, r, status) ==
    /\ ErasureQuiet
    /\ eraser[e] = NoErasing
    /\ MovedByHand(r, status)
    /\ eraser' = [eraser EXCEPT ![e] = [NoErasing EXCEPT !.at = "update", !.request = r, !.to = status]]
    /\ UNCHANGED <<request, erased, owing, photo, erasureFaults>>

UpdateRequest(e) ==
    /\ eraser[e].at = "update"
    /\ ErasureQuiet
    /\ request' = [request EXCEPT ![eraser[e].request].status = eraser[e].to]
    /\ eraser' = [eraser EXCEPT ![e] = NoErasing]
    /\ UNCHANGED <<erased, owing, photo, erasureFaults>>

\* eraseFromRequest.
EraseNow(e, r) ==
    /\ ErasureQuiet
    /\ eraser[e] = NoErasing
    /\ Standing(r)
    /\ eraser' = [eraser EXCEPT ![e] = [NoErasing EXCEPT !.at = "read", !.request = r]]
    /\ UNCHANGED <<request, erased, owing, photo, erasureFaults>>

-----------------------------------------------------------------------------
(* The daily job, and eraseCustomer itself.                                *)

WeekIsUp(r) ==
    /\ request[r].status = "SCHEDULED" /\ ~ request[r].due
    /\ request' = [request EXCEPT ![r].due = TRUE]
    /\ UNCHANGED <<erased, owing, photo, eraser, erasureFaults>>

\* Mutants: whatever was scheduled once; and what the shop may move by hand.
MutantDueErasures == {r \in Requests : request[r].due}

DueErasures == {r \in Requests : request[r].due /\ request[r].status = "SCHEDULED"}

NextErasure(rest) ==
    IF rest = {} THEN {NoErasing}
    ELSE {[NoErasing EXCEPT !.at = "read", !.request = r, !.rest = rest \ {r}] : r \in rest}

RunDueErasures(e) ==
    /\ ErasureQuiet
    /\ eraser[e] = NoErasing
    /\ DueErasures # {}
    /\ \E step \in NextErasure(DueErasures) : eraser' = [eraser EXCEPT ![e] = step]
    /\ UNCHANGED <<request, erased, owing, photo, erasureFaults>>

EraserGoesOn(e) == \E step \in NextErasure(eraser[e].rest) : eraser' = [eraser EXCEPT ![e] = step]

\* Mutant: nothing is in the way.
MutantErasureBlocked == FALSE

ErasureBlocked == owing

\* An account already erased is left alone, and so is the request; one that is
\* blocked stays as it is.  Between this and the transaction the gateways are
\* asked to forget their cards.
ReadCustomer(e) ==
    /\ eraser[e].at = "read"
    /\ IF erased \/ ErasureBlocked THEN EraserGoesOn(e)
       ELSE eraser' = [eraser EXCEPT ![e].at = "erase", ![e].sawPhoto = (photo = "named")]
    /\ UNCHANGED <<request, erased, owing, photo, erasureFaults>>

\* Everything that names the customer goes, and the request is closed with it.
EraseCustomer(e) ==
    /\ eraser[e].at = "erase"
    /\ erased' = TRUE
    /\ request' = [request EXCEPT ![eraser[e].request].status = "DONE"]
    /\ photo' = IF photo = "named" THEN "loose" ELSE photo
    /\ eraser' = [eraser EXCEPT ![e].at = "photos"]
    /\ UNCHANGED <<owing, erasureFaults>>

DeletePhotos(e) ==
    /\ eraser[e].at = "photos"
    /\ EraserGoesOn(e)
    /\ \/ photo' = (IF eraser[e].sawPhoto THEN "none" ELSE photo) /\ UNCHANGED erasureFaults
       \/ ErasureFault /\ UNCHANGED photo
    /\ UNCHANGED <<request, erased, owing>>

EraserDies(e) ==
    /\ eraser[e] # NoErasing
    /\ ErasureFault
    /\ eraser' = [eraser EXCEPT ![e] = NoErasing]
    /\ UNCHANGED <<request, erased, owing, photo>>

EraserMoves(e) == ReadCustomer(e) \/ EraseCustomer(e) \/ DeletePhotos(e)

ErasureNext ==
    \/ OwingChanges \/ SendPhoto \/ CancelMyErasure
    \/ \E r \in Requests : WithdrawRequest(r) \/ RecordRequest(r) \/ WeekIsUp(r)
    \/ \E e \in Erasers : \/ OpenConfirmation(e) \/ UpdateRequest(e) \/ RunDueErasures(e)
                          \/ EraserMoves(e) \/ EraserDies(e)
    \/ \E e \in Erasers, r \in Requests : ScheduleErasure(e, r) \/ EraseNow(e, r)
    \/ \E e \in Erasers, r \in Requests, status \in HandStatuses : OpenUpdate(e, r, status)

ErasureSpec == ErasureInit /\ [][ErasureNext]_erasureVars

\* Time passes and the job is run every day; what the customer and the shop do
\* with their screens they may do or not, but a call that began goes on.
ErasureFairness ==
    /\ \A r \in Requests : WF_erasureVars(WeekIsUp(r))
    /\ \A e \in Erasers : WF_erasureVars(EraserMoves(e) \/ UpdateRequest(e) \/ \E r \in Requests : ScheduleErasure(e, r))
    /\ SF_erasureVars(\E e \in Erasers : RunDueErasures(e))

-----------------------------------------------------------------------------
(* What deletion promises.                                                 *)

ErasureTypeOK ==
    /\ request \in [Requests -> [status : {"none"} \cup StandingStatuses \cup ClosedStatuses, due : BOOLEAN]]
    /\ erased \in BOOLEAN /\ owing \in BOOLEAN
    /\ photo \in {"none", "named", "loose"}
    /\ eraser \in [Erasers ->
          [at : {"idle", "schedule", "update", "read", "erase", "photos"}, request : Requests \cup {"none"},
           rest : SUBSET Requests, to : {"none"} \cup StandingStatuses \cup ClosedStatuses, sawPhoto : BOOLEAN]]
    /\ erasureFaults \in Nat

\* No account goes while something is owed on it, by whichever path it goes,
\* calls following one another (erasureBlockers).
ErasedOwesNothing == erased => ~ owing

\* An account goes only for a request that still stands: not one cancelled or
\* declined meanwhile ("Changing their mind, any time before it runs").
ErasedOnRequest == [][erased' # erased => \E r \in Requests : Standing(r)]_erasureVars

\* A deletion that was scheduled is done only when the account is gone ("so a
\* request is never done for an account that is still there").
DoneByErasing ==
    [][\A r \in Requests : request[r].status = "SCHEDULED" /\ request'[r].status = "DONE" => erased']_erasureVars

\* A photo whose message no longer names it is about to go from storage, unless
\* the call died or storage would not (deleteObjects after the transaction).
LoosePhotosGo == photo = "loose" => erasureFaults > 0 \/ \E e \in Erasers : eraser[e].at = "photos"

\* What is scheduled is carried out or called off in the end, unless there is
\* something in the way whenever it is looked at (runDueErasures).
ScheduledIsCarriedOut ==
    \A r \in Requests : request[r].status = "SCHEDULED" ~> request[r].status # "SCHEDULED" \/ erased \/ owing
-----------------------------------------------------------------------------
(* Why it holds: between what an erasure reads and what it writes nothing  *)
(* else commits.                                                           *)

\* A call that is about to erase found nothing owing; the requests it works
\* through still stand, unless the account is gone already.
ErasingStands ==
    \A e \in Erasers :
        /\ eraser[e].at = "erase" => ~ owing
        /\ eraser[e].at \in {"read", "erase"} /\ ~ erased =>
              /\ eraser[e].request \in Requests /\ Standing(eraser[e].request)
              /\ \A r \in eraser[e].rest : Standing(r)
        /\ eraser[e].at \in {"read", "erase"} => eraser[e].request \in Requests
        /\ eraser[e].at = "photos" => erased

\* Only a call that has a list keeps one.
ListsAreOfTheJob ==
    \A e \in Erasers : eraser[e].at \notin {"read", "erase", "photos"} => eraser[e].rest = {}

\* A photo that is there when its message goes was seen before.
PhotoSeen == \A e \in Erasers : eraser[e].at = "erase" /\ photo = "named" => eraser[e].sawPhoto

LooseWasSeen ==
    photo = "loose" => erasureFaults > 0 \/ \E e \in Erasers : eraser[e].at = "photos" /\ eraser[e].sawPhoto

\* What the shop moves by hand is not scheduled, and never becomes so.
UpdatesByHand ==
    \A e \in Erasers : eraser[e].at = "update" =>
        /\ eraser[e].request \in Requests
        /\ request[eraser[e].request].status \notin {"none", "SCHEDULED"}
        /\ eraser[e].to \notin {"none", "SCHEDULED"}

ErasureInv ==
    /\ ErasureTypeOK /\ ErasingStands /\ ListsAreOfTheJob /\ PhotoSeen /\ LooseWasSeen /\ UpdatesByHand
    /\ ErasedOwesNothing
=============================================================================
