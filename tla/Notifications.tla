---------------------------- MODULE Notifications ----------------------------
(***************************************************************************)
(* The WhatsApp queue of core/src/notify/dispatch.ts: a row per moment,    *)
(* keyed by its dedupeKey, written before AiSensy is called; one call; the *)
(* row updated with the answer; and the retry job of /cron/notifications.  *)
(*                                                                         *)
(* A sender is a request or a pass of the job.  Each await is a step: the  *)
(* row is written, the provider is called, the answer is recorded, and a   *)
(* final failure is a further update.  A sender may die at any of them.    *)
(***************************************************************************)
EXTENDS Integers, FiniteSets

CONSTANTS
    Moments,         \* dedupe keys: what may be told to somebody, once
    Codes,           \* those of them that carry a sign-in code (maskParams)
    Refused,         \* those whose recipient may not be sent to (skipReason)
    Senders,         \* requests and passes at work
    MaxAttempts,     \* MAX_ATTEMPTS
    NotifyOverlap,   \* may two passes, or a pass and a slow first attempt, overlap?
    MaxNotifyFaults  \* bound: crashes and calls that fail, in all

ASSUME NotificationsAssumption ==
    /\ Codes \subseteq Moments
    /\ Refused \subseteq Moments
    /\ MaxAttempts \in Nat \ {0}
    /\ NotifyOverlap \in BOOLEAN
    /\ MaxNotifyFaults \in Nat

VARIABLES
    messages,         \* NotificationMessage, one per moment
    accepted,     \* how often AiSensy took each moment's message
    sender,       \* what each sender is doing
    notifyFaults  \* faults so far

notifyVars == <<messages, accepted, sender, notifyFaults>>

MessageStatuses == {"none", "QUEUED", "SENT", "FAILED", "SKIPPED"}

\* age: younger than the job's minute, retried by it, or past its day.
MessageAges == {"fresh", "due", "stale"}

\* What a sender holds: the moment, what is left of a pass's list, and the
\* answer it has not recorded yet.
SenderWith(kind, at, m, rest, answer) ==
    [kind |-> kind, at |-> at, moment |-> m, rest |-> rest, answer |-> answer]

Resting == SenderWith("none", "rest", "none", {}, "none")

NotifyInit ==
    /\ messages = [m \in Moments |-> [status |-> "none", attempts |-> 0, age |-> "fresh"]]
    /\ accepted = [m \in Moments |-> 0]
    /\ sender = [s \in Senders |-> Resting]
    /\ notifyFaults = 0

RetryPasses == {s \in Senders : sender[s].kind = "pass"}

NotifyFault == notifyFaults < MaxNotifyFaults /\ notifyFaults' = notifyFaults + 1

-----------------------------------------------------------------------------

\* deliver, up to the call: the unique key turns away a moment already told.
Notify(s, m) ==
    /\ sender[s] = Resting
    /\ messages[m].status = "none"
    /\ messages' = [messages EXCEPT ![m].status = IF m \in Refused THEN "SKIPPED" ELSE "QUEUED"]
    /\ sender' = IF m \in Refused THEN sender
                 ELSE [sender EXCEPT ![s] = SenderWith("first", "call", m, {}, "none")]
    /\ UNCHANGED <<accepted, notifyFaults>>

\* Mutant: codes are tried again like any message.
MutantListCodes ==
    {m \in Moments : /\ messages[m].status = "QUEUED" /\ messages[m].age = "due"
                     /\ messages[m].attempts < MaxAttempts}

\* What a pass lists.
DueMessages == {m \in Moments :
          /\ messages[m].status = "QUEUED"
          /\ messages[m].attempts < MaxAttempts
          /\ messages[m].age = "due"
          /\ m \notin Codes}

NextOfPass(rest) ==
    IF rest = {} THEN {SenderWith("pass", "close", "none", {}, "none")}
    ELSE {SenderWith("pass", "call", m, rest \ {m}, "none") : m \in rest}

StartRetryPass(s) ==
    /\ sender[s] = Resting
    /\ NotifyOverlap \/ RetryPasses = {}
    /\ \E step \in NextOfPass(DueMessages) : sender' = [sender EXCEPT ![s] = step]
    /\ UNCHANGED <<messages, accepted, notifyFaults>>

\* The call: taken and answered, taken and the answer lost, or refused for a
\* reason that may pass (a timeout, a 5xx) or will not (a 4xx).
CallAisensy(s) ==
    /\ sender[s].at = "call"
    /\ LET m == sender[s].moment
       IN  \/ /\ accepted' = [accepted EXCEPT ![m] = @ + 1]
              /\ sender' = [sender EXCEPT ![s].at = "record", ![s].answer = "ok"]
              /\ UNCHANGED notifyFaults
           \/ /\ NotifyFault
              /\ accepted' = [accepted EXCEPT ![m] = @ + 1]
              /\ sender' = [sender EXCEPT ![s].at = "record", ![s].answer = "transient"]
           \/ /\ NotifyFault
              /\ \E answer \in {"transient", "permanent"} :
                    sender' = [sender EXCEPT ![s].at = "record", ![s].answer = answer]
              /\ UNCHANGED accepted
    /\ UNCHANGED messages

\* A first attempt is done; a pass turns to the next row of its list.
SenderGoesOn(s) ==
    IF sender[s].kind = "first" THEN sender' = [sender EXCEPT ![s] = Resting]
    ELSE \E step \in NextOfPass(sender[s].rest) : sender' = [sender EXCEPT ![s] = step]

RecordSent(s) ==
    /\ sender[s].at = "record" /\ sender[s].answer = "ok"
    /\ messages' = [messages EXCEPT ![sender[s].moment].status = "SENT",
                            ![sender[s].moment].attempts = @ + 1]
    /\ SenderGoesOn(s)
    /\ UNCHANGED <<accepted, notifyFaults>>

\* A sign-in code is never left for the job: it is masked in the row.
WorthAnother(s) ==
    /\ sender[s].answer = "transient"
    /\ ~ (sender[s].kind = "first" /\ sender[s].moment \in Codes)
    /\ messages[sender[s].moment].attempts + 1 < MaxAttempts

RecordFailure(s) ==
    /\ sender[s].at = "record" /\ sender[s].answer # "ok"
    /\ messages' = [messages EXCEPT ![sender[s].moment].attempts = @ + 1]
    /\ IF WorthAnother(s) THEN SenderGoesOn(s)
       ELSE sender' = [sender EXCEPT ![s].at = "fail"]
    /\ UNCHANGED <<accepted, notifyFaults>>

MarkMessageFailed(s) ==
    /\ sender[s].at = "fail"
    /\ messages' = [messages EXCEPT ![sender[s].moment].status = "FAILED"]
    /\ SenderGoesOn(s)
    /\ UNCHANGED <<accepted, notifyFaults>>

StaleMessages == {m \in Moments : messages[m].status = "QUEUED" /\ messages[m].age = "stale"}

\* The end of a pass: what is a day old is closed rather than sent late.
CloseStaleMessages(s) ==
    /\ sender[s].at = "close"
    /\ messages' = [m \in Moments |-> IF m \in StaleMessages THEN [messages[m] EXCEPT !.status = "FAILED"]
                                  ELSE messages[m]]
    /\ sender' = [sender EXCEPT ![s] = Resting]
    /\ UNCHANGED <<accepted, notifyFaults>>

SenderDies(s) ==
    /\ sender[s] # Resting
    /\ NotifyFault
    /\ sender' = [sender EXCEPT ![s] = Resting]
    /\ UNCHANGED <<messages, accepted>>

\* A minute passes for a row, and then a day.  A call has ten seconds, so a
\* first attempt is over within the minute unless its process is held up.
MessageGrowsOld(m) ==
    /\ messages[m].status # "none"
    /\ NotifyOverlap \/ \A s \in Senders : sender[s].moment # m
    /\ \/ messages[m].age = "fresh" /\ messages' = [messages EXCEPT ![m].age = "due"]
       \/ messages[m].age = "due" /\ messages' = [messages EXCEPT ![m].age = "stale"]
    /\ UNCHANGED <<accepted, sender, notifyFaults>>

SenderMoves(s) == CallAisensy(s) \/ RecordSent(s) \/ RecordFailure(s) \/ MarkMessageFailed(s) \/ CloseStaleMessages(s)

NotifyNext ==
    \/ \E s \in Senders, m \in Moments : Notify(s, m)
    \/ \E s \in Senders : StartRetryPass(s) \/ SenderMoves(s) \/ SenderDies(s)
    \/ \E m \in Moments : MessageGrowsOld(m)

NotifySpec == NotifyInit /\ [][NotifyNext]_notifyVars

\* Calls are answered or time out, time passes, and the job is run again and
\* again; nobody need ever write to a customer.
NotifyFairness ==
    /\ \A s \in Senders : WF_notifyVars(SenderMoves(s))
    /\ WF_notifyVars(\E s \in Senders : StartRetryPass(s))
    /\ \A m \in Moments : WF_notifyVars(MessageGrowsOld(m))

-----------------------------------------------------------------------------
(* What the queue promises.                                                *)

NotifyTypeOK ==
    /\ messages \in [Moments -> [status : MessageStatuses, attempts : Nat, age : MessageAges]]
    /\ accepted \in [Moments -> Nat]
    /\ sender \in [Senders ->
          [kind : {"none", "first", "pass"},
           at : {"rest", "call", "record", "fail", "close"},
           moment : Moments \cup {"none"}, rest : SUBSET Moments,
           answer : {"none", "ok", "transient", "permanent"}]]
    /\ notifyFaults \in Nat

\* A row says SENT only of a message AiSensy took, whatever dies and whatever
\* overlaps ("Log first, then send").
SentWasAccepted == \A m \in Moments : messages[m].status = "SENT" => accepted[m] > 0

\* One message, not two, however many places tell of the moment and however
\* often the job runs: a further one only for an answer that was lost or a
\* process that died holding it (dedupeKey, and the job's list).
OneMessagePerMoment == \A m \in Moments : accepted[m] <= 1 + notifyFaults

\* A code is never sent again by the job, where only asterisks are stored, and
\* nobody who may not be written to is (the job's filter, the skip reasons).
NeverSentLater ==
    \A m \in Moments : /\ m \in Codes => accepted[m] <= 1
                       /\ m \in Refused => accepted[m] = 0

\* What has been recorded as sent is never called failed afterwards, nor sent
\* again (attempt, run by passes one after the other).
SentIsFinal ==
    [][\A m \in Moments : messages[m].status = "SENT" =>
          messages'[m].status = "SENT" /\ accepted'[m] = accepted[m]]_notifyVars

\* The tries of one message are bounded, whichever of them failed.
TriesBounded == \A m \in Moments : messages[m].attempts <= MaxAttempts

\* Nothing stays queued for ever: what died before the call is sent or closed
\* (retryQueuedNotifications).
QueueDrains ==
    \A m \in Moments : messages[m].status = "QUEUED" ~> messages[m].status # "QUEUED"
-----------------------------------------------------------------------------
(* Why it holds: a message has one sender in hand at a time, a first       *)
(* attempt while the row is fresh and a pass once it is not.               *)

Handles(s, m) == sender[s].at \in {"call", "record", "fail"} /\ sender[s].moment = m

\* A row the job may still send.
Retriable(m) ==
    /\ messages[m].status = "QUEUED" /\ messages[m].attempts < MaxAttempts
    /\ messages[m].age # "fresh"
    /\ m \notin Codes /\ m \notin Refused

RowsBegin ==
    \A m \in Moments :
        /\ messages[m].status = "none" =>
              messages[m].attempts = 0 /\ messages[m].age = "fresh" /\ accepted[m] = 0
        /\ m \in Refused => messages[m].status \in {"none", "SKIPPED"}

\* What a sender is at follows from how it came by its message.
SendersAtWork ==
    \A s \in Senders :
        LET now == sender[s]
        IN  /\ now.kind = "none" => now.at = "rest"
            /\ now.at = "close" => now.kind = "pass"
            /\ now.kind # "pass" => now.rest = {}
            /\ now.at \in {"call", "record", "fail"} => now.moment \in Moments /\ now.kind # "none"
            /\ \A m \in Moments : Handles(s, m) =>
                  /\ messages[m].status = "QUEUED" /\ m \notin now.rest /\ m \notin Refused
                  /\ now.at # "fail" => messages[m].attempts < MaxAttempts
                  /\ now.at = "call" /\ m \in Codes => accepted[m] = 0
                  /\ IF now.kind = "first" THEN messages[m].age = "fresh"
                     ELSE messages[m].age # "fresh" /\ m \notin Codes

OneRetryPass ==
    \A s, z \in Senders : sender[s].kind = "pass" /\ sender[z].kind = "pass" => s = z

ListIsRetriable == \A s \in Senders : \A m \in sender[s].rest : Retriable(m)

HandledOnce == \A m \in Moments : \A s, z \in Senders : Handles(s, m) /\ Handles(z, m) => s = z

KnownTaken(m) ==
    \/ messages[m].status = "SENT"
    \/ \E s \in Senders : Handles(s, m) /\ sender[s].at = "record" /\ sender[s].answer = "ok"

\* Without a fault, AiSensy has a message once it is known to, and not before.
TakenOnce ==
    \A m \in Moments : /\ accepted[m] <= notifyFaults + (IF KnownTaken(m) THEN 1 ELSE 0)
                       /\ KnownTaken(m) => accepted[m] > 0

NotifyInv ==
    /\ NotifyTypeOK /\ RowsBegin /\ SendersAtWork
    /\ OneRetryPass /\ ListIsRetriable /\ HandledOnce
    /\ TakenOnce /\ NeverSentLater /\ TriesBounded
=============================================================================
