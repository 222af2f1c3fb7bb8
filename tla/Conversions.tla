------------------------------ MODULE Conversions ------------------------------
(***************************************************************************)
(* Purchases reported to Meta (core/src/marketing/meta-capi.ts): what an   *)
(* order leaves behind after its commit, the event claimed by its unique   *)
(* id and sent once, and the job that sends again what failed and finds    *)
(* the orders nobody reported.                                             *)
(*                                                                         *)
(* A reporter is the background work of one order, or a pass of the job.   *)
(* Each await is a step; a reporter may die at any of them, and an order's *)
(* process may die between its commit and the first.                       *)
(***************************************************************************)
EXTENDS Integers, FiniteSets

CONSTANTS
    Sales,            \* customers' orders
    Consenting,       \* those whose customer said yes to ad measurement
    Reporters,        \* reports and passes at work
    MaxSends,         \* MAX_ATTEMPTS
    SweepTake,        \* how many of the newest orders a sweep looks at
    ReportOverlap,    \* may passes, or a pass and a slow first report, overlap?
    MaxReportFaults   \* bound: deaths and calls that fail, in all

ASSUME ConversionsAssumption ==
    /\ Consenting \subseteq Sales
    /\ IsFiniteSet(Sales)
    /\ MaxSends \in Nat \ {0}
    /\ SweepTake \in Nat
    /\ ReportOverlap \in BOOLEAN
    /\ MaxReportFaults \in Nat

VARIABLES
    sale,          \* each order: not placed, placed, filed (OrderAttribution), and when
    event,         \* MarketingEvent, by purchaseEventId
    received,      \* how often Meta took it
    reporter,      \* what each reporter is doing
    reportFaults   \* faults so far

conversionVars == <<sale, event, received, reporter, reportFaults>>

EventStatuses == {"none", "PENDING", "SENT", "FAILED", "SKIPPED"}

NoReport == [kind |-> "none", at |-> "idle", sale |-> "none", retries |-> {}, sweep |-> {}, ok |-> FALSE]

ConversionInit ==
    /\ sale = [o \in Sales |-> [state |-> "none", nth |-> 0]]
    /\ event = [o \in Sales |-> [status |-> "none", attempts |-> 0]]
    /\ received = [o \in Sales |-> 0]
    /\ reporter = [r \in Reporters |-> NoReport]
    /\ reportFaults = 0

ReportFault == reportFaults < MaxReportFaults /\ reportFaults' = reportFaults + 1

Filed(o) == sale[o].state = "filed"

JobRunning == \E r \in Reporters : reporter[r].kind = "job"

Busy(o) == \E r \in Reporters : reporter[r].kind = "order" /\ reporter[r].sale = o

-----------------------------------------------------------------------------

\* The order commits; its background work may never begin.
PlaceSale(r, o) ==
    /\ sale[o].state = "none"
    /\ reporter[r] = NoReport
    /\ sale' = [sale EXCEPT ![o] = [state |-> "placed",
                                    nth |-> Cardinality({p \in Sales : sale[p].state # "none"}) + 1]]
    /\ \/ reporter' = [reporter EXCEPT ![r] = [NoReport EXCEPT !.kind = "order", !.at = "file", !.sale = o]]
          /\ UNCHANGED reportFaults
       \/ ReportFault /\ UNCHANGED reporter
    /\ UNCHANGED <<event, received>>

\* recordOrderAttribution, the refusal recorded, or the report begun.  A
\* failure to file is logged, and the report then finds no consent on file.
FileSale(r) ==
    /\ reporter[r].at = "file"
    /\ LET o == reporter[r].sale
       IN  /\ \/ sale' = [sale EXCEPT ![o].state = "filed"] /\ UNCHANGED reportFaults
              \/ ReportFault /\ UNCHANGED sale
           /\ IF o \in Consenting
              THEN /\ reporter' = [reporter EXCEPT ![r].at = "claim"]
                   /\ UNCHANGED event
              ELSE /\ event' = [event EXCEPT ![o].status = "SKIPPED"]
                   /\ reporter' = [reporter EXCEPT ![r] = NoReport]
    /\ UNCHANGED received

\* What a reporter turns to: the background work ends, a pass goes on with its
\* retries and then with the orders of its sweep.
GoesOn(r) ==
    LET now == reporter[r]
    IN  IF now.kind = "order" THEN reporter' = [reporter EXCEPT ![r] = NoReport]
        ELSE IF now.retries # {}
        THEN \E o \in now.retries :
                reporter' = [reporter EXCEPT ![r].at = "send", ![r].sale = o, ![r].retries = @ \ {o}]
        ELSE IF now.sweep # {}
        THEN \E o \in now.sweep :
                reporter' = [reporter EXCEPT ![r].at = "claim", ![r].sale = o, ![r].sweep = @ \ {o}]
        ELSE reporter' = [reporter EXCEPT ![r] = NoReport]

\* buildPurchaseEvent: the one check every path goes through.
Consented(o) == Filed(o) /\ o \in Consenting

\* reportOrderPurchase, up to the call: the unique event id is the claim.
ClaimEvent(r) ==
    /\ reporter[r].at = "claim"
    /\ LET o == reporter[r].sale
       IN  IF event[o].status = "none" /\ Consented(o)
           THEN /\ event' = [event EXCEPT ![o].status = "PENDING"]
                /\ reporter' = [reporter EXCEPT ![r].at = "send"]
           ELSE GoesOn(r) /\ UNCHANGED event
    /\ UNCHANGED <<sale, received, reportFaults>>

\* The POST: taken, taken with the answer lost, or refused.
SendToMeta(r) ==
    /\ reporter[r].at = "send"
    /\ \E took \in BOOLEAN, ok \in BOOLEAN :
          /\ ok => took
          /\ received' = IF took THEN [received EXCEPT ![reporter[r].sale] = @ + 1] ELSE received
          /\ IF ok THEN UNCHANGED reportFaults ELSE ReportFault
          /\ reporter' = [reporter EXCEPT ![r].at = "record", ![r].ok = ok]
    /\ UNCHANGED <<sale, event>>

RecordReport(r) ==
    /\ reporter[r].at = "record"
    /\ event' = [event EXCEPT ![reporter[r].sale].status = IF reporter[r].ok THEN "SENT" ELSE "FAILED",
                              ![reporter[r].sale].attempts = @ + 1]
    /\ GoesOn(r)
    /\ UNCHANGED <<sale, received, reportFaults>>

\* Mutant: a pass sends again whatever has attempts left.
MutantEventsDue ==
    {o \in Sales : event[o].status \in {"PENDING", "FAILED", "SENT"} /\ event[o].attempts < MaxSends}

\* Two minutes old: not one a background report may still be at work on, which
\* the overlap allows all the same.
EventsDue ==
    {o \in Sales : /\ event[o].status \in {"PENDING", "FAILED"} /\ event[o].attempts < MaxSends
                   /\ ReportOverlap \/ ~ Busy(o)}

\* The newest orders with a yes on file, less those that have an event.
Unreported ==
    LET recent == {o \in Sales : Consented(o) /\ (ReportOverlap \/ ~ Busy(o))}
        newest == {o \in recent : Cardinality({p \in recent : sale[p].nth > sale[o].nth}) < SweepTake}
    IN  {o \in newest : event[o].status = "none"}

StartMarketingJob(r) ==
    /\ reporter[r] = NoReport
    /\ ReportOverlap \/ ~ JobRunning
    /\ EventsDue \cup Unreported # {}
    /\ reporter' = [reporter EXCEPT ![r] = [NoReport EXCEPT !.kind = "job", !.at = "next",
                                            !.retries = EventsDue, !.sweep = Unreported]]
    /\ UNCHANGED <<sale, event, received, reportFaults>>

NextOfJob(r) ==
    /\ reporter[r].at = "next"
    /\ GoesOn(r)
    /\ UNCHANGED <<sale, event, received, reportFaults>>

ReporterDies(r) ==
    /\ reporter[r] # NoReport
    /\ ReportFault
    /\ reporter' = [reporter EXCEPT ![r] = NoReport]
    /\ UNCHANGED <<sale, event, received>>

ReporterMoves(r) == FileSale(r) \/ ClaimEvent(r) \/ SendToMeta(r) \/ RecordReport(r) \/ NextOfJob(r)

ConversionNext ==
    \/ \E r \in Reporters, o \in Sales : PlaceSale(r, o)
    \/ \E r \in Reporters : StartMarketingJob(r) \/ ReporterMoves(r) \/ ReporterDies(r)

ConversionSpec == ConversionInit /\ [][ConversionNext]_conversionVars

\* The job is run every ten minutes and finds somebody to run it; whether
\* anybody buys is up to them.
ConversionFairness ==
    /\ \A r \in Reporters : WF_conversionVars(ReporterMoves(r))
    /\ SF_conversionVars(\E r \in Reporters : StartMarketingJob(r))

-----------------------------------------------------------------------------
(* What reporting promises.                                                *)

ConversionTypeOK ==
    /\ sale \in [Sales -> [state : {"none", "placed", "filed"}, nth : Nat]]
    /\ event \in [Sales -> [status : EventStatuses, attempts : Nat]]
    /\ received \in [Sales -> Nat]
    /\ reporter \in [Reporters ->
          [kind : {"none", "order", "job"}, at : {"idle", "file", "claim", "send", "record", "next"},
           sale : Sales \cup {"none"}, retries : SUBSET Sales, sweep : SUBSET Sales, ok : BOOLEAN]]
    /\ reportFaults \in Nat

\* Nothing of an order reaches Meta without its customer's yes, by whichever
\* path ("the first send, the retry and the sweep").
NothingWithoutConsent == \A o \in Sales \ Consenting : received[o] = 0

\* An order is reported once, though its background work, retries and sweeps
\* all may: again only after a failure or a death ("Reports an order's
\* Purchase to Meta, once").
ReportedOnce == \A o \in Sales : received[o] <= 1 + reportFaults

\* What is recorded as sent stays sent (deliver).
ReportIsFinal ==
    [][\A o \in Sales : event[o].status = "SENT" =>
          event'[o].status = "SENT" /\ received'[o] = received[o]]_conversionVars

\* The attempts at one event are bounded, however often the job finds it.
SendsBounded == \A o \in Sales : event[o].attempts <= MaxSends

\* A sale whose consent is on file is reported in the end, or its attempts are
\* used up, though its process died before it began ("reports customer orders
\* ... that have no event at all").
SalesAreReported ==
    \A o \in Sales : Consented(o) ~> event[o].status = "SENT" \/ event[o].attempts = MaxSends
-----------------------------------------------------------------------------
(* Why it holds: an event has one reporter in hand at a time.              *)

\* At the call to Meta, or back from it with its answer not recorded.
InHand(r, o) == reporter[r].at \in {"send", "record"} /\ reporter[r].sale = o

TakenByMeta(o) == event[o].status = "SENT" \/ \E r \in Reporters : InHand(r, o) /\ reporter[r].at = "record" /\ reporter[r].ok

\* An event that was not sent and may be tried once more.
Sendable(o) ==
    event[o].status \in {"PENDING", "FAILED"} /\ event[o].attempts < MaxSends

\* Only an order with a yes ever has a row that may be sent.
EventsHaveAYes ==
    \A o \in Sales : IF event[o].status \in {"none", "SKIPPED"}
                     THEN event[o].attempts = 0
                     ELSE o \in Consenting /\ sale[o].state # "none"

\* What a reporter is at follows from what it was given.
ReportersAtWork ==
    \A r \in Reporters :
        LET now == reporter[r]
        IN  /\ now.kind = "none" => now.at = "idle" /\ now.retries = {}
            /\ now.at \in {"file", "claim", "send", "record"} => now.sale \in Sales /\ now.kind # "none"
            /\ now.at = "file" => now.kind = "order"
            /\ now.kind = "order" => /\ now.sale \in Sales /\ sale[now.sale].state # "none"
                                     /\ now.retries = {}
            /\ \A o \in Sales : InHand(r, o) => Sendable(o) /\ o \notin now.retries

\* One pass runs at a time, and has the rows it listed to itself: it lists none
\* a background report is still at.
OnePass ==
    \A q, r \in Reporters : reporter[q].kind = "job" /\ reporter[r].kind = "job" => q = r

ListedAlone == \A r \in Reporters : \A o \in reporter[r].retries : Sendable(o) /\ ~ Busy(o)

InHandOnce == \A o \in Sales : \A q, r \in Reporters : InHand(q, o) /\ InHand(r, o) => q = r

\* Without a fault, Meta has an event once it is told, and not before.
CountedOnce == \A o \in Sales : received[o] <= reportFaults + (IF TakenByMeta(o) THEN 1 ELSE 0)

ReportInv ==
    /\ ConversionTypeOK /\ EventsHaveAYes /\ ReportersAtWork
    /\ OnePass /\ ListedAlone /\ InHandOnce /\ CountedOnce /\ NothingWithoutConsent /\ SendsBounded
=============================================================================
