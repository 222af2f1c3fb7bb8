------------------------------- MODULE MCJobs -------------------------------
(***************************************************************************)
(* The components that promise something in the end, because a job comes   *)
(* round or a call is answered.  They share no row with one another: a     *)
(* behaviour runs one of them, and each promise is made of the behaviours  *)
(* that are fair to that one's jobs and callers.                           *)
(***************************************************************************)
EXTENDS Notifications, MediaLibrary, CatalogueImport, Conversions, Erasure,
        Catalogue, HomeFeed, Incidents, PaymentMethods

CONSTANT Components   \* those the instance runs

ImageOfEach == [p \in Products |-> p]   \* every product shows an image of its own

TwoDepots == [d1 |-> 2, d2 |-> 5]

\* Two bands of products, one of which repeats the other's, and two that need
\* what is read once for the page.
FourBands ==
    <<[kind |-> "CAROUSEL", wanted |-> <<"i1", "i2">>, limit |-> 2],
      [kind |-> "TRENDING", wanted |-> <<"i2", "i1">>, limit |-> 1],
      [kind |-> "LATEST", wanted |-> <<"i1">>, limit |-> 1],
      [kind |-> "TRUST_STRIP", wanted |-> <<>>, limit |-> 1]>>

VARIABLE running   \* the component the behaviour is of

Elsewhere(c) ==
    /\ UNCHANGED running
    /\ c # "notify"    => UNCHANGED notifyVars
    /\ c # "media"     => UNCHANGED mediaVars
    /\ c # "import"    => UNCHANGED importVars
    /\ c # "convert"   => UNCHANGED conversionVars
    /\ c # "erasure"   => UNCHANGED erasureVars
    /\ c # "catalogue" => UNCHANGED catalogueVars
    /\ c # "feed"      => UNCHANGED feedVars
    /\ c # "incidents" => UNCHANGED incidentVars
    /\ c # "methods"   => UNCHANGED methodVars

vars == <<running, notifyVars, mediaVars, importVars, conversionVars, erasureVars,
          catalogueVars, feedVars, incidentVars, methodVars>>

\* Where a component may begin in several states, only its own behaviours do.
Init ==
    /\ running \in Components
    /\ NotifyInit /\ MediaInit /\ ImportInit /\ ConversionInit /\ ErasureInit
    /\ CatalogueInit /\ HomeFeedInit /\ IncidentsInit /\ MethodsInit
    /\ running = "feed"    \/ \A i \in Tiles : stocking[i] = {}
    /\ running = "methods" \/ \A p \in OnlineGateways : methods[p].on /\ (p = "PAYU" => methods[p].place = 0)

Next ==
    \/ running = "notify"    /\ NotifyNext     /\ Elsewhere("notify")
    \/ running = "media"     /\ MediaNext      /\ Elsewhere("media")
    \/ running = "import"    /\ ImportNext     /\ Elsewhere("import")
    \/ running = "convert"   /\ ConversionNext /\ Elsewhere("convert")
    \/ running = "erasure"   /\ ErasureNext    /\ Elsewhere("erasure")
    \/ running = "catalogue" /\ CatalogueNext  /\ Elsewhere("catalogue")
    \/ running = "feed"      /\ HomeFeedNext   /\ Elsewhere("feed")
    \/ running = "incidents" /\ IncidentsNext  /\ Elsewhere("incidents")
    \/ running = "methods"   /\ MethodsNext    /\ Elsewhere("methods")

Spec == Init /\ [][Next]_vars

-----------------------------------------------------------------------------
(* What each component promises in the end, under its own fairness.        *)

\* Every queued message is sent, given up or closed (dispatch.ts, retryQueuedNotifications).
NotifyProgress == running = "notify" /\ NotifyFairness => QueueDrains

\* A file nobody confirmed is swept away (jobs.ts, collectMediaGarbage).
MediaProgress == running = "media" /\ MediaFairness => UnconfirmedIsSwept

\* Every picture of a committed import is fetched or given up (image-fetcher.ts).
ImportProgress == running = "import" /\ ImportFairness => ImagesFinish

\* A consented sale is reported, or given up after its tries (marketing/meta-capi.ts, runMarketingJobs).
ConvertProgress == running = "convert" /\ ConversionFairness => SalesAreReported

\* A scheduled erasure is carried out, closed or blocked (privacy-erasure.ts, runDueErasures).
ErasureProgress == running = "erasure" /\ ErasureFairness => ScheduledIsCarriedOut

\* A draft whose time has come is published (jobs.ts, publishScheduledProducts).
CatalogueProgress == running = "catalogue" /\ CatalogueFairness => DueIsPublished

\* A home page begun is answered, whatever its sections leave to one another (storefront.ts).
FeedProgress == running = "feed" /\ HomeFeedFairness => PageIsAnswered

\* A send of breach notices comes to its end (privacy-incidents.ts, runSend).
IncidentsProgress == running = "incidents" /\ IncidentsFairness => SendEnds

\* Money taken becomes an order, whatever is saved on the payments screen meanwhile (payment-session.ts, reconcilePaymentSessions).
MethodsProgress == running = "methods" /\ MethodsFairness => PaidBecomesAnOrder

\* Every job and every caller above comes to its end.
JobsFinish ==
    /\ NotifyProgress /\ MediaProgress /\ ImportProgress
    /\ ConvertProgress /\ ErasureProgress /\ CatalogueProgress
    /\ FeedProgress /\ IncidentsProgress /\ MethodsProgress

=============================================================================
