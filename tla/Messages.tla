------------------------------ MODULE Messages ------------------------------
(***************************************************************************)
(* What is said to whom: core/src/notify/dispatch.ts up to the call        *)
(* (Notifications has what follows), the events and their tokens of        *)
(* shared/src/notifications.ts, and the templates of                       *)
(* core/src/write/notifications.ts.                                        *)
(*                                                                         *)
(* A message is put together in steps that each read the database: the     *)
(* recipient and the values, then whether WhatsApp is on, then the         *)
(* template, then the row, which freezes campaign and parameters.  Owners  *)
(* edit templates and people change their minds in between.                *)
(***************************************************************************)
EXTENDS Integers, Sequences, FiniteSets

CONSTANTS
    Patrons,          \* people with a phone, customers or not yet
    AlertPhones,      \* the shop's own numbers
    Tellers,          \* requests with something to tell
    ToldEvents,       \* the events of this instance
    Bodies,           \* texts an owner may write, as the tokens in order
    MaxTemplateEdits, \* bound: saves and deletions of templates
    MaxMinds,         \* bound: changes of mind
    MaxTold           \* bound: moments

Locales == {"en", "hi"}

\* NOTIFICATION_EVENT_KINDS.
EventKind(e) ==
    CASE e = "customer.welcome" -> "marketing"
      [] e \in {"customer.otp", "customer.privacyUpdate", "customer.securityNotice"} -> "security"
      [] e \in {"shop.orderPlaced", "shop.enquiryReceived", "shop.securityAlert"} -> "shop"
      [] OTHER -> "transactional"

\* One token stands for each group that is always supplied together.
CommonTokens == {"storeName"}
OrderTokens == {"orderTotal", "orderNumber"}

OfOrder(e) == e \in {"order.placed", "order.confirmed", "order.dispatched", "order.delivered", "order.cancelled",
                     "payment.received", "payment.refunded", "delivery.outForDelivery",
                     "delivery.partDelivered", "shop.orderPlaced"}

\* EVENT_TOKENS: what a template of the event may use.
EventTokens(e) ==
    CommonTokens \cup (IF OfOrder(e) THEN OrderTokens ELSE {}) \cup
    CASE e = "order.dispatched" -> {"deliveryPromise"}
      [] e = "order.delivered" -> {"deliveredOn"}
      [] e = "order.cancelled" -> {"cancelReason"}
      [] e = "payment.received" -> {"amountPaid", "amountDue", "paymentReference"}
      [] e = "payment.failed" -> {"orderTotal", "failureReason", "retryUrl"}
      [] e = "payment.refunded" -> {"refundAmount"}
      [] e = "delivery.outForDelivery" -> {"expectedDelivery", "deliveryNumber", "riderName", "riderPhone"}
      [] e = "delivery.partDelivered" -> {"deliveredOn", "deliveryNumber", "pendingItemList"}
      [] e = "delivery.areaNowServiced" -> {"pincode", "areaName"}
      [] e = "customer.otp" -> {"otp", "expiryMinutes"}
      [] e = "customer.privacyUpdate" -> {"requestType", "requestStatus", "requestReply"}
      [] e = "customer.securityNotice" -> {"incidentWhat", "incidentContact"}
      [] e = "shop.orderPlaced" -> {"customerPhone", "paymentMethod", "adminOrderUrl"}
      [] e = "shop.enquiryReceived" -> {"enquiryNumber", "customerPhone", "adminUrl"}
      [] e = "shop.securityAlert" -> {"alertTitle", "alertDetail", "adminUrl"}
      [] OTHER -> {}

\* Which of the functions a caller uses: a refund is told about an order, or
\* about a payment that never became one.
RoutesOf(e) ==
    CASE e \in {"delivery.outForDelivery", "delivery.partDelivered"} -> {"shipment"}
      [] e = "payment.failed" -> {"session"}
      [] e = "payment.refunded" -> {"order", "session"}
      [] e \in {"customer.welcome", "customer.securityNotice"} -> {"customer"}
      [] e \in {"customer.privacyUpdate", "delivery.areaNowServiced"} -> {"phone"}
      [] e = "customer.otp" -> {"otp"}
      [] EventKind(e) = "shop" -> {"shop"}
      [] OTHER -> {"order"}

\* loadOrderValues: the same for every message about an order.
OrderValues == CommonTokens \cup OrderTokens \cup {"expectedDelivery", "deliveredOn"}

\* What the function and its caller have to say: `values`.
Supplied(e, route) ==
    CASE route = "order" -> OrderValues \cup
              (CASE e = "order.cancelled" -> {"cancelReason"}
                 [] e = "payment.received" -> {"amountPaid", "amountDue", "paymentReference"}
                 [] e = "payment.refunded" -> {"refundAmount"}
                 [] OTHER -> {})
      [] route = "shipment" -> OrderValues \cup {"deliveryNumber", "pendingItemList"}
      [] route = "session" -> CommonTokens \cup {"orderTotal", "retryUrl"} \cup
              (IF e = "payment.refunded" THEN {"refundAmount"} ELSE {"failureReason"})
      [] route = "shop" /\ e = "shop.orderPlaced" ->
              OrderValues \cup {"customerPhone", "paymentMethod", "adminOrderUrl"}
      [] OTHER -> EventTokens(e)

VARIABLES
    templates,     \* NotificationTemplate: a slot for each event and language
    whatsappOn,    \* notifications.whatsapp: switched on, with a key
    minds,         \* Customer: whether there is one, language, the two opt-ins
    saidYes,       \* history: who has ever agreed to offers
    telling,       \* what each teller has read
    outbox,        \* NotificationMessage, keyed by event and recipient
    templateEdits, \* bounds
    mindsChanged,
    told

messageVars == <<templates, whatsappOn, minds, saidYes, telling, outbox, templateEdits, mindsChanged, told>>

NoTemplate == [there |-> FALSE, on |-> FALSE, named |-> FALSE, body |-> <<>>]

Stranger == [known |-> FALSE, locale |-> "en", updates |-> TRUE, offers |-> FALSE]

Recipients == Patrons \cup AlertPhones

Silent == [at |-> "rest", event |-> "none", route |-> "none", left |-> {}, to |-> "none",
           mind |-> Stranger, template |-> NoTemplate, locale |-> "en"]

MessagesInit ==
    /\ templates = [slot \in ToldEvents \X Locales |-> NoTemplate]
    /\ whatsappOn = TRUE
    /\ minds = [p \in Patrons |-> Stranger]
    /\ saidYes = {}
    /\ telling = [t \in Tellers |-> Silent]
    /\ outbox = {}
    /\ templateEdits = 0
    /\ mindsChanged = 0
    /\ told = 0

-----------------------------------------------------------------------------
(* The owner's templates, and what people say of themselves.               *)

\* notificationTemplateSchema, for WhatsApp.
Writable(e, row) ==
    /\ \A i \in DOMAIN row.body : row.body[i] \in EventTokens(e)
    /\ row.on => row.body # <<>> /\ row.named

\* saveNotificationTemplate: one upsert.
SaveTemplate(e, locale, row) ==
    /\ templateEdits < MaxTemplateEdits
    /\ Writable(e, row)
    /\ templates' = [templates EXCEPT ![<<e, locale>>] = row]
    /\ templateEdits' = templateEdits + 1
    /\ UNCHANGED <<whatsappOn, minds, saidYes, telling, outbox, mindsChanged, told>>

\* deleteNotificationTemplate.
DeleteTemplate(e, locale) ==
    /\ templateEdits < MaxTemplateEdits
    /\ templates[<<e, locale>>].there
    /\ templates' = [templates EXCEPT ![<<e, locale>>] = NoTemplate]
    /\ templateEdits' = templateEdits + 1
    /\ UNCHANGED <<whatsappOn, minds, saidYes, telling, outbox, mindsChanged, told>>

SwitchWhatsapp ==
    /\ templateEdits < MaxTemplateEdits
    /\ whatsappOn' = ~whatsappOn
    /\ templateEdits' = templateEdits + 1
    /\ UNCHANGED <<templates, minds, saidYes, telling, outbox, mindsChanged, told>>

\* A stranger signs up, or a customer changes language or either opt-in.
ChangeMind(p, mind) ==
    /\ mindsChanged < MaxMinds
    /\ mind.known /\ mind # minds[p]
    /\ minds' = [minds EXCEPT ![p] = mind]
    /\ saidYes' = IF mind.offers THEN saidYes \cup {p} ELSE saidYes
    /\ mindsChanged' = mindsChanged + 1
    /\ UNCHANGED <<templates, whatsappOn, telling, outbox, templateEdits, told>>

-----------------------------------------------------------------------------
(* Telling.                                                                *)

\* What the row of a phone says of its owner, the shop's own among them.
MindOf(to) == IF to \in Patrons THEN minds[to] ELSE Stranger

\* The next recipient of the list, or the end of it.
Turned(t, left) ==
    IF left = {} THEN {Silent}
    ELSE {[telling[t] EXCEPT !.at = "sender", !.left = left \ {to}, !.to = to, !.mind = MindOf(to),
                             !.template = NoTemplate] : to \in left}

\* notifyOrder and the rest, up to deliver: the recipient and the values are
\* read.  An order, a shipment, a session and a customer have a Customer row; a
\* phone may not.  The shop's alerts are a loop over its numbers.
Tell(t, e, route, audience) ==
    /\ telling[t] = Silent /\ told < MaxTold
    /\ \E to \in audience :
          telling' = [telling EXCEPT ![t] = [Silent EXCEPT !.at = "sender", !.event = e, !.route = route,
                                                           !.left = audience \ {to}, !.to = to,
                                                           !.mind = MindOf(to)]]
    /\ told' = told + 1
    /\ UNCHANGED <<templates, whatsappOn, minds, saidYes, outbox, templateEdits, mindsChanged>>

Audiences(route) ==
    CASE route = "shop" -> {AlertPhones} \ {{}}
      [] route \in {"phone", "otp"} -> {{p} : p \in Patrons}
      [] OTHER -> {{p} : p \in {q \in Patrons : minds[q].known}}

TurnsTo(t, left) == \E next \in Turned(t, left) : telling' = [telling EXCEPT ![t] = next]

\* loadSender: off is a decision to respect.
LoadSender(t) ==
    /\ telling[t].at = "sender"
    /\ IF whatsappOn THEN telling' = [telling EXCEPT ![t].at = "template"]
       ELSE TurnsTo(t, telling[t].left)
    /\ UNCHANGED <<templates, whatsappOn, minds, saidYes, outbox, templateEdits, mindsChanged, told>>

UsableTemplate(e, locale) == templates[<<e, locale>>].on /\ templates[<<e, locale>>].named

\* findTemplate: the customer's language first, then English.
TemplateLocale(e, locale) ==
    IF UsableTemplate(e, locale) THEN locale ELSE IF UsableTemplate(e, "en") THEN "en" ELSE "none"

FindTemplate(t) ==
    LET e == telling[t].event
        locale == TemplateLocale(e, telling[t].mind.locale)
    IN  /\ telling[t].at = "template"
        /\ IF locale = "none" THEN TurnsTo(t, telling[t].left)
           ELSE telling' = [telling EXCEPT ![t].at = "row", ![t].locale = locale,
                                           ![t].template = templates[<<e, locale>>]]
        /\ UNCHANGED <<templates, whatsappOn, minds, saidYes, outbox, templateEdits, mindsChanged, told>>

\* The skipReason of deliver, from what was read of the recipient.
Skips(e, mind, ignoreOptOut) ==
    \/ ~mind.updates /\ ~ignoreOptOut /\ EventKind(e) # "security"
    \/ EventKind(e) = "marketing" /\ ~mind.offers

\* Mutant: the campaign is looked up again when the row is written.
MutantCampaignOf(t) ==
    [event |-> telling[t].event, locale |-> telling[t].locale,
     body |-> templates[<<telling[t].event, telling[t].locale>>].body]

\* A campaign is registered for the text of one template (providerTemplateId).
CampaignOf(t) == [event |-> telling[t].event, locale |-> telling[t].locale, body |-> telling[t].template.body]

\* toPositional and whatsappParam: a value per token, a dash for want of one, a
\* mask for a sign-in code.
ParamsOf(t) ==
    LET body == telling[t].template.body
    IN  [i \in DOMAIN body |->
            IF telling[t].route = "otp" THEN "masked"
            ELSE IF body[i] \in Supplied(telling[t].event, telling[t].route) THEN body[i] ELSE "dash"]

\* deliver's row, unless its key is taken; what is skipped or a duplicate ends
\* here, what is queued is sent next.
WriteRow(t) ==
    LET e == telling[t].event
        to == telling[t].to
        skips == Skips(e, telling[t].mind, telling[t].route = "otp")
    IN  /\ telling[t].at = "row"
        /\ outbox' = IF \E row \in outbox : row.event = e /\ row.to = to THEN outbox
                     ELSE outbox \cup {[event |-> e, to |-> to, route |-> telling[t].route,
                                        campaign |-> CampaignOf(t), params |-> ParamsOf(t),
                                        status |-> IF skips THEN "SKIPPED" ELSE "QUEUED"]}
        /\ TurnsTo(t, telling[t].left)
        /\ UNCHANGED <<templates, whatsappOn, minds, saidYes, templateEdits, mindsChanged, told>>

MessagesNext ==
    \/ \E slot \in ToldEvents \X Locales :
          \/ \E on, named \in BOOLEAN, body \in Bodies :
                SaveTemplate(slot[1], slot[2], [there |-> TRUE, on |-> on, named |-> named, body |-> body])
          \/ DeleteTemplate(slot[1], slot[2])
    \/ SwitchWhatsapp
    \/ \E p \in Patrons : \E mind \in [known : {TRUE}, locale : Locales, updates : BOOLEAN, offers : BOOLEAN] :
          ChangeMind(p, mind)
    \/ \E t \in Tellers :
          \/ \E e \in ToldEvents : \E route \in RoutesOf(e) : \E audience \in Audiences(route) :
                Tell(t, e, route, audience)
          \/ LoadSender(t) \/ FindTemplate(t) \/ WriteRow(t)

MessagesSpec == MessagesInit /\ [][MessagesNext]_messageVars

-----------------------------------------------------------------------------
(* What a message may be.                                                  *)

MessagesTypeOK ==
    /\ DOMAIN templates = ToldEvents \X Locales
    /\ whatsappOn \in BOOLEAN
    /\ minds \in [Patrons -> [known : BOOLEAN, locale : Locales, updates : BOOLEAN, offers : BOOLEAN]]
    /\ saidYes \subseteq Patrons
    /\ \A t \in Tellers : /\ telling[t].at \in {"rest", "sender", "template", "row"}
                          /\ telling[t].left \subseteq Recipients
    /\ \A row \in outbox : row.to \in Recipients /\ row.status \in {"SKIPPED", "QUEUED"}
    /\ templateEdits \in 0..MaxTemplateEdits /\ mindsChanged \in 0..MaxMinds /\ told \in 0..MaxTold

\* "The template text registered with WhatsApp and the parameters sent with each
\* message are derived from the same body, so they cannot drift", whoever edits
\* or deletes the template while the message is being put together (deliver,
\* toPositional; the row is what a retry sends, hours later).
ParamsFitTheCampaign ==
    \A row \in outbox : /\ DOMAIN row.params = DOMAIN row.campaign.body
                        /\ \A i \in DOMAIN row.params :
                              row.params[i] \in {row.campaign.body[i], "dash", "masked"}

\* Nobody who never said yes to them is sent an offer, customer or stranger, by
\* whichever function (deliver's skipReason, phoneInput's default).
OffersNeedAYes ==
    \A row \in outbox :
        row.status = "QUEUED" /\ row.event = "customer.welcome" => row.to \in saidYes

\* A sign-in code, the answer to a privacy request and the notice of a breach
\* are never held back by what their recipient chose about updates.
OwedIsNotHeldBack ==
    \A row \in outbox :
        row.event \in {"customer.otp", "customer.privacyUpdate", "customer.securityNotice"} => row.status = "QUEUED"

\* When the screen says a notice is ready to go out to thousands
\* (whatsappTemplateReady, which asks for English), there is a template for
\* every one of them, whatever their language.
ReadyReachesEveryone ==
    \A e \in ToldEvents : whatsappOn /\ UsableTemplate(e, "en") =>
        \A p \in Patrons : TemplateLocale(e, minds[p].locale) # "none"

\* Blanks the code cannot help: a refund of a payment that never became an order
\* has no order to speak of, and nothing knows the rider or the promise.
KnownBlanks(row) ==
    IF row.route = "session" THEN OrderTokens ELSE {"riderName", "riderPhone", "deliveryPromise"}

\* Every other token a template may use is filled in, in every message.
BlanksAreKnown ==
    \A row \in outbox : \A i \in DOMAIN row.params :
        row.params[i] = "dash" => row.campaign.body[i] \in KnownBlanks(row)

=============================================================================
