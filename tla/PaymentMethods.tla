--------------------------- MODULE PaymentMethods ---------------------------
(***************************************************************************)
(* How a customer may pay, and what the shop may change about it while     *)
(* they do: core/src/write/payment-settings.ts and notifications.ts (a     *)
(* provider's row of Setting, its sealed credential, the order the methods *)
(* are offered in), core/src/read/payment-settings.ts and                  *)
(* shared/src/checkout-options.ts (what is offered, and which gateway      *)
(* takes it), payments/credentials.ts, and the path of one payment from    *)
(* startOnlinePayment to lookUpPayment as far as it reads those rows.      *)
(*                                                                         *)
(* A save reads the stored row and writes the whole of it back; a reorder  *)
(* does so with every row.  What PaymentSession says of claims, refunds    *)
(* and orders is left out here.                                            *)
(***************************************************************************)
EXTENDS Integers, Sequences

CONSTANTS
    Merchants,      \* merchant accounts (and modes) the shop has at the gateways
    PayOptions,     \* ways to pay: UPI, a card, ...
    Shoppers,       \* customers, one payment each
    SettingEditors, \* admins with the payments screen open
    ChannelKeys,    \* rows with a credential that take no payment: WhatsApp
    RotateInFlight, \* may an account be changed under a payment that is open?
    Positions,      \* places on the list that a form may carry
    MaxMethodSaves, \* bound: saves and reorders
    MaxRefusals     \* bound: gateways that do not answer

OnlineGateways == {"RAZORPAY", "PAYU"}
Providers == OnlineGateways \cup {"COD"}

ASSUME PaymentMethodsAssumption ==
    /\ ChannelKeys \cap Providers = {}
    /\ Positions \subseteq Nat /\ 0 \in Positions
    /\ Merchants # {} /\ "" \notin Merchants /\ "ANY" \notin PayOptions
    /\ RotateInFlight \in BOOLEAN
    /\ MaxMethodSaves \in Nat /\ MaxRefusals \in Nat

VARIABLES
    methods,      \* the Setting row of each provider
    methodEditor, \* what each admin's save has read and will write
    paying,       \* each customer's request, and then their PaymentSession
    till,         \* at the gateway: whether the money was taken
    methodSaves,
    refusals

methodVars == <<methods, methodEditor, paying, till, methodSaves, refusals>>

SettingRows == Providers \cup ChannelKeys

\* on: `enabled`; account: the key id or merchant key; secret: the account the
\* stored credential belongs to, "" if none is; takes: checkoutOptions.
RowValues == [on : BOOLEAN, place : Nat, account : Merchants \cup {""},
              secret : Merchants \cup {""}, takes : SUBSET PayOptions]

\* A row nobody saved yet reads as the registry's default.
DefaultRow(p) == [on |-> p = "COD", place |-> 0, account |-> "", secret |-> "",
                  takes |-> PayOptions]

NoSave == [at |-> "idle", rows |-> [p \in {} |-> DefaultRow(p)]]

NotPaying == [at |-> "shopping", ways |-> <<>>, gateway |-> "COD", account |-> "", closed |-> FALSE]

\* A shop at work: one gateway saved with a pair of keys, or both, in some order.
MethodsInit ==
    /\ \E first \in OnlineGateways, saved \in (SUBSET OnlineGateways) \ {{}} :
          methods = [p \in SettingRows |->
             IF p \in saved
             THEN [DefaultRow(p) EXCEPT !.on = TRUE, !.place = IF p = first THEN 0 ELSE 1,
                                        !.account = CHOOSE m \in Merchants : TRUE,
                                        !.secret = CHOOSE m \in Merchants : TRUE]
             ELSE DefaultRow(p)]
    /\ methodEditor = [e \in SettingEditors |-> NoSave]
    /\ paying = [s \in Shoppers |-> NotPaying]
    /\ till = [s \in Shoppers |-> "none"]
    /\ methodSaves = 0
    /\ refusals = 0

-----------------------------------------------------------------------------
(* The admin's side.                                                       *)

\* Blank means unchanged; clearing is a separate act (nextSecret).
NextSecret(form, stored) ==
    IF form.clear THEN "" ELSE IF form.typed # "" THEN form.typed ELSE stored.secret

\* The row a save will write, from what was posted and what is stored.  A form
\* that sends no list of options leaves the stored one.
NextRow(form, stored) ==
    [on |-> form.on, place |-> form.place, account |-> form.account,
     secret |-> NextSecret(form, stored),
     takes |-> IF form.takes = {} THEN stored.takes ELSE CHOOSE t \in form.takes : TRUE]

\* A gateway posts both halves of its pair.
SettingForms(p) ==
    {f \in [on : BOOLEAN, place : Positions, account : Merchants \cup {""}, typed : Merchants \cup {""},
            clear : BOOLEAN, takes : {{}, {{}}}] :
        /\ p = "COD" => f.account = "" /\ f.typed = "" /\ ~f.clear /\ f.takes = {}
        /\ f.typed # "" => ~f.clear /\ f.typed = f.account}

\* A channel has a key and a switch.
ChannelForms ==
    {f \in [on : BOOLEAN, place : {0}, account : {""}, typed : Merchants \cup {""}, clear : BOOLEAN,
            takes : {{}}] : f.typed # "" => ~f.clear}

\* "Turning a gateway on with no credentials behind it produces a checkout that
\* fails at the last step" -- the schema's rule and the write's.
MayBeOn(p, form, stored) ==
    form.on => /\ p \in OnlineGateways => form.account # ""
               /\ p # "COD" => NextSecret(form, stored) # ""

\* What a save will write, once the row it found has been read.
Saving(p, form) == [at |-> "saving", rows |-> [q \in {p} |-> NextRow(form, methods[p])]]

\* A save of a provider, up to its upsert.
PostMethod(e, p, form) ==
    /\ methodEditor[e] = NoSave /\ methodSaves < MaxMethodSaves
    /\ MayBeOn(p, form, methods[p])
    /\ methodSaves' = methodSaves + 1
    /\ methodEditor' = [methodEditor EXCEPT ![e] = Saving(p, form)]
    /\ UNCHANGED <<methods, paying, till, refusals>>

\* A save of WhatsApp's key, which has to be there for it to be switched on.
PostChannel(e, c, form) ==
    /\ methodEditor[e] = NoSave /\ methodSaves < MaxMethodSaves
    /\ form.on => NextSecret(form, methods[c]) # ""
    /\ methodSaves' = methodSaves + 1
    /\ methodEditor' = [methodEditor EXCEPT ![e] = Saving(c, form)]
    /\ UNCHANGED <<methods, paying, till, refusals>>

\* Every provider named is read, and its row with the new position written.
Moved(order) ==
    [p \in {order[i] : i \in DOMAIN order} |->
        [methods[p] EXCEPT !.place = (CHOOSE i \in DOMAIN order : order[i] = p) - 1]]

PostOrder(e, order) ==
    /\ methodEditor[e] = NoSave /\ methodSaves < MaxMethodSaves
    /\ methodSaves' = methodSaves + 1
    /\ methodEditor' = [methodEditor EXCEPT ![e] = [at |-> "ordering", rows |-> Moved(order)]]
    /\ UNCHANGED <<methods, paying, till, refusals>>

\* A payment that is being opened, or is open, under a gateway's account.
InFlight(p) == {s \in Shoppers : paying[s].at \in {"opening", "CREATED"} /\ paying[s].gateway = p}

\* The upsert, or a transaction of them.
WriteMethods(e) ==
    LET rows == methodEditor[e].rows
    IN  /\ methodEditor[e].at \in {"saving", "ordering"}
        /\ \A p \in DOMAIN rows :
              InFlight(p) # {} => \/ RotateInFlight
                                  \/ /\ rows[p].account = methods[p].account
                                     /\ rows[p].secret = methods[p].secret
        /\ methods' = [p \in SettingRows |-> IF p \in DOMAIN rows THEN rows[p] ELSE methods[p]]
        /\ methodEditor' = [methodEditor EXCEPT ![e] = NoSave]
        /\ UNCHANGED <<paying, till, methodSaves, refusals>>

-----------------------------------------------------------------------------
(* The customer's side.                                                    *)

\* routeOption: who may take an option, best first; ties go by name.  Without
\* an option it is simply everybody who is on.
MayTake(option) ==
    {g \in OnlineGateways : methods[g].on /\ (option = "ANY" \/ option \in methods[g].takes)}

IsBefore(g, h) == \/ methods[g].place < methods[h].place
                  \/ methods[g].place = methods[h].place /\ g = "PAYU"

RouteOption(option) ==
    LET able == MayTake(option)
        first == CHOOSE g \in able : \A h \in able \ {g} : IsBefore(g, h)
    IN  IF able = {} THEN <<>>
        ELSE IF able = {first} THEN <<first>> ELSE <<first, CHOOSE h \in able : h # first>>

\* The candidates are read, and once more whether the best of them is on.
StartPayment(s, option) ==
    /\ paying[s].at = "shopping"
    /\ RouteOption(option) # <<>>
    /\ paying' = [paying EXCEPT ![s].at = "preparing", ![s].ways = RouteOption(option)]
    /\ UNCHANGED <<methods, methodEditor, till, methodSaves, refusals>>

\* prepareCustomerOrder, for a method that is not "actually on" any more.
Prepare(s) ==
    /\ paying[s].at = "preparing"
    /\ paying' = [paying EXCEPT ![s] = IF methods[Head(paying[s].ways)].on
                                       THEN [@ EXCEPT !.at = "choosing"] ELSE NotPaying]
    /\ UNCHANGED <<methods, methodEditor, till, methodSaves, refusals>>

\* A pair of keys a gateway knows; anything else is refused (401, bad hash).
Usable(p) == methods[p].secret # "" /\ methods[p].account # ""

\* The credentials are read: one that is off or has none is passed over.
ReadCredentials(s) ==
    /\ paying[s].at = "choosing" /\ paying[s].ways # <<>>
    /\ LET g == Head(paying[s].ways)
           rest == Tail(paying[s].ways)
       IN  paying' = [paying EXCEPT ![s] =
              IF methods[g].on /\ Usable(g)
              THEN [@ EXCEPT !.at = "opening", !.gateway = g, !.ways = rest,
                             !.account = IF methods[g].secret = methods[g].account
                                         THEN methods[g].account ELSE ""]
              ELSE [@ EXCEPT !.ways = rest]]
    /\ UNCHANGED <<methods, methodEditor, till, methodSaves, refusals>>

\* The row is created and the gateway opens the payment.
OpenAtGateway(s) ==
    /\ paying[s].at = "opening" /\ paying[s].account # ""
    /\ paying' = [paying EXCEPT ![s].at = "CREATED", ![s].ways = <<>>]
    /\ till' = [till EXCEPT ![s] = "open"]
    /\ UNCHANGED <<methods, methodEditor, methodSaves, refusals>>

\* It refuses: the row is EXPIRED and the next in the owner's order is tried.
GatewayRefuses(s) ==
    /\ paying[s].at = "opening"
    /\ refusals' = IF paying[s].account = "" THEN refusals ELSE refusals + 1
    /\ refusals' <= MaxRefusals
    /\ paying' = [paying EXCEPT ![s].at = "choosing", ![s].gateway = "COD", ![s].account = ""]
    /\ UNCHANGED <<methods, methodEditor, till, methodSaves>>

\* "We could not reach the payment gateway."
NobodyAnswers(s) ==
    /\ paying[s].at = "choosing" /\ paying[s].ways = <<>>
    /\ paying' = [paying EXCEPT ![s] = NotPaying]
    /\ UNCHANGED <<methods, methodEditor, till, methodSaves, refusals>>

CustomerPays(s) ==
    /\ till[s] = "open" /\ ~paying[s].closed
    /\ till' = [till EXCEPT ![s] = "paid"]
    /\ UNCHANGED <<methods, methodEditor, paying, methodSaves, refusals>>

WindowCloses(s) ==
    /\ paying[s].at = "CREATED" /\ ~paying[s].closed
    /\ paying' = [paying EXCEPT ![s].closed = TRUE]
    /\ UNCHANGED <<methods, methodEditor, till, methodSaves, refusals>>

-----------------------------------------------------------------------------
(* Finding out, with the credentials stored by then.                       *)

\* Mutant: a gateway that is off is not asked.
MutantLookUpOff(s) ==
    LET g == paying[s].gateway
    IN  IF Usable(g) /\ methods[g].on /\ till[s] = "paid" THEN "paid" ELSE "null"

\* lookUpPayment: a gateway is asked whether it is on or not.  Without a pair of
\* keys the call fails; under another account Razorpay answers with an error,
\* where PayU has simply not found the payment.
LookUp(s) ==
    LET g == paying[s].gateway
    IN  IF ~Usable(g) \/ methods[g].secret # methods[g].account THEN "error"
        ELSE IF methods[g].account # paying[s].account THEN IF g = "PAYU" THEN "null" ELSE "error"
        ELSE IF till[s] = "paid" THEN "paid" ELSE "null"

\* A webhook, a return or the job finds the money: the order is written.
FindsPaid(s) ==
    /\ paying[s].at = "CREATED" /\ LookUp(s) = "paid"
    /\ paying' = [paying EXCEPT ![s].at = "ORDER_CREATED"]
    /\ UNCHANGED <<methods, methodEditor, till, methodSaves, refusals>>

\* The job gives up on one whose window has closed and that nobody paid.
ExpireSession(s) ==
    /\ paying[s].at = "CREATED" /\ paying[s].closed /\ LookUp(s) = "null"
    /\ paying' = [paying EXCEPT ![s].at = "EXPIRED"]
    /\ UNCHANGED <<methods, methodEditor, till, methodSaves, refusals>>

Reconcile(s) == FindsPaid(s) \/ ExpireSession(s)

MethodsNext ==
    \/ \E e \in SettingEditors : \/ \E p \in Providers : \E form \in SettingForms(p) : PostMethod(e, p, form)
                                 \/ \E c \in ChannelKeys, form \in ChannelForms : PostChannel(e, c, form)
                                 \/ \E order \in {<<"PAYU", "RAZORPAY", "COD">>, <<"RAZORPAY", "COD", "PAYU">>} :
                                       PostOrder(e, order)
                                 \/ WriteMethods(e)
    \/ \E s \in Shoppers : \/ \E option \in PayOptions \cup {"ANY"} : StartPayment(s, option)
                           \/ Prepare(s) \/ ReadCredentials(s) \/ OpenAtGateway(s) \/ GatewayRefuses(s)
                           \/ NobodyAnswers(s) \/ CustomerPays(s) \/ WindowCloses(s) \/ Reconcile(s)

MethodsSpec == MethodsInit /\ [][MethodsNext]_methodVars

\* The job is run every few minutes, and the window closes by the clock.
MethodsFairness == \A s \in Shoppers : WF_methodVars(Reconcile(s)) /\ WF_methodVars(WindowCloses(s))

-----------------------------------------------------------------------------
(* What the shop and its customers may rely on.                            *)

MethodsTypeOK ==
    /\ methods \in [SettingRows -> RowValues]
    /\ \A e \in SettingEditors : /\ methodEditor[e].at \in {"idle", "saving", "ordering"}
                                 /\ \A p \in DOMAIN methodEditor[e].rows : methodEditor[e].rows[p] \in RowValues
    /\ \A s \in Shoppers : /\ paying[s].at \in {"shopping", "preparing", "choosing", "opening", "CREATED",
                                                "ORDER_CREATED", "EXPIRED"}
                           /\ paying[s].gateway \in Providers
                           /\ paying[s].account \in Merchants \cup {""}
    /\ till \in [Shoppers -> {"none", "open", "paid"}]
    /\ methodSaves \in 0..MaxMethodSaves /\ refusals \in 0..MaxRefusals

\* Nothing is switched on with nothing behind it, whatever was typed, left blank
\* or cleared and in whatever order saves and reorders land: each writes a whole
\* row that was checked (payment-settings.ts:143-158, notifications.ts:220-224).
OnHasCredentials ==
    \A p \in SettingRows \ {"COD"} : methods[p].on =>
        /\ methods[p].secret # ""
        /\ p \in OnlineGateways => methods[p].account # ""

\* A session is given up on only if its money never came, as long as the account
\* it was opened under is still the one saved (reconcilePaymentSessions).
ExpiredWasNotPaid == \A s \in Shoppers : paying[s].at = "EXPIRED" => till[s] # "paid"

\* Switching a gateway off, or moving it down the list, strands nobody who had
\* got as far as paying there: their order is written all the same.
PaidBecomesAnOrder == \A s \in Shoppers : till[s] = "paid" ~> paying[s].at = "ORDER_CREATED"
-----------------------------------------------------------------------------
(* Why it holds.                                                           *)

\* What a save is about to write has what its switch needs; a reorder writes
\* what it read of every row but its place.
RowHasCredentials(p, row) ==
    p # "COD" /\ row.on => row.secret # "" /\ (p \in OnlineGateways => row.account # "")

SavesHaveCredentials ==
    \A e \in SettingEditors : \A p \in DOMAIN methodEditor[e].rows :
        RowHasCredentials(p, methodEditor[e].rows[p])

MethodsShape ==
    /\ DOMAIN methodEditor = SettingEditors
    /\ paying \in [Shoppers -> [at : {"shopping", "preparing", "choosing", "opening", "CREATED",
                                     "ORDER_CREATED", "EXPIRED"},
                                ways : Seq(OnlineGateways), gateway : Providers,
                                account : Merchants \cup {""}, closed : BOOLEAN]]

\* The account of a payment that is open is the one saved, pair of keys and all.
PaidWhereOpened ==
    \A s \in Shoppers :
        /\ paying[s].at \in {"opening", "CREATED"} =>
              /\ paying[s].gateway \in OnlineGateways
              /\ paying[s].account # "" =>
                    /\ methods[paying[s].gateway].account = paying[s].account
                    /\ methods[paying[s].gateway].secret = paying[s].account
        /\ paying[s].at = "CREATED" => paying[s].account # ""
        /\ paying[s].at = "EXPIRED" => paying[s].closed

MethodsInv ==
    /\ MethodsTypeOK /\ MethodsShape /\ SavesHaveCredentials /\ PaidWhereOpened
    /\ OnHasCredentials /\ ExpiredWasNotPaid

=============================================================================
