------------------------------ MODULE OrderLedger ------------------------------
(***************************************************************************)
(* The payment ledger of one order (core/src/write/orders.ts, its totals   *)
(* in shared/src/payments.ts): entries typed by hand, their deletion, and  *)
(* the figures cached on the order.                                        *)
(*                                                                         *)
(* The cap on a refund is read before the transaction that records it.     *)
(* That transaction is one step: the entry's foreign key locks the order,  *)
(* so its recount sees all that was recorded before.  A deletion locks the *)
(* order only when it writes its recount: reading and writing are two.     *)
(***************************************************************************)
EXTENDS Integers, Sequences, SequencesExt

CONSTANTS
    Cashiers,       \* calls at work
    OrderTotal,     \* grandTotal
    WalletPaid,     \* what the wallet paid when the order was placed, or 0
    MaxAmount,      \* bound: the amount of one entry
    MaxEntries,     \* bound: entries recorded by hand, in all
    LedgerOverlap   \* may a deletion overlap another call?

ASSUME OrderLedgerAssumption ==
    /\ OrderTotal \in Nat \ {0}
    /\ WalletPaid \in 0..OrderTotal
    /\ MaxAmount \in Nat \ {0}
    /\ MaxEntries \in Nat
    /\ LedgerOverlap \in BOOLEAN

VARIABLES
    ledger,    \* PaymentTransaction rows, in the order of occurredAt
    figures,   \* the order's paymentStatus, amountPaid and amountRefunded
    cashier,   \* what each call is doing
    recorded   \* entries recorded so far; the next one's id

ledgerVars == <<ledger, figures, cashier, recorded>>

EntryKinds == {"PAYMENT", "REFUND"}
EntryStatuses == {"PENDING", "AUTHORIZED", "SUCCESS", "FAILED"}
PayStatuses == {"PENDING", "PAID", "FAILED", "REFUNDED", "PARTIALLY_REFUNDED"}

\* recordPaymentSchema: an amount above zero, and no failed refund.
EntryForms ==
    {form \in [kind : EntryKinds, status : {"PENDING", "SUCCESS", "FAILED"}, amount : 1..MaxAmount] :
        form.status = "FAILED" => form.kind = "PAYMENT"}

Entry(id, gateway, form) ==
    [id |-> id, gateway |-> gateway, kind |-> form.kind, status |-> form.status, amount |-> form.amount]

-----------------------------------------------------------------------------
(* totalPayments and derivePaymentStatus.                                  *)

IsSettled(e) == e.status = "SUCCESS"

Counts(e, kind) == IF e.kind = kind /\ IsSettled(e) THEN e.amount ELSE 0

TotalOf(rows, kind) == SumFunctionOnSet([i \in DOMAIN rows |-> Counts(rows[i], kind)], DOMAIN rows)

LastAttemptFailed(rows) ==
    LET attempts == SelectSeq(rows, LAMBDA e : e.kind = "PAYMENT")
    IN  attempts # <<>> /\ Last(attempts).status = "FAILED"

DerivePaymentStatus(rows) ==
    LET paid == TotalOf(rows, "PAYMENT")
        refunded == TotalOf(rows, "REFUND")
    IN  CASE refunded > 0 /\ refunded >= paid -> "REFUNDED"
          [] refunded > 0 /\ refunded < paid -> "PARTIALLY_REFUNDED"
          [] refunded = 0 /\ paid >= OrderTotal -> "PAID"
          [] refunded = 0 /\ paid < OrderTotal ->
               IF paid = 0 /\ LastAttemptFailed(rows) THEN "FAILED" ELSE "PENDING"

\* refreshOrderPaymentState: recomputed in full, never adjusted.
FiguresOf(rows) ==
    [status |-> DerivePaymentStatus(rows),
     paid |-> TotalOf(rows, "PAYMENT"), refunded |-> TotalOf(rows, "REFUND")]

-----------------------------------------------------------------------------

NoForm == [kind |-> "PAYMENT", status |-> "PENDING", amount |-> 0]

IdleCashier == [at |-> "idle", form |-> NoForm, id |-> 0, seen |-> <<>>]

OpeningLedger ==
    IF WalletPaid = 0 THEN <<>>
    ELSE <<Entry(0, "STORE_CREDIT", [kind |-> "PAYMENT", status |-> "SUCCESS", amount |-> WalletPaid])>>

LedgerInit ==
    /\ ledger = OpeningLedger
    /\ figures = FiguresOf(OpeningLedger)
    /\ cashier = [c \in Cashiers |-> IdleCashier]
    /\ recorded = 0

Deleting == \E c \in Cashiers : cashier[c].at = "deleting"

Refundable == TotalOf(ledger, "PAYMENT") - TotalOf(ledger, "REFUND")

\* recordPaymentTransaction, up to its transaction: a refund that counts at
\* once is held against what is left to refund.
OpenEntry(c, form) ==
    /\ cashier[c] = IdleCashier
    /\ form.kind = "REFUND" /\ form.status = "SUCCESS" => form.amount <= Refundable
    /\ cashier' = [cashier EXCEPT ![c] = [IdleCashier EXCEPT !.at = "recording", !.form = form]]
    /\ UNCHANGED <<ledger, figures, recorded>>

\* An entry may be dated before others.
RecordEntry(c) ==
    /\ cashier[c].at = "recording"
    /\ recorded < MaxEntries
    /\ LedgerOverlap \/ ~ Deleting
    /\ \E i \in 1..(Len(ledger) + 1) :
          LET rows == InsertAt(ledger, i, Entry(recorded + 1, "CASH", cashier[c].form))
          IN  ledger' = rows /\ figures' = FiguresOf(rows)
    /\ recorded' = recorded + 1
    /\ cashier' = [cashier EXCEPT ![c] = IdleCashier]

\* No two rows have one id.
Without(rows, id) ==
    LET places == {i \in DOMAIN rows : rows[i].id = id}
    IN  IF places = {} THEN rows ELSE RemoveAt(rows, CHOOSE i \in places : TRUE)

\* deletePaymentTransaction: what the wallet paid is not removed here.  The
\* row goes and the rest is read, and then the figures are written.
OpenEntryDeletion(c, e) ==
    /\ cashier[c] = IdleCashier
    /\ LedgerOverlap \/ ~ Deleting
    /\ e.gateway # "STORE_CREDIT"
    /\ cashier' = [cashier EXCEPT ![c] = [IdleCashier EXCEPT !.at = "deleting", !.id = e.id,
                                                             !.seen = Without(ledger, e.id)]]
    /\ UNCHANGED <<ledger, figures, recorded>>

FiguresAfterDeletion(c) == FiguresOf(cashier[c].seen)

\* A row that another call deleted meanwhile makes this one fail.
DeleteEntry(c) ==
    /\ cashier[c].at = "deleting"
    /\ IF Without(ledger, cashier[c].id) = ledger THEN UNCHANGED <<ledger, figures>>
       ELSE /\ ledger' = Without(ledger, cashier[c].id)
            /\ figures' = FiguresAfterDeletion(c)
    /\ cashier' = [cashier EXCEPT ![c] = IdleCashier]
    /\ UNCHANGED recorded

CashierDies(c) ==
    /\ cashier[c] # IdleCashier
    /\ cashier' = [cashier EXCEPT ![c] = IdleCashier]
    /\ UNCHANGED <<ledger, figures, recorded>>

LedgerNext ==
    \/ \E c \in Cashiers, form \in EntryForms : OpenEntry(c, form)
    \/ \E c \in Cashiers, i \in DOMAIN ledger : OpenEntryDeletion(c, ledger[i])
    \/ \E c \in Cashiers : RecordEntry(c) \/ DeleteEntry(c) \/ CashierDies(c)

LedgerSpec == LedgerInit /\ [][LedgerNext]_ledgerVars

-----------------------------------------------------------------------------
(* What the ledger promises.                                               *)

LedgerTypeOK ==
    /\ \A i \in DOMAIN ledger :
          /\ ledger[i].id \in 0..MaxEntries
          /\ ledger[i].kind \in EntryKinds
          /\ ledger[i].status \in EntryStatuses
          /\ ledger[i].amount \in Nat
    /\ figures \in [status : PayStatuses, paid : Nat, refunded : Nat]
    /\ \A c \in Cashiers : cashier[c].at \in {"idle", "recording", "deleting"}
    /\ recorded \in 0..MaxEntries

\* The figures on the order are those of its ledger, whatever was backdated,
\* corrected or deleted, calls following one another ("recomputed in full —
\* never adjusted").
FiguresAreTheLedger == figures = FiguresOf(ledger)

\* An order reads PAID only when what has come in, and stayed in, covers it:
\* no part payment, no pending one, no refunded one (derivePaymentStatus).
PaidMeansReceived ==
    figures.status = "PAID" =>
        SumFunctionOnSet([i \in DOMAIN ledger |-> IF ledger[i].status # "SUCCESS" THEN 0
                                                  ELSE IF ledger[i].kind = "PAYMENT" THEN ledger[i].amount
                                                  ELSE -ledger[i].amount],
                         DOMAIN ledger) >= OrderTotal

-----------------------------------------------------------------------------
(* Why the figures are: what a deletion has read is still the ledger.      *)

DeletionsSawIt ==
    /\ \A c \in Cashiers : cashier[c].at = "deleting" => cashier[c].seen = Without(ledger, cashier[c].id)
    /\ \A c, d \in Cashiers : cashier[c].at = "deleting" /\ cashier[d].at = "deleting" => c = d

\* What is written, and what is about to be, is what the form lets through.
EntriesTyped ==
    /\ ledger \in Seq([id : 0..MaxEntries, gateway : {"STORE_CREDIT", "CASH"}, kind : EntryKinds,
                        status : EntryStatuses, amount : Nat])
    /\ \A c \in Cashiers : /\ cashier[c].at \in {"idle", "recording", "deleting"}
                           /\ cashier[c].at = "recording" => cashier[c].form \in EntryForms
    /\ recorded \in 0..MaxEntries

LedgerInv == FiguresAreTheLedger /\ DeletionsSawIt /\ EntriesTyped /\ DOMAIN cashier = Cashiers
=============================================================================
