------------------------------ MODULE Incidents ------------------------------
(***************************************************************************)
(* Telling people of a data breach (core/src/write/privacy-incidents.ts).  *)
(* One press of Send walks the accounts in the audience a page at a time,  *)
(* then the numbers that had no account when it was pressed, and counts    *)
(* who has been told.  It can be pressed on several servers, and again     *)
(* after one of them went down; meanwhile people sign up and are erased,   *)
(* and the retry job sends what was left queued.  Two retry passes side by *)
(* side are in Notifications.  WhatsApp and the template stay switched on, *)
(* and one erased does not sign up again.                                  *)
(***************************************************************************)
EXTENDS Integers, FiniteSets, FiniteSetsExt

CONSTANTS
    People,         \* the numbers pasted, 1..n; an account's id follows its number
    Strangers,      \* those that have no account to begin with
    Servers,        \* processes
    Batch,          \* BATCH
    MostPresses,    \* bound: presses of Send
    MostUnheard,    \* bound: people to whom a notice went without the answer arriving
    MostTurns       \* bound: sign-ups, erasures, retries, servers down, and log purges

ASSUME IncidentsAssumption ==
    /\ People \subseteq Nat \ {0} /\ IsFiniteSet(People) /\ Strangers \subseteq People
    /\ Batch \in Nat \ {0} /\ {MostPresses, MostUnheard, MostTurns} \subseteq Nat

VARIABLES
    standing,    \* each person: without an account, with one, or erased
    notices,     \* NotificationMessage rows of the incident: who, by which key, and how it went
    notified,    \* notifiedCount
    send,        \* each server's runSend
    reached,     \* how often WhatsApp took the notice for each person
    unheard,     \* people whose notice it took without its answer arriving
    rekeyed,     \* people who signed up or were erased after Send was first pressed
    missed,      \* people a page passed over because its cursor was erased
    purged,      \* whether the log was emptied
    presses, turns

incidentVars == <<standing, notices, notified, send, reached, unheard, rekeyed, missed, purged, presses, turns>>

Keys == {"account", "number"}
NotSending == [at |-> "idle", cursor |-> 0, batch |-> {}, without |-> {}, sent |-> 0]
Accounts == {x \in People : standing[x] = "account"}
Rows(x) == {n \in notices : n.who = x}

IncidentsInit ==
    /\ standing = [x \in People |-> IF x \in Strangers THEN "stranger" ELSE "account"]
    /\ notices = {} /\ notified = 0
    /\ send = [s \in Servers |-> NotSending]
    /\ reached = [x \in People |-> 0]
    /\ unheard = {} /\ rekeyed = {} /\ missed = {} /\ purged = FALSE /\ presses = 0 /\ turns = 0

Turn == turns < MostTurns /\ turns' = turns + 1

-----------------------------------------------------------------------------

\* resolveAudience: the numbers without an account are fixed here, while the
\* accounts are looked up page by page.  An erased account has given up its number,
\* which is then one without an account.  Each server refuses only its own second run.
PressSend(s) ==
    /\ send[s].at = "idle" /\ presses < MostPresses
    /\ presses' = presses + 1
    /\ send' = [send EXCEPT ![s] = [NotSending EXCEPT !.at = "page", !.without = People \ Accounts]]
    /\ UNCHANGED <<standing, notices, notified, reached, unheard, rekeyed, missed, purged, turns>>

Lowest(xs, count) == {x \in xs : Cardinality({y \in xs : y < x}) < count}

\* Mutant: a page begins after the cursor, and leaves out its first account too.
MutantFromCursor(cursor) ==
    LET from == {x \in Accounts : x > cursor}
    IN  IF cursor = 0 \/ from = {} THEN from ELSE from \ {Min(from)}

\* The accounts at the cursor or after it, without the first of them.
FromCursor(cursor) ==
    LET from == {x \in Accounts : x >= cursor}
    IN  IF cursor = 0 \/ from = {} THEN from ELSE from \ {Min(from)}

NextCursor(batch, cursor) == Max(batch)

\* The next page; after the last one, the numbers without an account.
NextPage(s) ==
    LET cursor == send[s].cursor
        batch  == Lowest(FromCursor(cursor), Batch)
    IN  /\ send[s].at = "page"
        /\ send' = [send EXCEPT ![s] =
              IF batch = {} THEN [@ EXCEPT !.at = "strangers", !.batch = send[s].without]
              ELSE [@ EXCEPT !.at = "accounts", !.batch = batch, !.cursor = NextCursor(batch, cursor)]]
        /\ missed' = IF cursor # 0 /\ cursor \notin Accounts
                     THEN missed \cup ({x \in Accounts : x > cursor} \ FromCursor(cursor)) ELSE missed
        /\ UNCHANGED <<standing, notices, notified, reached, unheard, rekeyed, purged, presses, turns>>

KeyOf(s) == IF send[s].at = "accounts" THEN "account" ELSE "number"

\* notify: a row of that key is already there.
Already(x, key) == \E n \in notices : n.who = x /\ n.key = key

Outcomes == {"SENT", "QUEUED"}

\* attempt: SENT is written when WhatsApp's answer arrives.  Without it (a timeout, the
\* process down) the row is left QUEUED, though the notice may have been taken.  A row
\* given up as FAILED is one left QUEUED that the retry job never comes to.
Attempt(x, outcome, taken) ==
    /\ outcome = "SENT" => taken
    /\ reached' = IF taken THEN [reached EXCEPT ![x] = @ + 1] ELSE reached
    /\ unheard' = IF taken /\ outcome # "SENT" THEN unheard \cup {x} ELSE unheard
    /\ Cardinality(unheard') <= MostUnheard

\* An account's number, once it is erased, is a placeholder.
Placeholder(x, key) == key = "account" /\ standing[x] = "erased"

\* notifyCustomerNow and notifyPhoneNow: a row by that key, and WhatsApp's answer to it.
TellNext(s, outcome, taken) ==
    LET x   == Min(send[s].batch)
        key == KeyOf(s)
    IN  /\ send[s].at \in {"accounts", "strangers"} /\ send[s].batch # {}
        /\ send' = [send EXCEPT ![s].batch = @ \ {x}]
        /\ \/ /\ Already(x, key)
              /\ UNCHANGED <<notices, reached, unheard>>
           \/ /\ ~Already(x, key) /\ Placeholder(x, key)
              /\ notices' = notices \cup {[who |-> x, key |-> key, status |-> "SKIPPED"]}
              /\ UNCHANGED <<reached, unheard>>
           \/ /\ ~Already(x, key) /\ ~Placeholder(x, key)
              /\ notices' = notices \cup {[who |-> x, key |-> key, status |-> outcome]}
              /\ Attempt(x, outcome, taken)
        /\ UNCHANGED <<standing, notified, rekeyed, missed, purged, presses, turns>>

\* refreshNotifiedCount reads how many were accepted, after a page and at the end,
CountSent(s) ==
    /\ send[s].at \in {"accounts", "strangers"} /\ send[s].batch = {}
    /\ send' = [send EXCEPT ![s].at = IF @ = "accounts" THEN "count page" ELSE "count all",
                            ![s].sent = Cardinality({n \in notices : n.status = "SENT"})]
    /\ UNCHANGED <<standing, notices, notified, reached, unheard, rekeyed, missed, purged, presses, turns>>

\* and only ever raises the count.
HigherCount(sent) == IF notified < sent THEN sent ELSE notified

RefreshCount(s) ==
    /\ send[s].at \in {"count page", "count all"}
    /\ notified' = HigherCount(send[s].sent)
    /\ send' = [send EXCEPT ![s] = IF @.at = "count page" THEN [@ EXCEPT !.at = "page"] ELSE NotSending]
    /\ UNCHANGED <<standing, notices, reached, unheard, rekeyed, missed, purged, presses, turns>>

-----------------------------------------------------------------------------
(* Meanwhile *)

Rekeyed(x) == IF presses = 0 THEN rekeyed ELSE rekeyed \cup {x}

SignUp(x) ==
    /\ Turn /\ standing[x] = "stranger"
    /\ standing' = [standing EXCEPT ![x] = "account"]
    /\ rekeyed' = Rekeyed(x)
    /\ UNCHANGED <<notices, notified, send, reached, unheard, missed, purged, presses>>

EraseAccount(x) ==
    /\ Turn /\ x \in Accounts
    /\ standing' = [standing EXCEPT ![x] = "erased"]
    /\ rekeyed' = Rekeyed(x)
    /\ UNCHANGED <<notices, notified, send, reached, unheard, missed, purged, presses>>

\* The retry job sends a queued notice again, on any server.
RetryNotice(n, outcome, taken) ==
    /\ Turn /\ n.status = "QUEUED"
    /\ notices' = (notices \ {n}) \cup {[n EXCEPT !.status = outcome]}
    /\ IF Placeholder(n.who, n.key) THEN UNCHANGED <<reached, unheard>> ELSE Attempt(n.who, outcome, taken)
    /\ UNCHANGED <<standing, notified, send, rekeyed, missed, purged, presses>>

\* The process goes down; `sending` and the walk were only in it.
ServerDown(s) ==
    /\ Turn /\ send[s].at # "idle"
    /\ send' = [send EXCEPT ![s] = NotSending]
    /\ UNCHANGED <<standing, notices, notified, reached, unheard, rekeyed, missed, purged, presses>>

\* The message log is deleted after a year, when no run is going.
PurgeLog ==
    /\ Turn /\ notices # {} /\ \A s \in Servers : send[s].at = "idle"
    /\ notices' = {} /\ purged' = TRUE
    /\ UNCHANGED <<standing, notified, send, reached, unheard, rekeyed, missed, presses>>

SendMoves(s) ==
    \/ NextPage(s)
    \/ \E outcome \in Outcomes, taken \in BOOLEAN : TellNext(s, outcome, taken)
    \/ CountSent(s)
    \/ RefreshCount(s)

IncidentsNext ==
    \/ \E s \in Servers : PressSend(s) \/ SendMoves(s) \/ ServerDown(s)
    \/ \E x \in People : SignUp(x) \/ EraseAccount(x)
    \/ \E n \in notices, outcome \in Outcomes, taken \in BOOLEAN : RetryNotice(n, outcome, taken)
    \/ PurgeLog

\* A process that is up goes on with what it is doing.
IncidentsFairness == \A s \in Servers : WF_incidentVars(SendMoves(s))

-----------------------------------------------------------------------------

IncidentsTypeOK ==
    /\ standing \in [People -> {"stranger", "account", "erased"}]
    /\ notices \subseteq [who : People, key : Keys, status : Outcomes \cup {"SKIPPED"}]
    /\ reached \in [People -> Nat] /\ notified \in Nat
    /\ \A s \in Servers : send[s].batch \subseteq People

\* However often and wherever Send is pressed, nobody is told twice, as the header
\* (privacy-incidents.ts:15-16) and the alert of runSend (252) have it: but for one who
\* signed up or was erased since, who has another key now, but for one whose first
\* notice was taken without its answer arriving, which the retry job sends again, and
\* but for a log that is gone.  For those three the comments do not hold.
NobodyToldTwice == ~purged => \A x \in People : reached[x] > 1 => x \in rekeyed \cup unheard

\* When a run comes to its end, everyone it set out to tell has a notice, but for
\* those erased since and those a page passed over because of one erased.
EveryoneHasANotice ==
    \A s \in Servers : send[s].at = "count all" /\ ~purged =>
        \A x \in People : Rows(x) # {} \/ (standing[x] = "erased" /\ x \in rekeyed) \/ x \in missed

\* The record of how many were told outlives the log (privacy-incidents.ts:264-268).
CountOnlyRises == [][notified' >= notified]_incidentVars

\* A run that has begun comes to an end.
SendEnds == \A s \in Servers : []<>(send[s].at = "idle")

-----------------------------------------------------------------------------
(* Why it holds.                                                           *)

SendType ==
    [at : {"idle", "page", "accounts", "strangers", "count page", "count all"}, cursor : People \cup {0},
     batch : SUBSET People, without : SUBSET People, sent : Nat]

IncidentsTyped ==
    /\ IncidentsTypeOK
    /\ send \in [Servers -> SendType]
    /\ IsFiniteSet(notices) /\ unheard \subseteq People /\ rekeyed \subseteq People /\ missed \subseteq People /\ purged \in BOOLEAN
    /\ presses \in 0..MostPresses /\ turns \in 0..MostTurns

AsAccount(x) == standing[x] = "account" \/ x \in rekeyed
AsNumber(x) == standing[x] # "account" \/ x \in rekeyed

\* A key is the account's or the number's as the person stood when Send was pressed.
KeysHold ==
    /\ \A s \in Servers : send[s].at # "idle" => presses > 0
    /\ \A s \in Servers : \A x \in send[s].without : send[s].at # "idle" => AsNumber(x)
    /\ \A s \in Servers : \A x \in send[s].batch : /\ send[s].at = "accounts" => AsAccount(x)
                                                   /\ send[s].at = "strangers" => x \in send[s].without
    /\ \A n \in notices : /\ presses > 0
                          /\ n.key = "account" => AsAccount(n.who)
                          /\ n.key = "number" => AsNumber(n.who)

OneRowAKey == \A m, n \in notices : m.who = n.who /\ m.key = n.key => m = n

SentBy(x, key) == \E n \in notices : n.who = x /\ n.key = key /\ n.status = "SENT"

\* WhatsApp took no more of a person's notices, all of them heard of, than there are
\* keys by which a row of theirs is SENT.
ReachedByRows ==
    ~purged => \A x \in People \ unheard :
        reached[x] <= (IF SentBy(x, "account") THEN 1 ELSE 0) + (IF SentBy(x, "number") THEN 1 ELSE 0)

Settled(x) == Rows(x) # {} \/ (standing[x] = "erased" /\ x \in rekeyed) \/ x \in missed

\* Whom a run has not told yet is in its page or after it, or among its numbers.
Walked(c, x) ==
    /\ c.at \in {"page", "accounts", "count page"} =>
          \/ Settled(x) \/ x \in c.without
          \/ c.at = "accounts" /\ x \in c.batch
          \/ standing[x] = "account" /\ x > c.cursor
    /\ c.at = "strangers" => Settled(x) \/ x \in c.batch
    /\ c.at = "count all" => Settled(x)

WalkHolds == ~purged => \A s \in Servers : \A x \in People : Walked(send[s], x)

IncidentsInv == IncidentsTyped /\ KeysHold /\ OneRowAKey /\ ReachedByRows /\ WalkHolds

=============================================================================
