-------------------------------- MODULE Support --------------------------------
(***************************************************************************)
(* Conversations between one customer and the shop                         *)
(* (core/src/write/support.ts, core/src/read/support.ts): tickets opened   *)
(* under a cap, messages of both sides, the status both move, the page     *)
(* that polls for what is newer than the last id it holds, and the         *)
(* retention rule that clears closed conversations.                        *)
(*                                                                         *)
(* A talker is a request of the customer, of the staff, or the retention   *)
(* pass.  It reads, and what it writes on the strength of that it writes   *)
(* later; one that dies takes no further step.                             *)
(***************************************************************************)
EXTENDS Integers, FiniteSets, FiniteSetsExt

CONSTANTS
    Tickets,        \* conversations of one customer, numbered as they start
    Talkers,        \* requests and passes at work
    OpenCap,        \* SUPPORT_OPEN_TICKET_CAP
    MostMessages,   \* bound: messages written
    MostMoves,      \* bound: statuses set by hand, and years that pass
    ClearOverlap    \* may a message land between retention's list and its update?

ASSUME SupportAssumption ==
    /\ OpenCap \in Nat \ {0}
    /\ Tickets \subseteq Nat \ {0}
    /\ IsFiniteSet(Tickets) /\ IsFiniteSet(Talkers)
    /\ MostMessages \in Nat
    /\ MostMoves \in Nat
    /\ ClearOverlap \in BOOLEAN

VARIABLES
    ticket,     \* SupportTicket: status, last author, whether its last message is old
    message,    \* SupportMessage, by its id
    minted,     \* ids given out so far
    talker,     \* what each talker is doing
    screen,     \* the ids an open page of each ticket shows
    moves,      \* statuses set and years passed, against the bound
    ticketHistory     \* of a ticket: was it ever resolved; is a message of the customer's owed an answer

supportVars == <<ticket, message, minted, talker, screen, moves, ticketHistory>>

Authors == {"CUSTOMER", "ADMIN"}
TicketStatuses == {"OPEN", "WAITING_ON_CUSTOMER", "RESOLVED"}
Ids == 1..MostMessages

NoTicket  == [status |-> "none", from |-> "none", old |-> FALSE]
NoMessage == [ticket |-> 0, from |-> "none", text |-> FALSE, beside |-> {}]
Quiet == [at |-> "idle", ticket |-> 0, from |-> "none", id |-> 0, status |-> "none",
           listed |-> {}]

SupportInit ==
    /\ ticket = [t \in Tickets |-> NoTicket]
    /\ message = [i \in Ids |-> NoMessage]
    /\ minted = {}
    /\ talker = [w \in Talkers |-> Quiet]
    /\ screen = [t \in Tickets |-> {}]
    /\ moves = 0
    /\ ticketHistory = [t \in Tickets |-> [resolved |-> FALSE, owed |-> FALSE]]

Started == {t \in Tickets : ticket[t].status # "none"}
Said(t) == {i \in Ids : message[i].ticket = t}
InFlight == {talker[w].id : w \in Talkers} \ {0}
Clearing(t) == \E w \in Talkers : talker[w].at = "clear" /\ \E i \in talker[w].listed : message[i].ticket = t

\* What the cap counts.
OpenTickets == {t \in Started : ticket[t].status # "RESOLVED"}

\* A ULID: later ones are greater.
MintableIds == {i \in Ids : i = Cardinality(minted) + 1}

Awaiting(t) == ticket[t].status # "RESOLVED" /\ ticket[t].from = "CUSTOMER"

\* A message mints its id when it begins; those in flight then are beside it.
Begin(w, record) ==
    /\ talker[w] = Quiet
    /\ \E i \in MintableIds :
          /\ minted' = minted \cup {i}
          /\ talker' = [talker EXCEPT ![w] = [record EXCEPT !.id = i]]
          /\ message' = [message EXCEPT ![i].beside = InFlight]
    /\ UNCHANGED <<ticket, screen, moves, ticketHistory>>

-----------------------------------------------------------------------------

\* startTicket, up to its transaction: the cap is counted outside it.
OpenStart(w) ==
    /\ Cardinality(OpenTickets) < OpenCap
    /\ Begin(w, [Quiet EXCEPT !.at = "start"])

\* The message, and the columns the inbox orders and counts by.
Landed(w, t, from, status) ==
    /\ ticket' = [ticket EXCEPT ![t] = [status |-> status, from |-> from, old |-> FALSE]]
    /\ message' = [message EXCEPT ![talker[w].id].ticket = t, ![talker[w].id].from = from,
                                  ![talker[w].id].text = TRUE]
    /\ talker' = [talker EXCEPT ![w] = Quiet]
    /\ UNCHANGED <<minted, screen, moves>>

\* The ticket and its first message, in one transaction.
CommitStart(w) ==
    /\ talker[w].at = "start"
    /\ \E t \in Tickets \ Started :
          /\ t = 1 \/ t - 1 \in Started
          /\ Landed(w, t, "CUSTOMER", "OPEN")
          /\ ticketHistory' = [ticketHistory EXCEPT ![t].owed = TRUE]

\* postCustomerMessage and postAdminReply, up to their transactions.
OpenPost(w, t, from) ==
    /\ t \in Started
    /\ Begin(w, [Quiet EXCEPT !.at = "post", !.ticket = t, !.from = from])

\* Mutant: a reply leaves a resolved conversation closed.
MutantAfterPost(t, from) ==
    IF ticket[t].status = "RESOLVED" THEN "RESOLVED"
    ELSE IF from = "CUSTOMER" THEN "OPEN" ELSE "WAITING_ON_CUSTOMER"

\* The status a message leaves, whatever it was.
AfterPost(t, from) == IF from = "CUSTOMER" THEN "OPEN" ELSE "WAITING_ON_CUSTOMER"

\* The message and the ticket's columns, in one transaction.
CommitPost(w) ==
    /\ talker[w].at = "post"
    /\ LET t == talker[w].ticket
           from == talker[w].from
       IN  /\ ClearOverlap \/ ~Clearing(t)
           /\ Landed(w, t, from, AfterPost(t, from))
           /\ ticketHistory' = [ticketHistory EXCEPT ![t].owed = from = "CUSTOMER"]

\* setTicketStatus: what it read only decides whether it writes at all.
OpenStatus(w, t, status) ==
    /\ talker[w] = Quiet
    /\ t \in Started
    /\ ticket[t].status # status
    /\ talker' = [talker EXCEPT ![w] = [Quiet EXCEPT !.at = "status", !.ticket = t, !.status = status]]
    /\ moves < MostMoves
    /\ moves' = moves + 1
    /\ UNCHANGED <<ticket, message, minted, screen, ticketHistory>>

CommitStatus(w) ==
    /\ talker[w].at = "status"
    /\ LET t == talker[w].ticket
           resolving == talker[w].status = "RESOLVED"
       IN  /\ ClearOverlap \/ ~Clearing(t)
           /\ ticket' = [ticket EXCEPT ![t].status = talker[w].status]
           /\ ticketHistory' = [ticketHistory EXCEPT ![t].resolved = @ \/ resolving,
                                         ![t].owed = @ /\ ~resolving]
    /\ talker' = [talker EXCEPT ![w] = Quiet]
    /\ UNCHANGED <<message, minted, screen, moves>>

\* The cursor of an open page.
LastShown(t) == Max(screen[t] \cup {0})

\* getMyThread and getSupportThread: the page asks for what follows its last id.
Poll(t) ==
    /\ t \in Started
    /\ screen' = [screen EXCEPT ![t] = @ \cup {i \in Said(t) : i > LastShown(t)}]
    /\ screen' # screen
    /\ UNCHANGED <<ticket, message, minted, talker, moves, ticketHistory>>

\* A year of retention passes over a ticket.
GrowOld(t) ==
    /\ t \in Started
    /\ ~ticket[t].old
    /\ ticket' = [ticket EXCEPT ![t].old = TRUE]
    /\ moves < MostMoves
    /\ moves' = moves + 1
    /\ UNCHANGED <<message, minted, talker, screen, ticketHistory>>

\* The messages retention lists.
ClosedLongAgo ==
    {i \in Ids : message[i].text /\ ticket[message[i].ticket].old
                 /\ ticket[message[i].ticket].status = "RESOLVED"}

\* clearClosedSupport: the messages are listed, then cleared by their ids.
ListClosed(w) ==
    /\ talker[w] = Quiet
    /\ ClosedLongAgo # {}
    /\ talker' = [talker EXCEPT ![w] = [Quiet EXCEPT !.at = "clear", !.listed = ClosedLongAgo]]
    /\ UNCHANGED <<ticket, message, minted, screen, moves, ticketHistory>>

ClearListed(w) ==
    /\ talker[w].at = "clear"
    /\ message' = [i \in Ids |-> IF i \in talker[w].listed THEN [message[i] EXCEPT !.text = FALSE] ELSE message[i]]
    /\ talker' = [talker EXCEPT ![w] = Quiet]
    /\ UNCHANGED <<ticket, minted, screen, moves, ticketHistory>>

SupportNext ==
    \/ \E w \in Talkers :
          \/ OpenStart(w) \/ CommitStart(w) \/ CommitPost(w) \/ CommitStatus(w)
          \/ ListClosed(w) \/ ClearListed(w)
          \/ \E t \in Tickets : \/ \E from \in Authors : OpenPost(w, t, from)
                                \/ \E status \in TicketStatuses : OpenStatus(w, t, status)
    \/ \E t \in Tickets : Poll(t) \/ GrowOld(t)

-----------------------------------------------------------------------------

SupportTypeOK ==
    /\ ticket \in [Tickets -> [status : TicketStatuses \cup {"none"}, from : Authors \cup {"none"}, old : BOOLEAN]]
    /\ message \in [Ids -> [ticket : Tickets \cup {0}, from : Authors \cup {"none"},
                            text : BOOLEAN, beside : SUBSET Ids]]
    /\ minted \subseteq Ids
    /\ \A w \in Talkers : /\ talker[w].at \in {"idle", "start", "post", "status", "clear"}
                          /\ talker[w].id \in minted \cup {0}
    /\ screen \in [Tickets -> SUBSET Ids]
    /\ moves \in 0..MostMoves

\* A page that polls misses a message only if it was being written when the
\* one it took for the newest was begun: ids follow the clock, commits do not
\* (read/support.ts messageWhere).
MissedWereInFlight ==
    \A t \in Tickets : \A i \in Said(t) \ screen[t] :
        i < LastShown(t) => \E j \in screen[t] : i \in message[j].beside

\* The inbox's author and its preview, read from the ticket and from the
\* greatest id, name one message, unless two were being written at once.
PreviewIsTheLast ==
    \A t \in Started :
        LET newest == Max(Said(t))
        IN  \/ ticket[t].from = message[newest].from
            \/ \E i \in Said(t) : i \in message[newest].beside

\* The cap is counted outside the transaction that opens a ticket, so requests
\* side by side exceed it by what they are; nothing else does but replies to
\* conversations that had been closed.
CapHeldButForOverlap ==
    Cardinality({t \in OpenTickets : ~ticketHistory[t].resolved}) <= OpenCap + Cardinality(Talkers) - 1

\* What the customer said last stands in the shop's queue until the shop
\* answers or closes the conversation, whatever state the ticket was in.
UnansweredIsAwaited == \A t \in Tickets : ticketHistory[t].owed => Awaiting(t)

\* Retention takes the words of closed conversations alone, as long as nobody
\* reopens one between its list and its update.
OpenWordsAreKept ==
    [][\A i \in Ids : message[i].text /\ ~message'[i].text
          => ticket[message[i].ticket].status = "RESOLVED" /\ ticket[message[i].ticket].old]_supportVars

-----------------------------------------------------------------------------
(* Why it holds.                                                           *)

TalkerType ==
    [at : {"idle", "start", "post", "status", "clear"}, ticket : Tickets \cup {0}, from : Authors \cup {"none"},
     id : minted \cup {0}, status : TicketStatuses \cup {"none"}, listed : SUBSET Ids]

SupportTyped ==
    /\ SupportTypeOK
    /\ talker \in [Talkers -> TalkerType]
    /\ ticketHistory \in [Tickets -> [resolved : BOOLEAN, owed : BOOLEAN]]
    /\ \E n \in 0..MostMessages : minted = 1..n

\* What a talker is about to write, and that nobody else writes under its id.
TalkersHold ==
    \A w \in Talkers :
        LET h == talker[w]
        IN  /\ h.id # 0 <=> h.at \in {"start", "post"}
            /\ h.id # 0 => message[h.id].ticket = 0 /\ \A v \in Talkers \ {w} : talker[v].id # h.id
            /\ h.at = "post" => h.ticket \in Started /\ h.from \in Authors
            /\ h.at = "status" => h.ticket \in Started /\ h.status \in TicketStatuses
            /\ h.at = "clear" => \A i \in h.listed : /\ message[i].ticket \in Started
                                                     /\ ClearOverlap \/ (ticket[message[i].ticket].status = "RESOLVED"
                                                                         /\ ticket[message[i].ticket].old)

MessagesHold ==
    \A i \in Ids : /\ message[i].ticket # 0 => i \in minted /\ message[i].ticket \in Started
                   /\ message[i].text => message[i].ticket # 0

ThreadsHold ==
    \A t \in Tickets : /\ screen[t] \subseteq Said(t)
                       /\ t \in Started => Said(t) # {} /\ ticket[t].from \in Authors
                       /\ t \notin Started => ~ticketHistory[t].owed
                       /\ ticket[t].status = "RESOLVED" => ticketHistory[t].resolved

\* Whatever was begun while a message is being written is beside it.
StillWritten ==
    \A w \in Talkers : talker[w].id # 0 =>
        \A j \in minted : j > talker[w].id => talker[w].id \in message[j].beside

Opening == {w \in Talkers : talker[w].at = "start"}
NeverResolved == {t \in OpenTickets : ~ticketHistory[t].resolved}
RoomIsLeft == Cardinality(NeverResolved) + Cardinality(Opening) <= OpenCap + Cardinality(Talkers) - 1

SupportInv ==
    /\ SupportTyped /\ TalkersHold /\ MessagesHold /\ ThreadsHold /\ StillWritten /\ RoomIsLeft
    /\ MissedWereInFlight /\ PreviewIsTheLast /\ UnansweredIsAwaited

=============================================================================
