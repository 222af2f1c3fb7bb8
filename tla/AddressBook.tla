----------------------------- MODULE AddressBook -----------------------------
(***************************************************************************)
(* A customer's saved addresses (core/src/write/customer-account.ts).  A   *)
(* save is one transaction, deciding from a count its snapshot took; a     *)
(* removal is four statements with nothing around them.  Orders add to the *)
(* book too (create-order.ts).  A clearing of defaults locks the book, or  *)
(* the gap where it would be, so a save's writes are one step.             *)
(***************************************************************************)
EXTENDS Integers, FiniteSets

CONSTANTS
    Owners,        \* customers
    Entries,       \* rows that may be made, numbered as they are
    MaxAddresses,  \* MAX_ADDRESSES
    Keepers,       \* calls that may be under way together
    MaxBookCalls   \* bound: calls made

ASSUME BookAssumption ==
    /\ IsFiniteSet(Entries) /\ Entries = 1..Cardinality(Entries)
    /\ IsFiniteSet(Keepers) /\ "nobody" \notin Owners
    /\ MaxAddresses \in Nat \ {0} /\ MaxBookCalls \in Nat

Nobody == "nobody"
NoEntry == [owner |-> Nobody, default |-> FALSE, filed |-> "none"]
Unmade == 0
AtEase == [at |-> "idle", owner |-> Nobody, entry |-> Unmade, tick |-> FALSE, counted |-> 0]

VARIABLES
    book,      \* Address rows: whose, whether isDefault, and what filed them
    lastMade,  \* the newest row
    keeper,    \* calls under way, and what they read
    doubt,     \* of each customer: what has happened that the default may suffer from
    bookCalls

bookVars == <<book, lastMade, keeper, doubt, bookCalls>>

BookInit ==
    /\ book = [e \in Entries |-> NoEntry] /\ lastMade = 0
    /\ keeper = [k \in Keepers |-> AtEase]
    /\ doubt = [o \in Owners |-> {}]
    /\ bookCalls = 0

Of(o) == {e \in Entries : book[e].owner = o}
Defaults(o) == {e \in Of(o) : book[e].default}
Newest(es) == CHOOSE e \in es : \A f \in es : f <= e

Removing == {"remove", "find", "count", "promote"}
Busy(o) == {k \in Keepers : keeper[k].owner = o}
Idle(k) == keeper' = [keeper EXCEPT ![k] = AtEase]

\* A removal and any other call of the same customer cross.
Crossing(o, removal) ==
    IF \E k \in Busy(o) : removal \/ keeper[k].at \in Removing THEN {"crossed"} ELSE {}

BeginCall(k, call) ==
    /\ keeper[k].at = "idle" /\ bookCalls < MaxBookCalls
    /\ bookCalls' = bookCalls + 1
    /\ keeper' = [keeper EXCEPT ![k] = call]
    /\ doubt' = [doubt EXCEPT ![call.owner] = @ \cup Crossing(call.owner, call.at \in Removing)]
    /\ UNCHANGED <<book, lastMade>>

-----------------------------------------------------------------------------
(* Saving.                                                                 *)

\* saveMyAddress, up to its count; an entry may be any row, another's too.
OpenSave(k, o, e, tick) ==
    BeginCall(k, [at |-> "save", owner |-> o, entry |-> e, tick |-> tick, counted |-> Cardinality(Of(o))])

\* The first address is the default whether asked for or not.
ShouldDefault(call) == call.tick \/ call.counted = 0

\* The owner is in the filter; a new one needs room.
MayWrite(call) ==
    IF call.entry = Unmade THEN call.counted < MaxAddresses ELSE call.entry \in Of(call.owner)

\* The default cleared and the row written. An edit that leaves the box
\* unticked takes the default from the row that had it.
CommitSave(k) ==
    LET call == keeper[k]
        o == call.owner
        target == IF call.entry = Unmade THEN lastMade + 1 ELSE call.entry
        cleared == [e \in Entries |-> IF e \in Of(o) /\ ShouldDefault(call)
                                      THEN [book[e] EXCEPT !.default = FALSE] ELSE book[e]]
        row == [owner |-> o, default |-> ShouldDefault(call),
                filed |-> IF call.entry = Unmade THEN "form" ELSE book[target].filed]
    IN  /\ call.at = "save" /\ (call.entry = Unmade => target \in Entries)
        /\ book' = IF MayWrite(call) THEN [cleared EXCEPT ![target] = row] ELSE book
        /\ lastMade' = IF MayWrite(call) /\ call.entry = Unmade THEN target ELSE lastMade
        /\ doubt' = [doubt EXCEPT ![o] =
                        IF ~MayWrite(call) THEN @
                        ELSE IF ShouldDefault(call) THEN (IF Busy(o) = {k} THEN {} ELSE @)
                        ELSE IF target \in Defaults(o) THEN @ \cup {"unticked"} ELSE @]
        /\ Idle(k)
        /\ UNCHANGED bookCalls

\* writeOrder with saveAddress: into the book, never its default, and not held
\* to the cap.
FileWithOrder(o) ==
    /\ bookCalls < MaxBookCalls /\ bookCalls' = bookCalls + 1
    /\ lastMade + 1 \in Entries /\ lastMade' = lastMade + 1
    /\ book' = [book EXCEPT ![lastMade + 1] = [owner |-> o, default |-> FALSE, filed |-> "order"]]
    /\ doubt' = [doubt EXCEPT ![o] = @ \cup Crossing(o, FALSE)
                                       \cup (IF Of(o) = {} THEN {"filed"} ELSE {})]
    /\ UNCHANGED keeper

-----------------------------------------------------------------------------
(* Removing.                                                               *)

OpenRemove(k, o, e) ==
    BeginCall(k, [at |-> "remove", owner |-> o, entry |-> e, tick |-> FALSE, counted |-> 0])

\* deleteMany, the owner in the filter.
DropEntry(k) ==
    LET call == keeper[k]
    IN  /\ call.at = "remove"
        /\ IF call.entry \in Of(call.owner)
           THEN /\ book' = [book EXCEPT ![call.entry] = NoEntry]
                /\ keeper' = [keeper EXCEPT ![k].at = "find"]
           ELSE Idle(k) /\ UNCHANGED book
        /\ UNCHANGED <<lastMade, doubt, bookCalls>>

\* findFirst: the newest survivor.
FindRemaining(k) ==
    LET rest == Of(keeper[k].owner)
    IN  /\ keeper[k].at = "find"
        /\ IF rest = {} THEN Idle(k)
           ELSE keeper' = [keeper EXCEPT ![k].at = "count", ![k].entry = Newest(rest)]
        /\ UNCHANGED <<book, lastMade, doubt, bookCalls>>

CountDefaults(k) ==
    /\ keeper[k].at = "count"
    /\ IF Defaults(keeper[k].owner) = {} THEN keeper' = [keeper EXCEPT ![k].at = "promote"] ELSE Idle(k)
    /\ UNCHANGED <<book, lastMade, doubt, bookCalls>>

\* The survivor is the default; one removed meanwhile fails the call. Found and
\* counted with nobody else about, it leaves no doubt.
Promote(k) ==
    LET call == keeper[k]
        o == call.owner
        fits == call.entry \in Of(o)
    IN  /\ call.at = "promote"
        /\ book' = IF fits THEN [book EXCEPT ![call.entry].default = TRUE] ELSE book
        /\ doubt' = [doubt EXCEPT ![o] = IF fits /\ "crossed" \notin @ THEN {} ELSE @]
        /\ Idle(k)
        /\ UNCHANGED <<lastMade, bookCalls>>

\* The process goes: a transaction with it, a removal where it had come to.
DieKeeping(k) ==
    LET call == keeper[k]
    IN  /\ call.at # "idle"
        /\ doubt' = IF call.at \in {"find", "count", "promote"}
                    THEN [doubt EXCEPT ![call.owner] = @ \cup {"cut"}] ELSE doubt
        /\ Idle(k)
        /\ UNCHANGED <<book, lastMade, bookCalls>>

BookNext ==
    \/ \E o \in Owners :
           \/ FileWithOrder(o)
           \/ \E k \in Keepers, e \in {Unmade} \cup 1..lastMade :
                  \/ \E tick \in BOOLEAN : OpenSave(k, o, e, tick)
                  \/ e # Unmade /\ OpenRemove(k, o, e)
    \/ \E k \in Keepers :
           \/ CommitSave(k) \/ DropEntry(k) \/ FindRemaining(k) \/ CountDefaults(k) \/ Promote(k)
           \/ DieKeeping(k)

-----------------------------------------------------------------------------

BookTypeOK ==
    /\ \A e \in Entries : book[e].owner = Nobody => book[e] = NoEntry
    /\ lastMade \in {0} \cup Entries /\ bookCalls \in 0..MaxBookCalls
    /\ \A k \in Keepers : keeper[k].at \in {"idle", "save"} \cup Removing
    /\ \A o \in Owners : doubt[o] \subseteq {"crossed", "unticked", "filed", "cut"}

\* A book with anything in it has exactly one default, however saves overlap;
\* what may upset it is a removal that another call crossed or a crash cut, an
\* order filed into an empty book and an edit that unticked it (customer-account.ts:74-82).
OneDefaultAddress ==
    \A o \in Owners :
        (doubt[o] = {} /\ Of(o) # {} /\ \A k \in Busy(o) : keeper[k].at \notin Removing)
            => Cardinality(Defaults(o)) = 1

\* Two defaults take a removal that something crossed: no save makes them.
TwoTakeACrossing == \A o \in Owners : Cardinality(Defaults(o)) > 1 => "crossed" \in doubt[o]

\* What the form filed stays within the cap but for calls that overlap, one for
\* each beyond the first (customer-account.ts:127-129).
BookHasRoom ==
    \A o \in Owners :
        Cardinality({e \in Of(o) : book[e].filed = "form"}) <= MaxAddresses + Cardinality(Keepers) - 1

\* No call, whatever id it is given, changes a row of another customer
\* (customer-account.ts:4-9).
OthersAreUntouched ==
    [][\A e \in Entries : book'[e] # book[e] /\ book[e] # NoEntry =>
           \E k \in Keepers : keeper[k].owner = book[e].owner /\ book'[e].owner \in {book[e].owner, Nobody}]_bookVars

-----------------------------------------------------------------------------
(* Why it holds.                                                           *)

AddressRow == [owner : Owners \cup {Nobody}, default : BOOLEAN, filed : {"none", "form", "order"}]

KeeperCall ==
    [at : {"idle", "save"} \cup Removing, owner : Owners \cup {Nobody}, entry : Entries \cup {Unmade},
     tick : BOOLEAN, counted : Nat]

BookTyped ==
    /\ book \in [Entries -> AddressRow] /\ keeper \in [Keepers -> KeeperCall]
    /\ doubt \in [Owners -> SUBSET {"crossed", "unticked", "filed", "cut"}]
    /\ lastMade \in 0..Cardinality(Entries)
    /\ \A e \in Entries : book[e].owner = Nobody \/ e > lastMade => book[e] = NoEntry
    /\ \A k \in Keepers : keeper[k].at # "idle" <=> keeper[k].owner \in Owners

\* A removal and what is beside it of the same customer have crossed.
CrossingsKnown ==
    \A o \in Owners : "crossed" \notin doubt[o] =>
        \A k, l \in Busy(o) : keeper[k].at \in Removing => k = l

\* Where nothing crossed there is one default at most, a removal about to promote
\* found none, and a save that counted something has it there still.
BookUncrossed(o) ==
    /\ \A e, f \in Defaults(o) : e = f
    /\ \A k \in Busy(o) :
          /\ keeper[k].at = "promote" => Defaults(o) = {}
          /\ keeper[k].at \in {"count", "promote"} => keeper[k].entry \in Of(o)
          /\ keeper[k].at = "save" /\ keeper[k].counted # 0 => Of(o) # {}

\* A book nothing has befallen has its default, but while a removal looks for one.
DefaultStands ==
    \A o \in Owners :
        doubt[o] = {} /\ Of(o) # {} /\ (\A k \in Busy(o) : keeper[k].at \in {"save", "remove"}) => Defaults(o) # {}

FormFiled(o) == {e \in Of(o) : book[e].filed = "form"}
Adding(o) == {k \in Busy(o) : keeper[k].at = "save" /\ keeper[k].entry = Unmade /\ keeper[k].counted < MaxAddresses}
RoomForAll == \A o \in Owners : Cardinality(FormFiled(o)) + Cardinality(Adding(o)) <= MaxAddresses + Cardinality(Keepers) - 1

BookInv ==
    /\ BookTyped /\ CrossingsKnown /\ DefaultStands /\ RoomForAll
    /\ \A o \in Owners : "crossed" \notin doubt[o] => BookUncrossed(o)

=============================================================================
