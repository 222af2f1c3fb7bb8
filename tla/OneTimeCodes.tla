----------------------------- MODULE OneTimeCodes -----------------------------
(***************************************************************************)
(* Codes sent to one phone (core/src/write/customer-auth.ts): issued by    *)
(* issueOtp, spent by spendOtp to confirm a cash-on-delivery order or the  *)
(* deletion of an account, and by verifyOtp to sign in.                    *)
(*                                                                         *)
(* A caller is one request at work.  What it reads is one step and what it *)
(* writes another.  Retiring the earlier codes and making the new one is   *)
(* one transaction, whose locks on the phone's rows let one at a time by.  *)
(***************************************************************************)
EXTENDS Integers, Sequences, FiniteSets, FiniteSetsExt

CONSTANTS
    CodePurposes,  \* of "LOGIN", "COD" and "ERASE", those the instance has
    Callers,       \* requests at work
    MaxGuesses,    \* MAX_ATTEMPTS
    MaxCodesSent   \* MAX_SENDS, in a window that does not pass

ASSUME OneTimeCodesAssumption ==
    /\ CodePurposes \subseteq {"LOGIN", "COD", "ERASE"}
    /\ Callers # {} /\ IsFiniteSet(Callers)
    /\ MaxGuesses \in Nat
    /\ MaxCodesSent \in Nat \ {0}

VARIABLES
    codes,    \* CustomerOtp rows, the newest last
    caller    \* what each request is doing

codeVars == <<codes, caller>>

\* used: what each code was good for, and how often.
NewCode(purpose) ==
    [purpose |-> purpose, consumed |-> FALSE, expired |-> FALSE, attempts |-> 0, used |-> 0, usedFor |-> {}]

IdleCaller == [at |-> "idle", purpose |-> "none", code |-> 0]

CodesInit ==
    /\ codes = <<>>
    /\ caller = [c \in Callers |-> IdleCaller]

-----------------------------------------------------------------------------

CodesSent(purpose) == Len(codes)

\* issueOtp counts what was sent, for whatever purpose, and then sends.
OpenIssue(c, purpose) ==
    /\ caller[c] = IdleCaller
    /\ CodesSent(purpose) < MaxCodesSent
    /\ caller' = [caller EXCEPT ![c] = [at |-> "issue", purpose |-> purpose, code |-> 0]]
    /\ UNCHANGED codes

Retired(purpose) ==
    [i \in DOMAIN codes |->
        IF codes[i].purpose = purpose /\ ~ codes[i].expired THEN [codes[i] EXCEPT !.consumed = TRUE] ELSE codes[i]]

IssueCode(c) ==
    /\ caller[c].at = "issue"
    /\ codes' = Append(Retired(caller[c].purpose), NewCode(caller[c].purpose))
    /\ caller' = [caller EXCEPT ![c] = IdleCaller]

LiveCodes(purpose) ==
    {i \in DOMAIN codes : codes[i].purpose = purpose /\ ~ codes[i].consumed /\ ~ codes[i].expired}

OutOfGuesses(i) == codes[i].attempts >= MaxGuesses

\* The newest live code for the purpose is looked up and compared: it has had
\* its guesses, or what was typed is wrong, or is right.
CheckCode(c, purpose, right) ==
    /\ caller[c] = IdleCaller
    /\ LiveCodes(purpose) # {}
    /\ LET i == Max(LiveCodes(purpose))
       IN  caller' = [caller EXCEPT ![c] =
              [at |-> IF OutOfGuesses(i) THEN "kill" ELSE IF ~ right THEN "count" ELSE "spend",
               purpose |-> purpose, code |-> i]]
    /\ UNCHANGED codes

KillCode(c) ==
    /\ caller[c].at = "kill"
    /\ codes' = [codes EXCEPT ![caller[c].code].consumed = TRUE]
    /\ caller' = [caller EXCEPT ![c] = IdleCaller]

CountGuess(c) ==
    /\ caller[c].at = "count"
    /\ codes' = [codes EXCEPT ![caller[c].code].attempts = @ + 1]
    /\ caller' = [caller EXCEPT ![c] = IdleCaller]

Spent(i, purpose) ==
    [codes EXCEPT ![i].consumed = TRUE, ![i].used = @ + 1, ![i].usedFor = @ \cup {purpose}]

\* Mutant: the spend is not conditional.
MutantTaken(i) == FALSE

Taken(i) == codes[i].consumed

\* spendOtp: only a code that is still unspent, whatever was read before.
SpendCode(c) ==
    /\ caller[c].at = "spend" /\ caller[c].purpose # "LOGIN"
    /\ codes' = IF Taken(caller[c].code) THEN codes ELSE Spent(caller[c].code, caller[c].purpose)
    /\ caller' = [caller EXCEPT ![c] = IdleCaller]

SignedIn(c) == Spent(caller[c].code, "LOGIN")

\* verifyOtp writes the row in the sign-in's transaction, whatever it says.
SignIn(c) ==
    /\ caller[c].at = "spend" /\ caller[c].purpose = "LOGIN"
    /\ codes' = SignedIn(c)
    /\ caller' = [caller EXCEPT ![c] = IdleCaller]

\* A request that dies, or a sign-in refused in its transaction.
CallerDies(c) ==
    /\ caller[c] # IdleCaller
    /\ caller' = [caller EXCEPT ![c] = IdleCaller]
    /\ UNCHANGED codes

\* All codes live for as long, so the oldest goes first.
CodeExpires(i) ==
    /\ ~ codes[i].expired
    /\ \A j \in 1..(i - 1) : codes[j].expired
    /\ codes' = [codes EXCEPT ![i].expired = TRUE]
    /\ UNCHANGED caller

CodesNext ==
    \/ \E c \in Callers, purpose \in CodePurposes : OpenIssue(c, purpose)
    \/ \E c \in Callers, purpose \in CodePurposes, right \in BOOLEAN : CheckCode(c, purpose, right)
    \/ \E c \in Callers : \/ IssueCode(c) \/ KillCode(c) \/ CountGuess(c)
                          \/ SpendCode(c) \/ SignIn(c) \/ CallerDies(c)
    \/ \E i \in DOMAIN codes : CodeExpires(i)

CodesSpec == CodesInit /\ [][CodesNext]_codeVars

-----------------------------------------------------------------------------
(* What the codes promise, all requests overlapping as they may.           *)

CodesTypeOK ==
    /\ codes \in Seq([purpose : CodePurposes, consumed : BOOLEAN, expired : BOOLEAN, attempts : Nat,
                      used : Nat, usedFor : SUBSET CodePurposes])
    /\ caller \in [Callers -> [at : {"idle", "issue", "kill", "count", "spend"},
                               purpose : CodePurposes \cup {"none"}, code : Nat]]

\* A code confirms one order, or one deletion, however many requests arrive
\* together with it ("the difference between one order and two").
ConfirmsOnce == \A i \in DOMAIN codes : codes[i].purpose # "LOGIN" => codes[i].used <= 1

\* A sign-in code is good for the requests that arrive together with it, and
\* never for one that comes later.  The comment at customer-auth.ts:391-393 has it
\* that a code "cannot be spent twice by two requests arriving together"; the
\* update after it (395-399) sets consumedAt without asking whether it is set, so
\* it can, once for each of them, and this is what holds instead.
SignsInTogetherAtMost == \A i \in DOMAIN codes : codes[i].used <= Cardinality(Callers)

\* A code is good for what it was sent for and nothing else (OtpPurpose).
PurposesKeptApart == \A i \in DOMAIN codes : codes[i].usedFor \subseteq {codes[i].purpose}

\* A code takes no more wrong guesses than its limit, and those already on
\* their way when it was reached.
GuessesBounded == \A i \in DOMAIN codes : codes[i].attempts <= MaxGuesses + Cardinality(Callers) - 1

\* Of the codes sent for one purpose only the newest is ever good ("Two valid
\* codes at once means the older message still works").
NewestOnly == \A purpose \in CodePurposes : Cardinality(LiveCodes(purpose)) <= 1

\* No more codes are sent in a window than its limit and those already on
\* their way when it was reached.
CodesSentBounded == Len(codes) <= MaxCodesSent + Cardinality(Callers) - 1
-----------------------------------------------------------------------------
(* Why it holds: who has a code in hand counts towards what it may still   *)
(* be good for.                                                            *)

Issuing == {c \in Callers : caller[c].at = "issue"}

Counting(i) == {c \in Callers : caller[c].at = "count" /\ caller[c].code = i}

Spending(i) == {c \in Callers : caller[c].at = "spend" /\ caller[c].code = i}

\* A caller has a code of the purpose it looked for.
CallersHoldCodes ==
    \A c \in Callers :
        /\ caller[c].at \in {"kill", "count", "spend"} =>
              /\ caller[c].code \in DOMAIN codes
              /\ codes[caller[c].code].purpose = caller[c].purpose
        /\ caller[c].at # "idle" => caller[c].purpose \in CodePurposes

\* What was good for anything is spent, so nobody new is shown it.
GoodOnceSpent == \A i \in DOMAIN codes : codes[i].used > 0 => codes[i].consumed

OneLive ==
    \A i, j \in DOMAIN codes :
        /\ codes[i].purpose = codes[j].purpose
        /\ ~ codes[i].consumed /\ ~ codes[i].expired /\ ~ codes[j].consumed /\ ~ codes[j].expired
        => i = j

Allowance ==
    /\ Len(codes) + Cardinality(Issuing) <= MaxCodesSent + Cardinality(Callers) - 1
    /\ \A i \in DOMAIN codes :
          /\ codes[i].attempts + Cardinality(Counting(i)) <= MaxGuesses + Cardinality(Callers) - 1
          /\ codes[i].used + Cardinality(Spending(i)) <= Cardinality(Callers) \/ codes[i].purpose # "LOGIN"

CodesInv ==
    /\ CodesTypeOK /\ CallersHoldCodes /\ GoodOnceSpent /\ OneLive /\ Allowance
    /\ ConfirmsOnce /\ PurposesKeptApart
=============================================================================
