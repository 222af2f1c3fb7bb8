------------------------------- MODULE Consent -------------------------------
(***************************************************************************)
(* A customer's answer to the cookie banner (core/src/write/privacy.ts).   *)
(* Each device keeps its own in a cookie; a signed-in device also posts it *)
(* to the account, and a sign-in settles the two: the newer answer wins.   *)
(* Every answer the account takes is appended to a history.                *)
(***************************************************************************)
EXTENDS Integers, Sequences, FiniteSets, SequencesExt

CONSTANTS
    Devices,        \* browsers of one customer
    Skewed,         \* those whose clock runs ahead
    SignInOverlap,  \* whether an answer may arrive inside a sign-in's transaction
    MostAnswers,    \* bound: answers given
    MostSignIns     \* bound: sign-ins

ASSUME ConsentAssumption ==
    /\ Skewed \subseteq Devices /\ SignInOverlap \in BOOLEAN
    /\ {MostAnswers, MostSignIns} \subseteq Nat

VARIABLES
    cookie,      \* bk_consent on each device: the answer and when it was given
    signedIn,    \* devices signed in
    posts,       \* recordBannerConsent calls under way
    account,     \* Customer: adsConsent and consentUpdatedAt
    history,     \* ConsentRecord rows of the customer
    settling,    \* sign-ins under way: the account as their transaction sees it
    said,        \* when the customer gave the latest answer that is the account's to know
    overtaken,   \* whether an answer reached the account out of turn
    newest,      \* when the latest answer of all was given
    hour,        \* the server's time
    answers,     \* answers given
    signIns      \* sign-ins begun

consentVars == <<cookie, signedIn, posts, account, history, settling, said, overtaken, newest, hour, answers, signIns>>

BannerAnswers == {"granted", "denied"}
Unanswered == [choice |-> "unanswered", at |-> 0, given |-> 0]
NotSettling == [on |-> FALSE, stored |-> Unanswered]
ClockOf(d) == hour + IF d \in Skewed THEN 2 ELSE 0

ConsentInit ==
    /\ cookie = [d \in Devices |-> Unanswered]
    /\ signedIn = {} /\ posts = {} /\ account = Unanswered /\ history = <<>>
    /\ settling = [d \in Devices |-> NotSettling]
    /\ said = 0 /\ overtaken = FALSE /\ newest = 0 /\ hour = 1 /\ answers = 0 /\ signIns = 0

-----------------------------------------------------------------------------

\* The banner is answered on a device, which posts it.
Answer(d, choice) ==
    /\ answers < MostAnswers
    /\ cookie' = [cookie EXCEPT ![d] = [choice |-> choice, at |-> ClockOf(d), given |-> hour]]
    /\ posts' = posts \cup {[device |-> d, choice |-> choice, known |-> d \in signedIn, given |-> hour]}
    /\ said' = IF d \in signedIn THEN hour ELSE said
    /\ newest' = hour /\ hour' = hour + 1 /\ answers' = answers + 1
    /\ UNCHANGED <<signedIn, account, history, settling, overtaken, signIns>>

\* recordConsents only ever appends.
Recorded(choice, source) == Append(history, [choice |-> choice, source |-> source])

\* Mutant: the account is left to the next sign-in.
MutantAnswered(post) == account

\* What an answer makes of the account: a stranger's is only filed under the device.
Answered(post) == IF post.known THEN [choice |-> post.choice, at |-> hour, given |-> post.given] ELSE account

\* recordBannerConsent, at the server's own time.
RecordBannerConsent(post) ==
    /\ post \in posts
    /\ post.known /\ ~SignInOverlap => \A d \in Devices : ~settling[d].on
    /\ posts' = posts \ {post}
    /\ account' = Answered(post)
    /\ history' = IF post.known THEN Recorded(post.choice, "BANNER") ELSE history
    /\ overtaken' = (overtaken \/ (post.known /\ post.given < newest))
    /\ hour' = hour + 1
    /\ UNCHANGED <<cookie, signedIn, settling, said, newest, answers, signIns>>

\* A post that never arrives.
LosePost(post) ==
    /\ posts' = posts \ {post}
    /\ overtaken' = (overtaken \/ post.known)
    /\ UNCHANGED <<cookie, signedIn, account, history, settling, said, newest, hour, answers, signIns>>

\* verifyOtp begins its transaction; a device answers nothing while it signs in.
OpenSignIn(d) ==
    /\ d \notin signedIn /\ ~settling[d].on /\ signIns < MostSignIns
    /\ SignInOverlap \/ \A e \in Devices : ~settling[e].on
    /\ signIns' = signIns + 1
    /\ settling' = [settling EXCEPT ![d] = [on |-> TRUE, stored |-> account]]
    /\ UNCHANGED <<cookie, signedIn, posts, account, history, said, overtaken, newest, hour, answers>>

DeviceIsNewer(d) == cookie[d].at # 0 /\ cookie[d].at > settling[d].stored.at

\* What the storefront puts on the device afterwards.
HandedBack(d) == IF DeviceIsNewer(d) \/ settling[d].stored.at = 0 THEN cookie[d] ELSE settling[d].stored

\* reconcileSigninConsent
SettleSignIn(d) ==
    /\ settling[d].on
    /\ account' = IF DeviceIsNewer(d) THEN cookie[d] ELSE account
    /\ history' = IF DeviceIsNewer(d) THEN Recorded(cookie[d].choice, "SIGNIN") ELSE history
    /\ cookie' = [cookie EXCEPT ![d] = HandedBack(d)]
    /\ signedIn' = signedIn \cup {d}
    /\ settling' = [settling EXCEPT ![d] = NotSettling]
    /\ said' = IF cookie[d].given > said THEN cookie[d].given ELSE said
    /\ UNCHANGED <<posts, overtaken, newest, hour, answers, signIns>>

SignOut(d) ==
    /\ d \in signedIn
    /\ signedIn' = signedIn \ {d}
    /\ UNCHANGED <<cookie, posts, account, history, settling, said, overtaken, newest, hour, answers, signIns>>

ConsentNext ==
    \/ \E d \in Devices :
          \/ \E choice \in BannerAnswers : ~settling[d].on /\ Answer(d, choice)
          \/ OpenSignIn(d) \/ SettleSignIn(d) \/ SignOut(d)
    \/ \E post \in posts : RecordBannerConsent(post) \/ LosePost(post)

-----------------------------------------------------------------------------

ConsentTypeOK ==
    /\ \A d \in Devices : cookie[d].choice \in BannerAnswers \cup {"unanswered"}
    /\ account.choice \in BannerAnswers \cup {"unanswered"}
    /\ ToSet(history) \subseteq [choice : BannerAnswers, source : {"BANNER", "SIGNIN"}]
    /\ hour \in 1..2 * MostAnswers + 1 /\ answers \in 0..MostAnswers /\ signIns \in 0..MostSignIns

\* The account stands by an answer its history can prove: the last one on it
\* (privacy.ts:58-63).
HistoryProvesTheAnswer == account.at # 0 => history # <<>> /\ Last(history).choice = account.choice

\* The account holds the latest answer given on a signed-in device or brought by
\* a sign-in, so a "yes" taken back is not handed to the next device
\* (privacy.ts:190-196): unless posts were lost or came out of turn.
TakenBackStays == ~overtaken /\ (\A post \in posts : ~post.known) => account.given = said

\* The newer answer wins: a device that has just signed in and its account
\* agree, and neither holds an answer older than the other did.
NewerAnswerWins ==
    [][\A d \in Devices : settling[d].on /\ ~settling'[d].on =>
         /\ cookie'[d].choice = account'.choice \/ account'.at = 0
         /\ account'.at >= account.at /\ account'.at >= cookie[d].at]_consentVars

-----------------------------------------------------------------------------
(* Why it holds.                                                           *)

Replies == {reply \in [choice : BannerAnswers \cup {"unanswered"}, at : Nat, given : Nat] :
               reply.at # 0 => reply.choice \in BannerAnswers}

ConsentTyped ==
    /\ hour \in Nat \ {0} /\ answers \in 0..MostAnswers /\ signIns \in 0..MostSignIns
    /\ cookie \in [Devices -> Replies] /\ account \in Replies /\ account.given < hour
    /\ \A d \in Devices : cookie[d].given < hour /\ settling[d].stored.given < hour
    /\ settling \in [Devices -> [on : BOOLEAN, stored : Replies]]
    /\ signedIn \subseteq Devices /\ overtaken \in BOOLEAN
    /\ said \in 0..hour - 1 /\ newest \in 0..hour - 1
    /\ posts \subseteq [device : Devices, choice : BannerAnswers, known : BOOLEAN, given : 0..hour - 1]
    /\ history \in Seq([choice : BannerAnswers, source : {"BANNER", "SIGNIN"}])
    /\ IsFiniteSet(posts) /\ hour + Cardinality(posts) <= 2 * answers + 1

\* A sign-in that nothing overlaps is alone, and sees the account as it is.
SignInIsAlone ==
    ~SignInOverlap => \A d \in Devices : settling[d].on =>
        settling[d].stored = account /\ \A e \in Devices : settling[e].on => e = d

\* Answers are filed no earlier than they are given.
FiledInTime ==
    /\ account.at < hour /\ account.given <= account.at /\ account.given <= newest /\ said <= newest
    /\ \A post \in posts : post.known => post.given <= said
    /\ \A d \in Devices : cookie[d].given <= newest /\ cookie[d].at < hour

\* What a device holds is as it was given there or came from the account, and what
\* the account is ahead of is older than the account's own.
AccountIsAhead ==
    \A d \in Devices :
        /\ cookie[d].at = cookie[d].given \/ cookie[d].at <= account.at
        /\ ~overtaken /\ cookie[d].at <= account.at => cookie[d].given <= account.given

ConsentInv ==
    /\ ConsentTyped /\ HistoryProvesTheAnswer /\ SignInIsAlone
    /\ ~SignInOverlap /\ Skewed = {} => FiledInTime /\ AccountIsAhead /\ TakenBackStays

=============================================================================
