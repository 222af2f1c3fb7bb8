------------------------------ MODULE AdminSignIn ------------------------------
(***************************************************************************)
(* One admin's sign-in: the password and the second step (core/src/        *)
(* auth.ts), the app's codes, the recovery codes and the account screen    *)
(* (core/src/two-factor.ts).                                               *)
(*                                                                         *)
(* A request is one call at work; what it reads is one step and what it    *)
(* writes another.  A session is the sessionVersion it was minted with and *)
(* whether its sign-in passed a second step.                               *)
(***************************************************************************)
EXTENDS Integers, FiniteSets

CONSTANTS
    SignIns,         \* calls at work
    Roles,           \* "OWNER", who must have a second step, and "STAFF", who may
    Papers,          \* bound: secrets and sheets of recovery codes that are made
    LastStep,        \* bound: thirty-second steps of the clock
    MaxPasswords,    \* bound: changes of the password
    EnrolOverlap     \* may calls that change the second step overlap one another, or a code being checked?

ASSUME AdminSignInAssumption ==
    /\ Roles \subseteq {"OWNER", "STAFF"} /\ Roles # {}
    /\ Papers \in Nat
    /\ LastStep \in Nat \ {0}
    /\ MaxPasswords \in Nat
    /\ EnrolOverlap \in BOOLEAN

VARIABLES
    admin,      \* AdminUser: role, version, live and pending secret, last step used, the sheet of recovery codes and what is left of it
    clock,      \* the thirty-second step it is
    sessions,   \* sessions that were issued
    signIn,     \* what each call is doing
    made,       \* secrets and sheets made so far
    passed      \* codes that finished a second step, and how often

adminVars == <<admin, clock, sessions, signIn, made, passed>>

\* A sheet has one code here: what is left of it is whether that is unspent.
FreshAdmin(role) ==
    [role |-> role, version |-> 0, secret |-> 0, pending |-> 0, lastStep |-> 0, sheet |-> 0, unspent |-> FALSE]

NoSignIn == [at |-> "idle", version |-> 0, secret |-> 0, step |-> 0, sheet |-> 0, enrolled |-> FALSE]

AdminInit ==
    /\ \E role \in Roles : admin = FreshAdmin(role)
    /\ clock = 1
    /\ sessions = {}
    /\ signIn = [c \in SignIns |-> NoSignIn]
    /\ made = 0
    /\ passed = [code \in {"app", "paper"} \X (0..Papers) \X (0..(LastStep + 1)) |-> 0]

Enrolled == admin.secret # 0

\* twoFactorRequired, the key being there.
MustEnrol == admin.role = "OWNER"

\* Calls that read the second step's set-up and then change it.
ChangingFactor == \E c \in SignIns : signIn[c].at \in {"activate", "regenerate"}

MayChangeFactor == EnrolOverlap \/ ~ ChangingFactor

\* Nobody has a code in hand that was checked against the set-up as it was.
NoCodeInHand == EnrolOverlap \/ \A c \in SignIns : signIn[c].at # "app"

\* resolveAdminSession: a session is good while nothing moved the version, and
\* for an owner only once the second step is set up.
SessionResolves(session) ==
    /\ session.version = admin.version
    /\ MustEnrol => Enrolled

-----------------------------------------------------------------------------
(* Signing in.                                                             *)

\* The right password; whether a second step is owed was read with it.
ReadPassword(c) ==
    /\ signIn[c] = NoSignIn
    /\ signIn' = [signIn EXCEPT ![c] = [NoSignIn EXCEPT !.at = "password", !.version = admin.version,
                                                        !.enrolled = Enrolled]]
    /\ UNCHANGED <<admin, clock, sessions, made, passed>>

\* The version the session is minted with is the one read with the password.
Minted(c) == signIn[c].version

\* No second step owed: the sign-in is finished.
FinishPassword(c) ==
    /\ signIn[c].at = "password" /\ ~ signIn[c].enrolled /\ ~ MustEnrol
    /\ sessions' = sessions \cup {[version |-> Minted(c), two |-> FALSE]}
    /\ signIn' = [signIn EXCEPT ![c] = NoSignIn]
    /\ UNCHANGED <<admin, clock, made, passed>>

\* A second step was owed; the challenge carries the version, and nothing may
\* have moved it since.
Challenged(c) ==
    /\ signIn[c].at = "password" /\ signIn[c].version = admin.version
    /\ signIn[c].enrolled \/ MustEnrol

\* verifyTotp: a step either side, and none at or before the last one used.
StepsAround == (clock - 1)..(clock + 1)
StepsShown == {step \in StepsAround : step > admin.lastStep}

\* completeSecondFactor, up to the spend: a code the app shows.
CheckAppCode(c, step) ==
    /\ Challenged(c) /\ Enrolled
    /\ step \in StepsShown
    /\ signIn' = [signIn EXCEPT ![c].at = "app", ![c].secret = admin.secret, ![c].step = step]
    /\ UNCHANGED <<admin, clock, sessions, made, passed>>

\* The spend is conditional on the last step used.
StepIsNew(c) == admin.lastStep < signIn[c].step

SpendAppCode(c) ==
    /\ signIn[c].at = "app"
    /\ IF StepIsNew(c)
       THEN /\ admin' = [admin EXCEPT !.lastStep = signIn[c].step]
            /\ passed' = [passed EXCEPT ![<<"app", signIn[c].secret, signIn[c].step>>] = @ + 1]
            /\ sessions' = sessions \cup {[version |-> Minted(c), two |-> TRUE]}
       ELSE UNCHANGED <<admin, passed, sessions>>
    /\ signIn' = [signIn EXCEPT ![c] = NoSignIn]
    /\ UNCHANGED <<clock, made>>

CheckPaperCode(c) ==
    /\ Challenged(c) /\ Enrolled
    /\ admin.unspent
    /\ signIn' = [signIn EXCEPT ![c].at = "paper", ![c].sheet = admin.sheet]
    /\ UNCHANGED <<admin, clock, sessions, made, passed>>

\* Read again under the row's lock.
StillOnPaper(c) == admin.sheet = signIn[c].sheet /\ admin.unspent

SpendPaperCode(c) ==
    /\ signIn[c].at = "paper"
    /\ IF StillOnPaper(c)
       THEN /\ admin' = [admin EXCEPT !.unspent = FALSE]
            /\ passed' = [passed EXCEPT ![<<"paper", signIn[c].sheet, 0>>] = @ + 1]
            /\ sessions' = sessions \cup {[version |-> Minted(c), two |-> TRUE]}
       ELSE UNCHANGED <<admin, passed, sessions>>
    /\ signIn' = [signIn EXCEPT ![c] = NoSignIn]
    /\ UNCHANGED <<clock, made>>

-----------------------------------------------------------------------------
(* Setting the second step up, and the account screen.                     *)

Signed(session) == session \in sessions /\ SessionResolves(session)

\* An owner enrolling at sign-in is shown the waiting secret again; on the
\* account screen, behind the password, a new one is made.
PendingSetup ==
    /\ MayChangeFactor
    /\ made < Papers
    /\ \/ \E c \in SignIns : Challenged(c) /\ ~ Enrolled /\ admin.pending = 0
       \/ \E session \in sessions : Signed(session)
    /\ made' = made + 1
    /\ admin' = [admin EXCEPT !.pending = made + 1]
    /\ UNCHANGED <<clock, sessions, signIn, passed>>

\* activatePending, up to its write: a code of the pending secret, of which none
\* was used yet.
ReadPending(c, step) ==
    /\ MayChangeFactor /\ step \in StepsAround
    /\ \/ Challenged(c) /\ ~ Enrolled
       \/ signIn[c] = NoSignIn /\ \E session \in sessions : Signed(session)
    /\ admin.pending # 0
    /\ signIn' = [signIn EXCEPT ![c] = [NoSignIn EXCEPT !.at = "activate", !.secret = admin.pending, !.step = step]]
    /\ UNCHANGED <<admin, clock, sessions, made, passed>>

VersionAfter == admin.version + 1

\* The pending secret is the live one, with a new sheet; every session from
\* before ends and this browser is minted another.
Activate(c) ==
    /\ signIn[c].at = "activate"
    /\ NoCodeInHand
    /\ made < Papers
    /\ made' = made + 1
    /\ admin' = [admin EXCEPT !.version = VersionAfter, !.secret = signIn[c].secret, !.pending = 0,
                              !.lastStep = signIn[c].step, !.sheet = made + 1, !.unspent = TRUE]
    /\ passed' = [passed EXCEPT ![<<"app", signIn[c].secret, signIn[c].step>>] = @ + 1]
    /\ sessions' = sessions \cup {[version |-> VersionAfter, two |-> TRUE]}
    /\ signIn' = [signIn EXCEPT ![c] = NoSignIn]
    /\ UNCHANGED clock

\* regenerateRecoveryCodes: an app code is spent, and then the sheet replaced.  The
\* code is checked and spent in one step here: the spend is conditional (spendTotp).
SpendForSheet(c, step) ==
    /\ MayChangeFactor
    /\ signIn[c] = NoSignIn
    /\ \E session \in sessions : Signed(session)
    /\ Enrolled /\ step \in StepsShown
    /\ admin' = [admin EXCEPT !.lastStep = step]
    /\ passed' = [passed EXCEPT ![<<"app", admin.secret, step>>] = @ + 1]
    /\ signIn' = [signIn EXCEPT ![c] = [NoSignIn EXCEPT !.at = "regenerate"]]
    /\ UNCHANGED <<clock, sessions, made>>

Regenerate(c) ==
    /\ signIn[c].at = "regenerate"
    /\ made < Papers
    /\ made' = made + 1
    /\ admin' = [admin EXCEPT !.sheet = made + 1, !.unspent = TRUE]
    /\ signIn' = [signIn EXCEPT ![c] = NoSignIn]
    /\ UNCHANGED <<clock, sessions, passed>>

\* disableTwoFactor, behind the password; not for an owner.
DisableTwoFactor ==
    /\ MayChangeFactor /\ NoCodeInHand
    /\ ~ MustEnrol
    /\ \E session \in sessions : Signed(session)
    /\ admin' = [admin EXCEPT !.secret = 0, !.pending = 0, !.lastStep = 0, !.sheet = 0, !.unspent = FALSE]
    /\ UNCHANGED <<clock, sessions, signIn, made, passed>>

\* changeAdminPassword: every other device is signed out.
ChangePassword ==
    /\ admin.version < MaxPasswords
    /\ \E session \in sessions :
          /\ Signed(session)
          /\ admin' = [admin EXCEPT !.version = @ + 1]
          /\ sessions' = sessions \cup {[version |-> admin.version + 1, two |-> session.two]}
    /\ UNCHANGED <<clock, signIn, made, passed>>

SignInDies(c) ==
    /\ signIn[c] # NoSignIn
    /\ signIn' = [signIn EXCEPT ![c] = NoSignIn]
    /\ UNCHANGED <<admin, clock, sessions, made, passed>>

ClockTicks ==
    /\ clock < LastStep
    /\ clock' = clock + 1
    /\ UNCHANGED <<admin, sessions, signIn, made, passed>>

AdminNext ==
    \/ \E c \in SignIns : \/ ReadPassword(c) \/ FinishPassword(c) \/ SpendAppCode(c)
                          \/ CheckPaperCode(c) \/ SpendPaperCode(c) \/ Activate(c)
                          \/ Regenerate(c) \/ SignInDies(c)
    \/ \E c \in SignIns, step \in 1..(LastStep + 1) : CheckAppCode(c, step) \/ SpendForSheet(c, step)
    \/ \E c \in SignIns, step \in 0..(LastStep + 1) : ReadPending(c, step)
    \/ PendingSetup \/ DisableTwoFactor \/ ChangePassword \/ ClockTicks

AdminSpec == AdminInit /\ [][AdminNext]_adminVars

-----------------------------------------------------------------------------
(* What signing in promises.                                               *)

AdminTypeOK ==
    /\ admin \in [role : Roles, version : Nat, secret : 0..Papers, pending : 0..Papers, lastStep : 0..(LastStep + 1),
                  sheet : 0..Papers, unspent : BOOLEAN]
    /\ clock \in 1..LastStep
    /\ sessions \subseteq [version : Nat, two : BOOLEAN]
    /\ made \in 0..Papers

\* While the second step is set up, a session that resolves has passed one,
\* whatever was changed while its sign-in was under way ("every session from
\* before ... ends").
SessionsPassedTwoSteps ==
    Enrolled => \A session \in sessions : SessionResolves(session) => session.two

\* A code finishes one second step, not two ("the same code sent twice at the
\* same moment passes once", spendTotp and spendRecoveryCode), also where
\* another set-up is finished meanwhile.
CodePassesOnce == \A code \in DOMAIN passed : passed[code] <= 1
-----------------------------------------------------------------------------
(* Why it holds: a version tells which set-up a sign-in was begun under,   *)
(* and nothing is passed with that is not newer than what was.             *)

SignInTypeOK ==
    /\ signIn \in [SignIns ->
          [at : {"idle", "password", "app", "paper", "activate", "regenerate"},
           version : Nat, secret : 0..Papers, step : 0..(LastStep + 1), sheet : 0..Papers, enrolled : BOOLEAN]]
    /\ passed \in [{"app", "paper"} \X (0..Papers) \X (0..(LastStep + 1)) -> Nat]

\* Nothing is of a version that is still to come, and what began before the
\* second step was set up is of one that is gone.
VersionsTell ==
    /\ \A session \in sessions : session.version <= admin.version
    /\ \A c \in SignIns :
          /\ signIn[c].version <= admin.version
          /\ signIn[c].at = "password" /\ ~ signIn[c].enrolled /\ Enrolled =>
                signIn[c].version < admin.version

\* A call that changes the second step is the only one, and the set-up it read
\* is still the one there is.
HeldIsCurrent ==
    /\ \A c, d \in SignIns :
          signIn[c].at = "activate" /\ signIn[d].at = "activate" => c = d
    /\ \A c \in SignIns :
          /\ signIn[c].at = "activate" => signIn[c].secret = admin.pending /\ signIn[c].secret # 0
          /\ signIn[c].at = "app" => signIn[c].secret = admin.secret /\ admin.secret # 0
          /\ signIn[c].at = "paper" => signIn[c].sheet <= made

\* Secrets and sheets are numbered as they are made, and a code that has passed
\* is of the waiting secret never, and of the live one no newer than the last.
PassedIsPast ==
    /\ admin.secret <= made /\ admin.pending <= made /\ admin.sheet <= made
    /\ admin.pending # 0 => admin.pending # admin.secret
    /\ \A s \in 0..Papers, k \in 0..(LastStep + 1) :
          /\ passed[<<"app", s, k>>] > 0 =>
                /\ s # 0 /\ s <= made /\ s # admin.pending
                /\ s = admin.secret => k <= admin.lastStep
          /\ passed[<<"paper", s, k>>] > 0 =>
                /\ s <= made
                /\ s = admin.sheet => ~ admin.unspent

AdminInv ==
    /\ AdminTypeOK /\ SignInTypeOK /\ VersionsTell /\ HeldIsCurrent /\ PassedIsPast
    /\ SessionsPassedTwoSteps /\ CodePassesOnce
=============================================================================
